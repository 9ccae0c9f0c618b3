--------------------------- MODULE Gateway_proof ---------------------------
(***************************************************************************)
(* What holds of the gateway's workers for any number of tasks, clients,   *)
(* ids and slots: a row that runs has its run, the slots are shared and no *)
(* queued task waits unseen, a Stop comes before the next turn, no turn    *)
(* runs twice and none unreviewed, a done task was done, and whatever the  *)
(* gateway does to the tables is what the stores allow.                    *)
(*                                                                         *)
(* The invariant is that of the tables (TaskPlane_proof) beside that of    *)
(* the workers (Gateway_steps): while both hold a step of the gateway is a *)
(* step of the stores, which keeps the first, and the first bounds what    *)
(* the step may leave behind, which keeps the second.                      *)
(***************************************************************************)
EXTENDS Gateway_steps

Stores == INSTANCE TaskPlane_proof WITH
    Callers <- Clients, NewPriorities <- {Computed}, UserChoices <- Raised \cup {Keep},
    Outcomes <- {"interrupted"} \cup TurnOuts, Endings <- TurnOuts

BothInv == Stores!HistoryInv /\ GatewayInv

LEMMA TablesKnown ==
    ASSUME Stores!HistoryInv
    PROVE  /\ TablesTypeOK /\ ticket \in [Clients -> Tickets]
           /\ \A t \in Tasks : RowFacts(t)
<1>1. Stores!TypeOK /\ \A t \in Tasks : Stores!RowsSound(t)
  BY DEF Stores!HistoryInv, Stores!IdentityInv
<1>2. TablesTypeOK /\ ticket \in [Clients -> Tickets]
  BY <1>1 DEF Stores!TypeOK, Stores!TablesTypeOK, Stores!TaskRows, Stores!ParkRows, Stores!ProvRows,
     Stores!CaptureRows, Stores!RecoveryRows, Stores!Priorities, Stores!Levels, Stores!Sources,
     Stores!Reasons, Stores!Holds, Stores!States, Stores!Open, Stores!Terminal, Stores!Tickets,
     TablesTypeOK, TaskRows, ParkRows, ProvRows, CaptureRows, RecoveryRows, Priorities, Levels,
     Sources, Reasons, Holds, States, Open, Terminal, Tickets
<1>3. ASSUME NEW t \in Tasks PROVE RowFacts(t)
  <2>1. Stores!RowsSound(t)
    BY <1>1
  <2>. QED  BY <2>1 DEF Stores!RowsSound, Stores!LaunchSound, RowFacts, State
<1>. QED  BY <1>2, <1>3

LEMMA BothGive ==
    ASSUME BothInv
    PROVE  Inv
<1>1. GatewayInv /\ \A t \in Tasks : RowFacts(t)
  BY TablesKnown DEF BothInv
<1>. QED  BY <1>1 DEF Inv

----------------------------------------------------------------------------
(* The gateway's operations are the stores' *)

LEMMA SameHelpers ==
    /\ \A t : /\ State(t) = Stores!State(t) /\ (Live(t) <=> Stores!Live(t))
              /\ (HasParkRow(t) <=> Stores!HasParkRow(t)) /\ (IsPaused(t) <=> Stores!IsPaused(t))
              /\ Prepared(t) = Stores!Prepared(t)
    /\ \A row, op, create : Advanced(row, op, create) = Stores!Advanced(row, op, create)
    /\ \A row, prio : WithSnapshot(row, prio) = Stores!WithSnapshot(row, prio)
    /\ \A row : NoSnapshot(row) = Stores!NoSnapshot(row)
    /\ \A row, first, e, unsafe : Upserted(row, first, e, unsafe) = Stores!Upserted(row, first, e, unsafe)
    /\ \A t, row, to, exec : Carried(t, row, to, exec) = Stores!Carried(t, row, to, exec)
    /\ \A t, row : Written(t, row) = Stores!Written(t, row)
    /\ \A t, g, p : Matches(t, g, p) <=> Stores!Matches(t, g, p)
BY DEF State, Live, Open, HasParkRow, IsPaused, Prepared, Advanced, WithSnapshot, NoSnapshot, Computed,
       Upserted, Carried, Written, OthersDemoted, UserP0, Matches,
       Stores!State, Stores!Live, Stores!Open, Stores!HasParkRow, Stores!IsPaused, Stores!Prepared,
       Stores!Advanced, Stores!WithSnapshot, Stores!NoSnapshot, Stores!Computed, Stores!Upserted,
       Stores!Carried, Stores!Written, Stores!OthersDemoted, Stores!UserP0, Stores!Matches

LEMMA SameCreate ==
    ASSUME NEW t, NEW prio, NEW proof
    PROVE  Create(t, prio, proof) <=> Stores!Create(t, prio, proof)
BY SameHelpers DEF Create, Stores!Create, NoTask, Stores!NoTask, Computed, Stores!Computed

LEMMA SameChanges ==
    ASSUME NEW t, NEW choice, NEW to
    PROVE  /\ ChangePriority(t, choice) <=> Stores!ChangePriority(t, choice)
           /\ ChangeState(t, choice, to) <=> Stores!ChangeState(t, choice, to)
BY DEF ChangePriority, ChangeState, ChangedTasks, ChangedPark, NewPriority, Keep, AutoLevel, First, SameState,
       Written, OthersDemoted, UserP0, Live, Open, State, Advanced, NoSnapshot, WithSnapshot, Computed,
       Carried, CarriedWhileActive, HasParkRow, Levels, Terminal, IsPaused, Prepared, Matches, Paused,
       NoCapture,
       Stores!ChangePriority, Stores!ChangeState, Stores!ChangedTasks, Stores!ChangedPark,
       Stores!NewPriority, Stores!Keep, Stores!AutoLevel, Stores!First, Stores!SameState, Stores!Written,
       Stores!OthersDemoted, Stores!UserP0, Stores!Live, Stores!Open, Stores!State, Stores!Advanced,
       Stores!NoSnapshot, Stores!WithSnapshot, Stores!Computed, Stores!Carried,
       Stores!CarriedWhileActive, Stores!HasParkRow, Stores!Levels, Stores!Terminal, Stores!IsPaused,
       Stores!Prepared, Stores!Matches, Stores!Paused, Stores!NoCapture

LEMMA SameRows ==
    /\ \A t, choice, to : ChangedTasks(t, choice, to) = Stores!ChangedTasks(t, choice, to)
    /\ \A t, row, to, exec :
          CarriedWhileActive(t, row, to, exec) = Stores!CarriedWhileActive(t, row, to, exec)
    /\ \A t, prio, to : Restored(t, prio, to) = Stores!Restored(t, prio, to)
    /\ \A t : (MayRun(t) <=> Stores!MayRun(t)) /\ SavedPriority(t) = Stores!SavedPriority(t)
<1>1. \A t, choice, to : ChangedTasks(t, choice, to) = Stores!ChangedTasks(t, choice, to)
  BY DEF ChangedTasks, NewPriority, Keep, AutoLevel, First, SameState, OthersDemoted, UserP0, Levels,
     Terminal, Open, Computed, Paused, State, HasParkRow,
     Stores!ChangedTasks, Stores!NewPriority, Stores!Keep, Stores!AutoLevel, Stores!First,
     Stores!SameState, Stores!OthersDemoted, Stores!UserP0, Stores!Levels, Stores!Terminal,
     Stores!Open, Stores!Computed, Stores!Paused, Stores!State, Stores!HasParkRow
<1>2. \A t, row, to, exec :
        CarriedWhileActive(t, row, to, exec) = Stores!CarriedWhileActive(t, row, to, exec)
  BY DEF CarriedWhileActive, Carried, State, Stores!CarriedWhileActive, Stores!Carried, Stores!State
<1>3. \A t, prio, to : Restored(t, prio, to) = Stores!Restored(t, prio, to)
  BY SameHelpers DEF Restored, Stores!Restored
<1>4. \A t : (MayRun(t) <=> Stores!MayRun(t)) /\ SavedPriority(t) = Stores!SavedPriority(t)
  BY DEF MayRun, SavedPriority, Computed, Stores!MayRun, Stores!SavedPriority, Stores!Computed
<1>. QED  BY <1>1, <1>2, <1>3, <1>4

LEMMA SameRuns ==
    ASSUME NEW t, NEW choice, NEW e
    PROVE  /\ StartOrdinary(t, e) <=> Stores!StartOrdinary(t, e)
           /\ ContinueRunning(t, choice) <=> Stores!ContinueRunning(t, choice)
           /\ RunBare(t, choice) <=> Stores!RunBare(t, choice)
<1>1. StartOrdinary(t, e) <=> Stores!StartOrdinary(t, e)
  BY SameHelpers, SameRows DEF StartOrdinary, Keep, Stores!StartOrdinary, Stores!Keep
<1>2. ContinueRunning(t, choice) <=> Stores!ContinueRunning(t, choice)
  BY SameHelpers, SameRows DEF ContinueRunning, Stores!ContinueRunning
<1>3. RunBare(t, choice) <=> Stores!RunBare(t, choice)
  BY SameHelpers, SameRows DEF RunBare, NoCapture, Stores!RunBare, Stores!NoCapture
<1>. QED  BY <1>1, <1>2, <1>3

LEMMA SameEnds ==
    ASSUME NEW t, NEW to, NEW g, NEW p, NEW op
    PROVE  /\ Finish(t, to) <=> Stores!Finish(t, to)
           /\ GuardedStop(t, g, p, op) <=> Stores!GuardedStop(t, g, p, op)
<1>1. Finished(t, to) <=> Stores!Finished(t, to)
  BY SameHelpers, SameRows DEF Finished, NoCapture, Terminal, Keep,
     Stores!Finished, Stores!NoCapture, Stores!Terminal, Stores!Keep
<1>2. Finished(t, "cancelled") <=> Stores!Finished(t, "cancelled")
  BY SameHelpers, SameRows DEF Finished, NoCapture, Terminal, Keep,
     Stores!Finished, Stores!NoCapture, Stores!Terminal, Stores!Keep
<1>. QED  BY <1>1, <1>2, SameHelpers DEF Finish, GuardedStop, Stores!Finish, Stores!GuardedStop

LEMMA SamePauses ==
    ASSUME NEW t, NEW g, NEW p, NEW op
    PROVE  /\ Pause(t) <=> Stores!Pause(t)
           /\ Resume(t) <=> Stores!Resume(t)
           /\ RequestPause(t, g, p, op) <=> Stores!RequestPause(t, g, p, op)
           /\ CancelPause(t, g, p, op) <=> Stores!CancelPause(t, g, p, op)
<1>1. Pause(t) <=> Stores!Pause(t)
  BY SameHelpers DEF Pause, Paused, Stores!Pause, Stores!Paused
<1>2. Resume(t) <=> Stores!Resume(t)
  BY SameHelpers, SameRows DEF Resume, Stores!Resume
<1>3. RequestPause(t, g, p, op) <=> Stores!RequestPause(t, g, p, op)
  BY SameHelpers, SameRows DEF RequestPause, Paused, Stores!RequestPause, Stores!Paused
<1>4. CancelPause(t, g, p, op) <=> Stores!CancelPause(t, g, p, op)
  BY SameHelpers, SameRows DEF CancelPause, Stores!CancelPause
<1>. QED  BY <1>1, <1>2, <1>3, <1>4

LEMMA SameResumes ==
    ASSUME NEW t, NEW g, NEW p, NEW e, NEW first, NEW op, NEW level
    PROVE  /\ ResumeRecovered(t, g, p, e, first, op) <=> Stores!ResumeRecovered(t, g, p, e, first, op)
           /\ Reopen(t, level) <=> Stores!Reopen(t, level)
<1>1. ResumeRecovered(t, g, p, e, first, op) <=> Stores!ResumeRecovered(t, g, p, e, first, op)
  BY SameHelpers, SameRows DEF ResumeRecovered, Computed, Stores!ResumeRecovered, Stores!Computed
<1>2. Reopen(t, level) <=> Stores!Reopen(t, level)
  BY SameHelpers DEF Reopen, Computed, Keep, Stores!Reopen, Stores!Computed, Stores!Keep
<1>. QED  BY <1>1, <1>2

LEMMA SameParks ==
    ASSUME NEW t, NEW g, NEW p, NEW op, NEW card
    PROVE  /\ Hold(t, g, p, op) <=> Stores!Hold(t, g, p, op)
           /\ Release(t, g, p, op) <=> Stores!Release(t, g, p, op)
           /\ Park(t, g, p, op) <=> Stores!Park(t, g, p, op)
           /\ Interrupt(t, g, p, op, card) <=> Stores!Interrupt(t, g, p, op, card)
<1>1. /\ Guarded(t, g, p, op) <=> Stores!Guarded(t, g, p, op)
      /\ Unmoved <=> Stores!Unmoved
      /\ HeldRecord(t) <=> Stores!HeldRecord(t)
      /\ AtSafePoint(t) <=> Stores!AtSafePoint(t)
  BY SameHelpers DEF Guarded, Unmoved, HeldRecord, HoldRecord, AtSafePoint, PausedRow,
     Stores!Guarded, Stores!Unmoved, Stores!HeldRecord, Stores!HoldRecord, Stores!AtSafePoint, Stores!PausedRow
<1>2. ParkedRow(t, op) = Stores!ParkedRow(t, op) /\ (PauseSaved(t) <=> Stores!PauseSaved(t))
  BY SameHelpers DEF ParkedRow, PauseSaved, Stores!ParkedRow, Stores!PauseSaved
<1>3. Hold(t, g, p, op) <=> Stores!Hold(t, g, p, op)
  BY <1>1, SameHelpers DEF Hold, Stores!Hold
<1>4. Release(t, g, p, op) <=> Stores!Release(t, g, p, op)
  BY <1>1, SameHelpers DEF Release, Stores!Release
<1>5. Park(t, g, p, op) <=> Stores!Park(t, g, p, op)
  BY <1>1, <1>2 DEF Park, Stores!Park
<1>6. Interrupt(t, g, p, op, card) <=> Stores!Interrupt(t, g, p, op, card)
  BY <1>1, <1>2, SameHelpers DEF Interrupt, Computed, Paused, Stores!Interrupt, Stores!Computed, Stores!Paused
<1>. QED  BY <1>3, <1>4, <1>5, <1>6

LEMMA SameLaunches ==
    ASSUME NEW t, NEW g, NEW p, NEW e, NEW prior, NEW captures
    PROVE  /\ Start(t, g, p, e, prior, captures) <=> Stores!Start(t, g, p, e, prior, captures)
           /\ MarkIncomplete(t, g, p, e) <=> Stores!MarkIncomplete(t, g, p, e)
<1>1. Start(t, g, p, e, prior, captures) <=> Stores!Start(t, g, p, e, prior, captures)
  BY SameHelpers DEF Start, Started, NoCapture, Stores!Start, Stores!Started, Stores!NoCapture
<1>2. MarkIncomplete(t, g, p, e) <=> Stores!MarkIncomplete(t, g, p, e)
  BY SameHelpers DEF MarkIncomplete, CaptureStep, Stores!MarkIncomplete, Stores!CaptureStep
<1>. QED  BY <1>1, <1>2

LEMMA SameIntents ==
    ASSUME NEW t, NEW g, NEW p, NEW e, NEW outcome, NEW card, NEW crash, NEW unsafe, NEW r
    PROVE  /\ Prepare(t, g, p, e, outcome, card, crash, unsafe)
                 <=> Stores!Prepare(t, g, p, e, outcome, card, crash, unsafe)
           /\ Commit(r) <=> Stores!Commit(r)
           /\ Supersede(r, g, p) <=> Stores!Supersede(r, g, p)
<1>1. Prepare(t, g, p, e, outcome, card, crash, unsafe)
        <=> Stores!Prepare(t, g, p, e, outcome, card, crash, unsafe)
  BY SameHelpers DEF Prepare, Terminal, Stores!Prepare, Stores!Terminal
<1>2. Commit(r) <=> Stores!Commit(r)
  BY SameHelpers DEF Commit, Crashes, Terminal, Stores!Commit, Stores!Crashes, Stores!Terminal
<1>3. Supersede(r, g, p) <=> Stores!Supersede(r, g, p)
  BY SameHelpers DEF Supersede, Terminal, Stores!Supersede, Stores!Terminal
<1>. QED  BY <1>1, <1>2, <1>3

----------------------------------------------------------------------------
(* Every step of the gateway is a step of the stores, or of none *)

(* Only a turn that begins counts, behind its launch.                      *)
TurnStep ==
    \/ turns' = turns
    \/ \E t \in Tasks : At(t, "starting") /\ turns' = [turns EXCEPT ![t] = @ + 1]
PlaneStep == (Stores!Next \/ UNCHANGED <<tables, ticket>>) /\ TurnStep

(* A call with the identity and the execution just read, and one that     *)
(* needs none.                                                             *)
LEMMA CurrentParks ==
    ASSUME NEW t \in Tasks, NEW op \in Ops, UNCHANGED ticket,
           \/ Hold(t, Gen(t), Op(t), op) \/ Release(t, Gen(t), Op(t), op)
           \/ Park(t, Gen(t), Op(t), op)
           \/ \E card \in BOOLEAN : Interrupt(t, Gen(t), Op(t), op, card)
    PROVE  PlaneStep
<1>1. Stores!ParkCall(t, Gen(t), Op(t), op)
  BY SameParks DEF Stores!ParkCall
<1>2. turns' = turns
  BY DEF Hold, Release, Park, Interrupt, Unmoved
<1>. QED  BY <1>1, <1>2 DEF PlaneStep, TurnStep, Stores!Next, Stores!CurrentCall, Stores!GuardedBy, Gen, Op

LEMMA CurrentPauses ==
    ASSUME NEW t \in Tasks, NEW op \in Ops, UNCHANGED ticket,
           \/ GuardedStop(t, Gen(t), Op(t), op) \/ RequestPause(t, Gen(t), Op(t), op)
           \/ CancelPause(t, Gen(t), Op(t), op)
    PROVE  PlaneStep
<1>1. Stores!PauseCall(t, Gen(t), Op(t), op)
  BY SameEnds, SamePauses DEF Stores!PauseCall
<1>2. turns' = turns
  BY DEF GuardedStop, Finished, RequestPause, CancelPause
<1>. QED  BY <1>1, <1>2 DEF PlaneStep, TurnStep, Stores!Next, Stores!CurrentCall, Stores!GuardedBy, Gen, Op

LEMMA CurrentLaunches ==
    ASSUME NEW t \in Tasks, UNCHANGED ticket,
           \/ \E e \in Execs : Start(t, Gen(t), Op(t), e, NoExec, TRUE)
           \/ MarkIncomplete(t, Gen(t), Op(t), prov[t].exec)
    PROVE  PlaneStep
<1>1. Stores!LaunchCall(t, Gen(t), Op(t), prov[t].exec)
  BY SameLaunches DEF Stores!LaunchCall
<1>2. turns' = turns
  BY DEF Start, MarkIncomplete
<1>. QED  BY <1>1, <1>2 DEF PlaneStep, TurnStep, Stores!Next, Stores!CurrentCall, Stores!GuardedBy, Gen, Op

LEMMA CurrentIntents ==
    ASSUME NEW t \in Tasks, UNCHANGED ticket,
           \/ \E e \in Execs, outcome \in {"interrupted"} \cup TurnOuts, card, crash, unsafe \in BOOLEAN :
                 Prepare(t, Gen(t), Op(t), e, outcome, card, crash, unsafe)
           \/ \E r \in Prepared(t) : Supersede(r, Gen(t), Op(t))
    PROVE  PlaneStep
<1>1. Stores!RecoveryCall(t, Gen(t), Op(t))
  <2>1. CASE \E e \in Execs, outcome \in {"interrupted"} \cup TurnOuts, card, crash, unsafe \in BOOLEAN :
                 Prepare(t, Gen(t), Op(t), e, outcome, card, crash, unsafe)
    BY <2>1, SameIntents DEF Stores!RecoveryCall
  <2>2. CASE \E r \in Prepared(t) : Supersede(r, Gen(t), Op(t))
    <3>1. PICK r \in Prepared(t) : Supersede(r, Gen(t), Op(t))
      BY <2>2
    <3>2. r \in recops /\ r.task = t
      BY DEF Prepared
    <3>3. Stores!Supersede(r, Gen(t), Op(t))
      BY <3>1, SameIntents
    <3>. QED  BY <3>2, <3>3 DEF Stores!RecoveryCall
  <2>. QED  BY <2>1, <2>2
<1>2. turns' = turns
  BY DEF Prepare, Supersede
<1>. QED  BY <1>1, <1>2 DEF PlaneStep, TurnStep, Stores!Next, Stores!CurrentCall, Stores!GuardedBy, Gen, Op

LEMMA UnguardedChanges ==
    ASSUME NEW t \in Tasks, UNCHANGED ticket,
           \/ Create(t, Computed, TRUE)
           \/ \E choice \in Raised \cup {Keep} : ChangePriority(t, choice)
           \/ \E choice \in Raised \cup {Keep} : ChangeState(t, choice, "queued")
    PROVE  PlaneStep
<1>1. Stores!Unguarded(t)
  BY SameCreate, SameChanges DEF Stores!Unguarded
<1>2. turns' = turns
  BY DEF Create, ChangePriority, ChangeState
<1>. QED  BY <1>1, <1>2 DEF PlaneStep, TurnStep, Stores!Next

LEMMA UnguardedRuns ==
    ASSUME NEW t \in Tasks, UNCHANGED ticket,
           \/ \E e \in Execs : StartOrdinary(t, e)
           \/ \E choice \in Raised \cup {Keep} : ContinueRunning(t, choice)
           \/ \E choice \in Raised \cup {Keep} : RunBare(t, choice)
           \/ \E to \in TurnOuts : Finish(t, to)
    PROVE  PlaneStep
<1>1. Stores!Unguarded(t)
  BY SameRuns, SameEnds DEF Stores!Unguarded
<1>2. turns' = turns
  BY DEF StartOrdinary, ContinueRunning, RunBare, Finish, Finished
<1>. QED  BY <1>1, <1>2 DEF PlaneStep, TurnStep, Stores!Next

LEMMA UnguardedPauses ==
    ASSUME NEW t \in Tasks, UNCHANGED ticket, Pause(t) \/ Resume(t) \/ Reopen(t, Keep)
    PROVE  PlaneStep
<1>1. Stores!Unguarded(t)
  BY SamePauses, SameResumes DEF Stores!Unguarded
<1>2. turns' = turns
  BY DEF Pause, Resume, Reopen
<1>. QED  BY <1>1, <1>2 DEF PlaneStep, TurnStep, Stores!Next

LEMMA UnguardedCommits ==
    ASSUME NEW t \in Tasks, UNCHANGED ticket, NEW r \in Prepared(t), Commit(r)
    PROVE  PlaneStep
<1>1. r \in recops /\ r.task = t
  BY DEF Prepared
<1>2. Stores!Commit(r)
  BY SameIntents
<1>3. Stores!Unguarded(t)
  BY <1>1, <1>2 DEF Stores!Unguarded
<1>4. turns' = turns
  BY DEF Commit
<1>. QED  BY <1>3, <1>4 DEF PlaneStep, TurnStep, Stores!Next

LEMMA UnguardedTurns ==
    ASSUME NEW t \in Tasks, UNCHANGED ticket, State(t) = "running", BeginTurn(t)
    PROVE  PlaneStep
<1>1. Stores!BeginTurn(t)
  BY DEF BeginTurn, Stores!BeginTurn, Stores!State, State
<1>2. Stores!Unguarded(t)
  BY <1>1 DEF Stores!Unguarded
<1>3. TurnStep
  BY DEF TurnStep, BeginTurn
<1>. QED  BY <1>2, <1>3 DEF PlaneStep, Stores!Next

LEMMA PlaneStays ==
    ASSUME NoWrite \/ UNCHANGED tables, UNCHANGED ticket
    PROVE  PlaneStep
BY DEF NoWrite, durable, tables, PlaneStep, TurnStep

LEMMA StartupPlane ==
    ASSUME Inv, Startup
    PROVE  PlaneStep
<1>1. CASE Boot \/ Recovered \/ OpenEnds
  <2>1. NoWrite /\ UNCHANGED ticket
    BY <1>1 DEF Boot, Recovered, OpenEnds
  <2>. QED  BY <2>1, PlaneStays
<1>2. CASE \E t \in Tasks : ResolveIntent(t) \/ LeaveAsIs(t) \/ Classify(t) \/ Admit(t)
  <2>1. PICK t \in Tasks : ResolveIntent(t) \/ LeaveAsIs(t) \/ Classify(t) \/ Admit(t)
    BY <1>2
  <2>2. UNCHANGED ticket
    BY <2>1 DEF ResolveIntent, LeaveAsIs, Classify, Admit, Starting
  <2>3. CASE ResolveIntent(t)
    <3>1. PICK r \in Prepared(t) : Commit(r) \/ Supersede(r, Gen(t), Op(t))
      BY <2>3 DEF ResolveIntent
    <3>. QED  BY <2>2, <3>1, CurrentIntents, UnguardedCommits
  <2>4. CASE LeaveAsIs(t)
    BY <2>2, <2>4, PlaneStays DEF LeaveAsIs
  <2>5. CASE Classify(t)
    <3>1. TablesTypeOK /\ PastSound(t, run[t]) /\ RowFacts(t) /\ StartupSound(t, run[t])
      BY InvParts DEF TaskSound
    <3>2. ~LeftAsIs(t) /\ State(t) # "absent"
      BY <2>5, <3>1 DEF Classify, StartupSound
    <3>3. prov[t].first \in {"never_started", "started", "unknown"} /\ tasks[t].card \in BOOLEAN
          /\ prov[t].exec \in Execs \cup {NoExec} /\ State(t) \in States
      BY <3>1, <3>2 DEF TablesTypeOK, ProvRows, TaskRows, PastSound, State
    <3>4. prov[t].first # "never_started"
      BY <3>1, <3>2, <3>3 DEF LeftAsIs, RowFacts, States, Open
    <3>5. prov[t].exec \in Execs
      BY <3>1, <3>3, <3>4 DEF PastSound
    <3>6. \E e \in Execs, outcome \in {"interrupted"} \cup TurnOuts, card, crash, unsafe \in BOOLEAN :
             Prepare(t, Gen(t), Op(t), e, outcome, card, crash, unsafe)
      <4>1. CASE FinishedRun(t)
        <5>1. last[t].status \in TurnOuts
          BY <4>1 DEF FinishedRun
        <5>2. Prepare(t, Gen(t), Op(t), prov[t].exec, last[t].status, tasks[t].card, FALSE, TRUE)
          BY <2>5, <4>1 DEF Classify
        <5>. QED  BY <3>3, <3>5, <5>1, <5>2
      <4>2. CASE ~FinishedRun(t)
        <5>1. PICK card \in BOOLEAN : card = (turns[t] > 0 \/ (State(t) # "parked" /\ tasks[t].card))
          OBVIOUS
        <5>2. Prepare(t, Gen(t), Op(t), prov[t].exec, "interrupted", card, TRUE, TRUE)
          BY <2>5, <4>2, <5>1 DEF Classify
        <5>. QED  BY <3>5, <5>2
      <4>. QED  BY <4>1, <4>2
    <3>. QED  BY <2>2, <3>6, CurrentIntents
  <2>6. CASE Admit(t)
    <3>1. ChangeState(t, Keep, "queued") \/ UNCHANGED tables
      BY <2>6 DEF Admit
    <3>. QED  BY <2>2, <3>1, PlaneStays, UnguardedChanges
  <2>. QED  BY <2>1, <2>3, <2>4, <2>5, <2>6
<1>. QED  BY <1>1, <1>2 DEF Startup

LEMMA LaunchingPlane ==
    ASSUME Inv, IdsLeft, NEW t \in Tasks, Launching(t)
    PROVE  PlaneStep
<1>1. UNCHANGED ticket
  BY DEF Launching, Check, Gate, FenceFirst, Fenced, FenceOrdinary, Register, StartTurn, BeginTurn
<1>2. CASE Check(t) \/ Gate(t) \/ Fenced(t) \/ StartTurn(t)
  <2>1. NoWrite
    BY <1>2 DEF Check, Gate, Fenced, StartTurn
  <2>. QED  BY <1>1, <2>1, PlaneStays
<1>3. CASE FenceFirst(t)
  <2>1. Start(t, Gen(t), Op(t), FreshExec, NoExec, TRUE) \/ UNCHANGED tables
    BY <1>3 DEF FenceFirst
  <2>. QED  BY <1>1, <2>1, Ids, PlaneStays, CurrentLaunches
<1>4. CASE FenceOrdinary(t)
  <2>1. StartOrdinary(t, FreshExec) \/ UNCHANGED tables
    BY <1>4 DEF FenceOrdinary
  <2>. QED  BY <1>1, <2>1, Ids, PlaneStays, UnguardedRuns
<1>5. CASE Register(t)
  <2>1. ContinueRunning(t, Keep) \/ UNCHANGED tables
    BY <1>5 DEF Register
  <2>. QED  BY <1>1, <2>1, PlaneStays, UnguardedRuns
<1>6. CASE BeginTurn(t)
  <2>1. State(t) = "running"
    BY <1>6, InvParts DEF BeginTurn, At, TaskSound, RunSound
  <2>. QED  BY <1>1, <1>6, <2>1, UnguardedTurns
<1>. QED  BY <1>2, <1>3, <1>4, <1>5, <1>6 DEF Launching

LEMMA TurnPlane ==
    ASSUME Inv, IdsLeft, NEW t \in Tasks, InTurn(t) \/ Work(t)
    PROVE  PlaneStep
<1>1. UNCHANGED ticket
  BY DEF InTurn, Work, HoldCall, ReleaseCall, CallStarts, TurnEnds, Ask, CaptureTool
<1>2. CASE Ask(t) \/ CallStarts(t) \/ TurnEnds(t)
  <2>1. UNCHANGED tables
    BY <1>2 DEF Ask, CallStarts, TurnEnds, NoWrite, durable
  <2>. QED  BY <1>1, <2>1, PlaneStays
<1>3. CASE HoldCall(t) \/ ReleaseCall(t)
  <2>1. Hold(t, Gen(t), Op(t), FreshOp) \/ Release(t, Gen(t), Op(t), FreshOp)
    BY <1>3 DEF HoldCall, ReleaseCall
  <2>. QED  BY <1>1, <2>1, Ids, CurrentParks
<1>4. CASE CaptureTool(t)
  <2>1. run[t].at = "turn" /\ MarkIncomplete(t, Gen(t), Op(t), run[t].exec)
    BY <1>4 DEF CaptureTool, Working, Busy, At
  <2>2. prov[t].exec = run[t].exec
    BY <2>1, InvParts DEF TaskSound, RunSound
  <2>3. MarkIncomplete(t, Gen(t), Op(t), prov[t].exec)
    BY <2>1, <2>2
  <2>. QED  BY <1>1, <2>3, CurrentLaunches
<1>. QED  BY <1>2, <1>3, <1>4 DEF InTurn, Work

LEMMA EndingPlane ==
    ASSUME Inv, IdsLeft, NEW t \in Tasks, Ending(t)
    PROVE  PlaneStep
<1>1. UNCHANGED ticket
  BY DEF Ending, Close, FinalizePark, FinalizeFails, FinalizeStuck, SettleBroken, SettleIntent,
     SettleKept, Settle
<1>2. CASE Close(t) \/ FinalizeFails(t)
  <2>1. NoWrite
    BY <1>2 DEF Close, FinalizeFails
  <2>. QED  BY <1>1, <2>1, PlaneStays
<1>3. CASE FinalizePark(t)
  <2>1. Finish(t, "cancelled") \/ Park(t, Gen(t), Op(t), FreshOp)
    BY <1>3 DEF FinalizePark
  <2>2. "cancelled" \in TurnOuts
    BY DEF TurnOuts
  <2>. QED  BY <1>1, <2>1, <2>2, Ids, CurrentParks, UnguardedRuns
<1>4. CASE FinalizeStuck(t)
  <2>1. GuardedStop(t, Gen(t), Op(t), FreshOp) \/ Interrupt(t, Gen(t), Op(t), FreshOp, TRUE)
    BY <1>4 DEF FinalizeStuck
  <2>. QED  BY <1>1, <2>1, Ids, CurrentParks, CurrentPauses
<1>5. CASE SettleBroken(t)
  <2>1. Prepare(t, Gen(t), Op(t), run[t].exec, "interrupted", TRUE, TRUE, TRUE) /\ run[t].out = "broken"
    BY <1>5 DEF SettleBroken
  <2>2. run[t].exec \in Execs
    BY <2>1, InvParts DEF TaskSound, RunSound, Runs
  <2>. QED  BY <1>1, <2>1, <2>2, CurrentIntents
<1>6. CASE SettleIntent(t)
  <2>1. PICK r \in Prepared(t) : Commit(r)
    BY <1>6 DEF SettleIntent
  <2>. QED  BY <1>1, <2>1, UnguardedCommits
<1>7. CASE SettleKept(t)
  <2>1. ChangeState(t, Keep, "queued") \/ UNCHANGED tables
    BY <1>7 DEF SettleKept
  <2>. QED  BY <1>1, <2>1, PlaneStays, UnguardedChanges
<1>8. CASE Settle(t)
  <2>1. Finish(t, Outcome(t)) \/ UNCHANGED tables
    BY <1>8 DEF Settle
  <2>2. Outcome(t) \in TurnOuts
    BY DEF Outcome, TurnOuts
  <2>. QED  BY <1>1, <2>1, <2>2, PlaneStays, UnguardedRuns
<1>. QED  BY <1>2, <1>3, <1>4, <1>5, <1>6, <1>7, <1>8 DEF Ending

LEMMA RerunPlane ==
    ASSUME NEW t \in Tasks, NEW choice \in Raised \cup {Keep}, Rerun(t, choice), UNCHANGED ticket
    PROVE  PlaneStep
<1>1. ContinueRunning(t, choice) \/ RunBare(t, choice)
  BY DEF Rerun
<1>. QED  BY <1>1, UnguardedRuns

LEMMA PausesPlane ==
    ASSUME Inv, IdsLeft, NEW c \in Askers, call[c].kind # "none",
           PauseAgain(c) \/ PauseBusy(c) \/ PauseHold(c) \/ PauseIdle(c)
    PROVE  PlaneStep
<1>1. PICK t : t = call[c].task
  OBVIOUS
<1>2. t \in Tasks
  BY <1>1, InvParts DEF CallSound
<1>3. UNCHANGED ticket
  BY DEF PauseAgain, PauseBusy, PauseHold, PauseIdle
<1>4. CASE PauseAgain(c)
  BY <1>3, <1>4, PlaneStays DEF PauseAgain
<1>5. CASE PauseBusy(c)
  <2>1. RequestPause(t, Gen(t), Op(t), FreshOp)
    BY <1>1, <1>5 DEF PauseBusy
  <2>. QED  BY <1>2, <1>3, <2>1, Ids, CurrentPauses
<1>6. CASE PauseHold(c)
  <2>1. Hold(t, Gen(t), Op(t), FreshOp) \/ UNCHANGED tables
    BY <1>1, <1>6 DEF PauseHold
  <2>. QED  BY <1>2, <1>3, <2>1, Ids, PlaneStays, CurrentParks
<1>7. CASE PauseIdle(c)
  <2>1. Pause(t)
    BY <1>1, <1>7 DEF PauseIdle
  <2>. QED  BY <1>2, <1>3, <2>1, UnguardedPauses
<1>. QED  BY <1>4, <1>5, <1>6, <1>7

LEMMA ResumesPlane ==
    ASSUME Inv, IdsLeft, NEW c \in Askers, call[c].kind # "none",
           ResumeFirst(c) \/ ResumeRelease(c) \/ ResumeSecond(c)
    PROVE  PlaneStep
<1>1. PICK t : t = call[c].task
  OBVIOUS
<1>2. t \in Tasks
  BY <1>1, InvParts DEF CallSound
<1>3. UNCHANGED ticket
  BY DEF ResumeFirst, ResumeRelease, ResumeSecond
<1>4. CASE ResumeFirst(c)
  <2>1. CancelPause(t, Gen(t), Op(t), FreshOp) \/ Resume(t)
    BY <1>1, <1>4 DEF ResumeFirst
  <2>. QED  BY <1>2, <1>3, <2>1, Ids, CurrentPauses, UnguardedPauses
<1>5. CASE ResumeRelease(c)
  <2>1. Release(t, Gen(t), Op(t), FreshOp)
    BY <1>1, <1>5 DEF ResumeRelease
  <2>. QED  BY <1>2, <1>3, <2>1, Ids, CurrentParks
<1>6. CASE ResumeSecond(c)
  <2>1. Rerun(t, Keep) \/ UNCHANGED tables
    BY <1>1, <1>6 DEF ResumeSecond
  <2>. QED  BY <1>2, <1>3, <2>1, PlaneStays, RerunPlane
<1>. QED  BY <1>4, <1>5, <1>6

LEMMA ChangesPlane ==
    ASSUME Inv, IdsLeft, NEW c \in Askers, call[c].kind # "none", LevelSet(c) \/ StopServed(c)
    PROVE  PlaneStep
<1>1. PICK t : t = call[c].task
  OBVIOUS
<1>2. t \in Tasks
  BY <1>1, InvParts DEF CallSound
<1>3. UNCHANGED ticket
  BY DEF LevelSet, StopServed
<1>4. CASE LevelSet(c)
  <2>1. PICK level \in Raised :
           ChangePriority(t, level) \/ Rerun(t, level) \/ ChangeState(t, level, "queued")
    BY <1>1, <1>4 DEF LevelSet
  <2>. QED  BY <1>2, <1>3, <2>1, RerunPlane, UnguardedChanges
<1>5. CASE StopServed(c)
  <2>1. GuardedStop(t, Gen(t), Op(t), FreshOp) \/ Finish(t, "cancelled") \/ UNCHANGED tables
    BY <1>1, <1>5 DEF StopServed, NoWrite, durable
  <2>2. "cancelled" \in TurnOuts
    BY DEF TurnOuts
  <2>. QED  BY <1>2, <1>3, <2>1, <2>2, Ids, PlaneStays, CurrentPauses, UnguardedRuns
<1>. QED  BY <1>4, <1>5

(* The controlled Resume: the evidence is a ticket, and its commit is      *)
(* guarded by it.                                                          *)
LEMMA EvidencePlane ==
    ASSUME Inv, IdsLeft, NEW c \in Askers, call[c].kind # "none",
           ReadEvidence(c) \/ RecoverCommit(c) \/ RecoverRefused(c)
    PROVE  PlaneStep
<1>1. PICK t : t = call[c].task
  OBVIOUS
<1>2. t \in Tasks /\ State(t) # "absent"
  BY <1>1, InvParts DEF CallSound
<1>3. c \in Clients
  BY InvParts DEF CallSound, ReadEvidence, RecoverCommit, RecoverRefused
<1>4. ticket \in [Clients -> Tickets]
  BY InvParts
<1>5. CASE ReadEvidence(c)
  <2>1. NoWrite
    BY <1>5 DEF ReadEvidence
  <2>2. CASE UNCHANGED ticket
    BY <2>1, <2>2, PlaneStays
  <2>3. CASE ~UNCHANGED ticket
    <3>1. ticket' = [ticket EXCEPT ![c] =
             [task |-> t, gen |-> Gen(t), op |-> Op(t), state |-> State(t),
              exec |-> prov[t].exec, pending |-> park[t].pending]]
      BY <1>1, <1>5, <2>3 DEF ReadEvidence
    <3>2. Stores!Read(c, t)
      BY <1>2, <2>1, <3>1 DEF Stores!Read, Stores!State, State, Gen, Op, NoWrite, durable, tables, Stores!tables
    <3>. QED  BY <1>2, <1>3, <2>1, <3>2 DEF Stores!Next, PlaneStep, TurnStep, NoWrite, durable, tables
  <2>. QED  BY <2>2, <2>3
<1>6. ASSUME Forgotten(c)
      PROVE  ticket' = Stores!Dropped({c})
  BY <1>3, <1>4, <1>6 DEF Forgotten, NoTicket, Stores!Dropped, Stores!NoTicket
<1>7. CASE RecoverCommit(c)
  <2>1. ticket[c].task = t
    BY <1>1, <1>7, InvParts DEF RecoverCommit, CallSound
  <2>2. PICK first \in BOOLEAN : first = (ticket[c].exec = NoExec)
    OBVIOUS
  <2>3. ResumeRecovered(t, ticket[c].gen, ticket[c].op, ticket[c].exec, first, FreshOp)
    BY <1>1, <1>7, <2>2 DEF RecoverCommit, Evidence
  <2>4. Stores!ResumeRecovered(t, ticket[c].gen, ticket[c].op, ticket[c].exec, first, FreshOp)
    BY <2>3, SameResumes
  <2>5. Stores!GuardedBy(t, ticket[c].gen, ticket[c].op, ticket[c].exec)
    BY <2>2, <2>4, Ids DEF Stores!GuardedBy
  <2>6. ticket' = Stores!Dropped({c})
    BY <1>6, <1>7 DEF RecoverCommit
  <2>7. Stores!GuardedCall(c)
    BY <2>1, <2>5, <2>6 DEF Stores!GuardedCall
  <2>8. turns' = turns
    BY <2>3 DEF ResumeRecovered
  <2>. QED  BY <1>3, <2>7, <2>8 DEF Stores!Next, PlaneStep, TurnStep
<1>8. CASE RecoverRefused(c)
  <2>1. UNCHANGED Stores!tables
    BY <1>8 DEF RecoverRefused, NoWrite, durable, tables, Stores!tables
  <2>2. ticket' = Stores!Dropped({c})
    BY <1>6, <1>8 DEF RecoverRefused
  <2>3. Stores!Forget
    BY <1>3, <2>1, <2>2 DEF Stores!Forget
  <2>. QED  BY <2>1, <2>3 DEF Stores!Next, PlaneStep, TurnStep, Stores!tables
<1>. QED  BY <1>5, <1>7, <1>8

LEMMA ServePlane ==
    ASSUME Inv, IdsLeft, NEW c \in Askers, Serve(c)
    PROVE  PlaneStep
<1>1. call[c].kind # "none"
  BY DEF Serve
<1>2. CASE ParkAwaited(c) \/ Unavailable(c) \/ PauseRefused(c) \/ ResumeRefused(c) \/ LevelRefused(c)
  <2>1. NoWrite /\ UNCHANGED ticket
    BY <1>2 DEF ParkAwaited, Unavailable, PauseRefused, ResumeRefused, LevelRefused
  <2>. QED  BY <2>1, PlaneStays
<1>3. CASE PauseAgain(c) \/ PauseBusy(c) \/ PauseHold(c) \/ PauseIdle(c)
  BY <1>1, <1>3, PausesPlane
<1>4. CASE ResumeFirst(c) \/ ResumeRelease(c) \/ ResumeSecond(c)
  BY <1>1, <1>4, ResumesPlane
<1>5. CASE LevelSet(c) \/ StopServed(c)
  BY <1>1, <1>5, ChangesPlane
<1>6. CASE ReadEvidence(c) \/ RecoverCommit(c) \/ RecoverRefused(c)
  BY <1>1, <1>6, EvidencePlane
<1>. QED  BY <1>2, <1>3, <1>4, <1>5, <1>6 DEF Serve

LEMMA YieldingPlane ==
    ASSUME NEW t \in Tasks, Yielding(t)
    PROVE  PlaneStep
<1>1. NoWrite /\ UNCHANGED ticket
  BY DEF Yielding, YieldPauses, YieldLooks, YieldResumes, YieldOver
<1>. QED  BY <1>1, PlaneStays

LEMMA PersonPlane ==
    ASSUME Inv, Person
    PROVE  PlaneStep
<1>1. CASE \E t \in Tasks : Submit(t) \/ Continue(t)
  <2>1. PICK t \in Tasks : Submit(t) \/ Continue(t)
    BY <1>1
  <2>2. (Create(t, Computed, TRUE) \/ Reopen(t, Keep)) /\ UNCHANGED ticket
    BY <2>1 DEF Submit, Continue
  <2>. QED  BY <2>2, UnguardedChanges, UnguardedPauses
<1>2. CASE \E c \in Clients, t \in Tasks :
          \/ Recover(c, t)
          \/ \E kind \in {"pause", "resume", "level", "stop"} : Request(c, kind, t)
  <2>1. NoWrite /\ UNCHANGED ticket
    BY <1>2 DEF Recover, Request
  <2>. QED  BY <2>1, PlaneStays
<1>3. CASE \E t \in Tasks, op \in Ops : RetryResume(t, op)
  <2>1. PICK t \in Tasks, op \in Ops : RetryResume(t, op)
    BY <1>3
  <2>2. (ChangeState(t, Keep, "queued") \/ UNCHANGED tables) /\ UNCHANGED ticket
    BY <2>1 DEF RetryResume
  <2>. QED  BY <2>2, PlaneStays, UnguardedChanges
<1>. QED  BY <1>1, <1>2, <1>3 DEF Person

LEMMA FaultPlane ==
    ASSUME Fault
    PROVE  PlaneStep
<1>1. CASE Crash
  <2>1. UNCHANGED Stores!tables
    BY <1>1 DEF Crash, NoWrite, durable, tables, Stores!tables
  <2>2. ticket' = Stores!Dropped(Clients)
    BY <1>1 DEF Crash, NoTicket, Stores!Dropped, Stores!NoTicket
  <2>3. Stores!Forget
    BY <2>1, <2>2 DEF Stores!Forget
  <2>. QED  BY <2>1, <2>3 DEF Stores!Next, PlaneStep, TurnStep, Stores!tables
<1>2. CASE \E t \in Tasks : LaunchFails(t) \/ CloseFails(t)
  <2>1. NoWrite /\ UNCHANGED ticket
    BY <1>2 DEF LaunchFails, CloseFails
  <2>. QED  BY <2>1, PlaneStays
<1>. QED  BY <1>1, <1>2 DEF Fault

LEMMA NextIsPlane ==
    ASSUME Inv, Next
    PROVE  PlaneStep
<1>1. IdsLeft
  BY DEF Next
<1>2. CASE System
  <2>1. CASE \E t \in Tasks : RunStep(t) \/ Yielding(t)
    BY <1>1, <2>1, LaunchingPlane, TurnPlane, EndingPlane, YieldingPlane DEF RunStep
  <2>2. CASE \E c \in Askers : Serve(c)
    BY <1>1, <2>2, ServePlane
  <2>. QED  BY <1>2, <2>1, <2>2, StartupPlane DEF System
<1>3. CASE \E t \in Tasks : Work(t)
  BY <1>1, <1>3, TurnPlane
<1>4. CASE Person
  BY <1>4, PersonPlane
<1>5. CASE Fault
  BY <1>5, FaultPlane
<1>. QED  BY <1>2, <1>3, <1>4, <1>5 DEF Next

LEMMA StepIsPlane ==
    ASSUME Inv, [Next]_vars
    PROVE  [Stores!Next]_(Stores!vars) /\ TurnStep
<1>1. CASE Next
  <2>1. PlaneStep
    BY <1>1, NextIsPlane
  <2>. QED  BY <2>1 DEF PlaneStep, tables, Stores!vars, Stores!tables
<1>2. CASE UNCHANGED vars
  BY <1>2 DEF vars, durable, volatile, tables, Stores!vars, Stores!tables, TurnStep
<1>. QED  BY <1>1, <1>2

----------------------------------------------------------------------------
(* The invariant holds *)

LEMMA Assumed ==
    /\ {Computed} \subseteq Stores!Priorities
    /\ Raised \cup {Keep} \subseteq Stores!Choices
    /\ {"interrupted"} \cup TurnOuts \subseteq {"interrupted", "queued"} \cup Stores!Terminal
    /\ TurnOuts \subseteq Stores!Terminal
BY GatewayAssumption DEF Computed, Stores!Priorities, Stores!Levels, Stores!Sources, Stores!Reasons,
   Stores!Choices, Stores!Keep, Keep, Stores!AutoLevel, Stores!First, TurnOuts, Stores!Terminal

LEMMA TablesKnownNext ==
    ASSUME Stores!HistoryInv'
    PROVE  TypesNext
<1>1. Stores!TypeOK'
  BY DEF Stores!HistoryInv, Stores!IdentityInv
<1>. QED  BY <1>1 DEF TypesNext, Stores!TypeOK, Stores!TablesTypeOK, Stores!TaskRows, Stores!ParkRows,
       Stores!ProvRows, Stores!CaptureRows, Stores!RecoveryRows, Stores!Priorities, Stores!Levels,
       Stores!Sources, Stores!Reasons, Stores!Holds, Stores!States, Stores!Open, Stores!Terminal,
       Stores!Tickets, TablesTypeOK, TaskRows, ParkRows, ProvRows, CaptureRows, RecoveryRows,
       Priorities, Levels, Sources, Reasons, Holds, States, Open, Terminal, Tickets

LEMMA InitPlane == Init => Stores!Init /\ Plane!Init
BY DEF Init, TablesInit, NoTask, NoPark, NoProv, NoCapture, Computed, NoTicket,
   Stores!Init, Stores!TablesInit, Stores!NoTask, Stores!NoPark, Stores!NoProv, Stores!NoCapture,
   Stores!Computed, Stores!NoTicket,
   Plane!Init, Plane!TablesInit, Plane!NoTask, Plane!NoPark, Plane!NoProv, Plane!NoCapture,
   Plane!Computed, Plane!NoTicket

LEMMA InitGateway ==
    ASSUME Init, TablesTypeOK, ticket \in [Clients -> Tickets]
    PROVE  GatewayInv
<1>1. /\ phase = "down" /\ todo = {} /\ sets = NoSets /\ recops = {}
      /\ \A t \in Tasks : /\ State(t) = "absent" /\ ~tasks[t].parkedLast /\ prov[t].first = "absent"
                          /\ turns[t] = 0 /\ resumeTurn[t] = 0
                          /\ run[t] = NoRun /\ last[t] = NoTurn /\ \A o \in Ops : reserved[t][o] = 0
      /\ \A c \in Askers : call[c] = Idle
  BY DEF Init, TablesInit, State, NoTask, NoProv
<1>2. TypeOK
  <2>1. last \in [Tasks -> Turns] /\ reserved \in [Tasks -> [Ops -> Nat]] /\ phase \in Phases
        /\ todo \subseteq Tasks /\ sets \in [SetNames -> SUBSET Tasks]
    BY DEF Init, Turns, NoTurn, Phases, NoSets
  <2>2. run \in [Tasks -> Runs]
    BY DEF Init, Runs, NoRun, Places, Outs, Points, Rooms
  <2>3. call \in [Askers -> Calls]
    BY IdleCall DEF Init
  <2>. QED  BY <2>1, <2>2, <2>3 DEF TypeOK
<1>3. LockSound
  <2>1. \A t \in Tasks : run[t].at \notin Holding
    <3>1. NoRun.at = "none"
      BY DEF NoRun
    <3>. QED  BY <1>1, <3>1 DEF Holding
  <2>2. \A c \in Askers : ~Between(c)
    BY <1>1 DEF Between, Idle
  <2>. QED  BY <1>1, <2>1, <2>2 DEF LockSound
<1>4. RoomSound
  <2>1. \A t \in Tasks : run[t].room = "no" /\ call[t].kind = "none"
    <3>1. NoRun.room = "no" /\ Idle.kind = "none"
      BY DEF NoRun, Idle
    <3>. QED  BY <1>1, <3>1 DEF Askers
  <2>. QED  BY <2>1 DEF RoomSound
<1>5. SlotsSound
  <2>1. Created = {} /\ Residents = {}
    BY <1>1 DEF Created, Residents, Resident, NoRun
  <2>2. \A t \in Tasks : ~Queued(t)
    BY <1>1 DEF Queued
  <2>. QED  BY <2>1, <2>2, FS_EmptySet, GatewayAssumption DEF SlotsSound
<1>6. \A c \in Askers : CallSound(c)
  BY <1>1 DEF CallSound, Idle
<1>7. ASSUME NEW t \in Tasks PROVE TaskSound(t, run[t])
  <2>1. PICK r : r = run[t]
    OBVIOUS
  <2>2. r.at = "none" /\ r.exec = NoExec /\ ~r.fenced /\ r.out = "none" /\ r.point = "none" /\ r.pending = NoExec
    BY <1>1, <2>1 DEF NoRun
  <2>3. \A n \in SetNames : ~In(t, n)
    BY <1>1 DEF In, NoSets
  <2>4. ~In(t, "winners") /\ ~In(t, "quarantined") /\ ~Parks(t)
    BY <2>3 DEF SetNames, Parks
  <2>5. Prepared(t) = {}
    BY <1>1 DEF Prepared
  <2>6. last[t].status = "none"
    BY <1>1 DEF NoTurn
  <2>7. RunSound(t, r)
    BY <1>1, <2>2 DEF RunSound, Early, Late
  <2>8. FlagsSound(t, r)
    BY <2>2, <2>4 DEF FlagsSound
  <2>9. PastSound(t, r)
    BY <1>1, <2>2, <2>5, <2>6 DEF PastSound
  <2>10. OpenSound(t, r)
    BY <1>1 DEF OpenSound
  <2>11. StartupSound(t, r)
    BY <1>1, <2>2 DEF StartupSound, Seen
  <2>. QED  BY <2>1, <2>7, <2>8, <2>9, <2>10, <2>11 DEF TaskSound
<1>. QED  BY <1>2, <1>3, <1>4, <1>5, <1>6, <1>7 DEF GatewayInv

LEMMA InitInv == Init => BothInv
<1>. SUFFICES ASSUME Init PROVE BothInv
  OBVIOUS
<1>1. Stores!HistoryInv
  BY InitPlane, TablesAssumption, Assumed, Stores!InitHistory
<1>2. GatewayInv
  BY <1>1, TablesKnown, InitGateway
<1>. QED  BY <1>1, <1>2 DEF BothInv

LEMMA NextInv == BothInv /\ [Next]_vars => Inv /\ BothInv'
<1>. SUFFICES ASSUME BothInv, [Next]_vars PROVE Inv /\ BothInv'
  OBVIOUS
<1>1. Stores!HistoryInv /\ Inv
  BY BothGive DEF BothInv
<1>2. [Stores!Next]_(Stores!vars)
  BY <1>1, StepIsPlane
<1>3. Stores!HistoryInv'
  BY <1>1, <1>2, TablesAssumption, Assumed, Stores!NextHistory
<1>4. TypesNext
  BY <1>3, TablesKnownNext
<1>5. GatewayInv'
  BY <1>1, <1>4, StepKeepsGateway, StutterKeepsGateway
<1>. QED  BY <1>1, <1>3, <1>5 DEF BothInv

(* The tables, the runs, the requests and the slots agree in every state   *)
(* that the gateway reaches, startup and crashes included.                 *)
THEOREM InvHolds == Spec => []Inv
<1>1. Spec => []BothInv
  BY InitInv, NextInv, PTL DEF Spec
<1>2. BothInv => Inv
  BY BothGive
<1>. QED  BY <1>1, <1>2, PTL

----------------------------------------------------------------------------
(* What was interrupted runs again behind a review only *)

(* A request between its two transactions is about no interrupted task:    *)
(* whoever interrupts one has the lock, or startup runs alone.             *)
Uninterrupted == \A c \in Askers : Between(c) => State(call[c].task) # "interrupted"

(* An interrupted task stays, ends, or is queued for a turn that a         *)
(* committed Resume or a message reserved.                                 *)
Reviewed(t) ==
    State(t) = "interrupted" =>
        \/ State(t)' \in {"interrupted"} \cup Terminal
        \/ State(t)' = "queued" /\ ResumeWaits(t)'
ReviewStep == Uninterrupted' /\ \A t \in Tasks : Reviewed(t)

(* What most steps do to their task, and to the requests under the lock.   *)
Frees(t) ==
    \/ State(t)' = State(t)
    \/ State(t) # "interrupted" /\ State(t)' # "interrupted"
    \/ State(t)' \in Terminal
    \/ State(t)' = "queued" /\ ResumeWaits(t)'
SameBetween(c) == Between(c)' => Between(c) /\ call'[c].task = call[c].task

LEMMA OthersRest ==
    ASSUME NEW t \in Tasks, Only(t), NEW u \in Tasks \ {t}
    PROVE  State(u)' = State(u) /\ Reviewed(u)
BY DEF Only, RowKept, State, Reviewed

LEMMA BetweenRests ==
    ASSUME Inv, Uninterrupted, NEW c \in Askers, SameBetween(c), Between(c)',
           \A u \in Tasks : State(u) # "interrupted" => State(u)' # "interrupted"
    PROVE  (State(call[c].task) # "interrupted")'
<1>1. PICK u : u = call[c].task
  OBVIOUS
<1>2. Between(c) /\ call'[c].task = u
  BY <1>1 DEF SameBetween
<1>3. u \in Tasks /\ State(u) # "interrupted"
  BY <1>1, <1>2, InvParts DEF CallSound, Between, Uninterrupted
<1>4. State(u)' # "interrupted"
  BY <1>3
<1>. QED  BY <1>2, <1>4 DEF State

LEMMA IdleStep ==
    ASSUME Inv, Uninterrupted, tasks' = tasks, \A c \in Askers : SameBetween(c)
    PROVE  ReviewStep
<1>1. \A u \in Tasks : State(u)' = State(u)
  BY DEF State
<1>2. \A u \in Tasks : Reviewed(u)
  BY <1>1 DEF Reviewed
<1>3. ASSUME NEW c \in Askers, Between(c)' PROVE (State(call[c].task) # "interrupted")'
  BY <1>1, <1>3, BetweenRests
<1>. QED  BY <1>2, <1>3 DEF ReviewStep, Uninterrupted

LEMMA FreeingStep ==
    ASSUME Inv, Uninterrupted, NEW t \in Tasks, Only(t), Frees(t), \A c \in Askers : SameBetween(c)
    PROVE  ReviewStep
<1>1. Reviewed(t) /\ (State(t) # "interrupted" => State(t)' # "interrupted")
  BY DEF Frees, Reviewed, Terminal
<1>2. \A u \in Tasks : Reviewed(u)
  BY <1>1, OthersRest
<1>3. \A u \in Tasks : State(u) # "interrupted" => State(u)' # "interrupted"
  BY <1>1, OthersRest
<1>4. ASSUME NEW c \in Askers, Between(c)' PROVE (State(call[c].task) # "interrupted")'
  BY <1>3, <1>4, BetweenRests
<1>. QED  BY <1>2, <1>4 DEF ReviewStep, Uninterrupted

(* The request between its two transactions moves its own task.            *)
LEMMA OpeningStep ==
    ASSUME Inv, Uninterrupted, NEW c \in Askers, NEW t \in Tasks, Only(t),
           State(t) # "interrupted", State(t)' # "interrupted", call'[c].task = t,
           \A d \in Askers \ {c} : SameBetween(d)
    PROVE  ReviewStep
<1>1. \A u \in Tasks : Reviewed(u)
  BY OthersRest DEF Reviewed
<1>2. \A u \in Tasks : State(u) # "interrupted" => State(u)' # "interrupted"
  BY OthersRest
<1>3. ASSUME NEW d \in Askers, Between(d)' PROVE (State(call[d].task) # "interrupted")'
  <2>1. CASE d = c
    BY <2>1 DEF State
  <2>2. CASE d # c
    BY <1>2, <1>3, <2>2, BetweenRests
  <2>. QED  BY <2>1, <2>2
<1>. QED  BY <1>1, <1>3 DEF ReviewStep, Uninterrupted

(* A task is interrupted where no request is between its transactions.     *)
LEMMA InterruptingStep ==
    ASSUME NEW t \in Tasks, Only(t), State(t)' \in {"interrupted"} \cup Terminal,
           \A c \in Askers : ~Between(c)'
    PROVE  ReviewStep
<1>1. \A u \in Tasks : Reviewed(u)
  BY OthersRest DEF Reviewed
<1>. QED  BY <1>1 DEF ReviewStep, Uninterrupted

LEMMA SameCalls ==
    ASSUME call' = call
    PROVE  \A c \in Askers : SameBetween(c) /\ (~Between(c) => ~Between(c)')
BY DEF SameBetween, Between

LEMMA AnsweredBetween ==
    ASSUME Inv, NEW c \in Askers, Answered(c) \/ Rejected(c)
    PROVE  \A d \in Askers : SameBetween(d)
BY AnsweredCalls DEF SameBetween, Between, SameCall

LEMMA AskedBetween ==
    ASSUME NEW c \in Askers, ~Between(c)', \A d \in Askers \ {c} : SameCall(d)
    PROVE  \A d \in Askers : SameBetween(d)
BY DEF SameBetween, Between, SameCall

LEMMA LaunchingReviewed ==
    ASSUME Inv, Uninterrupted, IdsLeft, NEW t \in Tasks, Launching(t) \/ LaunchFails(t)
    PROVE  ReviewStep
<1>1. /\ TablesTypeOK /\ \A c \in Askers : SameBetween(c)
  <2>1. call' = call
    BY DEF Launching, Check, Gate, FenceFirst, Fenced, FenceOrdinary, Register, StartTurn, BeginTurn,
       LaunchFails
  <2>. QED  BY <2>1, SameCalls, InvParts
<1>2. CASE Check(t) \/ Gate(t) \/ Fenced(t) \/ LaunchFails(t) \/ StartTurn(t) \/ BeginTurn(t)
  <2>1. tasks' = tasks
    BY <1>2 DEF Check, Gate, Fenced, LaunchFails, StartTurn, BeginTurn, NoWrite, durable, tables
  <2>. QED  BY <1>1, <2>1, IdleStep
<1>3. CASE tasks' = tasks
  BY <1>1, <1>3, IdleStep
<1>4. CASE Only(t) /\ State(t) # "interrupted" /\ State(t)' = "running"
  BY <1>1, <1>4, FreeingStep DEF Frees
<1>5. CASE FenceFirst(t)
  <2>1. Start(t, Gen(t), Op(t), FreshExec, NoExec, TRUE) \/ tasks' = tasks
    BY <1>5 DEF FenceFirst, tables
  <2>2. CASE Start(t, Gen(t), Op(t), FreshExec, NoExec, TRUE)
    <3>1. Only(t) /\ State(t) = "queued" /\ State(t)' = "running"
      BY <1>1, <2>2, Ids, StartEffect
    <3>. QED  BY <1>4, <3>1
  <2>. QED  BY <1>3, <2>1, <2>2
<1>6. CASE FenceOrdinary(t)
  <2>1. StartOrdinary(t, FreshExec) \/ tasks' = tasks
    BY <1>6 DEF FenceOrdinary, tables
  <2>2. CASE StartOrdinary(t, FreshExec)
    <3>1. Only(t) /\ State(t) = "queued" /\ State(t)' = "running"
      BY <1>1, <2>2, Ids, StartOrdinaryEffect
    <3>. QED  BY <1>4, <3>1
  <2>. QED  BY <1>3, <2>1, <2>2
<1>7. CASE Register(t)
  <2>1. (State(t) = "queued" /\ ContinueRunning(t, Keep)) \/ tasks' = tasks
    BY <1>7 DEF Register, tables
  <2>2. CASE State(t) = "queued" /\ ContinueRunning(t, Keep)
    <3>1. Only(t) /\ State(t)' = "running"
      BY <1>1, <2>2, RerunEffect
    <3>. QED  BY <1>4, <2>2, <3>1
  <2>. QED  BY <1>3, <2>1, <2>2
<1>. QED  BY <1>2, <1>5, <1>6, <1>7 DEF Launching

LEMMA TurnReviewed ==
    ASSUME Inv, Uninterrupted, NEW t \in Tasks, InTurn(t) \/ Work(t)
    PROVE  ReviewStep
<1>1. /\ TablesTypeOK /\ \A c \in Askers : SameBetween(c)
  <2>1. call' = call
    BY DEF InTurn, Work, HoldCall, ReleaseCall, CallStarts, TurnEnds, Ask, CaptureTool
  <2>. QED  BY <2>1, SameCalls, InvParts
<1>2. CASE Ask(t) \/ CallStarts(t) \/ TurnEnds(t)
  <2>1. tasks' = tasks
    BY <1>2 DEF Ask, CallStarts, TurnEnds, NoWrite, durable, tables
  <2>. QED  BY <1>1, <2>1, IdleStep
<1>3. CASE Only(t) /\ State(t) \in {"running", "held"} /\ State(t)' \in {"running", "held"}
  BY <1>1, <1>3, FreeingStep DEF Frees
<1>4. CASE HoldCall(t)
  <2>1. Hold(t, Gen(t), Op(t), FreshOp)
    BY <1>4 DEF HoldCall
  <2>. QED  BY <1>1, <1>3, <2>1, HoldEffect
<1>5. CASE ReleaseCall(t)
  <2>1. Release(t, Gen(t), Op(t), FreshOp)
    BY <1>5 DEF ReleaseCall
  <2>. QED  BY <1>1, <1>3, <2>1, ReleaseEffect
<1>6. CASE CaptureTool(t)
  <2>1. MarkIncomplete(t, Gen(t), Op(t), run[t].exec)
    BY <1>6 DEF CaptureTool
  <2>. QED  BY <1>1, <1>3, <2>1, MarkIncompleteEffect
<1>. QED  BY <1>2, <1>4, <1>5, <1>6 DEF InTurn, Work

LEMMA EndingReviewed ==
    ASSUME Inv, Uninterrupted, NEW t \in Tasks, Ending(t) \/ CloseFails(t)
    PROVE  ReviewStep
<1>1. call' = call
  BY DEF Ending, Close, FinalizePark, FinalizeFails, FinalizeStuck, SettleBroken, SettleIntent,
     SettleKept, Settle, CloseFails
<1>2. TablesTypeOK /\ \A c \in Askers : SameBetween(c)
  BY <1>1, SameCalls, InvParts
<1>3. CASE tasks' = tasks
  BY <1>2, <1>3, IdleStep
<1>4. CASE Only(t) /\ State(t)' \in Terminal
  BY <1>2, <1>4, FreeingStep DEF Frees
<1>5. ASSUME NEW to \in TurnOuts, Finish(t, to)
      PROVE  ReviewStep
  <2>1. to \in Terminal
    BY DEF TurnOuts, Terminal
  <2>. QED  BY <1>2, <1>4, <1>5, <2>1, StopEffect
<1>6. CASE Close(t) \/ FinalizeFails(t) \/ CloseFails(t)
  <2>1. tasks' = tasks
    BY <1>6 DEF Close, FinalizeFails, CloseFails, NoWrite, durable, tables
  <2>. QED  BY <1>3, <2>1
<1>7. CASE FinalizePark(t)
  <2>1. Finish(t, "cancelled") \/ Park(t, Gen(t), Op(t), FreshOp)
    BY <1>7 DEF FinalizePark
  <2>2. CASE Park(t, Gen(t), Op(t), FreshOp)
    <3>1. State(t) # "interrupted"
      BY <2>2 DEF Park, AtSafePoint, PausedRow
    <3>2. Only(t) /\ State(t)' = "parked"
      BY <1>2, <2>2, ParkEffect
    <3>. QED  BY <1>2, <3>1, <3>2, FreeingStep DEF Frees
  <2>. QED  BY <1>5, <2>1, <2>2 DEF TurnOuts
<1>8. CASE FinalizeStuck(t)
  <2>1. \A c \in Askers : ~Between(c)'
    BY <1>1, <1>8, SameCalls DEF FinalizeStuck, RunLock, LockFree, Between
  <2>2. GuardedStop(t, Gen(t), Op(t), FreshOp) \/ Interrupt(t, Gen(t), Op(t), FreshOp, TRUE)
    BY <1>8 DEF FinalizeStuck
  <2>3. Only(t) /\ State(t)' \in {"interrupted"} \cup Terminal
    <3>1. CASE GuardedStop(t, Gen(t), Op(t), FreshOp)
      <4>1. "cancelled" \in Terminal
        BY DEF Terminal
      <4>. QED  BY <1>2, <3>1, <4>1, StopEffect
    <3>2. CASE Interrupt(t, Gen(t), Op(t), FreshOp, TRUE)
      BY <1>2, <3>2, InterruptEffect
    <3>. QED  BY <2>2, <3>1, <3>2
  <2>. QED  BY <2>1, <2>3, InterruptingStep
<1>9. CASE SettleBroken(t)
  <2>1. Prepare(t, Gen(t), Op(t), run[t].exec, "interrupted", TRUE, TRUE, TRUE)
    BY <1>9 DEF SettleBroken
  <2>. QED  BY <1>2, <1>3, <2>1, PrepareEffect
<1>10. CASE SettleIntent(t)
  <2>1. run[t].at \in Holding
    BY <1>10 DEF SettleIntent, At, Holding
  <2>2. \A c \in Askers : ~Between(c)'
    BY <1>1, <2>1, InvParts, SameCalls DEF LockSound
  <2>3. PICK r \in Prepared(t) : Commit(r)
    BY <1>10 DEF SettleIntent
  <2>4. r.task = t /\ r.outcome \in {"interrupted"} \cup Terminal
    BY <2>3, InvParts DEF Prepared, TaskSound, PastSound, TurnOuts, Terminal
  <2>5. Only(t) /\ State(t)' = r.outcome
    BY <1>2, <2>3, <2>4, CommitEffect
  <2>. QED  BY <2>2, <2>4, <2>5, InterruptingStep
<1>11. CASE SettleKept(t)
  <2>1. (State(t) = "running" /\ ChangeState(t, Keep, "queued")) \/ tasks' = tasks
    BY <1>11 DEF SettleKept, tables
  <2>2. CASE State(t) = "running" /\ ChangeState(t, Keep, "queued")
    <3>1. Only(t) /\ State(t)' = "queued"
      BY <1>2, <2>2, ChangeStateEffect
    <3>. QED  BY <1>2, <2>2, <3>1, FreeingStep DEF Frees
  <2>. QED  BY <1>3, <2>1, <2>2
<1>12. CASE Settle(t)
  <2>1. Finish(t, Outcome(t)) \/ tasks' = tasks
    BY <1>12 DEF Settle, tables
  <2>2. Outcome(t) \in TurnOuts
    BY DEF Outcome, TurnOuts
  <2>. QED  BY <1>3, <1>5, <2>1, <2>2
<1>. QED  BY <1>6, <1>7, <1>8, <1>9, <1>10, <1>11, <1>12 DEF Ending

LEMMA StartupReviewed ==
    ASSUME Inv, Uninterrupted, Startup
    PROVE  ReviewStep
<1>1. CASE \E t \in Tasks : ResolveIntent(t)
  <2>1. PICK t \in Tasks : ResolveIntent(t)
    BY <1>1
  <2>2. phase = "recovering" /\ call' = call
    BY <2>1 DEF ResolveIntent, Starting
  <2>3. \A c \in Askers : ~Between(c)'
    BY <2>2, InvParts, SameCalls DEF LockSound, Between, Idle
  <2>4. PICK r \in Prepared(t) : Commit(r) \/ Supersede(r, Gen(t), Op(t))
    BY <2>1 DEF ResolveIntent
  <2>5. r.task = t /\ r.outcome \in {"interrupted"} \cup Terminal
    BY <2>4, InvParts DEF Prepared, TaskSound, PastSound, TurnOuts, Terminal
  <2>6. CASE Commit(r)
    <3>1. Only(t) /\ State(t)' = r.outcome
      BY <2>5, <2>6, InvParts, CommitEffect
    <3>. QED  BY <2>3, <2>5, <3>1, InterruptingStep
  <2>7. CASE Supersede(r, Gen(t), Op(t))
    <3>1. tasks' = tasks
      BY <2>5, <2>7, InvParts, SupersedeEffect
    <3>. QED  BY <2>2, <3>1, SameCalls, IdleStep
  <2>. QED  BY <2>4, <2>6, <2>7
<1>2. CASE Boot \/ Recovered \/ OpenEnds \/ \E t \in Tasks : LeaveAsIs(t) \/ Classify(t)
  <2>1. call' = call
    BY <1>2 DEF Boot, Recovered, OpenEnds, LeaveAsIs, Classify, Starting
  <2>2. tasks' = tasks
    BY <1>2 DEF Boot, Recovered, OpenEnds, LeaveAsIs, Classify, Prepare, NoWrite, durable, tables
  <2>. QED  BY <2>1, <2>2, SameCalls, IdleStep
<1>3. CASE \E t \in Tasks : Admit(t)
  <2>1. PICK t \in Tasks : Admit(t)
    BY <1>3
  <2>2. \A c \in Askers : SameBetween(c)
    BY <2>1, SameCalls DEF Admit
  <2>3. tasks' = tasks \/ (ResumeWaits(t) /\ ChangeState(t, Keep, "queued"))
    BY <2>1 DEF Admit, Readmitted, tables
  <2>4. CASE ResumeWaits(t) /\ ChangeState(t, Keep, "queued")
    <3>1. Only(t) /\ State(t)' = "queued" /\ UNCHANGED <<turns, resumeTurn>>
      BY <2>4, InvParts, ChangeStateEffect
    <3>2. ResumeWaits(t)'
      BY <2>4, <3>1 DEF ResumeWaits
    <3>. QED  BY <2>2, <3>1, <3>2, FreeingStep DEF Frees
  <2>. QED  BY <2>2, <2>3, <2>4, IdleStep
<1>. QED  BY <1>1, <1>2, <1>3 DEF Startup

(* The reserved turn of a committed Resume or message waits.               *)
LEMMA ReservedWaits ==
    ASSUME NEW t \in Tasks, Reserves(t), TablesTypeOK
    PROVE  Only(t) /\ Frees(t)
<1>1. turns' = turns /\ resumeTurn'[t] = turns[t] + 1 /\ turns[t] \in Nat
  BY DEF Reserves, TablesTypeOK
<1>2. ResumeWaits(t)'
  BY <1>1 DEF ResumeWaits
<1>. QED  BY <1>2 DEF Reserves, Frees

LEMMA PersonReviewed ==
    ASSUME Inv, Uninterrupted, Person
    PROVE  ReviewStep
<1>1. CASE \E t \in Tasks : Submit(t) \/ Continue(t)
  <2>1. PICK t \in Tasks : Submit(t) \/ Continue(t)
    BY <1>1
  <2>2. \A c \in Askers : SameBetween(c)
    BY <2>1, SameCalls DEF Submit, Continue
  <2>3. CASE Create(t, Computed, TRUE)
    BY <2>2, <2>3, InvParts, CreateEffect, FreeingStep DEF Frees
  <2>4. CASE Reopen(t, Keep)
    BY <2>2, <2>4, InvParts, ReopenEffect, ReservedWaits, FreeingStep
  <2>. QED  BY <2>1, <2>3, <2>4 DEF Submit, Continue
<1>2. CASE \E c \in Clients, t \in Tasks : Recover(c, t)
  <2>1. PICK c \in Clients, t \in Tasks : Recover(c, t)
    BY <1>2
  <2>2. /\ tasks' = tasks /\ c \in Askers
        /\ call' = [call EXCEPT ![c] = [Idle EXCEPT !.kind = "recover", !.task = t, !.step = "read"]]
    BY <2>1 DEF Recover, Askers, NoWrite, durable, tables
  <2>3. PICK asked : asked = [Idle EXCEPT !.kind = "recover", !.task = t, !.step = "read"]
    OBVIOUS
  <2>4. asked.step = "read"
    BY <2>3 DEF Idle
  <2>5. call'[c] = asked /\ \A d \in Askers \ {c} : SameCall(d)
    BY <2>2, <2>3, InvParts DEF SameCall
  <2>. QED  BY <2>2, <2>4, <2>5, AskedBetween, IdleStep DEF Between
<1>3. CASE \E c \in Clients, t \in Tasks :
             \E kind \in {"pause", "resume", "level", "stop"} : Request(c, kind, t)
  <2>1. PICK c \in Clients, t \in Tasks, kind \in {"pause", "resume", "level", "stop"} :
           Request(c, kind, t)
    BY <1>3
  <2>2. tasks' = tasks /\ c \in Askers /\ State(t) # "absent" /\ Begins(c, kind, t)
    BY <2>1 DEF Request, Askers, NoWrite, durable, tables
  <2>3. State(t)' # "absent"
    BY <2>2 DEF State
  <2>4. ~Between(c)' /\ \A d \in Askers \ {c} : SameCall(d)
    BY <2>2, <2>3, BeginsFacts
  <2>. QED  BY <2>2, <2>4, AskedBetween, IdleStep
<1>4. CASE \E t \in Tasks, op \in Ops : RetryResume(t, op)
  <2>1. PICK t \in Tasks, op \in Ops : RetryResume(t, op)
    BY <1>4
  <2>2. \A c \in Askers : SameBetween(c)
    BY <2>1, SameCalls DEF RetryResume
  <2>3. tasks' = tasks \/ (turns[t] < reserved[t][op] /\ ChangeState(t, Keep, "queued"))
    BY <2>1 DEF RetryResume, RetryQueues, tables
  <2>4. CASE turns[t] < reserved[t][op] /\ ChangeState(t, Keep, "queued")
    <3>1. Only(t) /\ State(t)' = "queued" /\ UNCHANGED <<turns, resumeTurn>>
      BY <2>4, InvParts, ChangeStateEffect
    <3>2. reserved[t][op] <= resumeTurn[t]
      BY InvParts DEF TaskSound, PastSound
    <3>3. turns[t] \in Nat /\ resumeTurn[t] \in Nat /\ reserved[t][op] \in Nat
      BY InvParts DEF TablesTypeOK
    <3>4. ResumeWaits(t)'
      BY <2>4, <3>1, <3>2, <3>3 DEF ResumeWaits
    <3>. QED  BY <2>2, <3>1, <3>4, FreeingStep DEF Frees
  <2>. QED  BY <2>2, <2>3, <2>4, IdleStep
<1>. QED  BY <1>1, <1>2, <1>3, <1>4 DEF Person

LEMMA YieldingReviewed ==
    ASSUME Inv, Uninterrupted, NEW t \in Tasks, Yielding(t)
    PROVE  ReviewStep
<1>1. tasks' = tasks /\ t \in Askers
  BY DEF Yielding, YieldPauses, YieldLooks, YieldResumes, YieldOver, NoWrite, durable, tables, Askers
<1>2. CASE call' = call
  BY <1>1, <1>2, SameCalls, IdleStep
<1>3. CASE RoomEnds(t)
  <2>1. call' = [call EXCEPT ![t] = Idle] /\ Idle.step # "second"
    BY <1>3 DEF RoomEnds, Idle
  <2>2. call'[t] = Idle /\ \A d \in Askers \ {t} : SameCall(d)
    BY <1>1, <2>1, InvParts DEF SameCall
  <2>. QED  BY <1>1, <2>1, <2>2, AskedBetween, IdleStep DEF Between
<1>4. ASSUME NEW kind \in {"pause", "resume", "level", "stop"}, Begins(t, kind, t)
      PROVE  ReviewStep
  <2>1. State(t)' # "absent"
    BY <1>1, InvParts DEF RoomSound, Yielding, State
  <2>2. ~Between(t)' /\ \A d \in Askers \ {t} : SameCall(d)
    BY <1>1, <1>4, <2>1, BeginsFacts
  <2>. QED  BY <1>1, <2>2, AskedBetween, IdleStep
<1>. QED  BY <1>2, <1>3, <1>4 DEF Yielding, YieldPauses, YieldLooks, YieldResumes, YieldOver

LEMMA CrashReviewed ==
    ASSUME Inv, Uninterrupted, Crash
    PROVE  ReviewStep
<1>1. tasks' = tasks
  BY DEF Crash, NoWrite, durable, tables
<1>2. \A c \in Askers : ~Between(c)'
  BY DEF Crash, Between, Idle
<1>. QED  BY <1>1, <1>2, IdleStep DEF SameBetween

LEMMA PausesReviewed ==
    ASSUME Inv, Uninterrupted, NEW c \in Askers, call[c].kind # "none",
           PauseAgain(c) \/ PauseBusy(c) \/ PauseHold(c) \/ PauseIdle(c)
    PROVE  ReviewStep
<1>1. PICK t : t = call[c].task
  OBVIOUS
<1>2. t \in Tasks /\ TablesTypeOK /\ call \in [Askers -> Calls]
  BY <1>1, InvParts DEF CallSound
<1>3. CASE PauseAgain(c)
  <2>1. tasks' = tasks /\ Answered(c)
    BY <1>3 DEF PauseAgain, NoWrite, durable, tables
  <2>. QED  BY <2>1, AnsweredBetween, IdleStep
<1>4. CASE PauseBusy(c)
  <2>1. RequestPause(t, Gen(t), Op(t), FreshOp) /\ call' = [call EXCEPT ![c].step = "second"]
    BY <1>1, <1>4 DEF PauseBusy
  <2>2. call'[c].task = t /\ \A d \in Askers \ {c} : SameCall(d)
    BY <1>1, <1>2, <2>1 DEF SameCall, Calls
  <2>3. Only(t) /\ State(t) # "interrupted" /\ State(t)' # "interrupted"
    BY <1>2, <2>1, RequestPauseEffect
  <2>4. \A d \in Askers \ {c} : SameBetween(d)
    BY <2>2 DEF SameBetween, Between, SameCall
  <2>. QED  BY <1>2, <2>2, <2>3, <2>4, OpeningStep
<1>5. CASE PauseHold(c)
  <2>1. (Hold(t, Gen(t), Op(t), FreshOp) \/ tasks' = tasks) /\ Answered(c)
    BY <1>1, <1>5 DEF PauseHold, tables
  <2>2. CASE Hold(t, Gen(t), Op(t), FreshOp)
    <3>1. Only(t) /\ Frees(t)
      BY <1>2, <2>2, HoldEffect DEF Frees
    <3>. QED  BY <1>2, <2>1, <3>1, AnsweredBetween, FreeingStep
  <2>. QED  BY <2>1, <2>2, AnsweredBetween, IdleStep
<1>6. CASE PauseIdle(c)
  <2>1. Pause(t) /\ Answered(c) /\ LockFree /\ ~Refuses(t)
    BY <1>1, <1>6 DEF PauseIdle, Served
  <2>2. State(t) # "interrupted"
    BY <1>1, <2>1, ServedFacts
  <2>3. Only(t) /\ Frees(t)
    BY <1>2, <2>1, <2>2, PauseEffect DEF Frees
  <2>. QED  BY <1>2, <2>1, <2>3, AnsweredBetween, FreeingStep
<1>. QED  BY <1>3, <1>4, <1>5, <1>6

LEMMA RerunReviewed ==
    ASSUME TablesTypeOK, NEW t \in Tasks, NEW choice \in Raised \cup {Keep}, Rerun(t, choice),
           State(t) # "interrupted"
    PROVE  Only(t) /\ Frees(t)
<1>1. ContinueRunning(t, choice) \/ RunBare(t, choice)
  BY DEF Rerun
<1>2. choice \in 0..4 \cup {Keep}
  BY GatewayAssumption
<1>. QED  BY <1>1, <1>2, RerunEffect DEF Frees

LEMMA ResumesReviewed ==
    ASSUME Inv, Uninterrupted, NEW c \in Askers, call[c].kind # "none",
           ResumeFirst(c) \/ ResumeRelease(c) \/ ResumeSecond(c)
    PROVE  ReviewStep
<1>1. PICK t : t = call[c].task
  OBVIOUS
<1>2. t \in Tasks /\ TablesTypeOK /\ call \in [Askers -> Calls]
  BY <1>1, InvParts DEF CallSound
<1>3. CASE ResumeFirst(c)
  <2>1. /\ CancelPause(t, Gen(t), Op(t), FreshOp) \/ Resume(t)
        /\ call' = [call EXCEPT ![c].step = "second"]
    BY <1>1, <1>3 DEF ResumeFirst
  <2>2. call'[c].task = t /\ \A d \in Askers \ {c} : SameCall(d)
    BY <1>1, <1>2, <2>1 DEF SameCall, Calls
  <2>3. Only(t) /\ State(t) # "interrupted" /\ State(t)' # "interrupted"
    BY <1>2, <2>1, CancelPauseEffect, ResumeEffect
  <2>4. \A d \in Askers \ {c} : SameBetween(d)
    BY <2>2 DEF SameBetween, Between, SameCall
  <2>. QED  BY <1>2, <2>2, <2>3, <2>4, OpeningStep
<1>4. CASE ResumeRelease(c)
  <2>1. Release(t, Gen(t), Op(t), FreshOp) /\ call' = call
    BY <1>1, <1>4 DEF ResumeRelease
  <2>2. Only(t) /\ Frees(t)
    BY <1>2, <2>1, ReleaseEffect DEF Frees
  <2>. QED  BY <1>2, <2>1, <2>2, SameCalls, FreeingStep
<1>5. CASE ResumeSecond(c)
  <2>1. (Rerun(t, Keep) \/ tasks' = tasks) /\ Answered(c) /\ Between(c)
    BY <1>1, <1>5 DEF ResumeSecond, Between, tables
  <2>2. State(t) # "interrupted"
    BY <1>1, <2>1 DEF Uninterrupted
  <2>3. CASE Rerun(t, Keep)
    <3>1. Only(t) /\ Frees(t)
      BY <1>2, <2>2, <2>3, RerunReviewed
    <3>. QED  BY <1>2, <2>1, <3>1, AnsweredBetween, FreeingStep
  <2>. QED  BY <2>1, <2>3, AnsweredBetween, IdleStep
<1>. QED  BY <1>3, <1>4, <1>5

LEMMA ChangesReviewed ==
    ASSUME Inv, Uninterrupted, NEW c \in Askers, call[c].kind # "none",
           LevelSet(c) \/ StopServed(c) \/ RecoverCommit(c)
    PROVE  ReviewStep
<1>1. PICK t : t = call[c].task
  OBVIOUS
<1>2. t \in Tasks /\ TablesTypeOK
  BY <1>1, InvParts DEF CallSound
<1>3. \A d \in Askers : SameBetween(d)
  BY AnsweredBetween DEF LevelSet, StopServed, RecoverCommit
<1>4. CASE LevelSet(c)
  <2>1. PICK level \in Raised :
           ChangePriority(t, level) \/ Rerun(t, level) \/ ChangeState(t, level, "queued")
    BY <1>1, <1>4 DEF LevelSet
  <2>2. level \in 0..4 /\ LockFree /\ ~Refuses(t)
    BY <1>1, <1>4, GatewayAssumption DEF LevelSet, Served
  <2>3. State(t) # "interrupted"
    BY <1>1, <2>2, ServedFacts
  <2>4. CASE ChangePriority(t, level)
    BY <1>2, <1>3, <2>2, <2>4, ChangePriorityEffect, FreeingStep DEF Frees
  <2>5. CASE Rerun(t, level)
    BY <1>2, <1>3, <2>3, <2>5, RerunReviewed, FreeingStep
  <2>6. CASE ChangeState(t, level, "queued")
    <3>1. Only(t) /\ Frees(t)
      BY <1>2, <2>2, <2>3, <2>6, ChangeStateEffect DEF Frees
    <3>. QED  BY <1>2, <1>3, <3>1, FreeingStep
  <2>. QED  BY <2>1, <2>4, <2>5, <2>6
<1>5. CASE StopServed(c)
  <2>1. GuardedStop(t, Gen(t), Op(t), FreshOp) \/ Finish(t, "cancelled") \/ tasks' = tasks
    BY <1>1, <1>5 DEF StopServed, NoWrite, durable, tables
  <2>2. CASE GuardedStop(t, Gen(t), Op(t), FreshOp) \/ Finish(t, "cancelled")
    <3>1. "cancelled" \in Terminal
      BY DEF Terminal
    <3>2. Only(t) /\ State(t)' \in Terminal
      BY <1>2, <2>2, <3>1, StopEffect
    <3>. QED  BY <1>2, <1>3, <3>2, FreeingStep DEF Frees
  <2>. QED  BY <1>3, <2>1, <2>2, IdleStep
<1>6. CASE RecoverCommit(c)
  <2>1. PICK e, op : ResumeRecovered(t, e.gen, e.op, e.exec, e.first, op)
    BY <1>1, <1>6 DEF RecoverCommit
  <2>2. Reserves(t)
    BY <1>2, <2>1, ResumeRecoveredEffect
  <2>. QED  BY <1>2, <1>3, <2>2, ReservedWaits, FreeingStep
<1>. QED  BY <1>4, <1>5, <1>6

(* An answer, a wait and the reading of evidence write nothing.            *)
LEMMA RefusalsReviewed ==
    ASSUME Inv, Uninterrupted, NEW c \in Askers, call[c].kind # "none",
           \/ ParkAwaited(c) \/ Unavailable(c) \/ PauseRefused(c) \/ ResumeRefused(c)
           \/ LevelRefused(c) \/ ReadEvidence(c) \/ RecoverRefused(c)
    PROVE  ReviewStep
<1>1. tasks' = tasks /\ call \in [Askers -> Calls]
  BY InvParts DEF ParkAwaited, Unavailable, PauseRefused, ResumeRefused, LevelRefused, ReadEvidence,
     RecoverRefused, NoWrite, durable, tables
<1>2. CASE Answered(c) \/ Rejected(c)
  BY <1>1, <1>2, AnsweredBetween, IdleStep
<1>3. CASE Rejoins(c)
  <2>1. call'[c].step = "asked" /\ \A d \in Askers \ {c} : SameCall(d)
    BY <1>1, <1>3 DEF Rejoins, SameCall, Calls
  <2>. QED  BY <1>1, <2>1, AskedBetween, IdleStep DEF Between
<1>4. CASE call' = [call EXCEPT ![c].step = "decided"]
  <2>1. call'[c].step = "decided" /\ \A d \in Askers \ {c} : SameCall(d)
    BY <1>1, <1>4 DEF SameCall, Calls
  <2>. QED  BY <1>1, <2>1, AskedBetween, IdleStep DEF Between
<1>. QED  BY <1>2, <1>3, <1>4 DEF ParkAwaited, Unavailable, PauseRefused, ResumeRefused, LevelRefused,
            ReadEvidence, RecoverRefused

LEMMA NextReviewed ==
    ASSUME Inv, Uninterrupted, [Next]_vars
    PROVE  ReviewStep
<1>1. CASE UNCHANGED vars
  BY <1>1, SameCalls, IdleStep DEF vars, durable, volatile, tables
<1>2. CASE \E c \in Askers : Serve(c)
  <2>1. PICK c \in Askers : Serve(c)
    BY <1>2
  <2>. QED  BY <2>1, PausesReviewed, ResumesReviewed, ChangesReviewed, RefusalsReviewed DEF Serve
<1>3. CASE System /\ IdsLeft
  BY <1>2, <1>3, StartupReviewed, LaunchingReviewed, TurnReviewed, EndingReviewed, YieldingReviewed
     DEF System, RunStep
<1>4. CASE (Person \/ (\E t \in Tasks : Work(t)) \/ Fault) /\ IdsLeft
  BY <1>4, PersonReviewed, TurnReviewed, CrashReviewed, LaunchingReviewed, EndingReviewed DEF Fault
<1>. QED  BY <1>1, <1>3, <1>4 DEF Next

LEMMA UninterruptedAlways == Spec => [](Inv /\ Uninterrupted)
<1>1. Init => Uninterrupted
  BY DEF Init, Uninterrupted, Between, Idle
<1>2. Inv /\ Uninterrupted /\ [Next]_vars => Uninterrupted'
  BY NextReviewed DEF ReviewStep
<1>. QED  BY <1>1, <1>2, InvHolds, PTL DEF Spec

----------------------------------------------------------------------------
(* A Stop that comes while a turn is being started waits                   *)

(* Where a turn is being started under a Stop, that Stop waits behind it.  *)
LateSound(t) == run[t].at = "starting" /\ In(t, "stopping") => \E c \in Askers : LateStop(c, t)
StopsWait == \A t \in Tasks : LateSound(t)

(* A step that starts no turn; and one that leaves a request as it waits.  *)
NoneStarts == \A u \in Tasks : run'[u].at = "starting" => run[u].at = "starting"
SameWait(c) ==
    /\ call'[c].kind = call[c].kind /\ call'[c].task = call[c].task
    /\ call'[c].step = call[c].step /\ call'[c].ahead = call[c].ahead
NoneStops == \A u \in Tasks : In(u, "stopping")' => In(u, "stopping")

(* No turn is being started while the lock is free, another has it, or the *)
(* gateway is not open.                                                    *)
Elsewhere ==
    \/ LockFree \/ phase # "ready"
    \/ \E c \in Askers : Between(c)
    \/ \E t \in Tasks : run[t].at \in {"fenced", "admitted", "intent"}

LEMMA ElsewhereWaits ==
    ASSUME Inv, Elsewhere, NoneStarts
    PROVE  StopsWait'
<1>. SUFFICES ASSUME NEW u \in Tasks, run'[u].at = "starting" PROVE FALSE
  BY DEF StopsWait, LateSound
<1>1. run[u].at = "starting" /\ run[u].at \in Holding /\ phase = "ready"
  BY NowOpen DEF NoneStarts, Holding
<1>2. CASE LockFree
  BY <1>1, <1>2 DEF LockFree
<1>3. CASE \E c \in Askers : Between(c)
  BY <1>1, <1>3, InvParts DEF LockSound
<1>4. CASE \E t \in Tasks : run[t].at \in {"fenced", "admitted", "intent"}
  BY <1>1, <1>4, InvParts DEF LockSound, Holding
<1>. QED  BY <1>1, <1>2, <1>3, <1>4 DEF Elsewhere

LEMMA SameWaits ==
    ASSUME StopsWait, NoneStarts, NoneStops, NEW c \in Askers,
           \A t \in Tasks : ~LateStop(c, t), \A d \in Askers \ {c} : SameWait(d)
    PROVE  StopsWait'
<1>. SUFFICES ASSUME NEW u \in Tasks, run'[u].at = "starting", In(u, "stopping")'
              PROVE  \E d \in Askers : LateStop(d, u)'
  BY DEF StopsWait, LateSound
<1>1. PICK d \in Askers : LateStop(d, u)
  BY DEF StopsWait, LateSound, NoneStarts, NoneStops
<1>2. SameWait(d)
  BY <1>1
<1>. QED  BY <1>1, <1>2 DEF LateStop, StopWaits, Waits, SameWait

LEMMA QuietWaits ==
    ASSUME StopsWait, NoneStarts, NoneStops, call' = call
    PROVE  StopsWait'
<1>. SUFFICES ASSUME NEW u \in Tasks, run'[u].at = "starting", In(u, "stopping")'
              PROVE  \E d \in Askers : LateStop(d, u)'
  BY DEF StopsWait, LateSound
<1>1. PICK d \in Askers : LateStop(d, u)
  BY DEF StopsWait, LateSound, NoneStarts, NoneStops
<1>. QED  BY <1>1 DEF LateStop, StopWaits, Waits

LEMMA SameStops ==
    ASSUME Inv,
           \/ sets' = sets
           \/ \E t \in Tasks, n \in SetNames \ {"stopping"} : sets' = Adding(sets, n, t)
           \/ \E t \in Tasks, names \in SUBSET SetNames : sets' = Dropping(sets, names, t)
    PROVE  NoneStops
<1>1. CASE sets' = sets
  BY <1>1 DEF NoneStops, In
<1>2. CASE \E t \in Tasks, n \in SetNames \ {"stopping"} : sets' = Adding(sets, n, t)
  BY <1>2, InvParts DEF NoneStops, In, Adding, SetNames
<1>3. CASE \E t \in Tasks, names \in SUBSET SetNames : sets' = Dropping(sets, names, t)
  BY <1>3, InvParts DEF NoneStops, In, Dropping, SetNames
<1>. QED  BY <1>1, <1>2, <1>3

LEMMA UnmovedStarts ==
    ASSUME run' = run
    PROVE  NoneStarts
BY DEF NoneStarts

LEMMA MovedStarts ==
    ASSUME Inv, NEW t \in Tasks, NEW r, run' = [run EXCEPT ![t] = r],
           r.at = "starting" => run[t].at = "starting"
    PROVE  NoneStarts
BY InvParts DEF NoneStarts

LEMMA PlacedStarts ==
    ASSUME Inv, NEW t \in Tasks, NEW place, place # "starting",
           run' = Moved(t, place) \/ \E out : run' = Going(t, place, out)
    PROVE  NoneStarts
<1>1. \A u \in Tasks : run'[u].at = "starting" => u # t /\ run'[u] = run[u]
  BY InvParts DEF Moved, Going, Runs
<1>. QED  BY <1>1 DEF NoneStarts

LEMMA ScheduledStarts ==
    ASSUME Inv, Schedule(run) \/ \E t \in Tasks : Schedule(Over(t)) \/ Schedule(Gone(t))
    PROVE  NoneStarts
<1>1. PICK after \in [Tasks -> Runs] :
         Schedule(after) /\ \A u \in Tasks : after[u].at = "starting" => run[u].at = "starting"
  <2>1. CASE Schedule(run)
    BY <2>1, InvParts
  <2>2. ASSUME NEW t \in Tasks, NEW r, r \in {Emptied(t), Vacant(t)},
               Schedule([run EXCEPT ![t] = r])
        PROVE  \E after \in [Tasks -> Runs] :
                  Schedule(after) /\ \A u \in Tasks : after[u].at = "starting" => run[u].at = "starting"
    <3>1. r \in Runs /\ r.at = "none"
      BY <2>2, VacantRun
    <3>2. PICK after : after = [run EXCEPT ![t] = r]
      OBVIOUS
    <3>3. after \in [Tasks -> Runs] /\ \A u \in Tasks : after[u].at = "starting" => run[u].at = "starting"
      BY <3>1, <3>2, InvParts
    <3>4. Schedule(after)
      BY <2>2, <3>2
    <3>. QED  BY <3>3, <3>4
  <2>. QED  BY <2>1, <2>2, OverIs
<1>2. ASSUME NEW u \in Tasks, run'[u].at = "starting"
      PROVE  run[u].at = "starting"
  <2>1. Alike(run'[u], after[u]) \/ Chosen(u, after)
    BY <1>1, ScheduleView
  <2>2. CASE Chosen(u, after)
    <3>1. after[u] \in Runs /\ run'[u] = [after[u] EXCEPT !.at = "check"]
      BY <2>2 DEF Chosen
    <3>. QED  BY <1>2, <3>1 DEF Runs
  <2>. QED  BY <1>1, <1>2, <2>1, <2>2 DEF Alike
<1>. QED  BY <1>2 DEF NoneStarts

(* A Stop that begins to wait now does so behind the turn that starts.     *)
LEMMA BeginsWaits ==
    ASSUME Inv, StopsWait, NoneStarts, NEW c \in Askers, NEW t \in Tasks,
           NEW kind \in {"pause", "resume", "level", "stop"},
           call[c].kind = "none", Begins(c, kind, t)
    PROVE  StopsWait'
<1>1. PICK asked : asked =
        [kind |-> kind, task |-> t, ahead |-> Standing, after |-> {d \in Askers : Waits(d)},
         step |-> IF kind = "resume" /\ In(t, "winners") /\ Resident(t) THEN "waiting" ELSE "asked"]
  OBVIOUS
<1>2. call' = [call EXCEPT ![c] = asked]
  BY <1>1 DEF Begins
<1>3. call'[c] = asked /\ \A d \in Askers \ {c} : SameWait(d)
  BY <1>2, InvParts DEF SameWait
<1>4. \A u \in Tasks : ~LateStop(c, u)
  BY DEF LateStop, StopWaits
<1>5. CASE sets' = sets \/ sets' = Adding(sets, "pauseReq", t)
  BY <1>3, <1>4, <1>5, SameStops, SameWaits DEF SetNames
<1>6. CASE kind = "stop" /\ sets' = Adding(sets, "stopping", t)
  <2>. SUFFICES ASSUME NEW u \in Tasks, run'[u].at = "starting", In(u, "stopping")'
                PROVE  \E d \in Askers : LateStop(d, u)'
    BY DEF StopsWait, LateSound
  <2>1. run[u].at = "starting"
    BY DEF NoneStarts
  <2>2. CASE u = t
    <3>1. /\ call'[c].kind = "stop" /\ call'[c].task = u /\ call'[c].step = "asked"
          /\ call'[c].ahead[u] = "starting"
      BY <1>1, <1>3, <1>6, <2>1, <2>2 DEF Standing
    <3>. QED  BY <3>1 DEF LateStop, StopWaits, Waits
  <2>3. CASE u # t
    <3>1. In(u, "stopping")
      BY <1>6, <2>3, InvParts DEF In, Adding, SetNames
    <3>2. PICK d \in Askers : LateStop(d, u)
      BY <2>1, <3>1 DEF StopsWait, LateSound
    <3>3. SameWait(d)
      BY <1>3, <1>4, <3>2
    <3>. QED  BY <3>2, <3>3 DEF LateStop, StopWaits, Waits, SameWait
  <2>. QED  BY <2>2, <2>3
<1>. QED  BY <1>5, <1>6 DEF Begins

LEMMA LaunchingWaits ==
    ASSUME Inv, StopsWait, NEW t \in Tasks, Launching(t) \/ LaunchFails(t)
    PROVE  StopsWait'
<1>1. NoneStops /\ call' = call
  BY SameStops DEF Launching, Check, Gate, FenceFirst, Fenced, FenceOrdinary, Register, StartTurn,
     BeginTurn, LaunchFails
<1>2. CASE Check(t) \/ BeginTurn(t) \/ LaunchFails(t)
  <2>1. PICK r : run' = [run EXCEPT ![t] = r] /\ r.at # "starting"
    <3>1. run[t] \in Runs
      BY InvParts
    <3>2. CASE Check(t)
      <4>1. PICK kept : run' = [run EXCEPT ![t].at = "gate", ![t].exec = kept, ![t].pending = kept,
                                          ![t].fenced = (kept # NoExec)]
        BY <3>2 DEF Check
      <4>2. PICK r : r = [run[t] EXCEPT !.at = "gate", !.exec = kept, !.pending = kept,
                                       !.fenced = (kept # NoExec)]
        OBVIOUS
      <4>3. run' = [run EXCEPT ![t] = r] /\ r.at = "gate"
        BY <3>1, <4>1, <4>2, InvParts DEF Runs
      <4>. QED  BY <4>3
    <3>3. CASE BeginTurn(t)
      <4>1. PICK r : r = [run[t] EXCEPT !.at = "turn", !.pending = NoExec]
        OBVIOUS
      <4>2. run' = [run EXCEPT ![t] = r] /\ r.at = "turn"
        BY <3>1, <3>3, <4>1, InvParts DEF BeginTurn, Runs
      <4>. QED  BY <4>2
    <3>4. CASE LaunchFails(t)
      <4>1. PICK r : r = [run[t] EXCEPT !.at = "closing", !.out = Broken(t)]
        OBVIOUS
      <4>2. run' = [run EXCEPT ![t] = r] /\ r.at = "closing"
        BY <3>1, <3>4, <4>1, InvParts DEF LaunchFails, Going, Runs
      <4>. QED  BY <4>2
    <3>. QED  BY <1>2, <3>2, <3>3, <3>4
  <2>. QED  BY <1>1, <2>1, MovedStarts, QuietWaits
<1>3. CASE Gate(t) \/ FenceFirst(t) \/ Fenced(t) \/ FenceOrdinary(t) \/ Register(t)
  <2>1. Elsewhere
    BY <1>3 DEF Gate, FenceFirst, Fenced, FenceOrdinary, Register, RunLock, At, Elsewhere
  <2>2. CASE \E place \in {"fence", "build", "admitted", "closing"} :
               run' = Moved(t, place) \/ \E out : run' = Going(t, place, out)
    BY <2>1, <2>2, PlacedStarts, ElsewhereWaits
  <2>3. CASE FenceFirst(t)
    <3>1. PICK r : r = [run[t] EXCEPT !.at = "fenced", !.exec = FreshExec, !.pending = FreshExec,
                                     !.fenced = TRUE]
      OBVIOUS
    <3>2. r.at = "fenced"
      BY <3>1, InvParts DEF Runs
    <3>3. run' = [run EXCEPT ![t] = r] \/ run' = Going(t, "closing", "deferred")
      BY <2>3, <3>1, InvParts DEF FenceFirst
    <3>. QED  BY <2>1, <2>2, <3>2, <3>3, MovedStarts, ElsewhereWaits
  <2>4. CASE FenceOrdinary(t)
    <3>1. PICK r : r = [run[t] EXCEPT !.at = "build", !.exec = FreshExec]
      OBVIOUS
    <3>2. r.at = "build"
      BY <3>1, InvParts DEF Runs
    <3>3. \/ run' = [run EXCEPT ![t] = r] \/ run' = Moved(t, "build")
          \/ run' = Going(t, "closing", "deferred")
      BY <2>4, <3>1, InvParts DEF FenceOrdinary
    <3>. QED  BY <2>1, <2>2, <3>2, <3>3, MovedStarts, ElsewhereWaits
  <2>5. CASE Gate(t) \/ Fenced(t) \/ Register(t)
    BY <2>2, <2>5 DEF Gate, Fenced, Register
  <2>. QED  BY <1>3, <2>3, <2>4, <2>5
<1>4. CASE StartTurn(t)
  <2>. SUFFICES ASSUME NEW u \in Tasks, run'[u].at = "starting", In(u, "stopping")'
                PROVE  FALSE
    BY DEF StopsWait, LateSound
  <2>1. In(u, "stopping") /\ run[t].at \in Holding
    BY <1>1, <1>4 DEF NoneStops, StartTurn, At, Holding
  <2>2. CASE u = t
    <3>1. run' = Going(t, "closing", "stopped")
      BY <1>4, <2>1, <2>2 DEF StartTurn
    <3>. QED  BY <2>2, <3>1, InvParts DEF Going, Runs
  <2>3. CASE u # t
    <3>1. run'[u] = run[u]
      BY <1>4, <2>3, InvParts DEF StartTurn, Going, Moved
    <3>. QED  BY <2>1, <2>3, <3>1, InvParts DEF LockSound, Holding
  <2>. QED  BY <2>2, <2>3
<1>. QED  BY <1>2, <1>3, <1>4 DEF Launching

LEMMA TurnWaits ==
    ASSUME Inv, StopsWait, NEW t \in Tasks, InTurn(t) \/ Work(t)
    PROVE  StopsWait'
<1>1. run[t] \in Runs
  BY InvParts
<1>2. CASE HoldCall(t) \/ ReleaseCall(t) \/ CaptureTool(t)
  <2>1. Elsewhere
    BY <1>2 DEF HoldCall, ReleaseCall, CaptureTool, RunLock, Elsewhere
  <2>2. ASSUME NEW point, run' = [run EXCEPT ![t].point = point]
        PROVE  NoneStarts
    <3>1. PICK r : r = [run[t] EXCEPT !.point = point]
      OBVIOUS
    <3>2. run' = [run EXCEPT ![t] = r] /\ r.at = run[t].at
      BY <1>1, <2>2, <3>1, InvParts DEF Runs
    <3>. QED  BY <3>2, MovedStarts
  <2>3. NoneStarts
    BY <1>2, <2>2, UnmovedStarts DEF HoldCall, ReleaseCall, CaptureTool
  <2>. QED  BY <2>1, <2>3, ElsewhereWaits
<1>3. CASE Ask(t) \/ CallStarts(t)
  <2>1. PICK point : run' = [run EXCEPT ![t].point = point]
    BY <1>3 DEF Ask, CallStarts
  <2>2. PICK r : r = [run[t] EXCEPT !.point = point]
    OBVIOUS
  <2>3. run' = [run EXCEPT ![t] = r] /\ r.at = run[t].at
    BY <1>1, <2>1, <2>2, InvParts DEF Runs
  <2>4. NoneStops /\ call' = call
    BY <1>3, SameStops DEF Ask, CallStarts
  <2>. QED  BY <2>3, <2>4, MovedStarts, QuietWaits
<1>4. CASE TurnEnds(t)
  <2>1. PICK out : run' = [run EXCEPT ![t].at = "closing", ![t].out = out]
    BY <1>4 DEF TurnEnds
  <2>2. PICK r : r = [run[t] EXCEPT !.at = "closing", !.out = out]
    OBVIOUS
  <2>3. run' = [run EXCEPT ![t] = r] /\ r.at = "closing"
    BY <1>1, <2>1, <2>2, InvParts DEF Runs
  <2>4. NoneStops /\ call' = call
    BY <1>4, SameStops DEF TurnEnds
  <2>. QED  BY <2>3, <2>4, MovedStarts, QuietWaits
<1>. QED  BY <1>2, <1>3, <1>4 DEF InTurn, Work

LEMMA EndingWaits ==
    ASSUME Inv, StopsWait, NEW t \in Tasks, Ending(t) \/ CloseFails(t)
    PROVE  StopsWait'
<1>1. CASE SettleBroken(t) \/ FinalizeStuck(t)
  <2>1. Elsewhere
    BY <1>1 DEF SettleBroken, FinalizeStuck, RunLock, Elsewhere
  <2>2. NoneStarts
    BY <1>1, PlacedStarts, UnmovedStarts DEF SettleBroken, FinalizeStuck
  <2>. QED  BY <2>1, <2>2, ElsewhereWaits
<1>2. CASE SettleIntent(t) \/ SettleKept(t) \/ Settle(t)
  <2>1. Elsewhere
    BY <1>2 DEF SettleIntent, SettleKept, Settle, RunLock, At, Elsewhere
  <2>2. NoneStarts
    BY <1>2, ScheduledStarts DEF SettleIntent, SettleKept, Settle
  <2>. QED  BY <2>1, <2>2, ElsewhereWaits
<1>3. CASE Close(t) \/ CloseFails(t) \/ FinalizeFails(t)
  <2>1. NoneStarts
    BY <1>3, PlacedStarts, UnmovedStarts DEF Close, CloseFails, FinalizeFails
  <2>2. NoneStops /\ call' = call
    BY <1>3, SameStops DEF Close, CloseFails, FinalizeFails, SetNames
  <2>. QED  BY <2>1, <2>2, QuietWaits
<1>4. CASE FinalizePark(t)
  <2>1. NoneStarts
    BY <1>4, PlacedStarts DEF FinalizePark
  <2>2. call' = call /\ \E names \in SUBSET SetNames : sets' = Dropping(sets, names, t)
    BY <1>4 DEF FinalizePark, SetNames
  <2>. QED  BY <2>1, <2>2, SameStops, QuietWaits
<1>. QED  BY <1>1, <1>2, <1>3, <1>4 DEF Ending

LEMMA StartupWaits ==
    ASSUME Inv, StopsWait, Startup
    PROVE  StopsWait'
<1>1. Elsewhere
  BY DEF Startup, Boot, Recovered, OpenEnds, ResolveIntent, LeaveAsIs, Classify, Admit, Elsewhere
<1>2. NoneStarts
  BY UnmovedStarts, ScheduledStarts DEF Startup, Boot, Recovered, OpenEnds, ResolveIntent,
     LeaveAsIs, Classify, Admit, Starting
<1>. QED  BY <1>1, <1>2, ElsewhereWaits

LEMMA AnsweredWaits ==
    ASSUME Inv, NEW c \in Askers, Answered(c) \/ Rejected(c)
    PROVE  \A d \in Askers \ {c} : SameWait(d)
<1>1. PICK idle : Replied(c, idle)
  BY DEF Answered, Rejected
<1>. SUFFICES ASSUME NEW d \in Askers \ {c} PROVE SameWait(d)
  OBVIOUS
<1>2. call[d] \in Calls /\ call'[d] = [call[d] EXCEPT !.after = @ \ {c}]
  BY <1>1, InvParts DEF Replied
<1>. QED  BY <1>2 DEF SameWait, Calls

(* A request that does not wait for the lock is no Stop that does.         *)
LEMMA AsideWaits ==
    ASSUME Inv, StopsWait, run' = run, sets' = sets, NEW c \in Askers,
           call[c].step \in {"waiting", "read"}, \A d \in Askers \ {c} : SameWait(d)
    PROVE  StopsWait'
<1>1. \A t \in Tasks : ~LateStop(c, t)
  BY DEF LateStop, StopWaits, Waits
<1>. QED  BY <1>1, UnmovedStarts, SameStops, SameWaits

LEMMA ServeWaits ==
    ASSUME Inv, StopsWait, NEW c \in Askers, Serve(c)
    PROVE  StopsWait'
<1>1. CASE ParkAwaited(c)
  <2>1. \A d \in Askers \ {c} : SameWait(d)
    <3>1. ASSUME Rejoins(c) PROVE \A d \in Askers \ {c} : SameWait(d)
      BY <3>1, InvParts DEF Rejoins, SameWait
    <3>. QED  BY <1>1, <3>1, AnsweredWaits DEF ParkAwaited
  <2>. QED  BY <1>1, <2>1, AsideWaits DEF ParkAwaited
<1>2. CASE ReadEvidence(c)
  <2>1. \A d \in Askers \ {c} : SameWait(d)
    <3>1. ASSUME call' = [call EXCEPT ![c].step = "decided"]
          PROVE  \A d \in Askers \ {c} : SameWait(d)
      BY <3>1, InvParts DEF SameWait
    <3>. QED  BY <1>2, <3>1, AnsweredWaits DEF ReadEvidence
  <2>. QED  BY <1>2, <2>1, AsideWaits DEF ReadEvidence
<1>3. CASE \/ Unavailable(c) \/ PauseRefused(c) \/ PauseAgain(c) \/ PauseBusy(c)
           \/ ResumeRefused(c) \/ ResumeFirst(c) \/ LevelRefused(c) \/ RecoverRefused(c)
  <2>1. LockFree /\ run' = run
    BY <1>3 DEF Unavailable, PauseRefused, PauseAgain, PauseBusy, ResumeRefused, ResumeFirst,
       LevelRefused, RecoverRefused, Served
  <2>. QED  BY <2>1, UnmovedStarts, ElsewhereWaits DEF Elsewhere
<1>4. CASE PauseIdle(c) \/ LevelSet(c) \/ StopServed(c) \/ RecoverCommit(c)
  <2>1. LockFree
    BY <1>4 DEF PauseIdle, LevelSet, StopServed, RecoverCommit, Served
  <2>2. run' = run \/ Schedule(run)
    BY <1>4 DEF PauseIdle, LevelSet, StopServed, RecoverCommit
  <2>. QED  BY <2>1, <2>2, UnmovedStarts, ScheduledStarts, ElsewhereWaits DEF Elsewhere
<1>5. CASE ResumeRelease(c) \/ ResumeSecond(c)
  <2>1. Between(c) /\ (run' = run \/ Schedule(run))
    BY <1>5 DEF ResumeRelease, ResumeSecond, Between
  <2>. QED  BY <2>1, UnmovedStarts, ScheduledStarts, ElsewhereWaits DEF Elsewhere
<1>6. CASE PauseHold(c)
  <2>1. PICK t : t = call[c].task
    OBVIOUS
  <2>2. Between(c) /\ t \in Tasks
    BY <1>6, <2>1, InvParts DEF PauseHold, Between, CallSound
  <2>3. CASE run' = run
    BY <2>2, <2>3, UnmovedStarts, ElsewhereWaits DEF Elsewhere
  <2>4. CASE run' = [run EXCEPT ![t].point = "held"]
    <3>1. PICK r : r = [run[t] EXCEPT !.point = "held"]
      OBVIOUS
    <3>2. run' = [run EXCEPT ![t] = r] /\ r.at = run[t].at
      BY <2>2, <2>4, <3>1, InvParts DEF Runs
    <3>. QED  BY <2>2, <3>2, MovedStarts, ElsewhereWaits DEF Elsewhere
  <2>. QED  BY <1>6, <2>1, <2>3, <2>4 DEF PauseHold
<1>. QED  BY <1>1, <1>2, <1>3, <1>4, <1>5, <1>6 DEF Serve

LEMMA RoomStarts ==
    ASSUME Inv, NEW t \in Tasks, NEW room, run' = [run EXCEPT ![t].room = room]
    PROVE  NoneStarts
<1>1. PICK r : r = [run[t] EXCEPT !.room = room]
  OBVIOUS
<1>2. run' = [run EXCEPT ![t] = r] /\ r.at = run[t].at
  BY <1>1, InvParts DEF Runs
<1>. QED  BY <1>2, MovedStarts

LEMMA YieldingWaits ==
    ASSUME Inv, StopsWait, NEW t \in Tasks, Yielding(t)
    PROVE  StopsWait'
<1>1. t \in Askers
  BY DEF Askers
<1>2. call[t].kind = "none"
  BY InvParts DEF Yielding, YieldPauses, YieldLooks, YieldResumes, YieldOver, RoomSound
<1>3. CASE RoomEnds(t)
  <2>1. PICK r : r = [run[t] EXCEPT !.room = "no", !.yields = FALSE]
    OBVIOUS
  <2>2. run' = [run EXCEPT ![t] = r] /\ r.at = run[t].at
    BY <1>3, <2>1, InvParts DEF RoomEnds, Runs
  <2>3. \A d \in Askers \ {t} : SameWait(d)
    BY <1>3, InvParts DEF RoomEnds, SameWait
  <2>4. \A u \in Tasks : ~LateStop(t, u)
    BY <1>2 DEF LateStop, StopWaits, Waits
  <2>5. NoneStops
    BY <1>3, SameStops DEF RoomEnds
  <2>. QED  BY <1>1, <2>2, <2>3, <2>4, <2>5, MovedStarts, SameWaits
<1>4. CASE /\ \E kind \in {"pause", "resume"} : Begins(t, kind, t)
           /\ \E room : run' = [run EXCEPT ![t].room = room]
  BY <1>1, <1>2, <1>4, RoomStarts, BeginsWaits
<1>5. CASE run' = [run EXCEPT ![t].room = "back"] /\ UNCHANGED <<call, sets>>
  BY <1>5, RoomStarts, SameStops, QuietWaits
<1>. QED  BY <1>3, <1>4, <1>5 DEF Yielding, YieldPauses, YieldLooks, YieldResumes, YieldOver

LEMMA PersonWaits ==
    ASSUME Inv, StopsWait, Person
    PROVE  StopsWait'
<1>1. CASE \E t \in Tasks : Submit(t) \/ Continue(t) \/ \E op \in Ops : RetryResume(t, op)
  <2>1. LockFree /\ Schedule(run)
    BY <1>1 DEF Submit, Continue, RetryResume, NewLock
  <2>. QED  BY <2>1, ScheduledStarts, ElsewhereWaits DEF Elsewhere
<1>2. CASE \E c \in Clients, t \in Tasks : Recover(c, t)
  <2>1. LockFree /\ run' = run
    BY <1>2 DEF Recover, NewLock
  <2>. QED  BY <2>1, UnmovedStarts, ElsewhereWaits DEF Elsewhere
<1>3. CASE \E c \in Clients, t \in Tasks :
             \E kind \in {"pause", "resume", "level", "stop"} : Request(c, kind, t)
  <2>1. PICK c \in Clients, t \in Tasks, kind \in {"pause", "resume", "level", "stop"} :
           Request(c, kind, t)
    BY <1>3
  <2>2. c \in Askers /\ call[c].kind = "none" /\ Begins(c, kind, t)
    BY <2>1 DEF Request, Askers, Idle
  <2>3. NoneStarts
    <3>1. PICK r : r = [run[t] EXCEPT !.yields = FALSE]
      OBVIOUS
    <3>2. r.at = run[t].at /\ (run' = run \/ run' = [run EXCEPT ![t] = r])
      BY <2>1, <3>1, InvParts DEF Request, Runs
    <3>. QED  BY <3>2, UnmovedStarts, MovedStarts
  <2>. QED  BY <2>2, <2>3, BeginsWaits
<1>. QED  BY <1>1, <1>2, <1>3 DEF Person

LEMMA NextWaits ==
    ASSUME Inv, StopsWait, [Next]_vars
    PROVE  StopsWait'
<1>1. CASE UNCHANGED vars
  BY <1>1, UnmovedStarts, SameStops, QuietWaits DEF vars, volatile
<1>2. CASE System /\ IdsLeft
  BY <1>2, StartupWaits, LaunchingWaits, TurnWaits, EndingWaits, YieldingWaits, ServeWaits
     DEF System, RunStep
<1>3. CASE Crash
  BY <1>3 DEF Crash, StopsWait, LateSound, NoRun
<1>4. CASE (Person \/ \E t \in Tasks : Work(t) \/ LaunchFails(t) \/ CloseFails(t)) /\ IdsLeft
  BY <1>4, PersonWaits, TurnWaits, LaunchingWaits, EndingWaits
<1>. QED  BY <1>1, <1>2, <1>3, <1>4 DEF Next, Fault

LEMMA StopsWaitAlways == Spec => [](Inv /\ StopsWait)
<1>1. Init => StopsWait
  BY DEF Init, StopsWait, LateSound, NoRun
<1>2. Inv /\ StopsWait /\ [Next]_vars => StopsWait'
  BY NextWaits
<1>. QED  BY <1>1, <1>2, InvHolds, PTL DEF Spec

----------------------------------------------------------------------------
(* The theorems *)

(* Every variable keeps its type.                                          *)
THEOREM TypesHold == Spec => []TypeOK
<1>1. Inv => TypeOK
  BY InvParts
<1>. QED  BY <1>1, InvHolds, PTL

(* While the gateway serves, a running or held row has its coroutine, and  *)
(* a busy worker's row runs or is held under the execution of its run.     *)
THEOREM RowsHaveRuns == Spec => []RowHasRun
<1>1. Inv => RowHasRun
  <2>. SUFFICES ASSUME Inv PROVE RowHasRun
    OBVIOUS
  <2>1. \A t \in Tasks : RunSound(t, run[t]) /\ OpenSound(t, run[t])
    BY InvParts DEF TaskSound
  <2>. QED  BY <2>1 DEF RowHasRun, RunSound, OpenSound, Resident, Busy, At
<1>. QED  BY <1>1, InvHolds, PTL

(* At most MAX_WORKERS runs are resident, stuck ones included, and while   *)
(* the lock is free a queued task that may run has its coroutine or finds  *)
(* every slot taken.                                                       *)
THEOREM SlotsAreShared == Spec => []SlotsShared
<1>1. Inv => SlotsShared
  <2>. SUFFICES ASSUME Inv PROVE SlotsShared
    OBVIOUS
  <2>1. {t \in Tasks : Resident(t)} = Residents
    BY DEF Residents
  <2>2. SlotsSound
    BY InvParts
  <2>3. ASSUME LockFree, NEW t \in Tasks, State(t) = "queued", tasks[t].prio.level < 5,
               ~In(t, "fenced"), ~Resident(t)
        PROVE  In(t, "eligible") /\ Cardinality(Residents) >= Slots
    <3>1. Queued(t) /\ ~Resumed(t)
      BY <2>3 DEF Queued, Resumed, LockFree, Between
    <3>. QED  BY <2>2, <3>1 DEF SlotsSound
  <2>. QED  BY <2>1, <2>2, <2>3 DEF SlotsShared, SlotsSound
<1>. QED  BY <1>1, InvHolds, PTL

(* No step makes a task done but the end of a turn that completed: not     *)
(* recovery, not a Stop, not a run that ended without a turn.              *)
THEOREM DoneMeansDone == Spec => []DoneWasDone
<1>1. Inv => DoneWasDone
  BY InvParts DEF DoneWasDone, TaskSound, PastSound
<1>. QED  BY <1>1, InvHolds, PTL

(* A Stop keeps a turn from beginning, however far the launch is, but for  *)
(* one that came while the turn was being started: that Stop still waits   *)
(* for the lock that the start holds, and so for the turn it cancels.      *)
THEOREM LateStopsWait == Spec => LateStopWaits
<1>1. Inv /\ StopsWait /\ [Next]_vars =>
          [\A t \in Tasks : In(t, "stopping") /\ turns'[t] # turns[t] =>
              \E c \in Askers : LateStop(c, t)]_vars
  <2>. SUFFICES ASSUME Inv, StopsWait, [Next]_vars,
                       NEW t \in Tasks, In(t, "stopping"), turns'[t] # turns[t]
                PROVE  \E c \in Askers : LateStop(c, t)
    OBVIOUS
  <2>1. TurnStep
    BY StepIsPlane
  <2>2. turns \in [Tasks -> Nat]
    BY InvParts DEF TablesTypeOK
  <2>3. run[t].at = "starting"
    BY <2>1, <2>2 DEF TurnStep, At
  <2>. QED  BY <2>3 DEF StopsWait, LateSound
<1>. QED  BY <1>1, StopsWaitAlways, PTL DEF Spec, LateStopWaits

(* A turn behind the first goes on where the last one parked, or it is the *)
(* turn that a committed Resume or a message reserved, whatever crashed or *)
(* was asked between the two; and an interrupted task stays, ends, or is   *)
(* queued for a turn so reserved.                                          *)
THEOREM NeverReplays == Spec => NoReplay
<1>1. Inv /\ Uninterrupted /\ [Next]_vars =>
          [\A t \in Tasks :
              /\ turns'[t] # turns[t] /\ turns[t] # 0 =>
                    last[t].status = "parked" \/ resumeTurn[t] = turns'[t]
              /\ State(t) = "interrupted" =>
                    \/ State(t)' \in {"interrupted"} \cup Terminal
                    \/ State(t)' = "queued" /\ ResumeWaits(t)']_vars
  <2>. SUFFICES ASSUME Inv, Uninterrupted, [Next]_vars, NEW t \in Tasks
                PROVE  /\ turns'[t] # turns[t] /\ turns[t] # 0 =>
                             last[t].status = "parked" \/ resumeTurn[t] = turns'[t]
                       /\ State(t) = "interrupted" =>
                             \/ State(t)' \in {"interrupted"} \cup Terminal
                             \/ State(t)' = "queued" /\ ResumeWaits(t)'
    OBVIOUS
  <2>1. ASSUME turns'[t] # turns[t], turns[t] # 0
        PROVE  last[t].status = "parked" \/ resumeTurn[t] = turns'[t]
    <3>1. TurnStep
      BY StepIsPlane
    <3>2. turns \in [Tasks -> Nat]
      BY InvParts DEF TablesTypeOK
    <3>3. run[t].at = "starting" /\ turns'[t] = turns[t] + 1
      BY <2>1, <3>1, <3>2 DEF TurnStep, At
    <3>4. phase = "ready"
      BY <3>3, NowOpen
    <3>5. MayTurn(t)
      BY <3>3, <3>4, InvParts DEF TaskSound, OpenSound, Early
    <3>. QED  BY <2>1, <3>3, <3>5 DEF MayTurn
  <2>2. Reviewed(t)
    BY NextReviewed DEF ReviewStep
  <2>. QED  BY <2>1, <2>2 DEF Reviewed
<1>. QED  BY <1>1, UninterruptedAlways, PTL DEF Spec, NoReplay

LEMMA SameNext == Plane!Next <=> Stores!Next
BY DEF Plane!tables, Stores!tables, Plane!Terminal, Stores!Terminal, Plane!Open, Stores!Open, Plane!States, Stores!States, Plane!Levels, Stores!Levels, Plane!Sources, Stores!Sources, Plane!Reasons, Stores!Reasons, Plane!Priorities, Stores!Priorities, Plane!Computed, Stores!Computed, Plane!Paused, Stores!Paused, Plane!Holds, Stores!Holds, Plane!TaskRows, Stores!TaskRows, Plane!ParkRows, Stores!ParkRows, Plane!ProvRows, Stores!ProvRows, Plane!CaptureRows, Stores!CaptureRows, Plane!RecoveryRows, Stores!RecoveryRows, Plane!NoTask, Stores!NoTask, Plane!NoPark, Stores!NoPark, Plane!NoProv, Stores!NoProv, Plane!NoCapture, Stores!NoCapture, Plane!TablesInit, Stores!TablesInit, Plane!State, Stores!State, Plane!Live, Stores!Live, Plane!HasParkRow, Stores!HasParkRow, Plane!IsPaused, Stores!IsPaused, Plane!Prepared, Stores!Prepared, Plane!ResumeWaits, Stores!ResumeWaits, Plane!Current, Stores!Current, Plane!Matches, Stores!Matches, Plane!Advanced, Stores!Advanced, Plane!WithSnapshot, Stores!WithSnapshot, Plane!NoSnapshot, Stores!NoSnapshot, Plane!Upserted, Stores!Upserted, Plane!Carried, Stores!Carried, Plane!CarriedWhileActive, Stores!CarriedWhileActive, Plane!UserP0, Stores!UserP0, Plane!OthersDemoted, Stores!OthersDemoted, Plane!Written, Stores!Written, Plane!Keep, Stores!Keep, Plane!AutoLevel, Stores!AutoLevel, Plane!First, Stores!First, Plane!Choices, Stores!Choices, Plane!SameState, Stores!SameState, Plane!Create, Stores!Create, Plane!SetLevel, Stores!SetLevel, Plane!SetFirst, Stores!SetFirst, Plane!NewPriority, Stores!NewPriority, Plane!ChangedTasks, Stores!ChangedTasks, Plane!ChangedPark, Stores!ChangedPark, Plane!ChangePriority, Stores!ChangePriority, Plane!ChangeState, Stores!ChangeState, Plane!MayRun, Stores!MayRun, Plane!StartOrdinary, Stores!StartOrdinary, Plane!ContinueRunning, Stores!ContinueRunning, Plane!RunBare, Stores!RunBare, Plane!Finished, Stores!Finished, Plane!Finish, Stores!Finish, Plane!GuardedStop, Stores!GuardedStop, Plane!Pause, Stores!Pause, Plane!RequestPause, Stores!RequestPause, Plane!SavedPriority, Stores!SavedPriority, Plane!Restored, Stores!Restored, Plane!Resume, Stores!Resume, Plane!CancelPause, Stores!CancelPause, Plane!ResumeInterrupted, Stores!ResumeInterrupted, Plane!ResumeRecovered, Stores!ResumeRecovered, Plane!Reopen, Stores!Reopen, Plane!HoldRecord, Stores!HoldRecord, Plane!HeldRecord, Stores!HeldRecord, Plane!PausedRow, Stores!PausedRow, Plane!AtSafePoint, Stores!AtSafePoint, Plane!Guarded, Stores!Guarded, Plane!Unmoved, Stores!Unmoved, Plane!Hold, Stores!Hold, Plane!HoldUnderPause, Stores!HoldUnderPause, Plane!Release, Stores!Release, Plane!ParkedRow, Stores!ParkedRow, Plane!Park, Stores!Park, Plane!PauseSaved, Stores!PauseSaved, Plane!Interrupt, Stores!Interrupt, Plane!MarkRetry, Stores!MarkRetry, Plane!Started, Stores!Started, Plane!Start, Stores!Start, Plane!Prepare, Stores!Prepare, Plane!Crashes, Stores!Crashes, Plane!Commit, Stores!Commit, Plane!Supersede, Stores!Supersede, Plane!CaptureStep, Stores!CaptureStep, Plane!MarkIncomplete, Stores!MarkIncomplete, Plane!RecordProcess, Stores!RecordProcess, Plane!NoTicket, Stores!NoTicket, Plane!Read, Stores!Read, Plane!BeginTurn, Stores!BeginTurn, Plane!PauseCall, Stores!PauseCall, Plane!ParkCall, Stores!ParkCall, Plane!LaunchCall, Stores!LaunchCall, Plane!RecoveryCall, Stores!RecoveryCall, Plane!GuardedBy, Stores!GuardedBy, Plane!Dropped, Stores!Dropped, Plane!GuardedCall, Stores!GuardedCall, Plane!CurrentCall, Stores!CurrentCall, Plane!Forget, Stores!Forget, Plane!Unguarded, Stores!Unguarded, Plane!Next, Stores!Next, Plane!vars, Stores!vars

LEMMA SameVars == Plane!vars = Stores!vars
BY DEF Plane!vars, Stores!vars, Plane!tables, Stores!tables

(* The gateway implements the stores: each of its steps is one call that   *)
(* TaskPlane allows, with the identity it just read or the evidence of the *)
(* Resume it commits, or it leaves the tables alone.                       *)
THEOREM ImplementsPlane == Spec => PlaneSpec
<1>1. Init => Plane!Init
  BY InitPlane
<1>2. Inv /\ [Next]_vars => [Plane!Next]_(Plane!vars)
  <2>. SUFFICES ASSUME Inv, [Next]_vars PROVE [Plane!Next]_(Plane!vars)
    OBVIOUS
  <2>1. CASE Stores!Next
    BY <2>1, SameNext
  <2>2. CASE UNCHANGED Stores!vars
    BY <2>2 DEF Plane!vars, Stores!vars, Plane!tables, Stores!tables
  <2>. QED  BY <2>1, <2>2, StepIsPlane
<1>. QED  BY <1>1, <1>2, InvHolds, PTL DEF Spec, PlaneSpec

(* What is proved of the tables under anybody's calls holds of the tables  *)
(* that the gateway writes: guards, evidence, pauses, crashes, Stop, P0.   *)
THEOREM TablesStaySound == Spec =>
    /\ [](Stores!TicketSound /\ Stores!IntentResolvable /\ Stores!EvidenceIsCurrent)
    /\ [](Stores!NeverStartedNeverRan /\ Stores!PauseIntact /\ Stores!CrashCountedOnce)
    /\ Stores!StopWins /\ Stores!ReceiptNeverRevived /\ Stores!P0TakenOver /\ Stores!PauseKeepsPriority
<1>1. Spec => Stores!Spec
  <2>1. Init => Stores!Init
    BY InitPlane
  <2>2. Inv /\ [Next]_vars => [Stores!Next]_(Stores!vars)
    BY StepIsPlane
  <2>. QED  BY <2>1, <2>2, InvHolds, PTL DEF Spec, Stores!Spec
<1>2. Stores!Spec => []Stores!TicketSound
  BY TablesAssumption, Assumed, Stores!IdentityGuards
<1>3. Stores!Spec => []Stores!IntentResolvable
  BY TablesAssumption, Assumed, Stores!IntentsResolve
<1>4. Stores!Spec => []Stores!EvidenceIsCurrent
  BY TablesAssumption, Assumed, Stores!EvidenceCurrent
<1>5. Stores!Spec => []Stores!NeverStartedNeverRan
  BY TablesAssumption, Assumed, Stores!NeverStartedIsProof
<1>6. Stores!Spec => []Stores!PauseIntact
  BY TablesAssumption, Assumed, Stores!PausesIntact
<1>7. Stores!Spec => []Stores!CrashCountedOnce
  BY TablesAssumption, Assumed, Stores!CrashesCountOnce
<1>8. Stores!Spec => Stores!StopWins
  BY TablesAssumption, Assumed, Stores!StopsWin
<1>9. Stores!Spec => Stores!ReceiptNeverRevived
  BY TablesAssumption, Assumed, Stores!NeverRevived
<1>10. Stores!Spec => Stores!P0TakenOver
  BY TablesAssumption, Assumed, Stores!P0Single
<1>11. Stores!Spec => Stores!PauseKeepsPriority
  BY TablesAssumption, Assumed, Stores!PausesKeepPriority
<1>. QED  BY <1>1, <1>2, <1>3, <1>4, <1>5, <1>6, <1>7, <1>8, <1>9, <1>10, <1>11, PTL
============================================================================
