--------------------------- MODULE Gateway_steps ---------------------------
(***************************************************************************)
(* The inductive invariant of the gateway's workers (GatewayInv), and that *)
(* every action keeps it where the tables keep theirs: where a run stands  *)
(* and what it may rely on there, what Workers' sets say of it, who has    *)
(* the lock, and how the slots are given out.                              *)
(***************************************************************************)
EXTENDS Gateway, FiniteSetTheorems, TLAPS

----------------------------------------------------------------------------
(* The inductive invariant *)

(* A run before its turn and behind it. *)
Early == {"check", "gate", "fence", "fenced", "build", "admitted", "starting"}
Late == {"closing", "parking", "stuck", "settling", "intent"}

(* Nobody runs and nobody asks before the gateway is open, and one at most *)
(* stands between two transactions of a locked section.                    *)
Between(c) == call[c].step = "second"
LockSound ==
    /\ phase # "ready" => \A c \in Askers : call[c] = Idle
    /\ \A t, u \in Tasks : run[t].at \in Holding /\ run[u].at \in Holding => t = u
    /\ \A c, d \in Askers : Between(c) /\ Between(d) => c = d
    /\ \A t \in Tasks, c \in Askers : ~(run[t].at \in Holding /\ Between(c))

CallSound(c) ==
    /\ call[c].kind # "none" => call[c].task \in Tasks /\ State(call[c].task) # "absent"
    /\ call[c].step = "second" => call[c].kind \in {"pause", "resume"}
    /\ call[c].kind = "recover" <=> call[c].step \in {"read", "decided"}
    /\ call[c].kind = "recover" => c \in Clients
    /\ call[c].step = "decided" => ticket[c].task = call[c].task

(* A _yield has a request while it pauses or resumes its task only.        *)
RoomSound == \A t \in Tasks :
    /\ call[t].kind # "none" => run[t].room \in {"pausing", "resuming"}
    /\ phase # "ready" => run[t].room = "no"
    /\ run[t].room # "no" => State(t) # "absent"

(* Where a run stands, and what it may rely on there. *)
RunSound(t, r) ==
    /\ r.at \in {"none"} \cup Early => r.out = "none" /\ r.point = "none"
    /\ r.at = "turn" => r.out = "none"
    /\ r.at \in Late => r.out # "none"
    /\ r.at = "none" => r.exec = NoExec /\ ~r.fenced
    /\ r.fenced => r.exec # NoExec
    /\ r.out = "broken" => r.fenced
    /\ r.point # "none" => r.at = "turn" \/ r.out \in TurnOuts
    /\ r.at = "build" => r.exec # NoExec \/ In(t, "stopping")
    /\ r.at \in {"fenced", "admitted", "starting", "turn"} => r.exec # NoExec
    /\ r.at \in Early \cup {"turn"} /\ r.exec # NoExec =>
          prov[t].exec = r.exec /\ ~tasks[t].parkedLast
    /\ r.at \in {"admitted", "starting"} => State(t) = "running"
    /\ r.at = "turn" => State(t) \in {"running", "held"} /\ turns[t] # 0
    /\ r.pending # NoExec => turns[t] = 0

(* What Workers' sets say of it. *)
FlagsSound(t, r) ==
    /\ In(t, "winners") =>
          r.at = "turn" \/ (r.at \in Late \ {"intent"} /\ r.out \in TurnOuts /\ last[t].status = "parked")
    /\ r.at \in {"parking", "stuck"} => In(t, "winners")
    /\ In(t, "quarantined") <=> r.at = "stuck"
    /\ r.at = "settling" /\ Parks(t) => State(t) # "held" /\ tasks[t].hold # "running"
    /\ r.at # "none" /\ r.at # "intent" /\ ~In(t, "stopping") => In(t, "eligible")
    /\ r.at = "intent" => In(t, "fenced")

(* The rows and the turns of a task. *)
PastSound(t, r) ==
    /\ State(t) # "absent" => prov[t].first # "absent"
    /\ prov[t].first \in {"started", "unknown"} => prov[t].exec # NoExec
    /\ State(t) = "done" \/ r.out = "done" => last[t].status = "done"
    /\ tasks[t].parkedLast => last[t].status = "parked" /\ HasParkRow(t)
    /\ last[t].status # "none" => turns[t] # 0
    /\ resumeTurn[t] <= turns[t] + 1
    /\ \A op \in Ops : reserved[t][op] <= resumeTurn[t]
    /\ \A i \in Prepared(t) :
          /\ i.outcome \in {"interrupted"} \cup TurnOuts
          /\ i.outcome = "done" => last[t].status = "done"
          /\ \A j \in Prepared(t) : i = j
    /\ Prepared(t) # {} => State(t) # "absent"

(* The next turn is the first one, goes on where the last one parked, or   *)
(* is the turn that a resume or a message reserved.                        *)
MayTurn(t) == turns[t] = 0 \/ last[t].status = "parked" \/ resumeTurn[t] = turns[t] + 1

OpenSound(t, r) ==
    phase = "ready" =>
        /\ State(t) \in {"running", "held"} => r.at # "none"
        /\ State(t) = "held" => r.at = "turn" \/ r.out \in TurnOuts
        /\ State(t) = "interrupted" => In(t, "fenced") \/ In(t, "quarantined")
        /\ Prepared(t) # {} => r.at = "intent"
        /\ r.at = "intent" => \A i \in Prepared(t) : i.outcome = "interrupted"
        /\ \/ r.at = "none" /\ State(t) \in {"queued", "parked"}
           \/ r.at \in Early \/ r.out = "deferred"
           => MayTurn(t)

(* Startup, before and after it came to the task. *)
Seen(t) == phase = "admitting" \/ (phase = "recovering" /\ t \notin todo)
StartupSound(t, r) ==
    phase # "ready" =>
        /\ r.at = "none"
        /\ phase = "recovering" /\ t \in todo => State(t) # "absent"
        /\ Seen(t) => /\ State(t) \notin {"running", "held"} /\ Prepared(t) = {}
                      /\ State(t) \in {"queued", "parked"} => MayTurn(t)
        /\ phase = "admitting" /\ t \notin todo /\ Live(t) =>
              In(t, "fenced") \/ (In(t, "eligible") /\ State(t) # "interrupted")

TaskSound(t, r) ==
    RunSound(t, r) /\ FlagsSound(t, r) /\ PastSound(t, r) /\ OpenSound(t, r) /\ StartupSound(t, r)

(* The slots: a task that may run without a coroutine finds them taken, or *)
(* a resume is about to look at it.                                        *)
Residents == {t \in Tasks : Resident(t)}
Created == {t \in Tasks : State(t) # "absent"}
Queued(t) ==
    phase = "ready" /\ State(t) = "queued" /\ tasks[t].prio.level < 5 /\ ~In(t, "fenced") /\ ~Resident(t)
Resumed(t) == \E c \in Askers : call[c].kind = "resume" /\ Between(c) /\ call[c].task = t
SlotsSound ==
    /\ IsFiniteSet(Created) /\ Residents \subseteq Created
    /\ Cardinality(Residents) <= Slots
    /\ \A t \in Tasks : Queued(t) =>
          Resumed(t) \/ (In(t, "eligible") /\ Cardinality(Residents) >= Slots)

GatewayInv ==
    /\ TypeOK /\ LockSound /\ SlotsSound /\ RoomSound
    /\ \A c \in Askers : CallSound(c)
    /\ \A t \in Tasks : TaskSound(t, run[t])

(* What the tables' own invariant (TaskPlane_proof) says of a task; the    *)
(* runs and the requests rely on it.                                       *)
RowFacts(t) ==
    /\ prov[t].first = "never_started" =>
          State(t) \notin {"running", "held"} /\ turns[t] = 0
    /\ capture[t].exec # NoExec => prov[t].exec = capture[t].exec
    /\ State(t) = "absent" => turns[t] = 0

Inv == GatewayInv /\ \A t \in Tasks : RowFacts(t)

----------------------------------------------------------------------------
(* What a store call leaves of a task's rows *)

(* What a store call leaves of the rows of a task: all but its priority,   *)
(* which stays one that runs or one that waits.                            *)
RowKept(u) ==
    /\ tasks'[u].state = tasks[u].state /\ tasks'[u].hold = tasks[u].hold
    /\ tasks'[u].parkedLast = tasks[u].parkedLast
    /\ tasks'[u].prio.level < 5 <=> tasks[u].prio.level < 5
    /\ park'[u] = park[u] /\ prov'[u] = prov[u]
    /\ turns'[u] = turns[u] /\ resumeTurn'[u] = resumeTurn[u]
    /\ Prepared(u)' = Prepared(u)
Only(t) == \A u \in Tasks \ {t} : RowKept(u)

(* What most calls leave of the task's own rows, beside its launch         *)
(* evidence, its turns and its intents.                                    *)
HistoryKept(t) ==
    /\ prov'[t] = prov[t] /\ turns'[t] = turns[t] /\ Prepared(t)' = Prepared(t)
    /\ HasParkRow(t) => HasParkRow(t)'
OwnKept(t) ==
    /\ HistoryKept(t) /\ resumeTurn'[t] = resumeTurn[t]
    /\ tasks'[t].parkedLast => tasks[t].parkedLast

LEMMA CarriedKeeps ==
    ASSUME NEW t \in Tasks, NEW row, NEW to, NEW e,
           recops' \in {recops, Carried(t, row, to, e), CarriedWhileActive(t, row, to, e)}
    PROVE  \A u : Prepared(u)' = Prepared(u)
<1>1. CASE recops' = recops
  BY <1>1 DEF Prepared
<1>2. ASSUME recops' = Carried(t, row, to, e), NEW u
      PROVE  Prepared(u)' = Prepared(u)
  <2>1. ASSUME NEW r \in Prepared(u) PROVE r \in Prepared(u)'
    BY <1>2, <2>1 DEF Prepared, Carried
  <2>2. ASSUME NEW r \in Prepared(u)' PROVE r \in Prepared(u)
    <3>1. r \in recops' /\ r.task = u /\ r.kind = "recovery" /\ r.phase = "prepared"
      BY <2>2 DEF Prepared
    <3>2. PICK old \in recops :
             r = IF /\ old.task = t /\ old.kind = "start" /\ old.phase = "committed"
                    /\ old.gen = park[t].gen /\ old.pend = park[t].op /\ old.state = State(t)
                    /\ old.exec = e
                 THEN [old EXCEPT !.gen = row.gen, !.pend = row.op, !.state = to]
                 ELSE old
      BY <1>2, <3>1 DEF Carried
    <3>3. CASE r = old
      BY <3>1, <3>3 DEF Prepared
    <3>4. CASE r = [old EXCEPT !.gen = row.gen, !.pend = row.op, !.state = to] /\ old.kind = "start"
      <4>1. r.kind = old.kind
        BY <3>4
      <4>. QED  BY <4>1, <3>1, <3>4
    <3>. QED  BY <3>2, <3>3, <3>4
  <2>. QED  BY <2>1, <2>2
<1>. QED  BY <1>1, <1>2 DEF CarriedWhileActive

LEMMA AdvancedRow ==
    ASSUME NEW row \in ParkRows, NEW op, NEW create
    PROVE  /\ row.gen # 0 => Advanced(row, op, create).gen # 0
           /\ create => Advanced(row, op, create).gen # 0
           /\ NoSnapshot(Advanced(row, op, create)).gen = Advanced(row, op, create).gen
           /\ \A prio : WithSnapshot(Advanced(row, op, create), prio).gen
                            = Advanced(row, op, create).gen
BY DEF Advanced, NoSnapshot, WithSnapshot, ParkRows

(* Writing one row, with the other user's P0 demoted or not.               *)
LEMMA RowsWritten ==
    ASSUME TablesTypeOK, NEW t \in Tasks, NEW row,
           \/ tasks' = [tasks EXCEPT ![t] = row]
           \/ tasks' = Written(t, row)
           \/ tasks' = OthersDemoted([tasks EXCEPT ![t] = row], t)
    PROVE  /\ tasks'[t] = row
           /\ \A u \in Tasks \ {t} :
                 /\ tasks'[u].state = tasks[u].state /\ tasks'[u].hold = tasks[u].hold
                 /\ tasks'[u].parkedLast = tasks[u].parkedLast
                 /\ tasks'[u].prio.level < 5 <=> tasks[u].prio.level < 5
<1>1. tasks' = [tasks EXCEPT ![t] = row] \/ tasks' = OthersDemoted([tasks EXCEPT ![t] = row], t)
  BY DEF Written
<1>2. tasks'[t] = row
  BY <1>1 DEF OthersDemoted, TablesTypeOK
<1>3. ASSUME NEW u \in Tasks \ {t}
      PROVE  \/ tasks'[u] = tasks[u]
             \/ /\ UserP0(tasks[u])
                /\ tasks'[u] = [tasks[u] EXCEPT !.prio = [@ EXCEPT !.level = 1, !.reason = "other"]]
  BY <1>1 DEF OthersDemoted, TablesTypeOK
<1>4. ASSUME NEW u \in Tasks \ {t}
      PROVE  /\ tasks'[u].state = tasks[u].state /\ tasks'[u].hold = tasks[u].hold
             /\ tasks'[u].parkedLast = tasks[u].parkedLast
             /\ tasks'[u].prio.level < 5 <=> tasks[u].prio.level < 5
  <2>1. tasks[u] \in TaskRows
    BY DEF TablesTypeOK
  <2>2. CASE tasks'[u] = tasks[u]
    BY <2>2
  <2>3. CASE /\ UserP0(tasks[u])
             /\ tasks'[u] = [tasks[u] EXCEPT !.prio = [@ EXCEPT !.level = 1, !.reason = "other"]]
    <3>1. tasks[u].prio \in Priorities /\ tasks[u].prio.level = 0
      BY <2>1, <2>3 DEF TaskRows, UserP0
    <3>2. tasks'[u].prio = [tasks[u].prio EXCEPT !.level = 1, !.reason = "other"]
      BY <2>1, <2>3 DEF TaskRows
    <3>3. tasks'[u].prio.level = 1
      BY <3>1, <3>2 DEF Priorities
    <3>. QED  BY <2>1, <2>3, <3>1, <3>3 DEF TaskRows
  <2>. QED  BY <2>2, <2>3, <1>3
<1>. QED  BY <1>2, <1>4

LEMMA OnlyWritten ==
    ASSUME TablesTypeOK, NEW t \in Tasks, NEW row,
           \/ tasks' = [tasks EXCEPT ![t] = row]
           \/ tasks' = Written(t, row)
           \/ tasks' = OthersDemoted([tasks EXCEPT ![t] = row], t),
           \A u \in Tasks \ {t} :
              /\ park'[u] = park[u] /\ prov'[u] = prov[u] /\ turns'[u] = turns[u]
              /\ resumeTurn'[u] = resumeTurn[u] /\ Prepared(u)' = Prepared(u)
    PROVE  tasks'[t] = row /\ Only(t)
BY RowsWritten DEF Only, RowKept

LEMMA CreateEffect ==
    ASSUME TablesTypeOK, NEW t \in Tasks, Create(t, Computed, TRUE)
    PROVE  /\ Only(t) /\ turns' = turns /\ resumeTurn' = resumeTurn /\ Prepared(t)' = Prepared(t)
           /\ State(t) = "absent" /\ State(t)' = "queued" /\ tasks'[t].prio.level = 2
           /\ ~tasks'[t].parkedLast /\ prov'[t].first = "never_started"
<1>1. /\ tasks' = Written(t, [NoTask EXCEPT !.state = "queued", !.prio = Computed])
      /\ prov' = [prov EXCEPT ![t] = [first |-> "never_started", exec |-> NoExec, unsafe |-> FALSE]]
      /\ UNCHANGED <<park, turns, resumeTurn, recops>>
  BY DEF Create
<1>2. tasks'[t] = [NoTask EXCEPT !.state = "queued", !.prio = Computed] /\ Only(t)
  BY <1>1, OnlyWritten DEF Prepared, TablesTypeOK
<1>3. prov'[t].first = "never_started"
  BY <1>1 DEF TablesTypeOK
<1>4. State(t)' = "queued" /\ tasks'[t].prio.level = 2 /\ ~tasks'[t].parkedLast
  BY <1>2 DEF NoTask, Computed, State
<1>5. Prepared(t)' = Prepared(t)
  BY <1>1 DEF Prepared
<1>. QED  BY <1>1, <1>2, <1>3, <1>4, <1>5 DEF Create

LEMMA ChangedEffect ==
    ASSUME TablesTypeOK, NEW t \in Tasks, NEW choice \in Levels \cup {Keep}, NEW to,
           tasks' = ChangedTasks(t, choice, to),
           \A u \in Tasks \ {t} : park'[u] = park[u] /\ prov'[u] = prov[u],
           turns' = turns, resumeTurn' = resumeTurn, \A u : Prepared(u)' = Prepared(u)
    PROVE  /\ Only(t)
           /\ tasks'[t].state = IF to = SameState THEN tasks[t].state ELSE to
           /\ tasks'[t].hold = IF to = SameState THEN tasks[t].hold ELSE "none"
           /\ tasks'[t].prio.level = IF choice = Keep THEN tasks[t].prio.level ELSE choice
           /\ tasks'[t].parkedLast => tasks[t].parkedLast
           /\ tasks'[t].parkedLast /\ choice = Keep /\ to \notin Terminal => ~HasParkRow(t)
<1>. DEFINE row == [tasks[t] EXCEPT
                    !.state = IF to = SameState THEN @ ELSE to,
                    !.prio = NewPriority(@, choice),
                    !.hold = IF to = SameState THEN @ ELSE "none",
                    !.parkedLast = @ /\ (choice # Keep \/ to \in Terminal \/ ~HasParkRow(t))]
<1>1. tasks[t] \in TaskRows
  BY DEF TablesTypeOK
<1>2. tasks' = [tasks EXCEPT ![t] = row] \/ tasks' = OthersDemoted([tasks EXCEPT ![t] = row], t)
  BY DEF ChangedTasks
<1>3. /\ row.state = IF to = SameState THEN tasks[t].state ELSE to
      /\ row.hold = IF to = SameState THEN tasks[t].hold ELSE "none"
      /\ row.prio = NewPriority(tasks[t].prio, choice)
      /\ row.parkedLast = (tasks[t].parkedLast
                             /\ (choice # Keep \/ to \in Terminal \/ ~HasParkRow(t)))
  BY <1>1 DEF TaskRows
<1>4. row.prio.level = IF choice = Keep THEN tasks[t].prio.level ELSE choice
  <2>1. row.prio = NewPriority(tasks[t].prio, choice) /\ choice # First /\ choice # AutoLevel
    BY <1>3 DEF First, AutoLevel, Levels, Keep
  <2>2. CASE choice = Keep
    BY <2>1, <2>2 DEF NewPriority
  <2>3. CASE choice # Keep
    BY <2>1, <2>3 DEF NewPriority
  <2>. QED  BY <2>2, <2>3
<1>. HIDE DEF row
<1>5. tasks'[t] = row /\ Only(t)
  BY <1>2, OnlyWritten
<1>. QED  BY <1>3, <1>4, <1>5

LEMMA ChangedParkRow ==
    ASSUME NEW t \in Tasks, park[t] \in ParkRows, NEW choice, NEW to, NEW op, NEW create
    PROVE  LET row == Advanced(park[t], op, create)
           IN  /\ park[t].gen # 0 => ChangedPark(t, row, choice, to).gen # 0
               /\ park[t].gen # 0 => NoSnapshot(row).gen # 0
<1>. DEFINE row == Advanced(park[t], op, create)
<1>1. /\ park[t].gen # 0 => row.gen # 0
      /\ NoSnapshot(row).gen = row.gen /\ WithSnapshot(row, tasks[t].prio).gen = row.gen
  BY AdvancedRow
<1>2. ChangedPark(t, row, choice, to) \in {row, NoSnapshot(row), WithSnapshot(row, tasks[t].prio)}
  <2>. HIDE DEF row
  <2>. QED  BY DEF ChangedPark
<1>. QED  BY <1>1, <1>2

LEMMA ChangePriorityEffect ==
    ASSUME TablesTypeOK, NEW t \in Tasks, NEW level \in 0..4, ChangePriority(t, level)
    PROVE  /\ Only(t) /\ OwnKept(t) /\ UNCHANGED <<turns, resumeTurn>>
           /\ State(t)' = State(t) /\ tasks'[t].hold = tasks[t].hold /\ tasks'[t].prio.level = level
<1>1. /\ tasks' = ChangedTasks(t, level, SameState) /\ level \in Levels /\ level # Keep
      /\ park' = [park EXCEPT ![t] = ChangedPark(t, Advanced(park[t], NoOp, FALSE), level, SameState)]
      /\ UNCHANGED <<prov, turns, resumeTurn>>
  BY DEF ChangePriority, Keep, Levels
<1>2. \A u : Prepared(u)' = Prepared(u)
  <2>1. PICK row : row = Advanced(park[t], NoOp, FALSE)
    OBVIOUS
  <2>2. recops' \in {recops, CarriedWhileActive(t, row, State(t), capture[t].exec)}
    BY <2>1 DEF ChangePriority
  <2>. QED  BY <2>2, CarriedKeeps
<1>3. \A u \in Tasks \ {t} : park'[u] = park[u] /\ prov'[u] = prov[u]
  BY <1>1 DEF TablesTypeOK
<1>4. park[t] \in ParkRows /\ park'[t] = ChangedPark(t, Advanced(park[t], NoOp, FALSE), level, SameState)
  BY <1>1 DEF TablesTypeOK
<1>5. HasParkRow(t) => HasParkRow(t)'
  BY <1>4, ChangedParkRow DEF HasParkRow
<1>6. Only(t) /\ State(t)' = State(t) /\ tasks'[t].hold = tasks[t].hold /\ tasks'[t].prio.level = level
      /\ (tasks'[t].parkedLast => tasks[t].parkedLast)
  BY <1>1, <1>2, <1>3, ChangedEffect DEF State
<1>. QED  BY <1>1, <1>2, <1>5, <1>6 DEF OwnKept, HistoryKept

LEMMA ChangeStateEffect ==
    ASSUME TablesTypeOK, NEW t \in Tasks, NEW choice \in 0..4 \cup {Keep},
           ChangeState(t, choice, "queued")
    PROVE  /\ Only(t) /\ OwnKept(t) /\ UNCHANGED <<turns, resumeTurn>>
           /\ Live(t) /\ State(t)' = "queued" /\ tasks'[t].hold = "none"
           /\ tasks'[t].prio.level = IF choice = Keep THEN tasks[t].prio.level ELSE choice
<1>1. /\ tasks' = ChangedTasks(t, choice, "queued") /\ choice \in Levels \cup {Keep}
      /\ park' = [park EXCEPT ![t] = ChangedPark(t, Advanced(park[t], NoOp, FALSE), choice, "queued")]
      /\ UNCHANGED <<prov, turns, resumeTurn>>
  BY DEF ChangeState, Keep, Levels
<1>2. \A u : Prepared(u)' = Prepared(u)
  <2>1. PICK row : row = Advanced(park[t], NoOp, FALSE)
    OBVIOUS
  <2>2. recops' \in {recops, CarriedWhileActive(t, row, "queued", capture[t].exec)}
    BY <2>1 DEF ChangeState
  <2>. QED  BY <2>2, CarriedKeeps
<1>3. \A u \in Tasks \ {t} : park'[u] = park[u] /\ prov'[u] = prov[u]
  BY <1>1 DEF TablesTypeOK
<1>4. park[t] \in ParkRows /\ park'[t] = ChangedPark(t, Advanced(park[t], NoOp, FALSE), choice, "queued")
  BY <1>1 DEF TablesTypeOK
<1>5. HasParkRow(t) => HasParkRow(t)'
  BY <1>4, ChangedParkRow DEF HasParkRow
<1>6. /\ Only(t) /\ tasks'[t].state = "queued" /\ tasks'[t].hold = "none"
      /\ tasks'[t].prio.level = IF choice = Keep THEN tasks[t].prio.level ELSE choice
      /\ (tasks'[t].parkedLast => tasks[t].parkedLast)
  <2>1. "queued" # SameState /\ "queued" \notin Terminal
    BY DEF SameState, Terminal
  <2>2. turns' = turns /\ resumeTurn' = resumeTurn
    BY <1>1
  <2>3. tasks' = ChangedTasks(t, choice, "queued") /\ choice \in Levels \cup {Keep}
    BY <1>1
  <2>. QED  BY <1>2, <1>3, <2>1, <2>2, <2>3, ChangedEffect
<1>7. State(t)' = "queued" /\ Live(t)
  BY <1>6 DEF State, ChangeState
<1>. QED  BY <1>1, <1>2, <1>5, <1>6, <1>7 DEF OwnKept, HistoryKept

(* change(state="running") of a task that runs again. *)
LEMMA RerunEffect ==
    ASSUME TablesTypeOK, NEW t \in Tasks, NEW choice \in 0..4 \cup {Keep},
           ContinueRunning(t, choice) \/ RunBare(t, choice)
    PROVE  /\ Only(t) /\ OwnKept(t) /\ UNCHANGED <<turns, resumeTurn>>
           /\ Live(t) /\ State(t)' = "running" /\ tasks'[t].hold = "none"
           /\ prov[t].first # "never_started"
<1>1. /\ tasks' = ChangedTasks(t, choice, "running") /\ choice \in Levels \cup {Keep}
      /\ park' = [park EXCEPT ![t] = NoSnapshot(Advanced(park[t], NoOp, FALSE))]
      /\ UNCHANGED <<prov, turns, resumeTurn>>
  <2>1. choice \in Levels \cup {Keep}
    BY DEF Keep, Levels
  <2>2. CASE ContinueRunning(t, choice)
    BY <2>1, <2>2 DEF ContinueRunning
  <2>3. CASE RunBare(t, choice)
    BY <2>1, <2>3 DEF RunBare
  <2>. QED  BY <2>2, <2>3
<1>0. Live(t) /\ prov[t].first # "never_started"
  BY DEF ContinueRunning, RunBare, Live, Open, MayRun
<1>2. \A u : Prepared(u)' = Prepared(u)
  <2>1. PICK row : row = Advanced(park[t], NoOp, FALSE)
    OBVIOUS
  <2>2. recops' \in {recops, CarriedWhileActive(t, row, "running", capture[t].exec)}
    BY <2>1 DEF ContinueRunning, RunBare
  <2>. QED  BY <2>2, CarriedKeeps
<1>3. \A u \in Tasks \ {t} : park'[u] = park[u] /\ prov'[u] = prov[u]
  BY <1>1 DEF TablesTypeOK
<1>4. park[t] \in ParkRows /\ park'[t] = NoSnapshot(Advanced(park[t], NoOp, FALSE))
  BY <1>1 DEF TablesTypeOK
<1>5. HasParkRow(t) => HasParkRow(t)'
  BY <1>4, ChangedParkRow DEF HasParkRow
<1>6. /\ Only(t) /\ tasks'[t].state = "running" /\ tasks'[t].hold = "none"
      /\ (tasks'[t].parkedLast => tasks[t].parkedLast)
  <2>1. "running" # SameState /\ "running" \notin Terminal
    BY DEF SameState, Terminal
  <2>2. turns' = turns /\ resumeTurn' = resumeTurn
    BY <1>1
  <2>3. tasks' = ChangedTasks(t, choice, "running") /\ choice \in Levels \cup {Keep}
    BY <1>1
  <2>. QED  BY <1>2, <1>3, <2>1, <2>2, <2>3, ChangedEffect
<1>7. State(t)' = "running"
  BY <1>6 DEF State
<1>. QED  BY <1>0, <1>1, <1>2, <1>5, <1>6, <1>7 DEF OwnKept, HistoryKept

LEMMA StartOrdinaryEffect ==
    ASSUME TablesTypeOK, NEW t \in Tasks, NEW e \in Execs, StartOrdinary(t, e)
    PROVE  /\ Only(t) /\ UNCHANGED <<turns, resumeTurn>> /\ Prepared(t)' = Prepared(t)
           /\ HasParkRow(t) => HasParkRow(t)'
           /\ tasks'[t].parkedLast => tasks[t].parkedLast /\ ~HasParkRow(t)
           /\ State(t) = "queued" /\ State(t)' = "running" /\ tasks'[t].hold = "none"
           /\ prov'[t].exec = e /\ prov'[t].first # "absent"
<1>1. /\ tasks' = ChangedTasks(t, Keep, "running")
      /\ park' = [park EXCEPT ![t] = NoSnapshot(Advanced(park[t], NoOp, FALSE))]
      /\ prov' = [prov EXCEPT ![t] = Upserted(@, "started", e, @.unsafe)]
      /\ UNCHANGED <<recops, turns, resumeTurn>> /\ State(t) = "queued"
  BY DEF StartOrdinary
<1>2. \A u : Prepared(u)' = Prepared(u)
  BY <1>1 DEF Prepared
<1>3. \A u \in Tasks \ {t} : park'[u] = park[u] /\ prov'[u] = prov[u]
  BY <1>1 DEF TablesTypeOK
<1>4. park[t] \in ParkRows /\ park'[t] = NoSnapshot(Advanced(park[t], NoOp, FALSE))
  BY <1>1 DEF TablesTypeOK
<1>5. HasParkRow(t) => HasParkRow(t)'
  BY <1>4, ChangedParkRow DEF HasParkRow
<1>6. /\ Only(t) /\ tasks'[t].state = "running" /\ tasks'[t].hold = "none"
      /\ (tasks'[t].parkedLast => tasks[t].parkedLast /\ ~HasParkRow(t))
  <2>1. "running" # SameState /\ "running" \notin Terminal /\ Keep \in Levels \cup {Keep}
    BY DEF SameState, Terminal
  <2>2. turns' = turns /\ resumeTurn' = resumeTurn
    BY <1>1
  <2>3. tasks' = ChangedTasks(t, Keep, "running")
    BY <1>1
  <2>. QED  BY <1>2, <1>3, <2>1, <2>2, <2>3, ChangedEffect
<1>8. State(t)' = "running"
  BY <1>6 DEF State
<1>7. prov'[t].exec = e /\ prov'[t].first # "absent"
  BY <1>1 DEF TablesTypeOK, Upserted
<1>. QED  BY <1>1, <1>2, <1>5, <1>6, <1>7, <1>8

LEMMA FinishEffect ==
    ASSUME TablesTypeOK, NEW t \in Tasks, NEW to \in Terminal, Finished(t, to)
    PROVE  /\ Only(t) /\ OwnKept(t) /\ UNCHANGED <<turns, resumeTurn>>
           /\ Live(t) /\ State(t)' = to /\ tasks'[t].hold = "none"
<1>1. /\ tasks' = ChangedTasks(t, Keep, to)
      /\ park' = [park EXCEPT ![t] = NoSnapshot(Advanced(park[t], NoOp, FALSE))]
      /\ UNCHANGED <<prov, recops, turns, resumeTurn>> /\ Live(t) /\ to # SameState
  BY DEF Finished, Terminal, SameState
<1>2. \A u : Prepared(u)' = Prepared(u)
  BY <1>1 DEF Prepared
<1>3. \A u \in Tasks \ {t} : park'[u] = park[u] /\ prov'[u] = prov[u]
  BY <1>1 DEF TablesTypeOK
<1>4. park[t] \in ParkRows /\ park'[t] = NoSnapshot(Advanced(park[t], NoOp, FALSE))
  BY <1>1 DEF TablesTypeOK
<1>5. HasParkRow(t) => HasParkRow(t)'
  BY <1>4, ChangedParkRow DEF HasParkRow
<1>6. /\ Only(t) /\ State(t)' = to /\ tasks'[t].hold = "none"
      /\ (tasks'[t].parkedLast => tasks[t].parkedLast)
  BY <1>1, <1>2, <1>3, ChangedEffect, ZenonT(60) DEF State
<1>. QED  BY <1>1, <1>2, <1>5, <1>6 DEF OwnKept, HistoryKept

(* A row of park_priority that exists stays, and some calls create it.     *)
LEMMA ParkRowStays ==
    ASSUME NEW t \in Tasks, park[t] \in ParkRows, NEW op, NEW create \in BOOLEAN, NEW prio,
           \/ park'[t] = Advanced(park[t], op, create)
           \/ park'[t] = NoSnapshot(Advanced(park[t], op, create))
           \/ park'[t] = WithSnapshot(Advanced(park[t], op, create), prio)
    PROVE  HasParkRow(t) \/ create => HasParkRow(t)'
<1>. DEFINE row == Advanced(park[t], op, create)
<1>1. HasParkRow(t) \/ create => row.gen # 0
  BY AdvancedRow DEF HasParkRow
<1>2. park'[t].gen = row.gen
  BY AdvancedRow
<1>. HIDE DEF row
<1>. QED  BY <1>1, <1>2 DEF HasParkRow

LEMMA PauseEffect ==
    ASSUME TablesTypeOK, NEW t \in Tasks, Pause(t)
    PROVE  /\ Only(t) /\ OwnKept(t) /\ UNCHANGED <<turns, resumeTurn>>
           /\ Live(t) /\ State(t)' = "parked" /\ tasks'[t].prio.level = 5
           /\ tasks'[t].hold = IF State(t) = "held" THEN tasks[t].hold ELSE "none"
           /\ tasks'[t].parkedLast = tasks[t].parkedLast
<1>. DEFINE row == [tasks[t] EXCEPT !.state = "parked", !.prio = Paused,
                              !.hold = IF State(t) = "held" THEN tasks[t].hold ELSE "none"]
<1>1. /\ tasks' = [tasks EXCEPT ![t] = row]
      /\ park' = [park EXCEPT ![t] = WithSnapshot(Advanced(@, NoOp, TRUE), tasks[t].prio)]
      /\ UNCHANGED <<prov, recops, turns, resumeTurn>> /\ Live(t)
  BY DEF Pause
<1>2. \A u : Prepared(u)' = Prepared(u)
  BY <1>1 DEF Prepared
<1>3. tasks[t] \in TaskRows /\ park[t] \in ParkRows
  BY DEF TablesTypeOK
<1>4. /\ row.state = "parked" /\ row.prio.level = 5 /\ row.parkedLast = tasks[t].parkedLast
      /\ row.hold = IF State(t) = "held" THEN tasks[t].hold ELSE "none"
  BY <1>3 DEF TaskRows, Paused
<1>. HIDE DEF row
<1>5. \A u \in Tasks \ {t} :
         /\ park'[u] = park[u] /\ prov'[u] = prov[u] /\ turns'[u] = turns[u]
         /\ resumeTurn'[u] = resumeTurn[u] /\ Prepared(u)' = Prepared(u)
  BY <1>1, <1>2 DEF TablesTypeOK
<1>6. tasks'[t] = row /\ Only(t)
  BY <1>1, <1>5, OnlyWritten
<1>7. park'[t] = WithSnapshot(Advanced(park[t], NoOp, TRUE), tasks[t].prio)
  BY <1>1 DEF TablesTypeOK
<1>8. HasParkRow(t)'
  BY <1>3, <1>7, ParkRowStays
<1>9. State(t)' = "parked"
  BY <1>4, <1>6 DEF State
<1>. QED  BY <1>1, <1>2, <1>4, <1>6, <1>8, <1>9 DEF OwnKept, HistoryKept

LEMMA RequestPauseEffect ==
    ASSUME TablesTypeOK, NEW t \in Tasks, NEW g, NEW p, NEW op, RequestPause(t, g, p, op)
    PROVE  /\ Only(t) /\ OwnKept(t) /\ UNCHANGED <<turns, resumeTurn>>
           /\ State(t) \in {"queued", "running", "held"} /\ State(t)' = State(t)
           /\ tasks'[t].prio.level = 5 /\ tasks'[t].hold = tasks[t].hold
           /\ tasks'[t].parkedLast = tasks[t].parkedLast
<1>. DEFINE row == [tasks[t] EXCEPT !.prio = Paused]
            new == Advanced(park[t], op, TRUE)
<1>1. /\ tasks' = [tasks EXCEPT ![t].prio = Paused]
      /\ park' = [park EXCEPT ![t] = [WithSnapshot(new, tasks[t].prio) EXCEPT !.pending = TRUE]]
      /\ recops' = CarriedWhileActive(t, new, State(t), capture[t].exec)
      /\ UNCHANGED <<prov, turns, resumeTurn>> /\ State(t) \in {"queued", "running", "held"}
  BY DEF RequestPause
<1>2. \A u : Prepared(u)' = Prepared(u)
  <2>1. PICK m : m = new
    OBVIOUS
  <2>2. recops' \in {recops, CarriedWhileActive(t, m, State(t), capture[t].exec)}
    BY <1>1, <2>1
  <2>. QED  BY <2>2, CarriedKeeps
<1>3. tasks[t] \in TaskRows /\ park[t] \in ParkRows
  BY DEF TablesTypeOK
<1>4. /\ row.state = tasks[t].state /\ row.prio.level = 5 /\ row.parkedLast = tasks[t].parkedLast
      /\ row.hold = tasks[t].hold
  BY <1>3 DEF TaskRows, Paused
<1>0. tasks' = [tasks EXCEPT ![t] = row]
  BY <1>1 DEF TablesTypeOK
<1>7. park'[t] = [WithSnapshot(new, tasks[t].prio) EXCEPT !.pending = TRUE]
  BY <1>1 DEF TablesTypeOK
<1>10. new.gen # 0
  BY <1>3, AdvancedRow
<1>5. \A u \in Tasks \ {t} :
         /\ park'[u] = park[u] /\ prov'[u] = prov[u] /\ turns'[u] = turns[u]
         /\ resumeTurn'[u] = resumeTurn[u] /\ Prepared(u)' = Prepared(u)
  BY <1>1, <1>2 DEF TablesTypeOK
<1>8. HasParkRow(t)'
  <2>1. new.gen = park[t].gen + 1 /\ new.saved = park[t].saved
    BY <1>3 DEF Advanced, ParkRows
  <2>2. park'[t].gen = park[t].gen + 1
    BY <1>3, <1>7 DEF Advanced, ParkRows, WithSnapshot
  <2>. QED  BY <1>3, <2>2 DEF HasParkRow, ParkRows
<1>. HIDE DEF row, new
<1>6. tasks'[t] = row /\ Only(t)
  BY <1>0, <1>5, OnlyWritten
<1>9. State(t)' = State(t)
  BY <1>4, <1>6 DEF State
<1>. QED  BY <1>1, <1>2, <1>4, <1>6, <1>8, <1>9 DEF OwnKept, HistoryKept

LEMMA ResumeEffect ==
    ASSUME TablesTypeOK, NEW t \in Tasks, Resume(t)
    PROVE  /\ Only(t) /\ OwnKept(t) /\ UNCHANGED <<turns, resumeTurn>>
           /\ State(t) = "parked" /\ tasks'[t].hold = "none" /\ ~tasks'[t].parkedLast
           /\ \/ State(t)' = "parked" /\ tasks'[t].prio.level = 5
              \/ State(t)' = "queued" /\ tasks'[t].prio.level # 5
<1>. DEFINE prio == SavedPriority(t)
            to == IF prio.level = 5 THEN "parked" ELSE "queued"
            row == [tasks[t] EXCEPT !.state = to, !.prio = prio, !.parkedLast = FALSE,
                                    !.hold = "none"]
<1>1. /\ tasks' = Written(t, row)
      /\ park' = [park EXCEPT ![t] = NoSnapshot(Advanced(@, NoOp, FALSE))]
      /\ UNCHANGED <<prov, recops, turns, resumeTurn>> /\ State(t) = "parked"
  BY DEF Resume, Restored
<1>2. \A u : Prepared(u)' = Prepared(u)
  BY <1>1 DEF Prepared
<1>3. tasks[t] \in TaskRows /\ park[t] \in ParkRows
  BY DEF TablesTypeOK
<1>4. /\ row.state = to /\ row.prio = prio /\ row.parkedLast = FALSE /\ row.hold = "none"
  <2>. HIDE DEF prio, to
  <2>. QED  BY <1>3 DEF TaskRows
<1>. HIDE DEF row
<1>5. \A u \in Tasks \ {t} :
         /\ park'[u] = park[u] /\ prov'[u] = prov[u] /\ turns'[u] = turns[u]
         /\ resumeTurn'[u] = resumeTurn[u] /\ Prepared(u)' = Prepared(u)
  BY <1>1, <1>2 DEF TablesTypeOK
<1>6. tasks'[t] = row /\ Only(t)
  BY <1>1, <1>5, OnlyWritten
<1>7. park'[t] = NoSnapshot(Advanced(park[t], NoOp, FALSE))
  BY <1>1 DEF TablesTypeOK
<1>8. HasParkRow(t) => HasParkRow(t)'
  BY <1>3, <1>7, ParkRowStays
<1>9. State(t)' = to
  BY <1>4, <1>6 DEF State
<1>. QED  BY <1>1, <1>2, <1>4, <1>6, <1>8, <1>9 DEF OwnKept, HistoryKept

LEMMA CancelPauseEffect ==
    ASSUME TablesTypeOK, NEW t \in Tasks, NEW g, NEW p, NEW op, CancelPause(t, g, p, op)
    PROVE  /\ Only(t) /\ OwnKept(t) /\ UNCHANGED <<turns, resumeTurn>>
           /\ State(t) \in {"queued", "running", "held"} /\ State(t)' = State(t)
           /\ tasks'[t].hold = tasks[t].hold /\ ~tasks'[t].parkedLast
<1>. DEFINE row == [tasks[t] EXCEPT !.prio = park[t].saved, !.parkedLast = FALSE]
            new == Advanced(park[t], NoOp, FALSE)
<1>1. /\ tasks' = Written(t, row)
      /\ park' = [park EXCEPT ![t] = NoSnapshot(new)]
      /\ recops' = CarriedWhileActive(t, new, State(t), capture[t].exec)
      /\ UNCHANGED <<prov, turns, resumeTurn>> /\ State(t) \in {"queued", "running", "held"}
  BY DEF CancelPause
<1>2. \A u : Prepared(u)' = Prepared(u)
  <2>1. PICK m : m = new
    OBVIOUS
  <2>2. recops' \in {recops, CarriedWhileActive(t, m, State(t), capture[t].exec)}
    BY <1>1, <2>1
  <2>. QED  BY <2>2, CarriedKeeps
<1>3. tasks[t] \in TaskRows /\ park[t] \in ParkRows
  BY DEF TablesTypeOK
<1>4. /\ row.state = tasks[t].state /\ row.parkedLast = FALSE /\ row.hold = tasks[t].hold
  BY <1>3 DEF TaskRows
<1>. HIDE DEF row
<1>5. \A u \in Tasks \ {t} :
         /\ park'[u] = park[u] /\ prov'[u] = prov[u] /\ turns'[u] = turns[u]
         /\ resumeTurn'[u] = resumeTurn[u] /\ Prepared(u)' = Prepared(u)
  BY <1>1, <1>2 DEF TablesTypeOK
<1>6. tasks'[t] = row /\ Only(t)
  BY <1>1, <1>5, OnlyWritten
<1>7. park'[t] = NoSnapshot(Advanced(park[t], NoOp, FALSE))
  BY <1>1 DEF TablesTypeOK
<1>8. HasParkRow(t) => HasParkRow(t)'
  BY <1>3, <1>7, ParkRowStays
<1>9. State(t)' = State(t)
  BY <1>4, <1>6 DEF State
<1>. QED  BY <1>1, <1>2, <1>4, <1>6, <1>8, <1>9 DEF OwnKept, HistoryKept

(* What the two calls that reserve a turn have in common. *)
Reserves(t) ==
    /\ Only(t) /\ HistoryKept(t) /\ turns' = turns
    /\ resumeTurn'[t] = turns[t] + 1
    /\ State(t)' = "queued" /\ tasks'[t].hold = "none" /\ ~tasks'[t].parkedLast
    /\ Prepared(t) = {}

LEMMA ResumeRecoveredEffect ==
    ASSUME TablesTypeOK, NEW t \in Tasks, NEW g, NEW p, NEW e, NEW first, NEW op,
           ResumeRecovered(t, g, p, e, first, op)
    PROVE  Reserves(t) /\ State(t) \in {"interrupted", "parked"}
<1>. DEFINE prio == IF park[t].snap THEN park[t].saved
                    ELSE IF tasks[t].prio.level = 5 THEN Computed ELSE tasks[t].prio
            row == [tasks[t] EXCEPT !.state = "queued", !.prio = prio, !.parkedLast = FALSE,
                                    !.hold = "none"]
<1>1. /\ tasks' = Written(t, row)
      /\ park' = [park EXCEPT ![t] = NoSnapshot(Advanced(@, NoOp, TRUE))]
      /\ resumeTurn' = [resumeTurn EXCEPT ![t] = turns[t] + 1]
      /\ UNCHANGED <<prov, recops, turns>> /\ Prepared(t) = {}
      /\ State(t) \in {"interrupted", "parked"}
  BY DEF ResumeRecovered, Restored
<1>2. \A u : Prepared(u)' = Prepared(u)
  BY <1>1 DEF Prepared
<1>3. tasks[t] \in TaskRows /\ park[t] \in ParkRows
  BY DEF TablesTypeOK
<1>4. /\ row.state = "queued" /\ row.parkedLast = FALSE /\ row.hold = "none"
  <2>. HIDE DEF prio
  <2>. QED  BY <1>3 DEF TaskRows
<1>. HIDE DEF row
<1>5. \A u \in Tasks \ {t} :
         /\ park'[u] = park[u] /\ prov'[u] = prov[u] /\ turns'[u] = turns[u]
         /\ resumeTurn'[u] = resumeTurn[u] /\ Prepared(u)' = Prepared(u)
  BY <1>1, <1>2 DEF TablesTypeOK
<1>6. tasks'[t] = row /\ Only(t)
  BY <1>1, <1>5, OnlyWritten
<1>7. /\ park'[t] = NoSnapshot(Advanced(park[t], NoOp, TRUE))
      /\ resumeTurn'[t] = turns[t] + 1
  BY <1>1 DEF TablesTypeOK
<1>8. HasParkRow(t)'
  BY <1>3, <1>7, ParkRowStays
<1>9. State(t)' = "queued"
  BY <1>4, <1>6 DEF State
<1>. QED  BY <1>1, <1>2, <1>4, <1>6, <1>7, <1>8, <1>9 DEF Reserves, HistoryKept

LEMMA ReopenEffect ==
    ASSUME TablesTypeOK, NEW t \in Tasks, Reopen(t, Keep)
    PROVE  Reserves(t) /\ State(t) \in {"done", "failed", "cancelled"}
<1>. DEFINE prio == IF tasks[t].prio.level < 5 THEN tasks[t].prio ELSE Computed
            row == [tasks[t] EXCEPT !.state = "queued", !.prio = prio, !.card = TRUE,
                                    !.hold = "none", !.parkedLast = FALSE]
<1>1. /\ tasks' = [tasks EXCEPT ![t] = row]
      /\ park' = [park EXCEPT ![t] = NoSnapshot(Advanced(@, NoOp, TRUE))]
      /\ resumeTurn' = [resumeTurn EXCEPT ![t] = turns[t] + 1]
      /\ UNCHANGED <<prov, recops, turns>> /\ Prepared(t) = {}
      /\ State(t) \in {"done", "failed", "cancelled"}
  BY DEF Reopen
<1>2. \A u : Prepared(u)' = Prepared(u)
  BY <1>1 DEF Prepared
<1>3. tasks[t] \in TaskRows /\ park[t] \in ParkRows
  BY DEF TablesTypeOK
<1>4. /\ row.state = "queued" /\ row.parkedLast = FALSE /\ row.hold = "none"
  <2>. HIDE DEF prio
  <2>. QED  BY <1>3 DEF TaskRows
<1>. HIDE DEF row
<1>5. \A u \in Tasks \ {t} :
         /\ park'[u] = park[u] /\ prov'[u] = prov[u] /\ turns'[u] = turns[u]
         /\ resumeTurn'[u] = resumeTurn[u] /\ Prepared(u)' = Prepared(u)
  BY <1>1, <1>2 DEF TablesTypeOK
<1>6. tasks'[t] = row /\ Only(t)
  BY <1>1, <1>5, OnlyWritten
<1>7. /\ park'[t] = NoSnapshot(Advanced(park[t], NoOp, TRUE))
      /\ resumeTurn'[t] = turns[t] + 1
  BY <1>1 DEF TablesTypeOK
<1>8. HasParkRow(t)'
  BY <1>3, <1>7, ParkRowStays
<1>9. State(t)' = "queued"
  BY <1>4, <1>6 DEF State
<1>. QED  BY <1>1, <1>2, <1>4, <1>6, <1>7, <1>8, <1>9 DEF Reserves, HistoryKept

(* What follows a call that leaves every column but those of one row. *)
LEMMA OneRow ==
    ASSUME TablesTypeOK, NEW t \in Tasks, NEW row, NEW parkRow,
           tasks' = [tasks EXCEPT ![t] = row], park' = [park EXCEPT ![t] = parkRow],
           prov' = prov, turns' = turns, resumeTurn' = resumeTurn,
           \A u : Prepared(u)' = Prepared(u),
           HasParkRow(t) => parkRow.gen # 0
    PROVE  /\ Only(t) /\ HistoryKept(t) /\ tasks'[t] = row /\ park'[t] = parkRow
           /\ State(t)' = row.state
<1>1. park'[t] = parkRow
  BY DEF TablesTypeOK
<1>2. \A u \in Tasks \ {t} :
         /\ park'[u] = park[u] /\ prov'[u] = prov[u] /\ turns'[u] = turns[u]
         /\ resumeTurn'[u] = resumeTurn[u] /\ Prepared(u)' = Prepared(u)
  BY DEF TablesTypeOK
<1>3. tasks'[t] = row /\ Only(t)
  BY <1>2, OnlyWritten
<1>4. State(t)' = row.state
  BY <1>3 DEF State
<1>5. HasParkRow(t) => HasParkRow(t)'
  BY <1>1 DEF HasParkRow
<1>. QED  BY <1>1, <1>3, <1>4, <1>5 DEF HistoryKept

LEMMA HoldEffect ==
    ASSUME TablesTypeOK, NEW t \in Tasks, NEW g, NEW p, NEW op, Hold(t, g, p, op)
    PROVE  /\ Only(t) /\ OwnKept(t) /\ UNCHANGED <<turns, resumeTurn>>
           /\ State(t) = "running" /\ State(t)' = "held"
           /\ tasks'[t].hold = "held" /\ ~tasks'[t].parkedLast
           /\ tasks'[t].prio = tasks[t].prio
<1>1. PICK new : new = Advanced(park[t], p, FALSE)
  OBVIOUS
<1>2. /\ tasks' = [tasks EXCEPT ![t] = [@ EXCEPT !.state = "held", !.hold = "held",
                                               !.card = FALSE, !.parkedLast = FALSE]]
      /\ park' = [park EXCEPT ![t] = new] /\ State(t) = "running"
      /\ recops' = Carried(t, new, "held", capture[t].exec)
      /\ prov' = prov /\ turns' = turns /\ resumeTurn' = resumeTurn
  BY <1>1 DEF Hold, Unmoved
<1>3. \A u : Prepared(u)' = Prepared(u)
  <2>1. recops' \in {recops, Carried(t, new, "held", capture[t].exec)}
    BY <1>2
  <2>. QED  BY <2>1, CarriedKeeps
<1>4. tasks[t] \in TaskRows /\ park[t] \in ParkRows
  BY DEF TablesTypeOK
<1>5. PICK row : /\ row = [tasks[t] EXCEPT !.state = "held", !.hold = "held",
                                           !.card = FALSE, !.parkedLast = FALSE]
  OBVIOUS
<1>6. /\ row.state = "held" /\ row.hold = "held" /\ row.parkedLast = FALSE
      /\ row.prio = tasks[t].prio
  BY <1>4, <1>5 DEF TaskRows
<1>7. tasks' = [tasks EXCEPT ![t] = row]
  BY <1>2, <1>5 DEF TablesTypeOK
<1>8. HasParkRow(t) => new.gen # 0
  BY <1>1, <1>4, AdvancedRow DEF HasParkRow
<1>9. Only(t) /\ HistoryKept(t) /\ tasks'[t] = row /\ State(t)' = row.state
  BY <1>2, <1>3, <1>7, <1>8, OneRow
<1>. QED  BY <1>2, <1>6, <1>9 DEF OwnKept

LEMMA ReleaseEffect ==
    ASSUME TablesTypeOK, NEW t \in Tasks, NEW g, NEW p, NEW op, Release(t, g, p, op)
    PROVE  /\ Only(t) /\ OwnKept(t) /\ UNCHANGED <<turns, resumeTurn>>
           /\ State(t) = "held" /\ State(t)' = "running"
           /\ ~tasks'[t].parkedLast /\ tasks'[t].prio = tasks[t].prio
<1>1. PICK new : new = Advanced(park[t], p, FALSE)
  OBVIOUS
<1>2. /\ tasks' = [tasks EXCEPT ![t] = [@ EXCEPT !.state = "running", !.hold = "running",
                                               !.parkedLast = FALSE]]
      /\ park' = [park EXCEPT ![t] = new] /\ State(t) = "held"
      /\ recops' = Carried(t, new, "running", capture[t].exec)
      /\ prov' = prov /\ turns' = turns /\ resumeTurn' = resumeTurn
  BY <1>1 DEF Release, Unmoved
<1>3. \A u : Prepared(u)' = Prepared(u)
  <2>1. recops' \in {recops, Carried(t, new, "running", capture[t].exec)}
    BY <1>2
  <2>. QED  BY <2>1, CarriedKeeps
<1>4. tasks[t] \in TaskRows /\ park[t] \in ParkRows
  BY DEF TablesTypeOK
<1>5. PICK row : row = [tasks[t] EXCEPT !.state = "running", !.hold = "running",
                                        !.parkedLast = FALSE]
  OBVIOUS
<1>6. row.state = "running" /\ row.parkedLast = FALSE /\ row.prio = tasks[t].prio
  BY <1>4, <1>5 DEF TaskRows
<1>7. tasks' = [tasks EXCEPT ![t] = row]
  BY <1>2, <1>5 DEF TablesTypeOK
<1>8. HasParkRow(t) => new.gen # 0
  BY <1>1, <1>4, AdvancedRow DEF HasParkRow
<1>9. Only(t) /\ HistoryKept(t) /\ tasks'[t] = row /\ State(t)' = row.state
  BY <1>2, <1>3, <1>7, <1>8, OneRow
<1>. QED  BY <1>2, <1>6, <1>9 DEF OwnKept

LEMMA ParkedRowStays ==
    ASSUME NEW t \in Tasks, park[t] \in ParkRows, NEW op
    PROVE  ParkedRow(t, op).gen # 0 /\ WithSnapshot(ParkedRow(t, op), Computed).gen # 0
BY DEF ParkedRow, Advanced, WithSnapshot, ParkRows, HasParkRow

LEMMA ParkEffect ==
    ASSUME TablesTypeOK, NEW t \in Tasks, NEW g, NEW p, NEW op, Park(t, g, p, op)
    PROVE  /\ Only(t) /\ HistoryKept(t) /\ UNCHANGED <<turns, resumeTurn>>
           /\ State(t)' = "parked" /\ tasks'[t].hold = "parked" /\ tasks'[t].parkedLast
           /\ tasks'[t].prio = tasks[t].prio /\ HasParkRow(t)'
<1>1. PICK new : new = ParkedRow(t, op)
  OBVIOUS
<1>2. /\ tasks' = [tasks EXCEPT ![t] = [@ EXCEPT !.state = "parked", !.hold = "parked",
                                               !.card = TRUE, !.parkedLast = TRUE]]
      /\ park' = [park EXCEPT ![t] = new] /\ recops' = recops
      /\ prov' = prov /\ turns' = turns /\ resumeTurn' = resumeTurn
  BY <1>1 DEF Park, Unmoved
<1>3. \A u : Prepared(u)' = Prepared(u)
  BY <1>2 DEF Prepared
<1>4. tasks[t] \in TaskRows /\ park[t] \in ParkRows
  BY DEF TablesTypeOK
<1>5. PICK row : row = [tasks[t] EXCEPT !.state = "parked", !.hold = "parked",
                                        !.card = TRUE, !.parkedLast = TRUE]
  OBVIOUS
<1>6. /\ row.state = "parked" /\ row.hold = "parked" /\ row.parkedLast = TRUE
      /\ row.prio = tasks[t].prio
  BY <1>4, <1>5 DEF TaskRows
<1>7. tasks' = [tasks EXCEPT ![t] = row]
  BY <1>2, <1>5 DEF TablesTypeOK
<1>8. new.gen # 0
  BY <1>1, <1>4, ParkedRowStays
<1>9. Only(t) /\ HistoryKept(t) /\ tasks'[t] = row /\ park'[t] = new /\ State(t)' = row.state
  BY <1>2, <1>3, <1>7, <1>8, OneRow
<1>. QED  BY <1>2, <1>6, <1>8, <1>9 DEF HasParkRow

LEMMA InterruptEffect ==
    ASSUME TablesTypeOK, NEW t \in Tasks, NEW g, NEW p, NEW op, Interrupt(t, g, p, op, TRUE)
    PROVE  /\ Only(t) /\ OwnKept(t) /\ UNCHANGED <<turns, resumeTurn>>
           /\ State(t)' = "interrupted" /\ tasks'[t].parkedLast = tasks[t].parkedLast
<1>1. PICK new : new = IF HasParkRow(t) THEN ParkedRow(t, op)
                                        ELSE WithSnapshot(ParkedRow(t, op), Computed)
  OBVIOUS
<1>2. /\ tasks' = [tasks EXCEPT ![t] =
                    [@ EXCEPT !.state = "interrupted", !.hold = "interrupted", !.card = TRUE,
                              !.prio = IF HasParkRow(t) THEN tasks[t].prio ELSE Paused]]
      /\ park' = [park EXCEPT ![t] = new] /\ recops' = recops
      /\ prov' = prov /\ turns' = turns /\ resumeTurn' = resumeTurn
  BY <1>1 DEF Interrupt, Unmoved
<1>3. \A u : Prepared(u)' = Prepared(u)
  BY <1>2 DEF Prepared
<1>4. tasks[t] \in TaskRows /\ park[t] \in ParkRows
  BY DEF TablesTypeOK
<1>5. PICK row : row = [tasks[t] EXCEPT !.state = "interrupted", !.hold = "interrupted",
                              !.card = TRUE,
                              !.prio = IF HasParkRow(t) THEN tasks[t].prio ELSE Paused]
  OBVIOUS
<1>6. row.state = "interrupted" /\ row.parkedLast = tasks[t].parkedLast
  BY <1>4, <1>5 DEF TaskRows
<1>7. tasks' = [tasks EXCEPT ![t] = row]
  BY <1>2, <1>5 DEF TablesTypeOK
<1>8. new.gen # 0
  BY <1>1, <1>4, ParkedRowStays
<1>9. Only(t) /\ HistoryKept(t) /\ tasks'[t] = row /\ park'[t] = new /\ State(t)' = row.state
  BY <1>2, <1>3, <1>7, <1>8, OneRow
<1>. QED  BY <1>2, <1>6, <1>9 DEF OwnKept

LEMMA StartEffect ==
    ASSUME TablesTypeOK, NEW t \in Tasks, NEW g, NEW p, NEW e \in Execs,
           Start(t, g, p, e, NoExec, TRUE)
    PROVE  /\ Only(t) /\ UNCHANGED <<turns, resumeTurn>> /\ Prepared(t)' = Prepared(t)
           /\ HasParkRow(t)' /\ prov'[t].first = "started" /\ prov'[t].exec = e
           /\ State(t) = "queued" /\ State(t)' = "running"
           /\ tasks'[t].hold = tasks[t].hold /\ tasks'[t].parkedLast = tasks[t].parkedLast
           /\ prov[t].first = "never_started"
<1>1. PICK new : new = Advanced(park[t], p, TRUE)
  OBVIOUS
<1>2. /\ tasks' = [tasks EXCEPT ![t].state = "running"]
      /\ park' = [park EXCEPT ![t] = new] /\ recops' = recops \cup {Started(t, e, new)}
      /\ prov' = [prov EXCEPT ![t] = [first |-> "started", exec |-> e, unsafe |-> TRUE]]
      /\ turns' = turns /\ resumeTurn' = resumeTurn
      /\ State(t) = "queued" /\ prov[t].first = "never_started"
  BY <1>1 DEF Start
<1>3. \A u : Prepared(u)' = Prepared(u)
  <2>1. Started(t, e, new).kind = "start"
    BY DEF Started
  <2>. QED  BY <1>2, <2>1 DEF Prepared
<1>4. tasks[t] \in TaskRows /\ park[t] \in ParkRows
  BY DEF TablesTypeOK
<1>5. PICK row : row = [tasks[t] EXCEPT !.state = "running"]
  OBVIOUS
<1>6. /\ row.state = "running" /\ row.hold = tasks[t].hold /\ row.parkedLast = tasks[t].parkedLast
  BY <1>4, <1>5 DEF TaskRows
<1>7. tasks' = [tasks EXCEPT ![t] = row]
  BY <1>2, <1>5 DEF TablesTypeOK
<1>8. /\ park'[t] = new /\ new.gen # 0
      /\ prov'[t] = [first |-> "started", exec |-> e, unsafe |-> TRUE]
  BY <1>1, <1>2, <1>4, AdvancedRow, ZenonT(60) DEF TablesTypeOK
<1>9. \A u \in Tasks \ {t} :
         /\ park'[u] = park[u] /\ prov'[u] = prov[u] /\ turns'[u] = turns[u]
         /\ resumeTurn'[u] = resumeTurn[u] /\ Prepared(u)' = Prepared(u)
  BY <1>2, <1>3 DEF TablesTypeOK
<1>10. Only(t) /\ tasks'[t] = row
  BY <1>7, <1>9, OnlyWritten
<1>11. State(t)' = "running"
  BY <1>6, <1>10 DEF State
<1>. QED  BY <1>2, <1>3, <1>6, <1>8, <1>10, <1>11 DEF HasParkRow

LEMMA MarkIncompleteEffect ==
    ASSUME TablesTypeOK, NEW t \in Tasks, NEW g, NEW p, NEW e, MarkIncomplete(t, g, p, e)
    PROVE  /\ Only(t) /\ OwnKept(t) /\ UNCHANGED <<turns, resumeTurn, tasks>>
           /\ State(t) = "running" /\ State(t)' = "running"
<1>1. PICK new : new = Advanced(park[t], p, TRUE)
  OBVIOUS
<1>2. /\ tasks' = tasks /\ park' = [park EXCEPT ![t] = new]
      /\ recops' = Carried(t, new, "running", e)
      /\ prov' = prov /\ turns' = turns /\ resumeTurn' = resumeTurn /\ State(t) = "running"
  BY <1>1 DEF MarkIncomplete, CaptureStep
<1>3. \A u : Prepared(u)' = Prepared(u)
  <2>1. recops' \in {recops, Carried(t, new, "running", e)}
    BY <1>2
  <2>. QED  BY <2>1, CarriedKeeps
<1>4. park[t] \in ParkRows
  BY DEF TablesTypeOK
<1>5. PICK row : row = tasks[t]
  OBVIOUS
<1>7. tasks' = [tasks EXCEPT ![t] = row]
  BY <1>2, <1>5 DEF TablesTypeOK
<1>8. HasParkRow(t) => new.gen # 0
  BY <1>1, <1>4, AdvancedRow DEF HasParkRow
<1>9. Only(t) /\ HistoryKept(t)
  BY <1>2, <1>3, <1>7, <1>8, OneRow
<1>. QED  BY <1>2, <1>9 DEF OwnKept, State

(* A recovery intent comes and goes; nothing else of the row changes.      *)
LEMMA PrepareEffect ==
    ASSUME TablesTypeOK, NEW t \in Tasks, NEW g, NEW p, NEW e, NEW outcome,
           NEW card, NEW crash, NEW unsafe,
           Prepare(t, g, p, e, outcome, card, crash, unsafe)
    PROVE  /\ Only(t) /\ UNCHANGED <<tasks, prov, turns, resumeTurn>>
           /\ HasParkRow(t) => HasParkRow(t)'
           /\ Live(t) /\ Prepared(t) = {}
           /\ \E i : Prepared(t)' = {i} /\ i.outcome = outcome /\ i.state = State(t)
<1>1. PICK new : new = Advanced(park[t], p, TRUE)
  OBVIOUS
<1>2. PICK i : i = [task |-> t, kind |-> "recovery", phase |-> "prepared", gen |-> new.gen,
            pend |-> new.op, state |-> State(t), exec |-> e, outcome |-> outcome,
            crash |-> crash, unsafe |-> unsafe, card |-> card]
  OBVIOUS
<1>3. /\ tasks' = tasks /\ park' = [park EXCEPT ![t] = new] /\ recops' = recops \cup {i}
      /\ prov' = prov /\ turns' = turns /\ resumeTurn' = resumeTurn
      /\ Live(t) /\ Prepared(t) = {}
  BY <1>1, <1>2 DEF Prepare
<1>4. /\ i.task = t /\ i.kind = "recovery" /\ i.phase = "prepared" /\ i.outcome = outcome
      /\ i.state = State(t)
  BY <1>2
<1>5. Prepared(t)' = {i}
  BY <1>3, <1>4 DEF Prepared
<1>6. \A u \in Tasks \ {t} : Prepared(u)' = Prepared(u)
  BY <1>3, <1>4 DEF Prepared
<1>7. park[t] \in ParkRows /\ park'[t] = new /\ \A u \in Tasks \ {t} : park'[u] = park[u]
  BY <1>3 DEF TablesTypeOK
<1>8. HasParkRow(t) => HasParkRow(t)'
  BY <1>1, <1>7, ParkRowStays
<1>9. Only(t)
  BY <1>3, <1>6, <1>7 DEF Only, RowKept
<1>. QED  BY <1>3, <1>4, <1>5, <1>8, <1>9

LEMMA SupersedeEffect ==
    ASSUME TablesTypeOK, NEW t \in Tasks, NEW g, NEW p, NEW r, r.task = t, Supersede(r, g, p)
    PROVE  /\ Only(t) /\ UNCHANGED <<tasks, park, prov, turns, resumeTurn>>
           /\ Prepared(t)' = Prepared(t) \ {r} /\ r \in Prepared(t)
<1>1. /\ tasks' = tasks /\ park' = park /\ prov' = prov /\ turns' = turns /\ resumeTurn' = resumeTurn
      /\ recops' = (recops \ {r}) \cup {[r EXCEPT !.phase = "superseded"]} /\ r \in Prepared(t)
  BY DEF Supersede
<1>2. [r EXCEPT !.phase = "superseded"].phase = "superseded" /\ r.task = t
  BY <1>1 DEF Prepared, TablesTypeOK, RecoveryRows
<1>3. Prepared(t)' = Prepared(t) \ {r}
  BY <1>1, <1>2 DEF Prepared
<1>4. \A u \in Tasks \ {t} : Prepared(u)' = Prepared(u)
  BY <1>1, <1>2 DEF Prepared
<1>. QED  BY <1>1, <1>3, <1>4 DEF Only, RowKept

LEMMA CommitEffect ==
    ASSUME TablesTypeOK, NEW t \in Tasks, NEW r, r.task = t, Commit(r)
    PROVE  /\ Only(t) /\ UNCHANGED <<turns, resumeTurn>>
           /\ Prepared(t)' = Prepared(t) \ {r} /\ r \in Prepared(t)
           /\ HasParkRow(t) => HasParkRow(t)'
           /\ Live(t) /\ State(t)' = r.outcome /\ tasks'[t].parkedLast = tasks[t].parkedLast
           /\ prov'[t].exec = r.exec /\ prov'[t].first # "absent" /\ r.exec \in Execs
<1>1. PICK pend : pend = IF r.outcome \in Terminal THEN NoOp ELSE r.pend
  OBVIOUS
<1>2. PICK new : new = Advanced(park[t], pend, TRUE)
  OBVIOUS
<1>3. PICK row : row = [tasks[t] EXCEPT !.state = r.outcome, !.card = r.card,
                                        !.hold = "none", !.crashes = Crashes(r)]
  OBVIOUS
<1>4. PICK i : i = [r EXCEPT !.phase = "committed", !.gen = new.gen, !.pend = pend,
                             !.state = r.outcome]
  OBVIOUS
<1>5. r \in Prepared(t) /\ Live(t)
  BY DEF Commit
<1>6. /\ tasks' = [tasks EXCEPT ![t] = row] /\ recops' = (recops \ {r}) \cup {i}
      /\ park' = [park EXCEPT ![t] = IF r.outcome \in Terminal THEN NoSnapshot(new) ELSE new]
      /\ prov' = [prov EXCEPT ![t] = Upserted(@, "unknown", r.exec, r.unsafe)]
      /\ turns' = turns /\ resumeTurn' = resumeTurn
  BY <1>1, <1>2, <1>3, <1>4 DEF Commit
<1>7. r \in RecoveryRows /\ tasks[t] \in TaskRows /\ park[t] \in ParkRows /\ prov[t] \in ProvRows
  BY <1>5 DEF Prepared, TablesTypeOK
<1>8. i.phase = "committed" /\ r.exec \in Execs
  BY <1>4, <1>7 DEF RecoveryRows
<1>9. row.state = r.outcome /\ row.parkedLast = tasks[t].parkedLast
  BY <1>3, <1>7 DEF TaskRows
<1>10. Prepared(t)' = Prepared(t) \ {r}
  BY <1>6, <1>8 DEF Prepared
<1>11. \A u \in Tasks \ {t} : Prepared(u)' = Prepared(u)
  BY <1>6, <1>8 DEF Prepared
<1>12. /\ \A u \in Tasks \ {t} : park'[u] = park[u] /\ prov'[u] = prov[u]
       /\ park'[t] = IF r.outcome \in Terminal THEN NoSnapshot(new) ELSE new
       /\ prov'[t] = Upserted(prov[t], "unknown", r.exec, r.unsafe)
  BY <1>6 DEF TablesTypeOK
<1>13. HasParkRow(t)'
  <2>1. park'[t] = Advanced(park[t], pend, TRUE) \/ park'[t] = NoSnapshot(Advanced(park[t], pend, TRUE))
    BY <1>2, <1>12
  <2>. QED  BY <1>7, <2>1, ParkRowStays
<1>14. prov'[t].exec = r.exec /\ prov'[t].first # "absent"
  BY <1>7, <1>12 DEF Upserted
<1>15. \A u \in Tasks \ {t} :
         /\ park'[u] = park[u] /\ prov'[u] = prov[u] /\ turns'[u] = turns[u]
         /\ resumeTurn'[u] = resumeTurn[u] /\ Prepared(u)' = Prepared(u)
  BY <1>6, <1>11, <1>12
<1>16. tasks'[t] = row /\ Only(t)
  BY <1>6, <1>15, OnlyWritten
<1>17. State(t)' = r.outcome
  BY <1>9, <1>16 DEF State
<1>. QED  BY <1>5, <1>6, <1>8, <1>9, <1>10, <1>13, <1>14, <1>16, <1>17

(* _set_state(cancelled), with an operation id or without.                 *)
LEMMA StopEffect ==
    ASSUME TablesTypeOK, NEW t \in Tasks, NEW to \in Terminal, NEW g, NEW p, NEW op,
           Finish(t, to) \/ (to = "cancelled" /\ GuardedStop(t, g, p, op))
    PROVE  /\ Only(t) /\ OwnKept(t) /\ UNCHANGED <<turns, resumeTurn>>
           /\ Live(t) /\ State(t)' = to /\ tasks'[t].hold = "none"
<1>1. Finished(t, to)
  BY DEF Finish, GuardedStop
<1>. QED  BY <1>1, FinishEffect

----------------------------------------------------------------------------
(* What a step passes by *)

(* A run but for the room it makes; and a task that a step only passes by. *)
Alike(s, r) ==
    /\ s.at = r.at /\ s.exec = r.exec /\ s.fenced = r.fenced /\ s.out = r.out
    /\ s.point = r.point /\ s.pending = r.pending
FlagsKept(u) == \A n \in SetNames : u \in sets'[n] <=> u \in sets[n]
Stays(u) == RowKept(u) /\ last'[u] = last[u] /\ reserved'[u] = reserved[u] /\ FlagsKept(u)
Passed(u, r) == Stays(u) /\ Alike(r, run[u])

LEMMA StaySound ==
    ASSUME NEW u \in Tasks, NEW r, TaskSound(u, r), Stays(u),
           phase' = phase, u \in todo' <=> u \in todo
    PROVE  TaskSound(u, r)'
<1>2. /\ State(u)' = State(u) /\ tasks'[u].hold = tasks[u].hold
      /\ tasks'[u].parkedLast = tasks[u].parkedLast
      /\ tasks'[u].prio.level < 5 <=> tasks[u].prio.level < 5
      /\ HasParkRow(u)' <=> HasParkRow(u)
      /\ prov'[u] = prov[u] /\ turns'[u] = turns[u] /\ resumeTurn'[u] = resumeTurn[u]
      /\ Prepared(u)' = Prepared(u) /\ last'[u] = last[u] /\ reserved'[u] = reserved[u]
  BY DEF Stays, RowKept, State, HasParkRow
<1>3. \A n \in SetNames : In(u, n)' <=> In(u, n)
  BY DEF Stays, FlagsKept, In
<1>4. /\ In(u, "winners")' <=> In(u, "winners")
      /\ In(u, "quarantined")' <=> In(u, "quarantined")
      /\ In(u, "stopping")' <=> In(u, "stopping")
      /\ In(u, "eligible")' <=> In(u, "eligible")
      /\ In(u, "fenced")' <=> In(u, "fenced")
  BY <1>3 DEF SetNames
<1>5. Parks(u)' <=> Parks(u)
  BY <1>4 DEF Parks
<1>6. MayTurn(u)' <=> MayTurn(u)
  BY <1>2 DEF MayTurn
<1>7. Seen(u)' <=> Seen(u)
  BY DEF Seen
<1>8. Live(u)' <=> Live(u)
  BY <1>2 DEF Live
<1>9. RunSound(u, r) /\ FlagsSound(u, r) /\ PastSound(u, r) /\ OpenSound(u, r) /\ StartupSound(u, r)
  BY DEF TaskSound
<1>10. RunSound(u, r)'
  BY <1>2, <1>4, <1>9 DEF RunSound
<1>11. FlagsSound(u, r)'
  BY <1>2, <1>4, <1>5, <1>9 DEF FlagsSound
<1>12. PastSound(u, r)'
  BY <1>2, <1>9 DEF PastSound
<1>13. OpenSound(u, r)'
  BY <1>2, <1>4, <1>6, <1>9 DEF OpenSound
<1>14. StartupSound(u, r)'
  BY <1>2, <1>4, <1>6, <1>7, <1>8, <1>9 DEF StartupSound
<1>. QED  BY <1>10, <1>11, <1>12, <1>13, <1>14 DEF TaskSound

(* A free slot's new coroutine, and a worker that is asked to make room.   *)
LEMMA AlikeSound ==
    ASSUME NEW u \in Tasks, NEW r, NEW s, TaskSound(u, r)', Alike(s, r)
    PROVE  TaskSound(u, s)'
<1>1. /\ s.at = r.at /\ s.exec = r.exec /\ s.fenced = r.fenced /\ s.out = r.out
      /\ s.point = r.point /\ s.pending = r.pending
  BY DEF Alike
<1>2. RunSound(u, s)'
  BY <1>1 DEF TaskSound, RunSound
<1>3. FlagsSound(u, s)'
  BY <1>1 DEF TaskSound, FlagsSound
<1>4. PastSound(u, s)'
  BY <1>1 DEF TaskSound, PastSound
<1>5. OpenSound(u, s)'
  BY <1>1 DEF TaskSound, OpenSound
<1>6. StartupSound(u, s)'
  BY <1>1 DEF TaskSound, StartupSound
<1>. QED  BY <1>2, <1>3, <1>4, <1>5, <1>6 DEF TaskSound

LEMMA PassedSound ==
    ASSUME NEW u \in Tasks, NEW r, TaskSound(u, run[u]), Passed(u, r),
           phase' = phase, u \in todo' <=> u \in todo
    PROVE  TaskSound(u, r)'
<1>1. PICK s : s = run[u]
  OBVIOUS
<1>2. TaskSound(u, s)'
  BY <1>1, StaySound DEF Passed
<1>. QED  BY <1>1, <1>2, AlikeSound DEF Passed

LEMMA ChosenSound ==
    ASSUME NEW u \in Tasks, NEW r, NEW s, TaskSound(u, r)', phase' = "ready",
           r.at = "none", s.at = "check", s.exec = r.exec, s.fenced = r.fenced, s.out = r.out,
           s.point = r.point, s.pending = r.pending,
           State(u)' = "queued", In(u, "eligible")'
    PROVE  TaskSound(u, s)'
<1>1. s.at \in Early /\ s.at \notin Late /\ s.at \notin {"none", "turn"}
  BY DEF Early, Late
<1>2. /\ r.out = "none" /\ r.point = "none" /\ r.exec = NoExec /\ ~r.fenced
  BY DEF TaskSound, RunSound
<1>3. RunSound(u, s)'
  BY <1>1, <1>2 DEF TaskSound, RunSound
<1>4. FlagsSound(u, s)'
  BY <1>1, <1>2 DEF TaskSound, FlagsSound, Late
<1>5. PastSound(u, s)'
  BY <1>1 DEF TaskSound, PastSound
<1>6. OpenSound(u, s)'
  BY <1>1, <1>2 DEF TaskSound, OpenSound
<1>7. StartupSound(u, s)'
  BY DEF StartupSound
<1>. QED  BY <1>3, <1>4, <1>5, <1>6, <1>7 DEF TaskSound

----------------------------------------------------------------------------
(* _schedule *)

(* What _schedule does to one run. *)
Chosen(u, after) ==
    /\ after[u].at = "none" /\ run'[u] = [after[u] EXCEPT !.at = "check"]
    /\ State(u)' = "queued" /\ tasks'[u].prio.level < 5 /\ u \in sets'["eligible"]
Taken(after) == {u \in Tasks : after[u].at # "none"}

LEMMA ScheduleView ==
    ASSUME NEW after \in [Tasks -> Runs], Schedule(after)
    PROVE  /\ run' \in [Tasks -> Runs]
           /\ \A u \in Tasks :
                 /\ Alike(run'[u], after[u]) \/ Chosen(u, after)
                 /\ \/ run'[u].room = after[u].room
                    \/ after[u].room = "no" /\ State(u)' # "absent"
<1>1. PICK chosen \in SUBSET Waiting(after), asked \in SUBSET CanYield(after) :
         run' = [u \in Tasks |->
             IF u \in chosen THEN [after[u] EXCEPT !.at = "check"]
             ELSE IF u \in asked THEN [after[u] EXCEPT !.room = "asked", !.yields = TRUE]
             ELSE after[u]]
  BY DEF Schedule
<1>2. ASSUME NEW u \in Tasks
      PROVE  /\ run'[u] \in Runs /\ (Alike(run'[u], after[u]) \/ Chosen(u, after))
             /\ \/ run'[u].room = after[u].room
                \/ after[u].room = "no" /\ State(u)' # "absent"
  <2>0. after[u] \in Runs
    OBVIOUS
  <2>1. CASE u \in chosen
    <3>1. run'[u] = [after[u] EXCEPT !.at = "check"]
      BY <1>1, <2>1
    <3>2. /\ after[u].at = "none" /\ State(u)' = "queued" /\ tasks'[u].prio.level < 5
          /\ u \in sets'["eligible"]
      BY <2>1 DEF Waiting
    <3>3. run'[u] \in Runs
      BY <2>0, <3>1 DEF Runs, Places
    <3>4. run'[u].room = after[u].room
      BY <2>0, <3>1 DEF Runs
    <3>. QED  BY <3>1, <3>2, <3>3, <3>4 DEF Chosen
  <2>2. CASE u \notin chosen /\ u \in asked
    <3>1. run'[u] = [after[u] EXCEPT !.room = "asked", !.yields = TRUE]
      BY <1>1, <2>2
    <3>2. run'[u] \in Runs
      BY <2>0, <3>1 DEF Runs, Rooms
    <3>3. Alike(run'[u], after[u])
      BY <2>0, <3>1 DEF Runs, Alike
    <3>4. after[u].room = "no" /\ State(u)' # "absent"
      BY <2>2 DEF CanYield
    <3>. QED  BY <3>2, <3>3, <3>4
  <2>3. CASE u \notin chosen /\ u \notin asked
    <3>1. run'[u] = after[u]
      BY <1>1, <2>3
    <3>. QED  BY <2>0, <3>1 DEF Alike
  <2>. QED  BY <2>1, <2>2, <2>3
<1>. QED  BY <1>1, <1>2

(* The free slots go to tasks that wait, until one of both is used up.     *)
LEMMA ScheduleFills ==
    ASSUME NEW after \in [Tasks -> Runs], Schedule(after), IsFiniteSet(Created)',
           Taken(after) \subseteq Created', Cardinality(Taken(after)) <= Slots,
           \A u \in Tasks : Queued(u)' => u \in sets'["eligible"]
    PROVE  SlotsSound'
<1>. DEFINE waiting == Waiting(after)
            taken == Taken(after)
            free == IF Cardinality(taken) < Slots THEN Slots - Cardinality(taken) ELSE 0
            starts == IF free < Cardinality(waiting) THEN free ELSE Cardinality(waiting)
<1>1. PICK chosen \in SUBSET waiting, asked \in SUBSET Tasks :
         /\ Cardinality(chosen) = starts
         /\ run' = [u \in Tasks |->
               IF u \in chosen THEN [after[u] EXCEPT !.at = "check"]
               ELSE IF u \in asked THEN [after[u] EXCEPT !.room = "asked", !.yields = TRUE]
               ELSE after[u]]
  BY DEF Schedule, CanYield, Taken
<1>2. \A u \in Tasks : run'[u].at = IF u \in chosen THEN "check" ELSE after[u].at
  <2>1. TAKE u \in Tasks
  <2>2. after[u] \in Runs
    OBVIOUS
  <2>. QED  BY <1>1, <2>2 DEF Runs
<1>3. Residents' = taken \cup chosen
  BY <1>2 DEF Residents, Resident, Taken, Waiting
<1>4. taken \cap chosen = {} /\ waiting \subseteq Created'
  <2>1. \A u \in waiting : after[u].at = "none" /\ State(u)' = "queued" /\ u \in Tasks
    BY DEF Waiting
  <2>. QED  BY <2>1 DEF Taken, Created
<1>5. IsFiniteSet(taken) /\ IsFiniteSet(waiting) /\ IsFiniteSet(chosen)
  BY <1>4, FS_Subset
<1>6. Cardinality(taken) \in Nat /\ Cardinality(waiting) \in Nat /\ Cardinality(chosen) \in Nat
      /\ Slots \in Nat
  BY <1>5, FS_CardinalityType, GatewayAssumption
<1>7. Cardinality(Residents') = Cardinality(taken) + Cardinality(chosen)
  <2>1. Cardinality(taken \cup chosen)
          = Cardinality(taken) + Cardinality(chosen) - Cardinality(taken \cap chosen)
    BY <1>5, FS_Union
  <2>2. Cardinality(taken \cap chosen) = 0
    BY <1>4, FS_EmptySet
  <2>. QED  BY <1>3, <1>6, <2>1, <2>2
<1>8. Cardinality(taken) + free = Slots /\ free \in Nat
  BY <1>6
<1>12. Cardinality(chosen) = starts
  BY <1>1
<1>13. Cardinality(chosen) <= free /\ (Cardinality(chosen) = free \/ Cardinality(chosen) = Cardinality(waiting))
  <2>. HIDE DEF free, waiting
  <2>. QED  BY <1>6, <1>8, <1>12
<1>9. Cardinality(Residents') <= Slots
  <2>. HIDE DEF free, waiting, taken
  <2>. QED  BY <1>6, <1>7, <1>8, <1>13
<1>10. ASSUME NEW u \in Tasks, Queued(u)'
       PROVE  u \in sets'["eligible"] /\ Cardinality(Residents') >= Slots
  <2>1. /\ run'[u].at = "none" /\ State(u)' = "queued" /\ tasks'[u].prio.level < 5
    BY <1>10 DEF Queued, Resident
  <2>2. u \notin chosen /\ u \in waiting
    BY <1>2, <1>10, <2>1 DEF Waiting
  <2>3. Cardinality(chosen) < Cardinality(waiting)
    <3>1. Cardinality(chosen) <= Cardinality(waiting) /\
          (Cardinality(chosen) = Cardinality(waiting) => chosen = waiting)
      BY <1>5, FS_Subset
    <3>. QED  BY <1>6, <2>2, <3>1
  <2>4. Cardinality(chosen) = free
    <3>. HIDE DEF free, waiting, taken
    <3>. QED  BY <1>6, <1>13, <2>3
  <2>. QED  BY <1>6, <1>7, <1>8, <1>10, <2>4
<1>11. Residents' \subseteq Created'
  BY <1>3, <1>4
<1>. QED  BY <1>9, <1>10, <1>11 DEF SlotsSound, In

----------------------------------------------------------------------------
(* A step of one task *)

(* A step of task t, which leaves the runs `after` to _schedule or as they *)
(* are.                                                                    *)
Step(t, after) ==
    /\ after \in [Tasks -> Runs] /\ UNCHANGED <<phase, todo>>
    /\ run' = after \/ (phase = "ready" /\ Schedule(after))
    /\ \A u \in Tasks \ {t} : Passed(u, after[u]) /\ after[u].room = run[u].room
    /\ TaskSound(t, after[t])'
    /\ State(t) # "absent" => State(t)' # "absent"

LEMMA StepView ==
    ASSUME NEW t \in Tasks, NEW after, Step(t, after)
    PROVE  /\ run' \in [Tasks -> Runs]
           /\ \A u \in Tasks :
                 /\ Alike(run'[u], after[u]) \/ (phase = "ready" /\ Chosen(u, after))
                 /\ \/ run'[u].room = after[u].room
                    \/ phase = "ready" /\ after[u].room = "no" /\ State(u)' # "absent"
<1>1. CASE run' = after
  BY <1>1 DEF Step, Alike
<1>2. CASE phase = "ready" /\ Schedule(after)
  BY <1>2, ScheduleView DEF Step
<1>. QED  BY <1>1, <1>2 DEF Step

LEMMA StepSound ==
    ASSUME NEW t \in Tasks, NEW after, Step(t, after), \A u \in Tasks : TaskSound(u, run[u])
    PROVE  \A u \in Tasks : TaskSound(u, run[u])'
<1>1. ASSUME NEW u \in Tasks PROVE TaskSound(u, after[u])'
  <2>1. CASE u = t
    BY <2>1 DEF Step
  <2>2. CASE u # t
    <3>1. PICK r : r = after[u]
      OBVIOUS
    <3>2. Passed(u, r) /\ phase' = phase /\ (u \in todo' <=> u \in todo)
      BY <2>2, <3>1 DEF Step
    <3>3. TaskSound(u, r)'
      BY <3>2, PassedSound
    <3>. QED  BY <3>1, <3>3
  <2>. QED  BY <2>1, <2>2
<1>2. ASSUME NEW u \in Tasks PROVE TaskSound(u, run[u])'
  <2>1. PICK r : r = after[u]
    OBVIOUS
  <2>2. PICK s : s = run'[u]
    OBVIOUS
  <2>3. TaskSound(u, r)'
    BY <1>1, <2>1
  <2>4. CASE Alike(run'[u], after[u])
    <3>1. TaskSound(u, s)'
      BY <2>1, <2>2, <2>3, <2>4, AlikeSound
    <3>. QED  BY <2>2, <3>1
  <2>5. CASE phase = "ready" /\ Chosen(u, after)
    <3>1. r \in Runs
      BY <2>1 DEF Step
    <3>2. /\ r.at = "none" /\ s = [r EXCEPT !.at = "check"]
          /\ State(u)' = "queued" /\ In(u, "eligible")' /\ phase' = "ready"
      BY <2>1, <2>2, <2>5 DEF Chosen, Step, In
    <3>3. /\ s.at = "check" /\ s.exec = r.exec /\ s.fenced = r.fenced /\ s.out = r.out
          /\ s.point = r.point /\ s.pending = r.pending
      BY <3>1, <3>2 DEF Runs
    <3>4. TaskSound(u, s)'
      BY <2>3, <3>2, <3>3, ChosenSound
    <3>. QED  BY <2>2, <3>4
  <2>. QED  BY <2>4, <2>5, StepView
<1>. QED  BY <1>2

(* Nothing is ever deleted, and one task at most is new. *)
LEMMA StepCreates ==
    ASSUME NEW t \in Tasks, NEW after, Step(t, after)
    PROVE  /\ Created \subseteq Created' /\ Created' \subseteq Created \cup {t}
           /\ IsFiniteSet(Created) => IsFiniteSet(Created)'
<1>1. \A u \in Tasks \ {t} : State(u)' = State(u)
  BY DEF Step, Passed, Stays, RowKept, State
<1>2. Created \subseteq Created' /\ Created' \subseteq Created \cup {t}
  BY <1>1 DEF Step, Created
<1>3. IsFiniteSet(Created) => IsFiniteSet(Created')
  BY <1>2, FS_AddElement, FS_Subset
<1>. QED  BY <1>2, <1>3

(* The slots behind a step that schedules, and behind one that does not.   *)
LEMMA SlotsScheduled ==
    ASSUME NEW t \in Tasks, NEW after, Step(t, after), SlotsSound, phase = "ready",
           Schedule(after),
           run[t].at = "none" => after[t].at = "none",
           after[t].at = "none" /\ State(t)' = "queued" /\ tasks'[t].prio.level < 5
               /\ t \notin sets'["fenced"] => t \in sets'["eligible"],
           \A u \in Tasks \ {t} : ~Resumed(u)
    PROVE  SlotsSound'
<1>1. Created \subseteq Created' /\ IsFiniteSet(Created)'
  BY StepCreates DEF SlotsSound
<1>2. \A u \in Tasks \ {t} : after[u].at = run[u].at
  BY DEF Step, Passed, Alike
<1>3. Taken(after) \subseteq Residents
  BY <1>2 DEF Taken, Residents, Resident
<1>4. Cardinality(Taken(after)) <= Slots
  <2>1. IsFiniteSet(Residents)
    BY FS_Subset DEF SlotsSound
  <2>2. Cardinality(Taken(after)) <= Cardinality(Residents) /\ IsFiniteSet(Taken(after))
    BY <1>3, <2>1, FS_Subset
  <2>3. Cardinality(Taken(after)) \in Nat /\ Cardinality(Residents) \in Nat /\ Slots \in Nat
    BY <2>1, <2>2, FS_CardinalityType, GatewayAssumption
  <2>. QED  BY <2>2, <2>3 DEF SlotsSound
<1>5. ASSUME NEW u \in Tasks, Queued(u)' PROVE u \in sets'["eligible"]
  <2>1. /\ run'[u].at = "none" /\ State(u)' = "queued" /\ tasks'[u].prio.level < 5
        /\ u \notin sets'["fenced"]
    BY <1>5 DEF Queued, Resident, In
  <2>2. after[u].at = "none"
    <3>1. after[u] \in Runs
      BY DEF Step
    <3>2. CASE Alike(run'[u], after[u])
      BY <2>1, <3>2 DEF Alike
    <3>3. CASE Chosen(u, after)
      BY <3>3 DEF Chosen
    <3>. QED  BY <3>2, <3>3, StepView
  <2>3. CASE u = t
    BY <2>1, <2>2, <2>3
  <2>4. CASE u # t
    <3>1. Passed(u, after[u])
      BY <2>4 DEF Step
    <3>2. Queued(u)
      BY <1>2, <2>1, <2>2, <2>4, <3>1
         DEF Queued, Resident, In, Passed, Stays, RowKept, FlagsKept, SetNames, State
    <3>3. In(u, "eligible")
      BY <2>4, <3>2 DEF SlotsSound
    <3>. QED  BY <3>1, <3>3 DEF Passed, Stays, FlagsKept, SetNames, In
  <2>. QED  BY <2>3, <2>4
<1>. QED  BY <1>1, <1>3, <1>4, <1>5, ScheduleFills DEF Step, SlotsSound

LEMMA SlotsKept ==
    ASSUME NEW t \in Tasks, NEW after, Step(t, after), SlotsSound, run' = after,
           run[t].at = "none" <=> after[t].at = "none",
           Queued(t)' => Resumed(t)' \/ (Queued(t) /\ ~Resumed(t) /\ In(t, "eligible")'),
           \A u \in Tasks \ {t} : Resumed(u) => Resumed(u)'
    PROVE  SlotsSound'
<1>1. Created \subseteq Created' /\ IsFiniteSet(Created)'
  BY StepCreates DEF SlotsSound
<1>2. \A u \in Tasks \ {t} : after[u].at = run[u].at
  BY DEF Step, Passed, Alike
<1>3. Residents' = Residents
  BY <1>2 DEF Residents, Resident
<1>4. ASSUME NEW u \in Tasks, Queued(u)'
      PROVE  Resumed(u)' \/ (In(u, "eligible")' /\ Cardinality(Residents) >= Slots)
  <2>1. CASE u = t
    BY <1>4, <2>1 DEF SlotsSound
  <2>2. CASE u # t
    <3>1. Passed(u, after[u]) /\ phase' = phase
      BY <2>2 DEF Step
    <3>2. Queued(u)
      BY <1>2, <1>4, <2>2, <3>1
         DEF Queued, Resident, In, Passed, Stays, RowKept, FlagsKept, SetNames, State
    <3>3. Resumed(u) \/ (In(u, "eligible") /\ Cardinality(Residents) >= Slots)
      BY <3>2 DEF SlotsSound
    <3>4. In(u, "eligible")' <=> In(u, "eligible")
      BY <3>1 DEF Passed, Stays, FlagsKept, SetNames, In
    <3>. QED  BY <2>2, <3>3, <3>4
  <2>. QED  BY <2>1, <2>2
<1>. QED  BY <1>1, <1>3, <1>4 DEF SlotsSound

----------------------------------------------------------------------------
(* From a step to the invariant *)

TypesNext == TablesTypeOK' /\ ticket' \in [Clients -> Tickets]
TypedNext ==
    /\ last' \in [Tasks -> Turns] /\ reserved' \in [Tasks -> [Ops -> Nat]]
    /\ sets' \in [SetNames -> SUBSET Tasks] /\ call' \in [Askers -> Calls]

LEMMA InvParts ==
    ASSUME Inv
    PROVE  /\ TypeOK /\ LockSound /\ SlotsSound /\ RoomSound /\ TablesTypeOK
           /\ \A c \in Askers : CallSound(c)
           /\ \A t \in Tasks : TaskSound(t, run[t]) /\ RowFacts(t) /\ run[t] \in Runs
           /\ \A c \in Askers : call[c] \in Calls
           /\ run \in [Tasks -> Runs] /\ call \in [Askers -> Calls]
           /\ sets \in [SetNames -> SUBSET Tasks]
           /\ last \in [Tasks -> Turns] /\ reserved \in [Tasks -> [Ops -> Nat]]
           /\ ticket \in [Clients -> Tickets]
<1>1. GatewayInv /\ \A t \in Tasks : RowFacts(t)
  BY DEF Inv
<1>2. /\ TypeOK /\ LockSound /\ SlotsSound /\ RoomSound
      /\ \A c \in Askers : CallSound(c)
      /\ \A t \in Tasks : TaskSound(t, run[t])
  BY <1>1 DEF GatewayInv
<1>3. /\ TablesTypeOK /\ run \in [Tasks -> Runs] /\ call \in [Askers -> Calls]
      /\ sets \in [SetNames -> SUBSET Tasks]
      /\ last \in [Tasks -> Turns] /\ reserved \in [Tasks -> [Ops -> Nat]]
      /\ ticket \in [Clients -> Tickets]
  BY <1>2 DEF TypeOK
<1>. QED  BY <1>1, <1>2, <1>3

LEMMA Concludes ==
    ASSUME Inv, TypesNext, TypedNext, NEW t \in Tasks, NEW after, Step(t, after),
           LockSound', SlotsSound', RoomSound', \A c \in Askers : CallSound(c)'
    PROVE  GatewayInv'
<1>1. run' \in [Tasks -> Runs]
  BY StepView
<1>2. phase' \in Phases /\ todo' \subseteq Tasks
  BY InvParts DEF Step, TypeOK
<1>3. TypeOK'
  BY <1>1, <1>2 DEF TypesNext, TypedNext, TypeOK
<1>4. \A u \in Tasks : TaskSound(u, run[u])'
  BY InvParts, StepSound
<1>. QED  BY <1>3, <1>4 DEF GatewayInv

(* No step but a _yield's own changes the room a run makes. *)
LEMMA RoomKept ==
    ASSUME NEW t \in Tasks, NEW after, Step(t, after), RoomSound, after[t].room = run[t].room,
           \A u \in Tasks : call'[u].kind # "none" => call[u].kind # "none"
    PROVE  RoomSound'
<1>1. \A u \in Tasks : after[u].room = run[u].room
  BY DEF Step
<1>2. \A u \in Tasks :
         \/ run'[u].room = after[u].room
         \/ phase = "ready" /\ after[u].room = "no" /\ State(u)' # "absent"
  BY StepView
<1>3. phase' = phase
  BY DEF Step
<1>4. \A u \in Tasks : State(u) # "absent" => State(u)' # "absent"
  BY StepCreates DEF Created
<1>. QED  BY <1>1, <1>2, <1>3, <1>4 DEF RoomSound

(* The lock: a step lets go of it, takes it, or passes it on.              *)
LEMMA LockKept ==
    ASSUME NEW t \in Tasks, NEW after, Step(t, after), LockSound,
           phase = "ready" \/ call' = call,
           \/ /\ after[t].at \in Holding => run[t].at \in Holding
              /\ \A c \in Askers : Between(c)' => Between(c)
           \/ LockFree /\ \A c \in Askers : ~Between(c)'
           \/ /\ LockFree /\ after[t].at \notin Holding
              /\ \A c, d \in Askers : Between(c)' /\ Between(d)' => c = d
    PROVE  LockSound'
<1>1. \A u \in Tasks : run'[u].at \in Holding => after[u].at \in Holding
  <2>1. TAKE u \in Tasks
  <2>2. after[u] \in Runs
    BY DEF Step
  <2>3. CASE Alike(run'[u], after[u])
    BY <2>3 DEF Alike
  <2>4. CASE Chosen(u, after)
    <3>1. run'[u].at = "check"
      BY <2>2, <2>4 DEF Chosen, Runs
    <3>. QED  BY <3>1 DEF Holding
  <2>. QED  BY <2>3, <2>4, StepView
<1>2. \A u \in Tasks \ {t} : after[u].at = run[u].at
  BY DEF Step, Passed, Alike
<1>3. phase' # "ready" => \A c \in Askers : call'[c] = Idle
  BY DEF LockSound, Step
<1>4. CASE /\ after[t].at \in Holding => run[t].at \in Holding
           /\ \A c \in Askers : Between(c)' => Between(c)
  <2>1. \A u \in Tasks : run'[u].at \in Holding => run[u].at \in Holding
    BY <1>1, <1>2, <1>4
  <2>. QED  BY <1>3, <1>4, <2>1 DEF LockSound
<1>5. CASE LockFree /\ \A c \in Askers : ~Between(c)'
  <2>1. \A u \in Tasks : run'[u].at \in Holding => u = t
    BY <1>1, <1>2, <1>5 DEF LockFree
  <2>. QED  BY <1>3, <1>5, <2>1 DEF LockSound
<1>6. CASE /\ LockFree /\ after[t].at \notin Holding
           /\ \A c, d \in Askers : Between(c)' /\ Between(d)' => c = d
  <2>1. \A u \in Tasks : run'[u].at \notin Holding
    BY <1>1, <1>2, <1>6 DEF LockFree
  <2>. QED  BY <1>3, <1>6, <2>1 DEF LockSound
<1>. QED  BY <1>4, <1>5, <1>6

(* Requests *)
SameCall(c) ==
    call'[c].kind = call[c].kind /\ call'[c].task = call[c].task /\ call'[c].step = call[c].step

LEMMA CallKept ==
    ASSUME NEW c \in Askers, CallSound(c), SameCall(c), Created \subseteq Created',
           c \in Clients => ticket'[c].task = ticket[c].task
    PROVE  CallSound(c)'
<1>1. \A u \in Tasks : State(u) # "absent" => State(u)' # "absent"
  BY DEF Created
<1>. QED  BY <1>1 DEF CallSound, SameCall

LEMMA IdleCall == Idle \in Calls /\ [Idle EXCEPT !.step = "raised"] \in Calls
BY DEF Idle, Calls, Nowhere, Places

LEMMA RepliedCalls ==
    ASSUME call \in [Askers -> Calls], NEW c \in Askers, NEW idle \in Calls, Replied(c, idle)
    PROVE  /\ call' \in [Askers -> Calls] /\ call'[c] = idle
           /\ \A d \in Askers \ {c} : SameCall(d)
<1>1. call' = [d \in Askers |-> IF d = c THEN idle ELSE [call[d] EXCEPT !.after = @ \ {c}]]
  BY DEF Replied
<1>2. ASSUME NEW d \in Askers
      PROVE  call'[d] \in Calls /\ (d # c => SameCall(d))
  <2>1. call[d] \in Calls
    OBVIOUS
  <2>2. CASE d = c
    BY <1>1, <2>2
  <2>3. CASE d # c
    <3>1. call'[d] = [call[d] EXCEPT !.after = @ \ {c}]
      BY <1>1, <2>3
    <3>2. call'[d] \in Calls
      BY <2>1, <3>1 DEF Calls
    <3>3. SameCall(d)
      BY <2>1, <3>1 DEF Calls, SameCall
    <3>. QED  BY <3>2, <3>3
  <2>. QED  BY <2>2, <2>3
<1>. QED  BY <1>1, <1>2

LEMMA AnsweredCalls ==
    ASSUME Inv, NEW c \in Askers, Answered(c) \/ Rejected(c)
    PROVE  /\ call' \in [Askers -> Calls] /\ call'[c].kind = "none"
           /\ call'[c].step \in {"asked", "raised"}
           /\ \A d \in Askers \ {c} : SameCall(d)
<1>1. PICK idle \in {Idle, [Idle EXCEPT !.step = "raised"]} : Replied(c, idle)
  BY DEF Answered, Rejected
<1>2. /\ idle \in Calls /\ idle.kind = "none" /\ idle.step \in {"asked", "raised"}
  BY <1>1, IdleCall DEF Idle
<1>3. call \in [Askers -> Calls]
  BY InvParts
<1>. QED  BY <1>1, <1>2, <1>3, RepliedCalls

----------------------------------------------------------------------------
(* Workers' sets, and the kinds of step *)

(* Workers' sets *)
LEMMA AddingIs ==
    ASSUME NEW s \in [SetNames -> SUBSET Tasks], NEW name \in SetNames, NEW t \in Tasks
    PROVE  /\ Adding(s, name, t) \in [SetNames -> SUBSET Tasks]
           /\ \A u, n : n \in SetNames =>
                (u \in Adding(s, name, t)[n] <=> u \in s[n] \/ (n = name /\ u = t))
BY DEF Adding

LEMMA DroppingIs ==
    ASSUME NEW s \in [SetNames -> SUBSET Tasks], NEW names, NEW t
    PROVE  /\ Dropping(s, names, t) \in [SetNames -> SUBSET Tasks]
           /\ \A u, n : n \in SetNames =>
                (u \in Dropping(s, names, t)[n] <=> u \in s[n] /\ ~(n \in names /\ u = t))
BY DEF Dropping

SetsOfOthers(t) ==
    /\ sets' \in [SetNames -> SUBSET Tasks]
    /\ \A u, n : u # t /\ n \in SetNames => (u \in sets'[n] <=> u \in sets[n])

LEMMA OthersPassed ==
    ASSUME NEW t \in Tasks, NEW after, Only(t), SetsOfOthers(t),
           \A u \in Tasks \ {t} :
              last'[u] = last[u] /\ reserved'[u] = reserved[u] /\ Alike(after[u], run[u])
    PROVE  \A u \in Tasks \ {t} : Passed(u, after[u])
BY DEF Only, SetsOfOthers, Passed, Stays, FlagsKept

LEMMA TablesStay ==
    ASSUME UNCHANGED tables, NEW t
    PROVE  /\ Only(t) /\ OwnKept(t) /\ RowKept(t)
           /\ State(t)' = State(t) /\ tasks' = tasks /\ park' = park /\ turns' = turns
           /\ resumeTurn' = resumeTurn /\ HasParkRow(t)' = HasParkRow(t)
<1>1. /\ tasks' = tasks /\ park' = park /\ prov' = prov /\ recops' = recops
      /\ turns' = turns /\ resumeTurn' = resumeTurn
  BY DEF tables
<1>2. \A u : Prepared(u)' = Prepared(u)
  BY <1>1 DEF Prepared
<1>. QED  BY <1>1, <1>2 DEF Only, OwnKept, HistoryKept, RowKept, State, HasParkRow

(* A coroutine's step that ends where the coroutine still stands.          *)
LEMMA Advances ==
    ASSUME Inv, TypesNext, NEW t \in Tasks, NEW after, Step(t, after), run' = after,
           after[t].room = run[t].room, last' \in [Tasks -> Turns], reserved' = reserved, sets' \in [SetNames -> SUBSET Tasks],
           UNCHANGED <<call, ticket>>, phase = "ready",
           run[t].at # "none", after[t].at # "none",
           after[t].at \in Holding => run[t].at \in Holding \/ LockFree
    PROVE  GatewayInv'
<1>1. TypedNext
  BY InvParts DEF TypedNext
<1>2. LockSound'
  <2>1. \A c \in Askers : Between(c)' <=> Between(c)
    BY DEF Between
  <2>2. LockFree => \A c \in Askers : ~Between(c)
    BY DEF LockFree, Between
  <2>. QED  BY <2>1, <2>2, InvParts, LockKept
<1>3. SlotsSound'
  <2>1. \A u : Resumed(u)' <=> Resumed(u)
    BY DEF Resumed, Between
  <2>2. ~Queued(t)'
    BY DEF Queued, Resident
  <2>. QED  BY <2>1, <2>2, InvParts, SlotsKept
<1>4. \A c \in Askers : CallSound(c)'
  <2>1. \A c \in Askers : SameCall(c) /\ ticket'[c].task = ticket[c].task
    BY DEF SameCall
  <2>2. Created \subseteq Created'
    BY StepCreates
  <2>. QED  BY <2>1, <2>2, InvParts, CallKept
<1>7. RoomSound'
  BY InvParts, RoomKept
<1>. QED  BY <1>1, <1>2, <1>3, <1>4, <1>7, Concludes

(* A locked step that schedules the free slots. *)
LEMMA Hands ==
    ASSUME Inv, TypesNext, NEW t \in Tasks, NEW after, Step(t, after), Schedule(after),
           after[t].room = run[t].room, last' = last, reserved' = reserved, sets' \in [SetNames -> SUBSET Tasks],
           UNCHANGED <<call, ticket>>, phase = "ready",
           LockFree \/ run[t].at \in Holding, after[t].at \notin Holding,
           run[t].at = "none" => after[t].at = "none",
           after[t].at = "none" /\ State(t)' = "queued" /\ tasks'[t].prio.level < 5
               /\ t \notin sets'["fenced"] => t \in sets'["eligible"]
    PROVE  GatewayInv'
<1>1. TypedNext
  BY InvParts DEF TypedNext
<1>0. \A c \in Askers : ~Between(c)
  BY InvParts DEF LockSound, LockFree, Between
<1>2. LockSound'
  <2>1. \A c \in Askers : Between(c)' <=> Between(c)
    BY DEF Between
  <2>. QED  BY <1>0, <2>1, InvParts, LockKept
<1>3. SlotsSound'
  <2>1. \A u : ~Resumed(u)
    BY <1>0 DEF Resumed
  <2>. QED  BY <2>1, InvParts, SlotsScheduled
<1>4. \A c \in Askers : CallSound(c)'
  <2>1. \A c \in Askers : SameCall(c) /\ ticket'[c].task = ticket[c].task
    BY DEF SameCall
  <2>2. Created \subseteq Created'
    BY StepCreates
  <2>. QED  BY <2>1, <2>2, InvParts, CallKept
<1>7. RoomSound'
  BY InvParts, RoomKept
<1>. QED  BY <1>1, <1>2, <1>3, <1>4, <1>7, Concludes

(* The end of a request: of one that was served, or of the one that is     *)
(* between two transactions.                                               *)
LEMMA Ends ==
    ASSUME Inv, TypesNext, NEW c \in Askers, NEW t \in Tasks, call[c].task = t,
           NEW after, Step(t, after),
           after[t].room = run[t].room, last' = last, reserved' \in [Tasks -> [Ops -> Nat]],
           sets' \in [SetNames -> SUBSET Tasks],
           Answered(c) \/ Rejected(c),
           \A d \in Clients \ {c} : ticket'[d].task = ticket[d].task,
           phase = "ready", LockFree \/ Between(c), after[t].at \notin Holding,
           \/ /\ Schedule(after) /\ (run[t].at = "none" => after[t].at = "none")
              /\ after[t].at = "none" /\ State(t)' = "queued" /\ tasks'[t].prio.level < 5
                    /\ t \notin sets'["fenced"] => t \in sets'["eligible"]
           \/ /\ run' = after /\ (run[t].at = "none" <=> after[t].at = "none")
              /\ Queued(t)' => Queued(t) /\ ~Resumed(t) /\ In(t, "eligible")'
    PROVE  GatewayInv'
<1>1. TypedNext
  BY InvParts, AnsweredCalls DEF TypedNext
<1>0. \A d \in Askers \ {c} : ~Between(d)
  BY InvParts DEF LockSound, LockFree, Between
<1>5. \A d \in Askers : ~Between(d)'
  BY <1>0, AnsweredCalls DEF Between, SameCall
<1>2. LockSound'
  <2>1. LockFree \/ (Between(c) /\ \A u \in Tasks : run[u].at \notin Holding)
    BY InvParts DEF LockSound
  <2>. QED  BY <1>5, <2>1, InvParts, LockKept
<1>6. \A u \in Tasks \ {t} : ~Resumed(u)
  BY <1>0 DEF Resumed
<1>3. SlotsSound'
  <2>1. SlotsSound
    BY InvParts
  <2>2. CASE /\ Schedule(after) /\ (run[t].at = "none" => after[t].at = "none")
             /\ after[t].at = "none" /\ State(t)' = "queued" /\ tasks'[t].prio.level < 5
                   /\ t \notin sets'["fenced"] => t \in sets'["eligible"]
    BY <1>6, <2>1, <2>2, SlotsScheduled
  <2>3. CASE /\ run' = after /\ (run[t].at = "none" <=> after[t].at = "none")
             /\ Queued(t)' => Queued(t) /\ ~Resumed(t) /\ In(t, "eligible")'
    <3>1. \A u \in Tasks \ {t} : Resumed(u) => Resumed(u)'
      BY <1>6
    <3>. QED  BY <2>1, <2>3, <3>1, SlotsKept
  <2>. QED  BY <2>2, <2>3
<1>4. \A d \in Askers : CallSound(d)'
  <2>1. TAKE d \in Askers
  <2>2. CASE d = c
    BY <2>2, AnsweredCalls DEF CallSound
  <2>3. CASE d # c
    <3>1. SameCall(d) /\ Created \subseteq Created'
      BY <2>3, AnsweredCalls, StepCreates
    <3>. QED  BY <2>3, <3>1, InvParts, CallKept
  <2>. QED  BY <2>2, <2>3
<1>7. RoomSound'
  <2>1. \A u \in Tasks : call'[u].kind # "none" => call[u].kind # "none"
    BY AnsweredCalls DEF SameCall, Askers
  <2>. QED  BY <2>1, InvParts, RoomKept
<1>. QED  BY <1>1, <1>2, <1>3, <1>4, <1>7, Concludes

----------------------------------------------------------------------------
(* _run: the launch *)

LEMMA NowOpen ==
    ASSUME Inv, NEW t \in Tasks, run[t].at # "none"
    PROVE  phase = "ready"
BY InvParts DEF TaskSound, StartupSound

LEMMA NothingWritten ==
    ASSUME NoWrite, sets' = sets, sets \in [SetNames -> SUBSET Tasks]
    PROVE  \A t \in Tasks : Only(t) /\ Stays(t) /\ SetsOfOthers(t) /\ State(t)' = State(t)
<1>1. UNCHANGED tables /\ last' = last /\ reserved' = reserved
  BY DEF NoWrite, durable
<1>. QED  BY <1>1, TablesStay DEF Stays, FlagsKept, SetsOfOthers

(* A coroutine that only moves on. *)
LEMMA Moves ==
    ASSUME Inv, TypesNext, NEW t \in Tasks, NEW r \in Runs, run' = [run EXCEPT ![t] = r],
           NoWrite, Serving, UNCHANGED <<sets, call, ticket>>,
           run[t].at # "none", r.at # "none",
           r.at \in Holding => run[t].at \in Holding \/ LockFree,
           r.room = run[t].room, TaskSound(t, r)
    PROVE  GatewayInv'
<1>1. PICK after : after = run'
  OBVIOUS
<1>2. /\ after \in [Tasks -> Runs] /\ after[t] = r
      /\ \A u \in Tasks \ {t} : after[u] = run[u]
  BY <1>1, InvParts
<1>3. /\ Only(t) /\ Stays(t) /\ SetsOfOthers(t) /\ State(t)' = State(t)
  BY NothingWritten, InvParts
<1>4. last' = last /\ reserved' = reserved
  BY DEF NoWrite, durable
<1>5. \A u \in Tasks \ {t} : Passed(u, after[u]) /\ after[u].room = run[u].room
  <2>1. \A u \in Tasks \ {t} : Alike(after[u], run[u])
    BY <1>2 DEF Alike
  <2>. QED  BY <1>2, <1>3, <1>4, <2>1, OthersPassed
<1>6. phase' = phase /\ todo' = todo
  BY DEF Serving
<1>7. TaskSound(t, after[t])'
  <2>1. TaskSound(t, r)'
    BY <1>3, <1>6, StaySound
  <2>. QED  BY <1>2, <2>1
<1>8. Step(t, after)
  BY <1>1, <1>2, <1>3, <1>5, <1>6, <1>7 DEF Step
<1>. QED  BY <1>1, <1>2, <1>4, <1>8, InvParts, NowOpen, Advances

LEMMA CheckSound ==
    ASSUME Inv, TypesNext, NEW t \in Tasks, Check(t)
    PROVE  GatewayInv'
<1>1. PICK kept : kept = IF capture[t].exec = run[t].pending THEN run[t].pending ELSE NoExec
  OBVIOUS
<1>2. /\ run[t].at = "check" /\ run[t] \in Runs /\ kept \in {run[t].pending, NoExec}
      /\ TaskSound(t, run[t]) /\ RowFacts(t)
  BY <1>1, InvParts DEF Check, At
<1>3. PICK r : r = [run[t] EXCEPT !.at = "gate", !.exec = kept, !.pending = kept,
                                  !.fenced = (kept # NoExec)]
  OBVIOUS
<1>4. /\ r.at = "gate" /\ r.exec = kept /\ r.pending = kept /\ r.fenced = (kept # NoExec)
      /\ r.out = run[t].out /\ r.point = run[t].point /\ r \in Runs /\ r.room = run[t].room
  BY <1>2, <1>3 DEF Runs, Places
<1>5. run' = [run EXCEPT ![t] = r]
  BY <1>1, <1>3, InvParts DEF Check
<1>6. kept # NoExec => prov[t].exec = kept /\ ~tasks[t].parkedLast
  BY <1>1, <1>2 DEF RowFacts, TaskSound, RunSound, PastSound
<1>7. RunSound(t, r)
  BY <1>1, <1>2, <1>4, <1>6 DEF TaskSound, RunSound, Early, Late
<1>8. FlagsSound(t, r)
  BY <1>2, <1>4 DEF TaskSound, FlagsSound, Late
<1>9. PastSound(t, r)
  BY <1>2, <1>4 DEF TaskSound, PastSound
<1>10. OpenSound(t, r)
  BY <1>2, <1>4 DEF TaskSound, OpenSound, Early
<1>11. StartupSound(t, r)
  BY <1>2, NowOpen DEF StartupSound
<1>12. TaskSound(t, r)
  BY <1>7, <1>8, <1>9, <1>10, <1>11 DEF TaskSound
<1>13. NoWrite /\ Serving /\ UNCHANGED <<sets, call, ticket>>
  BY DEF Check
<1>. QED  BY <1>2, <1>4, <1>5, <1>12, <1>13, Moves DEF Holding

(* A launch goes on to its next place, or ends before its turn.            *)
LEMMA LaunchMoves ==
    ASSUME Inv, NEW t \in Tasks, run[t].at \in Early, NEW place \in Early \ {"fenced"}, NEW r,
           r = [run[t] EXCEPT !.at = place],
           place = "build" => run[t].exec # NoExec \/ In(t, "stopping"),
           place \in {"admitted", "starting"} => run[t].exec # NoExec /\ State(t) = "running"
    PROVE  r \in Runs /\ r.at = place /\ r.room = run[t].room /\ TaskSound(t, r)
<1>1. run[t] \in Runs /\ TaskSound(t, run[t]) /\ phase = "ready"
  BY InvParts, NowOpen DEF Early
<1>2. place \in Places /\ place \notin Late /\ place \notin {"none", "turn"}
  BY DEF Early, Late, Places
<1>3. /\ r.at = place /\ r.exec = run[t].exec /\ r.pending = run[t].pending
      /\ r.fenced = run[t].fenced /\ r.out = run[t].out /\ r.point = run[t].point /\ r \in Runs
      /\ r.room = run[t].room
  BY <1>1, <1>2 DEF Runs
<1>4. run[t].at \notin Late /\ run[t].at \notin {"none", "turn"}
  BY DEF Early, Late
<1>5. RunSound(t, r)
  BY <1>1, <1>2, <1>3, <1>4 DEF TaskSound, RunSound
<1>6. FlagsSound(t, r)
  BY <1>1, <1>2, <1>3, <1>4 DEF TaskSound, FlagsSound, Late
<1>7. PastSound(t, r)
  BY <1>1, <1>3 DEF TaskSound, PastSound
<1>8. OpenSound(t, r)
  BY <1>1, <1>2, <1>3, <1>4 DEF TaskSound, OpenSound, Late
<1>9. StartupSound(t, r)
  BY <1>1 DEF StartupSound
<1>. QED  BY <1>3, <1>5, <1>6, <1>7, <1>8, <1>9 DEF TaskSound

LEMMA LaunchEnds ==
    ASSUME Inv, NEW t \in Tasks, run[t].at \in Early,
           NEW out \in {"deferred", "broken", "unstarted", "stopped"}, NEW r,
           r = [run[t] EXCEPT !.at = "closing", !.out = out],
           out = "broken" => run[t].fenced
    PROVE  r \in Runs /\ r.at = "closing" /\ r.room = run[t].room /\ TaskSound(t, r)
<1>1. run[t] \in Runs /\ TaskSound(t, run[t]) /\ phase = "ready"
  BY InvParts, NowOpen DEF Early
<1>3. /\ r.at = "closing" /\ r.exec = run[t].exec /\ r.pending = run[t].pending
      /\ r.fenced = run[t].fenced /\ r.out = out /\ r.point = run[t].point /\ r \in Runs
      /\ r.room = run[t].room
  BY <1>1 DEF Runs, Places, Outs
<1>4. /\ run[t].at \notin Late /\ run[t].at \notin {"none", "turn"}
      /\ "closing" \notin Early /\ "closing" \in Late /\ out \notin TurnOuts
      /\ run[t].out \notin TurnOuts
  BY <1>1 DEF Early, Late, TurnOuts, TaskSound, RunSound
<1>5. RunSound(t, r)
  BY <1>1, <1>3, <1>4 DEF TaskSound, RunSound
<1>6. FlagsSound(t, r)
  BY <1>1, <1>3, <1>4 DEF TaskSound, FlagsSound, Late
<1>7. PastSound(t, r)
  BY <1>1, <1>3 DEF TaskSound, PastSound
<1>8. OpenSound(t, r)
  BY <1>1, <1>3, <1>4 DEF TaskSound, OpenSound, Late
<1>9. StartupSound(t, r)
  BY <1>1 DEF StartupSound
<1>. QED  BY <1>3, <1>5, <1>6, <1>7, <1>8, <1>9 DEF TaskSound

(* The two, as steps that write nothing. *)
LEMMA GoesOn ==
    ASSUME Inv, TypesNext, NEW t \in Tasks, run[t].at \in Early, NEW place \in Early \ {"fenced"},
           run' = Moved(t, place), NoWrite, Serving, UNCHANGED <<sets, call, ticket>>,
           place = "build" => run[t].exec # NoExec \/ In(t, "stopping"),
           place \in {"admitted", "starting"} => run[t].exec # NoExec /\ State(t) = "running",
           place \in Holding => run[t].at \in Holding \/ LockFree
    PROVE  GatewayInv'
<1>1. PICK r : r = [run[t] EXCEPT !.at = place]
  OBVIOUS
<1>2. r \in Runs /\ r.at = place /\ r.room = run[t].room /\ TaskSound(t, r)
  BY <1>1, LaunchMoves
<1>3. run' = [run EXCEPT ![t] = r]
  BY <1>1, InvParts DEF Moved
<1>4. run[t].at # "none" /\ place # "none"
  BY DEF Early
<1>. QED  BY <1>2, <1>3, <1>4, Moves

LEMMA EndsEarly ==
    ASSUME Inv, TypesNext, NEW t \in Tasks, run[t].at \in Early,
           NEW out \in {"deferred", "broken", "unstarted", "stopped"},
           run' = Going(t, "closing", out), NoWrite, Serving, UNCHANGED <<sets, call, ticket>>,
           out = "broken" => run[t].fenced
    PROVE  GatewayInv'
<1>1. PICK r : r = [run[t] EXCEPT !.at = "closing", !.out = out]
  OBVIOUS
<1>2. r \in Runs /\ r.at = "closing" /\ r.room = run[t].room /\ TaskSound(t, r)
  BY <1>1, LaunchEnds
<1>3. run' = [run EXCEPT ![t] = r]
  BY <1>1, InvParts DEF Going
<1>4. run[t].at # "none"
  BY DEF Early
<1>. QED  BY <1>2, <1>3, <1>4, Moves DEF Holding

LEMMA GateSound ==
    ASSUME Inv, TypesNext, NEW t \in Tasks, Gate(t)
    PROVE  GatewayInv'
<1>1. /\ run[t].at = "gate" /\ NoWrite /\ Serving /\ UNCHANGED <<sets, call, ticket>>
      /\ run' = IF State(t) = "parked" THEN Going(t, "closing", "deferred") ELSE Moved(t, "fence")
  BY DEF Gate, At
<1>2. "gate" \in Early /\ "fence" \in Early \ {"fenced"} /\ "fence" \notin Holding
  BY DEF Early, Holding
<1>3. CASE State(t) = "parked"
  BY <1>1, <1>2, <1>3, EndsEarly
<1>4. CASE State(t) # "parked"
  BY <1>1, <1>2, <1>4, GoesOn
<1>. QED  BY <1>3, <1>4

LEMMA FencedSound ==
    ASSUME Inv, TypesNext, NEW t \in Tasks, Fenced(t)
    PROVE  GatewayInv'
<1>1. /\ run[t].at = "fenced" /\ NoWrite /\ Serving /\ UNCHANGED <<sets, call, ticket>>
      /\ \/ run' = Going(t, "closing", "deferred")
         \/ run' = Moved(t, "build")
  BY DEF Fenced, At
<1>2. run[t].at \in Early /\ "build" \in Early \ {"fenced"} /\ "build" \notin Holding
  BY <1>1 DEF Early, Holding
<1>3. run[t].exec # NoExec
  BY <1>1, InvParts DEF TaskSound, RunSound
<1>4. CASE run' = Going(t, "closing", "deferred")
  BY <1>1, <1>2, <1>4, EndsEarly
<1>5. CASE run' = Moved(t, "build")
  BY <1>1, <1>2, <1>3, <1>5, GoesOn
<1>. QED  BY <1>1, <1>4, <1>5

LEMMA LaunchFailsSound ==
    ASSUME Inv, TypesNext, NEW t \in Tasks, LaunchFails(t)
    PROVE  GatewayInv'
<1>1. /\ run[t].at \in Early /\ NoWrite /\ Serving /\ UNCHANGED <<sets, call, ticket>>
      /\ run' = Going(t, "closing", Broken(t))
  BY DEF LaunchFails, Early
<1>2. PICK out : out = Broken(t)
  OBVIOUS
<1>3. /\ out \in {"deferred", "broken", "unstarted", "stopped"}
      /\ out = "broken" => run[t].fenced
  BY <1>2 DEF Broken
<1>. QED  BY <1>1, <1>2, <1>3, EndsEarly

LEMMA Ids ==
    ASSUME IdsLeft
    PROVE  FreshExec \in Execs /\ FreshExec # NoExec /\ FreshOp \in Ops
<1>1. FreshExec \in FreshExecs /\ FreshOp \in FreshOps
  BY DEF IdsLeft, FreshExec, FreshOp
<1>. QED  BY <1>1, TablesAssumption DEF FreshExecs, FreshOps

LEMMA SetsStay ==
    ASSUME Inv, sets' = sets, NEW t \in Tasks
    PROVE  /\ SetsOfOthers(t) /\ FlagsKept(t) /\ \A n : In(t, n)' <=> In(t, n)
           /\ Parks(t)' <=> Parks(t)
BY InvParts DEF SetsOfOthers, FlagsKept, In, Parks

(* A step of a coroutine that writes its task's rows.                      *)
LEMMA Writes ==
    ASSUME Inv, TypesNext, NEW t \in Tasks, NEW r \in Runs, run' = [run EXCEPT ![t] = r],
           Only(t), SetsOfOthers(t), State(t)' # "absent", TaskSound(t, r)', r.room = run[t].room,
           last' \in [Tasks -> Turns], \A u \in Tasks \ {t} : last'[u] = last[u],
           reserved' = reserved, Serving, UNCHANGED <<call, ticket>>,
           run[t].at # "none", r.at # "none",
           r.at \in Holding => run[t].at \in Holding \/ LockFree
    PROVE  GatewayInv'
<1>1. PICK after : after = run'
  OBVIOUS
<1>2. /\ after \in [Tasks -> Runs] /\ after[t] = r
      /\ \A u \in Tasks \ {t} : after[u] = run[u]
  BY <1>1, InvParts
<1>5. \A u \in Tasks \ {t} : Passed(u, after[u]) /\ after[u].room = run[u].room
  <2>1. \A u \in Tasks \ {t} : Alike(after[u], run[u])
    BY <1>2 DEF Alike
  <2>. QED  BY <1>2, <2>1, OthersPassed
<1>6. phase' = phase /\ todo' = todo
  BY DEF Serving
<1>7. TaskSound(t, after[t])'
  BY <1>2
<1>8. Step(t, after)
  BY <1>1, <1>2, <1>5, <1>6, <1>7 DEF Step
<1>. QED  BY <1>1, <1>2, <1>8, InvParts, NowOpen, Advances DEF SetsOfOthers

LEMMA FenceFirstSound ==
    ASSUME Inv, TypesNext, IdsLeft, NEW t \in Tasks, FenceFirst(t)
    PROVE  GatewayInv'
<1>1. /\ run[t].at = "fence" /\ LockFree /\ Serving /\ UNCHANGED <<sets, call, ticket>>
      /\ last' = last /\ reserved' = reserved /\ run[t].at \in Early /\ run[t] \in Runs
      /\ prov[t].first = "never_started"
  BY InvParts DEF FenceFirst, At, RunLock, FirstStart, OwnTables, Early
<1>2. CASE ~MayLaunch(t)
  <2>1. run' = Going(t, "closing", "deferred") /\ NoWrite
    BY <1>1, <1>2 DEF FenceFirst, NoWrite, durable
  <2>. QED  BY <1>1, <2>1, EndsEarly
<1>3. CASE MayLaunch(t)
  <2>1. PICK e \in Execs : e = FreshExec /\ e # NoExec
    BY Ids
  <2>2. PICK g, p : g = Gen(t) /\ p = Op(t)
    OBVIOUS
  <2>3. PICK r : r = [run[t] EXCEPT !.at = "fenced", !.exec = e, !.pending = e, !.fenced = TRUE]
    OBVIOUS
  <2>4. Start(t, g, p, e, NoExec, TRUE) /\ run' = [run EXCEPT ![t] = r]
    BY <1>3, <2>1, <2>2, <2>3, InvParts DEF FenceFirst
  <2>5. /\ Only(t) /\ turns' = turns /\ resumeTurn' = resumeTurn /\ Prepared(t)' = Prepared(t)
        /\ HasParkRow(t)' /\ prov'[t].first = "started" /\ prov'[t].exec = e
        /\ State(t) = "queued" /\ State(t)' = "running"
        /\ tasks'[t].hold = tasks[t].hold /\ tasks'[t].parkedLast = tasks[t].parkedLast
    BY <2>4, InvParts, StartEffect
  <2>6. /\ r.at = "fenced" /\ r.exec = e /\ r.pending = e /\ r.fenced = TRUE
        /\ r.out = run[t].out /\ r.point = run[t].point /\ r \in Runs
        /\ r.room = run[t].room
    BY <1>1, <2>3 DEF Runs, Places
  <2>7. TaskSound(t, run[t]) /\ RowFacts(t) /\ phase = "ready"
    BY <1>1, InvParts, NowOpen
  <2>8. turns[t] = 0 /\ ~tasks[t].parkedLast
    BY <1>1, <2>7 DEF RowFacts, TaskSound, PastSound
  <2>9. SetsOfOthers(t) /\ (\A n : In(t, n)' <=> In(t, n)) /\ (Parks(t)' <=> Parks(t))
    BY <1>1, SetsStay
  <2>10. RunSound(t, r)'
    BY <1>1, <2>5, <2>6, <2>7, <2>8, <2>1 DEF TaskSound, RunSound, Early, Late
  <2>11. FlagsSound(t, r)'
    BY <1>1, <2>6, <2>7, <2>9 DEF TaskSound, FlagsSound, Late
  <2>12. PastSound(t, r)'
    BY <1>1, <2>1, <2>5, <2>6, <2>7, <2>8 DEF TaskSound, PastSound
  <2>13. OpenSound(t, r)'
    BY <1>1, <2>5, <2>6, <2>7, <2>8 DEF TaskSound, OpenSound, MayTurn, Early
  <2>14. StartupSound(t, r)'
    BY <1>1, <2>7 DEF StartupSound, Serving
  <2>15. TaskSound(t, r)'
    BY <2>10, <2>11, <2>12, <2>13, <2>14 DEF TaskSound
  <2>. QED  BY <1>1, <2>4, <2>5, <2>6, <2>9, <2>15, InvParts, Writes
<1>. QED  BY <1>2, <1>3

LEMMA FenceOrdinarySound ==
    ASSUME Inv, TypesNext, IdsLeft, NEW t \in Tasks, FenceOrdinary(t)
    PROVE  GatewayInv'
<1>1. /\ run[t].at = "fence" /\ LockFree /\ Serving /\ UNCHANGED <<sets, call, ticket>>
      /\ last' = last /\ reserved' = reserved /\ run[t].at \in Early /\ run[t] \in Runs
  BY InvParts DEF FenceOrdinary, At, RunLock, OwnTables, Early
<1>2. /\ "build" \in Early \ {"fenced"} /\ "build" \notin Holding
  BY DEF Early, Holding
<1>3. CASE run[t].exec # NoExec \/ In(t, "stopping")
  <2>1. run' = Moved(t, "build") /\ NoWrite
    BY <1>1, <1>3 DEF FenceOrdinary, NoWrite, durable
  <2>. QED  BY <1>1, <1>2, <1>3, <2>1, GoesOn
<1>4. CASE run[t].exec = NoExec /\ ~In(t, "stopping") /\ ~(State(t) = "queued" /\ tasks[t].prio.level < 5)
  <2>1. run' = Going(t, "closing", "deferred") /\ NoWrite
    BY <1>1, <1>4 DEF FenceOrdinary, NoWrite, durable
  <2>. QED  BY <1>1, <2>1, EndsEarly
<1>5. CASE run[t].exec = NoExec /\ ~In(t, "stopping") /\ State(t) = "queued" /\ tasks[t].prio.level < 5
  <2>1. PICK e \in Execs : e = FreshExec /\ e # NoExec
    BY Ids
  <2>3. PICK r : r = [run[t] EXCEPT !.at = "build", !.exec = e]
    OBVIOUS
  <2>4. StartOrdinary(t, e) /\ run' = [run EXCEPT ![t] = r]
    BY <1>5, <2>1, <2>3, InvParts DEF FenceOrdinary
  <2>5. /\ Only(t) /\ turns' = turns /\ resumeTurn' = resumeTurn /\ Prepared(t)' = Prepared(t)
        /\ (HasParkRow(t) => HasParkRow(t)') /\ prov'[t].first # "absent" /\ prov'[t].exec = e
        /\ State(t)' = "running" /\ tasks'[t].hold = "none"
        /\ (tasks'[t].parkedLast => tasks[t].parkedLast /\ ~HasParkRow(t))
    BY <2>4, InvParts, StartOrdinaryEffect
  <2>6. /\ r.at = "build" /\ r.exec = e /\ r.pending = run[t].pending /\ r.fenced = run[t].fenced
        /\ r.out = run[t].out /\ r.point = run[t].point /\ r \in Runs
        /\ r.room = run[t].room
    BY <1>1, <2>3 DEF Runs, Places
  <2>7. TaskSound(t, run[t]) /\ phase = "ready"
    BY <1>1, InvParts, NowOpen
  <2>8. ~tasks'[t].parkedLast
    BY <2>5, <2>7 DEF TaskSound, PastSound
  <2>9. SetsOfOthers(t) /\ (\A n : In(t, n)' <=> In(t, n)) /\ (Parks(t)' <=> Parks(t))
    BY <1>1, SetsStay
  <2>10. RunSound(t, r)'
    BY <1>1, <2>5, <2>6, <2>7, <2>8, <2>1 DEF TaskSound, RunSound, Early, Late
  <2>11. FlagsSound(t, r)'
    BY <1>1, <2>6, <2>7, <2>9 DEF TaskSound, FlagsSound, Late
  <2>12. PastSound(t, r)'
    BY <1>1, <2>1, <2>5, <2>6, <2>7, <2>8 DEF TaskSound, PastSound
  <2>13. OpenSound(t, r)'
    BY <1>1, <2>5, <2>6, <2>7, <2>8 DEF TaskSound, OpenSound, MayTurn, Early
  <2>14. StartupSound(t, r)'
    BY <1>1, <2>7 DEF StartupSound, Serving
  <2>15. TaskSound(t, r)'
    BY <2>10, <2>11, <2>12, <2>13, <2>14 DEF TaskSound
  <2>. QED  BY <1>1, <1>2, <2>4, <2>5, <2>6, <2>9, <2>15, InvParts, Writes
<1>. QED  BY <1>3, <1>4, <1>5

LEMMA RegisterSound ==
    ASSUME Inv, TypesNext, NEW t \in Tasks, Register(t)
    PROVE  GatewayInv'
<1>1. /\ run[t].at = "build" /\ LockFree /\ Serving /\ UNCHANGED <<sets, call, ticket>>
      /\ last' = last /\ reserved' = reserved /\ run[t].at \in Early /\ run[t] \in Runs
  BY InvParts DEF Register, At, RunLock, OwnTables, Early
<1>2. CASE \E out \in {"stopped", "deferred", "broken", "unstarted"} :
             /\ run' = Going(t, "closing", out) /\ UNCHANGED tables
             /\ out = "broken" => run[t].fenced
  <2>1. NoWrite
    BY <1>1, <1>2 DEF NoWrite, durable
  <2>. QED  BY <1>1, <1>2, <2>1, EndsEarly
<1>3. CASE /\ ~In(t, "stopping") /\ State(t) = "running" /\ run' = Moved(t, "admitted")
           /\ UNCHANGED tables
  <2>1. NoWrite /\ "admitted" \in Early \ {"fenced"}
    BY <1>1, <1>3 DEF NoWrite, durable, Early
  <2>2. run[t].exec # NoExec
    BY <1>1, <1>3, InvParts DEF TaskSound, RunSound
  <2>. QED  BY <1>1, <1>3, <2>1, <2>2, GoesOn
<1>4. CASE /\ ~In(t, "stopping") /\ State(t) = "queued" /\ capture[t].exec = run[t].exec
           /\ ContinueRunning(t, Keep) /\ run' = Moved(t, "admitted")
  <2>3. PICK r : r = [run[t] EXCEPT !.at = "admitted"]
    OBVIOUS
  <2>4. run' = [run EXCEPT ![t] = r]
    BY <1>4, <2>3, InvParts DEF Moved
  <2>5. /\ Only(t) /\ OwnKept(t) /\ turns' = turns /\ State(t)' = "running"
        /\ tasks'[t].hold = "none"
    BY <1>4, InvParts, RerunEffect
  <2>6. /\ r.at = "admitted" /\ r.exec = run[t].exec /\ r.pending = run[t].pending
        /\ r.fenced = run[t].fenced /\ r.out = run[t].out /\ r.point = run[t].point /\ r \in Runs
        /\ r.room = run[t].room
    BY <1>1, <2>3 DEF Runs, Places
  <2>7. TaskSound(t, run[t]) /\ phase = "ready"
    BY <1>1, InvParts, NowOpen
  <2>8. /\ prov'[t] = prov[t] /\ Prepared(t)' = Prepared(t) /\ resumeTurn'[t] = resumeTurn[t]
        /\ (HasParkRow(t) => HasParkRow(t)') /\ (tasks'[t].parkedLast => tasks[t].parkedLast)
    BY <2>5 DEF OwnKept, HistoryKept
  <2>9. SetsOfOthers(t) /\ (\A n : In(t, n)' <=> In(t, n)) /\ (Parks(t)' <=> Parks(t))
    BY <1>1, SetsStay
  <2>10. RunSound(t, r)'
    BY <1>1, <1>4, <2>5, <2>6, <2>7, <2>8 DEF TaskSound, RunSound, Early, Late
  <2>11. FlagsSound(t, r)'
    BY <1>1, <2>6, <2>7, <2>9 DEF TaskSound, FlagsSound, Late
  <2>12. PastSound(t, r)'
    BY <1>1, <1>4, <2>5, <2>6, <2>7, <2>8 DEF TaskSound, PastSound
  <2>13. OpenSound(t, r)'
    BY <1>1, <2>5, <2>6, <2>7, <2>8 DEF TaskSound, OpenSound, MayTurn, Early
  <2>14. StartupSound(t, r)'
    BY <1>1, <2>7 DEF StartupSound, Serving
  <2>15. TaskSound(t, r)'
    BY <2>10, <2>11, <2>12, <2>13, <2>14 DEF TaskSound
  <2>. QED  BY <1>1, <2>4, <2>5, <2>6, <2>9, <2>15, InvParts, Writes
<1>5. Broken(t) \in {"broken", "unstarted"} /\ (Broken(t) = "broken" => run[t].fenced)
  BY DEF Broken
<1>. QED  BY <1>2, <1>3, <1>4, <1>5 DEF Register

LEMMA StartTurnSound ==
    ASSUME Inv, TypesNext, NEW t \in Tasks, StartTurn(t)
    PROVE  GatewayInv'
<1>1. /\ run[t].at = "admitted" /\ NoWrite /\ Serving /\ UNCHANGED <<sets, call, ticket>>
      /\ run[t].at \in Early /\ "starting" \in Early \ {"fenced"} /\ run[t].at \in Holding
  BY DEF StartTurn, At, Early, Holding
<1>2. CASE In(t, "stopping")
  BY <1>1, <1>2, EndsEarly DEF StartTurn
<1>3. CASE ~In(t, "stopping")
  <2>1. run' = Moved(t, "starting")
    BY <1>3 DEF StartTurn
  <2>2. run[t].exec # NoExec /\ State(t) = "running"
    BY <1>1, InvParts DEF TaskSound, RunSound
  <2>. QED  BY <1>1, <2>1, <2>2, GoesOn
<1>. QED  BY <1>2, <1>3

LEMMA BeginTurnSound ==
    ASSUME Inv, TypesNext, NEW t \in Tasks, BeginTurn(t)
    PROVE  GatewayInv'
<1>1. /\ run[t].at = "starting" /\ Serving /\ UNCHANGED <<sets, call, ticket>>
      /\ run[t].at \in Early /\ run[t] \in Runs
      /\ run' = [run EXCEPT ![t].at = "turn", ![t].pending = NoExec]
      /\ last' = [last EXCEPT ![t] = [exec |-> IF run[t].fenced THEN run[t].exec ELSE NoExec,
                                      status |-> "open"]]
      /\ turns' = [turns EXCEPT ![t] = @ + 1]
      /\ UNCHANGED <<tasks, park, prov, recops, resumeTurn, reserved>>
  BY InvParts DEF BeginTurn, At, Early
<1>2. PICK r : r = [run[t] EXCEPT !.at = "turn", !.pending = NoExec]
  OBVIOUS
<1>3. PICK turn : turn = [exec |-> IF run[t].fenced THEN run[t].exec ELSE NoExec, status |-> "open"]
  OBVIOUS
<1>4. /\ run' = [run EXCEPT ![t] = r] /\ last' = [last EXCEPT ![t] = turn]
      /\ turns' = [turns EXCEPT ![t] = @ + 1] /\ resumeTurn' = resumeTurn
      /\ tasks' = tasks /\ park' = park /\ prov' = prov /\ recops' = recops /\ reserved' = reserved
  BY <1>1, <1>2, <1>3, InvParts
<1>5. /\ turn \in Turns /\ turn.status = "open"
  BY <1>1, <1>3 DEF Turns, Runs
<1>6. /\ r.at = "turn" /\ r.exec = run[t].exec /\ r.pending = NoExec
      /\ r.fenced = run[t].fenced /\ r.out = run[t].out /\ r.point = run[t].point /\ r \in Runs
      /\ r.room = run[t].room
  BY <1>1, <1>2 DEF Runs, Places
<1>7. TaskSound(t, run[t]) /\ phase = "ready"
  BY <1>1, InvParts, NowOpen
<1>8. /\ last' \in [Tasks -> Turns] /\ last'[t] = turn /\ \A u \in Tasks \ {t} : last'[u] = last[u]
      /\ turns[t] \in Nat /\ turns'[t] = turns[t] + 1 /\ resumeTurn[t] \in Nat
      /\ \A u \in Tasks \ {t} : turns'[u] = turns[u]
  BY <1>4, <1>5, InvParts DEF TablesTypeOK
<1>9. /\ SetsOfOthers(t) /\ (\A n : In(t, n)' <=> In(t, n)) /\ (Parks(t)' <=> Parks(t))
  BY <1>1, SetsStay
<1>10. /\ \A u : Prepared(u)' = Prepared(u) /\ State(u)' = State(u) /\ HasParkRow(u)' = HasParkRow(u)
  BY <1>4 DEF Prepared, State, HasParkRow
<1>11. Only(t)
  BY <1>4, <1>8, <1>10 DEF Only, RowKept
<1>12. /\ State(t) = "running" /\ ~tasks[t].parkedLast /\ Prepared(t) = {} /\ run[t].out = "none"
  BY <1>1, <1>7 DEF TaskSound, RunSound, OpenSound, Early
<1>13. RunSound(t, r)'
  BY <1>1, <1>4, <1>6, <1>7, <1>8, <1>10, <1>12 DEF TaskSound, RunSound, Early, Late
<1>14. FlagsSound(t, r)'
  BY <1>1, <1>6, <1>7, <1>9 DEF TaskSound, FlagsSound, Late
<1>15. PastSound(t, r)'
  BY <1>4, <1>5, <1>6, <1>7, <1>8, <1>10, <1>12 DEF TaskSound, PastSound
<1>16. OpenSound(t, r)'
  BY <1>6, <1>10, <1>12 DEF OpenSound, Early
<1>17. StartupSound(t, r)'
  BY <1>1, <1>7 DEF StartupSound, Serving
<1>18. TaskSound(t, r)'
  BY <1>13, <1>14, <1>15, <1>16, <1>17 DEF TaskSound
<1>. QED  BY <1>1, <1>4, <1>6, <1>8, <1>9, <1>10, <1>11, <1>12, <1>18, Writes DEF Holding

----------------------------------------------------------------------------
(* _run: the turn *)

(* A worker in its turn: its row runs or is held under the run's execution. *)
LEMMA InTurnFacts ==
    ASSUME Inv, NEW t \in Tasks, run[t].at = "turn"
    PROVE  /\ phase = "ready" /\ run[t] \in Runs /\ TaskSound(t, run[t]) /\ RowFacts(t)
           /\ State(t) \in {"running", "held"} /\ Prepared(t) = {} /\ run[t].out = "none"
           /\ ~tasks[t].parkedLast /\ turns[t] # 0 /\ run[t].exec # NoExec
           /\ ~In(t, "stopping") => In(t, "eligible")
           /\ ~In(t, "quarantined")
<1>1. TaskSound(t, run[t]) /\ run[t] \in Runs /\ RowFacts(t) /\ phase = "ready"
  BY InvParts, NowOpen
<1>. QED  BY <1>1 DEF TaskSound, RunSound, OpenSound, FlagsSound

SameFlags(t) == \A n \in SetNames \ {"winners"} : In(t, n)' <=> In(t, n)

LEMMA InTurnSound ==
    ASSUME Inv, NEW t \in Tasks, run[t].at = "turn", NEW r, r.at = "turn", r.exec = run[t].exec,
           r.fenced = run[t].fenced, r.out = run[t].out, r.pending = run[t].pending,
           OwnKept(t), State(t)' \in {"running", "held"},
           last' = last, reserved' = reserved, phase' = phase, SameFlags(t)
    PROVE  TaskSound(t, r)'
<1>1. /\ phase = "ready" /\ TaskSound(t, run[t])
      /\ Prepared(t) = {} /\ run[t].out = "none" /\ ~tasks[t].parkedLast /\ run[t].exec # NoExec
      /\ turns[t] # 0 /\ State(t) \in {"running", "held"}
  BY InTurnFacts
<1>2. /\ prov'[t] = prov[t] /\ turns'[t] = turns[t] /\ Prepared(t)' = {}
      /\ resumeTurn'[t] = resumeTurn[t] /\ ~tasks'[t].parkedLast
  BY <1>1 DEF OwnKept, HistoryKept
<1>3. /\ In(t, "eligible")' <=> In(t, "eligible")
      /\ In(t, "stopping")' <=> In(t, "stopping")
      /\ In(t, "quarantined")' <=> In(t, "quarantined")
  BY DEF SameFlags, SetNames
<1>4. RunSound(t, r)'
  BY <1>1, <1>2 DEF TaskSound, RunSound, Early, Late
<1>5. FlagsSound(t, r)'
  BY <1>1, <1>3 DEF TaskSound, FlagsSound, Late
<1>6. PastSound(t, r)'
  BY <1>1, <1>2 DEF TaskSound, PastSound
<1>7. OpenSound(t, r)'
  BY <1>1, <1>2 DEF OpenSound, Early
<1>8. StartupSound(t, r)'
  BY <1>1 DEF StartupSound
<1>. QED  BY <1>4, <1>5, <1>6, <1>7, <1>8 DEF TaskSound

(* The winners that a pause selects are busy workers. *)
LEMMA SelectedSets ==
    ASSUME Inv, NEW t \in Tasks, sets' \in {sets, Selected(t)}
    PROVE  SetsOfOthers(t) /\ SameFlags(t) /\ (In(t, "winners")' => In(t, "winners") \/ Busy(t))
<1>0. sets \in [SetNames -> SUBSET Tasks] /\ "winners" \in SetNames
  BY InvParts DEF SetNames
<1>1. CASE sets' = sets
  BY <1>0, <1>1 DEF SetsOfOthers, SameFlags, In
<1>2. CASE sets' = Adding(sets, "winners", t) /\ Busy(t)
  <2>1. /\ sets' \in [SetNames -> SUBSET Tasks]
        /\ \A u, n : n \in SetNames =>
              (u \in sets'[n] <=> u \in sets[n] \/ (n = "winners" /\ u = t))
    BY <1>0, <1>2, AddingIs
  <2>. QED  BY <1>2, <2>1 DEF SetsOfOthers, SameFlags, In
<1>. QED  BY <1>1, <1>2 DEF Selected

(* A worker's step that may move its point and write its rows. *)
LEMMA WorkerSteps ==
    ASSUME Inv, TypesNext, NEW t \in Tasks, run[t].at = "turn",
           NEW point \in Points, run' = [run EXCEPT ![t].point = point],
           Only(t), OwnKept(t), State(t)' \in {"running", "held"}, OwnTables, Serving,
           sets' \in {sets, Selected(t)}, UNCHANGED <<call, ticket>>
    PROVE  GatewayInv'
<1>1. run[t] \in Runs /\ run \in [Tasks -> Runs] /\ last \in [Tasks -> Turns]
  BY InvParts
<1>2. PICK r : r = [run[t] EXCEPT !.point = point]
  OBVIOUS
<1>3. /\ r \in Runs /\ r.at = "turn" /\ r.exec = run[t].exec /\ r.fenced = run[t].fenced
      /\ r.out = run[t].out /\ r.pending = run[t].pending /\ r.room = run[t].room
  BY <1>1, <1>2 DEF Runs
<1>4. run' = [run EXCEPT ![t] = r]
  BY <1>1, <1>2
<1>5. last' = last /\ reserved' = reserved /\ phase' = phase
  BY DEF OwnTables, Serving
<1>6. SetsOfOthers(t) /\ SameFlags(t)
  BY SelectedSets
<1>7. TaskSound(t, r)'
  BY <1>3, <1>5, <1>6, InTurnSound
<1>. QED  BY <1>1, <1>3, <1>4, <1>5, <1>6, <1>7, Writes DEF Holding

LEMMA AskSound ==
    ASSUME Inv, TypesNext, NEW t \in Tasks, Ask(t) \/ CallStarts(t)
    PROVE  GatewayInv'
<1>1. PICK point \in {"asked", "none"} : run' = [run EXCEPT ![t].point = point]
  BY DEF Ask, CallStarts
<1>2. /\ run[t].at = "turn" /\ Serving /\ UNCHANGED <<sets, call, ticket>>
      /\ UNCHANGED tables /\ OwnTables
  BY DEF Ask, CallStarts, Working, Busy, At, NoWrite, durable, OwnTables
<1>3. Only(t) /\ OwnKept(t) /\ State(t)' = State(t)
  BY <1>2, TablesStay
<1>4. State(t) \in {"running", "held"}
  BY <1>2, InTurnFacts
<1>. QED  BY <1>1, <1>2, <1>3, <1>4, WorkerSteps DEF Points

LEMMA HoldCallSound ==
    ASSUME Inv, TypesNext, NEW t \in Tasks, HoldCall(t) \/ ReleaseCall(t) \/ CaptureTool(t)
    PROVE  GatewayInv'
<1>1. /\ run[t].at = "turn" /\ Serving /\ UNCHANGED <<call, ticket>> /\ OwnTables
      /\ sets' \in {sets, Selected(t)}
  BY DEF HoldCall, ReleaseCall, CaptureTool, Working, Busy, At
<1>2. PICK g, p, op, e : g = Gen(t) /\ p = Op(t) /\ op = FreshOp /\ e = run[t].exec
  OBVIOUS
<1>3. CASE HoldCall(t)
  <2>1. Hold(t, g, p, op) /\ run' = [run EXCEPT ![t].point = "held"]
    BY <1>2, <1>3 DEF HoldCall
  <2>2. Only(t) /\ OwnKept(t) /\ State(t)' \in {"running", "held"}
    BY <2>1, InvParts, HoldEffect
  <2>. QED  BY <1>1, <2>1, <2>2, WorkerSteps DEF Points
<1>4. CASE ReleaseCall(t)
  <2>1. Release(t, g, p, op) /\ run' = [run EXCEPT ![t].point = "released"]
    BY <1>2, <1>4 DEF ReleaseCall
  <2>2. Only(t) /\ OwnKept(t) /\ State(t)' \in {"running", "held"}
    BY <2>1, InvParts, ReleaseEffect
  <2>. QED  BY <1>1, <2>1, <2>2, WorkerSteps DEF Points
<1>5. CASE CaptureTool(t)
  <2>1. MarkIncomplete(t, g, p, e) /\ run' = run
    BY <1>2, <1>5 DEF CaptureTool
  <2>2. Only(t) /\ OwnKept(t) /\ State(t)' \in {"running", "held"}
    BY <2>1, InvParts, MarkIncompleteEffect
  <2>3. PICK point : point = run[t].point
    OBVIOUS
  <2>4. point \in Points /\ run' = [run EXCEPT ![t].point = point]
    BY <2>1, <2>3, InvParts DEF Runs
  <2>. QED  BY <1>1, <2>2, <2>4, WorkerSteps
<1>. QED  BY <1>3, <1>4, <1>5

LEMMA TurnEndsSound ==
    ASSUME Inv, TypesNext, NEW t \in Tasks, TurnEnds(t)
    PROVE  GatewayInv'
<1>1. /\ run[t].at = "turn" /\ Serving /\ UNCHANGED <<tables, reserved, sets, call, ticket>>
  BY DEF TurnEnds, Busy, At
<1>2. PICK out \in TurnOuts :
         /\ In(t, "winners") => out = "cancelled"
         /\ run' = [run EXCEPT ![t].at = "closing", ![t].out = out]
         /\ last' = [last EXCEPT ![t].status = IF In(t, "winners") THEN "parked" ELSE out]
  BY DEF TurnEnds
<1>3. /\ phase = "ready" /\ TaskSound(t, run[t]) /\ run[t] \in Runs
      /\ Prepared(t) = {} /\ run[t].out = "none" /\ ~tasks[t].parkedLast /\ turns[t] # 0
      /\ State(t) \in {"running", "held"} /\ ~In(t, "quarantined")
      /\ last \in [Tasks -> Turns]
  BY <1>1, InTurnFacts, InvParts
<1>4. PICK r : r = [run[t] EXCEPT !.at = "closing", !.out = out]
  OBVIOUS
<1>5. PICK turn : turn = [last[t] EXCEPT !.status = IF In(t, "winners") THEN "parked" ELSE out]
  OBVIOUS
<1>6. /\ r \in Runs /\ r.at = "closing" /\ r.exec = run[t].exec /\ r.fenced = run[t].fenced
      /\ r.out = out /\ r.pending = run[t].pending /\ r.room = run[t].room /\ r.point = run[t].point
  BY <1>3, <1>4 DEF Runs, Places, TurnOuts, Outs
<1>7. turn \in Turns /\ turn.status = IF In(t, "winners") THEN "parked" ELSE out
  BY <1>3, <1>5 DEF Turns, TurnOuts
<1>8. run' = [run EXCEPT ![t] = r] /\ last' = [last EXCEPT ![t] = turn]
  BY <1>2, <1>4, <1>5, InvParts
<1>9. last' \in [Tasks -> Turns] /\ last'[t] = turn /\ \A u \in Tasks \ {t} : last'[u] = last[u]
  BY <1>3, <1>7, <1>8
<1>10. /\ Only(t) /\ OwnKept(t) /\ State(t)' = State(t) /\ tasks' = tasks /\ HasParkRow(t)' = HasParkRow(t)
       /\ RowKept(t)
  BY <1>1, TablesStay
<1>11. SetsOfOthers(t) /\ (\A n : In(t, n)' <=> In(t, n)) /\ (Parks(t)' <=> Parks(t))
  BY <1>1, SetsStay
<1>12. RunSound(t, r)'
  BY <1>3, <1>6, <1>10 DEF RunSound, Early, Late, TurnOuts, TaskSound, RowKept
<1>13. FlagsSound(t, r)'
  BY <1>1, <1>3, <1>6, <1>7, <1>9, <1>11 DEF FlagsSound, Late, TaskSound
<1>14. PastSound(t, r)'
  BY <1>1, <1>2, <1>3, <1>6, <1>7, <1>9, <1>10 DEF PastSound, TaskSound, RowKept, TurnOuts
<1>15. OpenSound(t, r)'
  BY <1>3, <1>6, <1>10 DEF OpenSound, Early, TurnOuts, RowKept
<1>16. StartupSound(t, r)'
  BY <1>1, <1>3 DEF StartupSound, Serving
<1>17. TaskSound(t, r)'
  BY <1>12, <1>13, <1>14, <1>15, <1>16 DEF TaskSound
<1>. QED  BY <1>1, <1>3, <1>6, <1>8, <1>9, <1>10, <1>11, <1>17, Writes DEF Holding

----------------------------------------------------------------------------
(* _run: the end *)

LEMMA CloseSound ==
    ASSUME Inv, TypesNext, NEW t \in Tasks, Close(t)
    PROVE  GatewayInv'
<1>1. /\ run[t].at = "closing" /\ NoWrite /\ Serving /\ UNCHANGED <<sets, call, ticket>>
  BY DEF Close, At
<1>2. PICK place : place = IF Parks(t) THEN "parking" ELSE "settling"
  OBVIOUS
<1>3. PICK r : r = [run[t] EXCEPT !.at = place]
  OBVIOUS
<1>4. run' = [run EXCEPT ![t] = r]
  BY <1>2, <1>3, InvParts DEF Close, Moved
<1>5. TaskSound(t, run[t]) /\ run[t] \in Runs /\ phase = "ready"
  BY <1>1, InvParts, NowOpen
<1>6. /\ r \in Runs /\ r.at = place /\ r.exec = run[t].exec /\ r.fenced = run[t].fenced
      /\ r.out = run[t].out /\ r.pending = run[t].pending /\ r.room = run[t].room /\ r.point = run[t].point
      /\ place \in {"parking", "settling"} /\ (place = "parking" <=> Parks(t))
  BY <1>2, <1>3, <1>5 DEF Runs, Places
<1>7. RunSound(t, r)
  BY <1>1, <1>5, <1>6 DEF TaskSound, RunSound, Early, Late
<1>8. FlagsSound(t, r)
  BY <1>1, <1>5, <1>6 DEF TaskSound, FlagsSound, Late, Parks
<1>9. PastSound(t, r)
  BY <1>5, <1>6 DEF TaskSound, PastSound
<1>10. OpenSound(t, r)
  BY <1>1, <1>5, <1>6 DEF TaskSound, OpenSound, Early
<1>11. StartupSound(t, r)
  BY <1>5 DEF StartupSound
<1>12. TaskSound(t, r)
  BY <1>7, <1>8, <1>9, <1>10, <1>11 DEF TaskSound
<1>. QED  BY <1>1, <1>4, <1>6, <1>12, Moves DEF Holding

LEMMA CloseFailsSound ==
    ASSUME Inv, TypesNext, NEW t \in Tasks, CloseFails(t)
    PROVE  GatewayInv'
<1>1. /\ run[t].at = "closing" /\ NoWrite /\ Serving /\ UNCHANGED <<call, ticket>> /\ Parks(t)
      /\ sets' = Adding(sets, "quarantined", t)
  BY DEF CloseFails, At
<1>3. PICK r : r = [run[t] EXCEPT !.at = "stuck"]
  OBVIOUS
<1>4. run' = [run EXCEPT ![t] = r]
  BY <1>3, InvParts DEF CloseFails, Moved
<1>5. TaskSound(t, run[t]) /\ run[t] \in Runs /\ phase = "ready" /\ last \in [Tasks -> Turns]
  BY <1>1, InvParts, NowOpen
<1>6. /\ r \in Runs /\ r.at = "stuck" /\ r.exec = run[t].exec /\ r.fenced = run[t].fenced
      /\ r.out = run[t].out /\ r.pending = run[t].pending /\ r.room = run[t].room /\ r.point = run[t].point
  BY <1>3, <1>5 DEF Runs, Places
<1>7. UNCHANGED tables /\ last' = last /\ reserved' = reserved
  BY <1>1 DEF NoWrite, durable
<1>8. RowKept(t) /\ Only(t) /\ tasks' = tasks /\ State(t)' = State(t) /\ HasParkRow(t)' = HasParkRow(t)
  BY <1>7, TablesStay
<1>9. /\ sets' \in [SetNames -> SUBSET Tasks]
      /\ \A u, n : n \in SetNames =>
            (u \in sets'[n] <=> u \in sets[n] \/ (n = "quarantined" /\ u = t))
  BY <1>1, InvParts, AddingIs DEF SetNames
<1>10. /\ SetsOfOthers(t) /\ In(t, "quarantined")' /\ In(t, "winners")'
       /\ In(t, "eligible")' <=> In(t, "eligible")
       /\ In(t, "stopping")' <=> In(t, "stopping")
       /\ In(t, "fenced")' <=> In(t, "fenced")
  BY <1>1, <1>9 DEF SetsOfOthers, In, Parks, SetNames
<1>11. RunSound(t, r)'
  BY <1>1, <1>5, <1>6, <1>8 DEF TaskSound, RunSound, Early, Late, RowKept
<1>12. FlagsSound(t, r)'
  BY <1>1, <1>5, <1>6, <1>7, <1>10 DEF TaskSound, FlagsSound, Late, Parks
<1>13. PastSound(t, r)'
  BY <1>5, <1>6, <1>7, <1>8 DEF TaskSound, PastSound, RowKept
<1>14. OpenSound(t, r)'
  BY <1>1, <1>5, <1>6, <1>7, <1>8, <1>10 DEF TaskSound, OpenSound, Early, RowKept, MayTurn
<1>15. StartupSound(t, r)'
  BY <1>1, <1>5 DEF StartupSound, Serving
<1>16. TaskSound(t, r)'
  BY <1>11, <1>12, <1>13, <1>14, <1>15 DEF TaskSound
<1>17. State(t) # "absent"
  BY <1>1, InvParts DEF SlotsSound, Residents, Resident, Created
<1>. QED  BY <1>1, <1>4, <1>5, <1>6, <1>7, <1>8, <1>10, <1>16, <1>17, Writes DEF Holding

(* What a run behind its turn relies on. *)
LEMMA EndingFacts ==
    ASSUME Inv, NEW t \in Tasks, run[t].at \in Late
    PROVE  /\ phase = "ready" /\ run[t] \in Runs /\ TaskSound(t, run[t]) /\ State(t) # "absent"
           /\ run[t].out # "none" /\ run[t].at # "none"
           /\ run[t].at # "intent" => Prepared(t) = {}
           /\ In(t, "winners") => run[t].out \in TurnOuts /\ last[t].status = "parked"
           /\ sets \in [SetNames -> SUBSET Tasks] /\ last \in [Tasks -> Turns]
<1>1. run[t].at # "none" /\ run[t].at # "turn"
  BY DEF Late
<1>2. phase = "ready" /\ run[t] \in Runs /\ TaskSound(t, run[t])
  BY <1>1, InvParts, NowOpen
<1>3. State(t) # "absent"
  BY <1>1, InvParts DEF SlotsSound, Residents, Resident, Created
<1>. QED  BY <1>1, <1>2, <1>3, InvParts DEF TaskSound, RunSound, OpenSound, FlagsSound

LEMMA FinalizeParkSound ==
    ASSUME Inv, TypesNext, NEW t \in Tasks, FinalizePark(t)
    PROVE  GatewayInv'
<1>1. /\ run[t].at = "parking" /\ Serving /\ UNCHANGED <<call, ticket>> /\ last' = last /\ reserved' = reserved
      /\ run[t].at \in Late
  BY DEF FinalizePark, At, OwnTables, Late
<1>2. /\ phase = "ready" /\ run[t] \in Runs /\ TaskSound(t, run[t]) /\ Prepared(t) = {}
      /\ run[t].out \in TurnOuts /\ last[t].status = "parked" /\ run[t].at # "none"
      /\ sets \in [SetNames -> SUBSET Tasks] /\ State(t) # "absent"
  BY <1>1, EndingFacts DEF TaskSound, FlagsSound
<1>3. PICK r : r = [run[t] EXCEPT !.at = "settling"]
  OBVIOUS
<1>4. run' = [run EXCEPT ![t] = r]
  BY <1>3, InvParts DEF FinalizePark, Moved
<1>5. /\ r \in Runs /\ r.at = "settling" /\ r.exec = run[t].exec /\ r.fenced = run[t].fenced
      /\ r.out = run[t].out /\ r.pending = run[t].pending /\ r.room = run[t].room /\ r.point = run[t].point
  BY <1>2, <1>3 DEF Runs, Places
<1>6. CASE In(t, "stopping")
  <2>1. Finish(t, "cancelled") /\ sets' = Dropping(sets, {"eligible", "unavailable"}, t)
    BY <1>6 DEF FinalizePark
  <2>2. /\ Only(t) /\ OwnKept(t) /\ UNCHANGED <<turns, resumeTurn>>
        /\ State(t)' = "cancelled"
    BY <2>1, InvParts, FinishEffect DEF Finish, Terminal
  <2>3. /\ sets' \in [SetNames -> SUBSET Tasks]
        /\ \A u, n : n \in SetNames =>
              (u \in sets'[n] <=> u \in sets[n] /\ ~(n \in {"eligible", "unavailable"} /\ u = t))
    BY <1>2, <2>1, DroppingIs
  <2>4. /\ SetsOfOthers(t) /\ In(t, "stopping")'
        /\ In(t, "quarantined")' <=> In(t, "quarantined")
        /\ In(t, "winners")' <=> In(t, "winners")
    BY <1>6, <2>3 DEF SetsOfOthers, In, SetNames
  <2>5. /\ prov'[t] = prov[t] /\ Prepared(t)' = {} /\ (HasParkRow(t) => HasParkRow(t)')
        /\ (tasks'[t].parkedLast => tasks[t].parkedLast)
    BY <1>2, <2>2 DEF OwnKept, HistoryKept
  <2>6. RunSound(t, r)'
    BY <1>1, <1>2, <1>5, <2>2 DEF TaskSound, RunSound, Early, Late, TurnOuts
  <2>7. FlagsSound(t, r)'
    BY <1>1, <1>2, <1>5, <2>4 DEF TaskSound, FlagsSound, Late, Parks
  <2>8. PastSound(t, r)'
    BY <1>1, <1>2, <1>5, <2>2, <2>5 DEF TaskSound, PastSound
  <2>9. OpenSound(t, r)'
    BY <1>2, <1>5, <2>2, <2>5 DEF OpenSound, Early, TurnOuts
  <2>10. StartupSound(t, r)'
    BY <1>1, <1>2 DEF StartupSound, Serving
  <2>11. TaskSound(t, r)'
    BY <2>6, <2>7, <2>8, <2>9, <2>10 DEF TaskSound
  <2>. QED  BY <1>1, <1>2, <1>4, <1>5, <2>2, <2>4, <2>11, InvParts, Writes DEF Holding
<1>7. CASE ~In(t, "stopping")
  <2>0. PICK g, p, op : g = Gen(t) /\ p = Op(t) /\ op = FreshOp
    OBVIOUS
  <2>1. Park(t, g, p, op) /\ sets' = Dropping(sets, {"unavailable"}, t)
    BY <1>7, <2>0 DEF FinalizePark
  <2>2. /\ Only(t) /\ HistoryKept(t) /\ UNCHANGED <<turns, resumeTurn>>
        /\ State(t)' = "parked" /\ tasks'[t].hold = "parked" /\ HasParkRow(t)'
    BY <2>1, InvParts, ParkEffect
  <2>3. /\ sets' \in [SetNames -> SUBSET Tasks]
        /\ \A u, n : n \in SetNames =>
              (u \in sets'[n] <=> u \in sets[n] /\ ~(n \in {"unavailable"} /\ u = t))
    BY <1>2, <2>1, DroppingIs
  <2>4. /\ SetsOfOthers(t)
        /\ In(t, "stopping")' <=> In(t, "stopping")
        /\ In(t, "eligible")' <=> In(t, "eligible")
        /\ In(t, "quarantined")' <=> In(t, "quarantined")
        /\ In(t, "winners")' <=> In(t, "winners")
    BY <2>3 DEF SetsOfOthers, In, SetNames
  <2>5. prov'[t] = prov[t] /\ Prepared(t)' = {}
    BY <1>2, <2>2 DEF HistoryKept
  <2>6. RunSound(t, r)'
    BY <1>1, <1>2, <1>5, <2>2 DEF TaskSound, RunSound, Early, Late, TurnOuts
  <2>7. FlagsSound(t, r)'
    BY <1>1, <1>2, <1>5, <2>2, <2>4 DEF TaskSound, FlagsSound, Late, Parks
  <2>8. PastSound(t, r)'
    BY <1>1, <1>2, <1>5, <2>2, <2>5 DEF TaskSound, PastSound
  <2>9. OpenSound(t, r)'
    BY <1>2, <1>5, <2>2, <2>5 DEF OpenSound, Early, TurnOuts
  <2>10. StartupSound(t, r)'
    BY <1>1, <1>2 DEF StartupSound, Serving
  <2>11. TaskSound(t, r)'
    BY <2>6, <2>7, <2>8, <2>9, <2>10 DEF TaskSound
  <2>. QED  BY <1>1, <1>2, <1>4, <1>5, <2>2, <2>4, <2>11, InvParts, Writes DEF Holding
<1>. QED  BY <1>6, <1>7

LEMMA FinalizeFailsSound ==
    ASSUME Inv, TypesNext, NEW t \in Tasks, FinalizeFails(t)
    PROVE  GatewayInv'
<1>1. /\ run[t].at = "parking" /\ NoWrite /\ Serving /\ UNCHANGED <<run, call, ticket>>
      /\ sets' = Adding(sets, "unavailable", t) /\ run[t].at \in Late
  BY DEF FinalizeFails, At, Late
<1>2. PICK r : r = run[t]
  OBVIOUS
<1>3. /\ phase = "ready" /\ r \in Runs /\ TaskSound(t, r) /\ State(t) # "absent" /\ run[t].at # "none"
      /\ sets \in [SetNames -> SUBSET Tasks]
  BY <1>1, <1>2, EndingFacts
<1>4. run' = [run EXCEPT ![t] = r]
  BY <1>1, <1>2, InvParts
<1>5. UNCHANGED tables /\ last' = last /\ reserved' = reserved
  BY <1>1 DEF NoWrite, durable
<1>6. RowKept(t) /\ Only(t) /\ tasks' = tasks /\ State(t)' = State(t) /\ HasParkRow(t)' = HasParkRow(t)
  BY <1>5, TablesStay
<1>7. /\ sets' \in [SetNames -> SUBSET Tasks]
      /\ \A u, n : n \in SetNames =>
            (u \in sets'[n] <=> u \in sets[n] \/ (n = "unavailable" /\ u = t))
  BY <1>1, <1>3, AddingIs DEF SetNames
<1>8. /\ SetsOfOthers(t)
      /\ In(t, "quarantined")' <=> In(t, "quarantined")
      /\ In(t, "winners")' <=> In(t, "winners")
      /\ In(t, "eligible")' <=> In(t, "eligible")
      /\ In(t, "stopping")' <=> In(t, "stopping")
      /\ In(t, "fenced")' <=> In(t, "fenced")
  BY <1>7 DEF SetsOfOthers, In, SetNames
<1>11. RunSound(t, r)'
  BY <1>1, <1>2, <1>3, <1>6 DEF TaskSound, RunSound, Early, Late, RowKept
<1>12. FlagsSound(t, r)'
  BY <1>1, <1>2, <1>3, <1>5, <1>8 DEF TaskSound, FlagsSound, Late
<1>13. PastSound(t, r)'
  BY <1>3, <1>5, <1>6 DEF TaskSound, PastSound, RowKept
<1>14. OpenSound(t, r)'
  BY <1>1, <1>2, <1>3, <1>5, <1>6, <1>8 DEF TaskSound, OpenSound, Early, RowKept, MayTurn
<1>15. StartupSound(t, r)'
  BY <1>1, <1>3 DEF StartupSound, Serving
<1>16. TaskSound(t, r)'
  BY <1>11, <1>12, <1>13, <1>14, <1>15 DEF TaskSound
<1>. QED  BY <1>1, <1>2, <1>3, <1>4, <1>5, <1>6, <1>8, <1>16, InvParts, Writes DEF Holding

LEMMA FinalizeStuckSound ==
    ASSUME Inv, TypesNext, NEW t \in Tasks, FinalizeStuck(t)
    PROVE  GatewayInv'
<1>1. /\ run[t].at = "stuck" /\ Serving /\ UNCHANGED <<run, call, ticket>> /\ last' = last /\ reserved' = reserved
      /\ run[t].at \in Late
  BY DEF FinalizeStuck, At, OwnTables, Late
<1>2. PICK r : r = run[t]
  OBVIOUS
<1>3. /\ phase = "ready" /\ r \in Runs /\ TaskSound(t, r) /\ State(t) # "absent" /\ run[t].at # "none"
      /\ sets \in [SetNames -> SUBSET Tasks] /\ Prepared(t) = {}
      /\ r.out \in TurnOuts /\ last[t].status = "parked" /\ r.at = "stuck" /\ r.at \notin Early
      /\ In(t, "quarantined")
  BY <1>1, <1>2, EndingFacts DEF TaskSound, FlagsSound, Early
<1>4. run' = [run EXCEPT ![t] = r]
  BY <1>1, <1>2, InvParts
<1>5. PICK g, p, op, none : g = Gen(t) /\ p = Op(t) /\ op = FreshOp /\ none = "cancelled"
  OBVIOUS
<1>6. /\ Only(t) /\ OwnKept(t) /\ UNCHANGED <<turns, resumeTurn>>
      /\ State(t)' \in {"cancelled", "interrupted"}
  <2>1. CASE Interrupt(t, g, p, op, TRUE)
    BY <2>1, InvParts, InterruptEffect
  <2>2. CASE GuardedStop(t, g, p, op)
    <3>1. none \in Terminal
      BY <1>5 DEF Terminal
    <3>2. Only(t) /\ OwnKept(t) /\ UNCHANGED <<turns, resumeTurn>> /\ State(t)' = none
      BY <1>5, <2>2, <3>1, InvParts, StopEffect
    <3>. QED  BY <1>5, <3>2
  <2>. QED  BY <1>5, <2>1, <2>2 DEF FinalizeStuck
<1>7. /\ prov'[t] = prov[t] /\ Prepared(t)' = {} /\ (HasParkRow(t) => HasParkRow(t)')
      /\ (tasks'[t].parkedLast => tasks[t].parkedLast)
  BY <1>3, <1>6 DEF OwnKept, HistoryKept
<1>8. /\ SetsOfOthers(t)
      /\ In(t, "quarantined")' <=> In(t, "quarantined")
      /\ In(t, "winners")' <=> In(t, "winners")
      /\ In(t, "stopping")' <=> In(t, "stopping")
      /\ In(t, "eligible")' \/ In(t, "stopping") <=> In(t, "eligible") \/ In(t, "stopping")
  <2>1. CASE sets' = sets
    BY <2>1, SetsStay, <1>1
  <2>2. CASE In(t, "stopping") /\ sets' = Dropping(sets, {"eligible"}, t)
    <3>1. /\ sets' \in [SetNames -> SUBSET Tasks]
          /\ \A u, n : n \in SetNames =>
                (u \in sets'[n] <=> u \in sets[n] /\ ~(n \in {"eligible"} /\ u = t))
      BY <1>3, <2>2, DroppingIs
    <3>. QED  BY <2>2, <3>1 DEF SetsOfOthers, In, SetNames
  <2>. QED  BY <2>1, <2>2 DEF FinalizeStuck
<1>11. RunSound(t, r)'
  BY <1>3, <1>6, <1>7 DEF TaskSound, RunSound, Early, Late
<1>12. FlagsSound(t, r)'
  BY <1>3, <1>1, <1>8 DEF TaskSound, FlagsSound, Late
<1>13. PastSound(t, r)'
  BY <1>1, <1>3, <1>6, <1>7 DEF TaskSound, PastSound
<1>14. OpenSound(t, r)'
  BY <1>3, <1>6, <1>7, <1>8 DEF OpenSound, TurnOuts
<1>15. StartupSound(t, r)'
  BY <1>1, <1>3 DEF StartupSound, Serving
<1>16. TaskSound(t, r)'
  BY <1>11, <1>12, <1>13, <1>14, <1>15 DEF TaskSound
<1>. QED  BY <1>1, <1>2, <1>3, <1>4, <1>6, <1>8, <1>16, InvParts, Writes DEF Holding

LEMMA SettleBrokenSound ==
    ASSUME Inv, TypesNext, NEW t \in Tasks, SettleBroken(t)
    PROVE  GatewayInv'
<1>1. /\ run[t].at = "settling" /\ Serving /\ UNCHANGED <<call, ticket>> /\ last' = last /\ reserved' = reserved
      /\ run[t].at \in Late /\ run[t].out = "broken" /\ LockFree
      /\ sets' = Adding(Dropping(sets, {"eligible"}, t), "fenced", t)
  BY DEF SettleBroken, At, OwnTables, Late, RunLock
<1>2. PICK r : r = [run[t] EXCEPT !.at = "intent"]
  OBVIOUS
<1>3. /\ phase = "ready" /\ run[t] \in Runs /\ TaskSound(t, run[t]) /\ State(t) # "absent" /\ run[t].at # "none"
      /\ sets \in [SetNames -> SUBSET Tasks] /\ ~In(t, "winners")
  BY <1>1, EndingFacts DEF TurnOuts
<1>4. run' = [run EXCEPT ![t] = r]
  BY <1>2, InvParts DEF SettleBroken, Moved
<1>5. /\ r \in Runs /\ r.at = "intent" /\ r.exec = run[t].exec /\ r.fenced = run[t].fenced
      /\ r.out = run[t].out /\ r.pending = run[t].pending /\ r.room = run[t].room /\ r.point = run[t].point
  BY <1>2, <1>3 DEF Runs, Places
<1>6. PICK g, p, e, outcome, yes :
        g = Gen(t) /\ p = Op(t) /\ e = run[t].exec /\ outcome = "interrupted" /\ yes = TRUE
  OBVIOUS
<1>7. TablesTypeOK /\ Prepare(t, g, p, e, outcome, yes, yes, yes)
  BY <1>6, InvParts DEF SettleBroken
<1>8. /\ Only(t) /\ UNCHANGED <<tasks, prov, turns, resumeTurn>> /\ (HasParkRow(t) => HasParkRow(t)')
      /\ \E i : Prepared(t)' = {i} /\ i.outcome = outcome
  BY <1>7, PrepareEffect
<1>9. PICK i : Prepared(t)' = {i} /\ i.outcome = "interrupted"
  BY <1>6, <1>8
<1>10. State(t)' = State(t)
  BY <1>8 DEF State
<1>11. /\ sets' \in [SetNames -> SUBSET Tasks]
       /\ \A u, n : n \in SetNames =>
            (u \in sets'[n] <=> (u \in sets[n] /\ ~(n \in {"eligible"} /\ u = t)) \/ (n = "fenced" /\ u = t))
  <2>1. PICK s : s = Dropping(sets, {"eligible"}, t)
    OBVIOUS
  <2>2. /\ s \in [SetNames -> SUBSET Tasks]
        /\ \A u, n : n \in SetNames => (u \in s[n] <=> u \in sets[n] /\ ~(n \in {"eligible"} /\ u = t))
    BY <1>3, <2>1, DroppingIs
  <2>3. sets' = Adding(s, "fenced", t) /\ "fenced" \in SetNames
    BY <1>1, <2>1 DEF SetNames
  <2>. QED  BY <2>2, <2>3, AddingIs
<1>12. /\ SetsOfOthers(t) /\ In(t, "fenced")' /\ ~In(t, "winners")'
       /\ In(t, "quarantined")' <=> In(t, "quarantined")
       /\ In(t, "stopping")' <=> In(t, "stopping")
  BY <1>3, <1>11 DEF SetsOfOthers, In, SetNames
<1>13. RunSound(t, r)'
  BY <1>1, <1>3, <1>5, <1>8, <1>10 DEF TaskSound, RunSound, Early, Late
<1>14. FlagsSound(t, r)'
  BY <1>1, <1>3, <1>5, <1>12 DEF TaskSound, FlagsSound, Late
<1>15. PastSound(t, r)'
  BY <1>1, <1>3, <1>5, <1>8, <1>9, <1>10 DEF TaskSound, PastSound
<1>16. OpenSound(t, r)'
  BY <1>1, <1>3, <1>5, <1>8, <1>9, <1>10, <1>12 DEF TaskSound, OpenSound, TurnOuts, Early
<1>17. StartupSound(t, r)'
  BY <1>1, <1>3 DEF StartupSound, Serving
<1>18. TaskSound(t, r)'
  BY <1>13, <1>14, <1>15, <1>16, <1>17 DEF TaskSound
<1>. QED  BY <1>1, <1>3, <1>4, <1>5, <1>8, <1>10, <1>12, <1>18, InvParts, Writes

(* The run that is over leaves its slot to _schedule. *)
Emptied(t) == [NoRun EXCEPT !.room = run[t].room, !.yields = run[t].yields]
Vacant(t) == [Emptied(t) EXCEPT !.pending = run[t].pending]

LEMMA VacantRun ==
    ASSUME Inv, NEW t \in Tasks, NEW r, r \in {Emptied(t), Vacant(t)}
    PROVE  /\ r \in Runs /\ r.at = "none" /\ r.exec = NoExec /\ r.fenced = FALSE /\ r.out = "none"
           /\ r.point = "none" /\ r.room = run[t].room
           /\ r.pending = IF r = Emptied(t) THEN NoExec ELSE run[t].pending
<1>1. run[t] \in Runs
  BY InvParts
<1>2. PICK base : base = Emptied(t)
  OBVIOUS
<1>3. /\ base \in Runs /\ base.at = "none" /\ base.exec = NoExec /\ base.fenced = FALSE
      /\ base.out = "none" /\ base.point = "none" /\ base.room = run[t].room /\ base.pending = NoExec
  BY <1>1, <1>2 DEF Emptied, NoRun, Runs, Places, Outs, Points
<1>4. r = base \/ r = [base EXCEPT !.pending = run[t].pending]
  BY <1>2 DEF Vacant
<1>5. CASE r = base
  BY <1>2, <1>3, <1>5
<1>6. CASE r # base /\ r = [base EXCEPT !.pending = run[t].pending]
  BY <1>1, <1>2, <1>3, <1>6 DEF Runs
<1>. QED  BY <1>4, <1>5, <1>6

LEMMA OverIs ==
    ASSUME Inv, NEW t \in Tasks
    PROVE  /\ Over(t) = [run EXCEPT ![t] = Emptied(t)]
           /\ Gone(t) = [run EXCEPT ![t] = Vacant(t)]
<1>1. run \in [Tasks -> Runs]
  BY InvParts
<1>2. Over(t) = [run EXCEPT ![t] = Emptied(t)]
  BY DEF Over, Emptied
<1>3. Gone(t) = [run EXCEPT ![t] = [Emptied(t) EXCEPT !.pending = run[t].pending]]
  BY <1>1, <1>2 DEF Gone
<1>. QED  BY <1>2, <1>3 DEF Vacant

LEMMA Vacates ==
    ASSUME Inv, TypesNext, NEW t \in Tasks, run[t].at # "none", LockFree \/ run[t].at \in Holding,
           NEW r \in Runs, r.at = "none", r.room = run[t].room, Schedule([run EXCEPT ![t] = r]),
           Only(t), SetsOfOthers(t), State(t)' # "absent", TaskSound(t, r)',
           last' = last, reserved' = reserved, Serving, UNCHANGED <<call, ticket>>,
           State(t)' = "queued" /\ ~In(t, "fenced")' => In(t, "eligible")'
    PROVE  GatewayInv'
<1>1. PICK after : after = [run EXCEPT ![t] = r]
  OBVIOUS
<1>2. /\ after \in [Tasks -> Runs] /\ after[t] = r
      /\ \A u \in Tasks \ {t} : after[u] = run[u]
  BY <1>1, InvParts
<1>3. \A u \in Tasks \ {t} : Passed(u, after[u]) /\ after[u].room = run[u].room
  <2>1. \A u \in Tasks \ {t} : Alike(after[u], run[u])
    BY <1>2 DEF Alike
  <2>. QED  BY <1>2, <2>1, OthersPassed
<1>4. phase' = phase /\ todo' = todo /\ phase = "ready"
  BY NowOpen DEF Serving
<1>5. Step(t, after)
  BY <1>1, <1>2, <1>3, <1>4 DEF Step
<1>6. State(t)' = "queued" /\ t \notin sets'["fenced"] => t \in sets'["eligible"]
  BY DEF In
<1>7. sets' \in [SetNames -> SUBSET Tasks]
  BY DEF SetsOfOthers
<1>. QED  BY <1>1, <1>2, <1>4, <1>5, <1>6, <1>7, Hands DEF Holding

LEMMA SettleIntentSound ==
    ASSUME Inv, TypesNext, NEW t \in Tasks, SettleIntent(t)
    PROVE  GatewayInv'
<1>1. /\ run[t].at = "intent" /\ Serving /\ UNCHANGED <<call, ticket>> /\ last' = last /\ reserved' = reserved
      /\ run[t].at \in Late /\ run[t].at \in Holding /\ sets' = Dropping(sets, {"winners"}, t)
  BY DEF SettleIntent, At, OwnTables, Late, Holding
<1>2. /\ phase = "ready" /\ TaskSound(t, run[t]) /\ State(t) # "absent" /\ run[t].at # "none"
      /\ sets \in [SetNames -> SUBSET Tasks]
  BY <1>1, EndingFacts
<1>4. PICK r : r = Emptied(t)
  OBVIOUS
<1>5. /\ r \in Runs /\ r.at = "none" /\ r.exec = NoExec /\ r.fenced = FALSE /\ r.out = "none"
      /\ r.point = "none" /\ r.pending = NoExec /\ r.room = run[t].room
  BY <1>4, VacantRun
<1>6. Schedule([run EXCEPT ![t] = r])
  BY <1>4, OverIs DEF SettleIntent
<1>7. PICK i \in Prepared(t) : Commit(i)
  BY DEF SettleIntent
<1>8. i.outcome = "interrupted" /\ i.task = t /\ \A j \in Prepared(t) : j = i
  BY <1>1, <1>2, <1>7 DEF TaskSound, OpenSound, PastSound, Prepared
<1>9. /\ Only(t) /\ UNCHANGED <<turns, resumeTurn>>
      /\ Prepared(t)' = Prepared(t) \ {i} /\ (HasParkRow(t) => HasParkRow(t)')
      /\ State(t)' = i.outcome /\ tasks'[t].parkedLast = tasks[t].parkedLast
      /\ prov'[t].exec = i.exec /\ prov'[t].first # "absent" /\ i.exec \in Execs
  BY <1>7, <1>8, InvParts, CommitEffect
<1>10. Prepared(t)' = {} /\ prov'[t].exec # NoExec
  BY <1>8, <1>9, TablesAssumption
<1>11. /\ sets' \in [SetNames -> SUBSET Tasks]
       /\ \A u, n : n \in SetNames =>
            (u \in sets'[n] <=> u \in sets[n] /\ ~(n \in {"winners"} /\ u = t))
  BY <1>1, <1>2, DroppingIs
<1>12. /\ SetsOfOthers(t) /\ ~In(t, "winners")'
       /\ In(t, "fenced")' <=> In(t, "fenced")
       /\ In(t, "quarantined")' <=> In(t, "quarantined")
  BY <1>11 DEF SetsOfOthers, In, SetNames
<1>13. RunSound(t, r)'
  BY <1>5 DEF RunSound, Early, Late
<1>14. FlagsSound(t, r)'
  BY <1>1, <1>2, <1>5, <1>12 DEF TaskSound, FlagsSound
<1>15. PastSound(t, r)'
  BY <1>1, <1>2, <1>5, <1>8, <1>9, <1>10 DEF TaskSound, PastSound
<1>16. OpenSound(t, r)'
  BY <1>1, <1>2, <1>5, <1>8, <1>9, <1>10, <1>12 DEF TaskSound, FlagsSound, OpenSound, Early
<1>17. StartupSound(t, r)'
  BY <1>1, <1>2 DEF StartupSound, Serving
<1>18. TaskSound(t, r)'
  BY <1>13, <1>14, <1>15, <1>16, <1>17 DEF TaskSound
<1>19. State(t)' # "queued" /\ State(t)' # "absent"
  BY <1>8, <1>9
<1>. QED  BY <1>1, <1>2, <1>5, <1>6, <1>9, <1>12, <1>18, <1>19, Vacates

LEMMA SettleKeptSound ==
    ASSUME Inv, TypesNext, NEW t \in Tasks, SettleKept(t)
    PROVE  GatewayInv'
<1>1. /\ run[t].at = "settling" /\ Serving /\ UNCHANGED <<call, ticket>> /\ last' = last /\ reserved' = reserved
      /\ run[t].at \in Late /\ LockFree /\ sets' = Dropping(sets, {"winners"}, t)
      /\ ~In(t, "stopping") /\ (run[t].out = "deferred" \/ In(t, "winners"))
  BY DEF SettleKept, At, OwnTables, Late, RunLock
<1>2. /\ phase = "ready" /\ TaskSound(t, run[t]) /\ State(t) # "absent" /\ run[t].at # "none"
      /\ sets \in [SetNames -> SUBSET Tasks] /\ Prepared(t) = {}
  BY <1>1, EndingFacts
<1>4. PICK r : r = Vacant(t)
  OBVIOUS
<1>5. /\ r \in Runs /\ r.at = "none" /\ r.exec = NoExec /\ r.fenced = FALSE /\ r.out = "none"
      /\ r.point = "none" /\ r.pending \in {NoExec, run[t].pending} /\ r.room = run[t].room
  BY <1>4, VacantRun
<1>6. Schedule([run EXCEPT ![t] = r])
  BY <1>4, OverIs DEF SettleKept
<1>7. State(t) # "held" /\ MayTurn(t)
  <2>1. CASE run[t].out = "deferred"
    BY <1>1, <1>2, <2>1 DEF TaskSound, OpenSound, TurnOuts
  <2>2. CASE In(t, "winners")
    BY <1>1, <1>2, <2>2 DEF TaskSound, FlagsSound, Parks, MayTurn
  <2>. QED  BY <1>1, <2>1, <2>2
<1>8. PICK choice : choice = Keep
  OBVIOUS
<1>9. /\ Only(t) /\ OwnKept(t) /\ UNCHANGED <<turns, resumeTurn>>
      /\ State(t)' \notin {"running", "held", "absent"}
      /\ State(t)' = "done" => State(t) = "done"
      /\ State(t)' = "interrupted" => State(t) = "interrupted"
  <2>1. CASE State(t) = "running"
    <3>1. ChangeState(t, choice, "queued")
      BY <1>8, <2>1 DEF SettleKept
    <3>. QED  BY <1>8, <3>1, InvParts, ChangeStateEffect
  <2>2. CASE State(t) # "running"
    <3>1. UNCHANGED tables
      BY <2>2 DEF SettleKept
    <3>. QED  BY <1>2, <1>7, <2>2, <3>1, TablesStay
  <2>. QED  BY <2>1, <2>2
<1>10. /\ prov'[t] = prov[t] /\ Prepared(t)' = {} /\ (HasParkRow(t) => HasParkRow(t)')
       /\ (tasks'[t].parkedLast => tasks[t].parkedLast)
  BY <1>2, <1>9 DEF OwnKept, HistoryKept
<1>11. /\ sets' \in [SetNames -> SUBSET Tasks]
       /\ \A u, n : n \in SetNames =>
            (u \in sets'[n] <=> u \in sets[n] /\ ~(n \in {"winners"} /\ u = t))
  BY <1>1, <1>2, DroppingIs
<1>12. /\ SetsOfOthers(t) /\ ~In(t, "winners")'
       /\ In(t, "fenced")' <=> In(t, "fenced")
       /\ In(t, "eligible")' <=> In(t, "eligible")
       /\ In(t, "quarantined")' <=> In(t, "quarantined")
  BY <1>11 DEF SetsOfOthers, In, SetNames
<1>13. RunSound(t, r)'
  BY <1>2, <1>5, <1>9 DEF RunSound, Early, Late, TaskSound
<1>14. FlagsSound(t, r)'
  BY <1>1, <1>2, <1>5, <1>12 DEF TaskSound, FlagsSound
<1>15. PastSound(t, r)'
  BY <1>1, <1>2, <1>5, <1>9, <1>10 DEF TaskSound, PastSound
<1>16. OpenSound(t, r)'
  BY <1>1, <1>2, <1>5, <1>7, <1>9, <1>10, <1>12 DEF TaskSound, FlagsSound, OpenSound, Early, MayTurn
<1>17. StartupSound(t, r)'
  BY <1>1, <1>2 DEF StartupSound, Serving
<1>18. TaskSound(t, r)'
  BY <1>13, <1>14, <1>15, <1>16, <1>17 DEF TaskSound
<1>19. In(t, "eligible")'
  BY <1>1, <1>2, <1>12 DEF TaskSound, FlagsSound
<1>. QED  BY <1>1, <1>2, <1>5, <1>6, <1>9, <1>12, <1>18, <1>19, Vacates

LEMMA SettleSound ==
    ASSUME Inv, TypesNext, NEW t \in Tasks, Settle(t)
    PROVE  GatewayInv'
<1>1. /\ run[t].at = "settling" /\ Serving /\ UNCHANGED <<call, ticket>> /\ last' = last /\ reserved' = reserved
      /\ run[t].at \in Late /\ LockFree
      /\ sets' = Dropping(sets, {"eligible", "stopping", "pauseReq", "winners"}, t)
  BY DEF Settle, At, OwnTables, Late, RunLock
<1>2. /\ phase = "ready" /\ TaskSound(t, run[t]) /\ State(t) # "absent" /\ run[t].at # "none"
      /\ sets \in [SetNames -> SUBSET Tasks] /\ Prepared(t) = {}
  BY <1>1, EndingFacts
<1>4. PICK r : r = Emptied(t)
  OBVIOUS
<1>5. /\ r \in Runs /\ r.at = "none" /\ r.exec = NoExec /\ r.fenced = FALSE /\ r.out = "none"
      /\ r.point = "none" /\ r.pending = NoExec /\ r.room = run[t].room
  BY <1>4, VacantRun
<1>6. Schedule([run EXCEPT ![t] = r])
  BY <1>4, OverIs DEF Settle
<1>7. PICK to : to = Outcome(t)
  OBVIOUS
<1>8. to \in Terminal /\ (to = "done" => run[t].out = "done")
  BY <1>7 DEF Outcome, Terminal, TurnOuts
<1>9. /\ Only(t) /\ OwnKept(t) /\ UNCHANGED <<turns, resumeTurn>>
      /\ State(t)' \in Terminal
      /\ State(t)' = "done" => State(t) = "done" \/ run[t].out = "done"
  <2>1. CASE Live(t)
    <3>1. Finished(t, to)
      BY <1>7, <2>1 DEF Settle, Finish
    <3>. QED  BY <1>8, <3>1, InvParts, FinishEffect
  <2>2. CASE ~Live(t)
    <3>1. UNCHANGED tables
      BY <2>2 DEF Settle
    <3>2. tasks[t] \in TaskRows
      BY InvParts DEF TablesTypeOK
    <3>3. State(t) \in Terminal
      BY <1>2, <2>2, <3>2 DEF Live, State, TaskRows, States
    <3>. QED  BY <3>1, <3>3, TablesStay
  <2>. QED  BY <2>1, <2>2
<1>10. /\ prov'[t] = prov[t] /\ Prepared(t)' = {} /\ (HasParkRow(t) => HasParkRow(t)')
       /\ (tasks'[t].parkedLast => tasks[t].parkedLast)
  BY <1>2, <1>9 DEF OwnKept, HistoryKept
<1>11. /\ sets' \in [SetNames -> SUBSET Tasks]
       /\ \A u, n : n \in SetNames =>
            (u \in sets'[n] <=>
               u \in sets[n] /\ ~(n \in {"eligible", "stopping", "pauseReq", "winners"} /\ u = t))
  BY <1>1, <1>2, DroppingIs
<1>12. /\ SetsOfOthers(t) /\ ~In(t, "winners")'
       /\ In(t, "quarantined")' <=> In(t, "quarantined")
  BY <1>11 DEF SetsOfOthers, In, SetNames
<1>13. RunSound(t, r)'
  BY <1>5 DEF RunSound, Early, Late
<1>14. FlagsSound(t, r)'
  BY <1>1, <1>2, <1>5, <1>12 DEF TaskSound, FlagsSound
<1>15. PastSound(t, r)'
  BY <1>1, <1>2, <1>5, <1>9, <1>10 DEF TaskSound, PastSound
<1>16. OpenSound(t, r)'
  BY <1>5, <1>9, <1>10 DEF OpenSound, Early, Terminal
<1>17. StartupSound(t, r)'
  BY <1>1, <1>2 DEF StartupSound, Serving
<1>18. TaskSound(t, r)'
  BY <1>13, <1>14, <1>15, <1>16, <1>17 DEF TaskSound
<1>19. State(t)' # "queued" /\ State(t)' # "absent"
  BY <1>9 DEF Terminal
<1>. QED  BY <1>1, <1>2, <1>5, <1>6, <1>9, <1>12, <1>18, <1>19, Vacates

----------------------------------------------------------------------------
(* New and continued tasks, and a retry *)

(* A step of a person under the free lock, which leaves the runs as they are. *)
LEMMA Admits ==
    ASSUME Inv, TypesNext, NEW t \in Tasks, LockFree, Schedule(run), NEW r, r = run[t],
           Only(t), SetsOfOthers(t), State(t)' # "absent", TaskSound(t, r)',
           OwnTables, Serving, UNCHANGED <<call, ticket>>,
           r.at = "none" /\ State(t)' = "queued" /\ tasks'[t].prio.level < 5 /\ ~In(t, "fenced")'
               => In(t, "eligible")'
    PROVE  GatewayInv'
<1>1. PICK after : after = run
  OBVIOUS
<1>2. after \in [Tasks -> Runs] /\ after[t] = r
  BY <1>1, InvParts
<1>3. last' = last /\ reserved' = reserved /\ phase' = phase /\ todo' = todo /\ phase = "ready"
  BY DEF OwnTables, Serving, LockFree
<1>4. \A u \in Tasks \ {t} : Passed(u, after[u]) /\ after[u].room = run[u].room
  <2>1. \A u \in Tasks \ {t} : Alike(after[u], run[u])
    BY <1>1 DEF Alike
  <2>. QED  BY <1>1, <1>3, <2>1, OthersPassed
<1>5. Step(t, after)
  BY <1>1, <1>2, <1>3, <1>4 DEF Step
<1>6. /\ r.at \notin Holding
      /\ r.at = "none" /\ State(t)' = "queued" /\ tasks'[t].prio.level < 5
            /\ t \notin sets'["fenced"] => t \in sets'["eligible"]
  BY DEF In, LockFree
<1>7. sets' \in [SetNames -> SUBSET Tasks]
  BY DEF SetsOfOthers
<1>. QED  BY <1>1, <1>2, <1>3, <1>5, <1>6, <1>7, Hands

LEMMA AbsentFacts ==
    ASSUME Inv, NEW t \in Tasks, State(t) = "absent"
    PROVE  run[t].at = "none" /\ turns[t] = 0 /\ Prepared(t) = {}
BY InvParts DEF SlotsSound, Residents, Resident, Created, RowFacts, TaskSound, PastSound

LEMMA SubmitSound ==
    ASSUME Inv, TypesNext, NEW t \in Tasks, Submit(t)
    PROVE  GatewayInv'
<1>1. /\ LockFree /\ Serving /\ OwnTables /\ UNCHANGED <<call, ticket>> /\ phase = "ready"
      /\ sets' = Adding(sets, "eligible", t) /\ Schedule(run) /\ Create(t, Computed, TRUE)
      /\ last' = last /\ reserved' = reserved /\ phase' = phase
  BY DEF Submit, NewLock, LockFree, OwnTables, Serving
<1>2. PICK r : r = run[t]
  OBVIOUS
<1>3. /\ Only(t) /\ turns' = turns /\ resumeTurn' = resumeTurn /\ Prepared(t)' = Prepared(t)
      /\ State(t) = "absent" /\ State(t)' = "queued"
      /\ ~tasks'[t].parkedLast /\ prov'[t].first = "never_started"
  BY <1>1, InvParts, CreateEffect
<1>4. /\ r.at = "none" /\ turns[t] = 0 /\ Prepared(t) = {} /\ TaskSound(t, r)
      /\ sets \in [SetNames -> SUBSET Tasks] /\ "eligible" \in SetNames
  BY <1>2, <1>3, AbsentFacts, InvParts DEF SetNames
<1>5. /\ sets' \in [SetNames -> SUBSET Tasks]
      /\ \A u, n : n \in SetNames =>
            (u \in sets'[n] <=> u \in sets[n] \/ (n = "eligible" /\ u = t))
  BY <1>1, <1>4, AddingIs
<1>6. /\ SetsOfOthers(t) /\ In(t, "eligible")'
      /\ In(t, "winners")' <=> In(t, "winners")
      /\ In(t, "quarantined")' <=> In(t, "quarantined")
  BY <1>5 DEF SetsOfOthers, In, SetNames
<1>7. RunSound(t, r)'
  BY <1>3, <1>4 DEF TaskSound, RunSound, Early, Late
<1>8. FlagsSound(t, r)'
  BY <1>4, <1>6 DEF TaskSound, FlagsSound, Late
<1>9. PastSound(t, r)'
  BY <1>1, <1>3, <1>4 DEF TaskSound, PastSound
<1>10. OpenSound(t, r)'
  BY <1>3, <1>4 DEF OpenSound, Early, TaskSound, RunSound, MayTurn
<1>11. StartupSound(t, r)'
  BY <1>1 DEF StartupSound
<1>12. TaskSound(t, r)'
  BY <1>7, <1>8, <1>9, <1>10, <1>11 DEF TaskSound
<1>. QED  BY <1>1, <1>2, <1>3, <1>6, <1>12, Admits

LEMMA ContinueSound ==
    ASSUME Inv, TypesNext, NEW t \in Tasks, Continue(t)
    PROVE  GatewayInv'
<1>1. /\ LockFree /\ Serving /\ OwnTables /\ UNCHANGED <<call, ticket>> /\ phase = "ready"
      /\ sets' = Adding(sets, "eligible", t) /\ Schedule(run) /\ Reopen(t, Keep)
      /\ last' = last /\ reserved' = reserved /\ phase' = phase /\ run[t].at = "none"
  BY DEF Continue, NewLock, LockFree, OwnTables, Serving, Resident
<1>2. PICK r : r = run[t]
  OBVIOUS
<1>3. Reserves(t) /\ State(t) \in {"done", "failed", "cancelled"}
  BY <1>1, InvParts, ReopenEffect
<1>4. /\ r.at = "none" /\ TaskSound(t, r) /\ turns[t] \in Nat /\ resumeTurn[t] \in Nat
      /\ sets \in [SetNames -> SUBSET Tasks] /\ "eligible" \in SetNames
      /\ reserved \in [Tasks -> [Ops -> Nat]]
  BY <1>1, <1>2, InvParts DEF SetNames, TablesTypeOK
<1>14. /\ prov'[t] = prov[t] /\ Prepared(t)' = {} /\ turns'[t] = turns[t] /\ ~tasks'[t].parkedLast
       /\ resumeTurn'[t] = turns[t] + 1 /\ State(t)' = "queued"
       /\ \A op \in Ops : reserved[t][op] \in Nat
  BY <1>3, <1>4 DEF Reserves, HistoryKept
<1>15. \A op \in Ops : reserved[t][op] <= turns[t] + 1
  BY <1>4, <1>14 DEF TaskSound, PastSound
<1>5. /\ sets' \in [SetNames -> SUBSET Tasks]
      /\ \A u, n : n \in SetNames =>
            (u \in sets'[n] <=> u \in sets[n] \/ (n = "eligible" /\ u = t))
  BY <1>1, <1>4, AddingIs
<1>6. /\ SetsOfOthers(t) /\ In(t, "eligible")'
      /\ In(t, "winners")' <=> In(t, "winners")
      /\ In(t, "quarantined")' <=> In(t, "quarantined")
  BY <1>5 DEF SetsOfOthers, In, SetNames
<1>7. RunSound(t, r)'
  BY <1>3, <1>4 DEF TaskSound, RunSound, Early, Late, Reserves
<1>8. FlagsSound(t, r)'
  BY <1>4, <1>6 DEF TaskSound, FlagsSound, Late
<1>9. PastSound(t, r)'
  BY <1>1, <1>3, <1>4, <1>14, <1>15 DEF TaskSound, PastSound
<1>10. OpenSound(t, r)'
  BY <1>1, <1>4, <1>14 DEF OpenSound, Early, TaskSound, RunSound, MayTurn
<1>11. StartupSound(t, r)'
  BY <1>1 DEF StartupSound
<1>12. TaskSound(t, r)'
  BY <1>7, <1>8, <1>9, <1>10, <1>11 DEF TaskSound
<1>13. Only(t) /\ State(t)' = "queued"
  BY <1>3 DEF Reserves
<1>. QED  BY <1>1, <1>2, <1>6, <1>12, <1>13, Admits

(* The sets of a task that may run again. *)
LEMMA ReadmittedSets ==
    ASSUME Inv, NEW t \in Tasks, sets' = Adding(Dropping(sets, {"fenced", "pauseReq"}, t), "eligible", t)
    PROVE  /\ SetsOfOthers(t) /\ In(t, "eligible")'
           /\ In(t, "winners")' <=> In(t, "winners")
           /\ In(t, "stopping")' <=> In(t, "stopping")
           /\ In(t, "quarantined")' <=> In(t, "quarantined")
<1>1. PICK s : s = Dropping(sets, {"fenced", "pauseReq"}, t)
  OBVIOUS
<1>2. /\ s \in [SetNames -> SUBSET Tasks]
      /\ \A u, n : n \in SetNames => (u \in s[n] <=> u \in sets[n] /\ ~(n \in {"fenced", "pauseReq"} /\ u = t))
  BY <1>1, InvParts, DroppingIs
<1>3. sets' = Adding(s, "eligible", t) /\ "eligible" \in SetNames
  BY <1>1 DEF SetNames
<1>4. /\ sets' \in [SetNames -> SUBSET Tasks]
      /\ \A u, n : n \in SetNames => (u \in sets'[n] <=> u \in s[n] \/ (n = "eligible" /\ u = t))
  BY <1>2, <1>3, AddingIs
<1>5. \A u, n : n \in SetNames =>
         (u \in sets'[n] <=>
            (u \in sets[n] /\ ~(n \in {"fenced", "pauseReq"} /\ u = t)) \/ (n = "eligible" /\ u = t))
  BY <1>2, <1>4
<1>. QED  BY <1>4, <1>5 DEF SetsOfOthers, In, SetNames

LEMMA RetryResumeSound ==
    ASSUME Inv, TypesNext, NEW t \in Tasks, NEW op \in Ops, RetryResume(t, op)
    PROVE  GatewayInv'
<1>1. /\ LockFree /\ Serving /\ OwnTables /\ UNCHANGED <<call, ticket>> /\ phase = "ready"
      /\ Schedule(run) /\ last' = last /\ reserved' = reserved /\ phase' = phase
      /\ RetryQueues(t, op) \/ State(t) = "queued"
  BY DEF RetryResume, NewLock, LockFree, OwnTables, Serving
<1>2. PICK r : r = run[t]
  OBVIOUS
<1>3. PICK choice : choice = Keep
  OBVIOUS
<1>4. /\ r.at \notin Holding /\ TaskSound(t, r) /\ turns[t] \in Nat /\ resumeTurn[t] \in Nat
      /\ reserved[t][op] \in Nat /\ State(t) \in {"interrupted", "queued"}
  BY <1>1, <1>2, InvParts DEF TablesTypeOK, LockFree, RetryQueues
<1>5. Prepared(t) = {} /\ r.at # "intent"
  BY <1>1, <1>4 DEF TaskSound, OpenSound, Holding
<1>6. /\ Only(t) /\ OwnKept(t) /\ UNCHANGED <<turns, resumeTurn>> /\ State(t)' = "queued"
      /\ tasks'[t].prio.level = tasks[t].prio.level /\ tasks'[t].hold \in {"none", tasks[t].hold}
  <2>1. CASE State(t) = "interrupted"
    <3>1. ChangeState(t, choice, "queued")
      BY <1>3, <2>1 DEF RetryResume
    <3>. QED  BY <1>3, <3>1, InvParts, ChangeStateEffect
  <2>2. CASE State(t) = "queued"
    <3>1. UNCHANGED tables
      BY <2>2 DEF RetryResume
    <3>. QED  BY <2>2, <3>1, TablesStay
  <2>. QED  BY <1>4, <2>1, <2>2
<1>7. /\ prov'[t] = prov[t] /\ Prepared(t)' = {} /\ (HasParkRow(t) => HasParkRow(t)')
      /\ (tasks'[t].parkedLast => tasks[t].parkedLast)
  BY <1>5, <1>6 DEF OwnKept, HistoryKept
<1>8. /\ SetsOfOthers(t)
      /\ In(t, "winners")' <=> In(t, "winners")
      /\ In(t, "stopping")' <=> In(t, "stopping")
      /\ In(t, "quarantined")' <=> In(t, "quarantined")
      /\ In(t, "eligible")' \/ sets' = sets
  BY <1>1, SetsStay, ReadmittedSets DEF RetryResume
<1>9. State(t) = "interrupted" \/ r.at = "none" => MayTurn(t)
  <2>1. CASE State(t) = "interrupted"
    <3>1. turns[t] < reserved[t][op] /\ reserved[t][op] <= resumeTurn[t] /\ resumeTurn[t] <= turns[t] + 1
      BY <1>1, <1>4, <2>1 DEF RetryQueues, TaskSound, PastSound
    <3>. QED  BY <1>4, <3>1 DEF MayTurn
  <2>2. CASE State(t) = "queued" /\ r.at = "none"
    BY <1>1, <1>4, <2>2 DEF TaskSound, OpenSound
  <2>. QED  BY <1>4, <2>1, <2>2
<1>10. RunSound(t, r)'
  BY <1>4, <1>6, <1>7, <1>8 DEF TaskSound, RunSound, Holding, Early
<1>11. FlagsSound(t, r)'
  <2>1. Parks(t)' <=> Parks(t)
    BY <1>8 DEF Parks
  <2>2. r.at # "none" /\ ~In(t, "stopping")' => In(t, "eligible")'
    BY <1>4, <1>5, <1>8 DEF TaskSound, FlagsSound, In
  <2>. QED  BY <1>1, <1>4, <1>5, <1>6, <1>8, <2>1, <2>2 DEF TaskSound, FlagsSound
<1>12. PastSound(t, r)'
  BY <1>1, <1>4, <1>6, <1>7 DEF TaskSound, PastSound
<1>13. MayTurn(t)' <=> MayTurn(t)
  BY <1>1, <1>6 DEF MayTurn
<1>14. OpenSound(t, r)'
  BY <1>1, <1>4, <1>5, <1>6, <1>7, <1>9, <1>13 DEF TaskSound, OpenSound
<1>15. StartupSound(t, r)'
  BY <1>1 DEF StartupSound
<1>16. TaskSound(t, r)'
  BY <1>10, <1>11, <1>12, <1>14, <1>15 DEF TaskSound
<1>17. r.at = "none" /\ tasks'[t].prio.level < 5 /\ ~In(t, "fenced")' => In(t, "eligible")'
  <2>1. CASE sets' # sets
    BY <1>8, <2>1
  <2>2. CASE sets' = sets /\ State(t) = "interrupted"
    BY <1>1, <1>4, <2>2 DEF TaskSound, OpenSound, FlagsSound, In
  <2>3. CASE sets' = sets /\ State(t) = "queued"
    <3>1. ~Resumed(t)
      BY <1>1 DEF Resumed, LockFree, Between
    <3>2. r.at = "none" /\ tasks'[t].prio.level < 5 /\ ~In(t, "fenced")' => Queued(t)
      BY <1>1, <1>2, <1>6, <2>3 DEF Queued, Resident, In
    <3>. QED  BY <2>3, <3>1, <3>2, InvParts DEF SlotsSound, In
  <2>. QED  BY <1>4, <2>1, <2>2, <2>3
<1>. QED  BY <1>1, <1>2, <1>6, <1>8, <1>16, <1>17, Admits

----------------------------------------------------------------------------
(* Requests that begin *)

(* A request that a person or a _yield begins may flag its task. *)
Flagged(t) ==
    /\ SetsOfOthers(t)
    /\ \A n \in SetNames \ {"pauseReq", "stopping"} : In(t, n)' <=> In(t, n)
    /\ In(t, "stopping") => In(t, "stopping")'

LEMMA FlaggedSound ==
    ASSUME NEW t \in Tasks, NEW r, TaskSound(t, r), RowKept(t), Flagged(t),
           last' = last, reserved' = reserved, phase' = phase, todo' = todo
    PROVE  TaskSound(t, r)'
<1>2. /\ State(t)' = State(t) /\ tasks'[t].hold = tasks[t].hold
      /\ tasks'[t].parkedLast = tasks[t].parkedLast
      /\ HasParkRow(t)' <=> HasParkRow(t)
      /\ prov'[t] = prov[t] /\ turns'[t] = turns[t] /\ resumeTurn'[t] = resumeTurn[t]
      /\ Prepared(t)' = Prepared(t)
  BY DEF RowKept, State, HasParkRow
<1>4. /\ In(t, "winners")' <=> In(t, "winners")
      /\ In(t, "quarantined")' <=> In(t, "quarantined")
      /\ In(t, "eligible")' <=> In(t, "eligible")
      /\ In(t, "fenced")' <=> In(t, "fenced")
      /\ In(t, "stopping") => In(t, "stopping")'
  BY DEF Flagged, SetNames
<1>5. Parks(t)' => Parks(t)
  BY <1>4 DEF Parks
<1>6. MayTurn(t)' <=> MayTurn(t)
  BY <1>2 DEF MayTurn
<1>7. Seen(t)' <=> Seen(t)
  BY DEF Seen
<1>8. Live(t)' <=> Live(t)
  BY <1>2 DEF Live
<1>9. RunSound(t, r) /\ FlagsSound(t, r) /\ PastSound(t, r) /\ OpenSound(t, r) /\ StartupSound(t, r)
  BY DEF TaskSound
<1>10. RunSound(t, r)'
  BY <1>2, <1>4, <1>9 DEF RunSound
<1>11. FlagsSound(t, r)'
  BY <1>2, <1>4, <1>5, <1>9 DEF FlagsSound
<1>12. PastSound(t, r)'
  BY <1>2, <1>9 DEF PastSound
<1>13. OpenSound(t, r)'
  BY <1>2, <1>4, <1>6, <1>9 DEF OpenSound
<1>14. StartupSound(t, r)'
  BY <1>2, <1>4, <1>6, <1>7, <1>8, <1>9 DEF StartupSound
<1>. QED  BY <1>10, <1>11, <1>12, <1>13, <1>14 DEF TaskSound

(* A step of a request, or of a _yield, that writes nothing.               *)
LEMMA Asks ==
    ASSUME Inv, TypesNext, NEW c \in Askers, NEW t \in Tasks, phase = "ready",
           NoWrite, Serving, Flagged(t), run' \in [Tasks -> Runs],
           \A u \in Tasks : Alike(run'[u], run[u]) /\ (u # t => run'[u].room = run[u].room),
           call' \in [Askers -> Calls], \A d \in Askers \ {c} : SameCall(d),
           ~Between(c), ~Between(c)', CallSound(c)', RoomSound',
           \A d \in Clients \ {c} : ticket'[d].task = ticket[d].task
    PROVE  GatewayInv'
<1>1. PICK after : after = run'
  OBVIOUS
<1>2. /\ UNCHANGED tables /\ last' = last /\ reserved' = reserved /\ phase' = phase /\ todo' = todo
  BY DEF NoWrite, durable, Serving
<1>3. /\ Only(t) /\ RowKept(t) /\ State(t)' = State(t) /\ tasks' = tasks
      /\ sets' \in [SetNames -> SUBSET Tasks] /\ SetsOfOthers(t)
  BY <1>2, TablesStay DEF Flagged, SetsOfOthers
<1>4. \A u \in Tasks \ {t} : Passed(u, after[u])
  BY <1>1, <1>2, <1>3, OthersPassed
<1>5. TaskSound(t, after[t])'
  <2>1. PICK r, s : r = run[t] /\ s = after[t]
    OBVIOUS
  <2>2. TaskSound(t, r)'
    BY <1>2, <1>3, <2>1, InvParts, FlaggedSound
  <2>3. TaskSound(t, s)'
    BY <1>1, <2>1, <2>2, AlikeSound
  <2>. QED  BY <2>1, <2>3
<1>6. Step(t, after)
  BY <1>1, <1>2, <1>3, <1>4, <1>5 DEF Step
<1>7. TypedNext
  BY <1>2, <1>3, InvParts DEF TypedNext
<1>8. \A d \in Askers : Between(d)' <=> Between(d)
  BY DEF SameCall, Between
<1>9. LockSound'
  <2>1. after[t].at = run[t].at
    BY <1>1 DEF Alike
  <2>. QED  BY <1>6, <1>8, <2>1, InvParts, LockKept
<1>10. \A u : Resumed(u)' <=> Resumed(u)
  BY <1>8 DEF Resumed, SameCall, Between
<1>11. SlotsSound'
  <2>1. after[t].at = run[t].at /\ (In(t, "eligible")' <=> In(t, "eligible"))
        /\ (In(t, "fenced")' <=> In(t, "fenced"))
    BY <1>1 DEF Alike, Flagged, SetNames
  <2>2. Queued(t)' => Queued(t)
    BY <1>1, <1>2, <1>3, <2>1 DEF Queued, Resident
  <2>3. Queued(t)' => Resumed(t)' \/ (Queued(t) /\ ~Resumed(t) /\ In(t, "eligible")')
    BY <1>10, <2>1, <2>2, InvParts DEF SlotsSound
  <2>. QED  BY <1>1, <1>6, <1>10, <2>1, <2>3, InvParts, SlotsKept
<1>12. \A d \in Askers : CallSound(d)'
  <2>1. TAKE d \in Askers
  <2>2. CASE d = c
    BY <2>2
  <2>3. CASE d # c
    <3>1. SameCall(d) /\ Created \subseteq Created'
      BY <1>6, <2>3, StepCreates
    <3>. QED  BY <2>3, <3>1, InvParts, CallKept
  <2>. QED  BY <2>2, <2>3
<1>. QED  BY <1>6, <1>7, <1>9, <1>11, <1>12, Concludes

LEMMA RoomsStay ==
    ASSUME RoomSound, \A u \in Tasks : run'[u].room = run[u].room, UNCHANGED tables, phase' = phase,
           \A u \in Tasks : call'[u].kind # "none" => call[u].kind # "none"
    PROVE  RoomSound'
<1>1. \A u \in Tasks : State(u)' = State(u)
  BY DEF tables, State
<1>. QED  BY <1>1 DEF RoomSound

LEMMA Unflagged ==
    ASSUME Inv, sets' = sets, NEW t \in Tasks
    PROVE  Flagged(t)
BY SetsStay DEF Flagged

(* A step of a request alone. *)
LEMMA AsksAlone ==
    ASSUME Inv, TypesNext, NEW c \in Askers, NEW t \in Tasks, phase = "ready",
           NoWrite, Serving, UNCHANGED <<sets, run>>,
           call' \in [Askers -> Calls], \A d \in Askers \ {c} : SameCall(d),
           c \in Clients \/ (call'[c].kind # "none" => call[c].kind # "none"),
           ~Between(c), ~Between(c)', CallSound(c)',
           \A d \in Clients \ {c} : ticket'[d].task = ticket[d].task
    PROVE  GatewayInv'
<1>1. \A u \in Tasks : Alike(run'[u], run[u]) /\ run'[u].room = run[u].room
  BY DEF Alike
<1>2. UNCHANGED tables /\ phase' = phase
  BY DEF NoWrite, durable, Serving
<1>3. \A u \in Tasks : call'[u].kind # "none" => call[u].kind # "none"
  BY GatewayAssumption DEF SameCall, Askers
<1>4. RoomSound'
  BY <1>1, <1>2, <1>3, InvParts, RoomsStay
<1>5. Flagged(t) /\ run' \in [Tasks -> Runs]
  BY InvParts, Unflagged
<1>. QED  BY <1>1, <1>4, <1>5, Asks

LEMMA BeginsFacts ==
    ASSUME Inv, NEW c \in Askers, NEW t \in Tasks, NEW kind \in {"pause", "resume", "level", "stop"},
           State(t)' # "absent", Begins(c, kind, t)
    PROVE  /\ Flagged(t) /\ call' \in [Askers -> Calls] /\ \A d \in Askers \ {c} : SameCall(d)
           /\ ~Between(c)' /\ CallSound(c)' /\ call'[c].kind = kind
<1>1. /\ call \in [Askers -> Calls] /\ run \in [Tasks -> Runs] /\ sets \in [SetNames -> SUBSET Tasks]
  BY InvParts
<1>2. PICK d : d = [kind |-> kind, task |-> t, ahead |-> Standing, after |-> {b \in Askers : Waits(b)},
                    step |-> IF kind = "resume" /\ In(t, "winners") /\ Resident(t)
                             THEN "waiting" ELSE "asked"]
  OBVIOUS
<1>3. Standing \in [Tasks -> Places]
  BY <1>1 DEF Standing, Runs
<1>4. d \in Calls /\ d.kind = kind /\ d.task = t /\ d.step \in {"waiting", "asked"}
  BY <1>2, <1>3 DEF Calls
<1>5. call' = [call EXCEPT ![c] = d]
  BY <1>2 DEF Begins
<1>6. call' \in [Askers -> Calls] /\ call'[c] = d /\ \A b \in Askers \ {c} : SameCall(b)
  BY <1>1, <1>4, <1>5 DEF SameCall
<1>7. Flagged(t)
  <2>1. CASE sets' = sets
    BY <2>1, Unflagged
  <2>2. ASSUME NEW name \in {"pauseReq", "stopping"}, sets' = Adding(sets, name, t)
        PROVE  Flagged(t)
    <3>1. name \in SetNames
      BY DEF SetNames
    <3>2. /\ sets' \in [SetNames -> SUBSET Tasks]
          /\ \A u, n : n \in SetNames => (u \in sets'[n] <=> u \in sets[n] \/ (n = name /\ u = t))
      BY <1>1, <2>2, <3>1, AddingIs
    <3>. QED  BY <3>2 DEF Flagged, SetsOfOthers, In, SetNames
  <2>3. \/ sets' = sets \/ sets' = Adding(sets, "pauseReq", t) \/ sets' = Adding(sets, "stopping", t)
    BY DEF Begins
  <2>. QED  BY <2>1, <2>2, <2>3
<1>8. CallSound(c)' /\ ~Between(c)'
  BY <1>4, <1>6 DEF CallSound, Between
<1>. QED  BY <1>4, <1>6, <1>7, <1>8

LEMMA RequestSound ==
    ASSUME Inv, TypesNext, NEW c \in Clients, NEW t \in Tasks, NEW kind, Request(c, kind, t)
    PROVE  GatewayInv'
<1>1. /\ phase = "ready" /\ NoWrite /\ Serving /\ ticket' = ticket /\ State(t) # "absent" /\ c \in Askers
      /\ kind \in {"pause", "resume", "level", "stop"} /\ call[c] = Idle /\ Begins(c, kind, t)
      /\ UNCHANGED tables /\ phase' = phase
  BY DEF Request, Askers, NoWrite, durable, Serving
<1>2. ~Between(c)
  BY <1>1 DEF Between, Idle
<1>3. State(t)' # "absent"
  BY <1>1, TablesStay
<1>4. /\ Flagged(t) /\ call' \in [Askers -> Calls] /\ \A d \in Askers \ {c} : SameCall(d)
      /\ ~Between(c)' /\ CallSound(c)'
  BY <1>1, <1>3, BeginsFacts
<1>5. run' = run \/ run' = [run EXCEPT ![t].yields = FALSE]
  BY DEF Request
<1>6. run' \in [Tasks -> Runs] /\ \A u \in Tasks : Alike(run'[u], run[u]) /\ run'[u].room = run[u].room
  <2>1. run \in [Tasks -> Runs] /\ run[t] \in Runs
    BY InvParts
  <2>2. PICK r : r = [run[t] EXCEPT !.yields = FALSE]
    OBVIOUS
  <2>3. r \in Runs /\ Alike(r, run[t]) /\ r.room = run[t].room
    BY <2>1, <2>2 DEF Runs, Alike
  <2>4. run' = run \/ run' = [run EXCEPT ![t] = r]
    BY <1>5, <2>1, <2>2
  <2>. QED  BY <2>1, <2>3, <2>4 DEF Alike
<1>7. \A u \in Tasks : call'[u].kind # "none" => call[u].kind # "none"
  BY <1>4, GatewayAssumption DEF SameCall, Askers
<1>8. RoomSound'
  BY <1>1, <1>6, <1>7, InvParts, RoomsStay
<1>. QED  BY <1>1, <1>2, <1>4, <1>6, <1>8, Asks

LEMMA RecoverSound ==
    ASSUME Inv, TypesNext, NEW c \in Clients, NEW t \in Tasks, Recover(c, t)
    PROVE  GatewayInv'
<1>1. /\ phase = "ready" /\ NoWrite /\ Serving /\ UNCHANGED <<sets, run, ticket>> /\ c \in Askers
      /\ State(t) \in {"interrupted", "parked"} /\ call[c] = Idle /\ UNCHANGED tables
      /\ call' = [call EXCEPT ![c] = [Idle EXCEPT !.kind = "recover", !.task = t, !.step = "read"]]
  BY DEF Recover, NewLock, LockFree, Askers, NoWrite, durable
<1>2. PICK d : d = [Idle EXCEPT !.kind = "recover", !.task = t, !.step = "read"]
  OBVIOUS
<1>3. d \in Calls /\ d.kind = "recover" /\ d.task = t /\ d.step = "read"
  BY <1>2, IdleCall DEF Idle, Calls
<1>4. call' \in [Askers -> Calls] /\ call'[c] = d /\ \A b \in Askers \ {c} : SameCall(b)
  BY <1>1, <1>2, <1>3, InvParts DEF SameCall
<1>5. State(t)' # "absent"
  BY <1>1, TablesStay
<1>6. CallSound(c)' /\ ~Between(c)' /\ ~Between(c)
  BY <1>1, <1>3, <1>4, <1>5 DEF CallSound, Between, Idle
<1>. QED  BY <1>1, <1>4, <1>6, AsksAlone

LEMMA ParkAwaitedSound ==
    ASSUME Inv, TypesNext, NEW c \in Askers, call[c].kind # "none", phase = "ready", ParkAwaited(c)
    PROVE  GatewayInv'
<1>1. /\ call[c].step = "waiting" /\ NoWrite /\ Serving /\ UNCHANGED <<sets, run, ticket>>
      /\ Rejected(c) \/ Rejoins(c)
  BY DEF ParkAwaited, NoWrite, durable
<1>2. PICK t : t = call[c].task
  OBVIOUS
<1>3. CallSound(c) /\ call[c] \in Calls /\ call \in [Askers -> Calls]
  BY InvParts
<1>4. t \in Tasks /\ State(t) # "absent" /\ ~Between(c)
  BY <1>1, <1>2, <1>3 DEF CallSound, Between
<1>5. State(t)' # "absent"
  <2>1. UNCHANGED tables
    BY <1>1 DEF NoWrite, durable
  <2>. QED  BY <1>4, <2>1, TablesStay
<1>6. CASE Rejected(c)
  <2>1. /\ call' \in [Askers -> Calls] /\ call'[c].kind = "none"
        /\ call'[c].step \in {"asked", "raised"} /\ \A b \in Askers \ {c} : SameCall(b)
    BY <1>6, AnsweredCalls
  <2>2. CallSound(c)' /\ ~Between(c)'
    BY <2>1 DEF CallSound, Between
  <2>. QED  BY <1>1, <1>4, <2>1, <2>2, AsksAlone
<1>7. CASE Rejoins(c)
  <2>1. PICK d : d = [call[c] EXCEPT !.step = "asked", !.ahead = Standing,
                                     !.after = {b \in Askers : Waits(b)}]
    OBVIOUS
  <2>2. Standing \in [Tasks -> Places]
    BY InvParts DEF Standing, Runs
  <2>3. d \in Calls /\ d.kind = call[c].kind /\ d.task = t /\ d.step = "asked"
    BY <1>2, <1>3, <2>1, <2>2 DEF Calls
  <2>4. call' \in [Askers -> Calls] /\ call'[c] = d /\ \A b \in Askers \ {c} : SameCall(b)
    BY <1>3, <1>7, <2>1, <2>3 DEF Rejoins, SameCall
  <2>5. call[c].kind # "recover"
    BY <1>1, <1>3 DEF CallSound
  <2>6. CallSound(c)' /\ ~Between(c)'
    BY <1>4, <1>5, <2>3, <2>4, <2>5 DEF CallSound, Between
  <2>. QED  BY <1>1, <1>4, <2>4, <2>6, AsksAlone
<1>. QED  BY <1>1, <1>6, <1>7

LEMMA ReadEvidenceSound ==
    ASSUME Inv, TypesNext, NEW c \in Askers, call[c].kind # "none", phase = "ready", ReadEvidence(c)
    PROVE  GatewayInv'
<1>1. /\ call[c].step = "read" /\ NoWrite /\ Serving /\ UNCHANGED <<sets, run>> /\ UNCHANGED tables
  BY DEF ReadEvidence, NoWrite, durable
<1>2. PICK t : t = call[c].task
  OBVIOUS
<1>3. CallSound(c) /\ call[c] \in Calls /\ call \in [Askers -> Calls] /\ ticket \in [Clients -> Tickets]
  BY InvParts
<1>4. t \in Tasks /\ State(t) # "absent" /\ ~Between(c) /\ c \in Clients /\ call[c].kind = "recover"
  BY <1>1, <1>2, <1>3 DEF CallSound, Between
<1>5. State(t)' # "absent"
  BY <1>1, <1>4, TablesStay
<1>6. CASE Answered(c) /\ ticket' = ticket
  <2>1. /\ call' \in [Askers -> Calls] /\ call'[c].kind = "none"
        /\ call'[c].step \in {"asked", "raised"} /\ \A b \in Askers \ {c} : SameCall(b)
    BY <1>6, AnsweredCalls
  <2>2. CallSound(c)' /\ ~Between(c)'
    BY <2>1 DEF CallSound, Between
  <2>. QED  BY <1>1, <1>4, <1>6, <2>1, <2>2, AsksAlone
<1>7. CASE ~(Answered(c) /\ ticket' = ticket)
  <2>1. PICK d : d = [call[c] EXCEPT !.step = "decided"]
    OBVIOUS
  <2>2. PICK e : e = [task |-> t, gen |-> Gen(t), op |-> Op(t), state |-> State(t),
                      exec |-> prov[t].exec, pending |-> park[t].pending]
    OBVIOUS
  <2>3. call' = [call EXCEPT ![c] = d] /\ ticket' = [ticket EXCEPT ![c] = e]
    BY <1>2, <1>3, <1>7, <2>1, <2>2 DEF ReadEvidence
  <2>4. d \in Calls /\ d.kind = "recover" /\ d.task = t /\ d.step = "decided"
    BY <1>2, <1>3, <1>4, <2>1 DEF Calls
  <2>5. call' \in [Askers -> Calls] /\ call'[c] = d /\ \A b \in Askers \ {c} : SameCall(b)
    BY <1>3, <2>3, <2>4 DEF SameCall
  <2>6. ticket'[c].task = t /\ \A b \in Clients \ {c} : ticket'[b].task = ticket[b].task
    BY <1>3, <1>4, <2>2, <2>3
  <2>7. CallSound(c)' /\ ~Between(c)'
    BY <1>4, <1>5, <2>4, <2>5, <2>6 DEF CallSound, Between
  <2>. QED  BY <1>1, <1>4, <2>5, <2>6, <2>7, AsksAlone
<1>. QED  BY <1>6, <1>7

----------------------------------------------------------------------------
(* _yield *)

(* _yield: it begins when its task is asked to make room, and while it has *)
(* no request open it stands behind none.                                  *)
LEMMA YieldFacts ==
    ASSUME Inv, NEW t \in Tasks, run[t].room # "no", call[t].kind = "none"
    PROVE  phase = "ready" /\ State(t) # "absent" /\ t \in Askers /\ ~Between(t)
BY InvParts DEF RoomSound, CallSound, Between, Askers

LEMMA RoomEndsSound ==
    ASSUME Inv, TypesNext, NEW t \in Tasks, run[t].room # "no", call[t].kind = "none",
           RoomEnds(t), NoWrite, Serving, UNCHANGED ticket
    PROVE  GatewayInv'
<1>1. /\ phase = "ready" /\ State(t) # "absent" /\ t \in Askers /\ ~Between(t)
      /\ UNCHANGED tables /\ phase' = phase
  BY YieldFacts DEF NoWrite, durable, Serving
<1>2. PICK r : r = [run[t] EXCEPT !.room = "no", !.yields = FALSE]
  OBVIOUS
<1>3. run[t] \in Runs /\ run \in [Tasks -> Runs] /\ call \in [Askers -> Calls]
  BY InvParts
<1>4. r \in Runs /\ Alike(r, run[t]) /\ r.room = "no"
  BY <1>2, <1>3 DEF Runs, Rooms, Alike
<1>5. run' = [run EXCEPT ![t] = r]
  BY <1>2, <1>3 DEF RoomEnds
<1>6. /\ run' \in [Tasks -> Runs] /\ run'[t] = r
      /\ \A u \in Tasks : Alike(run'[u], run[u]) /\ (u # t => run'[u].room = run[u].room)
  BY <1>3, <1>4, <1>5 DEF Alike
<1>7. call' \in [Askers -> Calls] /\ call'[t] = Idle /\ \A d \in Askers \ {t} : SameCall(d)
  BY <1>1, <1>3, IdleCall DEF RoomEnds, SameCall
<1>8. ~Between(t)' /\ CallSound(t)'
  BY <1>7 DEF Between, CallSound, Idle
<1>9. RoomSound'
  <2>1. \A u \in Tasks : State(u)' = State(u)
    BY <1>1, TablesStay
  <2>. QED  BY <1>1, <1>4, <1>6, <1>7, <2>1, InvParts, SMTT(30) DEF RoomSound, SameCall, Idle, Askers
<1>10. Flagged(t)
  BY Unflagged DEF RoomEnds
<1>. QED  BY <1>1, <1>6, <1>7, <1>8, <1>9, <1>10, Asks

LEMMA YieldBegins ==
    ASSUME Inv, TypesNext, NEW t \in Tasks, run[t].room # "no", call[t].kind = "none",
           NEW kind \in {"pause", "resume"}, NEW room \in {"pausing", "resuming"},
           Begins(t, kind, t), run' = [run EXCEPT ![t].room = room], NoWrite, Serving, UNCHANGED ticket
    PROVE  GatewayInv'
<1>1. /\ phase = "ready" /\ State(t) # "absent" /\ t \in Askers /\ ~Between(t)
      /\ UNCHANGED tables /\ phase' = phase
  BY YieldFacts DEF NoWrite, durable, Serving
<1>2. PICK r : r = [run[t] EXCEPT !.room = room]
  OBVIOUS
<1>3. run[t] \in Runs /\ run \in [Tasks -> Runs]
  BY InvParts
<1>4. r \in Runs /\ Alike(r, run[t]) /\ r.room = room
  BY <1>2, <1>3 DEF Runs, Rooms, Alike
<1>5. run' = [run EXCEPT ![t] = r]
  BY <1>2, <1>3
<1>6. /\ run' \in [Tasks -> Runs] /\ run'[t] = r
      /\ \A u \in Tasks : Alike(run'[u], run[u]) /\ (u # t => run'[u].room = run[u].room)
  BY <1>3, <1>4, <1>5 DEF Alike
<1>7. State(t)' # "absent"
  BY <1>1, TablesStay
<1>8. /\ Flagged(t) /\ call' \in [Askers -> Calls] /\ \A d \in Askers \ {t} : SameCall(d)
      /\ ~Between(t)' /\ CallSound(t)'
  BY <1>1, <1>7, BeginsFacts
<1>9. RoomSound'
  <2>1. \A u \in Tasks : State(u)' = State(u)
    BY <1>1, TablesStay
  <2>. QED  BY <1>1, <1>4, <1>6, <1>8, <2>1, InvParts DEF RoomSound, SameCall, Askers
<1>. QED  BY <1>1, <1>6, <1>8, <1>9, Asks

LEMMA RoomGiven ==
    ASSUME Inv, TypesNext, NEW t \in Tasks, run[t].room = "pausing", call[t].kind = "none",
           run' = [run EXCEPT ![t].room = "back"], UNCHANGED <<call, sets, ticket>>, NoWrite, Serving
    PROVE  GatewayInv'
<1>1. /\ phase = "ready" /\ State(t) # "absent" /\ t \in Askers /\ ~Between(t)
      /\ UNCHANGED tables /\ phase' = phase
  BY YieldFacts DEF NoWrite, durable, Serving
<1>2. PICK r : r = [run[t] EXCEPT !.room = "back"]
  OBVIOUS
<1>3. run[t] \in Runs /\ run \in [Tasks -> Runs] /\ call \in [Askers -> Calls] /\ CallSound(t)
  BY <1>1, InvParts
<1>4. r \in Runs /\ Alike(r, run[t]) /\ r.room = "back"
  BY <1>2, <1>3 DEF Runs, Rooms, Alike
<1>5. run' = [run EXCEPT ![t] = r]
  BY <1>2, <1>3
<1>6. /\ run' \in [Tasks -> Runs] /\ run'[t] = r
      /\ \A u \in Tasks : Alike(run'[u], run[u]) /\ (u # t => run'[u].room = run[u].room)
  BY <1>3, <1>4, <1>5 DEF Alike
<1>7. call' \in [Askers -> Calls] /\ \A d \in Askers : SameCall(d)
  BY <1>3 DEF SameCall
<1>8. \A u \in Tasks : State(u)' = State(u)
  BY <1>1, TablesStay
<1>9. ~Between(t)' /\ CallSound(t)'
  BY <1>1, <1>3 DEF Between, CallSound
<1>10. RoomSound'
  BY <1>1, <1>4, <1>6, <1>8, InvParts DEF RoomSound
<1>11. Flagged(t)
  BY Unflagged
<1>. QED  BY <1>1, <1>6, <1>7, <1>9, <1>10, <1>11, Asks

LEMMA YieldingSound ==
    ASSUME Inv, TypesNext, NEW t \in Tasks, Yielding(t)
    PROVE  GatewayInv'
<1>1. run[t].room # "no"
  BY DEF Yielding
<1>2. run[t].room \in {"asked", "back"} => call[t].kind = "none"
  BY InvParts DEF RoomSound
<1>3. CASE YieldPauses(t)
  <2>1. /\ run[t].room = "asked" /\ NoWrite /\ Serving /\ UNCHANGED ticket
        /\ RoomEnds(t) \/ (Begins(t, "pause", t) /\ run' = [run EXCEPT ![t].room = "pausing"])
    BY <1>3 DEF YieldPauses
  <2>. QED  BY <1>1, <1>2, <2>1, RoomEndsSound, YieldBegins
<1>4. CASE YieldLooks(t)
  <2>1. /\ run[t].room = "pausing" /\ call[t].kind = "none" /\ NoWrite /\ Serving /\ UNCHANGED ticket
        /\ RoomEnds(t) \/ (run' = [run EXCEPT ![t].room = "back"] /\ UNCHANGED <<call, sets>>)
    BY <1>4 DEF YieldLooks
  <2>. QED  BY <1>1, <2>1, RoomEndsSound, RoomGiven
<1>5. CASE YieldResumes(t)
  <2>1. /\ run[t].room = "back" /\ NoWrite /\ Serving /\ UNCHANGED ticket
        /\ RoomEnds(t) \/ (Begins(t, "resume", t) /\ run' = [run EXCEPT ![t].room = "resuming"])
    BY <1>5 DEF YieldResumes
  <2>. QED  BY <1>1, <1>2, <2>1, RoomEndsSound, YieldBegins
<1>6. CASE YieldOver(t)
  <2>1. /\ call[t].kind = "none" /\ NoWrite /\ Serving /\ UNCHANGED ticket /\ RoomEnds(t)
    BY <1>6 DEF YieldOver
  <2>. QED  BY <1>1, <2>1, RoomEndsSound
<1>. QED  BY <1>3, <1>4, <1>5, <1>6 DEF Yielding

----------------------------------------------------------------------------
(* Requests that have the lock *)

(* A request that has the lock. *)
LEMMA AskerFacts ==
    ASSUME Inv, NEW c \in Askers, call[c].kind # "none", LockFree \/ Between(c)
    PROVE  /\ call[c].task \in Tasks /\ State(call[c].task) # "absent" /\ phase = "ready"
           /\ \A t \in Tasks : run[t].at \notin Holding
           /\ \A d \in Askers \ {c} : ~Between(d)
           /\ \A t \in Tasks : Prepared(t) = {}
<1>1. CallSound(c) /\ LockSound
  BY InvParts
<1>2. phase = "ready"
  BY <1>1 DEF LockSound, Idle
<1>3. \A t \in Tasks : run[t].at \notin Holding
  BY <1>1 DEF LockSound, LockFree
<1>4. \A t \in Tasks : Prepared(t) = {}
  BY <1>2, <1>3, InvParts DEF TaskSound, OpenSound, Holding
<1>. QED  BY <1>1, <1>2, <1>3, <1>4 DEF CallSound, LockSound, LockFree, Between

(* A request that is answered, or refused, and changes nothing.            *)
LEMMA Answers ==
    ASSUME Inv, TypesNext, NEW c \in Askers, call[c].kind # "none", LockFree,
           Answered(c) \/ Rejected(c), NoWrite, Serving, UNCHANGED <<sets, run>>,
           \A d \in Clients \ {c} : ticket'[d].task = ticket[d].task
    PROVE  GatewayInv'
<1>1. call[c].task \in Tasks /\ phase = "ready" /\ ~Between(c)
  BY AskerFacts DEF LockFree, Between
<1>2. /\ call' \in [Askers -> Calls] /\ call'[c].kind = "none"
      /\ call'[c].step \in {"asked", "raised"} /\ \A b \in Askers \ {c} : SameCall(b)
  BY AnsweredCalls
<1>3. CallSound(c)' /\ ~Between(c)'
  BY <1>2 DEF CallSound, Between
<1>. QED  BY <1>1, <1>2, <1>3, AsksAlone

LEMMA RefusedSound ==
    ASSUME Inv, TypesNext, NEW c \in Askers, call[c].kind # "none",
           Unavailable(c) \/ PauseRefused(c) \/ ResumeRefused(c) \/ LevelRefused(c)
    PROVE  GatewayInv'
<1>1. /\ LockFree /\ NoWrite /\ Serving /\ UNCHANGED <<sets, run, ticket>>
      /\ Answered(c) \/ Rejected(c)
  BY DEF Unavailable, PauseRefused, ResumeRefused, LevelRefused, Served
<1>. QED  BY <1>1, Answers

LEMMA RecoverRefusedSound ==
    ASSUME Inv, TypesNext, NEW c \in Askers, call[c].kind # "none", RecoverRefused(c)
    PROVE  GatewayInv'
<1>1. /\ LockFree /\ NoWrite /\ Serving /\ UNCHANGED <<sets, run>> /\ Answered(c) /\ Forgotten(c)
  BY DEF RecoverRefused
<1>2. \A d \in Clients \ {c} : ticket'[d].task = ticket[d].task
  BY <1>1, InvParts DEF Forgotten
<1>. QED  BY <1>1, <1>2, Answers

(* A request that writes its task's rows and hands the free slots out.     *)
LEMMA CallHands ==
    ASSUME Inv, TypesNext, NEW c \in Askers, call[c].kind # "none", LockFree \/ Between(c),
           NEW t \in Tasks, t = call[c].task, NEW r, r = run[t], Schedule(run),
           Only(t), SetsOfOthers(t), State(t)' # "absent", TaskSound(t, r)', Answered(c), Serving,
           last' = last, reserved' \in [Tasks -> [Ops -> Nat]],
           \A u \in Tasks \ {t} : reserved'[u] = reserved[u],
           \A d \in Clients \ {c} : ticket'[d].task = ticket[d].task,
           r.at = "none" /\ State(t)' = "queued" /\ tasks'[t].prio.level < 5 /\ ~In(t, "fenced")'
               => In(t, "eligible")'
    PROVE  GatewayInv'
<1>1. PICK after : after = run
  OBVIOUS
<1>2. after \in [Tasks -> Runs] /\ after[t] = r /\ r.at \notin Holding /\ phase = "ready"
  BY <1>1, InvParts, AskerFacts
<1>3. phase' = phase /\ todo' = todo
  BY DEF Serving
<1>4. \A u \in Tasks \ {t} : Passed(u, after[u]) /\ after[u].room = run[u].room
  <2>1. \A u \in Tasks \ {t} : Alike(after[u], run[u])
    BY <1>1 DEF Alike
  <2>. QED  BY <1>1, <2>1, OthersPassed
<1>5. Step(t, after)
  BY <1>1, <1>2, <1>3, <1>4 DEF Step
<1>6. r.at = "none" /\ State(t)' = "queued" /\ tasks'[t].prio.level < 5 /\ t \notin sets'["fenced"]
         => t \in sets'["eligible"]
  BY DEF In
<1>7. sets' \in [SetNames -> SUBSET Tasks]
  BY DEF SetsOfOthers
<1>. QED  BY <1>1, <1>2, <1>5, <1>6, <1>7, Ends

(* One that leaves the slots as they are. *)
LEMMA CallEnds ==
    ASSUME Inv, TypesNext, NEW c \in Askers, call[c].kind # "none", LockFree \/ Between(c),
           NEW t \in Tasks, t = call[c].task, NEW r \in Runs, run' = [run EXCEPT ![t] = r],
           r.at = run[t].at, r.room = run[t].room,
           Only(t), SetsOfOthers(t), State(t)' # "absent", TaskSound(t, r)', Answered(c), Serving,
           OwnTables, UNCHANGED ticket,
           Queued(t)' => Queued(t) /\ ~Resumed(t) /\ In(t, "eligible")'
    PROVE  GatewayInv'
<1>1. PICK after : after = run'
  OBVIOUS
<1>2. /\ after \in [Tasks -> Runs] /\ after[t] = r /\ r.at \notin Holding /\ phase = "ready"
      /\ \A u \in Tasks \ {t} : after[u] = run[u]
  BY <1>1, InvParts, AskerFacts
<1>3. phase' = phase /\ todo' = todo /\ last' = last /\ reserved' = reserved
  BY DEF Serving, OwnTables
<1>4. \A u \in Tasks \ {t} : Passed(u, after[u]) /\ after[u].room = run[u].room
  <2>1. \A u \in Tasks \ {t} : Alike(after[u], run[u])
    BY <1>2 DEF Alike
  <2>. QED  BY <1>2, <1>3, <2>1, OthersPassed
<1>5. Step(t, after)
  BY <1>1, <1>2, <1>3, <1>4 DEF Step
<1>6. sets' \in [SetNames -> SUBSET Tasks] /\ reserved' \in [Tasks -> [Ops -> Nat]]
  BY <1>3, InvParts DEF SetsOfOthers
<1>7. /\ run' = after /\ (run[t].at = "none" <=> after[t].at = "none")
      /\ Queued(t)' => Queued(t) /\ ~Resumed(t) /\ In(t, "eligible")'
  BY <1>1, <1>2
<1>8. /\ after[t].room = run[t].room /\ after[t].at \notin Holding /\ call[c].task = t
      /\ \A d \in Clients \ {c} : ticket'[d].task = ticket[d].task
  BY <1>2
<1>. QED  BY <1>2, <1>3, <1>5, <1>6, <1>7, <1>8, Ends

(* One that keeps the lock for its second transaction.                     *)
LEMMA CallGoesOn ==
    ASSUME Inv, TypesNext, NEW c \in Askers, call[c].kind \in {"pause", "resume"}, LockFree,
           NEW t \in Tasks, t = call[c].task, call' = [call EXCEPT ![c].step = "second"],
           NEW r, r = run[t], Only(t), State(t)' # "absent", TaskSound(t, r)', Serving,
           OwnTables, UNCHANGED <<sets, run, ticket>>,
           call[c].kind = "resume" \/ r.at # "none"
    PROVE  GatewayInv'
<1>1. PICK after : after = run
  OBVIOUS
<1>2. /\ after \in [Tasks -> Runs] /\ after[t] = r /\ r.at \notin Holding /\ phase = "ready"
      /\ \A d \in Askers : ~Between(d)
  BY <1>1, InvParts, AskerFacts DEF LockFree, Between
<1>3. phase' = phase /\ todo' = todo /\ last' = last /\ reserved' = reserved
  BY DEF Serving, OwnTables
<1>4. \A u \in Tasks \ {t} : Passed(u, after[u]) /\ after[u].room = run[u].room
  <2>1. \A u \in Tasks \ {t} : Alike(after[u], run[u])
    BY <1>1 DEF Alike
  <2>2. SetsOfOthers(t)
    BY SetsStay
  <2>. QED  BY <1>1, <1>3, <2>1, <2>2, OthersPassed
<1>5. Step(t, after)
  BY <1>1, <1>2, <1>3, <1>4 DEF Step
<1>6. call[c] \in Calls /\ call \in [Askers -> Calls] /\ CallSound(c)
  BY InvParts
<1>7. PICK d : d = [call[c] EXCEPT !.step = "second"]
  OBVIOUS
<1>8. d \in Calls /\ d.kind = call[c].kind /\ d.task = t /\ d.step = "second"
  BY <1>6, <1>7 DEF Calls
<1>9. call' \in [Askers -> Calls] /\ call'[c] = d /\ \A b \in Askers \ {c} : SameCall(b)
  BY <1>6, <1>7, <1>8 DEF SameCall
<1>10. Between(c)' /\ \A b \in Askers \ {c} : ~Between(b)'
  BY <1>2, <1>8, <1>9 DEF Between, SameCall
<1>11. LockSound'
  BY <1>2, <1>5, <1>10, InvParts, LockKept
<1>12. SlotsSound'
  <2>1. \A u \in Tasks : ~Resumed(u)
    BY <1>2 DEF Resumed
  <2>2. call[c].kind = "resume" => Resumed(t)'
    BY <1>8, <1>9, <1>10 DEF Resumed
  <2>3. r.at # "none" => ~Queued(t)'
    BY DEF Queued, Resident
  <2>. QED  BY <1>1, <1>2, <1>5, <2>1, <2>2, <2>3, InvParts, SlotsKept
<1>13. \A b \in Askers : CallSound(b)'
  <2>1. TAKE b \in Askers
  <2>2. CASE b = c
    BY <1>6, <1>8, <1>9, <2>2 DEF CallSound
  <2>3. CASE b # c
    <3>1. SameCall(b) /\ Created \subseteq Created'
      BY <1>5, <1>9, <2>3, StepCreates
    <3>. QED  BY <2>3, <3>1, InvParts, CallKept
  <2>. QED  BY <2>2, <2>3
<1>14. RoomSound'
  <2>1. \A u \in Tasks : call'[u].kind # "none" => call[u].kind # "none"
    BY <1>8, <1>9 DEF SameCall, Askers
  <2>2. after[t].room = run[t].room
    BY <1>1
  <2>. QED  BY <1>5, <2>1, <2>2, InvParts, RoomKept
<1>15. TypedNext
  BY <1>3, <1>9, InvParts DEF TypedNext
<1>. QED  BY <1>5, <1>11, <1>12, <1>13, <1>14, <1>15, Concludes

----------------------------------------------------------------------------
(* Pause, Resume and the level *)

(* What a request may write of a task whose run stands where it stood.     *)
LEMMA Rewritten ==
    ASSUME Inv, NEW t \in Tasks, phase = "ready", run[t].at \notin Holding, NEW r, r = run[t],
           OwnKept(t), last' = last, reserved' = reserved, phase' = phase,
           State(t) # "absent", State(t)' \notin {"absent", "done", "interrupted"},
           r.at = "turn" => State(t)' \in {"running", "held"},
           r.at = "settling" /\ Parks(t) => State(t)' # "held" /\ tasks'[t].hold # "running",
           State(t)' \in {"running", "held"} => r.at # "none",
           State(t)' = "held" => r.at = "turn" \/ r.out \in TurnOuts,
           r.at = "none" /\ State(t)' \in {"queued", "parked"} => State(t) \in {"queued", "parked"},
           In(t, "winners")' <=> In(t, "winners"),
           In(t, "quarantined")' <=> In(t, "quarantined"),
           In(t, "stopping") => In(t, "stopping")',
           r.at # "none" /\ ~In(t, "stopping")' => In(t, "eligible")'
    PROVE  TaskSound(t, r)'
<1>1. TaskSound(t, r)
  BY InvParts
<1>2. Prepared(t) = {}
  BY <1>1 DEF TaskSound, OpenSound, Holding
<1>3. /\ prov'[t] = prov[t] /\ turns'[t] = turns[t] /\ Prepared(t)' = {}
      /\ resumeTurn'[t] = resumeTurn[t] /\ (tasks'[t].parkedLast => tasks[t].parkedLast)
      /\ HasParkRow(t) => HasParkRow(t)'
  BY <1>2 DEF OwnKept, HistoryKept
<1>4. MayTurn(t)' <=> MayTurn(t)
  BY <1>3 DEF MayTurn
<1>5. RunSound(t, r)'
  BY <1>1, <1>3 DEF TaskSound, RunSound, Holding
<1>6. FlagsSound(t, r)'
  <2>1. Parks(t)' => Parks(t)
    BY DEF Parks
  <2>. QED  BY <1>1, <2>1 DEF TaskSound, FlagsSound, Holding
<1>7. PastSound(t, r)'
  BY <1>1, <1>3 DEF TaskSound, PastSound
<1>8. OpenSound(t, r)'
  BY <1>1, <1>3, <1>4 DEF TaskSound, OpenSound, Holding
<1>9. StartupSound(t, r)'
  BY DEF StartupSound
<1>. QED  BY <1>5, <1>6, <1>7, <1>8, <1>9 DEF TaskSound

(* What update does not refuse. *)
LEMMA ServedFacts ==
    ASSUME Inv, NEW c \in Askers, call[c].kind # "none", LockFree \/ Between(c),
           NEW t, t = call[c].task
    PROVE  /\ t \in Tasks /\ State(t) # "absent" /\ phase = "ready" /\ run[t].at \notin Holding
           /\ run[t] \in Runs /\ TaskSound(t, run[t]) /\ tasks[t].prio.level \in 0..5
           /\ run[t].at = "turn" => State(t) \in {"running", "held"}
           /\ State(t) \in {"running", "held"} => run[t].at # "none"
           /\ State(t) = "held" => run[t].at = "turn" \/ run[t].out \in TurnOuts
           /\ run[t].at = "settling" /\ Parks(t) => State(t) # "held" /\ tasks[t].hold # "running"
           /\ run[t].at # "none" /\ ~In(t, "stopping") => In(t, "eligible")
           /\ ~Refuses(t) => State(t) \in {"queued", "running", "held", "parked"}
<1>1. t \in Tasks /\ State(t) # "absent" /\ phase = "ready" /\ run[t].at \notin Holding
  BY AskerFacts
<1>2. TaskSound(t, run[t]) /\ run[t] \in Runs /\ TablesTypeOK
  BY <1>1, InvParts
<1>3. State(t) \in States /\ tasks[t].prio.level \in 0..5
  BY <1>1, <1>2 DEF TablesTypeOK, TaskRows, State, Priorities, Levels
<1>4. ~Refuses(t) => State(t) \in {"queued", "running", "held", "parked"}
  BY <1>1, <1>2, <1>3 DEF Refuses, States, Open, Terminal, TaskSound, OpenSound
<1>. QED  BY <1>1, <1>2, <1>3, <1>4 DEF TaskSound, RunSound, OpenSound, FlagsSound, Holding

LEMMA PauseIdleSound ==
    ASSUME Inv, TypesNext, NEW c \in Askers, PauseIdle(c)
    PROVE  GatewayInv'
<1>1. PICK t : t = call[c].task
  OBVIOUS
<1>2. /\ LockFree /\ call[c].kind # "none" /\ ~Refuses(t) /\ run[t].at # "turn" /\ Pause(t)
      /\ Answered(c) /\ Serving /\ OwnTables /\ UNCHANGED <<sets, ticket>> /\ Schedule(run)
      /\ last' = last /\ reserved' = reserved /\ phase' = phase
  BY <1>1 DEF PauseIdle, Served, Busy, At, OwnTables, Serving
<1>3. PICK r : r = run[t]
  OBVIOUS
<1>4. /\ t \in Tasks /\ State(t) # "absent" /\ phase = "ready" /\ r.at \notin Holding
      /\ State(t) = "held" => r.at = "turn" \/ r.out \in TurnOuts
      /\ State(t) \in {"running", "held"} => r.at # "none"
      /\ r.at = "settling" /\ Parks(t) => State(t) # "held" /\ tasks[t].hold # "running"
      /\ r.at # "none" /\ ~In(t, "stopping") => In(t, "eligible")
      /\ State(t) \in {"queued", "running", "held", "parked"}
  BY <1>1, <1>2, <1>3, ServedFacts
<1>5. /\ Only(t) /\ OwnKept(t) /\ State(t)' = "parked"
      /\ tasks'[t].hold = IF State(t) = "held" THEN tasks[t].hold ELSE "none"
  BY <1>2, <1>4, InvParts, PauseEffect
<1>6. SetsOfOthers(t) /\ \A n : In(t, n)' <=> In(t, n)
  BY <1>2, <1>4, SetsStay
<1>7. TaskSound(t, r)'
  BY <1>2, <1>3, <1>4, <1>5, <1>6, Rewritten
<1>. QED  BY <1>1, <1>2, <1>3, <1>4, <1>5, <1>6, <1>7, InvParts, CallHands

LEMMA PauseBusySound ==
    ASSUME Inv, TypesNext, NEW c \in Askers, PauseBusy(c)
    PROVE  GatewayInv'
<1>1. PICK t : t = call[c].task
  OBVIOUS
<1>2. /\ LockFree /\ call[c].kind = "pause" /\ run[t].at = "turn"
      /\ RequestPause(t, Gen(t), Op(t), FreshOp) /\ call' = [call EXCEPT ![c].step = "second"]
      /\ Serving /\ OwnTables /\ UNCHANGED <<sets, run, ticket>>
      /\ last' = last /\ reserved' = reserved /\ phase' = phase
  BY <1>1 DEF PauseBusy, Served, Busy, At, OwnTables, Serving
<1>3. PICK r, g, p, op : r = run[t] /\ g = Gen(t) /\ p = Op(t) /\ op = FreshOp
  OBVIOUS
<1>4. t \in Tasks /\ State(t) \in {"running", "held"} /\ SameFlags(t)
  <2>1. t \in Tasks
    BY <1>1, <1>2, ServedFacts
  <2>. QED  BY <1>2, <2>1, SetsStay, InTurnFacts DEF SameFlags
<1>5. Only(t) /\ OwnKept(t) /\ State(t)' = State(t)
  BY <1>2, <1>3, <1>4, InvParts, RequestPauseEffect
<1>6. TaskSound(t, r)'
  BY <1>2, <1>3, <1>4, <1>5, InTurnSound
<1>. QED  BY <1>1, <1>2, <1>3, <1>4, <1>5, <1>6, CallGoesOn

LEMMA PauseAgainSound ==
    ASSUME Inv, TypesNext, NEW c \in Askers, PauseAgain(c)
    PROVE  GatewayInv'
<1>1. PICK t : t = call[c].task
  OBVIOUS
<1>2. /\ LockFree /\ call[c].kind # "none" /\ sets' \in {sets, Selected(t)}
      /\ Answered(c) /\ NoWrite /\ Serving /\ UNCHANGED <<run, ticket>> /\ OwnTables
      /\ UNCHANGED tables /\ last' = last /\ reserved' = reserved /\ phase' = phase
  BY <1>1 DEF PauseAgain, Served, OwnTables, Serving, NoWrite, durable
<1>3. PICK r : r = run[t]
  OBVIOUS
<1>4. t \in Tasks /\ State(t) # "absent" /\ r \in Runs /\ TaskSound(t, r) /\ phase = "ready"
  BY <1>1, <1>2, <1>3, ServedFacts
<1>5. /\ Only(t) /\ OwnKept(t) /\ State(t)' = State(t) /\ RowKept(t)
  BY <1>2, TablesStay
<1>6. SetsOfOthers(t) /\ SameFlags(t) /\ (sets' # sets => r.at = "turn")
  BY <1>2, <1>3, <1>4, SelectedSets DEF Selected, Busy, At
<1>7. TaskSound(t, r)'
  <2>1. CASE sets' = sets
    <3>1. Stays(t) /\ (t \in todo' <=> t \in todo)
      BY <1>2, <1>4, <1>5, <2>1, SetsStay DEF Stays, Serving
    <3>. QED  BY <1>2, <1>4, <3>1, StaySound
  <2>2. CASE sets' # sets
    <3>1. State(t)' \in {"running", "held"} /\ r.at = "turn" /\ run[t].at = "turn"
      BY <1>3, <1>4, <1>5, <1>6, <2>2 DEF TaskSound, RunSound
    <3>. QED  BY <1>2, <1>3, <1>4, <1>5, <1>6, <3>1, InTurnSound
  <2>. QED  BY <2>1, <2>2
<1>8. Queued(t)' => Queued(t) /\ ~Resumed(t) /\ In(t, "eligible")'
  <2>1. ~Resumed(t)
    BY <1>2 DEF Resumed, LockFree, Between
  <2>2. (In(t, "fenced")' <=> In(t, "fenced")) /\ (In(t, "eligible")' <=> In(t, "eligible"))
    BY <1>6 DEF SameFlags, SetNames
  <2>3. Queued(t)' => Queued(t)
    BY <1>2, <1>4, <1>5, <2>2 DEF Queued, Resident, RowKept
  <2>. QED  BY <1>4, <2>1, <2>2, <2>3, InvParts DEF SlotsSound
<1>9. run' = [run EXCEPT ![t] = r]
  BY <1>2, <1>3, InvParts
<1>. QED  BY <1>1, <1>2, <1>3, <1>4, <1>5, <1>6, <1>7, <1>8, <1>9, CallEnds

(* A call that is held in another's place. *)
LEMMA PointSound ==
    ASSUME NEW t \in Tasks, NEW r, NEW s, TaskSound(t, r)', r.point # "none",
           s.at = r.at, s.exec = r.exec, s.fenced = r.fenced, s.out = r.out, s.pending = r.pending
    PROVE  TaskSound(t, s)'
<1>1. RunSound(t, s)'
  BY DEF TaskSound, RunSound, Early
<1>2. FlagsSound(t, s)'
  BY DEF TaskSound, FlagsSound
<1>3. PastSound(t, s)'
  BY DEF TaskSound, PastSound
<1>4. OpenSound(t, s)'
  BY DEF TaskSound, OpenSound
<1>5. StartupSound(t, s)'
  BY DEF TaskSound, StartupSound
<1>. QED  BY <1>1, <1>2, <1>3, <1>4, <1>5 DEF TaskSound

LEMMA PauseHoldSound ==
    ASSUME Inv, TypesNext, NEW c \in Askers, PauseHold(c)
    PROVE  GatewayInv'
<1>1. PICK t : t = call[c].task
  OBVIOUS
<1>2. PICK rehold \in BOOLEAN :
         rehold <=> State(t) = "running" /\ run[t].point # "none" /\ tasks[t].hold = "running"
  OBVIOUS
<1>3. /\ call[c].kind = "pause" /\ Between(c) /\ Answered(c) /\ Serving /\ OwnTables
      /\ UNCHANGED ticket /\ last' = last /\ reserved' = reserved /\ phase' = phase
      /\ IF rehold THEN Hold(t, Gen(t), Op(t), FreshOp) ELSE UNCHANGED tables
      /\ sets' = IF rehold \/ State(t) = "held" THEN Selected(t) ELSE sets
      /\ run' = IF rehold THEN [run EXCEPT ![t].point = "held"] ELSE run
  BY <1>1, <1>2 DEF PauseHold, Between, OwnTables, Serving
<1>4. PICK old, g, p, op : old = run[t] /\ g = Gen(t) /\ p = Op(t) /\ op = FreshOp
  OBVIOUS
<1>5. /\ t \in Tasks /\ State(t) # "absent" /\ phase = "ready" /\ old.at \notin Holding
      /\ old \in Runs /\ TaskSound(t, old) /\ call[c].kind # "none"
      /\ State(t) = "held" => old.at = "turn" \/ old.out \in TurnOuts
      /\ State(t) \in {"running", "held"} => old.at # "none"
      /\ old.at = "settling" /\ Parks(t) => State(t) # "held" /\ tasks[t].hold # "running"
      /\ old.at # "none" /\ ~In(t, "stopping") => In(t, "eligible")
      /\ old.at = "turn" => State(t) \in {"running", "held"}
  BY <1>1, <1>3, <1>4, ServedFacts
<1>6. ~Resumed(t)
  BY <1>1, <1>3, <1>5, AskerFacts DEF Resumed
<1>7. SetsOfOthers(t) /\ SameFlags(t) /\ (sets' # sets => old.at = "turn")
  BY <1>3, <1>4, <1>5, SelectedSets DEF Selected, Busy, At
<1>8. /\ Only(t) /\ OwnKept(t) /\ State(t)' = IF rehold THEN "held" ELSE State(t)
      /\ ~rehold => tasks' = tasks
  <2>1. CASE rehold
    <3>1. Hold(t, g, p, op)
      BY <1>3, <1>4, <2>1
    <3>. QED  BY <1>5, <2>1, <3>1, InvParts, HoldEffect
  <2>2. CASE ~rehold
    BY <1>3, <2>2, TablesStay
  <2>. QED  BY <2>1, <2>2
<1>9. PICK r : r = IF rehold THEN [old EXCEPT !.point = "held"] ELSE old
  OBVIOUS
<1>10. /\ r \in Runs /\ r.at = old.at /\ r.exec = old.exec /\ r.fenced = old.fenced
       /\ r.out = old.out /\ r.pending = old.pending /\ r.room = old.room
       /\ ~rehold => r = old
  BY <1>5, <1>9 DEF Runs, Points
<1>11. run' = [run EXCEPT ![t] = r]
  BY <1>3, <1>4, <1>9, InvParts
<1>12. TaskSound(t, r)'
  <2>1. CASE old.at = "turn"
    <3>1. State(t)' \in {"running", "held"} /\ run[t].at = "turn"
      BY <1>4, <1>5, <1>8, <2>1
    <3>. QED  BY <1>3, <1>4, <1>5, <1>7, <1>8, <1>10, <2>1, <3>1, InTurnSound
  <2>2. CASE old.at # "turn"
    <3>1. \A n : In(t, n)' <=> In(t, n)
      BY <1>5, <1>7, <2>2, SetsStay
    <3>2. rehold => old.point # "none" /\ old.out \in TurnOuts /\ tasks[t].hold = "running"
                    /\ State(t) = "running"
      BY <1>2, <1>4, <1>5, <2>2 DEF TaskSound, RunSound
    <3>3. rehold => TaskSound(t, old)'
      BY <1>3, <1>4, <1>5, <1>8, <2>2, <3>1, <3>2, Rewritten
    <3>4. ~rehold => Stays(t) /\ (t \in todo' <=> t \in todo)
      BY <1>3, <1>5, <1>7, <2>2, SetsStay, TablesStay DEF Stays, Serving
    <3>5. ~rehold => TaskSound(t, old)'
      BY <1>3, <1>5, <3>4, StaySound
    <3>. QED  BY <1>5, <1>10, <3>2, <3>3, <3>5, PointSound
  <2>. QED  BY <2>1, <2>2
<1>13. Queued(t)' => Queued(t) /\ ~Resumed(t) /\ In(t, "eligible")'
  <2>1. (In(t, "fenced")' <=> In(t, "fenced")) /\ (In(t, "eligible")' <=> In(t, "eligible"))
    BY <1>7 DEF SameFlags, SetNames
  <2>2. run'[t].at = old.at
    BY <1>5, <1>10, <1>11, InvParts
  <2>3. CASE rehold
    BY <1>8, <2>3 DEF Queued
  <2>4. CASE ~rehold
    <3>1. Queued(t)' => Queued(t)
      BY <1>3, <1>4, <1>8, <2>1, <2>2, <2>4 DEF Queued, Resident
    <3>. QED  BY <1>5, <1>6, <2>1, <3>1, InvParts DEF SlotsSound
  <2>. QED  BY <2>3, <2>4
<1>14. State(t)' # "absent"
  BY <1>5, <1>8
<1>. QED  BY <1>1, <1>3, <1>4, <1>5, <1>7, <1>8, <1>10, <1>11, <1>12, <1>13, <1>14, CallEnds

LEMMA ResumeFirstSound ==
    ASSUME Inv, TypesNext, NEW c \in Askers, ResumeFirst(c)
    PROVE  GatewayInv'
<1>1. PICK t : t = call[c].task
  OBVIOUS
<1>2. /\ LockFree /\ call[c].kind = "resume" /\ call[c].kind # "none" /\ ~Refuses(t)
      /\ CancelPause(t, Gen(t), Op(t), FreshOp) \/ Resume(t)
      /\ call' = [call EXCEPT ![c].step = "second"]
      /\ Serving /\ OwnTables /\ UNCHANGED <<sets, run, ticket>>
      /\ last' = last /\ reserved' = reserved /\ phase' = phase
  BY <1>1 DEF ResumeFirst, Served, OwnTables, Serving
<1>3. PICK r, g, p, op : r = run[t] /\ g = Gen(t) /\ p = Op(t) /\ op = FreshOp
  OBVIOUS
<1>4. /\ t \in Tasks /\ State(t) # "absent" /\ phase = "ready" /\ r.at \notin Holding
      /\ r.at = "turn" => State(t) \in {"running", "held"}
      /\ State(t) = "held" => r.at = "turn" \/ r.out \in TurnOuts
      /\ State(t) \in {"running", "held"} => r.at # "none"
      /\ r.at = "settling" /\ Parks(t) => State(t) # "held" /\ tasks[t].hold # "running"
      /\ r.at # "none" /\ ~In(t, "stopping") => In(t, "eligible")
      /\ State(t) \in {"queued", "running", "held", "parked"}
  BY <1>1, <1>2, <1>3, ServedFacts
<1>5. /\ Only(t) /\ OwnKept(t)
      /\ \/ State(t) # "parked" /\ State(t)' = State(t) /\ tasks'[t].hold = tasks[t].hold
         \/ State(t) = "parked" /\ State(t)' \in {"parked", "queued"} /\ tasks'[t].hold = "none"
  <2>1. CASE CancelPause(t, Gen(t), Op(t), FreshOp)
    <3>1. CancelPause(t, g, p, op)
      BY <1>3, <2>1
    <3>. QED  BY <1>4, <3>1, InvParts, CancelPauseEffect
  <2>2. CASE Resume(t)
    BY <1>4, <2>2, InvParts, ResumeEffect
  <2>. QED  BY <1>2, <2>1, <2>2
<1>6. \A n : In(t, n)' <=> In(t, n)
  BY <1>2, <1>4, SetsStay
<1>7. TaskSound(t, r)'
  BY <1>2, <1>3, <1>4, <1>5, <1>6, Rewritten
<1>8. State(t)' # "absent"
  BY <1>4, <1>5
<1>. QED  BY <1>1, <1>2, <1>3, <1>4, <1>5, <1>7, <1>8, CallGoesOn

LEMMA ResumeReleaseSound ==
    ASSUME Inv, TypesNext, NEW c \in Askers, ResumeRelease(c)
    PROVE  GatewayInv'
<1>1. PICK t : t = call[c].task
  OBVIOUS
<1>2. /\ Between(c) /\ call[c].kind # "none" /\ Release(t, Gen(t), Op(t), FreshOp)
      /\ Serving /\ OwnTables /\ UNCHANGED <<sets, run, call, ticket>> /\ State(t) = "held"
      /\ last' = last /\ reserved' = reserved /\ phase' = phase
  BY <1>1 DEF ResumeRelease, Between, OwnTables, Serving
<1>3. PICK r, g, p, op : r = run[t] /\ g = Gen(t) /\ p = Op(t) /\ op = FreshOp
  OBVIOUS
<1>4. /\ t \in Tasks /\ State(t) # "absent" /\ phase = "ready" /\ r.at \notin Holding /\ r \in Runs
      /\ State(t) \in {"running", "held"} => r.at # "none"
      /\ r.at = "settling" /\ Parks(t) => State(t) # "held" /\ tasks[t].hold # "running"
      /\ r.at # "none" /\ ~In(t, "stopping") => In(t, "eligible")
  BY <1>1, <1>2, <1>3, ServedFacts
<1>5. Only(t) /\ OwnKept(t) /\ State(t)' = "running"
  <2>1. Release(t, g, p, op)
    BY <1>2, <1>3
  <2>. QED  BY <1>4, <2>1, InvParts, ReleaseEffect
<1>6. SetsOfOthers(t) /\ \A n : In(t, n)' <=> In(t, n)
  BY <1>2, <1>4, SetsStay
<1>7. TaskSound(t, r)'
  BY <1>2, <1>3, <1>4, <1>5, <1>6, Rewritten
<1>8. run' = [run EXCEPT ![t] = r] /\ last' \in [Tasks -> Turns] /\ r.at # "none" /\ run[t].at # "none"
  BY <1>2, <1>3, <1>4, InvParts
<1>. QED  BY <1>2, <1>3, <1>4, <1>5, <1>6, <1>7, <1>8, Writes

LEMMA DroppedSets ==
    ASSUME Inv, NEW t \in Tasks, NEW names, sets' = Dropping(sets, names, t)
    PROVE  /\ SetsOfOthers(t)
           /\ \A n \in SetNames : In(t, n)' <=> In(t, n) /\ n \notin names
<1>1. /\ sets' \in [SetNames -> SUBSET Tasks]
      /\ \A u, n : n \in SetNames => (u \in sets'[n] <=> u \in sets[n] /\ ~(n \in names /\ u = t))
  BY InvParts, DroppingIs
<1>. QED  BY <1>1 DEF SetsOfOthers, In

LEMMA FreedSets ==
    ASSUME Inv, NEW t \in Tasks, sets' = Freed(t)
    PROVE  /\ SetsOfOthers(t) /\ In(t, "eligible")'
           /\ In(t, "winners")' <=> In(t, "winners")
           /\ In(t, "stopping")' <=> In(t, "stopping")
           /\ In(t, "quarantined")' <=> In(t, "quarantined")
           /\ In(t, "fenced")' <=> In(t, "fenced")
<1>1. PICK s : s = Dropping(sets, {"pauseReq"}, t)
  OBVIOUS
<1>2. /\ s \in [SetNames -> SUBSET Tasks]
      /\ \A u, n : n \in SetNames => (u \in s[n] <=> u \in sets[n] /\ ~(n \in {"pauseReq"} /\ u = t))
  BY <1>1, InvParts, DroppingIs
<1>3. sets' = Adding(s, "eligible", t) /\ "eligible" \in SetNames
  BY <1>1 DEF SetNames, Freed
<1>4. /\ sets' \in [SetNames -> SUBSET Tasks]
      /\ \A u, n : n \in SetNames => (u \in sets'[n] <=> u \in s[n] \/ (n = "eligible" /\ u = t))
  BY <1>2, <1>3, AddingIs
<1>5. \A u, n : n \in SetNames =>
         (u \in sets'[n] <=> (u \in sets[n] /\ ~(n \in {"pauseReq"} /\ u = t)) \/ (n = "eligible" /\ u = t))
  BY <1>2, <1>4
<1>. QED  BY <1>4, <1>5 DEF SetsOfOthers, In, SetNames

LEMMA ResumeSecondSound ==
    ASSUME Inv, TypesNext, NEW c \in Askers, ResumeSecond(c)
    PROVE  GatewayInv'
<1>1. PICK t : t = call[c].task
  OBVIOUS
<1>2. /\ Between(c) /\ call[c].kind # "none" /\ Answered(c) /\ State(t) # "held"
      /\ Serving /\ OwnTables /\ UNCHANGED ticket
      /\ last' = last /\ reserved' = reserved /\ phase' = phase
  BY <1>1 DEF ResumeSecond, Between, OwnTables, Serving
<1>3. PICK r, choice : r = run[t] /\ choice = Keep
  OBVIOUS
<1>4. /\ t \in Tasks /\ State(t) # "absent" /\ phase = "ready" /\ r.at \notin Holding /\ r \in Runs
      /\ TaskSound(t, r) /\ tasks[t].prio.level \in 0..5
      /\ r.at = "turn" => State(t) \in {"running", "held"}
      /\ State(t) \in {"running", "held"} => r.at # "none"
      /\ r.at = "settling" /\ Parks(t) => State(t) # "held" /\ tasks[t].hold # "running"
  BY <1>1, <1>2, <1>3, ServedFacts
<1>5. \/ r.at # "none" /\ UNCHANGED <<tables, sets, run>>
      \/ r.at # "none" /\ Rerun(t, Keep) /\ sets' = Freed(t) /\ Schedule(run)
      \/ /\ UNCHANGED tables /\ Schedule(run)
         /\ \/ tasks[t].prio.level = 5 /\ sets' = Dropping(sets, {"pauseReq"}, t)
            \/ sets' = Freed(t)
  BY <1>1, <1>3 DEF ResumeSecond, Resident
<1>6. CASE r.at # "none" /\ UNCHANGED <<tables, sets, run>>
  <2>1. Only(t) /\ RowKept(t) /\ State(t)' = State(t)
    BY <1>6, TablesStay
  <2>2. SetsOfOthers(t) /\ Stays(t) /\ (t \in todo' <=> t \in todo)
    BY <1>2, <1>4, <1>6, <2>1, SetsStay DEF Stays, Serving
  <2>3. TaskSound(t, r)'
    BY <1>2, <1>4, <2>2, StaySound
  <2>4. run' = [run EXCEPT ![t] = r] /\ ~Queued(t)'
    BY <1>3, <1>6, InvParts DEF Queued, Resident
  <2>. QED  BY <1>1, <1>2, <1>3, <1>4, <2>1, <2>2, <2>3, <2>4, CallEnds
<1>7. CASE r.at # "none" /\ Rerun(t, Keep) /\ sets' = Freed(t) /\ Schedule(run)
  <2>1. ContinueRunning(t, choice) \/ RunBare(t, choice)
    BY <1>3, <1>7 DEF Rerun
  <2>2. Only(t) /\ OwnKept(t) /\ State(t)' = "running" /\ tasks'[t].hold = "none"
    BY <1>3, <1>4, <2>1, InvParts, RerunEffect
  <2>3. /\ SetsOfOthers(t) /\ In(t, "eligible")'
        /\ In(t, "winners")' <=> In(t, "winners")
        /\ In(t, "stopping")' <=> In(t, "stopping")
        /\ In(t, "quarantined")' <=> In(t, "quarantined")
    BY <1>4, <1>7, FreedSets
  <2>4. TaskSound(t, r)'
    BY <1>2, <1>3, <1>4, <1>7, <2>2, <2>3, Rewritten
  <2>. QED  BY <1>1, <1>2, <1>3, <1>4, <1>7, <2>2, <2>3, <2>4, InvParts, CallHands
<1>8. CASE /\ UNCHANGED tables /\ Schedule(run)
           /\ \/ tasks[t].prio.level = 5 /\ sets' = Dropping(sets, {"pauseReq"}, t)
              \/ sets' = Freed(t)
  <2>1. Only(t) /\ OwnKept(t) /\ State(t)' = State(t) /\ tasks' = tasks /\ RowKept(t)
    BY <1>8, TablesStay
  <2>2. /\ SetsOfOthers(t)
        /\ In(t, "winners")' <=> In(t, "winners")
        /\ In(t, "stopping")' <=> In(t, "stopping")
        /\ In(t, "quarantined")' <=> In(t, "quarantined")
        /\ In(t, "fenced")' <=> In(t, "fenced")
        /\ In(t, "eligible") => In(t, "eligible")'
        /\ tasks[t].prio.level < 5 => In(t, "eligible")'
    BY <1>4, <1>8, DroppedSets, FreedSets DEF SetNames
  <2>3. TaskSound(t, r)'
    <3>0. Parks(t)' <=> Parks(t)
      BY <2>2 DEF Parks
    <3>1. /\ prov'[t] = prov[t] /\ turns'[t] = turns[t] /\ Prepared(t)' = Prepared(t)
          /\ resumeTurn'[t] = resumeTurn[t] /\ tasks'[t] = tasks[t] /\ (HasParkRow(t)' <=> HasParkRow(t))
      BY <2>1 DEF RowKept, HasParkRow
    <3>2. MayTurn(t)' <=> MayTurn(t)
      BY <1>2, <3>1 DEF MayTurn
    <3>3. RunSound(t, r)'
      BY <1>4, <2>1, <2>2, <3>1 DEF TaskSound, RunSound
    <3>4. FlagsSound(t, r)'
      BY <1>2, <1>4, <2>1, <2>2, <3>0, <3>1 DEF TaskSound, FlagsSound
    <3>5. PastSound(t, r)'
      BY <1>2, <1>4, <2>1, <3>1 DEF TaskSound, PastSound
    <3>6. OpenSound(t, r)'
      BY <1>2, <1>4, <2>1, <2>2, <3>1, <3>2 DEF TaskSound, OpenSound
    <3>7. StartupSound(t, r)'
      BY <1>2, <1>4 DEF StartupSound
    <3>. QED  BY <3>3, <3>4, <3>5, <3>6, <3>7 DEF TaskSound
  <2>. QED  BY <1>1, <1>2, <1>3, <1>4, <1>8, <2>1, <2>2, <2>3, InvParts, CallHands
<1>. QED  BY <1>5, <1>6, <1>7, <1>8

LEMMA LevelSetSound ==
    ASSUME Inv, TypesNext, NEW c \in Askers, LevelSet(c)
    PROVE  GatewayInv'
<1>1. PICK t : t = call[c].task
  OBVIOUS
<1>2. /\ LockFree /\ call[c].kind # "none" /\ ~Refuses(t) /\ Answered(c) /\ Schedule(run)
      /\ Serving /\ OwnTables /\ UNCHANGED ticket
      /\ last' = last /\ reserved' = reserved /\ phase' = phase
      /\ sets' = IF tasks[t].prio.level = 5 THEN Freed(t) ELSE sets
  BY <1>1 DEF LevelSet, Served, OwnTables, Serving
<1>3. PICK level \in Raised :
         IF tasks[t].prio.level # 5 THEN ChangePriority(t, level)
         ELSE IF Resident(t) THEN Rerun(t, level) ELSE ChangeState(t, level, "queued")
  BY <1>1 DEF LevelSet
<1>4. level \in 0..4
  BY GatewayAssumption
<1>5. PICK r : r = run[t]
  OBVIOUS
<1>6. /\ t \in Tasks /\ State(t) # "absent" /\ phase = "ready" /\ r.at \notin Holding /\ r \in Runs
      /\ TaskSound(t, r) /\ tasks[t].prio.level \in 0..5
      /\ r.at = "turn" => State(t) \in {"running", "held"}
      /\ State(t) \in {"running", "held"} => r.at # "none"
      /\ State(t) = "held" => r.at = "turn" \/ r.out \in TurnOuts
      /\ r.at = "settling" /\ Parks(t) => State(t) # "held" /\ tasks[t].hold # "running"
      /\ r.at # "none" /\ ~In(t, "stopping") => In(t, "eligible")
      /\ State(t) \in {"queued", "running", "held", "parked"}
  BY <1>1, <1>2, <1>5, ServedFacts
<1>7. /\ SetsOfOthers(t)
      /\ In(t, "winners")' <=> In(t, "winners")
      /\ In(t, "stopping")' <=> In(t, "stopping")
      /\ In(t, "quarantined")' <=> In(t, "quarantined")
      /\ In(t, "fenced")' <=> In(t, "fenced")
      /\ In(t, "eligible") => In(t, "eligible")'
      /\ tasks[t].prio.level = 5 => In(t, "eligible")'
  BY <1>2, <1>6, SetsStay, FreedSets
<1>8. /\ Only(t) /\ OwnKept(t)
      /\ \/ tasks[t].prio.level # 5 /\ State(t)' = State(t) /\ tasks'[t].hold = tasks[t].hold
         \/ r.at # "none" /\ State(t)' = "running" /\ tasks'[t].hold = "none"
         \/ tasks[t].prio.level = 5 /\ r.at = "none" /\ State(t)' = "queued" /\ tasks'[t].hold = "none"
  <2>1. CASE tasks[t].prio.level # 5
    <3>1. ChangePriority(t, level)
      BY <1>3, <2>1
    <3>. QED  BY <1>4, <1>6, <2>1, <3>1, InvParts, ChangePriorityEffect
  <2>2. CASE tasks[t].prio.level = 5 /\ r.at # "none"
    <3>1. ContinueRunning(t, level) \/ RunBare(t, level)
      BY <1>3, <1>5, <2>2 DEF Rerun, Resident
    <3>. QED  BY <1>4, <1>6, <2>2, <3>1, InvParts, RerunEffect
  <2>3. CASE tasks[t].prio.level = 5 /\ r.at = "none"
    <3>1. ChangeState(t, level, "queued")
      BY <1>3, <1>5, <2>3 DEF Resident
    <3>. QED  BY <1>4, <1>6, <2>3, <3>1, InvParts, ChangeStateEffect
  <2>. QED  BY <2>1, <2>2, <2>3
<1>9. TaskSound(t, r)'
  BY <1>2, <1>5, <1>6, <1>7, <1>8, Rewritten
<1>10. r.at = "none" /\ State(t)' = "queued" /\ tasks'[t].prio.level < 5 /\ ~In(t, "fenced")'
         => In(t, "eligible")'
  <2>1. CASE tasks[t].prio.level = 5
    BY <1>7, <2>1
  <2>2. CASE tasks[t].prio.level # 5
    <3>1. ~Resumed(t) /\ tasks[t].prio.level < 5
      BY <1>2, <1>6, <2>2 DEF Resumed, LockFree, Between
    <3>2. r.at = "none" /\ State(t)' = "queued" /\ ~In(t, "fenced")' => Queued(t)
      BY <1>5, <1>6, <1>7, <1>8, <2>2, <3>1 DEF Queued, Resident
    <3>. QED  BY <1>6, <1>7, <3>1, <3>2, InvParts DEF SlotsSound
  <2>. QED  BY <2>1, <2>2
<1>11. State(t)' # "absent"
  BY <1>6, <1>8
<1>. QED  BY <1>1, <1>2, <1>5, <1>6, <1>7, <1>8, <1>9, <1>10, <1>11, InvParts, CallHands

----------------------------------------------------------------------------
(* Stop, and the commit of a controlled Resume *)

(* The sets of a task whose Stop is served. *)
LEMMA StoppedSets ==
    ASSUME Inv, NEW t \in Tasks,
           sets' = LET flagged == IF Resident(t) THEN Adding(sets, "stopping", t) ELSE sets
                   IN  Dropping(flagged, {"eligible"}, t)
    PROVE  /\ SetsOfOthers(t)
           /\ \A n \in SetNames \ {"stopping", "eligible"} : In(t, n)' <=> In(t, n)
           /\ In(t, "stopping")' <=> In(t, "stopping") \/ Resident(t)
<1>1. PICK s : s = IF Resident(t) THEN Adding(sets, "stopping", t) ELSE sets
  OBVIOUS
<1>2. /\ s \in [SetNames -> SUBSET Tasks]
      /\ \A u, n : n \in SetNames =>
            (u \in s[n] <=> u \in sets[n] \/ (n = "stopping" /\ u = t /\ Resident(t)))
  <2>1. sets \in [SetNames -> SUBSET Tasks] /\ "stopping" \in SetNames
    BY InvParts DEF SetNames
  <2>. QED  BY <1>1, <2>1, AddingIs
<1>3. sets' = Dropping(s, {"eligible"}, t)
  BY <1>1
<1>4. /\ sets' \in [SetNames -> SUBSET Tasks]
      /\ \A u, n : n \in SetNames => (u \in sets'[n] <=> u \in s[n] /\ ~(n \in {"eligible"} /\ u = t))
  BY <1>2, <1>3, DroppingIs
<1>5. \A u, n : n \in SetNames =>
         (u \in sets'[n] <=> /\ u \in sets[n] \/ (n = "stopping" /\ u = t /\ Resident(t))
                             /\ ~(n \in {"eligible"} /\ u = t))
  BY <1>2, <1>4
<1>. QED  BY <1>4, <1>5 DEF SetsOfOthers, In, SetNames

LEMMA StopServedSound ==
    ASSUME Inv, TypesNext, NEW c \in Askers, StopServed(c)
    PROVE  GatewayInv'
<1>1. PICK t : t = call[c].task
  OBVIOUS
<1>2. /\ LockFree /\ call[c].kind # "none" /\ Answered(c) /\ Serving /\ UNCHANGED ticket
      /\ phase' = phase
  BY <1>1 DEF StopServed, Served, Serving
<1>3. PICK r, g, p, op : r = run[t] /\ g = Gen(t) /\ p = Op(t) /\ op = FreshOp
  OBVIOUS
<1>4. /\ t \in Tasks /\ State(t) # "absent" /\ phase = "ready" /\ r.at \notin Holding /\ r \in Runs
      /\ TaskSound(t, r)
      /\ State(t) \in {"running", "held"} => r.at # "none"
      /\ r.at = "turn" => State(t) \in {"running", "held"}
  BY <1>1, <1>2, <1>3, ServedFacts
<1>5. CASE ~Live(t)
  <2>1. NoWrite /\ UNCHANGED <<sets, run>>
    BY <1>1, <1>5 DEF StopServed
  <2>. QED  BY <1>2, <2>1, Answers
<1>6. CASE Live(t)
  <2>1. /\ OwnTables /\ last' = last /\ reserved' = reserved
        /\ sets' = LET flagged == IF Resident(t) THEN Adding(sets, "stopping", t) ELSE sets
                   IN  Dropping(flagged, {"eligible"}, t)
        /\ IF In(t, "quarantined")
           THEN GuardedStop(t, Gen(t), Op(t), FreshOp) /\ UNCHANGED run
           ELSE /\ IF Resident(t) THEN UNCHANGED tables ELSE Finish(t, "cancelled")
                /\ Schedule(run)
    BY <1>1, <1>6 DEF StopServed, OwnTables
  <2>2. /\ SetsOfOthers(t)
        /\ In(t, "winners")' <=> In(t, "winners")
        /\ In(t, "quarantined")' <=> In(t, "quarantined")
        /\ In(t, "fenced")' <=> In(t, "fenced")
        /\ In(t, "stopping")' <=> In(t, "stopping") \/ r.at # "none"
    BY <1>3, <1>4, <2>1, StoppedSets DEF SetNames, Resident
  <2>3. In(t, "quarantined") => r.at = "stuck"
    BY <1>4 DEF TaskSound, FlagsSound
  <2>4. /\ Only(t) /\ OwnKept(t)
        /\ \/ r.at # "none" /\ ~In(t, "quarantined") /\ UNCHANGED tables /\ State(t)' = State(t)
           \/ r.at \in {"none", "stuck"} /\ State(t)' = "cancelled" /\ tasks'[t].hold = "none"
    <3>1. "cancelled" \in Terminal
      BY DEF Terminal
    <3>2. CASE In(t, "quarantined")
      <4>1. GuardedStop(t, g, p, op)
        BY <1>3, <2>1, <3>2
      <4>. QED  BY <1>4, <2>3, <3>1, <3>2, <4>1, InvParts, StopEffect
    <3>3. CASE ~In(t, "quarantined") /\ r.at = "none"
      <4>1. Finish(t, "cancelled")
        BY <1>3, <2>1, <3>3 DEF Resident
      <4>. QED  BY <1>4, <3>1, <3>3, <4>1, InvParts, StopEffect
    <3>4. CASE ~In(t, "quarantined") /\ r.at # "none"
      <4>1. UNCHANGED tables
        BY <1>3, <2>1, <3>4 DEF Resident
      <4>. QED  BY <3>4, <4>1, TablesStay
    <3>. QED  BY <3>2, <3>3, <3>4
  <2>5. TaskSound(t, r)'
    <3>1. CASE r.at \in {"none", "stuck"} /\ State(t)' = "cancelled" /\ tasks'[t].hold = "none"
      <4>1. State(t)' \notin {"absent", "done", "interrupted", "running", "held", "queued", "parked"}
        BY <3>1
      <4>. QED  BY <1>2, <1>3, <1>4, <2>1, <2>2, <2>4, <3>1, <4>1, Rewritten
    <3>2. CASE r.at # "none" /\ UNCHANGED tables
      <4>1. RowKept(t) /\ State(t)' = State(t) /\ tasks' = tasks /\ HasParkRow(t)' = HasParkRow(t)
        BY <3>2, TablesStay
      <4>2. /\ prov'[t] = prov[t] /\ turns'[t] = turns[t] /\ Prepared(t)' = Prepared(t)
            /\ resumeTurn'[t] = resumeTurn[t] /\ In(t, "stopping")' /\ ~Parks(t)'
        BY <2>2, <3>2, <4>1 DEF RowKept, Parks
      <4>3. MayTurn(t)' <=> MayTurn(t)
        BY <2>1, <4>2 DEF MayTurn
      <4>4. RunSound(t, r)'
        BY <1>4, <4>1, <4>2 DEF TaskSound, RunSound
      <4>5. FlagsSound(t, r)'
        BY <1>4, <2>1, <2>2, <4>1, <4>2 DEF TaskSound, FlagsSound
      <4>6. PastSound(t, r)'
        BY <1>4, <2>1, <4>1, <4>2 DEF TaskSound, PastSound
      <4>7. OpenSound(t, r)'
        BY <1>2, <1>4, <2>2, <4>1, <4>2, <4>3 DEF TaskSound, OpenSound
      <4>8. StartupSound(t, r)'
        BY <1>2, <1>4 DEF StartupSound
      <4>. QED  BY <4>4, <4>5, <4>6, <4>7, <4>8 DEF TaskSound
    <3>. QED  BY <2>4, <3>1, <3>2
  <2>6. State(t)' # "absent"
    BY <1>4, <2>4
  <2>7. CASE In(t, "quarantined")
    <3>1. run' = [run EXCEPT ![t] = r]
      BY <1>3, <2>1, <2>7, InvParts
    <3>2. ~Queued(t)'
      BY <2>3, <2>4, <2>7 DEF Queued
    <3>. QED  BY <1>1, <1>2, <1>3, <1>4, <2>1, <2>2, <2>4, <2>5, <2>6, <3>1, <3>2, CallEnds
  <2>8. CASE ~In(t, "quarantined")
    <3>1. Schedule(run)
      BY <2>1, <2>8
    <3>2. ~(r.at = "none" /\ State(t)' = "queued")
      BY <2>4
    <3>. QED  BY <1>1, <1>2, <1>3, <1>4, <2>1, <2>2, <2>4, <2>5, <2>6, <3>1, <3>2, InvParts, CallHands
  <2>. QED  BY <2>7, <2>8
<1>. QED  BY <1>5, <1>6

LEMMA RecoverCommitSound ==
    ASSUME Inv, TypesNext, IdsLeft, NEW c \in Askers, call[c].kind # "none", RecoverCommit(c)
    PROVE  GatewayInv'
<1>1. PICK t : t = call[c].task
  OBVIOUS
<1>2. PICK r, e, op : r = run[t] /\ e = Evidence(c) /\ op = FreshOp
  OBVIOUS
<1>3. /\ LockFree /\ Answered(c) /\ Forgotten(c) /\ Serving /\ Schedule(run)
      /\ last' = last /\ phase' = phase
      /\ ResumeRecovered(t, e.gen, e.op, e.exec, e.first, op)
      /\ reserved' = [reserved EXCEPT ![t][op] = NextTurn(t)]
      /\ sets' = LET open == Dropping(sets, {"fenced", "pauseReq"}, t)
                 IN  IF tasks'[t].prio.level < 5 THEN Adding(open, "eligible", t) ELSE open
  BY <1>1, <1>2 DEF RecoverCommit, Serving
<1>4. /\ t \in Tasks /\ State(t) # "absent" /\ phase = "ready" /\ r.at \notin Holding /\ r \in Runs
      /\ TaskSound(t, r)
      /\ r.at = "turn" => State(t) \in {"running", "held"}
      /\ r.at # "none" /\ ~In(t, "stopping") => In(t, "eligible")
  BY <1>1, <1>2, <1>3, ServedFacts
<1>5. PICK a, b, f, first : a = e.gen /\ b = e.op /\ f = e.exec /\ first = e.first
  OBVIOUS
<1>6. Reserves(t) /\ State(t) \in {"interrupted", "parked"}
  <2>1. ResumeRecovered(t, a, b, f, first, op)
    BY <1>3, <1>5
  <2>. QED  BY <1>4, <2>1, InvParts, ResumeRecoveredEffect
<1>7. /\ prov'[t] = prov[t] /\ Prepared(t)' = {} /\ turns'[t] = turns[t] /\ ~tasks'[t].parkedLast
      /\ resumeTurn'[t] = turns[t] + 1 /\ State(t)' = "queued" /\ tasks'[t].hold = "none" /\ Only(t)
      /\ HasParkRow(t) => HasParkRow(t)'
  BY <1>6 DEF Reserves, HistoryKept
<1>8. op \in Ops /\ turns[t] \in Nat /\ resumeTurn[t] \in Nat /\ reserved \in [Tasks -> [Ops -> Nat]]
  BY <1>2, <1>4, Ids, InvParts DEF TablesTypeOK
<1>9. /\ reserved' \in [Tasks -> [Ops -> Nat]] /\ \A u \in Tasks \ {t} : reserved'[u] = reserved[u]
      /\ \A o \in Ops : reserved'[t][o] = turns[t] + 1 \/ reserved'[t][o] = reserved[t][o]
  <2>1. NextTurn(t) = turns[t] + 1 /\ turns[t] + 1 \in Nat
    BY <1>8 DEF NextTurn
  <2>. QED  BY <1>3, <1>4, <1>8, <2>1
<1>10. \A o \in Ops : reserved'[t][o] <= turns[t] + 1
  <2>1. \A o \in Ops : reserved[t][o] <= turns[t] + 1 /\ reserved[t][o] \in Nat
    BY <1>4, <1>8 DEF TaskSound, PastSound
  <2>. QED  BY <1>8, <1>9, <2>1
<1>11. /\ SetsOfOthers(t)
       /\ In(t, "winners")' <=> In(t, "winners")
       /\ In(t, "stopping")' <=> In(t, "stopping")
       /\ In(t, "quarantined")' <=> In(t, "quarantined")
       /\ In(t, "eligible") => In(t, "eligible")'
       /\ tasks'[t].prio.level < 5 => In(t, "eligible")'
  <2>1. CASE tasks'[t].prio.level < 5
    <3>1. sets' = Adding(Dropping(sets, {"fenced", "pauseReq"}, t), "eligible", t)
      BY <1>3, <2>1
    <3>. QED  BY <1>4, <3>1, ReadmittedSets
  <2>2. CASE ~(tasks'[t].prio.level < 5)
    <3>1. sets' = Dropping(sets, {"fenced", "pauseReq"}, t)
      BY <1>3, <2>2
    <3>. QED  BY <1>4, <2>2, <3>1, DroppedSets DEF SetNames
  <2>. QED  BY <2>1, <2>2
<1>12. RunSound(t, r)'
  BY <1>4, <1>6, <1>7, <1>11 DEF TaskSound, RunSound, Holding
<1>13. FlagsSound(t, r)'
  BY <1>3, <1>4, <1>7, <1>11 DEF TaskSound, FlagsSound, Holding
<1>14. PastSound(t, r)'
  BY <1>3, <1>4, <1>6, <1>7, <1>8, <1>10 DEF TaskSound, PastSound
<1>15. OpenSound(t, r)'
  BY <1>3, <1>4, <1>7 DEF OpenSound, Holding, MayTurn
<1>16. StartupSound(t, r)'
  BY <1>3, <1>4 DEF StartupSound
<1>17. TaskSound(t, r)'
  BY <1>12, <1>13, <1>14, <1>15, <1>16 DEF TaskSound
<1>18. \A d \in Clients \ {c} : ticket'[d].task = ticket[d].task
  BY <1>3, InvParts DEF Forgotten
<1>. QED  BY <1>1, <1>2, <1>3, <1>4, <1>7, <1>9, <1>11, <1>17, <1>18, CallHands

----------------------------------------------------------------------------
(* Startup, and the crash *)

(* Startup: nobody runs, nobody asks. *)
LEMMA StartupFacts ==
    ASSUME Inv, phase # "ready"
    PROVE  /\ \A u \in Tasks : /\ run[u].at = "none" /\ run[u].room = "no" /\ TaskSound(u, run[u])
                               /\ run[u].exec = NoExec /\ run[u].out = "none"
           /\ \A c \in Askers : call[c] = Idle
BY InvParts DEF TaskSound, StartupSound, RunSound, RoomSound, LockSound

LEMMA Stopped ==
    ASSUME Inv, TypesNext, phase' \in Phases \ {"ready"}, todo' \subseteq Tasks,
           last' = last, reserved' = reserved, sets' \in [SetNames -> SUBSET Tasks],
           run' \in [Tasks -> Runs], \A u \in Tasks : run'[u].at = "none" /\ run'[u].room = "no",
           call' \in [Askers -> Calls], \A c \in Askers : call'[c] = Idle,
           IsFiniteSet(Created'), \A u \in Tasks : TaskSound(u, run[u])'
    PROVE  GatewayInv'
<1>1. TypeOK'
  BY InvParts DEF TypesNext, TypeOK
<1>2. \A c \in Askers : ~Between(c)' /\ CallSound(c)'
  BY DEF Between, CallSound, Idle
<1>3. LockSound'
  BY <1>2 DEF LockSound, Holding
<1>4. Residents' = {}
  BY DEF Residents, Resident
<1>5. SlotsSound'
  <2>1. Cardinality(Residents') = 0 /\ Slots \in Nat
    BY <1>4, FS_EmptySet, GatewayAssumption
  <2>2. \A u \in Tasks : ~Queued(u)'
    BY DEF Queued
  <2>. QED  BY <1>4, <2>1, <2>2 DEF SlotsSound
<1>6. RoomSound'
  BY DEF RoomSound, Idle, Askers
<1>. QED  BY <1>1, <1>2, <1>3, <1>5, <1>6 DEF GatewayInv

(* A step of startup at task t. *)
LEMMA StartupSteps ==
    ASSUME Inv, TypesNext, NEW t \in Tasks, phase # "ready", phase' = phase,
           todo' \in {todo, todo \ {t}}, OwnTables, UNCHANGED <<run, call>>,
           Only(t), SetsOfOthers(t), State(t) # "absent", NEW r, r = run[t], TaskSound(t, r)'
    PROVE  GatewayInv'
<1>1. last' = last /\ reserved' = reserved /\ sets' \in [SetNames -> SUBSET Tasks]
  BY DEF OwnTables, SetsOfOthers
<1>2. \A u \in Tasks : TaskSound(u, run[u])'
  <2>1. TAKE u \in Tasks
  <2>2. CASE u = t
    BY <2>2
  <2>3. CASE u # t
    <3>1. PICK s : s = run[u]
      OBVIOUS
    <3>2. Stays(u) /\ (u \in todo' <=> u \in todo)
      BY <1>1, <2>3 DEF Stays, Only, SetsOfOthers, FlagsKept
    <3>3. TaskSound(u, s)'
      BY <3>1, <3>2, InvParts, StaySound
    <3>. QED  BY <3>1, <3>3
  <2>. QED  BY <2>2, <2>3
<1>3. Created' \subseteq Created
  BY DEF Created, Only, RowKept, State
<1>4. IsFiniteSet(Created')
  BY <1>3, InvParts, FS_Subset DEF SlotsSound
<1>5. phase \in Phases /\ todo \subseteq Tasks
  BY InvParts DEF TypeOK
<1>. QED  BY <1>1, <1>2, <1>4, <1>5, InvParts, StartupFacts, Stopped

LEMMA BootSound ==
    ASSUME Inv, TypesNext, Boot
    PROVE  GatewayInv'
<1>1. /\ phase = "down" /\ phase' = "recovering" /\ todo' = Created
      /\ UNCHANGED <<tables, last, reserved, sets, run, call>>
  BY DEF Boot, NoWrite, durable, Created
<1>2. ASSUME NEW t \in Tasks PROVE TaskSound(t, run[t])'
  <2>1. PICK r : r = run[t]
    OBVIOUS
  <2>2. r.at = "none" /\ TaskSound(t, r)
    BY <1>1, <2>1, StartupFacts
  <2>3. RowKept(t) /\ State(t)' = State(t) /\ tasks' = tasks /\ (HasParkRow(t)' <=> HasParkRow(t))
    BY <1>1, TablesStay
  <2>4. /\ prov'[t] = prov[t] /\ turns'[t] = turns[t] /\ Prepared(t)' = Prepared(t)
        /\ resumeTurn'[t] = resumeTurn[t]
    BY <2>3 DEF RowKept
  <2>5. (\A n : In(t, n)' <=> In(t, n)) /\ (Parks(t)' <=> Parks(t))
    BY <1>1, SetsStay
  <2>6. RunSound(t, r)'
    BY <2>2, <2>3, <2>4, <2>5 DEF TaskSound, RunSound
  <2>7. FlagsSound(t, r)'
    BY <1>1, <2>2, <2>3, <2>5 DEF TaskSound, FlagsSound
  <2>8. PastSound(t, r)'
    BY <1>1, <2>2, <2>3, <2>4 DEF TaskSound, PastSound
  <2>9. OpenSound(t, r)'
    BY <1>1 DEF OpenSound
  <2>10. StartupSound(t, r)'
    <3>1. t \in todo' <=> State(t) # "absent"
      BY <1>1 DEF Created
    <3>2. State(t) = "absent" => Prepared(t) = {}
      BY <2>2 DEF TaskSound, PastSound
    <3>. QED  BY <1>1, <2>2, <2>3, <2>4, <3>1, <3>2 DEF StartupSound, Seen
  <2>11. TaskSound(t, r)'
    BY <2>6, <2>7, <2>8, <2>9, <2>10 DEF TaskSound
  <2>. QED  BY <1>1, <2>1, <2>11
<1>3. IsFiniteSet(Created')
  <2>1. Created' = Created
    BY <1>1 DEF Created, State, tables
  <2>. QED  BY <2>1, InvParts DEF SlotsSound
<1>4. todo' \subseteq Tasks
  BY <1>1 DEF Created
<1>. QED  BY <1>1, <1>2, <1>3, <1>4, InvParts, StartupFacts, Stopped DEF Phases

LEMMA RecoveredSound ==
    ASSUME Inv, TypesNext, Recovered
    PROVE  GatewayInv'
<1>1. /\ phase = "recovering" /\ phase' = "admitting" /\ todo = {} /\ todo' = {t \in Tasks : Live(t)}
      /\ UNCHANGED <<tables, last, reserved, sets, run, call>>
  BY DEF Recovered, NoWrite, durable
<1>2. ASSUME NEW t \in Tasks PROVE TaskSound(t, run[t])'
  <2>1. PICK r : r = run[t]
    OBVIOUS
  <2>2. r.at = "none" /\ TaskSound(t, r)
    BY <1>1, <2>1, StartupFacts
  <2>3. RowKept(t) /\ State(t)' = State(t) /\ tasks' = tasks /\ (HasParkRow(t)' <=> HasParkRow(t))
    BY <1>1, TablesStay
  <2>4. /\ prov'[t] = prov[t] /\ turns'[t] = turns[t] /\ Prepared(t)' = Prepared(t)
        /\ resumeTurn'[t] = resumeTurn[t]
    BY <2>3 DEF RowKept
  <2>5. (\A n : In(t, n)' <=> In(t, n)) /\ (Parks(t)' <=> Parks(t))
    BY <1>1, SetsStay
  <2>6. RunSound(t, r)'
    BY <2>2, <2>3, <2>4, <2>5 DEF TaskSound, RunSound
  <2>7. FlagsSound(t, r)'
    BY <1>1, <2>2, <2>3, <2>5 DEF TaskSound, FlagsSound
  <2>8. PastSound(t, r)'
    BY <1>1, <2>2, <2>3, <2>4 DEF TaskSound, PastSound
  <2>9. OpenSound(t, r)'
    BY <1>1 DEF OpenSound
  <2>10. StartupSound(t, r)'
    <3>1. Live(t)' <=> Live(t)
      BY <2>3 DEF Live
    <3>2. t \in todo' <=> Live(t)
      BY <1>1
    <3>3. MayTurn(t)' <=> MayTurn(t)
      BY <1>1, <2>4 DEF MayTurn
    <3>4. Seen(t)
      BY <1>1 DEF Seen
    <3>. QED  BY <1>1, <2>2, <2>3, <2>4, <3>1, <3>2, <3>3, <3>4 DEF TaskSound, StartupSound, Seen
  <2>11. TaskSound(t, r)'
    BY <2>6, <2>7, <2>8, <2>9, <2>10 DEF TaskSound
  <2>. QED  BY <1>1, <2>1, <2>11
<1>3. IsFiniteSet(Created')
  <2>1. Created' = Created
    BY <1>1 DEF Created, State, tables
  <2>. QED  BY <2>1, InvParts DEF SlotsSound
<1>4. todo' \subseteq Tasks
  BY <1>1
<1>. QED  BY <1>1, <1>2, <1>3, <1>4, InvParts, StartupFacts, Stopped DEF Phases

LEMMA CrashSound ==
    ASSUME Inv, TypesNext, Crash
    PROVE  GatewayInv'
<1>1. /\ phase' = "down" /\ todo' = {} /\ sets' = NoSets /\ run' = [t \in Tasks |-> NoRun]
      /\ call' = [c \in Askers |-> Idle] /\ UNCHANGED <<tables, last, reserved>>
  BY DEF Crash, NoWrite, durable
<1>2. PICK r : r = NoRun
  OBVIOUS
<1>3. /\ r \in Runs /\ r.at = "none" /\ r.exec = NoExec /\ ~r.fenced /\ r.out = "none"
      /\ r.point = "none" /\ r.pending = NoExec /\ r.room = "no"
  BY <1>2 DEF NoRun, Runs, Places, Outs, Points, Rooms
<1>4. ASSUME NEW t \in Tasks PROVE TaskSound(t, run[t])'
  <2>2. TaskSound(t, run[t])
    BY InvParts
  <2>3. RowKept(t) /\ State(t)' = State(t) /\ tasks' = tasks /\ (HasParkRow(t)' <=> HasParkRow(t))
    BY <1>1, TablesStay
  <2>4. /\ prov'[t] = prov[t] /\ turns'[t] = turns[t] /\ Prepared(t)' = Prepared(t)
        /\ resumeTurn'[t] = resumeTurn[t]
    BY <2>3 DEF RowKept
  <2>5. \A n \in SetNames : ~In(t, n)'
    BY <1>1 DEF In, NoSets
  <2>6. RunSound(t, r)'
    BY <1>3 DEF RunSound, Early, Late
  <2>7. FlagsSound(t, r)'
    BY <1>3, <2>5 DEF FlagsSound, SetNames
  <2>8. PastSound(t, r)'
    BY <1>1, <1>3, <2>2, <2>3, <2>4 DEF TaskSound, PastSound
  <2>9. OpenSound(t, r)'
    BY <1>1 DEF OpenSound
  <2>10. StartupSound(t, r)'
    BY <1>1, <1>3 DEF StartupSound, Seen
  <2>11. TaskSound(t, r)'
    BY <2>6, <2>7, <2>8, <2>9, <2>10 DEF TaskSound
  <2>. QED  BY <1>1, <1>2, <2>11
<1>5. IsFiniteSet(Created')
  <2>1. Created' = Created
    BY <1>1 DEF Created, State, tables
  <2>. QED  BY <2>1, InvParts DEF SlotsSound
<1>6. /\ run' \in [Tasks -> Runs] /\ \A u \in Tasks : run'[u].at = "none" /\ run'[u].room = "no"
      /\ sets' \in [SetNames -> SUBSET Tasks]
  BY <1>1, <1>2, <1>3 DEF NoSets
<1>7. call' \in [Askers -> Calls] /\ \A c \in Askers : call'[c] = Idle
  BY <1>1, IdleCall
<1>. QED  BY <1>1, <1>4, <1>5, <1>6, <1>7, Stopped DEF Phases

LEMMA RestSound ==
    ASSUME Inv, phase # "ready", phase' = phase, NEW t \in Tasks, NEW r, r = run[t], turns' = turns,
           In(t, "winners")' => In(t, "winners"), In(t, "quarantined")' => In(t, "quarantined"),
           PastSound(t, r)', StartupSound(t, r)'
    PROVE  TaskSound(t, r)'
<1>1. /\ r.at = "none" /\ TaskSound(t, r) /\ r.exec = NoExec /\ r.out = "none"
  BY StartupFacts
<1>2. RunSound(t, r)'
  BY <1>1 DEF TaskSound, RunSound, Early, Late
<1>3. FlagsSound(t, r)'
  BY <1>1 DEF TaskSound, FlagsSound, Late
<1>4. OpenSound(t, r)'
  BY DEF OpenSound
<1>. QED  BY <1>2, <1>3, <1>4 DEF TaskSound

LEMMA LeaveAsIsSound ==
    ASSUME Inv, TypesNext, NEW t \in Tasks, LeaveAsIs(t)
    PROVE  GatewayInv'
<1>1. /\ phase = "recovering" /\ phase' = phase /\ t \in todo /\ todo' = todo \ {t}
      /\ Prepared(t) = {} /\ LeftAsIs(t) /\ UNCHANGED tables
      /\ UNCHANGED <<sets, run, call, ticket, last, reserved>> /\ OwnTables
  BY DEF LeaveAsIs, Starting, OwnTables
<1>2. PICK r : r = run[t]
  OBVIOUS
<1>3. /\ r.at = "none" /\ TaskSound(t, r) /\ RowFacts(t) /\ turns[t] \in Nat /\ resumeTurn[t] \in Nat
  BY <1>1, <1>2, InvParts, StartupFacts DEF TablesTypeOK
<1>4. State(t) # "absent"
  BY <1>1, <1>3 DEF TaskSound, StartupSound
<1>5. Only(t) /\ RowKept(t) /\ State(t)' = State(t) /\ tasks' = tasks /\ (HasParkRow(t)' <=> HasParkRow(t))
  BY <1>1, TablesStay
<1>6. /\ prov'[t] = prov[t] /\ turns'[t] = turns[t] /\ Prepared(t)' = Prepared(t)
      /\ resumeTurn'[t] = resumeTurn[t] /\ turns' = turns
  BY <1>1, <1>5 DEF RowKept, tables
<1>7. SetsOfOthers(t) /\ \A n : In(t, n)' <=> In(t, n)
  BY <1>1, SetsStay
<1>8. PastSound(t, r)'
  BY <1>1, <1>3, <1>5, <1>6 DEF TaskSound, PastSound
<1>9. State(t) \notin {"running", "held"}
  BY <1>1 DEF LeftAsIs, Terminal
<1>10. State(t) \in {"queued", "parked"} => MayTurn(t)
  BY <1>1, <1>3 DEF LeftAsIs, Terminal, ResumeWaits, RowFacts, TaskSound, PastSound, MayTurn
<1>11. MayTurn(t)' <=> MayTurn(t)
  BY <1>1, <1>6 DEF MayTurn
<1>12. StartupSound(t, r)'
  BY <1>1, <1>3, <1>5, <1>6, <1>9, <1>10, <1>11 DEF StartupSound, Seen
<1>13. TaskSound(t, r)'
  BY <1>1, <1>2, <1>6, <1>7, <1>8, <1>12, RestSound
<1>. QED  BY <1>1, <1>2, <1>4, <1>5, <1>7, <1>13, StartupSteps

LEMMA ResolveIntentSound ==
    ASSUME Inv, TypesNext, NEW t \in Tasks, ResolveIntent(t)
    PROVE  GatewayInv'
<1>1. /\ phase = "recovering" /\ phase' = phase /\ t \in todo /\ todo' = todo
      /\ UNCHANGED <<sets, run, call, ticket, last, reserved>> /\ OwnTables
  BY DEF ResolveIntent, Starting, OwnTables
<1>2. PICK i \in Prepared(t) : Commit(i) \/ Supersede(i, Gen(t), Op(t))
  BY DEF ResolveIntent
<1>3. PICK r, g, p : r = run[t] /\ g = Gen(t) /\ p = Op(t)
  OBVIOUS
<1>4. /\ r.at = "none" /\ TaskSound(t, r) /\ i.task = t /\ r.out = "none"
  BY <1>1, <1>2, <1>3, StartupFacts DEF Prepared
<1>5. State(t) # "absent"
  BY <1>1, <1>4 DEF TaskSound, StartupSound
<1>6. /\ i.outcome \in {"interrupted"} \cup TurnOuts /\ (i.outcome = "done" => last[t].status = "done")
      /\ Prepared(t) = {i}
  BY <1>2, <1>4 DEF TaskSound, PastSound
<1>7. /\ Only(t) /\ turns' = turns /\ resumeTurn' = resumeTurn /\ Prepared(t)' = {}
      /\ HasParkRow(t) => HasParkRow(t)'
      /\ tasks'[t].parkedLast = tasks[t].parkedLast
      /\ prov'[t].first # "absent"
      /\ prov'[t].first \in {"started", "unknown"} => prov'[t].exec # NoExec
      /\ State(t)' \in {State(t), i.outcome}
  <2>1. CASE Commit(i)
    <3>1. /\ Only(t) /\ UNCHANGED <<turns, resumeTurn>> /\ Prepared(t)' = Prepared(t) \ {i}
          /\ HasParkRow(t) => HasParkRow(t)'
          /\ State(t)' = i.outcome /\ tasks'[t].parkedLast = tasks[t].parkedLast
          /\ prov'[t].exec = i.exec /\ prov'[t].first # "absent" /\ i.exec \in Execs
      BY <1>4, <2>1, InvParts, CommitEffect
    <3>2. i.exec # NoExec
      BY <3>1, TablesAssumption
    <3>. QED  BY <1>6, <3>1, <3>2
  <2>2. CASE Supersede(i, Gen(t), Op(t))
    <3>1. Supersede(i, g, p)
      BY <1>3, <2>2
    <3>2. /\ Only(t) /\ UNCHANGED <<tasks, park, prov, turns, resumeTurn>>
          /\ Prepared(t)' = Prepared(t) \ {i}
      BY <1>4, <3>1, InvParts, SupersedeEffect
    <3>3. State(t)' = State(t) /\ (HasParkRow(t)' <=> HasParkRow(t))
      BY <3>2 DEF State, HasParkRow
    <3>. QED  BY <1>4, <1>5, <1>6, <3>2, <3>3 DEF TaskSound, PastSound
  <2>. QED  BY <1>2, <2>1, <2>2
<1>8. SetsOfOthers(t) /\ \A n : In(t, n)' <=> In(t, n)
  BY <1>1, SetsStay
<1>9. State(t)' # "absent" /\ (State(t)' = "done" => last[t].status = "done")
  BY <1>4, <1>5, <1>6, <1>7 DEF TaskSound, PastSound, TurnOuts
<1>10. PastSound(t, r)'
  BY <1>1, <1>4, <1>7, <1>9 DEF TaskSound, PastSound
<1>11. StartupSound(t, r)'
  BY <1>1, <1>4, <1>9 DEF StartupSound, Seen
<1>12. TaskSound(t, r)'
  BY <1>1, <1>3, <1>7, <1>8, <1>10, <1>11, RestSound
<1>. QED  BY <1>1, <1>3, <1>5, <1>7, <1>8, <1>12, StartupSteps

LEMMA ClassifySound ==
    ASSUME Inv, TypesNext, NEW t \in Tasks, Classify(t)
    PROVE  GatewayInv'
<1>1. /\ phase = "recovering" /\ phase' = phase /\ t \in todo /\ todo' = todo
      /\ UNCHANGED <<sets, run, call, ticket, last, reserved>> /\ OwnTables
  BY DEF Classify, Starting, OwnTables
<1>2. PICK outcome, card, crash :
         /\ Prepare(t, Gen(t), Op(t), prov[t].exec, outcome, card, crash, TRUE)
         /\ outcome = "interrupted" \/ (outcome = last[t].status /\ outcome \in TurnOuts)
  BY DEF Classify, FinishedRun
<1>3. PICK r, g, p, e : r = run[t] /\ g = Gen(t) /\ p = Op(t) /\ e = prov[t].exec
  OBVIOUS
<1>4. /\ r.at = "none" /\ TaskSound(t, r)
  BY <1>1, <1>3, StartupFacts
<1>5. State(t) # "absent"
  BY <1>1, <1>4 DEF TaskSound, StartupSound
<1>6. PICK unsafe : unsafe = TRUE
  OBVIOUS
<1>7. /\ Only(t) /\ UNCHANGED <<tasks, prov, turns, resumeTurn>>
      /\ HasParkRow(t) => HasParkRow(t)'
      /\ \E i : Prepared(t)' = {i} /\ i.outcome = outcome /\ i.state = State(t)
  <2>1. Prepare(t, g, p, e, outcome, card, crash, unsafe)
    BY <1>2, <1>3, <1>6
  <2>. QED  BY <2>1, InvParts, PrepareEffect
<1>8. SetsOfOthers(t) /\ \A n : In(t, n)' <=> In(t, n)
  BY <1>1, SetsStay
<1>9. State(t)' = State(t)
  BY <1>7 DEF State
<1>10. PICK i : Prepared(t)' = {i} /\ i.outcome = outcome
  BY <1>7
<1>11. \A j \in Prepared(t)' :
          /\ j.outcome \in {"interrupted"} \cup TurnOuts
          /\ j.outcome = "done" => last'[t].status = "done"
          /\ \A k \in Prepared(t)' : j = k
  BY <1>1, <1>2, <1>10
<1>12. PastSound(t, r)'
  BY <1>1, <1>4, <1>5, <1>7, <1>9, <1>11 DEF TaskSound, PastSound
<1>13. StartupSound(t, r)'
  BY <1>1, <1>4, <1>5, <1>9 DEF StartupSound, Seen
<1>14. TaskSound(t, r)'
  BY <1>1, <1>3, <1>7, <1>8, <1>12, <1>13, RestSound
<1>. QED  BY <1>1, <1>3, <1>5, <1>7, <1>8, <1>14, StartupSteps

LEMMA AdmitSound ==
    ASSUME Inv, TypesNext, NEW t \in Tasks, Admit(t)
    PROVE  GatewayInv'
<1>1. /\ phase = "admitting" /\ phase' = phase /\ t \in todo /\ todo' = todo \ {t}
      /\ UNCHANGED <<run, call, ticket, last, reserved>> /\ OwnTables
      /\ \/ sets' = Adding(sets, "fenced", t) /\ UNCHANGED tables
         \/ /\ Readmitted(t) /\ sets' = Adding(sets, "eligible", t)
            /\ IF State(t) = "interrupted" THEN ChangeState(t, Keep, "queued")
                                           ELSE UNCHANGED tables
  BY DEF Admit, OwnTables
<1>2. PICK r, choice : r = run[t] /\ choice = Keep
  OBVIOUS
<1>3. /\ r.at = "none" /\ TaskSound(t, r) /\ turns[t] \in Nat /\ resumeTurn[t] \in Nat /\ r.out = "none"
      /\ sets \in [SetNames -> SUBSET Tasks] /\ "eligible" \in SetNames /\ "fenced" \in SetNames
  BY <1>1, <1>2, InvParts, StartupFacts DEF TablesTypeOK, SetNames
<1>4. /\ Prepared(t) = {} /\ State(t) \notin {"running", "held"}
      /\ State(t) \in {"queued", "parked"} => MayTurn(t)
  BY <1>1, <1>3 DEF TaskSound, StartupSound, Seen
<1>5. /\ SetsOfOthers(t) /\ (In(t, "winners")' <=> In(t, "winners"))
      /\ In(t, "quarantined")' <=> In(t, "quarantined")
      /\ sets' = Adding(sets, "fenced", t) => In(t, "fenced")'
      /\ sets' = Adding(sets, "eligible", t) => In(t, "eligible")'
  <2>1. ASSUME NEW name \in {"fenced", "eligible"}, sets' = Adding(sets, name, t)
        PROVE  /\ SetsOfOthers(t) /\ In(t, name)' /\ (In(t, "winners")' <=> In(t, "winners"))
               /\ In(t, "quarantined")' <=> In(t, "quarantined")
    <3>1. name \in SetNames
      BY <1>3
    <3>2. /\ sets' \in [SetNames -> SUBSET Tasks]
          /\ \A u, n : n \in SetNames => (u \in sets'[n] <=> u \in sets[n] \/ (n = name /\ u = t))
      BY <1>3, <2>1, <3>1, AddingIs
    <3>. QED  BY <3>1, <3>2 DEF SetsOfOthers, In, SetNames
  <2>. QED  BY <1>1, <2>1
<1>6. CASE UNCHANGED tables /\ (sets' = Adding(sets, "fenced", t) \/ Readmitted(t))
  <2>1. Only(t) /\ RowKept(t) /\ State(t)' = State(t) /\ tasks' = tasks /\ (HasParkRow(t)' <=> HasParkRow(t))
    BY <1>6, TablesStay
  <2>2. /\ prov'[t] = prov[t] /\ turns'[t] = turns[t] /\ Prepared(t)' = Prepared(t)
        /\ resumeTurn'[t] = resumeTurn[t] /\ turns' = turns
    BY <1>6, <2>1 DEF RowKept, tables
  <2>3. PastSound(t, r)'
    BY <1>1, <1>3, <2>1, <2>2 DEF TaskSound, PastSound
  <2>4. MayTurn(t)' <=> MayTurn(t)
    BY <1>1, <2>2 DEF MayTurn
  <2>5. Live(t)' => In(t, "fenced")' \/ (In(t, "eligible")' /\ State(t)' # "interrupted")
    <3>1. CASE sets' = Adding(sets, "fenced", t)
      BY <1>5, <3>1
    <3>2. CASE sets' # Adding(sets, "fenced", t)
      <4>1. sets' = Adding(sets, "eligible", t) /\ Readmitted(t)
            /\ (State(t) = "interrupted" => ChangeState(t, Keep, "queued"))
        BY <1>1, <3>2
      <4>2. State(t) # "interrupted"
        <5>1. ASSUME State(t) = "interrupted" PROVE FALSE
          <6>1. ChangeState(t, choice, "queued") /\ choice = Keep
            BY <1>2, <4>1, <5>1
          <6>2. State(t)' = "queued"
            BY <6>1, InvParts, ChangeStateEffect
          <6>. QED  BY <2>1, <5>1, <6>2
        <5>. QED  BY <5>1
      <4>. QED  BY <1>5, <2>1, <4>1, <4>2
    <3>. QED  BY <3>1, <3>2
  <2>6. StartupSound(t, r)'
    BY <1>1, <1>3, <1>4, <2>1, <2>2, <2>4, <2>5 DEF StartupSound, Seen
  <2>7. TaskSound(t, r)'
    BY <1>1, <1>2, <1>5, <2>2, <2>3, <2>6, RestSound
  <2>8. Only(t) /\ SetsOfOthers(t) /\ State(t)' = State(t)
    BY <1>5, <2>1
  <2>9. CASE State(t) # "absent"
    BY <1>1, <1>2, <2>7, <2>8, <2>9, StartupSteps
  <2>10. CASE State(t) = "absent"
    <3>1. Created' \subseteq Created
      BY <2>8 DEF Created, Only, RowKept, State
    <3>2. IsFiniteSet(Created')
      BY <3>1, InvParts, FS_Subset DEF SlotsSound
    <3>3. \A u \in Tasks : TaskSound(u, run[u])'
      <4>1. TAKE u \in Tasks
      <4>2. CASE u = t
        BY <1>1, <1>2, <2>7, <4>2
      <4>3. CASE u # t
        <5>1. PICK s : s = run[u]
          OBVIOUS
        <5>2. Stays(u) /\ (u \in todo' <=> u \in todo)
          BY <1>1, <2>8, <4>3 DEF Stays, Only, SetsOfOthers, FlagsKept
        <5>3. TaskSound(u, s)'
          BY <1>1, <5>1, <5>2, InvParts, StaySound
        <5>. QED  BY <1>1, <5>1, <5>3
      <4>. QED  BY <4>2, <4>3
    <3>4. phase' \in Phases \ {"ready"} /\ todo' \subseteq Tasks
      BY <1>1, InvParts DEF TypeOK, Phases
    <3>. QED  BY <1>1, <2>8, <3>2, <3>3, <3>4, InvParts, StartupFacts, Stopped DEF SetsOfOthers
  <2>. QED  BY <2>9, <2>10
<1>7. CASE /\ Readmitted(t) /\ sets' = Adding(sets, "eligible", t) /\ State(t) = "interrupted"
           /\ ChangeState(t, Keep, "queued")
  <2>1. ChangeState(t, choice, "queued") /\ choice \in 0..4 \cup {Keep}
    BY <1>2, <1>7
  <2>2. /\ Only(t) /\ OwnKept(t) /\ UNCHANGED <<turns, resumeTurn>> /\ State(t)' = "queued"
    BY <2>1, InvParts, ChangeStateEffect
  <2>3. /\ prov'[t] = prov[t] /\ turns'[t] = turns[t] /\ Prepared(t)' = {}
        /\ resumeTurn'[t] = resumeTurn[t] /\ (tasks'[t].parkedLast => tasks[t].parkedLast)
        /\ HasParkRow(t) => HasParkRow(t)'
    BY <1>4, <2>2 DEF OwnKept, HistoryKept
  <2>4. PastSound(t, r)'
    BY <1>1, <1>3, <1>7, <2>2, <2>3 DEF TaskSound, PastSound
  <2>5. MayTurn(t)'
    <3>1. turns[t] < resumeTurn[t] /\ resumeTurn[t] <= turns[t] + 1
      BY <1>3, <1>7 DEF Readmitted, ResumeWaits, TaskSound, PastSound
    <3>. QED  BY <1>3, <2>2, <3>1 DEF MayTurn
  <2>6. StartupSound(t, r)'
    BY <1>1, <1>3, <1>5, <1>7, <2>2, <2>3, <2>5 DEF StartupSound, Seen
  <2>7. TaskSound(t, r)'
    BY <1>1, <1>2, <1>5, <2>2, <2>4, <2>6, RestSound
  <2>. QED  BY <1>1, <1>2, <1>5, <1>7, <2>2, <2>7, StartupSteps
<1>. QED  BY <1>1, <1>6, <1>7

LEMMA OpenEndsSound ==
    ASSUME Inv, TypesNext, OpenEnds
    PROVE  GatewayInv'
<1>1. /\ phase = "admitting" /\ phase' = "ready" /\ todo = {} /\ todo' = todo
      /\ UNCHANGED <<tables, last, reserved, sets, call, ticket>> /\ Schedule(run)
  BY DEF OpenEnds, NoWrite, durable
<1>2. PICK after : after = run
  OBVIOUS
<1>3. after \in [Tasks -> Runs] /\ Schedule(after) /\ sets \in [SetNames -> SUBSET Tasks]
  BY <1>1, <1>2, InvParts
<1>4. /\ run' \in [Tasks -> Runs]
      /\ \A u \in Tasks :
            /\ Alike(run'[u], after[u]) \/ Chosen(u, after)
            /\ run'[u].room = after[u].room \/ (after[u].room = "no" /\ State(u)' # "absent")
  BY <1>3, ScheduleView
<1>5. ASSUME NEW t \in Tasks
      PROVE  /\ TaskSound(t, after[t])' /\ (after[t].at = "none" /\ after[t].room = "no")
             /\ (State(t)' = "queued" /\ ~In(t, "fenced")' => In(t, "eligible")')
  <2>1. PICK r : r = after[t]
    OBVIOUS
  <2>2. r.at = "none" /\ TaskSound(t, r) /\ r.room = "no" /\ r.out = "none"
    BY <1>1, <1>2, <2>1, StartupFacts
  <2>3. RowKept(t) /\ State(t)' = State(t) /\ tasks' = tasks /\ (HasParkRow(t)' <=> HasParkRow(t))
    BY <1>1, TablesStay
  <2>4. /\ prov'[t] = prov[t] /\ turns'[t] = turns[t] /\ Prepared(t)' = Prepared(t)
        /\ resumeTurn'[t] = resumeTurn[t]
    BY <2>3 DEF RowKept
  <2>5. (\A n : In(t, n)' <=> In(t, n)) /\ (Parks(t)' <=> Parks(t))
    BY <1>1, SetsStay
  <2>6. RunSound(t, r)'
    BY <2>2, <2>3, <2>4, <2>5 DEF TaskSound, RunSound
  <2>7. FlagsSound(t, r)'
    BY <1>1, <2>2, <2>3, <2>5 DEF TaskSound, FlagsSound
  <2>8. PastSound(t, r)'
    BY <1>1, <2>2, <2>3, <2>4 DEF TaskSound, PastSound
  <2>9. /\ State(t) \notin {"running", "held"} /\ Prepared(t) = {}
        /\ State(t) \in {"queued", "parked"} => MayTurn(t)
        /\ Live(t) => In(t, "fenced") \/ (In(t, "eligible") /\ State(t) # "interrupted")
    BY <1>1, <2>2 DEF TaskSound, StartupSound, Seen
  <2>10. MayTurn(t)' <=> MayTurn(t)
    BY <1>1, <2>4 DEF MayTurn
  <2>11. OpenSound(t, r)'
    BY <2>2, <2>3, <2>4, <2>5, <2>9, <2>10 DEF OpenSound, Live, Open, Early
  <2>12. StartupSound(t, r)'
    BY <1>1 DEF StartupSound
  <2>13. TaskSound(t, r)'
    BY <2>6, <2>7, <2>8, <2>11, <2>12 DEF TaskSound
  <2>14. State(t)' = "queued" /\ ~In(t, "fenced")' => In(t, "eligible")'
    BY <2>3, <2>5, <2>9 DEF Live, Open
  <2>. QED  BY <1>1, <1>2, <2>1, <2>2, <2>13, <2>14
<1>6. ASSUME NEW u \in Tasks PROVE TaskSound(u, run[u])'
  <2>1. PICK r, s : r = after[u] /\ s = run'[u]
    OBVIOUS
  <2>2. TaskSound(u, r)' /\ r \in Runs
    BY <1>1, <1>2, <1>3, <1>5, <2>1
  <2>3. CASE Alike(run'[u], after[u])
    <3>1. TaskSound(u, s)'
      BY <2>1, <2>2, <2>3, AlikeSound
    <3>. QED  BY <2>1, <3>1
  <2>4. CASE Chosen(u, after)
    <3>1. /\ r.at = "none" /\ s = [r EXCEPT !.at = "check"]
          /\ State(u)' = "queued" /\ In(u, "eligible")' /\ phase' = "ready"
      BY <1>1, <2>1, <2>4 DEF Chosen, In
    <3>2. /\ s.at = "check" /\ s.exec = r.exec /\ s.fenced = r.fenced /\ s.out = r.out
          /\ s.point = r.point /\ s.pending = r.pending
      BY <2>2, <3>1 DEF Runs
    <3>3. TaskSound(u, s)'
      BY <2>2, <3>1, <3>2, ChosenSound
    <3>. QED  BY <2>1, <3>3
  <2>. QED  BY <1>4, <2>3, <2>4
<1>7. \A c \in Askers : call'[c] = Idle
  BY <1>1, StartupFacts
<1>8. \A c \in Askers : ~Between(c)' /\ CallSound(c)'
  BY <1>7 DEF Between, CallSound, Idle
<1>9. \A u \in Tasks : run'[u].at \notin Holding
  <2>1. TAKE u \in Tasks
  <2>2. after[u] \in Runs /\ after[u].at = "none"
    BY <1>2, <1>3, <1>5
  <2>3. CASE Alike(run'[u], after[u])
    BY <2>2, <2>3 DEF Alike, Holding
  <2>4. CASE Chosen(u, after)
    <3>1. run'[u].at = "check"
      BY <2>2, <2>4 DEF Chosen, Runs
    <3>. QED  BY <3>1 DEF Holding
  <2>. QED  BY <1>4, <2>3, <2>4
<1>10. LockSound'
  BY <1>1, <1>8, <1>9 DEF LockSound
<1>11. RoomSound'
  BY <1>1, <1>4, <1>5, <1>7 DEF RoomSound, Idle, Askers
<1>12. SlotsSound'
  <2>1. Created' = Created
    BY <1>1 DEF Created, State, tables
  <2>2. Taken(after) = {}
    BY <1>5 DEF Taken
  <2>3. Cardinality(Taken(after)) <= Slots /\ Taken(after) \subseteq Created'
    BY <2>2, FS_EmptySet, GatewayAssumption
  <2>4. \A u \in Tasks : Queued(u)' => u \in sets'["eligible"]
    BY <1>5 DEF Queued, In
  <2>. QED  BY <1>3, <2>1, <2>3, <2>4, InvParts, ScheduleFills DEF SlotsSound
<1>13. TypeOK'
  BY <1>1, <1>4, InvParts DEF TypesNext, TypeOK, Phases
<1>. QED  BY <1>6, <1>8, <1>10, <1>11, <1>12, <1>13 DEF GatewayInv

----------------------------------------------------------------------------
(* The steps together *)

LEMMA StartupStepSound ==
    ASSUME Inv, TypesNext, Startup
    PROVE  GatewayInv'
<1>1. CASE \E t \in Tasks : ResolveIntent(t) \/ LeaveAsIs(t) \/ Classify(t) \/ Admit(t)
  <2>1. PICK t \in Tasks : ResolveIntent(t) \/ LeaveAsIs(t) \/ Classify(t) \/ Admit(t)
    BY <1>1
  <2>2. CASE ResolveIntent(t)
    BY <2>2, ResolveIntentSound
  <2>3. CASE LeaveAsIs(t)
    BY <2>3, LeaveAsIsSound
  <2>4. CASE Classify(t)
    BY <2>4, ClassifySound
  <2>5. CASE Admit(t)
    BY <2>5, AdmitSound
  <2>. QED  BY <2>1, <2>2, <2>3, <2>4, <2>5
<1>2. CASE Boot
  BY <1>2, BootSound
<1>3. CASE Recovered
  BY <1>3, RecoveredSound
<1>4. CASE OpenEnds
  BY <1>4, OpenEndsSound
<1>. QED  BY <1>1, <1>2, <1>3, <1>4 DEF Startup

LEMMA RunStepSound ==
    ASSUME Inv, TypesNext, IdsLeft, NEW t \in Tasks, RunStep(t)
    PROVE  GatewayInv'
<1>1. CASE Launching(t)
  <2>1. CASE Check(t)
    BY <2>1, CheckSound
  <2>2. CASE Gate(t)
    BY <2>2, GateSound
  <2>3. CASE FenceFirst(t)
    BY <2>3, FenceFirstSound
  <2>4. CASE Fenced(t)
    BY <2>4, FencedSound
  <2>5. CASE FenceOrdinary(t)
    BY <2>5, FenceOrdinarySound
  <2>6. CASE Register(t)
    BY <2>6, RegisterSound
  <2>7. CASE StartTurn(t)
    BY <2>7, StartTurnSound
  <2>8. CASE BeginTurn(t)
    BY <2>8, BeginTurnSound
  <2>. QED  BY <1>1, <2>1, <2>2, <2>3, <2>4, <2>5, <2>6, <2>7, <2>8 DEF Launching
<1>2. CASE InTurn(t)
  <2>1. CASE HoldCall(t) \/ ReleaseCall(t)
    BY <2>1, HoldCallSound
  <2>2. CASE CallStarts(t)
    BY <2>2, AskSound
  <2>3. CASE TurnEnds(t)
    BY <2>3, TurnEndsSound
  <2>. QED  BY <1>2, <2>1, <2>2, <2>3 DEF InTurn
<1>3. CASE Ending(t)
  <2>1. CASE Close(t)
    BY <2>1, CloseSound
  <2>2. CASE FinalizePark(t)
    BY <2>2, FinalizeParkSound
  <2>3. CASE FinalizeFails(t)
    BY <2>3, FinalizeFailsSound
  <2>4. CASE FinalizeStuck(t)
    BY <2>4, FinalizeStuckSound
  <2>5. CASE SettleBroken(t)
    BY <2>5, SettleBrokenSound
  <2>6. CASE SettleIntent(t)
    BY <2>6, SettleIntentSound
  <2>7. CASE SettleKept(t)
    BY <2>7, SettleKeptSound
  <2>8. CASE Settle(t)
    BY <2>8, SettleSound
  <2>. QED  BY <1>3, <2>1, <2>2, <2>3, <2>4, <2>5, <2>6, <2>7, <2>8 DEF Ending
<1>. QED  BY <1>1, <1>2, <1>3 DEF RunStep

LEMMA ServeSound ==
    ASSUME Inv, TypesNext, IdsLeft, NEW c \in Askers, Serve(c)
    PROVE  GatewayInv'
<1>1. call[c].kind # "none"
  BY DEF Serve
<1>2. phase = "ready"
  BY <1>1, InvParts DEF LockSound, Idle
<1>3. CASE Unavailable(c) \/ PauseRefused(c) \/ ResumeRefused(c) \/ LevelRefused(c)
  BY <1>1, <1>3, RefusedSound
<1>4. CASE ParkAwaited(c)
  BY <1>1, <1>2, <1>4, ParkAwaitedSound
<1>5. CASE PauseAgain(c)
  BY <1>5, PauseAgainSound
<1>6. CASE PauseBusy(c)
  BY <1>6, PauseBusySound
<1>7. CASE PauseHold(c)
  BY <1>7, PauseHoldSound
<1>8. CASE PauseIdle(c)
  BY <1>8, PauseIdleSound
<1>9. CASE ResumeFirst(c)
  BY <1>9, ResumeFirstSound
<1>10. CASE ResumeRelease(c)
  BY <1>10, ResumeReleaseSound
<1>11. CASE ResumeSecond(c)
  BY <1>11, ResumeSecondSound
<1>12. CASE LevelSet(c)
  BY <1>12, LevelSetSound
<1>13. CASE StopServed(c)
  BY <1>13, StopServedSound
<1>14. CASE ReadEvidence(c)
  BY <1>1, <1>2, <1>14, ReadEvidenceSound
<1>15. CASE RecoverCommit(c)
  BY <1>1, <1>15, RecoverCommitSound
<1>16. CASE RecoverRefused(c)
  BY <1>1, <1>16, RecoverRefusedSound
<1>. QED  BY <1>3, <1>4, <1>5, <1>6, <1>7, <1>8, <1>9, <1>10, <1>11, <1>12, <1>13, <1>14, <1>15, <1>16
          DEF Serve

LEMMA PersonSound ==
    ASSUME Inv, TypesNext, Person
    PROVE  GatewayInv'
<1>1. CASE \E t \in Tasks : Submit(t) \/ Continue(t)
  BY <1>1, SubmitSound, ContinueSound
<1>2. CASE \E c \in Clients, t \in Tasks :
          \/ Recover(c, t)
          \/ \E kind \in {"pause", "resume", "level", "stop"} : Request(c, kind, t)
  BY <1>2, RecoverSound, RequestSound
<1>3. CASE \E t \in Tasks, op \in Ops : RetryResume(t, op)
  BY <1>3, RetryResumeSound
<1>. QED  BY <1>1, <1>2, <1>3 DEF Person

LEMMA StepKeepsGateway ==
    ASSUME Inv, TypesNext, Next
    PROVE  GatewayInv'
<1>1. IdsLeft
  BY DEF Next
<1>2. CASE System
  <2>1. CASE Startup
    BY <2>1, StartupStepSound
  <2>2. CASE \E t \in Tasks : RunStep(t) \/ Yielding(t)
    <3>1. PICK t \in Tasks : RunStep(t) \/ Yielding(t)
      BY <2>2
    <3>. QED  BY <1>1, <3>1, RunStepSound, YieldingSound
  <2>3. CASE \E c \in Askers : Serve(c)
    <3>1. PICK c \in Askers : Serve(c)
      BY <2>3
    <3>. QED  BY <1>1, <3>1, ServeSound
  <2>. QED  BY <1>2, <2>1, <2>2, <2>3 DEF System
<1>3. CASE Person
  BY <1>3, PersonSound
<1>4. CASE \E t \in Tasks : Work(t)
  <2>1. PICK t \in Tasks : Work(t)
    BY <1>4
  <2>2. CASE Ask(t)
    BY <2>2, AskSound
  <2>3. CASE CaptureTool(t)
    BY <2>3, HoldCallSound
  <2>. QED  BY <2>1, <2>2, <2>3 DEF Work
<1>5. CASE Fault
  <2>1. CASE Crash
    BY <2>1, CrashSound
  <2>2. CASE \E t \in Tasks : LaunchFails(t) \/ CloseFails(t)
    <3>1. PICK t \in Tasks : LaunchFails(t) \/ CloseFails(t)
      BY <2>2
    <3>2. CASE LaunchFails(t)
      BY <3>2, LaunchFailsSound
    <3>3. CASE CloseFails(t)
      BY <3>3, CloseFailsSound
    <3>. QED  BY <3>1, <3>2, <3>3
  <2>. QED  BY <1>5, <2>1, <2>2 DEF Fault
<1>. QED  BY <1>2, <1>3, <1>4, <1>5 DEF Next

LEMMA StutterKeepsGateway ==
    ASSUME Inv, UNCHANGED vars
    PROVE  GatewayInv'
<1>1. /\ UNCHANGED tables /\ tasks' = tasks /\ park' = park /\ prov' = prov /\ capture' = capture
      /\ recops' = recops /\ crashed' = crashed /\ usedOps' = usedOps /\ turns' = turns
      /\ resumeTurn' = resumeTurn /\ last' = last /\ reserved' = reserved /\ phase' = phase
      /\ todo' = todo /\ sets' = sets /\ run' = run /\ call' = call /\ ticket' = ticket
  BY DEF vars, durable, volatile, tables
<1>2. TypeOK'
  BY <1>1, InvParts DEF TypeOK, TablesTypeOK
<1>3. LockSound'
  BY <1>1, InvParts DEF LockSound, Between
<1>4. RoomSound'
  BY <1>1, InvParts DEF RoomSound, State
<1>5. Created' = Created /\ Residents' = Residents
  BY <1>1 DEF Created, Residents, State, Resident
<1>6. \A t \in Tasks : (Queued(t)' <=> Queued(t)) /\ (Resumed(t)' <=> Resumed(t))
  BY <1>1 DEF Queued, Resumed, State, In, Resident, Between
<1>7. SlotsSound'
  BY <1>1, <1>5, <1>6, InvParts DEF SlotsSound, In
<1>8. \A c \in Askers : CallSound(c)'
  BY <1>1, InvParts DEF CallSound, State
<1>9. ASSUME NEW t \in Tasks PROVE TaskSound(t, run[t])'
  <2>1. RowKept(t) /\ FlagsKept(t)
    BY <1>1, TablesStay, SetsStay
  <2>2. PICK r : r = run[t]
    OBVIOUS
  <2>3. TaskSound(t, r)'
    BY <1>1, <2>1, <2>2, InvParts, StaySound DEF Stays
  <2>. QED  BY <1>1, <2>2, <2>3
<1>. QED  BY <1>2, <1>3, <1>4, <1>7, <1>8, <1>9 DEF GatewayInv
============================================================================
