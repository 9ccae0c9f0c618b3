-------------------------- MODULE TaskPlane_proof --------------------------
(***************************************************************************)
(* Theorems about TaskPlane for every set of tasks, operations, executions *)
(* and callers: first the types and what single steps do, then what the    *)
(* rows say of a task's past.                                              *)
(***************************************************************************)
EXTENDS TaskPlane, FiniteSetTheorems, TLAPS

----------------------------------------------------------------------------
(* The helpers that build rows return rows of their type. *)

LEMMA ConstantRows ==
    /\ NoTask \in TaskRows /\ NoPark \in ParkRows
    /\ NoProv \in ProvRows /\ NoCapture \in CaptureRows
    /\ Computed \in Priorities /\ Paused \in Priorities
BY DEF NoTask, NoPark, NoProv, NoCapture, Computed, Paused, Priorities, Levels, Sources,
       Reasons, TaskRows, ParkRows, ProvRows, CaptureRows, States, Open, Terminal, Holds

LEMMA AdvancedType ==
    ASSUME NEW row \in ParkRows, NEW op \in Ops \cup {NoOp}, NEW create \in BOOLEAN
    PROVE  /\ Advanced(row, op, create) \in ParkRows
           /\ Advanced(row, op, create).gen > row.gen \/ row.gen = 0
<1>1. CASE row.gen = 0 /\ ~create
  BY <1>1 DEF Advanced
<1>2. CASE ~(row.gen = 0 /\ ~create)
  <2>1. Advanced(row, op, create) = [row EXCEPT !.gen = row.gen + 1, !.op = op]
    BY <1>2 DEF Advanced
  <2>2. row.gen \in Nat /\ row.gen + 1 \in Nat
    BY DEF ParkRows
  <2>3. [row EXCEPT !.gen = row.gen + 1, !.op = op] \in ParkRows
    BY <2>2 DEF ParkRows
  <2>4. [row EXCEPT !.gen = row.gen + 1, !.op = op].gen = row.gen + 1
    BY DEF ParkRows
  <2>. QED  BY <2>1, <2>2, <2>3, <2>4
<1>. QED  BY <1>1, <1>2

LEMMA SnapshotType ==
    ASSUME NEW row \in ParkRows, NEW prio \in Priorities
    PROVE  /\ NoSnapshot(row) \in ParkRows /\ NoSnapshot(row).gen = row.gen
           /\ WithSnapshot(row, prio) \in ParkRows /\ WithSnapshot(row, prio).gen = row.gen
BY ConstantRows DEF NoSnapshot, WithSnapshot, ParkRows

LEMMA CarriedType ==
    ASSUME recops \subseteq RecoveryRows, NEW t \in Tasks, NEW row \in ParkRows,
           NEW to \in States, NEW exec
    PROVE  /\ Carried(t, row, to, exec) \subseteq RecoveryRows
           /\ CarriedWhileActive(t, row, to, exec) \subseteq RecoveryRows
<1>1. ASSUME NEW r \in RecoveryRows
      PROVE  [r EXCEPT !.gen = row.gen, !.pend = row.op, !.state = to] \in RecoveryRows
  <2>1. row.gen \in Nat /\ row.op \in Ops \cup {NoOp}
    BY DEF ParkRows
  <2>. QED  BY <2>1 DEF RecoveryRows
<1>2. Carried(t, row, to, exec) \subseteq RecoveryRows
  BY <1>1 DEF Carried
<1>. QED  BY <1>2 DEF CarriedWhileActive

LEMMA DemotedType ==
    ASSUME NEW rows \in [Tasks -> TaskRows], NEW t \in Tasks
    PROVE  /\ OthersDemoted(rows, t) \in [Tasks -> TaskRows]
           /\ OthersDemoted(rows, t)[t] = rows[t]
           /\ \A u \in Tasks : OthersDemoted(rows, t)[u].state = rows[u].state
<1>1. ASSUME NEW u \in Tasks
      PROVE  LET low == [rows[u] EXCEPT !.prio = [@ EXCEPT !.level = 1, !.reason = "other"]]
             IN  low \in TaskRows /\ low.state = rows[u].state
  <2>1. rows[u] \in TaskRows /\ rows[u].prio \in Priorities
    BY DEF TaskRows
  <2>2. 1 \in Levels /\ "other" \in Reasons
    BY DEF Levels, Reasons
  <2>3. [rows[u].prio EXCEPT !.level = 1, !.reason = "other"] \in Priorities
    BY <2>1, <2>2 DEF Priorities
  <2>. QED  BY <2>1, <2>3 DEF TaskRows
<1>. QED  BY <1>1 DEF OthersDemoted

LEMMA WrittenType ==
    ASSUME tasks \in [Tasks -> TaskRows], NEW t \in Tasks, NEW row \in TaskRows
    PROVE  /\ Written(t, row) \in [Tasks -> TaskRows]
           /\ Written(t, row)[t] = row
           /\ \A u \in Tasks \ {t} : Written(t, row)[u].state = tasks[u].state
<1>. DEFINE rows == [tasks EXCEPT ![t] = row]
<1>1. rows \in [Tasks -> TaskRows] /\ rows[t] = row
  OBVIOUS
<1>2. \A u \in Tasks \ {t} : rows[u] = tasks[u]
  OBVIOUS
<1>3. Written(t, row) \in {rows, OthersDemoted(rows, t)}
  BY DEF Written
<1>. HIDE DEF rows
<1>. QED  BY <1>1, <1>2, <1>3, DemotedType

LEMMA UpsertedType ==
    ASSUME NEW row \in ProvRows, NEW first \in {"started", "unknown"}, NEW e \in Execs,
           NEW unsafe \in BOOLEAN
    PROVE  Upserted(row, first, e, unsafe) \in ProvRows
BY DEF Upserted, ProvRows

LEMMA ChangedParkType ==
    ASSUME tasks \in [Tasks -> TaskRows], NEW t \in Tasks, NEW row \in ParkRows,
           NEW choice \in Choices, NEW to \in States \cup {SameState}
    PROVE  /\ ChangedPark(t, row, choice, to) \in ParkRows
           /\ ChangedPark(t, row, choice, to).gen = row.gen
<1>1. tasks[t].prio \in Priorities
  BY DEF TaskRows
<1>. QED  BY <1>1, SnapshotType DEF ChangedPark

LEMMA ChangedTasksType ==
    ASSUME tasks \in [Tasks -> TaskRows], NEW t \in Tasks, NEW choice \in Choices,
           NEW to \in States \cup {SameState}
    PROVE  /\ ChangedTasks(t, choice, to) \in [Tasks -> TaskRows]
           /\ \A u \in Tasks \ {t} : ChangedTasks(t, choice, to)[u].state = tasks[u].state
           /\ ChangedTasks(t, choice, to)[t].state = IF to = SameState THEN tasks[t].state ELSE to
<1>. DEFINE prio == NewPriority(tasks[t].prio, choice)
            row == [tasks[t] EXCEPT
                       !.state = IF to = SameState THEN @ ELSE to,
                       !.prio = NewPriority(@, choice),
                       !.hold = IF to = SameState THEN @ ELSE "none",
                       !.parkedLast = @ /\ (choice # Keep \/ to \in Terminal \/ ~HasParkRow(t))]
            rows == [tasks EXCEPT ![t] = row]
<1>1. tasks[t] \in TaskRows /\ tasks[t].prio \in Priorities
  BY DEF TaskRows
<1>2. prio \in Priorities
  BY <1>1 DEF NewPriority, Priorities, Levels, Sources, Reasons, Choices, Keep, AutoLevel, First
<1>3. row \in TaskRows /\ row.state = (IF to = SameState THEN tasks[t].state ELSE to)
  BY <1>1, <1>2 DEF TaskRows, Holds
<1>4. /\ rows \in [Tasks -> TaskRows] /\ rows[t] = row
      /\ \A u \in Tasks \ {t} : rows[u] = tasks[u]
  BY <1>3
<1>5. ChangedTasks(t, choice, to) \in {rows, OthersDemoted(rows, t)}
  BY DEF ChangedTasks
<1>. HIDE DEF row, rows
<1>. QED  BY <1>3, <1>4, <1>5, DemotedType

----------------------------------------------------------------------------
(* What a step of any store does to a task's identity: it moves the        *)
(* generation on, or it leaves alone all that the identity stands for.  A  *)
(* task without a row has no identity to keep, a task that was not created *)
(* has no row.                                                             *)

IdentityStep(u) ==
    /\ \/ park'[u].gen > park[u].gen
       \/ park[u].gen = 0
       \/ /\ park'[u].gen = park[u].gen /\ park'[u].op = park[u].op
          /\ park'[u].pending = park[u].pending
          /\ tasks'[u].state = tasks[u].state
          /\ prov'[u].exec = prov[u].exec
    /\ tasks'[u].state = "absent" => tasks[u].state = "absent" /\ park'[u] = park[u]

StoreStep == TablesTypeOK' /\ \A u \in Tasks : IdentityStep(u)

(* A step that writes t's identity row and only t's state and execution.   *)
LEMMA RowMoves ==
    ASSUME TablesTypeOK, NEW t \in Tasks, NEW row \in ParkRows,
           park' = [park EXCEPT ![t] = row],
           row.gen > park[t].gen \/ park[t].gen = 0,
           tasks' \in [Tasks -> TaskRows], tasks'[t].state # "absent",
           \A u \in Tasks \ {t} : tasks'[u].state = tasks[u].state /\ prov'[u] = prov[u]
    PROVE  /\ park' \in [Tasks -> ParkRows]
           /\ \A u \in Tasks : IdentityStep(u)
<1>1. park \in [Tasks -> ParkRows]
  BY DEF TablesTypeOK
<1>2. park' \in [Tasks -> ParkRows] /\ park'[t] = row
  BY <1>1
<1>3. IdentityStep(t)
  BY <1>2 DEF IdentityStep
<1>4. ASSUME NEW u \in Tasks \ {t} PROVE IdentityStep(u)
  <2>1. park'[u] = park[u]
    BY <1>1
  <2>. QED  BY <2>1 DEF IdentityStep
<1>. QED  BY <1>2, <1>3, <1>4

(* A step that keeps every identity row, every state and every execution.  *)
LEMMA RowsStay ==
    ASSUME park' = park, prov' = prov, \A u \in Tasks : tasks'[u].state = tasks[u].state
    PROVE  \A u \in Tasks : IdentityStep(u)
BY DEF IdentityStep

LEMMA CreateStep ==
    ASSUME TablesTypeOK, NEW t \in Tasks, NEW prio \in Priorities, NEW proof \in BOOLEAN,
           park[t].gen = 0, Create(t, prio, proof)
    PROVE  StoreStep
<1>. DEFINE row == [NoTask EXCEPT !.state = "queued", !.prio = prio]
<1>1. row \in TaskRows /\ row.state = "queued"
  BY ConstantRows DEF NoTask, TaskRows, States, Open
<1>2. tasks \in [Tasks -> TaskRows] /\ prov \in [Tasks -> ProvRows]
  BY DEF TablesTypeOK
<1>3. tasks' = Written(t, row)
  BY DEF Create
<1>. HIDE DEF row
<1>4. /\ tasks' \in [Tasks -> TaskRows] /\ tasks'[t].state = "queued"
      /\ \A u \in Tasks \ {t} : tasks'[u].state = tasks[u].state
  BY <1>1, <1>2, <1>3, WrittenType
<1>5. /\ prov' \in [Tasks -> ProvRows]
      /\ \A u \in Tasks \ {t} : prov'[u] = prov[u]
  BY <1>2 DEF Create, ProvRows
<1>6. park' = park
  BY DEF Create
<1>7. \A u \in Tasks : IdentityStep(u)
  BY <1>4, <1>5, <1>6 DEF IdentityStep
<1>8. TablesTypeOK'
  BY <1>4, <1>5 DEF TablesTypeOK, Create
<1>. QED  BY <1>7, <1>8 DEF StoreStep

LEMMA SetLevelStep ==
    ASSUME TablesTypeOK, NEW t \in Tasks, NEW level \in Levels, NEW source \in Sources,
           NEW force \in BOOLEAN, SetLevel(t, level, source, force)
    PROVE  StoreStep
<1>. DEFINE new == [level |-> level, source |-> source, reason |-> "other"]
            task == [tasks[t] EXCEPT !.prio = new]
            row == Advanced(park[t], NoOp, FALSE)
            after == IF State(t) = "parked" /\ tasks[t].prio.level = 5 /\ level = 5 /\ row.snap
                     THEN WithSnapshot(row, new) ELSE NoSnapshot(row)
<1>1. /\ tasks \in [Tasks -> TaskRows] /\ tasks[t] \in TaskRows
      /\ park[t] \in ParkRows /\ recops \subseteq RecoveryRows
  BY DEF TablesTypeOK
<1>2. new \in Priorities
  BY DEF Priorities, Reasons
<1>3. task \in TaskRows /\ task.state = State(t) /\ State(t) \in States /\ State(t) # "absent"
  BY <1>1, <1>2 DEF TaskRows, State, SetLevel, Live, Open
<1>4. row \in ParkRows /\ (row.gen > park[t].gen \/ park[t].gen = 0)
  BY <1>1, AdvancedType
<1>5. /\ tasks' = Written(t, task) /\ park' = [park EXCEPT ![t] = after]
      /\ recops' \in {recops, CarriedWhileActive(t, row, State(t), capture[t].exec)}
      /\ UNCHANGED <<prov, capture, crashed, usedOps, turns, resumeTurn>>
  BY DEF SetLevel
<1>. HIDE DEF new, task, row
<1>6. after \in ParkRows /\ (after.gen > park[t].gen \/ park[t].gen = 0)
  BY <1>2, <1>4, SnapshotType
<1>. HIDE DEF after
<1>7. /\ tasks' \in [Tasks -> TaskRows] /\ tasks'[t].state # "absent"
      /\ \A u \in Tasks \ {t} : tasks'[u].state = tasks[u].state
  BY <1>1, <1>3, <1>5, WrittenType
<1>8. recops' \subseteq RecoveryRows
  BY <1>1, <1>3, <1>4, <1>5, CarriedType
<1>9. park' \in [Tasks -> ParkRows] /\ \A u \in Tasks : IdentityStep(u)
  BY <1>5, <1>6, <1>7, RowMoves
<1>. QED  BY <1>5, <1>7, <1>8, <1>9 DEF StoreStep, TablesTypeOK

(* What the row of t becomes, once its identity moved and its snapshot is  *)
(* gone, kept or taken anew.                                               *)
LEMMA MovedRow ==
    ASSUME TablesTypeOK, NEW t \in Tasks, NEW op \in Ops \cup {NoOp}, NEW create \in BOOLEAN,
           NEW prio \in Priorities
    PROVE  LET row == Advanced(park[t], op, create) IN
           \A after \in {row, NoSnapshot(row), WithSnapshot(row, prio)} :
               after \in ParkRows /\ (after.gen > park[t].gen \/ park[t].gen = 0)
<1>. DEFINE row == Advanced(park[t], op, create)
<1>1. park[t] \in ParkRows
  BY DEF TablesTypeOK
<1>2. row \in ParkRows /\ (row.gen > park[t].gen \/ park[t].gen = 0)
  BY <1>1, AdvancedType
<1>. HIDE DEF row
<1>3. \A after \in {row, NoSnapshot(row), WithSnapshot(row, prio)} :
          after \in ParkRows /\ (after.gen > park[t].gen \/ park[t].gen = 0)
  BY <1>2, SnapshotType
<1>. QED  BY <1>3 DEF row

LEMMA SetFirstStep ==
    ASSUME TablesTypeOK, NEW t \in Tasks, SetFirst(t)
    PROVE  StoreStep
<1>. DEFINE after == WithSnapshot(Advanced(park[t], NoOp, FALSE), tasks[t].prio)
<1>1. tasks[t].prio \in Priorities /\ tasks[t].state # "absent"
  BY DEF TablesTypeOK, TaskRows, SetFirst, State
<1>2. after \in ParkRows /\ (after.gen > park[t].gen \/ park[t].gen = 0)
  BY <1>1, MovedRow
<1>3. /\ park' = [park EXCEPT ![t] = after]
      /\ UNCHANGED <<tasks, prov, capture, recops, crashed, usedOps, turns, resumeTurn>>
  BY DEF SetFirst
<1>. HIDE DEF after
<1>4. park' \in [Tasks -> ParkRows] /\ \A u \in Tasks : IdentityStep(u)
  BY <1>1, <1>2, <1>3, RowMoves DEF TablesTypeOK
<1>. QED  BY <1>3, <1>4 DEF StoreStep, TablesTypeOK

(* change without an execution of its own: ChangePriority, ChangeState,    *)
(* ContinueRunning and RunBare differ in what else they check and write.   *)
LEMMA ChangeStep ==
    ASSUME TablesTypeOK, NEW t \in Tasks, NEW choice \in Choices,
           NEW to \in (States \ {"absent"}) \cup {SameState}, Live(t),
           NEW cleared \in BOOLEAN,
           tasks' = ChangedTasks(t, choice, to),
           LET row == Advanced(park[t], NoOp, FALSE) IN
               /\ park' = [park EXCEPT ![t] = IF cleared THEN NoSnapshot(row)
                                              ELSE ChangedPark(t, row, choice, to)]
               /\ recops' \in {recops, CarriedWhileActive(t, row,
                                   IF to = SameState THEN State(t) ELSE to, capture[t].exec)},
           \A u \in Tasks \ {t} : prov'[u] = prov[u],
           prov' \in [Tasks -> ProvRows], capture' \in [Tasks -> CaptureRows],
           usedOps' \subseteq Ops, UNCHANGED <<crashed, turns, resumeTurn>>
    PROVE  StoreStep
<1>. DEFINE row == Advanced(park[t], NoOp, FALSE)
            after == IF cleared THEN NoSnapshot(row) ELSE ChangedPark(t, row, choice, to)
            state == IF to = SameState THEN State(t) ELSE to
<1>1. /\ tasks \in [Tasks -> TaskRows] /\ tasks[t].state \in States
      /\ tasks[t].state # "absent" /\ park[t] \in ParkRows
  BY DEF TablesTypeOK, TaskRows, Live, Open, State
<1>2. state \in States \ {"absent"}
  BY <1>1 DEF State
<1>3. row \in ParkRows /\ (row.gen > park[t].gen \/ park[t].gen = 0)
  BY <1>1, AdvancedType
<1>. HIDE DEF row
<1>4. after \in ParkRows /\ (after.gen > park[t].gen \/ park[t].gen = 0)
  BY <1>1, <1>3, SnapshotType, ChangedParkType, ConstantRows
<1>5. park' = [park EXCEPT ![t] = after]
  BY DEF row
<1>. HIDE DEF after
<1>6. /\ tasks' \in [Tasks -> TaskRows] /\ tasks'[t].state = state
      /\ \A u \in Tasks \ {t} : tasks'[u].state = tasks[u].state
  BY <1>1, ChangedTasksType DEF State
<1>7. recops' \subseteq RecoveryRows
  <2>1. recops' \in {recops, CarriedWhileActive(t, row, state, capture[t].exec)}
    BY DEF row
  <2>2. recops \subseteq RecoveryRows
    BY DEF TablesTypeOK
  <2>. HIDE DEF state
  <2>. QED  BY <1>2, <1>3, <2>1, <2>2, CarriedType
<1>8. park' \in [Tasks -> ParkRows] /\ \A u \in Tasks : IdentityStep(u)
  BY <1>2, <1>4, <1>5, <1>6, RowMoves
<1>. QED  BY <1>6, <1>7, <1>8 DEF StoreStep, TablesTypeOK

LEMMA ChangePriorityStep ==
    ASSUME TablesTypeOK, NEW t \in Tasks, NEW choice \in Choices, ChangePriority(t, choice)
    PROVE  StoreStep
<1>1. /\ Live(t) /\ tasks' = ChangedTasks(t, choice, SameState)
      /\ UNCHANGED <<prov, capture, crashed, usedOps, turns, resumeTurn>>
  BY DEF ChangePriority
<1>2. LET row == Advanced(park[t], NoOp, FALSE) IN
      /\ park' = [park EXCEPT ![t] = ChangedPark(t, row, choice, SameState)]
      /\ recops' \in {recops, CarriedWhileActive(t, row, State(t), capture[t].exec)}
  BY DEF ChangePriority
<1>. QED  BY <1>1, <1>2, ChangeStep DEF TablesTypeOK

LEMMA ChangeStateStep ==
    ASSUME TablesTypeOK, NEW t \in Tasks, NEW choice \in Choices, NEW to \in States,
           ChangeState(t, choice, to)
    PROVE  StoreStep
<1>1. /\ Live(t) /\ tasks' = ChangedTasks(t, choice, to) /\ to \in States \ {"absent"}
      /\ to # SameState
      /\ UNCHANGED <<prov, capture, crashed, usedOps, turns, resumeTurn>>
  BY DEF ChangeState, SameState, States, Open
<1>2. LET row == Advanced(park[t], NoOp, FALSE) IN
      /\ park' = [park EXCEPT ![t] = ChangedPark(t, row, choice, to)]
      /\ recops' \in {recops, CarriedWhileActive(t, row, to, capture[t].exec)}
  BY DEF ChangeState
<1>. QED  BY <1>1, <1>2, ChangeStep DEF TablesTypeOK

(* The three ways to run, which all clear the snapshot.                    *)
LEMMA RunStep ==
    ASSUME TablesTypeOK, NEW t \in Tasks, NEW choice \in Choices,
           \/ \E e \in Execs : StartOrdinary(t, e)
           \/ ContinueRunning(t, choice)
           \/ RunBare(t, choice)
    PROVE  StoreStep
<1>. DEFINE row == Advanced(park[t], NoOp, FALSE)
<1>1. /\ "running" \in States \ {"absent"} /\ "running" # SameState /\ Keep \in Choices
  BY DEF States, Open, SameState, Choices
<1>2. /\ Live(t)
      /\ tasks' = ChangedTasks(t, choice, "running") \/ tasks' = ChangedTasks(t, Keep, "running")
      /\ park' = [park EXCEPT ![t] = NoSnapshot(row)]
      /\ recops' \in {recops, CarriedWhileActive(t, row, "running", capture[t].exec)}
      /\ UNCHANGED <<crashed, usedOps, turns, resumeTurn>>
  BY DEF StartOrdinary, ContinueRunning, RunBare, Live, Open
<1>3. /\ prov \in [Tasks -> ProvRows] /\ capture \in [Tasks -> CaptureRows]
      /\ usedOps \subseteq Ops
  BY DEF TablesTypeOK
<1>4. /\ prov' \in [Tasks -> ProvRows] /\ capture' \in [Tasks -> CaptureRows]
      /\ \A u \in Tasks \ {t} : prov'[u] = prov[u]
  <2>1. ASSUME NEW e \in Execs, StartOrdinary(t, e)
        PROVE  /\ prov' \in [Tasks -> ProvRows] /\ capture' \in [Tasks -> CaptureRows]
               /\ \A u \in Tasks \ {t} : prov'[u] = prov[u]
    <3>1. /\ prov' = [prov EXCEPT ![t] = Upserted(prov[t], "started", e, prov[t].unsafe)]
          /\ capture' = [capture EXCEPT ![t] = [exec |-> e, complete |-> FALSE]]
      BY <2>1 DEF StartOrdinary
    <3>2. prov[t] \in ProvRows /\ prov[t].unsafe \in BOOLEAN
      BY <1>3 DEF ProvRows
    <3>3. Upserted(prov[t], "started", e, prov[t].unsafe) \in ProvRows
      BY <3>2, UpsertedType
    <3>4. [exec |-> e, complete |-> FALSE] \in CaptureRows
      BY DEF CaptureRows
    <3>. QED  BY <1>3, <3>1, <3>3, <3>4
  <2>2. CASE ContinueRunning(t, choice)
    BY <1>3, <2>2 DEF ContinueRunning
  <2>3. CASE RunBare(t, choice)
    BY <1>3, <2>3, ConstantRows DEF RunBare
  <2>. QED  BY <2>1, <2>2, <2>3
<1>5. PICK c \in Choices : tasks' = ChangedTasks(t, c, "running")
  BY <1>1, <1>2
<1>. QED  BY <1>1, <1>2, <1>3, <1>4, <1>5, ChangeStep

LEMMA FinishedStep ==
    ASSUME TablesTypeOK, NEW t \in Tasks, NEW to \in Terminal, Finished(t, to),
           usedOps' \subseteq Ops
    PROVE  StoreStep
<1>1. to \in States \ {"absent"} /\ to # SameState /\ Keep \in Choices
  BY DEF States, Terminal, SameState, Choices
<1>2. /\ Live(t) /\ tasks' = ChangedTasks(t, Keep, to)
      /\ capture' = [capture EXCEPT ![t] = NoCapture]
      /\ park' = [park EXCEPT ![t] = NoSnapshot(Advanced(park[t], NoOp, FALSE))]
      /\ UNCHANGED <<prov, recops, crashed, turns, resumeTurn>>
  BY DEF Finished
<1>3. prov' \in [Tasks -> ProvRows] /\ capture' \in [Tasks -> CaptureRows]
  BY <1>2, ConstantRows DEF TablesTypeOK
<1>. QED  BY <1>1, <1>2, <1>3, ChangeStep

(* A step that writes one task's row and identity.                         *)
LEMMA OneTaskStep ==
    ASSUME TablesTypeOK, NEW t \in Tasks, NEW row \in TaskRows, row.state # "absent",
           tasks' \in {Written(t, row), [tasks EXCEPT ![t] = row]},
           NEW after \in ParkRows, after.gen > park[t].gen \/ park[t].gen = 0,
           park' = [park EXCEPT ![t] = after],
           prov' \in [Tasks -> ProvRows], \A u \in Tasks \ {t} : prov'[u] = prov[u],
           capture' \in [Tasks -> CaptureRows], recops' \subseteq RecoveryRows,
           crashed' \subseteq Tasks \X Execs, usedOps' \subseteq Ops,
           turns' \in [Tasks -> Nat], resumeTurn' \in [Tasks -> Nat]
    PROVE  StoreStep
<1>1. tasks \in [Tasks -> TaskRows]
  BY DEF TablesTypeOK
<1>2. /\ tasks' \in [Tasks -> TaskRows] /\ tasks'[t] = row
      /\ \A u \in Tasks \ {t} : tasks'[u].state = tasks[u].state
  <2>1. CASE tasks' = Written(t, row)
    BY <1>1, <2>1, WrittenType
  <2>2. CASE tasks' = [tasks EXCEPT ![t] = row]
    BY <1>1, <2>2
  <2>. QED  BY <2>1, <2>2
<1>3. park' \in [Tasks -> ParkRows] /\ \A u \in Tasks : IdentityStep(u)
  BY <1>2, RowMoves
<1>. QED  BY <1>2, <1>3 DEF StoreStep, TablesTypeOK

(* The rows that a step starts from. *)
LEMMA RowsBefore ==
    ASSUME TablesTypeOK, NEW t \in Tasks
    PROVE  /\ tasks[t] \in TaskRows /\ tasks[t].prio \in Priorities /\ tasks[t].hold \in Holds
           /\ tasks[t].state \in States /\ tasks[t].state = State(t)
           /\ park[t] \in ParkRows /\ park[t].saved \in Priorities
           /\ park[t].op \in Ops \cup {NoOp}
           /\ prov[t] \in ProvRows /\ capture[t] \in CaptureRows
           /\ recops \subseteq RecoveryRows /\ usedOps \subseteq Ops
           /\ turns[t] + 1 \in Nat
BY DEF TablesTypeOK, TaskRows, ParkRows, State

LEMMA PauseStoreStep ==
    ASSUME TablesTypeOK, NEW t \in Tasks, Pause(t)
    PROVE  StoreStep
<1>. DEFINE row == [tasks[t] EXCEPT !.state = "parked", !.prio = Paused,
                                    !.hold = IF State(t) = "held" THEN @ ELSE "none"]
            after == WithSnapshot(Advanced(park[t], NoOp, TRUE), tasks[t].prio)
<1>1. row \in TaskRows /\ row.state = "parked"
  BY RowsBefore, ConstantRows DEF TaskRows, States, Open, Holds
<1>2. after \in ParkRows /\ (after.gen > park[t].gen \/ park[t].gen = 0)
  BY RowsBefore, MovedRow
<1>3. tasks' = [tasks EXCEPT ![t] = row]
  BY DEF Pause
<1>4. /\ park' = [park EXCEPT ![t] = after]
      /\ UNCHANGED <<prov, capture, recops, crashed, usedOps, turns, resumeTurn>>
  BY DEF Pause
<1>. HIDE DEF row, after
<1>. QED  BY <1>1, <1>2, <1>3, <1>4, OneTaskStep DEF TablesTypeOK

LEMMA RequestPauseStep ==
    ASSUME TablesTypeOK, NEW t \in Tasks, NEW g, NEW p, NEW op \in Ops, RequestPause(t, g, p, op)
    PROVE  StoreStep
<1>. DEFINE new == Advanced(park[t], op, TRUE)
            row == [tasks[t] EXCEPT !.prio = Paused]
            after == [WithSnapshot(new, tasks[t].prio) EXCEPT !.pending = TRUE]
<1>1. row \in TaskRows /\ row.state = State(t) /\ State(t) # "absent"
  BY RowsBefore, ConstantRows DEF TaskRows, RequestPause
<1>2. new \in ParkRows /\ (new.gen > park[t].gen \/ park[t].gen = 0)
  BY RowsBefore, MovedRow
<1>3. /\ tasks' = [tasks EXCEPT ![t] = row] /\ park' = [park EXCEPT ![t] = after]
      /\ recops' = CarriedWhileActive(t, new, State(t), capture[t].exec)
      /\ usedOps' = usedOps \cup {op}
      /\ UNCHANGED <<prov, capture, crashed, turns, resumeTurn>>
  BY DEF RequestPause
<1>. HIDE DEF row, new
<1>4. after \in ParkRows /\ (after.gen > park[t].gen \/ park[t].gen = 0)
  <2>1. /\ WithSnapshot(new, tasks[t].prio) \in ParkRows
        /\ WithSnapshot(new, tasks[t].prio).gen = new.gen
    BY <1>2, RowsBefore, SnapshotType
  <2>. QED  BY <1>2, <2>1 DEF ParkRows
<1>. HIDE DEF after
<1>5. recops' \subseteq RecoveryRows /\ usedOps' \subseteq Ops
  BY <1>1, <1>2, <1>3, RowsBefore, CarriedType
<1>. QED  BY <1>1, <1>3, <1>4, <1>5, OneTaskStep DEF TablesTypeOK

(* resume, cancel_pending_pause, resume_interrupted and resume_recovered.  *)
LEMMA RestoredStep ==
    ASSUME TablesTypeOK, NEW t \in Tasks, NEW prio \in Priorities,
           NEW to \in States \ {"absent"}, NEW create \in BOOLEAN,
           tasks' = Restored(t, prio, to),
           park' = [park EXCEPT ![t] = NoSnapshot(Advanced(park[t], NoOp, create))],
           usedOps' \subseteq Ops, resumeTurn' \in [Tasks -> Nat],
           UNCHANGED <<prov, capture, recops, crashed, turns>>
    PROVE  StoreStep
<1>. DEFINE row == [tasks[t] EXCEPT !.state = to, !.prio = prio, !.parkedLast = FALSE,
                                    !.hold = "none"]
            after == NoSnapshot(Advanced(park[t], NoOp, create))
<1>1. row \in TaskRows /\ row.state = to
  BY RowsBefore DEF TaskRows, Holds
<1>2. after \in ParkRows /\ (after.gen > park[t].gen \/ park[t].gen = 0)
  BY MovedRow, ConstantRows
<1>3. tasks' = Written(t, row)
  BY DEF Restored
<1>. HIDE DEF row, after
<1>. QED  BY <1>1, <1>2, <1>3, OneTaskStep DEF TablesTypeOK, after

LEMMA ResumeStep ==
    ASSUME TablesTypeOK, NEW t \in Tasks, Resume(t)
    PROVE  StoreStep
<1>1. SavedPriority(t) \in Priorities
  BY RowsBefore, ConstantRows DEF SavedPriority
<1>2. (IF SavedPriority(t).level = 5 THEN "parked" ELSE "queued") \in States \ {"absent"}
  BY DEF States, Open
<1>. QED  BY <1>1, <1>2, RestoredStep DEF Resume, TablesTypeOK

LEMMA CancelPauseStep ==
    ASSUME TablesTypeOK, NEW t \in Tasks, NEW g, NEW p, NEW op \in Ops, CancelPause(t, g, p, op)
    PROVE  StoreStep
<1>. DEFINE new == Advanced(park[t], NoOp, FALSE)
            row == [tasks[t] EXCEPT !.prio = park[t].saved, !.parkedLast = FALSE]
            after == NoSnapshot(new)
<1>1. row \in TaskRows /\ row.state = State(t) /\ State(t) # "absent"
  BY RowsBefore DEF TaskRows, CancelPause
<1>2. \A x \in {new, after} : x \in ParkRows /\ (x.gen > park[t].gen \/ park[t].gen = 0)
  BY MovedRow, ConstantRows
<1>3. /\ tasks' = Written(t, row) /\ park' = [park EXCEPT ![t] = after]
      /\ recops' = CarriedWhileActive(t, new, State(t), capture[t].exec)
      /\ usedOps' = usedOps \cup {op}
      /\ UNCHANGED <<prov, capture, crashed, turns, resumeTurn>>
  BY DEF CancelPause
<1>. HIDE DEF row, new, after
<1>4. recops' \subseteq RecoveryRows /\ usedOps' \subseteq Ops
  BY <1>1, <1>2, <1>3, RowsBefore, CarriedType
<1>. QED  BY <1>1, <1>2, <1>3, <1>4, OneTaskStep DEF TablesTypeOK

LEMMA ResumeInterruptedStep ==
    ASSUME TablesTypeOK, NEW t \in Tasks, NEW g, NEW p, NEW op \in Ops,
           ResumeInterrupted(t, g, p, op)
    PROVE  StoreStep
<1>1. "queued" \in States \ {"absent"}
  BY DEF States, Open
<1>. QED  BY <1>1, RowsBefore, RestoredStep DEF ResumeInterrupted, TablesTypeOK

LEMMA ResumeRecoveredStep ==
    ASSUME TablesTypeOK, NEW t \in Tasks, NEW g, NEW p, NEW e, NEW first, NEW op \in Ops,
           ResumeRecovered(t, g, p, e, first, op)
    PROVE  StoreStep
<1>. DEFINE prio == IF park[t].snap THEN park[t].saved
                    ELSE IF tasks[t].prio.level = 5 THEN Computed ELSE tasks[t].prio
<1>1. "queued" \in States \ {"absent"}
  BY DEF States, Open
<1>2. prio \in Priorities
  BY RowsBefore, ConstantRows
<1>3. /\ tasks' = Restored(t, prio, "queued")
      /\ park' = [park EXCEPT ![t] = NoSnapshot(Advanced(park[t], NoOp, TRUE))]
      /\ usedOps' \subseteq Ops /\ resumeTurn' \in [Tasks -> Nat]
      /\ UNCHANGED <<prov, capture, recops, crashed, turns>>
  BY RowsBefore DEF ResumeRecovered, TablesTypeOK
<1>. HIDE DEF prio
<1>. QED  BY <1>1, <1>2, <1>3, RestoredStep

LEMMA ReopenStep ==
    ASSUME TablesTypeOK, NEW t \in Tasks, NEW level \in Choices, Reopen(t, level)
    PROVE  StoreStep
<1>. DEFINE prio == IF level # Keep
                    THEN [level |-> level, source |-> "computed", reason |-> "other"]
                    ELSE IF tasks[t].prio.level < 5 THEN tasks[t].prio ELSE Computed
            row == [tasks[t] EXCEPT !.state = "queued", !.prio = prio, !.card = TRUE,
                                    !.hold = "none", !.parkedLast = FALSE]
            after == NoSnapshot(Advanced(park[t], NoOp, TRUE))
<1>1. level \in (1..4) \cup {Keep}
  BY DEF Reopen
<1>2. prio \in Priorities
  BY <1>1, RowsBefore, ConstantRows DEF Priorities, Levels, Sources, Reasons
<1>3. row \in TaskRows /\ row.state = "queued"
  BY <1>2, RowsBefore DEF TaskRows, States, Open, Holds
<1>4. after \in ParkRows /\ (after.gen > park[t].gen \/ park[t].gen = 0)
  BY MovedRow, ConstantRows
<1>5. /\ tasks' = [tasks EXCEPT ![t] = row] /\ park' = [park EXCEPT ![t] = after]
      /\ resumeTurn' = [resumeTurn EXCEPT ![t] = turns[t] + 1]
      /\ UNCHANGED <<prov, capture, recops, crashed, usedOps, turns>>
  BY DEF Reopen
<1>. HIDE DEF row, after
<1>. QED  BY <1>3, <1>4, <1>5, RowsBefore, OneTaskStep DEF TablesTypeOK

LEMMA HoldStep ==
    ASSUME TablesTypeOK, NEW t \in Tasks, NEW g, NEW p, NEW op \in Ops, Hold(t, g, p, op)
    PROVE  StoreStep
<1>. DEFINE row == [tasks[t] EXCEPT !.state = "held", !.hold = "held", !.card = FALSE,
                                    !.parkedLast = FALSE]
            after == Advanced(park[t], p, FALSE)
<1>1. row \in TaskRows /\ row.state = "held" /\ "held" \in States
  BY RowsBefore DEF TaskRows, States, Open, Holds
<1>2. p \in Ops \cup {NoOp}
  BY RowsBefore DEF Hold, Guarded, Matches
<1>3. after \in ParkRows /\ (after.gen > park[t].gen \/ park[t].gen = 0)
  BY <1>2, MovedRow, ConstantRows
<1>4. /\ tasks' = [tasks EXCEPT ![t] = row] /\ park' = [park EXCEPT ![t] = after]
      /\ recops' = Carried(t, after, "held", capture[t].exec)
      /\ usedOps' = usedOps \cup {op}
      /\ UNCHANGED <<prov, capture, crashed, turns, resumeTurn>>
  BY DEF Hold, Guarded, Unmoved
<1>. HIDE DEF row, after
<1>5. recops' \subseteq RecoveryRows /\ usedOps' \subseteq Ops
  BY <1>1, <1>3, <1>4, RowsBefore, CarriedType
<1>. QED  BY <1>1, <1>3, <1>4, <1>5, OneTaskStep DEF TablesTypeOK

LEMMA ReleaseStep ==
    ASSUME TablesTypeOK, NEW t \in Tasks, NEW g, NEW p, NEW op \in Ops, Release(t, g, p, op)
    PROVE  StoreStep
<1>. DEFINE row == [tasks[t] EXCEPT !.state = "running", !.hold = "running", !.parkedLast = FALSE]
            after == Advanced(park[t], p, FALSE)
<1>1. row \in TaskRows /\ row.state = "running" /\ "running" \in States
  BY RowsBefore DEF TaskRows, States, Open, Holds
<1>2. p \in Ops \cup {NoOp}
  BY RowsBefore DEF Release, Guarded, Matches
<1>3. after \in ParkRows /\ (after.gen > park[t].gen \/ park[t].gen = 0)
  BY <1>2, MovedRow, ConstantRows
<1>4. /\ tasks' = [tasks EXCEPT ![t] = row] /\ park' = [park EXCEPT ![t] = after]
      /\ recops' = Carried(t, after, "running", capture[t].exec)
      /\ usedOps' = usedOps \cup {op}
      /\ UNCHANGED <<prov, capture, crashed, turns, resumeTurn>>
  BY DEF Release, Guarded, Unmoved
<1>. HIDE DEF row, after
<1>5. recops' \subseteq RecoveryRows /\ usedOps' \subseteq Ops
  BY <1>1, <1>3, <1>4, RowsBefore, CarriedType
<1>. QED  BY <1>1, <1>3, <1>4, <1>5, OneTaskStep DEF TablesTypeOK

LEMMA ParkedRowType ==
    ASSUME TablesTypeOK, NEW t \in Tasks, NEW op \in Ops
    PROVE  /\ ParkedRow(t, op) \in ParkRows
           /\ ParkedRow(t, op).gen > park[t].gen \/ park[t].gen = 0
<1>. DEFINE next == IF HasParkRow(t) THEN NoOp ELSE op
            row == Advanced(park[t], next, TRUE)
<1>1. next \in Ops \cup {NoOp}
  OBVIOUS
<1>. HIDE DEF next
<1>2. row \in ParkRows /\ (row.gen > park[t].gen \/ park[t].gen = 0)
  BY <1>1, MovedRow, ConstantRows
<1>3. ParkedRow(t, op) = [row EXCEPT !.pending = FALSE]
  BY DEF ParkedRow, next
<1>. HIDE DEF row
<1>. QED  BY <1>2, <1>3 DEF ParkRows

LEMMA HoldUnderPauseStep ==
    ASSUME TablesTypeOK, NEW t \in Tasks, NEW g, NEW p, NEW op \in Ops, HoldUnderPause(t, g, p, op)
    PROVE  StoreStep
<1>. DEFINE row == [tasks[t] EXCEPT !.hold = "held_paused", !.card = FALSE,
                                    !.parkedLast = FALSE]
            after == Advanced(park[t], p, FALSE)
<1>1. row \in TaskRows /\ row.state = State(t) /\ State(t) # "absent"
  BY RowsBefore DEF TaskRows, States, Open, Holds, HoldUnderPause, Guarded, Live
<1>2. p \in Ops \cup {NoOp}
  BY RowsBefore DEF HoldUnderPause, Guarded, Matches
<1>3. after \in ParkRows /\ (after.gen > park[t].gen \/ park[t].gen = 0)
  BY <1>2, MovedRow, ConstantRows
<1>4. /\ tasks' = [tasks EXCEPT ![t] = row] /\ park' = [park EXCEPT ![t] = after]
      /\ usedOps' = usedOps \cup {op}
      /\ UNCHANGED <<prov, capture, recops, crashed, turns, resumeTurn>>
  BY DEF HoldUnderPause, Guarded, Unmoved
<1>5. usedOps' \subseteq Ops
  BY <1>4, RowsBefore
<1>. HIDE DEF row, after
<1>. QED  BY <1>1, <1>3, <1>4, <1>5, OneTaskStep DEF TablesTypeOK

LEMMA ParkStep ==
    ASSUME TablesTypeOK, NEW t \in Tasks, NEW g, NEW p, NEW op \in Ops, Park(t, g, p, op)
    PROVE  StoreStep
<1>. DEFINE row == [tasks[t] EXCEPT !.state = "parked", !.hold = "parked", !.card = TRUE,
                                    !.parkedLast = TRUE]
            after == ParkedRow(t, op)
<1>1. row \in TaskRows /\ row.state = "parked"
  BY RowsBefore DEF TaskRows, States, Open, Holds, Park, Guarded, Live
<1>2. p \in Ops \cup {NoOp}
  BY RowsBefore DEF Park, Guarded, Matches
<1>3. after \in ParkRows /\ (after.gen > park[t].gen \/ park[t].gen = 0)
  BY <1>2, ParkedRowType, ConstantRows
<1>4. /\ tasks' = [tasks EXCEPT ![t] = row] /\ park' = [park EXCEPT ![t] = after]
      /\ usedOps' = usedOps \cup {op}
      /\ UNCHANGED <<prov, capture, recops, crashed, turns, resumeTurn>>
  BY DEF Park, Guarded, Unmoved
<1>5. usedOps' \subseteq Ops
  BY <1>4, RowsBefore
<1>. HIDE DEF row, after
<1>. QED  BY <1>1, <1>3, <1>4, <1>5, OneTaskStep DEF TablesTypeOK, States, Open

LEMMA InterruptStep ==
    ASSUME TablesTypeOK, NEW t \in Tasks, NEW g, NEW p, NEW op \in Ops, NEW card \in BOOLEAN,
           Interrupt(t, g, p, op, card)
    PROVE  StoreStep
<1>. DEFINE row == [tasks[t] EXCEPT !.state = "interrupted", !.hold = "interrupted", !.card = card,
                                    !.prio = IF HasParkRow(t) THEN tasks[t].prio ELSE Paused]
            after == IF HasParkRow(t) THEN ParkedRow(t, op)
                                       ELSE WithSnapshot(ParkedRow(t, op), Computed)
<1>1. row \in TaskRows /\ row.state = "interrupted"
  BY RowsBefore, ConstantRows DEF TaskRows, States, Open, Holds, Interrupt, Guarded, Live
<1>2. p \in Ops \cup {NoOp}
  BY RowsBefore DEF Interrupt, Guarded, Matches
<1>3. after \in ParkRows /\ (after.gen > park[t].gen \/ park[t].gen = 0)
  BY <1>2, ParkedRowType, SnapshotType, ConstantRows
<1>4. /\ tasks' = [tasks EXCEPT ![t] = row] /\ park' = [park EXCEPT ![t] = after]
      /\ usedOps' = usedOps \cup {op}
      /\ UNCHANGED <<prov, capture, recops, crashed, turns, resumeTurn>>
  BY DEF Interrupt, Guarded, Unmoved
<1>5. usedOps' \subseteq Ops
  BY <1>4, RowsBefore
<1>. HIDE DEF row, after
<1>. QED  BY <1>1, <1>3, <1>4, <1>5, OneTaskStep DEF TablesTypeOK, States, Open

LEMMA MarkRetryStep ==
    ASSUME TablesTypeOK, NEW t \in Tasks, NEW g, NEW p, NEW op \in Ops, MarkRetry(t, g, p, op)
    PROVE  StoreStep
<1>. DEFINE row == [tasks[t] EXCEPT !.hold = IF State(t) = "held" THEN "held" ELSE "held_paused"]
            after == Advanced(park[t], p, FALSE)
<1>1. row \in TaskRows /\ row.state = State(t) /\ State(t) # "absent"
  BY RowsBefore DEF TaskRows, States, Open, Holds, MarkRetry, Guarded, Live
<1>2. p \in Ops \cup {NoOp}
  BY RowsBefore DEF MarkRetry, Guarded, Matches
<1>3. after \in ParkRows /\ (after.gen > park[t].gen \/ park[t].gen = 0)
  BY <1>2, MovedRow, ConstantRows
<1>4. /\ tasks' = [tasks EXCEPT ![t] = row] /\ park' = [park EXCEPT ![t] = after]
      /\ usedOps' = usedOps \cup {op}
      /\ UNCHANGED <<prov, capture, recops, crashed, turns, resumeTurn>>
  BY DEF MarkRetry, Guarded, Unmoved
<1>5. usedOps' \subseteq Ops
  BY <1>4, RowsBefore
<1>. HIDE DEF row, after
<1>. QED  BY <1>1, <1>3, <1>4, <1>5, OneTaskStep DEF TablesTypeOK

LEMMA StartStep ==
    ASSUME TablesTypeOK, NEW t \in Tasks, NEW g, NEW p, NEW e \in Execs, NEW prior,
           NEW captures \in BOOLEAN, Start(t, g, p, e, prior, captures)
    PROVE  StoreStep
<1>. DEFINE row == [tasks[t] EXCEPT !.state = "running"]
            after == Advanced(park[t], p, TRUE)
            proof == [first |-> "started", exec |-> e, unsafe |-> TRUE]
            now == IF captures THEN [exec |-> e, complete |-> TRUE] ELSE NoCapture
<1>1. row \in TaskRows /\ row.state = "running" /\ proof \in ProvRows /\ now \in CaptureRows
  BY RowsBefore, ConstantRows DEF TaskRows, States, Open, ProvRows, CaptureRows
<1>2. p \in Ops \cup {NoOp}
  BY RowsBefore DEF Start, Matches
<1>3. after \in ParkRows /\ (after.gen > park[t].gen \/ park[t].gen = 0)
  BY <1>2, MovedRow, ConstantRows
<1>4. /\ tasks' = [tasks EXCEPT ![t] = row] /\ park' = [park EXCEPT ![t] = after]
      /\ prov' = [prov EXCEPT ![t] = proof] /\ capture' = [capture EXCEPT ![t] = now]
      /\ recops' = recops \cup {Started(t, e, after)}
      /\ UNCHANGED <<crashed, usedOps, turns, resumeTurn>>
  BY DEF Start
<1>. HIDE DEF row, after, proof, now
<1>5. Started(t, e, after) \in RecoveryRows
  BY <1>3 DEF Started, RecoveryRows, ParkRows, States, Open
<1>6. recops' \subseteq RecoveryRows
  BY <1>4, <1>5, RowsBefore
<1>7. /\ prov' \in [Tasks -> ProvRows] /\ capture' \in [Tasks -> CaptureRows]
      /\ \A u \in Tasks \ {t} : prov'[u] = prov[u]
  BY <1>1, <1>4 DEF TablesTypeOK
<1>. QED  BY <1>1, <1>3, <1>4, <1>6, <1>7, OneTaskStep DEF TablesTypeOK

LEMMA PrepareStep ==
    ASSUME TablesTypeOK, NEW t \in Tasks, NEW g, NEW p, NEW e \in Execs, NEW outcome,
           NEW card \in BOOLEAN, NEW crash \in BOOLEAN, NEW unsafe \in BOOLEAN,
           Prepare(t, g, p, e, outcome, card, crash, unsafe)
    PROVE  StoreStep
<1>. DEFINE after == Advanced(park[t], p, TRUE)
            intent == [task |-> t, kind |-> "recovery", phase |-> "prepared", gen |-> after.gen,
                       pend |-> after.op, state |-> State(t), exec |-> e, outcome |-> outcome,
                       crash |-> crash, unsafe |-> unsafe, card |-> card]
<1>1. p \in Ops \cup {NoOp} /\ outcome \in Open \cup Terminal /\ State(t) # "absent"
  BY RowsBefore DEF Prepare, Matches, Open, Live, State
<1>2. after \in ParkRows /\ (after.gen > park[t].gen \/ park[t].gen = 0)
  BY <1>1, MovedRow, ConstantRows
<1>3. /\ park' = [park EXCEPT ![t] = after] /\ recops' = recops \cup {intent}
      /\ UNCHANGED <<tasks, prov, capture, crashed, usedOps, turns, resumeTurn>>
  BY DEF Prepare
<1>4. after.gen \in Nat /\ after.op \in Ops \cup {NoOp}
  BY <1>2 DEF ParkRows
<1>. HIDE DEF after
<1>5. intent \in RecoveryRows
  BY <1>1, <1>4, RowsBefore DEF RecoveryRows
<1>. HIDE DEF intent
<1>6. recops' \subseteq RecoveryRows
  BY <1>3, <1>5, RowsBefore
<1>7. tasks' = [tasks EXCEPT ![t] = tasks[t]]
  BY <1>3 DEF TablesTypeOK
<1>. QED  BY <1>1, <1>2, <1>3, <1>6, <1>7, RowsBefore, OneTaskStep DEF TablesTypeOK

LEMMA CommitStep ==
    ASSUME TablesTypeOK, NEW r \in recops, Commit(r)
    PROVE  StoreStep
<1>. DEFINE t == r.task
            pend == IF r.outcome \in Terminal THEN NoOp ELSE r.pend
            new == Advanced(park[t], pend, TRUE)
            after == IF r.outcome \in Terminal THEN NoSnapshot(new) ELSE new
            row == [tasks[t] EXCEPT !.state = r.outcome, !.card = r.card,
                                    !.hold = "none", !.crashes = Crashes(r)]
            proof == Upserted(prov[t], "unknown", r.exec, r.unsafe)
            done == [r EXCEPT !.phase = "committed", !.gen = new.gen, !.pend = pend,
                              !.state = r.outcome]
<1>1. /\ r \in RecoveryRows /\ t \in Tasks /\ r.exec \in Execs /\ r.pend \in Ops \cup {NoOp}
      /\ r.outcome \in Open \cup Terminal /\ r.card \in BOOLEAN /\ r.unsafe \in BOOLEAN
  BY DEF TablesTypeOK, RecoveryRows
<1>2. /\ park' = [park EXCEPT ![t] = after] /\ tasks' = [tasks EXCEPT ![t] = row]
      /\ prov' = [prov EXCEPT ![t] = proof] /\ recops' = (recops \ {r}) \cup {done}
      /\ UNCHANGED <<capture, usedOps, turns, resumeTurn>>
  BY DEF Commit
<1>3. crashed' \subseteq Tasks \X Execs
  BY <1>1 DEF Commit, TablesTypeOK
<1>4. r.outcome # "absent" /\ r.outcome \in States
  BY <1>1 DEF Open, Terminal, States
<1>5. Crashes(r) \in Nat
  BY <1>1, RowsBefore DEF Crashes, TaskRows
<1>6. row \in TaskRows /\ row.state = r.outcome
  <2>1. tasks[t] \in TaskRows
    BY <1>1, RowsBefore
  <2>2. r.outcome \in States /\ r.card \in BOOLEAN /\ Crashes(r) \in Nat
    BY <1>1, <1>4, <1>5
  <2>. HIDE DEF t
  <2>. QED  BY <2>1, <2>2 DEF TaskRows, Holds
<1>7. pend \in Ops \cup {NoOp}
  BY <1>1
<1>8. proof \in ProvRows
  BY <1>1, RowsBefore, UpsertedType
<1>. HIDE DEF row, pend, proof
<1>9. /\ \A x \in {new, after} : x \in ParkRows
      /\ after.gen > park[t].gen \/ park[t].gen = 0
  BY <1>1, <1>7, MovedRow, ConstantRows
<1>10. new.gen \in Nat
  BY <1>9 DEF ParkRows
<1>. HIDE DEF new, after
<1>11. done \in RecoveryRows
  BY <1>1, <1>4, <1>7, <1>10 DEF RecoveryRows
<1>. HIDE DEF done
<1>12. recops' \subseteq RecoveryRows
  BY <1>1, <1>2, <1>11, RowsBefore
<1>. HIDE DEF t
<1>13. prov' \in [Tasks -> ProvRows] /\ \A u \in Tasks \ {t} : prov'[u] = prov[u]
  BY <1>2, <1>8 DEF TablesTypeOK
<1>. QED  BY <1>1, <1>2, <1>3, <1>4, <1>6, <1>9, <1>12, <1>13, OneTaskStep DEF TablesTypeOK

LEMMA SupersedeStep ==
    ASSUME TablesTypeOK, NEW r \in recops, NEW g, NEW p, Supersede(r, g, p)
    PROVE  StoreStep
<1>1. r \in RecoveryRows
  BY DEF TablesTypeOK
<1>2. [r EXCEPT !.phase = "superseded"] \in RecoveryRows
  BY <1>1 DEF RecoveryRows
<1>3. /\ recops' = (recops \ {r}) \cup {[r EXCEPT !.phase = "superseded"]}
      /\ UNCHANGED <<tasks, park, prov, capture, crashed, usedOps, turns, resumeTurn>>
  BY DEF Supersede
<1>. QED  BY <1>2, <1>3, RowsStay DEF StoreStep, TablesTypeOK

(* mark_capture_incomplete and record_captured_process.                    *)
LEMMA CaptureChangeStep ==
    ASSUME TablesTypeOK, NEW t \in Tasks, NEW g, NEW p, NEW e,
           MarkIncomplete(t, g, p, e) \/ RecordProcess(t, g, p, e)
    PROVE  StoreStep
<1>. DEFINE after == Advanced(park[t], p, TRUE)
<1>1. CaptureStep(t, g, p, e) /\ UNCHANGED <<tasks, prov, crashed, usedOps, turns, resumeTurn>>
  BY DEF MarkIncomplete, RecordProcess
<1>2. p \in Ops \cup {NoOp} /\ State(t) # "absent" /\ "running" \in States
  BY <1>1, RowsBefore DEF CaptureStep, Matches, States, Open
<1>3. after \in ParkRows /\ (after.gen > park[t].gen \/ park[t].gen = 0)
  BY <1>2, MovedRow, ConstantRows
<1>4. park' = [park EXCEPT ![t] = after] /\ recops' = Carried(t, after, "running", e)
  BY <1>1 DEF CaptureStep
<1>. HIDE DEF after
<1>5. recops' \subseteq RecoveryRows
  BY <1>2, <1>3, <1>4, RowsBefore, CarriedType
<1>6. capture' \in [Tasks -> CaptureRows]
  BY DEF MarkIncomplete, RecordProcess, TablesTypeOK, CaptureRows
<1>7. tasks' = [tasks EXCEPT ![t] = tasks[t]]
  BY <1>1 DEF TablesTypeOK
<1>. QED  BY <1>1, <1>2, <1>3, <1>4, <1>5, <1>6, <1>7, RowsBefore, OneTaskStep DEF TablesTypeOK

LEMMA BeginTurnStep ==
    ASSUME TablesTypeOK, NEW t \in Tasks, BeginTurn(t)
    PROVE  StoreStep
BY RowsBefore, RowsStay DEF BeginTurn, StoreStep, TablesTypeOK

----------------------------------------------------------------------------
(* Every step of the specification is one of those, or a caller's read.    *)

LEMMA GuardedByStep ==
    ASSUME TablesTypeOK, NEW t \in Tasks, NEW g, NEW p, NEW seen, GuardedBy(t, g, p, seen)
    PROVE  StoreStep
<1>1. CASE \E op \in Ops : PauseCall(t, g, p, op)
  <2>1. PICK op \in Ops : PauseCall(t, g, p, op)
    BY <1>1
  <2>2. CASE GuardedStop(t, g, p, op)
    BY <2>2, RowsBefore, FinishedStep DEF GuardedStop, Terminal
  <2>. QED  BY <2>1, <2>2, RequestPauseStep, CancelPauseStep, ResumeInterruptedStep DEF PauseCall
<1>2. CASE \E op \in Ops : ParkCall(t, g, p, op)
  BY <1>2, HoldStep, HoldUnderPauseStep, ReleaseStep, ParkStep, InterruptStep, MarkRetryStep
     DEF ParkCall
<1>3. CASE \E op \in Ops, first \in BOOLEAN : ResumeRecovered(t, g, p, seen, first, op)
  BY <1>3, ResumeRecoveredStep
<1>4. CASE LaunchCall(t, g, p, seen)
  BY <1>4, StartStep, CaptureChangeStep DEF LaunchCall
<1>5. CASE RecoveryCall(t, g, p)
  BY <1>5, PrepareStep, SupersedeStep DEF RecoveryCall
<1>. QED  BY <1>1, <1>2, <1>3, <1>4, <1>5 DEF GuardedBy

(* A task that was not created has no identity. *)
AbsentUntouched == \A t \in Tasks : State(t) = "absent" => park[t].gen = 0

LEMMA UnguardedStep ==
    ASSUME TablesTypeOK, AbsentUntouched, NEW t \in Tasks, Unguarded(t)
    PROVE  StoreStep
<1>. USE PlaneAssumption DEF PlaneAssumption
<1>1. CASE \E prio \in NewPriorities, proof \in BOOLEAN : Create(t, prio, proof)
  BY <1>1, CreateStep DEF Create, AbsentUntouched
<1>2. CASE \E level \in UserChoices \cap Levels, source \in Sources, force \in BOOLEAN :
              SetLevel(t, level, source, force)
  BY <1>2, SetLevelStep
<1>3. CASE \E choice \in UserChoices, to \in {"queued", "parked"} : ChangeState(t, choice, to)
  BY <1>3, ChangeStateStep DEF States, Open
<1>4. CASE \E choice \in UserChoices :
              ChangePriority(t, choice) \/ ContinueRunning(t, choice) \/ RunBare(t, choice)
  BY <1>4, ChangePriorityStep, RunStep
<1>5. CASE \E e \in Execs : StartOrdinary(t, e)
  <2>1. Keep \in Choices
    BY DEF Choices
  <2>. QED  BY <1>5, <2>1, RunStep
<1>6. CASE \E to \in Endings : Finish(t, to)
  BY <1>6, RowsBefore, FinishedStep DEF Finish
<1>7. CASE SetFirst(t) \/ Pause(t) \/ Resume(t)
  BY <1>7, SetFirstStep, PauseStoreStep, ResumeStep
<1>8. CASE \E level \in UserChoices : Reopen(t, level)
  BY <1>8, ReopenStep
<1>9. CASE \E r \in recops : r.task = t /\ Commit(r)
  BY <1>9, CommitStep
<1>10. CASE BeginTurn(t)
  BY <1>10, BeginTurnStep
<1>. QED  BY <1>1, <1>2, <1>3, <1>4, <1>5, <1>6, <1>7, <1>8, <1>9, <1>10 DEF Unguarded

(* No generation that a caller holds is ahead of the task's. *)
TicketsBehind ==
    \A c \in Callers : ticket[c].gen <= park[ticket[c].task].gen

IdentityInv == TypeOK /\ AbsentUntouched /\ TicketsBehind /\ TicketSound

LEMMA InitIdentity == Init => IdentityInv
<1>. SUFFICES ASSUME Init PROVE IdentityInv
  OBVIOUS
<1>1. PICK t \in Tasks : ticket = [c \in Callers |-> NoTicket(t)]
  BY DEF Init
<1>2. TablesTypeOK
  BY ConstantRows DEF Init, TablesInit, TablesTypeOK
<1>3. NoTicket(t) \in Tickets /\ NoTicket(t).task = t /\ NoTicket(t).gen = 0
  BY DEF NoTicket, Tickets, States
<1>4. park[t].gen = 0 /\ AbsentUntouched
  BY DEF Init, TablesInit, NoPark, AbsentUntouched
<1>. QED  BY <1>1, <1>2, <1>3, <1>4 DEF IdentityInv, TypeOK, TicketsBehind, TicketSound

(* Callers may drop what they read, and learn nothing. *)
Unlearned ==
    /\ ticket' \in [Callers -> Tickets]
    /\ \A c \in Callers : ticket'[c] \in {ticket[c], NoTicket(ticket[c].task)}

LEMMA DroppedUnlearned ==
    ASSUME ticket \in [Callers -> Tickets], NEW gone \in SUBSET Callers,
           ticket' = Dropped(gone)
    PROVE  Unlearned
<1>1. ASSUME NEW c \in Callers PROVE NoTicket(ticket[c].task) \in Tickets
  BY DEF NoTicket, Tickets, States
<1>. QED  BY <1>1 DEF Dropped, Unlearned

(* A store's step leaves every caller's identity behind or true.           *)
LEMMA StoreStepKeeps ==
    ASSUME IdentityInv, StoreStep, Unlearned
    PROVE  IdentityInv'
<1>1. TypeOK'
  BY DEF IdentityInv, TypeOK, StoreStep, Unlearned
<1>2. AbsentUntouched'
  BY DEF IdentityInv, AbsentUntouched, StoreStep, IdentityStep, State
<1>3. ASSUME NEW c \in Callers
      PROVE  /\ ticket[c].gen \in Nat /\ ticket[c].task \in Tasks
             /\ park[ticket[c].task].gen \in Nat /\ park'[ticket[c].task].gen \in Nat
             /\ ticket[c].gen <= park[ticket[c].task].gen
             /\ IdentityStep(ticket[c].task)
  BY DEF IdentityInv, TypeOK, Tickets, StoreStep, TablesTypeOK, ParkRows, TicketsBehind
<1>6. ASSUME NEW c \in Callers
      PROVE  /\ ticket'[c].task = ticket[c].task
             /\ ticket'[c].gen \in {0, ticket[c].gen}
             /\ ticket'[c].gen # 0 => ticket'[c] = ticket[c]
  BY DEF Unlearned, NoTicket
<1>4. TicketsBehind'
  BY <1>3, <1>6 DEF TicketsBehind, IdentityStep
<1>5. TicketSound'
  <2>. SUFFICES ASSUME NEW c \in Callers, ticket'[c].gen # 0,
                       Matches(ticket[c].task, ticket[c].gen, ticket[c].op)'
                PROVE  /\ tasks'[ticket'[c].task].state = ticket'[c].state
                       /\ prov'[ticket'[c].task].exec = ticket'[c].exec
                       /\ park'[ticket'[c].task].pending = ticket'[c].pending
    BY DEF TicketSound, State
  <2>0. ticket'[c] = ticket[c]
    BY <1>6
  <2>. DEFINE u == ticket[c].task
  <2>1. park'[u].gen = ticket[c].gen /\ ticket[c].gen # 0
    BY <2>0 DEF Matches
  <2>2. park'[u].gen = park[u].gen /\ park[u].gen # 0
    BY <1>3, <2>1 DEF IdentityStep
  <2>3. /\ park'[u].op = park[u].op /\ park'[u].pending = park[u].pending
        /\ tasks'[u].state = tasks[u].state /\ prov'[u].exec = prov[u].exec
    BY <1>3, <2>2 DEF IdentityStep
  <2>4. Matches(u, ticket[c].gen, ticket[c].op)
    BY <2>0, <2>1, <2>2, <2>3 DEF Matches
  <2>5. /\ State(u) = ticket[c].state /\ prov[u].exec = ticket[c].exec
        /\ park[u].pending = ticket[c].pending
    BY <2>1, <2>4 DEF IdentityInv, TicketSound
  <2>. QED  BY <2>0, <2>3, <2>5 DEF State
<1>. QED  BY <1>1, <1>2, <1>4, <1>5 DEF IdentityInv

(* A read gives its caller the task's identity as it is. *)
LEMMA ReadKeeps ==
    ASSUME IdentityInv, NEW c \in Callers, NEW t \in Tasks, Read(c, t)
    PROVE  IdentityInv'
<1>. DEFINE read == [task |-> t, gen |-> park[t].gen, op |-> park[t].op, state |-> State(t),
                     exec |-> prov[t].exec, pending |-> park[t].pending]
<1>1. TablesTypeOK /\ ticket \in [Callers -> Tickets]
  BY DEF IdentityInv, TypeOK
<1>2. ticket' = [ticket EXCEPT ![c] = read]
  BY DEF Read
<1>3. read \in Tickets
  BY <1>1, RowsBefore DEF Tickets, ParkRows, ProvRows
<1>4. UNCHANGED <<tasks, park, prov, capture, recops, crashed, usedOps, turns, resumeTurn>>
  BY DEF Read, tables
<1>5. TypeOK'
  BY <1>1, <1>2, <1>3, <1>4 DEF TypeOK, TablesTypeOK
<1>6. AbsentUntouched'
  BY <1>4 DEF IdentityInv, AbsentUntouched, State
<1>7. ASSUME NEW d \in Callers, ticket'[d] # ticket[d]
      PROVE  d = c /\ ticket'[d] = read
  BY <1>1, <1>2, <1>7
<1>8. park[t].gen \in Nat
  BY <1>1 DEF TablesTypeOK, ParkRows
<1>9. TicketsBehind'
  BY <1>4, <1>7, <1>8 DEF IdentityInv, TicketsBehind
<1>10. TicketSound'
  BY <1>4, <1>7 DEF IdentityInv, TicketSound, Matches, State
<1>. QED  BY <1>5, <1>6, <1>9, <1>10 DEF IdentityInv

LEMMA NextIdentity == IdentityInv /\ [Next]_vars => IdentityInv'
<1>. SUFFICES ASSUME IdentityInv, [Next]_vars PROVE IdentityInv'
  OBVIOUS
<1>. USE DEF IdentityInv, TypeOK
<1>1. ASSUME NEW c \in Callers, GuardedCall(c) PROVE IdentityInv'
  <2>1. ticket[c].task \in Tasks
    BY DEF Tickets
  <2>2. Unlearned
    BY <1>1, DroppedUnlearned DEF GuardedCall, Unlearned
  <2>. QED  BY <1>1, <2>1, <2>2, GuardedByStep, StoreStepKeeps DEF GuardedCall
<1>2. ASSUME NEW c \in Callers, NEW t \in Tasks, Read(c, t) PROVE IdentityInv'
  BY <1>2, ReadKeeps
<1>3. ASSUME NEW t \in Tasks, Unguarded(t) \/ CurrentCall(t) PROVE IdentityInv'
  <2>1. Unlearned
    BY <1>3 DEF Unguarded, CurrentCall, Unlearned
  <2>2. CASE Unguarded(t)
    BY <2>1, <2>2, UnguardedStep, StoreStepKeeps
  <2>3. CASE CurrentCall(t)
    BY <2>1, <2>3, GuardedByStep, StoreStepKeeps, RowsBefore DEF CurrentCall
  <2>. QED  BY <1>3, <2>2, <2>3
<1>4. UNCHANGED tables => StoreStep
  BY RowsStay DEF tables, StoreStep, TablesTypeOK
<1>5. CASE Forget
  <2>1. Unlearned
    BY <1>5, DroppedUnlearned DEF Forget
  <2>. QED  BY <1>4, <1>5, <2>1, StoreStepKeeps DEF Forget
<1>6. CASE UNCHANGED vars
  <2>1. Unlearned /\ UNCHANGED tables
    BY <1>6 DEF vars, Unlearned
  <2>. QED  BY <1>4, <2>1, StoreStepKeeps
<1>. QED  BY <1>1, <1>2, <1>3, <1>5, <1>6 DEF Next

(* The tables and the callers' identities keep their types: every row any  *)
(* transaction of the three stores writes is a row of its table.           *)
THEOREM TypeCorrect == Spec => []TypeOK
<1>1. IdentityInv => TypeOK
  BY DEF IdentityInv
<1>. QED  BY <1>1, InitIdentity, NextIdentity, PTL DEF Spec

(* However many callers keep an identity and however old it is: while its  *)
(* (generation, operation) pair still matches, the task is in the state    *)
(* and under the execution and the pending pause its caller saw.           *)
THEOREM IdentityGuards == Spec => []TicketSound
<1>1. IdentityInv => TicketSound
  BY DEF IdentityInv
<1>. QED  BY <1>1, InitIdentity, NextIdentity, PTL DEF Spec


----------------------------------------------------------------------------
(* What the tables say of a task's past: launches, pauses, crashes, Stop and *)
(* the person's P0.  The inductive invariant is HistoryInv.                  *)

(* What the rows of one task say together. *)
PauseSound(row, id) ==
    /\ id.pending => /\ id.snap
                     /\ row.prio.level = 5 /\ row.prio.reason = "pause"
                     /\ row.state \in {"queued", "running", "held", "interrupted"}
    /\ id.snap /\ ~id.pending => row.state \in {"parked", "interrupted"}

LaunchSound(row, proof, cap, turn) ==
    /\ proof.first = "never_started" =>
          row.state \notin {"running", "held"} /\ cap.exec = NoExec /\ turn = 0
    /\ cap.exec # NoExec => proof.exec = cap.exec
    /\ row.state = "absent" =>
          proof.first = "absent" /\ cap.exec = NoExec /\ turn = 0 /\ row.crashes = 0

RowsSound(t) ==
    /\ PauseSound(tasks[t], park[t])
    /\ LaunchSound(tasks[t], prov[t], capture[t], turns[t])

(* What a row of recovery_operations says of its task. *)
ReceiptSound(r) ==
    /\ 1 <= r.gen /\ r.gen <= park[r.task].gen
    /\ r.kind = "start" =>
          /\ prov[r.task].first \notin {"absent", "never_started"}
          /\ Current(r) => prov[r.task].exec = r.exec
    /\ r \in Prepared(r.task) =>
          /\ r.outcome \in {"interrupted", "queued"} \cup Terminal
          /\ r.outcome = "queued" => r.state = "queued"
          /\ Matches(r.task, r.gen, r.pend) =>
                State(r.task) = r.state /\ prov[r.task].exec \in {NoExec, r.exec}

CrashesOf(t) == {e \in Execs : <<t, e>> \in crashed}
CrashSound(t) ==
    /\ IsFiniteSet(CrashesOf(t))
    /\ tasks[t].crashes = Cardinality(CrashesOf(t))

HistoryInv ==
    /\ IdentityInv
    /\ \A t \in Tasks : RowsSound(t) /\ CrashSound(t)
    /\ \A r \in recops : ReceiptSound(r)

----------------------------------------------------------------------------
(* What a store call on task t does: to the other tasks, to t's own rows,  *)
(* to the receipts and to the crash count.                                 *)

(* Another task's rows stay, except that it may lose a user's P0.          *)
Demoted(row) == [row EXCEPT !.prio = [@ EXCEPT !.level = 1, !.reason = "other"]]
OtherTasksKept(t) ==
    \A u \in Tasks \ {t} :
        tasks'[u] = tasks[u] \/ (UserP0(tasks[u]) /\ tasks'[u] = Demoted(tasks[u]))
OthersKept(t) ==
    /\ OtherTasksKept(t)
    /\ \A u \in Tasks \ {t} : /\ park'[u] = park[u] /\ prov'[u] = prov[u]
                              /\ capture'[u] = capture[u] /\ turns'[u] = turns[u]

(* A receipt that changes is the active capture's, which moves on with the *)
(* identity; one of a new launch; or a recovery's.                         *)
Follows(t, r) ==
    \E old \in recops :
        /\ old.task = t /\ old.kind = "start" /\ Current(old)
        /\ r.task = t /\ r.kind = "start" /\ r.exec = old.exec
        /\ r.gen = park'[t].gen /\ prov'[t] = prov[t]

Launched(t, r) ==
    /\ r.task = t /\ r.kind = "start"
    /\ 1 <= r.gen /\ r.gen = park'[t].gen
    /\ prov'[t].first = "started" /\ prov'[t].exec = r.exec
    /\ \A old \in recops : ~(old.task = t /\ old.kind = "start" /\ old.exec = r.exec)

Settles(t, r) ==
    /\ r.task = t /\ r.kind = "recovery"
    /\ 1 <= r.gen /\ r.gen <= park'[t].gen
    /\ r.phase = "prepared" =>
          /\ r.outcome \in {"interrupted", "queued"} \cup Terminal
          /\ r.outcome = "queued" => r.state = "queued"
          /\ tasks'[t].state = r.state /\ prov'[t].exec \in {NoExec, r.exec}

ReceiptsStep(t) ==
    \A r \in recops' : r \in recops \/ Follows(t, r) \/ Launched(t, r) \/ Settles(t, r)

(* Only a task without launch evidence can be shown never to have started. *)
NoLaunch == {"absent", "never_started"}
ProofStep(t) == prov'[t].first \in NoLaunch => prov[t].first \in NoLaunch

(* A crash counts for one execution, and not twice. *)
CrashStep(t) ==
    \/ crashed' = crashed /\ tasks'[t].crashes = tasks[t].crashes
    \/ \E e \in Execs : /\ <<t, e>> \notin crashed /\ crashed' = crashed \cup {<<t, e>>}
                         /\ tasks'[t].crashes = tasks[t].crashes + 1

StopStep(t) ==
    State(t) \in Terminal /\ State(t)' \notin Terminal => State(t)' = "queued" /\ ResumeWaits(t)'

P0Step(t) ==
    State(t) \in Open \cup {"absent"} /\ ~UserP0(tasks[t]) /\ UserP0(tasks'[t]) =>
        \A u \in Tasks \ {t} : ~UserP0(tasks'[u])

RowStep(t) == /\ RowsSound(t)' /\ ProofStep(t) /\ CrashStep(t) /\ StopStep(t) /\ P0Step(t)
CallStep(t) == OthersKept(t) /\ ReceiptsStep(t) /\ RowStep(t)

----------------------------------------------------------------------------
(* The helpers *)

LEMMA RowsNow ==
    ASSUME HistoryInv, NEW t \in Tasks
    PROVE  TablesTypeOK /\ RowsSound(t)
BY DEF HistoryInv, IdentityInv, TypeOK

LEMMA DemotedOthers ==
    ASSUME tasks \in [Tasks -> TaskRows], NEW t \in Tasks, NEW row,
           tasks' = OthersDemoted([tasks EXCEPT ![t] = row], t)
    PROVE  /\ tasks'[t] = row /\ OtherTasksKept(t)
           /\ \A u \in Tasks \ {t} : ~UserP0(tasks'[u])
<1>1. tasks'[t] = row
  BY DEF OthersDemoted
<1>2. ASSUME NEW u \in Tasks \ {t}
      PROVE  tasks'[u] = IF UserP0(tasks[u]) THEN Demoted(tasks[u]) ELSE tasks[u]
  BY DEF OthersDemoted, Demoted
<1>3. ASSUME NEW u \in Tasks \ {t} PROVE ~UserP0(Demoted(tasks[u]))
  <2>1. Demoted(tasks[u]).prio.level = 1
    BY DEF Demoted, TaskRows, Priorities
  <2>. QED  BY <2>1 DEF UserP0
<1>. QED  BY <1>1, <1>2, <1>3 DEF OtherTasksKept

LEMMA WrittenRows ==
    ASSUME tasks \in [Tasks -> TaskRows], NEW t \in Tasks, NEW row, tasks' = Written(t, row)
    PROVE  tasks'[t] = row /\ OtherTasksKept(t) /\ P0Step(t)
<1>1. CASE row.prio.level = 0 /\ row.prio.source = "user"
  <2>1. tasks' = OthersDemoted([tasks EXCEPT ![t] = row], t)
    BY <1>1 DEF Written
  <2>. QED  BY <2>1, DemotedOthers DEF P0Step
<1>2. CASE ~(row.prio.level = 0 /\ row.prio.source = "user")
  <2>1. tasks' = [tasks EXCEPT ![t] = row]
    BY <1>2 DEF Written
  <2>2. tasks'[t] = row /\ ~UserP0(row)
    BY <1>2, <2>1 DEF UserP0
  <2>. QED  BY <2>1, <2>2 DEF OtherTasksKept, P0Step
<1>. QED  BY <1>1, <1>2

LEMMA ChangedRows ==
    ASSUME tasks \in [Tasks -> TaskRows], NEW t \in Tasks, Live(t), NEW choice \in Choices,
           NEW to, tasks' = ChangedTasks(t, choice, to)
    PROVE  /\ tasks'[t].state = (IF to = SameState THEN tasks[t].state ELSE to)
           /\ tasks'[t].prio = NewPriority(tasks[t].prio, choice)
           /\ tasks'[t].crashes = tasks[t].crashes
           /\ OtherTasksKept(t) /\ P0Step(t)
<1>. DEFINE row == [tasks[t] EXCEPT
                       !.state = IF to = SameState THEN @ ELSE to,
                       !.prio = NewPriority(@, choice),
                       !.hold = IF to = SameState THEN @ ELSE "none",
                       !.parkedLast = @ /\ (choice # Keep \/ to \in Terminal \/ ~HasParkRow(t))]
            now == [tasks EXCEPT ![t] = row]
<1>1. /\ row.state = (IF to = SameState THEN tasks[t].state ELSE to)
      /\ row.prio = NewPriority(tasks[t].prio, choice) /\ row.crashes = tasks[t].crashes
  BY DEF TaskRows
<1>2. tasks' = IF choice = 0 THEN OthersDemoted(now, t) ELSE now
  BY DEF ChangedTasks
<1>. HIDE DEF row
<1>3. tasks'[t] = row /\ OtherTasksKept(t)
  BY <1>2, DemotedOthers DEF OtherTasksKept
<1>4. CASE choice = 0
  BY <1>1, <1>2, <1>3, <1>4, DemotedOthers DEF P0Step
<1>5. CASE choice # 0
  <2>1. row.prio = tasks[t].prio \/ row.prio.level # 0
    BY <1>1, <1>5 DEF NewPriority, Choices, Levels, Keep, First, AutoLevel
  <2>2. UserP0(row) /\ State(t) \in Open \cup {"absent"} => UserP0(tasks[t])
    BY <2>1 DEF UserP0, State, Live, Open
  <2>. QED  BY <1>1, <1>3, <2>2 DEF P0Step
<1>. QED  BY <1>4, <1>5

(* The identity of a task whose pause is over. *)
LEMMA PauseOver ==
    ASSUME TablesTypeOK, NEW t \in Tasks, NEW op, NEW create \in BOOLEAN,
           park' = [park EXCEPT ![t] = NoSnapshot(Advanced(park[t], op, create))]
    PROVE  /\ park'[t].snap = FALSE /\ park'[t].pending = FALSE
           /\ park'[t].gen = Advanced(park[t], op, create).gen
           /\ \A u \in Tasks \ {t} : park'[u] = park[u]
BY DEF TablesTypeOK, NoSnapshot, Advanced, ParkRows

LEMMA CarriedReceipts ==
    ASSUME NEW t \in Tasks, NEW row, NEW to, NEW exec, recops \subseteq RecoveryRows,
           recops' \in {recops, Carried(t, row, to, exec), CarriedWhileActive(t, row, to, exec)},
           park'[t].gen = row.gen, prov'[t] = prov[t]
    PROVE  ReceiptsStep(t)
<1>1. CASE recops' = recops
  BY <1>1 DEF ReceiptsStep
<1>2. ASSUME recops' = Carried(t, row, to, exec), NEW r \in recops', r \notin recops
      PROVE  Follows(t, r)
  <2>1. PICK old \in recops :
           /\ old.task = t /\ old.kind = "start" /\ old.phase = "committed"
           /\ old.gen = park[t].gen /\ old.pend = park[t].op /\ old.state = State(t)
           /\ r = [old EXCEPT !.gen = row.gen, !.pend = row.op, !.state = to]
    BY <1>2 DEF Carried
  <2>2. Current(old)
    BY <2>1 DEF Current
  <2>3. r.task = t /\ r.kind = "start" /\ r.exec = old.exec /\ r.gen = row.gen
    BY <2>1 DEF RecoveryRows
  <2>. QED  BY <2>1, <2>2, <2>3 DEF Follows
<1>. QED  BY <1>1, <1>2 DEF ReceiptsStep, CarriedWhileActive

----------------------------------------------------------------------------
(* The calls of a worker's safe point *)

LEMMA ParkCallHistory ==
    ASSUME HistoryInv, NEW t \in Tasks, NEW g, NEW p, NEW op \in Ops, ParkCall(t, g, p, op)
    PROVE  CallStep(t)
<1>0. TablesTypeOK /\ RowsSound(t) /\ recops \subseteq RecoveryRows
  BY RowsNow DEF TablesTypeOK
<1>1. /\ Live(t) /\ UNCHANGED <<prov, capture, crashed, turns>>
      /\ \E row : park' = [park EXCEPT ![t] = row]
      /\ \E row : tasks' = [tasks EXCEPT ![t] = row]
  BY DEF ParkCall, Hold, HoldUnderPause, Release, Park, Interrupt, MarkRetry, Guarded, Unmoved
<1>2. OthersKept(t)
  BY <1>0, <1>1 DEF OthersKept, OtherTasksKept, TablesTypeOK
<1>3. ProofStep(t) /\ StopStep(t)
  BY <1>1 DEF ProofStep, StopStep, Live, Open, Terminal
<1>4. ASSUME NEW card \in BOOLEAN, Interrupt(t, g, p, op, card) PROVE CallStep(t)
  <2>1. RowsSound(t)'
    BY <1>0, <1>4, RowsBefore DEF Interrupt, Guarded, Unmoved, RowsSound, PauseSound, LaunchSound,
       TablesTypeOK, Advanced, State, TaskRows, ParkRows, WithSnapshot, Paused, ParkedRow
  <2>2. CrashStep(t) /\ P0Step(t)
    BY <1>0, <1>4, RowsBefore DEF Interrupt, Guarded, Unmoved, CrashStep, P0Step, UserP0, State,
       TablesTypeOK, TaskRows, Paused, Live
  <2>. QED  BY <1>2, <1>3, <1>4, <2>1, <2>2 DEF Interrupt, ReceiptsStep, CallStep, RowStep
<1>5. CASE Hold(t, g, p, op)
  <2>1. RowsSound(t)'
    BY <1>0, <1>5, RowsBefore DEF Hold, Guarded, Unmoved, RowsSound, PauseSound, LaunchSound,
       TablesTypeOK, Advanced, State, TaskRows, ParkRows
  <2>2. CrashStep(t) /\ P0Step(t)
    BY <1>0, <1>5, RowsBefore DEF Hold, Guarded, Unmoved, CrashStep, P0Step, UserP0, State,
       TablesTypeOK, TaskRows, Live
  <2>3. ReceiptsStep(t)
    BY <1>0, <1>5, CarriedReceipts DEF Hold, Unmoved, TablesTypeOK
  <2>. QED  BY <1>2, <1>3, <2>1, <2>2, <2>3 DEF CallStep, RowStep
<1>6. CASE Release(t, g, p, op)
  <2>1. RowsSound(t)'
    BY <1>0, <1>6, RowsBefore DEF Release, Guarded, Unmoved, RowsSound, PauseSound, LaunchSound,
       TablesTypeOK, Advanced, State, TaskRows, ParkRows
  <2>2. CrashStep(t) /\ P0Step(t)
    BY <1>0, <1>6, RowsBefore DEF Release, Guarded, Unmoved, CrashStep, P0Step, UserP0, State,
       TablesTypeOK, TaskRows, Live
  <2>3. ReceiptsStep(t)
    BY <1>0, <1>6, CarriedReceipts DEF Release, Unmoved, TablesTypeOK
  <2>. QED  BY <1>2, <1>3, <2>1, <2>2, <2>3 DEF CallStep, RowStep
<1>7. CASE HoldUnderPause(t, g, p, op)
  <2>1. RowsSound(t)'
    BY <1>0, <1>7, RowsBefore DEF HoldUnderPause, Guarded, Unmoved, RowsSound, PauseSound, LaunchSound,
       TablesTypeOK, Advanced, State, TaskRows, ParkRows
  <2>2. CrashStep(t) /\ P0Step(t) /\ ReceiptsStep(t)
    BY <1>0, <1>7, RowsBefore DEF HoldUnderPause, Guarded, Unmoved, CrashStep, P0Step, UserP0, State,
       TablesTypeOK, TaskRows, Live, ReceiptsStep
  <2>. QED  BY <1>2, <1>3, <2>1, <2>2 DEF CallStep, RowStep
<1>9. CASE MarkRetry(t, g, p, op)
  <2>1. RowsSound(t)'
    BY <1>0, <1>9, RowsBefore DEF MarkRetry, Guarded, Unmoved, RowsSound, PauseSound, LaunchSound,
       TablesTypeOK, Advanced, State, TaskRows, ParkRows
  <2>2. CrashStep(t) /\ P0Step(t) /\ ReceiptsStep(t)
    BY <1>0, <1>9, RowsBefore DEF MarkRetry, Guarded, Unmoved, CrashStep, P0Step, UserP0, State,
       TablesTypeOK, TaskRows, Live, ReceiptsStep
  <2>. QED  BY <1>2, <1>3, <2>1, <2>2 DEF CallStep, RowStep
<1>8. CASE Park(t, g, p, op)
  <2>1. RowsSound(t)'
    BY <1>0, <1>8, RowsBefore DEF Park, Guarded, Unmoved, RowsSound, PauseSound, LaunchSound,
       TablesTypeOK, Advanced, State, TaskRows, ParkRows, ParkedRow
  <2>2. CrashStep(t) /\ P0Step(t) /\ ReceiptsStep(t)
    BY <1>0, <1>8, RowsBefore DEF Park, Guarded, Unmoved, CrashStep, P0Step, UserP0, State,
       TablesTypeOK, TaskRows, Live, ReceiptsStep
  <2>. QED  BY <1>2, <1>3, <2>1, <2>2 DEF CallStep, RowStep
<1>. QED  BY <1>4, <1>5, <1>6, <1>7, <1>8, <1>9 DEF ParkCall

----------------------------------------------------------------------------
(* Pauses that wait for a safe point, and Stop *)

(* Finished: Stop, a result, an expiry. *)
LEMMA FinishedHistory ==
    ASSUME HistoryInv, NEW t \in Tasks, NEW to \in Terminal, Finished(t, to)
    PROVE  CallStep(t)
<1>0. TablesTypeOK /\ RowsSound(t)
  BY RowsNow
<1>1. /\ Live(t) /\ tasks' = ChangedTasks(t, Keep, to) /\ Keep \in Choices /\ to # SameState
      /\ capture' = [capture EXCEPT ![t] = NoCapture]
      /\ park' = [park EXCEPT ![t] = NoSnapshot(Advanced(park[t], NoOp, FALSE))]
      /\ UNCHANGED <<prov, recops, crashed, turns>>
  BY DEF Finished, Choices, Terminal, SameState
<1>2. /\ tasks'[t].state = to /\ tasks'[t].crashes = tasks[t].crashes
      /\ OtherTasksKept(t) /\ P0Step(t)
  BY <1>0, <1>1, ChangedRows DEF TablesTypeOK
<1>3. RowsSound(t)'
  BY <1>0, <1>1, <1>2, RowsBefore DEF RowsSound, PauseSound, LaunchSound, TablesTypeOK, Advanced,
     NoSnapshot, NoCapture, ParkRows, Terminal
<1>4. OthersKept(t) /\ ProofStep(t) /\ CrashStep(t) /\ StopStep(t) /\ ReceiptsStep(t)
  BY <1>0, <1>1, <1>2 DEF OthersKept, TablesTypeOK, ProofStep, CrashStep, StopStep, State,
     ReceiptsStep
<1>. QED  BY <1>2, <1>3, <1>4 DEF CallStep, RowStep

(* resume, resume_interrupted and resume_recovered. *)
LEMMA RestoredHistory ==
    ASSUME HistoryInv, NEW t \in Tasks, State(t) \in {"interrupted", "parked"}, NEW prio,
           NEW to \in {"queued", "parked"}, NEW create \in BOOLEAN,
           tasks' = Restored(t, prio, to),
           park' = [park EXCEPT ![t] = NoSnapshot(Advanced(park[t], NoOp, create))],
           UNCHANGED <<prov, capture, recops, crashed, turns>>
    PROVE  CallStep(t)
<1>. DEFINE row == [tasks[t] EXCEPT !.state = to, !.prio = prio, !.parkedLast = FALSE,
                                    !.hold = "none"]
<1>0. TablesTypeOK /\ RowsSound(t)
  BY RowsNow
<1>1. tasks'[t] = row /\ OtherTasksKept(t) /\ P0Step(t)
  BY <1>0, WrittenRows DEF Restored, TablesTypeOK
<1>2. row.state = to /\ row.crashes = tasks[t].crashes
  BY <1>0, RowsBefore DEF TaskRows
<1>. HIDE DEF row
<1>3. RowsSound(t)'
  BY <1>0, <1>1, <1>2, PauseOver DEF RowsSound, PauseSound, LaunchSound, State
<1>4. ProofStep(t) /\ CrashStep(t) /\ StopStep(t) /\ OthersKept(t) /\ ReceiptsStep(t)
  BY <1>0, <1>1, <1>2, PauseOver DEF ProofStep, CrashStep, StopStep, State, Terminal, OthersKept,
     ReceiptsStep
<1>. QED  BY <1>1, <1>3, <1>4 DEF CallStep, RowStep

LEMMA PauseCallHistory ==
    ASSUME HistoryInv, NEW t \in Tasks, NEW g, NEW p, NEW op \in Ops, PauseCall(t, g, p, op)
    PROVE  CallStep(t)
<1>0. TablesTypeOK /\ RowsSound(t) /\ recops \subseteq RecoveryRows
  BY RowsNow DEF TablesTypeOK
<1>1. CASE GuardedStop(t, g, p, op)
  BY <1>1, FinishedHistory DEF GuardedStop, Terminal
<1>2. CASE RequestPause(t, g, p, op)
  <2>1. RowsSound(t)'
    BY <1>0, <1>2, RowsBefore DEF RequestPause, RowsSound, PauseSound, LaunchSound, TablesTypeOK,
       Advanced, WithSnapshot, Paused, State, TaskRows, ParkRows
  <2>2. P0Step(t) /\ OthersKept(t)
    BY <1>0, <1>2 DEF RequestPause, P0Step, UserP0, Paused, TablesTypeOK, TaskRows, OthersKept,
       OtherTasksKept
  <2>3. ReceiptsStep(t)
    BY ZenonT(40), <1>0, <1>2, CarriedReceipts DEF RequestPause, WithSnapshot, TablesTypeOK, ParkRows, Advanced
  <2>4. ProofStep(t) /\ CrashStep(t) /\ StopStep(t)
    BY <1>0, <1>2 DEF RequestPause, ProofStep, CrashStep, StopStep, State, TablesTypeOK, TaskRows,
       Terminal
  <2>. QED  BY <2>1, <2>2, <2>3, <2>4 DEF CallStep, RowStep
<1>3. CASE CancelPause(t, g, p, op)
  <2>. DEFINE row == [tasks[t] EXCEPT !.prio = park[t].saved, !.parkedLast = FALSE]
  <2>1. /\ tasks'[t] = row /\ OtherTasksKept(t) /\ P0Step(t)
    BY <1>0, <1>3, WrittenRows DEF CancelPause, TablesTypeOK
  <2>2. RowsSound(t)'
    BY ZenonT(40), <1>0, <1>3, <2>1, RowsBefore, PauseOver DEF CancelPause, RowsSound, PauseSound, LaunchSound,
       TablesTypeOK, State, TaskRows
  <2>3. ReceiptsStep(t)
    BY ZenonT(40), <1>0, <1>3, CarriedReceipts DEF CancelPause, NoSnapshot, TablesTypeOK, ParkRows, Advanced
  <2>4. ProofStep(t) /\ CrashStep(t) /\ StopStep(t) /\ OthersKept(t)
    BY <1>0, <1>3, <2>1, RowsBefore DEF CancelPause, ProofStep, CrashStep, StopStep, State, TablesTypeOK,
       TaskRows, Terminal, OthersKept
  <2>. QED  BY <2>1, <2>2, <2>3, <2>4 DEF CallStep, RowStep
<1>4. CASE ResumeInterrupted(t, g, p, op)
  BY <1>4, RestoredHistory DEF ResumeInterrupted
<1>. QED  BY <1>1, <1>2, <1>3, <1>4 DEF PauseCall

----------------------------------------------------------------------------
(* Calls that read the identity in their own transaction *)

LEMMA CreateHistory ==
    ASSUME HistoryInv, NEW t \in Tasks, NEW prio \in Priorities, NEW proof \in BOOLEAN,
           Create(t, prio, proof)
    PROVE  CallStep(t)
<1>. DEFINE row == [NoTask EXCEPT !.state = "queued", !.prio = prio]
<1>0. TablesTypeOK /\ RowsSound(t) /\ State(t) = "absent"
  BY RowsNow DEF Create
<1>1. tasks'[t] = row /\ OtherTasksKept(t) /\ P0Step(t)
  BY <1>0, WrittenRows DEF Create, TablesTypeOK
<1>2. row.state = "queued" /\ row.crashes = 0
  BY DEF NoTask
<1>. HIDE DEF row
<1>3. /\ ~park[t].snap /\ ~park[t].pending
      /\ tasks[t].crashes = 0 /\ capture[t].exec = NoExec /\ turns[t] = 0
      /\ prov[t].first = "absent"
  BY <1>0 DEF RowsSound, PauseSound, LaunchSound, State
<1>4. RowsSound(t)'
  BY <1>0, <1>1, <1>2, <1>3 DEF Create, RowsSound, PauseSound, LaunchSound
<1>5. OthersKept(t) /\ ReceiptsStep(t) /\ CrashStep(t) /\ StopStep(t)
  BY <1>0, <1>1, <1>2, <1>3 DEF Create, OthersKept, TablesTypeOK, ReceiptsStep, CrashStep, StopStep,
     Terminal
<1>6. ProofStep(t)
  BY <1>3 DEF ProofStep, NoLaunch
<1>. QED  BY <1>1, <1>4, <1>5, <1>6 DEF CallStep, RowStep

LEMMA SetLevelHistory ==
    ASSUME HistoryInv, NEW t \in Tasks, NEW level \in Levels, NEW source \in Sources,
           NEW force \in BOOLEAN, SetLevel(t, level, source, force)
    PROVE  CallStep(t)
<1>. DEFINE new == [level |-> level, source |-> source, reason |-> "other"]
            row == [tasks[t] EXCEPT !.prio = new]
            id == Advanced(park[t], NoOp, FALSE)
            after == IF State(t) = "parked" /\ tasks[t].prio.level = 5 /\ level = 5 /\ id.snap
                     THEN WithSnapshot(id, new) ELSE NoSnapshot(id)
<1>0. TablesTypeOK /\ RowsSound(t)
  BY RowsNow
<1>1. tasks' = Written(t, row) /\ park' = [park EXCEPT ![t] = after] /\ Live(t) /\ ~park[t].pending
      /\ recops' \in {recops, CarriedWhileActive(t, id, State(t), capture[t].exec)}
      /\ UNCHANGED <<prov, capture, crashed, turns>>
  BY DEF SetLevel
<1>2. row.state = State(t) /\ row.crashes = tasks[t].crashes
  BY <1>0 DEF TablesTypeOK, TaskRows, State
<1>3. after.gen = id.gen /\ ~after.pending /\ (after.snap => State(t) = "parked")
  BY <1>0, <1>1, RowsBefore DEF Advanced, WithSnapshot, NoSnapshot, ParkRows
<1>. HIDE DEF row, id, after
<1>4. tasks'[t] = row /\ OtherTasksKept(t) /\ P0Step(t)
  BY <1>0, <1>1, WrittenRows DEF TablesTypeOK
<1>5. park'[t] = after /\ OthersKept(t)
  BY <1>0, <1>1, <1>4 DEF TablesTypeOK, OthersKept
<1>6. RowsSound(t)'
  BY <1>0, <1>1, <1>2, <1>3, <1>4, <1>5 DEF RowsSound, PauseSound, LaunchSound, State
<1>7. ReceiptsStep(t)
  BY <1>0, <1>1, <1>3, <1>5, CarriedReceipts DEF TablesTypeOK
<1>8. ProofStep(t) /\ CrashStep(t) /\ StopStep(t)
  BY <1>1, <1>2, <1>4 DEF ProofStep, CrashStep, StopStep, State
<1>. QED  BY <1>4, <1>5, <1>6, <1>7, <1>8 DEF CallStep, RowStep

LEMMA SetFirstHistory ==
    ASSUME HistoryInv, NEW t \in Tasks, SetFirst(t)
    PROVE  CallStep(t)
<1>0. TablesTypeOK /\ RowsSound(t)
  BY RowsNow
<1>1. RowsSound(t)'
  BY <1>0, RowsBefore DEF SetFirst, RowsSound, PauseSound, LaunchSound, TablesTypeOK, Advanced,
     WithSnapshot, State, ParkRows
<1>2. OthersKept(t) /\ ReceiptsStep(t) /\ ProofStep(t) /\ CrashStep(t) /\ StopStep(t) /\ P0Step(t)
  BY <1>0 DEF SetFirst, OthersKept, OtherTasksKept, TablesTypeOK, ReceiptsStep, ProofStep,
     CrashStep, StopStep, P0Step, State
<1>. QED  BY <1>1, <1>2 DEF CallStep, RowStep

(* change(priority) and change(state) to a state that does not run. *)
LEMMA ChangeHistory ==
    ASSUME HistoryInv, NEW t \in Tasks, NEW choice \in Choices,
           NEW to \in {SameState, "queued", "parked"}, Live(t), ~park[t].pending,
           tasks' = ChangedTasks(t, choice, to),
           LET row == Advanced(park[t], NoOp, FALSE) IN
               /\ park' = [park EXCEPT ![t] = ChangedPark(t, row, choice, to)]
               /\ recops' \in {recops, CarriedWhileActive(t, row,
                                   IF to = SameState THEN State(t) ELSE to, capture[t].exec)},
           UNCHANGED <<prov, capture, crashed, turns>>
    PROVE  CallStep(t)
<1>. DEFINE id == Advanced(park[t], NoOp, FALSE)
            after == ChangedPark(t, id, choice, to)
<1>0. TablesTypeOK /\ RowsSound(t)
  BY RowsNow
<1>1. /\ tasks'[t].state = (IF to = SameState THEN State(t) ELSE to)
      /\ tasks'[t].crashes = tasks[t].crashes /\ OtherTasksKept(t) /\ P0Step(t)
  BY <1>0, ChangedRows DEF TablesTypeOK, State
<1>2. id.snap = park[t].snap /\ ~id.pending
  BY <1>0, RowsBefore DEF Advanced, ParkRows
<1>3. /\ after.gen = id.gen /\ ~after.pending
      /\ after.snap => park[t].snap /\ to \in {SameState, "parked"}
  <2>1. id \in ParkRows
    BY <1>0, RowsBefore, AdvancedType
  <2>. HIDE DEF id
  <2>2. \/ after = NoSnapshot(id)
        \/ to \in {SameState, "parked"} /\ after = id
        \/ to \in {SameState, "parked"} /\ id.snap /\ after = WithSnapshot(id, tasks[t].prio)
    BY DEF ChangedPark
  <2>. HIDE DEF after
  <2>. QED  BY <1>2, <2>1, <2>2 DEF WithSnapshot, NoSnapshot, ParkRows
<1>4. park' = [park EXCEPT ![t] = after]
  OBVIOUS
<1>5. recops' \in {recops, CarriedWhileActive(t, id, IF to = SameState THEN State(t) ELSE to,
                                              capture[t].exec)}
  OBVIOUS
<1>. HIDE DEF id, after
<1>6. park'[t] = after /\ OthersKept(t)
  BY <1>0, <1>1, <1>4 DEF TablesTypeOK, OthersKept
<1>7. RowsSound(t)'
  BY <1>0, <1>1, <1>3, <1>6 DEF RowsSound, PauseSound, LaunchSound, State, SameState, Live, Open
<1>8. ReceiptsStep(t)
  BY <1>0, <1>3, <1>5, <1>6, CarriedReceipts DEF TablesTypeOK
<1>9. ProofStep(t) /\ CrashStep(t) /\ StopStep(t)
  BY <1>1 DEF ProofStep, CrashStep, StopStep, State, Live, Open, Terminal
<1>. QED  BY <1>1, <1>6, <1>7, <1>8, <1>9 DEF CallStep, RowStep

LEMMA PauseHistory ==
    ASSUME HistoryInv, NEW t \in Tasks, Pause(t)
    PROVE  CallStep(t)
<1>0. TablesTypeOK /\ RowsSound(t)
  BY RowsNow
<1>1. RowsSound(t)'
  BY <1>0, RowsBefore DEF Pause, RowsSound, PauseSound, LaunchSound, TablesTypeOK, Advanced,
     WithSnapshot, State, TaskRows, ParkRows, Live, Open
<1>2. P0Step(t)
  BY <1>0, RowsBefore DEF Pause, P0Step, UserP0, Paused, TablesTypeOK, TaskRows
<1>3. OthersKept(t) /\ ReceiptsStep(t) /\ ProofStep(t) /\ CrashStep(t) /\ StopStep(t)
  BY <1>0, RowsBefore DEF Pause, OthersKept, OtherTasksKept, TablesTypeOK, ReceiptsStep, ProofStep,
     CrashStep, StopStep, State, TaskRows, Live, Open, Terminal
<1>. QED  BY <1>1, <1>2, <1>3 DEF CallStep, RowStep

LEMMA ReopenHistory ==
    ASSUME HistoryInv, NEW t \in Tasks, NEW level, Reopen(t, level)
    PROVE  CallStep(t)
<1>0. TablesTypeOK /\ RowsSound(t)
  BY RowsNow
<1>1. /\ tasks'[t].state = "queued" /\ tasks'[t].crashes = tasks[t].crashes
      /\ State(t) \in Terminal /\ UNCHANGED <<prov, capture, recops, crashed, turns>>
      /\ park' = [park EXCEPT ![t] = NoSnapshot(Advanced(park[t], NoOp, TRUE))]
  BY <1>0, RowsBefore DEF Reopen, TablesTypeOK, TaskRows, Terminal
<1>2. OthersKept(t)
  BY <1>0 DEF Reopen, OthersKept, OtherTasksKept, TablesTypeOK
<1>3. RowsSound(t)'
  BY <1>0, <1>1, PauseOver DEF RowsSound, PauseSound, LaunchSound, State, Terminal
<1>4. StopStep(t)
  BY <1>0, <1>1, RowsBefore DEF Reopen, StopStep, State, ResumeWaits, TablesTypeOK
<1>5. ReceiptsStep(t) /\ ProofStep(t) /\ CrashStep(t) /\ P0Step(t)
  BY <1>1 DEF ReceiptsStep, ProofStep, CrashStep, P0Step, Terminal, Open
<1>. QED  BY <1>2, <1>3, <1>4, <1>5 DEF CallStep, RowStep

----------------------------------------------------------------------------
(* Launches, recovery and capture *)

(* A start that is not fenced: change(state="running"). *)
LEMMA RunHistory ==
    ASSUME HistoryInv, NEW t \in Tasks, NEW choice \in Choices,
           \/ \E e \in Execs : StartOrdinary(t, e)
           \/ ContinueRunning(t, choice)
           \/ RunBare(t, choice)
    PROVE  CallStep(t)
<1>. DEFINE id == Advanced(park[t], NoOp, FALSE)
<1>0. TablesTypeOK /\ RowsSound(t)
  BY RowsNow
<1>1. /\ Live(t) /\ prov[t].first # "never_started" /\ UNCHANGED <<crashed, turns>>
      /\ \E c \in Choices : tasks' = ChangedTasks(t, c, "running")
      /\ park' = [park EXCEPT ![t] = NoSnapshot(id)]
      /\ "running" # SameState
  BY DEF StartOrdinary, ContinueRunning, RunBare, MayRun, Live, Open, Choices, SameState
<1>2. /\ tasks'[t].state = "running" /\ tasks'[t].crashes = tasks[t].crashes
      /\ OtherTasksKept(t) /\ P0Step(t)
  BY <1>0, <1>1, ChangedRows DEF TablesTypeOK
<1>3. /\ \A u \in Tasks \ {t} : prov'[u] = prov[u] /\ capture'[u] = capture[u]
      /\ capture'[t].exec # NoExec => prov'[t].exec = capture'[t].exec
      /\ prov'[t].first \in {prov[t].first, "started"}
  <2>1. CASE \E e \in Execs : StartOrdinary(t, e)
    BY <1>0, <2>1, RowsBefore DEF StartOrdinary, Upserted, TablesTypeOK
  <2>2. CASE ContinueRunning(t, choice)
    BY <1>0, <2>2 DEF ContinueRunning, RowsSound, LaunchSound
  <2>3. CASE RunBare(t, choice)
    BY <1>0, <2>3 DEF RunBare, TablesTypeOK, NoCapture
  <2>. QED  BY <2>1, <2>2, <2>3
<1>4. RowsSound(t)'
  BY <1>0, <1>1, <1>2, <1>3, PauseOver DEF RowsSound, PauseSound, LaunchSound
<1>5. ReceiptsStep(t)
  <2>1. CASE ContinueRunning(t, choice)
    <3>1. /\ recops' \in {recops, CarriedWhileActive(t, id, "running", capture[t].exec)}
          /\ prov' = prov
      BY <2>1 DEF ContinueRunning
    <3>2. park'[t].gen = id.gen
      BY <1>0, <1>1, PauseOver
    <3>. HIDE DEF id
    <3>. QED  BY <1>0, <3>1, <3>2, CarriedReceipts DEF TablesTypeOK
  <2>2. CASE recops' = recops
    BY <2>2 DEF ReceiptsStep
  <2>. QED  BY <2>1, <2>2 DEF StartOrdinary, RunBare
<1>6. OthersKept(t) /\ ProofStep(t) /\ CrashStep(t) /\ StopStep(t)
  BY <1>0, <1>1, <1>2, <1>3, PauseOver DEF OthersKept, ProofStep, NoLaunch, CrashStep, StopStep, State,
     Live, Open, Terminal
<1>. QED  BY <1>2, <1>4, <1>5, <1>6 DEF CallStep, RowStep

LEMMA ResumeRecoveredHistory ==
    ASSUME HistoryInv, NEW t \in Tasks, NEW g, NEW p, NEW e, NEW first, NEW op,
           ResumeRecovered(t, g, p, e, first, op)
    PROVE  CallStep(t)
<1>. DEFINE prio == IF park[t].snap THEN park[t].saved
                    ELSE IF tasks[t].prio.level = 5 THEN Computed ELSE tasks[t].prio
<1>1. /\ State(t) \in {"interrupted", "parked"}
      /\ tasks' = Restored(t, prio, "queued")
      /\ park' = [park EXCEPT ![t] = NoSnapshot(Advanced(park[t], NoOp, TRUE))]
      /\ UNCHANGED <<prov, capture, recops, crashed, turns>>
  BY DEF ResumeRecovered
<1>. HIDE DEF prio
<1>. QED  BY <1>1, RestoredHistory

LEMMA ResumeHistory ==
    ASSUME HistoryInv, NEW t \in Tasks, Resume(t)
    PROVE  CallStep(t)
<1>. DEFINE to == IF SavedPriority(t).level = 5 THEN "parked" ELSE "queued"
<1>1. /\ State(t) \in {"interrupted", "parked"}
      /\ tasks' = Restored(t, SavedPriority(t), to)
      /\ park' = [park EXCEPT ![t] = NoSnapshot(Advanced(park[t], NoOp, FALSE))]
      /\ UNCHANGED <<prov, capture, recops, crashed, turns>>
  BY DEF Resume
<1>2. to \in {"queued", "parked"}
  OBVIOUS
<1>. HIDE DEF to
<1>. QED  BY <1>1, <1>2, RestoredHistory

LEMMA StartHistory ==
    ASSUME HistoryInv, NEW t \in Tasks, NEW g, NEW p, NEW e \in Execs, NEW prior,
           NEW captures \in BOOLEAN, Start(t, g, p, e, prior, captures)
    PROVE  CallStep(t)
<1>. DEFINE id == Advanced(park[t], p, TRUE)
<1>0. TablesTypeOK /\ RowsSound(t)
  BY RowsNow
<1>1. /\ State(t) = "queued" /\ park' = [park EXCEPT ![t] = id] /\ ~park[t].pending
      /\ tasks' = [tasks EXCEPT ![t].state = "running"]
      /\ prov' = [prov EXCEPT ![t] = [first |-> "started", exec |-> e, unsafe |-> TRUE]]
      /\ capture'[t].exec \in {NoExec, e} /\ \A u \in Tasks \ {t} : capture'[u] = capture[u]
      /\ recops' = recops \cup {Started(t, e, id)}
      /\ UNCHANGED <<crashed, turns>>
  BY <1>0 DEF Start, NoCapture, TablesTypeOK
<1>2. \A r \in recops : ~(r.task = t /\ r.kind = "start" /\ r.exec = e)
  BY DEF Start
<1>3. id.snap = park[t].snap /\ id.pending = park[t].pending /\ 1 <= id.gen
  BY <1>0, RowsBefore DEF Advanced, ParkRows
<1>. HIDE DEF id
<1>4. park'[t] = id /\ tasks'[t].state = "running" /\ prov'[t].exec = e /\ prov'[t].first = "started"
  BY <1>0, <1>1 DEF TablesTypeOK, TaskRows
<1>5. RowsSound(t)'
  BY <1>0, <1>1, <1>3, <1>4 DEF RowsSound, PauseSound, LaunchSound, State
<1>6. ReceiptsStep(t)
  <2>1. Launched(t, Started(t, e, id))
    BY <1>2, <1>3, <1>4 DEF Launched, Started
  <2>. QED  BY <1>1, <2>1 DEF ReceiptsStep
<1>7. OthersKept(t) /\ CrashStep(t) /\ P0Step(t)
  BY <1>0, <1>1, RowsBefore DEF OthersKept, OtherTasksKept, CrashStep, P0Step, UserP0, State, Open,
     TablesTypeOK, TaskRows
<1>8. ProofStep(t) /\ StopStep(t)
  BY <1>1, <1>4 DEF ProofStep, NoLaunch, StopStep, Terminal
<1>. QED  BY <1>5, <1>6, <1>7, <1>8 DEF CallStep, RowStep

(* mark_capture_incomplete and record_captured_process. *)
LEMMA CaptureHistory ==
    ASSUME HistoryInv, NEW t \in Tasks, NEW g, NEW p, NEW e,
           MarkIncomplete(t, g, p, e) \/ RecordProcess(t, g, p, e)
    PROVE  CallStep(t)
<1>. DEFINE id == Advanced(park[t], p, TRUE)
<1>0. TablesTypeOK /\ RowsSound(t)
  BY RowsNow
<1>1. /\ park' = [park EXCEPT ![t] = id] /\ recops' = Carried(t, id, "running", e)
      /\ capture'[t].exec = capture[t].exec /\ \A u \in Tasks \ {t} : capture'[u] = capture[u]
      /\ UNCHANGED <<tasks, prov, crashed, turns>>
  BY ZenonT(40), <1>0, RowsBefore DEF MarkIncomplete, RecordProcess, CaptureStep, TablesTypeOK, CaptureRows
<1>2. id.snap = park[t].snap /\ id.pending = park[t].pending
  BY <1>0, RowsBefore DEF Advanced, ParkRows
<1>. HIDE DEF id
<1>3. park'[t] = id /\ OthersKept(t)
  BY <1>0, <1>1 DEF TablesTypeOK, OthersKept, OtherTasksKept
<1>4. RowsSound(t)'
  BY <1>0, <1>1, <1>2, <1>3 DEF RowsSound, PauseSound, LaunchSound
<1>5. ReceiptsStep(t)
  BY <1>0, <1>1, <1>3, CarriedReceipts DEF TablesTypeOK
<1>6. ProofStep(t) /\ CrashStep(t) /\ StopStep(t) /\ P0Step(t)
  BY <1>1 DEF ProofStep, CrashStep, StopStep, P0Step, State
<1>. QED  BY <1>3, <1>4, <1>5, <1>6 DEF CallStep, RowStep

LEMMA PrepareHistory ==
    ASSUME HistoryInv, NEW t \in Tasks, NEW g, NEW p, NEW e \in Execs, NEW outcome,
           NEW card \in BOOLEAN, NEW crash \in BOOLEAN, NEW unsafe \in BOOLEAN,
           Prepare(t, g, p, e, outcome, card, crash, unsafe)
    PROVE  CallStep(t)
<1>. DEFINE id == Advanced(park[t], p, TRUE)
            intent == [task |-> t, kind |-> "recovery", phase |-> "prepared", gen |-> id.gen,
                       pend |-> id.op, state |-> State(t), exec |-> e, outcome |-> outcome,
                       crash |-> crash, unsafe |-> unsafe, card |-> card]
<1>0. TablesTypeOK /\ RowsSound(t)
  BY RowsNow
<1>1. /\ park' = [park EXCEPT ![t] = id] /\ recops' = recops \cup {intent}
      /\ UNCHANGED <<tasks, prov, capture, crashed, turns>>
  BY DEF Prepare
<1>2. /\ outcome \in {"interrupted", "queued"} \cup Terminal
      /\ outcome = "queued" => State(t) = "queued"
      /\ prov[t].exec \in {NoExec, e}
  BY DEF Prepare
<1>3. id.snap = park[t].snap /\ id.pending = park[t].pending /\ 1 <= id.gen /\ id.gen \in Nat
  BY <1>0, RowsBefore DEF Advanced, ParkRows
<1>. HIDE DEF id
<1>4. park'[t] = id /\ OthersKept(t)
  BY <1>0, <1>1 DEF TablesTypeOK, OthersKept, OtherTasksKept
<1>5. RowsSound(t)'
  BY <1>0, <1>1, <1>3, <1>4 DEF RowsSound, PauseSound, LaunchSound
<1>6. Settles(t, intent)
  BY <1>1, <1>2, <1>3, <1>4 DEF Settles, State
<1>. HIDE DEF intent
<1>7. ReceiptsStep(t) /\ ProofStep(t) /\ CrashStep(t) /\ StopStep(t) /\ P0Step(t)
  BY <1>1, <1>6 DEF ReceiptsStep, ProofStep, CrashStep, StopStep, P0Step, State
<1>. QED  BY <1>4, <1>5, <1>7 DEF CallStep, RowStep

LEMMA SupersedeHistory ==
    ASSUME HistoryInv, NEW r \in recops, NEW g, NEW p, Supersede(r, g, p)
    PROVE  CallStep(r.task)
<1>. DEFINE t == r.task
            left == [r EXCEPT !.phase = "superseded"]
<1>0. TablesTypeOK /\ r \in RecoveryRows /\ t \in Tasks /\ RowsSound(t) /\ ReceiptSound(r)
  BY RowsNow DEF HistoryInv, IdentityInv, TypeOK, TablesTypeOK, RecoveryRows
<1>1. /\ recops' = (recops \ {r}) \cup {left} /\ r.kind = "recovery"
      /\ UNCHANGED <<tasks, park, prov, capture, crashed, turns>>
  BY DEF Supersede, Prepared
<1>2. Settles(t, left)
  BY <1>0, <1>1 DEF Settles, ReceiptSound, RecoveryRows
<1>. HIDE DEF left, t
<1>3. RowsSound(t)'
  BY <1>0, <1>1 DEF RowsSound
<1>4. OthersKept(t) /\ ReceiptsStep(t) /\ ProofStep(t) /\ CrashStep(t) /\ StopStep(t) /\ P0Step(t)
  BY <1>1, <1>2 DEF OthersKept, OtherTasksKept, ReceiptsStep, ProofStep, CrashStep, StopStep, P0Step,
     State
<1>. QED  BY <1>3, <1>4 DEF CallStep, RowStep, t

LEMMA BeginTurnHistory ==
    ASSUME HistoryInv, NEW t \in Tasks, BeginTurn(t)
    PROVE  CallStep(t)
<1>0. TablesTypeOK /\ RowsSound(t)
  BY RowsNow
<1>1. RowsSound(t)'
  BY <1>0 DEF BeginTurn, RowsSound, PauseSound, LaunchSound, State
<1>2. OthersKept(t)
  BY <1>0 DEF BeginTurn, OthersKept, OtherTasksKept, TablesTypeOK
<1>3. ReceiptsStep(t) /\ ProofStep(t) /\ CrashStep(t) /\ StopStep(t) /\ P0Step(t)
  BY DEF BeginTurn, ReceiptsStep, ProofStep, CrashStep, StopStep, P0Step, State
<1>. QED  BY <1>1, <1>2, <1>3 DEF CallStep, RowStep

LEMMA CommitHistory ==
    ASSUME HistoryInv, NEW r \in recops, Commit(r)
    PROVE  CallStep(r.task)
<1>. DEFINE t == r.task
            pend == IF r.outcome \in Terminal THEN NoOp ELSE r.pend
            new == Advanced(park[t], pend, TRUE)
            id == IF r.outcome \in Terminal THEN NoSnapshot(new) ELSE new
            row == [tasks[t] EXCEPT !.state = r.outcome, !.card = r.card,
                                    !.hold = "none", !.crashes = Crashes(r)]
            proof == Upserted(prov[t], "unknown", r.exec, r.unsafe)
            done == [r EXCEPT !.phase = "committed", !.gen = new.gen, !.pend = pend,
                              !.state = r.outcome]
<1>0. TablesTypeOK /\ r \in RecoveryRows /\ t \in Tasks /\ r.exec \in Execs
  BY DEF HistoryInv, IdentityInv, TypeOK, TablesTypeOK, RecoveryRows
<1>1. RowsSound(t) /\ ReceiptSound(r)
  BY <1>0 DEF HistoryInv
<1>2. /\ park' = [park EXCEPT ![t] = id] /\ tasks' = [tasks EXCEPT ![t] = row]
      /\ prov' = [prov EXCEPT ![t] = proof] /\ recops' = (recops \ {r}) \cup {done}
      /\ crashed' = IF r.crash THEN crashed \cup {<<t, r.exec>>} ELSE crashed
      /\ UNCHANGED <<capture, turns>>
  BY DEF Commit
<1>3. /\ r \in Prepared(t) /\ r.kind = "recovery" /\ Live(t)
      /\ State(t) = r.state /\ prov[t].exec \in {NoExec, r.exec}
      /\ r.outcome \in {"interrupted", "queued"} \cup Terminal
      /\ r.outcome = "queued" => State(t) = "queued"
  BY <1>1 DEF Commit, Prepared, ReceiptSound
<1>4. row.state = r.outcome /\ row.prio = tasks[t].prio /\ row.crashes = Crashes(r)
  BY <1>0, RowsBefore DEF TaskRows
<1>5. /\ proof.exec = r.exec
      /\ proof.first = (IF prov[t].first = "absent" THEN "unknown" ELSE prov[t].first)
  BY DEF Upserted
<1>6. /\ new.gen = park[t].gen + 1 /\ id.gen = new.gen
      /\ r.outcome \in Terminal => ~id.snap /\ ~id.pending
      /\ r.outcome \notin Terminal => id.snap = park[t].snap /\ id.pending = park[t].pending
  BY <1>0, RowsBefore DEF Advanced, NoSnapshot, ParkRows
<1>7. /\ done.task = t /\ done.kind = "recovery" /\ done.phase = "committed" /\ done.gen = new.gen
  BY <1>0, <1>3 DEF RecoveryRows
<1>8. park[t].gen \in Nat
  BY <1>0, RowsBefore DEF ParkRows
<1>. HIDE DEF t, pend, new, id, row, proof, done
<1>9. park'[t] = id /\ tasks'[t] = row /\ prov'[t] = proof /\ OthersKept(t)
  BY <1>0, <1>2 DEF TablesTypeOK, OthersKept, OtherTasksKept
<1>10. RowsSound(t)'
  <2>1. PauseSound(row, id)
    BY <1>1, <1>3, <1>4, <1>6 DEF RowsSound, PauseSound, State, Terminal, Live, Open
  <2>2. LaunchSound(row, proof, capture[t], turns[t])
    BY <1>1, <1>3, <1>4, <1>5 DEF RowsSound, LaunchSound, Terminal
  <2>. QED  BY <1>2, <1>9, <2>1, <2>2 DEF RowsSound
<1>11. ReceiptsStep(t)
  <2>1. Settles(t, done)
    BY <1>6, <1>7, <1>8, <1>9 DEF Settles
  <2>. QED  BY <1>2, <2>1 DEF ReceiptsStep
<1>12. CrashStep(t)
  BY <1>0, <1>2, <1>4, <1>9 DEF CrashStep, Crashes, t
<1>13. ProofStep(t) /\ StopStep(t) /\ P0Step(t)
  BY <1>3, <1>4, <1>5, <1>9 DEF ProofStep, NoLaunch, StopStep, State, Live, Open, Terminal, P0Step,
     UserP0
<1>. QED  BY <1>9, <1>10, <1>11, <1>12, <1>13 DEF CallStep, RowStep, t

----------------------------------------------------------------------------
(* Every step of the specification is one of those calls, or leaves the    *)
(* tables as they are.                                                     *)

LEMMA GuardedByHistory ==
    ASSUME HistoryInv, NEW t \in Tasks, NEW g, NEW p, NEW seen, GuardedBy(t, g, p, seen)
    PROVE  CallStep(t)
<1>1. CASE \E op \in Ops : PauseCall(t, g, p, op) \/ ParkCall(t, g, p, op)
  BY <1>1, PauseCallHistory, ParkCallHistory
<1>2. CASE \E op \in Ops, first \in BOOLEAN : ResumeRecovered(t, g, p, seen, first, op)
  BY <1>2, ResumeRecoveredHistory
<1>3. CASE LaunchCall(t, g, p, seen)
  BY <1>3, StartHistory, CaptureHistory DEF LaunchCall
<1>4. CASE RecoveryCall(t, g, p)
  BY <1>4, PrepareHistory, SupersedeHistory DEF RecoveryCall
<1>. QED  BY <1>1, <1>2, <1>3, <1>4 DEF GuardedBy

LEMMA UnguardedHistory ==
    ASSUME HistoryInv, NEW t \in Tasks, Unguarded(t)
    PROVE  CallStep(t)
<1>. USE PlaneAssumption DEF PlaneAssumption
<1>1. CASE \E prio \in NewPriorities, proof \in BOOLEAN : Create(t, prio, proof)
  BY <1>1, CreateHistory
<1>2. CASE \E level \in UserChoices \cap Levels, source \in Sources, force \in BOOLEAN :
              SetLevel(t, level, source, force)
  BY <1>2, SetLevelHistory
<1>3. CASE \E choice \in UserChoices : ChangePriority(t, choice)
  <2>1. PICK choice \in UserChoices : ChangePriority(t, choice)
    BY <1>3
  <2>2. /\ Live(t) /\ ~park[t].pending /\ tasks' = ChangedTasks(t, choice, SameState)
        /\ LET row == Advanced(park[t], NoOp, FALSE) IN
               /\ park' = [park EXCEPT ![t] = ChangedPark(t, row, choice, SameState)]
               /\ recops' \in {recops, CarriedWhileActive(t, row, State(t), capture[t].exec)}
        /\ UNCHANGED <<prov, capture, crashed, turns>>
    BY <2>1 DEF ChangePriority
  <2>. QED  BY <2>2, ChangeHistory
<1>4. CASE \E choice \in UserChoices, to \in {"queued", "parked"} : ChangeState(t, choice, to)
  <2>1. PICK choice \in UserChoices, to \in {"queued", "parked"} : ChangeState(t, choice, to)
    BY <1>4
  <2>2. /\ Live(t) /\ ~park[t].pending /\ tasks' = ChangedTasks(t, choice, to) /\ to # SameState
        /\ LET row == Advanced(park[t], NoOp, FALSE) IN
               /\ park' = [park EXCEPT ![t] = ChangedPark(t, row, choice, to)]
               /\ recops' \in {recops, CarriedWhileActive(t, row, to, capture[t].exec)}
        /\ UNCHANGED <<prov, capture, crashed, turns>>
    BY <2>1 DEF ChangeState, SameState
  <2>. QED  BY <2>2, ChangeHistory
<1>5. CASE \/ \E e \in Execs : StartOrdinary(t, e)
           \/ \E choice \in UserChoices : ContinueRunning(t, choice) \/ RunBare(t, choice)
  BY <1>5, RunHistory DEF Choices
<1>6. CASE \E to \in Endings : Finish(t, to)
  BY <1>6, FinishedHistory DEF Finish
<1>7. CASE SetFirst(t) \/ Pause(t) \/ Resume(t)
  BY <1>7, SetFirstHistory, PauseHistory, ResumeHistory
<1>8. CASE \E level \in UserChoices : Reopen(t, level)
  BY <1>8, ReopenHistory
<1>9. CASE \E r \in recops : r.task = t /\ Commit(r)
  BY <1>9, CommitHistory
<1>10. CASE BeginTurn(t)
  BY <1>10, BeginTurnHistory
<1>. QED  BY <1>1, <1>2, <1>3, <1>4, <1>5, <1>6, <1>7, <1>8, <1>9, <1>10 DEF Unguarded

(* What no step does: bring a finished task back behind Stop, give out a   *)
(* second P0, or make a superseded launch receipt current again.           *)
HistoryStep ==
    /\ \A t \in Tasks : StopStep(t) /\ P0Step(t)
    /\ \A l \in Launches \ CurrentLaunches : l \notin CurrentLaunches'

(* The rows of a task that the call was not about. *)
LEMMA OtherRows ==
    ASSUME HistoryInv, NEW t \in Tasks, OthersKept(t), NEW u \in Tasks \ {t}
    PROVE  /\ RowsSound(u)' /\ StopStep(u) /\ P0Step(u)
           /\ prov'[u] = prov[u] /\ tasks'[u].crashes = tasks[u].crashes
<1>0. TablesTypeOK /\ RowsSound(u)
  BY RowsNow
<1>1. /\ park'[u] = park[u] /\ prov'[u] = prov[u] /\ capture'[u] = capture[u] /\ turns'[u] = turns[u]
      /\ tasks'[u] = tasks[u] \/ (UserP0(tasks[u]) /\ tasks'[u] = Demoted(tasks[u]))
  BY DEF OthersKept, OtherTasksKept
<1>2. CASE tasks'[u] = tasks[u]
  BY <1>0, <1>1, <1>2 DEF RowsSound, StopStep, P0Step, State
<1>3. CASE UserP0(tasks[u]) /\ tasks'[u] = Demoted(tasks[u])
  <2>1. /\ tasks'[u].state = tasks[u].state /\ tasks'[u].crashes = tasks[u].crashes
        /\ ~UserP0(tasks'[u])
    <3>1. Demoted(tasks[u]).prio.level = 1
      BY <1>0, RowsBefore DEF Demoted, TaskRows, Priorities
    <3>. QED  BY <1>0, <1>3, <3>1, RowsBefore DEF Demoted, TaskRows, UserP0
  <2>2. ~park[u].pending
    BY <1>0, <1>3 DEF RowsSound, PauseSound, UserP0
  <2>. QED  BY <1>0, <1>1, <2>1, <2>2 DEF RowsSound, PauseSound, LaunchSound, StopStep, P0Step, State
<1>. QED  BY <1>1, <1>2, <1>3

LEMMA CrashKeeps ==
    ASSUME HistoryInv, NEW t \in Tasks, OthersKept(t), CrashStep(t), NEW u \in Tasks
    PROVE  CrashSound(u)'
<1>0. IsFiniteSet(CrashesOf(u)) /\ tasks[u].crashes = Cardinality(CrashesOf(u))
  BY DEF HistoryInv, CrashSound
<1>1. CASE CrashesOf(u)' = CrashesOf(u) /\ tasks'[u].crashes = tasks[u].crashes
  BY <1>0, <1>1 DEF CrashSound
<1>2. CASE crashed' = crashed
  <2>1. CrashesOf(u)' = CrashesOf(u)
    BY <1>2 DEF CrashesOf
  <2>2. tasks'[u].crashes = tasks[u].crashes
    BY <1>2, OtherRows DEF CrashStep
  <2>. QED  BY <1>1, <2>1, <2>2
<1>3. ASSUME NEW e \in Execs, <<t, e>> \notin crashed, crashed' = crashed \cup {<<t, e>>},
             tasks'[t].crashes = tasks[t].crashes + 1
      PROVE  CrashSound(u)'
  <2>1. CASE u = t
    <3>1. CrashesOf(u)' = CrashesOf(u) \cup {e} /\ e \notin CrashesOf(u)
      BY <1>3, <2>1 DEF CrashesOf
    <3>2. /\ IsFiniteSet(CrashesOf(u) \cup {e})
          /\ Cardinality(CrashesOf(u) \cup {e}) = Cardinality(CrashesOf(u)) + 1
      BY <1>0, <3>1, FS_AddElement
    <3>. QED  BY <1>0, <1>3, <2>1, <3>1, <3>2 DEF CrashSound
  <2>2. CASE u # t
    <3>1. CrashesOf(u)' = CrashesOf(u)
      BY <1>3, <2>2 DEF CrashesOf
    <3>. QED  BY <1>1, <2>2, <3>1, OtherRows
  <2>. QED  BY <2>1, <2>2
<1>. QED  BY <1>2, <1>3 DEF CrashStep

LEMMA ReceiptsKeep ==
    ASSUME HistoryInv, NEW t \in Tasks, CallStep(t), StoreStep
    PROVE  /\ \A r \in recops' : ReceiptSound(r)'
           /\ \A l \in Launches \ CurrentLaunches : l \notin CurrentLaunches'
<1>0. TablesTypeOK /\ TablesTypeOK'
  BY DEF HistoryInv, IdentityInv, TypeOK, StoreStep
<1>1. ASSUME NEW u \in Tasks
      PROVE  /\ park[u].gen \in Nat /\ park'[u].gen \in Nat /\ IdentityStep(u)
             /\ prov'[u].first \in NoLaunch => prov[u].first \in NoLaunch
  <2>1. prov'[u].first \in NoLaunch => prov[u].first \in NoLaunch
    BY OtherRows DEF CallStep, RowStep, ProofStep
  <2>. QED  BY <1>0, <2>1 DEF TablesTypeOK, ParkRows, StoreStep
<1>2. ASSUME NEW r \in recops, r \in recops'
      PROVE  ReceiptSound(r)' /\ (r.kind = "start" /\ Current(r)' => Current(r))
  <2>1. r.task \in Tasks /\ r.gen \in Nat /\ ReceiptSound(r)
    BY <1>0 DEF TablesTypeOK, RecoveryRows, HistoryInv
  <2>2. 1 <= r.gen /\ r.gen <= park[r.task].gen
    BY <2>1 DEF ReceiptSound
  <2>3. \/ park'[r.task].gen > park[r.task].gen
        \/ /\ park'[r.task].gen = park[r.task].gen /\ park'[r.task].op = park[r.task].op
           /\ State(r.task)' = State(r.task) /\ prov'[r.task].exec = prov[r.task].exec
    BY <1>1, <2>1, <2>2 DEF IdentityStep, State
  <2>4. CASE park'[r.task].gen > park[r.task].gen
    <3>1. park'[r.task].gen # r.gen /\ r.gen <= park'[r.task].gen
      BY <1>1, <2>1, <2>2, <2>4
    <3>. QED  BY <1>1, <1>2, <2>1, <2>2, <3>1 DEF ReceiptSound, Current, Matches, Prepared, NoLaunch
  <2>5. CASE /\ park'[r.task].gen = park[r.task].gen /\ park'[r.task].op = park[r.task].op
             /\ State(r.task)' = State(r.task) /\ prov'[r.task].exec = prov[r.task].exec
    BY <1>1, <1>2, <2>1, <2>2, <2>5 DEF ReceiptSound, Current, Matches, Prepared, NoLaunch
  <2>. QED  BY <2>3, <2>4, <2>5
<1>3. ASSUME NEW r \in recops', NEW old \in recops,
             old.task = t, old.kind = "start", Current(old), r.task = t, r.kind = "start",
             r.exec = old.exec, r.gen = park'[t].gen, prov'[t] = prov[t]
      PROVE  ReceiptSound(r)' /\ <<r.task, r.exec>> \in CurrentLaunches
  <2>1. ReceiptSound(old) /\ old.gen = park[t].gen /\ 1 <= park[t].gen
    BY <1>3 DEF HistoryInv, ReceiptSound, Current
  <2>2. 1 <= park'[t].gen
    BY <1>1, <2>1 DEF IdentityStep
  <2>3. ReceiptSound(r)'
    BY <1>1, <1>3, <2>1, <2>2 DEF ReceiptSound, Prepared
  <2>. QED  BY <1>3, <2>3 DEF CurrentLaunches
<1>4. ASSUME NEW r \in recops', Launched(t, r)
      PROVE  ReceiptSound(r)' /\ <<r.task, r.exec>> \notin Launches
  <2>1. ReceiptSound(r)'
    BY <1>1, <1>4 DEF Launched, ReceiptSound, Prepared
  <2>. QED  BY <1>4, <2>1 DEF Launched, Launches
<1>5. ASSUME NEW r \in recops', Settles(t, r)
      PROVE  ReceiptSound(r)' /\ r.kind # "start"
  BY <1>5 DEF Settles, ReceiptSound, Prepared, State
<1>6. ASSUME NEW r \in recops'
      PROVE  /\ ReceiptSound(r)'
             /\ r.kind = "start" /\ Current(r)' =>
                   \/ <<r.task, r.exec>> \in CurrentLaunches
                   \/ <<r.task, r.exec>> \notin Launches
  <2>1. CASE r \in recops
    BY <1>2, <2>1 DEF CurrentLaunches
  <2>2. CASE Follows(t, r)
    BY <1>3, <2>2 DEF Follows
  <2>. QED  BY <1>4, <1>5, <2>1, <2>2 DEF CallStep, ReceiptsStep
<1>7. \A l \in Launches \ CurrentLaunches : l \notin CurrentLaunches'
  BY <1>6 DEF CurrentLaunches
<1>. QED  BY <1>6, <1>7

LEMMA CallKeeps ==
    ASSUME HistoryInv, NEW t \in Tasks, CallStep(t), StoreStep, IdentityInv'
    PROVE  HistoryInv' /\ HistoryStep
<1>1. \A u \in Tasks : RowsSound(u)' /\ StopStep(u) /\ P0Step(u)
  BY OtherRows DEF CallStep, RowStep
<1>2. \A u \in Tasks : CrashSound(u)'
  BY CrashKeeps DEF CallStep, RowStep
<1>. QED  BY <1>1, <1>2, ReceiptsKeep DEF HistoryInv, HistoryStep

LEMMA StillKeeps ==
    ASSUME HistoryInv, UNCHANGED tables, IdentityInv'
    PROVE  HistoryInv' /\ HistoryStep
<1>1. \A t \in Tasks : RowsSound(t)' /\ CrashSound(t)' /\ StopStep(t) /\ P0Step(t)
  BY DEF HistoryInv, tables, RowsSound, CrashSound, CrashesOf, StopStep, P0Step, State
<1>2. \A r \in recops' : ReceiptSound(r)'
  BY DEF HistoryInv, tables, ReceiptSound, Current, Prepared, Matches, State
<1>3. CurrentLaunches' = CurrentLaunches
  BY DEF tables, CurrentLaunches, Current, State
<1>. QED  BY <1>1, <1>2, <1>3 DEF HistoryInv, HistoryStep

LEMMA InitHistory == Init => HistoryInv
<1>. SUFFICES ASSUME Init PROVE HistoryInv
  OBVIOUS
<1>1. IdentityInv
  BY InitIdentity
<1>2. ASSUME NEW t \in Tasks PROVE RowsSound(t) /\ CrashSound(t)
  <2>1. tasks[t] = NoTask /\ park[t] = NoPark /\ prov[t] = NoProv /\ capture[t] = NoCapture
        /\ turns[t] = 0 /\ CrashesOf(t) = {}
    BY DEF Init, TablesInit, CrashesOf
  <2>2. RowsSound(t)
    BY <2>1 DEF RowsSound, PauseSound, LaunchSound, NoTask, NoPark, NoProv, NoCapture
  <2>3. CrashSound(t)
    BY <2>1, FS_EmptySet DEF CrashSound, NoTask
  <2>. QED  BY <2>2, <2>3
<1>. QED  BY <1>1, <1>2 DEF HistoryInv, Init, TablesInit

LEMMA NextHistory == HistoryInv /\ [Next]_vars => HistoryInv' /\ HistoryStep
<1>. SUFFICES ASSUME HistoryInv, [Next]_vars PROVE HistoryInv' /\ HistoryStep
  OBVIOUS
<1>1. IdentityInv /\ IdentityInv' /\ TablesTypeOK /\ AbsentUntouched
  BY NextIdentity DEF HistoryInv, IdentityInv, TypeOK
<1>2. ASSUME NEW t \in Tasks, NEW g, NEW p, NEW seen, GuardedBy(t, g, p, seen)
      PROVE  HistoryInv' /\ HistoryStep
  BY <1>1, <1>2, GuardedByHistory, GuardedByStep, CallKeeps
<1>3. ASSUME NEW t \in Tasks, Unguarded(t) PROVE HistoryInv' /\ HistoryStep
  BY <1>1, <1>3, UnguardedHistory, UnguardedStep, CallKeeps
<1>4. CASE \E c \in Callers : GuardedCall(c)
  BY <1>1, <1>2, <1>4 DEF GuardedCall, IdentityInv, TypeOK, Tickets
<1>5. CASE \E t \in Tasks : Unguarded(t) \/ CurrentCall(t)
  BY <1>2, <1>3, <1>5 DEF CurrentCall
<1>6. CASE Forget \/ (\E c \in Callers, t \in Tasks : Read(c, t)) \/ UNCHANGED vars
  BY <1>1, <1>6, StillKeeps DEF Forget, Read, vars
<1>. QED  BY <1>4, <1>5, <1>6 DEF Next

----------------------------------------------------------------------------
(* Pauses and the priority they save *)

LEMMA RestoredPriority ==
    ASSUME TablesTypeOK, NEW t \in Tasks, NEW prio, NEW to, tasks' = Restored(t, prio, to)
    PROVE  tasks'[t].prio = prio
<1>. DEFINE row == [tasks[t] EXCEPT !.state = to, !.prio = prio, !.parkedLast = FALSE,
                                    !.hold = "none"]
<1>1. tasks'[t] = row
  BY WrittenRows DEF Restored, TablesTypeOK
<1>. QED  BY <1>1, RowsBefore DEF TaskRows

LEMMA PauseCallEffective ==
    ASSUME HistoryInv, NEW t \in Tasks, NEW g, NEW p, NEW op \in Ops, PauseCall(t, g, p, op),
           Live(t)'
    PROVE  Effective(t)' = Effective(t)
<1>0. TablesTypeOK /\ RowsSound(t)
  BY RowsNow
<1>1. CASE GuardedStop(t, g, p, op)
  <2>1. Live(t) /\ tasks' = ChangedTasks(t, Keep, "cancelled") /\ "cancelled" # SameState
        /\ Keep \in Choices
    BY <1>1 DEF GuardedStop, Finished, SameState, Choices
  <2>2. tasks'[t].state = "cancelled"
    BY <1>0, <2>1, ChangedRows DEF TablesTypeOK
  <2>. QED  BY <2>2 DEF Live, State, Open
<1>2. CASE RequestPause(t, g, p, op)
  <2>1. ~park[t].snap
    BY <1>0, <1>2 DEF RequestPause, RowsSound, PauseSound, State
  <2>. QED  BY <1>0, <1>2, <2>1, RowsBefore DEF RequestPause, Effective, Advanced, WithSnapshot,
            TablesTypeOK, ParkRows
<1>3. CASE CancelPause(t, g, p, op)
  <2>1. tasks'[t] = [tasks[t] EXCEPT !.prio = park[t].saved, !.parkedLast = FALSE]
    BY <1>0, <1>3, WrittenRows DEF CancelPause, TablesTypeOK
  <2>2. tasks'[t].prio = park[t].saved
    BY <1>0, <2>1, RowsBefore DEF TaskRows
  <2>. QED  BY <1>0, <1>3, <2>2, PauseOver DEF CancelPause, Effective
<1>4. CASE ResumeInterrupted(t, g, p, op)
  <2>1. tasks'[t].prio = park[t].saved
    BY <1>0, <1>4, RestoredPriority DEF ResumeInterrupted
  <2>. QED  BY <1>0, <1>4, <2>1, PauseOver DEF ResumeInterrupted, Effective
<1>. QED  BY <1>1, <1>2, <1>3, <1>4 DEF PauseCall

LEMMA ParkCallEffective ==
    ASSUME HistoryInv, NEW t \in Tasks, NEW g, NEW p, NEW op \in Ops, ParkCall(t, g, p, op),
           HasParkRow(t)
    PROVE  Effective(t)' = Effective(t)
<1>0. TablesTypeOK
  BY RowsNow
<1>1. tasks'[t].prio = tasks[t].prio
  <2>1. ASSUME NEW card, Interrupt(t, g, p, op, card) PROVE tasks'[t].prio = tasks[t].prio
    BY <1>0, <2>1, RowsBefore DEF Interrupt, TablesTypeOK, TaskRows
  <2>2. CASE Hold(t, g, p, op)
    BY <1>0, <2>2, RowsBefore DEF Hold, TablesTypeOK, TaskRows
  <2>3. CASE HoldUnderPause(t, g, p, op)
    BY <1>0, <2>3, RowsBefore DEF HoldUnderPause, TablesTypeOK, TaskRows
  <2>4. CASE Release(t, g, p, op)
    BY <1>0, <2>4, RowsBefore DEF Release, TablesTypeOK, TaskRows
  <2>5. CASE Park(t, g, p, op)
    BY <1>0, <2>5, RowsBefore DEF Park, TablesTypeOK, TaskRows
  <2>6. CASE MarkRetry(t, g, p, op)
    BY <1>0, <2>6, RowsBefore DEF MarkRetry, TablesTypeOK, TaskRows
  <2>. QED  BY <2>1, <2>2, <2>3, <2>4, <2>5, <2>6 DEF ParkCall
<1>2. \/ park' = [park EXCEPT ![t] = Advanced(park[t], p, FALSE)]
      \/ park' = [park EXCEPT ![t] = ParkedRow(t, op)]
  BY DEF ParkCall, Hold, HoldUnderPause, Release, Park, Interrupt, MarkRetry
<1>3. park'[t].snap = park[t].snap /\ park'[t].saved = park[t].saved
  <2>1. ASSUME NEW next, NEW create \in BOOLEAN
        PROVE  LET row == Advanced(park[t], next, create) IN
               /\ row.snap = park[t].snap /\ row.saved = park[t].saved
               /\ [row EXCEPT !.pending = FALSE].snap = row.snap
               /\ [row EXCEPT !.pending = FALSE].saved = row.saved
    <3>1. park[t] \in ParkRows
      BY <1>0, RowsBefore
    <3>2. CASE Advanced(park[t], next, create) = park[t]
      BY <3>1, <3>2 DEF ParkRows
    <3>3. CASE Advanced(park[t], next, create) = [park[t] EXCEPT !.gen = park[t].gen + 1, !.op = next]
      BY <3>1, <3>3 DEF ParkRows
    <3>. QED  BY <3>2, <3>3 DEF Advanced
  <2>2. ParkedRow(t, op).snap = park[t].snap /\ ParkedRow(t, op).saved = park[t].saved
    BY <2>1 DEF ParkedRow
  <2>3. park'[t] \in {Advanced(park[t], p, FALSE), ParkedRow(t, op)}
    BY <1>0, <1>2 DEF TablesTypeOK
  <2>. QED  BY <2>1, <2>2, <2>3
<1>. QED  BY <1>1, <1>3 DEF Effective

LEMMA PauseStepKeeps ==
    ASSUME HistoryInv, NEW t \in Tasks, PauseStep(t), Live(t)',
           park[t].snap \/ tasks[t].prio.level < 5
    PROVE  Effective(t)' = Effective(t)
<1>0. TablesTypeOK
  BY RowsNow
<1>1. CASE Pause(t) /\ ~park[t].snap
  BY <1>0, <1>1, RowsBefore DEF Pause, Effective, Advanced, WithSnapshot, TablesTypeOK, ParkRows
<1>2. CASE Resume(t)
  <2>1. tasks'[t].prio = SavedPriority(t)
    BY <1>0, <1>2, RestoredPriority DEF Resume
  <2>2. park[t].snap
    BY <1>2 DEF Resume
  <2>. QED  BY <1>0, <1>2, <2>1, <2>2, PauseOver DEF Resume, Effective, SavedPriority
<1>3. ASSUME NEW op \in Ops, NEW first \in BOOLEAN,
             ResumeRecovered(t, park[t].gen, park[t].op, prov[t].exec, first, op)
      PROVE  Effective(t)' = Effective(t)
  <2>1. tasks'[t].prio = Effective(t)
    BY <1>0, <1>3, RowsBefore, RestoredPriority DEF ResumeRecovered, Effective, Priorities, Levels
  <2>. QED  BY <1>0, <1>3, <2>1, PauseOver DEF ResumeRecovered, Effective
<1>. QED  BY <1>1, <1>2, <1>3, PauseCallEffective, ParkCallEffective DEF PauseStep

----------------------------------------------------------------------------
LEMMA HistoryHolds == Spec => []HistoryInv
BY InitHistory, NextHistory, PTL DEF Spec

(* A pause that the worker still owes hangs on a task that can reach its   *)
(* safe point, or one that a restart interrupted, with its priority saved. *)
THEOREM PausesIntact == Spec => []PauseIntact
<1>1. HistoryInv => PauseIntact
  BY DEF HistoryInv, RowsSound, PauseSound, PauseIntact, IsPaused, State
<1>. QED  BY <1>1, HistoryHolds, PTL

(* A task that is proved never to have started holds no capture, ran no    *)
(* turn and has no launch receipt.                                         *)
THEOREM NeverStartedIsProof == Spec => []NeverStartedNeverRan
<1>1. HistoryInv => NeverStartedNeverRan
  BY DEF HistoryInv, RowsSound, LaunchSound, ReceiptSound, NeverStartedNeverRan, State
<1>. QED  BY <1>1, HistoryHolds, PTL

(* The capture and the current receipt are those of the task's execution.  *)
THEOREM EvidenceCurrent == Spec => []EvidenceIsCurrent
<1>1. HistoryInv => EvidenceIsCurrent
  BY DEF HistoryInv, RowsSound, LaunchSound, ReceiptSound, EvidenceIsCurrent
<1>. QED  BY <1>1, HistoryHolds, PTL

(* An intent that still matches its task can be committed.                 *)
THEOREM IntentsResolve == Spec => []IntentResolvable
<1>1. HistoryInv => IntentResolvable
  BY DEF HistoryInv, ReceiptSound, IntentResolvable, Prepared
<1>. QED  BY <1>1, HistoryHolds, PTL

(* A task counts one crash for each execution that crashed. *)
THEOREM CrashesCountOnce == Spec => []CrashCountedOnce
<1>1. HistoryInv => CrashCountedOnce
  BY DEF HistoryInv, CrashSound, CrashesOf, CrashCountedOnce
<1>. QED  BY <1>1, HistoryHolds, PTL

(* No launch receipt that the task left behind is current again. *)
THEOREM NeverRevived == Spec => ReceiptNeverRevived
<1>1. HistoryInv /\ [Next]_vars => [\A l \in Launches \ CurrentLaunches : l \notin CurrentLaunches']_vars
  BY NextHistory DEF HistoryStep
<1>. QED  BY <1>1, HistoryHolds, PTL DEF Spec, ReceiptNeverRevived

(* Only a reopen brings a finished task back, with its turn reserved. *)
THEOREM StopsWin == Spec => StopWins
<1>1. HistoryInv /\ [Next]_vars =>
          [\A t \in Tasks :
              State(t) \in Terminal /\ State(t)' \notin Terminal =>
                  State(t)' = "queued" /\ ResumeWaits(t)']_vars
  BY NextHistory DEF HistoryStep, StopStep
<1>. QED  BY <1>1, HistoryHolds, PTL DEF Spec, StopWins

(* A call that gives a task the person's P0 takes it from every other.     *)
THEOREM P0Single == Spec => P0TakenOver
<1>1. HistoryInv /\ [Next]_vars =>
          [\A t \in Tasks :
              State(t) \in Open \cup {"absent"} /\ ~UserP0(tasks[t]) /\ UserP0(tasks'[t]) =>
                  \A u \in Tasks \ {t} : ~UserP0(tasks'[u])]_vars
  BY NextHistory DEF HistoryStep, P0Step
<1>. QED  BY <1>1, HistoryHolds, PTL DEF Spec, P0TakenOver

(* No pause, park, interruption or resume costs a live task its priority.  *)
THEOREM PausesKeepPriority == Spec => PauseKeepsPriority
<1>1. HistoryInv /\ [Next]_vars =>
          [\A t \in Tasks :
              /\ Effective(t)' # Effective(t) /\ Live(t)'
              /\ park[t].snap \/ tasks[t].prio.level < 5
              => ~PauseStep(t)]_vars
  BY PauseStepKeeps
<1>. QED  BY <1>1, HistoryHolds, PTL DEF Spec, PauseKeepsPriority
=============================================================================
