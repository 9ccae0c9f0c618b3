-------------------------- MODULE SchedulerTables --------------------------
(***************************************************************************)
(* The scheduler's tables in the gateway's SQLite file, and the helpers    *)
(* that every writer of them shares: the compare-and-swap of a task's      *)
(* identity, the launch receipt that follows its execution, the saved      *)
(* priority of a paused task and the single user P0.                       *)
(*                                                                         *)
(* src/support/gateway/task_store.py declares the tables; task_store.py,   *)
(* park_store.py and recovery_store.py write them, each call in one        *)
(* transaction (SessionStore.component_transaction), so an operator of     *)
(* TaskStore, ParkStore or RecoveryStore is one atomic step.               *)
(*                                                                         *)
(* Left out: titles, texts, audit rows (priority_events, sched_log), time  *)
(* stamps and user_rank, which only orders the queue.  A resume card is    *)
(* empty or not.                                                           *)
(***************************************************************************)
EXTENDS Integers

CONSTANTS
    Tasks,     \* task ids
    Ops,       \* operation ids a caller chooses (uuid4 hex strings)
    Execs,     \* execution ids, one per launch of a worker
    NoOp,      \* SQL NULL in park_priority.operation_id
    NoExec     \* SQL NULL in recovery_provenance.execution_id

ASSUME TablesAssumption == NoOp \notin Ops /\ NoExec \notin Execs

VARIABLES
    tasks,     \* table tasks
    park,      \* table park_priority; generation 0 stands for "no row"
    prov,      \* table recovery_provenance
    capture,   \* the active row of recovery_capture, if any
    recops,    \* table recovery_operations
    crashed,   \* table recovery_crashes: pairs of a task and an execution
    usedOps,   \* operation ids that some receipt holds
    turns,     \* number of the task's last turn in table turns, 0 for none
    resumeTurn \* next_turn of the newest committed Resume, 0 for none

tables == <<tasks, park, prov, capture, recops, crashed, usedOps, turns, resumeTurn>>

----------------------------------------------------------------------------
(* Columns *)

Terminal == {"done", "failed", "cancelled", "expired"}
Open == {"queued", "running", "held", "parked", "interrupted"}
States == {"absent"} \cup Open \cup Terminal

Levels == 0..5
Sources == {"user", "user_rule", "computed"}
Reasons == {"pause", "other"}          \* only 'pause' is ever compared

Priorities == [level : Levels, source : Sources, reason : Reasons]

Computed == [level |-> 2, source |-> "computed", reason |-> "other"]
Paused == [level |-> 5, source |-> "user", reason |-> "pause"]

(* The JSON in tasks.hold_site: its status, and for "held_paused" also a   *)
(* task_state of "parked" under a status of "held".                        *)
Holds == {"none", "held", "held_paused", "running", "parked", "interrupted"}

TaskRows == [state : States, prio : Priorities, card : BOOLEAN, hold : Holds,
             crashes : Nat, parkedLast : BOOLEAN]

ParkRows == [gen : Nat, op : Ops \cup {NoOp}, snap : BOOLEAN,
             saved : Priorities, pending : BOOLEAN]

ProvRows == [first : {"absent", "never_started", "started", "unknown"},
             exec : Execs \cup {NoExec}, unsafe : BOOLEAN]

CaptureRows == [exec : Execs \cup {NoExec}, complete : BOOLEAN]

RecoveryRows == [task : Tasks, kind : {"start", "recovery"},
                 phase : {"prepared", "committed", "superseded"},
                 gen : Nat, pend : Ops \cup {NoOp}, state : States,
                 exec : Execs, outcome : Open \cup Terminal, crash : BOOLEAN,
                 unsafe : BOOLEAN, card : BOOLEAN]

NoTask == [state |-> "absent", prio |-> Computed, card |-> FALSE,
           hold |-> "none", crashes |-> 0, parkedLast |-> FALSE]
NoPark == [gen |-> 0, op |-> NoOp, snap |-> FALSE, saved |-> Computed,
           pending |-> FALSE]
NoProv == [first |-> "absent", exec |-> NoExec, unsafe |-> TRUE]
NoCapture == [exec |-> NoExec, complete |-> FALSE]

TablesTypeOK ==
    /\ tasks \in [Tasks -> TaskRows]
    /\ park \in [Tasks -> ParkRows]
    /\ prov \in [Tasks -> ProvRows]
    /\ capture \in [Tasks -> CaptureRows]
    /\ recops \subseteq RecoveryRows
    /\ crashed \subseteq Tasks \X Execs
    /\ usedOps \subseteq Ops
    /\ turns \in [Tasks -> Nat]
    /\ resumeTurn \in [Tasks -> Nat]

TablesInit ==
    /\ tasks = [t \in Tasks |-> NoTask]
    /\ park = [t \in Tasks |-> NoPark]
    /\ prov = [t \in Tasks |-> NoProv]
    /\ capture = [t \in Tasks |-> NoCapture]
    /\ recops = {}
    /\ crashed = {}
    /\ usedOps = {}
    /\ turns = [t \in Tasks |-> 0]
    /\ resumeTurn = [t \in Tasks |-> 0]

----------------------------------------------------------------------------
(* Reading the rows *)

State(t) == tasks[t].state
Live(t) == State(t) \in Open
HasParkRow(t) == park[t].gen # 0
IsPaused(t) == tasks[t].prio.level = 5 /\ tasks[t].prio.reason = "pause"

Prepared(t) == {r \in recops : r.task = t /\ r.kind = "recovery" /\ r.phase = "prepared"}

(* resume_waiting_turn: the newest Resume still waits for its first turn. *)
ResumeWaits(t) == resumeTurn[t] # 0 /\ turns[t] < resumeTurn[t]

(* A recovery_operations row whose identity and state are the task's own.  *)
Current(r) ==
    /\ r.phase \in {"prepared", "committed"}
    /\ State(r.task) = r.state
    /\ park[r.task].gen = r.gen
    /\ park[r.task].op = r.pend

----------------------------------------------------------------------------
(* The identity of a task and its compare-and-swap *)

Matches(t, g, p) == park[t].gen = g /\ park[t].op = p

(* Mutant of Advanced: only a guarded call moves the generation.           *)
AdvancedGuarded(row, op, create) ==
    IF row.gen = 0 /\ ~create THEN row
    ELSE [row EXCEPT !.gen = IF op = NoOp /\ row.gen # 0 THEN @ ELSE @ + 1, !.op = op]

(* compare_park_identity once the expected identity matched: a row moves   *)
(* to its next generation; no row stays none unless the caller creates it. *)
Advanced(row, op, create) ==
    IF row.gen = 0 /\ ~create THEN row ELSE [row EXCEPT !.gen = row.gen + 1, !.op = op]

WithSnapshot(row, prio) == [row EXCEPT !.snap = TRUE, !.saved = prio]
(* An inactive snapshot's saved columns are never read. *)
NoSnapshot(row) == [row EXCEPT !.snap = FALSE, !.saved = Computed, !.pending = FALSE]

(* INSERT ... ON CONFLICT(task_id) DO UPDATE on recovery_provenance: the   *)
(* first_start of a row that exists is kept.                               *)
InsertedOnly(row, first, e, unsafe) ==     \* mutant: ON CONFLICT DO NOTHING
    IF row.first = "absent" THEN [first |-> first, exec |-> e, unsafe |-> unsafe] ELSE row
Upserted(row, first, e, unsafe) ==
    [first |-> IF row.first = "absent" THEN first ELSE row.first, exec |-> e, unsafe |-> unsafe]

(* Two mutants of Carried: every launch receipt of the task follows it; or *)
(* the execution's receipt does, current or not.                           *)
CarriedAll(t, row, to, exec) ==
    {IF r.task = t /\ r.kind = "start" /\ r.phase = "committed"
     THEN [r EXCEPT !.gen = row.gen, !.pend = row.op, !.state = to] ELSE r : r \in recops}
CarriedStale(t, row, to, exec) ==
    {IF r.task = t /\ r.kind = "start" /\ r.phase = "committed" /\ r.exec = exec
     THEN [r EXCEPT !.gen = row.gen, !.pend = row.op, !.state = to] ELSE r : r \in recops}

(* The start receipt of the active capture's execution follows the task    *)
(* through changes that keep it running or held; no other receipt does.    *)
Carried(t, row, to, exec) ==
    {IF /\ r.task = t /\ r.kind = "start" /\ r.phase = "committed"
        /\ r.gen = park[t].gen /\ r.pend = park[t].op /\ r.state = State(t)
        /\ r.exec = exec
     THEN [r EXCEPT !.gen = row.gen, !.pend = row.op, !.state = to]
     ELSE r : r \in recops}

(* _identity_transition carries it when the task stays running or held. *)
CarriedWhileActive(t, row, to, exec) ==
    IF {State(t), to} \subseteq {"running", "held"}
    THEN Carried(t, row, to, exec) ELSE recops

----------------------------------------------------------------------------
(* The user's P0 *)

UserP0(row) == row.state \in Open /\ row.prio.level = 0 /\ row.prio.source = "user"

(* _demote_other_p0: every other open task with a user's P0 goes to P1.    *)
OthersDemoted(rows, t) ==
    [u \in Tasks |->
        IF u # t /\ UserP0(rows[u])
        THEN [rows[u] EXCEPT !.prio = [@ EXCEPT !.level = 1, !.reason = "other"]]
        ELSE rows[u]]

(* Write t's row and, when its new level is a user's P0, demote the rest.  *)
Written(t, row) ==
    LET rows == [tasks EXCEPT ![t] = row] IN
    IF row.prio.level = 0 /\ row.prio.source = "user" THEN OthersDemoted(rows, t) ELSE rows
=============================================================================
