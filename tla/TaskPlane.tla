----------------------------- MODULE TaskPlane -----------------------------
(***************************************************************************)
(* The three stores over the scheduler's tables, called by anyone at any   *)
(* time.  A caller that needs a guard first reads the task's identity      *)
(* (park_identity, often outside the lock that its call takes) and calls   *)
(* with what it read, however long ago.  Gateway.tla says who really calls *)
(* what; what holds here holds whatever the callers do.                    *)
(***************************************************************************)
EXTENDS TaskStore, ParkStore, RecoveryStore, FiniteSets

CONSTANTS
    Callers,     \* coroutines that hold an identity they read
    NewPriorities,  \* the priorities a task may be created with
    UserChoices, \* the choices a person makes: levels, Keep, AutoLevel, First
    Outcomes,    \* the outcomes a recovery intent may name
    Endings      \* the states a task may end in

ASSUME PlaneAssumption ==
    /\ NewPriorities \subseteq Priorities
    /\ UserChoices \subseteq Choices
    /\ Outcomes \subseteq {"interrupted", "queued"} \cup Terminal
    /\ Endings \subseteq Terminal

VARIABLE ticket  \* what each caller read last, and of which task

vars == <<tables, ticket>>

Tickets == [task : Tasks, gen : Nat, op : Ops \cup {NoOp}, state : States,
            exec : Execs \cup {NoExec}, pending : BOOLEAN]

NoTicket(t) == [task |-> t, gen |-> 0, op |-> NoOp, state |-> "absent",
                exec |-> NoExec, pending |-> FALSE]

TypeOK ==
    /\ TablesTypeOK
    /\ ticket \in [Callers -> Tickets]

Init ==
    /\ TablesInit
    /\ \E t \in Tasks : ticket = [c \in Callers |-> NoTicket(t)]

(* park_identity, with what the caller knows of the task by then.          *)
Read(c, t) ==
    /\ State(t) # "absent"
    /\ ticket' = [ticket EXCEPT ![c] =
          [task |-> t, gen |-> park[t].gen, op |-> park[t].op, state |-> State(t),
           exec |-> prov[t].exec, pending |-> park[t].pending]]
    /\ UNCHANGED tables

(* begin_turn of the task's session, by its running worker. *)
BeginTurn(t) ==
    /\ State(t) = "running"
    /\ turns' = [turns EXCEPT ![t] = @ + 1]
    /\ UNCHANGED <<tasks, park, prov, capture, recops, crashed, usedOps, resumeTurn>>

----------------------------------------------------------------------------
(* Calls on t under an expected identity (g, p); `seen` is the execution   *)
(* the caller found with it.                                               *)

PauseCall(t, g, p, op) ==
    \/ GuardedStop(t, g, p, op)
    \/ RequestPause(t, g, p, op)
    \/ CancelPause(t, g, p, op)
    \/ ResumeInterrupted(t, g, p, op)

ParkCall(t, g, p, op) ==
    \/ Hold(t, g, p, op)
    \/ HoldUnderPause(t, g, p, op)
    \/ Release(t, g, p, op)
    \/ Park(t, g, p, op)
    \/ \E card \in BOOLEAN : Interrupt(t, g, p, op, card)
    \/ MarkRetry(t, g, p, op)

LaunchCall(t, g, p, seen) ==
    \/ \E e \in Execs, prior \in {NoExec, seen} : Start(t, g, p, e, prior, TRUE)
    \/ MarkIncomplete(t, g, p, seen)
    \/ RecordProcess(t, g, p, seen)

RecoveryCall(t, g, p) ==
    \/ \E e \in Execs, outcome \in Outcomes, card, crash, unsafe \in BOOLEAN :
          Prepare(t, g, p, e, outcome, card, crash, unsafe)
    \/ \E r \in recops : r.task = t /\ Supersede(r, g, p)

GuardedBy(t, g, p, seen) ==
    \/ \E op \in Ops : PauseCall(t, g, p, op) \/ ParkCall(t, g, p, op)
    \/ \E op \in Ops, first \in BOOLEAN : ResumeRecovered(t, g, p, seen, first, op)
    \/ LaunchCall(t, g, p, seen)
    \/ RecoveryCall(t, g, p)

Dropped(gone) ==
    [c \in Callers |-> IF c \in gone THEN NoTicket(ticket[c].task) ELSE ticket[c]]

GuardedCall(c) ==
    /\ GuardedBy(ticket[c].task, ticket[c].gen, ticket[c].op, ticket[c].exec)
    /\ ticket' \in {ticket, Dropped({c})}

(* The identity is read under the lock that the call itself holds. *)
CurrentCall(t) ==
    /\ GuardedBy(t, park[t].gen, park[t].op, prov[t].exec)
    /\ UNCHANGED ticket

(* A caller gives up, or the process ends under all of them. *)
Forget ==
    /\ ticket' = Dropped(Callers) \/ \E c \in Callers : ticket' = Dropped({c})
    /\ UNCHANGED tables

(* Calls that read the identity in their own transaction. *)
Unguarded(t) ==
    /\ \/ \E prio \in NewPriorities, proof \in BOOLEAN : Create(t, prio, proof)
       \/ \E level \in UserChoices \cap Levels, source \in Sources, force \in BOOLEAN :
             SetLevel(t, level, source, force)
       \/ SetFirst(t)
       \/ \E choice \in UserChoices : ChangePriority(t, choice)
       \/ \E choice \in UserChoices, to \in {"queued", "parked"} : ChangeState(t, choice, to)
       \/ \E e \in Execs : StartOrdinary(t, e)
       \/ \E choice \in UserChoices : ContinueRunning(t, choice)
       \/ \E choice \in UserChoices : RunBare(t, choice)
       \/ \E to \in Endings : Finish(t, to)
       \/ Pause(t)
       \/ Resume(t)
       \/ \E level \in UserChoices : Reopen(t, level)
       \/ \E r \in recops : r.task = t /\ Commit(r)
       \/ BeginTurn(t)
    /\ UNCHANGED ticket

Next ==
    \/ Forget
    \/ \E t \in Tasks : Unguarded(t) \/ CurrentCall(t)
    \/ \E c \in Callers : GuardedCall(c) \/ \E t \in Tasks : Read(c, t)

Spec == Init /\ [][Next]_vars

----------------------------------------------------------------------------
(* Properties *)

(* The identity is worth guarding with: while the (generation, operation)  *)
(* pair a caller read still matches the row, the task is in the state the  *)
(* caller saw, under the execution it saw, with the same pause pending.    *)
(* (A task that never had a row has no identity to compare.)  This is what *)
(* every guarded call of ParkStore, RecoveryStore and TaskStore rests on.  *)
TicketSound ==
    \A c \in Callers :
        LET k == ticket[c] IN
        k.gen # 0 /\ Matches(k.task, k.gen, k.op) =>
            /\ State(k.task) = k.state
            /\ prov[k.task].exec = k.exec
            /\ park[k.task].pending = k.pending

(* A recovery intent that the identity still names can be committed, and   *)
(* one that it left behind can be retired: StartupRecovery.run never meets *)
(* an intent that both commit and supersede refuse.                        *)
IntentResolvable ==
    \A t \in Tasks : \A r \in Prepared(t) :
        Matches(t, r.gen, r.pend) =>
            /\ State(t) = r.state
            /\ prov[t].exec \in {NoExec, r.exec}

(* A pause the worker still owes keeps the priority it will give back, and *)
(* never outlives the task: it hangs on a task that can still reach a safe *)
(* point, or on one a restart interrupted under it.                        *)
PauseIntact ==
    \A t \in Tasks : park[t].pending =>
        /\ park[t].snap
        /\ IsPaused(t)
        /\ State(t) \in {"queued", "running", "held", "interrupted"}

(* The evidence that Resume and recovery judge a task by is of one         *)
(* execution, the task's own: the capture that accepts process records     *)
(* belongs to it, and so does a launch receipt that reads as current.      *)
EvidenceIsCurrent ==
    /\ \A t \in Tasks : capture[t].exec # NoExec => prov[t].exec = capture[t].exec
    /\ \A r \in recops :
          r.kind = "start" /\ Current(r) => prov[r.task].exec = r.exec

(* never_started is a proof: such a task holds no capture, ran no turn and *)
(* has no launch receipt, so its first launch may skip the safety review.  *)
NeverStartedNeverRan ==
    \A t \in Tasks : prov[t].first = "never_started" =>
        /\ State(t) \notin {"running", "held"}
        /\ capture[t].exec = NoExec
        /\ turns[t] = 0
        /\ \A r \in recops : ~(r.task = t /\ r.kind = "start")

(* However often recovery runs, an execution counts as one crash at most.  *)
CrashCountedOnce ==
    \A t \in Tasks : tasks[t].crashes = Cardinality({e \in Execs : <<t, e>> \in crashed})

(* park_store.py: "A superseded receipt must never be revived."            *)
CurrentLaunches == {<<r.task, r.exec>> : r \in {s \in recops : s.kind = "start" /\ Current(s)}}
Launches == {<<r.task, r.exec>> : r \in {s \in recops : s.kind = "start"}}
ReceiptNeverRevived ==
    [][\A l \in Launches \ CurrentLaunches : l \notin CurrentLaunches']_vars

(* Stop wins: no write of any store brings a finished task back, except a  *)
(* reopen, which reserves the turn it will run.                            *)
StopWins ==
    [][\A t \in Tasks :
          State(t) \in Terminal /\ State(t)' \notin Terminal =>
              State(t)' = "queued" /\ ResumeWaits(t)']_vars

(* The person's P0 is single: a call that gives it to a task (create, a    *)
(* level, a resume) takes it from the others in the same step.  A reopened *)
(* task brings its old one: SingleP0.                                      *)
P0TakenOver ==
    [][\A t \in Tasks :
          State(t) \in Open \cup {"absent"} /\ ~UserP0(tasks[t]) /\ UserP0(tasks'[t]) =>
              \A u \in Tasks \ {t} : ~UserP0(tasks'[u])]_vars

(* docs/reference/scheduler.md: "The user's P0 is single".                 *)
SingleP0 == \A t, u \in Tasks : UserP0(tasks[t]) /\ UserP0(tasks[u]) => t = u

(* Pausing, parking, interrupting and resuming never cost a task the       *)
(* priority it had: it is the row's own or, under a pause, the saved one;  *)
(* what changes it is something else.                                      *)
(* (A P5 that no pause set has nothing saved and resumes at P2; a second   *)
(* pause of a task that a failed park left interrupted does lose it.)      *)
Effective(t) == IF park[t].snap THEN park[t].saved ELSE tasks[t].prio

PauseStep(t) ==
    \/ Pause(t) /\ ~park[t].snap
    \/ Resume(t)
    \/ \E op \in Ops :
          \/ PauseCall(t, park[t].gen, park[t].op, op)
          \/ HasParkRow(t) /\ ParkCall(t, park[t].gen, park[t].op, op)
          \/ \E first \in BOOLEAN :
                ResumeRecovered(t, park[t].gen, park[t].op, prov[t].exec, first, op)

PauseKeepsPriority ==
    [][\A t \in Tasks :
          /\ Effective(t)' # Effective(t) /\ Live(t)'
          /\ park[t].snap \/ tasks[t].prio.level < 5
          => ~PauseStep(t)]_vars
=============================================================================
