---------------------------- MODULE MCTaskPlane ----------------------------
(***************************************************************************)
(* Bounded instances of TaskPlane.  MCNext keeps the callers' old          *)
(* identities.  The others read the identity in the call itself, which     *)
(* leaves room for longer histories: RecoveryNext those of launches and    *)
(* recovery, PriorityNext those of two tasks' levels and pauses,           *)
(* LevelsNext these and those of a paused task that restarts.              *)
(***************************************************************************)
EXTENDS TaskPlane, TLC

CONSTANTS
    MaxGen,    \* generations of a task's identity
    MaxTogether, \* the same, once there are two tasks
    MaxTurns,  \* turns of a task
    MaxRows    \* rows of recovery_operations

Bounded ==
    /\ \A t \in Tasks : park'[t].gen <= MaxGen /\ turns'[t] <= MaxTurns
    /\ Cardinality(recops') <= MaxRows

MCNext == Next /\ Bounded

RecoveryStep(t) ==
    LET g == park[t].gen
        p == park[t].op
        e == prov[t].exec
    IN
    /\ \/ \E proof \in BOOLEAN : Create(t, Computed, proof)
       \/ LaunchCall(t, g, p, e)
       \/ RecoveryCall(t, g, p)
       \/ \E op \in Ops : Hold(t, g, p, op) \/ Release(t, g, p, op) \/ Park(t, g, p, op)
       \/ \E op \in Ops, first \in BOOLEAN : ResumeRecovered(t, g, p, e, first, op)
       \/ \E r \in recops : Commit(r)
       \/ \E x \in Execs : StartOrdinary(t, x)
       \/ ContinueRunning(t, Keep)
       \/ RunBare(t, Keep)
       \/ ChangeState(t, Keep, "queued")
       \/ \E to \in Endings : Finish(t, to)
       \/ Reopen(t, Keep)
       \/ BeginTurn(t)
    /\ UNCHANGED ticket

RecoveryNext == (\E t \in Tasks : RecoveryStep(t)) /\ Bounded

PriorityCall(t) ==
    /\ \/ \E prio \in NewPriorities : Create(t, prio, TRUE)
       \/ \E level \in UserChoices \cap Levels : SetLevel(t, level, "user", FALSE)
       \/ SetLevel(t, 2, "computed", TRUE)
       \/ SetFirst(t)
       \/ \E choice \in UserChoices : ChangePriority(t, choice)
       \/ \E op \in Ops : PauseCall(t, park[t].gen, park[t].op, op)
       \/ \E op \in Ops : ParkCall(t, park[t].gen, park[t].op, op)
       \/ \E e \in Execs : Start(t, park[t].gen, park[t].op, e, NoExec, TRUE)
       \/ \E level \in UserChoices : Reopen(t, level)
       \/ Pause(t)
       \/ Resume(t)
       \/ Finish(t, "done")
    /\ UNCHANGED ticket

PriorityNext == (\E t \in Tasks : PriorityCall(t)) /\ Bounded
PrioritySpec == Init /\ [][PriorityNext]_vars

(* The pauses of a task that restarts and recovery come between. *)
PausedThroughRecovery(t) ==
    /\ \/ RecoveryCall(t, park[t].gen, park[t].op)
       \/ \E r \in recops : Commit(r)
       \/ \E op \in Ops, first \in BOOLEAN :
             ResumeRecovered(t, park[t].gen, park[t].op, prov[t].exec, first, op)
       \/ ChangeState(t, Keep, "queued")
       \/ ContinueRunning(t, Keep)
    /\ UNCHANGED ticket

(* Two tasks together have shorter histories, without recovery. *)
Lone(t) == \A other \in Tasks \ {t} : tasks'[other].state = "absent"
Short ==
    /\ \A t \in Tasks : park'[t].gen <= MaxTogether
    /\ Cardinality(usedOps') <= 1 /\ recops' = {}

LevelsNext ==
    /\ \E t \in Tasks : \/ PriorityCall(t) /\ (Lone(t) \/ Short)
                        \/ PausedThroughRecovery(t) /\ Lone(t)
    /\ Bounded

----------------------------------------------------------------------------
UserRow(n) == [level |-> n, source |-> "user", reason |-> "other"]

OnePriority == {Computed}
TwoPriorities == {Computed, UserRow(0)}
NoChoice == {Keep}
LevelChoices == {Keep, First, 0, 5}
Interrupted == {"interrupted"}
OneEnding == {"done"}
TwoEndings == {"cancelled", "expired"}
NotDone == {"interrupted", "queued"}
NotQueued == {"interrupted", "done"}

TaskSymmetry == Permutations(Tasks) \cup Permutations(Ops) \cup Permutations(Execs)
=============================================================================
