----------------------------- MODULE MCHistory -----------------------------
(***************************************************************************)
(* The tables of the stores and those of the chat gate, in one run.  They  *)
(* share nothing, so a behaviour is about one `part` and leaves the others *)
(* as they began: one in which a task's callers keep their old identities  *)
(* ("calls"), a longer one of its launches and recovery ("recovery"), one  *)
(* of the levels and pauses of two tasks ("levels"), or one of the calls   *)
(* to the model ("gate").  No behaviour has ids of both, so the calls and  *)
(* the chats of the gate go by the names of operations and executions and  *)
(* one symmetry serves all parts.                                          *)
(***************************************************************************)
EXTENDS MCTaskPlane, MCChatGate

Some(n, ids) == CHOOSE few \in SUBSET ids : Cardinality(few) = n
OneOp == Some(1, Ops)
TwoOps == Some(2, Ops)
OneExec == Some(1, Execs)

Calls == INSTANCE MCTaskPlane WITH
    Ops <- TwoOps, NewPriorities <- OnePriority, UserChoices <- NoChoice,
    Outcomes <- NotDone, Endings <- TwoEndings,
    MaxGen <- 3, MaxTurns <- 0, MaxRows <- 1
Recovery == INSTANCE MCTaskPlane WITH
    Ops <- OneOp, NewPriorities <- OnePriority, UserChoices <- NoChoice,
    Outcomes <- NotQueued, Endings <- OneEnding, MaxGen <- 4
Level == INSTANCE MCTaskPlane WITH
    Execs <- OneExec, Outcomes <- Interrupted, Endings <- TwoEndings, MaxTurns <- 0

VARIABLE part

(* The callers look at the task that is created first.                     *)
Seen == CHOOSE t \in Tasks : TRUE
Created(t) == tasks'[t].state # "absent"
Alone == \A t \in Tasks \ {Seen} : ~Created(t)
SeenFirst == Created(Seen) \/ Alone

History ==
    /\ UNCHANGED <<part, mcVars>>
    /\ \/ part = "calls" /\ Calls!MCNext /\ Alone
       \/ part = "recovery" /\ Recovery!RecoveryNext /\ Alone
       \/ part = "levels" /\ Level!LevelsNext /\ SeenFirst

GateHistory == part = "gate" /\ BoundedNext /\ UNCHANGED <<part, vars>>

HistoryInit ==
    /\ Init /\ ticket = [c \in Callers |-> NoTicket(Seen)]
    /\ part \in {"calls", "recovery", "levels", "gate"}
    /\ BoundedInit /\ (part # "gate" => policy = "off")

HistorySpec == HistoryInit /\ [][History \/ GateHistory]_<<vars, mcVars, part>>
IdSymmetry == Permutations(Ops) \cup Permutations(Execs)

AnyOutcome == {"interrupted", "queued", "done"}
AnyEnding == {"cancelled", "expired", "done"}
=============================================================================
