----------------------------- MODULE MCGateway -----------------------------
(***************************************************************************)
(* Bounded instances of Gateway: what the person and the world may still   *)
(* do is counted in `spent`; the system's own steps are not bounded.       *)
(***************************************************************************)
EXTENDS Gateway, TLC

CONSTANTS
    MaxAsks,    \* requests of the person, beside one create per task
    MaxWork,    \* holds and captured tools
    MaxCrashes,
    MaxFails,   \* launches and closes that fail
    MaxFaults,  \* crashes and failures together
    MaxEvents,  \* these and the requests together
    Asked,      \* the kinds of request made
    Second,     \* tasks created only when the others were
    MaxTogether \* requests of the person once these are there

VARIABLE spent

mcVars == <<vars, spent>>

NothingSpent == [asks |-> 0, work |-> 0, crashes |-> 0, fails |-> 0]

MCInit ==
    /\ Init /\ \A c \in Clients : ticket[c].task \notin Second
    /\ spent = NothingSpent

Spend(what, max) == spent[what] < max /\ spent' = [spent EXCEPT ![what] = @ + 1]

MCPerson ==
    \/ \E t \in Tasks : Submit(t) /\ UNCHANGED spent
    \/ \E t \in Tasks : "continue" \in Asked /\ Spend("asks", MaxAsks) /\ Continue(t)
    \/ \E c \in Clients, t \in Tasks :
          \/ "recover" \in Asked /\ Spend("asks", MaxAsks) /\ Recover(c, t)
          \/ \E kind \in Asked : Spend("asks", MaxAsks) /\ Request(c, kind, t)
    \/ \E t \in Tasks, op \in Ops :
          "retry" \in Asked /\ Spend("asks", MaxAsks) /\ RetryResume(t, op)

MCWork == \E t \in Tasks : Spend("work", MaxWork) /\ Work(t)

MCFault ==
    /\ spent.crashes + spent.fails < MaxFaults
    /\ \/ Spend("crashes", MaxCrashes) /\ Crash
       \/ \E t \in Tasks : Spend("fails", MaxFails) /\ (LaunchFails(t) \/ CloseFails(t))

(* Two tasks together have shorter histories: one client, two requests and *)
(* failures between them, and no crash.                                    *)
Created(t) == tasks'[t].state # "absent"
Asking == {c \in Clients : call'[c] # Idle \/ ticket'[c] \notin {NoTicket(t) : t \in Tasks}}
Short ==
    (\E t \in Second : Created(t)) =>
        /\ \A t \in Tasks \ Second : Created(t)
        /\ Cardinality(Asking) <= 1
        /\ spent'.asks <= MaxTogether /\ spent'.asks + spent'.fails <= 2
        /\ spent'.crashes = 0

MCNext ==
    /\ IdsLeft
    /\ \/ System /\ UNCHANGED spent
       \/ MCPerson
       \/ MCWork
       \/ MCFault
    /\ spent'.asks + spent'.crashes + spent'.fails <= MaxEvents
    /\ Short

MCSpec == MCInit /\ [][MCNext]_mcVars

(* Coroutines, startup and requests go on while they can; a turn has a     *)
(* step bound of its own, so it ends.  Nothing makes a person ask, a tool  *)
(* run or a process fail.                                                  *)
Fairness ==
    /\ WF_mcVars(UNCHANGED spent /\ Startup)
    /\ \A t \in Tasks :
          /\ WF_mcVars(UNCHANGED spent /\ RunStep(t))
          /\ WF_mcVars(UNCHANGED spent /\ (Yielding(t) \/ Serve(t)))
    /\ \A c \in Clients : WF_mcVars(UNCHANGED spent /\ Serve(c))

FairSpec == MCSpec /\ Fairness
Symmetry == Permutations(Clients)
ManyOps == 1..12
ManyExecs == 101..106
FewOps == 1..8
FewExecs == 101..104
AllAsked == {"pause", "resume", "level", "stop", "recover", "retry", "continue"}
PauseResume == {"pause", "resume"}
StopOnly == {"stop"}
PauseLevel == {"pause", "level"}
ContinuePauseResume == {"continue", "pause", "resume"}
NoLevels == {}
OneLevel == {1}
=============================================================================
