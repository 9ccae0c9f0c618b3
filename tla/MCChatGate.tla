----------------------------- MODULE MCChatGate -----------------------------
(***************************************************************************)
(* A bounded instance of ChatGate: the calls made and what else is asked   *)
(* of the gate are counted, the ends of calls and of windows are not.      *)
(***************************************************************************)
EXTENDS ChatGate, TLC

CONSTANTS
    MaxCalls,  \* calls submitted
    MaxOthers, \* of them embeddings and retries
    MaxActs,   \* locks, parks, levels, pauses, focus, endings and the like
    MaxHistory \* calls and acts together

VARIABLE spent

mcVars == <<gateVars, spent>>

BoundedInit == GateInit /\ spent = [calls |-> 0, others |-> 0, acts |-> 0]

Act ==
    \/ \E i \in Ids, accepted \in BOOLEAN : TryPark(i, accepted)
    \/ \E seen \in {"none", "foreign"} : SetMachine(seen)
    \/ \E x \in Chats : Focus(x) \/ SetSessionLevel(x)
    \/ \E w \in Workers :
          \/ \E choice \in {"raised", "lower", "later"} : SetTaskLevel(w, choice)
          \/ \E held \in BOOLEAN : UpdateTask(w, held)
          \/ FinishTask(w) \/ DiscardTask(w)
    \/ \E x \in Sessions : ForgetSession(x)
    \/ Close

Spend(what, max) ==
    /\ spent[what] < max
    /\ spent' = [spent EXCEPT ![what] = @ + 1]
    /\ spent'.calls + spent'.others + spent'.acts <= MaxHistory

BoundedNext ==
    \/ /\ Spend("calls", MaxCalls)
       /\ \E x \in Sessions, i \in Ids : Submit(x, "plan", i)
    \/ /\ Spend("others", MaxOthers)
       /\ \E x \in Sessions, kind \in Kinds \ {"plan"}, i \in Ids : Submit(x, kind, i)
    \/ Spend("acts", MaxActs) /\ Act
    \/ /\ UNCHANGED spent
       /\ \/ \E i \in Ids : FinishCall(i)
          \/ WindowLapses
          \/ \E w \in Workers, raised \in BOOLEAN : RegisterTask(w, raised, FALSE)

BoundedSpec == BoundedInit /\ [][BoundedNext]_mcVars

(* Callers end what was sent and what was cancelled, and windows pass.     *)
Fairness ==
    /\ WF_mcVars(WindowLapses /\ UNCHANGED spent)
    /\ \A i \in Ids : WF_mcVars(/\ i \in LiveCalls(calls)
                                /\ calls[i].admitted \/ calls[i].park_fenced
                                /\ FinishCall(i) /\ UNCHANGED spent)

FairSpec == BoundedSpec /\ Fairness

Symmetry == Permutations(Ids) \cup Permutations(Chats)
=============================================================================
