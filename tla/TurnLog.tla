------------------------------ MODULE TurnLog ------------------------------
(***************************************************************************)
(* What the turns of one session look like to whoever reads them,          *)
(* whichever processes write: an abstract specification, which Sessions    *)
(* implements.  A turn starts only after the one before it has ended, ends *)
(* once, and is undone only from the end of the list; a key starts one     *)
(* turn at most, and none once it was withdrawn.                           *)
(***************************************************************************)
EXTENDS Naturals, Sequences

CONSTANTS
    Keys,   \* the client_request_ids
    NoKey   \* a turn begun without one

VARIABLES
    log,    \* the turns, each [status, undone, key]
    gone    \* the keys withdrawn before they started a turn

vars == <<log, gone>>

Ends == {"completed", "cancelled", "crashed"}
Entry == [status : {"running"} \cup Ends, undone : BOOLEAN, key : Keys \cup {NoKey}]

Started == {log[n].key : n \in DOMAIN log} \ {NoKey}
Idle(l) == \A n \in DOMAIN l : l[n].status # "running"
Newest(l, n) == /\ n \in DOMAIN l /\ ~l[n].undone
                /\ \A m \in DOMAIN l : m > n => l[m].undone
NewEntry(k) == [status |-> "running", undone |-> FALSE, key |-> k]

(* The log once its running turn, if any, has ended in outcome s. *)
Ended(s) ==
    [n \in DOMAIN log |->
        IF log[n].status = "running" THEN [log[n] EXCEPT !.status = s] ELSE log[n]]

Init == log = <<>> /\ gone = {}

End == \E s \in Ends : log' = Ended(s) /\ UNCHANGED gone

(* A turn whose process is gone may end in the step that begins or undoes. *)
Begin == \E s \in Ends, k \in (Keys \ (Started \cup gone)) \cup {NoKey} :
    /\ log' = Append(Ended(s), NewEntry(k))
    /\ UNCHANGED gone

Undo == \E s \in Ends, n \in DOMAIN log :
    /\ Newest(log, n)
    /\ log' = [Ended(s) EXCEPT ![n].undone = TRUE]
    /\ UNCHANGED gone

Withdraw == \E k \in Keys \ (Started \cup gone) :
    gone' = gone \cup {k} /\ UNCHANGED log

Next == End \/ Begin \/ Undo \/ Withdraw
Spec == Init /\ [][Next]_vars
=============================================================================
