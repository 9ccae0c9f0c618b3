----------------------------- MODULE MCSupport -----------------------------
(***************************************************************************)
(* Bounded instances of Sessions, Chores, OwnerAsks and Followups.  They   *)
(* share no state, so one behaviour is about one of them: `part` says      *)
(* which, and the others keep their initial states.  What people and the   *)
(* world may still do is counted in `spent`; the steps of a turn, an undo, *)
(* a tick, a link, a drain or a follow-up are not.                         *)
(***************************************************************************)
EXTENDS Sessions, Chores, OwnerAsks, Followups, TLC

CONSTANTS
    Creator,    \* the process that has the chat first
    MaxOpens,   \* other processes that open the file
    MaxActs,    \* undos, stops, cancels by key and quits
    MaxFaults,  \* crashes, lapses and failed writes
    MaxHistory, \* turns, acts and faults together
    MaxEach,    \* of beats of the chores' clock, acts, and faults
    MaxChanges, \* of these together, behind the chore's first save
    m1, m2,     \* what the person sends a chat
    MaxSends,   \* messages, questions, acts and faults of a chat's drain
    MaxEnds,    \* of a task the chat started
    MaxWrites,  \* messages, continues and Stops of the person, and restarts
    MaxRefused  \* reads and writes the disk refuses a chat's follow-ups

VARIABLES part, spent

mcVars == <<vars, choreVars, ownerVars, followVars, part, spent>>

MCInit ==
    /\ Init /\ runner[Creator].at = "idle"
    /\ ChoreInit
    /\ FollowInit
    /\ part \in {"session", "chore", "asks", "follow"} /\ (part # "session" => writer = "gateway")
    /\ OwnerInit /\ (part # "asks" => NoTurn)
    /\ spent = [opens |-> 0, acts |-> 0, faults |-> 0]

Spend(what, max) == spent[what] < max /\ spent' = [spent EXCEPT ![what] = @ + 1]
SpentNothing == UNCHANGED spent

Person(p) ==
    \/ Undo(p) \/ Stop(p) \/ Quit(p)
    \/ \E k \in Keys : CancelKey(p, k)

Fault(p) ==
    \/ Crash(p) \/ Drain(p, FALSE)
    \/ \E committed \in BOOLEAN : RecordFails(p, committed)

System(p) ==
    \/ Select(p) \/ Resume(p) \/ Exit(p) \/ Register(p) \/ Prepare(p) \/ Reload(p)
    \/ EndsEarly(p) \/ Drain(p, TRUE) \/ Record(p) \/ RetryLost(p) \/ Refresh(p)
    \/ UndoReload(p) \/ UndoStore(p) \/ UndoLoad(p)
    \/ \E k \in Keys \cup {NoKey} : Begin(p, k)
    \/ \E outcome \in {"completed", "cancelled"} : RunEnds(p, outcome)

SessionStep ==
    /\ part = "session" /\ UNCHANGED <<choreVars, ownerVars, followVars, part>>
    /\ \/ Spend("faults", MaxFaults) /\ Lapse
       \/ \E p \in Procs :
             \/ Spend("opens", MaxOpens) /\ Open(p)
             \/ Spend("acts", MaxActs) /\ Person(p)
             \/ Spend("faults", MaxFaults) /\ Fault(p)
             \/ System(p) /\ SpentNothing
    /\ Len(turns') + spent'.acts + spent'.faults <= MaxHistory

ChoreStep ==
    /\ part = "chore" /\ UNCHANGED <<vars, ownerVars, followVars, part>>
    /\ \/ TimerSteps /\ SpentNothing
       \/ HolderSteps /\ SpentNothing
       \/ \E r \in DOMAIN runs : TaskEnds(r) /\ SpentNothing
       \/ now < MaxEach /\ Beat /\ SpentNothing
       \/ lives = 0 /\ Save /\ SpentNothing
       \/ Spend("acts", MaxEach) /\ Changes
       \/ Spend("faults", MaxEach) /\ Failures
    /\ now' + spent'.acts + spent'.faults <= MaxChanges

(* The messages are alike, so m1 is the first that is sent.                *)
OwnerStep ==
    /\ part = "asks" /\ UNCHANGED <<vars, choreVars, followVars, part>>
    /\ \/ OwnerSteps /\ SpentNothing
       \/ OwnerChoices /\ SpentNothing
       \/ Spend("acts", MaxEach) /\ OwnerActs
       \/ Spend("faults", MaxEach) /\ OwnerFaults
    /\ told'[m2] # "new" => told'[m1] # "new"
    /\ Cardinality({m \in Msgs : told'[m] # "new"} \cup {a \in Asks : ask'[a].at # "none"})
          + spent'.acts + spent'.faults <= MaxSends

(* What the disk refuses counts for two.                                   *)
FollowUpStep ==
    /\ part = "follow" /\ UNCHANGED <<vars, choreVars, ownerVars, part>>
    /\ \/ FollowSteps /\ SpentNothing
       \/ FollowChoices /\ SpentNothing
       \/ task.ends < MaxEnds /\ (\E why \in Whys : TaskStops(why)) /\ SpentNothing
       \/ Spend("acts", MaxWrites) /\ FollowActs
       \/ Spend("faults", MaxRefused) /\ FollowFaults
    /\ task'.ends + spent'.acts + 2 * spent'.faults <= MaxEnds + MaxWrites

MCNext == SessionStep \/ ChoreStep \/ OwnerStep \/ FollowUpStep

(* The parts' state is of its type: sessions.db's rows with what each      *)
(* process knows of them (sessions/store.py), the chore's row with its     *)
(* folder, runs and readers (chore_store.py, console/chores.py), a chat's  *)
(* queues with its drain (console/asks.py), and the follow-ups' record     *)
(* with their queue (console/followups.py).                                *)
SupportTypeOK == TypeOK /\ ChoreTypeOK /\ OwnerTypeOK /\ FollowTypeOK

(* Each part's own variables are the subscript: no step of another part    *)
(* changes them, and the bounds refuse none of these steps.  Only a tick   *)
(* comes again and again; there are finitely many of the other steps, so   *)
(* that one condition for a part makes each of them happen.                *)
MCFairness ==
    /\ WF_vars(part = "session" /\ \E p \in Procs : Winds(p) \/ Refresh(p))
    /\ WF_choreVars(part = "chore" /\ TimerSteps)
    /\ WF_choreVars(part = "chore" /\ HolderSteps)
    /\ WF_ownerVars(part = "asks" /\ OwnerSteps)
    /\ WF_followVars(part = "follow" /\ FollowSteps)

MCSpec == MCInit /\ [][MCNext]_mcVars /\ MCFairness

CONSTANTS p1, p2, p3
Three == {p1, p2, p3}
First == p1
Hosts == [p \in Procs |-> IF p = p3 THEN "far" ELSE "near"]
=============================================================================
