----------------------------- MODULE TaskStore -----------------------------
(***************************************************************************)
(* The transactions of TaskStore (src/support/gateway/task_store.py): one  *)
(* operator per method that changes a row.  A method that refuses changes  *)
(* nothing, so its refusals are the negation of the operator's guard; a    *)
(* repeated operation id returns the stored row or refuses, so only a      *)
(* fresh id passes.                                                        *)
(***************************************************************************)
EXTENDS SchedulerTables

Keep == -1           \* no priority given
AutoLevel == -2           \* "auto": back to the computed P2
First == -3          \* "first": to the front of its class
Choices == Levels \cup {Keep, AutoLevel, First}

SameState == "same"  \* no state given

----------------------------------------------------------------------------
(* create_task.  Under `proof` the row can show that it never ran.         *)
Create(t, prio, proof) ==
    /\ State(t) = "absent"
    /\ prio.level = 0 => prio.source = "user"
    /\ tasks' = Written(t, [NoTask EXCEPT !.state = "queued", !.prio = prio])
    /\ prov' = IF proof
               THEN [prov EXCEPT ![t] = [first |-> "never_started", exec |-> NoExec,
                                         unsafe |-> FALSE]]
               ELSE prov
    /\ UNCHANGED <<park, capture, recops, crashed, usedOps, turns, resumeTurn>>

----------------------------------------------------------------------------
(* set_level.  A level the person set is replaced by a computed one only   *)
(* by force.  A paused task set to P5 keeps that P5 as its saved priority. *)
SetLevel(t, level, source, force) ==
    LET row == Advanced(park[t], NoOp, FALSE)
        old == tasks[t].prio
        new == [level |-> level, source |-> source, reason |-> "other"]
    IN
    /\ Live(t)
    /\ level = 0 => source = "user"
    /\ (old.source # "computed" /\ source = "computed") => force
    /\ ~park[t].pending
    /\ tasks' = Written(t, [tasks[t] EXCEPT !.prio = new])
    /\ park' = [park EXCEPT ![t] =
                   IF State(t) = "parked" /\ old.level = 5 /\ level = 5 /\ row.snap
                   THEN WithSnapshot(row, new) ELSE NoSnapshot(row)]
    /\ recops' = IF HasParkRow(t)
                 THEN CarriedWhileActive(t, row, State(t), capture[t].exec) ELSE recops
    /\ UNCHANGED <<prov, capture, crashed, usedOps, turns, resumeTurn>>

(* set_priority("first").  Only a paused task's identity moves with it.    *)
SetFirst(t) ==
    /\ Live(t)
    /\ State(t) = "parked" /\ tasks[t].prio.level = 5 /\ park[t].snap
    /\ park' = [park EXCEPT ![t] = WithSnapshot(Advanced(park[t], NoOp, FALSE), tasks[t].prio)]
    /\ UNCHANGED <<tasks, prov, capture, recops, crashed, usedOps, turns, resumeTurn>>

----------------------------------------------------------------------------
(* change: priority and state in one transaction *)

(* Mutant of NewPriority: a change that gives no priority writes one.      *)
KeepWritten(old, choice) ==
    IF choice = First THEN old ELSE [level |-> choice, source |-> "user", reason |-> "other"]

NewPriority(old, choice) ==
    CASE choice \in {Keep, First} -> old
      [] choice = AutoLevel -> [level |-> 2, source |-> "computed",
                           reason |-> IF old.level = 2 THEN old.reason ELSE "other"]
      [] OTHER -> [level |-> choice, source |-> "user",
                   reason |-> IF old.level = choice THEN old.reason ELSE "other"]

(* The rows after `choice` and the new state `to`, either of which may be  *)
(* none.  A new state drops the hold; an event of its own is logged only   *)
(* for a row with an identity.                                             *)
ChangedTasks(t, choice, to) ==
    LET row == [tasks[t] EXCEPT
                    !.state = IF to = SameState THEN @ ELSE to,
                    !.prio = NewPriority(@, choice),
                    !.hold = IF to = SameState THEN @ ELSE "none",
                    !.parkedLast = @ /\ (choice # Keep \/ to \in Terminal \/ ~HasParkRow(t))]
    IN  IF choice = 0 THEN OthersDemoted([tasks EXCEPT ![t] = row], t)
                      ELSE [tasks EXCEPT ![t] = row]

(* A pause's saved priority outlives a choice only while the task stays    *)
(* parked: no choice, "first" on the paused row, or P5 again.              *)
ChangedPark(t, row, choice, to) ==
    LET kept == choice = Keep \/ (choice = 5 /\ IsPaused(t))
        again == /\ choice = First /\ State(t) = "parked" /\ tasks[t].prio.level = 5
                 /\ row.snap
    IN  IF to \notin {SameState, "parked"} \/ ~(kept \/ again) THEN NoSnapshot(row)
        ELSE IF kept THEN row ELSE WithSnapshot(row, tasks[t].prio)

(* change(priority): the state stays.                                      *)
ChangePriority(t, choice) ==
    LET row == Advanced(park[t], NoOp, FALSE) IN
    /\ Live(t)
    /\ choice # Keep
    /\ ~park[t].pending
    /\ tasks' = ChangedTasks(t, choice, SameState)
    /\ park' = [park EXCEPT ![t] = ChangedPark(t, row, choice, SameState)]
    /\ recops' = IF HasParkRow(t)
                 THEN CarriedWhileActive(t, row, State(t), capture[t].exec) ELSE recops
    /\ UNCHANGED <<prov, capture, crashed, usedOps, turns, resumeTurn>>

(* change(state) to a state that does not run.                             *)
ChangeState(t, choice, to) ==
    LET row == Advanced(park[t], NoOp, FALSE) IN
    /\ Live(t)
    /\ to \in {"queued", "held", "parked"}
    /\ ~park[t].pending
    /\ tasks' = ChangedTasks(t, choice, to)
    /\ park' = [park EXCEPT ![t] = ChangedPark(t, row, choice, to)]
    /\ recops' = IF HasParkRow(t)
                 THEN CarriedWhileActive(t, row, to, capture[t].exec) ELSE recops
    /\ UNCHANGED <<prov, capture, crashed, usedOps, turns, resumeTurn>>

(* change(state="running") refuses a first launch, which is Start's, and a *)
(* task that owes a pause.                                                 *)
MayRunUnfenced(t) == ~park[t].pending      \* mutant: no first-launch fence
MayRun(t) == ~park[t].pending /\ prov[t].first # "never_started"

(* change(state="running", _capture_execution=e): an ordinary start, whose *)
(* capture begins incomplete.                                              *)
StartOrdinary(t, e) ==
    LET row == Advanced(park[t], NoOp, FALSE) IN
    /\ State(t) = "queued" /\ tasks[t].prio.level < 5
    /\ MayRun(t)
    /\ Prepared(t) = {}
    /\ capture' = [capture EXCEPT ![t] = [exec |-> e, complete |-> FALSE]]
    /\ prov' = [prov EXCEPT ![t] = Upserted(@, "started", e, @.unsafe)]
    /\ tasks' = ChangedTasks(t, Keep, "running")
    /\ park' = [park EXCEPT ![t] = NoSnapshot(row)]
    /\ UNCHANGED <<recops, crashed, usedOps, turns, resumeTurn>>

(* change(state="running") that keeps the launch's capture: the one it was *)
(* given, or the active one of a task already running or held.             *)
ContinueRunning(t, choice) ==
    LET row == Advanced(park[t], NoOp, FALSE) IN
    /\ State(t) \in {"queued", "running", "held", "parked"}
    /\ capture[t].exec # NoExec
    /\ MayRun(t)
    /\ Prepared(t) = {}
    /\ tasks' = ChangedTasks(t, choice, "running")
    /\ park' = [park EXCEPT ![t] = NoSnapshot(row)]
    /\ recops' = IF HasParkRow(t)
                 THEN CarriedWhileActive(t, row, "running", capture[t].exec) ELSE recops
    /\ UNCHANGED <<prov, capture, crashed, usedOps, turns, resumeTurn>>

(* change(state="running") with no execution: a capture that a parked or   *)
(* queued task still had is retired.                                       *)
RunBare(t, choice) ==
    LET row == Advanced(park[t], NoOp, FALSE) IN
    /\ Live(t)
    /\ capture[t].exec # NoExec => State(t) \notin {"running", "held"}
    /\ MayRun(t)
    /\ capture' = [capture EXCEPT ![t] = NoCapture]
    /\ tasks' = ChangedTasks(t, choice, "running")
    /\ park' = [park EXCEPT ![t] = NoSnapshot(row)]
    /\ UNCHANGED <<prov, recops, crashed, usedOps, turns, resumeTurn>>

(* change(state=terminal).  A pending pause does not stop it.              *)
Finished(t, to) ==
    /\ Live(t)
    /\ to \in Terminal
    /\ capture' = [capture EXCEPT ![t] = NoCapture]
    /\ tasks' = ChangedTasks(t, Keep, to)
    /\ park' = [park EXCEPT ![t] = NoSnapshot(Advanced(@, NoOp, FALSE))]
    /\ UNCHANGED <<prov, recops, crashed, turns, resumeTurn>>

Finish(t, to) == Finished(t, to) /\ UNCHANGED usedOps

(* The same with an expected identity and an operation id.                 *)
GuardedStop(t, g, p, op) ==
    /\ op \notin usedOps
    /\ Matches(t, g, p)
    /\ Finished(t, "cancelled")
    /\ usedOps' = usedOps \cup {op}

----------------------------------------------------------------------------
(* pause: parked at once; a hold's metadata stays under it.                *)
Pause(t) ==
    /\ Live(t)
    /\ ~(State(t) = "parked" /\ tasks[t].prio.level = 5)
    /\ ~park[t].pending
    /\ tasks' = [tasks EXCEPT ![t] =
                    [@ EXCEPT !.state = "parked", !.prio = Paused,
                              !.hold = IF State(t) = "held" THEN tasks[t].hold ELSE "none"]]
    /\ park' = [park EXCEPT ![t] = WithSnapshot(Advanced(@, NoOp, TRUE), tasks[t].prio)]
    /\ UNCHANGED <<prov, capture, recops, crashed, usedOps, turns, resumeTurn>>

(* request_pending_pause: the priority goes to P5 now and the task parks   *)
(* at its next safe point.                                                 *)
RequestPause(t, g, p, op) ==
    LET row == Advanced(park[t], op, TRUE) IN
    /\ op \notin usedOps
    /\ State(t) \in {"queued", "running", "held"}
    /\ ~park[t].pending
    /\ Matches(t, g, p)
    /\ tasks' = [tasks EXCEPT ![t].prio = Paused]
    /\ park' = [park EXCEPT ![t] = [WithSnapshot(row, tasks[t].prio) EXCEPT !.pending = TRUE]]
    /\ recops' = CarriedWhileActive(t, row, State(t), capture[t].exec)
    /\ usedOps' = usedOps \cup {op}
    /\ UNCHANGED <<prov, capture, crashed, turns, resumeTurn>>

SavedPriority(t) == IF park[t].snap THEN park[t].saved ELSE Computed

(* Mutant of Restored: a resumed P0 leaves the others theirs.              *)
RestoredBeside(t, prio, to) ==
    [tasks EXCEPT ![t] = [@ EXCEPT !.state = to, !.prio = prio, !.parkedLast = FALSE,
                                   !.hold = "none"]]

(* The row of t with its saved priority back and the hold gone.            *)
Restored(t, prio, to) ==
    Written(t, [tasks[t] EXCEPT !.state = to, !.prio = prio, !.parkedLast = FALSE,
                                !.hold = "none"])

(* resume: back to the saved priority; a saved P5 stays parked.            *)
Resume(t) ==
    LET prio == SavedPriority(t) IN
    /\ State(t) = "parked" /\ tasks[t].prio.level = 5
    /\ tasks' = Restored(t, prio, IF prio.level = 5 THEN "parked" ELSE "queued")
    /\ park' = [park EXCEPT ![t] = NoSnapshot(Advanced(@, NoOp, FALSE))]
    /\ UNCHANGED <<prov, capture, recops, crashed, usedOps, turns, resumeTurn>>

(* cancel_pending_pause: the task goes on where it is.                     *)
CancelPause(t, g, p, op) ==
    LET row == Advanced(park[t], NoOp, FALSE) IN
    /\ op \notin usedOps
    /\ State(t) \in {"queued", "running", "held"}
    /\ tasks[t].prio.level = 5
    /\ park[t].snap /\ park[t].pending
    /\ Matches(t, g, p)
    /\ tasks' = Written(t, [tasks[t] EXCEPT !.prio = park[t].saved, !.parkedLast = FALSE])
    /\ park' = [park EXCEPT ![t] = NoSnapshot(row)]
    /\ recops' = CarriedWhileActive(t, row, State(t), capture[t].exec)
    /\ usedOps' = usedOps \cup {op}
    /\ UNCHANGED <<prov, capture, crashed, turns, resumeTurn>>

(* resume_interrupted: queue the card of a pause that could not park.      *)
ResumeInterrupted(t, g, p, op) ==
    /\ op \notin usedOps
    /\ State(t) = "interrupted" /\ tasks[t].card
    /\ park[t].snap /\ IsPaused(t)
    /\ Matches(t, g, p)
    /\ tasks' = Restored(t, park[t].saved, "queued")
    /\ park' = [park EXCEPT ![t] = NoSnapshot(Advanced(@, NoOp, FALSE))]
    /\ usedOps' = usedOps \cup {op}
    /\ UNCHANGED <<prov, capture, recops, crashed, turns, resumeTurn>>

(* resume_recovered: queue a recovered task under the evidence the caller  *)
(* read, and reserve its next turn in the same transaction.                *)
ResumeRecovered(t, g, p, e, first, op) ==
    LET prio == IF park[t].snap THEN park[t].saved
                ELSE IF tasks[t].prio.level = 5 THEN Computed ELSE tasks[t].prio
    IN
    /\ op \notin usedOps
    /\ State(t) \in {"interrupted", "parked"}
    /\ Prepared(t) = {}
    /\ first = (prov[t].first = "never_started")
    /\ ~first => tasks[t].card
    /\ prov[t].first # "absent" => prov[t].exec = e
    /\ capture[t].exec \in {NoExec, e}
    /\ Matches(t, g, p)
    /\ tasks' = Restored(t, prio, "queued")
    /\ park' = [park EXCEPT ![t] = NoSnapshot(Advanced(@, NoOp, TRUE))]
    /\ resumeTurn' = [resumeTurn EXCEPT ![t] = turns[t] + 1]
    /\ usedOps' = usedOps \cup {op}
    /\ UNCHANGED <<prov, capture, recops, crashed, turns>>

(* reopen: a done, failed or stopped task goes on with the instruction as  *)
(* its card.  It keeps its level (a paused one goes to P2) unless the      *)
(* person's words gave one.                                                *)
Reopen(t, level) ==
    LET prio == IF level # Keep
                THEN [level |-> level, source |-> "computed", reason |-> "other"]
                ELSE IF tasks[t].prio.level < 5 THEN tasks[t].prio ELSE Computed
    IN
    /\ State(t) \in {"done", "failed", "cancelled"}
    /\ level \in (1..4) \cup {Keep}
    /\ Prepared(t) = {}
    /\ tasks' = [tasks EXCEPT ![t] =
                    [@ EXCEPT !.state = "queued", !.prio = prio, !.card = TRUE,
                              !.hold = "none", !.parkedLast = FALSE]]
    /\ park' = [park EXCEPT ![t] = NoSnapshot(Advanced(@, NoOp, TRUE))]
    /\ resumeTurn' = [resumeTurn EXCEPT ![t] = turns[t] + 1]
    /\ UNCHANGED <<prov, capture, recops, crashed, usedOps, turns>>
=============================================================================
