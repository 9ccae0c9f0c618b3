----------------------------- MODULE ParkStore -----------------------------
(***************************************************************************)
(* The transitions of a worker's safe point: ParkStore._transition in      *)
(* src/support/gateway/park_store.py, one operator per target.  Each call  *)
(* carries the identity its caller read (g, p) and an operation id.        *)
(***************************************************************************)
EXTENDS SchedulerTables

(* ParkStore._record: the hold metadata counts while it names the task's   *)
(* own state, or a hold kept under a pause.                                *)
HoldRecord(t) ==
    LET row == tasks[t] IN
    \/ row.hold = row.state
    \/ row.hold = "held_paused" /\ row.state = "parked"
    \/ row.hold = "held" /\ row.state = "parked" /\ IsPaused(t)

HeldRecord(t) == HoldRecord(t) /\ tasks[t].hold \in {"held", "held_paused"}

PausedRow(t) == State(t) = "parked" /\ IsPaused(t)

(* A safe point leaves from held, or from a hold kept under a pause.       *)
AtSafePoint(t) == HeldRecord(t) /\ (State(t) = "held" \/ PausedRow(t))

(* Every call: a fresh operation id and the current identity.              *)
Guarded(t, g, p, op) ==
    /\ Live(t)
    /\ op \notin usedOps
    /\ Matches(t, g, p)
    /\ usedOps' = usedOps \cup {op}

Unmoved == UNCHANGED <<prov, capture, crashed, turns, resumeTurn>>

(* hold: a running worker reached its plan, reflection or approval.        *)
Hold(t, g, p, op) ==
    LET row == Advanced(park[t], p, FALSE) IN
    /\ Guarded(t, g, p, op)
    /\ State(t) = "running"
    /\ tasks' = [tasks EXCEPT ![t] = [@ EXCEPT !.state = "held", !.hold = "held",
                                               !.card = FALSE, !.parkedLast = FALSE]]
    /\ park' = [park EXCEPT ![t] = row]
    /\ recops' = Carried(t, row, "held", capture[t].exec)
    /\ Unmoved

(* hold under a pause that already parked the row: it stays parked.        *)
HoldUnderPause(t, g, p, op) ==
    /\ Guarded(t, g, p, op)
    /\ PausedRow(t) /\ ~HoldRecord(t)
    /\ tasks' = [tasks EXCEPT ![t] = [@ EXCEPT !.hold = "held_paused", !.card = FALSE,
                                               !.parkedLast = FALSE]]
    /\ park' = [park EXCEPT ![t] = Advanced(@, p, FALSE)]
    /\ UNCHANGED recops
    /\ Unmoved

(* resume: the held call is released, unless a pause is pending.           *)
Release(t, g, p, op) ==
    LET row == Advanced(park[t], p, FALSE) IN
    /\ Guarded(t, g, p, op)
    /\ State(t) = "held" /\ HeldRecord(t)
    /\ ~park[t].pending
    /\ tasks' = [tasks EXCEPT ![t] = [@ EXCEPT !.state = "running", !.hold = "running",
                                               !.parkedLast = FALSE]]
    /\ park' = [park EXCEPT ![t] = row]
    /\ recops' = Carried(t, row, "running", capture[t].exec)
    /\ Unmoved

(* Mutant of ParkedRow: the pause is still pending after the safe point.   *)
ParkedPending(t, op) == Advanced(park[t], IF HasParkRow(t) THEN NoOp ELSE op, TRUE)

(* The identity a finished safe point leaves: none, or the operation that  *)
(* first created it; the pause is no longer pending.                       *)
ParkedRow(t, op) ==
    [Advanced(park[t], IF HasParkRow(t) THEN NoOp ELSE op, TRUE) EXCEPT !.pending = FALSE]

(* park: the run's card is saved and the worker is gone.                   *)
Park(t, g, p, op) ==
    /\ Guarded(t, g, p, op)
    /\ AtSafePoint(t)
    /\ tasks' = [tasks EXCEPT ![t] = [@ EXCEPT !.state = "parked", !.hold = "parked",
                                               !.card = TRUE, !.parkedLast = TRUE]]
    /\ park' = [park EXCEPT ![t] = ParkedRow(t, op)]
    /\ UNCHANGED recops
    /\ Unmoved

(* An interruption needs the pause's saved priority, where a row exists.   *)
PauseSaved(t) == HasParkRow(t) => park[t].snap /\ IsPaused(t)

(* Mutant of Interrupt: the paused task's saved priority is overwritten.   *)
InterruptOverwrites(t, g, p, op, card) ==
    /\ Guarded(t, g, p, op)
    /\ PauseSaved(t) /\ AtSafePoint(t)
    /\ tasks' = [tasks EXCEPT ![t] =
                    [@ EXCEPT !.state = "interrupted", !.hold = "interrupted", !.card = card,
                              !.prio = Paused]]
    /\ park' = [park EXCEPT ![t] = WithSnapshot(ParkedRow(t, op), Computed)]
    /\ UNCHANGED recops
    /\ Unmoved

(* interrupt: the park could not be saved.  A task that had no saved       *)
(* priority is left paused over the computed one.                          *)
Interrupt(t, g, p, op, card) ==
    LET row == ParkedRow(t, op) IN
    /\ Guarded(t, g, p, op)
    /\ PauseSaved(t) /\ AtSafePoint(t)
    /\ tasks' = [tasks EXCEPT ![t] =
                    [@ EXCEPT !.state = "interrupted", !.hold = "interrupted", !.card = card,
                              !.prio = IF HasParkRow(t) THEN tasks[t].prio ELSE Paused]]
    /\ park' = [park EXCEPT ![t] = IF HasParkRow(t) THEN row ELSE WithSnapshot(row, Computed)]
    /\ UNCHANGED recops
    /\ Unmoved

(* mark_park_retry: the marker moves the identity and keeps the hold.      *)
MarkRetry(t, g, p, op) ==
    /\ Guarded(t, g, p, op)
    /\ PauseSaved(t) /\ AtSafePoint(t)
    /\ tasks' = [tasks EXCEPT ![t].hold = IF State(t) = "held" THEN "held" ELSE "held_paused"]
    /\ park' = [park EXCEPT ![t] = Advanced(@, p, FALSE)]
    /\ UNCHANGED recops
    /\ Unmoved
=============================================================================
