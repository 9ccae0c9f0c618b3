--------------------------- MODULE RecoveryStore ---------------------------
(***************************************************************************)
(* Launch fences, recovery intents and tool capture: the transactions of   *)
(* src/support/gateway/recovery_store.py.                                  *)
(***************************************************************************)
EXTENDS SchedulerTables

Started(t, e, row) ==
    [task |-> t, kind |-> "start", phase |-> "committed", gen |-> row.gen,
     pend |-> row.op, state |-> "running", exec |-> e, outcome |-> "running",
     crash |-> FALSE, unsafe |-> FALSE, card |-> FALSE]

(* start: the launch fence.  A first launch (prior = NoExec) needs the     *)
(* proof that nothing ran; a later one the last execution, reviewed.       *)
Start(t, g, p, e, prior, captures) ==
    LET row == Advanced(park[t], p, TRUE)
        proved == prov[t]
    IN
    /\ State(t) = "queued" /\ tasks[t].prio.level < 5
    /\ Prepared(t) = {}
    /\ IF prior = NoExec
       THEN proved.first = "never_started"
       ELSE /\ proved.first \in {"started", "unknown"}
            /\ proved.exec = prior /\ e # prior
            /\ ~proved.unsafe
            /\ tasks[t].card
    /\ ~park[t].pending
    /\ \A r \in recops : ~(r.task = t /\ r.kind = "start" /\ r.exec = e)
    /\ Matches(t, g, p)
    /\ park' = [park EXCEPT ![t] = row]
    /\ capture' = [capture EXCEPT ![t] =
                      IF captures THEN [exec |-> e, complete |-> TRUE] ELSE NoCapture]
    /\ prov' = [prov EXCEPT ![t] = [first |-> "started", exec |-> e, unsafe |-> TRUE]]
    /\ tasks' = [tasks EXCEPT ![t].state = "running"]
    /\ recops' = recops \cup {Started(t, e, row)}
    /\ UNCHANGED <<crashed, usedOps, turns, resumeTurn>>

(* prepare: persist the intent to settle a task as `outcome`.              *)
Prepare(t, g, p, e, outcome, card, crash, unsafe) ==
    LET row == Advanced(park[t], p, TRUE)
        proved == prov[t].first = "never_started"
    IN
    /\ outcome \in {"interrupted", "queued"} \cup Terminal
    /\ crash => unsafe
    /\ Prepared(t) = {}
    /\ Live(t)
    /\ prov[t].exec \in {NoExec, e}
    /\ outcome \in Terminal \/ unsafe \/ proved
    /\ outcome = "queued" => State(t) = "queued" /\ proved /\ ~crash /\ ~unsafe
    /\ Matches(t, g, p)
    /\ park' = [park EXCEPT ![t] = row]
    /\ recops' = recops \cup
          {[task |-> t, kind |-> "recovery", phase |-> "prepared", gen |-> row.gen,
            pend |-> row.op, state |-> State(t), exec |-> e, outcome |-> outcome,
            crash |-> crash, unsafe |-> unsafe, card |-> card]}
    /\ UNCHANGED <<tasks, prov, capture, crashed, usedOps, turns, resumeTurn>>

(* Mutant of Crashes: recovery counts a crash whenever it finds one.       *)
EveryCrash(r) == IF r.crash THEN tasks[r.task].crashes + 1 ELSE tasks[r.task].crashes

(* The crash counts once for each execution. *)
Crashes(r) ==
    IF r.crash /\ <<r.task, r.exec>> \notin crashed
    THEN tasks[r.task].crashes + 1 ELSE tasks[r.task].crashes

(* Mutant of Commit: it trusts what prepare saw.                           *)
CommitUnguarded(r) ==
    LET t == r.task
        row == Advanced(park[t], r.pend, TRUE)
    IN
    /\ r \in Prepared(t)
    /\ park' = [park EXCEPT ![t] = row]
    /\ tasks' = [tasks EXCEPT ![t] = [@ EXCEPT !.state = r.outcome, !.card = r.card,
                                               !.hold = "none", !.crashes = Crashes(r)]]
    /\ crashed' = IF r.crash THEN crashed \cup {<<t, r.exec>>} ELSE crashed
    /\ prov' = [prov EXCEPT ![t].exec = r.exec, ![t].unsafe = r.unsafe]
    /\ recops' = (recops \ {r}) \cup
          {[r EXCEPT !.phase = "committed", !.gen = row.gen, !.state = r.outcome]}
    /\ UNCHANGED <<capture, usedOps, turns, resumeTurn>>

(* commit: the outcome, the receipt and the crash count together.          *)
Commit(r) ==
    LET t == r.task
        terminal == r.outcome \in Terminal
        pend == IF terminal THEN NoOp ELSE r.pend
        row == Advanced(park[t], pend, TRUE)
    IN
    /\ r \in Prepared(t)
    /\ Live(t)
    /\ Matches(t, r.gen, r.pend)
    /\ park' = [park EXCEPT ![t] = IF terminal THEN NoSnapshot(row) ELSE row]
    /\ tasks' = [tasks EXCEPT ![t] = [@ EXCEPT !.state = r.outcome, !.card = r.card,
                                               !.hold = "none", !.crashes = Crashes(r)]]
    /\ crashed' = IF r.crash THEN crashed \cup {<<t, r.exec>>} ELSE crashed
    /\ prov' = [prov EXCEPT ![t] = Upserted(@, "unknown", r.exec, r.unsafe)]
    /\ recops' = (recops \ {r}) \cup
          {[r EXCEPT !.phase = "committed", !.gen = row.gen, !.pend = pend, !.state = r.outcome]}
    /\ UNCHANGED <<capture, usedOps, turns, resumeTurn>>

(* supersede: retire an intent that the task's identity has left behind.   *)
Supersede(r, g, p) ==
    LET t == r.task IN
    /\ r \in Prepared(t)
    /\ Matches(t, g, p)
    /\ Matches(t, r.gen, r.pend) => State(t) \in Terminal
    /\ recops' = (recops \ {r}) \cup {[r EXCEPT !.phase = "superseded"]}
    /\ UNCHANGED <<tasks, park, prov, capture, crashed, usedOps, turns, resumeTurn>>

(* _capture_change and record_captured_process: under the running          *)
(* execution's active capture the identity advances and the start receipt  *)
(* follows it.                                                             *)
CaptureStep(t, g, p, e) ==
    LET row == Advanced(park[t], p, TRUE) IN
    /\ State(t) = "running"
    /\ capture[t].exec = e
    /\ Prepared(t) = {}
    /\ Matches(t, g, p)
    /\ park' = [park EXCEPT ![t] = row]
    /\ recops' = Carried(t, row, "running", e)

(* mark_capture_incomplete: before a call that is not captured; for good.  *)
MarkIncomplete(t, g, p, e) ==
    /\ e # NoExec
    /\ CaptureStep(t, g, p, e)
    /\ capture' = [capture EXCEPT ![t].complete = FALSE]
    /\ UNCHANGED <<tasks, prov, crashed, usedOps, turns, resumeTurn>>

(* record_captured_process: the process row itself is not kept here.       *)
RecordProcess(t, g, p, e) ==
    /\ e # NoExec
    /\ CaptureStep(t, g, p, e)
    /\ UNCHANGED <<tasks, prov, capture, crashed, usedOps, turns, resumeTurn>>
=============================================================================
