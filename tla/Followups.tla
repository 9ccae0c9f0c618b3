----------------------------- MODULE Followups -----------------------------
(***************************************************************************)
(* A chat's follow-ups on one task it started                              *)
(* (src/support/gateway/console/followups.py): an end of the task is       *)
(* looked at, its follow-up waits until the chat is free, gets one turn    *)
(* that may continue the task, and is told.  meta.followup on the task is  *)
(* what a restart knows of it.  The person writes in the chat, stops and   *)
(* continues the task meanwhile; the task's own lock is all that keeps     *)
(* them apart.  The chat's drain is OwnerAsks', reduced to what it means   *)
(* for a follow-up.                                                        *)
(***************************************************************************)
EXTENDS Naturals, Sequences, FiniteSets

VARIABLES
    task,    \* the task: how often it ended, whether it runs, why the last end counts
    chat,    \* whose turn runs in the chat
    person,  \* the person's turns there, and the message on its way
    meta,    \* meta.followup
    lock,    \* who holds the task's lock
    heard,   \* ends heard and not looked at
    looks,   \* the look under way: at which end, and whether it is Ready
    seen,    \* _seen: ends looked at in this process
    waiting, \* _pending, oldest first
    follow,  \* the follow-up that left the queue, and how far it is
    stop,    \* a person's Stop of the started row, and how far it is
    on,      \* [tasks] follow_up
    past     \* what the follow-ups did, over all processes

followVars == <<task, chat, person, meta, lock, heard, looks, seen, waiting, follow, stop, on, past>>

PerMessage == 2  \* FOLLOWUPS_PER_MESSAGE

(* An end is numbered; it stands for finished_at.  A turn of the person's  *)
(* is numbered too, and `ends` says after how many ends it started.        *)
Whys == {"ready", "act", "none"}
Stages == {"none", "queued", "began", "told", "skipped", "stopped"}
Item == [end : Nat, ready : BOOLEAN, may : BOOLEAN, under : Nat,
         stopped : BOOLEAN, continued : BOOLEAN]

(* "skip" and "drop" settle it without a turn, before and after the chat   *)
(* counts as busy with it; at "alone" its turn runs on, but nobody follows *)
(* it any more.                                                            *)
Stations == {"idle", "still", "skip", "ready", "drop", "starting", "again", "turn", "alone", "told"}
BusyWith == Stations \ {"idle", "still", "skip", "alone"}
Underway == Stations \ {"idle", "alone"}

NoItem == [end |-> 0, ready |-> FALSE, may |-> FALSE, under |-> 0,
           stopped |-> FALSE, continued |-> FALSE]
NoFollow == [at |-> "idle", item |-> NoItem, did |-> "none"]
NoLook == [end |-> 0, ready |-> FALSE]
NoStop == [at |-> "idle", again |-> FALSE]
NoMeta == [under |-> 0, count |-> 0, continued |-> FALSE, end |-> 0, stage |-> "none"]

FollowTypeOK ==
    /\ task \in [ends : Nat, open : BOOLEAN, why : Whys]
    /\ chat \in {"none", "person", "follow"}
    /\ person \in [newest : Nat, ends : Nat, coming : BOOLEAN, queued : BOOLEAN]
    /\ meta \in [under : Nat, count : 0..PerMessage, continued : BOOLEAN,
                 end : Nat, stage : Stages]
    /\ lock \in {"nobody", "look", "stop", "continue"}
    /\ heard \in Nat /\ seen \subseteq 1..task.ends
    /\ looks \in [end : Nat, ready : BOOLEAN]
    /\ waiting \in Seq(Item)
    /\ follow \in [at : Stations, item : Item, did : {"none", "skipped", "stopped"}]
    /\ (follow.at \in {"turn", "alone"}) = (chat = "follow")
    /\ stop \in [at : {"idle", "take", "keep", "check", "control"}, again : BOOLEAN]
    /\ on \in BOOLEAN
    /\ past.stopped \subseteq 1..task.ends /\ past.lost \subseteq 1..task.ends

FollowInit ==
    /\ task = [ends |-> 0, open |-> TRUE, why |-> "none"]
    /\ chat = "none"
    /\ person = [newest |-> 1, ends |-> 0, coming |-> FALSE, queued |-> FALSE]
    /\ meta = NoMeta /\ lock = "nobody" /\ heard = 0 /\ looks = NoLook /\ seen = {}
    /\ waiting = <<>> /\ follow = NoFollow /\ stop = NoStop /\ on = TRUE
    /\ past = [began |-> <<>>, continued |-> <<>>, stopped |-> {}, lost |-> {}]

LockFree == lock = "nobody"
Ended(end) == ~task.open /\ task.ends = end /\ end # 0
Wrote(end) == person.ends >= end
FollowAt(at) == follow.at = at
Moves(at) == follow' = [follow EXCEPT !.at = at]
Leaves == follow' = NoFollow
Loses(end) == past' = [past EXCEPT !.lost = @ \cup {end}]

(* _mark: not over another end's record, and not over the person's Stop.   *)
Marked(end, stage) ==
    IF meta.end # end \/ meta.stage = "stopped" THEN meta
    ELSE [meta EXCEPT !.stage = stage]

----------------------------------------------------------------------------
(* The task, the person and the chat's other turns *)

TaskStops(why) ==
    /\ task.open
    /\ task' = [ends |-> task.ends + 1, open |-> FALSE, why |-> why]
    /\ heard' = heard + 1
    /\ UNCHANGED <<chat, person, meta, lock, looks, seen, waiting, follow, stop, on, past>>

PersonContinues ==
    /\ ~task.open
    /\ task' = [task EXCEPT !.open = TRUE]
    /\ UNCHANGED <<chat, person, meta, lock, heard, looks, seen, waiting, follow, stop, on, past>>

SwitchOff ==
    /\ on' = FALSE
    /\ UNCHANGED <<task, chat, person, meta, lock, heard, looks, seen, waiting, follow, stop, past>>

(* A message waits for the follow-up that the chat is busy with (holds).   *)
PersonSends ==
    /\ ~person.coming /\ ~person.queued
    /\ person' = IF follow.at \in BusyWith THEN [person EXCEPT !.queued = TRUE]
                                           ELSE [person EXCEPT !.coming = TRUE]
    /\ UNCHANGED <<task, chat, meta, lock, heard, looks, seen, waiting, follow, stop, on, past>>

PersonTurn ==
    /\ chat' = "person"
    /\ person' = [newest |-> person.newest + 1, ends |-> task.ends,
                  coming |-> FALSE, queued |-> FALSE]
    /\ UNCHANGED <<task, meta, lock, heard, looks, seen, waiting, follow, stop, on, past>>

PersonBegins == person.coming /\ chat = "none" /\ PersonTurn
SendsQueued == person.queued /\ FollowAt("idle") /\ chat = "none" /\ PersonTurn

PersonRefused ==
    /\ person.coming /\ chat # "none"
    /\ person' = [person EXCEPT !.coming = FALSE]
    /\ UNCHANGED <<task, chat, meta, lock, heard, looks, seen, waiting, follow, stop, on, past>>

PersonTurnEnds ==
    /\ chat = "person"
    /\ chat' = "none"
    /\ UNCHANGED <<task, person, meta, lock, heard, looks, seen, waiting, follow, stop, on, past>>

----------------------------------------------------------------------------
(* An end is looked at *)

Look ==
    /\ heard > 0 /\ LockFree
    /\ heard' = heard - 1
    /\ IF /\ on /\ ~task.open /\ task.why # "none"
          /\ task.ends \notin seen /\ meta.end # task.ends
       THEN /\ seen' = seen \cup {task.ends} /\ lock' = "look"
            /\ looks' = [end |-> task.ends, ready |-> task.why = "ready"]
       ELSE UNCHANGED <<looks, seen, lock>>
    /\ UNCHANGED <<task, chat, person, meta, waiting, follow, stop, on, past>>

Same == meta.under = person.newest
Count == IF Same THEN meta.count ELSE 0
Continued == Same /\ meta.continued

(* The task may run on meanwhile, and the person's newest turn is read now. *)
QueueFollowUp ==
    /\ lock = "look" /\ lock' = "nobody" /\ looks' = NoLook
    /\ IF Count >= PerMessage /\ ~looks.ready THEN UNCHANGED <<meta, waiting>>
       ELSE /\ meta' = [under |-> person.newest, continued |-> Continued,
                        count |-> IF looks.ready THEN Count ELSE Count + 1,
                        end |-> looks.end, stage |-> "queued"]
            /\ waiting' = Append(waiting,
                  [NoItem EXCEPT !.end = looks.end, !.ready = looks.ready,
                                 !.may = ~Continued /\ ~looks.ready,
                                 !.under = person.newest])
    /\ UNCHANGED <<task, chat, person, heard, seen, follow, stop, on, past>>

(* restore: a follow-up that waited runs now, one that began never again.  *)
Unsettled == meta.stage \in {"queued", "began"} /\ Ended(meta.end)
GoesOnAnyway == ~Wrote(meta.end) /\ on
GoesOn == meta.stage = "queued" /\ ~Wrote(meta.end) /\ on

(* The gateway goes down and opens the store again; what then settles a    *)
(* follow-up may fail to be written.                                       *)
Restart(written) ==
    /\ seen' = IF Unsettled THEN {meta.end} ELSE {}
    /\ IF Unsettled /\ ~GoesOn
       THEN IF written
            THEN /\ meta' = [meta EXCEPT !.stage = "skipped"]
                 /\ past' = [past EXCEPT !.lost = {}]
            ELSE past' = [past EXCEPT !.lost = {meta.end}] /\ UNCHANGED meta
       ELSE written /\ past' = [past EXCEPT !.lost = {}] /\ UNCHANGED meta
    /\ waiting' = IF Unsettled /\ GoesOn
                  THEN <<[NoItem EXCEPT !.end = meta.end, !.ready = task.why = "ready",
                                        !.may = ~Continued /\ task.why # "ready",
                                        !.under = meta.under]>>
                  ELSE <<>>
    /\ chat' = "none" /\ lock' = "nobody" /\ heard' = 0 /\ looks' = NoLook
    /\ follow' = NoFollow /\ stop' = NoStop
    /\ person' = [person EXCEPT !.coming = FALSE]
    /\ UNCHANGED <<task, on>>

(* What a look would queue cannot be written: this process does not look   *)
(* at the end again.                                                       *)
LookFails ==
    /\ lock = "look" /\ lock' = "nobody" /\ looks' = NoLook
    /\ UNCHANGED <<task, chat, person, meta, heard, seen, waiting, follow, stop, on, past>>

----------------------------------------------------------------------------
(* The drain runs the oldest follow-up, once the chat is free *)

RunNext ==
    /\ FollowAt("idle") /\ chat = "none" /\ ~person.queued /\ waiting # <<>>
    /\ waiting' = Tail(waiting)
    /\ follow' = [at |-> "still", item |-> Head(waiting), did |-> "none"]
    /\ UNCHANGED <<task, chat, person, meta, lock, heard, looks, seen, stop, on, past>>

Settles(at, did) == follow' = [follow EXCEPT !.at = at, !.did = did]

Still ==
    /\ FollowAt("still")
    /\ IF follow.item.stopped THEN Settles("skip", "stopped")
       ELSE IF ~on THEN Settles("skip", "skipped")
       ELSE IF ~Ended(follow.item.end) THEN Leaves
       ELSE IF Wrote(follow.item.end) THEN Settles("skip", "skipped")
       ELSE Moves("ready")
    /\ UNCHANGED <<task, chat, person, meta, lock, heard, looks, seen, waiting, stop, on, past>>

(* Kept before the turn begins, so that a restart never runs it twice.     *)
MarkBegan ==
    /\ FollowAt("ready") /\ LockFree
    /\ meta' = Marked(follow.item.end, "began")
    /\ IF follow.item.stopped THEN Settles("drop", "stopped") ELSE Moves("starting")
    /\ UNCHANGED <<task, chat, person, lock, heard, looks, seen, waiting, stop, on, past>>

StartsTurn ==
    /\ FollowAt("starting") /\ chat = "none"
    /\ chat' = "follow" /\ Moves("turn")
    /\ past' = [past EXCEPT !.began = Append(@, follow.item)]
    /\ UNCHANGED <<task, person, meta, lock, heard, looks, seen, waiting, stop, on>>

StartBusy ==
    /\ FollowAt("starting") /\ chat = "person"
    /\ Moves("again")
    /\ UNCHANGED <<task, chat, person, meta, lock, heard, looks, seen, waiting, stop, on, past>>

StartFails ==
    /\ FollowAt("starting") /\ chat = "none"
    /\ Settles("drop", "skipped")
    /\ UNCHANGED <<task, chat, person, meta, lock, heard, looks, seen, waiting, stop, on, past>>

MarkQueuedLost ==
    /\ FollowAt("again") /\ LockFree
    /\ meta' = Marked(follow.item.end, "queued")
    /\ Leaves
    /\ UNCHANGED <<task, chat, person, lock, heard, looks, seen, waiting, stop, on, past>>

MarkQueued ==
    /\ FollowAt("again") /\ LockFree
    /\ meta' = Marked(follow.item.end, "queued")
    /\ waiting' = <<follow.item>> \o waiting
    /\ Leaves
    /\ UNCHANGED <<task, chat, person, lock, heard, looks, seen, stop, on, past>>

Settle ==
    /\ follow.at \in {"skip", "drop"} /\ LockFree
    /\ meta' = Marked(follow.item.end, follow.did)
    /\ Leaves
    /\ UNCHANGED <<task, chat, person, lock, heard, looks, seen, waiting, stop, on, past>>

(* task_continue: refused, or written on the task before the note goes.    *)
MayContinue ==
    /\ follow.item.may /\ ~follow.item.continued /\ ~follow.item.stopped
    /\ Ended(follow.item.end)
    /\ meta.stage # "stopped" /\ ~meta.continued

ContinueTask ==
    /\ follow.at \in {"turn", "alone"} /\ LockFree /\ MayContinue
    /\ lock' = "continue"
    /\ meta' = [meta EXCEPT !.continued = TRUE]
    /\ UNCHANGED <<task, chat, person, heard, looks, seen, waiting, follow, stop, on, past>>

NoteGoes ==
    /\ task' = [task EXCEPT !.open = TRUE]
    /\ past' = [past EXCEPT !.continued = Append(@, follow.item)]

NoteSent ==
    /\ lock = "continue" /\ lock' = "nobody"
    /\ NoteGoes
    /\ follow' = [follow EXCEPT !.item.continued = TRUE]
    /\ UNCHANGED <<chat, person, meta, heard, looks, seen, waiting, stop, on>>

NoteFails ==
    /\ lock = "continue" /\ lock' = "nobody"
    /\ meta' = [meta EXCEPT !.continued = FALSE]
    /\ UNCHANGED <<task, chat, person, heard, looks, seen, waiting, follow, stop, on, past>>

Told == IF FollowAt("alone") THEN Leaves ELSE Moves("told")

TurnEnds ==
    /\ follow.at \in {"turn", "alone"} /\ lock # "continue"
    /\ chat' = "none" /\ Told
    /\ UNCHANGED <<task, person, meta, lock, heard, looks, seen, waiting, stop, on, past>>

(* The turn is stopped, or too long, while the note is on its way.         *)
TurnCut ==
    /\ lock = "continue" /\ lock' = "nobody"
    /\ chat' = "none" /\ Told
    /\ NoteGoes \/ UNCHANGED <<task, past>>
    /\ UNCHANGED <<person, meta, heard, looks, seen, waiting, stop, on>>

MarkTold ==
    /\ FollowAt("told") /\ LockFree
    /\ meta' = Marked(follow.item.end, "told")
    /\ Leaves
    /\ UNCHANGED <<task, chat, person, lock, heard, looks, seen, waiting, stop, on, past>>

(* A read or a write fails while the follow-up is out of its queue: the    *)
(* drain goes on without it, and what meta says of it stays.               *)
ItemLost ==
    /\ \/ follow.at \in {"still", "ready"}
       \/ follow.at \in {"skip", "drop", "again", "told"} /\ LockFree
    /\ Leaves /\ Loses(follow.item.end)
    /\ UNCHANGED <<task, chat, person, meta, lock, heard, looks, seen, waiting, stop, on>>

(* The row of the turn that began cannot be written: the turn runs on, and *)
(* a task_continue that waits for the lock, but no Stop finds it.          *)
RowFails ==
    /\ FollowAt("turn") /\ Moves("alone") /\ Loses(follow.item.end)
    /\ UNCHANGED <<task, chat, person, meta, lock, heard, looks, seen, waiting, stop, on>>

(* The note fails, or what takes its mark back: the mark stays.            *)
NoteLost ==
    /\ lock = "continue" /\ lock' = "nobody"
    /\ NoteGoes \/ UNCHANGED <<task, past>>
    /\ UNCHANGED <<chat, person, meta, heard, looks, seen, waiting, follow, stop, on>>

----------------------------------------------------------------------------
(* The person's Stop of the started row (Front._stop_started) *)

StopRunning ==
    follow' = IF follow.at \in Underway THEN [follow EXCEPT !.item.stopped = TRUE] ELSE follow

StopBegins ==
    /\ stop.at = "idle"
    /\ StopRunning
    /\ stop' = [at |-> "take", again |-> FALSE]
    /\ UNCHANGED <<task, chat, person, meta, lock, heard, looks, seen, waiting, on, past>>

StopTakes ==
    /\ stop.at = "take" /\ LockFree /\ lock' = "stop"
    /\ waiting' = <<>> /\ StopRunning
    /\ stop' = [stop EXCEPT !.at = "keep"]
    /\ UNCHANGED <<task, chat, person, meta, heard, looks, seen, on, past>>

KeptStopOfEnd == Marked(task.ends, "stopped")
KeptStop == [meta EXCEPT !.end = task.ends, !.stage = "stopped"]

StopKeeps ==
    /\ stop.at = "keep" /\ lock' = "nobody"
    /\ IF Ended(task.ends)
       THEN /\ meta' = KeptStop
            /\ past' = [past EXCEPT !.stopped = @ \cup {task.ends}]
       ELSE UNCHANGED <<meta, past>>
    /\ stop' = IF stop.again THEN NoStop ELSE [stop EXCEPT !.at = "check"]
    /\ UNCHANGED <<task, chat, person, heard, looks, seen, waiting, follow, on>>

(* The Stop cannot be kept: the request fails, and the queue is empty.     *)
StopFails ==
    /\ stop.at = "keep" /\ lock' = "nobody"
    /\ Ended(task.ends) /\ Loses(task.ends)
    /\ stop' = NoStop
    /\ UNCHANGED <<task, chat, person, meta, heard, looks, seen, waiting, follow, on>>

StopChecks ==
    /\ stop.at = "check"
    /\ stop' = IF task.open THEN [stop EXCEPT !.at = "control"] ELSE NoStop
    /\ UNCHANGED <<task, chat, person, meta, lock, heard, looks, seen, waiting, follow, on, past>>

(* The task is cancelled, an end that no chat follows; or it ended as the  *)
(* Stop came.                                                              *)
StopControls ==
    /\ stop.at = "control"
    /\ IF task.open
       THEN /\ task' = [ends |-> task.ends + 1, open |-> FALSE, why |-> "none"]
            /\ stop' = NoStop /\ UNCHANGED follow
       ELSE /\ stop' = [at |-> "take", again |-> TRUE]
            /\ StopRunning /\ UNCHANGED task
    /\ UNCHANGED <<chat, person, meta, lock, heard, looks, seen, waiting, on, past>>

----------------------------------------------------------------------------
FollowSteps ==
    \/ SendsQueued \/ PersonBegins \/ PersonRefused \/ PersonTurnEnds
    \/ Look \/ QueueFollowUp \/ RunNext \/ Still \/ MarkBegan
    \/ StartsTurn \/ StartBusy \/ MarkQueued \/ Settle
    \/ NoteSent \/ TurnEnds \/ MarkTold
    \/ StopTakes \/ StopKeeps \/ StopChecks \/ StopControls

FollowChoices == ContinueTask \/ NoteFails \/ TurnCut \/ StartFails

FollowActs == PersonSends \/ PersonContinues \/ SwitchOff \/ StopBegins \/ Restart(TRUE)

(* What the disk refuses.                                                  *)
FollowFaults == LookFails \/ ItemLost \/ RowFails \/ NoteLost \/ StopFails \/ Restart(FALSE)

FollowNext ==
    FollowSteps \/ FollowChoices \/ FollowActs \/ FollowFaults \/ \E why \in Whys : TaskStops(why)
FollowSpec == FollowInit /\ [][FollowNext]_followVars /\ WF_followVars(FollowSteps)

----------------------------------------------------------------------------
(* docs/guides/web-console.md: "once per ending, at most one continue per  *)
(* message of yours", and at most two follow-ups beside the Ready ones,    *)
(* "One whose turn had begun never runs twice": over all restarts, busy    *)
(* chats and Stops.  (_consider_locked, restore, _mark, continue_task)     *)
FollowedOnce ==
    LET Began == DOMAIN past.began
        Counted(turn) == {n \in Began : ~past.began[n].ready /\ past.began[n].under = turn}
    IN  /\ \A n, other \in Began : past.began[n].end = past.began[other].end => n = other
        /\ \A n \in Began : Cardinality(Counted(past.began[n].under)) <= PerMessage
        /\ \A n, other \in DOMAIN past.continued :
               past.continued[n].under = past.continued[other].under => n = other

(* "Stop then ends the follow-up too, waiting or running, so it never      *)
(* continues the task": from the moment the Stop is kept for an end, no    *)
(* follow-up of it waits, continues the task or runs unstopped, whatever   *)
(* was being looked at, started or put back in the queue, and a restart    *)
(* has none to bring back.  (stop, _mark, continue_task, restore)          *)
StopHolds ==
    \A end \in past.stopped :
        /\ meta.end = end => meta.stage = "stopped"
        /\ follow.item.end = end =>
              lock # "continue" /\ (follow.at \in Underway => follow.item.stopped)
        /\ \A n \in DOMAIN waiting : waiting[n].end = end => waiting[n].stopped

(* A follow-up that was promised comes to an end: its turn is told, it is  *)
(* skipped or stopped, or the task went on.  Only what the disk refuses    *)
(* may keep the started row its Stop, and then the next restart finds the  *)
(* follow-up again and it ends.  (run_next, _still, _mark, restore)        *)
Lost == meta.end \in past.lost
FollowUpEnds == (Unsettled /\ ~Lost) ~> (~Unsettled \/ Lost)
=============================================================================
