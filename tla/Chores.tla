------------------------------- MODULE Chores -------------------------------
(***************************************************************************)
(* One chore: its row (src/support/gateway/chore_store.py), and who starts *)
(* its runs, links them to the row and removes its folder                  *)
(* (src/support/gateway/console/chores.py): the timer, a person's Run now, *)
(* the chat whose message saves it, a delete.  Each of them holds the      *)
(* chore's guard; edits of the row, the runs themselves and the clock do   *)
(* not.  A chore saved by a message has the message's id, so the same      *)
(* message may save it again after a delete.                               *)
(***************************************************************************)
EXTENDS Naturals, Sequences

CONSTANT MaxRuns  \* the runs that are followed: a start behind them is refused

ASSUME RunsAssumption == MaxRuns \in Nat

VARIABLES
    now,     \* the clock, in beats
    row,     \* the chore's row
    lives,   \* how many rows there were
    runs,    \* the tasks started for it, in the order they were created
    folder,  \* whether the folder its runs share is there
    leaving, \* _leaving: runs of the deleted chore that still need the folder
    timer,   \* the tick
    guard    \* who holds the chore's guard, and how far it is

choreVars == <<now, row, lives, runs, folder, leaving, timer, guard>>

(* next is 0 with no next run, last is 0 with no last run; text stands for *)
(* what a run is told and whose it is; life numbers the chore's rows.      *)
Row == [life : Nat, revision : Nat, enabled : BOOLEAN, once : BOOLEAN,
        next : Nat, last : Nat, text : Nat]
NoRow == [life |-> 0, revision |-> 0, enabled |-> FALSE, once |-> FALSE,
          next |-> 0, last |-> 0, text |-> 0]

(* linked: the row came to name the run as its last, and nobody but a      *)
(* reminder or a chat that saved it once more has named another since.     *)
Run == [by : {"slot", "now", "message"}, slot : Nat, text : Nat, life : Nat,
        open : BOOLEAN, inFolder : BOOLEAN, linked : BOOLEAN]

(* at: "due" waits for the guard with the tick's time in `time`; "retire"  *)
(* goes through the runs in `left`, and "remove" waits for the guard.      *)
Timer == [at : {"idle", "due", "retire", "remove"}, time : Nat, left : SUBSET (1..MaxRuns)]
Guard == [who : {"nobody", "timer", "now", "chat", "delete"},
          at : {"free", "holds", "stopping", "start", "pass", "read", "link",
                "begin", "folder"},
          seen : Row, run : Nat]

Idle == [at |-> "idle", time |-> 0, left |-> {}]
NoGuard == [who |-> "nobody", at |-> "free", seen |-> NoRow, run |-> 0]

ChoreTypeOK ==
    /\ now \in Nat /\ lives \in Nat
    /\ row \in Row /\ row.last \in {0} \cup DOMAIN runs
    /\ runs \in Seq(Run)
    /\ folder \in BOOLEAN
    /\ leaving \subseteq DOMAIN runs
    /\ timer \in Timer
    /\ guard \in Guard

ChoreInit ==
    /\ now = 0 /\ row = NoRow /\ lives = 0 /\ runs = <<>> /\ folder = FALSE
    /\ leaving = {} /\ timer = Idle /\ guard = NoGuard

Saved == row # NoRow
StillOpen(r) == r \in DOMAIN runs /\ runs[r].open
Plan(after) == after + 1
Due(time) == row.enabled /\ row.next # 0 /\ row.next <= time

CanRun == Len(runs) < MaxRuns

Held(who, at) == guard.who = who /\ guard.at = at
FreeGuard == guard.who = "nobody"
Hold(who, at, seen, run) ==
    guard' = [who |-> who, at |-> at, seen |-> seen, run |-> run]
GoOn(at, run) == guard' = [guard EXCEPT !.at = at, !.run = run]
Release == guard' = NoGuard

(* advance(): only if the row is still at the revision that was read.      *)
Current == Saved /\ row.revision = guard.seen.revision
Advanced(next, last, enabled) ==
    [row EXCEPT !.next = next, !.last = last, !.enabled = enabled,
                !.revision = @ + 1]
Linked(run, displaces) ==
    [r \in DOMAIN runs |->
        [runs[r] EXCEPT !.linked = (r = run) \/ (@ /\ ~(displaces /\ r = row.last))]]

NewRun(by, slot, text, inFolder) ==
    [by |-> by, slot |-> slot, text |-> text, life |-> row.life,
     open |-> TRUE, inFolder |-> inFolder, linked |-> FALSE]

----------------------------------------------------------------------------
(* The world: the clock, the runs, edits of the row, a crash *)

Beat == now' = now + 1 /\ UNCHANGED <<row, lives, runs, folder, leaving, timer, guard>>

TaskEnds(r) ==
    /\ StillOpen(r)
    /\ runs' = [runs EXCEPT ![r].open = FALSE]
    /\ UNCHANGED <<now, row, lives, folder, leaving, timer, guard>>

(* update(): no guard.  What a run is told, the schedule and the switch    *)
(* change; a new time or a switch back on plans from now.  A one-time      *)
(* chore is switched back on by giving its time.                           *)
Edit ==
    /\ Saved
    /\ \E text \in {row.text, row.text + 1}, timed, once, enabled \in BOOLEAN :
          /\ once # row.once => timed /\ text # row.text
          /\ once /\ enabled /\ ~row.enabled => timed
          /\ row' = [row EXCEPT
                !.text = text, !.once = once, !.enabled = enabled,
                !.next = IF ~enabled THEN 0
                         ELSE IF timed \/ ~row.enabled \/ row.next = 0 THEN Plan(now)
                         ELSE @,
                !.revision = @ + 1]
    /\ UNCHANGED <<now, lives, runs, folder, leaving, timer, guard>>

(* rehome(): the chore of a deleted chat becomes the main chat's, at the   *)
(* same revision.                                                          *)
Rehome ==
    /\ Saved
    /\ row' = [row EXCEPT !.text = @ + 1]
    /\ UNCHANGED <<now, lives, runs, folder, leaving, timer, guard>>

CrashGateway ==
    /\ leaving' = {} /\ timer' = Idle /\ Release
    /\ UNCHANGED <<now, row, lives, runs, folder>>

----------------------------------------------------------------------------
(* The timer *)

Retiring == [timer EXCEPT !.at = "retire", !.left = leaving]

Tick ==
    /\ timer.at = "idle"
    /\ timer' = IF Saved /\ Due(now) THEN [timer EXCEPT !.at = "due", !.time = now]
                ELSE Retiring
    /\ UNCHANGED <<now, row, lives, runs, folder, leaving, guard>>

(* _run_due: under the guard the row is read again. *)
TimerEnters ==
    /\ timer.at = "due" /\ FreeGuard
    /\ IF Saved /\ Due(timer.time)
       THEN Hold("timer", IF row.once THEN "start" ELSE "holds", row, 0) /\ UNCHANGED timer
       ELSE timer' = Retiring /\ UNCHANGED guard
    /\ UNCHANGED <<now, row, lives, runs, folder, leaving>>

TimerLeaves == Release /\ timer' = Retiring
TimerAborts == Release /\ timer' = Idle

(* _holds: an open last run holds the slot, unless it has waited on the     *)
(* person for too long.                                                    *)
TimerHolds ==
    /\ Held("timer", "holds")
    /\ \E at \in IF StillOpen(guard.seen.last) THEN {"pass", "stopping"} ELSE {"start"} :
          GoOn(at, 0)
    /\ UNCHANGED <<now, row, lives, runs, folder, leaving, timer>>

(* _end: stops it, and leaves the slot alone when it has not ended in time. *)
TimerStops ==
    /\ Held("timer", "stopping")
    /\ \/ /\ runs' = [runs EXCEPT ![guard.seen.last].open = FALSE]
          /\ GoOn("start", 0)
       \/ StillOpen(guard.seen.last) /\ GoOn("pass", 0) /\ UNCHANGED runs
    /\ UNCHANGED <<now, row, lives, folder, leaving, timer>>

Slot == guard.seen.next
OfSlot(slot, text) ==
    {r \in DOMAIN runs : runs[r].by = "slot" /\ runs[r].slot = slot /\ runs[r].text = text}
SlotUsedAsTold == OfSlot(Slot, guard.seen.text) # {}
SlotUsed == \E r \in DOMAIN runs : runs[r].by = "slot" /\ runs[r].slot = Slot

(* A reminder's run has a folder of its own. *)
Folders == IF guard.seen.once THEN BOOLEAN ELSE {TRUE}

(* The slot's key finds a run that an earlier try started; another request *)
(* under that key is refused, and so is a folder that cannot be used.      *)
TimerStarts ==
    /\ Held("timer", "start")
    /\ \E inFolder \in Folders :
          /\ folder' = (folder \/ inFolder)
          /\ \/ /\ SlotUsed
                /\ IF OfSlot(Slot, guard.seen.text) # {}
                   THEN \E r \in OfSlot(Slot, guard.seen.text) : GoOn("link", r)
                   ELSE GoOn("pass", 0)
                /\ UNCHANGED runs
             \/ /\ ~SlotUsed /\ CanRun
                /\ runs' = Append(runs, NewRun("slot", Slot, guard.seen.text, inFolder))
                /\ GoOn("link", Len(runs) + 1)
    /\ UNCHANGED <<now, row, lives, leaving, timer>>

TimerRefused ==
    /\ Held("timer", "start")
    /\ GoOn("pass", 0)
    /\ UNCHANGED <<now, row, lives, runs, folder, leaving, timer>>

(* The store failed, before or behind the commit: tried again next tick. *)
TimerStartFails ==
    /\ Held("timer", "start")
    /\ \E inFolder \in Folders :
          /\ folder' = (folder \/ inFolder)
          /\ \/ UNCHANGED runs
             \/ /\ ~SlotUsed /\ CanRun
                /\ runs' = Append(runs, NewRun("slot", Slot, guard.seen.text, inFolder))
    /\ TimerLeaves
    /\ UNCHANGED <<now, row, lives, leaving>>

AfterSameSlot(last) == [row EXCEPT !.last = last]

(* advance(), whose refusal nobody looks at: an open run of a repeating    *)
(* chore that holds the slot leaves the switch as it is.                   *)
After(last) == Advanced(IF guard.seen.once THEN 0 ELSE Plan(timer.time), last,
                        row.enabled /\ ~guard.seen.once)

TimerPasses ==
    /\ Held("timer", "pass")
    /\ row' = IF Current THEN After(row.last) ELSE row
    /\ TimerLeaves
    /\ UNCHANGED <<now, lives, runs, folder, leaving>>

TimerLinks ==
    /\ Held("timer", "link")
    /\ IF Current
       THEN row' = After(guard.run) /\ runs' = Linked(guard.run, guard.seen.once)
       ELSE UNCHANGED <<row, runs>>
    /\ TimerLeaves
    /\ UNCHANGED <<now, lives, folder, leaving>>

(* The write of the row fails: the tick ends there. *)
TimerWriteFails ==
    /\ guard.who = "timer" /\ guard.at \in {"pass", "link"}
    /\ TimerAborts
    /\ UNCHANGED <<now, row, lives, runs, folder, leaving>>

RetireKeeping(r) ==
    /\ timer.at = "retire" /\ r \in timer.left
    /\ timer' = [timer EXCEPT !.at = IF StillOpen(r) THEN @ ELSE "remove",
                             !.left = @ \ {r}]
    /\ UNCHANGED <<now, row, lives, runs, folder, leaving, guard>>

(* _retire: one of the deleted chore's runs has ended. *)
Retire(r) ==
    /\ timer.at = "retire" /\ r \in timer.left
    /\ IF r \in leaving /\ ~StillOpen(r)
       THEN /\ leaving' = leaving \ {r}
            /\ timer' = [timer EXCEPT !.at = "remove", !.left = @ \ {r}]
       ELSE timer' = [timer EXCEPT !.left = @ \ {r}] /\ UNCHANGED leaving
    /\ UNCHANGED <<now, row, lives, runs, folder, guard>>

RemoveAnyway ==
    /\ timer.at = "remove" /\ FreeGuard
    /\ folder' = FALSE /\ timer' = [timer EXCEPT !.at = "retire"]
    /\ UNCHANGED <<now, row, lives, runs, leaving, guard>>

(* A chore saved again meanwhile keeps the folder.  A folder that cannot   *)
(* be removed is told, and stays.                                          *)
RemoveRetired ==
    /\ timer.at = "remove" /\ FreeGuard
    /\ folder' \in IF Saved THEN {folder} ELSE {FALSE, folder}
    /\ timer' = [timer EXCEPT !.at = "retire"]
    /\ UNCHANGED <<now, row, lives, runs, leaving, guard>>

TickEnds ==
    /\ timer.at = "retire" /\ timer.left = {}
    /\ timer' = Idle
    /\ UNCHANGED <<now, row, lives, runs, folder, leaving, guard>>

----------------------------------------------------------------------------
(* Run now, and the chat *)

RunNowAgain ==
    /\ FreeGuard /\ Saved
    /\ Hold("now", "start", row, 0)
    /\ UNCHANGED <<now, row, lives, runs, folder, leaving, timer>>

(* run_now: refused while the chore's last run is open. *)
RunNow ==
    /\ FreeGuard /\ Saved /\ ~StillOpen(row.last)
    /\ Hold("now", "start", row, 0)
    /\ UNCHANGED <<now, row, lives, runs, folder, leaving, timer>>

NowStarts ==
    /\ Held("now", "start") /\ CanRun
    /\ \E inFolder \in Folders :
          /\ folder' = (folder \/ inFolder)
          /\ runs' = Append(runs, NewRun("now", 0, guard.seen.text, inFolder))
    /\ GoOn("read", Len(runs) + 1)
    /\ UNCHANGED <<now, row, lives, leaving, timer>>

(* Run now and a chat read the row once more before they link their run. *)
ReadsAgain ==
    /\ guard.at = "read"
    /\ Hold(guard.who, "link", row, guard.run)
    /\ UNCHANGED <<now, row, lives, runs, folder, leaving, timer>>

LinksRun ==
    /\ guard.who \in {"now", "chat"} /\ guard.at = "link"
    /\ IF Current
       THEN /\ row' = Advanced(row.next, guard.run, row.enabled)
            /\ runs' = Linked(guard.run, guard.who = "chat")
       ELSE UNCHANGED <<row, runs>>
    /\ Release
    /\ UNCHANGED <<now, lives, folder, leaving, timer>>

(* A start that is refused or fails, or a link that cannot be written. *)
GivesUp ==
    /\ guard.who \in {"now", "chat"} /\ guard.at \in {"start", "begin", "link"}
    /\ Release
    /\ UNCHANGED <<now, row, lives, runs, folder, leaving, timer>>

OfMessage == {r \in DOMAIN runs : runs[r].by = "message"}

(* save_chore under the message's receipt: the row that is there, or a new *)
(* one.  The run its message started already is linked; else the message   *)
(* may ask for its first run now.                                          *)
Save ==
    /\ FreeGuard
    /\ \E once, asksRun \in BOOLEAN :
          /\ row' = IF Saved THEN row
                    ELSE [NoRow EXCEPT !.life = lives + 1, !.revision = 1, !.enabled = TRUE,
                                       !.once = once, !.next = Plan(now)]
          /\ lives' = IF Saved THEN lives ELSE lives + 1
          /\ \/ \E r \in OfMessage : Hold("chat", "read", row', r)
             \/ OfMessage = {} /\ IF asksRun THEN Hold("chat", "begin", row', 0)
                                ELSE UNCHANGED guard
    /\ UNCHANGED <<now, runs, folder, leaving, timer>>

(* delegate() of a message that saved a chore before. *)
Delegate ==
    /\ FreeGuard /\ Saved
    /\ Hold("chat", "begin", row, 0)
    /\ UNCHANGED <<now, row, lives, runs, folder, leaving, timer>>

MessageTask(inFolder) ==
    runs' = IF OfMessage # {} THEN runs
            ELSE Append(runs, NewRun("message", 0, guard.seen.text, inFolder))

(* The message's one task, found or made: the chore's run, in its folder,  *)
(* unless the chore's last run is open; then a task of its own.            *)
ChatStarts ==
    /\ Held("chat", "begin") /\ (OfMessage # {} \/ CanRun)
    /\ IF StillOpen(guard.seen.last)
       THEN Release /\ MessageTask(FALSE) /\ UNCHANGED folder
       ELSE \E inFolder \in Folders :
              /\ folder' = (folder \/ inFolder)
              /\ MessageTask(inFolder)
              /\ \E r \in OfMessage' : GoOn("read", r)
    /\ UNCHANGED <<now, row, lives, leaving, timer>>

(* A task of the message alone: the work came before the chore, or only.   *)
JustOnce ==
    /\ OfMessage = {} /\ CanRun
    /\ runs' = Append(runs, NewRun("message", 0, 0, FALSE))
    /\ UNCHANGED <<now, row, lives, folder, leaving, timer, guard>>

----------------------------------------------------------------------------
(* A delete *)

DeleteRow ==
    /\ FreeGuard /\ Saved
    /\ row' = NoRow
    /\ runs' = [r \in DOMAIN runs |-> [runs[r] EXCEPT !.linked = FALSE]]
    /\ Hold("delete", "folder", row, 0)
    /\ UNCHANGED <<now, lives, folder, leaving, timer>>

(* The folder goes, unless the last run is open and works in it. *)
DeleteFolder ==
    LET last == guard.seen.last
    IN
    /\ Held("delete", "folder")
    /\ IF StillOpen(last) /\ runs[last].inFolder
       THEN leaving' = leaving \cup {last} /\ UNCHANGED folder
       ELSE folder' \in {FALSE, folder} /\ UNCHANGED leaving
    /\ Release
    /\ UNCHANGED <<now, row, lives, runs, timer>>

----------------------------------------------------------------------------
TimerSteps ==
    \/ Tick \/ TimerEnters \/ RemoveRetired \/ TickEnds
    \/ \E r \in DOMAIN runs : Retire(r)

HolderSteps ==
    \/ TimerHolds \/ TimerStops \/ TimerStarts \/ TimerPasses \/ TimerLinks
    \/ NowStarts \/ ReadsAgain \/ LinksRun \/ ChatStarts \/ DeleteFolder
    \/ ~CanRun /\ (TimerRefused \/ GivesUp)

Changes == Edit \/ Rehome \/ RunNow \/ Save \/ Delegate \/ JustOnce \/ DeleteRow

Failures ==
    TimerRefused \/ TimerStartFails \/ TimerWriteFails \/ GivesUp \/ CrashGateway

ChoreNext ==
    \/ TimerSteps \/ HolderSteps \/ Changes \/ Failures
    \/ Beat \/ \E r \in DOMAIN runs : TaskEnds(r)

(* The tick comes every half minute, whoever holds the guard goes on, and  *)
(* its lock serves those who wait in turn; nothing makes a run end.        *)
ChoreFairness ==
    /\ WF_choreVars(TimerSteps) /\ WF_choreVars(HolderSteps)
    /\ SF_choreVars(TimerEnters \/ RemoveRetired)
ChoreSpec == ChoreInit /\ [][ChoreNext]_choreVars /\ ChoreFairness

----------------------------------------------------------------------------
(* Properties *)

(* "A chore's runs are one at a time": neither the timer nor Run now       *)
(* starts a run of a repeating chore while one that the row came to name   *)
(* is open, and a chore that is gone starts none, whoever else meanwhile   *)
(* edits, deletes, saves or runs it.  A run whose link was refused, lost   *)
(* or given away is not meant: the row does not know it.                   *)
RunsOneAtATime ==
    [][\A r \in DOMAIN runs' \ DOMAIN runs :
          runs'[r].by # "message" =>
             /\ Saved
             /\ ~guard.seen.once => \A other \in DOMAIN runs :
                                     ~(StillOpen(other) /\ runs[other].linked)]_choreVars

(* A slot starts one run, however often its tick is tried again: after a   *)
(* failed write, a crash behind the start, or an edit that came between.   *)
SlotRunsOnce ==
    \A r, other \in DOMAIN runs :
        r # other /\ runs[r].by = "slot" /\ runs[other].by = "slot"
           => runs[r].slot # runs[other].slot

(* The folder stays while a run works in it that the row names, or that    *)
(* went on when its chore was deleted and was not saved again since.       *)
FolderKept ==
    \A r \in DOMAIN runs :
        /\ StillOpen(r) /\ runs[r].inFolder
        /\ \/ r = row.last /\ runs[r].life = row.life
           \/ r \in leaving /\ lives = 1
        => folder

(* The timer does what it owes: a slot that has come starts its run, is    *)
(* skipped, or the chore is changed; a folder that waited for a deleted    *)
(* chore's run is given up once the run has ended.  It never owes for good.*)
Owes == (Saved /\ Due(now)) \/ \E r \in leaving : ~StillOpen(r)
TimerServes == Owes ~> ~Owes
=============================================================================
