---------------------------- MODULE Chores_proof ----------------------------
(***************************************************************************)
(* What holds of a chore for any number of runs, edits, crashes and beats: *)
(* one run for each slot, runs one at a time, and a folder that is there   *)
(* as long as somebody works in it.                                        *)
(***************************************************************************)
EXTENDS Chores, SequenceTheorems, TLAPS

(* Whoever holds the guard to run the chore looks at the row it read: it   *)
(* may have been edited since, but it is the same one, with the same last  *)
(* run, and nobody but the deleter has taken it away.                      *)
HolderSound ==
    /\ guard.who = "nobody" => guard.at = "free"
    /\ guard.at = "read" => guard.who \in {"now", "chat"}
    /\ guard.at \in {"read", "link"} => guard.run \in DOMAIN runs
    /\ guard.who \in {"timer", "now", "chat"} =>
          /\ Saved /\ guard.seen.life = row.life /\ guard.seen.last = row.last
    /\ guard.who = "delete" =>
          /\ guard.at = "folder" /\ ~Saved
          /\ guard.seen.life \in 1..lives

(* The way is clear for the timer, on behalf of a repeating chore, and for *)
(* Run now: the row's last run is over.                                    *)
WayClear ==
    \/ guard.who = "now"
    \/ guard.who = "timer" /\ guard.at \in {"start", "link"} /\ ~guard.seen.once
    => ~StillOpen(row.last)

(* Rows are numbered as they come, a run in the folder belongs to a row,   *)
(* and the one open run the row came to name is its last.                  *)
RunsSound ==
    /\ Len(runs) <= MaxRuns
    /\ Saved => row.life = lives /\ lives >= 1
    /\ \A r \in DOMAIN runs :
          /\ runs[r].life <= lives
          /\ runs[r].inFolder => runs[r].life >= 1
          /\ runs[r].open /\ runs[r].linked => r = row.last

(* The folder of a row, or of one being deleted, is there once a run has   *)
(* been in it.  With one row ever, the runs that outlive it are one at     *)
(* most; they are there only once the delete is over, and go before the    *)
(* timer removes the folder.                                               *)
FolderSound ==
    /\ \A r \in DOMAIN runs : runs[r].inFolder =>
          /\ Saved /\ runs[r].life = row.life => folder
          /\ guard.who = "delete" /\ runs[r].life = guard.seen.life => folder
    /\ lives = 0 => leaving = {} /\ timer.at # "remove"
    /\ lives = 1 =>
          /\ leaving # {} => folder /\ timer.at # "remove"
          /\ leaving # {} \/ timer.at = "remove" => ~Saved /\ guard.who # "delete"
          /\ \A a, b \in leaving : a = b

ChoreInv ==
    /\ ChoreTypeOK /\ HolderSound /\ WayClear
    /\ RunsSound /\ FolderSound /\ SlotRunsOnce
----------------------------------------------------------------------------
(* The list of runs *)

LEMMA RunList ==
    ASSUME runs \in Seq(Run)
    PROVE  Len(runs) \in Nat /\ DOMAIN runs = 1..Len(runs) /\ runs \in [DOMAIN runs -> Run]
BY LenProperties

(* Runs that change in place stay where they are. *)
LEMMA RunsInPlace ==
    ASSUME runs \in Seq(Run), runs' \in [DOMAIN runs -> Run]
    PROVE  runs' \in Seq(Run) /\ DOMAIN runs' = DOMAIN runs /\ Len(runs') = Len(runs)
<1>1. Len(runs) \in Nat /\ DOMAIN runs = 1..Len(runs)
    BY RunList
<1>2. runs' \in Seq(Run)
    BY <1>1, SeqDef
<1> QED BY <1>1, <1>2, LenProperties

(* A run that is started comes behind the others. *)
LEMMA RunStarted ==
    ASSUME runs \in Seq(Run), NEW run \in Run, runs' = Append(runs, run)
    PROVE  /\ runs' \in Seq(Run) /\ Len(runs') = Len(runs) + 1
           /\ DOMAIN runs' = DOMAIN runs \cup {Len(runs) + 1}
           /\ Len(runs) + 1 \notin DOMAIN runs
           /\ \A r \in DOMAIN runs : runs'[r] = runs[r]
           /\ runs'[Len(runs) + 1] = run
<1>1. Len(runs) \in Nat /\ DOMAIN runs = 1..Len(runs)
    BY RunList
<1>2. /\ runs' \in Seq(Run) /\ Len(runs') = Len(runs) + 1
      /\ \A r \in 1..Len(runs) : runs'[r] = runs[r]
      /\ runs'[Len(runs) + 1] = run
    BY AppendProperties
<1>3. DOMAIN runs' = 1..(Len(runs) + 1)
    BY <1>2, LenProperties
<1> QED BY <1>1, <1>2, <1>3

LEMMA RunClosed ==
    ASSUME runs \in Seq(Run), NEW r \in DOMAIN runs,
           runs' = [runs EXCEPT ![r].open = FALSE]
    PROVE  /\ runs' \in Seq(Run) /\ DOMAIN runs' = DOMAIN runs /\ Len(runs') = Len(runs)
           /\ ~runs'[r].open
           /\ \A x \in DOMAIN runs :
                 /\ runs'[x].by = runs[x].by /\ runs'[x].slot = runs[x].slot
                 /\ runs'[x].life = runs[x].life /\ runs'[x].inFolder = runs[x].inFolder
                 /\ runs'[x].linked = runs[x].linked /\ (runs'[x].open => runs[x].open)
<1>1. runs \in [DOMAIN runs -> Run]
    BY RunList
<1> DEFINE closed == [runs[r] EXCEPT !.open = FALSE]
<1>2. /\ closed \in Run /\ closed.by = runs[r].by /\ closed.slot = runs[r].slot
      /\ closed.life = runs[r].life /\ closed.inFolder = runs[r].inFolder
      /\ closed.linked = runs[r].linked /\ closed.open = FALSE
    BY <1>1 DEF Run
<1>3. runs' = [runs EXCEPT ![r] = closed]
    OBVIOUS
<1> HIDE DEF closed
<1> QED BY <1>1, <1>2, <1>3, RunsInPlace

LEMMA RunLinked ==
    ASSUME runs \in Seq(Run), NEW run \in DOMAIN runs, NEW displaces \in BOOLEAN,
           runs' = Linked(run, displaces)
    PROVE  /\ runs' \in Seq(Run) /\ DOMAIN runs' = DOMAIN runs /\ Len(runs') = Len(runs)
           /\ \A x \in DOMAIN runs :
                 /\ runs'[x].by = runs[x].by /\ runs'[x].slot = runs[x].slot
                 /\ runs'[x].life = runs[x].life /\ runs'[x].inFolder = runs[x].inFolder
                 /\ runs'[x].open = runs[x].open
                 /\ runs'[x].linked => x = run \/ (runs[x].linked /\ ~(displaces /\ x = row.last))
<1>1. runs \in [DOMAIN runs -> Run]
    BY RunList
<1> DEFINE linked(x) == (x = run) \/ (runs[x].linked /\ ~(displaces /\ x = row.last))
           new(x) == [runs[x] EXCEPT !.linked = linked(x)]
<1>2. ASSUME NEW x \in DOMAIN runs
      PROVE  /\ new(x) \in Run /\ new(x).by = runs[x].by /\ new(x).slot = runs[x].slot
             /\ new(x).life = runs[x].life /\ new(x).inFolder = runs[x].inFolder
             /\ new(x).open = runs[x].open /\ (new(x).linked => linked(x))
  <2>1. linked(x) \in BOOLEAN
      OBVIOUS
  <2> HIDE DEF linked
  <2> QED BY <1>1, <2>1 DEF Run
<1>3. runs' = [x \in DOMAIN runs |-> new(x)]
    BY DEF Linked
<1> HIDE DEF new
<1>4. runs' \in [DOMAIN runs -> Run] /\ \A x \in DOMAIN runs : runs'[x] = new(x)
    BY <1>2, <1>3
<1> QED BY <1>2, <1>4, RunsInPlace

LEMMA NewRunType ==
    ASSUME row \in Row, NEW by \in {"slot", "now", "message"}, NEW slot \in Nat,
           NEW text \in Nat, NEW inFolder \in BOOLEAN
    PROVE  NewRun(by, slot, text, inFolder) \in Run
BY DEF Row, Run, NewRun

LEMMA NoRowType == NoRow \in Row
BY DEF Row, NoRow

NewRow(life, once, next) ==
    [NoRow EXCEPT !.life = life, !.revision = 1, !.enabled = TRUE,
                  !.once = once, !.next = next]

LEMMA NewRowType ==
    ASSUME NEW life \in Nat, NEW once \in BOOLEAN, NEW next \in Nat
    PROVE  /\ NewRow(life, once, next) \in Row
           /\ NewRow(life, once, next).life = life /\ NewRow(life, once, next).last = 0
BY DEF Row, NoRow, NewRow

LEMMA NoGuardType ==
    NoGuard \in Guard /\ NoGuard.who = "nobody" /\ NoGuard.at = "free"
BY NoRowType DEF NoGuard, Guard

LEMMA AdvancedType ==
    ASSUME row \in Row, NEW next \in Nat, NEW last \in Nat, NEW enabled \in BOOLEAN
    PROVE  /\ Advanced(next, last, enabled) \in Row
           /\ Advanced(next, last, enabled).life = row.life
           /\ Advanced(next, last, enabled).last = last
<1> DEFINE revision == row.revision + 1
           new == [row EXCEPT !.next = next, !.last = last, !.enabled = enabled,
                              !.revision = revision]
<1>1. revision \in Nat
    BY DEF Row
<1>2. new = Advanced(next, last, enabled)
    BY DEF Advanced
<1> HIDE DEF revision
<1>3. new \in Row /\ new.life = row.life /\ new.last = last
    BY <1>1 DEF Row
<1> HIDE DEF new
<1> QED BY <1>2, <1>3
----------------------------------------------------------------------------
(* The steps that leave the row and its runs alone *)

LEMMA QuietSteps ==
    ASSUME ChoreInv, UNCHANGED <<row, lives, runs>>,
           Beat \/ CrashGateway \/ Tick \/ TimerEnters \/ TimerHolds \/ TimerRefused \/ TimerWriteFails
           \/ TickEnds \/ RunNow \/ ReadsAgain \/ GivesUp \/ Delegate \/ RemoveRetired
           \/ \E r \in DOMAIN runs : Retire(r)
    PROVE  ChoreInv'
<1> USE RunsAssumption, RunList, NoRowType DEF ChoreInv, ChoreTypeOK, HolderSound, WayClear, RunsSound,
        FolderSound, SlotRunsOnce, Timer, Guard, Saved, StillOpen
<1>1. CASE Beat
    BY <1>1 DEF Beat
<1>2. CASE CrashGateway
    BY <1>2 DEF CrashGateway, Release, NoGuard, Idle
<1>3. CASE Tick
  <2>1. leaving \in SUBSET (1..MaxRuns)
    OBVIOUS
  <2>2. timer' \in Timer /\ timer'.at # "remove"
    BY <1>3, <2>1 DEF Tick, Retiring
  <2> QED BY <1>3, <2>2 DEF Tick
<1>4. CASE TimerEnters
  <2>1. CASE Saved /\ Due(timer.time)
    <3>1. /\ guard'.who = "timer" /\ guard'.at \in {"start", "holds"}
          /\ guard'.at = "start" => row.once
          /\ guard'.seen = row /\ guard'.run = 0 /\ guard' \in Guard
        BY <1>4, <2>1 DEF TimerEnters, Hold
    <3> QED BY <1>4, <2>1, <3>1 DEF TimerEnters
  <2>2. CASE ~(Saved /\ Due(timer.time))
    <3>1. leaving \in SUBSET (1..MaxRuns)
        OBVIOUS
    <3>2. timer' \in Timer /\ timer'.at # "remove"
        BY <1>4, <2>2, <3>1 DEF TimerEnters, Retiring
    <3> QED BY <1>4, <2>2, <3>2 DEF TimerEnters
  <2> QED BY <2>1, <2>2
<1>5. CASE TimerHolds
  <2> PICK at \in {"pass", "stopping", "start"} :
          guard' = [guard EXCEPT !.at = at, !.run = 0] /\ (at = "start" => ~StillOpen(guard.seen.last))
    BY <1>5 DEF TimerHolds, GoOn
  <2>1. /\ guard' \in Guard /\ guard'.who = guard.who /\ guard'.seen = guard.seen
        /\ guard'.at = at
    OBVIOUS
  <2> QED BY <1>5, <2>1 DEF TimerHolds, Held
<1>6. CASE TimerRefused
  <2>1. /\ guard' \in Guard /\ guard'.who = "timer" /\ guard'.seen = guard.seen
        /\ guard'.run = 0 /\ guard'.at = "pass"
    BY <1>6 DEF TimerRefused, Held, GoOn
  <2> QED BY <1>6, <2>1 DEF TimerRefused, Held
<1>7. CASE TimerWriteFails
    BY <1>7 DEF TimerWriteFails, TimerAborts, Release, Idle, NoGuard
<1>8. CASE TickEnds
    BY <1>8 DEF TickEnds, Idle
<1>9. CASE RunNow
    BY <1>9 DEF RunNow, FreeGuard, Hold
<1>10. CASE ReadsAgain
    BY <1>10 DEF ReadsAgain, Hold
<1>11. CASE GivesUp
    BY <1>11 DEF GivesUp, Release, NoGuard
<1>12. CASE Delegate
    BY <1>12 DEF Delegate, FreeGuard, Hold
<1>13. CASE RemoveRetired
  <2>1. timer' \in Timer /\ timer'.at = "retire"
    BY <1>13 DEF RemoveRetired
  <2>2. folder' \in BOOLEAN /\ (Saved => folder' = folder)
    BY <1>13 DEF RemoveRetired
  <2>3. guard.who = "nobody" /\ timer.at = "remove" /\ leaving' = leaving /\ guard' = guard
    BY <1>13 DEF RemoveRetired, FreeGuard
  <2>4. lives \in Nat /\ (lives <= 1 => leaving = {} /\ ~Saved)
    BY <2>3
  <2>5. FolderSound'
    BY <2>1, <2>2, <2>3, <2>4
  <2> QED BY <1>13, <2>1, <2>2, <2>3, <2>5 DEF RemoveRetired
<1>14. ASSUME NEW r \in DOMAIN runs, Retire(r) PROVE ChoreInv'
  <2>1. timer.left \ {r} \in SUBSET (1..MaxRuns)
    OBVIOUS
  <2>2. /\ timer' \in Timer
        /\ timer'.at = "remove" => r \in leaving /\ leaving' = leaving \ {r}
        /\ leaving' \in {leaving, leaving \ {r}}
    BY ZenonT(40), <1>14, <2>1 DEF Retire
  <2>3. UNCHANGED <<folder, guard>>
    BY <1>14 DEF Retire
  <2>4. leaving' \subseteq leaving
    BY <2>2
  <2>5. lives = 1 /\ timer'.at = "remove" => leaving' = {} /\ ~Saved /\ guard.who # "delete"
    BY <2>2
  <2>6. lives = 0 => leaving' = {} /\ timer'.at # "remove"
    BY <2>2
  <2>7. FolderSound'
    BY <2>3, <2>4, <2>5, <2>6
  <2>8. ChoreTypeOK'
    BY <1>14, <2>2, <2>3, <2>4 DEF Retire
  <2>9. HolderSound' /\ WayClear' /\ RunsSound' /\ SlotRunsOnce'
    BY <2>3
  <2> QED BY <2>7, <2>8, <2>9
<1> QED BY <1>1, <1>2, <1>3, <1>4, <1>5, <1>6, <1>7, <1>8, <1>9, <1>10, <1>11, <1>12, <1>13, <1>14
----------------------------------------------------------------------------
(* Edits of the row *)

LEMMA EditKeeps ==
    ASSUME ChoreInv, Edit \/ Rehome
    PROVE  ChoreInv'
<1> USE RunsAssumption, RunList, NoRowType DEF ChoreInv, ChoreTypeOK, HolderSound, WayClear, RunsSound,
        FolderSound, SlotRunsOnce, Timer, Guard, Saved, StillOpen
<1>1. /\ row' \in Row /\ row'.life = row.life /\ row'.last = row.last
      /\ Saved /\ UNCHANGED <<now, lives, runs, folder, leaving, timer, guard>>
  <2>1. CASE Rehome
    <3> DEFINE text == row.text + 1
    <3>0. row.text \in Nat
        BY DEF Row
    <3>1. text \in Nat
        BY <3>0
    <3>2. row' = [row EXCEPT !.text = text]
        BY <2>1 DEF Rehome
    <3>3. Saved /\ UNCHANGED <<now, lives, runs, folder, leaving, timer, guard>>
        BY <2>1 DEF Rehome
    <3> HIDE DEF text
    <3> QED BY <3>1, <3>2, <3>3 DEF Row
  <2>2. CASE Edit
    <3> PICK text \in {row.text, row.text + 1}, once \in BOOLEAN, enabled \in BOOLEAN,
             next \in {0, Plan(now), row.next} :
             row' = [row EXCEPT !.text = text, !.once = once, !.enabled = enabled,
                                !.next = next, !.revision = @ + 1]
        BY <2>2 DEF Edit
    <3> DEFINE revision == row.revision + 1
    <3>0. row.revision \in Nat /\ row.text \in Nat /\ row.next \in Nat /\ now \in Nat
        BY DEF Row
    <3>1. revision \in Nat /\ next \in Nat /\ text \in Nat
        BY SMTT(20), <3>0 DEF Plan
    <3>3. Saved /\ UNCHANGED <<now, lives, runs, folder, leaving, timer, guard>>
        BY <2>2 DEF Edit
    <3>2. row' = [row EXCEPT !.text = text, !.once = once, !.enabled = enabled,
                             !.next = next, !.revision = revision]
        OBVIOUS
    <3> HIDE DEF revision
    <3> QED BY ZenonT(40), <3>1, <3>2, <3>3 DEF Row
  <2> QED BY <2>1, <2>2
<1>2. row'.life # 0 /\ row' # NoRow
    BY <1>1 DEF NoRow
<1>3. ChoreTypeOK' /\ RunsSound' /\ SlotRunsOnce' /\ WayClear'
    BY <1>1, <1>2
<1>4. HolderSound' /\ FolderSound'
    BY <1>1, <1>2
<1> QED BY <1>3, <1>4

(* A slot that is passed over. *)
LEMMA PassKeeps ==
    ASSUME ChoreInv, TimerPasses
    PROVE  ChoreInv'
<1> USE RunsAssumption, RunList, NoRowType DEF ChoreInv, ChoreTypeOK, HolderSound, WayClear, RunsSound,
        FolderSound, SlotRunsOnce, Timer, Guard, Saved, StillOpen
<1>1. row' \in Row /\ row'.life = row.life /\ row'.last = row.last
  <2> DEFINE next == IF guard.seen.once THEN 0 ELSE Plan(timer.time)
             enabled == row.enabled /\ ~guard.seen.once
  <2>0. row.last \in Nat /\ timer.time \in Nat
      BY DEF Row
  <2>1. next \in Nat /\ enabled \in BOOLEAN
      BY <2>0 DEF Plan
  <2>2. row' = row \/ row' = Advanced(next, row.last, enabled)
      BY DEF TimerPasses, After
  <2> HIDE DEF next, enabled
  <2> QED BY <2>0, <2>1, <2>2, AdvancedType
<1>2. Saved /\ row'.life # 0 /\ row' # NoRow
    BY <1>1 DEF NoRow, TimerPasses, Held
<1>3. timer' \in Timer /\ timer'.at = "retire" /\ guard' = NoGuard
  <2>1. leaving \in SUBSET (1..MaxRuns)
      OBVIOUS
  <2> QED BY <2>1 DEF TimerPasses, TimerLeaves, Retiring, Release
<1>4. UNCHANGED <<now, lives, runs, folder, leaving>>
    BY DEF TimerPasses
<1>5. ChoreTypeOK' /\ HolderSound' /\ WayClear' /\ RunsSound' /\ SlotRunsOnce'
    BY <1>1, <1>2, <1>3, <1>4 DEF NoGuard
<1>6. FolderSound'
    BY <1>1, <1>2, <1>3, <1>4 DEF NoGuard
<1> QED BY <1>5, <1>6
----------------------------------------------------------------------------
(* Runs that change: one ends, or is linked to the row *)

(* A run ends, by itself or because the timer stops it. *)
TimerStopped(r) ==
    /\ Held("timer", "stopping") /\ r = row.last
    /\ guard' \in Guard /\ guard'.who = "timer" /\ guard'.at = "start"
    /\ guard'.seen = guard.seen

LEMMA EndKeeps ==
    ASSUME ChoreInv, NEW r \in DOMAIN runs, runs' = [runs EXCEPT ![r].open = FALSE],
           UNCHANGED <<now, row, lives, folder, leaving, timer>>,
           guard' = guard \/ TimerStopped(r)
    PROVE  ChoreInv'
<1>1. /\ ChoreTypeOK /\ HolderSound /\ WayClear /\ RunsSound /\ FolderSound /\ SlotRunsOnce
      /\ runs \in Seq(Run)
    BY DEF ChoreInv, ChoreTypeOK
<1>2. /\ runs' \in Seq(Run) /\ DOMAIN runs' = DOMAIN runs /\ Len(runs') = Len(runs)
      /\ ~runs'[r].open
      /\ \A x \in DOMAIN runs :
            /\ runs'[x].by = runs[x].by /\ runs'[x].slot = runs[x].slot
            /\ runs'[x].life = runs[x].life /\ runs'[x].inFolder = runs[x].inFolder
            /\ runs'[x].linked = runs[x].linked /\ (runs'[x].open => runs[x].open)
    BY <1>1, RunClosed
<1>3. ChoreTypeOK'
    BY <1>1, <1>2 DEF ChoreTypeOK, TimerStopped
<1>4. HolderSound'
    BY <1>1, <1>2 DEF HolderSound, Saved, TimerStopped, Held
<1>5. WayClear'
    BY <1>1, <1>2 DEF WayClear, StillOpen, TimerStopped, Held
<1>6. RunsSound'
    BY <1>1, <1>2 DEF RunsSound, Saved
<1>7. FolderSound'
    BY <1>1, <1>2 DEF FolderSound, Saved, TimerStopped, Held
<1>8. SlotRunsOnce'
    BY <1>1, <1>2 DEF SlotRunsOnce
<1> QED BY <1>3, <1>4, <1>5, <1>6, <1>7, <1>8 DEF ChoreInv

(* The row comes to name a run as its last.  A reminder or a chat takes    *)
(* the place of the run that was linked; for the others it is over.        *)
LEMMA LinkKeeps ==
    ASSUME ChoreInv, Saved, NEW run \in DOMAIN runs, NEW displaces \in BOOLEAN,
           ~displaces => ~StillOpen(row.last),
           runs' = Linked(run, displaces),
           row' \in Row, row'.life = row.life, row'.last = run,
           guard' = NoGuard, timer' \in Timer, timer' = timer \/ timer'.at = "retire",
           UNCHANGED <<now, lives, folder, leaving>>
    PROVE  ChoreInv'
<1>1. /\ ChoreTypeOK /\ HolderSound /\ WayClear /\ RunsSound /\ FolderSound /\ SlotRunsOnce
      /\ runs \in Seq(Run)
    BY DEF ChoreInv, ChoreTypeOK
<1>2. /\ runs' \in Seq(Run) /\ DOMAIN runs' = DOMAIN runs /\ Len(runs') = Len(runs)
      /\ \A x \in DOMAIN runs :
            /\ runs'[x].by = runs[x].by /\ runs'[x].slot = runs[x].slot
            /\ runs'[x].life = runs[x].life /\ runs'[x].inFolder = runs[x].inFolder
            /\ runs'[x].open = runs[x].open
            /\ runs'[x].linked => x = run \/ (runs[x].linked /\ ~(displaces /\ x = row.last))
    BY <1>1, RunLinked
<1>3. Saved'
    BY <1>1 DEF RunsSound, NoRow, Saved
<1>4. ChoreTypeOK'
    BY <1>1, <1>2 DEF ChoreTypeOK, NoGuard, Guard, NoRow, Row
<1>5. HolderSound' /\ WayClear'
    BY DEF HolderSound, WayClear, NoGuard
<1>6. RunsSound'
    BY <1>1, <1>2, <1>3 DEF RunsSound, StillOpen
<1>7. FolderSound'
    BY <1>1, <1>2, <1>3 DEF FolderSound, NoGuard, Saved
<1>8. SlotRunsOnce'
    BY <1>1, <1>2 DEF SlotRunsOnce
<1> QED BY <1>4, <1>5, <1>6, <1>7, <1>8 DEF ChoreInv
----------------------------------------------------------------------------
(* Starts *)

(* How the guard goes on behind a start: it is let go, kept by whoever has *)
(* nothing to do with it, or its holder has the run to link.               *)
GuardGoesOn ==
    \/ guard' = NoGuard
    \/ guard' = guard
    \/ /\ guard' \in Guard /\ guard'.who = guard.who /\ guard'.seen = guard.seen
       /\ guard.who \in {"timer", "now", "chat"}
       /\ guard.who = "timer" => guard.at = "start"
       /\ guard'.at = IF guard.who = "timer" THEN "link" ELSE "read"
       /\ guard'.run \in DOMAIN runs'

LEMMA StartKeeps ==
    ASSUME ChoreInv, CanRun,
           NEW by \in {"slot", "now", "message"}, NEW slot \in Nat, NEW text \in Nat,
           NEW inFolder \in BOOLEAN,
           by = "slot" => \A r \in DOMAIN runs : ~(runs[r].by = "slot" /\ runs[r].slot = slot),
           inFolder => Saved,
           runs' = Append(runs, NewRun(by, slot, text, inFolder)),
           folder' = (folder \/ inFolder),
           GuardGoesOn, timer' \in Timer, timer' = timer \/ timer'.at = "retire",
           UNCHANGED <<now, row, lives, leaving>>
    PROVE  ChoreInv'
<1> DEFINE run == NewRun(by, slot, text, inFolder)
<1>1. /\ ChoreTypeOK /\ HolderSound /\ WayClear /\ RunsSound /\ FolderSound /\ SlotRunsOnce
      /\ runs \in Seq(Run) /\ row \in Row /\ lives \in Nat
    BY DEF ChoreInv, ChoreTypeOK
<1>2. /\ run \in Run /\ run.by = by /\ run.slot = slot /\ run.life = row.life
      /\ run.inFolder = inFolder /\ run.linked = FALSE
    BY <1>1, NewRunType DEF NewRun
<1> HIDE DEF run
<1>3. /\ runs' \in Seq(Run) /\ Len(runs') = Len(runs) + 1
      /\ DOMAIN runs' = DOMAIN runs \cup {Len(runs) + 1}
      /\ Len(runs) + 1 \notin DOMAIN runs
      /\ \A r \in DOMAIN runs : runs'[r] = runs[r]
      /\ runs'[Len(runs) + 1] = run
    BY <1>1, <1>2, RunStarted DEF run
<1>4. folder' \in BOOLEAN /\ (folder => folder') /\ (inFolder => folder')
    BY <1>1 DEF ChoreTypeOK
<1>5. guard' \in Guard
    BY <1>1, NoGuardType DEF ChoreTypeOK, GuardGoesOn
<1>6. ChoreTypeOK'
    BY <1>1, <1>3, <1>4, <1>5 DEF ChoreTypeOK
<1>7. HolderSound'
    BY <1>1, <1>3 DEF HolderSound, GuardGoesOn, NoGuard, Saved
<1>8. StillOpen(row.last)' => StillOpen(row.last)
    BY <1>1, <1>3, RunList DEF StillOpen, ChoreTypeOK
<1>9. WayClear'
    BY <1>1, <1>8 DEF WayClear, GuardGoesOn, NoGuard
<1>10. row.life \in Nat /\ row.life <= lives /\ (Saved => row.life >= 1)
    BY <1>1 DEF RunsSound, Saved, NoRow, Row
<1>11. RunsSound'
    BY <1>1, <1>2, <1>3, <1>10, RunList, RunsAssumption DEF RunsSound, CanRun, Saved
<1>12. guard'.who = "delete" => guard.who = "delete" /\ guard'.seen = guard.seen
    BY NoGuardType DEF GuardGoesOn
<1>13. inFolder => run.life = row.life /\ row.life >= 1
    BY <1>2, <1>10
<1>14. ASSUME NEW r \in DOMAIN runs', runs'[r].inFolder
       PROVE  /\ Saved' /\ runs'[r].life = row'.life => folder'
              /\ guard'.who = "delete" /\ runs'[r].life = guard'.seen.life => folder'
  <2>1. CASE r \in DOMAIN runs
      BY <1>1, <1>3, <1>4, <1>12, <1>14, <2>1 DEF FolderSound, Saved
  <2>2. CASE r = Len(runs) + 1
      BY <1>2, <1>3, <1>4, <1>14, <2>2
  <2> QED BY <1>3, <2>1, <2>2
<1>15. /\ timer'.at = "remove" => timer.at = "remove"
       /\ leaving' # {} => leaving # {} /\ (folder => folder')
    BY <1>4
<1>16. FolderSound'
    BY <1>1, <1>12, <1>14, <1>15 DEF FolderSound, Saved
<1>17. SlotRunsOnce'
    BY <1>1, <1>2, <1>3 DEF SlotRunsOnce
<1> QED BY <1>6, <1>7, <1>9, <1>11, <1>16, <1>17 DEF ChoreInv

(* A start that finds its run there already, or fails before it made one.  *)
LEMMA FindKeeps ==
    ASSUME ChoreInv, NEW inFolder \in BOOLEAN, folder' = (folder \/ inFolder),
           \/ GuardGoesOn
           \/ guard' = [guard EXCEPT !.at = "pass", !.run = 0] /\ guard.who = "timer",
           timer' \in Timer, timer' = timer \/ timer'.at = "retire",
           UNCHANGED <<now, row, lives, runs, leaving>>
    PROVE  ChoreInv'
<1>1. /\ ChoreTypeOK /\ HolderSound /\ WayClear /\ RunsSound /\ FolderSound /\ SlotRunsOnce
      /\ runs \in Seq(Run) /\ row \in Row /\ lives \in Nat /\ guard \in Guard
    BY DEF ChoreInv, ChoreTypeOK
<1>2. CASE GuardGoesOn
  <2>1. guard' \in Guard
      BY <1>1, <1>2, NoGuardType DEF GuardGoesOn
  <2>2. HolderSound' /\ WayClear'
      BY <1>1, <1>2, NoGuardType DEF HolderSound, WayClear, GuardGoesOn, Saved, StillOpen
  <2>3. guard'.who = "delete" => guard.who = "delete" /\ guard'.seen = guard.seen
      BY <1>2, NoGuardType DEF GuardGoesOn
  <2> QED BY <1>1, <2>1, <2>2, <2>3
          DEF ChoreInv, ChoreTypeOK, RunsSound, FolderSound, SlotRunsOnce, Saved
<1>3. CASE guard' = [guard EXCEPT !.at = "pass", !.run = 0] /\ guard.who = "timer"
  <2>1. /\ guard' \in Guard /\ guard'.who = "timer" /\ guard'.at = "pass"
        /\ guard'.seen = guard.seen /\ guard.who = "timer"
      BY <1>1, <1>3 DEF Guard
  <2>2. HolderSound' /\ WayClear'
      BY <1>1, <2>1 DEF HolderSound, WayClear, Saved
  <2> QED BY <1>1, <2>1, <2>2
          DEF ChoreInv, ChoreTypeOK, RunsSound, FolderSound, SlotRunsOnce, Saved
<1> QED BY <1>2, <1>3

LEMMA RetiringTimer ==
    ASSUME ChoreInv
    PROVE  Retiring \in Timer /\ Retiring.at = "retire"
<1>1. timer \in Timer /\ runs \in Seq(Run) /\ leaving \subseteq DOMAIN runs /\ Len(runs) <= MaxRuns
    BY DEF ChoreInv, ChoreTypeOK, RunsSound
<1>2. leaving \in SUBSET (1..MaxRuns)
    BY <1>1, RunList, RunsAssumption
<1> QED BY <1>1, <1>2 DEF Timer, Retiring

(* The timer's start makes the slot's run, or finds it by its key. *)
LEMMA TimerStartKeeps ==
    ASSUME ChoreInv, TimerStarts \/ TimerStartFails
    PROVE  ChoreInv'
<1>1. /\ guard \in Guard /\ guard.who = "timer" /\ guard.at = "start" /\ timer \in Timer
      /\ Saved /\ guard.seen \in Row /\ runs \in Seq(Run)
    BY DEF ChoreInv, ChoreTypeOK, TimerStarts, TimerStartFails, Held, HolderSound, Guard
<1>2. PICK inFolder \in BOOLEAN :
         /\ folder' = (folder \/ inFolder)
         /\ UNCHANGED <<now, row, lives, leaving>>
         /\ \/ /\ runs' = runs /\ timer' = timer
               /\ \/ \E r \in DOMAIN runs : GoOn("link", r)
                  \/ GoOn("pass", 0)
            \/ runs' = runs /\ timer' = Retiring /\ guard' = NoGuard
            \/ /\ ~SlotUsed /\ CanRun
               /\ runs' = Append(runs, NewRun("slot", Slot, guard.seen.text, inFolder))
               /\ \/ GoOn("link", Len(runs) + 1) /\ timer' = timer
                  \/ guard' = NoGuard /\ timer' = Retiring
  <2>1. CASE TimerStarts
      BY <2>1 DEF TimerStarts, Folders, OfSlot
  <2>2. CASE TimerStartFails
      BY <2>2 DEF TimerStartFails, Folders, TimerLeaves, Release
  <2> QED BY <2>1, <2>2
<1>3. timer' \in Timer /\ (timer' = timer \/ timer'.at = "retire")
    BY <1>1, <1>2, RetiringTimer
<1>4. CASE runs' = runs
  <2>1. ASSUME NEW r \in DOMAIN runs, GoOn("link", r) PROVE GuardGoesOn
    <3>1. r \in Nat
        BY <1>1, RunList
    <3> QED BY <1>1, <1>4, <2>1, <3>1 DEF GuardGoesOn, GoOn, Guard
  <2>2. \/ GuardGoesOn
        \/ guard' = [guard EXCEPT !.at = "pass", !.run = 0] /\ guard.who = "timer"
        \/ ~SlotUsed /\ CanRun
               /\ runs' = Append(runs, NewRun("slot", Slot, guard.seen.text, inFolder))
      BY <1>1, <1>2, <1>4, <2>1 DEF GuardGoesOn, GoOn
  <2>3. runs # Append(runs, NewRun("slot", Slot, guard.seen.text, inFolder))
    <3>1. Slot \in Nat /\ guard.seen.text \in Nat
        BY <1>1 DEF Slot, Row
    <3>2. NewRun("slot", Slot, guard.seen.text, inFolder) \in Run
        BY <1>1, <3>1, NewRunType DEF ChoreInv, ChoreTypeOK
    <3>3. Len(runs) \in Nat
        BY <1>1, RunList
    <3>4. Len(Append(runs, NewRun("slot", Slot, guard.seen.text, inFolder))) = Len(runs) + 1
        BY <1>1, <3>2, AppendProperties
    <3> QED BY <3>3, <3>4
  <2> QED BY <1>2, <1>3, <1>4, <2>2, <2>3, FindKeeps
<1>5. CASE runs' # runs
  <2>1. /\ ~SlotUsed /\ CanRun
        /\ runs' = Append(runs, NewRun("slot", Slot, guard.seen.text, inFolder))
        /\ GoOn("link", Len(runs) + 1) \/ guard' = NoGuard
      BY <1>2, <1>5
  <2>2. Slot \in Nat /\ guard.seen.text \in Nat
      BY <1>1 DEF Slot, Row
  <2>3. NewRun("slot", Slot, guard.seen.text, inFolder) \in Run
      BY <1>1, <2>2, NewRunType DEF ChoreInv, ChoreTypeOK
  <2>4. Len(runs) + 1 \in Nat /\ Len(runs) + 1 \in DOMAIN runs'
      BY <1>1, <2>1, <2>3, RunStarted, RunList
  <2>5. GuardGoesOn
      BY <1>1, <2>1, <2>4 DEF GuardGoesOn, GoOn, Guard
  <2>6. \A r \in DOMAIN runs : ~(runs[r].by = "slot" /\ runs[r].slot = Slot)
      BY <2>1 DEF SlotUsed
  <2> QED BY <1>1, <1>2, <1>3, <2>1, <2>2, <2>5, <2>6, StartKeeps
<1> QED BY <1>4, <1>5

LEMMA NowStartKeeps ==
    ASSUME ChoreInv, NowStarts
    PROVE  ChoreInv'
<1>1. /\ guard \in Guard /\ guard.who = "now" /\ timer \in Timer /\ row \in Row
      /\ Saved /\ guard.seen.text \in Nat /\ runs \in Seq(Run)
    BY DEF ChoreInv, ChoreTypeOK, NowStarts, Held, HolderSound, Guard, Row
<1>2. PICK inFolder \in BOOLEAN :
         /\ folder' = (folder \/ inFolder)
         /\ runs' = Append(runs, NewRun("now", 0, guard.seen.text, inFolder))
    BY DEF NowStarts, Folders
<1>3. NewRun("now", 0, guard.seen.text, inFolder) \in Run
    BY <1>1, NewRunType
<1>4. Len(runs) + 1 \in Nat /\ Len(runs) + 1 \in DOMAIN runs'
    BY <1>1, <1>2, <1>3, RunStarted, RunList
<1>5. GuardGoesOn
    BY <1>1, <1>4 DEF GuardGoesOn, GoOn, Guard, NowStarts
<1>6. CanRun /\ UNCHANGED <<now, row, lives, leaving, timer>>
    BY DEF NowStarts
<1> QED BY <1>1, <1>2, <1>5, <1>6, StartKeeps

(* The message's task, made or found, with its run to link or not. *)
LEMMA ChatStartKeeps ==
    ASSUME ChoreInv, ChatStarts
    PROVE  ChoreInv'
<1>1. /\ guard \in Guard /\ guard.who = "chat" /\ timer \in Timer /\ row \in Row
      /\ Saved /\ guard.seen.text \in Nat /\ runs \in Seq(Run)
    BY DEF ChoreInv, ChoreTypeOK, ChatStarts, Held, HolderSound, Guard, Row
<1>2. UNCHANGED <<now, row, lives, leaving, timer>> /\ (OfMessage # {} \/ CanRun)
    BY DEF ChatStarts
<1>3. PICK inFolder \in BOOLEAN :
         /\ folder' = (folder \/ inFolder) /\ MessageTask(inFolder)
         /\ guard' = NoGuard \/ \E r \in OfMessage' : GoOn("read", r)
    BY DEF ChatStarts, Folders, Release, ChoreInv, ChoreTypeOK
<1>4. ASSUME NEW r \in DOMAIN runs', r \in Nat, GoOn("read", r) PROVE GuardGoesOn
    BY <1>1, <1>4 DEF GuardGoesOn, GoOn, Guard
<1>5. CASE OfMessage # {}
  <2>1. runs' = runs
      BY <1>3, <1>5 DEF MessageTask
  <2>2. GuardGoesOn
      BY <1>1, <1>3, <1>4, <2>1, RunList DEF GuardGoesOn, OfMessage
  <2> QED BY <1>1, <1>2, <1>3, <2>1, <2>2, FindKeeps
<1>6. CASE OfMessage = {}
  <2>1. CanRun /\ runs' = Append(runs, NewRun("message", 0, guard.seen.text, inFolder))
      BY <1>2, <1>3, <1>6 DEF MessageTask
  <2>2. NewRun("message", 0, guard.seen.text, inFolder) \in Run
      BY <1>1, NewRunType
  <2>3. DOMAIN runs' \subseteq Nat
      BY <1>1, <2>1, <2>2, RunStarted, RunList
  <2>4. GuardGoesOn
      BY <1>3, <1>4, <2>3 DEF GuardGoesOn, OfMessage
  <2> QED BY <1>1, <1>2, <1>3, <2>1, <2>4, StartKeeps
<1> QED BY <1>5, <1>6

LEMMA JustOnceKeeps ==
    ASSUME ChoreInv, JustOnce
    PROVE  ChoreInv'
<1>1. /\ CanRun /\ runs' = Append(runs, NewRun("message", 0, 0, FALSE))
      /\ UNCHANGED <<now, row, lives, folder, leaving, timer, guard>>
    BY DEF JustOnce
<1>2. folder' = (folder \/ FALSE) /\ timer' \in Timer
    BY <1>1 DEF ChoreInv, ChoreTypeOK
<1> QED BY <1>1, <1>2, StartKeeps DEF GuardGoesOn
----------------------------------------------------------------------------
(* The other steps of the timer's and the person's runs *)

LEMMA TimerStopKeeps ==
    ASSUME ChoreInv, TimerStops
    PROVE  ChoreInv'
<1>1. /\ guard \in Guard /\ guard.who = "timer" /\ guard.at = "stopping" /\ timer \in Timer
      /\ guard.seen.last = row.last /\ row.last \in {0} \cup DOMAIN runs /\ runs \in Seq(Run)
      /\ UNCHANGED <<now, row, lives, folder, leaving, timer>>
    BY DEF ChoreInv, ChoreTypeOK, TimerStops, Held, HolderSound
<1>2. 0 \notin DOMAIN runs
    BY <1>1, RunList
<1>3. CASE runs' = runs /\ GoOn("pass", 0)
    BY <1>1, <1>3, FindKeeps DEF GoOn, ChoreInv, ChoreTypeOK
<1>4. CASE runs' = [runs EXCEPT ![row.last].open = FALSE] /\ GoOn("start", 0)
  <2>1. /\ guard' \in Guard /\ guard'.who = "timer" /\ guard'.at = "start"
        /\ guard'.seen = guard.seen
      BY <1>1, <1>4 DEF GoOn, Guard
  <2>2. CASE row.last \in DOMAIN runs
      BY <1>1, <1>4, <2>1, <2>2, EndKeeps DEF Held, TimerStopped
  <2>3. CASE row.last \notin DOMAIN runs
    <3>1. runs' = runs
        BY <1>1, <1>4, <2>3, RunList
    <3> QED BY <1>1, <2>1, <2>3, <3>1 DEF ChoreInv, ChoreTypeOK, HolderSound, WayClear,
            RunsSound, FolderSound, SlotRunsOnce, Saved, StillOpen
  <2> QED BY <2>2, <2>3
<1> QED BY <1>1, <1>3, <1>4 DEF TimerStops

LEMMA TimerLinkKeeps ==
    ASSUME ChoreInv, TimerLinks
    PROVE  ChoreInv'
<1>1. /\ guard.who = "timer" /\ guard.at = "link" /\ Saved /\ row \in Row
      /\ guard.run \in DOMAIN runs /\ guard.seen.once \in BOOLEAN /\ runs \in Seq(Run)
      /\ timer.time \in Nat /\ row.enabled \in BOOLEAN /\ folder \in BOOLEAN
      /\ UNCHANGED <<now, lives, folder, leaving>> /\ guard' = NoGuard /\ timer' = Retiring
    BY DEF ChoreInv, ChoreTypeOK, TimerLinks, TimerLeaves, Release, Held, HolderSound, Guard,
           Row, Timer
<1>2. timer' \in Timer /\ timer'.at = "retire"
    BY <1>1, RetiringTimer
<1>3. CASE Current
  <2>1. row' = After(guard.run) /\ runs' = Linked(guard.run, guard.seen.once)
      BY <1>3 DEF TimerLinks
  <2>2. ~guard.seen.once => ~StillOpen(row.last)
      BY <1>1 DEF ChoreInv, WayClear
  <2> DEFINE next == IF guard.seen.once THEN 0 ELSE Plan(timer.time)
             enabled == row.enabled /\ ~guard.seen.once
  <2>3. next \in Nat /\ enabled \in BOOLEAN /\ guard.run \in Nat
      BY <1>1, RunList DEF Plan
  <2>4. row' = Advanced(next, guard.run, enabled)
      BY <2>1 DEF After
  <2> HIDE DEF next, enabled
  <2>5. row' \in Row /\ row'.life = row.life /\ row'.last = guard.run
      BY <1>1, <2>3, <2>4, AdvancedType
  <2> QED BY <1>1, <1>2, <2>1, <2>2, <2>5, LinkKeeps
<1>4. CASE ~Current
    BY <1>1, <1>2, <1>4, FindKeeps DEF TimerLinks, GuardGoesOn
<1> QED BY <1>3, <1>4

LEMMA LinksRunKeeps ==
    ASSUME ChoreInv, LinksRun
    PROVE  ChoreInv'
<1>1. /\ guard.who \in {"now", "chat"} /\ guard.at = "link" /\ Saved /\ row \in Row
      /\ guard.run \in DOMAIN runs /\ runs \in Seq(Run) /\ timer \in Timer
      /\ row.enabled \in BOOLEAN /\ row.next \in Nat /\ folder \in BOOLEAN
      /\ UNCHANGED <<now, lives, folder, leaving, timer>> /\ guard' = NoGuard
    BY DEF ChoreInv, ChoreTypeOK, LinksRun, Release, HolderSound, Row
<1>2. CASE Current
  <2>1. /\ row' = Advanced(row.next, guard.run, row.enabled)
        /\ runs' = Linked(guard.run, guard.who = "chat")
      BY <1>2 DEF LinksRun
  <2>2. guard.who # "chat" => ~StillOpen(row.last)
      BY <1>1 DEF ChoreInv, WayClear
  <2>3. guard.run \in Nat
      BY <1>1, RunList
  <2>4. row' \in Row /\ row'.life = row.life /\ row'.last = guard.run
      BY <1>1, <2>1, <2>3, AdvancedType
  <2> DEFINE displaces == guard.who = "chat"
  <2>5. displaces \in BOOLEAN /\ (~displaces => ~StillOpen(row.last))
        /\ runs' = Linked(guard.run, displaces)
      BY <2>1, <2>2
  <2> HIDE DEF displaces
  <2> QED BY <1>1, <2>4, <2>5, LinkKeeps
<1>3. CASE ~Current
    BY <1>1, <1>3, FindKeeps DEF LinksRun, GuardGoesOn
<1> QED BY <1>2, <1>3
----------------------------------------------------------------------------
(* Saves and deletes *)

LEMMA SaveKeeps ==
    ASSUME ChoreInv, Save
    PROVE  ChoreInv'
<1>1. /\ ChoreTypeOK /\ HolderSound /\ WayClear /\ RunsSound /\ FolderSound /\ SlotRunsOnce
      /\ runs \in Seq(Run) /\ row \in Row /\ lives \in Nat /\ now \in Nat
      /\ guard.who = "nobody" /\ UNCHANGED <<now, runs, folder, leaving, timer>>
    BY DEF ChoreInv, ChoreTypeOK, Save, FreeGuard
<1>2. /\ row' \in Row /\ lives' \in Nat
      /\ \/ Saved /\ row' = row /\ lives' = lives
         \/ ~Saved /\ lives' = lives + 1 /\ row'.life = lives + 1 /\ row'.last = 0
  <2>1. CASE Saved
      BY <1>1, <2>1 DEF Save
  <2>2. CASE ~Saved
    <3> PICK once \in BOOLEAN : row' = NewRow(lives + 1, once, Plan(now))
        BY <2>2 DEF Save, NewRow
    <3>1. lives + 1 \in Nat /\ Plan(now) \in Nat /\ lives' = lives + 1
        BY <1>1, <2>2 DEF Save, Plan
    <3> QED BY <2>2, <3>1, NewRowType
  <2> QED BY <2>1, <2>2
<1>3. Saved' /\ row'.life = lives' /\ lives' >= 1
    BY <1>1, <1>2 DEF RunsSound, Saved, NoRow
<1>4. \/ guard' = guard
      \/ /\ guard' \in Guard /\ guard'.who = "chat" /\ guard'.seen = row'
         /\ guard'.at = "read" /\ guard'.run \in DOMAIN runs
      \/ /\ guard' \in Guard /\ guard'.who = "chat" /\ guard'.seen = row'
         /\ guard'.at = "begin"
  <2>1. ASSUME NEW r \in DOMAIN runs, Hold("chat", "read", row', r)
        PROVE  guard' \in Guard /\ guard'.who = "chat" /\ guard'.seen = row'
               /\ guard'.at = "read" /\ guard'.run \in DOMAIN runs
    <3>1. r \in Nat
        BY <1>1, RunList
    <3> QED BY <1>2, <2>1, <3>1 DEF Hold, Guard
  <2>2. ASSUME Hold("chat", "begin", row', 0)
        PROVE  guard' \in Guard /\ guard'.who = "chat" /\ guard'.seen = row'
               /\ guard'.at = "begin"
      BY <1>2, <2>2 DEF Hold, Guard
  <2> QED BY <2>1, <2>2 DEF Save, OfMessage
<1>5. row'.last \in {0} \cup DOMAIN runs
    BY <1>1, <1>2 DEF ChoreTypeOK
<1>6. ChoreTypeOK'
    BY <1>1, <1>2, <1>4, <1>5 DEF ChoreTypeOK
<1>7. HolderSound' /\ WayClear'
    BY <1>1, <1>3, <1>4 DEF HolderSound, WayClear
<1>8. RunsSound'
  <2>1. ~Saved => row.last = 0
      BY DEF Saved, NoRow
  <2>2. \A r \in DOMAIN runs : runs[r].life \in Nat
      BY <1>1, RunList DEF Run
  <2> QED BY <1>1, <1>2, <1>3, <2>1, <2>2, RunList DEF RunsSound
<1>9. FolderSound'
  <2>1. \A r \in DOMAIN runs : runs[r].life \in Nat
      BY <1>1, RunList DEF Run
  <2>2. guard'.who # "delete"
      BY <1>1, <1>4
  <2>3. ASSUME NEW r \in DOMAIN runs, runs[r].inFolder, runs[r].life = row'.life
        PROVE  folder
      BY <1>1, <1>2, <2>1, <2>3 DEF FolderSound, RunsSound
  <2>4. lives' # 0 /\ (lives' = 1 => leaving = {} /\ timer.at # "remove")
      BY <1>1, <1>2, <1>3 DEF FolderSound
  <2> QED BY <1>1, <2>2, <2>3, <2>4 DEF FolderSound
<1>10. SlotRunsOnce'
    BY <1>1 DEF SlotRunsOnce
<1> QED BY <1>6, <1>7, <1>8, <1>9, <1>10 DEF ChoreInv

(* The deleter has the row and, behind it, the folder to remove. *)
LEMMA DeleteRowKeeps ==
    ASSUME ChoreInv, DeleteRow
    PROVE  ChoreInv'
<1>1. /\ ChoreTypeOK /\ HolderSound /\ WayClear /\ RunsSound /\ FolderSound /\ SlotRunsOnce
      /\ runs \in Seq(Run) /\ row \in Row /\ lives \in Nat /\ Saved
      /\ row' = NoRow /\ UNCHANGED <<now, lives, folder, leaving, timer>>
    BY DEF ChoreInv, ChoreTypeOK, DeleteRow
<1>2. /\ guard' \in Guard /\ guard'.who = "delete" /\ guard'.at = "folder"
      /\ guard'.seen = row
    BY <1>1 DEF DeleteRow, Hold, Guard
<1> DEFINE unlinked(r) == [runs[r] EXCEPT !.linked = FALSE]
<1>3. ASSUME NEW r \in DOMAIN runs
      PROVE  /\ unlinked(r) \in Run /\ unlinked(r).by = runs[r].by
             /\ unlinked(r).slot = runs[r].slot /\ unlinked(r).life = runs[r].life
             /\ unlinked(r).inFolder = runs[r].inFolder /\ unlinked(r).linked = FALSE
    BY <1>1, RunList DEF Run
<1>4. runs' = [r \in DOMAIN runs |-> unlinked(r)]
    BY DEF DeleteRow
<1> HIDE DEF unlinked
<1>5. /\ runs' \in Seq(Run) /\ DOMAIN runs' = DOMAIN runs /\ Len(runs') = Len(runs)
      /\ \A r \in DOMAIN runs : runs'[r] = unlinked(r)
  <2>1. runs' \in [DOMAIN runs -> Run] /\ \A r \in DOMAIN runs : runs'[r] = unlinked(r)
      BY <1>3, <1>4
  <2> QED BY <1>1, <2>1, RunsInPlace
<1>6. NoRow.last = 0 /\ ~Saved'
    BY <1>1 DEF NoRow, Saved
<1>12. \A r \in DOMAIN runs : /\ runs'[r].life = runs[r].life /\ ~runs'[r].linked
                             /\ runs'[r].inFolder = runs[r].inFolder
    BY <1>3, <1>5
<1>7. ChoreTypeOK'
    BY <1>1, <1>2, <1>5, <1>6, NoRowType DEF ChoreTypeOK
<1>8. HolderSound' /\ WayClear'
    BY <1>1, <1>2, <1>6 DEF HolderSound, WayClear, RunsSound
<1>9. RunsSound'
    BY <1>1, <1>5, <1>6, <1>12 DEF RunsSound
<1>10. FolderSound'
  <2>1. leaving = {} \/ lives # 1
      BY <1>1 DEF FolderSound
  <2>2. timer.at # "remove" \/ lives # 1
      BY <1>1 DEF FolderSound
  <2>3. ASSUME NEW r \in DOMAIN runs, runs[r].inFolder, runs[r].life = row.life
        PROVE  folder
      BY <1>1, <2>3 DEF FolderSound
  <2>4. \A r \in DOMAIN runs' :
            /\ runs'[r].inFolder
            /\ guard'.who = "delete" /\ runs'[r].life = guard'.seen.life
            => folder'
      BY <1>1, <1>2, <1>5, <1>12, <2>3
  <2>5. lives = 0 => leaving = {} /\ timer.at # "remove"
      BY <1>1 DEF FolderSound
  <2>6. lives = 1 => /\ leaving = {} /\ timer.at # "remove"
                     /\ \A a, b \in leaving : a = b
      BY <2>1, <2>2
  <2>7. UNCHANGED <<lives, leaving, timer>>
      BY <1>1
  <2> QED BY <1>6, <2>4, <2>5, <2>6, <2>7 DEF FolderSound
<1>11. SlotRunsOnce'
  <2>1. \A r \in DOMAIN runs : runs'[r].by = runs[r].by /\ runs'[r].slot = runs[r].slot
      BY <1>3, <1>5
  <2> QED BY <1>1, <1>5, <2>1 DEF SlotRunsOnce
<1> QED BY <1>7, <1>8, <1>9, <1>10, <1>11 DEF ChoreInv

LEMMA DeleteFolderKeeps ==
    ASSUME ChoreInv, DeleteFolder
    PROVE  ChoreInv'
<1> DEFINE last == guard.seen.last
<1>1. /\ ChoreTypeOK /\ HolderSound /\ WayClear /\ RunsSound /\ FolderSound /\ SlotRunsOnce
      /\ runs \in Seq(Run) /\ lives \in Nat /\ folder \in BOOLEAN
      /\ guard.who = "delete" /\ ~Saved /\ guard.seen.life \in 1..lives
      /\ guard' = NoGuard /\ UNCHANGED <<now, row, lives, runs, timer>>
    BY DEF ChoreInv, ChoreTypeOK, DeleteFolder, Held, HolderSound, Release
<1>2. \/ /\ last \in DOMAIN runs /\ runs[last].inFolder
         /\ leaving' = leaving \cup {last} /\ folder' = folder
      \/ leaving' = leaving /\ folder' \in BOOLEAN
    BY <1>1 DEF DeleteFolder, StillOpen
<1>3. folder' \in BOOLEAN /\ leaving' \subseteq DOMAIN runs
    BY <1>1, <1>2 DEF ChoreTypeOK
<1>4. ChoreTypeOK'
    BY <1>1, <1>3, NoGuardType DEF ChoreTypeOK
<1>5. HolderSound' /\ WayClear' /\ RunsSound' /\ SlotRunsOnce'
    BY <1>1, NoGuardType DEF HolderSound, WayClear, RunsSound, SlotRunsOnce, Saved
<1>6. lives >= 1
    BY <1>1
<1>7. lives = 1 => leaving = {} /\ timer.at # "remove"
    BY <1>1 DEF FolderSound
<1>8. lives = 1 /\ leaving' # {} => leaving' = {last} /\ folder'
  <2>1. CASE last \in DOMAIN runs /\ runs[last].inFolder /\ leaving' = leaving \cup {last}
             /\ folder' = folder
    <3>1. lives = 1 => runs[last].life = guard.seen.life
      <4>1. runs[last].life \in Nat /\ runs[last].life <= lives /\ runs[last].life >= 1
          BY <1>1, <2>1, RunList DEF RunsSound, Run
      <4> QED BY <1>1, <4>1
    <3>2. lives = 1 => folder
        BY <1>1, <2>1, <3>1 DEF FolderSound
    <3> QED BY <1>7, <2>1, <3>2
  <2> QED BY <1>2, <1>7, <2>1
<1>9. FolderSound'
    BY <1>1, <1>6, <1>7, <1>8, NoGuardType DEF FolderSound, Saved
<1> QED BY <1>4, <1>5, <1>9 DEF ChoreInv
----------------------------------------------------------------------------
(* The theorems *)

LEMMA ChoreInitInv == ChoreInit => ChoreInv
<1> SUFFICES ASSUME ChoreInit PROVE ChoreInv
    OBVIOUS
<1>1. /\ now = 0 /\ row = NoRow /\ lives = 0 /\ runs = <<>> /\ folder = FALSE
      /\ leaving = {} /\ timer = Idle /\ guard = NoGuard /\ ~Saved
    BY DEF ChoreInit, Saved
<1>2. runs \in Seq(Run) /\ DOMAIN runs = {} /\ Len(runs) = 0
    BY <1>1, EmptySeq, LenProperties
<1>3. Idle \in Timer /\ Idle.at = "idle"
    BY DEF Idle, Timer
<1>4. ChoreTypeOK
    BY <1>1, <1>2, <1>3, NoRowType, NoGuardType DEF ChoreTypeOK, NoRow
<1>5. HolderSound /\ WayClear
    BY <1>1, NoGuardType DEF HolderSound, WayClear
<1>6. RunsSound /\ FolderSound /\ SlotRunsOnce
    BY <1>1, <1>2, <1>3, RunsAssumption DEF RunsSound, FolderSound, SlotRunsOnce
<1> QED BY <1>4, <1>5, <1>6 DEF ChoreInv

LEMMA ChoreNextInv == ChoreInv /\ [ChoreNext]_choreVars => ChoreInv'
<1> SUFFICES ASSUME ChoreInv, [ChoreNext]_choreVars PROVE ChoreInv'
    OBVIOUS
<1>1. CASE TimerSteps \/ Beat \/ RunNow \/ Delegate
  <2>1. UNCHANGED <<row, lives, runs>>
      BY <1>1 DEF TimerSteps, Beat, RunNow, Delegate, Tick, TimerEnters, RemoveRetired,
                  TickEnds, Retire
  <2> QED BY <1>1, <2>1, QuietSteps DEF TimerSteps
<1>2. CASE TimerHolds \/ ReadsAgain \/ TimerRefused \/ GivesUp
  <2>1. UNCHANGED <<row, lives, runs>>
      BY <1>2 DEF TimerHolds, ReadsAgain, TimerRefused, GivesUp
  <2> QED BY <1>2, <2>1, QuietSteps
<1>3. CASE HolderSteps
    BY <1>2, <1>3, TimerStopKeeps, TimerStartKeeps, PassKeeps, TimerLinkKeeps, NowStartKeeps,
       LinksRunKeeps, ChatStartKeeps, DeleteFolderKeeps DEF HolderSteps
<1>4. CASE Changes
    BY <1>1, <1>4, EditKeeps, SaveKeeps, JustOnceKeeps, DeleteRowKeeps DEF Changes
<1>5. CASE Failures
  <2>1. CASE CrashGateway \/ TimerWriteFails
    <3>1. UNCHANGED <<row, lives, runs>>
        BY <2>1 DEF CrashGateway, TimerWriteFails
    <3> QED BY <2>1, <3>1, QuietSteps
  <2> QED BY <1>2, <1>5, <2>1, TimerStartKeeps DEF Failures
<1>6. ASSUME NEW r \in DOMAIN runs, TaskEnds(r) PROVE ChoreInv'
  <2>1. /\ runs' = [runs EXCEPT ![r].open = FALSE]
        /\ UNCHANGED <<now, row, lives, folder, leaving, timer>> /\ guard' = guard
      BY <1>6 DEF TaskEnds
  <2> QED BY <2>1, EndKeeps
<1>7. CASE UNCHANGED choreVars
    BY <1>7 DEF choreVars, ChoreInv, ChoreTypeOK, HolderSound, WayClear, RunsSound,
       FolderSound, SlotRunsOnce, Saved, StillOpen
<1> QED BY <1>1, <1>3, <1>4, <1>5, <1>6, <1>7 DEF ChoreNext

LEMMA ChoreInvHolds == ChoreSpec => []ChoreInv
BY ChoreInitInv, ChoreNextInv, PTL DEF ChoreSpec

(* The chore's row, runs and folder and what everybody who works on them   *)
(* holds are of their type (chore_store.py, console/chores.py).            *)
THEOREM ChoreTypeCorrect == ChoreSpec => []ChoreTypeOK
<1>1. ChoreInv => ChoreTypeOK
    BY DEF ChoreInv
<1> QED BY <1>1, ChoreInvHolds, PTL

(* No slot ever starts two runs, for any number of failed writes, crashes  *)
(* and edits between the tries (_start_scheduled's key per slot).          *)
THEOREM SlotsRunOnce == ChoreSpec => []SlotRunsOnce
<1>1. ChoreInv => SlotRunsOnce
    BY DEF ChoreInv
<1> QED BY <1>1, ChoreInvHolds, PTL

(* No step removes the folder from under a run that the row names, or that *)
(* outlives its chore (delete, _retire).                                   *)
THEOREM FolderStays == ChoreSpec => []FolderKept
<1>1. ChoreInv => FolderKept
  <2> SUFFICES ASSUME ChoreInv, NEW r \in DOMAIN runs, StillOpen(r), runs[r].inFolder,
                      \/ r = row.last /\ runs[r].life = row.life
                      \/ r \in leaving /\ lives = 1
               PROVE  folder
      BY DEF FolderKept
  <2>1. FolderSound /\ runs \in Seq(Run)
      BY DEF ChoreInv, ChoreTypeOK
  <2>2. r # 0
      BY <2>1, RunList
  <2>3. r = row.last => Saved
      BY <2>2 DEF Saved, NoRow
  <2> QED BY <2>1, <2>3 DEF FolderSound
<1> QED BY <1>1, ChoreInvHolds, PTL

(* Neither the timer nor Run now starts a run beside an open one that the  *)
(* row came to name, or for a chore that is gone (_holds, run_now).        *)
THEOREM OneAtATime == ChoreSpec => RunsOneAtATime
<1> DEFINE Alone == \A r \in DOMAIN runs' \ DOMAIN runs :
          runs'[r].by # "message" =>
             /\ Saved
             /\ ~guard.seen.once => \A other \in DOMAIN runs :
                                     ~(StillOpen(other) /\ runs[other].linked)
<1>1. ChoreInv /\ [ChoreNext]_choreVars => Alone
  <2> SUFFICES ASSUME ChoreInv, [ChoreNext]_choreVars,
                      NEW r \in DOMAIN runs' \ DOMAIN runs, runs'[r].by # "message"
               PROVE  /\ Saved
                      /\ ~guard.seen.once => \A other \in DOMAIN runs :
                                     ~(StillOpen(other) /\ runs[other].linked)
      OBVIOUS
  <2>1. TimerStarts \/ TimerStartFails \/ NowStarts
    <3>1. DOMAIN runs' # DOMAIN runs /\ runs \in Seq(Run) /\ row \in Row
        BY DEF ChoreInv, ChoreTypeOK
    <3>2. ASSUME runs' = runs \/ DOMAIN runs' = DOMAIN runs PROVE FALSE
        BY <3>1, <3>2
    <3>3. ~(TimerStops \/ TimerLinks \/ LinksRun \/ DeleteRow)
        BY <3>1 DEF TimerStops, TimerLinks, LinksRun, DeleteRow, Linked
    <3>4. ASSUME NEW text \in Nat, NEW inFolder \in BOOLEAN,
                 runs' = Append(runs, NewRun("message", 0, text, inFolder))
          PROVE  FALSE
      <4>1. NewRun("message", 0, text, inFolder) \in Run
          BY <3>1, NewRunType
      <4>2. runs'[r] = NewRun("message", 0, text, inFolder)
          BY <3>1, <3>4, <4>1, RunStarted
      <4> QED BY <4>2 DEF NewRun
    <3>5. ~JustOnce
        BY <3>4 DEF JustOnce
    <3>6. ~ChatStarts
      <4>1. guard.seen.text \in Nat
          BY DEF ChoreInv, ChoreTypeOK, Guard, Row
      <4> QED BY <3>2, <3>4, <4>1 DEF ChatStarts, MessageTask, Folders
    <3>7. ~(TimerSteps \/ TimerHolds \/ TimerPasses \/ ReadsAgain \/ DeleteFolder
              \/ TimerRefused \/ GivesUp \/ Edit \/ Rehome \/ RunNow \/ Save \/ Delegate
              \/ TimerWriteFails \/ CrashGateway \/ Beat \/ UNCHANGED choreVars)
        BY <3>2 DEF TimerSteps, TimerHolds, TimerPasses, ReadsAgain, DeleteFolder,
           TimerRefused, GivesUp, Edit, Rehome, RunNow, Save, Delegate, TimerWriteFails,
           CrashGateway, Beat, choreVars, Tick, TimerEnters, RemoveRetired, TickEnds, Retire
    <3>8. ~(\E x \in DOMAIN runs : TaskEnds(x))
        BY <3>1 DEF TaskEnds
    <3> QED BY <3>3, <3>5, <3>6, <3>7, <3>8 DEF ChoreNext, HolderSteps, Changes, Failures
  <2>2. \/ guard.who = "timer" /\ guard.at = "start"
        \/ guard.who = "now"
      BY <2>1 DEF TimerStarts, TimerStartFails, NowStarts, Held
  <2>3. Saved /\ (~guard.seen.once => ~StillOpen(row.last))
      BY <2>2 DEF ChoreInv, HolderSound, WayClear
  <2> QED BY <2>3 DEF ChoreInv, RunsSound, StillOpen
<1>2. ChoreInv /\ [ChoreNext]_choreVars => [Alone]_choreVars
    BY <1>1
<1> QED BY <1>2, ChoreInvHolds, PTL DEF ChoreSpec, RunsOneAtATime
=============================================================================
