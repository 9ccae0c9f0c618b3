--------------------------- MODULE Sessions_proof ---------------------------
(***************************************************************************)
(* What holds of a session for any number of processes, keys and turns:    *)
(* one turn at a time that somebody answers for, ends that are what the    *)
(* runs came to, that its turns are a TurnLog, and that a run goes on the  *)
(* conversation it should.                                                 *)
(***************************************************************************)
EXTENDS Sessions, SequenceTheorems, FiniteSetTheorems, WellFoundedInduction, TLAPS

(* A turn that runs is the last one; one that ended keeps what its run     *)
(* came to.                                                                *)
TurnSound(n) ==
    /\ turns[n].status = "running" => n = Len(turns)
    /\ turns[n].kept => turns[n].ran # "none"
    /\ turns[n].status # "running" =>
          /\ turns[n].kept => turns[n].status = turns[n].ran
          /\ turns[n].status = "completed" => turns[n].ran = "completed"

(* What a process works on is a turn it holds, and the end that it keeps   *)
(* for another try is the end that turn came to.                           *)
ProcSound(p) ==
    /\ At(p, "new") => \A n \in DOMAIN turns : turns[n].holder # p
    /\ runner[p].at \in InTurn =>
          /\ runner[p].turn \in DOMAIN turns /\ turns[runner[p].turn].holder = p
          /\ runner[p].lost = NoEnd
    /\ runner[p].at \in Stoppable =>
          turns[runner[p].turn].ran = "none" /\ ~turns[runner[p].turn].kept
    /\ At(p, "ending") => turns[runner[p].turn].ran # "none"
    /\ runner[p].failed => writer = "gateway"
    /\ runner[p].lost # NoEnd =>
          LET lost == turns[runner[p].lost.turn]
          IN  /\ runner[p].lost.turn \in DOMAIN turns /\ lost.holder = p
              /\ runner[p].lost.ran <=> lost.ran # "none"
              /\ IF lost.ran = "none" THEN runner[p].lost.status # "completed"
                                      ELSE runner[p].lost.status = lost.ran

(* A terminal's process never counts more undos than there were, and the   *)
(* one it is about to count is there.                                      *)
MarkSound(p) ==
    LET undone == Cardinality(Undone)
    IN  /\ runner[p].mark.undone <= undone /\ runner[p].later.undone <= undone
        /\ writer = "cli" /\ At(p, "undone") => runner[p].mark.undone < undone

(* Whoever holds the running turn answers for it. *)
Answers(p, n) ==
    \/ ~Alive(p)
    \/ runner[p].at \in InTurn /\ runner[p].turn = n
    \/ runner[p].lost.turn = n
    \/ runner[p].failed

SessionInv ==
    /\ TypeOK
    /\ \A n \in DOMAIN turns : TurnSound(n)
    /\ \A p \in Procs : ProcSound(p) /\ MarkSound(p)
    /\ RunningHasRunner
-----------------------------------------------------------------------------
(* The list of turns *)

LEMMA TurnList ==
    ASSUME turns \in Seq(Turn)
    PROVE  Len(turns) \in Nat /\ DOMAIN turns = 1..Len(turns) /\ turns \in [DOMAIN turns -> Turn]
BY LenProperties

LEMMA TurnsInPlace ==
    ASSUME turns \in Seq(Turn), NEW new \in [DOMAIN turns -> Turn]
    PROVE  new \in Seq(Turn) /\ DOMAIN new = DOMAIN turns /\ Len(new) = Len(turns)
<1>1. Len(turns) \in Nat /\ DOMAIN turns = 1..Len(turns)
    BY TurnList
<1>2. new \in Seq(Turn)
    BY <1>1, SeqDef
<1> QED BY <1>1, <1>2, LenProperties

LEMMA UndoneCount ==
    ASSUME NEW log \in Seq(Turn)
    PROVE  LET undone == {n \in DOMAIN log : log[n].undone}
           IN  /\ IsFiniteSet(undone) /\ Cardinality(undone) \in Nat
               /\ Cardinality(undone) <= Len(log)
<1> DEFINE undone == {n \in DOMAIN log : log[n].undone}
<1>1. Len(log) \in Nat /\ undone \in SUBSET (1..Len(log))
    BY LenProperties
<1>2. IsFiniteSet(1..Len(log)) /\ Cardinality(1..Len(log)) = Len(log)
  <2>1. 1 \in Int /\ Len(log) \in Int
      BY <1>1
  <2>2. /\ IsFiniteSet(1..Len(log))
        /\ Cardinality(1..Len(log)) = IF 1 > Len(log) THEN 0 ELSE Len(log) - 1 + 1
      BY <2>1, FS_Interval
  <2> QED BY <1>1, <2>2
<1> HIDE DEF undone
<1>3. IsFiniteSet(undone) /\ Cardinality(undone) <= Len(log)
    BY <1>1, <1>2, FS_Subset
<1> QED BY <1>3, FS_CardinalityType DEF undone

LEMMA UndoneGrows ==
    ASSUME turns \in Seq(Turn), turns' \in Seq(Turn), Undone \subseteq Undone'
    PROVE  /\ Cardinality(Undone) \in Nat /\ Cardinality(Undone') \in Nat
           /\ Cardinality(Undone) <= Cardinality(Undone')
           /\ Undone # Undone' => Cardinality(Undone) < Cardinality(Undone')
<1>1. IsFiniteSet(Undone') /\ Cardinality(Undone') \in Nat /\ Cardinality(Undone) \in Nat
    BY UndoneCount DEF Undone
<1> QED BY <1>1, FS_Subset

(* How a stale turn ends. *)
LEMMA StaleEnds ==
    ASSUME NEW p \in Procs, NEW turn \in Turn, turn.kept => turn.ran # "none"
    PROVE  LET end == StaleEnd(p, turn)
           IN  /\ end \in Turn /\ end.status # "running"
               /\ end.holder = turn.holder /\ end.undone = turn.undone /\ end.key = turn.key
               /\ end.ran = turn.ran /\ end.kept = turn.kept
               /\ end.kept => end.status = end.ran
               /\ end.status = "completed" => end.ran = "completed"
               /\ turn.taken => end.taken
BY DEF StaleEnd, Turn, Ends
-----------------------------------------------------------------------------
(* One process's step *)

(* What a step of p may do to the turns: none goes away or comes back to   *)
(* life, none is redone, and what a run came to is its own process's.      *)
TurnsMove(p) ==
    /\ turns' \in Seq(Turn) /\ Len(turns') <= MaxTurns /\ DOMAIN turns \subseteq DOMAIN turns'
    /\ \A n \in DOMAIN turns :
          /\ turns'[n].holder = turns[n].holder
          /\ turns[n].undone => turns'[n].undone
          /\ turns[n].holder # p =>
                turns'[n].ran = turns[n].ran /\ turns'[n].kept = turns[n].kept
          /\ turns'[n].status = "running" => turns[n].status = "running"
    /\ \A n \in DOMAIN turns' \ DOMAIN turns : turns'[n].holder = p

LEMMA MarksKeep ==
    ASSUME TypeOK, NEW p \in Procs, TurnsMove(p)
    PROVE  /\ Cardinality(Undone) \in Nat /\ Cardinality(Undone') \in Nat
           /\ Cardinality(Undone) <= Cardinality(Undone')
<1>1. Undone \subseteq Undone'
    BY DEF TurnsMove, Undone
<1> QED BY <1>1, UndoneGrows DEF TypeOK, TurnsMove

LEMMA OthersKeep ==
    ASSUME SessionInv, NEW p \in Procs, NEW q \in Procs, q # p, TurnsMove(p),
           runner'[q] = runner[q], writer' = writer
    PROVE  /\ ProcSound(q)' /\ MarkSound(q)'
           /\ \A n \in Running' : turns'[n].holder = q => Answers(q, n)'
<1>1. ProcSound(q) /\ MarkSound(q) /\ TypeOK /\ runner[q] \in Runner /\ RunningHasRunner
    BY DEF SessionInv, TypeOK
<1>2. ProcSound(q)'
  <2>1. At(q, "new")' => \A n \in DOMAIN turns' : turns'[n].holder # q
      BY <1>1 DEF ProcSound, TurnsMove, At
  <2>2. ASSUME NEW n \in DOMAIN turns, turns[n].holder = q
        PROVE  /\ n \in DOMAIN turns' /\ turns'[n].holder = q
               /\ turns'[n].ran = turns[n].ran /\ turns'[n].kept = turns[n].kept
      BY <2>2 DEF TurnsMove
  <2>3. runner[q].at \in InTurn => /\ runner[q].turn \in DOMAIN turns
                                   /\ turns[runner[q].turn].holder = q
      BY <1>1 DEF ProcSound
  <2>4. Stoppable \subseteq InTurn /\ "ending" \in InTurn
      BY DEF Stoppable, InTurn
  <2> QED BY <1>1, <2>1, <2>2, <2>3, <2>4 DEF ProcSound, At
<1>3. /\ Cardinality(Undone) \in Nat /\ Cardinality(Undone') \in Nat
      /\ Cardinality(Undone) <= Cardinality(Undone')
    BY <1>1, MarksKeep
<1>4. runner[q].mark.undone \in Nat /\ runner[q].later.undone \in Nat
    BY <1>1, SessionAssumption DEF Runner, Mark
<1>5. MarkSound(q)'
    BY <1>1, <1>3, <1>4 DEF MarkSound, At
<1>6. ASSUME NEW n \in Running', turns'[n].holder = q PROVE Answers(q, n)'
  <2>1. n \in Running /\ turns[n].holder = q
      BY <1>6 DEF Running, TurnsMove
  <2> QED BY <1>1, <2>1 DEF RunningHasRunner, Answers, Alive
<1> QED BY <1>2, <1>5, <1>6

LEMMA StepKeeps ==
    ASSUME SessionInv, NEW p \in Procs, NEW r \in Runner, runner' = [runner EXCEPT ![p] = r],
           TurnsMove(p), writer' = writer,
           lease' \in [holder : Procs \cup {NoProc}, fresh : BOOLEAN],
           window' \in [turn : 0..MaxTurns, conv : SUBSET Numbers], withdrawn' \subseteq Keys,
           \A n \in DOMAIN turns' : TurnSound(n)', ProcSound(p)', MarkSound(p)',
           \A n \in Running' : turns'[n].holder = p => Answers(p, n)'
    PROVE  SessionInv'
<1>1. TypeOK' /\ \A q \in Procs : q # p => runner'[q] = runner[q]
    BY DEF SessionInv, TypeOK, TurnsMove
<1>2. \A q \in Procs : /\ ProcSound(q)' /\ MarkSound(q)'
                       /\ \A n \in Running' : turns'[n].holder = q => Answers(q, n)'
    BY <1>1, OthersKeep
<1>3. \A n \in Running' : turns'[n].holder \in Procs
  <2>1. turns' \in Seq(Turn)
      BY DEF TurnsMove
  <2>2. turns' \in [DOMAIN turns' -> Turn]
      BY <2>1, LenProperties
  <2> QED BY <2>2 DEF Turn, Running
<1>4. RunningHasRunner'
    BY <1>2, <1>3 DEF RunningHasRunner, Answers
<1> QED BY <1>1, <1>2, <1>4 DEF SessionInv

(* A step that leaves the turns alone.  Its process goes on with the turn  *)
(* it has, or is gone, and answers for what it answered for.               *)
LEMMA RunnerKeeps ==
    ASSUME SessionInv, NEW p \in Procs, NEW r \in Runner, runner' = [runner EXCEPT ![p] = r],
           UNCHANGED <<writer, turns, window>>, withdrawn' \subseteq Keys,
           lease' \in [holder : Procs \cup {NoProc}, fresh : BOOLEAN],
           ~At(p, "dead"), r.at # "new", r.lost \in {runner[p].lost, NoEnd}, r.failed => runner[p].failed,
           r.at \in InTurn => /\ runner[p].at \in InTurn /\ r.turn = runner[p].turn
                              /\ r.lost = runner[p].lost,
           r.at \in Stoppable => runner[p].at \in Stoppable,
           r.at = "ending" => At(p, "ending"),
           \/ r.at = "dead"
           \/ /\ runner[p].at \in InTurn => r.at \in InTurn
              /\ r.lost = runner[p].lost /\ r.failed = runner[p].failed
              /\ At(p, "new") => r.at = "opened",
           LET undone == Cardinality(Undone)
           IN  /\ r.mark.undone <= undone /\ r.later.undone <= undone
               /\ writer = "cli" /\ r.at = "undone" => r.mark.undone < undone
    PROVE  SessionInv'
<1>1. /\ TypeOK /\ runner[p] \in Runner /\ ProcSound(p) /\ RunningHasRunner
      /\ \A n \in DOMAIN turns : TurnSound(n)
    BY DEF SessionInv, TypeOK
<1>2. runner'[p] = r
    BY <1>1 DEF TypeOK
<1>3. TurnsMove(p)
    BY <1>1 DEF TypeOK, TurnsMove
<1>4. \A n \in DOMAIN turns' : TurnSound(n)'
    BY <1>1 DEF TurnSound
<1>5. ProcSound(p)'
    BY <1>1, <1>2 DEF ProcSound, At, InTurn, Stoppable
<1>6. MarkSound(p)'
    BY <1>2 DEF MarkSound, At, Undone
<1>7. ASSUME NEW n \in Running', turns'[n].holder = p PROVE Answers(p, n)'
  <2>1. n \in Running /\ turns[n].holder = p /\ n \in DOMAIN turns
      BY <1>7 DEF Running
  <2>2. ~At(p, "new")
      BY <1>1, <2>1 DEF ProcSound
  <2>3. Answers(p, n)
      BY <1>1, <2>1 DEF RunningHasRunner, Answers
  <2> QED BY <1>2, <2>2, <2>3 DEF Answers, Alive, At, InTurn
<1> QED BY <1>1, <1>2, <1>3, <1>4, <1>5, <1>6, <1>7, StepKeeps DEF TypeOK
-----------------------------------------------------------------------------
(* What is read of the turns *)

LEMMA HasMin ==
    ASSUME NEW S \in SUBSET Nat, S # {}
    PROVE  \E n \in S : \A m \in S : n <= m
<1> DEFINE less == OpToRel(<, Nat)
<1>1. IsWellFoundedOn(less, Nat)
    BY NatLessThanWellFounded
<1>2. \A x, y \in Nat : x < y => <<x, y>> \in less
    BY DEF OpToRel
<1> HIDE DEF less
<1>3. PICK n \in S : \A m \in S : <<m, n>> \notin less
    BY <1>1, WFMin
<1>4. \A m \in S : ~(m < n)
    BY <1>2, <1>3
<1>5. \A m \in S : n <= m
    BY <1>4
<1> QED BY <1>5

LEMMA HasMax ==
    ASSUME NEW k \in Nat, NEW S \in SUBSET (0..k), S # {}
    PROVE  \E n \in S : \A m \in S : m <= n
<1> DEFINE T == {t \in Nat : k - t \in S}
<1>1. T # {}
  <2>1. PICK n \in S : TRUE
      OBVIOUS
  <2>2. n \in 0..k
      OBVIOUS
  <2>3. k - n \in Nat /\ k - (k - n) = n
      BY <2>2
  <2> QED BY <2>3
<1>2. PICK t \in T : \A u \in T : t <= u
    BY <1>1, HasMin
<1>3. ASSUME NEW m \in S PROVE m <= k - t
  <2>1. m \in 0..k
      OBVIOUS
  <2>2. k - m \in Nat /\ k - (k - m) = m
      BY <2>1
  <2>3. t <= k - m
      BY <1>2, <2>2
  <2> QED BY <2>1, <2>2, <2>3
<1> QED BY <1>3

(* The mark a process reads: the newest end of a turn that is not its own. *)
Far(p) == {n \in DOMAIN turns : turns[n].holder # p /\ turns[n].status # "running"}

LEMMA CountersRead ==
    ASSUME TypeOK, NEW p \in Procs
    PROVE  /\ Counters(p) \in Mark /\ Counters(p).undone = Cardinality(Undone)
           /\ \A n \in Far(p) : n <= Counters(p).far
           /\ Counters(p).far \in Far(p) \cup {0}
<1> DEFINE newest == IF Far(p) = {} THEN 0 ELSE CHOOSE n \in Far(p) : \A m \in Far(p) : m <= n
<1>1. turns \in Seq(Turn) /\ Len(turns) \in Nat /\ Len(turns) <= MaxTurns
    BY TurnList DEF TypeOK
<1>2. Far(p) \in SUBSET (0..Len(turns))
    BY <1>1, TurnList DEF Far
<1>3. /\ \A n \in Far(p) : n <= newest
      /\ newest \in Far(p) \cup {0}
  <2>1. CASE Far(p) = {}
      BY <2>1
  <2>2. CASE Far(p) # {}
    <3>1. \E n \in Far(p) : \A m \in Far(p) : m <= n
        BY <1>1, <1>2, <2>2, HasMax
    <3> QED BY <2>2, <3>1
  <2> QED BY <2>1, <2>2
<1>4. Cardinality(Undone) \in 0..MaxTurns
    BY <1>1, UndoneCount, SessionAssumption DEF Undone
<1>5. newest \in 0..MaxTurns
    BY <1>1, <1>2, <1>3, SessionAssumption
<1>6. Counters(p) = [far |-> newest, undone |-> Cardinality(Undone)]
    BY DEF Counters, Far
<1> HIDE DEF newest
<1> QED BY <1>3, <1>4, <1>5, <1>6 DEF Mark

LEMMA ConversationsType ==
    ASSUME TypeOK
    PROVE  Conversations \subseteq SUBSET Numbers
<1>1. DOMAIN turns \subseteq Numbers
    BY TurnList, SessionAssumption DEF TypeOK, Numbers
<1> QED BY <1>1 DEF Conversations, Pairs, TypeOK

LEMMA NoMarkType == NoMark \in Mark /\ NoMark.undone = 0
BY SessionAssumption DEF NoMark, Mark

(* A process that is gone. *)
Gone == [Away EXCEPT !.at = "dead"]

LEMMA GoneType ==
    /\ Away \in Runner /\ Gone \in Runner /\ Gone.at = "dead" /\ Gone.lost = NoEnd
    /\ Gone.failed = FALSE /\ Gone.mark.undone = 0 /\ Gone.later.undone = 0
<1>1. NoMark \in Mark /\ NoMark.undone = 0 /\ NoEnd \in End /\ 0 \in 0..MaxTurns
    BY SessionAssumption DEF NoMark, Mark, NoEnd, End, Ends
<1> HIDE DEF NoMark, NoEnd
<1>2. {} \in SUBSET Numbers
    OBVIOUS
<1>3. Away \in Runner /\ Away.lost = NoEnd /\ Away.failed = FALSE
      /\ Away.mark = NoMark /\ Away.later = NoMark
    BY <1>1, <1>2 DEF Away, Runner, Places
<1> QED BY <1>1, <1>3 DEF Gone, Runner, Places
-----------------------------------------------------------------------------
(* The steps that leave the turns alone *)

LEMMA Known ==
    ASSUME SessionInv, NEW p \in Procs
    PROVE  /\ TypeOK /\ runner[p] \in Runner /\ Cardinality(Undone) \in Nat
           /\ lease \in [holder : Procs \cup {NoProc}, fresh : BOOLEAN]
           /\ withdrawn \subseteq Keys
           /\ runner[p].mark.undone <= Cardinality(Undone)
           /\ runner[p].later.undone <= Cardinality(Undone)
BY UndoneCount DEF SessionInv, TypeOK, MarkSound, Undone

LEMMA GoneKeeps ==
    ASSUME SessionInv, NEW p \in Procs, Alive(p), Becomes(p, Gone),
           UNCHANGED <<writer, turns, lease, window, withdrawn>>
    PROVE  SessionInv'
<1>1. Cardinality(Undone) >= 0
    BY Known
<1>2. ~("dead" \in InTurn) /\ ~("dead" \in Stoppable) /\ ~At(p, "dead")
    BY DEF InTurn, Stoppable, Alive, At
<1> QED BY <1>1, <1>2, Known, GoneType, RunnerKeeps DEF Becomes

(* A step that moves the process from one place to another, and may stop   *)
(* its run, register its session or give it another conversation.          *)
LEMMA MoveKeeps ==
    ASSUME SessionInv, NEW p \in Procs, ~At(p, "new"), ~At(p, "dead"),
           NEW r \in Runner, Becomes(p, r),
           r.turn = runner[p].turn, r.lost = runner[p].lost, r.failed = runner[p].failed,
           r.at \notin {"new", "dead", "opened"},
           r.at \in InTurn <=> runner[p].at \in InTurn,
           r.at \in Stoppable => runner[p].at \in Stoppable,
           r.at = "ending" => At(p, "ending"),
           r.mark.undone <= Cardinality(Undone), r.later.undone <= Cardinality(Undone),
           writer = "cli" /\ r.at = "undone" => r.mark.undone < Cardinality(Undone),
           UNCHANGED <<writer, turns, window>>, withdrawn' \subseteq Keys,
           lease' \in [holder : Procs \cup {NoProc}, fresh : BOOLEAN]
    PROVE  SessionInv'
<1>1. r.at # "new" /\ r.lost \in {runner[p].lost, NoEnd} /\ (r.failed => runner[p].failed)
    OBVIOUS
<1>2. r.at \in InTurn => /\ runner[p].at \in InTurn /\ r.turn = runner[p].turn
                         /\ r.lost = runner[p].lost
    OBVIOUS
<1>3. /\ runner[p].at \in InTurn => r.at \in InTurn
      /\ r.lost = runner[p].lost /\ r.failed = runner[p].failed
      /\ At(p, "new") => r.at = "opened"
    OBVIOUS
<1> QED BY <1>1, <1>2, <1>3, RunnerKeeps DEF Becomes

LEMMA QuietSteps ==
    ASSUME SessionInv, NEW p \in Procs,
           \/ Select(p) \/ Resume(p) \/ Crash(p) \/ Quit(p) \/ Exit(p) \/ Register(p)
           \/ Prepare(p) \/ Reload(p) \/ EndsEarly(p) \/ Refresh(p) \/ Stop(p)
           \/ (\E k \in Keys \cup {NoKey} : CancelKey(p, k))
           \/ Undo(p) \/ UndoReload(p) \/ UndoLoad(p)
    PROVE  SessionInv'
<1>1. CASE Select(p)
  <2> DEFINE r == [Go(p, "loading") EXCEPT !.mark = IF writer = "cli" THEN Counters(p) ELSE NoMark]
  <2>1. /\ r \in Runner /\ r.at = "loading" /\ r.turn = runner[p].turn
        /\ r.lost = runner[p].lost /\ r.failed = runner[p].failed
        /\ r.later = runner[p].later
        /\ r.mark.undone \in {0, Cardinality(Undone)}
    BY ZenonT(40), Known, CountersRead, NoMarkType DEF Go, Runner, Places
  <2>2. At(p, "opened") /\ Becomes(p, r)
        /\ UNCHANGED <<writer, turns, lease, window, withdrawn>>
    BY <1>1 DEF Select
  <2> HIDE DEF r
  <2> QED BY <2>1, <2>2, Known, MoveKeeps DEF At, InTurn, Stoppable
<1>2. CASE Resume(p)
  <2> PICK conv \in Conversations : Becomes(p, [Go(p, "idle") EXCEPT !.conv = conv])
    BY <1>2 DEF Resume, Load
  <2> DEFINE r == [Go(p, "idle") EXCEPT !.conv = conv]
  <2>1. /\ r \in Runner /\ r.at = "idle" /\ r.turn = runner[p].turn
        /\ r.lost = runner[p].lost /\ r.failed = runner[p].failed
        /\ r.later = runner[p].later /\ r.mark = runner[p].mark
    BY Known, ConversationsType DEF Go, Runner, Places
  <2>2. At(p, "loading") /\ Becomes(p, r)
        /\ UNCHANGED <<writer, turns, lease, window, withdrawn>>
    BY <1>2 DEF Resume
  <2> HIDE DEF r
  <2> QED BY <2>1, <2>2, Known, MoveKeeps DEF At, InTurn, Stoppable
<1>3. CASE Crash(p) \/ Exit(p)
  <2>1. Alive(p)
    BY <1>3 DEF Crash, Exit, At, Alive
  <2> QED BY <1>3, <2>1, GoneKeeps DEF Crash, Exit, Gone
<1>4. CASE Quit(p)
  <2>1. CASE runner[p].at \in {"opened", "loading", "idle"}
    BY <1>4, <2>1, GoneKeeps DEF Quit, Gone
  <2>2. CASE runner[p].at \notin {"opened", "loading", "idle"}
    <3> DEFINE r == [runner[p] EXCEPT !.closing = TRUE,
                                      !.stopped = @ \/ runner[p].at \in Stoppable]
    <3>1. /\ r \in Runner /\ r.at = runner[p].at /\ r.turn = runner[p].turn
          /\ r.lost = runner[p].lost /\ r.failed = runner[p].failed
          /\ r.later = runner[p].later /\ r.mark = runner[p].mark
      BY Known DEF Runner
    <3>2. Becomes(p, r) /\ UNCHANGED <<writer, turns, lease, window, withdrawn>>
          /\ ~At(p, "new") /\ ~At(p, "dead") /\ ~At(p, "opened")
      BY <1>4, <2>2 DEF Quit, Alive, At
    <3> HIDE DEF r
    <3> QED BY <3>1, <3>2, Known, MoveKeeps DEF At, SessionInv, MarkSound
  <2> QED BY <2>1, <2>2
<1>5. CASE Register(p)
  <2> DEFINE r == [runner[p] EXCEPT !.registered = TRUE, !.deferred = FALSE,
                     !.stopped = @ \/ (runner[p].deferred /\ runner[p].at \in Stoppable)]
  <2>1. /\ r \in Runner /\ r.at = runner[p].at /\ r.turn = runner[p].turn
        /\ r.lost = runner[p].lost /\ r.failed = runner[p].failed
        /\ r.later = runner[p].later /\ r.mark = runner[p].mark
    BY Known DEF Runner
  <2>2. Becomes(p, r) /\ UNCHANGED <<writer, turns, lease, window, withdrawn>> /\ ~At(p, "dead")
    BY <1>5 DEF Register, Alive, At
  <2>3. (~At(p, "new") /\ ~At(p, "opened")) \/ At(p, "opened")
    BY <1>5 DEF Register, Alive, At
  <2> HIDE DEF r
  <2>4. CASE ~At(p, "opened")
    BY <2>1, <2>2, <2>3, <2>4, Known, MoveKeeps DEF At, SessionInv, MarkSound
  <2>5. CASE At(p, "opened")
    BY <2>1, <2>2, <2>5, Known, RunnerKeeps DEF At, InTurn, Stoppable, Becomes
  <2> QED BY <2>4, <2>5
<1>6. CASE Prepare(p)
  <2>1. CASE writer = "gateway" \/ Counters(p) = runner[p].mark
    <3> DEFINE r == Go(p, "running")
    <3>1. /\ r \in Runner /\ r.at = "running" /\ r.turn = runner[p].turn
          /\ r.lost = runner[p].lost /\ r.failed = runner[p].failed
          /\ r.later = runner[p].later /\ r.mark = runner[p].mark
      BY Known DEF Go, Runner, Places
    <3>2. At(p, "begun") /\ Becomes(p, r)
          /\ UNCHANGED <<writer, turns, lease, window, withdrawn>>
      BY <1>6, <2>1 DEF Prepare
    <3> HIDE DEF r
    <3> QED BY <3>1, <3>2, Known, MoveKeeps DEF At, InTurn, Stoppable
  <2>2. CASE ~(writer = "gateway" \/ Counters(p) = runner[p].mark)
    <3> DEFINE r == [Go(p, "reload") EXCEPT !.later = Counters(p)]
    <3>1. /\ r \in Runner /\ r.at = "reload" /\ r.turn = runner[p].turn
          /\ r.lost = runner[p].lost /\ r.failed = runner[p].failed
          /\ r.later.undone = Cardinality(Undone) /\ r.mark = runner[p].mark
      BY Known, CountersRead DEF Go, Runner, Places
    <3>2. At(p, "begun") /\ Becomes(p, r)
          /\ UNCHANGED <<writer, turns, lease, window, withdrawn>>
      BY <1>6, <2>2 DEF Prepare
    <3> HIDE DEF r
    <3> QED BY <3>1, <3>2, Known, MoveKeeps DEF At, InTurn, Stoppable
  <2> QED BY <2>1, <2>2
<1>7. CASE Reload(p) \/ UndoReload(p)
  <2>1. CASE Reload(p)
    <3> PICK conv \in Conversations :
           Becomes(p, [Go(p, "running") EXCEPT !.conv = conv, !.mark = runner[p].later,
                                               !.later = NoMark])
      BY <2>1 DEF Reload
    <3> DEFINE r == [Go(p, "running") EXCEPT !.conv = conv, !.mark = runner[p].later,
                                             !.later = NoMark]
    <3>1. /\ r \in Runner /\ r.at = "running" /\ r.turn = runner[p].turn
          /\ r.lost = runner[p].lost /\ r.failed = runner[p].failed
          /\ r.later.undone = 0 /\ r.mark = runner[p].later
      BY ZenonT(40), Known, ConversationsType, NoMarkType DEF Go, Runner, Places
    <3>2. At(p, "reload") /\ Becomes(p, r)
          /\ UNCHANGED <<writer, turns, lease, window, withdrawn>>
      BY <2>1 DEF Reload
    <3> HIDE DEF r
    <3> QED BY <3>1, <3>2, Known, MoveKeeps DEF At, InTurn, Stoppable
  <2>2. CASE UndoReload(p)
    <3> PICK conv \in Conversations :
           Becomes(p, [Go(p, "undo") EXCEPT !.conv = conv, !.mark = runner[p].later,
                                            !.later = NoMark])
      BY <2>2 DEF UndoReload
    <3> DEFINE r == [Go(p, "undo") EXCEPT !.conv = conv, !.mark = runner[p].later,
                                          !.later = NoMark]
    <3>1. /\ r \in Runner /\ r.at = "undo" /\ r.turn = runner[p].turn
          /\ r.lost = runner[p].lost /\ r.failed = runner[p].failed
          /\ r.later.undone = 0 /\ r.mark = runner[p].later
      BY ZenonT(40), Known, ConversationsType, NoMarkType DEF Go, Runner, Places
    <3>2. At(p, "undo_reload") /\ Becomes(p, r)
          /\ UNCHANGED <<writer, turns, lease, window, withdrawn>>
      BY <2>2 DEF UndoReload
    <3> HIDE DEF r
    <3> QED BY <3>1, <3>2, Known, MoveKeeps DEF At, InTurn, Stoppable
  <2> QED BY <1>7, <2>1, <2>2
<1>8. CASE EndsEarly(p)
  <2> DEFINE r == [Go(p, "recording") EXCEPT !.later = NoMark]
  <2>1. /\ r \in Runner /\ r.at = "recording" /\ r.turn = runner[p].turn
        /\ r.lost = runner[p].lost /\ r.failed = runner[p].failed
        /\ r.later.undone = 0 /\ r.mark = runner[p].mark
    BY Known, NoMarkType DEF Go, Runner, Places
  <2>2. runner[p].at \in Stoppable /\ Becomes(p, r)
        /\ UNCHANGED <<writer, turns, lease, window, withdrawn>>
    BY <1>8 DEF EndsEarly, At, Stoppable
  <2> HIDE DEF r
  <2> QED BY <2>1, <2>2, Known, MoveKeeps DEF At, InTurn, Stoppable
<1>9. CASE Refresh(p) \/ Stop(p)
  <2>1. CASE UNCHANGED runner
    <3>1. runner' = [runner EXCEPT ![p] = runner[p]]
          /\ runner[p].at \in InTurn
          /\ lease' \in [holder : Procs \cup {NoProc}, fresh : BOOLEAN]
          /\ UNCHANGED <<writer, turns, window, withdrawn>>
      BY <1>9, <2>1, Known DEF Refresh, Stop, TypeOK, Stoppable, InTurn
    <3> QED BY <3>1, Known, MoveKeeps DEF Becomes, At, InTurn, Stoppable
  <2>2. CASE ~UNCHANGED runner
    <3> DEFINE r == [runner[p] EXCEPT !.stopped = TRUE]
    <3>1. /\ r \in Runner /\ r.at = runner[p].at /\ r.turn = runner[p].turn
          /\ r.lost = runner[p].lost /\ r.failed = runner[p].failed
          /\ r.later = runner[p].later /\ r.mark = runner[p].mark
      BY Known DEF Runner
    <3>2. runner[p].at \in Stoppable /\ Becomes(p, r)
          /\ UNCHANGED <<writer, turns, lease, window, withdrawn>>
      BY <1>9, <2>2 DEF Refresh, Stop
    <3> HIDE DEF r
    <3> QED BY <3>1, <3>2, Known, MoveKeeps DEF At, InTurn, Stoppable
  <2> QED BY <2>1, <2>2
<1>10. CASE \E k \in Keys \cup {NoKey} : CancelKey(p, k)
  <2> PICK k \in Keys \cup {NoKey} : CancelKey(p, k)
    BY <1>10
  <2>1. /\ UNCHANGED <<writer, turns, lease, window>> /\ k \in Keys
        /\ withdrawn' \in {withdrawn, withdrawn \cup {k}} /\ Alive(p)
    BY DEF CancelKey
  <2>2. withdrawn' \subseteq Keys
    BY <2>1, Known
  <2>3. ASSUME NEW r \in Runner, Becomes(p, r), r.at = runner[p].at, r.turn = runner[p].turn,
               r.lost = runner[p].lost, r.failed = runner[p].failed,
               r.later = runner[p].later, r.mark = runner[p].mark
        PROVE  SessionInv'
    <3>1. CASE ~At(p, "opened")
      <4>1. writer = "cli" /\ r.at = "undone" => r.mark.undone < Cardinality(Undone)
        BY <2>3 DEF At, SessionInv, MarkSound
      <4> QED BY <2>1, <2>2, <2>3, <3>1, <4>1, Known, MoveKeeps DEF At, Alive
    <3>2. CASE At(p, "opened")
      BY <2>1, <2>2, <2>3, <3>2, Known, RunnerKeeps DEF At, InTurn, Stoppable, Becomes
    <3> QED BY <3>1, <3>2
  <2>4. CASE runner' = runner
    <3>1. Becomes(p, runner[p])
      BY <2>4, Known DEF Becomes, TypeOK
    <3> QED BY <2>3, <3>1, Known
  <2>5. CASE Becomes(p, [runner[p] EXCEPT !.stopped = @ \/ runner[p].at \in Stoppable])
    <3> DEFINE r == [runner[p] EXCEPT !.stopped = @ \/ runner[p].at \in Stoppable]
    <3>1. /\ r \in Runner /\ r.at = runner[p].at /\ r.turn = runner[p].turn
          /\ r.lost = runner[p].lost /\ r.failed = runner[p].failed
          /\ r.later = runner[p].later /\ r.mark = runner[p].mark
      BY Known DEF Runner
    <3> HIDE DEF r
    <3> QED BY <2>3, <2>5, <3>1 DEF r
  <2>6. CASE Becomes(p, [runner[p] EXCEPT !.deferred = TRUE])
    <3> DEFINE r == [runner[p] EXCEPT !.deferred = TRUE]
    <3>1. /\ r \in Runner /\ r.at = runner[p].at /\ r.turn = runner[p].turn
          /\ r.lost = runner[p].lost /\ r.failed = runner[p].failed
          /\ r.later = runner[p].later /\ r.mark = runner[p].mark
      BY Known DEF Runner
    <3> HIDE DEF r
    <3> QED BY <2>3, <2>6, <3>1 DEF r
  <2> QED BY <2>4, <2>5, <2>6 DEF CancelKey
<1>11. CASE Undo(p)
  <2>1. CASE writer = "gateway" \/ Counters(p) = runner[p].mark
    <3> DEFINE r == Go(p, "undo")
    <3>1. /\ r \in Runner /\ r.at = "undo" /\ r.turn = runner[p].turn
          /\ r.lost = runner[p].lost /\ r.failed = runner[p].failed
          /\ r.later = runner[p].later /\ r.mark = runner[p].mark
      BY Known DEF Go, Runner, Places
    <3>2. At(p, "idle") /\ Becomes(p, r)
          /\ UNCHANGED <<writer, turns, lease, window, withdrawn>>
      BY <1>11, <2>1 DEF Undo, Free, At
    <3> HIDE DEF r
    <3> QED BY <3>1, <3>2, Known, MoveKeeps DEF At, InTurn, Stoppable
  <2>2. CASE ~(writer = "gateway" \/ Counters(p) = runner[p].mark)
    <3> DEFINE r == [Go(p, "undo_reload") EXCEPT !.later = Counters(p)]
    <3>1. /\ r \in Runner /\ r.at = "undo_reload" /\ r.turn = runner[p].turn
          /\ r.lost = runner[p].lost /\ r.failed = runner[p].failed
          /\ r.later.undone = Cardinality(Undone) /\ r.mark = runner[p].mark
      BY Known, CountersRead DEF Go, Runner, Places
    <3>2. At(p, "idle") /\ Becomes(p, r)
          /\ UNCHANGED <<writer, turns, lease, window, withdrawn>>
      BY <1>11, <2>2 DEF Undo, Free, At
    <3> HIDE DEF r
    <3> QED BY <3>1, <3>2, Known, MoveKeeps DEF At, InTurn, Stoppable
  <2> QED BY <2>1, <2>2
<1>12. CASE UndoLoad(p)
  <2> DEFINE count == IF writer = "cli" THEN runner[p].mark.undone + 1 ELSE runner[p].mark.undone
  <2> PICK conv \in Conversations :
           Becomes(p, [Go(p, "idle") EXCEPT !.conv = conv, !.mark.undone = count])
    BY <1>12 DEF UndoLoad, Go
  <2>1. At(p, "undone") /\ UNCHANGED <<writer, turns, lease, window, withdrawn>>
    BY <1>12 DEF UndoLoad
  <2>2. runner[p].mark \in Mark /\ runner[p].mark.undone \in Nat
    BY Known, SessionAssumption DEF Runner, Mark
  <2>3. count \in Nat /\ count <= Cardinality(Undone)
    BY <2>1, <2>2, Known DEF SessionInv, MarkSound
  <2>4. Cardinality(Undone) <= MaxTurns
    <3>1. turns \in Seq(Turn) /\ Len(turns) \in Nat /\ Len(turns) <= MaxTurns
      BY Known, TurnList DEF TypeOK
    <3> QED BY <3>1, UndoneCount, SessionAssumption DEF Undone
  <2>5. count \in 0..MaxTurns
    BY <2>3, <2>4, Known, SessionAssumption
  <2> HIDE DEF count
  <2> DEFINE mark == [runner[p].mark EXCEPT !.undone = count]
             r == [Go(p, "idle") EXCEPT !.conv = conv, !.mark = mark]
  <2>7. mark \in Mark /\ mark.undone = count
    BY <2>2, <2>5 DEF Mark
  <2>8. Becomes(p, r)
    <3>1. [Go(p, "idle") EXCEPT !.conv = conv, !.mark.undone = count] = r
      BY Known DEF Go, Runner
    <3> QED BY <3>1
  <2> HIDE DEF mark
  <2>6. /\ r \in Runner /\ r.at = "idle" /\ r.turn = runner[p].turn
        /\ r.lost = runner[p].lost /\ r.failed = runner[p].failed
        /\ r.later = runner[p].later /\ r.mark.undone = count
    BY <2>7, Known, ConversationsType DEF Go, Runner, Places
  <2> HIDE DEF r
  <2> QED BY <2>1, <2>3, <2>6, <2>8, Known, MoveKeeps DEF At, InTurn, Stoppable
<1> QED BY <1>1, <1>2, <1>3, <1>4, <1>5, <1>6, <1>7, <1>8, <1>9, <1>10, <1>11, <1>12
-----------------------------------------------------------------------------
(* The steps that end, begin and undo turns *)

(* The turns after every stale one has ended. *)
LEMMA RecoveredTurns ==
    ASSUME SessionInv, NEW p \in Procs
    PROVE  /\ Recovered(p) \in [DOMAIN turns -> Turn] /\ Recovered(p) \in Seq(Turn)
           /\ DOMAIN Recovered(p) = DOMAIN turns /\ Len(Recovered(p)) = Len(turns)
           /\ \A n \in DOMAIN turns :
                 LET old == turns[n]
                     new == Recovered(p)[n]
                 IN  /\ new.status # "running" /\ new.holder = old.holder
                     /\ new.undone = old.undone /\ new.key = old.key
                     /\ new.ran = old.ran /\ new.kept = old.kept
                     /\ new.kept => new.ran # "none" /\ new.status = new.ran
                     /\ new.status = "completed" => new.ran = "completed"
                     /\ old.status # "running" => new = old
                     /\ old.taken => new.taken
<1>1. turns \in Seq(Turn) /\ turns \in [DOMAIN turns -> Turn]
    BY TurnList DEF SessionInv, TypeOK
<1>2. ASSUME NEW n \in DOMAIN turns
      PROVE  LET old == turns[n]
                 new == Recovered(p)[n]
             IN  /\ new \in Turn /\ new.status # "running" /\ new.holder = old.holder
                 /\ new.undone = old.undone /\ new.key = old.key
                 /\ new.ran = old.ran /\ new.kept = old.kept
                 /\ new.kept => new.ran # "none" /\ new.status = new.ran
                 /\ new.status = "completed" => new.ran = "completed"
                 /\ old.status # "running" => new = old
                 /\ old.taken => new.taken
  <2>1. turns[n] \in Turn /\ TurnSound(n)
      BY <1>1 DEF SessionInv
  <2>2. CASE n \in Running
    <3>1. Recovered(p)[n] = StaleEnd(p, turns[n])
        BY <2>2 DEF Recovered
    <3>2. turns[n].kept => turns[n].ran # "none"
        BY <2>1 DEF TurnSound
    <3> QED BY <2>1, <2>2, <3>1, <3>2, StaleEnds DEF Running
  <2>3. CASE n \notin Running
    <3>1. Recovered(p)[n] = turns[n] /\ turns[n].status # "running"
        BY <2>3 DEF Recovered, Running
    <3> QED BY <2>1, <3>1 DEF TurnSound
  <2> QED BY <2>2, <2>3
<1>3. Recovered(p) \in [DOMAIN turns -> Turn]
    BY <1>2 DEF Recovered
<1> QED BY <1>1, <1>2, <1>3, TurnsInPlace

LEMMA OpenKeeps ==
    ASSUME SessionInv, NEW p \in Procs, Open(p)
    PROVE  SessionInv'
<1> DEFINE r == Go(p, "opened")
<1>1. /\ r \in Runner /\ r.at = "opened" /\ r.turn = runner[p].turn
      /\ r.lost = runner[p].lost /\ r.failed = runner[p].failed
      /\ r.later = runner[p].later /\ r.mark = runner[p].mark
    BY Known DEF Go, Runner, Places
<1>2. At(p, "new") /\ Becomes(p, r) /\ UNCHANGED <<writer, window, withdrawn>>
    BY DEF Open
<1> HIDE DEF r
<1>3. CASE UNCHANGED <<turns, lease>>
    BY <1>1, <1>2, <1>3, Known, RunnerKeeps DEF At, InTurn, Stoppable, Becomes
<1>4. CASE turns' = Recovered(p) /\ lease' = FreedLease
  <2>1. TypeOK /\ ProcSound(p) /\ runner'[p] = r
      BY <1>2, Known DEF SessionInv, TypeOK, Becomes
  <2>2. TurnsMove(p)
      BY <1>4, <2>1, RecoveredTurns DEF TurnsMove, TypeOK
  <2>3. \A n \in DOMAIN turns' : TurnSound(n)'
      BY <1>4, RecoveredTurns DEF TurnSound
  <2>4. ProcSound(p)'
      BY <1>1, <1>2, <1>4, <2>1, RecoveredTurns DEF ProcSound, At, InTurn, Stoppable
  <2>5. MarkSound(p)'
    <3>1. Undone' = Undone
        BY <1>4, RecoveredTurns DEF Undone
    <3> QED BY <1>1, <2>1, <3>1, Known DEF MarkSound, At
  <2>6. Running' = {}
      BY <1>4, RecoveredTurns DEF Running
  <2>7. lease' \in [holder : Procs \cup {NoProc}, fresh : BOOLEAN]
      BY <1>4, Known DEF FreedLease, NoLease
  <2> QED BY <1>1, <1>2, <2>1, <2>2, <2>3, <2>4, <2>5, <2>6, <2>7, StepKeeps
             DEF Becomes, TypeOK
<1> QED BY <1>3, <1>4 DEF Open

LEMMA BeginKeeps ==
    ASSUME SessionInv, NEW p \in Procs, NEW k \in Keys \cup {NoKey}, Begin(p, k)
    PROVE  SessionInv'
<1> DEFINE entry == [holder |-> p, status |-> "running", undone |-> FALSE, key |-> k,
                     ran |-> "none", kept |-> FALSE, taken |-> FALSE]
           last == Len(turns) + 1
           r == [Go(p, "begun") EXCEPT !.turn = last, !.stopped = FALSE]
<1>1. TypeOK /\ ProcSound(p) /\ Len(turns) \in Nat /\ DOMAIN turns = 1..Len(turns)
    BY TurnList DEF SessionInv, TypeOK
<1>2. last \in Nat /\ last \in 0..MaxTurns
    BY <1>1, SessionAssumption DEF Begin
<1>3. entry \in Turn
    BY DEF Turn
<1>4. /\ turns' \in Seq(Turn) /\ Len(turns') = last /\ DOMAIN turns' = 1..last
      /\ \A n \in DOMAIN turns : n \in DOMAIN turns' /\ turns'[n] = Recovered(p)[n]
      /\ turns'[last] = entry
  <2>1. turns' = Append(Recovered(p), entry)
      BY DEF Begin
  <2> HIDE DEF entry
  <2> QED BY <1>1, <1>3, <2>1, RecoveredTurns, AppendProperties
<1>5. DOMAIN turns' = DOMAIN turns \cup {last} /\ last \notin DOMAIN turns
    BY <1>1, <1>2, <1>4
<1>6. entry.holder = p /\ entry.ran = "none" /\ ~entry.kept /\ ~entry.undone
      /\ entry.status = "running"
    OBVIOUS
<1>7. /\ r \in Runner /\ r.at = "begun" /\ r.turn = last
      /\ r.lost = runner[p].lost /\ r.failed = runner[p].failed
      /\ r.later = runner[p].later /\ r.mark = runner[p].mark
  <2> HIDE DEF last
  <2> QED BY <1>2, Known DEF Go, Runner, Places
<1>8. /\ Becomes(p, r) /\ UNCHANGED <<writer, window, withdrawn>>
      /\ runner[p].lost = NoEnd /\ runner'[p] = r
      /\ lease' \in [holder : Procs \cup {NoProc}, fresh : BOOLEAN]
      /\ Len(turns) < MaxTurns
    BY <1>1 DEF Begin, Becomes, TypeOK
<1> HIDE DEF r, entry
<1>9. last <= MaxTurns
    BY <1>1, <1>8, SessionAssumption
<1> HIDE DEF last
<1>16. ASSUME NEW n \in DOMAIN turns
       PROVE  /\ turns'[n].holder = turns[n].holder /\ turns'[n].undone = turns[n].undone
              /\ turns'[n].ran = turns[n].ran /\ turns'[n].kept = turns[n].kept
              /\ turns'[n].status # "running"
  <2>1. turns'[n] = Recovered(p)[n]
      BY <1>4
  <2> QED BY <2>1, RecoveredTurns
<1>17. /\ turns'[last].holder = p /\ turns'[last].ran = "none" /\ ~turns'[last].kept
       /\ ~turns'[last].undone /\ last \in DOMAIN turns'
    BY <1>4, <1>5, <1>6
<1>10. TurnsMove(p)
  <2>1. turns' \in Seq(Turn) /\ Len(turns') <= MaxTurns
      BY <1>4, <1>9
  <2> QED BY <2>1, <1>5, <1>16, <1>17 DEF TurnsMove
<1>11. ASSUME NEW n \in DOMAIN turns' PROVE TurnSound(n)'
    BY SMTT(20), <1>4, <1>5, <1>6, RecoveredTurns DEF TurnSound
<1>12. ProcSound(p)'
    BY <1>1, <1>5, <1>7, <1>8, <1>16, <1>17 DEF ProcSound, At, InTurn, Stoppable
<1>13. MarkSound(p)'
  <2>1. Undone' = Undone
      BY <1>5, <1>16, <1>17 DEF Undone
  <2> QED BY <1>7, <1>8, <2>1, Known DEF MarkSound, At
<1>14. Running' \subseteq {last}
    BY <1>5, <1>16 DEF Running
<1>15. \A n \in Running' : Answers(p, n)'
    BY <1>7, <1>8, <1>14 DEF Answers, InTurn
<1> QED BY <1>1, <1>7, <1>8, <1>10, <1>11, <1>12, <1>13, <1>15, StepKeeps DEF Becomes, TypeOK

(* A step that writes one field of the turn its process has in hand. *)
LEMMA OneTurn ==
    ASSUME TypeOK, NEW n \in DOMAIN turns, NEW turn \in Turn, turns' = [turns EXCEPT ![n] = turn]
    PROVE  /\ turns' \in Seq(Turn) /\ DOMAIN turns' = DOMAIN turns /\ Len(turns') = Len(turns)
           /\ turns'[n] = turn /\ \A m \in DOMAIN turns : m # n => turns'[m] = turns[m]
<1>1. turns \in Seq(Turn) /\ turns \in [DOMAIN turns -> Turn]
    BY TurnList DEF TypeOK
<1>2. turns' \in [DOMAIN turns -> Turn]
    BY <1>1
<1> QED BY <1>1, <1>2, TurnsInPlace

LEMMA RunEndsKeeps ==
    ASSUME SessionInv, NEW p \in Procs, NEW outcome \in {"completed", "cancelled"},
           RunEnds(p, outcome)
    PROVE  SessionInv'
<1> DEFINE n == runner[p].turn
           turn == [turns[n] EXCEPT !.ran = outcome]
           r == [Go(p, "ending") EXCEPT !.conv = @ \cup {n}]
<1>1. /\ TypeOK /\ ProcSound(p) /\ At(p, "running") /\ RunningHasRunner
      /\ n \in DOMAIN turns /\ turns[n] \in Turn /\ n \in Numbers
      /\ TurnSound(n) /\ turns[n].ran = "none" /\ ~turns[n].kept /\ turns[n].holder = p
      /\ runner[p].lost = NoEnd
  <2>1. TypeOK /\ ProcSound(p) /\ At(p, "running") /\ RunningHasRunner
      BY DEF SessionInv, RunEnds
  <2>2. n \in DOMAIN turns /\ turns[n].ran = "none" /\ ~turns[n].kept /\ turns[n].holder = p
        /\ runner[p].lost = NoEnd
      BY <2>1 DEF ProcSound, At, InTurn, Stoppable
  <2>3. turns[n] \in Turn
      BY <2>1, <2>2, TurnList DEF TypeOK
  <2>4. n \in Numbers
    <3>1. Len(turns) \in Nat /\ Len(turns) <= MaxTurns /\ n \in 1..Len(turns)
        BY <2>1, <2>2, TurnList DEF TypeOK
    <3> HIDE DEF n
    <3> QED BY <3>1, SessionAssumption DEF Numbers
  <2> QED BY <2>1, <2>2, <2>3, <2>4 DEF SessionInv
<1>2. /\ turn \in Turn /\ turn.holder = p /\ turn.status = turns[n].status /\ ~turn.kept
      /\ turn.undone = turns[n].undone /\ turn.ran = outcome
    BY <1>1 DEF Turn
<1>3. /\ r \in Runner /\ r.at = "ending" /\ r.turn = n
      /\ r.lost = NoEnd /\ r.failed = runner[p].failed
      /\ r.later = runner[p].later /\ r.mark = runner[p].mark
  <2> DEFINE conv == runner[p].conv \cup {n}
             s == [Go(p, "ending") EXCEPT !.conv = conv]
  <2>1. conv \in SUBSET Numbers /\ r = s
      BY <1>1, Known DEF Go, Runner
  <2> HIDE DEF conv
  <2>2. /\ s \in Runner /\ s.at = "ending" /\ s.turn = runner[p].turn
        /\ s.lost = runner[p].lost /\ s.failed = runner[p].failed
        /\ s.later = runner[p].later /\ s.mark = runner[p].mark
      BY <2>1, Known DEF Go, Runner, Places
  <2> QED BY <1>1, <2>1, <2>2
<1>4. turns' = [turns EXCEPT ![n] = turn]
    BY DEF RunEnds
<1>5. /\ Becomes(p, r) /\ UNCHANGED <<writer, lease, window, withdrawn>> /\ runner'[p] = r
    BY <1>1 DEF RunEnds, Becomes, TypeOK
<1> HIDE DEF turn, r
<1>6. /\ turns' \in Seq(Turn) /\ DOMAIN turns' = DOMAIN turns /\ Len(turns') = Len(turns)
      /\ turns'[n] = turn /\ \A m \in DOMAIN turns : m # n => turns'[m] = turns[m]
    BY <1>1, <1>2, <1>4, OneTurn
<1>7. TurnsMove(p)
    BY <1>1, <1>2, <1>6 DEF TurnsMove, TypeOK
<1>8. ASSUME NEW m \in DOMAIN turns' PROVE TurnSound(m)'
  <2>1. TurnSound(m)
      BY <1>6 DEF SessionInv
  <2> QED BY <1>1, <1>2, <1>6, <2>1 DEF TurnSound
<1>9. ProcSound(p)'
    BY <1>1, <1>2, <1>3, <1>5, <1>6 DEF ProcSound, At, InTurn, Stoppable
<1>10. MarkSound(p)'
  <2>1. Undone' = Undone
      BY <1>1, <1>2, <1>6 DEF Undone
  <2> QED BY <1>3, <1>5, <2>1, Known DEF MarkSound, At
<1>11. ASSUME NEW m \in Running', turns'[m].holder = p PROVE Answers(p, m)'
  <2>1. m \in Running /\ turns[m].holder = p
      BY <1>1, <1>2, <1>6, <1>11 DEF Running
  <2>2. Answers(p, m) /\ runner[p].at = "running" /\ runner[p].turn = n
      BY <1>1, <2>1 DEF RunningHasRunner, Answers, At
  <2> QED BY <1>1, <1>3, <1>5, <2>2 DEF Answers, InTurn, Alive, At
<1> QED BY <1>1, <1>3, <1>5, <1>7, <1>8, <1>9, <1>10, <1>11, StepKeeps DEF Becomes, TypeOK

LEMMA DrainKeeps ==
    ASSUME SessionInv, NEW p \in Procs, NEW written \in BOOLEAN, Drain(p, written)
    PROVE  SessionInv'
<1> DEFINE n == runner[p].turn
           stored == written /\ RunsUnder(p, n)
           turn == [turns[n] EXCEPT !.kept = stored]
           bad == runner[p].failed \/ (~written /\ writer = "gateway")
           r == [Go(p, "recording") EXCEPT !.failed = bad]
<1>1. /\ TypeOK /\ ProcSound(p) /\ At(p, "ending") /\ RunningHasRunner
      /\ n \in DOMAIN turns /\ turns[n] \in Turn
      /\ TurnSound(n) /\ turns[n].ran # "none" /\ turns[n].holder = p
      /\ runner[p].lost = NoEnd
  <2>1. TypeOK /\ ProcSound(p) /\ At(p, "ending") /\ RunningHasRunner
      BY DEF SessionInv, Drain
  <2>2. n \in DOMAIN turns /\ turns[n].ran # "none" /\ turns[n].holder = p
        /\ runner[p].lost = NoEnd
      BY <2>1 DEF ProcSound, At, InTurn
  <2>3. turns[n] \in Turn
      BY <2>1, <2>2, TurnList DEF TypeOK
  <2> QED BY <2>1, <2>2, <2>3 DEF SessionInv
<1>2. stored \in BOOLEAN /\ (stored => turns[n].status = "running")
    BY <1>1 DEF RunsUnder
<1>3. /\ turn \in Turn /\ turn.holder = p /\ turn.status = turns[n].status
      /\ turn.undone = turns[n].undone /\ turn.ran = turns[n].ran /\ turn.kept = stored
  <2> HIDE DEF stored
  <2> QED BY <1>1, <1>2 DEF Turn
<1>4. bad \in BOOLEAN /\ (bad => writer = "gateway") /\ (runner[p].failed => bad)
  <2>1. runner[p].failed \in BOOLEAN
      BY Known DEF Runner
  <2> QED BY <1>1, <2>1 DEF ProcSound
<1>5. turns' = [turns EXCEPT ![n] = turn]
    BY DEF Drain
<1>6. Becomes(p, r) /\ UNCHANGED <<writer, lease, window, withdrawn>>
  <2>1. [Go(p, "recording") EXCEPT !.failed = @ \/ (~written /\ writer = "gateway")] = r
      BY Known DEF Go, Runner
  <2> QED BY <2>1 DEF Drain
<1> HIDE DEF turn, bad, stored
<1>7. /\ r \in Runner /\ r.at = "recording" /\ r.turn = n
      /\ r.lost = NoEnd /\ r.failed = bad
      /\ r.later = runner[p].later /\ r.mark = runner[p].mark
  <2> HIDE DEF n
  <2> QED BY ZenonT(40), <1>1, <1>4, Known DEF Go, Runner, Places, n
<1> HIDE DEF r
<1>8. runner'[p] = r
    BY <1>1, <1>6 DEF Becomes, TypeOK
<1>9. /\ turns' \in Seq(Turn) /\ DOMAIN turns' = DOMAIN turns /\ Len(turns') = Len(turns)
      /\ turns'[n] = turn /\ \A m \in DOMAIN turns : m # n => turns'[m] = turns[m]
    BY <1>1, <1>3, <1>5, OneTurn
<1>10. TurnsMove(p)
  <2> HIDE DEF n
  <2>1. \A m \in DOMAIN turns :
           /\ turns'[m].holder = turns[m].holder /\ turns'[m].undone = turns[m].undone
           /\ turns'[m].status = turns[m].status
           /\ m # n => turns'[m] = turns[m]
      BY <1>1, <1>3, <1>9
  <2> QED BY <1>1, <1>9, <2>1 DEF TurnsMove, TypeOK
<1>11. ASSUME NEW m \in DOMAIN turns' PROVE TurnSound(m)'
  <2>1. TurnSound(m)
      BY <1>9 DEF SessionInv
  <2> QED BY <1>1, <1>2, <1>3, <1>9, <2>1 DEF TurnSound
<1>12. ProcSound(p)'
    BY <1>1, <1>3, <1>4, <1>6, <1>7, <1>8, <1>9 DEF ProcSound, At, InTurn, Stoppable
<1>13. MarkSound(p)'
  <2>1. Undone' = Undone
      BY <1>1, <1>3, <1>9 DEF Undone
  <2> QED BY <1>7, <1>8, <2>1, Known DEF MarkSound, At
<1>14. ASSUME NEW m \in Running', turns'[m].holder = p PROVE Answers(p, m)'
  <2>1. m \in Running /\ turns[m].holder = p
      BY <1>1, <1>3, <1>9, <1>14 DEF Running
  <2>2. Answers(p, m) /\ runner[p].at = "ending" /\ runner[p].turn = n
      BY <1>1, <2>1 DEF RunningHasRunner, Answers, At
  <2> QED BY <1>1, <1>4, <1>7, <1>8, <2>2 DEF Answers, InTurn, Alive, At
<1> QED BY <1>1, <1>6, <1>7, <1>10, <1>11, <1>12, <1>13, <1>14, StepKeeps DEF Becomes, TypeOK

(* An end that a process may still write for a turn of its own. *)
EndSound(p, end) ==
    /\ end.turn \in DOMAIN turns /\ turns[end.turn].holder = p
    /\ end.ran <=> turns[end.turn].ran # "none"
    /\ IF turns[end.turn].ran = "none" THEN end.status # "completed"
                                      ELSE end.status = turns[end.turn].ran

LEMMA Finishes ==
    ASSUME SessionInv, NEW p \in Procs, NEW end \in End, EndSound(p, end), FinishTurn(p, end)
    PROVE  /\ TurnsMove(p) /\ DOMAIN turns' = DOMAIN turns /\ Undone' = Undone
           /\ lease' \in [holder : Procs \cup {NoProc}, fresh : BOOLEAN]
           /\ window' \in [turn : 0..MaxTurns, conv : SUBSET Numbers]
           /\ \A n \in DOMAIN turns :
                 /\ turns'[n].holder = turns[n].holder
                 /\ turns'[n].ran = turns[n].ran /\ turns'[n].kept = turns[n].kept
           /\ \A n \in DOMAIN turns' : TurnSound(n)'
           /\ \A n \in Running' : n \in Running /\ (turns[n].holder = p => n # end.turn)
<1>1. TypeOK /\ turns \in Seq(Turn) /\ turns \in [DOMAIN turns -> Turn] /\ runner[p] \in Runner
    BY TurnList DEF SessionInv, TypeOK
<1>2. end.turn \in 0..MaxTurns /\ end.status \in Ends
    BY DEF End
<1> DEFINE n == end.turn
           turn == [turns[n] EXCEPT !.status = end.status]
<1>3. CASE RunsUnder(p, n)
  <2>1. n \in DOMAIN turns /\ turns[n] \in Turn /\ TurnSound(n)
      BY <1>1, <1>3 DEF RunsUnder, SessionInv
  <2>2. /\ turn \in Turn /\ turn.holder = turns[n].holder /\ turn.undone = turns[n].undone
        /\ turn.ran = turns[n].ran /\ turn.kept = turns[n].kept /\ turn.status = end.status
        /\ turn.status # "running"
      BY <1>2, <2>1 DEF Turn, Ends
  <2>3. turns' = [turns EXCEPT ![n] = turn]
      BY <1>3 DEF FinishTurn
  <2>4. /\ lease' = (IF lease.holder = p THEN NoLease ELSE lease)
        /\ window' \in {window, [turn |-> n, conv |-> runner[p].conv]}
      BY <1>3 DEF FinishTurn
  <2> HIDE DEF turn
  <2>5. /\ turns' \in Seq(Turn) /\ DOMAIN turns' = DOMAIN turns /\ Len(turns') = Len(turns)
        /\ turns'[n] = turn /\ \A m \in DOMAIN turns : m # n => turns'[m] = turns[m]
      BY <1>1, <2>1, <2>2, <2>3, OneTurn
  <2>6. runner[p].conv \in SUBSET Numbers
      BY <1>1 DEF Runner
  <2>7. /\ lease' \in [holder : Procs \cup {NoProc}, fresh : BOOLEAN]
        /\ window' \in [turn : 0..MaxTurns, conv : SUBSET Numbers]
      BY <1>1, <1>2, <2>4, <2>6 DEF NoLease, TypeOK
  <2> HIDE DEF n
  <2>8. \A m \in DOMAIN turns :
           /\ turns'[m].holder = turns[m].holder /\ turns'[m].undone = turns[m].undone
           /\ turns'[m].ran = turns[m].ran /\ turns'[m].kept = turns[m].kept
           /\ turns'[m].status = "running" => m # n /\ turns[m].status = "running"
      BY <2>1, <2>2, <2>5
  <2>9. ASSUME NEW m \in DOMAIN turns' PROVE TurnSound(m)'
    <3>1. TurnSound(m)
        BY <2>5 DEF SessionInv
    <3>2. CASE m # n
        BY <2>5, <3>1, <3>2 DEF TurnSound
    <3>3. CASE m = n
        BY <2>2, <2>5, <3>1, <3>3 DEF TurnSound, EndSound, n
    <3> QED BY <3>2, <3>3
  <2>10. TurnsMove(p)
      BY <1>1, <2>5, <2>8 DEF TurnsMove, TypeOK
  <2>11. Undone' = Undone
      BY <2>5, <2>8 DEF Undone
  <2>12. \A m \in Running' : m \in Running /\ m # n
      BY <2>5, <2>8 DEF Running
  <2> QED BY <2>5, <2>7, <2>8, <2>9, <2>10, <2>11, <2>12 DEF n
<1>4. CASE ~RunsUnder(p, n)
  <2>1. UNCHANGED <<turns, lease, window>>
      BY <1>4 DEF FinishTurn
  <2>2. \A m \in Running : turns[m].holder = p => m # end.turn
      BY <1>4 DEF Running, RunsUnder
  <2>3. \A m \in DOMAIN turns' : TurnSound(m)'
      BY <2>1 DEF SessionInv, TurnSound
  <2>4. TurnsMove(p)
      BY <1>1, <2>1 DEF TurnsMove, TypeOK
  <2> QED BY <1>1, <2>1, <2>2, <2>3, <2>4 DEF TypeOK, Undone, Running
<1> QED BY <1>3, <1>4

LEMMA EndOfRunSound ==
    ASSUME SessionInv, NEW p \in Procs, At(p, "recording")
    PROVE  /\ EndOf(p) \in End /\ EndSound(p, EndOf(p)) /\ EndOf(p).turn = runner[p].turn
           /\ NoEnd \in End
<1> DEFINE n == runner[p].turn
<1>1. /\ n \in DOMAIN turns /\ turns[n].holder = p /\ n \in 0..MaxTurns
    BY Known DEF SessionInv, ProcSound, At, InTurn, Runner
<1>2. turns[n] \in Turn
    BY <1>1, TurnList DEF SessionInv, TypeOK
<1>3. turns[n].ran \in {"none", "completed", "cancelled"}
    BY <1>2 DEF Turn
<1>4. EndOf(p) \in End /\ EndOf(p).turn = n
    BY <1>1, <1>3 DEF EndOf, End, Ends
<1>5. EndSound(p, EndOf(p))
    BY <1>1, <1>3 DEF EndOf, EndSound
<1>6. NoEnd \in End
    BY SessionAssumption DEF NoEnd, End, Ends
<1> QED BY <1>4, <1>5, <1>6

LEMMA RecordKeeps ==
    ASSUME SessionInv, NEW p \in Procs,
           Record(p) \/ \E committed \in BOOLEAN : RecordFails(p, committed)
    PROVE  SessionInv'
<1> DEFINE n == runner[p].turn
<1>1. /\ TypeOK /\ ProcSound(p) /\ At(p, "recording") /\ RunningHasRunner
      /\ n \in DOMAIN turns /\ turns[n] \in Turn /\ turns[n].holder = p
      /\ runner[p].lost = NoEnd /\ runner[p] \in Runner
  <2>1. TypeOK /\ ProcSound(p) /\ At(p, "recording") /\ RunningHasRunner
      BY DEF SessionInv, Record, RecordFails
  <2>2. n \in DOMAIN turns /\ turns[n].holder = p /\ runner[p].lost = NoEnd
      BY <2>1 DEF ProcSound, At, InTurn
  <2>3. turns[n] \in Turn
      BY <2>1, <2>2, TurnList DEF TypeOK
  <2> QED BY <2>1, <2>2, <2>3 DEF TypeOK
<1>2. /\ EndOf(p) \in End /\ EndSound(p, EndOf(p)) /\ EndOf(p).turn = n
      /\ NoEnd \in End
    BY <1>1, EndOfRunSound
<1>3. PICK lost \in End, failed \in BOOLEAN :
         /\ Becomes(p, [AfterTurn(p) EXCEPT !.lost = lost, !.failed = failed])
         /\ UNCHANGED <<writer, withdrawn>>
         /\ failed => writer = "gateway"
         /\ \/ /\ FinishTurn(p, EndOf(p)) /\ lost = NoEnd /\ failed = runner[p].failed
            \/ /\ FinishTurn(p, EndOf(p)) \/ UNCHANGED <<turns, lease, window>>
               /\ lost = (IF writer = "cli" THEN EndOf(p) ELSE NoEnd)
               /\ failed = (writer = "gateway")
  <2>1. CASE Record(p)
    <3>1. [AfterTurn(p) EXCEPT !.lost = NoEnd, !.failed = runner[p].failed] = AfterTurn(p)
        BY <1>1 DEF AfterTurn, Go, Runner
    <3>2. /\ Becomes(p, [AfterTurn(p) EXCEPT !.lost = NoEnd, !.failed = runner[p].failed])
          /\ UNCHANGED <<writer, withdrawn>> /\ FinishTurn(p, EndOf(p))
        BY <2>1, <3>1 DEF Record
    <3>3. (runner[p].failed => writer = "gateway") /\ runner[p].failed \in BOOLEAN
        BY <1>1 DEF ProcSound, Runner
    <3> QED BY <1>2, <3>2, <3>3
  <2>2. CASE \E committed \in BOOLEAN : RecordFails(p, committed)
    <3>1. PICK committed \in BOOLEAN : RecordFails(p, committed)
        BY <2>2
    <3> DEFINE lost == IF writer = "cli" THEN EndOf(p) ELSE NoEnd
               failed == (writer = "gateway")
    <3>2. lost \in End /\ failed \in BOOLEAN /\ (failed => writer = "gateway")
        BY <1>2
    <3>3. /\ Becomes(p, [AfterTurn(p) EXCEPT !.lost = lost, !.failed = failed])
          /\ UNCHANGED <<writer, withdrawn>>
          /\ FinishTurn(p, EndOf(p)) \/ UNCHANGED <<turns, lease, window>>
        BY <3>1 DEF RecordFails
    <3> QED BY <3>2, <3>3
  <2> QED BY <2>1, <2>2
<1> DEFINE r == [AfterTurn(p) EXCEPT !.lost = lost, !.failed = failed]
<1>4. /\ r \in Runner /\ r.at = "idle" /\ r.lost = lost /\ r.failed = failed
      /\ r.mark = runner[p].mark /\ r.later = runner[p].later
  <2>1. 0 \in 0..MaxTurns
      BY SessionAssumption
  <2> QED BY <1>1, <2>1 DEF AfterTurn, Go, Runner, Places
<1>5. runner' = [runner EXCEPT ![p] = r] /\ runner'[p] = r
    BY <1>1, <1>3 DEF Becomes, TypeOK
<1> HIDE DEF r, n
<1>6. /\ TurnsMove(p) /\ DOMAIN turns' = DOMAIN turns /\ Undone' = Undone
      /\ lease' \in [holder : Procs \cup {NoProc}, fresh : BOOLEAN]
      /\ window' \in [turn : 0..MaxTurns, conv : SUBSET Numbers]
      /\ \A m \in DOMAIN turns :
            /\ turns'[m].holder = turns[m].holder /\ turns'[m].ran = turns[m].ran
      /\ \A m \in DOMAIN turns' : TurnSound(m)'
      /\ Running' \subseteq Running
  <2>1. CASE FinishTurn(p, EndOf(p))
      BY <1>2, <2>1, Finishes
  <2>2. CASE UNCHANGED <<turns, lease, window>>
    <3>1. \A m \in DOMAIN turns' : TurnSound(m)'
        BY <2>2 DEF SessionInv, TurnSound
    <3>2. TurnsMove(p)
        BY <1>1, <2>2 DEF TurnsMove, TypeOK
    <3> QED BY <1>1, <2>2, <3>1, <3>2 DEF TypeOK, Undone, Running
  <2> QED BY <1>3, <2>1, <2>2
<1>7. ProcSound(p)'
  <2>1. ~(r.at \in InTurn) /\ ~(r.at \in Stoppable) /\ r.at # "ending" /\ r.at # "new"
      BY <1>4 DEF InTurn, Stoppable
  <2>2. lost # NoEnd => lost = EndOf(p)
      BY <1>3
  <2>3. lost # NoEnd => /\ lost.turn \in DOMAIN turns /\ turns[lost.turn].holder = p
                        /\ lost.ran <=> turns[lost.turn].ran # "none"
                        /\ IF turns[lost.turn].ran = "none" THEN lost.status # "completed"
                           ELSE lost.status = turns[lost.turn].ran
      BY <1>2, <2>2 DEF EndSound
  <2>4. lost # NoEnd => /\ lost.turn \in DOMAIN turns' /\ turns'[lost.turn].holder = p
                        /\ lost.ran <=> turns'[lost.turn].ran # "none"
                        /\ IF turns'[lost.turn].ran = "none" THEN lost.status # "completed"
                           ELSE lost.status = turns'[lost.turn].ran
      BY <1>6, <2>3
  <2>5. runner'[p].lost = lost /\ runner'[p].at = "idle" /\ (runner'[p].failed => writer' = "gateway")
      BY <1>3, <1>4, <1>5
  <2> QED BY <1>5, <2>1, <2>4, <2>5 DEF ProcSound, At
<1>8. MarkSound(p)'
    BY <1>4, <1>5, <1>6, Known DEF MarkSound, At
<1>9. ASSUME NEW m \in Running', turns'[m].holder = p PROVE Answers(p, m)'
  <2>1. m \in Running /\ m \in DOMAIN turns /\ turns[m].holder = p
      BY <1>6, <1>9 DEF Running
  <2>2. runner[p].failed \/ runner[p].turn = m
    <3>1. Answers(p, m)
        BY <1>1, <2>1 DEF RunningHasRunner, Answers
    <3>2. m # 0
        BY <1>1, <2>1, TurnList DEF TypeOK
    <3> QED BY <1>1, <3>1, <3>2 DEF Answers, Alive, At, NoEnd
  <2>3. CASE runner[p].failed
    <3>1. writer = "gateway"
        BY <1>1, <2>3 DEF ProcSound
    <3> QED BY <1>3, <1>4, <1>5, <2>3, <3>1 DEF Answers
  <2>4. CASE runner[p].turn = m
    <3>1. CASE lost = NoEnd /\ failed = runner[p].failed /\ FinishTurn(p, EndOf(p))
      <4>1. m # EndOf(p).turn
          BY <1>2, <1>9, <2>1, <3>1, Finishes
      <4> QED BY <1>2, <2>4, <4>1 DEF n
    <3>2. CASE /\ lost = (IF writer = "cli" THEN EndOf(p) ELSE NoEnd)
               /\ failed = (writer = "gateway")
      <4>1. writer \in {"cli", "gateway"}
          BY <1>1 DEF TypeOK
      <4> QED BY <1>2, <1>4, <1>5, <2>4, <3>2, <4>1 DEF Answers, n
    <3> QED BY <1>3, <3>1, <3>2
  <2> QED BY <2>2, <2>3, <2>4
<1> QED BY <1>1, <1>3, <1>4, <1>5, <1>6, <1>7, <1>8, <1>9, StepKeeps DEF TypeOK

LEMMA RetryKeeps ==
    ASSUME SessionInv, NEW p \in Procs, RetryLost(p)
    PROVE  SessionInv'
<1> DEFINE lost == runner[p].lost
           r == [runner[p] EXCEPT !.lost = NoEnd]
<1>1. /\ TypeOK /\ ProcSound(p) /\ RunningHasRunner /\ At(p, "idle") /\ lost # NoEnd
      /\ lost \in End /\ FinishTurn(p, lost) /\ UNCHANGED <<writer, withdrawn>>
    BY Known DEF SessionInv, RetryLost, Free, At, Runner
<1>2. EndSound(p, lost)
    BY <1>1 DEF ProcSound, EndSound
<1>3. /\ r \in Runner /\ r.at = "idle" /\ r.lost = NoEnd /\ r.failed = runner[p].failed
      /\ r.mark = runner[p].mark /\ r.later = runner[p].later
  <2>1. NoEnd \in End
      BY SessionAssumption DEF NoEnd, End, Ends
  <2> QED BY <1>1, <2>1, Known DEF Runner, At
<1>4. runner' = [runner EXCEPT ![p] = r] /\ runner'[p] = r
    BY <1>1 DEF RetryLost, Becomes, TypeOK
<1> HIDE DEF r, lost
<1>5. /\ TurnsMove(p) /\ Undone' = Undone
      /\ lease' \in [holder : Procs \cup {NoProc}, fresh : BOOLEAN]
      /\ window' \in [turn : 0..MaxTurns, conv : SUBSET Numbers]
      /\ \A n \in DOMAIN turns' : TurnSound(n)'
      /\ \A n \in Running' : n \in Running /\ (turns[n].holder = p => n # lost.turn)
    BY <1>1, <1>2, Finishes
<1>6. ProcSound(p)'
    BY <1>1, <1>3, <1>4 DEF ProcSound, At, InTurn, Stoppable
<1>7. MarkSound(p)'
    BY <1>3, <1>4, <1>5, Known DEF MarkSound, At
<1>8. ASSUME NEW n \in Running', turns'[n].holder = p PROVE Answers(p, n)'
  <2>1. n \in Running /\ turns[n].holder = p /\ n # lost.turn
      BY <1>5, <1>8 DEF Running, TurnsMove
  <2>2. Answers(p, n)
      BY <1>1, <2>1 DEF RunningHasRunner, Answers
  <2> QED BY <1>1, <1>3, <1>4, <2>1, <2>2 DEF Answers, Alive, At, InTurn, lost
<1> QED BY <1>1, <1>3, <1>4, <1>5, <1>6, <1>7, <1>8, StepKeeps DEF TypeOK

(* The turn an undo takes: the newest that is not undone yet. *)
Left == DOMAIN turns \ Undone
NewestLeft == CHOOSE m \in Left : \A other \in Left : other <= m

LEMMA UndoTakesNewest ==
    ASSUME TypeOK, Left # {}
    PROVE  NewestLeft \in Left /\ \A other \in Left : other <= NewestLeft
<1>1. Len(turns) \in Nat /\ DOMAIN turns = 1..Len(turns)
    BY TurnList DEF TypeOK
<1>2. Left \in SUBSET (0..Len(turns))
    BY <1>1 DEF Left
<1>3. \E n \in Left : \A m \in Left : m <= n
    BY <1>1, <1>2, HasMax
<1> QED BY <1>3 DEF NewestLeft

LEMMA UndoStoreKeeps ==
    ASSUME SessionInv, NEW p \in Procs, UndoStore(p)
    PROVE  SessionInv'
<1> DEFINE busy == Running # {} /\ RunningIsLive(p)
           n == NewestLeft
<1>1. /\ TypeOK /\ ProcSound(p) /\ MarkSound(p) /\ At(p, "undo")
      /\ UNCHANGED <<writer, withdrawn>>
    BY DEF SessionInv, UndoStore
<1>2. CASE runner[p].failed \/ busy \/ Left = {}
  <2> DEFINE conv == IF runner[p].failed \/ busy THEN runner[p].conv ELSE {}
             r == [Go(p, "idle") EXCEPT !.conv = conv]
  <2>1. conv \in SUBSET Numbers
      BY Known DEF Runner
  <2>2. Becomes(p, r) /\ UNCHANGED <<turns, lease, window>>
    <3>1. [Go(p, "idle") EXCEPT !.conv = IF runner[p].failed \/ busy THEN @ ELSE {}] = r
        BY Known DEF Go, Runner
    <3> QED BY <1>2, <3>1 DEF UndoStore, Left
  <2> HIDE DEF conv
  <2>3. /\ r \in Runner /\ r.at = "idle" /\ r.turn = runner[p].turn
        /\ r.lost = runner[p].lost /\ r.failed = runner[p].failed
        /\ r.later = runner[p].later /\ r.mark = runner[p].mark
      BY <2>1, Known DEF Go, Runner, Places
  <2> HIDE DEF r
  <2> QED BY <1>1, <2>2, <2>3, Known, MoveKeeps DEF At, InTurn, Stoppable
<1>3. CASE ~(runner[p].failed \/ busy \/ Left = {})
  <2> DEFINE r == Go(p, "undone")
             turn == [Recovered(p)[n] EXCEPT !.undone = TRUE]
  <2>1. n \in Left /\ n \in DOMAIN turns /\ ~turns[n].undone
      BY <1>1, <1>3, UndoTakesNewest DEF Left, Undone
  <2>2. /\ turns' = [Recovered(p) EXCEPT ![n].undone = TRUE] /\ lease' = FreedLease
        /\ window' = (IF window.turn >= n THEN NoWindow ELSE window) /\ Becomes(p, r)
      BY <1>3 DEF UndoStore, Left, NewestLeft
  <2>3. /\ r \in Runner /\ r.at = "undone" /\ r.turn = runner[p].turn
        /\ r.lost = runner[p].lost /\ r.failed = runner[p].failed
        /\ r.later = runner[p].later /\ r.mark = runner[p].mark
      BY Known DEF Go, Runner, Places
  <2> HIDE DEF r
  <2>4. runner'[p] = r
      BY <1>1, <2>2 DEF Becomes, TypeOK
  <2>5. lease' \in [holder : Procs \cup {NoProc}, fresh : BOOLEAN]
      BY <2>2, Known DEF FreedLease, NoLease
  <2>6. window' \in [turn : 0..MaxTurns, conv : SUBSET Numbers]
    <3>1. NoWindow \in [turn : 0..MaxTurns, conv : SUBSET Numbers]
        BY SessionAssumption DEF NoWindow
    <3> QED BY <1>1, <2>2, <3>1 DEF TypeOK
  <2> HIDE DEF n
  <2>7. /\ Recovered(p) \in [DOMAIN turns -> Turn] /\ Recovered(p)[n] \in Turn
      BY <2>1, RecoveredTurns
  <2>8. turn \in Turn
      BY <2>7 DEF Turn
  <2>9. turns' = [Recovered(p) EXCEPT ![n] = turn]
      BY <2>2
  <2>10. /\ turn.undone = TRUE /\ turn.holder = Recovered(p)[n].holder
         /\ turn.status = Recovered(p)[n].status /\ turn.ran = Recovered(p)[n].ran
         /\ turn.kept = Recovered(p)[n].kept
      BY <2>7 DEF Turn
  <2> HIDE DEF turn
  <2>11. turns' \in [DOMAIN turns -> Turn] /\ turns'[n] = turn
         /\ \A m \in DOMAIN turns : m # n => turns'[m] = Recovered(p)[m]
      BY <2>1, <2>7, <2>8, <2>9
  <2>12. turns' \in Seq(Turn) /\ DOMAIN turns' = DOMAIN turns /\ Len(turns') = Len(turns)
      BY <1>1, <2>11, TurnsInPlace DEF TypeOK
  <2>13. ASSUME NEW m \in DOMAIN turns
         PROVE  /\ turns'[m].holder = turns[m].holder
                /\ turns'[m].ran = turns[m].ran /\ turns'[m].kept = turns[m].kept
                /\ turns'[m].status # "running"
                /\ turns'[m].undone = (m = n \/ turns[m].undone)
                /\ turns'[m].kept => turns'[m].ran # "none" /\ turns'[m].status = turns'[m].ran
                /\ turns'[m].status = "completed" => turns'[m].ran = "completed"
    <3>1. CASE m = n
      <4>1. turns'[n] = turn
          BY <2>11
      <4>2. /\ turn.holder = turns[n].holder /\ turn.ran = turns[n].ran
            /\ turn.kept = turns[n].kept /\ turn.status # "running"
            /\ turn.kept => turn.ran # "none" /\ turn.status = turn.ran
            /\ turn.status = "completed" => turn.ran = "completed"
          BY <2>1, <2>10, RecoveredTurns
      <4> QED BY <2>10, <3>1, <4>1, <4>2
    <3>2. CASE m # n
      <4>1. turns'[m] = Recovered(p)[m] /\ turns[m] \in Turn
          BY <1>1, <2>11, <3>2, TurnList DEF TypeOK
      <4>2. turns[m].undone \in BOOLEAN
          BY <4>1 DEF Turn
      <4>3. /\ turns'[m].holder = turns[m].holder
            /\ turns'[m].ran = turns[m].ran /\ turns'[m].kept = turns[m].kept
            /\ turns'[m].status # "running"
            /\ turns'[m].undone = turns[m].undone
            /\ turns'[m].kept => turns'[m].ran # "none" /\ turns'[m].status = turns'[m].ran
            /\ turns'[m].status = "completed" => turns'[m].ran = "completed"
          BY <4>1, RecoveredTurns
      <4> QED BY <3>2, <4>2, <4>3
    <3> QED BY <3>1, <3>2
  <2>14. TurnsMove(p)
      BY <1>1, <2>12, <2>13 DEF TurnsMove, TypeOK
  <2>15. \A m \in DOMAIN turns' : TurnSound(m)'
      BY <2>12, <2>13 DEF TurnSound
  <2>16. ProcSound(p)'
      BY <1>1, <2>3, <2>4, <2>12, <2>13 DEF ProcSound, At, InTurn, Stoppable
  <2>17. Cardinality(Undone) < Cardinality(Undone') /\ Cardinality(Undone') \in Nat
    <3>1. Undone \subseteq Undone' /\ n \in Undone' /\ n \notin Undone
        BY <2>1, <2>12, <2>13 DEF Undone
    <3> QED BY <1>1, <2>12, <3>1, UndoneGrows DEF TypeOK
  <2>18. MarkSound(p)'
    <3>1. runner[p].mark.undone \in Nat /\ runner[p].later.undone \in Nat
        BY Known, SessionAssumption DEF Runner, Mark
    <3> QED BY <2>3, <2>4, <2>17, <3>1, Known DEF MarkSound, At
  <2>19. Running' = {}
      BY <2>12, <2>13 DEF Running
  <2> QED BY <1>1, <2>2, <2>3, <2>5, <2>6, <2>14, <2>15, <2>16, <2>18, <2>19, StepKeeps
             DEF Becomes, TypeOK
<1> QED BY <1>2, <1>3

(* The clock moves a lease and nothing else. *)
LEMMA LapseKeeps ==
    ASSUME SessionInv, Lapse
    PROVE  SessionInv'
<1>1. UNCHANGED <<writer, turns, window, withdrawn, runner>>
    BY DEF Lapse
<1>2. TypeOK'
    BY <1>1 DEF Lapse, SessionInv, TypeOK
<1>3. /\ \A n \in DOMAIN turns' : TurnSound(n)'
      /\ \A p \in Procs : ProcSound(p)' /\ MarkSound(p)'
    BY <1>1 DEF SessionInv, TurnSound, ProcSound, MarkSound, At, Undone
<1>4. RunningHasRunner'
    BY <1>1 DEF SessionInv, RunningHasRunner, Running, Alive
<1> QED BY <1>2, <1>3, <1>4 DEF SessionInv
-----------------------------------------------------------------------------
(* The invariant holds *)

LEMMA SessionInitInv == Init => SessionInv
<1> SUFFICES ASSUME Init PROVE SessionInv
    OBVIOUS
<1>1. /\ turns \in Seq(Turn) /\ Len(turns) = 0 /\ DOMAIN turns = {}
    BY EmptySeq, LenProperties DEF Init
<1>2. PICK p \in Procs :
         runner = [q \in Procs |-> IF q = p THEN [Away EXCEPT !.at = "idle",
                                                   !.registered = (writer = "cli")]
                                   ELSE Away]
    BY DEF Init
<1>3. ASSUME NEW q \in Procs
      PROVE  /\ runner[q] \in Runner /\ runner[q].at \in {"new", "idle"}
             /\ runner[q].lost = NoEnd /\ runner[q].failed = FALSE
             /\ runner[q].mark.undone = 0 /\ runner[q].later.undone = 0
  <2> DEFINE first == [Away EXCEPT !.at = "idle", !.registered = (writer = "cli")]
  <2>1. Away \in Runner /\ Away.lost = NoEnd /\ Away.failed = FALSE /\ Away.at = "new"
        /\ Away.mark.undone = 0 /\ Away.later.undone = 0
      BY GoneType, NoMarkType DEF Away
  <2>2. /\ first \in Runner /\ first.lost = NoEnd /\ first.failed = FALSE
        /\ first.at = "idle" /\ first.mark = Away.mark /\ first.later = Away.later
      BY <2>1 DEF Runner, Places
  <2> HIDE DEF first
  <2>3. runner[q] \in {first, Away}
      BY <1>2 DEF first
  <2> QED BY <2>1, <2>2, <2>3
<1>4. TypeOK
  <2>1. runner \in [Procs -> Runner]
      BY <1>2, <1>3
  <2>2. lease \in [holder : Procs \cup {NoProc}, fresh : BOOLEAN]
      BY DEF Init, NoLease
  <2>3. window \in [turn : 0..MaxTurns, conv : SUBSET Numbers]
      BY SessionAssumption DEF Init, NoWindow
  <2>4. Len(turns) <= MaxTurns
      BY <1>1, SessionAssumption
  <2>5. writer \in {"cli", "gateway"} /\ withdrawn \subseteq Keys
      BY DEF Init
  <2> QED BY <1>1, <2>1, <2>2, <2>3, <2>4, <2>5 DEF TypeOK
<1>5. \A n \in DOMAIN turns : TurnSound(n)
    BY <1>1
<1>6. \A q \in Procs : ProcSound(q)
    BY <1>1, <1>3 DEF ProcSound, At, InTurn, Stoppable
<1>7. \A q \in Procs : MarkSound(q)
  <2>1. Cardinality(Undone) \in Nat
      BY <1>1, UndoneCount DEF Undone
  <2>2. ASSUME NEW q \in Procs PROVE MarkSound(q)
    <3>1. /\ runner[q].at \in {"new", "idle"}
          /\ runner[q].mark.undone = 0 /\ runner[q].later.undone = 0
        BY <1>3
    <3>2. 0 <= Cardinality(Undone)
        BY <2>1
    <3> QED BY <3>1, <3>2 DEF MarkSound, At
  <2> QED BY <2>2
<1>8. RunningHasRunner
    BY <1>1 DEF RunningHasRunner, Running
<1> QED BY <1>4, <1>5, <1>6, <1>7, <1>8 DEF SessionInv

LEMMA SessionNextInv == SessionInv /\ [Next]_vars => SessionInv'
<1> SUFFICES ASSUME SessionInv, [Next]_vars PROVE SessionInv'
    OBVIOUS
<1>1. CASE Lapse
    BY <1>1, LapseKeeps
<1>2. ASSUME NEW p \in Procs, Step(p) PROVE SessionInv'
    BY <1>2, OpenKeeps, QuietSteps, BeginKeeps, RunEndsKeeps, DrainKeeps, RecordKeeps, RetryKeeps,
       UndoStoreKeeps DEF Step
<1>3. CASE UNCHANGED vars
  <2>1. UNCHANGED <<writer, turns, lease, window, withdrawn, runner>>
      BY <1>3 DEF vars
  <2>2. TypeOK'
      BY <2>1 DEF SessionInv, TypeOK
  <2>3. /\ \A n \in DOMAIN turns' : TurnSound(n)'
        /\ \A p \in Procs : ProcSound(p)' /\ MarkSound(p)'
      BY <2>1 DEF SessionInv, TurnSound, ProcSound, MarkSound, At, Undone
  <2>4. RunningHasRunner'
      BY <2>1 DEF SessionInv, RunningHasRunner, Running, Alive
  <2> QED BY <2>2, <2>3, <2>4 DEF SessionInv
<1> QED BY <1>1, <1>2, <1>3 DEF Next

LEMMA SessionInvHolds == Spec => []SessionInv
BY SessionInitInv, SessionNextInv, PTL DEF Spec
-----------------------------------------------------------------------------
(* What follows *)

(* Every variable of the model stays of its type: at most MaxTurns turns,  *)
(* whatever the processes do (Sessions.tla).                               *)
THEOREM SessionTypeCorrect == Spec => []TypeOK
<1>1. SessionInv => TypeOK
    BY DEF SessionInv
<1> QED BY <1>1, SessionInvHolds, PTL

(* A turn whose run.finished is stored ends with that outcome, whoever     *)
(* ends it, and none is recorded as completed that did not complete        *)
(* (finish_turn, _end_stale_turn and _record_lost_end in store.py).        *)
THEOREM OutcomesKept == Spec => []OutcomeKept
<1>1. SessionInv => OutcomeKept
    BY DEF SessionInv, OutcomeKept, TurnSound, Running
<1> QED BY <1>1, SessionInvHolds, PTL

(* The running turn of a session always has somebody to end it: its        *)
(* runner, the end kept for a later try, the next open, or the restart of  *)
(* a gateway that refuses new work (runner.py and store.py).               *)
THEOREM TurnsAnswered == Spec => []RunningHasRunner
<1>1. SessionInv => RunningHasRunner
    BY DEF SessionInv
<1> QED BY <1>1, SessionInvHolds, PTL
-----------------------------------------------------------------------------
(* The turns are a TurnLog *)

(* What TurnLog sees of the turns, and of a list of them in which every    *)
(* running one has ended in s.                                             *)
Seen(turn) == [status |-> turn.status, undone |-> turn.undone, key |-> turn.key]
View == [n \in DOMAIN turns |-> Seen(turns[n])]
ViewEnded(s) ==
    [n \in DOMAIN View |->
        IF View[n].status = "running" THEN [View[n] EXCEPT !.status = s] ELSE View[n]]

LEMMA ViewIsLog ==
    /\ Log!Started = Accepted
    /\ \A s : Log!Ended(s) = ViewEnded(s)
    /\ Log!Init <=> View = <<>> /\ withdrawn = {}
    /\ Log!End <=> \E s \in Ends : View' = ViewEnded(s) /\ withdrawn' = withdrawn
    /\ Log!Begin <=> \E s \in Ends, k \in (Keys \ (Accepted \cup withdrawn)) \cup {NoKey} :
          /\ View' = Append(ViewEnded(s), [status |-> "running", undone |-> FALSE, key |-> k])
          /\ withdrawn' = withdrawn
    /\ Log!Undo <=> \E s \in Ends, n \in DOMAIN View :
          /\ ~View[n].undone /\ \A m \in DOMAIN View : m > n => View[m].undone
          /\ View' = [ViewEnded(s) EXCEPT ![n].undone = TRUE] /\ withdrawn' = withdrawn
    /\ Log!Withdraw <=> \E k \in Keys \ (Accepted \cup withdrawn) :
          withdrawn' = withdrawn \cup {k} /\ View' = View
    /\ UNCHANGED Log!vars <=> View' = View /\ withdrawn' = withdrawn
<1>1. Log!Started = Accepted
    BY DEF Log!Started, Accepted
<1>2. \A s : Log!Ended(s) = ViewEnded(s)
    BY DEF Log!Ended, ViewEnded, View, Seen
<1>3. Log!Init <=> View = <<>> /\ withdrawn = {}
    BY DEF Log!Init, View, Seen
<1>4. Log!End <=> \E s \in Ends : View' = ViewEnded(s) /\ withdrawn' = withdrawn
    BY <1>2 DEF Log!End, Log!Ends, Ends, View, Seen
<1>5. Log!Begin <=> \E s \in Ends, k \in (Keys \ (Accepted \cup withdrawn)) \cup {NoKey} :
          /\ View' = Append(ViewEnded(s), [status |-> "running", undone |-> FALSE, key |-> k])
          /\ withdrawn' = withdrawn
    BY <1>1, <1>2 DEF Log!Begin, Log!Ends, Log!NewEntry, Ends, View, Seen
<1>6. Log!Undo <=> \E s \in Ends, n \in DOMAIN View :
          /\ ~View[n].undone /\ \A m \in DOMAIN View : m > n => View[m].undone
          /\ View' = [ViewEnded(s) EXCEPT ![n].undone = TRUE] /\ withdrawn' = withdrawn
    BY <1>2 DEF Log!Undo, Log!Newest, Log!Ends, Ends, View, Seen
<1>7. Log!Withdraw <=> \E k \in Keys \ (Accepted \cup withdrawn) :
          withdrawn' = withdrawn \cup {k} /\ View' = View
    BY <1>1 DEF Log!Withdraw, View, Seen
<1>8. UNCHANGED Log!vars <=> View' = View /\ withdrawn' = withdrawn
    BY DEF Log!vars, View, Seen
<1> QED BY <1>1, <1>2, <1>3, <1>4, <1>5, <1>6, <1>7, <1>8

LEMMA ViewOfTurns ==
    ASSUME SessionInv
    PROVE  /\ View \in Seq(Log!Entry) /\ DOMAIN View = DOMAIN turns /\ Len(View) = Len(turns)
           /\ \A n \in DOMAIN turns : /\ View[n].status = turns[n].status
                                      /\ View[n].undone = turns[n].undone
           /\ \A s \in Ends : /\ ViewEnded(s) \in Seq(Log!Entry)
                              /\ DOMAIN ViewEnded(s) = DOMAIN turns
                              /\ Len(ViewEnded(s)) = Len(turns)
<1>1. /\ turns \in [DOMAIN turns -> Turn] /\ DOMAIN turns = 1..Len(turns) /\ Len(turns) \in Nat
    BY TurnList DEF SessionInv, TypeOK
<1>2. \A turn \in Turn : Seen(turn) \in Log!Entry
    BY DEF Turn, Seen, Log!Entry, Log!Ends, Ends
<1>3. View \in [1..Len(turns) -> Log!Entry]
    BY <1>1, <1>2 DEF View
<1>4. ASSUME NEW s \in Ends PROVE ViewEnded(s) \in [1..Len(turns) -> Log!Entry]
  <2>1. \A entry \in Log!Entry : [entry EXCEPT !.status = s] \in Log!Entry
      BY DEF Log!Entry, Log!Ends, Ends
  <2> QED BY <1>3, <2>1 DEF ViewEnded
<1>5. ASSUME NEW l \in [1..Len(turns) -> Log!Entry]
      PROVE  l \in Seq(Log!Entry) /\ DOMAIN l = DOMAIN turns /\ Len(l) = Len(turns)
  <2>1. l \in Seq(Log!Entry)
      BY <1>1, SeqDef
  <2> QED BY <1>1, <2>1, LenProperties
<1>6. \A n \in DOMAIN turns : View[n].status = turns[n].status /\ View[n].undone = turns[n].undone
    BY DEF View, Seen
<1> QED BY <1>3, <1>4, <1>5, <1>6

(* Only the last turn runs, so that a log's end ends one turn. *)
LEMMA OneRuns ==
    ASSUME SessionInv, NEW n \in Running, NEW s \in Ends
    PROVE  /\ \A m \in DOMAIN turns : m # n => ViewEnded(s)[m] = Seen(turns[m])
           /\ ViewEnded(s)[n] = [Seen(turns[n]) EXCEPT !.status = s]
<1>1. /\ n \in DOMAIN turns /\ turns[n].status = "running"
      /\ \A m \in DOMAIN turns : turns[m].status = "running" => m = n
    BY DEF SessionInv, TurnSound, Running
<1>2. /\ DOMAIN View = DOMAIN turns
      /\ \A m \in DOMAIN turns : View[m] = Seen(turns[m]) /\ View[m].status = turns[m].status
    BY DEF View, Seen
<1> QED BY <1>1, <1>2 DEF ViewEnded

LEMMA NoneRuns ==
    ASSUME SessionInv, Running = {}, NEW s
    PROVE  ViewEnded(s) = View
<1>1. \A m \in DOMAIN View : View[m].status # "running"
    BY DEF View, Seen, Running
<1>2. View = [n \in DOMAIN View |-> View[n]]
    BY DEF View
<1> QED BY <1>1, <1>2 DEF ViewEnded

(* A step that ends the running turn, or writes what no reader sees. *)
LEMMA EndsInPlace ==
    ASSUME SessionInv, turns' \in Seq(Turn), DOMAIN turns' = DOMAIN turns, withdrawn' = withdrawn,
           \A n \in DOMAIN turns :
              /\ turns'[n].undone = turns[n].undone /\ turns'[n].key = turns[n].key
              /\ turns[n].status # "running" => turns'[n].status = turns[n].status
    PROVE  Log!End \/ UNCHANGED Log!vars
<1>1. turns' \in [DOMAIN turns' -> Turn]
    BY LenProperties
<1>2. View' = [n \in DOMAIN turns |-> Seen(turns'[n])]
    BY DEF View
<1>3. CASE \A n \in DOMAIN turns : turns'[n].status = turns[n].status
  <2>1. \A n \in DOMAIN turns : Seen(turns'[n]) = Seen(turns[n])
      BY <1>3 DEF Seen
  <2>2. View' = View
      BY <1>2, <2>1 DEF View
  <2> QED BY <2>2, ViewIsLog
<1>4. ASSUME NEW n \in DOMAIN turns, turns'[n].status # turns[n].status
      PROVE  Log!End
  <2>1. n \in Running
      BY <1>4 DEF Running
  <2> PICK s \in Ends : s = turns'[n].status
      BY <1>1, <1>4 DEF Turn
  <2>3. \A m \in DOMAIN turns : m # n => turns[m].status # "running"
      BY <2>1 DEF SessionInv, TurnSound, Running
  <2>4. \A m \in DOMAIN turns : m # n => Seen(turns'[m]) = ViewEnded(s)[m]
    <3>1. \A m \in DOMAIN turns : m # n => ViewEnded(s)[m] = Seen(turns[m])
        BY <2>1, OneRuns
    <3>2. \A m \in DOMAIN turns : m # n => Seen(turns'[m]) = Seen(turns[m])
        BY <2>3 DEF Seen
    <3> QED BY <3>1, <3>2
  <2>5. Seen(turns'[n]) = ViewEnded(s)[n]
    <3>1. ViewEnded(s)[n] = [Seen(turns[n]) EXCEPT !.status = s]
        BY <2>1, OneRuns
    <3> QED BY <3>1 DEF Seen
  <2>6. ViewEnded(s) = [m \in DOMAIN turns |-> ViewEnded(s)[m]]
      BY DEF ViewEnded, View
  <2>7. View' = ViewEnded(s)
      BY <1>2, <2>4, <2>5, <2>6
  <2> QED BY <2>7, ViewIsLog
<1> QED BY <1>3, <1>4

(* Recovery ends the running turn as a log's end does. *)
LEMMA RecoveredEnded ==
    ASSUME SessionInv, NEW p \in Procs
    PROVE  \E s \in Ends : ViewEnded(s) = [n \in DOMAIN turns |-> Seen(Recovered(p)[n])]
<1>1. CASE Running = {}
  <2>1. Recovered(p) = turns
    <3>1. turns = [n \in DOMAIN turns |-> turns[n]]
        BY TurnList DEF SessionInv, TypeOK
    <3> QED BY <1>1, <3>1 DEF Recovered
  <2>2. "crashed" \in Ends
      BY DEF Ends
  <2>3. View = [n \in DOMAIN turns |-> Seen(Recovered(p)[n])]
      BY <2>1 DEF View
  <2> QED BY <1>1, <2>2, <2>3, NoneRuns
<1>2. ASSUME NEW n \in Running PROVE \E s \in Ends : ViewEnded(s) = [m \in DOMAIN turns |-> Seen(Recovered(p)[m])]
  <2>1. n \in DOMAIN turns
      BY DEF Running
  <2> PICK s \in Ends : s = Recovered(p)[n].status
      BY <2>1, RecoveredTurns DEF Turn
  <2>3. \A m \in DOMAIN turns : m # n => ViewEnded(s)[m] = Seen(Recovered(p)[m])
    <3>1. \A m \in DOMAIN turns : m # n => turns[m].status # "running"
        BY DEF SessionInv, TurnSound, Running
    <3>2. \A m \in DOMAIN turns : m # n => Recovered(p)[m] = turns[m]
        BY <3>1, RecoveredTurns
    <3>3. \A m \in DOMAIN turns : m # n => ViewEnded(s)[m] = Seen(turns[m])
        BY OneRuns
    <3> QED BY <3>2, <3>3
  <2>4. ViewEnded(s)[n] = Seen(Recovered(p)[n])
    <3>1. Recovered(p)[n].undone = turns[n].undone /\ Recovered(p)[n].key = turns[n].key
        BY <2>1, RecoveredTurns
    <3>2. ViewEnded(s)[n] = [Seen(turns[n]) EXCEPT !.status = s]
        BY OneRuns
    <3> QED BY <3>1, <3>2 DEF Seen
  <2>5. ViewEnded(s) = [m \in DOMAIN turns |-> ViewEnded(s)[m]]
      BY DEF ViewEnded, View
  <2>6. ViewEnded(s) = [m \in DOMAIN turns |-> Seen(Recovered(p)[m])]
      BY <2>3, <2>4, <2>5
  <2> QED BY <2>6
<1> QED BY <1>1, <1>2

LEMMA BeginLogs ==
    ASSUME SessionInv, NEW p \in Procs, NEW k \in Keys \cup {NoKey}, Begin(p, k)
    PROVE  Log!Begin
<1> DEFINE entry == [holder |-> p, status |-> "running", undone |-> FALSE, key |-> k,
                     ran |-> "none", kept |-> FALSE, taken |-> FALSE]
           seen == [status |-> "running", undone |-> FALSE, key |-> k]
           last == Len(turns) + 1
<1>1. PICK s \in Ends : ViewEnded(s) = [n \in DOMAIN turns |-> Seen(Recovered(p)[n])]
    BY RecoveredEnded
<1>2. /\ entry \in Turn /\ Seen(entry) = seen /\ seen \in Log!Entry
    BY DEF Turn, Seen, Log!Entry
<1>3. /\ turns' = Append(Recovered(p), entry) /\ withdrawn' = withdrawn
      /\ k \notin Accepted \cup withdrawn
    BY DEF Begin
<1>4. Len(turns) \in Nat /\ DOMAIN turns = 1..Len(turns)
    BY TurnList DEF SessionInv, TypeOK
<1>5. last \in Nat /\ 1..last = DOMAIN turns \cup {last} /\ last \notin DOMAIN turns
    BY <1>4
<1> HIDE DEF entry, seen, last
<1>6. /\ DOMAIN turns' = 1..last /\ turns'[last] = entry
      /\ \A n \in DOMAIN turns : turns'[n] = Recovered(p)[n]
    BY <1>2, <1>3, <1>4, RecoveredTurns, AppendProperties DEF last
<1>7. View' = [n \in 1..last |-> Seen(turns'[n])]
    BY <1>6 DEF View
<1> DEFINE new == Append(ViewEnded(s), seen)
<1>8. /\ ViewEnded(s) \in Seq(Log!Entry) /\ Len(ViewEnded(s)) = Len(turns)
      /\ DOMAIN ViewEnded(s) = DOMAIN turns
    BY ViewOfTurns
<1>9. /\ new \in Seq(Log!Entry) /\ Len(new) = last /\ new[last] = seen
      /\ \A n \in DOMAIN turns : new[n] = ViewEnded(s)[n]
    BY <1>2, <1>4, <1>8, AppendProperties DEF last
<1> HIDE DEF new
<1>10. new = [n \in 1..last |-> new[n]]
    BY <1>9, LenProperties
<1>11. \A n \in DOMAIN turns : new[n] = Seen(turns'[n])
    BY <1>1, <1>6, <1>9
<1>12. new[last] = Seen(turns'[last])
    BY <1>2, <1>6, <1>9
<1>13. View' = new
    BY <1>5, <1>7, <1>10, <1>11, <1>12
<1>14. k \in (Keys \ (Accepted \cup withdrawn)) \cup {NoKey}
    BY <1>3
<1> QED BY <1>3, <1>13, <1>14, ViewIsLog DEF new, seen

LEMMA EntryUndone ==
    ASSUME NEW s, NEW u, NEW k, NEW v
    PROVE  [[status |-> s, undone |-> u, key |-> k] EXCEPT !.undone = v] =
              [status |-> s, undone |-> v, key |-> k]
OBVIOUS

LEMMA UndoLogs ==
    ASSUME SessionInv, NEW p \in Procs, UndoStore(p)
    PROVE  Log!Undo \/ UNCHANGED Log!vars
<1> DEFINE n == NewestLeft
<1>1. TypeOK /\ withdrawn' = withdrawn
    BY DEF SessionInv, UndoStore
<1>2. CASE UNCHANGED turns
    BY <1>1, <1>2, ViewIsLog DEF View
<1>3. CASE Left # {} /\ turns' = [Recovered(p) EXCEPT ![n].undone = TRUE]
  <2>1. PICK s \in Ends : ViewEnded(s) = [m \in DOMAIN turns |-> Seen(Recovered(p)[m])]
      BY RecoveredEnded
  <2>2. /\ n \in DOMAIN turns /\ ~turns[n].undone
        /\ \A m \in DOMAIN turns : m > n => turns[m].undone
    <3>1. n \in Left /\ \A m \in Left : m <= n
        BY <1>1, <1>3, UndoTakesNewest
    <3>2. Left = {m \in DOMAIN turns : ~turns[m].undone}
        BY DEF Left, Undone
    <3>3. DOMAIN turns \subseteq Nat
        BY <1>1, TurnList DEF TypeOK
    <3> HIDE DEF n
    <3>4. ASSUME NEW m \in DOMAIN turns, m > n PROVE turns[m].undone
      <4>1. m \in Nat /\ n \in Nat
          BY <3>1, <3>2, <3>3
      <4>2. ~(m <= n)
          BY <3>4, <4>1
      <4> QED BY <3>1, <3>2, <4>2
    <3> QED BY <3>1, <3>2, <3>4
  <2>3. Recovered(p) \in [DOMAIN turns -> Turn] /\ DOMAIN Recovered(p) = DOMAIN turns
      BY RecoveredTurns
  <2> DEFINE old == Recovered(p)[n]
             turn == [old EXCEPT !.undone = TRUE]
  <2> HIDE DEF n
  <2>4. turns' = [Recovered(p) EXCEPT ![n] = turn]
      BY <1>3
  <2>5. old \in Turn
      BY <2>2, <2>3
  <2> HIDE DEF old
  <2>6. Seen(turn) = [Seen(old) EXCEPT !.undone = TRUE]
    <3>1. turn.status = old.status /\ turn.key = old.key /\ turn.undone = TRUE
        BY <2>5 DEF Turn
    <3>2. Seen(old) = [status |-> old.status, undone |-> old.undone, key |-> old.key]
        BY DEF Seen
    <3>3. Seen(turn) = [status |-> old.status, undone |-> TRUE, key |-> old.key]
        BY <3>1 DEF Seen
    <3>4. [Seen(old) EXCEPT !.undone = TRUE] =
            [status |-> old.status, undone |-> TRUE, key |-> old.key]
        BY EntryUndone DEF Seen
    <3> HIDE DEF turn
    <3> QED BY <3>3, <3>4
  <2> HIDE DEF turn
  <2>7. /\ DOMAIN turns' = DOMAIN turns /\ turns'[n] = turn
        /\ \A m \in DOMAIN turns : m # n => turns'[m] = Recovered(p)[m]
      BY <2>2, <2>3, <2>4
  <2>8. View' = [m \in DOMAIN turns |-> Seen(turns'[m])]
      BY <2>7 DEF View
  <2> DEFINE new == [ViewEnded(s) EXCEPT ![n] = Seen(turn)]
  <2>9. new = [ViewEnded(s) EXCEPT ![n].undone = TRUE]
      BY <2>1, <2>2, <2>6 DEF old
  <2>10. View' = new
    <3>1. DOMAIN ViewEnded(s) = DOMAIN turns
        BY <2>1
    <3>2. new = [m \in DOMAIN turns |-> IF m = n THEN Seen(turn) ELSE Seen(Recovered(p)[m])]
        BY <2>1, <3>1
    <3>3. \A m \in DOMAIN turns :
             Seen(turns'[m]) = IF m = n THEN Seen(turn) ELSE Seen(Recovered(p)[m])
        BY <2>7
    <3> HIDE DEF new
    <3> QED BY <2>8, <3>2, <3>3
  <2> HIDE DEF new
  <2>11. /\ n \in DOMAIN View /\ ~View[n].undone
         /\ \A m \in DOMAIN View : m > n => View[m].undone
      BY <2>2, ViewOfTurns
  <2> QED BY <1>1, <2>9, <2>10, <2>11, ViewIsLog
<1> QED BY <1>2, <1>3 DEF UndoStore, Left, NewestLeft

(* The other steps end the running turn, withdraw a key, or write what no  *)
(* reader of the log sees.                                                 *)

LEMMA FinishLogs ==
    ASSUME SessionInv, NEW p \in Procs, NEW end \in End, FinishTurn(p, end), withdrawn' = withdrawn
    PROVE  Log!End \/ UNCHANGED Log!vars
<1> DEFINE n == end.turn
           turn == [turns[n] EXCEPT !.status = end.status]
<1>1. TypeOK /\ turns \in [DOMAIN turns -> Turn]
    BY TurnList DEF SessionInv, TypeOK
<1>2. CASE RunsUnder(p, n)
  <2>1. turns' = [turns EXCEPT ![n] = turn] /\ n \in DOMAIN turns /\ turns[n].status = "running"
      BY <1>2 DEF FinishTurn, RunsUnder
  <2>2. turns[n] \in Turn /\ end.status \in Ends
      BY <1>1, <2>1 DEF End
  <2>3. turn \in Turn /\ turn.undone = turns[n].undone /\ turn.key = turns[n].key
      BY <2>2 DEF Turn
  <2> HIDE DEF turn, n
  <2>4. /\ turns' \in Seq(Turn) /\ DOMAIN turns' = DOMAIN turns /\ turns'[n] = turn
        /\ \A m \in DOMAIN turns : m # n => turns'[m] = turns[m]
      BY <1>1, <2>1, <2>3, OneTurn
  <2>5. \A m \in DOMAIN turns :
           /\ turns'[m].undone = turns[m].undone /\ turns'[m].key = turns[m].key
           /\ turns[m].status # "running" => turns'[m].status = turns[m].status
      BY <2>1, <2>3, <2>4
  <2> QED BY <2>4, <2>5, EndsInPlace
<1>3. CASE ~RunsUnder(p, n)
    BY <1>3, ViewIsLog DEF FinishTurn, View
<1> QED BY <1>2, <1>3

LEMMA FieldLogs ==
    ASSUME SessionInv, NEW n \in DOMAIN turns, NEW turn \in Turn,
           turns' = [turns EXCEPT ![n] = turn], withdrawn' = withdrawn,
           Seen(turn) = Seen(turns[n])
    PROVE  UNCHANGED Log!vars
<1>1. /\ DOMAIN turns' = DOMAIN turns /\ turns'[n] = turn
      /\ \A m \in DOMAIN turns : m # n => turns'[m] = turns[m]
    BY OneTurn DEF SessionInv
<1>2. \A m \in DOMAIN turns : Seen(turns'[m]) = Seen(turns[m])
    BY <1>1
<1>3. View' = [m \in DOMAIN turns |-> Seen(turns'[m])]
    BY <1>1 DEF View
<1>4. View' = View
    BY <1>2, <1>3 DEF View
<1> QED BY <1>4, ViewIsLog

(* The other steps end the running turn, withdraw a key, or write what no  *)
(* reader of the log sees.                                                 *)
LEMMA StepLogs ==
    ASSUME SessionInv, NEW p \in Procs, Step(p)
    PROVE  Log!Next \/ UNCHANGED Log!vars
<1> DEFINE n == runner[p].turn
<1>1. TypeOK /\ ProcSound(p) /\ turns \in [DOMAIN turns -> Turn]
    BY TurnList DEF SessionInv, TypeOK
<1>2. CASE UNCHANGED <<turns, withdrawn>>
    BY <1>2, ViewIsLog DEF View
<1>3. CASE Open(p)
  <2>1. CASE turns' = Recovered(p)
    <3>1. withdrawn' = withdrawn
        BY <1>3 DEF Open
    <3> QED BY <2>1, <3>1, RecoveredTurns, EndsInPlace DEF Log!Next
  <2>2. CASE turns' = turns
    <3>1. withdrawn' = withdrawn
        BY <1>3 DEF Open
    <3> QED BY <1>2, <2>2, <3>1
  <2> QED BY <1>3, <2>1, <2>2 DEF Open
<1>4. ASSUME NEW k \in Keys \cup {NoKey}, Begin(p, k) PROVE Log!Next
    BY <1>4, BeginLogs DEF Log!Next
<1>5. ASSUME NEW k \in Keys \cup {NoKey}, CancelKey(p, k) PROVE Log!Next \/ UNCHANGED Log!vars
  <2>1. CASE k \in Accepted \cup withdrawn
    <3>1. UNCHANGED <<turns, withdrawn>>
        BY <1>5, <2>1 DEF CancelKey
    <3> QED BY <1>2, <3>1
  <2>2. CASE k \notin Accepted \cup withdrawn
    <3>1. k \in Keys /\ withdrawn' = withdrawn \cup {k} /\ UNCHANGED turns
        BY <1>5, <2>2 DEF CancelKey
    <3>2. View' = View
        BY <3>1 DEF View
    <3> QED BY <2>2, <3>1, <3>2, ViewIsLog DEF Log!Next
  <2> QED BY <2>1, <2>2
<1>6. ASSUME NEW outcome \in {"completed", "cancelled"}, RunEnds(p, outcome)
      PROVE  UNCHANGED Log!vars
  <2> DEFINE turn == [turns[n] EXCEPT !.ran = outcome]
  <2>1. n \in DOMAIN turns /\ turns' = [turns EXCEPT ![n] = turn] /\ withdrawn' = withdrawn
      BY <1>1, <1>6 DEF RunEnds, ProcSound, At, InTurn
  <2>2. turn \in Turn /\ Seen(turn) = Seen(turns[n])
    <3>1. turns[n] \in Turn
        BY <1>1, <2>1
    <3> QED BY <3>1 DEF Turn, Seen
  <2> HIDE DEF turn, n
  <2> QED BY <2>1, <2>2, FieldLogs
<1>7. ASSUME NEW written \in BOOLEAN, Drain(p, written)
      PROVE  UNCHANGED Log!vars
  <2> DEFINE stored == written /\ RunsUnder(p, n)
             turn == [turns[n] EXCEPT !.kept = stored]
  <2>1. n \in DOMAIN turns /\ turns' = [turns EXCEPT ![n] = turn] /\ withdrawn' = withdrawn
      BY <1>1, <1>7 DEF Drain, ProcSound, At, InTurn
  <2>2. stored \in BOOLEAN
      BY DEF RunsUnder
  <2> HIDE DEF stored
  <2>3. turn \in Turn /\ Seen(turn) = Seen(turns[n])
    <3>1. turns[n] \in Turn
        BY <1>1, <2>1
    <3> QED BY <2>2, <3>1 DEF Turn, Seen
  <2> HIDE DEF turn, n
  <2> QED BY <2>1, <2>3, FieldLogs
<1>8. CASE Record(p) \/ \E committed \in BOOLEAN : RecordFails(p, committed)
  <2>1. CASE FinishTurn(p, EndOf(p))
    <3>1. At(p, "recording") /\ withdrawn' = withdrawn
        BY <1>8 DEF Record, RecordFails
    <3> QED BY <2>1, <3>1, EndOfRunSound, FinishLogs DEF Log!Next
  <2>2. CASE UNCHANGED <<turns, lease, window>>
    <3>1. withdrawn' = withdrawn
        BY <1>8 DEF Record, RecordFails
    <3> QED BY <1>2, <2>2, <3>1
  <2> QED BY <1>8, <2>1, <2>2 DEF Record, RecordFails
<1>9. CASE RetryLost(p)
  <2>1. runner[p].lost \in End
      BY Known DEF Runner
  <2> QED BY <1>9, <2>1, FinishLogs DEF RetryLost, Log!Next
<1>10. CASE UndoStore(p)
    BY <1>10, UndoLogs DEF Log!Next
<1>11. CASE \/ Select(p) \/ Resume(p) \/ Crash(p) \/ Quit(p) \/ Exit(p) \/ Register(p)
            \/ Prepare(p) \/ Reload(p) \/ EndsEarly(p) \/ Refresh(p) \/ Stop(p)
            \/ Undo(p) \/ UndoReload(p) \/ UndoLoad(p)
  <2>1. UNCHANGED <<turns, withdrawn>>
      BY <1>11 DEF Select, Resume, Crash, Quit, Exit, Register, Prepare, Reload, EndsEarly,
                  Refresh, Stop, Undo, UndoReload, UndoLoad
  <2> QED BY <1>2, <2>1
<1> QED BY <1>3, <1>4, <1>5, <1>6, <1>7, <1>8, <1>9, <1>10, <1>11 DEF Step

(* The turns of a session are a TurnLog to whoever reads them: one at a    *)
(* time, each ended once, undone from the end, and a key starts one turn   *)
(* or none, whichever processes write, crash and take over.                *)
THEOREM SessionIsTurnLog == Spec => LogSpec
<1>1. Init => Log!Init
  <2> SUFFICES ASSUME Init PROVE Log!Init
      OBVIOUS
  <2>1. turns = <<>> /\ withdrawn = {}
      BY DEF Init
  <2>2. View = <<>>
      BY <2>1 DEF View
  <2> QED BY <2>1, <2>2, ViewIsLog
<1>2. SessionInv /\ [Next]_vars => [Log!Next]_(Log!vars)
  <2> SUFFICES ASSUME SessionInv, [Next]_vars PROVE Log!Next \/ UNCHANGED Log!vars
      OBVIOUS
  <2>1. CASE Lapse \/ UNCHANGED vars
    <3>1. UNCHANGED <<turns, withdrawn>>
        BY <2>1 DEF Lapse, vars
    <3> QED BY <3>1, ViewIsLog DEF View
  <2> QED BY <2>1, StepLogs DEF Next
<1> QED BY <1>1, <1>2, SessionInvHolds, PTL DEF Spec, LogSpec, Log!Spec
-----------------------------------------------------------------------------
(* The conversation: that a run goes on the conversation it should         *)
(* (ConversationSound), whichever processes ran, took over and undid its   *)
(* turns.  The conversation of a process may be behind the file; what has  *)
(* to be proved is that its mark then says so.                             *)

(* What is read of the turns `log` and the runners `run`, here or after a  *)
(* step.  A silent turn came to no answer and never will; a pair is one    *)
(* that a load may take.                                                   *)
Silent(log, run, n) ==
    /\ log[n].ran = "none"
    /\ ~(run[log[n].holder].at \in Stoppable /\ run[log[n].holder].turn = n)
Pair(log, n) == log[n].status # "running" /\ ~log[n].undone

(* The undone turns that are not in a conversation, or may stay in it; and *)
(* a conversation with no other undone turn and with all answers up to one *)
(* turn.                                                                   *)
Clean(log, conv) == {n \in DOMAIN log : log[n].undone /\ (n \in conv => log[n].taken)}
NoneUndone(log, conv) == \A n \in DOMAIN log : log[n].undone /\ n \in conv => log[n].taken
Fits(log, run, conv, last) ==
    /\ NoneUndone(log, conv)
    /\ \A n \in DOMAIN log : n <= last /\ Pair(log, n) => n \in conv \/ Silent(log, run, n)

(* A process has the conversation it loaded, from its first load until it  *)
(* is gone.                                                                *)
Fresh == {"new", "opened", "loading"}
Undoing == {"undo", "undo_reload", "undone"}
Loaded(p) == runner[p].at \notin Fresh \cup {"dead"}

TurnsHeld ==
    \A n \in DOMAIN turns :
        /\ turns[n].undone => turns[n].status # "running"
        /\ turns[n].status = "running" => lease.holder = turns[n].holder

OneOwner ==
    writer = "gateway" => \A p, q \in Procs : Alive(p) /\ Alive(q) => p = q

(* What is under way in a process, and that a run which no longer runs in  *)
(* the file was taken over.                                                *)
Underway(p) ==
    /\ runner[p].at \in Fresh => \A n \in DOMAIN turns : turns[n].holder # p
    /\ runner[p].at \in Undoing => runner[p].lost = NoEnd
    /\ At(p, "undone") => ~runner[p].failed
    /\ runner[p].at \in {"reload", "undo_reload"} => writer = "cli"
    /\ runner[p].at \in Stoppable /\ ~RunsUnder(p, runner[p].turn)
          => writer = "cli" /\ turns[runner[p].turn].taken

(* A mark names the end of a turn that is not the process's own, and       *)
(* counts no undo that the conversation lacks.                             *)
FarIn(log, p, far) ==
    far # 0 => far \in DOMAIN log /\ log[far].holder # p /\ log[far].status # "running"

MarkTrue(p) ==
    /\ FarIn(turns, p, runner[p].mark.far) /\ FarIn(turns, p, runner[p].later.far)
    /\ Loaded(p) /\ writer = "cli" =>
          runner[p].mark.undone <= Cardinality(Clean(turns, runner[p].conv))
    /\ Loaded(p) /\ writer = "gateway" /\ ~At(p, "undone") => NoneUndone(turns, runner[p].conv)

(* Every answer is in the conversation, but one of another process that    *)
(* the mark will find.                                                     *)
Heard(p) ==
    /\ runner[p].conv \subseteq DOMAIN turns
    /\ Loaded(p) => \A n \in DOMAIN turns :
          /\ turns[n].holder = p /\ turns[n].ran # "none" /\ ~turns[n].undone
                => n \in runner[p].conv
          /\ turns[n].holder # p /\ Pair(turns, n)
                => \/ n \in runner[p].conv \/ Silent(turns, runner, n)
                   \/ writer = "cli" /\ n > runner[p].mark.far

(* The run of a turn that is still its process's own, and the conversation *)
(* its end will store.                                                     *)
Stores(p, n) ==
    RunsUnder(p, n) /\ turns[n].ran # "none" =>
        n \in runner[p].conv /\ Fits(turns, runner, runner[p].conv, n)

RunFits(p) ==
    /\ At(p, "running") /\ RunsUnder(p, runner[p].turn)
          => Fits(turns, runner, runner[p].conv, runner[p].turn)
    /\ runner[p].at \in {"ending", "recording"} => Stores(p, runner[p].turn)
    /\ runner[p].lost # NoEnd => Stores(p, runner[p].lost.turn)

WindowFits ==
    window.turn # 0 =>
        /\ window.turn \in DOMAIN turns /\ turns[window.turn].status # "running"
        /\ window.conv \subseteq 1..window.turn
        /\ Fits(turns, runner, window.conv, window.turn)

MemoryInv ==
    /\ SessionInv /\ TurnsHeld /\ OneOwner /\ WindowFits
    /\ \A p \in Procs : Underway(p) /\ MarkTrue(p) /\ Heard(p) /\ RunFits(p)
-----------------------------------------------------------------------------
(* One process's step, and what it leaves to the others *)

(* A step of p ends another's turn only when that one is gone, has stored  *)
(* its outcome or is marked as taken over; it undoes only when nothing     *)
(* runs, and answers only for the turn it has in hand.                     *)
Evolves(p) ==
    /\ TurnsMove(p) /\ writer' = writer
    /\ \A q \in Procs \ {p} : runner'[q] = runner[q]
    /\ Alive(p) \/ (writer = "gateway" => \A q \in Procs : ~Alive(q))
    /\ runner'[p].at \in Stoppable =>
          \/ runner[p].at \in Stoppable /\ runner'[p].turn = runner[p].turn
          \/ runner'[p].turn \notin DOMAIN turns
    /\ \A n \in DOMAIN turns :
          /\ turns[n].taken => turns'[n].taken
          /\ turns'[n].undone /\ ~turns[n].undone => Running' = {}
          /\ turns[n].holder = p /\ turns'[n].ran # turns[n].ran =>
                runner[p].at \in Stoppable /\ runner[p].turn = n
          /\ turns[n].status = "running" /\ turns'[n].status # "running" =>
                \/ turns[n].holder = p \/ ~Alive(turns[n].holder)
                \/ writer = "cli" /\ (turns[n].kept \/ turns'[n].taken)
    /\ \A n \in DOMAIN turns' \ DOMAIN turns :
          turns'[n].status = "running" /\ ~turns'[n].undone /\ turns'[n].ran = "none"

LEMMA TurnKnown ==
    ASSUME SessionInv, NEW n \in DOMAIN turns
    PROVE  /\ turns[n] \in Turn /\ turns[n].holder \in Procs /\ n \in Nat /\ n # 0
           /\ n <= Len(turns) /\ Len(turns) \in Nat
           /\ turns[n].status = "running" => n = Len(turns)
           /\ turns[n].undone \in BOOLEAN /\ turns[n].taken \in BOOLEAN
<1>1. turns \in [DOMAIN turns -> Turn] /\ Len(turns) \in Nat /\ DOMAIN turns = 1..Len(turns)
    BY TurnList DEF SessionInv, TypeOK
<1>2. turns[n] \in Turn /\ TurnSound(n)
    BY <1>1 DEF SessionInv
<1> QED BY <1>1, <1>2 DEF Turn, TurnSound

LEMMA SilentStays ==
    ASSUME MemoryInv, NEW p \in Procs, Evolves(p), NEW n \in DOMAIN turns,
           Silent(turns, runner, n)
    PROVE  Silent(turns', runner', n)
<1>1. turns[n].holder \in Procs /\ turns'[n].holder = turns[n].holder
    BY TurnKnown DEF MemoryInv, Evolves, TurnsMove
<1>2. CASE turns[n].holder = p
    BY <1>1, <1>2 DEF Silent, Evolves
<1>3. CASE turns[n].holder # p
    BY <1>1, <1>3 DEF Silent, Evolves, TurnsMove
<1> QED BY <1>2, <1>3

LEMMA CleanGrows ==
    ASSUME MemoryInv, turns' \in Seq(Turn), NEW p \in Procs, Evolves(p), NEW conv, NEW conv2,
           \A n \in conv2 \ conv : n \in DOMAIN turns /\ turns[n].undone => turns[n].taken
    PROVE  /\ Cardinality(Clean(turns, conv)) \in Nat /\ Cardinality(Clean(turns', conv2)) \in Nat
           /\ Cardinality(Clean(turns, conv)) <= Cardinality(Clean(turns', conv2))
<1>1. Clean(turns', conv2) \subseteq {n \in DOMAIN turns' : turns'[n].undone}
    BY DEF Clean
<1>2. IsFiniteSet({n \in DOMAIN turns' : turns'[n].undone})
    BY UndoneCount
<1>3. Clean(turns, conv) \subseteq Clean(turns', conv2)
    BY DEF Clean, Evolves, TurnsMove
<1> QED BY <1>1, <1>2, <1>3, FS_Subset, FS_CardinalityType

(* A conversation that fits still fits when none of its turns was undone   *)
(* and none ended.                                                         *)
LEMMA FitsStay ==
    ASSUME MemoryInv, NEW p \in Procs, Evolves(p), NEW conv, NEW last,
           Fits(turns, runner, conv, last),
           \A n \in DOMAIN turns : n \in conv /\ turns'[n].undone => turns[n].undone,
           \A n \in DOMAIN turns : n <= last /\ turns[n].status = "running" /\ Pair(turns', n)
                                      => n \in conv,
           \A n \in DOMAIN turns' \ DOMAIN turns : n \notin conv \/ ~turns'[n].undone
    PROVE  Fits(turns', runner', conv, last)
<1>1. NoneUndone(turns', conv)
    BY DEF Fits, NoneUndone, Evolves
<1>2. ASSUME NEW n \in DOMAIN turns', n <= last, Pair(turns', n)
      PROVE  n \in conv \/ Silent(turns', runner', n)
  <2>1. n \in DOMAIN turns
      BY <1>2 DEF Evolves, Pair
  <2>2. CASE turns[n].status = "running"
      BY <1>2, <2>1, <2>2
  <2>3. CASE turns[n].status # "running"
    <3>1. Pair(turns, n)
        BY <1>2, <2>1, <2>3 DEF Pair, Evolves, TurnsMove
    <3> QED BY <1>2, <2>1, <3>1, SilentStays DEF Fits
  <2> QED BY <2>2, <2>3
<1> QED BY <1>1, <1>2 DEF Fits

(* A turn that still runs: nothing before it changed. *)
LEMMA FitsWhileRunning ==
    ASSUME MemoryInv, NEW p \in Procs, Evolves(p), NEW conv, NEW last, last \in Running',
           last \in DOMAIN turns, Fits(turns, runner, conv, last),
           conv \subseteq DOMAIN turns
    PROVE  Fits(turns', runner', conv, last)
<1>1. \A n \in DOMAIN turns : turns'[n].undone => turns[n].undone
    BY DEF Evolves
<1>2. turns[last].status = "running" /\ turns'[last].status = "running"
    BY DEF Running, Evolves, TurnsMove
<1>3. ASSUME NEW n \in DOMAIN turns, turns[n].status = "running" PROVE n = last
    BY <1>2, <1>3, TurnKnown DEF MemoryInv
<1> QED BY <1>1, <1>2, <1>3, FitsStay DEF Pair

LEMMA RunFitsStays ==
    ASSUME MemoryInv, NEW p \in Procs, Evolves(p), NEW q \in Procs, q # p
    PROVE  RunFits(q)'
<1>1. /\ runner'[q] = runner[q] /\ RunFits(q) /\ Heard(q) /\ ProcSound(q)
    BY DEF MemoryInv, SessionInv, Evolves
<1>2. ASSUME NEW n \in DOMAIN turns, RunsUnder(q, n)'
      PROVE  RunsUnder(q, n) /\ n \in Running' /\ turns'[n].ran = turns[n].ran
    BY <1>2 DEF RunsUnder, Running, Evolves, TurnsMove
<1>3. \A n : RunsUnder(q, n)' => n \in DOMAIN turns
    BY DEF RunsUnder, Evolves, TurnsMove
<1>4. ASSUME NEW n \in DOMAIN turns, RunsUnder(q, n)', Fits(turns, runner, runner[q].conv, n)
      PROVE  Fits(turns', runner', runner[q].conv, n)
    BY <1>1, <1>2, <1>4, FitsWhileRunning DEF Heard
<1>5. ASSUME NEW n, Stores(q, n) PROVE Stores(q, n)'
    BY <1>1, <1>2, <1>3, <1>4, <1>5 DEF Stores
<1> QED BY <1>1, <1>2, <1>3, <1>4, <1>5 DEF RunFits, At

LEMMA FarStays ==
    ASSUME NEW p \in Procs, Evolves(p), NEW q \in Procs, NEW far, FarIn(turns, q, far)
    PROVE  FarIn(turns', q, far)
BY DEF FarIn, Evolves, TurnsMove

(* What q has heard it still has, and a turn of another process that ended *)
(* in this step is newer than q's mark.  A gateway's steps end none.       *)
LEMMA HeardStays ==
    ASSUME MemoryInv, NEW p \in Procs, Evolves(p), NEW q \in Procs,
           runner[q].conv \subseteq runner'[q].conv, runner'[q].conv \subseteq DOMAIN turns',
           runner'[q].mark = runner[q].mark, Loaded(q)' => Loaded(q),
           q = p => \A n \in DOMAIN turns : turns'[n].ran # turns[n].ran => n \in runner'[q].conv,
           Loaded(q)' /\ writer = "gateway" => \A n \in Running : turns[n].holder = q \/ n \in Running'
    PROVE  Heard(q)'
<1>1. ASSUME Loaded(q)', NEW n \in DOMAIN turns', turns'[n].holder = q, turns'[n].ran # "none",
             ~turns'[n].undone
      PROVE  n \in runner'[q].conv
  <2>1. n \in DOMAIN turns /\ turns[n].holder = q /\ ~turns[n].undone
      BY <1>1 DEF Evolves, TurnsMove
  <2>2. CASE turns'[n].ran = turns[n].ran
      BY <1>1, <2>1, <2>2 DEF MemoryInv, Heard
  <2>3. CASE turns'[n].ran # turns[n].ran
      BY <2>1, <2>3 DEF Evolves, TurnsMove
  <2> QED BY <2>2, <2>3
<1>2. ASSUME Loaded(q)', NEW n \in DOMAIN turns', turns'[n].holder # q, Pair(turns', n)
      PROVE  \/ n \in runner'[q].conv \/ Silent(turns', runner', n)
             \/ writer' = "cli" /\ n > runner'[q].mark.far
  <2>1. n \in DOMAIN turns
      BY <1>2 DEF Evolves, Pair
  <2>2. /\ turns[n].holder # q /\ ~turns[n].undone /\ writer' = writer
      BY <1>2, <2>1 DEF Evolves, TurnsMove, Pair
  <2>3. CASE turns[n].status # "running"
    <3>1. Pair(turns, n)
        BY <2>2, <2>3 DEF Pair
    <3>2. \/ n \in runner[q].conv \/ Silent(turns, runner, n)
          \/ writer = "cli" /\ n > runner[q].mark.far
        BY <1>2, <2>1, <2>2, <3>1 DEF MemoryInv, Heard
    <3> QED BY <2>1, <2>2, <3>2, SilentStays
  <2>4. CASE turns[n].status = "running"
    <3>1. writer = "cli"
      <4>1. n \in Running /\ n \notin Running'
          BY <1>2, <2>1, <2>4 DEF Running, Pair
      <4> QED BY <1>2, <2>2, <4>1 DEF MemoryInv, SessionInv, TypeOK
    <3> DEFINE far == runner[q].mark.far
    <3>2. FarIn(turns, q, far)
        BY DEF MemoryInv, MarkTrue
    <3>3. n \in Nat /\ n # 0 /\ n = Len(turns) /\ Len(turns) \in Nat
        BY <2>1, <2>4, TurnKnown DEF MemoryInv
    <3>4. CASE far = 0
        BY <2>2, <3>1, <3>3, <3>4
    <3>5. CASE far # 0
      <4>1. far \in DOMAIN turns /\ turns[far].status # "running"
          BY <3>2, <3>5 DEF FarIn
      <4>2. far \in Nat /\ far <= Len(turns) /\ far # n
          BY <2>4, <4>1, TurnKnown DEF MemoryInv
      <4> QED BY <2>2, <3>1, <3>3, <4>2
    <3> QED BY <3>4, <3>5
  <2> QED BY <2>3, <2>4
<1> QED BY <1>1, <1>2 DEF Heard

LEMMA OthersRemember ==
    ASSUME MemoryInv, NEW p \in Procs, Evolves(p), NEW q \in Procs, q # p
    PROVE  Underway(q)' /\ MarkTrue(q)' /\ Heard(q)' /\ RunFits(q)'
<1>1. /\ runner'[q] = runner[q] /\ writer' = writer /\ DOMAIN turns \subseteq DOMAIN turns'
      /\ Underway(q) /\ MarkTrue(q) /\ Heard(q) /\ ProcSound(q) /\ turns' \in Seq(Turn)
    BY DEF MemoryInv, SessionInv, Evolves, TurnsMove
<1>2. writer = "gateway" => ~Alive(q)
    BY DEF MemoryInv, OneOwner, Evolves
<1>3. Loaded(q)' => Loaded(q) /\ Alive(q)
    BY <1>1 DEF Loaded, Alive, Fresh
<1>4. Underway(q)'
  <2>1. runner'[q].at \in Fresh => \A n \in DOMAIN turns' : turns'[n].holder # q
      BY <1>1 DEF Underway, Evolves, TurnsMove
  <2> DEFINE n == runner[q].turn
  <2>2. ASSUME runner[q].at \in Stoppable,
               ~(n \in DOMAIN turns' /\ turns'[n].status = "running" /\ turns'[n].holder = q)
        PROVE  writer = "cli" /\ turns'[n].taken
    <3>1. /\ n \in DOMAIN turns /\ turns[n].holder = q /\ ~turns[n].kept /\ Alive(q)
        BY <1>1, <2>2 DEF ProcSound, InTurn, Stoppable, Alive
    <3>2. CASE RunsUnder(q, n)
      <4>1. turns[n].status = "running" /\ turns'[n].status # "running"
          BY <1>1, <2>2, <3>1, <3>2 DEF RunsUnder, Evolves, TurnsMove
      <4> QED BY <1>1, <3>1, <4>1 DEF Evolves
    <3>3. CASE ~RunsUnder(q, n)
        BY <1>1, <2>2, <3>1, <3>3 DEF Underway, Evolves
    <3> QED BY <3>2, <3>3
  <2> HIDE DEF n
  <2>3. runner'[q].turn = n /\ runner'[q].at = runner[q].at
      BY <1>1 DEF n
  <2>4. runner[q].at \in Stoppable /\ ~RunsUnder(q, runner[q].turn)'
           => writer' = "cli" /\ turns'[runner'[q].turn].taken
      BY <1>1, <2>2, <2>3 DEF RunsUnder
  <2> QED BY <1>1, <2>1, <2>4 DEF Underway, At
<1>5. MarkTrue(q)'
  <2>1. FarIn(turns', q, runner[q].mark.far) /\ FarIn(turns', q, runner[q].later.far)
      BY <1>1, FarStays DEF MarkTrue
  <2> DEFINE conv == runner[q].conv
  <2>2. /\ Cardinality(Clean(turns, conv)) \in Nat /\ Cardinality(Clean(turns', conv)) \in Nat
        /\ Cardinality(Clean(turns, conv)) <= Cardinality(Clean(turns', conv))
      BY <1>1, CleanGrows
  <2>3. runner[q].mark.undone \in Nat
      BY Known, SessionAssumption DEF MemoryInv, Runner, Mark
  <2>4. Loaded(q)' /\ writer' = "cli" =>
          runner'[q].mark.undone <= Cardinality(Clean(turns', runner'[q].conv))
    <3> HIDE DEF conv
    <3>1. Loaded(q)' /\ writer' = "cli" => runner[q].mark.undone <= Cardinality(Clean(turns, conv))
        BY <1>1, <1>3 DEF MarkTrue, conv
    <3>2. runner'[q].mark = runner[q].mark /\ runner'[q].conv = conv
        BY <1>1 DEF conv
    <3> QED BY <2>2, <2>3, <3>1, <3>2
  <2> QED BY <1>1, <1>2, <1>3, <2>1, <2>4 DEF MarkTrue
<1>6. Heard(q)'
  <2>1. runner[q].conv \subseteq DOMAIN turns'
      BY <1>1 DEF Heard
  <2> QED BY <1>1, <1>2, <1>3, <2>1, HeardStays
<1> QED BY <1>4, <1>5, <1>6, RunFitsStays

LEMMA MemoryKeeps ==
    ASSUME MemoryInv, NEW p \in Procs, Evolves(p), SessionInv', TurnsHeld', WindowFits',
           Underway(p)', MarkTrue(p)', Heard(p)', RunFits(p)'
    PROVE  MemoryInv'
<1>1. OneOwner'
  <2>1. ASSUME writer = "gateway", NEW q \in Procs, q # p PROVE ~Alive(q)'
    <3>1. ~Alive(q)
        BY <2>1 DEF MemoryInv, OneOwner, Evolves
    <3> QED BY <2>1, <3>1 DEF Evolves, Alive
  <2>2. writer' = writer
      BY DEF Evolves
  <2> QED BY <2>1, <2>2 DEF OneOwner
<1>2. \A q \in Procs : Underway(q)' /\ MarkTrue(q)' /\ Heard(q)' /\ RunFits(q)'
    BY OthersRemember
<1> QED BY <1>1, <1>2 DEF MemoryInv

(* The checkpoint holds no turn newer than its own. *)
LEMMA WindowKeeps ==
    ASSUME MemoryInv, NEW p \in Procs, Evolves(p), window' = window,
           \A n \in DOMAIN turns : turns'[n].undone /\ n <= window.turn => turns[n].undone
    PROVE  WindowFits'
<1> SUFFICES ASSUME window.turn # 0
             PROVE  /\ window.turn \in DOMAIN turns' /\ turns'[window.turn].status # "running"
                    /\ window.conv \subseteq 1..window.turn
                    /\ Fits(turns', runner', window.conv, window.turn)
    BY DEF WindowFits
<1> DEFINE last == window.turn
<1>1. /\ last \in DOMAIN turns /\ turns[last].status # "running"
      /\ window.conv \subseteq 1..last /\ Fits(turns, runner, window.conv, last)
    BY DEF MemoryInv, WindowFits
<1>2. last \in DOMAIN turns' /\ turns'[last].status # "running"
    BY <1>1 DEF Evolves, TurnsMove
<1>3. last \in Nat /\ last <= Len(turns) /\ Len(turns) \in Nat
    BY <1>1, TurnKnown DEF MemoryInv
<1>4. \A n \in DOMAIN turns : n <= last => turns[n].status # "running"
  <2> SUFFICES ASSUME NEW n \in DOMAIN turns, n <= last, turns[n].status = "running" PROVE FALSE
      OBVIOUS
  <2>1. n = Len(turns) /\ n \in Nat
      BY TurnKnown DEF MemoryInv
  <2>2. n = last
      BY <1>3, <2>1
  <2> QED BY <1>1, <2>2
<1>5. \A n \in DOMAIN turns : n \in window.conv /\ turns'[n].undone => turns[n].undone
    BY <1>1, <1>3
<1>6. Fits(turns', runner', window.conv, last)
    BY <1>1, <1>4, <1>5, FitsStay DEF Evolves
<1> QED BY <1>1, <1>2, <1>6
-----------------------------------------------------------------------------
(* The steps that leave the turns alone *)

LEMMA QuietEvolves ==
    ASSUME MemoryInv, NEW p \in Procs, NEW r, Becomes(p, r), UNCHANGED <<writer, turns>>, Alive(p),
           r.at \in Stoppable => runner[p].at \in Stoppable /\ r.turn = runner[p].turn
    PROVE  Evolves(p) /\ runner'[p] = r
<1>1. TypeOK /\ runner'[p] = r /\ \A q \in Procs \ {p} : runner'[q] = runner[q]
    BY DEF MemoryInv, SessionInv, TypeOK, Becomes
<1>2. TurnsMove(p)
    BY <1>1 DEF TypeOK, TurnsMove
<1> QED BY <1>1, <1>2 DEF Evolves

LEMMA QuietRest ==
    ASSUME MemoryInv, NEW p \in Procs, Evolves(p), UNCHANGED <<turns, window>>,
           lease'.holder = lease.holder
    PROVE  TurnsHeld' /\ WindowFits'
<1>1. TurnsHeld'
    BY DEF MemoryInv, TurnsHeld
<1>2. WindowFits'
    BY WindowKeeps
<1> QED BY <1>1, <1>2

(* A conversation that still fits, of a turn that still runs. *)
LEMMA StoresStays ==
    ASSUME MemoryInv, NEW p \in Procs, Evolves(p), UNCHANGED turns,
           runner'[p].conv = runner[p].conv, NEW n, Stores(p, n)
    PROVE  Stores(p, n)'
<1> SUFFICES ASSUME RunsUnder(p, n), turns[n].ran # "none"
             PROVE  n \in runner[p].conv /\ Fits(turns', runner', runner[p].conv, n)
    BY DEF Stores, RunsUnder
<1>1. n \in Running' /\ n \in DOMAIN turns /\ runner[p].conv \subseteq DOMAIN turns
    BY DEF RunsUnder, Running, MemoryInv, Heard
<1> QED BY <1>1, FitsWhileRunning DEF Stores

(* The process goes on with the conversation and the mark it has. *)
LEMMA MindKeeps ==
    ASSUME MemoryInv, SessionInv', NEW p \in Procs, NEW r, Becomes(p, r), Alive(p),
           UNCHANGED <<writer, turns, window>>, lease'.holder = lease.holder,
           r.conv = runner[p].conv, r.mark = runner[p].mark, r.turn = runner[p].turn,
           r.lost = runner[p].lost, r.failed = runner[p].failed,
           FarIn(turns, p, r.later.far),
           r.at = runner[p].at \/ (Loaded(p) /\ ~At(p, "undone") /\ r.at \notin Fresh \cup {"undone", "ending"}),
           r.at \in Stoppable => runner[p].at \in Stoppable,
           r.at = "recording" => runner[p].at \in Stoppable \cup {"recording"},
           r.at \in Undoing => runner[p].at \in Undoing \/ runner[p].lost = NoEnd,
           r.at \in {"reload", "undo_reload"} => writer = "cli",
           r.at = "running" => \/ At(p, "running")
                               \/ RunsUnder(p, runner[p].turn)
                                     => Fits(turns, runner, runner[p].conv, runner[p].turn)
    PROVE  MemoryInv'
<1>1. Evolves(p) /\ runner'[p] = r
    BY QuietEvolves
<1>2. TurnsHeld' /\ WindowFits'
    BY <1>1, QuietRest
<1>3. Underway(p) /\ MarkTrue(p) /\ Heard(p) /\ RunFits(p) /\ ProcSound(p)
    BY DEF MemoryInv, SessionInv
<1>4. Loaded(p)' => Loaded(p)
    BY <1>1 DEF Loaded
<1>5. Underway(p)'
    BY <1>1, <1>3 DEF Underway, At, RunsUnder, Loaded
<1>6. MarkTrue(p)'
    BY <1>1, <1>3, <1>4 DEF MarkTrue, At
<1>7. Heard(p)'
  <2>1. writer = "gateway" => \A n \in Running : n \in Running'
      BY DEF Running
  <2>2. runner'[p].conv \subseteq DOMAIN turns'
      BY <1>1, <1>3 DEF Heard
  <2> QED BY <1>1, <1>4, <2>1, <2>2, HeardStays
<1>8. RunFits(p)'
  <2>1. ASSUME NEW n, Stores(p, n) PROVE Stores(p, n)'
      BY <1>1, <2>1, StoresStays
  <2>2. r.at = "running" /\ RunsUnder(p, r.turn) => Fits(turns', runner', r.conv, r.turn)
    <3> SUFFICES ASSUME r.at = "running", RunsUnder(p, r.turn)
                 PROVE  Fits(turns', runner', r.conv, r.turn)
        OBVIOUS
    <3>1. Fits(turns, runner, runner[p].conv, runner[p].turn)
        BY <1>3 DEF RunFits, At
    <3>2. r.turn \in Running' /\ r.turn \in DOMAIN turns /\ runner[p].conv \subseteq DOMAIN turns
        BY <1>3 DEF RunsUnder, Running, Heard
    <3> QED BY <1>1, <3>1, <3>2, FitsWhileRunning
  <2>3. ASSUME runner[p].at \in Stoppable PROVE Stores(p, runner[p].turn)
      BY <1>3, <2>3 DEF ProcSound, Stores
  <2>4. r.at \in {"ending", "recording"} => Stores(p, r.turn)
      BY <1>3, <2>3 DEF RunFits
  <2>5. r.lost # NoEnd => Stores(p, r.lost.turn)
      BY <1>3 DEF RunFits
  <2>6. \A n : RunsUnder(p, n)' <=> RunsUnder(p, n)
      BY DEF RunsUnder
  <2> QED BY <1>1, <2>1, <2>2, <2>4, <2>5, <2>6 DEF RunFits, At
<1> QED BY <1>1, <1>2, <1>5, <1>6, <1>7, <1>8, MemoryKeeps

LEMMA GoneRemembers ==
    ASSUME MemoryInv, SessionInv', NEW p \in Procs, Becomes(p, Gone), Alive(p),
           UNCHANGED <<writer, turns, lease, window, withdrawn>>
    PROVE  MemoryInv'
<1>1. /\ Gone.at = "dead" /\ Gone.lost = NoEnd /\ Gone.conv = {}
      /\ Gone.mark.far = 0 /\ Gone.later.far = 0
    BY GoneType DEF Gone, Away, NoMark
<1>2. Evolves(p) /\ runner'[p] = Gone
    BY <1>1, QuietEvolves DEF Stoppable
<1> HIDE DEF Gone
<1>3. TurnsHeld' /\ WindowFits'
    BY <1>2, QuietRest
<1>4. ~Loaded(p)' /\ Underway(p)' /\ RunFits(p)'
    BY <1>1, <1>2 DEF Loaded, Underway, RunFits, At, Fresh, Undoing, Stoppable
<1>5. MarkTrue(p)' /\ Heard(p)'
    BY <1>1, <1>2, <1>4 DEF MarkTrue, Heard, FarIn
<1> QED BY <1>2, <1>3, <1>4, <1>5, MemoryKeeps

(* What a load takes holds no turn that was undone and lacks no answer. *)
LEMMA LoadFits ==
    ASSUME MemoryInv, NEW conv \in Conversations
    PROVE  /\ conv \subseteq DOMAIN turns /\ NoneUndone(turns, conv)
           /\ \A n \in DOMAIN turns : Pair(turns, n) => n \in conv \/ Silent(turns, runner, n)
<1>1. CASE conv = Pairs
    BY <1>1 DEF Pairs, NoneUndone, Pair
<1>2. CASE conv # Pairs
  <2>1. /\ window.turn \in Pairs /\ conv = window.conv \cup {n \in Pairs : n > window.turn}
      BY <1>2 DEF Conversations
  <2>2. window.turn # 0 /\ window.turn \in Nat /\ window.turn <= Len(turns)
        /\ Len(turns) \in Nat /\ DOMAIN turns = 1..Len(turns)
      BY <2>1, TurnKnown, TurnList DEF MemoryInv, SessionInv, TypeOK, Pairs
  <2>3. window.conv \subseteq 1..window.turn /\ Fits(turns, runner, window.conv, window.turn)
      BY <2>2 DEF MemoryInv, WindowFits
  <2>4. conv \subseteq DOMAIN turns
      BY <2>1, <2>2, <2>3 DEF Pairs
  <2>5. NoneUndone(turns, conv)
      BY <2>1, <2>3 DEF Pairs, Fits, NoneUndone
  <2>6. ASSUME NEW n \in DOMAIN turns, Pair(turns, n) PROVE n \in conv \/ Silent(turns, runner, n)
    <3>1. n \in Nat /\ n \in Pairs
        BY <2>6, TurnKnown DEF MemoryInv, Pairs, Pair
    <3>2. CASE n <= window.turn
        BY <2>1, <2>3, <2>6, <3>2 DEF Fits
    <3>3. CASE n > window.turn
        BY <2>1, <3>1, <3>3
    <3> QED BY <2>2, <3>1, <3>2, <3>3
  <2> QED BY <2>4, <2>5, <2>6
<1> QED BY <1>1, <1>2

LEMMA CleanAll ==
    ASSUME turns \in Seq(Turn), NEW conv, NoneUndone(turns, conv)
    PROVE  Clean(turns, conv) = Undone /\ Cardinality(Undone) \in Nat
<1>1. Clean(turns, conv) = Undone
    BY DEF Clean, NoneUndone, Undone
<1> QED BY <1>1, UndoneCount DEF Undone

(* A load, by a process with no unfinished turn that has an answer. *)
LEMMA LoadKeeps ==
    ASSUME MemoryInv, SessionInv', NEW p \in Procs, NEW r, Becomes(p, r), Alive(p),
           UNCHANGED <<writer, turns, lease, window>>,
           r.conv \in Conversations, r.turn = runner[p].turn,
           r.lost = runner[p].lost, r.failed = runner[p].failed,
           r.lost # NoEnd => \A n \in DOMAIN turns : turns[n].holder # p,
           FarIn(turns, p, r.mark.far), FarIn(turns, p, r.later.far),
           writer = "cli" => r.mark.undone <= Cardinality(Undone),
           r.at \in {"idle", "running", "undo"},
           r.at = "running" => At(p, "reload"),
           r.at = "undo" => runner[p].lost = NoEnd,
           \A n \in Running : turns[n].holder = p => turns[n].ran = "none"
    PROVE  MemoryInv'
<1> DEFINE conv == r.conv
<1>1. Evolves(p) /\ runner'[p] = r
  <2>1. r.at \in Stoppable => runner[p].at \in Stoppable
      BY DEF Stoppable, At
  <2> QED BY <2>1, QuietEvolves
<1>2. TurnsHeld' /\ WindowFits'
    BY <1>1, QuietRest
<1>3. Underway(p) /\ ProcSound(p) /\ TypeOK
    BY DEF MemoryInv, SessionInv
<1>4. /\ conv \subseteq DOMAIN turns /\ NoneUndone(turns, conv)
      /\ \A n \in DOMAIN turns : Pair(turns, n) => n \in conv \/ Silent(turns, runner, n)
    BY LoadFits
<1>5. Clean(turns, conv) = Undone
    BY <1>3, <1>4, CleanAll DEF TypeOK
<1>6. Underway(p)'
    BY <1>1, <1>3 DEF Underway, At, RunsUnder, Fresh, Undoing, Stoppable
<1>7. MarkTrue(p)'
    BY <1>1, <1>4, <1>5 DEF MarkTrue, At
<1>8. \A n \in DOMAIN turns : Silent(turns, runner, n) => Silent(turns', runner', n)
    BY <1>1, SilentStays
<1>9. Heard(p)'
  <2>1. ASSUME NEW n \in DOMAIN turns, turns[n].holder = p, turns[n].ran # "none", ~turns[n].undone
        PROVE  n \in conv
    <3>1. n \notin Running
        BY <2>1
    <3>2. Pair(turns, n)
        BY <2>1, <3>1 DEF Running, Pair
    <3> QED BY <1>4, <2>1, <3>2 DEF Silent
  <2> QED BY <1>1, <1>4, <1>8, <2>1 DEF Heard
<1>10. RunFits(p)'
  <2>1. \A n : Fits(turns', runner', conv, n)
      BY <1>4, <1>8 DEF Fits, NoneUndone
  <2>2. r.lost # NoEnd => \A n : ~RunsUnder(p, n)'
      BY DEF RunsUnder
  <2> QED BY <1>1, <2>1, <2>2 DEF RunFits, Stores, At
<1> QED BY <1>1, <1>2, <1>6, <1>7, <1>9, <1>10, MemoryKeeps

(* Whoever is in a turn, or has no lost end and did not fail, has at most  *)
(* that turn running.                                                      *)
LEMMA OwnRunning ==
    ASSUME MemoryInv, NEW p \in Procs, Alive(p), runner[p].lost = NoEnd, ~runner[p].failed,
           NEW n \in Running, turns[n].holder = p
    PROVE  runner[p].at \in InTurn /\ runner[p].turn = n
<1>1. Answers(p, n) /\ n # 0
    BY TurnKnown DEF MemoryInv, SessionInv, RunningHasRunner, Answers, Running
<1> QED BY <1>1 DEF Answers, NoEnd

(* A mark that reads the counters of the file. *)
LEMMA CountersFar ==
    ASSUME MemoryInv, NEW p \in Procs
    PROVE  /\ FarIn(turns, p, Counters(p).far) /\ Counters(p).undone = Cardinality(Undone)
           /\ FarIn(turns, p, NoMark.far)
           /\ \A n \in DOMAIN turns : turns[n].holder # p /\ turns[n].status # "running"
                                        => n <= Counters(p).far
BY CountersRead DEF MemoryInv, SessionInv, FarIn, Far, NoMark

(* A mark that agrees with the file finds nothing missing in the           *)
(* conversation; nor is anything missing in a gateway.                     *)
LEMMA MarkFits ==
    ASSUME MemoryInv, NEW p \in Procs, Loaded(p), ~At(p, "undone"),
           writer = "gateway" \/ Counters(p) = runner[p].mark, RunsUnder(p, runner[p].turn)
    PROVE  Fits(turns, runner, runner[p].conv, runner[p].turn)
<1> DEFINE conv == runner[p].conv
           n == runner[p].turn
<1>1. /\ TypeOK /\ MarkTrue(p) /\ Heard(p) /\ writer \in {"cli", "gateway"}
      /\ turns \in Seq(Turn)
    BY DEF MemoryInv, SessionInv, TypeOK
<1>2. NoneUndone(turns, conv)
  <2>1. CASE writer = "gateway"
      BY <1>1, <2>1 DEF MarkTrue
  <2>2. CASE writer = "cli"
    <3>1. Cardinality(Undone) <= Cardinality(Clean(turns, conv))
        BY <1>1, <2>2, CountersFar DEF MarkTrue
    <3>2. IsFiniteSet(Undone) /\ Clean(turns, conv) \subseteq Undone
        BY <1>1, UndoneCount DEF Undone, Clean
    <3>3. Clean(turns, conv) = Undone
      <4>1. /\ Cardinality(Clean(turns, conv)) <= Cardinality(Undone)
            /\ Cardinality(Clean(turns, conv)) \in Nat /\ Cardinality(Undone) \in Nat
          BY <3>2, FS_Subset, FS_CardinalityType
      <4> QED BY <3>1, <3>2, <4>1, FS_Subset
    <3> QED BY <3>3 DEF Clean, NoneUndone, Undone
  <2> QED BY <1>1, <2>1, <2>2
<1>3. ASSUME NEW m \in DOMAIN turns, m <= n, Pair(turns, m)
      PROVE  m \in conv \/ Silent(turns, runner, m)
  <2>1. CASE turns[m].holder = p
    <3>1. m # n
        BY <1>3 DEF RunsUnder, Pair
    <3>2. turns[m].ran # "none" => m \in conv
        BY <1>1, <1>3, <2>1 DEF Heard, Pair
    <3> QED BY <2>1, <3>1, <3>2 DEF Silent
  <2>2. CASE turns[m].holder # p
    <3>1. writer = "cli" => m <= runner[p].mark.far
        BY <1>1, <1>3, <2>2, CountersFar DEF Pair
    <3>2. \/ m \in conv \/ Silent(turns, runner, m)
          \/ writer = "cli" /\ m > runner[p].mark.far
        BY <1>1, <1>3, <2>2 DEF Heard
    <3>3. m \in Nat /\ runner[p].mark.far \in Nat
        BY Known, TurnKnown, SessionAssumption DEF MemoryInv, Runner, Mark
    <3> QED BY <3>1, <3>2, <3>3
  <2> QED BY <2>1, <2>2
<1> QED BY <1>2, <1>3 DEF Fits

LEMMA QuietRemembers ==
    ASSUME MemoryInv, SessionInv', NEW p \in Procs,
           \/ Crash(p) \/ Quit(p) \/ Exit(p) \/ Register(p)
           \/ Prepare(p) \/ EndsEarly(p) \/ Refresh(p) \/ Stop(p)
           \/ (\E k \in Keys \cup {NoKey} : CancelKey(p, k)) \/ Undo(p)
    PROVE  MemoryInv'
<1>1. /\ SessionInv /\ runner[p] \in Runner /\ MarkTrue(p) /\ Underway(p)
      /\ runner \in [Procs -> Runner]
    BY Known DEF MemoryInv, SessionInv, TypeOK
<1>2. CASE Crash(p) \/ Exit(p) \/ (Quit(p) /\ runner[p].at \in {"opened", "loading", "idle"})
  <2>1. Alive(p) /\ Becomes(p, Gone) /\ UNCHANGED <<writer, turns, lease, window, withdrawn>>
      BY <1>2 DEF Crash, Exit, Quit, Alive, At, Gone
  <2> QED BY <2>1, GoneRemembers
<1>3. ASSUME NEW r, Becomes(p, r), r.at = runner[p].at, Alive(p),
             UNCHANGED <<writer, turns, window>>, lease'.holder = lease.holder,
             r.conv = runner[p].conv, r.mark = runner[p].mark, r.turn = runner[p].turn,
             r.lost = runner[p].lost, r.failed = runner[p].failed, r.later = runner[p].later
      PROVE  MemoryInv'
    BY <1>1, <1>3, MindKeeps DEF MarkTrue, Underway, At
<1>4. CASE Quit(p) /\ runner[p].at \notin {"opened", "loading", "idle"}
  <2> DEFINE r == [runner[p] EXCEPT !.closing = TRUE, !.stopped = @ \/ runner[p].at \in Stoppable]
  <2>1. Becomes(p, r) /\ Alive(p) /\ UNCHANGED <<writer, turns, lease, window, withdrawn>>
      BY <1>4 DEF Quit
  <2>2. /\ r.at = runner[p].at /\ r.conv = runner[p].conv /\ r.mark = runner[p].mark
        /\ r.turn = runner[p].turn /\ r.lost = runner[p].lost
        /\ r.failed = runner[p].failed /\ r.later = runner[p].later
      BY <1>1 DEF Runner
  <2> HIDE DEF r
  <2> QED BY <1>3, <2>1, <2>2
<1>5. CASE Register(p)
  <2> DEFINE r == [runner[p] EXCEPT !.registered = TRUE, !.deferred = FALSE,
                     !.stopped = @ \/ (runner[p].deferred /\ runner[p].at \in Stoppable)]
  <2>1. Becomes(p, r) /\ Alive(p) /\ UNCHANGED <<writer, turns, lease, window, withdrawn>>
      BY <1>5 DEF Register
  <2>2. /\ r.at = runner[p].at /\ r.conv = runner[p].conv /\ r.mark = runner[p].mark
        /\ r.turn = runner[p].turn /\ r.lost = runner[p].lost
        /\ r.failed = runner[p].failed /\ r.later = runner[p].later
      BY <1>1 DEF Runner
  <2> HIDE DEF r
  <2> QED BY <1>3, <2>1, <2>2
<1>6. CASE Prepare(p)
  <2>1. At(p, "begun") /\ Alive(p) /\ UNCHANGED <<writer, turns, lease, window, withdrawn>>
      BY <1>6 DEF Prepare, At, Alive
  <2>2. CASE writer = "gateway" \/ Counters(p) = runner[p].mark
    <3> DEFINE r == Go(p, "running")
    <3>1. Becomes(p, r)
        BY <1>6, <2>2 DEF Prepare
    <3>2. /\ r.at = "running" /\ r.conv = runner[p].conv /\ r.mark = runner[p].mark
          /\ r.turn = runner[p].turn /\ r.lost = runner[p].lost
          /\ r.failed = runner[p].failed /\ r.later = runner[p].later
        BY <1>1 DEF Go, Runner
    <3> HIDE DEF r
    <3>3. RunsUnder(p, runner[p].turn) => Fits(turns, runner, runner[p].conv, runner[p].turn)
        BY <2>1, <2>2, MarkFits DEF Loaded, At, Fresh
    <3> QED BY <1>1, <2>1, <3>1, <3>2, <3>3, MindKeeps
               DEF At, Stoppable, Loaded, Fresh, Undoing, MarkTrue
  <2>3. CASE ~(writer = "gateway" \/ Counters(p) = runner[p].mark)
    <3> DEFINE r == [Go(p, "reload") EXCEPT !.later = Counters(p)]
    <3>1. Becomes(p, r) /\ writer = "cli"
        BY <1>1, <1>6, <2>3 DEF Prepare, SessionInv, TypeOK
    <3>2. /\ r.at = "reload" /\ r.conv = runner[p].conv /\ r.mark = runner[p].mark
          /\ r.turn = runner[p].turn /\ r.lost = runner[p].lost
          /\ r.failed = runner[p].failed /\ r.later = Counters(p)
        BY <1>1 DEF Go, Runner
    <3> HIDE DEF r
    <3> QED BY <2>1, <3>1, <3>2, CountersFar, MindKeeps DEF At, Stoppable, Loaded, Fresh, Undoing
  <2> QED BY <2>2, <2>3
<1>7. CASE EndsEarly(p)
  <2> DEFINE r == [Go(p, "recording") EXCEPT !.later = NoMark]
  <2>1. /\ runner[p].at \in Stoppable /\ Becomes(p, r)
        /\ UNCHANGED <<writer, turns, lease, window, withdrawn>>
      BY <1>7 DEF EndsEarly, At, Stoppable
  <2>2. /\ r.at = "recording" /\ r.conv = runner[p].conv /\ r.mark = runner[p].mark
        /\ r.turn = runner[p].turn /\ r.lost = runner[p].lost
        /\ r.failed = runner[p].failed /\ r.later = NoMark
      BY <1>1 DEF Go, Runner
  <2>3. Alive(p) /\ Loaded(p) /\ ~At(p, "undone")
      BY <2>1 DEF Alive, Loaded, Stoppable, Fresh, At
  <2> HIDE DEF r
  <2> QED BY <2>1, <2>2, <2>3, CountersFar, MindKeeps DEF Fresh, Undoing, Stoppable
<1>8. CASE Refresh(p) \/ Stop(p)
  <2>1. runner[p].at \in InTurn /\ Alive(p) /\ UNCHANGED <<writer, turns, window>>
        /\ lease'.holder = lease.holder
      BY <1>1, <1>8, Known DEF Refresh, Stop, Stoppable, InTurn, Alive
  <2>2. CASE UNCHANGED runner
    <3>1. Becomes(p, runner[p])
        BY <1>1, <2>2 DEF Becomes
    <3> QED BY <1>3, <2>1, <3>1
  <2>3. CASE ~UNCHANGED runner
    <3> DEFINE r == [runner[p] EXCEPT !.stopped = TRUE]
    <3>1. Becomes(p, r)
        BY <1>8, <2>3 DEF Refresh, Stop
    <3>2. /\ r.at = runner[p].at /\ r.conv = runner[p].conv /\ r.mark = runner[p].mark
          /\ r.turn = runner[p].turn /\ r.lost = runner[p].lost
          /\ r.failed = runner[p].failed /\ r.later = runner[p].later
        BY <1>1 DEF Runner
    <3> HIDE DEF r
    <3> QED BY <1>3, <2>1, <3>1, <3>2
  <2> QED BY <2>2, <2>3
<1>9. CASE \E k \in Keys \cup {NoKey} : CancelKey(p, k)
  <2> PICK k \in Keys \cup {NoKey} : CancelKey(p, k)
      BY <1>9
  <2>1. UNCHANGED <<writer, turns, lease, window>> /\ Alive(p)
      BY DEF CancelKey
  <2> DEFINE r1 == [runner[p] EXCEPT !.stopped = @ \/ runner[p].at \in Stoppable]
             r2 == [runner[p] EXCEPT !.deferred = TRUE]
  <2>2. Becomes(p, r1) \/ Becomes(p, r2) \/ Becomes(p, runner[p])
      BY <1>1 DEF CancelKey, Becomes
  <2>3. /\ r1.at = runner[p].at /\ r1.conv = runner[p].conv /\ r1.mark = runner[p].mark
        /\ r1.turn = runner[p].turn /\ r1.lost = runner[p].lost
        /\ r1.failed = runner[p].failed /\ r1.later = runner[p].later
      BY <1>1 DEF Runner
  <2>4. /\ r2.at = runner[p].at /\ r2.conv = runner[p].conv /\ r2.mark = runner[p].mark
        /\ r2.turn = runner[p].turn /\ r2.lost = runner[p].lost
        /\ r2.failed = runner[p].failed /\ r2.later = runner[p].later
      BY <1>1 DEF Runner
  <2> HIDE DEF r1, r2
  <2> QED BY <1>3, <2>1, <2>2, <2>3, <2>4
<1>10. CASE Undo(p)
  <2>1. At(p, "idle") /\ Alive(p) /\ runner[p].lost = NoEnd
        /\ UNCHANGED <<writer, turns, lease, window, withdrawn>>
      BY <1>10 DEF Undo, Free, At, Alive
  <2>2. CASE writer = "gateway" \/ Counters(p) = runner[p].mark
    <3> DEFINE r == Go(p, "undo")
    <3>1. Becomes(p, r)
        BY <1>10, <2>2 DEF Undo
    <3>2. /\ r.at = "undo" /\ r.conv = runner[p].conv /\ r.mark = runner[p].mark
          /\ r.turn = runner[p].turn /\ r.lost = runner[p].lost
          /\ r.failed = runner[p].failed /\ r.later = runner[p].later
        BY <1>1 DEF Go, Runner
    <3> HIDE DEF r
    <3> QED BY <1>1, <2>1, <3>1, <3>2, MindKeeps DEF At, Stoppable, Loaded, Fresh, Undoing, MarkTrue
  <2>3. CASE ~(writer = "gateway" \/ Counters(p) = runner[p].mark)
    <3> DEFINE r == [Go(p, "undo_reload") EXCEPT !.later = Counters(p)]
    <3>1. Becomes(p, r) /\ writer = "cli"
        BY <1>1, <1>10, <2>3 DEF Undo, SessionInv, TypeOK
    <3>2. /\ r.at = "undo_reload" /\ r.conv = runner[p].conv /\ r.mark = runner[p].mark
          /\ r.turn = runner[p].turn /\ r.lost = runner[p].lost
          /\ r.failed = runner[p].failed /\ r.later = Counters(p)
        BY <1>1 DEF Go, Runner
    <3> HIDE DEF r
    <3> QED BY <2>1, <3>1, <3>2, CountersFar, MindKeeps DEF At, Stoppable, Loaded, Fresh, Undoing
  <2> QED BY <2>2, <2>3
<1> QED BY <1>2, <1>4, <1>5, <1>6, <1>7, <1>8, <1>9, <1>10

LEMMA SelectRemembers ==
    ASSUME MemoryInv, SessionInv', NEW p \in Procs, Select(p)
    PROVE  MemoryInv'
<1> DEFINE r == [Go(p, "loading") EXCEPT !.mark = IF writer = "cli" THEN Counters(p) ELSE NoMark]
<1>1. /\ runner[p] \in Runner /\ MarkTrue(p) /\ Underway(p) /\ Heard(p) /\ RunFits(p)
    BY Known DEF MemoryInv
<1>2. /\ r.at = "loading" /\ r.conv = runner[p].conv /\ r.mark \in {Counters(p), NoMark}
      /\ r.lost = runner[p].lost /\ r.later = runner[p].later
    BY <1>1 DEF Go, Runner
<1>3. At(p, "opened") /\ Alive(p) /\ Becomes(p, r)
      /\ UNCHANGED <<writer, turns, lease, window, withdrawn>>
    BY DEF Select, At, Alive
<1> HIDE DEF r
<1>4. Evolves(p) /\ runner'[p] = r
    BY <1>2, <1>3, QuietEvolves DEF Stoppable
<1>5. TurnsHeld' /\ WindowFits'
    BY <1>3, <1>4, QuietRest
<1>6. ~Loaded(p)' /\ Underway(p)'
    BY <1>1, <1>2, <1>3, <1>4 DEF Loaded, Underway, At, Fresh, Undoing, Stoppable
<1>7. MarkTrue(p)'
    BY <1>1, <1>2, <1>3, <1>4, <1>6, CountersFar DEF MarkTrue
<1>8. Heard(p)'
    BY <1>1, <1>2, <1>3, <1>4, <1>6 DEF Heard
<1>9. RunFits(p)'
  <2>1. \A n : ~RunsUnder(p, n)'
      BY <1>1, <1>3 DEF Underway, RunsUnder, At, Fresh
  <2> QED BY <2>1 DEF RunFits, Stores
<1> QED BY <1>4, <1>5, <1>6, <1>7, <1>8, <1>9, MemoryKeeps

LEMMA LoadsRemember ==
    ASSUME MemoryInv, SessionInv', NEW p \in Procs,
           Resume(p) \/ Reload(p) \/ UndoReload(p) \/ UndoLoad(p)
    PROVE  MemoryInv'
<1>1. /\ SessionInv /\ runner[p] \in Runner /\ MarkTrue(p) /\ Underway(p) /\ ProcSound(p)
      /\ MarkSound(p) /\ UNCHANGED <<writer, turns, lease, window, withdrawn>>
    BY Known DEF MemoryInv, SessionInv, Resume, Reload, UndoReload, UndoLoad
<1>2. CASE Resume(p)
  <2> PICK conv \in Conversations : Becomes(p, [Go(p, "idle") EXCEPT !.conv = conv])
    BY <1>2 DEF Resume, Load
  <2> DEFINE r == [Go(p, "idle") EXCEPT !.conv = conv]
  <2>1. /\ r.at = "idle" /\ r.turn = runner[p].turn /\ r.conv = conv
        /\ r.lost = runner[p].lost /\ r.failed = runner[p].failed
        /\ r.later = runner[p].later /\ r.mark = runner[p].mark
    BY <1>1 DEF Go, Runner
  <2>2. At(p, "loading") /\ Alive(p)
    BY <1>2 DEF Resume, At, Alive
  <2>3. \A n \in DOMAIN turns : turns[n].holder # p
    BY <1>1, <2>2 DEF Underway, At, Fresh
  <2>4. writer = "cli" => r.mark.undone <= Cardinality(Undone)
    BY <1>1, <2>1 DEF MarkSound
  <2> HIDE DEF r
  <2> QED BY <1>1, <2>1, <2>2, <2>3, <2>4, LoadKeeps DEF MarkTrue, Running, r
<1>3. CASE Reload(p)
  <2> PICK conv \in Conversations :
         Becomes(p, [Go(p, "running") EXCEPT !.conv = conv, !.mark = runner[p].later,
                                             !.later = NoMark])
    BY <1>3 DEF Reload
  <2> DEFINE r == [Go(p, "running") EXCEPT !.conv = conv, !.mark = runner[p].later,
                                           !.later = NoMark]
  <2>1. /\ r.at = "running" /\ r.turn = runner[p].turn /\ r.conv = conv
        /\ r.lost = runner[p].lost /\ r.failed = runner[p].failed
        /\ r.later = NoMark /\ r.mark = runner[p].later
    BY <1>1 DEF Go, Runner
  <2>2. At(p, "reload") /\ Alive(p) /\ runner[p].lost = NoEnd /\ ~runner[p].failed
    BY <1>1, <1>3 DEF Reload, At, Alive, ProcSound, Underway, InTurn
  <2>3. \A n \in Running : turns[n].holder = p => turns[n].ran = "none"
    BY <1>1, <2>2, OwnRunning DEF ProcSound, At, Stoppable
  <2>4. writer = "cli" => r.mark.undone <= Cardinality(Undone)
    BY <1>1, <2>1 DEF MarkSound
  <2>5. Becomes(p, r)
    OBVIOUS
  <2> HIDE DEF r
  <2> QED BY <1>1, <2>1, <2>2, <2>3, <2>4, <2>5, CountersFar, LoadKeeps DEF MarkTrue
<1>4. CASE UndoReload(p)
  <2> PICK conv \in Conversations :
         Becomes(p, [Go(p, "undo") EXCEPT !.conv = conv, !.mark = runner[p].later,
                                          !.later = NoMark])
    BY <1>4 DEF UndoReload
  <2> DEFINE r == [Go(p, "undo") EXCEPT !.conv = conv, !.mark = runner[p].later,
                                        !.later = NoMark]
  <2>1. /\ r.at = "undo" /\ r.turn = runner[p].turn /\ r.conv = conv
        /\ r.lost = runner[p].lost /\ r.failed = runner[p].failed
        /\ r.later = NoMark /\ r.mark = runner[p].later
    BY <1>1 DEF Go, Runner
  <2>2. At(p, "undo_reload") /\ Alive(p) /\ runner[p].lost = NoEnd /\ ~runner[p].failed
    BY <1>1, <1>4 DEF UndoReload, At, Alive, ProcSound, Underway, Undoing
  <2>3. \A n \in Running : turns[n].holder = p => turns[n].ran = "none"
    BY <2>2, OwnRunning DEF At, InTurn
  <2>4. writer = "cli" => r.mark.undone <= Cardinality(Undone)
    BY <1>1, <2>1 DEF MarkSound
  <2>5. Becomes(p, r)
    OBVIOUS
  <2> HIDE DEF r
  <2> QED BY <1>1, <2>1, <2>2, <2>3, <2>4, <2>5, CountersFar, LoadKeeps DEF MarkTrue
<1>5. CASE UndoLoad(p)
  <2> DEFINE count == IF writer = "cli" THEN runner[p].mark.undone + 1 ELSE runner[p].mark.undone
  <2> PICK conv \in Conversations :
           Becomes(p, [Go(p, "idle") EXCEPT !.conv = conv, !.mark.undone = count])
    BY <1>5 DEF UndoLoad, Go
  <2>1. At(p, "undone") /\ Alive(p) /\ runner[p].lost = NoEnd /\ ~runner[p].failed
    BY <1>1, <1>5 DEF UndoLoad, At, Alive, Underway, Undoing
  <2>2. runner[p].mark \in Mark /\ runner[p].mark.undone \in Nat /\ Cardinality(Undone) \in Nat
    BY <1>1, Known, SessionAssumption DEF Runner, Mark
  <2>3. writer = "cli" => count <= Cardinality(Undone)
    BY <1>1, <2>1, <2>2 DEF MarkSound
  <2> HIDE DEF count
  <2> DEFINE r == [Go(p, "idle") EXCEPT !.conv = conv, !.mark.undone = count]
  <2>4. /\ r.at = "idle" /\ r.turn = runner[p].turn /\ r.conv = conv
        /\ r.lost = runner[p].lost /\ r.failed = runner[p].failed
        /\ r.later = runner[p].later /\ r.mark.undone = count /\ r.mark.far = runner[p].mark.far
    BY <1>1, <2>2 DEF Go, Runner, Mark
  <2>5. \A n \in Running : turns[n].holder = p => turns[n].ran = "none"
    BY <2>1, OwnRunning DEF At, InTurn
  <2>6. Becomes(p, r)
    OBVIOUS
  <2> HIDE DEF r
  <2> QED BY <1>1, <2>1, <2>3, <2>4, <2>5, <2>6, LoadKeeps DEF MarkTrue
<1> QED BY <1>2, <1>3, <1>4, <1>5
-----------------------------------------------------------------------------
(* The steps that end a stale turn *)

(* Who ends a turn that runs elsewhere marks it as taken over, or has its  *)
(* outcome from the store.                                                 *)
LEMMA StaleTaken ==
    ASSUME MemoryInv, NEW p \in Procs, NEW n \in DOMAIN turns,
           Running # {} => \/ writer = "gateway" /\ \A q \in Procs : ~Alive(q)
                           \/ writer = "cli" /\ LeaseFree(p)
    PROVE  /\ turns[n].taken => Recovered(p)[n].taken
           /\ turns[n].status = "running" =>
                 \/ ~Alive(turns[n].holder)
                 \/ writer = "cli" /\ (turns[n].kept \/ Recovered(p)[n].taken)
<1>1. turns[n].taken => Recovered(p)[n].taken
    BY RecoveredTurns DEF MemoryInv
<1>2. ASSUME turns[n].status = "running"
      PROVE  \/ ~Alive(turns[n].holder)
             \/ writer = "cli" /\ (turns[n].kept \/ Recovered(p)[n].taken)
  <2>1. n \in Running /\ turns[n].holder \in Procs /\ lease.holder = turns[n].holder
      BY <1>2, TurnKnown DEF MemoryInv, TurnsHeld, Running
  <2>2. CASE Alive(turns[n].holder) /\ ~turns[n].kept
    <3>1. writer = "cli" /\ LeaseFree(p)
        BY <2>1, <2>2
    <3>2. lease.holder # NoProc /\ Host[lease.holder] # Host[p]
        BY <2>1, <2>2, <3>1, SessionAssumption DEF LeaseFree
    <3> DEFINE new == [turns[n] EXCEPT !.status = "cancelled", !.taken = TRUE]
    <3>3. Recovered(p)[n] = new
        BY <2>1, <2>2, <3>1, <3>2 DEF Recovered, StaleEnd
    <3>4. turns[n] \in Turn
        BY TurnKnown DEF MemoryInv
    <3>5. new.taken = TRUE
        BY <3>4 DEF Turn
    <3> HIDE DEF new
    <3> QED BY <3>1, <3>3, <3>5
  <2>3. CASE turns[n].kept
      BY <2>1, <2>3
  <2> QED BY <2>2, <2>3
<1> QED BY <1>1, <1>2

LEMMA OpenRemembers ==
    ASSUME MemoryInv, SessionInv', NEW p \in Procs, Open(p)
    PROVE  MemoryInv'
<1>1. /\ TypeOK /\ turns \in Seq(Turn) /\ runner[p] \in Runner /\ At(p, "new")
      /\ Underway(p) /\ MarkTrue(p) /\ Heard(p)
      /\ UNCHANGED <<writer, window>> /\ Becomes(p, Go(p, "opened"))
      /\ writer = "gateway" => \A q \in Procs : ~Alive(q)
    BY Known DEF MemoryInv, SessionInv, TypeOK, Open
<1> DEFINE r == Go(p, "opened")
<1>2. r.at = "opened" /\ r.conv = runner[p].conv /\ r.mark = runner[p].mark
      /\ r.later = runner[p].later /\ r.lost = runner[p].lost
    BY <1>1 DEF Go, Runner
<1>3. runner'[p] = r /\ \A q \in Procs \ {p} : runner'[q] = runner[q]
    BY <1>1 DEF Becomes, TypeOK
<1> HIDE DEF r
<1>4. DOMAIN turns' = DOMAIN turns /\ turns' \in Seq(Turn) /\ Len(turns') <= MaxTurns
  <2>1. Len(turns) <= MaxTurns /\ DOMAIN Recovered(p) = DOMAIN turns
        /\ Recovered(p) \in Seq(Turn) /\ Len(Recovered(p)) = Len(turns)
      BY <1>1, RecoveredTurns DEF MemoryInv, TypeOK
  <2> QED BY <1>1, <2>1 DEF Open
<1>5. ASSUME NEW n \in DOMAIN turns
      PROVE  /\ turns'[n].holder = turns[n].holder /\ turns'[n].undone = turns[n].undone
             /\ turns'[n].ran = turns[n].ran /\ turns'[n].kept = turns[n].kept
             /\ turns'[n].status = "running" => turns[n].status = "running"
             /\ turns[n].taken => turns'[n].taken
             /\ turns[n].status = "running" /\ turns'[n].status # "running" =>
                   \/ ~Alive(turns[n].holder)
                   \/ writer = "cli" /\ (turns[n].kept \/ turns'[n].taken)
  <2>1. CASE UNCHANGED <<turns, lease>>
      BY <2>1
  <2>2. CASE turns' = Recovered(p) /\ (writer = "gateway" \/ LeaseFree(p))
    <3>1. /\ turns[n].taken => turns'[n].taken
          /\ turns[n].status = "running" =>
                \/ ~Alive(turns[n].holder)
                \/ writer = "cli" /\ (turns[n].kept \/ turns'[n].taken)
        BY <1>1, <2>2, StaleTaken DEF TypeOK
    <3> QED BY <2>2, <3>1, RecoveredTurns DEF MemoryInv
  <2> QED BY <2>1, <2>2 DEF Open
<1>6. TurnsMove(p)
    BY <1>1, <1>4, <1>5 DEF TurnsMove
<1>7. Evolves(p)
    BY <1>1, <1>2, <1>3, <1>4, <1>5, <1>6 DEF Evolves, Stoppable
<1>8. TurnsHeld'
  <2>1. CASE UNCHANGED <<turns, lease>>
      BY <2>1 DEF MemoryInv, TurnsHeld
  <2>2. CASE turns' = Recovered(p)
      BY <2>2, RecoveredTurns DEF MemoryInv, TurnsHeld
  <2> QED BY <2>1, <2>2 DEF Open
<1>9. WindowFits'
    BY <1>1, <1>5, <1>7, WindowKeeps
<1>10. \A n \in DOMAIN turns' : turns'[n].holder # p
    BY <1>1, <1>4, <1>5 DEF Underway, At, Fresh
<1>11. ~Loaded(p)' /\ Underway(p)'
    BY <1>2, <1>3, <1>10 DEF Loaded, Underway, At, Fresh, Undoing, Stoppable
<1>12. MarkTrue(p)'
  <2>1. FarIn(turns', p, runner[p].mark.far) /\ FarIn(turns', p, runner[p].later.far)
      BY <1>1, <1>7, FarStays DEF MarkTrue
  <2> QED BY <1>2, <1>3, <1>11, <2>1 DEF MarkTrue
<1>13. Heard(p)'
    BY <1>1, <1>2, <1>3, <1>4, <1>11 DEF Heard
<1>14. RunFits(p)'
  <2>1. \A n : ~RunsUnder(p, n)'
      BY <1>10 DEF RunsUnder
  <2> QED BY <2>1 DEF RunFits, Stores
<1> QED BY <1>7, <1>8, <1>9, <1>11, <1>12, <1>13, <1>14, MemoryKeeps

LEMMA BeginRemembers ==
    ASSUME MemoryInv, SessionInv', NEW p \in Procs, NEW k \in Keys \cup {NoKey}, Begin(p, k)
    PROVE  MemoryInv'
<1> DEFINE entry == [holder |-> p, status |-> "running", undone |-> FALSE, key |-> k,
                     ran |-> "none", kept |-> FALSE, taken |-> FALSE]
           last == Len(turns) + 1
           r == [Go(p, "begun") EXCEPT !.turn = last, !.stopped = FALSE]
<1>1. /\ TypeOK /\ turns \in Seq(Turn) /\ runner[p] \in Runner /\ At(p, "idle")
      /\ Underway(p) /\ MarkTrue(p) /\ Heard(p) /\ runner[p].lost = NoEnd
      /\ UNCHANGED <<writer, window>> /\ Becomes(p, r) /\ lease'.holder = p
      /\ turns' = Append(Recovered(p), entry)
      /\ Running # {} => writer = "cli" /\ LeaseFree(p)
  <2>1. /\ TypeOK /\ turns \in Seq(Turn) /\ runner[p] \in Runner
        /\ Underway(p) /\ MarkTrue(p) /\ Heard(p) /\ writer \in {"cli", "gateway"}
      BY Known DEF MemoryInv, SessionInv, TypeOK
  <2>2. /\ At(p, "idle") /\ runner[p].lost = NoEnd
        /\ UNCHANGED <<writer, window>> /\ Becomes(p, r)
        /\ turns' = Append(Recovered(p), entry)
      BY DEF Begin, Free, At
  <2>3. lease'.holder = p
      BY DEF Begin
  <2>4. Running # {} => writer = "cli" /\ LeaseFree(p)
      BY <2>1 DEF Begin, RunningIsLive
  <2> QED BY <2>1, <2>2, <2>3, <2>4
<1>2. Len(turns) \in Nat /\ DOMAIN turns = 1..Len(turns) /\ Len(turns) < MaxTurns
    BY <1>1, TurnList DEF Begin
<1>3. /\ turns' \in Seq(Turn) /\ Len(turns') = last /\ DOMAIN turns' = 1..last
      /\ \A n \in DOMAIN turns : n \in DOMAIN turns' /\ turns'[n] = Recovered(p)[n]
      /\ turns'[last] = entry
  <2>1. entry \in Turn
      BY DEF Turn
  <2> HIDE DEF entry
  <2> QED BY <1>1, <1>2, <2>1, RecoveredTurns, AppendProperties DEF MemoryInv
<1>4. DOMAIN turns' = DOMAIN turns \cup {last} /\ last \notin DOMAIN turns /\ Len(turns') <= MaxTurns
      /\ last # 0
    BY <1>2, <1>3, SessionAssumption
<1>5. /\ turns'[last].holder = p /\ turns'[last].status = "running" /\ ~turns'[last].undone
      /\ turns'[last].ran = "none"
    BY <1>3
<1>6. /\ r.at = "begun" /\ r.turn = last /\ r.conv = runner[p].conv /\ r.mark = runner[p].mark
      /\ r.later = runner[p].later /\ r.lost = NoEnd
  <2> HIDE DEF last
  <2> QED BY <1>1 DEF Go, Runner
<1>7. runner'[p] = r /\ \A q \in Procs \ {p} : runner'[q] = runner[q]
    BY <1>1 DEF Becomes, TypeOK
<1> HIDE DEF r, entry, last
<1>8. ASSUME NEW n \in DOMAIN turns
      PROVE  /\ turns'[n].holder = turns[n].holder /\ turns'[n].undone = turns[n].undone
             /\ turns'[n].ran = turns[n].ran /\ turns'[n].kept = turns[n].kept
             /\ turns'[n].status # "running"
             /\ turns[n].taken => turns'[n].taken
             /\ turns[n].status = "running" =>
                   \/ ~Alive(turns[n].holder)
                   \/ writer = "cli" /\ (turns[n].kept \/ turns'[n].taken)
  <2>1. turns'[n] = Recovered(p)[n]
      BY <1>3
  <2>2. /\ turns[n].taken => turns'[n].taken
        /\ turns[n].status = "running" =>
              \/ ~Alive(turns[n].holder)
              \/ writer = "cli" /\ (turns[n].kept \/ turns'[n].taken)
      BY <1>1, <2>1, StaleTaken
  <2> QED BY <2>1, <2>2, RecoveredTurns DEF MemoryInv
<1>9. TurnsMove(p)
    BY <1>3, <1>4, <1>5, <1>8 DEF TurnsMove
<1>10. Evolves(p)
  <2>1. Alive(p)
      BY <1>1 DEF Alive, At
  <2> QED BY <1>1, <1>4, <1>5, <1>6, <1>7, <1>8, <1>9, <2>1 DEF Evolves
<1>11. TurnsHeld'
    BY <1>1, <1>4, <1>5, <1>8 DEF TurnsHeld
<1>12. WindowFits'
    BY <1>1, <1>8, <1>10, WindowKeeps
<1>13. Underway(p)'
    BY <1>4, <1>5, <1>6, <1>7 DEF Underway, At, RunsUnder, Fresh, Undoing, Stoppable
<1>14. Loaded(p) /\ ~At(p, "undone")
    BY <1>1 DEF Loaded, At, Fresh
<1>15. MarkTrue(p)'
  <2> DEFINE conv == runner[p].conv
  <2>1. FarIn(turns', p, runner[p].mark.far) /\ FarIn(turns', p, runner[p].later.far)
      BY <1>1, <1>10, FarStays DEF MarkTrue
  <2>2. /\ Cardinality(Clean(turns, conv)) \in Nat /\ Cardinality(Clean(turns', conv)) \in Nat
        /\ Cardinality(Clean(turns, conv)) <= Cardinality(Clean(turns', conv))
      BY <1>3, <1>10, CleanGrows
  <2>3. NoneUndone(turns, conv) => NoneUndone(turns', conv)
      BY <1>4, <1>5, <1>8 DEF NoneUndone
  <2>4. runner[p].mark.undone \in Nat
      BY <1>1, SessionAssumption DEF Runner, Mark
  <2>5. writer = "cli" => runner[p].mark.undone <= Cardinality(Clean(turns, conv))
      BY <1>1, <1>14 DEF MarkTrue
  <2> HIDE DEF conv
  <2>6. runner'[p].conv = conv /\ runner'[p].mark = runner[p].mark
        /\ runner'[p].later = runner[p].later /\ writer' = writer
      BY <1>1, <1>6, <1>7 DEF conv
  <2>7. writer = "gateway" => NoneUndone(turns, conv)
      BY <1>1, <1>14 DEF MarkTrue, conv
  <2> QED BY <2>1, <2>2, <2>3, <2>4, <2>5, <2>6, <2>7 DEF MarkTrue
<1>16. Heard(p)'
  <2>1. runner'[p].conv \subseteq DOMAIN turns'
      BY <1>1, <1>4, <1>6, <1>7 DEF Heard
  <2> QED BY <1>1, <1>6, <1>7, <1>8, <1>10, <1>14, <2>1, HeardStays
<1>17. RunFits(p)'
    BY <1>6, <1>7 DEF RunFits, At
<1> QED BY <1>10, <1>11, <1>12, <1>13, <1>15, <1>16, <1>17, MemoryKeeps
-----------------------------------------------------------------------------
(* The end of a run *)

(* A step that keeps the turns' number and undos, and ends none but its    *)
(* own process's.                                                          *)
OwnTurns(p) ==
    /\ turns' \in Seq(Turn) /\ DOMAIN turns' = DOMAIN turns /\ Len(turns') = Len(turns)
    /\ \A n \in DOMAIN turns :
          /\ turns'[n].holder = turns[n].holder /\ turns'[n].undone = turns[n].undone
          /\ turns'[n].taken = turns[n].taken
          /\ turns'[n].status # turns[n].status =>
                turns[n].holder = p /\ turns[n].status = "running"
          /\ turns[n].holder # p => turns'[n].ran = turns[n].ran /\ turns'[n].kept = turns[n].kept

LEMMA OwnEvolves ==
    ASSUME MemoryInv, NEW p \in Procs, NEW r, Becomes(p, r), OwnTurns(p), writer' = writer,
           Alive(p), r.at \notin Stoppable,
           \A n \in DOMAIN turns : turns'[n].ran # turns[n].ran
              => runner[p].at \in Stoppable /\ runner[p].turn = n
    PROVE  /\ Evolves(p) /\ runner'[p] = r
           /\ FarIn(turns', p, runner[p].mark.far) /\ FarIn(turns', p, runner[p].later.far)
           /\ window' = window => WindowFits'
<1>1. /\ TypeOK /\ MarkTrue(p) /\ runner'[p] = r
      /\ \A q \in Procs \ {p} : runner'[q] = runner[q]
    BY DEF MemoryInv, SessionInv, TypeOK, Becomes
<1>2. TurnsMove(p)
    BY <1>1 DEF TurnsMove, OwnTurns, TypeOK
<1>3. Evolves(p)
    BY <1>1, <1>2 DEF OwnTurns, Evolves
<1>4. window' = window => WindowFits'
    BY <1>3, WindowKeeps DEF OwnTurns
<1> QED BY <1>1, <1>3, <1>4, FarStays DEF MarkTrue

(* Its mark and its conversation, that may have got the turn in hand.      *)
LEMMA OwnMark ==
    ASSUME MemoryInv, NEW p \in Procs, Evolves(p), OwnTurns(p), Loaded(p), ~At(p, "undone"),
           \A n \in runner'[p].conv \ runner[p].conv :
              n \in DOMAIN turns /\ turns[n].undone => turns[n].taken,
           runner'[p].mark = runner[p].mark, runner'[p].later.far \in {runner[p].later.far, 0}
    PROVE  MarkTrue(p)'
<1> DEFINE conv == runner[p].conv
           new == runner'[p].conv
<1>1. /\ MarkTrue(p) /\ writer' = writer /\ runner[p] \in Runner
      /\ turns' \in Seq(Turn)
    BY Known DEF MemoryInv, Evolves, OwnTurns
<1>2. FarIn(turns', p, runner[p].mark.far) /\ FarIn(turns', p, runner[p].later.far)
      /\ FarIn(turns', p, 0)
    BY <1>1, FarStays DEF MarkTrue, FarIn
<1>3. /\ Cardinality(Clean(turns, conv)) \in Nat /\ Cardinality(Clean(turns', new)) \in Nat
      /\ Cardinality(Clean(turns, conv)) <= Cardinality(Clean(turns', new))
  <2> HIDE DEF conv, new
  <2>1. \A n \in new \ conv : n \in DOMAIN turns /\ turns[n].undone => turns[n].taken
      BY DEF conv, new
  <2> QED BY <1>1, <2>1, CleanGrows
<1>4. NoneUndone(turns, conv) => NoneUndone(turns', new)
    BY DEF NoneUndone, OwnTurns
<1>5. /\ writer = "cli" => runner[p].mark.undone <= Cardinality(Clean(turns, conv))
      /\ writer = "gateway" => NoneUndone(turns, conv)
      /\ runner[p].mark.undone \in Nat
    BY <1>1, SessionAssumption DEF MarkTrue, Runner, Mark
<1>6. runner'[p].conv = new
    OBVIOUS
<1> HIDE DEF conv, new
<1> QED BY <1>1, <1>2, <1>3, <1>4, <1>5, <1>6 DEF MarkTrue

LEMMA StoresMoves ==
    ASSUME MemoryInv, NEW p \in Procs, Evolves(p), OwnTurns(p), NEW n \in DOMAIN turns,
           runner'[p].conv = runner[p].conv, turns'[n].ran = turns[n].ran, Stores(p, n)
    PROVE  Stores(p, n)'
<1> SUFFICES ASSUME RunsUnder(p, n)', turns'[n].ran # "none"
             PROVE  n \in runner[p].conv /\ Fits(turns', runner', runner[p].conv, n)
    BY DEF Stores
<1>1. RunsUnder(p, n) /\ n \in Running'
    BY DEF RunsUnder, Running, OwnTurns
<1>2. runner[p].conv \subseteq DOMAIN turns
    BY DEF MemoryInv, Heard
<1> QED BY <1>1, <1>2, FitsWhileRunning DEF Stores

LEMMA RunEndsRemembers ==
    ASSUME MemoryInv, SessionInv', NEW p \in Procs, NEW outcome \in {"completed", "cancelled"},
           RunEnds(p, outcome)
    PROVE  MemoryInv'
<1> DEFINE n == runner[p].turn
           turn == [turns[n] EXCEPT !.ran = outcome]
           r == [Go(p, "ending") EXCEPT !.conv = @ \cup {n}]
<1>1. /\ TypeOK /\ ProcSound(p) /\ At(p, "running") /\ runner[p] \in Runner
      /\ Underway(p) /\ Heard(p) /\ RunFits(p)
      /\ UNCHANGED <<writer, lease, window>> /\ turns' = [turns EXCEPT ![n] = turn]
      /\ Becomes(p, r)
    BY Known DEF MemoryInv, SessionInv, RunEnds
<1>2. n \in DOMAIN turns /\ turns[n].holder = p /\ runner[p].lost = NoEnd
    BY <1>1 DEF ProcSound, At, InTurn
<1>3. turns[n] \in Turn
    BY <1>2, TurnKnown DEF MemoryInv
<1>4. /\ turn \in Turn /\ turn.holder = p /\ turn.status = turns[n].status
      /\ turn.kept = turns[n].kept /\ turn.undone = turns[n].undone /\ turn.taken = turns[n].taken
    BY <1>2, <1>3 DEF Turn
<1>5. /\ r.at = "ending" /\ r.turn = n /\ r.conv = runner[p].conv \cup {n}
      /\ r.lost = NoEnd /\ r.later = runner[p].later /\ r.mark = runner[p].mark
    BY <1>1, <1>2 DEF Go, Runner
<1> HIDE DEF turn, r
<1>6. /\ turns' \in Seq(Turn) /\ DOMAIN turns' = DOMAIN turns /\ Len(turns') = Len(turns)
      /\ turns'[n] = turn /\ \A m \in DOMAIN turns : m # n => turns'[m] = turns[m]
    BY <1>1, <1>2, <1>4, OneTurn
<1>7. OwnTurns(p)
  <2> HIDE DEF n
  <2>1. ASSUME NEW m \in DOMAIN turns
        PROVE  /\ turns'[m].holder = turns[m].holder /\ turns'[m].undone = turns[m].undone
               /\ turns'[m].taken = turns[m].taken /\ turns'[m].status = turns[m].status
               /\ turns[m].holder # p => turns'[m].ran = turns[m].ran /\ turns'[m].kept = turns[m].kept
      BY <1>2, <1>4, <1>6
  <2> QED BY <1>6, <2>1 DEF OwnTurns
<1>8. Alive(p) /\ Loaded(p) /\ ~At(p, "undone") /\ runner[p].at \in Stoppable
    BY <1>1 DEF Alive, Loaded, At, Fresh, Stoppable
<1>9. \A m \in DOMAIN turns : turns'[m].ran # turns[m].ran => m = n
    BY <1>6
<1>10. Evolves(p) /\ runner'[p] = r /\ WindowFits'
  <2>1. r.at \notin Stoppable
      BY <1>5 DEF Stoppable
  <2> QED BY <1>1, <1>7, <1>8, <1>9, <2>1, OwnEvolves
<1>11. TurnsHeld'
  <2>1. \A m \in DOMAIN turns : turns'[m].status = turns[m].status
      BY <1>2, <1>4, <1>6
  <2> QED BY <1>1, <1>6, <1>7, <2>1 DEF MemoryInv, TurnsHeld, OwnTurns
<1>12. Underway(p)'
    BY <1>5, <1>10 DEF Underway, At, Fresh, Undoing, Stoppable
<1>13. turns[n].undone => turns[n].taken
  <2>1. turns[n].undone => ~RunsUnder(p, n)
      BY <1>2 DEF MemoryInv, TurnsHeld, RunsUnder
  <2> QED BY <1>1, <1>8, <2>1 DEF Underway
<1>14. MarkTrue(p)'
  <2> HIDE DEF n
  <2>1. \A m \in runner'[p].conv \ runner[p].conv :
           m \in DOMAIN turns /\ turns[m].undone => turns[m].taken
      BY <1>5, <1>10, <1>13
  <2> QED BY <1>5, <1>7, <1>8, <1>10, <2>1, OwnMark
<1>15. Heard(p)'
  <2> HIDE DEF n
  <2>1. runner'[p].conv \subseteq DOMAIN turns' /\ runner[p].conv \subseteq runner'[p].conv
      BY <1>1, <1>2, <1>5, <1>6, <1>10 DEF Heard
  <2>2. \A m \in Running : m \in Running'
      BY <1>2, <1>4, <1>6 DEF Running
  <2>3. \A m \in DOMAIN turns : turns'[m].ran # turns[m].ran => m \in runner'[p].conv
      BY <1>5, <1>9, <1>10
  <2> QED BY <1>5, <1>8, <1>10, <2>1, <2>2, <2>3, HeardStays
<1>16. RunFits(p)'
  <2> PICK m \in DOMAIN turns : m = n
      BY <1>2
  <2>1. runner'[p].turn = m /\ runner'[p].lost = NoEnd /\ runner'[p].at = "ending"
        /\ runner'[p].conv = runner[p].conv \cup {m}
      BY <1>5, <1>10
  <2> HIDE DEF n
  <2>2. ASSUME RunsUnder(p, m)'
        PROVE  Fits(turns', runner', runner'[p].conv, m)
    <3>1. RunsUnder(p, m) /\ m \in Running' /\ ~turns'[m].undone
      <4>1. turns[m].status = "running" /\ turns'[m].status = "running"
          BY <1>2, <1>4, <1>6, <2>2 DEF RunsUnder
      <4> QED BY <1>2, <1>6, <1>7, <4>1 DEF RunsUnder, Running, MemoryInv, TurnsHeld, OwnTurns
    <3>2. Fits(turns, runner, runner[p].conv, m) /\ runner[p].conv \subseteq DOMAIN turns
        BY <1>1, <3>1 DEF RunFits, Heard, n
    <3>3. Fits(turns', runner', runner[p].conv, m)
        BY <1>2, <1>10, <3>1, <3>2, FitsWhileRunning
    <3> QED BY <2>1, <3>1, <3>3 DEF Fits, NoneUndone
  <2>3. Stores(p, m)'
      BY <2>1, <2>2 DEF Stores
  <2> QED BY <2>1, <2>3 DEF RunFits, At
<1> QED BY <1>10, <1>11, <1>12, <1>14, <1>15, <1>16, MemoryKeeps

LEMMA DrainRemembers ==
    ASSUME MemoryInv, SessionInv', NEW p \in Procs, NEW written \in BOOLEAN, Drain(p, written)
    PROVE  MemoryInv'
<1> DEFINE n == runner[p].turn
           stored == written /\ RunsUnder(p, n)
           turn == [turns[n] EXCEPT !.kept = stored]
           r == [Go(p, "recording") EXCEPT !.failed = @ \/ (~written /\ writer = "gateway")]
<1>1. /\ TypeOK /\ ProcSound(p) /\ At(p, "ending") /\ runner[p] \in Runner
      /\ Heard(p) /\ RunFits(p)
      /\ UNCHANGED <<writer, lease, window>> /\ turns' = [turns EXCEPT ![n] = turn]
      /\ Becomes(p, r)
    BY Known DEF MemoryInv, SessionInv, Drain
<1>2. n \in DOMAIN turns /\ turns[n].holder = p /\ runner[p].lost = NoEnd
    BY <1>1 DEF ProcSound, At, InTurn
<1>3. turns[n] \in Turn /\ stored \in BOOLEAN
    BY <1>2, TurnKnown DEF MemoryInv, RunsUnder
<1>4. /\ turn \in Turn /\ turn.holder = p /\ turn.status = turns[n].status
      /\ turn.ran = turns[n].ran /\ turn.undone = turns[n].undone /\ turn.taken = turns[n].taken
  <2> HIDE DEF stored
  <2> QED BY <1>2, <1>3 DEF Turn
<1>5. /\ r.at = "recording" /\ r.turn = n /\ r.conv = runner[p].conv
      /\ r.lost = NoEnd /\ r.later = runner[p].later /\ r.mark = runner[p].mark
    BY <1>1, <1>2 DEF Go, Runner
<1> HIDE DEF turn, r
<1>6. /\ turns' \in Seq(Turn) /\ DOMAIN turns' = DOMAIN turns /\ Len(turns') = Len(turns)
      /\ turns'[n] = turn /\ \A m \in DOMAIN turns : m # n => turns'[m] = turns[m]
    BY <1>1, <1>2, <1>4, OneTurn
<1>7. ASSUME NEW m \in DOMAIN turns
      PROVE  /\ turns'[m].holder = turns[m].holder /\ turns'[m].undone = turns[m].undone
             /\ turns'[m].taken = turns[m].taken /\ turns'[m].status = turns[m].status
             /\ turns'[m].ran = turns[m].ran
             /\ turns[m].holder # p => turns'[m].kept = turns[m].kept
  <2> HIDE DEF n
  <2> QED BY <1>2, <1>4, <1>6
<1>8. OwnTurns(p)
    BY <1>6, <1>7 DEF OwnTurns
<1>9. Alive(p) /\ Loaded(p) /\ ~At(p, "undone")
    BY <1>1 DEF Alive, Loaded, At, Fresh
<1>10. Evolves(p) /\ runner'[p] = r /\ WindowFits'
  <2>1. r.at \notin Stoppable
      BY <1>5 DEF Stoppable
  <2> QED BY <1>1, <1>7, <1>8, <1>9, <2>1, OwnEvolves
<1>11. TurnsHeld'
    BY <1>1, <1>6, <1>7 DEF MemoryInv, TurnsHeld
<1>12. Underway(p)'
    BY <1>5, <1>10 DEF Underway, At, Fresh, Undoing, Stoppable
<1>13. MarkTrue(p)'
    BY <1>5, <1>8, <1>9, <1>10, OwnMark
<1>14. Heard(p)'
  <2>1. runner'[p].conv \subseteq DOMAIN turns'
      BY <1>1, <1>5, <1>6, <1>10 DEF Heard
  <2>2. \A m \in Running : m \in Running'
      BY <1>6, <1>7 DEF Running
  <2> QED BY <1>5, <1>7, <1>9, <1>10, <2>1, <2>2, HeardStays
<1>15. RunFits(p)'
  <2> PICK m \in DOMAIN turns : m = n
      BY <1>2
  <2>1. runner'[p].turn = m /\ runner'[p].lost = NoEnd /\ runner'[p].at = "recording"
        /\ runner'[p].conv = runner[p].conv
      BY <1>5, <1>10
  <2>2. Stores(p, m)
      BY <1>1 DEF RunFits, At
  <2> HIDE DEF n
  <2>3. Stores(p, m)'
      BY <1>7, <1>8, <1>10, <2>1, <2>2, StoresMoves
  <2> QED BY <2>1, <2>3 DEF RunFits, At
<1> QED BY <1>10, <1>11, <1>12, <1>13, <1>14, <1>15, MemoryKeeps

LEMMA FinishMoves ==
    ASSUME MemoryInv, NEW p \in Procs, NEW end \in End, EndSound(p, end),
           FinishTurn(p, end) \/ UNCHANGED <<turns, lease, window>>
    PROVE  /\ OwnTurns(p) /\ TurnsHeld'
           /\ \A m \in DOMAIN turns : turns'[m].ran = turns[m].ran
           /\ \/ window' = window
              \/ /\ RunsUnder(p, end.turn) /\ turns[end.turn].ran # "none"
                 /\ turns'[end.turn].status # "running"
                 /\ window' = [turn |-> end.turn, conv |-> runner[p].conv]
<1>1. TypeOK /\ TurnsHeld
    BY DEF MemoryInv, SessionInv
<1>2. CASE UNCHANGED <<turns, lease, window>>
    BY <1>1, <1>2 DEF TypeOK, OwnTurns, TurnsHeld
<1>3. CASE FinishTurn(p, end) /\ ~RunsUnder(p, end.turn)
  <2>1. UNCHANGED <<turns, lease, window>>
      BY <1>3 DEF FinishTurn
  <2> QED BY <1>1, <2>1 DEF TypeOK, OwnTurns, TurnsHeld
<1>4. CASE FinishTurn(p, end) /\ RunsUnder(p, end.turn)
  <2> DEFINE n == end.turn
             turn == [turns[n] EXCEPT !.status = end.status]
  <2>1. /\ turns' = [turns EXCEPT ![n] = turn]
        /\ window' = window \/ (end.ran /\ window' = [turn |-> n, conv |-> runner[p].conv])
      BY <1>4 DEF FinishTurn
  <2>2. n \in DOMAIN turns /\ turns[n].holder = p /\ turns[n].status = "running"
      BY <1>4 DEF RunsUnder
  <2>3. turns[n] \in Turn /\ end.status \in Ends
      BY <2>2, TurnKnown DEF MemoryInv, End
  <2>4. /\ turn \in Turn /\ turn.holder = p /\ turn.status \in Ends
        /\ turn.ran = turns[n].ran /\ turn.kept = turns[n].kept
        /\ turn.undone = turns[n].undone /\ turn.taken = turns[n].taken
      BY <2>2, <2>3 DEF Turn
  <2> HIDE DEF turn, n
  <2>5. /\ turns' \in Seq(Turn) /\ DOMAIN turns' = DOMAIN turns /\ Len(turns') = Len(turns)
        /\ turns'[n] = turn /\ \A m \in DOMAIN turns : m # n => turns'[m] = turns[m]
      BY <1>1, <2>1, <2>2, <2>4, OneTurn
  <2>6. ASSUME NEW m \in DOMAIN turns
        PROVE  /\ turns'[m].holder = turns[m].holder /\ turns'[m].undone = turns[m].undone
               /\ turns'[m].taken = turns[m].taken /\ turns'[m].ran = turns[m].ran
               /\ m # n => turns'[m].status = turns[m].status
               /\ turns[m].holder # p => turns'[m].kept = turns[m].kept
      BY <2>2, <2>4, <2>5
  <2>7. OwnTurns(p)
      BY <2>2, <2>5, <2>6 DEF OwnTurns
  <2>8. \A m \in DOMAIN turns : turns'[m].status # "running"
    <3> SUFFICES ASSUME NEW m \in DOMAIN turns, turns'[m].status = "running" PROVE FALSE
        OBVIOUS
    <3>1. m # n
        BY <2>4, <2>5 DEF Ends
    <3>2. m = Len(turns) /\ n = Len(turns)
        BY <2>2, <2>6, <3>1, TurnKnown DEF MemoryInv
    <3> QED BY <3>1, <3>2
  <2>9. TurnsHeld'
      BY <2>5, <2>8 DEF TurnsHeld
  <2>10. end.ran => turns[n].ran # "none"
      BY DEF EndSound, n
  <2> QED BY <1>4, <2>1, <2>2, <2>6, <2>7, <2>8, <2>9, <2>10 DEF n
<1> QED BY <1>2, <1>3, <1>4

(* The end of a turn is stored, or kept for another try. *)
LEMMA FinishRemembers ==
    ASSUME MemoryInv, SessionInv', NEW p \in Procs, NEW end \in End, EndSound(p, end),
           Stores(p, end.turn), FinishTurn(p, end) \/ UNCHANGED <<turns, lease, window>>,
           NEW r, Becomes(p, r), Alive(p), Loaded(p), ~At(p, "undone"), writer' = writer,
           r.at = "idle", r.conv = runner[p].conv, r.mark = runner[p].mark,
           r.later = runner[p].later, r.lost \in {end, NoEnd}
    PROVE  MemoryInv'
<1> PICK n \in DOMAIN turns : n = end.turn
    BY DEF EndSound
<1>1. /\ OwnTurns(p) /\ TurnsHeld'
      /\ \A m \in DOMAIN turns : turns'[m].ran = turns[m].ran
      /\ \/ window' = window
         \/ /\ RunsUnder(p, n) /\ turns[n].ran # "none" /\ turns'[n].status # "running"
            /\ window' = [turn |-> n, conv |-> runner[p].conv]
    BY FinishMoves
<1>2. Evolves(p) /\ runner'[p] = r /\ (window' = window => WindowFits')
  <2>1. r.at \notin Stoppable
      BY DEF Stoppable
  <2> QED BY <1>1, <2>1, OwnEvolves
<1>3. Heard(p) /\ DOMAIN turns = 1..Len(turns) /\ n \in Nat
    BY TurnKnown, TurnList DEF MemoryInv, SessionInv, TypeOK
<1>4. WindowFits'
  <2>1. CASE window' = window
      BY <1>2, <2>1
  <2>2. CASE /\ RunsUnder(p, n) /\ turns[n].ran # "none" /\ turns'[n].status # "running"
             /\ window' = [turn |-> n, conv |-> runner[p].conv]
    <3>1. n \in runner[p].conv /\ Fits(turns, runner, runner[p].conv, n)
        BY <2>2 DEF Stores
    <3>2. n = Len(turns) /\ runner[p].conv \subseteq 1..n
        BY <1>3, <2>2, TurnKnown DEF MemoryInv, RunsUnder, Heard
    <3>3. ASSUME NEW m \in DOMAIN turns, turns[m].status = "running" PROVE m = n
        BY <3>2, <3>3, TurnKnown DEF MemoryInv
    <3>4. Fits(turns', runner', runner[p].conv, n)
        BY <1>1, <1>2, <3>1, <3>3, FitsStay DEF OwnTurns
    <3>5. n \in DOMAIN turns'
        BY <1>1 DEF OwnTurns
    <3> QED BY <2>2, <3>2, <3>4, <3>5 DEF WindowFits
  <2> QED BY <1>1, <2>1, <2>2
<1>5. Underway(p)'
    BY <1>2 DEF Underway, At, Fresh, Undoing, Stoppable
<1>6. MarkTrue(p)'
    BY <1>1, <1>2, OwnMark
<1>7. Heard(p)'
  <2>1. runner'[p].conv \subseteq DOMAIN turns'
      BY <1>1, <1>2, <1>3 DEF Heard, OwnTurns
  <2>2. \A m \in Running : turns[m].holder = p \/ m \in Running'
      BY <1>1 DEF Running, OwnTurns
  <2> QED BY <1>1, <1>2, <2>1, <2>2, HeardStays
<1>8. RunFits(p)'
  <2>1. Stores(p, n)'
    <3>1. runner'[p].conv = runner[p].conv
        BY <1>2
    <3> QED BY <1>1, <1>2, <3>1, StoresMoves
  <2>2. runner'[p].at = "idle" /\ runner'[p].lost \in {end, NoEnd}
      BY <1>2
  <2> QED BY <2>1, <2>2 DEF RunFits, At
<1> QED BY <1>1, <1>2, <1>4, <1>5, <1>6, <1>7, <1>8, MemoryKeeps

LEMMA RecordRemembers ==
    ASSUME MemoryInv, SessionInv', NEW p \in Procs,
           Record(p) \/ (\E committed \in BOOLEAN : RecordFails(p, committed)) \/ RetryLost(p)
    PROVE  MemoryInv'
<1>1. SessionInv /\ runner[p] \in Runner /\ RunFits(p) /\ ProcSound(p)
    BY Known DEF MemoryInv, SessionInv
<1>2. CASE Record(p) \/ \E committed \in BOOLEAN : RecordFails(p, committed)
  <2>1. At(p, "recording") /\ writer' = writer
      BY <1>2 DEF Record, RecordFails
  <2>2. /\ EndOf(p) \in End /\ EndSound(p, EndOf(p)) /\ EndOf(p).turn = runner[p].turn
      BY <1>1, <2>1, EndOfRunSound
  <2>3. Alive(p) /\ Loaded(p) /\ ~At(p, "undone") /\ runner[p].lost = NoEnd
      BY <1>1, <2>1 DEF Alive, Loaded, At, Fresh, ProcSound, InTurn
  <2>4. Stores(p, EndOf(p).turn)
      BY <1>1, <2>1, <2>2 DEF RunFits, At
  <2>5. /\ AfterTurn(p).at = "idle" /\ AfterTurn(p).conv = runner[p].conv
        /\ AfterTurn(p).mark = runner[p].mark /\ AfterTurn(p).later = runner[p].later
        /\ AfterTurn(p).lost = NoEnd
      BY <1>1, <2>3 DEF AfterTurn, Go, Runner
  <2>6. CASE Record(p)
      BY <2>1, <2>2, <2>3, <2>4, <2>5, <2>6, FinishRemembers DEF Record
  <2>7. CASE \E committed \in BOOLEAN : RecordFails(p, committed)
    <3> PICK committed \in BOOLEAN : RecordFails(p, committed)
        BY <2>7
    <3> DEFINE r == [AfterTurn(p) EXCEPT !.lost = IF writer = "cli" THEN EndOf(p) ELSE NoEnd,
                                         !.failed = (writer = "gateway")]
    <3>1. Becomes(p, r) /\ (FinishTurn(p, EndOf(p)) \/ UNCHANGED <<turns, lease, window>>)
        BY DEF RecordFails
    <3>2. /\ r.at = "idle" /\ r.conv = runner[p].conv /\ r.mark = runner[p].mark
          /\ r.later = runner[p].later /\ r.lost \in {EndOf(p), NoEnd}
        BY <1>1, <2>3 DEF AfterTurn, Go, Runner
    <3> HIDE DEF r
    <3> QED BY <2>1, <2>2, <2>3, <2>4, <3>1, <3>2, FinishRemembers
  <2> QED BY <1>2, <2>6, <2>7
<1>3. CASE RetryLost(p)
  <2> DEFINE r == [runner[p] EXCEPT !.lost = NoEnd]
             lost == runner[p].lost
  <2>1. /\ At(p, "idle") /\ lost # NoEnd /\ FinishTurn(p, lost) /\ Becomes(p, r)
        /\ writer' = writer /\ lost \in End
      BY <1>1, <1>3 DEF RetryLost, Free, At, Runner
  <2>2. EndSound(p, lost) /\ Stores(p, lost.turn)
      BY <1>1, <2>1 DEF ProcSound, EndSound, RunFits
  <2>3. Alive(p) /\ Loaded(p) /\ ~At(p, "undone")
      BY <2>1 DEF Alive, Loaded, At, Fresh
  <2>4. /\ r.at = "idle" /\ r.conv = runner[p].conv /\ r.mark = runner[p].mark
        /\ r.later = runner[p].later /\ r.lost = NoEnd
      BY <1>1, <2>1 DEF At, Runner
  <2> HIDE DEF r, lost
  <2> QED BY <2>1, <2>2, <2>3, <2>4, FinishRemembers
<1> QED BY <1>2, <1>3
-----------------------------------------------------------------------------
(* Undo *)

LEMMA UndoMoves ==
    ASSUME MemoryInv, NEW p \in Procs, UndoStore(p),
           ~(runner[p].failed \/ (Running # {} /\ RunningIsLive(p)) \/ Left = {})
    PROVE  /\ turns' \in Seq(Turn) /\ DOMAIN turns' = DOMAIN turns /\ Len(turns') = Len(turns)
           /\ NewestLeft \in DOMAIN turns
           /\ window' = (IF window.turn >= NewestLeft THEN NoWindow ELSE window)
           /\ Becomes(p, Go(p, "undone"))
           /\ \A m \in DOMAIN turns :
                 /\ turns'[m].holder = turns[m].holder /\ turns'[m].ran = turns[m].ran
                 /\ turns'[m].kept = turns[m].kept /\ turns'[m].status # "running"
                 /\ turns'[m].undone <=> m = NewestLeft \/ turns[m].undone
                 /\ turns'[m].taken = Recovered(p)[m].taken
<1> DEFINE n == NewestLeft
           turn == [Recovered(p)[n] EXCEPT !.undone = TRUE]
<1>1. TypeOK /\ SessionInv
    BY DEF MemoryInv, SessionInv
<1>2. n \in DOMAIN turns
    BY <1>1, UndoTakesNewest DEF Left
<1>3. /\ turns' = [Recovered(p) EXCEPT ![n].undone = TRUE]
      /\ window' = (IF window.turn >= n THEN NoWindow ELSE window) /\ Becomes(p, Go(p, "undone"))
    BY DEF UndoStore, Left, NewestLeft
<1> HIDE DEF n
<1>4. Recovered(p) \in [DOMAIN turns -> Turn] /\ Recovered(p)[n] \in Turn
    BY <1>1, <1>2, RecoveredTurns
<1>5. turn \in Turn /\ turns' = [Recovered(p) EXCEPT ![n] = turn]
    BY <1>3, <1>4 DEF Turn
<1>6. /\ turn.undone = TRUE /\ turn.holder = Recovered(p)[n].holder
      /\ turn.status = Recovered(p)[n].status /\ turn.ran = Recovered(p)[n].ran
      /\ turn.kept = Recovered(p)[n].kept /\ turn.taken = Recovered(p)[n].taken
    BY <1>4 DEF Turn
<1> HIDE DEF turn
<1>7. turns' \in [DOMAIN turns -> Turn] /\ turns'[n] = turn
      /\ \A m \in DOMAIN turns : m # n => turns'[m] = Recovered(p)[m]
    BY <1>2, <1>4, <1>5
<1>8. turns' \in Seq(Turn) /\ DOMAIN turns' = DOMAIN turns /\ Len(turns') = Len(turns)
    BY <1>1, <1>7, TurnsInPlace DEF TypeOK
<1>9. ASSUME NEW m \in DOMAIN turns
      PROVE  /\ turns'[m].holder = turns[m].holder /\ turns'[m].ran = turns[m].ran
             /\ turns'[m].kept = turns[m].kept /\ turns'[m].status # "running"
             /\ turns'[m].undone <=> m = n \/ turns[m].undone
             /\ turns'[m].taken = Recovered(p)[m].taken
  <2>1. CASE m = n
    <3>1. turns'[m] = turn
        BY <1>7, <2>1
    <3>2. /\ turn.holder = turns[n].holder /\ turn.ran = turns[n].ran
          /\ turn.kept = turns[n].kept /\ turn.status # "running"
        BY <1>1, <1>2, <1>6, RecoveredTurns
    <3> QED BY <1>6, <2>1, <3>1, <3>2
  <2>2. CASE m # n
    <3>1. turns'[m] = Recovered(p)[m]
        BY <1>7, <2>2
    <3>2. /\ turns'[m].holder = turns[m].holder /\ turns'[m].ran = turns[m].ran
          /\ turns'[m].kept = turns[m].kept /\ turns'[m].status # "running"
          /\ turns'[m].undone = turns[m].undone
        BY <1>1, <3>1, RecoveredTurns
    <3> QED BY <2>2, <3>1, <3>2
  <2> QED BY <2>1, <2>2
<1> QED BY <1>2, <1>3, <1>8, <1>9 DEF n

LEMMA UndoStoreRemembers ==
    ASSUME MemoryInv, SessionInv', NEW p \in Procs, UndoStore(p)
    PROVE  MemoryInv'
<1> DEFINE busy == Running # {} /\ RunningIsLive(p)
<1>1. /\ TypeOK /\ runner[p] \in Runner /\ At(p, "undo") /\ Underway(p) /\ MarkTrue(p)
      /\ Heard(p) /\ writer' = writer /\ writer \in {"cli", "gateway"}
    BY Known DEF MemoryInv, SessionInv, TypeOK, UndoStore
<1>2. Alive(p) /\ Loaded(p) /\ ~At(p, "undone") /\ runner[p].lost = NoEnd
    BY <1>1 DEF Alive, Loaded, At, Fresh, Underway, Undoing
<1>3. CASE runner[p].failed \/ busy \/ Left = {}
  <2> DEFINE conv == IF runner[p].failed \/ busy THEN runner[p].conv ELSE {}
             r == [Go(p, "idle") EXCEPT !.conv = conv]
  <2>1. Becomes(p, r) /\ UNCHANGED <<turns, lease, window>>
    <3>1. [Go(p, "idle") EXCEPT !.conv = IF runner[p].failed \/ busy THEN @ ELSE {}] = r
        BY <1>1 DEF Go, Runner
    <3> QED BY <1>3, <3>1 DEF UndoStore, Left
  <2>2. conv = runner[p].conv \/ (conv = {} /\ Left = {})
      BY <1>3
  <2> HIDE DEF conv
  <2>3. /\ r.at = "idle" /\ r.turn = runner[p].turn /\ r.conv = conv
        /\ r.lost = runner[p].lost /\ r.failed = runner[p].failed
        /\ r.later = runner[p].later /\ r.mark = runner[p].mark
      BY <1>1 DEF Go, Runner
  <2> HIDE DEF r
  <2>4. CASE conv = runner[p].conv
      BY <1>1, <1>2, <2>1, <2>3, <2>4, MindKeeps DEF MarkTrue, Fresh, Undoing, Stoppable
  <2>5. CASE conv = {} /\ Left = {}
    <3>1. Evolves(p) /\ runner'[p] = r
        BY <1>1, <1>2, <2>1, <2>3, QuietEvolves DEF Stoppable
    <3>2. TurnsHeld' /\ WindowFits'
        BY <2>1, <3>1, QuietRest
    <3>3. Underway(p)'
        BY <2>3, <3>1 DEF Underway, At, Fresh, Undoing, Stoppable
    <3>4. MarkTrue(p)'
      <4>1. OwnTurns(p)
          BY <1>1, <2>1 DEF OwnTurns, TypeOK
      <4> QED BY <1>2, <2>3, <2>5, <3>1, <4>1, OwnMark
    <3>5. Heard(p)'
      <4>1. \A n \in DOMAIN turns : turns[n].undone
          BY <2>5 DEF Left, Undone
      <4> QED BY <2>1, <2>3, <2>5, <3>1, <4>1 DEF Heard, Pair
    <3>6. RunFits(p)'
        BY <1>2, <2>3, <3>1 DEF RunFits, At
    <3> QED BY <3>1, <3>2, <3>3, <3>4, <3>5, <3>6, MemoryKeeps
  <2> QED BY <2>2, <2>4, <2>5
<1>4. CASE ~(runner[p].failed \/ busy \/ Left = {})
  <2> DEFINE r == Go(p, "undone")
             n == NewestLeft
  <2>1. /\ turns' \in Seq(Turn) /\ DOMAIN turns' = DOMAIN turns /\ Len(turns') = Len(turns)
        /\ n \in DOMAIN turns
        /\ window' = (IF window.turn >= n THEN NoWindow ELSE window)
        /\ Becomes(p, r)
      BY <1>4, UndoMoves
  <2>2. r.at = "undone" /\ r.conv = runner[p].conv /\ r.mark = runner[p].mark
        /\ r.turn = runner[p].turn /\ r.later = runner[p].later /\ r.lost = NoEnd
        /\ r.failed = FALSE
    <3>1. runner[p].failed = FALSE
        BY <1>1, <1>4 DEF Runner
    <3> QED BY <1>1, <1>2, <3>1 DEF Go, Runner
  <2>3. runner'[p] = r /\ \A q \in Procs \ {p} : runner'[q] = runner[q]
      BY <1>1, <2>1 DEF Becomes, TypeOK
  <2> HIDE DEF r, n
  <2>4. Running # {} => writer = "cli" /\ LeaseFree(p)
      BY <1>1, <1>4 DEF RunningIsLive
  <2>5. ASSUME NEW m \in DOMAIN turns
        PROVE  /\ turns'[m].holder = turns[m].holder /\ turns'[m].ran = turns[m].ran
               /\ turns'[m].kept = turns[m].kept /\ turns'[m].status # "running"
               /\ turns'[m].undone <=> m = n \/ turns[m].undone
               /\ turns[m].taken => turns'[m].taken
               /\ turns[m].status = "running" =>
                     \/ ~Alive(turns[m].holder)
                     \/ writer = "cli" /\ (turns[m].kept \/ turns'[m].taken)
    <3>1. turns'[m].taken = Recovered(p)[m].taken
        BY <1>4, UndoMoves
    <3>2. /\ turns[m].taken => Recovered(p)[m].taken
          /\ turns[m].status = "running" =>
                \/ ~Alive(turns[m].holder)
                \/ writer = "cli" /\ (turns[m].kept \/ Recovered(p)[m].taken)
        BY <2>4, StaleTaken
    <3>3. /\ turns'[m].holder = turns[m].holder /\ turns'[m].ran = turns[m].ran
          /\ turns'[m].kept = turns[m].kept /\ turns'[m].status # "running"
          /\ turns'[m].undone <=> m = n \/ turns[m].undone
        BY <1>4, UndoMoves DEF n
    <3> QED BY <3>1, <3>2, <3>3
  <2>6. Running' = {}
      BY <2>1, <2>5 DEF Running
  <2>7. TurnsMove(p)
      BY <1>1, <2>1, <2>5 DEF TurnsMove, TypeOK
  <2>8. Evolves(p)
      BY <1>1, <1>2, <2>1, <2>2, <2>3, <2>5, <2>6, <2>7 DEF Evolves, Stoppable
  <2>9. TurnsHeld'
      BY <2>1, <2>5 DEF TurnsHeld
  <2>10. WindowFits'
    <3>1. CASE window' = NoWindow
        BY <3>1 DEF WindowFits, NoWindow
    <3>2. CASE window' = window /\ ~(window.turn >= n)
      <4>1. window.turn \in Nat /\ n \in Nat
          BY <1>1, <2>1, SessionAssumption, TurnKnown DEF TypeOK, MemoryInv
      <4>2. \A m \in DOMAIN turns : turns'[m].undone /\ m <= window.turn => turns[m].undone
          BY <2>5, <3>2, <4>1
      <4> QED BY <2>8, <3>2, <4>2, WindowKeeps
    <3> QED BY <2>1, <3>1, <3>2
  <2>11. Underway(p)'
      BY <2>2, <2>3 DEF Underway, At, Fresh, Undoing, Stoppable
  <2>12. MarkTrue(p)'
    <3> DEFINE conv == runner[p].conv
    <3>1. FarIn(turns', p, runner[p].mark.far) /\ FarIn(turns', p, runner[p].later.far)
        BY <1>1, <2>8, FarStays DEF MarkTrue
    <3>2. /\ Cardinality(Clean(turns, conv)) \in Nat /\ Cardinality(Clean(turns', conv)) \in Nat
          /\ Cardinality(Clean(turns, conv)) <= Cardinality(Clean(turns', conv))
        BY <2>1, <2>8, CleanGrows
    <3>3. /\ writer = "cli" => runner[p].mark.undone <= Cardinality(Clean(turns, conv))
          /\ runner[p].mark.undone \in Nat
        BY <1>1, <1>2, SessionAssumption DEF MarkTrue, Runner, Mark
    <3> HIDE DEF conv
    <3>4. runner'[p].conv = conv /\ runner'[p].mark = runner[p].mark
          /\ runner'[p].later = runner[p].later /\ runner'[p].at = "undone"
        BY <2>2, <2>3 DEF conv
    <3> QED BY <1>1, <3>1, <3>2, <3>3, <3>4 DEF MarkTrue, At
  <2>13. Heard(p)'
    <3>1. runner'[p].conv \subseteq DOMAIN turns'
        BY <1>1, <2>1, <2>2, <2>3 DEF Heard
    <3>2. writer = "gateway" => Running = {}
        BY <2>4
    <3> QED BY <1>2, <2>2, <2>3, <2>5, <2>8, <3>1, <3>2, HeardStays
  <2>14. RunFits(p)'
      BY <2>2, <2>3 DEF RunFits, At
  <2> QED BY <2>8, <2>9, <2>10, <2>11, <2>12, <2>13, <2>14, MemoryKeeps
<1> QED BY <1>3, <1>4
-----------------------------------------------------------------------------
(* Every conversation *)

LEMMA SameRemembers ==
    ASSUME MemoryInv, SessionInv', UNCHANGED <<writer, turns, window, runner>>,
           lease'.holder = lease.holder
    PROVE  MemoryInv'
<1>1. TurnsHeld'
    BY DEF MemoryInv, TurnsHeld
<1>2. OneOwner'
    BY DEF MemoryInv, OneOwner, Alive
<1>3. \A n : Silent(turns, runner, n) = Silent(turns', runner', n)
    BY DEF Silent
<1>4. WindowFits'
    BY DEF MemoryInv, WindowFits
<1>5. ASSUME NEW p \in Procs PROVE Underway(p)' /\ MarkTrue(p)' /\ Heard(p)' /\ RunFits(p)'
  <2>1. Underway(p) /\ MarkTrue(p) /\ Heard(p) /\ RunFits(p)
      BY DEF MemoryInv
  <2>2. Underway(p)'
      BY <2>1 DEF Underway, At, RunsUnder
  <2>3. MarkTrue(p)'
      BY <2>1 DEF MarkTrue, At, Loaded
  <2>4. Heard(p)'
      BY <2>1 DEF Heard, Loaded
  <2>5. RunFits(p)'
      BY <2>1 DEF RunFits, Stores, At, RunsUnder
  <2> QED BY <2>2, <2>3, <2>4, <2>5
<1> QED BY <1>1, <1>2, <1>4, <1>5 DEF MemoryInv

LEMMA MemoryInitInv == Init => MemoryInv
<1> SUFFICES ASSUME Init PROVE MemoryInv
    OBVIOUS
<1>1. SessionInv /\ turns = <<>> /\ DOMAIN turns = {} /\ window = NoWindow
    BY SessionInitInv, EmptySeq DEF Init
<1> PICK p \in Procs :
         runner = [q \in Procs |-> IF q = p THEN [Away EXCEPT !.at = "idle",
                                                   !.registered = (writer = "cli")]
                                   ELSE Away]
    BY DEF Init
<1>2. \A q \in Procs : runner[q].at = IF q = p THEN "idle" ELSE "new"
    BY DEF Away
<1>3. ASSUME NEW q \in Procs
      PROVE  /\ runner[q].conv = {} /\ runner[q].lost = NoEnd /\ runner[q].mark = NoMark
             /\ runner[q].later = NoMark
    BY DEF Away
<1>4. TurnsHeld /\ WindowFits
    BY <1>1 DEF TurnsHeld, WindowFits, NoWindow
<1>5. OneOwner
    BY <1>2 DEF OneOwner, Alive
<1>6. ASSUME NEW q \in Procs PROVE Underway(q) /\ MarkTrue(q) /\ Heard(q) /\ RunFits(q)
  <2>1. Underway(q)
      BY <1>1, <1>2, <1>3 DEF Underway, At, Fresh, Undoing, Stoppable
  <2>2. MarkTrue(q)
    <3>1. Cardinality(Clean(turns, {})) \in Nat
      <4>1. Clean(turns, {}) = {}
          BY <1>1 DEF Clean
      <4> QED BY <4>1, FS_EmptySet
    <3>2. NoMark.far = 0 /\ NoMark.undone <= Cardinality(Clean(turns, {}))
        BY <3>1 DEF NoMark
    <3>3. FarIn(turns, q, 0) /\ NoneUndone(turns, {})
        BY DEF FarIn, NoneUndone
    <3> QED BY <1>3, <3>2, <3>3 DEF MarkTrue
  <2>3. Heard(q)
      BY <1>1, <1>3 DEF Heard
  <2>4. RunFits(q)
      BY <1>2, <1>3 DEF RunFits, At
  <2> QED BY <2>1, <2>2, <2>3, <2>4
<1> QED BY <1>1, <1>4, <1>5, <1>6 DEF MemoryInv

LEMMA MemoryNextInv == MemoryInv /\ [Next]_vars => MemoryInv'
<1> SUFFICES ASSUME MemoryInv, [Next]_vars PROVE MemoryInv'
    OBVIOUS
<1>1. SessionInv /\ SessionInv'
    BY SessionNextInv DEF MemoryInv
<1>2. CASE UNCHANGED vars
    BY <1>1, <1>2, SameRemembers DEF vars
<1>3. CASE Lapse
  <2>1. lease'.holder = lease.holder
      BY <1>1, <1>3 DEF Lapse, SessionInv, TypeOK
  <2> QED BY <1>1, <1>3, <2>1, SameRemembers DEF Lapse
<1>4. ASSUME NEW p \in Procs, Step(p) PROVE MemoryInv'
    BY <1>1, <1>4, OpenRemembers, SelectRemembers, LoadsRemember, QuietRemembers, BeginRemembers,
       RunEndsRemembers, DrainRemembers, RecordRemembers, UndoStoreRemembers DEF Step
<1> QED BY <1>2, <1>3, <1>4 DEF Next

(* A run goes on a conversation that holds no undone turn and every turn   *)
(* that came to an answer before it, whoever ran, took over or undid them, *)
(* and so does a stored checkpoint (sync.py, before_turn and               *)
(* after_undo; the checkpoint of finish_turn in store.py).                 *)
THEOREM ConversationsSound == Spec => []ConversationSound
<1>1. Spec => []MemoryInv
    BY MemoryInitInv, MemoryNextInv, PTL DEF Spec
<1>2. ASSUME MemoryInv, NEW conv, NEW last \in Nat, Fits(turns, runner, conv, last)
      PROVE  Remembers(conv, last)
  <2>1. \A n \in conv \cap Undone : turns[n].taken
      BY <1>2 DEF Fits, NoneUndone, Undone
  <2>2. ASSUME NEW n \in Pairs, n < last, turns[n].ran # "none" PROVE n \in conv
    <3>1. n \in DOMAIN turns /\ Pair(turns, n) /\ ~Silent(turns, runner, n)
        BY <2>2 DEF Pairs, Pair, Silent
    <3>2. n <= last
        BY <1>2, <2>2, <3>1, TurnKnown DEF MemoryInv
    <3> QED BY <1>2, <3>1, <3>2 DEF Fits
  <2> QED BY <2>1, <2>2 DEF Remembers
<1>3. MemoryInv => ConversationSound
  <2> SUFFICES ASSUME MemoryInv PROVE ConversationSound
      OBVIOUS
  <2>1. \A p \in Procs : RunFits(p)
      BY DEF MemoryInv
  <2>2. window.turn # 0 => Fits(turns, runner, window.conv, window.turn)
      BY DEF MemoryInv, WindowFits
  <2>3. window.turn \in Nat /\ \A p \in Procs : runner[p].turn \in Nat
      BY Known, SessionAssumption DEF MemoryInv, SessionInv, TypeOK, Runner
  <2> QED BY <1>2, <2>1, <2>2, <2>3 DEF ConversationSound, RunFits
<1> QED BY <1>1, <1>3, PTL
=============================================================================
