--------------------------- MODULE ChatGate_proof ---------------------------
(***************************************************************************)
(* What ChatGate's runs check, for every number of chats, workers, calls   *)
(* and slots.  The inductive invariant GateInv is said of tables that a    *)
(* handler may be half through with, because the handlers decide several   *)
(* times in a row: Ready before a decision, Good after one.  Transits,     *)
(* Leaves, Releases and Finishes take one such point to the next; each     *)
(* handler then is a short chain of them, and FinishTask's, as long as the *)
(* calls of the task, an induction on their places.                        *)
(***************************************************************************)
EXTENDS ChatGate, FiniteSetTheorems, WellFoundedInduction, TLAPS

----------------------------------------------------------------------------
(* The invariant, of tables c and s that a handler may be half through with *)

PolicyState == [tasks : [Sessions -> Phases], calls : SUBSET Ids,
                inflight : SUBSET Ids, window : BOOLEAN]

(* The calls have places of their own, the lane has planning calls of chats, *)
(* and one that is out is neither fenced nor waiting for the lock.         *)
CallsOK(c) ==
    /\ c \in [Ids -> Call \cup {NoCall}] /\ IsFiniteSet(LiveCalls(c))
    /\ \A i \in LiveCalls(c) : c[i].at \in 1 .. submitted
    /\ \A i, j \in LiveCalls(c) : c[i].at = c[j].at => i = j
    /\ \A i \in LiveCalls(c) :
          /\ IsLane(c, i) => c[i].session \in Chats /\ Planning(c, i)
          /\ c[i].admitted => ~c[i].lock_waiting /\ ~c[i].park_fenced

(* What people, workers and the machine set.                               *)
EnvOK ==
    /\ policy \in {"off", "fcfs", "class"} /\ submitted \in Nat
    /\ registry \in [Workers -> Phases]
    /\ urgent \subseteq Sessions /\ paused \subseteq Workers
    /\ focus \in Chats \cup {NoSession}
    /\ lock \in {"none", "foreign"} /\ closed \in BOOLEAN

(* The policy passes over a call whose task is not live.                   *)
Dead(c, s, i) == TaskOf(c, i) # NoSession /\ s.tasks[TaskOf(c, i)] # "live"

(* The policy has the calls that the gate lets it see, those out in flight, *)
(* one of the lane at most, and the task of each planning call of a chat.  *)
Matched(c, s) ==
    /\ s.calls = {i \in LiveCalls(c) : ~c[i].lock_waiting /\ ~c[i].park_fenced}
    /\ s.inflight = Flying(c)
    /\ \A i, j \in s.inflight : IsLane(c, i) /\ IsLane(c, j) => i = j
    /\ \A i \in s.calls :
          c[i].session \in Chats /\ Planning(c, i) => s.tasks[c[i].session] = "live"

(* It has the tasks of the workers that are registered and not over.       *)
Known(s) == \A w \in Workers : registry[w] = "live" <=> s.tasks[w] = "live"

(* Under a foreign lock only planning calls are left for it to admit.      *)
Passed(c, s) ==
    lock = "foreign" =>
        \A i \in s.calls \ s.inflight : Dead(c, s, i) \/ Planning(c, i)

(* What it was last asked about it admitted, or has a reason to hold.      *)
Decided(c, s) ==
    \A i \in s.calls \ s.inflight :
        \/ Dead(c, s, i)
        \/ /\ Planning(c, i)
           /\ lock = "foreign" \/ LaneKeeps(c, i) \/ PolicyKeeps(c, s, i)

(* A call kept with the lock has still the lock, or its sibling, before it. *)
WaitersKept(c) ==
    \A i \in LiveCalls(c) : c[i].lock_waiting /\ ~c[i].park_fenced => LockKeeps(c, i)

(* Without a policy only the lock holds calls; a closed gate holds none.   *)
OffSound(c) ==
    Off => \A i \in LiveCalls(c) : c[i].admitted \/ (c[i].lock_waiting /\ ~closed)

(* No call of an ended worker waits, but those in D that end next.         *)
Due(c, D) ==
    \A i \in LiveCalls(c) : c[i].session \in Workers /\ ~c[i].admitted =>
        registry[c[i].session] = "live" \/ i \in D

GateInv ==
    /\ EnvOK /\ CallsOK(calls) /\ state \in PolicyState
    /\ ~Off => Matched(calls, state) /\ Known(state) /\ Decided(calls, state)
    /\ WaitersKept(calls) /\ OffSound(calls) /\ Due(calls, {})
----------------------------------------------------------------------------
(* Numbers and finite sets. *)

(* A set of naturals that is not empty has a least element.                *)
LEMMA LeastNumber ==
  ASSUME NEW T \in SUBSET Nat, T # {}
  PROVE  \E m \in T : \A k \in T : m <= k
<1> DEFINE U == {0 .. n : n \in T}
           R == StrictSubsetOrdering(Nat)
<1>1. U \subseteq FiniteSubsetsOf(Nat) /\ U # {}
  <2>1. \A n \in Nat : IsFiniteSet(0 .. n) /\ 0 .. n \subseteq Nat
    BY FS_Interval
  <2> QED BY <2>1 DEF FiniteSubsetsOf
<1>2. IsWellFoundedOn(R, FiniteSubsetsOf(Nat))
  BY FS_StrictSubsetOrderingWellFounded
<1>3. PICK x \in U : \A y \in U : ~(<<y, x>> \in R)
  <2> HIDE DEF U, R
  <2> QED BY <1>1, <1>2, WFMin
<1>4. PICK m \in T : x = 0 .. m
  OBVIOUS
<1>5. ASSUME NEW k \in T PROVE m <= k
  <2>1. ~(<<0 .. k, 0 .. m>> \in R) BY <1>3, <1>4
  <2>2. CASE k < m
    <3>1. 0 .. k \subseteq 0 .. m /\ m \in 0 .. m /\ m \notin 0 .. k BY <2>2
    <3>2. 0 .. k \in SUBSET Nat /\ 0 .. m \in SUBSET Nat OBVIOUS
    <3> QED BY <2>1, <3>1, <3>2 DEF StrictSubsetOrdering
  <2> QED BY <2>2
<1> QED BY <1>5

(* Induction on a natural number, of a set of those for which a fact holds. *)
LEMMA Induction ==
  ASSUME NEW P, 0 \in P, \A n \in Nat : n \in P => n + 1 \in P
  PROVE  \A n \in Nat : n \in P
<1> SUFFICES ASSUME NEW n \in Nat, n \notin P PROVE FALSE
  OBVIOUS
<1>1. PICK m \in Nat \ P : \A k \in Nat \ P : m <= k
  <2> DEFINE T == Nat \ P
  <2>1. T \in SUBSET Nat /\ T # {} OBVIOUS
  <2> QED BY <2>1, LeastNumber
<1>2. m # 0 /\ m - 1 \in Nat /\ (m - 1) + 1 = m
  BY <1>1
<1>3. m - 1 \in P
  BY <1>1, <1>2
<1> QED BY <1>1, <1>2, <1>3

(* A bounded set of naturals that is not empty has a greatest element.     *)
LEMMA GreatestNumber ==
  ASSUME NEW n \in Nat, NEW T \in SUBSET (0 .. n), T # {}
  PROVE  \E m \in T : \A k \in T : k <= m
<1> DEFINE U == {n - k : k \in T}
<1>1. U \in SUBSET Nat /\ U # {}
  <2>1. \A k \in 0 .. n : n - k \in Nat OBVIOUS
  <2>2. \A k \in T : k \in 0 .. n OBVIOUS
  <2>3. \A k \in T : n - k \in Nat BY <2>1, <2>2
  <2> QED BY <2>3
<1>2. PICK u \in U : \A v \in U : u <= v
  <2> HIDE DEF U
  <2> QED BY <1>1, LeastNumber
<1>3. PICK m \in T : u = n - m
  OBVIOUS
<1>4. ASSUME NEW k \in T PROVE k <= m
  <2>1. n - m <= n - k BY <1>2, <1>3
  <2> QED BY <2>1
<1> QED BY <1>4

(* A part of a finite set is finite and counts no more.                    *)
LEMMA PartOf ==
  ASSUME NEW S, IsFiniteSet(S), NEW T, T \subseteq S
  PROVE  /\ IsFiniteSet(T) /\ Cardinality(T) \in Nat /\ Cardinality(S) \in Nat
         /\ Cardinality(T) <= Cardinality(S)
BY FS_Subset, FS_CardinalityType

(* One more element counts one more at most.                               *)
LEMMA OneMore ==
  ASSUME NEW S, IsFiniteSet(S), NEW x, NEW T, T \subseteq S \cup {x}
  PROVE  /\ IsFiniteSet(T) /\ Cardinality(T) \in Nat /\ Cardinality(S) \in Nat
         /\ Cardinality(T) <= Cardinality(S) + 1
<1>1. /\ IsFiniteSet(S \cup {x})
      /\ Cardinality(S \cup {x}) = IF x \in S THEN Cardinality(S) ELSE Cardinality(S) + 1
  BY FS_AddElement
<1>2. Cardinality(S) \in Nat BY FS_CardinalityType
<1>3. /\ IsFiniteSet(T) /\ Cardinality(T) \in Nat
      /\ Cardinality(T) <= Cardinality(S \cup {x})
  BY <1>1, PartOf
<1> QED BY <1>1, <1>2, <1>3

(* A set whose elements are all one counts one at most.                    *)
LEMMA AtMostOne ==
  ASSUME NEW S, \A x, y \in S : x = y
  PROVE  IsFiniteSet(S) /\ Cardinality(S) \in Nat /\ Cardinality(S) <= 1
<1>1. CASE S = {}
  BY <1>1, FS_EmptySet
<1>2. CASE S # {}
  <2>1. PICK x \in S : TRUE BY <1>2
  <2>2. S = {x} BY <2>1
  <2> QED BY <2>2, FS_Singleton
<1> QED BY <1>1, <1>2

LEMMA CapsAreNumbers ==
  /\ Limit \in Nat /\ NSrv \in Nat /\ NFg \in Nat /\ NA \in Nat
  /\ LowestCap \in Nat /\ LowestCap <= NFg /\ LowestCap <= NA
BY GateAssumption DEF Limit, Reserve, LowestCap

----------------------------------------------------------------------------
(* Calls. *)

(* Of calls that are live, the one submitted first.                        *)
LEMMA FirstExists ==
  ASSUME NEW c, NEW n \in Nat, NEW ids, ids \subseteq LiveCalls(c), ids # {},
         \A i \in LiveCalls(c) : c[i].at \in 1 .. n
  PROVE  \E i \in Earliest(c, ids) : i \in ids
<1> DEFINE T == {c[i].at : i \in ids}
<1>1. T \in SUBSET Nat /\ T # {}
  OBVIOUS
<1>2. PICK m \in T : \A k \in T : m <= k
  <2> HIDE DEF T
  <2> QED BY <1>1, LeastNumber
<1>3. PICK i \in ids : m = c[i].at
  OBVIOUS
<1>4. i \in Earliest(c, ids)
  BY <1>2, <1>3 DEF Earliest
<1> QED BY <1>4

LEMMA FirstIsOne ==
  ASSUME NEW c, NEW n \in Nat, NEW ids, ids \subseteq LiveCalls(c),
         \A i \in LiveCalls(c) : c[i].at \in 1 .. n,
         \A i, j \in LiveCalls(c) : c[i].at = c[j].at => i = j,
         NEW i, i \in Earliest(c, ids), NEW j, j \in Earliest(c, ids)
  PROVE  i = j /\ i \in ids
<1>1. i \in ids /\ j \in ids /\ c[i].at <= c[j].at /\ c[j].at <= c[i].at
  BY DEF Earliest
<1>2. c[i].at \in Nat /\ c[j].at \in Nat
  BY <1>1
<1> QED BY <1>1, <1>2

(* What a decision starts from: the tables agree, and nothing is pending   *)
(* under a foreign lock that would not be held.                            *)
Before(c, s) == CallsOK(c) /\ s \in PolicyState /\ Matched(c, s) /\ Passed(c, s)

Static(c, d, i) ==
    /\ d[i].session = c[i].session /\ d[i].kind = c[i].kind /\ d[i].lane = c[i].lane
    /\ d[i].at = c[i].at /\ d[i].park_fenced = c[i].park_fenced

LEMMA StaticMeans ==
  ASSUME NEW c, NEW d, NEW i, Static(c, d, i)
  PROVE  /\ IsLane(d, i) = IsLane(c, i) /\ IsHoldable(d, i) = IsHoldable(c, i)
         /\ IsRetry(d, i) = IsRetry(c, i) /\ Planning(d, i) = Planning(c, i)
         /\ TaskOf(d, i) = TaskOf(c, i)
BY DEF Static, IsLane, IsHoldable, IsRetry, Planning, TaskOf

LEMMA LiveCall ==
  ASSUME NEW c, c \in [Ids -> Call \cup {NoCall}], NEW i, i \in LiveCalls(c)
  PROVE  /\ i \in Ids /\ c[i] \in Call /\ c[i] # NoCall
         /\ c[i].session \in Sessions /\ c[i].session # NoSession
         /\ c[i].kind \in Kinds
         /\ c[i].lane \in BOOLEAN /\ c[i].lock_waiting \in BOOLEAN
         /\ c[i].park_fenced \in BOOLEAN /\ c[i].admitted \in BOOLEAN
         /\ c[i].at \in Nat
<1>1. i \in Ids /\ c[i] \in Call /\ c[i] # NoCall
  BY DEF LiveCalls
<1>2. /\ c[i].session \in Sessions /\ c[i].kind \in Kinds
      /\ c[i].lane \in BOOLEAN /\ c[i].lock_waiting \in BOOLEAN
      /\ c[i].park_fenced \in BOOLEAN /\ c[i].admitted \in BOOLEAN /\ c[i].at \in Nat
  BY <1>1 DEF Call
<1>3. c[i].session # NoSession
  BY <1>2, GateAssumption
<1> QED BY <1>1, <1>2, <1>3

(* A call that the policy holds is a planning call of its session's task.  *)
LEMMA HoldableTask ==
  ASSUME NEW c, NEW i, IsHoldable(c, i)
  PROVE  TaskOf(c, i) = c[i].session /\ ~IsLane(c, i) /\ Planning(c, i) /\ ~IsRetry(c, i)
BY DEF TaskOf, IsHoldable, IsLane, Planning, IsRetry

(* What is neither the lane's, nor held, nor a retry does not plan.        *)
LEMMA KindsOfCalls ==
  ASSUME NEW c, NEW i, c[i].kind \in Kinds, ~IsLane(c, i), ~IsHoldable(c, i), ~IsRetry(c, i)
  PROVE  ~Planning(c, i)
BY DEF IsHoldable, IsLane, Planning, IsRetry, Kinds

LEMMA Pending ==
  ASSUME NEW c, NEW s, Matched(c, s)
  PROVE  /\ s.calls \subseteq LiveCalls(c) /\ s.inflight \subseteq LiveCalls(c)
         /\ \A i \in s.calls \ s.inflight : ~c[i].admitted
BY DEF Matched, Flying, LiveCalls

LEMMA FlyingKnown ==
  ASSUME NEW c, NEW s, Matched(c, s),
         \A i \in LiveCalls(c) : c[i].admitted => ~c[i].lock_waiting /\ ~c[i].park_fenced
  PROVE  s.inflight \subseteq s.calls
BY DEF Matched, Flying, LiveCalls

(* The lane lets one call out at most, with none before it.                *)
LEMMA LaneAdmits ==
  ASSUME EnvOK', NEW c, NEW s, Before(c, s)'
  PROVE  /\ AdmitLane(c, s) \subseteq s.calls \ s.inflight
         /\ \A i \in AdmitLane(c, s) : /\ IsLane(c, i) /\ lock' # "foreign"
                                       /\ \A j \in s.inflight : ~IsLane(c, j)
         /\ \A i, j \in AdmitLane(c, s) : i = j
         /\ AdmitLane(c, s) = {} => \A i \in s.calls \ s.inflight : IsLane(c, i) =>
              \/ lock' = "foreign"
              \/ \E j \in s.inflight : IsLane(c, j)
              \/ Cardinality(s.inflight) >= NSrv
<1> DEFINE ids == {i \in s.calls \ s.inflight : IsLane(c, i)}
           shut == \/ lock' = "foreign"
                   \/ \E i \in s.inflight : IsLane(c, i)
                   \/ Cardinality(s.inflight) >= NSrv
<1>0. AdmitLane(c, s) = IF shut THEN {} ELSE Earliest(c, ids)
  BY DEF AdmitLane
<1>1. /\ submitted' \in Nat /\ ids \subseteq LiveCalls(c)
      /\ \A i \in LiveCalls(c) : c[i].at \in 1 .. submitted'
      /\ \A i, j \in LiveCalls(c) : c[i].at = c[j].at => i = j
  <2>1. Matched(c, s) BY DEF Before
  <2> QED BY <2>1, Pending DEF Before, CallsOK, EnvOK
<1>2. Earliest(c, ids) \subseteq ids
  BY DEF Earliest
<1>3. \A i, j \in Earliest(c, ids) : i = j
  <2> HIDE DEF ids
  <2> QED BY <1>1, FirstIsOne
<1>4. ids # {} => Earliest(c, ids) # {}
  <2> HIDE DEF ids
  <2> QED BY <1>1, FirstExists
<1>5. CASE shut
  <2>1. AdmitLane(c, s) = {} BY <1>0, <1>5
  <2> QED BY <2>1, <1>5
<1>6. CASE ~shut
  <2>1. AdmitLane(c, s) = Earliest(c, ids) BY <1>0, <1>6
  <2>2. \A i \in ids : i \in s.calls \ s.inflight /\ IsLane(c, i) OBVIOUS
  <2>3. lock' # "foreign" /\ \A j \in s.inflight : ~IsLane(c, j) BY <1>6
  <2>4. AdmitLane(c, s) = {} => \A i \in s.calls \ s.inflight : ~IsLane(c, i)
    BY <2>1, <1>4
  <2> QED BY <2>1, <2>2, <2>3, <2>4, <1>2, <1>3
<1> QED BY <1>5, <1>6

(* What is never held is pending, of no task or of a live one, and no lane *)
(* call; and under a foreign lock none of it is pending.                   *)
LEMMA UnheldLeaves ==
  ASSUME EnvOK', NEW c, NEW s, Before(c, s)'
  PROVE  /\ Unheld(c, s) \subseteq s.calls \ s.inflight
         /\ \A i \in Unheld(c, s) :
               ~IsLane(c, i) /\ ~IsHoldable(c, i) /\ lock' # "foreign"
         /\ \A i \in (s.calls \ s.inflight) \ Unheld(c, s) :
               ~IsLane(c, i) /\ ~IsHoldable(c, i) =>
                  Dead(c, s, i) \/ (Planning(c, i) /\ lock' = "foreign")
<1>1. Unheld(c, s) \subseteq s.calls \ s.inflight
  BY DEF Unheld
<1>2. ASSUME NEW i \in Unheld(c, s)
      PROVE  ~IsLane(c, i) /\ ~IsHoldable(c, i) /\ lock' # "foreign"
  <2>1. /\ i \in s.calls \ s.inflight /\ ~IsLane(c, i) /\ ~IsHoldable(c, i)
        /\ IsRetry(c, i) => lock' # "foreign"
        /\ ~Dead(c, s, i)
    BY <1>2 DEF Unheld, Dead
  <2>2. lock' = "foreign" => Planning(c, i)
    BY <2>1 DEF Before, Passed, Dead
  <2>3. c[i].kind \in Kinds
    <3>1. i \in LiveCalls(c) BY <2>1, Pending DEF Before, Matched
    <3> QED BY <3>1 DEF Before, CallsOK, LiveCalls, Call
  <2> QED BY <2>1, <2>2, <2>3, KindsOfCalls
<1>3. ASSUME NEW i \in (s.calls \ s.inflight) \ Unheld(c, s),
             ~IsLane(c, i), ~IsHoldable(c, i)
      PROVE  Dead(c, s, i) \/ (Planning(c, i) /\ lock' = "foreign")
  <2>1. i \in s.calls \ s.inflight /\ i \notin Unheld(c, s)
    BY <1>3
  <2>3. \/ ~(IsRetry(c, i) => lock' # "foreign")
        \/ ~(TaskOf(c, i) = NoSession \/ s.tasks[TaskOf(c, i)] = "live")
    BY <2>1, <1>3, Zenon DEF Unheld
  <2>4. Dead(c, s, i) \/ (IsRetry(c, i) /\ lock' = "foreign")
    BY <2>3 DEF Dead
  <2>2. IsRetry(c, i) => Planning(c, i)
    BY DEF IsRetry, Planning
  <2> QED BY <2>4, <2>2
<1> QED BY <1>1, <1>2, <1>3

(* A candidate is pending, of a live task that is not paused; a call that  *)
(* could be held and is none has another of its session before it.         *)
LEMMA CandidatesWait ==
  ASSUME EnvOK', NEW c, NEW s, Before(c, s)'
  PROVE  /\ Candidates(c, s) \subseteq s.calls \ s.inflight
         /\ \A i \in Candidates(c, s) :
               IsHoldable(c, i) /\ ~IsLane(c, i) /\ lock' # "foreign"
         /\ \A i \in (s.calls \ s.inflight) \ Candidates(c, s) :
               IsHoldable(c, i) =>
                  \/ Dead(c, s, i) \/ lock' = "foreign"
                  \/ c[i].session \in paused'
                  \/ \E j \in s.calls : Sibling(c, i, j)
<1> DEFINE pending(t) == {i \in s.calls \ s.inflight : IsHoldable(c, i) /\ TaskOf(c, i) = t}
           ready == {t \in Sessions :
             /\ s.tasks[t] = "live" /\ t \notin paused' /\ lock' # "foreign"
             /\ \A i \in s.inflight : TaskOf(c, i) # t}
<1>0. Candidates(c, s) = UNION {Earliest(c, pending(t)) : t \in ready}
  BY DEF Candidates
<1>1. ASSUME NEW i \in Candidates(c, s)
      PROVE  i \in s.calls \ s.inflight /\ IsHoldable(c, i) /\ lock' # "foreign"
  <2>1. PICK t \in ready : i \in Earliest(c, pending(t)) BY <1>0
  <2>2. i \in pending(t) BY <2>1 DEF Earliest
  <2> QED BY <2>1, <2>2
<1>2. \A i \in Candidates(c, s) : ~IsLane(c, i)
  BY <1>1, HoldableTask
<1>3. ASSUME NEW i \in (s.calls \ s.inflight) \ Candidates(c, s), IsHoldable(c, i),
             ~Dead(c, s, i), lock' # "foreign", c[i].session \notin paused'
      PROVE  \E j \in s.calls : Sibling(c, i, j)
  <2> DEFINE t == c[i].session
  <2>1. TaskOf(c, i) = t BY <1>3, HoldableTask
  <2>2. i \in LiveCalls(c) /\ s.inflight \subseteq s.calls /\ s.calls \subseteq LiveCalls(c)
    BY <1>3, Pending, FlyingKnown DEF Before, CallsOK, Matched
  <2>3. t \in Sessions /\ t # NoSession
    BY <2>2, GateAssumption DEF Before, CallsOK, LiveCalls, Call
  <2>4. s.tasks[t] = "live" BY <2>1, <2>3, <1>3 DEF Dead
  <2>5. i \in pending(t) BY <1>3, <2>1
  <2>6. CASE \E j \in s.inflight : TaskOf(c, j) = t
    <3>1. PICK j \in s.inflight : TaskOf(c, j) = t BY <2>6
    <3>2. c[j].session = t BY <3>1, <2>3 DEF TaskOf
    <3>3. j # i /\ j \in s.calls BY <1>3, <2>2, <3>1
    <3> QED BY <3>2, <3>3 DEF Sibling
  <2>7. CASE ~\E j \in s.inflight : TaskOf(c, j) = t
    <3>1. t \in ready BY <2>3, <2>4, <2>7, <1>3
    <3>2. i \notin Earliest(c, pending(t)) BY <3>1, <1>0
    <3>3. PICK j \in pending(t) : ~(c[i].at <= c[j].at) BY <3>2, <2>5 DEF Earliest
    <3>4. c[j].session = t BY <3>3, HoldableTask
    <3>5. c[i].at \in Nat BY <2>2 DEF Before, CallsOK, LiveCalls, Call
    <3>6. j # i BY <3>3, <3>5
    <3> QED BY <3>3, <3>4, <3>6 DEF Sibling
  <2> QED BY <2>6, <2>7
<1> QED BY <1>1, <1>2, <1>3

----------------------------------------------------------------------------
(* One decision. *)

Free(c, s) == s.inflight \cup AdmitLane(c, s) \cup Unheld(c, s)

Room(c, s, i, flying) ==
    /\ Cardinality(NonLane(c, flying)) < Limit
    /\ \/ c[i].session \in urgent'
       \/ Cardinality(Background(c, s, flying)) < BackgroundCap(c, s, AdmitLane(c, s))

Ahead(taken, turn, i) == {j \in taken : turn[j] < turn[i]}

Planned(c, all) == {i \in all : IsHoldable(c, i)}
Lower(c, all) == {i \in Planned(c, all) : c[i].session \notin urgent}

(* A flight is what goes out free and the candidates taken, each in turn.  *)
LEMMA FlightIs ==
  ASSUME NEW c, NEW s, NEW flying, flying \in Dispatched(c, s)
  PROVE  \E taken \in SUBSET Candidates(c, s), turn \in Turns(c, Candidates(c, s)) :
            /\ flying = Free(c, s) \cup taken
            /\ \A i \in Candidates(c, s) :
                  i \in taken <=> Room(c, s, i, Free(c, s) \cup Ahead(taken, turn, i))
<1> DEFINE lane == AdmitLane(c, s)
           free == s.inflight \cup lane \cup Unheld(c, s)
           room(i, f) ==
             /\ Cardinality(NonLane(c, f)) < Limit
             /\ \/ c[i].session \in urgent'
                \/ Cardinality(Background(c, s, f)) < BackgroundCap(c, s, lane)
           passed(k, turn) ==
             \A i \in Candidates(c, s) :
                i \in k <=> room(i, free \cup {j \in k : turn[j] < turn[i]})
<1>1. flying \in {free \cup taken : taken \in
            {k \in SUBSET Candidates(c, s) :
                \E turn \in Turns(c, Candidates(c, s)) : passed(k, turn)}}
  BY DEF Dispatched
<1>2. PICK taken \in {k \in SUBSET Candidates(c, s) :
                \E turn \in Turns(c, Candidates(c, s)) : passed(k, turn)} :
            flying = free \cup taken
  <2> HIDE DEF passed, free
  <2> QED BY <1>1
<1>3. PICK turn \in Turns(c, Candidates(c, s)) : passed(taken, turn)
  <2> HIDE DEF passed, free
  <2> QED BY <1>2
<1>4. free = Free(c, s) BY DEF Free
<1>5. ASSUME NEW i \in Candidates(c, s)
      PROVE  i \in taken <=> Room(c, s, i, Free(c, s) \cup Ahead(taken, turn, i))
  <2>1. Ahead(taken, turn, i) = {j \in taken : turn[j] < turn[i]} BY DEF Ahead
  <2>2. i \in taken <=> room(i, free \cup {j \in taken : turn[j] < turn[i]})
    BY <1>3
  <2>3. \A f : room(i, f) <=> Room(c, s, i, f) BY Zenon DEF Room
  <2> HIDE DEF room
  <2> QED BY <2>1, <2>2, <2>3, <1>4
<1>6. taken \in SUBSET Candidates(c, s) BY <1>2
<1> QED BY <1>2, <1>4, <1>5, <1>6

(* It keeps what is out, takes only what is pending, and nothing under a   *)
(* foreign lock.                                                           *)
LEMMA FlightWithin ==
  ASSUME EnvOK', NEW c, NEW s, Before(c, s)', NEW flying, flying \in Dispatched(c, s)
  PROVE  /\ s.inflight \subseteq flying /\ flying \subseteq s.calls
         /\ flying \ s.inflight # {} => lock' # "foreign"
         /\ \A i, j \in flying : IsLane(c, i) /\ IsLane(c, j) => i = j
<1>1. PICK taken \in SUBSET Candidates(c, s), turn \in Turns(c, Candidates(c, s)) :
            flying = Free(c, s) \cup taken
  BY FlightIs
<1>2. s.inflight \subseteq s.calls
  BY FlyingKnown DEF Before, CallsOK, Matched
<1>3. flying \ s.inflight \subseteq AdmitLane(c, s) \cup Unheld(c, s) \cup Candidates(c, s)
  BY <1>1 DEF Free
<1>4. AdmitLane(c, s) \cup Unheld(c, s) \cup Candidates(c, s) \subseteq s.calls \ s.inflight
  BY LaneAdmits, UnheldLeaves, CandidatesWait
<1>5. ASSUME NEW i \in flying \ s.inflight PROVE lock' # "foreign"
  <2>1. CASE i \in AdmitLane(c, s) BY <2>1, LaneAdmits
  <2>2. CASE i \in Unheld(c, s) BY <2>2, UnheldLeaves
  <2>3. CASE i \in Candidates(c, s) BY <2>3, CandidatesWait
  <2> QED BY <2>1, <2>2, <2>3, <1>3
<1>6. ASSUME NEW i \in flying, NEW j \in flying, IsLane(c, i), IsLane(c, j) PROVE i = j
  <2>1. ASSUME NEW k \in flying, IsLane(c, k) PROVE k \in s.inflight \/ k \in AdmitLane(c, s)
    BY <2>1, <1>3, UnheldLeaves, CandidatesWait
  <2>2. \A k, l \in s.inflight : IsLane(c, k) /\ IsLane(c, l) => k = l
    BY DEF Before, Matched
  <2>3. /\ \A k \in AdmitLane(c, s), l \in s.inflight : ~IsLane(c, l)
        /\ \A k, l \in AdmitLane(c, s) : k = l
    BY LaneAdmits
  <2> QED BY <2>1, <2>2, <2>3, <1>6
<1>7. s.inflight \subseteq flying BY <1>1 DEF Free
<1> QED BY <1>2, <1>3, <1>4, <1>5, <1>6, <1>7

LEMMA FlightIsFinite ==
  ASSUME EnvOK', NEW c, NEW s, Before(c, s)', NEW flying, flying \subseteq s.calls
  PROVE  IsFiniteSet(flying) /\ flying \subseteq LiveCalls(c)
<1>1. flying \subseteq LiveCalls(c) BY DEF Before, Matched
<1>2. IsFiniteSet(LiveCalls(c)) BY DEF Before, CallsOK
<1> QED BY <1>1, <1>2, FS_Subset

(* Counts of a part are no more than those of the whole.                   *)
LEMMA CountsGrow ==
  ASSUME NEW c, NEW s, NEW f, IsFiniteSet(f), NEW e, e \subseteq f
  PROVE  /\ Cardinality(NonLane(c, e)) \in Nat /\ Cardinality(NonLane(c, f)) \in Nat
         /\ Cardinality(NonLane(c, e)) <= Cardinality(NonLane(c, f))
         /\ Cardinality(Background(c, s, e)) \in Nat
         /\ Cardinality(Background(c, s, f)) \in Nat
         /\ Cardinality(Background(c, s, e)) <= Cardinality(Background(c, s, f))
         /\ Cardinality(e) \in Nat /\ Cardinality(f) \in Nat
         /\ Cardinality(e) <= Cardinality(f)
<1>1. /\ NonLane(c, e) \subseteq NonLane(c, f) /\ NonLane(c, f) \subseteq f
  BY DEF NonLane
<1>2. Background(c, s, e) \subseteq Background(c, s, f) /\ Background(c, s, f) \subseteq f
  BY DEF NonLane, Background
<1>3. IsFiniteSet(NonLane(c, f)) /\ IsFiniteSet(Background(c, s, f))
  BY <1>1, <1>2, FS_Subset
<1> QED BY <1>1, <1>2, <1>3, PartOf

LEMMA CapIsOne ==
  ASSUME NEW c, NEW s, NEW lane
  PROVE  /\ BackgroundCap(c, s, lane) \in Nat /\ LowestCap <= BackgroundCap(c, s, lane)
         /\ \/ /\ BackgroundCap(c, s, lane) = NFg
               /\ s.window \/ \E i \in s.inflight \cup lane : IsLane(c, i)
            \/ /\ BackgroundCap(c, s, lane) = NA
               /\ ~s.window /\ \A i \in s.inflight \cup lane : ~IsLane(c, i)
BY CapsAreNumbers DEF BackgroundCap


LEMMA FlightLeaves ==
  ASSUME EnvOK', NEW c, NEW s, Before(c, s)', NEW flying, flying \in Dispatched(c, s),
         NEW i, i \in s.calls \ flying
  PROVE  \/ Dead(c, s, i)
         \/ /\ Planning(c, i)
            /\ \/ lock' = "foreign"
               \/ /\ IsLane(c, i)
                  /\ (\E j \in flying : IsLane(c, j)) \/ Cardinality(flying) >= NSrv
               \/ /\ IsHoldable(c, i)
                  /\ \/ c[i].session \in paused'
                     \/ \E j \in s.calls : Sibling(c, i, j)
                     \/ Cardinality(NonLane(c, flying)) >= Limit
                     \/ /\ c[i].session \notin urgent'
                        /\ Cardinality(Background(c, s, flying)) >= LowestCap
<1>1. PICK taken \in SUBSET Candidates(c, s), turn \in Turns(c, Candidates(c, s)) :
            /\ flying = Free(c, s) \cup taken
            /\ \A k \in Candidates(c, s) :
                  k \in taken <=> Room(c, s, k, Free(c, s) \cup Ahead(taken, turn, k))
  BY FlightIs
<1>2. /\ s.inflight \subseteq flying /\ flying \subseteq s.calls
  BY FlightWithin
<1>3. i \in s.calls \ s.inflight /\ i \notin AdmitLane(c, s) /\ i \notin Unheld(c, s)
  BY <1>1, <1>2 DEF Free
<1>4. IsFiniteSet(flying) BY <1>2, FlightIsFinite
<1>5. CASE IsLane(c, i)
  <2>0. Planning(c, i)
    <3>1. i \in LiveCalls(c) BY <1>3 DEF Before, Matched
    <3> QED BY <3>1, <1>5 DEF Before, CallsOK
  <2>1. CASE AdmitLane(c, s) = {}
    <3>1. \/ lock' = "foreign"
          \/ \E j \in s.inflight : IsLane(c, j)
          \/ Cardinality(s.inflight) >= NSrv
      BY <1>3, <1>5, <2>1, LaneAdmits
    <3>2. Cardinality(s.inflight) >= NSrv => Cardinality(flying) >= NSrv
      <4>1. /\ Cardinality(s.inflight) <= Cardinality(flying)
            /\ Cardinality(s.inflight) \in Nat /\ Cardinality(flying) \in Nat
        BY <1>2, <1>4, PartOf
      <4> QED BY <4>1, CapsAreNumbers
    <3> QED BY <3>1, <3>2, <2>0, <1>2, <1>5
  <2>2. CASE AdmitLane(c, s) # {}
    <3>1. PICK j \in AdmitLane(c, s) : TRUE BY <2>2
    <3>2. IsLane(c, j) /\ j \in flying BY <3>1, <1>1, LaneAdmits DEF Free
    <3> QED BY <3>2, <2>0, <1>5
  <2> QED BY <2>1, <2>2
<1>6. CASE ~IsLane(c, i) /\ ~IsHoldable(c, i)
  BY <1>3, <1>6, UnheldLeaves
<1>7. CASE IsHoldable(c, i)
  <2>0. Planning(c, i) BY <1>7, HoldableTask
  <2>1. CASE i \notin Candidates(c, s)
    <3>1. \/ Dead(c, s, i) \/ lock' = "foreign"
          \/ c[i].session \in paused'
          \/ \E j \in s.calls : Sibling(c, i, j)
      BY <1>3, <1>7, <2>1, CandidatesWait
    <3> QED BY <3>1, <2>0, <1>7
  <2>2. CASE i \in Candidates(c, s)
    <3> DEFINE f == Free(c, s) \cup Ahead(taken, turn, i)
    <3>1. ~Room(c, s, i, f) BY <1>1, <2>2
    <3>2. f \subseteq flying BY <1>1 DEF Ahead
    <3>3. /\ Cardinality(NonLane(c, f)) \in Nat /\ Cardinality(NonLane(c, flying)) \in Nat
          /\ Cardinality(NonLane(c, f)) <= Cardinality(NonLane(c, flying))
          /\ Cardinality(Background(c, s, f)) \in Nat
          /\ Cardinality(Background(c, s, flying)) \in Nat
          /\ Cardinality(Background(c, s, f)) <= Cardinality(Background(c, s, flying))
      BY <3>2, <1>4, CountsGrow
    <3>4. \/ ~(Cardinality(NonLane(c, f)) < Limit)
          \/ /\ c[i].session \notin urgent'
             /\ ~(Cardinality(Background(c, s, f)) < BackgroundCap(c, s, AdmitLane(c, s)))
      BY <3>1 DEF Room
    <3>5. /\ BackgroundCap(c, s, AdmitLane(c, s)) \in Nat
          /\ LowestCap <= BackgroundCap(c, s, AdmitLane(c, s))
      BY CapIsOne
    <3>6. \/ Cardinality(NonLane(c, flying)) >= Limit
          \/ /\ c[i].session \notin urgent'
             /\ Cardinality(Background(c, s, flying)) >= LowestCap
      <4>1. CASE ~(Cardinality(NonLane(c, f)) < Limit)
        BY <4>1, <3>3, CapsAreNumbers
      <4>2. CASE /\ c[i].session \notin urgent'
                 /\ ~(Cardinality(Background(c, s, f)) < BackgroundCap(c, s, AdmitLane(c, s)))
        BY <4>2, <3>3, <3>5, CapsAreNumbers
      <4> QED BY <3>4, <4>1, <4>2
    <3> QED BY <3>6, <2>0, <1>7
  <2> QED BY <2>1, <2>2
<1> QED BY <1>5, <1>6, <1>7

(* Of some of those taken, the one whose turn was last.                    *)
LEMMA LastTurn ==
  ASSUME NEW c, NEW ids, IsFiniteSet(ids), NEW turn, turn \in Turns(c, ids),
         NEW taken, taken \subseteq ids, NEW some, some \subseteq taken, some # {}
  PROVE  \E i \in some : some \subseteq Ahead(taken, turn, i) \cup {i}
<1> DEFINE n == Cardinality(ids)
           T == {turn[k] : k \in some}
<1>1. n \in Nat BY FS_CardinalityType
<1>2. /\ turn \in [ids -> 1 .. n]
      /\ \A i, j \in ids : i # j => turn[i] # turn[j]
  BY DEF Turns
<1>3. T \in SUBSET (0 .. n) /\ T # {}
  <2>1. \A k \in some : turn[k] \in 1 .. n BY <1>2
  <2>2. 1 .. n \subseteq 0 .. n BY <1>1
  <2>3. \A k \in some : turn[k] \in 0 .. n BY <2>1, <2>2
  <2> QED BY <2>3
<1>4. PICK m \in T : \A k \in T : k <= m
  <2> HIDE DEF T, n
  <2> QED BY <1>1, <1>3, GreatestNumber
<1>5. PICK i \in some : m = turn[i] OBVIOUS
<1>6. ASSUME NEW k \in some, k # i PROVE k \in Ahead(taken, turn, i)
  <2>1. turn[k] <= turn[i] BY <1>4, <1>5
  <2>2. turn[k] # turn[i] BY <1>2, <1>6
  <2>3. turn[k] \in Nat /\ turn[i] \in Nat BY <1>2, <1>1
  <2>4. turn[k] < turn[i] BY <2>1, <2>2, <2>3
  <2> QED BY <2>4 DEF Ahead
<1> QED BY <1>6

(* Whoever was taken found room for itself, and the last one found all the *)
(* others there.                                                           *)
LEMMA FlightFits ==
  ASSUME EnvOK', NEW c, NEW s, Before(c, s)', NEW flying, flying \in Dispatched(c, s),
         NEW F, F = flying \ s.inflight
  PROVE  /\ Planned(c, F) # {} => Cardinality(Planned(c, flying)) <= Limit
         /\ Lower(c, F)' # {} =>
              Cardinality(Lower(c, flying)') <= BackgroundCap(c, s, AdmitLane(c, s))
<1>1. PICK taken \in SUBSET Candidates(c, s), turn \in Turns(c, Candidates(c, s)) :
            /\ flying = Free(c, s) \cup taken
            /\ \A k \in Candidates(c, s) :
                  k \in taken <=> Room(c, s, k, Free(c, s) \cup Ahead(taken, turn, k))
  BY FlightIs, ZenonT(60)
<1>2. s.inflight \subseteq flying /\ flying \subseteq s.calls
  BY FlightWithin
<1>3. IsFiniteSet(flying) BY <1>2, FlightIsFinite
<1>4. IsFiniteSet(Candidates(c, s))
  BY CandidatesWait, FlightIsFinite
<1>5. \A k \in F : IsHoldable(c, k) => k \in taken
  <2>1. \A k \in F : k \in AdmitLane(c, s) \/ k \in Unheld(c, s) \/ k \in taken
    BY <1>1 DEF Free
  <2>2. \A k \in AdmitLane(c, s) : IsLane(c, k) BY LaneAdmits
  <2>3. \A k \in Unheld(c, s) : ~IsHoldable(c, k) BY UnheldLeaves
  <2> QED BY <2>1, <2>2, <2>3, HoldableTask
<1>6. ASSUME Planned(c, F) # {} PROVE Cardinality(Planned(c, flying)) <= Limit
  <2>1. taken # {} BY <1>5, <1>6 DEF Planned
  <2>2. PICK i \in taken : taken \subseteq Ahead(taken, turn, i) \cup {i}
    BY <2>1, <1>4, LastTurn
  <2> DEFINE f == Free(c, s) \cup Ahead(taken, turn, i)
  <2>3. Room(c, s, i, f) BY <1>1, <2>2
  <2>4. flying \subseteq f \cup {i} BY <1>1, <2>2
  <2>5. f \subseteq flying BY <1>1 DEF Ahead
  <2>6. Planned(c, flying) \subseteq NonLane(c, f) \cup {i}
    BY <2>4, HoldableTask DEF Planned, NonLane
  <2>7. IsFiniteSet(NonLane(c, f))
    <3> HIDE DEF f
    <3>1. NonLane(c, f) \subseteq flying BY <2>5 DEF NonLane
    <3> QED BY <3>1, <1>3, PartOf
  <2>8. /\ Cardinality(Planned(c, flying)) <= Cardinality(NonLane(c, f)) + 1
        /\ Cardinality(NonLane(c, f)) \in Nat /\ Cardinality(Planned(c, flying)) \in Nat
    BY <2>6, <2>7, OneMore
  <2>9. Cardinality(NonLane(c, f)) < Limit BY <2>3 DEF Room
  <2> QED BY <2>8, <2>9, CapsAreNumbers
<1>7. ASSUME Lower(c, F)' # {}
      PROVE  Cardinality(Lower(c, flying)') <= BackgroundCap(c, s, AdmitLane(c, s))
  <2> DEFINE some == {k \in taken : c[k].session \notin urgent'}
  <2>1. some # {}
    <3>1. PICK k \in F : IsHoldable(c, k) /\ c[k].session \notin urgent'
      BY <1>7 DEF Lower, Planned
    <3> QED BY <3>1, <1>5
  <2>2. PICK i \in some : some \subseteq Ahead(taken, turn, i) \cup {i}
    <3>1. some \subseteq taken OBVIOUS
    <3> HIDE DEF some
    <3> QED BY <2>1, <3>1, <1>4, LastTurn
  <2> DEFINE f == Free(c, s) \cup Ahead(taken, turn, i)
  <2>3. Room(c, s, i, f) /\ c[i].session \notin urgent' BY <1>1, <2>2
  <2>5. f \subseteq flying BY <1>1 DEF Ahead
  <2>6. Lower(c, flying)' \subseteq Background(c, s, f) \cup {i}
    <3> SUFFICES ASSUME NEW k \in flying, IsHoldable(c, k), c[k].session \notin urgent'
                 PROVE  k \in Background(c, s, f) \cup {i}
      BY DEF Lower, Planned
    <3>1. TaskOf(c, k) = c[k].session /\ ~IsLane(c, k) BY HoldableTask
    <3>2. k \in f \/ k = i
      <4>1. CASE k \in taken BY <4>1, <2>2
      <4>2. CASE k \notin taken BY <4>2, <1>1
      <4> QED BY <4>1, <4>2
    <3> QED BY <3>1, <3>2 DEF Background, NonLane
  <2>7. IsFiniteSet(Background(c, s, f))
    <3> HIDE DEF f
    <3>1. Background(c, s, f) \subseteq flying BY <2>5 DEF NonLane, Background
    <3> QED BY <3>1, <1>3, PartOf
  <2>8. /\ Cardinality(Lower(c, flying)') <= Cardinality(Background(c, s, f)) + 1
        /\ Cardinality(Background(c, s, f)) \in Nat /\ Cardinality(Lower(c, flying)') \in Nat
    BY <2>6, <2>7, OneMore
  <2>9. Cardinality(Background(c, s, f)) < BackgroundCap(c, s, AdmitLane(c, s))
    BY <2>3 DEF Room
  <2> QED BY <2>8, <2>9, CapIsOne
<1> QED BY <1>6, <1>7

(* What a decision leaves: as Before, and what is pending has a reason.    *)
After(c, s) == CallsOK(c) /\ s \in PolicyState /\ Matched(c, s) /\ Decided(c, s)

LEMMA AfterIsBefore ==
  ASSUME NEW c, NEW s, After(c, s)
  PROVE  Before(c, s)
BY DEF After, Before, Passed, Decided

(* Tables whose calls are the same but for what is out and what waits for  *)
(* the lock.                                                               *)
Alike(c, d) ==
    /\ LiveCalls(d) = LiveCalls(c)
    /\ \A i \in LiveCalls(c) : Static(c, d, i)

LEMMA NoCallIsNone == NoCall \notin Call
<1> SUFFICES ASSUME NoCall \in Call PROVE FALSE
  OBVIOUS
<1>1. NoCall.session \in Sessions BY DEF Call
<1> QED BY <1>1, GateAssumption DEF NoCall

LEMMA AdmitIs ==
  ASSUME NEW c, c \in [Ids -> Call \cup {NoCall}], NEW ids, ids \subseteq LiveCalls(c),
         \A i \in ids : ~c[i].park_fenced,
         NEW d, d = Admit(c, ids)
  PROVE  /\ d \in [Ids -> Call \cup {NoCall}]
         /\ Alike(c, d)
         /\ \A i \in LiveCalls(c) :
              /\ d[i].lock_waiting = c[i].lock_waiting
              /\ d[i].admitted <=> c[i].admitted \/ i \in ids
<1>1. \A i \in Ids : d[i] = IF i \in ids THEN [c[i] EXCEPT !.admitted = TRUE] ELSE c[i]
  BY DEF Admit, LiveCalls
<1>2. \A i \in LiveCalls(c) : c[i] \in Call BY DEF LiveCalls
<1>3. \A i \in ids :
        /\ d[i] \in Call /\ d[i].session = c[i].session /\ d[i].kind = c[i].kind
        /\ d[i].lane = c[i].lane /\ d[i].at = c[i].at
        /\ d[i].park_fenced = c[i].park_fenced
        /\ d[i].lock_waiting = c[i].lock_waiting /\ d[i].admitted = TRUE
  <2> SUFFICES ASSUME NEW i \in ids
               PROVE  LET e == [c[i] EXCEPT !.admitted = TRUE] IN
                 /\ e \in Call /\ e.session = c[i].session /\ e.kind = c[i].kind
                 /\ e.lane = c[i].lane /\ e.at = c[i].at
                 /\ e.park_fenced = c[i].park_fenced
                 /\ e.lock_waiting = c[i].lock_waiting /\ e.admitted = TRUE
    BY <1>1 DEF LiveCalls
  <2>1. c[i] \in Call BY <1>2
  <2> QED BY <2>1 DEF Call
<1>4. \A i \in Ids \ ids : d[i] = c[i] BY <1>1
<1>5. d \in [Ids -> Call \cup {NoCall}]
  <2>1. \A i \in Ids : d[i] \in Call \cup {NoCall} BY <1>3, <1>4
  <2>2. d = [i \in Ids |-> d[i]] BY DEF Admit
  <2> QED BY <2>1, <2>2
<1>6. LiveCalls(d) = LiveCalls(c)
  <2>1. \A i \in ids : d[i] # NoCall BY <1>3, NoCallIsNone
  <2> QED BY <2>1, <1>4 DEF LiveCalls
<1>7. \A i \in LiveCalls(c) : Static(c, d, i)
  BY <1>3, <1>4 DEF Static, LiveCalls
<1>8. \A i \in LiveCalls(c) :
         /\ d[i].lock_waiting = c[i].lock_waiting
         /\ d[i].admitted <=> c[i].admitted \/ i \in ids
  BY <1>3, <1>4 DEF LiveCalls
<1> QED BY <1>5, <1>6, <1>7, <1>8 DEF Alike

(* What a decision is.                                                     *)
LEMMA TransitionIs ==
  ASSUME ~Off, NEW c, NEW s, NEW r, r \in Transition(c, s), s \in PolicyState
  PROVE  \E flying \in Dispatched(c, s) :
            /\ r.calls = Admit(c, flying)
            /\ flying \subseteq Ids => r.state \in PolicyState
            /\ r.state.inflight = flying /\ r.state.calls = s.calls
            /\ r.state.tasks = s.tasks /\ r.state.window = s.window
<1>1. PICK flying \in Dispatched(c, s) :
         r = Both(Admit(c, flying), [s EXCEPT !.inflight = flying])
  BY DEF Transition
<1>2. r.calls = Admit(c, flying) /\ r.state = [s EXCEPT !.inflight = flying]
  BY <1>1 DEF Both
<1>3. /\ flying \subseteq Ids => r.state \in PolicyState
      /\ r.state.inflight = flying /\ r.state.calls = s.calls
      /\ r.state.tasks = s.tasks /\ r.state.window = s.window
  BY <1>2 DEF PolicyState
<1> QED BY <1>2, <1>3

LEMMA SameBackground ==
  ASSUME NEW c, NEW s, NEW d, NEW t, Alike(c, d), NEW f, f \subseteq LiveCalls(c),
         s.tasks = t.tasks
  PROVE  /\ NonLane(d, f) = NonLane(c, f)
         /\ {j \in NonLane(d, f) : LET x == TaskOf(d, j) IN
               x = NoSession \/ t.tasks[x] # "live" \/ x \notin urgent'} = Background(c, s, f)
<1>1. \A j \in f : TaskOf(d, j) = TaskOf(c, j) /\ IsLane(d, j) = IsLane(c, j)
  BY StaticMeans DEF Alike
<1>2. NonLane(d, f) = NonLane(c, f) BY <1>1 DEF NonLane
<1> QED BY <1>1, <1>2 DEF Background, NonLane

LEMMA DecideKeepsTables ==
  ASSUME EnvOK', NEW c, NEW s, Before(c, s)',
         NEW flying, flying \in Dispatched(c, s),
         NEW d, d = Admit(c, flying),
         NEW t, flying \subseteq Ids => t \in PolicyState,
         t.inflight = flying, t.calls = s.calls, t.tasks = s.tasks
  PROVE  /\ Alike(c, d)
         /\ \A i \in LiveCalls(c) : /\ d[i].lock_waiting = c[i].lock_waiting
                                    /\ d[i].admitted <=> i \in flying
         /\ CallsOK(d)' /\ t \in PolicyState /\ Matched(d, t)
<1>0. /\ c \in [Ids -> Call \cup {NoCall}] /\ IsFiniteSet(LiveCalls(c))
      /\ \A i \in LiveCalls(c) : c[i].at \in 1 .. submitted'
      /\ \A i, j \in LiveCalls(c) : c[i].at = c[j].at => i = j
      /\ \A i \in LiveCalls(c) :
           /\ IsLane(c, i) => c[i].session \in Chats /\ Planning(c, i)
           /\ c[i].admitted => ~c[i].lock_waiting /\ ~c[i].park_fenced
  BY DEF Before, CallsOK
<1>1. /\ s.inflight \subseteq flying /\ flying \subseteq s.calls
      /\ \A i, j \in flying : IsLane(c, i) /\ IsLane(c, j) => i = j
  BY FlightWithin
<1>2. /\ s.calls = {i \in LiveCalls(c) : ~c[i].lock_waiting /\ ~c[i].park_fenced}
      /\ s.inflight = Flying(c)
      /\ \A i \in s.calls :
          c[i].session \in Chats /\ Planning(c, i) => s.tasks[c[i].session] = "live"
      /\ s \in PolicyState
  BY DEF Before, Matched
<1>3. flying \subseteq LiveCalls(c) /\ \A i \in flying : ~c[i].park_fenced /\ ~c[i].lock_waiting
  BY <1>1, <1>2
<1>4. /\ d \in [Ids -> Call \cup {NoCall}] /\ Alike(c, d)
      /\ \A i \in LiveCalls(c) :
           /\ d[i].lock_waiting = c[i].lock_waiting
           /\ d[i].admitted <=> c[i].admitted \/ i \in flying
  BY <1>0, <1>3, AdmitIs
<1>5. \A i \in LiveCalls(c) : d[i].admitted <=> i \in flying
  BY <1>1, <1>2, <1>4 DEF Flying
<1>6. \A i \in LiveCalls(c) :
        /\ IsLane(d, i) = IsLane(c, i) /\ Planning(d, i) = Planning(c, i)
        /\ d[i].session = c[i].session /\ d[i].at = c[i].at
        /\ d[i].park_fenced = c[i].park_fenced
  BY <1>4, StaticMeans DEF Alike, Static
<1>7. LiveCalls(d) = LiveCalls(c) BY <1>4 DEF Alike
<1>8. CallsOK(d)'
  <2>1. \A i \in LiveCalls(d) : d[i].at \in 1 .. submitted' BY <1>0, <1>6, <1>7
  <2>2. \A i, j \in LiveCalls(d) : d[i].at = d[j].at => i = j BY <1>0, <1>6, <1>7
  <2>3. \A i \in LiveCalls(d) :
           /\ IsLane(d, i) => d[i].session \in Chats /\ Planning(d, i)
           /\ d[i].admitted => ~d[i].lock_waiting /\ ~d[i].park_fenced
    BY <1>0, <1>3, <1>4, <1>5, <1>6, <1>7
  <2> QED BY <2>1, <2>2, <2>3, <1>0, <1>4, <1>7 DEF CallsOK
<1>9. /\ t.inflight = flying /\ t.calls = s.calls /\ t.tasks = s.tasks
      /\ t \in PolicyState
  <2>1. flying \subseteq Ids BY <1>3 DEF LiveCalls
  <2> QED BY <2>1
<1>10. Matched(d, t)
  <2>1. t.calls = {i \in LiveCalls(d) : ~d[i].lock_waiting /\ ~d[i].park_fenced}
    BY <1>2, <1>4, <1>6, <1>7, <1>9
  <2>2. t.inflight = Flying(d) BY <1>3, <1>5, <1>7, <1>9 DEF Flying
  <2>3. \A i, j \in t.inflight : IsLane(d, i) /\ IsLane(d, j) => i = j
    BY <1>1, <1>3, <1>6, <1>9
  <2>4. \A i \in t.calls :
          d[i].session \in Chats /\ Planning(d, i) => t.tasks[d[i].session] = "live"
    BY <1>2, <1>6, <1>9
  <2> QED BY <2>1, <2>2, <2>3, <2>4 DEF Matched
<1> QED BY <1>4, <1>5, <1>8, <1>9, <1>10

LEMMA DecideGivesReasons ==
  ASSUME EnvOK', NEW c, NEW s, Before(c, s)',
         NEW flying, flying \in Dispatched(c, s),
         NEW d, Alike(c, d), NEW t, Flying(d) = flying, Matched(d, t),
         t.tasks = s.tasks, t.calls = s.calls, t.inflight = flying
  PROVE  Decided(d, t)'
<1> SUFFICES ASSUME NEW i \in t.calls \ t.inflight
             PROVE  \/ Dead(d, t, i)
                    \/ /\ Planning(d, i)
                       /\ \/ lock' = "foreign" \/ LaneKeeps(d, i)'
                          \/ PolicyKeeps(d, t, i)'
  BY DEF Decided
<1>1. /\ s.inflight \subseteq flying /\ flying \subseteq s.calls /\ s.calls \subseteq LiveCalls(c)
  BY FlightWithin DEF Before, Matched
<1>2. i \in s.calls \ flying /\ i \in LiveCalls(c) BY <1>1
<1>3. \A j \in LiveCalls(c) :
        /\ IsLane(d, j) = IsLane(c, j) /\ IsHoldable(d, j) = IsHoldable(c, j)
        /\ Planning(d, j) = Planning(c, j) /\ TaskOf(d, j) = TaskOf(c, j)
        /\ d[j].session = c[j].session
  BY StaticMeans DEF Alike, Static
<1>4. Dead(c, s, i) <=> Dead(d, t, i) BY <1>2, <1>3 DEF Dead
<1>5. CASE Dead(c, s, i) BY <1>4, <1>5
<1>6. CASE Planning(c, i) /\ lock' = "foreign" BY <1>2, <1>3, <1>6
<1>7. CASE /\ Planning(c, i) /\ IsLane(c, i)
           /\ (\E j \in flying : IsLane(c, j)) \/ Cardinality(flying) >= NSrv
  <2>1. LaneKeeps(d, i)
    BY <1>1, <1>2, <1>3, <1>7 DEF LaneKeeps
  <2> QED BY <2>1, <1>2, <1>3, <1>7 DEF LaneKeeps
<1>8. CASE /\ Planning(c, i) /\ IsHoldable(c, i) /\ ~Dead(c, s, i)
           /\ \/ c[i].session \in paused'
              \/ \E j \in s.calls : Sibling(c, i, j)
              \/ Cardinality(NonLane(c, flying)) >= Limit
              \/ /\ c[i].session \notin urgent'
                 /\ Cardinality(Background(c, s, flying)) >= LowestCap
  <2> DEFINE low == {j \in NonLane(d, flying) : LET x == TaskOf(d, j) IN
                       x = NoSession \/ t.tasks[x] # "live" \/ x \notin urgent'}
  <2>1. NonLane(d, flying) = NonLane(c, flying) /\ low = Background(c, s, flying)
    <3>1. flying \subseteq LiveCalls(c) BY <1>1
    <3> QED BY <3>1, SameBackground
  <2>2. t.tasks[d[i].session] = "live"
    <3>1. TaskOf(c, i) = c[i].session BY <1>8, HoldableTask
    <3>2. c[i].session \in Sessions
      BY <1>2 DEF Before, CallsOK, LiveCalls, Call
    <3>3. c[i].session # NoSession BY <3>2, GateAssumption
    <3> QED BY <3>1, <3>3, <1>8, <1>2, <1>3 DEF Dead
  <2>3. (\E j \in s.calls : Sibling(c, i, j)) => \E j \in t.calls : Sibling(d, i, j)
    BY <1>1, <1>2, <1>3 DEF Sibling
  <2>4. IsHoldable(d, i) /\ Planning(d, i) BY <1>2, <1>3, <1>8
  <2>5. \/ d[i].session \in paused'
        \/ \E j \in t.calls : Sibling(d, i, j)
        \/ Cardinality(NonLane(d, flying)) >= Limit
        \/ d[i].session \notin urgent' /\ Cardinality(low) >= LowestCap
    <3> HIDE DEF low
    <3> QED BY <1>8, <2>1, <2>3, <1>2, <1>3
  <2>6. PolicyKeeps(d, t, i)'
    BY <2>2, <2>4, <2>5 DEF PolicyKeeps
  <2> QED BY <2>4, <2>6
<1> QED BY <1>2, <1>5, <1>6, <1>7, <1>8, FlightLeaves

(* A decision leaves the tables as After.                                  *)
LEMMA Decides ==
  ASSUME EnvOK', ~Off, NEW c, NEW s, Before(c, s)', NEW r, r \in Transition(c, s)
  PROVE  /\ After(r.calls, r.state)' /\ Alike(c, r.calls)
         /\ \A i \in LiveCalls(c) : /\ r.calls[i].lock_waiting = c[i].lock_waiting
                                    /\ r.calls[i].admitted <=> i \in r.state.inflight
         /\ r.state.inflight \in Dispatched(c, s) /\ r.state.calls = s.calls
         /\ r.state.tasks = s.tasks /\ r.state.window = s.window
<1>0. s \in PolicyState BY DEF Before
<1>1. PICK flying \in Dispatched(c, s) :
            /\ r.calls = Admit(c, flying)
            /\ flying \subseteq Ids => r.state \in PolicyState
            /\ r.state.inflight = flying /\ r.state.calls = s.calls
            /\ r.state.tasks = s.tasks /\ r.state.window = s.window
  BY <1>0, TransitionIs
<1>2. PICK d, t : d = r.calls /\ t = r.state OBVIOUS
<1>3. /\ Alike(c, d)
      /\ \A i \in LiveCalls(c) : /\ d[i].lock_waiting = c[i].lock_waiting
                                 /\ d[i].admitted <=> i \in flying
      /\ CallsOK(d)' /\ t \in PolicyState /\ Matched(d, t)
  <2>1. /\ d = Admit(c, flying)
        /\ flying \subseteq Ids => t \in PolicyState
        /\ t.inflight = flying /\ t.calls = s.calls /\ t.tasks = s.tasks
    BY <1>1, <1>2
  <2> QED BY <2>1, DecideKeepsTables
<1>4. Flying(d) = flying BY <1>1, <1>2, <1>3 DEF Matched
<1>5. Decided(d, t)'
  <2>1. t.tasks = s.tasks /\ t.calls = s.calls /\ t.inflight = flying BY <1>1, <1>2
  <2>2. Alike(c, d) /\ Matched(d, t) BY <1>3
  <2> QED BY <2>1, <2>2, <1>4, DecideGivesReasons
<1>6. After(d, t)' BY <1>3, <1>5 DEF After, Matched
<1> QED BY <1>1, <1>2, <1>3, <1>6

----------------------------------------------------------------------------
(* What AdmittedWithinLimits says of a step from the calls k, at a point of *)
(* it where the tables are c and s.                                        *)

Sent(k, c) == {i \in Flying(c) : i \notin LiveCalls(k) \/ ~k[i].admitted}
Focused(c, s, all) == s.window \/ \E i \in all : IsLane(c, i)

Within(k, c, s) ==
    /\ Sent(k, c) # {} => lock # "foreign"
    /\ Planned(c, Sent(k, c)) # {} => Cardinality(Planned(c, Flying(c))) <= Limit
    /\ Lower(c, Sent(k, c)) # {} =>
          \/ Cardinality(Lower(c, Flying(c))) <= NFg /\ Focused(c, s, Flying(c))
          \/ Cardinality(Lower(c, Flying(c))) <= NA /\ ~Focused(c, s, Flying(c) \ Sent(k, c))

(* What was out stays out while it lives.                                  *)
StillOut(k, c) == \A i \in LiveCalls(c) : i \in LiveCalls(k) /\ k[i].admitted => c[i].admitted

LEMMA SameCalls ==
  ASSUME NEW c, NEW d, Alike(c, d), NEW f, f \subseteq LiveCalls(c)
  PROVE  Planned(d, f) = Planned(c, f) /\ Lower(d, f)' = Lower(c, f)'
<1>1. \A i \in f : IsHoldable(d, i) = IsHoldable(c, i) /\ d[i].session = c[i].session
  BY StaticMeans DEF Alike, Static
<1>2. Planned(d, f) = Planned(c, f) BY <1>1 DEF Planned
<1>3. Lower(d, f)' = Lower(c, f)'
  <2>1. \A i \in Planned(c, f) : i \in f BY DEF Planned
  <2> QED BY <1>1, <1>2, <2>1 DEF Lower
<1> QED BY <1>2, <1>3

(* Every decision keeps to the limits.                                     *)
LEMMA DecidesWithin ==
  ASSUME EnvOK', ~Off, NEW c, NEW s, Before(c, s)', NEW r, r \in Transition(c, s),
         NEW k, StillOut(k, c), Within(k, c, s)'
  PROVE  Within(k, r.calls, r.state)' /\ StillOut(k, r.calls)
<1>1. PICK d, t, flying : d = r.calls /\ t = r.state /\ flying = t.inflight OBVIOUS
<1>2. /\ After(d, t)' /\ Alike(c, d)
      /\ \A i \in LiveCalls(c) : d[i].admitted <=> i \in flying
      /\ flying \in Dispatched(c, s) /\ t.window = s.window
  BY <1>1, Decides
<1> DEFINE new == flying \ s.inflight
<1>3. Flying(d) = flying /\ Flying(c) = s.inflight /\ s.inflight \subseteq flying
  <2>1. t.inflight = Flying(d) BY <1>2 DEF After, Matched
  <2>2. s.inflight = Flying(c) BY DEF Before, Matched
  <2> QED BY <1>1, <1>2, <2>1, <2>2, FlightWithin
<1>4. flying \subseteq LiveCalls(c)
  <2>1. flying \subseteq s.calls BY <1>2, FlightWithin
  <2> QED BY <2>1 DEF Before, Matched
<1>5. /\ \A i \in LiveCalls(c) : IsLane(d, i) = IsLane(c, i)
      /\ LiveCalls(d) = LiveCalls(c)
  BY <1>2, StaticMeans DEF Alike
<1>6. StillOut(k, d)
  BY <1>2, <1>3, <1>4, <1>5 DEF StillOut, Flying
<1>7. Sent(k, d) = Sent(k, c) \cup new
  <2>1. \A i \in new : i \notin LiveCalls(k) \/ ~k[i].admitted
    <3>1. \A i \in new : i \in LiveCalls(c) /\ ~c[i].admitted BY <1>3, <1>4 DEF Flying
    <3> QED BY <3>1 DEF StillOut
  <2> QED BY <2>1, <1>3 DEF Sent
<1>8. flying \ Sent(k, d) \subseteq s.inflight \ Sent(k, c)
  BY <1>7
<1>9. Sent(k, d) # {} => lock' # "foreign"
  <2>1. new # {} => lock' # "foreign" BY <1>2, FlightWithin
  <2>2. Sent(k, c) # {} => lock' # "foreign" BY DEF Within
  <2> QED BY <2>1, <2>2, <1>7
<1>10. /\ Planned(c, new) # {} => Cardinality(Planned(c, flying)) <= Limit
       /\ Lower(c, new)' # {} =>
            Cardinality(Lower(c, flying)') <= BackgroundCap(c, s, AdmitLane(c, s))
  BY <1>2, FlightFits
<1>11. /\ Planned(c, Sent(k, c)) # {} => Cardinality(Planned(c, s.inflight)) <= Limit
       /\ Lower(c, Sent(k, c))' # {} =>
            \/ Cardinality(Lower(c, s.inflight)') <= NFg /\ Focused(c, s, s.inflight)
            \/ /\ Cardinality(Lower(c, s.inflight)') <= NA
               /\ ~Focused(c, s, s.inflight \ Sent(k, c))
  BY <1>3 DEF Within
<1>12. /\ \A f \in SUBSET flying : Planned(d, f) = Planned(c, f) /\ Lower(d, f)' = Lower(c, f)'
       /\ Sent(k, d) \subseteq flying
  BY <1>2, <1>3, <1>4, SameCalls DEF Sent
<1>13. ASSUME Planned(d, Sent(k, d)) # {}
       PROVE  Cardinality(Planned(d, flying)) <= Limit
  <2>1. Planned(c, Sent(k, d)) # {} BY <1>12, <1>13
  <2>2. CASE Planned(c, new) # {} BY <2>2, <1>10, <1>12
  <2>3. CASE Planned(c, new) = {}
    <3>1. Planned(c, Sent(k, c)) # {} BY <2>1, <2>3, <1>7 DEF Planned
    <3>2. Planned(c, flying) = Planned(c, s.inflight) BY <2>3, <1>3 DEF Planned
    <3> QED BY <3>1, <3>2, <1>11, <1>12
  <2> QED BY <2>2, <2>3
<1>14. ASSUME Lower(d, Sent(k, d))' # {}
       PROVE  \/ Cardinality(Lower(d, flying)') <= NFg /\ Focused(d, t, flying)
              \/ Cardinality(Lower(d, flying)') <= NA /\ ~Focused(d, t, flying \ Sent(k, d))
  <2>1. Lower(c, Sent(k, d))' # {} BY <1>12, <1>14
  <2>2. Lower(d, flying)' = Lower(c, flying)' BY <1>12
  <2>3. \A f \in SUBSET flying : Focused(d, t, f) <=> Focused(c, s, f)
    BY <1>2, <1>4, <1>5 DEF Focused
  <2>4. flying \ Sent(k, d) \in SUBSET flying /\ flying \in SUBSET flying OBVIOUS
  <2>5. CASE Lower(c, new)' # {}
    <3>1. Cardinality(Lower(c, flying)') <= BackgroundCap(c, s, AdmitLane(c, s))
      BY <2>5, <1>10
    <3>2. CASE /\ BackgroundCap(c, s, AdmitLane(c, s)) = NFg
               /\ s.window \/ \E i \in s.inflight \cup AdmitLane(c, s) : IsLane(c, i)
      <4>1. AdmitLane(c, s) \subseteq flying
        BY <1>2, FlightIs DEF Free
      <4>2. Focused(c, s, flying) BY <4>1, <3>2, <1>3 DEF Focused
      <4> QED BY <4>2, <3>1, <3>2, <2>2, <2>3, <2>4
    <3>3. CASE /\ BackgroundCap(c, s, AdmitLane(c, s)) = NA
               /\ ~s.window /\ \A i \in s.inflight \cup AdmitLane(c, s) : ~IsLane(c, i)
      <4>1. ~Focused(c, s, flying \ Sent(k, d)) BY <3>3, <1>8 DEF Focused
      <4> QED BY <4>1, <3>1, <3>3, <2>2, <2>3, <2>4
    <3> QED BY <3>2, <3>3, CapIsOne
  <2>6. CASE Lower(c, new)' = {}
    <3>1. Lower(c, Sent(k, c))' # {} BY <2>1, <2>6, <1>7 DEF Lower, Planned
    <3>2. Lower(c, flying)' = Lower(c, s.inflight)' BY <2>6, <1>3 DEF Lower, Planned
    <3>3. Focused(c, s, s.inflight) => Focused(c, s, flying) BY <1>3 DEF Focused
    <3>4. ~Focused(c, s, s.inflight \ Sent(k, c)) => ~Focused(c, s, flying \ Sent(k, d))
      BY <1>8 DEF Focused
    <3> QED BY <3>1, <3>2, <3>3, <3>4, <1>11, <2>2, <2>3, <2>4
  <2> QED BY <2>5, <2>6
<1>15. Within(k, d, t)'
  BY <1>3, <1>9, <1>13, <1>14 DEF Within
<1> QED BY <1>1, <1>6, <1>15

----------------------------------------------------------------------------
(* A point of a handler that began with the calls k: before a decision     *)
(* (Ready) and after one (Good).                                           *)

Base(k, c, s) ==
    /\ CallsOK(c) /\ s \in PolicyState /\ OffSound(c) /\ StillOut(k, c)
    /\ (~closed /\ Sent(k, c) # {}) => lock # "foreign"

Ready(k, c, s) ==
    /\ Base(k, c, s)
    /\ ~Off => Matched(c, s) /\ Passed(c, s) /\ Within(k, c, s)

Good(k, c, s) ==
    /\ Base(k, c, s)
    /\ ~Off => Matched(c, s) /\ Decided(c, s) /\ Within(k, c, s)

LEMMA GoodIsReady ==
  ASSUME NEW k, NEW c, NEW s, Good(k, c, s)
  PROVE  Ready(k, c, s)
BY DEF Good, Ready, Decided, Passed

(* d is c further on: some calls gone, none new, none called back.         *)
Onward(c, d) ==
    /\ LiveCalls(d) \subseteq LiveCalls(c)
    /\ \A i \in LiveCalls(d) :
          /\ Static(c, d, i)
          /\ d[i].lock_waiting => c[i].lock_waiting
          /\ c[i].admitted => d[i].admitted

SameWorkers(s, t) == \A w \in Workers : t.tasks[w] = s.tasks[w]

LEMMA OnwardFrom ==
  ASSUME NEW c, NEW d, NEW e, Onward(c, d), Onward(d, e)
  PROVE  Onward(c, e)
BY DEF Onward, Static

LEMMA OnwardSelf ==
  ASSUME NEW c
  PROVE  Onward(c, c)
BY DEF Onward, Static

LEMMA OnwardDue ==
  ASSUME NEW c, NEW d, Onward(c, d), NEW D, Due(c, D)'
  PROVE  Due(d, D)'
BY DEF Onward, Static, Due

LEMMA AlikeWaits ==
  ASSUME NEW c, NEW d, Alike(c, d),
         \A i \in LiveCalls(c) : d[i].lock_waiting = c[i].lock_waiting, WaitersKept(c)'
  PROVE  WaitersKept(d)'
<1>1. \A i \in LiveCalls(c) : /\ Planning(d, i) = Planning(c, i)
                              /\ d[i].session = c[i].session /\ d[i].park_fenced = c[i].park_fenced
  BY StaticMeans DEF Alike, Static
<1> QED BY <1>1 DEF WaitersKept, LockKeeps, Sibling, Alike

(* A decision at a point that is ready leaves a good one.                  *)
LEMMA Transits ==
  ASSUME EnvOK', policy' = policy, closed' = closed, state \in PolicyState,
         NEW k, NEW c, NEW s, Ready(k, c, s)', NEW r, r \in Transition(c, s)
  PROVE  /\ Good(k, r.calls, r.state)'
         /\ Onward(c, r.calls) /\ Alike(c, r.calls)
         /\ \A i \in LiveCalls(c) : r.calls[i].lock_waiting = c[i].lock_waiting
         /\ ~Off => r.state.tasks = s.tasks
<1>0. Off' <=> Off BY DEF Off
<1>1. CASE Off
  <2>1. r = Both(c, state) BY <1>1 DEF Transition
  <2>2. r.calls = c /\ r.state = state BY <2>1 DEF Both
  <2>3. Alike(c, c) BY DEF Alike, Static
  <2>4. PICK t : t = state OBVIOUS
  <2>5. Good(k, c, t)' BY <1>0, <1>1, <2>4 DEF Ready, Good, Base
  <2> QED BY <2>2, <2>3, <2>4, <2>5, <1>1, OnwardSelf
<1>2. CASE ~Off
  <2>1. PICK d, t : d = r.calls /\ t = r.state OBVIOUS
  <2>2. /\ Before(c, s)' /\ StillOut(k, c) /\ Within(k, c, s)'
    BY <1>0, <1>2 DEF Ready, Base, Before
  <2>3. /\ After(d, t)' /\ Alike(c, d)
        /\ \A i \in LiveCalls(c) : /\ d[i].lock_waiting = c[i].lock_waiting
                                   /\ d[i].admitted <=> i \in t.inflight
        /\ t.inflight \in Dispatched(c, s) /\ t.tasks = s.tasks
    BY <1>2, <2>1, <2>2, Decides
  <2>4. Within(k, d, t)' /\ StillOut(k, d)
    BY <1>2, <2>1, <2>2, DecidesWithin
  <2>5. \A i \in LiveCalls(c) : c[i].admitted => d[i].admitted
    <3>1. Flying(c) \subseteq t.inflight
      <4>1. s.inflight = Flying(c) BY <2>2 DEF Before, Matched
      <4> QED BY <4>1, <2>2, <2>3, FlightWithin
    <3> QED BY <3>1, <2>3 DEF Flying
  <2>6. Onward(c, d) BY <2>3, <2>5 DEF Onward, Alike
  <2>7. OffSound(d)' BY <1>0, <1>2 DEF OffSound
  <2>8. Good(k, d, t)'
    <3>1. (~closed' /\ Sent(k, d) # {}) => lock' # "foreign" BY <2>4 DEF Within
    <3>2. CallsOK(d)' /\ t \in PolicyState /\ Matched(d, t) /\ Decided(d, t)'
      BY <2>3 DEF After, Matched
    <3> QED BY <2>4, <2>7, <3>1, <3>2 DEF Good, Base, Matched, StillOut
  <2> QED BY <2>1, <2>3, <2>6, <2>8
<1> QED BY <1>1, <1>2

----------------------------------------------------------------------------
(* The end of a call. *)

Without(c, i) == [c EXCEPT ![i] = NoCall]

(* A call taken out of the calls.                                          *)
LEMMA Removed ==
  ASSUME NEW c, c \in [Ids -> Call \cup {NoCall}], NEW i, i \in LiveCalls(c),
         NEW d, d = Without(c, i)
  PROVE  /\ d \in [Ids -> Call \cup {NoCall}] /\ LiveCalls(d) = LiveCalls(c) \ {i}
         /\ \A j \in LiveCalls(d) : d[j] = c[j]
         /\ \A j \in LiveCalls(d) :
              /\ Static(c, d, j) /\ IsLane(d, j) = IsLane(c, j)
              /\ IsHoldable(d, j) = IsHoldable(c, j)
              /\ Planning(d, j) = Planning(c, j) /\ TaskOf(d, j) = TaskOf(c, j)
         /\ Onward(c, d) /\ Flying(d) = Flying(c) \ {i}
<1>1. /\ d \in [Ids -> Call \cup {NoCall}] /\ i \in Ids
      /\ \A j \in Ids : d[j] = IF j = i THEN NoCall ELSE c[j]
  BY DEF LiveCalls, Without
<1>2. LiveCalls(d) = LiveCalls(c) \ {i} BY <1>1 DEF LiveCalls
<1>3. \A j \in LiveCalls(d) : d[j] = c[j] BY <1>1, <1>2 DEF LiveCalls
<1>4. \A j \in LiveCalls(d) : Static(c, d, j) BY <1>3 DEF Static
<1>5. Onward(c, d) BY <1>2, <1>3, <1>4 DEF Onward
<1>6. Flying(d) = Flying(c) \ {i} BY <1>2, <1>3 DEF Flying
<1> QED BY <1>1, <1>2, <1>3, <1>4, <1>5, <1>6, StaticMeans

LEMMA RemovedOK ==
  ASSUME NEW k, NEW c, CallsOK(c)', OffSound(c)', StillOut(k, c), NEW i, i \in LiveCalls(c),
         NEW d, d = Without(c, i)
  PROVE  /\ CallsOK(d)' /\ OffSound(d)' /\ StillOut(k, d)
         /\ Sent(k, d) = Sent(k, c) \ {i}
<1>1. /\ d \in [Ids -> Call \cup {NoCall}] /\ LiveCalls(d) = LiveCalls(c) \ {i}
      /\ \A j \in LiveCalls(d) : d[j] = c[j]
      /\ \A j \in LiveCalls(d) : IsLane(d, j) = IsLane(c, j) /\ Planning(d, j) = Planning(c, j)
      /\ Flying(d) = Flying(c) \ {i}
  <2>1. c \in [Ids -> Call \cup {NoCall}] BY DEF CallsOK
  <2> QED BY <2>1, Removed
<1>2. IsFiniteSet(LiveCalls(d)) BY <1>1, FS_Subset DEF CallsOK
<1>3. CallsOK(d)' BY <1>1, <1>2 DEF CallsOK
<1>4. OffSound(d)' /\ StillOut(k, d) BY <1>1 DEF OffSound, StillOut
<1>5. Sent(k, d) = Sent(k, c) \ {i} BY <1>1 DEF Sent
<1> QED BY <1>3, <1>4, <1>5

(* One that the lock kept goes without a trace.                             *)
LEMMA WaiterRemoved ==
  ASSUME NEW k, NEW c, NEW s, Good(k, c, s)', NEW i, i \in LiveCalls(c), c[i].lock_waiting,
         NEW d, d = Without(c, i)
  PROVE  Good(k, d, s)' /\ Onward(c, d) /\ LiveCalls(d) = LiveCalls(c) \ {i}
<1>0. CallsOK(c)' /\ OffSound(c)' /\ StillOut(k, c) /\ c \in [Ids -> Call \cup {NoCall}]
  BY DEF Good, Base, CallsOK
<1>1. /\ LiveCalls(d) = LiveCalls(c) \ {i} /\ \A j \in LiveCalls(d) : d[j] = c[j]
      /\ \A j \in LiveCalls(d) :
              /\ IsLane(d, j) = IsLane(c, j) /\ IsHoldable(d, j) = IsHoldable(c, j)
              /\ Planning(d, j) = Planning(c, j) /\ TaskOf(d, j) = TaskOf(c, j)
      /\ Onward(c, d) /\ Flying(d) = Flying(c) \ {i}
  BY <1>0, Removed
<1>2. CallsOK(d)' /\ OffSound(d)' /\ StillOut(k, d) /\ Sent(k, d) = Sent(k, c) \ {i}
  BY <1>0, RemovedOK
<1>3. i \notin Flying(c) BY <1>0 DEF CallsOK, Flying
<1>4. Flying(d) = Flying(c) /\ Sent(k, d) = Sent(k, c) BY <1>1, <1>2, <1>3 DEF Sent
<1>5. Base(k, d, s)' BY <1>2, <1>4 DEF Good, Base
<1>6. ASSUME ~Off' PROVE Matched(d, s) /\ Decided(d, s)' /\ Within(k, d, s)'
  <2>0. Matched(c, s) /\ Decided(c, s)' /\ Within(k, c, s)' BY <1>6 DEF Good
  <2>1. s.calls \subseteq LiveCalls(d) /\ s.inflight \subseteq LiveCalls(d)
    BY <2>0, <1>1, <1>3 DEF Matched, Flying
  <2>2. Matched(d, s)
    <3>1. s.calls = {j \in LiveCalls(d) : ~d[j].lock_waiting /\ ~d[j].park_fenced}
      BY <2>0, <1>1 DEF Matched
    <3>2. s.inflight = Flying(d) BY <2>0, <1>4 DEF Matched
    <3>3. \A l, j \in s.inflight : IsLane(d, l) /\ IsLane(d, j) => l = j
      BY <2>0, <2>1, <1>1 DEF Matched
    <3>4. \A j \in s.calls :
            d[j].session \in Chats /\ Planning(d, j) => s.tasks[d[j].session] = "live"
      BY <2>0, <2>1, <1>1 DEF Matched
    <3> QED BY <3>1, <3>2, <3>3, <3>4 DEF Matched
  <2>3. Decided(d, s)'
    <3> SUFFICES ASSUME NEW j \in s.calls \ s.inflight
                 PROVE  \/ Dead(d, s, j)
                        \/ /\ Planning(d, j)
                           /\ lock' = "foreign" \/ LaneKeeps(d, j) \/ PolicyKeeps(d, s, j)'
      BY DEF Decided
    <3>1. j \in LiveCalls(d) BY <2>1
    <3>2. Dead(c, s, j) <=> Dead(d, s, j) BY <3>1, <1>1 DEF Dead
    <3>3. LaneKeeps(c, j) => LaneKeeps(d, j)
      <4>1. Flying(d) \subseteq LiveCalls(d) BY DEF Flying
      <4> QED BY <3>1, <1>1, <1>4, <4>1 DEF LaneKeeps
    <3>4. PolicyKeeps(c, s, j)' => PolicyKeeps(d, s, j)'
      <4>1. NonLane(d, Flying(d)) = NonLane(c, Flying(c))
        BY <1>1, <1>4 DEF NonLane, Flying
      <4>2. \A l \in NonLane(d, Flying(d)) : TaskOf(d, l) = TaskOf(c, l)
        BY <1>1 DEF NonLane, Flying
      <4>3. {l \in NonLane(d, Flying(d)) : LET t == TaskOf(d, l) IN
                t = NoSession \/ s.tasks[t] # "live" \/ t \notin urgent'}
              = {l \in NonLane(c, Flying(c)) : LET t == TaskOf(c, l) IN
                t = NoSession \/ s.tasks[t] # "live" \/ t \notin urgent'}
        BY <4>1, <4>2
      <4>4. IsHoldable(d, j) = IsHoldable(c, j) /\ d[j].session = c[j].session
        BY <3>1, <1>1
      <4>5. (\E l \in s.calls : Sibling(c, j, l)) => \E l \in s.calls : Sibling(d, j, l)
        BY <2>1, <3>1, <1>1 DEF Sibling
      <4> QED BY <4>1, <4>3, <4>4, <4>5 DEF PolicyKeeps
    <3> QED BY <2>0, <3>1, <3>2, <3>3, <3>4, <1>1 DEF Decided
  <2>4. Within(k, d, s)'
    <3>1. \A f \in SUBSET Flying(d) : /\ Planned(d, f) = Planned(c, f)
                                      /\ Lower(d, f)' = Lower(c, f)'
                                      /\ Focused(d, s, f) <=> Focused(c, s, f)
      BY <1>1 DEF Planned, Lower, Focused, Flying
    <3>2. Sent(k, c) \in SUBSET Flying(d) /\ Flying(d) \in SUBSET Flying(d)
          /\ Flying(d) \ Sent(k, c) \in SUBSET Flying(d)
      BY <1>4 DEF Sent
    <3>3. /\ Planned(d, Sent(k, c)) = Planned(c, Sent(k, c))
          /\ Lower(d, Sent(k, c))' = Lower(c, Sent(k, c))'
          /\ Planned(d, Flying(d)) = Planned(c, Flying(c))
          /\ Lower(d, Flying(d))' = Lower(c, Flying(c))'
          /\ Focused(d, s, Flying(d)) <=> Focused(c, s, Flying(c))
          /\ Focused(d, s, Flying(d) \ Sent(k, d)) <=> Focused(c, s, Flying(c) \ Sent(k, c))
      BY <3>1, <3>2, <1>4
    <3> QED BY <2>0, <3>3, <1>4 DEF Within
  <2> QED BY <2>2, <2>3, <2>4
<1> QED BY <1>1, <1>5, <1>6 DEF Good

(* What the policy's table is once it has dropped a call.                  *)
Dropped(c, s, i) ==
    LET x == c[i].session IN
    [s EXCEPT !.calls = @ \ {i}, !.inflight = @ \ {i},
              !.window = @ \/ (i \in s.inflight /\ IsLane(c, i)),
              !.tasks[x] = IF x \in Chats /\ @ # "none" /\ Of(Without(c, i), x) = {}
                           THEN "over" ELSE @]

LEMMA LeftIs ==
  ASSUME NEW r, NEW i
  PROVE  Left(r, i) = IF r.calls[i].lock_waiting THEN {Both(Without(r.calls, i), r.state)}
                      ELSE Transition(Without(r.calls, i), Dropped(r.calls, r.state, i))
BY DEF Left, Dropped, Without

LEMMA DroppedIs ==
  ASSUME NEW c, NEW s, s \in PolicyState, NEW i, c[i].session \in Sessions,
         IsLane(c, i) \in BOOLEAN,
         NEW t, t = Dropped(c, s, i)
  PROVE  /\ t \in PolicyState /\ t.calls = s.calls \ {i} /\ t.inflight = s.inflight \ {i}
         /\ t.window = (s.window \/ (i \in s.inflight /\ IsLane(c, i)))
         /\ \A x \in Sessions : x \notin Chats \/ Of(Without(c, i), x) # {} =>
               t.tasks[x] = s.tasks[x]
<1> DEFINE x == c[i].session
           ph == IF x \in Chats /\ s.tasks[x] # "none" /\ Of(Without(c, i), x) = {}
                 THEN "over" ELSE s.tasks[x]
<1>1. /\ s.tasks \in [Sessions -> Phases] /\ s.calls \subseteq Ids /\ s.inflight \subseteq Ids
      /\ s.window \in BOOLEAN
  BY DEF PolicyState
<1>2. ph \in Phases BY <1>1 DEF Phases
<1>3. t = [s EXCEPT !.calls = @ \ {i}, !.inflight = @ \ {i},
              !.window = @ \/ (i \in s.inflight /\ IsLane(c, i)), !.tasks[x] = ph]
  BY DEF Dropped
<1> HIDE DEF ph, x
<1>4. /\ t.calls = s.calls \ {i} /\ t.inflight = s.inflight \ {i}
      /\ t.window = (s.window \/ (i \in s.inflight /\ IsLane(c, i)))
      /\ t.tasks = [s.tasks EXCEPT ![x] = ph]
  BY <1>3, <1>1 DEF PolicyState
<1>5. t \in PolicyState
  <2>1. [s.tasks EXCEPT ![x] = ph] \in [Sessions -> Phases] BY <1>1, <1>2
  <2>2. s.calls \ {i} \in SUBSET Ids /\ s.inflight \ {i} \in SUBSET Ids BY <1>1
  <2>3. (s.window \/ (i \in s.inflight /\ IsLane(c, i))) \in BOOLEAN BY <1>1
  <2> QED BY <2>1, <2>2, <2>3, <1>3 DEF PolicyState
<1>6. ASSUME NEW y \in Sessions, y \notin Chats \/ Of(Without(c, i), y) # {}
      PROVE  t.tasks[y] = s.tasks[y]
  <2>1. y = x => ph = s.tasks[x] BY <1>6 DEF ph
  <2> QED BY <2>1, <1>1, <1>4
<1> QED BY <1>4, <1>5, <1>6

(* A call that the policy knew leaves it ready to decide.                  *)
LEMMA DroppedReady ==
  ASSUME EnvOK', NEW k, NEW c, NEW s, Good(k, c, s)', NEW i, i \in LiveCalls(c),
         i \in Flying(c) => Sent(k, c) = {},
         NEW d, d = Without(c, i), NEW t, t = Dropped(c, s, i)
  PROVE  Ready(k, d, t)'
<1>0. CallsOK(c)' /\ OffSound(c)' /\ StillOut(k, c) /\ s \in PolicyState
      /\ c \in [Ids -> Call \cup {NoCall}]
  BY DEF Good, Base, CallsOK
<1>1. /\ LiveCalls(d) = LiveCalls(c) \ {i} /\ \A j \in LiveCalls(d) : d[j] = c[j]
      /\ \A j \in LiveCalls(d) :
              /\ IsLane(d, j) = IsLane(c, j) /\ IsHoldable(d, j) = IsHoldable(c, j)
              /\ Planning(d, j) = Planning(c, j) /\ TaskOf(d, j) = TaskOf(c, j)
      /\ Flying(d) = Flying(c) \ {i}
  BY <1>0, Removed
<1>2. CallsOK(d)' /\ OffSound(d)' /\ StillOut(k, d) /\ Sent(k, d) = Sent(k, c) \ {i}
  BY <1>0, RemovedOK
<1>3. c[i].session \in Sessions /\ IsLane(c, i) \in BOOLEAN
  BY <1>0, LiveCall DEF IsLane
<1>4. /\ t \in PolicyState /\ t.calls = s.calls \ {i} /\ t.inflight = s.inflight \ {i}
      /\ t.window = (s.window \/ (i \in s.inflight /\ IsLane(c, i)))
      /\ \A x \in Sessions : x \notin Chats \/ Of(d, x) # {} => t.tasks[x] = s.tasks[x]
  BY <1>0, <1>3, DroppedIs
<1>5. Base(k, d, t)' BY <1>2, <1>4 DEF Good, Base
<1>6. ASSUME ~Off' PROVE Matched(d, t) /\ Passed(d, t)' /\ Within(k, d, t)'
  <2>0. Matched(c, s) /\ Decided(c, s)' /\ Within(k, c, s)' BY <1>6 DEF Good
  <2>1. t.calls \subseteq LiveCalls(d) /\ t.inflight \subseteq LiveCalls(d)
    BY <2>0, <1>1, <1>4 DEF Matched, Flying
  <2>2. \A j \in LiveCalls(d) : d[j].session \in Sessions /\ t.tasks[d[j].session] = s.tasks[d[j].session]
    <3> SUFFICES ASSUME NEW j \in LiveCalls(d)
                 PROVE  d[j].session \in Sessions /\ t.tasks[d[j].session] = s.tasks[d[j].session]
      OBVIOUS
    <3>1. d[j].session \in Sessions
      <4>1. d \in [Ids -> Call \cup {NoCall}] BY <1>2 DEF CallsOK
      <4> QED BY <4>1, LiveCall
    <3>2. Of(d, d[j].session) # {} BY DEF Of
    <3> QED BY <3>1, <3>2, <1>4
  <2>3. Matched(d, t)
    <3>1. t.calls = {j \in LiveCalls(d) : ~d[j].lock_waiting /\ ~d[j].park_fenced}
      BY <2>0, <1>1, <1>4 DEF Matched
    <3>2. t.inflight = Flying(d) BY <2>0, <1>1, <1>4 DEF Matched
    <3>3. \A l, j \in t.inflight : IsLane(d, l) /\ IsLane(d, j) => l = j
      BY <2>0, <2>1, <1>1, <1>4 DEF Matched
    <3>4. \A j \in t.calls :
            d[j].session \in Chats /\ Planning(d, j) => t.tasks[d[j].session] = "live"
      BY <2>0, <2>1, <2>2, <1>1, <1>4 DEF Matched
    <3> QED BY <3>1, <3>2, <3>3, <3>4 DEF Matched
  <2>4. Passed(d, t)'
    <3> SUFFICES ASSUME NEW j \in t.calls \ t.inflight
                 PROVE  Dead(d, t, j) \/ Planning(d, j)
      BY DEF Passed
    <3>1. j \in LiveCalls(d) /\ j \in s.calls \ s.inflight BY <2>1, <1>1, <1>4
    <3>2. Dead(c, s, j) => Dead(d, t, j)
      <4>1. TaskOf(d, j) = d[j].session \/ TaskOf(d, j) = NoSession BY DEF TaskOf
      <4> QED BY <4>1, <3>1, <2>2, <1>1 DEF Dead
    <3> QED BY <3>1, <3>2, <2>0, <1>1 DEF Decided
  <2>5. Within(k, d, t)'
    <3>1. CASE i \in s.inflight
      <4>1. Sent(k, d) = {} BY <3>1, <1>2, <2>0 DEF Matched
      <4>2. Planned(d, Sent(k, d)) = {} /\ Lower(d, Sent(k, d))' = {}
        BY <4>1 DEF Planned, Lower
      <4> QED BY <4>1, <4>2 DEF Within
    <3>2. CASE i \notin s.inflight
      <4>0. Flying(d) = Flying(c) /\ Sent(k, d) = Sent(k, c) /\ t.window = s.window
        <5>1. i \notin Flying(c) BY <3>2, <2>0 DEF Matched
        <5>2. s.window \in BOOLEAN BY <1>0 DEF PolicyState
        <5> QED BY <5>1, <5>2, <3>2, <1>1, <1>2, <1>4 DEF Sent
      <4>1. \A f \in SUBSET Flying(d) : /\ Planned(d, f) = Planned(c, f)
                                        /\ Lower(d, f)' = Lower(c, f)'
                                        /\ Focused(d, t, f) <=> Focused(c, s, f)
        BY <4>0, <1>1 DEF Planned, Lower, Focused, Flying
      <4>2. Sent(k, c) \in SUBSET Flying(d) /\ Flying(d) \in SUBSET Flying(d)
            /\ Flying(d) \ Sent(k, c) \in SUBSET Flying(d)
        BY <4>0 DEF Sent
      <4>3. /\ Planned(d, Sent(k, d)) = Planned(c, Sent(k, c))
            /\ Lower(d, Sent(k, d))' = Lower(c, Sent(k, c))'
            /\ Planned(d, Flying(d)) = Planned(c, Flying(c))
            /\ Lower(d, Flying(d))' = Lower(c, Flying(c))'
            /\ Focused(d, t, Flying(d)) <=> Focused(c, s, Flying(c))
            /\ Focused(d, t, Flying(d) \ Sent(k, d)) <=> Focused(c, s, Flying(c) \ Sent(k, c))
        BY <4>0, <4>1, <4>2
      <4> QED BY <2>0, <4>0, <4>3 DEF Within
    <3> QED BY <3>1, <3>2
  <2> QED BY <2>3, <2>4, <2>5
<1> QED BY <1>5, <1>6 DEF Ready

(* The end of a call decides again, unless only the lock kept the call.    *)
LEMMA Leaves ==
  ASSUME EnvOK', policy' = policy, closed' = closed, state \in PolicyState,
         NEW k, NEW r, NEW c, NEW s, c = r.calls, s = r.state, Good(k, c, s)',
         NEW i, i \in LiveCalls(c), i \in Flying(c) => Sent(k, c) = {},
         NEW a, a \in Left(r, i)
  PROVE  /\ Good(k, a.calls, a.state)'
         /\ Onward(c, a.calls) /\ LiveCalls(a.calls) = LiveCalls(c) \ {i}
         /\ \A j \in LiveCalls(a.calls) : a.calls[j].lock_waiting = c[j].lock_waiting
         /\ ~Off => SameWorkers(s, a.state)
<1>0. c \in [Ids -> Call \cup {NoCall}] /\ s \in PolicyState
  BY DEF Good, Base, CallsOK
<1>1. PICK d, t : d = Without(c, i) /\ t = Dropped(c, s, i) OBVIOUS
<1>2. /\ LiveCalls(d) = LiveCalls(c) \ {i} /\ Onward(c, d)
      /\ \A j \in LiveCalls(d) : d[j] = c[j]
  BY <1>0, <1>1, Removed
<1>3. CASE c[i].lock_waiting
  <2>1. a = Both(d, s) BY <1>1, <1>3, LeftIs
  <2>2. a.calls = d /\ a.state = s BY <2>1 DEF Both
  <2>3. Good(k, d, s)' BY <1>1, <1>3, WaiterRemoved
  <2>4. SameWorkers(s, s) BY DEF SameWorkers
  <2> QED BY <1>2, <2>2, <2>3, <2>4
<1>4. CASE ~c[i].lock_waiting
  <2>1. a \in Transition(d, t) BY <1>1, <1>4, LeftIs
  <2>2. Ready(k, d, t)' BY <1>1, DroppedReady
  <2>3. PICK e, u : e = a.calls /\ u = a.state OBVIOUS
  <2>4. /\ Good(k, e, u)' /\ Onward(d, e) /\ Alike(d, e)
        /\ \A j \in LiveCalls(d) : e[j].lock_waiting = d[j].lock_waiting
        /\ ~Off => u.tasks = t.tasks
    BY <2>1, <2>2, <2>3, Transits
  <2>5. Onward(c, e) BY <1>2, <2>4, OnwardFrom
  <2>6. LiveCalls(e) = LiveCalls(c) \ {i} BY <1>2, <2>4 DEF Alike
  <2>7. \A j \in LiveCalls(e) : e[j].lock_waiting = c[j].lock_waiting BY <1>2, <2>4, <2>6
  <2>8. SameWorkers(s, t)
    <3>1. c[i].session \in Sessions /\ IsLane(c, i) \in BOOLEAN
      BY <1>0, LiveCall DEF IsLane
    <3>2. \A x \in Sessions : x \notin Chats => t.tasks[x] = s.tasks[x]
      BY <1>0, <1>1, <3>1, DroppedIs
    <3> QED BY <3>2, GateAssumption DEF SameWorkers, Sessions
  <2>9. ~Off => SameWorkers(s, u) BY <2>4, <2>8 DEF SameWorkers
  <2> QED BY <2>3, <2>4, <2>5, <2>6, <2>7, <2>9
<1> QED BY <1>3, <1>4

----------------------------------------------------------------------------
(* The end of the lock. *)

Waiting(c) == {i \in LiveCalls(c) : c[i].lock_waiting /\ ~c[i].park_fenced}
Busy(c, x) == \E j \in Of(c, x) : ~c[j].lock_waiting /\ Planning(c, j)
TurnOf(c, x) == {j \in Waiting(c) : c[j].session = x /\ Planning(c, j)}

LetIn(c) ==
    {i \in Waiting(c) : \/ Off \/ ~Planning(c, i)
                        \/ /\ ~Busy(c, c[i].session)
                           /\ i \in Earliest(c, TurnOf(c, c[i].session))}

Entered(c, ids) ==
    [i \in Ids |-> IF i \in ids THEN [c[i] EXCEPT !.lock_waiting = FALSE] ELSE c[i]]

LEMMA ReleaseIs ==
  ASSUME NEW r, NEW c, c = r.calls, NEW ids, ids = LetIn(c),
         NEW d, d = Entered(c, ids)
  PROVE  ReleaseLockWaiters(r) =
            IF Off THEN {Both(Admit(d, ids), r.state)}
            ELSE IF ids = {} THEN {r} ELSE Transition(d, Submitted(d, r.state, ids))
BY DEF ReleaseLockWaiters, LetIn, Waiting, Busy, TurnOf, Entered

LEMMA EnteredIs ==
  ASSUME NEW c, c \in [Ids -> Call \cup {NoCall}], NEW ids, ids \subseteq LiveCalls(c),
         NEW d, d = Entered(c, ids)
  PROVE  /\ d \in [Ids -> Call \cup {NoCall}] /\ Alike(c, d)
         /\ \A i \in LiveCalls(c) : /\ d[i].admitted = c[i].admitted
                                    /\ d[i].lock_waiting <=> c[i].lock_waiting /\ i \notin ids
         /\ ids = {} => d = c
<1>1. \A i \in Ids : d[i] = IF i \in ids THEN [c[i] EXCEPT !.lock_waiting = FALSE] ELSE c[i]
  BY DEF Entered
<1>2. \A i \in LiveCalls(c) : c[i] \in Call BY DEF LiveCalls
<1>3. \A i \in ids :
        /\ d[i] \in Call /\ d[i].session = c[i].session /\ d[i].kind = c[i].kind
        /\ d[i].lane = c[i].lane /\ d[i].at = c[i].at
        /\ d[i].park_fenced = c[i].park_fenced
        /\ d[i].admitted = c[i].admitted /\ d[i].lock_waiting = FALSE
  <2> SUFFICES ASSUME NEW i \in ids
               PROVE  LET e == [c[i] EXCEPT !.lock_waiting = FALSE] IN
                 /\ e \in Call /\ e.session = c[i].session /\ e.kind = c[i].kind
                 /\ e.lane = c[i].lane /\ e.at = c[i].at
                 /\ e.park_fenced = c[i].park_fenced
                 /\ e.admitted = c[i].admitted /\ e.lock_waiting = FALSE
    BY <1>1 DEF LiveCalls
  <2>1. c[i] \in Call BY <1>2
  <2> QED BY <2>1 DEF Call
<1>4. \A i \in Ids \ ids : d[i] = c[i] BY <1>1
<1>5. d \in [Ids -> Call \cup {NoCall}]
  <2>1. \A i \in Ids : d[i] \in Call \cup {NoCall} BY <1>3, <1>4
  <2>2. d = [i \in Ids |-> d[i]] BY DEF Entered
  <2> QED BY <2>1, <2>2
<1>6. LiveCalls(d) = LiveCalls(c)
  <2>1. \A i \in ids : d[i] # NoCall BY <1>3, NoCallIsNone
  <2> QED BY <2>1, <1>4 DEF LiveCalls
<1>7. \A i \in LiveCalls(c) : Static(c, d, i)
  BY <1>3, <1>4 DEF Static, LiveCalls
<1>8. \A i \in LiveCalls(c) : /\ d[i].admitted = c[i].admitted
                              /\ d[i].lock_waiting <=> c[i].lock_waiting /\ i \notin ids
  BY <1>3, <1>4 DEF LiveCalls
<1>9. ids = {} => d = c BY <1>5, <1>4
<1> QED BY <1>5, <1>6, <1>7, <1>8, <1>9 DEF Alike

(* A planning call opens its chat's task and no other task.                *)
LEMMA SubmittedIs ==
  ASSUME NEW c, NEW s, s \in PolicyState, NEW ids, ids \subseteq Ids,
         NEW t, t = Submitted(c, s, ids)
  PROVE  /\ t \in PolicyState /\ t.calls = s.calls \cup ids
         /\ t.inflight = s.inflight /\ t.window = s.window
         /\ \A x \in Sessions : x \notin Chats => t.tasks[x] = s.tasks[x]
         /\ \A x \in Sessions : s.tasks[x] = "live" => t.tasks[x] = "live"
         /\ \A i \in ids : c[i].session \in Chats /\ Planning(c, i) =>
               t.tasks[c[i].session] = "live"
<1> DEFINE tk == [x \in Sessions |->
                  IF x \in Chats /\ \E i \in ids : c[i].session = x /\ Planning(c, i)
                  THEN "live" ELSE s.tasks[x]]
<1>1. /\ s.tasks \in [Sessions -> Phases] /\ s.calls \subseteq Ids /\ s.inflight \subseteq Ids
      /\ s.window \in BOOLEAN
  BY DEF PolicyState
<1>2. t = [s EXCEPT !.calls = @ \cup ids, !.tasks = tk]
  BY DEF Submitted
<1>3. tk \in [Sessions -> Phases] BY <1>1 DEF Phases
<1>4. /\ \A x \in Sessions : x \notin Chats => tk[x] = s.tasks[x]
      /\ \A x \in Sessions : s.tasks[x] = "live" => tk[x] = "live"
      /\ \A i \in ids : c[i].session \in Chats /\ Planning(c, i) =>
               tk[c[i].session] = "live"
  BY DEF Sessions
<1> HIDE DEF tk
<1>5. /\ t.calls = s.calls \cup ids /\ t.inflight = s.inflight /\ t.window = s.window
      /\ t.tasks = tk
  BY <1>2 DEF PolicyState
<1>6. t \in PolicyState
  <2>1. s.calls \cup ids \in SUBSET Ids BY <1>1
  <2> QED BY <2>1, <1>2, <1>3 DEF PolicyState
<1> QED BY <1>4, <1>5, <1>6

(* What the lock still keeps waits for another call of its session.        *)
LEMMA LetsIn ==
  ASSUME EnvOK', NEW c, CallsOK(c)', NEW ids, ids = LetIn(c),
         NEW d, d = Entered(c, ids)
  PROVE  WaitersKept(d)' /\ ids \subseteq Waiting(c) /\ (Off => ids = Waiting(c))
<1>0. ids \subseteq Waiting(c) /\ (Off => ids = Waiting(c)) BY DEF LetIn
<1>1. ids \subseteq LiveCalls(c) BY <1>0 DEF Waiting
<1>2. /\ Alike(c, d)
      /\ \A i \in LiveCalls(c) : d[i].lock_waiting <=> c[i].lock_waiting /\ i \notin ids
  <2>1. c \in [Ids -> Call \cup {NoCall}] BY DEF CallsOK
  <2> QED BY <2>1, <1>1, EnteredIs
<1>3. \A i \in LiveCalls(c) : /\ Planning(d, i) = Planning(c, i)
                              /\ d[i].session = c[i].session /\ d[i].park_fenced = c[i].park_fenced
  BY <1>2, StaticMeans DEF Alike, Static
<1>4. ASSUME NEW i \in LiveCalls(d), d[i].lock_waiting, ~d[i].park_fenced
      PROVE  LockKeeps(d, i)'
  <2>1. i \in LiveCalls(c) /\ i \in Waiting(c) /\ i \notin ids
    BY <1>2, <1>3, <1>4 DEF Alike, Waiting
  <2> DEFINE x == c[i].session
  <2>2. /\ Planning(c, i) /\ i \in TurnOf(c, x)
        /\ Busy(c, x) \/ i \notin Earliest(c, TurnOf(c, x))
    BY <2>1 DEF LetIn, TurnOf
  <2>3. \E j \in LiveCalls(c) : /\ j # i /\ c[j].session = x /\ Planning(c, j)
                                /\ ~d[j].lock_waiting
    <3>1. CASE Busy(c, x)
      <4>1. PICK j \in Of(c, x) : ~c[j].lock_waiting /\ Planning(c, j) BY <3>1 DEF Busy
      <4>2. j \in LiveCalls(c) /\ c[j].session = x BY DEF Of
      <4>3. j # i BY <2>1, <4>1 DEF Waiting
      <4> QED BY <4>1, <4>2, <4>3, <1>2
    <3>2. CASE ~Busy(c, x)
      <4>1. /\ TurnOf(c, x) \subseteq LiveCalls(c) /\ TurnOf(c, x) # {}
            /\ \A j \in TurnOf(c, x) : c[j].session = x /\ Planning(c, j) /\ j \in Waiting(c)
        BY <2>2 DEF TurnOf, Waiting
      <4>2. submitted' \in Nat /\ \A j \in LiveCalls(c) : c[j].at \in 1 .. submitted'
        BY DEF EnvOK, CallsOK
      <4>3. PICK j \in Earliest(c, TurnOf(c, x)) : j \in TurnOf(c, x)
        BY <4>1, <4>2, FirstExists
      <4>4. j \in ids BY <3>2, <4>1, <4>3 DEF LetIn
      <4>5. j # i /\ j \in LiveCalls(c) BY <2>1, <4>4, <1>1
      <4> QED BY <4>1, <4>3, <4>4, <4>5, <1>2
    <3> QED BY <3>1, <3>2
  <2>4. \E j \in LiveCalls(d) : Sibling(d, i, j) /\ Planning(d, j) /\ ~d[j].lock_waiting
    BY <2>1, <2>3, <1>2, <1>3 DEF Sibling, Alike
  <2>5. Planning(d, i) BY <2>1, <2>2, <1>3
  <2> QED BY <2>4, <2>5, <1>4 DEF LockKeeps
<1> QED BY <1>0, <1>4 DEF WaitersKept

(* The calls let in, and the policy's table that now counts them.          *)
LEMMA EnteredReady ==
  ASSUME EnvOK', policy' = policy, closed' = closed, lock' # "foreign", ~Off,
         NEW k, NEW c, NEW s, Good(k, c, s)', NEW ids, ids \subseteq Waiting(c),
         NEW d, d = Entered(c, ids), NEW t, t = Submitted(d, s, ids)
  PROVE  Ready(k, d, t)' /\ SameWorkers(s, t)
<1>0. /\ CallsOK(c)' /\ s \in PolicyState /\ StillOut(k, c) /\ ~closed'
      /\ c \in [Ids -> Call \cup {NoCall}] /\ ~Off'
  BY DEF Good, Base, CallsOK, Off
<1>1. Matched(c, s) /\ Within(k, c, s)' BY <1>0 DEF Good
<1>2. ids \subseteq LiveCalls(c) /\ ids \subseteq Ids BY DEF Waiting, LiveCalls
<1>3. /\ d \in [Ids -> Call \cup {NoCall}] /\ Alike(c, d)
      /\ \A i \in LiveCalls(c) : /\ d[i].admitted = c[i].admitted
                                 /\ d[i].lock_waiting <=> c[i].lock_waiting /\ i \notin ids
  BY <1>0, <1>2, EnteredIs
<1>4. /\ LiveCalls(d) = LiveCalls(c)
      /\ \A i \in LiveCalls(c) :
        /\ IsLane(d, i) = IsLane(c, i) /\ IsHoldable(d, i) = IsHoldable(c, i)
        /\ Planning(d, i) = Planning(c, i) /\ TaskOf(d, i) = TaskOf(c, i)
        /\ d[i].session = c[i].session /\ d[i].at = c[i].at
        /\ d[i].park_fenced = c[i].park_fenced
  BY <1>3, StaticMeans DEF Alike, Static
<1>5. /\ t \in PolicyState /\ t.calls = s.calls \cup ids
      /\ t.inflight = s.inflight /\ t.window = s.window
      /\ \A x \in Sessions : x \notin Chats => t.tasks[x] = s.tasks[x]
      /\ \A x \in Sessions : s.tasks[x] = "live" => t.tasks[x] = "live"
      /\ \A i \in ids : d[i].session \in Chats /\ Planning(d, i) =>
            t.tasks[d[i].session] = "live"
  BY <1>0, <1>2, SubmittedIs
<1>6. Flying(d) = Flying(c) /\ Sent(k, d) = Sent(k, c)
  BY <1>3, <1>4 DEF Flying, Sent
<1>7. CallsOK(d)'
  <2>1. IsFiniteSet(LiveCalls(d)) BY <1>0, <1>4 DEF CallsOK
  <2>2. \A i \in LiveCalls(d) : d[i].at \in 1 .. submitted' BY <1>0, <1>4 DEF CallsOK
  <2>3. \A i, j \in LiveCalls(d) : d[i].at = d[j].at => i = j BY <1>0, <1>4 DEF CallsOK
  <2>4. \A i \in LiveCalls(d) :
          /\ IsLane(d, i) => d[i].session \in Chats /\ Planning(d, i)
          /\ d[i].admitted => ~d[i].lock_waiting /\ ~d[i].park_fenced
    BY <1>0, <1>3, <1>4 DEF CallsOK
  <2> QED BY <2>1, <2>2, <2>3, <2>4, <1>3 DEF CallsOK
<1>8. Base(k, d, t)'
  <2>1. StillOut(k, d) BY <1>0, <1>3, <1>4 DEF StillOut
  <2>2. OffSound(d)' BY <1>0 DEF OffSound
  <2>3. ((~closed /\ Sent(k, d) # {}) => lock # "foreign")' OBVIOUS
  <2> QED BY <2>1, <2>2, <2>3, <1>5, <1>7 DEF Base, StillOut
<1>9. Matched(d, t)
  <2>1. t.calls = {i \in LiveCalls(d) : ~d[i].lock_waiting /\ ~d[i].park_fenced}
    <3>1. \A i \in ids : ~d[i].park_fenced /\ ~d[i].lock_waiting
      BY <1>2, <1>3, <1>4 DEF Waiting
    <3>2. s.calls = {i \in LiveCalls(c) : ~c[i].lock_waiting /\ ~c[i].park_fenced}
      BY <1>1 DEF Matched
    <3>3. \A i \in LiveCalls(d) : i \in t.calls <=> ~d[i].lock_waiting /\ ~d[i].park_fenced
      BY <3>1, <3>2, <1>3, <1>4, <1>5
    <3>4. t.calls \subseteq LiveCalls(d) BY <3>2, <1>2, <1>4, <1>5
    <3> QED BY <3>3, <3>4
  <2>2. t.inflight = Flying(d) BY <1>1, <1>5, <1>6 DEF Matched
  <2>3. \A i, j \in t.inflight : IsLane(d, i) /\ IsLane(d, j) => i = j
    <3>1. t.inflight \subseteq LiveCalls(c) BY <2>2, <1>4 DEF Flying
    <3> QED BY <3>1, <1>1, <1>4, <1>5 DEF Matched
  <2>4. \A i \in t.calls :
          d[i].session \in Chats /\ Planning(d, i) => t.tasks[d[i].session] = "live"
    <3> SUFFICES ASSUME NEW i \in s.calls, d[i].session \in Chats, Planning(d, i)
                 PROVE  t.tasks[d[i].session] = "live"
      BY <1>5
    <3>1. i \in LiveCalls(c) BY <1>1 DEF Matched
    <3>2. s.tasks[d[i].session] = "live" BY <3>1, <1>1, <1>4 DEF Matched
    <3> QED BY <3>2, <1>5 DEF Sessions
  <2> QED BY <2>1, <2>2, <2>3, <2>4 DEF Matched
<1>10. Passed(d, t)' BY DEF Passed
<1>11. Within(k, d, t)'
  <2>1. \A f \in SUBSET Flying(d) : /\ Planned(d, f) = Planned(c, f)
                                    /\ Lower(d, f)' = Lower(c, f)'
                                    /\ Focused(d, t, f) <=> Focused(c, s, f)
    BY <1>4, <1>5, <1>6 DEF Planned, Lower, Focused, Flying
  <2>2. Sent(k, c) \in SUBSET Flying(d) /\ Flying(d) \in SUBSET Flying(d)
        /\ Flying(d) \ Sent(k, c) \in SUBSET Flying(d)
    BY <1>6 DEF Sent
  <2>3. /\ Planned(d, Sent(k, d)) = Planned(c, Sent(k, c))
        /\ Lower(d, Sent(k, d))' = Lower(c, Sent(k, c))'
        /\ Planned(d, Flying(d)) = Planned(c, Flying(c))
        /\ Lower(d, Flying(d))' = Lower(c, Flying(c))'
        /\ Focused(d, t, Flying(d)) <=> Focused(c, s, Flying(c))
        /\ Focused(d, t, Flying(d) \ Sent(k, d)) <=> Focused(c, s, Flying(c) \ Sent(k, c))
    BY <2>1, <2>2, <1>6
  <2> QED BY <1>1, <2>3 DEF Within
<1>12. SameWorkers(s, t) BY <1>5, GateAssumption DEF SameWorkers, Sessions
<1> QED BY <1>8, <1>9, <1>10, <1>11, <1>12 DEF Ready

(* The lock's end leaves a good point, and nothing waits for it in vain.   *)
LEMMA Releases ==
  ASSUME EnvOK', policy' = policy, closed' = closed, state \in PolicyState,
         lock' # "foreign",
         NEW k, NEW r, NEW c, NEW s, c = r.calls, s = r.state, Good(k, c, s)',
         NEW a, a \in ReleaseLockWaiters(r)
  PROVE  /\ Good(k, a.calls, a.state)' /\ WaitersKept(a.calls)'
         /\ Onward(c, a.calls) /\ LiveCalls(a.calls) = LiveCalls(c)
         /\ ~Off => SameWorkers(s, a.state)
<1>0. /\ CallsOK(c)' /\ s \in PolicyState /\ StillOut(k, c) /\ OffSound(c)'
      /\ c \in [Ids -> Call \cup {NoCall}]
  BY DEF Good, Base, CallsOK
<1>1. PICK ids, d : ids = LetIn(c) /\ d = Entered(c, ids) OBVIOUS
<1>2. WaitersKept(d)' /\ ids \subseteq Waiting(c) /\ (Off => ids = Waiting(c))
  BY <1>0, <1>1, LetsIn
<1>3. ids \subseteq LiveCalls(c) BY <1>2 DEF Waiting
<1>4. /\ d \in [Ids -> Call \cup {NoCall}] /\ Alike(c, d)
      /\ \A i \in LiveCalls(c) : /\ d[i].admitted = c[i].admitted
                                 /\ d[i].lock_waiting <=> c[i].lock_waiting /\ i \notin ids
      /\ ids = {} => d = c
  BY <1>0, <1>1, <1>3, EnteredIs
<1>5. ReleaseLockWaiters(r) =
            IF Off THEN {Both(Admit(d, ids), s)}
            ELSE IF ids = {} THEN {r} ELSE Transition(d, Submitted(d, s, ids))
  BY <1>1, ReleaseIs
<1>6. Onward(c, d) BY <1>4 DEF Onward, Alike
<1>7. PICK e, u : e = a.calls /\ u = a.state OBVIOUS
<1>8. CASE Off
  <2>1. e = Admit(d, ids) /\ u = s BY <1>5, <1>7, <1>8 DEF Both
  <2>2. ids = Waiting(c) BY <1>2, <1>8
  <2>3. LiveCalls(d) = LiveCalls(c)
        /\ \A i \in ids : ~d[i].park_fenced /\ ~d[i].lock_waiting
    <3>1. \A i \in ids : d[i].park_fenced = c[i].park_fenced
      BY <1>3, <1>4 DEF Alike, Static
    <3> QED BY <3>1, <2>2, <1>4 DEF Waiting, Alike
  <2>4. /\ e \in [Ids -> Call \cup {NoCall}] /\ Alike(d, e)
        /\ \A i \in LiveCalls(d) :
              /\ e[i].lock_waiting = d[i].lock_waiting
              /\ e[i].admitted <=> d[i].admitted \/ i \in ids
    BY <2>1, <2>3, <1>3, <1>4, AdmitIs
  <2>5. LiveCalls(e) = LiveCalls(c) /\ \A i \in LiveCalls(c) : Static(c, e, i)
    BY <2>3, <2>4, <1>4 DEF Alike, Static
  <2>6. \A i \in LiveCalls(c) : /\ e[i].lock_waiting <=> c[i].lock_waiting /\ i \notin ids
                                /\ e[i].admitted <=> c[i].admitted \/ i \in ids
    BY <2>3, <2>4, <1>4
  <2>7. \A i \in LiveCalls(c) :
        /\ IsLane(e, i) = IsLane(c, i) /\ Planning(e, i) = Planning(c, i)
        /\ e[i].session = c[i].session /\ e[i].at = c[i].at
        /\ e[i].park_fenced = c[i].park_fenced
    BY <2>5, StaticMeans DEF Static
  <2>8. CallsOK(e)'
    <3>1. IsFiniteSet(LiveCalls(e)) BY <1>0, <2>5 DEF CallsOK
    <3>2. \A i \in LiveCalls(e) : e[i].at \in 1 .. submitted' BY <1>0, <2>5, <2>7 DEF CallsOK
    <3>3. \A i, j \in LiveCalls(e) : e[i].at = e[j].at => i = j BY <1>0, <2>5, <2>7 DEF CallsOK
    <3>4. \A i \in LiveCalls(e) : IsLane(e, i) => e[i].session \in Chats /\ Planning(e, i)
      BY <1>0, <2>5, <2>7 DEF CallsOK
    <3>5. ASSUME NEW i \in LiveCalls(e), e[i].admitted PROVE ~e[i].lock_waiting /\ ~e[i].park_fenced
      <4>1. i \in LiveCalls(c) BY <2>5
      <4>2. CASE i \in ids BY <4>1, <4>2, <2>2, <2>6, <2>7 DEF Waiting
      <4>3. CASE i \notin ids BY <4>1, <4>3, <3>5, <1>0, <2>6, <2>7 DEF CallsOK
      <4> QED BY <4>2, <4>3
    <3> QED BY <3>1, <3>2, <3>3, <3>4, <3>5, <2>4 DEF CallsOK
  <2>9. OffSound(e)'
    <3>1. \A i \in LiveCalls(e) : e[i].admitted \/ (e[i].lock_waiting /\ ~closed')
      BY <1>0, <1>8, <2>5, <2>6 DEF OffSound, Off
    <3> QED BY <3>1 DEF OffSound
  <2>10. StillOut(k, e) BY <1>0, <2>5, <2>6 DEF StillOut
  <2>11. Good(k, e, u)'
    <3>1. ((~closed /\ Sent(k, e) # {}) => lock # "foreign")' OBVIOUS
    <3>2. Off' BY <1>8 DEF Off
    <3> QED BY <3>1, <3>2, <2>1, <2>8, <2>9, <2>10, <1>0 DEF Good, Base, StillOut
  <2>12. WaitersKept(e)'
    <3>1. \A i \in LiveCalls(e) : ~(e[i].lock_waiting /\ ~e[i].park_fenced)
      BY <2>2, <2>5, <2>6, <2>7 DEF Waiting
    <3> QED BY <3>1 DEF WaitersKept
  <2>13. Onward(c, e) BY <2>5, <2>6 DEF Onward
  <2> QED BY <2>5, <2>11, <2>12, <2>13, <1>7, <1>8
<1>9. CASE ~Off /\ ids = {}
  <2>1. a = r BY <1>5, <1>9
  <2>2. e = c /\ u = s /\ d = c BY <2>1, <1>4, <1>7, <1>9
  <2>3. SameWorkers(s, s) BY DEF SameWorkers
  <2>4. Good(k, e, u)' BY <2>2
  <2>5. WaitersKept(e)' BY <2>2, <1>2
  <2> QED BY <2>2, <2>3, <2>4, <2>5, <1>7, OnwardSelf
<1>10. CASE ~Off /\ ids # {}
  <2>1. PICK t : t = Submitted(d, s, ids) OBVIOUS
  <2>2. a \in Transition(d, t) BY <2>1, <1>5, <1>10
  <2>3. Ready(k, d, t)' /\ SameWorkers(s, t) BY <2>1, <1>1, <1>2, <1>10, EnteredReady
  <2>4. /\ Good(k, e, u)' /\ Onward(d, e) /\ Alike(d, e)
        /\ \A j \in LiveCalls(d) : e[j].lock_waiting = d[j].lock_waiting
        /\ u.tasks = t.tasks
    BY <2>2, <2>3, <1>7, <1>10, Transits
  <2>5. WaitersKept(e)' BY <2>4, <1>2, AlikeWaits
  <2>6. Onward(c, e) BY <2>4, <1>6, OnwardFrom
  <2>7. LiveCalls(e) = LiveCalls(c) BY <2>4, <1>4 DEF Alike
  <2>8. SameWorkers(s, u) BY <2>3, <2>4 DEF SameWorkers
  <2> QED BY <2>4, <2>5, <2>6, <2>7, <2>8, <1>7
<1> QED BY <1>8, <1>9, <1>10

(* The end of a call, and of the lock's hold on the next one's.            *)
LEMMA Finishes ==
  ASSUME EnvOK', policy' = policy, closed' = closed, state \in PolicyState,
         NEW k, NEW r, NEW c, NEW s, c = r.calls, s = r.state, Good(k, c, s)',
         NEW i, i \in LiveCalls(c), i \in Flying(c) => Sent(k, c) = {},
         NEW a, a \in CallFinished(r, i)
  PROVE  /\ Good(k, a.calls, a.state)' /\ WaitersKept(a.calls)'
         /\ Onward(c, a.calls) /\ LiveCalls(a.calls) = LiveCalls(c) \ {i}
         /\ ~Off => SameWorkers(s, a.state)
<1>1. CASE lock' = "foreign" \/ closed
  <2>1. a \in Left(r, i) BY <1>1 DEF CallFinished
  <2>2. PICK e, u : e = a.calls /\ u = a.state OBVIOUS
  <2>3. /\ Good(k, e, u)' /\ Onward(c, e) /\ LiveCalls(e) = LiveCalls(c) \ {i}
        /\ ~Off => SameWorkers(s, u)
    <3>1. /\ Good(k, a.calls, a.state)' /\ Onward(c, a.calls)
          /\ LiveCalls(a.calls) = LiveCalls(c) \ {i}
          /\ ~Off => SameWorkers(s, a.state)
      BY <2>1, Leaves, SMTT(30)
    <3> QED BY <2>2, <3>1
  <2>4. WaitersKept(e)'
    <3>1. CASE lock' = "foreign" BY <3>1 DEF WaitersKept, LockKeeps
    <3>2. CASE closed
      <4>1. closed' /\ OffSound(e)' /\ CallsOK(e)' BY <3>2, <2>3 DEF Good, Base
      <4>2. \A j \in LiveCalls(e) : ~e[j].lock_waiting
        BY <4>1 DEF OffSound, CallsOK, Off
      <4> QED BY <4>2 DEF WaitersKept
    <3> QED BY <1>1, <3>1, <3>2
  <2> QED BY <2>2, <2>3, <2>4
<1>2. CASE lock' # "foreign" /\ ~closed
  <2>1. PICK b \in Left(r, i) : a \in ReleaseLockWaiters(b)
    BY <1>2 DEF CallFinished
  <2>2. PICK e, u : e = b.calls /\ u = b.state OBVIOUS
  <2>3. /\ Good(k, e, u)' /\ Onward(c, e) /\ LiveCalls(e) = LiveCalls(c) \ {i}
        /\ ~Off => SameWorkers(s, u)
    <3>1. /\ Good(k, b.calls, b.state)' /\ Onward(c, b.calls)
          /\ LiveCalls(b.calls) = LiveCalls(c) \ {i}
          /\ ~Off => SameWorkers(s, b.state)
      BY Leaves, SMTT(30)
    <3> QED BY <2>2, <3>1
  <2>4. /\ Good(k, a.calls, a.state)' /\ WaitersKept(a.calls)'
        /\ Onward(e, a.calls) /\ LiveCalls(a.calls) = LiveCalls(e)
        /\ ~Off => SameWorkers(u, a.state)
    BY <2>1, <2>2, <2>3, <1>2, Releases
  <2>5. Onward(c, a.calls) BY <2>3, <2>4, OnwardFrom
  <2>6. ~Off => SameWorkers(s, a.state) BY <2>3, <2>4 DEF SameWorkers
  <2> QED BY <2>3, <2>4, <2>5, <2>6
<1> QED BY <1>1, <1>2

----------------------------------------------------------------------------
(* Where a handler begins and ends. *)

(* What AdmittedWithinLimits says of a step from k to c and s.             *)
Kept(k, c, s) ==
    /\ (Sent(k, c) # {} /\ ~closed) => lock' # "foreign"
    /\ Enforced => /\ Cardinality({i \in Flying(c) : IsLane(c, i)}) <= 1
                   /\ Within(k, c, s)'

LimitsStep == \E k, c, s : k = calls /\ c = calls' /\ s = state' /\ Kept(k, c, s)

LEMMA ForeignWaits ==
  ASSUME NEW c, lock' = "foreign"
  PROVE  WaitersKept(c)'
BY DEF WaitersKept, LockKeeps

LEMMA KnownOn ==
  ASSUME NEW s, NEW t, SameWorkers(s, t), Known(s)'
  PROVE  Known(t)'
BY DEF SameWorkers, Known

(* A handler that ends at a good point keeps the invariant.                *)
LEMMA Closes ==
  ASSUME EnvOK', policy' = policy, closed' = closed, NEW k, NEW c, NEW s,
         k = calls, c = calls', s = state', Good(k, c, s)', WaitersKept(c)',
         Due(c, {})', ~Off => Known(s)'
  PROVE  GateInv' /\ LimitsStep
<1>0. Off' <=> Off BY DEF Off
<1>1. /\ CallsOK(c)' /\ s \in PolicyState /\ OffSound(c)'
      /\ (~closed' /\ Sent(k, c) # {}) => lock' # "foreign"
      /\ ~Off' => Matched(c, s) /\ Decided(c, s)' /\ Within(k, c, s)'
  BY DEF Good, Base
<1>2. GateInv'
  <2>1. CallsOK(calls)' BY <1>1 DEF CallsOK
  <2>2. (state \in PolicyState)' BY <1>1 DEF PolicyState
  <2>3. (~Off => Matched(calls, state))' BY <1>1 DEF Matched
  <2>4. (~Off => Known(state))' BY <1>0 DEF Known
  <2>5. (~Off => Decided(calls, state))' BY <1>1 DEF Decided, PolicyKeeps
  <2>6. WaitersKept(calls)' BY DEF WaitersKept, LockKeeps
  <2>7. OffSound(calls)' BY <1>1 DEF OffSound
  <2>8. Due(calls, {})' BY DEF Due
  <2> QED BY <2>1, <2>2, <2>3, <2>4, <2>5, <2>6, <2>7, <2>8 DEF GateInv
<1>3. LimitsStep
  <2>1. ASSUME Enforced PROVE Cardinality({i \in Flying(c) : IsLane(c, i)}) <= 1
    <3>1. Matched(c, s) BY <1>0, <1>1, <2>1 DEF Enforced, Off
    <3>2. \A i, j \in {l \in Flying(c) : IsLane(c, l)} : i = j BY <3>1 DEF Matched
    <3> QED BY <3>2, AtMostOne
  <2>2. Enforced => Within(k, c, s)' BY <1>0, <1>1 DEF Enforced, Off
  <2>3. Kept(k, c, s) BY <1>1, <2>1, <2>2 DEF Kept
  <2> QED BY <2>3 DEF LimitsStep
<1> QED BY <1>2, <1>3

LEMMA SentNone ==
  ASSUME NEW k, NEW s
  PROVE  Sent(k, k) = {} /\ StillOut(k, k) /\ Within(k, k, s)'
<1>1. Sent(k, k) = {} BY DEF Sent, Flying
<1>2. StillOut(k, k) BY DEF StillOut
<1>3. Planned(k, Sent(k, k)) = {} /\ Lower(k, Sent(k, k))' = {}
  BY <1>1 DEF Planned, Lower
<1> QED BY <1>1, <1>2, <1>3 DEF Within

(* What the invariant says, of rigid copies of the tables.                 *)
LEMMA Opened ==
  ASSUME GateInv, policy' = policy, closed' = closed, submitted' = submitted,
         NEW k, NEW s, k = calls, s = state
  PROVE  /\ CallsOK(k)' /\ s \in PolicyState /\ OffSound(k)'
         /\ ~Off => Matched(k, s) /\ Known(s) /\ Decided(k, s)
         /\ WaitersKept(k) /\ Due(k, {})
<1>0. Off' <=> Off BY DEF Off
<1>1. CallsOK(k)' BY DEF GateInv, CallsOK
<1>2. s \in PolicyState BY DEF GateInv
<1>3. OffSound(k)' BY <1>0 DEF GateInv, OffSound
<1>4. ~Off => Matched(k, s) BY DEF GateInv
<1>5. ~Off => Known(s) BY DEF GateInv
<1>6. ~Off => Decided(k, s) BY DEF GateInv
<1>7. WaitersKept(k) BY DEF GateInv
<1>8. Due(k, {}) BY DEF GateInv
<1> QED BY <1>1, <1>2, <1>3, <1>4, <1>5, <1>6, <1>7, <1>8

(* A handler may change a task or the window before it decides, as long as *)
(* no call whose task was over could be let out by that.                   *)
LEMMA Opens ==
  ASSUME GateInv, policy' = policy, closed' = closed, submitted' = submitted,
         NEW k, NEW s, k = calls, s = state,
         NEW t, t \in PolicyState, t.calls = s.calls, t.inflight = s.inflight,
         \A x \in Chats : t.tasks[x] = s.tasks[x],
         \A i \in LiveCalls(k) : ~k[i].admitted /\ Dead(k, s, i) => Dead(k, t, i)
  PROVE  Ready(k, k, t)'
<1>0. Off' <=> Off BY DEF Off
<1>1. /\ CallsOK(k)' /\ OffSound(k)'
      /\ ~Off => Matched(k, s) /\ Decided(k, s)
  BY Opened
<1>2. Base(k, k, t)' BY <1>1, SentNone DEF Base, StillOut
<1>3. ASSUME ~Off PROVE Matched(k, t) /\ Passed(k, t)'
  <2>1. Matched(k, t) BY <1>1, <1>3 DEF Matched
  <2>2. \A i \in t.calls \ t.inflight : Dead(k, t, i) \/ Planning(k, i)
    <3>1. \A i \in t.calls \ t.inflight : i \in LiveCalls(k) /\ ~k[i].admitted
      BY <2>1, Pending
    <3> QED BY <3>1, <1>1, <1>3 DEF Decided
  <2> QED BY <2>1, <2>2 DEF Passed
<1> QED BY <1>0, <1>2, <1>3, SentNone DEF Ready

(* A handler that decides nothing begins at a good point.                  *)
LEMMA Stays ==
  ASSUME GateInv, policy' = policy, closed' = closed, submitted' = submitted,
         lock' = lock, NEW k, NEW s, k = calls, s = state,
         NEW t, t \in PolicyState, t.calls = s.calls, t.inflight = s.inflight,
         \A i \in LiveCalls(k) :
            /\ t.tasks[k[i].session] = s.tasks[k[i].session]
            /\ s.tasks[k[i].session] = "live" =>
                  /\ k[i].session \in urgent' <=> k[i].session \in urgent
                  /\ k[i].session \in paused => k[i].session \in paused'
  PROVE  Good(k, k, t)'
<1>0. Off' <=> Off BY DEF Off
<1>1. /\ CallsOK(k)' /\ OffSound(k)'
      /\ ~Off => Matched(k, s) /\ Decided(k, s)
  BY Opened
<1>2. Base(k, k, t)' BY <1>1, SentNone DEF Base, StillOut
<1>3. ASSUME ~Off PROVE Matched(k, t) /\ Decided(k, t)'
  <2>0. s.calls \subseteq LiveCalls(k) /\ s.inflight = Flying(k)
    BY <1>1, <1>3 DEF Matched
  <2>1. Matched(k, t)
    <3>1. \A i \in t.calls :
             k[i].session \in Chats /\ Planning(k, i) => t.tasks[k[i].session] = "live"
      BY <2>0, <1>1, <1>3 DEF Matched
    <3> QED BY <3>1, <1>1, <1>3 DEF Matched
  <2>2. \A i \in LiveCalls(k) : Dead(k, s, i) <=> Dead(k, t, i) BY DEF Dead, TaskOf
  <2>3. ASSUME NEW i \in LiveCalls(k), PolicyKeeps(k, s, i)
        PROVE  PolicyKeeps(k, t, i)'
    <3> DEFINE low == {j \in NonLane(k, Flying(k)) : LET x == TaskOf(k, j) IN
                         x = NoSession \/ s.tasks[x] # "live" \/ x \notin urgent}
               next == {j \in NonLane(k, Flying(k)) : LET x == TaskOf(k, j) IN
                         x = NoSession \/ t.tasks[x] # "live" \/ x \notin urgent'}
    <3>1. \A j \in NonLane(k, Flying(k)) :
            TaskOf(k, j) = k[j].session \/ TaskOf(k, j) = NoSession
      BY DEF TaskOf
    <3>2. \A j \in NonLane(k, Flying(k)) : j \in LiveCalls(k) BY DEF NonLane, Flying
    <3>3. low = next BY <3>1, <3>2
    <3>4. /\ IsHoldable(k, i) /\ s.tasks[k[i].session] = "live"
          /\ \/ k[i].session \in paused
             \/ \E j \in s.calls : Sibling(k, i, j)
             \/ Cardinality(NonLane(k, Flying(k))) >= Limit
             \/ k[i].session \notin urgent /\ Cardinality(low) >= LowestCap
      BY <2>3 DEF PolicyKeeps
    <3>5. /\ IsHoldable(k, i) /\ t.tasks[k[i].session] = "live"
          /\ \/ k[i].session \in paused'
             \/ \E j \in t.calls : Sibling(k, i, j)
             \/ Cardinality(NonLane(k, Flying(k))) >= Limit
             \/ k[i].session \notin urgent' /\ Cardinality(next) >= LowestCap
      <4> HIDE DEF low, next
      <4> QED BY <3>3, <3>4
    <3> QED BY <3>5 DEF PolicyKeeps
  <2>4. Decided(k, t)'
    BY <2>0, <2>2, <2>3, <1>1, <1>3 DEF Decided
  <2> QED BY <2>1, <2>4
<1> QED BY <1>0, <1>2, <1>3, SentNone DEF Good

(* What a decision leaves closes the handler, when the lock is as it was.  *)
LEMMA DecidesLast ==
  ASSUME EnvOK', policy' = policy, closed' = closed, state \in PolicyState,
         NEW k, k = calls, NEW c, NEW s, Ready(k, c, s)', WaitersKept(c)', Due(c, {})',
         ~Off => Known(s)', Results(Transition(c, s))
  PROVE  GateInv' /\ LimitsStep
<1>1. PICK r \in Transition(c, s) : calls' = r.calls /\ state' = r.state
  BY DEF Results
<1>2. PICK d, t : d = r.calls /\ t = r.state OBVIOUS
<1>3. /\ Good(k, d, t)' /\ Onward(c, d) /\ Alike(c, d)
      /\ \A i \in LiveCalls(c) : d[i].lock_waiting = c[i].lock_waiting
      /\ ~Off => t.tasks = s.tasks
  BY <1>1, <1>2, Transits
<1>4. WaitersKept(d)' BY <1>3, AlikeWaits
<1>5. Due(d, {})' BY <1>3, OnwardDue
<1>6. ~Off => Known(t)'
  <2>1. ~Off => SameWorkers(s, t) BY <1>3 DEF SameWorkers
  <2> QED BY <2>1, KnownOn
<1>7. d = calls' /\ t = state' BY <1>1, <1>2
<1> QED BY <1>3, <1>4, <1>5, <1>6, <1>7, Closes

LEMMA SameReasons ==
  ASSUME GateInv, policy' = policy, closed' = closed, submitted' = submitted,
         registry' = registry, NEW k, NEW s, k = calls, s = state
  PROVE  /\ lock' = lock => WaitersKept(k)'
         /\ Due(k, {})' /\ (~Off => Known(s)')
<1>1. WaitersKept(k) /\ Due(k, {}) /\ (~Off => Known(s)) BY Opened
<1>2. lock' = lock => WaitersKept(k)' BY <1>1 DEF WaitersKept, LockKeeps
<1>3. Due(k, {})' BY <1>1 DEF Due
<1>4. ~Off => Known(s)' BY <1>1 DEF Known
<1> QED BY <1>2, <1>3, <1>4

(* A closed gate has let every call out.                                   *)
LEMMA ClosedKept ==
  ASSUME GateInv, closed, policy' = policy, closed' = closed, submitted' = submitted,
         NEW k, k = calls, NEW s, s \in PolicyState
  PROVE  Good(k, k, s)' /\ WaitersKept(k)' /\ Due(k, {})'
<1>0. Off' BY DEF Off
<1>1. CallsOK(k)' /\ OffSound(k)'
  <2>1. PICK u : u = state OBVIOUS
  <2> QED BY <2>1, Opened
<1>2. Good(k, k, s)' BY <1>0, <1>1, SentNone DEF Good, Base, StillOut
<1>3. \A i \in LiveCalls(k) : k[i].admitted /\ ~k[i].lock_waiting
  BY <1>0, <1>1 DEF OffSound, CallsOK
<1>4. WaitersKept(k)' BY <1>3 DEF WaitersKept
<1>5. Due(k, {})' BY <1>3 DEF Due
<1> QED BY <1>2, <1>4, <1>5

LEMMA FinishStep ==
  ASSUME GateInv, NEW i \in Ids, FinishCall(i)
  PROVE  GateInv' /\ LimitsStep
<1>0. PICK k, s : k = calls /\ s = state OBVIOUS
<1>1. /\ policy' = policy /\ closed' = closed /\ submitted' = submitted
      /\ registry' = registry /\ urgent' = urgent /\ paused' = paused
      /\ lock' = lock /\ focus' = focus /\ i \in LiveCalls(k)
      /\ EnvOK' /\ state \in PolicyState
  BY <1>0 DEF FinishCall, GateInv, EnvOK
<1>2. Good(k, k, s)' BY <1>0, <1>1, Stays
<1>3. Due(k, {})' /\ (~Off => Known(s)') BY <1>0, <1>1, SameReasons
<1>4. PICK r : r = Both(k, s) OBVIOUS
<1>5. PICK a \in CallFinished(r, i) : calls' = a.calls /\ state' = a.state
  BY <1>0, <1>4 DEF FinishCall, Results
<1>6. PICK c, t : c = a.calls /\ t = a.state OBVIOUS
<1>7. r.calls = k /\ r.state = s BY <1>4 DEF Both
<1>8. Sent(k, k) = {} BY SentNone
<1>9. /\ Good(k, c, t)' /\ WaitersKept(c)' /\ Onward(k, c)
      /\ ~Off => SameWorkers(s, t)
  BY <1>1, <1>2, <1>5, <1>6, <1>7, <1>8, Finishes
<1>10. Due(c, {})' BY <1>3, <1>9, OnwardDue
<1>11. ~Off => Known(t)' BY <1>3, <1>9, KnownOn
<1>12. c = calls' /\ t = state' BY <1>5, <1>6
<1> QED BY <1>0, <1>1, <1>9, <1>10, <1>11, <1>12, Closes

LEMMA SetMachineStep ==
  ASSUME GateInv, NEW seen \in {"none", "foreign"}, SetMachine(seen)
  PROVE  GateInv' /\ LimitsStep
<1>0. PICK k, s : k = calls /\ s = state OBVIOUS
<1>1. /\ policy' = policy /\ closed' = closed /\ submitted' = submitted
      /\ registry' = registry /\ urgent' = urgent /\ paused' = paused
      /\ lock' = seen /\ EnvOK' /\ state \in PolicyState
  BY DEF SetMachine, GateInv, EnvOK
<1>2. Due(k, {})' /\ (~Off => Known(s)') BY <1>0, <1>1, SameReasons
<1>3. CASE closed
  <2>1. k = calls' /\ s = state' BY <1>0, <1>3 DEF SetMachine
  <2>2. Good(k, k, s)' /\ WaitersKept(k)' BY <1>0, <1>1, <1>3, ClosedKept
  <2> QED BY <1>0, <1>1, <1>2, <2>1, <2>2, Closes
<1>4. CASE ~closed
  <2>1. Ready(k, k, s)' BY <1>0, <1>1, Opens
  <2>2. CASE seen = "foreign"
    <3>1. Results(Transition(k, s)) BY <1>0, <1>4, <2>2 DEF SetMachine
    <3>2. WaitersKept(k)' BY <1>1, <2>2, ForeignWaits
    <3> QED BY <1>0, <1>1, <1>2, <2>1, <3>1, <3>2, DecidesLast
  <2>3. CASE seen # "foreign"
    <3>1. PICK r \in Transition(k, s) :
             \E a \in ReleaseLockWaiters(r) : calls' = a.calls /\ state' = a.state
      BY <1>0, <1>4, <2>3 DEF SetMachine, Results
    <3>2. PICK a \in ReleaseLockWaiters(r) : calls' = a.calls /\ state' = a.state
      BY <3>1
    <3>3. PICK d, u, c, t : d = r.calls /\ u = r.state /\ c = a.calls /\ t = a.state
      OBVIOUS
    <3>4. Good(k, d, u)' /\ Onward(k, d) /\ (~Off => u.tasks = s.tasks)
      BY <1>1, <2>1, <3>3, Transits
    <3>5. /\ Good(k, c, t)' /\ WaitersKept(c)' /\ Onward(d, c)
          /\ ~Off => SameWorkers(u, t)
      BY <1>1, <2>3, <3>2, <3>3, <3>4, Releases
    <3>6. Onward(k, c) BY <3>4, <3>5, OnwardFrom
    <3>7. Due(c, {})' BY <1>2, <3>6, OnwardDue
    <3>8. ~Off => SameWorkers(s, t) BY <3>4, <3>5 DEF SameWorkers
    <3>9. ~Off => Known(t)' BY <1>2, <3>8, KnownOn
    <3>10. c = calls' /\ t = state' BY <3>2, <3>3
    <3> QED BY <1>0, <1>1, <3>5, <3>7, <3>9, <3>10, Closes
  <2> QED BY <2>2, <2>3
<1> QED BY <1>3, <1>4

(* The handlers that decide, and change nothing before but the window.     *)
LEMMA TransitionStep ==
  ASSUME GateInv, EnvOK', policy' = policy, closed' = closed, submitted' = submitted,
         registry' = registry, lock' = lock,
         NEW t, t \in PolicyState, t.calls = state.calls, t.inflight = state.inflight,
         t.tasks = state.tasks, Results(Transition(calls, t))
  PROVE  GateInv' /\ LimitsStep
<1>0. PICK k, s : k = calls /\ s = state OBVIOUS
<1>1. /\ t.calls = s.calls /\ t.inflight = s.inflight /\ t.tasks = s.tasks
      /\ Results(Transition(k, t)) /\ state \in PolicyState
  BY <1>0 DEF GateInv
<1>2. \A i : Dead(k, s, i) => Dead(k, t, i) BY <1>1 DEF Dead
<1>3. Ready(k, k, t)' BY <1>0, <1>1, <1>2, Opens
<1>4. WaitersKept(k)' /\ Due(k, {})' /\ (~Off => Known(s)') BY <1>0, SameReasons
<1>5. ~Off => Known(t)' BY <1>1, <1>4 DEF Known
<1> QED BY <1>0, <1>1, <1>3, <1>4, <1>5, DecidesLast

LEMMA FocusStep ==
  ASSUME GateInv, NEW x \in Chats, Focus(x)
  PROVE  GateInv' /\ LimitsStep
<1>1. /\ policy' = policy /\ closed' = closed /\ submitted' = submitted
      /\ registry' = registry /\ lock' = lock /\ EnvOK'
  BY DEF Focus, GateInv, EnvOK
<1>2. PICK t : t = [state EXCEPT !.window = TRUE] OBVIOUS
<1>3. /\ t \in PolicyState /\ t.calls = state.calls /\ t.inflight = state.inflight
      /\ t.tasks = state.tasks
  BY <1>2 DEF GateInv, PolicyState
<1>4. Results(Transition(calls, t)) BY <1>2 DEF Focus
<1> QED BY <1>1, <1>3, <1>4, TransitionStep

LEMMA SetTaskLevelStep ==
  ASSUME GateInv, NEW w \in Workers, NEW choice, SetTaskLevel(w, choice)
  PROVE  GateInv' /\ LimitsStep
<1>1. /\ policy' = policy /\ closed' = closed /\ submitted' = submitted
      /\ registry' = registry /\ lock' = lock /\ EnvOK'
  BY DEF SetTaskLevel, GateInv, EnvOK, Sessions
<1>2. PICK t : t = state OBVIOUS
<1>3. t \in PolicyState BY <1>2 DEF GateInv
<1>4. Results(Transition(calls, t)) BY <1>2 DEF SetTaskLevel
<1> QED BY <1>1, <1>2, <1>3, <1>4, TransitionStep

LEMMA UpdateTaskStep ==
  ASSUME GateInv, NEW w \in Workers, NEW held, UpdateTask(w, held)
  PROVE  GateInv' /\ LimitsStep
<1>1. /\ policy' = policy /\ closed' = closed /\ submitted' = submitted
      /\ registry' = registry /\ lock' = lock /\ EnvOK'
  BY DEF UpdateTask, GateInv, EnvOK
<1>2. PICK t : t = state OBVIOUS
<1>3. t \in PolicyState BY <1>2 DEF GateInv
<1>4. Results(Transition(calls, t)) BY <1>2 DEF UpdateTask
<1> QED BY <1>1, <1>2, <1>3, <1>4, TransitionStep

(* The handlers that decide nothing.                                       *)
LEMMA StaysStep ==
  ASSUME GateInv, EnvOK', policy' = policy, closed' = closed, submitted' = submitted,
         lock' = lock, calls' = calls, NEW k, NEW s, k = calls, s = state,
         NEW t, t = state', t \in PolicyState, Due(k, {})',
         ~Off => /\ Known(t)' /\ t.calls = s.calls /\ t.inflight = s.inflight
                 /\ \A i \in LiveCalls(k) :
                      /\ t.tasks[k[i].session] = s.tasks[k[i].session]
                      /\ s.tasks[k[i].session] = "live" =>
                           /\ k[i].session \in urgent' <=> k[i].session \in urgent
                           /\ k[i].session \in paused => k[i].session \in paused'
  PROVE  GateInv' /\ LimitsStep
<1>1. WaitersKept(k)'
  <2>1. WaitersKept(k) BY Opened
  <2> QED BY <2>1 DEF WaitersKept, LockKeeps
<1>2. Good(k, k, t)'
  <2>1. CASE ~Off BY <2>1, Stays
  <2>2. CASE Off
    <3>1. CallsOK(k)' /\ OffSound(k)' BY Opened
    <3>2. Off' BY <2>2 DEF Off
    <3> QED BY <3>1, <3>2, SentNone DEF Good, Base, StillOut
  <2> QED BY <2>1, <2>2
<1>3. k = calls' OBVIOUS
<1>4. ~Off => Known(t)' OBVIOUS
<1> QED BY <1>1, <1>2, <1>3, <1>4, Closes

LEMMA WindowLapsesStep ==
  ASSUME GateInv, WindowLapses
  PROVE  GateInv' /\ LimitsStep
<1>0. PICK k, s, t : k = calls /\ s = state /\ t = state' OBVIOUS
<1>1. /\ policy' = policy /\ closed' = closed /\ submitted' = submitted
      /\ registry' = registry /\ lock' = lock /\ urgent' = urgent /\ paused' = paused
      /\ calls' = calls /\ EnvOK'
  BY DEF WindowLapses, GateInv, EnvOK
<1>2. /\ t \in PolicyState /\ t.calls = s.calls /\ t.inflight = s.inflight
      /\ t.tasks = s.tasks
  BY <1>0 DEF WindowLapses, GateInv, PolicyState
<1>3. Due(k, {})' /\ (~Off => Known(s)') BY <1>0, <1>1, SameReasons
<1>4. ~Off => Known(t)' BY <1>2, <1>3 DEF Known
<1> QED BY <1>0, <1>1, <1>2, <1>3, <1>4, StaysStep

LEMMA SetLevelStep ==
  ASSUME GateInv, NEW x \in Chats, SetSessionLevel(x)
  PROVE  GateInv' /\ LimitsStep
<1>0. PICK k, s, t : k = calls /\ s = state /\ t = state' OBVIOUS
<1>1. /\ policy' = policy /\ closed' = closed /\ submitted' = submitted
      /\ registry' = registry /\ lock' = lock /\ paused' = paused /\ EnvOK'
      /\ s \in PolicyState
  BY <1>0 DEF SetSessionLevel, GateInv, EnvOK, Sessions
<1>2. CASE s.tasks[x] = "none"
  <2>1. calls' = calls /\ t = s BY <1>0, <1>2 DEF SetSessionLevel
  <2>2. \A y : y # x => (y \in urgent' <=> y \in urgent) BY DEF SetSessionLevel
  <2>3. Due(k, {})' /\ (~Off => Known(s)') BY <1>0, <1>1, SameReasons
  <2>4. \A i \in LiveCalls(k) : s.tasks[k[i].session] = "live" =>
            (k[i].session \in urgent' <=> k[i].session \in urgent)
    BY <1>2, <2>2
  <2> QED BY <1>0, <1>1, <2>1, <2>3, <2>4, StaysStep
<1>3. CASE s.tasks[x] # "none"
  <2>1. Results(Transition(calls, s)) BY <1>0, <1>3 DEF SetSessionLevel
  <2> QED BY <1>0, <1>1, <2>1, TransitionStep
<1> QED BY <1>2, <1>3

LEMMA ForgetStep ==
  ASSUME GateInv, NEW x \in Sessions, ForgetSession(x)
  PROVE  GateInv' /\ LimitsStep
<1>0. PICK k, s, t : k = calls /\ s = state /\ t = state' OBVIOUS
<1>1. /\ policy' = policy /\ closed' = closed /\ submitted' = submitted
      /\ registry' = registry /\ lock' = lock /\ paused' = paused
      /\ calls' = calls /\ EnvOK' /\ s \in PolicyState
      /\ Of(k, x) = {} /\ (x \in Workers => registry[x] # "live")
  BY <1>0 DEF ForgetSession, GateInv, EnvOK
<1>2. Due(k, {})' /\ (~Off => Known(s)') BY <1>0, <1>1, SameReasons
<1>3. \A i \in LiveCalls(k) : k[i].session # x BY <1>1 DEF Of
<1>4. CASE Off
  <2>1. t = s BY <1>0, <1>4 DEF ForgetSession
  <2> QED BY <1>0, <1>1, <1>2, <1>4, <2>1, StaysStep
<1>5. CASE ~Off
  <2> DEFINE tk == [s.tasks EXCEPT ![x] = "none"]
             cl == {i \in s.calls : TaskOf(k, i) # x}
  <2>1. t = [s EXCEPT !.tasks = tk, !.calls = cl] BY <1>0, <1>5 DEF ForgetSession
  <2>2. /\ s.tasks \in [Sessions -> Phases] /\ s.calls \subseteq Ids
    BY <1>1 DEF PolicyState
  <2>3. /\ tk \in [Sessions -> Phases] /\ \A y \in Sessions : y # x => tk[y] = s.tasks[y]
        /\ tk[x] = "none"
    BY <2>2 DEF Phases
  <2>4. cl = s.calls
    <3>1. Matched(k, s) BY <1>0, <1>1, <1>5, Opened
    <3>2. s.calls \subseteq LiveCalls(k) BY <3>1 DEF Matched
    <3>3. x # NoSession BY GateAssumption
    <3>4. \A i \in s.calls : TaskOf(k, i) # x BY <1>3, <3>2, <3>3 DEF TaskOf
    <3> QED BY <3>4
  <2> HIDE DEF tk, cl
  <2>5. /\ t \in PolicyState /\ t.calls = s.calls /\ t.inflight = s.inflight
        /\ t.tasks = tk
    BY <1>1, <2>1, <2>3, <2>4 DEF PolicyState
  <2>6. Known(t)'
    <3>1. Known(s)' BY <1>2, <1>5
    <3>2. \A w \in Workers : t.tasks[w] = "live" <=> s.tasks[w] = "live"
      <4>1. x \in Workers => s.tasks[x] # "live" BY <1>1, <3>1 DEF Known
      <4> QED BY <4>1, <2>3, <2>5 DEF Sessions
    <3> QED BY <3>1, <3>2 DEF Known
  <2>7. \A i \in LiveCalls(k) : k[i].session \in Sessions
    BY <1>0 DEF GateInv, CallsOK, LiveCalls, Call
  <2>8. \A y : y # x => (y \in urgent' <=> y \in urgent) BY DEF ForgetSession
  <2>9. \A i \in LiveCalls(k) :
          /\ t.tasks[k[i].session] = s.tasks[k[i].session]
          /\ k[i].session \in urgent' <=> k[i].session \in urgent
    BY <1>3, <2>3, <2>5, <2>7, <2>8
  <2> QED BY <1>0, <1>1, <1>2, <2>5, <2>6, <2>9, StaysStep
<1> QED BY <1>4, <1>5

LEMMA DiscardTaskStep ==
  ASSUME GateInv, NEW w \in Workers, DiscardTask(w)
  PROVE  GateInv' /\ LimitsStep
<1>0. PICK k, s, t : k = calls /\ s = state /\ t = state' OBVIOUS
<1>1. /\ policy' = policy /\ closed' = closed /\ submitted' = submitted
      /\ lock' = lock /\ calls' = calls /\ s \in PolicyState
      /\ Of(k, w) = {} /\ registry[w] = "over" /\ registry \in [Workers -> Phases]
      /\ registry' = [registry EXCEPT ![w] = "none"]
      /\ urgent' = urgent \ {w} /\ paused' = paused \ {w}
  BY <1>0 DEF DiscardTask, GateInv, EnvOK
<1>2. registry' \in [Workers -> Phases] /\ registry'[w] = "none"
      /\ \A v \in Workers : v # w => registry'[v] = registry[v]
  BY <1>1 DEF Phases
<1>3. EnvOK' BY <1>1, <1>2 DEF DiscardTask, GateInv, EnvOK
<1>4. \A i \in LiveCalls(k) : k[i].session # w /\ k[i].session \in Sessions
  BY <1>0, <1>1 DEF Of, GateInv, CallsOK, LiveCalls, Call
<1>5. Due(k, {})'
  <2>1. Due(k, {}) BY <1>0, <1>1, Opened
  <2> QED BY <2>1, <1>2, <1>4 DEF Due
<1>6. CASE Off
  <2>1. t = s BY <1>0, <1>6 DEF DiscardTask
  <2> QED BY <1>0, <1>1, <1>3, <1>5, <1>6, <2>1, StaysStep
<1>7. CASE ~Off
  <2> DEFINE tk == [s.tasks EXCEPT ![w] = "none"]
  <2>1. t = [s EXCEPT !.tasks = tk] BY <1>0, <1>7 DEF DiscardTask
  <2>2. s.tasks \in [Sessions -> Phases] /\ w \in Sessions
    BY <1>1 DEF PolicyState, Sessions
  <2>3. /\ tk \in [Sessions -> Phases] /\ \A y \in Sessions : y # w => tk[y] = s.tasks[y]
        /\ tk[w] = "none"
    BY <2>2 DEF Phases
  <2> HIDE DEF tk
  <2>4. /\ t \in PolicyState /\ t.calls = s.calls /\ t.inflight = s.inflight
        /\ t.tasks = tk
    BY <1>1, <2>1, <2>3 DEF PolicyState
  <2>5. Known(t)'
    <3>1. Known(s) BY <1>0, <1>1, <1>7, Opened
    <3>2. \A v \in Workers : registry'[v] = "live" <=> t.tasks[v] = "live"
      BY <3>1, <1>2, <2>3, <2>4 DEF Known, Sessions
    <3> QED BY <3>2 DEF Known
  <2>6. \A i \in LiveCalls(k) :
          /\ t.tasks[k[i].session] = s.tasks[k[i].session]
          /\ k[i].session \in urgent' <=> k[i].session \in urgent
          /\ k[i].session \in paused => k[i].session \in paused'
    BY <1>1, <1>4, <2>3, <2>4
  <2> QED BY <1>0, <1>1, <1>3, <1>5, <2>4, <2>5, <2>6, StaysStep
<1> QED BY <1>6, <1>7

LEMMA RegisterTaskStep ==
  ASSUME GateInv, NEW w \in Workers, NEW raised, NEW held, RegisterTask(w, raised, held)
  PROVE  GateInv' /\ LimitsStep
<1>0. PICK k, s : k = calls /\ s = state OBVIOUS
<1>1. /\ policy' = policy /\ closed' = closed /\ submitted' = submitted
      /\ lock' = lock /\ s \in PolicyState /\ state \in PolicyState
      /\ registry[w] = "none" /\ registry \in [Workers -> Phases]
      /\ registry' = [registry EXCEPT ![w] = "live"]
  BY <1>0 DEF RegisterTask, GateInv, EnvOK
<1>2. registry' \in [Workers -> Phases] /\ registry'[w] = "live"
      /\ \A v \in Workers : v # w => registry'[v] = registry[v]
  BY <1>1 DEF Phases
<1>3. EnvOK' BY <1>1, <1>2 DEF RegisterTask, GateInv, EnvOK, Sessions
<1>4. WaitersKept(k) /\ Due(k, {}) /\ (~Off => Known(s)) BY <1>0, <1>1, Opened
<1>5. WaitersKept(k)' BY <1>1, <1>4 DEF WaitersKept, LockKeeps
<1>6. Due(k, {})' BY <1>2, <1>4 DEF Due
<1> DEFINE tk == [s.tasks EXCEPT ![w] = "live"]
<1>7. PICK t : t = [s EXCEPT !.tasks = tk] OBVIOUS
<1>8. s.tasks \in [Sessions -> Phases] /\ w \in Sessions
  BY <1>1 DEF PolicyState, Sessions
<1>9. /\ tk \in [Sessions -> Phases] /\ \A y \in Sessions : y # w => tk[y] = s.tasks[y]
      /\ tk[w] = "live"
  BY <1>8 DEF Phases
<1>10. Results(Transition(k, t)) BY <1>0, <1>7 DEF RegisterTask
<1> HIDE DEF tk
<1>11. /\ t \in PolicyState /\ t.calls = s.calls /\ t.inflight = s.inflight
       /\ t.tasks = tk
  BY <1>1, <1>7, <1>9 DEF PolicyState
<1>12. \A x \in Chats : t.tasks[x] = s.tasks[x]
  BY <1>9, <1>11, GateAssumption DEF Sessions
<1>13. ~Off => Known(t)'
  <2>1. ~Off => \A v \in Workers : registry'[v] = "live" <=> t.tasks[v] = "live"
    BY <1>2, <1>4, <1>9, <1>11 DEF Known, Sessions
  <2> QED BY <2>1 DEF Known
<1>14. \A i \in LiveCalls(k) : ~k[i].admitted /\ Dead(k, s, i) => Dead(k, t, i)
  <2> SUFFICES ASSUME NEW i \in LiveCalls(k), ~k[i].admitted, Dead(k, s, i)
               PROVE  Dead(k, t, i)
    OBVIOUS
  <2>1. k[i].session \in Sessions
    BY <1>0 DEF GateInv, CallsOK, LiveCalls, Call
  <2>2. k[i].session # w BY <1>1, <1>4 DEF Due
  <2>3. TaskOf(k, i) # NoSession => TaskOf(k, i) = k[i].session BY DEF TaskOf
  <2> QED BY <2>1, <2>2, <2>3, <1>9, <1>11 DEF Dead
<1>15. Ready(k, k, t)' BY <1>0, <1>1, <1>11, <1>12, <1>14, Opens
<1> QED BY <1>0, <1>1, <1>3, <1>5, <1>6, <1>10, <1>13, <1>15, DecidesLast

LEMMA CloseStep ==
  ASSUME GateInv, Close
  PROVE  GateInv' /\ LimitsStep
<1>1. /\ policy' = policy /\ closed' = TRUE /\ closed = FALSE /\ submitted' = submitted
      /\ registry' = registry /\ lock' = lock /\ state' = state
      /\ calls' = [i \in Ids |-> NoCall] /\ EnvOK'
  BY DEF Close, GateInv, EnvOK
<1>2. PICK k, c, s : k = calls /\ c = calls' /\ s = state' OBVIOUS
<1>3. c \in [Ids -> Call \cup {NoCall}] /\ LiveCalls(c) = {}
  BY <1>1, <1>2 DEF LiveCalls
<1>4. Off' BY <1>1 DEF Off
<1>5. GateInv'
  <2>1. CallsOK(calls)' BY <1>2, <1>3, FS_EmptySet DEF CallsOK
  <2>2. (state \in PolicyState)' BY <1>1 DEF GateInv
  <2>3. WaitersKept(calls)' BY <1>2, <1>3 DEF WaitersKept
  <2>4. OffSound(calls)' BY <1>2, <1>3 DEF OffSound
  <2>5. Due(calls, {})' BY <1>2, <1>3 DEF Due
  <2> QED BY <1>1, <1>4, <2>1, <2>2, <2>3, <2>4, <2>5 DEF GateInv
<1>6. LimitsStep
  <2>1. Flying(c) = {} /\ Sent(k, c) = {} BY <1>3 DEF Flying, Sent
  <2>2. Planned(c, Sent(k, c)) = {} /\ Lower(c, Sent(k, c))' = {}
    BY <2>1 DEF Planned, Lower
  <2>3. Within(k, c, s)' BY <2>1, <2>2 DEF Within
  <2>4. Cardinality({i \in Flying(c) : IsLane(c, i)}) <= 1
    <3>1. \A i, j \in {l \in Flying(c) : IsLane(c, l)} : i = j BY <2>1
    <3> QED BY <3>1, AtMostOne
  <2>5. Kept(k, c, s) BY <2>1, <2>3, <2>4 DEF Kept
  <2> QED BY <1>2, <2>5 DEF LimitsStep
<1> QED BY <1>5, <1>6

With(c, i, call) == [c EXCEPT ![i] = call]

(* One more call, in the place after all the others.                       *)
LEMMA Added ==
  ASSUME GateInv, submitted' = submitted + 1, policy' = policy, closed' = closed,
         NEW k, k = calls, NEW i \in Ids, k[i] = NoCall,
         NEW call, call \in Call, call.at = submitted',
         call.lane => call.session \in Chats /\ call.kind # "embed",
         call.admitted => ~call.lock_waiting, ~call.park_fenced,
         Off => call.admitted \/ (call.lock_waiting /\ ~closed),
         NEW c, c = With(k, i, call)
  PROVE  /\ CallsOK(c)' /\ OffSound(c)' /\ StillOut(k, c)
         /\ LiveCalls(c) = LiveCalls(k) \cup {i} /\ i \notin LiveCalls(k) /\ c[i] = call
         /\ \A j \in LiveCalls(k) : c[j] = k[j] /\ j # i
<1>0. /\ k \in [Ids -> Call \cup {NoCall}] /\ IsFiniteSet(LiveCalls(k)) /\ submitted \in Nat
      /\ \A j \in LiveCalls(k) : k[j].at \in 1 .. submitted
      /\ \A j, l \in LiveCalls(k) : k[j].at = k[l].at => j = l
      /\ \A j \in LiveCalls(k) :
            /\ IsLane(k, j) => k[j].session \in Chats /\ Planning(k, j)
            /\ k[j].admitted => ~k[j].lock_waiting /\ ~k[j].park_fenced
      /\ Off => \A j \in LiveCalls(k) : k[j].admitted \/ (k[j].lock_waiting /\ ~closed)
  BY DEF GateInv, CallsOK, EnvOK, OffSound
<1>1. /\ c \in [Ids -> Call \cup {NoCall}] /\ c[i] = call
      /\ \A j \in Ids : j # i => c[j] = k[j]
  BY <1>0 DEF With
<1>2. call # NoCall BY NoCallIsNone
<1>3. LiveCalls(c) = LiveCalls(k) \cup {i} /\ i \notin LiveCalls(k) BY <1>1, <1>2 DEF LiveCalls
<1>4. \A j \in LiveCalls(k) : c[j] = k[j] /\ j # i BY <1>1, <1>3 DEF LiveCalls
<1>5. IsFiniteSet(LiveCalls(c))
  <2>1. IsFiniteSet(LiveCalls(k) \cup {i}) BY <1>0, FS_AddElement
  <2> QED BY <2>1, <1>3
<1>6. \A j \in LiveCalls(c) : c[j].at \in 1 .. submitted'
  <2>1. submitted' \in 1 .. submitted' BY <1>0
  <2>2. \A n \in 1 .. submitted : n \in 1 .. submitted' BY <1>0
  <2> QED BY <2>1, <2>2, <1>0, <1>1, <1>3, <1>4
<1>7. \A j, l \in LiveCalls(c) : c[j].at = c[l].at => j = l
  <2>1. \A j \in LiveCalls(k) : c[j].at # submitted' BY <1>0, <1>4
  <2> QED BY <2>1, <1>0, <1>1, <1>3, <1>4
<1>8. \A j \in LiveCalls(c) :
            /\ IsLane(c, j) => c[j].session \in Chats /\ Planning(c, j)
            /\ c[j].admitted => ~c[j].lock_waiting /\ ~c[j].park_fenced
  BY <1>0, <1>1, <1>3, <1>4 DEF IsLane, Planning
<1>9. CallsOK(c)' BY <1>1, <1>5, <1>6, <1>7, <1>8 DEF CallsOK
<1>10. OffSound(c)'
  <2>1. Off' <=> Off BY DEF Off
  <2>2. Off => \A j \in LiveCalls(c) : c[j].admitted \/ (c[j].lock_waiting /\ ~closed')
    BY <1>0, <1>1, <1>3, <1>4
  <2> QED BY <2>1, <2>2 DEF OffSound
<1>11. StillOut(k, c) BY <1>4 DEF StillOut
<1> QED BY <1>1, <1>3, <1>4, <1>9, <1>10, <1>11

(* The policy's table with the one call more.                              *)
LEMMA SubmitStep ==
  ASSUME GateInv, NEW x \in Sessions, NEW kind \in Kinds, NEW i \in Ids, Submit(x, kind, i)
  PROVE  GateInv' /\ LimitsStep
<1>0. PICK k, s : k = calls /\ s = state OBVIOUS
<1> DEFINE call0 == [session |-> x, kind |-> kind, park_fenced |-> FALSE,
                 lane |-> kind # "embed" /\ x \in Chats /\ x = focus,
                 lock_waiting |-> lock = "foreign" /\ ~closed,
                 admitted |-> Off /\ (lock # "foreign" \/ closed),
                 at |-> Place]
<1>1. PICK call : call = call0 OBVIOUS
<1>2. PICK c : c = With(k, i, call) OBVIOUS
<1>3. /\ policy' = policy /\ closed' = closed /\ submitted' = submitted + 1
      /\ registry' = registry /\ lock' = lock /\ urgent' = urgent /\ paused' = paused
      /\ focus' = focus /\ submitted \in Nat /\ closed \in BOOLEAN
      /\ policy \in {"off", "fcfs", "class"} /\ lock \in {"none", "foreign"}
  BY DEF Submit, GateInv, EnvOK
<1>4. EnvOK' /\ s \in PolicyState /\ state \in PolicyState
  BY <1>0, <1>3 DEF GateInv, EnvOK
<1>5. /\ call.session = x /\ call.kind = kind /\ call.park_fenced = FALSE
      /\ call.lane = (kind # "embed" /\ x \in Chats /\ x = focus)
      /\ call.lock_waiting = (lock = "foreign" /\ ~closed)
      /\ call.admitted = (Off /\ (lock # "foreign" \/ closed))
      /\ call.at = submitted'
  BY <1>1, <1>3 DEF Place
<1>6. call \in Call
  <2>1. (kind # "embed" /\ x \in Chats /\ x = focus) \in BOOLEAN
        /\ (lock = "foreign" /\ ~closed) \in BOOLEAN
        /\ (Off /\ (lock # "foreign" \/ closed)) \in BOOLEAN
    BY <1>3 DEF Off
  <2>2. submitted + 1 \in Nat BY <1>3
  <2> QED BY <2>1, <2>2, <1>1 DEF Call, Place
<1>7. k[i] = NoCall /\ (x \in Workers => registry[x] = "live")
  BY <1>0 DEF Submit
<1>8. Results(IF call.lock_waiting THEN {Both(c, s)}
              ELSE Transition(c, Submitted(c, s, {i})))
  BY <1>0, <1>1, <1>2 DEF Submit, With
<1> HIDE DEF call0
<1>9. /\ CallsOK(c)' /\ OffSound(c)' /\ StillOut(k, c)
      /\ LiveCalls(c) = LiveCalls(k) \cup {i} /\ i \notin LiveCalls(k) /\ c[i] = call
      /\ \A j \in LiveCalls(k) : c[j] = k[j] /\ j # i
  <2>1. call.lane => call.session \in Chats /\ call.kind # "embed" BY <1>5
  <2>2. call.admitted => ~call.lock_waiting BY <1>5, <1>3
  <2>3. ~call.park_fenced BY <1>5
  <2>4. Off => call.admitted \/ (call.lock_waiting /\ ~closed) BY <1>5, <1>3
  <2> QED BY <1>0, <1>2, <1>3, <1>5, <1>6, <1>7, <2>1, <2>2, <2>3, <2>4, Added
<1>10. /\ \A j \in LiveCalls(k) : /\ IsLane(c, j) = IsLane(k, j) /\ IsHoldable(c, j) = IsHoldable(k, j)
                                  /\ Planning(c, j) = Planning(k, j) /\ TaskOf(c, j) = TaskOf(k, j)
  BY <1>9 DEF IsLane, IsHoldable, Planning, TaskOf
<1>11. Due(c, {})'
  <2>1. Due(k, {}) BY <1>0 DEF GateInv
  <2> QED BY <2>1, <1>3, <1>5, <1>7, <1>9 DEF Due
<1>12. WaitersKept(c)'
  <2>1. CASE lock = "foreign" BY <1>3, <2>1, ForeignWaits
  <2>2. CASE lock # "foreign"
    <3>1. WaitersKept(k) BY <1>0 DEF GateInv
    <3>2. ASSUME NEW j \in LiveCalls(c), c[j].lock_waiting, ~c[j].park_fenced
          PROVE  LockKeeps(c, j)'
      <4>1. j \in LiveCalls(k) BY <3>2, <2>2, <1>5, <1>9
      <4>2. LockKeeps(k, j) BY <3>1, <3>2, <4>1, <1>9 DEF WaitersKept
      <4>3. PICK l \in LiveCalls(k) : Sibling(k, j, l) /\ Planning(k, l) /\ ~k[l].lock_waiting
        BY <4>2, <2>2 DEF LockKeeps
      <4>4. l \in LiveCalls(c) /\ Sibling(c, j, l) /\ Planning(c, l) /\ ~c[l].lock_waiting
        BY <4>1, <4>3, <1>9, <1>10 DEF Sibling
      <4>5. Planning(c, j) BY <4>1, <4>2, <2>2, <1>10 DEF LockKeeps
      <4> QED BY <3>2, <4>4, <4>5 DEF LockKeeps
    <3> QED BY <3>2 DEF WaitersKept
  <2> QED BY <2>1, <2>2
<1>13. Off' <=> Off BY <1>3 DEF Off
<1>14. ~Off => Matched(k, s) /\ Known(s) /\ Decided(k, s)
  <2>1. ~Off => Matched(k, s) BY <1>0 DEF GateInv
  <2>2. ~Off => Known(s) BY <1>0 DEF GateInv
  <2>3. ~Off => Decided(k, s) BY <1>0 DEF GateInv
  <2> QED BY <2>1, <2>2, <2>3
<1>15. ~Off => Known(s)' BY <1>3, <1>14 DEF Known
<1>16. ~Off => Flying(c) = Flying(k) /\ Sent(k, c) = {}
  BY <1>5, <1>9 DEF Flying, Sent
<1>17. CASE call.lock_waiting
  <2>0. lock = "foreign" /\ ~closed /\ ~call.admitted BY <1>5, <1>17
  <2>1. c = calls' /\ s = state' BY <1>8, <1>17 DEF Results, Both
  <2>2. Flying(c) = Flying(k) /\ Sent(k, c) = {} BY <2>0, <1>9 DEF Flying, Sent
  <2>3. Planned(c, Sent(k, c)) = {} /\ Lower(c, Sent(k, c))' = {}
    BY <2>2 DEF Planned, Lower
  <2>4. Within(k, c, s)' BY <2>2, <2>3 DEF Within
  <2>5. ASSUME ~Off PROVE Matched(c, s) /\ Decided(c, s)'
    <3>0. Matched(k, s) /\ Decided(k, s) BY <2>5, <1>14
    <3>1. s.calls \subseteq LiveCalls(k) /\ s.inflight \subseteq LiveCalls(k) BY <3>0, Pending
    <3>2. s.calls = {j \in LiveCalls(c) : ~c[j].lock_waiting /\ ~c[j].park_fenced}
      BY <3>0, <1>9, <1>17 DEF Matched
    <3>3. s.inflight = Flying(c) BY <3>0, <2>2 DEF Matched
    <3>4. \A j, l \in s.inflight : IsLane(c, j) /\ IsLane(c, l) => j = l
      BY <3>0, <3>1, <1>10 DEF Matched
    <3>5. \A j \in s.calls :
             c[j].session \in Chats /\ Planning(c, j) => s.tasks[c[j].session] = "live"
      BY <3>0, <3>1, <1>9, <1>10 DEF Matched
    <3>6. Matched(c, s) BY <3>2, <3>3, <3>4, <3>5 DEF Matched
    <3>7. \A j \in s.calls \ s.inflight : Dead(c, s, j) \/ (Planning(c, j) /\ lock' = "foreign")
      BY <3>0, <3>1, <2>0, <1>3, <1>10 DEF Decided, Dead
    <3> QED BY <3>6, <3>7 DEF Decided
  <2>6. Good(k, c, s)'
    BY <2>2, <2>4, <2>5, <1>4, <1>9, <1>13 DEF Good, Base, StillOut
  <2> QED BY <2>1, <2>6, <1>0, <1>3, <1>4, <1>11, <1>12, <1>15, Closes
<1>18. CASE ~call.lock_waiting
  <2>0. lock # "foreign" \/ closed BY <1>3, <1>5, <1>18
  <2>1. PICK t : t = Submitted(c, s, {i}) OBVIOUS
  <2>2. Results(Transition(c, t)) BY <1>8, <1>18, <2>1
  <2>3. /\ t \in PolicyState /\ t.calls = s.calls \cup {i}
        /\ t.inflight = s.inflight /\ t.window = s.window
        /\ \A y \in Sessions : y \notin Chats => t.tasks[y] = s.tasks[y]
        /\ \A y \in Sessions : s.tasks[y] = "live" => t.tasks[y] = "live"
        /\ \A j \in {i} : c[j].session \in Chats /\ Planning(c, j) =>
              t.tasks[c[j].session] = "live"
    BY <2>1, <1>4, SubmittedIs
  <2>4. Base(k, c, t)'
    <3>1. (~closed' /\ Sent(k, c) # {}) => lock' # "foreign" BY <2>0, <1>3
    <3> QED BY <3>1, <2>3, <1>9 DEF Base, StillOut
  <2>5. ASSUME ~Off PROVE Matched(c, t) /\ Passed(c, t)' /\ Within(k, c, t)'
    <3>0. Matched(k, s) BY <2>5, <1>14
    <3>1. s.calls \subseteq LiveCalls(k) /\ s.inflight \subseteq LiveCalls(k) BY <3>0, Pending
    <3>2. t.calls = {j \in LiveCalls(c) : ~c[j].lock_waiting /\ ~c[j].park_fenced}
      BY <3>0, <2>3, <1>5, <1>9, <1>18 DEF Matched
    <3>3. t.inflight = Flying(c) BY <3>0, <2>3, <2>5, <1>16 DEF Matched
    <3>4. \A j, l \in t.inflight : IsLane(c, j) /\ IsLane(c, l) => j = l
      BY <3>0, <3>1, <2>3, <1>10 DEF Matched
    <3>5. \A j \in t.calls :
             c[j].session \in Chats /\ Planning(c, j) => t.tasks[c[j].session] = "live"
      <4>1. \A j \in s.calls :
               c[j].session \in Chats /\ Planning(c, j) => s.tasks[c[j].session] = "live"
        BY <3>0, <3>1, <1>9, <1>10 DEF Matched
      <4> QED BY <4>1, <2>3 DEF Sessions
    <3>6. Matched(c, t) BY <3>2, <3>3, <3>4, <3>5 DEF Matched
    <3>7. Passed(c, t)' BY <2>0, <2>5, <1>3 DEF Passed, Off
    <3>8. Planned(c, Sent(k, c)) = {} /\ Lower(c, Sent(k, c))' = {} /\ Sent(k, c) = {}
      BY <2>5, <1>16 DEF Planned, Lower
    <3>9. Within(k, c, t)' BY <3>8 DEF Within
    <3> QED BY <3>6, <3>7, <3>9
  <2>6. Ready(k, c, t)' BY <2>4, <2>5, <1>13 DEF Ready
  <2>7. ~Off => Known(t)'
    <3>1. SameWorkers(s, t) BY <2>3, GateAssumption DEF SameWorkers, Sessions
    <3> QED BY <3>1, <1>15, KnownOn
  <2> QED BY <2>2, <2>6, <2>7, <1>0, <1>3, <1>4, <1>11, <1>12, DecidesLast
<1> QED BY <1>17, <1>18

Fenced(c, i) == [c EXCEPT ![i].park_fenced = TRUE]

LEMMA FencedIs ==
  ASSUME NEW c, c \in [Ids -> Call \cup {NoCall}], NEW i, i \in LiveCalls(c),
         NEW d, d = Fenced(c, i)
  PROVE  /\ d \in [Ids -> Call \cup {NoCall}] /\ LiveCalls(d) = LiveCalls(c)
         /\ d[i].park_fenced /\ \A j \in LiveCalls(c) : j # i => d[j] = c[j]
         /\ \A j \in LiveCalls(c) :
              /\ d[j].session = c[j].session /\ d[j].kind = c[j].kind
              /\ d[j].lane = c[j].lane /\ d[j].at = c[j].at
              /\ d[j].admitted = c[j].admitted /\ d[j].lock_waiting = c[j].lock_waiting
<1>0. i \in Ids /\ c[i] \in Call BY DEF LiveCalls
<1>1. PICK e : e = [c[i] EXCEPT !.park_fenced = TRUE] OBVIOUS
<1>2. /\ e \in Call /\ e.session = c[i].session /\ e.kind = c[i].kind
      /\ e.lane = c[i].lane /\ e.at = c[i].at /\ e.park_fenced = TRUE
      /\ e.admitted = c[i].admitted /\ e.lock_waiting = c[i].lock_waiting
  BY <1>0, <1>1 DEF Call
<1>3. d = [c EXCEPT ![i] = e] BY <1>1 DEF Fenced
<1>4. /\ d \in [Ids -> Call \cup {NoCall}] /\ d[i] = e
      /\ \A j \in Ids : j # i => d[j] = c[j]
  BY <1>0, <1>2, <1>3
<1>5. LiveCalls(d) = LiveCalls(c)
  <2>1. d[i] # NoCall /\ c[i] # NoCall BY <1>0, <1>2, <1>4, NoCallIsNone
  <2> QED BY <2>1, <1>4 DEF LiveCalls
<1> QED BY <1>2, <1>4, <1>5 DEF LiveCalls

(* A fence is put up around the one call of a worker that is still held.   *)
LEMMA FenceStep ==
  ASSUME GateInv, NEW i \in Ids, TryPark(i, TRUE)
  PROVE  GateInv' /\ LimitsStep
<1>0. PICK k, s, c, t : k = calls /\ s = state /\ c = calls' /\ t = state' OBVIOUS
<1> DEFINE w == k[i].session
<1>1. /\ policy' = policy /\ closed' = closed /\ submitted' = submitted
      /\ registry' = registry /\ lock' = lock /\ urgent' = urgent /\ paused' = paused
      /\ focus' = focus /\ EnvOK' /\ s \in PolicyState
      /\ i \in LiveCalls(k) /\ w \in Workers /\ Of(k, w) = {i} /\ ~k[i].admitted
  BY <1>0 DEF TryPark, GateInv, EnvOK
<1>2. c = Fenced(k, i) /\ t = [s EXCEPT !.calls = @ \ {i}]
  BY <1>0 DEF TryPark, Fenced
<1>3. /\ t \in PolicyState /\ t.calls = s.calls \ {i} /\ t.inflight = s.inflight
      /\ t.tasks = s.tasks /\ t.window = s.window
  BY <1>1, <1>2 DEF PolicyState
<1>4. /\ CallsOK(k)' /\ OffSound(k)'
      /\ ~Off => Matched(k, s) /\ Known(s) /\ Decided(k, s)
      /\ WaitersKept(k) /\ Due(k, {}) /\ k \in [Ids -> Call \cup {NoCall}]
  <2>1. /\ CallsOK(k)' /\ OffSound(k)'
        /\ ~Off => Matched(k, s) /\ Known(s) /\ Decided(k, s)
        /\ WaitersKept(k) /\ Due(k, {})
    BY <1>0, <1>1, Opened
  <2> QED BY <2>1 DEF CallsOK
<1>5. /\ c \in [Ids -> Call \cup {NoCall}] /\ LiveCalls(c) = LiveCalls(k)
      /\ c[i].park_fenced /\ \A j \in LiveCalls(k) : j # i => c[j] = k[j]
      /\ \A j \in LiveCalls(k) :
           /\ c[j].session = k[j].session /\ c[j].kind = k[j].kind
           /\ c[j].lane = k[j].lane /\ c[j].at = k[j].at
           /\ c[j].admitted = k[j].admitted /\ c[j].lock_waiting = k[j].lock_waiting
  BY <1>1, <1>2, <1>4, FencedIs
<1>6. \A j \in LiveCalls(k) :
        /\ IsLane(c, j) = IsLane(k, j) /\ IsHoldable(c, j) = IsHoldable(k, j)
        /\ Planning(c, j) = Planning(k, j) /\ TaskOf(c, j) = TaskOf(k, j)
  BY <1>5 DEF IsLane, IsHoldable, Planning, TaskOf
<1>7. \A j \in LiveCalls(k) : j # i => ~Sibling(k, j, i)
  BY <1>1 DEF Sibling, Of
<1>8. Off' <=> Off BY <1>1 DEF Off
<1>9. CallsOK(c)'
  <2>1. \A j \in LiveCalls(c) :
          /\ IsLane(c, j) => c[j].session \in Chats /\ Planning(c, j)
          /\ c[j].admitted => ~c[j].lock_waiting /\ ~c[j].park_fenced
    <3>1. \A j \in LiveCalls(c) : IsLane(c, j) => c[j].session \in Chats /\ Planning(c, j)
      BY <1>4, <1>5, <1>6 DEF CallsOK
    <3>2. \A j \in LiveCalls(c) : c[j].admitted => ~c[j].lock_waiting /\ ~c[j].park_fenced
      BY <1>1, <1>4, <1>5 DEF CallsOK
    <3> QED BY <3>1, <3>2
  <2>2. \A j \in LiveCalls(c) : c[j].at \in 1 .. submitted' BY <1>4, <1>5 DEF CallsOK
  <2>3. \A j, l \in LiveCalls(c) : c[j].at = c[l].at => j = l BY <1>4, <1>5 DEF CallsOK
  <2>4. IsFiniteSet(LiveCalls(c)) BY <1>4, <1>5 DEF CallsOK
  <2> QED BY <2>1, <2>2, <2>3, <2>4, <1>5 DEF CallsOK
<1>10. Flying(c) = Flying(k) /\ Sent(k, c) = {} /\ StillOut(k, c)
  BY <1>5 DEF Flying, Sent, StillOut
<1>11. OffSound(c)' BY <1>4, <1>5 DEF OffSound
<1>12. Within(k, c, t)'
  <2>1. Planned(c, Sent(k, c)) = {} /\ Lower(c, Sent(k, c))' = {}
    BY <1>10 DEF Planned, Lower
  <2> QED BY <2>1, <1>10 DEF Within
<1>13. ASSUME ~Off PROVE Matched(c, t) /\ Decided(c, t)'
  <2>0. Matched(k, s) /\ Decided(k, s) BY <1>4, <1>13
  <2>1. s.calls \subseteq LiveCalls(k) /\ s.inflight = Flying(k) /\ Flying(k) \subseteq LiveCalls(k)
    BY <2>0 DEF Matched, Flying
  <2>2. t.calls = {j \in LiveCalls(c) : ~c[j].lock_waiting /\ ~c[j].park_fenced}
    <3>1. s.calls = {j \in LiveCalls(k) : ~k[j].lock_waiting /\ ~k[j].park_fenced}
      BY <2>0 DEF Matched
    <3>2. \A j \in LiveCalls(k) : j \in t.calls <=> ~c[j].lock_waiting /\ ~c[j].park_fenced
      BY <3>1, <1>3, <1>5
    <3>3. t.calls \subseteq LiveCalls(c) BY <2>1, <1>3, <1>5
    <3> QED BY <3>2, <3>3, <1>5
  <2>3. t.inflight = Flying(c) BY <2>1, <1>3, <1>10
  <2>4. \A j, l \in t.inflight : IsLane(c, j) /\ IsLane(c, l) => j = l
    BY <2>0, <2>1, <1>3, <1>6 DEF Matched
  <2>5. \A j \in t.calls :
           c[j].session \in Chats /\ Planning(c, j) => t.tasks[c[j].session] = "live"
    BY <2>0, <2>1, <1>3, <1>5, <1>6 DEF Matched
  <2>6. Matched(c, t) BY <2>2, <2>3, <2>4, <2>5 DEF Matched
  <2>7. ASSUME NEW j \in t.calls \ t.inflight
        PROVE  \/ Dead(c, t, j)
               \/ /\ Planning(c, j)
                  /\ lock' = "foreign" \/ LaneKeeps(c, j) \/ PolicyKeeps(c, t, j)'
    <3>1. j \in s.calls \ s.inflight /\ j \in LiveCalls(k) /\ j # i BY <2>1, <1>3
    <3>2. Dead(k, s, j) => Dead(c, t, j) BY <3>1, <1>3, <1>6 DEF Dead
    <3>3. LaneKeeps(k, j) => LaneKeeps(c, j)
      BY <2>1, <3>1, <1>6, <1>10 DEF LaneKeeps
    <3>4. PolicyKeeps(k, s, j) => PolicyKeeps(c, t, j)'
      <4> DEFINE low == {l \in NonLane(k, Flying(k)) : LET x == TaskOf(k, l) IN
                           x = NoSession \/ s.tasks[x] # "live" \/ x \notin urgent}
                 next == {l \in NonLane(c, Flying(c)) : LET x == TaskOf(c, l) IN
                           x = NoSession \/ t.tasks[x] # "live" \/ x \notin urgent'}
      <4>1. NonLane(c, Flying(c)) = NonLane(k, Flying(k))
            /\ NonLane(k, Flying(k)) \subseteq LiveCalls(k)
        BY <2>1, <1>6, <1>10 DEF NonLane
      <4>2. low = next BY <4>1, <1>1, <1>3, <1>6
      <4>3. (\E l \in s.calls : Sibling(k, j, l)) => \E l \in t.calls : Sibling(c, j, l)
        <5>1. \A l \in s.calls : Sibling(k, j, l) => l \in t.calls /\ Sibling(c, j, l)
          BY <2>1, <3>1, <1>3, <1>5, <1>7 DEF Sibling
        <5> QED BY <5>1
      <4>4. IsHoldable(c, j) = IsHoldable(k, j) /\ c[j].session = k[j].session
        BY <3>1, <1>5, <1>6
      <4>5. PolicyKeeps(k, s, j) =>
            /\ IsHoldable(k, j) /\ s.tasks[k[j].session] = "live"
            /\ \/ k[j].session \in paused
               \/ \E l \in s.calls : Sibling(k, j, l)
               \/ Cardinality(NonLane(k, Flying(k))) >= Limit
               \/ k[j].session \notin urgent /\ Cardinality(low) >= LowestCap
        BY DEF PolicyKeeps
      <4>6. PolicyKeeps(k, s, j) =>
            /\ IsHoldable(c, j) /\ t.tasks[c[j].session] = "live"
            /\ \/ c[j].session \in paused'
               \/ \E l \in t.calls : Sibling(c, j, l)
               \/ Cardinality(NonLane(c, Flying(c))) >= Limit
               \/ c[j].session \notin urgent' /\ Cardinality(next) >= LowestCap
        <5> HIDE DEF low, next
        <5> QED BY <4>1, <4>2, <4>3, <4>4, <4>5, <1>1, <1>3
      <4> QED BY <4>6 DEF PolicyKeeps
    <3> QED BY <2>0, <3>1, <3>2, <3>3, <3>4, <1>1, <1>6 DEF Decided
  <2> QED BY <2>6, <2>7 DEF Decided
<1>14. Good(k, c, t)'
  BY <1>3, <1>8, <1>9, <1>10, <1>11, <1>12, <1>13 DEF Good, Base, StillOut
<1>15. WaitersKept(c)'
  <2>1. ASSUME NEW j \in LiveCalls(c), c[j].lock_waiting, ~c[j].park_fenced
        PROVE  LockKeeps(c, j)'
    <3>1. j \in LiveCalls(k) /\ j # i /\ c[j] = k[j] BY <2>1, <1>5
    <3>2. LockKeeps(k, j) BY <3>1, <2>1, <1>4 DEF WaitersKept
    <3>3. CASE lock = "foreign" BY <3>3, <2>1, <1>1 DEF LockKeeps
    <3>4. CASE lock # "foreign"
      <4>1. PICK l \in LiveCalls(k) : Sibling(k, j, l) /\ Planning(k, l) /\ ~k[l].lock_waiting
        BY <3>2, <3>4 DEF LockKeeps
      <4>2. l \in LiveCalls(c) /\ Sibling(c, j, l) /\ Planning(c, l) /\ ~c[l].lock_waiting
        BY <3>1, <4>1, <1>5, <1>6 DEF Sibling
      <4>3. Planning(c, j) BY <3>1, <3>2, <3>4, <1>6 DEF LockKeeps
      <4> QED BY <2>1, <4>2, <4>3 DEF LockKeeps
    <3> QED BY <3>3, <3>4
  <2> QED BY <2>1 DEF WaitersKept
<1>16. Due(c, {})' BY <1>1, <1>4, <1>5 DEF Due
<1>17. ~Off => Known(t)' BY <1>1, <1>3, <1>4 DEF Known
<1> QED BY <1>0, <1>1, <1>14, <1>15, <1>16, <1>17, Closes

(* The fence taken down again decides as the lock's end or a hold's would. *)
LEMMA RefusedStep ==
  ASSUME GateInv, NEW i \in Ids, TryPark(i, FALSE)
  PROVE  GateInv' /\ LimitsStep
<1>0. PICK k, s : k = calls /\ s = state OBVIOUS
<1>1. /\ policy' = policy /\ closed' = closed /\ submitted' = submitted
      /\ registry' = registry /\ lock' = lock /\ urgent' = urgent /\ paused' = paused
      /\ focus' = focus /\ EnvOK' /\ s \in PolicyState /\ state \in PolicyState
  BY <1>0 DEF TryPark, GateInv, EnvOK
<1>2. WaitersKept(k)' /\ Due(k, {})' /\ (~Off => Known(s)') BY <1>0, <1>1, SameReasons
<1>3. Good(k, k, s)' BY <1>0, <1>1, Stays
<1>4. CASE i \in s.calls
  <2>1. Results(Transition(k, s)) BY <1>0, <1>4 DEF TryPark
  <2>2. Ready(k, k, s)' BY <1>3 DEF Good, Ready, Decided, Passed
  <2> QED BY <1>0, <1>1, <1>2, <2>1, <2>2, DecidesLast
<1>5. CASE i \notin s.calls /\ k[i].lock_waiting /\ lock # "foreign"
  <2>1. PICK r : r = Both(k, s) OBVIOUS
  <2>2. PICK a \in ReleaseLockWaiters(r) : calls' = a.calls /\ state' = a.state
    BY <1>0, <1>5, <2>1 DEF TryPark, Results
  <2>3. PICK c, t : c = a.calls /\ t = a.state OBVIOUS
  <2>4. r.calls = k /\ r.state = s BY <2>1 DEF Both
  <2>5. /\ Good(k, c, t)' /\ WaitersKept(c)' /\ Onward(k, c)
        /\ ~Off => SameWorkers(s, t)
    BY <1>1, <1>3, <1>5, <2>2, <2>3, <2>4, Releases
  <2>6. Due(c, {})' BY <1>2, <2>5, OnwardDue
  <2>7. ~Off => Known(t)' BY <1>2, <2>5, KnownOn
  <2>8. c = calls' /\ t = state' BY <2>2, <2>3
  <2> QED BY <1>0, <1>1, <2>5, <2>6, <2>7, <2>8, Closes
<1>6. CASE i \notin s.calls /\ ~(k[i].lock_waiting /\ lock # "foreign")
  <2>1. k = calls' /\ s = state' BY <1>0, <1>6 DEF TryPark, Results, Both
  <2> QED BY <1>0, <1>1, <1>2, <1>3, <2>1, Closes
<1> QED BY <1>4, <1>5, <1>6

----------------------------------------------------------------------------
(* The end of a task. *)

Ended(r, w, n) ==
    LET due == {i \in Of(r.calls, w) : r.calls[i].at = n /\ ~r.calls[i].admitted}
    IN IF due = {} THEN {r} ELSE UNION {CallFinished(r, i) : i \in due}

EndedAll(R, w, n) == UNION {Ended(r, w, n) : r \in R}

(* The calls of the task that are still to be looked at.                   *)
Later(k, w, n) == {i \in LiveCalls(k) : k[i].session = w /\ k[i].at > n}

(* Where the handler is when it was through with the first n places.       *)
Through(k, w, n, r) ==
    /\ Good(k, r.calls, r.state)' /\ WaitersKept(r.calls)'
    /\ Onward(k, r.calls) /\ Due(r.calls, Later(k, w, n))'
    /\ ~Off => Known(r.state)'

IsBy(g, S, w, n) ==
    g = [m \in 0 .. n |-> IF m = 0 THEN S ELSE EndedAll(g[m - 1], w, m)]

(* There is a function by, as FinishTask defines it.                       *)
LEMMA ByExists ==
  ASSUME NEW S, NEW w, NEW n \in Nat
  PROVE  \E g : IsBy(g, S, w, n)
<1> DEFINE P == {l \in Nat : \E g :
                   g = [m \in 0 .. l |-> IF m = 0 THEN S ELSE EndedAll(g[m - 1], w, m)]}
<1>1. 0 \in P
  <2>1. PICK g : g = [m \in 0 .. 0 |-> S] OBVIOUS
  <2>2. \A m \in 0 .. 0 : m = 0 OBVIOUS
  <2>3. g = [m \in 0 .. 0 |-> IF m = 0 THEN S ELSE EndedAll(g[m - 1], w, m)]
    BY <2>1, <2>2
  <2> QED BY <2>3
<1>2. ASSUME NEW l \in Nat, l \in P PROVE l + 1 \in P
  <2>1. PICK g : g = [m \in 0 .. l |-> IF m = 0 THEN S ELSE EndedAll(g[m - 1], w, m)]
    BY <1>2
  <2>2. PICK h : h = [m \in 0 .. l + 1 |-> IF m = l + 1 THEN EndedAll(g[l], w, l + 1)
                                           ELSE g[m]]
    OBVIOUS
  <2>3. \A m \in 0 .. l + 1 : h[m] = IF m = 0 THEN S ELSE EndedAll(h[m - 1], w, m)
    <3> SUFFICES ASSUME NEW m \in 0 .. l + 1
                 PROVE  h[m] = IF m = 0 THEN S ELSE EndedAll(h[m - 1], w, m)
      OBVIOUS
    <3>1. CASE m = l + 1
      <4>1. h[m] = EndedAll(g[l], w, m) /\ m # 0 BY <2>2, <3>1
      <4>2. m - 1 = l /\ l \in 0 .. l + 1 /\ l # l + 1 BY <3>1
      <4>3. h[m - 1] = g[l] BY <2>2, <4>2
      <4> QED BY <4>1, <4>3
    <3>2. CASE m = 0
      <4>1. m # l + 1 /\ m \in 0 .. l BY <3>2
      <4>2. h[m] = g[m] BY <2>2, <4>1
      <4>3. g[m] = S BY <2>1, <3>2, <4>1
      <4> QED BY <4>2, <4>3, <3>2
    <3>3. CASE m # 0 /\ m # l + 1
      <4>1. m \in 0 .. l /\ m - 1 \in 0 .. l + 1 /\ m - 1 # l + 1 BY <3>3
      <4>2. h[m] = g[m] /\ h[m - 1] = g[m - 1] BY <2>2, <3>3, <4>1
      <4>3. g[m] = EndedAll(g[m - 1], w, m) BY <2>1, <3>3, <4>1
      <4> QED BY <4>2, <4>3, <3>3
    <3> QED BY <3>1, <3>2, <3>3
  <2>4. h = [m \in 0 .. l + 1 |-> IF m = 0 THEN S ELSE EndedAll(h[m - 1], w, m)]
    <3>1. h = [m \in 0 .. l + 1 |-> h[m]] BY <2>2
    <3> QED BY <2>3, <3>1
  <2> QED BY <2>4
<1>3. \A l \in Nat : l \in P
  <2> HIDE DEF P
  <2> QED BY <1>1, <1>2, Induction
<1> QED BY <1>3 DEF IsBy

NoneAt(c, e, w, m) ==
    \A j \in LiveCalls(e) : c[j].session = w /\ ~c[j].admitted => c[j].at # m

(* One place: its call, if the task's and held, ends.                      *)
LEMMA EndedIs ==
  ASSUME EnvOK', policy' = policy, closed' = closed, state \in PolicyState,
         NEW k, NEW r, NEW c, NEW s, c = r.calls, s = r.state, Good(k, c, s)',
         WaitersKept(c)', NEW w, NEW m, NEW a, a \in Ended(r, w, m),
         NEW e, NEW t, e = a.calls, t = a.state
  PROVE  /\ Good(k, e, t)' /\ WaitersKept(e)' /\ Onward(c, e)
         /\ ~Off => SameWorkers(s, t)
         /\ NoneAt(c, e, w, m)
<1> DEFINE due == {i \in Of(c, w) : c[i].at = m /\ ~c[i].admitted}
<1>1. a \in (IF due = {} THEN {r} ELSE UNION {CallFinished(r, i) : i \in due})
  BY DEF Ended
<1>2. CASE due = {}
  <2>1. a = r BY <1>1, <1>2
  <2>2. e = c /\ t = s BY <2>1
  <2>3. SameWorkers(s, s) BY DEF SameWorkers
  <2>4. NoneAt(c, c, w, m) BY <1>2 DEF Of, NoneAt
  <2> QED BY <2>2, <2>3, <2>4, OnwardSelf
<1>3. CASE due # {}
  <2>1. PICK i \in due : a \in CallFinished(r, i) BY <1>1, <1>3
  <2>2. i \in LiveCalls(c) /\ c[i].at = m /\ ~c[i].admitted BY DEF Of
  <2>3. i \in Flying(c) => Sent(k, c) = {} BY <2>2 DEF Flying
  <2> HIDE DEF due
  <2>4. /\ Good(k, e, t)' /\ WaitersKept(e)'
        /\ Onward(c, e) /\ LiveCalls(e) = LiveCalls(c) \ {i}
        /\ ~Off => SameWorkers(s, t)
    BY <2>1, <2>2, <2>3, Finishes
  <2>5. \A l, j \in LiveCalls(c) : c[l].at = c[j].at => l = j
    BY DEF Good, Base, CallsOK
  <2>6. \A j \in LiveCalls(e) : c[j].at # m BY <2>2, <2>4, <2>5
  <2>7. NoneAt(c, e, w, m) BY <2>6 DEF NoneAt
  <2> QED BY <2>4, <2>7
<1> QED BY <1>2, <1>3

Follows(n, m) == n \in Nat /\ m = n + 1

(* One place on: the calls of the task after it are still to come.         *)
LEMMA OnePlace ==
  ASSUME EnvOK', policy' = policy, closed' = closed, state \in PolicyState,
         NEW k, NEW w, NEW n, NEW m, Follows(n, m),
         NEW r, Through(k, w, n, r), NEW a, a \in Ended(r, w, m)
  PROVE  Through(k, w, m, a)
<1>0. PICK c, s, e, t : c = r.calls /\ s = r.state /\ e = a.calls /\ t = a.state OBVIOUS
<1>1. /\ Good(k, c, s)' /\ WaitersKept(c)' /\ Onward(k, c)
      /\ Due(c, Later(k, w, n))' /\ (~Off => Known(s)')
  BY <1>0 DEF Through
<1>2. /\ Good(k, e, t)' /\ WaitersKept(e)' /\ Onward(c, e)
      /\ ~Off => SameWorkers(s, t)
      /\ NoneAt(c, e, w, m)
  <2>1. c = r.calls /\ s = r.state /\ e = a.calls /\ t = a.state BY <1>0
  <2>2. Good(k, c, s)' /\ WaitersKept(c)' /\ a \in Ended(r, w, m) BY <1>1
  <2> QED BY <2>1, <2>2, EndedIs
<1>3. Onward(k, e) BY <1>1, <1>2, OnwardFrom
<1>4. Due(e, Later(k, w, n))' BY <1>1, <1>2, OnwardDue
<1>5. \A j \in LiveCalls(e) : ~e[j].admitted /\ j \in Later(k, w, n) => j \in Later(k, w, m)
  <2> SUFFICES ASSUME NEW j \in LiveCalls(e), ~e[j].admitted, j \in Later(k, w, n)
               PROVE  j \in Later(k, w, m)
    OBVIOUS
  <2>1. j \in LiveCalls(c) /\ ~c[j].admitted BY <1>2 DEF Onward
  <2>2. j \in LiveCalls(k) /\ k[j].session = c[j].session /\ k[j].at = c[j].at
    BY <1>1, <2>1 DEF Onward, Static
  <2>3. k[j].session = w /\ k[j].at > n BY DEF Later
  <2>4. c[j].at \in Nat
    <3>1. c \in [Ids -> Call \cup {NoCall}] BY <1>1 DEF Good, Base, CallsOK
    <3> QED BY <2>1, <3>1, LiveCall
  <2>5. c[j].at # m BY <1>2, <2>1, <2>2, <2>3 DEF NoneAt
  <2>6. k[j].at > m BY <2>2, <2>3, <2>4, <2>5 DEF Follows
  <2> QED BY <2>2, <2>3, <2>6 DEF Later
<1>6. Due(e, Later(k, w, m))' BY <1>4, <1>5 DEF Due
<1>7. ~Off => Known(t)' BY <1>1, <1>2, KnownOn
<1> QED BY <1>0, <1>2, <1>3, <1>6, <1>7 DEF Through

LEMMA FinishTaskStep ==
  ASSUME GateInv, NEW w \in Workers, FinishTask(w)
  PROVE  GateInv' /\ LimitsStep
<1>0. PICK k, s, n : k = calls /\ s = state /\ n = submitted OBVIOUS
<1>1. /\ policy' = policy /\ closed' = closed /\ submitted' = submitted
      /\ lock' = lock /\ s \in PolicyState /\ state \in PolicyState /\ n \in Nat
      /\ registry[w] = "live" /\ registry \in [Workers -> Phases]
      /\ registry' = [registry EXCEPT ![w] = "over"]
  BY <1>0 DEF FinishTask, GateInv, EnvOK
<1>2. registry' \in [Workers -> Phases] /\ registry'[w] = "over"
      /\ \A v \in Workers : v # w => registry'[v] = registry[v]
  BY <1>1 DEF Phases
<1>3. EnvOK' BY <1>1, <1>2 DEF FinishTask, GateInv, EnvOK
<1>4. WaitersKept(k) /\ Due(k, {}) /\ (~Off => Known(s)) BY <1>0, <1>1, Opened
<1>5. WaitersKept(k)' BY <1>1, <1>4 DEF WaitersKept, LockKeeps
<1>6. CallsOK(k)' /\ \A i \in LiveCalls(k) : k[i].at \in 1 .. n
  <2>1. CallsOK(k)' BY <1>0, <1>1, Opened
  <2> QED BY <2>1, <1>0, <1>1 DEF CallsOK
<1>7. Due(k, Later(k, w, 0))'
  <2>1. \A i \in LiveCalls(k) : k[i].at > 0 BY <1>6
  <2> QED BY <2>1, <1>2, <1>4 DEF Due, Later
<1> DEFINE tk == [s.tasks EXCEPT ![w] = "over"]
<1>8. PICK t : t = [s EXCEPT !.tasks = tk] OBVIOUS
<1>9. s.tasks \in [Sessions -> Phases] /\ w \in Sessions
  BY <1>1 DEF PolicyState, Sessions
<1>10. /\ tk \in [Sessions -> Phases] /\ \A y \in Sessions : y # w => tk[y] = s.tasks[y]
       /\ tk[w] = "over"
  BY <1>9 DEF Phases
<1>11. PICK S : S = Transition(k, t) OBVIOUS
<1>12. \E g : /\ IsBy(g, S, w, n)
              /\ \E r \in g[n] : calls' = r.calls /\ state' = r.state
  <2> DEFINE by == CHOOSE g : IsBy(g, S, w, n)
  <2>1. IsBy(by, S, w, n) BY <1>1, ByExists
  <2>2. \E r \in by[n] : calls' = r.calls /\ state' = r.state
    BY ZenonT(60), <1>0, <1>8, <1>11 DEF FinishTask, Results, EndedAll, Ended, IsBy
  <2> HIDE DEF by
  <2> QED BY <2>1, <2>2
<1> HIDE DEF tk
<1>13. /\ t \in PolicyState /\ t.calls = s.calls /\ t.inflight = s.inflight
       /\ t.tasks = tk
  BY <1>1, <1>8, <1>10 DEF PolicyState
<1>14. \A x \in Chats : t.tasks[x] = s.tasks[x]
  BY <1>10, <1>13, GateAssumption DEF Sessions
<1>15. ~Off => Known(t)'
  <2>1. ~Off => \A v \in Workers : registry'[v] = "live" <=> t.tasks[v] = "live"
    BY <1>2, <1>4, <1>10, <1>13 DEF Known, Sessions
  <2> QED BY <2>1 DEF Known
<1>16. \A i \in LiveCalls(k) : ~k[i].admitted /\ Dead(k, s, i) => Dead(k, t, i)
  <2> SUFFICES ASSUME NEW i \in LiveCalls(k), Dead(k, s, i) PROVE Dead(k, t, i)
    OBVIOUS
  <2>1. k[i].session \in Sessions BY <1>6 DEF CallsOK, LiveCalls, Call
  <2>2. TaskOf(k, i) # NoSession => TaskOf(k, i) = k[i].session BY DEF TaskOf
  <2> QED BY <2>1, <2>2, <1>10, <1>13 DEF Dead
<1>17. Ready(k, k, t)' BY <1>0, <1>1, <1>13, <1>14, <1>16, Opens
<1>18. PICK g : /\ IsBy(g, S, w, n)
                /\ \E r \in g[n] : calls' = r.calls /\ state' = r.state
  BY <1>12
<1>19. ASSUME NEW r \in g[0] PROVE Through(k, w, 0, r)
  <2>1. r \in Transition(k, t) BY <1>1, <1>11, <1>18 DEF IsBy
  <2>2. PICK d, u : d = r.calls /\ u = r.state OBVIOUS
  <2>3. /\ Good(k, d, u)' /\ Onward(k, d) /\ Alike(k, d)
        /\ \A i \in LiveCalls(k) : d[i].lock_waiting = k[i].lock_waiting
        /\ ~Off => u.tasks = t.tasks
    BY <1>1, <1>3, <1>17, <2>1, <2>2, Transits
  <2>4. WaitersKept(d)' BY <1>5, <2>3, AlikeWaits
  <2>5. Due(d, Later(k, w, 0))' BY <1>7, <2>3, OnwardDue
  <2>6. ~Off => Known(u)'
    <3>1. ~Off => SameWorkers(t, u) BY <2>3 DEF SameWorkers
    <3> QED BY <3>1, <1>15, KnownOn
  <2> QED BY <2>2, <2>3, <2>4, <2>5, <2>6 DEF Through
<1>20. ASSUME NEW m \in Nat, m + 1 <= n, \A r \in g[m] : Through(k, w, m, r)
       PROVE  \A r \in g[m + 1] : Through(k, w, m + 1, r)
  <2>1. g[m + 1] = EndedAll(g[m], w, m + 1)
    <3>1. m + 1 \in 0 .. n /\ m + 1 # 0 /\ (m + 1) - 1 = m BY <1>1, <1>20
    <3> QED BY <3>1, <1>18 DEF IsBy
  <2> SUFFICES ASSUME NEW a \in g[m + 1] PROVE Through(k, w, m + 1, a)
    OBVIOUS
  <2>2. PICK r \in g[m] : a \in Ended(r, w, m + 1) BY <2>1 DEF EndedAll
  <2>3. Through(k, w, m, r) BY <1>20, <2>2
  <2>4. PICK l : l = m + 1 OBVIOUS
  <2>5. Follows(m, l) BY <2>4 DEF Follows
  <2>6. Through(k, w, l, a) BY <2>2, <2>3, <2>4, <2>5, <1>1, <1>3, OnePlace
  <2> QED BY <2>4, <2>6
<1>21. \A r \in g[n] : Through(k, w, n, r)
  <2> DEFINE P == {m \in Nat : m <= n => \A r \in g[m] : Through(k, w, m, r)}
  <2>1. 0 \in P BY <1>19
  <2>2. ASSUME NEW m \in Nat, m \in P PROVE m + 1 \in P
    <3>1. m + 1 <= n => m <= n BY <1>1
    <3> QED BY <3>1, <2>2, <1>20
  <2>3. \A m \in Nat : m \in P
    <3> HIDE DEF P
    <3> QED BY <2>1, <2>2, Induction
  <2> QED BY <2>3, <1>1
<1>22. PICK r \in g[n] : calls' = r.calls /\ state' = r.state BY <1>18
<1>23. PICK c, u : c = r.calls /\ u = r.state OBVIOUS
<1>24. /\ Good(k, c, u)' /\ WaitersKept(c)' /\ Onward(k, c)
       /\ Due(c, Later(k, w, n))' /\ (~Off => Known(u)')
  <2>1. Through(k, w, n, r) BY <1>21, <1>22
  <2> QED BY <2>1, <1>23 DEF Through
<1>25. Due(c, {})'
  <2>1. Later(k, w, n) = {} BY <1>6, <1>1 DEF Later
  <2> QED BY <2>1, <1>24
<1>26. c = calls' /\ u = state' BY <1>22, <1>23
<1> QED BY <1>0, <1>1, <1>3, <1>24, <1>25, <1>26, Closes

----------------------------------------------------------------------------
(* The theorems. *)

LEMMA GateStarts ==
  ASSUME GateInit
  PROVE  GateInv
<1>1. EnvOK BY DEF GateInit, EnvOK, Phases
<1>2. PICK c, s : c = calls /\ s = state OBVIOUS
<1>3. c = [i \in Ids |-> NoCall] /\ LiveCalls(c) = {} BY <1>2 DEF GateInit, LiveCalls
<1>4. CallsOK(c) BY <1>3, FS_EmptySet DEF CallsOK
<1>5. /\ s \in PolicyState /\ s.calls = {} /\ s.inflight = {}
      /\ s.tasks = [x \in Sessions |-> "none"]
  BY <1>2 DEF GateInit, PolicyState, Phases
<1>6. Matched(c, s) BY <1>3, <1>5 DEF Matched, Flying
<1>7. Known(s) BY <1>5 DEF GateInit, Known, Sessions
<1>8. Decided(c, s) BY <1>5 DEF Decided
<1>9. WaitersKept(c) /\ OffSound(c) /\ Due(c, {})
  BY <1>3 DEF WaitersKept, OffSound, Due
<1> QED BY <1>1, <1>2, <1>4, <1>5, <1>6, <1>7, <1>8, <1>9 DEF GateInv

LEMMA GateSteps ==
  ASSUME GateInv, GateNext
  PROVE  GateInv' /\ LimitsStep
<1>1. ASSUME NEW x \in Sessions, NEW kind \in Kinds, NEW i \in Ids, Submit(x, kind, i)
      PROVE  GateInv' /\ LimitsStep
  BY <1>1, SubmitStep
<1>2. ASSUME NEW i \in Ids, FinishCall(i) PROVE GateInv' /\ LimitsStep
  BY <1>2, FinishStep
<1>3. ASSUME NEW i \in Ids, TryPark(i, TRUE) PROVE GateInv' /\ LimitsStep
  BY <1>3, FenceStep
<1>4. ASSUME NEW i \in Ids, TryPark(i, FALSE) PROVE GateInv' /\ LimitsStep
  BY <1>4, RefusedStep
<1>5. ASSUME NEW seen \in {"none", "foreign"}, SetMachine(seen)
      PROVE  GateInv' /\ LimitsStep
  BY <1>5, SetMachineStep
<1>6. ASSUME NEW x \in Chats, Focus(x) PROVE GateInv' /\ LimitsStep
  BY <1>6, FocusStep
<1>7. ASSUME NEW x \in Chats, SetSessionLevel(x) PROVE GateInv' /\ LimitsStep
  BY <1>7, SetLevelStep
<1>8. ASSUME WindowLapses PROVE GateInv' /\ LimitsStep
  BY <1>8, WindowLapsesStep
<1>9. ASSUME NEW w \in Workers, NEW raised \in BOOLEAN, NEW held \in BOOLEAN,
             RegisterTask(w, raised, held)
      PROVE  GateInv' /\ LimitsStep
  BY <1>9, RegisterTaskStep
<1>10. ASSUME NEW w \in Workers, NEW choice \in {"raised", "lower", "later"},
              SetTaskLevel(w, choice)
       PROVE  GateInv' /\ LimitsStep
  BY <1>10, SetTaskLevelStep
<1>11. ASSUME NEW w \in Workers, NEW held \in BOOLEAN, UpdateTask(w, held)
       PROVE  GateInv' /\ LimitsStep
  BY <1>11, UpdateTaskStep
<1>12. ASSUME NEW w \in Workers, FinishTask(w) PROVE GateInv' /\ LimitsStep
  BY <1>12, FinishTaskStep
<1>13. ASSUME NEW w \in Workers, DiscardTask(w) PROVE GateInv' /\ LimitsStep
  BY <1>13, DiscardTaskStep
<1>14. ASSUME NEW x \in Sessions, ForgetSession(x) PROVE GateInv' /\ LimitsStep
  BY <1>14, ForgetStep
<1>15. ASSUME Close PROVE GateInv' /\ LimitsStep
  BY <1>15, CloseStep
<1> QED
  BY <1>1, <1>2, <1>3, <1>4, <1>5, <1>6, <1>7, <1>8, <1>9, <1>10, <1>11, <1>12,
     <1>13, <1>14, <1>15 DEF GateNext

(* The invariant of the gate, of every behaviour: the tables agree, what   *)
(* is held has its reason, and the worker tasks are in step with both.     *)
(* (every handler of gateway/chat_gate.py)                                 *)
THEOREM GateInvHolds == GateSpec => []GateInv
<1>1. GateInit => GateInv BY GateStarts
<1>2. GateInv /\ [GateNext]_gateVars => GateInv'
  <2> SUFFICES ASSUME GateInv, [GateNext]_gateVars PROVE GateInv'
    OBVIOUS
  <2>1. CASE GateNext BY <2>1, GateSteps
  <2>2. CASE UNCHANGED gateVars
    <3>1. EnvOK' BY <2>2 DEF gateVars, GateInv, EnvOK
    <3>2. CallsOK(calls)' BY <2>2 DEF gateVars, GateInv, CallsOK
    <3>3. (state \in PolicyState)' BY <2>2 DEF gateVars, GateInv
    <3>4. (~Off => Matched(calls, state))'
      BY <2>2 DEF gateVars, GateInv, Off, Matched
    <3>5. (~Off => Known(state))' BY <2>2 DEF gateVars, GateInv, Off, Known
    <3>6. (~Off => Decided(calls, state))'
      BY <2>2 DEF gateVars, GateInv, Off, Decided, PolicyKeeps
    <3>7. WaitersKept(calls)' BY <2>2 DEF gateVars, GateInv, WaitersKept, LockKeeps
    <3>8. OffSound(calls)' BY <2>2 DEF gateVars, GateInv, OffSound, Off
    <3>9. Due(calls, {})' BY <2>2 DEF gateVars, GateInv, Due
    <3> QED BY <3>1, <3>2, <3>3, <3>4, <3>5, <3>6, <3>7, <3>8, <3>9 DEF GateInv
  <2> QED BY <2>1, <2>2
<1> QED BY <1>1, <1>2, PTL DEF GateSpec

(* Every variable keeps its type, and no two live calls share a place in   *)
(* the order the calls came in. (submit, submit_mono_us)                   *)
THEOREM GateTypesHold == GateSpec => []GateTypeOK
<1>1. GateInv => GateTypeOK
  BY DEF GateInv, GateTypeOK, EnvOK, CallsOK, PolicyState
<1> QED BY <1>1, GateInvHolds, PTL

(* The gate's table of calls and the policy's agree after every handler:   *)
(* no slot is counted for a call that is gone and none is out uncounted,   *)
(* and what is held the policy will look at again. (submit, finish,        *)
(* finish_task, try_park, _release_lock_waiters, forget)                   *)
THEOREM TablesAgreeAlways == GateSpec => []TablesAgree
<1>1. GateInv => TablesAgree
  <2> SUFFICES ASSUME GateInv PROVE TablesAgree
    OBVIOUS
  <2>1. ASSUME Enforced PROVE Matched(calls, state)
    BY <2>1 DEF GateInv, Enforced, Off
  <2>2. \A i \in LiveCalls(calls) : calls[i].admitted => ~calls[i].lock_waiting /\ ~calls[i].park_fenced
    BY DEF GateInv, CallsOK
  <2>3. ASSUME Enforced
        PROVE  /\ state.inflight = InFlight
               /\ state.calls \ state.inflight =
                    {i \in LiveCalls(calls) : /\ Waits(i) /\ ~calls[i].lock_waiting
                                              /\ ~calls[i].park_fenced}
    <3>1. state.inflight = Flying(calls)
          /\ state.calls = {i \in LiveCalls(calls) : ~calls[i].lock_waiting /\ ~calls[i].park_fenced}
      BY <2>1, <2>3 DEF Matched
    <3>2. \A i \in LiveCalls(calls) : i \in Flying(calls) <=> ~Waits(i) BY DEF Flying, Waits
    <3> QED BY <3>1, <3>2 DEF InFlight
  <2>4. ASSUME NEW i \in Ids, Waits(i)
        PROVE  ~closed /\ (calls[i].session \in Workers => registry[calls[i].session] = "live")
    <3>1. i \in LiveCalls(calls) /\ ~calls[i].admitted BY <2>4 DEF Waits
    <3>2. ~closed BY <3>1 DEF GateInv, OffSound, Off
    <3>3. calls[i].session \in Workers => registry[calls[i].session] = "live"
      BY <3>1 DEF GateInv, Due
    <3> QED BY <3>2, <3>3
  <2> QED BY <2>3, <2>4 DEF TablesAgree
<1> QED BY <1>1, GateInvHolds, PTL

(* No call is left behind: whatever ends a reason to hold one decides      *)
(* again in the same handler, so each call that waits has a reason that    *)
(* still stands. (_transition after each event, _release_lock_waiters)     *)
THEOREM HeldForReasons == GateSpec => []HeldForAReason
<1>1. GateInv => HeldForAReason
  <2> SUFFICES ASSUME GateInv, NEW i \in Ids, Waits(i), ~calls[i].park_fenced,
                      ~LockKeeps(calls, i)
               PROVE  i \in state.calls /\ (\/ lock = "foreign"
                                            \/ LaneKeeps(calls, i)
                                            \/ PolicyKeeps(calls, state, i))
    BY DEF HeldForAReason
  <2>1. i \in LiveCalls(calls) /\ ~calls[i].admitted BY DEF Waits
  <2>2. ~calls[i].lock_waiting BY <2>1 DEF GateInv, WaitersKept
  <2>3. ~Off BY <2>1, <2>2 DEF GateInv, OffSound
  <2>4. Matched(calls, state) /\ Known(state) /\ Decided(calls, state)
    BY <2>3 DEF GateInv
  <2>5. i \in state.calls \ state.inflight BY <2>1, <2>2, <2>4 DEF Matched, Flying
  <2>6. ~Dead(calls, state, i)
    <3>1. ASSUME Dead(calls, state, i) PROVE FALSE
      <4>1. /\ TaskOf(calls, i) = calls[i].session
            /\ state.tasks[calls[i].session] # "live"
            /\ calls[i].session \in Workers \/ Planning(calls, i)
        BY <3>1 DEF Dead, TaskOf
      <4>2. CASE calls[i].session \in Workers
        <5>1. registry[calls[i].session] = "live" BY <2>1, <4>2 DEF GateInv, Due
        <5> QED BY <5>1, <4>1, <4>2, <2>4 DEF Known
      <4>3. CASE calls[i].session \notin Workers
        <5>1. calls[i].session \in Chats
          BY <2>1, <4>3 DEF GateInv, CallsOK, LiveCalls, Call, Sessions
        <5> QED BY <5>1, <4>1, <4>3, <2>4, <2>5 DEF Matched
      <4> QED BY <4>2, <4>3
    <3> QED BY <3>1
  <2> QED BY <2>4, <2>5, <2>6 DEF Decided
<1> QED BY <1>1, GateInvHolds, PTL

(* No decision lets a call out under a foreign lock, a second one out on   *)
(* the lane, or one of the others past their limit or the background cap,  *)
(* whatever handler decides and however often. (admit_lane, _Pass.run,     *)
(* set_machine, _release_lock_waiters, finish_task)                        *)
THEOREM LimitsKept == GateSpec => AdmittedWithinLimits
<1> DEFINE out == Flying(calls')
           sent == {i \in out : i \notin LiveCalls(calls) \/ ~calls[i].admitted}
           planned(all) == {i \in all : IsHoldable(calls', i)}
           lower(all) == {i \in planned(all) : calls'[i].session \notin urgent'}
           focused(all) == state'.window \/ \E i \in all : IsLane(calls', i)
           A == /\ sent # {} /\ ~closed => lock' # "foreign"
                /\ Enforced =>
                    /\ Cardinality({i \in out : IsLane(calls', i)}) <= 1
                    /\ planned(sent) # {} => Cardinality(planned(out)) <= Limit
                    /\ lower(sent) # {} =>
                        \/ Cardinality(lower(out)) <= NFg /\ focused(out)
                        \/ Cardinality(lower(out)) <= NA /\ ~focused(out \ sent)
<1>1. LimitsStep => A
  <2> SUFFICES ASSUME LimitsStep PROVE A
    OBVIOUS
  <2>1. PICK k, c, s : k = calls /\ c = calls' /\ s = state' /\ Kept(k, c, s)
    BY DEF LimitsStep
  <2>2. /\ out = Flying(c) /\ sent = Sent(k, c)
        /\ \A f : planned(f) = Planned(c, f)
        /\ \A f : lower(f) = Lower(c, f)'
        /\ \A f : focused(f) <=> Focused(c, s, f)
    BY <2>1 DEF Sent, Planned, Lower, Focused
  <2>3. {i \in out : IsLane(calls', i)} = {i \in Flying(c) : IsLane(c, i)} BY <2>1
  <2> HIDE DEF out, sent, planned, lower, focused
  <2>4. sent # {} /\ ~closed => lock' # "foreign" BY <2>1, <2>2 DEF Kept
  <2>5. ASSUME Enforced
        PROVE  /\ Cardinality({i \in out : IsLane(calls', i)}) <= 1
               /\ planned(sent) # {} => Cardinality(planned(out)) <= Limit
               /\ lower(sent) # {} =>
                   \/ Cardinality(lower(out)) <= NFg /\ focused(out)
                   \/ Cardinality(lower(out)) <= NA /\ ~focused(out \ sent)
    <3>1. Cardinality({i \in Flying(c) : IsLane(c, i)}) <= 1 BY <2>1, <2>5 DEF Kept
    <3>2. Within(k, c, s)' BY <2>1, <2>5 DEF Kept
    <3>3. /\ Planned(c, Sent(k, c)) # {} => Cardinality(Planned(c, Flying(c))) <= Limit
          /\ Lower(c, Sent(k, c))' # {} =>
               \/ Cardinality(Lower(c, Flying(c))') <= NFg /\ Focused(c, s, Flying(c))
               \/ /\ Cardinality(Lower(c, Flying(c))') <= NA
                  /\ ~Focused(c, s, Flying(c) \ Sent(k, c))
      BY <3>2 DEF Within
    <3> QED BY <3>1, <3>3, <2>2, <2>3
  <2> QED BY <2>4, <2>5
<1>2. GateInv /\ [GateNext]_gateVars => [A]_gateVars
  <2> HIDE DEF A
  <2> QED BY <1>1, GateSteps
<1>3. GateSpec => [][A]_gateVars
  <2> HIDE DEF A
  <2> QED BY <1>2, GateInvHolds, PTL DEF GateSpec
<1> QED BY <1>3, PTL DEF AdmittedWithinLimits
=============================================================================
