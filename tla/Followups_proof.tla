--------------------------- MODULE Followups_proof ---------------------------
(***************************************************************************)
(* What holds of a chat's follow-ups for any number of ends, messages,     *)
(* Stops and restarts: none runs twice, a message of the person's gets at  *)
(* most two beside the Ready ones and at most one continue, and none comes *)
(* back from a Stop.                                                       *)
(***************************************************************************)
EXTENDS Followups, SequenceTheorems, FiniteSetTheorems, TLAPS

(* The follow-ups that wait, are under way, or have begun their turn.      *)
Values(s) == {s[n] : n \in DOMAIN s}
InHand == IF FollowAt("idle") THEN {} ELSE {follow.item}
Items == Values(waiting) \cup InHand \cup Values(past.began)
EndsOf(items) == {i.end : i \in items}
Distinct(s) == \A n, other \in DOMAIN s : s[n].end = s[other].end => n = other

PastOK == past \in [began : Seq(Item), continued : Seq(Item), stopped : SUBSET Nat,
                    lost : SUBSET Nat]

InTurn == follow.at \in {"turn", "alone"}

(* Who holds the task's lock, and what stays true while it is held.        *)
LockSound ==
    /\ meta.end <= task.ends /\ meta.under <= person.newest
    /\ lock = "look" => /\ meta.end < looks.end /\ looks.end <= task.ends
                        /\ task.ends = looks.end => looks.ready = (task.why = "ready")
    /\ lock = "continue" => /\ InTurn /\ follow.item.under = meta.under
                            /\ meta.continued
    /\ stop.at = "keep" <=> lock = "stop"

(* A follow-up is of an end that meta has reached, and of a message no     *)
(* newer than meta's.                                                      *)
ItemSound(i) ==
    /\ 0 < i.end /\ i.end <= meta.end /\ i.under <= meta.under
    /\ i.end = meta.end => i.under = meta.under

(* An end has one follow-up, and what meta says of it is how far it is.    *)
Unbegun == {"still", "skip", "ready", "starting", "again"}
OneEach ==
    /\ Distinct(waiting) /\ Distinct(past.began)
    /\ EndsOf(Values(waiting)) \cap (EndsOf(InHand) \cup EndsOf(Values(past.began))) = {}
    /\ follow.at \in Unbegun => follow.item.end \notin EndsOf(Values(past.began))
    /\ meta.stage = "queued" => meta.end \notin EndsOf(Values(past.began))

StageSound ==
    /\ \A i \in Values(waiting) : i.end = meta.end => meta.stage \in {"queued", "stopped"}
    /\ follow.item.end = meta.end =>
          /\ follow.at \in {"still", "skip", "ready"} => meta.stage \in {"queued", "stopped"}
          /\ follow.at \in {"starting", "again"} => meta.stage \in {"began", "stopped"}

(* The ends that count for one message of the person's: of the follow-ups  *)
(* that are not Ready, and the one a restart would queue again.            *)
Pending(e, turn) ==
    /\ meta.stage \in {"queued", "began"} /\ task.ends = meta.end /\ task.why # "ready"
    /\ e = meta.end /\ meta.under = turn
CountsFor(turn) ==
    {e \in 1..meta.end : \/ \E i \in Items : i.end = e /\ ~i.ready /\ i.under = turn
                         \/ Pending(e, turn)}

CountSound ==
    \A turn \in Nat :
        /\ Cardinality(CountsFor(turn)) <= PerMessage
        /\ turn = meta.under => Cardinality(CountsFor(turn)) <= meta.count

ContinueSound ==
    /\ \A n \in DOMAIN past.continued :
          /\ past.continued[n].under <= meta.under
          /\ past.continued[n].under = meta.under => meta.continued /\ lock # "continue"
    /\ \A n, other \in DOMAIN past.continued :
          past.continued[n].under = past.continued[other].under => n = other

StopSound ==
    /\ \A end \in past.stopped : end <= meta.end
    /\ stop.at = "keep" => waiting = <<>> /\ (follow.at \in Underway => follow.item.stopped)

FollowInv ==
    /\ FollowTypeOK /\ PastOK /\ LockSound /\ \A i \in Items : ItemSound(i)
    /\ OneEach /\ StageSound /\ CountSound /\ ContinueSound /\ StopSound /\ StopHolds
-----------------------------------------------------------------------------
(* Queues *)

LEMMA AppendItem ==
    ASSUME NEW s \in Seq(Item), NEW x \in Item
    PROVE  /\ Append(s, x) \in Seq(Item) /\ Values(Append(s, x)) = Values(s) \cup {x}
           /\ Distinct(s) /\ x.end \notin EndsOf(Values(s)) => Distinct(Append(s, x))
<1> DEFINE longer == Append(s, x)
<1>1. /\ longer \in Seq(Item) /\ Len(longer) = Len(s) + 1 /\ longer[Len(s) + 1] = x
      /\ \A n \in 1..Len(s) : longer[n] = s[n]
    BY AppendProperties
<1>2. /\ Len(s) \in Nat /\ DOMAIN s = 1..Len(s) /\ DOMAIN longer = 1..Len(s) + 1
    BY <1>1, LenProperties
<1> HIDE DEF longer
<1>3. DOMAIN longer = DOMAIN s \cup {Len(s) + 1} /\ Len(s) + 1 \notin DOMAIN s
    BY <1>2
<1>4. Values(longer) = Values(s) \cup {x}
    BY <1>1, <1>2, <1>3 DEF Values
<1>5. ASSUME Distinct(s), x.end \notin EndsOf(Values(s)) PROVE Distinct(longer)
    BY <1>1, <1>2, <1>3, <1>5 DEF Distinct, EndsOf, Values
<1> QED BY <1>1, <1>4, <1>5 DEF longer

LEMMA TailItem ==
    ASSUME NEW s \in Seq(Item), s # <<>>
    PROVE  /\ Head(s) \in Item /\ Tail(s) \in Seq(Item)
           /\ Values(s) = Values(Tail(s)) \cup {Head(s)}
           /\ Distinct(s) => Distinct(Tail(s)) /\ Head(s).end \notin EndsOf(Values(Tail(s)))
<1> DEFINE rest == Tail(s)
<1>1. /\ Head(s) \in Item /\ rest \in Seq(Item) /\ Head(s) = s[1]
      /\ Len(rest) = Len(s) - 1 /\ \A n \in 1..Len(rest) : rest[n] = s[n + 1]
    BY HeadTailProperties
<1>2. /\ Len(s) \in Nat /\ DOMAIN s = 1..Len(s) /\ DOMAIN rest = 1..Len(rest) /\ Len(s) # 0
    BY <1>1, LenProperties, EmptySeq
<1> HIDE DEF rest
<1>3. \A n \in DOMAIN rest : n + 1 \in DOMAIN s /\ n + 1 # 1 /\ rest[n] = s[n + 1]
    BY <1>1, <1>2
<1>4. \A n \in DOMAIN s : n = 1 \/ (n - 1 \in DOMAIN rest /\ rest[n - 1] = s[n])
  <2>1. ASSUME NEW n \in DOMAIN s, n # 1 PROVE n - 1 \in DOMAIN rest /\ (n - 1) + 1 = n
      BY <1>1, <1>2, <2>1
  <2> QED BY <1>3, <2>1
<1>5. 1 \in DOMAIN s
    BY <1>2
<1>6. Values(s) = Values(rest) \cup {Head(s)}
  <2>1. \A n \in DOMAIN s : s[n] \in Values(rest) \cup {Head(s)}
      BY <1>1, <1>4 DEF Values
  <2>2. \A n \in DOMAIN rest : rest[n] \in Values(s)
      BY <1>3 DEF Values
  <2>3. Head(s) \in Values(s)
      BY <1>1, <1>5 DEF Values
  <2> QED BY <2>1, <2>2, <2>3 DEF Values
<1>7. ASSUME Distinct(s) PROVE Distinct(rest) /\ Head(s).end \notin EndsOf(Values(rest))
  <2>1. Distinct(rest)
      BY <1>2, <1>3, <1>7 DEF Distinct
  <2>2. \A n \in DOMAIN rest : rest[n].end # s[1].end
      BY <1>3, <1>5, <1>7 DEF Distinct
  <2> QED BY <1>1, <2>1, <2>2 DEF EndsOf, Values
<1> QED BY <1>1, <1>6, <1>7 DEF rest

LEMMA OneItem ==
    ASSUME NEW x \in Item
    PROVE  <<x>> \in Seq(Item) /\ Values(<<x>>) = {x} /\ Distinct(<<x>>)
<1>1. <<x>> \in Seq(Item) /\ DOMAIN <<x>> = {1} /\ <<x>>[1] = x
    OBVIOUS
<1> QED BY <1>1 DEF Values, Distinct

LEMMA NoItems == <<>> \in Seq(Item) /\ Values(<<>>) = {} /\ Distinct(<<>>)
BY EmptySeq DEF Values, Distinct

LEMMA FrontItem ==
    ASSUME NEW s \in Seq(Item), NEW x \in Item
    PROVE  /\ <<x>> \o s \in Seq(Item) /\ Values(<<x>> \o s) = Values(s) \cup {x}
           /\ Distinct(s) /\ x.end \notin EndsOf(Values(s)) => Distinct(<<x>> \o s)
<1> DEFINE longer == <<x>> \o s
<1>1. <<x>> \in Seq(Item) /\ Len(<<x>>) = 1 /\ <<x>>[1] = x
    OBVIOUS
<1>2. /\ longer \in Seq(Item) /\ Len(longer) = 1 + Len(s)
      /\ \A n \in 1..1 + Len(s) : longer[n] = IF n <= 1 THEN <<x>>[n] ELSE s[n - 1]
    BY <1>1, ConcatProperties
<1>3. Len(s) \in Nat /\ DOMAIN s = 1..Len(s) /\ DOMAIN longer = 1..1 + Len(s)
    BY <1>2, LenProperties
<1> HIDE DEF longer
<1>4. /\ 1 \in DOMAIN longer /\ longer[1] = x
      /\ \A n \in DOMAIN longer : n # 1 => n - 1 \in DOMAIN s /\ longer[n] = s[n - 1]
    BY <1>1, <1>2, <1>3
<1>5. \A n \in DOMAIN s : n + 1 \in DOMAIN longer /\ longer[n + 1] = s[n]
  <2>1. ASSUME NEW n \in DOMAIN s
        PROVE  n + 1 \in DOMAIN longer /\ n + 1 # 1 /\ (n + 1) - 1 = n
      BY <1>3
  <2> QED BY <1>4, <2>1
<1>6. Values(longer) = Values(s) \cup {x}
    BY <1>4, <1>5 DEF Values
<1>7. ASSUME Distinct(s), x.end \notin EndsOf(Values(s)) PROVE Distinct(longer)
  <2> SUFFICES ASSUME NEW n \in DOMAIN longer, NEW other \in DOMAIN longer,
                      longer[n].end = longer[other].end
               PROVE  n = other
      BY DEF Distinct
  <2>1. \A m \in DOMAIN s : s[m].end # x.end
      BY <1>7 DEF EndsOf, Values
  <2>2. n # 1 /\ other # 1 => n - 1 = other - 1
      BY <1>4, <1>7 DEF Distinct
  <2>3. n \in Nat /\ other \in Nat
      BY <1>3
  <2> QED BY <1>4, <2>1, <2>2, <2>3
<1> QED BY <1>2, <1>6, <1>7 DEF longer
-----------------------------------------------------------------------------
(* A step *)

LEMMA Facts ==
    ASSUME FollowInv
    PROVE  /\ task.ends \in Nat /\ meta.end \in Nat /\ meta.under \in Nat
           /\ meta.count \in 0..PerMessage /\ person.newest \in Nat
           /\ waiting \in Seq(Item) /\ follow.item \in Item /\ past.began \in Seq(Item)
           /\ follow \in [at : Stations, item : Item, did : {"none", "skipped", "stopped"}]
           /\ meta \in [under : Nat, count : 0..PerMessage, continued : BOOLEAN,
                        end : Nat, stage : Stages]
           /\ past.continued \in Seq(Item)
           /\ Items \subseteq Item
           /\ \A turn : CountsFor(turn) \subseteq 1..meta.end
           /\ \A turn : IsFiniteSet(CountsFor(turn)) /\ Cardinality(CountsFor(turn)) \in Nat
<1>1. /\ FollowTypeOK /\ PastOK
    BY DEF FollowInv
<1>2. /\ task.ends \in Nat /\ meta.end \in Nat /\ meta.under \in Nat
      /\ meta.count \in 0..PerMessage /\ person.newest \in Nat
      /\ waiting \in Seq(Item) /\ follow.item \in Item /\ past.began \in Seq(Item)
      /\ past.continued \in Seq(Item)
    BY <1>1 DEF FollowTypeOK, PastOK
<1>3. \A s \in Seq(Item) : Values(s) \subseteq Item
  <2> SUFFICES ASSUME NEW s \in Seq(Item), NEW n \in DOMAIN s PROVE s[n] \in Item
      BY DEF Values
  <2> QED BY LenProperties
<1>4. Items \subseteq Item
    BY <1>2, <1>3 DEF Items, InHand
<1>5. ASSUME NEW turn PROVE IsFiniteSet(CountsFor(turn)) /\ Cardinality(CountsFor(turn)) \in Nat
  <2>1. CountsFor(turn) \subseteq 1..meta.end
      BY DEF CountsFor
  <2>2. IsFiniteSet(1..meta.end)
    <3>1. 1 \in Int /\ meta.end \in Int
        BY <1>2
    <3> QED BY <3>1, FS_Interval
  <2> QED BY <2>1, <2>2, FS_Subset, FS_CardinalityType
<1> QED BY <1>1, <1>2, <1>4, <1>5 DEF FollowTypeOK, CountsFor

(* A step after which no other end counts for a message. *)
LEMMA CountStays ==
    ASSUME FollowInv, meta'.under = meta.under, meta'.count = meta.count,
           \A turn : CountsFor(turn)' \subseteq CountsFor(turn)
    PROVE  CountSound'
<1> SUFFICES ASSUME NEW turn \in Nat
             PROVE  /\ Cardinality(CountsFor(turn)') <= PerMessage
                    /\ turn = meta.under => Cardinality(CountsFor(turn)') <= meta.count
    BY DEF CountSound
<1>1. CountsFor(turn)' \subseteq CountsFor(turn)
    OBVIOUS
<1>2. /\ Cardinality(CountsFor(turn)) <= PerMessage /\ Cardinality(CountsFor(turn)) \in Nat
      /\ turn = meta.under => Cardinality(CountsFor(turn)) <= meta.count
      /\ IsFiniteSet(CountsFor(turn))
    BY Facts DEF FollowInv, CountSound
<1>3. /\ Cardinality(CountsFor(turn)') \in Nat
      /\ Cardinality(CountsFor(turn)') <= Cardinality(CountsFor(turn))
    BY <1>1, <1>2, FS_Subset, FS_CardinalityType
<1>4. meta.count \in Nat
    BY Facts DEF PerMessage
<1> QED BY <1>2, <1>3, <1>4 DEF PerMessage

(* A step that queues no follow-up for another end. *)
LEMMA StepKeeps ==
    ASSUME FollowInv, FollowTypeOK', PastOK', LockSound', OneEach', StageSound', ContinueSound',
           StopSound', StopHolds',
           meta'.under = meta.under, meta'.count = meta.count, meta.end <= meta'.end,
           \A i \in Items' : \E j \in Items :
               j.end = i.end /\ j.ready = i.ready /\ j.under = i.under,
           \A e, turn : Pending(e, turn)' => Pending(e, turn)
    PROVE  FollowInv'
<1>1. meta.end \in Nat /\ meta'.end \in Nat /\ Items \subseteq Item
    BY Facts DEF FollowTypeOK
<1>2. ASSUME NEW i \in Items' PROVE ItemSound(i)'
  <2> PICK j \in Items : j.end = i.end /\ j.ready = i.ready /\ j.under = i.under
      OBVIOUS
  <2>1. ItemSound(j) /\ j.end \in Nat
      BY <1>1 DEF FollowInv, Item
  <2> QED BY <1>1, <2>1 DEF ItemSound
<1>3. ASSUME NEW turn PROVE CountsFor(turn)' \subseteq CountsFor(turn)
  <2> SUFFICES ASSUME NEW e \in CountsFor(turn)' PROVE e \in CountsFor(turn)
      OBVIOUS
  <2>1. CASE Pending(e, turn)'
    <3>1. Pending(e, turn) /\ e = meta.end /\ e >= 1
        BY <2>1 DEF Pending, CountsFor
    <3> QED BY <1>1, <3>1 DEF CountsFor
  <2>2. CASE \E i \in Items' : i.end = e /\ ~i.ready /\ i.under = turn
    <3>1. PICK j \in Items : j.end = e /\ ~j.ready /\ j.under = turn
        BY <2>2
    <3>2. j.end \in Nat /\ 0 < j.end /\ j.end <= meta.end
        BY <1>1 DEF FollowInv, ItemSound, Item
    <3> QED BY <1>1, <3>1, <3>2 DEF CountsFor
  <2> QED BY <2>1, <2>2 DEF CountsFor
<1>4. CountSound'
    BY <1>3, CountStays
<1> QED BY <1>2, <1>4 DEF FollowInv

(* The queue and what the follow-ups did stay; the one under way may move  *)
(* on, and meta may say so.                                                *)
LEMMA LostOrNot ==
    ASSUME FollowInv, FollowTypeOK', LockSound', PastOK', UNCHANGED waiting,
           past'.began = past.began, past'.continued = past.continued,
           past'.stopped = past.stopped,
           meta'.end = meta.end, meta'.under = meta.under, meta'.count = meta.count,
           meta'.continued = meta.continued,
           \/ meta'.stage = meta.stage
           \/ /\ ~FollowAt("idle") /\ follow.item.end = meta.end /\ meta.stage # "stopped"
              /\ meta'.stage \in {"queued", "began"} => meta.stage \in {"queued", "began"}
              /\ meta'.stage = "queued" => follow.at \in Unbegun,
           \/ follow'.at = "idle"
           \/ /\ ~FollowAt("idle") /\ follow'.item.end = follow.item.end
              /\ follow'.item.ready = follow.item.ready /\ follow'.item.under = follow.item.under
              /\ follow.item.stopped => follow'.item.stopped
              /\ follow'.at \in Unbegun => follow.at \in Unbegun
              /\ follow'.at \in Underway => follow.at \in Underway,
           follow'.item.end = meta.end =>
               /\ follow'.at \in {"still", "skip", "ready"} => meta'.stage \in {"queued", "stopped"}
               /\ follow'.at \in {"starting", "again"} => meta'.stage \in {"began", "stopped"},
           (task'.ends = task.ends /\ task'.why = task.why) \/ task'.ends > task.ends,
           lock' = "continue" => lock = "continue", stop'.at = "keep" => stop.at = "keep"
    PROVE  FollowInv'
<1>1. /\ OneEach /\ StageSound /\ ContinueSound /\ StopSound /\ StopHolds /\ PastOK /\ LockSound
    BY DEF FollowInv
<1>2. \A i \in InHand' : ~FollowAt("idle") /\ i = follow'.item
    BY DEF InHand, FollowAt
<1>3. \A i \in InHand' : follow.item \in InHand /\ i.end = follow.item.end
                            /\ i.ready = follow.item.ready /\ i.under = follow.item.under
    BY <1>2 DEF InHand, FollowAt
<1>4. EndsOf(InHand') \subseteq EndsOf(InHand)
    BY <1>3 DEF EndsOf
<1>5. \A e \in EndsOf(Values(waiting)) : ~FollowAt("idle") => e # follow.item.end
    BY <1>1 DEF OneEach, EndsOf, InHand
<1>6. OneEach'
  <2>1. follow'.at \in Unbegun => follow.at \in Unbegun /\ follow'.item.end = follow.item.end
      BY DEF Unbegun
  <2>2. meta'.stage = "queued" => meta'.end \notin EndsOf(Values(past.began))
      BY <1>1 DEF OneEach
  <2>3. Values(waiting)' = Values(waiting) /\ Values(past.began)' = Values(past.began)
        /\ Distinct(waiting)' = Distinct(waiting) /\ Distinct(past.began)' = Distinct(past.began)
      OBVIOUS
  <2>4. follow'.at \in Unbegun => follow'.item.end \notin EndsOf(Values(past.began))
      BY <1>1, <2>1 DEF OneEach
  <2>5. EndsOf(Values(waiting)) \cap (EndsOf(InHand') \cup EndsOf(Values(past.began))) = {}
      BY <1>1, <1>4 DEF OneEach
  <2>6. Distinct(waiting) /\ Distinct(past.began)
      BY <1>1 DEF OneEach
  <2> QED BY <2>2, <2>3, <2>4, <2>5, <2>6 DEF OneEach
<1>7. StageSound'
  <2>1. \A i \in Values(waiting) : i.end = meta'.end => meta'.stage \in {"queued", "stopped"}
      BY <1>1, <1>5 DEF StageSound, EndsOf
  <2> QED BY <2>1 DEF StageSound
<1>8. ContinueSound' /\ StopSound' /\ StopHolds'
  <2>1. ContinueSound'
      BY <1>1 DEF ContinueSound
  <2>2. StopSound'
    <3>1. follow'.at \in Underway =>
             follow.at \in Underway /\ (follow.item.stopped => follow'.item.stopped)
        BY DEF Underway, FollowAt
    <3> QED BY <1>1, <3>1 DEF StopSound
  <2>3. StopHolds'
    <3> SUFFICES ASSUME NEW end \in past.stopped, follow'.item.end = end
                 PROVE  /\ lock' # "continue"
                        /\ follow'.at \in Underway => follow'.item.stopped
        BY <1>1 DEF StopHolds
    <3>1. CASE follow'.at = "idle"
        BY <3>1, <1>1 DEF LockSound, InTurn, Underway
    <3>2. CASE follow'.item.end = follow.item.end
        BY <1>1, <3>2 DEF StopHolds, Underway, FollowAt
    <3> QED BY <3>1, <3>2
  <2> QED BY <2>1, <2>2, <2>3
<1>9. ASSUME NEW i \in Items'
      PROVE  \E j \in Items : j.end = i.end /\ j.ready = i.ready /\ j.under = i.under
    BY <1>3 DEF Items
<1>10. \A e, turn : Pending(e, turn)' => Pending(e, turn)
  <2>1. task'.ends = meta.end => task'.ends = task.ends /\ task'.why = task.why
      BY <1>1, Facts DEF LockSound, FollowTypeOK, InTurn
  <2> QED BY <2>1 DEF Pending
<1>11. meta.end <= meta'.end
    BY Facts
<1> QED BY <1>6, <1>7, <1>8, <1>9, <1>10, <1>11, StepKeeps

LEMMA QueueStays ==
    ASSUME FollowInv, FollowTypeOK', LockSound', UNCHANGED <<waiting, past>>,
           meta'.end = meta.end, meta'.under = meta.under, meta'.count = meta.count,
           meta'.continued = meta.continued,
           \/ meta'.stage = meta.stage
           \/ /\ ~FollowAt("idle") /\ follow.item.end = meta.end /\ meta.stage # "stopped"
              /\ meta'.stage \in {"queued", "began"} => meta.stage \in {"queued", "began"}
              /\ meta'.stage = "queued" => follow.at \in Unbegun,
           \/ follow'.at = "idle"
           \/ /\ ~FollowAt("idle") /\ follow'.item.end = follow.item.end
              /\ follow'.item.ready = follow.item.ready /\ follow'.item.under = follow.item.under
              /\ follow.item.stopped => follow'.item.stopped
              /\ follow'.at \in Unbegun => follow.at \in Unbegun
              /\ follow'.at \in Underway => follow.at \in Underway,
           follow'.item.end = meta.end =>
               /\ follow'.at \in {"still", "skip", "ready"} => meta'.stage \in {"queued", "stopped"}
               /\ follow'.at \in {"starting", "again"} => meta'.stage \in {"began", "stopped"},
           (task'.ends = task.ends /\ task'.why = task.why) \/ task'.ends > task.ends,
           lock' = "continue" => lock = "continue", stop'.at = "keep" => stop.at = "keep"
    PROVE  FollowInv'
<1>1. PastOK'
    BY DEF FollowInv, PastOK
<1> QED BY <1>1, LostOrNot
-----------------------------------------------------------------------------
(* The types, and who holds the lock *)

LEMMA MetaMarked ==
    ASSUME FollowInv, NEW end, NEW stage \in Stages
    PROVE  /\ Marked(end, stage) \in [under : Nat, count : 0..PerMessage, continued : BOOLEAN,
                                      end : Nat, stage : Stages]
           /\ Marked(end, stage).end = meta.end /\ Marked(end, stage).under = meta.under
           /\ Marked(end, stage).count = meta.count
           /\ Marked(end, stage).continued = meta.continued
           /\ Marked(end, stage).stage =
                 IF meta.end # end \/ meta.stage = "stopped" THEN meta.stage ELSE stage
BY Facts DEF Marked

LEMMA FollowMoves ==
    ASSUME FollowInv, NEW at \in Stations, Moves(at)
    PROVE  /\ follow' \in [at : Stations, item : Item, did : {"none", "skipped", "stopped"}]
           /\ follow'.at = at /\ follow'.item = follow.item
BY Facts DEF Moves

LEMMA FollowSettles ==
    ASSUME FollowInv, NEW at \in Stations, NEW did \in {"none", "skipped", "stopped"},
           Settles(at, did)
    PROVE  /\ follow' \in [at : Stations, item : Item, did : {"none", "skipped", "stopped"}]
           /\ follow'.at = at /\ follow'.item = follow.item /\ follow'.did = did
BY Facts DEF Settles

LEMMA FollowLeaves ==
    ASSUME Leaves
    PROVE  /\ follow' \in [at : Stations, item : Item, did : {"none", "skipped", "stopped"}]
           /\ follow'.at = "idle" /\ follow'.item = NoItem
BY DEF Leaves, NoFollow, NoItem, Item, Stations

LEMMA FollowStopped ==
    ASSUME FollowInv, StopRunning
    PROVE  /\ follow' \in [at : Stations, item : Item, did : {"none", "skipped", "stopped"}]
           /\ follow'.at = follow.at /\ follow'.item.end = follow.item.end
           /\ follow'.item.ready = follow.item.ready /\ follow'.item.under = follow.item.under
           /\ follow'.item.may = follow.item.may /\ follow'.item.continued = follow.item.continued
           /\ follow.at \in Underway => follow'.item.stopped = TRUE
           /\ follow.at \notin Underway => follow' = follow
BY Facts DEF StopRunning, Item, FollowAt
-----------------------------------------------------------------------------
(* The person's steps, the task's, and the looks that queue nothing *)

LEMMA FollowStays ==
    ASSUME FollowInv, FollowTypeOK', LockSound', UNCHANGED <<meta, follow, stop, waiting, past>>,
           (task'.ends = task.ends /\ task'.why = task.why) \/ task'.ends > task.ends,
           lock' = "continue" => lock = "continue"
    PROVE  FollowInv'
<1>1. follow.item.end = meta.end =>
         /\ follow.at \in {"still", "skip", "ready"} => meta.stage \in {"queued", "stopped"}
         /\ follow.at \in {"starting", "again"} => meta.stage \in {"began", "stopped"}
    BY DEF FollowInv, StageSound
<1> QED BY <1>1, QueueStays DEF FollowAt

LEMMA TaskKeeps ==
    ASSUME FollowInv, (\E why \in Whys : TaskStops(why)) \/ PersonContinues \/ SwitchOff
    PROVE  FollowInv'
<1>1. CASE \E why \in Whys : TaskStops(why)
  <2> PICK why \in Whys : TaskStops(why)
      BY <1>1
  <2>1. task' \in [ends : Nat, open : BOOLEAN, why : Whys] /\ task'.ends = task.ends + 1
      BY Facts DEF TaskStops
  <2>2. FollowTypeOK'
      BY <2>1, Facts, SMTT(20) DEF FollowInv, FollowTypeOK, TaskStops
  <2>3. LockSound'
    <3>1. UNCHANGED <<chat, person, meta, lock, looks, seen, waiting, follow, stop, on, past>>
        BY DEF TaskStops
    <3>2. LockSound /\ looks.end \in Nat /\ task.ends \in Nat /\ meta.end \in Nat
        BY Facts DEF FollowInv, FollowTypeOK
    <3>3. lock = "look" => looks.end <= task'.ends /\ task'.ends # looks.end
        BY <2>1, <3>2 DEF LockSound, InTurn
    <3>4. meta.end <= task'.ends
        BY <2>1, <3>2 DEF LockSound, InTurn
    <3> QED BY <3>1, <3>2, <3>3, <3>4 DEF LockSound, FollowAt, InTurn
  <2> QED BY <2>1, <2>2, <2>3, Facts, FollowStays DEF TaskStops
<1>2. CASE PersonContinues
  <2>1. /\ task' \in [ends : Nat, open : BOOLEAN, why : Whys]
        /\ task'.ends = task.ends /\ task'.why = task.why
      BY <1>2 DEF PersonContinues, FollowInv, FollowTypeOK
  <2>2. FollowTypeOK'
      BY <1>2, <2>1 DEF FollowInv, FollowTypeOK, PersonContinues
  <2>3. LockSound'
      BY <1>2, <2>1 DEF FollowInv, LockSound, PersonContinues, FollowAt, InTurn
  <2> QED BY <1>2, <2>1, <2>2, <2>3, FollowStays DEF PersonContinues
<1>3. CASE SwitchOff
  <2>1. FollowTypeOK'
    <3>1. on' \in BOOLEAN
        BY <1>3 DEF SwitchOff
    <3>2. UNCHANGED <<task, chat, person, meta, lock, heard, looks, seen, waiting, follow, stop, past>>
        BY <1>3 DEF SwitchOff
    <3> QED BY <3>1, <3>2 DEF FollowInv, FollowTypeOK
  <2>2. LockSound'
      BY <1>3 DEF FollowInv, LockSound, SwitchOff, FollowAt, InTurn
  <2> QED BY <1>3, <2>1, <2>2, FollowStays DEF SwitchOff
<1> QED BY <1>1, <1>2, <1>3

LEMMA PersonKeeps ==
    ASSUME FollowInv,
           PersonSends \/ PersonBegins \/ SendsQueued \/ PersonRefused \/ PersonTurnEnds
    PROVE  FollowInv'
<1> DEFINE Person == [newest : Nat, ends : Nat, coming : BOOLEAN, queued : BOOLEAN]
<1>1. FollowTypeOK /\ LockSound /\ person \in Person
    BY DEF FollowInv, FollowTypeOK
<1>2. CASE PersonSends \/ PersonRefused
  <2>1. person' \in Person /\ person'.newest = person.newest
      BY <1>1, <1>2 DEF PersonSends, PersonRefused
  <2>2. UNCHANGED <<task, chat, meta, lock, looks, seen, waiting, follow, stop, on, past, heard>>
      BY <1>2 DEF PersonSends, PersonRefused
  <2>3. FollowTypeOK' /\ LockSound'
      BY <1>1, <2>1, <2>2 DEF FollowTypeOK, LockSound, FollowAt, InTurn
  <2> QED BY <2>2, <2>3, FollowStays
<1>3. CASE PersonBegins \/ SendsQueued
  <2>1. person' \in Person /\ person'.newest = person.newest + 1
    <3>1. person' = [newest |-> person.newest + 1, ends |-> task.ends,
                     coming |-> FALSE, queued |-> FALSE]
        BY <1>3 DEF PersonBegins, SendsQueued, PersonTurn
    <3>2. person.newest + 1 \in Nat /\ task.ends \in Nat
        BY Facts
    <3> QED BY <3>1, <3>2
  <2>2. /\ UNCHANGED <<task, meta, lock, looks, seen, waiting, follow, stop, on, past, heard>>
        /\ chat = "none" /\ chat' = "person"
      BY <1>3 DEF PersonBegins, SendsQueued, PersonTurn
  <2>3. FollowTypeOK'
      BY <1>1, <2>1, <2>2 DEF FollowTypeOK
  <2>4. LockSound'
      BY <1>1, <2>1, <2>2, Facts DEF LockSound, FollowAt, InTurn
  <2> QED BY <2>2, <2>3, <2>4, FollowStays
<1>4. CASE PersonTurnEnds
  <2>1. /\ UNCHANGED <<task, person, meta, lock, looks, seen, waiting, follow, stop, on, past, heard>>
        /\ chat = "person" /\ chat' = "none"
      BY <1>4 DEF PersonTurnEnds
  <2>2. FollowTypeOK' /\ LockSound'
      BY <1>1, <2>1 DEF FollowTypeOK, LockSound, FollowAt, InTurn
  <2> QED BY <2>1, <2>2, FollowStays
<1> QED BY <1>2, <1>3, <1>4

LEMMA LookKeeps ==
    ASSUME FollowInv, Look
    PROVE  FollowInv'
<1>1. FollowTypeOK /\ LockSound /\ lock = "nobody"
    BY DEF FollowInv, Look, LockFree
<1>2. UNCHANGED <<task, chat, person, meta, waiting, follow, stop, on, past>> /\ heard' \in Nat
    BY <1>1 DEF Look, FollowTypeOK
<1>3. CASE on /\ ~task.open /\ task.why # "none" /\ task.ends \notin seen /\ meta.end # task.ends
  <2>1. /\ seen' = seen \cup {task.ends} /\ lock' = "look"
        /\ looks' = [end |-> task.ends, ready |-> task.why = "ready"]
      BY <1>3 DEF Look
  <2>2. looks' \in [end : Nat, ready : BOOLEAN] /\ looks'.end = task.ends
        /\ looks'.ready = (task.why = "ready")
      BY <2>1, Facts
  <2>3. meta.end < task.ends
      BY <1>1, <1>3, Facts DEF LockSound, InTurn
  <2>4. FollowTypeOK'
    <3>1. task.ends \in 1..task.ends
        BY <2>3, Facts
    <3>2. seen' \subseteq 1..task.ends /\ lock' \in {"nobody", "look", "stop", "continue"}
        BY <1>1, <2>1, <3>1 DEF FollowTypeOK
    <3> QED BY <1>1, <1>2, <2>2, <3>2 DEF FollowTypeOK
  <2>5. LockSound'
      BY <1>1, <1>2, <2>1, <2>2, <2>3, Facts DEF LockSound, InTurn
  <2> QED BY <1>2, <2>1, <2>4, <2>5, FollowStays
<1>4. CASE ~(on /\ ~task.open /\ task.why # "none" /\ task.ends \notin seen /\ meta.end # task.ends)
  <2>1. UNCHANGED <<looks, seen, lock>>
      BY <1>4 DEF Look
  <2>2. FollowTypeOK' /\ LockSound'
      BY <1>1, <1>2, <2>1 DEF FollowTypeOK, LockSound, FollowAt, InTurn
  <2> QED BY <1>2, <2>1, <2>2, FollowStays
<1> QED BY <1>3, <1>4
-----------------------------------------------------------------------------
(* The drain, from the look at the chat to the turn that was told *)

LEMMA DrainTypes ==
    ASSUME FollowInv, waiting' \in Seq(Item), chat' \in {"none", "person", "follow"},
           follow' \in [at : Stations, item : Item, did : {"none", "skipped", "stopped"}],
           meta' \in [under : Nat, count : 0..PerMessage, continued : BOOLEAN,
                      end : Nat, stage : Stages],
           meta'.end = meta.end, meta'.under = meta.under,
           lock # "continue" => meta'.continued = meta.continued,
           (follow'.at \in {"turn", "alone"}) = (chat' = "follow"),
           UNCHANGED <<task, person, lock, heard, looks, seen, stop, on>>,
           past'.stopped = past.stopped, past'.lost \subseteq 1..task.ends, lock # "continue"
    PROVE  FollowTypeOK' /\ LockSound'
<1>1. FollowTypeOK /\ LockSound
    BY DEF FollowInv
<1>2. FollowTypeOK'
    BY <1>1 DEF FollowTypeOK
<1>3. LockSound'
    BY <1>1 DEF LockSound, InTurn
<1> QED BY <1>2, <1>3

(* No turn of a follow-up, so no continue is under way. *)
LEMMA NoTurn ==
    ASSUME FollowInv, ~InTurn
    PROVE  /\ lock # "continue" /\ chat # "follow"
           /\ past.lost \subseteq 1..task.ends
BY DEF FollowInv, LockSound, FollowTypeOK, InTurn

LEMMA StillKeeps ==
    ASSUME FollowInv, Still
    PROVE  FollowInv'
<1>1. FollowAt("still") /\ ~InTurn /\ ~FollowAt("idle") /\ lock # "continue" /\ chat # "follow"
    BY NoTurn DEF Still, FollowAt, InTurn
<1>2. UNCHANGED <<task, chat, person, meta, lock, heard, looks, seen, waiting, stop, on, past>>
    BY DEF Still
<1>3. \/ Settles("skip", "stopped") \/ Settles("skip", "skipped") \/ Leaves \/ Moves("ready")
    BY DEF Still
<1>4. /\ follow' \in [at : Stations, item : Item, did : {"none", "skipped", "stopped"}]
      /\ follow'.at \in {"skip", "ready", "idle"}
      /\ follow'.at # "idle" => follow'.item = follow.item
    BY <1>3, FollowSettles, FollowLeaves, FollowMoves DEF Stations
<1>5. FollowTypeOK' /\ LockSound'
    BY <1>1, <1>2, <1>4, Facts, DrainTypes, SMTT(30) DEF FollowInv, FollowTypeOK
<1>6. follow'.item.end = meta.end /\ follow'.at # "idle" => meta.stage \in {"queued", "stopped"}
    BY <1>1, <1>4 DEF FollowInv, StageSound, FollowAt
<1>7. follow'.item.end = meta.end =>
         /\ follow'.at \in {"still", "skip", "ready"} => meta'.stage \in {"queued", "stopped"}
         /\ follow'.at \in {"starting", "again"} => meta'.stage \in {"began", "stopped"}
    BY <1>2, <1>4, <1>6
<1>8. follow.at \in Unbegun /\ follow.at \in Underway
    BY <1>1 DEF FollowAt, Unbegun, Underway, Stations
<1> QED BY <1>1, <1>2, <1>4, <1>5, <1>7, <1>8, QueueStays

LEMMA MarkBeganKeeps ==
    ASSUME FollowInv, MarkBegan
    PROVE  FollowInv'
<1>1. FollowAt("ready") /\ ~InTurn /\ ~FollowAt("idle") /\ lock # "continue" /\ chat # "follow"
    BY NoTurn DEF MarkBegan, FollowAt, InTurn
<1>2. /\ UNCHANGED <<task, chat, person, lock, heard, looks, seen, waiting, stop, on, past>>
      /\ meta' = Marked(follow.item.end, "began") /\ "began" \in Stages
    BY DEF MarkBegan, Stages
<1>3. Settles("drop", "stopped") \/ Moves("starting")
    BY DEF MarkBegan
<1>4. /\ follow' \in [at : Stations, item : Item, did : {"none", "skipped", "stopped"}]
      /\ follow'.at \in {"drop", "starting"} /\ follow'.item = follow.item
    BY <1>3, FollowSettles, FollowMoves DEF Stations
<1>5. /\ meta' \in [under : Nat, count : 0..PerMessage, continued : BOOLEAN,
                    end : Nat, stage : Stages]
      /\ meta'.end = meta.end /\ meta'.under = meta.under /\ meta'.count = meta.count
      /\ meta'.continued = meta.continued
      /\ meta'.stage = IF meta.end # follow.item.end \/ meta.stage = "stopped"
                       THEN meta.stage ELSE "began"
    BY <1>2, MetaMarked
<1>6. FollowTypeOK' /\ LockSound'
    BY <1>1, <1>2, <1>4, <1>5, Facts, DrainTypes, SMTT(30) DEF FollowInv, FollowTypeOK
<1>7. follow.item.end = meta.end => meta.stage \in {"queued", "stopped"}
    BY <1>1 DEF FollowInv, StageSound, FollowAt
<1>8. follow'.item.end = meta.end =>
         /\ follow'.at \in {"still", "skip", "ready"} => meta'.stage \in {"queued", "stopped"}
         /\ follow'.at \in {"starting", "again"} => meta'.stage \in {"began", "stopped"}
    BY <1>4, <1>5
<1>9. \/ meta'.stage = meta.stage
      \/ /\ ~FollowAt("idle") /\ follow.item.end = meta.end /\ meta.stage # "stopped"
         /\ meta'.stage \in {"queued", "began"} => meta.stage \in {"queued", "began"}
         /\ meta'.stage = "queued" => follow.at \in Unbegun
    BY <1>1, <1>5, <1>7
<1>10. follow.at \in Unbegun /\ follow.at \in Underway
    BY <1>1 DEF FollowAt, Unbegun, Underway, Stations
<1> QED BY <1>1, <1>2, <1>4, <1>5, <1>6, <1>8, <1>9, <1>10, QueueStays

LEMMA StartKeeps ==
    ASSUME FollowInv, StartBusy \/ StartFails
    PROVE  FollowInv'
<1>1. FollowAt("starting") /\ ~InTurn /\ ~FollowAt("idle") /\ lock # "continue" /\ chat # "follow"
    BY NoTurn DEF StartBusy, StartFails, FollowAt, InTurn
<1>2. UNCHANGED <<task, chat, person, meta, lock, heard, looks, seen, waiting, stop, on, past>>
    BY DEF StartBusy, StartFails
<1>3. /\ follow' \in [at : Stations, item : Item, did : {"none", "skipped", "stopped"}]
      /\ follow'.at \in {"again", "drop"} /\ follow'.item = follow.item
    BY FollowSettles, FollowMoves DEF Stations, StartBusy, StartFails
<1>4. FollowTypeOK' /\ LockSound'
    BY <1>1, <1>2, <1>3, Facts, DrainTypes, SMTT(30) DEF FollowInv, FollowTypeOK
<1>5. follow'.item.end = meta.end =>
         /\ follow'.at \in {"still", "skip", "ready"} => meta'.stage \in {"queued", "stopped"}
         /\ follow'.at \in {"starting", "again"} => meta'.stage \in {"began", "stopped"}
    BY <1>1, <1>2, <1>3 DEF FollowInv, StageSound, FollowAt
<1>6. follow.at \in Unbegun /\ follow.at \in Underway
    BY <1>1 DEF FollowAt, Unbegun, Underway, Stations
<1> QED BY <1>1, <1>2, <1>3, <1>4, <1>5, <1>6, QueueStays

LEMMA TurnEndKeeps ==
    ASSUME FollowInv, TurnEnds
    PROVE  FollowInv'
<1>1. /\ follow.at \in {"turn", "alone"} /\ ~FollowAt("idle")
      /\ lock # "continue" /\ chat' = "none" /\ past.lost \subseteq 1..task.ends
    BY DEF TurnEnds, FollowAt, FollowInv, FollowTypeOK
<1>2. UNCHANGED <<task, person, meta, lock, heard, looks, seen, waiting, stop, on, past>>
    BY DEF TurnEnds
<1>3. /\ follow' \in [at : Stations, item : Item, did : {"none", "skipped", "stopped"}]
      /\ \/ follow'.at = "told" /\ follow'.item = follow.item /\ FollowAt("turn")
         \/ follow'.at = "idle"
    BY <1>1, FollowMoves, FollowLeaves DEF Stations, TurnEnds, Told, FollowAt
<1>4. FollowTypeOK' /\ LockSound'
    BY <1>1, <1>2, <1>3, Facts, DrainTypes
<1>5. follow'.at \notin Unbegun /\ (FollowAt("turn") => follow.at \in Underway)
    BY <1>3 DEF Unbegun, Underway, Stations, FollowAt
<1>6. follow'.item.end = meta.end =>
         /\ follow'.at \in {"still", "skip", "ready"} => meta'.stage \in {"queued", "stopped"}
         /\ follow'.at \in {"starting", "again"} => meta'.stage \in {"began", "stopped"}
    BY <1>3
<1> QED BY <1>1, <1>2, <1>3, <1>4, <1>5, <1>6, QueueStays

LEMMA SettleKeeps ==
    ASSUME FollowInv, Settle \/ MarkTold
    PROVE  FollowInv'
<1>1. /\ ~InTurn /\ ~FollowAt("idle") /\ lock # "continue" /\ chat # "follow"
      /\ Leaves
    BY NoTurn DEF Settle, MarkTold, FollowAt, LockFree, InTurn
<1>2. UNCHANGED <<task, chat, person, lock, heard, looks, seen, waiting, stop, on, past>>
    BY DEF Settle, MarkTold
<1>3. \E stage \in {"none", "skipped", "stopped", "told"} : meta' = Marked(follow.item.end, stage)
    BY Facts DEF Settle, MarkTold
<1>4. PICK stage \in {"none", "skipped", "stopped", "told"} : meta' = Marked(follow.item.end, stage)
    BY <1>3
<1>5. stage \in Stages
    BY DEF Stages
<1>6. /\ meta' \in [under : Nat, count : 0..PerMessage, continued : BOOLEAN,
                    end : Nat, stage : Stages]
      /\ meta'.end = meta.end /\ meta'.under = meta.under /\ meta'.count = meta.count
      /\ meta'.continued = meta.continued
      /\ meta'.stage = IF meta.end # follow.item.end \/ meta.stage = "stopped"
                       THEN meta.stage ELSE stage
    BY <1>4, <1>5, MetaMarked
<1>7. /\ follow' \in [at : Stations, item : Item, did : {"none", "skipped", "stopped"}]
      /\ follow'.at = "idle"
    BY <1>1, FollowLeaves
<1>8. FollowTypeOK' /\ LockSound'
    BY <1>1, <1>2, <1>6, <1>7, Facts, DrainTypes DEF FollowInv, FollowTypeOK
<1>9. \/ meta'.stage = meta.stage
      \/ /\ ~FollowAt("idle") /\ follow.item.end = meta.end /\ meta.stage # "stopped"
         /\ meta'.stage \in {"queued", "began"} => meta.stage \in {"queued", "began"}
         /\ meta'.stage = "queued" => follow.at \in Unbegun
    BY <1>1, <1>6
<1>10. follow'.item.end = meta.end =>
         /\ follow'.at \in {"still", "skip", "ready"} => meta'.stage \in {"queued", "stopped"}
         /\ follow'.at \in {"starting", "again"} => meta'.stage \in {"began", "stopped"}
    BY <1>7
<1> QED BY <1>2, <1>6, <1>7, <1>8, <1>9, <1>10, QueueStays
-----------------------------------------------------------------------------
(* The person's Stop *)

LEMMA StopTypes ==
    ASSUME FollowInv, StopRunning \/ UNCHANGED follow,
           stop' \in [at : {"idle", "take", "keep", "check", "control"}, again : BOOLEAN],
           task' \in [ends : Nat, open : BOOLEAN, why : Whys],
           \/ task'.ends = task.ends /\ task'.why = task.why
           \/ task'.ends = task.ends + 1,
           UNCHANGED <<chat, person, meta, heard, looks, seen, on, past>>,
           waiting' \in Seq(Item),
           lock' \in {"nobody", "look", "stop", "continue"},
           lock' # lock => lock' \in {"nobody", "stop"},
           stop'.at = "keep" <=> lock' = "stop"
    PROVE  FollowTypeOK' /\ LockSound'
<1>1. FollowTypeOK /\ LockSound
    BY DEF FollowInv
<1>2. /\ follow' \in [at : Stations, item : Item, did : {"none", "skipped", "stopped"}]
      /\ follow'.at = follow.at /\ follow'.item.under = follow.item.under
    BY <1>1, FollowStopped DEF FollowTypeOK
<1>3. task.ends \in Nat /\ meta.end \in Nat /\ looks.end \in Nat /\ task'.ends \in Nat
    BY <1>1, Facts DEF FollowTypeOK
<1>4. task.ends <= task'.ends /\ 1..task.ends \subseteq 1..task'.ends
    BY <1>3
<1>5. FollowTypeOK'
  <2>1. /\ seen' \subseteq 1..task'.ends /\ past'.stopped \subseteq 1..task'.ends
        /\ past'.lost \subseteq 1..task'.ends
      BY <1>1, <1>4 DEF FollowTypeOK
  <2>2. (follow'.at \in {"turn", "alone"}) = (chat' = "follow")
      BY <1>1, <1>2 DEF FollowTypeOK
  <2> QED BY <1>1, <1>2, <2>1, <2>2 DEF FollowTypeOK
<1>6. LockSound'
  <2>1. meta'.end <= task'.ends /\ meta'.under <= person'.newest
      BY <1>1, <1>3, <1>4 DEF LockSound, InTurn
  <2>2. lock' = "look" => /\ meta'.end < looks'.end /\ looks'.end <= task'.ends
                          /\ task'.ends = looks'.end => looks'.ready = (task'.why = "ready")
      BY <1>1, <1>3, <1>4 DEF LockSound, InTurn
  <2>3. lock' = "continue" => /\ InTurn' /\ follow'.item.under = meta'.under
                              /\ meta'.continued
      BY <1>1, <1>2 DEF LockSound, InTurn
  <2> QED BY <2>1, <2>2, <2>3 DEF LockSound, InTurn
<1> QED BY <1>5, <1>6

LEMMA StopStepKeeps ==
    ASSUME FollowInv, StopBegins \/ StopChecks \/ StopControls
    PROVE  FollowInv'
<1>1. UNCHANGED <<chat, person, meta, lock, heard, looks, seen, waiting, on, past>>
    BY DEF StopBegins, StopChecks, StopControls
<1>2. /\ stop' \in [at : {"idle", "take", "keep", "check", "control"}, again : BOOLEAN]
      /\ stop'.at # "keep" /\ stop.at # "keep"
  <2>1. stop \in [at : {"idle", "take", "keep", "check", "control"}, again : BOOLEAN]
      BY DEF FollowInv, FollowTypeOK
  <2>2. \/ stop' = [at |-> "take", again |-> FALSE] \/ stop' = [at |-> "take", again |-> TRUE]
        \/ stop' = [stop EXCEPT !.at = "control"] \/ stop' = [at |-> "idle", again |-> FALSE]
      BY DEF StopBegins, StopChecks, StopControls, NoStop
  <2>3. stop.at # "keep"
      BY DEF StopBegins, StopChecks, StopControls
  <2>4. CASE stop' = [stop EXCEPT !.at = "control"]
      BY <2>1, <2>3, <2>4
  <2>5. CASE stop' = [at |-> "take", again |-> FALSE]
      BY <2>3, <2>5
  <2>6. CASE stop' = [at |-> "take", again |-> TRUE]
      BY <2>3, <2>6
  <2>7. CASE stop' = [at |-> "idle", again |-> FALSE]
      BY <2>3, <2>7
  <2> QED BY <2>2, <2>4, <2>5, <2>6, <2>7
<1>3. StopRunning \/ UNCHANGED follow
    BY DEF StopBegins, StopChecks, StopControls
<1>4. /\ task' \in [ends : Nat, open : BOOLEAN, why : Whys]
      /\ \/ task'.ends = task.ends /\ task'.why = task.why
         \/ task'.ends = task.ends + 1
  <2>1. task \in [ends : Nat, open : BOOLEAN, why : Whys]
      BY DEF FollowInv, FollowTypeOK
  <2>2. \/ UNCHANGED task \/ task' = [ends |-> task.ends + 1, open |-> FALSE, why |-> "none"]
      BY DEF StopBegins, StopChecks, StopControls
  <2>3. task.ends + 1 \in Nat /\ "none" \in Whys
      BY Facts DEF Whys
  <2>4. CASE UNCHANGED task
      BY <2>1, <2>4
  <2>5. CASE task' = [ends |-> task.ends + 1, open |-> FALSE, why |-> "none"]
      BY <2>3, <2>5
  <2> QED BY <2>2, <2>4, <2>5
<1>5. lock \in {"nobody", "look", "stop", "continue"} /\ lock # "stop" /\ waiting \in Seq(Item)
    BY <1>2 DEF FollowInv, LockSound, FollowTypeOK, InTurn
<1>6. FollowTypeOK' /\ LockSound'
    BY <1>1, <1>2, <1>3, <1>4, <1>5, StopTypes
<1>7. /\ follow'.at = follow.at /\ follow'.item.end = follow.item.end
      /\ follow'.item.ready = follow.item.ready /\ follow'.item.under = follow.item.under
      /\ follow.item.stopped => follow'.item.stopped
    BY <1>3, FollowStopped
<1>8. follow'.item.end = meta.end =>
         /\ follow'.at \in {"still", "skip", "ready"} => meta'.stage \in {"queued", "stopped"}
         /\ follow'.at \in {"starting", "again"} => meta'.stage \in {"began", "stopped"}
    BY <1>1, <1>7 DEF FollowInv, StageSound
<1>9. (task'.ends = task.ends /\ task'.why = task.why) \/ task'.ends > task.ends
    BY <1>4, Facts
<1> QED BY <1>1, <1>2, <1>6, <1>7, <1>8, <1>9, QueueStays DEF FollowAt

LEMMA StopTakeKeeps ==
    ASSUME FollowInv, StopTakes
    PROVE  FollowInv'
<1>1. /\ UNCHANGED <<task, chat, person, meta, heard, looks, seen, on, past>>
      /\ lock' = "stop" /\ waiting' = <<>> /\ StopRunning /\ lock = "nobody"
    BY DEF StopTakes, LockFree
<1>2. /\ stop' \in [at : {"idle", "take", "keep", "check", "control"}, again : BOOLEAN]
      /\ stop'.at = "keep"
    BY DEF StopTakes, FollowInv, FollowTypeOK
<1>3. /\ task \in [ends : Nat, open : BOOLEAN, why : Whys]
      /\ OneEach /\ StageSound /\ ContinueSound /\ StopSound /\ StopHolds /\ PastOK
    BY DEF FollowInv, FollowTypeOK
<1>4. FollowTypeOK' /\ LockSound'
    BY <1>1, <1>2, <1>3, NoItems, StopTypes
<1>5. /\ follow'.at = follow.at /\ follow'.item.end = follow.item.end
      /\ follow'.item.ready = follow.item.ready /\ follow'.item.under = follow.item.under
      /\ follow.at \in Underway => follow'.item.stopped
    BY <1>1, FollowStopped
<1>6. Values(waiting') = {} /\ Distinct(waiting') /\ DOMAIN waiting' = {}
    BY <1>1, NoItems
<1>7. OneEach'
  <2>1. follow'.at \in Unbegun => follow'.item.end \notin EndsOf(Values(past.began))
      BY <1>3, <1>5 DEF OneEach
  <2>2. EndsOf({}) = {}
      BY DEF EndsOf
  <2>3. /\ Distinct(past.began)
        /\ meta.stage = "queued" => meta.end \notin EndsOf(Values(past.began))
      BY <1>3 DEF OneEach
  <2> QED BY <1>1, <1>6, <2>1, <2>2, <2>3 DEF OneEach
<1>8. StageSound'
    BY <1>1, <1>3, <1>5, <1>6 DEF StageSound
<1>9. ContinueSound'
    BY <1>1, <1>3 DEF ContinueSound
<1>10. StopSound'
    BY <1>1, <1>3, <1>5 DEF StopSound, FollowAt
<1>11. StopHolds'
    BY <1>1, <1>3, <1>5, <1>6 DEF StopHolds, FollowAt
<1>12. ASSUME NEW i \in Items'
       PROVE  \E j \in Items : j.end = i.end /\ j.ready = i.ready /\ j.under = i.under
  <2>1. CASE i \in InHand'
    <3>1. ~FollowAt("idle") /\ i = follow'.item
        BY <1>5, <2>1 DEF InHand, FollowAt
    <3>2. follow.item \in Items
        BY <3>1 DEF Items, InHand
    <3> QED BY <1>5, <3>1, <3>2
  <2>2. CASE i \in Values(past.began)
      BY <2>2 DEF Items
  <2> QED BY <1>1, <1>6, <2>1, <2>2 DEF Items
<1>13. \A e, turn : Pending(e, turn)' => Pending(e, turn)
    BY <1>1 DEF Pending
<1>14. meta.end <= meta'.end /\ PastOK'
    BY <1>1, <1>3, Facts DEF PastOK
<1> QED BY <1>1, <1>4, <1>7, <1>8, <1>9, <1>10, <1>11, <1>12, <1>13, <1>14, StepKeeps

LEMMA StopKeepKeeps ==
    ASSUME FollowInv, StopKeeps
    PROVE  FollowInv'
<1>1. /\ UNCHANGED <<task, chat, person, heard, looks, seen, waiting, follow, on>>
      /\ stop.at = "keep" /\ lock' = "nobody"
    BY DEF StopKeeps
<1>2. /\ FollowTypeOK /\ PastOK /\ LockSound /\ OneEach /\ StageSound /\ ContinueSound
      /\ StopSound /\ StopHolds
    BY DEF FollowInv
<1>3. /\ lock = "stop" /\ waiting = <<>>
      /\ follow.at \in Underway => follow.item.stopped
    BY <1>1, <1>2 DEF LockSound, StopSound, InTurn
<1>4. /\ stop' \in [at : {"idle", "take", "keep", "check", "control"}, again : BOOLEAN]
      /\ stop'.at # "keep"
    BY <1>2 DEF StopKeeps, NoStop, FollowTypeOK
<1>5. \/ UNCHANGED <<meta, past>>
      \/ /\ meta' = KeptStop /\ Ended(task.ends)
         /\ past' = [past EXCEPT !.stopped = @ \cup {task.ends}]
    BY DEF StopKeeps
<1>6. /\ meta' \in [under : Nat, count : 0..PerMessage, continued : BOOLEAN,
                    end : Nat, stage : Stages]
      /\ meta'.under = meta.under /\ meta'.count = meta.count
      /\ meta'.continued = meta.continued
      /\ \/ meta'.end = meta.end /\ meta'.stage = meta.stage
         \/ meta'.end = task.ends /\ meta'.stage = "stopped"
    BY <1>5, Facts DEF KeptStop, Stages
<1>7. /\ PastOK' /\ past'.began = past.began /\ past'.continued = past.continued
      /\ past'.lost = past.lost
      /\ \/ past'.stopped = past.stopped /\ UNCHANGED <<meta, past>>
         \/ /\ past'.stopped = past.stopped \cup {task.ends} /\ task.ends \in 1..task.ends
            /\ meta'.end = task.ends /\ meta'.stage = "stopped"
  <2>1. CASE UNCHANGED <<meta, past>>
      BY <1>2, <2>1 DEF PastOK
  <2>2. CASE /\ meta' = KeptStop /\ Ended(task.ends)
             /\ past' = [past EXCEPT !.stopped = @ \cup {task.ends}]
    <3>1. task.ends \in 1..task.ends
        BY <2>2, Facts DEF Ended
    <3>2. meta'.end = task.ends /\ meta'.stage = "stopped"
        BY <2>2, Facts DEF KeptStop
    <3> QED BY <1>2, <2>2, <3>1, <3>2, Facts DEF PastOK
  <2> QED BY <1>5, <2>1, <2>2
<1>8. meta.end <= meta'.end /\ meta'.end <= task.ends /\ meta'.end \in Nat
    BY <1>2, <1>6, Facts DEF LockSound, InTurn
<1>9. FollowTypeOK'
  <2>1. past'.stopped \subseteq 1..task.ends /\ past'.lost \subseteq 1..task.ends
      BY <1>2, <1>7 DEF FollowTypeOK
  <2> QED BY <1>1, <1>2, <1>4, <1>6, <2>1 DEF FollowTypeOK
<1>10. LockSound'
    BY <1>1, <1>2, <1>4, <1>6, <1>8 DEF LockSound, InTurn
<1>11. DOMAIN waiting = {} /\ Values(waiting) = {}
    BY <1>3, NoItems
<1>12. OneEach'
  <2>1. meta'.stage = "queued" => meta'.end \notin EndsOf(Values(past.began))
      BY <1>2, <1>6 DEF OneEach
  <2>2. /\ Distinct(waiting) /\ Distinct(past.began)
        /\ EndsOf(Values(waiting)) \cap (EndsOf(InHand) \cup EndsOf(Values(past.began))) = {}
        /\ follow.at \in Unbegun => follow.item.end \notin EndsOf(Values(past.began))
      BY <1>2 DEF OneEach
  <2> QED BY <1>1, <1>7, <2>1, <2>2 DEF OneEach, InHand, FollowAt
<1>13. StageSound'
    BY <1>1, <1>2, <1>6, <1>11 DEF StageSound
<1>14. ContinueSound'
    BY <1>1, <1>2, <1>6, <1>7 DEF ContinueSound
<1>15. StopSound'
  <2>1. \A end \in past.stopped : end <= meta.end /\ end \in Nat
      BY <1>2 DEF StopSound, PastOK
  <2>2. \A end \in past'.stopped : end <= meta'.end
    <3> SUFFICES ASSUME NEW end \in past'.stopped PROVE end <= meta'.end
        OBVIOUS
    <3>1. meta.end \in Nat BY Facts
    <3>2. end \in past.stopped \/ end = meta'.end BY <1>7
    <3>3. CASE end \in past.stopped BY <1>8, <2>1, <3>1, <3>3
    <3>4. CASE end = meta'.end BY <1>8, <3>4
    <3> QED BY <3>2, <3>3, <3>4
  <2> QED BY <1>4, <2>2 DEF StopSound
<1>16. StopHolds'
  <2> SUFFICES ASSUME NEW end \in past'.stopped
               PROVE  /\ meta'.end = end => meta'.stage = "stopped"
                      /\ follow.at \in Underway => follow.item.stopped
      BY <1>1, <1>11 DEF StopHolds
  <2>1. follow.at \in Underway => follow.item.stopped
      BY <1>3
  <2>2. meta'.end = end => meta'.stage = "stopped"
      BY <1>2, <1>7 DEF StopHolds
  <2> QED BY <2>1, <2>2
<1>17. ASSUME NEW i \in Items'
       PROVE  \E j \in Items : j.end = i.end /\ j.ready = i.ready /\ j.under = i.under
    BY <1>1, <1>7 DEF Items, InHand, FollowAt
<1>18. \A e, turn : Pending(e, turn)' => Pending(e, turn)
    BY <1>1, <1>6, <1>7 DEF Pending
<1> QED BY <1>6, <1>7, <1>8, <1>9, <1>10, <1>12, <1>13, <1>14, <1>15, <1>16, <1>17, <1>18, StepKeeps
-----------------------------------------------------------------------------
(* The oldest follow-up leaves the queue, begins its turn, or goes back    *)

LEMMA RunNextKeeps ==
    ASSUME FollowInv, RunNext
    PROVE  FollowInv'
<1>1. /\ UNCHANGED <<task, chat, person, meta, lock, heard, looks, seen, stop, on, past>>
      /\ waiting # <<>> /\ waiting' = Tail(waiting) /\ FollowAt("idle") /\ chat = "none"
      /\ follow' = [at |-> "still", item |-> Head(waiting), did |-> "none"]
    BY DEF RunNext
<1>2. /\ FollowTypeOK /\ PastOK /\ LockSound /\ OneEach /\ StageSound /\ ContinueSound
      /\ StopSound /\ StopHolds /\ waiting \in Seq(Item)
    BY DEF FollowInv, FollowTypeOK
<1>3. /\ Head(waiting) \in Item /\ Tail(waiting) \in Seq(Item)
      /\ Values(waiting) = Values(waiting') \cup {Head(waiting)}
      /\ Distinct(waiting') /\ Head(waiting).end \notin EndsOf(Values(waiting'))
    BY <1>1, <1>2, TailItem DEF OneEach
<1>4. /\ follow' \in [at : Stations, item : Item, did : {"none", "skipped", "stopped"}]
      /\ follow'.at = "still" /\ follow'.item = Head(waiting)
    BY <1>1, <1>3 DEF Stations
<1>5. lock # "continue" /\ InHand' = {Head(waiting)} /\ InHand = {}
    BY <1>1, <1>2, <1>4 DEF LockSound, FollowAt, InHand, InTurn
<1>6. FollowTypeOK' /\ LockSound'
    BY <1>1, <1>2, <1>3, <1>4, <1>5, Facts, DrainTypes DEF FollowTypeOK, FollowAt
<1>7. OneEach'
  <2>1. EndsOf(Values(waiting')) \subseteq EndsOf(Values(waiting))
        /\ Head(waiting).end \in EndsOf(Values(waiting))
      BY <1>3 DEF EndsOf
  <2>2. EndsOf({Head(waiting)}) = {Head(waiting).end}
      BY DEF EndsOf
  <2>3. EndsOf(Values(waiting)) \cap EndsOf(Values(past.began)) = {}
      BY <1>2 DEF OneEach
  <2>4. EndsOf(Values(waiting')) \cap (EndsOf(InHand') \cup EndsOf(Values(past.began))) = {}
      BY <1>3, <1>5, <2>1, <2>2, <2>3
  <2>5. Head(waiting).end \notin EndsOf(Values(past.began))
      BY <2>1, <2>3
  <2>6. Distinct(past.began) /\ (meta.stage = "queued" => meta.end \notin EndsOf(Values(past.began)))
      BY <1>2 DEF OneEach
  <2> QED BY <1>1, <1>3, <1>4, <2>4, <2>5, <2>6 DEF OneEach
<1>8. StageSound'
    BY <1>1, <1>2, <1>3, <1>4 DEF StageSound
<1>9. ContinueSound'
    BY <1>1, <1>2 DEF ContinueSound
<1>10. stop.at # "keep"
    BY <1>1, <1>2 DEF StopSound
<1>11. StopSound'
    BY <1>1, <1>2, <1>10 DEF StopSound
<1>12. StopHolds'
  <2> SUFFICES ASSUME NEW end \in past.stopped
               PROVE  /\ meta.end = end => meta.stage = "stopped"
                      /\ Head(waiting).end = end => Head(waiting).stopped
                      /\ \A n \in DOMAIN waiting' : waiting'[n].end = end => waiting'[n].stopped
      BY <1>1, <1>4, <1>5 DEF StopHolds, Underway
  <2>1. /\ meta.end = end => meta.stage = "stopped"
        /\ \A i \in Values(waiting) : i.end = end => i.stopped
      BY <1>2 DEF StopHolds, Values
  <2>2. \A n \in DOMAIN waiting' : waiting'[n] \in Values(waiting')
      BY DEF Values
  <2> QED BY <1>3, <2>1, <2>2
<1>13. ASSUME NEW i \in Items'
       PROVE  \E j \in Items : j.end = i.end /\ j.ready = i.ready /\ j.under = i.under
  <2>1. i \in Items
      BY <1>1, <1>3, <1>5 DEF Items
  <2> QED BY <2>1
<1>14. \A e, turn : Pending(e, turn)' => Pending(e, turn)
    BY <1>1 DEF Pending
<1>15. PastOK' /\ meta.end <= meta'.end
    BY <1>1, <1>2, Facts DEF PastOK
<1> QED BY <1>1, <1>6, <1>7, <1>8, <1>9, <1>11, <1>12, <1>13, <1>14, <1>15, StepKeeps

LEMMA StartsTurnKeeps ==
    ASSUME FollowInv, StartsTurn
    PROVE  FollowInv'
<1>1. /\ UNCHANGED <<task, person, meta, lock, heard, looks, seen, waiting, stop, on>>
      /\ FollowAt("starting") /\ chat = "none" /\ chat' = "follow" /\ Moves("turn")
      /\ past' = [past EXCEPT !.began = Append(@, follow.item)]
    BY DEF StartsTurn
<1>2. /\ FollowTypeOK /\ PastOK /\ LockSound /\ OneEach /\ StageSound /\ ContinueSound
      /\ StopSound /\ StopHolds
    BY DEF FollowInv
<1>3. /\ past.began \in Seq(Item) /\ follow.item \in Item /\ waiting \in Seq(Item)
    BY Facts
<1>4. /\ follow' \in [at : Stations, item : Item, did : {"none", "skipped", "stopped"}]
      /\ follow'.at = "turn" /\ follow'.item = follow.item
    BY <1>1, FollowMoves DEF Stations
<1>5. /\ past'.began = Append(past.began, follow.item) /\ past'.continued = past.continued
      /\ past'.stopped = past.stopped /\ past'.lost \subseteq 1..task.ends
    BY <1>1, <1>2 DEF PastOK, FollowTypeOK
<1>6. lock # "continue" /\ InHand = {follow.item} /\ InHand' = {follow.item}
      /\ follow.at \in Unbegun /\ ~FollowAt("idle") /\ follow.at \in Underway
    BY <1>1, <1>2, <1>4 DEF LockSound, FollowAt, InHand, Unbegun, InTurn, Underway, Stations
<1>7. follow.item.end \notin EndsOf(Values(past.began))
    BY <1>2, <1>6 DEF OneEach
<1>8. /\ past'.began \in Seq(Item) /\ Values(past'.began) = Values(past.began) \cup {follow.item}
      /\ Distinct(past'.began)
    BY <1>2, <1>3, <1>5, <1>7, AppendItem DEF OneEach
<1>9. PastOK'
    BY <1>1, <1>2, <1>5, <1>8 DEF PastOK
<1>10. FollowTypeOK' /\ LockSound'
    BY <1>1, <1>3, <1>4, <1>5, <1>6, Facts, DrainTypes
<1>11. OneEach'
  <2>1. EndsOf(Values(past'.began)) = EndsOf(Values(past.began)) \cup {follow.item.end}
      BY <1>8 DEF EndsOf
  <2>2. EndsOf(InHand) = {follow.item.end}
      BY <1>6 DEF EndsOf
  <2>3. EndsOf(Values(waiting)) \cap ({follow.item.end} \cup EndsOf(Values(past.began))) = {}
      BY <1>2, <2>2 DEF OneEach
  <2>4. meta.stage = "queued" => meta.end \notin EndsOf(Values(past'.began))
    <3>1. follow.item.end = meta.end => meta.stage # "queued"
        BY <1>1, <1>2 DEF StageSound, FollowAt
    <3> QED BY <1>2, <2>1, <3>1 DEF OneEach
  <2>5. follow'.at \notin Unbegun
      BY <1>4 DEF Unbegun
  <2>6. EndsOf(InHand') = {follow.item.end}
      BY <1>6 DEF EndsOf
  <2>7. EndsOf(Values(waiting)) \cap (EndsOf(InHand') \cup EndsOf(Values(past'.began))) = {}
      BY <2>1, <2>3, <2>6
  <2> QED BY <1>1, <1>2, <1>8, <2>4, <2>5, <2>7 DEF OneEach
<1>12. StageSound'
    BY <1>1, <1>2, <1>4 DEF StageSound
<1>13. ContinueSound'
    BY <1>1, <1>2, <1>5 DEF ContinueSound
<1>14. StopSound'
    BY <1>1, <1>2, <1>4, <1>5, <1>6 DEF StopSound
<1>15. StopHolds'
    BY <1>1, <1>2, <1>4, <1>5, <1>6 DEF StopHolds, FollowAt
<1>16. ASSUME NEW i \in Items'
       PROVE  \E j \in Items : j.end = i.end /\ j.ready = i.ready /\ j.under = i.under
  <2>1. i \in Items
      BY <1>1, <1>6, <1>8 DEF Items
  <2> QED BY <2>1
<1>17. \A e, turn : Pending(e, turn)' => Pending(e, turn)
    BY <1>1 DEF Pending
<1>18. meta.end <= meta'.end
    BY <1>1, Facts
<1> QED BY <1>1, <1>9, <1>10, <1>11, <1>12, <1>13, <1>14, <1>15, <1>16, <1>17, <1>18, StepKeeps

LEMMA MarkQueuedKeeps ==
    ASSUME FollowInv, MarkQueued
    PROVE  FollowInv'
<1>1. /\ UNCHANGED <<task, chat, person, lock, heard, looks, seen, stop, on, past>>
      /\ FollowAt("again") /\ lock = "nobody" /\ Leaves
      /\ waiting' = <<follow.item>> \o waiting
      /\ meta' = Marked(follow.item.end, "queued") /\ "queued" \in Stages
    BY DEF MarkQueued, LockFree, Stages
<1>2. /\ FollowTypeOK /\ PastOK /\ LockSound /\ OneEach /\ StageSound /\ ContinueSound
      /\ StopSound /\ StopHolds
    BY DEF FollowInv
<1>3. follow.item \in Item /\ waiting \in Seq(Item) /\ meta.end \in Nat
    BY Facts
<1>4. /\ follow' \in [at : Stations, item : Item, did : {"none", "skipped", "stopped"}]
      /\ follow'.at = "idle" /\ follow'.item = NoItem
    BY <1>1, FollowLeaves
<1>5. /\ meta' \in [under : Nat, count : 0..PerMessage, continued : BOOLEAN,
                    end : Nat, stage : Stages]
      /\ meta'.end = meta.end /\ meta'.under = meta.under /\ meta'.count = meta.count
      /\ meta'.continued = meta.continued
      /\ meta'.stage = IF meta.end # follow.item.end \/ meta.stage = "stopped"
                       THEN meta.stage ELSE "queued"
    BY <1>1, MetaMarked
<1>6. lock # "continue" /\ InHand = {follow.item} /\ InHand' = {} /\ follow.at \in Unbegun
      /\ ~FollowAt("idle") /\ chat # "follow" /\ follow.at \in Underway
    BY <1>1, <1>2, <1>4, NoTurn
       DEF LockSound, FollowAt, InHand, Unbegun, InTurn, Underway, Stations
<1>7. EndsOf(InHand) = {follow.item.end}
    BY <1>6 DEF EndsOf
<1>8. /\ follow.item.end \notin EndsOf(Values(past.began))
      /\ follow.item.end \notin EndsOf(Values(waiting))
      /\ EndsOf(Values(waiting)) \cap EndsOf(Values(past.began)) = {}
      /\ Distinct(waiting) /\ Distinct(past.began)
    BY <1>2, <1>6, <1>7 DEF OneEach
<1>9. /\ waiting' \in Seq(Item) /\ Values(waiting') = Values(waiting) \cup {follow.item}
      /\ Distinct(waiting')
    BY <1>1, <1>3, <1>8, FrontItem
<1>10. FollowTypeOK' /\ LockSound'
    BY <1>1, <1>2, <1>4, <1>5, <1>6, <1>9, Facts, DrainTypes, SMTT(30) DEF FollowTypeOK
<1>11. OneEach'
  <2>1. EndsOf(Values(waiting')) = EndsOf(Values(waiting)) \cup {follow.item.end}
      BY <1>9 DEF EndsOf
  <2>2. EndsOf(InHand') = {}
      BY <1>6 DEF EndsOf
  <2>3. meta'.stage = "queued" => meta.end \notin EndsOf(Values(past.began))
      BY <1>2, <1>5, <1>8 DEF OneEach
  <2>4. follow'.at \notin Unbegun
      BY <1>4 DEF Unbegun
  <2>5. EndsOf(Values(waiting')) \cap (EndsOf(InHand') \cup EndsOf(Values(past.began))) = {}
      BY <1>8, <2>1, <2>2
  <2> QED BY <1>1, <1>5, <1>8, <1>9, <2>3, <2>4, <2>5 DEF OneEach
<1>12. StageSound'
  <2>1. \A i \in Values(waiting) : i.end = meta.end =>
            meta.stage \in {"queued", "stopped"} /\ i.end # follow.item.end
      BY <1>2, <1>8 DEF StageSound, EndsOf
  <2>2. follow.item.end = meta.end => meta'.stage \in {"queued", "stopped"}
      BY <1>5
  <2>3. \A i \in Values(waiting') : i.end = meta'.end => meta'.stage \in {"queued", "stopped"}
      BY <1>5, <1>9, <2>1, <2>2
  <2> QED BY <1>4, <2>3 DEF StageSound
<1>13. ContinueSound'
    BY <1>1, <1>2, <1>5 DEF ContinueSound
<1>14. stop.at # "keep"
    BY <1>1, <1>2 DEF LockSound, InTurn
<1>15. StopSound'
    BY <1>1, <1>2, <1>5, <1>14 DEF StopSound
<1>16. StopHolds'
  <2> SUFFICES ASSUME NEW end \in past.stopped
               PROVE  /\ meta.end = end => meta'.stage = "stopped"
                      /\ \A n \in DOMAIN waiting' : waiting'[n].end = end => waiting'[n].stopped
      BY <1>1, <1>4, <1>5 DEF StopHolds, Underway
  <2>1. /\ meta.end = end => meta.stage = "stopped"
        /\ \A i \in Values(waiting) : i.end = end => i.stopped
        /\ follow.item.end = end => follow.item.stopped
      BY <1>2, <1>6 DEF StopHolds, Values, FollowAt
  <2>2. \A n \in DOMAIN waiting' : waiting'[n] \in Values(waiting')
      BY DEF Values
  <2>3. \A n \in DOMAIN waiting' : waiting'[n].end = end => waiting'[n].stopped
      BY <1>9, <2>1, <2>2
  <2> QED BY <1>5, <2>1, <2>3
<1>17. ASSUME NEW i \in Items'
       PROVE  \E j \in Items : j.end = i.end /\ j.ready = i.ready /\ j.under = i.under
  <2>1. i \in Items
      BY <1>1, <1>6, <1>9 DEF Items
  <2> QED BY <2>1
<1>18. \A e, turn : Pending(e, turn)' => Pending(e, turn)
  <2>1. meta'.stage = meta.stage \/ meta.stage \in {"queued", "began"}
      BY <1>1, <1>2, <1>5 DEF StageSound, FollowAt
  <2> QED BY <1>1, <1>5, <2>1 DEF Pending
<1>19. PastOK' /\ meta.end <= meta'.end
    BY <1>1, <1>2, <1>5, Facts DEF PastOK
<1> QED BY <1>1, <1>5, <1>10, <1>11, <1>12, <1>13, <1>15, <1>16, <1>17, <1>18, <1>19, StepKeeps
-----------------------------------------------------------------------------
(* A follow-up continues the task *)

LEMMA ContinueTaskKeeps ==
    ASSUME FollowInv, ContinueTask
    PROVE  FollowInv'
<1>1. /\ UNCHANGED <<task, chat, person, heard, looks, seen, waiting, follow, stop, on, past>>
      /\ InTurn /\ ~FollowAt("idle") /\ lock = "nobody" /\ lock' = "continue"
      /\ meta' = [meta EXCEPT !.continued = TRUE]
      /\ ~follow.item.stopped /\ Ended(follow.item.end) /\ ~meta.continued
      /\ meta.stage # "stopped"
    BY DEF ContinueTask, LockFree, MayContinue, InTurn, FollowAt
<1>2. /\ FollowTypeOK /\ PastOK /\ LockSound /\ OneEach /\ StageSound /\ ContinueSound
      /\ StopSound /\ StopHolds /\ \A i \in Items : ItemSound(i)
    BY DEF FollowInv
<1>3. /\ meta' \in [under : Nat, count : 0..PerMessage, continued : BOOLEAN,
                    end : Nat, stage : Stages]
      /\ meta'.end = meta.end /\ meta'.under = meta.under /\ meta'.count = meta.count
      /\ meta'.stage = meta.stage /\ meta'.continued = TRUE
    BY <1>1, Facts
<1>4. follow.item \in Items /\ follow.item.end \in Nat
    BY <1>1, Facts DEF Items, InHand, FollowAt, Item
<1>5. follow.item.under = meta.under /\ follow.item.end = meta.end
  <2>1. follow.item.end <= meta.end /\ meta.end <= task.ends /\ task.ends = follow.item.end
      BY <1>1, <1>2, <1>4 DEF ItemSound, LockSound, Ended, InTurn
  <2>2. follow.item.end = meta.end
      BY <1>4, <2>1, Facts
  <2> QED BY <1>2, <1>4, <2>2 DEF ItemSound
<1>6. FollowTypeOK'
    BY <1>1, <1>2, <1>3 DEF FollowTypeOK
<1>7. LockSound'
    BY <1>1, <1>2, <1>3, <1>5 DEF LockSound, FollowAt, InTurn
<1>8. OneEach' /\ StageSound' /\ StopSound'
  <2>1. OneEach'
      BY <1>1, <1>2, <1>3 DEF OneEach, InHand, FollowAt
  <2>2. StageSound'
      BY <1>1, <1>2, <1>3 DEF StageSound
  <2>3. StopSound'
      BY <1>1, <1>2, <1>3 DEF StopSound, FollowAt
  <2> QED BY <2>1, <2>2, <2>3
<1>9. ContinueSound'
    BY <1>1, <1>2, <1>3 DEF ContinueSound
<1>10. StopHolds'
    BY <1>1, <1>2, <1>3, <1>5 DEF StopHolds
<1>11. ASSUME NEW i \in Items'
       PROVE  \E j \in Items : j.end = i.end /\ j.ready = i.ready /\ j.under = i.under
    BY <1>1 DEF Items, InHand, FollowAt
<1>12. \A e, turn : Pending(e, turn)' => Pending(e, turn)
    BY <1>1, <1>3 DEF Pending
<1>13. PastOK' /\ meta.end <= meta'.end
    BY <1>1, <1>2, <1>3, Facts DEF PastOK
<1> QED BY <1>3, <1>6, <1>7, <1>8, <1>9, <1>10, <1>11, <1>12, <1>13, StepKeeps

LEMMA NoteFailKeeps ==
    ASSUME FollowInv, NoteFails
    PROVE  FollowInv'
<1>1. /\ UNCHANGED <<task, chat, person, heard, looks, seen, waiting, follow, stop, on, past>>
      /\ lock = "continue" /\ lock' = "nobody"
      /\ meta' = [meta EXCEPT !.continued = FALSE]
    BY DEF NoteFails
<1>2. /\ FollowTypeOK /\ PastOK /\ LockSound /\ OneEach /\ StageSound /\ ContinueSound
      /\ StopSound /\ StopHolds
    BY DEF FollowInv
<1>3. /\ meta' \in [under : Nat, count : 0..PerMessage, continued : BOOLEAN,
                    end : Nat, stage : Stages]
      /\ meta'.end = meta.end /\ meta'.under = meta.under /\ meta'.count = meta.count
      /\ meta'.stage = meta.stage
    BY <1>1, Facts
<1>4. FollowTypeOK'
    BY <1>1, <1>2, <1>3 DEF FollowTypeOK
<1>5. LockSound'
    BY <1>1, <1>2, <1>3 DEF LockSound, InTurn
<1>6. OneEach' /\ StageSound' /\ StopSound'
  <2>1. OneEach'
      BY <1>1, <1>2, <1>3 DEF OneEach, InHand, FollowAt
  <2>2. StageSound'
      BY <1>1, <1>2, <1>3 DEF StageSound
  <2>3. StopSound'
      BY <1>1, <1>2, <1>3 DEF StopSound, FollowAt
  <2> QED BY <2>1, <2>2, <2>3
<1>7. ContinueSound'
    BY <1>1, <1>2, <1>3 DEF ContinueSound
<1>8. StopHolds'
    BY <1>1, <1>2, <1>3 DEF StopHolds
<1>9. ASSUME NEW i \in Items'
      PROVE  \E j \in Items : j.end = i.end /\ j.ready = i.ready /\ j.under = i.under
    BY <1>1 DEF Items, InHand, FollowAt
<1>10. \A e, turn : Pending(e, turn)' => Pending(e, turn)
    BY <1>1, <1>3 DEF Pending
<1>11. PastOK' /\ meta.end <= meta'.end
    BY <1>1, <1>2, <1>3, Facts DEF PastOK
<1> QED BY <1>3, <1>4, <1>5, <1>6, <1>7, <1>8, <1>9, <1>10, <1>11, StepKeeps

LEMMA NoteKeeps ==
    ASSUME FollowInv, NoteSent \/ TurnCut \/ NoteLost
    PROVE  FollowInv'
<1>1. /\ UNCHANGED <<person, meta, heard, looks, seen, waiting, stop, on>>
      /\ lock = "continue" /\ lock' = "nobody"
      /\ NoteGoes \/ UNCHANGED <<task, past>>
    BY DEF NoteSent, TurnCut, NoteLost
<1>2. /\ FollowTypeOK /\ PastOK /\ LockSound /\ OneEach /\ StageSound /\ ContinueSound
      /\ StopSound /\ StopHolds
    BY DEF FollowInv
<1>3. /\ follow.at \in {"turn", "alone"} /\ follow.item.under = meta.under
      /\ ~FollowAt("idle") /\ meta.continued /\ chat = "follow"
    BY <1>1, <1>2 DEF LockSound, FollowTypeOK, FollowAt, InTurn
<1>4. /\ follow' \in [at : Stations, item : Item, did : {"none", "skipped", "stopped"}]
      /\ follow'.at \in {"turn", "alone", "told", "idle"}
      /\ (follow'.at \in {"turn", "alone"}) = (chat' = "follow")
      /\ \/ follow'.at = "idle"
         \/ /\ follow'.item.end = follow.item.end /\ follow'.item.ready = follow.item.ready
            /\ follow'.item.under = follow.item.under /\ follow'.item.stopped = follow.item.stopped
            /\ follow'.at \in Underway => follow.at \in Underway
      /\ chat' \in {"none", "person", "follow"}
  <2>1. CASE NoteSent
    <3>1. follow' = [follow EXCEPT !.item.continued = TRUE] /\ chat' = chat
        BY <2>1 DEF NoteSent
    <3> QED BY <1>3, <3>1, Facts DEF Item
  <2>2. CASE TurnCut
    <3>1. Told /\ chat' = "none" /\ "told" \in Stations
        BY <2>2 DEF TurnCut, Stations
    <3>2. CASE FollowAt("alone")
        BY <3>1, <3>2, FollowLeaves DEF Told
    <3>3. CASE ~FollowAt("alone")
      <4>1. follow.at \in Underway
          BY <1>3, <3>3 DEF Underway, Stations, FollowAt
      <4> QED BY <3>1, <3>3, <4>1, FollowMoves DEF Told
    <3> QED BY <3>2, <3>3
  <2>3. CASE NoteLost
      BY <1>3, <2>3, Facts DEF NoteLost
  <2> QED BY <2>1, <2>2, <2>3
<1>5. /\ task' \in [ends : Nat, open : BOOLEAN, why : Whys]
      /\ task'.ends = task.ends /\ task'.why = task.why
    BY <1>1, <1>2 DEF NoteGoes, FollowTypeOK
<1>6. /\ past'.began = past.began /\ past'.stopped = past.stopped /\ past'.lost = past.lost
      /\ past'.continued \in {past.continued, Append(past.continued, follow.item)}
    BY <1>1, <1>2 DEF NoteGoes, PastOK
<1>7. past.continued \in Seq(Item) /\ follow.item \in Item
    BY Facts
<1>8. PastOK' /\ past'.continued \in Seq(Item)
  <2>1. past'.continued \in Seq(Item)
      BY <1>6, <1>7, AppendItem
  <2>2. past' \in [began : Seq(Item), continued : Seq(Item), stopped : SUBSET Nat,
                   lost : SUBSET Nat]
      BY <1>1, <1>2, <2>1 DEF NoteGoes, PastOK
  <2> QED BY <2>1, <2>2 DEF PastOK
<1>9. FollowTypeOK'
    BY <1>1, <1>2, <1>4, <1>5, <1>6 DEF FollowTypeOK
<1>10. LockSound'
    BY <1>1, <1>2, <1>5 DEF LockSound, InTurn
<1>11. follow'.at \notin Unbegun /\ EndsOf(InHand') \subseteq EndsOf(InHand)
    BY <1>3, <1>4 DEF Unbegun, EndsOf, InHand, FollowAt
<1>12. OneEach'
  <2>1. /\ Distinct(waiting) /\ Distinct(past.began)
        /\ EndsOf(Values(waiting)) \cap (EndsOf(InHand) \cup EndsOf(Values(past.began))) = {}
        /\ meta.stage = "queued" => meta.end \notin EndsOf(Values(past.began))
      BY <1>2 DEF OneEach
  <2> QED BY <1>1, <1>6, <1>11, <2>1 DEF OneEach
<1>13. StageSound'
    BY <1>1, <1>2, <1>4 DEF StageSound
<1>14. StopSound'
    BY <1>1, <1>2, <1>3, <1>4, <1>6 DEF StopSound, Underway
<1>15. StopHolds'
    BY <1>1, <1>2, <1>3, <1>4, <1>6 DEF StopHolds, Underway
<1>16. ContinueSound'
  <2>1. \A n \in DOMAIN past.continued :
            past.continued[n].under <= meta.under /\ past.continued[n].under # meta.under
      BY <1>1, <1>2 DEF ContinueSound
  <2>2. \A n, other \in DOMAIN past.continued :
            past.continued[n].under = past.continued[other].under => n = other
      BY <1>2 DEF ContinueSound
  <2>3. CASE past'.continued = past.continued
      BY <1>1, <2>1, <2>2, <2>3 DEF ContinueSound
  <2>4. CASE past'.continued = Append(past.continued, follow.item)
    <3> DEFINE longer == past'.continued
    <3>1. Len(past.continued) \in Nat /\ DOMAIN past.continued = 1..Len(past.continued)
        BY <1>7, LenProperties
    <3>2. /\ Len(longer) = Len(past.continued) + 1 /\ longer[Len(past.continued) + 1] = follow.item
          /\ \A n \in 1..Len(past.continued) : longer[n] = past.continued[n]
        BY <1>7, <2>4, AppendProperties
    <3>3. DOMAIN longer = 1..Len(longer)
        BY <1>8, LenProperties
    <3> DEFINE last == Len(past.continued) + 1
    <3>4. \A n \in DOMAIN longer : n = last \/ n \in DOMAIN past.continued
        BY <3>1, <3>2, <3>3
    <3>5. longer[last] = follow.item
        BY <3>2
    <3>6. \A n \in DOMAIN past.continued : longer[n] = past.continued[n]
        BY <3>1, <3>2
    <3> HIDE DEF longer, last
    <3>7. \A n \in DOMAIN longer : n = last \/ (n \in DOMAIN past.continued /\ longer[n].under # meta.under
                                               /\ longer[n].under <= meta.under)
        BY <2>1, <3>4, <3>6
    <3>8. \A n, other \in DOMAIN longer : longer[n].under = longer[other].under => n = other
        BY <1>3, <2>2, <3>5, <3>6, <3>7
    <3>9. follow.item.under <= meta.under
        BY <1>3, Facts
    <3>10. \A n \in DOMAIN longer : longer[n].under <= meta.under
        BY <3>5, <3>7, <3>9
    <3> QED BY <1>1, <1>3, <3>8, <3>10 DEF ContinueSound, longer
  <2> QED BY <1>6, <2>3, <2>4
<1>17. ASSUME NEW i \in Items'
       PROVE  \E j \in Items : j.end = i.end /\ j.ready = i.ready /\ j.under = i.under
  <2>1. CASE i \in InHand'
    <3>1. i = follow'.item /\ follow'.at # "idle" /\ follow.item \in Items
        BY <1>3, <2>1 DEF Items, InHand, FollowAt
    <3> QED BY <1>4, <3>1
  <2>2. CASE i \in Values(waiting) \cup Values(past.began)
      BY <2>2 DEF Items
  <2> QED BY <1>1, <1>6, <2>1, <2>2 DEF Items
<1>18. \A e, turn : Pending(e, turn)' => Pending(e, turn)
    BY <1>1, <1>5 DEF Pending
<1>19. meta.end <= meta'.end
    BY <1>1, Facts
<1> QED BY <1>1, <1>8, <1>9, <1>10, <1>12, <1>13, <1>14, <1>15, <1>16, <1>17, <1>18, <1>19, StepKeeps
-----------------------------------------------------------------------------
(* A restart *)

LEMMA RestartKeeps ==
    ASSUME FollowInv, NEW written \in BOOLEAN, Restart(written)
    PROVE  FollowInv'
<1> DEFINE it == [NoItem EXCEPT !.end = meta.end, !.ready = task.why = "ready",
                                !.may = ~Continued /\ task.why # "ready",
                                !.under = meta.under]
<1>1. /\ UNCHANGED <<task, on>>
      /\ chat' = "none" /\ lock' = "nobody" /\ heard' = 0 /\ looks' = NoLook
      /\ follow' = NoFollow /\ stop' = NoStop
      /\ person' = [person EXCEPT !.coming = FALSE]
    BY DEF Restart
<1>2. /\ FollowTypeOK /\ PastOK /\ LockSound /\ OneEach /\ StageSound /\ ContinueSound
      /\ StopSound /\ StopHolds /\ \A i \in Items : ItemSound(i)
    BY DEF FollowInv
<1>3. /\ it \in Item /\ it.end = meta.end /\ it.under = meta.under
      /\ it.ready = (task.why = "ready") /\ it.stopped = FALSE
  <2>1. /\ meta.end \in Nat /\ meta.under \in Nat /\ (task.why = "ready") \in BOOLEAN
        /\ (~Continued /\ task.why # "ready") \in BOOLEAN
      BY Facts
  <2> HIDE DEF Continued
  <2> QED BY <2>1 DEF NoItem, Item
<1>history. /\ past' \in [began : Seq(Item), continued : Seq(Item), stopped : SUBSET Nat,
                     lost : SUBSET Nat]
       /\ past'.began = past.began /\ past'.continued = past.continued
       /\ past'.stopped = past.stopped /\ past'.lost \subseteq 1..task.ends
  <2>1. \/ past' = [past EXCEPT !.lost = {}]
        \/ past' = [past EXCEPT !.lost = {meta.end}] /\ Unsettled
      BY DEF Restart
  <2>2. Unsettled => meta.end \in 1..task.ends
      BY Facts DEF Unsettled, Ended
  <2>3. CASE past' = [past EXCEPT !.lost = {}]
      BY <1>2, <2>3 DEF PastOK
  <2>4. CASE past' = [past EXCEPT !.lost = {meta.end}] /\ Unsettled
      BY <1>2, <2>2, <2>4, Facts DEF PastOK
  <2> QED BY <2>1, <2>3, <2>4
<1>4. \/ meta' = meta /\ waiting' = <<>>
      \/ meta' = meta /\ waiting' = <<it>> /\ Unsettled /\ meta.stage = "queued"
      \/ meta' = [meta EXCEPT !.stage = "skipped"] /\ waiting' = <<>>
    BY DEF Restart, GoesOn
<1> HIDE DEF it
<1>5. /\ meta' \in [under : Nat, count : 0..PerMessage, continued : BOOLEAN,
                    end : Nat, stage : Stages]
      /\ meta'.end = meta.end /\ meta'.under = meta.under /\ meta'.count = meta.count
      /\ meta'.continued = meta.continued /\ meta'.stage \in {meta.stage, "skipped"}
    BY <1>4, Facts DEF Stages
<1>6. \/ waiting' = <<>>
      \/ waiting' = <<it>> /\ Unsettled /\ meta.stage = "queued" /\ meta' = meta
    BY <1>4
<1>7. /\ waiting' \in Seq(Item) /\ Distinct(waiting')
      /\ \A i \in Values(waiting') : i = it /\ Unsettled /\ meta.stage = "queued" /\ meta' = meta
    BY <1>3, <1>6, OneItem, NoItems
<1>8. /\ follow' \in [at : Stations, item : Item, did : {"none", "skipped", "stopped"}]
      /\ follow'.at = "idle" /\ stop'.at = "idle" /\ InHand' = {}
      /\ stop' \in [at : {"idle", "take", "keep", "check", "control"}, again : BOOLEAN]
  <2>1. /\ follow' \in [at : Stations, item : Item, did : {"none", "skipped", "stopped"}]
        /\ follow'.at = "idle"
      BY <1>1, FollowLeaves DEF Leaves
  <2>2. /\ stop' \in [at : {"idle", "take", "keep", "check", "control"}, again : BOOLEAN]
        /\ stop'.at = "idle"
      BY <1>1 DEF NoStop
  <2> QED BY <2>1, <2>2 DEF InHand, FollowAt
<1>9. /\ person' \in [newest : Nat, ends : Nat, coming : BOOLEAN, queued : BOOLEAN]
      /\ person'.newest = person.newest
    BY <1>1, <1>2 DEF FollowTypeOK
<1>10. seen' \subseteq 1..task.ends
  <2>1. Unsettled => meta.end \in 1..task.ends
      BY Facts DEF Unsettled, Ended
  <2> QED BY <2>1 DEF Restart
<1>11. FollowTypeOK'
  <2>1. looks' \in [end : Nat, ready : BOOLEAN]
      BY <1>1 DEF NoLook
  <2> QED BY <1>1, <1>history, <1>2, <1>5, <1>7, <1>8, <1>9, <1>10, <2>1 DEF FollowTypeOK
<1>12. LockSound'
    BY <1>1, <1>2, <1>5, <1>8, <1>9 DEF LockSound, InTurn
<1>13. meta'.stage = "queued" => meta.stage = "queued"
    BY <1>5
<1>14. OneEach'
  <2>1. \A e \in EndsOf(Values(waiting')) : e = meta.end /\ meta.stage = "queued"
      BY <1>3, <1>7 DEF EndsOf
  <2>2. meta.stage = "queued" => meta.end \notin EndsOf(Values(past.began))
      BY <1>2 DEF OneEach
  <2>3. EndsOf(InHand') = {}
      BY <1>8 DEF EndsOf
  <2>4. EndsOf(Values(waiting')) \cap (EndsOf(InHand') \cup EndsOf(Values(past.began))) = {}
      BY <2>1, <2>2, <2>3
  <2>5. follow'.at \notin Unbegun /\ Distinct(past.began)
      BY <1>2, <1>8 DEF Unbegun, OneEach
  <2> QED BY <1>1, <1>history, <1>5, <1>7, <1>13, <2>2, <2>4, <2>5 DEF OneEach
<1>15. StageSound'
    BY <1>7, <1>8 DEF StageSound
<1>16. ContinueSound'
    BY <1>1, <1>history, <1>2, <1>5 DEF ContinueSound
<1>17. StopSound'
    BY <1>1, <1>history, <1>2, <1>5, <1>8 DEF StopSound
<1>18. StopHolds'
  <2> SUFFICES ASSUME NEW end \in past.stopped
               PROVE  /\ meta'.end = end => meta'.stage = "stopped"
                      /\ \A n \in DOMAIN waiting' : waiting'[n].end = end => waiting'[n].stopped
      BY <1>1, <1>history, <1>8 DEF StopHolds, Underway
  <2>1. meta.end = end => meta.stage = "stopped"
      BY <1>2 DEF StopHolds
  <2>2. meta.end = end => meta' = meta
      BY <2>1 DEF Restart, Unsettled
  <2>3. \A n \in DOMAIN waiting' : waiting'[n] = it /\ meta.stage = "queued"
      BY <1>7 DEF Values
  <2> QED BY <1>3, <1>5, <2>1, <2>2, <2>3
<1>19. \A e, turn : Pending(e, turn)' => Pending(e, turn)
    BY <1>1, <1>5 DEF Pending
<1>20. ASSUME NEW i \in Items' PROVE i \in Items \/ (i = it /\ Unsettled)
    BY <1>1, <1>history, <1>7, <1>8 DEF Items
<1>21. ASSUME NEW i \in Items' PROVE ItemSound(i)'
  <2>1. CASE i \in Items
      BY <1>2, <1>5, <2>1 DEF ItemSound
  <2>2. CASE i = it /\ Unsettled
    <3>1. 0 < meta.end
        BY <2>2, Facts DEF Unsettled, Ended
    <3> QED BY <1>3, <1>5, <2>2, <3>1, Facts DEF ItemSound
  <2> QED BY <1>20, <2>1, <2>2
<1>22. CountSound'
  <2>1. ASSUME NEW turn PROVE CountsFor(turn)' \subseteq CountsFor(turn)
    <3> SUFFICES ASSUME NEW e \in CountsFor(turn)' PROVE e \in CountsFor(turn)
        OBVIOUS
    <3>1. e \in 1..meta.end
        BY <1>5 DEF CountsFor
    <3>2. CASE Pending(e, turn)'
        BY <1>19, <3>1, <3>2 DEF CountsFor
    <3>3. CASE \E i \in Items' : i.end = e /\ ~i.ready /\ i.under = turn
      <4> PICK i \in Items' : i.end = e /\ ~i.ready /\ i.under = turn
          BY <3>3
      <4>1. CASE i \in Items
          BY <3>1, <4>1 DEF CountsFor
      <4>2. CASE i = it /\ Unsettled
        <5>1. Pending(e, turn)
            BY <1>3, <4>2 DEF Pending, Unsettled, Ended
        <5> QED BY <3>1, <5>1 DEF CountsFor
      <4> QED BY <1>20, <4>1, <4>2
    <3> QED BY <3>2, <3>3 DEF CountsFor
  <2> QED BY <1>5, <2>1, CountStays
<1>23. PastOK'
    BY <1>history DEF PastOK
<1> QED BY <1>11, <1>12, <1>14, <1>15, <1>16, <1>17, <1>18, <1>21, <1>22, <1>23 DEF FollowInv
-----------------------------------------------------------------------------
(* What the disk refuses *)

LEMMA Lose ==
    ASSUME FollowInv, NEW end \in 1..task.ends, Loses(end)
    PROVE  /\ PastOK' /\ past'.began = past.began /\ past'.continued = past.continued
           /\ past'.stopped = past.stopped /\ past'.lost \subseteq 1..task.ends
<1>1. PastOK /\ past.lost \subseteq 1..task.ends /\ task.ends \in Nat
    BY Facts DEF FollowInv, FollowTypeOK
<1>2. past' = [past EXCEPT !.lost = @ \cup {end}]
    BY DEF Loses
<1>3. past' = [past EXCEPT !.lost = past.lost \cup {end}] /\ past.lost \cup {end} \subseteq Nat
    BY <1>1, <1>2 DEF PastOK
<1> QED BY <1>1, <1>3 DEF PastOK

LEMMA EndInHand ==
    ASSUME FollowInv, ~FollowAt("idle")
    PROVE  follow.item.end \in 1..task.ends
<1>1. ItemSound(follow.item) /\ meta.end <= task.ends
    BY DEF FollowInv, LockSound, Items, InHand
<1>2. follow.item.end \in Nat /\ meta.end \in Nat /\ task.ends \in Nat
    BY Facts DEF Item
<1> QED BY <1>1, <1>2 DEF ItemSound

LEMMA LookFailKeeps ==
    ASSUME FollowInv, LookFails
    PROVE  FollowInv'
<1>1. /\ UNCHANGED <<task, chat, person, meta, heard, seen, waiting, follow, stop, on, past>>
      /\ lock = "look" /\ lock' = "nobody" /\ looks' = NoLook
    BY DEF LookFails
<1>2. looks' \in [end : Nat, ready : BOOLEAN]
    BY <1>1 DEF NoLook
<1>3. FollowTypeOK'
    BY <1>1, <1>2 DEF FollowInv, FollowTypeOK
<1>4. LockSound'
    BY <1>1 DEF FollowInv, LockSound
<1> QED BY <1>1, <1>3, <1>4, FollowStays

LEMMA ItemLostKeeps ==
    ASSUME FollowInv, ItemLost
    PROVE  FollowInv'
<1>1. /\ ~InTurn /\ ~FollowAt("idle") /\ lock # "continue" /\ chat # "follow" /\ Leaves
      /\ Loses(follow.item.end)
    BY NoTurn DEF ItemLost, FollowAt, InTurn
<1>2. UNCHANGED <<task, chat, person, meta, lock, heard, looks, seen, waiting, stop, on>>
    BY DEF ItemLost
<1>3. /\ PastOK' /\ past'.began = past.began /\ past'.continued = past.continued
      /\ past'.stopped = past.stopped /\ past'.lost \subseteq 1..task.ends
    BY <1>1, EndInHand, Lose
<1>4. /\ follow' \in [at : Stations, item : Item, did : {"none", "skipped", "stopped"}]
      /\ follow'.at = "idle"
    BY <1>1, FollowLeaves
<1>5. FollowTypeOK' /\ LockSound'
    BY <1>1, <1>2, <1>3, <1>4, Facts, DrainTypes DEF FollowInv, FollowTypeOK
<1>6. follow'.item.end = meta.end =>
         /\ follow'.at \in {"still", "skip", "ready"} => meta'.stage \in {"queued", "stopped"}
         /\ follow'.at \in {"starting", "again"} => meta'.stage \in {"began", "stopped"}
    BY <1>4
<1> QED BY <1>2, <1>3, <1>4, <1>5, <1>6, LostOrNot

LEMMA RowFailKeeps ==
    ASSUME FollowInv, RowFails
    PROVE  FollowInv'
<1>1. /\ FollowAt("turn") /\ ~FollowAt("idle") /\ Moves("alone") /\ Loses(follow.item.end)
    BY DEF RowFails, FollowAt
<1>2. UNCHANGED <<task, chat, person, meta, lock, heard, looks, seen, waiting, stop, on>>
    BY DEF RowFails
<1>3. /\ PastOK' /\ past'.began = past.began /\ past'.continued = past.continued
      /\ past'.stopped = past.stopped /\ past'.lost \subseteq 1..task.ends
    BY <1>1, EndInHand, Lose
<1>4. /\ follow' \in [at : Stations, item : Item, did : {"none", "skipped", "stopped"}]
      /\ follow'.at = "alone" /\ follow'.item = follow.item
    BY <1>1, FollowMoves DEF Stations
<1>5. FollowTypeOK'
    BY <1>1, <1>2, <1>3, <1>4 DEF FollowInv, FollowTypeOK, FollowAt
<1>6. LockSound'
    BY <1>1, <1>2, <1>4 DEF FollowInv, LockSound, FollowAt, InTurn
<1>7. /\ follow'.at \notin Unbegun /\ follow'.at \notin Underway
    BY <1>4 DEF Unbegun, Underway
<1>8. follow'.item.end = meta.end =>
         /\ follow'.at \in {"still", "skip", "ready"} => meta'.stage \in {"queued", "stopped"}
         /\ follow'.at \in {"starting", "again"} => meta'.stage \in {"began", "stopped"}
    BY <1>4
<1> QED BY <1>1, <1>2, <1>3, <1>4, <1>5, <1>6, <1>7, <1>8, LostOrNot

LEMMA StopFailKeeps ==
    ASSUME FollowInv, StopFails
    PROVE  FollowInv'
<1>1. /\ UNCHANGED <<task, chat, person, meta, heard, looks, seen, waiting, follow, on>>
      /\ stop.at = "keep" /\ lock' = "nobody" /\ stop' = NoStop
      /\ Ended(task.ends) /\ Loses(task.ends)
    BY DEF StopFails
<1>2. task.ends \in 1..task.ends
    BY <1>1, Facts DEF Ended
<1>3. /\ PastOK' /\ past'.began = past.began /\ past'.continued = past.continued
      /\ past'.stopped = past.stopped /\ past'.lost \subseteq 1..task.ends
    BY <1>1, <1>2, Lose
<1>4. /\ stop' \in [at : {"idle", "take", "keep", "check", "control"}, again : BOOLEAN]
      /\ stop'.at = "idle"
    BY <1>1 DEF NoStop
<1>5. FollowTypeOK'
    BY <1>1, <1>3, <1>4 DEF FollowInv, FollowTypeOK
<1>6. LockSound'
    BY <1>1, <1>4 DEF FollowInv, LockSound, InTurn
<1>7. follow'.item.end = meta.end =>
         /\ follow'.at \in {"still", "skip", "ready"} => meta'.stage \in {"queued", "stopped"}
         /\ follow'.at \in {"starting", "again"} => meta'.stage \in {"began", "stopped"}
    BY <1>1 DEF FollowInv, StageSound
<1> QED BY <1>1, <1>3, <1>4, <1>5, <1>6, <1>7, LostOrNot DEF FollowAt
-----------------------------------------------------------------------------
(* A look's follow-up is queued *)

LEMMA QueueKeeps ==
    ASSUME FollowInv, QueueFollowUp
    PROVE  FollowInv'
<1> DEFINE it == [NoItem EXCEPT !.end = looks.end, !.ready = looks.ready,
                                !.may = ~Continued /\ ~looks.ready,
                                !.under = person.newest]
           fresh == [under |-> person.newest, continued |-> Continued,
                     count |-> IF looks.ready THEN Count ELSE Count + 1,
                     end |-> looks.end, stage |-> "queued"]
<1>1. /\ UNCHANGED <<task, chat, person, heard, seen, follow, stop, on, past>>
      /\ lock = "look" /\ lock' = "nobody" /\ looks' = NoLook
    BY DEF QueueFollowUp
<1>2. /\ FollowTypeOK /\ PastOK /\ LockSound /\ OneEach /\ StageSound /\ ContinueSound
      /\ StopSound /\ StopHolds /\ CountSound /\ \A i \in Items : ItemSound(i)
    BY DEF FollowInv
<1>3. /\ meta.end \in Nat /\ task.ends \in Nat /\ looks.end \in Nat /\ looks.ready \in BOOLEAN
      /\ person.newest \in Nat /\ meta.under \in Nat /\ meta.continued \in BOOLEAN
      /\ meta.count \in 0..PerMessage /\ waiting \in Seq(Item) /\ Items \subseteq Item
    BY <1>2, Facts DEF FollowTypeOK
<1>4. /\ meta.end < looks.end /\ looks.end <= task.ends
      /\ task.ends = looks.end => looks.ready = (task.why = "ready")
      /\ meta.under <= person.newest /\ stop.at # "keep"
    BY <1>1, <1>2 DEF LockSound, InTurn
<1>5. looks' \in [end : Nat, ready : BOOLEAN]
    BY <1>1 DEF NoLook
<1>6. CASE UNCHANGED <<meta, waiting>>
  <2>1. FollowTypeOK' /\ LockSound'
    <3>1. FollowTypeOK'
        BY <1>1, <1>2, <1>5, <1>6 DEF FollowTypeOK
    <3>2. LockSound'
        BY <1>1, <1>2, <1>4, <1>6 DEF LockSound, InTurn
    <3> QED BY <3>1, <3>2
  <2> QED BY <1>1, <1>6, <2>1, FollowStays
<1>7. CASE ~(Count >= PerMessage /\ ~looks.ready) /\ meta' = fresh /\ waiting' = Append(waiting, it)
  <2>1. Count \in 0..PerMessage /\ (~looks.ready => Count < PerMessage) /\ Continued \in BOOLEAN
    <3>1. Count \in 0..PerMessage
        BY <1>3 DEF Count, PerMessage
    <3>2. Count \in Nat
        BY <3>1 DEF PerMessage
    <3>3. Continued \in BOOLEAN
        BY <1>3 DEF Continued, Same
    <3> HIDE DEF Count
    <3> QED BY <1>7, <3>1, <3>2, <3>3 DEF PerMessage
  <2>2. (IF looks.ready THEN Count ELSE Count + 1) \in 0..PerMessage
    <3> HIDE DEF Count
    <3> QED BY <2>1 DEF PerMessage
  <2>3. /\ it \in Item /\ it.end = looks.end /\ it.ready = looks.ready
        /\ it.under = person.newest
    <3> HIDE DEF Continued
    <3>1. (~Continued /\ ~looks.ready) \in BOOLEAN
        OBVIOUS
    <3> QED BY <1>3, <3>1 DEF NoItem, Item
  <2>4. /\ meta' \in [under : Nat, count : 0..PerMessage, continued : BOOLEAN,
                      end : Nat, stage : Stages]
        /\ meta'.under = person.newest /\ meta'.continued = Continued /\ meta'.end = looks.end
        /\ meta'.stage = "queued"
        /\ meta'.count = IF looks.ready THEN Count ELSE Count + 1
    <3> HIDE DEF Count, Continued
    <3> QED BY <1>3, <1>7, <2>1, <2>2 DEF Stages
  <2> HIDE DEF it, fresh
  <2>5. \A i \in Items : 0 < i.end /\ i.end <= meta.end /\ i.end \in Nat /\ i.end # looks.end
      BY <1>2, <1>3, <1>4 DEF ItemSound, Item
  <2>6. \A e \in EndsOf(Items) : e # looks.end
      BY <2>5 DEF EndsOf
  <2>7. /\ EndsOf(Values(waiting)) \subseteq EndsOf(Items) /\ EndsOf(InHand) \subseteq EndsOf(Items)
        /\ EndsOf(Values(past.began)) \subseteq EndsOf(Items)
      BY DEF EndsOf, Items
  <2>8. /\ waiting' \in Seq(Item) /\ Values(waiting') = Values(waiting) \cup {it}
        /\ Distinct(waiting')
    <3>1. it.end \notin EndsOf(Values(waiting)) /\ Distinct(waiting)
        BY <1>2, <2>3, <2>6, <2>7 DEF OneEach
    <3> QED BY <1>3, <1>7, <2>3, <3>1, AppendItem
  <2>9. InHand' = InHand /\ Items' = Items \cup {it}
      BY <1>1, <2>8 DEF InHand, Items, FollowAt
  <2>10. FollowTypeOK'
      BY <1>1, <1>2, <1>5, <2>4, <2>8 DEF FollowTypeOK
  <2>11. LockSound'
      BY <1>1, <1>3, <1>4, <2>4 DEF LockSound, InTurn
  <2>12. OneEach'
    <3>1. EndsOf(Values(waiting')) = EndsOf(Values(waiting)) \cup {looks.end}
        BY <2>3, <2>8 DEF EndsOf
    <3>2. EndsOf(Values(waiting)) \cap (EndsOf(InHand) \cup EndsOf(Values(past.began))) = {}
        BY <1>2 DEF OneEach
    <3>3. EndsOf(Values(waiting')) \cap (EndsOf(InHand) \cup EndsOf(Values(past.began))) = {}
        BY <2>6, <2>7, <3>1, <3>2
    <3>4. looks.end \notin EndsOf(Values(past.began))
        BY <2>6, <2>7
    <3>5. /\ Distinct(past.began)
          /\ follow.at \in Unbegun => follow.item.end \notin EndsOf(Values(past.began))
        BY <1>2 DEF OneEach
    <3> QED BY <1>1, <2>4, <2>8, <2>9, <3>3, <3>4, <3>5 DEF OneEach
  <2>13. StageSound'
    <3>1. follow.at # "idle" => follow.item \in Items
        BY DEF Items, InHand, FollowAt
    <3>2. follow.at # "idle" => follow.item.end # looks.end
        BY <2>5, <3>1
    <3> QED BY <1>1, <2>4, <3>2 DEF StageSound
  <2>14. ContinueSound'
    <3>1. \A n \in DOMAIN past.continued :
              /\ past.continued[n].under <= meta.under /\ past.continued[n].under \in Nat
              /\ past.continued[n].under = meta.under => meta.continued
      <4>1. \A n \in DOMAIN past.continued : past.continued[n] \in Item
          BY <1>2, LenProperties DEF PastOK
      <4> QED BY <1>2, <4>1 DEF ContinueSound, Item
    <3>2. \A n \in DOMAIN past.continued :
              /\ past.continued[n].under <= person.newest
              /\ past.continued[n].under = person.newest => person.newest = meta.under
        BY <1>3, <1>4, <3>1
    <3>3. \A n \in DOMAIN past.continued :
              past.continued[n].under = person.newest => Continued
        BY <3>1, <3>2 DEF Continued, Same
    <3> HIDE DEF Continued
    <3>4. \A n \in DOMAIN past'.continued :
              /\ past'.continued[n].under <= meta'.under
              /\ past'.continued[n].under = meta'.under => meta'.continued /\ lock' # "continue"
        BY <1>1, <2>4, <3>2, <3>3
    <3>5. \A n, other \in DOMAIN past'.continued :
              past'.continued[n].under = past'.continued[other].under => n = other
        BY <1>1, <1>2 DEF ContinueSound
    <3> QED BY <3>4, <3>5 DEF ContinueSound
  <2>15. \A end \in past.stopped : end <= looks.end /\ end # looks.end
    <3>1. \A end \in past.stopped : end <= meta.end /\ end \in Nat
        BY <1>2 DEF StopSound, PastOK
    <3> QED BY <1>3, <1>4, <3>1
  <2>16. StopSound'
      BY <1>1, <1>4, <2>4, <2>15 DEF StopSound
  <2>17. StopHolds'
    <3> SUFFICES ASSUME NEW end \in past.stopped
                 PROVE  /\ meta'.end # end
                        /\ \A n \in DOMAIN waiting' : waiting'[n].end = end => waiting'[n].stopped
                        /\ follow.item.end = end => (follow.at \in Underway => follow.item.stopped)
        BY <1>1 DEF StopHolds
    <3>1. /\ follow.item.end = end => (follow.at \in Underway => follow.item.stopped)
          /\ \A i \in Values(waiting) : i.end = end => i.stopped
        BY <1>2 DEF StopHolds, Values
    <3>2. \A n \in DOMAIN waiting' : waiting'[n] \in Values(waiting) \/ waiting'[n] = it
        BY <2>8 DEF Values
    <3>3. end # looks.end
        BY <2>15
    <3> QED BY <2>3, <2>4, <3>1, <3>2, <3>3
  <2>18. ASSUME NEW i \in Items' PROVE ItemSound(i)'
    <3>1. CASE i = it
        BY <1>3, <1>4, <2>3, <2>4, <3>1 DEF ItemSound
    <3>2. CASE i \in Items
      <4>1. i.under <= meta.under /\ i.under \in Nat
          BY <1>2, <1>3, <3>2 DEF ItemSound, Item
      <4> QED BY <1>3, <1>4, <2>4, <2>5, <3>2, <4>1 DEF ItemSound
    <3> QED BY <2>9, <3>1, <3>2
  <2>19. CountSound'
    <3>1. ASSUME NEW turn, NEW e \in CountsFor(turn)'
          PROVE  \/ e \in CountsFor(turn)
                 \/ e = looks.end /\ turn = person.newest /\ ~looks.ready
      <4>1. CASE Pending(e, turn)'
        <5>1. /\ task.ends = looks.end /\ task.why # "ready" /\ e = looks.end
              /\ person.newest = turn
            BY <1>1, <2>4, <4>1 DEF Pending
        <5> QED BY <1>4, <5>1
      <4>2. CASE \E i \in Items' : i.end = e /\ ~i.ready /\ i.under = turn
        <5> PICK i \in Items' : i.end = e /\ ~i.ready /\ i.under = turn
            BY <4>2
        <5>1. CASE i = it
            BY <2>3, <5>1
        <5>2. CASE i \in Items
          <6>1. e \in 1..meta.end
              BY <1>3, <2>5, <5>2
          <6> QED BY <5>2, <6>1 DEF CountsFor
        <5> QED BY <2>9, <5>1, <5>2
      <4> QED BY <4>1, <4>2 DEF CountsFor
    <3> SUFFICES ASSUME NEW turn \in Nat
                 PROVE  /\ Cardinality(CountsFor(turn)') <= PerMessage
                        /\ turn = person.newest => Cardinality(CountsFor(turn)') <= meta'.count
        BY <2>4 DEF CountSound
    <3> DEFINE was == CountsFor(turn)
               now == CountsFor(turn)'
    <3>2. IsFiniteSet(was) /\ Cardinality(was) \in Nat /\ Cardinality(was) <= PerMessage
        BY <1>2, Facts DEF CountSound
    <3>3. now \subseteq was \/ (now \subseteq was \cup {looks.end} /\ ~looks.ready /\ turn = person.newest)
        BY <3>1
    <3>4. turn = person.newest => Cardinality(was) <= Count
      <4>1. CASE meta.under = person.newest
          BY <1>2, <4>1 DEF CountSound, Count, Same
      <4>2. CASE meta.under # person.newest
        <5>1. \A i \in Items : i.under # person.newest
          <6>1. \A i \in Items : i.under <= meta.under /\ i.under \in Nat
              BY <1>2, <1>3 DEF ItemSound, Item
          <6> QED BY <1>3, <1>4, <4>2, <6>1
        <5>2. turn = person.newest => was = {}
            BY <4>2, <5>1 DEF CountsFor, Pending
        <5>3. Count = 0
            BY <4>2 DEF Count, Same
        <5> HIDE DEF was
        <5> QED BY <5>2, <5>3, FS_EmptySet
      <4> QED BY <4>1, <4>2
    <3> HIDE DEF was, now
    <3>5. IsFiniteSet(was \cup {looks.end}) /\ Cardinality(was \cup {looks.end}) \in Nat
          /\ Cardinality(was \cup {looks.end}) <= Cardinality(was) + 1
        BY <3>2, FS_AddElement, FS_CardinalityType
    <3>6. CASE now \subseteq was
      <4>1. IsFiniteSet(now) /\ Cardinality(now) \in Nat /\ Cardinality(now) <= Cardinality(was)
          BY <3>2, <3>6, FS_Subset, FS_CardinalityType
      <4>2. Count \in Nat /\ Count <= meta'.count /\ meta'.count \in Nat
        <5> HIDE DEF Count
        <5> QED BY <2>1, <2>4 DEF PerMessage
      <4> HIDE DEF Count
      <4>3. Cardinality(now) <= PerMessage
          BY <3>2, <4>1 DEF PerMessage
      <4>4. turn = person.newest => Cardinality(now) <= meta'.count
          BY <3>2, <3>4, <4>1, <4>2
      <4> QED BY <4>3, <4>4 DEF now
    <3>7. CASE now \subseteq was \cup {looks.end} /\ ~looks.ready /\ turn = person.newest
      <4>1. /\ IsFiniteSet(now) /\ Cardinality(now) \in Nat
            /\ Cardinality(now) <= Cardinality(was \cup {looks.end})
          BY <3>5, <3>7, FS_Subset, FS_CardinalityType
      <4>2. Count \in Nat /\ meta'.count = Count + 1 /\ Count < PerMessage
        <5> HIDE DEF Count
        <5> QED BY <2>1, <2>4, <3>7 DEF PerMessage
      <4> HIDE DEF Count
      <4>3. Cardinality(now) <= Count + 1
          BY <3>2, <3>4, <3>5, <3>7, <4>1, <4>2
      <4>4. Cardinality(now) <= PerMessage
          BY <4>1, <4>2, <4>3 DEF PerMessage
      <4> QED BY <4>2, <4>3, <4>4 DEF now
    <3> QED BY <3>3, <3>6, <3>7
  <2>20. PastOK'
      BY <1>1, <1>2 DEF PastOK
  <2> QED BY <2>10, <2>11, <2>12, <2>13, <2>14, <2>16, <2>17, <2>18, <2>19, <2>20 DEF FollowInv
<1> QED BY <1>6, <1>7 DEF QueueFollowUp
-----------------------------------------------------------------------------
(* The invariant, and what it shows *)

LEMMA FollowStarts == FollowInit => FollowInv
<1> SUFFICES ASSUME FollowInit PROVE FollowInv
    OBVIOUS
<1>1. /\ waiting = <<>> /\ past.began = <<>> /\ past.continued = <<>> /\ past.stopped = {}
      /\ follow = NoFollow /\ lock = "nobody" /\ stop = NoStop /\ meta = NoMeta
      /\ task = [ends |-> 0, open |-> TRUE, why |-> "none"] /\ seen = {} /\ looks = NoLook
      /\ person = [newest |-> 1, ends |-> 0, coming |-> FALSE, queued |-> FALSE]
      /\ chat = "none" /\ on = TRUE /\ heard = 0
    BY DEF FollowInit
<1>2. /\ follow \in [at : Stations, item : Item, did : {"none", "skipped", "stopped"}]
      /\ follow.at = "idle"
    BY <1>1 DEF NoFollow, NoItem, Item, Stations
<1>3. /\ meta \in [under : Nat, count : 0..PerMessage, continued : BOOLEAN,
                   end : Nat, stage : Stages]
      /\ meta.end = 0 /\ meta.under = 0 /\ meta.stage = "none" /\ meta.count = 0
    BY <1>1 DEF NoMeta, Stages, PerMessage
<1>4. /\ stop \in [at : {"idle", "take", "keep", "check", "control"}, again : BOOLEAN]
      /\ stop.at = "idle"
    BY <1>1 DEF NoStop
<1>5. Values(waiting) = {} /\ Values(past.began) = {} /\ InHand = {} /\ Items = {}
      /\ waiting \in Seq(Item) /\ Distinct(waiting) /\ Distinct(past.began)
      /\ DOMAIN waiting = {} /\ DOMAIN past.continued = {}
    BY <1>1, <1>2, NoItems DEF InHand, FollowAt, Items
<1>6. FollowTypeOK
  <2>1. task \in [ends : Nat, open : BOOLEAN, why : Whys]
      BY <1>1 DEF Whys
  <2>2. looks \in [end : Nat, ready : BOOLEAN]
      BY <1>1 DEF NoLook
  <2>3. person \in [newest : Nat, ends : Nat, coming : BOOLEAN, queued : BOOLEAN]
      BY <1>1
  <2>4. past.stopped = {} /\ past.lost = {}
      BY DEF FollowInit
  <2> QED BY <1>1, <1>2, <1>3, <1>4, <1>5, <2>1, <2>2, <2>3, <2>4 DEF FollowTypeOK
<1>7. PastOK
  <2>1. past = [began |-> <<>>, continued |-> <<>>, stopped |-> {}, lost |-> {}]
      BY DEF FollowInit
  <2> QED BY <2>1, NoItems DEF PastOK
<1>8. LockSound
  <2>1. task.ends = 0 /\ person.newest = 1
      BY <1>1
  <2> QED BY <1>1, <1>3, <1>4, <2>1 DEF LockSound, InTurn
<1>9. OneEach /\ StageSound
  <2>1. EndsOf({}) = {}
      BY DEF EndsOf
  <2>2. OneEach
      BY <1>2, <1>3, <1>5, <2>1 DEF OneEach, Unbegun
  <2>3. StageSound
      BY <1>2, <1>5 DEF StageSound
  <2> QED BY <2>2, <2>3
<1>10. CountSound
  <2> SUFFICES ASSUME NEW turn \in Nat
               PROVE  Cardinality(CountsFor(turn)) <= PerMessage
                      /\ (turn = meta.under => Cardinality(CountsFor(turn)) <= meta.count)
      BY DEF CountSound
  <2>1. CountsFor(turn) = {}
      BY <1>3, <1>5 DEF CountsFor, Pending
  <2>2. Cardinality(CountsFor(turn)) = 0
      BY <2>1, FS_EmptySet
  <2> QED BY <1>3, <2>2 DEF PerMessage
<1>11. ContinueSound /\ StopSound /\ StopHolds
    BY <1>1, <1>4, <1>5 DEF ContinueSound, StopSound, StopHolds
<1> QED BY <1>5, <1>6, <1>7, <1>8, <1>9, <1>10, <1>11 DEF FollowInv

LEMMA FollowKeeps == FollowInv /\ [FollowNext]_followVars => FollowInv'
<1> SUFFICES ASSUME FollowInv, [FollowNext]_followVars PROVE FollowInv'
    OBVIOUS
<1>1. CASE FollowNext
  <2>1. CASE FollowSteps
    <3>1. CASE SendsQueued \/ PersonBegins \/ PersonRefused \/ PersonTurnEnds
        BY <3>1, PersonKeeps
    <3>2. CASE Look \/ QueueFollowUp \/ RunNext \/ Still \/ MarkBegan
        BY <3>2, LookKeeps, QueueKeeps, RunNextKeeps, StillKeeps, MarkBeganKeeps
    <3>3. CASE StartsTurn \/ StartBusy \/ MarkQueued \/ Settle \/ TurnEnds \/ MarkTold
        BY <3>3, StartsTurnKeeps, StartKeeps, MarkQueuedKeeps, SettleKeeps, TurnEndKeeps
    <3>4. CASE NoteSent
        BY <3>4, NoteKeeps
    <3>5. CASE StopTakes \/ StopKeeps \/ StopChecks \/ StopControls
        BY <3>5, StopTakeKeeps, StopKeepKeeps, StopStepKeeps
    <3> QED BY <2>1, <3>1, <3>2, <3>3, <3>4, <3>5 DEF FollowSteps
  <2>2. CASE FollowChoices
      BY <2>2, ContinueTaskKeeps, NoteFailKeeps, NoteKeeps, StartKeeps DEF FollowChoices
  <2>3. CASE FollowActs
      BY <2>3, PersonKeeps, TaskKeeps, StopStepKeeps, RestartKeeps DEF FollowActs
  <2>5. CASE FollowFaults
      BY <2>5, LookFailKeeps, ItemLostKeeps, RowFailKeeps, NoteKeeps, StopFailKeeps, RestartKeeps
         DEF FollowFaults
  <2>4. CASE \E why \in Whys : TaskStops(why)
      BY <2>4, TaskKeeps
  <2> QED BY <1>1, <2>1, <2>2, <2>3, <2>4, <2>5 DEF FollowNext
<1>2. CASE UNCHANGED followVars
  <2>1. UNCHANGED <<task, chat, person, meta, lock, heard, looks, seen, waiting, follow, stop, on, past>>
      BY <1>2 DEF followVars
  <2>2. FollowTypeOK' /\ LockSound'
    <3>1. FollowTypeOK'
        BY <2>1 DEF FollowInv, FollowTypeOK
    <3>2. LockSound'
        BY <2>1 DEF FollowInv, LockSound, FollowAt, InTurn
    <3> QED BY <3>1, <3>2
  <2> QED BY <2>1, <2>2, FollowStays
<1> QED BY <1>1, <1>2

LEMMA FollowInvHolds == FollowSpec => []FollowInv
BY FollowStarts, FollowKeeps, PTL DEF FollowSpec

LEMMA OnceShown == FollowInv => FollowedOnce
<1> SUFFICES ASSUME FollowInv PROVE FollowedOnce
    OBVIOUS
<1> DEFINE Counted(turn) ==
        {n \in DOMAIN past.began : ~past.began[n].ready /\ past.began[n].under = turn}
<1>1. Distinct(past.began) /\ ContinueSound /\ CountSound
    BY DEF FollowInv, OneEach
<1>2. \A n \in DOMAIN past.began : past.began[n] \in Items /\ past.began[n] \in Item
    BY Facts DEF Items, Values
<1>3. ASSUME NEW n \in DOMAIN past.began
      PROVE  past.began[n].end \in 1..meta.end /\ past.began[n].under \in Nat
  <2>1. PICK i \in Items : i = past.began[n]
      BY <1>2
  <2>2. i \in Item /\ meta.end \in Nat
      BY <2>1, <1>2, Facts
  <2>3. ItemSound(i)
      BY <2>1 DEF FollowInv
  <2>4. i.end \in 1..meta.end /\ i.under \in Nat
      BY <2>2, <2>3 DEF ItemSound, Item
  <2> QED BY <2>1, <2>4
<1>4. ASSUME NEW n \in DOMAIN past.began
      PROVE  Cardinality(Counted(past.began[n].under)) <= PerMessage
  <2>1. PICK turn \in Nat : turn = past.began[n].under
      BY <1>3
  <2> DEFINE f == [m \in Counted(turn) |-> past.began[m].end]
  <2>2. \A m \in Counted(turn) : past.began[m].end \in CountsFor(turn)
      BY <1>2, <1>3 DEF CountsFor
  <2>3. f \in [Counted(turn) -> CountsFor(turn)]
      BY <2>2
  <2>4. \A m, other \in Counted(turn) : past.began[m].end = past.began[other].end => m = other
      BY <1>1 DEF Distinct
  <2>5. f \in Injection(Counted(turn), CountsFor(turn))
      BY <2>3, <2>4 DEF Injection, IsInjective
  <2>6. IsFiniteSet(CountsFor(turn)) /\ Cardinality(CountsFor(turn)) \in Nat
      BY Facts
  <2> HIDE DEF Counted, f
  <2>7. /\ Cardinality(Counted(turn)) <= Cardinality(CountsFor(turn))
        /\ IsFiniteSet(Counted(turn))
      BY <2>5, <2>6, FS_Injection
  <2>8. Cardinality(Counted(turn)) \in Nat /\ Cardinality(CountsFor(turn)) <= PerMessage
      BY <1>1, <2>7, FS_CardinalityType DEF CountSound
  <2>9. Cardinality(Counted(turn)) <= PerMessage
      BY <2>6, <2>7, <2>8 DEF PerMessage
  <2> QED BY <2>1, <2>9
<1>5. \A n, other \in DOMAIN past.began : past.began[n].end = past.began[other].end => n = other
    BY <1>1 DEF Distinct
<1>6. \A n, other \in DOMAIN past.continued :
          past.continued[n].under = past.continued[other].under => n = other
    BY <1>1 DEF ContinueSound
<1> QED BY <1>4, <1>5, <1>6 DEF FollowedOnce

(* The types of a chat's follow-ups hold for any number of ends (followups.py). *)
THEOREM FollowTypeCorrect == FollowSpec => []FollowTypeOK
<1>1. FollowInv => FollowTypeOK
    BY DEF FollowInv
<1> QED BY <1>1, FollowInvHolds, PTL

(* However many ends, messages, Stops and restarts: an end's follow-up     *)
(* gets one turn, a message at most PerMessage beside the Ready ones, and  *)
(* at most one of them continues the task (_consider_locked, restore).     *)
THEOREM EndFollowedOnce == FollowSpec => []FollowedOnce
BY OnceShown, FollowInvHolds, PTL

(* From the moment a Stop is kept for an end, no follow-up of it waits,    *)
(* runs unstopped or continues the task (stop, _mark, continue_task).      *)
THEOREM FollowUpStops == FollowSpec => []StopHolds
<1>1. FollowInv => StopHolds
    BY DEF FollowInv
<1> QED BY <1>1, FollowInvHolds, PTL
=============================================================================
