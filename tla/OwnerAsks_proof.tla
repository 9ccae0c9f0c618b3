--------------------------- MODULE OwnerAsks_proof ---------------------------
(***************************************************************************)
(* What holds of a chat's queue for any messages, questions, Stops and     *)
(* restarts: what was accepted waits, in the queue and in the store, until *)
(* something became of it, and one thing only becomes of it.               *)
(***************************************************************************)
EXTENDS OwnerAsks, SequenceTheorems, FiniteSetTheorems, TLAPS

Values(queue) == {queue[n] : n \in DOMAIN queue}

FateOK == fate \in [ran : [Msgs -> Nat], read : SUBSET Msgs, given : SUBSET Msgs,
                    unsent : SUBSET Msgs, dropped : SUBSET Msgs, left : SUBSET Msgs,
                    lost : SUBSET Asks]

Stored(m) == m \in Values(stored)
IsNote(m) == [m |-> m, of |-> TRUE] \in Values(people)
Withdrawn == fate.read \cup fate.given

(* The message that the drain sends, or has sent and not yet taken out.    *)
InSending == drain.at \in {"sending", "sent", "unsent"}
SendSound ==
    /\ InSending => /\ drain.item \in Msgs /\ ~IsNote(drain.item)
                    /\ drain.item \notin Withdrawn \ fate.left
                    /\ told[drain.item] \notin {"new", "held"}
    /\ DrainAt("sent") => fate.ran[drain.item] > 0
    /\ drain.at \in {"opens", "starts", "asking"} => drain.item \in Asks

(* A message that was not queued yet left no trace.                        *)
Untouched(m) ==
    told[m] \in {"new", "held"} =>
        /\ ~Waits(m) /\ ~Stored(m) /\ fate.ran[m] = 0
        /\ m \notin Withdrawn \cup fate.left

(* A note is of the turn that runs, and nothing became of it; whatever was *)
(* read or given back waits no more.                                       *)
NoteSound(m) ==
    /\ IsNote(m) => /\ fate.ran[m] = 0 /\ m \notin Withdrawn
                    /\ current.kind = "person"
    /\ Waits(m) /\ m \in Withdrawn => m \in fate.left

(* What is stored, or told to its sender, waits as long as nothing became  *)
(* of it.                                                                  *)
KeptSound(m) ==
    told[m] \in {"storing", "accepted"} /\ ~Became(m) => Waits(m) /\ Stored(m)

OnceSound(m) ==
    m \notin fate.left =>
        /\ fate.ran[m] <= 1 /\ ~(m \in fate.read /\ m \in fate.given)
        /\ fate.ran[m] = 1 => m \notin Withdrawn

MessageSound(m) == Untouched(m) /\ NoteSound(m) /\ KeptSound(m) /\ OnceSound(m)
QueueInv == OwnerTypeOK /\ FateOK /\ SendSound /\ \A m \in Msgs : MessageSound(m)
-----------------------------------------------------------------------------
(* Queues *)

LEMMA QueueValues == ASSUME NEW S, NEW q \in Seq(S) PROVE Values(q) \subseteq S
<1> SUFFICES ASSUME NEW n \in DOMAIN q PROVE q[n] \in S
    BY DEF Values
<1> QED BY LenProperties

(* The places are counted in their order, so each of them comes once.      *)
LEMMA NthPlace ==
    ASSUME NEW places \in SUBSET Nat, IsFiniteSet(places)
    PROVE  /\ \A i \in 1..Cardinality(places) : Nth(places, i) \in places
           /\ \A n \in places : \E i \in 1..Cardinality(places) : Nth(places, i) = n
<1> DEFINE upto(n) == {k \in places : k <= n}
           rank == [n \in places |-> Cardinality(upto(n))]
           size == Cardinality(places)
<1>1. size \in Nat
    BY FS_CardinalityType
<1>2. ASSUME NEW n \in places
      PROVE  IsFiniteSet(upto(n)) /\ rank[n] \in 1..size
  <2>1. IsFiniteSet(upto(n)) /\ Cardinality(upto(n)) <= size /\ Cardinality(upto(n)) \in Nat
    <3>1. upto(n) \in SUBSET places
        OBVIOUS
    <3> HIDE DEF upto
    <3> QED BY <3>1, FS_Subset, FS_CardinalityType
  <2>2. upto(n) # {}
    <3>1. n \in upto(n)
        OBVIOUS
    <3> QED BY <3>1
  <2>3. Cardinality(upto(n)) # 0
    <3> HIDE DEF upto
    <3> QED BY <2>1, <2>2, FS_EmptySet
  <2> QED BY <1>1, <2>1, <2>3
<1>3. ASSUME NEW n \in places, NEW k \in places, rank[n] = rank[k] PROVE n = k
  <2>1. ASSUME NEW x \in places, NEW y \in places, x < y PROVE rank[x] # rank[y]
    <3>1. upto(x) \subseteq upto(y) /\ y \in upto(y) /\ y \notin upto(x)
      <4>1. /\ x \in Nat /\ y \in Nat /\ y <= y /\ ~(y <= x)
            /\ \A z \in places : z \in Nat /\ (z <= x => z <= y)
          BY <2>1
      <4> QED BY <4>1
    <3>2. IsFiniteSet(upto(y)) /\ upto(x) # upto(y) /\ upto(x) \in SUBSET upto(y)
        BY <1>2, <3>1
    <3>3. Cardinality(upto(x)) # Cardinality(upto(y))
      <4> HIDE DEF upto
      <4> QED BY <3>2, FS_Subset
    <3> QED BY <3>3
  <2>2. n < k \/ k < n \/ n = k
      OBVIOUS
  <2> HIDE DEF rank
  <2> QED BY <1>3, <2>1, <2>2
<1>4. \A i \in 1..size : \E n \in places : rank[n] = i
  <2>1. rank \in [places -> 1..size]
      BY <1>2
  <2> HIDE DEF rank
  <2>2. rank \in Injection(places, 1..size)
      BY <1>3, <2>1 DEF Injection, IsInjective
  <2>3. IsFiniteSet(1..size) /\ Cardinality(1..size) = size
    <3>1. 1 \in Int /\ size \in Int
        BY <1>1
    <3>2. IsFiniteSet(1..size) /\ Cardinality(1..size) = IF 1 > size THEN 0 ELSE size - 1 + 1
        BY <3>1, FS_Interval
    <3> QED BY <1>1, <3>2
  <2> DEFINE all == 1..size
  <2>4. rank \in Injection(places, all) /\ IsFiniteSet(all) /\ Cardinality(places) = Cardinality(all)
      BY <2>2, <2>3
  <2>5. rank \in Surjection(places, all)
    <3> HIDE DEF all
    <3> QED BY <2>4, FS_Injection
  <2> QED BY <2>5 DEF Surjection
<1>5. \A i \in 1..size : Nth(places, i) \in places /\ rank[Nth(places, i)] = i
  <2> SUFFICES ASSUME NEW i \in 1..size
               PROVE  Nth(places, i) \in places /\ Cardinality(upto(Nth(places, i))) = i
      OBVIOUS
  <2>1. \E n \in places : Cardinality(upto(n)) = i
      BY <1>4
  <2> QED BY <2>1 DEF Nth
<1>6. ASSUME NEW n \in places PROVE \E i \in 1..size : Nth(places, i) = n
  <2> DEFINE i == rank[n]
  <2>1. i \in 1..size
      BY <1>2
  <2>2. Nth(places, i) \in places /\ rank[Nth(places, i)] = rank[n]
      BY <1>5, <2>1
  <2> HIDE DEF i, rank
  <2>3. Nth(places, i) = n
      BY <1>3, <2>2
  <2> QED BY <2>1, <2>3
<1> QED BY <1>5, <1>6

LEMMA SomeEntries ==
    ASSUME NEW S, NEW q \in Seq(S), NEW places \in SUBSET DOMAIN q
    PROVE  /\ Entries(q, places) \in Seq(S)
           /\ Values(Entries(q, places)) = {q[n] : n \in places}
<1> DEFINE size == Cardinality(places)
           at(i) == Nth(places, i)
           some == Entries(q, places)
<1>1. Len(q) \in Nat /\ DOMAIN q = 1..Len(q) /\ \A n \in DOMAIN q : q[n] \in S
    BY LenProperties
<1>2. places \in SUBSET Nat /\ IsFiniteSet(places)
  <2>1. IsFiniteSet(1..Len(q))
    <3>1. 1 \in Int /\ Len(q) \in Int
        BY <1>1
    <3> QED BY <3>1, FS_Interval
  <2> QED BY <1>1, <2>1, FS_Subset
<1>3. /\ \A i \in 1..size : at(i) \in places
      /\ \A n \in places : \E i \in 1..size : at(i) = n
    BY <1>2, NthPlace
<1>4. some = [i \in 1..size |-> q[at(i)]] /\ size \in Nat
    BY <1>2, FS_CardinalityType DEF Entries
<1> HIDE DEF some, at, size
<1>5. \A i \in 1..size : q[at(i)] \in S
    BY <1>1, <1>3
<1>6. some \in [1..size -> S]
    BY <1>4, <1>5
<1>7. some \in Seq(S)
  <2>1. \A n \in Nat : [1..n -> S] \subseteq Seq(S)
      OBVIOUS
  <2> QED BY <1>4, <1>6, <2>1
<1>8. Values(some) = {q[n] : n \in places}
    BY <1>3, <1>4 DEF Values
<1> QED BY <1>7, <1>8 DEF some

LEMMA LastEntry ==
    ASSUME NEW S, NEW q \in Seq(S), NEW x \in S
    PROVE  Append(q, x) \in Seq(S) /\ Values(Append(q, x)) = Values(q) \cup {x}
<1> DEFINE longer == Append(q, x)
<1>1. /\ longer \in Seq(S) /\ Len(longer) = Len(q) + 1 /\ longer[Len(q) + 1] = x
      /\ \A n \in 1..Len(q) : longer[n] = q[n]
    BY AppendProperties
<1>2. /\ Len(q) \in Nat /\ DOMAIN q = 1..Len(q) /\ DOMAIN longer = 1..Len(q) + 1
    BY <1>1, LenProperties
<1> HIDE DEF longer
<1>3. DOMAIN longer = DOMAIN q \cup {Len(q) + 1} /\ Len(q) + 1 \notin DOMAIN q
    BY <1>2
<1>4. Values(longer) = Values(q) \cup {x}
    BY <1>1, <1>2, <1>3 DEF Values
<1> QED BY <1>1, <1>4 DEF longer

LEMMA FirstEntry ==
    ASSUME NEW S, NEW q \in Seq(S), q # <<>>
    PROVE  /\ Head(q) \in S /\ Head(q) \in Values(q) /\ Tail(q) \in Seq(S)
           /\ Values(q) = Values(Tail(q)) \cup {Head(q)}
<1> DEFINE rest == Tail(q)
<1>1. /\ Head(q) \in S /\ rest \in Seq(S) /\ Head(q) = q[1]
      /\ Len(rest) = Len(q) - 1 /\ \A n \in 1..Len(rest) : rest[n] = q[n + 1]
    BY HeadTailProperties
<1>2. /\ Len(q) \in Nat /\ DOMAIN q = 1..Len(q) /\ DOMAIN rest = 1..Len(rest) /\ Len(q) # 0
    BY <1>1, LenProperties, EmptySeq
<1> HIDE DEF rest
<1>3. \A n \in DOMAIN rest : n + 1 \in DOMAIN q /\ rest[n] = q[n + 1]
    BY <1>1, <1>2
<1>4. \A n \in DOMAIN q : n = 1 \/ (n - 1 \in DOMAIN rest /\ rest[n - 1] = q[n])
  <2>1. ASSUME NEW n \in DOMAIN q, n # 1 PROVE n - 1 \in DOMAIN rest /\ (n - 1) + 1 = n
      BY <1>1, <1>2, <2>1
  <2> QED BY <1>3, <2>1
<1>5. 1 \in DOMAIN q
    BY <1>2
<1>6. Head(q) \in Values(q)
    BY <1>1, <1>5 DEF Values
<1>7. Values(q) = Values(rest) \cup {Head(q)}
  <2>1. \A n \in DOMAIN q : q[n] \in Values(rest) \cup {Head(q)}
      BY <1>1, <1>4 DEF Values
  <2>2. \A n \in DOMAIN rest : rest[n] \in Values(q)
      BY <1>3 DEF Values
  <2> QED BY <1>6, <2>1, <2>2 DEF Values
<1> QED BY <1>1, <1>6, <1>7 DEF rest

(* A queue with every entry replaced. *)
LEMMA MappedEntries ==
    ASSUME NEW S, NEW T, NEW q \in Seq(S), NEW other, DOMAIN other = DOMAIN q,
           other = [n \in DOMAIN q |-> other[n]], \A n \in DOMAIN q : other[n] \in T
    PROVE  other \in Seq(T)
<1>1. Len(q) \in Nat /\ DOMAIN q = 1..Len(q)
    BY LenProperties
<1>2. other \in [1..Len(q) -> T]
    BY <1>1
<1>3. \A n \in Nat : [1..n -> T] \subseteq Seq(T)
    OBVIOUS
<1> QED BY <1>1, <1>2, <1>3

LEMMA KeysStored ==
    ASSUME NEW q \in Seq(Entry)
    PROVE  KeysOf(q) \in Seq(Msgs) /\ Values(KeysOf(q)) = {e.m : e \in Values(q)}
<1>1. \A n \in DOMAIN q : q[n] \in Entry
    BY LenProperties
<1>2. KeysOf(q) \in Seq(Msgs)
    BY <1>1, MappedEntries DEF KeysOf, Entry
<1>3. Values(KeysOf(q)) = {e.m : e \in Values(q)}
    BY DEF KeysOf, Values
<1> QED BY <1>2, <1>3

(* The next messages that a turn's unread notes become, and a restart's.   *)
LEMMA MessagesOf ==
    ASSUME NEW q \in Seq(Entry)
    PROVE  LET next == [n \in DOMAIN q |-> [q[n] EXCEPT !.of = FALSE]]
           IN  next \in Seq(Entry) /\ Values(next) = {[m |-> e.m, of |-> FALSE] : e \in Values(q)}
<1> DEFINE next == [n \in DOMAIN q |-> [q[n] EXCEPT !.of = FALSE]]
<1>1. \A n \in DOMAIN q : q[n] \in Entry
    BY LenProperties
<1>2. \A n \in DOMAIN q : next[n] = [m |-> q[n].m, of |-> FALSE] /\ next[n] \in Entry
    BY <1>1 DEF Entry
<1>3. next \in Seq(Entry)
  <2>1. DOMAIN next = DOMAIN q /\ next = [n \in DOMAIN q |-> next[n]]
      OBVIOUS
  <2> HIDE DEF next
  <2> QED BY <1>2, <2>1, MappedEntries
<1>4. Values(next) = {[m |-> e.m, of |-> FALSE] : e \in Values(q)}
  <2>1. DOMAIN next = DOMAIN q
      OBVIOUS
  <2> HIDE DEF next
  <2> QED BY <1>2, <2>1 DEF Values
<1> QED BY <1>3, <1>4

LEMMA RestoredQueue ==
    ASSUME NEW q \in Seq(Msgs)
    PROVE  LET next == [n \in DOMAIN q |-> [m |-> q[n], of |-> FALSE]]
           IN  next \in Seq(Entry) /\ Values(next) = {[m |-> k, of |-> FALSE] : k \in Values(q)}
<1> DEFINE next == [n \in DOMAIN q |-> [m |-> q[n], of |-> FALSE]]
<1>1. \A n \in DOMAIN q : q[n] \in Msgs
    BY LenProperties
<1>2. \A n \in DOMAIN q : next[n] \in Entry
    BY <1>1 DEF Entry
<1>3. next \in Seq(Entry)
  <2>1. DOMAIN next = DOMAIN q /\ next = [n \in DOMAIN q |-> next[n]]
      OBVIOUS
  <2> HIDE DEF next
  <2> QED BY <1>2, <2>1, MappedEntries
<1>4. Values(next) = {[m |-> k, of |-> FALSE] : k \in Values(q)}
    BY DEF Values
<1> QED BY <1>3, <1>4
(* A queue of messages, none of them a note. *)
LEMMA PlainQueue ==
    ASSUME NEW K, NEW plain, plain = {[m |-> k, of |-> FALSE] : k \in K}
    PROVE  /\ \A m : (\E e \in plain : e.m = m) <=> m \in K
           /\ \A m : [m |-> m, of |-> TRUE] \notin plain
<1> DEFINE entry(k) == [m |-> k, of |-> FALSE]
<1>1. \A k : entry(k).m = k /\ entry(k).of = FALSE
    OBVIOUS
<1>2. plain = {entry(k) : k \in K}
    OBVIOUS
<1> HIDE DEF entry
<1>3. \A m : (\E e \in plain : e.m = m) <=> m \in K
  <2>1. ASSUME NEW e \in plain PROVE e.m \in K /\ e.of = FALSE
    <3>1. PICK k \in K : e = entry(k)
        BY <1>2
    <3> QED BY <1>1, <3>1
  <2>2. ASSUME NEW k \in K PROVE \E e \in plain : e.m = k
    <3>1. entry(k) \in plain /\ entry(k).m = k
        BY <1>1, <1>2
    <3> QED BY <3>1
  <2> QED BY <2>1, <2>2
<1>4. \A e \in plain : e.of = FALSE
  <2> SUFFICES ASSUME NEW e \in plain PROVE e.of = FALSE
      OBVIOUS
  <2>1. PICK k \in K : e = entry(k)
      BY <1>2
  <2> QED BY <1>1, <2>1
<1>5. \A m : [m |-> m, of |-> TRUE].of = TRUE
    OBVIOUS
<1> QED BY <1>3, <1>4, <1>5
-----------------------------------------------------------------------------
(* A step that leaves the messages as they are *)

AskStates == {"none", "placing", "open", "closed", "over"}
AskEnds == {"none", "owner", "person", "timeout", "stopped"}
AskRecords == [at : AskStates, on : {"owner", "person"}, how : AskEnds]
Turns == [kind : {"none", "person", "ask"}, stopped : BOOLEAN, over : BOOLEAN]
Drains == [at : {"idle", "sending", "sent", "unsent", "forget", "opens", "starts", "asking"},
           item : Msgs \cup Asks \cup {Nobody}]
Tolds == {"new", "held", "storing", "failing", "accepted", "refused", "cut"}

LEMMA OwnerTypes ==
    OwnerTypeOK <=> /\ people \in Seq(Entry) /\ stored \in Seq(Msgs)
                    /\ current \in Turns /\ drain \in Drains /\ told \in [Msgs -> Tolds]
                    /\ ask \in [Asks -> AskRecords] /\ line \in Seq(Asks)
                    /\ forgetting \in BOOLEAN
                    /\ (current.kind = "ask" => drain.at = "asking")
BY DEF OwnerTypeOK, AskStates, AskEnds, AskRecords, Turns, Drains, Tolds

LEMMA OwnerTypesNext ==
    OwnerTypeOK' <=> /\ people' \in Seq(Entry) /\ stored' \in Seq(Msgs)
                     /\ current' \in Turns /\ drain' \in Drains /\ told' \in [Msgs -> Tolds]
                     /\ ask' \in [Asks -> AskRecords] /\ line' \in Seq(Asks)
                     /\ forgetting' \in BOOLEAN
                     /\ (current'.kind = "ask" => drain'.at = "asking")
BY DEF OwnerTypeOK, AskStates, AskEnds, AskRecords, Turns, Drains, Tolds

LEMMA AskCloses ==
    ASSUME QueueInv, NEW a \in Asks, NEW how \in AskEnds, Closes(a, how)
    PROVE  ask' \in [Asks -> AskRecords]
<1>1. ask \in [Asks -> AskRecords]
    BY OwnerTypes DEF QueueInv
<1>2. Closed(a, how) \in AskRecords
    BY <1>1 DEF Closed, AskRecords, AskStates
<1> HIDE DEF Closed
<1> QED BY <1>1, <1>2 DEF Closes

LEMMA TurnStops ==
    ASSUME QueueInv
    PROVE  /\ [current EXCEPT !.stopped = TRUE] \in Turns
           /\ [current EXCEPT !.stopped = TRUE].kind = current.kind
           /\ [current EXCEPT !.over = TRUE] \in Turns
           /\ [current EXCEPT !.over = TRUE].kind = current.kind
<1>1. current \in Turns
    BY OwnerTypes DEF QueueInv
<1> QED BY <1>1 DEF Turns

LEMMA MessagesStay ==
    ASSUME QueueInv, UNCHANGED <<people, stored, told>>,
           fate'.ran = fate.ran, fate'.read = fate.read, fate'.given = fate.given,
           fate'.unsent = fate.unsent, fate'.dropped = fate.dropped, fate'.left = fate.left,
           current'.kind = current.kind \/ NoTurn
    PROVE  \A m \in Msgs : MessageSound(m)'
<1> SUFFICES ASSUME NEW m \in Msgs PROVE MessageSound(m)'
    OBVIOUS
<1>1. MessageSound(m)
    BY DEF QueueInv
<1>2. Untouched(m)'
    BY <1>1 DEF MessageSound, Untouched, Waits, Stored, Withdrawn, Values
<1>3. NoteSound(m)'
    BY <1>1 DEF MessageSound, NoteSound, Waits, IsNote, Withdrawn, Values, NoTurn
<1>4. KeptSound(m)'
    BY <1>1 DEF MessageSound, KeptSound, Waits, Stored, Values, Became
<1>5. OnceSound(m)'
    BY <1>1 DEF MessageSound, OnceSound, Withdrawn
<1> QED BY <1>2, <1>3, <1>4, <1>5 DEF MessageSound

LEMMA QuestionKeeps ==
    ASSUME QueueInv, UNCHANGED <<people, stored, drain, told, forgetting, fate>>,
           ask' \in [Asks -> AskRecords], line' \in Seq(Asks), current' \in Turns,
           \/ current'.kind = current.kind
           \/ NoTurn /\ current'.kind # "ask"
    PROVE  QueueInv'
<1>1. OwnerTypeOK'
    BY OwnerTypes, OwnerTypesNext DEF QueueInv
<1>2. SendSound'
    BY DEF QueueInv, SendSound, InSending, DrainAt, IsNote, Values, Withdrawn
<1>3. FateOK'
    BY DEF QueueInv, FateOK
<1>4. \A m \in Msgs : MessageSound(m)'
    BY MessagesStay
<1> QED BY <1>1, <1>2, <1>3, <1>4 DEF QueueInv

LEMMA PersonTurnKeeps ==
    ASSUME QueueInv, PersonStarts \/ CancelMessage \/ RunOver
    PROVE  QueueInv'
<1>1. UNCHANGED <<people, stored, drain, told, ask, line, forgetting, fate>>
    BY DEF PersonStarts, CancelMessage, RunOver
<1>2. /\ current' \in Turns
      /\ \/ current'.kind = current.kind
         \/ NoTurn /\ current'.kind # "ask"
  <2>1. CASE PersonStarts
    <3>1. current' = [kind |-> "person", stopped |-> FALSE, over |-> FALSE] /\ NoTurn
        BY <2>1 DEF PersonStarts, Runs, Quiet
    <3> QED BY <3>1 DEF Turns
  <2>2. CASE CancelMessage \/ RunOver
      BY <2>2, TurnStops DEF CancelMessage, RunOver
  <2> QED BY <2>1, <2>2
<1>3. ask \in [Asks -> AskRecords] /\ line \in Seq(Asks)
    BY OwnerTypes DEF QueueInv
<1> QED BY <1>1, <1>2, <1>3, QuestionKeeps

LEMMA AskKeeps ==
    ASSUME QueueInv, NEW a \in Asks,
           \/ AskBegins(a) \/ AskPlaced(a) \/ AskStopped(a) \/ WorkerGoesOn(a) \/ Reply(a)
           \/ AnswerAsk(a) \/ AskPerson(a) \/ TimesOut(a)
    PROVE  QueueInv'
<1>1. UNCHANGED <<people, stored, drain, told, forgetting, fate>>
    BY DEF AskBegins, AskPlaced, AskStopped, WorkerGoesOn, Reply, AnswerAsk, AskPerson, TimesOut
<1>2. ask \in [Asks -> AskRecords] /\ line \in Seq(Asks) /\ current \in Turns
    BY OwnerTypes DEF QueueInv
<1>3. ask' \in [Asks -> AskRecords]
  <2>1. CASE AskBegins(a)
    <3>1. ask' = [ask EXCEPT ![a].at = "placing"]
        BY <2>1 DEF AskBegins
    <3> QED BY <1>2, <3>1 DEF AskRecords, AskStates
  <2>2. CASE AskPlaced(a)
    <3>1. PICK at \in AskStates : ask' = [ask EXCEPT ![a].at = at]
        BY <2>2 DEF AskPlaced, AskStates
    <3> QED BY <1>2, <3>1 DEF AskRecords
  <2>3. CASE AskStopped(a)
    <3>1. ask' = [ask EXCEPT ![a].at = "over", ![a].how = "stopped"]
        BY <2>3 DEF AskStopped
    <3> QED BY <1>2, <3>1 DEF AskRecords, AskStates, AskEnds
  <2>4. CASE WorkerGoesOn(a)
    <3>1. ask' = [ask EXCEPT ![a].at = "over"]
        BY <2>4 DEF WorkerGoesOn
    <3> QED BY <1>2, <3>1 DEF AskRecords, AskStates
  <2>5. CASE Reply(a)
    <3>1. Closes(a, "person") \/ ask' = [ask EXCEPT ![a].how = "person"]
        BY <2>5 DEF Reply
    <3>2. "person" \in AskEnds
        BY DEF AskEnds
    <3>3. CASE ask' = [ask EXCEPT ![a].how = "person"]
        BY <1>2, <3>2, <3>3 DEF AskRecords
    <3> QED BY <3>1, <3>2, <3>3, AskCloses
  <2>6. CASE AnswerAsk(a) \/ TimesOut(a)
    <3>1. \E how \in AskEnds : Closes(a, how)
        BY <2>6 DEF AnswerAsk, TimesOut, AskEnds
    <3> QED BY <3>1, AskCloses
  <2>7. CASE AskPerson(a)
    <3>1. ask' = [ask EXCEPT ![a].on = "person"]
        BY <2>7 DEF AskPerson
    <3> QED BY <1>2, <3>1 DEF AskRecords
  <2> QED BY <2>1, <2>2, <2>3, <2>4, <2>5, <2>6, <2>7
<1>4. line' \in Seq(Asks)
  <2>1. \/ line' = line \/ line' = Append(line, a) \/ OutOfLine(a)
      BY DEF AskBegins, AskPlaced, AskStopped, WorkerGoesOn, Reply, AnswerAsk, AskPerson, TimesOut
  <2>2. Append(line, a) \in Seq(Asks)
      BY <1>2, LastEntry
  <2>3. OutOfLine(a) => line' \in Seq(Asks)
    <3>1. {n \in DOMAIN line : line[n] # a} \in SUBSET DOMAIN line
        OBVIOUS
    <3>2. Entries(line, {n \in DOMAIN line : line[n] # a}) \in Seq(Asks)
        BY <1>2, <3>1, SomeEntries
    <3> QED BY <3>2 DEF OutOfLine
  <2> QED BY <1>2, <2>1, <2>2, <2>3
<1>5. current' \in Turns /\ current'.kind = current.kind
  <2>1. current' = current \/ current' = [current EXCEPT !.stopped = TRUE]
      BY DEF AskBegins, AskPlaced, AskStopped, WorkerGoesOn, Reply, AnswerAsk, AskPerson, TimesOut,
             StopsAskTurn
  <2> QED BY <1>2, <2>1, TurnStops
<1> QED BY <1>1, <1>3, <1>4, <1>5, QuestionKeeps
-----------------------------------------------------------------------------
(* The drain's steps that leave the messages as they are *)

LEMMA DrainKeeps ==
    ASSUME QueueInv, UNCHANGED <<people, stored, told, forgetting>>, drain' \in Drains,
           ask' \in [Asks -> AskRecords], line' \in Seq(Asks), current' \in Turns,
           current'.kind = current.kind \/ NoTurn,
           current'.kind = "ask" => drain'.at = "asking",
           fate'.ran = fate.ran, fate'.read = fate.read, fate'.given = fate.given,
           fate'.unsent = fate.unsent, fate'.dropped = fate.dropped, fate'.left = fate.left,
           FateOK', SendSound'
    PROVE  QueueInv'
<1>1. OwnerTypeOK'
    BY OwnerTypes, OwnerTypesNext DEF QueueInv
<1>2. \A m \in Msgs : MessageSound(m)'
    BY MessagesStay
<1> QED BY <1>1, <1>2 DEF QueueInv

LEMMA SendsKeeps ==
    ASSUME QueueInv, Sends \/ SendsRepeated \/ SendsBusy \/ SendFails
    PROVE  QueueInv'
<1>1. UNCHANGED <<people, stored, current, told, ask, line, forgetting, fate>>
    BY DEF Sends, SendsRepeated, SendsBusy, SendFails
<1>2. /\ people \in Seq(Entry) /\ ask \in [Asks -> AskRecords] /\ line \in Seq(Asks)
      /\ current \in Turns /\ drain \in Drains /\ (current.kind = "ask" => drain.at = "asking")
      /\ FateOK /\ SendSound /\ \A m \in Msgs : MessageSound(m)
    BY OwnerTypes DEF QueueInv
<1>3. FateOK'
    BY <1>1, <1>2 DEF FateOK
<1>4. CASE Sends
  <2>1. /\ NoTurn /\ people # <<>> /\ drain' = [at |-> "sending", item |-> Head(people).m]
      BY <1>4 DEF Sends
  <2>2. Head(people) \in Entry /\ Head(people) \in Values(people)
      BY <1>2, <2>1, FirstEntry
  <2>3. PICK m \in Msgs : m = Head(people).m
      BY <2>2 DEF Entry
  <2>4. drain' \in Drains /\ drain'.at = "sending" /\ drain'.item = m
      BY <2>1, <2>3 DEF Drains
  <2>5. current.kind # "ask" /\ current.kind # "person"
      BY <2>1 DEF NoTurn
  <2>6. MessageSound(m) /\ Waits(m)
      BY <1>2, <2>2, <2>3 DEF Waits, Values
  <2>7. ~IsNote(m) /\ m \notin Withdrawn \ fate.left /\ told[m] \notin {"new", "held"}
      BY <2>5, <2>6 DEF MessageSound, NoteSound, Untouched
  <2>8. SendSound'
      BY <1>1, <2>4, <2>7 DEF SendSound, InSending, DrainAt, IsNote, Values, Withdrawn
  <2> QED BY <1>1, <1>2, <1>3, <2>4, <2>5, <2>8, DrainKeeps
<1>5. CASE SendsRepeated \/ SendFails
  <2>1. /\ DrainAt("sending")
        /\ Goes("sent") \/ Goes("unsent")
        /\ Goes("sent") => fate.ran[drain.item] > 0
    <3>1. CASE SendsRepeated
        BY <3>1 DEF SendsRepeated
    <3>2. CASE SendFails
      <4>1. DrainAt("sending") /\ Goes("unsent")
          BY <3>2 DEF SendFails
      <4>2. Goes("unsent") => drain'.at = "unsent"
          BY <1>2 DEF Goes, Drains
      <4>3. Goes("sent") => drain'.at = "sent"
          BY <1>2 DEF Goes, Drains
      <4> QED BY <4>1, <4>2, <4>3
    <3> QED BY <1>5, <3>1, <3>2
  <2>2. /\ drain' \in Drains /\ drain'.item = drain.item /\ drain'.at \in {"sent", "unsent"}
        /\ drain'.at = "sent" => fate.ran[drain.item] > 0
    <3>1. CASE Goes("sent")
        BY <1>2, <2>1, <3>1 DEF Goes, Drains
    <3>2. CASE Goes("unsent")
        BY <1>2, <3>2 DEF Goes, Drains
    <3> QED BY <2>1, <3>1, <3>2
  <2>3. current.kind # "ask" /\ InSending
      BY <1>2, <1>5 DEF SendsRepeated, SendFails, DrainAt, InSending
  <2>4. SendSound'
      BY <1>1, <1>2, <2>2, <2>3 DEF SendSound, InSending, DrainAt, IsNote, Values, Withdrawn
  <2> QED BY <1>1, <1>2, <1>3, <2>2, <2>3, <2>4, DrainKeeps
<1>6. CASE SendsBusy
  <2>1. drain' \in Drains /\ drain'.at = "idle" /\ current.kind # "ask"
      BY <1>2, <1>6 DEF SendsBusy, Rests, Resting, Drains, DrainAt
  <2>2. SendSound'
      BY <2>1 DEF SendSound, InSending, DrainAt
  <2> QED BY <1>1, <1>2, <1>3, <2>1, <2>2, DrainKeeps
<1> QED BY <1>4, <1>5, <1>6

LEMMA AskTurnKeeps ==
    ASSUME QueueInv,
           \/ PopAsk \/ OpenAsk \/ OpenFails \/ StartAsk \/ StartAskBusy \/ StartAskFails \/ AskOver
    PROVE  QueueInv'
<1>1. UNCHANGED <<people, stored, told, forgetting>>
    BY DEF PopAsk, OpenAsk, OpenFails, StartAsk, StartAskBusy, StartAskFails, AskOver
<1>2. /\ ask \in [Asks -> AskRecords] /\ line \in Seq(Asks)
      /\ current \in Turns /\ drain \in Drains /\ (current.kind = "ask" => drain.at = "asking")
      /\ FateOK /\ SendSound
    BY OwnerTypes DEF QueueInv
<1>3. /\ fate'.ran = fate.ran /\ fate'.read = fate.read /\ fate'.given = fate.given
      /\ fate'.unsent = fate.unsent /\ fate'.dropped = fate.dropped /\ fate'.left = fate.left
      /\ FateOK'
  <2>1. CASE UNCHANGED fate
      BY <1>2, <2>1 DEF FateOK
  <2>2. CASE OpenFails
    <3>1. fate' = [fate EXCEPT !.lost = @ \cup {drain.item}] /\ DrainAt("opens")
        BY <2>2 DEF OpenFails
    <3>2. drain.item \in Asks
        BY <1>2, <3>1 DEF SendSound, DrainAt
    <3> QED BY <1>2, <3>1, <3>2 DEF FateOK
  <2> QED BY <2>1, <2>2 DEF PopAsk, OpenAsk, StartAsk, StartAskBusy, StartAskFails, AskOver
<1>4. Rests => drain' \in Drains /\ drain'.at = "idle"
    BY DEF Rests, Resting, Drains
<1>5. drain'.at = "idle" => SendSound'
    BY DEF SendSound, InSending, DrainAt
<1>6. ASSUME drain'.at \in {"opens", "starts", "asking"}, drain'.item \in Asks PROVE SendSound'
    BY <1>6 DEF SendSound, InSending, DrainAt
<1>7. CASE PopAsk
  <2>1. /\ DrainAt("idle") /\ NoTurn /\ line # <<>> /\ line' = Tail(line)
        /\ UNCHANGED <<current, ask>>
        /\ drain' = [at |-> "opens", item |-> Head(line)] \/ Rests
      BY <1>7 DEF PopAsk
  <2>2. Head(line) \in Asks /\ Tail(line) \in Seq(Asks)
      BY <1>2, <2>1, FirstEntry
  <2>3. /\ drain' \in Drains
        /\ drain'.at = "idle" \/ (drain'.at = "opens" /\ drain'.item \in Asks)
      BY <1>4, <2>1, <2>2 DEF Drains
  <2>4. SendSound' /\ current'.kind # "ask"
      BY <1>5, <1>6, <2>1, <2>3 DEF NoTurn
  <2> QED BY <1>1, <1>2, <1>3, <2>1, <2>2, <2>3, <2>4, DrainKeeps
<1>8. CASE OpenAsk
  <2>1. DrainAt("opens") /\ Goes("starts") /\ UNCHANGED <<current, ask, line>>
      BY <1>8 DEF OpenAsk
  <2>2. drain' \in Drains /\ drain'.at = "starts" /\ drain'.item \in Asks
      BY <1>2, <2>1 DEF Goes, Drains, SendSound, DrainAt
  <2>3. SendSound' /\ current.kind # "ask"
      BY <1>2, <1>6, <2>1, <2>2 DEF DrainAt
  <2> QED BY <1>1, <1>2, <1>3, <2>1, <2>2, <2>3, DrainKeeps
<1>9. CASE OpenFails
  <2>1. DrainAt("opens") /\ Rests /\ UNCHANGED <<current, ask, line>>
      BY <1>9 DEF OpenFails
  <2>2. current.kind # "ask"
      BY <1>2, <2>1 DEF DrainAt
  <2> QED BY <1>1, <1>2, <1>3, <1>4, <1>5, <2>1, <2>2, DrainKeeps
<1>10. CASE StartAsk
  <2>1. /\ DrainAt("starts") /\ NoTurn /\ Goes("asking") /\ UNCHANGED <<ask, line>>
        /\ current' = [Quiet EXCEPT !.kind = "ask", !.stopped = ask[drain.item].at # "open"]
      BY <1>10 DEF StartAsk
  <2>2. drain' \in Drains /\ drain'.at = "asking" /\ drain'.item \in Asks
      BY <1>2, <2>1 DEF Goes, Drains, SendSound, DrainAt
  <2>3. current' \in Turns
    <3>1. (ask[drain.item].at # "open") \in BOOLEAN
        OBVIOUS
    <3> QED BY <2>1, <3>1 DEF Quiet, Turns
  <2>4. SendSound'
      BY <1>6, <2>2
  <2> QED BY <1>1, <1>2, <1>3, <2>1, <2>2, <2>3, <2>4, DrainKeeps
<1>11. CASE StartAskBusy
  <2>1. DrainAt("starts") /\ Rests /\ UNCHANGED <<current, ask>> /\ line' = <<drain.item>> \o line
      BY <1>11 DEF StartAskBusy
  <2>2. current.kind # "ask" /\ drain.item \in Asks
      BY <1>2, <2>1 DEF DrainAt, SendSound
  <2>3. line' \in Seq(Asks)
    <3>1. <<drain.item>> \in Seq(Asks)
        BY <2>2
    <3> QED BY <1>2, <2>1, <3>1, ConcatProperties
  <2> QED BY <1>1, <1>2, <1>3, <1>4, <1>5, <2>1, <2>2, <2>3, DrainKeeps
<1>12. CASE StartAskFails
  <2>1. DrainAt("starts") /\ Rests /\ UNCHANGED <<current, line>> /\ Closes(drain.item, "timeout")
      BY <1>12 DEF StartAskFails
  <2>2. current.kind # "ask" /\ drain.item \in Asks /\ "timeout" \in AskEnds
      BY <1>2, <2>1 DEF DrainAt, SendSound, AskEnds
  <2>3. ask' \in [Asks -> AskRecords]
      BY <2>1, <2>2, AskCloses
  <2> QED BY <1>1, <1>2, <1>3, <1>4, <1>5, <2>1, <2>2, <2>3, DrainKeeps
<1>13. CASE AskOver
  <2>1. /\ DrainAt("asking") /\ Rests /\ UNCHANGED <<current, line>> /\ current.kind # "ask"
        /\ Closes(drain.item, "timeout") \/ UNCHANGED ask
      BY <1>13 DEF AskOver
  <2>2. drain.item \in Asks /\ "timeout" \in AskEnds
      BY <1>2, <2>1 DEF DrainAt, SendSound, AskEnds
  <2>3. ask' \in [Asks -> AskRecords]
      BY <1>2, <2>1, <2>2, AskCloses
  <2> QED BY <1>1, <1>2, <1>3, <1>4, <1>5, <2>1, <2>2, <2>3, DrainKeeps
<1> QED BY <1>7, <1>8, <1>9, <1>10, <1>11, <1>12, <1>13
-----------------------------------------------------------------------------
(* The messages *)

LEMMA OwnerFacts ==
    ASSUME QueueInv
    PROVE  /\ people \in Seq(Entry) /\ stored \in Seq(Msgs) /\ current \in Turns
           /\ drain \in Drains /\ told \in [Msgs -> Tolds] /\ ask \in [Asks -> AskRecords]
           /\ line \in Seq(Asks) /\ forgetting \in BOOLEAN
           /\ (current.kind = "ask" => drain.at = "asking")
           /\ FateOK /\ SendSound /\ \A m \in Msgs : MessageSound(m)
           /\ Values(people) \subseteq Entry
           /\ \A m : Waits(m) <=> \E e \in Values(people) : e.m = m
           /\ \A m : IsNote(m) => Waits(m)
<1>1. people \in Seq(Entry)
    BY OwnerTypes DEF QueueInv
<1>2. Values(people) \subseteq Entry
    BY <1>1, QueueValues
<1>3. \A m : Waits(m) <=> \E e \in Values(people) : e.m = m
    BY DEF Waits, Values
<1>4. \A m : IsNote(m) => Waits(m)
    BY <1>3 DEF IsNote
<1> QED BY <1>1, <1>2, <1>3, <1>4, OwnerTypes DEF QueueInv

LEMMA WaitsNext == \A m : Waits(m)' <=> \E e \in Values(people') : e.m = m
BY DEF Waits, Values

(* What waits is some of what waited: the messages in `gone` do not.       *)
LEMMA GoneEntries ==
    ASSUME QueueInv, NEW gone, people' = Without(gone)
    PROVE  /\ people' \in Seq(Entry)
           /\ \A m : (Waits(m)' <=> Waits(m) /\ m \notin gone)
                     /\ (IsNote(m)' <=> IsNote(m) /\ m \notin gone)
<1> DEFINE places == {n \in DOMAIN people : people[n].m \notin gone}
<1>1. people' = Entries(people, places) /\ places \in SUBSET DOMAIN people
    BY DEF Without
<1>2. people' \in Seq(Entry) /\ Values(people') = {people[n] : n \in places}
  <2>1. people \in Seq(Entry)
      BY OwnerFacts
  <2>2. /\ Entries(people, places) \in Seq(Entry)
        /\ Values(Entries(people, places)) = {people[n] : n \in places}
    <3> HIDE DEF places
    <3> QED BY <1>1, <2>1, SomeEntries
  <2> QED BY <1>1, <2>2
<1>3. Values(people') = {e \in Values(people) : e.m \notin gone}
    BY <1>2 DEF Values
<1>4. \A m : Waits(m)' <=> Waits(m) /\ m \notin gone
    BY <1>3, OwnerFacts, WaitsNext
<1>5. \A m : IsNote(m)' <=> IsNote(m) /\ m \notin gone
    BY <1>3 DEF IsNote
<1> QED BY <1>2, <1>4, <1>5

LEMMA ToldKeeps ==
    ASSUME QueueInv, NEW k \in Msgs, SendsHeld(k) \/ KeptForLater(k)
    PROVE  QueueInv'
<1>1. UNCHANGED <<people, stored, current, drain, ask, line, forgetting, fate>>
    BY DEF SendsHeld, KeptForLater
<1>2. /\ told' \in [Msgs -> Tolds] /\ \A m \in Msgs : m # k => told'[m] = told[m]
      /\ \/ told[k] = "new" /\ told'[k] = "held"
         \/ told[k] = "storing" /\ told'[k] = "accepted"
    BY OwnerFacts DEF SendsHeld, KeptForLater, Tells, Tolds
<1>3. OwnerTypeOK'
    BY <1>1, <1>2, OwnerFacts, OwnerTypesNext
<1>4. FateOK'
    BY <1>1, OwnerFacts DEF FateOK
<1>5. SendSound'
  <2>1. InSending => told'[drain.item] \notin {"new", "held"}
      BY <1>2, OwnerFacts DEF SendSound
  <2> QED BY <1>1, <2>1, OwnerFacts DEF SendSound, InSending, DrainAt, IsNote, Withdrawn
<1>6. ASSUME NEW m \in Msgs PROVE MessageSound(m)'
  <2>1. MessageSound(m) /\ (Waits(m)' <=> Waits(m)) /\ (IsNote(m)' <=> IsNote(m))
        /\ (Stored(m)' <=> Stored(m)) /\ (Became(m)' <=> Became(m))
      BY <1>1, OwnerFacts DEF Waits, IsNote, Stored, Values, Became
  <2>2. Untouched(m)'
      BY <1>1, <1>2, <2>1 DEF MessageSound, Untouched, Withdrawn
  <2>3. NoteSound(m)'
      BY <1>1, <2>1 DEF MessageSound, NoteSound, Withdrawn
  <2>4. KeptSound(m)'
      BY <1>2, <2>1 DEF MessageSound, KeptSound
  <2>5. OnceSound(m)'
      BY <1>1, <2>1 DEF MessageSound, OnceSound, Withdrawn
  <2> QED BY <2>2, <2>3, <2>4, <2>5 DEF MessageSound
<1> QED BY <1>3, <1>4, <1>5, <1>6 DEF QueueInv

LEMMA AddKeeps ==
    ASSUME QueueInv, NEW k \in Msgs, NEW note \in BOOLEAN, NEW written \in BOOLEAN,
           Adds(k, note, written), told[k] \in {"new", "held"},
           note = TRUE => current.kind = "person"
    PROVE  QueueInv'
<1>1. /\ UNCHANGED <<current, drain, ask, line, forgetting, fate>>
      /\ people' = Append(people, [m |-> k, of |-> note])
      /\ stored' = IF written THEN KeysOf(people') ELSE stored
      /\ Tells(k, IF written THEN "storing" ELSE "failing")
    BY DEF Adds
<1>2. /\ told' \in [Msgs -> Tolds] /\ \A m \in Msgs : m # k => told'[m] = told[m]
      /\ told'[k] = IF written THEN "storing" ELSE "failing"
    BY <1>1, OwnerFacts DEF Tells, Tolds
<1>3. people' \in Seq(Entry) /\ Values(people') = Values(people) \cup {[m |-> k, of |-> note]}
  <2>1. [m |-> k, of |-> note] \in Entry
      BY DEF Entry
  <2> QED BY <1>1, <2>1, OwnerFacts, LastEntry
<1>4. \A m : Waits(m)' <=> Waits(m) \/ m = k
  <2>1. [m |-> k, of |-> note].m = k
      OBVIOUS
  <2>2. \A m : (\E e \in Values(people') : e.m = m) <=> (\E e \in Values(people) : e.m = m) \/ m = k
      BY <1>3, <2>1
  <2>3. \A m : Waits(m) <=> \E e \in Values(people) : e.m = m
      BY OwnerFacts
  <2> QED BY <2>2, <2>3, WaitsNext
<1>5. \A m : IsNote(m)' <=> IsNote(m) \/ (m = k /\ note = TRUE)
    BY <1>3 DEF IsNote
<1>6. /\ stored' \in Seq(Msgs)
      /\ \A m : Stored(m)' <=> IF written THEN Waits(m) \/ m = k ELSE Stored(m)
  <2>1. /\ KeysOf(people') \in Seq(Msgs)
        /\ Values(KeysOf(people')) = {e.m : e \in Values(people')}
      BY <1>3, KeysStored
  <2>2. \A m : m \in Values(KeysOf(people')) <=> Waits(m) \/ m = k
      BY <1>4, <2>1, WaitsNext
  <2> QED BY <1>1, <2>1, <2>2, OwnerFacts DEF Stored
<1>7. OwnerTypeOK'
    BY <1>1, <1>2, <1>3, <1>6, OwnerFacts, OwnerTypesNext
<1>8. FateOK'
    BY <1>1, OwnerFacts DEF FateOK
<1>9. SendSound'
  <2>1. InSending => drain.item # k
      BY OwnerFacts DEF SendSound
  <2>2. InSending => told'[drain.item] \notin {"new", "held"} /\ ~IsNote(drain.item)'
    <3>1. InSending => /\ drain.item \in Msgs /\ ~IsNote(drain.item)
                       /\ told[drain.item] \notin {"new", "held"}
        BY OwnerFacts DEF SendSound
    <3>2. InSending => told'[drain.item] = told[drain.item]
        BY <1>2, <2>1, <3>1
    <3>3. InSending => ~IsNote(drain.item)'
        BY <1>1, <1>5, <2>1, <3>1
    <3> QED BY <3>1, <3>2, <3>3
  <2> QED BY <1>1, <2>2, OwnerFacts DEF SendSound, InSending, DrainAt, Withdrawn, IsNote
<1>10. ASSUME NEW m \in Msgs PROVE MessageSound(m)'
  <2>1. MessageSound(m) /\ Untouched(k) /\ (Became(m)' <=> Became(m))
      BY <1>1, OwnerFacts DEF MessageSound, Became
  <2>2. Untouched(m)'
      BY <1>1, <1>2, <1>4, <1>6, <2>1 DEF MessageSound, Untouched, Withdrawn
  <2>3. NoteSound(m)'
      BY <1>1, <1>4, <1>5, <2>1, OwnerFacts DEF MessageSound, NoteSound, Untouched, Withdrawn
  <2>4. KeptSound(m)'
      BY <1>2, <1>4, <1>6, <2>1 DEF MessageSound, KeptSound
  <2>5. OnceSound(m)'
      BY <1>1, <2>1 DEF MessageSound, OnceSound, Withdrawn
  <2> QED BY <2>2, <2>3, <2>4, <2>5 DEF MessageSound
<1> QED BY <1>7, <1>8, <1>9, <1>10 DEF QueueInv

LEMMA NotKeptKeeps ==
    ASSUME QueueInv, NEW k \in Msgs, NotKept(k)
    PROVE  QueueInv'
<1>1. /\ UNCHANGED <<stored, current, drain, ask, line, forgetting, fate>>
      /\ people' = Without({k}) /\ told[k] = "failing" /\ Tells(k, "refused")
    BY DEF NotKept
<1>2. /\ told' \in [Msgs -> Tolds] /\ \A m \in Msgs : m # k => told'[m] = told[m]
      /\ told'[k] = "refused"
    BY <1>1, OwnerFacts DEF Tells, Tolds
<1>3. /\ people' \in Seq(Entry)
      /\ \A m : (Waits(m)' <=> Waits(m) /\ m # k) /\ (IsNote(m)' <=> IsNote(m) /\ m # k)
    BY <1>1, GoneEntries
<1>4. OwnerTypeOK'
    BY <1>1, <1>2, <1>3, OwnerFacts, OwnerTypesNext
<1>5. FateOK'
    BY <1>1, OwnerFacts DEF FateOK
<1>6. SendSound'
  <2>1. InSending => told'[drain.item] \notin {"new", "held"} /\ ~IsNote(drain.item)'
    <3>1. InSending => /\ drain.item \in Msgs /\ ~IsNote(drain.item)
                       /\ told[drain.item] \notin {"new", "held"}
        BY OwnerFacts DEF SendSound
    <3>2. InSending => told'[drain.item] \notin {"new", "held"}
        BY <1>2, <3>1
    <3>3. InSending => ~IsNote(drain.item)'
        BY <1>1, <1>3, <3>1
    <3> QED BY <3>2, <3>3
  <2> QED BY <1>1, <2>1, OwnerFacts DEF SendSound, InSending, DrainAt, Withdrawn, IsNote
<1>7. ASSUME NEW m \in Msgs PROVE MessageSound(m)'
  <2>1. /\ MessageSound(m) /\ (Became(m)' <=> Became(m)) /\ (Stored(m)' <=> Stored(m))
      BY <1>1, OwnerFacts DEF Became, Stored
  <2>2. Untouched(m)'
      BY <1>1, <1>2, <1>3, <2>1 DEF MessageSound, Untouched, Withdrawn
  <2>3. NoteSound(m)'
      BY <1>1, <1>3, <2>1 DEF MessageSound, NoteSound, Withdrawn
  <2>4. KeptSound(m)'
      BY <1>2, <1>3, <2>1 DEF MessageSound, KeptSound
  <2>5. OnceSound(m)'
      BY <1>1, <2>1 DEF MessageSound, OnceSound, Withdrawn
  <2> QED BY <2>2, <2>3, <2>4, <2>5 DEF MessageSound
<1> QED BY <1>4, <1>5, <1>6, <1>7 DEF QueueInv

(* Notes are read, or given back by a Stop: `gone` are the notes that are. *)
LEMMA NotesGo ==
    ASSUME QueueInv, NEW gone \in SUBSET Msgs, \A m \in gone : IsNote(m),
           people' = Without(gone), UNCHANGED <<stored, drain, told, ask, line>>,
           current' \in Turns, current'.kind = current.kind, forgetting' \in BOOLEAN,
           \/ fate' = [fate EXCEPT !.read = @ \cup gone]
           \/ fate' = [fate EXCEPT !.given = @ \cup gone]
    PROVE  QueueInv'
<1>1. /\ people' \in Seq(Entry)
      /\ \A m : (Waits(m)' <=> Waits(m) /\ m \notin gone)
                /\ (IsNote(m)' <=> IsNote(m) /\ m \notin gone)
    BY GoneEntries
<1>2. /\ FateOK' /\ fate'.ran = fate.ran /\ fate'.left = fate.left
      /\ fate'.unsent = fate.unsent /\ fate'.dropped = fate.dropped
      /\ \/ fate'.read = fate.read \cup gone /\ fate'.given = fate.given
         \/ fate'.given = fate.given \cup gone /\ fate'.read = fate.read
    BY ZenonT(40), OwnerFacts DEF FateOK
<1>3. Withdrawn' = Withdrawn \cup gone
    BY <1>2 DEF Withdrawn
<1>4. OwnerTypeOK'
    BY <1>1, OwnerFacts, OwnerTypesNext
<1>5. SendSound'
  <2>1. InSending => drain.item \notin gone
      BY OwnerFacts DEF SendSound
  <2>2. InSending => ~IsNote(drain.item)' /\ drain.item \notin Withdrawn' \ fate'.left
      BY <1>1, <1>2, <1>3, <2>1, OwnerFacts DEF SendSound
  <2> QED BY <1>2, <2>2, OwnerFacts DEF SendSound, InSending, DrainAt, IsNote
<1>6. ASSUME NEW m \in Msgs PROVE MessageSound(m)'
  <2>1. MessageSound(m) /\ (Stored(m)' <=> Stored(m)) /\ (Became(m) \/ m \in gone => Became(m)')
      BY <1>2, OwnerFacts DEF Became, Stored
  <2>2. m \in gone => fate.ran[m] = 0 /\ m \notin Withdrawn /\ Waits(m)
                      /\ told[m] \notin {"new", "held"}
      BY <2>1, OwnerFacts DEF MessageSound, NoteSound, Untouched
  <2>3. Untouched(m)'
      BY <1>1, <1>2, <1>3, <2>1, <2>2 DEF MessageSound, Untouched
  <2>4. NoteSound(m)'
      BY <1>1, <1>2, <1>3, <2>1 DEF MessageSound, NoteSound
  <2>5. KeptSound(m)'
      BY <1>1, <2>1 DEF MessageSound, KeptSound
  <2>6. OnceSound(m)'
      BY <1>2, <1>3, <2>1, <2>2 DEF MessageSound, OnceSound, Withdrawn
  <2> QED BY <2>3, <2>4, <2>5, <2>6 DEF MessageSound
<1> QED BY <1>2, <1>4, <1>5, <1>6 DEF QueueInv

LEMMA ReadKeeps ==
    ASSUME QueueInv, NEW k \in Msgs, ReadNote(k)
    PROVE  QueueInv'
<1>1. /\ UNCHANGED <<stored, current, drain, told, ask, line>> /\ forgetting' = TRUE
      /\ people' = Without({k}) /\ fate' = [fate EXCEPT !.read = @ \cup {k}]
      /\ \E n \in DOMAIN people : people[n] = [m |-> k, of |-> TRUE]
    BY DEF ReadNote
<1>2. \A m \in {k} : IsNote(m)
    BY <1>1 DEF IsNote, Values
<1>3. {k} \in SUBSET Msgs /\ forgetting' \in BOOLEAN
    BY <1>1
<1> QED BY <1>1, <1>2, <1>3, OwnerFacts, NotesGo

LEMMA StopTurnKeeps ==
    ASSUME QueueInv, StopTurn
    PROVE  QueueInv'
<1>1. /\ UNCHANGED <<stored, drain, told, ask, line>>
      /\ current' = [current EXCEPT !.stopped = TRUE]
      /\ people' = Without(Notes) /\ fate' = [fate EXCEPT !.given = @ \cup Notes]
      /\ forgetting' = (forgetting \/ Notes # {})
    BY DEF StopTurn
<1>2. forgetting' \in BOOLEAN
    BY <1>1, OwnerFacts
<1>3. Notes \in SUBSET Msgs /\ \A m \in Notes : IsNote(m)
  <2> SUFFICES ASSUME NEW n \in DOMAIN people, people[n].of
               PROVE  people[n].m \in Msgs /\ IsNote(people[n].m)
      BY DEF Notes
  <2>1. people[n] \in Entry /\ people[n] \in Values(people)
      BY OwnerFacts DEF Values
  <2>2. people[n] = [m |-> people[n].m, of |-> TRUE]
      BY <2>1 DEF Entry
  <2> QED BY <2>1, <2>2 DEF Entry, IsNote
<1> QED BY <1>1, <1>2, <1>3, TurnStops, NotesGo

LEMMA ForgetKeeps ==
    ASSUME QueueInv, NEW written \in BOOLEAN, Forgets(written) \/ ForgetsSent(written)
    PROVE  QueueInv'
<1>1. /\ UNCHANGED <<people, current, told, ask, line, fate>>
      /\ stored' = IF written THEN KeysOf(people) ELSE stored
    BY DEF Forgets, ForgetsSent
<1>2. forgetting' \in BOOLEAN
    BY OwnerFacts DEF Forgets, ForgetsSent
<1>3. /\ drain' \in Drains /\ (drain' = drain \/ drain'.at = "idle")
      /\ current.kind = "ask" => drain'.at = "asking"
  <2>1. CASE Forgets(written)
      BY <2>1, OwnerFacts DEF Forgets
  <2>2. CASE ForgetsSent(written)
      BY <2>2, OwnerFacts DEF ForgetsSent, Rests, Resting, Drains, DrainAt
  <2> QED BY <2>1, <2>2
<1>4. /\ stored' \in Seq(Msgs)
      /\ \A m : Stored(m)' => Waits(m) \/ Stored(m)
      /\ \A m : Waits(m) /\ Stored(m) => Stored(m)'
  <2>1. /\ KeysOf(people) \in Seq(Msgs)
        /\ Values(KeysOf(people)) = {e.m : e \in Values(people)}
      BY OwnerFacts, KeysStored
  <2>2. \A m : m \in Values(KeysOf(people)) <=> Waits(m)
      BY <2>1, OwnerFacts
  <2> QED BY <1>1, <2>1, <2>2, OwnerFacts DEF Stored
<1>5. OwnerTypeOK'
    BY <1>1, <1>2, <1>3, <1>4, OwnerFacts, OwnerTypesNext
<1>6. FateOK'
    BY <1>1, OwnerFacts DEF FateOK
<1>7. SendSound'
  <2>1. CASE drain' = drain
      BY <1>1, <2>1, OwnerFacts DEF SendSound, InSending, DrainAt, IsNote, Withdrawn
  <2>2. CASE drain'.at = "idle"
      BY <2>2 DEF SendSound, InSending, DrainAt
  <2> QED BY <1>3, <2>1, <2>2
<1>8. ASSUME NEW m \in Msgs PROVE MessageSound(m)'
  <2>1. MessageSound(m) /\ (Waits(m)' <=> Waits(m)) /\ (IsNote(m)' <=> IsNote(m))
        /\ (Became(m)' <=> Became(m))
      BY <1>1, OwnerFacts DEF Waits, IsNote, Became
  <2>2. Untouched(m)'
      BY <1>1, <1>4, <2>1 DEF MessageSound, Untouched, Withdrawn
  <2>3. NoteSound(m)'
      BY <1>1, <2>1 DEF MessageSound, NoteSound, Withdrawn
  <2>4. KeptSound(m)'
      BY <1>1, <1>4, <2>1 DEF MessageSound, KeptSound
  <2>5. OnceSound(m)'
      BY <1>1, <2>1 DEF MessageSound, OnceSound, Withdrawn
  <2> QED BY <2>2, <2>3, <2>4, <2>5 DEF MessageSound
<1> QED BY <1>5, <1>6, <1>7, <1>8 DEF QueueInv

LEMMA TurnOverKeeps ==
    ASSUME QueueInv, TurnOver
    PROVE  QueueInv'
<1>1. /\ UNCHANGED <<stored, drain, told, ask, line, forgetting, fate>>
      /\ current' = Quiet
      /\ people' = [n \in DOMAIN people |-> [people[n] EXCEPT !.of = FALSE]]
    BY DEF TurnOver
<1>2. current' \in Turns /\ current'.kind = "none"
    BY <1>1 DEF Quiet, Turns
<1>3. /\ people' \in Seq(Entry)
      /\ Values(people') = {[m |-> e.m, of |-> FALSE] : e \in Values(people)}
  <2>1. people \in Seq(Entry)
      BY OwnerFacts
  <2> QED BY <1>1, <2>1, MessagesOf
<1>4. \A m : (Waits(m)' <=> Waits(m)) /\ ~IsNote(m)'
  <2> DEFINE keys == {e.m : e \in Values(people)}
  <2>1. Values(people') = {[m |-> k, of |-> FALSE] : k \in keys}
      BY <1>3
  <2>2. \A m : m \in keys <=> \E e \in Values(people) : e.m = m
      OBVIOUS
  <2> HIDE DEF keys
  <2>3. /\ \A m : (\E e \in Values(people') : e.m = m) <=> m \in keys
        /\ \A m : [m |-> m, of |-> TRUE] \notin Values(people')
    <3> DEFINE plain == Values(people')
    <3>1. plain = {[m |-> k, of |-> FALSE] : k \in keys}
        BY <2>1
    <3> HIDE DEF plain
    <3>2. /\ \A m : (\E e \in plain : e.m = m) <=> m \in keys
          /\ \A m : [m |-> m, of |-> TRUE] \notin plain
        BY <3>1, PlainQueue
    <3> QED BY <3>2 DEF plain
  <2>4. \A m : Waits(m) <=> \E e \in Values(people) : e.m = m
      BY OwnerFacts
  <2> QED BY <2>2, <2>3, <2>4, WaitsNext DEF IsNote
<1>5. OwnerTypeOK'
    BY <1>1, <1>2, <1>3, OwnerFacts, OwnerTypesNext
<1>6. FateOK'
    BY <1>1, OwnerFacts DEF FateOK
<1>7. SendSound'
    BY <1>1, <1>4, OwnerFacts DEF SendSound, InSending, DrainAt, Withdrawn
<1>8. ASSUME NEW m \in Msgs PROVE MessageSound(m)'
  <2>1. MessageSound(m) /\ (Stored(m)' <=> Stored(m)) /\ (Became(m)' <=> Became(m))
      BY <1>1, OwnerFacts DEF Stored, Became
  <2>2. Untouched(m)'
      BY <1>1, <1>4, <2>1 DEF MessageSound, Untouched, Withdrawn
  <2>3. NoteSound(m)'
      BY <1>1, <1>4, <2>1 DEF MessageSound, NoteSound, Withdrawn
  <2>4. KeptSound(m)'
      BY <1>1, <1>4, <2>1 DEF MessageSound, KeptSound
  <2>5. OnceSound(m)'
      BY <1>1, <2>1 DEF MessageSound, OnceSound, Withdrawn
  <2> QED BY <2>2, <2>3, <2>4, <2>5 DEF MessageSound
<1> QED BY <1>5, <1>6, <1>7, <1>8 DEF QueueInv

LEMMA PopKeeps ==
    ASSUME QueueInv, PopsSent
    PROVE  QueueInv'
<1>1. UNCHANGED <<stored, current, told, ask, line, forgetting>> /\ drain.at \in {"sent", "unsent"}
    BY DEF PopsSent
<1>2. current.kind # "ask" /\ InSending /\ drain.item \in Msgs
    BY <1>1, OwnerFacts DEF InSending, SendSound
<1>3. CASE people = <<>>
  <2>1. Rests /\ UNCHANGED <<people, fate>>
      BY <1>3 DEF PopsSent
  <2>2. drain' \in Drains /\ drain'.at = "idle"
      BY <2>1 DEF Rests, Resting, Drains
  <2>3. SendSound'
      BY <2>2 DEF SendSound, InSending, DrainAt
  <2>4. FateOK'
      BY <2>1, OwnerFacts DEF FateOK
  <2> QED BY <1>1, <1>2, <2>1, <2>2, <2>3, <2>4, OwnerFacts, DrainKeeps
<1>4. CASE people # <<>>
  <2> DEFINE unsent == IF DrainAt("unsent") THEN {drain.item} ELSE {}
  <2>1. /\ Goes("forget") /\ people' = Tail(people)
        /\ fate' = [fate EXCEPT !.unsent = @ \cup unsent,
                                !.dropped = @ \cup ({Head(people).m} \ {drain.item})]
      BY <1>4 DEF PopsSent
  <2>2. /\ Head(people) \in Entry /\ people' \in Seq(Entry)
        /\ Values(people) = Values(people') \cup {Head(people)}
    <3>1. people \in Seq(Entry)
        BY OwnerFacts
    <3> QED BY <1>4, <2>1, <3>1, FirstEntry
  <2>3. PICK h \in Msgs : h = Head(people).m
      BY <2>2 DEF Entry
  <2>4. /\ FateOK' /\ fate'.ran = fate.ran /\ fate'.left = fate.left /\ fate'.read = fate.read
        /\ fate'.given = fate.given /\ fate'.unsent = fate.unsent \cup unsent
        /\ fate'.dropped = fate.dropped \cup ({h} \ {drain.item})
    <3>1. fate' = [fate EXCEPT !.unsent = @ \cup unsent, !.dropped = @ \cup ({h} \ {drain.item})]
        BY <2>1, <2>3
    <3>2. unsent \subseteq Msgs
        BY <1>2
    <3> HIDE DEF unsent
    <3> QED BY <3>1, <3>2, OwnerFacts DEF FateOK
  <2>5. /\ \A m : Waits(m)' => Waits(m)
        /\ \A m : IsNote(m)' => IsNote(m)
        /\ \A m : Waits(m) /\ m # h => Waits(m)'
    <3>1. \A m : (\E e \in Values(people') : e.m = m) => (\E e \in Values(people) : e.m = m)
        BY <2>2
    <3>2. \A m : (\E e \in Values(people) : e.m = m) /\ m # h => (\E e \in Values(people') : e.m = m)
        BY <2>2, <2>3
    <3>3. \A m : Waits(m) <=> \E e \in Values(people) : e.m = m
        BY OwnerFacts
    <3>4. \A m : IsNote(m)' => IsNote(m)
        BY <2>2 DEF IsNote
    <3> QED BY <3>1, <3>2, <3>3, <3>4, WaitsNext
  <2>6. drain' \in Drains /\ drain'.at = "forget"
      BY <2>1, OwnerFacts DEF Goes, Drains
  <2>7. OwnerTypeOK'
      BY <1>1, <1>2, <2>2, <2>6, OwnerFacts, OwnerTypesNext
  <2>8. SendSound'
      BY <2>6 DEF SendSound, InSending, DrainAt
  <2>9. Became(h)'
    <3>1. CASE h # drain.item
        BY <2>4, <3>1 DEF Became
    <3>2. CASE h = drain.item /\ DrainAt("unsent")
        BY <2>4, <3>2 DEF Became
    <3>3. CASE h = drain.item /\ DrainAt("sent")
      <4>1. fate.ran[h] > 0
          BY <3>3, OwnerFacts DEF SendSound
      <4> QED BY <2>4, <4>1 DEF Became
    <3> QED BY <1>1, <3>1, <3>2, <3>3 DEF DrainAt
  <2> HIDE DEF unsent
  <2>10. ASSUME NEW m \in Msgs PROVE MessageSound(m)'
    <3>1. MessageSound(m) /\ (Stored(m)' <=> Stored(m)) /\ (Became(m) => Became(m)')
        BY <1>1, <2>4, OwnerFacts DEF Stored, Became
    <3>2. Untouched(m)'
        BY <1>1, <2>4, <2>5, <3>1 DEF MessageSound, Untouched, Withdrawn
    <3>3. NoteSound(m)'
        BY <1>1, <2>4, <2>5, <3>1 DEF MessageSound, NoteSound, Withdrawn
    <3>4. KeptSound(m)'
      <4>1. CASE m = h
          BY <2>9, <4>1 DEF KeptSound
      <4>2. CASE m # h
          BY <1>1, <2>5, <3>1, <4>2 DEF MessageSound, KeptSound
      <4> QED BY <4>1, <4>2
    <3>5. OnceSound(m)'
        BY <2>4, <3>1 DEF MessageSound, OnceSound, Withdrawn
    <3> QED BY <3>2, <3>3, <3>4, <3>5 DEF MessageSound
  <2> QED BY <2>4, <2>7, <2>8, <2>10 DEF QueueInv
<1> QED BY <1>3, <1>4

LEMMA BeginKeeps ==
    ASSUME QueueInv, BeginsQueued
    PROVE  QueueInv'
<1>1. /\ UNCHANGED <<people, stored, told, ask, line, forgetting>>
      /\ NoTurn /\ Runs("person") /\ Goes("sent") /\ DrainAt("sending")
      /\ fate.ran[drain.item] = 0 /\ fate' = [fate EXCEPT !.ran[drain.item] = @ + 1]
    BY DEF BeginsQueued, BeginsTurn
<1>2. PICK k \in Msgs : k = drain.item
    BY <1>1, OwnerFacts DEF SendSound, InSending, DrainAt
<1>3. ~IsNote(k) /\ k \notin Withdrawn \ fate.left /\ told[k] \notin {"new", "held"}
    BY <1>1, <1>2, OwnerFacts DEF SendSound, InSending, DrainAt
<1>4. /\ FateOK' /\ fate'.left = fate.left /\ fate'.read = fate.read /\ fate'.given = fate.given
      /\ fate'.unsent = fate.unsent /\ fate'.dropped = fate.dropped
      /\ \A m \in Msgs : fate'.ran[m] = IF m = k THEN 1 ELSE fate.ran[m]
  <2> DEFINE ran == [fate.ran EXCEPT ![k] = 1]
  <2>1. fate.ran \in [Msgs -> Nat] /\ fate.ran[k] = 0
      BY <1>1, <1>2, OwnerFacts DEF FateOK
  <2>2. fate.ran[drain.item] + 1 = 1
      BY <1>1
  <2>3. fate' = [fate EXCEPT !.ran = ran]
      BY <1>1, <1>2, <2>2
  <2>4. ran \in [Msgs -> Nat] /\ \A m \in Msgs : ran[m] = IF m = k THEN 1 ELSE fate.ran[m]
      BY <2>1
  <2> HIDE DEF ran
  <2> QED BY <2>3, <2>4, OwnerFacts DEF FateOK
<1>5. drain' \in Drains /\ drain'.at = "sent" /\ drain'.item = k
    BY <1>1, <1>2, OwnerFacts DEF Goes, Drains
<1>6. current' \in Turns /\ current'.kind = "person"
  <2>1. current' = [kind |-> "person", stopped |-> FALSE, over |-> FALSE]
      BY <1>1 DEF Runs, Quiet
  <2> QED BY <2>1 DEF Turns
<1>7. OwnerTypeOK'
    BY <1>1, <1>5, <1>6, OwnerFacts, OwnerTypesNext
<1>8. SendSound'
    BY <1>1, <1>3, <1>4, <1>5 DEF SendSound, InSending, DrainAt, IsNote, Withdrawn
<1>9. ASSUME NEW m \in Msgs PROVE MessageSound(m)'
  <2>1. /\ MessageSound(m) /\ (Waits(m)' <=> Waits(m)) /\ (IsNote(m)' <=> IsNote(m))
        /\ (Stored(m)' <=> Stored(m)) /\ (Became(m) => Became(m)')
      BY <1>1, <1>4, OwnerFacts DEF Waits, IsNote, Stored, Became
  <2>2. Untouched(m)'
      BY <1>1, <1>3, <1>4, <2>1 DEF MessageSound, Untouched, Withdrawn
  <2>3. NoteSound(m)'
      BY <1>3, <1>4, <1>6, <2>1 DEF MessageSound, NoteSound, Withdrawn
  <2>4. KeptSound(m)'
      BY <1>1, <2>1 DEF MessageSound, KeptSound
  <2>5. OnceSound(m)'
      BY <1>3, <1>4, <2>1 DEF MessageSound, OnceSound, Withdrawn
  <2> QED BY <2>2, <2>3, <2>4, <2>5 DEF MessageSound
<1> QED BY <1>4, <1>7, <1>8, <1>9 DEF QueueInv

LEMMA RestartsKeep ==
    ASSUME QueueInv, Restarts
    PROVE  QueueInv'
<1>1. /\ people' = [n \in DOMAIN stored |-> [m |-> stored[n], of |-> FALSE]]
      /\ told' = [m \in Msgs |-> IF told[m] \in {"held", "storing", "failing"} THEN "cut" ELSE told[m]]
      /\ ask' = [a \in Asks |-> IF ask[a].at = "none" THEN ask[a] ELSE [ask[a] EXCEPT !.at = "over"]]
      /\ fate' = [fate EXCEPT !.left = @ \cup {m \in fate.read \cup fate.given :
                                                \E n \in DOMAIN stored : stored[n] = m}]
      /\ current' = Quiet /\ drain' = Resting /\ line' = <<>> /\ forgetting' = FALSE
      /\ UNCHANGED stored
    BY DEF Restarts
<1>2. /\ people' \in Seq(Entry)
      /\ Values(people') = {[m |-> k, of |-> FALSE] : k \in Values(stored)}
  <2>1. stored \in Seq(Msgs)
      BY OwnerFacts
  <2> QED BY <1>1, <2>1, RestoredQueue
<1>3. \A m : (Waits(m)' <=> Stored(m)) /\ ~IsNote(m)'
  <2> DEFINE plain == Values(people')
             keys == Values(stored)
  <2>1. plain = {[m |-> k, of |-> FALSE] : k \in keys}
      BY <1>2
  <2> HIDE DEF plain, keys
  <2>2. /\ \A m : (\E e \in plain : e.m = m) <=> m \in keys
        /\ \A m : [m |-> m, of |-> TRUE] \notin plain
      BY <2>1, PlainQueue
  <2>3. /\ \A m : (\E e \in Values(people') : e.m = m) <=> m \in Values(stored)
        /\ \A m : [m |-> m, of |-> TRUE] \notin Values(people')
      BY <2>2 DEF plain, keys
  <2> QED BY <2>3, WaitsNext DEF IsNote, Stored
<1>4. /\ fate'.left = fate.left \cup {m \in Withdrawn : Stored(m)} /\ FateOK'
      /\ fate'.ran = fate.ran /\ fate'.read = fate.read /\ fate'.given = fate.given
      /\ fate'.unsent = fate.unsent /\ fate'.dropped = fate.dropped
  <2> DEFINE left == {m \in fate.read \cup fate.given : \E n \in DOMAIN stored : stored[n] = m}
  <2>1. left = {m \in Withdrawn : Stored(m)}
      BY DEF Withdrawn, Stored, Values
  <2>2. left \subseteq Msgs
      BY OwnerFacts DEF FateOK
  <2>3. fate' = [fate EXCEPT !.left = @ \cup left]
      BY <1>1
  <2> HIDE DEF left
  <2>4. /\ fate'.left = fate.left \cup left /\ FateOK'
        /\ fate'.ran = fate.ran /\ fate'.read = fate.read /\ fate'.given = fate.given
        /\ fate'.unsent = fate.unsent /\ fate'.dropped = fate.dropped
      BY <2>2, <2>3, OwnerFacts DEF FateOK
  <2> QED BY <2>1, <2>4
<1>5. /\ current' \in Turns /\ current'.kind = "none" /\ drain' \in Drains /\ drain'.at = "idle"
    BY <1>1 DEF Quiet, Turns, Resting, Drains
<1>6. /\ told' \in [Msgs -> Tolds]
      /\ \A m \in Msgs : told'[m] = told[m] \/ told'[m] = "cut"
      /\ \A m \in Msgs : told'[m] \notin {"held", "storing", "failing"}
    BY <1>1, OwnerFacts DEF Tolds
<1>7. ask' \in [Asks -> AskRecords]
    BY SMTT(20), <1>1, OwnerFacts DEF AskRecords, AskStates
<1>8. OwnerTypeOK'
  <2>1. line' \in Seq(Asks) /\ forgetting' \in BOOLEAN
      BY <1>1, EmptySeq
  <2> QED BY <1>1, <1>2, <1>5, <1>6, <1>7, <2>1, OwnerFacts, OwnerTypesNext
<1>9. SendSound'
    BY <1>5 DEF SendSound, InSending, DrainAt
<1>10. ASSUME NEW m \in Msgs PROVE MessageSound(m)'
  <2>1. MessageSound(m) /\ (Stored(m)' <=> Stored(m)) /\ (Became(m)' <=> Became(m))
        /\ Withdrawn' = Withdrawn
      BY <1>1, <1>4, OwnerFacts DEF Stored, Became, Withdrawn
  <2>2. Untouched(m)'
      BY <1>3, <1>4, <1>6, <2>1 DEF MessageSound, Untouched
  <2>3. NoteSound(m)'
      BY <1>3, <1>4, <2>1 DEF MessageSound, NoteSound
  <2>4. KeptSound(m)'
      BY <1>3, <1>6, <2>1 DEF MessageSound, KeptSound
  <2>5. OnceSound(m)'
      BY <1>4, <2>1 DEF MessageSound, OnceSound, Withdrawn
  <2> QED BY <2>2, <2>3, <2>4, <2>5 DEF MessageSound
<1> QED BY <1>4, <1>8, <1>9, <1>10 DEF QueueInv
-----------------------------------------------------------------------------
(* The invariant, and what it shows *)

LEMMA QueueStarts == OwnerInit => QueueInv
<1> SUFFICES ASSUME OwnerInit PROVE QueueInv
    OBVIOUS
<1>1. /\ people = <<>> /\ stored = <<>> /\ drain = Resting /\ line = <<>> /\ forgetting = FALSE
      /\ current \in {Quiet, [Quiet EXCEPT !.kind = "person"]}
      /\ told = [m \in Msgs |-> "new"] /\ ask = [a \in Asks |-> NotAsked]
      /\ fate = [ran |-> [m \in Msgs |-> 0], read |-> {}, given |-> {}, unsent |-> {},
                 dropped |-> {}, left |-> {}, lost |-> {}]
    BY DEF OwnerInit
<1>2. Values(people) = {} /\ Values(stored) = {} /\ DOMAIN people = {}
    BY <1>1 DEF Values
<1>3. /\ FateOK /\ \A m \in Msgs : fate.ran[m] = 0
      /\ fate.read = {} /\ fate.given = {} /\ fate.left = {}
    BY <1>1 DEF FateOK
<1>4. drain \in Drains /\ drain.at = "idle" /\ current \in Turns /\ current.kind \in {"none", "person"}
  <2>1. drain \in Drains /\ drain.at = "idle"
      BY <1>1 DEF Resting, Drains
  <2>2. \/ current = [kind |-> "none", stopped |-> FALSE, over |-> FALSE]
        \/ current = [kind |-> "person", stopped |-> FALSE, over |-> FALSE]
      BY <1>1 DEF Quiet
  <2>3. CASE current = [kind |-> "none", stopped |-> FALSE, over |-> FALSE]
      BY <2>1, <2>3 DEF Turns
  <2>4. CASE current = [kind |-> "person", stopped |-> FALSE, over |-> FALSE]
      BY <2>1, <2>4 DEF Turns
  <2> QED BY <2>2, <2>3, <2>4
<1>5. OwnerTypeOK
  <2>1. told \in [Msgs -> Tolds] /\ ask \in [Asks -> AskRecords]
      BY <1>1 DEF Tolds, AskRecords, AskStates, AskEnds, NotAsked
  <2>2. people \in Seq(Entry) /\ stored \in Seq(Msgs) /\ line \in Seq(Asks) /\ forgetting \in BOOLEAN
      BY <1>1, EmptySeq
  <2> QED BY <1>4, <2>1, <2>2, OwnerTypes
<1>6. SendSound
    BY <1>4 DEF SendSound, InSending, DrainAt
<1>7. ASSUME NEW m \in Msgs PROVE MessageSound(m)
  <2>1. ~Waits(m) /\ ~Stored(m) /\ ~IsNote(m) /\ Withdrawn = {} /\ told[m] = "new" /\ fate.ran[m] = 0
      BY <1>1, <1>2, <1>3 DEF Waits, Stored, IsNote, Withdrawn
  <2> QED BY <1>3, <2>1 DEF MessageSound, Untouched, NoteSound, KeptSound, OnceSound
<1> QED BY <1>3, <1>5, <1>6, <1>7 DEF QueueInv

LEMMA QueueNext == QueueInv /\ [OwnerNext]_ownerVars => QueueInv'
<1> SUFFICES ASSUME QueueInv, [OwnerNext]_ownerVars PROVE QueueInv'
    OBVIOUS
<1>1. ASSUME NEW m \in Msgs, NEW written \in BOOLEAN, QueueMessage(m, written) \/ AddNote(m, written)
      PROVE  QueueInv'
  <2>1. \E note \in BOOLEAN : /\ Adds(m, note, written) /\ told[m] \in {"new", "held"}
                              /\ note = TRUE => current.kind = "person"
      BY <1>1 DEF QueueMessage, AddNote, TakesNotes
  <2> QED BY <2>1, AddKeeps
<1>2. CASE OwnerSteps
  <2>1. CASE RunOver \/ TurnOver \/ Forgets(TRUE) \/ ForgetsSent(TRUE)
      BY <2>1, PersonTurnKeeps, TurnOverKeeps, ForgetKeeps
  <2>2. CASE Sends \/ SendsRepeated \/ BeginsQueued \/ SendsBusy \/ PopsSent
      BY <2>2, SendsKeeps, BeginKeeps, PopKeeps
  <2>3. CASE PopAsk \/ OpenAsk \/ StartAsk \/ StartAskBusy \/ AskOver
      BY <2>3, AskTurnKeeps
  <2>4. CASE \E m \in Msgs : QueueMessage(m, TRUE) \/ KeptForLater(m) \/ NotKept(m)
      BY <2>4, <1>1, ToldKeeps, NotKeptKeeps
  <2>5. CASE \E a \in Asks : AskPlaced(a) \/ WorkerGoesOn(a)
      BY <2>5, AskKeeps
  <2> QED BY <1>2, <2>1, <2>2, <2>3, <2>4, <2>5 DEF OwnerSteps
<1>3. CASE OwnerChoices
  <2>1. CASE \E m \in Msgs : SendsHeld(m) \/ AddNote(m, TRUE) \/ ReadNote(m)
      BY <2>1, <1>1, ToldKeeps, ReadKeeps
  <2>2. CASE \E a \in Asks : AskBegins(a) \/ AnswerAsk(a) \/ AskPerson(a) \/ TimesOut(a)
      BY <2>2, AskKeeps
  <2> QED BY <1>3, <2>1, <2>2 DEF OwnerChoices
<1>4. CASE OwnerActs
  <2>1. CASE \E a \in Asks : AskStopped(a) \/ Reply(a)
      BY <2>1, AskKeeps
  <2> QED BY <1>4, <2>1, PersonTurnKeeps, StopTurnKeeps DEF OwnerActs
<1>5. CASE OwnerFaults
  <2>1. CASE \E m \in Msgs : QueueMessage(m, FALSE) \/ AddNote(m, FALSE)
      BY <2>1, <1>1
  <2>2. CASE Restarts \/ Forgets(FALSE) \/ ForgetsSent(FALSE)
      BY <2>2, RestartsKeep, ForgetKeeps
  <2>3. CASE SendFails \/ OpenFails \/ StartAskFails
      BY <2>3, SendsKeeps, AskTurnKeeps
  <2> QED BY <1>5, <2>1, <2>2, <2>3 DEF OwnerFaults
<1>6. CASE UNCHANGED ownerVars
  <2>1. UNCHANGED <<people, stored, current, drain, told, ask, line, forgetting, fate>>
      BY <1>6 DEF ownerVars
  <2> QED BY <2>1, OwnerFacts, QuestionKeeps
<1> QED BY <1>2, <1>3, <1>4, <1>5, <1>6 DEF OwnerNext

LEMMA QueueInvHolds == OwnerSpec => []QueueInv
BY QueueStarts, QueueNext, PTL DEF OwnerSpec

LEMMA KeptShown == QueueInv => MessagesKept
<1> SUFFICES ASSUME QueueInv, NEW m \in Msgs
             PROVE  /\ told[m] = "accepted" /\ ~Became(m) =>
                          Waits(m) /\ \E n \in DOMAIN stored : stored[n] = m
                    /\ m \notin fate.left =>
                          fate.ran[m] + Cardinality({m} \cap fate.read)
                                      + Cardinality({m} \cap fate.given) <= 1
    BY DEF MessagesKept
<1>1. MessageSound(m) /\ FateOK
    BY OwnerFacts
<1>2. told[m] = "accepted" /\ ~Became(m) => Waits(m) /\ \E n \in DOMAIN stored : stored[n] = m
    BY <1>1 DEF MessageSound, KeptSound, Stored, Values
<1>3. fate.ran[m] \in Nat
    BY <1>1 DEF FateOK
<1>4. ASSUME NEW S
      PROVE  Cardinality({m} \cap S) = IF m \in S THEN 1 ELSE 0
  <2>1. Cardinality({}) = 0 /\ Cardinality({m}) = 1
      BY FS_EmptySet, FS_Singleton
  <2>2. {m} \cap S = IF m \in S THEN {m} ELSE {}
      OBVIOUS
  <2> QED BY <2>1, <2>2
<1>5. ASSUME m \notin fate.left
      PROVE  fate.ran[m] + Cardinality({m} \cap fate.read)
                         + Cardinality({m} \cap fate.given) <= 1
  <2>1. /\ fate.ran[m] <= 1 /\ ~(m \in fate.read /\ m \in fate.given)
        /\ fate.ran[m] = 1 => m \notin fate.read /\ m \notin fate.given
      BY <1>1, <1>5 DEF MessageSound, OnceSound, Withdrawn
  <2>2. /\ Cardinality({m} \cap fate.read) = IF m \in fate.read THEN 1 ELSE 0
        /\ Cardinality({m} \cap fate.given) = IF m \in fate.given THEN 1 ELSE 0
      BY <1>4
  <2> QED BY <1>3, <2>1, <2>2
<1> QED BY <1>2, <1>5

(* The types of a chat's queue hold for any messages and questions         *)
(* (asks.py).                                                              *)
THEOREM OwnerTypeCorrect == OwnerSpec => []OwnerTypeOK
<1>1. QueueInv => OwnerTypeOK
    BY DEF QueueInv
<1> QED BY <1>1, QueueInvHolds, PTL

(* However many messages, notes, questions, Stops, failed writes and       *)
(* restarts: an accepted message waits, in the queue and in the store,     *)
(* until something became of it, and at most one thing does (_send_queued, *)
(* _add_note, restore_queued).                                             *)
THEOREM AcceptedKept == OwnerSpec => []MessagesKept
BY KeptShown, QueueInvHolds, PTL
=============================================================================
