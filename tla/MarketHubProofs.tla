-------------------------- MODULE MarketHubProofs --------------------------
(***************************************************************************)
(* What holds of the hub for any number of sockets, replays, limits and    *)
(* events.  The heart is ReachedIsKnown: whatever one of the hub's three   *)
(* kinds of marks has passed (lastEventId, latestBroadcastId, the start of *)
(* a replay), the client has, or a replay in flight will bring.            *)
(***************************************************************************)
EXTENDS MarketHub, FiniteSetTheorems, WellFoundedInduction, TLAPS

----------------------------------------------------------------------------
(* Reading the outbox: facts about First and After, as in FeedProofs *)

\* A set of naturals that is not empty has a least element.
LEMMA LeastExists ==
  ASSUME NEW S \in SUBSET Nat, S # {}
  PROVE  \E x \in S : \A y \in S : x <= y
<1>1. IsWellFoundedOn(OpToRel(<, Nat), Nat)
  BY NatLessThanWellFounded
<1>2. \E x \in S : \A y \in S : ~ (<<y, x>> \in OpToRel(<, Nat))
  BY <1>1, WFMin
<1>3. PICK x \in S : \A y \in S : ~ (<<y, x>> \in OpToRel(<, Nat))
  BY <1>2
<1>4. \A y \in S : ~ (y < x)
  BY <1>3 DEF OpToRel
<1> QED
  BY <1>4

\* A finite set of naturals that is not empty has a highest element.
LEMMA HighestExists ==
  ASSUME NEW S \in SUBSET Nat, IsFiniteSet(S), S # {}
  PROVE  Highest(S) \in S /\ \A y \in S : y <= Highest(S)
<1> DEFINE Above(x) == { y \in S : x < y }
           Family == { Above(x) : x \in S }
           R == StrictSubsetOrdering(S)
<1>1. Family \subseteq FiniteSubsetsOf(S)
  <2>1. ASSUME NEW x \in S PROVE Above(x) \in FiniteSubsetsOf(S)
    <3>1. IsFiniteSet(Above(x))
      BY FS_Subset
    <3> QED
      BY <3>1 DEF FiniteSubsetsOf
  <2> QED
    BY <2>1
<1>2. Family # {}
  OBVIOUS
<1>3. PICK A \in Family : \A B \in Family : ~ (<<B, A>> \in R)
  <2> HIDE DEF Family, R
  <2>1. IsWellFoundedOn(StrictSubsetOrdering(S), FiniteSubsetsOf(S))
    BY FS_StrictSubsetOrderingWellFounded
  <2>2. \E A \in Family : \A B \in Family : ~ (<<B, A>> \in R)
    BY <1>1, <1>2, <2>1, WFMin DEF R
  <2> QED
    BY <2>2
<1>4. PICK x \in S : A = Above(x)
  OBVIOUS
<1>5. ASSUME NEW y \in S, x < y PROVE FALSE
  <2>1. x \in Nat /\ y \in Nat /\ \A k \in S : k \in Nat
    OBVIOUS
  <2>2. ~ (y < y) /\ \A k \in S : y < k => x < k
    BY <1>5, <2>1
  <2>3. Above(y) \subseteq Above(x) /\ y \in Above(x) /\ y \notin Above(y)
    BY <1>5, <2>2
  <2>4. <<Above(y), Above(x)>> \in R
    BY <2>3 DEF StrictSubsetOrdering
  <2> QED
    BY <2>4, <1>3, <1>4
<1>6. \A y \in S : y <= x
  BY <1>5
<1> QED
  BY <1>6 DEF Highest

\* LIMIT n takes a part of the rows.
LEMMA FirstSubset ==
  ASSUME NEW S, NEW n
  PROVE  First(S, n) \subseteq S
BY DEF First

\* Whatever is ahead of a row that is taken is taken as well.
LEMMA FirstDownward ==
  ASSUME NEW S \in SUBSET Nat, IsFiniteSet(S), NEW n \in Int,
         NEW id \in First(S, n), NEW j \in S, j < id
  PROVE  j \in First(S, n)
<1> DEFINE Below(x) == { k \in S : k < x }
<1>1. id \in S /\ Cardinality(Below(id)) < n
  BY DEF First
<1>2. IsFiniteSet(Below(id))
  BY FS_Subset
<1>3. Below(j) \in SUBSET Below(id)
  <2>1. j \in Nat /\ id \in Nat /\ \A k \in S : k \in Nat
    BY <1>1
  <2>2. \A k \in S : k < j => k < id
    BY <2>1
  <2> QED
    BY <2>2
<1>4. Cardinality(Below(j)) <= Cardinality(Below(id)) /\ IsFiniteSet(Below(j))
  BY <1>2, <1>3, FS_Subset
<1>5. Cardinality(Below(j)) \in Nat /\ Cardinality(Below(id)) \in Nat
  BY <1>2, <1>4, FS_CardinalityType
<1>6. Cardinality(Below(j)) < n
  BY <1>1, <1>4, <1>5
<1> QED
  BY <1>6 DEF First

\* A read that returns fewer rows than its limit has returned all of them.
LEMMA FirstAll ==
  ASSUME NEW S \in SUBSET Nat, IsFiniteSet(S), NEW n \in Int,
         Cardinality(First(S, n)) < n
  PROVE  First(S, n) = S
<1> SUFFICES ASSUME S \ First(S, n) # {} PROVE FALSE
  BY FirstSubset
<1> DEFINE Below(x) == { k \in S : k < x }
<1>1. PICK x \in S \ First(S, n) : \A y \in S \ First(S, n) : x <= y
  BY LeastExists
<1>2. Below(x) \in SUBSET First(S, n)
  <2>1. x \in Nat /\ \A k \in S : k \in Nat
    OBVIOUS
  <2>2. ASSUME NEW k \in S, k < x PROVE k \in First(S, n)
    BY <1>1, <2>1, <2>2
  <2> QED
    BY <2>2
<1>3. IsFiniteSet(First(S, n)) /\ IsFiniteSet(Below(x))
  BY FirstSubset, FS_Subset
<1>4. Cardinality(Below(x)) <= Cardinality(First(S, n))
  BY <1>2, <1>3, FS_Subset
<1>5. Cardinality(Below(x)) \in Nat /\ Cardinality(First(S, n)) \in Nat
  BY <1>3, FS_CardinalityType
<1>6. Cardinality(Below(x)) < n
  BY <1>4, <1>5
<1> QED
  BY <1>1, <1>6 DEF First

\* The rows a read takes are finite in number, and are ids.
LEMMA FirstFinite ==
  ASSUME NEW S \in SUBSET Nat, IsFiniteSet(S), NEW n
  PROVE  First(S, n) \in SUBSET Nat /\ IsFiniteSet(First(S, n))
BY FirstSubset, FS_Subset

\* LIMIT n takes at most n rows.
LEMMA FirstBounded ==
  ASSUME NEW S \in SUBSET Nat, IsFiniteSet(S), NEW n \in Nat
  PROVE  Cardinality(First(S, n)) <= n
<1> DEFINE T == First(S, n)
           h == Highest(T)
           Below == { k \in S : k < h }
<1>1. T \in SUBSET S /\ IsFiniteSet(T)
  BY FirstSubset, FS_Subset
<1>2. CASE T = {}
  BY <1>2, FS_EmptySet
<1>3. CASE T # {}
  <2>1. h \in T /\ \A y \in T : y <= h
    BY <1>1, <1>3, HighestExists
  <2>2. IsFiniteSet(Below) /\ Cardinality(Below) < n
    BY <2>1, FS_Subset DEF First
  <2>3. h \in Nat /\ \A y \in T : y \in Nat
    BY <1>1, <2>1
  <2>4. \A y \in T : y = h \/ y < h
    <3> HIDE DEF T, h
    <3> QED
      BY <2>1, <2>3
  <2>5. T \in SUBSET (Below \cup {h})
    BY <1>1, <2>4
  <2>6. IsFiniteSet(Below \cup {h}) /\ Cardinality(Below \cup {h}) <= Cardinality(Below) + 1
    <3>1. Cardinality(Below) \in Nat
      BY <2>2, FS_CardinalityType
    <3> HIDE DEF Below, h
    <3> QED
      BY <2>2, <3>1, FS_AddElement
  <2>7. Cardinality(T) <= Cardinality(Below \cup {h})
    BY <2>5, <2>6, FS_Subset
  <2>8. /\ Cardinality(T) \in Nat /\ Cardinality(Below) \in Nat
        /\ Cardinality(Below \cup {h}) \in Nat
    BY <1>1, <2>2, <2>6, FS_CardinalityType
  <2> HIDE DEF T, h, Below
  <2>9. Cardinality(T) <= n
    BY <2>2, <2>6, <2>7, <2>8
  <2> QED
    BY <2>9 DEF T
<1> QED
  BY <1>2, <1>3

\* The same for the rows behind an id.
LEMMA AfterFinite ==
  ASSUME NEW S \in SUBSET Nat, IsFiniteSet(S), NEW x
  PROVE  After(S, x) \in SUBSET Nat /\ IsFiniteSet(After(S, x))
<1>1. After(S, x) \in SUBSET S
  BY DEF After
<1> QED
  BY <1>1, FS_Subset

----------------------------------------------------------------------------

\* A mark is 0 or the id of a committed row.
InLog(x) == x = 0 \/ x \in outbox

\* No mark is ahead of the outbox: what is committed later is ahead of it.
MarksInLog ==
  /\ InLog(latest)
  /\ \A c \in Socket : InLog(lastId[c]) /\ \A r \in Slot : InLog(replay[c][r].after)

\* rows begins where the mark ends and leaves nothing out on its way.
Prefix(rows, mark) ==
  /\ rows \subseteq After(outbox, mark)
  /\ \A j \in rows, id \in outbox : mark < id /\ id < j => id \in rows

\* However long ago a read was made, it is a prefix of what there is now.
ReadsArePrefixes ==
  /\ Prefix(flush.rows, latest)
  /\ \A c \in Socket : \A r \in Slot : Prefix(replay[c][r].rows, replay[c][r].after)

\* A process that is down broadcasts nothing and has no clients.
StoppedIsQuiet ==
  ~running => flush = NoFlush /\ \A c \in Socket : status[c] \in {"new", "gone"}

\* Replay p will send the row, or tell the client to start over.
Promised(p, id) ==
  \/ p.phase = "query" /\ p.after < id
  \/ p.phase = "rows" /\ (TooMany(p.rows) \/ id \in p.rows)

Known(c, id) == id \in sent[c] \/ \E r \in Slot : Promised(replay[c][r], id)

\* Some mark of the client has passed the row.
Reached(c, id) ==
  \/ id <= latest \/ id <= lastId[c]
  \/ \E r \in Slot : replay[c][r].phase # "idle" /\ id <= replay[c][r].after

ReachedIsKnown ==
  \A c \in Socket : status[c] = "open" /\ ~resync[c] =>
    \A id \in outbox : claim[c] < id /\ Reached(c, id) => Known(c, id)

HubInv ==
  /\ TypeOK /\ MarksInLog /\ ReadsArePrefixes /\ StoppedIsQuiet /\ ReachedIsKnown

----------------------------------------------------------------------------
(* Reading and sending *)

\* A read of the rows behind a mark is a prefix of them.
LEMMA ReadIsPrefix ==
  ASSUME outbox \in SUBSET Nat, IsFiniteSet(outbox), NEW mark \in Nat, NEW n \in Nat
  PROVE  Prefix(First(After(outbox, mark), n), mark)
<1> DEFINE rows == First(After(outbox, mark), n)
<1>1. After(outbox, mark) \in SUBSET Nat /\ IsFiniteSet(After(outbox, mark))
  BY AfterFinite
<1>2. rows \subseteq After(outbox, mark)
  BY FirstSubset
<1>3. ASSUME NEW j \in rows, NEW id \in outbox, mark < id, id < j
      PROVE  id \in rows
  <2>1. id \in After(outbox, mark)
    BY <1>3 DEF After
  <2> QED
    BY <1>1, <1>3, <2>1, FirstDownward
<1> QED
  BY <1>2, <1>3 DEF Prefix

\* A batch sent to an open socket arrives whole, and lastEventId is its last
\* id, or the socket is told to close.
LEMMA SendKeeps ==
  ASSUME TypeOK, NEW due, Send(due),
         \A c \in Socket : due[c] \in SUBSET Nat /\ IsFiniteSet(due[c])
  PROVE  /\ sent' \in [Socket -> SUBSET Nat] /\ lastId' \in [Socket -> Nat]
         /\ buffered' \in [Socket -> 0..(MaxBuffered + 1)]
         /\ status' \in [Socket -> {"new", "open", "closing", "gone"}]
         /\ \A c \in Socket :
              /\ sent[c] \subseteq sent'[c]
              /\ lastId'[c] = lastId[c] \/ lastId'[c] \in due[c]
              /\ status'[c] = status[c] \/ (status[c] = "open" /\ status'[c] = "closing")
              /\ status'[c] = "open" => due[c] \subseteq sent'[c]
<1> DEFINE out == [c \in Socket |->
                     IF status[c] = "open" THEN First(due[c], Room(c)) ELSE {}]
<1>1. /\ sent' = [c \in Socket |-> sent[c] \cup out[c]]
      /\ lastId' = [c \in Socket |-> IF out[c] = {} THEN lastId[c] ELSE Highest(out[c])]
      /\ buffered' = [c \in Socket |-> buffered[c] + Cardinality(out[c])]
      /\ status' = [c \in Socket |->
                      IF status[c] = "open" /\ out[c] # due[c] THEN "closing" ELSE status[c]]
  BY Zenon DEF Send
<1>2. ASSUME NEW c \in Socket
      PROVE  /\ out[c] \in SUBSET Nat /\ out[c] \subseteq due[c] /\ IsFiniteSet(out[c])
             /\ Cardinality(out[c]) \in Nat
             /\ buffered[c] + Cardinality(out[c]) \in 0..(MaxBuffered + 1)
             /\ out[c] = {} \/ Highest(out[c]) \in out[c]
  <2>1. Room(c) \in Nat /\ Room(c) + buffered[c] = MaxBuffered + 1
    BY HubAssumption DEF TypeOK, Room
  <2>2. CASE status[c] = "open"
    <3>1. out[c] = First(due[c], Room(c))
      BY <2>2
    <3>2. out[c] \in SUBSET Nat /\ out[c] \subseteq due[c] /\ IsFiniteSet(out[c])
      BY <3>1, FirstFinite, FirstSubset
    <3>3. Cardinality(out[c]) <= Room(c) /\ Cardinality(out[c]) \in Nat
      BY <2>1, <3>1, <3>2, FirstBounded, FS_CardinalityType
    <3>4. out[c] = {} \/ Highest(out[c]) \in out[c]
      BY <3>2, HighestExists
    <3>5. buffered[c] + Cardinality(out[c]) \in 0..(MaxBuffered + 1)
      BY <2>1, <3>3, HubAssumption DEF TypeOK
    <3> QED
      BY <3>2, <3>3, <3>4, <3>5
  <2>3. CASE status[c] # "open"
    <3>1. out[c] = {} /\ IsFiniteSet(out[c]) /\ Cardinality(out[c]) = 0
      BY <2>3, FS_EmptySet
    <3> HIDE DEF out
    <3> QED
      BY <3>1, HubAssumption DEF TypeOK
  <2> QED
    BY <2>2, <2>3
<1> HIDE DEF out
<1>3. sent' \in [Socket -> SUBSET Nat] /\ lastId' \in [Socket -> Nat]
  BY <1>1, <1>2 DEF TypeOK
<1>4. buffered' \in [Socket -> 0..(MaxBuffered + 1)]
  BY <1>1, <1>2 DEF TypeOK
<1>5. status' \in [Socket -> {"new", "open", "closing", "gone"}]
  BY <1>1 DEF TypeOK
<1>6. ASSUME NEW c \in Socket
      PROVE  /\ sent[c] \subseteq sent'[c]
             /\ lastId'[c] = lastId[c] \/ lastId'[c] \in due[c]
             /\ status'[c] = status[c] \/ (status[c] = "open" /\ status'[c] = "closing")
             /\ status'[c] = "open" => due[c] \subseteq sent'[c]
  <2>1. /\ sent'[c] = sent[c] \cup out[c]
        /\ lastId'[c] = IF out[c] = {} THEN lastId[c] ELSE Highest(out[c])
        /\ status'[c] = IF status[c] = "open" /\ out[c] # due[c] THEN "closing" ELSE status[c]
    BY <1>1
  <2>2. status'[c] = "open" => out[c] = due[c]
    BY <2>1
  <2>3. lastId'[c] = lastId[c] \/ lastId'[c] \in due[c]
    BY <1>2, <2>1
  <2> QED
    BY <2>1, <2>2, <2>3
<1> QED
  BY <1>3, <1>4, <1>5, <1>6

\* A replay takes a free slot, or the client is told to start over.
LEMMA ReplayBegins ==
  ASSUME TypeOK, NEW c \in Socket, NEW after \in Nat, BeginReplay(c, after)
  PROVE  /\ claim' \in [Socket -> Nat] /\ resync' \in [Socket -> BOOLEAN]
         /\ replay' \in [Socket -> [Slot -> ReplayType]]
         /\ claim'[c] = after
         /\ \A d \in Socket \ {c} : claim'[d] = claim[d] /\ resync'[d] = resync[d]
         /\ \A d \in Socket : \A s \in Slot :
              replay'[d][s] \in {replay[d][s], [phase |-> "query", after |-> after, rows |-> {}]}
         /\ \A d \in Socket \ {c} : replay'[d] = replay[d]
         /\ \A s \in Slot : replay[c][s].phase # "idle" => replay'[c][s] = replay[c][s]
         /\ \/ resync'[c]
            \/ \E s \in Slot : replay'[c][s] = [phase |-> "query", after |-> after, rows |-> {}]
<1> DEFINE new == [phase |-> "query", after |-> after, rows |-> {}]
<1>1. /\ claim' = [claim EXCEPT ![c] = after]
      /\ resync' = [resync EXCEPT ![c] = TooOld(after)]
  BY DEF BeginReplay
<1>2. TooOld(after) \in BOOLEAN
  BY DEF TooOld
<1>3. /\ claim' \in [Socket -> Nat] /\ resync' \in [Socket -> BOOLEAN]
      /\ claim'[c] = after /\ resync'[c] = TooOld(after)
      /\ \A d \in Socket \ {c} : claim'[d] = claim[d] /\ resync'[d] = resync[d]
  BY <1>1, <1>2 DEF TypeOK
<1>4. CASE TooOld(after)
  <2>1. replay' = replay
    BY <1>4 DEF BeginReplay
  <2> QED
    BY <1>3, <1>4, <2>1 DEF TypeOK
<1>5. CASE ~TooOld(after)
  <2>1. PICK r \in Slot : /\ replay[c][r] = NoReplay
                          /\ replay' = [replay EXCEPT ![c][r] = new]
    BY <1>5 DEF BeginReplay
  <2>2. new \in ReplayType
    BY DEF ReplayType
  <2>3. replay[c][r].phase = "idle"
    BY <2>1 DEF NoReplay
  <2> HIDE DEF new
  <2>4. /\ replay' \in [Socket -> [Slot -> ReplayType]]
        /\ replay'[c][r] = new
        /\ \A d \in Socket \ {c} : replay'[d] = replay[d]
        /\ \A s \in Slot \ {r} : replay'[c][s] = replay[c][s]
    BY <2>1, <2>2 DEF TypeOK
  <2>5. \A d \in Socket : \A s \in Slot : replay'[d][s] \in {replay[d][s], new}
    BY <2>4
  <2>6. \A s \in Slot : replay[c][s].phase # "idle" => replay'[c][s] = replay[c][s]
    BY <2>3, <2>4
  <2> QED
    BY <1>3, <2>4, <2>5, <2>6 DEF new
<1> QED
  BY <1>4, <1>5

\* What a read changes of the replays.
LEMMA ReadShape ==
  ASSUME HubInv, NEW c \in Socket, NEW r \in Slot, ReadReplay(c, r)
  PROVE  /\ replay' \in [Socket -> [Slot -> ReplayType]]
         /\ replay[c][r].phase = "query" /\ replay'[c][r].phase = "rows"
         /\ replay'[c][r].after = replay[c][r].after
         /\ replay'[c][r].rows = First(After(outbox, replay[c][r].after), ReplayLimit)
         /\ \A d \in Socket : \A s \in Slot :
              (d = c /\ s = r) \/ replay'[d][s] = replay[d][s]
<1> DEFINE rows == First(After(outbox, replay[c][r].after), ReplayLimit)
<1>1. replay[c][r] \in ReplayType /\ outbox \in SUBSET Nat /\ IsFiniteSet(outbox)
  BY DEF HubInv, TypeOK
<1>2. rows \in SUBSET Nat
  BY <1>1, AfterFinite, FirstFinite
<1> HIDE DEF rows
<1>4. /\ replay[c][r].phase = "query"
      /\ replay' = [replay EXCEPT ![c][r] =
                      [phase |-> "rows", after |-> replay[c][r].after, rows |-> rows]]
  BY DEF ReadReplay, rows
<1>5. [phase |-> "rows", after |-> replay[c][r].after, rows |-> rows] \in ReplayType
  BY <1>1, <1>2 DEF ReplayType
<1> DEFINE read == [phase |-> "rows", after |-> replay[c][r].after, rows |-> rows]
<1>6. read \in ReplayType /\ replay' = [replay EXCEPT ![c][r] = read]
  BY <1>4, <1>5
<1>7. /\ read.phase = "rows" /\ read.after = replay[c][r].after /\ read.rows = rows
  OBVIOUS
<1> HIDE DEF read
<1>8. /\ replay' \in [Socket -> [Slot -> ReplayType]]
      /\ replay'[c][r] = read
      /\ \A d \in Socket : \A s \in Slot : (d = c /\ s = r) \/ replay'[d][s] = replay[d][s]
  BY <1>6 DEF HubInv, TypeOK
<1> QED
  BY <1>4, <1>7, <1>8 DEF rows

\* What the end of a replay changes of the replays.
LEMMA EndShape ==
  ASSUME HubInv, NEW c \in Socket, NEW r \in Slot, EndReplay(c, r)
  PROVE  /\ replay' \in [Socket -> [Slot -> ReplayType]]
         /\ replay[c][r].phase = "rows" /\ replay'[c][r] = NoReplay
         /\ \A d \in Socket : \A s \in Slot :
              (d = c /\ s = r) \/ replay'[d][s] = replay[d][s]
<1>1. NoReplay \in ReplayType
  BY DEF NoReplay, ReplayType
<1> QED
  BY <1>1 DEF EndReplay, HubInv, TypeOK

\* The rows a replay or a flush holds are committed, and finite in number.
LEMMA RowsFinite ==
  ASSUME HubInv
  PROVE  /\ flush.rows \in SUBSET Nat /\ IsFiniteSet(flush.rows)
         /\ \A c \in Socket : \A r \in Slot :
              replay[c][r].rows \in SUBSET Nat /\ IsFiniteSet(replay[c][r].rows)
<1>1. ASSUME NEW rows, NEW mark, Prefix(rows, mark)
      PROVE  rows \in SUBSET Nat /\ IsFiniteSet(rows)
  BY <1>1, AfterFinite, FS_Subset DEF HubInv, TypeOK, Prefix
<1> QED
  BY <1>1 DEF HubInv, ReadsArePrefixes

\* Forgetting clients leaves every variable in its type.
LEMMA ForgetTypes ==
  ASSUME TypeOK, NEW gone, Forget(gone)
  PROVE  /\ status' \in [Socket -> {"new", "open", "closing", "gone"}]
         /\ lastId' \in [Socket -> Nat] /\ silent' \in [Socket -> BOOLEAN]
         /\ buffered' \in [Socket -> 0..(MaxBuffered + 1)]
         /\ claim' \in [Socket -> Nat] /\ sent' \in [Socket -> SUBSET Nat]
         /\ resync' \in [Socket -> BOOLEAN]
         /\ \A c \in Socket \ gone :
              /\ status'[c] = status[c] /\ lastId'[c] = lastId[c] /\ claim'[c] = claim[c]
              /\ sent'[c] = sent[c] /\ resync'[c] = resync[c]
         /\ \A c \in Socket \cap gone : status'[c] = "gone" /\ lastId'[c] = 0
<1>1. 0 \in 0..(MaxBuffered + 1)
  BY HubAssumption
<1>2. buffered' \in [Socket -> 0..(MaxBuffered + 1)]
  BY <1>1 DEF TypeOK, Forget
<1> QED
  BY <1>2 DEF TypeOK, Forget

----------------------------------------------------------------------------
(* Every step keeps the invariant *)

LEMMA InitInv == Init => HubInv
<1> SUFFICES ASSUME Init PROVE HubInv
  OBVIOUS
<1>1. TypeOK
  <2>1. 0 \in 0..(MaxBuffered + 1)
    BY HubAssumption
  <2>2. IsFiniteSet({})
    BY FS_EmptySet
  <2> QED
    BY <2>1, <2>2 DEF Init, TypeOK, NoFlush, NoReplay, FlushType, ReplayType
<1>2. MarksInLog
  BY DEF Init, MarksInLog, InLog, NoReplay
<1>3. ReadsArePrefixes
  BY DEF Init, ReadsArePrefixes, Prefix, NoFlush, NoReplay
<1>4. StoppedIsQuiet
  BY DEF Init, StoppedIsQuiet
<1>5. ReachedIsKnown
  BY DEF Init, ReachedIsKnown
<1> QED
  BY <1>1, <1>2, <1>3, <1>4, <1>5 DEF HubInv

\* Rows of a batch, or none, to each socket: what Send is given.
LEMMA DueFinite ==
  ASSUME HubInv
  PROVE  /\ \A c \in Socket : Due(c) \in SUBSET Nat /\ IsFiniteSet(Due(c))
         /\ \A c \in Socket : \A r \in Slot : \A d \in Socket :
              LET rows == replay[c][r].rows
                  due == IF d = c THEN rows ELSE {} IN
              due \in SUBSET Nat /\ IsFiniteSet(due)
BY RowsFinite, AfterFinite, FS_EmptySet DEF Due

LEMMA TypesNext == HubInv /\ Next => TypeOK'
<1> SUFFICES ASSUME HubInv, Next PROVE TypeOK'
  OBVIOUS
<1> USE DEF clientVars, history
<1>1. TypeOK
  BY DEF HubInv
<1>2. ASSUME Publish PROVE TypeOK'
  <2>1. PICK id \in 1..MaxId : outbox' = outbox \cup {id}
    BY <1>2 DEF Publish
  <2>2. outbox' \in SUBSET Nat /\ IsFiniteSet(outbox')
    <3>1. outbox \in SUBSET Nat /\ IsFiniteSet(outbox) /\ id \in Nat
      BY <1>1 DEF TypeOK
    <3>2. IsFiniteSet(outbox \cup {id})
      BY <3>1, FS_AddElement
    <3> QED
      BY <2>1, <3>1, <3>2
  <2>3. UNCHANGED <<running, latest, flush, clientVars, replay, history>>
    BY <1>2 DEF Publish
  <2> QED
    BY <1>1, <2>2, <2>3 DEF TypeOK
<1>3. ASSUME Start PROVE TypeOK'
  <2>1. Newest(outbox) \in Nat
    BY <1>1, HighestExists DEF TypeOK, Newest
  <2> QED
    BY <1>1, <1>3, <2>1 DEF Start, TypeOK
<1>4. ASSUME Stop PROVE TypeOK'
  <2>1. NoFlush \in FlushType /\ NoReplay \in ReplayType
    BY DEF NoFlush, NoReplay, FlushType, ReplayType
  <2>2. /\ flush' \in FlushType /\ replay' \in [Socket -> [Slot -> ReplayType]]
        /\ alive' \in [Socket -> BOOLEAN]
    BY <1>1, <1>4, <2>1 DEF Stop, TypeOK
  <2>3. Forget(Clients) /\ running' = FALSE /\ UNCHANGED <<outbox, latest>>
    BY <1>4 DEF Stop
  <2> QED
    BY <1>1, <2>2, <2>3, ForgetTypes DEF TypeOK
<1>5. ASSUME Heartbeat PROVE TypeOK'
  <2>1. /\ Forget({ c \in Clients : ~alive[c] })
        /\ alive' \in [Socket -> BOOLEAN]
        /\ UNCHANGED <<outbox, running, latest, flush, replay>>
    BY <1>1, <1>5 DEF Heartbeat, TypeOK
  <2> QED
    BY <1>1, <2>1, ForgetTypes DEF TypeOK
<1>6. ASSUME StartFlush PROVE TypeOK'
  BY <1>1, <1>6 DEF StartFlush, TypeOK, FlushType
<1>7. ASSUME ReadFlush PROVE TypeOK'
  <2>1. First(After(outbox, latest), MaxReplay) \in SUBSET Nat
    BY <1>1, AfterFinite, FirstFinite DEF TypeOK
  <2> QED
    BY <1>1, <1>7, <2>1 DEF ReadFlush, TypeOK, FlushType
<1>8. ASSUME Broadcast PROVE TypeOK'
  <2>1. latest' \in Nat /\ flush' \in FlushType
    <3>1. flush.rows = {} \/ Highest(flush.rows) \in Nat
      BY RowsFinite, HighestExists
    <3> QED
      BY <1>1, <1>8, <3>1 DEF Broadcast, TypeOK, FlushType, NoFlush
  <2>2. Send([c \in Socket |-> Due(c)])
    BY <1>8 DEF Broadcast
  <2>3. \A c \in Socket : [d \in Socket |-> Due(d)][c] \in SUBSET Nat
                          /\ IsFiniteSet([d \in Socket |-> Due(d)][c])
    BY DueFinite
  <2>4. /\ sent' \in [Socket -> SUBSET Nat] /\ lastId' \in [Socket -> Nat]
        /\ buffered' \in [Socket -> 0..(MaxBuffered + 1)]
        /\ status' \in [Socket -> {"new", "open", "closing", "gone"}]
    BY <1>1, <2>2, <2>3, SendKeeps
  <2> QED
    BY <1>1, <1>8, <2>1, <2>4 DEF Broadcast, TypeOK
<1>9. ASSUME NEW c \in Socket, Client(c) PROVE TypeOK'
  <2>1. ASSUME Add(c) PROVE TypeOK'
    <3>1. CASE Full /\ status' = [status EXCEPT ![c] = "gone"]
               /\ UNCHANGED <<lastId, alive, replay, claim, resync>>
      BY <1>1, <2>1, <3>1 DEF Add, TypeOK
    <3>2. CASE \E after \in Resumable :
             /\ status' = [status EXCEPT ![c] = "open"]
             /\ lastId' = [lastId EXCEPT ![c] = after]
             /\ alive' = [alive EXCEPT ![c] = TRUE]
             /\ BeginReplay(c, after)
      <4>1. PICK after \in Resumable :
             /\ status' = [status EXCEPT ![c] = "open"]
             /\ lastId' = [lastId EXCEPT ![c] = after]
             /\ alive' = [alive EXCEPT ![c] = TRUE]
             /\ BeginReplay(c, after)
        BY <3>2
      <4>2. after \in Nat
        BY <1>1 DEF Resumable, TypeOK
      <4>3. /\ claim' \in [Socket -> Nat] /\ resync' \in [Socket -> BOOLEAN]
            /\ replay' \in [Socket -> [Slot -> ReplayType]]
        BY <1>1, <4>1, <4>2, ReplayBegins
      <4>4. UNCHANGED <<outbox, running, latest, flush, silent, buffered, sent>>
        BY <2>1 DEF Add
      <4> QED
        BY <1>1, <4>1, <4>2, <4>3, <4>4 DEF TypeOK
    <3> QED
      BY <2>1, <3>1, <3>2 DEF Add
  <2>2. ASSUME Subscribe(c) PROVE TypeOK'
    <3>1. PICK after \in Resumable :
            /\ lastId' = [lastId EXCEPT ![c] = after]
            /\ BeginReplay(c, after)
            /\ status' = [status EXCEPT ![c] = IF TooOld(after) THEN AfterControl(c) ELSE "open"]
      BY <2>2 DEF Subscribe
    <3>2. after \in Nat
      BY <1>1 DEF Resumable, TypeOK
    <3>3. /\ claim' \in [Socket -> Nat] /\ resync' \in [Socket -> BOOLEAN]
          /\ replay' \in [Socket -> [Slot -> ReplayType]]
      BY <1>1, <3>1, <3>2, ReplayBegins
    <3>4. AfterControl(c) \in {"new", "open", "closing", "gone"}
      BY <1>1 DEF AfterControl, TypeOK
    <3>5. UNCHANGED <<outbox, running, latest, flush, alive, silent, buffered, sent>>
      BY <2>2 DEF Subscribe
    <3> QED
      BY <1>1, <3>1, <3>2, <3>3, <3>4, <3>5 DEF TypeOK
  <2>3. ASSUME Ping(c) PROVE TypeOK'
    BY <1>1, <2>3 DEF Ping, AfterControl, TypeOK
  <2>4. ASSUME BadMessage(c) PROVE TypeOK'
    BY <1>1, <2>4 DEF BadMessage, TypeOK
  <2>5. ASSUME Closed(c) PROVE TypeOK'
    <3>1. /\ Forget({c}) /\ alive' \in [Socket -> BOOLEAN]
          /\ UNCHANGED <<outbox, running, latest, flush, replay>>
      BY <1>1, <2>5 DEF Closed, TypeOK
    <3> QED
      BY <1>1, <3>1, ForgetTypes DEF TypeOK
  <2>6. ASSUME PeerDies(c) PROVE TypeOK'
    BY <1>1, <2>6 DEF PeerDies, TypeOK
  <2>7. ASSUME Pong(c) PROVE TypeOK'
    BY <1>1, <2>7 DEF Pong, TypeOK
  <2>8. ASSUME Drain(c) PROVE TypeOK'
    <3>1. 0 \in 0..(MaxBuffered + 1)
      BY HubAssumption
    <3> QED
      BY <1>1, <2>8, <3>1 DEF Drain, TypeOK
  <2>9. ASSUME NEW r \in Slot, ReadReplay(c, r) PROVE TypeOK'
    BY <1>1, <2>9, ReadShape DEF ReadReplay, TypeOK
  <2>10. ASSUME NEW r \in Slot, EndReplay(c, r) PROVE TypeOK'
    <3>1. replay' \in [Socket -> [Slot -> ReplayType]]
      BY <2>10, EndShape
    <3>2. UNCHANGED <<outbox, running, latest, flush, alive, silent, claim>>
      BY <2>10 DEF EndReplay
    <3>3. CASE TooMany(replay[c][r].rows)
      <4>1. AfterControl(c) \in {"new", "open", "closing", "gone"}
        BY <1>1 DEF AfterControl, TypeOK
      <4> QED
        BY <1>1, <2>10, <3>1, <3>2, <3>3, <4>1 DEF EndReplay, TypeOK
    <3>4. CASE ~TooMany(replay[c][r].rows)
      <4> DEFINE due == [d \in Socket |-> IF d = c THEN replay[c][r].rows ELSE {}]
      <4>1. Send(due) /\ UNCHANGED resync
        BY <2>10, <3>4 DEF EndReplay
      <4>2. \A d \in Socket : due[d] \in SUBSET Nat /\ IsFiniteSet(due[d])
        BY DueFinite
      <4> HIDE DEF due
      <4>3. /\ sent' \in [Socket -> SUBSET Nat] /\ lastId' \in [Socket -> Nat]
            /\ buffered' \in [Socket -> 0..(MaxBuffered + 1)]
            /\ status' \in [Socket -> {"new", "open", "closing", "gone"}]
        BY <1>1, <4>1, <4>2, SendKeeps
      <4> QED
        BY <1>1, <3>1, <3>2, <4>1, <4>3 DEF TypeOK
    <3> QED
      BY <3>3, <3>4
  <2> QED
    BY <1>9, <2>1, <2>2, <2>3, <2>4, <2>5, <2>6, <2>7, <2>8, <2>9, <2>10 DEF Client
<1> QED
  BY <1>2, <1>3, <1>4, <1>5, <1>6, <1>7, <1>8, <1>9 DEF Next

\* A new row is ahead of every mark and of everything read so far.
LEMMA PublishedIsAhead ==
  ASSUME HubInv, Publish
  PROVE  \E id \in Nat \ {0} :
           /\ outbox' = outbox \cup {id}
           /\ \A j \in outbox : j < id
           /\ \A x : InLog(x) => x < id
           /\ UNCHANGED <<running, latest, flush, status, lastId, replay, claim, sent, resync>>
<1>1. PICK id \in 1..MaxId : MayAppend(outbox, id) /\ outbox' = outbox \cup {id}
  BY DEF Publish
<1>2. id \in Nat \ {0} /\ \A j \in outbox : j < id
  BY <1>1, HubAssumption DEF MayAppend
<1>3. \A x : InLog(x) => x < id
  BY <1>2 DEF InLog
<1>4. UNCHANGED <<running, latest, flush, status, lastId, replay, claim, sent, resync>>
  BY DEF Publish, clientVars, history
<1> QED
  BY <1>1, <1>2, <1>3, <1>4

\* What a broadcast does to the marks of a client.
LEMMA BroadcastShape ==
  ASSUME HubInv, Broadcast
  PROVE  /\ latest' = latest \/ latest' \in flush.rows
         /\ flush'.rows = {}
         /\ UNCHANGED <<outbox, running, replay, claim, resync>>
         /\ \A c \in Socket :
              /\ sent[c] \subseteq sent'[c]
              /\ lastId'[c] = lastId[c] \/ lastId'[c] \in Due(c)
              /\ status'[c] = status[c] \/ (status[c] = "open" /\ status'[c] = "closing")
              /\ status'[c] = "open" => Due(c) \subseteq sent'[c]
<1> DEFINE due == [c \in Socket |-> Due(c)]
<1>1. Send(due)
  BY DEF Broadcast
<1>2. \A c \in Socket : due[c] = Due(c) /\ due[c] \in SUBSET Nat /\ IsFiniteSet(due[c])
  BY DueFinite
<1>3. latest' = latest \/ latest' \in flush.rows
  <2>1. flush.rows = {} \/ Highest(flush.rows) \in flush.rows
    BY RowsFinite, HighestExists
  <2> QED
    BY <2>1 DEF Broadcast
<1>4. flush'.rows = {} /\ UNCHANGED <<outbox, running, replay, claim, resync>>
  BY DEF Broadcast, NoFlush
<1> HIDE DEF due
<1>5. \A c \in Socket :
        /\ sent[c] \subseteq sent'[c]
        /\ lastId'[c] = lastId[c] \/ lastId'[c] \in due[c]
        /\ status'[c] = status[c] \/ (status[c] = "open" /\ status'[c] = "closing")
        /\ status'[c] = "open" => due[c] \subseteq sent'[c]
  BY <1>1, <1>2, SendKeeps DEF HubInv
<1> QED
  BY <1>2, <1>3, <1>4, <1>5

\* What the end of a replay does to the clients.
LEMMA EndSends ==
  ASSUME HubInv, NEW c \in Socket, NEW r \in Slot, EndReplay(c, r)
  PROVE  /\ UNCHANGED <<outbox, running, latest, flush, claim>>
         /\ \A d \in Socket :
              /\ sent[d] \subseteq sent'[d]
              /\ lastId'[d] = lastId[d] \/ (d = c /\ lastId'[d] \in replay[c][r].rows)
              /\ status'[d] = status[d] \/ (status[d] = "open" /\ status'[d] = "closing")
              /\ resync[d] => resync'[d]
         /\ \/ resync'[c] \/ status'[c] # "open"
            \/ ~TooMany(replay[c][r].rows) /\ replay[c][r].rows \subseteq sent'[c]
<1> DEFINE rows == replay[c][r].rows
<1>1. UNCHANGED <<outbox, running, latest, flush, claim>>
  BY DEF EndReplay
<1>2. CASE TooMany(rows)
  BY <1>1, <1>2 DEF EndReplay, AfterControl, HubInv, TypeOK
<1>3. CASE ~TooMany(rows)
  <2> DEFINE due == [d \in Socket |-> IF d = c THEN rows ELSE {}]
  <2>1. Send(due) /\ UNCHANGED resync
    BY <1>3 DEF EndReplay
  <2>2. \A d \in Socket : due[d] \in SUBSET Nat /\ IsFiniteSet(due[d])
    BY DueFinite
  <2>3. due[c] = rows /\ \A d \in Socket \ {c} : due[d] = {}
    OBVIOUS
  <2> HIDE DEF due
  <2>4. \A d \in Socket :
          /\ sent[d] \subseteq sent'[d]
          /\ lastId'[d] = lastId[d] \/ lastId'[d] \in due[d]
          /\ status'[d] = status[d] \/ (status[d] = "open" /\ status'[d] = "closing")
          /\ status'[d] = "open" => due[d] \subseteq sent'[d]
    BY <2>1, <2>2, SendKeeps DEF HubInv
  <2> HIDE DEF rows
  <2>5. \A d \in Socket : lastId'[d] = lastId[d] \/ (d = c /\ lastId'[d] \in rows)
    BY <2>3, <2>4
  <2> QED
    BY <1>1, <1>3, <2>1, <2>3, <2>4, <2>5 DEF rows
<1> QED
  BY <1>2, <1>3

LEMMA MarksNext == HubInv /\ Next => MarksInLog'
<1> SUFFICES ASSUME HubInv, Next PROVE MarksInLog'
  OBVIOUS
<1> DEFINE Logged(x) == x = 0 \/ x \in outbox'
<1> USE DEF clientVars, history
<1>1. /\ TypeOK /\ MarksInLog /\ ReadsArePrefixes
      /\ \A x : InLog(x) => x = 0 \/ x \in outbox
  BY DEF HubInv, InLog
<1>2. outbox \subseteq outbox'
  <2>1. CASE Publish
    BY <2>1 DEF Publish
  <2>2. CASE ~Publish
    BY <2>2 DEF Next, Start, Stop, Heartbeat, StartFlush, ReadFlush, Broadcast, Client, Add,
      Subscribe, Ping, BadMessage, Closed, PeerDies, Pong, Drain, ReadReplay, EndReplay
  <2> QED
    BY <2>1, <2>2
<1>3. Logged(latest')
  <2>1. CASE Start
    <3>1. outbox = {} \/ Highest(outbox) \in outbox
      BY <1>1, HighestExists DEF TypeOK
    <3> QED
      BY <1>2, <2>1, <3>1 DEF Start, Newest
  <2>2. CASE Broadcast
    BY <1>1, <1>2, <2>2, BroadcastShape
      DEF ReadsArePrefixes, Prefix, After, MarksInLog
  <2>3. CASE ~Start /\ ~Broadcast
    <3>1. latest' = latest
      BY <2>3 DEF Next, Publish, Stop, Heartbeat, StartFlush, ReadFlush, Client, Add,
        Subscribe, Ping, BadMessage, Closed, PeerDies, Pong, Drain, ReadReplay, EndReplay
    <3> QED
      BY <1>1, <1>2, <3>1 DEF MarksInLog
  <2> QED
    BY <2>1, <2>2, <2>3
<1>4. ASSUME NEW c \in Socket PROVE Logged(lastId'[c])
  <2>1. Logged(lastId[c])
    BY <1>1, <1>2 DEF MarksInLog
  <2>2. CASE Broadcast
    BY <1>1, <1>2, <2>1, <2>2, BroadcastShape DEF ReadsArePrefixes, Prefix, After, Due
  <2>3. CASE Stop \/ Heartbeat
    <3>1. PICK gone : Forget(gone)
      BY <2>3 DEF Stop, Heartbeat
    <3>2. lastId'[c] \in {0, lastId[c]}
      BY <3>1 DEF Forget
    <3> QED
      BY <2>1, <3>2
  <2>4. ASSUME NEW d \in Socket, Client(d) PROVE Logged(lastId'[c])
    <3>1. CASE Add(d) \/ Subscribe(d)
      <4>1. lastId' = lastId \/ \E after \in Resumable : lastId' = [lastId EXCEPT ![d] = after]
        BY <3>1 DEF Add, Subscribe
      <4>2. \A after \in Resumable : Logged(after)
        BY <1>2 DEF Resumable
      <4> QED
        BY <1>1, <2>1, <4>1, <4>2 DEF TypeOK
    <3>2. CASE Closed(d)
      <4>1. lastId'[c] \in {0, lastId[c]}
        BY <3>2 DEF Closed, Forget
      <4> QED
        BY <2>1, <4>1
    <3>3. ASSUME NEW r \in Slot, EndReplay(d, r) PROVE Logged(lastId'[c])
      <4>1. replay[d][r].rows \subseteq outbox
        BY <1>1 DEF ReadsArePrefixes, Prefix, After
      <4> QED
        BY <1>2, <2>1, <3>3, <4>1, EndSends
    <3>4. CASE \/ Ping(d) \/ BadMessage(d) \/ PeerDies(d) \/ Pong(d) \/ Drain(d)
               \/ \E r \in Slot : ReadReplay(d, r)
      <4>1. lastId' = lastId
        BY <3>4 DEF Ping, BadMessage, PeerDies, Pong, Drain, ReadReplay
      <4> QED
        BY <2>1, <4>1
    <3> QED
      BY <2>4, <3>1, <3>2, <3>3, <3>4 DEF Client
  <2>5. CASE Publish \/ Start \/ StartFlush \/ ReadFlush
    <3>1. lastId' = lastId
      BY <2>5 DEF Publish, Start, StartFlush, ReadFlush
    <3> QED
      BY <2>1, <3>1
  <2> QED
    BY <2>2, <2>3, <2>4, <2>5 DEF Next
<1>5. ASSUME NEW c \in Socket, NEW r \in Slot PROVE Logged(replay'[c][r].after)
  <2>1. Logged(replay[c][r].after)
    BY <1>1, <1>2 DEF MarksInLog
  <2>2. CASE Stop
    BY <2>2 DEF Stop, NoReplay
  <2>3. ASSUME NEW d \in Socket, Client(d) PROVE Logged(replay'[c][r].after)
    <3>1. CASE Add(d) \/ Subscribe(d)
      <4>1. CASE replay' = replay
        BY <2>1, <4>1
      <4>2. CASE \E after \in Resumable : BeginReplay(d, after)
        <5>1. PICK after \in Resumable : BeginReplay(d, after)
          BY <4>2
        <5>2. after \in Nat /\ Logged(after)
          BY <1>1, <1>2 DEF Resumable, TypeOK
        <5>3. replay'[c][r] \in {replay[c][r], [phase |-> "query", after |-> after, rows |-> {}]}
          BY <1>1, <5>1, <5>2, ReplayBegins
        <5> QED
          BY <2>1, <5>2, <5>3
      <4> QED
        BY <3>1, <4>1, <4>2 DEF Add, Subscribe
    <3>2. ASSUME NEW s \in Slot, ReadReplay(d, s) PROVE Logged(replay'[c][r].after)
      <4>1. replay'[c][r].after = replay[c][r].after
        BY <3>2, ReadShape
      <4> QED
        BY <2>1, <4>1
    <3>3. ASSUME NEW s \in Slot, EndReplay(d, s) PROVE Logged(replay'[c][r].after)
      <4>1. replay'[c][r] = NoReplay \/ replay'[c][r] = replay[c][r]
        BY <3>3, EndShape
      <4> QED
        BY <2>1, <4>1 DEF NoReplay
    <3>4. CASE \/ Ping(d) \/ BadMessage(d) \/ PeerDies(d) \/ Pong(d) \/ Drain(d) \/ Closed(d)
      <4>1. replay' = replay
        BY <3>4 DEF Ping, BadMessage, PeerDies, Pong, Drain, Closed
      <4> QED
        BY <2>1, <4>1
    <3> QED
      BY <2>3, <3>1, <3>2, <3>3, <3>4 DEF Client
  <2>4. CASE Publish \/ Start \/ Heartbeat \/ StartFlush \/ ReadFlush \/ Broadcast
    <3>1. replay' = replay
      BY <2>4 DEF Publish, Start, Heartbeat, StartFlush, ReadFlush, Broadcast
    <3> QED
      BY <2>1, <3>1
  <2> QED
    BY <2>2, <2>3, <2>4 DEF Next
<1> QED
  BY <1>3, <1>4, <1>5 DEF MarksInLog, InLog

LEMMA ReadsNext == HubInv /\ Next => ReadsArePrefixes'
<1> SUFFICES ASSUME HubInv, Next PROVE ReadsArePrefixes'
  OBVIOUS
<1> USE DEF clientVars, history
<1>1. /\ TypeOK /\ ReadsArePrefixes /\ StoppedIsQuiet
      /\ outbox \in SUBSET Nat /\ IsFiniteSet(outbox) /\ latest \in Nat
      /\ MaxReplay \in Nat /\ ReplayLimit \in Nat
  BY HubAssumption DEF HubInv, TypeOK, ReplayLimit
<1>2. \A mark : Prefix({}, mark)'
  BY DEF Prefix
<1>3. ASSUME outbox' = outbox, NEW rows, NEW mark, Prefix(rows, mark)
      PROVE  /\ rows \subseteq After(outbox', mark)
             /\ \A j \in rows, id \in outbox' : mark < id /\ id < j => id \in rows
  BY <1>3 DEF Prefix
<1>4. CASE Publish
  <2>1. PICK id \in Nat \ {0} :
           /\ outbox' = outbox \cup {id}
           /\ \A j \in outbox : j < id
           /\ UNCHANGED <<flush, latest, replay>>
    BY <1>4, PublishedIsAhead
  <2>2. ASSUME NEW rows, NEW mark, Prefix(rows, mark)
        PROVE  /\ rows \subseteq After(outbox', mark)
               /\ \A j \in rows, k \in outbox' : mark < k /\ k < j => k \in rows
    <3>1. rows \subseteq After(outbox', mark) /\ rows \subseteq outbox
      BY <2>1, <2>2 DEF Prefix, After
    <3>2. ASSUME NEW j \in rows, NEW k \in outbox', mark < k, k < j PROVE k \in rows
      <4>1. j \in Nat /\ id \in Nat /\ j < id
        BY <1>1, <2>1, <3>1
      <4>2. k # id
        BY <3>2, <4>1
      <4> QED
        BY <2>1, <2>2, <3>2, <4>2 DEF Prefix
    <3> QED
      BY <3>1, <3>2
  <2> DEFINE Kept(rows, mark) ==
        /\ rows \subseteq After(outbox', mark)
        /\ \A j \in rows, k \in outbox' : mark < k /\ k < j => k \in rows
  <2>3. Kept(flush.rows, latest)
    BY <1>1, <2>2 DEF ReadsArePrefixes
  <2>4. \A c \in Socket : \A r \in Slot : Kept(replay[c][r].rows, replay[c][r].after)
    BY <1>1, <2>2 DEF ReadsArePrefixes
  <2> QED
    BY <2>1, <2>3, <2>4 DEF ReadsArePrefixes, Prefix
<1>5. ASSUME ~Publish PROVE outbox' = outbox
  BY <1>5 DEF Next, Start, Stop, Heartbeat, StartFlush, ReadFlush, Broadcast, Client, Add,
    Subscribe, Ping, BadMessage, Closed, PeerDies, Pong, Drain, ReadReplay, EndReplay
<1>6. CASE ~Publish
  <2>1. Prefix(flush.rows, latest)'
    <3>1. CASE Start \/ Stop
      <4>1. flush'.rows = {}
        BY <1>1, <3>1 DEF Start, Stop, StoppedIsQuiet, NoFlush
      <4> QED
        BY <4>1 DEF Prefix
    <3>2. CASE StartFlush
      <4>1. flush'.rows = {}
        BY <3>2 DEF StartFlush
      <4> QED
        BY <4>1 DEF Prefix
    <3>3. CASE ReadFlush
      <4>1. flush'.rows = First(After(outbox, latest), MaxReplay) /\ latest' = latest
        BY <3>3 DEF ReadFlush
      <4>2. Prefix(First(After(outbox, latest), MaxReplay), latest)
        BY <1>1, ReadIsPrefix
      <4> QED
        BY <1>3, <1>5, <1>6, <4>1, <4>2 DEF Prefix
    <3>4. CASE Broadcast
      <4>1. flush'.rows = {}
        BY <3>4, BroadcastShape
      <4> QED
        BY <4>1 DEF Prefix
    <3>5. CASE Heartbeat \/ \E c \in Socket : Client(c)
      <4>1. flush' = flush /\ latest' = latest
        BY <3>5 DEF Heartbeat, Client, Add, Subscribe, Ping, BadMessage, Closed, PeerDies,
          Pong, Drain, ReadReplay, EndReplay
      <4> QED
        BY <1>1, <1>3, <1>5, <1>6, <4>1 DEF ReadsArePrefixes, Prefix
    <3> QED
      BY <1>6, <3>1, <3>2, <3>3, <3>4, <3>5 DEF Next
  <2>2. ASSUME NEW c \in Socket, NEW r \in Slot
        PROVE  Prefix(replay[c][r].rows, replay[c][r].after)'
    <3> DEFINE Kept == replay'[c][r] = replay[c][r]
    <3>1. CASE Kept
      BY <1>1, <1>3, <1>5, <1>6, <3>1 DEF ReadsArePrefixes, Prefix
    <3>2. CASE replay'[c][r].rows = {}
      BY <3>2 DEF Prefix
    <3>3. CASE ReadReplay(c, r)
      <4> DEFINE after == replay[c][r].after
      <4>1. replay'[c][r].after = after /\ replay'[c][r].rows = First(After(outbox, after), ReplayLimit)
        BY <3>3, ReadShape
      <4>2. after \in Nat
        BY <1>1 DEF TypeOK, ReplayType
      <4>3. Prefix(First(After(outbox, after), ReplayLimit), after)
        BY <1>1, <4>2, ReadIsPrefix
      <4> QED
        BY <1>3, <1>5, <1>6, <4>1, <4>3 DEF Prefix
    <3>4. CASE Stop
      <4>1. replay'[c][r].rows = {}
        BY <3>4 DEF Stop, NoReplay
      <4> QED
        BY <3>2, <4>1
    <3>5. ASSUME NEW d \in Socket, Add(d) \/ Subscribe(d)
          PROVE  Kept \/ replay'[c][r].rows = {}
      <4>1. CASE replay' = replay
        BY <4>1
      <4>2. CASE \E after \in Resumable : BeginReplay(d, after)
        <5>1. PICK after \in Resumable : BeginReplay(d, after)
          BY <4>2
        <5>2. after \in Nat
          BY <1>1 DEF Resumable
        <5>3. replay'[c][r] \in {replay[c][r], [phase |-> "query", after |-> after, rows |-> {}]}
          BY <1>1, <5>1, <5>2, ReplayBegins
        <5> QED
          BY <5>3
      <4> QED
        BY <3>5, <4>1, <4>2 DEF Add, Subscribe
    <3>6. ASSUME NEW d \in Socket, NEW s \in Slot, ReadReplay(d, s), ~(d = c /\ s = r)
          PROVE  Kept
      BY <3>6, ReadShape
    <3>7. ASSUME NEW d \in Socket, NEW s \in Slot, EndReplay(d, s)
          PROVE  Kept \/ replay'[c][r].rows = {}
      BY <3>7, EndShape DEF NoReplay
    <3>8. ASSUME \/ Start \/ Heartbeat \/ StartFlush \/ ReadFlush \/ Broadcast
                 \/ \E d \in Socket : \/ Ping(d) \/ BadMessage(d) \/ PeerDies(d) \/ Pong(d)
                                      \/ Drain(d) \/ Closed(d)
          PROVE  Kept
      BY <3>8 DEF Start, Heartbeat, StartFlush, ReadFlush, Broadcast, Ping, BadMessage,
        PeerDies, Pong, Drain, Closed
    <3> HIDE DEF Kept
    <3> QED
      BY <1>6, <3>1, <3>2, <3>3, <3>4, <3>5, <3>6, <3>7, <3>8 DEF Next, Client
  <2> QED
    BY <2>1, <2>2 DEF ReadsArePrefixes
<1> QED
  BY <1>4, <1>6

LEMMA QuietNext == HubInv /\ Next => StoppedIsQuiet'
<1> SUFFICES ASSUME HubInv, Next, ~running' PROVE StoppedIsQuiet'
  BY DEF StoppedIsQuiet
<1> USE DEF clientVars, history
<1>1. TypeOK /\ StoppedIsQuiet
  BY DEF HubInv
<1>2. CASE Stop
  <2>1. flush' = NoFlush /\ Forget(Clients)
    BY <1>2 DEF Stop
  <2>2. ASSUME NEW c \in Socket PROVE status'[c] \in {"new", "gone"}
    <3>1. status'[c] = IF c \in Clients THEN "gone" ELSE status[c]
      BY <2>1 DEF Forget
    <3>2. c \in Clients \/ status[c] \in {"new", "gone"}
      BY <1>1 DEF Clients, TypeOK
    <3> QED
      BY <3>1, <3>2
  <2> QED
    BY <2>1, <2>2 DEF StoppedIsQuiet
<1>3. CASE ~Stop
  <2>1. ~running
    BY <1>3 DEF Next, Publish, Start, Heartbeat, StartFlush, ReadFlush, Broadcast, Client, Add,
      Subscribe, Ping, BadMessage, Closed, PeerDies, Pong, Drain, ReadReplay, EndReplay
  <2>2. flush = NoFlush /\ (\A c \in Socket : status[c] \in {"new", "gone"}) /\ Clients = {}
    BY <1>1, <2>1 DEF StoppedIsQuiet, Clients
  <2>3. flush.phase = "idle"
    BY <2>2 DEF NoFlush
  <2>4. ASSUME NEW c \in Socket, NEW r \in Slot, EndReplay(c, r)
        PROVE  flush' = flush /\ status' = status
    <3>1. /\ flush' = flush
          /\ \A d \in Socket :
               status'[d] = status[d] \/ (status[d] = "open" /\ status'[d] = "closing")
      BY <2>4, EndSends
    <3>2. status' \in [Socket -> {"new", "open", "closing", "gone"}]
      BY TypesNext DEF TypeOK
    <3> QED
      BY <1>1, <2>2, <3>1, <3>2 DEF TypeOK
  <2>5. flush' = flush /\ status' = status
    <3>1. ~Start /\ ~Heartbeat /\ ~StartFlush /\ ~ReadFlush /\ ~Broadcast
      BY <2>1, <2>3 DEF Start, Heartbeat, StartFlush, ReadFlush, Broadcast
    <3>2. ASSUME NEW c \in Socket, Client(c) PROVE flush' = flush /\ status' = status
      <4>1. /\ ~Add(c) /\ ~Subscribe(c) /\ ~Ping(c) /\ ~BadMessage(c)
            /\ ~Closed(c) /\ ~PeerDies(c) /\ ~Pong(c)
        BY <2>1, <2>2 DEF Add, Subscribe, Ping, BadMessage, Closed, PeerDies, Pong
      <4>2. CASE Drain(c)
        BY <4>2 DEF Drain
      <4>3. ASSUME NEW r \in Slot, ReadReplay(c, r) PROVE flush' = flush /\ status' = status
        BY <4>3 DEF ReadReplay
      <4> QED
        BY <2>4, <3>2, <4>1, <4>2, <4>3 DEF Client
    <3>3. CASE Publish
      BY <3>3 DEF Publish
    <3> QED
      BY <1>3, <3>1, <3>2, <3>3 DEF Next
  <2> QED
    BY <2>2, <2>5 DEF StoppedIsQuiet
<1> QED
  BY <1>2, <1>3

\* A step that leaves rows, marks and histories of the open sockets alone.
LEMMA KnownStutters ==
  ASSUME ReachedIsKnown, UNCHANGED <<outbox, latest, replay>>,
         \A c \in Socket : status'[c] = "open" =>
           /\ status[c] = "open" /\ lastId'[c] = lastId[c] /\ claim'[c] = claim[c]
           /\ sent'[c] = sent[c] /\ resync'[c] = resync[c]
  PROVE  ReachedIsKnown'
BY DEF ReachedIsKnown, Reached, Known

LEMMA KnownNext == HubInv /\ Next => ReachedIsKnown'
<1> SUFFICES ASSUME HubInv, Next PROVE ReachedIsKnown'
  OBVIOUS
<1> USE DEF clientVars, history
<1>1. /\ TypeOK /\ MarksInLog /\ ReadsArePrefixes /\ StoppedIsQuiet /\ ReachedIsKnown
      /\ outbox \in SUBSET Nat /\ IsFiniteSet(outbox) /\ latest \in Nat
  BY DEF HubInv, TypeOK
<1>2. TypeOK'
  BY TypesNext
<1>3. CASE Publish
  <2>1. PICK id \in Nat \ {0} :
           /\ outbox' = outbox \cup {id}
           /\ \A x : InLog(x) => x < id
           /\ UNCHANGED <<latest, status, lastId, replay, claim, sent, resync>>
    BY <1>3, PublishedIsAhead
  <2>2. ASSUME NEW c \in Socket PROVE ~Reached(c, id)
    <3>1. /\ latest < id /\ lastId[c] < id
          /\ \A r \in Slot : replay[c][r].after < id
      BY <1>1, <2>1 DEF MarksInLog
    <3>2. /\ latest \in Nat /\ lastId[c] \in Nat
          /\ \A r \in Slot : replay[c][r].after \in Nat
      BY <1>1 DEF TypeOK, ReplayType
    <3> QED
      BY <2>1, <3>1, <3>2 DEF Reached
  <2>3. \A c \in Socket : \A k : Reached(c, k)' = Reached(c, k) /\ Known(c, k)' = Known(c, k)
    BY <2>1 DEF Reached, Known
  <2> QED
    BY <1>1, <2>1, <2>2, <2>3 DEF ReachedIsKnown
<1>4. CASE Start
  <2>1. \A c \in Socket : status'[c] # "open"
    BY <1>1, <1>4 DEF Start, StoppedIsQuiet
  <2> QED
    BY <2>1 DEF ReachedIsKnown
<1>5. CASE Stop
  <2>1. \A c \in Socket : status'[c] = IF c \in Clients THEN "gone" ELSE status[c]
    BY <1>5 DEF Stop, Forget
  <2>2. \A c \in Socket : status'[c] # "open"
    BY <2>1 DEF Clients
  <2> QED
    BY <2>2 DEF ReachedIsKnown
<1>6. ASSUME NEW gone, Forget(gone), UNCHANGED <<outbox, latest, replay>>
      PROVE  ReachedIsKnown'
  <2>1. ASSUME NEW c \in Socket, status'[c] = "open"
        PROVE  /\ status[c] = "open" /\ lastId'[c] = lastId[c] /\ claim'[c] = claim[c]
               /\ sent'[c] = sent[c] /\ resync'[c] = resync[c]
    <3>1. c \notin gone
      BY <1>6, <2>1 DEF Forget
    <3> QED
      BY <1>1, <1>6, <2>1, <3>1, ForgetTypes
  <2> QED
    BY <1>1, <1>6, <2>1, KnownStutters
<1>7. CASE StartFlush \/ ReadFlush
  BY <1>1, <1>7, KnownStutters DEF StartFlush, ReadFlush
<1>8. CASE Broadcast
  <2> SUFFICES ASSUME NEW c \in Socket, status'[c] = "open", ~resync'[c],
                      NEW id \in outbox', claim'[c] < id, Reached(c, id)'
               PROVE  Known(c, id)'
    BY DEF ReachedIsKnown
  <2>1. /\ outbox' = outbox /\ replay' = replay /\ claim' = claim /\ resync' = resync
        /\ latest' = latest \/ latest' \in flush.rows
        /\ sent[c] \subseteq sent'[c]
        /\ lastId'[c] = lastId[c] \/ lastId'[c] \in Due(c)
        /\ status[c] = "open" /\ Due(c) \subseteq sent'[c]
    BY <1>8, BroadcastShape
  <2>2. Reached(c, id) => Known(c, id)
    BY <1>1, <2>1 DEF ReachedIsKnown
  <2>3. Known(c, id) => Known(c, id)'
    BY <2>1 DEF Known
  <2>4. ASSUME id \in flush.rows PROVE Known(c, id)'
    <3>1. id \in Due(c) \/ id <= lastId[c]
      <4>1. id \in Nat /\ lastId[c] \in Nat
        BY <1>1, <2>1 DEF TypeOK
      <4> QED
        BY <2>4, <4>1 DEF Due, After
    <3> QED
      BY <2>1, <2>2, <2>3, <3>1 DEF Reached, Known
  <2>5. ASSUME NEW mark \in flush.rows, id <= mark
        PROVE  id <= latest \/ id \in flush.rows
    <3>1. mark \in Nat /\ id \in Nat /\ latest \in Nat
      BY <1>1, <2>1, RowsFinite
    <3>2. latest < id /\ id < mark => id \in flush.rows
      BY <1>1, <2>1 DEF ReadsArePrefixes, Prefix
    <3> QED
      BY <2>5, <3>1, <3>2
  <2>6. CASE Reached(c, id)
    BY <2>2, <2>3, <2>6
  <2>7. CASE ~Reached(c, id)
    <3>1. \E mark \in flush.rows : id <= mark
      BY <2>1, <2>7 DEF Reached, Due, After
    <3>2. id \in flush.rows
      BY <2>5, <2>7, <3>1 DEF Reached
    <3> QED
      BY <2>4, <3>2
  <2> QED
    BY <2>6, <2>7
<1>9. ASSUME NEW d \in Socket, \/ Ping(d) \/ BadMessage(d) \/ PeerDies(d) \/ Pong(d) \/ Drain(d)
                               \/ (Add(d) /\ Full)
      PROVE  ReachedIsKnown'
  <2>1. /\ \A c \in Socket : status'[c] = "open" => status[c] = "open"
        /\ UNCHANGED <<outbox, latest, replay, claim, sent>>
    BY <1>1, <1>9 DEF Ping, BadMessage, PeerDies, Pong, Drain, Add, TypeOK
  <2> QED
    BY <1>1, <1>9, <2>1, KnownStutters DEF Ping, BadMessage, PeerDies, Pong, Drain, Add, TypeOK
<1>10. ASSUME NEW d \in Socket, NEW after \in Resumable, BeginReplay(d, after),
              \A c \in Socket \ {d} : status'[c] = status[c] /\ lastId'[c] = lastId[c],
              UNCHANGED <<outbox, latest, sent>>
       PROVE  ReachedIsKnown'
  <2> SUFFICES ASSUME NEW c \in Socket, status'[c] = "open", ~resync'[c],
                      NEW id \in outbox', claim'[c] < id, Reached(c, id)'
               PROVE  Known(c, id)'
    BY DEF ReachedIsKnown
  <2>1. after \in Nat
    BY <1>1 DEF Resumable
  <2>2. /\ claim'[d] = after
        /\ \A e \in Socket \ {d} : /\ claim'[e] = claim[e] /\ resync'[e] = resync[e]
                                   /\ replay'[e] = replay[e]
        /\ \/ resync'[d]
           \/ \E s \in Slot : replay'[d][s] = [phase |-> "query", after |-> after, rows |-> {}]
    BY <1>1, <1>10, <2>1, ReplayBegins
  <2>3. CASE c = d
    <3>1. PICK s \in Slot : replay'[c][s] = [phase |-> "query", after |-> after, rows |-> {}]
      BY <2>2, <2>3
    <3>2. Promised(replay'[c][s], id)
      BY <2>2, <2>3, <3>1 DEF Promised
    <3> QED
      BY <3>2 DEF Known, Promised, TooMany
  <2>4. CASE c # d
    <3>1. Reached(c, id) /\ status[c] = "open" /\ ~resync[c] /\ claim[c] < id /\ id \in outbox
      BY <1>10, <2>2, <2>4 DEF Reached
    <3>2. Known(c, id)
      BY <1>1, <3>1 DEF ReachedIsKnown
    <3> QED
      BY <1>10, <2>2, <2>4, <3>2 DEF Known, Promised, TooMany
  <2> QED
    BY <2>3, <2>4
<1>11. ASSUME NEW d \in Socket, NEW r \in Slot, ReadReplay(d, r) PROVE ReachedIsKnown'
  <2> SUFFICES ASSUME NEW c \in Socket, status'[c] = "open", ~resync'[c],
                      NEW id \in outbox', claim'[c] < id, Reached(c, id)'
               PROVE  Known(c, id)'
    BY DEF ReachedIsKnown
  <2> DEFINE rows == First(After(outbox, replay[d][r].after), ReplayLimit)
  <2>1. /\ replay[d][r].phase = "query" /\ replay'[d][r].phase = "rows"
        /\ replay'[d][r].after = replay[d][r].after
        /\ replay'[d][r].rows = rows
        /\ \A e \in Socket : \A s \in Slot :
             (e = d /\ s = r) \/ replay'[e][s] = replay[e][s]
    BY <1>11, ReadShape
  <2>2. UNCHANGED <<outbox, latest, status, lastId, claim, sent, resync>>
    BY <1>11 DEF ReadReplay
  <2>3. Reached(c, id)
    <3>1. ASSUME NEW s \in Slot, replay'[c][s].phase # "idle", id <= replay'[c][s].after
          PROVE  replay[c][s].phase # "idle" /\ id <= replay[c][s].after
      BY <2>1, <3>1
    <3> QED
      BY <2>2, <3>1 DEF Reached
  <2>4. Known(c, id)
    BY <1>1, <2>2, <2>3 DEF ReachedIsKnown
  <2>5. ASSUME Promised(replay[d][r], id), c = d PROVE Promised(replay'[d][r], id)
    <3>1. replay[d][r].after < id
      BY <2>1, <2>5 DEF Promised
    <3>2. CASE TooMany(rows)
      BY <2>1, <3>2 DEF Promised
    <3>3. CASE ~TooMany(rows)
      <4> DEFINE S == After(outbox, replay[d][r].after)
      <4>1. S \in SUBSET Nat /\ IsFiniteSet(S)
        BY <1>1, AfterFinite
      <4>2. IsFiniteSet(rows) /\ Cardinality(rows) \in Nat
        BY <4>1, FirstFinite, FS_CardinalityType
      <4>3. ReplayLimit \in Int /\ Cardinality(rows) < ReplayLimit
        <5> HIDE DEF rows
        <5> QED
          BY <3>3, <4>2, HubAssumption DEF TooMany, ReplayLimit
      <4>4. rows = S
        BY <4>1, <4>3, FirstAll
      <4>5. id \in S
        BY <2>2, <3>1 DEF After
      <4>6. id \in replay'[d][r].rows
        BY <2>1, <4>4, <4>5
      <4> QED
        BY <2>1, <4>6 DEF Promised
    <3> QED
      BY <3>2, <3>3
  <2>6. ASSUME NEW s \in Slot, Promised(replay[c][s], id) PROVE Promised(replay'[c][s], id)
    <3>1. CASE c = d /\ s = r
      BY <2>5, <2>6, <3>1
    <3>2. CASE ~(c = d /\ s = r)
      <4>1. replay'[c][s] = replay[c][s]
        BY <2>1, <3>2
      <4> QED
        BY <2>6, <4>1
    <3> QED
      BY <3>1, <3>2
  <2>7. \A s \in Slot : Promised(replay'[c][s], id) = Promised(replay[c][s], id)'
    BY DEF Promised, TooMany
  <2> QED
    BY <2>2, <2>4, <2>6, <2>7 DEF Known
<1>12. ASSUME NEW d \in Socket, NEW r \in Slot, EndReplay(d, r) PROVE ReachedIsKnown'
  <2> SUFFICES ASSUME NEW c \in Socket, status'[c] = "open", ~resync'[c],
                      NEW id \in outbox', claim'[c] < id, Reached(c, id)'
               PROVE  Known(c, id)'
    BY DEF ReachedIsKnown
  <2> DEFINE rows == replay[d][r].rows
             after == replay[d][r].after
  <2>1. /\ outbox' = outbox /\ latest' = latest /\ claim' = claim
        /\ sent[c] \subseteq sent'[c]
        /\ lastId'[c] = lastId[c] \/ (c = d /\ lastId'[c] \in rows)
        /\ status[c] = "open" /\ ~resync[c]
        /\ c = d => ~TooMany(rows) /\ rows \subseteq sent'[c]
    BY <1>12, EndSends
  <2>2. /\ replay[d][r].phase = "rows" /\ replay'[d][r] = NoReplay
        /\ \A e \in Socket : \A s \in Slot :
             (e = d /\ s = r) \/ replay'[e][s] = replay[e][s]
    BY <1>12, EndShape
  <2>3. \A s \in Slot : Promised(replay'[c][s], id) = Promised(replay[c][s], id)'
    BY DEF Promised, TooMany
  <2>4. Known(c, id) => Known(c, id)'
    <3>1. ASSUME NEW s \in Slot, Promised(replay[c][s], id)
          PROVE  id \in sent'[c] \/ Promised(replay'[c][s], id)
      <4>1. CASE c = d /\ s = r
        <5>1. id \in rows
          BY <2>1, <2>2, <3>1, <4>1 DEF Promised
        <5> QED
          BY <2>1, <4>1, <5>1
      <4>2. CASE ~(c = d /\ s = r)
        <5>1. replay'[c][s] = replay[c][s]
          BY <2>2, <4>2
        <5> QED
          BY <3>1, <5>1
      <4> QED
        BY <4>1, <4>2
    <3> QED
      BY <2>1, <2>3, <3>1 DEF Known
  <2>5. CASE Reached(c, id)
    <3>1. Known(c, id)
      BY <1>1, <2>1, <2>5 DEF ReachedIsKnown
    <3> QED
      BY <2>4, <3>1
  <2>6. CASE ~Reached(c, id)
    <3>1. c = d /\ lastId'[c] \in rows /\ id <= lastId'[c]
      <4>1. ASSUME NEW s \in Slot, replay'[c][s].phase # "idle", id <= replay'[c][s].after
            PROVE  FALSE
        <5>1. replay'[c][s] = replay[c][s]
          BY <2>2, <4>1 DEF NoReplay
        <5> QED
          BY <2>6, <4>1, <5>1 DEF Reached
      <4>2. id <= lastId'[c]
        BY <2>1, <2>6, <4>1 DEF Reached
      <4> QED
        BY <2>1, <2>6, <4>2 DEF Reached
    <3>2. after < id
      <4>1. after \in Nat /\ id \in Nat
        BY <1>1, <2>1 DEF TypeOK, ReplayType
      <4> QED
        BY <2>2, <2>6, <3>1, <4>1 DEF Reached
    <3>3. id \in rows
      <4>1. lastId'[c] \in Nat /\ id \in Nat
        BY <1>1, <1>2, <2>1 DEF TypeOK
      <4>2. id < lastId'[c] => id \in rows
        BY <1>1, <2>1, <3>1, <3>2 DEF ReadsArePrefixes, Prefix
      <4> QED
        BY <3>1, <4>1, <4>2
    <3> QED
      BY <2>1, <3>1, <3>3 DEF Known
  <2> QED
    BY <2>5, <2>6
<1>13. ASSUME NEW d \in Socket, (Add(d) /\ ~Full) \/ Subscribe(d) PROVE ReachedIsKnown'
  <2>1. PICK after \in Resumable :
          /\ BeginReplay(d, after)
          /\ \A c \in Socket \ {d} : status'[c] = status[c] /\ lastId'[c] = lastId[c]
    BY <1>1, <1>13 DEF Add, Subscribe, TypeOK
  <2>2. UNCHANGED <<outbox, latest, sent>>
    BY <1>13 DEF Add, Subscribe
  <2> QED
    BY <1>10, <2>1, <2>2
<1>14. ASSUME NEW d \in Socket, Closed(d) PROVE ReachedIsKnown'
  BY <1>6, <1>14 DEF Closed
<1>15. CASE Heartbeat
  BY <1>6, <1>15 DEF Heartbeat
<1> QED
  BY <1>3, <1>4, <1>5, <1>7, <1>8, <1>9, <1>11, <1>12, <1>13, <1>14, <1>15 DEF Next, Client

LEMMA StepInv == HubInv /\ [Next]_vars => HubInv'
<1> SUFFICES ASSUME HubInv, [Next]_vars PROVE HubInv'
  OBVIOUS
<1>1. CASE Next
  BY <1>1, TypesNext, MarksNext, ReadsNext, QuietNext, KnownNext DEF HubInv
<1>2. CASE UNCHANGED vars
  BY <1>2 DEF vars, clientVars, history, HubInv, TypeOK, MarksInLog, InLog, ReadsArePrefixes,
    Prefix, StoppedIsQuiet, ReachedIsKnown, Reached, Known, Promised, TooMany
<1> QED
  BY <1>1, <1>2

LEMMA InvHolds == Spec => []HubInv
BY InitInv, StepInv, PTL DEF Spec

----------------------------------------------------------------------------
(* Theorems *)

\* Every variable has its type at all times: no send buffer of
\* MarketRealtimeHub.send is filled beyond its limit by more than one event.
THEOREM TypesHold == Spec => []TypeOK
<1>1. HubInv => TypeOK
  BY DEF HubInv
<1> QED
  BY <1>1, InvHolds, PTL

\* However replays overlap with each other and with flush, a client whose
\* replays are over has been sent every event up to the last broadcast that
\* it did not have, or was told to start over.
THEOREM HandOverLosesNothing == Spec => []NothingMissed
<1>1. HubInv => NothingMissed
  BY DEF HubInv, ReachedIsKnown, NothingMissed, Reached, Known, Promised, Replaying, NoReplay
<1> QED
  BY <1>1, InvHolds, PTL

\* The lastEventId by which flush skips a client is backed by what the
\* client was sent, even after a replay has moved it back.
THEOREM SkippedIsKnown == Spec => []SkipsOnlyKnown
<1>1. HubInv => SkipsOnlyKnown
  BY DEF HubInv, ReachedIsKnown, SkipsOnlyKnown, Reached, Known, Promised, Replaying, NoReplay
<1> QED
  BY <1>1, InvHolds, PTL

\* The capacity check counts the sockets that were told to close and are not
\* closed yet: there are never more connections than maxClients.
THEOREM ConnectionsBounded == Spec => []ClientsWithinLimit
<1> DEFINE Bounded == IsFiniteSet(Clients) /\ ClientsWithinLimit
<1>1. Init => Bounded
  <2> SUFFICES ASSUME Init PROVE Bounded
    OBVIOUS
  <2>1. Clients = {}
    BY DEF Init, Clients
  <2> QED
    BY <2>1, FS_EmptySet, HubAssumption DEF ClientsWithinLimit
<1>2. HubInv /\ Bounded /\ [Next]_vars => Bounded'
  <2> SUFFICES ASSUME HubInv, Bounded, [Next]_vars PROVE Bounded'
    OBVIOUS
  <2> USE DEF clientVars, history
  <2>1. ASSUME Clients' \subseteq Clients PROVE Bounded'
    <3>1. IsFiniteSet(Clients') /\ Cardinality(Clients') <= Cardinality(Clients)
      BY <2>1, FS_Subset
    <3>2. Cardinality(Clients') \in Nat /\ Cardinality(Clients) \in Nat
      BY <3>1, FS_CardinalityType
    <3> QED
      BY <3>1, <3>2, HubAssumption DEF ClientsWithinLimit
  <2>2. ASSUME NEW c \in Socket, Add(c), ~Full PROVE Bounded'
    <3>1. Clients' \subseteq Clients \cup {c}
      BY <2>2 DEF Add, Clients, HubInv, TypeOK
    <3>2. Cardinality(Clients) \in Nat
      BY FS_CardinalityType
    <3>3. Cardinality(Clients) + 1 <= MaxClients
      BY <2>2, <3>2, HubAssumption DEF Full
    <3>4. /\ IsFiniteSet(Clients \cup {c})
          /\ Cardinality(Clients \cup {c}) <= Cardinality(Clients) + 1
      BY <3>2, FS_AddElement
    <3>5. IsFiniteSet(Clients') /\ Cardinality(Clients') <= Cardinality(Clients \cup {c})
      BY <3>1, <3>4, FS_Subset
    <3>6. Cardinality(Clients') \in Nat /\ Cardinality(Clients \cup {c}) \in Nat
      BY <3>4, <3>5, FS_CardinalityType
    <3> QED
      BY <3>2, <3>3, <3>4, <3>5, <3>6, HubAssumption DEF ClientsWithinLimit
  <2>3. ASSUME \A d \in Socket : status'[d] \in {"open", "closing"} =>
                                   status[d] \in {"open", "closing"}
        PROVE  Clients' \subseteq Clients
    BY <2>3 DEF Clients
  <2>4. ASSUME NEW gone, Forget(gone) PROVE Clients' \subseteq Clients
    BY <2>3, <2>4 DEF Forget
  <2>5. CASE Broadcast
    BY <2>1, <2>3, <2>5, BroadcastShape
  <2>6. ASSUME NEW c \in Socket, NEW r \in Slot, EndReplay(c, r) PROVE Bounded'
    BY <2>1, <2>3, <2>6, EndSends
  <2>7. CASE Stop \/ Heartbeat \/ \E c \in Socket : Closed(c)
    BY <2>1, <2>4, <2>7 DEF Stop, Heartbeat, Closed
  <2>8. ASSUME NEW c \in Socket,
               \/ (Add(c) /\ Full) \/ Subscribe(c) \/ Ping(c) \/ BadMessage(c) \/ PeerDies(c)
               \/ Pong(c) \/ Drain(c) \/ \E r \in Slot : ReadReplay(c, r)
        PROVE  Bounded'
    BY <2>1, <2>3, <2>8 DEF Add, Subscribe, Ping, BadMessage, PeerDies, Pong, Drain,
      ReadReplay, AfterControl, HubInv, TypeOK
  <2>9. CASE Publish \/ Start \/ StartFlush \/ ReadFlush \/ UNCHANGED vars
    BY <2>1, <2>3, <2>9 DEF Publish, Start, StartFlush, ReadFlush, vars
  <2> QED
    BY <2>2, <2>5, <2>6, <2>7, <2>8, <2>9 DEF Next, Client
<1>3. Bounded => ClientsWithinLimit
  OBVIOUS
<1> QED
  BY <1>1, <1>2, <1>3, InvHolds, PTL DEF Spec
============================================================================
