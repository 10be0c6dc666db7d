---------------------------- MODULE FeedProofs ----------------------------
(***************************************************************************)
(* The theorems about the two ends of the feed: the EventStream of the     *)
(* server, for any number of streams and events, and the MarketFeed of the *)
(* client, for any number of markets and events.                           *)
(*                                                                         *)
(* The stream rests on one fact about a poll that waits for its rows: what *)
(* it has read is what follows the cursor, without a hole.  The client     *)
(* takes the stream as loose as it can be and rests on another: an answer  *)
(* on its way that is too old already has the next request behind it.      *)
(***************************************************************************)
EXTENDS EventStream, MarketFeed, FiniteSetTheorems, WellFoundedInduction, TLAPS

----------------------------------------------------------------------------
(* Reading the outbox *)

\* A finite set of naturals that is not empty has a highest element.
LEMMA HighestExists ==
  ASSUME NEW S \in SUBSET Nat, IsFiniteSet(S), S # {}
  PROVE  Highest(S) \in S /\ \A y \in S : y <= Highest(S)
<1> DEFINE Above(x) == { y \in S : x < y }
           Family == { Above(x) : x \in S }
           R == StrictSubsetOrdering(S)
<1>1. Family \subseteq FiniteSubsetsOf(S)
  <2>1. ASSUME NEW x \in S PROVE Above(x) \in FiniteSubsetsOf(S)
    <3>1. IsFiniteSet(Above(x))
      BY FS_Subset
    <3> QED
      BY <3>1 DEF FiniteSubsetsOf
  <2> QED
    BY <2>1
<1>2. Family # {}
  OBVIOUS
<1>3. PICK A \in Family : \A B \in Family : ~ (<<B, A>> \in R)
  <2> HIDE DEF Family, R
  <2>1. IsWellFoundedOn(StrictSubsetOrdering(S), FiniteSubsetsOf(S))
    BY FS_StrictSubsetOrderingWellFounded
  <2>2. \E A \in Family : \A B \in Family : ~ (<<B, A>> \in R)
    BY <1>1, <1>2, <2>1, WFMin DEF R
  <2> QED
    BY <2>2
<1>4. PICK x \in S : A = Above(x)
  OBVIOUS
<1>5. ASSUME NEW y \in S, x < y PROVE FALSE
  <2>1. x \in Nat /\ y \in Nat /\ \A k \in S : k \in Nat
    OBVIOUS
  <2>2. ~ (y < y) /\ \A k \in S : y < k => x < k
    BY <1>5, <2>1
  <2>3. Above(y) \subseteq Above(x) /\ y \in Above(x) /\ y \notin Above(y)
    BY <1>5, <2>2
  <2>4. <<Above(y), Above(x)>> \in R
    BY <2>3 DEF StrictSubsetOrdering
  <2> QED
    BY <2>4, <1>3, <1>4
<1>6. \A y \in S : y <= x
  BY <1>5
<1> QED
  BY <1>6 DEF Highest

\* LIMIT n takes a part of the rows.
LEMMA FirstSubset ==
  ASSUME NEW S, NEW n
  PROVE  First(S, n) \subseteq S
BY DEF First

\* Whatever is ahead of a row that is taken is taken as well.
LEMMA FirstDownward ==
  ASSUME NEW S \in SUBSET Nat, IsFiniteSet(S), NEW n \in Int,
         NEW id \in First(S, n), NEW j \in S, j < id
  PROVE  j \in First(S, n)
<1> DEFINE Below(x) == { k \in S : k < x }
<1>1. id \in S /\ Cardinality(Below(id)) < n
  BY DEF First
<1>2. IsFiniteSet(Below(id))
  BY FS_Subset
<1>3. Below(j) \in SUBSET Below(id)
  <2>1. j \in Nat /\ id \in Nat /\ \A k \in S : k \in Nat
    BY <1>1
  <2>2. \A k \in S : k < j => k < id
    BY <2>1
  <2> QED
    BY <2>2
<1>4. Cardinality(Below(j)) <= Cardinality(Below(id)) /\ IsFiniteSet(Below(j))
  BY <1>2, <1>3, FS_Subset
<1>5. Cardinality(Below(j)) \in Nat /\ Cardinality(Below(id)) \in Nat
  BY <1>2, <1>4, FS_CardinalityType
<1>6. Cardinality(Below(j)) < n
  BY <1>1, <1>4, <1>5
<1> QED
  BY <1>6 DEF First

\* The rows a read takes are finite in number, and are ids.
LEMMA FirstFinite ==
  ASSUME NEW S \in SUBSET Nat, IsFiniteSet(S), NEW n
  PROVE  First(S, n) \in SUBSET Nat /\ IsFiniteSet(First(S, n))
BY FirstSubset, FS_Subset

\* LIMIT n takes at most n rows.
LEMMA FirstBounded ==
  ASSUME NEW S \in SUBSET Nat, IsFiniteSet(S), NEW n \in Nat
  PROVE  Cardinality(First(S, n)) <= n
<1> DEFINE T == First(S, n)
           h == Highest(T)
           Below == { k \in S : k < h }
<1>1. T \in SUBSET S /\ IsFiniteSet(T)
  BY FirstSubset, FS_Subset
<1>2. CASE T = {}
  BY <1>2, FS_EmptySet
<1>3. CASE T # {}
  <2>1. h \in T /\ \A y \in T : y <= h
    BY <1>1, <1>3, HighestExists
  <2>2. IsFiniteSet(Below) /\ Cardinality(Below) < n
    BY <2>1, FS_Subset DEF First
  <2>3. h \in Nat /\ \A y \in T : y \in Nat
    BY <1>1, <2>1
  <2>4. \A y \in T : y = h \/ y < h
    <3> HIDE DEF T, h
    <3> QED
      BY <2>1, <2>3
  <2>5. T \in SUBSET (Below \cup {h})
    BY <1>1, <2>4
  <2>6. IsFiniteSet(Below \cup {h}) /\ Cardinality(Below \cup {h}) <= Cardinality(Below) + 1
    <3>1. Cardinality(Below) \in Nat
      BY <2>2, FS_CardinalityType
    <3> HIDE DEF Below, h
    <3> QED
      BY <2>2, <3>1, FS_AddElement
  <2>7. Cardinality(T) <= Cardinality(Below \cup {h})
    BY <2>5, <2>6, FS_Subset
  <2>8. /\ Cardinality(T) \in Nat /\ Cardinality(Below) \in Nat
        /\ Cardinality(Below \cup {h}) \in Nat
    BY <1>1, <2>2, <2>6, FS_CardinalityType
  <2> HIDE DEF T, h, Below
  <2>9. Cardinality(T) <= n
    BY <2>2, <2>6, <2>7, <2>8
  <2> QED
    BY <2>9 DEF T
<1> QED
  BY <1>2, <1>3

\* What follows an id is greater than it.
LEMMA AfterIds ==
  ASSUME NEW S \in SUBSET Nat, NEW x \in Nat, NEW j \in After(S, x)
  PROVE  j \in Nat /\ j \in S /\ x < j /\ ~ (j <= x)
<1>1. j \in S /\ x < j
  BY DEF After
<1>2. j \in Nat
  BY <1>1
<1> QED
  BY <1>1, <1>2

\* The same for the rows behind an id.
LEMMA AfterFinite ==
  ASSUME NEW S \in SUBSET Nat, IsFiniteSet(S), NEW x
  PROVE  After(S, x) \in SUBSET Nat /\ IsFiniteSet(After(S, x))
<1>1. After(S, x) \in SUBSET S
  BY DEF After
<1> QED
  BY <1>1, FS_Subset

----------------------------------------------------------------------------

\* The rows of a poll follow the cursor without a hole.
RowsFollow(c) ==
  /\ poll[c].rows \subseteq After(outbox, cursor[c])
  /\ \A id \in poll[c].rows : \A j \in After(outbox, cursor[c]) :
       j < id => j \in poll[c].rows

\* A stream that has not been opened is untouched.
Fresh(c) == state[c] = "new" => poll[c] = Idle /\ sent[c] = {}

\* The flag is what tells a stream whose place was given back.
FlagFits(c) ==
  /\ state[c] \in {"new", "open"} => ~released[c]
  /\ state[c] = "ended" => released[c]

StreamInv ==
  /\ TypeOK
  /\ \A c \in Stream :
       /\ RowsFollow(c) /\ Fresh(c) /\ FlagFits(c)
       /\ cursor[c] \in {0} \cup outbox
       /\ from[c] <= cursor[c]
  /\ NoGap /\ QueueBounded
  /\ IsFiniteSet(OpenStreams) /\ ActiveExact

USE DEF Idle, Query

LEMMA InitInv == Init => StreamInv
<1> SUFFICES ASSUME Init PROVE StreamInv
  OBVIOUS
<1>1. TypeOK
  BY StreamAssumption, FS_EmptySet DEF Init, TypeOK
<1>2. OpenStreams = {}
  BY DEF Init, OpenStreams
<1>3. IsFiniteSet(OpenStreams) /\ ActiveExact
  BY <1>2, FS_EmptySet DEF Init, ActiveExact
<1>4. NoGap
  BY DEF Init, NoGap
<1>5. \A c \in Stream : /\ RowsFollow(c) /\ Fresh(c) /\ FlagFits(c)
                        /\ cursor[c] \in {0} \cup outbox /\ from[c] <= cursor[c]
  BY DEF Init, RowsFollow, Fresh, FlagFits
<1>6. QueueBounded
  BY StreamAssumption DEF Init, QueueBounded
<1> QED
  BY <1>1, <1>3, <1>4, <1>5, <1>6 DEF StreamInv

\* What a poll reads follows the cursor without a hole.
LEMMA ReadFollows ==
  ASSUME StreamInv, NEW c \in Stream
  PROVE  LET got == First(After(outbox, cursor[c]), ReadLimit) IN
         /\ got \subseteq After(outbox, cursor[c])
         /\ got \in SUBSET Nat
         /\ \A id \in got : \A j \in After(outbox, cursor[c]) : j < id => j \in got
<1>1. After(outbox, cursor[c]) \in SUBSET Nat /\ IsFiniteSet(After(outbox, cursor[c]))
  BY AfterFinite DEF StreamInv, TypeOK
<1>2. ReadLimit \in Int
  BY StreamAssumption DEF ReadLimit
<1> QED
  BY <1>1, <1>2, FirstSubset, FirstDownward

\* The events that are sent are those between the old and the new cursor.
LEMMA SendsNext ==
  ASSUME StreamInv, NEW c \in Stream,
         NEW out, out = First(poll[c].rows, Room(c)), NEW next, next = CursorAfter(c, out)
  PROVE  /\ out \in SUBSET Nat /\ IsFiniteSet(out)
         /\ next \in Nat /\ next \in {0} \cup outbox
         /\ cursor[c] <= next
         /\ out = {} => next = cursor[c]
         /\ out # {} => next \in After(outbox, cursor[c])
         /\ out = { j \in After(outbox, cursor[c]) : j <= next }
         /\ Cardinality(out) <= Room(c)
<1> DEFINE got == poll[c].rows
<1>1. /\ outbox \in SUBSET Nat /\ IsFiniteSet(outbox)
      /\ cursor[c] \in Nat /\ got \in SUBSET Nat /\ queued[c] \in Nat
  BY DEF StreamInv, TypeOK
<1>2. RowsFollow(c) /\ cursor[c] \in {0} \cup outbox
  BY DEF StreamInv
<1>3. \A j \in After(outbox, cursor[c]) :
        j \in Nat /\ j \in outbox /\ cursor[c] \in Nat /\ cursor[c] < j /\ ~ (j <= cursor[c])
  <2>1. outbox \in SUBSET Nat /\ cursor[c] \in Nat
    BY <1>1
  <2> QED
    BY <2>1, AfterIds
<1>4. got \subseteq outbox /\ IsFiniteSet(got)
  <2>1. got \subseteq outbox
    BY <1>2 DEF RowsFollow, After
  <2> QED
    BY <1>1, <2>1, FS_Subset
<1>5. Room(c) \in Nat /\ Room(c) \in Int
  BY <1>1, StreamAssumption DEF Room
<1>6. out \subseteq got /\ out \in SUBSET Nat /\ IsFiniteSet(out)
  BY <1>1, <1>4, FirstSubset, FirstFinite
<1> Cardinality(out) <= Room(c)
  BY <1>1, <1>4, <1>5, FirstBounded
<1>7. CASE out = {}
  <2>1. next = cursor[c]
    BY <1>7 DEF CursorAfter
  <2>2. \A j \in After(outbox, cursor[c]) : ~ (j <= next)
    BY <1>3, <2>1
  <2> QED
    BY <1>1, <1>2, <1>6, <1>7, <2>1, <2>2
<1>8. CASE out # {}
  <2>1. next = Highest(out)
    BY <1>8 DEF CursorAfter
  <2>2. next \in out /\ \A j \in out : j <= next
    BY <1>6, <1>8, <2>1, HighestExists
  <2>3. next \in After(outbox, cursor[c])
    BY <1>2, <1>6, <2>2 DEF RowsFollow
  <2>4. next \in Nat /\ next \in outbox /\ cursor[c] <= next
    <3>1. next \in Nat /\ next \in outbox /\ cursor[c] \in Nat /\ cursor[c] < next
      BY <1>3, <2>3
    <3> QED
      BY <3>1
  <2>5. ASSUME NEW j \in After(outbox, cursor[c]), j <= next PROVE j \in out
    <3>1. j \in Nat
      BY <1>1 DEF After
    <3>2. CASE j = next
      BY <2>2, <3>2
    <3>3. CASE j < next
      <4>1. j \in got
        BY <1>2, <1>6, <2>2, <3>3 DEF RowsFollow
      <4> QED
        BY <1>1, <1>4, <1>5, <2>2, <3>3, <4>1, FirstDownward
    <3> QED
      BY <2>4, <2>5, <3>1, <3>2, <3>3
  <2>6. out \subseteq { j \in After(outbox, cursor[c]) : j <= next }
    BY <1>2, <1>6, <2>2 DEF RowsFollow
  <2> QED
    BY <1>6, <1>8, <2>3, <2>4, <2>5, <2>6
<1> QED
  BY <1>7, <1>8

\* The rows of a poll still follow the cursor when a row commits.
LEMMA PublishKeepsRows ==
  ASSUME StreamInv, NEW id \in Nat, MayAppend(outbox, id),
         outbox' = outbox \cup {id}, UNCHANGED <<cursor, poll>>
  PROVE  \A c \in Stream : RowsFollow(c)'
<1> SUFFICES ASSUME NEW c \in Stream PROVE RowsFollow(c)'
  OBVIOUS
<1>1. RowsFollow(c) /\ outbox \in SUBSET Nat /\ poll[c].rows \in SUBSET Nat
  BY DEF StreamInv, TypeOK
<1>2. \A k \in poll[c].rows : k \in outbox /\ k < id /\ ~ (id < k)
  BY <1>1 DEF RowsFollow, After, MayAppend
<1> QED
  BY <1>1, <1>2 DEF RowsFollow, After

\* What was sent is still everything up to the cursor when a row commits.
LEMMA PublishKeepsNoGap ==
  ASSUME StreamInv, NEW id \in 1..MaxId, MayAppend(outbox, id),
         outbox' = outbox \cup {id}, UNCHANGED <<cursor, from, sent>>
  PROVE  NoGap'
<1> SUFFICES ASSUME NEW c \in Stream
             PROVE  sent[c] = { k \in outbox' : from[c] < k /\ k <= cursor[c] }
  BY DEF NoGap
<1>1. /\ sent[c] = { k \in outbox : from[c] < k /\ k <= cursor[c] }
      /\ cursor[c] \in {0} \cup outbox /\ cursor[c] \in Nat
  BY DEF StreamInv, NoGap, TypeOK
<1>2. id \in Nat /\ 0 < id
  BY StreamAssumption
<1>3. cursor[c] < id
  BY <1>1, <1>2 DEF MayAppend
<1>4. ~ (id <= cursor[c])
  BY <1>1, <1>2, <1>3
<1> QED
  BY <1>1, <1>4

\* One more, or one fewer, open stream.
LEMMA OpenedCount ==
  ASSUME StreamInv, NEW c \in Stream, state[c] = "new",
         state' = [state EXCEPT ![c] = "open"], active' = active + 1
  PROVE  (IsFiniteSet(OpenStreams) /\ ActiveExact)'
<1>1. OpenStreams' = OpenStreams \cup {c} /\ c \notin OpenStreams
  BY DEF OpenStreams, StreamInv, TypeOK
<1> QED
  BY <1>1, FS_AddElement DEF StreamInv, ActiveExact

LEMMA ClosedCount ==
  ASSUME StreamInv, NEW c \in Stream, state[c] \in {"open", "ended"}, NEW s \in {"ended", "gone"},
         state' = [state EXCEPT ![c] = s], Release(c)
  PROVE  (IsFiniteSet(OpenStreams) /\ ActiveExact)' /\ active' \in Nat
<1>1. CASE state[c] = "open"
  <2>1. OpenStreams' = OpenStreams \ {c} /\ c \in OpenStreams
    BY <1>1 DEF OpenStreams, StreamInv, TypeOK
  <2>2. ~released[c]
    BY <1>1 DEF StreamInv, FlagFits
  <2>3. IsFiniteSet(OpenStreams') /\ Cardinality(OpenStreams') = Cardinality(OpenStreams) - 1
    BY <2>1, FS_RemoveElement DEF StreamInv
  <2>4. Cardinality(OpenStreams') \in Nat /\ Cardinality(OpenStreams) \in Nat
    BY <2>3, FS_CardinalityType DEF StreamInv
  <2>5. active = Cardinality(OpenStreams) /\ active > 0
    BY <2>3, <2>4 DEF StreamInv, ActiveExact
  <2>6. active' = active - 1
    BY <2>2, <2>5 DEF Release, Decremented
  <2> QED
    BY <2>3, <2>4, <2>5, <2>6 DEF ActiveExact
<1>2. CASE state[c] = "ended"
  <2>1. OpenStreams' = OpenStreams
    BY <1>2 DEF OpenStreams, StreamInv, TypeOK
  <2>2. released[c]
    BY <1>2 DEF StreamInv, FlagFits
  <2>3. active' = active
    BY <2>2 DEF Release
  <2> QED
    BY <2>1, <2>3 DEF StreamInv, ActiveExact, TypeOK
<1> QED
  BY <1>1, <1>2

\* The streams that are open stay the same.
LEMMA SameCount ==
  ASSUME StreamInv, OpenStreams' = OpenStreams, active' = active
  PROVE  (IsFiniteSet(OpenStreams) /\ ActiveExact)'
BY DEF StreamInv, ActiveExact

LEMMA StepInv == StreamInv /\ [Next]_vars => StreamInv'
<1> SUFFICES ASSUME StreamInv, [Next]_vars PROVE StreamInv'
  OBVIOUS
<1>0. TypeOK
  BY DEF StreamInv
<1>1. CASE Publish
  <2>1. PICK id \in 1..MaxId : MayAppend(outbox, id) /\ outbox' = outbox \cup {id}
    BY <1>1 DEF Publish
  <2>2. id \in Nat
    BY StreamAssumption
  <2>3. UNCHANGED <<active, state, released, cursor, poll, queued, noise, from, sent>>
    BY <1>1 DEF Publish
  <2>4. TypeOK'
    BY <1>0, <2>1, <2>2, <2>3, FS_AddElement DEF TypeOK
  <2>5. \A c \in Stream : RowsFollow(c)'
    BY <2>1, <2>2, <2>3, PublishKeepsRows
  <2>6. NoGap'
    BY <2>1, <2>3, PublishKeepsNoGap
  <2>7. (IsFiniteSet(OpenStreams) /\ ActiveExact)'
    BY <2>3, SameCount DEF OpenStreams
  <2>8. \A c \in Stream : /\ Fresh(c)' /\ FlagFits(c)'
                          /\ (cursor[c] \in {0} \cup outbox)' /\ (from[c] <= cursor[c])'
    BY <2>1, <2>3 DEF StreamInv, Fresh, FlagFits
  <2>9. QueueBounded'
    BY <2>3 DEF StreamInv, QueueBounded
  <2> QED
    BY <2>4, <2>5, <2>6, <2>7, <2>8, <2>9 DEF StreamInv
<1>2. ASSUME NEW c \in Stream, Connect(c) PROVE StreamInv'
  <2>1. PICK a \in {0} \cup outbox : /\ cursor' = [cursor EXCEPT ![c] = a]
                                     /\ from' = [from EXCEPT ![c] = a]
    BY <1>2 DEF Connect
  <2>2. a \in Nat
    BY <1>0 DEF TypeOK
  <2>3. TypeOK'
    BY <1>0, <1>2, <2>1, <2>2 DEF TypeOK, Connect
  <2>4. ~ \E id \in outbox : a < id /\ id <= a
    BY <1>0, <2>2 DEF TypeOK
  <2>5. sent[c] = {}
    BY <1>2 DEF Connect, StreamInv, Fresh
  <2>6. NoGap'
    <3> SUFFICES ASSUME NEW d \in Stream
                 PROVE  sent[d] = { id \in outbox : from'[d] < id /\ id <= cursor'[d] }
      BY <1>2 DEF NoGap, Connect
    <3>1. CASE d = c
      BY <1>0, <2>1, <2>4, <2>5, <3>1 DEF TypeOK
    <3>2. CASE d # c
      BY <1>0, <2>1, <3>2 DEF TypeOK, StreamInv, NoGap
    <3> QED
      BY <3>1, <3>2
  <2>7. (IsFiniteSet(OpenStreams) /\ ActiveExact)'
    BY <1>2, OpenedCount DEF Connect
  <2>8. \A d \in Stream : /\ RowsFollow(d)' /\ Fresh(d)' /\ FlagFits(d)'
                          /\ (cursor[d] \in {0} \cup outbox)' /\ (from[d] <= cursor[d])'
    BY <1>0, <1>2, <2>1, <2>2
       DEF StreamInv, TypeOK, Connect, RowsFollow, Fresh, FlagFits
  <2>9. QueueBounded'
    BY <1>0, <1>2, StreamAssumption DEF StreamInv, TypeOK, Connect, QueueBounded
  <2> QED
    BY <2>3, <2>6, <2>7, <2>8, <2>9 DEF StreamInv
<1>3. ASSUME NEW c \in Stream, Refuse(c) PROVE StreamInv'
  <2>1. TypeOK'
    BY <1>0, <1>3 DEF TypeOK, Refuse
  <2>2. OpenStreams' = OpenStreams
    BY <1>0, <1>3 DEF TypeOK, Refuse, OpenStreams
  <2>3. (IsFiniteSet(OpenStreams) /\ ActiveExact)'
    BY <1>3, <2>2, SameCount DEF Refuse
  <2>4. NoGap'
    BY <1>3 DEF StreamInv, NoGap, Refuse
  <2>5. \A d \in Stream : /\ RowsFollow(d)' /\ Fresh(d)' /\ FlagFits(d)'
                          /\ (cursor[d] \in {0} \cup outbox)' /\ (from[d] <= cursor[d])'
    BY <1>0, <1>3 DEF StreamInv, TypeOK, Refuse, RowsFollow, Fresh, FlagFits
  <2>6. QueueBounded'
    BY <1>0, <1>3, StreamAssumption DEF StreamInv, TypeOK, Refuse, QueueBounded
  <2> QED
    BY <2>1, <2>3, <2>4, <2>5, <2>6 DEF StreamInv
<1>4. ASSUME NEW c \in Stream,
             StartPoll(c) \/ Heartbeat(c) \/ FailRead(c) \/ DropRows(c) \/ Take(c)
      PROVE  StreamInv'
  <2> DEFINE Poll == [phase : {"idle", "query", "rows"}, rows : SUBSET Nat]
  <2>1. UNCHANGED <<outbox, active, state, released, cursor, from, sent>>
    BY <1>4 DEF StartPoll, Heartbeat, FailRead, DropRows, Take
  <2>2. /\ poll \in [Stream -> Poll] /\ queued \in [Stream -> Nat]
        /\ Idle \in Poll /\ Query \in Poll /\ noise \in 0..MaxNoise
    BY <1>0 DEF TypeOK
  <2>3. \/ poll' = poll
        \/ /\ state[c] # "new"
           /\ poll' = [poll EXCEPT ![c] = Idle] \/ poll' = [poll EXCEPT ![c] = Query]
    <3>1. CASE StartPoll(c)
      BY <3>1 DEF StartPoll
    <3>2. CASE Heartbeat(c)
      BY <2>2, <3>2 DEF Heartbeat
    <3>3. CASE FailRead(c)
      BY <3>3 DEF FailRead, StreamInv, Fresh
    <3>4. CASE DropRows(c)
      BY <3>4 DEF DropRows, StreamInv, Fresh
    <3>5. CASE Take(c)
      BY <3>5 DEF Take
    <3> QED
      BY <1>4, <3>1, <3>2, <3>3, <3>4, <3>5
  <2>4. poll' \in [Stream -> Poll]
    BY <2>2, <2>3
  <2>5. queued' \in [Stream -> Nat] /\ noise' \in 0..MaxNoise
    <3>1. CASE StartPoll(c) \/ DropRows(c)
      BY <2>2, <3>1 DEF StartPoll, DropRows
    <3>2. CASE Heartbeat(c) \/ FailRead(c)
      BY <2>2, <3>2, StreamAssumption DEF Heartbeat, FailRead
    <3>3. CASE Take(c)
      BY <2>2, <3>3 DEF Take
    <3> QED
      BY <1>4, <3>1, <3>2, <3>3
  <2>6. TypeOK'
    BY <1>0, <2>1, <2>4, <2>5 DEF TypeOK
  <2>7. \A d \in Stream : \/ poll'[d] = poll[d]
                          \/ state[d] # "new" /\ poll'[d].rows = {}
    BY <2>2, <2>3
  <2>8. NoGap'
    BY <2>1 DEF StreamInv, NoGap
  <2>9. (IsFiniteSet(OpenStreams) /\ ActiveExact)'
    BY <2>1, SameCount DEF OpenStreams
  <2>10. \A d \in Stream : RowsFollow(d)'
    <3> SUFFICES ASSUME NEW d \in Stream PROVE RowsFollow(d)'
      OBVIOUS
    <3>1. CASE poll'[d] = poll[d]
      BY <2>1, <3>1 DEF StreamInv, RowsFollow, After
    <3>2. CASE poll'[d].rows = {}
      BY <3>2 DEF RowsFollow
    <3> QED
      BY <2>7, <3>1, <3>2
  <2>11. \A d \in Stream : /\ Fresh(d)' /\ FlagFits(d)'
                           /\ (cursor[d] \in {0} \cup outbox)' /\ (from[d] <= cursor[d])'
    BY <2>1, <2>7 DEF StreamInv, Fresh, FlagFits
  <2>12. QueueBounded'
    <3>1. CASE Heartbeat(c)
      BY <1>0, <3>1, StreamAssumption DEF StreamInv, TypeOK, Heartbeat, Room, QueueBounded
    <3>2. CASE FailRead(c)
      BY <1>0, <3>2, StreamAssumption DEF StreamInv, TypeOK, FailRead, QueueBounded
    <3>3. CASE StartPoll(c) \/ DropRows(c) \/ Take(c)
      BY <1>0, <3>3, StreamAssumption
         DEF StreamInv, TypeOK, StartPoll, DropRows, Take, QueueBounded
    <3> QED
      BY <1>4, <3>1, <3>2, <3>3
  <2> QED
    BY <2>6, <2>8, <2>9, <2>10, <2>11, <2>12 DEF StreamInv
<1>5. ASSUME NEW c \in Stream, ReadRows(c) PROVE StreamInv'
  <2> DEFINE got == First(After(outbox, cursor[c]), ReadLimit)
  <2>1. /\ got \subseteq After(outbox, cursor[c])
        /\ got \in SUBSET Nat
        /\ \A id \in got : \A j \in After(outbox, cursor[c]) : j < id => j \in got
    BY ReadFollows
  <2> HIDE DEF got
  <2>2. /\ poll' = [poll EXCEPT ![c] = [phase |-> "rows", rows |-> got]]
        /\ UNCHANGED <<outbox, active, state, released, cursor, queued, noise, from, sent>>
        /\ poll[c].phase = "query"
    BY <1>5 DEF ReadRows, got
  <2>3. TypeOK'
    BY <1>0, <2>1, <2>2 DEF TypeOK
  <2>4. NoGap'
    BY <2>2 DEF StreamInv, NoGap
  <2>5. (IsFiniteSet(OpenStreams) /\ ActiveExact)'
    BY <2>2, SameCount DEF OpenStreams
  <2>6. \A d \in Stream : RowsFollow(d)'
    BY <1>0, <2>1, <2>2 DEF StreamInv, RowsFollow, TypeOK
  <2>7. state[c] # "new"
    <3>1. poll[c] # Idle
      BY <2>2
    <3> QED
      BY <3>1 DEF StreamInv, Fresh
  <2>8. \A d \in Stream : d # c => poll'[d] = poll[d]
    BY <1>0, <2>2 DEF TypeOK
  <2>9. \A d \in Stream : /\ Fresh(d)' /\ FlagFits(d)'
                          /\ (cursor[d] \in {0} \cup outbox)' /\ (from[d] <= cursor[d])'
    BY <2>2, <2>7, <2>8 DEF StreamInv, Fresh, FlagFits
  <2>10. QueueBounded'
    BY <2>2 DEF StreamInv, QueueBounded
  <2> QED
    BY <2>3, <2>4, <2>5, <2>6, <2>9, <2>10 DEF StreamInv
<1>6. ASSUME NEW c \in Stream, EndStream(c) \/ Cancel(c) PROVE StreamInv'
  <2>1. PICK s \in {"ended", "gone"} :
          /\ state' = [state EXCEPT ![c] = s] /\ Release(c)
          /\ state[c] \in {"open", "ended"}
          /\ UNCHANGED <<outbox, cursor, noise, from, sent>>
    BY <1>6 DEF EndStream, Cancel
  <2>2. (IsFiniteSet(OpenStreams) /\ ActiveExact)' /\ active' \in Nat
    BY <2>1, ClosedCount
  <2>3. /\ queued' \in [Stream -> Nat]
        /\ poll' \in [Stream -> [phase : {"idle", "query", "rows"}, rows : SUBSET Nat]]
        /\ \A d \in Stream : poll'[d] = poll[d] \/ poll'[d] = Idle
    <3>1. CASE EndStream(c)
      BY <1>0, <3>1 DEF TypeOK, EndStream
    <3>2. CASE Cancel(c)
      BY <1>0, <3>2 DEF TypeOK, Cancel
    <3> QED
      BY <1>6, <3>1, <3>2
  <2>4. TypeOK'
    BY <1>0, <2>1, <2>2, <2>3 DEF TypeOK, Release
  <2>5. NoGap'
    BY <2>1 DEF StreamInv, NoGap
  <2>6. \A d \in Stream : RowsFollow(d)'
    BY <2>1, <2>3 DEF StreamInv, RowsFollow
  <2>7. \A d \in Stream : /\ Fresh(d)' /\ FlagFits(d)'
                          /\ (cursor[d] \in {0} \cup outbox)' /\ (from[d] <= cursor[d])'
    BY <1>0, <2>1, <2>3 DEF StreamInv, Fresh, FlagFits, TypeOK, Release
  <2>8. QueueBounded'
    <3>1. CASE EndStream(c)
      BY <1>0, <3>1, StreamAssumption DEF StreamInv, TypeOK, EndStream, QueueBounded
    <3>2. CASE Cancel(c)
      BY <1>0, <3>2, StreamAssumption DEF StreamInv, TypeOK, Cancel, QueueBounded
    <3> QED
      BY <1>6, <3>1, <3>2
  <2> QED
    BY <2>2, <2>4, <2>5, <2>6, <2>7, <2>8 DEF StreamInv
<1>7. ASSUME NEW c \in Stream, SendRows(c) PROVE StreamInv'
  <2> DEFINE out == First(poll[c].rows, Room(c))
             next == CursorAfter(c, out)
  <2>1. /\ out \in SUBSET Nat /\ IsFiniteSet(out)
        /\ next \in Nat /\ next \in {0} \cup outbox
        /\ cursor[c] <= next
        /\ out = { j \in After(outbox, cursor[c]) : j <= next }
        /\ Cardinality(out) <= Room(c)
    BY SendsNext
  <2>2. /\ poll[c].phase = "rows" /\ state[c] = "open"
        /\ cursor' = [cursor EXCEPT ![c] = next]
        /\ sent' = [sent EXCEPT ![c] = @ \cup out]
        /\ queued' = [queued EXCEPT ![c] = @ + Cardinality(out)]
        /\ poll' = [poll EXCEPT ![c] = Idle]
        /\ UNCHANGED <<outbox, active, state, released, noise, from>>
    BY <1>7 DEF SendRows
  <2> HIDE DEF out, next
  <2>3. Cardinality(out) \in Nat
    BY <2>1, FS_CardinalityType
  <2>4. TypeOK'
    <3>1. cursor' \in [Stream -> Nat] /\ sent' \in [Stream -> SUBSET Nat]
      BY <1>0, <2>1, <2>2 DEF TypeOK
    <3>2. queued' \in [Stream -> Nat]
      BY <1>0, <2>2, <2>3 DEF TypeOK
    <3>3. poll' \in [Stream -> [phase : {"idle", "query", "rows"}, rows : SUBSET Nat]]
      BY <1>0, <2>2 DEF TypeOK
    <3> QED
      BY <1>0, <2>2, <3>1, <3>2, <3>3 DEF TypeOK
  <2>5. NoGap'
    <3> SUFFICES ASSUME NEW d \in Stream
                 PROVE  sent'[d] = { id \in outbox : from[d] < id /\ id <= cursor'[d] }
      BY <2>2 DEF NoGap
    <3>1. sent[d] = { id \in outbox : from[d] < id /\ id <= cursor[d] }
      BY DEF StreamInv, NoGap
    <3>2. CASE d = c
      <4>1. cursor'[d] = next /\ sent'[d] = sent[d] \cup out
        BY <1>0, <2>2, <3>2 DEF TypeOK
      <4>2. /\ from[c] \in Nat /\ cursor[c] \in Nat /\ from[c] <= cursor[c]
            /\ \A id \in outbox : id \in Nat
        BY <1>0 DEF TypeOK, StreamInv
      <4>3. \A id \in outbox :
              (from[c] < id /\ id <= next)
                <=> \/ from[c] < id /\ id <= cursor[c]
                    \/ cursor[c] < id /\ id <= next
        BY <2>1, <4>2
      <4> QED
        BY <2>1, <3>1, <3>2, <4>1, <4>3 DEF After
    <3>3. CASE d # c
      BY <1>0, <2>2, <3>1, <3>3 DEF TypeOK
    <3> QED
      BY <3>2, <3>3
  <2>6. (IsFiniteSet(OpenStreams) /\ ActiveExact)'
    BY <2>2, SameCount DEF OpenStreams
  <2>7. \A d \in Stream : RowsFollow(d)'
    BY <1>0, <2>2 DEF StreamInv, RowsFollow, TypeOK
  <2>8. from[c] <= next
    BY <1>0, <2>1 DEF TypeOK, StreamInv
  <2>9. \A d \in Stream : /\ Fresh(d)' /\ FlagFits(d)'
                          /\ (cursor[d] \in {0} \cup outbox)' /\ (from[d] <= cursor[d])'
    BY <1>0, <2>1, <2>2, <2>8 DEF StreamInv, Fresh, FlagFits, TypeOK
  <2>10. QueueBounded'
    BY <1>0, <2>1, <2>2, <2>3, StreamAssumption
       DEF StreamInv, TypeOK, Room, QueueBounded
  <2> QED
    BY <2>4, <2>5, <2>6, <2>7, <2>9, <2>10 DEF StreamInv
<1>8. CASE UNCHANGED vars
  <2>1. OpenStreams' = OpenStreams
    BY <1>8 DEF vars, OpenStreams
  <2>2. (IsFiniteSet(OpenStreams) /\ ActiveExact)'
    BY <1>8, <2>1, SameCount DEF vars
  <2>3. TypeOK' /\ NoGap' /\ QueueBounded'
    BY <1>8 DEF vars, StreamInv, TypeOK, NoGap, QueueBounded
  <2>4. \A d \in Stream : /\ RowsFollow(d)' /\ Fresh(d)' /\ FlagFits(d)'
                          /\ (cursor[d] \in {0} \cup outbox)' /\ (from[d] <= cursor[d])'
    BY <1>8 DEF vars, StreamInv, RowsFollow, Fresh, FlagFits
  <2> QED
    BY <2>2, <2>3, <2>4 DEF StreamInv
<1> QED
  BY <1>1, <1>2, <1>3, <1>4, <1>5, <1>6, <1>7, <1>8 DEF Next

\* The invariant of all the theorems below.
LEMMA InvHolds == Spec => []StreamInv
  BY InitInv, StepInv, PTL DEF Spec

\* sseResponse and its handler keep every variable in its type.
THEOREM TypesHold == Spec => []TypeOK
<1>1. StreamInv => TypeOK
  BY DEF StreamInv
<1> QED
  BY InvHolds, <1>1, PTL

\* The counter behind sse_capacity is the number of open streams, whichever
\* way each of them ended.
THEOREM CounterAlwaysExact == Spec => []ActiveExact
<1>1. StreamInv => ActiveExact
  BY DEF StreamInv
<1> QED
  BY InvHolds, <1>1, PTL

\* A stream never skips an event, whatever room its queue had.
THEOREM NeverAGap == Spec => []NoGap
<1>1. StreamInv => NoGap
  BY DEF StreamInv
<1> QED
  BY InvHolds, <1>1, PTL

\* The queue of a stream stays within its size and the notices it was sent.
THEOREM QueueStaysBounded == Spec => []QueueBounded
<1>1. StreamInv => QueueBounded
  BY DEF StreamInv
<1> QED
  BY InvHolds, <1>1, PTL

\* The stream implements the ordered feed.
THEOREM StreamIsOrderedFeed == Spec => ImplementsFeed
<1>1. Init => Feed!FeedInit
  BY DEF Init, Feed!FeedInit, OpenStreams
<1>2. StreamInv /\ [Next]_vars => [Feed!FeedNext]_(Feed!vars)
  <2> SUFFICES ASSUME StreamInv, [Next]_vars, ~ UNCHANGED Feed!vars PROVE Feed!FeedNext
    OBVIOUS
  <2>0. TypeOK
    BY DEF StreamInv
  <2>1. CASE Publish
    <3>1. PICK id \in 1..MaxId : MayAppend(outbox, id) /\ outbox' = outbox \cup {id}
      BY <2>1 DEF Publish
    <3>2. id \notin outbox
      BY <2>0, <3>1 DEF MayAppend, TypeOK
    <3>3. OpenStreams' = OpenStreams /\ UNCHANGED <<cursor, sent>>
      BY <2>1 DEF Publish, OpenStreams
    <3>4. id \in outbox' \ outbox
      BY <3>1, <3>2
    <3> QED
      BY <3>1, <3>3, <3>4 DEF Feed!FeedNext, Feed!Grow, MayAppend, Feed!MayAppend
  <2>2. ASSUME NEW c \in Stream, Connect(c) PROVE Feed!Open(c)
    <3>1. OpenStreams' = OpenStreams \cup {c} /\ c \notin OpenStreams
      BY <2>0, <2>2 DEF TypeOK, Connect, OpenStreams
    <3>2. sent[c] = {} /\ UNCHANGED <<outbox, sent>>
      BY <2>2 DEF Connect, StreamInv, Fresh
    <3>3. PICK a \in {0} \cup outbox : cursor' = [cursor EXCEPT ![c] = a]
      BY <2>2 DEF Connect
    <3>4. cursor' = [cursor EXCEPT ![c] = cursor'[c]]
      BY <2>0, <3>3 DEF TypeOK
    <3> QED
      BY <3>1, <3>2, <3>4 DEF Feed!Open
  <2>3. ASSUME NEW c \in Stream,
               \/ Refuse(c) \/ StartPoll(c) \/ Heartbeat(c) \/ ReadRows(c)
               \/ FailRead(c) \/ DropRows(c) \/ Take(c)
        PROVE  FALSE
    <3>1. OpenStreams' = OpenStreams /\ UNCHANGED <<outbox, cursor, sent>>
      BY <2>0, <2>3 DEF TypeOK, OpenStreams, Refuse, StartPoll, Heartbeat,
                        ReadRows, FailRead, DropRows, Take
    <3> QED
      BY <3>1 DEF Feed!vars
  <2>4. ASSUME NEW c \in Stream, EndStream(c) \/ Cancel(c) PROVE Feed!Close(c)
    <3>1. UNCHANGED <<outbox, cursor, sent>>
      BY <2>4 DEF EndStream, Cancel
    <3>2. CASE state[c] = "open"
      <4>1. OpenStreams' = OpenStreams \ {c} /\ c \in OpenStreams
        BY <2>0, <2>4, <3>2 DEF TypeOK, OpenStreams, EndStream, Cancel
      <4> QED
        BY <3>1, <4>1 DEF Feed!Close
    <3>3. CASE state[c] # "open"
      <4>1. OpenStreams' = OpenStreams
        BY <2>0, <2>4, <3>3 DEF TypeOK, OpenStreams, EndStream, Cancel
      <4> QED
        BY <3>1, <4>1 DEF Feed!vars
    <3> QED
      BY <3>2, <3>3
  <2>5. ASSUME NEW c \in Stream, SendRows(c) PROVE Feed!Give(c)
    <3> DEFINE out == First(poll[c].rows, Room(c))
               next == CursorAfter(c, out)
    <3>1. /\ out = {} => next = cursor[c]
          /\ out # {} => next \in After(outbox, cursor[c])
          /\ out = { j \in After(outbox, cursor[c]) : j <= next }
      BY SendsNext
    <3>2. /\ state[c] = "open"
          /\ cursor' = [cursor EXCEPT ![c] = next]
          /\ sent' = [sent EXCEPT ![c] = @ \cup out]
          /\ UNCHANGED <<outbox, state>>
      BY <2>5 DEF SendRows
    <3> HIDE DEF out, next
    <3>3. OpenStreams' = OpenStreams /\ c \in OpenStreams
      BY <3>2 DEF OpenStreams
    <3>4. out # {}
      <4> SUFFICES ASSUME out = {} PROVE UNCHANGED Feed!vars
        OBVIOUS
      <4>1. cursor' = cursor /\ sent' = sent
        BY <2>0, <3>1, <3>2 DEF TypeOK
      <4> QED
        BY <3>2, <3>3, <4>1 DEF Feed!vars
    <3> QED
      BY <3>1, <3>2, <3>3, <3>4 DEF Feed!Give, Feed!After, After
  <2> QED
    BY <2>1, <2>2, <2>3, <2>4, <2>5 DEF Next, vars, Feed!vars, Feed!FeedNext, OpenStreams
<1> QED
  BY InvHolds, <1>1, <1>2, PTL DEF Spec, ImplementsFeed, Feed!FeedSpec

----------------------------------------------------------------------------
(* The market table of the client.  Its log is a variable of its own, in    *)
(* which it knows more of an event than the id that the stream knows.       *)

\* What the first snapshot precedes: no event has been delivered.
LoadingFirst ==
  /\ transport = "loading" \/ first = Unasked
  /\ transport = "loading" => due = 0

\* An answer on its way that is too old is followed by another one.
StaleAnswerIsRefetched ==
  refresh \notin {Unasked, Asked} /\ refresh < due => timer

TableInv ==
  /\ TableTypeOK /\ LoadingFirst /\ StaleAnswerIsRefetched /\ StaleViewIsRefetched

LEMMA RequestNames ==
  ASSUME TableTypeOK
  PROVE  /\ Unasked \in Nat /\ Asked \in Nat /\ Unasked # Asked
         /\ Len(log) \in Nat /\ \A n \in 0..Len(log) : n \in Nat /\ n # Unasked /\ n # Asked
BY FeedAssumption DEF TableTypeOK, Unasked, Asked

LEMMA TableInitially == TableInit => TableInv
<1> SUFFICES ASSUME TableInit PROVE TableInv
  OBVIOUS
<1>1. /\ log = <<>> /\ transport = "loading" /\ rows = [k \in {} |-> 0]
      /\ after = 0 /\ resumeAfter = 0 /\ viewAsOf = 0 /\ due = 0 /\ views = MaxViews
      /\ timer = FALSE /\ more = FALSE /\ missed = FALSE
      /\ first = Asked /\ refresh = Unasked /\ page = Unasked
  BY DEF TableInit
<1>2. MaxViews \in Nat /\ MaxEvents \in Nat
  BY FeedAssumption
<1>3. log \in Seq([type : Types, market : Markets]) /\ Len(log) = 0
  BY <1>1
<1>4. DOMAIN rows = {}
  BY <1>1
<1>5. TableTypeOK
  <2>1. {after, resumeAfter, viewAsOf, due} \subseteq 0..Len(log) /\ Len(log) <= MaxEvents
    BY <1>1, <1>2, <1>3
  <2>2. {timer, more, missed} \subseteq BOOLEAN
    BY <1>1
  <2>3. {first, refresh, page} \subseteq 0..Len(log) \cup {Unasked, Asked}
    BY <1>1
  <2>4. transport \in Transports /\ views \in 0..MaxViews
    BY <1>1, <1>2 DEF Transports
  <2> QED
    BY <1>3, <1>4, <2>1, <2>2, <2>3, <2>4 DEF TableTypeOK
<1> QED
  BY <1>1, <1>5
     DEF TableInv, LoadingFirst, StaleAnswerIsRefetched, StaleViewIsRefetched

\* A commit lengthens the log and changes nothing of the client.
LEMMA CommitKeeps ==
  ASSUME TableInv,
         NEW events \in Seq([type : Types, market : Markets]),
         Commits(events)
  PROVE  TableInv'
<1>1. log' \in Seq([type : Types, market : Markets]) /\ Len(log') = Len(log) + Len(events)
      /\ Len(log') <= MaxEvents
  BY DEF TableInv, TableTypeOK, Commits
<1>2. Len(log) \in Nat /\ Len(events) \in Nat /\ Len(log') \in Nat
  BY <1>1 DEF TableInv, TableTypeOK
<1>3. 0..Len(log) \subseteq 0..Len(log')
  BY <1>1, <1>2
<1>4. UNCHANGED <<transport, after, resumeAfter, rows, timer, first, refresh, page, more, views,
                  viewAsOf, due, missed>>
  BY DEF Commits, streamVars, requests
<1>5. TableTypeOK'
  <2>1. {after', resumeAfter', viewAsOf', due'} \subseteq 0..Len(log')
    BY <1>3, <1>4 DEF TableInv, TableTypeOK
  <2>2. DOMAIN rows' \subseteq Keys /\ \A k \in DOMAIN rows' : rows'[k] \in 0..Len(log')
    BY <1>3, <1>4 DEF TableInv, TableTypeOK
  <2>3. {first', refresh', page'} \subseteq 0..Len(log') \cup {Unasked, Asked}
    BY <1>3, <1>4 DEF TableInv, TableTypeOK
  <2> QED
    BY <1>1, <1>4, <2>1, <2>2, <2>3 DEF TableInv, TableTypeOK
<1> QED
  BY <1>4, <1>5 DEF TableInv, LoadingFirst, StaleAnswerIsRefetched, StaleViewIsRefetched

\* Every row is named as the code names it.
LEMMA NormalizedRows ==
  ASSUME NEW markets \in SUBSET Markets, NEW source \in {"snapshot", "event"}, NEW id
  PROVE  /\ DOMAIN NormalizeMarkets(markets, source, id) \subseteq Keys
         /\ \A k \in DOMAIN NormalizeMarkets(markets, source, id) :
              NormalizeMarkets(markets, source, id)[k] = id
BY DEF NormalizeMarkets, IdentityFor, Keys

\* A merge shows rows of either side, and never takes one back.
LEMMA MergedRows ==
  ASSUME NEW n \in Nat, NEW current, NEW incoming,
         DOMAIN current \subseteq Keys, DOMAIN incoming \subseteq Keys,
         \A k \in DOMAIN current : current[k] \in 0..n,
         \A k \in DOMAIN incoming : incoming[k] \in 0..n
  PROVE  LET merged == MergeMarkets(current, incoming)
         IN /\ DOMAIN merged \subseteq Keys
            /\ \A k \in DOMAIN merged : merged[k] \in 0..n
            /\ \A k \in DOMAIN current : merged[k] >= current[k]
<1> DEFINE merged == MergeMarkets(current, incoming)
<1>1. DOMAIN merged = DOMAIN current \cup DOMAIN incoming
  BY DEF MergeMarkets
<1>2. \A k \in DOMAIN merged :
        merged[k] = CASE k \notin DOMAIN incoming -> current[k]
                      [] k \notin DOMAIN current -> incoming[k]
                      [] OTHER -> IF MarketIsOlder(current[k], incoming[k])
                                    THEN current[k] ELSE incoming[k]
  BY DEF MergeMarkets
<1> HIDE DEF merged
<1>3. ASSUME NEW k \in DOMAIN merged
      PROVE  /\ merged[k] \in 0..n
             /\ k \in DOMAIN current => merged[k] >= current[k]
  <2>1. CASE k \notin DOMAIN incoming
    <3>1. merged[k] = current[k] /\ k \in DOMAIN current
      BY <1>1, <1>2, <2>1
    <3> QED
      BY <3>1
  <2>2. CASE k \in DOMAIN incoming /\ k \notin DOMAIN current
    BY <1>2, <2>2
  <2>3. CASE k \in DOMAIN incoming /\ k \in DOMAIN current
    <3>1. merged[k] = IF incoming[k] < current[k] THEN current[k] ELSE incoming[k]
      BY <1>2, <2>3 DEF MarketIsOlder
    <3>2. current[k] \in Nat /\ incoming[k] \in Nat /\ current[k] \in 0..n /\ incoming[k] \in 0..n
      BY <2>3
    <3> QED
      BY <3>1, <3>2
  <2> QED
    BY <2>1, <2>2, <2>3
<1> QED
  BY <1>1, <1>3 DEF merged

\* What the server lists are markets.
LEMMA ListedMarkets == \A n : Listed(n) \subseteq Markets
BY DEF Listed

LEMMA ServerKeeps ==
  ASSUME TableInv, Server
  PROVE  TableInv'
<1>1. PICK m \in Markets : ServerLaunches(m) \/ ServerTrades(m)
                           \/ ServerReorgs(m)
  BY DEF Server
<1>2. \A t \in Types : Event(t, m) \in [type : Types, market : Markets]
  BY DEF Event
<1>3. PICK events \in Seq([type : Types, market : Markets]) : Commits(events)
  <2>1. {"market.launched", "market.trade.upsert", "chain.reorg", "market.removed"}
          \subseteq Types
    BY DEF Types
  <2>2. \/ Commits(<<Event("market.launched", m)>>)
        \/ Commits(<<Event("market.trade.upsert", m)>>)
        \/ Commits(<<Event("chain.reorg", m), Event("market.removed", m)>>)
    BY <1>1 DEF ServerLaunches, ServerTrades, ServerReorgs
  <2> DEFINE Row == [type : Types, market : Markets]
  <2>3. \A x, y \in Row : <<x>> \in Seq(Row) /\ <<x, y>> \in Seq(Row)
    <3> HIDE DEF Row
    <3> QED
      OBVIOUS
  <2>4. /\ Event("market.launched", m) \in Row
        /\ Event("market.trade.upsert", m) \in Row
        /\ Event("chain.reorg", m) \in Row /\ Event("market.removed", m) \in Row
    BY <1>2, <2>1
  <2> HIDE DEF Row
  <2>5. \E events \in Seq(Row) : Commits(events)
    BY <2>2, <2>3, <2>4
  <2> QED
    BY <2>5 DEF Row
<1> QED
  BY <1>3, CommitKeeps

\* A trade or a reorganisation starts the timer, whatever is in flight.
LEMMA EventKeeps ==
  ASSUME TableInv, NEW i \in after+1..Len(log), EventArrives(i)
  PROVE  /\ TableInv'
         /\ \A k \in DOMAIN rows \cap DOMAIN rows' : rows'[k] >= rows[k]
<1> DEFINE event == log[i]
           carried == NormalizeMarkets({event.market}, "event", i)
<1>1. TableTypeOK /\ LoadingFirst /\ StaleAnswerIsRefetched /\ StaleViewIsRefetched
  BY DEF TableInv
<1>2. i \in 0..Len(log) /\ i \in Nat /\ Len(log) \in Nat /\ i \in 1..Len(log)
  BY <1>1 DEF TableTypeOK
<1>3. event \in [type : Types, market : Markets]
  <2> DEFINE Row == [type : Types, market : Markets]
  <2>1. log \in Seq(Row)
    BY <1>1 DEF TableTypeOK
  <2> HIDE DEF Row
  <2>2. log[i] \in Row
    BY <1>2, <2>1
  <2> QED
    BY <2>2 DEF Row
<1>4. /\ resumeAfter' = i /\ transport \in {"websocket", "sse"}
      /\ \/ timer' = TRUE /\ due' = Bigger(due, i)
         \/ timer' = timer /\ due' = due
      /\ rows' = CASE IsDeleteEvent(event.type) -> RemoveMarkets(rows, event.market)
                   [] CarriesMarket(event.type) -> MergeMarkets(rows, carried)
                   [] OTHER -> rows
      /\ UNCHANGED <<log, transport, after, first, refresh, page, more, views, viewAsOf, missed>>
  BY DEF EventArrives, ApplyEvent, RequestSafeRefetch, requests
<1> HIDE DEF event
<1>5. /\ DOMAIN rows' \subseteq Keys
      /\ \A k \in DOMAIN rows' : rows'[k] \in 0..Len(log)
      /\ \A k \in DOMAIN rows \cap DOMAIN rows' : rows'[k] >= rows[k]
  <2>1. /\ DOMAIN rows \subseteq Keys
        /\ \A k \in DOMAIN rows : rows[k] \in 0..Len(log)
    BY <1>1 DEF TableTypeOK
  <2>2. CASE rows' = RemoveMarkets(rows, event.market)
    BY <1>2, <2>1, <2>2 DEF RemoveMarkets
  <2>3. CASE rows' = MergeMarkets(rows, carried)
    <3>1. {event.market} \in SUBSET Markets
      BY <1>3
    <3>2. /\ DOMAIN carried \subseteq Keys
          /\ \A k \in DOMAIN carried : carried[k] \in 0..Len(log)
      BY <1>2, <3>1, NormalizedRows
    <3> HIDE DEF carried
    <3> QED
      BY <1>2, <2>1, <2>3, <3>2, MergedRows
  <2>4. CASE rows' = rows
    BY <1>2, <2>1, <2>4
  <2>5. \/ rows' = RemoveMarkets(rows, event.market)
        \/ rows' = MergeMarkets(rows, carried)
        \/ rows' = rows
    <3> HIDE DEF carried
    <3>1. CASE IsDeleteEvent(event.type)
      BY <1>4, <3>1 DEF IsDeleteEvent, CarriesMarket
    <3>2. CASE CarriesMarket(event.type)
      BY <1>4, <3>2 DEF IsDeleteEvent, CarriesMarket
    <3>3. CASE ~IsDeleteEvent(event.type) /\ ~CarriesMarket(event.type)
      BY <1>4, <3>3 DEF IsDeleteEvent, CarriesMarket
    <3> QED
      BY <3>1, <3>2, <3>3
  <2> QED
    BY <2>2, <2>3, <2>4, <2>5
<1>6. due' \in 0..Len(log) /\ due' >= due /\ due \in 0..Len(log) /\ viewAsOf \in 0..Len(log)
  BY <1>1, <1>2, <1>4 DEF TableTypeOK, Bigger
<1>7. TableTypeOK'
  <2>1. {after', resumeAfter', viewAsOf', due'} \subseteq 0..Len(log')
    BY <1>1, <1>2, <1>4, <1>6 DEF TableTypeOK
  <2>2. {timer', more', missed'} \subseteq BOOLEAN
    BY <1>1, <1>4 DEF TableTypeOK
  <2> QED
    BY <1>1, <1>4, <1>5, <2>1, <2>2 DEF TableTypeOK
<1>8. LoadingFirst'
  BY <1>1, <1>4 DEF LoadingFirst
<1>9. StaleAnswerIsRefetched' /\ StaleViewIsRefetched'
  BY <1>1, <1>4 DEF StaleAnswerIsRefetched, StaleViewIsRefetched
<1> QED
  BY <1>5, <1>7, <1>8, <1>9 DEF TableInv

LEMMA ConnectionKeeps ==
  ASSUME TableInv, SocketOpens \/ SocketCloses
  PROVE  TableInv' /\ rows' = rows
<1>1. /\ UNCHANGED <<log, resumeAfter, rows, timer, first, refresh, page, more, views,
                     viewAsOf, due, missed>>
      /\ after' \in {after, resumeAfter} /\ transport' \in {"websocket", "sse"}
      /\ transport # "loading" /\ transport # "stopped"
  BY DEF SocketOpens, SocketCloses, requests
<1>2. TableTypeOK'
  BY <1>1 DEF TableInv, TableTypeOK, Transports
<1> QED
  BY <1>1, <1>2 DEF TableInv, LoadingFirst, StaleAnswerIsRefetched, StaleViewIsRefetched

\* A snapshot's rows are as new as the snapshot.
LEMMA SnapshotRows ==
  ASSUME NEW n \in 0..Len(log), NEW listed \in SUBSET Listed(n), Len(log) \in Nat,
         NEW table, table = NormalizeMarkets(listed, "snapshot", n)
  PROVE  /\ DOMAIN table \subseteq Keys
         /\ \A k \in DOMAIN table : table[k] \in 0..Len(log)
<1>1. listed \in SUBSET Markets
  BY ListedMarkets
<1> QED
  BY <1>1, NormalizedRows

LEMMA FirstKeeps ==
  ASSUME TableInv, FirstSnapshot
  PROVE  TableInv' /\ first' # first
<1>1. TableTypeOK /\ LoadingFirst /\ StaleAnswerIsRefetched /\ StaleViewIsRefetched
  BY DEF TableInv
<1>2. Len(log) \in Nat /\ Unasked # Asked /\ \A n \in 0..Len(log) : n \in Nat /\ n # Asked
  BY <1>1, RequestNames
<1>3. transport = "loading" /\ due = 0
  BY <1>1, <1>2
     DEF LoadingFirst, FirstSnapshot, FirstRead, FirstAnswers, FirstFails
<1>4. CASE FirstRead
  <2>1. /\ first = Asked /\ first' = Len(log)
        /\ UNCHANGED <<log, transport, after, resumeAfter, rows, timer, refresh, page, more, views,
                       viewAsOf, due, missed>>
    BY <1>4 DEF FirstRead, streamVars
  <2>2. TableTypeOK' /\ first' # first
    BY <1>1, <1>2, <2>1 DEF TableTypeOK
  <2> QED
    BY <1>1, <1>3, <2>1, <2>2
       DEF TableInv, LoadingFirst, StaleAnswerIsRefetched, StaleViewIsRefetched
<1>5. CASE FirstAnswers
  <2>1. PICK listed \in SUBSET Listed(first) :
          /\ rows' = NormalizeMarkets(listed, "snapshot", first)
          /\ more' = (listed # Listed(first))
    BY <1>5 DEF FirstAnswers
  <2>2. /\ first \notin {Unasked, Asked} /\ first' = Unasked /\ viewAsOf' = first
        /\ transport' = "connecting" /\ after' = first /\ resumeAfter' = first
        /\ UNCHANGED <<log, timer, refresh, page, views, due, missed>>
    BY <1>5 DEF FirstAnswers, OpenWebSocket
  <2>3. first \in 0..Len(log)
    BY <1>1, <2>2 DEF TableTypeOK
  <2>4. /\ DOMAIN rows' \subseteq Keys
        /\ \A k \in DOMAIN rows' : rows'[k] \in 0..Len(log)
    BY <1>2, <2>1, <2>3, SnapshotRows
  <2>5. /\ {after', resumeAfter', viewAsOf', due'} \subseteq 0..Len(log')
        /\ {timer', more', missed'} \subseteq BOOLEAN
    BY <1>1, <2>1, <2>2, <2>3 DEF TableTypeOK
  <2>6. TableTypeOK' /\ first' # first
    BY <1>1, <2>2, <2>4, <2>5 DEF TableTypeOK, Transports
  <2>7. ~ (viewAsOf' < due')
    BY <1>2, <1>3, <2>2, <2>3
  <2> QED
    BY <1>1, <2>2, <2>6, <2>7
       DEF TableInv, LoadingFirst, StaleAnswerIsRefetched, StaleViewIsRefetched
<1>6. CASE FirstFails
  <2>1. /\ first # Unasked /\ first' = Unasked
        /\ transport' = "connecting" /\ after' = 0 /\ resumeAfter' = 0
        /\ UNCHANGED <<log, rows, timer, refresh, page, more, views, viewAsOf, due, missed>>
    BY <1>6 DEF FirstFails, OpenWebSocket
  <2>2. TableTypeOK' /\ first' # first
    BY <1>1, <1>2, <2>1 DEF TableTypeOK, Transports
  <2> QED
    BY <1>1, <1>3, <2>1, <2>2
       DEF TableInv, LoadingFirst, StaleAnswerIsRefetched, StaleViewIsRefetched
<1> QED
  BY <1>4, <1>5, <1>6 DEF FirstSnapshot

\* The timer and the view start a refresh over; what it reads is as new as every
\* event delivered until then.
LEMMA RefreshKeeps ==
  ASSUME TableInv, Refresh
  PROVE  TableInv' /\ (refresh' # refresh \/ rows' = rows)
<1>1. TableTypeOK /\ LoadingFirst /\ StaleAnswerIsRefetched /\ StaleViewIsRefetched
  BY DEF TableInv
<1>2. /\ Len(log) \in Nat /\ Unasked # Asked
      /\ \A n \in 0..Len(log) : n \in Nat /\ n # Asked /\ n # Unasked
  BY <1>1, RequestNames
<1>3. due \in 0..Len(log) /\ due \in Nat /\ viewAsOf \in Nat
  BY <1>1, <1>2 DEF TableTypeOK
<1>4. CASE ChangeView
  <2>1. /\ refresh' = Asked /\ views > 0 /\ views' = views - 1
        /\ UNCHANGED <<log, transport, after, resumeAfter, rows, timer, first, page, more,
                       viewAsOf, due, missed>>
    BY <1>4 DEF ChangeView, streamVars
  <2>2. TableTypeOK'
    BY <1>1, <2>1, FeedAssumption DEF TableTypeOK
  <2> QED
    BY <1>1, <2>1, <2>2
       DEF TableInv, LoadingFirst, StaleAnswerIsRefetched, StaleViewIsRefetched
<1>5. CASE RefetchTimer
  <2>1. /\ refresh' = Asked /\ timer' = FALSE
        /\ UNCHANGED <<log, transport, after, resumeAfter, rows, first, page, more, views,
                       viewAsOf, due, missed>>
    BY <1>5 DEF RefetchTimer, streamVars
  <2>2. TableTypeOK'
    BY <1>1, <2>1 DEF TableTypeOK
  <2> QED
    BY <1>1, <2>1, <2>2
       DEF TableInv, LoadingFirst, StaleAnswerIsRefetched, StaleViewIsRefetched
<1>6. CASE RefreshRead
  <2>1. /\ refresh = Asked /\ refresh' = Len(log)
        /\ UNCHANGED <<log, transport, after, resumeAfter, rows, timer, first, page, more, views,
                       viewAsOf, due, missed>>
    BY <1>6 DEF RefreshRead, streamVars
  <2>2. TableTypeOK'
    BY <1>1, <1>2, <2>1 DEF TableTypeOK
  <2>3. Len(log) >= due /\ ~ (Len(log) < due) /\ Len(log) # Unasked
    BY <1>2, <1>3
  <2> QED
    BY <1>1, <2>1, <2>2, <2>3
       DEF TableInv, LoadingFirst, StaleAnswerIsRefetched, StaleViewIsRefetched
<1>7. CASE RefreshAnswers
  <2>1. PICK listed \in SUBSET Listed(refresh) :
          /\ rows' = NormalizeMarkets(listed, "snapshot", refresh)
          /\ more' = (listed # Listed(refresh))
    BY <1>7 DEF RefreshAnswers
  <2>2. /\ refresh \notin {Unasked, Asked} /\ refresh' = Unasked
        /\ viewAsOf' = refresh /\ missed' = FALSE
        /\ UNCHANGED <<log, transport, after, resumeAfter, timer, first, page, views, due>>
    BY <1>7 DEF RefreshAnswers, streamVars
  <2>3. refresh \in 0..Len(log)
    BY <1>1, <2>2 DEF TableTypeOK
  <2>4. /\ DOMAIN rows' \subseteq Keys
        /\ \A k \in DOMAIN rows' : rows'[k] \in 0..Len(log)
    BY <1>2, <2>1, <2>3, SnapshotRows
  <2>5. /\ {after', resumeAfter', viewAsOf', due'} \subseteq 0..Len(log')
        /\ {timer', more', missed'} \subseteq BOOLEAN
    BY <1>1, <2>1, <2>2, <2>3 DEF TableTypeOK
  <2>6. TableTypeOK' /\ refresh' # refresh
    BY <1>1, <2>2, <2>4, <2>5 DEF TableTypeOK
  <2>7. viewAsOf' < due' => timer'
    BY <1>1, <2>2 DEF StaleAnswerIsRefetched
  <2> QED
    BY <1>1, <2>2, <2>6, <2>7
       DEF TableInv, LoadingFirst, StaleAnswerIsRefetched, StaleViewIsRefetched
<1>8. CASE RefreshFails
  <2>1. /\ refresh' = Unasked /\ missed' = TRUE
        /\ UNCHANGED <<log, transport, after, resumeAfter, rows, timer, first, page, more, views,
                       viewAsOf, due>>
    BY <1>8 DEF RefreshFails, streamVars
  <2>2. TableTypeOK'
    BY <1>1, <2>1 DEF TableTypeOK
  <2> QED
    BY <1>1, <2>1, <2>2
       DEF TableInv, LoadingFirst, StaleAnswerIsRefetched, StaleViewIsRefetched
<1> QED
  BY <1>4, <1>5, <1>6, <1>7, <1>8 DEF Refresh

\* An older page is merged and takes no row back.
LEMMA PageKeeps ==
  ASSUME TableInv, Page
  PROVE  TableInv' /\ \A k \in DOMAIN rows \cap DOMAIN rows' : rows'[k] >= rows[k]
<1>1. TableTypeOK /\ LoadingFirst /\ StaleAnswerIsRefetched /\ StaleViewIsRefetched
  BY DEF TableInv
<1>2. Len(log) \in Nat
  BY <1>1, RequestNames
<1>3. DOMAIN rows \subseteq Keys /\ \A k \in DOMAIN rows : rows[k] \in 0..Len(log)
  BY <1>1 DEF TableTypeOK
<1>4. /\ UNCHANGED <<log, transport, after, resumeAfter, timer, first, refresh, views, viewAsOf,
                     due, missed>>
      /\ page' \in {Unasked, Asked, Len(log)}
      /\ more' \in BOOLEAN
      /\ \/ rows' = rows
         \/ /\ page \notin {Unasked, Asked}
            /\ \E listed \in SUBSET Listed(page) :
                 rows' = MergeMarkets(rows, NormalizeMarkets(listed, "snapshot", page))
  <2>1. more \in BOOLEAN
    BY <1>1 DEF TableTypeOK
  <2> QED
    BY <2>1 DEF Page, LoadMore, PageRead, PageAnswers,
                PageFails, streamVars
<1>5. /\ DOMAIN rows' \subseteq Keys
      /\ \A k \in DOMAIN rows' : rows'[k] \in 0..Len(log)
      /\ \A k \in DOMAIN rows \cap DOMAIN rows' : rows'[k] >= rows[k]
  <2>1. CASE rows' = rows
    BY <1>2, <1>3, <2>1
  <2>2. ASSUME page \notin {Unasked, Asked},
               NEW listed \in SUBSET Listed(page),
               rows' = MergeMarkets(rows, NormalizeMarkets(listed, "snapshot", page))
        PROVE  <1>5!1 /\ <1>5!2 /\ <1>5!3
    <3> DEFINE incoming == NormalizeMarkets(listed, "snapshot", page)
    <3>1. page \in 0..Len(log)
      BY <1>1, <2>2 DEF TableTypeOK
    <3>2. /\ DOMAIN incoming \subseteq Keys
          /\ \A k \in DOMAIN incoming : incoming[k] \in 0..Len(log)
      BY <1>2, <3>1, SnapshotRows
    <3> HIDE DEF incoming
    <3> QED
      BY <1>2, <1>3, <2>2, <3>2, MergedRows DEF incoming
  <2> QED
    BY <1>4, <2>1, <2>2
<1>6. TableTypeOK'
  <2>1. page' \in 0..Len(log') \cup {Unasked, Asked}
    BY <1>2, <1>4
  <2> QED
    BY <1>1, <1>4, <1>5, <2>1 DEF TableTypeOK
<1> QED
  BY <1>1, <1>4, <1>5, <1>6
     DEF TableInv, LoadingFirst, StaleAnswerIsRefetched, StaleViewIsRefetched

LEMMA UnmountKeeps ==
  ASSUME TableInv, Unmount
  PROVE  TableInv' /\ rows' = rows
<1>1. /\ transport' = "stopped" /\ timer' = FALSE
      /\ first' = Unasked /\ refresh' = Unasked /\ page' = Unasked
      /\ UNCHANGED <<log, after, resumeAfter, rows, more, views, viewAsOf, due, missed>>
  BY DEF Unmount
<1>2. TableTypeOK'
  BY <1>1 DEF TableInv, TableTypeOK, Transports
<1> QED
  BY <1>1, <1>2 DEF TableInv, LoadingFirst, StaleAnswerIsRefetched, StaleViewIsRefetched

\* No step takes a row back, but one that sets the table to a snapshot.
TakesNoRowBack ==
  <<first, refresh>>' = <<first, refresh>> =>
    \A k \in DOMAIN rows \cap DOMAIN rows' : rows'[k] >= rows[k]

LEMMA TableStep ==
  ASSUME TableInv, [TableNext]_tableVars
  PROVE  TableInv' /\ TakesNoRowBack
<1>1. ASSUME rows' = rows PROVE TakesNoRowBack
  <2>1. \A k \in DOMAIN rows : rows[k] \in Int
    BY RequestNames DEF TableInv, TableTypeOK
  <2> QED
    BY <1>1, <2>1 DEF TakesNoRowBack
<1>2. CASE Server
  <2>1. rows' = rows
    BY <1>2 DEF Server, ServerLaunches, ServerTrades, ServerReorgs,
                Commits
  <2> QED
    BY <1>1, <1>2, <2>1, ServerKeeps
<1>3. CASE LiveEvents
  BY <1>1, <1>3, EventKeeps, ConnectionKeeps DEF LiveEvents, TakesNoRowBack
<1>4. CASE FirstSnapshot
  BY <1>4, FirstKeeps DEF TakesNoRowBack
<1>5. CASE Refresh
  BY <1>1, <1>5, RefreshKeeps DEF TakesNoRowBack
<1>6. CASE Page
  BY <1>6, PageKeeps DEF TakesNoRowBack
<1>7. CASE Unmount
  BY <1>1, <1>7, UnmountKeeps
<1>8. CASE UNCHANGED tableVars
  <2>1. /\ UNCHANGED <<log, transport, after, resumeAfter, rows, timer, first, refresh, page, more,
                       views, viewAsOf, due, missed>>
    BY <1>8 DEF tableVars
  <2>2. TableInv'
    BY <2>1 DEF TableInv, TableTypeOK, LoadingFirst, StaleAnswerIsRefetched,
                StaleViewIsRefetched
  <2> QED
    BY <1>1, <2>1, <2>2
<1> QED
  BY <1>2, <1>3, <1>4, <1>5, <1>6, <1>7, <1>8 DEF TableNext

\* The table's invariant holds at every step.
THEOREM TableInvHolds ==
  TableSpec => []TableInv
<1>1. TableInit => TableInv
  BY TableInitially
<1>2. TableInv /\ [TableNext]_tableVars => TableInv'
  BY TableStep
<1> QED
  BY <1>1, <1>2, PTL DEF TableSpec

\* A table older than an event that asked for a refetch is about to be
\* replaced, however many markets and events there are.
THEOREM StaleViewsAreRefetched ==
  TableSpec => []StaleViewIsRefetched
<1>1. TableInv => StaleViewIsRefetched
  BY DEF TableInv
<1> QED
  BY <1>1, TableInvHolds, PTL

\* Merging never takes a row back, for any order of events and pages.
THEOREM RowsAreKept ==
  TableSpec => RowsNeverRegress
<1>1. TableInv /\ [TableNext]_tableVars
        => [TakesNoRowBack]_tableVars
  BY TableStep
<1> QED
  BY <1>1, TableInvHolds, PTL DEF TableSpec, RowsNeverRegress, TakesNoRowBack
============================================================================
