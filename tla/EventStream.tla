---------------------------- MODULE EventStream ----------------------------
(***************************************************************************)
(* The server-sent events of /v1/stream: createMarketHandler counts the    *)
(* open streams, sseResponse polls the outbox for each of them and feeds   *)
(* a ReadableStream that serveRequest empties into the socket.             *)
(*                                                                         *)
(* The queue holds chunks; an event, a comment and an error are one each.  *)
(***************************************************************************)
EXTENDS Outbox

CONSTANTS
  Stream,        \* requests of /v1/stream, each used once
  MaxClients,    \* maxSseClients
  MaxReplay,     \* maxSseReplay
  ReadCap,       \* the limit readOutboxAfter imposes, 1000
  QueueRoom,     \* chunks taken before desiredSize reaches 0
  MaxNoise,      \* bound: heartbeats and failed reads
  MaxId          \* bound: the highest event id

ASSUME StreamAssumption ==
  /\ MaxClients \in Nat
  /\ MaxReplay \in Nat \ {0} /\ ReadCap \in Nat \ {0}
  /\ QueueRoom \in Nat \ {0}
  /\ MaxNoise \in Nat /\ MaxId \in Nat

VARIABLES
  outbox,      \* ids of the committed rows
  active,      \* activeSseClients
  state,       \* per stream: "new", "open", "ended" by the server, or "gone"
  released,    \* the place of the stream was given back
  cursor,      \* id of the last event sent
  poll,        \* the flush under way (busy): its phase and rows
  queued,      \* chunks in the stream's queue
  noise,       \* heartbeats and failed reads so far
  from, sent   \* history: where the client started, what it was sent

vars == <<outbox, active, state, released, cursor, poll, queued, noise, from, sent>>

Idle  == [phase |-> "idle", rows |-> {}]
Query == [phase |-> "query", rows |-> {}]

OpenStreams == { c \in Stream : state[c] = "open" }

Init ==
  /\ outbox = {} /\ active = 0 /\ noise = 0
  /\ state = [c \in Stream |-> "new"]
  /\ released = [c \in Stream |-> FALSE]
  /\ cursor = [c \in Stream |-> 0]
  /\ poll = [c \in Stream |-> Idle]
  /\ queued = [c \in Stream |-> 0]
  /\ from = [c \in Stream |-> 0]
  /\ sent = [c \in Stream |-> {}]

Publish ==
  /\ \E id \in 1..MaxId : MayAppend(outbox, id) /\ outbox' = outbox \cup {id}
  /\ UNCHANGED <<active, state, released, cursor, poll, queued, noise, from, sent>>

\* A GET with after or last-event-id; the stream greets and polls at once.
Connect(c) ==
  /\ state[c] = "new" /\ active < MaxClients
  /\ active' = active + 1
  /\ state' = [state EXCEPT ![c] = "open"]
  /\ \E after \in {0} \cup outbox :
       /\ cursor' = [cursor EXCEPT ![c] = after]
       /\ from' = [from EXCEPT ![c] = after]
  /\ poll' = [poll EXCEPT ![c] = Query]
  /\ queued' = [queued EXCEPT ![c] = 1]
  /\ UNCHANGED <<outbox, released, noise, sent>>

\* sse_capacity.
Refuse(c) ==
  /\ state[c] = "new" /\ active >= MaxClients
  /\ state' = [state EXCEPT ![c] = "gone"]
  /\ UNCHANGED <<outbox, active, released, cursor, poll, queued, noise, from, sent>>

Decremented == IF active > 0 THEN active - 1 ELSE 0

\* Mutant: without the released flag.
ReleaseAgain(c) ==
  /\ released' = [released EXCEPT ![c] = TRUE]
  /\ active' = Decremented

\* Mutant: a plain decrement.
ReleaseUnchecked(c) ==
  /\ released' = [released EXCEPT ![c] = TRUE]
  /\ active' = active - 1

\* cleanup(): however the stream ends, its place is given back once.
Release(c) ==
  /\ released' = [released EXCEPT ![c] = TRUE]
  /\ active' = IF released[c] THEN active ELSE Decremented

\* Mutant: the size of the queue is looked at once for the whole batch.
RoomOnce(c) == IF queued[c] < QueueRoom THEN QueueRoom ELSE 0

\* desiredSize: what is left of the queue, looked at before each event.
Room(c) == IF queued[c] < QueueRoom THEN QueueRoom - queued[c] ELSE 0

\* The poll timer, a heartbeat, or pull() when the queue has been emptied.
StartPoll(c) ==
  /\ state[c] = "open" /\ poll[c] = Idle
  /\ poll' = [poll EXCEPT ![c] = Query]
  /\ UNCHANGED <<outbox, active, state, released, cursor, queued, noise, from, sent>>

\* Only a heartbeat that is sent polls as well.
Heartbeat(c) ==
  /\ state[c] = "open" /\ Room(c) > 0 /\ noise < MaxNoise
  /\ noise' = noise + 1
  /\ queued' = [queued EXCEPT ![c] = @ + 1]
  /\ poll' = [poll EXCEPT ![c] = IF @ = Idle THEN Query ELSE @]
  /\ UNCHANGED <<outbox, active, state, released, cursor, from, sent>>

ReadLimit == IF MaxReplay + 1 < ReadCap THEN MaxReplay + 1 ELSE ReadCap

ReadRows(c) ==
  /\ poll[c].phase = "query"
  /\ poll' = [poll EXCEPT ![c] =
                [phase |-> "rows", rows |-> First(After(outbox, cursor[c]), ReadLimit)]]
  /\ UNCHANGED <<outbox, active, state, released, cursor, queued, noise, from, sent>>

\* A failed read is reported to the client; the next poll tries again.
FailRead(c) ==
  /\ poll[c].phase = "query" /\ noise < MaxNoise
  /\ noise' = noise + 1
  /\ poll' = [poll EXCEPT ![c] = Idle]
  /\ queued' = [queued EXCEPT ![c] = IF state[c] = "open" THEN @ + 1 ELSE @]
  /\ UNCHANGED <<outbox, active, state, released, cursor, from, sent>>

\* The stream was closed while the read was under way.
DropRows(c) ==
  /\ poll[c].phase = "rows" /\ state[c] # "open"
  /\ poll' = [poll EXCEPT ![c] = Idle]
  /\ UNCHANGED <<outbox, active, state, released, cursor, queued, noise, from, sent>>

TooMany(rows) == Cardinality(rows) > MaxReplay

\* resync_required goes out whatever the queue holds; the stream is closed.
EndStream(c) ==
  /\ poll[c].phase = "rows" /\ state[c] = "open" /\ TooMany(poll[c].rows)
  /\ state' = [state EXCEPT ![c] = "ended"]
  /\ Release(c)
  /\ queued' = [queued EXCEPT ![c] = @ + 1]
  /\ poll' = [poll EXCEPT ![c] = Idle]
  /\ UNCHANGED <<outbox, cursor, noise, from, sent>>

\* Mutant: the cursor moves behind everything that was read.
CursorBehindRows(c, out) == IF poll[c].rows = {} THEN cursor[c] ELSE Highest(poll[c].rows)

\* The cursor follows the events that were really sent.
CursorAfter(c, out) == IF out = {} THEN cursor[c] ELSE Highest(out)

\* The events in order, as many as the queue takes.
SendRows(c) ==
  LET out == First(poll[c].rows, Room(c)) IN
  /\ poll[c].phase = "rows" /\ state[c] = "open" /\ ~TooMany(poll[c].rows)
  /\ cursor' = [cursor EXCEPT ![c] = CursorAfter(c, out)]
  /\ sent' = [sent EXCEPT ![c] = @ \cup out]
  /\ queued' = [queued EXCEPT ![c] = @ + Cardinality(out)]
  /\ poll' = [poll EXCEPT ![c] = Idle]
  /\ UNCHANGED <<outbox, active, state, released, noise, from>>

\* serveRequest writes a chunk to the socket.
Take(c) ==
  /\ queued[c] > 0 /\ state[c] \in {"open", "ended"}
  /\ queued' = [queued EXCEPT ![c] = @ - 1]
  /\ UNCHANGED <<outbox, active, state, released, cursor, poll, noise, from, sent>>

\* The client leaves, also one whose stream the server has just closed.
Cancel(c) ==
  /\ state[c] \in {"open", "ended"}
  /\ state' = [state EXCEPT ![c] = "gone"]
  /\ Release(c)
  /\ UNCHANGED <<outbox, cursor, poll, queued, noise, from, sent>>

Next ==
  \/ Publish
  \/ \E c \in Stream :
       \/ Connect(c) \/ Refuse(c) \/ StartPoll(c) \/ Heartbeat(c)
       \/ ReadRows(c) \/ FailRead(c) \/ DropRows(c) \/ EndStream(c) \/ SendRows(c)
       \/ Take(c) \/ Cancel(c)

Spec == Init /\ [][Next]_vars

\* The poll timer goes on, reads return, and a client that stays keeps
\* taking what it is sent.
FairSpec ==
  /\ Spec
  /\ \A c \in Stream :
       /\ WF_vars(StartPoll(c)) /\ WF_vars(ReadRows(c))
       /\ WF_vars(EndStream(c)) /\ WF_vars(SendRows(c)) /\ WF_vars(Take(c))

----------------------------------------------------------------------------
(* Properties *)

\* Every variable has its type.
TypeOK ==
  /\ outbox \in SUBSET Nat /\ IsFiniteSet(outbox)
  /\ active \in Nat /\ noise \in 0..MaxNoise
  /\ state \in [Stream -> {"new", "open", "ended", "gone"}]
  /\ released \in [Stream -> BOOLEAN]
  /\ cursor \in [Stream -> Nat]
  /\ poll \in [Stream -> [phase : {"idle", "query", "rows"}, rows : SUBSET Nat]]
  /\ queued \in [Stream -> Nat]
  /\ from \in [Stream -> Nat]
  /\ sent \in [Stream -> SUBSET Nat]

\* activeSseClients is the number of open streams, however they end: a close
\* by the server followed by a cancel of the client gives one place back.
ActiveExact == active = Cardinality(OpenStreams)

\* Room in the queue decides how much of a batch is sent, but a client always
\* has every event between its starting point and its cursor.
NoGap ==
  \A c \in Stream : sent[c] = { id \in outbox : from[c] < id /\ id <= cursor[c] }

\* Back-pressure: besides the notice of each failed read, and the last word
\* to a client that must start over, the queue never exceeds its size.
QueueBounded ==
  \A c \in Stream :
    queued[c] <= QueueRoom + noise + (IF state[c] = "open" THEN 0 ELSE 1)

\* The stream is an ordered feed.
Feed == INSTANCE OrderedFeed
          WITH Reader <- Stream, log <- outbox, open <- OpenStreams,
               position <- cursor, read <- sent
ImplementsFeed == Feed!FeedSpec

\* Every event reaches a client that keeps reading, or its stream is closed.
EveryEventStreams ==
  \A c \in Stream : \A id \in 1..MaxId :
    (state[c] = "open" /\ id \in outbox /\ from[c] < id)
      ~> (id \in sent[c] \/ state[c] # "open")
============================================================================
