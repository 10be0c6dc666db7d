----------------------------- MODULE MarketHub -----------------------------
(***************************************************************************)
(* MarketRealtimeHub: WebSocket clients of the outbox.  One flush at a     *)
(* time broadcasts the rows behind latestBroadcastId; besides, every       *)
(* client may have replays of its own in flight.  Each of them reads the   *)
(* table, waits, and sends what it read in one go, whatever flush or       *)
(* another replay has sent meanwhile.                                      *)
(*                                                                         *)
(* A row is its id; a control message counts for nothing in the buffer.    *)
(* The last three variables are histories: what a client was promised and  *)
(* what it was given.                                                      *)
(***************************************************************************)
EXTENDS Outbox

CONSTANTS
  Socket,         \* WebSocket connections, each used once
  Slot,           \* bound: replays one socket has in flight
  Mortal,         \* bound: sockets whose peer may die
  MaxClients, MaxReplay, MaxReplayLag,
  MaxBuffered,    \* maxBufferedBytes, in events
  MaxId           \* bound: the highest event id

ASSUME HubAssumption ==
  /\ MaxClients \in Nat /\ MaxReplay \in Nat \ {0} /\ MaxReplayLag \in Nat
  /\ MaxBuffered \in Nat /\ MaxId \in Nat
  /\ Mortal \subseteq Socket

VARIABLES
  outbox,     \* ids of the committed rows
  running,    \* the process is up
  latest,     \* latestBroadcastId
  flush,      \* the flush under way: its phase, and the rows it has read
  status,     \* per socket: "new", "open", "closing" or "gone"
  lastId,     \* per client: lastEventId
  alive,      \* per client: a pong came since the last heartbeat
  silent,     \* the peer is dead: it neither answers nor closes
  buffered,   \* events in the send buffer
  replay,     \* per socket and slot: a replay in flight
  claim,      \* what the client said to have when it last subscribed
  sent,       \* ids the client was sent
  resync      \* it was told to start over since it last subscribed

clientVars == <<status, lastId, alive, silent, buffered>>
history == <<claim, sent, resync>>
vars == <<outbox, running, latest, flush, clientVars, replay, history>>

NoFlush  == [phase |-> "idle", rows |-> {}]
NoReplay == [phase |-> "idle", after |-> 0, rows |-> {}]

\* The entries of the client set; a closing socket stays until it is closed.
Clients == { c \in Socket : status[c] \in {"open", "closing"} }

Init ==
  /\ outbox = {} /\ running = FALSE /\ latest = 0 /\ flush = NoFlush
  /\ status = [c \in Socket |-> "new"]
  /\ lastId = [c \in Socket |-> 0]
  /\ alive = [c \in Socket |-> FALSE]
  /\ silent = [c \in Socket |-> FALSE]
  /\ buffered = [c \in Socket |-> 0]
  /\ replay = [c \in Socket |-> [r \in Slot |-> NoReplay]]
  /\ claim = [c \in Socket |-> 0]
  /\ sent = [c \in Socket |-> {}]
  /\ resync = [c \in Socket |-> FALSE]

----------------------------------------------------------------------------
(* The database and the process *)

\* A transaction of the indexer commits a row.
Publish ==
  /\ \E id \in 1..MaxId : MayAppend(outbox, id) /\ outbox' = outbox \cup {id}
  /\ UNCHANGED <<running, latest, flush, clientVars, replay, history>>

Start ==
  /\ ~running
  /\ running' = TRUE
  /\ latest' = Newest(outbox)
  /\ UNCHANGED <<outbox, flush, clientVars, replay, history>>

\* The state of the clients in gone is dropped, and the histories with it.
Forget(gone) ==
  /\ status' = [c \in Socket |-> IF c \in gone THEN "gone" ELSE status[c]]
  /\ lastId' = [c \in Socket |-> IF c \in gone THEN 0 ELSE lastId[c]]
  /\ silent' = [c \in Socket |-> c \notin gone /\ silent[c]]
  /\ buffered' = [c \in Socket |-> IF c \in gone THEN 0 ELSE buffered[c]]
  /\ claim' = [c \in Socket |-> IF c \in gone THEN 0 ELSE claim[c]]
  /\ sent' = [c \in Socket |-> IF c \in gone THEN {} ELSE sent[c]]
  /\ resync' = [c \in Socket |-> c \notin gone /\ resync[c]]

\* stop(), or a read that fails: no one catches it, and Node ends the process.
Stop ==
  /\ running
  /\ running' = FALSE
  /\ Forget(Clients)
  /\ alive' = [c \in Socket |-> c \notin Clients /\ alive[c]]
  /\ flush' = NoFlush
  /\ replay' = [c \in Socket |-> [r \in Slot |-> NoReplay]]
  /\ UNCHANGED <<outbox, latest>>

----------------------------------------------------------------------------
(* Sending *)

\* Mutant: the check lets one more event through.
RoomForOneMore(c) == MaxBuffered + 2 - buffered[c]

\* send() accepts an event as long as no more than MaxBuffered are waiting.
Room(c) == MaxBuffered + 1 - buffered[c]

\* Mutant: a socket that refuses ends the loop over the others.
SendToAllOrNone(due) ==
  LET refuses == { c \in Socket : status[c] = "open" /\ Cardinality(due[c]) > Room(c) }
      out == [c \in Socket |-> IF status[c] = "open" /\ refuses = {} THEN due[c] ELSE {}]
  IN
  /\ sent' = [c \in Socket |-> sent[c] \cup out[c]]
  /\ lastId' = [c \in Socket |-> IF out[c] = {} THEN lastId[c] ELSE Highest(out[c])]
  /\ buffered' = [c \in Socket |-> buffered[c] + Cardinality(out[c])]
  /\ status' = [c \in Socket |-> IF c \in refuses THEN "closing" ELSE status[c]]

\* send() for each id of due[c], in order; the first one refused closes the
\* socket, and everything after it is refused too.
Send(due) ==
  LET out == [c \in Socket |->
                IF status[c] = "open" THEN First(due[c], Room(c)) ELSE {}]
  IN
  /\ sent' = [c \in Socket |-> sent[c] \cup out[c]]
  /\ lastId' = [c \in Socket |-> IF out[c] = {} THEN lastId[c] ELSE Highest(out[c])]
  /\ buffered' = [c \in Socket |-> buffered[c] + Cardinality(out[c])]
  /\ status' = [c \in Socket |->
                  IF status[c] = "open" /\ out[c] # due[c] THEN "closing" ELSE status[c]]

\* A control message to c: st is its socket's status before and after.
AfterControl(c) == IF status[c] = "open" /\ Room(c) = 0 THEN "closing" ELSE status[c]

\* The peer takes everything out of the buffer.
Drain(c) ==
  /\ buffered[c] > 0 /\ ~silent[c]
  /\ buffered' = [buffered EXCEPT ![c] = 0]
  /\ UNCHANGED <<outbox, running, latest, flush, status, lastId, alive, silent, replay, history>>

----------------------------------------------------------------------------
(* Replays *)

\* isReplayTooOld.
TooOld(after) == latest > after /\ latest - after > MaxReplayLag

\* The first part of replay(): resync_required, or a read of the outbox.
BeginReplay(c, after) ==
  /\ claim' = [claim EXCEPT ![c] = after]
  /\ resync' = [resync EXCEPT ![c] = TooOld(after)]
  /\ IF TooOld(after)
     THEN UNCHANGED replay
     ELSE \E r \in Slot :
            /\ replay[c][r] = NoReplay
            /\ replay' = [replay EXCEPT ![c][r] =
                            [phase |-> "query", after |-> after, rows |-> {}]]

\* Mutant: the limit of the read is not above the limit of the replay.
ReplayLimitExact == MaxReplay

\* One row more than may be sent, to notice that there are too many.
ReplayLimit == MaxReplay + 1

ReadReplay(c, r) ==
  /\ replay[c][r].phase = "query"
  /\ LET after == replay[c][r].after IN
     replay' = [replay EXCEPT ![c][r] =
                  [phase |-> "rows", after |-> after,
                   rows |-> First(After(outbox, after), ReplayLimit)]]
  /\ UNCHANGED <<outbox, running, latest, flush, clientVars, history>>

TooMany(rows) == Cardinality(rows) > MaxReplay

\* Back from the read: resync_required, or everything that was read.
EndReplay(c, r) ==
  LET rows == replay[c][r].rows IN
  /\ replay[c][r].phase = "rows"
  /\ replay' = [replay EXCEPT ![c][r] = NoReplay]
  /\ IF TooMany(rows)
     THEN /\ resync' = [resync EXCEPT ![c] = TRUE]
          /\ status' = [status EXCEPT ![c] = AfterControl(c)]
          /\ UNCHANGED <<lastId, buffered, sent>>
     ELSE Send([d \in Socket |-> IF d = c THEN rows ELSE {}]) /\ UNCHANGED resync
  /\ UNCHANGED <<outbox, running, latest, flush, alive, silent, claim>>

----------------------------------------------------------------------------
(* Clients *)

\* Mutant: a socket that is closing does not count.
FullOfOpen == Cardinality({ c \in Clients : status[c] = "open" }) >= MaxClients

\* Not canAcceptClient().
Full == Cardinality(Clients) >= MaxClients

\* A client resumes from an id it was given before.
Resumable == {0} \cup outbox

\* add(): a full hub closes the socket at once.
Add(c) ==
  /\ running /\ status[c] = "new"
  /\ \/ /\ Full
        /\ status' = [status EXCEPT ![c] = "gone"]
        /\ UNCHANGED <<lastId, alive, replay, claim, resync>>
     \/ /\ ~Full
        /\ \E after \in Resumable :
             /\ status' = [status EXCEPT ![c] = "open"]
             /\ lastId' = [lastId EXCEPT ![c] = after]
             /\ alive' = [alive EXCEPT ![c] = TRUE]
             /\ BeginReplay(c, after)
  /\ UNCHANGED <<outbox, running, latest, flush, silent, buffered, sent>>

\* A subscribe message of an open socket.
Subscribe(c) ==
  /\ status[c] = "open" /\ ~silent[c]
  /\ \E after \in Resumable :
       /\ lastId' = [lastId EXCEPT ![c] = after]
       /\ BeginReplay(c, after)
       /\ status' = [status EXCEPT ![c] = IF TooOld(after) THEN AfterControl(c) ELSE "open"]
  /\ UNCHANGED <<outbox, running, latest, flush, alive, silent, buffered, sent>>

\* A ping is answered, which may close a socket that does not drain.
Ping(c) ==
  /\ status[c] = "open" /\ ~silent[c] /\ AfterControl(c) # "open"
  /\ status' = [status EXCEPT ![c] = AfterControl(c)]
  /\ UNCHANGED <<outbox, running, latest, flush, lastId, alive, silent, buffered, replay, history>>

\* A message too large, not JSON or with an invalid after.
BadMessage(c) ==
  /\ status[c] = "open" /\ ~silent[c]
  /\ status' = [status EXCEPT ![c] = "closing"]
  /\ UNCHANGED <<outbox, running, latest, flush, lastId, alive, silent, buffered, replay, history>>

\* The close or error event of the socket.
Closed(c) ==
  /\ c \in Clients /\ ~silent[c]
  /\ Forget({c})
  /\ alive' = [alive EXCEPT ![c] = FALSE]
  /\ UNCHANGED <<outbox, running, latest, flush, replay>>

PeerDies(c) ==
  /\ c \in Clients \cap Mortal /\ ~silent[c]
  /\ silent' = [silent EXCEPT ![c] = TRUE]
  /\ UNCHANGED <<outbox, running, latest, flush, status, lastId, alive, buffered, replay, history>>

Pong(c) ==
  /\ c \in Clients /\ ~silent[c] /\ ~alive[c]
  /\ alive' = [alive EXCEPT ![c] = TRUE]
  /\ UNCHANGED <<outbox, running, latest, flush, status, lastId, silent, buffered, replay, history>>

\* Mutant: the alive flag is not lowered.
HeartbeatKeepsAlive ==
  /\ running /\ Clients # {}
  /\ Forget({ c \in Clients : ~alive[c] })
  /\ UNCHANGED <<outbox, running, latest, flush, alive, replay>>

\* heartbeatClients: who has not answered the last ping is terminated.
Heartbeat ==
  /\ running /\ Clients # {}
  /\ Forget({ c \in Clients : ~alive[c] })
  /\ alive' = [c \in Socket |-> c \notin Clients /\ alive[c]]
  /\ UNCHANGED <<outbox, running, latest, flush, replay>>

----------------------------------------------------------------------------
(* flush *)

\* A notification, the reconnected listener or the safety poll.
StartFlush ==
  /\ running /\ flush.phase = "idle"
  /\ flush' = [phase |-> "query", rows |-> {}]
  /\ UNCHANGED <<outbox, running, latest, clientVars, replay, history>>

ReadFlush ==
  /\ flush.phase = "query"
  /\ flush' = [phase |-> "rows", rows |-> First(After(outbox, latest), MaxReplay)]
  /\ UNCHANGED <<outbox, running, latest, clientVars, replay, history>>

\* Mutant: clients with a replay in flight are left to it.
DueUnlessReplaying(c) ==
  IF \E r \in Slot : replay[c][r] # NoReplay THEN {} ELSE After(flush.rows, lastId[c])

\* A client that is ahead of the broadcast is skipped.
Due(c) == After(flush.rows, lastId[c])

\* A batch that is not full was the last one.
FlushEnds(rows) == Cardinality(rows) < MaxReplay

Broadcast ==
  LET rows == flush.rows IN
  /\ flush.phase = "rows"
  /\ Send([c \in Socket |-> Due(c)])
  /\ latest' = IF rows = {} THEN latest ELSE Highest(rows)
  /\ flush' = IF FlushEnds(rows) THEN NoFlush ELSE [phase |-> "query", rows |-> {}]
  /\ UNCHANGED <<outbox, running, alive, silent, replay, claim, resync>>

----------------------------------------------------------------------------
Client(c) ==
  \/ Add(c) \/ Subscribe(c) \/ Ping(c) \/ BadMessage(c) \/ Closed(c)
  \/ PeerDies(c) \/ Pong(c) \/ Drain(c)
  \/ \E r \in Slot : ReadReplay(c, r) \/ EndReplay(c, r)

Next ==
  \/ Publish \/ Start \/ Stop \/ Heartbeat
  \/ StartFlush \/ ReadFlush \/ Broadcast
  \/ \E c \in Socket : Client(c)

Spec == Init /\ [][Next]_vars

\* The safety poll starts a flush each second and the heartbeat runs each
\* 25 s; reads return, or the process ends; a socket told to close is closed.
FairSpec ==
  /\ Spec
  /\ WF_vars(StartFlush) /\ WF_vars(ReadFlush) /\ WF_vars(Broadcast)
  /\ WF_vars(Heartbeat)
  /\ \A c \in Socket : \A r \in Slot :
       WF_vars(ReadReplay(c, r)) /\ WF_vars(EndReplay(c, r))

----------------------------------------------------------------------------
(* Properties *)

FlushType == [phase : {"idle", "query", "rows"}, rows : SUBSET Nat]

ReplayType ==
  [phase : {"idle", "query", "rows"}, after : Nat, rows : SUBSET Nat]

\* Every variable has its type, and no send buffer exceeds its limit by more
\* than the event that reached it.
TypeOK ==
  /\ outbox \in SUBSET Nat /\ IsFiniteSet(outbox)
  /\ running \in BOOLEAN /\ latest \in Nat
  /\ flush \in FlushType
  /\ status \in [Socket -> {"new", "open", "closing", "gone"}]
  /\ lastId \in [Socket -> Nat]
  /\ alive \in [Socket -> BOOLEAN] /\ silent \in [Socket -> BOOLEAN]
  /\ buffered \in [Socket -> 0..(MaxBuffered + 1)]
  /\ replay \in [Socket -> [Slot -> ReplayType]]
  /\ claim \in [Socket -> Nat]
  /\ sent \in [Socket -> SUBSET Nat]
  /\ resync \in [Socket -> BOOLEAN]

Replaying(c) == \E r \in Slot : replay[c][r] # NoReplay

\* The hand-over between replay and broadcast loses nothing: once its
\* replays are over, a client whose socket is open has been sent every event
\* up to the last broadcast that it did not have, or was told to start over.
NothingMissed ==
  \A c \in Socket : status[c] = "open" /\ ~Replaying(c) /\ ~resync[c] =>
    \A id \in outbox : claim[c] < id /\ id <= latest => id \in sent[c]

\* lastEventId may move back when replays overlap, but flush still never
\* skips an event on its account that the client does not have.
SkipsOnlyKnown ==
  \A c \in Socket : status[c] = "open" /\ ~Replaying(c) /\ ~resync[c] =>
    \A id \in outbox : claim[c] < id /\ id <= lastId[c] => id \in sent[c]

\* The hub never holds more connections than configured, the ones it has
\* told to close and that are not closed yet included.
ClientsWithinLimit == Cardinality(Clients) <= MaxClients

\* Every event reaches every open socket, or the client is told to start
\* over; a client that does not take its events is closed.
EveryEventArrives ==
  \A c \in Socket : \A id \in 1..MaxId :
    (status[c] = "open" /\ id \in outbox /\ claim[c] < id)
      ~> (id \in sent[c] \/ resync[c] \/ status[c] # "open" \/ id <= claim[c])

\* A peer that is dead does not hold its place among the clients for ever.
DeadPeersLeave ==
  \A c \in Socket : silent[c] ~> c \notin Clients
============================================================================
