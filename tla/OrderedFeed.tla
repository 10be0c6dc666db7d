---------------------------- MODULE OrderedFeed ----------------------------
(***************************************************************************)
(* What a stream of outbox events promises a reader: the events behind its *)
(* starting point, each once, in ascending order and without a gap, until  *)
(* the stream is closed.                                                   *)
(***************************************************************************)
EXTENDS Outbox

CONSTANT Reader

VARIABLES
  log,        \* ids of the events so far
  open,       \* readers whose stream is open
  position,   \* per reader: everything up to this id is behind it
  read        \* per reader: the ids it was given

vars == <<log, open, position, read>>

FeedInit ==
  /\ log = {} /\ open = {}
  /\ position = [c \in Reader |-> 0]
  /\ read = [c \in Reader |-> {}]

Grow ==
  /\ \E id \in log' \ log : MayAppend(log, id) /\ log' = log \cup {id}
  /\ UNCHANGED <<open, position, read>>

Open(c) ==
  /\ c \notin open /\ read[c] = {}
  /\ open' = open \cup {c}
  /\ position' = [position EXCEPT ![c] = position'[c]]
  /\ UNCHANGED <<log, read>>

\* A reader is given the next of the events it has not had, up to some id.
Give(c) ==
  /\ c \in open
  /\ \E id \in After(log, position[c]) :
       /\ position' = [position EXCEPT ![c] = id]
       /\ read' = [read EXCEPT ![c] =
                     @ \cup { j \in After(log, position[c]) : j <= id }]
  /\ UNCHANGED <<log, open>>

Close(c) ==
  /\ c \in open
  /\ open' = open \ {c}
  /\ UNCHANGED <<log, position, read>>

FeedNext == Grow \/ \E c \in Reader : Open(c) \/ Give(c) \/ Close(c)

FeedSpec == FeedInit /\ [][FeedNext]_vars
============================================================================
