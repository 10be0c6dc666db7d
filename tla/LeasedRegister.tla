--------------------------- MODULE LeasedRegister ---------------------------
(***************************************************************************)
(* What the media cache promises of each token: one register, written by   *)
(* whoever holds the open ticket.  A ticket is granted only when none is   *)
(* open, it is never granted twice, and the register names the ticket that *)
(* wrote it.                                                               *)
(***************************************************************************)
EXTENDS Naturals

CONSTANTS Token, Content, None

VARIABLES ticket, open, value, author

registerVars == <<ticket, open, value, author>>

RegisterInit ==
  /\ ticket = [t \in Token |-> 0]
  /\ open = {}
  /\ value = [t \in Token |-> None]
  /\ author = [t \in Token |-> 0]

Grant(t) ==
  /\ t \notin open
  /\ ticket' = [ticket EXCEPT ![t] = @ + 1]
  /\ open' = open \cup {t}
  /\ UNCHANGED <<value, author>>

\* The holder gives up, or is too late.
Lapse(t) ==
  /\ t \in open
  /\ open' = open \ {t}
  /\ UNCHANGED <<ticket, value, author>>

Write(t, c) ==
  /\ t \in open
  /\ open' = open \ {t}
  /\ value' = [value EXCEPT ![t] = c]
  /\ author' = [author EXCEPT ![t] = ticket[t]]
  /\ UNCHANGED ticket

RegisterNext ==
  \E t \in Token : Grant(t) \/ Lapse(t) \/ \E c \in Content : Write(t, c)

RegisterSpec == RegisterInit /\ [][RegisterNext]_registerVars
=============================================================================
