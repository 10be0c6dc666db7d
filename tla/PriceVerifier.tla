--------------------------- MODULE PriceVerifier ---------------------------
(***************************************************************************)
(* V2QuoteUsdPriceVerifier: its owner names a signer in two steps, and an  *)
(* attestation the signer signed is consumed once, while it is fresh.      *)
(*                                                                         *)
(* A digest is the attestation it is the hash of.  The fields compared     *)
(* with what the caller expects are compared by the caller's module; the   *)
(* checks for zero values and for code are left out, as an attestation of  *)
(* this model has its fields.  A signature is the account whose key made   *)
(* it, which is no part of what is signed.                                 *)
(***************************************************************************)
EXTENDS Integers, FiniteSets, Accounts

CONSTANTS
  Reference,          \* tokens the price may be quoted against
  Attestation,        \* what signers may be asked to sign, see the assumption
  InitialOwner, InitialSigner, MaxObservationAge,  \* constructor arguments
  MaxTime             \* bound: the last block timestamp

ASSUME VerifierAssumption ==
  /\ InitialOwner \in Account /\ InitialSigner \in Account
  /\ MaxObservationAge \in Nat \ {0} /\ MaxTime \in Nat
  /\ \A a \in Attestation :
       /\ a.creator \in Account /\ a.reference \in Reference
       /\ a.observed \in Nat \ {0} /\ a.deadline \in Nat /\ a.liquid \in BOOLEAN

VARIABLES
  verifier,   \* the storage of the contract
  startedBy,  \* history: the owner that started the pending rotation
  now         \* block.timestamp

Verifiers == [owner : Account, pendingOwner : Account \cup {NoAccount},
              signer : Account, pendingSigner : Account \cup {NoAccount},
              allowed : SUBSET Reference, consumed : SUBSET Attestation]

VerifierInit ==
  /\ verifier = [owner |-> InitialOwner, pendingOwner |-> NoAccount,
                 signer |-> InitialSigner, pendingSigner |-> NoAccount,
                 allowed |-> Reference, consumed |-> {}]
  /\ startedBy = NoAccount
  /\ now = 1

StartSignerRotation(caller, s) ==
  /\ caller = verifier.owner
  /\ s # verifier.signer
  /\ verifier' = [verifier EXCEPT !.pendingSigner = s]
  /\ startedBy' = caller

CancelSignerRotation(caller) ==
  /\ caller = verifier.owner
  /\ verifier' = [verifier EXCEPT !.pendingSigner = NoAccount]
  /\ startedBy' = NoAccount

AcceptSigner(caller) ==
  /\ caller = verifier.pendingSigner
  /\ verifier' = [verifier EXCEPT !.signer = caller, !.pendingSigner = NoAccount]
  /\ startedBy' = NoAccount

\* Ownable2Step: the old owner stays in office until the new one accepts; a
\* transfer to the zero address withdraws one that is under way.
TransferOwnership(caller, o) ==
  /\ caller = verifier.owner
  /\ verifier' = [verifier EXCEPT !.pendingOwner = o, !.pendingSigner = NoAccount]
  /\ startedBy' = NoAccount

AcceptOwnership(caller) ==
  /\ caller = verifier.pendingOwner
  /\ verifier' = [verifier EXCEPT !.owner = caller, !.pendingOwner = NoAccount]
  /\ UNCHANGED startedBy

SetReferenceTokenAllowed(caller, r, allowed) ==
  /\ caller = verifier.owner
  /\ verifier' = [verifier EXCEPT !.allowed =
                    IF allowed THEN @ \cup {r} ELSE @ \ {r}]
  /\ UNCHANGED startedBy

FieldsAreValid(a) ==
  /\ a.reference \in verifier.allowed
  /\ a.liquid
  /\ a.observed <= now /\ now - a.observed <= MaxObservationAge
  /\ a.deadline >= a.observed /\ a.deadline >= now

\* Mutant: a digest may be consumed again.
ConsumedIgnored(a) == TRUE

NotConsumed(a) == a \notin verifier.consumed

\* The verifier after verifyAndConsume; the call reverts unless Consumable.
Consumable(a, by) ==
  /\ FieldsAreValid(a)
  /\ NotConsumed(a)
  /\ by = verifier.signer

Consumed(a) == [verifier EXCEPT !.consumed = @ \cup {a}]

Tick == now < MaxTime /\ now' = now + 1 /\ UNCHANGED <<verifier, startedBy>>

\* Every call of an account but verifyAndConsume.
VerifierCall ==
  /\ UNCHANGED now
  /\ \E c \in Account :
       \/ \E s \in Account : StartSignerRotation(c, s)
       \/ \E o \in Account \cup {NoAccount} : TransferOwnership(c, o)
       \/ CancelSignerRotation(c) \/ AcceptSigner(c) \/ AcceptOwnership(c)
       \/ \E r \in Reference, b \in BOOLEAN : SetReferenceTokenAllowed(c, r, b)
============================================================================
