----------------------------- MODULE Launchpad -----------------------------
(***************************************************************************)
(* QuoteLaunchpad: administrators, the registry of engines, and the        *)
(* recorded launches.                                                      *)
(*                                                                         *)
(* A launch calls an engine between its checks and its record, and what    *)
(* the engine calls may call the launchpad again.  Launches in progress    *)
(* are a stack of frames; a transaction that reverts is put back by the    *)
(* module that composes the contracts.  Index maps hold idPlusOne, 0 for   *)
(* absent, as in the code.                                                 *)
(***************************************************************************)
EXTENDS Integers, Sequences, FiniteSets, Accounts, FeePolicy

CONSTANTS
  Version, NoVersion, \* bytes32 engine versions
  Engine,             \* contracts that may be registered
  Code,               \* codehashes
  Address, NoAddress, \* contracts a launch may name
  QuoteToken,         \* address of the quote token of every request
  RecordId,           \* engine record ids
  Request,            \* what creators ask for
  InitialAdmin, InitialGuardian, \* arguments of initialize
  MaxLaunches         \* bound: recorded launches

Kind == {"DIRECT", "CURVE"}

ASSUME LaunchpadAssumption ==
  /\ NoVersion \notin Version
  /\ NoAddress \notin Address /\ QuoteToken \notin Address
  /\ InitialAdmin \in Account /\ InitialGuardian \in Account
  /\ MaxLaunches \in Nat
  /\ \A r \in Request :
       /\ DOMAIN r = {"creator", "version", "kind", "supply", "deadline", "mode", "swapFee",
                      "rewardFee", "lpShare", "recipient", "rewardRecipient", "reference"}
       /\ r.creator \in Account
       /\ r.version \in Version \cup {NoVersion} /\ r.kind \in Kind
       /\ r.supply \in Nat /\ r.deadline \in Nat
       /\ r.mode \in {"STANDARD", "REWARD"}
       /\ r.swapFee \in Nat /\ r.rewardFee \in Nat /\ r.lpShare \in Nat
       /\ r.recipient \in Account \cup {NoAccount}
       /\ r.rewardRecipient \in Account \cup {NoAccount}

VARIABLES
  pad,        \* the storage of the launchpad
  runtime     \* per engine: its code and what its handshake answers

\* What an engine says of itself: is it bound to this launchpad, which kind and
\* version is it.
Runtimes == [code : Code, ours : BOOLEAN, kind : Kind, version : Version]

NoEngine == [engine |-> "none"]
Configs == [engine : Engine, code : Code, kind : Kind, enabled : BOOLEAN]
Artifacts == [creator : Account, token : Address, market : Address,
              hook : Address \cup {NoAddress}, vault : Address \cup {NoAddress},
              locker : Address \cup {NoAddress}, recordId : RecordId]
Records == [creator : Account, supply : Nat, engine : Engine, version : Version,
            artifacts : Artifacts]

Pads == [admin : Account, pendingAdmin : Account \cup {NoAccount},
         guardian : Account, paused : BOOLEAN, entered : BOOLEAN,
         engines : [Version -> Configs \cup {NoEngine}],
         default : [Kind -> Version \cup {NoVersion}],
         launches : Seq(Records),
         byToken : [Address -> Nat], byMarket : [Address -> Nat],
         byArtifact : [Address -> Nat], byRecord : [RecordId -> Nat]]

\* initialize, called once by the proxy's constructor
PadInit ==
  /\ LET none == [x \in Address |-> 0] IN
     pad = [admin |-> InitialAdmin, pendingAdmin |-> NoAccount,
            guardian |-> InitialGuardian, paused |-> FALSE, entered |-> FALSE,
            engines |-> [v \in Version |-> NoEngine],
            default |-> [k \in Kind |-> NoVersion], launches |-> <<>>,
            byToken |-> none, byMarket |-> none, byArtifact |-> none,
            byRecord |-> [r \in RecordId |-> 0]]
  /\ runtime \in [Engine -> Runtimes]

(***************************** administration *****************************)
ProposeUpgradeAdmin(c, a) ==
  /\ c = pad.admin /\ a # pad.admin
  /\ pad' = [pad EXCEPT !.pendingAdmin = a]

CancelUpgradeAdminTransfer(c) ==
  c = pad.admin /\ pad' = [pad EXCEPT !.pendingAdmin = NoAccount]

AcceptUpgradeAdmin(c) ==
  /\ c = pad.pendingAdmin
  /\ pad' = [pad EXCEPT !.admin = c, !.pendingAdmin = NoAccount]

SetPauseGuardian(c, g) ==
  c = pad.admin /\ pad' = [pad EXCEPT !.guardian = g]

PauseNewLaunches(c) ==
  c \in {pad.admin, pad.guardian} /\ pad' = [pad EXCEPT !.paused = TRUE]

UnpauseNewLaunches(c) ==
  c = pad.admin /\ pad' = [pad EXCEPT !.paused = FALSE]

(********************************* engines ********************************)
HandshakeHolds(e, k, v) ==
  runtime[e].ours /\ runtime[e].kind = k /\ runtime[e].version = v

RuntimeValid(v) ==
  LET c == pad.engines[v]
  IN c.code = runtime[c.engine].code /\ HandshakeHolds(c.engine, c.kind, v)

Registered(v) == pad.engines[v] # NoEngine

WithDefault(p, k, v) == [p EXCEPT !.default[k] = v]

RegisterEngine(c, v, e, k, setAsDefault) ==
  /\ c = pad.admin
  /\ ~Registered(v)
  /\ HandshakeHolds(e, k, v)
  /\ LET p == [pad EXCEPT !.engines[v] =
                 [engine |-> e, code |-> runtime[e].code, kind |-> k, enabled |-> TRUE]]
     IN pad' = IF setAsDefault THEN WithDefault(p, k, v) ELSE p

SetEngineEnabled(c, v, enabled) ==
  /\ c = pad.admin
  /\ Registered(v)
  /\ enabled => RuntimeValid(v)
  /\ pad' = [pad EXCEPT !.engines[v].enabled = enabled]

SetDefaultEngineVersion(c, k, v) ==
  /\ c = pad.admin
  /\ Registered(v) /\ pad.engines[v].kind = k /\ pad.engines[v].enabled
  /\ RuntimeValid(v)
  /\ pad' = WithDefault(pad, k, v)

\* Every administrative call.  None of them is guarded against reentrancy.
PadCall ==
  \E c \in Account :
    \/ \E a \in Account : ProposeUpgradeAdmin(c, a) \/ SetPauseGuardian(c, a)
    \/ CancelUpgradeAdminTransfer(c) \/ AcceptUpgradeAdmin(c)
    \/ PauseNewLaunches(c) \/ UnpauseNewLaunches(c)
    \/ \E v \in Version, e \in Engine, k \in Kind, d \in BOOLEAN :
         RegisterEngine(c, v, e, k, d)
    \/ \E v \in Version, b \in BOOLEAN : SetEngineEnabled(c, v, b)
    \/ \E v \in Version, k \in Kind : SetDefaultEngineVersion(c, k, v)

(********************************* launches *******************************)
RequestValid(r, time) ==
  /\ r.supply # 0
  /\ r.deadline >= time
  /\ FeePolicyHolds(r)
  /\ r.recipient = NoAccount => r.swapFee = 0 /\ r.lpShare = 0
  /\ r.rewardFee # 0 => r.rewardRecipient # NoAccount

ResolvedVersion(r) == IF r.version = NoVersion THEN pad.default[r.kind] ELSE r.version

EngineUsable(r) ==
  /\ r.kind = "DIRECT"
  /\ LET v == ResolvedVersion(r)
     IN /\ v # NoVersion /\ Registered(v)
        /\ pad.engines[v].kind = r.kind /\ pad.engines[v].enabled
        /\ RuntimeValid(v)

\* Mutant: no reentrancy guard.
EnteredIgnored == TRUE

NotEntered == ~pad.entered

\* launch up to the engine's call: its checks, and the guard it sets.
MayLaunch(r, time) ==
  NotEntered /\ ~pad.paused /\ RequestValid(r, time) /\ EngineUsable(r)

\* Mutant: the guard is not set.
EnterUnmarked == pad

Enter == [pad EXCEPT !.entered = TRUE]

Roles == {"token", "market", "hook", "vault", "locker"}
Named(a) == { a[role] : role \in Roles } \ {NoAddress}

\* Mutant: artifacts are compared within a launch only.
FreshRecordId(a) == pad.byRecord[a.recordId] = 0

FreshArtifacts(a) ==
  /\ pad.byRecord[a.recordId] = 0
  /\ \A x \in Named(a) : pad.byArtifact[x] = 0

DistinctArtifacts(a) ==
  \A r1, r2 \in Roles : r1 # r2 /\ a[r1] = a[r2] => a[r1] = NoAddress

\* hasCode: the addresses with code but the launchpad and the engine.
ArtifactsValid(a, r, hasCode) ==
  /\ a.creator = r.creator
  /\ a.token # NoAddress /\ a.market # NoAddress
  /\ Named(a) \subseteq hasCode \ {QuoteToken}
  /\ DistinctArtifacts(a)
  /\ FreshArtifacts(a)

IndexAll(map, xs, id) == [x \in DOMAIN map |-> IF x \in xs THEN id ELSE map[x]]

\* launch after the engine's call: the record under the id taken before it.
Recorded(id, r, v, e, a, supply) ==
  LET rec == [creator |-> r.creator, supply |-> supply, engine |-> e,
              version |-> v, artifacts |-> a]
  IN [pad EXCEPT
        !.launches = [i \in 1..id |-> IF i = id THEN rec ELSE @[i]],
        !.byToken = IndexAll(@, {a.token}, id),
        !.byMarket = IndexAll(@, {a.market}, id),
        !.byArtifact = IndexAll(@, Named(a), id),
        !.byRecord = IndexAll(@, {a.recordId}, id),
        !.entered = FALSE]
============================================================================
