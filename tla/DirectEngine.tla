---------------------------- MODULE DirectEngine ----------------------------
(***************************************************************************)
(* PancakeV3DirectEngine, between the launchpad that calls it and the      *)
(* price verifier, Pancake V3 and the locker that it calls: a launch as    *)
(* one transaction over all of them.                                       *)
(*                                                                         *)
(* The transaction is cut where code outside the system runs: when a       *)
(* foreign engine is called, and during the developer buy, whose swaps     *)
(* call the quote token.  Whatever is called in between happens inside the *)
(* launch and is undone with it.  The parts between two cuts are atomic.   *)
(***************************************************************************)
EXTENDS Launchpad, PriceVerifier

CONSTANTS
  Direct,            \* the engine this module is about
  DirectVersion,     \* its engineVersion
  Token,             \* addresses CREATE2 may give a launched token
  Token0,            \* those that sort before the quote token
  Foreign,           \* artifacts another engine may return
  DustDivisor,       \* MAX_DUST_DIVISOR
  MinTick, MaxTick, TickSpacing,
  MaxCalls           \* bound: administrative calls

ASSUME EngineAssumption ==
  /\ Direct \in Engine /\ DirectVersion \in Version
  /\ {"token", "pool", "locker"} \X Token \subseteq Address
  /\ Token0 \subseteq Token
  /\ Version \X (1..MaxLaunches) \subseteq RecordId
  /\ Foreign \subseteq Artifacts
  /\ DustDivisor \in Nat \ {0}
  /\ MinTick \in Int /\ MaxTick \in Int /\ MinTick < 0 /\ 0 < MaxTick
  /\ TickSpacing \in Nat \ {0} /\ MaxCalls \in Nat

VARIABLES
  supply,     \* per token: its total supply, 0 before it is deployed
  pool,       \* per token: what its pool with the quote token was initialized
              \* with, NoPrice before
  position,   \* the minted positions: owner, token, ticks, tokens in it
  record,     \* _records of the engine
  frame,      \* launches in progress, the innermost last
  calls       \* administrative calls so far

storage == <<pad, verifier, startedBy, supply, pool, position, record>>
vars == <<storage, runtime, frame, calls, now>>

NoPrice == [price |-> "none"]
OtherPrice == [price |-> "other"]

\* initialSqrtPriceX96: determined by these; a price is right for one supply,
\* attestation and order of the tokens only.
InitialPrice(a, s, t) ==
  [price |-> "derived", from |-> a, supply |-> s, token0 |-> t \in Token0]

TokenOf(t) == <<"token", t>>
PoolOf(t) == <<"pool", t>>
LockerOf(t) == <<"locker", t>>

\* Addresses with code: what is deployed, and the contracts of foreign engines.
HasCode ==
  UNION { {TokenOf(t), PoolOf(t), LockerOf(t)} : t \in { u \in Token : supply[u] # 0 } }
    \cup { PoolOf(t) : t \in { u \in Token : pool[u] # NoPrice } }
    \cup (Address \ ({"token", "pool", "locker"} \X Token))

Init ==
  /\ PadInit /\ VerifierInit
  /\ runtime[Direct].kind = "DIRECT"
  /\ runtime[Direct].version = DirectVersion /\ runtime[Direct].ours
  /\ supply = [t \in Token |-> 0] /\ pool = [t \in Token |-> NoPrice]
  /\ position = <<>> /\ record = <<>> /\ frame = <<>> /\ calls = 0

(********************************** ticks *********************************)
\* Solidity's division truncates towards zero.
Quotient(n, d) == IF n >= 0 THEN n \div d ELSE -((-n) \div d)

\* Mutant: the tick is rounded towards zero.
TruncateToSpacing(n) == Quotient(n, TickSpacing) * TickSpacing

FloorToSpacing(n) ==
  LET q == Quotient(n, TickSpacing) * TickSpacing
  IN IF n < 0 /\ q # n THEN q - TickSpacing ELSE q

\* oneSidedTicks, which reverts on an empty range
OneSidedTicks(tick, isToken0) ==
  IF isToken0
  THEN [lower |-> FloorToSpacing(tick) + TickSpacing,
        upper |-> Quotient(MaxTick, TickSpacing) * TickSpacing]
  ELSE [lower |-> Quotient(MinTick, TickSpacing) * TickSpacing,
        upper |-> FloorToSpacing(tick)]

(****************************** the transaction ***************************)
Snapshot == [pad |-> pad, verifier |-> verifier, startedBy |-> startedBy,
             supply |-> supply, pool |-> pool, position |-> position,
             record |-> record]

InLaunch == frame # <<>>
Top == frame[Len(frame)]
Pop == SubSeq(frame, 1, Len(frame) - 1)

\* QuoteLaunchpad.launch up to IQuoteLaunchEngine.launch
BeginLaunch ==
  \E r \in Request :
    /\ MayLaunch(r, now)
    /\ Len(pad.launches) < MaxLaunches
    /\ Len(frame) < 2
    /\ pad' = Enter
    /\ LET v == ResolvedVersion(r)
       IN frame' = Append(frame,
            [at |-> "called", id |-> Len(pad.launches) + 1, request |-> r,
             version |-> v, engine |-> pad.engines[v].engine, before |-> Snapshot])
    /\ UNCHANGED <<verifier, startedBy, supply, pool, position, record,
                   runtime, calls, now>>

\* The attestation is for this request under this version, whatever its id.
Binds(a, r, v) ==
  /\ a.creator = r.creator
  /\ a.request = [r EXCEPT !.version = v]
  /\ a.reference = r.reference

DirectAccepts(r, v) ==
  /\ v = DirectVersion
  /\ r.mode = "STANDARD" /\ r.swapFee = 0 /\ r.rewardFee = 0
  /\ r.deadline >= now

\* The first candidate whose pool nobody has initialized.
Available(t) == supply[t] = 0 /\ pool[t] = NoPrice

\* createAndInitializePoolIfNecessary leaves an initialized pool alone.
Initialized(t, price) == IF pool[t] = NoPrice THEN price ELSE pool[t]

\* The engine from verifyAndConsume to its postconditions.
Deploy ==
  /\ InLaunch /\ Top.at = "called" /\ Top.engine = Direct
  /\ DirectAccepts(Top.request, Top.version)
  /\ \E a \in Attestation, by \in Account, t \in Token, tick \in MinTick..MaxTick :
       LET r == Top.request
           ticks == OneSidedTicks(tick, t \in Token0)
       IN /\ Binds(a, r, Top.version)
          /\ Consumable(a, by)
          /\ verifier' = Consumed(a)
          /\ Available(t)
          /\ ticks.lower < ticks.upper
          /\ \E deposited \in (r.supply - r.supply \div DustDivisor)..r.supply :
               /\ deposited # 0
               /\ supply' = [supply EXCEPT ![t] = deposited]
               /\ position' = Append(position,
                    [owner |-> LockerOf(t), token |-> t, tick |-> tick,
                     ticks |-> ticks, amount |-> deposited])
          /\ pool' = [pool EXCEPT ![t] = Initialized(t, InitialPrice(a, r.supply, t))]
          /\ pool'[t] = InitialPrice(a, r.supply, t)
          /\ frame' = Append(Pop, [at |-> "deployed", id |-> Top.id,
                        request |-> r, version |-> Top.version, engine |-> Direct,
                        before |-> Top.before, token |-> t, digest |-> a,
                        position |-> Len(position) + 1,
                        beneficiary |-> IF r.lpShare = 0 THEN r.creator ELSE r.recipient])
  /\ UNCHANGED <<pad, startedBy, record, runtime, calls, now>>

\* The rest of QuoteLaunchpad.launch, with the artifacts and the supply it reads.
Finish(a, s) ==
  /\ ArtifactsValid(a, Top.request, HasCode)
  /\ s # 0 /\ s <= Top.request.supply
  /\ pad' = Recorded(Top.id, Top.request, Top.version, Top.engine, a, s)
  /\ frame' = Pop

\* Mutant: the supply that was asked for is recorded.
RequestedSupply(t) == Top.request.supply

\* _readLaunchedTokenSupply
LaunchedSupply(t) == supply[t]

\* The engine after the developer buy writes its record and returns.
Return ==
  /\ InLaunch /\ Top.at = "deployed"
  /\ LET t == Top.token
         a == [creator |-> Top.request.creator, token |-> TokenOf(t),
               market |-> PoolOf(t), hook |-> NoAddress, vault |-> NoAddress,
               locker |-> LockerOf(t), recordId |-> <<DirectVersion, Top.id>>]
     IN /\ record' = [i \in 1..Top.id |->
                        IF i = Top.id
                        THEN [token |-> t, digest |-> Top.digest, position |-> Top.position,
                              deposited |-> position[Top.position].amount,
                              beneficiary |-> Top.beneficiary]
                        ELSE IF i \in DOMAIN record THEN record[i] ELSE <<>>]
        /\ Finish(a, LaunchedSupply(t))
  /\ UNCHANGED <<verifier, startedBy, supply, pool, position, runtime, calls, now>>

\* Another registered engine returns what it likes; only its token's supply is read.
ForeignReturn ==
  /\ InLaunch /\ Top.at = "called" /\ Top.engine # Direct
  /\ \E a \in Foreign, s \in Nat \cap 0..Top.request.supply : Finish(a, s)
  /\ UNCHANGED <<verifier, startedBy, supply, pool, position, record,
                 runtime, calls, now>>

\* A failing check, swap or call: the innermost launch is undone as a whole.
Revert ==
  /\ InLaunch
  /\ LET b == Top.before
     IN /\ pad' = b.pad /\ verifier' = b.verifier /\ startedBy' = b.startedBy
        /\ supply' = b.supply /\ pool' = b.pool /\ position' = b.position
        /\ record' = b.record
  /\ frame' = Pop
  /\ UNCHANGED <<runtime, calls, now>>

(******************************* everyone else ****************************)
AdminCall ==
  /\ calls < MaxCalls /\ calls' = calls + 1
  /\ \/ PadCall /\ UNCHANGED <<verifier, startedBy>>
     \/ VerifierCall /\ UNCHANGED pad
  /\ UNCHANGED <<supply, pool, position, record, runtime, frame, now>>

\* Anyone may create and initialize the pool of a token address known before.
InitializePool ==
  /\ \E t \in Token :
       Available(t) /\ pool' = [pool EXCEPT ![t] = OtherPrice]
  /\ UNCHANGED <<pad, verifier, startedBy, supply, position, record,
                 runtime, frame, calls, now>>

\* Engines that are proxies answer differently one day; the direct one is none.
EngineChanges ==
  /\ calls < MaxCalls /\ calls' = calls + 1
  /\ \E e \in Engine \ {Direct}, x \in Runtimes :
       runtime' = [runtime EXCEPT ![e] = x]
  /\ UNCHANGED <<storage, frame, now>>

\* Blocks pass between transactions.
NextBlock ==
  /\ ~InLaunch
  /\ Tick /\ UNCHANGED <<pad, supply, pool, position, record, runtime, frame, calls>>

Next ==
  \/ BeginLaunch \/ Deploy \/ Return \/ ForeignReturn \/ Revert
  \/ AdminCall \/ InitializePool \/ EngineChanges \/ NextBlock

Spec == Init /\ [][Next]_vars

(******************************** properties ******************************)
\* Type invariant.  The contracts' storage; what a frame holds is what the call
\* it stands for was given and has fixed so far.
TypeOK ==
  /\ verifier \in Verifiers /\ startedBy \in Account \cup {NoAccount} /\ now \in Nat
  /\ [pad EXCEPT !.launches = <<>>] \in Pads
  /\ \A i \in DOMAIN pad.launches : pad.launches[i] \in Records
  /\ runtime \in [Engine -> Runtimes]
  /\ supply \in [Token -> Nat]
  /\ \A i \in DOMAIN frame :
       /\ frame[i].id \in 1..MaxLaunches /\ frame[i].request \in Request
       /\ frame[i].version \in Version /\ frame[i].engine \in Engine
  /\ pad.entered = InLaunch

\* The index maps and the records tell the same: an artifact leads to the one
\* launch that has it, in the role the map is about, and to no other
\* (_recordArtifacts and the duplicate checks of _validateLaunchArtifacts).
IndexFindsLaunch ==
  LET L == pad.launches IN
  /\ \A i \in DOMAIN L :
       /\ \A x \in Named(L[i].artifacts) : pad.byArtifact[x] = i
       /\ pad.byToken[L[i].artifacts.token] = i
       /\ pad.byMarket[L[i].artifacts.market] = i
       /\ pad.byRecord[L[i].artifacts.recordId] = i
  /\ \A x \in Address : pad.byArtifact[x] # 0 =>
       pad.byArtifact[x] \in DOMAIN L /\ x \in Named(L[pad.byArtifact[x]].artifacts)

\* A recorded launch is never changed, removed or overwritten, whatever
\* administrators, engines and launches inside launches do.
LaunchesKept ==
  [][\A i \in DOMAIN pad.launches :
       i \in DOMAIN pad'.launches /\ pad'.launches[i] = pad.launches[i]]_vars

LaunchedDirectly(i) == pad.launches[i].engine = Direct
DirectLaunches == { i \in DOMAIN pad.launches : LaunchedDirectly(i) }

\* Once no launch is in progress, each deployed token, minted position and
\* consumed attestation belongs to exactly one recorded launch: a launch that
\* fails anywhere leaves nothing behind, and none uses what another has used.
LaunchIsAtomic ==
  ~InLaunch =>
    /\ verifier.consumed = { record[i].digest : i \in DirectLaunches }
    /\ { t \in Token : supply[t] # 0 } = { record[i].token : i \in DirectLaunches }
    /\ DOMAIN position = { record[i].position : i \in DirectLaunches }
    /\ \A i, j \in DirectLaunches : i # j =>
         /\ record[i].digest # record[j].digest
         /\ record[i].token # record[j].token
         /\ record[i].position # record[j].position

\* What the launchpad, the engine, the token, the pool and the position say of a
\* direct launch agrees: the recorded supply is the real one and lies in the
\* position, the locker it names owns that position, and the pool was
\* initialized by this launch at the price attested for its request.
RecordsAgree ==
  \A i \in DirectLaunches :
    LET l == pad.launches[i]  e == record[i]  p == position[e.position] IN
    /\ l.artifacts.token = TokenOf(e.token)
    /\ l.supply = supply[e.token] /\ l.supply = e.deposited
    /\ p.token = e.token /\ p.amount = l.supply /\ p.owner = l.artifacts.locker
    /\ e.digest.creator = l.creator /\ e.digest.request.version = l.version
    /\ pool[e.token] = InitialPrice(e.digest, e.digest.request.supply, e.token)

\* A position holds the launched token only: its range, on the tick grid, lies
\* strictly above the price if the token is token0, else below or at it
\* (oneSidedTicks, for negative ticks too).
RangesOneSided ==
  \A i \in DOMAIN position :
    LET p == position[i] IN
    /\ p.ticks.lower < p.ticks.upper
    /\ p.ticks.lower % TickSpacing = 0 /\ p.ticks.upper % TickSpacing = 0
    /\ p.ticks.lower >= MinTick /\ p.ticks.upper <= MaxTick
    /\ IF p.token \in Token0 THEN p.tick < p.ticks.lower ELSE p.ticks.upper <= p.tick
============================================================================
