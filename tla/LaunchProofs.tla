---------------------------- MODULE LaunchProofs ----------------------------
(***************************************************************************)
(* For any accounts, engines, requests and addresses, and any tick grid:   *)
(* what launchpad, engine, verifier, tokens, pools and positions say of a  *)
(* launch agrees, and a launch that fails leaves nothing behind.           *)
(*                                                                         *)
(* The argument: the storage is in order (Whole) whenever no launch is in  *)
(* progress, and while one is, with what it has deployed set apart; and    *)
(* the storage a launch would be put back to is in order, and holds the    *)
(* same launches.  Only one launch can be in progress, because the guard   *)
(* is set for as long as there is a frame.                                 *)
(***************************************************************************)
EXTENDS DirectEngine, SequenceTheorems, TLAPS

Prices == {NoPrice, OtherPrice}
            \cup { InitialPrice(a, s, t) : a \in Attestation, s \in Nat, t \in Token }

Positions == [owner : Address, token : Token, tick : Int,
              ticks : [lower : Int, upper : Int], amount : Nat]

Entries == [token : Token, digest : Attestation, position : Nat, deposited : Nat,
            beneficiary : Account \cup {NoAccount}]

Storages == [pad : Pads, verifier : Verifiers, startedBy : Account \cup {NoAccount},
             supply : [Token -> Nat], pool : [Token -> Prices],
             position : Seq(Positions), record : Seq(Entries \cup {<<>>})]

CalledFrames == [at : {"called"}, id : 1..MaxLaunches, request : Request,
                 version : Version, engine : Engine, before : Storages]

DeployedFrames == [at : {"deployed"}, id : 1..MaxLaunches, request : Request,
                   version : Version, engine : {Direct}, before : Storages,
                   token : Token, digest : Attestation, position : Nat,
                   beneficiary : Account \cup {NoAccount}]

DirectIn(st) == { i \in DOMAIN st.pad.launches : st.pad.launches[i].engine = Direct }

\* IndexFindsLaunch, of any storage of the launchpad
Indexed(p) ==
  /\ \A i \in DOMAIN p.launches :
       /\ \A x \in Named(p.launches[i].artifacts) : p.byArtifact[x] = i
       /\ p.byToken[p.launches[i].artifacts.token] = i
       /\ p.byMarket[p.launches[i].artifacts.market] = i
       /\ p.byRecord[p.launches[i].artifacts.recordId] = i
       /\ p.launches[i].artifacts.token # NoAddress
       /\ p.launches[i].artifacts.market # NoAddress
  /\ \A x \in Address : p.byArtifact[x] # 0 =>
       p.byArtifact[x] \in DOMAIN p.launches
         /\ x \in Named(p.launches[p.byArtifact[x]].artifacts)
  /\ \A r \in RecordId : p.byRecord[r] # 0 => p.byRecord[r] \in DOMAIN p.launches

\* Two entries, or frames, use nothing in common.
Apart(e, f) == e.digest # f.digest /\ e.token # f.token /\ e.position # f.position

\* Digests, tokens and positions belong to recorded launches, or to those of D.
Booked(st, D) ==
  LET I == DirectIn(st)  R == st.record IN
  /\ I \subseteq DOMAIN R
  /\ \A i \in I : R[i] \in Entries
  /\ st.verifier.consumed = { R[i].digest : i \in I } \cup { f.digest : f \in D }
  /\ { t \in Token : st.supply[t] # 0 } = { R[i].token : i \in I } \cup { f.token : f \in D }
  /\ DOMAIN st.position = { R[i].position : i \in I } \cup { f.position : f \in D }
  /\ \A i, j \in I : i # j => Apart(R[i], R[j])
  /\ \A i \in I, f \in D : Apart(R[i], f)

\* What token, pool and position say of e, an entry or a frame
Backed(st, e) ==
  LET p == st.position[e.position] IN
  /\ p.token = e.token /\ p.amount = st.supply[e.token] /\ p.owner = LockerOf(e.token)
  /\ st.pool[e.token] = InitialPrice(e.digest, e.digest.request.supply, e.token)

Agreed(st, D) ==
  /\ \A i \in DirectIn(st) :
       LET l == st.pad.launches[i]  e == st.record[i] IN
       /\ Backed(st, e)
       /\ l.artifacts.token = TokenOf(e.token) /\ l.artifacts.locker = LockerOf(e.token)
       /\ l.supply = st.supply[e.token] /\ l.supply = e.deposited
       /\ e.digest.creator = l.creator /\ e.digest.request.version = l.version
  /\ \A f \in D : /\ Backed(st, f)
                  /\ f.digest.creator = f.request.creator
                  /\ f.digest.request.version = f.version

\* RangesOneSided, of one position
OneSided(p) ==
  /\ p.ticks.lower < p.ticks.upper
  /\ p.ticks.lower % TickSpacing = 0 /\ p.ticks.upper % TickSpacing = 0
  /\ p.ticks.lower >= MinTick /\ p.ticks.upper <= MaxTick
  /\ IF p.token \in Token0 THEN p.tick < p.ticks.lower ELSE p.ticks.upper <= p.tick

Whole(st, D) ==
  /\ Indexed(st.pad) /\ Booked(st, D) /\ Agreed(st, D)
  /\ \A i \in DOMAIN st.position : OneSided(st.position[i])

\* The launch in progress once it has deployed
Pending == IF frame # <<>> /\ frame[1].at = "deployed" THEN {frame[1]} ELSE {}

FrameOK ==
  \/ frame = <<>> /\ ~pad.entered
  \/ /\ \E f \in CalledFrames \cup DeployedFrames : frame = <<f>>
     /\ pad.entered
     /\ frame[1].id = Len(pad.launches) + 1
     /\ frame[1].before.pad.launches = pad.launches /\ ~frame[1].before.pad.entered
     /\ Whole(frame[1].before, {})

LaunchInv ==
  /\ Snapshot \in Storages
  /\ runtime \in [Engine -> Runtimes] /\ now \in Nat /\ calls \in Nat
  /\ FrameOK
  /\ Whole(Snapshot, Pending)

-----------------------------------------------------------------------------
(* Sequences of one frame, and ticks. *)

LEMMA OneFrame ==
  ASSUME NEW x
  PROVE /\ Append(<<>>, x) = <<x>> /\ <<x>> # <<>> /\ Len(<<x>>) = 1 /\ <<x>>[1] = x
        /\ SubSeq(<<x>>, 1, 0) = <<>> /\ DOMAIN <<x>> = {1}
<1>1. Append(<<>>, x) = <<x>>
  OBVIOUS
<1>2. <<x>> # <<>> /\ Len(<<x>>) = 1 /\ <<x>>[1] = x
  OBVIOUS
<1>3. SubSeq(<<x>>, 1, 0) = <<>> /\ DOMAIN <<x>> = {1}
  OBVIOUS
<1> QED BY <1>1, <1>2, <1>3

\* A multiple of the spacing lies on the grid, also below zero.
LEMMA MultipleOnGrid ==
  ASSUME NEW k \in Int, NEW d \in Nat \ {0}
  PROVE k * d \in Int /\ (k * d) % d = 0
OBVIOUS

LEMMA QuotientIs ==
  ASSUME NEW n \in Nat, NEW d \in Nat \ {0}
  PROVE /\ n \div d \in Nat /\ n \div d <= n
        /\ (n \div d) * d <= n /\ n < (n \div d) * d + d
<1>1. n \div d \in Nat /\ n = (d * (n \div d)) + (n % d)
  OBVIOUS
<1>2. n % d \in Nat /\ n % d < d
  OBVIOUS
<1> DEFINE q == n \div d
<1> HIDE DEF q
<1>3. q \in Nat /\ q * d = d * q
  BY <1>1 DEF q
<1>4. q <= d * q
  <2>1. (d - 1) * q \in Nat /\ (d - 1) * q = d * q - q
    BY <1>3
  <2> QED BY <1>3, <2>1
<1> QED BY <1>1, <1>2, <1>3, <1>4 DEF q

\* FloorToSpacing is the highest grid point at or below the tick.
LEMMA FloorIs ==
  ASSUME NEW n \in Int
  PROVE /\ FloorToSpacing(n) \in Int /\ FloorToSpacing(n) % TickSpacing = 0
        /\ (FloorToSpacing(n) + TickSpacing) % TickSpacing = 0
        /\ FloorToSpacing(n) <= n /\ n < FloorToSpacing(n) + TickSpacing
<1> DEFINE T == TickSpacing
<1>0. T \in Nat \ {0}
  BY EngineAssumption
<1> SUFFICES \E k \in Int : /\ FloorToSpacing(n) = k * T
                            /\ k * T <= n /\ n < k * T + T
  <2> PICK k \in Int : /\ FloorToSpacing(n) = k * T /\ k * T <= n /\ n < k * T + T
    OBVIOUS
  <2>1. k * T + T = (k + 1) * T /\ k + 1 \in Int
    BY <1>0
  <2>2. k * T \in Int /\ (k * T) % T = 0 /\ ((k + 1) * T) % T = 0
    BY <1>0, <2>1, MultipleOnGrid
  <2> QED BY <2>1, <2>2
<1>1. CASE n >= 0
  <2>1. n \in Nat
    BY <1>1
  <2>2. /\ n \div T \in Nat /\ (n \div T) * T <= n /\ n < (n \div T) * T + T
    BY <1>0, <2>1, QuotientIs
  <2>3. FloorToSpacing(n) = (n \div T) * T
    BY <1>1 DEF FloorToSpacing, Quotient
  <2> QED BY <2>2, <2>3
<1>2. CASE n < 0
  <2> DEFINE m == -n  q == m \div T
  <2>1. m \in Nat
    BY <1>2
  <2>2. /\ q \in Nat /\ q * T <= m /\ m < q * T + T
    BY <1>0, <2>1, QuotientIs
  <2>3. Quotient(n, T) = -q
    BY <1>2 DEF Quotient
  <2>4. FloorToSpacing(n) = IF (-q) * T # n THEN (-q) * T - T ELSE (-q) * T
    BY <1>2, <2>3 DEF FloorToSpacing
  <2> HIDE DEF q
  <2>5. (-q) * T = -(q * T) /\ (-q) * T - T = (-q - 1) * T /\ -q \in Int /\ -q - 1 \in Int
    BY <1>0, <2>2
  <2>6. q * T \in Nat
    BY <1>0, <2>2
  <2>7. CASE (-q) * T = n
    BY <1>0, <2>4, <2>5, <2>6, <2>7
  <2>8. CASE (-q) * T # n
    <3>1. FloorToSpacing(n) = (-q - 1) * T
      BY <2>4, <2>5, <2>8
    <3>2. (-q - 1) * T <= n /\ n < (-q - 1) * T + T
      BY <1>0, <2>1, <2>2, <2>5, <2>6, <2>8
    <3> QED BY <3>1, <3>2, <2>5
  <2> QED BY <2>7, <2>8
<1> QED BY <1>1, <1>2

\* The ends of the tick range, rounded towards zero, stay within it.
LEMMA EndsInRange ==
  LET low == Quotient(MinTick, TickSpacing) * TickSpacing
      high == Quotient(MaxTick, TickSpacing) * TickSpacing
  IN /\ low \in Int /\ low % TickSpacing = 0 /\ MinTick <= low
     /\ high \in Int /\ high % TickSpacing = 0 /\ high <= MaxTick
<1> DEFINE T == TickSpacing
<1>0. T \in Nat \ {0} /\ MinTick \in Int /\ MaxTick \in Int /\ MinTick < 0 /\ 0 < MaxTick
  BY EngineAssumption
<1>1. /\ Quotient(MaxTick, T) * T \in Int /\ (Quotient(MaxTick, T) * T) % T = 0
      /\ Quotient(MaxTick, T) * T <= MaxTick
  <2>1. Quotient(MaxTick, T) = MaxTick \div T /\ MaxTick \in Nat
    BY <1>0 DEF Quotient
  <2>2. MaxTick \div T \in Nat /\ (MaxTick \div T) * T <= MaxTick
    BY <1>0, <2>1, QuotientIs
  <2>3. (MaxTick \div T) * T \in Int /\ ((MaxTick \div T) * T) % T = 0
    BY <1>0, <2>2, MultipleOnGrid
  <2> QED BY <2>1, <2>2, <2>3
<1>2. /\ Quotient(MinTick, T) * T \in Int /\ (Quotient(MinTick, T) * T) % T = 0
      /\ MinTick <= Quotient(MinTick, T) * T
  <2> DEFINE q == (-MinTick) \div T
  <2>1. Quotient(MinTick, T) = -q /\ -MinTick \in Nat
    BY <1>0 DEF Quotient
  <2>2. q \in Nat /\ q * T <= -MinTick
    BY <1>0, <2>1, QuotientIs
  <2> HIDE DEF q
  <2>3. -q \in Int /\ (-q) * T = -(q * T) /\ q * T \in Nat
    BY <1>0, <2>2
  <2>4. (-q) * T \in Int /\ ((-q) * T) % T = 0
    BY <1>0, <2>3, MultipleOnGrid
  <2> QED BY <1>0, <2>1, <2>2, <2>3, <2>4
<1> QED BY <1>1, <1>2

\* oneSidedTicks keeps the launched token on one side of every price.
LEMMA TicksAreOneSided ==
  ASSUME NEW tick \in MinTick..MaxTick, NEW t \in Token, NEW p,
         p.token = t, p.tick = tick, p.ticks = OneSidedTicks(tick, t \in Token0),
         p.ticks.lower < p.ticks.upper
  PROVE p.ticks \in [lower : Int, upper : Int] /\ OneSided(p)
<1>0. /\ MinTick \in Int /\ MaxTick \in Int /\ tick \in Int /\ TickSpacing \in Nat \ {0}
      /\ MinTick <= tick /\ tick <= MaxTick
  BY EngineAssumption
<1> DEFINE F == FloorToSpacing(tick)
           low == Quotient(MinTick, TickSpacing) * TickSpacing
           high == Quotient(MaxTick, TickSpacing) * TickSpacing
<1>1. /\ F \in Int /\ F % TickSpacing = 0 /\ (F + TickSpacing) % TickSpacing = 0
      /\ F <= tick /\ tick < F + TickSpacing
  BY <1>0, FloorIs
<1>2. /\ low \in Int /\ low % TickSpacing = 0 /\ MinTick <= low
      /\ high \in Int /\ high % TickSpacing = 0 /\ high <= MaxTick
  BY EndsInRange
<1>3. CASE t \in Token0
  <2>1. p.ticks = [lower |-> F + TickSpacing, upper |-> high]
    BY <1>3 DEF OneSidedTicks
  <2> HIDE DEF F, high
  <2> QED BY <1>0, <1>1, <1>2, <1>3, <2>1 DEF OneSided
<1>4. CASE t \notin Token0
  <2>1. p.ticks = [lower |-> low, upper |-> F]
    BY <1>4 DEF OneSidedTicks
  <2> HIDE DEF F, low
  <2> QED BY <1>0, <1>1, <1>2, <1>4, <2>1 DEF OneSided
<1> QED BY <1>3, <1>4

-----------------------------------------------------------------------------
(* Storage that is changed in nothing the books are about. *)

SameLists(p, q) ==
  /\ p.launches = q.launches /\ p.byToken = q.byToken /\ p.byMarket = q.byMarket
  /\ p.byArtifact = q.byArtifact /\ p.byRecord = q.byRecord

LEMMA SameBooks ==
  ASSUME NEW st \in Storages, NEW u \in Storages, NEW D, Whole(st, D),
         \A f \in D : f.token \in Token,
         SameLists(u.pad, st.pad), u.verifier.consumed = st.verifier.consumed,
         u.supply = st.supply, u.position = st.position, u.record = st.record,
         \A t \in Token : st.supply[t] # 0 => u.pool[t] = st.pool[t]
  PROVE Whole(u, D)
<1>1. Indexed(u.pad)
  BY DEF SameLists, Indexed, Whole
<1>2. DirectIn(u) = DirectIn(st)
  BY DEF SameLists, DirectIn
<1>3. Booked(u, D)
  BY <1>2 DEF Booked, Whole
<1>4. Agreed(u, D)
  <2>1. ASSUME NEW e, e.token \in Token, st.supply[e.token] # 0, Backed(st, e)
        PROVE Backed(u, e)
    BY <2>1 DEF Backed
  <2>2. \A i \in DirectIn(st) : st.record[i].token \in Token /\ st.supply[st.record[i].token] # 0
    BY DEF Whole, Booked, Entries
  <2>3. \A f \in D : f.token \in Token /\ st.supply[f.token] # 0
    BY DEF Whole, Booked
  <2>4. \A i \in DirectIn(st) : Backed(u, st.record[i])
    BY <2>1, <2>2 DEF Whole, Agreed
  <2>5. \A f \in D : Backed(u, f)
    BY <2>1, <2>3 DEF Whole, Agreed
  <2> QED BY <1>2, <2>4, <2>5 DEF Whole, Agreed, SameLists
<1> QED BY <1>1, <1>3, <1>4 DEF Whole

\* No administrative call changes a launch, an index map or the guard.
LEMMA PadCallKeeps ==
  ASSUME pad \in Pads, runtime \in [Engine -> Runtimes], PadCall
  PROVE pad' \in Pads /\ SameLists(pad', pad) /\ pad'.entered = pad.entered
<1> PICK c \in Account :
    \/ \E a \in Account : ProposeUpgradeAdmin(c, a) \/ SetPauseGuardian(c, a)
    \/ CancelUpgradeAdminTransfer(c) \/ AcceptUpgradeAdmin(c)
    \/ PauseNewLaunches(c) \/ UnpauseNewLaunches(c)
    \/ \E v \in Version, e \in Engine, k \in Kind, d \in BOOLEAN :
         RegisterEngine(c, v, e, k, d)
    \/ \E v \in Version, b \in BOOLEAN : SetEngineEnabled(c, v, b)
    \/ \E v \in Version, k \in Kind : SetDefaultEngineVersion(c, k, v)
  BY DEF PadCall
<1>1. CASE \E a \in Account : ProposeUpgradeAdmin(c, a) \/ SetPauseGuardian(c, a)
  BY <1>1 DEF ProposeUpgradeAdmin, SetPauseGuardian, Pads, SameLists
<1>2. CASE CancelUpgradeAdminTransfer(c) \/ AcceptUpgradeAdmin(c)
  BY <1>2 DEF CancelUpgradeAdminTransfer, AcceptUpgradeAdmin, Pads, SameLists
<1>3. CASE PauseNewLaunches(c) \/ UnpauseNewLaunches(c)
  BY <1>3 DEF PauseNewLaunches, UnpauseNewLaunches, Pads, SameLists
<1>4. ASSUME NEW v \in Version, NEW e \in Engine, NEW k \in Kind, NEW d \in BOOLEAN,
             RegisterEngine(c, v, e, k, d)
      PROVE pad' \in Pads /\ SameLists(pad', pad) /\ pad'.entered = pad.entered
  <2> DEFINE config == [engine |-> e, code |-> runtime[e].code, kind |-> k, enabled |-> TRUE]
             p == [pad EXCEPT !.engines[v] = config]
  <2>1. runtime[e].code \in Code
    BY DEF Runtimes
  <2>2. config \in Configs
    BY <2>1 DEF Configs
  <2>3. p \in Pads /\ SameLists(p, pad) /\ p.entered = pad.entered
    <3> HIDE DEF config
    <3> QED BY <2>2 DEF Pads, SameLists
  <2>4. pad' = p \/ pad' = WithDefault(p, k, v)
    BY <1>4 DEF RegisterEngine
  <2>5. WithDefault(p, k, v) \in Pads /\ SameLists(WithDefault(p, k, v), p)
        /\ WithDefault(p, k, v).entered = p.entered
    <3> HIDE DEF p
    <3> QED BY <2>3 DEF WithDefault, Pads, SameLists
  <2> HIDE DEF p
  <2> QED BY <2>3, <2>4, <2>5 DEF SameLists
<1>5. ASSUME NEW v \in Version, NEW b \in BOOLEAN, SetEngineEnabled(c, v, b)
      PROVE pad' \in Pads /\ SameLists(pad', pad) /\ pad'.entered = pad.entered
  <2>1. pad.engines[v] \in Configs
    BY <1>5 DEF SetEngineEnabled, Registered, Pads
  <2>2. [pad.engines[v] EXCEPT !.enabled = b] \in Configs
    BY <2>1 DEF Configs
  <2>3. pad' = [pad EXCEPT !.engines = [pad.engines EXCEPT ![v] =
                  [pad.engines[v] EXCEPT !.enabled = b]]]
    BY <1>5 DEF SetEngineEnabled, Pads
  <2> QED BY <2>2, <2>3 DEF Pads, SameLists
<1>6. ASSUME NEW v \in Version, NEW k \in Kind, SetDefaultEngineVersion(c, k, v)
      PROVE pad' \in Pads /\ SameLists(pad', pad) /\ pad'.entered = pad.entered
  BY <1>6 DEF SetDefaultEngineVersion, WithDefault, Pads, SameLists
<1> QED BY <1>1, <1>2, <1>3, <1>4, <1>5, <1>6

\* Every call of the verifier but verifyAndConsume leaves the digests alone.
LEMMA VerifierCallKeeps ==
  ASSUME verifier \in Verifiers, startedBy \in Account \cup {NoAccount}, VerifierCall
  PROVE /\ verifier' \in Verifiers /\ verifier'.consumed = verifier.consumed
        /\ startedBy' \in Account \cup {NoAccount}
<1> PICK c \in Account :
       \/ \E s \in Account : StartSignerRotation(c, s)
       \/ \E o \in Account \cup {NoAccount} : TransferOwnership(c, o)
       \/ CancelSignerRotation(c) \/ AcceptSigner(c) \/ AcceptOwnership(c)
       \/ \E r \in Reference, b \in BOOLEAN : SetReferenceTokenAllowed(c, r, b)
  BY DEF VerifierCall
<1>1. CASE \E s \in Account : StartSignerRotation(c, s)
  BY <1>1 DEF StartSignerRotation, Verifiers
<1>2. CASE CancelSignerRotation(c) \/ AcceptSigner(c) \/ AcceptOwnership(c)
  BY <1>2 DEF CancelSignerRotation, AcceptSigner, AcceptOwnership, Verifiers
<1>3. CASE \E r \in Reference, b \in BOOLEAN : SetReferenceTokenAllowed(c, r, b)
  <2> PICK r \in Reference, b \in BOOLEAN : SetReferenceTokenAllowed(c, r, b)
    BY <1>3
  <2>1. (IF b THEN verifier.allowed \cup {r} ELSE verifier.allowed \ {r}) \in SUBSET Reference
    BY DEF Verifiers
  <2> QED BY <2>1 DEF SetReferenceTokenAllowed, Verifiers
<1>4. CASE \E o \in Account \cup {NoAccount} : TransferOwnership(c, o)
  BY <1>4 DEF TransferOwnership, Verifiers
<1> QED BY <1>1, <1>2, <1>3, <1>4

-----------------------------------------------------------------------------
(* What a launch records. *)

\* A record a[role], by the names of its fields
LEMMA ArtifactsAreNamed ==
  ASSUME NEW a \in Artifacts
  PROVE /\ Named(a) \subseteq Address
        /\ a.token # NoAddress => a.token \in Named(a)
        /\ a.market # NoAddress => a.market \in Named(a)
<1>1. \A role \in Roles : a[role] \in Address \cup {NoAddress}
  BY DEF Artifacts, Roles
<1>2. /\ a["token"] # NoAddress => a["token"] \in Named(a)
      /\ a["market"] # NoAddress => a["market"] \in Named(a)
  BY DEF Named, Roles
<1> QED BY <1>1, <1>2 DEF Named

\* The record is the last launch, the others and their index entries stay, and
\* the maps lead to it from all it names.
LEMMA RecordedKeeps ==
  ASSUME pad \in Pads, Indexed(pad), NEW id, id = Len(pad.launches) + 1,
         NEW r, r.creator \in Account, NEW v \in Version, NEW e \in Engine,
         NEW a \in Artifacts, NEW s \in Nat,
         a.token # NoAddress, a.market # NoAddress, FreshArtifacts(a)
  PROVE LET q == Recorded(id, r, v, e, a, s)
            l == [creator |-> r.creator, supply |-> s, engine |-> e,
                  version |-> v, artifacts |-> a]
        IN /\ q \in Pads /\ ~q.entered /\ Indexed(q)
           /\ id \in Nat \ {0} /\ DOMAIN pad.launches = 1..(id - 1)
           /\ DOMAIN q.launches = 1..id /\ q.launches[id] = l
           /\ \A i \in DOMAIN pad.launches : q.launches[i] = pad.launches[i]
<1> DEFINE q == Recorded(id, r, v, e, a, s)
           l == [creator |-> r.creator, supply |-> s, engine |-> e,
                 version |-> v, artifacts |-> a]
           L == pad.launches
           M == [i \in 1..id |-> IF i = id THEN l ELSE L[i]]
<1>1. /\ L \in Seq(Records) /\ Len(L) \in Nat /\ DOMAIN L = 1..(id - 1) /\ id \in Nat \ {0}
      /\ pad.byToken \in [Address -> Nat] /\ pad.byMarket \in [Address -> Nat]
      /\ pad.byArtifact \in [Address -> Nat] /\ pad.byRecord \in [RecordId -> Nat]
  <2>1. L \in Seq(Records)
    BY DEF Pads
  <2>2. Len(L) \in Nat /\ DOMAIN L = 1..Len(L)
    BY <2>1
  <2> QED BY <2>1, <2>2 DEF Pads
<1>2. l \in Records
  BY DEF Records
<1>3. M \in Seq(Records) /\ DOMAIN M = 1..id /\ M[id] = l
      /\ \A i \in DOMAIN L : M[i] = L[i]
  <2>1. \A i \in 1..id : M[i] \in Records
    <3> HIDE DEF l
    <3>1. \A i \in 1..(id - 1) : L[i] \in Records
      BY <1>1
    <3> QED BY <1>1, <1>2, <3>1
  <2> HIDE DEF l
  <2>2. M \in [1..id -> Records]
    BY <2>1
  <2>3. M \in Seq(Records)
    BY <1>1, <2>2
  <2> QED BY <1>1, <2>3
<1>4. /\ a.token \in Address /\ a.market \in Address /\ a.recordId \in RecordId
      /\ Named(a) \subseteq Address /\ a.token \in Named(a) /\ a.market \in Named(a)
  BY ArtifactsAreNamed DEF Artifacts
<1>5. /\ q.launches = M /\ q.entered = FALSE
      /\ q.byToken = IndexAll(pad.byToken, {a.token}, id)
      /\ q.byMarket = IndexAll(pad.byMarket, {a.market}, id)
      /\ q.byArtifact = IndexAll(pad.byArtifact, Named(a), id)
      /\ q.byRecord = IndexAll(pad.byRecord, {a.recordId}, id)
  BY DEF Recorded, Pads
<1>6. /\ q.byToken \in [Address -> Nat] /\ q.byMarket \in [Address -> Nat]
      /\ q.byArtifact \in [Address -> Nat] /\ q.byRecord \in [RecordId -> Nat]
      /\ \A x \in Address : q.byArtifact[x] = IF x \in Named(a) THEN id ELSE pad.byArtifact[x]
      /\ \A x \in Address : q.byToken[x] = IF x = a.token THEN id ELSE pad.byToken[x]
      /\ \A x \in Address : q.byMarket[x] = IF x = a.market THEN id ELSE pad.byMarket[x]
      /\ \A x \in RecordId : q.byRecord[x] = IF x = a.recordId THEN id ELSE pad.byRecord[x]
  <2> HIDE DEF q
  <2>1. /\ q.byArtifact \in [Address -> Nat]
        /\ \A x \in Address : q.byArtifact[x] = IF x \in Named(a) THEN id ELSE pad.byArtifact[x]
    BY <1>1, <1>5 DEF IndexAll
  <2>2. /\ q.byToken \in [Address -> Nat]
        /\ \A x \in Address : q.byToken[x] = IF x = a.token THEN id ELSE pad.byToken[x]
    BY <1>1, <1>5 DEF IndexAll
  <2>3. /\ q.byMarket \in [Address -> Nat]
        /\ \A x \in Address : q.byMarket[x] = IF x = a.market THEN id ELSE pad.byMarket[x]
    BY <1>1, <1>5 DEF IndexAll
  <2>4. /\ q.byRecord \in [RecordId -> Nat]
        /\ \A x \in RecordId : q.byRecord[x] = IF x = a.recordId THEN id ELSE pad.byRecord[x]
    BY <1>1, <1>5 DEF IndexAll
  <2> QED BY <2>1, <2>2, <2>3, <2>4
<1>7. q \in Pads
  <2>2. q = [pad EXCEPT !.launches = q.launches, !.byToken = q.byToken,
               !.byMarket = q.byMarket, !.byArtifact = q.byArtifact,
               !.byRecord = q.byRecord, !.entered = FALSE]
    BY DEF Recorded, Pads
  <2>3. q.launches \in Seq(Records)
    BY <1>3, <1>5
  <2> HIDE DEF q
  <2> QED BY <1>6, <2>2, <2>3 DEF Pads
<1>8. Indexed(q)
  <2> HIDE DEF q, l, M
  <2>1. \A x \in Named(a) : pad.byArtifact[x] = 0
    BY DEF FreshArtifacts
  <2>2. pad.byRecord[a.recordId] = 0
    BY DEF FreshArtifacts
  <2>3. ASSUME NEW i \in DOMAIN L
        PROVE /\ \A x \in Named(L[i].artifacts) : q.byArtifact[x] = i
              /\ q.byToken[L[i].artifacts.token] = i
              /\ q.byMarket[L[i].artifacts.market] = i
              /\ q.byRecord[L[i].artifacts.recordId] = i
              /\ L[i].artifacts.token # NoAddress /\ L[i].artifacts.market # NoAddress
    <3> DEFINE b == L[i].artifacts
    <3>1. L[i] \in Records
      BY <1>1
    <3>2. b \in Artifacts
      BY <3>1 DEF Records
    <3>3. /\ \A x \in Named(b) : pad.byArtifact[x] = i
          /\ pad.byToken[b.token] = i /\ pad.byMarket[b.market] = i
          /\ pad.byRecord[b.recordId] = i /\ b.token # NoAddress /\ b.market # NoAddress
      BY DEF Indexed
    <3> HIDE DEF b
    <3>4. /\ Named(b) \subseteq Address /\ b.token \in Named(b) /\ b.market \in Named(b)
          /\ b.recordId \in RecordId
      BY <3>2, <3>3, ArtifactsAreNamed DEF Artifacts
    <3>5. i # 0
      BY <1>1
    <3>6. /\ \A x \in Named(b) : q.byArtifact[x] = i
          /\ q.byToken[b.token] = i /\ q.byMarket[b.market] = i /\ q.byRecord[b.recordId] = i
      <4>1. \A x \in Named(b) : x \in Address /\ x \notin Named(a)
        BY <2>1, <3>3, <3>4, <3>5
      <4>2. b.token # a.token /\ b.market # a.market /\ b.recordId # a.recordId
        BY <1>4, <2>2, <3>3, <3>4, <3>5, <4>1
      <4>3. \A x \in Named(b) : q.byArtifact[x] = i
        BY <1>6, <3>3, <4>1
      <4>4. q.byToken[b.token] = i /\ q.byMarket[b.market] = i /\ q.byRecord[b.recordId] = i
        BY <1>6, <3>3, <3>4, <4>2
      <4> QED BY <4>3, <4>4
    <3> QED BY <3>3, <3>6 DEF b
  <2>4. /\ \A x \in Named(a) : q.byArtifact[x] = id
        /\ q.byToken[a.token] = id /\ q.byMarket[a.market] = id /\ q.byRecord[a.recordId] = id
    BY <1>4, <1>6
  <2>5. l.artifacts = a
    BY DEF l
  <2>6. \A i \in DOMAIN M : i = id \/ i \in DOMAIN L
    BY <1>1, <1>3
  <2>7. \A i \in DOMAIN M :
          /\ \A x \in Named(M[i].artifacts) : q.byArtifact[x] = i
          /\ q.byToken[M[i].artifacts.token] = i
          /\ q.byMarket[M[i].artifacts.market] = i
          /\ q.byRecord[M[i].artifacts.recordId] = i
          /\ M[i].artifacts.token # NoAddress /\ M[i].artifacts.market # NoAddress
    <3>1. ASSUME NEW i \in DOMAIN M, i = id
          PROVE M[i].artifacts = a
      BY <1>3, <2>5, <3>1
    <3>2. ASSUME NEW i \in DOMAIN L
          PROVE M[i].artifacts = L[i].artifacts
      BY <1>3
    <3> QED BY <2>3, <2>4, <2>6, <3>1, <3>2
  <2>8. ASSUME NEW x \in Address, q.byArtifact[x] # 0
        PROVE q.byArtifact[x] \in DOMAIN M /\ x \in Named(M[q.byArtifact[x]].artifacts)
    <3>1. CASE x \in Named(a)
      <4>1. q.byArtifact[x] = id /\ id \in DOMAIN M
        BY <1>1, <1>3, <1>6, <3>1
      <4> QED BY <1>3, <2>5, <3>1, <4>1
    <3>2. CASE x \notin Named(a)
      <4>1. q.byArtifact[x] = pad.byArtifact[x]
        BY <1>6, <3>2
      <4>2. pad.byArtifact[x] \in DOMAIN L /\ x \in Named(L[pad.byArtifact[x]].artifacts)
        BY <2>8, <4>1 DEF Indexed
      <4> QED BY <1>1, <1>3, <4>1, <4>2
    <3> QED BY <3>1, <3>2
  <2>9. \A x \in RecordId : q.byRecord[x] # 0 => q.byRecord[x] \in DOMAIN M
    <3>1. id \in DOMAIN M /\ DOMAIN L \subseteq DOMAIN M
      BY <1>1, <1>3
    <3>2. \A x \in RecordId : pad.byRecord[x] # 0 => pad.byRecord[x] \in DOMAIN L
      BY DEF Indexed
    <3> QED BY <1>6, <3>1, <3>2
  <2> QED BY <1>5, <2>7, <2>8, <2>9 DEF Indexed
<1> QED BY <1>1, <1>3, <1>5, <1>7, <1>8

-----------------------------------------------------------------------------
(* One step at a time. *)

Kept == \A i \in DOMAIN pad.launches :
          i \in DOMAIN pad'.launches /\ pad'.launches[i] = pad.launches[i]

\* The parts of the storage, typed
LEMMA StorageIs ==
  ASSUME LaunchInv
  PROVE /\ pad \in Pads /\ verifier \in Verifiers /\ startedBy \in Account \cup {NoAccount}
        /\ supply \in [Token -> Nat] /\ pool \in [Token -> Prices]
        /\ position \in Seq(Positions) /\ record \in Seq(Entries \cup {<<>>})
        /\ Snapshot.pad = pad /\ Snapshot.verifier = verifier /\ Snapshot.supply = supply
        /\ Snapshot.pool = pool /\ Snapshot.position = position /\ Snapshot.record = record
BY DEF LaunchInv, Snapshot, Storages

\* The one frame of a launch in progress
LEMMA FrameIs ==
  ASSUME LaunchInv, InLaunch
  PROVE /\ Top = frame[1] /\ Pop = <<>> /\ frame = <<Top>> /\ pad.entered
        /\ Top.at = "called" => Top \in CalledFrames /\ Pending = {}
        /\ Top.at = "deployed" => Top \in DeployedFrames /\ Pending = {Top}
        /\ Top.at \in {"called", "deployed"}
        /\ Top.id \in 1..MaxLaunches /\ Top.id = Len(pad.launches) + 1
        /\ Top.request \in Request /\ Top.version \in Version /\ Top.engine \in Engine
        /\ Top.before \in Storages /\ Top.before.pad.launches = pad.launches
        /\ ~Top.before.pad.entered /\ Whole(Top.before, {})
<1>1. PICK f \in CalledFrames \cup DeployedFrames : frame = <<f>>
  BY DEF LaunchInv, FrameOK, InLaunch
<1>2. Len(frame) = 1 /\ frame[1] = f
  BY <1>1, OneFrame
<1>3. Top = f
  BY <1>2 DEF Top
<1>4. Pop = <<>>
  BY <1>1, <1>2, OneFrame DEF Pop
<1>5. /\ pad.entered /\ f.id = Len(pad.launches) + 1
      /\ f.before.pad.launches = pad.launches
      /\ ~f.before.pad.entered /\ Whole(f.before, {})
  BY <1>2 DEF LaunchInv, FrameOK, InLaunch
<1>6. /\ f.id \in 1..MaxLaunches /\ f.request \in Request /\ f.version \in Version
      /\ f.before \in Storages /\ f.engine \in Engine
  BY EngineAssumption DEF CalledFrames, DeployedFrames
<1>7. /\ f.at \in {"called", "deployed"}
      /\ f.at = "called" => f \in CalledFrames
      /\ f.at = "deployed" => f \in DeployedFrames
  BY DEF CalledFrames, DeployedFrames
<1>8. Pending = IF f.at = "deployed" THEN {f} ELSE {}
  BY <1>2 DEF Pending, InLaunch
<1> QED BY <1>1, <1>2, <1>3, <1>4, <1>5, <1>6, <1>7, <1>8

LEMMA PendingTokens ==
  ASSUME LaunchInv
  PROVE \A f \in Pending : f.token \in Token
<1>1. CASE InLaunch
  BY <1>1, FrameIs DEF DeployedFrames
<1>2. CASE ~InLaunch
  BY <1>2 DEF InLaunch, Pending
<1> QED BY <1>1, <1>2

\* Steps that touch neither frames nor books
LEMMA QuietKeeps ==
  ASSUME LaunchInv, Snapshot' \in Storages, frame' = frame,
         SameLists(pad', pad), pad'.entered = pad.entered,
         verifier'.consumed = verifier.consumed, supply' = supply, position' = position,
         record' = record, \A t \in Token : supply[t] # 0 => pool'[t] = pool[t],
         runtime' \in [Engine -> Runtimes], now' \in Nat, calls' \in Nat
  PROVE LaunchInv' /\ Kept
<1>1. Pending' = Pending
  BY DEF Pending
<1>2. Whole(Snapshot', Pending)
  <2>1. /\ Snapshot \in Storages /\ Whole(Snapshot, Pending)
        /\ \A f \in Pending : f.token \in Token
    BY PendingTokens DEF LaunchInv
  <2>2. /\ SameLists(Snapshot'.pad, Snapshot.pad)
        /\ Snapshot'.verifier.consumed = Snapshot.verifier.consumed
        /\ Snapshot'.supply = Snapshot.supply /\ Snapshot'.position = Snapshot.position
        /\ Snapshot'.record = Snapshot.record
        /\ \A t \in Token : Snapshot.supply[t] # 0 => Snapshot'.pool[t] = Snapshot.pool[t]
    BY DEF Snapshot
  <2> QED BY <2>1, <2>2, SameBooks
<1>3. FrameOK'
  BY DEF LaunchInv, FrameOK, SameLists
<1>4. Kept
  BY DEF Kept, SameLists
<1> QED BY <1>1, <1>2, <1>3, <1>4 DEF LaunchInv

LEMMA OthersKeep ==
  ASSUME LaunchInv,
         AdminCall \/ InitializePool \/ EngineChanges \/ NextBlock \/ UNCHANGED vars
  PROVE LaunchInv' /\ Kept
<1>0. /\ pad \in Pads /\ verifier \in Verifiers /\ startedBy \in Account \cup {NoAccount}
      /\ supply \in [Token -> Nat] /\ pool \in [Token -> Prices]
      /\ position \in Seq(Positions) /\ record \in Seq(Entries \cup {<<>>})
      /\ runtime \in [Engine -> Runtimes] /\ now \in Nat /\ calls \in Nat
  BY StorageIs DEF LaunchInv
<1>1. CASE AdminCall
  <2>1. /\ pad' \in Pads /\ SameLists(pad', pad) /\ pad'.entered = pad.entered
        /\ verifier' \in Verifiers /\ verifier'.consumed = verifier.consumed
        /\ startedBy' \in Account \cup {NoAccount}
    BY <1>0, <1>1, PadCallKeeps, VerifierCallKeeps DEF AdminCall, SameLists
  <2>2. /\ supply' = supply /\ pool' = pool /\ position' = position /\ record' = record
        /\ runtime' = runtime /\ frame' = frame /\ now' = now /\ calls' = calls + 1
    BY <1>1 DEF AdminCall
  <2>3. Snapshot' \in Storages
    BY <1>0, <2>1, <2>2 DEF Snapshot, Storages
  <2> QED BY <1>0, <2>1, <2>2, <2>3, QuietKeeps
<1>2. CASE InitializePool
  <2>1. PICK t \in Token : Available(t) /\ pool' = [pool EXCEPT ![t] = OtherPrice]
    BY <1>2 DEF InitializePool
  <2>2. /\ pool' \in [Token -> Prices] /\ supply[t] = 0
        /\ \A u \in Token : supply[u] # 0 => pool'[u] = pool[u]
    BY <1>0, <2>1 DEF Available, Prices
  <2>3. /\ pad' = pad /\ verifier' = verifier /\ startedBy' = startedBy /\ supply' = supply
        /\ position' = position /\ record' = record /\ runtime' = runtime
        /\ frame' = frame /\ calls' = calls /\ now' = now
    BY <1>2 DEF InitializePool
  <2>4. Snapshot' \in Storages
    BY <1>0, <2>2, <2>3 DEF Snapshot, Storages
  <2> QED BY <1>0, <2>2, <2>3, <2>4, QuietKeeps DEF SameLists
<1>3. CASE EngineChanges
  <2>1. runtime' \in [Engine -> Runtimes] /\ calls' = calls + 1
    BY <1>0, <1>3 DEF EngineChanges
  <2>2. /\ pad' = pad /\ verifier' = verifier /\ startedBy' = startedBy /\ supply' = supply
        /\ pool' = pool /\ position' = position /\ record' = record
        /\ frame' = frame /\ now' = now
    BY <1>3 DEF EngineChanges, storage
  <2>3. Snapshot' \in Storages
    BY <1>0, <2>2 DEF Snapshot, Storages
  <2> QED BY <1>0, <2>1, <2>2, <2>3, QuietKeeps DEF SameLists
<1>4. CASE NextBlock \/ UNCHANGED vars
  <2>1. now' \in Nat
    BY <1>0, <1>4 DEF NextBlock, Tick, vars
  <2>2. /\ pad' = pad /\ verifier' = verifier /\ startedBy' = startedBy /\ supply' = supply
        /\ pool' = pool /\ position' = position /\ record' = record
        /\ frame' = frame /\ runtime' = runtime /\ calls' = calls
    BY <1>4 DEF NextBlock, Tick, vars, storage
  <2>3. Snapshot' \in Storages
    BY <1>0, <2>2 DEF Snapshot, Storages
  <2> QED BY <1>0, <2>1, <2>2, <2>3, QuietKeeps DEF SameLists
<1> QED BY <1>1, <1>2, <1>3, <1>4

LEMMA RevertKeeps ==
  ASSUME LaunchInv, Revert
  PROVE LaunchInv' /\ Kept
<1> DEFINE b == Top.before
<1>1. /\ b \in Storages /\ b.pad.launches = pad.launches /\ ~b.pad.entered
      /\ Whole(b, {}) /\ Pop = <<>>
  BY FrameIs DEF Revert
<1>2. /\ pad' = b.pad /\ verifier' = b.verifier /\ startedBy' = b.startedBy
      /\ supply' = b.supply /\ pool' = b.pool /\ position' = b.position
      /\ record' = b.record /\ frame' = Pop
      /\ runtime' = runtime /\ calls' = calls /\ now' = now
  BY DEF Revert
<1> HIDE DEF b
<1>3. Snapshot' = b
  BY <1>1, <1>2 DEF Snapshot, Storages
<1>4. Pending' = {} /\ FrameOK'
  BY <1>1, <1>2 DEF Pending, FrameOK
<1>5. LaunchInv'
  BY <1>1, <1>2, <1>3, <1>4 DEF LaunchInv
<1> QED BY <1>1, <1>2, <1>5 DEF Kept

LEMMA BeginKeeps ==
  ASSUME LaunchInv, BeginLaunch
  PROVE LaunchInv' /\ Kept
<1>0. /\ pad \in Pads /\ verifier \in Verifiers /\ startedBy \in Account \cup {NoAccount}
      /\ supply \in [Token -> Nat] /\ pool \in [Token -> Prices]
      /\ position \in Seq(Positions) /\ record \in Seq(Entries \cup {<<>>})
      /\ runtime \in [Engine -> Runtimes] /\ now \in Nat /\ calls \in Nat
      /\ Snapshot \in Storages
  BY StorageIs DEF LaunchInv
<1>1. PICK r \in Request :
        /\ MayLaunch(r, now) /\ Len(pad.launches) < MaxLaunches /\ pad' = Enter
        /\ LET v == ResolvedVersion(r)
           IN frame' = Append(frame,
                [at |-> "called", id |-> Len(pad.launches) + 1, request |-> r,
                 version |-> v, engine |-> pad.engines[v].engine, before |-> Snapshot])
  BY DEF BeginLaunch
<1> DEFINE v == ResolvedVersion(r)
           f == [at |-> "called", id |-> Len(pad.launches) + 1, request |-> r,
                 version |-> v, engine |-> pad.engines[v].engine, before |-> Snapshot]
<1>2. ~pad.entered /\ frame = <<>>
  BY <1>1 DEF MayLaunch, NotEntered, LaunchInv, FrameOK
<1>3. frame' = <<f>> /\ frame'[1] = f
  BY <1>1, <1>2, OneFrame
<1>4. /\ verifier' = verifier /\ startedBy' = startedBy /\ supply' = supply
      /\ pool' = pool /\ position' = position /\ record' = record
      /\ runtime' = runtime /\ calls' = calls /\ now' = now
  BY DEF BeginLaunch
<1>5. v \in Version /\ pad.engines[v].engine \in Engine
  <2>1. v # NoVersion /\ pad.engines[v] # NoEngine /\ r.kind \in Kind
    BY <1>1, LaunchpadAssumption DEF MayLaunch, EngineUsable, Registered
  <2>2. v \in Version
    BY <1>0, <2>1, LaunchpadAssumption DEF ResolvedVersion, Pads
  <2> QED BY <1>0, <2>1, <2>2 DEF Pads, Configs
<1>6. f \in CalledFrames
  <2>1. Len(pad.launches) \in Nat
    BY <1>0 DEF Pads
  <2>2. Len(pad.launches) + 1 \in 1..MaxLaunches
    BY <1>1, <2>1, LaunchpadAssumption
  <2> HIDE DEF v
  <2> QED BY <1>0, <1>5, <2>2 DEF CalledFrames
<1>7. pad' \in Pads /\ SameLists(pad', pad) /\ pad'.entered
  BY <1>0, <1>1 DEF Enter, Pads, SameLists
<1>8. /\ f.id = Len(pad.launches) + 1 /\ f.before = Snapshot /\ f.at = "called"
      /\ Snapshot.pad = pad
  BY DEF Snapshot
<1> HIDE DEF f
<1>9. Snapshot' \in Storages
  BY <1>0, <1>4, <1>7 DEF Snapshot, Storages
<1>10. Pending = {} /\ Pending' = {}
  BY <1>2, <1>3, <1>8 DEF Pending
<1>11. Whole(Snapshot, {}) /\ Whole(Snapshot', {})
  <2>1. Whole(Snapshot, {})
    BY <1>10 DEF LaunchInv
  <2>2. /\ SameLists(Snapshot'.pad, Snapshot.pad)
        /\ Snapshot'.verifier.consumed = Snapshot.verifier.consumed
        /\ Snapshot'.supply = Snapshot.supply /\ Snapshot'.position = Snapshot.position
        /\ Snapshot'.record = Snapshot.record /\ Snapshot'.pool = Snapshot.pool
    BY <1>4, <1>7 DEF Snapshot
  <2> QED BY <1>0, <1>9, <2>1, <2>2, SameBooks
<1>12. FrameOK'
  BY <1>2, <1>3, <1>6, <1>7, <1>8, <1>11 DEF FrameOK, SameLists
<1>13. LaunchInv'
  BY <1>0, <1>4, <1>9, <1>10, <1>11, <1>12 DEF LaunchInv
<1> QED BY <1>7, <1>13 DEF Kept, SameLists

LEMMA ForeignKeeps ==
  ASSUME LaunchInv, ForeignReturn
  PROVE LaunchInv' /\ Kept
<1> DEFINE id == Top.id  r == Top.request  v == Top.version  e == Top.engine
<1>0. /\ pad \in Pads /\ verifier \in Verifiers /\ startedBy \in Account \cup {NoAccount}
      /\ supply \in [Token -> Nat] /\ pool \in [Token -> Prices]
      /\ position \in Seq(Positions) /\ record \in Seq(Entries \cup {<<>>})
      /\ runtime \in [Engine -> Runtimes] /\ now \in Nat /\ calls \in Nat
      /\ Snapshot \in Storages
  BY StorageIs DEF LaunchInv
<1>1. /\ Pop = <<>> /\ Pending = {} /\ id = Len(pad.launches) + 1
      /\ r \in Request /\ r.creator \in Account /\ v \in Version /\ e \in Engine /\ e # Direct
  BY FrameIs, LaunchpadAssumption DEF ForeignReturn
<1>2. PICK a \in Foreign, s \in Nat \cap 0..r.supply : Finish(a, s)
  BY DEF ForeignReturn
<1>3. /\ a \in Artifacts /\ s \in Nat /\ a.token # NoAddress /\ a.market # NoAddress
      /\ FreshArtifacts(a) /\ pad' = Recorded(id, r, v, e, a, s) /\ frame' = Pop
  BY <1>2, EngineAssumption DEF Finish, ArtifactsValid
<1>4. /\ verifier' = verifier /\ startedBy' = startedBy /\ supply' = supply
      /\ pool' = pool /\ position' = position /\ record' = record
      /\ runtime' = runtime /\ calls' = calls /\ now' = now
  BY DEF ForeignReturn
<1>5. Whole(Snapshot, {}) /\ Indexed(pad)
  BY <1>1 DEF LaunchInv, Whole, Snapshot
<1>6. /\ pad' \in Pads /\ ~pad'.entered /\ Indexed(pad') /\ id \in Nat \ {0}
      /\ DOMAIN pad.launches = 1..(id - 1) /\ DOMAIN pad'.launches = 1..id
      /\ pad'.launches[id] = [creator |-> r.creator, supply |-> s, engine |-> e,
                              version |-> v, artifacts |-> a]
      /\ \A i \in DOMAIN pad.launches : pad'.launches[i] = pad.launches[i]
  <2> HIDE DEF id, r, v, e
  <2> QED BY <1>0, <1>1, <1>3, <1>5, RecordedKeeps
<1> HIDE DEF id, r, v, e
<1>7. Snapshot' \in Storages
  BY <1>0, <1>4, <1>6 DEF Snapshot, Storages
<1>8. DirectIn(Snapshot') = DirectIn(Snapshot)
  <2>1. pad'.launches[id].engine # Direct
    BY <1>1, <1>6
  <2>2. DOMAIN pad'.launches = DOMAIN pad.launches \cup {id}
    BY <1>6
  <2>3. Snapshot'.pad = pad' /\ Snapshot.pad = pad
    BY DEF Snapshot
  <2> QED BY <1>6, <2>1, <2>2, <2>3 DEF DirectIn
<1>9. Whole(Snapshot', {})
  <2>1. /\ Snapshot'.pad = pad' /\ Snapshot.pad = pad /\ Snapshot'.supply = Snapshot.supply
        /\ Snapshot'.verifier = Snapshot.verifier /\ Snapshot'.record = Snapshot.record
        /\ Snapshot'.position = Snapshot.position /\ Snapshot'.pool = Snapshot.pool
    BY <1>4 DEF Snapshot
  <2>2. Booked(Snapshot', {})
    BY <1>5, <1>8, <2>1 DEF Whole, Booked
  <2>3. \A i \in DirectIn(Snapshot) : Snapshot'.pad.launches[i] = Snapshot.pad.launches[i]
    BY <1>6, <2>1 DEF DirectIn
  <2>4. Agreed(Snapshot', {})
    BY <1>5, <1>8, <2>1, <2>3 DEF Whole, Agreed, Backed
  <2> QED BY <1>5, <1>6, <2>1, <2>2, <2>4 DEF Whole
<1>10. Pending' = {} /\ FrameOK'
  BY <1>1, <1>3, <1>6 DEF Pending, FrameOK
<1>11. LaunchInv'
  BY <1>0, <1>4, <1>7, <1>9, <1>10 DEF LaunchInv
<1> QED BY <1>6, <1>11 DEF Kept

LEMMA ReturnKeeps ==
  ASSUME LaunchInv, Return
  PROVE LaunchInv' /\ Kept
<1> DEFINE f == Top  t == Top.token
           a == [creator |-> Top.request.creator, token |-> TokenOf(t),
                 market |-> PoolOf(t), hook |-> NoAddress, vault |-> NoAddress,
                 locker |-> LockerOf(t), recordId |-> <<DirectVersion, Top.id>>]
           entry == [token |-> t, digest |-> f.digest, position |-> f.position,
                     deposited |-> position[f.position].amount,
                     beneficiary |-> f.beneficiary]
<1>0. /\ pad \in Pads /\ verifier \in Verifiers /\ startedBy \in Account \cup {NoAccount}
      /\ supply \in [Token -> Nat] /\ pool \in [Token -> Prices]
      /\ position \in Seq(Positions) /\ record \in Seq(Entries \cup {<<>>})
      /\ runtime \in [Engine -> Runtimes] /\ now \in Nat /\ calls \in Nat
      /\ Snapshot \in Storages
  BY StorageIs DEF LaunchInv
<1>1. /\ Pop = <<>> /\ Pending = {f} /\ f \in DeployedFrames /\ f.id = Len(pad.launches) + 1
      /\ f.id \in 1..MaxLaunches /\ f.request.creator \in Account /\ f.version \in Version
      /\ f.engine = Direct /\ t \in Token /\ f.digest \in Attestation /\ f.position \in Nat
      /\ f.beneficiary \in Account \cup {NoAccount}
  <2>1. Pop = <<>> /\ Pending = {f} /\ f \in DeployedFrames /\ f.id = Len(pad.launches) + 1
    BY FrameIs DEF Return
  <2> HIDE DEF f
  <2> QED BY <2>1, LaunchpadAssumption DEF DeployedFrames, f
<1>2. /\ record' = [i \in 1..f.id |-> IF i = f.id THEN entry
                      ELSE IF i \in DOMAIN record THEN record[i] ELSE <<>>]
      /\ Finish(a, supply[t])
      /\ verifier' = verifier /\ startedBy' = startedBy /\ supply' = supply
      /\ pool' = pool /\ position' = position
      /\ runtime' = runtime /\ calls' = calls /\ now' = now
  BY DEF Return, LaunchedSupply
<1>3. /\ FreshArtifacts(a) /\ frame' = Pop
      /\ pad' = Recorded(f.id, f.request, f.version, f.engine, a, supply[t])
      /\ a.token # NoAddress /\ a.market # NoAddress
  BY <1>2 DEF Finish, ArtifactsValid
<1>4. a \in Artifacts
  <2>1. <<DirectVersion, f.id>> \in RecordId
    BY <1>1, EngineAssumption
  <2>2. TokenOf(t) \in Address /\ PoolOf(t) \in Address /\ LockerOf(t) \in Address
    BY <1>1, EngineAssumption DEF TokenOf, PoolOf, LockerOf
  <2> QED BY <1>1, <2>1, <2>2 DEF Artifacts
<1>5. /\ a.token = TokenOf(t) /\ a.locker = LockerOf(t)
      /\ entry.token = t /\ entry.digest = f.digest /\ entry.position = f.position
      /\ entry.deposited = position[f.position].amount
  OBVIOUS
<1>6. Whole(Snapshot, {f}) /\ Indexed(pad)
  BY <1>1 DEF LaunchInv, Whole, Snapshot
<1> DEFINE l == [creator |-> f.request.creator, supply |-> supply[t], engine |-> f.engine,
                 version |-> f.version, artifacts |-> a]
           id == f.id
<1> HIDE DEF a, f, t, entry, id
<1>7. /\ pad' \in Pads /\ ~pad'.entered /\ Indexed(pad') /\ id \in Nat \ {0}
      /\ DOMAIN pad.launches = 1..(id - 1) /\ DOMAIN pad'.launches = 1..id
      /\ pad'.launches[id] = l
      /\ \A i \in DOMAIN pad.launches : pad'.launches[i] = pad.launches[i]
  <2>1. supply[t] \in Nat /\ f.engine \in Engine
    BY <1>0, <1>1, EngineAssumption
  <2> QED BY <1>0, <1>1, <1>3, <1>4, <1>6, <2>1, RecordedKeeps DEF id
<1>8. /\ l.engine = Direct /\ l.artifacts = a /\ l.supply = supply[t]
      /\ l.creator = f.request.creator /\ l.version = f.version
  BY <1>1
<1> HIDE DEF l
<1>9. /\ Snapshot'.pad = pad' /\ Snapshot.pad = pad /\ Snapshot'.supply = Snapshot.supply
      /\ Snapshot'.verifier = Snapshot.verifier /\ Snapshot'.record = record'
      /\ Snapshot.record = record /\ Snapshot.supply = supply /\ Snapshot.position = position
      /\ Snapshot'.position = Snapshot.position /\ Snapshot'.pool = Snapshot.pool
  BY <1>2 DEF Snapshot
<1>10. f.position \in DOMAIN position /\ Backed(Snapshot, f)
       /\ f.digest.creator = f.request.creator /\ f.digest.request.version = f.version
  BY <1>6, <1>9 DEF Whole, Booked, Agreed
<1>11. entry \in Entries
  <2>1. position[f.position] \in Positions
    BY <1>0, <1>10
  <2>2. position[f.position].amount \in Nat
    BY <2>1 DEF Positions
  <2> QED BY <1>1, <2>2 DEF Entries, entry
<1>12. /\ record' \in Seq(Entries \cup {<<>>}) /\ DOMAIN record' = 1..id /\ record'[id] = entry
       /\ \A i \in DOMAIN record \cap 1..(id - 1) : record'[i] = record[i]
  <2>1. DOMAIN record' = 1..id /\ id \in Nat \ {0}
    BY <1>2, <1>7 DEF id
  <2>2. record'[id] = entry /\ \A i \in DOMAIN record \cap 1..(id - 1) : record'[i] = record[i]
    BY <1>2, <1>7 DEF id
  <2>3. \A i \in DOMAIN record : record[i] \in Entries \cup {<<>>}
    BY <1>0
  <2>4. record' \in [1..id -> Entries \cup {<<>>}]
    BY <1>2, <1>11, <2>3 DEF id
  <2>5. record' \in Seq(Entries \cup {<<>>})
    BY <2>1, <2>4
  <2> QED BY <2>1, <2>2, <2>5
<1>13. Snapshot' \in Storages
  BY <1>0, <1>2, <1>7, <1>12 DEF Snapshot, Storages
<1>14. /\ DirectIn(Snapshot') = DirectIn(Snapshot) \cup {id} /\ id \notin DirectIn(Snapshot)
       /\ \A i \in DirectIn(Snapshot) :
            /\ record'[i] = record[i] /\ pad'.launches[i] = pad.launches[i]
            /\ i \in DOMAIN record /\ i \in DOMAIN record'
  <2>1. DOMAIN pad'.launches = DOMAIN pad.launches \cup {id} /\ id \notin DOMAIN pad.launches
    BY <1>7
  <2>2. DirectIn(Snapshot) \subseteq DOMAIN pad.launches /\ DirectIn(Snapshot) \subseteq DOMAIN record
    BY <1>6, <1>9 DEF DirectIn, Whole, Booked
  <2>3. DirectIn(Snapshot') = DirectIn(Snapshot) \cup {id}
    BY <1>7, <1>8, <1>9, <2>1 DEF DirectIn
  <2> QED BY <1>7, <1>12, <2>1, <2>2, <2>3
<1>15. Booked(Snapshot', {})
  <2> DEFINE I == DirectIn(Snapshot)
  <2>1. /\ \A i \in I : record[i] \in Entries /\ Apart(record[i], f)
        /\ verifier.consumed = { record[i].digest : i \in I } \cup {f.digest}
        /\ { u \in Token : supply[u] # 0 } = { record[i].token : i \in I } \cup {f.token}
        /\ DOMAIN position = { record[i].position : i \in I } \cup {f.position}
        /\ \A i, j \in I : i # j => Apart(record[i], record[j])
    <3>1. Booked(Snapshot, {f}) /\ Snapshot.verifier = verifier
      BY <1>6 DEF Whole, Snapshot
    <3>2. /\ { h.digest : h \in {f} } = {f.digest} /\ { h.token : h \in {f} } = {f.token}
          /\ { h.position : h \in {f} } = {f.position}
      OBVIOUS
    <3> HIDE DEF I
    <3>3. /\ \A i \in I : record[i] \in Entries /\ Apart(record[i], f)
          /\ \A i, j \in I : i # j => Apart(record[i], record[j])
      BY <1>9, <3>1 DEF Booked, I
    <3>4. verifier.consumed = { record[i].digest : i \in I } \cup {f.digest}
      BY <1>9, <3>1, <3>2 DEF Booked, I
    <3>5. { u \in Token : supply[u] # 0 } = { record[i].token : i \in I } \cup {f.token}
      BY <1>9, <3>1, <3>2 DEF Booked, I
    <3>6. DOMAIN position = { record[i].position : i \in I } \cup {f.position}
      BY <1>9, <3>1, <3>2 DEF Booked, I
    <3> QED BY <3>3, <3>4, <3>5, <3>6
  <2>2. \A i \in I : Apart(record'[i], record'[id]) /\ Apart(record'[id], record'[i])
    BY <1>5, <1>12, <1>14, <2>1 DEF Apart, t, entry, f
  <2> HIDE DEF I
  <2>3. /\ \A i, j \in I \cup {id} : i # j => Apart(record'[i], record'[j])
        /\ \A i \in I \cup {id} : record'[i] \in Entries
    BY <1>11, <1>12, <1>14, <2>1, <2>2 DEF I
  <2>4. /\ { record'[i].digest : i \in I \cup {id} } = { record[i].digest : i \in I } \cup {f.digest}
        /\ { record'[i].token : i \in I \cup {id} } = { record[i].token : i \in I } \cup {f.token}
        /\ { record'[i].position : i \in I \cup {id} } = { record[i].position : i \in I } \cup {f.position}
    <3>1. /\ record'[id].digest = f.digest /\ record'[id].token = f.token
          /\ record'[id].position = f.position
      BY <1>12 DEF entry, t, f
    <3>2. \A i \in I : record'[i] = record[i]
      BY <1>14 DEF I
    <3> QED BY <3>1, <3>2
  <2>5. I \cup {id} \subseteq DOMAIN record'
    BY <1>7, <1>12, <1>14 DEF I
  <2>6. DirectIn(Snapshot') = I \cup {id}
    BY <1>14 DEF I
  <2>7. /\ Snapshot'.verifier.consumed = { record'[i].digest : i \in I \cup {id} }
        /\ { u \in Token : Snapshot'.supply[u] # 0 } = { record'[i].token : i \in I \cup {id} }
        /\ DOMAIN Snapshot'.position = { record'[i].position : i \in I \cup {id} }
        /\ Snapshot'.record = record'
    BY <1>2, <1>9, <2>1, <2>4 DEF Snapshot
  <2> QED BY <2>3, <2>5, <2>6, <2>7 DEF Booked
<1>16. Agreed(Snapshot', {})
  <2>1. \A e : Backed(Snapshot, e) => Backed(Snapshot', e)
    BY <1>9 DEF Backed
  <2>2. /\ Backed(Snapshot, entry)
        /\ supply[t] = entry.deposited
    BY <1>5, <1>9, <1>10 DEF Backed, t, f
  <2>3. ASSUME NEW i \in DirectIn(Snapshot)
        PROVE LET m == pad'.launches[i]  e == record'[i] IN
              /\ Backed(Snapshot', e)
              /\ m.artifacts.token = TokenOf(e.token) /\ m.artifacts.locker = LockerOf(e.token)
              /\ m.supply = supply[e.token] /\ m.supply = e.deposited
              /\ e.digest.creator = m.creator /\ e.digest.request.version = m.version
    BY <1>6, <1>9, <1>14, <2>1 DEF Whole, Agreed
  <2>4. LET m == pad'.launches[id]  e == record'[id] IN
              /\ Backed(Snapshot', e)
              /\ m.artifacts.token = TokenOf(e.token) /\ m.artifacts.locker = LockerOf(e.token)
              /\ m.supply = supply[e.token] /\ m.supply = e.deposited
              /\ e.digest.creator = m.creator /\ e.digest.request.version = m.version
    BY <1>5, <1>7, <1>8, <1>10, <1>12, <2>1, <2>2
  <2>5. Snapshot'.supply = supply
    BY <1>9
  <2>6. \A i \in DirectIn(Snapshot') :
          LET m == Snapshot'.pad.launches[i]  e == Snapshot'.record[i] IN
          /\ Backed(Snapshot', e)
          /\ m.artifacts.token = TokenOf(e.token) /\ m.artifacts.locker = LockerOf(e.token)
          /\ m.supply = Snapshot'.supply[e.token] /\ m.supply = e.deposited
          /\ e.digest.creator = m.creator /\ e.digest.request.version = m.version
    <3> SUFFICES ASSUME NEW i \in DirectIn(Snapshot')
                 PROVE LET m == pad'.launches[i]  e == record'[i] IN
                       /\ Backed(Snapshot', e)
                       /\ m.artifacts.token = TokenOf(e.token)
                       /\ m.artifacts.locker = LockerOf(e.token)
                       /\ m.supply = supply[e.token] /\ m.supply = e.deposited
                       /\ e.digest.creator = m.creator
                       /\ e.digest.request.version = m.version
      BY <1>9, <2>5
    <3>1. CASE i = id
      BY <2>4, <3>1
    <3>2. CASE i \in DirectIn(Snapshot)
      BY <2>3, <3>2
    <3> QED BY <1>14, <3>1, <3>2
  <2> QED BY <2>6 DEF Agreed
<1>17. Whole(Snapshot', {})
  BY <1>6, <1>7, <1>9, <1>15, <1>16 DEF Whole
<1>18. Pending' = {} /\ FrameOK'
  BY <1>1, <1>3, <1>7 DEF Pending, FrameOK
<1>19. LaunchInv'
  BY <1>0, <1>2, <1>13, <1>17, <1>18 DEF LaunchInv
<1> QED BY <1>7, <1>19 DEF Kept

LEMMA DeployKeeps ==
  ASSUME LaunchInv, Deploy
  PROVE LaunchInv' /\ Kept
<1> DEFINE r == Top.request  v == Top.version
<1>0. /\ pad \in Pads /\ verifier \in Verifiers /\ startedBy \in Account \cup {NoAccount}
      /\ supply \in [Token -> Nat] /\ pool \in [Token -> Prices]
      /\ position \in Seq(Positions) /\ record \in Seq(Entries \cup {<<>>})
      /\ runtime \in [Engine -> Runtimes] /\ now \in Nat /\ calls \in Nat
      /\ Snapshot \in Storages
  BY StorageIs DEF LaunchInv
<1>1. /\ Pop = <<>> /\ Pending = {} /\ pad.entered
      /\ Top.id = Len(pad.launches) + 1 /\ Top.id \in 1..MaxLaunches
      /\ r \in Request /\ v \in Version
      /\ Top.before \in Storages /\ Top.before.pad.launches = pad.launches
      /\ ~Top.before.pad.entered /\ Whole(Top.before, {})
  BY FrameIs DEF Deploy
<1>2. PICK a \in Attestation, by \in Account, t \in Token, tick \in MinTick..MaxTick :
        LET ticks == OneSidedTicks(tick, t \in Token0) IN
        /\ Binds(a, r, v) /\ Consumable(a, by) /\ verifier' = Consumed(a)
        /\ Available(t) /\ ticks.lower < ticks.upper
        /\ \E deposited \in (r.supply - r.supply \div DustDivisor)..r.supply :
             /\ deposited # 0
             /\ supply' = [supply EXCEPT ![t] = deposited]
             /\ position' = Append(position,
                  [owner |-> LockerOf(t), token |-> t, tick |-> tick,
                   ticks |-> ticks, amount |-> deposited])
        /\ pool' = [pool EXCEPT ![t] = Initialized(t, InitialPrice(a, r.supply, t))]
        /\ pool'[t] = InitialPrice(a, r.supply, t)
        /\ frame' = Append(Pop, [at |-> "deployed", id |-> Top.id,
                      request |-> r, version |-> v, engine |-> Direct,
                      before |-> Top.before, token |-> t, digest |-> a,
                      position |-> Len(position) + 1,
                      beneficiary |-> IF r.lpShare = 0 THEN r.creator ELSE r.recipient])
  BY ZenonT(60) DEF Deploy
<1> DEFINE ticks == OneSidedTicks(tick, t \in Token0)
           price == InitialPrice(a, r.supply, t)
<1>3. PICK n \in (r.supply - r.supply \div DustDivisor)..r.supply :
        /\ n # 0
        /\ supply' = [supply EXCEPT ![t] = n]
        /\ position' = Append(position,
             [owner |-> LockerOf(t), token |-> t, tick |-> tick,
              ticks |-> ticks, amount |-> n])
  BY <1>2
<1> DEFINE p == [owner |-> LockerOf(t), token |-> t, tick |-> tick,
                 ticks |-> ticks, amount |-> n]
           f == [at |-> "deployed", id |-> Top.id,
                 request |-> r, version |-> v, engine |-> Direct,
                 before |-> Top.before, token |-> t, digest |-> a,
                 position |-> Len(position) + 1,
                 beneficiary |-> IF r.lpShare = 0 THEN r.creator ELSE r.recipient]
<1>4. /\ frame' = <<f>> /\ frame'[1] = f
      /\ f.at = "deployed" /\ f.id = Top.id /\ f.request = r /\ f.version = v
      /\ f.before = Top.before /\ f.token = t /\ f.digest = a
      /\ f.position = Len(position) + 1
  BY <1>1, <1>2, OneFrame
<1>5. /\ pad' = pad /\ startedBy' = startedBy /\ record' = record
      /\ runtime' = runtime /\ calls' = calls /\ now' = now
  BY DEF Deploy
<1>6. /\ r.supply \in Nat /\ r.creator \in Account /\ r.recipient \in Account \cup {NoAccount}
      /\ n \in Nat /\ n # 0
  <2>1. r.supply \in Nat /\ r.creator \in Account /\ r.recipient \in Account \cup {NoAccount}
    BY <1>1, LaunchpadAssumption
  <2>2. r.supply \div DustDivisor \in Nat /\ r.supply \div DustDivisor <= r.supply
    BY <2>1, EngineAssumption, QuotientIs
  <2> HIDE DEF r
  <2> QED BY <1>3, <2>1, <2>2
<1>7. a.creator = r.creator /\ a.request.version = v /\ a.request.supply = r.supply
  <2>1. "version" \in DOMAIN r
    BY <1>1, LaunchpadAssumption
  <2>2. a.creator = r.creator /\ a.request = [r EXCEPT !.version = v]
    BY <1>2 DEF Binds
  <2> HIDE DEF r, v
  <2> QED BY <2>1, <2>2
<1>8. OneSided(p) /\ p \in Positions /\ p.token = t /\ p.owner = LockerOf(t) /\ p.amount = n
  <2>1. /\ p.token = t /\ p.tick = tick /\ p.ticks = OneSidedTicks(tick, t \in Token0)
        /\ p.ticks.lower < p.ticks.upper /\ p.owner = LockerOf(t) /\ p.amount = n
    BY <1>2
  <2>2. p.ticks \in [lower : Int, upper : Int] /\ OneSided(p)
    <3> HIDE DEF p, ticks
    <3> QED BY <2>1, TicksAreOneSided
  <2>3. LockerOf(t) \in Address
    BY EngineAssumption DEF LockerOf
  <2>4. tick \in Int
    BY EngineAssumption
  <2>5. ticks \in [lower : Int, upper : Int]
    BY <2>2
  <2> HIDE DEF ticks
  <2> QED BY <1>6, <2>1, <2>2, <2>3, <2>4, <2>5 DEF Positions
<1>9. /\ Len(position) \in Nat /\ DOMAIN position = 1..Len(position)
      /\ position' \in Seq(Positions) /\ DOMAIN position' = DOMAIN position \cup {f.position}
      /\ position'[f.position] = p /\ f.position \notin DOMAIN position
      /\ \A i \in DOMAIN position : position'[i] = position[i]
  <2> HIDE DEF p, f
  <2>1. position' = Append(position, p)
    BY <1>3 DEF p
  <2>2. Len(position) \in Nat /\ DOMAIN position = 1..Len(position)
    BY <1>0
  <2>3. /\ position' \in Seq(Positions) /\ Len(position') = Len(position) + 1
        /\ DOMAIN position' = 1..(Len(position) + 1)
        /\ position'[Len(position) + 1] = p
        /\ \A i \in 1..Len(position) : position'[i] = position[i]
    BY <1>0, <1>8, <2>1, AppendProperties
  <2> QED BY <1>4, <2>2, <2>3
<1>10. /\ supply' \in [Token -> Nat] /\ supply'[t] = n /\ supply[t] = 0
       /\ \A u \in Token : u # t => supply'[u] = supply[u]
       /\ { u \in Token : supply'[u] # 0 } = { u \in Token : supply[u] # 0 } \cup {t}
  <2>1. supply[t] = 0
    BY <1>2 DEF Available
  <2>2. /\ supply' \in [Token -> Nat] /\ supply'[t] = n
        /\ \A u \in Token : u # t => supply'[u] = supply[u]
    BY <1>0, <1>3, <1>6
  <2> QED BY <1>6, <2>1, <2>2
<1>11. /\ pool' \in [Token -> Prices] /\ pool'[t] = price
       /\ \A u \in Token : u # t => pool'[u] = pool[u]
  <2>1. price \in Prices
    BY <1>6 DEF Prices
  <2>2. pool' = [pool EXCEPT ![t] = price] /\ pool'[t] = price
    BY <1>0, <1>2
  <2> HIDE DEF price
  <2> QED BY <1>0, <2>1, <2>2
<1>12. /\ verifier' \in Verifiers /\ verifier'.consumed = verifier.consumed \cup {a}
       /\ a \notin verifier.consumed
  BY <1>0, <1>2 DEF Consumed, Consumable, NotConsumed, Verifiers
<1>13. f \in DeployedFrames
  <2>1. f.beneficiary \in Account \cup {NoAccount}
    BY <1>6
  <2>2. Len(position) + 1 \in Nat
    BY <1>9
  <2> QED BY <1>1, <2>1, <2>2 DEF DeployedFrames
<1> HIDE DEF r, v, p, f, ticks, price
<1>14. Snapshot' \in Storages
  BY <1>0, <1>5, <1>9, <1>10, <1>11, <1>12 DEF Snapshot, Storages
<1>15. /\ Snapshot.pad = pad /\ Snapshot.record = record /\ Snapshot.supply = supply
       /\ Snapshot.pool = pool /\ Snapshot.position = position /\ Snapshot.verifier = verifier
       /\ Snapshot'.pad = pad /\ Snapshot'.record = record /\ Snapshot'.supply = supply'
       /\ Snapshot'.pool = pool' /\ Snapshot'.position = position'
       /\ Snapshot'.verifier = verifier'
  BY <1>5 DEF Snapshot
<1>16. Whole(Snapshot, {}) /\ DirectIn(Snapshot') = DirectIn(Snapshot)
  BY <1>1, <1>15 DEF LaunchInv, DirectIn
<1> DEFINE I == DirectIn(Snapshot)
<1>17. /\ I \subseteq DOMAIN record /\ \A i \in I : record[i] \in Entries
       /\ verifier.consumed = { record[i].digest : i \in I }
       /\ { u \in Token : supply[u] # 0 } = { record[i].token : i \in I }
       /\ DOMAIN position = { record[i].position : i \in I }
       /\ \A i, j \in I : i # j => Apart(record[i], record[j])
  <2>1. Booked(Snapshot, {})
    BY <1>16 DEF Whole
  <2> HIDE DEF I
  <2>2. /\ I \subseteq DOMAIN record /\ \A i \in I : record[i] \in Entries
        /\ \A i, j \in I : i # j => Apart(record[i], record[j])
    BY <1>15, <2>1 DEF Booked, I
  <2>3. verifier.consumed = { record[i].digest : i \in I }
    BY <1>15, <2>1 DEF Booked, I
  <2>4. { u \in Token : supply[u] # 0 } = { record[i].token : i \in I }
    BY <1>15, <2>1 DEF Booked, I
  <2>5. DOMAIN position = { record[i].position : i \in I }
    BY <1>15, <2>1 DEF Booked, I
  <2> QED BY <2>2, <2>3, <2>4, <2>5
<1>18. \A i \in I : /\ Apart(record[i], f) /\ record[i].token # t
                    /\ record[i].token \in Token /\ record[i].position \in DOMAIN position
  <2> SUFFICES ASSUME NEW i \in I
               PROVE /\ Apart(record[i], f) /\ record[i].token # t
                     /\ record[i].token \in Token /\ record[i].position \in DOMAIN position
    OBVIOUS
  <2>1. record[i].digest \in verifier.consumed /\ record[i].position \in DOMAIN position
    BY <1>17
  <2>2. record[i].token \in { u \in Token : supply[u] # 0 }
    BY <1>17
  <2> QED BY <1>4, <1>9, <1>10, <1>12, <2>1, <2>2 DEF Apart
<1>19. Booked(Snapshot', {f})
  <2>1. /\ { h.digest : h \in {f} } = {a} /\ { h.token : h \in {f} } = {t}
        /\ { h.position : h \in {f} } = {f.position}
    BY <1>4
  <2>2. /\ verifier'.consumed = { record[i].digest : i \in I } \cup { h.digest : h \in {f} }
        /\ { u \in Token : supply'[u] # 0 }
             = { record[i].token : i \in I } \cup { h.token : h \in {f} }
        /\ DOMAIN position' = { record[i].position : i \in I } \cup { h.position : h \in {f} }
    BY <1>9, <1>10, <1>12, <1>17, <2>1
  <2> HIDE DEF I
  <2> QED BY <1>15, <1>16, <1>17, <1>18, <2>2 DEF Booked, I
<1>20. Agreed(Snapshot', {f})
  <2>1. /\ Backed(Snapshot', f) /\ f.digest.creator = f.request.creator
        /\ f.digest.request.version = f.version
    BY <1>4, <1>7, <1>8, <1>9, <1>10, <1>11, <1>15 DEF Backed, price
  <2>2. ASSUME NEW i \in I
        PROVE LET m == pad.launches[i]  e == record[i] IN
              /\ Backed(Snapshot, e)
              /\ m.artifacts.token = TokenOf(e.token) /\ m.artifacts.locker = LockerOf(e.token)
              /\ m.supply = supply[e.token] /\ m.supply = e.deposited
              /\ e.digest.creator = m.creator /\ e.digest.request.version = m.version
    BY <1>15, <1>16 DEF Whole, Agreed
  <2>3. ASSUME NEW i \in I
        PROVE Backed(Snapshot', record[i]) /\ supply'[record[i].token] = supply[record[i].token]
    <3>1. Backed(Snapshot, record[i])
      BY <2>2
    <3>2. /\ supply'[record[i].token] = supply[record[i].token]
          /\ pool'[record[i].token] = pool[record[i].token]
          /\ position'[record[i].position] = position[record[i].position]
      BY <1>9, <1>10, <1>11, <1>18
    <3> QED BY <1>15, <3>1, <3>2 DEF Backed
  <2>4. \A i \in DirectIn(Snapshot') :
          LET m == Snapshot'.pad.launches[i]  e == Snapshot'.record[i] IN
          /\ Backed(Snapshot', e)
          /\ m.artifacts.token = TokenOf(e.token) /\ m.artifacts.locker = LockerOf(e.token)
          /\ m.supply = Snapshot'.supply[e.token] /\ m.supply = e.deposited
          /\ e.digest.creator = m.creator /\ e.digest.request.version = m.version
    <3> SUFFICES ASSUME NEW i \in I
                 PROVE LET m == pad.launches[i]  e == record[i] IN
                       /\ Backed(Snapshot', e)
                       /\ m.artifacts.token = TokenOf(e.token)
                       /\ m.artifacts.locker = LockerOf(e.token)
                       /\ m.supply = supply'[e.token] /\ m.supply = e.deposited
                       /\ e.digest.creator = m.creator
                       /\ e.digest.request.version = m.version
      BY <1>15, <1>16
    <3> HIDE DEF I
    <3> QED BY <2>2, <2>3
  <2> QED BY <2>1, <2>4 DEF Agreed
<1>21. Whole(Snapshot', {f})
  <2>1. Indexed(Snapshot'.pad) /\ \A i \in DOMAIN position : OneSided(position[i])
    BY <1>15, <1>16 DEF Whole
  <2>2. \A i \in DOMAIN position' : OneSided(position'[i])
    BY <1>8, <1>9, <2>1
  <2> QED BY <1>15, <1>19, <1>20, <2>1, <2>2 DEF Whole
<1>22. Pending' = {f}
  BY <1>4, OneFrame DEF Pending
<1>23. FrameOK'
  BY <1>1, <1>4, <1>5, <1>13 DEF FrameOK
<1>24. LaunchInv'
  BY <1>0, <1>5, <1>14, <1>21, <1>22, <1>23 DEF LaunchInv
<1> QED BY <1>5, <1>24 DEF Kept

LEMMA InitKeeps == ASSUME Init PROVE LaunchInv
<1>1. pad \in Pads /\ pad.launches = <<>> /\ ~pad.entered /\ Indexed(pad)
  <2>1. /\ pad.launches = <<>> /\ pad.entered = FALSE
        /\ pad.byArtifact = [x \in Address |-> 0] /\ pad.byRecord = [r \in RecordId |-> 0]
    BY DEF Init, PadInit
  <2>2. pad \in Pads
    BY LaunchpadAssumption DEF Init, PadInit, Pads
  <2>3. Indexed(pad)
    BY <2>1 DEF Indexed
  <2> QED BY <2>1, <2>2, <2>3
<1>2. verifier \in Verifiers /\ verifier.consumed = {} /\ startedBy = NoAccount /\ now = 1
  BY VerifierAssumption DEF Init, VerifierInit, Verifiers
<1>3. /\ supply = [t \in Token |-> 0] /\ pool = [t \in Token |-> NoPrice]
      /\ position = <<>> /\ record = <<>> /\ frame = <<>> /\ calls = 0
      /\ runtime \in [Engine -> Runtimes]
  BY DEF Init, PadInit
<1>4. Snapshot \in Storages
  BY <1>1, <1>2, <1>3 DEF Snapshot, Storages, Prices
<1>5. /\ Snapshot.pad = pad /\ Snapshot.verifier = verifier /\ Snapshot.supply = supply
      /\ Snapshot.position = position /\ Snapshot.record = record
  BY DEF Snapshot
<1>6. DirectIn(Snapshot) = {}
  BY <1>1, <1>5 DEF DirectIn
<1>7. Pending = {} /\ FrameOK
  BY <1>1, <1>3 DEF Pending, FrameOK
<1>8. Booked(Snapshot, {}) /\ Agreed(Snapshot, {})
  BY <1>2, <1>3, <1>5, <1>6 DEF Booked, Agreed
<1>9. Whole(Snapshot, {})
  BY <1>1, <1>3, <1>5, <1>8 DEF Whole
<1> QED BY <1>2, <1>3, <1>4, <1>7, <1>9 DEF LaunchInv

LEMMA NextKeeps == ASSUME LaunchInv, [Next]_vars PROVE LaunchInv' /\ Kept
BY BeginKeeps, DeployKeeps, ReturnKeeps, ForeignKeeps, RevertKeeps, OthersKeep DEF Next

-----------------------------------------------------------------------------
(* The theorems. *)

\* Whatever is called during a launch, the contracts' storage stays in order,
\* and so does the storage that a failing launch is put back to.
THEOREM LaunchInvHolds == Spec => []LaunchInv
<1>1. Init => LaunchInv
  BY InitKeeps
<1>2. LaunchInv /\ [Next]_vars => LaunchInv'
  BY NextKeeps
<1> QED BY <1>1, <1>2, PTL DEF Spec

\* The launchpad's maps lead from an artifact to the one launch that has it, in
\* the role the map is about (_recordArtifacts).
THEOREM IndexAlwaysFinds == Spec => []IndexFindsLaunch
<1>1. LaunchInv => IndexFindsLaunch
  <2> SUFFICES ASSUME LaunchInv PROVE IndexFindsLaunch
    OBVIOUS
  <2>1. Indexed(pad)
    BY StorageIs DEF LaunchInv, Whole
  <2> QED BY <2>1 DEF Indexed, IndexFindsLaunch
<1> QED BY <1>1, LaunchInvHolds, PTL

\* A launch that fails leaves no token, position or consumed attestation behind,
\* and no launch uses what another one has used.
THEOREM LaunchesAreAtomic == Spec => []LaunchIsAtomic
<1>1. LaunchInv => LaunchIsAtomic
  <2> SUFFICES ASSUME LaunchInv, ~InLaunch PROVE LaunchIsAtomic
    BY DEF LaunchIsAtomic
  <2>1. Pending = {}
    BY DEF Pending, InLaunch
  <2>2. Booked(Snapshot, {})
    BY <2>1 DEF LaunchInv, Whole
  <2>3. DirectIn(Snapshot) = DirectLaunches
    BY StorageIs DEF DirectIn, DirectLaunches, LaunchedDirectly
  <2> DEFINE I == DirectLaunches
  <2> HIDE DEF I
  <2>4. /\ verifier.consumed = { record[i].digest : i \in I }
        /\ { t \in Token : supply[t] # 0 } = { record[i].token : i \in I }
        /\ DOMAIN position = { record[i].position : i \in I }
        /\ \A i, j \in I : i # j => Apart(record[i], record[j])
    <3>1. /\ Snapshot.record = record /\ Snapshot.supply = supply
          /\ Snapshot.position = position /\ Snapshot.verifier = verifier
      BY StorageIs
    <3>2. verifier.consumed = { record[i].digest : i \in I }
      BY <2>2, <2>3, <3>1 DEF Booked, I
    <3>3. { t \in Token : supply[t] # 0 } = { record[i].token : i \in I }
      BY <2>2, <2>3, <3>1 DEF Booked, I
    <3>4. DOMAIN position = { record[i].position : i \in I }
      BY <2>2, <2>3, <3>1 DEF Booked, I
    <3>5. \A i, j \in I : i # j => Apart(record[i], record[j])
      BY <2>2, <2>3, <3>1 DEF Booked, I
    <3> QED BY <3>2, <3>3, <3>4, <3>5
  <2> QED BY <2>4 DEF LaunchIsAtomic, Apart, I
<1> QED BY <1>1, LaunchInvHolds, PTL

\* The recorded supply is the token's and lies in the position, which the named
\* locker owns, and the pool has the price attested for that request.
THEOREM RecordsAlwaysAgree == Spec => []RecordsAgree
<1>1. LaunchInv => RecordsAgree
  <2> SUFFICES ASSUME LaunchInv, NEW i \in DirectLaunches
      PROVE LET l == pad.launches[i]  e == record[i]  p == position[e.position] IN
            /\ l.artifacts.token = TokenOf(e.token)
            /\ l.supply = supply[e.token] /\ l.supply = e.deposited
            /\ p.token = e.token /\ p.amount = l.supply /\ p.owner = l.artifacts.locker
            /\ e.digest.creator = l.creator /\ e.digest.request.version = l.version
            /\ pool[e.token] = InitialPrice(e.digest, e.digest.request.supply, e.token)
    BY DEF RecordsAgree
  <2>1. i \in DirectIn(Snapshot)
    BY StorageIs DEF DirectIn, DirectLaunches, LaunchedDirectly
  <2>2. Agreed(Snapshot, Pending)
    BY DEF LaunchInv, Whole
  <2> QED BY <2>1, <2>2, StorageIs DEF Agreed, Backed
<1> QED BY <1>1, LaunchInvHolds, PTL

\* Every position's range is on the tick grid and on the launched token's side
\* of the price, for negative ticks too (oneSidedTicks).
THEOREM RangesAlwaysOneSided == Spec => []RangesOneSided
<1>1. LaunchInv => RangesOneSided
  BY StorageIs DEF LaunchInv, Whole, OneSided, RangesOneSided
<1> QED BY <1>1, LaunchInvHolds, PTL

\* No call and no revert changes or removes a recorded launch.
THEOREM LaunchesAreKept == Spec => LaunchesKept
<1>1. LaunchInv /\ [Next]_vars => Kept
  BY NextKeeps
<1>2. [Kept]_vars =>
        [\A i \in DOMAIN pad.launches :
           i \in DOMAIN pad'.launches /\ pad'.launches[i] = pad.launches[i]]_vars
  BY DEF Kept
<1> QED BY <1>1, <1>2, LaunchInvHolds, PTL DEF Spec, LaunchesKept

\* The contracts' storage and the frames keep their types, and the reentrancy
\* guard is set exactly while a launch is in progress.
THEOREM LaunchTypesHold == Spec => []TypeOK
<1>1. LaunchInv => TypeOK
  <2> SUFFICES ASSUME LaunchInv PROVE TypeOK
    OBVIOUS
  <2>1. /\ pad \in Pads /\ verifier \in Verifiers /\ startedBy \in Account \cup {NoAccount}
        /\ supply \in [Token -> Nat] /\ now \in Nat /\ runtime \in [Engine -> Runtimes]
    BY StorageIs DEF LaunchInv
  <2>2. [pad EXCEPT !.launches = <<>>] \in Pads
    <3>1. <<>> \in Seq(Records)
      OBVIOUS
    <3> DEFINE none == <<>>
    <3> HIDE DEF none
    <3>2. [pad EXCEPT !.launches = none] \in Pads
      BY <2>1, <3>1 DEF Pads, none
    <3> QED BY <3>2 DEF none
  <2>3. \A i \in DOMAIN pad.launches : pad.launches[i] \in Records
    BY <2>1 DEF Pads
  <2>4. pad.entered = InLaunch
    <3>1. pad.entered \in BOOLEAN /\ InLaunch \in BOOLEAN
      BY <2>1 DEF Pads, InLaunch
    <3>2. pad.entered <=> InLaunch
      BY DEF LaunchInv, FrameOK, InLaunch
    <3> QED BY <3>1, <3>2
  <2>5. \A i \in DOMAIN frame :
          /\ frame[i].id \in 1..MaxLaunches /\ frame[i].request \in Request
          /\ frame[i].version \in Version /\ frame[i].engine \in Engine
    <3>1. CASE InLaunch
      <4>1. frame = <<Top>> /\ frame[1] = Top
        BY <3>1, FrameIs
      <4>2. DOMAIN frame = {1}
        BY <4>1, OneFrame
      <4> QED BY <3>1, <4>1, <4>2, FrameIs
    <3>2. CASE ~InLaunch
      BY <3>2 DEF InLaunch
    <3> QED BY <3>1, <3>2
  <2> QED BY <2>1, <2>2, <2>3, <2>4, <2>5 DEF TypeOK
<1> QED BY <1>1, LaunchInvHolds, PTL
============================================================================
