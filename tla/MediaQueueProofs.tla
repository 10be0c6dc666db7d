-------------------------- MODULE MediaQueueProofs --------------------------
(***************************************************************************)
(* What holds of the media queue for any number of tokens, lanes and       *)
(* images, any attempt limit, and lanes that share worker ids or not.      *)
(***************************************************************************)
EXTENDS MediaQueue, TLAPS

\* What lane record x holds, given the stored objects S: a lane that is to
\* name an object has stored it.
LaneReady(x, S) ==
  /\ x.step = "idle" => x.token = None
  /\ x.step # "idle" => x.token \in Token
  /\ x.step \in {"store", "complete"} => x.result \in Content
  /\ x.step = "complete" => x.result \in S
  /\ x.step = "miss" => x.result \in Missed

LanesReady == \A l \in Lane : LaneReady(lane[l], stored)

\* TypeOK, ReadyIffObject and NamedObjectsStored are inductive only together,
\* and with what the lanes carry from one step to the next: a lookup takes the
\* key of a ready row, and a lane names what it has stored.
TypeInv == TypeOK /\ LanesReady /\ ReadyIffObject /\ NamedObjectsStored

----------------------------------------------------------------------------
(* Lanes *)

\* One lane moves on, the others stay as they are.
LEMMA LaneMoves ==
  ASSUME TypeOK, LanesReady, NEW l \in Lane, NEW x \in LaneType,
         lane' = [lane EXCEPT ![l] = x], stored \subseteq stored', LaneReady(x, stored')
  PROVE  lane' \in [Lane -> LaneType] /\ LanesReady'
<1>1. lane' \in [Lane -> LaneType]
  BY DEF TypeOK
<1>2. ASSUME NEW k \in Lane PROVE LaneReady(lane'[k], stored')
  <2>1. CASE k = l
    BY <2>1 DEF TypeOK
  <2>2. CASE k # l
    <3>1. lane'[k] = lane[k] /\ LaneReady(lane[k], stored)
      BY <2>2 DEF TypeOK, LanesReady
    <3> QED
      BY <3>1 DEF LaneReady
  <2> QED
    BY <2>1, <2>2
<1> QED
  BY <1>1, <1>2 DEF LanesReady

LEMMA IdleLaneType == IdleLane \in LaneType /\ \A S : LaneReady(IdleLane, S)
BY MediaQueueAssumption DEF IdleLane, LaneType, LaneReady

LEMMA LaneAdvances ==
  ASSUME TypeOK, LanesReady, NEW l \in Lane, lane[l].token \in Token,
         NEW s \in {"store", "complete", "miss", "fail"},
         NEW r \in Content \cup Missed \cup {None}, Advance(l, s, r),
         stored \subseteq stored',
         s \in {"store", "complete"} => r \in Content,
         s = "complete" => r \in stored',
         s = "miss" => r \in Missed
  PROVE  lane' \in [Lane -> LaneType] /\ LanesReady'
<1> DEFINE x == [step |-> s, token |-> lane[l].token,
                 generation |-> lane[l].generation, result |-> r]
<1>1. x \in LaneType
  BY DEF TypeOK, LaneType
<1>2. LaneReady(x, stored')
  BY DEF LaneReady
<1>3. lane' = [lane EXCEPT ![l] = x]
  BY DEF Advance
<1> HIDE DEF x
<1> QED
  BY <1>1, <1>2, <1>3, LaneMoves

----------------------------------------------------------------------------
(* Type correctness *)

LEMMA TypeInit == Init => TypeInv
<1> SUFFICES ASSUME Init PROVE TypeInv
  OBVIOUS
<1>1. LanesReady
  BY IdleLaneType DEF Init, LanesReady
<1>2. TypeOK
  BY IdleLaneType DEF Init, TypeOK, Statuses, IdleReader, ReaderType
<1>3. NamedObjectsStored /\ ReadyIffObject
  BY DEF Init, NamedObjectsStored, ReadyIffObject, IdleReader
<1> QED
  BY <1>1, <1>2, <1>3 DEF TypeInv

\* A request, of whatever tokens, types and keeps what is named.
LEMMA TypeRequest ==
  ASSUME TypeInv, NEW ts \in SUBSET Token, RequestTokenMedia(ts),
         UNCHANGED <<lane, stored>>, reader' \in ReaderType,
         reader'.step = "load" => reader'.key \in stored,
         listed' \subseteq Market, expiries' \in Nat, faults' \in Nat
  PROVE  TypeInv'
<1>1. TypeOK'
  BY DEF TypeInv, TypeOK, RequestTokenMedia, NewRows, Restarted, Statuses
<1>2. LanesReady'
  BY DEF TypeInv, LanesReady
<1>3. NamedObjectsStored'
  BY DEF TypeInv, NamedObjectsStored, RequestTokenMedia
<1>4. ReadyIffObject'
  BY DEF TypeInv, TypeOK, ReadyIffObject, RequestTokenMedia, NewRows, Restarted, Missed
<1> QED
  BY <1>1, <1>2, <1>3, <1>4 DEF TypeInv

LEMMA TypeMarkets ==
  ASSUME TypeInv, NEW m \in Market, MarketLaunched(m) \/ MarketRemoved(m)
  PROVE  TypeInv'
<1>1. CASE MarketLaunched(m)
  <2>1. m \in SUBSET Token
    BY MediaQueueAssumption
  <2>2. UNCHANGED <<lane, stored, reader, expiries, faults>> /\ listed' \subseteq Market
    BY <1>1 DEF MarketLaunched, TypeInv, TypeOK
  <2>3. RequestTokenMedia(m)
    BY <1>1 DEF MarketLaunched
  <2> QED
    BY <2>1, <2>2, <2>3, TypeRequest DEF TypeInv, TypeOK, NamedObjectsStored
<1>2. CASE MarketRemoved(m)
  BY <1>2 DEF MarketRemoved, TypeInv, TypeOK, LanesReady, ReadyIffObject,
           NamedObjectsStored, row, timers
<1> QED
  BY <1>1, <1>2

LEMMA TypeRead ==
  ASSUME TypeInv, Read
  PROVE  TypeInv'
<1>1. ASSUME NEW t \in Token, LookUp(t) PROVE TypeInv'
  <2>1. reader' \in ReaderType /\ (reader'.step = "load" => reader'.key \in stored)
    <3>1. CASE /\ status[t] = "ready"
               /\ reader' = [step |-> "load", token |-> t, key |-> object[t],
                             expired |-> t \notin fresh]
      BY <3>1 DEF TypeInv, TypeOK, ReadyIffObject, NamedObjectsStored, ReaderType
    <3>2. CASE reader' = [IdleReader EXCEPT !.step = "request", !.token = t]
      BY <3>2 DEF IdleReader, ReaderType
    <3> QED
      BY <1>1, <3>1, <3>2 DEF LookUp
  <2> QED
    BY <1>1, <2>1 DEF LookUp, TypeInv, TypeOK, LanesReady, ReadyIffObject,
           NamedObjectsStored, env, row, timers
<1>2. CASE LoadObject
  <2>1. reader' \in ReaderType /\ reader'.step # "load"
    BY <1>2 DEF LoadObject, IdleReader, ReaderType, TypeInv, TypeOK
  <2> QED
    BY <1>2, <2>1 DEF LoadObject, TypeInv, TypeOK, LanesReady, ReadyIffObject,
           NamedObjectsStored, env, row, timers
<1>3. CASE RequestKnownTokenMedia
  <2>1. reader' \in ReaderType /\ reader'.step # "load"
    BY <1>3 DEF RequestKnownTokenMedia, IdleReader, ReaderType
  <2>2. UNCHANGED <<lane, stored, listed, expiries, faults>>
    BY <1>3 DEF RequestKnownTokenMedia, env
  <2>3. CASE UNCHANGED <<row, timers>>
    BY <2>1, <2>2, <2>3 DEF TypeInv, TypeOK, LanesReady, ReadyIffObject,
           NamedObjectsStored, row, timers
  <2>4. CASE RequestTokenMedia({reader.token}) /\ reader.token \in UNION listed
    <3>1. {reader.token} \in SUBSET Token
      BY <2>4, MediaQueueAssumption DEF TypeInv, TypeOK
    <3>2. listed' \subseteq Market /\ expiries' \in Nat /\ faults' \in Nat
      BY <2>2 DEF TypeInv, TypeOK
    <3> QED
      BY <2>1, <2>2, <2>4, <3>1, <3>2, TypeRequest
  <2> QED
    BY <1>3, <2>3, <2>4 DEF RequestKnownTokenMedia
<1> QED
  BY <1>1, <1>2, <1>3 DEF Read

LEMMA TypeClaim ==
  ASSUME TypeInv, NEW l \in Lane, NEW t \in Token, Claim(l, t)
  PROVE  TypeInv'
<1> DEFINE x == [step |-> "resolve", token |-> t,
                 generation |-> NextGeneration(t), result |-> None]
<1>1. UNCHANGED <<env, object, writtenBy, due, fresh, recent, stored, reader>>
      /\ lane' = [lane EXCEPT ![l] = x]
  BY DEF Claim
<1>2. x \in LaneType /\ LaneReady(x, stored')
  BY DEF TypeInv, TypeOK, LaneType, LaneReady, NextGeneration
<1> HIDE DEF x
<1>3. lane' \in [Lane -> LaneType] /\ LanesReady'
  BY <1>1, <1>2, LaneMoves DEF TypeInv
<1>4. /\ status' \in [Token -> Statuses] /\ attempts' \in [Token -> Nat]
      /\ generation' \in [Token -> Nat] /\ owner' \in [Token -> Worker \cup {None}]
      /\ leased' \subseteq Token
  <2>1. status' \in [Token -> Statuses]
    BY DEF Claim, TypeInv, TypeOK, Statuses
  <2>2. attempts' \in [Token -> Nat]
    BY DEF Claim, TypeInv, TypeOK
  <2>3. generation' \in [Token -> Nat]
    BY DEF Claim, TypeInv, TypeOK, NextGeneration
  <2>4. owner' \in [Token -> Worker \cup {None}] /\ leased' \subseteq Token
    BY MediaQueueAssumption DEF Claim, TypeInv, TypeOK
  <2> QED
    BY <2>1, <2>2, <2>3, <2>4
<1>5. TypeOK'
  BY <1>1, <1>3, <1>4 DEF TypeInv, TypeOK, env
<1>6. ReadyIffObject'
  BY <1>1 DEF Claim, TypeInv, TypeOK, ReadyIffObject, Missed
<1>7. NamedObjectsStored'
  BY <1>1 DEF TypeInv, NamedObjectsStored
<1> QED
  BY <1>3, <1>5, <1>6, <1>7 DEF TypeInv

LEMMA TypeResolve ==
  ASSUME TypeInv, NEW l \in Lane, Resolve(l) \/ Store(l)
  PROVE  TypeInv'
<1>0. lane[l] \in LaneType /\ LaneReady(lane[l], stored) /\ TypeOK /\ LanesReady
  BY DEF TypeInv, TypeOK, LanesReady
<1>1. /\ UNCHANGED <<env, row, timers, reader>>
      /\ stored \subseteq stored' /\ stored' \subseteq Content
  BY <1>0 DEF Resolve, Store, TypeInv, TypeOK, LaneReady
<1>2. lane' \in [Lane -> LaneType] /\ LanesReady'
  <2>1. CASE Resolve(l)
    <3>1. lane[l].token \in Token /\ stored' = stored
      BY <1>0, <2>1 DEF Resolve, LaneReady
    <3>2. ASSUME NEW c \in Content, Advance(l, "store", c)
          PROVE  lane' \in [Lane -> LaneType] /\ LanesReady'
      BY <1>0, <1>1, <3>1, <3>2, LaneAdvances
    <3>3. ASSUME NEW s \in Missed, Advance(l, "miss", s)
          PROVE  lane' \in [Lane -> LaneType] /\ LanesReady'
      BY <1>0, <1>1, <3>1, <3>3, LaneAdvances
    <3>4. CASE Advance(l, "fail", None)
      BY <1>0, <1>1, <3>1, <3>4, LaneAdvances
    <3> QED
      BY <2>1, <3>2, <3>3, <3>4 DEF Resolve
  <2>2. CASE Store(l)
    <3>1. /\ lane[l].token \in Token /\ lane[l].result \in Content
          /\ stored' = stored \cup {lane[l].result}
          /\ Advance(l, "complete", lane[l].result)
      BY <1>0, <2>2 DEF Store, LaneReady
    <3> QED
      BY <1>0, <1>1, <3>1, LaneAdvances
  <2> QED
    BY <2>1, <2>2
<1>3. TypeOK'
  BY <1>1, <1>2 DEF TypeInv, TypeOK, env, row, timers
<1>4. ReadyIffObject' /\ NamedObjectsStored'
  BY <1>1 DEF TypeInv, ReadyIffObject, NamedObjectsStored, row
<1> QED
  BY <1>2, <1>3, <1>4 DEF TypeInv

LEMMA TypeEnd ==
  ASSUME TypeInv, NEW l \in Lane, CompleteReady(l) \/ CompleteMiss(l) \/ Fail(l)
  PROVE  TypeInv'
<1> DEFINE t == lane[l].token
<1>0. TypeOK /\ LanesReady /\ LaneReady(lane[l], stored)
  BY DEF TypeInv, LanesReady
<1>1. t \in Token
  BY <1>0 DEF LaneReady, CompleteReady, CompleteMiss, Fail
<1>2. /\ UNCHANGED <<env, attempts, generation, recent, stored, reader>>
      /\ lane' = [lane EXCEPT ![l] = IdleLane]
      /\ owner' = [owner EXCEPT ![t] = None] /\ leased' = leased \ {t}
  BY DEF CompleteReady, CompleteMiss, Fail, Release
<1>3. lane' \in [Lane -> LaneType] /\ LanesReady'
  BY <1>0, <1>2, IdleLaneType, LaneMoves
<1>4. owner' \in [Token -> Worker \cup {None}] /\ leased' \subseteq Token
  BY <1>0, <1>2 DEF TypeOK
<1>5. /\ status' \in [Token -> Statuses] /\ object' \in [Token -> Content \cup {None}]
      /\ writtenBy' \in [Token -> Nat] /\ due' \subseteq Token /\ fresh' \subseteq Token
      /\ ReadyIffObject' /\ NamedObjectsStored'
  <2>1. CASE CompleteReady(l)
    <3>1. /\ lane[l].result \in Content /\ lane[l].result \in stored
          /\ lane[l].result # None /\ lane[l].generation \in Nat
      BY <1>0, <2>1, MediaQueueAssumption DEF LaneReady, CompleteReady, TypeOK, LaneType
    <3>2. /\ status' = [status EXCEPT ![t] = "ready"]
          /\ object' = [object EXCEPT ![t] = lane[l].result]
          /\ writtenBy' = [writtenBy EXCEPT ![t] = lane[l].generation]
          /\ due' = due \cup {t} /\ fresh' = fresh \cup {t}
      BY <2>1 DEF CompleteReady
    <3> QED
      BY <1>1, <1>2, <3>1, <3>2
      DEF TypeInv, TypeOK, ReadyIffObject, NamedObjectsStored, Statuses, Resting
  <2>2. CASE CompleteMiss(l)
    <3>1. /\ lane[l].result \in Missed /\ UNCHANGED <<object, writtenBy>>
          /\ status' = [status EXCEPT ![t] = MissedStatus(t, lane[l].result)]
          /\ due' = due \ {t} /\ fresh' = fresh \cup {t}
      BY <1>0, <2>2 DEF LaneReady, CompleteMiss
    <3> QED
      BY <1>1, <1>2, <3>1
      DEF TypeInv, TypeOK, ReadyIffObject, NamedObjectsStored, Statuses, Resting,
          Missed, MissedStatus
  <2>3. CASE Fail(l)
    <3>1. /\ UNCHANGED <<object, writtenBy>>
          /\ status' = [status EXCEPT ![t] = FailedStatus(t)]
          /\ due' = due \ {t} /\ fresh' \in {fresh, fresh \cup {t}}
      BY <2>3 DEF Fail
    <3> QED
      BY <1>1, <1>2, <3>1
      DEF TypeInv, TypeOK, ReadyIffObject, NamedObjectsStored, Statuses, Resting,
          FailedStatus
  <2> QED
    BY <2>1, <2>2, <2>3
<1>6. TypeOK'
  BY <1>0, <1>2, <1>3, <1>4, <1>5 DEF TypeOK, env
<1> QED
  BY <1>3, <1>5, <1>6 DEF TypeInv

LEMMA TypeGiveUp ==
  ASSUME TypeInv, NEW l \in Lane, LostLease(l) \/ Crash(l)
  PROVE  TypeInv'
<1>1. /\ UNCHANGED <<listed, expiries, row, timers, stored, reader>>
      /\ lane' = [lane EXCEPT ![l] = IdleLane] /\ faults' \in Nat
  BY DEF LostLease, Crash, env, TypeInv, TypeOK
<1>2. lane' \in [Lane -> LaneType] /\ LanesReady'
  BY <1>1, IdleLaneType, LaneMoves DEF TypeInv
<1> QED
  BY <1>1, <1>2 DEF TypeInv, TypeOK, ReadyIffObject, NamedObjectsStored, row, timers

LEMMA TypeTime ==
  ASSUME TypeInv, NEW t \in Token, Time(t)
  PROVE  TypeInv'
BY DEF Time, LeaseExpires, RetryDue, CacheExpires, ThrottleEnds, TypeInv, TypeOK,
       LanesReady, ReadyIffObject, NamedObjectsStored, env, row

LEMMA TypeNext == TypeInv /\ [Next]_vars => TypeInv'
<1> SUFFICES ASSUME TypeInv, [Next]_vars PROVE TypeInv'
  OBVIOUS
<1>1. CASE UNCHANGED vars
  BY <1>1 DEF vars, env, row, timers, TypeInv, TypeOK, LanesReady, ReadyIffObject,
              NamedObjectsStored
<1>2. ASSUME NEW l \in Lane, Work(l) \/ Crash(l) PROVE TypeInv'
  BY <1>2, TypeClaim, TypeResolve, TypeEnd, TypeGiveUp DEF Work
<1> QED
  BY <1>1, <1>2, TypeMarkets, TypeRead, TypeTime DEF Next

\* No step leaves a variable outside its type.
THEOREM TypeCorrect == Spec => []TypeInv
BY TypeInit, TypeNext, PTL DEF Spec

\* Every variable keeps its type.
THEOREM TypesHold == Spec => []TypeOK
<1>1. TypeInv => TypeOK
  BY DEF TypeInv
<1> QED
  BY <1>1, TypeCorrect, PTL

\* The status a row ends a claim with never contradicts its object, whoever
\* ends it: the CHECK constraint of media_resolution_cache never fires.
THEOREM ReadyAlwaysHasObject == Spec => []ReadyIffObject
<1>1. TypeInv => ReadyIffObject
  BY DEF TypeInv
<1> QED
  BY <1>1, TypeCorrect, PTL

\* An object is in media_objects before any row or lookup names it.
THEOREM NamedAlwaysStored == Spec => []NamedObjectsStored
<1>1. TypeInv => NamedObjectsStored
  BY DEF TypeInv
<1> QED
  BY <1>1, TypeCorrect, PTL

----------------------------------------------------------------------------
(* What a step may do to the rows and the lanes *)

Requested ==
  \E ts \in SUBSET Token : RequestTokenMedia(ts) /\ UNCHANGED lane

Quiet == UNCHANGED <<row, leased, lane>>

LEMMA StepKinds ==
  ASSUME TypeInv, [Next]_vars
  PROVE  \/ Requested
         \/ \E l \in Lane : \/ \E t \in Token : Claim(l, t)
                          \/ Resolve(l) \/ Store(l)
                          \/ CompleteReady(l) \/ CompleteMiss(l) \/ Fail(l)
                          \/ LostLease(l) \/ Crash(l)
         \/ \E t \in Token : LeaseExpires(t)
         \/ Quiet
<1>1. ASSUME NEW m \in Market, MarketLaunched(m) \/ MarketRemoved(m)
      PROVE  Requested \/ Quiet
  <2>1. m \in SUBSET Token
    BY MediaQueueAssumption
  <2> QED
    BY <1>1, <2>1 DEF MarketLaunched, MarketRemoved, Requested, Quiet, timers
<1>2. CASE Read
  <2>1. ASSUME NEW t \in Token, LookUp(t) PROVE Quiet
    BY <2>1 DEF LookUp, Quiet, timers
  <2>2. CASE LoadObject
    BY <2>2 DEF LoadObject, Quiet, timers
  <2>3. CASE RequestKnownTokenMedia
    <3>1. CASE UNCHANGED <<row, timers>>
      BY <2>3, <3>1 DEF RequestKnownTokenMedia, Quiet, timers
    <3>2. CASE RequestTokenMedia({reader.token}) /\ reader.token \in UNION listed
      <4>1. {reader.token} \in SUBSET Token
        BY <3>2, MediaQueueAssumption DEF TypeInv, TypeOK
      <4> QED
        BY <2>3, <3>2, <4>1 DEF RequestKnownTokenMedia, Requested
    <3> QED
      BY <2>3, <3>1, <3>2 DEF RequestKnownTokenMedia
  <2> QED
    BY <1>2, <2>1, <2>2, <2>3 DEF Read
<1>3. ASSUME NEW t \in Token, RetryDue(t) \/ CacheExpires(t) \/ ThrottleEnds(t) PROVE Quiet
  BY <1>3 DEF RetryDue, CacheExpires, ThrottleEnds, Quiet
<1>4. CASE UNCHANGED vars
  BY <1>4 DEF vars, timers, Quiet
<1> QED
  BY <1>1, <1>2, <1>3, <1>4 DEF Next, Work, Time

----------------------------------------------------------------------------
(* The bound on attempts *)

LEMMA AttemptsNext ==
  ASSUME TypeInv, AttemptsBounded, [Next]_vars
  PROVE  AttemptsBounded'
<1> SUFFICES ASSUME NEW t \in Token PROVE attempts'[t] <= MaxAttempts
  BY DEF AttemptsBounded
<1>1. attempts \in [Token -> Nat] /\ attempts[t] <= MaxAttempts /\ MaxAttempts \in Nat \ {0}
  BY MediaQueueAssumption DEF TypeInv, TypeOK, AttemptsBounded
<1>2. CASE Requested
  BY <1>1, <1>2 DEF Requested, RequestTokenMedia
<1>3. ASSUME NEW l \in Lane, NEW u \in Token, Claim(l, u)
      PROVE  attempts'[t] <= MaxAttempts
  <2>1. CASE t # u
    BY <1>1, <1>3, <2>1 DEF Claim
  <2>2. CASE t = u /\ status[u] \in Resting
    BY <1>1, <1>3, <2>2 DEF Claim
  <2>3. CASE t = u /\ status[u] \notin Resting
    <3>1. attempts[t] < MaxAttempts /\ attempts'[t] = attempts[t] + 1
      BY <1>1, <1>3, <2>3 DEF Claim, Claimable
    <3> QED
      BY <1>1, <3>1
  <2> QED
    BY <2>1, <2>2, <2>3
<1>4. ASSUME NEW l \in Lane,
             \/ Resolve(l) \/ Store(l) \/ CompleteReady(l) \/ CompleteMiss(l) \/ Fail(l)
             \/ LostLease(l) \/ Crash(l)
      PROVE  UNCHANGED attempts
  BY <1>4 DEF Resolve, Store, CompleteReady, CompleteMiss, Fail, LostLease, Crash, row
<1>5. (\E u \in Token : LeaseExpires(u)) \/ Quiet => UNCHANGED attempts
  BY DEF LeaseExpires, Quiet, row
<1> QED
  BY <1>1, <1>2, <1>3, <1>4, <1>5, StepKinds

\* The CHECK on attempt_count never refuses a claim, however many attempts
\* were lost to crashes.
THEOREM AttemptsAlwaysBounded == Spec => []AttemptsBounded
<1>1. Init => AttemptsBounded
  BY MediaQueueAssumption DEF Init, AttemptsBounded
<1> QED
  BY <1>1, AttemptsNext, TypeCorrect, PTL DEF Spec

----------------------------------------------------------------------------
(* The fence *)

\* No lane and no object is ahead of the generation of its row.
LanesBehind ==
  \A l \in Lane : lane[l].token # None => lane[l].generation <= generation[lane[l].token]

AuthorsBehind == \A t \in Token : writtenBy[t] <= generation[t]

\* ClaimsDistinct is not inductive: a new claim differs from the others only
\* because all of them are behind.
FenceInv == ClaimsDistinct /\ LanesBehind /\ AuthorsBehind

\* A step after which the lanes hold the tokens they held, or fewer.
Behaved ==
  /\ UNCHANGED generation
  /\ \A l \in Lane : \/ lane'[l].token = None
                     \/ /\ lane'[l].token = lane[l].token
                        /\ lane'[l].generation = lane[l].generation

LEMMA BehavedKeepsFence ==
  ASSUME FenceInv, Behaved
  PROVE  ClaimsDistinct' /\ LanesBehind'
BY DEF FenceInv, Behaved, ClaimsDistinct, LanesBehind

LEMMA LaneStepsBehave ==
  ASSUME TypeInv, NEW l \in Lane,
         \/ Resolve(l) \/ Store(l) \/ CompleteReady(l) \/ CompleteMiss(l) \/ Fail(l)
         \/ LostLease(l) \/ Crash(l)
  PROVE  Behaved
<1>1. UNCHANGED generation
  BY DEF Resolve, Store, CompleteReady, CompleteMiss, Fail, LostLease, Crash, row
<1>2. lane \in [Lane -> LaneType]
  BY DEF TypeInv, TypeOK
<1>3. ASSUME NEW s, NEW r, Advance(l, s, r) PROVE Behaved
  BY <1>1, <1>2, <1>3 DEF Advance, Behaved
<1>4. CASE lane' = [lane EXCEPT ![l] = IdleLane]
  BY <1>1, <1>2, <1>4 DEF IdleLane, Behaved
<1> QED
  BY <1>3, <1>4
  DEF Resolve, Store, CompleteReady, CompleteMiss, Fail, LostLease, Crash, Release

LEMMA FenceNext ==
  ASSUME TypeInv, FenceInv, [Next]_vars
  PROVE  FenceInv'
<1>1. /\ lane \in [Lane -> LaneType] /\ generation \in [Token -> Nat]
      /\ writtenBy \in [Token -> Nat]
  BY DEF TypeInv, TypeOK
<1>2. CASE Requested \/ Quiet \/ \E t \in Token : LeaseExpires(t)
  BY <1>2 DEF Requested, RequestTokenMedia, Quiet, LeaseExpires, row, FenceInv,
              ClaimsDistinct, LanesBehind, AuthorsBehind
<1>3. ASSUME NEW l \in Lane, NEW t \in Token, Claim(l, t) PROVE FenceInv'
  <2>1. /\ generation' = [generation EXCEPT ![t] = generation[t] + 1]
        /\ lane'[l].token = t /\ lane'[l].generation = generation[t] + 1
        /\ \A k \in Lane : k # l => lane'[k] = lane[k]
        /\ UNCHANGED writtenBy
    BY <1>1, <1>3 DEF Claim, NextGeneration
  <2>2. \A k \in Lane : lane[k].token \in Token \cup {None} /\ lane[k].generation \in Nat
    BY <1>1 DEF LaneType
  <2>3. LanesBehind'
    <3> SUFFICES ASSUME NEW k \in Lane, lane'[k].token # None
                 PROVE  lane'[k].generation <= generation'[lane'[k].token]
      BY DEF LanesBehind
    <3>1. CASE k = l
      BY <1>1, <2>1, <3>1
    <3>2. CASE k # l
      <4>1. lane[k].token \in Token /\ lane[k].generation <= generation[lane[k].token]
        BY <2>1, <2>2, <3>2 DEF FenceInv, LanesBehind
      <4> QED
        BY <1>1, <2>1, <2>2, <3>2, <4>1
    <3> QED
      BY <3>1, <3>2
  <2>4. ClaimsDistinct'
    <3>1. \A k \in Lane : k # l /\ lane'[k].token = t => lane'[k].generation <= generation[t]
      BY <2>1, MediaQueueAssumption DEF FenceInv, LanesBehind
    <3>2. \A k \in Lane : k # l /\ lane'[k].token = t => lane'[k].generation # generation[t] + 1
      BY <1>1, <2>1, <2>2, <3>1
    <3> QED
      BY <2>1, <3>2 DEF FenceInv, ClaimsDistinct
  <2>5. AuthorsBehind'
    BY <1>1, <2>1 DEF FenceInv, AuthorsBehind
  <2> QED
    BY <2>3, <2>4, <2>5 DEF FenceInv
<1>4. ASSUME NEW l \in Lane, CompleteReady(l) PROVE FenceInv'
  <2>1. generation[lane[l].token] = lane[l].generation /\ UNCHANGED generation
        /\ writtenBy' = [writtenBy EXCEPT ![lane[l].token] = lane[l].generation]
    BY <1>4 DEF CompleteReady, HoldsLease
  <2>2. AuthorsBehind'
    BY <1>1, <2>1 DEF FenceInv, AuthorsBehind
  <2> QED
    BY <1>4, <2>2, LaneStepsBehave, BehavedKeepsFence DEF FenceInv
<1>5. ASSUME NEW l \in Lane,
             \/ Resolve(l) \/ Store(l) \/ CompleteMiss(l) \/ Fail(l)
             \/ LostLease(l) \/ Crash(l)
      PROVE  FenceInv'
  <2>1. UNCHANGED <<generation, writtenBy>>
    BY <1>5 DEF Resolve, Store, CompleteMiss, Fail, LostLease, Crash, row
  <2>2. AuthorsBehind'
    BY <2>1 DEF FenceInv, AuthorsBehind
  <2> QED
    BY <1>5, <2>2, LaneStepsBehave, BehavedKeepsFence DEF FenceInv
<1> QED
  BY <1>2, <1>3, <1>4, <1>5, StepKinds

LEMMA FenceCorrect == Spec => []FenceInv
<1>1. Init => FenceInv
  BY DEF Init, IdleLane, FenceInv, ClaimsDistinct, LanesBehind, AuthorsBehind
<1> QED
  BY <1>1, FenceNext, TypeCorrect, PTL DEF Spec

\* Two claims of a row never share a generation, so the comparison that ends
\* a claim tells them apart even under one worker id.
THEOREM ClaimsAlwaysDistinct == Spec => []ClaimsDistinct
<1>1. FenceInv => ClaimsDistinct
  BY DEF FenceInv
<1> QED
  BY <1>1, FenceCorrect, PTL

\* A worker whose claim was taken over never overwrites a newer result.
THEOREM NewestAlwaysWins == Spec => NewestResultWins
<1>1. ASSUME TypeInv, FenceInv, [Next]_vars PROVE [ResultsGetNewer]_vars
  <2>1. FenceInv'
    BY <1>1, FenceNext
  <2>2. writtenBy \in [Token -> Nat] /\ AuthorsBehind /\ AuthorsBehind'
    BY <1>1, <2>1 DEF TypeInv, TypeOK, FenceInv
  <2>3. CASE UNCHANGED writtenBy
    BY <2>2, <2>3 DEF AuthorsBehind, ResultsGetNewer
  <2>4. ASSUME NEW l \in Lane, CompleteReady(l) PROVE ResultsGetNewer
    <3>1. generation[lane[l].token] = lane[l].generation
          /\ writtenBy' = [writtenBy EXCEPT ![lane[l].token] = lane[l].generation]
      BY <2>4 DEF CompleteReady, HoldsLease
    <3> QED
      BY <2>2, <3>1 DEF AuthorsBehind, ResultsGetNewer
  <2>5. ASSUME NEW l \in Lane,
               \/ (\E t \in Token : Claim(l, t)) \/ Resolve(l) \/ Store(l)
               \/ CompleteMiss(l) \/ Fail(l) \/ LostLease(l) \/ Crash(l)
        PROVE  UNCHANGED writtenBy
    BY <2>5 DEF Claim, Resolve, Store, CompleteMiss, Fail, LostLease, Crash, row
  <2>6. Requested \/ Quiet \/ (\E t \in Token : LeaseExpires(t)) => UNCHANGED writtenBy
    BY DEF Requested, RequestTokenMedia, Quiet, LeaseExpires, row
  <2> QED
    BY <1>1, <2>3, <2>4, <2>5, <2>6, StepKinds
<1> QED
  BY <1>1, TypeCorrect, FenceCorrect, PTL DEF Spec, NewestResultWins

----------------------------------------------------------------------------
(* The queue implements the leased register *)

\* Claims grant tickets, a completed claim writes under the open ticket, and
\* whatever else ends a lease lets the ticket lapse.
THEOREM QueueImplementsRegister == Spec => ImplementsRegister
<1>1. Init => Register!RegisterInit
  BY DEF Init, Register!RegisterInit
<1>2. ASSUME TypeInv, [Next]_vars
      PROVE  [Register!RegisterNext]_<<generation, leased, object, writtenBy>>
  <2> DEFINE Stutter == UNCHANGED <<generation, leased, object, writtenBy>>
  <2>1. Requested \/ Quiet => Stutter
    BY DEF Requested, RequestTokenMedia, Quiet, row
  <2>2. ASSUME NEW t \in Token, LeaseExpires(t) PROVE Register!Lapse(t)
    BY <2>2 DEF LeaseExpires, Register!Lapse, row
  <2>3. ASSUME NEW l \in Lane, NEW t \in Token, Claim(l, t) PROVE Register!Grant(t)
    BY <1>2, <2>3 DEF Claim, Claimable, NextGeneration, Register!Grant, TypeInv, TypeOK
  <2>4. ASSUME NEW l \in Lane, CompleteReady(l)
        PROVE  \E t \in Token, c \in Content : Register!Write(t, c)
    <3>1. lane[l].token \in Token /\ lane[l].result \in Content
      BY <1>2, <2>4 DEF CompleteReady, TypeInv, LanesReady, LaneReady
    <3>2. Register!Write(lane[l].token, lane[l].result)
      BY <2>4 DEF CompleteReady, HoldsLease, Release, Register!Write
    <3> QED
      BY <3>1, <3>2
  <2>5. ASSUME NEW l \in Lane, CompleteMiss(l) \/ Fail(l)
        PROVE  \E t \in Token : Register!Lapse(t)
    <3>1. lane[l].token \in Token
      BY <1>2, <2>5 DEF CompleteMiss, Fail, TypeInv, LanesReady, LaneReady
    <3>2. Register!Lapse(lane[l].token)
      BY <2>5 DEF CompleteMiss, Fail, HoldsLease, Release, Register!Lapse
    <3> QED
      BY <3>1, <3>2
  <2>6. ASSUME NEW l \in Lane, Resolve(l) \/ Store(l) \/ LostLease(l) \/ Crash(l)
        PROVE  Stutter
    BY <2>6 DEF Resolve, Store, LostLease, Crash, row, timers
  <2> QED
    BY <1>2, <2>1, <2>2, <2>3, <2>4, <2>5, <2>6, StepKinds DEF Register!RegisterNext
<1> QED
  BY <1>1, <1>2, TypeCorrect, PTL
  DEF Spec, ImplementsRegister, Register!RegisterSpec, Register!registerVars
=============================================================================
