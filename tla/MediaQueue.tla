----------------------------- MODULE MediaQueue -----------------------------
(***************************************************************************)
(* The token media cache: rows of media_resolution_cache, the lanes of the *)
(* media workers that lease and resolve them, and the public lookup that   *)
(* reads them and asks for more.                                           *)
(*                                                                         *)
(* Each call of a migration's function is one UPDATE or INSERT under a row *)
(* lock, hence one action.  Time is not counted: of every deadline the     *)
(* model keeps whether it has passed, and a timer action lets it pass.     *)
(* The claim takes any claimable row; its ORDER BY is left out, since SKIP *)
(* LOCKED passes over rows anyway.                                         *)
(***************************************************************************)
EXTENDS Naturals, FiniteSets

CONSTANTS
  Token,          \* token addresses
  Market,         \* each the set {token, quote_token} of a listed market
  Lane,           \* lanes of the media workers
  WorkerId,       \* WorkerId[l]: the worker_id lane l claims under
  Worker,         \* worker ids
  Content,        \* sanitized images, by content hash
  MaxAttempts,    \* max_attempts of a row
  MaxClaims,      \* bound: claims of one row
  MaxExpiries,    \* bound: cache entries that run out
  MaxFaults,      \* bound: lane failures and leases that run out under work
  None

ASSUME MediaQueueAssumption ==
  /\ Market \subseteq SUBSET Token
  /\ WorkerId \in [Lane -> Worker]
  /\ MaxAttempts \in Nat \ {0}
  /\ MaxClaims \in Nat /\ MaxExpiries \in Nat /\ MaxFaults \in Nat
  /\ None \notin Token \cup Worker \cup Content

VARIABLES
  listed,      \* markets rows
  status,      \* media_resolution_cache.status, "absent" without a row
  attempts,    \* attempt_count
  generation,  \* lease_generation
  owner,       \* lease_owner
  object,      \* content_hash and object_key
  writtenBy,   \* history: the generation of the claim that wrote object
  leased,      \* rows whose lease_expires_at is in the future
  due,         \* rows whose next_retry_at is null or past
  fresh,       \* rows whose expires_at is in the future
  recent,      \* rows requested less than min_request_seconds ago
  stored,      \* media_objects
  lane,        \* per lane: what it works on
  reader,      \* one public lookup at a time
  expiries, faults

row    == <<status, attempts, generation, owner, object, writtenBy>>
timers == <<leased, due, fresh, recent>>
env    == <<listed, expiries, faults>>
vars   == <<env, row, timers, stored, lane, reader>>

Resting  == {"ready", "negative", "rejected"}
Missed   == {"negative", "rejected"}
Statuses == {"absent", "pending", "fetching"} \cup Resting

IdleLane == [step |-> "idle", token |-> None, generation |-> 0, result |-> None]
IdleReader == [step |-> "idle", token |-> None, key |-> None, expired |-> FALSE]

Init ==
  /\ listed = {}
  /\ status = [t \in Token |-> "absent"]
  /\ attempts = [t \in Token |-> 0]
  /\ generation = [t \in Token |-> 0]
  /\ owner = [t \in Token |-> None]
  /\ object = [t \in Token |-> None]
  /\ writtenBy = [t \in Token |-> 0]
  /\ leased = {} /\ due = {} /\ fresh = {} /\ recent = {}
  /\ stored = {}
  /\ lane = [l \in Lane |-> IdleLane]
  /\ reader = IdleReader
  /\ expiries = 0 /\ faults = 0

----------------------------------------------------------------------------
(* Requests *)

\* Rows that a request starts afresh.
Restarted(ts) == { t \in ts : status[t] \in Missed /\ t \notin fresh }

NewRows(ts) == { t \in ts : status[t] = "absent" }

\* request_token_media for each token of ts.
RequestTokenMedia(ts) ==
  LET again == NewRows(ts) \cup Restarted(ts) IN
  /\ status' = [t \in Token |-> IF t \in again THEN "pending" ELSE status[t]]
  /\ attempts' = [t \in Token |-> IF t \in again THEN 0 ELSE attempts[t]]
  /\ due' = due \cup again
  /\ recent' = recent \cup ts
  /\ UNCHANGED <<generation, owner, object, writtenBy, leased, fresh>>

\* The trigger on markets queues both tokens of a new market.
MarketLaunched(m) ==
  /\ m \notin listed
  /\ listed' = listed \cup {m}
  /\ RequestTokenMedia(m)
  /\ UNCHANGED <<expiries, faults, stored, lane, reader>>

\* A rollback of the indexer deletes a market; its media rows stay.
MarketRemoved(m) ==
  /\ m \in listed
  /\ listed' = listed \ {m}
  /\ UNCHANGED <<expiries, faults, row, timers, stored, lane, reader>>

\* getCached: a ready row is served whatever its age, a miss while it lasts.
LookUp(t) ==
  /\ reader.step = "idle"
  /\ \/ /\ status[t] = "ready"
        /\ reader' = [step |-> "load", token |-> t, key |-> object[t],
                      expired |-> t \notin fresh]
     \/ /\ status[t] # "ready"
        /\ ~(status[t] \in Missed /\ t \in fresh)
        /\ reader' = [IdleReader EXCEPT !.step = "request", !.token = t]
  /\ UNCHANGED <<env, row, timers, stored, lane>>

\* storage.get: what is found and fresh is served, the rest is requested.
LoadObject ==
  /\ reader.step = "load"
  /\ reader' = IF reader.key \in stored /\ ~reader.expired THEN IdleReader
               ELSE [IdleReader EXCEPT !.step = "request", !.token = reader.token]
  /\ UNCHANGED <<env, row, timers, stored, lane>>

RateLimited(t) ==
  t \in recent /\ status[t] # "absent" /\ ~(status[t] \in Missed /\ t \notin fresh)

\* request_known_token_media: unknown, rate_limited or queued.
RequestKnownTokenMedia ==
  LET t == reader.token IN
  /\ reader.step = "request"
  /\ reader' = IdleReader
  /\ IF t \in UNION listed /\ ~RateLimited(t)
     THEN RequestTokenMedia({t})
     ELSE UNCHANGED <<row, timers>>
  /\ UNCHANGED <<env, stored, lane>>

----------------------------------------------------------------------------
(* The lanes *)

\* Mutant: without the bound on attempts.
ClaimableForEver(t) ==
  /\ t \notin leased
  /\ t \in due
  /\ \/ status[t] \in {"pending", "fetching"}
     \/ status[t] \in Resting /\ t \notin fresh

Claimable(t) ==
  /\ t \notin leased
  /\ t \in due
  /\ \/ status[t] \in {"pending", "fetching"} /\ attempts[t] < MaxAttempts
     \/ status[t] \in Resting /\ t \notin fresh

\* Mutant: the lease keeps its generation when it changes hands.
SameTicket(t) == IF owner[t] = None THEN generation[t] + 1 ELSE generation[t]

NextGeneration(t) == generation[t] + 1

\* claim_media_resolution.  A ready row stays ready while it is refreshed.
Claim(l, t) ==
  /\ lane[l].step = "idle"
  /\ Claimable(t)
  /\ generation[t] < MaxClaims
  /\ status' = [status EXCEPT ![t] = IF @ \in {"pending"} \cup Missed THEN "fetching" ELSE @]
  /\ attempts' = [attempts EXCEPT ![t] = IF status[t] \in Resting THEN 1 ELSE @ + 1]
  /\ generation' = [generation EXCEPT ![t] = NextGeneration(t)]
  /\ owner' = [owner EXCEPT ![t] = WorkerId[l]]
  /\ leased' = leased \cup {t}
  /\ lane' = [lane EXCEPT ![l] = [step |-> "resolve", token |-> t,
                                  generation |-> NextGeneration(t), result |-> None]]
  /\ UNCHANGED <<env, object, writtenBy, due, fresh, recent, stored, reader>>

\* Lane l goes on to step s with result r.
Advance(l, s, r) ==
  lane' = [lane EXCEPT ![l] = [step |-> s, token |-> lane[l].token,
                               generation |-> lane[l].generation, result |-> r]]

\* resolveFromProviders ends with an image, a miss or an upstream error.
Resolve(l) ==
  /\ lane[l].step = "resolve"
  /\ \/ \E c \in Content : Advance(l, "store", c)
     \/ \E s \in Missed : Advance(l, "miss", s)
     \/ Advance(l, "fail", None)
  /\ UNCHANGED <<env, row, timers, stored, reader>>

\* Mutant: an insert that fails goes unnoticed.
StoreUnchecked(l) ==
  /\ lane[l].step = "store"
  /\ stored' \in {stored, stored \cup {lane[l].result}}
  /\ Advance(l, "complete", lane[l].result)
  /\ UNCHANGED <<env, row, timers, reader>>

\* storage.put, before the row names the object.
Store(l) ==
  /\ lane[l].step = "store"
  /\ stored' = stored \cup {lane[l].result}
  /\ Advance(l, "complete", lane[l].result)
  /\ UNCHANGED <<env, row, timers, reader>>

\* Mutant: the generation of the claim is not compared.
HoldsByName(l) ==
  LET t == lane[l].token IN owner[t] = WorkerId[l] /\ t \in leased

\* Mutant: a lease that has run out still counts.
HoldsForEver(l) ==
  LET t == lane[l].token IN
  owner[t] = WorkerId[l] /\ generation[t] = lane[l].generation

\* The WHERE clause of the three functions that end a claim.
HoldsLease(l) ==
  LET t == lane[l].token IN
  /\ owner[t] = WorkerId[l]
  /\ generation[t] = lane[l].generation
  /\ t \in leased

\* Whatever the outcome, the lease of t ends and lane l is free again.
Release(l, t) ==
  /\ owner' = [owner EXCEPT ![t] = None]
  /\ leased' = leased \ {t}
  /\ lane' = [lane EXCEPT ![l] = IdleLane]

\* lost_lease: no row matched.
LostLease(l) ==
  /\ lane[l].step \in {"complete", "miss", "fail"}
  /\ ~HoldsLease(l)
  /\ lane' = [lane EXCEPT ![l] = IdleLane]
  /\ UNCHANGED <<env, row, timers, stored, reader>>

\* complete_media_resolution.
CompleteReady(l) ==
  LET t == lane[l].token IN
  /\ lane[l].step = "complete"
  /\ HoldsLease(l)
  /\ status' = [status EXCEPT ![t] = "ready"]
  /\ object' = [object EXCEPT ![t] = lane[l].result]
  /\ writtenBy' = [writtenBy EXCEPT ![t] = lane[l].generation]
  /\ fresh' = fresh \cup {t}
  /\ due' = due \cup {t}
  /\ Release(l, t)
  /\ UNCHANGED <<env, attempts, generation, recent, stored, reader>>

\* Mutant: a miss hides the object of an earlier resolution.
MissedStatusAlways(t, s) == s

\* A previously sanitized object stays live while later refreshes miss.
MissedStatus(t, s) == IF object[t] # None THEN "ready" ELSE s

\* complete_media_miss.
CompleteMiss(l) ==
  LET t == lane[l].token IN
  /\ lane[l].step = "miss"
  /\ HoldsLease(l)
  /\ status' = [status EXCEPT ![t] = MissedStatus(t, lane[l].result)]
  /\ fresh' = fresh \cup {t}
  /\ due' = due \ {t}
  /\ Release(l, t)
  /\ UNCHANGED <<env, attempts, generation, object, writtenBy, recent, stored, reader>>

\* Mutant: the last attempt goes back to the queue.
FailedStatusPending(t) == IF object[t] # None THEN "ready" ELSE "pending"

\* Mutant: the error is written where the status belongs.
FailedStatusError(t) == IF object[t] # None THEN "ready" ELSE "upstream_error"

FailedStatus(t) ==
  IF object[t] # None THEN "ready"
  ELSE IF attempts[t] >= MaxAttempts THEN "negative" ELSE "pending"

\* fail_media_resolution.
Fail(l) ==
  LET t == lane[l].token IN
  /\ lane[l].step = "fail"
  /\ HoldsLease(l)
  /\ status' = [status EXCEPT ![t] = FailedStatus(t)]
  /\ fresh' = IF FailedStatus(t) = "negative" THEN fresh \cup {t} ELSE fresh
  /\ due' = due \ {t}
  /\ Release(l, t)
  /\ UNCHANGED <<env, attempts, generation, object, writtenBy, recent, stored, reader>>

\* The process dies, or a database call of the lane throws.
Crash(l) ==
  /\ lane[l].step # "idle"
  /\ faults < MaxFaults
  /\ faults' = faults + 1
  /\ lane' = [lane EXCEPT ![l] = IdleLane]
  /\ UNCHANGED <<listed, expiries, row, timers, stored, reader>>

----------------------------------------------------------------------------
(* Deadlines *)

Working(t) ==
  \E l \in Lane : lane[l].token = t /\ lane[l].generation = generation[t]

\* A lease that runs out while its lane is still at work counts as a fault.
LeaseExpires(t) ==
  /\ t \in leased
  /\ Working(t) => faults < MaxFaults
  /\ faults' = IF Working(t) THEN faults + 1 ELSE faults
  /\ leased' = leased \ {t}
  /\ UNCHANGED <<listed, expiries, row, due, fresh, recent, stored, lane, reader>>

RetryDue(t) ==
  /\ status[t] # "absent" /\ t \notin due
  /\ due' = due \cup {t}
  /\ UNCHANGED <<env, row, leased, fresh, recent, stored, lane, reader>>

CacheExpires(t) ==
  /\ t \in fresh
  /\ expiries < MaxExpiries
  /\ expiries' = expiries + 1
  /\ fresh' = fresh \ {t}
  /\ UNCHANGED <<listed, faults, row, leased, due, recent, stored, lane, reader>>

ThrottleEnds(t) ==
  /\ t \in recent
  /\ recent' = recent \ {t}
  /\ UNCHANGED <<env, row, leased, due, fresh, stored, lane, reader>>

----------------------------------------------------------------------------

Work(l) ==
  \/ \E t \in Token : Claim(l, t)
  \/ Resolve(l) \/ Store(l) \/ CompleteReady(l) \/ CompleteMiss(l) \/ Fail(l)
  \/ LostLease(l)

Read == (\E t \in Token : LookUp(t)) \/ LoadObject \/ RequestKnownTokenMedia

Time(t) == LeaseExpires(t) \/ RetryDue(t) \/ CacheExpires(t) \/ ThrottleEnds(t)

Next ==
  \/ \E m \in Market : MarketLaunched(m) \/ MarketRemoved(m)
  \/ Read
  \/ \E l \in Lane : Work(l) \/ Crash(l)
  \/ \E t \in Token : Time(t)

Spec == Init /\ [][Next]_vars

\* A lane loops for ever, and leases and back-offs run out.
FairSpec ==
  /\ Spec
  /\ \A l \in Lane : WF_vars(Work(l))
  /\ \A t \in Token : WF_vars(LeaseExpires(t)) /\ WF_vars(RetryDue(t))

----------------------------------------------------------------------------
(* Properties *)

LaneType ==
  [step : {"idle", "resolve", "store", "complete", "miss", "fail"},
   token : Token \cup {None}, generation : Nat,
   result : Content \cup Missed \cup {None}]

ReaderType ==
  [step : {"idle", "load", "request"}, token : Token \cup {None},
   key : Content \cup {None}, expired : BOOLEAN]

\* Every variable has its type.
TypeOK ==
  /\ listed \subseteq Market
  /\ status \in [Token -> Statuses]
  /\ attempts \in [Token -> Nat]
  /\ generation \in [Token -> Nat]
  /\ owner \in [Token -> Worker \cup {None}]
  /\ object \in [Token -> Content \cup {None}]
  /\ writtenBy \in [Token -> Nat]
  /\ leased \subseteq Token /\ due \subseteq Token
  /\ fresh \subseteq Token /\ recent \subseteq Token
  /\ stored \subseteq Content
  /\ lane \in [Lane -> LaneType]
  /\ reader \in ReaderType
  /\ expiries \in Nat /\ faults \in Nat

\* The CHECK constraint of the table never refuses an UPDATE: a row is ready
\* exactly when it names an object, through claims, misses and failures of a
\* refresh alike.
ReadyIffObject == \A t \in Token : status[t] = "ready" <=> object[t] # None

\* Whatever a row or a lookup under way names is in media_objects: an object
\* is stored before it is named, and a refresh never takes it away.
NamedObjectsStored ==
  /\ \A t \in Token : object[t] # None => object[t] \in stored
  /\ reader.step = "load" => reader.key \in stored

\* No two lanes ever work under one generation of a row, even when they share
\* a worker id; the fence of the final UPDATE rests on it.
ClaimsDistinct ==
  \A l, k \in Lane :
    l # k /\ lane[l].token # None /\ lane[l].token = lane[k].token
      => lane[l].generation # lane[k].generation

\* backend/README.md:9, retries are bounded: media_attempts_are_bounded never
\* refuses a claim, though crashed attempts are never given back.
AttemptsBounded == \A t \in Token : attempts[t] <= MaxAttempts

\* A step leaves every result of a claim no older than the one it replaces, and
\* none from a claim not made yet.
ResultsGetNewer ==
  \A t \in Token : writtenBy'[t] >= writtenBy[t] /\ writtenBy'[t] <= generation'[t]

\* backend/README.md:9: a stale worker cannot overwrite a newer result, nor
\* name its own result newer than the claim it came from.
NewestResultWins == [][ResultsGetNewer]_vars

\* The cache is a register per token written under a lease.
Register == INSTANCE LeasedRegister WITH
  ticket <- generation, open <- leased, value <- object, author <- writtenBy
ImplementsRegister == Register!RegisterSpec

\* Every queued token comes to an answer, or some lane has failed: a retry is
\* never dropped and the last one ends in a negative entry.
Resolves ==
  \A t \in Token :
    status[t] \in {"pending", "fetching"} ~> (status[t] \in Resting \/ faults > 0)

\* backend/README.md:9-10: retries of a leased row are bounded and a lookup
\* enqueues a refresh; a token never waits for an attempt nobody may make.
AnswersAfterCrash ==
  \A t \in Token : status[t] \in {"pending", "fetching"} ~> status[t] \in Resting

\* migrations/002_media_queue.sql:127-128: replicas never download the same
\* token concurrently.
OneDownloadPerToken ==
  \A l, k \in Lane :
    l # k /\ lane[l].step = "resolve" /\ lane[k].step = "resolve"
      => lane[l].token # lane[k].token
=============================================================================
