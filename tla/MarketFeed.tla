------------------------------ MODULE MarketFeed ------------------------------
(* The market table of the web client                                         *)
(* (app/components/realtime-market-feed.tsx, app/lib/realtime-market-events).  *)
(* Three things write it: a first snapshot, a view refresh that replaces the   *)
(* table, and live events that are merged into it; a page of older markets is  *)
(* merged too.  Requests read the server at one moment and answer at another.  *)
(* The stream is left as loose as the two servers make it (MarketHub,          *)
(* EventStream): it may repeat, reorder and skip events after its cursor.      *)
(* Names that EventStream has too begin with Table: FeedProofs extends both.   *)
EXTENDS Naturals, Sequences

CONSTANTS Markets, MaxEvents, MaxViews

ASSUME FeedAssumption == MaxEvents \in Nat /\ MaxViews \in Nat

VARIABLES log,          \* the events the server has committed
          transport,    \* which stream is open, or the phase before it
          after,        \* the cursor the stream was opened with
          resumeAfter, rows, timer,
          first, refresh, page, more,   \* the three requests; another page exists
          views,        \* view refreshes the user may still cause
          viewAsOf,     \* the event id of the snapshot the table was last set to
          due,          \* the newest event delivered that asks for a refetch
          missed        \* the last view refresh failed

tableVars == <<log, transport, after, resumeAfter, rows, timer, first, refresh,
               page, more, views, viewAsOf, due, missed>>
streamVars == <<transport, after, resumeAfter>>
requests == <<first, refresh, page, more, views>>

Unasked == MaxEvents + 1    \* a request nobody has made
Asked == MaxEvents + 2      \* a request the server has not read yet
Transports == {"loading", "connecting", "websocket", "sse", "stopped"}
Types == {"market.launched", "market.trade.upsert", "chain.reorg", "market.removed"}
Keys == {"marketAddress", "launchId"} \X Markets
Event(type, m) == [type |-> type, market |-> m]

Bigger(a, b) == IF a > b THEN a ELSE b

-----------------------------------------------------------------------------
(* The server: markets are launched and traded; a rollback writes chain.reorg  *)
(* and the removals in one transaction (and market.trade.reorg, to the client  *)
(* of a socket one more trade event, to that of a stream none).                *)
Listed(n) ==
  {m \in Markets : \E i \in 1..n :
     /\ log[i] = Event("market.launched", m)
     /\ \A j \in i+1..n : log[j] # Event("market.removed", m)}

Commits(events) ==
  /\ transport # "stopped"
  /\ Len(log) + Len(events) <= MaxEvents
  /\ log' = log \o events
  /\ UNCHANGED <<streamVars, requests, rows, timer, viewAsOf, due, missed>>

ServerLaunches(m) ==
  m \notin Listed(Len(log)) /\ Commits(<<Event("market.launched", m)>>)
ServerTrades(m) ==
  m \in Listed(Len(log)) /\ Commits(<<Event("market.trade.upsert", m)>>)
ServerReorgs(m) ==
  /\ m \in Listed(Len(log))
  /\ Commits(<<Event("chain.reorg", m), Event("market.removed", m)>>)

-----------------------------------------------------------------------------
(* identityFor: a snapshot row has a market address; what the events carry is  *)
(* named by its launch id.  marketIsOlder compares event ids, which every row  *)
(* has.                                                                        *)
IdentityFor(m, source) == <<IF source = "snapshot" THEN "marketAddress" ELSE "launchId", m>>

\* Mutant: rows are merged in the order they arrive.
OlderIgnored(previous, incoming) == FALSE

MarketIsOlder(previous, incoming) == incoming < previous

NormalizeMarkets(markets, source, id) == [k \in {IdentityFor(m, source) : m \in markets} |-> id]

MergeMarkets(current, incoming) ==
  [k \in DOMAIN current \cup DOMAIN incoming |->
     CASE k \notin DOMAIN incoming -> current[k]
       [] k \notin DOMAIN current -> incoming[k]
       [] OTHER -> IF MarketIsOlder(current[k], incoming[k]) THEN current[k] ELSE incoming[k]]

RemoveMarkets(current, m) ==
  [k \in DOMAIN current \ {IdentityFor(m, "event")} |-> current[k]]

IsRefetchEvent(type) == type \in {"market.trade.upsert", "chain.reorg"}
IsDeleteEvent(type) == type = "market.removed"
\* A launch names its contracts in the terms of the ABI, none of which
\* looksLikeMarket knows; a trade is taken for a market by its txHash.
CarriesMarket(type) == type = "market.trade.upsert"
SseListens(type) == type \in Types \ {"market.removed"}

\* Mutant: a refetch is left out while a refresh is in flight.
RefetchUnlessRefreshing == timer' = (timer \/ refresh = Unasked)

RequestSafeRefetch == timer' = TRUE

ApplyEvent(i) ==
  LET event == log[i] IN
  /\ resumeAfter' = i
  /\ IF IsRefetchEvent(event.type)
       THEN RequestSafeRefetch /\ due' = Bigger(due, i)
       ELSE UNCHANGED <<timer, due>>
  /\ rows' = CASE IsDeleteEvent(event.type) -> RemoveMarkets(rows, event.market)
               [] CarriesMarket(event.type) ->
                    MergeMarkets(rows, NormalizeMarkets({event.market}, "event", i))
               [] OTHER -> rows
  /\ UNCHANGED <<log, transport, after, requests, viewAsOf, missed>>

EventArrives(i) ==
  /\ transport \in {"websocket", "sse"}
  /\ transport = "sse" => SseListens(log[i].type)
  /\ ApplyEvent(i)

-----------------------------------------------------------------------------
(* startFeed: the first snapshot, then the WebSocket; when that closes the     *)
(* client stays with the EventSource, which reconnects with its first URL.     *)
OpenWebSocket(cursor) ==
  /\ transport' = "connecting"
  /\ after' = cursor
  /\ resumeAfter' = cursor
  /\ first' = Unasked

FirstRead ==
  /\ first = Asked
  /\ first' = Len(log)
  /\ UNCHANGED <<log, streamVars, rows, timer, refresh, page, more, views, viewAsOf, due, missed>>

FirstAnswers ==
  /\ first \notin {Unasked, Asked}
  /\ \E listed \in SUBSET Listed(first) :
       /\ rows' = NormalizeMarkets(listed, "snapshot", first)
       /\ more' = (listed # Listed(first))
  /\ viewAsOf' = first
  /\ OpenWebSocket(first)
  /\ UNCHANGED <<log, timer, refresh, page, views, due, missed>>

FirstFails ==
  /\ first # Unasked
  /\ OpenWebSocket(0)
  /\ UNCHANGED <<log, rows, timer, refresh, page, more, views, viewAsOf, due, missed>>

SocketOpens ==
  /\ transport = "connecting"
  /\ transport' = "websocket"
  /\ UNCHANGED <<log, after, resumeAfter, requests, rows, timer, viewAsOf, due, missed>>

SocketCloses ==
  /\ transport \in {"connecting", "websocket"}
  /\ transport' = "sse"
  /\ after' = resumeAfter
  /\ UNCHANGED <<log, resumeAfter, requests, rows, timer, viewAsOf, due, missed>>

-----------------------------------------------------------------------------
(* refreshView runs again when the view or the refetch nonce changes and       *)
(* aborts the request before it.                                               *)
ChangeView ==
  /\ transport # "stopped"
  /\ views > 0
  /\ views' = views - 1
  /\ refresh' = Asked
  /\ UNCHANGED <<log, streamVars, rows, timer, first, page, more, viewAsOf, due, missed>>

\* Mutant: the refetch does not abort a refresh in flight.
RefetchOnce ==
  /\ timer
  /\ timer' = FALSE
  /\ refresh' = IF refresh = Unasked THEN Asked ELSE refresh
  /\ UNCHANGED <<log, streamVars, rows, first, page, more, views, viewAsOf, due, missed>>

RefetchTimer ==
  /\ timer
  /\ timer' = FALSE
  /\ refresh' = Asked
  /\ UNCHANGED <<log, streamVars, rows, first, page, more, views, viewAsOf, due, missed>>

RefreshRead ==
  /\ refresh = Asked
  /\ refresh' = Len(log)
  /\ UNCHANGED <<log, streamVars, rows, timer, first, page, more, views, viewAsOf, due, missed>>

RefreshAnswers ==
  /\ refresh \notin {Unasked, Asked}
  /\ \E listed \in SUBSET Listed(refresh) :
       /\ rows' = NormalizeMarkets(listed, "snapshot", refresh)
       /\ more' = (listed # Listed(refresh))
  /\ viewAsOf' = refresh
  /\ missed' = FALSE
  /\ refresh' = Unasked
  /\ UNCHANGED <<log, streamVars, timer, first, page, views, due>>

RefreshFails ==
  /\ refresh # Unasked
  /\ missed' = TRUE
  /\ refresh' = Unasked
  /\ UNCHANGED <<log, streamVars, rows, timer, first, page, more, views, viewAsOf, due>>

-----------------------------------------------------------------------------
(* loadMore: not aborted by a refresh, so its rows may come from before it.    *)
LoadMore ==
  /\ transport # "stopped"
  /\ more
  /\ page = Unasked
  /\ page' = Asked
  /\ UNCHANGED <<log, streamVars, rows, timer, first, refresh, more, views, viewAsOf, due, missed>>

PageRead ==
  /\ page = Asked
  /\ page' = Len(log)
  /\ UNCHANGED <<log, streamVars, rows, timer, first, refresh, more, views, viewAsOf, due, missed>>

PageAnswers ==
  /\ page \notin {Unasked, Asked}
  /\ \E listed \in SUBSET Listed(page), again \in BOOLEAN :
       /\ rows' = MergeMarkets(rows, NormalizeMarkets(listed, "snapshot", page))
       /\ more' = again
  /\ page' = Unasked
  /\ UNCHANGED <<log, streamVars, timer, first, refresh, views, viewAsOf, due, missed>>

PageFails ==
  /\ page # Unasked
  /\ page' = Unasked
  /\ UNCHANGED <<log, streamVars, rows, timer, first, refresh, more, views, viewAsOf, due, missed>>

(* The cleanup of the effects: the component is gone, nothing is shown of what *)
(* still arrives, and the model ends.                                          *)
Unmount ==
  /\ transport # "stopped"
  /\ transport' = "stopped"
  /\ timer' = FALSE
  /\ first' = Unasked /\ refresh' = Unasked /\ page' = Unasked
  /\ UNCHANGED <<log, after, resumeAfter, rows, more, views, viewAsOf, due, missed>>

-----------------------------------------------------------------------------
TableInit ==
  /\ log = <<>>
  /\ transport = "loading"
  /\ after = 0 /\ resumeAfter = 0
  /\ rows = [k \in {} |-> 0]
  /\ timer = FALSE
  /\ first = Asked /\ refresh = Unasked /\ page = Unasked
  /\ more = FALSE
  /\ views = MaxViews
  /\ viewAsOf = 0 /\ due = 0
  /\ missed = FALSE

Server == \E m \in Markets : ServerLaunches(m) \/ ServerTrades(m) \/ ServerReorgs(m)
LiveEvents == (\E i \in after+1..Len(log) : EventArrives(i)) \/ SocketOpens \/ SocketCloses
FirstSnapshot == FirstRead \/ FirstAnswers \/ FirstFails
Refresh == ChangeView \/ RefetchTimer \/ RefreshRead \/ RefreshAnswers \/ RefreshFails
Page == LoadMore \/ PageRead \/ PageAnswers \/ PageFails

TableNext == Server \/ LiveEvents \/ FirstSnapshot \/ Refresh \/ Page \/ Unmount

TableSpec == TableInit /\ [][TableNext]_tableVars

(* Timers fire, and a refresh that is left alone is answered or fails.  A     *)
(* nonce aborts the refresh before it, and an aborted fetch is neither, so     *)
(* nothing is owed to a refresh while the timer runs that will abort it; the   *)
(* user, too, aborts by changing the view, MaxViews times.                     *)
(* Nothing makes the server launch, the stream deliver or the user act.        *)
FairTable ==
  /\ TableSpec
  /\ WF_tableVars(RefetchTimer)
  /\ WF_tableVars(~timer /\ RefreshRead)
  /\ WF_tableVars(~timer /\ (RefreshAnswers \/ RefreshFails))

-----------------------------------------------------------------------------
(* The state is well formed.                                                   *)
TableTypeOK ==
  /\ log \in Seq([type : Types, market : Markets]) /\ Len(log) <= MaxEvents
  /\ transport \in Transports
  /\ {after, resumeAfter, viewAsOf, due} \subseteq 0..Len(log)
  /\ DOMAIN rows \subseteq Keys
  /\ \A k \in DOMAIN rows : rows[k] \in 0..Len(log)
  /\ {timer, more, missed} \subseteq BOOLEAN
  /\ {first, refresh, page} \subseteq 0..Len(log) \cup {Unasked, Asked}
  /\ views \in 0..MaxViews

(* A table set from before a trade or a reorganisation the client was told of  *)
(* is about to be replaced: the refetch timer runs, or a refresh is in flight  *)
(* that reads the server late enough - unless the last refresh failed.  An     *)
(* event that arrives while an older answer is on its way is what breaks it.   *)
StaleViewIsRefetched ==
  transport # "stopped" /\ viewAsOf < due =>
    \/ timer \/ missed
    \/ refresh = Asked
    \/ refresh # Unasked /\ refresh >= due

(* Only a snapshot that replaces the whole table takes a row back to an older  *)
(* event: an event replayed late and a page asked for long ago do not.         *)
RowsNeverRegress ==
  [][<<first, refresh>>' = <<first, refresh>> =>
       \A k \in DOMAIN rows \cap DOMAIN rows' : rows'[k] >= rows[k]]_tableVars

(* The table is as new as every event that asked for a refetch, unless its     *)
(* last refresh failed or the component is gone.                               *)
Served == viewAsOf >= due \/ missed \/ transport = "stopped"

(* However the events, the timer, the view and the answers fall, once no more  *)
(* event asks for a refetch the table gets as new as those that did, and stays *)
(* so: the last answer to arrive is never one from before the last event.      *)
RefetchIsServed == <>[]~timer => <>[]Served

(* The same while events go on asking.  It does not hold: answers slower than  *)
(* the timer are aborted one after the other (FeedStarves.cfg).                *)
ServedUnderEvents == []<>Served
=============================================================================
