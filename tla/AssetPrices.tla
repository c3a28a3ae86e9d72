---------------------------- MODULE AssetPrices ----------------------------
(***************************************************************************)
(* The stored price of one asset: flex/data/asset_prices.py, with the      *)
(* validation of flex/domain/pricing.py and flex/application/              *)
(* price_refresh.py, and its users: the cached read, the list read, the    *)
(* background refresh, the batch of the enriched contracts route, and the  *)
(* router of flex/providers/price_router.py.                               *)
(*                                                                         *)
(* Tasks run in one or several processes, each with a cache and a clock.   *)
(* An upsert is several Mongo commands, which interleave with those of     *)
(* other processes.  A value and the provider it came from are abstracted  *)
(* to the time of the observation; what a provider gets wrong (a payload,  *)
(* a sign, another asset, a time ahead of the clock) is one failure, as in *)
(* the code, where all of them are PriceRefreshError.                      *)
(***************************************************************************)
EXTENDS Integers, FiniteSets

CONSTANTS
  Processes,  \* server processes, each with a clock and a cache
  Tasks,      \* requests and background tasks
  ProcessOf,  \* the process each task runs in
  Offset,     \* how far the clock of each process is ahead of the slowest one
  Ttl,        \* asset_prices_ttl
  MaxStale,   \* asset_prices_max_stale
  Skew,       \* MAX_OBSERVATION_CLOCK_SKEW
  Delay,      \* bound: time from a provider's answer to the end of its task
  OldPrices,  \* bound: documents that may be there at the start
  MaxTime,    \* bound: the clock stops here
  None        \* Python's None

Times == 0 .. MaxTime + 2 * Skew + 1

Kinds == {"read", "list", "refresh", "batch", "route"}

\* observed_at, or updated when it has none, and whether it is a retired projection of
\* LP reserves.
Prices == [at : Times, dated : BOOLEAN, retired : BOOLEAN]

ASSUME WindowsAssumption == /\ Ttl \in Nat \ {0}
                            /\ MaxStale \in Nat
                            /\ MaxStale >= Ttl
                            /\ Skew \in Nat
                            /\ MaxStale > Skew + Delay
                            /\ MaxTime \in Nat

\* What clocks differ by and the commands of an upsert take is together no more
\* than the code tolerates: a minute.  A filter built longer ago takes a newer
\* observation for one from the future.
ASSUME ClocksAssumption == /\ ProcessOf \in [Tasks -> Processes]
                           /\ Offset \in [Processes -> Nat]
                           /\ Delay \in Nat
                           /\ \A p \in Processes : Offset[p] + Delay <= Skew

\* What is there at the start was observed by a clock of theirs, or by one that was wrong
\* by far.
ASSUME OldAssumption == /\ OldPrices \subseteq Prices
                        /\ \A old \in OldPrices : \/ old.at + Delay <= Skew
                                                  \/ old.at > MaxTime + Skew
ASSUME NoneAssumption == None \notin Prices /\ None \notin Nat

VARIABLES
  now,    \* the slowest clock
  price,  \* the stored document
  cache,  \* the entry of the read's cache in each process
  task    \* what each task is doing

vars == <<now, price, cache, task>>

Steps == {"idle", "cache", "load", "decide", "fetch", "quote", "update", "exists", "insert",
          "retry", "winner", "fallback"}

\* Of a task: the document it read, its clock when it began (where that matters), the time
\* of its own observation, the clock its filter was built with, and whether the price it
\* served was too old or retired.
Doing(step, kind, doc, asked, at, from) ==
  [step |-> step, kind |-> kind, doc |-> doc, asked |-> asked, at |-> at, from |-> from,
   late |-> FALSE, retired |-> FALSE]
Served(late, retired) ==
  [step |-> "idle", kind |-> "read", doc |-> None, asked |-> 0, at |-> None, from |-> None,
   late |-> late, retired |-> retired]
Resting == Served(FALSE, FALSE)

Clock(t) == now + Offset[ProcessOf[t]]

Cached(t) == cache[ProcessOf[t]]

Init ==
  /\ now = 0
  /\ price \in OldPrices \cup {None}
  /\ cache = [p \in Processes |-> None]
  /\ task = [t \in Tasks |-> Resting]

Goes(t, step) == task' = [task EXCEPT ![t].step = step]

\* With a document, and later with the time of an observation and the clock of a filter.
GoesWith(t, step, doc) ==
  task' = [task EXCEPT ![t] = Doing(step, task[t].kind, doc, task[t].asked, None, None)]
Observed(t, step, at, from) ==
  task' = [task EXCEPT ![t] = Doing(step, task[t].kind, None, task[t].asked, at, from)]

Ends(t) == task' = [task EXCEPT ![t] = Resting]

-----------------------------------------------------------------------------
(* Validation.                                                             *)

\* A time ahead of the clock counts as stale.
Stale(doc, age, clock) == doc.at > clock + Skew \/ clock - doc.at >= age

Usable(doc, age, clock) == doc # None /\ ~doc.retired /\ ~Stale(doc, age, clock)

\* A fallback is cached like any other price.
CacheAnything(doc, clock) == TRUE

\* What is cached must be usable until the cache lets go of it.
Cacheable(doc, clock) == /\ MaxStale - Ttl > 0
                         /\ Usable(doc, MaxStale - Ttl, clock)

-----------------------------------------------------------------------------
(* Reads.                                                                  *)

\* The clock a task judges a stored price by: its own as it is, but in the router and
\* in the lists as it was at the start.
JudgedBy(t) == IF task[t].kind \in {"route", "list"} THEN task[t].asked ELSE Clock(t)

Serve(t, doc) ==
  task' = [task EXCEPT ![t] = Served(JudgedBy(t) - doc.at >= MaxStale, doc.retired)]

\* get_asset_price caches what it returns, unless it is a fallback that is too old;
\* what the background refresh gets is not given to anyone.
Return(t, doc) ==
  IF task[t].kind = "read"
  THEN /\ Serve(t, doc)
       /\ cache' = IF Cacheable(doc, Clock(t))
                   THEN [cache EXCEPT ![ProcessOf[t]] = [doc |-> doc, until |-> now + Ttl]]
                   ELSE cache
  ELSE (IF task[t].kind = "refresh" THEN Ends(t) ELSE Serve(t, doc)) /\ UNCHANGED cache

Begin(t, kind) ==
  /\ task[t].step = "idle"
  /\ task' = [task EXCEPT ![t] = Doing(
        CASE kind = "read" -> "cache" [] kind = "batch" -> "fetch" [] OTHER -> "load",
        kind, None, IF kind \in {"route", "list"} THEN Clock(t) ELSE 0, None, None)]
  /\ UNCHANGED <<now, price, cache>>

ReadCache(t) ==
  /\ task[t].step = "cache"
  /\ IF Cached(t) # None
     THEN Serve(t, Cached(t).doc)
     ELSE Goes(t, "load")
  /\ UNCHANGED <<now, price, cache>>

\* get_all_asset_prices and get_asset_prices_by_query.
List(t) ==
  /\ task[t].step = "load"
  /\ task[t].kind = "list"
  /\ IF Usable(price, MaxStale, task[t].asked) THEN Serve(t, price) ELSE Ends(t)
  /\ UNCHANGED <<now, price, cache>>

\* get_asset_price_not_cached and the router decide on what they read at once.
Read(t) ==
  /\ task[t].step = "load"
  /\ task[t].kind \in {"read", "route"}
  /\ IF Usable(price, Ttl, JudgedBy(t))
     THEN Return(t, price)
     ELSE GoesWith(t, "fetch", price) /\ UNCHANGED cache
  /\ UNCHANGED <<now, price>>

\* The background task reads all prices before it goes through the assets.
Prefetch(t) ==
  /\ task[t].step = "load"
  /\ task[t].kind = "refresh"
  /\ GoesWith(t, "decide", price)
  /\ UNCHANGED <<now, price, cache>>

Decide(t) ==
  LET doc == task[t].doc
  IN /\ task[t].step = "decide"
     /\ IF doc # None /\ ~Stale(doc, Ttl, Clock(t))
        THEN Ends(t)
        ELSE GoesWith(t, "fetch", None)
     /\ UNCHANGED <<now, price, cache>>

-----------------------------------------------------------------------------
(* A refresh.                                                              *)

\* The provider's answer is an observation of the present; the router serves it
\* and stores nothing.
Fetch(t) ==
  /\ task[t].step = "fetch"
  /\ IF task[t].kind = "route"
     THEN Serve(t, [at |-> Clock(t), dated |-> TRUE, retired |-> FALSE])
     ELSE Observed(t, "quote", Clock(t), None)
  /\ UNCHANGED <<now, price, cache>>

\* Every provider failed or gave an unusable value (a retry of one that could not
\* be reached changes nothing).
FetchFails(t) ==
  /\ task[t].step = "fetch"
  /\ IF task[t].kind \in {"read", "route"} THEN Goes(t, "fallback") ELSE Ends(t)
  /\ UNCHANGED <<now, price, cache>>

\* The stored price is served within a bound.
Fallback(t) ==
  /\ task[t].step = "fallback"
  /\ IF Usable(task[t].doc, MaxStale, JudgedBy(t))
     THEN Return(t, task[t].doc)
     ELSE Ends(t) /\ UNCHANGED cache
  /\ UNCHANGED <<now, price>>

-----------------------------------------------------------------------------
(* _upsert_asset_price.                                                    *)

New(t) == [at |-> task[t].at, dated |-> TRUE, retired |-> FALSE]

\* The filter is built once, with the clock as it is then.
Upsert(t) ==
  /\ task[t].step = "quote"
  /\ IF task[t].at <= Clock(t) + Skew
     THEN Observed(t, "update", task[t].at, Clock(t))
     ELSE Ends(t)
  /\ UNCHANGED <<now, price, cache>>

\* The time of the observation is not compared.
ReplacesAny(t) == price # None

\* An older observation is replaced, one without a time, and one from too far in
\* the future.
Replaces(t) == /\ price # None
               /\ \/ ~price.dated
                  \/ price.at <= task[t].at
                  \/ price.at > task[t].from + Skew

Update(t) ==
  /\ task[t].step = "update"
  /\ IF Replaces(t)
     THEN price' = New(t) /\ Return(t, New(t))
     ELSE Goes(t, "exists") /\ UNCHANGED <<price, cache>>
  /\ UNCHANGED now

Exists(t) ==
  /\ task[t].step = "exists"
  /\ Goes(t, IF price # None THEN "winner" ELSE "insert")
  /\ UNCHANGED <<now, price, cache>>

Insert(t) ==
  /\ task[t].step = "insert"
  /\ IF price = None
     THEN price' = New(t) /\ Return(t, New(t))
     ELSE Goes(t, "retry") /\ UNCHANGED <<price, cache>>
  /\ UNCHANGED now

\* Another insert won; a newer observation still replaces it.
Retry(t) ==
  /\ task[t].step = "retry"
  /\ IF Replaces(t)
     THEN price' = New(t) /\ Return(t, New(t))
     ELSE Goes(t, "winner") /\ UNCHANGED <<price, cache>>
  /\ UNCHANGED now

\* _current_price_after_rejected_write
Winner(t) ==
  /\ task[t].step = "winner"
  /\ IF price # None /\ ~price.retired THEN Return(t, price) ELSE Ends(t) /\ UNCHANGED cache
  /\ UNCHANGED <<now, price>>

\* Another error of the node, the indexer or Mongo, or the process ends.
Abandon(t) == /\ task[t].step # "idle"
              /\ Ends(t)
              /\ UNCHANGED <<now, price, cache>>

\* A process that starts deletes retired prices (delete_unverified_legacy_lp_prices).
DeleteRetired == /\ price # None
                 /\ price.retired
                 /\ price' = None
                 /\ UNCHANGED <<now, cache, task>>

\* Tasks that hold an observation end in time; other awaits take any time.  An
\* entry of a cache goes when its time is over.
Tick ==
  /\ now < MaxTime
  /\ \A t \in Tasks : task[t].at # None =>
        Clock(t) < task[t].at + Delay
  /\ now' = now + 1
  /\ cache' = [p \in Processes |-> IF cache[p] # None /\ cache[p].until = now THEN None ELSE cache[p]]
  /\ UNCHANGED <<price, task>>

Step(t) ==
  \/ ReadCache(t) \/ List(t) \/ Read(t) \/ Prefetch(t) \/ Decide(t)
  \/ Fetch(t) \/ FetchFails(t) \/ Fallback(t)
  \/ Upsert(t) \/ Update(t) \/ Exists(t) \/ Insert(t) \/ Retry(t) \/ Winner(t)

Next ==
  \/ \E t \in Tasks : \/ \E kind \in Kinds : Begin(t, kind)
                      \/ Step(t) \/ Abandon(t)
  \/ DeleteRetired
  \/ Tick

Spec == Init /\ [][Next]_vars

-----------------------------------------------------------------------------
(* Properties.                                                             *)

\* The clock, the document, the cache and the tasks have their types.
TypeOK ==
  /\ now \in 0 .. MaxTime
  /\ price \in Prices \cup {None}
  /\ \A p \in Processes : cache[p] # None =>
        cache[p].doc \in Prices /\ cache[p].until \in 0 .. MaxTime + Ttl
  /\ \A t \in Tasks : /\ task[t].step \in Steps
                      /\ task[t].kind \in Kinds
                      /\ task[t].doc \in Prices \cup {None}
                      /\ task[t].late \in BOOLEAN

\* A stored observation gives way to a newer one only, whatever the order in which
\* answers arrive and whichever of two inserts wins ("only if it is not older than
\* the stored observation", _upsert_asset_price); a time ahead of every clock is a
\* mistake and gives way to any.
ObservationsAdvance ==
  [][price # None /\ price.dated /\ price.at <= now + Skew =>
        \/ price' = None /\ price.retired
        \/ price' # None /\ price'.dated /\ price'.at >= price.at]_vars

\* No answer is retired or older than the stale window, through caches, fallbacks
\* and lost writes ("expired data is rejected instead of silently relabelled",
\* README.md): when it is given, or, in the router and in lists, when the request
\* came in.
BoundedStale == \A t \in Tasks : ~task[t].late /\ ~task[t].retired
=============================================================================
