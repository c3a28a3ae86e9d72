------------------------- MODULE AssetPricesProofs -------------------------
(***************************************************************************)
(* Machine-checked facts about AssetPrices, for any processes and tasks,   *)
(* any clocks that differ by less than the tolerated skew, and any windows.*)
(***************************************************************************)
EXTENDS AssetPrices, TLAPS

Writing == {"update", "exists", "insert", "retry", "winner"}
Rejected == {"exists", "insert", "retry", "winner"}

TaskType ==
  [step : Steps, kind : Kinds, doc : Prices \cup {None}, asked : Nat, at : Nat \cup {None},
   from : Nat \cup {None}, late : BOOLEAN, retired : BOOLEAN]
EntryType == [doc : Prices, until : 0 .. MaxTime + Ttl]

\* Stronger types, for the fields of a task.
Typed ==
  /\ now \in 0 .. MaxTime
  /\ price \in Prices \cup {None}
  /\ cache \in [Processes -> EntryType \cup {None}]
  /\ task \in [Tasks -> TaskType]

\* The observation of a task is of its own clock and not older than Delay; the filter of
\* an upsert is not older than the observation.
Observes(t, r) ==
  /\ r.at # None => /\ r.at <= now + Offset[ProcessOf[t]]
                    /\ now + Offset[ProcessOf[t]] <= r.at + Delay
  /\ r.step \in Writing \cup {"quote"} => r.at # None /\ r.kind \in {"read", "refresh", "batch"}
  /\ r.step \in Writing => r.from # None /\ r.from >= r.at

\* A write that was rejected met a price that is not much older.
Contested(r) == r.step \in Rejected /\ price # None => price.at + Skew >= r.at

\* A task asked in the past; only plain reads look into the cache, and lists only load.
Asked(t, r) == /\ r.asked <= now + Offset[ProcessOf[t]]
               /\ r.step = "cache" => r.kind = "read"
               /\ r.kind = "list" => r.step = "load"

Truthful(r) == ~r.late /\ ~r.retired

Sound(t, r) == r \in TaskType /\ Observes(t, r) /\ Contested(r) /\ Asked(t, r) /\ Truthful(r)

\* The stored time is one that a clock may have shown, or it is wrong by far.
Plausible ==
  price # None => price.at + Delay <= now + Skew \/ price.at > MaxTime + Skew

\* What is cached stays usable until the cache lets go of it.
Fresh(p, entry) ==
  entry # None => /\ ~entry.doc.retired
                  /\ now <= entry.until
                  /\ entry.until + Offset[p] < entry.doc.at + MaxStale

IInv ==
  /\ Typed /\ Plausible
  /\ \A p \in Processes : Fresh(p, cache[p])
  /\ \A t \in Tasks : Sound(t, task[t])

-----------------------------------------------------------------------------
\* The numbers of a task's process.
LEMMA Clocks ==
  ASSUME NEW t \in Tasks
  PROVE  /\ ProcessOf[t] \in Processes /\ Offset[ProcessOf[t]] \in Nat
         /\ Offset[ProcessOf[t]] + Delay <= Skew
  BY ClocksAssumption

\* A task that takes one step and changes nothing else.
LEMMA QuietStep ==
  ASSUME IInv, NEW t \in Tasks, NEW r, Sound(t, r),
         task' = [task EXCEPT ![t] = r], UNCHANGED <<now, price, cache>>
  PROVE  IInv'
<1>1. Typed'
  BY DEF IInv, Typed, Sound
<1>2. Plausible'
  BY DEF IInv, Plausible
<1>3. \A p \in Processes : Fresh(p, cache[p])'
  BY DEF IInv, Fresh
<1>4. ASSUME NEW u \in Tasks PROVE Sound(u, task[u])'
  <2>1. Sound(u, task'[u])
    BY DEF IInv, Typed
  <2> QED BY <2>1 DEF Sound, Observes, Contested, Asked, Truthful
<1> QED BY <1>1, <1>2, <1>3, <1>4 DEF IInv

LEMMA RestingSound ==
  ASSUME NEW t \in Tasks, now \in Nat
  PROVE  Sound(t, Resting) /\ Sound(t, Served(FALSE, FALSE))
  BY Clocks DEF Sound, Resting, Served, TaskType, Steps, Kinds, Observes, Contested, Asked,
                Truthful, Writing, Rejected

\* What a call serves is not too old and not retired.
LEMMA ServedSound ==
  ASSUME IInv, NEW t \in Tasks, NEW doc \in Prices, ~doc.retired,
         JudgedBy(t) \in Int, JudgedBy(t) - doc.at < MaxStale
  PROVE  Sound(t, Served(JudgedBy(t) - doc.at >= MaxStale, doc.retired))
<1> DEFINE late == JudgedBy(t) - doc.at >= MaxStale
<1>1. doc.at \in Int /\ MaxStale \in Int
  BY WindowsAssumption DEF Prices, Times
<1>2. late = FALSE
  BY <1>1
<1>3. doc.retired = FALSE
  BY DEF Prices
<1> HIDE DEF late
<1>n. now \in Nat
  BY WindowsAssumption DEF IInv, Typed
<1>4. Sound(t, Served(FALSE, FALSE))
  BY <1>n, RestingSound
<1>5. Sound(t, Served(late, doc.retired))
  BY <1>2, <1>3, <1>4
<1> QED BY <1>5 DEF late

\* The clock of a task.
LEMMA ClockType ==
  ASSUME IInv, NEW t \in Tasks
  PROVE  /\ Clock(t) \in Nat /\ task[t].asked \in Nat /\ task[t].asked <= Clock(t)
         /\ JudgedBy(t) \in Nat /\ JudgedBy(t) <= Clock(t)
         /\ now \in Nat
<1>1. now \in Nat /\ Offset[ProcessOf[t]] \in Nat
  BY Clocks, WindowsAssumption DEF IInv, Typed
<1>2. task[t].asked \in Nat /\ task[t].asked <= Clock(t)
  BY <1>1 DEF IInv, Sound, TaskType, Asked, Clock
<1> QED BY <1>1, <1>2 DEF Clock, JudgedBy

\* A step that only moves a task on, or gives it a document.
LEMMA GoesSound ==
  ASSUME IInv, NEW t \in Tasks, NEW step \in Steps \ (Writing \cup {"quote", "cache"}),
         task[t].kind # "list"
  PROVE  Sound(t, [task[t] EXCEPT !.step = step])
  BY DEF IInv, Typed, Sound, TaskType, Observes, Contested, Asked, Truthful, Writing, Rejected

LEMMA GoesWithSound ==
  ASSUME IInv, NEW t \in Tasks, NEW step \in Steps \ (Writing \cup {"quote", "cache"}),
         NEW doc \in Prices \cup {None}, task[t].kind # "list"
  PROVE  Sound(t, Doing(step, task[t].kind, doc, task[t].asked, None, None))
<1>1. task[t] \in TaskType
  BY DEF IInv, Typed
<1> QED
  BY <1>1 DEF IInv, Sound, Doing, TaskType, Observes, Contested, Asked, Truthful, Writing, Rejected

LEMMA ObservedSound ==
  ASSUME IInv, NEW t \in Tasks, NEW step \in {"quote", "update"},
         task[t].kind \in {"read", "refresh", "batch"},
         NEW at \in Nat, at <= Clock(t), Clock(t) <= at + Delay,
         NEW from \in Nat \cup {None}, step = "update" => from # None /\ from >= at
  PROVE  Sound(t, Doing(step, task[t].kind, None, task[t].asked, at, from))
<1>1. task[t] \in TaskType
  BY DEF IInv, Typed
<1>2. at # None
  BY NoneAssumption
<1> QED
  BY <1>1, <1>2 DEF IInv, Sound, Doing, TaskType, Observes, Contested, Asked, Truthful, Writing,
                    Rejected, Steps, Kinds, Clock
-----------------------------------------------------------------------------
\* The steps that write nothing.
LEMMA Reads ==
  ASSUME IInv, NEW t \in Tasks,
         \/ \E kind \in Kinds : Begin(t, kind)
         \/ ReadCache(t) \/ List(t) \/ Prefetch(t) \/ Decide(t)
         \/ Fetch(t) \/ FetchFails(t) \/ Upsert(t) \/ Exists(t) \/ Abandon(t)
  PROVE  IInv'
<1> SUFFICES ASSUME TRUE
             PROVE  \E r : Sound(t, r) /\ task' = [task EXCEPT ![t] = r]
                             /\ UNCHANGED <<now, price, cache>>
  BY QuietStep
<1> USE ClockType
<1>t. task[t] \in TaskType /\ task \in [Tasks -> TaskType] /\ now \in Nat
  BY DEF IInv, Typed
<1>r. Sound(t, Resting)
  BY RestingSound, <1>t
<1>1. ASSUME NEW kind \in Kinds, Begin(t, kind)
      PROVE  \E r : Sound(t, r) /\ task' = [task EXCEPT ![t] = r] /\ UNCHANGED <<now, price, cache>>
  <2> DEFINE r == Doing(CASE kind = "read" -> "cache" [] kind = "batch" -> "fetch" [] OTHER -> "load",
                        kind, None, IF kind \in {"route", "list"} THEN Clock(t) ELSE 0, None, None)
  <2>1. Sound(t, r)
    BY Clocks, <1>t DEF Sound, Doing, TaskType, Steps, Observes, Contested, Asked, Truthful,
                   Writing, Rejected, Clock
  <2> QED BY <1>1, <2>1 DEF Begin
<1>2. CASE ReadCache(t)
  <2>1. task[t].kind = "read"
    BY <1>2 DEF ReadCache, IInv, Sound, Asked
  <2>2. CASE Cached(t) # None
    <3> DEFINE doc == Cached(t).doc
    <3>1. doc \in Prices /\ ~doc.retired
      BY <2>2, Clocks DEF Cached, IInv, Typed, EntryType, Fresh
    <3>2. Clock(t) - doc.at < MaxStale
      <4>1. Cached(t).until \in Nat /\ doc.at \in Nat /\ Offset[ProcessOf[t]] \in Nat
        BY <2>2, <3>1, Clocks, WindowsAssumption DEF Cached, IInv, Typed, EntryType, Prices, Times
      <4>2. /\ now <= Cached(t).until
            /\ Cached(t).until + Offset[ProcessOf[t]] < doc.at + MaxStale
        BY <2>2, Clocks DEF Cached, IInv, Fresh
      <4> QED BY <4>1, <4>2, <1>t, WindowsAssumption DEF Clock
    <3>3. JudgedBy(t) = Clock(t)
      BY <2>1 DEF JudgedBy
    <3>4. Sound(t, Served(JudgedBy(t) - doc.at >= MaxStale, doc.retired))
      BY <3>1, <3>2, <3>3, ServedSound
    <3> QED BY <1>2, <2>2, <3>4 DEF ReadCache, Serve
  <2>3. CASE Cached(t) = None
    BY <1>2, <2>1, <2>3, GoesSound DEF ReadCache, Goes, Steps, Writing
  <2> QED BY <2>2, <2>3
<1>3. CASE List(t)
  <2>1. CASE Usable(price, MaxStale, task[t].asked)
    <3>1. /\ price \in Prices /\ ~price.retired
          /\ JudgedBy(t) = task[t].asked
          /\ ~(task[t].asked - price.at >= MaxStale)
      BY <1>3, <2>1 DEF List, Usable, Stale, IInv, Typed, JudgedBy
    <3>2. price.at \in Nat
      BY <3>1, WindowsAssumption DEF Prices, Times
    <3>3. Sound(t, Served(JudgedBy(t) - price.at >= MaxStale, price.retired))
      BY <3>1, <3>2, ServedSound, WindowsAssumption
    <3> QED BY <1>3, <2>1, <3>3 DEF List, Serve
  <2>2. CASE ~Usable(price, MaxStale, task[t].asked)
    BY <1>3, <2>2, <1>r DEF List, Ends
  <2> QED BY <2>1, <2>2
<1>4. CASE Prefetch(t)
  BY <1>4, GoesWithSound DEF Prefetch, GoesWith, Steps, Writing, IInv, Typed
<1>5. CASE Decide(t)
  <2>1. Sound(t, Doing("fetch", task[t].kind, None, task[t].asked, None, None))
    BY <1>5, GoesWithSound DEF Decide, Steps, Writing, IInv, Sound, Asked
  <2> QED BY <1>5, <2>1, <1>r DEF Decide, GoesWith, Ends
<1>6. CASE Fetch(t)
  <2>1. CASE task[t].kind = "route"
    <3> DEFINE doc == [at |-> Clock(t), dated |-> TRUE, retired |-> FALSE]
    <3>1. Clock(t) <= MaxTime + Skew
      BY Clocks, WindowsAssumption, ClocksAssumption DEF IInv, Typed, Clock
    <3>2. doc \in Prices
      BY <3>1, WindowsAssumption DEF Prices, Times
    <3>3. JudgedBy(t) - doc.at < MaxStale
      BY WindowsAssumption, ClocksAssumption
    <3>5. ~doc.retired
      OBVIOUS
    <3> HIDE DEF doc
    <3>4. Sound(t, Served(JudgedBy(t) - doc.at >= MaxStale, doc.retired))
      BY <3>2, <3>3, <3>5, ServedSound
    <3> QED BY <1>6, <2>1, <3>4 DEF Fetch, Serve, doc
  <2>2. CASE task[t].kind # "route"
    <3>1. task[t].kind \in {"read", "refresh", "batch"}
      BY <1>6, <2>2, <1>t DEF Fetch, IInv, Sound, Asked, TaskType, Kinds
    <3>2. Sound(t, Doing("quote", task[t].kind, None, task[t].asked, Clock(t), None))
      <4> DEFINE at == Clock(t)
      <4>1. at \in Nat /\ at <= Clock(t) /\ Clock(t) <= at + Delay
        BY ClocksAssumption
      <4> HIDE DEF at
      <4>2. Sound(t, Doing("quote", task[t].kind, None, task[t].asked, at, None))
        BY <3>1, <4>1, ObservedSound
      <4> QED BY <4>2 DEF at
    <3> QED BY <1>6, <2>2, <3>2 DEF Fetch, Observed
  <2> QED BY <2>1, <2>2
<1>7. CASE FetchFails(t)
  <2>1. Sound(t, [task[t] EXCEPT !.step = "fallback"])
    BY <1>7, GoesSound DEF FetchFails, Steps, Writing, IInv, Sound, Asked
  <2> QED BY <1>7, <2>1, <1>r DEF FetchFails, Goes, Ends
<1>8. CASE Upsert(t)
  <2>1. Sound(t, Doing("update", task[t].kind, None, task[t].asked, task[t].at, Clock(t)))
    <3>1. /\ task[t].at # None /\ task[t].kind \in {"read", "refresh", "batch"}
          /\ task[t].at <= Clock(t) /\ Clock(t) <= task[t].at + Delay
      BY <1>8 DEF Upsert, IInv, Sound, Observes, Clock
    <3>2. task[t].at \in Nat
      BY <1>t, <3>1 DEF TaskType
    <3> QED BY <3>1, <3>2, ObservedSound, NoneAssumption
  <2> QED BY <1>8, <2>1, <1>r DEF Upsert, Observed, Ends
<1>9. CASE Exists(t)
  <2>1. task[t].step = "exists"
    BY <1>9 DEF Exists
  <2>2. \A step \in {"winner", "insert"} : Sound(t, [task[t] EXCEPT !.step = step])
    BY <2>1, <1>t DEF IInv, Sound, TaskType, Steps, Observes, Contested, Asked, Truthful,
                      Writing, Rejected
  <2> QED BY <1>9, <2>2 DEF Exists, Goes
<1>10. CASE Abandon(t)
  BY <1>10, <1>r DEF Abandon, Ends
<1> QED BY <1>1, <1>2, <1>3, <1>4, <1>5, <1>6, <1>7, <1>8, <1>9, <1>10
-----------------------------------------------------------------------------
\* A task that returns a price which is not too old, whatever becomes of the document.
LEMMA Returns ==
  ASSUME IInv, NEW t \in Tasks, NEW doc \in Prices, ~doc.retired,
         JudgedBy(t) - doc.at < MaxStale, Return(t, doc)
  PROVE  /\ \E r : Sound(t, r) /\ r.step = "idle" /\ task' = [task EXCEPT ![t] = r]
         /\ cache' \in [Processes -> EntryType \cup {None}]
         /\ \A p \in Processes : Fresh(p, cache'[p])
<1> USE ClockType
<1> DEFINE p == ProcessOf[t]
           entry == [doc |-> doc, until |-> now + Ttl]
<1>1. /\ p \in Processes /\ Offset[p] \in Nat /\ doc.at \in Nat /\ now \in 0 .. MaxTime
      /\ MaxStale \in Nat /\ Ttl \in Nat /\ MaxTime \in Nat
  BY Clocks, WindowsAssumption DEF IInv, Typed, Prices, Times
<1>2. /\ cache \in [Processes -> EntryType \cup {None}]
      /\ \A q \in Processes : Fresh(q, cache[q])
  BY DEF IInv, Typed
<1>3. \E r : Sound(t, r) /\ r.step = "idle" /\ task' = [task EXCEPT ![t] = r]
  <2>1. CASE task' = [task EXCEPT ![t] = Resting]
    BY <2>1, <1>1, RestingSound DEF Resting, Served
  <2>2. CASE Serve(t, doc)
    <3>1. JudgedBy(t) \in Int
      OBVIOUS
    <3>2. Sound(t, Served(JudgedBy(t) - doc.at >= MaxStale, doc.retired))
      BY <3>1, ServedSound
    <3>3. Served(JudgedBy(t) - doc.at >= MaxStale, doc.retired).step = "idle"
      BY DEF Served
    <3> QED BY <2>2, <3>2, <3>3 DEF Serve
  <2> QED BY <2>1, <2>2 DEF Return, Ends
<1>4. CASE cache' = cache
  BY <1>2, <1>3, <1>4
<1>5. CASE cache' # cache
  <2>1. Cacheable(doc, Clock(t)) /\ cache' = [cache EXCEPT ![p] = entry]
    BY <1>5 DEF Return
  <2>2. entry \in EntryType
    BY <1>1 DEF EntryType
  <2>3. Clock(t) - doc.at < MaxStale - Ttl
    BY <2>1, <1>1 DEF Cacheable, Usable, Stale
  <2>4. now + Ttl + Offset[p] < doc.at + MaxStale
    BY <2>3, <1>1 DEF Clock
  <2>5. Fresh(p, entry)
    BY <2>4, <1>1 DEF Fresh
  <2> HIDE DEF entry, p
  <2>6. cache' \in [Processes -> EntryType \cup {None}]
    BY <2>1, <2>2, <1>2
  <2>7. \A q \in Processes : Fresh(q, cache'[q])
    <3> TAKE q \in Processes
    <3>1. cache'[q] = IF q = p THEN entry ELSE cache[q]
      BY <2>1, <1>2
    <3> QED BY <3>1, <2>5, <1>2
  <2> QED BY <1>3, <2>6, <2>7
<1> QED BY <1>4, <1>5

\* A task that returns what is there.
LEMMA ReturnStep ==
  ASSUME IInv, NEW t \in Tasks, NEW doc \in Prices, ~doc.retired,
         JudgedBy(t) - doc.at < MaxStale, Return(t, doc), UNCHANGED <<now, price>>
  PROVE  IInv'
<1>1. PICK r : Sound(t, r) /\ task' = [task EXCEPT ![t] = r]
  BY Returns
<1>2. /\ cache' \in [Processes -> EntryType \cup {None}]
      /\ \A p \in Processes : Fresh(p, cache'[p])
  BY Returns
<1>3. Typed' /\ Plausible'
  BY <1>1, <1>2 DEF IInv, Typed, Sound, Plausible
<1>4. \A p \in Processes : Fresh(p, cache[p])'
  BY <1>2 DEF Fresh
<1>5. ASSUME NEW u \in Tasks PROVE Sound(u, task[u])'
  <2>1. Sound(u, task'[u])
    BY <1>1 DEF IInv, Typed
  <2> QED BY <2>1 DEF Sound, Observes, Contested, Asked, Truthful
<1> QED BY <1>3, <1>4, <1>5 DEF IInv

\* A price read at the start, or at the end of a refresh that failed.
LEMMA Lookups ==
  ASSUME IInv, NEW t \in Tasks, Read(t) \/ Fallback(t)
  PROVE  IInv'
<1> USE ClockType
<1>t. task[t] \in TaskType /\ now \in Nat /\ price \in Prices \cup {None}
  BY DEF IInv, Typed
<1>0. ASSUME NEW doc \in Prices \cup {None}, NEW age \in Nat, age <= MaxStale,
             Usable(doc, age, JudgedBy(t))
      PROVE  doc \in Prices /\ ~doc.retired /\ JudgedBy(t) - doc.at < MaxStale
  <2>1. doc \in Prices /\ ~doc.retired /\ ~(JudgedBy(t) - doc.at >= age)
    BY <1>0 DEF Usable, Stale
  <2>2. doc.at \in Nat
    BY <2>1, WindowsAssumption DEF Prices, Times
  <2> QED BY <2>1, <2>2, <1>0, WindowsAssumption
<1>1. CASE Read(t)
  <2>1. CASE Usable(price, Ttl, JudgedBy(t))
    <3>1. price \in Prices /\ ~price.retired /\ JudgedBy(t) - price.at < MaxStale
      BY <2>1, <1>t, <1>0, WindowsAssumption
    <3>2. Return(t, price) /\ UNCHANGED <<now, price>>
      BY <1>1, <2>1 DEF Read
    <3> QED BY <3>1, <3>2, ReturnStep
  <2>2. CASE ~Usable(price, Ttl, JudgedBy(t))
    <3>1. Sound(t, Doing("fetch", task[t].kind, price, task[t].asked, None, None))
      BY <1>1, <1>t, GoesWithSound DEF Read, Steps, Writing
    <3> QED BY <1>1, <2>2, <3>1, QuietStep DEF Read, GoesWith
  <2> QED BY <2>1, <2>2
<1>2. CASE Fallback(t)
  <2> DEFINE doc == task[t].doc
  <2>0. doc \in Prices \cup {None}
    BY <1>t DEF TaskType
  <2>1. CASE Usable(doc, MaxStale, JudgedBy(t))
    <3>1. doc \in Prices /\ ~doc.retired /\ JudgedBy(t) - doc.at < MaxStale
      BY <2>1, <2>0, <1>0, WindowsAssumption
    <3>2. Return(t, doc) /\ UNCHANGED <<now, price>>
      BY <1>2, <2>1 DEF Fallback
    <3> HIDE DEF doc
    <3> QED BY <3>1, <3>2, ReturnStep
  <2>2. CASE ~Usable(doc, MaxStale, JudgedBy(t))
    <3>1. Sound(t, Resting)
      BY RestingSound, <1>t
    <3> QED BY <1>2, <2>2, <3>1, QuietStep DEF Fallback, Ends
  <2> QED BY <2>1, <2>2
<1> QED BY <1>1, <1>2

-----------------------------------------------------------------------------
\* The observation of a task that may write.
LEMMA Writer ==
  ASSUME IInv, NEW t \in Tasks, task[t].step \in Writing
  PROVE  /\ task[t].at \in Nat /\ task[t].from \in Nat
         /\ task[t].at <= Clock(t) /\ Clock(t) <= task[t].at + Delay
         /\ task[t].at <= task[t].from
         /\ task[t].kind \in {"read", "refresh", "batch"}
         /\ JudgedBy(t) = Clock(t)
<1>1. /\ task[t].at # None /\ task[t].from # None /\ task[t].at <= task[t].from
      /\ task[t].at <= Clock(t) /\ Clock(t) <= task[t].at + Delay
      /\ task[t].kind \in {"read", "refresh", "batch"}
  BY DEF IInv, Sound, Observes, Clock
<1>2. task[t].at \in Nat /\ task[t].from \in Nat
  BY <1>1 DEF IInv, Typed, TaskType
<1> QED BY <1>1, <1>2 DEF JudgedBy

\* A write: the new price is of the present, so no rejected writer is much ahead of it.
LEMMA WriteStep ==
  ASSUME IInv, NEW t \in Tasks, task[t].step \in Writing,
         price' = New(t), Return(t, New(t)), UNCHANGED now
  PROVE  IInv'
<1> USE ClockType
<1> DEFINE new == New(t)
<1>1. /\ task[t].at \in Nat /\ task[t].at <= Clock(t) /\ Clock(t) <= task[t].at + Delay
      /\ JudgedBy(t) = Clock(t)
  BY Writer
<1>2. /\ Offset[ProcessOf[t]] \in Nat /\ Offset[ProcessOf[t]] + Delay <= Skew
      /\ Skew \in Nat /\ Delay \in Nat /\ MaxStale \in Nat /\ MaxTime \in Nat /\ now \in 0 .. MaxTime
      /\ MaxStale > Skew + Delay
  BY Clocks, WindowsAssumption, ClocksAssumption DEF IInv, Typed
<1>3. new \in Prices /\ new.at = task[t].at /\ ~new.retired
  BY <1>1, <1>2 DEF New, Prices, Times, Clock
<1>4. JudgedBy(t) - new.at < MaxStale
  BY <1>1, <1>2, <1>3
<1> HIDE DEF new
<1>5. Return(t, new) /\ price' = new
  BY DEF new
<1>6. PICK r : Sound(t, r) /\ r.step = "idle" /\ task' = [task EXCEPT ![t] = r]
  BY <1>3, <1>4, <1>5, Returns
<1>7. /\ cache' \in [Processes -> EntryType \cup {None}]
      /\ \A p \in Processes : Fresh(p, cache'[p])
  BY <1>3, <1>4, <1>5, Returns
<1>8. Typed'
  BY <1>3, <1>5, <1>6, <1>7 DEF IInv, Typed, Sound
<1>9. Plausible'
  BY <1>1, <1>2, <1>3, <1>5 DEF Plausible, Clock
<1>10. \A p \in Processes : Fresh(p, cache[p])'
  BY <1>7 DEF Fresh
<1>11. ASSUME NEW u \in Tasks PROVE Sound(u, task[u])'
  <2>1. Sound(u, task'[u]) /\ (u = t => task'[u].step = "idle") /\ (u # t => task'[u] = task[u])
    BY <1>6 DEF IInv, Typed
  <2>2. ASSUME task'[u].step \in Rejected PROVE new.at + Skew >= task'[u].at
    <3>1. task[u].step \in Writing /\ task'[u] = task[u]
      BY <2>1, <2>2 DEF Rejected, Writing
    <3>2. task[u].at \in Nat /\ task[u].at <= Clock(u)
      BY <3>1, Writer
    <3>3. Offset[ProcessOf[u]] \in Nat /\ Offset[ProcessOf[u]] + Delay <= Skew
      BY Clocks
    <3> QED BY <3>1, <3>2, <3>3, <1>1, <1>2, <1>3 DEF Clock
  <2>3. Contested(task[u])'
    BY <2>2, <1>5 DEF Contested
  <2> QED BY <2>1, <2>3 DEF Sound, Observes, Asked, Truthful
<1> QED BY <1>8, <1>9, <1>10, <1>11 DEF IInv

\* A write that does not come about.
LEMMA RejectedSound ==
  ASSUME IInv, NEW t \in Tasks, task[t].step \in Writing, NEW step \in Rejected,
         \/ task[t].step \in Rejected
         \/ price # None => price.at + Skew >= task[t].at
  PROVE  Sound(t, [task[t] EXCEPT !.step = step])
<1>1. task[t] \in TaskType
  BY DEF IInv, Typed
<1> QED BY <1>1 DEF IInv, Sound, TaskType, Steps, Observes, Contested, Asked, Truthful, Writing, Rejected

\* A price that is not replaced is newer.
LEMMA NotReplaced ==
  ASSUME IInv, NEW t \in Tasks, task[t].step \in Writing, ~Replaces(t), price # None
  PROVE  price.at + Skew >= task[t].at
<1>1. task[t].at \in Nat
  BY Writer
<1>2. price.at \in Nat
  BY WindowsAssumption DEF IInv, Typed, Prices, Times
<1> QED BY <1>1, <1>2, WindowsAssumption DEF Replaces

LEMMA Writes ==
  ASSUME IInv, NEW t \in Tasks, Update(t) \/ Insert(t) \/ Retry(t) \/ Winner(t)
  PROVE  IInv'
<1>0. task[t].step \in Writing
  BY DEF Update, Insert, Retry, Winner, Writing
<1>1. CASE Update(t)
  <2>1. CASE Replaces(t)
    BY <1>0, <1>1, <2>1, WriteStep DEF Update
  <2>2. CASE ~Replaces(t)
    <3>1. Sound(t, [task[t] EXCEPT !.step = "exists"])
      BY <1>0, <2>2, NotReplaced, RejectedSound DEF Rejected
    <3> QED BY <1>1, <2>2, <3>1, QuietStep DEF Update, Goes
  <2> QED BY <2>1, <2>2
<1>2. CASE Insert(t)
  <2>1. CASE price = None
    BY <1>0, <1>2, <2>1, WriteStep DEF Insert
  <2>2. CASE price # None
    <3>1. Sound(t, [task[t] EXCEPT !.step = "retry"])
      BY <1>0, <1>2, RejectedSound DEF Insert, Rejected
    <3> QED BY <1>2, <2>2, <3>1, QuietStep DEF Insert, Goes
  <2> QED BY <2>1, <2>2
<1>3. CASE Retry(t)
  <2>1. CASE Replaces(t)
    BY <1>0, <1>3, <2>1, WriteStep DEF Retry
  <2>2. CASE ~Replaces(t)
    <3>1. Sound(t, [task[t] EXCEPT !.step = "winner"])
      BY <1>0, <2>2, NotReplaced, RejectedSound DEF Rejected
    <3> QED BY <1>3, <2>2, <3>1, QuietStep DEF Retry, Goes
  <2> QED BY <2>1, <2>2
<1>4. CASE Winner(t)
  <2>1. CASE price # None /\ ~price.retired
    <3>1. price \in Prices /\ price.at \in Nat
      BY <2>1, WindowsAssumption DEF IInv, Typed, Prices, Times
    <3>2. /\ task[t].at \in Nat /\ Clock(t) <= task[t].at + Delay /\ JudgedBy(t) = Clock(t)
          /\ Clock(t) \in Nat
      BY <1>0, Writer, ClockType
    <3>3. price.at + Skew >= task[t].at
      BY <1>4, <2>1 DEF Winner, IInv, Sound, Contested, Rejected
    <3>4. JudgedBy(t) - price.at < MaxStale
      BY <3>1, <3>2, <3>3, WindowsAssumption, ClocksAssumption
    <3> QED BY <1>4, <2>1, <3>1, <3>4, ReturnStep DEF Winner
  <2>2. CASE ~(price # None /\ ~price.retired)
    <3>1. Sound(t, Resting)
      BY RestingSound, ClockType
    <3> QED BY <1>4, <2>2, <3>1, QuietStep DEF Winner, Ends
  <2> QED BY <2>1, <2>2
<1> QED BY <1>1, <1>2, <1>3, <1>4

-----------------------------------------------------------------------------
\* Retired prices are deleted.
LEMMA Deletion == ASSUME IInv, DeleteRetired PROVE IInv'
  BY DEF DeleteRetired, IInv, Typed, Plausible, Fresh, Sound, Observes, Contested, Asked, Truthful

\* Time passes: entries that are over go, and observations are not held for longer.
LEMMA Time == ASSUME IInv, Tick PROVE IInv'
<1>1. now \in 0 .. MaxTime /\ MaxTime \in Nat /\ now' = now + 1 /\ now < MaxTime /\ price' = price /\ task' = task
  BY WindowsAssumption DEF Tick, IInv, Typed
<1>2. Typed'
  BY <1>1 DEF Tick, IInv, Typed
<1>3. Plausible'
  <2>1. price # None => price.at \in Nat
    BY WindowsAssumption DEF IInv, Typed, Prices, Times
  <2> QED BY <1>1, <2>1, ClocksAssumption, WindowsAssumption DEF IInv, Plausible
<1>4. ASSUME NEW p \in Processes PROVE Fresh(p, cache[p])'
  <2>1. CASE cache'[p] = None
    BY <2>1 DEF Fresh
  <2>2. CASE cache'[p] # None
    <3>1. cache'[p] = cache[p] /\ cache[p] # None /\ cache[p].until # now
      BY <2>2 DEF Tick
    <3>2. cache[p].until \in Nat /\ cache[p].until >= now
      BY <3>1, WindowsAssumption DEF IInv, Typed, EntryType, Fresh
    <3> QED BY <1>1, <3>1, <3>2 DEF IInv, Fresh
  <2> QED BY <2>1, <2>2
<1>5. ASSUME NEW t \in Tasks PROVE Sound(t, task[t])'
  <2>1. Sound(t, task[t]) /\ task[t] \in TaskType
    BY DEF IInv, Sound
  <2>2. Offset[ProcessOf[t]] \in Nat /\ Delay \in Nat
    BY Clocks, ClocksAssumption
  <2>3. task[t].at # None => task[t].at \in Nat
    BY <2>1 DEF TaskType
  <2>4. task[t].asked \in Nat
    BY <2>1 DEF TaskType
  <2>5. task[t].at # None => now + Offset[ProcessOf[t]] < task[t].at + Delay
    BY DEF Tick, Clock
  <2>6. Observes(t, task[t])'
    BY <1>1, <2>1, <2>2, <2>3, <2>5 DEF Sound, Observes
  <2>7. Asked(t, task[t])'
    BY <1>1, <2>1, <2>2, <2>4 DEF Sound, Asked
  <2> QED BY <1>1, <2>1, <2>6, <2>7 DEF Sound, Contested, Truthful
<1> QED BY <1>2, <1>3, <1>4, <1>5 DEF IInv

-----------------------------------------------------------------------------
LEMMA InitInv == ASSUME Init PROVE IInv
<1>1. now = 0 /\ now \in Nat
  BY DEF Init
<1>2. Typed
  BY OldAssumption, WindowsAssumption
     DEF Init, Typed, Resting, Served, TaskType, Steps, Kinds
<1>3. Plausible
  <2>1. price # None => price.at \in Nat
    BY <1>2, WindowsAssumption DEF Typed, Prices, Times
  <2> QED BY <1>1, <2>1, OldAssumption, ClocksAssumption, WindowsAssumption DEF Init, Plausible
<1>4. \A p \in Processes : Fresh(p, cache[p])
  BY DEF Init, Fresh
<1>5. \A t \in Tasks : Sound(t, task[t])
  BY <1>1, RestingSound DEF Init
<1> QED BY <1>2, <1>3, <1>4, <1>5 DEF IInv

LEMMA StepInv == ASSUME IInv, [Next]_vars PROVE IInv'
<1>1. CASE UNCHANGED vars
  BY <1>1 DEF vars, IInv, Typed, Plausible, Fresh, Sound, Observes, Contested, Asked, Truthful
<1>2. ASSUME NEW t \in Tasks, (\E kind \in Kinds : Begin(t, kind)) \/ Step(t) \/ Abandon(t)
      PROVE  IInv'
  BY <1>2, Reads, Lookups, Writes DEF Step
<1> QED BY <1>1, <1>2, Deletion, Time DEF Next

\* The stored price, the caches and what tasks hold stay sound, in every interleaving.
THEOREM PricesInvariant == Spec => []IInv
<1> QED BY InitInv, StepInv, PTL DEF Spec

\* The types of the clock, the document, the caches and the tasks.
THEOREM PricesTypes == Spec => []TypeOK
<1>1. IInv => TypeOK
  BY DEF IInv, Typed, EntryType, TaskType, TypeOK
<1> QED BY <1>1, PricesInvariant, PTL

\* No answer is older than the stale window or retired (get_asset_price,
\* price_router.get_price, get_all_asset_prices).
THEOREM AnswersFresh == Spec => []BoundedStale
<1>1. IInv => BoundedStale
  BY DEF IInv, Sound, Truthful, BoundedStale
<1> QED BY <1>1, PricesInvariant, PTL

\* One step of a writer replaces an older observation only.
LEMMA WriteAdvances ==
  ASSUME IInv, NEW t \in Tasks, task[t].step \in Writing, Replaces(t),
         price # None, price.dated, price.at <= now + Skew, price' = New(t)
  PROVE  price' # None /\ price'.dated /\ price'.at >= price.at
<1>1. /\ task[t].at \in Nat /\ task[t].from \in Nat
      /\ Clock(t) <= task[t].at + Delay /\ task[t].at <= task[t].from
  BY Writer
<1>2. /\ Offset[ProcessOf[t]] \in Nat /\ Delay \in Nat /\ Skew \in Nat /\ now \in 0 .. MaxTime
      /\ MaxTime \in Nat
  BY Clocks, WindowsAssumption, ClocksAssumption DEF IInv, Typed
<1>3. price.at \in Nat
  BY WindowsAssumption DEF IInv, Typed, Prices, Times
<1>4. price.at + Delay <= now + Skew
  BY <1>2, <1>3 DEF IInv, Plausible
<1>5. task[t].at >= price.at
  BY <1>1, <1>2, <1>3, <1>4 DEF Replaces, Clock
<1>6. New(t) # None
  <2>1. New(t) \in Prices
    <3>1. task[t].at <= Clock(t)
      BY Writer
    <3> QED BY <3>1, <1>1, <1>2, Clocks DEF New, Prices, Times, Clock
  <2> QED BY <2>1, NoneAssumption
<1> QED BY <1>5, <1>6 DEF New

\* The stored observation of a price never goes back (_upsert_asset_price).
THEOREM ObservationsOnlyAdvance == Spec => ObservationsAdvance
<1> DEFINE Dated == price # None /\ price.dated /\ price.at <= now + Skew
           Advances == \/ price' = None /\ price.retired
                       \/ price' # None /\ price'.dated /\ price'.at >= price.at
<1>1. ASSUME IInv, Next, Dated PROVE Advances
  <2>1. CASE price' = price
    <3>1. price.at \in Nat
      BY <1>1, WindowsAssumption DEF IInv, Typed, Prices, Times
    <3> QED BY <1>1, <2>1, <3>1
  <2>2. CASE price' # price
    <3>1. CASE DeleteRetired
      BY <3>1 DEF DeleteRetired
    <3>2. ASSUME NEW t \in Tasks, Update(t) \/ Insert(t) \/ Retry(t) PROVE Advances
      <4>1. task[t].step \in Writing /\ Replaces(t) /\ price' = New(t)
        BY <1>1, <2>2, <3>2 DEF Update, Insert, Retry, Writing
      <4> QED BY <1>1, <4>1, WriteAdvances
    <3>3. CASE Tick
      BY <2>2, <3>3 DEF Tick
    <3>4. ASSUME NEW t \in Tasks,
                 (\E kind \in Kinds : Begin(t, kind)) \/ Step(t) \/ Abandon(t)
          PROVE  Update(t) \/ Insert(t) \/ Retry(t)
      BY <2>2, <3>4 DEF Step, Begin, ReadCache, List, Read, Prefetch, Decide, Fetch, FetchFails,
                        Fallback, Upsert, Exists, Winner, Abandon
    <3> QED BY <1>1, <3>1, <3>2, <3>3, <3>4 DEF Next
  <2> QED BY <2>1, <2>2
<1>2. ASSUME IInv, [Next]_vars PROVE [Dated => Advances]_vars
  BY <1>1, <1>2
<1> QED BY <1>2, PricesInvariant, PTL DEF Spec, ObservationsAdvance
=============================================================================
