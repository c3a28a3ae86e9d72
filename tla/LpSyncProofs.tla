---------------------------- MODULE LpSyncProofs ----------------------------
(***************************************************************************)
(* Machine-checked facts about LpSync, for any chain, any number of pools  *)
(* and workers, any lag and any number of attempts, provided that every    *)
(* pool is registered before the first worker starts (a pool that comes    *)
(* later may lose events: the run lp_late_pool).                           *)
(***************************************************************************)
EXTENDS LpSync, WellFoundedInduction, TLAPS

\* Steps of the snapshots, of the block loop, and of a block in it.
Snapshots == {"snapshot", "replace"}
Looping == {"claim", "load", "project", "lookup", "reread", "apply", "record", "save", "corrupt",
            "release"}
Projecting == {"project", "lookup", "reread", "apply", "record", "corrupt"}
AtEvent == {"lookup", "reread", "apply", "record", "corrupt"}

Here(p) == states[p].cursor
AllTracked == \A p \in Pools : states[p] # None

-----------------------------------------------------------------------------
(* The ledger and the checkpoint.                                          *)

\* The state of a pool holds what the chain held; at an event, the events of the block before
\* it are recorded, and the block is not more than one ahead of the checkpoint.
Marked(p, c) == \A e \in Events : e.pool = p /\ e.round = c.round /\ e.pos < c.pos => e \in markers
AtMostNext(c) == sync.last # None /\ c.round <= sync.last + 1
Sane(p, c) == /\ c.pos # End => c.round >= 1 /\ AtMostNext(c) /\ Marked(p, c)

StateOK(p) == states[p] # None => /\ states[p].balance = BalanceAt[p][Here(p)]
                                  /\ Sane(p, Here(p))

MarkersOK == \A e \in markers : states[e.pool] # None /\ ~Before(Here(e.pool), At(e))

\* Up to the checkpoint every pool has a state that is past all events.
Covered(r) == \A e \in Events : e.round <= r => ~Before(Here(e.pool), At(e))
CheckpointOK == sync.last # None => AllTracked /\ Covered(sync.last)

ClaimOK == sync.claimed # None => sync.last # None /\ sync.claimed = sync.last + 1

-----------------------------------------------------------------------------
(* The workers.                                                            *)

ViewOK(w) == /\ view[w] # None => sync.last # None /\ view[w] <= sync.last
             /\ pc[w] \in Looping => view[w] # None

\* The cutover: what has been snapshot allows the checkpoint.
Taken(w) == Pools \ (todo[w] \cup (IF pc[w] = "replace" THEN {snap[w].pool} ELSE {}))
CutoverOK(w) ==
  /\ pc[w] \in {"insert", "replace"} => snap[w] # None
  /\ pc[w] \in {"create", "insert"} => \A p \in Pools \ todo[w] : states[p] # None
  /\ pc[w] \in Snapshots => AllTracked
  /\ pc[w] \in Snapshots /\ low[w] # None =>
       \A p \in Taken(w) : low[w] <= CompleteThrough(Here(p))

\* The block: what is done is in the states, and recorded unless a snapshot covers it.
DoneOK(w) == pc[w] \in Projecting =>
  /\ todo[w] = Pools
  /\ \A e \in Events : e.round = view[w] + 1 /\ e.pos <= done[w] =>
       /\ ~Before(Here(e.pool), At(e))
       /\ e \in markers \/ ~Before(Here(e.pool), RoundEnd(e.round))

\* The event: what was read is not ahead of what is there.
ReadOK(w) == pc[w] \in {"lookup", "reread", "apply"} =>
  /\ cursor[w] # None
  /\ ~Before(Here(Current(w).pool), cursor[w])
  /\ Sane(Current(w).pool, cursor[w])
EventOK(w) ==
  /\ pc[w] \in AtEvent => Pending(w) # {}
  /\ pc[w] = "reread" => Current(w) \in markers
  /\ pc[w] = "apply" => Before(cursor[w], At(Current(w)))
  /\ pc[w] = "record" => ~Before(Here(Current(w).pool), At(Current(w)))
  /\ pc[w] = "corrupt" => ~Holds(w)

WorkerOK(w) == ViewOK(w) /\ CutoverOK(w) /\ DoneOK(w) /\ ReadOK(w) /\ EventOK(w)

StoreOK == /\ registered = Pools
           /\ \A p \in Pools : StateOK(p)
           /\ MarkersOK /\ CheckpointOK /\ ClaimOK

IInv == TypeOK /\ StoreOK /\ \A w \in Workers : WorkerOK(w)

-----------------------------------------------------------------------------
(* Cursors and events.                                                     *)

LEMMA NaturalOrder ==
  \E R : IsWellFoundedOn(R, Nat) /\ \A x, y \in Nat : x < y => <<x, y>> \in R
<1>1. \A x, y \in Nat : x < y => <<x, y>> \in OpToRel(<, Nat)
  BY DEF OpToRel
<1> QED BY <1>1, NatLessThanWellFounded, Zenon

\* A set of numbers has a minimal member of a well-founded relation.
LEMMA Minimal ==
  ASSUME NEW R, IsWellFoundedOn(R, Nat), NEW T, T \subseteq Nat, T # {}
  PROVE  \E n \in T : \A m \in T : ~(<<m, n>> \in R)
  BY WFMin, Zenon

\* Numbers have a least one among them.
LEMMA Least ==
  ASSUME NEW T, T \subseteq Nat, T # {}
  PROVE  \E n \in T : \A m \in T : n <= m
<1>1. PICK R : IsWellFoundedOn(R, Nat) /\ \A x, y \in Nat : x < y => <<x, y>> \in R
  BY NaturalOrder
<1>2. IsWellFoundedOn(R, Nat)
  BY <1>1
<1>3. PICK n \in T : \A m \in T : ~(<<m, n>> \in R)
  BY <1>2, Minimal, Zenon
<1>4. ASSUME NEW m \in T PROVE ~(m < n)
  <2>1. m \in Nat /\ n \in Nat /\ ~(<<m, n>> \in R)
    BY <1>3
  <2>2. m < n => <<m, n>> \in R
    BY <1>1, <2>1
  <2> QED BY <2>1, <2>2
<1>5. ASSUME NEW m \in T PROVE n <= m
  <2>1. m \in Nat /\ n \in Nat
    OBVIOUS
  <2> QED BY <2>1, <1>4
<1> QED BY <1>5

LEMMA Numbers ==
  /\ MaxRound \in Nat /\ End \in Nat /\ End >= 1 /\ Rounds = 0 .. MaxRound
  /\ \A r \in Rounds : r \in Nat /\ RoundEnd(r) \in Cursors
  /\ \A c \in Cursors : c.round \in Rounds /\ c.round \in Nat /\ c.pos \in Nat /\ c.pos <= End
  BY NumbersAssumption DEF Rounds, Cursors, RoundEnd

LEMMA EventTypes ==
  ASSUME NEW e \in Events
  PROVE  /\ e.round \in Rounds /\ e.round \in Nat /\ e.round >= 1
         /\ e.pos \in Nat /\ e.pos >= 1 /\ e.pos < End
         /\ e.pool \in Pools /\ e.delta \in Int
         /\ At(e) \in Cursors /\ At(e).round = e.round /\ At(e).pos = e.pos
<1>1. e \in [round : 1 .. MaxRound, pos : 1 .. End - 1, pool : Pools, delta : Int]
  BY EventsAssumption
<1> QED BY <1>1, NumbersAssumption DEF At, Cursors, Rounds

\* Cursors are ordered.
LEMMA Order ==
  ASSUME NEW a \in Cursors, NEW b \in Cursors, NEW c \in Cursors
  PROVE  /\ ~Before(a, a)
         /\ Before(a, b) => ~Before(b, a)
         /\ ~Before(b, a) /\ ~Before(c, b) => ~Before(c, a)
         /\ Before(a, b) /\ ~Before(c, b) => Before(a, c)
         /\ ~Before(a, b) /\ ~Before(b, a) => a = b
         /\ ~Before(b, a) => CompleteThrough(a) <= CompleteThrough(b)
<1>1. /\ a.round \in Nat /\ a.pos \in Nat /\ a.pos <= End
      /\ b.round \in Nat /\ b.pos \in Nat /\ b.pos <= End
      /\ c.round \in Nat /\ c.pos \in Nat /\ c.pos <= End
      /\ End \in Nat
  BY Numbers
<1>2. /\ a = [round |-> a.round, pos |-> a.pos]
      /\ b = [round |-> b.round, pos |-> b.pos]
  BY DEF Cursors
<1>3. a.round = b.round /\ a.pos = b.pos => a = b
  BY <1>2
<1> QED BY <1>1, <1>3 DEF Before, CompleteThrough

LEMMA CompleteThroughCovers ==
  ASSUME NEW c \in Cursors, NEW e \in Events, e.round <= CompleteThrough(c)
  PROVE  ~Before(c, At(e))
  BY Numbers, EventTypes DEF Before, CompleteThrough

\* The event a worker is at comes first among those that are left.
LEMMA CurrentEvent ==
  ASSUME NEW w \in Workers, Pending(w) # {}
  PROVE  /\ Current(w) \in Events /\ Current(w) \in Pending(w)
         /\ \A f \in Pending(w) : Current(w).pos <= f.pos
<1>1. Pending(w) \subseteq Events
  BY DEF Pending
<1>2. \E e \in Pending(w) : \A f \in Pending(w) : e.pos <= f.pos
  <2> DEFINE T == {e.pos : e \in Pending(w)}
  <2>1. T \subseteq Nat /\ T # {}
    BY <1>1, EventTypes
  <2>2. PICK n \in T : \A m \in T : n <= m
    BY <2>1, Least
  <2>3. PICK e \in Pending(w) : n = e.pos
    OBVIOUS
  <2> QED BY <2>2, <2>3
<1> QED BY <1>1, <1>2 DEF Current

-----------------------------------------------------------------------------
(* What every step does.                                                   *)

Advances ==
  /\ \A p \in Pools : states[p] # None =>
        states'[p] # None /\ ~Before(states'[p].cursor, states[p].cursor)
  /\ markers \subseteq markers'
  /\ sync.last # None => sync'.last # None /\ sync'.last >= sync.last

Same(u) == /\ pc'[u] = pc[u] /\ view'[u] = view[u] /\ todo'[u] = todo[u] /\ low'[u] = low[u]
           /\ snap'[u] = snap[u] /\ done'[u] = done[u] /\ cursor'[u] = cursor[u]

LEMMA StateType ==
  ASSUME TypeOK, NEW p \in Pools, states[p] # None
  PROVE  Here(p) \in Cursors /\ states[p].balance \in Nat
  BY DEF TypeOK, Here

LEMMA NextStateType ==
  ASSUME TypeOK', NEW p \in Pools, states'[p] # None
  PROVE  states'[p].cursor \in Cursors
  BY DEF TypeOK

\* What a worker knows of cursors stays so.
LEMMA SaneKept ==
  ASSUME TypeOK, TypeOK', Advances, NEW p \in Pools, NEW c \in Cursors, Sane(p, c)
  PROVE  Sane(p, c)'
<1>1. sync.last # None => sync.last \in Nat /\ sync'.last \in Nat
  BY Numbers DEF TypeOK, Advances
<1>2. c.round \in Nat
  BY Numbers
<1> QED BY <1>1, <1>2 DEF Sane, AtMostNext, Marked, Advances

\* A cursor that was not ahead of a state is not ahead of it later.
LEMMA StaysPast ==
  ASSUME TypeOK, TypeOK', Advances, NEW p \in Pools, states[p] # None, NEW c \in Cursors,
         ~Before(Here(p), c)
  PROVE  ~Before(states'[p].cursor, c)
<1>1. Here(p) \in Cursors /\ states'[p].cursor \in Cursors /\ ~Before(states'[p].cursor, Here(p))
  BY StateType, NextStateType DEF Advances, Here
<1> QED BY <1>1, Order

\* The event of a worker is a matter of the round and of what it has done.
LEMMA SameEvent ==
  ASSUME NEW u \in Workers, view'[u] = view[u], todo'[u] = todo[u], done'[u] = done[u]
  PROVE  Pending(u)' = Pending(u) /\ Current(u)' = Current(u)
<1>1. Pending(u)' = Pending(u)
  BY DEF Pending
<1> QED BY <1>1 DEF Current

\* While a round is projected every pool has a state.
LEMMA LoopTracked ==
  ASSUME IInv, NEW u \in Workers, pc[u] \in Looping
  PROVE  /\ AllTracked /\ sync.last # None /\ sync.last \in Nat
         /\ view[u] # None /\ view[u] \in Nat /\ view[u] <= sync.last
         /\ Covered(sync.last)
<1>1. view[u] # None /\ sync.last # None /\ view[u] <= sync.last
  BY DEF IInv, WorkerOK, ViewOK
<1>2. AllTracked /\ Covered(sync.last)
  BY <1>1 DEF IInv, StoreOK, CheckpointOK
<1>3. sync.last \in Rounds /\ view[u] \in Rounds
  BY <1>1 DEF IInv, TypeOK
<1> QED BY <1>1, <1>2, <1>3, Numbers

\* What holds of a worker is kept by the steps of others, and by its own that move it nowhere.
LEMMA KeptWorker ==
  ASSUME IInv, TypeOK', Advances, NEW u \in Workers, Same(u),
         pc[u] = "corrupt" => ~Holds(u)'
  PROVE  WorkerOK(u)'
<1>1. TypeOK /\ WorkerOK(u)
  BY DEF IInv
<1>2. ViewOK(u)'
  <2>1. view[u] # None => view[u] \in Nat /\ sync.last # None /\ view[u] <= sync.last
    BY <1>1, Numbers DEF WorkerOK, ViewOK, TypeOK
  <2>2. sync.last # None => sync.last \in Nat /\ sync'.last # None /\ sync'.last \in Nat
                            /\ sync'.last >= sync.last
    BY <1>1, Numbers DEF TypeOK, Advances
  <2> QED BY <1>1, <2>1, <2>2 DEF WorkerOK, ViewOK, Same
<1>3. CutoverOK(u)'
  <2>1. CutoverOK(u)
    BY <1>1 DEF WorkerOK
  <2>2. AllTracked => AllTracked'
    BY DEF AllTracked, Advances
  <2>3. ASSUME pc[u] \in Snapshots, low[u] # None, NEW p \in Taken(u)
        PROVE  low[u] <= CompleteThrough(states'[p].cursor)
    <3>1. p \in Pools /\ states[p] # None /\ low[u] <= CompleteThrough(Here(p))
      BY <2>1, <2>3 DEF CutoverOK, AllTracked, Taken
    <3>2. /\ Here(p) \in Cursors /\ states'[p].cursor \in Cursors
          /\ ~Before(states'[p].cursor, Here(p))
      BY <1>1, <3>1, StateType, NextStateType DEF Advances, Here
    <3>3. CompleteThrough(Here(p)) <= CompleteThrough(states'[p].cursor)
      BY <3>2, Order
    <3>4. low[u] \in Nat
      BY <1>1, <2>3, Numbers DEF TypeOK
    <3>5. CompleteThrough(Here(p)) \in Int /\ CompleteThrough(states'[p].cursor) \in Int
      BY <3>2, Numbers DEF CompleteThrough
    <3> QED BY <3>1, <3>3, <3>4, <3>5
  <2>4. Taken(u)' = Taken(u)
    BY DEF Taken, Same
  <2>5. /\ pc'[u] \in Snapshots /\ low'[u] # None =>
              \A p \in Taken(u)' : low'[u] <= CompleteThrough(states'[p].cursor)
    BY <2>3, <2>4 DEF Same
  <2>6. pc'[u] \in {"create", "insert"} => \A p \in Pools \ todo'[u] : states'[p] # None
    BY <2>1 DEF CutoverOK, Same, Advances
  <2> QED BY <2>1, <2>2, <2>5, <2>6 DEF CutoverOK, Same, Here
<1>4. pc[u] \in Projecting => AllTracked /\ view[u] \in Nat
  BY LoopTracked DEF Projecting, Looping
<1>5. DoneOK(u)'
  <2>1. SUFFICES ASSUME pc[u] \in Projecting
                 PROVE  /\ todo'[u] = Pools
                        /\ \A e \in Events : e.round = view'[u] + 1 /\ e.pos <= done'[u] =>
                             /\ ~Before(states'[e.pool].cursor, At(e))
                             /\ \/ e \in markers'
                                \/ ~Before(states'[e.pool].cursor, RoundEnd(e.round))
    BY DEF DoneOK, Same, Here
  <2>2. ASSUME NEW e \in Events, e.round = view[u] + 1, e.pos <= done[u]
        PROVE  /\ ~Before(states'[e.pool].cursor, At(e))
               /\ e \in markers' \/ ~Before(states'[e.pool].cursor, RoundEnd(e.round))
    <3>1. ~Before(Here(e.pool), At(e))
      BY <1>1, <2>1, <2>2 DEF WorkerOK, DoneOK
    <3>2. e \in markers \/ ~Before(Here(e.pool), RoundEnd(e.round))
      BY <1>1, <2>1, <2>2 DEF WorkerOK, DoneOK
    <3>3. /\ e.pool \in Pools /\ At(e) \in Cursors /\ RoundEnd(e.round) \in Cursors
      BY EventTypes, Numbers
    <3>4. states[e.pool] # None
      BY <1>4, <2>1, <3>3 DEF AllTracked
    <3>5. ~Before(states'[e.pool].cursor, At(e))
      BY <1>1, <3>1, <3>3, <3>4, StaysPast
    <3>6. ~Before(Here(e.pool), RoundEnd(e.round)) => ~Before(states'[e.pool].cursor, RoundEnd(e.round))
      BY <1>1, <3>3, <3>4, StaysPast
    <3> QED BY <3>2, <3>5, <3>6 DEF Advances
  <2> QED BY <1>1, <2>1, <2>2 DEF WorkerOK, DoneOK, Same
<1>6. Pending(u)' = Pending(u) /\ Current(u)' = Current(u)
  BY SameEvent DEF Same
<1>7. pc[u] \in AtEvent => /\ Pending(u) # {} /\ Current(u) \in Events
                           /\ Current(u).pool \in Pools /\ states[Current(u).pool] # None
  <2>1. pc[u] \in AtEvent => Pending(u) # {} /\ AllTracked
    BY <1>1, <1>4 DEF WorkerOK, EventOK, AtEvent, Projecting
  <2> QED BY <2>1, CurrentEvent, EventTypes DEF AllTracked
<1>8. ReadOK(u)'
  <2>1. SUFFICES ASSUME pc[u] \in {"lookup", "reread", "apply"}
                 PROVE  /\ cursor[u] # None
                        /\ ~Before(states'[Current(u).pool].cursor, cursor[u])
                        /\ Sane(Current(u).pool, cursor[u])'
    <3> DEFINE p == Current(u).pool
               c == cursor[u]
    <3>1. PICK q : q = Current(u).pool
      OBVIOUS
    <3>2. Current(u)'.pool = q
      BY <1>6, <3>1
    <3>3. PICK d : d = cursor[u]
      OBVIOUS
    <3>4. cursor'[u] = d
      BY <3>3 DEF Same
    <3>5. Sane(Current(u).pool, cursor[u])' <=> Sane(q, d)'
      BY <3>2, <3>4 DEF Sane, Marked, AtMostNext
    <3>6. pc'[u] \in {"lookup", "reread", "apply"} =>
             /\ cursor'[u] # None
             /\ ~Before(states'[q].cursor, d)
             /\ Sane(q, d)'
      BY <2>1, <3>1, <3>3, <3>5 DEF Same
    <3> QED BY <3>2, <3>4, <3>5, <3>6 DEF ReadOK, Here
  <2>2. PICK p : p = Current(u).pool
    OBVIOUS
  <2>3. PICK c : c = cursor[u]
    OBVIOUS
  <2>4. c # None /\ ~Before(Here(p), c) /\ Sane(p, c)
    BY <1>1, <2>1, <2>2, <2>3 DEF WorkerOK, ReadOK
  <2>5. c \in Cursors /\ p \in Pools /\ states[p] # None
    BY <1>1, <1>7, <2>1, <2>2, <2>3, <2>4 DEF TypeOK, AtEvent
  <2>6. ~Before(states'[p].cursor, c)
    BY <1>1, <2>4, <2>5, StaysPast
  <2>7. Sane(p, c)'
    BY <1>1, <2>4, <2>5, SaneKept
  <2>8. Current(u)'.pool = p /\ cursor'[u] = c
    BY <1>6, <2>2, <2>3 DEF Same
  <2>9. Sane(Current(u).pool, cursor[u])'
    BY <2>7, <2>8 DEF Sane, Marked, AtMostNext
  <2> QED BY <2>2, <2>3, <2>4, <2>6, <2>9
<1>9. EventOK(u)'
  <2>1. EventOK(u)
    BY <1>1 DEF WorkerOK
  <2>2. PICK e : e = Current(u)
    OBVIOUS
  <2>3. Current(u)' = e
    BY <1>6, <2>2
  <2>4. pc[u] = "record" => ~Before(states'[e.pool].cursor, At(e))
    <3>1. SUFFICES ASSUME pc[u] = "record" PROVE ~Before(states'[e.pool].cursor, At(e))
      OBVIOUS
    <3>2. e \in Events /\ e.pool \in Pools /\ states[e.pool] # None /\ ~Before(Here(e.pool), At(e))
      BY <1>7, <2>1, <2>2, <3>1 DEF EventOK, AtEvent
    <3>3. At(e) \in Cursors
      BY <3>2, EventTypes
    <3> QED BY <1>1, <3>2, <3>3, StaysPast
  <2>5. pc[u] = "reread" => e \in markers'
    BY <2>1, <2>2 DEF EventOK, Advances
  <2>6. pc[u] = "apply" => Before(cursor[u], At(e))
    BY <2>1, <2>2 DEF EventOK
  <2>7. pc'[u] \in AtEvent => Pending(u)' # {}
    BY <1>6, <1>7 DEF Same
  <2> QED BY <2>3, <2>4, <2>5, <2>6, <2>7 DEF EventOK, Same, Here
<1> QED BY <1>2, <1>3, <1>5, <1>8, <1>9 DEF WorkerOK

-----------------------------------------------------------------------------
(* Types.                                                                  *)

LEMMA CurrentPos ==
  ASSUME IInv, NEW w \in Workers, pc[w] \in AtEvent
  PROVE  Current(w) \in Events /\ Current(w).pos \in 0 .. End - 1 /\ Current(w).pool \in Pools
<1>1. Pending(w) # {}
  BY DEF IInv, WorkerOK, EventOK
<1>2. Current(w) \in Events
  BY <1>1, CurrentEvent
<1> QED BY <1>2, EventTypes, NumbersAssumption

Syncs == [last : Rounds \cup {None}, claimed : Rounds \cup {None},
          owner : Workers \cup {None, Gone}, live : BOOLEAN]

LEMMA SyncTypes ==
  ASSUME TypeOK
  PROVE  /\ sync.last \in Rounds \cup {None} /\ sync.claimed \in Rounds \cup {None}
         /\ sync.owner \in Workers \cup {None, Gone}
  BY DEF TypeOK

LEMMA SyncDocTypes ==
  ASSUME NEW last \in Rounds \cup {None}
  PROVE  /\ SyncDoc(last, NoClaim) \in Syncs
         /\ \A c \in Rounds, w \in Workers :
              SyncDoc(last, [claimed |-> c, owner |-> w, live |-> TRUE]) \in Syncs
<1>1. \A c \in Rounds \cup {None}, o \in Workers \cup {None, Gone}, live \in BOOLEAN :
        [last |-> last, claimed |-> c, owner |-> o, live |-> live] \in Syncs
  BY DEF Syncs
<1>2. FALSE \in BOOLEAN /\ TRUE \in BOOLEAN
  OBVIOUS
<1>3. [last |-> last, claimed |-> None, owner |-> None, live |-> FALSE] \in Syncs
  BY <1>1, <1>2
<1>4. ASSUME NEW c \in Rounds, NEW w \in Workers
      PROVE  [last |-> last, claimed |-> c, owner |-> w, live |-> TRUE] \in Syncs
  BY <1>1, <1>2
<1>5. SyncDoc(last, NoClaim) = [last |-> last, claimed |-> None, owner |-> None, live |-> FALSE]
  BY DEF SyncDoc, NoClaim
<1>6. ASSUME NEW c \in Rounds, NEW w \in Workers
      PROVE  SyncDoc(last, [claimed |-> c, owner |-> w, live |-> TRUE]) =
               [last |-> last, claimed |-> c, owner |-> w, live |-> TRUE]
  BY DEF SyncDoc
<1> QED BY <1>3, <1>4, <1>5, <1>6

LEMMA SnapTypes ==
  ASSUME TypeOK, NEW w \in Workers, snap[w] # None
  PROVE  /\ snap[w].pool \in Pools /\ snap[w].round \in Rounds
         /\ RoundEnd(snap[w].round) \in Cursors
         /\ BalanceAt[snap[w].pool][RoundEnd(snap[w].round)] \in Nat
<1>1. snap[w] \in [pool : Pools, round : Rounds]
  BY DEF TypeOK
<1>2. snap[w].pool \in Pools /\ snap[w].round \in Rounds /\ RoundEnd(snap[w].round) \in Cursors
  BY <1>1, Numbers
<1> QED BY <1>2, ChainAssumption

LEMMA TypesKept ==
  ASSUME IInv, NEW w \in Workers, Cutover(w) \/ Loop(w) \/ Fault(w)
  PROVE  TypeOK'
<1> USE DEF Steps
<1>0. TypeOK
  BY DEF IInv
<1>1. CASE Start(w)
  BY <1>0, <1>1 DEF Start, TypeOK
<1>2. CASE ReadPools(w)
  BY <1>0, <1>2 DEF ReadPools, TypeOK, SeenRounds
<1>3. ASSUME NEW p \in Pools, CreateFetch(w, p) PROVE TypeOK'
  BY <1>0, <1>3 DEF CreateFetch, TypeOK, SeenRounds
<1>4. CASE CreateInsert(w)
  <2>1. snap[w] # None
    BY <1>4 DEF IInv, WorkerOK, CutoverOK, CreateInsert
  <2>2. states' \in [Pools -> [cursor : Cursors, balance : Nat] \cup {None}]
    BY <1>0, <1>4, <2>1, SnapTypes DEF CreateInsert, TypeOK
  <2> QED BY <1>0, <1>4, <2>2 DEF CreateInsert, TypeOK
<1>5. CASE CreateDone(w)
  BY <1>0, <1>5 DEF CreateDone, TypeOK, Tracked
<1>6. ASSUME NEW p \in Pools, SnapshotFetch(w, p) PROVE TypeOK'
  BY <1>0, <1>6 DEF SnapshotFetch, TypeOK, SeenRounds
<1>7. ASSUME NEW p \in Pools, SnapshotFails(w, p) PROVE TypeOK'
  BY <1>0, <1>7 DEF SnapshotFails, TypeOK
<1>8. CASE Replace(w)
  <2>1. snap[w] # None /\ AllTracked
    BY <1>8 DEF IInv, WorkerOK, CutoverOK, Replace, Snapshots
  <2>2. states' \in [Pools -> [cursor : Cursors, balance : Nat] \cup {None}]
    BY <1>0, <1>8, <2>1, SnapTypes DEF Replace, TypeOK
  <2>3. PICK p \in Pools : p = snap[w].pool
    BY <1>0, <2>1, SnapTypes
  <2>4. states[p] # None /\ states'[p] # None
    <3>1. states[p] # None
      BY <2>1 DEF AllTracked
    <3>2. states' = states \/ states' = [states EXCEPT ![p] = [cursor |-> RoundEnd(snap[w].round),
                                              balance |-> BalanceAt[p][RoundEnd(snap[w].round)]]]
      BY <1>8, <2>3 DEF Replace
    <3>3. [cursor |-> RoundEnd(snap[w].round), balance |-> BalanceAt[p][RoundEnd(snap[w].round)]]
            \in [cursor : Cursors, balance : Nat]
      BY <1>0, <2>1, <2>3, SnapTypes
    <3>4. [cursor |-> RoundEnd(snap[w].round), balance |-> BalanceAt[p][RoundEnd(snap[w].round)]] # None
      BY <3>3, NamesAssumption
    <3> QED BY <1>0, <3>1, <3>2, <3>4 DEF TypeOK
  <2>5. CompleteThrough(states'[p].cursor) \in Rounds
    <3>1. states'[p].cursor = RoundEnd(snap[w].round) \/ states'[p].cursor = Here(p)
      BY <1>0, <1>8, <2>3 DEF Replace, Here, TypeOK
    <3>2. CompleteThrough(RoundEnd(snap[w].round)) \in Rounds
      BY <1>0, <2>1, SnapTypes DEF CompleteThrough, RoundEnd
    <3>3. Here(p) \in Cursors /\ (Here(p).pos # End => Here(p).round >= 1)
      BY <1>0, <2>4, StateType DEF IInv, StoreOK, StateOK, Sane
    <3>4. CompleteThrough(Here(p)) \in Rounds
      BY <3>3, Numbers DEF CompleteThrough
    <3> QED BY <3>1, <3>2, <3>4
  <2>6. low'[w] \in Rounds \cup {None} /\ low' \in [Workers -> Rounds \cup {None}]
    <3>1. low[w] \in Rounds \cup {None}
      BY <1>0 DEF TypeOK
    <3>2. PICK l \in Rounds \cup {None} : low' = [low EXCEPT ![w] = l]
      BY <1>8, <2>3, <2>5, <3>1 DEF Replace, Lower
    <3> QED BY <1>0, <3>2 DEF TypeOK
  <2> QED BY <1>0, <1>8, <2>2, <2>6 DEF Replace, TypeOK
<1>9. CASE AdvanceSnapshot(w)
  <2>1. low[w] \in Rounds \cup {None}
    BY <1>0 DEF TypeOK
  <2>2. sync' \in Syncs
    <3>1. sync \in Syncs
      BY <1>0 DEF TypeOK, Syncs
    <3>2. sync' = sync \/ sync' = SyncDoc(low[w], NoClaim)
      BY <1>9 DEF AdvanceSnapshot
    <3> QED BY <2>1, <3>1, <3>2, SyncDocTypes
  <2>3. view' \in [Workers -> Rounds \cup {None}]
    BY <1>0, <1>9, <2>1 DEF AdvanceSnapshot, TypeOK
  <2> QED BY <1>0, <1>9, <2>2, <2>3 DEF AdvanceSnapshot, TypeOK, Syncs
<1>10. CASE Refresh(w)
  BY <1>0, <1>10 DEF Refresh, TypeOK
<1>11. CASE Claim(w)
  <2>1. view[w] # None
    BY <1>11, LoopTracked DEF Claim, Looping
  <2>2. view[w] + 1 \in Rounds
    BY <1>0, <1>11, <2>1, Numbers DEF Claim, TypeOK
  <2>3. sync' \in Syncs
    <3>1. sync \in Syncs
      BY <1>0 DEF TypeOK, Syncs
    <3>2. \/ sync' = sync
          \/ sync' = SyncDoc(sync.last, [claimed |-> view[w] + 1, owner |-> w, live |-> TRUE])
      BY <1>11 DEF Claim
    <3>3. SyncDoc(sync.last, [claimed |-> view[w] + 1, owner |-> w, live |-> TRUE]) \in Syncs
      BY <1>0, <2>2, SyncTypes, SyncDocTypes
    <3> QED BY <3>1, <3>2, <3>3
  <2> QED BY <1>0, <1>11, <2>3, SyncTypes DEF Claim, TypeOK, Syncs
<1>12. CASE LoadTracked(w)
  BY <1>0, <1>12, Numbers DEF LoadTracked, TypeOK, Tracked
<1>13. CASE ReadState(w)
  <2>1. Current(w) \in Events
    BY <1>13, CurrentEvent DEF ReadState
  <2>2. AllTracked
    BY <1>13, LoopTracked DEF ReadState, Looping
  <2>3. states[Current(w).pool].cursor \in Cursors
    BY <1>0, <2>1, <2>2, EventTypes, StateType DEF AllTracked, Here
  <2> QED BY <1>0, <1>13, <2>3 DEF ReadState, TypeOK
<1>14. CASE Lookup(w)
  BY <1>0, <1>14, CurrentPos DEF Lookup, TypeOK, NextEvent, GoTo, AtEvent
<1>15. CASE Reread(w)
  BY <1>0, <1>15, CurrentPos DEF Reread, TypeOK, NextEvent, GoTo, AtEvent
<1>16. CASE Apply(w)
  <2>1. PICK e \in Events : e = Current(w)
    BY <1>16, CurrentPos DEF Apply, AtEvent
  <2>2. AllTracked
    BY <1>16, LoopTracked DEF Apply, Looping
  <2>3. e.pool \in Pools /\ states[e.pool].balance \in Nat /\ At(e) \in Cursors /\ e.delta \in Int
    BY <1>0, <2>2, EventTypes, StateType DEF AllTracked
  <2>4. states' \in [Pools -> [cursor : Cursors, balance : Nat] \cup {None}]
    BY <1>0, <1>16, <2>1, <2>3 DEF Apply, TypeOK, Applied
  <2> QED BY <1>0, <1>16, <2>4 DEF Apply, TypeOK, GoTo
<1>17. CASE Record(w)
  BY <1>0, <1>17, CurrentPos DEF Record, TypeOK, NextEvent, AtEvent
<1>18. CASE Complete(w)
  <2>1. view[w] \in Nat /\ view[w] # None
    BY <1>18, LoopTracked DEF Complete, Looping
  <2>2. Holds(w) => sync.claimed \in Rounds
    BY <1>0, <2>1, NamesAssumption, SyncTypes DEF Holds
  <2>3. sync' \in Syncs
    <3>1. sync \in Syncs
      BY <1>0 DEF TypeOK, Syncs
    <3>2. sync' = sync \/ (Holds(w) /\ sync' = SyncDoc(sync.claimed, NoClaim))
      BY <1>18 DEF Complete
    <3> QED BY <2>2, <3>1, <3>2, SyncDocTypes
  <2>4. view' \in [Workers -> Rounds \cup {None}]
    <3>1. view' = view \/ (Holds(w) /\ view' = [view EXCEPT ![w] = sync.claimed])
      BY <1>18 DEF Complete
    <3> QED BY <1>0, <2>2, <3>1 DEF TypeOK
  <2>5. /\ pc' \in [Workers -> Steps] /\ todo' \in [Workers -> SUBSET Pools]
        /\ done' \in [Workers -> 0 .. End - 1]
    <3>1. \E s \in Steps : pc' = [pc EXCEPT ![w] = s]
      BY <1>18 DEF Complete
    <3> QED BY <1>0, <1>18, <3>1, NumbersAssumption DEF Complete, TypeOK
  <2>6. UNCHANGED <<head, registered, states, markers, low, snap, cursor, attempts>>
    BY <1>18 DEF Complete
  <2> QED BY <1>0, <2>3, <2>4, <2>5, <2>6 DEF TypeOK, Syncs
<1>19. CASE SaveBlock(w)
  BY <1>0, <1>19, NumbersAssumption DEF SaveBlock, TypeOK
<1>20. CASE Alarm(w) \/ Fail(w)
  <2>1. Abandon(w)
    BY <1>20 DEF Alarm, Fail
  <2>2. done' \in [Workers -> 0 .. End - 1]
    BY <1>0, <2>1, NumbersAssumption DEF Abandon, TypeOK
  <2> QED BY <1>0, <2>1, <2>2 DEF Abandon, TypeOK
<1>21. CASE Release(w)
  <2>1. sync' \in Syncs
    <3>1. sync \in Syncs
      BY <1>0 DEF TypeOK, Syncs
    <3>2. sync' = sync \/ sync' = SyncDoc(sync.last, NoClaim)
      BY <1>21 DEF Release
    <3> QED BY <1>0, <3>1, <3>2, SyncTypes, SyncDocTypes
  <2>2. attempts' \in [Workers -> 0 .. MaxAttempts - 1]
    BY <1>0, <1>21, NumbersAssumption DEF Release, Exhausted, TypeOK
  <2>3. view' \in [Workers -> Rounds \cup {None}]
    BY <1>0, <1>21, SyncTypes DEF Release, TypeOK
  <2> QED BY <1>0, <1>21, <2>1, <2>2, <2>3 DEF Release, TypeOK, Syncs
<1>22. CASE Crash(w)
  <2>1. sync' \in Syncs
    BY <1>0, <1>22 DEF Crash, TypeOK, Syncs
  <2>2. attempts' \in [Workers -> 0 .. MaxAttempts - 1] /\ done' \in [Workers -> 0 .. End - 1]
    BY <1>0, <1>22, NumbersAssumption DEF Crash, TypeOK
  <2> QED BY <1>0, <1>22, <2>1, <2>2 DEF Crash, TypeOK, Syncs
<1> QED BY <1>1, <1>2, <1>3, <1>4, <1>5, <1>6, <1>7, <1>8, <1>9, <1>10, <1>11, <1>12, <1>13,
           <1>14, <1>15, <1>16, <1>17, <1>18, <1>19, <1>20, <1>21, <1>22
        DEF Cutover, Loop, Fault

-----------------------------------------------------------------------------
(* A step in parts: what it does to the stores, and where its worker is then. *)

StoresKept == UNCHANGED <<registered, states, markers, sync>>

LEMMA KeptAdvances ==
  ASSUME IInv, UNCHANGED states, markers \subseteq markers',
         sync.last # None => sync'.last # None /\ sync'.last >= sync.last
  PROVE  Advances
<1>1. ASSUME NEW p \in Pools, states[p] # None PROVE ~Before(states'[p].cursor, states[p].cursor)
  BY <1>1, StateType, Order DEF IInv, Here
<1> QED BY <1>1 DEF Advances

LEMMA OthersKept ==
  ASSUME IInv, TypeOK', Advances, StoreOK', NEW w \in Workers, WorkerOK(w)',
         \A u \in Workers \ {w} : Same(u) /\ (pc[u] = "corrupt" => ~Holds(u)')
  PROVE  IInv'
<1>1. ASSUME NEW u \in Workers \ {w} PROVE WorkerOK(u)'
  BY <1>1, KeptWorker
<1> QED BY <1>1 DEF IInv

LEMMA AlarmKept ==
  ASSUME IInv, NEW u \in Workers, Same(u), Holds(u)' => Holds(u)
  PROVE  pc[u] = "corrupt" => ~Holds(u)'
  BY DEF IInv, WorkerOK, EventOK

LEMMA SyncKept ==
  ASSUME IInv, UNCHANGED sync
  PROVE  sync.last # None => sync'.last # None /\ sync'.last >= sync.last
  BY Numbers DEF IInv, TypeOK

LEMMA QuietStep ==
  ASSUME IInv, TypeOK', StoresKept, NEW w \in Workers, WorkerOK(w)',
         \A u \in Workers \ {w} : Same(u)
  PROVE  IInv'
<1>1. Advances
  BY KeptAdvances, SyncKept DEF StoresKept
<1>2. StoreOK'
  BY DEF StoresKept, IInv, StoreOK, StateOK, Here, Sane, AtMostNext, Marked, MarkersOK, CheckpointOK,
         AllTracked, Covered, ClaimOK
<1>3. ASSUME NEW u \in Workers \ {w} PROVE pc[u] = "corrupt" => ~Holds(u)'
  BY AlarmKept DEF StoresKept, Same, Holds
<1> QED BY <1>1, <1>2, <1>3, OthersKept

\* A worker that is neither in its cutover nor in a block.
LEMMA AtRest ==
  ASSUME NEW w \in Workers, ViewOK(w)',
         pc'[w] \notin Projecting \cup Snapshots \cup {"create", "insert"}
  PROVE  WorkerOK(w)'
  BY DEF WorkerOK, CutoverOK, DoneOK, ReadOK, EventOK, Projecting, Snapshots, AtEvent

LEMMA InCutover ==
  ASSUME NEW w \in Workers, ViewOK(w)', CutoverOK(w)', pc'[w] \notin Projecting
  PROVE  WorkerOK(w)'
  BY DEF WorkerOK, DoneOK, ReadOK, EventOK, Projecting, AtEvent

LEMMA InBlock ==
  ASSUME NEW w \in Workers, ViewOK(w)', DoneOK(w)', ReadOK(w)', EventOK(w)', pc'[w] \in Projecting
  PROVE  WorkerOK(w)'
  BY DEF WorkerOK, CutoverOK, Projecting, Snapshots

\* What a worker knows of the checkpoint it has from the checkpoint.
LEMMA ViewKept ==
  ASSUME IInv, NEW w \in Workers, sync'.last = sync.last,
         view'[w] \in {view[w], sync.last, None},
         pc'[w] \in Looping => view'[w] # None
  PROVE  ViewOK(w)'
<1>1. view[w] # None => sync.last # None /\ view[w] <= sync.last
  BY DEF IInv, WorkerOK, ViewOK
<1>2. sync.last # None => sync.last \in Nat
  BY Numbers DEF IInv, TypeOK
<1> QED BY <1>1, <1>2 DEF ViewOK

\* A worker through with its event.
LEMMA NextEventDone ==
  ASSUME IInv, TypeOK', NEW w \in Workers, pc[w] \in AtEvent, NextEvent(w),
         UNCHANGED <<states, sync, view, todo>>, markers \subseteq markers',
         ~Before(Here(Current(w).pool), At(Current(w))),
         \/ Current(w) \in markers'
         \/ ~Before(Here(Current(w).pool), RoundEnd(Current(w).round))
  PROVE  WorkerOK(w)'
<1>1. PICK e : e = Current(w)
  OBVIOUS
<1>2. TypeOK /\ WorkerOK(w) /\ pc[w] \in Projecting
  BY DEF IInv, AtEvent, Projecting
<1>3. pc'[w] = "project" /\ done'[w] = e.pos
  BY <1>1, <1>2 DEF NextEvent, TypeOK
<1>4. Pending(w) # {} /\ e \in Events /\ e \in Pending(w) /\ \A f \in Pending(w) : e.pos <= f.pos
  BY <1>1, <1>2, CurrentEvent DEF WorkerOK, EventOK
<1>5. view[w] # None /\ view[w] \in Nat
  BY <1>2, LoopTracked DEF Projecting, Looping
<1>6. ViewOK(w)'
  BY <1>5, ViewKept
<1>7. ASSUME NEW f \in Events, f.round = view[w] + 1, f.pos <= e.pos
      PROVE  /\ ~Before(Here(f.pool), At(f))
             /\ f \in markers' \/ ~Before(Here(f.pool), RoundEnd(f.round))
  <2>0. todo[w] = Pools /\ done[w] \in Nat
    BY <1>2 DEF WorkerOK, DoneOK, TypeOK
  <2>1. CASE f.pos <= done[w]
    BY <1>2, <1>7, <2>1 DEF WorkerOK, DoneOK
  <2>2. CASE f.pos > done[w]
    <3>1. f \in Pending(w)
      BY <1>7, <2>0, <2>2, EventTypes DEF Pending
    <3>2. f.pos = e.pos /\ f.round = e.round
      <4>1. e.pos <= f.pos
        BY <1>4, <3>1
      <4>2. e.round = view[w] + 1
        BY <1>4 DEF Pending
      <4>3. e.pos \in Nat /\ f.pos \in Nat
        BY <1>4, EventTypes
      <4> QED BY <1>7, <4>1, <4>2, <4>3
    <3>3. f = e
      BY <1>4, <3>2, EventsAssumption DEF At
    <3> QED BY <1>1, <3>3
  <2>3. f.pos \in Nat
    BY EventTypes
  <2> QED BY <2>0, <2>1, <2>2, <2>3
<1>8. DoneOK(w)'
  <2>1. todo[w] = Pools
    BY <1>2 DEF WorkerOK, DoneOK
  <2> QED BY <1>3, <1>7, <2>1 DEF DoneOK, Here
<1>9. ReadOK(w)' /\ EventOK(w)'
  BY <1>3 DEF ReadOK, EventOK, AtEvent
<1> QED BY <1>3, <1>6, <1>8, <1>9, InBlock DEF Projecting

\* A worker that stays with its event, or takes it up.
LEMMA BlockKept ==
  ASSUME IInv, TypeOK', Advances, NEW w \in Workers, pc[w] \in Projecting, pc'[w] \in Projecting,
         sync'.last = sync.last,
         view'[w] = view[w], todo'[w] = todo[w], done'[w] = done[w]
  PROVE  ViewOK(w)' /\ DoneOK(w)' /\ Pending(w)' = Pending(w) /\ Current(w)' = Current(w)
<1>1. TypeOK /\ WorkerOK(w)
  BY DEF IInv
<1>2. view[w] # None /\ view[w] \in Nat /\ AllTracked
  BY LoopTracked DEF Projecting, Looping
<1>3. ViewOK(w)'
  BY <1>2, ViewKept
<1>4. DoneOK(w)'
  <2>1. ASSUME NEW e \in Events, e.round = view[w] + 1, e.pos <= done[w]
        PROVE  /\ ~Before(states'[e.pool].cursor, At(e))
               /\ e \in markers' \/ ~Before(states'[e.pool].cursor, RoundEnd(e.round))
    <3>1. ~Before(Here(e.pool), At(e))
      BY <1>1, <2>1 DEF WorkerOK, DoneOK
    <3>2. e \in markers \/ ~Before(Here(e.pool), RoundEnd(e.round))
      BY <1>1, <2>1 DEF WorkerOK, DoneOK
    <3>3. /\ e.pool \in Pools /\ At(e) \in Cursors /\ RoundEnd(e.round) \in Cursors
      BY EventTypes, Numbers
    <3>4. states[e.pool] # None
      BY <1>2, <3>3 DEF AllTracked
    <3>5. ~Before(states'[e.pool].cursor, At(e))
      BY <1>1, <3>1, <3>3, <3>4, StaysPast
    <3>6. ~Before(Here(e.pool), RoundEnd(e.round)) => ~Before(states'[e.pool].cursor, RoundEnd(e.round))
      BY <1>1, <3>3, <3>4, StaysPast
    <3> QED BY <3>2, <3>5, <3>6 DEF Advances
  <2>2. todo[w] = Pools
    BY <1>1 DEF WorkerOK, DoneOK
  <2> QED BY <2>1, <2>2 DEF DoneOK, Here
<1>5. Pending(w)' = Pending(w) /\ Current(w)' = Current(w)
  BY SameEvent
<1> QED BY <1>3, <1>4, <1>5

-----------------------------------------------------------------------------
(* The steps of the cutover.                                               *)

\* A snapshot of pool p replaces an older state, or the state a pool has not yet.
Snapshot(p, r) ==
  states' = [states EXCEPT ![p] = [cursor |-> RoundEnd(r), balance |-> BalanceAt[p][RoundEnd(r)]]]

LEMMA SnapshotStore ==
  ASSUME IInv, TypeOK', NEW p \in Pools, NEW r \in Rounds, Snapshot(p, r),
         states[p] # None => Before(Here(p), RoundEnd(r)), UNCHANGED <<registered, markers, sync>>
  PROVE  Advances /\ StoreOK'
<1>0. TypeOK /\ StoreOK
  BY DEF IInv
<1>1. RoundEnd(r) \in Cursors /\ BalanceAt[p][RoundEnd(r)] \in Nat /\ RoundEnd(r).pos = End
  BY Numbers, ChainAssumption DEF RoundEnd
<1>2. /\ states'[p] = [cursor |-> RoundEnd(r), balance |-> BalanceAt[p][RoundEnd(r)]]
      /\ \A q \in Pools \ {p} : states'[q] = states[q]
  BY <1>0 DEF Snapshot, TypeOK
<1>3. states'[p] # None /\ states'[p].cursor = RoundEnd(r)
      /\ states'[p].balance = BalanceAt[p][RoundEnd(r)]
  <2>1. states'[p] \in [cursor : Cursors, balance : Nat]
    BY <1>1, <1>2
  <2> QED BY <1>2, <2>1, NamesAssumption
<1>4. Advances
  <2>1. ASSUME NEW q \in Pools, states[q] # None
        PROVE  states'[q] # None /\ ~Before(states'[q].cursor, states[q].cursor)
    <3>1. Here(q) \in Cursors
      BY <1>0, <2>1, StateType
    <3>2. CASE q = p
      BY <1>1, <1>3, <2>1, <3>1, <3>2, Order DEF Here
    <3>3. CASE q # p
      BY <1>2, <2>1, <3>1, <3>3, Order DEF Here
    <3> QED BY <3>2, <3>3
  <2> QED BY <2>1, SyncKept DEF Advances
<1>5. ASSUME NEW q \in Pools PROVE StateOK(q)'
  <2>1. CASE q = p
    BY <1>1, <1>3, <2>1 DEF StateOK, Here, Sane
  <2>2. CASE q # p
    BY <1>0, <1>2, <2>2 DEF StateOK, Here, Sane, AtMostNext, Marked, StoreOK
  <2> QED BY <2>1, <2>2
<1>6. MarkersOK'
  <2>1. ASSUME NEW e \in markers PROVE states'[e.pool] # None /\ ~Before(states'[e.pool].cursor, At(e))
    <3>1. e \in Events /\ states[e.pool] # None /\ ~Before(Here(e.pool), At(e))
      BY <1>0 DEF StoreOK, MarkersOK, TypeOK
    <3>2. e.pool \in Pools /\ At(e) \in Cursors
      BY <3>1, EventTypes
    <3> QED BY <1>0, <1>4, <3>1, <3>2, StaysPast DEF Advances
  <2> QED BY <2>1 DEF MarkersOK, Here
<1>7. CheckpointOK'
  <2>1. ASSUME sync.last # None PROVE AllTracked' /\ Covered(sync.last)'
    <3>1. AllTracked /\ Covered(sync.last)
      BY <1>0, <2>1 DEF StoreOK, CheckpointOK
    <3>2. ASSUME NEW e \in Events, e.round <= sync.last PROVE ~Before(states'[e.pool].cursor, At(e))
      <4>1. e.pool \in Pools /\ At(e) \in Cursors /\ states[e.pool] # None
        BY <3>1, EventTypes DEF AllTracked
      <4> QED BY <1>0, <1>4, <3>1, <3>2, <4>1, StaysPast DEF Covered
    <3> QED BY <1>4, <3>1, <3>2 DEF AllTracked, Advances, Covered, Here
  <2> QED BY <2>1 DEF CheckpointOK
<1> QED BY <1>0, <1>4, <1>5, <1>6, <1>7 DEF StoreOK, ClaimOK

LEMMA QuietCutover ==
  ASSUME IInv, TypeOK', NEW w \in Workers,
         \/ Start(w) \/ ReadPools(w) \/ CreateDone(w) \/ Refresh(w)
         \/ \E p \in Pools : CreateFetch(w, p) \/ SnapshotFetch(w, p) \/ SnapshotFails(w, p)
  PROVE  IInv'
<1>0. TypeOK /\ WorkerOK(w) /\ ViewOK(w) /\ CutoverOK(w)
  BY DEF IInv, WorkerOK
<1>1. CASE Start(w)
  <2>1. pc'[w] = "pools" /\ view'[w] = sync.last /\ sync'.last = sync.last
    BY <1>0, <1>1 DEF Start, TypeOK
  <2>2. WorkerOK(w)'
    BY <2>1, ViewKept, AtRest DEF Looping, Projecting, Snapshots
  <2>3. StoresKept /\ \A u \in Workers \ {w} : Same(u)
    BY <1>0, <1>1 DEF Start, StoresKept, Same, TypeOK
  <2> QED BY <2>2, <2>3, QuietStep
<1>2. CASE ReadPools(w)
  <2>1. pc'[w] = "create" /\ view'[w] = view[w] /\ sync'.last = sync.last /\ todo'[w] = Pools
    BY <1>0, <1>2 DEF ReadPools, TypeOK, IInv, StoreOK
  <2>2. ViewOK(w)' /\ CutoverOK(w)'
    BY <2>1, ViewKept DEF Looping, CutoverOK, Snapshots
  <2>3. WorkerOK(w)'
    BY <2>1, <2>2, InCutover DEF Projecting
  <2>4. StoresKept /\ \A u \in Workers \ {w} : Same(u)
    BY <1>0, <1>2 DEF ReadPools, StoresKept, Same, TypeOK
  <2> QED BY <2>3, <2>4, QuietStep
<1>3. CASE CreateDone(w)
  <2>1. pc'[w] = "snapshot" /\ view'[w] = view[w] /\ sync'.last = sync.last /\ todo'[w] = Tracked
    BY <1>0, <1>3 DEF CreateDone, TypeOK
  <2>2. AllTracked /\ states' = states
    BY <1>0, <1>3 DEF CreateDone, CutoverOK, AllTracked
  <2>3. Tracked = Pools
    BY <2>2 DEF AllTracked, Tracked
  <2>4. ViewOK(w)'
    BY <2>1, ViewKept DEF Looping
  <2>5. CutoverOK(w)'
    BY <2>1, <2>2, <2>3 DEF CutoverOK, AllTracked, Taken
  <2>6. WorkerOK(w)'
    BY <2>1, <2>4, <2>5, InCutover DEF Projecting
  <2>7. StoresKept /\ \A u \in Workers \ {w} : Same(u)
    BY <1>0, <1>3 DEF CreateDone, StoresKept, Same, TypeOK
  <2> QED BY <2>6, <2>7, QuietStep
<1>4. CASE Refresh(w)
  <2>1. /\ pc'[w] = (IF sync.last = view[w] THEN "down" ELSE "claim")
        /\ view'[w] = sync.last /\ sync'.last = sync.last
    BY <1>0, <1>4 DEF Refresh, TypeOK
  <2>2. pc'[w] \in Looping => sync.last # None
    BY <1>0, <2>1 DEF Looping, ViewOK
  <2>3. WorkerOK(w)'
    BY <2>1, <2>2, ViewKept, AtRest DEF Projecting, Snapshots
  <2>4. StoresKept /\ \A u \in Workers \ {w} : Same(u)
    BY <1>0, <1>4 DEF Refresh, StoresKept, Same, TypeOK
  <2> QED BY <2>3, <2>4, QuietStep
<1>5. ASSUME NEW p \in Pools, CreateFetch(w, p) PROVE IInv'
  <2>1. /\ pc[w] = "create" /\ pc'[w] = "insert" /\ view'[w] = view[w] /\ sync'.last = sync.last
        /\ todo'[w] = todo[w] /\ states' = states
    BY <1>0, <1>5 DEF CreateFetch, TypeOK
  <2>2. snap'[w] # None
    <3>1. PICK r \in Rounds : snap' = [snap EXCEPT ![w] = [pool |-> p, round |-> r]]
      BY <1>5 DEF CreateFetch, SeenRounds
    <3>2. [pool |-> p, round |-> r] \in [pool : Pools, round : Rounds]
      OBVIOUS
    <3> QED BY <1>0, <3>1, <3>2, NamesAssumption DEF TypeOK
  <2>3. ViewOK(w)' /\ CutoverOK(w)'
    BY <1>0, <2>1, <2>2, ViewKept DEF Looping, CutoverOK, Snapshots
  <2>4. WorkerOK(w)'
    BY <2>1, <2>3, InCutover DEF Projecting
  <2>5. StoresKept /\ \A u \in Workers \ {w} : Same(u)
    BY <1>0, <1>5 DEF CreateFetch, StoresKept, Same, TypeOK
  <2> QED BY <2>4, <2>5, QuietStep
<1>6. ASSUME NEW p \in Pools, SnapshotFetch(w, p) PROVE IInv'
  <2>1. /\ pc[w] = "snapshot" /\ pc'[w] = "replace" /\ view'[w] = view[w] /\ sync'.last = sync.last
        /\ todo'[w] = todo[w] \ {p} /\ states' = states /\ low'[w] = low[w] /\ p \in todo[w]
    BY <1>0, <1>6 DEF SnapshotFetch, TypeOK
  <2>2. snap'[w] # None /\ snap'[w].pool = p
    <3>1. PICK r \in Rounds : snap' = [snap EXCEPT ![w] = [pool |-> p, round |-> r]]
      BY <1>6 DEF SnapshotFetch, SeenRounds
    <3>2. [pool |-> p, round |-> r] \in [pool : Pools, round : Rounds]
      OBVIOUS
    <3> QED BY <1>0, <3>1, <3>2, NamesAssumption DEF TypeOK
  <2>3. Taken(w)' = Taken(w)
    BY <2>1, <2>2 DEF Taken
  <2>4. ViewOK(w)'
    BY <2>1, ViewKept DEF Looping
  <2>5. CutoverOK(w)'
    BY <1>0, <2>1, <2>2, <2>3 DEF CutoverOK, Snapshots, AllTracked, Here
  <2>6. WorkerOK(w)'
    BY <2>1, <2>4, <2>5, InCutover DEF Projecting
  <2>7. StoresKept /\ \A u \in Workers \ {w} : Same(u)
    BY <1>0, <1>6 DEF SnapshotFetch, StoresKept, Same, TypeOK
  <2> QED BY <2>6, <2>7, QuietStep
<1>7. ASSUME NEW p \in Pools, SnapshotFails(w, p) PROVE IInv'
  <2>1. /\ pc'[w] = "snapshot" /\ pc[w] = "snapshot" /\ view'[w] = view[w] /\ sync'.last = sync.last
        /\ states' = states /\ low'[w] = None
    BY <1>0, <1>7 DEF SnapshotFails, TypeOK
  <2>2. ViewOK(w)' /\ CutoverOK(w)'
    BY <1>0, <2>1, ViewKept DEF Looping, CutoverOK, Snapshots, AllTracked
  <2>3. WorkerOK(w)'
    BY <2>1, <2>2, InCutover DEF Projecting
  <2>4. StoresKept /\ \A u \in Workers \ {w} : Same(u)
    BY <1>0, <1>7 DEF SnapshotFails, StoresKept, Same, TypeOK
  <2> QED BY <2>3, <2>4, QuietStep
<1> QED BY <1>1, <1>2, <1>3, <1>4, <1>5, <1>6, <1>7

LEMMA StoringCutover ==
  ASSUME IInv, TypeOK', NEW w \in Workers, CreateInsert(w) \/ Replace(w)
  PROVE  IInv'
<1>0. TypeOK /\ WorkerOK(w) /\ CutoverOK(w)
  BY DEF IInv, WorkerOK
<1>1. snap[w] # None
  BY <1>0 DEF CutoverOK, CreateInsert, Replace
<1>2. PICK p \in Pools : p = snap[w].pool
  BY <1>0, <1>1, SnapTypes
<1>3. PICK r \in Rounds : r = snap[w].round
  BY <1>0, <1>1, SnapTypes
<1>4. UNCHANGED <<registered, markers, sync>>
  BY DEF CreateInsert, Replace
<1>5. Advances /\ StoreOK'
  <2>1. CASE states' = states
    <3>1. Advances
      BY <1>4, <2>1, KeptAdvances, SyncKept
    <3> QED BY <1>4, <2>1, <3>1 DEF IInv, StoreOK, StateOK, Here, Sane, AtMostNext, Marked, MarkersOK,
                                CheckpointOK, AllTracked, Covered, ClaimOK
  <2>2. CASE states' # states
    <3>1. Snapshot(p, r) /\ (states[p] # None => Before(Here(p), RoundEnd(r)))
      BY <1>2, <1>3, <2>2 DEF CreateInsert, Replace, Snapshot, Here
    <3> QED BY <1>4, <3>1, SnapshotStore
  <2> QED BY <2>1, <2>2
<1>6. \A u \in Workers \ {w} : Same(u)
  BY <1>0 DEF CreateInsert, Replace, Same, TypeOK
<1>7. \A u \in Workers \ {w} : pc[u] = "corrupt" => ~Holds(u)'
  BY <1>4, <1>6, AlarmKept DEF Same, Holds
<1>8. view'[w] = view[w] /\ pc'[w] \in {"create", "snapshot"}
  BY <1>0 DEF CreateInsert, Replace, TypeOK
<1>9. ViewOK(w)'
  BY <1>4, <1>8, ViewKept DEF Looping
<1>10. CutoverOK(w)'
  <2>1. CASE CreateInsert(w)
    <3>1. pc'[w] = "create" /\ todo'[w] = todo[w] \ {p}
      BY <1>0, <1>2, <2>1 DEF CreateInsert, TypeOK
    <3>2. states'[p] # None
      <4>1. CASE states' = states
        BY <1>0, <1>2, <2>1, <4>1, NamesAssumption, SnapTypes, <1>1 DEF CreateInsert, TypeOK
      <4>2. CASE states' # states
        <5>1. states' = [states EXCEPT ![p] = [cursor |-> RoundEnd(r), balance |-> BalanceAt[p][RoundEnd(r)]]]
          BY <1>2, <1>3, <2>1, <4>2 DEF CreateInsert
        <5>2. [cursor |-> RoundEnd(r), balance |-> BalanceAt[p][RoundEnd(r)]] \in
                [cursor : Cursors, balance : Nat]
          BY <1>0, <1>1, <1>2, <1>3, SnapTypes
        <5> QED BY <1>0, <5>1, <5>2, NamesAssumption DEF TypeOK
      <4> QED BY <4>1, <4>2
    <3>3. \A q \in Pools \ todo[w] : states'[q] # None
      BY <1>0, <1>5, <2>1 DEF CutoverOK, CreateInsert, Advances
    <3> QED BY <3>1, <3>2, <3>3 DEF CutoverOK, Snapshots
  <2>2. CASE Replace(w)
    <3>1. pc[w] = "replace" /\ pc'[w] = "snapshot" /\ todo'[w] = todo[w]
      BY <1>0, <2>2 DEF Replace, TypeOK
    <3>2. AllTracked /\ AllTracked'
      BY <1>0, <1>5, <3>1 DEF CutoverOK, Snapshots, AllTracked, Advances
    <3>3. low'[w] # None => /\ low[w] # None
                            /\ low'[w] = Lower(low[w], CompleteThrough(states'[p].cursor))
      BY <1>0, <1>2, <2>2 DEF Replace, TypeOK
    <3>4. Taken(w)' \subseteq Taken(w) \cup {p}
      BY <1>2, <3>1 DEF Taken
    <3>5. ASSUME low'[w] # None, NEW q \in Taken(w)'
          PROVE  low'[w] <= CompleteThrough(states'[q].cursor)
      <4>1. q \in Pools
        BY DEF Taken
      <4>2. /\ Here(q) \in Cursors /\ states'[q].cursor \in Cursors
            /\ ~Before(states'[q].cursor, Here(q))
        BY <1>0, <1>5, <3>2, <4>1, StateType, NextStateType DEF AllTracked, Advances, Here
      <4>3. CompleteThrough(Here(q)) <= CompleteThrough(states'[q].cursor)
        BY <4>2, Order
      <4>4. CompleteThrough(Here(q)) \in Int /\ CompleteThrough(states'[q].cursor) \in Int
        BY <4>2, Numbers DEF CompleteThrough
      <4>5. low[w] \in Nat
        BY <1>0, <3>3, <3>5, Numbers DEF TypeOK
      <4>6. CASE q = p
        <5>1. low'[w] = Lower(low[w], CompleteThrough(states'[q].cursor))
          BY <3>3, <3>5, <4>6
        <5> QED BY <4>4, <4>5, <5>1 DEF Lower
      <4>7. CASE q # p
        <5>1. q \in Taken(w)
          BY <3>4, <4>7
        <5>2. low[w] <= CompleteThrough(Here(q))
          BY <1>0, <3>1, <3>3, <3>5, <5>1 DEF CutoverOK, Snapshots
        <5>3. states'[p].cursor \in Cursors
          BY <3>2, NextStateType DEF AllTracked
        <5>4. CompleteThrough(states'[p].cursor) \in Int
          BY <5>3, Numbers DEF CompleteThrough
        <5>5. low'[w] <= low[w] /\ low'[w] \in Int
          BY <3>3, <3>5, <4>5, <5>4 DEF Lower
        <5> QED BY <4>3, <4>4, <4>5, <5>2, <5>5
      <4> QED BY <4>6, <4>7
    <3> QED BY <3>1, <3>2, <3>5 DEF CutoverOK, Here
  <2> QED BY <2>1, <2>2
<1>11. WorkerOK(w)'
  BY <1>8, <1>9, <1>10, InCutover DEF Projecting
<1> QED BY <1>5, <1>6, <1>7, <1>11, OthersKept

\* The checkpoint moves to what the ledgers cover, and takes the claim away.
LEMMA CheckpointStore ==
  ASSUME IInv, TypeOK', NEW r \in Rounds, sync' = SyncDoc(r, NoClaim),
         UNCHANGED <<registered, states, markers>>, AllTracked, Covered(r),
         sync.last # None => r >= sync.last
  PROVE  /\ Advances /\ StoreOK'
         /\ \A u \in Workers : ~Holds(u)'
<1>0. TypeOK /\ StoreOK
  BY DEF IInv
<1>1. sync'.last = r /\ sync'.last # None /\ sync'.claimed = None /\ sync'.owner = None
  BY NamesAssumption, Numbers DEF SyncDoc, NoClaim
<1>2. Advances
  BY <1>1, KeptAdvances
<1>3. ASSUME NEW p \in Pools PROVE StateOK(p)'
  <2>1. ASSUME states[p] # None
        PROVE  states[p].balance = BalanceAt[p][Here(p)] /\ Sane(p, Here(p)) /\ Here(p) \in Cursors
    BY <1>0, <2>1, StateType DEF StoreOK, StateOK
  <2>2. PICK c : c = Here(p)
    OBVIOUS
  <2>3. states[p] # None => Sane(p, c)'
    BY <1>0, <1>2, <2>1, <2>2, SaneKept
  <2>4. Here(p)' = c
    BY <2>2 DEF Here
  <2>5. Sane(p, Here(p))' <=> Sane(p, c)'
    BY <2>4 DEF Sane, AtMostNext, Marked
  <2> QED BY <2>1, <2>3, <2>4, <2>2, <2>5 DEF StateOK
<1>4. MarkersOK' /\ CheckpointOK' /\ ClaimOK'
  BY <1>0, <1>1 DEF StoreOK, MarkersOK, CheckpointOK, ClaimOK, AllTracked, Covered, Here
<1> QED BY <1>0, <1>1, <1>2, <1>3, <1>4, NamesAssumption DEF StoreOK, Holds

LEMMA AdvanceStep ==
  ASSUME IInv, TypeOK', NEW w \in Workers, AdvanceSnapshot(w)
  PROVE  IInv'
<1>0. TypeOK /\ WorkerOK(w) /\ CutoverOK(w) /\ ViewOK(w)
  BY DEF IInv, WorkerOK
<1>1. \A u \in Workers \ {w} : Same(u)
  BY <1>0 DEF AdvanceSnapshot, Same, TypeOK
<1>2. CASE low[w] # None /\ MayAdvance(w)
  <2>1. /\ sync' = SyncDoc(low[w], NoClaim) /\ view'[w] = low[w] /\ pc'[w] = "claim"
        /\ UNCHANGED <<registered, states, markers>> /\ low[w] \in Rounds
    BY <1>0, <1>2 DEF AdvanceSnapshot, TypeOK
  <2>2. AllTracked /\ \A p \in Pools : low[w] <= CompleteThrough(Here(p))
    BY <1>0, <1>2 DEF AdvanceSnapshot, CutoverOK, Snapshots, Taken
  <2>3. Covered(low[w])
    <3>1. ASSUME NEW e \in Events, e.round <= low[w] PROVE ~Before(Here(e.pool), At(e))
      <4>1. /\ e.pool \in Pools /\ e.round \in Nat /\ Here(e.pool) \in Cursors
            /\ low[w] <= CompleteThrough(Here(e.pool))
        BY <1>0, <2>2, EventTypes, StateType DEF AllTracked
      <4>2. CompleteThrough(Here(e.pool)) \in Int /\ low[w] \in Nat
        BY <2>1, <4>1, Numbers DEF CompleteThrough
      <4>3. e.round <= CompleteThrough(Here(e.pool))
        BY <3>1, <4>1, <4>2
      <4> QED BY <4>1, <4>3, CompleteThroughCovers
    <3> QED BY <3>1 DEF Covered
  <2>4. sync.last # None => low[w] >= sync.last
    BY <1>2 DEF MayAdvance
  <2>5. Advances /\ StoreOK' /\ \A u \in Workers : ~Holds(u)'
    BY <2>1, <2>2, <2>3, <2>4, CheckpointStore
  <2>6. sync'.last = low[w] /\ low[w] \in Nat /\ low[w] # None
    BY <1>2, <2>1, Numbers DEF SyncDoc
  <2>7. ViewOK(w)'
    BY <2>1, <2>6 DEF ViewOK
  <2>8. WorkerOK(w)'
    BY <2>1, <2>7, AtRest DEF Projecting, Snapshots
  <2> QED BY <1>1, <2>5, <2>8, OthersKept
<1>3. CASE ~(low[w] # None /\ MayAdvance(w))
  <2>1. pc'[w] \in {"down", "refresh"} /\ view' = view /\ StoresKept
    BY <1>0, <1>3 DEF AdvanceSnapshot, StoresKept, TypeOK
  <2>2. ViewOK(w)'
    BY <2>1, ViewKept DEF Looping, StoresKept
  <2>3. WorkerOK(w)'
    BY <2>1, <2>2, AtRest DEF Projecting, Snapshots
  <2> QED BY <1>1, <2>1, <2>3, QuietStep
<1> QED BY <1>2, <1>3

-----------------------------------------------------------------------------
(* The steps of the block loop.                                            *)

LEMMA ClaimStep ==
  ASSUME IInv, TypeOK', NEW w \in Workers, Claim(w)
  PROVE  IInv'
<1>0. TypeOK /\ StoreOK
  BY DEF IInv
<1>1. \A u \in Workers \ {w} : Same(u)
  BY <1>0 DEF Claim, Same, TypeOK
<1>2. /\ view[w] # None /\ view[w] \in Nat /\ sync.last # None /\ sync.last \in Nat
      /\ pc[w] = "claim"
  BY LoopTracked DEF Claim, Looping
<1>3. CASE MayClaim(w)
  <2>1. /\ sync' = SyncDoc(sync.last, [claimed |-> view[w] + 1, owner |-> w, live |-> TRUE])
        /\ pc'[w] = "load" /\ view' = view /\ UNCHANGED <<registered, states, markers>>
        /\ sync.last = view[w]
    BY <1>0, <1>3 DEF Claim, TypeOK, MayClaim
  <2>2. sync'.last = sync.last /\ sync'.claimed = sync.last + 1 /\ sync'.owner = w
    BY <2>1 DEF SyncDoc
  <2>3. Advances
    BY <1>2, <2>1, <2>2, KeptAdvances
  <2>4. StoreOK'
    BY <1>0, <1>2, <2>1, <2>2 DEF StoreOK, StateOK, Here, Sane, AtMostNext, Marked, MarkersOK,
       CheckpointOK, AllTracked, Covered, ClaimOK
  <2>5. \A u \in Workers \ {w} : ~Holds(u)'
    BY <2>2 DEF Holds
  <2>6. ViewOK(w)'
    BY <1>2, <2>1, <2>2, ViewKept
  <2>7. WorkerOK(w)'
    BY <2>1, <2>6, AtRest DEF Projecting, Snapshots
  <2> QED BY <1>1, <2>3, <2>4, <2>5, <2>7, OthersKept
<1>4. CASE ~MayClaim(w)
  <2>1. pc'[w] = "claim" /\ view'[w] = sync.last /\ StoresKept
    BY <1>0, <1>2, <1>4 DEF Claim, StoresKept, TypeOK
  <2>2. ViewOK(w)'
    BY <1>2, <2>1, ViewKept DEF StoresKept
  <2>3. WorkerOK(w)'
    BY <2>1, <2>2, AtRest DEF Projecting, Snapshots
  <2> QED BY <1>1, <2>1, <2>3, QuietStep
<1> QED BY <1>3, <1>4

LEMMA LoadStep ==
  ASSUME IInv, TypeOK', NEW w \in Workers, LoadTracked(w)
  PROVE  IInv'
<1>0. TypeOK /\ StoreOK
  BY DEF IInv
<1>1. /\ AllTracked /\ view[w] # None /\ view'[w] = view[w] /\ pc'[w] = "project"
      /\ todo'[w] = Tracked /\ done'[w] = 0 /\ StoresKept
  BY <1>0, LoopTracked DEF LoadTracked, Looping, TypeOK, StoresKept
<1>2. Tracked = Pools
  BY <1>1 DEF AllTracked, Tracked
<1>3. \A e \in Events : ~(e.pos <= 0)
  BY EventTypes
<1>4. DoneOK(w)'
  BY <1>1, <1>2, <1>3 DEF DoneOK
<1>5. ViewOK(w)'
  BY <1>1, ViewKept DEF StoresKept
<1>6. WorkerOK(w)'
  BY <1>1, <1>4, <1>5, InBlock DEF Projecting, ReadOK, EventOK, AtEvent
<1>7. \A u \in Workers \ {w} : Same(u)
  BY <1>0 DEF LoadTracked, Same, TypeOK
<1> QED BY <1>1, <1>6, <1>7, QuietStep

LEMMA ReadStep ==
  ASSUME IInv, TypeOK', NEW w \in Workers, ReadState(w)
  PROVE  IInv'
<1>0. TypeOK /\ StoreOK
  BY DEF IInv
<1>1. /\ pc[w] = "project" /\ pc'[w] = "lookup" /\ view'[w] = view[w] /\ todo'[w] = todo[w]
      /\ done'[w] = done[w] /\ StoresKept /\ Pending(w) # {}
      /\ cursor'[w] = Here(Current(w).pool)
  BY <1>0 DEF ReadState, TypeOK, StoresKept, Here
<1>2. Advances
  BY <1>1, KeptAdvances, SyncKept DEF StoresKept
<1>3. ViewOK(w)' /\ DoneOK(w)' /\ Pending(w)' = Pending(w) /\ Current(w)' = Current(w)
  BY <1>1, <1>2, BlockKept DEF Projecting, StoresKept
<1>4. PICK q : q = Current(w).pool
  OBVIOUS
<1>5. q \in Pools /\ states[q] # None
  BY <1>1, <1>4, CurrentEvent, EventTypes, LoopTracked DEF AllTracked, Looping
<1>6. PICK c : c = Here(q)
  OBVIOUS
<1>7. c \in Cursors /\ c # None /\ Sane(q, c) /\ ~Before(Here(q), c)
  BY <1>0, <1>5, <1>6, StateType, Order, NamesAssumption DEF StoreOK, StateOK
<1>8. ReadOK(w)'
  <2>1. Current(w)'.pool = q /\ cursor'[w] = c /\ Here(q)' = c
    BY <1>1, <1>3, <1>4, <1>6 DEF Here, StoresKept
  <2>2. Sane(q, c)'
    BY <1>0, <1>2, <1>5, <1>7, SaneKept
  <2>3. Sane(Current(w).pool, cursor[w])'
    BY <2>1, <2>2 DEF Sane, Marked, AtMostNext
  <2>4. ~Before(states'[q].cursor, c)
    BY <1>6, <1>7, <1>1 DEF StoresKept, Here
  <2> QED BY <1>7, <2>1, <2>3, <2>4 DEF ReadOK, Here
<1>9. EventOK(w)'
  BY <1>1, <1>3 DEF EventOK
<1>10. WorkerOK(w)'
  BY <1>1, <1>3, <1>8, <1>9, InBlock DEF Projecting
<1>11. \A u \in Workers \ {w} : Same(u)
  BY <1>0 DEF ReadState, Same, TypeOK
<1> QED BY <1>1, <1>10, <1>11, QuietStep

\* A worker that goes on with its event, the stores as they were.
LEMMA GoesOn ==
  ASSUME IInv, TypeOK', NEW w \in Workers, pc[w] \in {"lookup", "reread", "apply"},
         StoresKept, UNCHANGED <<view, todo, done, cursor>>,
         \/ pc'[w] = "project"
         \/ pc'[w] = "reread" /\ pc[w] = "lookup" /\ Current(w) \in markers
         \/ pc'[w] = "apply" /\ pc[w] = "lookup" /\ Before(cursor[w], At(Current(w)))
         \/ pc'[w] = "record" /\ ~Before(Here(Current(w).pool), At(Current(w)))
         \/ pc'[w] = "corrupt" /\ ~Holds(w)
  PROVE  WorkerOK(w)'
<1>0. TypeOK /\ WorkerOK(w)
  BY DEF IInv
<1>1. Advances
  BY KeptAdvances, SyncKept DEF StoresKept
<1>2. ViewOK(w)' /\ DoneOK(w)' /\ Pending(w)' = Pending(w) /\ Current(w)' = Current(w)
  BY <1>1, BlockKept DEF Projecting, StoresKept
<1>3. PICK e : e = Current(w)
  OBVIOUS
<1>4. PICK c : c = cursor[w]
  OBVIOUS
<1>5. Current(w)' = e /\ cursor'[w] = c /\ states' = states /\ markers' = markers /\ Pending(w) # {}
  BY <1>0, <1>2, <1>3, <1>4 DEF StoresKept, WorkerOK, EventOK, AtEvent
<1>6. c # None /\ ~Before(Here(e.pool), c) /\ Sane(e.pool, c)
  BY <1>0, <1>3, <1>4 DEF WorkerOK, ReadOK
<1>7. ReadOK(w)'
  <2>1. Sane(Current(w).pool, cursor[w])' <=> Sane(e.pool, c)
    BY <1>5 DEF Sane, Marked, AtMostNext, StoresKept
  <2> QED BY <1>5, <1>6, <2>1 DEF ReadOK, Here
<1>8. EventOK(w)'
  <2>1. Holds(w)' <=> Holds(w)
    BY DEF Holds, StoresKept
  <2> QED BY <1>2, <1>3, <1>4, <1>5, <2>1 DEF EventOK, Here
<1> QED BY <1>2, <1>7, <1>8, InBlock DEF Projecting

LEMMA LookupStep ==
  ASSUME IInv, TypeOK', NEW w \in Workers, Lookup(w)
  PROVE  IInv'
<1>0. TypeOK /\ WorkerOK(w) /\ StoreOK
  BY DEF IInv
<1>1. pc[w] = "lookup" /\ StoresKept /\ UNCHANGED <<view, todo>>
  BY DEF Lookup, StoresKept
<1>2. PICK e \in Events : e = Current(w) /\ e \in Pending(w)
  BY <1>0, <1>1, CurrentEvent DEF WorkerOK, EventOK, AtEvent
<1>3. PICK c : c = cursor[w]
  OBVIOUS
<1>4. c # None /\ ~Before(Here(e.pool), c) /\ Sane(e.pool, c) /\ c \in Cursors
  BY <1>0, <1>1, <1>2, <1>3 DEF WorkerOK, ReadOK, TypeOK
<1>5. /\ e.pool \in Pools /\ At(e) \in Cursors /\ At(e).round = e.round /\ At(e).pos = e.pos
      /\ e.round \in Rounds /\ e.round \in Nat /\ e.pos \in Nat /\ RoundEnd(e.round) \in Cursors
  BY EventTypes, Numbers
<1>6. states[e.pool] # None /\ Here(e.pool) \in Cursors
  BY <1>0, <1>1, <1>5, LoopTracked, StateType DEF Looping, AllTracked
<1>7. e.round = view[w] + 1
  BY <1>2 DEF Pending
<1>8. /\ view[w] # None /\ view[w] \in Nat /\ sync.last # None /\ sync.last \in Nat
      /\ view[w] <= sync.last
  BY <1>1, LoopTracked DEF Looping
<1>9. \A u \in Workers \ {w} : Same(u)
  BY <1>0 DEF Lookup, GoTo, NextEvent, Same, TypeOK
<1>10. CASE e \in markers /\ Before(c, At(e))
  <2>1. GoTo(w, "reread")
    BY <1>2, <1>3, <1>10 DEF Lookup
  <2>2. pc'[w] = "reread" /\ UNCHANGED <<done, cursor>>
    BY <1>0, <2>1 DEF GoTo, TypeOK
  <2>3. WorkerOK(w)'
    BY <1>1, <1>2, <1>10, <2>2, GoesOn
  <2> QED BY <1>1, <1>9, <2>3, QuietStep
<1>11. CASE e \in markers /\ ~Before(c, At(e))
  <2>1. NextEvent(w)
    BY <1>2, <1>3, <1>11 DEF Lookup
  <2>2. ~Before(Here(e.pool), At(e))
    BY <1>0, <1>11 DEF StoreOK, MarkersOK
  <2>3. WorkerOK(w)'
    BY <1>1, <1>2, <1>11, <2>1, <2>2, NextEventDone DEF StoresKept, AtEvent
  <2> QED BY <1>1, <1>9, <2>3, QuietStep
<1>12. CASE e \notin markers /\ c = At(e)
  <2>1. GoTo(w, "record")
    BY <1>2, <1>3, <1>12 DEF Lookup
  <2>2. pc'[w] = "record" /\ UNCHANGED <<done, cursor>>
    BY <1>0, <2>1 DEF GoTo, TypeOK
  <2>3. WorkerOK(w)'
    BY <1>1, <1>2, <1>4, <1>12, <2>2, GoesOn
  <2> QED BY <1>1, <1>9, <2>3, QuietStep
<1>13. CASE e \notin markers /\ c # At(e) /\ Before(c, At(e))
  <2>1. GoTo(w, "apply")
    BY <1>2, <1>3, <1>13 DEF Lookup
  <2>2. pc'[w] = "apply" /\ UNCHANGED <<done, cursor>>
    BY <1>0, <2>1 DEF GoTo, TypeOK
  <2>3. WorkerOK(w)'
    BY <1>1, <1>2, <1>3, <1>13, <2>2, GoesOn
  <2> QED BY <1>1, <1>9, <2>3, QuietStep
<1>14. CASE e \notin markers /\ c # At(e) /\ ~Before(c, At(e)) /\ SnapshotCovers(c, e)
  <2>1. NextEvent(w)
    BY <1>2, <1>3, <1>14 DEF Lookup
  <2>2. ~Before(c, RoundEnd(e.round)) /\ ~Before(c, At(e))
    BY <1>4, <1>5, <1>14, Numbers DEF SnapshotCovers, Before, RoundEnd
  <2>3. ~Before(Here(e.pool), RoundEnd(e.round)) /\ ~Before(Here(e.pool), At(e))
    BY <1>4, <1>5, <1>6, <2>2, Order
  <2>4. WorkerOK(w)'
    BY <1>1, <1>2, <2>1, <2>3, NextEventDone DEF StoresKept, AtEvent
  <2> QED BY <1>1, <1>9, <2>4, QuietStep
<1>15. CASE e \notin markers /\ c # At(e) /\ ~Before(c, At(e)) /\ ~SnapshotCovers(c, e)
  <2>1. GoTo(w, "corrupt")
    BY <1>2, <1>3, <1>15 DEF Lookup
  <2>2. pc'[w] = "corrupt" /\ UNCHANGED <<done, cursor>>
    BY <1>0, <2>1 DEF GoTo, TypeOK
  <2>3. ~Holds(w)
    <3>1. SUFFICES ASSUME Holds(w) PROVE FALSE
      OBVIOUS
    <3>2. sync.claimed = view[w] + 1
      BY <3>1 DEF Holds
    <3>3. sync.claimed = sync.last + 1
      BY <1>0, <1>8, <3>2, NamesAssumption DEF StoreOK, ClaimOK
    <3>4. view[w] = sync.last
      BY <1>8, <3>2, <3>3
    <3>5. c.round \in Nat /\ c.pos \in Nat /\ c.pos <= End
      BY <1>4, Numbers
    <3>6. Before(At(e), c)
      BY <1>4, <1>5, <1>15, Order
    <3>7. c.pos # End
      BY <1>5, <1>15, <3>5, <3>6 DEF SnapshotCovers, Before
    <3>8. c.round <= sync.last + 1 /\ Marked(e.pool, c)
      BY <1>4, <3>7 DEF Sane, AtMostNext
    <3>9. c.round = e.round /\ e.pos < c.pos
      BY <1>5, <1>7, <1>8, <3>4, <3>5, <3>6, <3>8 DEF Before
    <3> QED BY <1>15, <3>8, <3>9 DEF Marked
  <2>4. WorkerOK(w)'
    BY <1>1, <2>2, <2>3, GoesOn
  <2> QED BY <1>1, <1>9, <2>4, QuietStep
<1> QED BY <1>10, <1>11, <1>12, <1>13, <1>14, <1>15

LEMMA RereadStep ==
  ASSUME IInv, TypeOK', NEW w \in Workers, Reread(w)
  PROVE  IInv'
<1>0. TypeOK /\ WorkerOK(w) /\ StoreOK
  BY DEF IInv
<1>1. pc[w] = "reread" /\ StoresKept /\ UNCHANGED <<view, todo>>
  BY DEF Reread, StoresKept
<1>2. Current(w) \in markers
  BY <1>0, <1>1 DEF WorkerOK, EventOK
<1>3. ~Before(Here(Current(w).pool), At(Current(w)))
  BY <1>0, <1>2 DEF StoreOK, MarkersOK
<1>4. NextEvent(w)
  BY <1>3 DEF Reread, Behind, Here
<1>5. WorkerOK(w)'
  BY <1>1, <1>2, <1>3, <1>4, NextEventDone DEF StoresKept, AtEvent
<1>6. \A u \in Workers \ {w} : Same(u)
  BY <1>0 DEF Reread, GoTo, NextEvent, Same, TypeOK
<1> QED BY <1>1, <1>5, <1>6, QuietStep

\* The events of the block before the current one are behind a state that is not past it, and recorded.
LEMMA BeforeCurrent ==
  ASSUME IInv, NEW w \in Workers, pc[w] \in AtEvent, NEW f \in Events,
         f.pool = Current(w).pool, Before(At(f), At(Current(w)))
  PROVE  /\ ~Before(Here(f.pool), At(f))
         /\ f.round = Current(w).round =>
              f \in markers \/ ~Before(Here(f.pool), RoundEnd(f.round))
<1>0. TypeOK /\ WorkerOK(w) /\ DoneOK(w) /\ pc[w] \in Projecting
  BY DEF IInv, WorkerOK, AtEvent, Projecting
<1>1. PICK e \in Events : /\ e = Current(w) /\ e \in Pending(w)
                          /\ \A g \in Pending(w) : e.pos <= g.pos
  BY <1>0, CurrentEvent DEF WorkerOK, EventOK
<1>2. /\ view[w] \in Nat /\ sync.last \in Nat /\ view[w] <= sync.last /\ Covered(sync.last)
  BY <1>0, LoopTracked DEF Projecting, Looping
<1>3. /\ e.round = view[w] + 1 /\ e.pos \in Nat
      /\ f.pos \in Nat /\ f.round \in Nat /\ done[w] \in Nat /\ todo[w] = Pools
  BY <1>0, <1>1, EventTypes DEF Pending, TypeOK, DoneOK
<1>4. f.round < e.round \/ (f.round = e.round /\ f.pos < e.pos)
  BY <1>1, EventTypes DEF Before
<1>5. CASE f.round < e.round
  <2>1. f.round <= sync.last /\ f.round # e.round
    BY <1>2, <1>3, <1>5
  <2> QED BY <1>1, <1>2, <2>1 DEF Covered
<1>6. CASE f.round = e.round /\ f.pos < e.pos
  <2>1. f.pos <= done[w]
    <3>1. SUFFICES ASSUME f.pos > done[w] PROVE FALSE
      BY <1>3
    <3>2. f \in Pending(w)
      BY <1>3, <1>6, <3>1, EventTypes DEF Pending
    <3>3. e.pos <= f.pos
      BY <1>1, <3>2
    <3> QED BY <1>3, <1>6, <3>3
  <2> QED BY <1>0, <1>3, <1>6, <2>1 DEF DoneOK
<1> QED BY <1>4, <1>5, <1>6

LEMMA ApplyStep ==
  ASSUME IInv, TypeOK', NEW w \in Workers, Apply(w)
  PROVE  IInv'
<1>0. TypeOK /\ WorkerOK(w) /\ StoreOK
  BY DEF IInv
<1>1. pc[w] = "apply" /\ UNCHANGED <<registered, markers, sync, view, todo, done, cursor>>
  BY DEF Apply, GoTo
<1>2. PICK e \in Events : e = Current(w) /\ e \in Pending(w)
  BY <1>0, <1>1, CurrentEvent DEF WorkerOK, EventOK, AtEvent
<1>3. PICK c : c = cursor[w]
  OBVIOUS
<1>4. /\ c # None /\ ~Before(Here(e.pool), c) /\ Sane(e.pool, c) /\ c \in Cursors
      /\ Before(c, At(e))
  BY <1>0, <1>1, <1>2, <1>3 DEF WorkerOK, ReadOK, EventOK, TypeOK
<1>5. /\ e.pool \in Pools /\ At(e) \in Cursors /\ At(e).round = e.round /\ At(e).pos = e.pos
      /\ e.round \in Nat /\ e.round >= 1 /\ e.pos \in Nat /\ e.pos < End /\ RoundEnd(e.round) \in Cursors
      /\ RoundEnd(e.round).round = e.round /\ RoundEnd(e.round).pos = End
  BY EventTypes, Numbers DEF RoundEnd
<1>6. AllTracked /\ states[e.pool] # None /\ Here(e.pool) \in Cursors
  BY <1>0, <1>1, <1>5, LoopTracked, StateType DEF Looping, AllTracked
<1>7. e.round = view[w] + 1
  BY <1>2 DEF Pending
<1>8. /\ view[w] # None /\ view[w] \in Nat /\ sync.last # None /\ sync.last \in Nat
      /\ view[w] <= sync.last /\ Covered(sync.last)
  BY <1>1, LoopTracked DEF Looping
<1>9. \A u \in Workers \ {w} : Same(u)
  BY <1>0 DEF Apply, GoTo, Same, TypeOK
<1>10. CASE ~Matches(w)
  <2>1. states' = states /\ pc'[w] = "project"
    BY <1>0, <1>10 DEF Apply, GoTo, TypeOK
  <2>2. StoresKept
    BY <1>1, <2>1 DEF StoresKept
  <2>3. WorkerOK(w)'
    BY <1>1, <2>1, <2>2, GoesOn
  <2> QED BY <1>9, <2>2, <2>3, QuietStep
<1>11. CASE Matches(w)
  <2>1. Here(e.pool) = c
    BY <1>2, <1>3, <1>11 DEF Matches, Here
  <2>2. ASSUME NEW f \in Events, f.pool = e.pool, Before(At(f), At(e))
        PROVE  ~Before(c, At(f)) /\ (f.round = e.round => f \in markers)
    <3>1. /\ ~Before(Here(f.pool), At(f))
          /\ f.round = e.round => f \in markers \/ ~Before(Here(f.pool), RoundEnd(f.round))
      BY <1>1, <1>2, <2>2, BeforeCurrent DEF AtEvent
    <3>2. Before(c, RoundEnd(e.round))
      BY <1>4, <1>5, Numbers DEF Before
    <3> QED BY <2>1, <2>2, <3>1, <3>2
  <2>3. BalanceAt[e.pool][At(e)] = BalanceAt[e.pool][c] + e.delta
    <3>1. \A f \in Events : f.pool = e.pool => ~(Before(c, At(f)) /\ Before(At(f), At(e)))
      BY <2>2
    <3> QED BY <1>4, <3>1, ChainAssumption
  <2>4. states[e.pool].balance + e.delta = BalanceAt[e.pool][At(e)]
    BY <1>0, <1>5, <1>6, <2>1, <2>3 DEF StoreOK, StateOK
  <2>5. BalanceAt[e.pool][At(e)] \in Nat
    BY <1>5, ChainAssumption
  <2>6. states' = [states EXCEPT ![e.pool] = [cursor |-> At(e), balance |-> BalanceAt[e.pool][At(e)]]]
        /\ pc'[w] = "record"
    <3>1. states[e.pool].balance + e.delta >= 0
      BY <2>4, <2>5
    <3>2. states' = [states EXCEPT ![e.pool] = Applied(states[e.pool], e)] /\ GoTo(w, "record")
      BY <1>2, <1>11, <3>1 DEF Apply
    <3>3. Applied(states[e.pool], e) = [cursor |-> At(e), balance |-> BalanceAt[e.pool][At(e)]]
      BY <2>4 DEF Applied
    <3> QED BY <1>0, <3>2, <3>3 DEF GoTo, TypeOK
  <2>7. /\ states'[e.pool] # None /\ states'[e.pool].cursor = At(e)
        /\ states'[e.pool].balance = BalanceAt[e.pool][At(e)]
        /\ \A q \in Pools \ {e.pool} : states'[q] = states[q]
    <3>1. [cursor |-> At(e), balance |-> BalanceAt[e.pool][At(e)]] \in [cursor : Cursors, balance : Nat]
      BY <1>5, <2>5
    <3>2. states'[e.pool] = [cursor |-> At(e), balance |-> BalanceAt[e.pool][At(e)]]
          /\ \A q \in Pools \ {e.pool} : states'[q] = states[q]
      BY <1>0, <1>5, <2>6 DEF TypeOK
    <3> QED BY <3>1, <3>2, NamesAssumption
  <2>8. Advances
    <3>1. ASSUME NEW q \in Pools, states[q] # None
          PROVE  states'[q] # None /\ ~Before(states'[q].cursor, states[q].cursor)
      <4>1. Here(q) \in Cursors
        BY <1>0, <3>1, StateType
      <4>2. CASE q = e.pool
        BY <1>4, <1>5, <2>1, <2>7, <4>2, Order DEF Here
      <4>3. CASE q # e.pool
        BY <2>7, <3>1, <4>1, <4>3, Order DEF Here
      <4> QED BY <4>2, <4>3
    <3> QED BY <1>1, <3>1, SyncKept DEF Advances
  <2>9. StoreOK'
    <3>1. Sane(e.pool, At(e))'
      <4>1. AtMostNext(At(e))'
        BY <1>1, <1>5, <1>7, <1>8 DEF AtMostNext
      <4>2. Marked(e.pool, At(e))'
        <5>1. ASSUME NEW f \in Events, f.pool = e.pool, f.round = e.round, f.pos < e.pos
              PROVE  f \in markers
          <6>1. Before(At(f), At(e))
            BY <1>5, <5>1, EventTypes DEF Before
          <6> QED BY <2>2, <5>1, <6>1
        <5> QED BY <1>1, <1>5, <5>1 DEF Marked
      <4> QED BY <1>5, <4>1, <4>2 DEF Sane
    <3>2. ASSUME NEW q \in Pools PROVE StateOK(q)'
      <4>1. CASE q = e.pool
        <5>1. Here(q)' = At(e)
          BY <2>7, <4>1 DEF Here
        <5>2. Sane(q, Here(q))' <=> Sane(e.pool, At(e))'
          BY <4>1, <5>1 DEF Sane, Marked, AtMostNext
        <5> QED BY <2>7, <3>1, <4>1, <5>1, <5>2 DEF StateOK
      <4>2. CASE q # e.pool
        BY <1>0, <1>1, <2>7, <4>2 DEF StateOK, Here, Sane, AtMostNext, Marked, StoreOK
      <4> QED BY <4>1, <4>2
    <3>3. MarkersOK'
      <4>1. ASSUME NEW f \in markers PROVE states'[f.pool] # None /\ ~Before(states'[f.pool].cursor, At(f))
        <5>1. f \in Events /\ states[f.pool] # None /\ ~Before(Here(f.pool), At(f))
          BY <1>0 DEF StoreOK, MarkersOK, TypeOK
        <5>2. f.pool \in Pools /\ At(f) \in Cursors
          BY <5>1, EventTypes
        <5> QED BY <1>0, <2>8, <5>1, <5>2, StaysPast DEF Advances
      <4> QED BY <1>1, <4>1 DEF MarkersOK, Here
    <3>4. CheckpointOK'
      <4>1. ASSUME NEW f \in Events, f.round <= sync.last PROVE ~Before(states'[f.pool].cursor, At(f))
        <5>1. f.pool \in Pools /\ At(f) \in Cursors /\ states[f.pool] # None
          BY <1>6, EventTypes DEF AllTracked
        <5> QED BY <1>0, <1>8, <2>8, <4>1, <5>1, StaysPast DEF Covered
      <4>2. AllTracked'
        BY <1>6, <2>8 DEF AllTracked, Advances
      <4> QED BY <1>1, <4>1, <4>2 DEF CheckpointOK, Covered, Here
    <3> QED BY <1>0, <1>1, <3>2, <3>3, <3>4 DEF StoreOK, ClaimOK
  <2>10. WorkerOK(w)'
    <3>1. ViewOK(w)' /\ DoneOK(w)' /\ Pending(w)' = Pending(w) /\ Current(w)' = Current(w)
      BY <1>1, <2>6, <2>8, BlockKept DEF Projecting
    <3>2. ReadOK(w)'
      BY <2>6 DEF ReadOK
    <3>3. EventOK(w)'
      <4>1. ~Before(At(e), At(e))
        BY <1>5, Order
      <4>2. Current(w)' = e /\ Pending(w)' # {}
        BY <1>2, <3>1
      <4> QED BY <2>6, <2>7, <4>1, <4>2 DEF EventOK, Here
    <3> QED BY <2>6, <3>1, <3>2, <3>3, InBlock DEF Projecting
  <2>11. \A u \in Workers \ {w} : pc[u] = "corrupt" => ~Holds(u)'
    BY <1>1, <1>9, AlarmKept DEF Same, Holds
  <2> QED BY <1>9, <2>8, <2>9, <2>10, <2>11, OthersKept
<1> QED BY <1>10, <1>11

LEMMA RecordStep ==
  ASSUME IInv, TypeOK', NEW w \in Workers, Record(w)
  PROVE  IInv'
<1>0. TypeOK /\ WorkerOK(w) /\ StoreOK
  BY DEF IInv
<1>1. /\ pc[w] = "record" /\ UNCHANGED <<registered, states, sync, view, todo>>
      /\ markers' = markers \cup {Current(w)} /\ NextEvent(w)
  BY DEF Record
<1>2. ~Before(Here(Current(w).pool), At(Current(w)))
  BY <1>0, <1>1 DEF WorkerOK, EventOK
<1>3. states[Current(w).pool] # None
  BY <1>1, LoopTracked, CurrentPos DEF Looping, AllTracked, AtEvent
<1>4. WorkerOK(w)'
  BY <1>1, <1>2, NextEventDone DEF AtEvent
<1>5. Advances
  BY <1>1, KeptAdvances, SyncKept
<1>6. StoreOK'
  <2>1. \A p \in Pools : StateOK(p)'
    BY <1>0, <1>1 DEF StoreOK, StateOK, Here, Sane, AtMostNext, Marked
  <2>2. MarkersOK'
    BY <1>0, <1>1, <1>2, <1>3 DEF StoreOK, MarkersOK, Here
  <2> QED BY <1>0, <1>1, <2>1, <2>2 DEF StoreOK, CheckpointOK, AllTracked, Covered, Here, ClaimOK
<1>7. \A u \in Workers \ {w} : Same(u)
  BY <1>0 DEF Record, NextEvent, Same, TypeOK
<1>8. \A u \in Workers \ {w} : pc[u] = "corrupt" => ~Holds(u)'
  BY <1>1, <1>7, AlarmKept DEF Same, Holds
<1> QED BY <1>4, <1>5, <1>6, <1>7, <1>8, OthersKept

LEMMA CompleteStep ==
  ASSUME IInv, TypeOK', NEW w \in Workers, Complete(w)
  PROVE  IInv'
<1>0. TypeOK /\ WorkerOK(w) /\ StoreOK
  BY DEF IInv
<1>1. /\ pc[w] = "project" /\ Pending(w) = {} /\ UNCHANGED <<registered, states, markers>>
  BY DEF Complete
<1>2. /\ AllTracked /\ view[w] # None /\ view[w] \in Nat /\ sync.last # None /\ sync.last \in Nat
      /\ Covered(sync.last)
  BY <1>1, LoopTracked DEF Looping
<1>3. \A u \in Workers \ {w} : Same(u)
  BY <1>0 DEF Complete, Same, TypeOK
<1>4. CASE sync.last = view[w] /\ Holds(w) /\ sync.live
  <2>1. /\ sync' = SyncDoc(sync.claimed, NoClaim) /\ view'[w] = sync.claimed /\ pc'[w] = "save"
    BY <1>0, <1>4 DEF Complete, TypeOK
  <2>2. sync.claimed = sync.last + 1 /\ sync.claimed \in Rounds /\ sync.claimed # None
    BY <1>0, <1>2, <1>4, NamesAssumption, SyncTypes DEF Holds
  <2>3. ASSUME NEW e \in Events, e.round <= sync.claimed PROVE ~Before(Here(e.pool), At(e))
    <3>1. /\ e.round \in Nat /\ e.pos \in Nat /\ e.pool \in Pools
      BY EventTypes
    <3>2. todo[w] = Pools /\ done[w] \in Nat
      BY <1>0, <1>1 DEF WorkerOK, DoneOK, Projecting, TypeOK
    <3>3. CASE e.round <= sync.last
      BY <1>2, <3>3 DEF Covered
    <3>4. CASE e.round > sync.last
      <4>1. e.round = view[w] + 1
        BY <1>2, <1>4, <2>2, <2>3, <3>1, <3>4
      <4>2. e.pos <= done[w]
        BY <1>1, <3>1, <3>2, <4>1 DEF Pending
      <4> QED BY <1>0, <1>1, <4>1, <4>2 DEF WorkerOK, DoneOK, Projecting
    <3> QED BY <1>2, <3>1, <3>3, <3>4
  <2>4. Covered(sync.claimed)
    BY <2>3 DEF Covered
  <2>5. PICK r \in Rounds : r = sync.claimed
    BY <2>2
  <2>6. r >= sync.last
    BY <1>2, <2>2, <2>5
  <2>7. Advances /\ StoreOK' /\ \A u \in Workers : ~Holds(u)'
    BY <1>1, <1>2, <2>1, <2>4, <2>5, <2>6, CheckpointStore
  <2>8. sync'.last = r /\ r \in Nat /\ r # None /\ view'[w] = r
    BY <2>1, <2>2, <2>5, Numbers DEF SyncDoc
  <2>9. ViewOK(w)'
    BY <2>8 DEF ViewOK
  <2>10. WorkerOK(w)'
    BY <2>1, <2>9, AtRest DEF Projecting, Snapshots
  <2> QED BY <1>3, <2>7, <2>10, OthersKept
<1>5. CASE ~(sync.last = view[w] /\ Holds(w) /\ sync.live)
  <2>1. pc'[w] = "release" /\ view' = view /\ StoresKept
    BY <1>0, <1>1, <1>5 DEF Complete, StoresKept, TypeOK
  <2>2. ViewOK(w)'
    BY <1>2, <2>1, ViewKept DEF StoresKept
  <2>3. WorkerOK(w)'
    BY <2>1, <2>2, AtRest DEF Projecting, Snapshots
  <2> QED BY <1>3, <2>1, <2>3, QuietStep
<1> QED BY <1>4, <1>5

LEMMA LeavingStep ==
  ASSUME IInv, TypeOK', NEW w \in Workers, SaveBlock(w) \/ Alarm(w) \/ Fail(w)
  PROVE  IInv'
<1>0. TypeOK
  BY DEF IInv
<1>1. pc[w] \in Looping /\ pc'[w] \in {"claim", "release"} /\ view' = view /\ StoresKept
  BY <1>0 DEF SaveBlock, Alarm, Fail, Abandon, Looping, StoresKept, TypeOK
<1>2. view[w] # None
  BY <1>1, LoopTracked
<1>3. ViewOK(w)'
  BY <1>1, <1>2, ViewKept DEF StoresKept
<1>4. WorkerOK(w)'
  BY <1>1, <1>3, AtRest DEF Projecting, Snapshots
<1>5. \A u \in Workers \ {w} : Same(u)
  BY <1>0 DEF SaveBlock, Alarm, Fail, Abandon, Same, TypeOK
<1> QED BY <1>1, <1>4, <1>5, QuietStep

\* A claim is given up or loses its owner; the checkpoint stays.
LEMMA ClaimDropped ==
  ASSUME IInv, TypeOK', NEW w \in Workers, UNCHANGED <<registered, states, markers>>,
         sync'.last = sync.last, sync'.claimed \in {sync.claimed, None},
         sync'.owner \in {sync.owner, None, Gone},
         view'[w] \in {view[w], sync.last, None}, pc'[w] \in Looping => view'[w] # None,
         pc'[w] \notin Projecting \cup Snapshots \cup {"create", "insert"},
         \A u \in Workers \ {w} : Same(u),
         sync'.claimed = sync.claimed \/ sync'.owner = None
  PROVE  IInv'
<1>0. TypeOK /\ StoreOK
  BY DEF IInv
<1>1. sync.last # None => sync'.last >= sync.last
  BY <1>0, Numbers DEF TypeOK
<1>2. Advances
  BY <1>1, KeptAdvances
<1>3. StoreOK'
  BY <1>0 DEF StoreOK, StateOK, Here, Sane, AtMostNext, Marked, MarkersOK, CheckpointOK, AllTracked,
     Covered, ClaimOK
<1>4. ASSUME NEW u \in Workers \ {w} PROVE Holds(u)' => Holds(u)
  BY NamesAssumption DEF Holds, Same
<1>5. \A u \in Workers \ {w} : pc[u] = "corrupt" => ~Holds(u)'
  BY <1>4, AlarmKept
<1>6. WorkerOK(w)'
  BY ViewKept, AtRest
<1> QED BY <1>2, <1>3, <1>5, <1>6, OthersKept

LEMMA ReleaseStep ==
  ASSUME IInv, TypeOK', NEW w \in Workers, Release(w)
  PROVE  IInv'
<1>0. TypeOK
  BY DEF IInv
<1>1. sync.last # None
  BY LoopTracked DEF Release, Looping
<1>2. \/ sync' = sync
      \/ sync'.last = sync.last /\ sync'.claimed = None /\ sync'.owner = None
  BY DEF Release, SyncDoc, NoClaim
<1>3. \/ pc'[w] = "down" /\ view'[w] = None
      \/ pc'[w] = "claim" /\ view'[w] = sync.last
  BY <1>0 DEF Release, TypeOK
<1>4. UNCHANGED <<registered, states, markers>> /\ \A u \in Workers \ {w} : Same(u)
  BY <1>0 DEF Release, Same, TypeOK
<1> QED BY <1>1, <1>2, <1>3, <1>4, ClaimDropped DEF Looping, Projecting, Snapshots

LEMMA CrashStep ==
  ASSUME IInv, TypeOK', NEW w \in Workers, Crash(w)
  PROVE  IInv'
<1>0. TypeOK
  BY DEF IInv
<1>1. sync'.last = sync.last /\ sync'.claimed = sync.claimed /\ sync'.owner \in {sync.owner, Gone}
  BY <1>0 DEF Crash, TypeOK
<1>2. pc'[w] = "down" /\ view'[w] = None
  BY <1>0 DEF Crash, TypeOK
<1>3. UNCHANGED <<registered, states, markers>> /\ \A u \in Workers \ {w} : Same(u)
  BY <1>0 DEF Crash, Same, TypeOK
<1> QED BY <1>1, <1>2, <1>3, ClaimDropped DEF Looping, Projecting, Snapshots

\* The clock, the chain and a registration; and steps of other specifications.
LEMMA SystemStep ==
  ASSUME IInv, \/ ExpireLease \/ NewBlock \/ UNCHANGED vars
               \/ \E p \in Pools : Register(p)
  PROVE  IInv'
<1>0. TypeOK /\ StoreOK
  BY DEF IInv
<1>1. /\ UNCHANGED <<states, markers, workerVars>>
      /\ sync'.last = sync.last /\ sync'.claimed = sync.claimed /\ sync'.owner = sync.owner
  BY <1>0 DEF ExpireLease, NewBlock, Register, vars, TypeOK
<1>2. registered' = Pools
  BY <1>0 DEF ExpireLease, NewBlock, Register, vars, StoreOK
<1>3. TypeOK'
  <2>1. head' \in Rounds
    BY <1>0, NumbersAssumption DEF ExpireLease, NewBlock, Register, vars, TypeOK, Rounds
  <2>2. sync' \in Syncs
    <3>1. sync \in Syncs
      BY <1>0 DEF TypeOK, Syncs
    <3>2. FALSE \in BOOLEAN
      OBVIOUS
    <3>3. sync' = sync \/ sync' = [sync EXCEPT !.live = FALSE]
      BY DEF ExpireLease, NewBlock, Register, vars
    <3> QED BY <3>1, <3>2, <3>3 DEF Syncs
  <2> QED BY <1>0, <1>1, <1>2, <2>1, <2>2 DEF TypeOK, Syncs, workerVars
<1>4. Advances
  <2>1. sync.last # None => sync'.last # None /\ sync'.last >= sync.last
    BY <1>0, <1>1, Numbers DEF TypeOK
  <2> QED BY <1>1, <2>1, KeptAdvances
<1>5. StoreOK'
  BY <1>0, <1>1, <1>2 DEF StoreOK, StateOK, Here, Sane, AtMostNext, Marked, MarkersOK, CheckpointOK,
     AllTracked, Covered, ClaimOK
<1>6. ASSUME NEW u \in Workers PROVE WorkerOK(u)'
  <2>1. Same(u)
    BY <1>1 DEF Same, workerVars
  <2>2. Holds(u)' => Holds(u)
    BY <1>1, <2>1 DEF Holds, Same
  <2> QED BY <1>3, <1>4, <2>1, <2>2, AlarmKept, KeptWorker
<1> QED BY <1>3, <1>5, <1>6 DEF IInv

LEMMA StepInv ==
  ASSUME IInv, [Next]_vars
  PROVE  IInv'
<1>1. ASSUME NEW w \in Workers, Cutover(w) \/ Loop(w) \/ Fault(w) PROVE IInv'
  <2>1. TypeOK'
    BY <1>1, TypesKept
  <2>2. CASE Cutover(w)
    BY <2>1, <2>2, QuietCutover, StoringCutover, AdvanceStep DEF Cutover
  <2>3. CASE Loop(w)
    BY <2>1, <2>3, ClaimStep, LoadStep, ReadStep, LookupStep, RereadStep, ApplyStep, RecordStep,
       CompleteStep, LeavingStep, ReleaseStep DEF Loop
  <2>4. CASE Fault(w)
    BY <2>1, <2>4, CrashStep, LeavingStep, QuietCutover DEF Fault
  <2> QED BY <1>1, <2>2, <2>3, <2>4
<1> QED BY <1>1, SystemStep DEF Next

LEMMA InitInv ==
  ASSUME Init, Registered = Pools
  PROVE  IInv
<1>1. TypeOK
  <2>1. sync \in Syncs
    BY SyncDocTypes DEF Init
  <2> QED BY <2>1, NumbersAssumption, Numbers DEF Init, TypeOK, Syncs, Steps
<1>2. sync.last = None /\ sync.claimed = None
  BY DEF Init, SyncDoc, NoClaim
<1>3. StoreOK
  BY <1>2 DEF Init, StoreOK, StateOK, MarkersOK, CheckpointOK, ClaimOK
<1>4. ASSUME NEW w \in Workers PROVE WorkerOK(w)
  BY DEF Init, WorkerOK, ViewOK, CutoverOK, DoneOK, ReadOK, EventOK, Looping, Snapshots, Projecting, AtEvent
<1> QED BY <1>1, <1>3, <1>4 DEF IInv

-----------------------------------------------------------------------------
(* What the steps may not do.                                              *)

LEMMA CheckpointStep ==
  ASSUME IInv, [Next]_vars, sync'.last # sync.last, sync.last # None
  PROVE  sync'.last > sync.last
<1>0. TypeOK /\ StoreOK
  BY DEF IInv
<1>1. sync.last \in Nat
  BY <1>0, Numbers DEF TypeOK
<1>2. ASSUME NEW w \in Workers, AdvanceSnapshot(w) PROVE sync'.last > sync.last
  <2>1. low[w] # None /\ MayAdvance(w) /\ sync'.last = low[w]
    BY <1>2 DEF AdvanceSnapshot, SyncDoc
  <2>2. low[w] \in Nat /\ low[w] >= sync.last
    BY <1>0, <2>1, Numbers DEF MayAdvance, TypeOK
  <2> QED BY <1>1, <2>1, <2>2
<1>3. ASSUME NEW w \in Workers, Complete(w) PROVE sync'.last > sync.last
  <2>1. sync'.last = sync.claimed /\ sync.last = view[w] /\ Holds(w)
    BY <1>3 DEF Complete, SyncDoc
  <2> QED BY <1>1, <2>1 DEF Holds
<1>4. ASSUME NEW w \in Workers, Cutover(w), ~AdvanceSnapshot(w) PROVE sync' = sync
  BY <1>4 DEF Cutover, Start, ReadPools, CreateFetch, SnapshotFetch, CreateInsert, CreateDone, Replace,
     Refresh
<1>5. ASSUME NEW w \in Workers, Loop(w), ~Complete(w) PROVE sync'.last = sync.last
  <2>1. CASE Claim(w) \/ Release(w)
    BY <2>1 DEF Claim, Release, SyncDoc
  <2>2. CASE ~(Claim(w) \/ Release(w))
    BY <1>5, <2>2 DEF Loop, LoadTracked, ReadState, Lookup, Reread, Apply, Record, SaveBlock, Alarm, Abandon
  <2> QED BY <2>1, <2>2
<1>6. ASSUME NEW w \in Workers, Fault(w) PROVE sync'.last = sync.last
  <2>1. CASE Crash(w)
    BY <1>0, <2>1 DEF Crash, TypeOK
  <2>2. CASE ~Crash(w)
    BY <1>6, <2>2 DEF Fault, Fail, Abandon, SnapshotFails
  <2> QED BY <2>1, <2>2
<1>7. ASSUME ExpireLease \/ NewBlock \/ (\E p \in Pools : Register(p)) \/ UNCHANGED vars
      PROVE  sync'.last = sync.last
  BY <1>0, <1>7 DEF ExpireLease, NewBlock, Register, vars, TypeOK
<1> QED BY <1>2, <1>3, <1>4, <1>5, <1>6, <1>7 DEF Next

LEMMA LedgerStep ==
  ASSUME IInv, IInv', [Next]_vars
  PROVE  [Ledger!Next]_states
<1>0. TypeOK /\ StoreOK /\ TypeOK' /\ StoreOK'
  BY DEF IInv
<1>1. ASSUME NEW w \in Workers, CreateInsert(w) \/ Replace(w) PROVE [Ledger!Next]_states
  <2>1. snap[w] # None
    BY <1>1 DEF IInv, WorkerOK, CutoverOK, CreateInsert, Replace
  <2>2. PICK p \in Pools, r \in Rounds : p = snap[w].pool /\ r = snap[w].round
    BY <1>0, <2>1, SnapTypes
  <2>3. CASE states' # states
    <3>1. Snapshot(p, r) /\ (states[p] # None => Before(Here(p), RoundEnd(r)))
      BY <1>1, <2>2, <2>3 DEF CreateInsert, Replace, Snapshot, Here
    <3>2. RoundEnd(r) \in Cursors
      BY Numbers
    <3>3. Ledger!MoveTo(p, RoundEnd(r))
      BY <3>1 DEF Ledger!MoveTo, Ledger!Before, Before, Snapshot, Here
    <3> QED BY <3>2, <3>3 DEF Ledger!Next
  <2> QED BY <2>3
<1>2. ASSUME NEW w \in Workers, Apply(w) PROVE [Ledger!Next]_states
  <2>1. CASE states' # states
    <3>1. Current(w) \in Events /\ Before(cursor[w], At(Current(w)))
      BY <1>2, CurrentPos DEF IInv, WorkerOK, EventOK, Apply, AtEvent
    <3>2. PICK e \in Events : e = Current(w)
      BY <3>1
    <3>3. PICK p \in Pools : p = e.pool
      BY EventTypes
    <3>4. Matches(w) /\ states' = [states EXCEPT ![p] = Applied(states[p], e)]
      BY <1>2, <2>1, <3>2, <3>3 DEF Apply
    <3>5. Before(Here(p), At(e)) /\ At(e) \in Cursors /\ e.delta \in Int
      BY <3>1, <3>2, <3>3, <3>4, EventTypes DEF Matches, Here
    <3>6. states[p] # None
      BY <1>2, LoopTracked DEF Apply, Looping, AllTracked
    <3>7. states'[p] = [cursor |-> At(e), balance |-> states[p].balance + e.delta]
      BY <1>0, <3>4 DEF TypeOK, Applied
    <3>8. states'[p].balance = BalanceAt[p][At(e)]
      <4>1. states'[p] # None
        <5>1. AllTracked /\ sync.last # None
          BY <1>2, LoopTracked DEF Apply, Looping
        <5>2. sync' = sync
          BY <1>2 DEF Apply
        <5> QED BY <1>0, <5>1, <5>2 DEF StoreOK, CheckpointOK, AllTracked
      <4>2. states'[p].cursor = At(e)
        BY <3>7
      <4> QED BY <1>0, <4>1, <4>2 DEF StoreOK, StateOK, Here
    <3>9. Applied(states[p], e) = [cursor |-> At(e), balance |-> BalanceAt[p][At(e)]]
      BY <3>7, <3>8 DEF Applied
    <3>10. Ledger!MoveTo(p, At(e))
      BY <3>4, <3>5, <3>9 DEF Ledger!MoveTo, Ledger!Before, Before, Here
    <3> QED BY <3>5, <3>10 DEF Ledger!Next
  <2> QED BY <2>1
<1>3. ASSUME NEW w \in Workers, Cutover(w), ~CreateInsert(w), ~Replace(w) PROVE states' = states
  BY <1>3 DEF Cutover, Start, ReadPools, CreateFetch, SnapshotFetch, CreateDone, AdvanceSnapshot, Refresh
<1>4. ASSUME NEW w \in Workers, Loop(w), ~Apply(w) PROVE states' = states
  BY <1>4 DEF Loop, Claim, LoadTracked, ReadState, Lookup, Reread, Record, Complete, SaveBlock, Alarm,
     Abandon, Release
<1>5. ASSUME NEW w \in Workers, Fault(w) PROVE states' = states
  BY <1>5 DEF Fault, Crash, Fail, Abandon, SnapshotFails
<1>6. ASSUME ExpireLease \/ NewBlock \/ (\E p \in Pools : Register(p)) \/ UNCHANGED vars
      PROVE  states' = states
  BY <1>6 DEF ExpireLease, NewBlock, Register, vars
<1> QED BY <1>1, <1>2, <1>3, <1>4, <1>5, <1>6 DEF Next

-----------------------------------------------------------------------------
(* The theorems.                                                           *)

\* The invariant: what the stores hold and what each worker may rely on (sync_pools_loop,
\* reconcile_sync_checkpoint, project).
THEOREM LpInvariant ==
  ASSUME Registered = Pools
  PROVE  Spec => []IInv
<1>1. Init => IInv
  BY InitInv
<1>2. IInv /\ [Next]_vars => IInv'
  BY StepInv
<1> QED BY <1>1, <1>2, PTL DEF Spec

\* Every variable has its type; in particular no process makes more attempts than the setting
\* allows, and no checkpoint lies before the first round (sync_pools_loop, SyncState).
THEOREM LpTypes ==
  ASSUME Registered = Pools
  PROVE  Spec => []TypeOK
<1>1. IInv => TypeOK
  BY DEF IInv
<1> QED BY <1>1, LpInvariant, PTL

\* The ledger of a pool is what the chain held at its cursor, for every interleaving of the
\* snapshots and blocks of any number of workers (project, replace_snapshot).
THEOREM LedgersAreExact ==
  ASSUME Registered = Pools
  PROVE  Spec => []LedgerExact
<1>1. IInv => LedgerExact
  BY DEF IInv, StoreOK, StateOK, LedgerExact, Tracked, Here
<1> QED BY <1>1, LpInvariant, PTL

\* The checkpoint passes no event that a ledger has not reached (complete_round,
\* advance_snapshot).
THEOREM NothingIsSkipped ==
  ASSUME Registered = Pools
  PROVE  Spec => []CheckpointCovered
<1>1. IInv => CheckpointCovered
  BY DEF IInv, StoreOK, CheckpointOK, Covered, CheckpointCovered, Here
<1> QED BY <1>1, LpInvariant, PTL

\* No event is recorded before its state holds it (_record_event, the marker last).
THEOREM MarkersFollow ==
  ASSUME Registered = Pools
  PROVE  Spec => []MarkersBehindCursor
<1>1. IInv => MarkersBehindCursor
  BY DEF IInv, StoreOK, MarkersOK, MarkersBehindCursor, Here
<1> QED BY <1>1, LpInvariant, PTL

\* A worker with the standing claim never raises LpProjectionPersistenceError for what crashes,
\* lost leases and other workers' snapshots leave behind (project).
THEOREM NoAlarmUnderClaim ==
  ASSUME Registered = Pools
  PROVE  Spec => []NoFalseAlarm
<1>1. IInv => NoFalseAlarm
  BY DEF IInv, WorkerOK, EventOK, NoFalseAlarm
<1> QED BY <1>1, LpInvariant, PTL

\* The checkpoint never regresses (advance_snapshot, complete_round).
THEOREM CheckpointOnlyAdvances ==
  ASSUME Registered = Pools
  PROVE  Spec => CheckpointAdvances
<1>1. IInv /\ [Next]_vars => [sync'.last # sync.last /\ sync.last # None => sync'.last > sync.last]_vars
  BY CheckpointStep
<1> QED BY <1>1, LpInvariant, PTL DEF CheckpointAdvances, Spec

\* The projector implements the abstract ledger: each step is a move along the chain to the
\* chain's own balance, or leaves every ledger alone (project, replace_snapshot, get_or_create).
THEOREM ProjectorImplementsLedger ==
  ASSUME Registered = Pools
  PROVE  Spec => ImplementsLedger
<1>1. Init => Ledger!Init
  BY DEF Init, Ledger!Init
<1>2. IInv /\ IInv' /\ [Next]_vars => [Ledger!Next]_states
  BY LedgerStep
<1> QED BY <1>1, <1>2, LpInvariant, PTL DEF Spec, ImplementsLedger, Ledger!Spec
=============================================================================
