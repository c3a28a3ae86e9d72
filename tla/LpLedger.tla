------------------------------ MODULE LpLedger ------------------------------
(***************************************************************************)
(* What the liquidity-pool projector promises, without workers, leases or  *)
(* markers: the ledger of a pool is the balance the chain had at a cursor, *)
(* no transfer missing and none counted twice, and cursors only move on.   *)
(***************************************************************************)
EXTENDS Naturals

CONSTANTS Pools,      \* pools with a ledger, or about to get one
          Cursors,    \* points of the chain, records with fields round and pos
          BalanceAt,  \* BalanceAt[p][c]: what pool p held on chain at cursor c
          None        \* no ledger

VARIABLE ledger       \* of each pool None, or its cursor and balance

Before(c, d) == c.round < d.round \/ (c.round = d.round /\ c.pos < d.pos)

Init == ledger = [p \in Pools |-> None]

\* A transfer or a snapshot moves a ledger to a later point of the chain.
MoveTo(p, c) == /\ ledger[p] = None \/ Before(ledger[p].cursor, c)
                /\ ledger' = [ledger EXCEPT ![p] = [cursor |-> c, balance |-> BalanceAt[p][c]]]

Next == \E p \in Pools, c \in Cursors : MoveTo(p, c)

Spec == Init /\ [][Next]_ledger
=============================================================================
