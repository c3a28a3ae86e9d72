------------------------------- MODULE Payout -------------------------------
(***************************************************************************)
(* What the outbound-transfer service promises, without saying how: a      *)
(* business operation is bound to at most one transaction, only that       *)
(* transaction ever moves assets, it moves them once, and a caller is told *)
(* the operation was paid only after it was.                               *)
(***************************************************************************)
CONSTANTS Ops,      \* idempotency keys of business operations
          Callers,  \* processes that ask for payouts
          Txn,      \* signed transactions, records with the operation as field op
          None      \* no transaction

VARIABLES bound,    \* bound[o]: the transaction operation o is bound to
          paid,     \* the transactions that moved assets
          told      \* told[c]: the transaction caller c was told is confirmed

vars == <<bound, paid, told>>

Init == /\ bound = [o \in Ops |-> None]
        /\ paid = {}
        /\ told = [c \in Callers |-> None]

\* An operation is bound for ever to the first transaction reserved for it.
Bind(o, t) == /\ bound[o] = None
              /\ t.op = o
              /\ bound' = [bound EXCEPT ![o] = t]
              /\ UNCHANGED <<paid, told>>

\* A block confirms transactions of distinct operations, each the bound one.
Pay(S) == /\ S \cap paid = {}
          /\ \A t \in S : bound[t.op] = t
          /\ paid' = paid \cup S
          /\ UNCHANGED <<bound, told>>

\* A caller learns of a payment that happened.
Tell(c, t) == /\ t \in paid
              /\ told' = [told EXCEPT ![c] = t]
              /\ UNCHANGED <<bound, paid>>

\* A caller starts over.
Forget(c) == /\ told' = [told EXCEPT ![c] = None]
             /\ UNCHANGED <<bound, paid>>

Next == \/ \E o \in Ops, t \in Txn : Bind(o, t)
        \/ \E S \in SUBSET Txn : Pay(S)
        \/ \E c \in Callers, t \in Txn : Tell(c, t)
        \/ \E c \in Callers : Forget(c)

Spec == Init /\ [][Next]_vars
=============================================================================
