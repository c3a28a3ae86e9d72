----------------------------- MODULE Allocation -----------------------------
(***************************************************************************)
(* allocate_proportionally of flex/domain/allocation.py: a budget of base  *)
(* units divided in proportion to shares by largest remainders.            *)
(*                                                                         *)
(* Recipients are numbered in the order of their ids.  Shares are decimals *)
(* in the code, turned into exact fractions; here they are integers over a *)
(* common denominator, which cancels out.                                  *)
(***************************************************************************)
EXTENDS Integers, FiniteSets, FiniteSetsExt

Total(f) == MapThenSumSet(LAMBDA r : f[r], DOMAIN f)

Floor(total, shares) == [r \in DOMAIN shares |-> (total * shares[r]) \div Total(shares)]

\* The fractional part of the exact amount, over the total of the shares.
Remainder(total, shares) == [r \in DOMAIN shares |-> (total * shares[r]) % Total(shares)]

\* Those before r by larger remainder, then by id.
Ahead(rest, r) == {s \in DOMAIN rest : rest[s] > rest[r] \/ (rest[s] = rest[r] /\ s < r)}

Allocate(total, shares) ==
  LET floor == Floor(total, shares)
      rest == Remainder(total, shares)
      undistributed == total - Total(floor)
  IN [r \in DOMAIN shares |->
        IF Cardinality(Ahead(rest, r)) < undistributed THEN floor[r] + 1 ELSE floor[r]]

\* What the division promises: the whole budget, everyone within a unit of the
\* exact share, and never more for a smaller share.
ExactDivision(total, shares, amounts) ==
  /\ Total(amounts) = total
  /\ \A r \in DOMAIN shares :
        /\ amounts[r] * Total(shares) < total * shares[r] + Total(shares)
        /\ amounts[r] * Total(shares) > total * shares[r] - Total(shares)
  /\ \A r, s \in DOMAIN shares : shares[r] < shares[s] => amounts[r] <= amounts[s]
=============================================================================
