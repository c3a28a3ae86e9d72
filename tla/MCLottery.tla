----------------------------- MODULE MCLottery -----------------------------
EXTENDS Lottery, TLC

CONSTANTS l1, l2, n1

\* Documents of the code before entitlements: no id, no payout status.
OldDoc(d, prize, t, claimed, op) ==
  [key |-> d, id |-> FALSE, prize |-> prize, time |-> t, status |-> "missing",
   claimed |-> claimed, op |-> op, generation |-> 0]

\* A prize that was not claimed, with and without its operation, and a later
\* draw without a prize.
OneOpenDoc == {OldDoc(l1, n1, 0, "missing", op) : op \in BOOLEAN} \cup
              {OldDoc(l2, None, 1, "no", FALSE)}

Symmetry == Permutations(Requests) \cup Permutations(Payers)
=============================================================================
