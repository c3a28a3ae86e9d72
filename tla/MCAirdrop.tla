----------------------------- MODULE MCAirdrop -----------------------------
EXTENDS Airdrop

\* The third plan has other shares and the same amounts as the first, the second has other
\* amounts, and the last one leaves nothing for somebody.
PairPlans == {[total |-> 3, shares |-> <<1, 1>>], [total |-> 3, shares |-> <<1, 3>>],
              [total |-> 3, shares |-> <<4, 3>>], [total |-> 2, shares |-> <<1, 5>>]}

\* allocate_proportionally divides every small budget exactly.
ASSUME AllocationIsExact ==
  \A n \in 1 .. 4 : \A shares \in [1 .. n -> 1 .. 4] : \A total \in 1 .. 9 :
     ExactDivision(total, shares, Allocate(total, shares))
=============================================================================
