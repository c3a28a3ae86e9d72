\* One operation, two terms, two processes; a window of one round on a chain of
\* four, so a transaction can expire, be confirmed late, or be prepared twice.
CONSTANTS
  Ops = {o1}
  Terms = {c1, c2}
  Workers = {w1, w2}
  Window = 1
  MaxRound = 4
  MaxLag = 1
  None = None
SPECIFICATION Spec
SYMMETRY Symmetry
INVARIANTS TypeOK PaidAtMostOnce WriteAhead RecordedIsPaid AnswersTruthful
PROPERTIES ExpiredIsFinal ConfirmedIsTerminal ImplementsPayout
