\* Two tasks with clocks that differ, and the documents of older versions.
SPECIFICATION Spec
CONSTANTS
  Processes = {p1, p2}
  Tasks = {t1, t2}
  ProcessOf <- Alone
  Offset <- Apart
  Ttl = 1
  MaxStale = 4
  Skew = 2
  Delay = 1
  OldPrices <- Inherited
  MaxTime = 5
  None = None
  t1 = t1
  p1 = p1
  p2 = p2
  t2 = t2
 
PROPERTIES ObservationsAdvance
