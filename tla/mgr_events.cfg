SPECIFICATION FairSpec
CONSTANTS
  None = None
  h1 = h1
  h2 = h2
  c1 = c1
  in = in
  out = out
  Chart <- Charts
  Cluster = {c1}
  Label = {in, out}
  Selector <- Selectors
  Start <- Starts
  MaxEvent = 1
INVARIANTS
  TypeOK
  NoLostWakeup

  
CHECK_DEADLOCK FALSE
