CONSTANTS
  Cores = {c1, c2}
  Useable = {c1, c2}
  Remote = None
  None = None
  s1 = s1
  s2 = s2
  s3 = s3
  Spis <- MCSpis
  Iptr <- MCIptr
  Ipr <- MCIpr
  Icfr <- MCIcfr
SPECIFICATION FairSpec
INVARIANTS ResultsHold NoStrayInterrupt
PROPERTIES IsDistributor CallsEnd
