\* A refused request that asked for the default.
CONSTANTS
  w1 = w1
  w2 = w2
  la = la
  lb = lb
  lc = lc
  s1 = s1
  None = None
  MaxId = 3
  Labels <- MCLabels
  Sessions <- MCSessions
  Workers <- OneWorker
SPECIFICATION Spec
PROPERTY RefusalKeepsDefaults
