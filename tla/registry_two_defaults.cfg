\* Two requests that ask for the default at once.
CONSTANTS
  w1 = w1
  w2 = w2
  la = la
  lb = lb
  lc = lc
  s1 = s1
  None = None
  MaxId = 4
  Labels <- ThreeLabels
  Sessions <- MCSessions
  Workers <- TwoWorkers
SPECIFICATION Spec
INVARIANT OneDefault
