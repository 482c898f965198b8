\* Two requests interleaved statement by statement.
CONSTANTS
  w1 = w1
  w2 = w2
  la = la
  lb = lb
  lc = lc
  s1 = s1
  None = None
  MaxId = 4
  Labels <- ThreeLabels
  Sessions <- MCSessions
  Workers <- TwoWorkers
SPECIFICATION Spec
INVARIANTS TypeOK DefaultsBounded
PROPERTY FallbackFindsDefault
SYMMETRY Symmetry
