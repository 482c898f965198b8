\* Two threads, two plain pools and one target more than the cache holds; pools
\* enough for both threads to overfill it.
CONSTANTS
  w1 = w1
  w2 = w2
  url = url
  srv = srv
  a = a
  b = b
  c = c
  p1 = p1
  p2 = p2
  p3 = p3
  p4 = p4
  p5 = p5
  None = None
  Common = url
  Workers <- TwoThreads
  PlainKeys <- UrlAndServer
  TargetKeys <- ThreeTargets
  PoolIds <- FivePools
  Cap = 2
SPECIFICATION FairSpec
INVARIANTS TypeOK CachedPoolsAreOpen OpenPoolsAreListed NoDeadPoolListed ShutdownClosesEverything CacheBounded OnlyCachedPoolsStayOpen
PROPERTIES ImplementsLruCache OverflowDrains
