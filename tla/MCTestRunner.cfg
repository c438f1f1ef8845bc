SPECIFICATION FairSpec
CONSTANTS
  w1 = w1
  w2 = w2
  a = a
  b = b
  c = c
  d = d
  e = e
  Worker <- TwoWorkers
  N = 2
  Listing <- Tests
  Hash <- Hashes
  Options <- Lines
INVARIANTS TypeOK PublishedComplete GreenMeansAllRan EveryTestOnce JobsFit
PROPERTY Terminates
