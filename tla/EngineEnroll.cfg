SPECIFICATION FairSpec
CONSTANTS
  c1 = c1
  c2 = c2
  nil = nil
  Profiles <- MCServer
  N = 2
  Addrs = 2
  Conns = {c1, c2}
  Hash <- MCHash
  Nil = nil
INVARIANTS
  EnrolmentAnswerable
