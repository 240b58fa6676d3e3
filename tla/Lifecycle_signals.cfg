SPECIFICATION LFairSpec
CONSTANTS
  g1 = g1
  r1 = r1
  r2 = r2
  GrpcReqs = {g1}
  RestReqs = {r1, r2}
  MaxSignals = 2
INVARIANTS
  SignalReachesRun
  CutHasCause
PROPERTIES
  ToldEnds
  RestStaysClosed
