SPECIFICATION LiveSpec
CONSTANTS
  c1 = c1
  c2 = c2
  c3 = c3
  k1 = k1
  k2 = k2
  None = None
  Requests = {r1}
  Candidates = {c1, c2, c3}
  Native <- Natives
  Rules <- SavedRules
  StickyKeys = {k1, k2}
  Distance <- Distances
  CounterSize = 5
INVARIANTS
  SoundOrder
  FairShare
PROPERTIES
  StickyMovesLittle
  EveryoneLeads
