CONSTANTS
  t1 = t1
  t2 = t2
  d1 = d1
  h1 = h1
  h2 = h2
  h3 = h3
  s1 = s1
  s2 = s2
  layer = layer
  Threads = {t1, t2}
  None = None
  MaxDepth = 1
  MaxChain = 5
  Devices = {d1}
  Handles = {h1, h2, h3}
  Surfaces = {s1, s2}
  LayerOf <- OneLayer
  Defers = FALSE
SYMMETRY Alike
SPECIFICATION LayerSpec
INVARIANTS
  DriverObeyed
  ParentsFirst
  TableExact
  OneAtATime
  LayersOwned
  CallsGoOn
  MutualExclusion
  NoLostWakeup
