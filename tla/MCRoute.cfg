SPECIFICATION Spec
CONSTANTS
  p1 = p1  p2 = p2  fs = fs  obj = obj  rootA = rootA  rootB = rootB
  source = source  dataset = dataset  n1 = n1  n2 = n2  u = u  v = v
  c1 = c1  c2 = c2
  None = None
  Profiles = {p1, p2}
  Types = {fs, obj}
  KnownTypes = {fs, obj}
  Roots = {rootA, rootB}
  Roles = {source, dataset}
  Namespaces = {n1, n2}
  Digests = {"d1"}
  PlaceOf <- OwnRoots
  Configs <- RoutingConfigs
  Contexts <- TwoContexts
  MaxRuntimes = 1
  MaxBlobs = 2
  MaxInstance = 1
INVARIANTS TypeOK RefsResolve DedupBoundary
CHECK_DEADLOCK FALSE
