SPECIFICATION Spec
CONSTANTS
  p1 = p1  p2 = p2  fs = fs  obj = obj  rootA = rootA  rootB = rootB
  source = source  dataset = dataset  n1 = n1  n2 = n2  u = u  v = v
  c1 = c1  c2 = c2
  None = None
  Profiles = {p1, p2}
  Types = {fs}
  KnownTypes = {fs, obj}
  Roots = {rootA, rootB}
  Roles = {source, dataset}
  Namespaces = {n1, n2}
  Digests = {"d1"}
  PlaceOf <- OneRoot
  Configs <- RenameConfigs
  Contexts <- OneContext
  MaxRuntimes = 2
  MaxBlobs = 2
  MaxInstance = 0
INVARIANTS RefsResolve
CHECK_DEADLOCK FALSE
