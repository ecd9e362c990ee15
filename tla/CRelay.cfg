SPECIFICATION Spec
CONSTANTS
  c1 = c1  c2 = c2  c3 = c3
  Conn = {c1, c2, c3}
  n1 = n1  n2 = n2  n3 = n3
  Names = {n1, n2, n3}
  None = None
  WireTicks = 2
  Keep = 1
  CrcSlots = 2
  LogSlots = None
  Gens = 2
  Variants <- MCVariants
  Addr <- MCAddr
  MaxClients = 3
  MaxPerAddr = 3
  MaxTx = 1
  Asked = {n1}
  Reports <- MCReports
INVARIANTS TagsHonest IndicesLive
PROPERTY ImplementsRelay
SYMMETRY Sym
VIEW MCView
