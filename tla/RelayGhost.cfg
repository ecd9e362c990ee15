SPECIFICATION Spec
CONSTANTS
  c1 = c1  c2 = c2  c3 = c3  c4 = c4
  Conn = {c1, c2, c3}
  n1 = n1  n2 = n2  n3 = n3  n4 = n4
  Names = {n1, n2, n3}
  None = None
  WireTicks = 2
  Keep = 1
  LogSlots = None
  Variants <- MCVariants
  Addr <- MCAddr
  MaxClients = 3
  MaxPerAddr = 3
  MaxTx = 2
  Asked = {n1}
  Reports <- MCReports
PROPERTY NoGhost
SYMMETRY Sym
