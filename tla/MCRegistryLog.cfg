SPECIFICATION Spec
CONSTANTS
  Brands = {b1}
  Suppliers = {p1}
  Attributes = {t1}
  Options = {o1}
  Names = {x, y}
  First = x
  Existing = {b1, p1, t1, o1}
  None = None
  NRequests = 2
INVARIANTS EveryEditChains
CHECK_DEADLOCK FALSE
