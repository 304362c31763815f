SPECIFICATION TaxonomySpec
CONSTANTS
  Cats = {bikes, tyres, tubes}
  Slugs = {s1, s2, s3}
  Null = Null
  Admins = {a1, a2}
  Movers = {a1}
  Brands = {b1, b2}
  Suppliers = {p1}
  Attributes = {t1}
  Options = {o1, o2}
  Names = {x, y}
  First = x
  Existing = {b1}
  None = None
  NRequests = 3
INVARIANTS PathsFollowParents VisibilityAgrees LogAndDataAgree AttributeEditsChain ETagTells
SYMMETRY Symmetry
CHECK_DEADLOCK FALSE
