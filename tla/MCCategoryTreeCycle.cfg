SPECIFICATION Spec
CONSTANTS
  Cats = {bikes, tyres}
  Slugs = {s1, s2}
  Null = Null
  Admins = {a1, a2}
  Movers = {a1, a2}
INVARIANTS NoCycle
