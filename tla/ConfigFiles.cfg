CONSTANTS
  Proc = {p1, p2}
  None = None
  Torn = Torn
  Addr = {a1, a2, bad}
  Invalid = {bad}
  Id = {i1, i2}
  Serial = {1, 2}
SPECIFICATION Spec
SYMMETRY Symmetry
INVARIANTS CoversAddress PairUsable
PROPERTIES IdentityKept PinKept
