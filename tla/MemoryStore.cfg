\* Two concurrent requests of any kind on one slot, up to four revisions.
SPECIFICATION Spec
CONSTANTS
  MemKeys = {k1}
  Values = {v1, v2}
  NoValue = NoValue
  NoPolicy = NoPolicy
  Clients = {c1, c2}
  MaxRev = 4
SYMMETRY Symmetry
INVARIANTS OneCurrentRevision ForgottenStaysRedacted
PROPERTIES OnlyRequestsPromote ImplementsBook
