SPECIFICATION Spec
CONSTANTS
  Addr = {a1, a2, a3, a4, a5, a6}
  Root = {r1, r2}
  None = None
  EmptyArray = EmptyArray
  Frozen = {None, EmptyArray}
  MaxObjs = 3
  MaxLen = 1
  MaxListLen = 2
SYMMETRY Symm
INVARIANTS NoDangling NewArenaClosed GraphPreserved ArrayFits
PROPERTIES GcReclaimsGarbage GcMakesProgress
