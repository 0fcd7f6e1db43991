CONSTANTS
  k1 = k1
  k2 = k2
  k3 = k3
  Pages = {p1, p2}
  Keys <- MCKeys
  Size <- MCSize
  MaxBytes = 2
  Npm = Npm
  NpmKeys = {k1}
  MaxInstalls = 3
  Faults = {"overlap", "cut"}
  None = None
SPECIFICATION Spec
INVARIANTS TypeOK ModulesAreRight BudgetKept
PROPERTY EvictionIsFair
SYMMETRY PageSymmetry
CHECK_DEADLOCK FALSE
