SPECIFICATION Spec
CONSTANTS
  Callers = {c1, c2}
  Machines <- MCMachines
INVARIANTS
  VendorLast
  StateSaved
  TypesAgree
