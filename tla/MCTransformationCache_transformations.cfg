CONSTANTS
  north = north  south = south  f1 = f1
  Nodes = {north, south}
  Facts = {f1}
  MaxEdition = 2
  MaxFaults = 1
SPECIFICATION Spec
INVARIANTS TypeOK StaleFactsVanish
SYMMETRY NodeSymmetry
