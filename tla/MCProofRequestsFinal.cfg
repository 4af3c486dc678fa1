SPECIFICATION Spec
CONSTANTS
  Parties = {alice, bob}
  Agency = alice
  Ids = {c1}
  Circuits = {age, residency}
  ProofIds = {z1, z2}
  RequestIds = {r1}
  Procs = {p1, p2}
  MaxNow = 1
  Absent = Absent
SYMMETRY Symmetry
PROPERTIES
  DecisionIsFinal
