\* Two workers, two users and two names: every endpoint, every interleaving.
SPECIFICATION Spec
CONSTANTS
  Users = {u1, u2}
  Names = {n1, n2}
  Workers = {w1, w2}
  Absent = Absent
  Idle = Idle
  None = None
SYMMETRY Symmetry
INVARIANT Coherent
PROPERTIES DeletedStays NoDeletedSuperior
