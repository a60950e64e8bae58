CONSTANTS
  Writers = {w1, w2}
  Values = {v1, v2}
  Torn = Torn
  NoValue = NoValue
  Target = Target
  Temps = {t1, t2}
  Inodes = {i1, i2, i3, i4}
  None = None

SPECIFICATION Spec
INVARIANTS TypeOK NeverTorn NoLitter
PROPERTIES ImplementsRegister
SYMMETRY AlikeSymmetry
