\* Two processes record at the same time, and the file may be edited once in between.
SPECIFICATION Spec
CONSTANTS
  Writers = {w1, w2}
  Contents = {a, b}
  None = None
  MaxLegacy = 1
  MaxEvents = 4
  MaxDamage = 1
SYMMETRY Interchangeable
INVARIANTS TypeOK LogChained EditTold AnchorTold VerifiesWhatIsChained
CHECK_DEADLOCK FALSE
