SPECIFICATION MCSpec
CONSTANTS
  Keys = {k1, k2}
  BootKey = bootKey
  Phones = {k1, k2}
  Fabrics = {f1, f2}
  EvSlots = {ev1}
  NevSlots = {nev1}
  OtherSlots = {pin1}
  Users = {u1}
  Places = {p1, p2}
  Readers = {r1, r2}
  FastSlots = 1
  FlashFails = TRUE
  ReaderFails = TRUE
  DeriveFails = TRUE
  None = none
SYMMETRY Symmetry
INVARIANTS
  TypeOK
  AnsweredIsDurable
  RemovedStaysRemoved
  EnrolledIsInDatabase
  OccupiedIsEnrolled
PROPERTY OpensForRecorded
