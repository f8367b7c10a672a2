SPECIFICATION Spec
CONSTANTS
  StatusSize = 20
  PbSize = 8
  MaxCount = 3
INVARIANTS
  TypeOK
  ReadsIntact
  WithinStorage
  UserSeesStatuses
