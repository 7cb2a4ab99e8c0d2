CONSTANTS
  Names <- MCNames
  Mountable <- MCMountable
  Requests <- MCRequests
  MaxMounts = 3
  Clients = {c1, c2}
  Storages = {"s1", "s2"}
  MaxSets = 2
SPECIFICATION Spec
SYMMETRY AnyClient
INVARIANTS
  TypeOK
  NoDeadNodes
  WalkSeesAll
  WrittenIsRead
  ReadsBack
PROPERTY ImplementsTable
