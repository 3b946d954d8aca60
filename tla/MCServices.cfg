SPECIFICATION SrvSpec
CONSTANTS
  Cids = {1, 2, 3}
  MaxChannels = 2
  ClientLimit = 2
  FragmentTimeout = 0
  HostTimeout = 0
  BusyTimeout = 1
  RpcTimeout = 2
  MaxCeremonies = 2
  FidoBudgets <- FidoInstances
  Senders = {s1}
  NoKey = NoKey
  BtBudgets <- BtInstances
  Builds = {b1, b2}
  Edits = 2
  Mishaps = 1
INVARIANTS
  AnsweredForItself RevokedNotApproved CeremonyKept OperationsApart
  
PROPERTIES
  CeremoniesEnd OperationEnds BluetoothFollows
CHECK_DEADLOCK FALSE
