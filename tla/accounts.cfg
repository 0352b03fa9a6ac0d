CONSTANTS
  Org = Org
  Member = Member
  Newcomer = Newcomer
  Burn = Burn
  Nil = Nil
  NoURI = NoURI
  URI = {uri}
  U64 = 16
  MaxIndex = 1
  Address <- MCAddress
  Package <- MCPackage
  Tx <- MCTx
  BaseCost <- MCBaseCost
  Allocation <- MCAllocation
SPECIFICATION Spec
INVARIANTS
  NoReplay
  FaucetPaidOnce
  
  
PROPERTY SpendsOnlySigned
CHECK_DEADLOCK FALSE
