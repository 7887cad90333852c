\* An id that is dialled and accepted, two inbound connections from its address, and
\* two from other addresses of the subnet, which has room for two addresses.
CONSTANTS
  o1 = o1  i1 = i1  i2 = i2  i3 = i3  i4 = i4
  Conn = {o1, i1, i2, i3, i4}
  Inbound = {i1, i2, i3, i4}
  Talking = {i1}
  IdOf <- Ids
  IpOf <- Addresses
  Subnet24 <- OneNet
  Subnet16 <- OneNet
  SelfId = {}
  MaxPerIp = 1
  Max24 = 2
  Max16 = 2
  Free = Free
SPECIFICATION Spec
SYMMETRY Neighbours
CHECK_DEADLOCK FALSE
INVARIANTS TypeOK NoGhosts AdmissionLimits
