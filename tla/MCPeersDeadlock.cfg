\* Two inbound connections whose remote ends send messages.
CONSTANTS
  o1 = o1  i1 = i1  i2 = i2  i3 = i3  i4 = i4
  Conn = {i1, i2}
  Inbound = {i1, i2}
  Talking = {i1, i2}
  IdOf <- Ids
  IpOf <- Addresses
  Subnet24 <- OneNet
  Subnet16 <- OneNet
  SelfId = {}
  MaxPerIp = 2
  Max24 = 2
  Max16 = 2
  Free = Free
SPECIFICATION Spec
CHECK_DEADLOCK FALSE
INVARIANTS NoDeadlock
