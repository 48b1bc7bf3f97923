\* three services share a /29 at the upper end of the address space
SPECIFICATION Spec
CONSTANTS
  Services = {s1, s2, s3}
  AddressCount = 16
  Base = 8
  SubnetSize = 8
  Gateway = gateway
  None = None
SYMMETRY Symmetry
INVARIANT Consistent
INVARIANT GatewayReserved
PROPERTY ImplementsPool
