------------------------- MODULE IpAllocator_proofs --------------------------
(* No two services share an address, for every subnet and set of services.    *)
EXTENDS IpAllocator, TLAPS

LEMMA GatewayIpIsAddress == GatewayIp \in Address
<1>1. AddressCount \in Nat \ {0} /\ Base + 1 \in Nat
  BY SubnetAssumption
<1> QED
  BY <1>1 DEF GatewayIp, Address

LEMMA SubnetIsAddresses == Subnet \subseteq Address
BY SubnetAssumption DEF Subnet, Address

AllocInv == TypeOK /\ Consistent

LEMMA InitAllocInv == Init => AllocInv
BY GatewayIpIsAddress, NoneAssumption DEF Init, AllocInv, TypeOK, Consistent

\* Recording a free address, or one already recorded under s, keeps the maps in
\* step with each other.
LEMMA RecordKeeps ==
  ASSUME AllocInv, NEW s \in Services, NEW ip \in Subnet,
         ip_to_service[ip] \in {None, s}, Record(s, ip)
  PROVE  AllocInv'
<1> USE DEF AllocInv, TypeOK, Consistent
<1>1. ip \in Address /\ s # None
  BY SubnetIsAddresses, NoneAssumption
<1>2. TypeOK'
  BY <1>1 DEF Record
<1>3. ASSUME NEW t \in Services, allocations'[t] # None
      PROVE  ip_to_service'[allocations'[t]] = t
  <2>1. CASE t = s
    BY <1>1, <2>1 DEF Record
  <2>2. CASE t # s
    <3>1. allocations'[t] = allocations[t] /\ allocations[t] \in Address
      BY <1>3, <2>2 DEF Record
    <3>2. allocations[t] # ip
      BY <1>3, <2>2, <3>1, NoneAssumption
    <3> QED  BY <1>1, <1>3, <3>1, <3>2 DEF Record
  <2> QED  BY <2>1, <2>2
<1>4. allocated_ips' = {a \in Address : ip_to_service'[a] # None}
  BY <1>1 DEF Record
<1> QED  BY <1>2, <1>3, <1>4

LEMMA AllocInvStep == AllocInv /\ [Next]_vars => AllocInv'
<1> SUFFICES ASSUME AllocInv, [Next]_vars  PROVE AllocInv'
  OBVIOUS
<1> USE DEF AllocInv, TypeOK, Consistent
<1>1. ASSUME NEW s \in Services, Allocate(s)  PROVE AllocInv'
  <2>1. PICK ip \in Subnet : NextAvailable(ip) /\ Record(s, ip)
    BY <1>1 DEF Allocate
  <2>2. ip_to_service[ip] = None
    BY <2>1, SubnetIsAddresses DEF NextAvailable, Available
  <2> QED  BY <2>1, <2>2, RecordKeeps
<1>2. ASSUME NEW s \in Services, NEW ip \in Subnet, AllocateSpecific(s, ip)  PROVE AllocInv'
  <2>1. ip_to_service[ip] \in {None, s}
    BY <1>2, SubnetIsAddresses DEF AllocateSpecific, TakenByOther
  <2> QED  BY <1>2, <2>1, RecordKeeps DEF AllocateSpecific
<1>3. ASSUME NEW s \in Services, Release(s)  PROVE AllocInv'
  <2>1. PICK ip \in Address :
          /\ ip = allocations[s] /\ ip_to_service[ip] = s
          /\ allocations' = [allocations EXCEPT ![s] = None]
          /\ ip_to_service' = [ip_to_service EXCEPT ![ip] = None]
          /\ allocated_ips' = allocated_ips \ {ip}
    BY <1>3 DEF Release, Freed
  <2>2. ASSUME NEW t \in Services, allocations'[t] # None
        PROVE  ip_to_service'[allocations'[t]] = t
    <3>1. t # s /\ allocations'[t] = allocations[t]
      BY <2>1, <2>2
    <3>2. allocations[t] # ip /\ allocations[t] \in Address
      BY <2>1, <2>2, <3>1
    <3> QED  BY <2>1, <2>2, <3>1, <3>2
  <2>3. allocated_ips' = {a \in Address : ip_to_service'[a] # None}
    BY <2>1
  <2> QED  BY <2>1, <2>2, <2>3
<1>4. CASE UNCHANGED vars
  BY <1>4 DEF vars
<1> QED  BY <1>1, <1>2, <1>3, <1>4 DEF Next

\* The reverse map and the lookup set agree with the allocations.
THEOREM MapsAgree == Spec => []Consistent
<1>1. AllocInv => Consistent
  BY DEF AllocInv
<1> QED
  BY <1>1, InitAllocInv, AllocInvStep, PTL DEF Spec

\* Two services never hold the same address, whatever calls came before.
THEOREM AddressesAreExclusive == Spec => []NoSharing
<1>1. AllocInv => NoSharing
  BY DEF AllocInv, Consistent, NoSharing
<1> QED
  BY <1>1, InitAllocInv, AllocInvStep, PTL DEF Spec

-----------------------------------------------------------------------------
(* The gateway's address.                                                     *)

GatewayHeld == ip_to_service[GatewayIp] = Gateway

LEMMA GatewayStep ==
  ASSUME Gateway \notin Services
  PROVE  AllocInv /\ GatewayHeld /\ [Next]_vars => GatewayHeld'
<1> SUFFICES ASSUME AllocInv, GatewayHeld, [Next]_vars  PROVE GatewayHeld'
  OBVIOUS
<1> USE DEF AllocInv, TypeOK, Consistent, GatewayHeld
<1>1. GatewayIp \in allocated_ips
  BY GatewayIpIsAddress, NoneAssumption
<1>2. ASSUME NEW s \in Services, NEW ip \in Subnet, ip # GatewayIp, Record(s, ip)
      PROVE  GatewayHeld'
  BY <1>2 DEF Record
<1>3. ASSUME NEW s \in Services, Allocate(s)  PROVE GatewayHeld'
  BY <1>1, <1>2, <1>3 DEF Allocate, NextAvailable, Available
<1>4. ASSUME NEW s \in Services, NEW ip \in Subnet, AllocateSpecific(s, ip)  PROVE GatewayHeld'
  <2>1. ip # GatewayIp
    BY <1>1, <1>4, NoneAssumption DEF AllocateSpecific, TakenByOther
  <2> QED  BY <1>2, <1>4, <2>1 DEF AllocateSpecific
<1>5. ASSUME NEW s \in Services, Release(s)  PROVE GatewayHeld'
  <2>1. allocations[s] # GatewayIp
    BY <1>5 DEF Release
  <2> QED  BY <1>5, <2>1 DEF Release, Freed
<1>6. CASE UNCHANGED vars
  BY <1>6 DEF vars
<1> QED  BY <1>3, <1>4, <1>5, <1>6 DEF Next

\* Unless a service is itself called "gateway", no service is given the address
\* that reserve_gateway took.
THEOREM GatewayStaysReserved ==
  ASSUME Gateway \notin Services
  PROVE  Spec => []GatewayReserved
<1>1. Init => GatewayHeld
  BY GatewayIpIsAddress DEF Init, GatewayHeld
<1>2. AllocInv /\ GatewayHeld => GatewayReserved
  BY NoneAssumption, GatewayIpIsAddress
     DEF AllocInv, Consistent, GatewayHeld, GatewayReserved, Address
<1> QED
  BY <1>1, <1>2, InitAllocInv, AllocInvStep, GatewayStep, PTL DEF Spec
-----------------------------------------------------------------------------
(* Refinement.                                                                *)

\* Whoever records ip under s took it from nobody.
LEMMA RecordObtains ==
  ASSUME AllocInv, NEW s \in Services, NEW ip \in Subnet,
         ip_to_service[ip] \in {None, s}, Record(s, ip)
  PROVE  Pool!Obtain(s, ip)
<1>1. ip \in Address /\ ip # None
  BY SubnetIsAddresses, NoneAssumption DEF Address
<1>2. ~ Pool!HeldByOther(s, ip)
  BY <1>1, NoneAssumption DEF AllocInv, Consistent, Pool!HeldByOther
<1> QED
  BY <1>2 DEF Record, Pool!Obtain

LEMMA PoolStep == AllocInv /\ [Next]_vars => [Pool!Next]_allocations
<1> SUFFICES ASSUME AllocInv, [Next]_vars  PROVE [Pool!Next]_allocations
  OBVIOUS
<1>1. ASSUME NEW s \in Services, Allocate(s)  PROVE Pool!Next
  <2>1. PICK ip \in Subnet : NextAvailable(ip) /\ Record(s, ip)
    BY <1>1 DEF Allocate
  <2>2. ip_to_service[ip] = None
    BY <2>1, SubnetIsAddresses DEF NextAvailable, Available, AllocInv, Consistent
  <2> QED  BY <2>1, <2>2, RecordObtains DEF Pool!Next
<1>2. ASSUME NEW s \in Services, NEW ip \in Subnet, AllocateSpecific(s, ip)  PROVE Pool!Next
  <2>1. ip_to_service[ip] \in {None, s}
    BY <1>2, SubnetIsAddresses DEF AllocateSpecific, TakenByOther, AllocInv, Consistent
  <2> QED  BY <1>2, <2>1, RecordObtains DEF AllocateSpecific, Pool!Next
<1>3. ASSUME NEW s \in Services, Release(s)  PROVE Pool!Next
  BY <1>3 DEF Release, Pool!Next, Pool!GiveBack
<1>4. CASE UNCHANGED vars
  BY <1>4 DEF vars
<1> QED  BY <1>1, <1>2, <1>3, <1>4 DEF Next

\* IpAllocator implements the pool of addresses, for every subnet and any number
\* of services.
THEOREM AllocatorIsPool == Spec => ImplementsPool
<1>1. Init => Pool!Init
  BY DEF Init, Pool!Init
<1> QED
  BY <1>1, InitAllocInv, AllocInvStep, PoolStep, PTL DEF Spec, ImplementsPool, Pool!Spec
=============================================================================
