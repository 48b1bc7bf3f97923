----------------------------- MODULE IpAllocator -----------------------------
(***************************************************************************)
(* service-registry's IpAllocator: addresses of one subnet handed to       *)
(* services by name, with a reverse map, a set of taken addresses and the  *)
(* gateway's address reserved in those two only.  Addresses are numbers    *)
(* modulo AddressCount (2^32 or 2^128); the subnet is the SubnetSize        *)
(* addresses from Base.                                                     *)
(***************************************************************************)
EXTENDS Naturals, FiniteSets

CONSTANTS
  Services,      \* service names
  AddressCount,  \* 2^32 for IPv4, 2^128 for IPv6
  Base,          \* network()
  SubnetSize,    \* 2^(width - prefix length)
  Gateway,       \* the name "gateway", which a service may bear too
  None           \* no address, no service

ASSUME SubnetAssumption ==
  /\ AddressCount \in Nat /\ Base \in Nat /\ SubnetSize \in Nat \ {0}
  /\ Base + SubnetSize <= AddressCount

ASSUME NoneAssumption == None \notin Services \cup {Gateway} \cup (0 .. AddressCount - 1)

VARIABLES
  allocations,    \* service -> address
  ip_to_service,  \* address -> service, "gateway" for the reserved one
  allocated_ips   \* the taken addresses

vars == <<allocations, ip_to_service, allocated_ips>>

Address == 0 .. AddressCount - 1
\* An operator called M_... is a plausible mistake in the operator after it.
Subnet == Base .. Base + SubnetSize - 1

\* The additions wrap as in a release build.
GatewayIp == (Base + 1) % AddressCount
StartIp == (Base + 2) % AddressCount

\* IpAllocator::new with reserve_gateway
Init ==
  /\ allocations = [s \in Services |-> None]
  /\ ip_to_service = [ip \in Address |-> IF ip = GatewayIp THEN Gateway ELSE None]
  /\ allocated_ips = {GatewayIp}

\* How many increment_ip calls lead from the start of a scan to ip.
ScanDistance(ip) == (ip + AddressCount - StartIp) % AddressCount

\* find_next_available: the scan runs once round all addresses.
Available == Subnet \ allocated_ips

NextAvailable(ip) ==
  /\ ip \in Available
  /\ \A other \in Available : ScanDistance(ip) <= ScanDistance(other)

Record(s, ip) ==
  /\ allocations' = [allocations EXCEPT ![s] = ip]
  /\ ip_to_service' = [ip_to_service EXCEPT ![ip] = s]
  /\ allocated_ips' = allocated_ips \cup {ip}

\* A service that has an address keeps it.
Allocate(s) ==
  /\ allocations[s] = None
  /\ \E ip \in Subnet : NextAvailable(ip) /\ Record(s, ip)

\* allocate_specific's refusal
M_TakenByGateway(s, ip) == ip_to_service[ip] = Gateway
M_TakenByService(s, ip) == ip_to_service[ip] \notin {None, s, Gateway}
TakenByOther(s, ip) == ip \in allocated_ips /\ ip_to_service[ip] \notin {None, s}

\* An address s had before stays recorded under it.
AllocateSpecific(s, ip) ==
  /\ ip \in Subnet
  /\ ~ TakenByOther(s, ip)
  /\ Record(s, ip)

M_Freed(ip) == ip_to_service
Freed(ip) == [ip_to_service EXCEPT ![ip] = None]

Release(s) ==
  LET ip == allocations[s] IN
  /\ ip # None
  /\ allocations' = [allocations EXCEPT ![s] = None]
  /\ ip_to_service' = Freed(ip)
  /\ allocated_ips' = allocated_ips \ {ip}

Next ==
  \E s \in Services : \/ Allocate(s) \/ Release(s)
                      \/ \E ip \in Subnet : AllocateSpecific(s, ip)

Spec == Init /\ [][Next]_vars

-----------------------------------------------------------------------------

TypeOK ==
  /\ allocations \in [Services -> Address \cup {None}]
  /\ ip_to_service \in [Address -> Services \cup {Gateway, None}]
  /\ allocated_ips \subseteq Address

\* An allocated address leads back to its service, and the fast lookup set is
\* exactly the reverse map's domain.
Consistent ==
  /\ \A s \in Services : allocations[s] # None => ip_to_service[allocations[s]] = s
  /\ allocated_ips = {ip \in Address : ip_to_service[ip] # None}

\* Two services never hold the same address, whatever mixture of allocate,
\* allocate_specific and release came before.
NoSharing ==
  \A s, t \in Services : (s # t /\ allocations[s] # None) => allocations[s] # allocations[t]

\* "Reserve the gateway IP (.1)": no service of another name is given it.
GatewayReserved == \A s \in Services \ {Gateway} : allocations[s] # GatewayIp

\* However the three collections are kept, what services see is a pool of
\* addresses.
Pool == INSTANCE AddressPool WITH holds <- allocations
ImplementsPool == Pool!Spec
=============================================================================
