---------------------------- MODULE MCClusterIPAM ----------------------------
(* Small instances of ClusterIPAM: one pool of two or three addresses, claims *)
(* that compete for them, an administrator who edits the pool once.           *)
EXTENDS ClusterIPAM, TLC

CONSTANTS n1, n2, c1, c2, p1, k1, k2

Spec24(cands, resv) == [ones |-> 24, subnet |-> IPs, cands |-> cands, resv |-> resv]
Spec25(cands, resv) == [ones |-> 25, subnet |-> IPs, cands |-> cands, resv |-> resv]

Dynamic == [pool |-> p1, address |-> NoAddress]
Static(ip) == [pool |-> p1, address |-> [ip |-> ip, ones |-> 24]]

\* Each claim has a name of its own, or the second one reuses the first's.
OwnNames == [x \in Claims |-> x]
SameName == [x \in Claims |-> c1]

\* Both claims take what is free, or the second asks for address 1.
BothDynamic == c1 :> <<Dynamic>> @@ c2 :> <<Dynamic>>
OneStatic == c1 :> <<Dynamic>> @@ c2 :> <<Static(1)>>
\* Each claim has two requests for the same pool.
TwoRequests == [x \in Claims |-> <<Dynamic, Dynamic>>]

\* The edit reserves address 1 and offers 2 and 1, out of order.
EditRanges == p1 :> <<Spec24(<<1, 2>>, {}), Spec24(<<2, 1>>, {1})>>
\* The edit makes the prefix of the subnet one bit longer.
EditPrefix == p1 :> <<Spec24(<<1>>, {}), Spec25(<<1>>, {})>>
OneAddress == p1 :> <<Spec24(<<1>>, {})>>
\* The edit reserves the only address and offers another one before it.
ReserveOne == p1 :> <<Spec24(<<1>>, {}), Spec24(<<2, 1>>, {1})>>

NoConfigPools == p1 :> NoSpec
\* The driver's config file offers only address 2.
FallbackPools == p1 :> Spec24(<<2>>, {})
\* An object made by hand, without a claim UID, holds the name of address 2.
MalformedTwo == AllocationName(p1, 2, 24) :> 7
NoMalformed == <<>>

\* Nodes and controllers are interchangeable, and so are claims that have
\* names of their own and the same requests.
NodeSymmetry == Permutations(Nodes)
Symmetry == NodeSymmetry \cup Permutations(Controllers) \cup Permutations(Claims)
==============================================================================
