--------------------------- MODULE MCClaimRecords ---------------------------
(* A Pod with two claims and five devices.                                   *)
EXTENDS ClaimRecords, TLC

CONSTANTS a, b, lan, san

TwoClaims == a :> <<"link", "dpdk", "foreign">> @@ b :> <<"link", "host-device">>

\* The links ask for net1 and the host-device for net2; DPDK devices and those
\* of another driver have no name.
SomeNames == [k \in Keys |-> CASE Kind(k) = "link" -> 1 [] Kind(k) = "host-device" -> 2
                               [] OTHER -> NoName]

NoAnnotation == [claim |-> [c \in Claims |-> NoName], request |-> [k \in Keys |-> NoName]]
SomeAnnotations ==
    {NoAnnotation, [NoAnnotation EXCEPT !.claim[a] = lan, !.request[<<b, 1>>] = san]}
=============================================================================
