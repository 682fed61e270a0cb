---------------------------- MODULE IPAMObjects ----------------------------
(***************************************************************************)
(* The cluster objects that the IPAM code shares: IPAllocation objects     *)
(* (internal/ipamapi/allocation.go), IPPool specs, and ResourceClaims.     *)
(* The API server is external; it is modelled by what its clients rely on: *)
(* Create succeeds only while the name is free, Delete honours a UID       *)
(* precondition, and no two objects ever carry the same UID.               *)
(***************************************************************************)
EXTENDS Integers, Sequences, FiniteSets

CONSTANTS
    Claims,      \* ResourceClaim UIDs
    ClaimName,   \* ClaimName[c]: namespace/name of claim c; UIDs may share it
    Pools,       \* IPPool names
    IPs,         \* IPv4 addresses
    Ones,        \* prefix lengths
    UIDs,        \* UIDs the API server gives to IPAllocation objects
    Malformed,   \* the UIDs of objects that have no claimRef.uid, by name
    PoolHistory, \* PoolHistory[p]: the specs pool p has, one per generation
    None         \* no claim, pool, node or address

NoUID == 0

\* A spec as ipPoolFromUnstructured reads it: prefix length, the addresses of
\* the subnet, spec.allocations expanded in order, and spec.reservations.
PoolSpec == [ones: Ones, subnet: SUBSET IPs, cands: Seq(IPs), resv: SUBSET IPs]

ASSUME ObjectsAssumption ==
    /\ None \notin Claims \cup Pools \cup IPs
    /\ UIDs \subseteq Nat \ {NoUID}
    /\ Ones \subseteq Nat
    /\ \A nm \in DOMAIN Malformed : Malformed[nm] \in UIDs
    /\ \A nm, x \in DOMAIN Malformed : Malformed[nm] = Malformed[x] => nm = x
    /\ PoolHistory \in [Pools -> Seq(PoolSpec)]
    /\ \A p \in Pools : Len(PoolHistory[p]) > 0

VARIABLES
    allocs,      \* IPAllocation objects, by name
    claim,       \* "absent", "live" or "gone", by claim UID
    gen          \* metadata.generation of each IPPool

objectVars == <<allocs, claim, gen>>

-----------------------------------------------------------------------------
\* Mutant: the prefix length is left out of what is hashed.
AllocationNameNoPrefix(p, ip, ones) == [pool |-> p, ip |-> ip, ones |-> 0]

\* AllocationName hashes the pool and the address with its prefix length, so
\* two allocations share a name exactly when they agree on all three.
AllocationName(p, ip, ones) == [pool |-> p, ip |-> ip, ones |-> ones]
Names == [pool: Pools, ip: IPs, ones: Ones]
NoName == [pool |-> None, ip |-> None, ones |-> 0]

\* The part of an IPAllocation object the code decides on.
Allocation == [claim: Claims \cup {None}, uid: UIDs \cup {NoUID},
               type: {"Static", "Dynamic"}]
NoAllocation == [claim |-> None, uid |-> NoUID, type |-> "Dynamic"]

Exists(nm) == allocs[nm].uid # NoUID

\* ParseAllocation accepts an object only if claimRef.uid is set.
ParseAllocation(nm) == Exists(nm) /\ allocs[nm].claim # None

\* Mutant: the claim is not compared.
AllocationsOfAnyone(c) == {nm \in Names : ParseAllocation(nm)}

\* The names FindForClaim and DeleteForClaim select from a List answer.
AllocationsOf(c) == {nm \in Names : ParseAllocation(nm) /\ allocs[nm].claim = c}

\* Create: the server admits the object under a UID nobody has seen.
NewAllocationObject(c, u, type) == [claim |-> c, uid |-> u, type |-> type]

CreateObject(nm, c, u, type) ==
    allocs' = [allocs EXCEPT ![nm] = NewAllocationObject(c, u, type)]

\* Mutant: the delete call has no precondition.
DeleteMatchesByName(nm, u) == Exists(nm)

\* Delete of name nm with Preconditions.UID = u.
DeleteMatches(nm, u) == allocs[nm].uid = u
DeleteConflicts(nm, u) == Exists(nm) /\ ~DeleteMatches(nm, u)
DeleteObject(nm, u) ==
    allocs' = IF DeleteMatches(nm, u)
              THEN [allocs EXCEPT ![nm] = NoAllocation] ELSE allocs

-----------------------------------------------------------------------------
\* ResourceClaims: a name is held by at most one live claim at a time, and a
\* new claim of the same name has a new UID.
LiveNamed(name) == {c \in Claims : claim[c] = "live" /\ ClaimName[c] = name}

CreateClaim(c) ==
    /\ claim[c] = "absent"
    /\ LiveNamed(ClaimName[c]) = {}
    /\ claim' = [claim EXCEPT ![c] = "live"]
    /\ UNCHANGED <<allocs, gen>>

DeleteClaim(c) ==
    /\ claim[c] = "live"
    /\ claim' = [claim EXCEPT ![c] = "gone"]
    /\ UNCHANGED <<allocs, gen>>

\* The administrator replaces the spec of a pool.
EditPool(p) ==
    /\ gen[p] < Len(PoolHistory[p])
    /\ gen' = [gen EXCEPT ![p] = @ + 1]
    /\ UNCHANGED <<allocs, claim>>

CurrentSpec(p) == PoolHistory[p][gen[p]]

ObjectsInit ==
    /\ allocs = [nm \in Names |->
                   IF nm \in DOMAIN Malformed
                   THEN [NoAllocation EXCEPT !.uid = Malformed[nm]] ELSE NoAllocation]
    /\ claim = [c \in Claims |-> "absent"]
    /\ gen = [p \in Pools |-> 1]

ObjectsTypeOK ==
    /\ allocs \in [Names -> Allocation]
    /\ claim \in [Claims -> {"absent", "live", "gone"}]
    /\ gen \in [Pools -> Nat \ {0}]
    /\ \A p \in Pools : gen[p] <= Len(PoolHistory[p])
=============================================================================
