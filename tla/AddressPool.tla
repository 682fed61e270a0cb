----------------------------- MODULE AddressPool -----------------------------
(***************************************************************************)
(* How an address is chosen from an IPPool: the ranges are checked, each   *)
(* is expanded in a loop over unsigned integers, and the candidates that   *)
(* are not reserved are tried one after the other                          *)
(* (internal/driver/ipam.go).  NodeIPAM has the calls to the API server;   *)
(* here is the arithmetic, at a width that TLC can enumerate.              *)
(***************************************************************************)
EXTENDS Integers, SequencesExt

CONSTANTS
    Width,         \* bits of an address (32 in the code)
    Subnets,       \* the subnets that a pool may have: [base, ones]
    Allocations,   \* the values of spec.allocations, sequences of ranges
    Reservations,  \* the values of spec.reservations
    Requests       \* the static addresses asked for, and NoRequest

IPs == 0 .. (2 ^ Width - 1)
Top == 2 ^ Width - 1

\* A text that net.ParseIP or To4 refuses, and an empty one.
NotIPv4 == 2 ^ Width
Empty == 2 ^ Width + 1
Texts == IPs \cup {NotIPv4, Empty}
NoRequest == [ip |-> Empty, ones |-> 0]
IPRange == [addresses: Seq(IPs \cup {NotIPv4}), first: Texts, last: Texts]

ASSUME AddressPoolAssumption ==
    /\ Width \in Nat \ {0}
    /\ \A k \in 0 .. Width : 2 ^ k \in Nat \ {0}   \* arithmetic, stated for the proofs
    /\ \A s \in Subnets : s.base \in IPs /\ s.ones \in 0 .. Width
    /\ Allocations \cup Reservations \subseteq Seq(IPRange)

VARIABLES
    pool,     \* the pool: its subnet, allocations and reservations
    request,  \* the static address asked for, or NoRequest
    step,     \* where applyIPAM is
    range,    \* the index of the range that is tried
    current,  \* the counter of the loop in expandIPRange
    ips,      \* what expandIPRange has collected
    next,     \* the index of the candidate that is tried
    refused,  \* the addresses that others were found to have
    chosen    \* the address that was reserved, or Empty

poolVars == <<pool, request, step, range, current, ips, next, refused, chosen>>

Block(s) == 2 ^ (Width - s.ones)
InSubnet(s, ip) == ip \div Block(s) = s.base \div Block(s)

\* validateIPRanges for one range.
ValidRange(s, r) ==
    /\ \A i \in DOMAIN r.addresses : r.addresses[i] \in IPs /\ InSubnet(s, r.addresses[i])
    /\ \/ r.first = Empty /\ r.last = Empty
       \/ /\ r.first \in IPs /\ r.last \in IPs
          /\ InSubnet(s, r.first) /\ InSubnet(s, r.last)
          /\ r.first <= r.last
validateIPRanges(s, rs) == \A i \in DOMAIN rs : ValidRange(s, rs[i])

\* Mutant: the end of a range is not part of it.
ipInRangesOpen(ip, rs) ==
    \E i \in DOMAIN rs :
        \/ \E j \in DOMAIN rs[i].addresses : rs[i].addresses[j] = ip
        \/ rs[i].first \in IPs /\ rs[i].last \in IPs /\ rs[i].first <= ip /\ ip < rs[i].last

ipInRanges(ip, rs) ==
    \E i \in DOMAIN rs :
        \/ \E j \in DOMAIN rs[i].addresses : rs[i].addresses[j] = ip
        \/ rs[i].first \in IPs /\ rs[i].last \in IPs /\ rs[i].first <= ip /\ ip <= rs[i].last

\* normalizeRequestedAddress accepts an address of the subnet, with its prefix.
normalizeRequestedAddress(s, r) ==
    r.ip \in IPs /\ InSubnet(s, r.ip) /\ r.ones = s.ones

\* applyIPAM up to the choice between static and dynamic, for a claim that has no
\* IPAllocation yet: one that has keeps its address without any of the checks
\* (NodeIPAM!FindForClaim).
applyIPAM ==
    /\ step = "start"
    /\ step' = IF ~validateIPRanges(pool.subnet, pool.allocations)
                  \/ ~validateIPRanges(pool.subnet, pool.reservations) THEN "error"
               ELSE IF request = NoRequest THEN "range"
               ELSE IF normalizeRequestedAddress(pool.subnet, request)
                       /\ ipInRanges(request.ip, pool.reservations) THEN "static"
               ELSE "error"
    /\ UNCHANGED <<pool, request, range, current, ips, next, refused, chosen>>

\* A static address is reserved, or another claim has it.
reserveStatic ==
    /\ step = "static"
    /\ \/ chosen' = request.ip /\ step' = "done" /\ UNCHANGED refused
       \/ step' = "error" /\ refused' = {request.ip} /\ UNCHANGED chosen
    /\ UNCHANGED <<pool, request, range, current, ips, next>>

\* reserveDynamicAddress comes to a range and calls expandIPRange.
startRange ==
    /\ step = "range" /\ range <= Len(pool.allocations)
    /\ step' = "list" /\ ips' = <<>> /\ next' = 1
    /\ UNCHANGED <<pool, request, range, current, refused, chosen>>

\* expandIPRange, first the listed addresses, those that parse.
expandList ==
    /\ step = "list"
    /\ LET r == pool.allocations[range] IN
       \/ /\ next <= Len(r.addresses)
          /\ ips' = IF r.addresses[next] \in IPs THEN Append(ips, r.addresses[next]) ELSE ips
          /\ next' = next + 1 /\ UNCHANGED <<step, current>>
       \/ /\ next > Len(r.addresses)
          /\ step' = IF r.first \in IPs /\ r.last \in IPs /\ r.first <= r.last
                     THEN "expand" ELSE "try"
          /\ current' = r.first /\ next' = 1 /\ UNCHANGED ips
    /\ UNCHANGED <<pool, request, range, refused, chosen>>

\* Mutant: the counter may wrap.
expandLoopWraps ==
    /\ step = "expand"
    /\ ips' = Append(ips, current)
    /\ current' = (current + 1) % 2 ^ Width
    /\ step' = IF current' <= pool.allocations[range].last THEN "expand" ELSE "try"
    /\ UNCHANGED <<pool, request, range, next, refused, chosen>>

\* One round of the loop in expandIPRange: the counter is not increased at the
\* top, where it would wrap to a value that is within the range again.
expandLoop ==
    /\ step = "expand"
    /\ ips' = Append(ips, current)
    /\ current' = IF current = Top THEN current ELSE (current + 1) % 2 ^ Width
    /\ step' = IF current # Top /\ current' <= pool.allocations[range].last THEN "expand" ELSE "try"
    /\ UNCHANGED <<pool, request, range, next, refused, chosen>>

NextRange == range' = range + 1 /\ step' = "range" /\ UNCHANGED next

\* Mutant: the top address ends the search in all ranges.
afterRefusalEnds ==
    IF ips[next] = Top THEN step' = "exhausted" /\ UNCHANGED <<range, next>>
    ELSE next' = next + 1 /\ UNCHANGED <<step, range>>

\* reserveDynamicAddress after AlreadyExists: the top address ends its range.
afterRefusal ==
    IF ips[next] = Top THEN NextRange
    ELSE next' = next + 1 /\ UNCHANGED <<step, range>>

\* One candidate in the loop of reserveDynamicAddress.
tryCandidate ==
    /\ step = "try"
    /\ \/ next > Len(ips) /\ NextRange /\ UNCHANGED <<refused, chosen>>
       \/ /\ next <= Len(ips) /\ ipInRanges(ips[next], pool.reservations)
          /\ next' = next + 1 /\ UNCHANGED <<step, range, refused, chosen>>
       \/ /\ next <= Len(ips) /\ ~ipInRanges(ips[next], pool.reservations)
          /\ \/ chosen' = ips[next] /\ step' = "done" /\ UNCHANGED <<range, next, refused>>
             \/ afterRefusal /\ refused' = refused \cup {ips[next]} /\ UNCHANGED chosen
    /\ UNCHANGED <<pool, request, current, ips>>

\* "pool has no free addresses".
noFreeAddress ==
    /\ step = "range" /\ range > Len(pool.allocations)
    /\ step' = "exhausted"
    /\ UNCHANGED <<pool, request, range, current, ips, next, refused, chosen>>

PoolInit ==
    /\ pool \in [subnet: Subnets, allocations: Allocations, reservations: Reservations]
    /\ request \in Requests
    /\ step = "start"
    /\ range = 1 /\ current = Empty /\ ips = <<>> /\ next = 1
    /\ refused = {} /\ chosen = Empty

PoolNext ==
    applyIPAM \/ reserveStatic \/ startRange \/ expandList \/ expandLoop \/ tryCandidate \/ noFreeAddress

PoolSpec == PoolInit /\ [][PoolNext]_poolVars

-----------------------------------------------------------------------------
\* The addresses that ranges stand for.
Covered(rs) ==
    UNION {{ip \in IPs : (\E j \in DOMAIN rs[i].addresses : rs[i].addresses[j] = ip)
                          \/ (rs[i].first \in IPs /\ rs[i].last \in IPs /\ ip \in rs[i].first .. rs[i].last)}
           : i \in DOMAIN rs}

\* expandIPRange yields the listed addresses and then each address of the range
\* once, in order, also for a range that ends at the top of the address space;
\* it never goes round.
ExpansionExact ==
    step \in {"expand", "try"} =>
        LET r == pool.allocations[range]
            listed == Len(r.addresses) IN
        /\ Len(ips) <= listed + Top + 1
        /\ \A i \in 1 .. Len(ips) :
             ips[i] = IF i <= listed THEN r.addresses[i] ELSE r.first + (i - listed - 1)
        /\ step = "try" => Range(ips) = Covered(<<r>>)

\* What is given away fits the pool: it is in the subnet, and the reserved
\* addresses are for static requests only, which no dynamic one can take.
AddressFitsPool ==
    chosen # Empty =>
        /\ InSubnet(pool.subnet, chosen)
        /\ IF request = NoRequest
           THEN chosen \in Covered(pool.allocations) \ Covered(pool.reservations)
           ELSE chosen = request.ip /\ chosen \in Covered(pool.reservations)

\* A dynamic request fails only when others have every address of the pool that
\* is not reserved.  A list that names the top address is left out: what comes
\* after it in the same range is not tried.
DynamicComplete ==
    step = "exhausted" /\ ~(\E i \in DOMAIN pool.allocations :
                              Top \in Range(pool.allocations[i].addresses)) =>
        Covered(pool.allocations) \ Covered(pool.reservations) \subseteq refused
=============================================================================
