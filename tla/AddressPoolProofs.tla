-------------------------- MODULE AddressPoolProofs --------------------------
(***************************************************************************)
(* Theorems about AddressPool for every width of an address, 32 included,  *)
(* and for any subnet, ranges and request.                                 *)
(***************************************************************************)
EXTENDS AddressPool, TLAPS

Steps == {"start", "static", "range", "list", "expand", "try", "done", "exhausted", "error"}

\* The range that is tried.
Tried == pool.allocations[range]
Listed == Len(Tried.addresses)

PoolTypes ==
    /\ pool \in [subnet: Subnets, allocations: Allocations, reservations: Reservations]
    /\ step \in Steps
    /\ range \in Nat \ {0} /\ next \in Nat \ {0}
    /\ ips \in Seq(IPs)
    /\ step \in {"list", "expand", "try"} => range <= Len(pool.allocations)

\* Nothing is chosen from ranges that were not validated.
Validated ==
    step \notin {"start", "error"} =>
        /\ validateIPRanges(pool.subnet, pool.allocations)
        /\ validateIPRanges(pool.subnet, pool.reservations)

\* A dynamic request never gets to the static step, and the reverse.
StepForRequest ==
    /\ step = "static" =>
         /\ request # NoRequest
         /\ normalizeRequestedAddress(pool.subnet, request)
         /\ ipInRanges(request.ip, pool.reservations)
    /\ step \in {"range", "list", "expand", "try", "exhausted"} => request = NoRequest

\* The rounds of expandIPRange: its loop counter is where the sequence ends.
ListRounds ==
    step = "list" =>
        /\ Len(ips) = next - 1 /\ Len(ips) <= Listed
        /\ \A i \in 1 .. Len(ips) : ips[i] = Tried.addresses[i]

ExpandedSoFar ==
    step \in {"expand", "try"} =>
        /\ Listed <= Len(ips)
        /\ \A i \in 1 .. Len(ips) :
             ips[i] = IF i <= Listed THEN Tried.addresses[i] ELSE Tried.first + (i - Listed - 1)

ExpandRounds ==
    step = "expand" =>
        /\ Tried.first \in IPs /\ Tried.last \in IPs
        /\ current = Tried.first + (Len(ips) - Listed)
        /\ current <= Tried.last /\ next = 1

ExpandEnd ==
    step = "try" =>
        Len(ips) = Listed + IF Tried.first \in IPs THEN Tried.last - Tried.first + 1 ELSE 0

\* Every address of range i is reserved or belongs to others.
Settled(i) == Covered(<<pool.allocations[i]>>) \subseteq Covered(pool.reservations) \cup refused

TopNotListed ==
    ~(\E i \in DOMAIN pool.allocations : Top \in Range(pool.allocations[i].addresses))

\* The ranges before this one and the candidates before this one are settled.
SettledSoFar ==
    TopNotListed =>
        /\ step \in {"start", "range", "list", "expand", "try"} =>
             \A i \in 1 .. range - 1 : i \in DOMAIN pool.allocations => Settled(i)
        /\ step = "try" => \A i \in 1 .. next - 1 :
             i \in DOMAIN ips => ips[i] \in Covered(pool.reservations) \cup refused
        /\ step = "exhausted" => \A i \in DOMAIN pool.allocations : Settled(i)

PoolInv ==
    /\ PoolTypes /\ Validated /\ StepForRequest
    /\ ListRounds /\ ExpandedSoFar /\ ExpandRounds /\ ExpandEnd
    /\ AddressFitsPool /\ SettledSoFar

-----------------------------------------------------------------------------
(* Facts about the operators.                                              *)

LEMMA Addresses ==
    /\ 2 ^ Width \in Nat \ {0}
    /\ IPs = 0 .. Top /\ Top \in Nat /\ IPs \subseteq Nat
    /\ NotIPv4 = Top + 1 /\ Empty = Top + 2
<1>1. 2 ^ Width \in Nat \ {0}
  BY AddressPoolAssumption
<1>2. QED
  BY <1>1 DEF IPs, Top, NotIPv4, Empty

LEMMA DivMonotonic ==
    ASSUME NEW b \in Nat \ {0}, NEW i \in Nat, NEW j \in Nat, i <= j
    PROVE  i \div b <= j \div b
  OBVIOUS

\* A subnet holds, with two addresses, those between them.
LEMMA SubnetConvex ==
    ASSUME NEW s \in Subnets, NEW i \in IPs, NEW j \in IPs, NEW ip \in IPs,
           InSubnet(s, i), InSubnet(s, j), i <= ip, ip <= j
    PROVE  InSubnet(s, ip)
<1>1. Block(s) \in Nat \ {0}
  <2>1. s.ones \in 0 .. Width /\ Width \in Nat
    BY AddressPoolAssumption
  <2>2. Width - s.ones \in 0 .. Width
    BY <2>1
  <2>3. QED
    BY <2>2, AddressPoolAssumption DEF Block
<1>2. i \in Nat /\ j \in Nat /\ ip \in Nat
  BY Addresses
<1>3. i \div Block(s) <= ip \div Block(s) /\ ip \div Block(s) <= j \div Block(s)
  BY <1>1, <1>2, DivMonotonic
<1>4. i \div Block(s) \in Int /\ ip \div Block(s) \in Int /\ j \div Block(s) \in Int
  BY <1>1, <1>2
<1>5. QED
  BY <1>3, <1>4 DEF InSubnet

\* Covered is what ipInRanges decides, and the union of what the ranges cover.
LEMMA CoveredIs ==
    ASSUME NEW rs \in Seq(IPRange), NEW ip \in IPs
    PROVE  ip \in Covered(rs) <=> ipInRanges(ip, rs)
<1>1. ASSUME NEW i \in DOMAIN rs, rs[i].first \in IPs, rs[i].last \in IPs
      PROVE  ip \in rs[i].first .. rs[i].last <=> rs[i].first <= ip /\ ip <= rs[i].last
  BY <1>1, Addresses
<1>2. QED
  BY <1>1 DEF Covered, ipInRanges

LEMMA CoveredOne ==
    ASSUME NEW r, NEW ip
    PROVE  ip \in Covered(<<r>>) <=>
             /\ ip \in IPs
             /\ \/ \E j \in DOMAIN r.addresses : r.addresses[j] = ip
                \/ r.first \in IPs /\ r.last \in IPs /\ ip \in r.first .. r.last
<1>1. DOMAIN <<r>> = {1} /\ <<r>>[1] = r
  OBVIOUS
<1>2. QED
  BY <1>1 DEF Covered

LEMMA CoveredParts ==
    ASSUME NEW rs \in Seq(IPRange), NEW ip
    PROVE  ip \in Covered(rs) <=> \E i \in DOMAIN rs : ip \in Covered(<<rs[i]>>)
<1>1. ip \in Covered(rs) <=>
        \E i \in DOMAIN rs :
            /\ ip \in IPs
            /\ \/ \E j \in DOMAIN rs[i].addresses : rs[i].addresses[j] = ip
               \/ rs[i].first \in IPs /\ rs[i].last \in IPs /\ ip \in rs[i].first .. rs[i].last
  BY DEF Covered
<1>2. QED
  BY <1>1, CoveredOne

\* What a validated range covers is in the subnet.
LEMMA ValidInSubnet ==
    ASSUME NEW s \in Subnets, NEW rs \in Seq(IPRange), validateIPRanges(s, rs),
           NEW ip \in Covered(rs)
    PROVE  ip \in IPs /\ InSubnet(s, ip)
<1>1. PICK i \in DOMAIN rs : ip \in Covered(<<rs[i]>>)
  BY CoveredParts
<1>2. ip \in IPs /\ ValidRange(s, rs[i])
  BY <1>1, CoveredOne DEF validateIPRanges
<1>3. CASE \E j \in DOMAIN rs[i].addresses : rs[i].addresses[j] = ip
  BY <1>2, <1>3 DEF ValidRange
<1>4. CASE rs[i].first \in IPs /\ rs[i].last \in IPs /\ ip \in rs[i].first .. rs[i].last
  <2>1. InSubnet(s, rs[i].first) /\ InSubnet(s, rs[i].last)
    BY <1>2, <1>4, Addresses DEF ValidRange
  <2>2. rs[i].first <= ip /\ ip <= rs[i].last
    BY <1>4, Addresses
  <2>3. QED
    BY <1>2, <1>4, <2>1, <2>2, SubnetConvex
<1>5. QED
  BY <1>1, <1>3, <1>4, CoveredOne

\* The range that is tried, its types and, once validated, its form.
LEMMA TriedIs ==
    ASSUME PoolTypes, Validated, step \in {"list", "expand", "try"}
    PROVE  /\ range \in DOMAIN pool.allocations
           /\ Tried \in IPRange /\ Listed \in Nat /\ DOMAIN Tried.addresses = 1 .. Listed
           /\ \A i \in 1 .. Listed : Tried.addresses[i] \in IPs
           /\ \/ Tried.first = Empty /\ Tried.last = Empty
              \/ Tried.first \in IPs /\ Tried.last \in IPs /\ Tried.first <= Tried.last
<1>1. pool.allocations \in Seq(IPRange)
  BY AddressPoolAssumption DEF PoolTypes
<1>2. range \in DOMAIN pool.allocations
  BY <1>1 DEF PoolTypes
<1>3. Tried \in IPRange
  BY <1>1, <1>2 DEF Tried
<1>4. Listed \in Nat /\ DOMAIN Tried.addresses = 1 .. Listed
  BY <1>3 DEF IPRange, Listed
<1>5. ValidRange(pool.subnet, Tried)
  BY <1>2 DEF Validated, validateIPRanges, Tried
<1>6. QED
  BY <1>2, <1>3, <1>4, <1>5 DEF ValidRange

-----------------------------------------------------------------------------
(* The inductive invariant.                                                *)

LEMMA PoolInvInit == PoolInit => PoolInv
<1> SUFFICES ASSUME PoolInit PROVE PoolInv
  OBVIOUS
<1>1. PoolTypes
  BY DEF PoolInit, PoolTypes, Steps
<1>2. AddressFitsPool
  BY DEF PoolInit, AddressFitsPool
<1>3. QED
  BY <1>1, <1>2 DEF PoolInit, PoolInv, Validated, StepForRequest, ListRounds, ExpandedSoFar,
                   ExpandRounds, ExpandEnd, SettledSoFar

LEMMA ApplyKeeps == PoolInv /\ applyIPAM => PoolInv'
<1> SUFFICES ASSUME PoolInv, applyIPAM PROVE PoolInv'
  OBVIOUS
<1> USE DEF PoolInv
<1>1. step = "start" /\ step' \in {"error", "range", "static"}
  BY DEF applyIPAM
<1>2. PoolTypes'
  BY <1>1 DEF PoolTypes, applyIPAM, Steps
<1>3. Validated' /\ StepForRequest'
  BY <1>1 DEF Validated, StepForRequest, applyIPAM
<1>4. ListRounds' /\ ExpandedSoFar' /\ ExpandRounds' /\ ExpandEnd'
  BY <1>1 DEF ListRounds, ExpandedSoFar, ExpandRounds, ExpandEnd
<1>5. AddressFitsPool'
  BY DEF AddressFitsPool, applyIPAM
<1>6. SettledSoFar'
  BY <1>1 DEF SettledSoFar, TopNotListed, Settled, applyIPAM
<1>7. QED
  BY <1>2, <1>3, <1>4, <1>5, <1>6

LEMMA StaticKeeps == PoolInv /\ reserveStatic => PoolInv'
<1> SUFFICES ASSUME PoolInv, reserveStatic PROVE PoolInv'
  OBVIOUS
<1> USE DEF PoolInv
<1>1. step = "static" /\ step' \in {"done", "error"}
  BY DEF reserveStatic
<1>2. PoolTypes'
  BY <1>1 DEF PoolTypes, reserveStatic, Steps
<1>3. Validated' /\ StepForRequest'
  BY <1>1 DEF Validated, StepForRequest, reserveStatic
<1>4. ListRounds' /\ ExpandedSoFar' /\ ExpandRounds' /\ ExpandEnd' /\ SettledSoFar'
  BY <1>1 DEF ListRounds, ExpandedSoFar, ExpandRounds, ExpandEnd, SettledSoFar
<1>5. AddressFitsPool'
  <2>1. CASE chosen' = chosen
    BY <2>1 DEF AddressFitsPool, reserveStatic
  <2>2. CASE chosen' = request.ip
    <3>1. request # NoRequest /\ request.ip \in IPs /\ InSubnet(pool.subnet, request.ip)
          /\ ipInRanges(request.ip, pool.reservations)
      BY <1>1 DEF StepForRequest, normalizeRequestedAddress
    <3>2. pool.reservations \in Seq(IPRange)
      BY AddressPoolAssumption DEF PoolTypes
    <3>3. request.ip \in Covered(pool.reservations)
      BY <3>1, <3>2, CoveredIs
    <3>4. QED
      BY <2>2, <3>1, <3>3 DEF AddressFitsPool, reserveStatic
  <2>3. QED
    BY <2>1, <2>2 DEF reserveStatic
<1>6. QED
  BY <1>2, <1>3, <1>4, <1>5

LEMMA StartRangeKeeps == PoolInv /\ startRange => PoolInv'
<1> SUFFICES ASSUME PoolInv, startRange PROVE PoolInv'
  OBVIOUS
<1> USE DEF PoolInv
<1>1. step = "range" /\ step' = "list"
  BY DEF startRange
<1>2. PoolTypes'
  BY <1>1 DEF PoolTypes, startRange, Steps
<1>3. Validated' /\ StepForRequest'
  BY <1>1 DEF Validated, StepForRequest, startRange
<1>4. ListRounds'
  <2>1. Listed' \in Nat
    <3>1. pool' = pool /\ range' = range /\ pool.allocations \in Seq(IPRange)
      BY AddressPoolAssumption DEF startRange, PoolTypes
    <3>2. Tried \in IPRange
      BY <3>1 DEF startRange, PoolTypes, Tried
    <3>3. QED
      BY <3>1, <3>2 DEF Listed, Tried, IPRange
  <2>2. QED
    BY <2>1 DEF ListRounds, startRange
<1>5. ExpandedSoFar' /\ ExpandRounds' /\ ExpandEnd'
  BY <1>1 DEF ExpandedSoFar, ExpandRounds, ExpandEnd
<1>6. AddressFitsPool'
  BY DEF AddressFitsPool, startRange
<1>7. SettledSoFar'
  BY <1>1 DEF SettledSoFar, TopNotListed, Settled, startRange
<1>8. QED
  BY <1>2, <1>3, <1>4, <1>5, <1>6, <1>7

LEMMA ListKeeps == PoolInv /\ expandList => PoolInv'
<1> SUFFICES ASSUME PoolInv, expandList PROVE PoolInv'
  OBVIOUS
<1> USE DEF PoolInv
<1>1. step = "list" /\ Tried' = Tried /\ Listed' = Listed
  BY DEF expandList, Tried, Listed
<1>2. /\ Tried \in IPRange /\ Listed \in Nat
      /\ \A i \in 1 .. Listed : Tried.addresses[i] \in IPs
      /\ \/ Tried.first = Empty /\ Tried.last = Empty
         \/ Tried.first \in IPs /\ Tried.last \in IPs /\ Tried.first <= Tried.last
  BY <1>1, TriedIs
<1>3. AddressFitsPool' /\ SettledSoFar'
  <2>1. step' \in {"list", "expand", "try"} /\ (step' = "try" => next' = 1)
    BY <1>1 DEF expandList
  <2>2. AddressFitsPool'
    BY DEF AddressFitsPool, expandList
  <2>3. SettledSoFar'
    BY <1>1, <2>1 DEF SettledSoFar, TopNotListed, Settled, expandList
  <2>4. QED
    BY <2>2, <2>3
<1>4. CASE next <= Listed
  <2>1. /\ step' = step /\ next' = next + 1
        /\ ips' = Append(ips, Tried.addresses[next])
    BY <1>2, <1>4 DEF expandList, Tried, Listed, PoolTypes
  <2>2. Tried.addresses[next] \in IPs
    BY <1>2, <1>4 DEF PoolTypes
  <2>3. /\ ips' \in Seq(IPs) /\ Len(ips') = Len(ips) + 1
        /\ \A i \in 1 .. Len(ips) : ips'[i] = ips[i]
        /\ ips'[Len(ips) + 1] = Tried.addresses[next]
    BY <2>1, <2>2 DEF PoolTypes
  <2>4. PoolTypes'
    BY <2>1, <2>3 DEF PoolTypes, expandList
  <2>5. Validated' /\ StepForRequest'
    BY <2>1 DEF Validated, StepForRequest, expandList
  <2>6. ListRounds'
    <3>1. Len(ips) = next - 1 /\ Len(ips) \in Nat
      BY <1>1 DEF ListRounds, PoolTypes
    <3>2. \A i \in 1 .. Len(ips') : ips'[i] = Tried.addresses[i]
      BY <1>1, <2>3, <3>1 DEF ListRounds, PoolTypes
    <3>3. QED
      BY <1>1, <1>4, <2>1, <2>3, <3>1, <3>2 DEF ListRounds, PoolTypes
  <2>7. ExpandedSoFar' /\ ExpandRounds' /\ ExpandEnd'
    BY <1>1, <2>1 DEF ExpandedSoFar, ExpandRounds, ExpandEnd
  <2>8. QED
    BY <1>3, <2>4, <2>5, <2>6, <2>7
<1>5. CASE next > Listed
  <2>1. /\ ips' = ips /\ next' = 1 /\ current' = Tried.first
        /\ step' = IF Tried.first \in IPs THEN "expand" ELSE "try"
    BY <1>2, <1>5, Addresses DEF expandList, Tried, Listed, PoolTypes
  <2>2. Len(ips) = Listed /\ \A i \in 1 .. Len(ips) : ips[i] = Tried.addresses[i]
    BY <1>1, <1>2, <1>5 DEF ListRounds, PoolTypes
  <2>3. PoolTypes'
    BY <1>1, <2>1 DEF PoolTypes, expandList, Steps
  <2>4. Validated' /\ StepForRequest'
    BY <1>1, <2>1 DEF Validated, StepForRequest, expandList
  <2>5. ListRounds' /\ ExpandedSoFar'
    BY <1>1, <1>2, <2>1, <2>2 DEF ListRounds, ExpandedSoFar
  <2>6. ExpandRounds' /\ ExpandEnd'
    BY <1>1, <1>2, <2>1, <2>2, Addresses DEF ExpandRounds, ExpandEnd
  <2>7. QED
    BY <1>3, <2>3, <2>4, <2>5, <2>6
<1>6. QED
  BY <1>2, <1>4, <1>5 DEF PoolTypes

LEMMA LoopKeeps == PoolInv /\ expandLoop => PoolInv'
<1> SUFFICES ASSUME PoolInv, expandLoop PROVE PoolInv'
  OBVIOUS
<1> USE DEF PoolInv
<1>1. step = "expand" /\ Tried' = Tried /\ Listed' = Listed
  BY DEF expandLoop, Tried, Listed
<1>2. /\ Tried \in IPRange /\ Listed \in Nat
      /\ Tried.first \in IPs /\ Tried.last \in IPs /\ Tried.first <= Tried.last
  BY <1>1, TriedIs, Addresses DEF ExpandRounds
<1>3. /\ current = Tried.first + (Len(ips) - Listed) /\ current <= Tried.last
      /\ Len(ips) \in Nat /\ Listed <= Len(ips)
  BY <1>1 DEF ExpandRounds, ExpandedSoFar, PoolTypes
<1>4. current \in IPs
  BY <1>2, <1>3, Addresses
<1>5. current # Top => current' = current + 1
  <2>1. current # Top => current + 1 \in 0 .. 2 ^ Width - 1
    BY <1>4, Addresses DEF Top
  <2>2. \A x \in 0 .. 2 ^ Width - 1 : x % 2 ^ Width = x
    BY Addresses
  <2>3. QED
    BY <2>1, <2>2 DEF expandLoop
<1>6. step' = IF current < Tried.last THEN "expand" ELSE "try"
  BY <1>2, <1>4, <1>5, Addresses DEF expandLoop, Tried
<1>7. /\ ips' \in Seq(IPs) /\ Len(ips') = Len(ips) + 1
      /\ \A i \in 1 .. Len(ips) : ips'[i] = ips[i]
      /\ ips'[Len(ips) + 1] = current
  BY <1>4 DEF expandLoop, PoolTypes
<1>8. PoolTypes'
  BY <1>1, <1>6, <1>7 DEF PoolTypes, expandLoop, Steps
<1>9. Validated' /\ StepForRequest' /\ ListRounds'
  BY <1>1, <1>6 DEF Validated, StepForRequest, ListRounds, expandLoop
<1>10. ExpandedSoFar'
  <2>1. \A i \in 1 .. Len(ips) :
          ips[i] = IF i <= Listed THEN Tried.addresses[i] ELSE Tried.first + (i - Listed - 1)
    BY <1>1 DEF ExpandedSoFar
  <2>2. ips'[Len(ips) + 1] = Tried.first + ((Len(ips) + 1) - Listed - 1)
    <3>1. \A f, n, l \in Nat : f + (n - l) = f + ((n + 1) - l - 1)
      OBVIOUS
    <3>2. Tried.first \in Nat
      BY <1>2, Addresses
    <3>3. QED
      BY <3>1, <3>2, <1>2, <1>3, <1>7
  <2>3. ASSUME NEW i \in 1 .. Len(ips')
        PROVE  ips'[i] = IF i <= Listed THEN Tried.addresses[i]
                         ELSE Tried.first + (i - Listed - 1)
    <3>1. CASE i \in 1 .. Len(ips)
      BY <3>1, <2>1, <1>7
    <3>2. CASE i = Len(ips) + 1
      BY <3>2, <2>2, <1>2, <1>3
    <3>3. QED
      BY <3>1, <3>2, <1>3, <1>7
  <2>4. Listed <= Len(ips')
    BY <1>2, <1>3, <1>7
  <2>5. QED
    BY <1>1, <2>3, <2>4 DEF ExpandedSoFar
<1>11. ExpandRounds'
  BY <1>1, <1>2, <1>3, <1>4, <1>5, <1>6, <1>7, Addresses DEF ExpandRounds, expandLoop
<1>12. ExpandEnd'
  BY <1>1, <1>2, <1>3, <1>4, <1>6, <1>7, Addresses DEF ExpandEnd
<1>13. AddressFitsPool'
  BY DEF AddressFitsPool, expandLoop
<1>14. next = 1
  BY <1>1 DEF ExpandRounds
<1>15. SettledSoFar'
  BY <1>1, <1>6, <1>14 DEF SettledSoFar, TopNotListed, Settled, expandLoop
<1>16. QED
  BY <1>8, <1>9, <1>10, <1>11, <1>12, <1>13, <1>15

\* When the candidates are tried, they are what the range covers, in order.
LEMMA CandidatesAre ==
    ASSUME PoolInv, step = "try"
    PROVE  /\ Len(ips) \in Nat /\ DOMAIN ips = 1 .. Len(ips)
           /\ \A ip : ip \in Covered(<<Tried>>) <=> \E i \in 1 .. Len(ips) : ips[i] = ip
<1> USE DEF PoolInv
<1>1. /\ Tried \in IPRange /\ Listed \in Nat /\ DOMAIN Tried.addresses = 1 .. Listed
      /\ \A i \in 1 .. Listed : Tried.addresses[i] \in IPs
      /\ \/ Tried.first = Empty /\ Tried.last = Empty
         \/ Tried.first \in IPs /\ Tried.last \in IPs /\ Tried.first <= Tried.last
  BY TriedIs
<1>2. Len(ips) \in Nat /\ DOMAIN ips = 1 .. Len(ips) /\ \A i \in 1 .. Len(ips) : ips[i] \in IPs
  BY DEF PoolTypes
<1>3. /\ Listed <= Len(ips)
      /\ \A i \in 1 .. Len(ips) :
           ips[i] = IF i <= Listed THEN Tried.addresses[i] ELSE Tried.first + (i - Listed - 1)
      /\ Len(ips) = Listed + IF Tried.first \in IPs THEN Tried.last - Tried.first + 1 ELSE 0
  BY DEF ExpandedSoFar, ExpandEnd
<1>4. ASSUME NEW i \in 1 .. Len(ips) PROVE ips[i] \in Covered(<<Tried>>)
  <2>1. CASE i <= Listed
    BY <2>1, <1>1, <1>2, <1>3, CoveredOne
  <2>2. CASE i > Listed
    <3>1. Tried.first \in IPs
      BY <2>2, <1>1, <1>2, <1>3
    <3>2. Tried.last \in IPs /\ ips[i] \in Tried.first .. Tried.last
      <4>1. /\ Tried.last \in IPs /\ Tried.first \in Nat /\ Tried.last \in Nat
            /\ Tried.first <= Tried.last
        BY <3>1, <1>1, Addresses
      <4>2. ips[i] = Tried.first + (i - Listed - 1)
        BY <2>2, <1>1, <1>3
      <4>3. i <= Listed + (Tried.last - Tried.first + 1) /\ i \in Nat
        BY <3>1, <1>2, <1>3
      <4>4. Tried.first + (i - Listed - 1) \in Tried.first .. Tried.last
        BY <2>2, <4>1, <4>3, <1>1
      <4>5. QED
        BY <4>1, <4>2, <4>4
    <3>3. QED
      BY <3>1, <3>2, <1>2, CoveredOne
  <2>3. QED
    BY <2>1, <2>2, <1>1
<1>5. ASSUME NEW ip \in Covered(<<Tried>>) PROVE \E i \in 1 .. Len(ips) : ips[i] = ip
  <2>1. CASE \E j \in DOMAIN Tried.addresses : Tried.addresses[j] = ip
    <3>1. PICK j \in 1 .. Listed : Tried.addresses[j] = ip
      BY <2>1, <1>1
    <3>2. j \in 1 .. Len(ips) /\ ips[j] = ip
      BY <3>1, <1>1, <1>2, <1>3
    <3>3. QED
      BY <3>2
  <2>2. CASE Tried.first \in IPs /\ Tried.last \in IPs /\ ip \in Tried.first .. Tried.last
    <3> DEFINE i == Listed + 1 + (ip - Tried.first)
    <3>1. Tried.first \in Nat /\ Tried.last \in Nat /\ ip \in Nat
          /\ Tried.first <= ip /\ ip <= Tried.last
      BY <2>2, Addresses
    <3>2. i \in 1 .. Len(ips) /\ i > Listed
      BY <3>1, <1>1, <1>2, <1>3, <2>2
    <3>3. ips[i] = Tried.first + (i - Listed - 1)
      BY <3>2, <1>1, <1>3
    <3>4. ips[i] = ip
      <4>1. \A f, n, l \in Nat : f + ((l + 1 + (n - f)) - l - 1) = n
        OBVIOUS
      <4>2. Tried.first + (i - Listed - 1) = ip
        BY <3>1, <1>1, <4>1
      <4>3. QED
        BY <3>3, <4>2
    <3>5. QED
      BY <3>2, <3>4
  <2>3. QED
    BY <2>1, <2>2, <1>5, CoveredOne
<1>6. QED
  BY <1>2, <1>4, <1>5

\* The top address, when it is not listed, is the last candidate.
LEMMA TopIsLast ==
    ASSUME PoolInv, step = "try", TopNotListed, next <= Len(ips), ips[next] = Top
    PROVE  next = Len(ips)
<1> USE DEF PoolInv
<1>1. /\ range \in DOMAIN pool.allocations
      /\ Listed \in Nat /\ DOMAIN Tried.addresses = 1 .. Listed
  BY TriedIs
<1>2. Len(ips) \in Nat /\ next \in 1 .. Len(ips) /\ \A i \in 1 .. Len(ips) : ips[i] \in IPs
  BY DEF PoolTypes
<1>3. \A i \in 1 .. Listed : Tried.addresses[i] # Top
  BY <1>1 DEF TopNotListed, Tried, Range
<1>4. next > Listed
  BY <1>1, <1>2, <1>3 DEF ExpandedSoFar
<1>5. Tried.first \in IPs
  BY <1>1, <1>2, <1>4 DEF ExpandEnd
<1>6. SUFFICES ASSUME next + 1 <= Len(ips) PROVE FALSE
  BY <1>2
<1>7. /\ ips[next] = Tried.first + (next - Listed - 1)
      /\ ips[next + 1] = Tried.first + (next + 1 - Listed - 1)
  BY <1>1, <1>2, <1>4, <1>6 DEF ExpandedSoFar
<1>8. ips[next + 1] \in IPs
  BY <1>2, <1>6
<1>9. Tried.first \in Nat /\ Top \in Nat /\ IPs = 0 .. Top
  BY <1>5, Addresses
<1>10. ips[next + 1] = ips[next] + 1
  BY <1>1, <1>2, <1>7, <1>9
<1>11. QED
  BY <1>8, <1>9, <1>10

\* Once all candidates are settled, so is the range.
LEMMA RangeSettled ==
    ASSUME PoolInv, step = "try", NEW W,
           \A i \in 1 .. Len(ips) : ips[i] \in Covered(pool.reservations) \cup W
    PROVE  Covered(<<pool.allocations[range]>>) \subseteq Covered(pool.reservations) \cup W
  BY CandidatesAre DEF Tried

LEMMA TryKeeps == PoolInv /\ tryCandidate => PoolInv'
<1> SUFFICES ASSUME PoolInv, tryCandidate PROVE PoolInv'
  OBVIOUS
<1> USE DEF PoolInv
<1> DEFINE reserved == Covered(pool.reservations)
<1>1. /\ step = "try" /\ request = NoRequest
      /\ pool' = pool /\ request' = request /\ ips' = ips
      /\ next \in Nat \ {0} /\ range \in Nat \ {0}
      /\ range <= Len(pool.allocations)
  BY DEF tryCandidate, StepForRequest, PoolTypes
<1>2. Len(ips) \in Nat /\ DOMAIN ips = 1 .. Len(ips) /\ \A i \in 1 .. Len(ips) : ips[i] \in IPs
  BY DEF PoolTypes
<1>3. pool.allocations \in Seq(IPRange) /\ pool.reservations \in Seq(IPRange)
      /\ pool.subnet \in Subnets
  BY AddressPoolAssumption DEF PoolTypes
<1>4. TopNotListed' = TopNotListed
  BY <1>1 DEF TopNotListed
<1>5. TopNotListed => /\ \A i \in 1 .. range - 1 : i \in DOMAIN pool.allocations => Settled(i)
                      /\ \A i \in 1 .. next - 1 : i \in DOMAIN ips => ips[i] \in reserved \cup refused
  BY <1>1 DEF SettledSoFar
\* The search goes on in the next range.
<1>6. ASSUME NextRange, chosen' = chosen, refused \subseteq refused',
             TopNotListed => \A i \in 1 .. Len(ips) : ips[i] \in reserved \cup refused'
      PROVE  PoolInv'
  <2>1. PoolTypes'
    BY <1>1, <1>6 DEF PoolTypes, NextRange, Steps
  <2>2. Validated' /\ StepForRequest'
    BY <1>1, <1>6 DEF Validated, StepForRequest, NextRange
  <2>3. ListRounds' /\ ExpandedSoFar' /\ ExpandRounds' /\ ExpandEnd'
    BY <1>6 DEF ListRounds, ExpandedSoFar, ExpandRounds, ExpandEnd, NextRange
  <2>4. AddressFitsPool'
    BY <1>1, <1>6 DEF AddressFitsPool
  <2>5. SettledSoFar'
    <3>1. ASSUME TopNotListed, NEW i \in 1 .. range, i \in DOMAIN pool.allocations
          PROVE  Covered(<<pool.allocations[i]>>) \subseteq reserved \cup refused'
      <4>1. CASE i = range
        BY <4>1, <1>1, <1>6, <3>1, RangeSettled
      <4>2. CASE i # range
        BY <4>2, <1>1, <1>5, <1>6, <3>1 DEF Settled
      <4>3. QED
        BY <4>1, <4>2
    <3>2. range' - 1 = range /\ step' = "range"
      BY <1>1, <1>6 DEF NextRange
    <3>3. QED
      BY <1>1, <1>4, <3>1, <3>2 DEF SettledSoFar, Settled
  <2>6. QED
    BY <2>1, <2>2, <2>3, <2>4, <2>5
\* The search goes on with the next candidate.
<1>7. ASSUME next <= Len(ips), next' = next + 1, step' = step, range' = range, chosen' = chosen,
             refused \subseteq refused', ips[next] \in reserved \cup refused'
      PROVE  PoolInv'
  <2>1. PoolTypes'
    BY <1>1, <1>7 DEF PoolTypes
  <2>2. Validated' /\ StepForRequest'
    BY <1>1, <1>7 DEF Validated, StepForRequest
  <2>3. ListRounds' /\ ExpandedSoFar' /\ ExpandRounds' /\ ExpandEnd'
    BY <1>1, <1>7 DEF ListRounds, ExpandedSoFar, ExpandRounds, ExpandEnd, Tried, Listed
  <2>4. AddressFitsPool'
    BY <1>1, <1>7 DEF AddressFitsPool
  <2>5. SettledSoFar'
    <3>1. ASSUME TopNotListed, NEW i \in 1 .. next PROVE ips[i] \in reserved \cup refused'
      BY <3>1, <1>1, <1>2, <1>5, <1>7
    <3>2. ASSUME TopNotListed, NEW i \in 1 .. range - 1, i \in DOMAIN pool.allocations
          PROVE  Covered(<<pool.allocations[i]>>) \subseteq reserved \cup refused'
      BY <3>2, <1>5, <1>7 DEF Settled
    <3>3. next' - 1 = next
      BY <1>1, <1>7
    <3>4. QED
      BY <1>1, <1>4, <1>7, <3>1, <3>2, <3>3 DEF SettledSoFar, Settled
  <2>6. QED
    BY <2>1, <2>2, <2>3, <2>4, <2>5
<1>8. CASE next > Len(ips) /\ NextRange /\ UNCHANGED <<refused, chosen>>
  <2>1. TopNotListed => \A i \in 1 .. Len(ips) : ips[i] \in reserved \cup refused
    BY <1>1, <1>2, <1>5, <1>8
  <2>2. QED
    BY <2>1, <1>6, <1>8
<1>9. CASE /\ next <= Len(ips) /\ ipInRanges(ips[next], pool.reservations)
           /\ next' = next + 1 /\ UNCHANGED <<step, range, refused, chosen>>
  <2>1. ips[next] \in reserved
    BY <1>1, <1>2, <1>3, <1>9, CoveredIs
  <2>2. QED
    BY <2>1, <1>7, <1>9
<1>10. CASE /\ next <= Len(ips) /\ ~ipInRanges(ips[next], pool.reservations)
            /\ chosen' = ips[next] /\ step' = "done" /\ UNCHANGED <<range, next, refused>>
  <2>1. PoolTypes'
    BY <1>1, <1>10 DEF PoolTypes, Steps
  <2>2. Validated' /\ StepForRequest'
    BY <1>1, <1>10 DEF Validated, StepForRequest
  <2>3. ListRounds' /\ ExpandedSoFar' /\ ExpandRounds' /\ ExpandEnd' /\ SettledSoFar'
    BY <1>10 DEF ListRounds, ExpandedSoFar, ExpandRounds, ExpandEnd, SettledSoFar
  <2>4. AddressFitsPool'
    <3>1. ips[next] \in IPs /\ ips[next] \notin reserved
      BY <1>1, <1>2, <1>3, <1>10, CoveredIs
    <3>2. ips[next] \in Covered(<<pool.allocations[range]>>)
      BY <1>1, <1>2, <1>10, CandidatesAre DEF Tried
    <3>3. ips[next] \in Covered(pool.allocations)
      <4>1. range \in DOMAIN pool.allocations
        BY <1>1, TriedIs
      <4>2. QED
        BY <3>2, <4>1, <1>3, CoveredParts
    <3>4. InSubnet(pool.subnet, ips[next])
      BY <3>3, <1>1, <1>3, ValidInSubnet DEF Validated
    <3>5. QED
      BY <1>1, <1>10, <3>1, <3>3, <3>4 DEF AddressFitsPool
  <2>5. QED
    BY <2>1, <2>2, <2>3, <2>4
<1>11. CASE /\ next <= Len(ips) /\ afterRefusal
            /\ refused' = refused \cup {ips[next]} /\ UNCHANGED chosen
  <2>1. CASE ips[next] = Top /\ NextRange
    <3>1. TopNotListed => \A i \in 1 .. Len(ips) : ips[i] \in reserved \cup refused'
      BY <1>1, <1>2, <1>5, <1>11, <2>1, TopIsLast
    <3>2. QED
      BY <3>1, <2>1, <1>6, <1>11
  <2>2. CASE next' = next + 1 /\ UNCHANGED <<step, range>>
    BY <2>2, <1>7, <1>11
  <2>3. QED
    BY <2>1, <2>2, <1>11 DEF afterRefusal
<1>12. QED
  BY <1>8, <1>9, <1>10, <1>11 DEF tryCandidate

LEMMA NoFreeKeeps == PoolInv /\ noFreeAddress => PoolInv'
<1> SUFFICES ASSUME PoolInv, noFreeAddress PROVE PoolInv'
  OBVIOUS
<1> USE DEF PoolInv
<1>1. step = "range" /\ step' = "exhausted"
  BY DEF noFreeAddress
<1>2. PoolTypes' /\ Validated' /\ StepForRequest' /\ AddressFitsPool'
  BY <1>1 DEF PoolTypes, Validated, StepForRequest, AddressFitsPool, noFreeAddress, Steps
<1>3. ListRounds' /\ ExpandedSoFar' /\ ExpandRounds' /\ ExpandEnd'
  BY <1>1 DEF ListRounds, ExpandedSoFar, ExpandRounds, ExpandEnd
<1>4. SettledSoFar'
  <2>1. pool.allocations \in Seq(IPRange)
    BY AddressPoolAssumption DEF PoolTypes
  <2>2. \A i \in DOMAIN pool.allocations : i \in 1 .. range - 1
    BY <2>1 DEF noFreeAddress, PoolTypes
  <2>3. QED
    BY <1>1, <2>2 DEF SettledSoFar, TopNotListed, Settled, noFreeAddress
<1>5. QED
  BY <1>2, <1>3, <1>4

LEMMA PoolInvNext == PoolInv /\ [PoolNext]_poolVars => PoolInv'
<1> SUFFICES ASSUME PoolInv, [PoolNext]_poolVars PROVE PoolInv'
  OBVIOUS
<1>1. CASE UNCHANGED poolVars
  BY <1>1 DEF poolVars, PoolInv, PoolTypes, Validated, StepForRequest, ListRounds, ExpandedSoFar,
              ExpandRounds, ExpandEnd, AddressFitsPool, SettledSoFar, TopNotListed, Settled,
              Tried, Listed
<1>2. QED
  BY <1>1, ApplyKeeps, StaticKeeps, StartRangeKeeps, ListKeeps, LoopKeeps, TryKeeps, NoFreeKeeps
     DEF PoolNext

LEMMA PoolInvAlways == PoolSpec => []PoolInv
  BY PoolInvInit, PoolInvNext, PTL DEF PoolSpec

-----------------------------------------------------------------------------
\* An address that is given away is in the subnet of its pool; a dynamic one
\* is allocatable and not reserved, a static one is the one asked for and
\* reserved.
THEOREM ChosenFitsPool == PoolSpec => []AddressFitsPool
  BY PoolInvAlways, PTL DEF PoolInv

\* expandIPRange makes of a validated range its addresses, each of the interval
\* once and in order, and its loop ends also at the top of the address space.
THEOREM ExpandsExactly == PoolSpec => []ExpansionExact
<1>1. PoolInv => ExpansionExact
  <2> SUFFICES ASSUME PoolInv, step \in {"expand", "try"}
               PROVE  /\ Len(ips) <= Listed + Top + 1
                      /\ \A i \in 1 .. Len(ips) :
                           ips[i] = IF i <= Listed THEN Tried.addresses[i]
                                    ELSE Tried.first + (i - Listed - 1)
                      /\ step = "try" => Range(ips) = Covered(<<Tried>>)
    BY DEF ExpansionExact, Listed, Tried
  <2> USE DEF PoolInv
  <2>1. /\ Listed \in Nat /\ Len(ips) \in Nat
        /\ \/ Tried.first = Empty /\ Tried.last = Empty
           \/ Tried.first \in IPs /\ Tried.last \in IPs /\ Tried.first <= Tried.last
    BY TriedIs DEF PoolTypes
  <2>2. Len(ips) <= Listed + Top + 1
    <3>1. CASE step = "expand"
      BY <3>1, <2>1, Addresses DEF ExpandRounds
    <3>2. CASE step = "try"
      BY <3>2, <2>1, Addresses DEF ExpandEnd
    <3>3. QED
      BY <3>1, <3>2
  <2>3. step = "try" => Range(ips) = Covered(<<Tried>>)
    BY CandidatesAre DEF Range
  <2>4. QED
    BY <2>2, <2>3 DEF ExpandedSoFar
<1>2. QED
  BY <1>1, PoolInvAlways, PTL

\* "pool has no free addresses" is said only when others have every address of
\* the pool that is not reserved, where no list names the top address.
THEOREM SearchComplete == PoolSpec => []DynamicComplete
<1>1. PoolInv => DynamicComplete
  <2> SUFFICES ASSUME PoolInv, step = "exhausted", TopNotListed, NEW ip \in Covered(pool.allocations),
                      ip \notin Covered(pool.reservations)
               PROVE  ip \in refused
    BY DEF DynamicComplete, TopNotListed
  <2>1. pool.allocations \in Seq(IPRange)
    BY AddressPoolAssumption DEF PoolInv, PoolTypes
  <2>2. PICK i \in DOMAIN pool.allocations : ip \in Covered(<<pool.allocations[i]>>)
    BY <2>1, CoveredParts
  <2>3. QED
    BY <2>2 DEF PoolInv, SettledSoFar, Settled
<1>2. QED
  BY <1>1, PoolInvAlways, PTL
=============================================================================
