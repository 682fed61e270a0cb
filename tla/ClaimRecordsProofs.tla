-------------------------- MODULE ClaimRecordsProofs --------------------------
(***************************************************************************)
(* Proofs about ClaimRecords, for every Pod: any number of claims, devices *)
(* and faults.                                                             *)
(***************************************************************************)
EXTENDS ClaimRecords, TLAPS, WellFoundedInduction

-----------------------------------------------------------------------------
(* Types *)

AnyStatus == UNION {Status(c) : c \in Claims}

\* A handler at work, and where each of them can be.
Work == [op: {"prepare", "run", "unprepare"}, claim: Claims, i: Nat,
         pc: {"device", "record", "get", "update", "pod", "specs", "forget"}, seen: AnyStatus]

Reporting == {"get", "update", "pod"}

GoodHandler(x) ==
    \/ x = Idle
    \/ /\ x \in Work
       /\ x.i \in 1 .. Len(Results[x.claim])
       /\ x.seen \in Status(x.claim)
       /\ x.op = "prepare" => x.pc \in {"device", "record"} \cup Reporting
       /\ x.op = "run" => x.pc \in Reporting
       /\ x.op = "unprepare" => x.pc \in {"get", "update", "specs", "forget"}

Types ==
    /\ mem \in [Keys -> Device] /\ disk \in [Keys -> Device]
    /\ specs \subseteq {k \in Keys : Kind(k) = "dpdk"}
    /\ status \in [Claims -> AnyStatus] /\ \A c \in Claims : status[c] \in Status(c)
    /\ GoodHandler(h)
    /\ up \in BOOLEAN
    /\ claim \in [Claims -> {"new", "prepared", "done"}]
    /\ pod \in {"preparing", "started", "terminating"}
    /\ annotations \in Annotations
    /\ faults \in 0 .. MaxFaults

-----------------------------------------------------------------------------
(* The inductive invariant *)

\* Store s of the driver: a link in it has a name, and no two have the same.
Named(s) ==
    \A k \in Keys : /\ Kind(k) = "dpdk" => s[k].name = NoName
                    /\ Kind(k) = "link" /\ s[k].known => s[k].name # NoName

Distinct(s) ==
    \A k, l \in Keys : k # l /\ s[k].name = s[l].name /\ s[k].name # NoName =>
        "host-device" \in {Kind(k), Kind(l)}

\* Store s has what the status says; the maps do too, for they are what the
\* next write puts in the file.
Backs(s) ==
    \A k \in Keys : Own(k).known =>
        /\ s[k].known
        /\ s[k].name = Own(k).name
        /\ Own(k).live => s[k].live

Stores ==
    /\ Named(mem) /\ Distinct(mem)
    /\ Named(disk) /\ Distinct(disk)
    /\ Backs(disk)
    /\ up => Backs(mem)

\* No device is in use before the Pod starts, so Prepare takes nothing back.
NoneLive ==
    \A k \in Keys : ~mem[k].live /\ ~disk[k].live /\ ~Own(k).live

\* What StartedComplete asks of a device; the record follows by Backs.
Complete(k) ==
    Kind(k) # "foreign" => Own(k).known /\ (Kind(k) = "dpdk" => k \in specs)

\* How far the handler has come.
Progressed ==
    /\ ~up => h = Idle
    /\ h.op \in {"prepare", "run"} =>
         /\ claim[h.claim] # "done"
         /\ h.pc \in Reporting => disk = mem /\ mem[Key].known
         /\ h.pc = "pod" => Own(Key).known
    /\ h.op = "prepare" =>
         /\ claim[h.claim] = "new" /\ pod # "started"
         /\ \A j \in 1 .. h.i - 1 : Complete(<<h.claim, j>>)
         /\ Kind(Key) = "dpdk" /\ h.pc # "device" => Key \in specs
         /\ h.pc = "record" => Kind(Key) = "dpdk"
    /\ h.op = "run" => pod # "preparing"
    /\ h.op = "unprepare" =>
         /\ pod = "terminating"
         /\ h.pc \in {"specs", "forget"} => \A k \in Keys : k[1] = h.claim => ~Own(k).known
         /\ h.pc = "forget" => specsOf(h.claim) = {}

\* What the kubelet may conclude from the answers it got.
Answered ==
    /\ pod = "preparing" \/ h.op = "prepare" => NoneLive
    /\ pod = "started" => \A c \in Claims : claim[c] = "prepared"
    /\ \A c \in Claims : /\ claim[c] = "done" => pod = "terminating"
                         /\ claim[c] = "prepared" /\ pod # "terminating" =>
                              \A k \in Keys : k[1] = c => Complete(k)
    /\ CleanWhenDone

RecordsInv == Types /\ Stores /\ Progressed /\ Answered

-----------------------------------------------------------------------------
(* Devices, names and the configuration that Prepare makes *)

LEMMA KeyPairs ==
    /\ \A c \in Claims : \A i \in 1 .. Len(Results[c]) : <<c, i>> \in Keys
    /\ \A k \in Keys : /\ k = <<k[1], k[2]>> /\ k[1] \in Claims
                       /\ k[2] \in 1 .. Len(Results[k[1]])
<1>1. ASSUME NEW c \in Claims, NEW i \in 1 .. Len(Results[c]) PROVE <<c, i>> \in Keys
    <2>1. <<c, i>> \in {c} \X (1 .. Len(Results[c]))
        OBVIOUS
    <2> QED BY <2>1 DEF Keys
<1>2. ASSUME NEW k \in Keys
      PROVE  k = <<k[1], k[2]>> /\ k[1] \in Claims /\ k[2] \in 1 .. Len(Results[k[1]])
    <2>1. PICK c \in Claims : k \in {c} \X (1 .. Len(Results[c]))
        BY DEF Keys
    <2> QED BY <2>1
<1> QED BY <1>1, <1>2

LEMMA KindTypes ==
    ASSUME NEW k \in Keys
    PROVE  Kind(k) \in {"link", "host-device", "dpdk", "foreign"}
<1>1. Results[k[1]] \in Seq({"link", "host-device", "dpdk", "foreign"})
    BY KeyPairs, ClaimRecordsAssumption
<1>2. k[2] \in 1 .. Len(Results[k[1]])
    BY KeyPairs
<1> QED BY <1>1, <1>2 DEF Kind

LEMMA LeastNumber ==
    ASSUME NEW S \in SUBSET Nat, S # {}
    PROVE  \E n \in S : \A m \in S : n <= m
<1> DEFINE R == OpToRel(<, Nat)
<1>1. PICK n \in S : \A m \in S : ~(<<m, n>> \in R)
    BY WFMin, NatLessThanWellFounded
<1>2. \A m \in S : ~(m < n)
    BY <1>1 DEF OpToRel
<1> QED BY <1>2

\* podInterfaceName gives the name that the device has, or one that is valid
\* and that no other device in the store has, or none.
LEMMA PodInterfaceName ==
    ASSUME Types, NEW k \in Keys
    PROVE  /\ podInterfaceName(k) \in Names
           /\ \/ mem[k].name # NoName /\ podInterfaceName(k) = mem[k].name
              \/ podInterfaceName(k) = NoName
              \/ \A l \in Keys : mem[l].name # podInterfaceName(k)
<1> DEFINE used == usedNames(k)
           wanted == IF Configured[k] = NoName THEN 1 ELSE Configured[k]
           later == IF wanted \in 1 .. (NetLimit - 1) THEN (wanted + 1) .. (NetLimit - 1) ELSE {}
           free == later \ used
           next == CHOOSE n \in free : \A m \in free : n <= m
<1>1. \A x : x \notin used => \A l \in Keys : mem[l].name # x
    BY DEF usedNames
<1>2. mem[k].name \in Names
    BY DEF Types, Device
<1>3. ValidNames \subseteq Names /\ NoName \in Names
    BY DEF Names
<1>4. free # {} => next \in ValidNames \ used
    <2>1. later \subseteq 1 .. (NetLimit - 1) /\ later \subseteq Nat
        BY ClaimRecordsAssumption
    <2>2. free # {} => \E n \in free : \A m \in free : n <= m
        <3> HIDE DEF later
        <3> QED BY <2>1, LeastNumber
    <2>3. free # {} => next \in free
        <3> HIDE DEF free
        <3> QED BY <2>2
    <2> QED BY <2>1, <2>3, ClaimRecordsAssumption
<1>5. podInterfaceName(k) =
          IF mem[k].name # NoName THEN mem[k].name
          ELSE IF override(k) # NoName
               THEN IF override(k) \in ValidNames \ used THEN override(k) ELSE NoName
          ELSE IF wanted \notin ValidNames THEN NoName
          ELSE IF wanted \notin used THEN wanted
          ELSE IF free # {} THEN next ELSE NoName
    BY DEF podInterfaceName, existingName
<1> HIDE DEF used, wanted, free, next
<1> QED BY <1>1, <1>2, <1>3, <1>4, <1>5

\* The store with device k written.
Written(k, d) == [mem EXCEPT ![k] = d]

\* A device is recorded under the name that it has, or under a new one.
PreparedWell(k, d, m) ==
    /\ d \in Device /\ d.known /\ ~d.live
    /\ mem[k].known => d.name = mem[k].name
    /\ m \in [Keys -> Device] /\ Named(m) /\ Distinct(m)
    /\ m[k] = d /\ \A l \in Keys : l # k => m[l] = mem[l]

LEMMA PreparedNames ==
    ASSUME Types, Stores, NEW k \in Keys, Kind(k) # "foreign",
           Kind(k) # "dpdk" => PreparedDevice(k).name # NoName
    PROVE  PreparedWell(k, PreparedDevice(k), Written(k, PreparedDevice(k)))
<1>g. SUFFICES ASSUME NEW d, d = PreparedDevice(k), NEW m, m = Written(k, d)
               PROVE  PreparedWell(k, d, m)
    OBVIOUS
<1> USE DEF PreparedWell
<1>0. /\ mem \in [Keys -> Device] /\ Kind(k) \in {"link", "host-device", "dpdk"}
      /\ Named(mem) /\ Distinct(mem) /\ mem[k] \in Device
    BY KindTypes DEF Types, Stores
<1>1. m[k] = d /\ (\A l \in Keys : l # k => m[l] = mem[l]) /\ m = [mem EXCEPT ![k] = d]
    BY <1>0, <1>g DEF Written
<1>2. CASE Kind(k) = "host-device"
    <2>1. Configured[k] \in Names
        BY DEF Names
    <2>2. d \in Device /\ d.known /\ ~d.live /\ (mem[k].known => d.name = mem[k].name)
        BY <1>0, <1>g, <1>2, <2>1 DEF PreparedDevice, Device
    <2>3. Named(m) /\ Distinct(m)
        BY <1>0, <1>1, <1>2, <1>g DEF Named, Distinct
    <2> QED BY <1>0, <1>1, <2>2, <2>3
<1>3. CASE Kind(k) = "dpdk"
    <2>1. d = [known |-> TRUE, live |-> FALSE, name |-> NoName] /\ NoName \in Names
        BY <1>g, <1>3 DEF PreparedDevice, Names
    <2>2. d \in Device /\ d.known /\ ~d.live /\ (mem[k].known => d.name = mem[k].name)
        BY <1>0, <1>3, <2>1 DEF Device, Named
    <2>3. Named(m) /\ Distinct(m)
        BY <1>0, <1>1, <1>3, <2>1 DEF Named, Distinct
    <2> QED BY <1>0, <1>1, <2>2, <2>3
<1>4. CASE Kind(k) = "link"
    <2>1. d = [known |-> TRUE, live |-> FALSE, name |-> podInterfaceName(k)]
        BY <1>g, <1>4 DEF PreparedDevice
    <2>2. /\ podInterfaceName(k) \in Names /\ podInterfaceName(k) = d.name
          /\ \/ d.name = mem[k].name
             \/ mem[k].name = NoName /\ \A l \in Keys : mem[l].name # d.name
        <3>1. d.name = podInterfaceName(k) /\ d.name # NoName
            BY <1>g, <1>4, <2>1
        <3>2. mem[k].name # NoName => d.name = mem[k].name
            BY <3>1 DEF podInterfaceName, existingName
        <3> QED BY <3>1, <3>2, PodInterfaceName
    <2>3. d \in Device /\ d.known /\ ~d.live /\ (mem[k].known => d.name = mem[k].name)
        BY <1>0, <1>4, <2>1, <2>2 DEF Device, Named
    <2>4. Named(m)
        BY <1>0, <1>1, <1>4, <1>g DEF Named
    <2>5. Distinct(m)
        BY <1>0, <1>1, <2>2 DEF Distinct
    <2> QED BY <1>0, <1>1, <2>3, <2>4, <2>5
<1> QED BY <1>0, <1>2, <1>3, <1>4

-----------------------------------------------------------------------------
(* The handler *)

LEMMA HandlerNow ==
    ASSUME Types, h # Idle
    PROVE  /\ h \in Work /\ h.claim \in Claims /\ h.i \in 1 .. Len(Results[h.claim])
           /\ h.seen \in Status(h.claim)
           /\ Len(Results[h.claim]) \in Nat /\ h.i \in Nat
           /\ Key \in Keys /\ Key[1] = h.claim /\ Key[2] = h.i
           /\ h.op \in {"prepare", "run", "unprepare"}
<1>1. h \in Work /\ h.claim \in Claims /\ h.i \in 1 .. Len(Results[h.claim])
      /\ h.seen \in Status(h.claim)
    BY DEF Types, GoodHandler, Work
<1>2. Len(Results[h.claim]) \in Nat
    BY <1>1, ClaimRecordsAssumption
<1> QED BY <1>1, <1>2, KeyPairs DEF Key, Work

LEMMA AtWork == ASSUME NEW op \in {"prepare", "run", "unprepare"}, h.op = op PROVE h # Idle
BY DEF Idle

LEMMA StatusTypes ==
    /\ \A c \in Claims : NoStatus(c) \in Status(c) /\ Status(c) \subseteq AnyStatus
    /\ Types => \A k \in Keys : Own(k) \in Device
<1>1. ASSUME NEW c \in Claims PROVE NoStatus(c) \in Status(c)
    <2>1. NoDevice \in Device /\ 0 \in 0 .. MaxReports
        BY ClaimRecordsAssumption DEF NoDevice, Device, Names
    <2> QED BY <2>1 DEF NoStatus, Status
<1>2. ASSUME NEW c \in Claims PROVE Status(c) \subseteq AnyStatus
    BY DEF AnyStatus
<1>3. ASSUME Types, NEW k \in Keys PROVE Own(k) \in Device
    BY <1>3, KeyPairs DEF Types, Status, Own
<1> QED BY <1>1, <1>2, <1>3

LEMMA FirstResult ==
    ASSUME NEW c \in Claims PROVE 1 \in 1 .. Len(Results[c]) /\ Len(Results[c]) \in Nat
<1>1. Len(Results[c]) \in Nat /\ Len(Results[c]) > 0
    BY ClaimRecordsAssumption
<1> QED BY <1>1

\* A handler that goes on keeps its claim and its device.
LEMMA GoesOn ==
    ASSUME Types, h # Idle, NEW pc, NEW s \in Status(h.claim),
           h' = [h EXCEPT !.pc = pc, !.seen = s],
           \/ h.op = "prepare" /\ pc \in {"device", "record", "get", "update", "pod"}
           \/ h.op = "run" /\ pc \in {"get", "update", "pod"}
           \/ h.op = "unprepare" /\ pc \in {"get", "update", "specs", "forget"}
    PROVE  /\ GoodHandler(h)' /\ h' # Idle
           /\ h'.op = h.op /\ h'.claim = h.claim /\ h'.i = h.i /\ h'.pc = pc /\ Key' = Key
<1>0. h \in Work /\ h.claim \in Claims /\ h.i \in 1 .. Len(Results[h.claim])
    BY HandlerNow
<1>1. /\ h'.op = h.op /\ h'.claim = h.claim /\ h'.i = h.i /\ h'.pc = pc /\ h'.seen = s
      /\ s \in AnyStatus
    BY <1>0, StatusTypes DEF Work
<1>2. h' \in Work
    BY <1>0, <1>1 DEF Work
<1>3. h' # Idle
    BY <1>1, HandlerNow DEF Idle
<1> QED BY <1>0, <1>1, <1>2, <1>3 DEF GoodHandler, Reporting, Key

LEMMA IdleFacts == Idle.op = "idle" /\ GoodHandler(Idle)
BY DEF Idle, GoodHandler

LEMMA FaultTypes == ASSUME Types, Fault PROVE faults' \in 0 .. MaxFaults
BY ClaimRecordsAssumption DEF Types, Fault

-----------------------------------------------------------------------------
(* Steps that leave the records alone *)

records == <<mem, disk, specs, status, up, annotations>>

LEMMA RecordsKept ==
    ASSUME UNCHANGED <<specs, status>>
    PROVE  /\ \A k : Own(k)' = Own(k)
           /\ \A k : Complete(k)' <=> Complete(k)
           /\ \A c : specsOf(c)' = specsOf(c)
BY DEF Own, Complete, Kind, specsOf

LEMMA StoresKept ==
    ASSUME Stores, UNCHANGED records
    PROVE  Stores' /\ (NoneLive' <=> NoneLive)
BY DEF records, Stores, Named, Distinct, Backs, NoneLive, Own, Kind

LEMMA TypesKept ==
    ASSUME Types, UNCHANGED records, GoodHandler(h)', faults' \in 0 .. MaxFaults,
           claim' \in [Claims -> {"new", "prepared", "done"}],
           pod' \in {"preparing", "started", "terminating"}
    PROVE  Types'
<1>1. \A c \in Claims : status'[c] \in Status(c)
    BY DEF records, Types
<1> QED BY <1>1 DEF records, Types, Status, AnyStatus, Device, Names, Keys, Kind

\* The handler moves on or ends, and nothing else happens.
LEMMA HandlerStep ==
    ASSUME RecordsInv, UNCHANGED <<records, kubelet>>, GoodHandler(h)', faults' \in 0 .. MaxFaults,
           Progressed', h'.op = "prepare" => h.op = "prepare"
    PROVE  RecordsInv'
<1>1. Types'
    BY TypesKept DEF RecordsInv, kubelet, Types
<1>2. Stores' /\ (NoneLive' <=> NoneLive)
    BY StoresKept DEF RecordsInv
<1>3. Answered'
    BY <1>2, RecordsKept DEF RecordsInv, Answered, CleanWhenDone, records, kubelet
<1> QED BY <1>1, <1>2, <1>3 DEF RecordsInv

LEMMA HandlerEnds ==
    ASSUME RecordsInv, UNCHANGED <<records, kubelet>>, h' = Idle, faults' \in 0 .. MaxFaults
    PROVE  RecordsInv'
<1>1. Progressed' /\ GoodHandler(h)'
    BY IdleFacts DEF Progressed, GoodHandler
<1> QED BY <1>1, IdleFacts, HandlerStep

LEMMA DeletePodStep == ASSUME RecordsInv, DeletePod PROVE RecordsInv'
<1>1. /\ UNCHANGED <<records, h, claim, faults>> /\ pod' = "terminating"
    BY DEF DeletePod, store, records
<1>2. Types'
    <2>1. GoodHandler(h)'
        BY <1>1 DEF RecordsInv, Types, GoodHandler, Work, Status, AnyStatus, Device, Names, Keys
    <2> QED BY <1>1, <2>1, TypesKept DEF RecordsInv, Types
<1>3. Stores' /\ (NoneLive' <=> NoneLive)
    BY <1>1, StoresKept DEF RecordsInv
<1>4. Progressed'
    BY <1>1, RecordsKept DEF RecordsInv, Progressed, records, Key, Kind
<1>5. Answered'
    BY <1>1, <1>3, RecordsKept DEF RecordsInv, Answered, CleanWhenDone, records
<1> QED BY <1>2, <1>3, <1>4, <1>5 DEF RecordsInv

LEMMA StartPodStep == ASSUME RecordsInv, StartPod PROVE RecordsInv'
<1>1. /\ UNCHANGED <<records, h, claim, faults>> /\ pod' = "started" /\ pod = "preparing"
      /\ h = Idle /\ \A c \in Claims : claim[c] = "prepared"
    BY DEF StartPod, store, records
<1>2. Types'
    <2>1. GoodHandler(h)'
        BY <1>1 DEF GoodHandler
    <2> QED BY <1>1, <2>1, TypesKept DEF RecordsInv, Types
<1>3. Stores' /\ (NoneLive' <=> NoneLive)
    BY <1>1, StoresKept DEF RecordsInv
<1>4. Progressed'
    BY <1>1, IdleFacts DEF Progressed
<1>5. Answered'
    BY <1>1, <1>3, RecordsKept, IdleFacts DEF RecordsInv, Answered, CleanWhenDone, records
<1> QED BY <1>2, <1>3, <1>4, <1>5 DEF RecordsInv

LEMMA StartPrepareStep ==
    ASSUME RecordsInv, NEW c \in Claims, StartPrepare(c) PROVE RecordsInv'
<1>1. /\ UNCHANGED <<records, pod>> /\ pod = "preparing" /\ up
      /\ claim' = [claim EXCEPT ![c] = "new"] /\ claim[c] # "done"
      /\ UNCHANGED faults \/ Fault
      /\ h' = [op |-> "prepare", claim |-> c, i |-> 1, pc |-> "device", seen |-> NoStatus(c)]
    BY DEF StartPrepare, store, records
<1>2. claim' \in [Claims -> {"new", "prepared", "done"}] /\ claim'[c] = "new"
      /\ \A b \in Claims : b # c => claim'[b] = claim[b]
    BY <1>1 DEF RecordsInv, Types
<1>3. /\ h'.op = "prepare" /\ h'.claim = c /\ h'.i = 1 /\ h'.pc = "device"
      /\ h'.seen = NoStatus(c)
    BY <1>1
<1>4. h' \in Work
    BY <1>1, StatusTypes, FirstResult DEF Work
<1>5. GoodHandler(h)'
    BY <1>3, <1>4, StatusTypes, FirstResult DEF GoodHandler
<1>6. Types'
    BY <1>1, <1>2, <1>5, FaultTypes, TypesKept DEF RecordsInv, Types
<1>7. Stores' /\ (NoneLive' <=> NoneLive)
    BY <1>1, StoresKept DEF RecordsInv
<1>8. Progressed'
    BY <1>1, <1>2, <1>3 DEF Progressed, records, Reporting
<1>9. Answered'
    BY <1>1, <1>2, <1>7, RecordsKept DEF RecordsInv, Answered, CleanWhenDone, records
<1> QED BY <1>6, <1>7, <1>8, <1>9 DEF RecordsInv

LEMMA StartUnprepareStep ==
    ASSUME RecordsInv, NEW c \in Claims, StartUnprepare(c) PROVE RecordsInv'
<1>1. /\ UNCHANGED <<records, kubelet, faults>> /\ pod = "terminating" /\ up
      /\ h' = [op |-> "unprepare", claim |-> c, i |-> 1, pc |-> "get", seen |-> NoStatus(c)]
    BY DEF StartUnprepare, store, records
<1>2. /\ h'.op = "unprepare" /\ h'.claim = c /\ h'.i = 1 /\ h'.pc = "get"
      /\ h'.seen = NoStatus(c)
    BY <1>1
<1>3. h' \in Work
    BY <1>1, StatusTypes, FirstResult DEF Work
<1>4. GoodHandler(h)'
    BY <1>2, <1>3, StatusTypes, FirstResult DEF GoodHandler
<1>5. Progressed'
    BY <1>1, <1>2 DEF Progressed, records, kubelet
<1> QED BY <1>1, <1>2, <1>4, <1>5, HandlerStep DEF RecordsInv, Types

LEMMA GetStatusStep == ASSUME RecordsInv, getStatus PROVE RecordsInv'
<1>1. h # Idle /\ h.pc = "get" /\ UNCHANGED <<records, kubelet>>
    BY DEF getStatus, store, records
<1>2. CASE Fails
    BY <1>1, <1>2, HandlerEnds, FaultTypes DEF Fails, RecordsInv
<1>3. CASE UNCHANGED faults /\ ~Fails
    <2> DEFINE s == status[h.claim]
               pc == IF h.op = "unprepare" /\ withoutOwn(s) = s THEN "specs" ELSE "update"
    <2>0. h \in Work /\ h.claim \in Claims /\ s \in Status(h.claim) /\ h.op \in {"prepare", "run", "unprepare"}
        BY <1>1, HandlerNow DEF RecordsInv, Types
    <2>1. h' = [h EXCEPT !.seen = s, !.pc = pc]
        BY <1>3 DEF getStatus
    <2>2. h' = [h EXCEPT !.pc = pc, !.seen = s]
        BY <2>0, <2>1 DEF Work
    <2>3. \/ h.op = "prepare" /\ pc \in {"device", "record", "get", "update", "pod"}
          \/ h.op = "run" /\ pc \in {"get", "update", "pod"}
          \/ h.op = "unprepare" /\ pc \in {"get", "update", "specs", "forget"}
        BY <2>0
    <2>4. pc = "specs" => \A k \in Keys : k[1] = h.claim => ~Own(k).known
        <3> SUFFICES ASSUME withoutOwn(s) = s, NEW k \in Keys, k[1] = h.claim
                     PROVE  ~Own(k).known
            OBVIOUS
        <3>1. k[2] \in DOMAIN s.own
            BY <2>0, KeyPairs DEF Status
        <3>2. withoutOwn(s).own[k[2]] = NoDevice
            BY <2>0, <3>1 DEF withoutOwn, Status
        <3> QED BY <3>2 DEF NoDevice, Own
    <2>4a. pc \in {"specs", "update"} /\ (pc = "specs" => h.op = "unprepare")
        OBVIOUS
    <2> HIDE DEF s, pc
    <2>5. /\ GoodHandler(h)' /\ h' # Idle /\ h'.op = h.op /\ h'.claim = h.claim /\ h'.i = h.i
          /\ h'.pc = pc /\ Key' = Key
        BY <1>1, <2>0, <2>2, <2>3, GoesOn DEF RecordsInv
    <2>6. Progressed'
        BY <1>1, <2>0, <2>4, <2>4a, <2>5, RecordsKept
           DEF RecordsInv, Progressed, records, kubelet, Kind, Reporting
    <2> QED BY <1>1, <1>3, <2>5, <2>6, HandlerStep DEF RecordsInv, Types
<1> QED BY <1>2, <1>3 DEF getStatus

\* The next allocation result, or the answer that the claim is prepared.
LEMMA NextResultStep ==
    ASSUME RecordsInv, h.op = "prepare", NextResult, UNCHANGED <<records, pod, faults>>, Complete(Key)
    PROVE  RecordsInv'
<1>0. /\ h # Idle /\ h \in Work /\ h.claim \in Claims /\ h.i \in 1 .. Len(Results[h.claim])
      /\ Len(Results[h.claim]) \in Nat /\ h.i \in Nat /\ h.seen \in Status(h.claim)
    BY AtWork, HandlerNow DEF RecordsInv
<1>1. \A j \in 1 .. h.i : Complete(<<h.claim, j>>)
    <2>1. \A j \in 1 .. h.i : j = h.i \/ j \in 1 .. h.i - 1
        BY <1>0
    <2> QED BY <2>1 DEF RecordsInv, Progressed, Key
<1>2. CASE /\ h.i < Len(Results[h.claim]) /\ UNCHANGED claim
           /\ h' = [h EXCEPT !.i = @ + 1, !.pc = "device"]
    <2>1. /\ h'.op = "prepare" /\ h'.claim = h.claim /\ h'.i = h.i + 1 /\ h'.pc = "device"
          /\ h'.seen = h.seen
        BY <1>0, <1>2 DEF Work
    <2>2. h' \in Work
        <3>1. h.i + 1 \in Nat
            BY <1>0
        <3> QED BY <1>0, <1>2, <3>1 DEF Work
    <2>3. GoodHandler(h)'
        BY <1>0, <1>2, <2>1, <2>2 DEF GoodHandler
    <2>4. \A j \in 1 .. h'.i - 1 : Complete(<<h.claim, j>>)'
        <3>1. \A j \in 1 .. h'.i - 1 : Complete(<<h.claim, j>>)
            BY <1>0, <1>1, <2>1
        <3> QED BY <2>1, <3>1 DEF records, Complete, Own, Kind
    <2>5. Progressed'
        <3>1. claim[h.claim] = "new" /\ pod # "started" /\ up
            BY <1>0 DEF RecordsInv, Progressed
        <3> QED BY <1>2, <2>1, <2>4, <3>1 DEF Progressed, records, Reporting
    <2> QED BY <1>2, <2>3, <2>5, HandlerStep DEF RecordsInv, Types, kubelet
<1>3. CASE /\ ~(h.i < Len(Results[h.claim])) /\ h' = Idle
           /\ claim' = [claim EXCEPT ![h.claim] = "prepared"]
    <2>1. /\ claim' \in [Claims -> {"new", "prepared", "done"}] /\ claim'[h.claim] = "prepared"
          /\ \A b \in Claims : b # h.claim => claim'[b] = claim[b]
        BY <1>0, <1>3 DEF RecordsInv, Types
    <2>2. Types'
        BY <1>3, <2>1, IdleFacts, TypesKept DEF RecordsInv, Types, GoodHandler
    <2>3. Stores' /\ (NoneLive' <=> NoneLive)
        BY StoresKept DEF RecordsInv
    <2>4. Progressed'
        BY <1>3, IdleFacts DEF Progressed
    <2>5. \A k \in Keys : k[1] = h.claim => Complete(k)
        <3>1. \A k \in Keys : k[1] = h.claim => k = <<h.claim, k[2]>> /\ k[2] \in 1 .. h.i
            BY <1>0, <1>3, KeyPairs
        <3> QED BY <1>1, <3>1
    <2>6. claim[h.claim] = "new" /\ pod # "started"
        BY DEF RecordsInv, Progressed
    <2>7. Answered'
        BY <1>3, <2>1, <2>3, <2>5, <2>6, RecordsKept, IdleFacts
           DEF RecordsInv, Answered, CleanWhenDone, records
    <2> QED BY <2>2, <2>3, <2>4, <2>7 DEF RecordsInv
<1> QED BY <1>2, <1>3 DEF NextResult

LEMMA SkipForeignStep == ASSUME RecordsInv, skipForeign PROVE RecordsInv'
<1>1. Complete(Key)
    BY DEF skipForeign, Complete
<1>2. h.op = "prepare" /\ UNCHANGED <<records, pod>>
    BY DEF skipForeign, At, store, records
<1>3. CASE NextResult /\ UNCHANGED faults
    BY <1>1, <1>2, <1>3, NextResultStep
<1>4. CASE Fails /\ UNCHANGED claim
    BY <1>2, <1>4, HandlerEnds, FaultTypes DEF Fails, RecordsInv, kubelet
<1> QED BY <1>3, <1>4 DEF skipForeign, ConditionFails

LEMMA ReportPodStep == ASSUME RecordsInv, reportPod PROVE RecordsInv'
<1>0. h.pc = "pod" /\ UNCHANGED <<records, pod>>
    BY DEF reportPod, store, records
<1>1. CASE Fails /\ UNCHANGED claim
    BY <1>0, <1>1, HandlerEnds, FaultTypes DEF Fails, RecordsInv, kubelet
<1>2. CASE h.op = "prepare" /\ NextResult /\ UNCHANGED faults
    <2>1. Complete(Key)
        BY <1>0, <1>2 DEF RecordsInv, Progressed, Complete
    <2> QED BY <1>0, <1>2, <2>1, NextResultStep
<1>3. CASE h.op = "run" /\ h' = Idle /\ UNCHANGED <<claim, faults>>
    BY <1>0, <1>3, HandlerEnds DEF RecordsInv, Types, kubelet
<1> QED BY <1>1, <1>2, <1>3 DEF reportPod, ConditionFails

-----------------------------------------------------------------------------
(* The status of the claim *)

LEMMA OtherReportsStep ==
    ASSUME RecordsInv, NEW c \in Claims, OtherReports(c) PROVE RecordsInv'
<1>0. /\ UNCHANGED <<mem, disk, specs, h, up, claim, pod, annotations, faults>>
      /\ status' = [status EXCEPT ![c] = [status[c] EXCEPT !.other = @ + 1]]
      /\ status[c].other < MaxReports
      /\ status[c] \in Status(c) /\ status \in [Claims -> AnyStatus]
    BY DEF OtherReports, store, kubelet, RecordsInv, Types
<1>1. /\ [status[c] EXCEPT !.other = @ + 1] \in Status(c)
      /\ [status[c] EXCEPT !.other = @ + 1].own = status[c].own
    BY <1>0, ClaimRecordsAssumption DEF Status
<1>2. /\ status'[c] \in Status(c) /\ status'[c].own = status[c].own
      /\ \A b \in Claims : b # c => status'[b] = status[b]
    BY <1>0, <1>1
<1>3. \A k \in Keys : Own(k)' = Own(k)
    BY <1>2, KeyPairs DEF Own
<1>4. \A k \in Keys : Complete(k)' <=> Complete(k)
    BY <1>0, <1>3 DEF Complete, Kind
<1>5. Types'
    <2>1. status' \in [Claims -> AnyStatus] /\ \A b \in Claims : status'[b] \in Status(b)
        BY <1>0, <1>1, <1>2, StatusTypes DEF RecordsInv, Types
    <2> QED BY <1>0, <2>1 DEF RecordsInv, Types, GoodHandler, Status, AnyStatus, Work, Device,
                              Names, Keys, Kind
<1>6. Stores'
    BY <1>0, <1>3 DEF RecordsInv, Stores, Named, Distinct, Backs, Kind
<1>7. Progressed'
    <2>1. h # Idle => /\ Key \in Keys
                      /\ \A j \in 1 .. h.i - 1 : <<h.claim, j>> \in Keys
        BY KeyPairs, HandlerNow DEF RecordsInv
    <2>2. Key' = Key /\ \A x : specsOf(x)' = specsOf(x)
        BY <1>0 DEF Key, specsOf
    <2> QED BY <1>0, <1>3, <1>4, <2>1, <2>2, IdleFacts DEF RecordsInv, Progressed, Kind
<1>8. Answered'
    BY <1>0, <1>3, <1>4 DEF RecordsInv, Answered, NoneLive, CleanWhenDone
<1> QED BY <1>5, <1>6, <1>7, <1>8 DEF RecordsInv

\* What an update that the server applies does to the entries of the driver.
LEMMA StatusWritten ==
    ASSUME RecordsInv, h # Idle, h.pc = "update", status[h.claim] = h.seen, NEW new,
           new = IF h.op = "unprepare" THEN withoutOwn(h.seen) ELSE withDevice(h.seen),
           status' = [status EXCEPT ![h.claim] = new]
    PROVE  /\ status' \in [Claims -> AnyStatus] /\ \A c \in Claims : status'[c] \in Status(c)
           /\ new.other = status[h.claim].other
           /\ h.op = "unprepare" =>
                \A k \in Keys : Own(k)' = IF k[1] = h.claim THEN NoDevice ELSE Own(k)
           /\ h.op # "unprepare" =>
                \A k \in Keys : Own(k)' = IF k = Key THEN mem[Key] ELSE Own(k)
<1>0. /\ h.claim \in Claims /\ h.i \in 1 .. Len(Results[h.claim]) /\ h.seen \in Status(h.claim)
      /\ Key \in Keys /\ Key[1] = h.claim /\ Key[2] = h.i
      /\ mem[Key] \in Device /\ status \in [Claims -> AnyStatus]
      /\ \A c \in Claims : status[c] \in Status(c)
    BY HandlerNow DEF RecordsInv, Types
<1>1. /\ status'[h.claim] = new
      /\ \A c \in Claims : c # h.claim => status'[c] = status[c]
    BY <1>0
<1>2. CASE h.op = "unprepare"
    <2>1. /\ new.other = h.seen.other
          /\ new.own = [i \in 1 .. Len(Results[h.claim]) |-> NoDevice]
          /\ new \in Status(h.claim)
        <3>1. NoDevice \in Device /\ new = withoutOwn(h.seen)
            BY <1>2 DEF NoDevice, Device, Names
        <3> DEFINE none == [i \in 1 .. Len(Results[h.claim]) |-> NoDevice]
        <3>2. DOMAIN h.seen.own = 1 .. Len(Results[h.claim])
            BY <1>0 DEF Status
        <3>3. new = [h.seen EXCEPT !.own = none]
            BY <3>1, <3>2 DEF withoutOwn
        <3>4. none \in [1 .. Len(Results[h.claim]) -> Device]
            BY <3>1
        <3> HIDE DEF none
        <3>5. new.other = h.seen.other /\ new.own = none /\ new \in Status(h.claim)
            BY <1>0, <3>3, <3>4 DEF Status
        <3> QED BY <3>5 DEF none
    <2>2. ASSUME NEW k \in Keys PROVE Own(k)' = IF k[1] = h.claim THEN NoDevice ELSE Own(k)
        BY <1>1, <2>1, KeyPairs DEF Own
    <2> QED BY <1>0, <1>1, <1>2, <2>1, <2>2, StatusTypes
<1>3. CASE h.op # "unprepare"
    <2>1. /\ new.other = h.seen.other
          /\ new.own = [h.seen.own EXCEPT ![h.i] = mem[Key]]
          /\ new \in Status(h.claim)
        BY <1>0, <1>3 DEF Status, withDevice
    <2>2. ASSUME NEW k \in Keys PROVE Own(k)' = IF k = Key THEN mem[Key] ELSE Own(k)
        <3>0. k = <<k[1], k[2]>> /\ k[1] \in Claims /\ k[2] \in 1 .. Len(Results[k[1]])
            BY KeyPairs
        <3>1. CASE k = Key
            BY <1>0, <1>1, <2>1, <3>1 DEF Own, Status
        <3>2. CASE k # Key /\ k[1] = h.claim
            <4>1. k[2] # h.i
                BY <3>0, <3>2 DEF Key
            <4> QED BY <1>0, <1>1, <2>1, <3>0, <3>2, <4>1 DEF Own, Status
        <3>3. CASE k[1] # h.claim
            BY <1>0, <1>1, <3>0, <3>3 DEF Own
        <3> QED BY <3>1, <3>2, <3>3
    <2> QED BY <1>0, <1>1, <1>3, <2>1, <2>2, StatusTypes
<1> QED BY <1>2, <1>3

LEMMA UpdateStatusStep == ASSUME RecordsInv, updateStatus PROVE RecordsInv'
<1> DEFINE new == IF h.op = "unprepare" THEN withoutOwn(h.seen) ELSE withDevice(h.seen)
           next == IF h.op = "unprepare" THEN "specs" ELSE "pod"
<1>0. /\ h # Idle /\ h.pc = "update" /\ UNCHANGED <<mem, disk, specs, up, claim, pod, annotations>>
      /\ h.op \in {"prepare", "run", "unprepare"} /\ h.claim \in Claims /\ Key \in Keys
      /\ Key[1] = h.claim /\ h.i \in Nat
      /\ \A j \in 1 .. h.i - 1 : <<h.claim, j>> \in Keys
    <2>1. h # Idle /\ h.pc = "update" /\ UNCHANGED <<mem, disk, specs, up, claim, pod, annotations>>
        BY DEF updateStatus, store, kubelet
    <2>2. \A j \in 1 .. h.i - 1 : j \in 1 .. Len(Results[h.claim])
        BY <2>1, HandlerNow DEF RecordsInv
    <2> QED BY <2>1, <2>2, HandlerNow, KeyPairs DEF RecordsInv
<1>1. CASE Fails /\ UNCHANGED status
    BY <1>0, <1>1, HandlerEnds, FaultTypes DEF Fails, RecordsInv, records, kubelet
<1>2. CASE Goto("get") /\ UNCHANGED <<status, faults>>
    <2>1. /\ GoodHandler(h)' /\ h' # Idle /\ h'.op = h.op /\ h'.claim = h.claim /\ h'.i = h.i
          /\ h'.pc = "get" /\ Key' = Key
        BY <1>0, <1>2, GoesOn, StatusTypes DEF RecordsInv, Goto
    <2>2. UNCHANGED <<records, kubelet>>
        BY <1>0, <1>2 DEF records, kubelet
    <2>3. Progressed'
        BY <1>0, <2>1, <2>2, RecordsKept DEF RecordsInv, Progressed, records, kubelet, Kind, Reporting
    <2> QED BY <1>2, <2>1, <2>2, <2>3, HandlerStep DEF RecordsInv, Types
<1>3. CASE /\ status[h.claim] = h.seen /\ status' = [status EXCEPT ![h.claim] = new]
           /\ \/ Fails
              \/ Goto(next) /\ UNCHANGED faults
    <2>1. /\ status' \in [Claims -> AnyStatus] /\ \A c \in Claims : status'[c] \in Status(c)
          /\ h.op = "unprepare" =>
                \A k \in Keys : Own(k)' = IF k[1] = h.claim THEN NoDevice ELSE Own(k)
          /\ h.op # "unprepare" =>
                \A k \in Keys : Own(k)' = IF k = Key THEN mem[Key] ELSE Own(k)
        BY <1>0, <1>3, StatusWritten
    <2>2. /\ faults' \in 0 .. MaxFaults /\ GoodHandler(h)'
          /\ \/ h' = Idle /\ h'.op = "idle"
             \/ /\ h'.op = h.op /\ h'.claim = h.claim /\ h'.i = h.i /\ h'.pc = next /\ Key' = Key
        <3>1. CASE Fails
            BY <3>1, FaultTypes, IdleFacts DEF Fails, RecordsInv, GoodHandler
        <3>2. CASE Goto(next) /\ UNCHANGED faults
            <4>1. \/ h.op = "prepare" /\ next \in {"device", "record", "get", "update", "pod"}
                  \/ h.op = "run" /\ next \in {"get", "update", "pod"}
                  \/ h.op = "unprepare" /\ next \in {"get", "update", "specs", "forget"}
                BY <1>0
            <4> HIDE DEF next
            <4> QED BY <1>0, <3>2, <4>1, GoesOn, StatusTypes DEF RecordsInv, Types, Goto
        <3> QED BY <1>3, <3>1, <3>2
    <2>3. ~NoDevice.known /\ ~NoDevice.live
        BY DEF NoDevice
    <2>4. h.op # "unprepare" => /\ disk = mem /\ mem[Key].known /\ claim[h.claim] # "done"
                                /\ h.op = "run" => pod # "preparing"
        BY <1>0 DEF RecordsInv, Progressed, Reporting
    <2>5. Types'
        BY <1>0, <2>1, <2>2 DEF RecordsInv, Types, Status, AnyStatus, Device, Names, Keys, Kind
    <2>6. Stores'
        <3>1. Backs(disk)' /\ (up => Backs(mem)')
            BY <1>0, <2>1, <2>3, <2>4 DEF RecordsInv, Stores, Backs
        <3> QED BY <1>0, <3>1 DEF RecordsInv, Stores, Named, Distinct, Kind
    <2>7. h.op # "unprepare" => \A k \in Keys : Complete(k) => Complete(k)'
        BY <1>0, <2>1, <2>4 DEF Complete, Kind
    <2>8. Progressed'
        <3>1. CASE h'.op = "idle"
            BY <2>2, <3>1, IdleFacts, <1>0 DEF RecordsInv, Progressed
        <3>2. CASE h.op = "unprepare" /\ h'.op = h.op /\ h'.claim = h.claim /\ h'.pc = "specs"
            BY <1>0, <2>1, <2>3, <3>2 DEF RecordsInv, Progressed
        <3>3. CASE /\ h.op # "unprepare" /\ h'.op = h.op /\ h'.claim = h.claim /\ h'.i = h.i
                   /\ h'.pc = "pod" /\ Key' = Key
            <4>1. Own(Key)'.known
                <5>1. Own(Key)' = mem[Key]
                    BY <1>0, <2>1, <3>3 DEF Own
                <5> QED BY <2>4, <3>3, <5>1
            <4>2. h.op = "prepare" => \A j \in 1 .. h'.i - 1 : Complete(<<h.claim, j>>)'
                <5>1. h.op = "prepare" => \A j \in 1 .. h.i - 1 : Complete(<<h.claim, j>>)
                    BY DEF RecordsInv, Progressed
                <5> QED BY <1>0, <2>7, <3>3, <5>1 DEF Complete, Own, Kind
            <4>3. up
                BY <1>0 DEF RecordsInv, Progressed
            <4> QED BY <1>0, <2>4, <3>3, <4>1, <4>2, <4>3 DEF RecordsInv, Progressed, Kind
        <3> QED BY <2>2, <3>1, <3>2, <3>3
    <2>9. Answered'
        <3>1. pod = "preparing" \/ h'.op = "prepare" => NoneLive'
            <4>1. pod = "preparing" \/ h'.op = "prepare" => NoneLive
                BY <2>2 DEF RecordsInv, Answered
            <4> QED BY <1>0, <2>1, <2>3, <4>1 DEF NoneLive
        <3>2. pod # "terminating" => h.op # "unprepare"
            BY DEF RecordsInv, Progressed
        <3>3. CleanWhenDone'
            BY <1>0, <2>1, <2>3, <2>4 DEF RecordsInv, Answered, CleanWhenDone
        <3> QED BY <1>0, <2>7, <3>1, <3>2, <3>3 DEF RecordsInv, Answered
    <2> QED BY <2>5, <2>6, <2>8, <2>9 DEF RecordsInv
<1> QED BY <1>1, <1>2, <1>3 DEF updateStatus

-----------------------------------------------------------------------------
(* The store and the CDI specs *)

\* Device k is written as d, and the spec of k may come or go.
LEMMA DeviceStep ==
    ASSUME RecordsInv, NEW k \in Keys, NEW d \in Device, NEW m, m = [mem EXCEPT ![k] = d],
           Named(m), Distinct(m), mem[k].known => d.known /\ d.name = mem[k].name,
           Own(k).known /\ Own(k).live => d.live, claim[k[1]] # "done", up,
           mem' = m, disk' = m \/ disk' = disk \/ disk' = mem,
           specs' \subseteq {l \in Keys : Kind(l) = "dpdk"},
           \A l \in Keys : l # k => (l \in specs' <=> l \in specs),
           specs' = specs \/ claim[k[1]] = "new",
           UNCHANGED <<status, up, claim, pod, annotations>>, faults' \in 0 .. MaxFaults,
           GoodHandler(h)', Progressed',
           pod = "preparing" \/ h'.op = "prepare" => NoneLive /\ ~d.live
    PROVE  RecordsInv'
<1>0. /\ mem \in [Keys -> Device] /\ m \in [Keys -> Device] /\ m[k] = d
      /\ \A l \in Keys : l # k => m[l] = mem[l]
    BY DEF RecordsInv, Types
<1>1. \A l : Own(l)' = Own(l)
    BY DEF Own
<1>2. Types'
    BY <1>0 DEF RecordsInv, Types, Status, AnyStatus, Device, Names, Keys, Kind
<1>3. Backs(m)
    BY <1>0 DEF RecordsInv, Stores, Backs
<1>4. Stores'
    <2>0. Named(disk) /\ Distinct(disk) /\ Named(mem) /\ Distinct(mem)
        BY DEF RecordsInv, Stores
    <2>s. PICK s : disk' = s /\ Named(s) /\ Distinct(s)
        BY <2>0
    <2>1. Named(mem)' /\ Named(disk)'
        BY <2>s DEF Named, Kind
    <2>1a. Distinct(mem)' /\ Distinct(disk)'
        BY <2>s DEF Distinct, Kind
    <2>2. Backs(mem)' /\ Backs(disk)'
        BY <1>1, <1>3 DEF RecordsInv, Stores, Backs
    <2> QED BY <2>1, <2>1a, <2>2 DEF Stores
<1>5. Answered'
    <2>1. pod = "preparing" \/ h'.op = "prepare" => NoneLive'
        BY <1>0, <1>1 DEF NoneLive
    <2>2. \A l \in Keys : claim[l[1]] = "prepared" /\ Complete(l) => Complete(l)'
        BY <1>1 DEF Complete, Kind
    <2>3. CleanWhenDone'
        BY <1>0, <1>1 DEF RecordsInv, Answered, CleanWhenDone
    <2> QED BY <2>1, <2>2, <2>3 DEF RecordsInv, Answered
<1> QED BY <1>2, <1>4, <1>5 DEF RecordsInv

\* Prepare writes the record of its device, and goes on or fails.
LEMMA PrepareRecord ==
    ASSUME RecordsInv, h.op = "prepare", Kind(Key) # "foreign",
           NEW d, d = PreparedDevice(Key), Kind(Key) # "dpdk" => d.name # NoName,
           Kind(Key) = "dpdk" => h.pc # "device", UNCHANGED <<status, up, kubelet, annotations>>,
           NEW m, m = [mem EXCEPT ![Key] = d],
           \/ PersistFails(m) /\ specs' \in {specs, specs \ {Key}}
           \/ Persist(m) /\ Goto("get") /\ UNCHANGED specs
    PROVE  RecordsInv'
<1>0. /\ h # Idle /\ h.claim \in Claims /\ h.i \in Nat /\ Key \in Keys /\ Key[1] = h.claim
      /\ NoStatus(h.claim) \in Status(h.claim)
    BY AtWork, HandlerNow, StatusTypes DEF RecordsInv
<1>1. /\ d \in Device /\ d.known /\ ~d.live
      /\ mem[Key].known => d.name = mem[Key].name
      /\ Named(m) /\ Distinct(m) /\ m[Key] = d
    <2>1. Types /\ Stores /\ m = Written(Key, d)
        BY DEF RecordsInv, Written
    <2>2. PreparedWell(Key, d, m)
        BY <1>0, <2>1, PreparedNames
    <2> QED BY <2>2 DEF PreparedWell
<1>2. /\ claim[h.claim] = "new" /\ pod # "started" /\ NoneLive /\ up
      /\ \A j \in 1 .. h.i - 1 : Complete(<<h.claim, j>>)
      /\ Kind(Key) = "dpdk" => Key \in specs
    BY <1>0 DEF RecordsInv, Progressed, Answered
<1>3. UNCHANGED <<up, claim, pod, status, annotations>> /\ claim[Key[1]] = "new" /\ ~Own(Key).live
    BY <1>0, <1>2 DEF kubelet, NoneLive
<1>4. CASE PersistFails(m) /\ specs' \in {specs, specs \ {Key}}
    <2>1. /\ h' = Idle /\ GoodHandler(h)' /\ Progressed' /\ faults' \in 0 .. MaxFaults
          /\ mem' = m /\ disk' = disk
        BY <1>4, IdleFacts, FaultTypes DEF PersistFails, Fails, RecordsInv, Progressed, GoodHandler
    <2>2. /\ specs' \subseteq {l \in Keys : Kind(l) = "dpdk"}
          /\ \A l \in Keys : l # Key => (l \in specs' <=> l \in specs)
        BY <1>4 DEF RecordsInv, Types
    <2>3. claim[Key[1]] # "done"
        BY <1>3
    <2> QED BY <1>0, <1>1, <1>2, <1>3, <2>1, <2>2, <2>3, DeviceStep
<1>5. CASE Persist(m) /\ Goto("get") /\ UNCHANGED specs
    <2>1. /\ GoodHandler(h)' /\ h'.op = "prepare" /\ h'.claim = h.claim /\ h'.i = h.i
          /\ h'.pc = "get" /\ Key' = Key /\ mem' = m /\ disk' = m /\ faults' \in 0 .. MaxFaults
        BY <1>0, <1>5, GoesOn DEF RecordsInv, Goto, Persist, Types
    <2>2. Progressed'
        <3>1. \A j \in 1 .. h'.i - 1 : Complete(<<h.claim, j>>)'
            BY <1>2, <1>3, <1>5, <2>1 DEF Complete, Own, Kind
        <3>2. mem'[Key'].known
            BY <1>1, <2>1
        <3> QED BY <1>0, <1>2, <1>3, <1>5, <2>1, <3>1, <3>2 DEF Progressed, Kind, Reporting
    <2>3. /\ specs' \subseteq {l \in Keys : Kind(l) = "dpdk"}
          /\ \A l \in Keys : l # Key => (l \in specs' <=> l \in specs)
        BY <1>5 DEF RecordsInv, Types
    <2>4. claim[Key[1]] # "done"
        BY <1>3
    <2> QED BY <1>0, <1>1, <1>2, <1>3, <2>1, <2>2, <2>3, <2>4, DeviceStep
<1> QED BY <1>4, <1>5

LEMMA PrepareLinkStep == ASSUME RecordsInv, prepareLink PROVE RecordsInv'
<1> DEFINE d == PreparedDevice(Key)  m == [mem EXCEPT ![Key] = d]
<1>0. /\ h.op = "prepare" /\ Kind(Key) # "foreign" /\ Kind(Key) # "dpdk"
      /\ UNCHANGED <<specs, status, up, kubelet, annotations>>
    BY DEF prepareLink, At
<1>1. CASE UNCHANGED store /\ h' = Idle /\ (UNCHANGED faults \/ Fault)
    BY <1>0, <1>1, HandlerEnds, FaultTypes DEF RecordsInv, Types, store, records
<1>2. CASE d.name # NoName /\ (PersistFails(m) \/ (Persist(m) /\ Goto("get")))
    <2> HIDE DEF d, m
    <2>1. d = PreparedDevice(Key) /\ m = [mem EXCEPT ![Key] = d]
        BY DEF d, m
    <2> QED BY <1>0, <1>2, <2>1, PrepareRecord
<1> QED BY <1>1, <1>2 DEF prepareLink, Fails

LEMMA RecordDPDKStep == ASSUME RecordsInv, recordDPDK PROVE RecordsInv'
<1>0. /\ h.op = "prepare" /\ h.pc = "record" /\ Kind(Key) = "dpdk"
      /\ UNCHANGED <<status, up, kubelet, annotations>>
    BY DEF recordDPDK, At, RecordsInv, Progressed
<1> QED BY <1>0, PrepareRecord DEF recordDPDK

LEMMA WriteCDISpecStep == ASSUME RecordsInv, writeCDISpec PROVE RecordsInv'
<1>0. /\ h.op = "prepare" /\ h.pc = "device" /\ Kind(Key) = "dpdk"
      /\ UNCHANGED <<mem, disk, status, up, claim, pod, annotations>>
    BY DEF writeCDISpec, At, store, kubelet
<1>1. /\ h # Idle /\ h.claim \in Claims /\ h.i \in Nat /\ Key \in Keys /\ Key[1] = h.claim
      /\ NoStatus(h.claim) \in Status(h.claim) /\ mem[Key] \in Device
      /\ mem = [mem EXCEPT ![Key] = mem[Key]]
    BY <1>0, AtWork, HandlerNow, StatusTypes DEF RecordsInv, Types
<1>2. /\ claim[h.claim] = "new" /\ pod # "started" /\ NoneLive /\ up
      /\ \A j \in 1 .. h.i - 1 : Complete(<<h.claim, j>>)
      /\ Named(mem) /\ Distinct(mem)
    BY <1>0, <1>1 DEF RecordsInv, Progressed, Answered, Stores
<1>3. /\ claim[Key[1]] = "new" /\ claim[Key[1]] # "done" /\ ~Own(Key).live /\ ~mem[Key].live
      /\ mem' = mem /\ disk' = disk
    BY <1>0, <1>1, <1>2 DEF NoneLive
<1>4. CASE Fails /\ specs' \in {specs, specs \ {Key}}
    <2>1. h' = Idle /\ GoodHandler(h)' /\ Progressed' /\ faults' \in 0 .. MaxFaults
        BY <1>4, IdleFacts, FaultTypes DEF Fails, RecordsInv, Progressed, GoodHandler
    <2>2. /\ specs' \subseteq {l \in Keys : Kind(l) = "dpdk"}
          /\ \A l \in Keys : l # Key => (l \in specs' <=> l \in specs)
        BY <1>4 DEF RecordsInv, Types
    <2> QED BY <1>0, <1>1, <1>2, <1>3, <2>1, <2>2, DeviceStep
<1>5. CASE specs' = specs \cup {Key} /\ Goto("record") /\ UNCHANGED faults
    <2>1. /\ GoodHandler(h)' /\ h'.op = "prepare" /\ h'.claim = h.claim /\ h'.i = h.i
          /\ h'.pc = "record" /\ Key' = Key /\ faults' \in 0 .. MaxFaults
        BY <1>0, <1>1, <1>5, GoesOn DEF RecordsInv, Goto, Types
    <2>2. Progressed'
        <3>1. \A j \in 1 .. h'.i - 1 : Complete(<<h.claim, j>>)'
            BY <1>0, <1>2, <1>5, <2>1 DEF Complete, Own, Kind
        <3> QED BY <1>0, <1>1, <1>2, <1>5, <2>1, <3>1 DEF Progressed, Kind, Reporting
    <2>3. /\ specs' \subseteq {l \in Keys : Kind(l) = "dpdk"}
          /\ \A l \in Keys : l # Key => (l \in specs' <=> l \in specs)
        BY <1>0, <1>1, <1>5 DEF RecordsInv, Types
    <2> QED BY <1>0, <1>1, <1>2, <1>3, <2>1, <2>2, <2>3, DeviceStep
<1> QED BY <1>4, <1>5 DEF writeCDISpec

LEMMA InjectDeviceStep == ASSUME RecordsInv, NEW k \in Keys, injectDevice(k) PROVE RecordsInv'
<1> DEFINE live == [mem[k] EXCEPT !.live = TRUE]
           run == [op |-> "run", claim |-> k[1], i |-> k[2], pc |-> "get", seen |-> NoStatus(k[1])]
<1>0. /\ up /\ pod = "started" /\ mem[k].known /\ mem \in [Keys -> Device] /\ mem[k] \in Device
      /\ k[1] \in Claims /\ k[2] \in 1 .. Len(Results[k[1]]) /\ k = <<k[1], k[2]>>
      /\ UNCHANGED <<specs, status, up, claim, pod, annotations>>
    BY KeyPairs DEF injectDevice, kubelet, RecordsInv, Types
<1>1. claim[k[1]] = "prepared" /\ Named(mem) /\ Distinct(mem)
    BY <1>0 DEF RecordsInv, Answered, Stores
<1>2. /\ live \in Device /\ live.known /\ live.live /\ live.name = mem[k].name
      /\ mem[k] \in Device
    BY <1>0 DEF Device
<1>3. /\ run.op = "run" /\ run.claim = k[1] /\ run.i = k[2] /\ run.pc = "get"
      /\ run.seen = NoStatus(k[1]) /\ GoodHandler(run)
    <2>1. Len(Results[k[1]]) \in Nat
        BY <1>0, FirstResult
    <2>2. run \in Work
        BY <1>0, <2>1, StatusTypes DEF Work
    <2> QED BY <1>0, <2>2, StatusTypes DEF GoodHandler, Reporting
<1> HIDE DEF live, run
<1>4. ASSUME NEW d \in Device, d.known, d.name = mem[k].name, Own(k).known /\ Own(k).live => d.live,
             mem' = [mem EXCEPT ![k] = d],
             \/ h' = Idle /\ disk' \in {disk, mem}
             \/ h' = run /\ disk' = mem',
             faults' \in 0 .. MaxFaults
      PROVE  RecordsInv'
    <2> DEFINE m == [mem EXCEPT ![k] = d]
    <2>1. m[k] = d /\ \A l \in Keys : l # k => m[l] = mem[l]
        BY <1>0
    <2>2. mem' = m /\ (disk' = m \/ disk' = disk \/ disk' = mem)
        BY <1>4
    <2> HIDE DEF m
    <2>3. Named(m) /\ Distinct(m)
        BY <1>0, <1>1, <1>4, <2>1 DEF Named, Distinct
    <2>4. GoodHandler(h)' /\ h'.op # "prepare"
        BY <1>3, <1>4, IdleFacts DEF GoodHandler, Status, AnyStatus, Work, Device, Names, Keys
    <2>5. Progressed'
        <3>1. CASE h' = Idle
            BY <3>1, IdleFacts DEF Progressed
        <3>2. CASE h' = run
            <4>1. Key' = k
                BY <1>0, <1>3, <3>2 DEF Key
            <4>2. disk' = mem' /\ mem'[k].known
                <5>1. h' # Idle
                    BY <1>3, <3>2, IdleFacts
                <5> QED BY <1>4, <2>1, <2>2, <5>1
            <4> QED BY <1>0, <1>1, <1>3, <3>2, <4>1, <4>2 DEF Progressed, Reporting
        <3> QED BY <1>4, <3>1, <3>2
    <2>6. /\ m = [mem EXCEPT ![k] = d] /\ claim[k[1]] # "done"
          /\ specs' \subseteq {l \in Keys : Kind(l) = "dpdk"} /\ specs' = specs
        BY <1>0, <1>1 DEF m, RecordsInv, Types
    <2> QED BY <1>0, <1>4, <2>2, <2>3, <2>4, <2>5, <2>6, DeviceStep
<1>5. mem = [mem EXCEPT ![k] = mem[k]] /\ [mem EXCEPT ![k].live = TRUE] = [mem EXCEPT ![k] = live]
    BY <1>0 DEF live
<1>6. Own(k).known /\ Own(k).live => mem[k].live
    BY <1>0 DEF RecordsInv, Stores, Backs
<1>7. faults' \in 0 .. MaxFaults
    <2>1. UNCHANGED faults \/ Fault
        BY DEF injectDevice, Persist, PersistFails, Fails
    <2> QED BY <2>1, FaultTypes DEF RecordsInv, Types
<1>8. CASE mem' = mem /\ disk' = mem /\ h' = run
    BY <1>0, <1>4, <1>5, <1>6, <1>7, <1>8
<1>9. CASE PersistFails(mem)
    BY <1>0, <1>4, <1>5, <1>6, <1>7, <1>9 DEF PersistFails, Fails
<1>9a. CASE mem' = mem /\ disk' = mem /\ Fails
    BY <1>0, <1>4, <1>5, <1>6, <1>7, <1>9a DEF Fails
<1>9b. CASE mem' = [mem EXCEPT ![k].live = TRUE] /\ disk' = mem /\ Fails
    BY <1>2, <1>4, <1>5, <1>7, <1>9b DEF Fails
<1>10. CASE Persist([mem EXCEPT ![k].live = TRUE]) /\ h' = run
    BY <1>2, <1>4, <1>5, <1>7, <1>10 DEF Persist
<1> QED BY <1>8, <1>9, <1>9a, <1>9b, <1>10 DEF injectDevice, Persist, run

LEMMA RemoveSpecsStep == ASSUME RecordsInv, removeClaimCDISpecs PROVE RecordsInv'
<1>0. /\ h.op = "unprepare" /\ h.pc = "specs" /\ specs' \subseteq specs
      /\ UNCHANGED <<mem, disk, status, up, claim, pod, annotations>>
    BY DEF removeClaimCDISpecs, At, store, kubelet
<1>1. /\ pod = "terminating" /\ h # Idle /\ h.claim \in Claims
      /\ \A k \in Keys : k[1] = h.claim => ~Own(k).known
    BY <1>0, AtWork, HandlerNow DEF RecordsInv, Progressed
<1>2. /\ GoodHandler(h)' /\ faults' \in 0 .. MaxFaults
      /\ \/ h' = Idle
         \/ /\ h'.op = "unprepare" /\ h'.claim = h.claim /\ h'.pc = "forget"
            /\ specs' = specs \ specsOf(h.claim)
    <2>1. CASE Fails
        BY <2>1, FaultTypes, IdleFacts DEF Fails, RecordsInv, GoodHandler
    <2>2. CASE specs' = specs \ specsOf(h.claim) /\ Goto("forget") /\ UNCHANGED faults
        BY <1>0, <1>1, <2>2, GoesOn, StatusTypes DEF RecordsInv, Types, Goto
    <2> QED BY <2>1, <2>2 DEF removeClaimCDISpecs
<1>3. Types'
    BY <1>0, <1>2 DEF RecordsInv, Types, Status, AnyStatus, Device, Names, Keys, Kind
<1>4. \A k : Own(k)' = Own(k)
    BY <1>0 DEF Own
<1>5. Stores'
    <2>1. Backs(disk)' /\ (up => Backs(mem)')
        BY <1>0, <1>4 DEF RecordsInv, Stores, Backs
    <2> QED BY <1>0, <2>1 DEF RecordsInv, Stores, Named, Distinct, Kind
<1>6. Progressed'
    <2>1. CASE h' = Idle
        BY <2>1, IdleFacts DEF Progressed
    <2>2. CASE /\ h'.op = "unprepare" /\ h'.claim = h.claim /\ h'.pc = "forget"
               /\ specs' = specs \ specsOf(h.claim)
        <3>1. specsOf(h.claim)' = {}
            BY <2>2 DEF specsOf
        <3>2. up
            BY <1>1 DEF RecordsInv, Progressed
        <3> QED BY <1>0, <1>1, <1>4, <2>2, <3>1, <3>2 DEF Progressed
    <2> QED BY <1>2, <2>1, <2>2
<1>7. Answered'
    <2>1. CleanWhenDone'
        BY <1>0, <1>4 DEF RecordsInv, Answered, CleanWhenDone
    <2> QED BY <1>0, <1>1, <1>2, <2>1, IdleFacts DEF RecordsInv, Answered
<1> QED BY <1>3, <1>5, <1>6, <1>7 DEF RecordsInv

LEMMA DeleteClaimStep == ASSUME RecordsInv, DeleteClaim PROVE RecordsInv'
<1> DEFINE m == [k \in Keys |-> IF k[1] = h.claim THEN NoDevice ELSE mem[k]]
<1>0. /\ h.op = "unprepare" /\ h.pc = "forget" /\ mem' = m /\ h' = Idle
      /\ UNCHANGED <<specs, status, up, pod, annotations>>
      /\ \/ disk' = disk /\ claim' = claim /\ Fault
         \/ /\ disk' = m /\ claim' = [claim EXCEPT ![h.claim] = "done"] /\ UNCHANGED faults
    BY DEF DeleteClaim, At, PersistFails, Persist, Fails
<1>1. /\ pod = "terminating" /\ h # Idle /\ h.claim \in Claims /\ specsOf(h.claim) = {} /\ up
      /\ \A k \in Keys : k[1] = h.claim => ~Own(k).known
    BY <1>0, AtWork, HandlerNow DEF RecordsInv, Progressed
<1>2. /\ NoDevice \in Device /\ NoDevice.name = NoName /\ ~NoDevice.known
    BY DEF NoDevice, Device, Names
<1>3. /\ m \in [Keys -> Device]
      /\ \A k \in Keys : m[k] = IF k[1] = h.claim THEN NoDevice ELSE mem[k]
    BY <1>2 DEF RecordsInv, Types
<1> HIDE DEF m
<1>4. \A k : Own(k)' = Own(k)
    BY <1>0 DEF Own
<1>5. claim' \in [Claims -> {"new", "prepared", "done"}] /\ faults' \in 0 .. MaxFaults
    BY <1>0, <1>1, FaultTypes DEF RecordsInv, Types
<1>6. Types'
    BY <1>0, <1>3, <1>5, IdleFacts
       DEF RecordsInv, Types, GoodHandler, Status, AnyStatus, Device, Names, Keys, Kind
<1>7. Stores'
    <2>1. Named(m) /\ Distinct(m)
        BY <1>2, <1>3 DEF RecordsInv, Stores, Named, Distinct
    <2>2. Backs(m)
        BY <1>1, <1>3 DEF RecordsInv, Stores, Backs
    <2>3. Named(disk) /\ Distinct(disk) /\ Backs(disk)
        BY DEF RecordsInv, Stores
    <2>4. Named(mem)' /\ Named(disk)'
        BY <1>0, <2>1, <2>3 DEF Named, Kind
    <2>5. Distinct(mem)' /\ Distinct(disk)'
        BY <1>0, <2>1, <2>3 DEF Distinct, Kind
    <2>6. Backs(mem)' /\ Backs(disk)'
        BY <1>0, <1>4, <2>2, <2>3 DEF Backs
    <2> QED BY <2>4, <2>5, <2>6 DEF Stores
<1>8. Progressed'
    BY <1>0, IdleFacts DEF Progressed
<1>9. Answered'
    <2>1. \A k \in Keys : k[1] = h.claim => k \notin specs
        BY <1>1 DEF specsOf
    <2>2. CleanWhenDone'
        <3>1. CASE disk' = disk /\ claim' = claim
            BY <1>0, <1>2, <1>3, <1>4, <3>1 DEF RecordsInv, Answered, CleanWhenDone
        <3>2. CASE disk' = m /\ claim' = [claim EXCEPT ![h.claim] = "done"]
            <4>1. \A k \in Keys : k[1] # h.claim => claim'[k[1]] = claim[k[1]]
                BY <1>1, <3>2, KeyPairs DEF RecordsInv, Types
            <4> QED BY <1>0, <1>1, <1>2, <1>3, <1>4, <2>1, <3>2, <4>1
                    DEF RecordsInv, Answered, CleanWhenDone
        <3> QED BY <1>0, <3>1, <3>2
    <2> QED BY <1>0, <1>1, <2>2, IdleFacts DEF Answered
<1> QED BY <1>6, <1>7, <1>8, <1>9 DEF RecordsInv

LEMMA CrashStep == ASSUME RecordsInv, Crash PROVE RecordsInv'
<1>0. /\ mem' = [k \in Keys |-> NoDevice] /\ h' = Idle /\ up' = FALSE
      /\ UNCHANGED <<disk, specs, status, claim, pod, annotations>>
      /\ faults' \in 0 .. MaxFaults
    BY FaultTypes DEF Crash, Fails, kubelet, RecordsInv
<1>1. /\ NoDevice \in Device /\ NoDevice.name = NoName /\ ~NoDevice.known /\ ~NoDevice.live
    BY DEF NoDevice, Device, Names
<1>2. mem' \in [Keys -> Device] /\ \A k \in Keys : mem'[k] = NoDevice
    BY <1>0, <1>1
<1>3. \A k : Own(k)' = Own(k)
    BY <1>0 DEF Own
<1>4. Types'
    BY <1>0, <1>2, IdleFacts
       DEF RecordsInv, Types, GoodHandler, Status, AnyStatus, Device, Names, Keys, Kind
<1>5. Stores'
    <2>1. Named(mem)' /\ Distinct(mem)'
        BY <1>1, <1>2 DEF Named, Distinct
    <2>2. Named(disk)' /\ Distinct(disk)' /\ Backs(disk)'
        BY <1>0, <1>3 DEF RecordsInv, Stores, Named, Distinct, Backs, Kind
    <2> QED BY <1>0, <2>1, <2>2 DEF Stores
<1>6. Progressed'
    BY <1>0, IdleFacts DEF Progressed
<1>7. Answered'
    <2>1. NoneLive => NoneLive'
        BY <1>0, <1>1, <1>2, <1>3 DEF NoneLive
    <2>2. CleanWhenDone'
        BY <1>0, <1>1, <1>2, <1>3 DEF RecordsInv, Answered, CleanWhenDone
    <2> QED BY <1>0, <2>1, <2>2, RecordsKept, IdleFacts DEF RecordsInv, Answered
<1> QED BY <1>4, <1>5, <1>6, <1>7 DEF RecordsInv

LEMMA StartStep == ASSUME RecordsInv, Start PROVE RecordsInv'
<1>0. /\ mem' = disk /\ h = Idle /\ h' = Idle /\ up' = TRUE
      /\ UNCHANGED <<disk, specs, status, claim, pod, annotations, faults>>
    BY DEF Start, kubelet, RecordsInv, Progressed
<1>1. \A k : Own(k)' = Own(k)
    BY <1>0 DEF Own
<1>2. Types'
    BY <1>0, IdleFacts
       DEF RecordsInv, Types, GoodHandler, Status, AnyStatus, Device, Names, Keys, Kind
<1>3. Stores'
    <2>1. Named(disk) /\ Distinct(disk) /\ Backs(disk)
        BY DEF RecordsInv, Stores
    <2> QED BY <1>0, <1>1, <2>1 DEF Stores, Named, Distinct, Backs, Kind
<1>4. Progressed'
    BY <1>0, IdleFacts DEF Progressed
<1>5. Answered'
    <2>1. NoneLive => NoneLive'
        BY <1>0, <1>1 DEF NoneLive
    <2>2. CleanWhenDone'
        BY <1>0, <1>1 DEF RecordsInv, Answered, CleanWhenDone
    <2> QED BY <1>0, <2>1, <2>2, RecordsKept, IdleFacts DEF RecordsInv, Answered
<1> QED BY <1>2, <1>3, <1>4, <1>5 DEF RecordsInv

-----------------------------------------------------------------------------
(* Theorems *)

LEMMA RecordsInit == Init => RecordsInv
<1> SUFFICES ASSUME Init PROVE RecordsInv
    OBVIOUS
<1>1. /\ NoDevice \in Device /\ NoDevice.name = NoName /\ ~NoDevice.known /\ ~NoDevice.live
    BY DEF NoDevice, Device, Names
<1>2. /\ mem \in [Keys -> Device] /\ disk \in [Keys -> Device]
      /\ \A k \in Keys : mem[k] = NoDevice /\ disk[k] = NoDevice
    BY <1>1 DEF Init
<1>3. \A k \in Keys : Own(k) = NoDevice
    BY KeyPairs DEF Init, Own, NoStatus
<1>4. Types
    <2>1. status \in [Claims -> AnyStatus] /\ \A c \in Claims : status[c] \in Status(c)
        BY StatusTypes DEF Init
    <2>2. /\ claim \in [Claims -> {"new", "prepared", "done"}] /\ faults \in 0 .. MaxFaults
          /\ pod \in {"preparing", "started", "terminating"} /\ up \in BOOLEAN
          /\ annotations \in Annotations /\ specs = {} /\ GoodHandler(h)
        BY ClaimRecordsAssumption DEF Init, GoodHandler
    <2> QED BY <1>2, <2>1, <2>2 DEF Types
<1>5. Stores
    BY <1>1, <1>2, <1>3 DEF Stores, Named, Distinct, Backs
<1>6. Progressed
    BY IdleFacts DEF Init, Progressed
<1>7. Answered
    <2>1. NoneLive /\ CleanWhenDone /\ \A c \in Claims : claim[c] = "new"
        BY <1>1, <1>2, <1>3, KeyPairs DEF NoneLive, CleanWhenDone, Init
    <2> QED BY <2>1 DEF Init, Answered
<1> QED BY <1>4, <1>5, <1>6, <1>7 DEF RecordsInv

LEMMA RecordsStep == ASSUME RecordsInv, [Next]_vars PROVE RecordsInv'
<1>1. CASE UNCHANGED vars
    <2>1. UNCHANGED <<records, kubelet, h, faults>>
        BY <1>1 DEF vars, records, kubelet
    <2>2. GoodHandler(h)'
        BY <2>1 DEF RecordsInv, Types, GoodHandler, Work, Status, AnyStatus, Device, Names, Keys
    <2>3. Progressed'
        BY <2>1, RecordsKept DEF RecordsInv, Progressed, records, kubelet, Key, Kind
    <2> QED BY <2>1, <2>2, <2>3, HandlerStep DEF RecordsInv, Types
<1>2. CASE Next
    BY <1>2, StartPrepareStep, StartUnprepareStep, OtherReportsStep, InjectDeviceStep,
       StartPodStep, DeletePodStep, CrashStep, SkipForeignStep, PrepareLinkStep, WriteCDISpecStep,
       RecordDPDKStep, GetStatusStep, UpdateStatusStep, ReportPodStep, RemoveSpecsStep,
       DeleteClaimStep, StartStep
       DEF Next, DriverStep
<1> QED BY <1>1, <1>2

LEMMA RecordsInvariant == Spec => []RecordsInv
<1>1. RecordsInv /\ [Next]_vars => RecordsInv'
    BY RecordsStep
<1> QED BY <1>1, RecordsInit, PTL DEF Spec

\* Records, status and handlers keep their types, for Pods of any size.
THEOREM RecordsTyped == Spec => []TypeOK
<1>1. RecordsInv => TypeOK
    <2> SUFFICES ASSUME RecordsInv PROVE TypeOK
        OBVIOUS
    <2>1. h # Idle => /\ Key \in Keys
                      /\ h.op \in {"prepare", "run", "unprepare"}
                      /\ h.pc \in {"device", "record", "get", "update", "pod", "specs", "forget"}
                      /\ h.seen \in Status(h.claim)
        BY HandlerNow DEF RecordsInv, Work
    <2> QED BY <2>1 DEF RecordsInv, Types, TypeOK
<1> QED BY <1>1, RecordsInvariant, PTL

\* podInterfaceName never gives two links of a Pod one name: a name that is in
\* the store is in use, also after a crash put an older store in its place.
THEOREM LinkNamesDistinct == Spec => []NamesDistinct
<1>1. RecordsInv => NamesDistinct
    BY DEF RecordsInv, Stores, Distinct, NamesDistinct
<1> QED BY <1>1, RecordsInvariant, PTL

\* What setResourceClaimDeviceStatus reported is in the state file.
THEOREM ReportsBacked == Spec => []ReportBacked
<1>1. RecordsInv => ReportBacked
    BY DEF RecordsInv, Stores, Backs, ReportBacked
<1> QED BY <1>1, RecordsInvariant, PTL

\* The containers start with every record, status entry and CDI spec in place,
\* however many attempts of Prepare were cut off before.
THEOREM StartsComplete == Spec => []StartedComplete
<1>1. RecordsInv => StartedComplete
    <2> SUFFICES ASSUME RecordsInv, pod = "started", NEW k \in Keys, Kind(k) # "foreign"
                 PROVE  disk[k].known /\ Own(k).known /\ (Kind(k) = "dpdk" => k \in specs)
        BY DEF StartedComplete
    <2>1. Complete(k)
        BY KeyPairs DEF RecordsInv, Answered
    <2> QED BY <2>1 DEF Complete, RecordsInv, Stores, Backs
<1> QED BY <1>1, RecordsInvariant, PTL

\* UnprepareResourceClaims answers with success only when nothing is left.
THEOREM CleansUp == Spec => []CleanWhenDone
<1>1. RecordsInv => CleanWhenDone
    BY DEF RecordsInv, Answered
<1> QED BY <1>1, RecordsInvariant, PTL

\* An update of the status carries on what other drivers had reported, because
\* the server refuses one that was made from an older version.
THEOREM OthersKeepReports == Spec => OtherReportsKept
<1> DEFINE A == \A c \in Claims : status'[c].other >= status[c].other
<1>1. RecordsInv /\ [Next]_vars => [A]_vars
    <2> SUFFICES ASSUME RecordsInv, Next PROVE A
        OBVIOUS
    <2>0. (\A c \in Claims : status[c].other \in Nat) /\ status \in [Claims -> AnyStatus]
        <3>1. ASSUME NEW c \in Claims PROVE status[c].other \in Nat
            <4>1. status[c] \in Status(c)
                BY DEF RecordsInv, Types
            <4>2. status[c].other \in 0 .. MaxReports /\ MaxReports \in Nat
                BY <4>1, ClaimRecordsAssumption DEF Status
            <4> QED BY <4>2
        <3> QED BY <3>1 DEF RecordsInv, Types
    <2>1. ASSUME UNCHANGED status PROVE A
        BY <2>0, <2>1
    <2>2. ASSUME NEW c \in Claims, OtherReports(c) PROVE A
        <3>1. status' = [status EXCEPT ![c] = [status[c] EXCEPT !.other = @ + 1]]
            BY <2>2 DEF OtherReports
        <3>2. [status[c] EXCEPT !.other = @ + 1].other = status[c].other + 1
            BY DEF RecordsInv, Types, Status
        <3> QED BY <2>0, <3>1, <3>2
    <2>3. ASSUME updateStatus, status' # status PROVE A
        <3> DEFINE new == IF h.op = "unprepare" THEN withoutOwn(h.seen) ELSE withDevice(h.seen)
        <3>1. /\ h # Idle /\ h.pc = "update" /\ status[h.claim] = h.seen
              /\ status' = [status EXCEPT ![h.claim] = new]
            BY <2>3 DEF updateStatus
        <3>2. h.claim \in Claims
            BY <3>1, HandlerNow DEF RecordsInv
        <3>3. new.other = status[h.claim].other
            BY <3>1, StatusWritten
        <3> HIDE DEF new
        <3> QED BY <2>0, <3>1, <3>2, <3>3
    <2>4. UNCHANGED status \/ updateStatus \/ \E c \in Claims : OtherReports(c)
        BY DEF Next, DriverStep, StartPrepare, StartUnprepare, injectDevice, StartPod, DeletePod,
               Crash, skipForeign, ConditionFails, prepareLink, writeCDISpec, recordDPDK, getStatus, reportPod,
               removeClaimCDISpecs, DeleteClaim, Start
    <2> HIDE DEF A
    <2> QED BY <2>1, <2>2, <2>3, <2>4
<1> QED BY <1>1, RecordsInvariant, PTL DEF Spec, OtherReportsKept
=============================================================================
