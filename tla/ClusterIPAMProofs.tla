-------------------------- MODULE ClusterIPAMProofs --------------------------
(***************************************************************************)
(* Proofs about ClusterIPAM, for any number of nodes, claims, controllers, *)
(* pools and addresses, any pool history, any set of faults and any bound. *)
(***************************************************************************)
EXTENDS ClusterIPAM, TLAPS

-----------------------------------------------------------------------------
(* Typing *)

LEMMA SpecTypes ==
    ASSUME TypeOK, NEW p \in Pools, NEW answered \in BOOLEAN
    PROVE  LoadedSpec(p, answered) \in PoolSpec \cup {NoSpec}
BY ObjectsAssumption, NodeAssumption
   DEF TypeOK, ObjectsTypeOK, LoadedSpec, CurrentSpec

LEMMA FreshTypes == FreshUIDs \subseteq UIDs \ UsedUIDs
<1>1. CASE UIDs \subseteq UsedUIDs
    BY <1>1 DEF FreshUIDs
<1>2. CASE ~(UIDs \subseteq UsedUIDs)
    <2>1. \E u : u \in UIDs \ UsedUIDs
        BY <1>2
    <2>2. (CHOOSE u \in UIDs \ UsedUIDs : TRUE) \in UIDs \ UsedUIDs
        BY <2>1
    <2> QED BY <1>2, <2>2 DEF FreshUIDs
<1> QED BY <1>1, <1>2

LEMMA InitTypes == Init => TypeOK
<1> SUFFICES ASSUME Init PROVE TypeOK
    OBVIOUS
<1>1. ObjectsTypeOK
    BY ObjectsAssumption DEF Init, ObjectsInit, ObjectsTypeOK, Allocation, NoAllocation, NoUID
<1>2. Idle \in Handler
    BY DEF Idle, Handler, NoName
<1>3. EmptyStore \in Store
    BY DEF EmptyStore, Store
<1>4. NodeTypeOK
    BY <1>2, <1>3 DEF Init, NodeInit, NodeTypeOK, KubeletState
<1>5. ControllerTypeOK
    BY DEF Init, ControllerInit, ControllerTypeOK, NoPass, Pass, NoListed, NoStatus,
           PoolStatus, Counts, Listed
<1> QED BY <1>1, <1>4, <1>5 DEF Init, TypeOK

-----------------------------------------------------------------------------
(* Types of the node handlers.  TypeOK is not inductive: what a handler     *)
(* creates is an allocation object only because its claim, request and name *)
(* are set by the time it gets there.                                       *)

Preparing == {"reload", "find", "create", "get", "record", "device"}
Naming == {"create", "get", "record", "device"}
HandlerOK ==
    \A n \in Nodes :
        /\ h[n].pc # "idle" => h[n].claim \in Claims
        /\ h[n].pc \in Preparing => h[n].req \in 1 .. Len(Requests[h[n].claim])
        /\ h[n].pc \in Naming => h[n].name \in Names

\* A handler that satisfies what HandlerOK says of it.
GoodHandler(x) ==
    /\ x \in Handler
    /\ x.pc # "idle" => x.claim \in Claims
    /\ x.pc \in Preparing => x.req \in 1 .. Len(Requests[x.claim])
    /\ x.pc \in Naming => x.name \in Names

LEMMA IdleGood == GoodHandler(Idle)
BY DEF GoodHandler, Idle, Handler, Preparing, Naming

LEMMA ReloadGood ==
    ASSUME NEW c \in Claims, NEW r \in 1 .. Len(Requests[c])
    PROVE  GoodHandler([Idle EXCEPT !.pc = "reload", !.claim = c, !.req = r])
<1> DEFINE x == [Idle EXCEPT !.pc = "reload", !.claim = c, !.req = r]
<1>1. r \in Nat
    BY NodeAssumption
<1>2. x \in Handler /\ x.pc = "reload" /\ x.claim = c /\ x.req = r
    BY <1>1 DEF Idle, Handler
<1> HIDE DEF x
<1>3. GoodHandler(x)
    BY <1>2 DEF GoodHandler, Preparing, Naming
<1> QED BY <1>3 DEF x

LEMMA GoodNow ==
    ASSUME TypeOK, HandlerOK, NEW n \in Nodes
    PROVE  GoodHandler(h[n])
BY DEF TypeOK, NodeTypeOK, HandlerOK, GoodHandler

LEMMA GoodNext ==
    ASSUME TypeOK, HandlerOK, NEW n \in Nodes, NEW x, GoodHandler(x), h' = [h EXCEPT ![n] = x]
    PROVE  h' \in [Nodes -> Handler] /\ HandlerOK'
BY DEF TypeOK, NodeTypeOK, HandlerOK, GoodHandler

LEMMA ReturnGood ==
    ASSUME TypeOK, HandlerOK, NEW n \in Nodes, Return(n)
    PROVE  h' \in [Nodes -> Handler] /\ HandlerOK'
BY IdleGood, GoodNext DEF Return

\* The request a preparing handler works on.
LEMMA ReqType ==
    ASSUME TypeOK, HandlerOK, NEW n \in Nodes, h[n].pc \in Preparing
    PROVE  Req(n) \in Request
<1>1. h[n].claim \in Claims /\ h[n].req \in 1 .. Len(Requests[h[n].claim])
    BY DEF HandlerOK, Preparing
<1>2. Requests[h[n].claim] \in Seq(Request)
    BY <1>1, NodeAssumption
<1> QED BY <1>1, <1>2 DEF Req

LEMMA NextCandidateTypes ==
    ASSUME TypeOK, HandlerOK, NEW n \in Nodes, h[n].pc \in Preparing, NEW k,
           NextCandidate(n, k)
    PROVE  h' \in [Nodes -> Handler] /\ HandlerOK'
<1>1. CASE Return(n)
    BY <1>1, ReturnGood
<1>2. CASE ~Return(n)
    <2> DEFINE s == h[n].spec
    <2>1. PICK j \in Remaining(s, k) :
             h' = [h EXCEPT ![n].pc = "create", ![n].cand = j,
                            ![n].name = AllocationName(Req(n).pool, s.cands[j], s.ones)]
        BY <1>2 DEF NextCandidate
    <2> DEFINE nm == AllocationName(Req(n).pool, s.cands[j], s.ones)
               x == [h[n] EXCEPT !.pc = "create", !.cand = j, !.name = nm]
    <2>2. GoodHandler(h[n])
        BY GoodNow
    <2>3. j \in DOMAIN s.cands /\ s \in PoolSpec \cup {NoSpec}
        BY <2>2 DEF Remaining, GoodHandler, Handler
    <2>4. s \in PoolSpec
        BY <2>3 DEF NoSpec
    <2>5. j \in Nat /\ s.cands[j] \in IPs /\ s.ones \in Ones
        BY <2>3, <2>4 DEF PoolSpec
    <2>6. nm \in Names
        BY <2>5, ReqType DEF AllocationName, Names, Request
    <2>7. GoodHandler(x)
        BY <2>2, <2>5, <2>6 DEF GoodHandler, Handler, Preparing, Naming
    <2>8. h' = [h EXCEPT ![n] = x]
        BY <2>1
    <2> QED BY <2>7, <2>8, GoodNext
<1> QED BY <1>1, <1>2

\* One step of the driver on node n that does not write IPAllocations.
NodeLocal(n) ==
    \/ \E c \in Claims : StartPrepare(n, c)
    \/ \E answered \in BOOLEAN : ReloadIPPools(n, answered)
    \/ FindForClaim(n)
    \/ ReserveGet(n)
    \/ ReserveIP(n)
    \/ SetDevice(n)
    \/ \E c \in Claims : PodTerminated(n, c)
    \/ \E c \in Claims : StartUnprepare(n, c)
    \/ DeleteForClaimList(n)
    \/ DeleteClaimRecord(n)
    \/ SetNetNS(n)
    \/ Crash(n)

\* Which handler a local step leaves behind.
LEMMA LocalHandler ==
    ASSUME TypeOK, HandlerOK, NEW n \in Nodes, NodeLocal(n)
    PROVE  h' \in [Nodes -> Handler] /\ HandlerOK'
<1> DEFINE Goal == h' \in [Nodes -> Handler] /\ HandlerOK'
<1>0. GoodHandler(h[n]) /\ (UNCHANGED h => Goal) /\ (Return(n) => Goal)
    BY GoodNow, ReturnGood DEF TypeOK, NodeTypeOK, HandlerOK
<1> HIDE DEF Goal
<1>1. ASSUME NEW c \in Claims, StartPrepare(n, c) PROVE Goal
    <2> DEFINE x == [Idle EXCEPT !.pc = "reload", !.claim = c, !.req = 1]
    <2>1. 1 \in 1 .. Len(Requests[c])
        BY NodeAssumption
    <2>2. GoodHandler(x)
        BY <2>1, ReloadGood
    <2> QED BY <1>1, <2>2, GoodNext DEF StartPrepare, Goal
<1>2. ASSUME NEW answered \in BOOLEAN, ReloadIPPools(n, answered) PROVE Goal
    <2> DEFINE s == LoadedSpec(Req(n).pool, answered)
               x == [h[n] EXCEPT !.pc = "find", !.spec = s]
    <2>1. h[n].pc = "reload" /\ Req(n).pool \in Pools
        BY <1>2, ReqType DEF ReloadIPPools, Preparing, Request
    <2>2. s \in PoolSpec \cup {NoSpec}
        BY <2>1, SpecTypes
    <2>3. GoodHandler(x)
        BY <1>0, <2>1, <2>2 DEF GoodHandler, Handler, Preparing, Naming
    <2>4. Return(n) \/ h' = [h EXCEPT ![n] = x]
        BY <1>2 DEF ReloadIPPools
    <2> QED BY <1>0, <2>3, <2>4, GoodNext DEF Goal
<1>3. ASSUME FindForClaim(n) PROVE Goal
    <2>1. h[n].pc = "find" /\ Req(n) \in Request
        BY <1>3, ReqType DEF FindForClaim, Preparing
    <2>2. CASE NextCandidate(n, 0)
        BY <2>1, <2>2, NextCandidateTypes DEF Goal, Preparing
    <2>3. CASE Return(n)
        BY <1>0, <2>3
    <2>4. ASSUME NEW nm \in AllocationsOf(h[n].claim),
                 h' = [h EXCEPT ![n].pc = "record", ![n].name = nm]
          PROVE  Goal
        <3> DEFINE x == [h[n] EXCEPT !.pc = "record", !.name = nm]
        <3>1. GoodHandler(x)
            BY <1>0, <2>1 DEF GoodHandler, Handler, Preparing, Naming, AllocationsOf
        <3>2. h' = [h EXCEPT ![n] = x]
            BY <2>4
        <3> QED BY <3>1, <3>2, GoodNext DEF Goal
    <2>5. ASSUME Req(n).address # NoAddress,
                 h' = [h EXCEPT ![n].pc = "create",
                                ![n].name = AllocationName(Req(n).pool, Req(n).address.ip,
                                                           Req(n).address.ones)]
          PROVE  Goal
        <3> DEFINE nm == AllocationName(Req(n).pool, Req(n).address.ip, Req(n).address.ones)
                   x == [h[n] EXCEPT !.pc = "create", !.name = nm]
        <3>1. nm \in Names
            BY <2>1, <2>5 DEF Request, Address, AllocationName, Names
        <3>2. GoodHandler(x)
            BY <1>0, <2>1, <3>1 DEF GoodHandler, Handler, Preparing, Naming
        <3>3. h' = [h EXCEPT ![n] = x]
            BY <2>5
        <3> QED BY <3>2, <3>3, GoodNext DEF Goal
    <2> QED BY <1>3, <2>2, <2>3, <2>4, <2>5 DEF FindForClaim
<1>4. ASSUME ReserveGet(n) PROVE Goal
    <2>1. h[n].pc = "get"
        BY <1>4 DEF ReserveGet
    <2>2. CASE h' = [h EXCEPT ![n].pc = "record"]
        <3> DEFINE x == [h[n] EXCEPT !.pc = "record"]
        <3>1. GoodHandler(x)
            BY <1>0, <2>1 DEF GoodHandler, Handler, Preparing, Naming
        <3>2. h' = [h EXCEPT ![n] = x]
            BY <2>2
        <3> QED BY <3>1, <3>2, GoodNext DEF Goal
    <2>3. CASE NextCandidate(n, h[n].cand)
        BY <2>1, <2>3, NextCandidateTypes DEF Goal, Preparing
    <2> QED BY <1>0, <1>4, <2>2, <2>3 DEF ReserveGet
<1>5. ASSUME ReserveIP(n) PROVE Goal
    <2> DEFINE x == [h[n] EXCEPT !.pc = "device"]
    <2>1. GoodHandler(x)
        BY <1>0, <1>5 DEF GoodHandler, Handler, Preparing, Naming, ReserveIP
    <2>2. Return(n) \/ h' = [h EXCEPT ![n] = x]
        BY <1>5 DEF ReserveIP
    <2> QED BY <1>0, <2>1, <2>2, GoodNext DEF Goal
<1>6. ASSUME SetDevice(n) PROVE Goal
    <2> DEFINE x == [Idle EXCEPT !.pc = "reload", !.claim = h[n].claim, !.req = h[n].req + 1]
    <2>1. h[n].pc = "device" /\ h[n].claim \in Claims /\ h[n].req \in 1 .. Len(Requests[h[n].claim])
        BY <1>0, <1>6 DEF SetDevice, GoodHandler, Preparing
    <2>2. Len(Requests[h[n].claim]) \in Nat
        BY <2>1, NodeAssumption
    <2>3. CASE h[n].req < Len(Requests[h[n].claim]) /\ h' = [h EXCEPT ![n] = x]
        <3>1. h[n].req + 1 \in 1 .. Len(Requests[h[n].claim])
            BY <2>1, <2>2, <2>3
        <3>2. GoodHandler(x)
            BY <2>1, <3>1, ReloadGood
        <3> QED BY <2>3, <3>2, GoodNext DEF Goal
    <2>4. CASE Return(n)
        BY <1>0, <2>4
    <2> QED BY <1>6, <2>3, <2>4 DEF SetDevice, NextRequest
<1>7. ASSUME NEW c \in Claims, PodTerminated(n, c) PROVE Goal
    BY <1>0, <1>7 DEF PodTerminated
<1>8. ASSUME NEW c \in Claims, StartUnprepare(n, c) PROVE Goal
    <2> DEFINE x == [Idle EXCEPT !.pc = "list", !.claim = c]
    <2>1. GoodHandler(x)
        BY DEF GoodHandler, Idle, Handler, Preparing, Naming
    <2> QED BY <1>8, <2>1, GoodNext DEF StartUnprepare, Goal
<1>9. ASSUME DeleteForClaimList(n) PROVE Goal
    <2> DEFINE found == {[name |-> nm, uid |-> allocs[nm].uid] : nm \in AllocationsOf(h[n].claim)}
               x == [h[n] EXCEPT !.pc = "delete", !.todo = found]
    <2>1. \A nm \in AllocationsOf(h[n].claim) : nm \in Names /\ allocs[nm].uid \in UIDs
        BY DEF TypeOK, ObjectsTypeOK, AllocationsOf, ParseAllocation, Exists, Allocation
    <2>2. found \in SUBSET Item
        BY <2>1 DEF Item
    <2>3. GoodHandler(x)
        BY <1>0, <1>9, <2>2 DEF GoodHandler, Handler, Preparing, Naming, DeleteForClaimList
    <2>4. Return(n) \/ h' = [h EXCEPT ![n] = x]
        BY <1>9 DEF DeleteForClaimList
    <2> QED BY <1>0, <2>3, <2>4, GoodNext DEF Goal
<1>10. ASSUME DeleteClaimRecord(n) PROVE Goal
    BY <1>0, <1>10 DEF DeleteClaimRecord
<1>11. ASSUME Crash(n) PROVE Goal
    BY <1>0, <1>11 DEF Crash
<1>12. ASSUME SetNetNS(n) PROVE Goal
    BY <1>12 DEF SetNetNS, TypeOK, NodeTypeOK, HandlerOK, Goal
<1>13. Goal
    BY <1>1, <1>2, <1>3, <1>4, <1>5, <1>6, <1>7, <1>8, <1>9, <1>10, <1>11, <1>12 DEF NodeLocal
<1> QED BY <1>13 DEF Goal

LEMMA DeviceStored ==
    ASSUME NEW s \in Store, NEW c, NEW r, NEW nm \in Names \cup {NoName}
    PROVE  [s EXCEPT !.dev[c][r] = nm] \in Store
<1> DEFINE D == [ReqIds -> Names \cup {NoName}]
           d == [s.dev EXCEPT ![c] = [s.dev[c] EXCEPT ![r] = nm]]
<1>1. s.dev \in [Claims -> D] /\ s.rec \in [Claims -> Names \cup {NoName}]
    BY DEF Store
<1>2. c \in Claims => [s.dev[c] EXCEPT ![r] = nm] \in D
    BY <1>1
<1>3. d \in [Claims -> D]
    BY <1>1, <1>2
<1>4. [s EXCEPT !.dev = d] \in Store
    BY <1>3 DEF Store
<1> QED BY <1>4

\* What a local step does to the store and to the kubelet's view of a claim.
LEMMA LocalStore ==
    ASSUME TypeOK, HandlerOK, NEW n \in Nodes, NodeLocal(n)
    PROVE  /\ mem' \in [Nodes -> Store]
           /\ disk' \in [Nodes -> Store]
           /\ kubelet' \in [Nodes -> [Claims -> KubeletState]]
           /\ UNCHANGED late
<1> DEFINE c0 == h[n].claim
           Put(m) == /\ mem' = [mem EXCEPT ![n] = m]
                     /\ disk' = [disk EXCEPT ![n] = m] \/ UNCHANGED disk
<1>0. /\ mem \in [Nodes -> Store] /\ disk \in [Nodes -> Store]
      /\ kubelet \in [Nodes -> [Claims -> KubeletState]]
      /\ GoodHandler(h[n])
    BY GoodNow DEF TypeOK, NodeTypeOK
<1>1. ASSUME NEW m \in Store, Put(m) PROVE mem' \in [Nodes -> Store] /\ disk' \in [Nodes -> Store]
    BY <1>0, <1>1
<1>2. ASSUME NEW c \in Claims, NEW k \in KubeletState, kubelet' = [kubelet EXCEPT ![n][c] = k]
      PROVE  kubelet' \in [Nodes -> [Claims -> KubeletState]]
    BY <1>0, <1>2
<1>3. CASE \E c \in Claims : StartPrepare(n, c) \/ PodTerminated(n, c)
    <2>1. PICK c \in Claims : StartPrepare(n, c) \/ PodTerminated(n, c)
        BY <1>3
    <2>2. kubelet[n][c] \in KubeletState
        BY <1>0
    <2>3. \E k \in KubeletState : kubelet' = [kubelet EXCEPT ![n][c] = k]
        BY <2>1, <2>2 DEF StartPrepare, PodTerminated, KubeletState
    <2> QED BY <1>0, <1>2, <2>1, <2>3 DEF StartPrepare, PodTerminated
<1>4. CASE ReserveIP(n)
    <2> DEFINE m == [mem[n] EXCEPT !.rec[c0] = h[n].name]
    <2>1. m \in Store
        BY <1>0 DEF Store, GoodHandler, Handler
    <2>2. UNCHANGED <<mem, disk>> \/ Put(m)
        BY <1>4 DEF ReserveIP, Persist, PersistFails
    <2> QED BY <1>0, <1>1, <1>4, <2>1, <2>2 DEF ReserveIP
<1>5. CASE SetDevice(n)
    <2> DEFINE m == [mem[n] EXCEPT !.dev[c0][h[n].req] = h[n].name]
    <2>1. m \in Store
        BY <1>0, DeviceStored DEF GoodHandler, Handler
    <2>2. UNCHANGED <<mem, disk>> \/ Put(m)
        BY <1>5 DEF SetDevice, Persist, PersistFails
    <2>3. c0 \in Claims
        BY <1>0, <1>5 DEF SetDevice, GoodHandler
    <2>4. kubelet[n][c0] \in KubeletState
        BY <1>0, <2>3
    <2>5. UNCHANGED kubelet \/ \E k \in KubeletState : kubelet' = [kubelet EXCEPT ![n][c0] = k]
        BY <1>5, <2>4 DEF SetDevice, NextRequest, KubeletState
    <2> QED BY <1>0, <1>1, <1>2, <1>5, <2>1, <2>2, <2>3, <2>5 DEF SetDevice
<1>6. CASE DeleteClaimRecord(n)
    <2> DEFINE m == [dev |-> [mem[n].dev EXCEPT ![c0] = EmptyStore.dev[c0]],
                     rec |-> [mem[n].rec EXCEPT ![c0] = NoName]]
    <2>1. c0 \in Claims
        BY <1>0, <1>6 DEF DeleteClaimRecord, GoodHandler
    <2>2. EmptyStore.dev[c0] \in [ReqIds -> Names \cup {NoName}]
        BY <2>1 DEF EmptyStore
    <2>3. m \in Store
        BY <1>0, <2>2 DEF Store
    <2>4. Put(m)
        BY <1>6 DEF DeleteClaimRecord, Persist, PersistFails
    <2>5. UNCHANGED kubelet \/ kubelet' = [kubelet EXCEPT ![n][c0] = "none"]
        BY <1>6 DEF DeleteClaimRecord
    <2>6. "none" \in KubeletState
        BY DEF KubeletState
    <2> QED BY <1>0, <1>1, <1>2, <1>6, <2>1, <2>3, <2>4, <2>5, <2>6 DEF DeleteClaimRecord
<1>7. CASE Crash(n)
    BY <1>0, <1>7 DEF Crash
<1>8. CASE SetNetNS(n)
    BY <1>0, <1>8 DEF SetNetNS, Persist
<1>9. CASE \/ \E answered \in BOOLEAN : ReloadIPPools(n, answered)
           \/ FindForClaim(n) \/ ReserveGet(n) \/ DeleteForClaimList(n)
           \/ \E c \in Claims : StartUnprepare(n, c)
    BY <1>0, <1>9 DEF ReloadIPPools, FindForClaim, ReserveGet, DeleteForClaimList, StartUnprepare
<1> QED BY <1>3, <1>4, <1>5, <1>6, <1>7, <1>8, <1>9 DEF NodeLocal

\* The steps that write IPAllocation objects.
LEMMA WriteTypes ==
    ASSUME TypeOK, HandlerOK,
           NEW n \in Nodes, (\E u \in FreshUIDs : ReserveCreate(n, u)) \/ DeleteForClaimDelete(n)
    PROVE  allocs' \in [Names -> Allocation] /\ NodeTypeOK' /\ HandlerOK'
<1>0. /\ GoodHandler(h[n]) /\ allocs \in [Names -> Allocation]
      /\ Return(n) => h' \in [Nodes -> Handler] /\ HandlerOK'
    BY GoodNow, ReturnGood DEF TypeOK, ObjectsTypeOK
<1>1. ASSUME NEW u \in FreshUIDs, ReserveCreate(n, u)
      PROVE  allocs' \in [Names -> Allocation] /\ NodeTypeOK' /\ HandlerOK'
    <2> DEFINE g == [h[n] EXCEPT !.pc = "get"]
               r == [h[n] EXCEPT !.pc = "record"]
               l == [name |-> h[n].name, claim |-> h[n].claim, type |-> Type(n)]
    <2>1. h[n].pc = "create" /\ h[n].claim \in Claims /\ h[n].name \in Names /\ u \in UIDs
        BY <1>0, <1>1, FreshTypes DEF ReserveCreate, GoodHandler, Naming
    <2>2. GoodHandler(g) /\ GoodHandler(r)
        BY <1>0, <2>1 DEF GoodHandler, Handler, Preparing, Naming
    <2>3. Return(n) \/ h' = [h EXCEPT ![n] = g] \/ h' = [h EXCEPT ![n] = r]
        BY <1>1 DEF ReserveCreate
    <2>4. h' \in [Nodes -> Handler] /\ HandlerOK'
        BY <1>0, <2>2, <2>3, GoodNext
    <2>5. Type(n) \in {"Static", "Dynamic"}
        BY DEF Type
    <2>6. NewAllocationObject(h[n].claim, u, Type(n)) \in Allocation
        BY <2>1, <2>5 DEF NewAllocationObject, Allocation
    <2>7. allocs' \in [Names -> Allocation]
        BY <1>0, <1>1, <2>6 DEF ReserveCreate, CreateObject
    <2>8. UNCHANGED late \/ late' = late \cup {l}
        BY <1>1 DEF ReserveCreate
    <2>9. l \in [name: Names, claim: Claims, type: {"Static", "Dynamic"}]
        BY <2>1, <2>5
    <2>10. late' \in SUBSET [name: Names, claim: Claims, type: {"Static", "Dynamic"}]
        BY <2>8, <2>9 DEF TypeOK, NodeTypeOK
    <2> QED BY <1>1, <2>4, <2>7, <2>10 DEF ReserveCreate, TypeOK, NodeTypeOK
<1>2. ASSUME DeleteForClaimDelete(n)
      PROVE  allocs' \in [Names -> Allocation] /\ NodeTypeOK' /\ HandlerOK'
    <2> DEFINE f == [h[n] EXCEPT !.pc = "forget"]
    <2>1. h[n].pc = "delete" /\ h[n].claim \in Claims /\ h[n].todo \in SUBSET Item
        BY <1>0, <1>2 DEF DeleteForClaimDelete, GoodHandler, Handler
    <2>2. ASSUME Return(n) PROVE h' \in [Nodes -> Handler] /\ HandlerOK'
        BY <1>0, <2>2
    <2>3. ASSUME h' = [h EXCEPT ![n] = f] PROVE h' \in [Nodes -> Handler] /\ HandlerOK'
        <3>1. GoodHandler(f)
            BY <1>0, <2>1 DEF GoodHandler, Handler, Preparing, Naming
        <3> QED BY <2>3, <3>1, GoodNext
    <2>4. ASSUME NEW i \in h[n].todo, h' = [h EXCEPT ![n].todo = @ \ {i}]
          PROVE  h' \in [Nodes -> Handler] /\ HandlerOK'
        <3> DEFINE x == [h[n] EXCEPT !.todo = @ \ {i}]
        <3>1. GoodHandler(x)
            BY <1>0, <2>1 DEF GoodHandler, Handler, Preparing, Naming
        <3>2. h' = [h EXCEPT ![n] = x]
            BY <2>4
        <3> QED BY <3>1, <3>2, GoodNext
    <2>5. h' \in [Nodes -> Handler] /\ HandlerOK'
        BY <1>2, <2>2, <2>3, <2>4 DEF DeleteForClaimDelete
    <2>6. NoAllocation \in Allocation
        BY DEF NoAllocation, Allocation, NoUID
    <2>7. allocs' \in [Names -> Allocation]
        BY <1>0, <1>2, <2>6 DEF DeleteForClaimDelete, DeleteObject
    <2> QED BY <1>2, <2>5, <2>7 DEF DeleteForClaimDelete, TypeOK, NodeTypeOK
<1> QED BY <1>1, <1>2

LEMMA LateTypes ==
    ASSUME TypeOK, HandlerOK, NEW l \in late, NEW u \in FreshUIDs, LateCreate(l, u)
    PROVE  allocs' \in [Names -> Allocation] /\ NodeTypeOK' /\ HandlerOK'
<1>1. l \in [name: Names, claim: Claims, type: {"Static", "Dynamic"}] /\ u \in UIDs
    BY FreshTypes DEF TypeOK, NodeTypeOK
<1>2. NewAllocationObject(l.claim, u, l.type) \in Allocation
    BY <1>1 DEF NewAllocationObject, Allocation
<1>3. allocs' \in [Names -> Allocation]
    BY <1>1, <1>2 DEF LateCreate, CreateObject, TypeOK, ObjectsTypeOK
<1> QED BY <1>3 DEF LateCreate, TypeOK, NodeTypeOK, HandlerOK

-----------------------------------------------------------------------------
(* Types of the controllers *)

LEMMA NoPassType == NoPass \in Pass
BY DEF NoPass, Pass, NoListed, NoStatus, PoolStatus, Counts, Listed

LEMMA PassNext ==
    ASSUME TypeOK, NEW k \in Controllers, NEW x \in Pass, ctl' = [ctl EXCEPT ![k] = x]
    PROVE  ctl' \in [Controllers -> Pass]
BY DEF TypeOK, ControllerTypeOK

LEMMA OutdateType ==
    ASSUME NEW f \in [Controllers -> Pass], NEW p
    PROVE  Outdate(f, p) \in [Controllers -> Pass]
<1>1. ASSUME NEW x \in Pass PROVE [x EXCEPT !.fresh = @ \ {p}] \in Pass
    BY DEF Pass
<1> QED BY <1>1 DEF Outdate

LEMMA ListedType ==
    ASSUME TypeOK, NEW nm \in Names, ParseAllocation(nm)
    PROVE  [name |-> nm, uid |-> allocs[nm].uid, claim |-> allocs[nm].claim,
            type |-> allocs[nm].type] \in Listed
BY DEF TypeOK, ObjectsTypeOK, ParseAllocation, Exists, Allocation, Listed

\* Every step of controller k that leaves the allocations alone.
CtlLocal(k) ==
    \/ ListAllocations(k)
    \/ \E i \in ctl[k].items : CheckAllocation(k, i)
    \/ ListPools(k)
    \/ \E p \in Pools : UpdatePoolStatus(k, p)
    \/ FinishPass(k)
    \/ AbortPass(k)

LEMMA StatusTypes ==
    ASSUME TypeOK, NEW k \in Controllers, NEW p \in Pools
    PROVE  NewStatus(k, p) \in PoolStatus
<1>1. ctl[k] \in Pass
    BY DEF TypeOK, ControllerTypeOK
<1>2. ctl[k].counts[p] \in Counts /\ ctl[k].gens[p] \in Nat
    BY <1>1 DEF Pass
<1> QED BY <1>2 DEF NewStatus, Counts, PoolStatus

LEMMA CtlTypes ==
    ASSUME TypeOK, NEW k \in Controllers, CtlLocal(k)
    PROVE  ControllerTypeOK'
<1>0. /\ ctl \in [Controllers -> Pass] /\ ctl[k] \in Pass
      /\ poolStatus \in [Pools -> PoolStatus]
    BY DEF TypeOK, ControllerTypeOK
<1>1. ASSUME EndPass(k) PROVE ctl' \in [Controllers -> Pass]
    BY <1>0, <1>1, NoPassType DEF EndPass
<1>2. CASE ListAllocations(k)
    <2> DEFINE L == {[name |-> nm, uid |-> allocs[nm].uid, claim |-> allocs[nm].claim,
                      type |-> allocs[nm].type] : nm \in {y \in Names : ParseAllocation(y)}}
               x == [ctl[k] EXCEPT !.pc = "check", !.items = L]
    <2>1. L \in SUBSET Listed
        BY ListedType
    <2> HIDE DEF L
    <2>2. x \in Pass
        BY <1>0, <2>1 DEF Pass
    <2>3. ctl' = [ctl EXCEPT ![k] = x]
        BY <1>2 DEF ListAllocations, L
    <2> QED BY <1>0, <1>2, <2>2, <2>3 DEF ListAllocations, ControllerTypeOK
<1>3. ASSUME NEW i \in ctl[k].items, CheckAllocation(k, i) PROVE ControllerTypeOK'
    <2> DEFINE new == Counted(ctl[k].counts[i.name.pool], i.type)
               x == [ctl[k] EXCEPT !.pc = "delete", !.cur = i, !.items = @ \ {i}]
               y == [ctl[k] EXCEPT !.items = @ \ {i}, !.counts[i.name.pool] = new]
    <2>1. i \in Listed
        BY <1>0 DEF Pass
    <2>2. i.name.pool \in Pools
        BY <2>1 DEF Listed, Names
    <2>3. ctl[k].counts[i.name.pool] \in Counts
        BY <1>0, <2>2 DEF Pass
    <2>4. new \in Counts
        BY <2>3 DEF Counted, Counts
    <2> HIDE DEF new
    <2>5. x \in Pass
        BY <1>0, <2>1 DEF Pass
    <2>6. y \in Pass
        BY <1>0, <2>4 DEF Pass
    <2>7. ctl' = [ctl EXCEPT ![k] = x] \/ ctl' = [ctl EXCEPT ![k] = y]
        BY <1>3 DEF CheckAllocation, new
    <2> QED BY <1>0, <1>3, <2>5, <2>6, <2>7 DEF CheckAllocation, ControllerTypeOK
<1>4. CASE ListPools(k)
    <2> DEFINE x == [ctl[k] EXCEPT !.pc = "status", !.todo = Pools, !.fresh = Pools,
                                   !.gens = gen, !.seen = poolStatus]
    <2>1. gen \in [Pools -> Nat]
        BY DEF TypeOK, ObjectsTypeOK
    <2>2. x \in Pass
        BY <1>0, <2>1 DEF Pass
    <2>3. ctl' = [ctl EXCEPT ![k] = x]
        BY <1>4 DEF ListPools
    <2> QED BY <1>0, <1>4, <2>2, <2>3 DEF ListPools, ControllerTypeOK
<1>5. ASSUME NEW p \in Pools, UpdatePoolStatus(k, p) PROVE ControllerTypeOK'
    <2> DEFINE x == [ctl[k] EXCEPT !.todo = @ \ {p}, !.seen[p] = NoStatus, !.gens[p] = 0]
               done == [ctl EXCEPT ![k].todo = @ \ {p}, ![k].seen[p] = NoStatus,
                                   ![k].gens[p] = 0]
    <2>1. NoStatus \in PoolStatus
        BY DEF NoStatus, PoolStatus
    <2>2. x \in Pass
        BY <1>0, <2>1 DEF Pass
    <2>3. done = [ctl EXCEPT ![k] = x]
        BY <1>0
    <2>4. done \in [Controllers -> Pass]
        BY <1>0, <2>2, <2>3
    <2> HIDE DEF done
    <2>5. ctl' = done \/ ctl' = Outdate(done, p) \/ EndPass(k)
        BY <1>5 DEF UpdatePoolStatus, done
    <2>6. ctl' \in [Controllers -> Pass]
        BY <1>1, <2>4, <2>5, OutdateType
    <2>7. UNCHANGED poolStatus \/ poolStatus' = [poolStatus EXCEPT ![p] = NewStatus(k, p)]
        BY <1>5 DEF UpdatePoolStatus
    <2>8. poolStatus' \in [Pools -> PoolStatus]
        BY <1>0, <2>7, StatusTypes
    <2> QED BY <2>6, <2>8 DEF ControllerTypeOK
<1>6. CASE FinishPass(k) \/ AbortPass(k)
    BY <1>0, <1>1, <1>6 DEF FinishPass, AbortPass, ControllerTypeOK
<1> QED BY <1>2, <1>3, <1>4, <1>5, <1>6 DEF CtlLocal

LEMMA DeleteTypes ==
    ASSUME TypeOK, NEW k \in Controllers, deleteAllocation(k)
    PROVE  allocs' \in [Names -> Allocation] /\ ControllerTypeOK'
<1> DEFINE x == [ctl[k] EXCEPT !.pc = "check", !.cur = NoListed]
<1>0. ctl \in [Controllers -> Pass] /\ ctl[k] \in Pass /\ NoAllocation \in Allocation
    BY DEF TypeOK, ControllerTypeOK, NoAllocation, Allocation, NoUID
<1>1. x \in Pass
    BY <1>0 DEF Pass
<1>2. ctl' = [ctl EXCEPT ![k] = x] \/ EndPass(k)
    BY DEF deleteAllocation
<1>3. ctl' \in [Controllers -> Pass]
    BY <1>0, <1>1, <1>2, NoPassType DEF EndPass
<1>4. allocs' \in [Names -> Allocation]
    BY <1>0 DEF deleteAllocation, DeleteObject, TypeOK, ObjectsTypeOK
<1> QED BY <1>3, <1>4 DEF deleteAllocation, TypeOK, ControllerTypeOK

-----------------------------------------------------------------------------
(* The type invariant *)

TypeInv == TypeOK /\ HandlerOK

LEMMA TypeStep ==
    ASSUME TypeInv, [Next]_vars
    PROVE  TypeInv'
<1> USE DEF TypeInv
<1>1. CASE UNCHANGED vars
    BY <1>1 DEF vars, objectVars, nodeVars, ctlVars, TypeOK, ObjectsTypeOK, NodeTypeOK,
                ControllerTypeOK, HandlerOK
<1>2. ASSUME NEW c \in Claims, ClaimStep(c) PROVE TypeInv'
    <2>1. claim' \in [Claims -> {"absent", "live", "gone"}] /\ UNCHANGED <<allocs, gen>>
        BY <1>2 DEF ClaimStep, CreateClaim, DeleteClaim, TypeOK, ObjectsTypeOK
    <2> QED BY <1>2, <2>1 DEF ClaimStep, nodeVars, ctlVars, TypeOK, ObjectsTypeOK, NodeTypeOK,
                              ControllerTypeOK, HandlerOK
<1>3. ASSUME NEW c \in Claims, NEW n \in Nodes, Schedule(c, n) PROVE TypeInv'
    <2>1. node' \in [Claims -> Nodes \cup {None}]
        BY <1>3 DEF Schedule, TypeOK
    <2> QED BY <1>3, <2>1 DEF Schedule, objectVars, nodeVars, ctlVars, TypeOK,
                              ObjectsTypeOK, NodeTypeOK, ControllerTypeOK, HandlerOK
<1>4. ASSUME NEW c \in Claims, Deallocate(c) PROVE TypeInv'
    <2>1. node' \in [Claims -> Nodes \cup {None}]
        BY <1>4 DEF Deallocate, TypeOK
    <2> QED BY <1>4, <2>1 DEF Deallocate, objectVars, nodeVars, ctlVars, TypeOK,
                              ObjectsTypeOK, NodeTypeOK, ControllerTypeOK, HandlerOK
<1>5. ASSUME NEW p \in Pools, PoolStep(p) PROVE TypeInv'
    <2>1. /\ gen[p] \in Nat \ {0} /\ Len(PoolHistory[p]) \in Nat /\ gen[p] < Len(PoolHistory[p])
          /\ gen' = [gen EXCEPT ![p] = gen[p] + 1]
        BY <1>5, ObjectsAssumption DEF PoolStep, EditPool, TypeOK, ObjectsTypeOK
    <2>2. gen[p] + 1 \in Nat \ {0} /\ gen[p] + 1 <= Len(PoolHistory[p])
        BY <2>1
    <2>3. gen' \in [Pools -> Nat \ {0}] /\ \A q \in Pools : gen'[q] <= Len(PoolHistory[q])
        BY <2>1, <2>2 DEF TypeOK, ObjectsTypeOK
    <2>4. ctl' \in [Controllers -> Pass]
        BY <1>5, OutdateType DEF PoolStep, TypeOK, ControllerTypeOK
    <2> QED BY <1>5, <2>3, <2>4 DEF PoolStep, EditPool, nodeVars, TypeOK, ObjectsTypeOK,
                                    NodeTypeOK, ControllerTypeOK, HandlerOK
<1>6. ASSUME NEW n \in Nodes, LocalStep(n) PROVE TypeInv'
    <2>1. NodeLocal(n)
        BY <1>6 DEF LocalStep, NodeLocal
    <2>2. NodeTypeOK' /\ HandlerOK'
        BY <2>1, LocalHandler, LocalStore DEF TypeOK, NodeTypeOK
    <2> QED BY <1>6, <2>2 DEF LocalStep, objectVars, ctlVars, TypeOK, ObjectsTypeOK,
                              ControllerTypeOK
<1>7. ASSUME NEW n \in Nodes, WriteStep(n) PROVE TypeInv'
    <2>1. allocs' \in [Names -> Allocation] /\ NodeTypeOK' /\ HandlerOK'
        BY <1>7, WriteTypes DEF WriteStep
    <2> QED BY <1>7, <2>1 DEF WriteStep, ctlVars, TypeOK, ObjectsTypeOK, ControllerTypeOK
<1>8. CASE LateStep
    <2>1. allocs' \in [Names -> Allocation] /\ NodeTypeOK' /\ HandlerOK'
        BY <1>8, LateTypes DEF LateStep
    <2> QED BY <1>8, <2>1 DEF LateStep, ctlVars, TypeOK, ObjectsTypeOK, ControllerTypeOK
<1>9. ASSUME NEW k \in Controllers, ControllerStep(k) PROVE TypeInv'
    <2>1. allocs' \in [Names -> Allocation] /\ ControllerTypeOK'
        <3>1. CASE CtlLocal(k) /\ UNCHANGED allocs
            BY <3>1, CtlTypes DEF TypeOK, ObjectsTypeOK
        <3>2. CASE deleteAllocation(k)
            BY <3>2, DeleteTypes
        <3> QED BY <1>9, <3>1, <3>2 DEF ControllerStep, CtlLocal
    <2> QED BY <1>9, <2>1 DEF ControllerStep, nodeVars, TypeOK, ObjectsTypeOK, NodeTypeOK,
                              HandlerOK
<1> QED BY <1>1, <1>2, <1>3, <1>4, <1>5, <1>6, <1>7, <1>8, <1>9 DEF Next

LEMMA TypeInvariant == Spec => []TypeInv
<1>1. Init => TypeInv
    BY InitTypes DEF TypeInv, HandlerOK, Init, NodeInit, Idle, Preparing, Naming
<1>2. TypeInv /\ [Next]_vars => TypeInv'
    BY TypeStep
<1> QED BY <1>1, <1>2, PTL DEF Spec

\* Every variable keeps its type, for every pool history and set of faults.
THEOREM TypeCorrect == Spec => []TypeOK
<1>1. TypeInv => TypeOK
    BY DEF TypeInv
<1> QED BY <1>1, TypeInvariant, PTL

-----------------------------------------------------------------------------
(* Ownership of allocations.  The invariant says why an object that a Pod   *)
(* or a handler relies on cannot be deleted by anybody: every pending       *)
(* delete is tied to one object by its UID, and to a claim that is gone or  *)
(* that the kubelet is giving back.                                         *)

Owned(nm, c) == Exists(nm) /\ allocs[nm].claim = c

\* The kubelet knows a claim only on the node it is allocated on.
KubeletOK ==
    \A n \in Nodes, c \in Claims :
        kubelet[n][c] # "none" => claim[c] = "live" /\ node[c] = n

\* What handler x of a node relies on, k being its kubelet's states: it works on a claim of the kubelet and
\* releases only what the kubelet gives back; what DeleteForClaim still has to
\* delete belongs to its claim; past Reserve it owns the address it stores.
HandlerOwns(k, x) ==
    /\ x.pc # "idle" => k[x.claim] # "none"
    /\ x.pc \in {"list", "delete", "forget"} => k[x.claim] = "releasing"
    /\ x.todo # {} => x.pc = "delete"
    /\ \A i \in x.todo : DeleteMatches(i.name, i.uid) => allocs[i.name].claim = x.claim
    /\ x.pc \in {"record", "device"} => Owned(x.name, x.claim)

HandlersOwn == \A n \in Nodes : HandlerOwns(kubelet[n], h[n])

\* What controller pass x relies on: what it listed still has the claim it had
\* then, if it still exists, and it deletes only for claims that are gone.
PassOwns(x) ==
    /\ \A i \in x.items : /\ DeleteMatches(i.name, i.uid) => allocs[i.name].claim = i.claim
                          /\ claim[i.claim] # "absent"
    /\ x.pc = "delete" =>
          /\ x.cur \in Listed
          /\ DeleteMatches(x.cur.name, x.cur.uid) => allocs[x.cur.name].claim = x.cur.claim
          /\ claim[x.cur.claim] = "gone"

PassesOwn == \A k \in Controllers : PassOwns(ctl[k])

\* Objects and pending creates are those of claims that exist or existed.
KnownOK ==
    /\ \A nm \in Names : allocs[nm].claim # None => claim[allocs[nm].claim] # "absent"
    /\ \A l \in late : claim[l.claim] # "absent"

\* What store s of a node holds for a claim that is not being released is owned.
StoreOwns(k, s) ==
    \A c \in Claims : k[c] # "releasing" =>
        \A r \in ReqIds : s.dev[c][r] # NoName =>
            k[c] # "none" /\ Owned(s.dev[c][r], c)

StoresOwn == \A n \in Nodes : StoreOwns(kubelet[n], mem[n]) /\ StoreOwns(kubelet[n], disk[n])

OwnershipInv == KubeletOK /\ HandlersOwn /\ PassesOwn /\ KnownOK /\ StoresOwn

LEMMA OwnershipInit == Init => OwnershipInv
<1> SUFFICES ASSUME Init PROVE OwnershipInv
    OBVIOUS
<1>1. KubeletOK
    BY DEF Init, NodeInit, KubeletOK
<1>2. HandlersOwn
    BY DEF Init, NodeInit, Idle, HandlersOwn, HandlerOwns
<1>3. PassesOwn
    BY DEF Init, ControllerInit, NoPass, PassesOwn, PassOwns
<1>4. KnownOK
    <2>1. \A nm \in Names : allocs[nm].claim = None
        BY DEF Init, ObjectsInit, NoAllocation
    <2> QED BY <2>1 DEF Init, NodeInit, KnownOK
<1>5. StoresOwn
    BY DEF Init, NodeInit, EmptyStore, StoresOwn, StoreOwns
<1> QED BY <1>1, <1>2, <1>3, <1>4, <1>5 DEF OwnershipInv

\* A step that changes neither allocations, claims, nodes nor the kubelet, and
\* the local part of whose invariant is known for node n.
LEMMA LocalOwnership ==
    ASSUME TypeInv, OwnershipInv, NEW n \in Nodes, NEW x,
           UNCHANGED <<objectVars, ctlVars, node, late, kubelet>>,
           h' = [h EXCEPT ![n] = x], HandlerOwns(kubelet[n], x),
           NEW m, NEW d, mem' = [mem EXCEPT ![n] = m], disk' = [disk EXCEPT ![n] = d],
           StoreOwns(kubelet[n], m), StoreOwns(kubelet[n], d)
    PROVE  OwnershipInv'
<1> USE DEF objectVars, ctlVars
<1>1. KubeletOK' /\ KnownOK' /\ PassesOwn'
    BY DEF OwnershipInv, KubeletOK, KnownOK, PassesOwn, PassOwns, DeleteMatches
<1>2. HandlersOwn'
    <2> SUFFICES ASSUME NEW q \in Nodes PROVE HandlerOwns(kubelet[q], h[q])'
        BY DEF HandlersOwn
    <2>1. HandlerOwns(kubelet[q], h'[q])
        BY DEF OwnershipInv, HandlersOwn, TypeInv, TypeOK, NodeTypeOK
    <2> QED BY <2>1 DEF HandlerOwns, DeleteMatches, Owned, Exists
<1>3. StoresOwn'
    <2> SUFFICES ASSUME NEW q \in Nodes PROVE (StoreOwns(kubelet[q], mem[q]) /\ StoreOwns(kubelet[q], disk[q]))'
        BY DEF StoresOwn
    <2>1. StoreOwns(kubelet[q], mem'[q]) /\ StoreOwns(kubelet[q], disk'[q])
        BY DEF OwnershipInv, StoresOwn, TypeInv, TypeOK, NodeTypeOK
    <2> QED BY <2>1 DEF StoreOwns, Owned, Exists
<1> QED BY <1>1, <1>2, <1>3 DEF OwnershipInv

LEMMA IdleOwns ==
    ASSUME NEW k PROVE HandlerOwns(k, Idle)
BY DEF HandlerOwns, Idle

\* The same for a step that changes nothing but the handler of node n.
LEMMA HandlerOwnership ==
    ASSUME TypeInv, OwnershipInv, NEW n \in Nodes, NEW x,
           UNCHANGED <<objectVars, ctlVars, node, late, kubelet, mem, disk>>,
           h' = [h EXCEPT ![n] = x], HandlerOwns(kubelet[n], x)
    PROVE  OwnershipInv'
<1>1. mem' = [mem EXCEPT ![n] = mem[n]] /\ disk' = [disk EXCEPT ![n] = disk[n]]
    BY DEF TypeInv, TypeOK, NodeTypeOK
<1>2. StoreOwns(kubelet[n], mem[n]) /\ StoreOwns(kubelet[n], disk[n])
    BY DEF OwnershipInv, StoresOwn
<1> QED BY <1>1, <1>2, LocalOwnership

LEMMA ReturnOwnership ==
    ASSUME TypeInv, OwnershipInv, NEW n \in Nodes, Return(n),
           UNCHANGED <<objectVars, ctlVars, node, late, kubelet, mem, disk>>
    PROVE  OwnershipInv'
BY IdleOwns, HandlerOwnership DEF Return

\* A preparing handler goes on to its next candidate.
LEMMA NextCandidateOwnership ==
    ASSUME TypeInv, OwnershipInv, NEW n \in Nodes, NEW k, NextCandidate(n, k),
           h[n].pc \in {"find", "get"},
           UNCHANGED <<objectVars, ctlVars, node, late, kubelet, mem, disk>>
    PROVE  OwnershipInv'
<1>1. CASE Return(n)
    BY <1>1, ReturnOwnership
<1>2. CASE ~Return(n)
    <2>1. PICK j, nm : h' = [h EXCEPT ![n].pc = "create", ![n].cand = j, ![n].name = nm]
        BY <1>2 DEF NextCandidate
    <2> DEFINE x == [h[n] EXCEPT !.pc = "create", !.cand = j, !.name = nm]
    <2>2. HandlerOwns(kubelet[n], h[n]) /\ h[n] \in Handler
        BY DEF OwnershipInv, HandlersOwn, TypeInv, TypeOK, NodeTypeOK
    <2>3. x.pc = "create" /\ x.claim = h[n].claim /\ x.todo = h[n].todo
        BY <2>2 DEF Handler
    <2>4. HandlerOwns(kubelet[n], x)
        BY <2>2, <2>3 DEF HandlerOwns
    <2>5. h' = [h EXCEPT ![n] = x]
        BY <2>1
    <2> QED BY <2>4, <2>5, HandlerOwnership
<1> QED BY <1>1, <1>2

\* The calls of a handler that only read the cluster.
LEMMA ReadOwnership ==
    ASSUME TypeInv, OwnershipInv, NEW n \in Nodes,
           UNCHANGED <<objectVars, ctlVars, node>>,
           \/ \E answered \in BOOLEAN : ReloadIPPools(n, answered)
           \/ FindForClaim(n) \/ ReserveGet(n) \/ DeleteForClaimList(n)
           \/ \E c \in Claims : StartUnprepare(n, c)
    PROVE  OwnershipInv'
<1>0. UNCHANGED <<objectVars, ctlVars, node, late, kubelet, mem, disk>>
    BY DEF ReloadIPPools, FindForClaim, ReserveGet, DeleteForClaimList, StartUnprepare
<1>1. HandlerOwns(kubelet[n], h[n]) /\ h[n] \in Handler
    BY DEF OwnershipInv, HandlersOwn, TypeInv, TypeOK, NodeTypeOK
<1>2. ASSUME Return(n) PROVE OwnershipInv'
    BY <1>0, <1>2, ReturnOwnership
<1>3. ASSUME NEW nm \in AllocationsOf(h[n].claim), h[n].pc = "find",
             h' = [h EXCEPT ![n].pc = "record", ![n].name = nm]
      PROVE  OwnershipInv'
    <2> DEFINE x == [h[n] EXCEPT !.pc = "record", !.name = nm]
    <2>1. x.pc = "record" /\ x.claim = h[n].claim /\ x.todo = h[n].todo /\ x.name = nm
        BY <1>1 DEF Handler
    <2>2. HandlerOwns(kubelet[n], x)
        BY <1>1, <1>3, <2>1 DEF HandlerOwns, AllocationsOf, ParseAllocation, Owned
    <2>3. h' = [h EXCEPT ![n] = x]
        BY <1>3
    <2> QED BY <1>0, <2>2, <2>3, HandlerOwnership
<1>4. ASSUME NEW answered \in BOOLEAN, ReloadIPPools(n, answered) PROVE OwnershipInv'
    <2> DEFINE x == [h[n] EXCEPT !.pc = "find", !.spec = LoadedSpec(Req(n).pool, answered)]
    <2>1. x.pc = "find" /\ x.claim = h[n].claim /\ x.todo = h[n].todo
        BY <1>1 DEF Handler
    <2>2. HandlerOwns(kubelet[n], x)
        BY <1>1, <1>4, <2>1 DEF HandlerOwns, ReloadIPPools
    <2>3. Return(n) \/ h' = [h EXCEPT ![n] = x]
        BY <1>4 DEF ReloadIPPools
    <2> QED BY <1>0, <1>2, <2>2, <2>3, HandlerOwnership
<1>5. ASSUME FindForClaim(n) PROVE OwnershipInv'
    <2>1. ASSUME NEW nm, h' = [h EXCEPT ![n].pc = "create", ![n].name = nm] PROVE OwnershipInv'
        <3> DEFINE x == [h[n] EXCEPT !.pc = "create", !.name = nm]
        <3>1. x.pc = "create" /\ x.claim = h[n].claim /\ x.todo = h[n].todo
            BY <1>1 DEF Handler
        <3>2. HandlerOwns(kubelet[n], x)
            BY <1>1, <1>5, <3>1 DEF HandlerOwns, FindForClaim
        <3>3. h' = [h EXCEPT ![n] = x]
            BY <2>1
        <3> QED BY <1>0, <3>2, <3>3, HandlerOwnership
    <2>2. ASSUME NextCandidate(n, 0) PROVE OwnershipInv'
        BY <1>0, <1>5, <2>2, NextCandidateOwnership DEF FindForClaim
    <2> QED BY <1>2, <1>3, <1>5, <2>1, <2>2 DEF FindForClaim
<1>6. ASSUME ReserveGet(n) PROVE OwnershipInv'
    <2>1. ASSUME h[n].name \in AllocationsOf(h[n].claim), h' = [h EXCEPT ![n].pc = "record"]
          PROVE  OwnershipInv'
        <3> DEFINE x == [h[n] EXCEPT !.pc = "record"]
        <3>1. x.pc = "record" /\ x.claim = h[n].claim /\ x.todo = h[n].todo /\ x.name = h[n].name
            BY <1>1 DEF Handler
        <3>2. HandlerOwns(kubelet[n], x)
            BY <1>1, <1>6, <2>1, <3>1
               DEF HandlerOwns, ReserveGet, AllocationsOf, ParseAllocation, Owned
        <3>3. h' = [h EXCEPT ![n] = x]
            BY <2>1
        <3> QED BY <1>0, <3>2, <3>3, HandlerOwnership
    <2>2. ASSUME NextCandidate(n, h[n].cand) PROVE OwnershipInv'
        BY <1>0, <1>6, <2>2, NextCandidateOwnership DEF ReserveGet
    <2> QED BY <1>2, <1>6, <2>1, <2>2 DEF ReserveGet
<1>7. ASSUME DeleteForClaimList(n) PROVE OwnershipInv'
    <2> DEFINE found == {[name |-> nm, uid |-> allocs[nm].uid] : nm \in AllocationsOf(h[n].claim)}
               x == [h[n] EXCEPT !.pc = "delete", !.todo = found]
    <2>1. \A i \in found : allocs[i.name].claim = h[n].claim
        BY DEF AllocationsOf
    <2> HIDE DEF found
    <2>2. x.pc = "delete" /\ x.claim = h[n].claim /\ x.todo = found
        BY <1>1 DEF Handler
    <2>3. HandlerOwns(kubelet[n], x)
        BY <1>1, <1>7, <2>1, <2>2 DEF HandlerOwns, DeleteForClaimList
    <2>4. Return(n) \/ h' = [h EXCEPT ![n] = x]
        BY <1>7 DEF DeleteForClaimList, found
    <2> QED BY <1>0, <1>2, <2>3, <2>4, HandlerOwnership
<1>8. ASSUME NEW c \in Claims, StartUnprepare(n, c) PROVE OwnershipInv'
    <2> DEFINE x == [Idle EXCEPT !.pc = "list", !.claim = c]
    <2>1. HandlerOwns(kubelet[n], x)
        BY <1>8 DEF HandlerOwns, Idle, StartUnprepare
    <2> QED BY <1>0, <1>8, <2>1, HandlerOwnership DEF StartUnprepare
<1> QED BY <1>4, <1>5, <1>6, <1>7, <1>8

\* A step of node n that also moves the kubelet's state of one claim to s.
LEMMA KubeletOwnership ==
    ASSUME TypeInv, OwnershipInv, NEW n \in Nodes, NEW c \in Claims, NEW s,
           UNCHANGED <<objectVars, ctlVars, node, late>>,
           kubelet' = [kubelet EXCEPT ![n][c] = s],
           s # "none" => claim[c] = "live" /\ node[c] = n,
           NEW x, h' = [h EXCEPT ![n] = x], HandlerOwns(kubelet'[n], x),
           NEW m, NEW d, mem' = [mem EXCEPT ![n] = m], disk' = [disk EXCEPT ![n] = d],
           StoreOwns(kubelet'[n], m), StoreOwns(kubelet'[n], d)
    PROVE  OwnershipInv'
<1> USE DEF objectVars, ctlVars
<1>0. /\ kubelet \in [Nodes -> [Claims -> KubeletState]]
      /\ h \in [Nodes -> Handler] /\ mem \in [Nodes -> Store] /\ disk \in [Nodes -> Store]
    BY DEF TypeInv, TypeOK, NodeTypeOK
<1>1. KubeletOK' /\ KnownOK' /\ PassesOwn'
    BY <1>0 DEF OwnershipInv, KubeletOK, KnownOK, PassesOwn, PassOwns, DeleteMatches
<1>2. HandlersOwn'
    <2> SUFFICES ASSUME NEW q \in Nodes PROVE HandlerOwns(kubelet[q], h[q])'
        BY DEF HandlersOwn
    <2>1. CASE q = n
        <3>1. h'[q] = x
            BY <1>0, <2>1
        <3> QED BY <2>1, <3>1 DEF HandlerOwns, DeleteMatches, Owned, Exists
    <2>2. CASE q # n
        <3>1. h'[q] = h[q] /\ kubelet'[q] = kubelet[q] /\ HandlerOwns(kubelet[q], h[q])
            BY <1>0, <2>2 DEF OwnershipInv, HandlersOwn
        <3> QED BY <3>1 DEF HandlerOwns, DeleteMatches, Owned, Exists
    <2> QED BY <2>1, <2>2
<1>3. StoresOwn'
    <2> SUFFICES ASSUME NEW q \in Nodes PROVE (StoreOwns(kubelet[q], mem[q]) /\ StoreOwns(kubelet[q], disk[q]))'
        BY DEF StoresOwn
    <2>1. CASE q = n
        <3>1. mem'[q] = m /\ disk'[q] = d
            BY <1>0, <2>1
        <3> QED BY <2>1, <3>1 DEF StoreOwns, Owned, Exists
    <2>2. CASE q # n
        <3>1. /\ mem'[q] = mem[q] /\ disk'[q] = disk[q] /\ kubelet'[q] = kubelet[q]
              /\ StoreOwns(kubelet[q], mem[q]) /\ StoreOwns(kubelet[q], disk[q])
            BY <1>0, <2>2 DEF OwnershipInv, StoresOwn
        <3> QED BY <3>1 DEF StoreOwns, Owned, Exists
    <2> QED BY <2>1, <2>2
<1> QED BY <1>1, <1>2, <1>3 DEF OwnershipInv

\* The steps that write the store or move the kubelet on.
LEMMA StoreOwnership ==
    ASSUME TypeInv, OwnershipInv, NEW n \in Nodes,
           UNCHANGED <<objectVars, ctlVars, node>>,
           \/ \E c \in Claims : \/ node[c] = n /\ claim[c] = "live" /\ StartPrepare(n, c)
                                \/ PodTerminated(n, c)
           \/ ReserveIP(n) \/ SetDevice(n) \/ DeleteClaimRecord(n)
           \/ SetNetNS(n) \/ Crash(n)
    PROVE  OwnershipInv'
<1>0. /\ kubelet \in [Nodes -> [Claims -> KubeletState]]
      /\ h[n] \in Handler /\ mem[n] \in Store /\ disk[n] \in Store
      /\ HandlerOwns(kubelet[n], h[n]) /\ StoreOwns(kubelet[n], mem[n]) /\ StoreOwns(kubelet[n], disk[n])
      /\ GoodHandler(h[n])
    BY GoodNow DEF OwnershipInv, HandlersOwn, StoresOwn, TypeInv, TypeOK, NodeTypeOK
<1>a. ASSUME UNCHANGED h PROVE h' = [h EXCEPT ![n] = h[n]]
    BY <1>a DEF TypeInv, TypeOK, NodeTypeOK
<1>b. ASSUME UNCHANGED mem PROVE mem' = [mem EXCEPT ![n] = mem[n]]
    BY <1>b DEF TypeInv, TypeOK, NodeTypeOK
<1>c. ASSUME UNCHANGED disk PROVE disk' = [disk EXCEPT ![n] = disk[n]]
    BY <1>c DEF TypeInv, TypeOK, NodeTypeOK
<1>1. ASSUME NEW c \in Claims, node[c] = n, claim[c] = "live", StartPrepare(n, c)
      PROVE  OwnershipInv'
    <2> DEFINE x == [Idle EXCEPT !.pc = "reload", !.claim = c, !.req = 1]
               s == IF kubelet[n][c] = "none" THEN "preparing" ELSE kubelet[n][c]
    <2>1. /\ kubelet' = [kubelet EXCEPT ![n][c] = s] /\ s \notin {"none", "releasing"}
          /\ kubelet[n][c] # "releasing" /\ h' = [h EXCEPT ![n] = x] /\ UNCHANGED <<mem, disk, late>>
        BY <1>1 DEF StartPrepare
    <2>2. x.pc = "reload" /\ x.claim = c /\ x.todo = {}
        BY DEF Idle
    <2>3. kubelet'[n][c] = s /\ \A d \in Claims : d # c => kubelet'[n][d] = kubelet[n][d]
        BY <1>0, <2>1
    <2> HIDE DEF x, s
    <2>4. HandlerOwns(kubelet'[n], x)
        BY <2>1, <2>2, <2>3 DEF HandlerOwns
    <2>6. StoreOwns(kubelet'[n], mem[n]) /\ StoreOwns(kubelet'[n], disk[n])
        BY <1>0, <2>1, <2>3 DEF StoreOwns
    <2>7. mem' = [mem EXCEPT ![n] = mem[n]] /\ disk' = [disk EXCEPT ![n] = disk[n]]
        BY <1>b, <1>c, <2>1
    <2> QED BY <1>1, <2>1, <2>4, <2>6, <2>7, KubeletOwnership
<1>2. ASSUME NEW c \in Claims, PodTerminated(n, c) PROVE OwnershipInv'
    <2>1. /\ kubelet' = [kubelet EXCEPT ![n][c] = "releasing"] /\ kubelet[n][c] # "none"
          /\ UNCHANGED <<h, mem, disk, late>>
        BY <1>2 DEF PodTerminated
    <2>2. claim[c] = "live" /\ node[c] = n
        BY <2>1 DEF OwnershipInv, KubeletOK
    <2>3. kubelet'[n][c] = "releasing" /\ \A d \in Claims : d # c => kubelet'[n][d] = kubelet[n][d]
        BY <1>0, <2>1
    <2>4. h[n].pc # "idle" => h[n].claim \in Claims
        BY <1>0 DEF GoodHandler
    <2>5. HandlerOwns(kubelet'[n], h[n])
        BY <1>0, <2>3, <2>4 DEF HandlerOwns
    <2>6. StoreOwns(kubelet'[n], mem[n]) /\ StoreOwns(kubelet'[n], disk[n])
        BY <1>0, <2>3 DEF StoreOwns
    <2>7. /\ h' = [h EXCEPT ![n] = h[n]]
          /\ mem' = [mem EXCEPT ![n] = mem[n]] /\ disk' = [disk EXCEPT ![n] = disk[n]]
        BY <1>a, <1>b, <1>c, <2>1
    <2> QED BY <2>1, <2>2, <2>5, <2>6, <2>7, KubeletOwnership
<1>3. ASSUME ReserveIP(n) PROVE OwnershipInv'
    <2> DEFINE c == h[n].claim
               m == [mem[n] EXCEPT !.rec[c] = h[n].name]
               x == [h[n] EXCEPT !.pc = "device"]
    <2>1. UNCHANGED <<late, kubelet>> /\ h[n].pc = "record"
        BY <1>3 DEF ReserveIP
    <2>2. HandlerOwns(kubelet[n], x)
        <3>1. x.pc = "device" /\ x.claim = c /\ x.todo = h[n].todo /\ x.name = h[n].name
            BY <1>0 DEF Handler
        <3> QED BY <1>0, <2>1, <3>1 DEF HandlerOwns
    <2>3. StoreOwns(kubelet[n], m)
        <3>1. m.dev = mem[n].dev
            BY <1>0 DEF Store
        <3> QED BY <1>0, <3>1 DEF StoreOwns
    <2>4. h' = [h EXCEPT ![n] = x] \/ h' = [h EXCEPT ![n] = Idle]
        BY <1>3 DEF ReserveIP, Return
    <2>5. mem' = [mem EXCEPT ![n] = m] \/ mem' = [mem EXCEPT ![n] = mem[n]]
        BY <1>3, <1>b DEF ReserveIP, Persist, PersistFails
    <2>6. disk' = [disk EXCEPT ![n] = m] \/ disk' = [disk EXCEPT ![n] = disk[n]]
        BY <1>3, <1>c DEF ReserveIP, Persist, PersistFails
    <2> HIDE DEF m, x
    <2> QED BY <1>0, <2>1, <2>2, <2>3, <2>4, <2>5, <2>6, IdleOwns, LocalOwnership
<1>4. ASSUME SetDevice(n) PROVE OwnershipInv'
    <2> DEFINE c == h[n].claim
               m == [mem[n] EXCEPT !.dev[c][h[n].req] = h[n].name]
               x == [Idle EXCEPT !.pc = "reload", !.claim = c, !.req = h[n].req + 1]
    <2>1. UNCHANGED late /\ h[n].pc = "device" /\ c \in Claims
        BY <1>0, <1>4 DEF SetDevice, GoodHandler
    <2>2. kubelet[n][c] # "none" /\ Owned(h[n].name, c)
        BY <1>0, <2>1 DEF HandlerOwns
    <2>3. StoreOwns(kubelet[n], m)
        <3>1. \A d \in Claims, r \in ReqIds :
                m.dev[d][r] = mem[n].dev[d][r] \/ (d = c /\ m.dev[d][r] = h[n].name)
            BY <1>0 DEF Store
        <3> QED BY <1>0, <2>2, <3>1 DEF StoreOwns
    <2>4. HandlerOwns(kubelet[n], x)
        BY <2>2 DEF HandlerOwns, Idle
    <2>5. h' = [h EXCEPT ![n] = x] \/ h' = [h EXCEPT ![n] = Idle]
        BY <1>4 DEF SetDevice, NextRequest, Return
    <2>6. mem' = [mem EXCEPT ![n] = m] \/ mem' = [mem EXCEPT ![n] = mem[n]]
        BY <1>4, <1>b DEF SetDevice, Persist, PersistFails
    <2>7. disk' = [disk EXCEPT ![n] = m] \/ disk' = [disk EXCEPT ![n] = disk[n]]
        BY <1>4, <1>c DEF SetDevice, Persist, PersistFails
    <2> HIDE DEF m, x
    <2>8. CASE UNCHANGED kubelet
        BY <1>0, <2>1, <2>3, <2>4, <2>5, <2>6, <2>7, <2>8, IdleOwns, LocalOwnership
    <2>9. CASE kubelet[n][c] = "preparing" /\ kubelet' = [kubelet EXCEPT ![n][c] = "prepared"]
        <3>1. kubelet'[n][c] = "prepared" /\ \A d \in Claims : d # c => kubelet'[n][d] = kubelet[n][d]
            BY <1>0, <2>1, <2>9
        <3>2. /\ StoreOwns(kubelet'[n], m)
              /\ StoreOwns(kubelet'[n], mem[n]) /\ StoreOwns(kubelet'[n], disk[n])
            BY <1>0, <2>3, <2>9, <3>1 DEF StoreOwns
        <3>3. HandlerOwns(kubelet'[n], x) /\ HandlerOwns(kubelet'[n], Idle)
            BY <3>1, IdleOwns DEF HandlerOwns, x, Idle
        <3>4. claim[c] = "live" /\ node[c] = n
            BY <2>1, <2>2 DEF OwnershipInv, KubeletOK
        <3> HIDE DEF c
        <3> QED BY <2>1, <2>5, <2>6, <2>7, <2>9, <3>2, <3>3, <3>4, KubeletOwnership
    <2>10. UNCHANGED kubelet \/ (kubelet[n][c] = "preparing"
                                /\ kubelet' = [kubelet EXCEPT ![n][c] = "prepared"])
        <3>1. ASSUME kubelet' = [kubelet EXCEPT ![n][c] = kubelet[n][c]] PROVE UNCHANGED kubelet
            BY <1>0, <3>1
        <3> QED BY <1>4, <3>1 DEF SetDevice, NextRequest
    <2> QED BY <2>8, <2>9, <2>10
<1>5. ASSUME DeleteClaimRecord(n) PROVE OwnershipInv'
    <2> DEFINE c == h[n].claim
               m == [dev |-> [mem[n].dev EXCEPT ![c] = EmptyStore.dev[c]],
                     rec |-> [mem[n].rec EXCEPT ![c] = NoName]]
    <2>1. UNCHANGED late /\ h[n].pc = "forget" /\ c \in Claims /\ h' = [h EXCEPT ![n] = Idle]
        BY <1>0, <1>5 DEF DeleteClaimRecord, GoodHandler, Return
    <2>2. kubelet[n][c] = "releasing"
        BY <1>0, <2>1 DEF HandlerOwns
    <2>3. \A d \in Claims, r \in ReqIds :
             m.dev[d][r] = IF d = c THEN NoName ELSE mem[n].dev[d][r]
        BY <1>0, <2>1 DEF Store, EmptyStore
    <2>4. mem' = [mem EXCEPT ![n] = m]
        BY <1>5 DEF DeleteClaimRecord, Persist, PersistFails
    <2>5. CASE PersistFails(n, m) /\ UNCHANGED kubelet
        <3>1. disk' = [disk EXCEPT ![n] = disk[n]]
            BY <2>5, <1>c DEF PersistFails
        <3>2. StoreOwns(kubelet[n], m)
            BY <1>0, <2>2, <2>3 DEF StoreOwns
        <3> HIDE DEF m
        <3> QED BY <1>0, <2>1, <2>4, <2>5, <3>1, <3>2, IdleOwns, LocalOwnership
    <2>6. CASE Persist(n, m) /\ kubelet' = [kubelet EXCEPT ![n][c] = "none"]
        <3>1. disk' = [disk EXCEPT ![n] = m]
            BY <2>6 DEF Persist
        <3>2. kubelet'[n][c] = "none" /\ \A d \in Claims : d # c => kubelet'[n][d] = kubelet[n][d]
            BY <1>0, <2>1, <2>6
        <3>3. StoreOwns(kubelet'[n], m)
            BY <1>0, <2>3, <3>2 DEF StoreOwns
        <3> HIDE DEF m, c
        <3> QED BY <2>1, <2>4, <2>6, <3>1, <3>3, IdleOwns, KubeletOwnership
    <2> QED BY <1>5, <2>5, <2>6 DEF DeleteClaimRecord
<1>6. ASSUME Crash(n) PROVE OwnershipInv'
    <2>1. /\ h' = [h EXCEPT ![n] = Idle] /\ mem' = [mem EXCEPT ![n] = disk[n]]
          /\ disk' = [disk EXCEPT ![n] = disk[n]] /\ UNCHANGED <<late, kubelet>>
        BY <1>6, <1>c DEF Crash, Return
    <2> QED BY <1>0, <2>1, IdleOwns, LocalOwnership
<1>7. ASSUME SetNetNS(n) PROVE OwnershipInv'
    <2>1. /\ h' = [h EXCEPT ![n] = h[n]] /\ mem' = [mem EXCEPT ![n] = mem[n]]
          /\ disk' = [disk EXCEPT ![n] = mem[n]] /\ UNCHANGED <<late, kubelet>>
        BY <1>7, <1>a DEF SetNetNS, Persist
    <2> QED BY <1>0, <2>1, LocalOwnership
<1> QED BY <1>1, <1>2, <1>3, <1>4, <1>5, <1>6, <1>7

\* A create call takes a free name and a UID that no pending delete knows.
LEMMA CreateKeeps ==
    ASSUME TypeInv, NEW nm \in Names, NEW c \in Claims, NEW u \in FreshUIDs, NEW type,
           ~Exists(nm), CreateObject(nm, c, u, type)
    PROVE  /\ \A y \in Names : Exists(y) => allocs'[y] = allocs[y]
           /\ \A y \in Names : allocs'[y] = allocs[y] \/ allocs'[y].claim = c
           /\ allocs'[nm].uid # NoUID /\ allocs'[nm].claim = c
           /\ \A n \in Nodes : \A i \in h[n].todo :
                 DeleteMatches(i.name, i.uid)' => allocs'[i.name] = allocs[i.name]
           /\ \A k \in Controllers : \A i \in ctl[k].items \cup {ctl[k].cur} :
                 DeleteMatches(i.name, i.uid)' => allocs'[i.name] = allocs[i.name]
<1>1. u \in UIDs /\ u \notin UsedUIDs /\ u # NoUID
    BY FreshTypes, ObjectsAssumption
<1>2. allocs \in [Names -> Allocation]
    BY DEF TypeInv, TypeOK, ObjectsTypeOK
<1>3. allocs'[nm].uid = u /\ allocs'[nm].claim = c
    BY <1>2 DEF CreateObject, NewAllocationObject
<1>4. \A y : y # nm => allocs'[y] = allocs[y]
    BY <1>2 DEF CreateObject
<1>5. ASSUME NEW n \in Nodes, NEW i \in h[n].todo PROVE i.uid # u
    <2> DEFINE S(q) == {j.uid : j \in h[q].todo}
    <2>1. i.uid \in S(n) /\ S(n) \in {S(q) : q \in Nodes}
        OBVIOUS
    <2>2. i.uid \in UNION {S(q) : q \in Nodes}
        BY <2>1
    <2>3. i.uid \in UsedUIDs
        BY <2>2 DEF UsedUIDs
    <2> QED BY <1>1, <2>3
<1>6. ASSUME NEW k \in Controllers, NEW i \in ctl[k].items \cup {ctl[k].cur} PROVE i.uid # u
    <2> DEFINE S(q) == {j.uid : j \in ctl[q].items \cup {ctl[q].cur}}
    <2>1. i.uid \in S(k) /\ S(k) \in {S(q) : q \in Controllers}
        OBVIOUS
    <2>2. i.uid \in UNION {S(q) : q \in Controllers}
        BY <2>1
    <2>3. i.uid \in UsedUIDs
        BY <2>2 DEF UsedUIDs
    <2> QED BY <1>1, <2>3
<1> QED BY <1>1, <1>3, <1>4, <1>5, <1>6 DEF Exists, DeleteMatches

\* A delete call removes at most the object its UID names.
LEMMA DeleteKeeps ==
    ASSUME TypeInv, NEW nm \in Names, NEW u, DeleteObject(nm, u)
    PROVE  /\ \A y \in Names : \/ allocs'[y] = allocs[y]
                               \/ y = nm /\ DeleteMatches(nm, u) /\ allocs'[y] = NoAllocation
           /\ \A y \in Names, v \in UIDs :
                 DeleteMatches(y, v)' => allocs'[y] = allocs[y]
<1>1. allocs \in [Names -> Allocation]
    BY DEF TypeInv, TypeOK, ObjectsTypeOK
<1>2. \A y \in Names : \/ allocs'[y] = allocs[y]
                       \/ y = nm /\ DeleteMatches(nm, u) /\ allocs'[y] = NoAllocation
    BY <1>1 DEF DeleteObject
<1>3. \A v \in UIDs : v # NoUID
    BY ObjectsAssumption
<1> QED BY <1>2, <1>3 DEF DeleteMatches, NoAllocation

\* Nobody relies on an object whose claim is gone or is being released.
Unused(c) ==
    \/ claim[c] = "gone"
    \/ \E n \in Nodes : kubelet[n][c] = "releasing" /\ h[n].pc = "delete" /\ h[n].claim = c

\* A step that changes the allocations, one handler and the pending creates.
LEMMA WriteOwnership ==
    ASSUME TypeInv, TypeInv', OwnershipInv, UNCHANGED <<claim, node, kubelet, mem, disk>>,
           \A n \in Nodes : h'[n] = h[n] \/ HandlerOwns(kubelet[n], h[n])',
           \A k \in Controllers : ctl'[k] = ctl[k] \/ PassOwns(ctl[k])',
           \A y \in Names, d \in Claims : Owned(y, d) => Owned(y, d)' \/ Unused(d),
           \A y \in Names : \/ allocs'[y] = allocs[y]
                            \/ allocs'[y].claim # None => claim[allocs'[y].claim] # "absent",
           \A n \in Nodes : \A i \in h[n].todo :
                 DeleteMatches(i.name, i.uid)' => allocs'[i.name] = allocs[i.name],
           \A k \in Controllers : \A i \in ctl[k].items \cup {ctl[k].cur} :
                 i \in Listed /\ DeleteMatches(i.name, i.uid)' => allocs'[i.name] = allocs[i.name],
           \A l \in late' : claim[l.claim] # "absent"
    PROVE  OwnershipInv'
<1>1. KubeletOK'
    BY DEF OwnershipInv, KubeletOK
<1>2. \A n \in Nodes, d \in Claims : Unused(d) /\ kubelet[n][d] # "none" =>
         kubelet[n][d] = "releasing" /\ h[n].pc = "delete"
    BY DEF Unused, OwnershipInv, KubeletOK
<1>3. HandlersOwn'
    <2> SUFFICES ASSUME NEW n \in Nodes, h'[n] = h[n] PROVE HandlerOwns(kubelet[n], h[n])'
        BY DEF HandlersOwn
    <2>1. HandlerOwns(kubelet[n], h[n]) /\ GoodHandler(h[n])
        BY GoodNow DEF OwnershipInv, HandlersOwn, TypeInv
    <2>2. h[n].pc \in {"record", "device"} => Owned(h[n].name, h[n].claim)'
        <3> SUFFICES ASSUME h[n].pc \in {"record", "device"}
                     PROVE  Owned(h[n].name, h[n].claim)'
            OBVIOUS
        <3>1. h[n].name \in Names /\ h[n].claim \in Claims
            BY <2>1 DEF GoodHandler, Naming
        <3>2. Owned(h[n].name, h[n].claim) /\ kubelet[n][h[n].claim] # "none"
            BY <2>1 DEF HandlerOwns
        <3>3. ~Unused(h[n].claim)
            BY <1>2, <3>1, <3>2
        <3> QED BY <3>1, <3>2, <3>3 DEF Owned, Exists
    <2>3. \A i \in h[n].todo : DeleteMatches(i.name, i.uid)' => allocs'[i.name].claim = h[n].claim
        BY <2>1 DEF HandlerOwns, DeleteMatches
    <2> QED BY <2>1, <2>2, <2>3 DEF HandlerOwns, Owned, Exists
<1>4. PassesOwn'
    <2> SUFFICES ASSUME NEW k \in Controllers, ctl'[k] = ctl[k] PROVE PassOwns(ctl[k])'
        BY DEF PassesOwn
    <2>1. PassOwns(ctl[k]) /\ ctl[k].items \subseteq Listed
        BY DEF OwnershipInv, PassesOwn, TypeInv, TypeOK, ControllerTypeOK, Pass
    <2> QED BY <2>1 DEF PassOwns, DeleteMatches
<1>5. KnownOK'
    BY DEF OwnershipInv, KnownOK
<1>6. StoresOwn'
    <2>1. ASSUME NEW n \in Nodes, NEW s \in Store, StoreOwns(kubelet[n], s)
          PROVE  StoreOwns(kubelet[n], s)'
        <3> SUFFICES ASSUME NEW c \in Claims, kubelet[n][c] # "releasing", NEW r \in ReqIds,
                            s.dev[c][r] # NoName
                     PROVE  kubelet[n][c] # "none" /\ Owned(s.dev[c][r], c)'
            BY DEF StoreOwns, Owned, Exists
        <3>1. kubelet[n][c] # "none" /\ Owned(s.dev[c][r], c) /\ s.dev[c][r] \in Names
            BY <2>1 DEF StoreOwns, Store
        <3>2. ~Unused(c)
            BY <1>2, <3>1
        <3> QED BY <3>1, <3>2 DEF Owned, Exists
    <2>2. \A n \in Nodes : /\ mem[n] \in Store /\ disk[n] \in Store
                           /\ StoreOwns(kubelet[n], mem[n]) /\ StoreOwns(kubelet[n], disk[n])
        BY DEF OwnershipInv, StoresOwn, TypeInv, TypeOK, NodeTypeOK
    <2> QED BY <2>1, <2>2 DEF StoresOwn, StoreOwns, Owned, Exists
<1> QED BY <1>1, <1>3, <1>4, <1>5, <1>6 DEF OwnershipInv

LEMMA CreateOwnership ==
    ASSUME TypeInv, TypeInv', OwnershipInv, NEW n \in Nodes, NEW u \in FreshUIDs,
           ReserveCreate(n, u), UNCHANGED <<claim, gen, ctlVars, node>>
    PROVE  OwnershipInv'
<1> DEFINE nm == h[n].name
           c == h[n].claim
<1>0. /\ h[n].pc = "create" /\ nm \in Names /\ c \in Claims /\ h[n] \in Handler
      /\ HandlerOwns(kubelet[n], h[n]) /\ claim[c] = "live"
    BY GoodNow DEF ReserveCreate, GoodHandler, Naming, TypeInv, OwnershipInv, HandlersOwn,
                   HandlerOwns, KubeletOK
<1>1. UNCHANGED <<claim, node, kubelet, mem, disk, ctl>>
    BY DEF ReserveCreate, ctlVars
<1>2. \A q \in Nodes : q # n => h'[q] = h[q]
    BY DEF ReserveCreate, Return, TypeInv, TypeOK, NodeTypeOK
<1>3. \A l \in late' : claim[l.claim] # "absent"
    BY <1>0 DEF ReserveCreate, OwnershipInv, KnownOK
<1>4. h'[n] \in {Idle, [h[n] EXCEPT !.pc = "get"], [h[n] EXCEPT !.pc = "record"]}
    BY DEF ReserveCreate, Return, TypeInv, TypeOK, NodeTypeOK
<1>5. h[n].todo = {}
    BY <1>0 DEF HandlerOwns
<1>6. h'[n].todo = {} /\ (h'[n].pc # "idle" => h'[n].claim = c /\ h'[n].name = nm)
      /\ h'[n].pc \in {"idle", "get", "record"}
    BY <1>0, <1>4, <1>5 DEF Idle, Handler
<1>7. CASE UNCHANGED allocs
    <2>0. ~(~Exists(nm) /\ CreateObject(nm, c, u, Type(n)))
        BY <1>0, <1>7, CreateKeeps DEF Exists
    <2>1. h'[n].pc # "record"
        <3>1. h'[n] \in {Idle, [h[n] EXCEPT !.pc = "get"]}
            BY <2>0 DEF ReserveCreate, Return, TypeInv, TypeOK, NodeTypeOK
        <3> QED BY <1>0, <3>1 DEF Idle, Handler
    <2>2. HandlerOwns(kubelet[n], h[n])'
        BY <1>0, <1>1, <1>6, <2>1 DEF HandlerOwns
    <2> QED BY <1>1, <1>2, <1>3, <1>7, <2>2, WriteOwnership DEF Owned, Exists
<1>8. CASE ~Exists(nm) /\ CreateObject(nm, c, u, Type(n))
    <2>1. allocs'[nm].uid # NoUID /\ allocs'[nm].claim = c
        BY <1>0, <1>8, CreateKeeps
    <2>2. HandlerOwns(kubelet[n], h[n])'
        BY <1>0, <1>1, <1>6, <2>1 DEF HandlerOwns, Owned, Exists
    <2>3. \A y \in Names, d \in Claims : Owned(y, d) => Owned(y, d)'
        BY <1>0, <1>8, CreateKeeps DEF Owned, Exists
    <2>4. \A y \in Names : allocs'[y] = allocs[y] \/ allocs'[y].claim = c
        BY <1>0, <1>8, CreateKeeps
    <2>5. /\ \A q \in Nodes : \A i \in h[q].todo :
                DeleteMatches(i.name, i.uid)' => allocs'[i.name] = allocs[i.name]
          /\ \A k \in Controllers : \A i \in ctl[k].items \cup {ctl[k].cur} :
                DeleteMatches(i.name, i.uid)' => allocs'[i.name] = allocs[i.name]
        BY <1>0, <1>8, CreateKeeps
    <2> QED BY <1>0, <1>1, <1>2, <1>3, <2>2, <2>3, <2>4, <2>5, WriteOwnership
<1> QED BY <1>7, <1>8 DEF ReserveCreate

LEMMA LateOwnership ==
    ASSUME TypeInv, TypeInv', OwnershipInv, NEW l \in late, NEW u \in FreshUIDs,
           LateCreate(l, u), UNCHANGED <<claim, gen, ctlVars, node>>
    PROVE  OwnershipInv'
<1>0. l.name \in Names /\ l.claim \in Claims /\ claim[l.claim] # "absent"
    BY DEF TypeInv, TypeOK, NodeTypeOK, OwnershipInv, KnownOK
<1>1. UNCHANGED <<claim, node, kubelet, mem, disk, ctl, h>>
    BY DEF LateCreate, ctlVars
<1>2. \A x \in late' : claim[x.claim] # "absent"
    BY DEF LateCreate, OwnershipInv, KnownOK
<1>3. CASE UNCHANGED allocs
    BY <1>1, <1>2, <1>3, WriteOwnership DEF Owned, Exists
<1>4. CASE ~Exists(l.name) /\ CreateObject(l.name, l.claim, u, l.type)
    <2>1. \A y \in Names, d \in Claims : Owned(y, d) => Owned(y, d)'
        BY <1>0, <1>4, CreateKeeps DEF Owned, Exists
    <2>2. \A y \in Names : allocs'[y] = allocs[y] \/ allocs'[y].claim = l.claim
        BY <1>0, <1>4, CreateKeeps
    <2>3. /\ \A q \in Nodes : \A i \in h[q].todo :
                DeleteMatches(i.name, i.uid)' => allocs'[i.name] = allocs[i.name]
          /\ \A k \in Controllers : \A i \in ctl[k].items \cup {ctl[k].cur} :
                DeleteMatches(i.name, i.uid)' => allocs'[i.name] = allocs[i.name]
        BY <1>0, <1>4, CreateKeeps
    <2> QED BY <1>0, <1>1, <1>2, <2>1, <2>2, <2>3, WriteOwnership
<1> QED BY <1>3, <1>4 DEF LateCreate

LEMMA ReleaseOwnership ==
    ASSUME TypeInv, TypeInv', OwnershipInv, NEW n \in Nodes,
           DeleteForClaimDelete(n), UNCHANGED <<claim, gen, ctlVars, node>>
    PROVE  OwnershipInv'
<1> DEFINE c == h[n].claim
<1>0. /\ h[n].pc = "delete" /\ c \in Claims /\ h[n] \in Handler /\ h[n].todo \subseteq Item
      /\ HandlerOwns(kubelet[n], h[n]) /\ kubelet[n][c] = "releasing"
    BY GoodNow DEF DeleteForClaimDelete, GoodHandler, TypeInv, OwnershipInv, HandlersOwn,
                   HandlerOwns, Handler
<1>1. UNCHANGED <<claim, node, kubelet, mem, disk, ctl, late>>
    BY DEF DeleteForClaimDelete, ctlVars
<1>2. \A q \in Nodes : q # n => h'[q] = h[q]
    BY DEF DeleteForClaimDelete, Return, TypeInv, TypeOK, NodeTypeOK
<1>3. \A l \in late' : claim[l.claim] # "absent"
    BY <1>1 DEF OwnershipInv, KnownOK
<1>4. Unused(c)
    BY <1>0 DEF Unused
<1>5. ASSUME UNCHANGED allocs, h'[n] = Idle \/ (h[n].todo = {} /\ h'[n] = [h[n] EXCEPT !.pc = "forget"])
      PROVE  OwnershipInv'
    <2>1. /\ h'[n].pc \in {"idle", "forget"} /\ h'[n].todo = {}
          /\ h'[n].pc = "forget" => h'[n].claim = c
        BY <1>0, <1>5 DEF Idle, Handler
    <2>2. HandlerOwns(kubelet[n], h[n])'
        BY <1>0, <1>1, <2>1 DEF HandlerOwns
    <2> QED BY <1>1, <1>2, <1>3, <1>5, <2>2, WriteOwnership DEF Owned, Exists
<1>6. ASSUME NEW i \in h[n].todo, DeleteObject(i.name, i.uid),
             h'[n] = Idle \/ h'[n] = [h[n] EXCEPT !.todo = @ \ {i}]
      PROVE  OwnershipInv'
    <2>1. i.name \in Names /\ i.uid \in UIDs
        BY <1>0 DEF Item
    <2>2. \A y \in Names : \/ allocs'[y] = allocs[y]
                           \/ /\ y = i.name /\ DeleteMatches(i.name, i.uid)
                              /\ allocs'[y] = NoAllocation
        BY <1>6, <2>1, DeleteKeeps
    <2>3. \A y \in Names, v \in UIDs : DeleteMatches(y, v)' => allocs'[y] = allocs[y]
        BY <1>6, <2>1, DeleteKeeps
    <2>4. \A y \in Names, d \in Claims : Owned(y, d) => Owned(y, d)' \/ Unused(d)
        BY <1>0, <1>4, <2>2 DEF Owned, Exists, HandlerOwns
    <2>5. \A q \in Nodes : \A j \in h[q].todo : j.name \in Names /\ j.uid \in UIDs
        BY DEF TypeInv, TypeOK, NodeTypeOK, Handler, Item
    <2>6. \A j \in Listed : j.name \in Names /\ j.uid \in UIDs
        BY DEF Listed
    <2>7. /\ h'[n].pc \in {"idle", "delete"} /\ h'[n].todo \subseteq h[n].todo
          /\ h'[n].pc = "delete" => h'[n].claim = c
          /\ h'[n].pc = "idle" => h'[n].todo = {}
        BY <1>0, <1>6 DEF Idle, Handler
    <2>8. HandlerOwns(kubelet[n], h[n])'
        BY <1>0, <1>1, <2>3, <2>5, <2>7 DEF HandlerOwns, DeleteMatches
    <2>9. /\ \A q \in Nodes : \A j \in h[q].todo :
                DeleteMatches(j.name, j.uid)' => allocs'[j.name] = allocs[j.name]
          /\ \A k \in Controllers : \A j \in ctl[k].items \cup {ctl[k].cur} :
                j \in Listed /\ DeleteMatches(j.name, j.uid)' => allocs'[j.name] = allocs[j.name]
        BY <2>3, <2>5, <2>6
    <2>10. \A y \in Names : allocs'[y] = allocs[y] \/ allocs'[y].claim = None
        BY <2>2 DEF NoAllocation
    <2> QED BY <1>1, <1>2, <1>3, <2>4, <2>8, <2>9, <2>10, WriteOwnership
<1>7. \/ UNCHANGED allocs /\ h[n].todo = {} /\ h' = [h EXCEPT ![n].pc = "forget"]
      \/ UNCHANGED allocs /\ Return(n)
      \/ \E i \in h[n].todo : /\ DeleteObject(i.name, i.uid)
                              /\ h' = [h EXCEPT ![n].todo = @ \ {i}] \/ Return(n)
    BY DEF DeleteForClaimDelete
<1> QED BY <1>5, <1>6, <1>7 DEF Return, TypeInv, TypeOK, NodeTypeOK

LEMMA ReclaimOwnership ==
    ASSUME TypeInv, TypeInv', OwnershipInv, NEW k \in Controllers,
           deleteAllocation(k), UNCHANGED <<claim, gen, nodeVars, node>>
    PROVE  OwnershipInv'
<1> DEFINE i == ctl[k].cur
<1>0. /\ ctl[k].pc = "delete" /\ ctl[k] \in Pass /\ PassOwns(ctl[k])
      /\ i \in Listed /\ claim[i.claim] = "gone" /\ i.name \in Names /\ i.uid \in UIDs
    BY DEF deleteAllocation, TypeInv, TypeOK, ControllerTypeOK, OwnershipInv, PassesOwn, PassOwns,
           Listed
<1>1. UNCHANGED <<claim, node, kubelet, mem, disk, h, late>>
    BY DEF nodeVars
<1>2. \A j \in Controllers : j # k => ctl'[j] = ctl[j]
    BY DEF deleteAllocation, EndPass, TypeInv, TypeOK, ControllerTypeOK
<1>3. \A l \in late' : claim[l.claim] # "absent"
    BY <1>1 DEF OwnershipInv, KnownOK
<1>4. ctl'[k] \in {NoPass, [ctl[k] EXCEPT !.pc = "check", !.cur = NoListed]}
    BY DEF deleteAllocation, EndPass, TypeInv, TypeOK, ControllerTypeOK
<1>5. ctl'[k].pc # "delete" /\ ctl'[k].items \subseteq ctl[k].items
    <2>1. CASE ctl'[k] = NoPass
        BY <2>1 DEF NoPass
    <2>2. CASE ctl'[k] = [ctl[k] EXCEPT !.pc = "check", !.cur = NoListed]
        BY <1>0, <2>2 DEF Pass
    <2> QED BY <1>4, <2>1, <2>2
<1>6. ctl[k].items \subseteq Listed
    BY <1>0 DEF Pass
<1>7. UNCHANGED allocs \/ DeleteObject(i.name, i.uid)
    BY DEF deleteAllocation
<1>8. /\ \A y \in Names : \/ allocs'[y] = allocs[y]
                          \/ y = i.name /\ DeleteMatches(i.name, i.uid) /\ allocs'[y] = NoAllocation
      /\ \A y \in Names, v \in UIDs : DeleteMatches(y, v)' => allocs'[y] = allocs[y]
    BY <1>0, <1>7, DeleteKeeps
<1>9. \A y \in Names, d \in Claims : Owned(y, d) => Owned(y, d)' \/ Unused(d)
    BY <1>0, <1>8 DEF Owned, Exists, Unused, PassOwns
<1>10. \A q \in Nodes : \A j \in h[q].todo : j.name \in Names /\ j.uid \in UIDs
    BY DEF TypeInv, TypeOK, NodeTypeOK, Handler, Item
<1>11. \A j \in Listed : j.name \in Names /\ j.uid \in UIDs
    BY DEF Listed
<1>12. PassOwns(ctl[k])'
    BY <1>0, <1>1, <1>5, <1>6, <1>8, <1>11 DEF PassOwns, DeleteMatches
<1>13. /\ \A q \in Nodes : \A j \in h[q].todo :
            DeleteMatches(j.name, j.uid)' => allocs'[j.name] = allocs[j.name]
       /\ \A q \in Controllers : \A j \in ctl[q].items \cup {ctl[q].cur} :
            j \in Listed /\ DeleteMatches(j.name, j.uid)' => allocs'[j.name] = allocs[j.name]
    BY <1>8, <1>10, <1>11
<1>14. \A y \in Names : allocs'[y] = allocs[y] \/ allocs'[y].claim = None
    BY <1>8 DEF NoAllocation
<1> QED BY <1>1, <1>2, <1>3, <1>9, <1>12, <1>13, <1>14, WriteOwnership

\* A controller step, or an edit of a pool, that leaves the allocations alone.
LEMMA PassOwnership ==
    ASSUME TypeInv, OwnershipInv, UNCHANGED <<allocs, claim, nodeVars, node>>,
           \A k \in Controllers : PassOwns(ctl[k])'
    PROVE  OwnershipInv'
BY DEF nodeVars, OwnershipInv, KubeletOK, HandlersOwn, HandlerOwns, PassesOwn, KnownOK,
       StoresOwn, StoreOwns, Owned, Exists, DeleteMatches

LEMMA OutdateOwns ==
    ASSUME NEW f \in [Controllers -> Pass], NEW p, NEW k \in Controllers
    PROVE  /\ Outdate(f, p)[k].pc = f[k].pc
           /\ Outdate(f, p)[k].items = f[k].items
           /\ Outdate(f, p)[k].cur = f[k].cur
BY DEF Outdate, Pass

LEMMA ReconcileOwnership ==
    ASSUME TypeInv, OwnershipInv, NEW k \in Controllers, CtlLocal(k),
           UNCHANGED <<allocs, claim, gen, nodeVars, node>>
    PROVE  OwnershipInv'
<1>0. /\ ctl \in [Controllers -> Pass] /\ ctl[k] \in Pass
      /\ \A j \in Controllers : PassOwns(ctl[j])
    BY DEF TypeInv, TypeOK, ControllerTypeOK, OwnershipInv, PassesOwn
<1>1. ASSUME \A j \in Controllers : /\ ctl'[j].items \subseteq ctl[j].items
                                    /\ ctl'[j].pc = "delete" => ctl[j].pc = "delete"
                                    /\ ctl'[j].pc = "delete" => ctl'[j].cur = ctl[j].cur
      PROVE  OwnershipInv'
    <2>1. \A j \in Controllers : PassOwns(ctl[j])'
        BY <1>0, <1>1 DEF PassOwns, DeleteMatches
    <2> QED BY <2>1, PassOwnership
<1>2. ASSUME NEW x, ctl' = [ctl EXCEPT ![k] = x], x.items \subseteq ctl[k].items, x.pc # "delete"
      PROVE  OwnershipInv'
    BY <1>0, <1>1, <1>2
<1>3. ASSUME EndPass(k) PROVE OwnershipInv'
    <2>1. NoPass.items = {} /\ NoPass.pc = "idle"
        BY DEF NoPass
    <2> QED BY <1>2, <1>3, <2>1 DEF EndPass
<1>4. ASSUME ListAllocations(k) PROVE OwnershipInv'
    <2> DEFINE L == {[name |-> nm, uid |-> allocs[nm].uid, claim |-> allocs[nm].claim,
                      type |-> allocs[nm].type] : nm \in {y \in Names : ParseAllocation(y)}}
    <2>1. \A i \in L : allocs[i.name].claim = i.claim /\ claim[i.claim] # "absent"
        BY DEF ParseAllocation, OwnershipInv, KnownOK
    <2> HIDE DEF L
    <2>2. ctl' = [ctl EXCEPT ![k].pc = "check", ![k].items = L]
        BY <1>4 DEF ListAllocations, L
    <2>3. ctl'[k].pc = "check" /\ ctl'[k].items = L /\ \A j \in Controllers : j # k => ctl'[j] = ctl[j]
        BY <1>0, <2>2 DEF Pass
    <2>4. \A j \in Controllers : PassOwns(ctl[j])'
        BY <1>0, <2>1, <2>3 DEF PassOwns, DeleteMatches
    <2> QED BY <2>4, PassOwnership
<1>5. ASSUME NEW i \in ctl[k].items, CheckAllocation(k, i) PROVE OwnershipInv'
    <2>1. i \in Listed /\ i.claim \in Claims
        BY <1>0 DEF Pass, Listed
    <2>2. CASE allocationIsStale(i.claim)
        <3>1. claim[i.claim] = "gone"
            <4>1. claim[i.claim] # "live"
                BY <2>1, <2>2 DEF allocationIsStale, LiveNamed
            <4>2. claim[i.claim] # "absent"
                BY <1>0 DEF PassOwns
            <4> QED BY <2>1, <4>1, <4>2 DEF TypeInv, TypeOK, ObjectsTypeOK
        <3>2. ctl' = [ctl EXCEPT ![k].pc = "delete", ![k].cur = i, ![k].items = @ \ {i}]
            BY <1>5, <2>2 DEF CheckAllocation
        <3>3. /\ ctl'[k].pc = "delete" /\ ctl'[k].cur = i /\ ctl'[k].items \subseteq ctl[k].items
              /\ \A j \in Controllers : j # k => ctl'[j] = ctl[j]
            BY <1>0, <3>2 DEF Pass
        <3>4. \A j \in Controllers : PassOwns(ctl[j])'
            BY <1>0, <2>1, <3>1, <3>3 DEF PassOwns, DeleteMatches
        <3> QED BY <3>4, PassOwnership
    <2>3. CASE ~allocationIsStale(i.claim)
        <3> DEFINE x == [ctl[k] EXCEPT !.items = @ \ {i},
                           !.counts[i.name.pool] = Counted(ctl[k].counts[i.name.pool], i.type)]
        <3>1. ctl' = [ctl EXCEPT ![k] = x] /\ ctl[k].pc = "check"
            BY <1>5, <2>3 DEF CheckAllocation
        <3>2. x.items \subseteq ctl[k].items /\ x.pc = ctl[k].pc
            BY <1>0 DEF Pass
        <3> QED BY <1>2, <3>1, <3>2
    <2> QED BY <2>2, <2>3
<1>6. ASSUME ListPools(k) PROVE OwnershipInv'
    <2> DEFINE x == [ctl[k] EXCEPT !.pc = "status", !.todo = Pools, !.fresh = Pools,
                                   !.gens = gen, !.seen = poolStatus]
    <2>1. ctl' = [ctl EXCEPT ![k] = x]
        BY <1>6 DEF ListPools
    <2>2. x.items = ctl[k].items /\ x.pc = "status"
        BY <1>0 DEF Pass
    <2> HIDE DEF x
    <2> QED BY <1>2, <2>1, <2>2
<1>7. ASSUME NEW p \in Pools, UpdatePoolStatus(k, p) PROVE OwnershipInv'
    <2> DEFINE x == [ctl[k] EXCEPT !.todo = @ \ {p}, !.seen[p] = NoStatus, !.gens[p] = 0]
               done == [ctl EXCEPT ![k].todo = @ \ {p}, ![k].seen[p] = NoStatus,
                                   ![k].gens[p] = 0]
    <2>0. done = [ctl EXCEPT ![k] = x]
        BY <1>0
    <2>1. x \in Pass /\ x.items = ctl[k].items /\ x.pc = ctl[k].pc
        BY <1>0 DEF Pass, NoStatus, PoolStatus
    <2>2. ctl' = done \/ ctl' = Outdate(done, p) \/ EndPass(k)
        BY <1>7 DEF UpdatePoolStatus
    <2>3. ctl[k].pc = "status"
        BY <1>7 DEF UpdatePoolStatus
    <2> HIDE DEF x
    <2>4. done \in [Controllers -> Pass] /\ done[k] = x
          /\ \A j \in Controllers : j # k => done[j] = ctl[j]
        BY <1>0, <2>0, <2>1
    <2> HIDE DEF done
    <2>5. CASE ctl' = Outdate(done, p)
        <3>1. \A j \in Controllers : /\ ctl'[j].pc = done[j].pc /\ ctl'[j].items = done[j].items
                                     /\ ctl'[j].cur = done[j].cur
            BY <2>4, <2>5, OutdateOwns
        <3> QED BY <1>1, <2>1, <2>3, <2>4, <3>1
    <2>6. CASE ctl' = done
        BY <1>1, <2>1, <2>3, <2>4, <2>6
    <2> QED BY <1>3, <2>2, <2>5, <2>6
<1>8. ASSUME FinishPass(k) \/ AbortPass(k) PROVE OwnershipInv'
    BY <1>3, <1>8 DEF FinishPass, AbortPass
<1> QED BY <1>4, <1>5, <1>6, <1>7, <1>8 DEF CtlLocal

\* Claims, nodes and pools as Kubernetes and the administrator change them.
LEMMA ClaimOwnership ==
    ASSUME TypeInv, OwnershipInv,
           \/ \E c \in Claims : ClaimStep(c) \/ Deallocate(c) \/ \E n \in Nodes : Schedule(c, n)
           \/ \E p \in Pools : PoolStep(p)
    PROVE  OwnershipInv'
<1>0. /\ claim \in [Claims -> {"absent", "live", "gone"}] /\ node \in [Claims -> Nodes \cup {None}]
      /\ ctl \in [Controllers -> Pass] /\ late \subseteq [name: Names, claim: Claims, type: {"Static", "Dynamic"}]
      /\ allocs \in [Names -> Allocation]
    BY DEF TypeInv, TypeOK, ObjectsTypeOK, NodeTypeOK, ControllerTypeOK
<1>1. ASSUME NEW p \in Pools, PoolStep(p) PROVE OwnershipInv'
    <2>1. UNCHANGED <<allocs, claim, nodeVars, node>> /\ ctl' = Outdate(ctl, p)
        BY <1>1 DEF PoolStep, EditPool
    <2>2. \A j \in Controllers : /\ ctl'[j].pc = ctl[j].pc /\ ctl'[j].items = ctl[j].items
                                 /\ ctl'[j].cur = ctl[j].cur
        BY <1>0, <2>1, OutdateOwns
    <2>3. \A j \in Controllers : PassOwns(ctl[j])'
        BY <2>1, <2>2 DEF PassOwns, DeleteMatches, OwnershipInv, PassesOwn
    <2> QED BY <2>1, <2>3, PassOwnership
<1>2. ASSUME UNCHANGED <<allocs, nodeVars, ctlVars>>,
             \A c \in Claims : /\ claim[c] # "absent" => claim'[c] # "absent"
                               /\ claim[c] = "gone" => claim'[c] = "gone",
             KubeletOK'
      PROVE  OwnershipInv'
    <2>1. HandlersOwn' /\ StoresOwn'
        BY <1>2 DEF nodeVars, OwnershipInv, HandlersOwn, HandlerOwns, StoresOwn, StoreOwns, Owned,
                    Exists, DeleteMatches
    <2>2. PassesOwn'
        <3>1. \A k \in Controllers : \A i \in ctl[k].items : i.claim \in Claims
            BY <1>0 DEF Pass, Listed
        <3>2. \A i \in Listed : i.claim \in Claims
            BY DEF Listed
        <3> QED BY <1>2, <3>1, <3>2 DEF ctlVars, OwnershipInv, PassesOwn, PassOwns, DeleteMatches
    <2>3. KnownOK'
        <3>1. \A nm \in Names : allocs[nm].claim # None => allocs[nm].claim \in Claims
            BY <1>0 DEF Allocation
        <3> QED BY <1>0, <1>2, <3>1 DEF nodeVars, OwnershipInv, KnownOK
    <2> QED BY <1>2, <2>1, <2>2, <2>3 DEF OwnershipInv
<1>3. ASSUME NEW c \in Claims, ClaimStep(c) PROVE OwnershipInv'
    <2>1. UNCHANGED <<allocs, nodeVars, ctlVars>>
        BY <1>3 DEF ClaimStep, CreateClaim, DeleteClaim
    <2>2. \A d \in Claims : /\ claim[d] # "absent" => claim'[d] # "absent"
                            /\ claim[d] = "gone" => claim'[d] = "gone"
        BY <1>0, <1>3 DEF ClaimStep, CreateClaim, DeleteClaim
    <2>3. \A d \in Claims : claim[d] = "live" /\ node[d] # None => claim'[d] = "live"
        BY <1>0, <1>3 DEF ClaimStep, CreateClaim, DeleteClaim
    <2>4. KubeletOK'
        BY <1>3, <2>1, <2>3, NodeAssumption DEF OwnershipInv, KubeletOK, ClaimStep, nodeVars
    <2> QED BY <1>2, <2>1, <2>2, <2>4
<1>4. ASSUME NEW c \in Claims, Deallocate(c) PROVE OwnershipInv'
    <2>1. KubeletOK'
        BY <1>0, <1>4 DEF Deallocate, OwnershipInv, KubeletOK, nodeVars, objectVars
    <2> QED BY <1>2, <1>4, <2>1 DEF Deallocate, objectVars
<1>5. ASSUME NEW c \in Claims, NEW n \in Nodes, Schedule(c, n) PROVE OwnershipInv'
    <2>1. KubeletOK'
        BY <1>0, <1>5, NodeAssumption DEF Schedule, OwnershipInv, KubeletOK, nodeVars, objectVars
    <2> QED BY <1>2, <1>5, <2>1 DEF Schedule, objectVars
<1> QED BY <1>1, <1>3, <1>4, <1>5

-----------------------------------------------------------------------------
(* Theorems *)

LEMMA OwnershipStep ==
    ASSUME TypeInv, TypeInv', OwnershipInv, [Next]_vars
    PROVE  OwnershipInv'
<1>1. CASE UNCHANGED vars
    <2>1. \A k \in Controllers : PassOwns(ctl[k])'
        BY <1>1 DEF vars, objectVars, ctlVars, OwnershipInv, PassesOwn, PassOwns, DeleteMatches
    <2> QED BY <1>1, <2>1, PassOwnership DEF vars, objectVars
<1>2. CASE \/ \E c \in Claims : ClaimStep(c) \/ Deallocate(c)
           \/ \E c \in Claims, n \in Nodes : Schedule(c, n)
           \/ \E p \in Pools : PoolStep(p)
    BY <1>2, ClaimOwnership
<1>3. ASSUME NEW n \in Nodes, LocalStep(n) PROVE OwnershipInv'
    BY <1>3, ReadOwnership, StoreOwnership DEF LocalStep
<1>4. ASSUME NEW n \in Nodes, WriteStep(n) PROVE OwnershipInv'
    BY <1>4, CreateOwnership, ReleaseOwnership DEF WriteStep
<1>5. CASE LateStep
    BY <1>5, LateOwnership DEF LateStep
<1>6. ASSUME NEW k \in Controllers, ControllerStep(k) PROVE OwnershipInv'
    BY <1>6, ReconcileOwnership, ReclaimOwnership DEF ControllerStep, CtlLocal
<1> QED BY <1>1, <1>2, <1>3, <1>4, <1>5, <1>6 DEF Next

LEMMA Ownership == Spec => [](TypeInv /\ OwnershipInv)
<1>1. Init => OwnershipInv
    BY OwnershipInit
<1>2. TypeInv /\ TypeInv' /\ OwnershipInv /\ [Next]_vars => OwnershipInv'
    BY OwnershipStep
<1> QED BY <1>1, <1>2, TypeInvariant, PTL DEF Spec

\* Every address a Pod runs with is backed by an IPAllocation of its own claim,
\* for any number of nodes, claims and controllers and any combination of
\* failed, lost and late calls, crashes and failed writes of the state file.
THEOREM AddressesBacked == Spec => []Backed
<1>1. TypeInv /\ OwnershipInv => Backed
    <2> SUFFICES ASSUME TypeInv, OwnershipInv, NEW n \in Nodes, NEW c \in Claims,
                        NEW nm \in InUse(n, c)
                 PROVE  Exists(nm) /\ allocs[nm].claim = c
        BY DEF Backed
    <2>1. kubelet[n][c] = "prepared"
        BY DEF InUse
    <2>2. PICK r \in ReqIds : nm = mem[n].dev[c][r] /\ nm # NoName
        BY <2>1 DEF InUse
    <2> QED BY <2>1, <2>2 DEF OwnershipInv, StoresOwn, StoreOwns, Owned
<1> QED BY <1>1, Ownership, PTL

\* With one prefix length in use, no two claims ever run with the same address
\* of a pool.  The prefix length is part of an allocation's name, so without
\* the assumption the property fails (run ipam_prefix).
THEOREM AddressesExclusive ==
    ASSUME \A a, b \in Ones : a = b
    PROVE  Spec => []AddressExclusive
<1>1. TypeInv /\ OwnershipInv /\ Backed => AddressExclusive
    <2> SUFFICES ASSUME TypeInv, Backed,
                        NEW n \in Nodes, NEW m \in Nodes, NEW c \in Claims, NEW d \in Claims,
                        NEW a \in InUse(n, c), NEW b \in InUse(m, d),
                        a.pool = b.pool, a.ip = b.ip
                 PROVE  c = d
        BY DEF AddressExclusive
    <2>1. a \in Names /\ b \in Names
        <3>1. \A q \in Nodes, e \in Claims : InUse(q, e) \subseteq Names
            <4> SUFFICES ASSUME NEW q \in Nodes, NEW e \in Claims, NEW y \in InUse(q, e)
                         PROVE  y \in Names
                OBVIOUS
            <4>1. PICK r \in ReqIds : y = mem[q].dev[e][r] /\ y # NoName
                BY DEF InUse
            <4>2. mem[q].dev[e][r] \in Names \cup {NoName}
                BY DEF TypeInv, TypeOK, NodeTypeOK, Store
            <4> QED BY <4>1, <4>2
        <3> QED BY <3>1
    <2>2. a = b
        BY <2>1 DEF Names
    <2> QED BY <2>2 DEF Backed
<1> QED BY <1>1, Ownership, AddressesBacked, PTL

\* An allocation is never replaced, and it goes only when its claim is gone or
\* being released, however old the List answer is that the delete rests on.
THEOREM DeletesSafe == Spec => DeletesOnlyReleased
<1> DEFINE A == \A nm \in Names : Exists(nm) /\ allocs'[nm] # allocs[nm] =>
                   /\ allocs'[nm].uid = NoUID
                   /\ \/ claim[allocs[nm].claim] = "gone"
                      \/ \E n \in Nodes : kubelet[n][allocs[nm].claim] = "releasing"
<1>1. TypeInv /\ OwnershipInv /\ [Next]_vars => [A]_vars
    <2> SUFFICES ASSUME TypeInv, OwnershipInv, Next PROVE A
        OBVIOUS
    <2>1. ASSUME UNCHANGED allocs PROVE A
        BY <2>1
    <2>2. ASSUME NEW n \in Nodes, WriteStep(n) PROVE A
        <3>1. ASSUME NEW u \in FreshUIDs, ReserveCreate(n, u) PROVE A
            <4>1. h[n].name \in Names /\ h[n].claim \in Claims
                BY <3>1, GoodNow DEF TypeInv, GoodHandler, Naming, ReserveCreate
            <4>2. UNCHANGED allocs \/ \A y \in Names : Exists(y) => allocs'[y] = allocs[y]
                BY <3>1, <4>1, CreateKeeps DEF ReserveCreate
            <4> QED BY <4>2
        <3>2. ASSUME DeleteForClaimDelete(n) PROVE A
            <4>1. CASE UNCHANGED allocs
                BY <4>1
            <4>2. ASSUME NEW i \in h[n].todo, DeleteObject(i.name, i.uid) PROVE A
                <5>1. i.name \in Names
                    BY DEF TypeInv, TypeOK, NodeTypeOK, Handler, Item
                <5>2. /\ kubelet[n][h[n].claim] = "releasing"
                      /\ DeleteMatches(i.name, i.uid) => allocs[i.name].claim = h[n].claim
                    BY <3>2 DEF OwnershipInv, HandlersOwn, HandlerOwns, DeleteForClaimDelete
                <5> QED BY <4>2, <5>1, <5>2, DeleteKeeps DEF NoAllocation
            <4> QED BY <3>2, <4>1, <4>2 DEF DeleteForClaimDelete
        <3> QED BY <2>2, <3>1, <3>2 DEF WriteStep
    <2>3. ASSUME LateStep PROVE A
        <3>1. PICK l \in late, u \in FreshUIDs : LateCreate(l, u)
            BY <2>3 DEF LateStep
        <3>2. l.name \in Names /\ l.claim \in Claims
            BY DEF TypeInv, TypeOK, NodeTypeOK
        <3>3. UNCHANGED allocs \/ \A y \in Names : Exists(y) => allocs'[y] = allocs[y]
            BY <3>1, <3>2, CreateKeeps DEF LateCreate
        <3> QED BY <3>3
    <2>4. ASSUME NEW k \in Controllers, deleteAllocation(k) PROVE A
        <3> DEFINE i == ctl[k].cur
        <3>1. /\ i.name \in Names /\ claim[i.claim] = "gone"
              /\ DeleteMatches(i.name, i.uid) => allocs[i.name].claim = i.claim
            BY <2>4 DEF deleteAllocation, OwnershipInv, PassesOwn, PassOwns, Listed
        <3>2. UNCHANGED allocs \/ DeleteObject(i.name, i.uid)
            BY <2>4 DEF deleteAllocation
        <3> QED BY <3>1, <3>2, DeleteKeeps DEF NoAllocation
    <2>5. \/ UNCHANGED allocs \/ LateStep
          \/ \E n \in Nodes : WriteStep(n)
          \/ \E k \in Controllers : deleteAllocation(k)
        BY DEF Next, ClaimStep, CreateClaim, DeleteClaim, Deallocate, Schedule, PoolStep, EditPool,
               LocalStep, ControllerStep, objectVars
    <2> HIDE DEF A
    <2> QED BY <2>1, <2>2, <2>3, <2>4, <2>5
<1> QED BY <1>1, Ownership, PTL DEF Spec, DeletesOnlyReleased
=============================================================================
