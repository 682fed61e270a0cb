------------------------------ MODULE NodeIPAM ------------------------------
(***************************************************************************)
(* The IPAM half of the node driver: what prepareClaim does through        *)
(* applyIPAM, and what UnprepareResourceClaims does through DeleteForClaim *)
(* and store.DeleteClaim (internal/driver/driver.go, ipam.go, store.go).   *)
(*                                                                         *)
(* The kubelet plugin helper and prepareMu let one handler run per node at *)
(* a time.  A handler is cut at each API call, so that other nodes, the    *)
(* controller and the administrator act between any two of them.           *)
(***************************************************************************)
EXTENDS IPAMObjects

CONSTANTS
    Nodes,
    Requests,    \* Requests[c]: the requests of claim c that name an ipPool
    ConfigPools, \* ConfigPools[p]: spec of pool p in the driver's config file
    Faults,      \* the faults that may happen, a subset of FaultKinds
    MaxReqs,     \* bound: requests of one claim
    MaxLate      \* bound: create calls the server still has to apply

\* "api": a call fails with no effect; "lost": it takes effect and its answer
\* is lost; "late": it fails for the caller and takes effect afterwards;
\* "crash": the driver process dies; "local": a step on the node itself fails.
FaultKinds == {"api", "lost", "late", "crash", "local"}

NoSpec == [ones |-> 0, subnet |-> {}, cands |-> <<>>, resv |-> {}]
NoAddress == [ip |-> None, ones |-> 0]
Address == [ip: IPs, ones: Ones] \cup {NoAddress}
Request == [pool: Pools, address: Address]

ASSUME NodeAssumption ==
    /\ None \notin Nodes
    /\ MaxReqs \in Nat
    /\ Requests \in [Claims -> Seq(Request)]
    /\ \A c \in Claims : Len(Requests[c]) \in 1 .. MaxReqs
    /\ ConfigPools \in [Pools -> PoolSpec \cup {NoSpec}]
    /\ Faults \subseteq FaultKinds
    /\ MaxLate \in Nat

VARIABLES
    h,           \* h[n]: the DRA handler running on node n
    mem,         \* mem[n]: the maps of the driver's store
    disk,        \* disk[n]: the state file that was last written
    late,        \* create calls in flight whose caller has given up
    kubelet      \* kubelet[n][c]: how far the kubelet is with the claim

nodeVars == <<h, mem, disk, late, kubelet>>

ReqIds == 1 .. MaxReqs
\* dev[c][r]: the address in the DeviceConfig of request r; rec[c]: the
\* claim's entry in the store's IPAllocations.
Store == [dev: [Claims -> [ReqIds -> Names \cup {NoName}]],
          rec: [Claims -> Names \cup {NoName}]]
EmptyStore == [dev |-> [c \in Claims |-> [r \in ReqIds |-> NoName]],
               rec |-> [c \in Claims |-> NoName]]
KubeletState == {"none", "preparing", "prepared", "releasing"}
Item == [name: Names, uid: UIDs]
Handler == [pc: {"idle", "reload", "find", "create", "get", "record", "device",
                 "list", "delete", "forget"},
            claim: Claims \cup {None}, req: Nat, spec: PoolSpec \cup {NoSpec},
            cand: Nat, name: Names \cup {NoName}, todo: SUBSET Item]
Idle == [pc |-> "idle", claim |-> None, req |-> 0, spec |-> NoSpec,
         cand |-> 0, name |-> NoName, todo |-> {}]

Req(n) == Requests[h[n].claim][h[n].req]

\* The handler returns; an error makes the kubelet call again.
Return(n) == h' = [h EXCEPT ![n] = Idle]

\* Mutant: the state file is not written.
PersistNothing(n, m) == mem' = [mem EXCEPT ![n] = m] /\ UNCHANGED disk

\* Every store operation changes the maps and then runs persistLocked, whose
\* failure leaves the maps ahead of the file.
Persist(n, m) == mem' = [mem EXCEPT ![n] = m] /\ disk' = [disk EXCEPT ![n] = m]
PersistFails(n, m) ==
    "local" \in Faults /\ mem' = [mem EXCEPT ![n] = m] /\ UNCHANGED disk

-----------------------------------------------------------------------------
\* The head of prepareClaim.  The helper has read the claim and found it live,
\* allocated on this node (the guard in ClusterIPAM) and reserved for one Pod;
\* for none it returns success with no device, for several an error, and
\* nothing of the state changes.
StartPrepare(n, c) ==
    /\ h[n].pc = "idle"
    /\ kubelet[n][c] # "releasing"
    /\ h' = [h EXCEPT ![n] = [Idle EXCEPT !.pc = "reload", !.claim = c, !.req = 1]]
    /\ kubelet' = [kubelet EXCEPT ![n][c] = IF @ = "none" THEN "preparing" ELSE @]
    /\ UNCHANGED <<mem, disk, late>>

\* ipPoolFromUnstructured rejects a spec without allocations, and a failed
\* List leaves the pools of the config file.
LoadedSpec(p, answered) ==
    IF answered /\ CurrentSpec(p).cands # <<>> THEN CurrentSpec(p)
                                               ELSE ConfigPools[p]

\* validateIPRanges: every allocation and reservation lies in the subnet.
ValidSpec(s) ==
    /\ \A i \in DOMAIN s.cands : s.cands[i] \in s.subnet
    /\ s.resv \subseteq s.subnet

\* reloadIPPools and the pool checks at the head of applyIPAM.
ReloadIPPools(n, answered) ==
    LET s == LoadedSpec(Req(n).pool, answered) IN
    /\ h[n].pc = "reload"
    /\ answered \/ "api" \in Faults
    /\ IF s # NoSpec /\ ValidSpec(s)
       THEN h' = [h EXCEPT ![n].pc = "find", ![n].spec = s]
       ELSE Return(n)
    /\ UNCHANGED <<mem, disk, late, kubelet>>

\* The positions after k that reserveDynamicAddress still tries.
Remaining(s, k) == {j \in DOMAIN s.cands : j > k /\ s.cands[j] \notin s.resv}

\* The loop of reserveDynamicAddress moves on to its next candidate, or
\* returns "no free addresses".
NextCandidate(n, k) ==
    \/ \E j \in Remaining(h[n].spec, k) :
         /\ \A i \in Remaining(h[n].spec, k) : j <= i
         /\ h' = [h EXCEPT ![n].pc = "create", ![n].cand = j,
                           ![n].name = AllocationName(Req(n).pool,
                                          h[n].spec.cands[j], h[n].spec.ones)]
    \/ Remaining(h[n].spec, k) = {} /\ Return(n)

\* normalizeRequestedAddress, and the test that the address is reserved.
StaticAllowed(s, a) == a.ip \in s.subnet /\ a.ones = s.ones /\ a.ip \in s.resv

\* FindForClaim, then the branch of applyIPAM on its answer.  The answer is
\* ordered by a hash of the name, so any allocation of the claim may be first.
FindForClaim(n) ==
    LET mine == AllocationsOf(h[n].claim)
        addr == Req(n).address
    IN
    /\ h[n].pc = "find"
    /\ \/ "api" \in Faults /\ Return(n)
       \/ \E nm \in mine :
            IF nm.pool = Req(n).pool
            THEN h' = [h EXCEPT ![n].pc = "record", ![n].name = nm]
            ELSE Return(n)
       \/ mine = {} /\ addr = NoAddress /\ NextCandidate(n, 0)
       \/ mine = {} /\ addr # NoAddress /\ StaticAllowed(h[n].spec, addr)
            /\ h' = [h EXCEPT ![n].pc = "create",
                              ![n].name = AllocationName(Req(n).pool, addr.ip, addr.ones)]
       \/ mine = {} /\ addr # NoAddress /\ ~StaticAllowed(h[n].spec, addr) /\ Return(n)
    /\ UNCHANGED <<mem, disk, late, kubelet>>

Type(n) == IF Req(n).address = NoAddress THEN "Dynamic" ELSE "Static"

\* Reserve: the Create call; u is the UID the server would give the object.
ReserveCreate(n, u) ==
    /\ h[n].pc = "create"
    /\ \/ /\ ~Exists(h[n].name)
          /\ CreateObject(h[n].name, h[n].claim, u, Type(n))
          /\ \/ h' = [h EXCEPT ![n].pc = "record"]
             \/ "lost" \in Faults /\ Return(n)
          /\ UNCHANGED late
       \/ /\ Exists(h[n].name)
          /\ h' = [h EXCEPT ![n].pc = "get"]
          /\ UNCHANGED <<allocs, late>>
       \/ /\ "api" \in Faults
          /\ Return(n)
          /\ UNCHANGED <<allocs, late>>
       \/ /\ "late" \in Faults
          /\ Cardinality(late) < MaxLate
          /\ late' = late \cup {[name |-> h[n].name, claim |-> h[n].claim, type |-> Type(n)]}
          /\ Return(n)
          /\ UNCHANGED allocs
    /\ UNCHANGED <<mem, disk, kubelet>>

\* A create call reaches the server after its caller gave up.
LateCreate(l, u) ==
    /\ l \in late
    /\ late' = late \ {l}
    /\ IF Exists(l.name) THEN UNCHANGED allocs
                         ELSE CreateObject(l.name, l.claim, u, l.type)
    /\ UNCHANGED <<h, mem, disk, kubelet>>

\* Mutant: AlreadyExists counts as success, whoever owns the object.
ReserveGetAnyOwner(n) ==
    /\ h[n].pc = "get"
    /\ h' = [h EXCEPT ![n].pc = "record"]
    /\ UNCHANGED <<mem, disk, late, kubelet>>

\* Reserve after AlreadyExists: Get the object and compare its owner.
ReserveGet(n) ==
    LET nm == h[n].name IN
    /\ h[n].pc = "get"
    /\ \/ "api" \in Faults /\ Return(n)
       \/ ~ParseAllocation(nm) /\ Return(n)
       \/ nm \in AllocationsOf(h[n].claim) /\ h' = [h EXCEPT ![n].pc = "record"]
       \/ /\ ParseAllocation(nm) /\ nm \notin AllocationsOf(h[n].claim)
          /\ IF Type(n) = "Dynamic" THEN NextCandidate(n, h[n].cand) ELSE Return(n)
    /\ UNCHANGED <<mem, disk, late, kubelet>>

\* Mutant: a different address replaces the recorded one.
ReserveIPReplaces(n) ==
    /\ h[n].pc = "record"
    /\ Persist(n, [mem[n] EXCEPT !.rec[h[n].claim] = h[n].name])
    /\ h' = [h EXCEPT ![n].pc = "device"]
    /\ UNCHANGED <<late, kubelet>>

\* store.ReserveIP: the claim's first address is recorded, the same address
\* is accepted again, and any other one is refused.
ReserveIP(n) ==
    LET c == h[n].claim
        nm == h[n].name
        known == mem[n].rec[c]
        m == [mem[n] EXCEPT !.rec[c] = nm]
    IN
    /\ h[n].pc = "record"
    /\ \/ known = nm /\ h' = [h EXCEPT ![n].pc = "device"] /\ UNCHANGED <<mem, disk>>
       \/ known \notin {NoName, nm} /\ Return(n) /\ UNCHANGED <<mem, disk>>
       \/ known = NoName /\ Persist(n, m) /\ h' = [h EXCEPT ![n].pc = "device"]
       \/ known = NoName /\ PersistFails(n, m) /\ Return(n)
    /\ UNCHANGED <<late, kubelet>>

\* The loop of prepareClaim goes on with the next allocation result, or the
\* handler returns success.
NextRequest(n) ==
    LET c == h[n].claim IN
    IF h[n].req < Len(Requests[c])
    THEN /\ h' = [h EXCEPT ![n] = [Idle EXCEPT !.pc = "reload", !.claim = c,
                                               !.req = h[n].req + 1]]
         /\ UNCHANGED kubelet
    ELSE /\ Return(n)
         /\ kubelet' = [kubelet EXCEPT ![n][c] = IF @ = "preparing" THEN "prepared" ELSE @]

\* The end of one turn of prepareClaim's loop: a device-specific check may
\* fail, SetDevice stores the configuration, and its status is reported.  (A
\* host-device keeps the record it has; ReserveIP made sure of its address.)
SetDevice(n) ==
    LET m == [mem[n] EXCEPT !.dev[h[n].claim][h[n].req] = h[n].name] IN
    /\ h[n].pc = "device"
    /\ \/ "local" \in Faults /\ Return(n) /\ UNCHANGED <<mem, disk, kubelet>>
       \/ PersistFails(n, m) /\ Return(n) /\ UNCHANGED kubelet
       \/ Persist(n, m) /\ NextRequest(n)
       \/ "api" \in Faults /\ Persist(n, m) /\ Return(n) /\ UNCHANGED kubelet
    /\ UNCHANGED late

-----------------------------------------------------------------------------
\* The Pod has terminated: its sandboxes are stopped and the kubelet goes on
\* calling Unprepare until it succeeds.
PodTerminated(n, c) ==
    /\ kubelet[n][c] \in {"preparing", "prepared"}
    /\ kubelet' = [kubelet EXCEPT ![n][c] = "releasing"]
    /\ UNCHANGED <<h, mem, disk, late>>

StartUnprepare(n, c) ==
    /\ h[n].pc = "idle"
    /\ kubelet[n][c] = "releasing"
    /\ h' = [h EXCEPT ![n] = [Idle EXCEPT !.pc = "list", !.claim = c]]
    /\ UNCHANGED <<mem, disk, late, kubelet>>

\* DeleteForClaim: the List call.
DeleteForClaimList(n) ==
    LET found == {[name |-> nm, uid |-> allocs[nm].uid] : nm \in AllocationsOf(h[n].claim)} IN
    /\ h[n].pc = "list"
    /\ \/ "api" \in Faults /\ Return(n)
       \/ h' = [h EXCEPT ![n].pc = "delete", ![n].todo = found]
    /\ UNCHANGED <<mem, disk, late, kubelet>>

\* DeleteForClaim: one Delete call of its loop.  NotFound counts as done, a
\* precondition conflict is an error.
DeleteForClaimDelete(n) ==
    /\ h[n].pc = "delete"
    /\ \/ h[n].todo = {} /\ h' = [h EXCEPT ![n].pc = "forget"] /\ UNCHANGED allocs
       \/ \E i \in h[n].todo :
            \/ /\ DeleteConflicts(i.name, i.uid)
               /\ Return(n) /\ UNCHANGED allocs
            \/ /\ ~DeleteConflicts(i.name, i.uid)
               /\ DeleteObject(i.name, i.uid)
               /\ \/ h' = [h EXCEPT ![n].todo = @ \ {i}]
                  \/ "lost" \in Faults /\ Return(n)
            \/ "api" \in Faults /\ Return(n) /\ UNCHANGED allocs
    /\ UNCHANGED <<mem, disk, late, kubelet>>

\* store.DeleteClaim, the last step of UnprepareResourceClaims.
DeleteClaimRecord(n) ==
    LET c == h[n].claim
        m == [dev |-> [mem[n].dev EXCEPT ![c] = EmptyStore.dev[c]],
              rec |-> [mem[n].rec EXCEPT ![c] = NoName]]
    IN
    /\ h[n].pc = "forget"
    /\ \/ Persist(n, m) /\ kubelet' = [kubelet EXCEPT ![n][c] = "none"]
       \/ PersistFails(n, m) /\ UNCHANGED kubelet
    /\ Return(n)
    /\ UNCHANGED late

\* store.SetNetNS: an NRI event of any Pod of the node writes the whole store,
\* and with it what an earlier persistLocked could not write.
SetNetNS(n) ==
    /\ mem[n] # disk[n]
    /\ Persist(n, mem[n])
    /\ UNCHANGED <<h, late, kubelet>>

\* The driver process dies and starts again from its state file.
Crash(n) ==
    /\ "crash" \in Faults
    /\ h[n].pc # "idle" \/ mem[n] # disk[n]
    /\ Return(n)
    /\ mem' = [mem EXCEPT ![n] = disk[n]]
    /\ UNCHANGED <<disk, late, kubelet>>

NodeInit ==
    /\ h = [n \in Nodes |-> Idle]
    /\ mem = [n \in Nodes |-> EmptyStore]
    /\ disk = mem
    /\ late = {}
    /\ kubelet = [n \in Nodes |-> [c \in Claims |-> "none"]]

NodeTypeOK ==
    /\ h \in [Nodes -> Handler]
    /\ mem \in [Nodes -> Store]
    /\ disk \in [Nodes -> Store]
    /\ late \in SUBSET [name: Names, claim: Claims, type: {"Static", "Dynamic"}]
    /\ kubelet \in [Nodes -> [Claims -> KubeletState]]
=============================================================================
