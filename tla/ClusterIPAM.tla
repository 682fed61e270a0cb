----------------------------- MODULE ClusterIPAM -----------------------------
(***************************************************************************)
(* The node drivers, the controllers, the administrator and the life of    *)
(* ResourceClaims, acting together on the cluster's IPAllocation objects.  *)
(***************************************************************************)
EXTENDS NodeIPAM, AllocationController

VARIABLE node    \* node[c]: the node that claim c is allocated on, or None

vars == <<objectVars, nodeVars, ctlVars, node>>

\* The API server never gives a UID twice.  A UID that no object and no
\* pending call refers to cannot be told from a new one, so it may be taken.
UsedUIDs ==
    {allocs[nm].uid : nm \in Names}
    \cup (UNION {{i.uid : i \in h[n].todo} : n \in Nodes})
    \cup (UNION {{i.uid : i \in ctl[k].items \cup {ctl[k].cur}} : k \in Controllers})

FreshUIDs == IF UIDs \subseteq UsedUIDs THEN {}
             ELSE {CHOOSE u \in UIDs \ UsedUIDs : TRUE}

-----------------------------------------------------------------------------
\* External: the scheduler allocates a live claim on a node, and Kubernetes
\* takes the allocation back once the Pod is gone, which on a reachable node
\* is after the kubelet's last Unprepare succeeded.  Only then can the claim
\* be deleted or move to another node.
Schedule(c, n) ==
    /\ claim[c] = "live"
    /\ node[c] = None
    /\ node' = [node EXCEPT ![c] = n]
    /\ UNCHANGED <<objectVars, nodeVars, ctlVars>>

Deallocate(c) ==
    /\ node[c] # None
    /\ kubelet[node[c]][c] = "none"
    /\ node' = [node EXCEPT ![c] = None]
    /\ UNCHANGED <<objectVars, nodeVars, ctlVars>>

\* A Pod on an unreachable node is force-deleted: the claim is taken back
\* although the kubelet of that node has not run Unprepare.
ForceDeallocate(c) ==
    /\ node[c] # None
    /\ node' = [node EXCEPT ![c] = None]
    /\ UNCHANGED <<objectVars, nodeVars, ctlVars>>

ClaimStep(c) ==
    /\ CreateClaim(c) \/ (node[c] = None /\ DeleteClaim(c))
    /\ UNCHANGED <<nodeVars, ctlVars, node>>

PoolStep(p) ==
    /\ EditPool(p)
    /\ ctl' = Outdate(ctl, p)
    /\ UNCHANGED <<nodeVars, poolStatus, node>>

\* Steps of the driver on node n that read the cluster or write the store.
LocalStep(n) ==
    /\ \/ \E c \in Claims : node[c] = n /\ claim[c] = "live" /\ StartPrepare(n, c)
       \/ \E answered \in BOOLEAN : ReloadIPPools(n, answered)
       \/ FindForClaim(n)
       \/ ReserveGet(n)
       \/ ReserveIP(n)
       \/ SetDevice(n)
       \/ \E c \in Claims : PodTerminated(n, c)
       \/ \E c \in Claims : StartUnprepare(n, c)
       \/ DeleteForClaimList(n)
       \/ DeleteClaimRecord(n)
       \/ SetNetNS(n)
       \/ Crash(n)
    /\ UNCHANGED <<objectVars, ctlVars, node>>

\* Calls that write IPAllocation objects.
WriteStep(n) ==
    /\ \/ \E u \in FreshUIDs : ReserveCreate(n, u)
       \/ DeleteForClaimDelete(n)
    /\ UNCHANGED <<claim, gen, ctlVars, node>>

LateStep ==
    /\ \E l \in late, u \in FreshUIDs : LateCreate(l, u)
    /\ UNCHANGED <<claim, gen, ctlVars, node>>

ControllerStep(k) ==
    /\ \/ /\ \/ ListAllocations(k)
             \/ \E i \in ctl[k].items : CheckAllocation(k, i)
             \/ ListPools(k)
             \/ \E p \in Pools : UpdatePoolStatus(k, p)
             \/ FinishPass(k)
             \/ AbortPass(k)
          /\ UNCHANGED allocs
       \/ deleteAllocation(k)
    /\ UNCHANGED <<claim, gen, nodeVars, node>>

Init ==
    /\ ObjectsInit
    /\ NodeInit
    /\ ControllerInit
    /\ node = [c \in Claims |-> None]

Next ==
    \/ \E c \in Claims : ClaimStep(c) \/ Deallocate(c)
    \/ \E c \in Claims, n \in Nodes : Schedule(c, n)
    \/ \E p \in Pools : PoolStep(p)
    \/ \E n \in Nodes : LocalStep(n) \/ WriteStep(n)
    \/ LateStep
    \/ \E k \in Controllers : ControllerStep(k)

Spec == Init /\ [][Next]_vars

\* The same system on a cluster that may lose nodes.
LossySpec == Init /\ [][Next \/ \E c \in Claims : ForceDeallocate(c)]_vars

\* The ticker starts pass after pass, and the API server answers every kind
\* of call again and again, however often it fails in between: each call of
\* Reconcile that keeps being attempted is eventually answered.
ControllerFrame == UNCHANGED <<objectVars, nodeVars, node>>
CheckNamed(k, nm) ==
    \E i \in ctl[k].items : i.name = nm /\ CheckAllocation(k, i)

ControllerFairness(k) ==
    /\ SF_vars(ListAllocations(k) /\ ControllerFrame)
    /\ \A nm \in Names : SF_vars(CheckNamed(k, nm) /\ ControllerFrame)
    /\ SF_vars(deleteAllocation(k) /\ UNCHANGED <<claim, gen, nodeVars, node>>)
    /\ SF_vars(ListPools(k) /\ ControllerFrame)
    /\ \A p \in Pools : SF_vars(UpdatePoolStatus(k, p) /\ ControllerFrame)
    /\ SF_vars(FinishPass(k) /\ ControllerFrame)

FairSpec == Spec /\ \A k \in Controllers : ControllerFairness(k)

-----------------------------------------------------------------------------
\* Type correctness of every variable of the composed system.
TypeOK ==
    /\ ObjectsTypeOK
    /\ NodeTypeOK
    /\ ControllerTypeOK
    /\ node \in [Claims -> Nodes \cup {None}]

\* The addresses that a Pod on node n may run with through claim c: those of
\* the device configurations RunPodSandbox finds after Prepare succeeded.
InUse(n, c) ==
    IF kubelet[n][c] = "prepared"
    THEN {mem[n].dev[c][r] : r \in ReqIds} \ {NoName} ELSE {}

\* Every address in use is backed by an IPAllocation object of its own claim,
\* whatever node, controller and administrator did in between.
Backed ==
    \A n \in Nodes, c \in Claims : \A nm \in InUse(n, c) :
        Exists(nm) /\ allocs[nm].claim = c

\* No two claims of the cluster have Pods running with the same IP address of
\* a pool, be it on one node or on two.
AddressExclusive ==
    \A n, m \in Nodes, c, d \in Claims :
        \A a \in InUse(n, c), b \in InUse(m, d) :
            a.pool = b.pool /\ a.ip = b.ip => c = d

\* A prepared claim is on disk as it is in memory, so that a restarted driver
\* attaches the same addresses.
PreparedSurvivesCrash ==
    \A n \in Nodes, c \in Claims : kubelet[n][c] = "prepared" =>
        /\ disk[n].dev[c] = mem[n].dev[c]
        /\ disk[n].rec[c] = mem[n].rec[c]
        /\ \A r \in 1 .. Len(Requests[c]) : mem[n].dev[c][r] # NoName

\* While a Pod runs, preparing its claim again (a kubelet restart) never
\* gives it another address, even if the claim owns several allocations.
AddressSettled ==
    [][\A n \in Nodes, c \in Claims :
          kubelet[n][c] = "prepared" /\ kubelet'[n][c] = "prepared"
             => InUse(n, c)' = InUse(n, c)]_vars

\* An IPAllocation is never replaced, and it disappears only if its claim is
\* gone or the kubelet is giving the claim back: a delete decided on an old
\* List answer never hits the object of a claim that came later.
DeletesOnlyReleased ==
    [][\A nm \in Names : Exists(nm) /\ allocs'[nm] # allocs[nm] =>
          /\ allocs'[nm].uid = NoUID
          /\ \/ claim[allocs[nm].claim] = "gone"
             \/ \E n \in Nodes : kubelet[n][allocs[nm].claim] = "releasing"]_vars

\* The allocation of a deleted claim is reclaimed, whatever handler created
\* it and however late.
Reclaimed ==
    \A c \in Claims, nm \in Names :
        claim[c] = "gone" /\ allocs[nm].claim = c ~> allocs[nm].claim # c

TrueStatus(p) ==
    LET of(type) == {nm \in Names : nm.pool = p /\ ParseAllocation(nm)
                                    /\ allocs[nm].type = type}
    IN [dynamic |-> Cardinality(of("Dynamic")), static |-> Cardinality(of("Static")),
        observed |-> gen[p]]

\* Once allocations, claims and pools stop changing, every IPPool status comes
\* to show the true counts for good, despite conflicts with concurrent edits.
StatusConverges ==
    \A p \in Pools :
        <>[][UNCHANGED objectVars]_vars => <>[](poolStatus[p] = TrueStatus(p))

\* The ledger that this system implements.
Ledger == INSTANCE AddressLedger WITH
    Addresses <- Names, Nobody <- None,
    owner <- [nm \in Names |-> allocs[nm].claim],
    using <- [c \in Claims |-> UNION {InUse(n, c) : n \in Nodes}]

\* Every step of the cluster is a step of the ledger or changes nothing in it.
ImplementsLedger == Ledger!Spec
=============================================================================
