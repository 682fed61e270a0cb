------------------------ MODULE AllocationController ------------------------
(***************************************************************************)
(* The cluster controller (internal/controller/controller.go): Reconcile   *)
(* lists the IPAllocations, deletes those whose claim is gone, counts the  *)
(* others and writes the counts to the IPPool statuses.  Every API call is *)
(* a step of its own.  Controllers is a set because a leader that lost its *)
(* lease may still be inside a pass when the next one starts.              *)
(***************************************************************************)
EXTENDS IPAMObjects

CONSTANTS
    Controllers,
    CtlFaults    \* "api": a call fails with no effect; "lost": answer lost

ASSUME ControllerAssumption == CtlFaults \subseteq {"api", "lost"}

VARIABLES
    ctl,         \* ctl[k]: the pass that controller k is in
    poolStatus   \* status of each IPPool

ctlVars == <<ctl, poolStatus>>

Listed == [name: Names, uid: UIDs, claim: Claims, type: {"Static", "Dynamic"}]
NoListed == [name |-> NoName, uid |-> NoUID, claim |-> None, type |-> "Dynamic"]
Counts == [dynamic: Nat, static: Nat]
PoolStatus == [dynamic: Nat, static: Nat, observed: Nat]
NoStatus == [dynamic |-> 0, static |-> 0, observed |-> 0]

\* items: listed and not yet checked; cur: being deleted; counts: of the
\* allocations that stay;
\* todo: pools whose status is still to be written; fresh: pools not written
\* by anyone since they were listed, so that UpdateStatus has no conflict;
\* seen: the statuses as listed.
Pass == [pc: {"idle", "check", "delete", "status"}, items: SUBSET Listed,
         cur: Listed \cup {NoListed}, counts: [Pools -> Counts],
         todo: SUBSET Pools, fresh: SUBSET Pools,
         gens: [Pools -> Nat], seen: [Pools -> PoolStatus]]
NoPass == [pc |-> "idle", items |-> {}, cur |-> NoListed, counts |-> [p \in Pools |-> [dynamic |-> 0, static |-> 0]],
           todo |-> {}, fresh |-> {},
           gens |-> [p \in Pools |-> 0], seen |-> [p \in Pools |-> NoStatus]]

\* Reconcile returns, with or without an error; the ticker starts it again.
EndPass(k) == ctl' = [ctl EXCEPT ![k] = NoPass]

\* Reconcile: the List call.  Malformed objects are ignored.
ListAllocations(k) ==
    /\ ctl[k].pc = "idle"
    /\ ctl' = [ctl EXCEPT ![k].pc = "check",
                 ![k].items = {[name |-> nm, uid |-> allocs[nm].uid,
                                claim |-> allocs[nm].claim, type |-> allocs[nm].type]
                               : nm \in {x \in Names : ParseAllocation(x)}}]
    /\ UNCHANGED poolStatus

\* Mutant: the UID is not compared.
allocationIsStaleByName(c) == LiveNamed(ClaimName[c]) = {}

\* The claim is looked up by name and its UID compared.
allocationIsStale(c) == \A d \in LiveNamed(ClaimName[c]) : d # c

\* Mutant: every allocation counts as dynamic.
CountedDynamic(n, type) == [n EXCEPT !.dynamic = @ + 1]

Counted(n, type) == [dynamic |-> n.dynamic + (IF type = "Static" THEN 0 ELSE 1),
                     static |-> n.static + (IF type = "Static" THEN 1 ELSE 0)]

CheckAllocation(k, i) ==
    /\ ctl[k].pc = "check"
    /\ i \in ctl[k].items
    /\ IF allocationIsStale(i.claim)
       THEN ctl' = [ctl EXCEPT ![k].pc = "delete", ![k].cur = i, ![k].items = @ \ {i}]
       ELSE ctl' = [ctl EXCEPT ![k].items = @ \ {i},
                               ![k].counts[i.name.pool] = Counted(@, i.type)]
    /\ UNCHANGED poolStatus

\* deleteAllocation: NotFound counts as done, a conflict ends the pass.
deleteAllocation(k) ==
    LET i == ctl[k].cur IN
    /\ ctl[k].pc = "delete"
    /\ \/ /\ DeleteConflicts(i.name, i.uid)
          /\ EndPass(k)
          /\ UNCHANGED allocs
       \/ /\ ~DeleteConflicts(i.name, i.uid)
          /\ DeleteObject(i.name, i.uid)
          /\ \/ ctl' = [ctl EXCEPT ![k].pc = "check", ![k].cur = NoListed]
             \/ "lost" \in CtlFaults /\ EndPass(k)
    /\ UNCHANGED poolStatus

\* updatePoolStatuses: the List call.
ListPools(k) ==
    /\ ctl[k].pc = "check"
    /\ ctl[k].items = {}
    /\ ctl' = [ctl EXCEPT ![k].pc = "status", ![k].todo = Pools, ![k].fresh = Pools,
                          ![k].gens = gen, ![k].seen = poolStatus]
    /\ UNCHANGED poolStatus

\* The status Reconcile computed for pool p.
NewStatus(k, p) ==
    [dynamic |-> ctl[k].counts[p].dynamic, static |-> ctl[k].counts[p].static,
     observed |-> ctl[k].gens[p]]

\* A write to pool p makes every other copy of it outdated.
Outdate(f, p) == [j \in Controllers |-> [f[j] EXCEPT !.fresh = @ \ {p}]]

\* updatePoolStatuses: one pool.  An equal status is not written, and a write
\* to an outdated copy is refused, which ends the pass.
UpdatePoolStatus(k, p) ==
    LET done == [ctl EXCEPT ![k].todo = @ \ {p}, ![k].seen[p] = NoStatus,
                            ![k].gens[p] = 0] IN
    /\ ctl[k].pc = "status"
    /\ p \in ctl[k].todo
    /\ \/ /\ NewStatus(k, p) = ctl[k].seen[p]
          /\ ctl' = done
          /\ UNCHANGED poolStatus
       \/ /\ NewStatus(k, p) # ctl[k].seen[p] /\ p \in ctl[k].fresh
          /\ poolStatus' = [poolStatus EXCEPT ![p] = NewStatus(k, p)]
          /\ ctl' = Outdate(done, p)
       \/ /\ NewStatus(k, p) # ctl[k].seen[p] /\ p \notin ctl[k].fresh
          /\ EndPass(k)
          /\ UNCHANGED poolStatus

FinishPass(k) ==
    /\ ctl[k].pc = "status"
    /\ ctl[k].todo = {}
    /\ EndPass(k)
    /\ UNCHANGED poolStatus

\* A call of the pass fails, or the leader is replaced in the middle of it.
AbortPass(k) ==
    /\ "api" \in CtlFaults
    /\ ctl[k].pc # "idle"
    /\ EndPass(k)
    /\ UNCHANGED poolStatus

ControllerInit ==
    /\ ctl = [k \in Controllers |-> NoPass]
    /\ poolStatus = [p \in Pools |-> NoStatus]

ControllerTypeOK ==
    /\ ctl \in [Controllers -> Pass]
    /\ poolStatus \in [Pools -> PoolStatus]
=============================================================================
