# A TLA+ verification of dra-linux-networks

This directory specifies the concurrent parts of dra-linux-networks, a Kubernetes
DRA driver that gives Pods secondary network interfaces, in TLA+. TLC checks the
specifications on small instances; TLAPS proves their safety properties and the
refinement for every instance. `PROJECT.json` maps every definition to the lines it
models and lists runs, mutants, findings, hazards and theorems.

    tlc -config ipam_handlers.cfg MCClusterIPAM      # one run
    tlapm ClusterIPAMProofs.tla                      # the proofs of one module

## The system

| Part | State it keeps | Operations |
|---|---|---|
| IPAllocation helpers, `internal/ipamapi` | cluster-scoped `IPAllocation` objects | `Reserve`, `FindForClaim`, `DeleteForClaim` |
| Node driver, IPAM (`driver/ipam.go`, `driver.go`) | pools read from `IPPool`s or the config file | `applyIPAM` inside `prepareClaim`, `UnprepareResourceClaims` |
| Node store, `driver/store.go` | two maps in memory and a JSON state file | `SetDevice`, `SetNetNS`, `ReserveIP`, `DeleteClaim`, `NewStore` |
| Node driver, network (`driver.go`, `hostdevice.go`, `inventory.go`) | links of the host and of the Pods' namespaces | `prepareClaim`, the NRI events `Synchronize`, `RunPodSandbox`, `StopPodSandbox`, `RemovePodSandbox`, `UnprepareResourceClaims`, `publish` |
| Controller, `internal/controller` | `IPPool` statuses | `Reconcile`: delete stale allocations, count, write statuses |
| Status reporting, `driver/status.go` | claim device status, Pod annotation and condition | set and remove with retry on conflict |
| DPDK, `driver/dpdk.go` | devices found at the last tick, CDI spec files | discover, write, remove |
| Interface naming (`driver.go`) | names in the store | `podInterfaceName`, `configForRequest`, `mergeConfig`, `validateConfig` |
| Configuration, `internal/config`; mains, leader election | - | read once at start |

How they interact. The kubelet calls Prepare and Unprepare on the driver of a
node (gRPC, one at a time, repeated until they succeed). containerd calls the
NRI events of the same driver, concurrently with the DRA handlers. Drivers of
different nodes and the controller never talk to each other: they meet only in
the API server's objects. Driver and kernel share the links, and a NIC changes
its namespace under the hands of whoever tears the namespace down.

What is hard, and the properties that make the parts correct:

* *Address management.* Every handler is a sequence of API calls, and everybody
  else acts between any two of them. Answers are lost, calls are applied late,
  objects are deleted and made again under the same name, the pool is edited,
  the process dies between the object and its local record. Correct means: an
  address is never used through two claims, an address in use is never freed, a
  running Pod's address never changes, an unused one is reclaimed.
* *Links.* A host-device NIC is taken from the host, renamed and configured in
  a Pod and has to come back as it was, whether the attachment failed half way,
  the sandbox or the driver died, or containerd dropped the connection. Correct
  means: the NIC is home in its original state when DRA gives it to the next
  Pod, and a Pod that is reported as attached is attached.
* *Records.* Prepare writes a CDI spec, a record in the store and an entry in the
  claim's status, one after the other, for each device of each claim of a Pod; any
  write may fail, the process may die between two of them, the kubelet repeats the call,
  and another driver writes to the same status. Correct means: the three agree when
  the Pod starts, a repetition changes nothing that was reported, names in one
  namespace differ, and nothing is left after Unprepare.
* *Inputs.* Address ranges are expanded in unsigned integers, DPDK functions change
  while the driver works from what it saw last, configuration and claim parameters
  combine. Correct means: no reserved address is given away and none is overlooked, no
  isolation boundary is shared, no claim gets round an interface's policy.

## Modules

| Module | What it is |
|---|---|
| `IPAMObjects` | the API objects: `allocs` (by name), `claim`, `gen` of each pool |
| `NodeIPAM` | the IPAM handlers of every node: handler `h`, store `mem`/`disk`, calls still in flight `late`, the kubelet's view `kubelet` |
| `AllocationController` | the passes `ctl` of the controllers and `poolStatus` |
| `ClusterIPAM` | composition of the three with the scheduler (`node`); properties |
| `AddressLedger` | abstract specification: owner of each address, addresses in use |
| `MCClusterIPAM` | instances for TLC |
| `ClusterIPAMProofs` | `ClusterIPAM`: types, who owns an address |
| `LedgerProofs` | `ClusterIPAM`: what a prepared claim keeps, and that it implements `AddressLedger` |
| `PodNetwork` | links, store, NRI and DRA handlers of one node; properties |
| `MCPodNetwork` | instances for TLC |
| `PodNetworkProofs` | theorems about `PodNetwork` |
| `ClaimRecords` | store, CDI specs and claim statuses of the devices of one Pod, its interface names; properties |
| `MCClaimRecords` | instance for TLC |
| `ClaimRecordsProofs` | theorems about `ClaimRecords` |
| `AddressPool` | ranges of a pool: validation, expansion, choice of a candidate |
| `DPDKInventory` | which PCI functions are published and handed to claims |
| `InterfaceConfig` | defaults, merge and check of the configuration of a link |
| `MCNodeInputs` | one instance of the last three for TLC |
| `AddressPoolProofs`, `DPDKInventoryProofs`, `InterfaceConfigProofs` | theorems about them |

Operators whose comment says *Mutant* are plausible bugs. `PROJECT.json` says
which definition each one replaces and which property then fails; no
specification uses them.

### ClusterIPAM and the code

A handler is cut at each API call. `StartPrepare` is the head of
`prepareClaim`; for each request that names a pool the handler goes through
`ReloadIPPools` (List of pools, validation), `FindForClaim` (List of
allocations, then the branch to an allocation that exists, a static or a dynamic
address), `ReserveCreate` and `ReserveGet` (the two calls of `Reserve`; on an
object of another claim a dynamic request goes on with its `NextCandidate`),
`ReserveIP` (the local record) and `SetDevice` (store and status). Unprepare is
`StartUnprepare`, `DeleteForClaimList`, one `DeleteForClaimDelete` per object and
`DeleteClaimRecord`. `prepareMu` and the kubelet plugin helper serialize the
handlers of a node, so `h[n]` holds one.

Every store operation changes the maps and then the file (`Persist`); if the write
fails the maps stay ahead (`PersistFails`) until another write succeeds
(`SetNetNS`, from an NRI event) or the process dies (`Crash`, which starts from the
file). `Faults` says what can fail: a call with no effect (`api`), a call whose
answer is lost (`lost`), a call applied after its caller gave up (`late`), the
process (`crash`), a step on the node (`local`).

An object name stands for the hash of pool, address and prefix length. UIDs are
never reused: `FreshUIDs` gives a UID that no object and no pending call refers to,
which nobody can tell from a new one and which keeps the state space finite.

A controller pass is `ListAllocations`, one `CheckAllocation` per item,
`deleteAllocation` for a stale one, `ListPools`, one `UpdatePoolStatus` per
pool. A conflict or an error ends the pass. There may be several controllers: a
leader that lost its lease may be in a call when the next one starts.

The kubelet, the scheduler and the API server are external and modelled by what
the code relies on: the kubelet repeats a failed call and calls Unprepare until it
succeeds; a claim is deallocated after Unprepare and deleted after deallocation.
`LossySpec` drops the last promise, as a force-deleted Pod on a lost node does.

### PodNetwork and the code

One NIC (`nic`: namespace, name, configuration), child links (`child`), the
parts of each `DeviceConfig` the handlers decide on (`known`, `snap`, `restored`,
`attached`) in memory and on disk, the NRI handlers in progress (`nri`), the Unprepare
that has restored and not yet forgotten (`dra`), the `ResourceSlice` (`published`), the
reported `ready`. Sandboxes go `creating`, `running`, `stopping`, `stopped`, `none`; one
that is torn down and not yet removed is counted in `dead`. `RunPodSandbox` is its head,
then `attachLink` or `attachMove` and `attachConfigure` with the rollback, then
`reportAttached`. `restorePodHostDevices` is Stop and RemovePodSandbox. `Restored` sits
behind a pointer that the store shares, so it changes in memory with no `SetDevice`, as
in the code. An event that happens while the driver is down or not synchronized is lost.

containerd waits for one event (`nri["event"]`). `RunTimeout` is its request timeout: it
closes the connection and takes the event as handled, and the handler becomes
`nri["late"]` and works on, with a context that has expired and a namespace that may be
gone: the kernel keeps a namespace that a handler has open (`"detached"`). Meanwhile the
sandbox may be stopped, the Pod deleted and Unprepare called.

`exposed` is a history variable: it says that the NIC left its original state at a moment
when the store or its file held no record to bring it back from. It is changed by
`History` alone and no action reads it.

### ClaimRecords and the code

A Pod has several claims with several allocation results: links, host-devices, DPDK
devices, results of other drivers. `mem`/`disk` is the store as in the other modules,
`specs` the CDI files, `status` the claims' device statuses, `h` the call in progress.
For each result Prepare takes `prepareLink` (configuration, name, `SetDevice`) or
`writeCDISpec` and `recordDPDK`, then `getStatus` and `updateStatus` inside
`RetryOnConflict`, then `reportPod`; `skipForeign` for others; `ConditionFails` is the Pod
condition at the end of the call. `injectDevice` is one device in the loop of
`RunPodSandbox`, with the `SetNetNS` and the Get of the Pod that the event begins with: they
are repeated for each device, which writes the same file again. Unprepare is `StartUnprepare`, `getStatus`,
`updateStatus`, `removeClaimCDISpecs`, `DeleteClaim`. `podInterfaceName` is an operator;
net1, net2, ... are numbers, other names are model values.

### AddressPool, DPDKInventory, InterfaceConfig and the code

`AddressPool` runs `applyIPAM` on one pool: `validateIPRanges`, then a static address
(`normalizeRequestedAddress`, `ipInRanges`), or range by range `startRange`, one
`expandList` per listed address, one `expandLoop` per round of the loop, `tryCandidate`;
whether another claim has a candidate is left open. An address is a number below
`2^Width`. `NodeIPAM` has the calls to the API server for the same code and takes ranges
as expanded; the branch to an allocation that the claim already has, which keeps its
address unchecked, is there alone.

`DPDKInventory` publishes the functions that pass `Eligible` at a tick (`publishDPDK`) and
hands out the device nodes it saw then (`prepareDPDKDevice`). `sys` is what sysfs shows of a
function: its driver, the number of its IOMMU group or uio device, whether its nodes are
there. `Change` is the kernel and the administrator: functions appear, are bound anew, get
and lose their nodes and go away at any time, and a number that is free is given again.
`Possible` says what the code relies on: a function behind an IOMMU stays in its group while
it is on the bus, one without is alone in its group, a uio device belongs to one function.
`stale` is a history variable, which no action reads: the functions that changed since the
tick that found them, and the claims whose CDI spec is older than a change of their function.

`InterfaceConfig` makes an `InterfaceConfig` of an entry (`Load`) and a `NetworkConfig` of
that and a claim's parameters (`PrepareConfig`).

## Runs

| Run | Checks | Bounds |
|---|---|---|
| `ipam_handlers` | `TypeOK`, `AddressExclusive`, `PreparedSurvivesCrash`, `AddressSettled` | 2 nodes, 2 claims (dynamic and static), 2 addresses, a pool edit that makes address 1 reserved, fallback pools, all faults, no controller; nodes are symmetric |
| `ipam_cluster` | `Backed`, `ImplementsLedger`, `DeletesOnlyReleased` | 2 nodes, 2 claims of 2 requests each, 1 address, 2 controllers, lost answers; nodes, controllers and claims are symmetric |
| `ipam_live` | `Reclaimed`, `StatusConverges` | 1 node, 2 claims of one name, 1 controller, late creates, aborted passes, lost answers, a malformed object, a pool edit |
| `net_attach` | `TypeOK`, `ReadyMeansAttached`, `ReleasedInTheEnd` | a host-device and a macvlan Pod, 1 sandbox each, 1 crash, timeouts, failures inside the namespace and of reports |
| `net_faults` | `StaysPublished`, `LossOnlyWhenExposed`, `PreparedKnown`, `OnlyRemoveTakesNic` | 2 host-device Pods, 2 sandboxes each, 1 crash, all kinds of fault |
| `claim_records` | `TypeOK`, `NamesDistinct`, `ReportBacked`, `StartedComplete`, `CleanWhenDone`, `OtherReportsKept`, `StartsInTheEnd`, `UnpreparedInTheEnd` | 2 claims with 5 results of all kinds, with and without annotations, 2 faults, 1 report of another driver per claim, names up to net3 |
| `node_inputs` | `ExpansionExact`, `AddressFitsPool`, `DynamicComplete`, `SharedOnlyIfChanged`, `UnsafeOnlyIfListed`, `PolicyRespected` | 2-bit addresses, every single range over them and every second one after a range up to the top; 3 functions, 2 of them behind an IOMMU, 2 numbers, 2 claims, 7 DPDK configurations; claims and numbers are symmetric; interface entries with every kind of type list, policy and default, with every claim parameter |

Why the bounds are enough to be interesting: exclusivity needs two claims that want
one address, on two nodes; a stale delete needs an object that is deleted and made
again between a List and a Delete, so two claims and a pass beside a node; a static
request races a dynamic one for the same address before and after the edit. Larger
values repeat these patterns, and the theorems below cover them. Two faults are enough for
a Prepare that fails half way, is repeated and fails elsewhere, with a crash as one of
them. Two bits give a range that starts at 0, one that ends at the top, and one between.
`MaxReqs`, `MaxLate`, `MaxSandboxes`, `MaxCrashes`, `MaxFaults`, `MaxReports`, `NetLimit` are
the only bounds of counters; at most one handler is given up at a time; the set of UIDs is large
enough that a fresh one always exists. Deadlock is not checked where the system
may rest: without a controller every claim ends up deleted, and every Pod done.

What the code does not survive is an attachment that begins while the device is still
marked `Restored`, as every attachment in a second sandbox does, or before its record is
on disk. `net_faults` goes through all of these: `exposed` marks them, and
`LossOnlyWhenExposed` says that the NIC is lost in no other way. `net_rollback` shows that it
is lost in this one. A crash at the same place does the same: `Synchronize` takes a
prepared Pod whose sandbox is not made yet for an orphan and marks its NIC `Restored`.

`net_attach` makes one sandbox per Pod because `net_new_sandbox` shows that
`ReadyMeansAttached` fails for the second. With two, `RunningKeepsNic` fails as well
(`net_late_remove`); `net_faults`, which makes two, checks by `OnlyRemoveTakesNic` that a late
RemovePodSandbox is the only step that takes a NIC out of a sandbox that runs.

The DPDK configurations of `node_inputs` are those that differ in what the selectors do: DPDK
switched off, safe with defaults, uio with an include by vendor, unsafe without a list
(refused by `Load`), with an address both included and excluded, with an include whose fields
name no function together, and with an exclude of an address and a vendor that it is not of.
Two numbers are enough for a number to be free and given again. The claims of `ipam_cluster`
have two requests each, so that every handler goes through its loop twice; both requests get
the one address that the claim owns.

Five properties say where they stop. `NamesDistinct` leaves out host-devices, which take their
name without asking. `StartsInTheEnd` is checked for annotations that do not ask for a
net<N>: one that does may find it taken by a claim that counted up to it, and whether it does
depends on the order of the Prepares. `DynamicComplete` names in its comment a configuration
that is refused although nothing is wrong with it: a list that names the top address before
others. `SharedOnlyIfChanged` excepts claims whose function was changed after the tick that
found it. Without that exception it fails: a function is removed or bound anew while a claim
holds its node, the kernel gives the number to another function, which the next tick
publishes and a second claim gets, and both CDI specs name one node; the code never looks
at a spec again. `UnsafeOnlyIfListed` says what an exclude list does and not more: all of its
fields have to name a function, so an address that it names together with a vendor that is not
the function's passes.

### Runs that show a disagreement

| Run | What TLC finds |
|---|---|
| `ipam_prefix` | the prefix length is part of the object's name: after an edit of it the same IP is handed out twice |
| `ipam_node_loss` | `DeleteForClaim` ignores the node: a node that comes back frees an address in use on another |
| `net_rollback` | a second failed attachment is not rolled back, because the device is still marked `Restored` |
| `net_new_sandbox` | a macvlan Pod whose sandbox is made anew is reported attached without a link, because `AttachedIf` is still set |
| `net_late_remove` | the late RemovePodSandbox of a dead sandbox names no namespace; `restorePodHostDevices` uses the recorded one, and takes the NIC out of the sandbox that runs |

## Fairness

`ClusterIPAM!FairSpec`: strong fairness of each call of a controller pass. The ticker
starts a pass every interval for ever, and an API server that answers again and
again lets every call that is attempted again and again succeed once. Nothing is
assumed of the kubelet, the nodes or the administrator.

`PodNetwork!FairSpec`: the driver is started again by its DaemonSet and connects again
after two seconds; kernel, containerd and handlers finish what they began (weak
fairness); a call that the kubelet repeats, or an event that needs the connection, is
not failed for ever (strong fairness). `ReleasedInTheEnd` would not hold for a NIC that
is unplugged, which is not modelled.

`ClaimRecords!FairSpec`: weak fairness of all steps of the driver and the kubelet taken
together, which never rest while a claim waits. The number of faults is bounded, which
stands for an API server and a disk that work in the end; nothing is assumed of the other
driver or of the user.

## Proofs

Seven modules hold theorems. Each proof of an invariant finds an inductive
strengthening, which TLC checked on the module's run before it was proved, and
shows that Init implies it and that every action keeps it, one step per action.
`Len`, `2^k` and the like are taken from the library or from a named assumption.
An assumption of the constants is stated beside them and evaluated by TLC in every run.

### ClusterIPAM (`ClusterIPAMProofs`, `LedgerProofs`)

For all nodes, claims, pools, addresses and controllers that satisfy
`ObjectsAssumption`, `NodeAssumption` and `ControllerAssumption`:

* `TypeCorrect`: `Spec => []TypeOK`.
* `AddressesBacked`: `Spec => []Backed`.
* `AddressesExclusive`: `Spec => []AddressExclusive`, if there is one prefix length.
  `ipam_prefix` shows that the condition is needed.
* `DeletesSafe`: `Spec => DeletesOnlyReleased`.
* `CrashKeepsPrepared`: `Spec => []PreparedSurvivesCrash`.
* `AddressesSettle`: `Spec => AddressSettled`.
* `LedgerImplemented`: `Spec => Ledger!Spec`, the refinement.

The argument. `TypeOK` alone is not inductive: an action uses the request, spec and
candidate of its handler, so `HandlerOK` says which fields are meaningful at which
`pc`; `TypeInv` is the two together. `Backed` alone is not inductive either: it has
to say where an address comes from and who may take it away. `OwnershipInv` adds

* `KubeletOK`: a claim the kubelet of a node deals with is live and allocated there,
  so at most one kubelet deals with it;
* `HandlersOwn`: a handler past its reservation holds a name that its claim owns, and
  the items of a releasing handler, if their UIDs still match, are objects of its claim;
* `PassesOwn`: the items of a controller pass, if their UIDs still match, are
  objects of the claim they were listed for; the one being deleted is of a claim that is
  gone;
* `KnownOK`: an object with a claim, and a create call in flight, is of a claim that
  was created;
* `StoresOwn`: an address in a store, in memory or on disk, is owned by its claim
  unless the kubelet is releasing it or done.

A create uses a UID no pending delete knows, so it preserves the clauses about pending
deletes; a delete with a matching UID hits an object that `PassesOwn` or
`HandlersOwn` knows to be released. `AddressExclusive` follows from `Backed` because an
object has one owner; `DeletesOnlyReleased` from the two clauses and the fact that
only deletes change an existing object.

What a prepared claim keeps needs how far a Prepare has come. `SettledInv` says, of the
maps and of the file of each node, that every device has the one address recorded for its
claim (`StoreSettled`), that a handler at request `i` has done the ones before, and that
maps and file agree on the claims the kubelet believes prepared. So a repeated Prepare
finds the recorded address whatever became of the pool, and a crash reads it back.

The refinement maps the owner of a name to the claim of its object and the names in use to
those of prepared claims. Every step of `ClusterIPAM` is shown to be a step of the ledger
or a stutter, from `OwnershipInv`, `SettledInv`, `FreeNames` (a name without an object has no
owner, so a create is an acquisition) and `UsedNames` (which follows from `Backed`: what is
used is owned, so a delete releases nothing that is in use).

### PodNetwork (`PodNetworkProofs`)

For all Pods, kinds, faults and numbers of sandboxes and crashes, under `PodNetworkAssumption`
(the namespaces `"host"` and `"detached"` are no Pod's):

* `NetworkTyped`: `Spec => []TypeOK`; `PodsKnown`: `Spec => []PreparedKnown`.
* `LossNeedsExposure`: `Spec => []LossOnlyWhenExposed`.
* `NicStaysPublished`: `Spec => []StaysPublished`.
* `ReadyPodsAttached`: `Spec => []ReadyMeansAttached` if `MaxSandboxes = 1`.
  `net_new_sandbox` shows that it fails with a second sandbox.
* `OnlyRemovesTakeNic`: `Spec => OnlyRemoveTakesNic`, for any number of sandboxes.
  `net_late_remove` shows that the exception in it is real.

`NetworkInv` is `Structure`, `OwnerHolds` and `Kept`. `Structure` is what every interleaving
respects: who is handled while which sandbox is there, that a known host-device has a
snapshot, that a sandbox belongs to a Pod the store knows, that Unprepare is past its restore only
for a Pod without sandbox. `OwnerHolds` says that one host-device Pod is between Schedule and
the end of Unprepare. `Kept` holds until something is exposed. By `History` the first change
of a NIC that is not exposed finds a record in the maps and in the file, so a NIC that is not in its
original state has both. A snapshot is taken only where there is no record, hence of the
original configuration; a handler's copy of it is no other. A restore marks the record only
when it has put the NIC back. When Unprepare is past its restore nothing is left to
restore, so the NIC is home before its record and its owner go.

`ReadyMeansAttached` is about one sandbox. `FirstSandbox` says of each Pod that nothing is
marked attached before the handler of its sandbox is done, that only that handler, in time,
reports, and that the NIC is in the sandbox while the handler configures it. A step that is
none of that handler's is `Quiet` for the Pod: it neither attaches, reports, nor takes the
NIC from a sandbox that goes on; so it keeps `FirstSandbox`. What is
left are the steps of the handler, its timeout and the creation of its sandbox.

`OnlyRemoveTakesNic` is about any sandbox, so two handlers of one Pod may be at work, one of
them late. `Apart` says that they work for different sandboxes, the late one for an
earlier, and that the NIC in the present sandbox has its original name until the handler of
that sandbox is done. A late handler's rollback works on the namespace of its own sandbox, and
a handler that could still roll back the present one has not attached it yet; Stop and Unprepare
come when no sandbox of the Pod runs, and `Synchronize` leaves the Pods that containerd names alone.
What is left is RemovePodSandbox of a dead sandbox.

### ClaimRecords (`ClaimRecordsProofs`)

For all claims, results, annotations and bounds under `ClaimRecordsAssumption` (each claim has a
result): `RecordsTyped`, `LinkNamesDistinct`, `ReportsBacked`, `StartsComplete`, `CleansUp`
prove `TypeOK`, `NamesDistinct`, `ReportBacked`, `StartedComplete` and `CleanWhenDone`;
`OthersKeepReports` proves the action property `OtherReportsKept`.

`RecordsInv` has four parts. `Types` adds to `TypeOK` which steps each call goes through.
`Stores`: names in the maps and in the file are distinct and both back the status; the maps have to,
because the next write makes them the file. `Progressed`: what a call has done at
each step, such as that Prepare at result `i` is complete up to `i - 1`, that a report is made
when maps and file agree, that Unprepare has removed status and specs in that order.
`Answered`: what the kubelet may conclude from the answers it got.

### AddressPool, DPDKInventory, InterfaceConfig

* `ChosenFitsPool`, `ExpandsExactly`, `SearchComplete`: `AddressFitsPool`, `ExpansionExact` and
  `DynamicComplete` for every width and all pools. `PoolInv` describes the loops:
  `ListRounds`, `ExpandedSoFar`, `ExpandRounds` and `ExpandEnd` say what `ips` holds in
  each round and where the counter is, so it stops at the top address and does not wrap;
  `SettledSoFar` that all ranges and candidates before the present one are reserved or
  refused.
  `AddressPoolAssumption` has that `2^k` is a positive number, which the provers do not know.
* `NodesNotShared`, `UnsafeListed`: `SharedOnlyIfChanged` and `UnsafeOnlyIfListed` for any finite
  set of functions, any ids, numbers and configurations. `Holders` are the functions that are as
  they were when they were found, at the last tick or at the one that a spec was made from:
  `AsFound` says that their nodes are still theirs. `OneHolder` says that no two of them have one
  node. A tick keeps it: a function that is found now is alone in its group, so no holder that
  was found before is in it, and by `NumbersOwn` no two functions present have one uio device.
  `EntriesListed` carries the check of the lists from the tick to the claim.
* `PolicyHolds`: `PolicyRespected` for all entries and parameters. `Loaded` says that an
  interface is what `Load` makes of its entry.

### Only model-checked

Liveness under fairness is out of the prover's reach: `Reclaimed`, `StatusConverges`,
`ReleasedInTheEnd`, `StartsInTheEnd`, `UnpreparedInTheEnd`. So are the counterexamples of the five
runs that show a disagreement. Every other property of a run is a theorem.

## Not modelled

* Text: the wording of statuses, annotations and events, the JSON of the state file, the
  status and the CDI specs, the names of PCI ids and the list of compatible drivers,
  attributes of published devices, routes and gateways. No handler decides on them.
* Claims that are reserved for no Pod, for which Prepare succeeds with no device, or for
  several, for which it fails: it returns before it changes anything.
* That two requests of one claim for one pool get two addresses: they do not, because
  `FindForClaim` looks for the claim alone, and no property says that they should.
* That a claim without parameters is accepted: it is not where the first type is ipvlan, whose
  modes do not have the default `bridge`, or where a host-device has a `defaultMode`.
* In `DPDKInventory`: the filter by PCI class, which only leaves functions out, and a card that
  is exchanged for another one at the same PCI address (`Vendor` and `Device` are constants).
* `migrateDeviceKeys` and the old format of the state file, read once after an upgrade;
  `DeletePod` of the store, which nothing calls.
* `podStaticAddress`: a claim of `NodeIPAM` has a static address or none. Its lookup by
  interface name depends on the order of Prepares, as the names do.
* In `PodNetwork`: more than one NIC or device per Pod, ipvlan (like macvlan but for its link
  type), NICs that are unplugged, the opening of a namespace and the move as two steps,
  Stop and RemovePodSandbox handlers that are given up, more than one late handler.
* In `ClaimRecords`: a claim's name that is used again while its status is removed, an
  UpdateStatus that is applied after Unprepare found no entry, DPDK switched off across a
  restart, handlers of NRI events that run beside DRA calls (`PodNetwork` has them).
* Failures of `PublishResources`, which the next tick repeats; the start-up of the node
  driver (`cmd/linux-net-dra`: flags, clients, a health endpoint); the Helm chart and the CRDs.

## Plan

1. Done: all modules and runs above; every safety property of a passing run, and the
   refinement, proved.
2. To come: `ReadyMeansAttached` for a Pod that gets more sandboxes, under the weakest
   condition that excludes what `net_new_sandbox` shows; shorter proofs where a step restates
   what a lemma could say once.
