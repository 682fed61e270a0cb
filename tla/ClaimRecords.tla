---------------------------- MODULE ClaimRecords ----------------------------
(***************************************************************************)
(* The records that the driver keeps of the devices of one Pod, from       *)
(* Prepare to Unprepare: the device in the store, its CDI spec and its     *)
(* entry in the claim's status (internal/driver/driver.go, dpdk.go,        *)
(* status.go, store.go).                                                   *)
(*                                                                         *)
(* The Pod has several claims, each with several allocation results, and   *)
(* the interfaces of all of them share the Pod's namespace, so their names *)
(* must differ.  The kubelet repeats what fails; another DRA driver has an *)
(* entry of its own in the status of the same claims.  What happens to the *)
(* links is in PodNetwork, what happens to the addresses in ClusterIPAM.   *)
(***************************************************************************)
EXTENDS Naturals, Sequences

CONSTANTS
    Claims,
    Results,      \* Results[c]: the kinds of device allocated to c
    Configured,   \* Configured[k]: the interface name asked for device k
    Annotations,  \* the annotations that the Pod may have
    ValidNames,   \* the names that the kernel accepts
    NetLimit,     \* bound: net<N> is tried for N < NetLimit (10000 in the code)
    MaxReports,   \* bound: reports of the other driver for one claim
    MaxFaults,    \* bound: faults
    NoName        \* no name, no annotation

Keys == UNION {{c} \X (1 .. Len(Results[c])) : c \in Claims}
Kind(k) == Results[k[1]][k[2]]
Names == ValidNames \cup {Configured[k] : k \in Keys} \cup (1 .. (NetLimit - 1)) \cup {NoName}

\* The kubelet calls the driver for a claim that has an allocation result of it.
\* net<N> is the number N, so that 1 is net1; any other name is no number.
\* The names in an annotation: one for the claim and one for each request.
ASSUME ClaimRecordsAssumption ==
    /\ Results \in [Claims -> Seq({"link", "host-device", "dpdk", "foreign"})]
    /\ \A c \in Claims : Len(Results[c]) > 0
    /\ NetLimit \in Nat
    /\ 1 .. (NetLimit - 1) \subseteq ValidNames
    /\ NoName \notin ValidNames
    /\ Annotations \subseteq [claim: [Claims -> Names], request: [Keys -> Names]]
    /\ MaxReports \in Nat
    /\ MaxFaults \in Nat

VARIABLES
    mem,          \* mem[k]: the DeviceConfig of device k in the store's maps
    disk,         \* disk[k]: the same in the state file
    specs,        \* the devices that have a CDI spec
    status,       \* status[c]: the devices in the status of the claim
    h,            \* the DRA call or NRI event that the driver works on
    up,           \* the driver process runs
    claim,        \* claim[c]: what the kubelet knows of the claim
    pod,          \* the Pod: "preparing", "started" or "terminating"
    annotations,  \* the annotations of the Pod
    faults        \* faults so far

store == <<mem, disk>>
kubelet == <<claim, pod>>
vars == <<mem, disk, specs, status, h, up, claim, pod, annotations, faults>>

\* What record and status say of a device: its name and whether its
\* LifecycleState is past Prepared.
Device == [known: BOOLEAN, name: Names, live: BOOLEAN]
NoDevice == [known |-> FALSE, name |-> NoName, live |-> FALSE]

\* own holds the entries of this driver; other counts the reports in the
\* entry of the other one, so no two versions of the status are equal and an
\* update conflicts just when the status is not the one it was made from.
Status(c) == [own: [1 .. Len(Results[c]) -> Device], other: 0 .. MaxReports]
NoStatus(c) == [own |-> [i \in 1 .. Len(Results[c]) |-> NoDevice], other |-> 0]

\* The helper serves one DRA call at a time, and prepareMu would too.  The NRI
\* event for the Pod comes when they are done.
Idle == [op |-> "idle"]
Key == <<h.claim, h.i>>
At(op, pc) == h.op = op /\ h.pc = pc
Goto(pc) == h' = [h EXCEPT !.pc = pc, !.seen = NoStatus(h.claim)]

Fault == faults < MaxFaults /\ faults' = faults + 1

\* A call fails or the handler returns its error; the kubelet will repeat it.
Fails == Fault /\ h' = Idle

\* persistLocked: the maps are changed first, the file may stay behind.
Persist(m) == mem' = m /\ disk' = m /\ UNCHANGED faults
PersistFails(m) == mem' = m /\ UNCHANGED disk /\ Fails

-----------------------------------------------------------------------------
\* Mutant: a name that the device already has is looked for anew.
existingNameAnew(k) == NoName

\* podInterfaceName keeps the name of a device that is in the store.
existingName(k) == mem[k].name

\* Mutant: only the devices of the claim are looked at.
usedNamesOfClaim(k) == {mem[l].name : l \in {l \in Keys : l[1] = k[1]}}

usedNames(k) == {mem[l].name : l \in Keys}

\* The annotation for the claim comes before the one for the request.
override(k) ==
    IF annotations.claim[k[1]] # NoName THEN annotations.claim[k[1]] ELSE annotations.request[k]

\* podInterfaceName; NoName is an error.  A configured net<N> that is in use is
\* replaced by the next free one.
podInterfaceName(k) ==
    LET used == usedNames(k)
        wanted == IF Configured[k] = NoName THEN 1 ELSE Configured[k]
        later == IF wanted \in 1 .. (NetLimit - 1) THEN (wanted + 1) .. (NetLimit - 1) ELSE {}
        free == later \ used
    IN  IF existingName(k) # NoName THEN existingName(k)
        ELSE IF override(k) # NoName
             THEN IF override(k) \in ValidNames \ used THEN override(k) ELSE NoName
        ELSE IF wanted \notin ValidNames THEN NoName
        ELSE IF wanted \notin used THEN wanted
        ELSE IF free # {} THEN CHOOSE n \in free : \A m \in free : n <= m
        ELSE NoName

\* The DeviceConfig that prepareClaim makes: a host-device takes the name it is
\* given, and keeps its record.
PreparedDevice(k) ==
    IF Kind(k) = "host-device" /\ mem[k].known THEN [mem[k] EXCEPT !.live = FALSE]
    ELSE [known |-> TRUE, live |-> FALSE,
          name |-> CASE Kind(k) = "link" -> podInterfaceName(k)
                     [] Kind(k) = "host-device" -> Configured[k]
                     [] OTHER -> NoName]

-----------------------------------------------------------------------------
\* External: the kubelet asks for a claim that is not prepared or, having
\* forgotten that it is, once more; it does not while the Pod runs.
StartPrepare(c) ==
    /\ up /\ h = Idle
    /\ pod = "preparing"
    /\ \/ claim[c] = "new" /\ UNCHANGED faults
       \/ claim[c] = "prepared" /\ Fault
    /\ claim' = [claim EXCEPT ![c] = "new"]
    /\ h' = [op |-> "prepare", claim |-> c, i |-> 1, pc |-> "device", seen |-> NoStatus(c)]
    /\ UNCHANGED <<store, specs, status, up, pod, annotations>>

\* Mutant: one result too many.
NextResultPast ==
    IF h.i <= Len(Results[h.claim])
    THEN h' = [h EXCEPT !.i = @ + 1, !.pc = "device"] /\ UNCHANGED claim
    ELSE h' = Idle /\ claim' = [claim EXCEPT ![h.claim] = "prepared"]

\* The next allocation result, or the end of prepareClaim.
NextResult ==
    IF h.i < Len(Results[h.claim])
    THEN h' = [h EXCEPT !.i = @ + 1, !.pc = "device"] /\ UNCHANGED claim
    ELSE h' = Idle /\ claim' = [claim EXCEPT ![h.claim] = "prepared"]

\* setPodNetworkCondition at the end of prepareClaim, which is not reached if
\* there was nothing to prepare, fails.
ConditionFails ==
    /\ h.i = Len(Results[h.claim])
    /\ \E i \in 1 .. h.i : Results[h.claim][i] # "foreign"
    /\ Fails

\* The results of other drivers are left out.
skipForeign ==
    /\ At("prepare", "device") /\ Kind(Key) = "foreign"
    /\ \/ NextResult /\ UNCHANGED faults
       \/ ConditionFails /\ UNCHANGED claim
    /\ UNCHANGED <<store, specs, status, up, pod, annotations>>

\* prepareClaim for a device with a link, up to SetDevice: the configuration,
\* the addresses and the snapshot may all end it with an error.
prepareLink ==
    LET d == PreparedDevice(Key)  m == [mem EXCEPT ![Key] = d] IN
    /\ At("prepare", "device") /\ Kind(Key) \in {"link", "host-device"}
    /\ IF d.name = NoName THEN h' = Idle /\ UNCHANGED <<store, faults>>
       ELSE \/ Fails /\ UNCHANGED store
            \/ PersistFails(m)
            \/ Persist(m) /\ Goto("get")
    /\ UNCHANGED <<specs, status, up, kubelet, annotations>>

\* prepareDPDKDevice writes the CDI spec first, under its final name with one
\* rename; if that fails an earlier spec is removed before it is tried again.
writeCDISpec ==
    /\ At("prepare", "device") /\ Kind(Key) = "dpdk"
    /\ \/ Fails /\ specs' \in {specs, specs \ {Key}}
       \/ specs' = specs \cup {Key} /\ Goto("record") /\ UNCHANGED faults
    /\ UNCHANGED <<store, status, up, kubelet, annotations>>

\* Mutant: an error of SetDevice is dropped after the spec was removed.
recordDPDKUnchecked ==
    LET m == [mem EXCEPT ![Key] = PreparedDevice(Key)] IN
    /\ At("prepare", "record")
    /\ \/ Fault /\ mem' = m /\ UNCHANGED disk /\ specs' = specs \ {Key} /\ Goto("get")
       \/ Persist(m) /\ Goto("get") /\ UNCHANGED specs
    /\ UNCHANGED <<status, up, kubelet, annotations>>

\* prepareDPDKDevice: SetDevice; the spec is removed again if that fails, even
\* one that an earlier call had written.
recordDPDK ==
    LET m == [mem EXCEPT ![Key] = PreparedDevice(Key)] IN
    /\ At("prepare", "record")
    /\ \/ PersistFails(m) /\ specs' = specs \ {Key}
       \/ Persist(m) /\ Goto("get") /\ UNCHANGED specs
    /\ UNCHANGED <<status, up, kubelet, annotations>>

-----------------------------------------------------------------------------
\* One device in the loop of RunPodSandbox, which takes them in any order: the
\* record of its new state, unless it is a link that is attached already.  The
\* event began with SetNetNS, which writes the whole state file or fails; after
\* it the Get of the Pod, or SetDevice, may fail.  If the link cannot be attached
\* the report of that is the last thing done.  An error ends the event; the
\* kubelet makes another sandbox.
injectDevice(k) ==
    LET m == [mem EXCEPT ![k].live = TRUE]
        run == [op |-> "run", claim |-> k[1], i |-> k[2], pc |-> "get",
                seen |-> NoStatus(k[1])] IN
    /\ up /\ h = Idle
    /\ pod = "started"
    /\ mem[k].known
    /\ \/ Kind(k) # "dpdk" /\ mem[k].live /\ Persist(mem) /\ h' = run
       \/ /\ Kind(k) # "dpdk" /\ ~mem[k].live
          /\ mem' = mem /\ disk' = mem /\ Fault /\ h' = run
       \/ PersistFails(mem)
       \/ mem' \in {mem, m} /\ disk' = mem /\ Fails
       \/ Persist(m) /\ h' = run
    /\ UNCHANGED <<specs, status, up, kubelet, annotations>>

-----------------------------------------------------------------------------
\* The entry that allocatedDeviceStatus makes replaces the one with its key, or
\* is added.
withDevice(s) == [s EXCEPT !.own[h.i] = mem[Key]]

\* Mutant: the entries of all drivers are removed.
withoutAny(s) == NoStatus(h.claim)

withoutOwn(s) == [s EXCEPT !.own = [i \in DOMAIN s.own |-> NoDevice]]

\* setResourceClaimDeviceStatus and removeResourceClaimDeviceStatus inside
\* RetryOnConflict: Get.  The removal ends here if there is no entry.
getStatus ==
    /\ h # Idle /\ h.pc = "get"
    /\ \/ Fails
       \/ /\ h' = [h EXCEPT !.seen = status[h.claim],
                            !.pc = IF /\ h.op = "unprepare"
                                      /\ withoutOwn(status[h.claim]) = status[h.claim]
                                   THEN "specs" ELSE "update"]
          /\ UNCHANGED faults
    /\ UNCHANGED <<store, specs, status, up, kubelet, annotations>>

\* UpdateStatus: on a conflict the claim is read again.  The call may fail after
\* it was applied.
updateStatus ==
    LET new == IF h.op = "unprepare" THEN withoutOwn(h.seen) ELSE withDevice(h.seen)
        applied == status' = [status EXCEPT ![h.claim] = new] IN
    /\ h # Idle /\ h.pc = "update"
    /\ \/ Fails /\ UNCHANGED status
       \/ status[h.claim] # h.seen /\ Goto("get") /\ UNCHANGED <<status, faults>>
       \/ status[h.claim] = h.seen /\ applied /\ Fails
       \/ /\ status[h.claim] = h.seen /\ applied
          /\ Goto(IF h.op = "unprepare" THEN "specs" ELSE "pod")
          /\ UNCHANGED faults
    /\ UNCHANGED <<store, specs, up, kubelet, annotations>>

\* What is written to the Pod after a device: setPodNetworkStatus in the event and
\* for a DPDK device in Prepare, and the condition after the last one.
reportPod ==
    /\ h # Idle /\ h.pc = "pod"
    /\ \/ (h.op = "run" \/ Kind(Key) = "dpdk") /\ Fails /\ UNCHANGED claim
       \/ h.op = "prepare" /\ ConditionFails /\ UNCHANGED claim
       \/ h.op = "prepare" /\ NextResult /\ UNCHANGED faults
       \/ h.op = "run" /\ h' = Idle /\ UNCHANGED <<claim, faults>>
    /\ UNCHANGED <<store, specs, status, up, pod, annotations>>

-----------------------------------------------------------------------------
\* External: once the Pod has ended the kubelet calls Unprepare for each claim,
\* whether or not it was prepared, until it succeeds.
StartUnprepare(c) ==
    /\ up /\ h = Idle
    /\ pod = "terminating"
    /\ claim[c] # "done"
    /\ h' = [op |-> "unprepare", claim |-> c, i |-> 1, pc |-> "get", seen |-> NoStatus(c)]
    /\ UNCHANGED <<store, specs, status, up, kubelet, annotations, faults>>

\* Mutant: only the specs of devices in the store are removed.
specsOfRecords(c) == {k \in specs : k[1] = c /\ mem[k].known}

\* removeClaimCDISpecs finds the files by the UID of the claim.
specsOf(c) == {k \in specs : k[1] = c}

\* UnprepareResourceClaims: the IPAllocation is deleted, then the specs, one
\* after the other.
removeClaimCDISpecs ==
    /\ At("unprepare", "specs")
    /\ \/ Fails /\ \E s \in SUBSET specsOf(h.claim) : specs' = specs \ s
       \/ specs' = specs \ specsOf(h.claim) /\ Goto("forget") /\ UNCHANGED faults
    /\ UNCHANGED <<store, status, up, kubelet, annotations>>

\* Mutant: a claim without a record is an error.
DeleteClaimKnown ==
    LET m == [k \in Keys |-> IF k[1] = h.claim THEN NoDevice ELSE mem[k]]
        known == \E k \in Keys : k[1] = h.claim /\ mem[k].known IN
    /\ At("unprepare", "forget")
    /\ \/ PersistFails(m) /\ UNCHANGED claim
       \/ ~known /\ h' = Idle /\ UNCHANGED <<store, claim, faults>>
       \/ known /\ Persist(m) /\ h' = Idle /\ claim' = [claim EXCEPT ![h.claim] = "done"]
    /\ UNCHANGED <<specs, status, up, pod, annotations>>

\* store.DeleteClaim.
DeleteClaim ==
    LET m == [k \in Keys |-> IF k[1] = h.claim THEN NoDevice ELSE mem[k]] IN
    /\ At("unprepare", "forget")
    /\ \/ PersistFails(m) /\ UNCHANGED claim
       \/ Persist(m) /\ h' = Idle /\ claim' = [claim EXCEPT ![h.claim] = "done"]
    /\ UNCHANGED <<specs, status, up, pod, annotations>>

-----------------------------------------------------------------------------
\* External: the containers start when all claims are prepared.
StartPod ==
    /\ h = Idle
    /\ pod = "preparing"
    /\ \A c \in Claims : claim[c] = "prepared"
    /\ pod' = "started"
    /\ UNCHANGED <<store, specs, status, h, up, claim, annotations, faults>>

DeletePod ==
    /\ pod # "terminating"
    /\ pod' = "terminating"
    /\ UNCHANGED <<store, specs, status, h, up, claim, annotations, faults>>

\* External: the other driver writes its entry.
OtherReports(c) ==
    /\ status[c].other < MaxReports
    /\ status' = [status EXCEPT ![c].other = @ + 1]
    /\ UNCHANGED <<store, specs, h, up, kubelet, annotations, faults>>

\* The process dies, with its maps.
Crash ==
    /\ up
    /\ Fails
    /\ up' = FALSE
    /\ mem' = [k \in Keys |-> NoDevice]
    /\ UNCHANGED <<disk, specs, status, kubelet, annotations>>

\* NewStore reads the state file.
Start ==
    /\ ~up
    /\ up' = TRUE
    /\ mem' = disk
    /\ UNCHANGED <<disk, specs, status, h, kubelet, annotations, faults>>

Init ==
    /\ mem = [k \in Keys |-> NoDevice]
    /\ disk = mem
    /\ specs = {}
    /\ status = [c \in Claims |-> NoStatus(c)]
    /\ h = Idle
    /\ up = TRUE
    /\ claim = [c \in Claims |-> "new"]
    /\ pod = "preparing"
    /\ annotations \in Annotations
    /\ faults = 0

DriverStep ==
    \/ skipForeign \/ prepareLink \/ writeCDISpec \/ recordDPDK
    \/ getStatus \/ updateStatus \/ reportPod
    \/ removeClaimCDISpecs \/ DeleteClaim \/ Start

Next ==
    \/ \E c \in Claims : StartPrepare(c) \/ StartUnprepare(c) \/ OtherReports(c)
    \/ \E k \in Keys : injectDevice(k)
    \/ StartPod \/ DeletePod \/ Crash \/ DriverStep

Spec == Init /\ [][Next]_vars

\* Handlers go on, the process is started again and the kubelet goes on with
\* what is not yet done; the number of faults is bounded, so nothing fails for
\* ever.
Progress ==
    \/ DriverStep \/ StartPod
    \/ \E c \in Claims : (StartPrepare(c) /\ claim[c] = "new") \/ StartUnprepare(c)

FairSpec == Spec /\ WF_vars(Progress)

-----------------------------------------------------------------------------
\* Type correctness.
TypeOK ==
    /\ mem \in [Keys -> Device]
    /\ disk \in [Keys -> Device]
    /\ specs \subseteq {k \in Keys : Kind(k) = "dpdk"}
    /\ \A c \in Claims : status[c] \in Status(c)
    /\ h # Idle => /\ Key \in Keys
                   /\ h.op \in {"prepare", "run", "unprepare"}
                   /\ h.pc \in {"device", "record", "get", "update", "pod", "specs", "forget"}
                   /\ h.seen \in Status(h.claim)
    /\ claim \in [Claims -> {"new", "prepared", "done"}]
    /\ pod \in {"preparing", "started", "terminating"}
    /\ faults \in 0 .. MaxFaults

Own(k) == status[k[1]].own[k[2]]

\* No two links that the driver makes in a Pod get one name, in whatever order
\* its claims are prepared, repeated and interrupted; a host-device takes its
\* name unasked and may clash.
NamesDistinct ==
    \A k, l \in Keys : k # l /\ mem[k].name = mem[l].name /\ mem[k].name # NoName =>
        "host-device" \in {Kind(k), Kind(l)}

\* What the claim's status says of a device the state file says too: a restarted
\* driver goes on with the name and the state that were reported.
ReportBacked ==
    \A k \in Keys : Own(k).known =>
        /\ disk[k].known
        /\ disk[k].name = Own(k).name
        /\ Own(k).live => disk[k].live

\* The containers start only when each device is in the state file and in the
\* status and each DPDK device has its CDI spec: no earlier attempt, failed
\* half-way, is left without one of them.
StartedComplete ==
    pod = "started" =>
        \A k \in Keys : Kind(k) # "foreign" =>
            /\ disk[k].known
            /\ Own(k).known
            /\ Kind(k) = "dpdk" => k \in specs

\* Nothing is left of a claim that is unprepared, even if its Prepare was cut
\* off between two of its writes.
CleanWhenDone ==
    \A k \in Keys : claim[k[1]] = "done" =>
        /\ k \notin specs
        /\ ~mem[k].known /\ ~disk[k].known
        /\ ~Own(k).known

\* The driver never undoes a report of another driver that it had not seen.
OtherReportsKept == [][\A c \in Claims : status'[c].other >= status[c].other]_vars

\* The Pod starts, unless it is deleted: what a failed Prepare leaves behind
\* does not make the next one fail.
StartsInTheEnd == pod = "preparing" ~> pod # "preparing"

\* Every claim of a deleted Pod is unprepared in the end.
UnpreparedInTheEnd ==
    pod = "terminating" ~> \A c \in Claims : claim[c] = "done"
=============================================================================
