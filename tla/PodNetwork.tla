----------------------------- MODULE PodNetwork -----------------------------
(***************************************************************************)
(* The network half of the node driver: what Prepare, the NRI events and   *)
(* Unprepare do to the links of a node, and what the store remembers of it *)
(* (internal/driver/driver.go, hostdevice.go, inventory.go, store.go).     *)
(*                                                                         *)
(* There is one exclusive NIC, handed to the Pods of type "host-device"    *)
(* one after the other, and any number of Pods of type "macvlan", each     *)
(* with a child link of its own.  Each Pod has one claim with one device,  *)
(* so a Pod stands for its claim too.  Sandboxes come and go: a Pod gets a *)
(* new one, with a new network namespace, whenever the old one died, and   *)
(* the dead ones are removed some time later.                              *)
(***************************************************************************)
EXTENDS Naturals

CONSTANTS
    Pods,
    Kind,          \* Kind[p]: "host-device" or "macvlan"
    MaxSandboxes,  \* bound: sandboxes that one Pod gets
    MaxCrashes,    \* bound: crashes of the driver
    Faults,        \* the faults that may happen, a subset of FaultKinds
    None           \* no Pod

\* "link": a netlink call before the link moves; "configure": one inside the
\* Pod's namespace; "restore": one while restoring; "persist": writing the
\* state file; "api": a status report; "crash": the driver process dies;
\* "disconnect": containerd drops the NRI connection; "timeout": it no longer
\* waits for RunPodSandbox.
FaultKinds == {"link", "configure", "restore", "persist", "api", "crash", "disconnect",
               "timeout"}

ASSUME PodNetworkAssumption ==
    /\ {None, "host", "detached"} \cap Pods = {}
    /\ Kind \in [Pods -> {"host-device", "macvlan"}]
    /\ MaxSandboxes \in Nat \ {0}
    /\ MaxCrashes \in Nat
    /\ Faults \subseteq FaultKinds

VARIABLES
    nic,        \* where the NIC is, under which name, in which configuration
    child,      \* child[p]: the macvlan link in the namespace of p's sandbox
    mem,        \* mem[p]: the DeviceConfig of p in the store's maps
    disk,       \* disk[p]: the same in the state file
    up,         \* the driver process runs
    crashes,    \* crashes so far
    synced,     \* Synchronize was delivered since the process started
    nri,        \* nri[h]: the RunPodSandbox in progress, or the one given up
    dra,        \* the Pod whose Unprepare is past its restore, or None
    published,  \* the NIC is in the ResourceSlice
    ready,      \* ready[p]: the Ready condition in the claim's device status
    sandbox,    \* sandbox[p]: state of the Pod's current sandbox
    made,       \* made[p]: sandboxes made so far
    dead,       \* dead[p]: those that are torn down but not removed
    pod,        \* pod[p]: how far the kubelet is with the Pod
    owner,      \* the host-device Pod that DRA has allocated the NIC to
    exposed     \* history: the NIC was changed with no record to bring it back

system == <<nic, child, mem, disk, up, crashes, synced, nri, dra, published, ready,
            sandbox, made, dead, pod, owner>>
vars == <<system, exposed>>
store == <<mem, disk>>
cluster == <<sandbox, made, dead, pod, owner>>

\* conf is "original" or "altered"; the namespace is "host", that of a Pod's
\* sandbox, or "detached": torn down, but a handler still has it open.
Nic == [ns: {"host", "detached"} \cup Pods, name: {"original", "pod"}, conf: {"original", "altered"}]
Home(conf) == [ns |-> "host", name |-> "original", conf |-> conf]

\* The parts of a DeviceConfig that the handlers decide on: snap is the
\* configuration in HostDevice, attached says that AttachedIf is not "".
Device == [known: BOOLEAN, snap: {"original", "altered", "none"},
           restored: BOOLEAN, attached: BOOLEAN]
NoDevice == [known |-> FALSE, snap |-> "none", restored |-> FALSE, attached |-> FALSE]

\* The handler that containerd waits for, and one that it gave up: the step it
\* is at, its Pod, which of the Pod's sandboxes it got, and its snapshot.
Handlers == {"event", "late"}
NriIdle == [pc |-> "idle", pod |-> None, sandbox |-> 0, snap |-> "none"]
Handling(h, pc, p) == nri[h].pc = pc /\ nri[h].pod = p
HostDevice(p) == Kind[p] = "host-device"

\* persistLocked: the maps are changed first, the file may stay behind.
Persist(m) == mem' = m /\ disk' = m
PersistFails(m) == "persist" \in Faults /\ mem' = m /\ UNCHANGED disk

\* Mutant: a device is left out once it is attached.
storedInterfaceUnattached(m) ==
    \E p \in Pods : HostDevice(p) /\ m[p].known /\ ~m[p].restored /\ ~m[p].attached

\* storedInterface: an unrestored host-device in the store.
storedInterface(m) ==
    \E p \in Pods : HostDevice(p) /\ m[p].known /\ ~m[p].restored

\* publish lists the NIC if it is found by name or known from the store.
publish(x, m) == published' = ((x.ns = "host" /\ x.name = "original") \/ storedInterface(m))

\* A status report of Ready=False whose own error is dropped.
reportNotReady(p) ==
    \/ ready' = [ready EXCEPT ![p] = FALSE]
    \/ "api" \in Faults /\ UNCHANGED ready

-----------------------------------------------------------------------------
\* External: the scheduler gives the published NIC to one Pod at a time.
Schedule(p) ==
    /\ pod[p] = "new"
    /\ HostDevice(p) => owner = None /\ published
    /\ pod' = [pod EXCEPT ![p] = "preparing"]
    /\ owner' = IF HostDevice(p) THEN p ELSE owner
    /\ UNCHANGED <<nic, child, mem, disk, up, crashes, synced, nri, dra, published, ready,
                   sandbox, made, dead>>

\* Mutant: each call takes a new snapshot.
PreparedDeviceAnew(p) ==
    [known |-> TRUE, snap |-> IF HostDevice(p) THEN nic.conf ELSE "none",
     restored |-> FALSE, attached |-> FALSE]

\* The DeviceConfig that prepareClaim stores: a host-device keeps the record
\* it has, so that a retry does not take a second snapshot.
PreparedDevice(p) ==
    IF HostDevice(p) /\ mem[p].known THEN mem[p]
    ELSE [known |-> TRUE, snap |-> IF HostDevice(p) THEN nic.conf ELSE "none",
          restored |-> FALSE, attached |-> FALSE]

\* The first snapshot needs the link under its own name in the host.
CanPrepare(p) ==
    HostDevice(p) /\ ~mem[p].known => nic.ns = "host" /\ nic.name = "original"

\* Mutant: an error of SetDevice is dropped.
prepareClaimUnchecked(p) ==
    LET m == [mem EXCEPT ![p] = PreparedDevice(p)] IN
    /\ up
    /\ pod[p] \in {"preparing", "prepared"}
    /\ sandbox[p] = "none"
    /\ CanPrepare(p)
    /\ Persist(m) \/ PersistFails(m)
    /\ ready' = [ready EXCEPT ![p] = FALSE]
    /\ pod' = [pod EXCEPT ![p] = "prepared"]
    /\ UNCHANGED <<nic, child, up, crashes, synced, nri, dra, published, sandbox, made, dead, owner>>

\* prepareClaim, from the loop over the allocation results to its return.  The
\* kubelet calls it, once or again, before it makes a sandbox.
prepareClaim(p) ==
    LET m == [mem EXCEPT ![p] = PreparedDevice(p)] IN
    /\ up
    /\ pod[p] \in {"preparing", "prepared"}
    /\ sandbox[p] = "none"
    /\ CanPrepare(p)
    /\ \/ PersistFails(m) /\ UNCHANGED <<ready, pod>>
       \/ "api" \in Faults /\ Persist(m) /\ UNCHANGED <<ready, pod>>
       \/ /\ Persist(m)
          /\ ready' = [ready EXCEPT ![p] = FALSE]
          /\ pod' = [pod EXCEPT ![p] = "prepared"]
    /\ UNCHANGED <<nic, child, up, crashes, synced, nri, dra, published, sandbox, made, dead, owner>>

-----------------------------------------------------------------------------
\* External: kubelet and containerd make a sandbox for a prepared Pod.
CreateSandbox(p) ==
    /\ pod[p] = "prepared"
    /\ sandbox[p] = "none"
    /\ made[p] < MaxSandboxes
    /\ sandbox' = [sandbox EXCEPT ![p] = "creating"]
    /\ made' = [made EXCEPT ![p] = @ + 1]
    /\ UNCHANGED <<nic, child, store, up, crashes, synced, nri, dra, published, ready,
                   dead, pod, owner>>

\* The namespace that handler h was given is still there.
PathAlive(h) ==
    made[nri[h].pod] = nri[h].sandbox /\ sandbox[nri[h].pod] # "none"

\* The namespace of an ended handler is closed: a NIC in one that is torn down
\* returns to the host.
Close(x) == IF x.ns = "detached" THEN [x EXCEPT !.ns = "host"] ELSE x

\* RunPodSandbox returns an error.  containerd gives the sandbox up, with no
\* further event unless its clean-up fails and the kubelet has to stop it;
\* nobody learns of the error of a handler that was given up.
RunFails(p, h) ==
    /\ nri' = [nri EXCEPT ![h] = NriIdle]
    /\ \/ h = "event" /\ \E s \in {"stopping", "failed"} : sandbox' = [sandbox EXCEPT ![p] = s]
       \/ h = "late" /\ UNCHANGED sandbox

\* A device is attached and stored.  A handler that was given up ends here:
\* its context has expired, so no report succeeds.
Attached(h) ==
    /\ nri' = [nri EXCEPT ![h] = IF h = "event" THEN [@ EXCEPT !.pc = "report"] ELSE NriIdle]
    /\ UNCHANGED sandbox

\* RunPodSandbox up to its loop: SetNetNS writes the store, the Pod is read;
\* then devices with AttachedIf set are not attached again.  The store knows
\* the Pod: PreparedKnown.
RunPodSandbox(p) ==
    /\ up /\ synced
    /\ nri["event"] = NriIdle
    /\ sandbox[p] = "creating"
    /\ mem[p].known
    /\ \/ PersistFails(mem) /\ RunFails(p, "event")
       \/ "api" \in Faults /\ Persist(mem) /\ RunFails(p, "event")
       \/ /\ Persist(mem)
          /\ nri' = [nri EXCEPT !["event"] =
                       [pc |-> IF mem[p].attached THEN "report" ELSE "attach", pod |-> p,
                        sandbox |-> made[p], snap |-> mem[p].snap]]
          /\ UNCHANGED sandbox
    /\ UNCHANGED <<nic, child, up, crashes, synced, dra, published, ready, made, dead, pod, owner>>

\* The event is lost on a driver that is not connected: the sandbox starts
\* without it, and nothing attaches its devices later.
RunMissed(p) ==
    /\ ~(up /\ synced)
    /\ sandbox[p] = "creating"
    /\ sandbox' = [sandbox EXCEPT ![p] = "running"]
    /\ UNCHANGED <<nic, child, store, up, crashes, synced, nri, dra, published, ready,
                   made, dead, pod, owner>>

\* The request timeout of containerd: it closes the connection and goes on as
\* if the event was handled, while the handler works on.  A report may have
\* been received before it was cut off.
\* Bound: a second handler is not given up before the first one has ended.
RunTimeout(p) ==
    /\ "timeout" \in Faults
    /\ nri["event"].pod = p
    /\ nri["late"] = NriIdle
    /\ sandbox' = [sandbox EXCEPT ![p] = "running"]
    /\ synced' = FALSE
    /\ \/ /\ nri["event"].pc # "report"
          /\ nri' = [nri EXCEPT !["event"] = NriIdle, !["late"] = nri["event"]]
          /\ UNCHANGED ready
       \/ /\ nri["event"].pc = "report"
          /\ nri' = [nri EXCEPT !["event"] = NriIdle]
          /\ \E r \in {ready[p], TRUE} : ready' = [ready EXCEPT ![p] = r]
    /\ UNCHANGED <<nic, child, store, up, crashes, dra, published, made, dead, pod, owner>>

AttachFails(p, h) ==
    RunFails(p, h) /\ (IF h = "event" THEN reportNotReady(p) ELSE UNCHANGED ready)

\* Mutant: an error inside the namespace is dropped.
attachLinkUnchecked(p, h) ==
    /\ Handling(h, "attach", p)
    /\ ~HostDevice(p)
    /\ \/ "configure" \in Faults /\ child' = [child EXCEPT ![p] = "half"]
       \/ child' = [child EXCEPT ![p] = "configured"]
    /\ Persist([mem EXCEPT ![p].attached = TRUE])
    /\ Attached(h)
    /\ UNCHANGED <<nic, up, crashes, synced, dra, published, ready, made, dead, pod, owner>>

\* attachLink makes the child link and moves it into the sandbox; it removes
\* the link again only if the move fails.
attachLink(p, h) ==
    LET m == [mem EXCEPT ![p].attached = TRUE] IN
    /\ Handling(h, "attach", p)
    /\ ~HostDevice(p)
    /\ \/ /\ "link" \in Faults \/ ~PathAlive(h)
          /\ AttachFails(p, h)
          /\ UNCHANGED <<child, store>>
       \/ /\ "configure" \in Faults /\ PathAlive(h)
          /\ AttachFails(p, h)
          /\ child' = [child EXCEPT ![p] = "half"]
          /\ UNCHANGED store
       \/ /\ PathAlive(h)
          /\ child' = [child EXCEPT ![p] = "configured"]
          /\ \/ Persist(m) /\ Attached(h)
             \/ PersistFails(m) /\ RunFails(p, h)
          /\ UNCHANGED ready
    /\ UNCHANGED <<nic, up, crashes, synced, dra, published, made, dead, pod, owner>>

\* attachHostDevice up to LinkSetNsFd.  The link is looked up by its original
\* name, the namespace opened, the link set down and moved; if the move fails
\* restoreLinkState is tried and its own error dropped.
attachMove(p, h) ==
    LET found == nic.ns = "host" /\ nic.name = "original" /\ PathAlive(h) IN
    /\ Handling(h, "attach", p)
    /\ HostDevice(p)
    /\ \/ ~found /\ AttachFails(p, h) /\ UNCHANGED nic
       \/ /\ "link" \in Faults /\ found /\ AttachFails(p, h)
          /\ nic' \in {nic, Home(mem[p].snap)}
                     \cup (IF "restore" \in Faults THEN {Home("altered")} ELSE {})
       \/ /\ found
          /\ nic' = [ns |-> p, name |-> "original", conf |-> "altered"]
          /\ nri' = [nri EXCEPT ![h].pc = "configure"]
          /\ UNCHANGED <<sandbox, ready>>
    /\ UNCHANGED <<child, store, up, crashes, synced, dra, published, made, dead, pod, owner>>

\* Mutant: the host is not searched for the NIC.
ReachableInPod(p, path, x) == path /\ x.ns = p

\* restoreHostDevice looks for the NIC in the host, then in the namespace it
\* was given: path says that this is the one of p's present sandbox.
Reachable(p, path, x) == x.ns = "host" \/ (path /\ x.ns = p)

\* restoreHostDevice takes the NIC from x to y; ok says that no call failed.  A
\* failure leaves it as it was, renamed where it is, or in the host with its
\* state half restored.
Restores(p, path, x, y, ok) ==
    \/ ok /\ Reachable(p, path, x) /\ y = Home(mem[p].snap)
    \/ ~ok /\ ~Reachable(p, path, x) /\ y = x
    \/ /\ ~ok /\ "restore" \in Faults /\ Reachable(p, path, x)
       /\ y \in {x, [x EXCEPT !.name = "original"], Home("altered")}

\* attachHostDevice inside the namespace, then SetDevice, which brings back a
\* device that was forgotten meanwhile.  Restored is behind a pointer that the
\* store shares, so it changes with no SetDevice; on a failure
\* restoreHostDevice is the rollback, and it does nothing for a device that is
\* marked restored.
attachConfigure(p, h) ==
    LET inside == nic.ns = "detached" \/ (nic.ns = p /\ PathAlive(h))
        restored == mem[p].known => mem[p].restored
        done == [mem EXCEPT ![p] = [known |-> TRUE, snap |-> nri[h].snap,
                                    restored |-> FALSE, attached |-> TRUE]] IN
    /\ Handling(h, "configure", p)
    /\ \/ /\ inside
          /\ nic' = Close([nic EXCEPT !.name = "pod"])
          /\ \/ Persist(done) /\ Attached(h)
             \/ PersistFails(done) /\ RunFails(p, h)
          /\ UNCHANGED ready
       \/ /\ inside => "configure" \in Faults
          /\ AttachFails(p, h)
          /\ \E name \in {nic.name} \cup (IF inside THEN {"pod"} ELSE {}) :
               LET x == [nic EXCEPT !.name = name] IN
               \/ restored /\ nic' = Close(x) /\ UNCHANGED mem
               \/ /\ ~restored
                  /\ \E ok \in BOOLEAN, y \in Nic :
                       /\ Restores(p, PathAlive(h), x, y, ok)
                       /\ nic' = Close(y)
                       /\ mem' = [mem EXCEPT ![p].restored = ok]
          /\ UNCHANGED disk
    /\ UNCHANGED <<child, up, crashes, synced, dra, published, made, dead, pod, owner>>

\* The end of RunPodSandbox: the device status, then the Pod's annotation and
\* its NetworkReady condition; any of the three may fail.
reportAttached(p) ==
    /\ Handling("event", "report", p)
    /\ \/ "api" \in Faults /\ RunFails(p, "event") /\ UNCHANGED ready
       \/ /\ ready' = [ready EXCEPT ![p] = TRUE]
          /\ \/ /\ nri' = [nri EXCEPT !["event"] = NriIdle]
                /\ sandbox' = [sandbox EXCEPT ![p] = "running"]
             \/ "api" \in Faults /\ RunFails(p, "event")
    /\ UNCHANGED <<nic, child, store, up, crashes, synced, dra, published, made, dead, pod, owner>>

-----------------------------------------------------------------------------
\* External: a sandbox dies, or its Pod is being deleted.
StopSandbox(p) ==
    /\ sandbox[p] = "running"
    /\ sandbox' = [sandbox EXCEPT ![p] = "stopping"]
    /\ UNCHANGED <<nic, child, store, up, crashes, synced, nri, dra, published, ready,
                   made, dead, pod, owner>>

\* Mutant: the type of the device is not looked at.
RestorableAnyKind(p) == mem[p].known /\ ~mem[p].restored

\* The devices that the loops over the store do not skip.
Restorable(p) == HostDevice(p) /\ mem[p].known /\ ~mem[p].restored

\* One device in the loop of restorePodHostDevices, restoreClaimHostDevices or
\* Synchronize: restore it unless it is restored, then SetDevice.  err names
\* the step that failed, if one did; file is the state file before SetDevice.
restoreAndRecord(p, path, err, file) ==
    LET m == [mem EXCEPT ![p].restored = TRUE, ![p].attached = FALSE] IN
    \/ /\ ~Restorable(p) /\ err = "none"
       /\ mem' = mem /\ disk' = file /\ UNCHANGED nic
    \/ /\ Restorable(p) /\ err = "restore"
       /\ Restores(p, path, nic, nic', FALSE) /\ mem' = mem /\ disk' = file
    \/ /\ Restorable(p) /\ err = "persist" /\ "persist" \in Faults
       /\ Restores(p, path, nic, nic', TRUE) /\ mem' = m /\ disk' = file
    \/ Restorable(p) /\ err = "none" /\ Restores(p, path, nic, nic', TRUE) /\ Persist(m)
RestoreErrors == {"none", "restore", "persist"}

\* The status report after a restore, in all loops but Synchronize's.
reportRestored(p, err) ==
    IF Restorable(p) /\ err = "none" THEN reportNotReady(p) ELSE UNCHANGED ready

\* The event handler of both events: a Pod that the store does not know is left
\* alone.
restorePodHostDevices(p, path) ==
    /\ up /\ synced
    /\ nri["event"] = NriIdle
    /\ \/ ~mem[p].known /\ UNCHANGED <<nic, store, ready, published>>
       \/ /\ mem[p].known
          /\ \E err \in RestoreErrors :
               restoreAndRecord(p, path, err, disk) /\ reportRestored(p, err)
          /\ publish(nic', mem')
    /\ UNCHANGED <<child, up, crashes, synced, nri, dra, made, pod, owner>>

\* containerd goes on if the event fails.
StopPodSandbox(p) ==
    /\ sandbox[p] = "stopping"
    /\ sandbox' = [sandbox EXCEPT ![p] = "stopped"]
    /\ restorePodHostDevices(p, TRUE)
    /\ UNCHANGED dead

\* The event for a dead sandbox names its own namespace, which is gone, or none,
\* and then the one recorded last is used: that of the present sandbox.
RemovePodSandbox(p) ==
    /\ dead[p] > 0
    /\ dead' = [dead EXCEPT ![p] = @ - 1]
    /\ \E path \in BOOLEAN : restorePodHostDevices(p, path)
    /\ UNCHANGED sandbox

EventMissed(p) ==
    /\ ~(up /\ synced)
    /\ \/ /\ sandbox[p] = "stopping"
          /\ sandbox' = [sandbox EXCEPT ![p] = "stopped"]
          /\ UNCHANGED dead
       \/ /\ dead[p] > 0
          /\ dead' = [dead EXCEPT ![p] = @ - 1]
          /\ UNCHANGED sandbox
    /\ UNCHANGED <<nic, child, store, up, crashes, synced, nri, dra, published, ready,
                   made, pod, owner>>

\* External: the namespace is unmounted and, once no handler has it open,
\* destroyed.  Virtual links vanish and a physical one returns to the host as
\* it is, without its addresses.
TearDown(p) ==
    LET open == \E h \in Handlers : Handling(h, "configure", p) IN
    /\ sandbox[p] \in {"stopped", "failed"}
    /\ sandbox' = [sandbox EXCEPT ![p] = "none"]
    /\ dead' = [dead EXCEPT ![p] = IF sandbox[p] = "stopped" THEN @ + 1 ELSE @]
    /\ child' = [child EXCEPT ![p] = "none"]
    /\ nic' = IF nic.ns # p THEN nic
              ELSE [nic EXCEPT !.ns = IF open THEN "detached" ELSE "host", !.conf = "altered"]
    /\ UNCHANGED <<store, up, crashes, synced, nri, dra, published, ready, made, pod, owner>>

-----------------------------------------------------------------------------
\* External: the Pod is deleted, and once its sandbox is gone the kubelet
\* calls Unprepare until it succeeds.
DeletePod(p) ==
    /\ pod[p] \in {"preparing", "prepared"}
    /\ pod' = [pod EXCEPT ![p] = "terminating"]
    /\ UNCHANGED <<nic, child, store, up, crashes, synced, nri, dra, published, ready,
                   sandbox, made, dead, owner>>

\* UnprepareResourceClaims: restoreClaimHostDevices; an error ends the call.
UnprepareRestore(p) ==
    /\ up
    /\ dra = None
    /\ pod[p] = "terminating"
    /\ sandbox[p] = "none"
    /\ \E err \in RestoreErrors :
          /\ restoreAndRecord(p, TRUE, err, disk) /\ reportRestored(p, err)
          /\ dra' = IF err = "none" THEN p ELSE None
    /\ publish(nic', mem')
    /\ UNCHANGED <<child, up, crashes, synced, nri, cluster>>

\* UnprepareResourceClaims: the status and the IPAllocation are removed, then
\* store.DeleteClaim forgets the device.
UnprepareForget(p) ==
    LET m == [mem EXCEPT ![p] = NoDevice] IN
    /\ dra = p
    /\ dra' = None
    /\ \/ "api" \in Faults /\ reportNotReady(p) /\ UNCHANGED <<store, pod, owner>>
       \/ PersistFails(m) /\ ready' = [ready EXCEPT ![p] = FALSE] /\ UNCHANGED <<pod, owner>>
       \/ /\ Persist(m)
          /\ ready' = [ready EXCEPT ![p] = FALSE]
          /\ pod' = [pod EXCEPT ![p] = "done"]
          /\ owner' = IF owner = p THEN None ELSE owner
    /\ UNCHANGED <<nic, child, up, crashes, synced, nri, published, sandbox, made, dead>>

-----------------------------------------------------------------------------
\* publishLoop: the ticker.
publishTick ==
    /\ up
    /\ publish(nic, mem)
    /\ UNCHANGED <<nic, child, store, up, crashes, synced, nri, dra, ready, cluster>>

\* The process dies.  containerd may take an event it was waiting for as
\* failed or, once the connection is gone, as handled.
Crash ==
    /\ "crash" \in Faults
    /\ up
    /\ crashes < MaxCrashes
    /\ crashes' = crashes + 1
    /\ up' = FALSE
    /\ synced' = FALSE
    /\ nri' = [h \in Handlers |-> NriIdle]
    /\ nic' = Close(nic)
    /\ dra' = None
    /\ \/ nri["event"] = NriIdle /\ UNCHANGED sandbox
       \/ /\ nri["event"] # NriIdle
          /\ \E s \in {"running", "stopping", "failed"} :
               sandbox' = [sandbox EXCEPT ![nri["event"].pod] = s]
    /\ UNCHANGED <<child, store, published, ready, made, dead, pod, owner>>

\* Start reads the state file and publishes.
Start ==
    /\ ~up
    /\ up' = TRUE
    /\ mem' = disk
    /\ publish(nic, disk)
    /\ UNCHANGED <<nic, child, disk, crashes, synced, nri, dra, ready, cluster>>

\* containerd restarts; the driver connects again after two seconds.
Disconnect ==
    /\ "disconnect" \in Faults
    /\ synced
    /\ nri["event"] = NriIdle
    /\ synced' = FALSE
    /\ UNCHANGED <<nic, child, store, up, crashes, nri, dra, published, ready, cluster>>

\* Synchronize: containerd names the sandboxes that are not removed, SetNetNS
\* writes the store for each of them, its error dropped, and the devices of all
\* other Pods are restored, with no namespace to look into.  The NIC has one owner,
\* so there is at most one such device.  A failed SetDevice refuses the connection,
\* and nothing is published then.
Orphans == {p \in Pods : sandbox[p] = "none" /\ dead[p] = 0 /\ Restorable(p)}

\* Mutant: the sandboxes that run are not left out, and their recorded
\* namespace is used.
SynchronizeAll ==
    /\ up /\ ~synced
    /\ \E file \in {disk, mem} :
         \/ mem' = mem /\ disk' = file /\ synced' = TRUE /\ UNCHANGED nic
         \/ \E p \in Pods, err \in RestoreErrors :
              Restorable(p) /\ restoreAndRecord(p, TRUE, err, file) /\ synced' = (err # "persist")
    /\ IF synced' THEN publish(nic', mem') ELSE UNCHANGED published
    /\ UNCHANGED <<child, up, crashes, nri, dra, ready, cluster>>

Synchronize ==
    /\ up /\ ~synced
    /\ \E file \in {disk, mem} :
         \/ Orphans = {} /\ mem' = mem /\ disk' = file /\ synced' = TRUE /\ UNCHANGED nic
         \/ \E p \in Orphans, err \in RestoreErrors :
              restoreAndRecord(p, FALSE, err, file) /\ synced' = (err # "persist")
    /\ IF synced' THEN publish(nic', mem') ELSE UNCHANGED published
    /\ UNCHANGED <<child, up, crashes, nri, dra, ready, cluster>>

Init ==
    /\ nic = Home("original")
    /\ child = [p \in Pods |-> "none"]
    /\ mem = [p \in Pods |-> NoDevice]
    /\ disk = mem
    /\ up = TRUE
    /\ crashes = 0
    /\ synced = TRUE
    /\ nri = [h \in Handlers |-> NriIdle]
    /\ dra = None
    /\ published = TRUE
    /\ ready = [p \in Pods |-> FALSE]
    /\ sandbox = [p \in Pods |-> "none"]
    /\ made = [p \in Pods |-> 0]
    /\ dead = [p \in Pods |-> 0]
    /\ pod = [p \in Pods |-> "new"]
    /\ owner = None
    /\ exposed = FALSE

PodStep(p) ==
    \/ Schedule(p) \/ CreateSandbox(p) \/ StopSandbox(p) \/ TearDown(p) \/ DeletePod(p)
    \/ RunMissed(p) \/ RunTimeout(p) \/ EventMissed(p)

DriverStep(p) ==
    \/ prepareClaim(p) \/ UnprepareRestore(p) \/ UnprepareForget(p)
    \/ RunPodSandbox(p) \/ reportAttached(p) \/ StopPodSandbox(p) \/ RemovePodSandbox(p)
    \/ \E h \in Handlers : attachLink(p, h) \/ attachMove(p, h) \/ attachConfigure(p, h)

\* The record from which the NIC of its owner can be brought back.
Recorded(m) ==
    \E p \in Pods : owner = p /\ m[p].known /\ ~m[p].restored /\ m[p].snap = "original"

\* The NIC leaves its original state although the store or its file holds no
\* such record: the device is still marked restored, or was never written.
History ==
    exposed' = (exposed \/ /\ nic = Home("original") /\ nic' # nic
                           /\ ~(Recorded(mem) /\ Recorded(disk)))

Next ==
    /\ \/ \E p \in Pods : PodStep(p) \/ DriverStep(p)
       \/ publishTick \/ Crash \/ Start \/ Disconnect \/ Synchronize
    /\ History

Spec == Init /\ [][Next]_vars

\* A step by which containerd, the kernel or a handler goes on with what it
\* began for p; there are finitely many of them in a Pod's life.
Progress(p) ==
    \/ pod[p] = "terminating" /\ StopSandbox(p)
    \/ TearDown(p) \/ RunMissed(p) \/ EventMissed(p) \/ reportAttached(p)
    \/ \E h \in Handlers : attachLink(p, h) \/ attachMove(p, h) \/ attachConfigure(p, h)

\* All of those go on, a driver that died is started again and connects, events
\* are delivered to a driver that is connected again and again, and the calls
\* that the kubelet repeats are not failed for ever.
Fairness ==
    /\ WF_system(Start) /\ SF_system(Synchronize /\ synced')
    /\ \A p \in Pods :
        /\ WF_system(Progress(p))
        /\ SF_system(\/ RunPodSandbox(p) \/ StopPodSandbox(p)
                     \/ UnprepareRestore(p) /\ dra' = p)
        /\ SF_system(UnprepareForget(p) /\ pod'[p] = "done")

FairSpec == Spec /\ Fairness

-----------------------------------------------------------------------------
\* Type correctness.
TypeOK ==
    /\ nic \in Nic
    /\ child \in [Pods -> {"none", "half", "configured"}]
    /\ mem \in [Pods -> Device]
    /\ disk \in [Pods -> Device]
    /\ up \in BOOLEAN
    /\ crashes \in 0 .. MaxCrashes
    /\ synced \in BOOLEAN
    /\ nri \in [Handlers -> [pc: {"idle", "attach", "configure", "report"},
                             pod: Pods \cup {None}, sandbox: 0 .. MaxSandboxes,
                             snap: {"original", "altered", "none"}]]
    /\ dra \in Pods \cup {None}
    /\ published \in BOOLEAN
    /\ ready \in [Pods -> BOOLEAN]
    /\ sandbox \in [Pods -> {"none", "creating", "running", "stopping", "failed", "stopped"}]
    /\ made \in [Pods -> 0 .. MaxSandboxes]
    /\ dead \in [Pods -> 0 .. MaxSandboxes]
    /\ pod \in [Pods -> {"new", "preparing", "prepared", "terminating", "done"}]
    /\ owner \in Pods \cup {None}
    /\ exposed \in BOOLEAN

\* Whenever the NIC is away from home or altered, the state file holds an
\* unrestored device with its original configuration: a driver that starts
\* from that file can still bring it back.
NicRecoverable ==
    nic # Home("original") => Recorded(disk)

\* The snapshot in the store is the configuration the NIC had at first: no
\* retry, restart or later Pod takes an altered one for the original.
SnapshotsTrue ==
    \A p \in Pods : HostDevice(p) =>
        mem[p].snap # "altered" /\ disk[p].snap # "altered"

\* Whatever fails or is interrupted, and in whatever order: a NIC that was
\* recorded when it was first changed stays recorded until it is as before, and
\* no changed configuration passes for the original one.  What is lost is lost
\* because an attachment began with the device still marked restored, as a
\* second sandbox's does, or a record was never written.
LossOnlyWhenExposed ==
    ~exposed => /\ owner = None => nic = Home("original")
                /\ NicRecoverable
                /\ SnapshotsTrue

\* An attached NIC whose Pod has a sandbox that runs on.
RunsOn(p) ==
    nic.ns = p /\ nic.name = "pod" /\ sandbox[p] = "running" /\ sandbox'[p] = "running"

\* A NIC returns to the host during deletion: once it is attached, no event takes
\* it out of a sandbox that goes on running.
RunningKeepsNic == [][\A p \in Pods : RunsOn(p) => nic'.ns = p]_vars

\* The one event that does is a RemovePodSandbox for an earlier sandbox of the
\* Pod: no handler, late handler, rollback, Synchronize, restart or step for
\* another Pod takes an attached NIC out of a sandbox that goes on running.
OnlyRemoveTakesNic ==
    [][\A p \in Pods : RunsOn(p) => nic'.ns = p \/ dead'[p] < dead[p]]_vars

\* "During deletion, the driver returns each NIC to the host and restores its
\* original name, MAC, MTU, addresses, and administrative state": when DRA
\* gives the NIC up it is as it was before the first Pod.
HomeWhenFree == owner = None => nic = Home("original")

\* The NIC stays in the ResourceSlice while a Pod owns it, though it is not
\* in the host then and the slice is built anew at any moment, after a restart
\* too: the store keeps it listed.
StaysPublished == owner # None /\ ~exposed => published

\* A Pod whose sandbox runs and whose device is reported as Ready, reason
\* NetworkAttached, has its interface in that sandbox.
ReadyMeansAttached ==
    \A p \in Pods : ready[p] /\ sandbox[p] = "running" =>
        IF HostDevice(p) THEN nic.ns = p /\ nic.name = "pod" ELSE child[p] = "configured"

\* The claim of a deleted Pod is released in the end: no state of the links,
\* the store or the process makes Unprepare fail for ever.
ReleasedInTheEnd == \A p \in Pods : pod[p] = "terminating" ~> pod[p] = "done"

\* Every device of a prepared Pod is in the state file, so that the sandbox
\* of the Pod is never started as if it had asked for no network.
PreparedKnown ==
    \A p \in Pods : pod[p] = "prepared" => disk[p].known /\ (up => mem[p].known)
=============================================================================
