-------------------------- MODULE PodNetworkProofs --------------------------
(***************************************************************************)
(* Theorems about PodNetwork, for any number of Pods, sandboxes and crashes*)
(* and any faults.                                                         *)
(***************************************************************************)
EXTENDS PodNetwork, TLAPS

\* A host-device that is known has a snapshot.
SnapTaken(m) == \A p \in Pods : HostDevice(p) /\ m[p].known => m[p].snap # "none"

\* What a handler that is not idle has in hand; containerd waits for the event
\* with the connection open and the sandbox in creation.
Handled(h) ==
    nri[h].pc # "idle" =>
        /\ nri[h].pod \in Pods
        /\ up
        /\ h = "event" => synced /\ sandbox[nri[h].pod] = "creating"
        /\ HostDevice(nri[h].pod) => nri[h].snap # "none"
        /\ nri[h].pc = "configure" => HostDevice(nri[h].pod)

IdleHandlers == \A h \in Handlers : nri[h].pc = "idle" => nri[h] = NriIdle

\* A dead sandbox is one that was made and is not the present one.
SandboxesCounted ==
    \A p \in Pods : dead[p] + (IF sandbox[p] = "none" THEN 0 ELSE 1) <= made[p]

\* A sandbox belongs to a Pod that was prepared, and as long as it is there the
\* store and its file know the Pod.
SandboxesKnown ==
    \A p \in Pods :
        /\ sandbox[p] # "none" => pod[p] \in {"prepared", "terminating"}
        /\ sandbox[p] # "none" \/ pod[p] = "prepared" => mem[p].known /\ disk[p].known

\* Unprepare works on a Pod that is being deleted and has no sandbox.
Unpreparing ==
    dra # None => up /\ pod[dra] = "terminating" /\ sandbox[dra] = "none"

Structure ==
    /\ TypeOK
    /\ SnapTaken(mem) /\ SnapTaken(disk)
    /\ \A h \in Handlers : Handled(h)
    /\ IdleHandlers
    /\ SandboxesCounted
    /\ SandboxesKnown
    /\ Unpreparing

\* DRA gives the NIC to one Pod at a time.
OwnerHolds ==
    /\ owner # None => HostDevice(owner)
    /\ \A p \in Pods :
         HostDevice(p) /\ pod[p] \in {"preparing", "prepared", "terminating"} => owner = p

Snapshots == \A h \in Handlers : \A p \in Pods :
    nri[h].pod = p /\ HostDevice(p) => nri[h].snap # "altered"

\* As long as no attachment began without a record: the NIC that is not as it
\* was before has its record in the store and in the file, no snapshot is of an
\* altered NIC, an Unprepare past its restore has nothing left to restore, and
\* the NIC is published.
Kept ==
    ~exposed =>
        /\ owner = None => nic = Home("original")
        /\ nic # Home("original") => Recorded(mem) /\ Recorded(disk)
        /\ SnapshotsTrue
        /\ Snapshots
        /\ dra # None => ~Restorable(dra)
        /\ published

NetworkInv == Structure /\ OwnerHolds /\ Kept

\* What a handler has in hand.
Working == [pc: {"idle", "attach", "configure", "report"}, pod: Pods \cup {None},
            sandbox: 0 .. MaxSandboxes, snap: {"original", "altered", "none"}]

-----------------------------------------------------------------------------
(* Facts about the operators.                                              *)

LEMMA HomeTyped ==
    ASSUME NEW conf \in {"original", "altered"}
    PROVE  Home(conf) \in Nic
  BY DEF Home, Nic

LEMMA CloseTyped ==
    ASSUME NEW x \in Nic
    PROVE  Close(x) \in Nic /\ Close(x).ns # "detached"
  BY DEF Close, Nic

\* What the store holds of a host-device is a configuration to go back to.
LEMMA SnapIs ==
    ASSUME Structure, NEW p \in Pods, HostDevice(p), mem[p].known
    PROVE  mem[p].snap \in {"original", "altered"}
  BY DEF Structure, TypeOK, SnapTaken, Device

\* Nothing but the record of one device changes.
LEMMA StoreTyped ==
    ASSUME NEW m \in [Pods -> Device], NEW p \in Pods, NEW d \in Device, SnapTaken(m),
           HostDevice(p) /\ d.known => d.snap # "none"
    PROVE  /\ [m EXCEPT ![p] = d] \in [Pods -> Device]
           /\ SnapTaken([m EXCEPT ![p] = d])
  BY DEF SnapTaken

LEMMA RestoredFlag ==
    ASSUME NEW d \in Device, NEW r \in BOOLEAN
    PROVE  /\ [d EXCEPT !.restored = r] \in Device
           /\ [d EXCEPT !.restored = r].known = d.known
           /\ [d EXCEPT !.restored = r].snap = d.snap
           /\ [d EXCEPT !.restored = r].restored = r
  BY DEF Device

LEMMA DeviceFlags ==
    ASSUME NEW d \in Device, NEW r \in BOOLEAN, NEW a \in BOOLEAN
    PROVE  /\ [d EXCEPT !.attached = a] \in Device
           /\ [d EXCEPT !.attached = a].known = d.known
           /\ [d EXCEPT !.attached = a].snap = d.snap
           /\ [d EXCEPT !.attached = a].restored = d.restored
           /\ [d EXCEPT !.restored = r, !.attached = a] \in Device
           /\ [d EXCEPT !.restored = r, !.attached = a].known = d.known
           /\ [d EXCEPT !.restored = r, !.attached = a].snap = d.snap
           /\ [d EXCEPT !.restored = r, !.attached = a].restored = r
  BY DEF Device

\* The flags of a device change, and neither whether it is known nor its snapshot.
LEMMA FlagsTyped ==
    ASSUME NEW m \in [Pods -> Device], SnapTaken(m), NEW p \in Pods, NEW d \in Device,
           d.known = m[p].known, d.snap = m[p].snap
    PROVE  /\ [m EXCEPT ![p] = d] \in [Pods -> Device]
           /\ SnapTaken([m EXCEPT ![p] = d])
           /\ \A q \in Pods : /\ [m EXCEPT ![p] = d][q].known = m[q].known
                           /\ [m EXCEPT ![p] = d][q].snap = m[q].snap
<1> DEFINE n == [m EXCEPT ![p] = d]
<1>1. n \in [Pods -> Device] /\ n[p] = d /\ \A q \in Pods \ {p} : n[q] = m[q]
  OBVIOUS
<1> HIDE DEF n
<1>2. \A q \in Pods : n[q].known = m[q].known /\ n[q].snap = m[q].snap
  BY <1>1
<1>3. SnapTaken(n)
  BY <1>2 DEF SnapTaken
<1>4. QED
  BY <1>1, <1>2, <1>3 DEF n

LEMMA RestoresTyped ==
    ASSUME Structure, NEW p \in Pods, HostDevice(p), mem[p].known, NEW path \in BOOLEAN,
           NEW x \in Nic, NEW y, NEW ok \in BOOLEAN, Restores(p, path, x, y, ok)
    PROVE  y \in Nic
<1>1. Home(mem[p].snap) \in Nic /\ Home("altered") \in Nic
  BY SnapIs, HomeTyped
<1>2. [x EXCEPT !.name = "original"] \in Nic
  BY DEF Nic
<1>3. QED
  BY <1>1, <1>2 DEF Restores

-----------------------------------------------------------------------------
(* Structure is kept: the actions outside the driver.                      *)

LEMMA ScheduleKeeps ==
    ASSUME Structure, NEW p \in Pods, Schedule(p), History
    PROVE  Structure'
<1> USE DEF Structure, Schedule
<1>1. TypeOK'
  BY DEF TypeOK, History
<1>2. SnapTaken(mem)' /\ SnapTaken(disk)' /\ IdleHandlers' /\ SandboxesCounted'
  BY DEF SnapTaken, IdleHandlers, SandboxesCounted
<1>3. \A h \in Handlers : Handled(h)'
  BY DEF Handled
<1>4. SandboxesKnown' /\ Unpreparing'
  BY DEF TypeOK, SandboxesKnown, Unpreparing
<1>5. QED
  BY <1>1, <1>2, <1>3, <1>4

LEMMA CreateKeeps ==
    ASSUME Structure, NEW p \in Pods, CreateSandbox(p), History
    PROVE  Structure'
<1> USE DEF Structure, CreateSandbox, store
<1>1. TypeOK'
  BY PodNetworkAssumption DEF TypeOK, History
<1>2. SnapTaken(mem)' /\ SnapTaken(disk)' /\ IdleHandlers'
  BY DEF SnapTaken, IdleHandlers
<1>3. SandboxesCounted'
  BY DEF SandboxesCounted, TypeOK
<1>4. \A h \in Handlers : Handled(h)'
  BY DEF Handled, TypeOK
<1>5. SandboxesKnown' /\ Unpreparing'
  BY DEF TypeOK, SandboxesKnown, Unpreparing
<1>6. QED
  BY <1>1, <1>2, <1>3, <1>4, <1>5

LEMMA StopKeeps ==
    ASSUME Structure, NEW p \in Pods, StopSandbox(p), History
    PROVE  Structure'
<1> USE DEF Structure, StopSandbox, store
<1>1. TypeOK'
  BY DEF TypeOK, History
<1>2. SnapTaken(mem)' /\ SnapTaken(disk)' /\ IdleHandlers'
  BY DEF SnapTaken, IdleHandlers
<1>3. SandboxesCounted' /\ SandboxesKnown' /\ Unpreparing'
  BY DEF SandboxesCounted, SandboxesKnown, Unpreparing, TypeOK
<1>4. \A h \in Handlers : Handled(h)'
  BY DEF Handled, TypeOK
<1>5. QED
  BY <1>1, <1>2, <1>3, <1>4

LEMMA TearDownKeeps ==
    ASSUME Structure, NEW p \in Pods, TearDown(p), History
    PROVE  Structure'
<1> USE DEF Structure, TearDown, store
<1>1. dead[p] + 1 <= made[p]
  BY DEF SandboxesCounted, TypeOK
<1>2. TypeOK'
  <2>1. nic' \in Nic
    BY DEF TypeOK, Nic
  <2>2. dead' \in [Pods -> 0 .. MaxSandboxes]
    BY <1>1, PodNetworkAssumption DEF TypeOK
  <2>3. QED
    BY <2>1, <2>2 DEF TypeOK, History
<1>3. SnapTaken(mem)' /\ SnapTaken(disk)' /\ IdleHandlers'
  BY DEF SnapTaken, IdleHandlers
<1>4. SandboxesCounted'
  BY <1>1 DEF SandboxesCounted, TypeOK
<1>5. SandboxesKnown' /\ Unpreparing'
  BY DEF SandboxesKnown, Unpreparing, TypeOK
<1>6. \A h \in Handlers : Handled(h)'
  BY DEF Handled, TypeOK
<1>7. QED
  BY <1>2, <1>3, <1>4, <1>5, <1>6

LEMMA DeleteKeeps ==
    ASSUME Structure, NEW p \in Pods, DeletePod(p), History
    PROVE  Structure'
<1> USE DEF Structure, DeletePod, store
<1>1. TypeOK'
  BY DEF TypeOK, History
<1>2. SnapTaken(mem)' /\ SnapTaken(disk)' /\ IdleHandlers' /\ SandboxesCounted'
  BY DEF SnapTaken, IdleHandlers, SandboxesCounted
<1>3. SandboxesKnown' /\ Unpreparing'
  BY DEF SandboxesKnown, Unpreparing, TypeOK
<1>4. \A h \in Handlers : Handled(h)'
  BY DEF Handled
<1>5. QED
  BY <1>1, <1>2, <1>3, <1>4

LEMMA RunMissedKeeps ==
    ASSUME Structure, NEW p \in Pods, RunMissed(p), History
    PROVE  Structure'
<1> USE DEF Structure, RunMissed, store
<1>1. TypeOK'
  BY DEF TypeOK, History
<1>2. SnapTaken(mem)' /\ SnapTaken(disk)' /\ IdleHandlers'
  BY DEF SnapTaken, IdleHandlers
<1>3. SandboxesCounted' /\ SandboxesKnown' /\ Unpreparing'
  BY DEF SandboxesCounted, SandboxesKnown, Unpreparing, TypeOK
<1>4. \A h \in Handlers : Handled(h)'
  BY DEF Handled, TypeOK
<1>5. QED
  BY <1>1, <1>2, <1>3, <1>4

LEMMA EventMissedKeeps ==
    ASSUME Structure, NEW p \in Pods, EventMissed(p), History
    PROVE  Structure'
<1> USE DEF Structure, EventMissed, store
<1>1. TypeOK'
  BY PodNetworkAssumption DEF TypeOK, History
<1>2. SnapTaken(mem)' /\ SnapTaken(disk)' /\ IdleHandlers'
  BY DEF SnapTaken, IdleHandlers
<1>3. SandboxesCounted'
  BY DEF SandboxesCounted, TypeOK
<1>4. SandboxesKnown' /\ Unpreparing'
  BY DEF SandboxesKnown, Unpreparing, TypeOK
<1>5. \A h \in Handlers : Handled(h)'
  BY DEF Handled, TypeOK
<1>6. QED
  BY <1>1, <1>2, <1>3, <1>4, <1>5

\* The handler that is given up keeps what it has in hand, and the sandbox was
\* there when it was.
LEMMA TimeoutKeeps ==
    ASSUME Structure, NEW p \in Pods, RunTimeout(p), History
    PROVE  Structure'
<1> USE DEF Structure, RunTimeout, store
<1>1. /\ nri["event"].pc # "idle" /\ up /\ sandbox[p] = "creating"
      /\ nri["event"] \in Working
  BY PodNetworkAssumption DEF IdleHandlers, Handled, NriIdle, Handlers, TypeOK, Working
<1>2. nri' = [nri EXCEPT !["event"] = NriIdle, !["late"] = nri["event"]]
      \/ nri' = [nri EXCEPT !["event"] = NriIdle]
  OBVIOUS
<1>3. TypeOK'
  <2>1. nri' \in [Handlers -> Working]
    BY <1>1, <1>2, PodNetworkAssumption DEF TypeOK, NriIdle, Handlers, Working
  <2>2. ready' \in [Pods -> BOOLEAN]
    BY DEF TypeOK
  <2>3. QED
    BY <2>1, <2>2 DEF TypeOK, History, Working
<1>4. SnapTaken(mem)' /\ SnapTaken(disk)'
  BY DEF SnapTaken
<1>5. IdleHandlers'
  BY <1>1, <1>2 DEF IdleHandlers, Handlers, NriIdle, TypeOK
<1>6. SandboxesCounted' /\ SandboxesKnown' /\ Unpreparing'
  BY <1>1 DEF SandboxesCounted, SandboxesKnown, Unpreparing, TypeOK
<1>7. \A h \in Handlers : Handled(h)'
  BY <1>1, <1>2 DEF Handled, TypeOK, Handlers, NriIdle
<1>8. QED
  BY <1>3, <1>4, <1>5, <1>6, <1>7

-----------------------------------------------------------------------------
(* Structure is kept: the handlers.                                        *)

\* A handler ends, or goes on to its report.
LEMMA HandlerEnds ==
    ASSUME Structure, NEW p \in Pods, NEW h \in Handlers,
           h = "event" => sandbox[p] = "creating",
           RunFails(p, h) \/ (Attached(h) /\ nri[h].pc # "idle"),
           UNCHANGED <<up, synced, made, dead, pod, dra>>,
           \A q \in Pods : mem[q].known /\ disk[q].known => mem'[q].known /\ disk'[q].known
    PROVE  /\ nri' \in [Handlers -> Working]
           /\ sandbox' \in [Pods -> {"none", "creating", "running", "stopping", "failed", "stopped"}]
           /\ \A g \in Handlers : Handled(g)'
           /\ IdleHandlers'
           /\ SandboxesCounted' /\ SandboxesKnown' /\ Unpreparing'
<1> USE DEF Structure
<1>1. /\ nri \in [Handlers -> Working] /\ NriIdle \in Working
      /\ \A g \in Handlers : nri[g].pc # "idle" => [nri[g] EXCEPT !.pc = "report"] \in Working
  BY PodNetworkAssumption DEF TypeOK, Working, NriIdle
<1>2. /\ \A g \in Handlers \ {h} : nri'[g] = nri[g]
      /\ \/ nri'[h] = NriIdle
         \/ nri[h].pc # "idle" /\ nri'[h] = [nri[h] EXCEPT !.pc = "report"] /\ sandbox' = sandbox
      /\ nri' \in [Handlers -> Working]
  BY <1>1 DEF RunFails, Attached
<1>3. /\ \/ sandbox' = sandbox
         \/ /\ h = "event" /\ nri'[h] = NriIdle
            /\ \E s \in {"stopping", "failed"} : sandbox' = [sandbox EXCEPT ![p] = s]
      /\ sandbox' \in [Pods -> {"none", "creating", "running", "stopping", "failed", "stopped"}]
  <2>1. CASE RunFails(p, h)
    <3>1. nri'[h] = NriIdle
      BY <1>1, <2>1 DEF RunFails
    <3>2. \/ sandbox' = sandbox
          \/ h = "event" /\ \E s \in {"stopping", "failed"} : sandbox' = [sandbox EXCEPT ![p] = s]
      BY <2>1 DEF RunFails
    <3>3. sandbox' \in [Pods -> {"none", "creating", "running", "stopping", "failed", "stopped"}]
      BY <3>2 DEF TypeOK
    <3>4. QED
      BY <3>1, <3>2, <3>3
  <2>2. CASE Attached(h)
    BY <2>2 DEF Attached, TypeOK
  <2>3. QED
    BY <2>1, <2>2
<1>4. IdleHandlers'
  BY <1>1, <1>2 DEF IdleHandlers, NriIdle, Working
<1>5. SandboxesCounted' /\ SandboxesKnown' /\ Unpreparing'
  BY <1>3 DEF SandboxesCounted, SandboxesKnown, Unpreparing, TypeOK
<1>6. ASSUME NEW g \in Handlers PROVE Handled(g)'
  <2>1. CASE g = h
    BY <1>1, <1>2, <2>1 DEF Handled, NriIdle, Working
  <2>2. CASE g # h
    BY <1>1, <1>2, <1>3, <2>2 DEF Handled, Handlers, Working, TypeOK
  <2>3. QED
    BY <2>1, <2>2
<1>7. QED
  BY <1>2, <1>3, <1>4, <1>5, <1>6

LEMMA reportNotReadyTyped ==
    ASSUME Structure, NEW p \in Pods, reportNotReady(p)
    PROVE  ready' \in [Pods -> BOOLEAN]
  BY DEF Structure, TypeOK, reportNotReady

LEMMA AttachFailsTyped ==
    ASSUME Structure, NEW p \in Pods, NEW h \in Handlers, AttachFails(p, h)
    PROVE  ready' \in [Pods -> BOOLEAN]
  BY reportNotReadyTyped DEF Structure, TypeOK, AttachFails

LEMMA PrepareKeeps ==
    ASSUME Structure, NEW p \in Pods, prepareClaim(p), History
    PROVE  Structure'
<1> USE DEF Structure
<1> DEFINE m == [mem EXCEPT ![p] = PreparedDevice(p)]
<1>1. /\ PreparedDevice(p) \in Device /\ PreparedDevice(p).known
      /\ HostDevice(p) => PreparedDevice(p).snap # "none"
  BY DEF PreparedDevice, TypeOK, Device, SnapTaken, Nic
<1>2. /\ m \in [Pods -> Device] /\ SnapTaken(m) /\ m[p].known
      /\ \A q \in Pods : mem[q].known => m[q].known
  BY <1>1, StoreTyped DEF TypeOK
<1>3. /\ mem' = m /\ disk' \in {disk, m}
      /\ pod' = pod \/ (disk' = m /\ pod' = [pod EXCEPT ![p] = "prepared"])
      /\ sandbox[p] = "none" /\ pod[p] \in {"preparing", "prepared"}
      /\ ready' = ready \/ ready' = [ready EXCEPT ![p] = FALSE]
      /\ UNCHANGED <<nic, child, up, crashes, synced, nri, dra, published, sandbox, made, dead, owner>>
  BY DEF prepareClaim, Persist, PersistFails
<1> HIDE DEF m
<1>4. TypeOK'
  BY <1>2, <1>3 DEF TypeOK, History
<1>5. SnapTaken(mem)' /\ SnapTaken(disk)'
  BY <1>2, <1>3 DEF SnapTaken
<1>6. (\A h \in Handlers : Handled(h)') /\ IdleHandlers' /\ SandboxesCounted'
  BY <1>3 DEF Handled, IdleHandlers, SandboxesCounted
<1>7. SandboxesKnown'
  BY <1>2, <1>3 DEF SandboxesKnown, TypeOK
<1>8. Unpreparing'
  BY <1>3 DEF Unpreparing, TypeOK
<1>9. QED
  BY <1>4, <1>5, <1>6, <1>7, <1>8

LEMMA RunPodSandboxKeeps ==
    ASSUME Structure, NEW p \in Pods, RunPodSandbox(p), History
    PROVE  Structure'
<1> USE DEF Structure
<1>1. /\ mem' = mem /\ disk' \in {disk, mem} /\ up /\ synced /\ mem[p].known
      /\ sandbox[p] = "creating" /\ nri["event"] = NriIdle
      /\ UNCHANGED <<nic, child, up, crashes, synced, dra, published, ready, made, dead, pod, owner>>
  BY DEF RunPodSandbox, Persist, PersistFails
<1>2. SnapTaken(mem)' /\ SnapTaken(disk)'
  BY <1>1 DEF SnapTaken
<1>3. disk' \in [Pods -> Device]
  BY <1>1 DEF TypeOK
<1>4. \A q \in Pods : sandbox[q] # "none" \/ pod[q] = "prepared" => disk'[q].known
  BY <1>1 DEF SandboxesKnown
<1>5. CASE RunFails(p, "event")
  <2>1. nri' = [nri EXCEPT !["event"] = NriIdle] /\ "event" \in Handlers
        /\ \E s \in {"stopping", "failed"} : sandbox' = [sandbox EXCEPT ![p] = s]
    BY <1>5 DEF RunFails, Handlers
  <2>2. nri' = nri
    BY <1>1, <2>1 DEF TypeOK
  <2>3. TypeOK'
    BY <1>1, <1>3, <2>1, <2>2 DEF TypeOK, History
  <2>4. SandboxesCounted' /\ SandboxesKnown' /\ Unpreparing' /\ IdleHandlers'
    BY <1>1, <1>4, <2>1, <2>2 DEF TypeOK, SandboxesCounted, SandboxesKnown, Unpreparing,
                                  IdleHandlers
  <2>5. \A h \in Handlers : Handled(h)'
    BY <1>1, <2>1, <2>2 DEF Handled, TypeOK, Handlers, NriIdle
  <2>6. QED
    BY <1>2, <2>3, <2>4, <2>5
<1>6. CASE ~RunFails(p, "event")
  <2> DEFINE w == [pc |-> IF mem[p].attached THEN "report" ELSE "attach", pod |-> p,
                   sandbox |-> made[p], snap |-> mem[p].snap]
  <2>1. nri' = [nri EXCEPT !["event"] = w] /\ sandbox' = sandbox
    BY <1>6 DEF RunPodSandbox
  <2>2. /\ w \in Working /\ w.pc \in {"report", "attach"} /\ w.pod = p
        /\ HostDevice(p) => w.snap # "none"
    BY <1>1, PodNetworkAssumption DEF TypeOK, Working, Device, SnapTaken
  <2> HIDE DEF w
  <2>3. nri' \in [Handlers -> Working]
    BY <2>1, <2>2 DEF TypeOK, Working
  <2>4. TypeOK'
    BY <1>1, <1>3, <2>1, <2>3 DEF TypeOK, History, Working
  <2>5. SandboxesCounted' /\ SandboxesKnown' /\ Unpreparing'
    BY <1>1, <1>4, <2>1 DEF SandboxesCounted, SandboxesKnown, Unpreparing
  <2>6. \A h \in Handlers : h # "event" => nri'[h] = nri[h]
    BY <2>1 DEF TypeOK
  <2>7. nri'["event"] = w
    BY <2>1 DEF TypeOK, Handlers
  <2>8. IdleHandlers' /\ \A h \in Handlers : Handled(h)'
    BY <1>1, <2>1, <2>2, <2>6, <2>7 DEF IdleHandlers, Handled
  <2>9. QED
    BY <1>2, <2>4, <2>5, <2>8
<1>7. QED
  BY <1>5, <1>6

LEMMA AttachLinkKeeps ==
    ASSUME Structure, NEW p \in Pods, NEW h \in Handlers, attachLink(p, h), History
    PROVE  Structure'
<1> USE DEF Structure
<1> DEFINE m == [mem EXCEPT ![p].attached = TRUE]
<1>1. /\ nri[h].pc # "idle" /\ nri[h].pod = p /\ ~HostDevice(p)
      /\ h = "event" => sandbox[p] = "creating"
  BY DEF attachLink, Handling, Handled
<1>2. /\ m \in [Pods -> Device] /\ SnapTaken(m)
      /\ \A q \in Pods : m[q].known = mem[q].known
  <2> DEFINE d == [mem[p] EXCEPT !.attached = TRUE]
  <2>1. mem \in [Pods -> Device] /\ d \in Device /\ d.known = mem[p].known /\ d.snap = mem[p].snap
    <3>1. mem \in [Pods -> Device] /\ mem[p] \in Device
      BY DEF TypeOK
    <3>2. QED
      BY <3>1, DeviceFlags, Zenon
  <2>2. m = [mem EXCEPT ![p] = d]
    OBVIOUS
  <2> HIDE DEF d, m
  <2>3. QED
    BY <2>1, <2>2, FlagsTyped
<1>3. /\ mem' \in {mem, m} /\ disk' \in {disk, mem'}
      /\ child' = child \/ \E c \in {"half", "configured"} : child' = [child EXCEPT ![p] = c]
      /\ RunFails(p, h) \/ Attached(h)
      /\ ready' = ready \/ AttachFails(p, h)
      /\ UNCHANGED <<nic, up, crashes, synced, dra, published, made, dead, pod, owner>>
  BY DEF attachLink, Persist, PersistFails, AttachFails, store
<1> HIDE DEF m
<1>4. UNCHANGED <<up, synced, made, dead, pod, dra>>
  BY <1>3
<1>5. \A q \in Pods : mem[q].known /\ disk[q].known => mem'[q].known /\ disk'[q].known
  BY <1>2, <1>3
<1>6. /\ nri' \in [Handlers -> Working]
      /\ sandbox' \in [Pods -> {"none", "creating", "running", "stopping", "failed", "stopped"}]
      /\ \A g \in Handlers : Handled(g)'
      /\ IdleHandlers' /\ SandboxesCounted' /\ SandboxesKnown' /\ Unpreparing'
  BY <1>1, <1>3, <1>4, <1>5, HandlerEnds
<1>7. ready' \in [Pods -> BOOLEAN]
  BY <1>3, AttachFailsTyped DEF TypeOK
<1>8. child' \in [Pods -> {"none", "half", "configured"}]
  BY <1>3 DEF TypeOK
<1>9. TypeOK'
  BY <1>2, <1>3, <1>6, <1>7, <1>8 DEF TypeOK, History, Working
<1>10. SnapTaken(mem)' /\ SnapTaken(disk)'
  BY <1>2, <1>3 DEF SnapTaken
<1>11. QED
  BY <1>6, <1>9, <1>10

LEMMA AttachMoveKeeps ==
    ASSUME Structure, NEW p \in Pods, NEW h \in Handlers, attachMove(p, h), History
    PROVE  Structure'
<1> USE DEF Structure
<1>1. /\ nri[h].pc = "attach" /\ nri[h].pod = p /\ HostDevice(p)
      /\ h = "event" => sandbox[p] = "creating"
  BY DEF attachMove, Handling, Handled
<1>2. /\ UNCHANGED <<child, store, up, crashes, synced, dra, published, made, dead, pod, owner>>
      /\ mem' = mem /\ disk' = disk
  BY DEF attachMove, store
<1>3. SnapTaken(mem)' /\ SnapTaken(disk)'
  BY <1>2 DEF SnapTaken
<1>4. CASE AttachFails(p, h)
  <2>1. nic' \in Nic
    <3>1. PathAlive(h) => sandbox[p] # "none"
      BY <1>1 DEF PathAlive
    <3>2. PathAlive(h) => Home(mem[p].snap) \in Nic
      BY <1>1, <3>1, SnapIs, HomeTyped DEF SandboxesKnown
    <3>3. Home("altered") \in Nic /\ [ns |-> p, name |-> "original", conf |-> "altered"] \in Nic
      BY DEF Home, Nic
    <3>4. QED
      BY <3>2, <3>3 DEF attachMove, TypeOK
  <2>2. RunFails(p, h)
    BY <1>4 DEF AttachFails
  <2>3. \A q \in Pods : mem[q].known /\ disk[q].known => mem'[q].known /\ disk'[q].known
    BY <1>2
  <2>4. /\ nri' \in [Handlers -> Working]
        /\ sandbox' \in [Pods -> {"none", "creating", "running", "stopping", "failed", "stopped"}]
        /\ \A g \in Handlers : Handled(g)'
        /\ IdleHandlers' /\ SandboxesCounted' /\ SandboxesKnown' /\ Unpreparing'
    BY <1>1, <1>2, <2>2, <2>3, HandlerEnds
  <2>5. ready' \in [Pods -> BOOLEAN]
    BY <1>4, AttachFailsTyped
  <2>6. TypeOK'
    BY <1>2, <2>1, <2>4, <2>5 DEF TypeOK, History, Working
  <2>7. QED
    BY <1>3, <2>4, <2>6
<1>5. CASE ~AttachFails(p, h)
  <2>1. /\ nri' = [nri EXCEPT ![h].pc = "configure"] /\ sandbox' = sandbox /\ ready' = ready
        /\ nic' = [ns |-> p, name |-> "original", conf |-> "altered"]
    BY <1>5 DEF attachMove
  <2>2. nri' \in [Handlers -> Working] /\ nri'[h] = [nri[h] EXCEPT !.pc = "configure"]
        /\ \A g \in Handlers \ {h} : nri'[g] = nri[g]
    BY <2>1 DEF TypeOK, Working
  <2>3. TypeOK'
    BY <1>2, <2>1, <2>2 DEF TypeOK, History, Working, Nic
  <2>4. SandboxesCounted' /\ SandboxesKnown' /\ Unpreparing'
    BY <1>2, <2>1 DEF SandboxesCounted, SandboxesKnown, Unpreparing
  <2>5. IdleHandlers'
    BY <1>1, <2>2 DEF IdleHandlers, Working, TypeOK
  <2>6. \A g \in Handlers : Handled(g)'
    BY <1>1, <1>2, <2>1, <2>2 DEF Handled, Working, TypeOK
  <2>7. QED
    BY <1>3, <2>3, <2>4, <2>5, <2>6
<1>6. QED
  BY <1>4, <1>5

LEMMA AttachConfigureKeeps ==
    ASSUME Structure, NEW p \in Pods, NEW h \in Handlers, attachConfigure(p, h), History
    PROVE  Structure'
<1> USE DEF Structure
<1> DEFINE done == [known |-> TRUE, snap |-> nri[h].snap, restored |-> FALSE, attached |-> TRUE]
           m == [mem EXCEPT ![p] = done]
           inside == nic.ns = "detached" \/ (nic.ns = p /\ PathAlive(h))
<1>1. /\ nri[h].pc = "configure" /\ nri[h].pod = p /\ HostDevice(p)
      /\ h = "event" => sandbox[p] = "creating"
      /\ nri[h].snap \in {"original", "altered"}
  BY DEF attachConfigure, Handling, Handled, TypeOK
<1>2. m \in [Pods -> Device] /\ SnapTaken(m)
  BY <1>1, StoreTyped DEF Device, TypeOK
<1>3. \A q \in Pods : mem[q].known => m[q].known
  BY DEF TypeOK
<1>4. UNCHANGED <<child, up, crashes, synced, dra, published, made, dead, pod, owner>>
  BY DEF attachConfigure
<1>5. CASE /\ nic' = Close([nic EXCEPT !.name = "pod"])
           /\ mem' = m /\ disk' \in {disk, m} /\ ready' = ready
           /\ RunFails(p, h) \/ Attached(h)
  <2>1. nic' \in Nic
    <3>1. [nic EXCEPT !.name = "pod"] \in Nic
      BY DEF TypeOK, Nic
    <3>2. QED
      BY <1>5, <3>1, CloseTyped
  <2> HIDE DEF m
  <2>2. \A q \in Pods : mem[q].known /\ disk[q].known => mem'[q].known /\ disk'[q].known
    BY <1>3, <1>5
  <2>3. /\ nri' \in [Handlers -> Working]
        /\ sandbox' \in [Pods -> {"none", "creating", "running", "stopping", "failed", "stopped"}]
        /\ \A g \in Handlers : Handled(g)'
        /\ IdleHandlers' /\ SandboxesCounted' /\ SandboxesKnown' /\ Unpreparing'
    BY <1>1, <1>4, <1>5, <2>2, HandlerEnds
  <2>4. TypeOK'
    BY <1>2, <1>4, <1>5, <2>1, <2>3 DEF TypeOK, History, Working
  <2>5. SnapTaken(mem)' /\ SnapTaken(disk)'
    BY <1>2, <1>5 DEF SnapTaken
  <2>6. QED
    BY <2>3, <2>4, <2>5
<1>6. CASE /\ AttachFails(p, h)
           /\ \E name \in {nic.name, "pod"} :
               LET x == [nic EXCEPT !.name = name] IN
               \/ nic' = Close(x) /\ mem' = mem
               \/ \E ok \in BOOLEAN, y \in Nic :
                    nic' = Close(y) /\ mem' = [mem EXCEPT ![p].restored = ok]
           /\ disk' = disk
  <2>1. PICK name \in {nic.name, "pod"} :
          LET x == [nic EXCEPT !.name = name] IN
          \/ nic' = Close(x) /\ mem' = mem
          \/ \E ok \in BOOLEAN, y \in Nic :
               nic' = Close(y) /\ mem' = [mem EXCEPT ![p].restored = ok]
    BY <1>6
  <2>2. nic' \in Nic
    <3>1. [nic EXCEPT !.name = name] \in Nic
      BY DEF TypeOK, Nic
    <3>2. QED
      BY <2>1, <3>1, CloseTyped
  <2>3. mem' = mem \/ \E ok \in BOOLEAN : mem' = [mem EXCEPT ![p].restored = ok]
    BY <2>1
  <2>4. /\ mem' \in [Pods -> Device] /\ SnapTaken(mem')
        /\ \A q \in Pods : mem'[q].known = mem[q].known
    <3>1. CASE mem' = mem
      BY <3>1 DEF TypeOK
    <3>2. ASSUME NEW ok \in BOOLEAN, mem' = [mem EXCEPT ![p].restored = ok]
          PROVE  /\ mem' \in [Pods -> Device] /\ SnapTaken(mem')
                 /\ \A q \in Pods : mem'[q].known = mem[q].known
      <4> DEFINE d == [mem[p] EXCEPT !.restored = ok]
      <4>1. mem \in [Pods -> Device] /\ d \in Device /\ d.known = mem[p].known
            /\ d.snap = mem[p].snap
        <5>1. mem \in [Pods -> Device] /\ mem[p] \in Device /\ ok \in BOOLEAN
          BY DEF TypeOK
        <5>2. QED
          BY <5>1, RestoredFlag, Zenon
      <4>2. mem' = [mem EXCEPT ![p] = d]
        BY <3>2
      <4> HIDE DEF d
      <4>3. QED
        BY <4>1, <4>2, FlagsTyped
    <3>3. QED
      BY <2>3, <3>1, <3>2
  <2>5. RunFails(p, h)
    BY <1>6 DEF AttachFails
  <2>6. \A q \in Pods : mem[q].known /\ disk[q].known => mem'[q].known /\ disk'[q].known
    BY <1>6, <2>4
  <2>7. /\ nri' \in [Handlers -> Working]
        /\ sandbox' \in [Pods -> {"none", "creating", "running", "stopping", "failed", "stopped"}]
        /\ \A g \in Handlers : Handled(g)'
        /\ IdleHandlers' /\ SandboxesCounted' /\ SandboxesKnown' /\ Unpreparing'
    BY <1>1, <1>4, <2>5, <2>6, HandlerEnds
  <2>8. ready' \in [Pods -> BOOLEAN]
    BY <1>6, AttachFailsTyped
  <2>9. TypeOK'
    BY <1>4, <1>6, <2>2, <2>4, <2>7, <2>8 DEF TypeOK, History, Working
  <2>10. SnapTaken(mem)' /\ SnapTaken(disk)'
    BY <1>6, <2>4 DEF SnapTaken
  <2>11. QED
    BY <2>7, <2>9, <2>10
<1>7. QED
  <2>1. \/ /\ inside
           /\ nic' = Close([nic EXCEPT !.name = "pod"])
           /\ \/ Persist(m) /\ Attached(h)
              \/ PersistFails(m) /\ RunFails(p, h)
           /\ UNCHANGED ready
        \/ /\ AttachFails(p, h)
           /\ \E name \in {nic.name, "pod"} :
               LET x == [nic EXCEPT !.name = name] IN
               \/ nic' = Close(x) /\ mem' = mem
               \/ \E ok \in BOOLEAN, y \in Nic :
                    nic' = Close(y) /\ mem' = [mem EXCEPT ![p].restored = ok]
           /\ disk' = disk
    BY Zenon DEF attachConfigure
  <2>2. QED
    BY <1>5, <1>6, <2>1 DEF Persist, PersistFails

LEMMA ReportKeeps ==
    ASSUME Structure, NEW p \in Pods, reportAttached(p), History
    PROVE  Structure'
<1> USE DEF Structure
<1>1. /\ nri["event"].pc = "report" /\ nri["event"].pod = p /\ "event" \in Handlers
      /\ sandbox[p] = "creating"
  BY DEF reportAttached, Handling, Handled, Handlers
<1>2. /\ UNCHANGED <<nic, child, store, up, crashes, synced, dra, published, made, dead, pod, owner>>
      /\ mem' = mem /\ disk' = disk
      /\ ready' = ready \/ ready' = [ready EXCEPT ![p] = TRUE]
  BY DEF reportAttached, store
<1>3. SnapTaken(mem)' /\ SnapTaken(disk)' /\ ready' \in [Pods -> BOOLEAN]
  BY <1>2 DEF SnapTaken, TypeOK
<1>4. CASE RunFails(p, "event")
  <2>1. \A q \in Pods : mem[q].known /\ disk[q].known => mem'[q].known /\ disk'[q].known
    BY <1>2
  <2>2. /\ nri' \in [Handlers -> Working]
        /\ sandbox' \in [Pods -> {"none", "creating", "running", "stopping", "failed", "stopped"}]
        /\ \A g \in Handlers : Handled(g)'
        /\ IdleHandlers' /\ SandboxesCounted' /\ SandboxesKnown' /\ Unpreparing'
    BY <1>1, <1>2, <1>4, <2>1, HandlerEnds
  <2>3. TypeOK'
    BY <1>2, <1>3, <2>2 DEF TypeOK, History, Working
  <2>4. QED
    BY <1>3, <2>2, <2>3
<1>5. CASE ~RunFails(p, "event")
  <2>1. /\ nri' = [nri EXCEPT !["event"] = NriIdle]
        /\ sandbox' = [sandbox EXCEPT ![p] = "running"]
    BY <1>5 DEF reportAttached
  <2>2. nri' \in [Handlers -> Working] /\ nri'["event"] = NriIdle
        /\ \A g \in Handlers \ {"event"} : nri'[g] = nri[g]
    BY <1>1, <2>1, PodNetworkAssumption DEF TypeOK, Working, NriIdle
  <2>3. TypeOK'
    BY <1>2, <1>3, <2>1, <2>2 DEF TypeOK, History, Working
  <2>4. SandboxesCounted' /\ SandboxesKnown' /\ Unpreparing'
    BY <1>1, <1>2, <2>1 DEF SandboxesCounted, SandboxesKnown, Unpreparing, TypeOK
  <2>5. IdleHandlers' /\ \A g \in Handlers : Handled(g)'
    BY <1>1, <1>2, <2>1, <2>2 DEF Handled, IdleHandlers, NriIdle, TypeOK
  <2>6. QED
    BY <1>3, <2>3, <2>4, <2>5
<1>6. QED
  BY <1>4, <1>5

\* A device is restored and recorded, in whatever loop.
LEMMA RestoreTyped ==
    ASSUME Structure, NEW p \in Pods, NEW path \in BOOLEAN, NEW err, NEW file \in {disk, mem},
           restoreAndRecord(p, path, err, file)
    PROVE  /\ nic' \in Nic
           /\ mem' \in [Pods -> Device] /\ SnapTaken(mem') /\ disk' \in {file, mem'}
           /\ \A q \in Pods : mem'[q].known = mem[q].known /\ mem'[q].snap = mem[q].snap
<1> USE DEF Structure
<1> DEFINE d == [mem[p] EXCEPT !.restored = TRUE, !.attached = FALSE]
           m == [mem EXCEPT ![p].restored = TRUE, ![p].attached = FALSE]
<1>1. mem \in [Pods -> Device] /\ d \in Device /\ d.known = mem[p].known /\ d.snap = mem[p].snap
  <2>1. mem \in [Pods -> Device] /\ mem[p] \in Device
    BY DEF TypeOK
  <2>2. QED
    BY <2>1, DeviceFlags, Zenon
<1>2. m = [mem EXCEPT ![p] = d]
  BY <1>1
<1>3. /\ m \in [Pods -> Device] /\ SnapTaken(m)
      /\ \A q \in Pods : m[q].known = mem[q].known /\ m[q].snap = mem[q].snap
  <2> HIDE DEF m, d
  <2>1. QED
    BY <1>1, <1>2, FlagsTyped
<1>4. /\ mem' = mem \/ mem' = m
      /\ disk' \in {file, mem'}
      /\ \/ nic' = nic
         \/ Restorable(p) /\ \E ok \in BOOLEAN : Restores(p, path, nic, nic', ok)
  BY Zenon DEF restoreAndRecord, Persist
<1> HIDE DEF m
<1>5. nic' \in Nic
  <2>1. nic \in Nic
    BY DEF TypeOK
  <2>2. Restorable(p) => HostDevice(p) /\ mem[p].known
    BY DEF Restorable
  <2>3. QED
    BY <1>4, <2>1, <2>2, RestoresTyped
<1>6. QED
  BY <1>1, <1>3, <1>4, <1>5

\* The store after a restore, or after nothing.
LEMMA RestoredKeeps ==
    ASSUME Structure, mem' \in [Pods -> Device], SnapTaken(mem'), disk' \in {disk, mem, mem'},
           \A q \in Pods : mem'[q].known = mem[q].known
    PROVE  /\ disk' \in [Pods -> Device] /\ SnapTaken(mem)' /\ SnapTaken(disk)'
           /\ \A q \in Pods : mem[q].known /\ disk[q].known => mem'[q].known /\ disk'[q].known
<1> USE DEF Structure
<1>1. disk' \in [Pods -> Device] /\ SnapTaken(mem)' /\ SnapTaken(disk)'
  BY DEF TypeOK, SnapTaken
<1>2. QED
  BY <1>1

LEMMA reportRestoredTyped ==
    ASSUME Structure, NEW p \in Pods, NEW err, reportRestored(p, err)
    PROVE  ready' \in [Pods -> BOOLEAN]
  BY reportNotReadyTyped DEF Structure, TypeOK, reportRestored

LEMMA publishTyped ==
    ASSUME NEW x, NEW m, publish(x, m)
    PROVE  published' \in BOOLEAN
  BY DEF publish

LEMMA EventTyped ==
    ASSUME Structure, NEW p \in Pods, NEW path \in BOOLEAN, restorePodHostDevices(p, path)
    PROVE  /\ nic' \in Nic /\ mem' \in [Pods -> Device] /\ disk' \in [Pods -> Device]
           /\ ready' \in [Pods -> BOOLEAN] /\ published' \in BOOLEAN
           /\ SnapTaken(mem)' /\ SnapTaken(disk)'
           /\ \A q \in Pods : mem[q].known /\ disk[q].known => mem'[q].known /\ disk'[q].known
           /\ UNCHANGED <<child, up, crashes, synced, nri, dra, made, pod, owner>>
<1>1. UNCHANGED <<child, up, crashes, synced, nri, dra, made, pod, owner>>
  BY DEF restorePodHostDevices
<1>2. CASE UNCHANGED <<nic, store, ready, published>>
  BY <1>1, <1>2 DEF store, Structure, TypeOK, SnapTaken
<1>3. ASSUME NEW err \in RestoreErrors, restoreAndRecord(p, path, err, disk),
             reportRestored(p, err), publish(nic', mem')
      PROVE  /\ nic' \in Nic /\ mem' \in [Pods -> Device] /\ disk' \in [Pods -> Device]
             /\ ready' \in [Pods -> BOOLEAN] /\ published' \in BOOLEAN
             /\ SnapTaken(mem)' /\ SnapTaken(disk)'
             /\ \A q \in Pods : mem[q].known /\ disk[q].known => mem'[q].known /\ disk'[q].known
  <2>1. /\ nic' \in Nic
        /\ mem' \in [Pods -> Device] /\ SnapTaken(mem') /\ disk' \in {disk, mem'}
        /\ \A q \in Pods : mem'[q].known = mem[q].known /\ mem'[q].snap = mem[q].snap
    BY <1>3, RestoreTyped
  <2>2. QED
    BY <1>3, <2>1, RestoredKeeps, reportRestoredTyped, publishTyped
<1>4. QED
  BY <1>1, <1>2, <1>3 DEF restorePodHostDevices

LEMMA StopPodSandboxKeeps ==
    ASSUME Structure, NEW p \in Pods, StopPodSandbox(p), History
    PROVE  Structure'
<1> USE DEF Structure
<1>1. /\ nic' \in Nic /\ mem' \in [Pods -> Device] /\ disk' \in [Pods -> Device]
      /\ ready' \in [Pods -> BOOLEAN] /\ published' \in BOOLEAN
      /\ SnapTaken(mem)' /\ SnapTaken(disk)'
      /\ \A q \in Pods : mem[q].known /\ disk[q].known => mem'[q].known /\ disk'[q].known
      /\ UNCHANGED <<child, up, crashes, synced, nri, dra, made, pod, owner>>
  BY EventTyped DEF StopPodSandbox
<1>2. /\ sandbox[p] = "stopping" /\ sandbox' = [sandbox EXCEPT ![p] = "stopped"]
      /\ dead' = dead
  BY DEF StopPodSandbox
<1>3. TypeOK'
  BY <1>1, <1>2 DEF TypeOK, History
<1>4. IdleHandlers' /\ \A h \in Handlers : Handled(h)'
  BY <1>1, <1>2 DEF Handled, IdleHandlers, TypeOK
<1>5. SandboxesCounted' /\ SandboxesKnown' /\ Unpreparing'
  BY <1>1, <1>2 DEF SandboxesCounted, SandboxesKnown, Unpreparing, TypeOK
<1>6. QED
  BY <1>1, <1>3, <1>4, <1>5

LEMMA RemovePodSandboxKeeps ==
    ASSUME Structure, NEW p \in Pods, RemovePodSandbox(p), History
    PROVE  Structure'
<1> USE DEF Structure
<1>1. /\ nic' \in Nic /\ mem' \in [Pods -> Device] /\ disk' \in [Pods -> Device]
      /\ ready' \in [Pods -> BOOLEAN] /\ published' \in BOOLEAN
      /\ SnapTaken(mem)' /\ SnapTaken(disk)'
      /\ \A q \in Pods : mem[q].known /\ disk[q].known => mem'[q].known /\ disk'[q].known
      /\ UNCHANGED <<child, up, crashes, synced, nri, dra, made, pod, owner>>
  BY EventTyped DEF RemovePodSandbox
<1>2. dead[p] > 0 /\ dead' = [dead EXCEPT ![p] = @ - 1] /\ sandbox' = sandbox
  BY DEF RemovePodSandbox
<1>3. dead' \in [Pods -> 0 .. MaxSandboxes] /\ SandboxesCounted'
  BY <1>1, <1>2, PodNetworkAssumption DEF SandboxesCounted, TypeOK
<1>4. TypeOK'
  BY <1>1, <1>2, <1>3 DEF TypeOK, History
<1>5. IdleHandlers' /\ \A h \in Handlers : Handled(h)'
  BY <1>1, <1>2 DEF Handled, IdleHandlers
<1>6. SandboxesKnown' /\ Unpreparing'
  BY <1>1, <1>2 DEF SandboxesKnown, Unpreparing
<1>7. QED
  BY <1>1, <1>3, <1>4, <1>5, <1>6

LEMMA UnprepareRestoreKeeps ==
    ASSUME Structure, NEW p \in Pods, UnprepareRestore(p), History
    PROVE  Structure'
<1> USE DEF Structure
<1>1. PICK err \in RestoreErrors :
        /\ restoreAndRecord(p, TRUE, err, disk) /\ reportRestored(p, err)
        /\ dra' = IF err = "none" THEN p ELSE None
  BY DEF UnprepareRestore
<1>2. /\ up /\ pod[p] = "terminating" /\ sandbox[p] = "none" /\ publish(nic', mem')
      /\ UNCHANGED <<child, up, crashes, synced, nri, sandbox, made, dead, pod, owner>>
  BY DEF UnprepareRestore, cluster
<1>3. /\ nic' \in Nic
      /\ mem' \in [Pods -> Device] /\ SnapTaken(mem') /\ disk' \in {disk, mem'}
      /\ \A q \in Pods : mem'[q].known = mem[q].known /\ mem'[q].snap = mem[q].snap
  BY <1>1, RestoreTyped
<1>4. /\ disk' \in [Pods -> Device] /\ SnapTaken(mem)' /\ SnapTaken(disk)'
      /\ \A q \in Pods : mem[q].known /\ disk[q].known => mem'[q].known /\ disk'[q].known
      /\ ready' \in [Pods -> BOOLEAN] /\ published' \in BOOLEAN
  BY <1>1, <1>2, <1>3, RestoredKeeps, reportRestoredTyped, publishTyped
<1>5. TypeOK'
  BY <1>1, <1>2, <1>3, <1>4 DEF TypeOK, History
<1>6. IdleHandlers' /\ (\A h \in Handlers : Handled(h)') /\ SandboxesCounted'
  BY <1>2 DEF Handled, IdleHandlers, SandboxesCounted
<1>7. SandboxesKnown' /\ Unpreparing'
  BY <1>1, <1>2, <1>4 DEF SandboxesKnown, Unpreparing
<1>8. QED
  BY <1>4, <1>5, <1>6, <1>7

LEMMA UnprepareForgetKeeps ==
    ASSUME Structure, NEW p \in Pods, UnprepareForget(p), History
    PROVE  Structure'
<1> USE DEF Structure
<1> DEFINE m == [mem EXCEPT ![p] = NoDevice]
<1>1. /\ dra = p /\ dra' = None /\ pod[p] = "terminating" /\ sandbox[p] = "none"
      /\ UNCHANGED <<nic, child, up, crashes, synced, nri, published, sandbox, made, dead>>
  BY PodNetworkAssumption DEF UnprepareForget, Unpreparing
<1>2. /\ mem' = mem \/ mem' = m
      /\ disk' = disk \/ disk' = m
      /\ pod' = pod \/ pod' = [pod EXCEPT ![p] = "done"]
      /\ owner' = owner \/ owner' = None
      /\ reportNotReady(p) \/ ready' = [ready EXCEPT ![p] = FALSE]
  BY DEF UnprepareForget, store, Persist, PersistFails
<1>3. m \in [Pods -> Device] /\ SnapTaken(m) /\ \A q \in Pods \ {p} : m[q] = mem[q]
  <2>1. NoDevice \in Device /\ ~NoDevice.known
    BY DEF NoDevice, Device
  <2>2. QED
    BY <2>1, StoreTyped DEF TypeOK
<1> HIDE DEF m
<1>4. ready' \in [Pods -> BOOLEAN]
  BY <1>2, reportNotReadyTyped DEF TypeOK
<1>5. TypeOK'
  BY <1>1, <1>2, <1>3, <1>4 DEF TypeOK, History
<1>6. SnapTaken(mem)' /\ SnapTaken(disk)'
  BY <1>2, <1>3 DEF SnapTaken
<1>7. IdleHandlers' /\ (\A h \in Handlers : Handled(h)') /\ SandboxesCounted'
  BY <1>1 DEF Handled, IdleHandlers, SandboxesCounted
<1>8. SandboxesKnown'
  BY <1>1, <1>2, <1>3 DEF SandboxesKnown, TypeOK
<1>9. Unpreparing'
  BY <1>1 DEF Unpreparing
<1>10. QED
  BY <1>5, <1>6, <1>7, <1>8, <1>9

-----------------------------------------------------------------------------
(* Structure is kept: the process and its connection.                      *)

LEMMA TickKeeps ==
    ASSUME Structure, publishTick, History
    PROVE  Structure'
<1> USE DEF Structure, publishTick, store, cluster
<1>1. TypeOK'
  BY publishTyped DEF TypeOK, History
<1>2. SnapTaken(mem)' /\ SnapTaken(disk)' /\ IdleHandlers' /\ SandboxesCounted'
  BY DEF SnapTaken, IdleHandlers, SandboxesCounted
<1>3. (\A h \in Handlers : Handled(h)') /\ SandboxesKnown' /\ Unpreparing'
  BY DEF Handled, SandboxesKnown, Unpreparing
<1>4. QED
  BY <1>1, <1>2, <1>3

LEMMA CrashKeeps ==
    ASSUME Structure, Crash, History
    PROVE  Structure'
<1> USE DEF Structure, store
<1>1. /\ nri' = [h \in Handlers |-> NriIdle] /\ nic' = Close(nic) /\ dra' = None
      /\ up' = FALSE /\ synced' = FALSE /\ crashes < MaxCrashes /\ crashes' = crashes + 1
      /\ UNCHANGED <<child, mem, disk, published, ready, made, dead, pod, owner>>
  BY DEF Crash
<1>2. \/ sandbox' = sandbox
      \/ \E p \in Pods, s \in {"running", "stopping", "failed"} :
           sandbox[p] = "creating" /\ sandbox' = [sandbox EXCEPT ![p] = s]
  BY DEF Crash, IdleHandlers, Handled, Handlers
<1>3. TypeOK'
  <2>1. nri' \in [Handlers -> Working]
    BY <1>1, PodNetworkAssumption DEF NriIdle, Working
  <2>2. nic' \in Nic
    BY <1>1, CloseTyped DEF TypeOK
  <2>3. sandbox' \in [Pods -> {"none", "creating", "running", "stopping", "failed", "stopped"}]
    BY <1>2 DEF TypeOK
  <2>4. crashes' \in 0 .. MaxCrashes
    BY <1>1, PodNetworkAssumption DEF TypeOK
  <2>5. QED
    BY <1>1, <2>1, <2>2, <2>3, <2>4 DEF TypeOK, History, Working
<1>4. SnapTaken(mem)' /\ SnapTaken(disk)' /\ IdleHandlers'
  BY <1>1 DEF SnapTaken, IdleHandlers
<1>5. \A h \in Handlers : Handled(h)'
  BY <1>1 DEF Handled, NriIdle
<1>6. SandboxesCounted' /\ SandboxesKnown' /\ Unpreparing'
  BY <1>1, <1>2 DEF SandboxesCounted, SandboxesKnown, Unpreparing, TypeOK
<1>7. QED
  BY <1>3, <1>4, <1>5, <1>6

LEMMA StartKeeps ==
    ASSUME Structure, Start, History
    PROVE  Structure'
<1> USE DEF Structure, Start, cluster
<1>1. TypeOK'
  BY publishTyped DEF TypeOK, History
<1>2. SnapTaken(mem)' /\ SnapTaken(disk)' /\ IdleHandlers' /\ SandboxesCounted'
  BY DEF SnapTaken, IdleHandlers, SandboxesCounted
<1>3. (\A h \in Handlers : Handled(h)') /\ SandboxesKnown' /\ Unpreparing'
  BY DEF Handled, SandboxesKnown, Unpreparing
<1>4. QED
  BY <1>1, <1>2, <1>3

LEMMA DisconnectKeeps ==
    ASSUME Structure, Disconnect, History
    PROVE  Structure'
<1> USE DEF Structure, Disconnect, store, cluster
<1>1. TypeOK'
  BY DEF TypeOK, History
<1>2. SnapTaken(mem)' /\ SnapTaken(disk)' /\ IdleHandlers' /\ SandboxesCounted'
  BY DEF SnapTaken, IdleHandlers, SandboxesCounted
<1>3. (\A h \in Handlers : Handled(h)') /\ SandboxesKnown' /\ Unpreparing'
  BY DEF Handled, SandboxesKnown, Unpreparing, NriIdle
<1>4. QED
  BY <1>1, <1>2, <1>3

LEMMA SynchronizeKeeps ==
    ASSUME Structure, Synchronize, History
    PROVE  Structure'
<1> USE DEF Structure
<1>1. /\ up /\ ~synced /\ synced' \in BOOLEAN /\ (publish(nic', mem') \/ UNCHANGED published)
      /\ UNCHANGED <<child, up, crashes, nri, dra, ready, sandbox, made, dead, pod, owner>>
  BY DEF Synchronize, cluster
<1>2. PICK file \in {disk, mem} :
        \/ Orphans = {} /\ mem' = mem /\ disk' = file /\ synced' = TRUE /\ UNCHANGED nic
        \/ \E p \in Orphans, err \in RestoreErrors :
             restoreAndRecord(p, FALSE, err, file) /\ synced' = (err # "persist")
  BY DEF Synchronize
<1>3. /\ nic' \in Nic
      /\ mem' \in [Pods -> Device] /\ SnapTaken(mem') /\ disk' \in {disk, mem, mem'}
      /\ \A q \in Pods : mem'[q].known = mem[q].known
  <2>1. CASE mem' = mem /\ disk' = file /\ UNCHANGED nic
    BY <2>1 DEF TypeOK
  <2>2. ASSUME NEW p \in Orphans, NEW err \in RestoreErrors,
               restoreAndRecord(p, FALSE, err, file)
        PROVE  /\ nic' \in Nic
               /\ mem' \in [Pods -> Device] /\ SnapTaken(mem') /\ disk' \in {disk, mem, mem'}
               /\ \A q \in Pods : mem'[q].known = mem[q].known
    <3>1. p \in Pods
      BY DEF Orphans
    <3>2. QED
      BY <2>2, <3>1, RestoreTyped
  <2>3. QED
    BY <1>2, <2>1, <2>2
<1>4. /\ disk' \in [Pods -> Device] /\ SnapTaken(mem)' /\ SnapTaken(disk)'
      /\ \A q \in Pods : mem[q].known /\ disk[q].known => mem'[q].known /\ disk'[q].known
      /\ published' \in BOOLEAN
  BY <1>1, <1>3, RestoredKeeps, publishTyped DEF TypeOK
<1>5. TypeOK'
  BY <1>1, <1>3, <1>4 DEF TypeOK, History
<1>6. IdleHandlers' /\ (\A h \in Handlers : Handled(h)') /\ SandboxesCounted'
  BY <1>1 DEF Handled, IdleHandlers, SandboxesCounted
<1>7. SandboxesKnown' /\ Unpreparing'
  BY <1>1, <1>4 DEF SandboxesKnown, Unpreparing
<1>8. QED
  BY <1>4, <1>5, <1>6, <1>7

LEMMA StructureKept == Structure /\ [Next]_vars => Structure'
<1> SUFFICES ASSUME Structure, [Next]_vars PROVE Structure'
  OBVIOUS
<1>1. ASSUME NEW p \in Pods, PodStep(p), History PROVE Structure'
  BY <1>1, ScheduleKeeps, CreateKeeps, StopKeeps, TearDownKeeps, DeleteKeeps, RunMissedKeeps,
     TimeoutKeeps, EventMissedKeeps DEF PodStep
<1>2. ASSUME NEW p \in Pods, DriverStep(p), History PROVE Structure'
  BY <1>2, PrepareKeeps, UnprepareRestoreKeeps, UnprepareForgetKeeps, RunPodSandboxKeeps,
     ReportKeeps, StopPodSandboxKeeps, RemovePodSandboxKeeps, AttachLinkKeeps, AttachMoveKeeps,
     AttachConfigureKeeps DEF DriverStep
<1>3. ASSUME publishTick \/ Crash \/ Start \/ Disconnect \/ Synchronize, History PROVE Structure'
  BY <1>3, TickKeeps, CrashKeeps, StartKeeps, DisconnectKeeps, SynchronizeKeeps
<1>4. CASE UNCHANGED vars
  <2> USE <1>4 DEF vars, system, Structure
  <2>1. TypeOK' /\ SnapTaken(mem)' /\ SnapTaken(disk)' /\ IdleHandlers' /\ SandboxesCounted'
    BY DEF TypeOK, SnapTaken, IdleHandlers, SandboxesCounted
  <2>2. (\A h \in Handlers : Handled(h)') /\ SandboxesKnown' /\ Unpreparing'
    BY DEF Handled, SandboxesKnown, Unpreparing
  <2>3. QED
    BY <2>1, <2>2
<1>5. QED
  BY <1>1, <1>2, <1>3, <1>4 DEF Next

LEMMA StructureInit == Init => Structure
<1> SUFFICES ASSUME Init PROVE Structure
  OBVIOUS
<1> USE DEF Init
<1>1. TypeOK
  <2>1. nic \in Nic /\ NoDevice \in Device
    BY DEF Home, Nic, NoDevice, Device
  <2>2. nri \in [Handlers -> Working]
    BY PodNetworkAssumption DEF NriIdle, Working
  <2>3. mem \in [Pods -> Device] /\ disk \in [Pods -> Device]
    BY <2>1
  <2>4. /\ crashes \in 0 .. MaxCrashes
        /\ made \in [Pods -> 0 .. MaxSandboxes] /\ dead \in [Pods -> 0 .. MaxSandboxes]
    BY PodNetworkAssumption
  <2>5. ready \in [Pods -> BOOLEAN]
    OBVIOUS
  <2>6. QED
    BY <2>1, <2>2, <2>3, <2>4, <2>5 DEF TypeOK, Working
<1>2. SnapTaken(mem) /\ SnapTaken(disk) /\ IdleHandlers /\ SandboxesCounted
  BY DEF SnapTaken, NoDevice, IdleHandlers, SandboxesCounted
<1>3. (\A h \in Handlers : Handled(h)) /\ SandboxesKnown /\ Unpreparing
  BY DEF Handled, NriIdle, SandboxesKnown, Unpreparing
<1>4. QED
  BY <1>1, <1>2, <1>3 DEF Structure

\* The variables of PodNetwork keep their types: the NIC is always somewhere,
\* under one of its names, and no more sandboxes are dead than were made.
THEOREM NetworkTyped == Spec => []TypeOK
<1>1. Structure => TypeOK
  BY DEF Structure
<1>2. QED
  BY <1>1, StructureInit, StructureKept, PTL DEF Spec

\* The devices of a prepared Pod are in the state file and in the store of a
\* driver that runs: whatever fails, RunPodSandbox never takes the Pod for one
\* without devices.
THEOREM PodsKnown == Spec => []PreparedKnown
<1>1. Structure => PreparedKnown
  BY DEF Structure, SandboxesKnown, PreparedKnown
<1>2. QED
  BY <1>1, StructureInit, StructureKept, PTL DEF Spec

-----------------------------------------------------------------------------
(* The NIC has one owner.                                                  *)

LEMMA OwnerKept ==
    ASSUME Structure, OwnerHolds, [Next]_vars
    PROVE  OwnerHolds'
<1>1. ASSUME UNCHANGED <<pod, owner>> PROVE OwnerHolds'
  BY <1>1 DEF OwnerHolds
<1>2. ASSUME NEW p \in Pods, Schedule(p) PROVE OwnerHolds'
  BY <1>2, PodNetworkAssumption DEF Schedule, OwnerHolds, Structure, TypeOK
<1>3. ASSUME NEW p \in Pods, DeletePod(p) PROVE OwnerHolds'
  BY <1>3 DEF DeletePod, OwnerHolds, Structure, TypeOK
<1>4. ASSUME NEW p \in Pods, prepareClaim(p) PROVE OwnerHolds'
  <2>1. /\ pod[p] \in {"preparing", "prepared"} /\ owner' = owner
        /\ pod' = pod \/ pod' = [pod EXCEPT ![p] = "prepared"]
    BY <1>4 DEF prepareClaim
  <2>2. QED
    BY <2>1 DEF OwnerHolds, Structure, TypeOK
<1>5. ASSUME NEW p \in Pods, UnprepareForget(p) PROVE OwnerHolds'
  <2>1. \/ UNCHANGED <<pod, owner>>
        \/ /\ pod' = [pod EXCEPT ![p] = "done"]
           /\ owner' = IF owner = p THEN None ELSE owner
    BY <1>5 DEF UnprepareForget
  <2>2. QED
    BY <1>1, <2>1 DEF OwnerHolds, Structure, TypeOK
<1>6. ASSUME NEW p \in Pods, PodStep(p) PROVE OwnerHolds'
  <2>1. Schedule(p) \/ DeletePod(p) \/ UNCHANGED <<pod, owner>>
    BY <1>6 DEF PodStep, CreateSandbox, StopSandbox, TearDown, RunMissed, RunTimeout, EventMissed
  <2>2. QED
    BY <2>1, <1>1, <1>2, <1>3
<1>7. ASSUME NEW p \in Pods, DriverStep(p) PROVE OwnerHolds'
  <2>1. prepareClaim(p) \/ UnprepareForget(p) \/ UNCHANGED <<pod, owner>>
    BY <1>7 DEF DriverStep, UnprepareRestore, RunPodSandbox, reportAttached, StopPodSandbox,
                RemovePodSandbox, restorePodHostDevices, attachLink, attachMove, attachConfigure,
                cluster
  <2>2. QED
    BY <2>1, <1>1, <1>4, <1>5
<1>8. ASSUME publishTick \/ Crash \/ Start \/ Disconnect \/ Synchronize PROVE UNCHANGED <<pod, owner>>
  BY <1>8 DEF publishTick, Crash, Start, Disconnect, Synchronize, cluster
<1>9. UNCHANGED vars => UNCHANGED <<pod, owner>>
  BY DEF vars, system
<1>10. QED
  BY <1>1, <1>6, <1>7, <1>8, <1>9 DEF Next

-----------------------------------------------------------------------------
(* What is recorded stays recorded.                                        *)

\* A step after which the NIC is still not exposed finds a record in the store
\* and in the file, or leaves the NIC in its original state.
LEMMA Unexposed ==
    ASSUME Structure, OwnerHolds, Kept, History, ~exposed'
    PROVE  /\ ~exposed /\ SnapshotsTrue /\ Snapshots /\ published
           /\ dra # None => ~Restorable(dra)
           /\ nic # Home("original") => Recorded(mem) /\ Recorded(disk)
           /\ nic' # Home("original") => Recorded(mem) /\ Recorded(disk)
           /\ owner = None => nic' = Home("original")
<1>1. /\ ~exposed
      /\ ~(nic = Home("original") /\ nic' # nic /\ ~(Recorded(mem) /\ Recorded(disk)))
  BY DEF History
<1>2. nic' # Home("original") => Recorded(mem) /\ Recorded(disk)
  BY <1>1 DEF Kept
<1>3. owner = None => ~Recorded(mem)
  BY PodNetworkAssumption DEF Recorded
<1>4. QED
  BY <1>1, <1>2, <1>3 DEF Kept

\* The record is the owner's: a store in which the owner's device is the same
\* holds it too.
LEMMA SameRecord ==
    ASSUME NEW m, NEW n, Recorded(m), n[owner] = m[owner]
    PROVE  Recorded(n)
  BY DEF Recorded

\* A slice that is built while there is a record, or the NIC is at home, lists it.
LEMMA PublishedKept ==
    ASSUME OwnerHolds, NEW x, NEW m, publish(x, m), x # Home("original") => Recorded(m)
    PROVE  published'
<1>1. CASE x = Home("original")
  BY <1>1 DEF publish, Home
<1>2. CASE x # Home("original")
  <2>1. PICK p \in Pods : owner = p /\ m[p].known /\ ~m[p].restored
    BY <1>2 DEF Recorded
  <2>2. HostDevice(p)
    BY <2>1, PodNetworkAssumption DEF OwnerHolds
  <2>3. QED
    BY <2>1, <2>2 DEF publish, storedInterface
<1>3. QED
  BY <1>1, <1>2

\* Every handler has the snapshot that it or another one had.
LEMMA SnapshotsKept ==
    ASSUME Snapshots,
           \A h \in Handlers : \/ nri'[h].pod \notin Pods
                               \/ \E g \in Handlers : /\ nri'[h].pod = nri[g].pod
                                                      /\ nri'[h].snap = nri[g].snap
    PROVE  Snapshots'
  BY DEF Snapshots

\* A step of the cluster, or of a handler that moves the NIC, leaves the store
\* alone.
LEMMA StoreUntouched ==
    ASSUME Structure, OwnerHolds, Kept, History, Snapshots => Snapshots',
           UNCHANGED <<mem, disk, owner, published>>, dra' \in {dra, None}
    PROVE  Kept'
<1> SUFFICES ASSUME ~exposed' PROVE Kept'
  BY DEF Kept
<1>1. /\ SnapshotsTrue /\ Snapshots /\ published
      /\ dra # None => ~Restorable(dra)
      /\ nic' # Home("original") => Recorded(mem) /\ Recorded(disk)
      /\ owner = None => nic' = Home("original")
  BY Unexposed
<1>2. /\ owner' = None => nic' = Home("original")
      /\ nic' # Home("original") => Recorded(mem)' /\ Recorded(disk)'
  BY <1>1 DEF Recorded
<1>3. SnapshotsTrue' /\ Snapshots' /\ published'
  BY <1>1 DEF SnapshotsTrue
<1>4. dra' # None => ~Restorable(dra)'
  BY <1>1 DEF Restorable
<1>5. QED
  BY <1>2, <1>3, <1>4 DEF Kept, Home

\* The handlers whose Pod and snapshot are as they were, or that are idle.
LEMMA HandlersKeepSnapshots ==
    ASSUME Structure, NEW h \in Handlers, NEW p \in Pods, RunFails(p, h) \/ Attached(h)
    PROVE  Snapshots => Snapshots'
<1>1. ASSUME NEW g \in Handlers
      PROVE  \/ nri'[g].pod \notin Pods
             \/ nri'[g].pod = nri[g].pod /\ nri'[g].snap = nri[g].snap
  <2>1. nri \in [Handlers -> Working] /\ NriIdle.pod \notin Pods
    BY PodNetworkAssumption DEF Structure, TypeOK, Working, NriIdle
  <2>2. nri'[g] = nri[g] \/ nri'[g] = NriIdle \/ nri'[g] = [nri[g] EXCEPT !.pc = "report"]
    BY <2>1 DEF RunFails, Attached
  <2>3. QED
    BY <2>1, <2>2 DEF Working
<1>2. QED
  BY <1>1, SnapshotsKept

LEMMA PodStepKept ==
    ASSUME Structure, OwnerHolds, Kept, NEW p \in Pods, PodStep(p), History
    PROVE  Kept'
<1>1. CASE Schedule(p)
  <2> SUFFICES ASSUME ~exposed' PROVE Kept'
    BY DEF Kept
  <2>1. UNCHANGED <<nic, mem, disk, nri, dra, published>> /\ (owner' = owner \/ owner = None)
    BY <1>1 DEF Schedule
  <2>2. /\ SnapshotsTrue /\ Snapshots /\ published
        /\ dra # None => ~Restorable(dra)
        /\ nic' # Home("original") => Recorded(mem) /\ Recorded(disk)
        /\ owner = None => nic' = Home("original")
    BY Unexposed
  <2>3. /\ owner' = None => nic' = Home("original")
        /\ nic' # Home("original") => Recorded(mem)' /\ Recorded(disk)'
    BY <2>1, <2>2, PodNetworkAssumption DEF Recorded
  <2>4. SnapshotsTrue' /\ Snapshots' /\ published' /\ (dra' # None => ~Restorable(dra)')
    BY <2>1, <2>2 DEF SnapshotsTrue, Snapshots, Restorable
  <2>5. QED
    BY <2>3, <2>4 DEF Kept, Home
<1>2. CASE RunTimeout(p)
  <2>1. UNCHANGED <<mem, disk, owner, published, dra>>
    BY <1>2 DEF RunTimeout, store
  <2>2. \A h \in Handlers : \/ nri'[h].pod \notin Pods
                            \/ \E g \in Handlers : /\ nri'[h].pod = nri[g].pod
                                                   /\ nri'[h].snap = nri[g].snap
    <3>1. nri \in [Handlers -> Working] /\ NriIdle.pod \notin Pods
      BY PodNetworkAssumption DEF Structure, TypeOK, Working, NriIdle
    <3>2. \A h \in Handlers : nri'[h] \in {nri["event"], nri[h], NriIdle}
      BY <1>2, <3>1 DEF RunTimeout, Handlers
    <3>3. "event" \in Handlers
      BY DEF Handlers
    <3>4. QED
      BY <3>1, <3>2, <3>3
  <2>3. QED
    BY <2>1, <2>2, SnapshotsKept, StoreUntouched
<1>3. CASE ~Schedule(p) /\ ~RunTimeout(p)
  <2>1. UNCHANGED <<mem, disk, owner, published, dra, nri>>
    BY <1>3 DEF PodStep, CreateSandbox, StopSandbox, TearDown, DeletePod, RunMissed, EventMissed,
                store
  <2>2. Snapshots => Snapshots'
    BY <2>1 DEF Snapshots
  <2>3. QED
    BY <2>1, <2>2, StoreUntouched
<1>4. QED
  BY <1>1, <1>2, <1>3

\* prepareClaim takes a snapshot only where there is no record, so the NIC is
\* in its original state then.
LEMMA PrepareKept ==
    ASSUME Structure, OwnerHolds, Kept, NEW p \in Pods, prepareClaim(p), History
    PROVE  Kept'
<1> SUFFICES ASSUME ~exposed' PROVE Kept'
  BY DEF Kept
<1> DEFINE m == [mem EXCEPT ![p] = PreparedDevice(p)]
<1>1. /\ mem' = m /\ disk' \in {disk, m}
      /\ pod[p] \in {"preparing", "prepared"}
      /\ UNCHANGED <<nic, nri, dra, published, owner>>
  BY DEF prepareClaim, Persist, PersistFails
<1>2. mem \in [Pods -> Device] /\ m[p] = PreparedDevice(p) /\ \A q \in Pods \ {p} : m[q] = mem[q]
  BY DEF Structure, TypeOK
<1>3. /\ SnapshotsTrue /\ Snapshots /\ published
      /\ dra # None => ~Restorable(dra)
      /\ nic' # Home("original") => Recorded(mem) /\ Recorded(disk)
      /\ owner = None => nic' = Home("original")
  BY Unexposed
<1>4. HostDevice(p) => owner = p
  BY <1>1 DEF OwnerHolds
<1> HIDE DEF m
<1>5. HostDevice(p) => m[p].snap # "altered"
  <2>1. CASE HostDevice(p) /\ mem[p].known
    BY <1>2, <1>3, <2>1 DEF PreparedDevice, SnapshotsTrue
  <2>2. CASE HostDevice(p) /\ ~mem[p].known
    <3>1. nic = Home("original")
      BY <1>1, <1>3, <1>4, <2>2 DEF Recorded
    <3>2. QED
      BY <1>2, <2>2, <3>1 DEF PreparedDevice, Home
  <2>3. QED
    BY <2>1, <2>2
<1>6. Recorded(mem) => Recorded(m)
  <2>1. CASE HostDevice(p)
    BY <1>2, <1>4, <2>1 DEF Recorded, PreparedDevice
  <2>2. CASE ~HostDevice(p)
    BY <1>2, <2>2, PodNetworkAssumption DEF Recorded, OwnerHolds
  <2>3. QED
    BY <2>1, <2>2
<1>7. /\ owner' = None => nic' = Home("original")
      /\ nic' # Home("original") => Recorded(mem)' /\ Recorded(disk)'
  BY <1>1, <1>3, <1>6 DEF Recorded
<1>8. SnapshotsTrue'
  BY <1>1, <1>2, <1>3, <1>5 DEF SnapshotsTrue
<1>9. Snapshots' /\ published'
  BY <1>1, <1>3 DEF Snapshots
<1>10. dra' # None => ~Restorable(dra)'
  <2>1. dra # None => dra \in Pods \ {p}
    BY <1>1 DEF Structure, TypeOK, Unpreparing
  <2>2. QED
    BY <1>1, <1>2, <1>3, <2>1 DEF Restorable
<1>11. QED
  BY <1>7, <1>8, <1>9, <1>10 DEF Kept, Home

LEMMA RunPodSandboxKept ==
    ASSUME Structure, OwnerHolds, Kept, NEW p \in Pods, RunPodSandbox(p), History
    PROVE  Kept'
<1> SUFFICES ASSUME ~exposed' PROVE Kept'
  BY DEF Kept
<1>1. mem' = mem /\ disk' \in {disk, mem} /\ UNCHANGED <<nic, dra, published, owner>>
  BY DEF RunPodSandbox, Persist, PersistFails
<1>2. /\ SnapshotsTrue /\ Snapshots /\ published
      /\ dra # None => ~Restorable(dra)
      /\ nic' # Home("original") => Recorded(mem) /\ Recorded(disk)
      /\ owner = None => nic' = Home("original")
  BY Unexposed
<1>3. /\ owner' = None => nic' = Home("original")
      /\ nic' # Home("original") => Recorded(mem)' /\ Recorded(disk)'
  BY <1>1, <1>2 DEF Recorded
<1>4. SnapshotsTrue' /\ published' /\ (dra' # None => ~Restorable(dra)')
  BY <1>1, <1>2 DEF SnapshotsTrue, Restorable
<1>5. Snapshots'
  <2>1. CASE RunFails(p, "event")
    BY <1>2, <2>1, HandlersKeepSnapshots DEF Handlers
  <2>2. CASE ~RunFails(p, "event")
    <3>1. nri' = [nri EXCEPT !["event"] =
                    [pc |-> IF mem[p].attached THEN "report" ELSE "attach", pod |-> p,
                     sandbox |-> made[p], snap |-> mem[p].snap]]
      BY <2>2 DEF RunPodSandbox
    <3>2. \A h \in Handlers : nri'[h] = nri[h] \/ (nri'[h].pod = p /\ nri'[h].snap = mem[p].snap)
      BY <3>1 DEF Structure, TypeOK
    <3>3. QED
      BY <1>2, <3>2 DEF Snapshots, SnapshotsTrue
  <2>3. QED
    BY <2>1, <2>2
<1>6. QED
  BY <1>3, <1>4, <1>5 DEF Kept, Home

LEMMA AttachLinkKept ==
    ASSUME Structure, OwnerHolds, Kept, NEW p \in Pods, NEW h \in Handlers, attachLink(p, h), History
    PROVE  Kept'
<1> SUFFICES ASSUME ~exposed' PROVE Kept'
  BY DEF Kept
<1> DEFINE m == [mem EXCEPT ![p].attached = TRUE]
<1>1. /\ RunFails(p, h) \/ Attached(h)
      /\ mem' \in {mem, m} /\ disk' \in {disk, mem'}
      /\ UNCHANGED <<nic, dra, published, owner>>
  BY DEF attachLink, AttachFails, Persist, PersistFails, store
<1>2. \A q \in Pods \ {p} : m[q] = mem[q]
  BY DEF Structure, TypeOK
<1> HIDE DEF m
<1>3. ~HostDevice(p)
  BY DEF attachLink
<1>4. /\ SnapshotsTrue /\ Snapshots /\ published
      /\ dra # None => ~Restorable(dra)
      /\ nic' # Home("original") => Recorded(mem) /\ Recorded(disk)
      /\ owner = None => nic' = Home("original")
  BY Unexposed
<1>5. Recorded(mem) => Recorded(m)
  BY <1>2, <1>3, PodNetworkAssumption DEF Recorded, OwnerHolds
<1>6. /\ owner' = None => nic' = Home("original")
      /\ nic' # Home("original") => Recorded(mem)' /\ Recorded(disk)'
  BY <1>1, <1>4, <1>5 DEF Recorded
<1>7. SnapshotsTrue' /\ published'
  BY <1>1, <1>2, <1>3, <1>4 DEF SnapshotsTrue
<1>8. dra' # None => ~Restorable(dra)'
  BY <1>1, <1>2, <1>3, <1>4 DEF Restorable, Structure, TypeOK
<1>9. Snapshots'
  BY <1>1, <1>4, HandlersKeepSnapshots
<1>10. QED
  BY <1>6, <1>7, <1>8, <1>9 DEF Kept, Home

LEMMA AttachMoveKept ==
    ASSUME Structure, OwnerHolds, Kept, NEW p \in Pods, NEW h \in Handlers, attachMove(p, h), History
    PROVE  Kept'
<1>1. UNCHANGED <<mem, disk, owner, published, dra>>
  BY DEF attachMove, store
<1>2. Snapshots => Snapshots'
  <2>1. CASE RunFails(p, h)
    BY <2>1, HandlersKeepSnapshots
  <2>2. CASE ~RunFails(p, h)
    <3>1. nri' = [nri EXCEPT ![h].pc = "configure"]
      BY <2>2 DEF attachMove, AttachFails
    <3>2. \A g \in Handlers : nri'[g].pod = nri[g].pod /\ nri'[g].snap = nri[g].snap
      BY <3>1 DEF Structure, TypeOK
    <3>3. QED
      BY <3>2, SnapshotsKept
  <2>3. QED
    BY <2>1, <2>2
<1>3. QED
  BY <1>1, <1>2, StoreUntouched

\* The NIC is put where a snapshot says.
LEMMA RestoresHome ==
    ASSUME Structure, SnapshotsTrue, NEW p \in Pods, HostDevice(p), mem[p].known,
           NEW path, NEW x, NEW y, Restores(p, path, x, y, TRUE)
    PROVE  y = Home("original")
<1>1. mem[p].snap = "original"
  BY SnapIs DEF SnapshotsTrue
<1>2. QED
  BY <1>1 DEF Restores

\* attachConfigure writes the record of its Pod anew, from the snapshot of the
\* handler; its rollback marks the device restored only when the NIC is home.
LEMMA AttachConfigureKept ==
    ASSUME Structure, OwnerHolds, Kept, NEW p \in Pods, NEW h \in Handlers, attachConfigure(p, h),
           History
    PROVE  Kept'
<1> SUFFICES ASSUME ~exposed' PROVE Kept'
  BY DEF Kept
<1> DEFINE done == [known |-> TRUE, snap |-> nri[h].snap, restored |-> FALSE, attached |-> TRUE]
           m == [mem EXCEPT ![p] = done]
           inside == nic.ns = "detached" \/ (nic.ns = p /\ PathAlive(h))
           restored == mem[p].known => mem[p].restored
<1>1. /\ nri[h].pc = "configure" /\ nri[h].pod = p /\ HostDevice(p)
      /\ nri[h].snap # "none" /\ nri[h].snap \in {"original", "altered", "none"}
  BY DEF attachConfigure, Handling, Structure, Handled, TypeOK
<1>2. UNCHANGED <<dra, published, owner>>
  BY DEF attachConfigure
<1>3. /\ SnapshotsTrue /\ Snapshots /\ published
      /\ dra # None => ~Restorable(dra)
      /\ nic # Home("original") => Recorded(mem) /\ Recorded(disk)
      /\ nic' # Home("original") => Recorded(mem) /\ Recorded(disk)
      /\ owner = None => nic' = Home("original")
  BY Unexposed
<1>4. mem \in [Pods -> Device]
  BY DEF Structure, TypeOK
<1>5. dra = p => owner = p /\ restored
  BY <1>1, <1>3, PodNetworkAssumption DEF OwnerHolds, Structure, Unpreparing, Restorable
<1>6. \/ /\ inside /\ mem' = m /\ disk' \in {disk, m}
         /\ RunFails(p, h) \/ Attached(h)
      \/ /\ mem' = mem /\ disk' = disk /\ RunFails(p, h)
      \/ /\ ~restored /\ disk' = disk /\ RunFails(p, h)
         /\ \E ok \in BOOLEAN, x, y \in Nic :
              /\ Restores(p, PathAlive(h), x, y, ok)
              /\ nic' = Close(y)
              /\ mem' = [mem EXCEPT ![p].restored = ok]
  <2>1. \A name \in {nic.name, "pod"} : [nic EXCEPT !.name = name] \in Nic
    BY DEF Structure, TypeOK, Nic
  <2>2. \/ /\ inside
           /\ \/ Persist(m) /\ Attached(h)
              \/ PersistFails(m) /\ RunFails(p, h)
        \/ /\ AttachFails(p, h) /\ disk' = disk
           /\ \E name \in {nic.name, "pod"} :
               LET x == [nic EXCEPT !.name = name] IN
               \/ mem' = mem
               \/ /\ ~restored
                  /\ \E ok \in BOOLEAN, y \in Nic :
                       /\ Restores(p, PathAlive(h), x, y, ok)
                       /\ nic' = Close(y)
                       /\ mem' = [mem EXCEPT ![p].restored = ok]
    BY Zenon DEF attachConfigure
  <2> HIDE DEF m, inside, restored
  <2>3. CASE inside /\ ((Persist(m) /\ Attached(h)) \/ (PersistFails(m) /\ RunFails(p, h)))
    BY <2>3 DEF Persist, PersistFails
  <2>4. CASE /\ AttachFails(p, h) /\ disk' = disk
             /\ \E name \in {nic.name, "pod"} :
                 LET x == [nic EXCEPT !.name = name] IN
                 \/ mem' = mem
                 \/ /\ ~restored
                    /\ \E ok \in BOOLEAN, y \in Nic :
                         /\ Restores(p, PathAlive(h), x, y, ok)
                         /\ nic' = Close(y)
                         /\ mem' = [mem EXCEPT ![p].restored = ok]
    BY <2>1, <2>4, Zenon DEF AttachFails
  <2>5. QED
    BY <2>2, <2>3, <2>4
<1>7. Snapshots'
  <2>1. RunFails(p, h) \/ Attached(h)
    BY <1>6
  <2>2. QED
    BY <1>3, <2>1, HandlersKeepSnapshots
<1>8. CASE inside /\ mem' = m /\ disk' \in {disk, m}
  <2>1. m[p] = done /\ \A q \in Pods \ {p} : m[q] = mem[q]
    BY <1>4
  <2>2. done.snap = "original" /\ done.known /\ ~done.restored
    BY <1>1, <1>3 DEF Snapshots
  <2> HIDE DEF m, done
  <2>3. nic # Home("original")
    BY <1>8, PodNetworkAssumption DEF Home
  <2>4. PICK q \in Pods : owner = q /\ mem[q].known /\ ~mem[q].restored /\ mem[q].snap = "original"
    BY <1>3, <2>3 DEF Recorded
  <2>5. Recorded(m)
    BY <2>1, <2>2, <2>4 DEF Recorded
  <2>6. /\ owner' = None => nic' = Home("original")
        /\ nic' # Home("original") => Recorded(mem)' /\ Recorded(disk)'
    BY <1>2, <1>3, <1>8, <2>3, <2>5 DEF Recorded
  <2>7. SnapshotsTrue'
    BY <1>3, <1>8, <2>1, <2>2 DEF SnapshotsTrue
  <2>8. dra # p
    BY <1>5, <2>4
  <2>9. dra' # None => ~Restorable(dra)'
    <3>1. dra # None => dra \in Pods \ {p}
      BY <2>8 DEF Structure, TypeOK
    <3>2. QED
      BY <1>2, <1>3, <1>8, <2>1, <3>1 DEF Restorable
  <2>10. QED
    BY <1>2, <1>3, <1>7, <2>6, <2>7, <2>9 DEF Kept, Home
<1>9. CASE mem' = mem /\ disk' = disk
  BY <1>2, <1>3, <1>7, <1>9, StoreUntouched
<1>10. ASSUME ~restored, disk' = disk, NEW ok \in BOOLEAN, NEW x \in Nic, NEW y \in Nic,
              Restores(p, PathAlive(h), x, y, ok), nic' = Close(y),
              mem' = [mem EXCEPT ![p].restored = ok]
       PROVE  Kept'
  <2> DEFINE d == [mem[p] EXCEPT !.restored = ok]
  <2>1. mem[p].known /\ ~mem[p].restored /\ dra # p
    BY <1>5, <1>10
  <2>2. mem'[p] = d /\ \A q \in Pods \ {p} : mem'[q] = mem[q]
    BY <1>4, <1>10
  <2>3. d.known = mem[p].known /\ d.snap = mem[p].snap /\ d.restored = ok
    <3>1. mem[p] \in Device /\ ok \in BOOLEAN
      BY <1>4
    <3>2. QED
      BY <3>1, RestoredFlag, Zenon
  <2> HIDE DEF d
  <2>4. ok => nic' = Home("original")
    <3>1. ok => y = Home("original")
      BY <1>1, <1>3, <1>10, <2>1, RestoresHome
    <3>2. QED
      BY <1>10, <3>1 DEF Close, Home
  <2>5. ~ok /\ Recorded(mem) => Recorded(mem')
    BY <2>1, <2>2, <2>3 DEF Recorded
  <2>6. /\ owner' = None => nic' = Home("original")
        /\ nic' # Home("original") => Recorded(mem)' /\ Recorded(disk)'
    BY <1>2, <1>3, <1>10, <2>4, <2>5 DEF Recorded
  <2>7. SnapshotsTrue'
    BY <1>3, <1>10, <2>2, <2>3 DEF SnapshotsTrue
  <2>8. dra' # None => ~Restorable(dra)'
    <3>1. dra # None => dra \in Pods \ {p}
      BY <2>1 DEF Structure, TypeOK
    <3>2. QED
      BY <1>2, <1>3, <2>2, <3>1 DEF Restorable
  <2>9. QED
    BY <1>2, <1>3, <1>7, <2>6, <2>7, <2>8 DEF Kept, Home
<1> HIDE DEF m, inside, restored
<1>11. QED
  BY <1>6, <1>8, <1>9, <1>10

LEMMA ReportKept ==
    ASSUME Structure, OwnerHolds, Kept, NEW p \in Pods, reportAttached(p), History
    PROVE  Kept'
<1>1. UNCHANGED <<mem, disk, owner, published, dra>>
  BY DEF reportAttached, store
<1>2. Snapshots => Snapshots'
  <2>1. CASE RunFails(p, "event")
    BY <2>1, HandlersKeepSnapshots DEF Handlers
  <2>2. CASE ~RunFails(p, "event")
    <3>1. nri' = [nri EXCEPT !["event"] = NriIdle]
      BY <2>2 DEF reportAttached
    <3>2. \A g \in Handlers : nri'[g] = nri[g] \/ nri'[g].pod \notin Pods
      BY <3>1, PodNetworkAssumption DEF Structure, TypeOK, NriIdle
    <3>3. QED
      BY <3>2, SnapshotsKept
  <2>3. QED
    BY <2>1, <2>2
<1>3. QED
  BY <1>1, <1>2, StoreUntouched

\* A restore that succeeds brings the NIC home; one that fails leaves the
\* records, and an event that has nothing to restore changes nothing.
LEMMA RestoreRecords ==
    ASSUME Structure, OwnerHolds, Kept, History, ~exposed', NEW p \in Pods, NEW path \in BOOLEAN,
           NEW err, NEW file \in {disk, mem}, restoreAndRecord(p, path, err, file)
    PROVE  /\ nic' # Home("original") => Recorded(mem') /\ Recorded(disk')
           /\ \A q \in Pods : HostDevice(q) => mem'[q].snap # "altered" /\ disk'[q].snap # "altered"
           /\ \A q \in Pods : ~Restorable(q) => ~Restorable(q)'
           /\ err = "none" => ~Restorable(p)'
<1> DEFINE d == [mem[p] EXCEPT !.restored = TRUE, !.attached = FALSE]
           m == [mem EXCEPT ![p].restored = TRUE, ![p].attached = FALSE]
<1>1. /\ SnapshotsTrue
      /\ nic' # Home("original") => Recorded(mem) /\ Recorded(disk)
  BY Unexposed
<1>2. mem \in [Pods -> Device] /\ mem[p] \in Device
  BY DEF Structure, TypeOK
<1>3. d.snap = mem[p].snap /\ d.restored
  <2>1. d.snap = mem[p].snap /\ d.restored = TRUE
    BY <1>2, DeviceFlags, Zenon
  <2>2. QED
    BY <2>1
<1>4. m[p] = d /\ \A q \in Pods \ {p} : m[q] = mem[q]
  BY <1>2
<1>5. \/ mem' = mem /\ disk' = file /\ (err = "none" => ~Restorable(p))
      \/ /\ Restorable(p) /\ Restores(p, path, nic, nic', TRUE)
         /\ mem' = m /\ disk' \in {file, m}
  BY Zenon DEF restoreAndRecord, Persist
<1> HIDE DEF m, d
<1>6. CASE mem' = mem /\ disk' = file /\ (err = "none" => ~Restorable(p))
  <2>1. nic' # Home("original") => Recorded(mem') /\ Recorded(disk')
    BY <1>1, <1>6
  <2>2. \A q \in Pods : HostDevice(q) => mem'[q].snap # "altered" /\ disk'[q].snap # "altered"
    BY <1>1, <1>6 DEF SnapshotsTrue
  <2>3. \A q \in Pods : Restorable(q)' <=> Restorable(q)
    BY <1>6 DEF Restorable
  <2>4. QED
    BY <1>6, <2>1, <2>2, <2>3
<1>7. CASE /\ Restorable(p) /\ Restores(p, path, nic, nic', TRUE)
           /\ mem' = m /\ disk' \in {file, m}
  <2>1. nic' = Home("original")
    BY <1>1, <1>7, RestoresHome DEF Restorable
  <2>2. \A q \in Pods : HostDevice(q) => m[q].snap # "altered"
    BY <1>1, <1>3, <1>4 DEF SnapshotsTrue
  <2>3. \A q \in Pods : HostDevice(q) => mem'[q].snap # "altered" /\ disk'[q].snap # "altered"
    BY <1>1, <1>7, <2>2 DEF SnapshotsTrue
  <2>4. ~Restorable(p)'
    BY <1>3, <1>4, <1>7 DEF Restorable
  <2>5. \A q \in Pods \ {p} : Restorable(q)' <=> Restorable(q)
    BY <1>4, <1>7 DEF Restorable
  <2>6. QED
    BY <2>1, <2>3, <2>4, <2>5
<1>8. QED
  BY <1>5, <1>6, <1>7

\* The step of a loop that restores; the slice is built anew after it, or not
\* at all.
LEMMA RestoreKept ==
    ASSUME Structure, OwnerHolds, Kept, History, NEW p \in Pods, NEW path \in BOOLEAN,
           NEW err, NEW file \in {disk, mem}, restoreAndRecord(p, path, err, file),
           publish(nic', mem') \/ UNCHANGED published, UNCHANGED <<nri, owner>>,
           dra' \in {dra, None} \/ (dra' = p /\ err = "none")
    PROVE  Kept'
<1> SUFFICES ASSUME ~exposed' PROVE Kept'
  BY DEF Kept
<1>1. /\ Snapshots /\ published
      /\ dra # None => ~Restorable(dra)
      /\ owner = None => nic' = Home("original")
  BY Unexposed
<1>2. /\ nic' # Home("original") => Recorded(mem') /\ Recorded(disk')
      /\ \A q \in Pods : HostDevice(q) => mem'[q].snap # "altered" /\ disk'[q].snap # "altered"
      /\ \A q \in Pods : ~Restorable(q) => ~Restorable(q)'
      /\ err = "none" => ~Restorable(p)'
  BY RestoreRecords
<1>3. /\ owner' = None => nic' = Home("original")
      /\ nic' # Home("original") => Recorded(mem)' /\ Recorded(disk)'
  BY <1>1, <1>2 DEF Recorded
<1>4. SnapshotsTrue'
  BY <1>2 DEF SnapshotsTrue
<1>5. Snapshots'
  BY <1>1 DEF Snapshots
<1>6. published'
  BY <1>1, <1>2, PublishedKept
<1>7. dra' # None => ~Restorable(dra)'
  <2>1. \A q \in Pods : Restorable(q)' <=> HostDevice(q) /\ mem'[q].known /\ ~mem'[q].restored
    BY DEF Restorable
  <2>2. dra \in Pods \cup {None}
    BY DEF Structure, TypeOK
  <2>3. dra' # None => dra' \in Pods /\ ~(HostDevice(dra') /\ mem'[dra'].known /\ ~mem'[dra'].restored)
    BY <1>1, <1>2, <2>1, <2>2
  <2>4. QED
    BY <2>3 DEF Restorable
<1>8. QED
  BY <1>3, <1>4, <1>5, <1>6, <1>7 DEF Kept, Home

LEMMA EventKept ==
    ASSUME Structure, OwnerHolds, Kept, NEW p \in Pods, NEW path \in BOOLEAN,
           restorePodHostDevices(p, path), History
    PROVE  Kept'
<1>1. UNCHANGED <<nri, dra, owner>>
  BY DEF restorePodHostDevices
<1>2. CASE UNCHANGED <<nic, store, ready, published>>
  <2>1. UNCHANGED <<mem, disk, owner, published, dra>>
    BY <1>1, <1>2 DEF store
  <2>2. Snapshots => Snapshots'
    BY <1>1 DEF Snapshots
  <2>3. QED
    BY <2>1, <2>2, StoreUntouched
<1>3. CASE /\ \E err \in RestoreErrors : restoreAndRecord(p, path, err, disk)
           /\ publish(nic', mem')
  BY <1>1, <1>3, RestoreKept
<1>4. QED
  BY <1>2, <1>3 DEF restorePodHostDevices

LEMMA UnprepareRestoreKept ==
    ASSUME Structure, OwnerHolds, Kept, NEW p \in Pods, UnprepareRestore(p), History
    PROVE  Kept'
<1>1. PICK err \in RestoreErrors :
        /\ restoreAndRecord(p, TRUE, err, disk)
        /\ dra' = IF err = "none" THEN p ELSE None
  BY DEF UnprepareRestore
<1>2. publish(nic', mem') /\ UNCHANGED <<nri, owner>>
  BY DEF UnprepareRestore, cluster
<1>3. QED
  BY <1>1, <1>2, RestoreKept

\* Unprepare forgets a device that has nothing left to restore, so the NIC is
\* home when it loses its owner.
LEMMA UnprepareForgetKept ==
    ASSUME Structure, OwnerHolds, Kept, NEW p \in Pods, UnprepareForget(p), History
    PROVE  Kept'
<1> SUFFICES ASSUME ~exposed' PROVE Kept'
  BY DEF Kept
<1> DEFINE m == [mem EXCEPT ![p] = NoDevice]
<1>1. /\ dra = p /\ dra' = None
      /\ mem' \in {mem, m} /\ disk' \in {disk, m}
      /\ owner' = owner \/ (owner = p /\ owner' = None)
      /\ UNCHANGED <<nic, nri, published>>
  BY DEF UnprepareForget, store, Persist, PersistFails
<1>2. m[p] = NoDevice /\ \A q \in Pods \ {p} : m[q] = mem[q]
  BY DEF Structure, TypeOK
<1>3. /\ SnapshotsTrue /\ Snapshots /\ published
      /\ dra # None => ~Restorable(dra)
      /\ nic' # Home("original") => Recorded(mem) /\ Recorded(disk)
      /\ owner = None => nic' = Home("original")
  BY Unexposed
<1> HIDE DEF m
<1>4. SnapshotsTrue'
  BY <1>1, <1>2, <1>3 DEF SnapshotsTrue, NoDevice
<1>5. nic' # Home("original") => owner # p
  BY <1>1, <1>3, PodNetworkAssumption DEF Recorded, Restorable, OwnerHolds
<1>6. nic' # Home("original") => owner' = owner /\ Recorded(m) /\ Recorded(mem) /\ Recorded(disk)
  BY <1>1, <1>2, <1>3, <1>5 DEF Recorded
<1>7. /\ owner' = None => nic' = Home("original")
      /\ nic' # Home("original") => Recorded(mem)' /\ Recorded(disk)'
  BY <1>1, <1>3, <1>6 DEF Recorded
<1>8. Snapshots' /\ published'
  BY <1>1, <1>3 DEF Snapshots
<1>9. QED
  BY <1>1, <1>4, <1>7, <1>8 DEF Kept, Home

LEMMA ProcessKept ==
    ASSUME Structure, OwnerHolds, Kept, History,
           publishTick \/ Crash \/ Start \/ Disconnect \/ Synchronize
    PROVE  Kept'
<1>1. CASE Disconnect
  <2>1. UNCHANGED <<mem, disk, owner, published, dra, nri>>
    BY <1>1 DEF Disconnect, store, cluster
  <2>2. Snapshots => Snapshots'
    BY <2>1 DEF Snapshots
  <2>3. QED
    BY <2>1, <2>2, StoreUntouched
<1>2. CASE Crash
  <2>1. UNCHANGED <<mem, disk, owner, published>> /\ dra' = None
        /\ nri' = [h \in Handlers |-> NriIdle]
    BY <1>2 DEF Crash, store
  <2>2. Snapshots => Snapshots'
    BY <2>1, PodNetworkAssumption DEF Snapshots, NriIdle
  <2>3. QED
    BY <2>1, <2>2, StoreUntouched
<1>3. CASE publishTick \/ Start
  <2> SUFFICES ASSUME ~exposed' PROVE Kept'
    BY DEF Kept
  <2>1. /\ UNCHANGED <<nic, disk, nri, dra, owner>> /\ mem' \in {mem, disk}
        /\ publish(nic, mem') /\ (mem' = mem \/ ~up)
    BY <1>3 DEF publishTick, Start, store, cluster
  <2>2. /\ SnapshotsTrue /\ Snapshots
        /\ dra # None => ~Restorable(dra)
        /\ nic' # Home("original") => Recorded(mem) /\ Recorded(disk)
        /\ owner = None => nic' = Home("original")
    BY Unexposed
  <2>3. /\ owner' = None => nic' = Home("original")
        /\ nic' # Home("original") => Recorded(mem)' /\ Recorded(disk)'
    BY <2>1, <2>2 DEF Recorded
  <2>4. nic # Home("original") => Recorded(mem')
    BY <2>1, <2>2
  <2>5. published'
    BY <2>1, <2>4, PublishedKept
  <2>6. SnapshotsTrue' /\ Snapshots'
    BY <2>1, <2>2 DEF SnapshotsTrue, Snapshots
  <2>7. dra' # None => ~Restorable(dra)'
    BY <2>1, <2>2 DEF Restorable, Structure, Unpreparing
  <2>8. QED
    BY <2>3, <2>5, <2>6, <2>7 DEF Kept, Home
<1>4. CASE Synchronize
  <2>1. (publish(nic', mem') \/ UNCHANGED published) /\ UNCHANGED <<nri, dra, owner>>
    BY <1>4 DEF Synchronize, cluster
  <2>2. PICK file \in {disk, mem} :
          \/ mem' = mem /\ disk' = file /\ UNCHANGED nic
          \/ \E p \in Orphans, err \in RestoreErrors : restoreAndRecord(p, FALSE, err, file)
    BY <1>4 DEF Synchronize
  <2>3. CASE mem' = mem /\ disk' = file /\ UNCHANGED nic
    <3> SUFFICES ASSUME ~exposed' PROVE Kept'
      BY DEF Kept
    <3>1. /\ SnapshotsTrue /\ Snapshots /\ published
          /\ dra # None => ~Restorable(dra)
          /\ nic' # Home("original") => Recorded(mem) /\ Recorded(disk)
          /\ owner = None => nic' = Home("original")
      BY Unexposed
    <3>2. /\ owner' = None => nic' = Home("original")
          /\ nic' # Home("original") => Recorded(mem)' /\ Recorded(disk)'
          /\ nic' # Home("original") => Recorded(mem')
      BY <2>1, <2>3, <3>1 DEF Recorded
    <3>3. published'
      BY <2>1, <3>1, <3>2, PublishedKept
    <3>4. SnapshotsTrue' /\ Snapshots' /\ (dra' # None => ~Restorable(dra)')
      BY <2>1, <2>3, <3>1 DEF SnapshotsTrue, Snapshots, Restorable
    <3>5. QED
      BY <3>2, <3>3, <3>4 DEF Kept, Home
  <2>4. ASSUME NEW p \in Orphans, NEW err \in RestoreErrors, restoreAndRecord(p, FALSE, err, file)
        PROVE  Kept'
    <3>1. p \in Pods
      BY DEF Orphans
    <3>2. QED
      BY <2>1, <2>4, <3>1, RestoreKept
  <2>5. QED
    BY <2>2, <2>3, <2>4
<1>5. QED
  BY <1>1, <1>2, <1>3, <1>4

LEMMA NetworkKept == NetworkInv /\ [Next]_vars => NetworkInv'
<1> SUFFICES ASSUME Structure, OwnerHolds, Kept, [Next]_vars PROVE NetworkInv'
  BY DEF NetworkInv
<1>1. ASSUME NEW p \in Pods, DriverStep(p), History PROVE Kept'
  <2>1. ASSUME StopPodSandbox(p) \/ RemovePodSandbox(p) PROVE Kept'
    BY <1>1, <2>1, EventKept DEF StopPodSandbox, RemovePodSandbox
  <2>2. QED
    BY <1>1, <2>1, PrepareKept, UnprepareRestoreKept, UnprepareForgetKept, RunPodSandboxKept,
       ReportKept, AttachLinkKept, AttachMoveKept, AttachConfigureKept DEF DriverStep
<1>2. CASE UNCHANGED vars
  <2>1. Kept'
    BY <1>2 DEF vars, system, Kept, Recorded, SnapshotsTrue, Snapshots, Restorable, Home
  <2>2. QED
    BY <2>1, StructureKept, OwnerKept DEF NetworkInv
<1>3. CASE Next
  <2>1. Kept'
    BY <1>1, <1>3, PodStepKept, ProcessKept DEF Next
  <2>2. QED
    BY <2>1, StructureKept, OwnerKept DEF NetworkInv
<1>4. QED
  BY <1>2, <1>3

LEMMA NetworkInit == Init => NetworkInv
<1> SUFFICES ASSUME Init PROVE NetworkInv
  OBVIOUS
<1>1. OwnerHolds
  BY DEF Init, OwnerHolds
<1>2. Kept
  BY PodNetworkAssumption DEF Init, Kept, SnapshotsTrue, Snapshots, NoDevice, NriIdle
<1>3. QED
  BY <1>1, <1>2, StructureInit DEF NetworkInv

\* A NIC that was recorded when it was first changed is never lost: until it is
\* in its original state again the state file holds the record to bring it
\* back from, no altered configuration passes for the original one, and it is
\* home when DRA gives it up.  This holds for every order of attachments,
\* rollbacks, events, timeouts, failed writes, crashes and restarts.
THEOREM LossNeedsExposure == Spec => []LossOnlyWhenExposed
<1>1. NetworkInv => LossOnlyWhenExposed
  BY DEF NetworkInv, Kept, LossOnlyWhenExposed, NicRecoverable
<1>2. QED
  BY <1>1, NetworkInit, NetworkKept, PTL DEF Spec

\* The NIC stays in the ResourceSlice while a Pod owns it, although the slice
\* is built anew at any moment and the NIC is not in the host.
THEOREM NicStaysPublished == Spec => []StaysPublished
<1>1. NetworkInv => StaysPublished
  BY DEF NetworkInv, Kept, StaysPublished
<1>2. QED
  BY <1>1, NetworkInit, NetworkKept, PTL DEF Spec

-----------------------------------------------------------------------------
(* The first sandbox of a Pod.                                             *)

InPlace(p) ==
    IF HostDevice(p) THEN nic.ns = p /\ nic.name = "pod" ELSE child[p] = "configured"

\* A device is not marked attached before a handler of the sandbox is done.
NotYetAttached(p) ==
    made[p] = 0 \/ (sandbox[p] = "creating" /\ nri["event"].pod # p) =>
        ~mem[p].attached /\ ~disk[p].attached

\* What is reported of a Pod is reported by the handler that attached it, in
\* time.
NotYetReady(p) ==
    /\ made[p] = 0 \/ sandbox[p] = "creating" => ~ready[p] /\ nri["late"].pod # p
    /\ nri["late"].pod = p => ~ready[p]

\* The handler has the NIC in hand: nobody else takes it from the sandbox.
InHand(p) ==
    /\ Handling("event", "configure", p) => nic.ns = p
    /\ Handling("event", "report", p) => InPlace(p)
    /\ \A h \in Handlers : Handling(h, "configure", p) /\ nic.ns = p => nic.name = "original"

\* What holds of a Pod that has one sandbox only.
First(p) ==
    /\ NotYetAttached(p) /\ NotYetReady(p) /\ InHand(p)
    /\ ready[p] /\ sandbox[p] = "running" => InPlace(p)

FirstSandbox == \A p \in Pods : First(p)

\* A step that goes on with what is attached to q, or with another Pod.
NicStays(q) ==
    /\ nic.ns = q /\ sandbox[q] \in {"creating", "running"} => nic' = nic
    /\ nic'.ns = q => nic.ns = q /\ nic'.name \in {nic.name, "original"}

Quiet(q) ==
    /\ made'[q] = made[q]
    /\ sandbox'[q] = "creating" =>
         sandbox[q] = "creating" /\ (nri'["event"].pod = q <=> nri["event"].pod = q)
    /\ sandbox'[q] = "running" => sandbox[q] \in {"creating", "running"}
    /\ sandbox[q] \in {"creating", "running"} => child'[q] = child[q]
    /\ ready'[q] => ready[q]
    /\ \A h \in Handlers : nri'[h].pod = q => nri'[h] = nri[h]
    /\ mem'[q].attached \/ disk'[q].attached => mem[q].attached \/ disk[q].attached
    /\ NicStays(q)

\* A Pod in its first sandbox has one handler at most, and nothing was reported
\* before it is done.
LEMMA OneHandler ==
    ASSUME Structure, NEW p \in Pods, First(p)
    PROVE  /\ nri["event"].pod = p =>
                /\ nri["event"].pc # "idle" /\ sandbox[p] = "creating" /\ made[p] # 0
                /\ nri["late"].pod # p /\ ~ready[p]
           /\ nri["late"].pod = p =>
                /\ nri["late"].pc # "idle" /\ sandbox[p] # "creating" /\ made[p] # 0
                /\ nri["event"].pod # p /\ ~ready[p]
           /\ sandbox[p] # "none" => made[p] # 0
<1>1. \A h \in Handlers : nri[h].pod = p => nri[h].pc # "idle"
  BY PodNetworkAssumption DEF Structure, IdleHandlers, NriIdle
<1>2. nri["event"].pod = p => sandbox[p] = "creating"
  BY <1>1 DEF Structure, Handled, Handlers
<1>3. sandbox[p] # "none" => made[p] # 0
  BY DEF Structure, SandboxesCounted, TypeOK
<1>4. QED
  BY <1>1, <1>2, <1>3 DEF First, NotYetReady, Handlers

LEMMA QuietKeeps ==
    ASSUME Structure, NEW q \in Pods, First(q), Quiet(q)
    PROVE  First(q)'
<1>1. NotYetAttached(q)'
  BY DEF NotYetAttached, First, Quiet
<1>2. NotYetReady(q)'
  <2>1. nri'["late"].pod = q => nri["late"].pod = q
    BY DEF Quiet, Handlers
  <2>2. QED
    BY <2>1 DEF NotYetReady, First, Quiet
<1>3. ASSUME InPlace(q), sandbox[q] \in {"creating", "running"} PROVE InPlace(q)'
  BY <1>3 DEF InPlace, Quiet, NicStays
<1>4. \A h \in Handlers : nri'[h].pod = q => nri'[h] = nri[h]
  BY DEF Quiet
<1>5. nri["event"].pod = q => sandbox[q] = "creating"
  BY OneHandler
<1>6. InHand(q)'
  <2>1. Handling("event", "configure", q)' => nic'.ns = q
    BY <1>4, <1>5 DEF Handling, Handlers, First, InHand, Quiet, NicStays
  <2>2. Handling("event", "report", q)' => InPlace(q)'
    BY <1>3, <1>4, <1>5 DEF Handling, Handlers, First, InHand
  <2>3. \A h \in Handlers : Handling(h, "configure", q)' /\ nic'.ns = q => nic'.name = "original"
    BY <1>4 DEF Handling, First, InHand, Quiet, NicStays
  <2>4. QED
    BY <2>1, <2>2, <2>3 DEF InHand
<1>7. ready'[q] /\ sandbox'[q] = "running" => InPlace(q)'
  BY <1>3 DEF First, Quiet, NotYetReady
<1>8. QED
  BY <1>1, <1>2, <1>6, <1>7 DEF First

-----------------------------------------------------------------------------
(* Which steps leave the NIC in a sandbox that goes on.                    *)

LEMMA UntouchedStays ==
    ASSUME nic' = nic, NEW q \in Pods
    PROVE  NicStays(q)
  BY DEF NicStays

LEMMA TearDownStays ==
    ASSUME Structure, NEW p \in Pods, NEW q \in Pods, TearDown(p)
    PROVE  NicStays(q)
  BY PodNetworkAssumption DEF TearDown, NicStays, Structure, TypeOK, Nic

\* A restore of p's NIC finds it in the host or in p's own sandbox.
LEMMA RestoresStays ==
    ASSUME NEW p \in Pods, NEW q \in Pods, NEW path \in BOOLEAN, NEW x \in Nic, NEW y,
           NEW ok \in BOOLEAN, Restores(p, path, x, y, ok)
    PROVE  /\ x.ns = q /\ (p # q \/ ~path) => y = x
           /\ y.ns = q => x.ns = q /\ y.name \in {x.name, "original"}
<1>1. q # "host"
  BY PodNetworkAssumption
<1>2. Home("altered").ns = "host" /\ Home(mem[p].snap).ns = "host"
  BY DEF Home
<1>3. [x EXCEPT !.name = "original"].ns = x.ns /\ [x EXCEPT !.name = "original"].name = "original"
  BY DEF Nic
<1>4. QED
  BY <1>1, <1>2, <1>3 DEF Restores, Reachable

LEMMA RestoreStays ==
    ASSUME Structure, NEW p \in Pods, NEW q \in Pods, NEW path \in BOOLEAN, NEW err, NEW file,
           restoreAndRecord(p, path, err, file),
           p # q \/ ~path \/ sandbox[q] \notin {"creating", "running"}
    PROVE  NicStays(q)
<1>1. nic' = nic \/ \E ok \in BOOLEAN : Restores(p, path, nic, nic', ok)
  BY Zenon DEF restoreAndRecord
<1>2. nic \in Nic
  BY DEF Structure, TypeOK
<1>3. QED
  BY <1>1, <1>2, RestoresStays DEF NicStays

LEMMA MoveStays ==
    ASSUME Structure, NEW p \in Pods, NEW q \in Pods, NEW h \in Handlers, attachMove(p, h), p # q
    PROVE  NicStays(q)
<1>1. \/ nic' = nic
      \/ nic.ns = "host" /\ nic'.ns \in {"host", p}
  BY DEF attachMove, Home
<1>2. QED
  BY <1>1, PodNetworkAssumption DEF NicStays

LEMMA ConfigureStays ==
    ASSUME Structure, NEW p \in Pods, NEW q \in Pods, NEW h \in Handlers, attachConfigure(p, h),
           p # q
    PROVE  NicStays(q)
<1> DEFINE inside == nic.ns = "detached" \/ (nic.ns = p /\ PathAlive(h))
<1>1. nic \in Nic /\ q # "host" /\ q # "detached" /\ PathAlive(h) \in BOOLEAN
  BY PodNetworkAssumption DEF Structure, TypeOK, PathAlive
<1>2. \/ inside /\ nic' = Close([nic EXCEPT !.name = "pod"])
      \/ \E name \in {nic.name} \cup (IF inside THEN {"pod"} ELSE {}) :
           LET x == [nic EXCEPT !.name = name] IN
           \/ nic' = Close(x)
           \/ \E ok \in BOOLEAN, y \in Nic : Restores(p, PathAlive(h), x, y, ok) /\ nic' = Close(y)
  BY Zenon DEF attachConfigure
<1>3. CASE inside /\ nic' = Close([nic EXCEPT !.name = "pod"])
  BY <1>1, <1>3 DEF NicStays, Close, Nic
<1>4. ASSUME NEW name \in {nic.name} \cup (IF inside THEN {"pod"} ELSE {}),
             LET x == [nic EXCEPT !.name = name] IN
             \/ nic' = Close(x)
             \/ \E ok \in BOOLEAN, y \in Nic : Restores(p, PathAlive(h), x, y, ok) /\ nic' = Close(y)
      PROVE  NicStays(q)
  <2> DEFINE x == [nic EXCEPT !.name = name]
  <2>1. x \in Nic /\ x.ns = nic.ns /\ (nic.ns = q => x = nic)
    BY <1>1, <1>4 DEF Nic
  <2>2. ASSUME NEW y \in Nic, nic' = Close(y),
               x.ns = q => y = x,
               y.ns = q => x.ns = q /\ y.name \in {x.name, "original"}
        PROVE  NicStays(q)
    BY <1>1, <2>1, <2>2 DEF NicStays, Close, Nic
  <2> HIDE DEF x
  <2>3. CASE nic' = Close(x)
    BY <2>1, <2>2, <2>3
  <2>4. ASSUME NEW ok \in BOOLEAN, NEW y \in Nic, Restores(p, PathAlive(h), x, y, ok), nic' = Close(y)
        PROVE  NicStays(q)
    <3>1. /\ x.ns = q => y = x
          /\ y.ns = q => x.ns = q /\ y.name \in {x.name, "original"}
      BY <1>1, <2>1, <2>4, RestoresStays
    <3>2. QED
      BY <2>2, <2>4, <3>1
  <2>5. QED
    BY <1>4, <2>3, <2>4 DEF x
<1>5. QED
  BY <1>2, <1>3, <1>4

-----------------------------------------------------------------------------
(* Quiet steps.                                                            *)

LEMMA PodStepQuiet ==
    ASSUME Structure, NEW p \in Pods, NEW q \in Pods, PodStep(p),
           p = q => ~CreateSandbox(p) /\ ~RunTimeout(p)
    PROVE  Quiet(q)
<1> USE DEF Structure, TypeOK
<1>1. CASE Schedule(p) \/ DeletePod(p)
  <2>1. UNCHANGED <<nic, child, mem, disk, nri, ready, sandbox, made>>
    BY <1>1 DEF Schedule, DeletePod, store
  <2>2. QED
    BY <2>1, UntouchedStays DEF Quiet
<1>2. CASE CreateSandbox(p)
  <2>1. UNCHANGED <<nic, child, mem, disk, nri, ready>> /\ p # q
    BY <1>2 DEF CreateSandbox, store
  <2>2. sandbox'[q] = sandbox[q] /\ made'[q] = made[q]
    BY <1>2, <2>1 DEF CreateSandbox
  <2>3. QED
    BY <2>1, <2>2, UntouchedStays DEF Quiet
<1>3. CASE StopSandbox(p) \/ RunMissed(p) \/ EventMissed(p)
  <2>1. UNCHANGED <<nic, child, mem, disk, nri, ready, made>>
    BY <1>3 DEF StopSandbox, RunMissed, EventMissed, store
  <2>2. \/ sandbox'[q] = sandbox[q]
        \/ sandbox'[q] \in {"stopping", "stopped"}
        \/ sandbox[q] = "creating" /\ sandbox'[q] = "running"
    BY <1>3 DEF StopSandbox, RunMissed, EventMissed
  <2>3. QED
    BY <2>1, <2>2, UntouchedStays DEF Quiet
<1>4. CASE TearDown(p)
  <2>1. UNCHANGED <<mem, disk, nri, ready, made>>
    BY <1>4 DEF TearDown, store
  <2>2. \/ sandbox'[q] = sandbox[q] /\ child'[q] = child[q]
        \/ sandbox[q] \in {"stopped", "failed"} /\ sandbox'[q] = "none"
    BY <1>4 DEF TearDown
  <2>3. NicStays(q)
    BY <1>4, TearDownStays
  <2>4. QED
    BY <2>1, <2>2, <2>3 DEF Quiet
<1>5. CASE RunTimeout(p)
  <2>1. UNCHANGED <<nic, child, mem, disk, made>> /\ p # q
        /\ nri["event"].pod = p /\ nri["late"] = NriIdle
    BY <1>5 DEF RunTimeout, store
  <2>2. sandbox'[q] = sandbox[q] /\ ready'[q] = ready[q]
    BY <1>5, <2>1 DEF RunTimeout
  <2>3. nri'["event"] = NriIdle /\ nri'["late"] \in {nri["event"], NriIdle}
    BY <1>5, <2>1 DEF RunTimeout, Handlers
  <2>4. NriIdle.pod # q
    BY PodNetworkAssumption DEF NriIdle
  <2>5. /\ \A h \in Handlers : nri'[h].pod # q
        /\ nri["event"].pod # q
    BY <2>1, <2>3, <2>4 DEF Handlers
  <2>6. QED
    BY <2>1, <2>2, <2>5, UntouchedStays DEF Quiet, Handlers
<1>6. QED
  BY <1>1, <1>2, <1>3, <1>4, <1>5 DEF PodStep

\* The handlers of the other Pods are left alone.
LEMMA OthersHandlers ==
    ASSUME Structure, NEW p \in Pods, NEW q \in Pods, p # q, NEW h \in Handlers, nri[h].pod = p,
           \/ RunFails(p, h) \/ Attached(h)
           \/ nri' = [nri EXCEPT ![h].pc = "configure"] /\ UNCHANGED sandbox
    PROVE  /\ \A g \in Handlers : nri'[g].pod = q => nri'[g] = nri[g]
           /\ nri'["event"].pod = q <=> nri["event"].pod = q
           /\ sandbox'[q] = sandbox[q]
<1>1. nri \in [Handlers -> Working] /\ NriIdle.pod # q
  BY PodNetworkAssumption DEF Structure, TypeOK, Working, NriIdle
<1>2. \A g \in Handlers \ {h} : nri'[g] = nri[g]
  BY <1>1 DEF RunFails, Attached
<1>3. \/ nri'[h] = NriIdle
      \/ nri'[h] = [nri[h] EXCEPT !.pc = "report"]
      \/ nri'[h] = [nri[h] EXCEPT !.pc = "configure"]
  BY <1>1 DEF RunFails, Attached
<1>4. nri'[h].pod # q
  BY <1>1, <1>3 DEF Working
<1>5. sandbox'[q] = sandbox[q]
  BY DEF RunFails, Attached, Structure, TypeOK
<1>6. QED
  BY <1>2, <1>4, <1>5 DEF Handlers

LEMMA AttachQuiet ==
    ASSUME Structure, NEW p \in Pods, NEW q \in Pods, NEW h \in Handlers,
           attachLink(p, h) \/ attachMove(p, h) \/ attachConfigure(p, h), p # q
    PROVE  Quiet(q)
<1>1. /\ nri[h].pod = p /\ UNCHANGED made
      /\ \/ RunFails(p, h) \/ Attached(h)
         \/ nri' = [nri EXCEPT ![h].pc = "configure"] /\ UNCHANGED sandbox
  BY DEF attachLink, attachMove, attachConfigure, Handling, AttachFails
<1>2. /\ \A g \in Handlers : nri'[g].pod = q => nri'[g] = nri[g]
      /\ nri'["event"].pod = q <=> nri["event"].pod = q
      /\ sandbox'[q] = sandbox[q]
  BY <1>1, OthersHandlers
<1>3. ready'[q] = ready[q]
  BY DEF attachLink, attachMove, attachConfigure, AttachFails, reportNotReady, Structure, TypeOK
<1>4. child'[q] = child[q]
  BY DEF attachLink, attachMove, attachConfigure, Structure, TypeOK
<1>5. mem'[q] = mem[q] /\ disk'[q] \in {disk[q], mem[q]}
  BY DEF attachLink, attachMove, attachConfigure, Persist, PersistFails, store, Structure, TypeOK
<1>6. NicStays(q)
  BY MoveStays, ConfigureStays, UntouchedStays DEF attachLink
<1>7. QED
  BY <1>1, <1>2, <1>3, <1>4, <1>5, <1>6 DEF Quiet

\* A restore takes the attached flag away and sets none.
LEMMA RestoreFlags ==
    ASSUME Structure, NEW p \in Pods, NEW q \in Pods, NEW path, NEW err,
           NEW file, file = disk \/ file = mem, restoreAndRecord(p, path, err, file)
    PROVE  mem'[q].attached \/ disk'[q].attached => mem[q].attached \/ disk[q].attached
<1> DEFINE m == [mem EXCEPT ![p].restored = TRUE, ![p].attached = FALSE]
<1>1. mem' \in {mem, m} /\ disk' \in {file, m}
  BY Zenon DEF restoreAndRecord, Persist
<1>2. m[q].attached => mem[q].attached
  BY DEF Structure, TypeOK, Device
<1> HIDE DEF m
<1>3. QED
  BY <1>1, <1>2

LEMMA EventQuiet ==
    ASSUME Structure, NEW p \in Pods, NEW q \in Pods, MaxSandboxes = 1,
           StopPodSandbox(p) \/ RemovePodSandbox(p)
    PROVE  Quiet(q)
<1>1. PICK path \in BOOLEAN : restorePodHostDevices(p, path)
  BY DEF StopPodSandbox, RemovePodSandbox
<1>2. UNCHANGED <<child, nri, made>>
  BY <1>1 DEF restorePodHostDevices
<1>3. \/ sandbox'[q] = sandbox[q]
      \/ sandbox[q] = "stopping" /\ sandbox'[q] = "stopped"
  BY DEF StopPodSandbox, RemovePodSandbox, Structure, TypeOK
<1>4. p = q => sandbox[q] \notin {"creating", "running"}
  <2>1. dead[p] > 0 => sandbox[p] = "none"
    BY DEF Structure, SandboxesCounted, TypeOK
  <2>2. QED
    BY <2>1 DEF StopPodSandbox, RemovePodSandbox
<1>5. CASE UNCHANGED <<nic, store, ready, published>>
  BY <1>2, <1>3, <1>5, UntouchedStays DEF Quiet, store
<1>6. ASSUME NEW err \in RestoreErrors, restoreAndRecord(p, path, err, disk), reportRestored(p, err)
      PROVE  Quiet(q)
  <2>1. NicStays(q)
    BY <1>4, <1>6, RestoreStays
  <2>2. mem'[q].attached \/ disk'[q].attached => mem[q].attached \/ disk[q].attached
    BY <1>6, RestoreFlags
  <2>3. ready'[q] => ready[q]
    BY <1>6 DEF reportRestored, reportNotReady, Structure, TypeOK
  <2>4. QED
    BY <1>2, <1>3, <2>1, <2>2, <2>3 DEF Quiet
<1>7. QED
  BY <1>1, <1>5, <1>6 DEF restorePodHostDevices

LEMMA DRAQuiet ==
    ASSUME Structure, NEW p \in Pods, NEW q \in Pods,
           prepareClaim(p) \/ UnprepareRestore(p) \/ UnprepareForget(p)
    PROVE  Quiet(q)
<1> USE DEF Structure, TypeOK
<1>1. CASE prepareClaim(p)
  <2>1. UNCHANGED <<nic, child, nri, sandbox, made>>
    BY <1>1 DEF prepareClaim
  <2>2. ready'[q] => ready[q]
    BY <1>1 DEF prepareClaim
  <2>3. mem'[q].attached \/ disk'[q].attached => mem[q].attached \/ disk[q].attached
    <3>1. PreparedDevice(p).attached => mem[p].attached
      BY DEF PreparedDevice
    <3>2. QED
      BY <1>1, <3>1 DEF prepareClaim, Persist, PersistFails
  <2>4. QED
    BY <2>1, <2>2, <2>3, UntouchedStays DEF Quiet
<1>2. CASE UnprepareRestore(p)
  <2>1. PICK err \in RestoreErrors : restoreAndRecord(p, TRUE, err, disk) /\ reportRestored(p, err)
    BY <1>2 DEF UnprepareRestore
  <2>2. UNCHANGED <<child, nri, sandbox, made>> /\ sandbox[p] = "none"
    BY <1>2 DEF UnprepareRestore, cluster
  <2>3. NicStays(q)
    BY <2>1, <2>2, RestoreStays
  <2>4. mem'[q].attached \/ disk'[q].attached => mem[q].attached \/ disk[q].attached
    BY <2>1, RestoreFlags
  <2>5. ready'[q] => ready[q]
    BY <2>1 DEF reportRestored, reportNotReady
  <2>6. QED
    BY <2>2, <2>3, <2>4, <2>5 DEF Quiet
<1>3. CASE UnprepareForget(p)
  <2>1. UNCHANGED <<nic, child, nri, sandbox, made>>
    BY <1>3 DEF UnprepareForget
  <2>2. ready'[q] => ready[q]
    BY <1>3 DEF UnprepareForget, reportNotReady
  <2>3. mem'[q].attached \/ disk'[q].attached => mem[q].attached \/ disk[q].attached
    BY <1>3 DEF UnprepareForget, Persist, PersistFails, store, NoDevice
  <2>4. QED
    BY <2>1, <2>2, <2>3, UntouchedStays DEF Quiet
<1>4. QED
  BY <1>1, <1>2, <1>3

LEMMA SynchronizeQuiet ==
    ASSUME Structure, NEW q \in Pods, Synchronize
    PROVE  Quiet(q)
<1>1. UNCHANGED <<child, nri, sandbox, made, ready>>
  BY DEF Synchronize, cluster
<1>2. PICK file \in {disk, mem} :
        \/ mem' = mem /\ disk' = file /\ UNCHANGED nic
        \/ \E p \in Orphans, err \in RestoreErrors : restoreAndRecord(p, FALSE, err, file)
  BY DEF Synchronize
<1>3. CASE mem' = mem /\ disk' = file /\ UNCHANGED nic
  BY <1>1, <1>3, UntouchedStays DEF Quiet
<1>4. ASSUME NEW p \in Orphans, NEW err \in RestoreErrors, restoreAndRecord(p, FALSE, err, file)
      PROVE  Quiet(q)
  <2>1. p \in Pods
    BY DEF Orphans
  <2>2. NicStays(q)
    BY <1>4, <2>1, RestoreStays
  <2>3. file = disk \/ file = mem
    OBVIOUS
  <2>4. mem'[q].attached \/ disk'[q].attached => mem[q].attached \/ disk[q].attached
    BY <1>4, <2>1, <2>3, RestoreFlags
  <2>5. QED
    BY <1>1, <2>2, <2>4 DEF Quiet
<1>5. QED
  BY <1>2, <1>3, <1>4

LEMMA ProcessQuiet ==
    ASSUME Structure, NEW q \in Pods,
           publishTick \/ Crash \/ Start \/ Disconnect \/ Synchronize \/ UNCHANGED vars
    PROVE  Quiet(q)
<1> USE DEF Structure, TypeOK
<1>1. CASE publishTick \/ Start \/ Disconnect \/ UNCHANGED vars
  <2>1. /\ UNCHANGED <<nic, child, nri, sandbox, made, ready, disk>> /\ mem' \in {mem, disk}
    BY <1>1 DEF publishTick, Start, Disconnect, vars, system, store, cluster
  <2>2. QED
    BY <2>1, UntouchedStays DEF Quiet
<1>2. CASE Crash
  <2>1. /\ UNCHANGED <<child, made, ready, mem, disk>> /\ nic' = Close(nic)
        /\ nri' = [h \in Handlers |-> NriIdle]
    BY <1>2 DEF Crash, store
  <2>2. NicStays(q)
    BY <2>1, PodNetworkAssumption DEF NicStays, Close, Nic
  <2>3. \/ sandbox'[q] = sandbox[q] /\ nri["event"].pod # q
        \/ sandbox'[q] \in {"stopping", "failed"}
        \/ sandbox[q] = "creating" /\ sandbox'[q] = "running"
    <3>1. CASE nri["event"] = NriIdle /\ UNCHANGED sandbox
      BY <3>1, PodNetworkAssumption DEF NriIdle
    <3>2. CASE /\ nri["event"] # NriIdle
               /\ \E s \in {"running", "stopping", "failed"} :
                    sandbox' = [sandbox EXCEPT ![nri["event"].pod] = s]
      <4>1. nri["event"].pod \in Pods /\ sandbox[nri["event"].pod] = "creating"
        BY <3>2 DEF IdleHandlers, Handled, Handlers
      <4>2. QED
        BY <3>2, <4>1
    <3>3. QED
      BY <1>2, <3>1, <3>2 DEF Crash
  <2>4. \A h \in Handlers : nri'[h].pod # q
    BY <2>1, PodNetworkAssumption DEF NriIdle
  <2>5. QED
    BY <2>1, <2>2, <2>3, <2>4 DEF Quiet, Handlers
<1>3. CASE Synchronize
  BY <1>3, SynchronizeQuiet
<1>4. QED
  BY <1>1, <1>2, <1>3

-----------------------------------------------------------------------------
(* The steps of the one handler of a Pod.                                  *)

LEMMA CreateFirst ==
    ASSUME Structure, NEW p \in Pods, First(p), MaxSandboxes = 1, CreateSandbox(p)
    PROVE  First(p)'
<1>1. /\ UNCHANGED <<nic, child, mem, disk, nri, ready>> /\ sandbox[p] = "none" /\ made[p] = 0
      /\ sandbox'[p] = "creating" /\ made'[p] # 0
  BY DEF CreateSandbox, store, Structure, TypeOK
<1>2. nri["event"].pod # p /\ nri["late"].pod # p
  BY <1>1, OneHandler
<1>3. \A h \in Handlers : nri[h].pod # p
  BY <1>2 DEF Handlers
<1>4. QED
  BY <1>1, <1>2, <1>3 DEF First, NotYetAttached, NotYetReady, InHand, Handling, Handlers

LEMMA RunFirst ==
    ASSUME Structure, NEW p \in Pods, NEW q \in Pods, First(q), RunPodSandbox(p)
    PROVE  First(q)'
<1>1. /\ UNCHANGED <<nic, child, mem, ready, made>> /\ disk' \in {disk, mem}
      /\ sandbox[p] = "creating" /\ nri["event"] = NriIdle
  BY DEF RunPodSandbox, Persist, PersistFails
<1>2. NriIdle.pod \notin Pods /\ "event" \in Handlers /\ nri \in [Handlers -> Working]
  BY PodNetworkAssumption DEF NriIdle, Handlers, Structure, TypeOK, Working
<1>3. CASE RunFails(p, "event")
  <2>1. nri' = nri
    BY <1>1, <1>2, <1>3 DEF RunFails
  <2>2. sandbox'[q] = sandbox[q] \/ sandbox'[q] \in {"stopping", "failed"}
    BY <1>3 DEF RunFails, Structure, TypeOK
  <2>3. Quiet(q)
    BY <1>1, <2>1, <2>2, UntouchedStays DEF Quiet
  <2>4. QED
    BY <2>3, QuietKeeps
<1>4. CASE ~RunFails(p, "event")
  <2> DEFINE w == [pc |-> IF mem[p].attached THEN "report" ELSE "attach", pod |-> p,
                   sandbox |-> made[p], snap |-> mem[p].snap]
  <2>1. nri' = [nri EXCEPT !["event"] = w] /\ sandbox' = sandbox
    BY <1>4 DEF RunPodSandbox
  <2>2. nri'["event"] = w /\ nri'["late"] = nri["late"]
    BY <1>2, <2>1 DEF Handlers
  <2>3. CASE q # p
    <3>1. Quiet(q)
      BY <1>1, <1>2, <2>1, <2>2, <2>3, UntouchedStays DEF Quiet, Handlers
    <3>2. QED
      BY <3>1, QuietKeeps
  <2>4. CASE q = p
    <3>1. ~mem[p].attached /\ ~ready[p] /\ nri["late"].pod # p /\ made[p] # 0
      BY <1>1, <1>2, <2>4, OneHandler DEF First, NotYetAttached, NotYetReady
    <3>2. w.pc = "attach" /\ w.pod = p
      BY <3>1
    <3> HIDE DEF w
    <3>3. \A pc \in {"configure", "report"} : \A h \in Handlers : ~Handling(h, pc, p)'
      BY <2>2, <3>1, <3>2 DEF Handling, Handlers
    <3>4. QED
      BY <1>1, <2>1, <2>2, <2>4, <3>1, <3>2, <3>3
         DEF First, NotYetAttached, NotYetReady, InHand, Handlers
  <2>5. QED
    BY <2>3, <2>4
<1>5. QED
  BY <1>3, <1>4

\* containerd gives the handler up: what it attached stays, and only what was
\* in place can have been reported.
LEMMA TimeoutFirst ==
    ASSUME Structure, NEW p \in Pods, First(p), RunTimeout(p)
    PROVE  First(p)'
<1>1. /\ UNCHANGED <<nic, child, mem, disk, made>> /\ sandbox'[p] = "running"
      /\ nri["event"].pod = p /\ nri["late"] = NriIdle
  BY DEF RunTimeout, store, Structure, TypeOK
<1>2. sandbox[p] = "creating" /\ made[p] # 0 /\ ~ready[p]
  BY <1>1, OneHandler
<1>3. NriIdle.pod \notin Pods /\ NriIdle.pc = "idle" /\ nri \in [Handlers -> Working]
  BY PodNetworkAssumption DEF NriIdle, Structure, TypeOK, Working
<1>4. nri'["event"] = NriIdle
  BY <1>3 DEF RunTimeout, Handlers
<1>5. CASE nri["event"].pc # "report"
  <2>1. nri'["late"] = nri["event"] /\ ready' = ready
    BY <1>3, <1>5 DEF RunTimeout, Handlers
  <2>2. \A h \in Handlers : Handling(h, "configure", p)' => Handling("event", "configure", p)
    BY <1>3, <1>4, <2>1 DEF Handling, Handlers
  <2>3. InHand(p)'
    BY <1>1, <1>3, <1>4, <2>2 DEF First, InHand, Handling, Handlers
  <2>4. QED
    BY <1>1, <1>2, <2>1, <2>3 DEF First, NotYetAttached, NotYetReady
<1>6. CASE nri["event"].pc = "report"
  <2>1. nri'["late"] = nri["late"]
    BY <1>3, <1>6 DEF RunTimeout, Handlers
  <2>2. InPlace(p)'
    BY <1>1, <1>6 DEF First, InHand, Handling, InPlace
  <2>3. \A h \in Handlers : nri'[h].pod # p
    BY <1>1, <1>3, <1>4, <2>1 DEF Handlers
  <2>4. QED
    BY <1>1, <1>2, <2>2, <2>3
       DEF First, NotYetAttached, NotYetReady, InHand, Handling, Handlers
<1>7. QED
  BY <1>5, <1>6

\* The handler of p ends, or has p's device in place.
LEMMA AttachFirst ==
    ASSUME Structure, NEW p \in Pods, First(p), NEW h \in Handlers, nri[h].pod = p,
           RunFails(p, h) \/ (Attached(h) /\ (h = "event" => InPlace(p)')),
           made' = made, ready'[p] => ready[p]
    PROVE  First(p)'
<1>1. nri \in [Handlers -> Working] /\ NriIdle.pod \notin Pods
  BY PodNetworkAssumption DEF Structure, TypeOK, Working, NriIdle
<1>2. \A g \in Handlers \ {h} : nri[g].pod # p /\ nri'[g] = nri[g]
  BY <1>1, OneHandler DEF Handlers, RunFails, Attached
<1>3. /\ ~ready[p] /\ made[p] # 0
      /\ h = "event" => sandbox[p] = "creating"
      /\ h = "late" => sandbox[p] # "creating"
  BY OneHandler DEF Handlers
<1>4. CASE RunFails(p, h)
  <2>1. nri'[h] = NriIdle /\ sandbox'[p] # "creating"
    BY <1>1, <1>3, <1>4 DEF RunFails, Handlers, Structure, TypeOK
  <2>2. \A g \in Handlers : nri'[g].pod # p
    BY <1>1, <1>2, <2>1
  <2>3. QED
    BY <1>3, <2>1, <2>2 DEF First, NotYetAttached, NotYetReady, InHand, Handling, Handlers
<1>5. CASE Attached(h) /\ ~RunFails(p, h)
  <2>1. sandbox' = sandbox
    BY <1>5 DEF Attached
  <2>2. CASE h = "event"
    <3>1. nri'[h] = [nri[h] EXCEPT !.pc = "report"]
      BY <1>1, <1>5, <2>2 DEF Attached
    <3>2. nri'[h].pc = "report" /\ nri'[h].pod = p
      BY <1>1, <3>1 DEF Working
    <3>3. QED
      BY <1>2, <1>3, <1>5, <2>1, <2>2, <3>2
         DEF First, NotYetAttached, NotYetReady, InHand, Handling, Handlers
  <2>3. CASE h # "event"
    <3>1. nri'[h] = NriIdle
      BY <1>1, <1>5, <2>3 DEF Attached
    <3>2. \A g \in Handlers : nri'[g].pod # p
      BY <1>1, <1>2, <3>1
    <3>3. QED
      BY <1>3, <2>1, <2>3, <3>2 DEF First, NotYetAttached, NotYetReady, InHand, Handling, Handlers
  <2>4. QED
    BY <2>2, <2>3
<1>6. QED
  BY <1>4, <1>5

LEMMA AttachStepsFirst ==
    ASSUME Structure, NEW p \in Pods, First(p), NEW h \in Handlers,
           attachLink(p, h) \/ attachMove(p, h) \/ attachConfigure(p, h)
    PROVE  First(p)'
<1>1. nri[h].pod = p /\ made' = made
  BY DEF attachLink, attachMove, attachConfigure, Handling
<1>2. ready'[p] => ready[p]
  BY DEF attachLink, attachMove, attachConfigure, AttachFails, reportNotReady, Structure, TypeOK
<1>3. CASE RunFails(p, h)
  BY <1>1, <1>2, <1>3, AttachFirst
<1>4. CASE ~RunFails(p, h) /\ attachLink(p, h)
  <2>1. Attached(h) /\ ~HostDevice(p) /\ child'[p] = "configured"
    BY <1>4 DEF attachLink, AttachFails, Structure, TypeOK
  <2>2. QED
    BY <1>1, <1>2, <2>1, AttachFirst DEF InPlace
<1>5. CASE ~RunFails(p, h) /\ attachConfigure(p, h)
  <2>1. /\ Attached(h) /\ HostDevice(p) /\ nri[h].pc = "configure"
        /\ nic' = Close([nic EXCEPT !.name = "pod"])
    <3>1. nri[h].pc = "configure" /\ nri[h].pc # "idle"
      BY <1>5 DEF attachConfigure, Handling
    <3>2. HostDevice(p)
      BY <1>1, <3>1 DEF Structure, Handled
    <3>3. QED
      BY <1>5, <3>1, <3>2 DEF attachConfigure, AttachFails
  <2>2. h = "event" => nic.ns = p
    BY <1>1, <2>1 DEF First, InHand, Handling
  <2>3. h = "event" => InPlace(p)'
    BY <2>1, <2>2, PodNetworkAssumption DEF InPlace, Close, Structure, TypeOK, Nic
  <2>4. QED
    BY <1>1, <1>2, <2>1, <2>3, AttachFirst
<1>6. CASE ~RunFails(p, h) /\ attachMove(p, h)
  <2>1. /\ nic' = [ns |-> p, name |-> "original", conf |-> "altered"]
        /\ nri' = [nri EXCEPT ![h].pc = "configure"]
        /\ UNCHANGED <<sandbox, ready, mem, disk, made>>
    BY <1>6 DEF attachMove, AttachFails, store
  <2>2. nri \in [Handlers -> Working]
    BY DEF Structure, TypeOK, Working
  <2>3. nri'[h].pod = p /\ nri'[h].pc = "configure" /\ \A g \in Handlers \ {h} : nri'[g] = nri[g]
    BY <1>1, <2>1, <2>2 DEF Working
  <2>4. \A g \in Handlers : nri'[g].pod = nri[g].pod
    BY <1>1, <2>3
  <2>5. /\ ~ready[p] /\ \A g \in Handlers \ {h} : nri[g].pod # p
    BY <1>1, OneHandler DEF Handlers
  <2>6. NotYetAttached(p)' /\ NotYetReady(p)'
    BY <2>1, <2>4 DEF First, NotYetAttached, NotYetReady, Handlers
  <2>7. InHand(p)'
    <3>1. ~Handling("event", "report", p)'
      BY <2>3, <2>5 DEF Handling, Handlers
    <3>2. QED
      BY <2>1, <3>1 DEF InHand
  <2>8. QED
    BY <2>1, <2>5, <2>6, <2>7 DEF First
<1>7. QED
  BY <1>3, <1>4, <1>5, <1>6

LEMMA ReportFirst ==
    ASSUME Structure, NEW p \in Pods, NEW q \in Pods, First(q), reportAttached(p)
    PROVE  First(q)'
<1>1. /\ nri["event"].pod = p /\ nri["event"].pc = "report" /\ "event" \in Handlers
      /\ UNCHANGED <<nic, child, mem, disk, made>>
      /\ nri' = [nri EXCEPT !["event"] = NriIdle]
      /\ \E s \in {"running", "stopping", "failed"} : sandbox' = [sandbox EXCEPT ![p] = s]
      /\ ready' = ready \/ ready' = [ready EXCEPT ![p] = TRUE]
  BY DEF reportAttached, Handling, Handlers, store, RunFails
<1>2. NriIdle.pod \notin Pods /\ nri \in [Handlers -> Working]
  BY PodNetworkAssumption DEF NriIdle, Structure, TypeOK, Working
<1>3. nri'["event"] = NriIdle /\ nri'["late"] = nri["late"]
  BY <1>1, <1>2 DEF Handlers
<1>4. CASE q # p
  <2>1. sandbox'[q] = sandbox[q] /\ ready'[q] = ready[q]
    BY <1>1, <1>4 DEF Structure, TypeOK
  <2>2. Quiet(q)
    BY <1>1, <1>2, <1>3, <1>4, <2>1, UntouchedStays DEF Quiet, Handlers
  <2>3. QED
    BY <2>2, QuietKeeps
<1>5. CASE q = p
  <2>1. InPlace(p)' /\ made[p] # 0 /\ nri["late"].pod # p
    BY <1>1, <1>5, OneHandler DEF First, InHand, Handling, InPlace
  <2>2. sandbox'[p] # "creating"
    BY <1>1 DEF Structure, TypeOK
  <2>3. \A h \in Handlers : nri'[h].pod # p
    BY <1>2, <1>3, <2>1 DEF Handlers
  <2>4. QED
    BY <1>1, <1>5, <2>1, <2>2, <2>3
       DEF First, NotYetAttached, NotYetReady, InHand, Handling, Handlers
<1>6. QED
  BY <1>4, <1>5

LEMMA FirstKept ==
    ASSUME MaxSandboxes = 1, Structure, FirstSandbox, [Next]_vars
    PROVE  FirstSandbox'
<1> SUFFICES ASSUME NEW q \in Pods PROVE First(q)'
  BY DEF FirstSandbox
<1>1. First(q)
  BY DEF FirstSandbox
<1>2. ASSUME NEW p \in Pods, PodStep(p) PROVE First(q)'
  BY <1>1, <1>2, CreateFirst, TimeoutFirst, PodStepQuiet, QuietKeeps
<1>3. ASSUME NEW p \in Pods, DriverStep(p) PROVE First(q)'
  <2>1. ASSUME NEW h \in Handlers, attachLink(p, h) \/ attachMove(p, h) \/ attachConfigure(p, h)
        PROVE  First(q)'
    BY <1>1, <2>1, AttachStepsFirst, AttachQuiet, QuietKeeps
  <2>2. ASSUME StopPodSandbox(p) \/ RemovePodSandbox(p) PROVE First(q)'
    BY <1>1, <2>2, EventQuiet, QuietKeeps
  <2>3. ASSUME prepareClaim(p) \/ UnprepareRestore(p) \/ UnprepareForget(p) PROVE First(q)'
    BY <1>1, <2>3, DRAQuiet, QuietKeeps
  <2>4. QED
    BY <1>1, <1>3, <2>1, <2>2, <2>3, RunFirst, ReportFirst DEF DriverStep
<1>4. ASSUME publishTick \/ Crash \/ Start \/ Disconnect \/ Synchronize \/ UNCHANGED vars
      PROVE  First(q)'
  BY <1>1, <1>4, ProcessQuiet, QuietKeeps
<1>5. QED
  BY <1>2, <1>3, <1>4 DEF Next

LEMMA FirstInit == Init => FirstSandbox
<1> SUFFICES ASSUME Init, NEW p \in Pods PROVE First(p)
  BY DEF FirstSandbox
<1>1. mem[p] = NoDevice /\ disk[p] = NoDevice /\ ready[p] = FALSE /\ sandbox[p] = "none"
  BY DEF Init
<1>2. NoDevice.attached = FALSE
  BY DEF NoDevice
<1>3. \A h \in Handlers : nri[h].pod # p
  BY PodNetworkAssumption DEF Init, NriIdle
<1>4. NotYetAttached(p) /\ NotYetReady(p) /\ InHand(p)
  BY <1>1, <1>2, <1>3 DEF NotYetAttached, NotYetReady, InHand, Handling, Handlers
<1>5. QED
  BY <1>1, <1>3, <1>4 DEF First, Handlers

\* A Pod that runs and is reported as Ready has its interface in its sandbox,
\* in every interleaving of handlers, timeouts, late handlers, crashes and
\* failures, provided that no Pod gets a second sandbox.
THEOREM ReadyPodsAttached == MaxSandboxes = 1 => (Spec => []ReadyMeansAttached)
<1> SUFFICES ASSUME MaxSandboxes = 1 PROVE Spec => []ReadyMeansAttached
  OBVIOUS
<1>1. Init => Structure /\ FirstSandbox
  BY StructureInit, FirstInit
<1>2. Structure /\ FirstSandbox /\ [Next]_vars => (Structure /\ FirstSandbox)'
  BY StructureKept, FirstKept
<1>3. FirstSandbox => ReadyMeansAttached
  BY DEF FirstSandbox, First, InPlace, ReadyMeansAttached
<1>4. QED
  BY <1>1, <1>2, <1>3, PTL DEF Spec

-----------------------------------------------------------------------------
(* Any number of sandboxes.                                                *)

\* The handlers of a Pod work for different sandboxes of it, a late one for an
\* earlier one than that in creation, and the handler of the present sandbox
\* renames the NIC in its last step: while it is not done, nothing is attached.
Apart(p) ==
    /\ \A h \in Handlers : nri[h].pod = p => nri[h].sandbox <= made[p]
    /\ sandbox[p] = "creating" /\ nri["late"].pod = p => nri["late"].sandbox < made[p]
    /\ \A h \in Handlers :
         Handling(h, "configure", p) /\ nri[h].sandbox = made[p] /\ nic.ns = p =>
             nic.name = "original"

AllApart == \A p \in Pods : Apart(p)

\* A step that begins nothing for q and attaches nothing to it.
Aside(q) ==
    /\ made'[q] = made[q]
    /\ sandbox'[q] = "creating" => sandbox[q] = "creating"
    /\ \A h \in Handlers : nri'[h].pod = q => nri'[h] = nri[h]
    /\ nic'.ns = q => nic.ns = q /\ nic'.name \in {nic.name, "original"}

LEMMA QuietAside ==
    ASSUME NEW q \in Pods, Quiet(q)
    PROVE  Aside(q)
  BY DEF Quiet, NicStays, Aside

LEMMA AsideKeeps ==
    ASSUME NEW q \in Pods, Apart(q), Aside(q)
    PROVE  Apart(q)'
<1>1. \A h \in Handlers : nri'[h].pod = q => nri'[h].sandbox <= made'[q]
  BY DEF Apart, Aside
<1>2. sandbox'[q] = "creating" /\ nri'["late"].pod = q => nri'["late"].sandbox < made'[q]
  BY DEF Apart, Aside, Handlers
<1>3. \A h \in Handlers :
        Handling(h, "configure", q)' /\ nri'[h].sandbox = made'[q] /\ nic'.ns = q =>
            nic'.name = "original"
  BY DEF Apart, Aside, Handling
<1>4. QED
  BY <1>1, <1>2, <1>3 DEF Apart

\* Both handlers of a Pod are not of its present sandbox.
LEMMA OneOfPresent ==
    ASSUME Structure, NEW p \in Pods, Apart(p), NEW g \in Handlers, NEW h \in Handlers, g # h,
           nri[g].pod = p, nri[h].pod = p
    PROVE  nri[g].sandbox # made[p] \/ nri[h].sandbox # made[p]
<1>1. nri["event"].pod = p /\ nri["late"].pod = p
  BY DEF Handlers
<1>2. nri["event"].pc # "idle"
  BY <1>1, PodNetworkAssumption DEF Structure, IdleHandlers, NriIdle, Handlers
<1>3. sandbox[p] = "creating"
  BY <1>1, <1>2 DEF Structure, Handled, Handlers
<1>4. nri["late"].sandbox # made[p]
  <2>1. nri["late"].sandbox \in Nat /\ made[p] \in Nat
    BY DEF Structure, TypeOK, Handlers
  <2>2. QED
    BY <1>1, <1>3, <2>1 DEF Apart
<1>5. QED
  BY <1>4 DEF Handlers

\* Where attachConfigure leaves the NIC of its own Pod.
LEMMA ConfigureNic ==
    ASSUME Structure, NEW p \in Pods, NEW h \in Handlers, attachConfigure(p, h)
    PROVE  /\ nic'.ns = p => nic.ns = p
           /\ ~PathAlive(h) /\ nic.ns = p => nic' = nic
<1> DEFINE inside == nic.ns = "detached" \/ (nic.ns = p /\ PathAlive(h))
<1>1. nic \in Nic /\ p # "host" /\ p # "detached" /\ PathAlive(h) \in BOOLEAN
  BY PodNetworkAssumption DEF Structure, TypeOK, PathAlive
<1>2. \/ inside /\ nic' = Close([nic EXCEPT !.name = "pod"])
      \/ \E name \in {nic.name} \cup (IF inside THEN {"pod"} ELSE {}) :
           LET x == [nic EXCEPT !.name = name] IN
           \/ nic' = Close(x)
           \/ \E ok \in BOOLEAN, y \in Nic : Restores(p, PathAlive(h), x, y, ok) /\ nic' = Close(y)
  BY Zenon DEF attachConfigure
<1>3. CASE inside /\ nic' = Close([nic EXCEPT !.name = "pod"])
  BY <1>1, <1>3 DEF Close, Nic
<1>4. ASSUME NEW name \in {nic.name} \cup (IF inside THEN {"pod"} ELSE {}),
             LET x == [nic EXCEPT !.name = name] IN
             \/ nic' = Close(x)
             \/ \E ok \in BOOLEAN, y \in Nic : Restores(p, PathAlive(h), x, y, ok) /\ nic' = Close(y)
      PROVE  /\ nic'.ns = p => nic.ns = p
             /\ ~PathAlive(h) /\ nic.ns = p => nic' = nic
  <2> DEFINE x == [nic EXCEPT !.name = name]
  <2>1. x \in Nic /\ x.ns = nic.ns /\ (~PathAlive(h) /\ nic.ns = p => x = nic)
    BY <1>1, <1>4 DEF Nic
  <2>2. ASSUME NEW y \in Nic, nic' = Close(y),
               x.ns = p /\ ~PathAlive(h) => y = x,
               y.ns = p => x.ns = p
        PROVE  /\ nic'.ns = p => nic.ns = p
               /\ ~PathAlive(h) /\ nic.ns = p => nic' = nic
    BY <1>1, <2>1, <2>2 DEF Close, Nic
  <2> HIDE DEF x
  <2>3. CASE nic' = Close(x)
    BY <2>1, <2>2, <2>3
  <2>4. ASSUME NEW ok \in BOOLEAN, NEW y \in Nic, Restores(p, PathAlive(h), x, y, ok), nic' = Close(y)
        PROVE  /\ nic'.ns = p => nic.ns = p
               /\ ~PathAlive(h) /\ nic.ns = p => nic' = nic
    <3>1. /\ x.ns = p /\ ~PathAlive(h) => y = x
          /\ y.ns = p => x.ns = p
      BY <1>1, <2>1, <2>4, RestoresStays
    <3>2. QED
      BY <2>2, <2>4, <3>1
  <2>5. QED
    BY <1>4, <2>3, <2>4 DEF x
<1>5. QED
  BY <1>2, <1>3, <1>4

\* What an attaching step does to the handlers.
LEMMA AttachHandlers ==
    ASSUME Structure, NEW p \in Pods, NEW h \in Handlers,
           attachLink(p, h) \/ attachMove(p, h) \/ attachConfigure(p, h)
    PROVE  /\ made' = made /\ nri[h].pod = p
           /\ sandbox'[p] = "creating" => sandbox[p] = "creating"
           /\ \A g \in Handlers \ {h} : nri'[g] = nri[g]
           /\ nri'[h].pod = p => nri'[h].sandbox = nri[h].sandbox
           /\ nri'[h].pod = p /\ nri'[h].pc = "configure" => nic'.name = "original" /\ attachMove(p, h)
<1>1. /\ nri[h].pod = p /\ UNCHANGED made
      /\ \/ RunFails(p, h) \/ Attached(h)
         \/ /\ nri' = [nri EXCEPT ![h].pc = "configure"] /\ UNCHANGED sandbox
            /\ nic' = [ns |-> p, name |-> "original", conf |-> "altered"] /\ attachMove(p, h)
  BY DEF attachLink, attachMove, attachConfigure, Handling, AttachFails
<1>2. nri \in [Handlers -> Working] /\ NriIdle.pod # p
  BY PodNetworkAssumption DEF Structure, TypeOK, Working, NriIdle
<1>3. \A g \in Handlers \ {h} : nri'[g] = nri[g]
  BY <1>1, <1>2 DEF RunFails, Attached
<1>4. sandbox'[p] = "creating" => sandbox[p] = "creating"
  BY <1>1 DEF RunFails, Attached, Structure, TypeOK
<1>5. \/ nri'[h] = NriIdle
      \/ nri'[h] = [nri[h] EXCEPT !.pc = "report"]
      \/ /\ nri'[h] = [nri[h] EXCEPT !.pc = "configure"]
         /\ nic'.name = "original" /\ attachMove(p, h)
  BY <1>1, <1>2 DEF RunFails, Attached
<1>6. nri[h] \in Working
  BY <1>2
<1>7. QED
  BY <1>1, <1>2, <1>3, <1>4, <1>5, <1>6 DEF Working

LEMMA AttachApart ==
    ASSUME Structure, NEW p \in Pods, Apart(p), NEW h \in Handlers,
           attachLink(p, h) \/ attachMove(p, h) \/ attachConfigure(p, h)
    PROVE  Apart(p)'
<1>1. /\ made' = made /\ nri[h].pod = p
      /\ sandbox'[p] = "creating" => sandbox[p] = "creating"
      /\ \A g \in Handlers \ {h} : nri'[g] = nri[g]
      /\ nri'[h].pod = p => nri'[h].sandbox = nri[h].sandbox
      /\ nri'[h].pod = p /\ nri'[h].pc = "configure" => nic'.name = "original" /\ attachMove(p, h)
  BY AttachHandlers
<1>2. \A g \in Handlers : nri'[g].pod = p => nri'[g].sandbox <= made'[p]
  BY <1>1 DEF Apart
<1>3. sandbox'[p] = "creating" /\ nri'["late"].pod = p => nri'["late"].sandbox < made'[p]
  BY <1>1 DEF Apart, Handlers
<1>4. ASSUME NEW g \in Handlers, Handling(g, "configure", p)', nri'[g].sandbox = made'[p], nic'.ns = p
      PROVE  nic'.name = "original"
  <2>1. nri'[g].pod = p /\ nri'[g].pc = "configure"
    BY <1>4 DEF Handling
  <2>2. CASE g = h
    BY <1>1, <2>1, <2>2
  <2>3. CASE g # h
    <3>1. Handling(g, "configure", p) /\ nri[g].sandbox = made[p] /\ nri[g].pod = p
      BY <1>1, <1>4, <2>1, <2>3 DEF Handling
    <3>2. CASE attachLink(p, h)
      BY <1>4, <3>1, <3>2 DEF attachLink, Apart
    <3>3. CASE attachMove(p, h)
      <4>1. nic' = nic \/ nic'.name = "original"
        BY <3>3 DEF attachMove, Home
      <4>2. QED
        BY <1>4, <3>1, <4>1 DEF Apart
    <3>4. CASE attachConfigure(p, h)
      <4>1. ~PathAlive(h)
        BY <1>1, <2>3, <3>1, OneOfPresent DEF PathAlive
      <4>2. nic' = nic
        BY <1>4, <3>4, <4>1, ConfigureNic
      <4>3. QED
        BY <1>4, <3>1, <4>2 DEF Apart
    <3>5. QED
      BY <3>2, <3>3, <3>4
  <2>4. QED
    BY <2>2, <2>3
<1>5. QED
  BY <1>2, <1>3, <1>4 DEF Apart

\* A new sandbox has a number above those of all handlers.
LEMMA CreateApart ==
    ASSUME Structure, NEW p \in Pods, Apart(p), CreateSandbox(p)
    PROVE  Apart(p)'
<1>1. made[p] \in Nat /\ made'[p] = made[p] + 1 /\ UNCHANGED nri
  BY DEF CreateSandbox, Structure, TypeOK
<1>2. \A h \in Handlers : nri[h].sandbox \in Nat
  BY DEF Structure, TypeOK
<1>3. \A h \in Handlers : nri'[h].pod = p => nri'[h].sandbox < made'[p]
  BY <1>1, <1>2 DEF Apart
<1>4. \A h \in Handlers : nri'[h].pod = p => nri'[h].sandbox <= made'[p] /\ nri'[h].sandbox # made'[p]
  BY <1>1, <1>2, <1>3
<1>5. QED
  BY <1>3, <1>4 DEF Apart, Handling, Handlers

\* The handler of the present sandbox begins with nothing in hand.
LEMMA RunApart ==
    ASSUME Structure, NEW p \in Pods, NEW q \in Pods, Apart(q), RunPodSandbox(p)
    PROVE  Apart(q)'
<1>1. /\ UNCHANGED <<nic, made>> /\ sandbox[p] = "creating" /\ nri["event"] = NriIdle
      /\ nri'["late"] = nri["late"]
      /\ \/ nri'["event"] = NriIdle
         \/ /\ nri'["event"].pod = p /\ nri'["event"].sandbox = made[p]
            /\ nri'["event"].pc # "configure"
  BY DEF RunPodSandbox, RunFails, Structure, TypeOK, Handlers
<1>2. NriIdle.pod # q
  BY PodNetworkAssumption DEF NriIdle
<1>3. sandbox'[q] = "creating" => sandbox[q] = "creating"
  BY DEF RunPodSandbox, RunFails, Structure, TypeOK
<1>4. made[q] \in Nat
  BY DEF Structure, TypeOK
<1>5. \A h \in Handlers : nri'[h].pod = q => nri'[h].sandbox <= made'[q]
  BY <1>1, <1>2, <1>4 DEF Apart, Handlers
<1>6. QED
  BY <1>1, <1>2, <1>3, <1>5 DEF Apart, Handling, Handlers

\* A handler that is given up belongs to a sandbox that runs from then on.
LEMMA TimeoutApart ==
    ASSUME Structure, NEW p \in Pods, Apart(p), RunTimeout(p)
    PROVE  Apart(p)'
<1>1. /\ UNCHANGED <<nic, made>> /\ sandbox'[p] = "running"
      /\ nri'["event"] = NriIdle /\ nri'["late"] \in {nri["event"], NriIdle}
  BY DEF RunTimeout, Structure, TypeOK, Handlers
<1>2. NriIdle.pod # p
  BY PodNetworkAssumption DEF NriIdle
<1>3. QED
  BY <1>1, <1>2 DEF Apart, Handling, Handlers

LEMMA EventAside ==
    ASSUME Structure, NEW p \in Pods, NEW q \in Pods, StopPodSandbox(p) \/ RemovePodSandbox(p)
    PROVE  /\ Aside(q)
           /\ p # q => NicStays(q)
<1>1. PICK path \in BOOLEAN : restorePodHostDevices(p, path)
  BY DEF StopPodSandbox, RemovePodSandbox
<1>2. UNCHANGED <<nri, made>>
  BY <1>1 DEF restorePodHostDevices
<1>3. sandbox'[q] = "creating" => sandbox[q] = "creating"
  BY DEF StopPodSandbox, RemovePodSandbox, Structure, TypeOK
<1>4. CASE UNCHANGED nic
  BY <1>2, <1>3, <1>4, UntouchedStays DEF Aside
<1>5. ASSUME NEW err \in RestoreErrors, restoreAndRecord(p, path, err, disk)
      PROVE  /\ Aside(q)
             /\ p # q => NicStays(q)
  <2>1. nic' = nic \/ \E ok \in BOOLEAN : Restores(p, path, nic, nic', ok)
    BY <1>5, Zenon DEF restoreAndRecord
  <2>2. nic \in Nic
    BY DEF Structure, TypeOK
  <2>3. nic'.ns = q => nic.ns = q /\ nic'.name \in {nic.name, "original"}
    BY <2>1, <2>2, RestoresStays
  <2>4. p # q => NicStays(q)
    BY <1>5, RestoreStays
  <2>5. QED
    BY <1>2, <1>3, <2>3, <2>4 DEF Aside
<1>6. QED
  BY <1>1, <1>4, <1>5 DEF restorePodHostDevices

LEMMA ApartKept ==
    ASSUME Structure, AllApart, [Next]_vars
    PROVE  AllApart'
<1> SUFFICES ASSUME NEW q \in Pods PROVE Apart(q)'
  BY DEF AllApart
<1>1. Apart(q)
  BY DEF AllApart
<1>2. ASSUME NEW p \in Pods, PodStep(p) PROVE Apart(q)'
  BY <1>1, <1>2, CreateApart, TimeoutApart, PodStepQuiet, QuietAside, AsideKeeps
<1>3. ASSUME NEW p \in Pods, DriverStep(p) PROVE Apart(q)'
  <2>1. ASSUME NEW h \in Handlers, attachLink(p, h) \/ attachMove(p, h) \/ attachConfigure(p, h)
        PROVE  Apart(q)'
    BY <1>1, <2>1, AttachApart, AttachQuiet, QuietAside, AsideKeeps
  <2>2. ASSUME StopPodSandbox(p) \/ RemovePodSandbox(p) PROVE Apart(q)'
    BY <1>1, <2>2, EventAside, AsideKeeps
  <2>3. ASSUME prepareClaim(p) \/ UnprepareRestore(p) \/ UnprepareForget(p) PROVE Apart(q)'
    BY <1>1, <2>3, DRAQuiet, QuietAside, AsideKeeps
  <2>4. ASSUME reportAttached(p) PROVE Apart(q)'
    <3>1. /\ UNCHANGED <<nic, made>> /\ nri'["event"] = NriIdle /\ nri'["late"] = nri["late"]
          /\ sandbox'[q] = "creating" => sandbox[q] = "creating"
      BY <2>4 DEF reportAttached, RunFails, Structure, TypeOK, Handlers
    <3>2. NriIdle.pod # q
      BY PodNetworkAssumption DEF NriIdle
    <3>3. Aside(q)
      BY <3>1, <3>2 DEF Aside, Handlers
    <3>4. QED
      BY <1>1, <3>3, AsideKeeps
  <2>5. QED
    BY <1>1, <1>3, <2>1, <2>2, <2>3, <2>4, RunApart DEF DriverStep
<1>4. ASSUME publishTick \/ Crash \/ Start \/ Disconnect \/ Synchronize \/ UNCHANGED vars
      PROVE  Apart(q)'
  BY <1>1, <1>4, ProcessQuiet, QuietAside, AsideKeeps
<1>5. QED
  BY <1>2, <1>3, <1>4 DEF Next

LEMMA ApartInit == Init => AllApart
<1> SUFFICES ASSUME Init, NEW p \in Pods PROVE Apart(p)
  BY DEF AllApart
<1>1. \A h \in Handlers : nri[h].pod # p
  BY PodNetworkAssumption DEF Init, NriIdle
<1>2. QED
  BY <1>1 DEF Apart, Handling, Handlers

\* However many sandboxes a Pod gets: no handler, late handler, rollback,
\* Synchronize, restart or step for another Pod takes an attached NIC out of a
\* sandbox that goes on running; a RemovePodSandbox of the same Pod may.
THEOREM OnlyRemovesTakeNic == Spec => OnlyRemoveTakesNic
<1>1. Init => Structure /\ AllApart
  BY StructureInit, ApartInit
<1>2. Structure /\ AllApart /\ [Next]_vars => (Structure /\ AllApart)'
  BY StructureKept, ApartKept
<1> DEFINE Keeps == \A p \in Pods : RunsOn(p) => nic'.ns = p \/ dead'[p] < dead[p]
<1>3. Structure /\ AllApart /\ [Next]_vars => [Keeps]_vars
  <2> SUFFICES ASSUME Structure, AllApart, [Next]_vars, NEW q \in Pods, RunsOn(q)
               PROVE  nic'.ns = q \/ dead'[q] < dead[q]
    OBVIOUS
  <2>1. Apart(q) /\ nic.ns = q /\ nic.name = "pod" /\ sandbox[q] = "running" /\ sandbox'[q] = "running"
    BY DEF AllApart, RunsOn
  <2>2. ASSUME NicStays(q) PROVE nic'.ns = q
    BY <2>1, <2>2 DEF NicStays
  <2>3. ASSUME NEW p \in Pods, PodStep(p) PROVE nic'.ns = q
    <3>1. CASE CreateSandbox(p) \/ RunTimeout(p)
      BY <2>1, <3>1 DEF CreateSandbox, RunTimeout
    <3>2. QED
      BY <2>2, <2>3, <3>1, PodStepQuiet DEF Quiet
  <2>4. ASSUME NEW p \in Pods, DriverStep(p) PROVE nic'.ns = q \/ dead'[q] < dead[q]
    <3>1. ASSUME NEW h \in Handlers, attachLink(p, h) PROVE nic'.ns = q
      BY <2>1, <3>1 DEF attachLink
    <3>2. ASSUME NEW h \in Handlers, attachMove(p, h) PROVE nic'.ns = q
      BY <2>1, <3>2, PodNetworkAssumption DEF attachMove
    <3>3. ASSUME NEW h \in Handlers, attachConfigure(p, h) PROVE nic'.ns = q
      <4>1. CASE p # q
        BY <2>2, <3>3, <4>1, ConfigureStays
      <4>2. CASE p = q
        <5>1. Handling(h, "configure", q)
          BY <3>3, <4>2 DEF attachConfigure
        <5>2. ~PathAlive(h)
          BY <2>1, <5>1 DEF PathAlive, Apart, Handling
        <5>3. QED
          BY <2>1, <3>3, <4>2, <5>2, ConfigureNic
      <4>3. QED
        BY <4>1, <4>2
    <3>4. ASSUME StopPodSandbox(p) PROVE nic'.ns = q
      <4>1. p # q
        BY <2>1, <3>4 DEF StopPodSandbox, Structure, TypeOK
      <4>2. QED
        BY <2>2, <3>4, <4>1, EventAside
    <3>5. ASSUME RemovePodSandbox(p) PROVE nic'.ns = q \/ dead'[q] < dead[q]
      <4>1. CASE p # q
        BY <2>2, <3>5, <4>1, EventAside
      <4>2. CASE p = q
        BY <3>5, <4>2 DEF RemovePodSandbox, Structure, TypeOK
      <4>3. QED
        BY <4>1, <4>2
    <3>6. ASSUME prepareClaim(p) \/ UnprepareRestore(p) \/ UnprepareForget(p) PROVE nic'.ns = q
      BY <2>2, <3>6, DRAQuiet DEF Quiet
    <3>7. ASSUME RunPodSandbox(p) \/ reportAttached(p) PROVE nic'.ns = q
      BY <2>1, <3>7 DEF RunPodSandbox, reportAttached
    <3>8. QED
      BY <2>4, <3>1, <3>2, <3>3, <3>4, <3>5, <3>6, <3>7 DEF DriverStep
  <2>5. ASSUME publishTick \/ Crash \/ Start \/ Disconnect \/ Synchronize \/ UNCHANGED vars
        PROVE  nic'.ns = q
    BY <2>2, <2>5, ProcessQuiet DEF Quiet
  <2>6. QED
    BY <2>3, <2>4, <2>5 DEF Next
<1>4. QED
  BY <1>1, <1>2, <1>3, PTL DEF Spec, OnlyRemoveTakesNic
=============================================================================
