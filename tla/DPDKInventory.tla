---------------------------- MODULE DPDKInventory ----------------------------
(***************************************************************************)
(* Which PCI functions the driver offers to DPDK workloads, and what a     *)
(* claim gets of them (internal/driver/dpdk.go, internal/config/config.go).*)
(* The functions of a node, their kernel drivers and with them the numbers *)
(* of their device nodes change while the driver runs; it reads them from  *)
(* sysfs at each tick of publishLoop and works from what it saw then.      *)
(***************************************************************************)
EXTENDS Naturals, FiniteSets

CONSTANTS
    Functions,   \* PCI functions, by their address
    BehindIOMMU, \* those of them that an IOMMU isolates
    Vendor,      \* Vendor[f] and Device[f]: the ids of the card at that address
    Device,
    Numbers,     \* numbers of IOMMU groups and of uio devices
    Configs,     \* the DPDK configurations that the file may have
    DpdkClaims,  \* claims for one DPDK device each
    Absent       \* no device, no number

\* uio_pci_generic and igb_uio are treated alike; "other" is a network driver.
Drivers == {"vfio-pci", "uio", "other"}

\* The fields of DPDKConfig that decide; an empty set is a field left out.
Selectors == [pciAddresses: SUBSET Functions, vendors: SUBSET {Vendor[f] : f \in Functions},
              devices: SUBSET {Device[f] : f \in Functions}]
NoSelector == [pciAddresses |-> {}, vendors |-> {}, devices |-> {}]
DPDKConfigs == [enabled: BOOLEAN, allowUnsafe: BOOLEAN, allowed: SUBSET (Drivers \ {"other"}),
                include: Selectors, exclude: Selectors]

\* A function as sysfs and /dev show it: its driver, the number of its IOMMU
\* group and of its uio device, and whether the device nodes are there.
Sysfs == [driver: Drivers, group: Numbers \cup {Absent}, uio: Numbers \cup {Absent}, nodes: BOOLEAN]

ASSUME DPDKInventoryAssumption ==
    /\ BehindIOMMU \subseteq Functions
    /\ IsFiniteSet(Functions)
    /\ Configs \subseteq DPDKConfigs
    /\ Functions \cap DpdkClaims = {}
    /\ Absent \notin Functions \cup Numbers \cup Sysfs
                     \cup [mode: {"uio", "iommu", "noiommu"}, number: Numbers]

VARIABLES
    cfg,          \* the DPDK part of the configuration, as Load returned it
    sys,          \* sys[f]: the function as the kernel shows it, or Absent
    dpdkDevices,  \* what the driver saw at the last tick
    slice,        \* the DPDK devices in the ResourceSlice
    allocated,    \* allocated[c]: the function that DRA gave to claim c
    handed,       \* handed[c]: the device node in the CDI spec of claim c
    stale         \* history: functions that changed since the tick that found them, and
                  \* claims whose function did since the tick their spec was made from

inventoryVars == <<cfg, sys, dpdkDevices, slice, allocated, handed, stale>>

\* Load refuses unsafe devices without a list of addresses.
Loads(c) == c.enabled /\ c.allowUnsafe => c.include.pciAddresses # {}

\* setDPDKDefaults.
setDPDKDefaults(c) == [c EXCEPT !.allowed = IF @ = {} THEN {"vfio-pci"} ELSE @]

\* Mutant: it is enough that one of the fields names the function.
selectorAllowsAny(s, f, emptyMatches) ==
    IF s = NoSelector THEN emptyMatches
    ELSE f \in s.pciAddresses \/ Vendor[f] \in s.vendors \/ Device[f] \in s.devices

\* selectorAllows: every field that is given must name the function, in an exclude
\* too; what an empty selector means is up to the caller.
selectorAllows(s, f, emptyMatches) ==
    IF s = NoSelector THEN emptyMatches
    ELSE /\ s.pciAddresses = {} \/ f \in s.pciAddresses
         /\ s.vendors = {} \/ Vendor[f] \in s.vendors
         /\ s.devices = {} \/ Device[f] \in s.devices

Present == {f \in Functions : sys[f] # Absent}
Members(g) == {f \in Present : sys[f].group = g}

\* Mutant: a group with several functions passes.
AloneOrMore(g) == Members(g) # {}

\* The group directory in sysfs lists one function.
Alone(g) == Cardinality(Members(g)) = 1

\* deviceNodes: the mode of a function and the number in the name of its node, or
\* Absent if a node is missing.  Without an IOMMU the node of a group is called
\* noiommu-<number>.
deviceNodes(f) ==
    CASE sys[f].nodes /\ sys[f].driver = "vfio-pci" /\ sys[f].group # Absent ->
           [mode |-> IF f \in BehindIOMMU THEN "iommu" ELSE "noiommu", number |-> sys[f].group]
      [] sys[f].nodes /\ sys[f].driver = "uio" /\ sys[f].uio # Absent ->
           [mode |-> "uio", number |-> sys[f].uio]
      [] OTHER -> Absent

\* discoverDPDKDevices: the functions that pass all filters.
Eligible(f) ==
    /\ cfg.enabled
    /\ sys[f] # Absent
    /\ sys[f].driver \in cfg.allowed
    /\ selectorAllows(cfg.include, f, TRUE)
    /\ ~selectorAllows(cfg.exclude, f, FALSE)
    /\ deviceNodes(f) # Absent
    /\ sys[f].driver = "vfio-pci" =>
         /\ Alone(sys[f].group)
         /\ deviceNodes(f).mode = "noiommu" => cfg.allowUnsafe

discoverDPDKDevices == [f \in Functions |-> IF Eligible(f) THEN deviceNodes(f) ELSE Absent]

\* publish: the devices that are found replace those that were.
publishDPDK ==
    /\ dpdkDevices' = discoverDPDKDevices
    /\ slice' = {f \in Functions : dpdkDevices'[f] # Absent}
    /\ stale' = stale \ Functions
    /\ UNCHANGED <<cfg, sys, allocated, handed>>

\* External: the scheduler gives a published device to one claim at a time.
Allocate(c, f) ==
    /\ allocated[c] = Absent
    /\ f \in slice
    /\ \A d \in DpdkClaims : allocated[d] # f
    /\ allocated' = [allocated EXCEPT ![c] = f]
    /\ UNCHANGED <<cfg, sys, dpdkDevices, slice, handed, stale>>

\* prepareClaim and prepareDPDKDevice: a device that the driver does not know
\* is an error; the CDI spec is made from what was seen at the last tick.
prepareDPDKDevice(c) ==
    /\ allocated[c] # Absent
    /\ dpdkDevices[allocated[c]] # Absent
    /\ handed' = [handed EXCEPT ![c] = dpdkDevices[allocated[c]]]
    /\ stale' = IF allocated[c] \in stale THEN stale \cup {c} ELSE stale \ {c}
    /\ UNCHANGED <<cfg, sys, dpdkDevices, slice, allocated>>

\* Unprepare removes the spec, then DRA takes the device back.
Release(c) ==
    /\ allocated[c] # Absent
    /\ handed' = [handed EXCEPT ![c] = Absent]
    /\ allocated' = [allocated EXCEPT ![c] = Absent]
    /\ stale' = stale \ {c}
    /\ UNCHANGED <<cfg, sys, dpdkDevices, slice>>

\* External: what the kernel may make of f.  A function behind an IOMMU is in a
\* group as long as it is on the bus, whatever its driver; any other one is put
\* into a group of its own by vfio-pci.  No two functions have one uio device.
\* Numbers that are no longer used are given again.
Possible(f, s) ==
    /\ s.group # Absent <=> (f \in BehindIOMMU \/ s.driver = "vfio-pci")
    /\ s.uio # Absent <=> s.driver = "uio"
    /\ s.nodes => s.driver # "other"
    /\ f \in BehindIOMMU /\ sys[f] # Absent => s.group = sys[f].group
    /\ \A h \in Present \ {f} :
         /\ s.group # Absent /\ sys[h].group = s.group => {f, h} \subseteq BehindIOMMU
         /\ s.uio # Absent => sys[h].uio # s.uio

\* External: a function appears, is bound to another driver, gets or loses its
\* device nodes, or goes away, a virtual one for example, to be made anew later.
Change(f, s) ==
    /\ s # sys[f]
    /\ s # Absent => Possible(f, s)
    /\ sys' = [sys EXCEPT ![f] = s]
    /\ stale' = stale \cup {x \in {f} : dpdkDevices[x] # Absent}
                      \cup {c \in DpdkClaims : allocated[c] = f /\ handed[c] # Absent}
    /\ UNCHANGED <<cfg, dpdkDevices, slice, allocated, handed>>

\* The process is started again: it knows no device until it publishes, the
\* slice and the specs are still there.
RestartInventory ==
    /\ dpdkDevices' = [f \in Functions |-> Absent]
    /\ stale' = stale \ Functions
    /\ UNCHANGED <<cfg, sys, slice, allocated, handed>>

InventoryInit ==
    /\ \E c \in Configs : Loads(c) /\ cfg = setDPDKDefaults(c)
    /\ sys = [f \in Functions |-> Absent]
    /\ dpdkDevices = [f \in Functions |-> Absent]
    /\ slice = {}
    /\ allocated = [c \in DpdkClaims |-> Absent]
    /\ handed = [c \in DpdkClaims |-> Absent]
    /\ stale = {}

InventoryNext ==
    \/ publishDPDK \/ RestartInventory
    \/ \E c \in DpdkClaims : prepareDPDKDevice(c) \/ Release(c) \/ \E f \in Functions : Allocate(c, f)
    \/ \E f \in Functions, s \in Sysfs \cup {Absent} : Change(f, s)

InventorySpec == InventoryInit /\ [][InventoryNext]_inventoryVars

-----------------------------------------------------------------------------
\* "This prevents separate claims from sharing one DMA-isolation boundary": two
\* claims are handed one device node, of an IOMMU group or of a uio device, only
\* if the function of one of them was changed after the tick that found it.  The
\* ticks of the two may be far apart, functions appear in their groups and are
\* bound and removed in between, and numbers are given again.
SharedOnlyIfChanged ==
    \A c, d \in DpdkClaims : c # d /\ handed[c] # Absent /\ handed[c] = handed[d] =>
        c \in stale \/ d \in stale

\* An unsafe device is handed out only where the administrator has allowed that,
\* has listed its address, and has not excluded it by its address alone: the
\* vendors and devices of an include narrow the list and never add to it, those
\* of an exclude leave out only what all of its fields name.
UnsafeOnlyIfListed ==
    \A c \in DpdkClaims :
        handed[c] # Absent /\ handed[c].mode = "noiommu" =>
            /\ cfg.allowUnsafe /\ allocated[c] \in cfg.include.pciAddresses
            /\ allocated[c] \in cfg.exclude.pciAddresses =>
                 cfg.exclude.vendors # {} \/ cfg.exclude.devices # {}
=============================================================================
