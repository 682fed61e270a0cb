------------------------- MODULE DPDKInventoryProofs -------------------------
(***************************************************************************)
(* Theorems about DPDKInventory: what a claim is handed stays its own as   *)
(* long as its function is left alone, and was allowed, for any number of  *)
(* functions, groups and claims.                                           *)
(***************************************************************************)
EXTENDS DPDKInventory, FiniteSetTheorems, TLAPS

\* What discoverDPDKDevices may find.
Nodes == [mode: {"uio", "iommu", "noiommu"}, number: Numbers]

InventoryTypes ==
    /\ cfg \in DPDKConfigs
    /\ cfg.enabled /\ cfg.allowUnsafe => cfg.include.pciAddresses # {}
    /\ sys \in [Functions -> Sysfs \cup {Absent}]
    /\ dpdkDevices \in [Functions -> Nodes \cup {Absent}]
    /\ allocated \in [DpdkClaims -> Functions \cup {Absent}]
    /\ handed \in [DpdkClaims -> Nodes \cup {Absent}]

\* The kernel gives a number to one function at a time, save that functions
\* behind an IOMMU may share a group.
NumbersOwn ==
    \A f, h \in Present : f # h =>
        /\ sys[f].group # Absent /\ sys[f].group = sys[h].group => f \in BehindIOMMU
        /\ sys[f].uio # Absent => sys[f].uio # sys[h].uio

\* An unsafe node d may be handed out for f.
Listed(d, f) ==
    d.mode = "noiommu" =>
        /\ cfg.allowUnsafe /\ f \in cfg.include.pciAddresses
        /\ f \in cfg.exclude.pciAddresses => cfg.exclude.vendors # {} \/ cfg.exclude.devices # {}

EntriesListed ==
    /\ \A f \in Functions : dpdkDevices[f] # Absent => Listed(dpdkDevices[f], f)
    /\ \A c \in DpdkClaims : handed[c] # Absent =>
         allocated[c] # Absent /\ Listed(handed[c], allocated[c])

\* The node is still that of the function, unless it is marked as changed.
HasNode(f, d) == sys[f] # Absent /\ d = deviceNodes(f)
AsFound ==
    /\ \A f \in Functions : dpdkDevices[f] # Absent /\ f \notin stale => HasNode(f, dpdkDevices[f])
    /\ \A c \in DpdkClaims : handed[c] # Absent /\ c \notin stale => HasNode(allocated[c], handed[c])

AllocatedOnce ==
    \A c, d \in DpdkClaims : allocated[c] # Absent /\ allocated[c] = allocated[d] => c = d

\* The functions that are as they were when the driver found them, at the last
\* tick or at the one that a spec was made from.
Holders ==
    {f \in Functions :
        \/ dpdkDevices[f] # Absent /\ f \notin stale
        \/ \E c \in DpdkClaims : allocated[c] = f /\ handed[c] # Absent /\ c \notin stale}

\* One of two such functions was found while the other was there: they have
\* different nodes.
OneHolder == \A f, h \in Holders : deviceNodes(f) = deviceNodes(h) => f = h

InventoryInv ==
    InventoryTypes /\ NumbersOwn /\ EntriesListed /\ AsFound /\ AllocatedOnce /\ OneHolder

LEMMA InventoryInvInit == InventoryInit => InventoryInv
<1> SUFFICES ASSUME InventoryInit PROVE InventoryInv
  OBVIOUS
<1>1. InventoryTypes
  <2>1. PICK c \in Configs : Loads(c) /\ cfg = setDPDKDefaults(c)
    BY DEF InventoryInit
  <2>2. c \in DPDKConfigs
    BY DPDKInventoryAssumption
  <2>3. cfg \in DPDKConfigs /\ (cfg.enabled /\ cfg.allowUnsafe => cfg.include.pciAddresses # {})
    BY <2>1, <2>2 DEF Loads, setDPDKDefaults, DPDKConfigs, Drivers
  <2>4. QED
    BY <2>3 DEF InventoryInit, InventoryTypes
<1>2. NumbersOwn /\ EntriesListed /\ AsFound /\ AllocatedOnce /\ OneHolder
  BY DEF InventoryInit, NumbersOwn, Present, EntriesListed, AsFound, AllocatedOnce, OneHolder, Holders
<1>3. QED
  BY <1>1, <1>2 DEF InventoryInv

\* Where the node of a function comes from.
LEMMA NodeOf ==
    ASSUME InventoryTypes, NEW f \in Functions, sys[f] # Absent, deviceNodes(f) # Absent
    PROVE  /\ deviceNodes(f) \in Nodes
           /\ \/ /\ sys[f].driver = "uio"
                 /\ deviceNodes(f).mode = "uio"
                 /\ deviceNodes(f).number = sys[f].uio /\ sys[f].uio # Absent
              \/ /\ sys[f].driver = "vfio-pci"
                 /\ deviceNodes(f).mode = IF f \in BehindIOMMU THEN "iommu" ELSE "noiommu"
                 /\ deviceNodes(f).number = sys[f].group /\ sys[f].group # Absent
<1>1. sys[f] \in Sysfs
  BY DEF InventoryTypes
<1>2. CASE sys[f].nodes /\ sys[f].driver = "vfio-pci" /\ sys[f].group # Absent
  <2>1. deviceNodes(f) = [mode |-> IF f \in BehindIOMMU THEN "iommu" ELSE "noiommu",
                          number |-> sys[f].group]
    BY <1>2 DEF deviceNodes
  <2>2. sys[f].group \in Numbers
    BY <1>1, <1>2 DEF Sysfs
  <2>3. QED
    BY <1>2, <2>1, <2>2 DEF Nodes
<1>3. CASE sys[f].nodes /\ sys[f].driver = "uio" /\ sys[f].uio # Absent
  <2>1. deviceNodes(f) = [mode |-> "uio", number |-> sys[f].uio]
    BY <1>3 DEF deviceNodes
  <2>2. sys[f].uio \in Numbers
    BY <1>1, <1>3 DEF Sysfs
  <2>3. QED
    BY <1>3, <2>1, <2>2 DEF Nodes
<1>4. QED
  BY <1>2, <1>3 DEF deviceNodes

\* Two functions that are on the bus have one node only if they share an IOMMU
\* group.
LEMMA SameNode ==
    ASSUME InventoryTypes, NumbersOwn, NEW f \in Functions, NEW h \in Functions, f # h,
           sys[f] # Absent, sys[h] # Absent, deviceNodes(f) # Absent, deviceNodes(f) = deviceNodes(h)
    PROVE  sys[f].driver = "vfio-pci" /\ sys[f].group = sys[h].group
<1>1. f \in Present /\ h \in Present
  BY DEF Present
<1>2. /\ \/ /\ sys[f].driver = "uio"
            /\ deviceNodes(f).mode = "uio"
            /\ deviceNodes(f).number = sys[f].uio /\ sys[f].uio # Absent
         \/ /\ sys[f].driver = "vfio-pci"
            /\ deviceNodes(f).mode \in {"iommu", "noiommu"}
            /\ deviceNodes(f).number = sys[f].group /\ sys[f].group # Absent
      /\ \/ /\ deviceNodes(h).mode = "uio"
            /\ deviceNodes(h).number = sys[h].uio
         \/ /\ deviceNodes(h).mode \in {"iommu", "noiommu"}
            /\ deviceNodes(h).number = sys[h].group
  BY NodeOf
<1>3. deviceNodes(f).mode # "uio"
  BY <1>1, <1>2 DEF NumbersOwn
<1>4. QED
  BY <1>2, <1>3

\* What Eligible has looked at.
LEMMA EligibleFound ==
    ASSUME InventoryTypes, NEW f \in Functions, Eligible(f)
    PROVE  /\ deviceNodes(f) \in Nodes /\ sys[f] # Absent /\ deviceNodes(f) # Absent
           /\ Listed(deviceNodes(f), f)
           /\ sys[f].driver = "vfio-pci" => Members(sys[f].group) = {f}
<1>1. sys[f] # Absent /\ deviceNodes(f) # Absent
  BY DEF Eligible
<1>2. deviceNodes(f) \in Nodes
  BY <1>1, NodeOf
<1>3. Listed(deviceNodes(f), f)
  <2> SUFFICES ASSUME deviceNodes(f).mode = "noiommu"
               PROVE  /\ cfg.allowUnsafe /\ f \in cfg.include.pciAddresses
                      /\ f \in cfg.exclude.pciAddresses =>
                           cfg.exclude.vendors # {} \/ cfg.exclude.devices # {}
    BY DEF Listed
  <2>1. sys[f].driver = "vfio-pci"
    BY <1>1, NodeOf
  <2>2. cfg.enabled /\ cfg.allowUnsafe /\ cfg.include.pciAddresses # {}
    BY <2>1 DEF Eligible, InventoryTypes
  <2>3. f \in cfg.include.pciAddresses
    BY <2>2 DEF Eligible, selectorAllows, NoSelector
  <2>4. f \in cfg.exclude.pciAddresses => cfg.exclude.vendors # {} \/ cfg.exclude.devices # {}
    BY DEF Eligible, selectorAllows, NoSelector
  <2>5. QED
    BY <2>2, <2>3, <2>4
<1>4. ASSUME sys[f].driver = "vfio-pci" PROVE Members(sys[f].group) = {f}
  <2>1. f \in Members(sys[f].group)
    BY <1>1 DEF Members, Present
  <2>2. IsFiniteSet(Members(sys[f].group))
    BY FS_Subset, DPDKInventoryAssumption DEF Members, Present
  <2>3. Cardinality(Members(sys[f].group)) = 1
    BY <1>4 DEF Eligible, Alone
  <2>4. PICK x : Members(sys[f].group) = {x}
    BY <2>2, <2>3, FS_Singleton
  <2>5. QED
    BY <2>1, <2>4
<1>5. QED
  BY <1>1, <1>2, <1>3, <1>4

\* A function that is found has a node of its own among all that are there.
LEMMA FoundAlone ==
    ASSUME InventoryTypes, NumbersOwn, NEW f \in Functions, Eligible(f),
           NEW h \in Functions, sys[h] # Absent, deviceNodes(f) = deviceNodes(h)
    PROVE  f = h
<1> SUFFICES ASSUME f # h PROVE FALSE
  OBVIOUS
<1>1. sys[f] # Absent /\ deviceNodes(f) # Absent
  BY EligibleFound
<1>2. sys[f].driver = "vfio-pci" /\ sys[f].group = sys[h].group
  BY <1>1, SameNode
<1>3. h \in Members(sys[f].group)
  BY <1>2 DEF Members, Present
<1>4. QED
  BY <1>2, <1>3, EligibleFound

\* Every function that is as it was found is on the bus.
LEMMA HoldersPresent ==
    ASSUME InventoryTypes, AsFound, NEW f \in Holders
    PROVE  f \in Functions /\ sys[f] # Absent
  BY DPDKInventoryAssumption DEF Holders, AsFound, HasNode

LEMMA PublishKeeps == InventoryInv /\ publishDPDK => InventoryInv'
<1> SUFFICES ASSUME InventoryInv, publishDPDK PROVE InventoryInv'
  OBVIOUS
<1> USE DEF InventoryInv
<1>1. ASSUME NEW f \in Functions, dpdkDevices'[f] # Absent
      PROVE  Eligible(f) /\ dpdkDevices'[f] = deviceNodes(f)
  BY <1>1 DEF publishDPDK, discoverDPDKDevices
<1>2. UNCHANGED <<cfg, sys, allocated, handed>> /\ (\A c \in DpdkClaims : c \in stale' <=> c \in stale)
  BY DPDKInventoryAssumption DEF publishDPDK
<1>3. InventoryTypes'
  <2>1. ASSUME NEW f \in Functions PROVE dpdkDevices'[f] \in Nodes \cup {Absent}
    BY <1>1, EligibleFound
  <2>2. dpdkDevices' = [f \in Functions |-> dpdkDevices'[f]]
    BY DEF publishDPDK, discoverDPDKDevices
  <2>3. dpdkDevices' \in [Functions -> Nodes \cup {Absent}]
    BY <2>1, <2>2
  <2>4. QED
    BY <1>2, <2>3 DEF InventoryTypes
<1>4. NumbersOwn' /\ AllocatedOnce'
  BY <1>2 DEF NumbersOwn, Present, AllocatedOnce
<1>5. EntriesListed'
  <2>1. ASSUME NEW f \in Functions, dpdkDevices'[f] # Absent PROVE Listed(dpdkDevices[f], f)'
    BY <1>1, <1>2, <2>1, EligibleFound DEF Listed
  <2>2. ASSUME NEW c \in DpdkClaims, handed'[c] # Absent
        PROVE  allocated'[c] # Absent /\ Listed(handed[c], allocated[c])'
    BY <1>2, <2>2 DEF EntriesListed, Listed
  <2>3. QED
    BY <2>1, <2>2 DEF EntriesListed
<1>6. \A f \in Functions : deviceNodes(f)' = deviceNodes(f)
  BY <1>2 DEF deviceNodes
<1>7. AsFound'
  <2>1. ASSUME NEW f \in Functions, dpdkDevices'[f] # Absent PROVE HasNode(f, dpdkDevices[f])'
    BY <1>1, <1>2, <1>6, <2>1, EligibleFound DEF HasNode
  <2>2. ASSUME NEW c \in DpdkClaims, handed'[c] # Absent, c \notin stale'
        PROVE  HasNode(allocated[c], handed[c])'
    <3>1. allocated[c] \in Functions /\ HasNode(allocated[c], handed[c])
      BY <1>2, <2>2 DEF AsFound, EntriesListed, InventoryTypes
    <3>2. QED
      BY <1>2, <1>6, <3>1 DEF HasNode
  <2>3. QED
    BY <2>1, <2>2 DEF AsFound
<1>8. OneHolder'
  <2> SUFFICES ASSUME NEW f \in Holders', NEW h \in Holders', deviceNodes(f)' = deviceNodes(h)'
               PROVE  f = h
    BY DEF OneHolder
  <2>1. f \in Functions /\ sys[f] # Absent /\ h \in Functions /\ sys[h] # Absent
    BY <1>2, <1>3, <1>7, HoldersPresent DEF Holders, AsFound, HasNode, InventoryTypes
  <2>2. deviceNodes(f) = deviceNodes(h)
    BY <1>6, <2>1
  <2>3. CASE dpdkDevices'[f] # Absent
    BY <1>1, <2>1, <2>2, <2>3, FoundAlone
  <2>4. CASE dpdkDevices'[h] # Absent
    BY <1>1, <2>1, <2>2, <2>4, FoundAlone
  <2>5. CASE dpdkDevices'[f] = Absent /\ dpdkDevices'[h] = Absent
    <3>1. f \in Holders /\ h \in Holders
      BY <1>2, <2>1, <2>5 DEF Holders
    <3>2. QED
      BY <2>2, <3>1 DEF OneHolder
  <2>6. QED
    BY <2>3, <2>4, <2>5
<1>9. QED
  BY <1>3, <1>4, <1>5, <1>7, <1>8

\* A step that finds nothing new and leaves the kernel alone.
LEMMA FewerHolders ==
    ASSUME OneHolder, Holders' \subseteq Holders, sys' = sys
    PROVE  OneHolder'
<1>1. \A f \in Holders' : deviceNodes(f)' = deviceNodes(f)
  BY DEF deviceNodes
<1>2. QED
  BY <1>1 DEF OneHolder

LEMMA AllocateKeeps ==
    ASSUME InventoryInv, NEW c \in DpdkClaims, NEW f \in Functions, Allocate(c, f)
    PROVE  InventoryInv'
<1> USE DEF InventoryInv
<1>1. InventoryTypes'
  BY DEF Allocate, InventoryTypes
<1>2. handed[c] = Absent
  BY DEF Allocate, EntriesListed
<1>3. /\ \A d \in DpdkClaims : allocated'[d] = IF d = c THEN f ELSE allocated[d]
      /\ UNCHANGED <<cfg, sys, dpdkDevices, handed, stale>>
  BY DEF Allocate, InventoryTypes
<1>4. NumbersOwn'
  BY <1>3 DEF NumbersOwn, Present
<1>5. EntriesListed'
  BY <1>2, <1>3 DEF EntriesListed, Listed
<1>6. AsFound'
  BY <1>2, <1>3 DEF AsFound, HasNode, deviceNodes
<1>7. AllocatedOnce'
  BY <1>3 DEF AllocatedOnce, Allocate
<1>8. Holders' \subseteq Holders
  BY <1>2, <1>3 DEF Holders
<1>9. QED
  BY <1>1, <1>3, <1>4, <1>5, <1>6, <1>7, <1>8, FewerHolders

LEMMA PrepareKeeps ==
    ASSUME InventoryInv, NEW c \in DpdkClaims, prepareDPDKDevice(c)
    PROVE  InventoryInv'
<1> USE DEF InventoryInv
<1>1. allocated[c] \in Functions /\ dpdkDevices[allocated[c]] # Absent
  BY DEF prepareDPDKDevice, InventoryTypes
<1>2. /\ \A d \in DpdkClaims : handed'[d] = IF d = c THEN dpdkDevices[allocated[c]] ELSE handed[d]
      /\ UNCHANGED <<cfg, sys, dpdkDevices, allocated>>
  BY DEF prepareDPDKDevice, InventoryTypes
<1>3. /\ \A d \in DpdkClaims \ {c} : d \in stale' <=> d \in stale
      /\ \A f \in Functions : f \in stale' <=> f \in stale
      /\ c \in stale' <=> allocated[c] \in stale
  BY DPDKInventoryAssumption DEF prepareDPDKDevice
<1>4. InventoryTypes'
  BY <1>1 DEF prepareDPDKDevice, InventoryTypes
<1>5. NumbersOwn' /\ AllocatedOnce'
  BY <1>2 DEF NumbersOwn, Present, AllocatedOnce
<1>6. EntriesListed'
  <2>1. ASSUME NEW d \in DpdkClaims, handed'[d] # Absent
        PROVE  allocated'[d] # Absent /\ Listed(handed[d], allocated[d])'
    BY <2>1, <1>1, <1>2, DPDKInventoryAssumption DEF EntriesListed, Listed
  <2>2. ASSUME NEW f \in Functions, dpdkDevices'[f] # Absent PROVE Listed(dpdkDevices[f], f)'
    BY <2>2, <1>2 DEF EntriesListed, Listed
  <2>3. QED
    BY <2>1, <2>2 DEF EntriesListed
<1>7. AsFound'
  <2>1. ASSUME NEW d \in DpdkClaims, handed'[d] # Absent, d \notin stale'
        PROVE  HasNode(allocated[d], handed[d])
               \/ (d = c /\ HasNode(allocated[c], dpdkDevices[allocated[c]]))
    BY <2>1, <1>1, <1>2, <1>3 DEF AsFound
  <2>2. ASSUME NEW d \in DpdkClaims, handed'[d] # Absent, d \notin stale'
        PROVE  HasNode(allocated[d], handed[d])'
    BY <2>1, <2>2, <1>1, <1>2, <1>3 DEF AsFound, HasNode, deviceNodes
  <2>3. ASSUME NEW f \in Functions, dpdkDevices'[f] # Absent, f \notin stale'
        PROVE  HasNode(f, dpdkDevices[f])'
    BY <2>3, <1>2, <1>3 DEF AsFound, HasNode, deviceNodes
  <2>4. QED
    BY <2>2, <2>3 DEF AsFound
<1>8. Holders' \subseteq Holders
  BY <1>1, <1>2, <1>3 DEF Holders
<1>9. QED
  BY <1>2, <1>4, <1>5, <1>6, <1>7, <1>8, FewerHolders

LEMMA ReleaseKeeps ==
    ASSUME InventoryInv, NEW c \in DpdkClaims, Release(c)
    PROVE  InventoryInv'
<1> USE DEF InventoryInv
<1>1. /\ \A d \in DpdkClaims : /\ handed'[d] = IF d = c THEN Absent ELSE handed[d]
                               /\ allocated'[d] = IF d = c THEN Absent ELSE allocated[d]
      /\ UNCHANGED <<cfg, sys, dpdkDevices>>
  BY DEF Release, InventoryTypes
<1>2. \A x : x # c => (x \in stale' <=> x \in stale)
  BY DEF Release
<1>3. \A f \in Functions : f # c
  BY DPDKInventoryAssumption
<1>4. InventoryTypes'
  BY DEF Release, InventoryTypes
<1>5. NumbersOwn'
  BY <1>1 DEF NumbersOwn, Present
<1>6. EntriesListed'
  BY <1>1 DEF EntriesListed, Listed
<1>7. AsFound'
  BY <1>1, <1>2, <1>3 DEF AsFound, HasNode, deviceNodes
<1>8. AllocatedOnce'
  BY <1>1 DEF AllocatedOnce
<1>9. Holders' \subseteq Holders
  BY <1>1, <1>2, <1>3 DEF Holders
<1>10. QED
  BY <1>1, <1>4, <1>5, <1>6, <1>7, <1>8, <1>9, FewerHolders

\* A function that changes is marked wherever it was found.
LEMMA ChangeKeeps ==
    ASSUME InventoryInv, NEW f \in Functions, NEW s \in Sysfs \cup {Absent}, Change(f, s)
    PROVE  InventoryInv'
<1> USE DEF InventoryInv
<1>1. /\ \A h \in Functions : sys'[h] = IF h = f THEN s ELSE sys[h]
      /\ UNCHANGED <<cfg, dpdkDevices, allocated, handed>>
      /\ s # Absent => Possible(f, s)
  BY DEF Change, InventoryTypes
<1>2. /\ stale \subseteq stale'
      /\ dpdkDevices[f] # Absent => f \in stale'
      /\ \A c \in DpdkClaims : allocated[c] = f /\ handed[c] # Absent => c \in stale'
  BY DEF Change
<1>3. InventoryTypes'
  BY DEF Change, InventoryTypes
<1>4. NumbersOwn'
  <2> SUFFICES ASSUME NEW g \in Present', NEW h \in Present', g # h
               PROVE  /\ sys'[g].group # Absent /\ sys'[g].group = sys'[h].group => g \in BehindIOMMU
                      /\ sys'[g].uio # Absent => sys'[g].uio # sys'[h].uio
    BY DEF NumbersOwn
  <2>1. /\ g \in Functions /\ sys'[g] # Absent
        /\ h \in Functions /\ sys'[h] # Absent
    BY DEF Present
  <2>2. CASE g # f /\ h # f
    <3>1. g \in Present /\ h \in Present /\ sys'[g] = sys[g] /\ sys'[h] = sys[h]
      BY <1>1, <2>1, <2>2 DEF Present
    <3>2. QED
      BY <3>1 DEF NumbersOwn
  <2>3. CASE g = f
    <3>1. h \in Present \ {f} /\ sys'[g] = s /\ sys'[h] = sys[h] /\ s # Absent
      BY <1>1, <2>1, <2>3 DEF Present
    <3>2. QED
      BY <1>1, <2>3, <3>1 DEF Possible
  <2>4. CASE h = f
    <3>1. g \in Present \ {f} /\ sys'[h] = s /\ sys'[g] = sys[g] /\ s # Absent
      BY <1>1, <2>1, <2>4 DEF Present
    <3>2. QED
      BY <1>1, <2>4, <3>1 DEF Possible
  <2>5. QED
    BY <2>2, <2>3, <2>4
<1>5. EntriesListed'
  BY <1>1 DEF EntriesListed, Listed
<1>6. \A h \in Functions \ {f} : sys'[h] = sys[h] /\ deviceNodes(h)' = deviceNodes(h)
  BY <1>1 DEF deviceNodes
<1>7. AsFound'
  <2>1. ASSUME NEW h \in Functions, dpdkDevices'[h] # Absent, h \notin stale'
        PROVE  HasNode(h, dpdkDevices[h])'
    <3>1. h # f /\ HasNode(h, dpdkDevices[h])
      BY <1>1, <1>2, <2>1 DEF AsFound
    <3>2. QED
      BY <1>1, <1>6, <3>1 DEF HasNode
  <2>2. ASSUME NEW c \in DpdkClaims, handed'[c] # Absent, c \notin stale'
        PROVE  HasNode(allocated[c], handed[c])'
    <3>1. allocated[c] \in Functions \ {f} /\ HasNode(allocated[c], handed[c])
      BY <1>1, <1>2, <2>2 DEF AsFound, EntriesListed, InventoryTypes
    <3>2. QED
      BY <1>1, <1>6, <3>1 DEF HasNode
  <2>3. QED
    BY <2>1, <2>2 DEF AsFound
<1>8. AllocatedOnce'
  BY <1>1 DEF AllocatedOnce
<1>9. OneHolder'
  <2>1. Holders' \subseteq Holders \ {f}
    BY <1>1, <1>2 DEF Holders
  <2>2. \A h \in Holders' : deviceNodes(h)' = deviceNodes(h)
    BY <1>6, <2>1 DEF Holders
  <2>3. QED
    BY <2>1, <2>2 DEF OneHolder
<1>10. QED
  BY <1>3, <1>4, <1>5, <1>7, <1>8, <1>9

LEMMA RestartKeeps == InventoryInv /\ RestartInventory => InventoryInv'
<1> SUFFICES ASSUME InventoryInv, RestartInventory PROVE InventoryInv'
  OBVIOUS
<1> USE DEF InventoryInv
<1>1. /\ UNCHANGED <<cfg, sys, allocated, handed>>
      /\ \A f \in Functions : dpdkDevices'[f] = Absent
      /\ \A c \in DpdkClaims : c \in stale' <=> c \in stale
  BY DPDKInventoryAssumption DEF RestartInventory
<1>2. InventoryTypes' /\ AllocatedOnce' /\ NumbersOwn'
  BY DEF RestartInventory, InventoryTypes, AllocatedOnce, NumbersOwn, Present
<1>3. EntriesListed'
  BY <1>1 DEF EntriesListed, Listed
<1>4. AsFound'
  BY <1>1 DEF AsFound, HasNode, deviceNodes
<1>5. Holders' \subseteq Holders
  BY <1>1 DEF Holders
<1>6. QED
  BY <1>1, <1>2, <1>3, <1>4, <1>5, FewerHolders

LEMMA InventoryInvNext == InventoryInv /\ [InventoryNext]_inventoryVars => InventoryInv'
<1> SUFFICES ASSUME InventoryInv, [InventoryNext]_inventoryVars PROVE InventoryInv'
  OBVIOUS
<1>1. CASE UNCHANGED inventoryVars
  BY <1>1 DEF inventoryVars, InventoryInv, InventoryTypes, NumbersOwn, Present, EntriesListed, Listed,
              AsFound, HasNode, deviceNodes, AllocatedOnce, OneHolder, Holders
<1>2. CASE publishDPDK
  BY <1>2, PublishKeeps
<1>3. CASE RestartInventory
  BY <1>3, RestartKeeps
<1>4. ASSUME NEW c \in DpdkClaims,
             prepareDPDKDevice(c) \/ Release(c) \/ \E f \in Functions : Allocate(c, f)
      PROVE  InventoryInv'
  BY <1>4, PrepareKeeps, ReleaseKeeps, AllocateKeeps
<1>5. ASSUME NEW f \in Functions, NEW s \in Sysfs \cup {Absent}, Change(f, s) PROVE InventoryInv'
  BY <1>5, ChangeKeeps
<1>6. QED
  BY <1>1, <1>2, <1>3, <1>4, <1>5 DEF InventoryNext

LEMMA InventoryInvAlways == InventorySpec => []InventoryInv
  BY InventoryInvInit, InventoryInvNext, PTL DEF InventorySpec

\* However functions appear, go away and are bound anew, and however the kernel
\* gives numbers again, no two claims are handed one device node while their
\* functions are as they were at the ticks that found them.
THEOREM NodesNotShared == InventorySpec => []SharedOnlyIfChanged
<1>1. InventoryInv => SharedOnlyIfChanged
  <2> SUFFICES ASSUME InventoryInv, NEW c \in DpdkClaims, NEW d \in DpdkClaims, c # d,
                      handed[c] # Absent, handed[c] = handed[d], c \notin stale, d \notin stale
               PROVE  FALSE
    BY DEF SharedOnlyIfChanged
  <2>1. /\ allocated[c] \in Functions /\ HasNode(allocated[c], handed[c])
        /\ allocated[d] \in Functions /\ HasNode(allocated[d], handed[d])
    BY DEF InventoryInv, InventoryTypes, EntriesListed, AsFound
  <2>2. allocated[c] \in Holders /\ allocated[d] \in Holders
    BY <2>1 DEF Holders
  <2>3. allocated[c] = allocated[d]
    BY <2>1, <2>2 DEF InventoryInv, OneHolder, HasNode
  <2>4. QED
    BY <2>1, <2>3, DPDKInventoryAssumption DEF InventoryInv, AllocatedOnce
<1>2. QED
  BY <1>1, InventoryInvAlways, PTL

\* A claim is handed a VFIO device without an IOMMU only where the
\* administrator has allowed that, has listed the function by its address and
\* has not excluded it by its address alone.
THEOREM UnsafeListed == InventorySpec => []UnsafeOnlyIfListed
<1>1. InventoryInv => UnsafeOnlyIfListed
  BY DEF InventoryInv, EntriesListed, Listed, UnsafeOnlyIfListed
<1>2. QED
  BY <1>1, InventoryInvAlways, PTL
=============================================================================
