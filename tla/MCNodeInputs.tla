---------------------------- MODULE MCNodeInputs ----------------------------
(***************************************************************************)
(* Small instances of the three modules about what the driver reads:       *)
(* AddressPool, DPDKInventory and InterfaceConfig.  They share no state; a *)
(* behaviour is about one of them.                                         *)
(***************************************************************************)
EXTENDS AddressPool, DPDKInventory, InterfaceConfig, TLC

CONSTANTS f1, f2, f3, c1, c2, n1, n2

VARIABLE subject
vars == <<subject, poolVars, inventoryVars, configVars>>

\* Pools of four addresses: one range of any form, or one up to the top and
\* another after it.
Interval(i, j) == [addresses |-> <<>>, first |-> i, last |-> j]
Intervals == {Interval(i, j) : i \in IPs, j \in IPs}
Lists == {<<>>, <<2, 1>>} \cup {<<x>> : x \in IPs \cup {NotIPv4}}
SomeAllocations ==
    {<<r>> : r \in [addresses: Lists, first: Texts, last: Texts]}
    \cup {<<Interval(2, 3), r>> : r \in Intervals}
SomeReservations ==
    {<<>>, <<[addresses |-> <<0>>, first |-> Empty, last |-> Empty]>>,
           <<[addresses |-> <<3>>, first |-> Empty, last |-> 0]>>}
    \cup {<<r>> : r \in Intervals}
SomeSubnets == {[base |-> 0, ones |-> 0], [base |-> 3, ones |-> 1]}
SomeRequests == {NoRequest} \cup [ip: {1, 3, NotIPv4}, ones: {0, 1}]

\* f1 and f2 are functions of one card behind an IOMMU, f3 is not behind one.
FirstTwo == {f1, f2}
TwoVendors == f1 :> "v1" @@ f2 :> "v1" @@ f3 :> "v2"
TwoDevices == f1 :> "d1" @@ f2 :> "d1" @@ f3 :> "d2"
ByAddress(F) == [NoSelector EXCEPT !.pciAddresses = F]
DPDKOff == [enabled |-> FALSE, allowUnsafe |-> FALSE, allowed |-> {}, include |-> NoSelector,
            exclude |-> NoSelector]
\* Safe, with the default driver, or with uio and the functions of one vendor;
\* unsafe with no list, which is refused, with f3 excluded, with a vendor that the
\* listed function is not of, and with an exclude whose fields disagree.
Safe == [DPDKOff EXCEPT !.enabled = TRUE, !.exclude.devices = {"d2"}]
Unsafe == [Safe EXCEPT !.allowUnsafe = TRUE, !.allowed = {"vfio-pci", "uio"}]
SomeConfigs ==
    {DPDKOff, Safe, Unsafe,
     [Safe EXCEPT !.allowed = {"uio"}, !.include.vendors = {"v1"}],
     [Unsafe EXCEPT !.include = ByAddress({f1, f3}), !.exclude = ByAddress({f3})],
     [Unsafe EXCEPT !.include = [ByAddress({f1}) EXCEPT !.vendors = {"v2"}],
                    !.exclude = NoSelector],
     [Unsafe EXCEPT !.allowed = {"vfio-pci"}, !.include = ByAddress({f1, f2, f3}),
                    !.exclude = [ByAddress({f3}) EXCEPT !.vendors = {"v1"}]]}

SomeTypes == {<<>>, <<"ipvlan", "macvlan">>, <<"host-device", "macvlan">>, <<"vlan">>}
             \cup {<<t>> : t \in Types}
SomeEntries ==
    [types: SomeTypes, policy: {"", "shared", "exclusive", "other"},
     macvlanModes: {{}, {"private"}}, ipvlanModes: {{}, {"l3"}},
     defaultType: {"", "macvlan", "host-device"}, defaultMode: {"", "bridge", "l3"}]
SomeParameters == [type: {""} \cup Types, mode: {"", "bridge", "private", "l3"}]

\* One value for the variables of a module that a behaviour is not about.
NoPool ==
    /\ pool = [subnet |-> [base |-> 0, ones |-> 0], allocations |-> <<>>, reservations |-> <<>>]
    /\ request = NoRequest /\ step = "start" /\ range = 1 /\ current = Empty
    /\ ips = <<>> /\ next = 1 /\ refused = {} /\ chosen = Empty
NoInventory ==
    /\ cfg = setDPDKDefaults(DPDKOff)
    /\ sys = [f \in Functions |-> Absent] /\ dpdkDevices = sys /\ slice = {}
    /\ allocated = [c \in DpdkClaims |-> Absent] /\ handed = allocated /\ stale = {}
NoConfig ==
    /\ entry = [types |-> <<>>, policy |-> "", macvlanModes |-> {}, ipvlanModes |-> {},
                defaultType |-> "", defaultMode |-> ""]
    /\ ifc = Refused /\ netCfg = Refused

Init ==
    \/ subject = "pool" /\ PoolInit /\ NoInventory /\ NoConfig
    \/ subject = "inventory" /\ NoPool /\ InventoryInit /\ NoConfig
    \/ subject = "config" /\ NoPool /\ NoInventory /\ ConfigInit

Next ==
    /\ UNCHANGED subject
    /\ \/ subject = "pool" /\ PoolNext /\ UNCHANGED <<inventoryVars, configVars>>
       \/ subject = "inventory" /\ InventoryNext /\ UNCHANGED <<poolVars, configVars>>
       \/ subject = "config" /\ ConfigNext /\ UNCHANGED <<poolVars, inventoryVars>>

Spec == Init /\ [][Next]_vars

\* Claims are interchangeable, and so are the numbers that the kernel gives.
Symmetry == Permutations(DpdkClaims) \cup Permutations(Numbers)
=============================================================================
