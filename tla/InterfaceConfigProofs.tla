------------------------ MODULE InterfaceConfigProofs ------------------------
(***************************************************************************)
(* Theorems about InterfaceConfig: what an administrator allows on an      *)
(* interface is what a claim can get, for any configuration file and any   *)
(* parameters.                                                             *)
(***************************************************************************)
EXTENDS InterfaceConfig, TLAPS

\* An interface that was loaded is one that Load makes of its entry, and what was
\* accepted is what validateConfig accepts: the property is not inductive without
\* this.
Loaded ==
    /\ entry \in Entries
    /\ ifc # Refused =>
         /\ PolicyAllows(WithLists(entry))
         /\ ifc = WithDefaults(WithLists(entry))
    /\ netCfg # Refused => ifc # Refused /\ validateConfig(ifc, netCfg)

EntryFields == {"types", "policy", "macvlanModes", "ipvlanModes", "defaultType", "defaultMode"}

\* The defaults leave the types and the policy alone that Load has checked.
LEMMA DefaultsKeep ==
    ASSUME NEW e \in Entries
    PROVE  /\ WithDefaults(WithLists(e)).types = WithLists(e).types
           /\ WithDefaults(WithLists(e)).policy = WithLists(e).policy
<1>1. DOMAIN e = EntryFields
  BY InterfaceConfigAssumption DEF Entry, EntryFields
<1>2. DOMAIN WithLists(e) = EntryFields
  BY <1>1 DEF WithLists
<1>3. QED
  BY <1>2 DEF WithDefaults, EntryFields

LEMMA LoadedInitially == ConfigInit => Loaded
  BY DEF ConfigInit, Loaded

\* ifc is set once and stays; netCfg is set to what validateConfig accepted.
LEMMA LoadedPreserved == Loaded /\ [ConfigNext]_configVars => Loaded'
<1> SUFFICES ASSUME Loaded, [ConfigNext]_configVars PROVE Loaded'
  OBVIOUS
<1>1. CASE Load
  BY <1>1 DEF Load, Loaded
<1>2. ASSUME NEW p \in Parameters, PrepareConfig(p) PROVE Loaded'
  BY <1>2 DEF PrepareConfig, Loaded
<1>3. CASE UNCHANGED configVars
  BY <1>3 DEF configVars, Loaded
<1>4. QED
  BY <1>1, <1>2, <1>3 DEF ConfigNext

LEMMA LoadedAlways == ConfigSpec => []Loaded
  BY LoadedInitially, LoadedPreserved, PTL DEF ConfigSpec

\* A type that validateConfig accepts is one of the interface's types, and
\* those are of one policy.
LEMMA LoadedRespectsPolicy == Loaded => PolicyRespected
<1> SUFFICES ASSUME Loaded, netCfg # Refused
             PROVE  netCfg.type = "host-device" <=> ifc.policy = "exclusive"
  BY DEF PolicyRespected
<1> DEFINE e == WithLists(entry)
<1>1. entry \in Entries /\ ifc = WithDefaults(e) /\ PolicyAllows(e) /\ validateConfig(ifc, netCfg)
  BY DEF Loaded
<1>2. ifc.types = e.types /\ ifc.policy = e.policy
  BY <1>1, DefaultsKeep
<1>3. netCfg.type \in ToSet(e.types)
  BY <1>1, <1>2 DEF validateConfig
<1>4. CASE "host-device" \in ToSet(e.types)
  <2>1. e.policy = "exclusive" /\ netCfg.type \notin {"macvlan", "ipvlan"}
    BY <1>1, <1>3, <1>4 DEF PolicyAllows
  <2>2. netCfg.type \in Types
    BY <1>1, <1>3 DEF PolicyAllows
  <2>3. QED
    BY <2>1, <2>2, <1>2 DEF Types
<1>5. CASE "host-device" \notin ToSet(e.types)
  BY <1>1, <1>2, <1>3, <1>5 DEF PolicyAllows
<1>6. QED
  BY <1>4, <1>5

\* An interface that is shared between Pods is never moved into one, and an
\* exclusive one never gets child links, whatever the file and the claim say.
THEOREM PolicyHolds == ConfigSpec => []PolicyRespected
  BY LoadedAlways, LoadedRespectsPolicy, PTL
=============================================================================
