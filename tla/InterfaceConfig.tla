--------------------------- MODULE InterfaceConfig ---------------------------
(***************************************************************************)
(* How the configuration of a link comes about: the entry of an interface  *)
(* in the configuration file with the defaults that Load adds              *)
(* (internal/config/config.go), the opaque parameters of the claim merged  *)
(* into it, and the check before it is used (internal/driver/driver.go).   *)
(***************************************************************************)
EXTENDS Naturals, Sequences, SequencesExt

CONSTANTS
    Entries,     \* the entries that the configuration file may have
    Parameters,  \* the opaque parameters that a claim may have: [type, mode]
    Refused      \* no configuration, because of an error

Types == {"macvlan", "ipvlan", "host-device"}

\* The fields of an InterfaceConfig that decide on type and mode.
Entry == [types: Seq(STRING), policy: STRING, macvlanModes: SUBSET STRING,
          ipvlanModes: SUBSET STRING, defaultType: STRING, defaultMode: STRING]

ASSUME InterfaceConfigAssumption ==
    /\ Refused \notin Parameters
    /\ Parameters \subseteq [type: STRING, mode: STRING]
    /\ Entries \subseteq Entry

VARIABLES
    entry,    \* the entry in the file
    ifc,      \* the InterfaceConfig that Load made of it, or Refused
    netCfg    \* the NetworkConfig that prepareClaim accepted, or Refused

configVars == <<entry, ifc, netCfg>>

\* Load for one interface, first the lists and the policy.
WithLists(e) ==
    [e EXCEPT !.types = IF @ = <<>> THEN <<"macvlan", "ipvlan">> ELSE @,
              !.policy = IF @ = "" THEN "shared" ELSE @,
              !.macvlanModes = IF @ = {} THEN {"bridge", "private", "vepa", "passthru"} ELSE @,
              !.ipvlanModes = IF @ = {} THEN {"l2", "l3", "l3s"} ELSE @]

\* Mutant: a host-device may be one type among others.
PolicyAllowsMixed(e) ==
    /\ e.policy \in {"shared", "exclusive"}
    /\ ToSet(e.types) \subseteq Types
    /\ ("host-device" \in ToSet(e.types)) <=> (e.policy = "exclusive")

\* The errors of Load.
PolicyAllows(e) ==
    /\ e.policy \in {"shared", "exclusive"}
    /\ ToSet(e.types) \subseteq Types
    /\ "host-device" \in ToSet(e.types) =>
         e.policy = "exclusive" /\ ToSet(e.types) \cap {"macvlan", "ipvlan"} = {}
    /\ "host-device" \notin ToSet(e.types) => e.policy = "shared"

\* The default type and mode.
WithDefaults(e) ==
    LET type == IF e.defaultType = "" THEN e.types[1] ELSE e.defaultType IN
    [e EXCEPT !.defaultType = type,
              !.defaultMode = IF @ = "" /\ type # "host-device" THEN "bridge" ELSE @]

Load ==
    /\ ifc = Refused
    /\ PolicyAllows(WithLists(entry))
    /\ ifc' = WithDefaults(WithLists(entry))
    /\ UNCHANGED <<entry, netCfg>>

\* mergeConfig: what the claim leaves out is taken from the interface.
mergeConfig(i, p) ==
    [type |-> IF p.type = "" THEN i.defaultType ELSE p.type,
     mode |-> IF p.mode = "" THEN i.defaultMode ELSE p.mode]

validateConfig(i, c) ==
    /\ c.type \in ToSet(i.types)
    /\ c.type = "macvlan" => c.mode \in i.macvlanModes
    /\ c.type = "ipvlan" => c.mode \in i.ipvlanModes
    /\ c.type = "host-device" => i.policy = "exclusive" /\ c.mode = ""

\* prepareClaim up to validateConfig.
PrepareConfig(p) ==
    /\ ifc # Refused
    /\ netCfg' = IF validateConfig(ifc, mergeConfig(ifc, p)) THEN mergeConfig(ifc, p) ELSE Refused
    /\ UNCHANGED <<entry, ifc>>

ConfigInit == entry \in Entries /\ ifc = Refused /\ netCfg = Refused
ConfigNext == Load \/ \E p \in Parameters : PrepareConfig(p)
ConfigSpec == ConfigInit /\ [][ConfigNext]_configVars

-----------------------------------------------------------------------------
\* An interface that is shared between Pods is never moved into one, and one
\* that is exclusive never gets child links, whatever the claim asks for:
\* AllowMultipleAllocations in the ResourceSlice follows the same policy.
PolicyRespected ==
    netCfg # Refused => (netCfg.type = "host-device" <=> ifc.policy = "exclusive")
=============================================================================
