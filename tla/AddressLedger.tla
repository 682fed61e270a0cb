---------------------------- MODULE AddressLedger ----------------------------
(***************************************************************************)
(* What the IPAM of the cluster promises, without nodes, handlers, calls   *)
(* or a controller: a ledger in which an address belongs to at most one    *)
(* claim, a Pod uses only what its claim owns, and an address leaves the   *)
(* ledger only while nobody uses it.                                       *)
(***************************************************************************)
CONSTANTS Claims, Addresses, Nobody

VARIABLES
    owner,       \* owner[a]: the claim that address a belongs to, or Nobody
    using        \* using[c]: the addresses that Pods run with through claim c

ledgerVars == <<owner, using>>

Init ==
    /\ owner = [a \in Addresses |-> Nobody]
    /\ using = [c \in Claims |-> {}]

Acquire(c, a) ==
    /\ owner[a] = Nobody
    /\ owner' = [owner EXCEPT ![a] = c]
    /\ UNCHANGED using

\* A Pod starts with addresses that its claim owns, and keeps exactly these
\* until it stops.
Start(c, A) ==
    /\ using[c] = {}
    /\ \A a \in A : owner[a] = c
    /\ using' = [using EXCEPT ![c] = A]
    /\ UNCHANGED owner

Stop(c) ==
    /\ using' = [using EXCEPT ![c] = {}]
    /\ UNCHANGED owner

Release(a) ==
    /\ \A c \in Claims : a \notin using[c]
    /\ owner' = [owner EXCEPT ![a] = Nobody]
    /\ UNCHANGED using

Next ==
    \/ \E c \in Claims, a \in Addresses : Acquire(c, a)
    \/ \E c \in Claims, A \in SUBSET Addresses : Start(c, A)
    \/ \E c \in Claims : Stop(c)
    \/ \E a \in Addresses : Release(a)

Spec == Init /\ [][Next]_ledgerVars
==============================================================================
