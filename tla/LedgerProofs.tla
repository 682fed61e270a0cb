---------------------------- MODULE LedgerProofs ----------------------------
(***************************************************************************)
(* What a prepared claim has stays as it is, across crashes and repeated   *)
(* preparation, and therefore the cluster implements AddressLedger: proofs *)
(* on top of the ownership invariant of ClusterIPAMProofs.                 *)
(***************************************************************************)
EXTENDS ClusterIPAMProofs

-----------------------------------------------------------------------------
(* The store of a node.  All devices of a claim have the one address that   *)
(* ReserveIP recorded for it, which is why preparing again changes nothing. *)

StoreSettled(s) ==
    \A c \in Claims, r \in ReqIds : s.dev[c][r] # NoName => s.dev[c][r] = s.rec[c]

\* Node with kubelet states k, handler x, maps m and state file d.
NodeSettled(k, x, m, d) ==
    /\ StoreSettled(m) /\ StoreSettled(d)
    /\ x.pc \in Preparing => \A q \in 1 .. x.req - 1 : m.dev[x.claim][q] # NoName
    /\ x.pc = "device" => m.rec[x.claim] = x.name
    /\ \A c \in Claims : k[c] = "prepared" =>
         /\ d.dev[c] = m.dev[c] /\ d.rec[c] = m.rec[c]
         /\ \A r \in 1 .. Len(Requests[c]) : m.dev[c][r] # NoName

SettledInv == \A n \in Nodes : NodeSettled(kubelet[n], h[n], mem[n], disk[n])

\* The addresses of prepared claims are the same after a step.
KeepsAddresses(n) ==
    \A c \in Claims : kubelet[n][c] = "prepared" /\ kubelet'[n][c] = "prepared" =>
        mem'[n].dev[c] = mem[n].dev[c]

LEMMA SettledInit == Init => SettledInv
BY DEF Init, NodeInit, SettledInv, NodeSettled, StoreSettled, EmptyStore, Idle, Preparing

\* Reads and calls move the handler on, and no further than to "record".
HandlerMoves(x, y) ==
    \/ y.pc \notin Preparing
    \/ /\ x.pc \in Preparing /\ y.pc # "device"
       /\ y.req = x.req /\ y.claim = x.claim

LEMMA MoveSettled ==
    ASSUME NEW k, NEW x, NEW y, NEW m, NEW d, NodeSettled(k, x, m, d), HandlerMoves(x, y)
    PROVE  NodeSettled(k, y, m, d)
BY DEF NodeSettled, HandlerMoves, Preparing

LEMMA IdleMoves == ASSUME NEW x PROVE HandlerMoves(x, Idle)
BY DEF HandlerMoves, Idle, Preparing

\* Requests of a claim are among the ReqIds, and there is one.
LEMMA RequestIds ==
    ASSUME NEW c \in Claims
    PROVE  /\ Len(Requests[c]) \in Nat \ {0}
           /\ 1 .. Len(Requests[c]) \subseteq ReqIds
<1>1. Len(Requests[c]) \in 1 .. MaxReqs /\ MaxReqs \in Nat
    BY NodeAssumption
<1> QED BY <1>1 DEF ReqIds

\* The steps of a handler that leave the store and the kubelet alone.
LEMMA ReadSettled ==
    ASSUME TypeInv, SettledInv, NEW n \in Nodes,
           \/ \E answered \in BOOLEAN : ReloadIPPools(n, answered)
           \/ FindForClaim(n) \/ ReserveGet(n) \/ DeleteForClaimList(n) \/ DeleteForClaimDelete(n)
           \/ \E c \in Claims : StartUnprepare(n, c)
           \/ \E u \in FreshUIDs : ReserveCreate(n, u)
    PROVE  /\ NodeSettled(kubelet[n], h[n], mem[n], disk[n])' /\ KeepsAddresses(n)
           /\ \A q \in Nodes : q # n => h'[q] = h[q]
           /\ UNCHANGED <<mem, disk, kubelet>>
<1>0. h \in [Nodes -> Handler] /\ NodeSettled(kubelet[n], h[n], mem[n], disk[n])
    BY DEF TypeInv, TypeOK, NodeTypeOK, SettledInv
<1>1. UNCHANGED <<mem, disk, kubelet>>
    BY DEF ReloadIPPools, FindForClaim, ReserveGet, DeleteForClaimList, DeleteForClaimDelete,
           StartUnprepare, ReserveCreate
<1>2. ASSUME NEW y, h' = [h EXCEPT ![n] = y], HandlerMoves(h[n], y)
      PROVE  HandlerMoves(h[n], h'[n]) /\ \A q \in Nodes : q # n => h'[q] = h[q]
    BY <1>0, <1>2
<1> DEFINE Goal == HandlerMoves(h[n], h'[n]) /\ \A q \in Nodes : q # n => h'[q] = h[q]
<1>3. ASSUME Return(n) PROVE Goal
    BY <1>2, <1>3, IdleMoves DEF Return
<1>4. ASSUME NEW k, NextCandidate(n, k), h[n].pc \in Preparing PROVE Goal
    <2>1. CASE Return(n)
        BY <1>3, <2>1
    <2>2. ASSUME NEW j, NEW nm, h' = [h EXCEPT ![n].pc = "create", ![n].cand = j, ![n].name = nm]
          PROVE  Goal
        <3> DEFINE y == [h[n] EXCEPT !.pc = "create", !.cand = j, !.name = nm]
        <3>1. HandlerMoves(h[n], y)
            BY <1>0, <1>4 DEF Handler, HandlerMoves
        <3>2. h' = [h EXCEPT ![n] = y]
            BY <2>2
        <3> QED BY <1>2, <3>1, <3>2
    <2> HIDE DEF Goal
    <2> QED BY <1>4, <2>1, <2>2 DEF NextCandidate
<1>5. ASSUME NEW pc, NEW nm, h[n].pc \in Preparing, pc # "device",
             h' = [h EXCEPT ![n].pc = pc, ![n].name = nm]
      PROVE  Goal
    <2> DEFINE y == [h[n] EXCEPT !.pc = pc, !.name = nm]
    <2>1. HandlerMoves(h[n], y)
        BY <1>0, <1>5 DEF Handler, HandlerMoves
    <2>2. h' = [h EXCEPT ![n] = y]
        BY <1>5
    <2> QED BY <1>2, <2>1, <2>2
<1>6. ASSUME NEW pc, h[n].pc \in Preparing, pc # "device", h' = [h EXCEPT ![n].pc = pc] PROVE Goal
    <2> DEFINE y == [h[n] EXCEPT !.pc = pc]
    <2>1. HandlerMoves(h[n], y)
        BY <1>0, <1>6 DEF Handler, HandlerMoves
    <2>2. h' = [h EXCEPT ![n] = y]
        BY <1>6
    <2> QED BY <1>2, <2>1, <2>2
<1>7. ASSUME \E answered \in BOOLEAN : ReloadIPPools(n, answered) PROVE Goal
    <2>1. PICK s : Return(n) \/ h' = [h EXCEPT ![n].pc = "find", ![n].spec = s]
        BY <1>7 DEF ReloadIPPools
    <2> DEFINE y == [h[n] EXCEPT !.pc = "find", !.spec = s]
    <2>2. HandlerMoves(h[n], y)
        BY <1>0, <1>7 DEF Handler, HandlerMoves, ReloadIPPools, Preparing
    <2>3. Return(n) \/ h' = [h EXCEPT ![n] = y]
        BY <2>1
    <2> HIDE DEF y
    <2> QED BY <1>2, <1>3, <2>2, <2>3
<1> HIDE DEF Goal
<1>8. ASSUME FindForClaim(n) PROVE Goal
    <2>1. h[n].pc \in Preparing
        BY <1>8 DEF FindForClaim, Preparing
    <2> QED BY <1>3, <1>4, <1>5, <1>8, <2>1 DEF FindForClaim
<1>9. ASSUME ReserveGet(n) PROVE Goal
    <2>1. h[n].pc \in Preparing
        BY <1>9 DEF ReserveGet, Preparing
    <2> QED BY <1>3, <1>4, <1>6, <1>9, <2>1 DEF ReserveGet
<1>10. ASSUME \E u \in FreshUIDs : ReserveCreate(n, u) PROVE Goal
    <2>1. h[n].pc \in Preparing
        BY <1>10 DEF ReserveCreate, Preparing
    <2> QED BY <1>3, <1>6, <1>10, <2>1 DEF ReserveCreate
<1>11. ASSUME DeleteForClaimList(n) \/ DeleteForClaimDelete(n)
                 \/ \E c \in Claims : StartUnprepare(n, c)
       PROVE  Goal
    <2>1. ASSUME NEW y, h' = [h EXCEPT ![n] = y], y.pc \notin Preparing PROVE Goal
        BY <1>2, <2>1 DEF HandlerMoves, Goal
    <2>2. ASSUME DeleteForClaimList(n) PROVE Goal
        <3>1. PICK T : Return(n) \/ h' = [h EXCEPT ![n].pc = "delete", ![n].todo = T]
            BY <2>2 DEF DeleteForClaimList
        <3> DEFINE y == [h[n] EXCEPT !.pc = "delete", !.todo = T]
        <3>2. y.pc \notin Preparing
            BY <1>0 DEF Handler, Preparing
        <3>3. Return(n) \/ h' = [h EXCEPT ![n] = y]
            BY <3>1
        <3> HIDE DEF y
        <3> QED BY <1>3, <2>1, <3>2, <3>3
    <2>3. ASSUME DeleteForClaimDelete(n) PROVE Goal
        <3> DEFINE y == [h[n] EXCEPT !.pc = "forget"]
                   z(i) == [h[n] EXCEPT !.todo = @ \ {i}]
        <3>1. y.pc \notin Preparing /\ \A i : z(i).pc \notin Preparing
            BY <1>0, <2>3 DEF Handler, Preparing, DeleteForClaimDelete
        <3>2. \/ Return(n) \/ h' = [h EXCEPT ![n] = y]
              \/ \E i : h' = [h EXCEPT ![n] = z(i)]
            BY <2>3 DEF DeleteForClaimDelete
        <3> HIDE DEF y, z
        <3> QED BY <1>3, <2>1, <3>1, <3>2
    <2>4. ASSUME NEW c \in Claims, StartUnprepare(n, c) PROVE Goal
        <3>1. [Idle EXCEPT !.pc = "list", !.claim = c].pc \notin Preparing
            BY DEF Idle, Preparing
        <3> QED BY <2>1, <2>4, <3>1 DEF StartUnprepare
    <2> QED BY <1>11, <2>2, <2>3, <2>4
<1>12. Goal
    BY <1>7, <1>8, <1>9, <1>10, <1>11
<1>13. NodeSettled(kubelet[n], h'[n], mem[n], disk[n])
    BY <1>0, <1>12, MoveSettled DEF Goal
<1> QED BY <1>1, <1>12, <1>13 DEF NodeSettled, StoreSettled, KeepsAddresses, Goal

\* The steps of node n change nothing on the others.
OthersKept(n) ==
    \A q \in Nodes : q # n =>
        /\ h'[q] = h[q] /\ mem'[q] = mem[q] /\ disk'[q] = disk[q]
        /\ kubelet'[q] = kubelet[q]

NodeGoesOn(n) ==
    /\ NodeSettled(kubelet'[n], h'[n], mem'[n], disk'[n])
    /\ KeepsAddresses(n)
    /\ OthersKept(n)

LEMMA NodeAfter ==
    ASSUME TypeInv, NEW n \in Nodes, NEW y, NEW e, NEW f, h' = [h EXCEPT ![n] = y],
           mem' = [mem EXCEPT ![n] = e], disk' = [disk EXCEPT ![n] = f],
           \A q \in Nodes : q # n => kubelet'[q] = kubelet[q],
           NodeSettled(kubelet'[n], y, e, f),
           \A c \in Claims : kubelet[n][c] = "prepared" /\ kubelet'[n][c] = "prepared" =>
               e.dev[c] = mem[n].dev[c]
    PROVE  NodeGoesOn(n)
<1>0. /\ h \in [Nodes -> Handler] /\ mem \in [Nodes -> Store] /\ disk \in [Nodes -> Store]
      /\ kubelet \in [Nodes -> [Claims -> KubeletState]]
    BY DEF TypeInv, TypeOK, NodeTypeOK
<1>1. h'[n] = y /\ mem'[n] = e /\ disk'[n] = f
    BY <1>0
<1>2. OthersKept(n)
    BY <1>0 DEF OthersKept
<1> QED BY <1>1, <1>2 DEF KeepsAddresses, NodeGoesOn

LEMMA NodeAfterSame ==
    ASSUME TypeInv, NEW n \in Nodes, NEW y, NEW e, NEW f, h' = [h EXCEPT ![n] = y],
           mem' = [mem EXCEPT ![n] = e], disk' = [disk EXCEPT ![n] = f], UNCHANGED kubelet,
           NodeSettled(kubelet[n], y, e, f),
           \A c \in Claims : kubelet[n][c] = "prepared" => e.dev[c] = mem[n].dev[c]
    PROVE  NodeGoesOn(n)
<1>1. NodeSettled(kubelet'[n], y, e, f)
    OBVIOUS
<1> QED BY <1>1, NodeAfter

\* The steps that write the store or move the kubelet on.
LEMMA WriteSettled ==
    ASSUME TypeInv, SettledInv, OwnershipInv, NEW n \in Nodes,
           \/ \E c \in Claims : StartPrepare(n, c) \/ PodTerminated(n, c)
           \/ ReserveIP(n) \/ SetDevice(n) \/ DeleteClaimRecord(n)
           \/ SetNetNS(n) \/ Crash(n)
    PROVE  NodeGoesOn(n)
<1> DEFINE k == kubelet[n]  x == h[n]  m == mem[n]  d == disk[n]
<1>0. /\ h \in [Nodes -> Handler] /\ mem \in [Nodes -> Store] /\ disk \in [Nodes -> Store]
      /\ kubelet \in [Nodes -> [Claims -> KubeletState]]
      /\ x \in Handler /\ m \in Store /\ d \in Store /\ GoodHandler(x)
      /\ NodeSettled(k, x, m, d) /\ HandlerOwns(k, x)
    BY GoodNow DEF TypeInv, TypeOK, NodeTypeOK, SettledInv, OwnershipInv, HandlersOwn
<1>2. /\ UNCHANGED h => h' = [h EXCEPT ![n] = x]
      /\ UNCHANGED mem => mem' = [mem EXCEPT ![n] = m]
      /\ UNCHANGED disk => disk' = [disk EXCEPT ![n] = d]
    BY <1>0
<1>3. ASSUME NEW c \in Claims, StartPrepare(n, c)
      PROVE  NodeGoesOn(n)
    <2> DEFINE y == [Idle EXCEPT !.pc = "reload", !.claim = c, !.req = 1]
               v == IF kubelet[n][c] = "none" THEN "preparing" ELSE kubelet[n][c]
    <2>1. y.pc = "reload" /\ y.claim = c /\ y.req = 1
        BY DEF Idle
    <2>2. /\ h' = [h EXCEPT ![n] = y] /\ UNCHANGED <<mem, disk>>
          /\ kubelet' = [kubelet EXCEPT ![n][c] = v]
        BY <1>3 DEF StartPrepare
    <2>3. \A b \in Claims : kubelet'[n][b] = "prepared" => k[b] = "prepared"
        BY <1>0, <2>2
    <2> HIDE DEF y, v
    <2>4. NodeSettled(kubelet'[n], y, m, d)
        BY <1>0, <2>1, <2>3 DEF NodeSettled
    <2>5. \A q \in Nodes : q # n => kubelet'[q] = kubelet[q]
        BY <1>0, <2>2
    <2> QED BY NodeAfter, <1>2, <2>2, <2>4, <2>5
<1>4. ASSUME NEW c \in Claims, PodTerminated(n, c)
      PROVE  NodeGoesOn(n)
    <2>1. UNCHANGED <<h, mem, disk>> /\ kubelet' = [kubelet EXCEPT ![n][c] = "releasing"]
        BY <1>4 DEF PodTerminated
    <2>2. \A b \in Claims : kubelet'[n][b] = "prepared" => k[b] = "prepared"
        BY <1>0, <2>1
    <2>3. NodeSettled(kubelet'[n], x, m, d)
        BY <1>0, <2>2 DEF NodeSettled
    <2>4. \A q \in Nodes : q # n => kubelet'[q] = kubelet[q]
        BY <1>0, <2>1
    <2> QED BY NodeAfter, <1>2, <2>1, <2>3, <2>4
<1>5. CASE ReserveIP(n)
    <2> DEFINE c == x.claim
               e == [m EXCEPT !.rec[c] = x.name]
               y == [x EXCEPT !.pc = "device"]
    <2>1. x.pc = "record" /\ c \in Claims /\ UNCHANGED kubelet
        BY <1>0, <1>5 DEF ReserveIP, GoodHandler
    <2>2. y.pc = "device" /\ y.claim = c /\ y.req = x.req /\ y.name = x.name
        BY <1>0 DEF Handler
    <2>3. /\ e.dev = m.dev /\ e.rec[c] = x.name
          /\ \A b \in Claims : b # c => e.rec[b] = m.rec[b]
        BY <1>0, <2>1 DEF Store
    <2>4. CASE m.rec[c] = x.name /\ h' = [h EXCEPT ![n] = y] /\ UNCHANGED <<mem, disk>>
        <3>1. NodeSettled(k, y, m, d)
            BY <1>0, <2>1, <2>2, <2>4 DEF NodeSettled, Preparing
        <3> HIDE DEF y
        <3> QED BY NodeAfterSame, <1>2, <2>1, <2>4, <3>1
    <2>5. CASE Return(n) /\ UNCHANGED <<mem, disk>>
        <3>1. NodeSettled(k, Idle, m, d)
            BY <1>0, MoveSettled, IdleMoves
        <3> QED BY NodeAfterSame, <1>2, <2>1, <2>5, <3>1 DEF Return
    <2>6. CASE /\ m.rec[c] = NoName
               /\ \/ Persist(n, e) /\ h' = [h EXCEPT ![n] = y]
                  \/ PersistFails(n, e) /\ Return(n)
        <3>1. \A r \in ReqIds : m.dev[c][r] = NoName
            BY <1>0, <2>1, <2>6 DEF NodeSettled, StoreSettled
        <3>2. k[c] # "prepared"
            <4>1. 1 \in 1 .. Len(Requests[c]) /\ 1 \in ReqIds
                BY <2>1, RequestIds
            <4> QED BY <1>0, <2>1, <3>1, <4>1 DEF NodeSettled
        <3>3. StoreSettled(e)
            BY <1>0, <2>3, <3>1 DEF NodeSettled, StoreSettled
        <3> HIDE DEF e, y
        <3>4. CASE Persist(n, e) /\ h' = [h EXCEPT ![n] = y]
            <4>1. NodeSettled(k, y, e, e)
                BY <1>0, <2>1, <2>2, <2>3, <3>2, <3>3 DEF NodeSettled, Preparing
            <4> QED BY NodeAfterSame, <2>1, <2>3, <3>4, <4>1 DEF Persist
        <3>5. CASE PersistFails(n, e) /\ Return(n)
            <4>1. Idle.pc \notin Preparing /\ Idle.pc # "device"
                BY DEF Idle, Preparing
            <4>2. NodeSettled(k, Idle, e, d)
                BY <1>0, <2>1, <2>3, <3>2, <3>3, <4>1 DEF NodeSettled
            <4> QED BY NodeAfterSame, <1>2, <2>1, <2>3, <3>5, <4>2 DEF PersistFails, Return
        <3> QED BY <2>6, <3>4, <3>5
    <2>7. CASE m.rec[c] = x.name /\ h' = [h EXCEPT ![n].pc = "device"] /\ UNCHANGED <<mem, disk>>
        BY <2>4, <2>7
    <2>8. CASE m.rec[c] = NoName /\ Persist(n, e) /\ h' = [h EXCEPT ![n].pc = "device"]
        <3>1. h' = [h EXCEPT ![n] = y]
            BY <2>8
        <3> HIDE DEF c, e, y
        <3> QED BY <2>6, <2>8, <3>1
    <2>9. CASE m.rec[c] = NoName /\ PersistFails(n, e) /\ Return(n)
        BY <2>6, <2>9
    <2> QED BY <1>5, <2>5, <2>7, <2>8, <2>9 DEF ReserveIP
<1>6. CASE SetDevice(n)
    <2> DEFINE c == x.claim
               e == [m EXCEPT !.dev[c][x.req] = x.name]
               y == [Idle EXCEPT !.pc = "reload", !.claim = c, !.req = x.req + 1]
    <2>1. /\ x.pc = "device" /\ c \in Claims /\ x.req \in 1 .. Len(Requests[c])
          /\ x.name \in Names /\ m.rec[c] = x.name
        BY <1>0, <1>6 DEF SetDevice, GoodHandler, Preparing, Naming, NodeSettled
    <2>2. Len(Requests[c]) \in Nat /\ x.req \in ReqIds /\ x.name # NoName
        BY <2>1, RequestIds, ObjectsAssumption DEF Names, NoName
    <2>3. y.pc = "reload" /\ y.claim = c /\ y.req = x.req + 1
        BY DEF Idle
    <2>4. /\ e.rec = m.rec /\ e.dev[c] = [m.dev[c] EXCEPT ![x.req] = x.name]
          /\ \A b \in Claims : b # c => e.dev[b] = m.dev[b]
          /\ \A b \in Claims : m.dev[b] \in [ReqIds -> Names \cup {NoName}]
        BY <1>0, <2>1 DEF Store
    <2>5. \A r \in ReqIds : e.dev[c][r] = IF r = x.req THEN x.name ELSE m.dev[c][r]
        BY <2>1, <2>2, <2>4
    <2>6. StoreSettled(e)
        BY <1>0, <2>1, <2>4, <2>5 DEF NodeSettled, StoreSettled
    <2>7. k[c] = "prepared" => e.dev[c] = m.dev[c]
        <3>1. k[c] = "prepared" => m.dev[c][x.req] = x.name
            BY <1>0, <2>1, <2>2 DEF NodeSettled, StoreSettled
        <3> QED BY <2>1, <2>4, <3>1
    <2>8. \A r \in 1 .. x.req : e.dev[c][r] # NoName
        <3>1. \A r \in 1 .. x.req : r \in ReqIds
            BY <2>1, <2>2, RequestIds
        <3>2. \A r \in 1 .. x.req - 1 : m.dev[c][r] # NoName
            BY <1>0, <2>1 DEF NodeSettled, Preparing
        <3> QED BY <2>1, <2>2, <2>5, <3>1, <3>2
    <2>9. Idle.pc \notin Preparing /\ Idle.pc # "device"
        BY DEF Idle, Preparing
    <2> HIDE DEF e, y
    <2>10. NodeSettled(k, Idle, m, d) /\ NodeSettled(k, Idle, e, d) /\ NodeSettled(k, Idle, e, e)
        <3>1. \A b \in Claims : k[b] = "prepared" => e.dev[b] = m.dev[b]
            BY <2>4, <2>7
        <3>2. NodeSettled(k, Idle, m, d)
            BY <1>0, MoveSettled, IdleMoves
        <3>3. NodeSettled(k, Idle, e, d)
            BY <2>4, <2>6, <2>9, <3>1, <3>2 DEF NodeSettled
        <3>4. NodeSettled(k, Idle, e, e)
            BY <2>9, <3>3 DEF NodeSettled
        <3> QED BY <3>2, <3>3, <3>4
    <2>11. NodeSettled(k, y, e, e)
        BY <2>3, <2>8, <2>10, <2>1 DEF NodeSettled
    <2>12. \A b \in Claims : k[b] = "prepared" => e.dev[b] = m.dev[b]
        BY <2>4, <2>7
    <2>13. CASE Return(n) /\ UNCHANGED <<mem, disk, kubelet>>
        BY NodeAfterSame, <1>2, <2>10, <2>13 DEF Return
    <2>14. CASE PersistFails(n, e) /\ Return(n) /\ UNCHANGED kubelet
        <3>1. /\ h' = [h EXCEPT ![n] = Idle] /\ mem' = [mem EXCEPT ![n] = e]
              /\ disk' = [disk EXCEPT ![n] = d] /\ UNCHANGED kubelet
            BY <1>2, <2>14 DEF Return, PersistFails
        <3> QED BY NodeAfterSame, <2>10, <2>12, <3>1
    <2>15. CASE Persist(n, e) /\ Return(n) /\ UNCHANGED kubelet
        BY NodeAfterSame, <1>2, <2>10, <2>12, <2>15 DEF Return, Persist
    <2>16. CASE Persist(n, e) /\ h' = [h EXCEPT ![n] = y] /\ UNCHANGED kubelet
        BY NodeAfterSame, <1>2, <2>11, <2>12, <2>16 DEF Persist
    <2>17. ASSUME Persist(n, e), Return(n), ~(x.req < Len(Requests[c])),
                  kubelet' = [kubelet EXCEPT ![n][c] = IF @ = "preparing" THEN "prepared" ELSE @]
           PROVE  NodeGoesOn(n)
        <3>1. \A r \in 1 .. Len(Requests[c]) : e.dev[c][r] # NoName
            BY <2>1, <2>2, <2>8, <2>17
        <3>2. \A b \in Claims : b # c => kubelet'[n][b] = k[b]
            BY <1>0, <2>17
        <3>3. NodeSettled(kubelet'[n], Idle, e, e)
            BY <2>10, <3>1, <3>2 DEF NodeSettled
        <3>5. /\ h' = [h EXCEPT ![n] = Idle] /\ mem' = [mem EXCEPT ![n] = e]
              /\ disk' = [disk EXCEPT ![n] = e]
            BY <2>17 DEF Return, Persist
        <3>6. \A q \in Nodes : q # n => kubelet'[q] = kubelet[q]
            BY <1>0, <2>17
        <3> HIDE DEF c
        <3> QED BY NodeAfter, <2>12, <3>3, <3>5, <3>6
    <2> QED BY <1>6, <2>13, <2>14, <2>15, <2>16, <2>17 DEF SetDevice, NextRequest, e, y
<1>7. CASE DeleteClaimRecord(n)
    <2> DEFINE c == x.claim
               e == [dev |-> [m.dev EXCEPT ![c] = EmptyStore.dev[c]],
                     rec |-> [m.rec EXCEPT ![c] = NoName]]
    <2>1. c \in Claims /\ k[c] = "releasing" /\ Return(n)
        BY <1>0, <1>7 DEF DeleteClaimRecord, GoodHandler, HandlerOwns
    <2>2. /\ \A r \in ReqIds : e.dev[c][r] = NoName
          /\ \A b \in Claims : b # c => e.dev[b] = m.dev[b] /\ e.rec[b] = m.rec[b]
        BY <1>0, <2>1 DEF Store, EmptyStore
    <2>3. /\ mem' = [mem EXCEPT ![n] = e]
          /\ \/ disk' = [disk EXCEPT ![n] = e] /\ kubelet' = [kubelet EXCEPT ![n][c] = "none"]
             \/ UNCHANGED <<disk, kubelet>>
        BY <1>7 DEF DeleteClaimRecord, Persist, PersistFails
    <2>4. Idle.pc \notin Preparing /\ Idle.pc # "device"
        BY DEF Idle, Preparing
    <2> HIDE DEF e
    <2>5. StoreSettled(e)
        BY <1>0, <2>1, <2>2 DEF NodeSettled, StoreSettled
    <2>6. NodeSettled(k, Idle, e, d) /\ NodeSettled(k, Idle, e, e)
        BY <1>0, <2>1, <2>2, <2>4, <2>5 DEF NodeSettled
    <2>7. \A b \in Claims : kubelet'[n][b] = "prepared" => k[b] = "prepared"
        BY <1>0, <2>3
    <2>8. NodeSettled(kubelet'[n], Idle, e, d) /\ NodeSettled(kubelet'[n], Idle, e, e)
        BY <2>6, <2>7 DEF NodeSettled
    <2>9. \A b \in Claims : k[b] = "prepared" => e.dev[b] = m.dev[b]
        BY <2>1, <2>2
    <2>10. \A q \in Nodes : q # n => kubelet'[q] = kubelet[q]
        BY <1>0, <2>3
    <2>11. h' = [h EXCEPT ![n] = Idle] /\ (UNCHANGED disk => disk' = [disk EXCEPT ![n] = d])
        BY <1>2, <2>1 DEF Return
    <2>12. ASSUME NEW f, disk' = [disk EXCEPT ![n] = f], NodeSettled(kubelet'[n], Idle, e, f)
           PROVE  NodeGoesOn(n)
        <3>1. mem' = [mem EXCEPT ![n] = e] /\ h' = [h EXCEPT ![n] = Idle]
            BY <2>3, <2>11
        <3> HIDE DEF c
        <3> QED BY NodeAfter, <2>9, <2>10, <2>12, <3>1
    <2> QED BY <2>3, <2>8, <2>11, <2>12
<1>8. CASE SetNetNS(n)
    <2>1. /\ h' = [h EXCEPT ![n] = x] /\ mem' = [mem EXCEPT ![n] = m]
          /\ disk' = [disk EXCEPT ![n] = m] /\ UNCHANGED kubelet
        BY <1>2, <1>8 DEF SetNetNS, Persist
    <2>2. NodeSettled(k, x, m, m)
        BY <1>0 DEF NodeSettled
    <2> QED BY NodeAfterSame, <2>1, <2>2
<1>9. CASE Crash(n)
    <2>1. /\ h' = [h EXCEPT ![n] = Idle] /\ mem' = [mem EXCEPT ![n] = d]
          /\ disk' = [disk EXCEPT ![n] = d] /\ UNCHANGED kubelet
        BY <1>2, <1>9 DEF Crash, Return
    <2>2. Idle.pc \notin Preparing /\ Idle.pc # "device"
        BY DEF Idle, Preparing
    <2>3. NodeSettled(k, Idle, d, d) /\ \A c \in Claims : k[c] = "prepared" => d.dev[c] = m.dev[c]
        BY <1>0, <2>2 DEF NodeSettled
    <2> QED BY NodeAfterSame, <2>1, <2>3
<1> QED BY <1>3, <1>4, <1>5, <1>6, <1>7, <1>8, <1>9

LEMMA SettledStep ==
    ASSUME TypeInv, OwnershipInv, SettledInv, [Next]_vars
    PROVE  SettledInv' /\ \A n \in Nodes : KeepsAddresses(n)
<1> DEFINE Goal == SettledInv' /\ \A n \in Nodes : KeepsAddresses(n)
<1>1. ASSUME UNCHANGED <<h, mem, disk, kubelet>> PROVE Goal
    BY <1>1 DEF SettledInv, NodeSettled, StoreSettled, KeepsAddresses
<1>2. ASSUME NEW n \in Nodes, NodeGoesOn(n) PROVE Goal
    <2>1. ASSUME NEW q \in Nodes
          PROVE  NodeSettled(kubelet'[q], h'[q], mem'[q], disk'[q]) /\ KeepsAddresses(q)
        <3>1. CASE q = n
            BY <1>2, <3>1 DEF NodeGoesOn
        <3>2. CASE q # n
            BY <1>2, <3>2 DEF NodeGoesOn, OthersKept, SettledInv, KeepsAddresses
        <3> QED BY <3>1, <3>2
    <2>2. ASSUME NEW q \in Nodes PROVE NodeSettled(kubelet[q], h[q], mem[q], disk[q])'
        BY <2>1 DEF NodeSettled, StoreSettled
    <2> QED BY <2>1, <2>2 DEF SettledInv
<1>3. ASSUME NEW n \in Nodes,
             NodeSettled(kubelet[n], h[n], mem[n], disk[n])' /\ KeepsAddresses(n),
             \A q \in Nodes : q # n => h'[q] = h[q],
             UNCHANGED <<mem, disk, kubelet>>
      PROVE  Goal
    <2>1. NodeSettled(kubelet'[n], h'[n], mem'[n], disk'[n])
        BY <1>3 DEF NodeSettled, StoreSettled
    <2> QED BY <1>2, <1>3, <2>1 DEF NodeGoesOn, OthersKept
<1> HIDE DEF Goal
<1>4. ASSUME NEW n \in Nodes, LocalStep(n) PROVE Goal
    <2>1. \/ \/ \E answered \in BOOLEAN : ReloadIPPools(n, answered)
             \/ FindForClaim(n) \/ ReserveGet(n) \/ DeleteForClaimList(n)
             \/ \E c \in Claims : StartUnprepare(n, c)
          \/ \/ \E c \in Claims : StartPrepare(n, c) \/ PodTerminated(n, c)
             \/ ReserveIP(n) \/ SetDevice(n) \/ DeleteClaimRecord(n)
             \/ SetNetNS(n) \/ Crash(n)
        BY <1>4 DEF LocalStep
    <2>2. CASE \/ \E answered \in BOOLEAN : ReloadIPPools(n, answered)
               \/ FindForClaim(n) \/ ReserveGet(n) \/ DeleteForClaimList(n)
               \/ \E c \in Claims : StartUnprepare(n, c)
        BY <1>3, <2>2, ReadSettled
    <2>3. CASE \/ \E c \in Claims : StartPrepare(n, c) \/ PodTerminated(n, c)
               \/ ReserveIP(n) \/ SetDevice(n) \/ DeleteClaimRecord(n)
               \/ SetNetNS(n) \/ Crash(n)
        BY <1>2, <2>3, WriteSettled
    <2> QED BY <2>1, <2>2, <2>3
<1>5. ASSUME NEW n \in Nodes, WriteStep(n) PROVE Goal
    BY <1>3, <1>5, ReadSettled DEF WriteStep
<1>6. \/ UNCHANGED <<h, mem, disk, kubelet>>
      \/ \E n \in Nodes : LocalStep(n) \/ WriteStep(n)
    BY DEF Next, vars, nodeVars, ClaimStep, Deallocate, Schedule, PoolStep, LateStep,
           LateCreate, ControllerStep
<1> QED BY <1>1, <1>4, <1>5, <1>6 DEF Goal

\* The claims of a node are settled in every state of the cluster.
LEMMA Settled == Spec => [](TypeInv /\ OwnershipInv /\ SettledInv)
<1>1. Init => SettledInv
    BY SettledInit
<1>2. TypeInv /\ OwnershipInv /\ SettledInv /\ [Next]_vars => SettledInv'
    BY SettledStep
<1> QED BY <1>1, <1>2, Ownership, PTL DEF Spec

\* Whatever the kubelet was told is prepared is in the state file, complete,
\* so a driver that crashes at any point restarts with the same addresses,
\* however many writes of the state file failed before (Store.save).
THEOREM CrashKeepsPrepared == Spec => []PreparedSurvivesCrash
<1>1. SettledInv => PreparedSurvivesCrash
    BY DEF SettledInv, NodeSettled, PreparedSurvivesCrash
<1> QED BY <1>1, Settled, PTL

\* A Pod keeps its addresses for as long as it runs, whether its claim is
\* prepared again, the driver crashes or the pool is edited meanwhile.
THEOREM AddressesSettle == Spec => AddressSettled
<1> DEFINE A == \A n \in Nodes, c \in Claims :
                    kubelet[n][c] = "prepared" /\ kubelet'[n][c] = "prepared"
                       => InUse(n, c)' = InUse(n, c)
<1>1. TypeInv /\ OwnershipInv /\ SettledInv /\ [Next]_vars => [A]_vars
    <2> SUFFICES ASSUME TypeInv, OwnershipInv, SettledInv, Next,
                        NEW n \in Nodes, NEW c \in Claims,
                        kubelet[n][c] = "prepared", kubelet'[n][c] = "prepared"
                 PROVE  InUse(n, c)' = InUse(n, c)
        OBVIOUS
    <2>1. mem'[n].dev[c] = mem[n].dev[c]
        BY SettledStep DEF KeepsAddresses
    <2> QED BY <2>1 DEF InUse
<1> QED BY <1>1, Settled, PTL DEF Spec, AddressSettled

-----------------------------------------------------------------------------
(* The refinement of AddressLedger.  Calls that write IPAllocation objects  *)
(* are the ledger's Acquire and Release, the last device of Prepare is its  *)
(* Start, the end of the Pod its Stop, and everything else stutters.        *)

Owners == [nm \in Names |-> allocs[nm].claim]
Using == [c \in Claims |-> UNION {InUse(n, c) : n \in Nodes}]

\* A name without an object has no owner, so a create call finds it free.
FreeNames == \A nm \in Names : ~Exists(nm) => allocs[nm].claim = None

LEMMA UsingMember ==
    ASSUME NEW c \in Claims, NEW a
    PROVE  a \in Using[c] <=> \E n \in Nodes : a \in InUse(n, c)
BY DEF Using

\* What is used is owned, on the one node that the claim is allocated on.
LEMMA UsedOwned ==
    ASSUME TypeInv, OwnershipInv, NEW n \in Nodes, NEW c \in Claims, NEW a \in InUse(n, c)
    PROVE  /\ kubelet[n][c] = "prepared" /\ claim[c] = "live" /\ node[c] = n
           /\ a \in Names /\ Exists(a) /\ allocs[a].claim = c
<1>1. kubelet[n][c] = "prepared"
    BY DEF InUse
<1>2. PICK r \in ReqIds : a = mem[n].dev[c][r] /\ a # NoName
    BY <1>1 DEF InUse
<1>3. mem[n].dev[c][r] \in Names \cup {NoName}
    BY DEF TypeInv, TypeOK, NodeTypeOK, Store
<1> QED BY <1>1, <1>2, <1>3 DEF OwnershipInv, KubeletOK, StoresOwn, StoreOwns, Owned

\* A claim is known to the kubelet of one node only.
LEMMA OneKubelet ==
    ASSUME OwnershipInv, NEW n \in Nodes, NEW q \in Nodes, NEW c \in Claims,
           kubelet[n][c] # "none", kubelet[q][c] # "none"
    PROVE  q = n
BY DEF OwnershipInv, KubeletOK

\* What is used is decided by who is prepared.
LEMMA UsingKept ==
    ASSUME \A n \in Nodes : KeepsAddresses(n), NEW c \in Claims,
           \A n \in Nodes : kubelet'[n][c] = "prepared" <=> kubelet[n][c] = "prepared"
    PROVE  Using'[c] = Using[c]
<1>1. ASSUME NEW n \in Nodes PROVE InUse(n, c)' = InUse(n, c)
    BY <1>1 DEF InUse, KeepsAddresses
<1> QED BY <1>1 DEF Using

LEMMA UsingAllKept ==
    ASSUME \A c \in Claims : Using'[c] = Using[c]
    PROVE  UNCHANGED Using
BY DEF Using

LEMMA OwnersKept ==
    ASSUME UNCHANGED allocs
    PROVE  UNCHANGED Owners
BY DEF Owners

LEMMA LedgerAcquires ==
    ASSUME TypeInv, FreeNames, UNCHANGED Using, NEW nm \in Names, NEW c \in Claims, NEW u \in FreshUIDs,
           NEW type, ~Exists(nm), CreateObject(nm, c, u, type)
    PROVE  Ledger!Acquire(c, nm) /\ FreeNames'
<1>1. allocs \in [Names -> Allocation]
    BY DEF TypeInv, TypeOK, ObjectsTypeOK
<1>2. /\ \A y \in Names : y # nm => allocs'[y] = allocs[y]
      /\ allocs'[nm].claim = c
      /\ allocs'[nm].uid = u
    BY <1>1 DEF CreateObject, NewAllocationObject
<1>3. u # NoUID
    BY FreshTypes, ObjectsAssumption
<1>4. FreeNames'
    BY <1>2, <1>3 DEF FreeNames, Exists
<1>5. Owners[nm] = None /\ Owners' = [Owners EXCEPT ![nm] = c]
    BY <1>2 DEF Owners, FreeNames
<1> QED BY <1>4, <1>5 DEF Ledger!Acquire, Owners, Using

LEMMA LedgerReleases ==
    ASSUME TypeInv, OwnershipInv, FreeNames, UNCHANGED Using, NEW nm \in Names, NEW u,
           DeleteObject(nm, u), DeleteMatches(nm, u),
           \/ claim[allocs[nm].claim] = "gone"
           \/ \E n \in Nodes : kubelet[n][allocs[nm].claim] = "releasing"
    PROVE  Ledger!Release(nm) /\ FreeNames'
<1>1. allocs \in [Names -> Allocation]
    BY DEF TypeInv, TypeOK, ObjectsTypeOK
<1>2. /\ \A y \in Names : y # nm => allocs'[y] = allocs[y]
      /\ allocs'[nm].claim = None
    BY <1>1 DEF DeleteObject, NoAllocation
<1>3. FreeNames'
    BY <1>2 DEF FreeNames, Exists
<1>4. Owners' = [Owners EXCEPT ![nm] = None]
    BY <1>2 DEF Owners
<1>5. ASSUME NEW c \in Claims, nm \in Using[c] PROVE FALSE
    <2>1. PICK q \in Nodes : nm \in InUse(q, c)
        BY <1>5, UsingMember
    <2>2. kubelet[q][c] = "prepared" /\ claim[c] = "live" /\ allocs[nm].claim = c
        BY <2>1, UsedOwned
    <2>3. ASSUME NEW n \in Nodes, kubelet[n][c] = "releasing" PROVE FALSE
        BY <2>2, <2>3, OneKubelet
    <2> QED BY <2>2, <2>3
<1> QED BY <1>3, <1>4, <1>5 DEF Ledger!Release, Owners, Using

LEMMA LedgerStops ==
    ASSUME TypeInv, OwnershipInv, \A q \in Nodes : KeepsAddresses(q), UNCHANGED allocs,
           NEW n \in Nodes, NEW c \in Claims, PodTerminated(n, c)
    PROVE  Ledger!Stop(c)
<1>1. /\ kubelet \in [Nodes -> [Claims -> KubeletState]]
      /\ kubelet[n][c] # "none"
      /\ kubelet' = [kubelet EXCEPT ![n][c] = "releasing"]
    BY DEF TypeInv, TypeOK, NodeTypeOK, PodTerminated
<1>2. \A b \in Claims, q \in Nodes : b # c => kubelet'[q][b] = kubelet[q][b]
    BY <1>1
<1>3. \A b \in Claims : b # c => Using'[b] = Using[b]
    BY <1>2, UsingKept
<1>4. \A q \in Nodes : kubelet'[q][c] # "prepared"
    <2>1. \A q \in Nodes : q # n => kubelet'[q][c] = "none"
        BY <1>1, OneKubelet
    <2> QED BY <1>1, <2>1
<1>5. \A q \in Nodes : InUse(q, c)' = {}
    BY <1>4 DEF InUse
<1>6. Using'[c] = {}
    BY <1>5 DEF Using
<1>7. Using' = [Using EXCEPT ![c] = {}]
    BY <1>3, <1>6 DEF Using
<1> QED BY <1>7, OwnersKept DEF Ledger!Stop, Owners, Using

UsedNames ==
    \A n \in Nodes, c \in Claims : \A a \in InUse(n, c) : a \in Names /\ allocs[a].claim = c

LEMMA NamesUsed == TypeInv /\ OwnershipInv => UsedNames
BY UsedOwned DEF UsedNames

\* The last device of a claim that the kubelet was waiting for.
LEMMA LedgerStarts ==
    ASSUME TypeInv, OwnershipInv, UsedNames', \A q \in Nodes : KeepsAddresses(q), UNCHANGED allocs,
           NEW n \in Nodes, NEW c \in Claims, kubelet[n][c] = "preparing",
           kubelet' = [kubelet EXCEPT ![n][c] = "prepared"]
    PROVE  \E A \in SUBSET Names : Ledger!Start(c, A)
<1>1. kubelet \in [Nodes -> [Claims -> KubeletState]]
    BY DEF TypeInv, TypeOK, NodeTypeOK
<1>2. \A b \in Claims, q \in Nodes : b # c => kubelet'[q][b] = kubelet[q][b]
    BY <1>1
<1>3. \A b \in Claims : b # c => Using'[b] = Using[b]
    BY <1>2, UsingKept
<1>4. \A q \in Nodes : q # n => kubelet'[q][c] = kubelet[q][c] /\ kubelet[q][c] = "none"
    BY <1>1, OneKubelet
<1>5. \A q \in Nodes : InUse(q, c) = {}
    BY <1>4 DEF InUse
<1>6. Using[c] = {}
    BY <1>5 DEF Using
<1> DEFINE A == Using'[c]
<1>7. ASSUME NEW a \in A PROVE a \in Names /\ Owners[a] = c
    <2>1. PICK q \in Nodes : a \in InUse(q, c)'
        BY <1>7 DEF Using
    <2>2. a \in Names /\ allocs'[a].claim = c
        BY <2>1 DEF UsedNames
    <2> QED BY <2>2 DEF Owners
<1>8. Using' = [Using EXCEPT ![c] = A]
    BY <1>3 DEF Using
<1> HIDE DEF A
<1>9. A \in SUBSET Names
    BY <1>7
<1>10. Ledger!Start(c, A)
    BY <1>6, <1>7, <1>8, OwnersKept DEF Ledger!Start, Owners, Using
<1> QED BY <1>9, <1>10

\* Every step of the cluster is one of the ledger.
LEMMA LedgerStep ==
    ASSUME TypeInv, OwnershipInv, SettledInv, FreeNames, UsedNames', [Next]_vars
    PROVE  [Ledger!Next]_(Ledger!ledgerVars) /\ FreeNames'
<1> DEFINE Goal == [Ledger!Next]_(Ledger!ledgerVars) /\ FreeNames'
<1>0. kubelet \in [Nodes -> [Claims -> KubeletState]]
    BY DEF TypeInv, TypeOK, NodeTypeOK
<1>1. \A q \in Nodes : KeepsAddresses(q)
    BY SettledStep
<1>2. UNCHANGED allocs => FreeNames'
    BY DEF FreeNames, Exists
<1>3. ASSUME UNCHANGED Owners, UNCHANGED Using, FreeNames' PROVE Goal
    BY <1>3 DEF Ledger!ledgerVars, Owners, Using
<1>4. ASSUME UNCHANGED allocs,
             \A q \in Nodes, c \in Claims :
                 kubelet'[q][c] = "prepared" <=> kubelet[q][c] = "prepared"
      PROVE  Goal
    <2>1. UNCHANGED Using
        BY <1>1, <1>4, UsingKept, UsingAllKept
    <2> HIDE DEF Goal
    <2> QED BY <1>2, <1>3, <1>4, <2>1, OwnersKept
<1>5. ASSUME Ledger!Next, FreeNames' PROVE Goal
    BY <1>5
<1> HIDE DEF Goal
<1>6. ASSUME NEW n \in Nodes, LocalStep(n) PROVE Goal
    <2>1. UNCHANGED allocs
        BY <1>6 DEF LocalStep, objectVars
    <2>2. ASSUME UNCHANGED kubelet PROVE Goal
        BY <1>4, <2>1, <2>2
    <2>3. ASSUME NEW c \in Claims, StartPrepare(n, c) PROVE Goal
        <3>1. kubelet' = [kubelet EXCEPT ![n][c] = IF @ = "none" THEN "preparing" ELSE @]
            BY <2>3 DEF StartPrepare
        <3>2. \A q \in Nodes, b \in Claims :
                  kubelet'[q][b] = "prepared" <=> kubelet[q][b] = "prepared"
            BY <1>0, <3>1
        <3> QED BY <1>4, <2>1, <3>2
    <2>4. ASSUME NEW c \in Claims, PodTerminated(n, c) PROVE Goal
        <3>1. Ledger!Stop(c)
            BY <1>1, <2>1, <2>4, LedgerStops
        <3> QED BY <1>2, <1>5, <2>1, <3>1 DEF Ledger!Next
    <2>5. ASSUME SetDevice(n) PROVE Goal
        <3> DEFINE c == h[n].claim
        <3>1. c \in Claims
            BY <2>5, GoodNow DEF TypeInv, GoodHandler, SetDevice
        <3>2. CASE kubelet' = [kubelet EXCEPT ![n][c] = IF @ = "preparing" THEN "prepared" ELSE @]
            <4>1. CASE kubelet[n][c] = "preparing"
                <5>1. kubelet' = [kubelet EXCEPT ![n][c] = "prepared"]
                    BY <3>2, <4>1
                <5> HIDE DEF c
                <5>2. \E A \in SUBSET Names : Ledger!Start(c, A)
                    BY <1>1, <2>1, <3>1, <4>1, <5>1, LedgerStarts
                <5>3. Ledger!Next
                    BY <3>1, <5>2 DEF Ledger!Next
                <5> QED BY <1>2, <1>5, <2>1, <5>3
            <4>2. CASE kubelet[n][c] # "preparing"
                <5>1. UNCHANGED kubelet
                    BY <1>0, <3>1, <3>2, <4>2
                <5> QED BY <2>2, <5>1
            <4> QED BY <4>1, <4>2
        <3> QED BY <2>2, <2>5, <3>2 DEF SetDevice, NextRequest
    <2>6. ASSUME DeleteClaimRecord(n) PROVE Goal
        <3> DEFINE c == h[n].claim
        <3>1. c \in Claims /\ kubelet[n][c] = "releasing"
            BY <2>6, GoodNow DEF TypeInv, GoodHandler, DeleteClaimRecord, OwnershipInv,
                                 HandlersOwn, HandlerOwns
        <3>2. UNCHANGED kubelet \/ kubelet' = [kubelet EXCEPT ![n][c] = "none"]
            BY <2>6 DEF DeleteClaimRecord
        <3>3. \A q \in Nodes, b \in Claims :
                  kubelet'[q][b] = "prepared" <=> kubelet[q][b] = "prepared"
            BY <1>0, <3>1, <3>2
        <3> QED BY <1>4, <2>1, <3>3
    <2>7. \/ UNCHANGED kubelet \/ SetDevice(n) \/ DeleteClaimRecord(n)
          \/ \E c \in Claims : StartPrepare(n, c) \/ PodTerminated(n, c)
        BY <1>6 DEF LocalStep, ReloadIPPools, FindForClaim, ReserveGet, ReserveIP, StartUnprepare,
                    DeleteForClaimList, SetNetNS, Crash
    <2> QED BY <2>2, <2>3, <2>4, <2>5, <2>6, <2>7
<1>7. ASSUME UNCHANGED <<mem, kubelet>> PROVE UNCHANGED Using
    BY <1>7, <1>1, UsingKept, UsingAllKept
<1>8. ASSUME UNCHANGED <<mem, kubelet>>, NEW nm \in Names, NEW c \in Claims, NEW u \in FreshUIDs,
             NEW type, ~Exists(nm), CreateObject(nm, c, u, type)
      PROVE  Goal
    <2>1. Ledger!Acquire(c, nm) /\ FreeNames'
        BY <1>7, <1>8, LedgerAcquires
    <2> QED BY <1>5, <2>1 DEF Ledger!Next
<1>9. ASSUME UNCHANGED <<mem, kubelet>>, NEW nm \in Names, NEW u, DeleteObject(nm, u),
             DeleteMatches(nm, u) => \/ claim[allocs[nm].claim] = "gone"
                                     \/ \E n \in Nodes : kubelet[n][allocs[nm].claim] = "releasing"
      PROVE  Goal
    <2>1. CASE DeleteMatches(nm, u)
        <3>1. Ledger!Release(nm) /\ FreeNames'
            BY <1>7, <1>9, <2>1, LedgerReleases
        <3> QED BY <1>5, <3>1 DEF Ledger!Next
    <2>2. CASE ~DeleteMatches(nm, u)
        <3>1. UNCHANGED allocs
            BY <1>9, <2>2 DEF DeleteObject
        <3> QED BY <1>4, <1>9, <3>1
    <2> QED BY <2>1, <2>2
<1>10. ASSUME NEW n \in Nodes, WriteStep(n) PROVE Goal
    <2>1. UNCHANGED <<mem, kubelet>>
        BY <1>10 DEF WriteStep, ReserveCreate, DeleteForClaimDelete
    <2>2. ASSUME UNCHANGED allocs PROVE Goal
        BY <1>4, <2>1, <2>2
    <2>3. ASSUME NEW u \in FreshUIDs, ReserveCreate(n, u) PROVE Goal
        <3>1. h[n].name \in Names /\ h[n].claim \in Claims
            BY <2>3, GoodNow DEF TypeInv, GoodHandler, Naming, ReserveCreate
        <3> QED BY <1>8, <2>1, <2>2, <2>3, <3>1 DEF ReserveCreate
    <2>4. ASSUME DeleteForClaimDelete(n) PROVE Goal
        <3>1. ASSUME NEW i \in h[n].todo, DeleteObject(i.name, i.uid) PROVE Goal
            <4>1. i.name \in Names
                BY DEF TypeInv, TypeOK, NodeTypeOK, Handler, Item
            <4>2. /\ kubelet[n][h[n].claim] = "releasing"
                  /\ DeleteMatches(i.name, i.uid) => allocs[i.name].claim = h[n].claim
                BY <2>4 DEF OwnershipInv, HandlersOwn, HandlerOwns, DeleteForClaimDelete
            <4>3. DeleteMatches(i.name, i.uid) =>
                      \E q \in Nodes : kubelet[q][allocs[i.name].claim] = "releasing"
                BY <4>2
            <4> QED BY <1>9, <2>1, <3>1, <4>1, <4>3
        <3> QED BY <2>2, <2>4, <3>1 DEF DeleteForClaimDelete
    <2> QED BY <1>10, <2>3, <2>4 DEF WriteStep
<1>11. ASSUME LateStep PROVE Goal
    <2>1. PICK l \in late, u \in FreshUIDs : LateCreate(l, u)
        BY <1>11 DEF LateStep
    <2>2. l.name \in Names /\ l.claim \in Claims
        BY DEF TypeInv, TypeOK, NodeTypeOK
    <2>3. UNCHANGED <<mem, kubelet>>
        BY <2>1 DEF LateCreate
    <2> QED BY <1>4, <1>8, <2>1, <2>2, <2>3 DEF LateCreate
<1>12. ASSUME NEW k \in Controllers, ControllerStep(k) PROVE Goal
    <2> DEFINE i == ctl[k].cur
    <2>1. UNCHANGED <<mem, kubelet>>
        BY <1>12 DEF ControllerStep, nodeVars
    <2>2. CASE UNCHANGED allocs
        BY <1>4, <2>1, <2>2
    <2>3. CASE deleteAllocation(k) /\ DeleteObject(i.name, i.uid)
        <3>1. /\ i.name \in Names /\ claim[i.claim] = "gone"
              /\ DeleteMatches(i.name, i.uid) => allocs[i.name].claim = i.claim
            BY <2>3 DEF deleteAllocation, OwnershipInv, PassesOwn, PassOwns, Listed
        <3> HIDE DEF i
        <3> QED BY <1>9, <2>1, <2>3, <3>1
    <2> QED BY <1>12, <2>2, <2>3 DEF ControllerStep, deleteAllocation
<1>13. ASSUME UNCHANGED <<allocs, kubelet>> PROVE Goal
    BY <1>4, <1>13
<1>14. \/ UNCHANGED <<allocs, kubelet>> \/ LateStep
       \/ \E n \in Nodes : LocalStep(n) \/ WriteStep(n)
       \/ \E k \in Controllers : ControllerStep(k)
    BY DEF Next, vars, objectVars, nodeVars, ClaimStep, CreateClaim, DeleteClaim, Deallocate,
           Schedule, PoolStep, EditPool
<1>15. Goal
    BY <1>6, <1>10, <1>11, <1>12, <1>13, <1>14
<1> QED BY <1>15 DEF Goal

LEMMA LedgerInit == Init => Ledger!Init /\ FreeNames
<1> SUFFICES ASSUME Init PROVE Ledger!Init /\ FreeNames
    OBVIOUS
<1>1. \A nm \in Names : allocs[nm].claim = None
    BY DEF Init, ObjectsInit, NoAllocation
<1>2. Owners = [nm \in Names |-> None] /\ FreeNames
    BY <1>1 DEF Owners, FreeNames
<1>3. \A n \in Nodes, c \in Claims : InUse(n, c) = {}
    BY DEF Init, NodeInit, InUse
<1>4. Using = [c \in Claims |-> {}]
    <2>1. \A c \in Claims : UNION {InUse(n, c) : n \in Nodes} = {}
        BY <1>3
    <2> QED BY <2>1 DEF Using
<1> QED BY <1>2, <1>4 DEF Ledger!Init, Owners, Using

\* The cluster implements the ledger, for any number of nodes, controllers and
\* claims: with lost, late and failed calls, stale List answers, crashes and
\* failed writes, an address has one owner, is used by its owner only, and is
\* released only while no Pod uses it.
THEOREM LedgerImplemented == Spec => ImplementsLedger
<1>1. Init => Ledger!Init /\ FreeNames
    BY LedgerInit
<1>2. TypeInv /\ OwnershipInv /\ SettledInv /\ FreeNames /\ UsedNames' /\ [Next]_vars
          => [Ledger!Next]_(Ledger!ledgerVars) /\ FreeNames'
    BY LedgerStep
<1>3. TypeInv /\ OwnershipInv => UsedNames
    BY NamesUsed
<1> QED BY <1>1, <1>2, <1>3, Settled, PTL DEF Spec, ImplementsLedger, Ledger!Spec
=============================================================================
