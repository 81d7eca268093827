---------------------------- MODULE V4gwdFollows ----------------------------
(***************************************************************************)
(* V4gwd implements FollowGateway, for every value of the constants, as    *)
(* long as the kernel refuses nothing and the process is not killed: its   *)
(* one route and the records of all its interfaces are the slot and the    *)
(* claims.                                                                 *)
(***************************************************************************)
EXTENDS V4gwdProofs

USE NoGwAssumption, NoRouteAssumption, NoSlotAssumption

\* A process that is not there has no record.
Forgetful == ~ Alive => \A i \in Ifaces : installed[i] = NoGw

FollowInv == TypeOK /\ KnownInv /\ OwnedInv /\ Forgetful

LEMMA ForgetfulInvariant == Spec => []Forgetful
<1>1. Init => Forgetful
  BY DEF Init, Forgetful
<1>2. TypeOK /\ Forgetful /\ [Next]_vars => Forgetful'
  <2> SUFFICES ASSUME TypeOK, Forgetful, [Next]_vars PROVE Forgetful'
    OBVIOUS
  <2> USE DEF Forgetful, Alive
  <2>1. CASE Environment
    BY <2>1 DEF Environment, LoseLink, LinkAppears, SentinelChanges,
                RouterListChanges, NudChanges, local
  <2>2. CASE Start \/ Signal \/ Wake \/ Loop \/ PassEnds
    BY <2>2 DEF Start, Signal, Wake, Loop, PassEnds, local
  <2>3. CASE Refresh \/ CheckSentinel \/ Select \/ CheckNud
    BY <2>3 DEF Refresh, CheckSentinel, Select, CheckNud, WithdrawIfActive, NextIface
  <2>4. CASE InstallRoute \/ Withdraw \/ \E i \in Ifaces : ResolveIndex(i)
    BY <2>4 DEF InstallRoute, Withdraw, ResolveIndex, NextIface
  <2>5. CASE \E i \in Ifaces : ExitWithdraw(i)
    BY <2>5 DEF ExitWithdraw
  <2>6. CASE Exit \/ Crash
    BY <2>6 DEF Exit, Crash, Forget
  <2>7. CASE UNCHANGED vars
    BY <2>7 DEF vars
  <2> QED
    BY <2>1, <2>2, <2>3, <2>4, <2>5, <2>6, <2>7 DEF Next, Daemon, Reconcile
<1> QED
  BY <1>1, <1>2, TypeCorrect, PTL DEF Spec

-----------------------------------------------------------------------------
(* The route and the records as slot and claims. *)

LEMMA SlotEmpty == ASSUME TypeOK PROVE Slot = NoRoute <=> route = NoRoute
BY DEF TypeOK, Routes, Slot

(* A claim is the record of one interface.                                 *)
LEMMA ClaimOf ==
    ASSUME NEW i \in Ifaces, NEW g
    PROVE  [dev |-> i, via |-> g] \in Claimed <=> installed[i] # NoGw /\ installed[i] = g
<1>1. ASSUME [dev |-> i, via |-> g] \in Claimed
      PROVE  installed[i] # NoGw /\ installed[i] = g
  <2>1. PICK j \in {k \in Ifaces : installed[k] # NoGw} :
          [dev |-> i, via |-> g] = [dev |-> j, via |-> installed[j]]
    BY <1>1 DEF Claimed
  <2>2. i = j /\ g = installed[j]
    BY <2>1
  <2> QED
    BY <2>1, <2>2
<1> QED
  BY <1>1 DEF Claimed

(* Nothing of slot, claims and life changes.                               *)
LEMMA Idles ==
    ASSUME UNCHANGED <<route, installed>>, Alive' = Alive
    PROVE  UNCHANGED FG!vars
BY DEF FG!vars, Slot, Claimed

(* Records that are only cleared claim no more than before.                *)
LEMMA Dropped ==
    ASSUME \A i \in Ifaces : installed'[i] \in {installed[i], NoGw}
    PROVE  Claimed' \subseteq Claimed
<1> SUFFICES ASSUME NEW c \in Claimed' PROVE c \in Claimed
  OBVIOUS
<1>1. PICK i \in Ifaces : installed'[i] # NoGw /\ c = [dev |-> i, via |-> installed'[i]]
  BY DEF Claimed
<1> QED
  BY <1>1, ClaimOf

(* The route goes, or stays with the record that claims it; other records  *)
(* may be cleared.                                                         *)
LEMMA Releases ==
    ASSUME TypeOK, TypeOK', OwnedInv', Alive' = Alive,
           route' \in {route, NoRoute},
           \A i \in Ifaces : installed'[i] \in {installed[i], NoGw}
    PROVE  FG!Release
<1>1. Slot' \in {Slot, NoRoute}
  BY DEF Slot
<1>2. Claimed' \subseteq Claimed
  BY Dropped
<1>3. Slot' \in Claimed' \cup {NoRoute}
  <2>1. CASE route' = NoRoute
    BY <2>1 DEF Slot
  <2>2. CASE route' # NoRoute
    <3>1. route'.dev \in Ifaces
      BY <2>2 DEF TypeOK, Routes
    <3>2. installed'[route'.dev] # NoGw /\ route'.via = installed'[route'.dev]
      BY <2>2, <3>1 DEF OwnedInv, Holds, Entry
    <3>3. Slot' = [dev |-> route'.dev, via |-> installed'[route'.dev]]
      BY <2>2, <3>2 DEF Slot
    <3> QED
      BY <3>1, <3>2, <3>3 DEF Claimed
  <2> QED
    BY <2>1, <2>2
<1> QED
  BY <1>1, <1>2, <1>3 DEF FG!Release

-----------------------------------------------------------------------------
(* The steps. *)

LEMMA EnvironmentFollows ==
    ASSUME TypeOK, TypeOK', OwnedInv', Environment
    PROVE  FG!Next \/ UNCHANGED FG!vars
<1> USE DEF local, Alive
<1>1. ASSUME NEW i \in Ifaces, LoseLink(i)
      PROVE  FG!Next
  <2>1. route' \in {route, NoRoute} /\ UNCHANGED installed /\ Alive' = Alive
    BY <1>1 DEF LoseLink, FlushRoutesOf
  <2> QED
    BY <2>1, Releases DEF FG!Next
<1>2. ASSUME NEW i \in Ifaces,
             \/ LinkAppears(i)
             \/ SentinelChanges(i)
             \/ RouterListChanges(i)
             \/ \E g \in Gws : NudChanges(i, g)
      PROVE  UNCHANGED FG!vars
  BY <1>2, Idles DEF LinkAppears, SentinelChanges, RouterListChanges, NudChanges
<1> QED
  BY <1>1, <1>2 DEF Environment

LEMMA InstallFollows ==
    ASSUME Reliable, TypeOK, TypeOK', InstallRoute
    PROVE  FG!Next \/ UNCHANGED FG!vars
<1>1. Alive /\ Alive'
  BY DEF InstallRoute, NextIface, Alive
<1>2. CASE UNCHANGED <<route, installed>>
  BY <1>1, <1>2, Idles
<1>3. CASE /\ route' = [dev |-> cur, gen |-> index[cur], via |-> gw]
           /\ installed' = [installed EXCEPT ![cur] = gw]
  <2>1. cur \in Ifaces /\ gw \in Gws /\ installed'[cur] = gw
    BY <1>3 DEF InstallRoute, TypeOK, Reconciling
  <2>2. route' \in Routes
    BY <1>3, <2>1, MaxGenAssumption, RouteType DEF TypeOK
  <2>3. Slot' = [dev |-> cur, via |-> gw]
    <3>1. route' # NoRoute
      BY <2>2 DEF Routes
    <3>2. route'.dev = cur /\ route'.via = gw
      BY <1>3
    <3> QED
      BY <3>1, <3>2 DEF Slot
  <2>4. Slot' # NoRoute /\ Slot' \in Claimed'
    <3>1. gw # NoGw /\ [dev |-> cur, via |-> gw] \in [dev : Ifaces, via : Gws]
      BY <2>1
    <3> QED
      BY <2>1, <2>3, <3>1 DEF Claimed
  <2>5. Claimed' \subseteq Claimed \cup {Slot'}
    <3> SUFFICES ASSUME NEW c \in Claimed', c # Slot' PROVE c \in Claimed
      OBVIOUS
    <3>1. PICK i \in Ifaces :
            installed'[i] # NoGw /\ c = [dev |-> i, via |-> installed'[i]]
      BY DEF Claimed
    <3>2. i # cur
      BY <2>1, <2>3, <3>1
    <3>3. installed'[i] = installed[i]
      BY <1>3, <3>2 DEF TypeOK
    <3> QED
      BY <3>1, <3>3, ClaimOf
  <2> QED
    BY <1>1, <2>4, <2>5 DEF FG!Next, FG!Take
<1> QED
  BY <1>2, <1>3 DEF InstallRoute

(* withdraw takes the route of its interface, or finds none: the record    *)
(* it clears then claimed nothing.                                         *)
LEMMA WithdrawFollows ==
    ASSUME TypeOK, TypeOK', OwnedInv', Alive' = Alive,
           NEW i \in Ifaces, WithdrawRoute(i)
    PROVE  FG!Next
<1>1. route' \in {route, NoRoute}
  BY DEF WithdrawRoute
<1>2. \A j \in Ifaces : installed'[j] \in {installed[j], NoGw}
  BY DEF WithdrawRoute, TypeOK
<1> QED
  BY <1>1, <1>2, Releases DEF FG!Next

LEMMA ExitFollows ==
    ASSUME FollowInv, OwnedInv', Exit
    PROVE  FG!Next
<1>1. Alive /\ ~ Alive'
  BY DEF Exit, Alive
<1>2. route' = NoRoute
  BY DEF Exit, OwnedInv
<1>3. Claimed' = {}
  BY DEF Exit, Forget, Claimed
<1>4. Slot' = NoRoute
  BY <1>2 DEF Slot
<1> QED
  BY <1>1, <1>3, <1>4 DEF FG!Next, FG!Stop

LEMMA StepFollows ==
    ASSUME Reliable, FollowInv, TypeOK', OwnedInv', [Next]_vars
    PROVE  FG!Next \/ UNCHANGED FG!vars
<1> USE DEF FollowInv, Alive
<1>1. CASE Environment
  BY <1>1, EnvironmentFollows
<1>2. CASE Start
  <2>1. ~ Alive /\ Alive' /\ UNCHANGED <<route, installed>>
    BY <1>2 DEF Start, local
  <2>2. Claimed' = {} /\ UNCHANGED Slot
    BY <2>1 DEF Forgetful, Claimed, Slot
  <2> QED
    BY <2>1, <2>2 DEF FG!Next, FG!Start
<1>3. CASE \/ Refresh \/ PassEnds \/ CheckSentinel \/ Select \/ CheckNud
           \/ Loop \/ Wake \/ Signal
  BY <1>3, Idles DEF Refresh, PassEnds, CheckSentinel, Select, CheckNud, Loop, Wake,
                     Signal, WithdrawIfActive, NextIface, kernel, local
<1>4. ASSUME NEW i \in Ifaces, ResolveIndex(i)
      PROVE  FG!Next \/ UNCHANGED FG!vars
  <2>1. Alive' = Alive /\ UNCHANGED route
    BY <1>4 DEF ResolveIndex, NextIface, kernel
  <2>2. \A j \in Ifaces : installed'[j] \in {installed[j], NoGw}
    BY <1>4 DEF ResolveIndex, TypeOK
  <2> QED
    BY <2>1, <2>2, Releases DEF FG!Next
<1>5. CASE InstallRoute
  BY <1>5, InstallFollows
<1>6. CASE Withdraw
  <2>1. cur \in Ifaces /\ WithdrawRoute(cur) /\ Alive' = Alive
    BY <1>6 DEF Withdraw, NextIface, TypeOK, Reconciling
  <2> QED
    BY <2>1, WithdrawFollows
<1>7. ASSUME NEW i \in Ifaces, ExitWithdraw(i)
      PROVE  FG!Next \/ UNCHANGED FG!vars
  <2>1. CASE WithdrawRoute(i)
    BY <1>7, <2>1, WithdrawFollows DEF ExitWithdraw
  <2>2. CASE UNCHANGED <<route, installed>>
    BY <1>7, <2>2, Idles DEF ExitWithdraw
  <2> QED
    BY <1>7, <2>1, <2>2 DEF ExitWithdraw
<1>8. CASE Exit
  BY <1>8, ExitFollows
<1>9. CASE Crash
  BY <1>9 DEF Crash, Reliable
<1>10. CASE UNCHANGED vars
  BY <1>10, Idles DEF vars
<1> QED
  BY <1>1, <1>2, <1>3, <1>4, <1>5, <1>6, <1>7, <1>8, <1>9, <1>10
     DEF Next, Daemon, Reconcile

(* The Linux daemon, with all its interfaces together, keeps the promise   *)
(* of FollowGateway: install_route and withdraw change kernel route and    *)
(* record in one step that leaves no route unclaimed, link loss included,  *)
(* and the loop at the end of main leaves none.                            *)
THEOREM DaemonFollows == ASSUME Reliable PROVE Spec => Follows
<1>1. Init => FG!Init
  BY DEF Init, FG!Init, Slot, Claimed, Alive
<1>2. Reliable /\ FollowInv /\ TypeOK' /\ OwnedInv' /\ [Next]_vars
        => [FG!Next]_(FG!vars)
  BY StepFollows
<1>3. TypeOK /\ KnownInv /\ OwnedInv /\ Forgetful => FollowInv
  BY DEF FollowInv
<1>4. Follows <=> FG!Init /\ [][FG!Next]_(FG!vars)
  BY DEF Follows, FG!Spec
<1> QED
  BY <1>1, <1>2, <1>3, <1>4, TypeCorrect, KnownInvariant, OwnedInvariant,
     ForgetfulInvariant, PTL DEF Spec
=============================================================================
