---------------------------- MODULE V4gwdProofs ----------------------------
(***************************************************************************)
(* V4gwd for every set of interfaces, of routers and of router lists.      *)
(***************************************************************************)
EXTENDS V4gwd, SequenceTheorems, TLAPS

USE NoGwAssumption, IfacesAssumption, NoRouteAssumption

(* Best answers with a gateway of the dump, or with None.                  *)
LEMMA BestInDump ==
    ASSUME NEW dump \in Seq(Entries), NEW nudOf
    PROVE  \/ Best(dump, nudOf) = NoGw
           \/ /\ Best(dump, nudOf) \in Gws
              /\ \E k \in 1..Len(dump) : dump[k].gw = Best(dump, nudOf)
<1> DEFINE best == {k \in Candidates(dump) :
                      IsLastBest(dump, KeysOf(dump, nudOf), k)}
           pick == CHOOSE k \in best : TRUE
<1>1. CASE best = {}
  BY <1>1 DEF Best
<1>2. CASE best # {}
  <2>1. pick \in Candidates(dump)
    BY <1>2
  <2>2. pick \in 1..Len(dump) /\ dump[pick].gw # NoGw
    BY <2>1 DEF Candidates
  <2>3. dump[pick] \in Entries
    BY <2>2, ElementOfSeq
  <2>4. dump[pick].gw \in Gws
    BY <2>2, <2>3 DEF Entries
  <2>5. Best(dump, nudOf) = dump[pick].gw
    BY <1>2 DEF Best
  <2> QED
    BY <2>2, <2>4, <2>5
<1> QED
  BY <1>1, <1>2

(* Only whether a neighbour is REACHABLE bears on the choice.              *)
LEMMA BestReachable ==
    ASSUME NEW dump \in Seq(Entries), NEW nud1, NEW nud2,
           \A g \in Gws : nud1[g] = "REACHABLE" <=> nud2[g] = "REACHABLE"
    PROVE  Best(dump, nud1) = Best(dump, nud2)
<1>1. ASSUME NEW k \in 1..Len(dump)
      PROVE  KeyOf(dump[k], IF dump[k].gw = NoGw THEN "FAILED" ELSE nud1[dump[k].gw])
             = KeyOf(dump[k], IF dump[k].gw = NoGw THEN "FAILED" ELSE nud2[dump[k].gw])
  <2>1. dump[k] \in Entries
    BY ElementOfSeq
  <2>2. dump[k].gw \in Gws \cup {NoGw}
    BY <2>1 DEF Entries
  <2> QED
    BY <2>2 DEF KeyOf
<1>2. KeysOf(dump, nud1) = KeysOf(dump, nud2)
  BY <1>1 DEF KeysOf
<1> QED
  BY <1>2 DEF Best

-----------------------------------------------------------------------------
(* The type invariant. *)

LEMMA DefaultRoutesType ==
    ASSUME TypeOK, NEW i \in Ifaces
    PROVE  DefaultRoutes(i) \in Seq(Entries)
  BY DEF TypeOK, DefaultRoutes

LEMMA RouteType ==
    ASSUME NEW i \in Ifaces, NEW n \in Nat, NEW g \in Gws
    PROVE  [dev |-> i, gen |-> n, via |-> g] \in Routes
  BY DEF Routes

(* A withdrawal keeps the types of what it writes.                         *)
LEMMA WithdrawTypes ==
    ASSUME TypeOK, NEW i \in Ifaces, WithdrawRoute(i)
    PROVE  /\ route' \in Routes \cup {NoRoute}
           /\ pending' \in BOOLEAN
           /\ installed' \in [Ifaces -> Gws \cup {NoGw}]
  BY DEF TypeOK, WithdrawRoute

THEOREM TypeCorrect == Spec => []TypeOK
<1>1. Init => TypeOK
  <2>1. <<>> \in Seq(Entries)
    BY EmptySeq
  <2>2. 1 \in 1..MaxGen /\ 0 \in 0..MaxGen
    BY MaxGenAssumption
  <2>3. Init => nud \in [Ifaces -> [Gws -> NudStates]]
    BY DEF Init, NudStates
  <2> QED
    <3> SUFFICES ASSUME Init PROVE TypeOK
      OBVIOUS
    <3>1. index \in [Ifaces -> 0..MaxGen] /\ gen \in [Ifaces -> 1..MaxGen]
      BY <2>2 DEF Init
    <3>2. routers \in [Ifaces -> Seq(Entries)]
      BY <2>1 DEF Init
    <3> QED
      BY <2>3, <3>1, <3>2 DEF Init, TypeOK, Steps, Reconciling
<1>2. TypeOK /\ [Next]_vars => TypeOK'
  <2> SUFFICES ASSUME TypeOK, [Next]_vars
               PROVE  TypeOK'
    OBVIOUS
  <2> USE DEF TypeOK, local, kernel, env, Steps, Reconciling
  <2>1. ASSUME NEW i \in Ifaces, LoseLink(i)
        PROVE  TypeOK'
    <3>1. routers' \in [Ifaces -> Seq(Entries)]
      BY <2>1, EmptySeq DEF LoseLink
    <3>2. gen' \in [Ifaces -> 1..MaxGen] /\ up' \in [Ifaces -> BOOLEAN]
      <4>1. gen[i] < MaxGen => gen[i] + 1 \in 1..MaxGen
        BY MaxGenAssumption
      <4>2. CASE UNCHANGED <<up, gen>>
        BY <4>2
      <4>3. CASE /\ gen[i] < MaxGen
                 /\ up' = [up EXCEPT ![i] = FALSE]
                 /\ gen' = [gen EXCEPT ![i] = @ + 1]
        BY <4>1, <4>3
      <4> QED
        BY <2>1, <4>2, <4>3 DEF LoseLink
    <3>3. route' \in Routes \cup {NoRoute}
      BY <2>1 DEF LoseLink, FlushRoutesOf
    <3>4. nud' \in [Ifaces -> [Gws -> NudStates]]
      BY <2>1 DEF LoseLink, NudStates
    <3> QED
      BY <2>1, <3>1, <3>2, <3>3, <3>4 DEF LoseLink
  <2>2. ASSUME NEW i \in Ifaces, LinkAppears(i)
        PROVE  TypeOK'
    BY <2>2 DEF LinkAppears
  <2>3. ASSUME NEW i \in Ifaces, SentinelChanges(i)
        PROVE  TypeOK'
    BY <2>3 DEF SentinelChanges
  <2>4. ASSUME NEW i \in Ifaces, RouterListChanges(i)
        PROVE  TypeOK'
    <3>1. PICK list \in RouterLists[i] : routers' = [routers EXCEPT ![i] = list]
      BY <2>4 DEF RouterListChanges
    <3>2. list \in Seq(Entries)
      BY RouterListsAssumption
    <3>3. routers' \in [Ifaces -> Seq(Entries)]
      BY <3>1, <3>2
    <3> QED
      BY <2>4, <3>3 DEF RouterListChanges
  <2>5. ASSUME NEW i \in Ifaces, NEW g \in Gws, NudChanges(i, g)
        PROVE  TypeOK'
    BY <2>5, NudSeenAssumption DEF NudChanges
  <2>6. CASE Start
    BY <2>6 DEF Start
  <2>7. CASE Refresh
    BY <2>7 DEF Refresh, EthernetIfnames
  <2>8. ASSUME NEW i \in Ifaces, ResolveIndex(i)
        PROVE  TypeOK'
    <3>1. gen[i] \in 0..MaxGen /\ 0 \in 0..MaxGen
      BY MaxGenAssumption
    <3>2. index' \in [Ifaces -> 0..MaxGen]
      BY <2>8, <3>1 DEF ResolveIndex
    <3>3. CASE up[i]
      BY <2>8, <3>2, <3>3 DEF ResolveIndex
    <3>4. CASE ~ up[i]
      BY <2>8, <3>2, <3>4 DEF ResolveIndex, NextIface
    <3> QED
      BY <3>3, <3>4
  <2>9. CASE PassEnds
    BY <2>9 DEF PassEnds
  <2>10. CASE CheckSentinel
    BY <2>10 DEF CheckSentinel, WithdrawIfActive, NextIface
  <2>11. CASE Select
    <3>1. Best(DefaultRoutes(cur), nud[cur]) \in Gws \cup {NoGw}
      BY <2>11, DefaultRoutesType, BestInDump DEF Select
    <3> QED
      BY <2>11, <3>1 DEF Select, WithdrawIfActive, NextIface
  <2>12. CASE CheckNud
    <3>1. nud' \in [Ifaces -> [Gws -> NudStates]]
      <4>1. CASE UNCHANGED nud
        BY <4>1
      <4>2. CASE nud' = [nud EXCEPT ![cur][gw] = "INCOMPLETE"]
        BY <4>2 DEF NudStates
      <4> QED
        BY <2>12, <4>1, <4>2 DEF CheckNud, KickNud
    <3> QED
      BY <2>12, <3>1 DEF CheckNud
  <2>13. CASE InstallRoute
    <3>1. [dev |-> cur, gen |-> index[cur], via |-> gw] \in Routes
      BY <2>13, MaxGenAssumption, RouteType DEF InstallRoute
    <3> QED
      <4>1. CASE UNCHANGED <<route, pending, installed>>
        BY <2>13, <4>1 DEF InstallRoute, NextIface
      <4>2. CASE /\ route' = [dev |-> cur, gen |-> index[cur], via |-> gw]
                 /\ pending' = TRUE
                 /\ installed' = [installed EXCEPT ![cur] = gw]
        <5>1. installed' \in [Ifaces -> Gws \cup {NoGw}]
          BY <2>13, <4>2 DEF InstallRoute
        <5> QED
          BY <2>13, <3>1, <4>2, <5>1 DEF InstallRoute, NextIface
      <4> QED
        BY <2>13, <4>1, <4>2 DEF InstallRoute
  <2>14. CASE Withdraw
    BY <2>14, WithdrawTypes DEF Withdraw, NextIface
  <2>15. CASE Loop
    BY <2>15 DEF Loop
  <2>16. CASE Wake
    BY <2>16 DEF Wake
  <2>17. ASSUME NEW i \in Ifaces, ExitWithdraw(i)
         PROVE  TypeOK'
    BY <2>17, WithdrawTypes DEF ExitWithdraw
  <2>18. CASE Exit
    BY <2>18, MaxGenAssumption DEF Exit, Forget
  <2>19. CASE Signal
    BY <2>19 DEF Signal
  <2>20. CASE Crash
    BY <2>20, MaxGenAssumption DEF Crash, Forget
  <2>21. CASE UNCHANGED vars
    BY <2>21 DEF vars
  <2> QED
    BY <2>1, <2>2, <2>3, <2>4, <2>5, <2>6, <2>7, <2>8, <2>9, <2>10, <2>11,
       <2>12, <2>13, <2>14, <2>15, <2>16, <2>17, <2>18, <2>19, <2>20, <2>21
       DEF Next, Environment, Daemon, Reconcile
<1> QED
  BY <1>1, <1>2, PTL DEF Spec

-----------------------------------------------------------------------------
(* No cross-interface next hop, whatever fails or crashes. *)

ScopeInv ==
    /\ \A i \in Ifaces : routers[i] \in RouterLists[i]
    /\ pc \in {"nud", "install"} => Advertised(cur, gw)
    /\ LinkScoped

(* "Cross-interface resolution MUST NOT be performed": however reads and   *)
(* kernel changes interleave, the daemon's route never points at a router  *)
(* of another interface.                                                   *)
THEOREM LinkScopedAlways == Spec => []LinkScoped
<1>1. Init => ScopeInv
  BY RouterListsAssumption DEF Init, ScopeInv, LinkScoped
<1>2. TypeOK /\ ScopeInv /\ [Next]_vars => ScopeInv'
  <2> SUFFICES ASSUME TypeOK, ScopeInv, [Next]_vars
               PROVE  ScopeInv'
    OBVIOUS
  <2> USE DEF ScopeInv, LinkScoped, Advertised
  <2>1. ASSUME UNCHANGED <<routers, route, pc, cur, gw>>
        PROVE  ScopeInv'
    BY <2>1
  <2>2. ASSUME UNCHANGED routers,
               UNCHANGED route \/ route' = NoRoute,
               pc' \notin {"nud", "install"} \/ UNCHANGED <<cur, gw>>,
               pc' = "install" => pc = "nud",
               pc' # "nud"
        PROVE  ScopeInv'
    BY <2>2
  <2>3. ASSUME NEW i \in Ifaces, LoseLink(i)
        PROVE  ScopeInv'
    <3>1. \A j \in Ifaces : routers'[j] \in RouterLists[j]
      BY <2>3, RouterListsAssumption DEF LoseLink, TypeOK
    <3> QED
      BY <2>3, <3>1 DEF LoseLink, FlushRoutesOf, local
  <2>4. ASSUME NEW i \in Ifaces, RouterListChanges(i)
        PROVE  ScopeInv'
    <3>1. PICK list \in RouterLists[i] : routers' = [routers EXCEPT ![i] = list]
      BY <2>4 DEF RouterListChanges
    <3>2. \A j \in Ifaces : routers'[j] \in RouterLists[j]
      BY <3>1 DEF TypeOK
    <3> QED
      BY <2>4, <3>2 DEF RouterListChanges, local
  <2>5. CASE Select
    <3> DEFINE best == Best(DefaultRoutes(cur), nud[cur])
    <3>1. CASE best = NoGw
      BY <2>2, <2>5, <3>1 DEF Select, WithdrawIfActive, NextIface, kernel, env
    <3>2. CASE best # NoGw
      <4>1. cur \in Ifaces
        BY <2>5 DEF Select, TypeOK, Reconciling
      <4>2. PICK n \in 1..Len(DefaultRoutes(cur)) : DefaultRoutes(cur)[n].gw = best
        BY <3>2, <4>1, DefaultRoutesType, BestInDump
      <4>3. DefaultRoutes(cur) \in RouterLists[cur]
        BY <4>1, RouterListsAssumption DEF DefaultRoutes
      <4>4. Advertised(cur, best)
        BY <4>2, <4>3
      <4> QED
        BY <2>5, <3>2, <4>4 DEF Select, kernel, env
    <3> QED
      BY <3>1, <3>2
  <2>6. CASE InstallRoute
    BY <2>6 DEF InstallRoute, NextIface, env
  <2>7. CASE CheckNud
    BY <2>7 DEF CheckNud, local
  <2>8. ASSUME NEW i \in Ifaces,
               LinkAppears(i) \/ SentinelChanges(i)
                 \/ (\E g \in Gws : NudChanges(i, g))
        PROVE  ScopeInv'
    BY <2>1, <2>8 DEF LinkAppears, SentinelChanges, NudChanges, local
  <2>9. ASSUME NEW i \in Ifaces, ResolveIndex(i) \/ ExitWithdraw(i)
        PROVE  ScopeInv'
    BY <2>2, <2>9
       DEF ResolveIndex, ExitWithdraw, WithdrawRoute, NextIface, kernel, env
  <2>10. CASE Start \/ Refresh \/ PassEnds \/ Loop \/ Wake \/ Exit \/ Crash
    BY <2>2, <2>10
       DEF Start, Refresh, PassEnds, Loop, Wake, Exit, Crash, Forget, kernel, env
  <2>11. CASE CheckSentinel
    BY <2>2, <2>11 DEF CheckSentinel, WithdrawIfActive, NextIface, kernel, env
  <2>12. CASE Withdraw
    BY <2>2, <2>12 DEF Withdraw, WithdrawRoute, NextIface, env
  <2>13. CASE Signal
    BY <2>1, <2>13 DEF Signal, kernel, env, local
  <2>14. CASE UNCHANGED vars
    BY <2>1, <2>14 DEF vars
  <2> QED
    BY <2>3, <2>4, <2>5, <2>6, <2>7, <2>8, <2>9, <2>10, <2>11, <2>12, <2>13,
       <2>14 DEF Next, Environment, Daemon, Reconcile
<1>3. ScopeInv => LinkScoped
  BY DEF ScopeInv
<1> QED
  BY <1>1, <1>2, <1>3, TypeCorrect, PTL DEF Spec

-----------------------------------------------------------------------------
(* From here on the kernel refuses nothing and the process is not killed.  *)

Reliable == ~ MayRefuse /\ ~ MayCrash

(* Interfaces the dict does not hold have no record, and the loops run     *)
(* over interfaces it holds.                                               *)
KnownInv ==
    /\ todo \subseteq known
    /\ pc \in Reconciling => cur \in known
    /\ \A i \in Ifaces \ known : installed[i] = NoGw

LEMMA KnownInvariant == Spec => []KnownInv
<1>1. Init => KnownInv
  BY DEF Init, KnownInv, Reconciling
<1>2. TypeOK /\ KnownInv /\ [Next]_vars => KnownInv'
  <2> SUFFICES ASSUME TypeOK, KnownInv, [Next]_vars
               PROVE  KnownInv'
    OBVIOUS
  <2> USE DEF KnownInv, Reconciling
  <2>1. CASE Environment
    BY <2>1 DEF Environment, LoseLink, LinkAppears, SentinelChanges,
                RouterListChanges, NudChanges, local
  <2>2. CASE Start \/ PassEnds \/ Loop \/ Wake \/ Signal
    BY <2>2 DEF Start, PassEnds, Loop, Wake, Signal, local
  <2>3. CASE Refresh
    BY <2>3 DEF Refresh
  <2>4. ASSUME NEW i \in Ifaces, ResolveIndex(i)
        PROVE  KnownInv'
    BY <2>4 DEF ResolveIndex, NextIface, TypeOK
  <2>5. CASE CheckSentinel \/ Select \/ CheckNud
    BY <2>5 DEF CheckSentinel, Select, CheckNud, WithdrawIfActive, NextIface, local
  <2>6. CASE InstallRoute
    BY <2>6 DEF InstallRoute, NextIface, TypeOK
  <2>7. CASE Withdraw
    BY <2>7 DEF Withdraw, WithdrawRoute, NextIface, TypeOK
  <2>8. ASSUME NEW i \in Ifaces, ExitWithdraw(i)
        PROVE  KnownInv'
    BY <2>8 DEF ExitWithdraw, WithdrawRoute, TypeOK
  <2>9. CASE Exit \/ Crash
    BY <2>9 DEF Exit, Crash, Forget
  <2>10. CASE UNCHANGED vars
    BY <2>10 DEF vars
  <2> QED
    BY <2>1, <2>2, <2>3, <2>4, <2>5, <2>6, <2>7, <2>8, <2>9, <2>10
       DEF Next, Daemon, Reconcile
<1> QED
  BY <1>1, <1>2, TypeCorrect, PTL DEF Spec

-----------------------------------------------------------------------------
(* No lost wake-up.  As long as nothing is pending, what the daemon has    *)
(* read is still so, and every interface it is done with is settled.       *)

Settled(i) == installed[i] = Desired(i)

FreshInv ==
    ~ pending =>
        /\ pc = "poll" \/ (pc = "loop" /\ running) =>
             \A i \in Ifaces : Settled(i)
        /\ pc = "pass" => \A i \in Ifaces \ todo : Settled(i)
        /\ pc \in Reconciling =>
             Live(cur) /\ \A i \in Ifaces \ (todo \cup {cur}) : Settled(i)
        /\ pc = "sentinel" => RequireSentinel
        /\ pc \in {"select", "nud", "install"} =>
             (RequireSentinel => sentinel[cur])
        /\ pc \in {"nud", "install"} => gw = Best(routers[cur], nud[cur])
        /\ pc = "withdraw" => Desired(cur) = NoGw

LEMMA DesiredFrame ==
    ASSUME UNCHANGED env
    PROVE  \A i : Desired(i)' = Desired(i)
  BY DEF env, Desired

LEMMA SettledFrame ==
    ASSUME UNCHANGED <<env, installed>>
    PROVE  \A i : Settled(i)' <=> Settled(i)
  BY DEF env, Desired, Settled

(* Kicking a neighbour makes none REACHABLE.                               *)
LEMMA KickFrame ==
    ASSUME TypeOK, CheckNud
    PROVE  \A i \in Ifaces : Best(routers'[i], nud'[i]) = Best(routers[i], nud[i])
<1>1. TAKE i \in Ifaces
<1>2. routers'[i] = routers[i] /\ routers[i] \in Seq(Entries)
  BY DEF CheckNud, TypeOK
<1>3. \A g \in Gws : nud[i][g] = "REACHABLE" <=> nud'[i][g] = "REACHABLE"
  <2>1. CASE UNCHANGED nud
    BY <2>1
  <2>2. CASE nud[cur][gw] = "FAILED" /\ nud' = [nud EXCEPT ![cur][gw] = "INCOMPLETE"]
    <3>1. cur \in Ifaces /\ gw \in Gws
      BY DEF CheckNud, TypeOK, Reconciling
    <3>2. \A j \in Ifaces : \A g \in Gws :
            nud'[j][g] = IF j = cur /\ g = gw THEN "INCOMPLETE" ELSE nud[j][g]
      BY <2>2, <3>1 DEF TypeOK
    <3> QED
      BY <2>2, <3>2
  <2> QED
    BY <2>1, <2>2 DEF CheckNud, KickNud
<1> QED
  BY <1>2, <1>3, BestReachable

LEMMA FreshInvariant == ASSUME Reliable PROVE Spec => []FreshInv
<1>1. Init => FreshInv
  BY DEF Init, FreshInv, Reconciling
<1>2. TypeOK /\ KnownInv /\ FreshInv /\ [Next]_vars => FreshInv'
  <2> SUFFICES ASSUME TypeOK, KnownInv, FreshInv, [Next]_vars, ~ pending'
               PROVE  FreshInv'
    BY DEF FreshInv
  <2> USE DEF Reconciling
  <2>1. CASE Environment
    BY <2>1 DEF Environment, LoseLink, LinkAppears, SentinelChanges,
                RouterListChanges, NudChanges
  <2>2. CASE Start \/ Wake
    BY <2>2 DEF Start, Wake, FreshInv
  <2>3. CASE Refresh
    <3>1. ASSUME NEW i \in Ifaces \ todo'
          PROVE  Settled(i)'
      <4>1. ~ up[i] /\ installed[i] = NoGw
        BY <2>3, <3>1 DEF Refresh, EthernetIfnames, KnownInv, TypeOK
      <4>2. Settled(i)
        BY <4>1 DEF Settled, Desired
      <4> QED
        BY <2>3, <4>2, SettledFrame DEF Refresh, kernel
    <3> QED
      BY <2>3, <3>1 DEF Refresh, FreshInv
  <2>4. ASSUME NEW i \in Ifaces, ResolveIndex(i)
        PROVE  FreshInv'
    <3>1. ~ pending /\ pc = "pass" /\ UNCHANGED env /\ todo' = todo \ {i}
      BY <2>4 DEF ResolveIndex, kernel
    <3>2. ASSUME NEW j \in Ifaces \ todo
          PROVE  j # i => Settled(j)'
      <4>1. Settled(j)
        BY <3>1 DEF FreshInv
      <4>2. j # i => installed'[j] = installed[j]
        BY <2>4 DEF ResolveIndex, TypeOK
      <4>3. Desired(j)' = Desired(j)
        BY <3>1, DesiredFrame
      <4> QED
        BY <4>1, <4>2, <4>3 DEF Settled
    <3>3. CASE up[i]
      <4>1. cur' = i /\ pc' \in {"sentinel", "select"}
            /\ (pc' = "sentinel" <=> RequireSentinel)
        BY <2>4, <3>3 DEF ResolveIndex
      <4>2. Live(i)'
        BY <2>4, <3>1, <3>3 DEF ResolveIndex, Live, TypeOK, env
      <4>3. Live(cur)'
        BY <4>1, <4>2 DEF Live
      <4> QED
        BY <3>1, <3>2, <4>1, <4>3 DEF FreshInv
    <3>4. CASE ~ up[i]
      <4>1. Settled(i)'
        BY <2>4, <3>1, <3>4 DEF ResolveIndex, Settled, Desired, TypeOK, env
      <4>2. pc' = "pass"
        BY <2>4, <3>4 DEF ResolveIndex, NextIface
      <4> QED
        BY <3>1, <3>2, <4>1, <4>2 DEF FreshInv
    <3> QED
      BY <3>3, <3>4
  <2>5. CASE PassEnds
    <3>1. UNCHANGED <<env, installed>> /\ pc' = "loop" /\ ~ pending
      BY <2>5 DEF PassEnds, kernel, local
    <3>2. \A i \in Ifaces : Settled(i)
      BY <2>5, <3>1 DEF PassEnds, FreshInv
    <3> QED
      BY <3>1, <3>2, SettledFrame DEF FreshInv
  <2>6. CASE Loop
    <3>1. UNCHANGED <<env, installed>> /\ ~ pending /\ pc' \in {"poll", "exit"}
          /\ (pc' = "poll" => running)
      BY <2>6 DEF Loop, kernel
    <3>2. running => \A i \in Ifaces : Settled(i)
      BY <2>6, <3>1 DEF Loop, FreshInv
    <3> QED
      BY <3>1, <3>2, SettledFrame DEF FreshInv
  <2>7. ASSUME pc \in Reconciling, ~ pending, UNCHANGED <<env, installed, todo>>,
               pc' = "pass", Settled(cur)
        PROVE  FreshInv'
    BY <2>7, SettledFrame DEF FreshInv
  <2>8. ASSUME pc \in Reconciling, ~ pending, Desired(cur) = NoGw,
               UNCHANGED <<env, installed, todo, index>>, WithdrawIfActive
        PROVE  FreshInv'
    <3>1. CASE installed[cur] = NoGw
      BY <2>7, <2>8, <3>1 DEF WithdrawIfActive, NextIface, Settled
    <3>2. CASE installed[cur] # NoGw
      <4>1. pc' = "withdraw" /\ UNCHANGED cur
        BY <2>8, <3>2 DEF WithdrawIfActive
      <4>2. Desired(cur)' = NoGw
        BY <2>8, <4>1, DesiredFrame DEF Desired
      <4>3. Live(cur)'
        BY <2>8, <4>1 DEF FreshInv, Live, env
      <4> QED
        BY <2>8, <4>1, <4>2, <4>3, SettledFrame DEF FreshInv
    <3> QED
      BY <3>1, <3>2
  <2>9. CASE CheckSentinel
    <3>1. pc = "sentinel" /\ ~ pending /\ UNCHANGED <<env, installed, todo, index>>
      BY <2>9 DEF CheckSentinel, kernel
    <3>2. Live(cur)
      BY <3>1 DEF FreshInv
    <3>3. CASE SentinelPresent(cur)
      <4>1. pc' = "select" /\ UNCHANGED cur
        BY <2>9, <3>3 DEF CheckSentinel
      <4>2. Live(cur)' /\ sentinel'[cur]
        BY <3>1, <3>2, <3>3, <4>1 DEF Live, SentinelPresent, env
      <4> QED
        BY <3>1, <4>1, <4>2, SettledFrame DEF FreshInv
    <3>4. CASE ~ SentinelPresent(cur)
      <4>1. Desired(cur) = NoGw
        BY <3>1, <3>2, <3>4 DEF Desired, SentinelPresent, FreshInv
      <4> QED
        BY <2>8, <2>9, <3>1, <3>4, <4>1 DEF CheckSentinel
    <3> QED
      BY <3>3, <3>4
  <2>10. CASE Select
    <3>1. pc = "select" /\ ~ pending /\ UNCHANGED <<env, installed, todo, index>>
      BY <2>10 DEF Select, kernel
    <3>2. Live(cur) /\ (RequireSentinel => sentinel[cur])
      BY <3>1 DEF FreshInv
    <3>3. DefaultRoutes(cur) = routers[cur]
      BY <3>2 DEF DefaultRoutes
    <3>4. CASE Best(routers[cur], nud[cur]) = NoGw
      <4>1. Desired(cur) = NoGw
        BY <3>4 DEF Desired
      <4> QED
        BY <2>8, <2>10, <3>1, <3>3, <3>4, <4>1 DEF Select
    <3>5. CASE Best(routers[cur], nud[cur]) # NoGw
      <4>1. pc' = "nud" /\ UNCHANGED cur /\ gw' = Best(routers[cur], nud[cur])
        BY <2>10, <3>3, <3>5 DEF Select
      <4>2. Live(cur)' /\ gw' = Best(routers'[cur'], nud'[cur'])
        BY <3>1, <3>2, <4>1 DEF Live, env
      <4>3. RequireSentinel => sentinel'[cur']
        BY <3>1, <3>2, <4>1 DEF env
      <4> QED
        BY <3>1, <4>1, <4>2, <4>3, SettledFrame DEF FreshInv
    <3> QED
      BY <3>4, <3>5
  <2>11. CASE CheckNud
    <3>1. pc = "nud" /\ pc' = "install" /\ ~ pending
          /\ UNCHANGED <<up, gen, sentinel, routers, installed, todo, index, cur, gw>>
      BY <2>11 DEF CheckNud, local
    <3>2. cur \in Ifaces
      BY <3>1 DEF TypeOK
    <3>3. \A i \in Ifaces : Settled(i)' <=> Settled(i)
      BY <2>11, <3>1, KickFrame DEF Settled, Desired
    <3>4. gw' = Best(routers'[cur'], nud'[cur'])
      BY <2>11, <3>1, <3>2, KickFrame DEF FreshInv
    <3>5. Live(cur)' /\ (RequireSentinel => sentinel'[cur'])
      BY <3>1 DEF FreshInv, Live
    <3> QED
      BY <3>1, <3>3, <3>4, <3>5 DEF FreshInv
  <2>12. CASE InstallRoute
    <3>1. pc = "install" /\ UNCHANGED env /\ UNCHANGED todo /\ pc' = "pass"
      BY <2>12 DEF InstallRoute, NextIface
    <3>2. ~ pending /\ installed[cur] = gw /\ UNCHANGED installed
      BY <2>12 DEF InstallRoute, FreshInv, Reliable
    <3>3. Settled(cur)
      BY <3>1, <3>2 DEF FreshInv, Settled, Desired, Live
    <3> QED
      BY <2>7, <3>1, <3>2, <3>3
  <2>13. CASE Withdraw
    <3>1. pc = "withdraw" /\ UNCHANGED env /\ UNCHANGED todo /\ pc' = "pass"
      BY <2>13 DEF Withdraw, NextIface
    <3>2. ~ pending /\ installed' = [installed EXCEPT ![cur] = NoGw]
      BY <2>13 DEF Withdraw, WithdrawRoute
    <3>3. \A i \in Ifaces \ (todo \cup {cur}) : Settled(i)
      BY <3>1, <3>2 DEF FreshInv
    <3>4. Desired(cur) = NoGw /\ cur \in Ifaces
      BY <3>1, <3>2 DEF FreshInv, TypeOK
    <3>5. ASSUME NEW i \in Ifaces \ todo'
          PROVE  Settled(i)'
      <4>1. Desired(i)' = Desired(i)
        BY <3>1, DesiredFrame
      <4> QED
        BY <3>1, <3>2, <3>3, <3>4, <4>1 DEF Settled, TypeOK
    <3> QED
      BY <3>1, <3>5 DEF FreshInv
  <2>14. CASE Signal
    <3>1. UNCHANGED <<env, pending, pc, todo, cur, gw, index, installed>> /\ ~ running'
      BY <2>14 DEF Signal, kernel, local
    <3>2. Live(cur)' <=> Live(cur)
      BY <3>1 DEF Live, env
    <3>3. Desired(cur)' = Desired(cur)
      BY <3>1 DEF Desired, env
    <3> QED
      BY <3>1, <3>2, <3>3, SettledFrame DEF FreshInv, env
  <2>15. CASE (\E i \in Ifaces : ExitWithdraw(i)) \/ Exit \/ Crash
    BY <2>15 DEF ExitWithdraw, Exit, Crash, FreshInv
  <2>16. CASE UNCHANGED vars
    BY <2>16 DEF vars, FreshInv, Settled, Desired, Live
  <2> QED
    BY <2>1, <2>2, <2>3, <2>4, <2>5, <2>6, <2>9, <2>10, <2>11, <2>12, <2>13,
       <2>14, <2>15, <2>16 DEF Next, Daemon, Reconcile
<1> QED
  BY <1>1, <1>2, TypeCorrect, KnownInvariant, PTL DEF Spec

(* Purely event-driven and yet never behind: whatever the interleaving of  *)
(* kernel changes with the daemon's reads, at rest every record is what    *)
(* the present kernel state calls for.                                     *)
THEOREM RecordsCurrentAtRest == ASSUME Reliable PROVE Spec => []RecordsCurrent
<1>1. FreshInv => RecordsCurrent
  BY DEF FreshInv, RecordsCurrent, Quiet, Settled
<1> QED
  BY <1>1, FreshInvariant, PTL

-----------------------------------------------------------------------------
(* The route the daemon owns is the one a record claims, on an interface   *)
(* generation that still exists.                                           *)

Holds(i) ==
    /\ installed[i] # NoGw
    /\ route = Entry(i)
    /\ up[i]
    /\ gen[i] = index[i]

OwnedInv ==
    /\ route # NoRoute => Holds(route.dev)
    /\ pc = "exit" => \A i \in Ifaces \ todo : installed[i] = NoGw
    /\ pc \in {"down", "stopped"} => route = NoRoute

LEMMA HoldsFrame ==
    ASSUME UNCHANGED <<route, up, gen, index, installed>>
    PROVE  (route # NoRoute => Holds(route.dev))
           => (route' # NoRoute => Holds(route.dev)')
  BY DEF Holds, Entry

(* A withdrawal removes the route it is asked to, or finds none.           *)
LEMMA WithdrawHolds ==
    ASSUME Reliable, TypeOK, NEW i \in Ifaces, WithdrawRoute(i),
           UNCHANGED <<up, gen, index>>,
           route # NoRoute => Holds(route.dev)
    PROVE  route' # NoRoute => Holds(route.dev)'
<1>1. CASE route' = NoRoute
  BY <1>1
<1>2. CASE ~ HasRoute(i) /\ UNCHANGED route /\ route # NoRoute
  <2>1. route.dev \in Ifaces
    BY <1>2 DEF TypeOK, Routes
  <2>2. route.dev # i
    BY <1>2 DEF HasRoute, Holds, Entry
  <2>3. installed'[route.dev] = installed[route.dev]
    BY <2>1, <2>2 DEF WithdrawRoute, TypeOK
  <2> QED
    BY <1>2, <2>3 DEF Holds, Entry
<1> QED
  BY <1>1, <1>2 DEF WithdrawRoute, Reliable

LEMMA OwnedInvariant == ASSUME Reliable PROVE Spec => []OwnedInv
<1>1. Init => OwnedInv
  BY DEF Init, OwnedInv
<1>2. TypeOK /\ KnownInv /\ OwnedInv /\ [Next]_vars => OwnedInv'
  <2> SUFFICES ASSUME TypeOK, KnownInv, OwnedInv, [Next]_vars
               PROVE  OwnedInv'
    OBVIOUS
  <2>1. ASSUME UNCHANGED <<route, up, gen, index, installed>>,
               pc' = "exit" => pc = "exit" /\ todo' = todo,
               pc' \in {"down", "stopped"} => pc \in {"down", "stopped"}
        PROVE  OwnedInv'
    BY <2>1, HoldsFrame DEF OwnedInv
  <2>2. ASSUME NEW i \in Ifaces, LoseLink(i)
        PROVE  OwnedInv'
    <3>1. UNCHANGED <<pc, todo, index, installed>>
      BY <2>2 DEF LoseLink, local
    <3>2. route' # NoRoute => route' = route /\ route.dev # i
      BY <2>2 DEF LoseLink, FlushRoutesOf
    <3>3. \A j \in Ifaces : j # i => up'[j] = up[j] /\ gen'[j] = gen[j]
      BY <2>2 DEF LoseLink, TypeOK
    <3>4. route' # NoRoute => route.dev \in Ifaces
      BY <3>2 DEF TypeOK, Routes
    <3>5. route' # NoRoute => Holds(route.dev)'
      BY <3>1, <3>2, <3>3, <3>4 DEF OwnedInv, Holds, Entry
    <3> QED
      BY <3>1, <3>2, <3>5 DEF OwnedInv
  <2>3. ASSUME NEW i \in Ifaces, LinkAppears(i)
        PROVE  OwnedInv'
    <3>1. UNCHANGED <<gen, route, pc, todo, index, installed>>
      BY <2>3 DEF LinkAppears, local
    <3>2. \A j \in Ifaces : up[j] => up'[j]
      BY <2>3 DEF LinkAppears, TypeOK
    <3>3. route # NoRoute => route.dev \in Ifaces
      BY DEF TypeOK, Routes
    <3> QED
      BY <3>1, <3>2, <3>3 DEF OwnedInv, Holds, Entry
  <2>4. ASSUME NEW i \in Ifaces,
               \/ SentinelChanges(i)
               \/ RouterListChanges(i)
               \/ \E g \in Gws : NudChanges(i, g)
        PROVE  OwnedInv'
    BY <2>1, <2>4 DEF SentinelChanges, RouterListChanges, NudChanges, local
  <2>5. CASE Start \/ Refresh \/ PassEnds \/ CheckSentinel \/ Select \/ CheckNud
             \/ Wake \/ Signal
    BY <2>1, <2>5 DEF Start, Refresh, PassEnds, CheckSentinel, Select, CheckNud,
                      Wake, Signal, WithdrawIfActive, NextIface, kernel, env, local
  <2>6. ASSUME NEW i \in Ifaces, ResolveIndex(i)
        PROVE  OwnedInv'
    <3>1. UNCHANGED <<up, gen, route>> /\ pc' \notin {"exit", "down", "stopped"}
      BY <2>6 DEF ResolveIndex, NextIface, kernel, env
    <3>2. \A j \in Ifaces : up[j] /\ gen[j] = index[j] =>
            index'[j] = index[j] /\ installed'[j] = installed[j]
      BY <2>6 DEF ResolveIndex, TypeOK
    <3>3. route # NoRoute => route.dev \in Ifaces
      BY DEF TypeOK, Routes
    <3> QED
      BY <3>1, <3>2, <3>3 DEF OwnedInv, Holds, Entry
  <2>7. CASE InstallRoute
    <3>1. UNCHANGED <<up, gen, index>> /\ pc' = "pass" /\ pc = "install"
      BY <2>7 DEF InstallRoute, NextIface, env
    <3>2. CASE UNCHANGED <<route, installed>>
      BY <2>1, <3>1, <3>2
    <3>3. CASE /\ Live(cur)
               /\ route' = [dev |-> cur, gen |-> index[cur], via |-> gw]
               /\ installed' = [installed EXCEPT ![cur] = gw]
      <4>1. cur \in Ifaces /\ gw \in Gws
        BY <3>1 DEF TypeOK, Reconciling
      <4>2. installed'[cur] = gw /\ gw # NoGw
        BY <3>3, <4>1 DEF TypeOK
      <4>3. PICK i \in Ifaces : i = cur
        BY <4>1
      <4>4. Holds(i)'
        BY <3>1, <3>3, <4>2, <4>3 DEF Holds, Entry, Live
      <4>5. route'.dev = i
        BY <3>3, <4>3
      <4> QED
        BY <3>1, <4>4, <4>5 DEF OwnedInv
    <3> QED
      BY <2>7, <3>2, <3>3 DEF InstallRoute
  <2>8. CASE Withdraw
    <3>1. cur \in Ifaces /\ WithdrawRoute(cur) /\ UNCHANGED <<up, gen, index>>
          /\ pc' = "pass"
      BY <2>8 DEF Withdraw, NextIface, env, TypeOK, Reconciling
    <3>2. route' # NoRoute => Holds(route.dev)'
      BY <3>1, WithdrawHolds DEF OwnedInv
    <3>3. route' # NoRoute => route' = route
      BY <3>1 DEF WithdrawRoute
    <3> QED
      BY <3>1, <3>2, <3>3 DEF OwnedInv
  <2>9. CASE Loop
    <3>1. UNCHANGED <<route, up, gen, index, installed>> /\ pc' \in {"poll", "exit"}
          /\ (pc' = "exit" => todo' = known)
      BY <2>9 DEF Loop, kernel, env
    <3> QED
      BY <3>1, HoldsFrame DEF OwnedInv, KnownInv
  <2>10. ASSUME NEW i \in Ifaces, ExitWithdraw(i)
         PROVE  OwnedInv'
    <3>1. UNCHANGED <<up, gen, index>> /\ pc = "exit" /\ pc' = "exit"
          /\ todo' = todo \ {i}
      BY <2>10 DEF ExitWithdraw, env
    <3>2. CASE installed[i] = NoGw
      BY <2>10, <3>1, <3>2, HoldsFrame DEF ExitWithdraw, OwnedInv
    <3>3. CASE installed[i] # NoGw
      <4>1. WithdrawRoute(i)
        BY <2>10, <3>3 DEF ExitWithdraw
      <4>2. route' # NoRoute => Holds(route.dev)'
        BY <3>1, <4>1, WithdrawHolds DEF OwnedInv
      <4>3. route' # NoRoute => route' = route
        BY <4>1 DEF WithdrawRoute
      <4>4. \A j \in Ifaces \ todo' : installed'[j] = NoGw
        BY <3>1, <4>1 DEF WithdrawRoute, OwnedInv, TypeOK
      <4> QED
        BY <3>1, <4>2, <4>3, <4>4 DEF OwnedInv
    <3> QED
      BY <3>2, <3>3
  <2>11. CASE Exit
    <3>1. \A i \in Ifaces : installed[i] = NoGw
      BY <2>11 DEF Exit, OwnedInv
    <3>2. route = NoRoute
      BY <3>1 DEF OwnedInv, Holds, TypeOK, Routes
    <3> QED
      BY <2>11, <3>2 DEF Exit, OwnedInv, kernel
  <2>12. CASE Crash
    BY <2>12 DEF Crash, Reliable
  <2>13. CASE UNCHANGED vars
    BY <2>1, <2>13 DEF vars
  <2> QED
    BY <2>2, <2>3, <2>4, <2>5, <2>6, <2>7, <2>8, <2>9, <2>10, <2>11, <2>12,
       <2>13 DEF Next, Environment, Daemon, Reconcile
<1> QED
  BY <1>1, <1>2, TypeCorrect, KnownInvariant, PTL DEF Spec

(* A route the daemon put into the kernel is never forgotten.              *)
THEOREM OwnedRouteAlwaysRecorded ==
    ASSUME Reliable PROVE Spec => []OwnedRouteRecorded
<1>1. OwnedInv => OwnedRouteRecorded
  BY DEF OwnedInv, Holds, OwnedRouteRecorded
<1> QED
  BY <1>1, OwnedInvariant, PTL

(* A daemon that was asked to stop leaves no route behind.                 *)
THEOREM StopIsClean == ASSUME Reliable PROVE Spec => []CleanStop
<1>1. OwnedInv => CleanStop
  BY DEF OwnedInv, CleanStop
<1> QED
  BY <1>1, OwnedInvariant, PTL

(* Section 4: at rest the kernel holds no route the present sentinel and   *)
(* router list do not call for.                                            *)
THEOREM RouteWantedAtRest == ASSUME Reliable PROVE Spec => []RouteIsWanted
<1>1. TypeOK /\ OwnedInv /\ RecordsCurrent => RouteIsWanted
  <2> SUFFICES ASSUME TypeOK, OwnedInv, RecordsCurrent, Quiet, route # NoRoute
               PROVE  /\ up[route.dev]
                      /\ route.gen = gen[route.dev]
                      /\ route.via = Desired(route.dev)
    BY DEF RouteIsWanted
  <2>1. PICK i \in Ifaces : i = route.dev
    BY DEF TypeOK, Routes
  <2>2. Holds(i)
    BY <2>1 DEF OwnedInv
  <2>3. installed[i] = Desired(i)
    BY DEF RecordsCurrent
  <2> QED
    BY <2>1, <2>2, <2>3 DEF Holds, Entry
<1> QED
  BY <1>1, TypeCorrect, OwnedInvariant, RecordsCurrentAtRest, PTL

-----------------------------------------------------------------------------
(* A single interface, whose lost routes stay lost until the daemon has    *)
(* looked.  Refusals, crashes and signals are back.                        *)

OneSteady == ~ FastReturn /\ \A i, j \in Ifaces : i = j

(* What the daemon reads first tells it to withdraw from i.                *)
Gone(i) ==
    \/ ~ up[i]
    \/ RequireSentinel /\ ~ sentinel[i]
    \/ ~ RequireSentinel /\ routers[i] = <<>>

(* The daemon is at a step from which it clears i's record if i is gone.   *)
WillNotice(i) ==
    \/ pc = "refresh"
    \/ pc = "pass" /\ i \in todo
    \/ pc = "sentinel" /\ cur = i
    \/ pc = "select" /\ cur = i /\ ~ RequireSentinel
    \/ pc = "withdraw" /\ cur = i
    \/ pc = "loop" /\ ~ running
    \/ pc = "exit"

RouteLive == route # NoRoute => up[route.dev] /\ route.gen = gen[route.dev]

NoticeInv ==
    /\ RouteLive
    /\ pc \in {"down", "stopped"} => \A i \in Ifaces : installed[i] = NoGw
    /\ pc = "sentinel" => RequireSentinel
    /\ \A i \in Ifaces : Unnoticed(i) => Gone(i) /\ (pending \/ WillNotice(i))

LEMMA NoticeFrame ==
    ASSUME UNCHANGED <<up, gen, sentinel, routers, route, index, installed>>
    PROVE  /\ RouteLive' <=> RouteLive
           /\ \A i : Unnoticed(i)' <=> Unnoticed(i)
           /\ \A i : Gone(i)' <=> Gone(i)
  BY DEF RouteLive, Unnoticed, Entry, Gone

(* A record that is cleared claims nothing, and a withdrawal touches no    *)
(* other route.                                                            *)
LEMMA ClearedRecord ==
    ASSUME TypeOK, NEW e \in Ifaces, NEW i \in Ifaces, WithdrawRoute(i), e = i
    PROVE  ~ Unnoticed(e)'
<1>1. installed'[e] = NoGw
  BY DEF WithdrawRoute, TypeOK
<1> QED
  BY <1>1 DEF Unnoticed

LEMMA WithdrawLive ==
    ASSUME NEW i, WithdrawRoute(i), RouteLive, UNCHANGED <<up, gen>>
    PROVE  RouteLive'
  BY DEF WithdrawRoute, RouteLive

LEMMA NoticeInvariant == ASSUME OneSteady PROVE Spec => []NoticeInv
<1>1. Init => NoticeInv
  BY DEF Init, NoticeInv, RouteLive, Unnoticed
<1>2. TypeOK /\ KnownInv /\ NoticeInv /\ [Next]_vars => NoticeInv'
  <2> SUFFICES ASSUME TypeOK, KnownInv, NoticeInv, [Next]_vars
               PROVE  NoticeInv'
    OBVIOUS
  \* A step that changes nothing an unnoticed loss depends on.
  <2>1. ASSUME UNCHANGED <<up, gen, sentinel, routers, route, index, installed>>,
               pc' \in {"down", "stopped"} => pc \in {"down", "stopped"},
               pc' = "sentinel" => pc = "sentinel",
               \A i \in Ifaces : Unnoticed(i) /\ Gone(i) /\ (pending \/ WillNotice(i))
                                   => pending' \/ WillNotice(i)'
        PROVE  NoticeInv'
    <3>1. \A i \in Ifaces : Unnoticed(i)' => Gone(i)' /\ (pending' \/ WillNotice(i)')
      BY <2>1, NoticeFrame DEF NoticeInv
    <3> QED
      BY <2>1, <3>1, NoticeFrame DEF NoticeInv
  \* A step after which no record claims a route the kernel lacks.
  <2>2. ASSUME RouteLive', \A i \in Ifaces : ~ Unnoticed(i)',
               pc' \notin {"down", "stopped", "sentinel"}
        PROVE  NoticeInv'
    BY <2>2 DEF NoticeInv
  <2>3. ASSUME NEW i \in Ifaces, LoseLink(i)
        PROVE  NoticeInv'
    <3>1. UNCHANGED <<pc, installed>> /\ pending'
      BY <2>3 DEF LoseLink, local
    <3>2. \A j \in Ifaces : j = i
      BY DEF OneSteady
    <3>3. ~ sentinel'[i] /\ routers'[i] = <<>>
      BY <2>3 DEF LoseLink, TypeOK
    <3>4. route' = NoRoute
      BY <2>3, <3>2 DEF LoseLink, FlushRoutesOf, TypeOK, Routes
    <3>5. Gone(i)'
      BY <3>3 DEF Gone
    <3>6. \A j \in Ifaces : Gone(j)'
      BY <3>2, <3>5
    <3> QED
      BY <3>1, <3>4, <3>6 DEF NoticeInv, RouteLive
  <2>4. ASSUME NEW i \in Ifaces, LinkAppears(i)
        PROVE  NoticeInv'
    <3>1. ~ Unnoticed(i)
      BY <2>4 DEF LinkAppears, MayReturn, OneSteady
    <3>2. \A j \in Ifaces : ~ Unnoticed(j)
      BY <3>1 DEF OneSteady
    <3>3. UNCHANGED <<gen, route, pc, index, installed>>
      BY <2>4 DEF LinkAppears, local
    <3>4. \A j \in Ifaces : ~ Unnoticed(j)'
      BY <3>2, <3>3 DEF Unnoticed, Entry
    <3>5. \A j \in Ifaces : up[j] => up'[j]
      BY <2>4 DEF LinkAppears, TypeOK
    <3>6. RouteLive'
      BY <3>3, <3>5 DEF NoticeInv, RouteLive, TypeOK, Routes
    <3> QED
      BY <3>3, <3>4, <3>6 DEF NoticeInv
  <2>5. ASSUME NEW i \in Ifaces, SentinelChanges(i)
        PROVE  NoticeInv'
    <3>1. UNCHANGED <<up, gen, routers, route, pc, index, installed>> /\ pending'
      BY <2>5 DEF SentinelChanges, local
    <3>2. \A j \in Ifaces : Unnoticed(j)' <=> Unnoticed(j)
      BY <3>1 DEF Unnoticed, Entry
    <3>3. \A j \in Ifaces : Unnoticed(j) => Gone(j)'
      <4>1. CASE sentinel[i]
        <5>1. sentinel' = [sentinel EXCEPT ![i] = FALSE]
          BY <2>5, <4>1 DEF SentinelChanges, TypeOK
        <5>2. \A j \in Ifaces : sentinel'[j] => sentinel[j]
          BY <5>1 DEF TypeOK
        <5> QED
          BY <3>1, <5>2 DEF NoticeInv, Gone
      <4>2. CASE ~ sentinel[i]
        BY <2>5, <4>2 DEF SentinelChanges, MayReturn, OneSteady
      <4> QED
        BY <4>1, <4>2
    <3> QED
      BY <3>1, <3>2, <3>3 DEF NoticeInv, RouteLive
  <2>6. ASSUME NEW i \in Ifaces, RouterListChanges(i)
        PROVE  NoticeInv'
    <3>1. UNCHANGED <<up, gen, sentinel, route, pc, index, installed>> /\ pending'
      BY <2>6 DEF RouterListChanges, local
    <3>2. \A j \in Ifaces : Unnoticed(j)' <=> Unnoticed(j)
      BY <3>1 DEF Unnoticed, Entry
    <3>3. \A j \in Ifaces : Unnoticed(j) => Gone(j)'
      <4>1. CASE RequireSentinel
        BY <3>1, <4>1 DEF NoticeInv, Gone
      <4>2. CASE ~ RequireSentinel
        BY <2>6, <4>2 DEF RouterListChanges, MayReturn, OneSteady
      <4> QED
        BY <4>1, <4>2
    <3> QED
      BY <3>1, <3>2, <3>3 DEF NoticeInv, RouteLive
  <2>7. ASSUME NEW i \in Ifaces, NEW g \in Gws, NudChanges(i, g)
        PROVE  NoticeInv'
    BY <2>1, <2>7 DEF NudChanges, local
  <2>8. CASE Start
    <3>1. UNCHANGED <<up, gen, sentinel, routers, route, index, installed>>
          /\ pc' = "refresh"
      BY <2>8 DEF Start, env, local
    <3> QED
      BY <2>1, <3>1 DEF WillNotice
  <2>9. CASE Refresh
    <3>1. UNCHANGED <<up, gen, sentinel, routers, route, index, installed>>
          /\ pc' = "pass" /\ todo' = known' /\ known \subseteq known'
      BY <2>9 DEF Refresh, kernel, env
    <3>2. \A i \in Ifaces : Unnoticed(i) => i \in known
      BY DEF KnownInv, Unnoticed
    <3> QED
      BY <2>1, <3>1, <3>2 DEF WillNotice
  <2>10. ASSUME NEW i \in Ifaces, ResolveIndex(i)
         PROVE  NoticeInv'
    <3>1. \A j \in Ifaces : j = i
      BY DEF OneSteady
    <3>2. UNCHANGED <<up, gen, sentinel, routers, route, pending>> /\ pc = "pass"
          /\ i \in todo
      BY <2>10 DEF ResolveIndex, kernel, env
    <3>3. RouteLive'
      BY <3>2 DEF NoticeInv, RouteLive
    <3>4. CASE ~ up[i]
      <4>1. installed'[i] = NoGw /\ pc' = "pass"
        BY <2>10, <3>4 DEF ResolveIndex, NextIface, TypeOK
      <4>2. \A j \in Ifaces : ~ Unnoticed(j)'
        BY <3>1, <4>1 DEF Unnoticed
      <4> QED
        BY <2>2, <3>3, <4>1, <4>2
    <3>5. CASE up[i]
      <4>1. /\ UNCHANGED installed /\ cur' = i
            /\ index'[i] = gen[i]
            /\ pc' = IF RequireSentinel THEN "sentinel" ELSE "select"
        BY <2>10, <3>5 DEF ResolveIndex, TypeOK
      <4>2. Unnoticed(i)' => Unnoticed(i)
        <5>1. CASE route = Entry(i) /\ installed[i] # NoGw
          <6>1. route # NoRoute /\ route.dev = i /\ route.gen = index[i]
            <7>1. Entry(i) \in Routes
              BY <5>1, RouteType DEF Entry, TypeOK
            <7> QED
              BY <5>1, <7>1 DEF Entry, Routes
          <6>2. index[i] = gen[i]
            BY <6>1 DEF NoticeInv, RouteLive
          <6>3. index'[i] = index[i]
            BY <4>1, <6>2
          <6> QED
            BY <3>2, <4>1, <6>3 DEF Unnoticed, Entry
        <5>2. CASE route # Entry(i) \/ installed[i] = NoGw
          BY <4>1, <5>2 DEF Unnoticed
        <5> QED
          BY <5>1, <5>2
      <4>3. Gone(i)' <=> Gone(i)
        BY <3>2 DEF Gone
      <4>4. WillNotice(i)'
        BY <4>1 DEF WillNotice
      <4>5. Unnoticed(i)' => Gone(i)' /\ (pending' \/ WillNotice(i)')
        BY <4>2, <4>3, <4>4 DEF NoticeInv
      <4>6. \A j \in Ifaces : Unnoticed(j)' => Gone(j)' /\ (pending' \/ WillNotice(j)')
        BY <3>1, <4>5
      <4> QED
        BY <3>3, <4>1, <4>6 DEF NoticeInv
    <3> QED
      BY <3>4, <3>5
  <2>11. CASE PassEnds \/ CheckNud \/ Wake \/ Signal
    <3>1. CASE PassEnds
      BY <2>1, <3>1 DEF PassEnds, kernel, env, local, WillNotice
    <3>2. CASE CheckNud
      BY <2>1, <3>2 DEF CheckNud, local, WillNotice
    <3>3. CASE Wake
      BY <2>1, <3>3 DEF Wake, env, local, WillNotice
    <3>4. CASE Signal
      BY <2>1, <3>4 DEF Signal, kernel, env, local, WillNotice
    <3> QED
      BY <2>11, <3>1, <3>2, <3>3, <3>4
  <2>12. CASE CheckSentinel
    <3>1. /\ UNCHANGED <<up, gen, sentinel, routers, route, index, installed, pending>>
          /\ pc = "sentinel" /\ RequireSentinel
          /\ pc' \in {"select", "withdraw", "pass"}
      BY <2>12 DEF CheckSentinel, WithdrawIfActive, NextIface, kernel, env, NoticeInv
    <3>2. \A i \in Ifaces : i = cur
      BY <3>1 DEF OneSteady, TypeOK, Reconciling
    <3>3. ASSUME NEW i \in Ifaces, Unnoticed(i), Gone(i)
          PROVE  WillNotice(i)'
      <4>1. i = cur /\ installed[cur] # NoGw
        BY <3>2, <3>3 DEF Unnoticed
      <4>2. ~ SentinelPresent(cur)
        BY <3>1, <3>3, <4>1 DEF Gone, SentinelPresent, Live
      <4>3. pc' = "withdraw" /\ cur' = cur
        BY <2>12, <4>1, <4>2 DEF CheckSentinel, WithdrawIfActive
      <4> QED
        BY <4>1, <4>3 DEF WillNotice
    <3> QED
      BY <2>1, <3>1, <3>3
  <2>13. CASE Select
    <3>1. /\ UNCHANGED <<up, gen, sentinel, routers, route, index, installed, pending>>
          /\ pc = "select" /\ pc' \in {"nud", "withdraw", "pass"}
      BY <2>13 DEF Select, WithdrawIfActive, NextIface, kernel, env
    <3>2. \A i \in Ifaces : i = cur
      BY <3>1 DEF OneSteady, TypeOK, Reconciling
    <3>3. ASSUME NEW i \in Ifaces, Unnoticed(i), Gone(i), ~ pending, WillNotice(i)
          PROVE  WillNotice(i)'
      <4>1. i = cur /\ installed[cur] # NoGw /\ ~ RequireSentinel
        BY <3>1, <3>2, <3>3 DEF Unnoticed, WillNotice
      <4>2. DefaultRoutes(cur) = <<>>
        BY <3>3, <4>1 DEF Gone, DefaultRoutes, Live
      <4>3. Best(DefaultRoutes(cur), nud[cur]) = NoGw
        <5>1. <<>> \in Seq(Entries) /\ 1..Len(<<>>) = {}
          BY EmptySeq
        <5>2. Best(<<>>, nud[cur]) = NoGw
          BY <5>1, BestInDump
        <5> QED
          BY <4>2, <5>2
      <4>4. pc' = "withdraw" /\ cur' = cur
        BY <2>13, <4>1, <4>3 DEF Select, WithdrawIfActive
      <4> QED
        BY <4>1, <4>4 DEF WillNotice
    <3> QED
      BY <2>1, <3>1, <3>3
  <2>14. CASE InstallRoute
    <3>1. pc = "install" /\ pc' = "pass"
          /\ UNCHANGED <<up, gen, sentinel, routers, index>>
      BY <2>14 DEF InstallRoute, NextIface, env
    <3>2. CASE UNCHANGED <<route, pending, installed>>
      BY <2>1, <3>1, <3>2 DEF WillNotice
    <3>3. CASE /\ Live(cur)
               /\ route' = [dev |-> cur, gen |-> index[cur], via |-> gw]
               /\ installed' = [installed EXCEPT ![cur] = gw]
      <4>1. cur \in Ifaces
        BY <3>1 DEF TypeOK, Reconciling
      <4>2. PICK e \in Ifaces : e = cur
        BY <4>1
      <4>3. installed'[e] = gw /\ index'[e] = index[cur]
        BY <3>1, <3>3, <4>2 DEF TypeOK
      <4>4. ~ Unnoticed(e)'
        BY <3>3, <4>2, <4>3 DEF Unnoticed, Entry
      <4>5. \A i \in Ifaces : ~ Unnoticed(i)'
        BY <4>4 DEF OneSteady
      <4>6. route'.dev = e /\ route'.gen = gen[e] /\ up[e]
        BY <3>3, <4>2 DEF Live
      <4>7. RouteLive'
        BY <3>1, <4>6 DEF RouteLive
      <4> QED
        BY <2>2, <3>1, <4>5, <4>7
    <3> QED
      BY <2>14, <3>2, <3>3 DEF InstallRoute
  <2>15. CASE Withdraw
    <3>1. pc = "withdraw" /\ pc' = "pass" /\ UNCHANGED <<up, gen>> /\ WithdrawRoute(cur)
      BY <2>15 DEF Withdraw, NextIface, env
    <3>2. PICK e \in Ifaces : e = cur
      BY <3>1 DEF TypeOK, Reconciling
    <3>3. ~ Unnoticed(e)'
      BY <3>1, <3>2, ClearedRecord
    <3>4. \A i \in Ifaces : ~ Unnoticed(i)'
      BY <3>3 DEF OneSteady
    <3> QED
      BY <2>2, <3>1, <3>4, WithdrawLive DEF NoticeInv
  <2>16. CASE Loop
    <3>1. UNCHANGED <<up, gen, sentinel, routers, route, index, installed, pending>>
          /\ pc = "loop" /\ pc' = IF running THEN "poll" ELSE "exit"
      BY <2>16 DEF Loop, kernel, env
    <3> QED
      BY <2>1, <3>1 DEF WillNotice
  <2>17. ASSUME NEW i \in Ifaces, ExitWithdraw(i)
         PROVE  NoticeInv'
    <3>1. pc = "exit" /\ pc' = "exit"
          /\ UNCHANGED <<up, gen, sentinel, routers, index>>
      BY <2>17 DEF ExitWithdraw, env
    <3>2. CASE installed[i] # NoGw
      <4>1. WithdrawRoute(i)
        BY <2>17, <3>2 DEF ExitWithdraw
      <4>2. ~ Unnoticed(i)'
        BY <4>1, ClearedRecord
      <4>3. \A j \in Ifaces : ~ Unnoticed(j)'
        BY <4>2 DEF OneSteady
      <4> QED
        BY <2>2, <3>1, <4>1, <4>3, WithdrawLive DEF NoticeInv
    <3>3. CASE installed[i] = NoGw
      BY <2>1, <2>17, <3>1, <3>3 DEF ExitWithdraw, WillNotice
    <3> QED
      BY <3>2, <3>3
  <2>18. CASE Exit \/ Crash
    <3>1. \A i \in Ifaces : installed'[i] = NoGw
      BY <2>18 DEF Exit, Crash, Forget
    <3>2. UNCHANGED <<up, gen, route>> /\ pc' \in {"down", "stopped"}
      BY <2>18 DEF Exit, Crash, kernel, env
    <3> QED
      BY <3>1, <3>2 DEF NoticeInv, RouteLive, Unnoticed
  <2>19. CASE UNCHANGED vars
    BY <2>1, <2>19 DEF vars, WillNotice
  <2> QED
    BY <2>3, <2>4, <2>5, <2>6, <2>7, <2>8, <2>9, <2>10, <2>11, <2>12, <2>13,
       <2>14, <2>15, <2>16, <2>17, <2>18, <2>19
       DEF Next, Environment, Daemon, Reconcile
<1> QED
  BY <1>1, <1>2, TypeCorrect, KnownInvariant, PTL DEF Spec

(* One interface, refusals and crashes included: the daemon never sleeps   *)
(* believing in a route the kernel does not hold.                          *)
THEOREM ClaimsAlwaysTrue == ASSUME OneSteady PROVE Spec => []ClaimsAreTrue
<1>1. NoticeInv => ClaimsAreTrue
  BY DEF NoticeInv, ClaimsAreTrue, Quiet, Unnoticed, WillNotice
<1> QED
  BY <1>1, NoticeInvariant, PTL

(* The two together, of a daemon that is not killed and not refused: at    *)
(* rest its interface has exactly the route its sentinel, its router list  *)
(* and its neighbours call for, over the interface that exists now.        *)
RouteFollowsRouter ==
    Quiet =>
        \A i \in Ifaces :
            IF Desired(i) = NoGw
              THEN route = NoRoute
              ELSE route = [dev |-> i, gen |-> gen[i], via |-> Desired(i)]

THEOREM RouteAlwaysFollowsRouter ==
    ASSUME Reliable, OneSteady PROVE Spec => []RouteFollowsRouter
<1>1. TypeOK /\ OwnedInv /\ RecordsCurrent /\ ClaimsAreTrue => RouteFollowsRouter
  <2> SUFFICES ASSUME TypeOK, OwnedInv, RecordsCurrent, ClaimsAreTrue, Quiet,
                      NEW i \in Ifaces
               PROVE  IF Desired(i) = NoGw
                        THEN route = NoRoute
                        ELSE route = [dev |-> i, gen |-> gen[i], via |-> Desired(i)]
    BY DEF RouteFollowsRouter
  <2>1. installed[i] = Desired(i)
    BY DEF RecordsCurrent
  <2>2. CASE Desired(i) = NoGw
    <3>1. route # NoRoute => route.dev = i
      BY DEF TypeOK, Routes, OneSteady
    <3>2. ~ Holds(i)
      BY <2>1, <2>2 DEF Holds
    <3> QED
      BY <2>2, <3>1, <3>2 DEF OwnedInv
  <2>3. CASE Desired(i) # NoGw
    <3>1. route = Entry(i) /\ Entry(i) \in Routes
      BY <2>1, <2>3, RouteType DEF ClaimsAreTrue, Entry, TypeOK
    <3>2. route # NoRoute /\ route.dev = i
      BY <3>1 DEF Routes, Entry
    <3>3. gen[i] = index[i]
      BY <3>2 DEF OwnedInv, Holds
    <3> QED
      BY <2>1, <2>3, <3>1, <3>3 DEF Entry
  <2> QED
    BY <2>2, <2>3
<1> QED
  BY <1>1, TypeCorrect, OwnedInvariant, RecordsCurrentAtRest, ClaimsAlwaysTrue, PTL
=============================================================================
