-------------------------- MODULE FreeBsdGwdProofs --------------------------
(***************************************************************************)
(* FreeBsdGwd for every mode, every set of routers and lists, and every    *)
(* number of recreated interfaces and failing calls.                       *)
(***************************************************************************)
EXTENDS FreeBsdGwd, SequenceTheorems, WellFoundedInduction, TLAPS

-----------------------------------------------------------------------------
(* The selection.  The loop of select_router is a recursive function; that *)
(* it exists, and what it computes, follows by taking the least number of  *)
(* turns after which it would not.                                         *)

(* A set of natural numbers has a least element.                           *)
LEMMA LeastOf ==
    ASSUME NEW S \in SUBSET Nat, S # {}
    PROVE  \E x \in S : \A y \in S : x <= y
<1> DEFINE less == OpToRel(<, Nat)
<1>1. IsWellFoundedOn(less, Nat)
  BY NatLessThanWellFounded
<1>2. PICK x \in S : \A y \in S : ~ (<<y, x>> \in less)
  <2> HIDE DEF less
  <2> QED
    BY <1>1, WFMin
<1>3. ASSUME NEW y \in S, y < x PROVE FALSE
  <2>1. <<y, x>> \in Nat \X Nat /\ <<y, x>>[1] < <<y, x>>[2]
    BY <1>3
  <2>2. <<y, x>> \in less
    BY <2>1 DEF OpToRel
  <2> QED
    BY <2>2, <1>2
<1> QED
  BY <1>3

\* Before the first turn.
NoBest == [rank |-> -1, gw |-> NoGw]

\* best is that function.
IsScan(best, l) ==
    best = [k \in 0..Len(l) |-> IF k = 0 THEN NoBest ELSE Examine(best[k - 1], l[k])]

LEMMA ScanExists ==
    ASSUME NEW l \in Seq(Entries)
    PROVE  \E best : IsScan(best, l)
<1> DEFINE Prefix(n, t) ==
             t = [k \in 0..n |-> IF k = 0 THEN NoBest ELSE Examine(t[k - 1], l[k])]
           Bad == {n \in 0..Len(l) : ~ \E t : Prefix(n, t)}
<1>1. Len(l) \in Nat
  BY LenProperties
<1>2. Bad = {}
  <2> SUFFICES ASSUME Bad # {} PROVE FALSE
    OBVIOUS
  <2>1. Bad \in SUBSET Nat
    BY <1>1
  <2>2. PICK n \in Bad : \A m \in Bad : n <= m
    BY <2>1, LeastOf
  <2>3. n \in 0..Len(l) /\ n \in Nat
    BY <2>1, <2>2
  <2>4. n # 0
    <3>1. Prefix(0, [k \in 0..0 |-> NoBest])
      OBVIOUS
    <3> QED
      BY <2>2, <3>1
  <2>5. n - 1 \in 0..Len(l) /\ n - 1 \notin Bad
    BY <2>2, <2>3, <2>4, <1>1
  <2>6. PICK t : Prefix(n - 1, t)
    BY <2>5
  <2> DEFINE u == [k \in 0..n |-> IF k = n THEN Examine(t[n - 1], l[n]) ELSE t[k]]
  <2>7. \A k \in 0..n : u[k] = IF k = 0 THEN NoBest ELSE Examine(u[k - 1], l[k])
    <3> TAKE k \in 0..n
    <3>1. CASE k = n
      BY <2>3, <2>4, <3>1
    <3>2. CASE k # n
      <4>1. k \in 0..n - 1 /\ (k # 0 => k - 1 \in 0..n - 1 /\ k - 1 # n)
        BY <2>3, <3>2
      <4>2. t[k] = IF k = 0 THEN NoBest ELSE Examine(t[k - 1], l[k])
        BY <2>6, <4>1
      <4>3. u[k] = t[k] /\ (k # 0 => u[k - 1] = t[k - 1])
        BY <4>1, <2>3
      <4> QED
        BY <4>2, <4>3
    <3> QED
      BY <3>1, <3>2
  <2>8. Prefix(n, u)
    BY <2>7
  <2> QED
    BY <2>2, <2>8
<1>3. Len(l) \notin Bad
  BY <1>2
<1> QED
  BY <1>1, <1>3 DEF IsScan

LEMMA SelectScans ==
    ASSUME NEW l \in Seq(Entries)
    PROVE  \E best : IsScan(best, l) /\ SelectRouter(l) = best[Len(l)].gw
<1>1. \E best : IsScan(best, l)
  BY ScanExists
<1>2. IsScan(CHOOSE best : IsScan(best, l), l)
  BY <1>1
<1>3. SelectRouter(l) = (CHOOSE best : IsScan(best, l))[Len(l)].gw
  BY DEF SelectRouter, IsScan, NoBest
<1> QED
  BY <1>2, <1>3

\* After k turns best is the lowest of the most preferred routers here so far.
Won(best, l, k) ==
    LET seen == {j \in 1..k : l[j].here}
    IN  IF seen = {}
          THEN best[k] = NoBest
          ELSE \E w \in seen :
                 /\ best[k] = [rank |-> PrefRank[l[w].pref], gw |-> l[w].gw]
                 /\ \A j \in seen :
                      \/ PrefRank[l[j].pref] < PrefRank[l[w].pref]
                      \/ /\ PrefRank[l[j].pref] = PrefRank[l[w].pref]
                         /\ l[w].gw <= l[j].gw

LEMMA EntryTypes ==
    ASSUME NEW e \in Entries
    PROVE  e.here \in BOOLEAN /\ e.gw \in Nat \ {NoGw} /\ PrefRank[e.pref] \in -1..2
<1>1. e.here \in BOOLEAN /\ e.gw \in Gws /\ e.pref \in Prefs
  BY DEF Entries
<1>2. \A p \in Prefs : PrefRank[p] \in -1..2
  <2>1. /\ PrefRank["high"] = 2
        /\ PrefRank["medium"] = 1
        /\ PrefRank["low"] = 0
        /\ PrefRank["reserved"] = -1
    BY DEF PrefRank
  <2> QED
    BY <2>1 DEF Prefs
<1> QED
  BY <1>1, <1>2, GwsAssumption

\* What loses against a router loses against the one that beats it.
LEMMA BetterTransitive ==
    ASSUME NEW p \in Int, NEW a \in Int, NEW q \in Int, NEW b \in Int,
           NEW r \in Int, NEW c \in Int,
           p < q \/ (p = q /\ b <= a), q < r \/ (q = r /\ c < b)
    PROVE  p < r \/ (p = r /\ c <= a)
  OBVIOUS

(* One turn of the loop of select_router.                                  *)
LEMMA TurnWins ==
    ASSUME NEW l \in Seq(Entries), NEW best, IsScan(best, l),
           NEW k \in 1..Len(l), Won(best, l, k - 1)
    PROVE  Won(best, l, k)
<1>1. Len(l) \in Nat /\ k \in Nat /\ k - 1 \in 0..Len(l) /\ k \in 0..Len(l)
  BY LenProperties
<1>2. best[k] = Examine(best[k - 1], l[k])
  BY <1>1 DEF IsScan
<1>3. \A j \in 1..Len(l) :
        l[j].here \in BOOLEAN /\ l[j].gw \in Nat \ {NoGw} /\ PrefRank[l[j].pref] \in -1..2
  <2> TAKE j \in 1..Len(l)
  <2>1. l[j] \in Entries
    BY ElementOfSeq
  <2> QED
    BY <2>1, EntryTypes
<1> DEFINE before == {j \in 1..k - 1 : l[j].here}
           seen   == {j \in 1..k : l[j].here}
<1>4. CASE ~ l[k].here
  <2>1. best[k] = best[k - 1]
    BY <1>2, <1>4 DEF Examine, Keeps
  <2>2. seen = before
    BY <1>1, <1>4
  <2> QED
    BY <2>1, <2>2 DEF Won
<1>5. CASE l[k].here
  <2>1. seen = before \cup {k} /\ k \in seen
    BY <1>1, <1>5
  <2>2. CASE before = {}
    <3>1. best[k - 1] = NoBest
      BY <2>2 DEF Won
    <3>2. best[k] = [rank |-> PrefRank[l[k].pref], gw |-> l[k].gw]
      BY <1>2, <1>3, <1>5, <3>1 DEF Examine, Keeps, NoBest
    <3>3. seen = {k}
      BY <2>1, <2>2
    <3> QED
      <4> HIDE DEF seen
      <4>1. \A j \in seen : PrefRank[l[j].pref] = PrefRank[l[k].pref] /\ l[k].gw <= l[j].gw
        BY <1>3, <3>3
      <4>2. seen # {} /\ k \in seen
        BY <3>3
      <4> QED
        BY <3>2, <4>1, <4>2 DEF Won, seen
  <2>3. CASE before # {}
    <3>1. PICK w \in before :
            /\ best[k - 1] = [rank |-> PrefRank[l[w].pref], gw |-> l[w].gw]
            /\ \A j \in before :
                 \/ PrefRank[l[j].pref] < PrefRank[l[w].pref]
                 \/ /\ PrefRank[l[j].pref] = PrefRank[l[w].pref]
                    /\ l[w].gw <= l[j].gw
      BY <2>3 DEF Won
    <3>2. w \in 1..Len(l) /\ \A j \in before : j \in 1..Len(l)
      BY <1>1
    <3>3. CASE Keeps(best[k - 1], l[k])
      <4>1. best[k] = best[k - 1]
        BY <1>2, <3>3 DEF Examine
      <4>2. \/ PrefRank[l[k].pref] < PrefRank[l[w].pref]
            \/ PrefRank[l[k].pref] = PrefRank[l[w].pref] /\ l[w].gw <= l[k].gw
        BY <1>3, <1>5, <3>1, <3>2, <3>3 DEF Keeps
      <4>3. \A j \in seen :
              \/ PrefRank[l[j].pref] < PrefRank[l[w].pref]
              \/ /\ PrefRank[l[j].pref] = PrefRank[l[w].pref]
                 /\ l[w].gw <= l[j].gw
        BY <2>1, <3>1, <4>2
      <4> QED
        BY <2>1, <3>1, <4>1, <4>3 DEF Won
    <3>4. CASE ~ Keeps(best[k - 1], l[k])
      <4>1. best[k] = [rank |-> PrefRank[l[k].pref], gw |-> l[k].gw]
        BY <1>2, <3>4 DEF Examine
      <4>2. \/ PrefRank[l[w].pref] < PrefRank[l[k].pref]
            \/ PrefRank[l[w].pref] = PrefRank[l[k].pref] /\ l[k].gw < l[w].gw
        BY <1>3, <1>5, <3>1, <3>2, <3>4 DEF Keeps
      <4>3. \A j \in before :
              \/ PrefRank[l[j].pref] < PrefRank[l[k].pref]
              \/ /\ PrefRank[l[j].pref] = PrefRank[l[k].pref]
                 /\ l[k].gw <= l[j].gw
        <5> TAKE j \in before
        <5>1. /\ PrefRank[l[j].pref] \in -1..2 /\ l[j].gw \in Nat
              /\ PrefRank[l[w].pref] \in -1..2 /\ l[w].gw \in Nat
              /\ PrefRank[l[k].pref] \in -1..2 /\ l[k].gw \in Nat
          BY <1>3, <3>2
        <5>2. \/ PrefRank[l[j].pref] < PrefRank[l[w].pref]
              \/ PrefRank[l[j].pref] = PrefRank[l[w].pref] /\ l[w].gw <= l[j].gw
          BY <3>1
        <5> QED
          BY <4>2, <5>1, <5>2, BetterTransitive, SMTT(30)
      <4>4. \A j \in seen :
              \/ PrefRank[l[j].pref] < PrefRank[l[k].pref]
              \/ /\ PrefRank[l[j].pref] = PrefRank[l[k].pref]
                 /\ l[k].gw <= l[j].gw
        BY <1>3, <2>1, <4>3
      <4> QED
        BY <2>1, <4>1, <4>4 DEF Won
    <3> QED
      BY <3>3, <3>4
  <2> QED
    BY <2>2, <2>3
<1> QED
  BY <1>3, <1>4, <1>5

LEMMA ScanWins ==
    ASSUME NEW l \in Seq(Entries), NEW best, IsScan(best, l)
    PROVE  Won(best, l, Len(l))
<1> DEFINE Bad == {k \in 0..Len(l) : ~ Won(best, l, k)}
<1>1. Len(l) \in Nat
  BY LenProperties
<1>2. Bad = {}
  <2> SUFFICES ASSUME Bad # {} PROVE FALSE
    OBVIOUS
  <2>1. PICK n \in Bad : \A m \in Bad : n <= m
    <3>1. Bad \in SUBSET Nat
      BY <1>1
    <3> HIDE DEF Bad
    <3> QED
      BY <3>1, LeastOf
  <2>2. CASE n = 0
    <3>1. best[0] = NoBest
      BY <1>1 DEF IsScan
    <3>2. {j \in 1..0 : l[j].here} = {}
      OBVIOUS
    <3> QED
      BY <2>1, <2>2, <3>1, <3>2 DEF Won
  <2>3. CASE n # 0
    <3>1. n \in 1..Len(l) /\ n - 1 \in 0..Len(l)
      BY <1>1, <2>1, <2>3
    <3>2. Won(best, l, n - 1)
      BY <2>1, <3>1
    <3> QED
      BY <2>1, <3>1, <3>2, TurnWins
  <2> QED
    BY <2>2, <2>3
<1> QED
  BY <1>1, <1>2

(* "Ties on preference break deterministically to the numerically lowest   *)
(* address": the loop of select_router returns the lowest of the most      *)
(* preferred routers on the interface, for every list in every order.      *)
THEOREM SelectionLowest ==
    ASSUME NEW l \in Seq(Entries)
    PROVE  SelectRouter(l) = Lowest(l)
<1>1. PICK best : IsScan(best, l) /\ SelectRouter(l) = best[Len(l)].gw
  BY SelectScans
<1>2. Won(best, l, Len(l))
  BY <1>1, ScanWins
<1> DEFINE seen == {j \in 1..Len(l) : l[j].here}
<1>3. Here(l) = {l[j] : j \in seen}
  BY DEF Here
<1>4. CASE seen = {}
  BY <1>1, <1>2, <1>3, <1>4 DEF Won, NoBest, Lowest
<1>5. CASE seen # {}
  <2>1. PICK w \in seen :
          /\ best[Len(l)] = [rank |-> PrefRank[l[w].pref], gw |-> l[w].gw]
          /\ \A j \in seen :
               \/ PrefRank[l[j].pref] < PrefRank[l[w].pref]
               \/ /\ PrefRank[l[j].pref] = PrefRank[l[w].pref]
                  /\ l[w].gw <= l[j].gw
    BY <1>2, <1>5 DEF Won
  <2>2. \A j \in seen : PrefRank[l[j].pref] \in -1..2 /\ l[j].gw \in Nat
    <3> TAKE j \in seen
    <3>1. l[j] \in Entries
      BY ElementOfSeq
    <3> QED
      BY <3>1, EntryTypes
  <2> DEFINE ranks == {PrefRank[dr.pref] : dr \in Here(l)}
             top   == {dr.gw : dr \in {d \in Here(l) : PrefRank[d.pref] = Max(ranks)}}
  <2>3. Max(ranks) = PrefRank[l[w].pref]
    <3>1. PrefRank[l[w].pref] \in ranks /\ \A r \in ranks : PrefRank[l[w].pref] >= r
      BY <1>3, <2>1, <2>2
    <3>2. ranks \subseteq Int
      BY <1>3, <2>2
    <3> QED
      BY <3>1, <3>2 DEF Max
  <2>4. Min(top) = l[w].gw
    <3>1. l[w].gw \in top
      BY <1>3, <2>3
    <3>2. ASSUME NEW g \in top PROVE g \in Nat /\ l[w].gw <= g
      <4>1. PICK j \in seen : g = l[j].gw /\ PrefRank[l[j].pref] = PrefRank[l[w].pref]
        BY <1>3, <2>3
      <4> QED
        BY <2>1, <2>2, <4>1
    <3> QED
      <4> HIDE DEF top
      <4> QED
        BY <3>1, <3>2 DEF Min
  <2>5. Lowest(l) = Min(top)
    BY <1>3, <1>5 DEF Lowest
  <2> QED
    BY <1>1, <2>1, <2>4, <2>5
<1> QED
  BY <1>4, <1>5

-----------------------------------------------------------------------------
(* The type invariant. *)

LEMMA SelectionType ==
    ASSUME NEW l \in Seq(Entries)
    PROVE  SelectRouter(l) \in Gws \cup {NoGw}
<1>1. PICK best : IsScan(best, l) /\ SelectRouter(l) = best[Len(l)].gw
  BY SelectScans
<1>2. Won(best, l, Len(l))
  BY <1>1, ScanWins
<1>3. CASE best[Len(l)] = NoBest
  BY <1>1, <1>3 DEF NoBest
<1>4. CASE best[Len(l)] # NoBest
  <2> DEFINE seen == {j \in 1..Len(l) : l[j].here}
  <2>1. PICK w \in seen : best[Len(l)] = [rank |-> PrefRank[l[w].pref], gw |-> l[w].gw]
    <3>1. seen # {}
      BY <1>2, <1>4 DEF Won
    <3> QED
      BY <1>2, <3>1 DEF Won
  <2>2. l[w] \in Entries
    BY ElementOfSeq
  <2> QED
    BY <1>1, <2>1, <2>2 DEF Entries
<1> QED
  BY <1>3, <1>4

LEMMA ListsType == NoGw \notin Gws /\ <<>> \in Seq(Entries) /\ Lists \subseteq Seq(Entries)
BY GwsAssumption, ListsAssumption

(* An announced or a silent change, and what the environment leaves alone. *)
LEMMA EnvironmentTypes == TypeOK /\ Environment => TypeOK'
<1> SUFFICES ASSUME TypeOK, Environment PROVE TypeOK'
  OBVIOUS
<1> USE DEF TypeOK, Elsewhere, Announced, Unannounced, local, record
<1>1. CASE LoseLink
  <2>1. gen < MaxGen => gen + 1 \in 1..MaxGen
    BY BoundsAssumption
  <2>2. gen' \in 1..MaxGen /\ up' \in BOOLEAN
    <3>1. CASE UNCHANGED <<up, gen>>
      BY <3>1
    <3>2. CASE gen < MaxGen /\ up' = FALSE /\ gen' = gen + 1
      BY <2>1, <3>2
    <3> QED
      BY <1>1, <3>1, <3>2 DEF LoseLink
  <2> QED
    BY <1>1, <2>2, ListsAssumption, StaticsAssumption DEF LoseLink
<1>2. CASE LinkAppears
  BY <1>2 DEF LinkAppears
<1>3. CASE ListChanges
  <2>1. event' \in BOOLEAN /\ silent' \in BOOLEAN /\ list' \in Lists
    BY <1>3 DEF ListChanges
  <2> QED
    BY <1>3, <2>1 DEF ListChanges
<1>4. CASE StaticChanges
  BY <1>4 DEF StaticChanges
<1>5. CASE HookRuns
  BY <1>5 DEF HookRuns
<1>6. CASE DhclientRoutes
  BY <1>6 DEF DhclientRoutes, env
<1> QED
  BY <1>1, <1>2, <1>3, <1>4, <1>5, <1>6 DEF Environment

LEMMA FailsType == TypeOK /\ Fails => faults' \in 0..MaxFaults
BY BoundsAssumption DEF TypeOK, Fails, MayFail

LEMMA ProgramTypes ==
    ASSUME TypeOK, Program, Live, pc \in {"add", "change"}
    PROVE  /\ fib' \in Routes
           /\ installed' \in BOOLEAN /\ orphaned' \in BOOLEAN
           /\ installedGw' \in Gws /\ installedGw' # NoGw
<1>1. ifindex \in 1..MaxGen /\ gw \in Gws
  BY DEF TypeOK, Live
<1> QED
  BY <1>1, ListsType DEF Program, Routes

LEMMA DeleteTypes ==
    ASSUME TypeOK, DeleteRoute
    PROVE  /\ fib' \in Routes \cup {NoRoute, DhcpRoute}
           /\ echo' \in BOOLEAN /\ installed' = FALSE /\ orphaned' \in BOOLEAN
           /\ faults' \in 0..MaxFaults
BY FailsType DEF TypeOK, DeleteRoute

LEMMA ReconcileTypes == TypeOK /\ Reconcile => TypeOK'
<1> SUFFICES ASSUME TypeOK, Reconcile PROVE TypeOK'
  OBVIOUS
<1> USE FailsType DEF TypeOK, Steps, kernel, env, local, record, past
<1>1. CASE Resolve
  <2>1. gen \in 0..MaxGen /\ gen > 0 /\ 0 \in 0..MaxGen
    BY BoundsAssumption
  <2>2. CASE up
    BY <1>1, <2>1, <2>2 DEF Resolve
  <2>3. CASE ~ up
    BY <1>1, <2>1, <2>3 DEF Resolve
  <2> QED
    BY <2>2, <2>3
<1>2. CASE CheckSentinel
  BY <1>2 DEF CheckSentinel
<1>3. CASE Select
  <2>1. DefaultRouters \in Seq(Entries)
    BY ListsType DEF DefaultRouters
  <2>2. SelectRouter(DefaultRouters) \in Gws \cup {NoGw}
    BY <2>1, SelectionType
  <2> QED
    BY <1>3, <2>2 DEF Select
<1>4. CASE SelectStatic
  BY <1>4, StaticsAssumption DEF SelectStatic
<1>5. CASE Install
  BY <1>5 DEF Install
<1>6. CASE Add
  <2>1. CASE Program /\ Live /\ UNCHANGED faults
    BY <1>6, <2>1, ProgramTypes DEF Add
  <2>2. CASE UNCHANGED <<fib, record, orphaned>>
    BY <1>6, <2>2 DEF Add
  <2> QED
    BY <1>6, <2>1, <2>2 DEF Add
<1>7. CASE Change
  <2>1. CASE Program /\ Live /\ UNCHANGED faults
    BY <1>7, <2>1, ProgramTypes DEF Change
  <2>2. CASE UNCHANGED <<fib, record, orphaned>>
    BY <1>7, <2>2 DEF Change
  <2> QED
    BY <1>7, <2>1, <2>2 DEF Change
<1>8. CASE Withdraw
  BY <1>8, DeleteTypes DEF Withdraw, DeleteRoute
<1> QED
  BY <1>1, <1>2, <1>3, <1>4, <1>5, <1>6, <1>7, <1>8 DEF Reconcile

(* Every variable keeps to its values: in particular no route is added     *)
(* without an interface, or through no router (install, select_router).    *)
THEOREM TypeCorrect == Spec => []TypeOK
<1>1. Init => TypeOK
  <2>1. 1 \in 1..MaxGen /\ 0 \in 0..MaxGen /\ 0 \in 0..MaxFaults
    BY BoundsAssumption
  <2> SUFFICES ASSUME Init PROVE TypeOK
    OBVIOUS
  <2>2. fib \in Routes \cup {NoRoute, DhcpRoute}
    BY DEF Init
  <2> QED
    BY <2>1, <2>2 DEF Init, TypeOK, Steps
<1>2. TypeOK /\ [Next]_vars => TypeOK'
  <2> SUFFICES ASSUME TypeOK, [Next]_vars PROVE TypeOK'
    OBVIOUS
  <2> USE FailsType DEF Steps, kernel, env, local, record, past
  <2>1. CASE Environment
    BY <2>1, EnvironmentTypes
  <2>2. CASE Reconcile
    BY <2>2, ReconcileTypes
  <2>3. CASE Start
    BY <2>3 DEF TypeOK, Start
  <2>4. CASE Loop
    BY <2>4 DEF TypeOK, Loop
  <2>5. CASE ReadEvent \/ Timeout
    <3>1. event' \in BOOLEAN /\ echo' \in BOOLEAN /\ pc' \in {"resolve", "loop"}
      BY <2>5 DEF TypeOK, ReadEvent, Timeout
    <3>2. UNCHANGED <<env, fib, running, local, past>>
      BY <2>5 DEF ReadEvent, Timeout
    <3> QED
      BY <3>1, <3>2 DEF TypeOK
  <2>6. CASE Exit
    BY <2>6, DeleteTypes DEF TypeOK, Exit, DeleteRoute
  <2>7. CASE Signal
    <3>1. UNCHANGED <<kernel, local, past>> /\ running' = FALSE
      BY <2>7 DEF Signal
    <3>2. CASE pc' = "resolve"
      BY <3>1, <3>2 DEF TypeOK
    <3>3. CASE pc' = pc
      <4>1. pc' \in Steps \ {"stopped", "resolve", "loop", "poll", "exit"} => ifindex' > 0
        BY <3>1, <3>3 DEF TypeOK
      <4>2. pc' \in {"install", "add", "change"} => gw' # NoGw
        BY <3>1, <3>3 DEF TypeOK
      <4>3. pc' \in Steps
        BY <3>3 DEF TypeOK
      <4> QED
        BY <3>1, <4>1, <4>2, <4>3 DEF TypeOK
    <3> QED
      BY <2>7, <3>2, <3>3 DEF Signal
  <2>8. CASE Crash
    BY <2>8 DEF TypeOK, Crash
  <2>9. CASE UNCHANGED vars
    BY <2>9 DEF TypeOK, vars
  <2> QED
    BY <2>1, <2>2, <2>3, <2>4, <2>5, <2>6, <2>7, <2>8, <2>9 DEF Next, Daemon
<1> QED
  BY <1>1, <1>2, PTL DEF Spec

(* The router of a reconcile is the lowest of the most preferred ones on   *)
(* the interface, and none of an interface that is gone (select_router).   *)
THEOREM SelectsLowestAlways == Spec => SelectsLowest
<1>1. TypeOK /\ [Next]_vars =>
        [Select /\ faults' = faults =>
           gw' = Lowest(IF up /\ ifindex = gen THEN list ELSE <<>>)]_vars
  <2> SUFFICES ASSUME TypeOK, Select, faults' = faults
               PROVE  gw' = Lowest(IF up /\ ifindex = gen THEN list ELSE <<>>)
    OBVIOUS
  <2>1. gw' = SelectRouter(DefaultRouters)
    BY BoundsAssumption DEF Select, Fails, TypeOK
  <2>2. DefaultRouters \in Seq(Entries)
    BY ListsType DEF DefaultRouters, TypeOK
  <2>3. SelectRouter(DefaultRouters) = Lowest(DefaultRouters)
    BY <2>2, SelectionLowest
  <2>4. DefaultRouters = IF up /\ ifindex = gen THEN list ELSE <<>>
    BY DEF DefaultRouters, Live
  <2> QED
    BY <2>1, <2>3, <2>4
<1> QED
  BY <1>1, TypeCorrect, PTL DEF Spec, SelectsLowest

-----------------------------------------------------------------------------
(* The route is owned by its record. *)

\* A route of ours is on the interface as the daemon knows it, because the
\* table loses it with the interface.
Placed == Ours(fib) /\ ~ orphaned => up /\ ifindex = gen

OwnedInv == RouteRecorded /\ Placed /\ CleanStop

LEMMA InitOwned == Init => OwnedInv
BY DEF Init, OwnedInv, RouteRecorded, Placed, CleanStop, Ours

-----------------------------------------------------------------------------
(* What the kernel and dhclient do takes routes of ours away, at most.     *)

LEMMA EnvironmentOwned == OwnedInv /\ Environment => OwnedInv'
<1> SUFFICES ASSUME OwnedInv, Environment PROVE OwnedInv'
  OBVIOUS
<1> USE DEF OwnedInv, RouteRecorded, Placed, CleanStop, Entry, Elsewhere, local, record
<1>1. CASE LoseLink
  BY <1>1 DEF LoseLink, Ours
<1>2. CASE LinkAppears
  BY <1>2 DEF LinkAppears, Ours
<1>3. CASE ListChanges
  BY <1>3 DEF ListChanges, Ours
<1>4. CASE StaticChanges
  BY <1>4 DEF StaticChanges, Ours
<1>5. CASE HookRuns
  BY <1>5 DEF HookRuns, Ours
<1>6. CASE DhclientRoutes
  BY <1>6 DEF DhclientRoutes, Ours, env
<1> QED
  BY <1>1, <1>2, <1>3, <1>4, <1>5, <1>6 DEF Environment

(* withdraw leaves no route of ours, or knows that it failed to.           *)
LEMMA DeleteOwned ==
    ASSUME OwnedInv, DeleteRoute
    PROVE  ~ Ours(fib') \/ orphaned'
<1>1. CASE orphaned
  BY <1>1 DEF DeleteRoute
<1>2. CASE ~ orphaned /\ Ours(fib)
  <2>1. installed /\ fib = Entry
    BY <1>2 DEF OwnedInv, RouteRecorded
  <2> QED
    BY <2>1 DEF DeleteRoute, Ours
<1>3. CASE ~ Ours(fib)
  BY <1>3 DEF DeleteRoute, Ours
<1> QED
  BY <1>1, <1>2, <1>3

-----------------------------------------------------------------------------
(* The steps of the daemon.                                                *)

LEMMA ReconcileOwned == OwnedInv /\ Reconcile => OwnedInv'
<1> SUFFICES ASSUME OwnedInv, Reconcile PROVE OwnedInv'
  OBVIOUS
<1> USE DEF OwnedInv, RouteRecorded, Placed, CleanStop, Entry, kernel, env, local,
            record, past
<1>1. CASE Resolve
  BY <1>1 DEF Resolve, Ours
<1>2. CASE CheckSentinel
  BY <1>2 DEF CheckSentinel, Ours
<1>3. CASE Select
  BY <1>3 DEF Select, Ours
<1>4. CASE SelectStatic
  BY <1>4 DEF SelectStatic, Ours
<1>5. CASE Install
  BY <1>5 DEF Install, Ours
<1>6. CASE Add
  BY <1>6 DEF Add, Program, Live, Fails, Ours
<1>7. CASE Change
  BY <1>7 DEF Change, Program, Live, Fails, Ours
<1>8. CASE Withdraw
  <2>1. ~ Ours(fib') \/ orphaned'
    BY <1>8, DeleteOwned DEF Withdraw
  <2> QED
    BY <1>8, <2>1 DEF Withdraw, DeleteRoute, Ours
<1> QED
  BY <1>1, <1>2, <1>3, <1>4, <1>5, <1>6, <1>7, <1>8 DEF Reconcile

LEMMA StepOwned == OwnedInv /\ [Next]_vars => OwnedInv'
<1> SUFFICES ASSUME OwnedInv, [Next]_vars PROVE OwnedInv'
  OBVIOUS
<1> USE DEF OwnedInv, RouteRecorded, Placed, CleanStop, Entry
<1>1. CASE Environment
  BY <1>1, EnvironmentOwned
<1>2. CASE Start
  BY <1>2 DEF Start, env, local, record, past, Ours
<1>3. CASE Reconcile
  BY <1>3, ReconcileOwned
<1>4. CASE Loop \/ ReadEvent \/ Timeout
  BY <1>4 DEF Loop, ReadEvent, Timeout, kernel, env, local, record, past, Ours
<1>5. CASE Exit
  <2>1. ~ Ours(fib') \/ orphaned'
    BY <1>5, DeleteOwned DEF Exit
  <2> QED
    BY <1>5, <2>1 DEF Exit, DeleteRoute, Ours
<1>6. CASE Signal
  BY <1>6 DEF Signal, Alive, kernel, env, local, record, past, Ours
<1>7. CASE Crash
  BY <1>7 DEF Crash, kernel, env, Ours
<1>8. CASE UNCHANGED vars
  BY <1>8 DEF vars, Ours
<1> QED
  BY <1>1, <1>2, <1>3, <1>4, <1>5, <1>6, <1>7, <1>8 DEF Next, Daemon

LEMMA OwnedAlways == Spec => []OwnedInv
<1>1. Init => OwnedInv
  BY InitOwned
<1>2. OwnedInv /\ [Next]_vars => OwnedInv'
  BY StepOwned
<1> QED
  BY <1>1, <1>2, PTL DEF Spec

(* The daemon never loses track of a route it put into the table, unless   *)
(* it was killed or the kernel refused a delete (install and withdraw).    *)
THEOREM RouteAlwaysRecorded == Spec => []RouteRecorded
<1>1. OwnedInv => RouteRecorded
  BY DEF OwnedInv
<1> QED
  BY <1>1, OwnedAlways, PTL

(* Whenever it arrives, SIGTERM leaves no route of ours behind (main after *)
(* its loop), with the same exceptions.                                    *)
THEOREM StopIsClean == Spec => []CleanStop
<1>1. OwnedInv => CleanStop
  BY DEF OwnedInv
<1> QED
  BY <1>1, OwnedAlways, PTL

-----------------------------------------------------------------------------
(* What the daemon remembers. *)

\* Who is not there has no record; an orphan means that a call failed, and
\* that the record is gone; a route of ours goes with its interface.
MemoryInv ==
    /\ ~ Alive => ~ installed
    /\ Ours(fib) => up
    /\ orphaned => ~ installed /\ faults > 0

LEMMA StepMemory == TypeOK /\ MemoryInv /\ [Next]_vars => MemoryInv'
<1> SUFFICES ASSUME TypeOK, MemoryInv, [Next]_vars PROVE MemoryInv'
  OBVIOUS
<1> USE DEF MemoryInv, Alive, Ours, kernel, env, local, record, past
<1>1. Fails => faults' > 0
  BY BoundsAssumption DEF TypeOK, Fails
<1>2. CASE Environment
  BY <1>2 DEF Environment, LoseLink, LinkAppears, ListChanges, StaticChanges, HookRuns,
              DhclientRoutes, Elsewhere
<1>3. CASE Resolve
  BY <1>3 DEF Resolve
<1>4. CASE CheckSentinel \/ Select \/ SelectStatic \/ Install
  <2>1. UNCHANGED <<kernel, record, orphaned>> /\ Alive'
    BY <1>4 DEF CheckSentinel, Select, SelectStatic, Install
  <2>2. faults > 0 => faults' > 0
    BY <1>1, <1>4 DEF CheckSentinel, Select, SelectStatic, Install
  <2> QED
    BY <2>1, <2>2
<1>5. CASE Add
  BY <1>1, <1>5 DEF Add, Program, Live
<1>6. CASE Change
  BY <1>1, <1>6 DEF Change, Program, Live
<1>7. CASE Withdraw \/ Exit
  <2>1. DeleteRoute
    BY <1>7 DEF Withdraw, Exit
  <2> QED
    BY <1>1, <2>1 DEF DeleteRoute
<1>8. CASE Start \/ Loop \/ ReadEvent \/ Timeout \/ Signal
  BY <1>8 DEF Start, Loop, ReadEvent, Timeout, Signal
<1>9. CASE Crash
  BY <1>1, <1>9 DEF Crash
<1>10. CASE UNCHANGED vars
  BY <1>10 DEF vars
<1> QED
  BY <1>2, <1>3, <1>4, <1>5, <1>6, <1>7, <1>8, <1>9, <1>10 DEF Next, Daemon, Reconcile

LEMMA MemoryAlways == Spec => []MemoryInv
<1>1. Init => MemoryInv
  BY DEF Init, MemoryInv, Ours
<1>2. TypeOK /\ MemoryInv /\ [Next]_vars => MemoryInv'
  BY StepMemory
<1> QED
  BY <1>1, <1>2, TypeCorrect, PTL DEF Spec

-----------------------------------------------------------------------------
(* FreeBsdGwd implements FollowGateway. *)

FollowInv == TypeOK /\ OwnedInv /\ MemoryInv

LEMMA Idles ==
    ASSUME UNCHANGED <<fib, record, faults>>, Alive' = Alive
    PROVE  UNCHANGED FG!vars
BY DEF FG!vars, Slot, Claimed, record, Ours

LEMMA Releases ==
    ASSUME Slot' \in {Slot, NoGw}, Alive' = Alive, faults' = faults,
           \/ UNCHANGED record
           \/ installed' = FALSE /\ (installed => Slot' = NoGw)
    PROVE  FG!Release
BY DEF FG!Release, Claimed, record

LEMMA FailingFollows ==
    ASSUME Fails, UNCHANGED fib, UNCHANGED record \/ installed' = FALSE,
           Alive' => Alive, ~ Alive' => installed' = FALSE
    PROVE  FG!Mishap
BY DEF FG!Mishap, Claimed, record, Fails, Slot, Ours

LEMMA ProgramFollows ==
    ASSUME FollowInv, FollowInv', Program, Live, pc \in {"add", "change"}, pc' = "loop",
           faults' = faults
    PROVE  FG!Take
<1>1. fib' \in Routes /\ gw # NoGw
  BY ProgramTypes DEF FollowInv, TypeOK
<1>2. Ours(fib')
  BY <1>1, RoutesAssumption DEF Ours, Routes, TypeOK, FollowInv
<1>3. Slot' = gw /\ Claimed' = {gw}
  BY <1>2 DEF Program, Slot, Claimed, Ours
<1> QED
  BY <1>1, <1>3 DEF FG!Take, Alive

\* The record of a route that is in the table, and none that is not, goes.
LEMMA DeleteFollows ==
    ASSUME FollowInv, FollowInv', DeleteRoute
    PROVE  \/ Fails /\ UNCHANGED fib
           \/ /\ faults' = faults
              /\ Slot' = NoGw \/ (~ installed /\ UNCHANGED fib)
<1>1. CASE installed /\ fib = Entry /\ Fails /\ UNCHANGED fib
  BY <1>1
<1>2. CASE faults' = faults /\ fib' = IF installed /\ fib = Entry THEN NoRoute ELSE fib
  <2>1. CASE ~ installed
    BY <1>2, <2>1
  <2>2. CASE installed /\ fib = Entry
    BY <1>2, <2>2 DEF Slot, Ours
  <2>3. CASE installed /\ fib # Entry
    <3>1. ~ Ours(fib)
      BY <2>3 DEF FollowInv, MemoryInv, OwnedInv, RouteRecorded
    <3> QED
      BY <1>2, <2>3, <3>1 DEF Slot, Ours
  <2> QED
    BY <2>1, <2>2, <2>3
<1> QED
  BY <1>1, <1>2 DEF DeleteRoute

LEMMA EnvironmentFollows ==
    ASSUME FollowInv, Environment
    PROVE  [FG!Next]_FG!vars
<1>1. UNCHANGED <<record, faults>> /\ Alive' = Alive
  BY DEF Environment, LoseLink, LinkAppears, ListChanges, StaticChanges, HookRuns,
         DhclientRoutes, Elsewhere, local, Alive
<1>2. fib' \in {fib, NoRoute, DhcpRoute}
  BY DEF Environment, LoseLink, LinkAppears, ListChanges, StaticChanges, HookRuns,
         DhclientRoutes
<1>3. Slot' \in {Slot, NoGw}
  BY <1>2 DEF Slot, Ours
<1> QED
  BY <1>1, <1>3, Releases DEF FG!Next

LEMMA ReconcileFollows ==
    ASSUME FollowInv, FollowInv', Reconcile
    PROVE  [FG!Next]_FG!vars
<1> USE DEF kernel, local, record, past, Alive
<1>1. CASE Resolve
  <2>1. CASE up
    BY <1>1, <2>1, Idles DEF Resolve
  <2>2. CASE ~ up
    <3>1. Slot' = NoGw /\ Slot = NoGw
      BY <1>1, <2>2 DEF Resolve, FollowInv, MemoryInv, Slot, Ours
    <3> QED
      BY <1>1, <2>2, <3>1, Releases DEF Resolve, FG!Next
  <2> QED
    BY <2>1, <2>2
<1>2. CASE CheckSentinel \/ Select \/ SelectStatic \/ Install
  <2>1. UNCHANGED <<fib, record>> /\ Alive' /\ Alive
    BY <1>2 DEF CheckSentinel, Select, SelectStatic, Install
  <2>2. CASE UNCHANGED faults
    BY <2>1, <2>2, Idles
  <2>3. CASE Fails
    BY <2>1, <2>3, FailingFollows DEF FG!Next
  <2> QED
    BY <1>2, <2>2, <2>3 DEF CheckSentinel, Select, SelectStatic, Install
<1>3. CASE Add \/ Change
  <2>1. pc \in {"add", "change"} /\ pc' \in {"change", "loop"}
    BY <1>3 DEF Add, Change
  <2>2. CASE Program /\ Live /\ faults' = faults /\ pc' = "loop"
    BY <2>1, <2>2, ProgramFollows DEF FG!Next
  <2>3. CASE UNCHANGED <<fib, record, faults>>
    BY <2>1, <2>3, Idles
  <2>4. CASE UNCHANGED <<fib, record>> /\ Fails
    BY <2>1, <2>4, FailingFollows DEF FG!Next
  <2> QED
    BY <1>3, <2>2, <2>3, <2>4 DEF Add, Change
<1>4. CASE Withdraw
  <2>1. DeleteRoute /\ Alive /\ Alive' /\ installed' = FALSE
    BY <1>4 DEF Withdraw, DeleteRoute
  <2>2. CASE Fails /\ UNCHANGED fib
    BY <2>1, <2>2, FailingFollows DEF FG!Next
  <2>3. CASE faults' = faults /\ (Slot' = NoGw \/ (~ installed /\ UNCHANGED fib))
    <3>1. Slot' = NoGw \/ (~ installed /\ Slot' = Slot)
      BY <2>3 DEF Slot, Ours
    <3> QED
      BY <2>1, <2>3, <3>1, Releases DEF FG!Next
  <2> QED
    BY <2>1, <2>2, <2>3, DeleteFollows
<1> QED
  BY <1>1, <1>2, <1>3, <1>4 DEF Reconcile

LEMMA ExitFollows ==
    ASSUME FollowInv, FollowInv', Exit
    PROVE  FG!Next
<1>1. DeleteRoute /\ Alive /\ ~ Alive' /\ installed' = FALSE
  BY DEF Exit, DeleteRoute, Alive
<1>2. CASE Fails /\ UNCHANGED fib
  BY <1>1, <1>2, FailingFollows DEF FG!Next
<1>3. CASE faults' = faults /\ (Slot' = NoGw \/ (~ installed /\ UNCHANGED fib))
  <2>1. Claimed' = {} /\ (~ installed => Claimed = {})
    BY <1>1 DEF Claimed
  <2>2. Slot' = NoGw \/ (Slot # NoGw /\ Slot \notin Claimed /\ Slot' = Slot)
    BY <1>3, <2>1 DEF Slot, Ours
  <2> QED
    BY <1>1, <1>3, <2>1, <2>2 DEF FG!Next, FG!Stop, FG!Orphan
<1> QED
  BY <1>1, <1>2, <1>3, DeleteFollows

LEMMA StepFollows ==
    ASSUME FollowInv, FollowInv', [Next]_vars
    PROVE  [FG!Next]_FG!vars
<1> USE DEF kernel, local, record, past
<1>1. CASE Environment
  BY <1>1, EnvironmentFollows
<1>2. CASE Reconcile
  BY <1>2, ReconcileFollows
<1>3. CASE Start
  <2>1. ~ Alive /\ Alive' /\ Claimed = {}
    BY <1>3 DEF Start, Alive, Claimed, FollowInv, MemoryInv
  <2>2. Slot' = Slot /\ Claimed' = Claimed /\ faults' = faults
    BY <1>3 DEF Start, Slot, Claimed, Ours
  <2> QED
    BY <2>1, <2>2 DEF FG!Next, FG!Start
<1>4. CASE Loop \/ ReadEvent \/ Timeout
  BY <1>4, Idles DEF Loop, ReadEvent, Timeout, Alive
<1>5. CASE Signal
  BY <1>5, Idles DEF Signal, Alive
<1>6. CASE Exit
  BY <1>6, ExitFollows
<1>7. CASE Crash
  <2>1. Fails /\ UNCHANGED fib /\ installed' = FALSE /\ Alive /\ ~ Alive'
    BY <1>7 DEF Crash, Alive
  <2> QED
    BY <2>1, FailingFollows DEF FG!Next
<1>8. CASE UNCHANGED vars
  BY <1>8, Idles DEF vars, Alive
<1> QED
  BY <1>1, <1>2, <1>3, <1>4, <1>5, <1>6, <1>7, <1>8 DEF Next, Daemon

(* The FreeBSD daemon keeps the promise of FollowGateway, whatever fails   *)
(* and whenever it is killed: only then is there a route of its own that   *)
(* it does not know of (install, withdraw and the end of main).            *)
THEOREM DaemonFollows == Spec => Follows
<1>1. Init => FG!Init
  BY DEF Init, FG!Init, Slot, Claimed, Ours, Alive
<1>2. FollowInv /\ FollowInv' /\ [Next]_vars => [FG!Next]_FG!vars
  BY StepFollows
<1>3. Spec => []FollowInv
  BY TypeCorrect, OwnedAlways, MemoryAlways, PTL DEF FollowInv
<1> QED
  BY <1>1, <1>2, <1>3, PTL DEF Spec, Follows, FG!Spec

-----------------------------------------------------------------------------
(* The route is right at rest. *)

\* What was lost with the interface does not return before it is noticed, and
\* the sentinel is not itself the route that the daemon takes over.
Steady == ~ FastReturn /\ Mode # "fib"

\* While the record claims what the table has lost, nothing has returned.
NoticedInv == Unnoticed => list = <<>> /\ static = NoGw

Right == IF Desired = NoGw THEN ~ Ours(fib) ELSE fib = [gen |-> gen, via |-> Desired]

\* What a reconcile knows, as long as no message waits and nothing failed.
Known ==
    /\ pc \in {"sentinel", "select", "static", "install", "add", "change", "withdraw"} => Live
    /\ pc \in {"select", "static"} => Sentinel
    /\ pc = "static" => SelectRouter(list) = NoGw
    /\ pc \in {"install", "add", "change"} => gw = Desired
    /\ pc = "change" => fib # NoRoute
    /\ pc = "withdraw" => Desired = NoGw
    /\ pc \in {"loop", "poll"} => Right

Calm == ~ event /\ ~ silent /\ faults = 0

FreshInv == Calm => Known

RightInv == TypeOK /\ OwnedInv /\ MemoryInv /\ NoticedInv /\ FreshInv

LEMMA EntryIsRoute == TypeOK /\ installed => Ours(Entry) /\ Entry # NoRoute /\ Entry # DhcpRoute
<1> SUFFICES ASSUME TypeOK, installed
             PROVE  Entry \in [gen : Nat, via : Gws]
  BY RoutesAssumption DEF Ours
<1> QED
  BY BoundsAssumption DEF TypeOK, Entry

LEMMA StepNoticed ==
    ASSUME Steady, TypeOK, OwnedInv, MemoryInv, NoticedInv, [Next]_vars
    PROVE  NoticedInv'
<1> USE DEF Steady, NoticedInv, Unnoticed, Entry, MayReturn, kernel, env, local, record,
            past, Elsewhere
<1>1. CASE LoseLink
  BY <1>1 DEF LoseLink
<1>2. CASE LinkAppears \/ HookRuns
  BY <1>2 DEF LinkAppears, HookRuns
<1>3. CASE ListChanges \/ StaticChanges
  BY <1>3 DEF ListChanges, StaticChanges
<1>4. CASE DhclientRoutes
  BY <1>4, EntryIsRoute DEF DhclientRoutes
<1>5. CASE Resolve
  <2>1. CASE up
    <3>1. installed /\ fib = Entry => ifindex = gen
      BY EntryIsRoute DEF OwnedInv, Placed, MemoryInv
    <3> QED
      BY <1>5, <2>1, <3>1 DEF Resolve
  <2>2. CASE ~ up
    BY <1>5, <2>2 DEF Resolve
  <2> QED
    BY <2>1, <2>2
<1>6. CASE CheckSentinel \/ Select \/ SelectStatic \/ Install
  BY <1>6 DEF CheckSentinel, Select, SelectStatic, Install
<1>7. CASE Add
  BY <1>7 DEF Add, Program
<1>8. CASE Change
  BY <1>8 DEF Change, Program
<1>9. CASE Withdraw \/ Exit
  BY <1>9 DEF Withdraw, Exit, DeleteRoute
<1>10. CASE Start \/ Loop \/ ReadEvent \/ Timeout \/ Signal
  BY <1>10 DEF Start, Loop, ReadEvent, Timeout, Signal
<1>11. CASE Crash
  BY <1>11 DEF Crash
<1>12. CASE UNCHANGED vars
  BY <1>12 DEF vars
<1> QED
  BY <1>1, <1>2, <1>3, <1>4, <1>5, <1>6, <1>7, <1>8, <1>9, <1>10, <1>11, <1>12
  DEF Next, Environment, Daemon, Reconcile

LEMMA NothingListed == SelectRouter(<<>>) = NoGw
<1>1. SelectRouter(<<>>) = Lowest(<<>>)
  BY ListsType, SelectionLowest
<1>2. Here(<<>>) = {}
  BY DEF Here
<1> QED
  BY <1>1, <1>2 DEF Lowest

\* A router to follow means that nothing the record claims is missing.
LEMMA WantedNoticed == NoticedInv /\ Desired # NoGw => ~ Unnoticed
BY NothingListed DEF NoticedInv, Desired

LEMMA SentinelStays == Steady /\ UNCHANGED env => Sentinel' = Sentinel
BY ModeAssumption DEF Steady, env, Sentinel

LEMMA DesiredStays == Steady /\ UNCHANGED env => Desired' = Desired
<1> SUFFICES ASSUME Steady, UNCHANGED env PROVE Desired' = Desired
  OBVIOUS
<1>1. Sentinel' = Sentinel
  BY SentinelStays
<1>2. SelectRouter(list)' = SelectRouter(list)
  BY DEF env, SelectRouter, Examine, Keeps
<1> QED
  BY <1>1, <1>2 DEF Desired, env

\* Everything the environment does is a message that waits, or silent.
LEMMA EnvironmentStirs == TypeOK /\ Environment => ~ Calm'
BY DEF TypeOK, Environment, LoseLink, LinkAppears, ListChanges, StaticChanges, HookRuns,
       DhclientRoutes, Announced, Unannounced, Calm

\* A call that fails ends the calm, and nothing but reading a message or
\* starting afresh brings it.
LEMMA FailsStirs == TypeOK /\ Fails => ~ Calm'
BY BoundsAssumption DEF TypeOK, Fails, Calm

LEMMA ReconcileKnows ==
    ASSUME Steady, RightInv, TypeOK', MemoryInv', Reconcile, Calm'
    PROVE  Known'
<1>1. ~ Fails /\ UNCHANGED <<env, event, running, silent>>
  BY FailsStirs DEF RightInv, Reconcile, Resolve, CheckSentinel, Select, SelectStatic,
     Install, Add, Change, Withdraw, DeleteRoute, kernel, past, local
<1>2. Desired' = Desired /\ Sentinel' = Sentinel
  BY <1>1, DesiredStays, SentinelStays
<1>3. SelectRouter(list)' = SelectRouter(list)
  BY <1>1 DEF env, SelectRouter, Examine, Keeps
<1> USE <1>1 DEF kernel, env, local, record, past
<1>4. faults' = faults => Known
  BY DEF RightInv, FreshInv, Calm
<1>5. CASE Resolve
  <2>1. CASE up
    BY <1>5, <2>1 DEF Resolve, Known, Live
  <2>2. CASE ~ up
    <3>1. pc' = "loop" /\ ~ Ours(fib) /\ fib' = fib /\ Desired = NoGw
      BY <1>5, <2>2 DEF Resolve, RightInv, MemoryInv, Desired
    <3> QED
      BY <1>2, <3>1 DEF Known, Right, Ours
  <2> QED
    BY <2>1, <2>2
<1>6. CASE CheckSentinel
  <2>1. faults' = faults /\ Live /\ Live'
    BY <1>4, <1>6 DEF CheckSentinel, Known, Live
  <2>2. CASE Sentinel
    BY <1>2, <1>6, <2>1, <2>2 DEF CheckSentinel, Known
  <2>3. CASE ~ Sentinel
    <3>1. Desired = NoGw
      BY <2>3 DEF Desired
    <3> QED
      BY <1>2, <1>6, <2>1, <2>3, <3>1 DEF CheckSentinel, Known
  <2> QED
    BY <2>2, <2>3
<1>7. CASE Select
  <2>1. faults' = faults /\ Live /\ Live' /\ Sentinel
    BY <1>4, <1>7 DEF Select, Known, Live
  <2>2. gw' = SelectRouter(list)
    BY <1>7, <2>1 DEF Select, DefaultRouters
  <2>3. gw' # NoGw => gw' = Desired
    BY <2>1, <2>2 DEF Desired, Live
  <2> QED
    BY <1>2, <1>3, <1>7, <2>1, <2>2, <2>3 DEF Select, Known
<1>8. CASE SelectStatic
  <2>1. faults' = faults /\ Live /\ Live' /\ Sentinel /\ SelectRouter(list) = NoGw
    BY <1>4, <1>8 DEF SelectStatic, Known, Live
  <2>2. gw' = static /\ gw' = Desired
    BY <1>8, <2>1 DEF SelectStatic, Desired, Live
  <2> QED
    BY <1>2, <1>8, <2>1, <2>2 DEF SelectStatic, Known
<1>9. CASE Install
  <2>1. faults' = faults /\ Live /\ Live' /\ gw = Desired /\ gw # NoGw
    BY <1>4, <1>9 DEF Install, Known, Live, RightInv, TypeOK
  <2>2. ~ Unnoticed
    BY <2>1, WantedNoticed DEF RightInv
  <2>3. CASE installed
    <3>1. fib = Entry /\ fib # NoRoute /\ fib' = fib /\ ifindex = gen
      BY <1>9, <2>1, <2>2, <2>3, EntryIsRoute DEF Unnoticed, RightInv, Install, Live
    <3>2. installedGw = gw => Right'
      BY <1>2, <2>1, <3>1 DEF Entry, Right
    <3> QED
      BY <1>2, <1>9, <2>1, <2>3, <3>1, <3>2 DEF Install, Known
  <2>4. CASE ~ installed
    BY <1>2, <1>9, <2>1, <2>4 DEF Install, Known
  <2> QED
    BY <2>3, <2>4
<1>10. CASE Add
  <2>1. faults' = faults
    BY <1>10 DEF Add
  <2>2. Live /\ Live' /\ gw = Desired /\ gw # NoGw /\ gw' = gw
    BY <1>4, <1>10, <2>1 DEF Add, Known, Live, RightInv, TypeOK
  <2>3. CASE fib = NoRoute
    <3>1. Program /\ pc' = "loop"
      BY <1>10, <2>2, <2>3 DEF Add
    <3> QED
      BY <1>2, <2>2, <3>1 DEF Program, Known, Right, Live
  <2>4. CASE fib # NoRoute
    <3>1. pc' = "change" /\ fib' = fib
      BY <1>10, <2>4 DEF Add
    <3> QED
      BY <1>2, <2>2, <2>4, <3>1 DEF Known
  <2> QED
    BY <2>3, <2>4
<1>11. CASE Change
  <2>1. faults' = faults
    BY <1>11 DEF Change
  <2>2. Live /\ gw = Desired /\ gw # NoGw /\ fib # NoRoute
    BY <1>4, <1>11, <2>1 DEF Change, Known, Live, RightInv, TypeOK
  <2>3. Program /\ pc' = "loop"
    BY <1>11, <2>2 DEF Change
  <2> QED
    BY <1>2, <2>2, <2>3 DEF Program, Known, Right, Live
<1>12. CASE Withdraw
  <2>1. faults' = faults /\ pc' = "loop" /\ Desired = NoGw
    BY <1>4, <1>12 DEF Withdraw, DeleteRoute, Known
  <2>2. ~ orphaned'
    BY DEF MemoryInv, Calm, TypeOK
  <2>3. ~ Ours(fib')
    BY <1>12, <2>2, DeleteOwned DEF RightInv, Withdraw
  <2> QED
    BY <1>2, <2>1, <2>3 DEF Known, Right, Ours
<1> QED
  BY <1>5, <1>6, <1>7, <1>8, <1>9, <1>10, <1>11, <1>12 DEF Reconcile

LEMMA StepFresh ==
    ASSUME Steady, RightInv, TypeOK', MemoryInv', [Next]_vars
    PROVE  FreshInv'
<1> SUFFICES ASSUME Calm' PROVE Known'
  BY DEF FreshInv
<1>1. CASE Environment
  BY <1>1, EnvironmentStirs DEF RightInv
<1>2. CASE Reconcile
  BY <1>2, ReconcileKnows
<1>3. CASE Start \/ Timeout \/ Exit \/ (ReadEvent /\ pc' = "resolve")
  <2>1. pc' \in {"resolve", "stopped"}
    BY <1>3 DEF Start, Timeout, Exit
  <2> QED
    BY <2>1 DEF Known
<1>4. CASE Crash
  BY <1>4, FailsStirs DEF RightInv, Crash
<1>5. CASE Loop \/ Signal \/ (ReadEvent /\ pc' # "resolve") \/ UNCHANGED vars
  <2>1. UNCHANGED <<env, fib, event, ifindex, silent, faults>>
    BY <1>5 DEF Loop, Signal, ReadEvent, vars, kernel, env, local, past
  <2>2. Known
    BY <2>1 DEF RightInv, FreshInv, Calm
  <2>3. \/ pc' \in {"resolve", "exit"}
        \/ pc \in {"loop", "poll"} /\ pc' \in {"loop", "poll"}
        \/ pc' = pc /\ gw' = gw
    BY <1>5 DEF Loop, Signal, ReadEvent, vars, local
  <2>4. Desired' = Desired /\ Sentinel' = Sentinel
    BY <2>1, DesiredStays, SentinelStays
  <2>5. SelectRouter(list)' = SelectRouter(list)
    BY <2>1 DEF env, SelectRouter, Examine, Keeps
  <2>6. Live' = Live /\ Right' = Right
    BY <2>1, <2>4 DEF env, Live, Right, Ours
  <2>7. CASE pc' \in {"resolve", "exit"}
    BY <2>7 DEF Known
  <2>8. CASE pc \in {"loop", "poll"} /\ pc' \in {"loop", "poll"}
    BY <2>2, <2>6, <2>8 DEF Known
  <2>9. CASE pc' = pc /\ gw' = gw
    BY <2>1, <2>2, <2>4, <2>5, <2>6, <2>9 DEF Known
  <2> QED
    BY <2>3, <2>7, <2>8, <2>9
<1> QED
  BY <1>1, <1>2, <1>3, <1>4, <1>5 DEF Next, Daemon

(* "Reconciliation is idempotent and re-reads full state": a daemon that   *)
(* rests after announced changes, none of whose calls failed, has taken    *)
(* over the default route exactly when it should, through the router it    *)
(* should (main's loop, reconcile).  In the modes whose sentinel is not    *)
(* the default route itself.                                               *)
THEOREM RouteFollowsAtRest == ASSUME Steady PROVE Spec => []RouteFollows
<1>1. Init => NoticedInv /\ FreshInv
  BY DEF Init, NoticedInv, Unnoticed, FreshInv, Known
<1>2. TypeOK /\ OwnedInv /\ MemoryInv /\ NoticedInv /\ FreshInv /\ TypeOK' /\ MemoryInv'
        /\ [Next]_vars => NoticedInv' /\ FreshInv'
  BY StepNoticed, StepFresh DEF RightInv
<1>3. FreshInv => RouteFollows
  BY DEF FreshInv, Calm, Known, Right, RouteFollows, AtRest
<1> QED
  BY <1>1, <1>2, <1>3, TypeCorrect, OwnedAlways, MemoryAlways, PTL DEF Spec

=============================================================================
