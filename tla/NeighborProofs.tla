--------------------------- MODULE NeighborProofs ---------------------------
(***************************************************************************)
(* NeighborDaemons for every set of networks, routers and addresses, every *)
(* gate, and every number of moves and failing calls.                      *)
(***************************************************************************)
EXTENDS NeighborDaemons, SequenceTheorems, WellFoundedInduction, TLAPS

USE NonesAssumption

-----------------------------------------------------------------------------
(* The type invariant. *)

(* A set of natural numbers has a least element, which Min chooses.        *)
LEMMA MinOfNats ==
    ASSUME NEW S \in SUBSET Nat, S # {}
    PROVE  Min(S) \in S
<1> DEFINE less == OpToRel(<, Nat)
<1>1. IsWellFoundedOn(less, Nat)
  BY NatLessThanWellFounded
<1>2. PICK x \in S : \A y \in S : ~ (<<y, x>> \in less)
  <2> HIDE DEF less
  <2> QED
    BY <1>1, WFMin
<1>3. ASSUME NEW y \in S, y < x PROVE FALSE
  <2>1. <<y, x>> \in Nat \X Nat /\ <<y, x>>[1] < <<y, x>>[2]
    BY <1>3
  <2>2. <<y, x>> \in less
    BY <2>1 DEF OpToRel
  <2> QED
    BY <2>2, <1>2
<1>4. \A y \in S : x <= y
  BY <1>3
<1> QED
  BY <1>4 DEF Min

(* The router each daemon follows is one of the list, or none.             *)
LEMMA RouterTypes ==
    ASSUME TypeOK
    PROVE  /\ {MacRouter, WinRouter} \subseteq Gws \cup {NoGw}
           /\ PsRouters \subseteq Gws \cup {NoGw}
           /\ LinRouters \subseteq Gws \cup {NoGw}
<1>1. routes \in Seq([gw : Gws, metric : Nat])
  BY DEF TypeOK
<1>2. \A k \in 1..Len(routes) : routes[k] \in [gw : Gws, metric : Nat]
  BY <1>1, ElementOfSeq
<1>3. Len(routes) \in Nat /\ (routes # <<>> => 1 \in 1..Len(routes))
  BY <1>1, LenProperties, EmptySeq
<1>4. MacRouter \in Gws \cup {NoGw}
  BY <1>2, <1>3 DEF MacRouter
<1>5. \A k \in Lowest : routes[k].gw \in Gws
  BY <1>2 DEF Lowest
<1>6. ASSUME routes # <<>> PROVE routes[Min(Lowest)].gw \in Gws
  <2>1. \A k \in 1..Len(routes) : routes[k].metric \in Nat
    BY <1>2
  <2>2. Metrics \in SUBSET Nat /\ Metrics # {}
    BY <2>1, <1>3, <1>6 DEF Metrics
  <2>3. Min(Metrics) \in Metrics
    BY <2>2, MinOfNats
  <2>4. PICK k \in 1..Len(routes) : routes[k].metric = Min(Metrics)
    BY <2>3 DEF Metrics
  <2>5. Lowest \in SUBSET Nat /\ Lowest # {}
    BY <1>3, <2>4 DEF Lowest
  <2> QED
    BY <2>5, <1>5, MinOfNats
<1> QED
  BY <1>4, <1>5, <1>6 DEF WinRouter, PsRouters, LinRouters

(* What else each daemon reads is an address, or none.                     *)
LEMMA ReadingTypes ==
    ASSUME TypeOK
    PROVE  /\ {MacHostMac, WinHostMac, PsHostMac} \subseteq Keys \cup {NoKey}
           /\ pc = "lladdr" =>
                {MacLladdr, WinLladdr, PsLladdr, LinLladdr} \subseteq Macs \cup {NoMac}
           /\ {MacStored, WinStored, PsStored} \subseteq Macs \cup {NoMac}
<1>1. net # NoNet => OwnMac[net] \in Keys
  BY OwnMacAssumption DEF TypeOK
<1>2. {MacHostMac, WinHostMac, PsHostMac} \subseteq Keys \cup {NoKey}
  BY <1>1 DEF MacHostMac, WinHostMac, PsHostMac, HasLuid, Visible
<1>3. pc = "lladdr" => nd[gw] \in Macs \cup {NoMac}
  BY DEF TypeOK
<1>4. hostMac # NoKey => cache[hostMac] \in Macs \cup {NoMac}
  BY DEF TypeOK
<1> QED
  BY <1>2, <1>3, <1>4
     DEF MacLladdr, WinLladdr, PsLladdr, LinLladdr, MacStored, WinStored, PsStored

\* TypeOK in four parts: the host, the place in the code with what it has
\* read, the pin with its record, and the history.
HostType ==
    /\ os \in Oses
    /\ net \in Nets \cup {NoNet}
    /\ sentinel \in BOOLEAN
    /\ routes \in Seq([gw : Gws, metric : Nat])
    /\ nd \in [Gws -> Macs \cup {NoMac}]
    /\ cache \in [Keys -> Macs \cup {NoMac}]

ProcessType ==
    /\ pc \in Steps
    /\ live \in BOOLEAN
    /\ hostMac \in Keys \cup {NoKey}
    /\ pc = "put" => hostMac \in Keys
    /\ gw \in Gws \cup {NoGw}
    /\ pc \in {"lladdr", "put"} => gw \in Gws
    /\ mac \in Macs \cup {NoMac}
    /\ pc \in {"check", "delete", "set", "overwrite", "put"} => mac \in Macs

PinType ==
    /\ entry \in [mac : Macs, static : BOOLEAN] \cup {NoEntry}
    /\ installed \in BOOLEAN
    /\ installedMac \in Macs \cup {NoMac}

PastType ==
    /\ wake \in BOOLEAN
    /\ stop \in BOOLEAN
    /\ torn \in BOOLEAN
    /\ moves \in 0..MaxMoves
    /\ faults \in 0..MaxFaults
    /\ orphaned \in BOOLEAN

LEMMA Parts ==
    /\ TypeOK <=> HostType /\ ProcessType /\ PinType /\ PastType
    /\ TypeOK' <=> HostType' /\ ProcessType' /\ PinType' /\ PastType'
BY DEF TypeOK, HostType, ProcessType, PinType, PastType

(* A failing call is counted within the bound.                             *)
LEMMA FailsType ==
    ASSUME PastType, Fails \/ UNCHANGED faults PROVE faults' \in 0..MaxFaults
BY BoundsAssumption DEF PastType, Fails, MayFail

LEMMA AbandonType ==
    ASSUME PastType, Abandon \/ UNCHANGED orphaned PROVE orphaned' \in BOOLEAN
BY DEF PastType, Abandon

(* What install and reconcile leave when they return, and a dead process.  *)
LEMMA ReturnType ==
    ASSUME ProcessType, UNCHANGED live,
           \/ pc \in {"check", "set", "overwrite"} /\ AfterInstall
           \/ Done
    PROVE  ProcessType'
BY DEF ProcessType, Steps, AfterInstall, Done

LEMMA ForgetType ==
    ASSUME NoMemory, pc' \in {"stopped", "down"}
    PROVE  /\ ProcessType'
           /\ installed' \in BOOLEAN /\ installedMac' \in Macs \cup {NoMac}
BY DEF NoMemory, ProcessType, Steps

LEMMA EntryType ==
    ASSUME NEW m \in Macs, NEW b \in BOOLEAN
    PROVE  EntryOf(m, b) \in [mac : Macs, static : BOOLEAN]
BY DEF EntryOf

LEMMA InitType == Init => TypeOK
<1> SUFFICES ASSUME Init PROVE TypeOK
  OBVIOUS
<1>1. routes \in Seq([gw : Gws, metric : Nat])
  BY EmptySeq DEF Init
<1>2. HostType
  BY <1>1 DEF Init, HostType, NoNd
<1>3. ProcessType /\ PinType
  BY DEF Init, ProcessType, PinType, Steps
<1>4. PastType
  <2>1. 0 \in 0..MaxMoves /\ 0 \in 0..MaxFaults
    BY BoundsAssumption
  <2>2. /\ wake = FALSE /\ stop = FALSE /\ torn = FALSE
        /\ moves = 0 /\ faults = 0 /\ orphaned = FALSE
    BY DEF Init
  <2> QED
    BY <2>1, <2>2 DEF PastType
<1> QED
  BY <1>2, <1>3, <1>4, Parts

LEMMA EnvironmentType == TypeOK /\ Environment => TypeOK'
<1> SUFFICES ASSUME TypeOK, Environment PROVE TypeOK'
  OBVIOUS
<1>1. HostType /\ ProcessType /\ PinType /\ PastType
  BY Parts
<1> USE <1>1
    DEF HostType, ProcessType, PinType, PastType, Elsewhere, local, record,
        place, Announced, NeighborAnnounced
<1>2. CASE Moves
  <2>1. routes' \in Seq([gw : Gws, metric : Nat])
    BY <1>2, EmptySeq DEF Moves
  <2>2. HostType'
    BY <1>2, <2>1 DEF Moves, NoNd
  <2>3. ProcessType' /\ PinType'
    BY <1>2 DEF Moves
  <2>4. PastType'
    BY <1>2, BoundsAssumption DEF Moves
  <2> QED
    BY <2>2, <2>3, <2>4, Parts
<1>3. CASE SentinelChanges
  BY <1>3, Parts DEF SentinelChanges
<1>4. CASE RoutesChange
  <2>1. RouteLists[net] \subseteq Seq([gw : Gws, metric : Nat])
    BY <1>4, RouteListsAssumption DEF RoutesChange
  <2>2. HostType'
    BY <1>4, <2>1 DEF RoutesChange
  <2> QED
    BY <1>4, <2>2, Parts DEF RoutesChange
<1>5. CASE \E g \in Gws : NdChanges(g)
  <2>1. PICK g \in Gws : NdChanges(g)
    BY <1>5
  <2>2. PICK m \in Lladdrs[net][g] \cup {NoMac} : nd' = [nd EXCEPT ![g] = m]
    BY <2>1 DEF NdChanges
  <2>3. m \in Macs \cup {NoMac}
    BY <2>1, <2>2, LladdrsAssumption DEF NdChanges
  <2>4. HostType'
    BY <2>1, <2>2, <2>3 DEF NdChanges
  <2> QED
    BY <2>1, <2>4, Parts DEF NdChanges
<1>6. CASE Flush
  BY <1>6, Parts DEF Flush
<1>7. CASE ArpResolves
  <2>1. MacsOn(net) \subseteq Macs
    BY <1>7, LladdrsAssumption DEF MacsOn, ArpResolves
  <2> QED
    BY <1>7, <2>1, Parts DEF ArpResolves, EntryOf
<1> QED
  BY <1>2, <1>3, <1>4, <1>5, <1>6, <1>7 DEF Environment

LEMMA SharedType ==
    ASSUME TypeOK, NEW open, NEW k \in Keys \cup {NoKey}, NEW m, NEW c,
           pc = "lladdr" => m \in Macs \cup {NoMac},
           c \in Macs \cup {NoMac},
           \/ CheckSentinel(open)
           \/ ReadHostMac(k)
           \/ ReadLladdr(m)
           \/ Lookup(c)
           \/ Put
    PROVE  TypeOK'
<1> USE DEF TypeOK, Steps, local, record, place, past
<1>1. CASE CheckSentinel(open)
  BY <1>1 DEF CheckSentinel
<1>2. CASE ReadHostMac(k)
  BY <1>2 DEF ReadHostMac
<1>3. CASE ReadLladdr(m)
  BY <1>3 DEF ReadLladdr
<1>4. CASE Lookup(c)
  BY <1>4 DEF Lookup
<1>5. CASE Put
  <2>1. faults' \in 0..MaxFaults
    BY <1>5, Parts, FailsType DEF Put
  <2> QED
    BY <1>5, <2>1 DEF Put, Done
<1> QED
  BY <1>1, <1>2, <1>3, <1>4, <1>5

LEMMA FindRouterType ==
    ASSUME TypeOK, NEW r \in Gws \cup {NoGw}, FindRouter(r) PROVE TypeOK'
BY DEF TypeOK, Steps, record, place, past, FindRouter

LEMMA MacType == TypeOK /\ MacNext => TypeOK'
<1> SUFFICES ASSUME TypeOK, MacNext PROVE TypeOK'
  OBVIOUS
<1>1. HostType /\ ProcessType /\ PinType /\ PastType
  BY Parts
<1> USE <1>1 DEF local, record, place, past, Steps
<1>2. CASE MacResolve
  <2>1. HostType' /\ PinType' /\ PastType'
    BY <1>2 DEF MacResolve, Found, Done, HostType, PinType, PastType
  <2>2. ProcessType'
    BY <1>2 DEF MacResolve, Found, Done, ProcessType
  <2> QED
    BY <2>1, <2>2, Parts
<1>3. CASE \/ CheckSentinel(MacGateOpen)
           \/ ReadHostMac(MacHostMac)
           \/ ReadLladdr(MacLladdr)
           \/ Lookup(MacStored)
           \/ Put
  <2>1. /\ MacHostMac \in Keys \cup {NoKey}
        /\ pc = "lladdr" => MacLladdr \in Macs \cup {NoMac}
        /\ MacStored \in Macs \cup {NoMac}
    BY ReadingTypes
  <2> QED
    BY <1>3, <2>1, SharedType
<1>4. CASE FindRouter(MacRouter)
  BY <1>4, FindRouterType, RouterTypes
<1>5. CASE MacCheck
  <2>1. HostType' /\ PinType' /\ PastType'
    BY <1>5 DEF MacCheck, AfterInstall, Done, HostType, PinType, PastType
  <2>2. ProcessType'
    BY <1>5 DEF MacCheck, AfterInstall, Done, ProcessType
  <2> QED
    BY <2>1, <2>2, Parts
<1>6. CASE MacSet
  <2>1. HostType'
    BY <1>6 DEF MacSet, HostType
  <2>2. ProcessType'
    BY <1>6, ReturnType DEF MacSet, ProcessType
  <2>3. PinType'
    <3>1. mac \in Macs
      BY <1>6 DEF MacSet, ProcessType
    <3>2. EntryOf(mac, TRUE) \in [mac : Macs, static : BOOLEAN]
      BY <3>1, EntryType
    <3> QED
      BY <1>6, <3>1, <3>2 DEF MacSet, PinType
  <2>4. faults' \in 0..MaxFaults
    BY <1>6, FailsType DEF MacSet
  <2>5. PastType'
    BY <1>6, <2>4 DEF MacSet, PastType
  <2> QED
    BY <2>1, <2>2, <2>3, <2>5, Parts
<1>7. CASE MacWithdraw
  <2>1. HostType'
    BY <1>7 DEF MacWithdraw, MacUnpin, HostType
  <2>2. ProcessType'
    BY <1>7, ReturnType DEF MacWithdraw, MacUnpin
  <2>3. PinType'
    BY <1>7 DEF MacWithdraw, MacUnpin, PinType
  <2>4. faults' \in 0..MaxFaults /\ orphaned' \in BOOLEAN
    BY <1>7, FailsType, AbandonType DEF MacWithdraw, MacUnpin
  <2>5. PastType'
    BY <1>7, <2>4 DEF MacWithdraw, MacUnpin, PastType
  <2> QED
    BY <2>1, <2>2, <2>3, <2>5, Parts
<1>8. CASE MacLoop
  <2>1. HostType' /\ PinType' /\ PastType'
    BY <1>8 DEF MacLoop, HostType, PinType, PastType
  <2>2. ProcessType'
    BY <1>8 DEF MacLoop, ProcessType
  <2> QED
    BY <2>1, <2>2, Parts
<1>9. CASE MacPoll
  <2>1. HostType' /\ PinType' /\ PastType'
    BY <1>9 DEF MacPoll, HostType, PinType, PastType
  <2>2. ProcessType'
    BY <1>9 DEF MacPoll, ProcessType
  <2> QED
    BY <2>1, <2>2, Parts
<1>10. CASE MacExit
  <2>1. HostType'
    BY <1>10 DEF MacExit, HostType
  <2>2. /\ ProcessType'
        /\ installed' \in BOOLEAN /\ installedMac' \in Macs \cup {NoMac}
    BY <1>10, ForgetType DEF MacExit
  <2>3. PinType'
    BY <1>10, <2>2 DEF MacExit, PinType
  <2>4. faults' \in 0..MaxFaults /\ orphaned' \in BOOLEAN
    BY <1>10, FailsType, AbandonType DEF MacExit
  <2>5. PastType'
    BY <1>10, <2>4 DEF MacExit, PastType
  <2> QED
    BY <2>1, <2>2, <2>3, <2>5, Parts
<1>11. CASE MacSignal
  <2>1. HostType' /\ PinType' /\ PastType'
    BY <1>11 DEF MacSignal, Alive, HostType, PinType, PastType
  <2>2. ProcessType'
    BY <1>11 DEF MacSignal, Alive, ProcessType
  <2> QED
    BY <2>1, <2>2, Parts
<1> QED
  BY <1>2, <1>3, <1>4, <1>5, <1>6, <1>7, <1>8, <1>9, <1>10, <1>11
     DEF MacNext, MacDaemon, MacReconcile

LEMMA WinType == TypeOK /\ WinNext => TypeOK'
<1> SUFFICES ASSUME TypeOK, WinNext PROVE TypeOK'
  OBVIOUS
<1>1. HostType /\ ProcessType /\ PinType /\ PastType
  BY Parts
<1> USE <1>1 DEF local, record, place, past, Steps
<1>2. CASE WinResolve
  <2>1. HostType' /\ PinType' /\ PastType'
    BY <1>2 DEF WinResolve, Found, Done, HostType, PinType, PastType
  <2>2. ProcessType'
    BY <1>2 DEF WinResolve, Found, Done, ProcessType
  <2> QED
    BY <2>1, <2>2, Parts
<1>3. CASE \/ CheckSentinel(WinGateOpen)
           \/ ReadHostMac(WinHostMac)
           \/ ReadLladdr(WinLladdr)
           \/ Lookup(WinStored)
           \/ Put
  <2>1. /\ WinHostMac \in Keys \cup {NoKey}
        /\ pc = "lladdr" => WinLladdr \in Macs \cup {NoMac}
        /\ WinStored \in Macs \cup {NoMac}
    BY ReadingTypes
  <2> QED
    BY <1>3, <2>1, SharedType
<1>4. CASE FindRouter(WinRouter)
  BY <1>4, FindRouterType, RouterTypes
<1>5. CASE WinCheck
  <2>1. HostType' /\ PinType' /\ PastType'
    BY <1>5 DEF WinCheck, AfterInstall, Done, HostType, PinType, PastType
  <2>2. ProcessType'
    BY <1>5 DEF WinCheck, AfterInstall, Done, ProcessType
  <2> QED
    BY <2>1, <2>2, Parts
<1>6. CASE WinDelete
  <2>1. HostType'
    BY <1>6 DEF WinDelete, HostType
  <2>2. ProcessType'
    BY <1>6, ReturnType DEF WinDelete, ProcessType
  <2>3. PinType'
    <3>1. mac \in Macs
      BY <1>6 DEF WinDelete, ProcessType
    <3>2. EntryOf(mac, TRUE) \in [mac : Macs, static : BOOLEAN]
      BY <3>1, EntryType
    <3> QED
      BY <1>6, <3>1, <3>2 DEF WinDelete, PinType
  <2>4. faults' \in 0..MaxFaults
    BY <1>6, FailsType DEF WinDelete
  <2>5. PastType'
    BY <1>6, <2>4 DEF WinDelete, PastType
  <2> QED
    BY <2>1, <2>2, <2>3, <2>5, Parts
<1>7. CASE WinCreate
  <2>1. HostType'
    BY <1>7 DEF WinCreate, WinPin, WinPinFails, HostType
  <2>2. ProcessType'
    BY <1>7, ReturnType DEF WinCreate, WinPin, WinPinFails, ProcessType
  <2>3. PinType'
    <3>1. mac \in Macs
      BY <1>7 DEF WinCreate, ProcessType
    <3>2. EntryOf(mac, TRUE) \in [mac : Macs, static : BOOLEAN]
      BY <3>1, EntryType
    <3> QED
      BY <1>7, <3>1, <3>2 DEF WinCreate, WinPin, WinPinFails, PinType
  <2>4. faults' \in 0..MaxFaults
    BY <1>7, FailsType DEF WinCreate, WinPin, WinPinFails
  <2>5. PastType'
    BY <1>7, <2>4 DEF WinCreate, WinPin, WinPinFails, PastType
  <2> QED
    BY <2>1, <2>2, <2>3, <2>5, Parts
<1>8. CASE WinOverwrite
  <2>1. HostType'
    BY <1>8 DEF WinOverwrite, WinPin, WinPinFails, HostType
  <2>2. ProcessType'
    BY <1>8, ReturnType DEF WinOverwrite, WinPin, WinPinFails, ProcessType
  <2>3. PinType'
    <3>1. mac \in Macs
      BY <1>8 DEF WinOverwrite, ProcessType
    <3>2. EntryOf(mac, TRUE) \in [mac : Macs, static : BOOLEAN]
      BY <3>1, EntryType
    <3> QED
      BY <1>8, <3>1, <3>2 DEF WinOverwrite, WinPin, WinPinFails, PinType
  <2>4. faults' \in 0..MaxFaults
    BY <1>8, FailsType DEF WinOverwrite, WinPin, WinPinFails
  <2>5. PastType'
    BY <1>8, <2>4 DEF WinOverwrite, WinPin, WinPinFails, PastType
  <2> QED
    BY <2>1, <2>2, <2>3, <2>5, Parts
<1>9. CASE WinWithdraw
  <2>1. HostType'
    BY <1>9 DEF WinWithdraw, WinUnpin, HostType
  <2>2. ProcessType'
    BY <1>9, ReturnType DEF WinWithdraw, WinUnpin
  <2>3. PinType'
    BY <1>9 DEF WinWithdraw, WinUnpin, PinType
  <2>4. faults' \in 0..MaxFaults /\ orphaned' \in BOOLEAN
    BY <1>9, FailsType, AbandonType DEF WinWithdraw, WinUnpin
  <2>5. PastType'
    BY <1>9, <2>4 DEF WinWithdraw, WinUnpin, PastType
  <2> QED
    BY <2>1, <2>2, <2>3, <2>5, Parts
<1>10. CASE WinRegister \/ WinWait
  <2>1. HostType' /\ PinType' /\ PastType'
    BY <1>10 DEF WinRegister, WinWait, HostType, PinType, PastType
  <2>2. ProcessType'
    BY <1>10 DEF WinRegister, WinWait, ProcessType
  <2> QED
    BY <2>1, <2>2, Parts
<1>11. CASE WinExit
  <2>1. HostType'
    BY <1>11 DEF WinExit, WinUnpin, HostType
  <2>2. /\ ProcessType'
        /\ installed' \in BOOLEAN /\ installedMac' \in Macs \cup {NoMac}
    BY <1>11, ForgetType DEF WinExit, WinUnpin
  <2>3. PinType'
    BY <1>11, <2>2 DEF WinExit, WinUnpin, PinType
  <2>4. faults' \in 0..MaxFaults /\ orphaned' \in BOOLEAN
    BY <1>11, FailsType, AbandonType DEF WinExit, WinUnpin
  <2>5. PastType'
    BY <1>11, <2>4 DEF WinExit, WinUnpin, PastType
  <2> QED
    BY <2>1, <2>2, <2>3, <2>5, Parts
<1>12. CASE WinStop
  <2>1. HostType' /\ PinType' /\ PastType'
    BY <1>12 DEF WinStop, Alive, HostType, PinType, PastType
  <2>2. ProcessType'
    BY <1>12 DEF WinStop, Alive, ProcessType
  <2> QED
    BY <2>1, <2>2, Parts
<1> QED
  BY <1>2, <1>3, <1>4, <1>5, <1>6, <1>7, <1>8, <1>9, <1>10, <1>11, <1>12
     DEF WinNext, WinDaemon, WinReconcile

LEMMA PsType == TypeOK /\ PsNext => TypeOK'
<1> SUFFICES ASSUME TypeOK, PsNext PROVE TypeOK'
  OBVIOUS
<1>1. HostType /\ ProcessType /\ PinType /\ PastType
  BY Parts
<1> USE <1>1 DEF local, record, place, past, Steps
<1>2. CASE PsResolve
  <2>1. HostType' /\ PinType' /\ PastType'
    BY <1>2 DEF PsResolve, Found, Done, HostType, PinType, PastType
  <2>2. ProcessType'
    BY <1>2 DEF PsResolve, Found, Done, ProcessType
  <2> QED
    BY <2>1, <2>2, Parts
<1>3. CASE \/ CheckSentinel(PsGateOpen)
           \/ ReadHostMac(PsHostMac)
           \/ ReadLladdr(PsLladdr)
           \/ Lookup(PsStored)
  <2>1. /\ PsHostMac \in Keys \cup {NoKey}
        /\ pc = "lladdr" => PsLladdr \in Macs \cup {NoMac}
        /\ PsStored \in Macs \cup {NoMac}
    BY ReadingTypes
  <2> QED
    BY <1>3, <2>1, SharedType
<1>4. CASE \E r \in PsRouters : FindRouter(r)
  BY <1>4, FindRouterType, RouterTypes
<1>5. CASE PsCheck
  <2>1. HostType' /\ PinType' /\ PastType'
    BY <1>5 DEF PsCheck, AfterInstall, Done, HostType, PinType, PastType
  <2>2. ProcessType'
    BY <1>5 DEF PsCheck, AfterInstall, Done, ProcessType
  <2> QED
    BY <2>1, <2>2, Parts
<1>6. CASE PsDelete
  <2>1. HostType'
    BY <1>6 DEF PsDelete, HostType
  <2>2. ProcessType'
    BY <1>6, ReturnType DEF PsDelete, ProcessType
  <2>3. PinType'
    <3>1. mac \in Macs
      BY <1>6 DEF PsDelete, ProcessType
    <3>2. EntryOf(mac, TRUE) \in [mac : Macs, static : BOOLEAN]
      BY <3>1, EntryType
    <3> QED
      BY <1>6, <3>1, <3>2 DEF PsDelete, PinType
  <2>4. faults' \in 0..MaxFaults
    BY <1>6, FailsType DEF PsDelete
  <2>5. PastType'
    BY <1>6, <2>4 DEF PsDelete, PastType
  <2> QED
    BY <2>1, <2>2, <2>3, <2>5, Parts
<1>7. CASE PsCreate
  <2>1. HostType'
    BY <1>7 DEF PsCreate, HostType
  <2>2. ProcessType'
    BY <1>7, ReturnType DEF PsCreate, ProcessType
  <2>3. PinType'
    <3>1. mac \in Macs
      BY <1>7 DEF PsCreate, ProcessType
    <3>2. EntryOf(mac, TRUE) \in [mac : Macs, static : BOOLEAN]
      BY <3>1, EntryType
    <3> QED
      BY <1>7, <3>1, <3>2 DEF PsCreate, PinType
  <2>4. faults' \in 0..MaxFaults
    BY <1>7, FailsType DEF PsCreate
  <2>5. PastType'
    BY <1>7, <2>4 DEF PsCreate, PastType
  <2> QED
    BY <2>1, <2>2, <2>3, <2>5, Parts
<1>8. CASE PsWithdraw
  <2>1. HostType'
    BY <1>8 DEF PsWithdraw, PsUnpin, HostType
  <2>2. ProcessType'
    BY <1>8, ReturnType DEF PsWithdraw, PsUnpin
  <2>3. PinType'
    BY <1>8 DEF PsWithdraw, PsUnpin, PinType
  <2>4. faults' \in 0..MaxFaults /\ orphaned' \in BOOLEAN
    BY <1>8, FailsType, AbandonType DEF PsWithdraw, PsUnpin
  <2>5. PastType'
    BY <1>8, <2>4 DEF PsWithdraw, PsUnpin, PastType
  <2> QED
    BY <2>1, <2>2, <2>3, <2>5, Parts
<1>9. CASE PsSleep
  <2>1. HostType' /\ PinType' /\ PastType'
    BY <1>9 DEF PsSleep, HostType, PinType, PastType
  <2>2. ProcessType'
    BY <1>9 DEF PsSleep, ProcessType
  <2> QED
    BY <2>1, <2>2, Parts
<1>10. CASE PsExit
  <2>1. HostType'
    BY <1>10 DEF PsExit, PsUnpin, HostType
  <2>2. /\ ProcessType'
        /\ installed' \in BOOLEAN /\ installedMac' \in Macs \cup {NoMac}
    BY <1>10, ForgetType DEF PsExit, PsUnpin
  <2>3. PinType'
    BY <1>10, <2>2 DEF PsExit, PsUnpin, PinType
  <2>4. faults' \in 0..MaxFaults /\ orphaned' \in BOOLEAN
    BY <1>10, FailsType, AbandonType DEF PsExit, PsUnpin
  <2>5. PastType'
    BY <1>10, <2>4 DEF PsExit, PsUnpin, PastType
  <2> QED
    BY <2>1, <2>2, <2>3, <2>5, Parts
<1>11. CASE PsStop
  <2>1. HostType' /\ PinType' /\ PastType'
    BY <1>11 DEF PsStop, HostType, PinType, PastType
  <2>2. ProcessType'
    BY <1>11 DEF PsStop, ProcessType
  <2> QED
    BY <2>1, <2>2, Parts
<1>12. CASE PsPut
  <2>1. faults' \in 0..MaxFaults
    BY <1>12, FailsType DEF PsPut
  <2>2. HostType'
    BY <1>12 DEF PsPut, HostType, ProcessType
  <2>3. ProcessType'
    BY <1>12 DEF PsPut, Done, ProcessType
  <2>4. PinType' /\ PastType'
    BY <1>12, <2>1 DEF PsPut, PinType, PastType
  <2> QED
    BY <2>2, <2>3, <2>4, Parts
<1> QED
  BY <1>2, <1>3, <1>4, <1>5, <1>6, <1>7, <1>8, <1>9, <1>10, <1>11, <1>12
     DEF PsNext, PsDaemon, PsReconcile

LEMMA LinType == TypeOK /\ LinNext => TypeOK'
<1> SUFFICES ASSUME TypeOK, LinNext PROVE TypeOK'
  OBVIOUS
<1>1. HostType /\ ProcessType /\ PinType /\ PastType
  BY Parts
<1> USE <1>1 DEF local, record, place, past, Steps
<1>2. CASE LinResolve
  <2>1. HostType' /\ PinType' /\ PastType'
    BY <1>2 DEF LinResolve, Forgotten, Found, Done, HostType, PinType, PastType
  <2>2. ProcessType'
    BY <1>2 DEF LinResolve, Forgotten, Found, Done, ProcessType
  <2> QED
    BY <2>1, <2>2, Parts
<1>3. CASE LinCheckSentinel \/ \E r \in LinRouters : LinSelect(r)
  <2>1. HostType' /\ PinType' /\ PastType'
    BY <1>3 DEF LinCheckSentinel, LinSelect, HostType, PinType, PastType
  <2>2. ProcessType'
    BY <1>3, RouterTypes DEF LinCheckSentinel, LinSelect, ProcessType
  <2> QED
    BY <2>1, <2>2, Parts
<1>4. CASE LinReadLladdr
  <2>1. HostType' /\ PinType' /\ PastType'
    BY <1>4 DEF LinReadLladdr, Done, HostType, PinType, PastType
  <2>2. LinLladdr \in Macs \cup {NoMac}
    BY <1>4, ReadingTypes DEF LinReadLladdr
  <2>3. ProcessType'
    BY <1>4, <2>2 DEF LinReadLladdr, Done, ProcessType
  <2> QED
    BY <2>1, <2>3, Parts
<1>5. CASE LinCheck
  <2>1. HostType' /\ PinType' /\ PastType'
    BY <1>5 DEF LinCheck, Done, HostType, PinType, PastType
  <2>2. ProcessType'
    BY <1>5 DEF LinCheck, Done, ProcessType
  <2> QED
    BY <2>1, <2>2, Parts
<1>6. CASE LinReplace
  <2>1. HostType'
    BY <1>6 DEF LinReplace, HostType
  <2>2. ProcessType'
    BY <1>6, ReturnType DEF LinReplace, ProcessType
  <2>3. mac \in Macs
    BY <1>6 DEF LinReplace, ProcessType
  <2>4. EntryOf(mac, TRUE) \in [mac : Macs, static : BOOLEAN]
    BY <2>3, EntryType
  <2>5. PinType'
    BY <1>6, <2>3, <2>4 DEF LinReplace, PinType
  <2>6. faults' \in 0..MaxFaults
    BY <1>6, FailsType DEF LinReplace
  <2>7. PastType'
    BY <1>6, <2>6 DEF LinReplace, PastType
  <2> QED
    BY <2>1, <2>2, <2>5, <2>7, Parts
<1>7. CASE LinWithdraw
  <2>1. HostType'
    BY <1>7 DEF LinWithdraw, LinUnpin, HostType
  <2>2. ProcessType'
    BY <1>7, ReturnType DEF LinWithdraw, LinUnpin
  <2>3. PinType'
    BY <1>7 DEF LinWithdraw, LinUnpin, Forgotten, PinType
  <2>4. faults' \in 0..MaxFaults /\ orphaned' \in BOOLEAN
    BY <1>7, FailsType, AbandonType DEF LinWithdraw, LinUnpin
  <2>5. wake' \in BOOLEAN
    BY <1>7 DEF LinWithdraw, PastType
  <2>6. PastType'
    BY <1>7, <2>4, <2>5 DEF LinWithdraw, PastType
  <2> QED
    BY <2>1, <2>2, <2>3, <2>6, Parts
<1>8. CASE LinLoop \/ LinWake
  <2>1. HostType' /\ PinType' /\ PastType'
    BY <1>8 DEF LinLoop, LinWake, HostType, PinType, PastType
  <2>2. ProcessType'
    BY <1>8 DEF LinLoop, LinWake, ProcessType
  <2> QED
    BY <2>1, <2>2, Parts
<1>9. CASE LinExit
  <2>1. HostType'
    BY <1>9 DEF LinExit, LinUnpin, HostType
  <2>2. /\ ProcessType'
        /\ installed' \in BOOLEAN /\ installedMac' \in Macs \cup {NoMac}
    BY <1>9, ForgetType DEF LinExit
  <2>3. PinType'
    BY <1>9, <2>2 DEF LinExit, LinUnpin, PinType
  <2>4. faults' \in 0..MaxFaults /\ orphaned' \in BOOLEAN
    BY <1>9, FailsType, AbandonType DEF LinExit, LinUnpin
  <2>5. PastType'
    BY <1>9, <2>4 DEF LinExit, LinUnpin, PastType
  <2> QED
    BY <2>1, <2>2, <2>3, <2>5, Parts
<1>10. CASE LinSignal
  <2>1. HostType' /\ PinType' /\ PastType'
    BY <1>10 DEF LinSignal, Alive, HostType, PinType, PastType
  <2>2. ProcessType'
    BY <1>10 DEF LinSignal, Alive, ProcessType
  <2> QED
    BY <2>1, <2>2, Parts
<1> QED
  BY <1>2, <1>3, <1>4, <1>5, <1>6, <1>7, <1>8, <1>9, <1>10
     DEF LinNext, LinDaemon, LinReconcile

LEMMA StepType == TypeOK /\ [Next]_vars => TypeOK'
<1> SUFFICES ASSUME TypeOK, [Next]_vars PROVE TypeOK'
  OBVIOUS
<1>1. CASE Start
  <2> USE DEF Start, local, record, place, past
  <2>1. HostType /\ ProcessType /\ PinType /\ PastType
    BY Parts
  <2>2. HostType'
    BY <1>1, <2>1 DEF HostType
  <2>3. ProcessType'
    BY <1>1, <2>1 DEF ProcessType, Steps
  <2>4. PinType' /\ PastType'
    BY <1>1, <2>1 DEF PinType, PastType
  <2> QED
    BY <2>2, <2>3, <2>4, Parts
<1>2. CASE Crash
  <2>1. HostType /\ PinType /\ PastType
    BY Parts
  <2>2. /\ ProcessType'
        /\ installed' \in BOOLEAN /\ installedMac' \in Macs \cup {NoMac}
    BY <1>2, ForgetType DEF Crash
  <2>3. faults' \in 0..MaxFaults /\ orphaned' \in BOOLEAN
    BY <1>2, <2>1, FailsType, AbandonType DEF Crash
  <2> QED
    BY <1>2, <2>1, <2>2, <2>3, Parts DEF Crash, HostType, PinType, PastType, place
<1>3. CASE UNCHANGED vars
  BY <1>3 DEF TypeOK, vars
<1> QED
  BY <1>1, <1>2, <1>3, EnvironmentType, MacType, WinType, PsType, LinType DEF Next

(* The four daemons are type correct ; in particular none pins or stores   *)
(* an address it has not got, and none stores one without an own MAC.      *)
THEOREM TypeCorrect == Spec => []TypeOK
<1>1. Init => TypeOK
  BY InitType
<1>2. TypeOK /\ [Next]_vars => TypeOK'
  BY StepType
<1> QED
  BY <1>1, <1>2, PTL DEF Spec

-----------------------------------------------------------------------------
(* Pins are recorded and removed.                                          *)

\* The entry goes with the interface, of which the Linux daemon that pinned
\* it then still has the index.
Detached ==
    /\ net = NoNet => entry = NoEntry
    /\ Lin /\ Pinned /\ ~ orphaned => live

PinInv == Detached /\ PinRecorded /\ CleanStop

LEMMA InitPin == Init => PinInv
BY DEF Init, PinInv, Detached, PinRecorded, CleanStop, Pinned

LEMMA EnvironmentPin == PinInv /\ Environment => PinInv'
<1> SUFFICES ASSUME PinInv, Environment PROVE PinInv'
  OBVIOUS
<1> USE DEF PinInv, Detached, PinRecorded, CleanStop, Pinned, Elsewhere, local,
            record, place, Ps, Lin
<1>1. CASE Moves
  BY <1>1 DEF Moves
<1>2. CASE SentinelChanges
  BY <1>2 DEF SentinelChanges
<1>3. CASE RoutesChange
  BY <1>3 DEF RoutesChange
<1>4. CASE \E g \in Gws : NdChanges(g)
  BY <1>4 DEF NdChanges
<1>5. CASE Flush
  BY <1>5 DEF Flush
<1>6. CASE ArpResolves
  BY <1>6 DEF ArpResolves, EntryOf
<1> QED
  BY <1>1, <1>2, <1>3, <1>4, <1>5, <1>6 DEF Environment

LEMMA SharedPin ==
    ASSUME PinInv, NEW open, NEW k, NEW m, NEW c,
           \/ CheckSentinel(open)
           \/ ReadHostMac(k)
           \/ ReadLladdr(m)
           \/ Lookup(c)
           \/ Put
    PROVE  PinInv'
<1> USE DEF PinInv, Detached, PinRecorded, CleanStop, Pinned, local, record,
            place, past, Ps, Lin
<1>1. CASE CheckSentinel(open)
  BY <1>1 DEF CheckSentinel
<1>2. CASE ReadHostMac(k)
  BY <1>2 DEF ReadHostMac
<1>3. CASE ReadLladdr(m)
  BY <1>3 DEF ReadLladdr
<1>4. CASE Lookup(c)
  BY <1>4 DEF Lookup
<1>5. CASE Put
  BY <1>5 DEF Put, Done
<1> QED
  BY <1>1, <1>2, <1>3, <1>4, <1>5

LEMMA FindRouterPin ==
    ASSUME PinInv, NEW r, FindRouter(r) PROVE PinInv'
BY DEF PinInv, Detached, PinRecorded, CleanStop, Pinned, record, place, past, Ps,
       Lin, FindRouter

LEMMA MacPin == PinInv /\ MacNext => PinInv'
<1> SUFFICES ASSUME PinInv, Mac, MacNext PROVE PinInv'
  BY DEF MacNext, MacDaemon
<1> USE DEF PinInv, Detached, PinRecorded, CleanStop, Pinned, local, record,
            place, past, Mac, Ps, Lin
<1>1. CASE MacResolve
  BY <1>1 DEF MacResolve, Found, Done
<1>2. CASE \/ CheckSentinel(MacGateOpen)
           \/ ReadHostMac(MacHostMac)
           \/ ReadLladdr(MacLladdr)
           \/ Lookup(MacStored)
           \/ Put
  BY <1>2, SharedPin
<1>3. CASE FindRouter(MacRouter)
  BY <1>3, FindRouterPin
<1>4. CASE MacCheck
  BY <1>4 DEF MacCheck, AfterInstall, Done
<1>5. CASE MacSet
  BY <1>5 DEF MacSet, AfterInstall, Done, EntryOf
<1>6. CASE MacWithdraw
  BY <1>6 DEF MacWithdraw, MacUnpin, Done, Abandon
<1>7. CASE MacLoop \/ MacPoll
  BY <1>7 DEF MacLoop, MacPoll
<1>8. CASE MacExit
  BY <1>8 DEF MacExit, NoMemory, Abandon
<1>9. CASE MacSignal
  BY <1>9 DEF MacSignal, Alive
<1> QED
  BY <1>1, <1>2, <1>3, <1>4, <1>5, <1>6, <1>7, <1>8, <1>9
     DEF MacNext, MacDaemon, MacReconcile

LEMMA WinPinned == PinInv /\ WinNext => PinInv'
<1> SUFFICES ASSUME PinInv, Win, WinNext PROVE PinInv'
  BY DEF WinNext, WinDaemon
<1> USE DEF PinInv, Detached, PinRecorded, CleanStop, Pinned, local, record,
            place, past, Win, Ps, Lin
<1>1. CASE WinResolve
  BY <1>1 DEF WinResolve, Found, Done
<1>2. CASE \/ CheckSentinel(WinGateOpen)
           \/ ReadHostMac(WinHostMac)
           \/ ReadLladdr(WinLladdr)
           \/ Lookup(WinStored)
           \/ Put
  BY <1>2, SharedPin
<1>3. CASE FindRouter(WinRouter)
  BY <1>3, FindRouterPin
<1>4. CASE WinCheck
  BY <1>4 DEF WinCheck, AfterInstall, Done
<1>5. CASE WinDelete
  BY <1>5 DEF WinDelete
<1>6. CASE WinCreate
  BY <1>6 DEF WinCreate, WinPin, WinPinFails, AfterInstall, Done, EntryOf
<1>7. CASE WinOverwrite
  BY <1>7 DEF WinOverwrite, WinPin, WinPinFails, AfterInstall, Done, EntryOf
<1>8. CASE WinWithdraw
  BY <1>8 DEF WinWithdraw, WinUnpin, Done, Abandon
<1>9. CASE WinRegister \/ WinWait
  BY <1>9 DEF WinRegister, WinWait
<1>10. CASE WinExit
  BY <1>10 DEF WinExit, WinUnpin, NoMemory, Abandon
<1>11. CASE WinStop
  BY <1>11 DEF WinStop, Alive
<1> QED
  BY <1>1, <1>2, <1>3, <1>4, <1>5, <1>6, <1>7, <1>8, <1>9, <1>10, <1>11
     DEF WinNext, WinDaemon, WinReconcile

LEMMA PsPin == PinInv /\ PsNext => PinInv'
<1> SUFFICES ASSUME PinInv, Ps, PsNext PROVE PinInv'
  BY DEF PsNext, PsDaemon
<1> USE DEF PinInv, Detached, PinRecorded, CleanStop, Pinned, local, record,
            place, past, Ps, Lin
<1>1. CASE PsResolve
  BY <1>1 DEF PsResolve, Found, Done
<1>2. CASE \/ CheckSentinel(PsGateOpen)
           \/ ReadHostMac(PsHostMac)
           \/ ReadLladdr(PsLladdr)
           \/ Lookup(PsStored)
  BY <1>2, SharedPin
<1>3. CASE \E r \in PsRouters : FindRouter(r)
  BY <1>3, FindRouterPin
<1>4. CASE PsCheck
  BY <1>4 DEF PsCheck, AfterInstall, Done
<1>5. CASE PsDelete
  BY <1>5 DEF PsDelete
<1>6. CASE PsCreate
  BY <1>6 DEF PsCreate, AfterInstall, Done, Visible
<1>7. CASE PsWithdraw
  BY <1>7 DEF PsWithdraw, PsUnpin, Done
<1>8. CASE PsSleep
  BY <1>8 DEF PsSleep
<1>9. CASE PsExit
  BY <1>9 DEF PsExit, PsUnpin, NoMemory
<1>10. CASE PsStop
  BY <1>10 DEF PsStop
<1>11. CASE PsPut
  BY <1>11 DEF PsPut, Done
<1> QED
  BY <1>1, <1>2, <1>3, <1>4, <1>5, <1>6, <1>7, <1>8, <1>9, <1>10, <1>11
     DEF PsNext, PsDaemon, PsReconcile

LEMMA LinPin == PinInv /\ LinNext => PinInv'
<1> SUFFICES ASSUME PinInv, Lin, LinNext PROVE PinInv'
  BY DEF LinNext, LinDaemon
<1> USE DEF PinInv, Detached, PinRecorded, CleanStop, Pinned, local, record,
            place, past, Lin, Ps
<1>1. CASE LinResolve
  BY <1>1 DEF LinResolve, Forgotten, Found, Done
<1>2. CASE LinCheckSentinel \/ \E r \in LinRouters : LinSelect(r)
  BY <1>2 DEF LinCheckSentinel, LinSelect
<1>3. CASE LinReadLladdr
  BY <1>3 DEF LinReadLladdr, Done
<1>4. CASE LinCheck
  BY <1>4 DEF LinCheck, Done
<1>5. CASE LinReplace
  BY <1>5 DEF LinReplace, Done, EntryOf, Visible
<1>6. CASE LinWithdraw
  BY <1>6 DEF LinWithdraw, LinUnpin, Forgotten, Done, Abandon, Visible
<1>7. CASE LinLoop \/ LinWake
  BY <1>7 DEF LinLoop, LinWake
<1>8. CASE LinExit
  BY <1>8 DEF LinExit, LinUnpin, NoMemory, Abandon, Visible
<1>9. CASE LinSignal
  BY <1>9 DEF LinSignal, Alive
<1> QED
  BY <1>1, <1>2, <1>3, <1>4, <1>5, <1>6, <1>7, <1>8, <1>9
     DEF LinNext, LinDaemon, LinReconcile

LEMMA StepPin == PinInv /\ [Next]_vars => PinInv'
<1> SUFFICES ASSUME PinInv, [Next]_vars PROVE PinInv'
  OBVIOUS
<1> USE DEF PinInv, Detached, PinRecorded, CleanStop, Pinned
<1>1. CASE Start
  BY <1>1 DEF Start, local, record, place, past, Ps, Lin
<1>2. CASE Crash
  BY <1>2 DEF Crash, NoMemory, Abandon, place, Ps, Lin
<1>3. CASE UNCHANGED vars
  BY <1>3 DEF vars, Ps, Lin
<1> QED
  BY <1>1, <1>2, <1>3, EnvironmentPin, MacPin, WinPinned, PsPin, LinPin DEF Next

LEMMA PinAlways == Spec => []PinInv
<1>1. Init => PinInv
  BY InitPin
<1>2. PinInv /\ [Next]_vars => PinInv'
  BY StepPin
<1> QED
  BY <1>1, <1>2, PTL DEF Spec

(* No daemon that keeps a record loses track of a pin it made, unless it   *)
(* was killed or the delete failed (install and withdraw).                 *)
THEOREM PinAlwaysRecorded == Spec => []PinRecorded
<1>1. PinInv => PinRecorded
  BY DEF PinInv
<1> QED
  BY <1>1, PinAlways, PTL

(* However it is stopped, a daemon leaves no pin (the withdraw after the   *)
(* loop, the finally block), with the same exceptions.                     *)
THEOREM StopIsClean == Spec => []CleanStop
<1>1. PinInv => CleanStop
  BY DEF PinInv
<1> QED
  BY <1>1, PinAlways, PTL

-----------------------------------------------------------------------------
(* The cache is true.                                                      *)

\* Where mac is what router_lladdr gave, if there is a router.
Readings == {"check", "delete", "set", "overwrite", "put"}

\* What the ND cache holds was learned on the present network; an address
\* that a router gave is of a network with the own MAC that was read, unless
\* the host moved between the two reads.  Linux reads no own MAC.
FiledInv ==
    /\ \A g \in Gws : nd[g] # NoMac => net # NoNet /\ nd[g] \in Lladdrs[net][g]
    /\ Lin => hostMac = NoKey
    /\ pc = "lookup" => gw = NoGw
    /\ ~ torn /\ pc \in Readings /\ gw # NoGw /\ hostMac # NoKey =>
          mac \in MacsUnder(hostMac)
    /\ CacheTrue

LEMMA InitFiled == Init => FiledInv
BY DEF Init, FiledInv, Readings, CacheTrue, StoredTrue, NoNd

(* What only moves the control, or forgets what was read, keeps it.        *)
LEMMA Keeps ==
    ASSUME FiledInv,
           UNCHANGED <<os, torn, net, nd, cache>>,
           \/ Done
           \/ NoMemory
           \/ /\ UNCHANGED <<hostMac, gw, mac>>
              /\ pc' \in Readings => pc \in Readings
              /\ pc' = "lookup" => pc = "lookup"
    PROVE  FiledInv'
BY DEF FiledInv, Done, NoMemory, CacheTrue, StoredTrue, MacsUnder, MacsOn, Lin

LEMMA EnvironmentFiles == TypeOK /\ FiledInv /\ Environment => FiledInv'
<1> SUFFICES ASSUME TypeOK, FiledInv, Environment PROVE FiledInv'
  OBVIOUS
<1> USE Keeps DEF Elsewhere, local, record, place
<1>1. CASE Moves
  BY <1>1 DEF Moves, NoNd, FiledInv, CacheTrue, StoredTrue, MacsUnder, MacsOn, Lin
<1>2. CASE SentinelChanges
  BY <1>2 DEF SentinelChanges
<1>3. CASE RoutesChange
  BY <1>3 DEF RoutesChange
<1>4. CASE \E g \in Gws : NdChanges(g)
  <2>1. PICK g \in Gws : NdChanges(g)
    BY <1>4
  <2>2. PICK m \in Lladdrs[net][g] \cup {NoMac} : nd' = [nd EXCEPT ![g] = m]
    BY <2>1 DEF NdChanges
  <2>3. net # NoNet /\ UNCHANGED <<os, torn, net, cache, pc, hostMac, gw, mac>>
    BY <2>1 DEF NdChanges
  <2>4. \A h \in Gws : nd'[h] = IF h = g THEN m ELSE nd[h]
    BY <2>2 DEF TypeOK
  <2> QED
    BY <2>2, <2>3, <2>4 DEF FiledInv, CacheTrue, StoredTrue, MacsUnder, MacsOn, Lin
<1>5. CASE Flush
  BY <1>5 DEF Flush
<1>6. CASE ArpResolves
  BY <1>6 DEF ArpResolves
<1> QED
  BY <1>1, <1>2, <1>3, <1>4, <1>5, <1>6 DEF Environment

(* An address a router gave is stored where it belongs.                    *)
LEMMA StoreKeeps ==
    ASSUME TypeOK, FiledInv, pc = "put", Done, UNCHANGED <<os, torn, net, nd>>,
           cache' = [cache EXCEPT ![hostMac] = mac]
    PROVE  FiledInv'
<1>1. hostMac \in Keys /\ gw # NoGw /\ (torn \/ mac \in MacsUnder(hostMac))
  BY NonesAssumption DEF TypeOK, FiledInv, Readings
<1>2. \A k \in Keys : cache'[k] = IF k = hostMac THEN mac ELSE cache[k]
  BY DEF TypeOK
<1>3. CacheTrue'
  BY <1>1, <1>2 DEF FiledInv, CacheTrue, StoredTrue, MacsUnder, MacsOn
<1> QED
  BY <1>3 DEF Done, FiledInv, Readings, Lin

(* The address of a router is read from the ND cache.                      *)
LEMMA ReadingsAreLocal ==
    {MacLladdr, WinLladdr, PsLladdr} \subseteq {NoMac, nd[gw]}
BY DEF MacLladdr, WinLladdr, PsLladdr

LEMMA SharedFiles ==
    ASSUME TypeOK, FiledInv, ~ Lin, NEW open, NEW k, NEW m, NEW c,
           pc = "lladdr" => m \in {NoMac, nd[gw]},
           \/ CheckSentinel(open)
           \/ ReadHostMac(k)
           \/ ReadLladdr(m)
           \/ Lookup(c)
           \/ Put
    PROVE  FiledInv'
<1> USE DEF Readings, local, record, place, past
<1>1. CASE CheckSentinel(open)
  BY <1>1, Keeps DEF CheckSentinel
<1>2. CASE ReadHostMac(k)
  BY <1>2 DEF ReadHostMac, FiledInv, CacheTrue, StoredTrue, MacsUnder, MacsOn, Lin
<1>3. CASE ReadLladdr(m)
  <2>1. CASE m = NoMac
    BY <1>3, <2>1 DEF ReadLladdr, FiledInv, CacheTrue, StoredTrue, MacsUnder, MacsOn, Lin
  <2>2. CASE m # NoMac
    <3>1. /\ gw \in Gws /\ mac' = nd[gw] /\ nd[gw] # NoMac
          /\ pc' = "check"
          /\ torn' = (torn \/ hostMac \notin {NoKey, OwnMac[net]})
          /\ UNCHANGED <<os, net, nd, cache, hostMac, gw>>
      BY <1>3, <2>2 DEF ReadLladdr, TypeOK
    <3>2. net # NoNet /\ mac' \in Lladdrs[net][gw]
      BY <3>1 DEF FiledInv
    <3>3. net \in Nets /\ mac' \in Macs /\ mac' \in MacsOn(net)
      BY <3>1, <3>2 DEF MacsOn, TypeOK
    <3>4. ~ torn' /\ hostMac # NoKey => mac' \in MacsUnder(hostMac)
      BY <3>1, <3>3 DEF MacsUnder
    <3>5. ~ torn' => ~ torn
      BY <3>1
    <3> QED
      BY <3>1, <3>4, <3>5 DEF FiledInv, CacheTrue, StoredTrue, MacsUnder, MacsOn, Lin
  <2> QED
    BY <2>1, <2>2
<1>4. CASE Lookup(c)
  BY <1>4 DEF Lookup, FiledInv, CacheTrue, StoredTrue, MacsUnder, MacsOn, Lin
<1>5. CASE Put
  BY <1>5, StoreKeeps, Keeps DEF Put
<1> QED
  BY <1>1, <1>2, <1>3, <1>4, <1>5

LEMMA FindRouterFiles ==
    ASSUME FiledInv, NEW r, FindRouter(r) PROVE FiledInv'
BY DEF FindRouter, FiledInv, CacheTrue, StoredTrue, MacsUnder, MacsOn, Readings, Lin,
       record, place, past

LEMMA MacFiles == TypeOK /\ FiledInv /\ MacNext => FiledInv'
<1> SUFFICES ASSUME TypeOK, FiledInv, Mac, MacNext PROVE FiledInv'
  BY DEF MacNext, MacDaemon
<1> USE Keeps DEF Readings, local, record, place, past
<1>1. CASE MacResolve
  BY <1>1 DEF MacResolve, Found
<1>2. CASE \/ CheckSentinel(MacGateOpen)
           \/ ReadHostMac(MacHostMac)
           \/ ReadLladdr(MacLladdr)
           \/ Lookup(MacStored)
           \/ Put
  <2>1. MacLladdr \in {NoMac, nd[gw]} /\ ~ Lin
    BY ReadingsAreLocal DEF Mac, Lin
  <2> QED
    BY <1>2, <2>1, SharedFiles
<1>3. CASE FindRouter(MacRouter)
  BY <1>3, FindRouterFiles
<1>4. CASE MacCheck
  BY <1>4 DEF MacCheck, AfterInstall
<1>5. CASE MacSet
  BY <1>5 DEF MacSet, AfterInstall
<1>6. CASE MacWithdraw
  BY <1>6 DEF MacWithdraw, MacUnpin
<1>7. CASE MacLoop
  BY <1>7 DEF MacLoop
<1>8. CASE MacPoll
  BY <1>8 DEF MacPoll
<1>9. CASE MacExit
  BY <1>9 DEF MacExit
<1>10. CASE MacSignal
  BY <1>10 DEF MacSignal
<1> QED
  BY <1>1, <1>2, <1>3, <1>4, <1>5, <1>6, <1>7, <1>8, <1>9, <1>10
     DEF MacNext, MacDaemon, MacReconcile

LEMMA WinFiles == TypeOK /\ FiledInv /\ WinNext => FiledInv'
<1> SUFFICES ASSUME TypeOK, FiledInv, Win, WinNext PROVE FiledInv'
  BY DEF WinNext, WinDaemon
<1> USE Keeps DEF Readings, local, record, place, past
<1>1. CASE WinResolve
  BY <1>1 DEF WinResolve, Found
<1>2. CASE \/ CheckSentinel(WinGateOpen)
           \/ ReadHostMac(WinHostMac)
           \/ ReadLladdr(WinLladdr)
           \/ Lookup(WinStored)
           \/ Put
  <2>1. WinLladdr \in {NoMac, nd[gw]} /\ ~ Lin
    BY ReadingsAreLocal DEF Win, Lin
  <2> QED
    BY <1>2, <2>1, SharedFiles
<1>3. CASE FindRouter(WinRouter)
  BY <1>3, FindRouterFiles
<1>4. CASE WinCheck
  BY <1>4 DEF WinCheck, AfterInstall
<1>5. CASE WinDelete
  BY <1>5 DEF WinDelete
<1>6. CASE WinCreate
  BY <1>6 DEF WinCreate, WinPin, WinPinFails, AfterInstall
<1>7. CASE WinOverwrite
  BY <1>7 DEF WinOverwrite, WinPin, WinPinFails, AfterInstall
<1>8. CASE WinWithdraw
  BY <1>8 DEF WinWithdraw
<1>9. CASE WinRegister \/ WinWait
  BY <1>9 DEF WinRegister, WinWait
<1>10. CASE WinExit
  BY <1>10 DEF WinExit
<1>11. CASE WinStop
  BY <1>11 DEF WinStop
<1> QED
  BY <1>1, <1>2, <1>3, <1>4, <1>5, <1>6, <1>7, <1>8, <1>9, <1>10, <1>11
     DEF WinNext, WinDaemon, WinReconcile

LEMMA PsFiles == TypeOK /\ FiledInv /\ PsNext => FiledInv'
<1> SUFFICES ASSUME TypeOK, FiledInv, Ps, PsNext PROVE FiledInv'
  BY DEF PsNext, PsDaemon
<1> USE Keeps DEF Readings, local, record, place, past
<1>1. CASE PsResolve
  BY <1>1 DEF PsResolve, Found
<1>2. CASE \/ CheckSentinel(PsGateOpen)
           \/ ReadHostMac(PsHostMac)
           \/ ReadLladdr(PsLladdr)
           \/ Lookup(PsStored)
  <2>1. PsLladdr \in {NoMac, nd[gw]} /\ ~ Lin
    BY ReadingsAreLocal DEF Ps, Lin
  <2> QED
    BY <1>2, <2>1, SharedFiles
<1>3. CASE \E r \in PsRouters : FindRouter(r)
  BY <1>3, FindRouterFiles
<1>4. CASE PsCheck
  BY <1>4 DEF PsCheck, AfterInstall
<1>5. CASE PsDelete
  BY <1>5 DEF PsDelete
<1>6. CASE PsCreate
  BY <1>6 DEF PsCreate, AfterInstall
<1>7. CASE PsWithdraw
  BY <1>7 DEF PsWithdraw
<1>8. CASE PsSleep
  BY <1>8 DEF PsSleep
<1>9. CASE PsExit
  BY <1>9 DEF PsExit
<1>10. CASE PsStop
  BY <1>10 DEF PsStop
<1>11. CASE PsPut
  BY <1>11, StoreKeeps DEF PsPut
<1> QED
  BY <1>1, <1>2, <1>3, <1>4, <1>5, <1>6, <1>7, <1>8, <1>9, <1>10, <1>11
     DEF PsNext, PsDaemon, PsReconcile

LEMMA LinFiles == TypeOK /\ FiledInv /\ LinNext => FiledInv'
<1> SUFFICES ASSUME TypeOK, FiledInv, Lin, LinNext PROVE FiledInv'
  BY DEF LinNext, LinDaemon
<1> USE Keeps DEF Readings, local, record, place, past
<1>1. CASE LinResolve
  BY <1>1 DEF LinResolve, Found
<1>2. CASE LinCheckSentinel
  BY <1>2 DEF LinCheckSentinel
<1>3. CASE \E r \in LinRouters : LinSelect(r)
  BY <1>3 DEF LinSelect, FiledInv, CacheTrue, StoredTrue, MacsUnder, MacsOn, Lin
<1>4. CASE LinReadLladdr
  <2>1. CASE LinLladdr = NoMac
    BY <1>4, <2>1 DEF LinReadLladdr
  <2>2. CASE LinLladdr # NoMac
    BY <1>4, <2>2
       DEF LinReadLladdr, FiledInv, CacheTrue, StoredTrue, MacsUnder, MacsOn, Lin
  <2> QED
    BY <2>1, <2>2
<1>5. CASE LinCheck
  BY <1>5 DEF LinCheck
<1>6. CASE LinReplace
  BY <1>6 DEF LinReplace
<1>7. CASE LinWithdraw
  BY <1>7 DEF LinWithdraw
<1>8. CASE LinLoop \/ LinWake
  BY <1>8 DEF LinLoop, LinWake
<1>9. CASE LinExit
  BY <1>9 DEF LinExit
<1>10. CASE LinSignal
  BY <1>10 DEF LinSignal
<1> QED
  BY <1>1, <1>2, <1>3, <1>4, <1>5, <1>6, <1>7, <1>8, <1>9, <1>10
     DEF LinNext, LinDaemon, LinReconcile

LEMMA StepFiles == TypeOK /\ FiledInv /\ [Next]_vars => FiledInv'
<1> SUFFICES ASSUME TypeOK, FiledInv, [Next]_vars PROVE FiledInv'
  OBVIOUS
<1>1. CASE Start
  BY <1>1, Keeps DEF Start, Readings, local, record, place, past
<1>2. CASE Crash
  BY <1>2, Keeps DEF Crash, place
<1>3. CASE UNCHANGED vars
  BY <1>3, Keeps DEF vars
<1> QED
  BY <1>1, <1>2, <1>3, EnvironmentFiles, MacFiles, WinFiles, PsFiles, LinFiles DEF Next

(* The own-MAC key of the map does what it is for: whatever is moved,      *)
(* killed or fails, an address is stored under an own MAC only if a router *)
(* of a network with that own MAC has it (router_cache_put), unless the    *)
(* host once moved between the two reads of one reconcile.                 *)
THEOREM CacheAlwaysTrue == Spec => []CacheTrue
<1>1. Init => FiledInv
  BY InitFiled
<1>2. TypeOK /\ FiledInv /\ [Next]_vars => FiledInv'
  BY StepFiles
<1>3. FiledInv => CacheTrue
  BY DEF FiledInv
<1> QED
  BY <1>1, <1>2, <1>3, TypeCorrect, PTL DEF Spec

-----------------------------------------------------------------------------
(* What is pinned at rest, when no call failed.                            *)

\* Own MACs tell networks apart.
OwnMacsDiffer == \A m, n \in Nets : OwnMac[m] = OwnMac[n] => m = n

\* The steps of a macOS or Windows reconcile that know the own MAC.
Keyed == {"router", "lladdr", "lookup"} \cup Readings

\* As long as no move is announced, what the daemon has read is of the
\* present network, and so is the pin a reconcile leaves.
PlaceInv ==
    (Mac \/ Win) /\ ~ wake /\ ~ torn /\ faults = 0 =>
        /\ pc \in {"sentinel", "hostmac"} \cup Keyed => net # NoNet
        /\ pc \in Keyed => hostMac = OwnMac[net]
        /\ pc \in Readings => mac \in MacsOn(net)
        /\ pc \in {"put", "loop", "poll"} /\ Pinned /\ ~ orphaned =>
              entry.mac \in MacsOn(net)

\* The Linux daemon stores nothing and, without failures, leaves no pin
\* behind; as long as nothing is announced, what it has read is still so.
AimInv ==
    Lin =>
        /\ \A k \in Keys : cache[k] = NoMac
        /\ faults = 0 => ~ orphaned
        /\ faults = 0 /\ ~ wake =>
              /\ pc \in {"sentinel", "router", "lladdr", "check", "set", "withdraw"} =>
                    Visible
              /\ pc \in {"router", "lladdr", "check", "set"} => LinGateOpen
              /\ pc \in {"lladdr", "check", "set"} => gw \in LinRouters \ {NoGw}
              /\ pc \in {"check", "set"} => mac = nd[gw]
              /\ pc = "withdraw" => ~ LinGateOpen \/ NoGw \in LinRouters
              /\ pc \in {"loop", "poll"} /\ ~ stop => PinRight

LEMMA InitRest == Init => PlaceInv /\ AimInv
BY OwnMacAssumption DEF Init, PlaceInv, AimInv, Keyed, Readings

(* A call that failed stays counted.                                       *)
LEMMA FailsCounts ==
    ASSUME TypeOK, Fails PROVE faults' # 0
BY BoundsAssumption DEF TypeOK, Fails

(* What only moves the control, along one of the four kinds of step.       *)
LEMMA PlaceKeeps ==
    ASSUME PlaceInv,
           UNCHANGED <<os, net, hostMac, mac, entry, orphaned>>,
           ~ wake' /\ ~ torn' /\ faults' = 0 => ~ wake /\ ~ torn /\ faults = 0,
           pc' \in {"sentinel", "hostmac"} \cup Keyed
             => pc \in {"sentinel", "hostmac"} \cup Keyed,
           pc' \in Keyed => pc \in Keyed,
           pc' \in Readings => pc \in Readings,
           pc' \in {"put", "loop", "poll"} => pc \in {"put", "loop", "poll"}
    PROVE  PlaceInv'
BY DEF PlaceInv, Mac, Win, Pinned, MacsOn

LEMMA EnvironmentPlace == PlaceInv /\ Environment => PlaceInv'
<1> SUFFICES ASSUME PlaceInv, Environment PROVE PlaceInv'
  OBVIOUS
<1> USE DEF Elsewhere, local, record, place
<1>1. CASE Moves \/ SentinelChanges \/ RoutesChange
  <2>1. wake' = (os # "powershell") /\ os' = os
    BY <1>1 DEF Moves, SentinelChanges, RoutesChange, Announced
  <2> QED
    BY <2>1 DEF PlaceInv, Mac, Win
<1>2. CASE \E g \in Gws : NdChanges(g)
  <2>1. /\ UNCHANGED <<os, torn, net, pc, hostMac, mac, entry, faults, orphaned>>
        /\ wake' = (wake \/ os = "linux")
    BY <1>2 DEF NdChanges, NeighborAnnounced
  <2>2. ~ wake' => ~ wake
    BY <2>1
  <2> QED
    BY <2>1, <2>2, PlaceKeeps
<1>3. CASE Flush \/ ArpResolves
  <2>1. UNCHANGED <<os, torn, net, pc, hostMac, mac, faults>>
        /\ wake' = (wake \/ os = "linux")
    BY <1>3 DEF Flush, ArpResolves, NeighborAnnounced
  <2>2. ~ Pinned'
    BY <1>3 DEF Flush, ArpResolves, Pinned, EntryOf
  <2>3. ~ wake' => ~ wake
    BY <2>1
  <2> QED
    BY <2>1, <2>2, <2>3 DEF PlaceInv, Mac, Win, MacsOn, Keyed, Readings
<1> QED
  BY <1>1, <1>2, <1>3 DEF Environment

(* What is read on a network is of that network, or remembered of it.      *)
LEMMA SharedPlace ==
    ASSUME OwnMacsDiffer, TypeOK, FiledInv, PlaceInv,
           NEW open, NEW k, NEW r, NEW m, NEW c,
           net # NoNet => k = OwnMac[net],
           m \in {NoMac, nd[gw]},
           hostMac # NoKey => c = cache[hostMac],
           \/ CheckSentinel(open)
           \/ ReadHostMac(k)
           \/ FindRouter(r)
           \/ ReadLladdr(m)
           \/ Lookup(c)
           \/ Put
    PROVE  PlaceInv'
<1> USE DEF local, record, place, past, Keyed, Readings
<1>1. CASE CheckSentinel(open)
  BY <1>1, PlaceKeeps DEF CheckSentinel
<1>2. CASE ReadHostMac(k)
  BY <1>2 DEF ReadHostMac, PlaceInv, Mac, Win
<1>3. CASE FindRouter(r)
  BY <1>3, PlaceKeeps DEF FindRouter
<1>4. CASE ReadLladdr(m)
  <2>1. /\ pc = "lladdr" /\ gw \in Gws
        /\ ~ torn' => ~ torn
        /\ UNCHANGED <<os, net, hostMac, entry, wake, faults, orphaned>>
    BY <1>4 DEF ReadLladdr, TypeOK
  <2>2. CASE m = NoMac
    BY <1>4, <2>1, <2>2 DEF ReadLladdr, PlaceInv, Mac, Win
  <2>3. CASE m # NoMac
    <3>1. mac' = nd[gw] /\ nd[gw] # NoMac /\ pc' = "check"
      BY <1>4, <2>3 DEF ReadLladdr
    <3>2. mac' \in MacsOn(net)
      BY <2>1, <3>1 DEF FiledInv, MacsOn
    <3>3. MacsOn(net') = MacsOn(net)
      BY <2>1
    <3> QED
      BY <2>1, <3>1, <3>2, <3>3 DEF PlaceInv, Mac, Win
  <2> QED
    BY <2>2, <2>3
<1>5. CASE Lookup(c)
  <2>1. pc = "lookup" /\ mac' = c
        /\ UNCHANGED <<os, torn, net, hostMac, entry, wake, faults, orphaned>>
    BY <1>5 DEF Lookup
  <2>2. CASE c = NoMac
    BY <1>5, <2>1, <2>2 DEF Lookup, PlaceInv, Mac, Win
  <2>3. CASE c # NoMac
    <3>1. pc' = "check"
      BY <1>5, <2>3 DEF Lookup
    <3>2. ASSUME Mac \/ Win, ~ wake, ~ torn, faults = 0
          PROVE  net # NoNet /\ hostMac = OwnMac[net] /\ c \in MacsOn(net)
      <4>1. net # NoNet /\ hostMac = OwnMac[net]
        BY <2>1, <3>2 DEF PlaceInv
      <4>2. net \in Nets /\ OwnMac[net] \in Keys
        BY <4>1, OwnMacAssumption DEF TypeOK
      <4>3. c = cache[OwnMac[net]]
        BY <4>1, <4>2
      <4>4. c \in MacsUnder(OwnMac[net])
        BY <2>3, <3>2, <4>2, <4>3 DEF FiledInv, CacheTrue, StoredTrue
      <4> QED
        BY <4>1, <4>2, <4>4 DEF MacsUnder, OwnMacsDiffer
    <3>3. MacsOn(net') = MacsOn(net)
      BY <2>1
    <3> QED
      BY <2>1, <3>1, <3>2, <3>3 DEF PlaceInv, Mac, Win
  <2> QED
    BY <2>2, <2>3
<1>6. CASE Put
  <2>1. ~ wake' /\ ~ torn' /\ faults' = 0 => ~ wake /\ ~ torn /\ faults = 0
    BY <1>6, FailsCounts DEF Put
  <2> QED
    BY <1>6, <2>1 DEF Put, Done, PlaceInv, Mac, Win, MacsOn, Pinned
<1> QED
  BY <1>1, <1>2, <1>3, <1>4, <1>5, <1>6

(* A reconcile ends with the pin it wanted, with none, or with a failure.  *)
LEMMA EndsPlace ==
    ASSUME TypeOK, PlaceInv, UNCHANGED <<os, torn, net>>,
           pc' \in {"put", "loop"},
           pc' = "put" => pc \in Readings /\ UNCHANGED <<hostMac, mac>>,
           wake \/ faults # 0 => wake' \/ faults' # 0,
           \/ wake' \/ torn' \/ faults' # 0
           \/ ~ Pinned' \/ orphaned'
           \/ pc \in Readings /\ entry' = EntryOf(mac, TRUE)
    PROVE  PlaceInv'
<1> SUFFICES ASSUME Mac \/ Win, ~ wake, ~ torn, faults = 0, ~ wake', faults' = 0
             PROVE  /\ pc' = "put" => /\ net # NoNet
                                      /\ hostMac' = OwnMac[net]
                                      /\ mac' \in MacsOn(net)
                    /\ Pinned' /\ ~ orphaned' => entry'.mac \in MacsOn(net)
  BY DEF PlaceInv, Mac, Win, Keyed, Readings, MacsOn
<1>1. pc \in Readings =>
        net # NoNet /\ hostMac = OwnMac[net] /\ mac \in MacsOn(net)
  BY DEF PlaceInv, Keyed
<1> QED
  BY <1>1 DEF EntryOf

LEMMA MacPlace ==
    OwnMacsDiffer /\ TypeOK /\ PinInv /\ FiledInv /\ PlaceInv /\ MacNext => PlaceInv'
<1> SUFFICES ASSUME OwnMacsDiffer, TypeOK, PinInv, FiledInv, PlaceInv, Mac, MacNext
             PROVE  PlaceInv'
  BY DEF MacNext, MacDaemon
<1> USE DEF local, record, place, past
<1>1. CASE MacResolve
  <2>1. CASE net # NoNet
    BY <1>1, <2>1 DEF MacResolve, Found, PlaceInv, Mac, Win, Keyed, Readings
  <2>2. CASE net = NoNet
    <3>1. ~ Pinned
      BY <2>2 DEF PinInv, Detached, Pinned
    <3> QED
      BY <1>1, <2>2, <3>1, EndsPlace DEF MacResolve, Done, Pinned
  <2> QED
    BY <2>1, <2>2
<1>2. CASE \/ CheckSentinel(MacGateOpen)
           \/ ReadHostMac(MacHostMac)
           \/ FindRouter(MacRouter)
           \/ ReadLladdr(MacLladdr)
           \/ Lookup(MacStored)
           \/ Put
  <2>1. /\ net # NoNet => MacHostMac = OwnMac[net]
        /\ MacLladdr \in {NoMac, nd[gw]}
        /\ hostMac # NoKey => MacStored = cache[hostMac]
    BY DEF MacHostMac, MacLladdr, MacStored
  <2> QED
    BY <1>2, <2>1, SharedPlace
<1>3. CASE MacCheck
  <2>1. CASE installed /\ installedMac = mac /\ MacPresent
    BY <1>3, <2>1, EndsPlace DEF MacCheck, AfterInstall, Done, MacPresent, Readings
  <2>2. CASE ~ (installed /\ installedMac = mac /\ MacPresent)
    BY <1>3, <2>2, PlaceKeeps DEF MacCheck, Keyed, Readings
  <2> QED
    BY <2>1, <2>2
<1>4. CASE MacSet
  <2>1. wake' \/ torn' \/ faults' # 0
    <3>1. ~ wake /\ ~ torn /\ faults = 0 => net # NoNet
      BY <1>4 DEF MacSet, PlaceInv, Keyed, Readings
    <3>2. \/ wake' = TRUE
          \/ UNCHANGED wake /\ (IF net # NoNet THEN Fails ELSE UNCHANGED faults)
      BY <1>4 DEF MacSet
    <3>3. UNCHANGED torn
      BY <1>4 DEF MacSet
    <3> QED
      BY <3>1, <3>2, <3>3, FailsCounts
  <2> QED
    BY <2>1 DEF PlaceInv
<1>5. CASE MacWithdraw
  <2>1. wake \/ faults # 0 => wake' \/ faults' # 0
    BY <1>5, FailsCounts DEF MacWithdraw, MacUnpin
  <2>2. faults' # 0 \/ ~ Pinned' \/ orphaned'
    BY <1>5, FailsCounts
       DEF MacWithdraw, MacUnpin, PinInv, PinRecorded, Pinned, Mac, Ps
  <2> QED
    BY <1>5, <2>1, <2>2, EndsPlace DEF MacWithdraw, MacUnpin, Done
<1>6. CASE MacLoop
  BY <1>6, PlaceKeeps DEF MacLoop, Keyed, Readings
<1>7. CASE MacPoll \/ MacExit
  <2>1. pc' \in {"resolve", "stopped"}
    BY <1>7 DEF MacPoll, MacExit
  <2> QED
    BY <2>1 DEF PlaceInv, Keyed, Readings
<1>8. CASE MacSignal
  BY <1>8, PlaceKeeps DEF MacSignal, Keyed, Readings
<1> QED
  BY <1>1, <1>2, <1>3, <1>4, <1>5, <1>6, <1>7, <1>8
     DEF MacNext, MacDaemon, MacReconcile

LEMMA WinPlace ==
    OwnMacsDiffer /\ TypeOK /\ PinInv /\ FiledInv /\ PlaceInv /\ WinNext => PlaceInv'
<1> SUFFICES ASSUME OwnMacsDiffer, TypeOK, PinInv, FiledInv, PlaceInv, Win, WinNext
             PROVE  PlaceInv'
  BY DEF WinNext, WinDaemon
<1> USE DEF local, record, place, past
<1>1. CASE WinResolve
  <2>1. CASE net # NoNet
    BY <1>1, <2>1 DEF WinResolve, Found, PlaceInv, Mac, Win, Keyed, Readings
  <2>2. CASE net = NoNet
    <3>1. ~ Pinned
      BY <2>2 DEF PinInv, Detached, Pinned
    <3> QED
      BY <1>1, <2>2, <3>1, EndsPlace DEF WinResolve, Done, Pinned
  <2> QED
    BY <2>1, <2>2
<1>2. CASE \/ CheckSentinel(WinGateOpen)
           \/ ReadHostMac(WinHostMac)
           \/ FindRouter(WinRouter)
           \/ ReadLladdr(WinLladdr)
           \/ Lookup(WinStored)
           \/ Put
  <2>1. /\ net # NoNet => WinHostMac = OwnMac[net]
        /\ WinLladdr \in {NoMac, nd[gw]}
        /\ hostMac # NoKey => WinStored = cache[hostMac]
    BY DEF WinHostMac, WinLladdr, WinStored, HasLuid
  <2> QED
    BY <1>2, <2>1, SharedPlace
<1>3. CASE WinCheck
  <2>1. CASE installed /\ installedMac = mac /\ WinPresent
    BY <1>3, <2>1, EndsPlace DEF WinCheck, AfterInstall, Done, WinPresent, Readings
  <2>2. CASE ~ (installed /\ installedMac = mac /\ WinPresent)
    BY <1>3, <2>2, PlaceKeeps DEF WinCheck, Keyed, Readings
  <2> QED
    BY <2>1, <2>2
<1>4. CASE WinDelete
  <2>1. faults' = 0 => faults = 0
    BY <1>4, FailsCounts DEF WinDelete
  <2>2. pc = "delete" /\ pc' = "set" /\ UNCHANGED <<os, torn, net, wake, hostMac, mac>>
    BY <1>4 DEF WinDelete
  <2> QED
    BY <2>1, <2>2 DEF PlaceInv, Mac, Win, MacsOn, Keyed, Readings
<1>5. CASE WinCreate \/ WinOverwrite
  <2>1. /\ pc \in {"set", "overwrite"}
        /\ UNCHANGED <<os, torn, net, wake>>
        /\ ~ wake /\ ~ torn /\ faults = 0 => net # NoNet
        /\ faults' = 0 => faults = 0
    BY <1>5, FailsCounts
       DEF WinCreate, WinOverwrite, WinPin, WinPinFails, PlaceInv, Keyed, Readings
  <2>2. CASE WinPin
    BY <2>1, <2>2, EndsPlace DEF WinPin, AfterInstall, Done, Readings
  <2>3. CASE WinPinFails /\ ~ WinPin
    <3>1. wake' \/ torn' \/ faults' # 0 \/ ~ Pinned'
      <4>1. \/ Fails
            \/ net = NoNet /\ UNCHANGED <<wake, faults>>
            \/ entry' = NoEntry
            \/ pc' = "overwrite"
        BY <1>5, <2>3 DEF WinCreate, WinOverwrite, WinPinFails
      <4>2. pc' # "overwrite" /\ UNCHANGED entry
        BY <2>3 DEF WinPinFails, AfterInstall, Done
      <4> QED
        BY <2>1, <4>1, <4>2, FailsCounts DEF Pinned
    <3> QED
      BY <2>1, <2>3, <3>1, EndsPlace DEF WinPinFails, AfterInstall, Done, Readings
  <2>4. CASE pc' = "overwrite" /\ UNCHANGED <<entry, hostMac, gw, mac, record, faults, orphaned>>
    BY <2>1, <2>4, PlaceKeeps DEF Keyed, Readings
  <2> QED
    BY <1>5, <2>2, <2>3, <2>4 DEF WinCreate, WinOverwrite
<1>6. CASE WinWithdraw
  <2>1. faults # 0 => faults' # 0
    BY <1>6, FailsCounts DEF WinWithdraw, WinUnpin
  <2>2. faults' # 0 \/ ~ Pinned' \/ orphaned'
    BY <1>6, FailsCounts
       DEF WinWithdraw, WinUnpin, PinInv, PinRecorded, Pinned, Win, Ps
  <2> QED
    BY <1>6, <2>1, <2>2, EndsPlace DEF WinWithdraw, Done
<1>7. CASE WinRegister \/ WinWait \/ WinExit
  <2>1. pc' \in {"resolve", "exit", "stopped"}
    BY <1>7 DEF WinRegister, WinWait, WinExit
  <2> QED
    BY <2>1 DEF PlaceInv, Keyed, Readings
<1>8. CASE WinStop
  BY <1>8, PlaceKeeps DEF WinStop
<1> QED
  BY <1>1, <1>2, <1>3, <1>4, <1>5, <1>6, <1>7, <1>8
     DEF WinNext, WinDaemon, WinReconcile

\* The daemon of a behaviour stays the same.
LEMMA SameDaemon == [Next]_vars => UNCHANGED os
<1> SUFFICES ASSUME [Next]_vars PROVE UNCHANGED os
  OBVIOUS
<1>1. CASE Environment
  BY <1>1 DEF Environment, Moves, SentinelChanges, RoutesChange, NdChanges, Flush,
              ArpResolves, Elsewhere
<1>2. CASE Start \/ Crash \/ UNCHANGED vars
  BY <1>2 DEF Start, Crash, vars
<1>3. ASSUME NEW open, NEW k, NEW r, NEW m, NEW c,
             \/ CheckSentinel(open) \/ ReadHostMac(k) \/ FindRouter(r)
             \/ ReadLladdr(m) \/ Lookup(c) \/ Put
      PROVE  UNCHANGED os
  BY <1>3 DEF CheckSentinel, ReadHostMac, FindRouter, ReadLladdr, Lookup, Put
<1>4. CASE MacNext
  BY <1>3, <1>4 DEF MacNext, MacDaemon, MacReconcile, MacResolve, MacCheck, MacSet,
              MacWithdraw, MacUnpin, MacLoop, MacPoll, MacExit, MacSignal
<1>5. CASE WinNext
  BY <1>3, <1>5 DEF WinNext, WinDaemon, WinReconcile, WinRegister, WinResolve, WinCheck,
              WinDelete, WinCreate, WinOverwrite, WinWithdraw, WinWait, WinExit, WinStop
<1>6. CASE PsNext
  BY <1>3, <1>6 DEF PsNext, PsDaemon, PsReconcile, PsResolve, PsCheck, PsDelete,
              PsCreate, PsPut, PsWithdraw, PsSleep, PsExit, PsStop
<1>7. CASE LinNext
  BY <1>7 DEF LinNext, LinDaemon, LinReconcile, LinResolve, LinCheckSentinel, LinSelect,
              LinReadLladdr, LinCheck, LinReplace, LinWithdraw, LinLoop, LinWake,
              LinExit, LinSignal
<1> QED
  BY <1>1, <1>2, <1>4, <1>5, <1>6, <1>7 DEF Next

LEMMA StepPlace ==
    OwnMacsDiffer /\ TypeOK /\ PinInv /\ FiledInv /\ PlaceInv /\ [Next]_vars => PlaceInv'
<1> SUFFICES ASSUME OwnMacsDiffer, TypeOK, PinInv, FiledInv, PlaceInv, [Next]_vars
             PROVE  PlaceInv'
  OBVIOUS
<1>1. CASE Start \/ Crash
  <2>1. pc' \in {"starting", "resolve", "down"}
    BY <1>1 DEF Start, Crash
  <2> QED
    BY <2>1 DEF PlaceInv, Keyed, Readings
<1>2. CASE PsNext \/ LinNext
  <2>1. ~ (Mac \/ Win)
    BY <1>2 DEF PsNext, PsDaemon, LinNext, LinDaemon, Ps, Lin, Mac, Win
  <2> QED
    BY <2>1, SameDaemon DEF PlaceInv, Mac, Win
<1>3. CASE UNCHANGED vars
  BY <1>3, PlaceKeeps DEF vars
<1> QED
  BY <1>1, <1>2, <1>3, EnvironmentPlace, MacPlace, WinPlace DEF Next

(* "rather than steer traffic at a stale MAC": with an own MAC for each    *)
(* network, the macOS daemon and the Windows service at rest pin no        *)
(* address of another network, however they were moved about, until a      *)
(* call fails or a move comes between the two reads of one reconcile.      *)
THEOREM NeverStaleMac == ASSUME OwnMacsDiffer PROVE Spec => []NoStaleMac
<1>1. Init => FiledInv /\ PlaceInv
  BY InitFiled, InitRest
<1>2. TypeOK /\ PinInv /\ FiledInv /\ PlaceInv /\ [Next]_vars => FiledInv' /\ PlaceInv'
  BY StepFiles, StepPlace
<1>3. PinInv /\ PlaceInv => NoStaleMac
  BY DEF PinInv, Detached, PlaceInv, NoStaleMac, AtRest, Pinned, Mac, Win, Lin
<1> QED
  BY <1>1, <1>2, <1>3, TypeCorrect, PinAlways, PTL DEF Spec

-----------------------------------------------------------------------------
(* The Linux daemon aims right.                                            *)

LEMMA AimFrame ==
    ASSUME UNCHANGED <<net, sentinel, routes, nd, live>>
    PROVE  /\ Visible' <=> Visible
           /\ LinGateOpen' <=> LinGateOpen
           /\ LinRouters' = LinRouters
BY DEF Visible, LinGateOpen, LinRouters, Lowest, Metrics

(* What PinRight means by the router and the gate on Linux.                *)
LEMMA LinReads ==
    Lin => Followed = LinRouters /\ (GateOpen <=> LinGateOpen)
BY DEF Followed, GateOpen, Lin, Mac, Win, Ps

LEMMA RightFrame ==
    ASSUME Lin, UNCHANGED <<os, net, sentinel, routes, nd, live, cache, entry, orphaned>>,
           PinRight
    PROVE  PinRight'
<1>1. Lin'
  BY DEF Lin
<1>2. /\ Followed = LinRouters /\ (GateOpen <=> LinGateOpen)
      /\ Followed' = LinRouters' /\ (GateOpen' <=> LinGateOpen')
  BY <1>1, LinReads DEF Followed, GateOpen, Lin, Mac, Win, Ps
<1>3. LinRouters' = LinRouters /\ (LinGateOpen' <=> LinGateOpen)
  BY AimFrame
<1>4. \A g : PinFor(g)' = PinFor(g)
  BY DEF PinFor
<1> QED
  BY <1>1, <1>2, <1>3, <1>4 DEF PinRight, Waits, Pinned, Ps, Lin

(* The three ways in which a reconcile may leave the entry as it is.       *)
LEMMA Waiting ==
    ASSUME Lin, LinGateOpen, NEW g \in LinRouters \ {NoGw}, nd[g] = NoMac
    PROVE  PinRight
BY LinReads DEF PinRight, Waits

LEMMA Present ==
    ASSUME Lin, LinGateOpen, NEW g \in LinRouters \ {NoGw}, nd[g] # NoMac,
           entry = EntryOf(nd[g], TRUE)
    PROVE  PinRight
<1>1. PinFor(g) = nd[g]
  BY DEF PinFor
<1> QED
  BY <1>1, LinReads DEF PinRight

LEMMA Absent ==
    ASSUME Lin, TypeOK, \A k \in Keys : cache[k] = NoMac,
           ~ LinGateOpen \/ NoGw \in LinRouters, ~ Pinned
    PROVE  PinRight
<1>1. CASE net = NoNet
  BY <1>1 DEF PinRight
<1>2. CASE net # NoNet
  <2>1. OwnMac[net] \in Keys
    BY <1>2, OwnMacAssumption DEF TypeOK
  <2>2. PinFor(NoGw) = NoMac
    BY <2>1 DEF PinFor
  <2> QED
    BY <2>2, LinReads DEF PinRight
<1> QED
  BY <1>1, <1>2

\* The steps of a Linux reconcile that know the gate to be open.
Aims == {"router", "lladdr", "check", "set"}

LEMMA LinAims == TypeOK /\ PinInv /\ AimInv /\ LinNext => AimInv'
<1> SUFFICES ASSUME TypeOK, PinInv, AimInv, Lin, LinNext PROVE AimInv'
  BY DEF LinNext, LinDaemon
<1> USE DEF local, record, place, past
\* What a step must show when nothing failed and nothing is announced.
<1>1. ASSUME UNCHANGED <<os, cache>>,
             faults' = 0 => faults = 0 /\ UNCHANGED orphaned,
             ~ wake' /\ faults' = 0 =>
               /\ pc' \in {"sentinel", "withdraw"} \cup Aims => Visible'
               /\ pc' \in Aims => LinGateOpen'
               /\ pc' \in {"lladdr", "check", "set"} => gw' \in LinRouters' \ {NoGw}
               /\ pc' \in {"check", "set"} => mac' = nd'[gw']
               /\ pc' = "withdraw" => ~ LinGateOpen' \/ NoGw \in LinRouters'
               /\ pc' \in {"loop", "poll"} /\ ~ stop' => PinRight'
      PROVE  AimInv'
  BY <1>1 DEF AimInv, Lin, Aims
<1>2. CASE LinResolve
  <2>1. CASE net # NoNet
    BY <1>1, <1>2, <2>1 DEF LinResolve, Found, Visible, Aims
  <2>2. CASE net = NoNet
    <3>1. PinRight'
      BY <1>2, <2>2 DEF LinResolve, PinRight
    <3> QED
      BY <1>1, <1>2, <2>2, <3>1 DEF LinResolve, Forgotten, Done, Aims
  <2> QED
    BY <2>1, <2>2
<1>3. CASE LinCheckSentinel
  <2>1. pc = "sentinel" /\ pc' = (IF LinGateOpen THEN "router" ELSE "withdraw")
        /\ UNCHANGED <<os, net, sentinel, routes, nd, cache, live, wake, faults, orphaned>>
    BY <1>3 DEF LinCheckSentinel
  <2> QED
    BY <1>1, <2>1, AimFrame DEF AimInv, Aims
<1>4. ASSUME NEW r \in LinRouters, LinSelect(r) PROVE AimInv'
  <2>1. pc = "router" /\ gw' = r /\ pc' = (IF r = NoGw THEN "withdraw" ELSE "lladdr")
        /\ UNCHANGED <<os, net, sentinel, routes, nd, cache, live, wake, faults, orphaned>>
    BY <1>4 DEF LinSelect
  <2> QED
    BY <1>1, <2>1, AimFrame DEF AimInv, Aims
<1>5. CASE LinReadLladdr
  <2>1. pc = "lladdr" /\ LinLladdr = (IF Visible THEN nd[gw] ELSE NoMac)
        /\ UNCHANGED <<os, net, sentinel, routes, nd, entry, cache, live, wake, stop,
                       faults, orphaned>>
    BY <1>5 DEF LinReadLladdr, LinLladdr
  <2>2. faults = 0 /\ ~ wake =>
          Visible /\ LinGateOpen /\ gw \in LinRouters \ {NoGw}
    BY <2>1 DEF AimInv
  <2>3. CASE LinLladdr = NoMac
    <3>1. faults = 0 /\ ~ wake => PinRight'
      BY <2>1, <2>2, <2>3, Waiting, RightFrame
    <3>2. pc' = "loop"
      BY <1>5, <2>3 DEF LinReadLladdr, Done
    <3> QED
      BY <1>1, <2>1, <3>1, <3>2 DEF Aims
  <2>4. CASE LinLladdr # NoMac
    <3>1. pc' = "check" /\ mac' = nd[gw] /\ UNCHANGED gw
      BY <1>5, <2>1, <2>4 DEF LinReadLladdr
    <3> QED
      BY <1>1, <2>1, <2>2, <3>1, AimFrame DEF Aims
  <2> QED
    BY <2>3, <2>4
<1>6. CASE LinCheck
  <2>1. pc = "check" /\ mac # NoMac
        /\ UNCHANGED <<os, net, sentinel, routes, nd, entry, cache, live, wake, stop,
                       faults, orphaned>>
    BY <1>6 DEF LinCheck, TypeOK
  <2>2. faults = 0 /\ ~ wake =>
          Visible /\ LinGateOpen /\ gw \in LinRouters \ {NoGw} /\ mac = nd[gw]
    BY <2>1 DEF AimInv
  <2>3. CASE installedMac = mac /\ LinPresent
    <3>1. entry = EntryOf(mac, TRUE)
      BY <2>3 DEF LinPresent
    <3>2. faults = 0 /\ ~ wake => PinRight'
      BY <2>1, <2>2, <3>1, Present, RightFrame
    <3>3. pc' = "loop"
      BY <1>6, <2>3 DEF LinCheck, Done
    <3> QED
      BY <1>1, <2>1, <3>2, <3>3 DEF Aims
  <2>4. CASE ~ (installedMac = mac /\ LinPresent)
    <3>1. pc' = "set" /\ UNCHANGED <<gw, mac>>
      BY <1>6, <2>4 DEF LinCheck
    <3> QED
      BY <1>1, <2>1, <2>2, <3>1, AimFrame DEF Aims
  <2> QED
    BY <2>3, <2>4
<1>7. CASE LinReplace
  <2>1. faults' = 0 => faults = 0
    BY <1>7, FailsCounts DEF LinReplace
  <2>2. wake' \/ faults' # 0
    <3>1. ~ wake /\ faults = 0 => Visible
      BY <1>7 DEF LinReplace, AimInv
    <3>2. \/ wake' = TRUE
          \/ UNCHANGED wake /\ (IF Visible THEN Fails ELSE UNCHANGED faults)
      BY <1>7 DEF LinReplace
    <3> QED
      BY <3>1, <3>2, FailsCounts
  <2>3. UNCHANGED <<os, cache>> /\ (orphaned' = FALSE \/ UNCHANGED orphaned)
    BY <1>7 DEF LinReplace
  <2> QED
    BY <2>1, <2>2, <2>3 DEF AimInv, Lin
<1>8. CASE LinWithdraw
  <2>1. pc = "withdraw" /\ pc' = "loop" /\ wake' = (wake \/ entry' # entry)
        /\ UNCHANGED <<os, net, sentinel, routes, nd, cache, live, stop>>
    BY <1>8 DEF LinWithdraw, Done
  <2>2. faults' = 0 => faults = 0 /\ UNCHANGED <<faults, orphaned>>
    BY <1>8, FailsCounts DEF LinWithdraw, LinUnpin
  <2>3. ASSUME ~ wake', faults' = 0 PROVE PinRight'
    <3>1. ~ wake /\ faults = 0 /\ UNCHANGED <<entry, orphaned>>
      BY <2>1, <2>2, <2>3 DEF TypeOK
    <3>2. Visible /\ (~ LinGateOpen \/ NoGw \in LinRouters) /\ ~ orphaned
          /\ \A k \in Keys : cache[k] = NoMac
      BY <2>1, <3>1 DEF AimInv
    <3>3. ~ Pinned
      <4>1. CASE installed /\ Visible /\ entry' = NoEntry
        BY <3>1, <4>1 DEF Pinned
      <4>2. CASE ~ installed
        BY <3>2, <4>2 DEF PinInv, PinRecorded, Ps, Lin
      <4>3. ~ Fails
        BY <2>3, FailsCounts
      <4> QED
        BY <1>8, <3>2, <4>1, <4>2, <4>3 DEF LinWithdraw, LinUnpin
    <3> QED
      BY <2>1, <3>1, <3>2, <3>3, Absent, RightFrame
  <2> QED
    BY <1>1, <2>1, <2>2, <2>3 DEF Aims
<1>9. CASE LinLoop
  <2>1. pc = "loop" /\ pc' = (IF stop THEN "exit" ELSE "poll")
        /\ UNCHANGED <<os, net, sentinel, routes, nd, entry, cache, live, wake, stop,
                       faults, orphaned>>
    BY <1>9 DEF LinLoop
  <2>2. faults = 0 /\ ~ wake /\ ~ stop => PinRight'
    BY <2>1, RightFrame DEF AimInv
  <2> QED
    BY <1>1, <2>1, <2>2 DEF Aims
<1>10. CASE LinWake
  <2>1. pc' = (IF stop THEN "loop" ELSE "resolve")
        /\ UNCHANGED <<os, cache, stop, faults, orphaned>>
    BY <1>10 DEF LinWake
  <2> QED
    BY <1>1, <2>1 DEF Aims
<1>11. CASE LinExit
  <2>1. pc' = "stopped" /\ UNCHANGED <<os, cache>>
    BY <1>11 DEF LinExit
  <2>2. faults' = 0 => faults = 0 /\ UNCHANGED orphaned
    BY <1>11, FailsCounts DEF LinExit, LinUnpin
  <2> QED
    BY <1>1, <2>1, <2>2 DEF Aims
<1>12. CASE LinSignal
  <2>1. wake' /\ UNCHANGED <<os, cache, faults, orphaned>>
    BY <1>12 DEF LinSignal
  <2> QED
    BY <2>1 DEF AimInv, Lin
<1> QED
  BY <1>2, <1>3, <1>4, <1>5, <1>6, <1>7, <1>8, <1>9, <1>10, <1>11, <1>12
     DEF LinNext, LinDaemon, LinReconcile

LEMMA StepAims == TypeOK /\ PinInv /\ AimInv /\ [Next]_vars => AimInv'
<1> SUFFICES ASSUME TypeOK, PinInv, AimInv, [Next]_vars, Lin PROVE AimInv'
  BY SameDaemon DEF AimInv, Lin
<1> USE DEF local, record, place, past
\* rtnetlink announces whatever the host does.
<1>1. CASE Environment
  <2>1. wake' = TRUE /\ UNCHANGED <<os, cache, faults, orphaned>>
    BY <1>1 DEF Environment, Moves, SentinelChanges, RoutesChange, NdChanges, Flush,
                ArpResolves, Announced, NeighborAnnounced, Elsewhere, Lin
  <2> QED
    BY <2>1 DEF AimInv, Lin
<1>2. CASE Start
  <2>1. pc' = "resolve" /\ UNCHANGED <<os, cache, faults, orphaned>>
    BY <1>2 DEF Start, Lin
  <2> QED
    BY <2>1 DEF AimInv, Lin
<1>3. CASE Crash
  <2>1. faults' # 0 /\ UNCHANGED <<os, cache>>
    BY <1>3, FailsCounts DEF Crash
  <2> QED
    BY <2>1 DEF AimInv, Lin
<1>4. CASE MacNext \/ WinNext \/ PsNext
  BY <1>4 DEF MacNext, MacDaemon, WinNext, WinDaemon, PsNext, PsDaemon, Mac, Win, Ps, Lin
<1>5. CASE UNCHANGED vars
  <2>1. AimInv' <=> AimInv
    <3>1. Lin' <=> Lin
      BY <1>5 DEF vars, Lin
    <3>2. PinRight => PinRight'
      BY <1>5, RightFrame DEF vars
    <3> QED
      BY <1>5, <3>1, <3>2, AimFrame DEF vars, AimInv
  <2> QED
    BY <2>1
<1> QED
  BY <1>1, <1>2, <1>3, <1>4, <1>5, LinAims DEF Next

(* The Linux daemon needs no timer: as long as no call fails, in whichever *)
(* order routes, neighbours, the sentinel and the entry change between its *)
(* reads, it never goes to sleep on an entry that is not right.            *)
THEOREM AlwaysRestsRight == Spec => []RestsRight
<1>1. Init => AimInv
  BY InitRest
<1>2. TypeOK /\ PinInv /\ AimInv /\ [Next]_vars => AimInv'
  BY StepAims
<1>3. AimInv => RestsRight
  BY DEF AimInv, RestsRight, AtRest, Lin, Mac
<1> QED
  BY <1>1, <1>2, <1>3, TypeCorrect, PinAlways, PTL DEF Spec
=============================================================================
