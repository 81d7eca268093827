-------------------------- MODULE NeighborFollows --------------------------
(***************************************************************************)
(* The four daemons of NeighborDaemons implement FollowGateway, for every  *)
(* value of the constants: every step is one that FollowGateway allows, or *)
(* leaves pin, record and life of the process as they are.                 *)
(***************************************************************************)
EXTENDS NeighborProofs

\* A process that is not there remembers no pin.
Forgetful == ~ Alive => ~ installed

\* The Linux daemon has the index of the interface it pinned on.
Held == Lin /\ installed /\ Pinned => live

FollowInv == TypeOK /\ Detached /\ Forgetful /\ Held

\* A step of the daemon from start to stop, of whatever pc: the process is
\* there before and after.
Goes == Alive /\ Alive' /\ UNCHANGED os

-----------------------------------------------------------------------------
(* The steps of FollowGateway, as the daemons take them.                   *)

(* Nothing of it changes.                                                  *)
LEMMA Idles ==
    ASSUME UNCHANGED <<os, entry, installed, installedMac, faults>>, Alive' = Alive
    PROVE  UNCHANGED FG!vars
BY DEF FG!vars, Pin, Pinned, Claimed, Ps

(* The address in hand is pinned, and recorded by those that keep a record. *)
LEMMA Takes ==
    ASSUME Goes, mac \in Macs, entry' = EntryOf(mac, TRUE), UNCHANGED faults,
           Ps \/ (installed' /\ installedMac' = mac)
    PROVE  FG!Take
<1>1. entry' # NoEntry /\ entry'.static /\ entry'.mac = mac
  <2>1. EntryOf(mac, TRUE) \in [mac : Macs, static : BOOLEAN]
    BY EntryType
  <2> QED
    BY <2>1, NoEntryAssumption DEF EntryOf
<1>2. Pin' = mac /\ mac # NoMac
  BY <1>1, NonesAssumption DEF Pin, Pinned
<1>3. Claimed' = {mac}
  BY <1>2 DEF Claimed, Ps, Goes
<1> QED
  BY <1>2, <1>3 DEF FG!Take, Goes

(* The entry goes, or is kept with its record.                             *)
LEMMA Releases ==
    ASSUME UNCHANGED <<os, faults>>, Alive' = Alive,
           Pin' \in {Pin, NoMac},
           installed' => installed /\ UNCHANGED installedMac,
           Ps \/ Pin' = NoMac \/ UNCHANGED installed
    PROVE  FG!Release
<1>1. CASE Ps
  BY <1>1 DEF FG!Release, Claimed, Ps
<1>2. CASE ~ Ps
  BY <1>2 DEF FG!Release, Claimed, Ps
<1> QED
  BY <1>1, <1>2

(* A call fails or the process is killed, and the pin is what it was.      *)
LEMMA Suffers ==
    ASSUME UNCHANGED <<os, entry>>, Fails, Alive,
           installed' => installed /\ UNCHANGED installedMac,
           Alive' \/ ~ installed'
    PROVE  FG!Mishap
<1>1. Pin' = Pin
  BY DEF Pin, Pinned
<1> QED
  BY <1>1 DEF FG!Mishap, Fails, Claimed, Ps

(* The process ends, with the pin gone or never its own.                   *)
LEMMA Stops ==
    ASSUME UNCHANGED <<os, faults>>, Alive, ~ Alive', ~ installed',
           Pin' = NoMac \/ (~ Ps /\ ~ installed /\ Pin' = Pin)
    PROVE  FG!Stop
BY DEF FG!Stop, FG!Orphan, Claimed, Ps

(* An address that is not pinned, or no entry, is no pin.                  *)
LEMMA NoPin == (~ Pinned => Pin = NoMac) /\ (entry' = NoEntry => Pin' = NoMac)
BY DEF Pin, Pinned

-----------------------------------------------------------------------------
(* The steps of the daemons.                                               *)

LEMMA EnvironmentFollows == Environment => [FG!Next]_(FG!vars)
<1> SUFFICES ASSUME Environment PROVE FG!Next \/ UNCHANGED FG!vars
  OBVIOUS
<1> USE Idles, Releases, NoPin DEF FG!Next, Elsewhere, local, record, place, Alive
<1>1. CASE Moves
  <2>1. entry' = NoEntry \/ entry' = entry
    BY <1>1 DEF Moves
  <2>2. Pin' \in {Pin, NoMac}
    BY <2>1 DEF Pin, Pinned
  <2> QED
    BY <1>1, <2>2 DEF Moves
<1>2. CASE SentinelChanges
  BY <1>2 DEF SentinelChanges
<1>3. CASE RoutesChange
  BY <1>3 DEF RoutesChange
<1>4. CASE \E g \in Gws : NdChanges(g)
  BY <1>4 DEF NdChanges
<1>5. CASE Flush
  BY <1>5 DEF Flush
<1>6. CASE ArpResolves
  <2>1. Pin' = NoMac
    BY <1>6 DEF ArpResolves, EntryOf, Pin, Pinned
  <2> QED
    BY <1>6, <2>1 DEF ArpResolves
<1> QED
  BY <1>1, <1>2, <1>3, <1>4, <1>5, <1>6 DEF Environment

LEMMA SharedFollows ==
    ASSUME NEW open, NEW k, NEW m, NEW c,
           \/ CheckSentinel(open)
           \/ ReadHostMac(k)
           \/ ReadLladdr(m)
           \/ Lookup(c)
           \/ Put
    PROVE  FG!Next \/ UNCHANGED FG!vars
<1> USE Idles, Suffers DEF FG!Next, local, record, place, past, Alive
<1>1. CASE CheckSentinel(open)
  BY <1>1 DEF CheckSentinel
<1>2. CASE ReadHostMac(k)
  BY <1>2 DEF ReadHostMac
<1>3. CASE ReadLladdr(m)
  BY <1>3 DEF ReadLladdr
<1>4. CASE Lookup(c)
  BY <1>4 DEF Lookup
<1>5. CASE Put
  BY <1>5 DEF Put, Done
<1> QED
  BY <1>1, <1>2, <1>3, <1>4, <1>5

LEMMA FindRouterFollows ==
    ASSUME NEW r, FindRouter(r) PROVE UNCHANGED FG!vars
BY Idles DEF record, place, past, FindRouter, Alive

LEMMA MacFollows == FollowInv /\ MacNext => FG!Next \/ UNCHANGED FG!vars
<1> SUFFICES ASSUME FollowInv, Mac, MacNext PROVE FG!Next \/ UNCHANGED FG!vars
  BY DEF MacNext, MacDaemon
<1> USE Idles, Takes, Releases, Suffers, Stops, NoPin
    DEF FG!Next, local, record, place, past, Alive, Goes
<1>1. CASE MacResolve
  BY <1>1 DEF MacResolve, Found, Done, FollowInv, Detached
<1>2. CASE \/ CheckSentinel(MacGateOpen)
           \/ ReadHostMac(MacHostMac)
           \/ ReadLladdr(MacLladdr)
           \/ Lookup(MacStored)
           \/ Put
  BY <1>2, SharedFollows
<1>3. CASE FindRouter(MacRouter)
  BY <1>3, FindRouterFollows
<1>4. CASE MacCheck
  BY <1>4 DEF MacCheck, AfterInstall, Done
<1>5. CASE MacSet
  <2>1. Goes /\ mac \in Macs
    BY <1>5 DEF MacSet, AfterInstall, Done, FollowInv, TypeOK
  <2>2. \/ /\ entry' = EntryOf(mac, TRUE) /\ UNCHANGED faults
           /\ installed' /\ installedMac' = mac
        \/ UNCHANGED <<entry, record>> /\ (Fails \/ UNCHANGED faults)
    BY <1>5 DEF MacSet
  <2> QED
    BY <2>1, <2>2
<1>6. CASE MacWithdraw
  <2>1. Goes
    BY <1>6 DEF MacWithdraw, MacUnpin, Done
  <2>2. CASE Fails
    BY <1>6, <2>1, <2>2 DEF MacWithdraw, MacUnpin
  <2>3. CASE ~ Fails /\ installed
    BY <1>6, <2>1, <2>3 DEF MacWithdraw, MacUnpin
  <2>4. CASE ~ Fails /\ ~ installed
    BY <1>6, <2>1, <2>4 DEF MacWithdraw, MacUnpin, FollowInv, TypeOK
  <2> QED
    BY <2>2, <2>3, <2>4
<1>7. CASE MacLoop \/ MacPoll
  BY <1>7 DEF MacLoop, MacPoll
<1>8. CASE MacExit
  BY <1>8 DEF MacExit, NoMemory, Mac, Ps, Pin, Pinned
<1>9. CASE MacSignal
  BY <1>9 DEF MacSignal
<1> QED
  BY <1>1, <1>2, <1>3, <1>4, <1>5, <1>6, <1>7, <1>8, <1>9
     DEF MacNext, MacDaemon, MacReconcile

LEMMA WinFollows == FollowInv /\ WinNext => FG!Next \/ UNCHANGED FG!vars
<1> SUFFICES ASSUME FollowInv, Win, WinNext PROVE FG!Next \/ UNCHANGED FG!vars
  BY DEF WinNext, WinDaemon
<1> USE Idles, Takes, Releases, Suffers, Stops, NoPin
    DEF FG!Next, local, record, place, past, Alive, Goes
<1>1. CASE WinResolve
  BY <1>1 DEF WinResolve, Found, Done, FollowInv, Detached
<1>2. CASE \/ CheckSentinel(WinGateOpen)
           \/ ReadHostMac(WinHostMac)
           \/ ReadLladdr(WinLladdr)
           \/ Lookup(WinStored)
           \/ Put
  BY <1>2, SharedFollows
<1>3. CASE FindRouter(WinRouter)
  BY <1>3, FindRouterFollows
<1>4. CASE WinCheck
  BY <1>4 DEF WinCheck, AfterInstall, Done
<1>5. CASE WinDelete
  BY <1>5 DEF WinDelete
<1>6. CASE WinCreate \/ WinOverwrite
  <2>1. Goes /\ mac \in Macs
    BY <1>6 DEF WinCreate, WinOverwrite, WinPin, WinPinFails, AfterInstall, Done,
                FollowInv, TypeOK
  <2>2. \/ /\ entry' = EntryOf(mac, TRUE) /\ UNCHANGED faults
           /\ installed' /\ installedMac' = mac
        \/ UNCHANGED <<entry, record>> /\ (Fails \/ UNCHANGED faults)
    BY <1>6 DEF WinCreate, WinOverwrite, WinPin, WinPinFails
  <2> QED
    BY <2>1, <2>2
<1>7. CASE WinWithdraw
  <2>1. Goes
    BY <1>7 DEF WinWithdraw, Done
  <2>2. CASE Fails
    BY <1>7, <2>1, <2>2 DEF WinWithdraw, WinUnpin
  <2>3. CASE ~ Fails /\ installed
    BY <1>7, <2>1, <2>3 DEF WinWithdraw, WinUnpin
  <2>4. CASE ~ Fails /\ ~ installed
    BY <1>7, <2>1, <2>4 DEF WinWithdraw, WinUnpin, FollowInv, TypeOK
  <2> QED
    BY <2>2, <2>3, <2>4
<1>8. CASE WinRegister \/ WinWait
  BY <1>8 DEF WinRegister, WinWait
<1>9. CASE WinExit
  BY <1>9 DEF WinExit, WinUnpin, NoMemory, Win, Ps, Pin, Pinned
<1>10. CASE WinStop
  BY <1>10 DEF WinStop
<1> QED
  BY <1>1, <1>2, <1>3, <1>4, <1>5, <1>6, <1>7, <1>8, <1>9, <1>10
     DEF WinNext, WinDaemon, WinReconcile

LEMMA PsFollows == FollowInv /\ PsNext => FG!Next \/ UNCHANGED FG!vars
<1> SUFFICES ASSUME FollowInv, Ps, PsNext PROVE FG!Next \/ UNCHANGED FG!vars
  BY DEF PsNext, PsDaemon
<1> USE Idles, Takes, Releases, Suffers, Stops, NoPin
    DEF FG!Next, local, record, place, past, Alive, Goes
<1>1. CASE PsResolve
  BY <1>1 DEF PsResolve, Found, Done
<1>2. CASE \/ CheckSentinel(PsGateOpen)
           \/ ReadHostMac(PsHostMac)
           \/ ReadLladdr(PsLladdr)
           \/ Lookup(PsStored)
  BY <1>2, SharedFollows
<1>3. CASE \E r \in PsRouters : FindRouter(r)
  BY <1>3, FindRouterFollows
<1>4. CASE PsCheck
  BY <1>4 DEF PsCheck, AfterInstall, Done
<1>5. CASE PsDelete
  BY <1>5 DEF PsDelete
<1>6. CASE PsCreate
  <2>1. Goes /\ mac \in Macs
    BY <1>6 DEF PsCreate, AfterInstall, Done, FollowInv, TypeOK
  <2>2. \/ entry' = EntryOf(mac, TRUE) /\ UNCHANGED faults
        \/ UNCHANGED <<entry, record>> /\ (Fails \/ UNCHANGED faults)
    BY <1>6 DEF PsCreate
  <2>3. UNCHANGED record
    BY <1>6 DEF PsCreate
  <2> QED
    BY <2>1, <2>2, <2>3
<1>7. CASE PsPut
  BY <1>7 DEF PsPut, Done
<1>8. CASE PsWithdraw
  <2>1. Goes /\ UNCHANGED record
    BY <1>8 DEF PsWithdraw, Done
  <2>2. CASE UNCHANGED entry
    BY <1>8, <2>1, <2>2 DEF PsWithdraw, PsUnpin
  <2>3. CASE entry' = NoEntry /\ UNCHANGED faults
    BY <2>1, <2>3
  <2> QED
    BY <1>8, <2>2, <2>3 DEF PsWithdraw, PsUnpin
<1>9. CASE PsSleep
  BY <1>9 DEF PsSleep
<1>10. CASE PsExit
  <2>1. Alive /\ ~ Alive' /\ ~ installed' /\ UNCHANGED os
    BY <1>10 DEF PsExit, NoMemory
  <2>2. CASE UNCHANGED entry /\ Fails
    BY <2>1, <2>2
  <2>3. CASE entry' = (IF Pinned THEN NoEntry ELSE entry) /\ UNCHANGED faults
    <3>1. Pin' = NoMac
      BY <2>3 DEF Pin, Pinned
    <3> QED
      BY <2>1, <2>3, <3>1
  <2> QED
    BY <1>10, <2>2, <2>3 DEF PsExit, PsUnpin
<1>11. CASE PsStop
  BY <1>11 DEF PsStop
<1> QED
  BY <1>1, <1>2, <1>3, <1>4, <1>5, <1>6, <1>7, <1>8, <1>9, <1>10, <1>11
     DEF PsNext, PsDaemon, PsReconcile

(* What the Linux daemon does not see it does not pin.                     *)
LEMMA HeldGone ==
    ASSUME FollowInv, Lin, ~ (installed /\ Visible), UNCHANGED entry
    PROVE  ~ installed \/ Pin' = NoMac
BY DEF FollowInv, Detached, Held, Visible, Pin, Pinned

LEMMA LinFollows == FollowInv /\ LinNext => FG!Next \/ UNCHANGED FG!vars
<1> SUFFICES ASSUME FollowInv, Lin, LinNext PROVE FG!Next \/ UNCHANGED FG!vars
  BY DEF LinNext, LinDaemon
<1> USE Idles, Takes, Releases, Suffers, Stops, NoPin
    DEF FG!Next, local, record, place, past, Alive, Goes
<1>1. CASE LinResolve
  BY <1>1 DEF LinResolve, Forgotten, Found, Done, FollowInv, Detached
<1>2. CASE LinCheckSentinel \/ \E r \in LinRouters : LinSelect(r)
  BY <1>2 DEF LinCheckSentinel, LinSelect
<1>3. CASE LinReadLladdr
  BY <1>3 DEF LinReadLladdr, Done
<1>4. CASE LinCheck
  BY <1>4 DEF LinCheck, Done
<1>5. CASE LinReplace
  <2>1. Goes /\ mac \in Macs
    BY <1>5 DEF LinReplace, Done, FollowInv, TypeOK
  <2>2. \/ /\ entry' = EntryOf(mac, TRUE) /\ UNCHANGED faults
           /\ installed' /\ installedMac' = mac
        \/ UNCHANGED <<entry, record>> /\ (Fails \/ UNCHANGED faults)
    BY <1>5 DEF LinReplace
  <2> QED
    BY <2>1, <2>2
<1>6. CASE LinWithdraw
  <2>1. Goes /\ installed' = FALSE
    BY <1>6 DEF LinWithdraw, Done, Forgotten
  <2>2. CASE UNCHANGED entry /\ Fails
    BY <2>1, <2>2
  <2>3. CASE entry' = NoEntry /\ UNCHANGED faults
    BY <2>1, <2>3
  <2>4. CASE ~ (installed /\ Visible) /\ UNCHANGED <<entry, faults>>
    <3>1. ~ installed \/ Pin' = NoMac
      BY <2>4, HeldGone
    <3>2. Pin' = Pin
      BY <2>4 DEF Pin, Pinned
    <3>3. UNCHANGED installed \/ Pin' = NoMac
      BY <2>1, <3>1 DEF FollowInv, TypeOK
    <3> QED
      BY <2>1, <2>4, <3>2, <3>3
  <2> QED
    BY <1>6, <2>2, <2>3, <2>4 DEF LinWithdraw, LinUnpin
<1>7. CASE LinLoop \/ LinWake
  BY <1>7 DEF LinLoop, LinWake
<1>8. CASE LinExit
  <2>1. Alive /\ ~ Alive' /\ ~ installed' /\ UNCHANGED os
    BY <1>8 DEF LinExit, NoMemory
  <2>2. CASE UNCHANGED entry /\ Fails
    BY <2>1, <2>2
  <2>3. CASE entry' = NoEntry /\ UNCHANGED faults
    BY <2>1, <2>3
  <2>4. CASE ~ (installed /\ Visible) /\ UNCHANGED <<entry, faults>>
    <3>1. ~ installed \/ Pin' = NoMac
      BY <2>4, HeldGone
    <3>2. Pin' = Pin /\ ~ Ps
      BY <2>4 DEF Pin, Pinned, Lin, Ps
    <3> QED
      BY <2>1, <2>4, <3>1, <3>2
  <2> QED
    BY <1>8, <2>2, <2>3, <2>4 DEF LinExit, LinUnpin
<1>9. CASE LinSignal
  BY <1>9 DEF LinSignal
<1> QED
  BY <1>1, <1>2, <1>3, <1>4, <1>5, <1>6, <1>7, <1>8, <1>9
     DEF LinNext, LinDaemon, LinReconcile

-----------------------------------------------------------------------------
(* The record and the index stay what the steps above need.                *)

MemoryInv == Forgetful /\ Held

LEMMA EnvironmentMemory == Detached /\ MemoryInv /\ Environment => MemoryInv'
<1> SUFFICES ASSUME Detached, MemoryInv, Environment PROVE MemoryInv'
  OBVIOUS
<1> USE DEF Detached, MemoryInv, Forgetful, Held, Pinned, Alive, Lin, Elsewhere,
            local, record, place
<1>1. CASE Moves
  BY <1>1 DEF Moves
<1>2. CASE SentinelChanges
  BY <1>2 DEF SentinelChanges
<1>3. CASE RoutesChange
  BY <1>3 DEF RoutesChange
<1>4. CASE \E g \in Gws : NdChanges(g)
  BY <1>4 DEF NdChanges
<1>5. CASE Flush
  BY <1>5 DEF Flush
<1>6. CASE ArpResolves
  BY <1>6 DEF ArpResolves, EntryOf
<1> QED
  BY <1>1, <1>2, <1>3, <1>4, <1>5, <1>6 DEF Environment

LEMMA SharedMemory ==
    ASSUME MemoryInv, NEW open, NEW k, NEW m, NEW c, NEW r,
           \/ CheckSentinel(open)
           \/ ReadHostMac(k)
           \/ FindRouter(r)
           \/ ReadLladdr(m)
           \/ Lookup(c)
           \/ Put
    PROVE  MemoryInv'
<1> USE DEF MemoryInv, Forgetful, Held, Pinned, Alive, Lin, local, record, place, past
<1>1. CASE CheckSentinel(open)
  BY <1>1 DEF CheckSentinel
<1>2. CASE ReadHostMac(k)
  BY <1>2 DEF ReadHostMac
<1>3. CASE FindRouter(r)
  BY <1>3 DEF FindRouter
<1>4. CASE ReadLladdr(m)
  BY <1>4 DEF ReadLladdr
<1>5. CASE Lookup(c)
  BY <1>5 DEF Lookup
<1>6. CASE Put
  BY <1>6 DEF Put, Done
<1> QED
  BY <1>1, <1>2, <1>3, <1>4, <1>5, <1>6

\* The other daemons look at no index when they withdraw.
LEMMA OthersMemory ==
    ASSUME Forgetful, ~ Lin, UNCHANGED os,
           \/ Alive'
           \/ ~ installed'
           \/ ~ Alive /\ UNCHANGED installed
    PROVE  MemoryInv'
BY DEF MemoryInv, Forgetful, Held, Lin

LEMMA MacMemory == MemoryInv /\ MacNext => MemoryInv'
<1> SUFFICES ASSUME MemoryInv, Mac, MacNext PROVE MemoryInv'
  BY DEF MacNext, MacDaemon
<1> USE OthersMemory DEF MemoryInv, Mac, Lin, Alive, local, record, past
<1>1. CASE MacResolve
  BY <1>1 DEF MacResolve, Found, Done
<1>2. CASE \/ CheckSentinel(MacGateOpen)
           \/ ReadHostMac(MacHostMac)
           \/ FindRouter(MacRouter)
           \/ ReadLladdr(MacLladdr)
           \/ Lookup(MacStored)
           \/ Put
  BY <1>2, SharedMemory
<1>3. CASE MacCheck \/ MacSet \/ MacWithdraw
  BY <1>3 DEF MacCheck, MacSet, MacWithdraw, MacUnpin, AfterInstall, Done
<1>4. CASE MacLoop \/ MacPoll \/ MacExit \/ MacSignal
  BY <1>4 DEF MacLoop, MacPoll, MacExit, NoMemory, MacSignal
<1> QED
  BY <1>1, <1>2, <1>3, <1>4 DEF MacNext, MacDaemon, MacReconcile

LEMMA WinMemory == MemoryInv /\ WinNext => MemoryInv'
<1> SUFFICES ASSUME MemoryInv, Win, WinNext PROVE MemoryInv'
  BY DEF WinNext, WinDaemon
<1> USE OthersMemory DEF MemoryInv, Win, Lin, Alive, local, record, past
<1>1. CASE WinResolve
  BY <1>1 DEF WinResolve, Found, Done
<1>2. CASE \/ CheckSentinel(WinGateOpen)
           \/ ReadHostMac(WinHostMac)
           \/ FindRouter(WinRouter)
           \/ ReadLladdr(WinLladdr)
           \/ Lookup(WinStored)
           \/ Put
  BY <1>2, SharedMemory
<1>3. CASE WinCheck \/ WinDelete \/ WinCreate \/ WinOverwrite \/ WinWithdraw
  BY <1>3 DEF WinCheck, WinDelete, WinCreate, WinOverwrite, WinPin, WinPinFails,
              WinWithdraw, WinUnpin, AfterInstall, Done
<1>4. CASE WinRegister \/ WinWait \/ WinExit \/ WinStop
  BY <1>4 DEF WinRegister, WinWait, WinExit, NoMemory, WinStop
<1> QED
  BY <1>1, <1>2, <1>3, <1>4 DEF WinNext, WinDaemon, WinReconcile

LEMMA PsMemory == MemoryInv /\ PsNext => MemoryInv'
<1> SUFFICES ASSUME MemoryInv, Ps, PsNext PROVE MemoryInv'
  BY DEF PsNext, PsDaemon
<1> USE OthersMemory DEF MemoryInv, Ps, Lin, Alive, local, record, past
<1>1. CASE PsResolve
  BY <1>1 DEF PsResolve, Found, Done
<1>2. CASE \/ CheckSentinel(PsGateOpen)
           \/ ReadHostMac(PsHostMac)
           \/ \E r \in PsRouters : FindRouter(r)
           \/ ReadLladdr(PsLladdr)
           \/ Lookup(PsStored)
  BY <1>2, SharedMemory
<1>3. CASE PsPut \/ PsCheck \/ PsDelete \/ PsCreate \/ PsWithdraw
  BY <1>3 DEF PsPut, PsCheck, PsDelete, PsCreate, PsWithdraw, AfterInstall, Done
<1>4. CASE PsSleep \/ PsExit \/ PsStop
  BY <1>4 DEF PsSleep, PsExit, NoMemory, PsStop
<1> QED
  BY <1>1, <1>2, <1>3, <1>4 DEF PsNext, PsDaemon, PsReconcile

LEMMA LinMemory == MemoryInv /\ LinNext => MemoryInv'
<1> SUFFICES ASSUME MemoryInv, Lin, LinNext PROVE MemoryInv'
  BY DEF LinNext, LinDaemon
<1> USE DEF MemoryInv, Forgetful, Held, Pinned, Lin, Alive, local, record, past
<1>1. CASE LinResolve
  BY <1>1 DEF LinResolve, Forgotten, Found, Done
<1>2. CASE LinCheckSentinel \/ \E r \in LinRouters : LinSelect(r)
  BY <1>2 DEF LinCheckSentinel, LinSelect
<1>3. CASE LinReadLladdr \/ LinCheck
  BY <1>3 DEF LinReadLladdr, LinCheck, Done
<1>4. CASE LinReplace
  <2>1. Alive'
    BY <1>4 DEF LinReplace, Done
  <2>2. UNCHANGED <<os, live>> /\ (live \/ UNCHANGED <<entry, record>>)
    BY <1>4 DEF LinReplace, Visible
  <2> QED
    BY <2>1, <2>2
<1>5. CASE LinWithdraw
  BY <1>5 DEF LinWithdraw, Forgotten, Done
<1>6. CASE LinLoop \/ LinWake \/ LinExit \/ LinSignal
  BY <1>6 DEF LinLoop, LinWake, LinExit, NoMemory, LinSignal
<1> QED
  BY <1>1, <1>2, <1>3, <1>4, <1>5, <1>6 DEF LinNext, LinDaemon, LinReconcile

LEMMA StepMemory == Detached /\ MemoryInv /\ [Next]_vars => MemoryInv'
<1> SUFFICES ASSUME Detached, MemoryInv, [Next]_vars PROVE MemoryInv'
  OBVIOUS
<1> USE DEF MemoryInv, Forgetful, Held, Pinned, Alive, Lin
<1>1. CASE Start
  BY <1>1 DEF Start, local, record, place, past
<1>2. CASE Crash
  BY <1>2 DEF Crash, NoMemory, place
<1>3. CASE UNCHANGED vars
  BY <1>3 DEF vars
<1>4. CASE MacNext \/ WinNext \/ PsNext \/ LinNext
  <2> HIDE DEF MemoryInv, Forgetful, Held, Pinned, Alive, Lin
  <2> QED
    BY <1>4, MacMemory, WinMemory, PsMemory, LinMemory
<1>5. CASE Environment
  <2> HIDE DEF MemoryInv, Forgetful, Held, Pinned, Alive, Lin
  <2> QED
    BY <1>5, EnvironmentMemory
<1> QED
  BY <1>1, <1>2, <1>3, <1>4, <1>5 DEF Next

-----------------------------------------------------------------------------
(* The refinement.                                                         *)

LEMMA InitFollows == Init => FG!Init /\ MemoryInv
<1> SUFFICES ASSUME Init PROVE FG!Init /\ MemoryInv
  OBVIOUS
<1>1. Pin = NoMac /\ ~ Alive /\ ~ installed /\ faults = 0 /\ ~ Pinned
  BY DEF Init, Pin, Pinned, Alive
<1> QED
  BY <1>1 DEF FG!Init, Claimed, MemoryInv, Forgetful, Held

LEMMA StepFollows == FollowInv /\ [Next]_vars => [FG!Next]_(FG!vars)
<1> SUFFICES ASSUME FollowInv, [Next]_vars PROVE FG!Next \/ UNCHANGED FG!vars
  OBVIOUS
<1>1. CASE Start
  <2>1. ~ Alive /\ Alive' /\ ~ installed /\ ~ installed'
    BY <1>1 DEF Start, Alive, FollowInv, Forgetful, local, record
  <2>2. Pin' = Pin /\ UNCHANGED <<os, faults>>
    BY <1>1 DEF Start, Pin, Pinned, past
  <2>3. FG!Start
    BY <2>1, <2>2 DEF FG!Start, Claimed, Ps
  <2> QED
    BY <2>3 DEF FG!Next
<1>2. CASE Crash
  <2>1. UNCHANGED <<os, entry>> /\ Fails /\ Alive /\ ~ installed'
    BY <1>2 DEF Crash, NoMemory
  <2> QED
    BY <2>1, Suffers DEF FG!Next
<1>3. CASE UNCHANGED vars
  BY <1>3, Idles DEF vars, Alive
<1> QED
  BY <1>1, <1>2, <1>3, EnvironmentFollows, MacFollows, WinFollows, PsFollows, LinFollows
     DEF Next

(* Each of the four daemons keeps the promise of FollowGateway: what it    *)
(* pins it knows for its own from start to stop (install, withdraw), and   *)
(* only a kill or a failing call leaves a pin behind.                      *)
THEOREM DaemonsFollow == Spec => Follows
<1>1. Init => FG!Init /\ MemoryInv
  BY InitFollows
<1>2. PinInv => Detached
  BY DEF PinInv
<1>3. Detached /\ MemoryInv /\ [Next]_vars => MemoryInv'
  BY StepMemory
<1>4. TypeOK /\ Detached /\ MemoryInv => FollowInv
  BY DEF FollowInv, MemoryInv
<1>5. FollowInv /\ [Next]_vars => [FG!Next]_(FG!vars)
  BY StepFollows
<1>6. Follows <=> FG!Init /\ [][FG!Next]_(FG!vars)
  BY DEF Follows, FG!Spec
<1> QED
  BY <1>1, <1>2, <1>3, <1>4, <1>5, <1>6, TypeCorrect, PinAlways, PTL DEF Spec
=============================================================================
