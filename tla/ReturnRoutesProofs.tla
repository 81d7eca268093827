-------------------------- MODULE ReturnRoutesProofs --------------------------
(***************************************************************************)
(* ReturnRoutes, the daemon and the script, for every set of hosts,        *)
(* addresses and interfaces and every bound.  Each theorem assumes of what *)
(* may happen only what its property needs.                                *)
(***************************************************************************)
EXTENDS ReturnRoutes, SequenceTheorems, FiniteSetTheorems, TLAPS

-----------------------------------------------------------------------------
(* Lines. *)

(* What is left of a sequence of lines when its head is gone.              *)
LEMMA HeadOfLines ==
    ASSUME NEW s \in Seq(Lines), s # <<>>
    PROVE  /\ Len(s) \in Nat \ {0}
           /\ Head(s) = s[1] /\ Head(s) \in Lines
           /\ Tail(s) \in Seq(Lines)
           /\ Len(Tail(s)) = Len(s) - 1
           /\ \A i \in 1..Len(s) - 1 : Tail(s)[i] = s[i + 1]
           /\ (Tail(s) = <<>> <=> Len(s) = 1)
<1>1. Len(s) \in Nat \ {0}
  BY EmptySeq
<1>2. Tail(s) \in Seq(Lines) /\ Len(Tail(s)) = Len(s) - 1
  BY HeadTailProperties
<1>3. Tail(s) = <<>> <=> Len(s) = 1
  BY <1>1, <1>2, EmptySeq
<1> QED
  BY <1>1, <1>2, <1>3, HeadTailProperties

LEMMA LineFields ==
    ASSUME NEW line \in Lines
    PROVE  /\ line.act \in {"add", "old", "del"}
           /\ line.iface \in Ifaces \cup {NoIface}
           /\ line.mac \in Macs /\ line.mac # None
           /\ line.ip4 \in Ips
BY NoneAssumption DEF Lines

-----------------------------------------------------------------------------
(* The type invariant. *)

LEMMA InitType == Init => TypeOK
<1> SUFFICES ASSUME Init PROVE TypeOK
  OBVIOUS
<1>1. <<>> \in Seq(Lines)
  BY EmptySeq
<1>2. usable \in [Ifaces -> [Macs -> SUBSET Kinds]]
  BY DEF Init
<1>3. 0 \in 0..MaxRefusals
  BY BoundsAssumption
<1> QED
  BY <1>1, <1>2, <1>3 DEF Init, TypeOK, Hook, HookSteps, Steps

\* What the daemon or the script has, which dnsmasq and the kernel leave alone.
ToolType ==
    /\ pc \in IF Hook THEN HookSteps ELSE Steps
    /\ hosts \in [Macs -> Hosts \cup {None}]
    /\ saved \in [Macs -> [iface : Ifaces, ip4 : Ips] \cup {None}]
    /\ unsaved \in BOOLEAN
    /\ blind \in BOOLEAN
    /\ buf \in Seq(Lines)
    /\ pc \in {"lines", "record", "persist"} \/ (Hook /\ pc # "poll") => buf # <<>>
    /\ pc = "record" \/ (Hook /\ pc # "poll") => Head(buf).iface # NoIface
    /\ todo \subseteq Macs
    /\ cur \in Macs \cup {None}
    /\ pc \in {"read", "install"} => cur \in Macs
    /\ nhop \in Kinds \cup {None}
    /\ pc \in {"install", "replace"} => nhop \in Kinds
    /\ pc \in {"install", "unarp"} /\ ~ Hook => cur \in Known

\* What the daemon and the script leave alone, but for routes and neighbours.
WorldType ==
    /\ tool \in Tools
    /\ leases \subseteq Leases
    /\ usable \in [Ifaces -> [Macs -> SUBSET Kinds]]
    /\ up \in [Ifaces -> BOOLEAN]

KernelType ==
    /\ rt \in [Ips -> Routes \cup {None}]
    /\ arp \in [Ips -> SUBSET Ifaces]
    /\ fifo \in Seq(Lines)
    /\ pending \in BOOLEAN
    /\ refused \in 0..MaxRefusals

TypeParted == WorldType /\ KernelType /\ ToolType /\ ixLive \in BOOLEAN

LEMMA TypeParts == (TypeOK <=> TypeParted) /\ (TypeOK' <=> TypeParted')
<1>1. TypeOK <=> TypeParted
  BY DEF TypeOK, TypeParted, WorldType, KernelType, ToolType
<1>2. TypeOK' <=> TypeParted'
  BY DEF TypeOK, TypeParted, WorldType, KernelType, ToolType
<1> QED
  BY <1>1, <1>2

LEMMA ToolTypeStays ==
    ASSUME ToolType,
           UNCHANGED <<tool, pc, hosts, files, buf, todo, cur, nhop>>
    PROVE  ToolType'
BY DEF ToolType, Hook, Known, files

LEMMA NotifyType ==
    ASSUME TypeOK, NEW act \in {"add", "old", "del"}, NEW f \in Ifaces, NEW m \in Macs,
           NEW ip \in Ips, Notify(act, f, m, ip)
    PROVE  fifo' \in Seq(Lines)
<1>1. PICK named \in {f} \cup IF MayOmitIface /\ act # "add" THEN {NoIface} ELSE {} :
        fifo' = Append(fifo, [act |-> act, iface |-> named, mac |-> m, ip4 |-> ip])
  BY DEF Notify
<1>2. named \in Ifaces \cup {NoIface}
  BY <1>1
<1>3. [act |-> act, iface |-> named, mac |-> m, ip4 |-> ip] \in Lines
  BY <1>2 DEF Lines
<1> QED
  BY <1>1, <1>3, AppendProperties DEF TypeOK

LEMMA DnsmasqTypes == TypeOK /\ Dnsmasq => TypeOK'
<1> SUFFICES ASSUME TypeOK, Dnsmasq PROVE TypeOK'
  OBVIOUS
<1>1. UNCHANGED <<tool, usable, up, rt, arp, pending, refused, ixLive>>
      /\ UNCHANGED <<tool, pc, hosts, files, buf, todo, cur, nhop>>
  BY DEF Dnsmasq, Grant, Renew, End, LoseLine, kernel, daemonVars
<1>2. leases' \subseteq Leases /\ fifo' \in Seq(Lines)
  <2>1. ASSUME NEW f \in Ifaces, NEW m \in Macs, NEW ip \in Ips, Grant(f, m, ip)
        PROVE  leases' \subseteq Leases /\ fifo' \in Seq(Lines)
    BY <2>1, NotifyType DEF Grant, Leases, TypeOK
  <2>2. ASSUME NEW l \in leases, NEW f \in Ifaces, Renew(l, f)
        PROVE  leases' \subseteq Leases /\ fifo' \in Seq(Lines)
    <3>1. l \in Leases /\ [l EXCEPT !.iface = f] \in Leases /\ l.mac \in Macs /\ l.ip4 \in Ips
      BY DEF TypeOK, Leases
    <3> QED
      BY <2>2, <3>1, NotifyType DEF Renew, TypeOK
  <2>3. ASSUME NEW l \in leases, End(l)
        PROVE  leases' \subseteq Leases /\ fifo' \in Seq(Lines)
    <3>1. l.iface \in Ifaces /\ l.mac \in Macs /\ l.ip4 \in Ips
      BY DEF TypeOK, Leases
    <3> QED
      BY <2>3, <3>1, NotifyType DEF End, TypeOK
  <2>4. ASSUME LoseLine
        PROVE  leases' \subseteq Leases /\ fifo' \in Seq(Lines)
    BY <2>4, HeadOfLines DEF LoseLine, TypeOK
  <2> QED
    BY <2>1, <2>2, <2>3, <2>4 DEF Dnsmasq
<1> QED
  BY <1>1, <1>2, TypeParts, ToolTypeStays DEF TypeParted, WorldType, KernelType

LEMMA KernelTypes == TypeOK /\ Kernel => TypeOK'
<1> SUFFICES ASSUME TypeOK, Kernel PROVE TypeOK'
  OBVIOUS
<1> USE DEF TypeParted, WorldType, KernelType
<1>1. Announce => pending' \in BOOLEAN
  BY DEF Announce, TypeOK
<1>2. UNCHANGED <<tool, pc, hosts, files, buf, todo, cur, nhop>>
  BY DEF Kernel, ArpForms, CacheChanges, LoseLink, LinkAppears, daemonVars
<1>3. ASSUME NEW l \in leases, ArpForms(l) PROVE TypeOK'
  <2>1. arp' \in [Ips -> SUBSET Ifaces]
    BY <1>3 DEF ArpForms, TypeOK, Leases
  <2> QED
    BY <1>1, <1>2, <1>3, <2>1, TypeParts, ToolTypeStays DEF ArpForms, daemonVars
<1>4. ASSUME NEW f \in Ifaces, NEW m \in Macs, CacheChanges(f, m) PROVE TypeOK'
  <2>1. usable' \in [Ifaces -> [Macs -> SUBSET Kinds]]
    <3>1. PICK set \in UsableSets : usable' = [usable EXCEPT ![f][m] = set]
      BY <1>4 DEF CacheChanges
    <3>2. set \in SUBSET Kinds
      BY UsableSetsAssumption
    <3> QED
      BY <3>1, <3>2 DEF TypeOK
  <2> QED
    BY <1>1, <1>2, <1>4, <2>1, TypeParts, ToolTypeStays DEF CacheChanges, daemonVars
<1>5. ASSUME NEW f \in Ifaces, LoseLink(f) PROVE TypeOK'
  <2>1. up' \in [Ifaces -> BOOLEAN]
    BY <1>5 DEF LoseLink, TypeOK
  <2>2. usable' \in [Ifaces -> [Macs -> SUBSET Kinds]]
    BY <1>5 DEF LoseLink, TypeOK
  <2>3. rt' \in [Ips -> Routes \cup {None}] /\ arp' \in [Ips -> SUBSET Ifaces]
    BY <1>5 DEF LoseLink, TypeOK
  <2>4. ixLive' \in BOOLEAN
    BY <1>5 DEF LoseLink
  <2> QED
    BY <1>1, <1>2, <1>5, <2>1, <2>2, <2>3, <2>4, TypeParts, ToolTypeStays DEF LoseLink
<1>6. ASSUME NEW f \in Ifaces, LinkAppears(f) PROVE TypeOK'
  <2>1. up' \in [Ifaces -> BOOLEAN]
    BY <1>6 DEF LinkAppears, TypeOK
  <2> QED
    BY <1>1, <1>2, <1>6, <2>1, TypeParts, ToolTypeStays DEF LinkAppears, daemonVars
<1> QED
  BY <1>3, <1>4, <1>5, <1>6 DEF Kernel

LEMMA WithdrawTypes ==
    ASSUME TypeOK, NEW ip \in Ips, WithdrawRoute(ip)
    PROVE  /\ rt' \in [Ips -> Routes \cup {None}]
           /\ pending' \in BOOLEAN
           /\ refused' \in 0..MaxRefusals
<1>1. rt' = [rt EXCEPT ![ip] = None] \/ rt' = rt
  BY DEF WithdrawRoute
<1>2. pending' \in BOOLEAN
  BY DEF WithdrawRoute, TypeOK, Hook
<1>3. refused' \in 0..MaxRefusals
  BY BoundsAssumption DEF WithdrawRoute, TypeOK
<1> QED
  BY <1>1, <1>2, <1>3 DEF TypeOK

LEMMA BestType ==
    ASSUME TypeOK, NEW f \in Ifaces, NEW m \in Macs
    PROVE  BestNexthop(f, m) \in Kinds \cup {None}
BY DEF BestNexthop, Kinds

\* A record, taken apart.
LEMMA HostFields ==
    ASSUME TypeOK, NEW m \in Known
    PROVE  /\ m \in Macs /\ m # None /\ hosts[m] # None
           /\ hosts[m] \in Hosts
           /\ hosts[m].iface \in Ifaces
           /\ hosts[m].ip4 \in Ips
           /\ hosts[m].nh \in Kinds \cup {None}
           /\ hosts[m].armed \in BOOLEAN
BY NoneAssumption DEF TypeOK, Known, Hosts

LEMMA LineHandled == TypeOK /\ buf # <<>> /\ buf' = Tail(buf) /\ LineDone /\ ~ Hook =>
    /\ buf' \in Seq(Lines)
    /\ pc' \in {"poll", "lines"}
    /\ pc' = "lines" => buf' # <<>>
BY HeadOfLines DEF TypeOK, LineDone

LEMMA ReturnTypes == Return => /\ pc' \in {"sweep", "lines"}
                               /\ pc' = "lines" => buf # <<>>
                               /\ cur' = None /\ nhop' = None /\ ixLive' = FALSE
BY DEF Return

LEMMA DaemonTypes == TypeOK /\ ~ Hook /\ DaemonNext => TypeOK'
<1> SUFFICES ASSUME TypeOK, ~ Hook, DaemonNext PROVE TypeOK'
  OBVIOUS
<1>1. tool' = tool /\ ~ Hook'
  BY DEF Hook, DaemonNext, Daemon, Start, Restore, WakeMonitor, WakeFifo, Timeout, Sweep,
         ReadNexthop, Install, DropArp, DropLine, OnLease, Record, OnRelease, Persist,
         EndDaemon, world
<1> USE <1>1 DEF TypeParted, WorldType, KernelType, ToolType, world, files, Steps
<1>2. CASE Start
  BY <1>2, TypeParts DEF Start, Known
<1>3. CASE Restore
  <2>1. hosts' \in [Macs -> Hosts \cup {None}]
    <3>1. PICK readable \in {TRUE, ~ MayFailIo} :
            hosts' = [m \in Macs |->
                       IF readable /\ (Restorable(m) \/ (blind' /\ m \in Stale))
                         THEN [iface |-> saved[m].iface, ip4 |-> saved[m].ip4,
                               nh |-> None, armed |-> TRUE]
                         ELSE None]
      BY <1>3 DEF Restore
    <3>2. ASSUME NEW m \in Macs, Restorable(m) \/ m \in Stale
          PROVE  [iface |-> saved[m].iface, ip4 |-> saved[m].ip4,
                  nh |-> None, armed |-> TRUE] \in Hosts
      <4>1. saved[m] \in [iface : Ifaces, ip4 : Ips]
        BY <3>2 DEF Restorable, Stale, TypeOK
      <4> QED
        BY <4>1 DEF Hosts
    <3> QED
      BY <3>1, <3>2
  <2>2. blind' \in BOOLEAN /\ todo' \subseteq Macs
    BY <1>3, FlagsAssumption DEF Restore
  <2> QED
    BY <1>3, <2>1, <2>2, TypeParts DEF Restore
<1>4. CASE WakeMonitor \/ Timeout
  BY <1>4, TypeParts DEF WakeMonitor, Timeout, Known
<1>5. CASE WakeFifo
  BY <1>5, TypeParts, EmptySeq DEF WakeFifo, Known
<1>6. CASE Sweep
  BY <1>6, TypeParts DEF Sweep, Known
<1>7. CASE ReadNexthop
  <2>1. CASE Return /\ UNCHANGED hosts
    BY <1>7, <2>1, ReturnTypes, TypeParts DEF ReadNexthop
  <2>2. CASE hosts[cur] # None /\ Disarm(BestNexthop(hosts[cur].iface, cur))
    <3>1. cur \in Known
      BY <1>7, <2>2 DEF ReadNexthop, Known, TypeOK
    <3>2. hosts' \in [Macs -> Hosts \cup {None}] /\ hosts'[cur] # None
      <4>1. \A b \in BOOLEAN : [hosts[cur] EXCEPT !.armed = b] \in Hosts
        BY <3>1, HostFields DEF Hosts
      <4>2. PICK b \in BOOLEAN :
              hosts' = [hosts EXCEPT ![cur] = [hosts[cur] EXCEPT !.armed = b]]
        BY <2>2, <3>1, HostFields DEF Disarm
      <4> QED
        BY <3>1, <4>1, <4>2, HostFields, NoneAssumption DEF TypeOK, Hosts
    <3>3. CASE Return
      BY <1>7, <3>2, <3>3, ReturnTypes, TypeParts DEF ReadNexthop
    <3>4. CASE /\ nhop' = BestNexthop(hosts[cur].iface, cur) /\ nhop' # None
               /\ ixLive' = TRUE /\ pc' = "install" /\ UNCHANGED cur
      <4>1. nhop' \in Kinds
        BY <3>1, <3>4, BestType, HostFields
      <4> QED
        BY <1>7, <3>1, <3>2, <3>4, <4>1, TypeParts DEF ReadNexthop, Known
    <3> QED
      BY <1>7, <2>2, <3>3, <3>4, <3>1 DEF ReadNexthop, UpToDate
  <2> QED
    BY <1>7, <2>1, <2>2 DEF ReadNexthop
<1>8. ASSUME Installed, cur \in Known
      PROVE  hosts' \in [Macs -> Hosts \cup {None}]
  BY <1>8, HostFields DEF Installed, TypeOK, Hosts
<1>9. CASE Install
  <2>1. cur \in Known /\ nhop \in Kinds
    BY <1>9 DEF Install, TypeOK
  <2>2. CASE Installed /\ UNCHANGED <<rt, pending>>
    <3>1. refused' \in 0..MaxRefusals
      BY <1>9, BoundsAssumption DEF Install, TypeOK
    <3> QED
      BY <1>8, <1>9, <2>1, <2>2, <3>1, ReturnTypes, TypeParts DEF Install, Installed
  <2>3. CASE /\ rt' = [rt EXCEPT ![hosts[cur].ip4] =
                         [iface |-> hosts[cur].iface, mac |-> cur, nh |-> nhop]]
             /\ pending' = TRUE /\ pc' = "unarp"
             /\ UNCHANGED <<refused, hosts, cur, nhop, ixLive>>
    <3>1. [iface |-> hosts[cur].iface, mac |-> cur, nh |-> nhop] \in Routes
      BY <2>1, HostFields DEF Routes
    <3>2. rt' \in [Ips -> Routes \cup {None}]
      BY <2>3, <3>1 DEF TypeOK
    <3> QED
      BY <1>9, <2>1, <2>3, <3>2, TypeParts DEF Install, Known
  <2> QED
    BY <1>9, <2>2, <2>3 DEF Install
<1>10. CASE DropArp
  <2>1. cur \in Known
    BY <1>10 DEF DropArp, TypeOK
  <2>2. arp' \in [Ips -> SUBSET Ifaces]
    BY <1>10, <2>1, HostFields DEF DropArp, Unarp, TypeOK
  <2>3. Installed
    BY <1>10 DEF DropArp
  <2> QED
    BY <1>8, <1>10, <2>1, <2>2, <2>3, ReturnTypes, TypeParts DEF DropArp, Installed
<1>11. CASE DropLine
  BY <1>11, LineHandled, TypeParts DEF DropLine
<1>12. CASE OnLease
  <2>1. rt' \in [Ips -> Routes \cup {None}] /\ pending' \in BOOLEAN /\ refused' \in 0..MaxRefusals
    <3>1. CASE UNCHANGED <<rt, pending, refused>>
      BY <3>1 DEF TypeOK
    <3>2. CASE hosts[Head(buf).mac] # None /\ WithdrawRoute(hosts[Head(buf).mac].ip4)
      <4>1. Head(buf).mac \in Known
        BY <1>12, <3>2, HeadOfLines, LineFields DEF OnLease, Known, TypeOK
      <4> QED
        BY <3>2, <4>1, HostFields, WithdrawTypes
    <3> QED
      BY <1>12, <3>1, <3>2 DEF OnLease
  <2> QED
    BY <1>12, <2>1, TypeParts DEF OnLease, Known
<1>13. CASE Record
  <2>1. Head(buf) \in Lines
    BY <1>13, HeadOfLines DEF Record, TypeOK
  <2> DEFINE line == Head(buf)
             new  == IF hosts[line.mac] = None THEN TRUE ELSE Changed(hosts[line.mac], line)
             host == [iface |-> line.iface, ip4 |-> line.ip4,
                      nh |-> IF new THEN None ELSE hosts[line.mac].nh, armed |-> TRUE]
  <2>2. host \in Hosts
    <3>1. ~ new => hosts[line.mac].nh \in Kinds \cup {None}
      BY <2>1, LineFields, HostFields DEF Known
    <3>2. line.iface \in Ifaces
      BY <1>13, <2>1, LineFields DEF Record, TypeOK
    <3> QED
      BY <2>1, <3>1, <3>2, LineFields DEF Hosts
  <2>3. hosts' = [hosts EXCEPT ![line.mac] = host] /\ cur' = line.mac
    BY <1>13 DEF Record
  <2> HIDE DEF host
  <2>4. hosts' \in [Macs -> Hosts \cup {None}] /\ cur' \in Macs
    BY <2>1, <2>2, <2>3, LineFields DEF TypeOK
  <2> QED
    BY <1>13, <2>4, TypeParts DEF Record
<1>14. CASE OnRelease
  <2>1. Head(buf) \in Lines /\ buf # <<>>
    BY <1>14, HeadOfLines DEF OnRelease, TypeOK
  <2>2. CASE hosts[Head(buf).mac] = None
    BY <1>14, <2>1, <2>2, LineHandled, TypeParts DEF OnRelease
  <2>3. CASE hosts[Head(buf).mac] # None
    <3>1. Head(buf).mac \in Known
      BY <2>1, <2>3, LineFields DEF Known
    <3>2. WithdrawRoute(hosts[Head(buf).mac].ip4) /\ Forget(Head(buf).mac)
          /\ pc' = "persist" /\ UNCHANGED buf
      BY <1>14, <2>3 DEF OnRelease
    <3>3. hosts' \in [Macs -> Hosts \cup {None}]
      BY <3>2 DEF Forget, TypeOK
    <3> QED
      BY <1>14, <2>1, <3>1, <3>2, <3>3, HostFields, WithdrawTypes, TypeParts DEF OnRelease
  <2> QED
    BY <2>2, <2>3
<1>15. CASE Persist
  <2>1. saved' \in [Macs -> [iface : Ifaces, ip4 : Ips] \cup {None}] /\ unsaved' \in BOOLEAN
    <3>1. Persisted \in [Macs -> [iface : Ifaces, ip4 : Ips] \cup {None}]
      BY HostFields DEF Persisted, Saved, Known
    <3> QED
      BY <1>15, <3>1 DEF Persist, TypeOK
  <2>2. buf # <<>> /\ buf' = Tail(buf)
    BY <1>15 DEF Persist, TypeOK
  <2>3. buf' \in Seq(Lines)
    BY <2>2, HeadOfLines DEF TypeOK
  <2>4. CASE cur # None
    BY <1>15, <2>1, <2>3, <2>4, TypeParts DEF Persist
  <2>5. CASE cur = None
    BY <1>15, <2>1, <2>2, <2>5, LineHandled, TypeParts DEF Persist
  <2> QED
    BY <2>4, <2>5
<1>16. CASE EndDaemon
  BY <1>16, TypeParts, EmptySeq DEF EndDaemon
<1> QED
  BY <1>2, <1>3, <1>4, <1>5, <1>6, <1>7, <1>9, <1>10, <1>11, <1>12, <1>13, <1>14, <1>15,
     <1>16 DEF DaemonNext, Daemon

LEMMA HookTypes == TypeOK /\ Hook /\ HookNext => TypeOK'
<1> SUFFICES ASSUME TypeOK, Hook, HookNext PROVE TypeOK'
  OBVIOUS
<1>1. tool' = tool /\ Hook'
  BY DEF Hook, HookNext, HookStart, Derive, Find, Replace, Delete, HookUnarp, world
<1> USE <1>1 DEF TypeParted, WorldType, KernelType, ToolType, world, files, notHook,
                 HookSteps, HookExit
<1>2. CASE HookStart
  <2>1. fifo # <<>> /\ fifo' = Tail(fifo) /\ fifo \in Seq(Lines)
    BY <1>2 DEF HookStart, TypeOK
  <2>2. Head(fifo) \in Lines /\ fifo' \in Seq(Lines)
    BY <2>1, HeadOfLines
  <2>3. CASE UNCHANGED <<pc, buf>>
    BY <1>2, <2>2, <2>3, TypeParts DEF HookStart
  <2>4. CASE pc' \in {"derive", "delete"} /\ buf' = <<Head(fifo)>>
    <3>1. buf' \in Seq(Lines) /\ buf' # <<>>
      BY <2>2, <2>4
    <3>2. Head(buf') = Head(fifo)
      BY <2>4
    <3>3. Head(fifo).iface # NoIface
      BY <1>2, <2>4 DEF HookStart
    <3>4. UNCHANGED <<world, rt, pending, refused, nhop, notHook>>
      BY <1>2 DEF HookStart
    <3> QED
      BY <2>2, <2>4, <3>1, <3>2, <3>3, <3>4, TypeParts
  <2>5. Head(fifo).act \in {"add", "old", "del"}
    BY <2>2, LineFields
  <2> QED
    BY <1>2, <2>3, <2>4, <2>5 DEF HookStart
<1>3. pc # "poll" => buf # <<>> /\ Line \in Lines
  BY HeadOfLines DEF TypeOK, Line
<1>4. CASE Derive
  <2>1. nhop' \in Kinds \cup {None}
    BY <1>4 DEF Derive, Kinds
  <2> QED
    BY <1>4, <2>1, TypeParts DEF Derive
<1>5. CASE Find
  <2>1. Line.iface \in Ifaces /\ Line.mac \in Macs
    BY <1>3, <1>5, LineFields DEF Find, TypeOK, Line
  <2>2. Cached(Line.iface, Line.mac) \subseteq Kinds
    BY <2>1 DEF Cached, TypeOK
  <2> QED
    BY <1>5, <2>2, TypeParts DEF Find
<1>6. CASE Replace
  <2>1. Line.iface \in Ifaces /\ Line.mac \in Macs /\ Line.ip4 \in Ips /\ nhop \in Kinds
    BY <1>3, <1>6, LineFields DEF Replace, TypeOK, Line
  <2>2. CASE /\ rt' = [rt EXCEPT ![Line.ip4] =
                         [iface |-> Line.iface, mac |-> Line.mac, nh |-> nhop]]
             /\ pc' = "unarp"
             /\ UNCHANGED <<refused, buf, nhop>>
    <3>1. [iface |-> Line.iface, mac |-> Line.mac, nh |-> nhop] \in Routes
      BY <2>1 DEF Routes
    <3>2. rt' \in [Ips -> Routes \cup {None}]
      BY <2>2, <3>1 DEF TypeOK
    <3> QED
      BY <1>6, <2>2, <3>2, TypeParts DEF Replace
  <2>3. CASE HookExit /\ UNCHANGED rt
    <3>1. refused' \in 0..MaxRefusals
      BY <1>6, BoundsAssumption DEF Replace, TypeOK
    <3> QED
      BY <1>6, <2>3, <3>1, TypeParts, EmptySeq DEF Replace
  <2> QED
    BY <1>6, <2>2, <2>3 DEF Replace
<1>7. CASE Delete
  <2>1. Line.ip4 \in Ips
    BY <1>3, <1>7, LineFields DEF Delete
  <2> QED
    BY <1>7, <2>1, WithdrawTypes, TypeParts DEF Delete
<1>8. CASE HookUnarp
  <2>1. arp' \in [Ips -> SUBSET Ifaces]
    BY <1>8 DEF HookUnarp, Unarp, TypeOK
  <2> QED
    BY <1>8, <2>1, TypeParts, EmptySeq DEF HookUnarp
<1> QED
  BY <1>2, <1>4, <1>5, <1>6, <1>7, <1>8 DEF HookNext


(* What the daemon and the script keep to: no record, route or saved lease *)
(* without an interface or an address, no install without a next hop, no   *)
(* evaluation of a host without a name (handle_line, evaluate, install).   *)
THEOREM TypeCorrect == Spec => []TypeOK
<1>1. TypeOK /\ [Next]_vars => TypeOK'
  <2> SUFFICES ASSUME TypeOK, [Next]_vars PROVE TypeOK'
    OBVIOUS
  <2>1. CASE UNCHANGED vars
    BY <2>1 DEF TypeOK, Hook, Known, vars
  <2> QED
    BY <2>1, DnsmasqTypes, KernelTypes, DaemonTypes, HookTypes DEF Next, Environment
<1> QED
  BY <1>1, InitType, PTL DEF Spec

-----------------------------------------------------------------------------
(* Where the daemon is, and what it holds there. *)

\* The record of the head line's host says what the line said.
HeadRecorded ==
    LET line == Head(buf)
    IN  IF line.act = "del"
          THEN hosts[line.mac] = None
          ELSE /\ hosts[line.mac] # None
               /\ hosts[line.mac].iface = line.iface
               /\ hosts[line.mac].ip4 = line.ip4

\* Between two batches of lines there is no line, between two evaluations no
\* host being evaluated; a line has taken effect when the records are written.
DaemonPlace ==
    /\ pc \in {"down", "restore", "poll", "sweep"} => buf = <<>>
    /\ pc \in {"down", "restore", "poll", "sweep", "lines", "record"} => cur = None
    /\ pc \in {"down", "restore"} => hosts = [m \in Macs |-> None]
    /\ pc = "record" => Head(buf).act # "del"
    /\ pc = "persist" => HeadRecorded

\* The script has no records, and one line at a time; it looks for next hops of
\* leases that are there.
HookPlace ==
    /\ hosts = [m \in Macs |-> None]
    /\ IF pc = "poll" THEN buf = <<>> ELSE Len(buf) = 1
    /\ pc \in {"derive", "find", "again", "replace"} => Head(buf).act # "del"

PlaceInv == IF Hook THEN HookPlace ELSE DaemonPlace

LEMMA EnvironmentLeaves ==
    ASSUME Environment
    PROVE  UNCHANGED <<tool, pc, hosts, saved, unsaved, blind, buf, todo, cur, nhop>>
<1>1. CASE Dnsmasq
  BY <1>1 DEF Dnsmasq, Grant, Renew, End, LoseLine, daemonVars, files
<1>2. CASE Kernel
  BY <1>2 DEF Kernel, ArpForms, CacheChanges, LoseLink, LinkAppears, daemonVars, files
<1> QED
  BY <1>1, <1>2 DEF Environment

\* The lease on record is the same.
SameHost(m) ==
    /\ hosts'[m] = None <=> hosts[m] = None
    /\ hosts[m] # None => /\ hosts'[m].iface = hosts[m].iface
                          /\ hosts'[m].ip4 = hosts[m].ip4

\* evaluate and install change the next hop on record and the probe, of one host.
LEMMA EvaluateKeeps ==
    ASSUME TypeOK, ~ Hook, ReadNexthop \/ Install \/ DropArp, NEW m \in Macs
    PROVE  /\ SameHost(m)
           /\ m # cur => hosts'[m] = hosts[m]
           /\ m \in Known /\ (m # cur \/ pc = "read" \/ UNCHANGED hosts) =>
                hosts'[m].nh = hosts[m].nh
           /\ m \in Known /\ m = cur /\ pc' \notin {"install", "unarp"} /\ pc # "read" =>
                hosts'[m].nh = nhop
<1> USE DEF SameHost
<1>1. CASE UNCHANGED hosts /\ (pc = "read" \/ pc' = "unarp")
  BY <1>1
<1>2. CASE cur \in Known /\ pc = "read" /\ Disarm(BestNexthop(hosts[cur].iface, cur))
  <2>1. \A b \in BOOLEAN :
          /\ [hosts[cur] EXCEPT !.armed = b] \in Hosts
          /\ [hosts[cur] EXCEPT !.armed = b].iface = hosts[cur].iface
          /\ [hosts[cur] EXCEPT !.armed = b].ip4 = hosts[cur].ip4
          /\ [hosts[cur] EXCEPT !.armed = b].nh = hosts[cur].nh
    BY <1>2, HostFields DEF Hosts
  <2>2. PICK b \in BOOLEAN :
          hosts' = [hosts EXCEPT ![cur] = [hosts[cur] EXCEPT !.armed = b]]
    BY <1>2, HostFields DEF Disarm
  <2> QED
    BY <1>2, <2>1, <2>2, HostFields, NoneAssumption DEF TypeOK, Hosts
<1>3. CASE cur \in Known /\ pc # "read" /\ Installed
  <2>1. /\ [hosts[cur] EXCEPT !.nh = nhop] \in Hosts
        /\ [hosts[cur] EXCEPT !.nh = nhop].iface = hosts[cur].iface
        /\ [hosts[cur] EXCEPT !.nh = nhop].ip4 = hosts[cur].ip4
        /\ [hosts[cur] EXCEPT !.nh = nhop].nh = nhop
    BY <1>3, HostFields DEF Hosts, TypeOK
  <2>2. hosts' = [hosts EXCEPT ![cur] = [hosts[cur] EXCEPT !.nh = nhop]]
    BY <1>3, HostFields DEF Installed
  <2>3. hosts'[cur] = [hosts[cur] EXCEPT !.nh = nhop] /\ hosts'[cur] # None
    BY <1>3, <2>1, <2>2, HostFields, NoneAssumption DEF TypeOK, Hosts
  <2>4. \A h \in Macs : h # cur => hosts'[h] = hosts[h]
    BY <2>2 DEF TypeOK
  <2> QED
    BY <1>3, <2>1, <2>3, <2>4, HostFields
<1>4. pc = "read" /\ hosts[cur] # None => cur \in Known
  BY DEF Known, TypeOK
<1>5. pc \in {"install", "unarp"} => cur \in Known
  BY DEF TypeOK
<1> QED
  BY <1>1, <1>2, <1>3, <1>4, <1>5 DEF ReadNexthop, Install, DropArp

LEMMA DaemonPlaces ==
    ASSUME TypeOK, DaemonPlace, ~ Hook, DaemonNext
    PROVE  DaemonPlace'
<1> USE DEF DaemonPlace, files, world
<1>1. CASE Start \/ Restore \/ WakeMonitor \/ Timeout \/ Sweep
  <2>1. UNCHANGED buf /\ pc' \in {"restore", "sweep", "poll", "read"}
    BY <1>1 DEF Start, Restore, WakeMonitor, Timeout, Sweep
  <2>2. pc' # "read" => cur' = cur
    BY <1>1 DEF Start, Restore, WakeMonitor, Timeout, Sweep
  <2>3. pc' = "restore" => hosts' = hosts
    BY <1>1 DEF Start, Restore, WakeMonitor, Timeout, Sweep
  <2>4. pc \in {"down", "restore", "poll", "sweep"} /\ (pc' = "restore" => pc = "down")
    BY <1>1 DEF Start, Restore, WakeMonitor, Timeout, Sweep
  <2> QED
    BY <2>1, <2>2, <2>3, <2>4
<1>2. CASE WakeFifo
  BY <1>2 DEF WakeFifo
<1>3. CASE ReadNexthop \/ Install \/ DropArp
  <2>1. CASE Return /\ UNCHANGED buf
    BY <2>1 DEF Return
  <2>2. CASE pc' \in {"install", "unarp"}
    BY <2>2
  <2> QED
    BY <1>3, <2>1, <2>2 DEF ReadNexthop, Install, DropArp, Installed
<1>4. ASSUME buf' = Tail(buf), LineDone, buf # <<>>
      PROVE  pc' \in {"poll", "lines"} /\ (pc' = "poll" => buf' = <<>>)
  BY <1>4, HeadOfLines DEF LineDone, TypeOK
<1>5. CASE DropLine
  BY <1>4, <1>5 DEF DropLine, TypeOK
<1>6. CASE OnLease
  <2>1. Head(buf).act # "del" /\ UNCHANGED <<buf, hosts, cur>> /\ pc = "lines" /\ pc' = "record"
    BY <1>6 DEF OnLease
  <2> QED
    BY <2>1
<1>7. CASE Record
  <2>1. Head(buf).mac \in Macs
    BY <1>7, HeadOfLines, LineFields DEF Record, TypeOK
  <2> DEFINE line == Head(buf)
             new  == IF hosts[line.mac] = None THEN TRUE ELSE Changed(hosts[line.mac], line)
             host == [iface |-> line.iface, ip4 |-> line.ip4,
                      nh |-> IF new THEN None ELSE hosts[line.mac].nh, armed |-> TRUE]
  <2>2. hosts' = [hosts EXCEPT ![line.mac] = host] /\ buf' = buf /\ pc' = "persist"
    BY <1>7 DEF Record
  <2>3. host.iface = line.iface /\ host.ip4 = line.ip4
    OBVIOUS
  <2>4. hosts'[line.mac] = host
    <3> HIDE DEF host
    <3> QED
      BY <2>1, <2>2 DEF TypeOK
  <2>5. hosts'[line.mac] # None
    <3>1. TypeOK'
      BY <1>7, DaemonTypes
    <3>2. hosts'[line.mac].iface \in Ifaces /\ hosts'[line.mac].ip4 \in Ips
      BY <1>7, <2>1, <2>3, <2>4, HeadOfLines, LineFields DEF Record, TypeOK
    <3>3. host \in Hosts
      <4>1. ~ new => hosts[line.mac].nh \in Kinds \cup {None}
        BY <2>1, HostFields DEF Known
      <4> QED
        BY <2>3, <2>4, <3>2, <4>1 DEF Hosts
    <3> QED
      BY <2>4, <3>3, NoneAssumption DEF Hosts
  <2> HIDE DEF host
  <2>6. HeadRecorded'
    BY <1>7, <2>2, <2>3, <2>4, <2>5 DEF HeadRecorded, Record
  <2> QED
    BY <2>2, <2>6
<1>8. CASE OnRelease
  <2>1. Head(buf).mac \in Macs /\ Head(buf).act = "del" /\ buf # <<>>
    BY <1>8, HeadOfLines, LineFields DEF OnRelease, TypeOK
  <2>2. CASE buf' = Tail(buf) /\ LineDone /\ UNCHANGED hosts
    BY <1>4, <1>8, <2>1, <2>2 DEF OnRelease
  <2>3. CASE Forget(Head(buf).mac) /\ pc' = "persist" /\ UNCHANGED buf
    BY <2>1, <2>3 DEF Forget, HeadRecorded, TypeOK
  <2> QED
    BY <1>8, <2>2, <2>3 DEF OnRelease
<1>9. CASE Persist
  BY <1>4, <1>9 DEF Persist, TypeOK
<1>10. CASE EndDaemon
  BY <1>10 DEF EndDaemon
<1> QED
  BY <1>1, <1>2, <1>3, <1>5, <1>6, <1>7, <1>8, <1>9, <1>10 DEF DaemonNext, Daemon

LEMMA HookPlaces ==
    ASSUME TypeOK, HookPlace, Hook, HookNext
    PROVE  HookPlace'
<1> USE DEF HookPlace, notHook, HookExit
<1>1. CASE HookStart
  <2>1. Head(fifo) \in Lines
    BY <1>1, HeadOfLines DEF HookStart, TypeOK
  <2>2. CASE UNCHANGED <<pc, buf>>
    BY <1>1, <2>2 DEF HookStart
  <2>3. CASE /\ pc' \in {"derive", "delete"} /\ buf' = <<Head(fifo)>>
             /\ pc' = "derive" => Head(fifo).act # "del"
    <3>1. Len(buf') = 1 /\ Head(buf') = Head(fifo)
      BY <2>3
    <3> QED
      BY <1>1, <2>3, <3>1 DEF HookStart
  <2> QED
    BY <1>1, <2>1, <2>2, <2>3, LineFields DEF HookStart
<1>2. CASE Derive \/ Find \/ Delete
  BY <1>2 DEF Derive, Find, Delete
<1>3. CASE Replace \/ HookUnarp
  BY <1>3 DEF Replace, HookUnarp
<1> QED
  BY <1>1, <1>2, <1>3 DEF HookNext

LEMMA StepToolStays ==
    ASSUME [Next]_vars
    PROVE  tool' = tool /\ Hook' = Hook
<1>1. tool' = tool
  <2>1. CASE Environment
    BY <2>1, EnvironmentLeaves
  <2>2. CASE DaemonNext
    BY <2>2 DEF DaemonNext, Daemon, Start, Restore, WakeMonitor, WakeFifo, Timeout, Sweep,
           ReadNexthop, Install, DropArp, DropLine, OnLease, Record, OnRelease, Persist,
           EndDaemon, world
  <2>3. CASE HookNext
    BY <2>3 DEF HookNext, HookStart, Derive, Find, Replace, Delete, HookUnarp, world
  <2> QED
    BY <2>1, <2>2, <2>3 DEF Next, vars
<1> QED
  BY <1>1 DEF Hook

LEMMA PlaceAlways == Spec => []PlaceInv
<1>1. Init => PlaceInv
  BY DEF Init, PlaceInv, HookPlace, DaemonPlace
<1>2. TypeOK /\ PlaceInv /\ [Next]_vars => PlaceInv'
  <2> SUFFICES ASSUME TypeOK, PlaceInv, [Next]_vars PROVE PlaceInv'
    OBVIOUS
  <2>1. Hook' = Hook
    BY StepToolStays
  <2>2. CASE UNCHANGED <<pc, hosts, buf, cur>>
    BY <2>1, <2>2 DEF PlaceInv, HookPlace, DaemonPlace, HeadRecorded
  <2>3. CASE ~ Hook /\ DaemonNext
    BY <2>1, <2>3, DaemonPlaces DEF PlaceInv
  <2>4. CASE Hook /\ HookNext
    BY <2>1, <2>4, HookPlaces DEF PlaceInv
  <2> QED
    BY <2>2, <2>3, <2>4, EnvironmentLeaves DEF Next, vars
<1> QED
  BY <1>1, <1>2, TypeCorrect, PTL DEF Spec

-----------------------------------------------------------------------------
(* The state file. *)

\* The records are in the state file, but between a change and its writing.
SavedInv == pc # "persist" /\ ~ unsaved => \A m \in Known : saved[m] = Saved(m)

LEMMA StepSaves ==
    ASSUME TypeOK, PlaceInv, SavedInv, [Next]_vars
    PROVE  SavedInv'
<1> USE DEF SavedInv, files
<1>1. CASE UNCHANGED <<pc, hosts, saved, unsaved>>
  BY <1>1 DEF Known, Saved
<1>2. CASE Hook /\ HookNext
  <2>1. UNCHANGED hosts /\ Known = {}
    BY <1>2 DEF HookNext, HookStart, Derive, Find, Replace, Delete, HookUnarp, notHook,
           PlaceInv, HookPlace, Known
  <2> QED
    BY <2>1 DEF Known
<1>3. CASE ~ Hook /\ DaemonNext
  <2>1. CASE Start \/ WakeMonitor \/ Timeout \/ WakeFifo \/ Sweep \/ DropLine \/ OnLease
    <3>1. UNCHANGED <<hosts, saved, unsaved>> /\ pc # "persist"
      BY <2>1 DEF Start, WakeMonitor, Timeout, WakeFifo, Sweep, DropLine, OnLease
    <3> QED
      BY <3>1 DEF Known, Saved
  <2>2. CASE Restore
    <3>1. ASSUME NEW m \in Macs, hosts'[m] # None
          PROVE  /\ saved[m] # None
                 /\ hosts'[m].iface = saved[m].iface /\ hosts'[m].ip4 = saved[m].ip4
      <4>1. hosts'[m] = [iface |-> saved[m].iface, ip4 |-> saved[m].ip4,
                         nh |-> None, armed |-> TRUE]
            /\ saved[m] # None
        BY <2>2, <3>1 DEF Restore, Restorable, Stale, TypeOK
      <4> QED
        BY <4>1
    <3>2. UNCHANGED <<saved, unsaved>>
      BY <2>2 DEF Restore
    <3>3. \A m \in Macs : saved[m] # None =>
            saved[m] = [iface |-> saved[m].iface, ip4 |-> saved[m].ip4]
      BY DEF TypeOK
    <3>4. ASSUME NEW m \in Macs, hosts'[m] # None PROVE saved'[m] = Saved(m)'
      <4>1. hosts'[m].iface = saved[m].iface /\ hosts'[m].ip4 = saved[m].ip4
        BY <3>1, <3>4
      <4>2. saved[m] = [iface |-> saved[m].iface, ip4 |-> saved[m].ip4]
        BY <3>1, <3>3, <3>4
      <4> QED
        BY <3>2, <3>4, <4>1, <4>2 DEF Saved
    <3> QED
      BY <3>4 DEF Known
  <2>3. CASE ReadNexthop \/ Install \/ DropArp
    <3>1. UNCHANGED <<saved, unsaved>> /\ pc # "persist"
      BY <2>3 DEF ReadNexthop, Install, DropArp
    <3>2. \A m \in Macs : SameHost(m)
      <4>1. ~ Hook /\ TypeOK
        BY <1>3
      <4> QED
        BY <2>3, <4>1, EvaluateKeeps
    <3>3. Known' = Known /\ \A m \in Known : Saved(m)' = Saved(m)
      BY <3>2 DEF Known, Saved, SameHost
    <3> QED
      BY <3>1, <3>3
  <2>4. CASE Record
    BY <2>4 DEF Record
  <2>5. CASE OnRelease
    <3>1. pc' = "persist" \/ (UNCHANGED <<hosts, saved, unsaved>> /\ pc # "persist")
      BY <2>5 DEF OnRelease
    <3> QED
      BY <3>1 DEF Known, Saved
  <2>6. CASE Persist
    BY <2>6 DEF Persist, Known, Saved, Persisted
  <2>7. CASE EndDaemon
    BY <2>7 DEF EndDaemon, Known
  <2> QED
    BY <1>3, <2>1, <2>2, <2>3, <2>4, <2>5, <2>6, <2>7 DEF DaemonNext, Daemon
<1> QED
  BY <1>1, <1>2, <1>3, EnvironmentLeaves DEF Next, vars

(* The state file lets a restart recover every record, whatever was lost,  *)
(* refused, left unnamed or not written before, unless the last write of   *)
(* all failed (persist, restore).                                          *)
THEOREM RecordsAlwaysSaved == Spec => []RecordsAreSaved
<1>1. Init => SavedInv
  BY DEF Init, SavedInv, Known
<1>2. TypeOK /\ PlaceInv /\ SavedInv /\ [Next]_vars => SavedInv'
  BY StepSaves
<1>3. SavedInv => RecordsAreSaved
  BY DEF SavedInv, RecordsAreSaved, Quiet
<1> QED
  BY <1>1, <1>2, <1>3, TypeCorrect, PlaceAlways, PTL DEF Spec

-----------------------------------------------------------------------------
(* Routes have records. *)

Unrouted(m) == \A ip \in Ips : rt[ip] # None => rt[ip].mac # m

\* The route of ip is the one that the record of its host stands for.
HasRecord(ip) ==
    /\ hosts[rt[ip].mac] # None
    /\ hosts[rt[ip].mac].ip4 = ip
    /\ RouteOf(rt[ip].mac) = rt[ip]

\* A daemon that has just started finds no route and no record.  The next hop
\* on record is changed with no route in place only when the link took the
\* route, the address only after a withdrawal.
RecordInv ==
    /\ pc \in {"down", "restore"} =>
         saved = [m \in Macs |-> None] /\ rt = [ip \in Ips |-> None]
    /\ refused = 0 =>
         /\ \A ip \in Ips : rt[ip] # None => HasRecord(ip)
         /\ pc \in {"install", "unarp"} /\ ~ ixLive => Unrouted(cur)
         /\ pc = "record" /\ hosts[Head(buf).mac] # None
              /\ Changed(hosts[Head(buf).mac], Head(buf)) => Unrouted(Head(buf).mac)

\* A withdrawal that is not refused.
LEMMA Withdrawn ==
    ASSUME TypeOK, NEW ip \in Ips, WithdrawRoute(ip), refused' = refused
    PROVE  rt'[ip] = None /\ \A other \in Ips \ {ip} : rt'[other] = rt[other]
<1>1. refused + 1 # refused
  BY BoundsAssumption DEF TypeOK
<1> QED
  BY <1>1 DEF WithdrawRoute, TypeOK

LEMMA LinkRecords ==
    ASSUME TypeOK, RecordInv, ~ Hook, NEW f \in Ifaces, LoseLink(f)
    PROVE  RecordInv'
<1>1. UNCHANGED <<pc, hosts, saved, buf, cur, nhop, refused>>
  BY DEF LoseLink, files
<1>2. \A ip \in Ips : rt'[ip] = IF RoutedOver(ip, f) THEN None ELSE rt[ip]
  BY DEF LoseLink
<1>3. pc \in {"down", "restore"} => rt' = [ip \in Ips |-> None]
  <2> SUFFICES ASSUME pc \in {"down", "restore"} PROVE rt' = [ip \in Ips |-> None]
    OBVIOUS
  <2>1. \A ip \in Ips : rt[ip] = None
    BY DEF RecordInv
  <2> QED
    BY <2>1 DEF LoseLink, RoutedOver
<1>4. ASSUME refused = 0, NEW ip \in Ips, rt'[ip] # None
      PROVE  HasRecord(ip)' /\ rt'[ip] = rt[ip] /\ HasRecord(ip) /\ rt[ip].iface # f
  <2>1. rt'[ip] = rt[ip] /\ rt[ip].iface # f
    BY <1>2, <1>4 DEF RoutedOver
  <2>2. HasRecord(ip)
    BY <1>4, <2>1 DEF RecordInv
  <2> QED
    BY <1>1, <2>1, <2>2 DEF HasRecord, RouteOf
<1>5. ASSUME refused = 0, pc \in {"install", "unarp"}, ~ ixLive'
      PROVE  Unrouted(cur)'
  <2> SUFFICES ASSUME NEW ip \in Ips, rt'[ip] # None, rt'[ip].mac = cur PROVE FALSE
    BY <1>1 DEF Unrouted
  <2>1. rt'[ip] = rt[ip] /\ HasRecord(ip) /\ rt[ip].iface # f
    BY <1>4, <1>5
  <2>2. ixLive
    BY <1>5, <2>1 DEF RecordInv, Unrouted
  <2>3. hosts[cur].iface = f
    BY <1>5, <2>2 DEF LoseLink
  <2> QED
    BY <2>1, <2>3 DEF HasRecord, RouteOf
<1>6. ASSUME refused = 0, pc = "record", hosts[Head(buf).mac] # None,
             Changed(hosts[Head(buf).mac], Head(buf))
      PROVE  Unrouted(Head(buf).mac)'
  BY <1>1, <1>4, <1>6 DEF RecordInv, Unrouted
<1> QED
  BY <1>1, <1>3, <1>4, <1>5, <1>6 DEF RecordInv, Changed

\* Steps that leave routes, records and the place they are used at alone.
LEMMA SameRecords ==
    ASSUME RecordInv, UNCHANGED <<rt, hosts, saved, refused>>, pc' \notin {"down", "record"},
           pc' = "unarp" <=> pc = "unarp",
           pc' = "restore" => pc \in {"down", "restore"},
           pc' = "install" => ixLive',
           pc = "unarp" => UNCHANGED <<cur, nhop, ixLive>>
    PROVE  RecordInv'
BY DEF RecordInv, HasRecord, RouteOf, Unrouted

LEMMA EnvironmentRecords ==
    ASSUME TypeOK, RecordInv, ~ Hook, Environment
    PROVE  RecordInv'
<1>1. CASE UNCHANGED <<rt, hosts, saved, refused, pc, buf, cur, nhop, ixLive>>
  BY <1>1 DEF RecordInv, HasRecord, RouteOf, Unrouted, Changed
<1>2. CASE Dnsmasq
  BY <1>1, <1>2 DEF Dnsmasq, Grant, Renew, End, LoseLine, kernel, daemonVars, files
<1>3. CASE Kernel
  BY <1>1, <1>3, LinkRecords DEF Kernel, ArpForms, CacheChanges, LinkAppears, daemonVars, files
<1> QED
  BY <1>2, <1>3 DEF Environment

LEMMA StepRecords ==
    ASSUME ~ MayEnd, TypeOK, TypeOK', PlaceInv, RecordInv, ~ Hook, [Next]_vars
    PROVE  RecordInv'
<1> USE DEF files, world
<1>1. CASE Environment
  BY <1>1, EnvironmentRecords
<1>2. CASE UNCHANGED vars
  BY <1>2 DEF vars, RecordInv, HasRecord, RouteOf, Unrouted, Changed
<1>3. CASE Start \/ WakeMonitor \/ WakeFifo \/ Timeout \/ Sweep \/ DropLine
  BY <1>3, SameRecords DEF Start, WakeMonitor, WakeFifo, Timeout, Sweep, DropLine, LineDone
<1>4. CASE Restore
  <2>1. hosts' = hosts
    <3>1. \A m \in Macs : saved[m] = None
      BY <1>4 DEF RecordInv, Restore
    <3>2. \A m \in Macs : hosts'[m] = None
      BY <1>4, <3>1 DEF Restore, Restorable, Stale
    <3>3. hosts = [m \in Macs |-> None]
      BY <1>4 DEF PlaceInv, DaemonPlace, Restore
    <3> QED
      BY <3>2, <3>3 DEF TypeOK
  <2> QED
    BY <1>4, <2>1, SameRecords DEF Restore
<1>5. CASE ReadNexthop
  <2>1. ASSUME NEW ip \in Ips, rt[ip] # None, HasRecord(ip)
        PROVE  /\ hosts'[rt[ip].mac] # None
               /\ hosts'[rt[ip].mac].ip4 = ip
               /\ hosts'[rt[ip].mac].iface = hosts[rt[ip].mac].iface
               /\ hosts'[rt[ip].mac].nh = hosts[rt[ip].mac].nh
    <3>1. rt[ip].mac \in Macs /\ rt[ip].mac \in Known
      BY <2>1 DEF TypeOK, Routes, HasRecord, Known
    <3>2. SameHost(rt[ip].mac) /\ hosts'[rt[ip].mac].nh = hosts[rt[ip].mac].nh
      BY <1>5, <3>1, EvaluateKeeps DEF ReadNexthop
    <3> QED
      BY <2>1, <3>2 DEF HasRecord, SameHost
  <2>2. UNCHANGED <<rt, saved, refused>> /\ pc = "read" /\ pc' \in {"install", "sweep", "lines"}
        /\ (pc' = "install" => ixLive')
    BY <1>5 DEF ReadNexthop, Return
  <2>3. ASSUME refused = 0, NEW ip \in Ips, rt[ip] # None
        PROVE  HasRecord(ip)'
    <3>1. HasRecord(ip)
      BY <2>3 DEF RecordInv
    <3>2. pc' # "unarp" /\ pc # "unarp" /\ rt' = rt
      BY <2>2
    <3> QED
      BY <2>1, <2>3, <3>1, <3>2 DEF HasRecord, RouteOf
  <2> QED
    BY <2>2, <2>3 DEF RecordInv
<1>6. CASE Install
  <2>1. cur \in Known /\ cur \in Macs /\ hosts[cur].ip4 \in Ips
    BY <1>6, HostFields DEF Install, TypeOK
  <2>2. CASE /\ ixLive
             /\ rt' = [rt EXCEPT ![hosts[cur].ip4] =
                         [iface |-> hosts[cur].iface, mac |-> cur, nh |-> nhop]]
             /\ pc' = "unarp"
             /\ UNCHANGED <<refused, hosts, cur, nhop, ixLive>>
    <3> DEFINE new == [iface |-> hosts[cur].iface, mac |-> cur, nh |-> nhop]
    <3>1. new.mac = cur
      OBVIOUS
    <3>2. HasRecord(hosts[cur].ip4)'
      <4>1. rt'[hosts[cur].ip4] = new
        BY <2>1, <2>2 DEF TypeOK
      <4>2. RouteOf(cur)' = new
        BY <2>2 DEF RouteOf
      <4> QED
        BY <2>1, <2>2, <3>1, <4>1, <4>2 DEF HasRecord, Known
    <3>3. ASSUME NEW ip \in Ips, ip # hosts[cur].ip4, rt'[ip] # None, refused = 0
          PROVE  HasRecord(ip)'
      <4>1. rt'[ip] = rt[ip]
        BY <2>1, <2>2, <3>3 DEF TypeOK
      <4>2. HasRecord(ip)
        BY <3>3, <4>1 DEF RecordInv
      <4>3. rt[ip].mac # cur
        BY <3>3, <4>2 DEF HasRecord
      <4> QED
        BY <1>6, <2>2, <4>1, <4>2, <4>3 DEF HasRecord, RouteOf, Install
    <3> QED
      BY <2>2, <3>2, <3>3 DEF RecordInv
  <2>3. CASE ~ ixLive /\ Installed /\ UNCHANGED <<rt, refused>>
    <3>1. ASSUME NEW ip \in Ips, rt[ip] # None, refused = 0
          PROVE  HasRecord(ip)'
      <4>1. rt[ip].mac # cur /\ HasRecord(ip)
        BY <1>6, <2>3, <3>1 DEF RecordInv, Unrouted, Install
      <4>2. hosts'[rt[ip].mac] = hosts[rt[ip].mac]
        BY <2>1, <2>3, <4>1 DEF Installed
      <4> QED
        BY <1>6, <2>3, <4>1, <4>2 DEF HasRecord, RouteOf, Install, Installed, Return
    <3> QED
      BY <1>6, <2>3, <3>1 DEF RecordInv, Installed, Return, Install
  <2>4. CASE refused' = refused + 1 /\ Installed
    <3>1. refused' # 0
      BY <2>4, BoundsAssumption DEF TypeOK
    <3> QED
      BY <2>4, <3>1 DEF RecordInv, Installed, Return
  <2> QED
    BY <1>6, <2>2, <2>3, <2>4 DEF Install
<1>7. CASE DropArp
  <2>1. cur \in Known /\ Installed /\ UNCHANGED <<rt, refused>>
    BY <1>7 DEF DropArp, TypeOK
  <2>2. ASSUME NEW ip \in Ips, rt[ip] # None, refused = 0
        PROVE  HasRecord(ip)'
    <3>1. HasRecord(ip) /\ rt[ip].mac \in Macs /\ rt[ip].mac \in Known
      BY <2>2 DEF RecordInv, TypeOK, Routes, HasRecord, Known
    <3>2. SameHost(rt[ip].mac)
      BY <1>7, <3>1, EvaluateKeeps
    <3>3. hosts'[rt[ip].mac].nh = IF rt[ip].mac = cur THEN nhop ELSE hosts[rt[ip].mac].nh
      BY <1>7, <2>1, <3>1, EvaluateKeeps DEF DropArp, Installed, Return
    <3> QED
      BY <1>7, <2>1, <3>1, <3>2, <3>3 DEF HasRecord, RouteOf, SameHost, DropArp, Installed, Return
  <2> QED
    BY <1>7, <2>1, <2>2 DEF RecordInv, Installed, Return
<1>8. CASE OnLease
  <2>1. Head(buf) \in Lines /\ Head(buf).mac \in Macs
    BY <1>8, HeadOfLines, LineFields DEF OnLease, TypeOK
  <2>2. UNCHANGED <<hosts, buf>> /\ pc = "lines" /\ pc' = "record"
    BY <1>8 DEF OnLease
  <2>3. CASE UNCHANGED <<rt, refused>>
           /\ ~ (hosts[Head(buf).mac] # None /\ Changed(hosts[Head(buf).mac], Head(buf)))
    BY <2>2, <2>3 DEF RecordInv, HasRecord, RouteOf, Changed
  <2>4. CASE hosts[Head(buf).mac] # None /\ WithdrawRoute(hosts[Head(buf).mac].ip4)
    <3>1. Head(buf).mac \in Known /\ hosts[Head(buf).mac].ip4 \in Ips
      BY <2>1, <2>4, HostFields DEF Known
    <3>2. ASSUME refused' = 0
          PROVE  /\ refused' = refused /\ refused = 0
                 /\ rt'[hosts[Head(buf).mac].ip4] = None
                 /\ \A other \in Ips \ {hosts[Head(buf).mac].ip4} : rt'[other] = rt[other]
      <4>1. refused' = refused /\ refused = 0
        BY <2>4, <3>2, BoundsAssumption DEF WithdrawRoute, TypeOK
      <4> QED
        BY <2>4, <3>1, <4>1, Withdrawn
    <3>3. ASSUME refused' = 0, NEW ip \in Ips, rt'[ip] # None
          PROVE  HasRecord(ip)' /\ rt'[ip].mac # Head(buf).mac
      <4>1. rt'[ip] = rt[ip] /\ ip # hosts[Head(buf).mac].ip4 /\ HasRecord(ip)
        BY <3>2, <3>3 DEF RecordInv
      <4> QED
        BY <2>2, <4>1 DEF HasRecord, RouteOf
    <3> QED
      BY <2>2, <3>3 DEF RecordInv, Unrouted
  <2> QED
    BY <1>8, <2>3, <2>4 DEF OnLease
<1>9. CASE Record
  <2>1. Head(buf) \in Lines /\ Head(buf).mac \in Macs
    BY <1>9, HeadOfLines, LineFields DEF Record, TypeOK
  <2>2. UNCHANGED <<rt, buf, refused>> /\ pc = "record" /\ pc' = "persist"
    BY <1>9 DEF Record
  <2>3. ASSUME refused = 0, NEW ip \in Ips, rt[ip] # None
        PROVE  HasRecord(ip)'
    <3>1. HasRecord(ip) /\ rt[ip].mac \in Macs
      BY <2>3 DEF RecordInv, TypeOK, Routes
    <3>2. CASE rt[ip].mac # Head(buf).mac
      <4>1. hosts'[rt[ip].mac] = hosts[rt[ip].mac]
        BY <1>9, <2>1, <3>1, <3>2 DEF Record, TypeOK
      <4> QED
        BY <2>2, <3>1, <4>1 DEF HasRecord, RouteOf
    <3>3. CASE rt[ip].mac = Head(buf).mac
      <4> DEFINE m == Head(buf).mac
      <4>1. hosts[m] # None /\ ~ Changed(hosts[m], Head(buf))
        BY <2>2, <2>3, <3>1, <3>3 DEF RecordInv, Unrouted, HasRecord
      <4>2. hosts'[m] = [iface |-> Head(buf).iface, ip4 |-> Head(buf).ip4,
                         nh |-> hosts[m].nh, armed |-> TRUE]
        BY <1>9, <2>1, <4>1 DEF Record, TypeOK
      <4>3. hosts'[m].iface = hosts[m].iface /\ hosts'[m].ip4 = hosts[m].ip4
            /\ hosts'[m].nh = hosts[m].nh
        BY <4>1, <4>2 DEF Changed
      <4>4. hosts'[m] # None
        <5>1. PlaceInv'
          BY <1>9, DaemonPlaces, StepToolStays DEF PlaceInv, DaemonNext, Daemon
        <5>2. HeadRecorded' /\ buf' = buf /\ Head(buf).act # "del"
          BY <1>9, <2>2, <5>1, StepToolStays DEF PlaceInv, DaemonPlace
        <5> QED
          BY <5>2 DEF HeadRecorded
      <4> QED
        BY <2>2, <3>1, <3>3, <4>3, <4>4 DEF HasRecord, RouteOf
    <3> QED
      BY <3>2, <3>3
  <2> QED
    BY <2>2, <2>3 DEF RecordInv
<1>10. CASE OnRelease
  <2>1. Head(buf) \in Lines /\ Head(buf).mac \in Macs
    BY <1>10, HeadOfLines, LineFields DEF OnRelease, TypeOK
  <2>2. CASE UNCHANGED <<rt, refused, hosts>> /\ pc' \in {"poll", "lines"}
    BY <1>10, <2>2 DEF OnRelease, RecordInv, HasRecord, RouteOf
  <2>3. CASE /\ hosts[Head(buf).mac] # None /\ WithdrawRoute(hosts[Head(buf).mac].ip4)
             /\ Forget(Head(buf).mac) /\ pc' = "persist"
    <3>1. Head(buf).mac \in Known /\ hosts[Head(buf).mac].ip4 \in Ips
      BY <2>1, <2>3, HostFields DEF Known
    <3>2. ASSUME refused' = 0, NEW ip \in Ips, rt'[ip] # None
          PROVE  HasRecord(ip)'
      <4>1. refused' = refused /\ refused = 0
        BY <2>3, <3>2, BoundsAssumption DEF WithdrawRoute, TypeOK
      <4>2. rt'[ip] = rt[ip] /\ ip # hosts[Head(buf).mac].ip4
        BY <2>3, <3>1, <3>2, <4>1, Withdrawn
      <4>3. HasRecord(ip) /\ rt[ip].mac \in Macs
        BY <3>2, <4>1, <4>2 DEF RecordInv, TypeOK, Routes
      <4>4. hosts'[rt[ip].mac] = hosts[rt[ip].mac]
        BY <2>3, <4>2, <4>3 DEF Forget, HasRecord
      <4> QED
        BY <1>10, <2>3, <4>2, <4>3, <4>4 DEF HasRecord, RouteOf, OnRelease
    <3> QED
      BY <2>3, <3>2 DEF RecordInv
  <2> QED
    BY <1>10, <2>2, <2>3 DEF OnRelease, LineDone
<1>11. CASE Persist
  <2>1. UNCHANGED <<rt, hosts, refused>> /\ pc = "persist" /\ pc' \in {"read", "poll", "lines"}
    BY <1>11 DEF Persist, LineDone
  <2> QED
    BY <2>1 DEF RecordInv, HasRecord, RouteOf
<1> QED
  BY <1>1, <1>2, <1>3, <1>4, <1>5, <1>6, <1>7, <1>8, <1>9, <1>10, <1>11
  DEF Next, DaemonNext, Daemon, EndDaemon

LEMMA RecordAlways == ASSUME ~ MayEnd PROVE Spec => [](~ Hook => RecordInv)
<1>1. Init => RecordInv
  BY DEF Init, RecordInv
<1>2. TypeOK /\ TypeOK' /\ PlaceInv /\ (~ Hook => RecordInv) /\ [Next]_vars
        => (~ Hook => RecordInv)'
  BY StepRecords, StepToolStays
<1> QED
  BY <1>1, <1>2, TypeCorrect, PlaceAlways, PTL DEF Spec

(* No leaked return route: as long as the kernel refused nothing and the   *)
(* daemon is not ended, every route is the one that the record of its host *)
(* stands for, also in the middle of an install or of a change of lease.   *)
THEOREM RouteAlwaysHasRecord == ASSUME ~ MayEnd PROVE Spec => []RouteHasRecord
<1>1. (~ Hook => RecordInv) => RouteHasRecord
  BY DEF RecordInv, HasRecord, RouteHasRecord
<1> QED
  BY <1>1, RecordAlways, PTL

-----------------------------------------------------------------------------
(* Routes have no IPv4 neighbours beside. *)

\* The tool is about to delete the IPv4 neighbour entry for ip on f.
Unarping(ip, f) ==
    /\ pc = "unarp"
    /\ IF Hook
         THEN ip = Line.ip4 /\ f = Line.iface
         ELSE ixLive /\ ip = hosts[cur].ip4 /\ f = hosts[cur].iface

ArpInv ==
    \A ip \in Ips, f \in Ifaces : RoutedOver(ip, f) /\ f \in arp[ip] => Unarping(ip, f)

\* Where nothing is to be deleted, withdrawing routes does no harm.
LEMMA WithdrawingDropsArp ==
    ASSUME ArpInv, pc # "unarp", arp' = arp, \A ip \in Ips : rt'[ip] \in {rt[ip], None}
    PROVE  ArpInv'
BY DEF ArpInv, RoutedOver, Unarping

LEMMA WithdrawShrinks ==
    ASSUME TypeOK, NEW ip \in Ips, WithdrawRoute(ip)
    PROVE  \A other \in Ips : rt'[other] \in {rt[other], None}
BY DEF WithdrawRoute, TypeOK

LEMMA EnvironmentArp ==
    ASSUME TypeOK, ArpInv, Environment
    PROVE  ArpInv'
<1>1. CASE UNCHANGED <<tool, rt, arp, pc, hosts, buf, cur, ixLive>>
  BY <1>1 DEF ArpInv, RoutedOver, Unarping, Hook, Line
<1>2. CASE Dnsmasq
  BY <1>1, <1>2 DEF Dnsmasq, Grant, Renew, End, LoseLine, kernel, daemonVars
<1>3. ASSUME NEW l \in leases, ArpForms(l) PROVE ArpInv'
  <2>1. UNCHANGED <<tool, rt, pc, hosts, buf, cur, ixLive>>
    BY <1>3 DEF ArpForms, daemonVars
  <2>2. ASSUME NEW ip \in Ips, NEW f \in Ifaces, RoutedOver(ip, f), f \in arp'[ip]
        PROVE  f \in arp[ip]
    BY <1>3, <2>2 DEF ArpForms, TypeOK, Leases
  <2> QED
    BY <2>1, <2>2 DEF ArpInv, RoutedOver, Unarping, Hook, Line
<1>4. ASSUME NEW g \in Ifaces, LoseLink(g) PROVE ArpInv'
  <2>1. UNCHANGED <<tool, pc, hosts, buf, cur>>
    BY <1>4 DEF LoseLink
  <2>2. ASSUME NEW ip \in Ips, NEW f \in Ifaces, RoutedOver(ip, f)', f \in arp'[ip]
        PROVE  RoutedOver(ip, f) /\ f \in arp[ip] /\ f # g
    BY <1>4, <2>2 DEF LoseLink, RoutedOver
  <2>3. ASSUME NEW ip \in Ips, NEW f \in Ifaces, RoutedOver(ip, f)', f \in arp'[ip]
        PROVE  Unarping(ip, f)'
    <3>1. Unarping(ip, f) /\ f # g
      BY <2>2, <2>3 DEF ArpInv
    <3>2. ~ Hook => ixLive'
      BY <1>4, <3>1 DEF LoseLink, Unarping
    <3> QED
      BY <2>1, <3>1, <3>2 DEF Unarping, Hook, Line
  <2> QED
    BY <2>3 DEF ArpInv
<1>5. CASE Kernel
  BY <1>1, <1>3, <1>4, <1>5 DEF Kernel, CacheChanges, LinkAppears, daemonVars
<1> QED
  BY <1>2, <1>5 DEF Environment

\* A route is put in place over f and the entry there is next to go.
LEMMA RoutingUnarps ==
    ASSUME TypeOK, ArpInv, pc # "unarp", arp' = arp,
           NEW ip \in Ips, NEW g \in Ifaces, NEW r \in Routes, r.iface = g,
           rt' = [rt EXCEPT ![ip] = r], Unarping(ip, g)'
    PROVE  ArpInv'
<1>1. ASSUME NEW other \in Ips, NEW f \in Ifaces, RoutedOver(other, f)', f \in arp'[other]
      PROVE  other = ip /\ f = g
  <2>1. rt'[other] = IF other = ip THEN r ELSE rt[other]
    BY DEF TypeOK
  <2>2. ~ (RoutedOver(other, f) /\ f \in arp[other])
    BY DEF ArpInv, Unarping
  <2> QED
    BY <1>1, <2>1, <2>2 DEF RoutedOver
<1> QED
  BY <1>1 DEF ArpInv

\* The entry goes.
LEMMA UnarpingUnarps ==
    ASSUME TypeOK, ArpInv, rt' = rt, NEW ip \in Ips, NEW f, Unarp(ip, f),
           \A g \in Ifaces, other \in Ips : Unarping(other, g) => other = ip /\ g = f
    PROVE  ArpInv'
<1>1. ASSUME NEW other \in Ips, NEW g \in Ifaces, RoutedOver(other, g), g \in arp'[other]
      PROVE  FALSE
  <2>1. arp'[other] \subseteq arp[other] /\ (other = ip => f \notin arp'[other])
    BY DEF Unarp, TypeOK
  <2> QED
    BY <1>1, <2>1 DEF ArpInv
<1> QED
  BY <1>1 DEF ArpInv, RoutedOver

LEMMA DaemonArp ==
    ASSUME ~ MayEnd, TypeOK, ArpInv, ~ Hook, DaemonNext
    PROVE  ArpInv'
<1> USE DEF world, files
<1>0. ~ Hook'
  BY DEF Hook, DaemonNext, Daemon, Start, Restore, WakeMonitor, WakeFifo, Timeout, Sweep,
         ReadNexthop, Install, DropArp, DropLine, OnLease, Record, OnRelease, Persist,
         EndDaemon
<1>1. CASE pc # "unarp" /\ UNCHANGED <<rt, arp>>
  BY <1>1, WithdrawingDropsArp
<1>2. CASE Start \/ Restore \/ WakeMonitor \/ WakeFifo \/ Timeout \/ Sweep
  BY <1>1, <1>2 DEF Start, Restore, WakeMonitor, WakeFifo, Timeout, Sweep
<1>3. CASE ReadNexthop \/ DropLine \/ Record \/ Persist
  BY <1>1, <1>3 DEF ReadNexthop, DropLine, Record, Persist
<1>4. CASE Install
  <2>1. cur \in Known
    BY <1>4 DEF Install, TypeOK
  <2>2. CASE UNCHANGED rt
    BY <1>1, <1>4, <2>2 DEF Install
  <2>3. CASE /\ ixLive
             /\ rt' = [rt EXCEPT ![hosts[cur].ip4] =
                         [iface |-> hosts[cur].iface, mac |-> cur, nh |-> nhop]]
             /\ pc' = "unarp"
             /\ UNCHANGED <<hosts, cur, ixLive>>
    <3> DEFINE r == [iface |-> hosts[cur].iface, mac |-> cur, nh |-> nhop]
    <3>1. r \in Routes /\ r.iface = hosts[cur].iface
      BY <1>4, <2>1, HostFields DEF Routes, Install, TypeOK
    <3>2. PICK ip \in Ips, g \in Ifaces : ip = hosts[cur].ip4 /\ g = hosts[cur].iface
      BY <2>1, HostFields
    <3>3. Unarping(ip, g)'
      BY <1>0, <2>3, <3>2 DEF Unarping
    <3>4. pc # "unarp" /\ arp' = arp /\ hosts[cur].ip4 \in Ips
          /\ rt' = [rt EXCEPT ![hosts[cur].ip4] = r]
      BY <1>4, <2>1, <2>3, HostFields DEF Install
    <3> HIDE DEF r
    <3> QED
      BY <3>1, <3>2, <3>3, <3>4, RoutingUnarps
  <2> QED
    BY <1>4, <2>2, <2>3 DEF Install, Installed
<1>5. CASE DropArp
  <2>1. cur \in Known /\ hosts[cur].ip4 \in Ips /\ rt' = rt
    BY <1>5, HostFields DEF DropArp, TypeOK
  <2>2. CASE ixLive
    <3>1. \A g \in Ifaces, other \in Ips : Unarping(other, g) =>
            other = hosts[cur].ip4 /\ g = hosts[cur].iface
      BY DEF Unarping
    <3>2. Unarp(hosts[cur].ip4, hosts[cur].iface)
      BY <1>5, <2>2 DEF DropArp
    <3> QED
      BY <2>1, <3>1, <3>2, UnarpingUnarps
  <2>3. CASE ~ ixLive
    <3>1. arp' = arp
      BY <1>5, <2>3 DEF DropArp
    <3> QED
      BY <2>1, <2>3, <3>1 DEF ArpInv, RoutedOver, Unarping
  <2> QED
    BY <2>2, <2>3
<1>6. CASE OnLease \/ OnRelease
  <2>1. UNCHANGED arp /\ pc # "unarp"
    BY <1>6 DEF OnLease, OnRelease
  <2>2. CASE UNCHANGED rt
    BY <1>1, <2>1, <2>2
  <2>3. CASE hosts[Head(buf).mac] # None /\ WithdrawRoute(hosts[Head(buf).mac].ip4)
    <3>1. Head(buf).mac \in Known
      BY <1>6, <2>3, HeadOfLines, LineFields DEF OnLease, OnRelease, Known, TypeOK
    <3>2. \A other \in Ips : rt'[other] \in {rt[other], None}
      BY <2>3, <3>1, HostFields, WithdrawShrinks
    <3> QED
      BY <2>1, <3>2, WithdrawingDropsArp
  <2> QED
    BY <1>6, <2>2, <2>3 DEF OnLease, OnRelease
<1> QED
  BY <1>2, <1>3, <1>4, <1>5, <1>6 DEF DaemonNext, Daemon, EndDaemon

LEMMA HookArp ==
    ASSUME TypeOK, ArpInv, Hook, HookNext
    PROVE  ArpInv'
<1> USE DEF world, HookExit
<1>0. Hook'
  BY DEF Hook, HookNext, HookStart, Derive, Find, Replace, Delete, HookUnarp
<1>1. CASE HookStart \/ Derive \/ Find
  <2>1. pc # "unarp" /\ UNCHANGED <<rt, arp>>
    BY <1>1 DEF HookStart, Derive, Find
  <2> QED
    BY <2>1, WithdrawingDropsArp
<1>2. pc # "poll" => Line.ip4 \in Ips /\ Line.iface \in Ifaces /\ Line.mac \in Macs
  BY HeadOfLines, LineFields DEF TypeOK, Line
<1>3. CASE Replace
  <2>1. pc # "unarp" /\ UNCHANGED arp
    BY <1>3 DEF Replace
  <2>2. CASE UNCHANGED rt
    BY <2>1, <2>2, WithdrawingDropsArp
  <2>3. CASE /\ rt' = [rt EXCEPT ![Line.ip4] =
                         [iface |-> Line.iface, mac |-> Line.mac, nh |-> nhop]]
             /\ pc' = "unarp" /\ UNCHANGED buf
    <3> DEFINE r == [iface |-> Line.iface, mac |-> Line.mac, nh |-> nhop]
    <3>1. r \in Routes /\ r.iface = Line.iface
      BY <1>2, <1>3 DEF Routes, Replace, TypeOK
    <3>2. PICK ip \in Ips, g \in Ifaces : ip = Line.ip4 /\ g = Line.iface
      BY <1>2, <1>3 DEF Replace
    <3>3. Unarping(ip, g)'
      BY <1>0, <2>3, <3>2 DEF Unarping, Line
    <3>4. Line.ip4 \in Ips /\ rt' = [rt EXCEPT ![Line.ip4] = r]
      BY <1>2, <1>3, <2>3 DEF Replace
    <3> HIDE DEF r
    <3> QED
      BY <2>1, <3>1, <3>2, <3>3, <3>4, RoutingUnarps
  <2> QED
    BY <1>3, <2>2, <2>3 DEF Replace
<1>4. CASE Delete
  <2>1. pc # "unarp" /\ UNCHANGED arp /\ WithdrawRoute(Line.ip4) /\ Line.ip4 \in Ips
    BY <1>2, <1>4 DEF Delete
  <2> QED
    BY <2>1, WithdrawShrinks, WithdrawingDropsArp
<1>5. CASE HookUnarp
  <2>1. rt' = rt /\ Unarp(Line.ip4, Line.iface) /\ Line.ip4 \in Ips
    BY <1>2, <1>5 DEF HookUnarp
  <2>2. \A g \in Ifaces, other \in Ips : Unarping(other, g) => other = Line.ip4 /\ g = Line.iface
    BY DEF Unarping
  <2> QED
    BY <2>1, <2>2, UnarpingUnarps
<1> QED
  BY <1>1, <1>3, <1>4, <1>5 DEF HookNext

(* A leased address that is routed to its host has no IPv4 neighbour entry *)
(* beside, although one may form up to the moment the route is there: the  *)
(* deletion comes after the route, and no link or line comes between the   *)
(* entry and it (install, "ip -4 neigh del").                              *)
THEOREM NeverArpEntry == ASSUME ~ MayEnd PROVE Spec => []NoArpEntry
<1>1. Init => ArpInv
  BY DEF Init, ArpInv, RoutedOver
<1>2. TypeOK /\ ArpInv /\ [Next]_vars => ArpInv'
  <2> SUFFICES ASSUME TypeOK, ArpInv, [Next]_vars PROVE ArpInv'
    OBVIOUS
  <2>1. CASE UNCHANGED vars
    BY <2>1 DEF vars, ArpInv, RoutedOver, Unarping, Hook, Line
  <2> QED
    BY <2>1, EnvironmentArp, DaemonArp, HookArp DEF Next
<1>3. ArpInv => NoArpEntry
  BY DEF ArpInv, Unarping, NoArpEntry, Quiet
<1> QED
  BY <1>1, <1>2, <1>3, TypeCorrect, PTL DEF Spec


-----------------------------------------------------------------------------
(* Lines on their way. *)

LEMMA ConcatOfLines ==
    ASSUME NEW s \in Seq(Lines), NEW t \in Seq(Lines)
    PROVE  /\ \A e \in Lines : s \o Append(t, e) = Append(s \o t, e)
           /\ s # <<>> => /\ s \o t # <<>> /\ Head(s \o t) = Head(s)
                          /\ Tail(s) \o t = Tail(s \o t)
           /\ t # <<>> => <<Head(t)>> \o Tail(t) = t
<1>1. ASSUME NEW e \in Lines PROVE s \o Append(t, e) = Append(s \o t, e)
  <2>1. Append(t, e) = t \o <<e>> /\ Append(s \o t, e) = (s \o t) \o <<e>> /\ <<e>> \in Seq(Lines)
    BY AppendIsConcat, ConcatProperties
  <2> QED
    BY <2>1, ConcatAssociative
<1>2. ASSUME s # <<>>
      PROVE  s \o t # <<>> /\ Head(s \o t) = Head(s) /\ Tail(s) \o t = Tail(s \o t)
  <2>1. /\ Len(s) \in Nat \ {0} /\ Len(t) \in Nat
        /\ s \o t \in Seq(Lines) /\ Len(s \o t) = Len(s) + Len(t)
        /\ \A i \in 1..Len(s) + Len(t) :
             (s \o t)[i] = IF i <= Len(s) THEN s[i] ELSE t[i - Len(s)]
    BY <1>2, ConcatProperties, EmptySeq, LenProperties
  <2>2. s \o t # <<>> /\ Head(s \o t) = Head(s)
    <3>1. s \o t # <<>>
      BY <2>1, EmptySeq
    <3>2. Head(s \o t) = (s \o t)[1] /\ Head(s) = s[1]
      BY <1>2, <2>1, <3>1, HeadOfLines
    <3> QED
      BY <2>1, <3>1, <3>2
  <2>3. /\ Tail(s) \in Seq(Lines) /\ Len(Tail(s)) = Len(s) - 1
        /\ \A i \in 1..Len(s) - 1 : Tail(s)[i] = s[i + 1]
    BY <1>2, HeadOfLines
  <2>4. /\ Tail(s \o t) \in Seq(Lines) /\ Len(Tail(s \o t)) = Len(s) + Len(t) - 1
        /\ \A i \in 1..Len(s) + Len(t) - 1 : Tail(s \o t)[i] = (s \o t)[i + 1]
    BY <2>1, <2>2, HeadOfLines
  <2>5. /\ Tail(s) \o t \in Seq(Lines) /\ Len(Tail(s) \o t) = Len(s) + Len(t) - 1
        /\ \A i \in 1..Len(s) + Len(t) - 1 :
             (Tail(s) \o t)[i] = IF i <= Len(s) - 1 THEN Tail(s)[i] ELSE t[i - (Len(s) - 1)]
    BY <2>1, <2>3, ConcatProperties
  <2>6. ASSUME NEW i \in 1..Len(s) + Len(t) - 1
        PROVE  (Tail(s) \o t)[i] = Tail(s \o t)[i]
    <3>1. i + 1 \in 1..Len(s) + Len(t) /\ (i + 1) - Len(s) = i - (Len(s) - 1)
      BY <2>1
    <3> QED
      BY <2>1, <2>3, <2>4, <2>5, <3>1
  <2> QED
    BY <2>2, <2>4, <2>5, <2>6, SeqEqual
<1>3. ASSUME t # <<>> PROVE <<Head(t)>> \o Tail(t) = t
  <2>1. /\ Len(t) \in Nat \ {0} /\ Head(t) = t[1] /\ Head(t) \in Lines
        /\ Tail(t) \in Seq(Lines) /\ Len(Tail(t)) = Len(t) - 1
        /\ \A i \in 1..Len(t) - 1 : Tail(t)[i] = t[i + 1]
    BY <1>3, HeadOfLines
  <2>2. <<Head(t)>> \in Seq(Lines) /\ Len(<<Head(t)>>) = 1 /\ <<Head(t)>>[1] = t[1]
    BY <2>1
  <2>3. /\ <<Head(t)>> \o Tail(t) \in Seq(Lines) /\ Len(<<Head(t)>> \o Tail(t)) = Len(t)
        /\ \A i \in 1..Len(t) : (<<Head(t)>> \o Tail(t))[i] =
             IF i <= 1 THEN <<Head(t)>>[i] ELSE Tail(t)[i - 1]
    BY <2>1, <2>2, ConcatProperties
  <2>4. \A i \in 1..Len(t) : (<<Head(t)>> \o Tail(t))[i] = t[i]
    BY <2>1, <2>2, <2>3
  <2> QED
    BY <2>3, <2>4, SeqEqual
<1> QED
  BY <1>1, <1>2, <1>3

\* The lines that are handled next, and those still in the pipe.
Queue == buf \o fifo

LEMMA QueueType ==
    ASSUME TypeOK
    PROVE  /\ Queue \in Seq(Lines)
           /\ Len(Queue) \in Nat
           /\ \A k \in 1..Len(Queue) : Queue[k] \in Lines
           /\ buf # <<>> => Queue # <<>> /\ Head(Queue) = Head(buf)
           /\ buf = <<>> => Queue = fifo
<1>1. Queue \in Seq(Lines) /\ (buf = <<>> => Queue = fifo)
  BY ConcatProperties, ConcatEmptySeq DEF Queue, TypeOK
<1>2. buf # <<>> => Queue # <<>> /\ Head(Queue) = Head(buf)
  BY ConcatOfLines DEF Queue, TypeOK
<1> QED
  BY <1>1, <1>2, ElementOfSeq, LenProperties

\* A line is written, read, handled, or lost unread.
LEMMA QueueSteps ==
    ASSUME TypeOK
    PROVE  /\ UNCHANGED <<buf, fifo>> => Queue' = Queue
           /\ \A e \in Lines : fifo' = Append(fifo, e) /\ buf' = buf => Queue' = Append(Queue, e)
           /\ buf = <<>> /\ buf' = fifo /\ fifo' = <<>> => Queue' = Queue
           /\ buf = <<>> /\ fifo # <<>> /\ buf' = <<Head(fifo)>> /\ fifo' = Tail(fifo) =>
                Queue' = Queue
           /\ buf # <<>> /\ buf' = Tail(buf) /\ fifo' = fifo => Queue' = Tail(Queue)
           /\ buf = <<>> /\ fifo # <<>> /\ buf' = <<>> /\ fifo' = Tail(fifo) =>
                Queue # <<>> /\ Queue' = Tail(Queue)
           /\ buf' = <<>> /\ fifo' = <<>> => Queue' = <<>>
<1>1. buf \in Seq(Lines) /\ fifo \in Seq(Lines) /\ <<>> \in Seq(Lines)
  BY EmptySeq DEF TypeOK
<1>2. fifo # <<>> => Tail(fifo) \in Seq(Lines)
  BY <1>1, HeadOfLines
<1>3. Queue' = buf' \o fifo'
  BY DEF Queue
<1>4. \A s \in Seq(Lines) : <<>> \o s = s /\ s \o <<>> = s
  BY ConcatEmptySeq
<1>5. UNCHANGED <<buf, fifo>> => Queue' = Queue
  BY DEF Queue
<1>6. \A e \in Lines : fifo' = Append(fifo, e) /\ buf' = buf => Queue' = Append(Queue, e)
  BY <1>1, <1>3, ConcatOfLines DEF Queue
<1>7. buf = <<>> /\ buf' = fifo /\ fifo' = <<>> => Queue' = Queue
  BY <1>1, <1>3, <1>4 DEF Queue
<1>8. ASSUME buf = <<>>, fifo # <<>>, buf' = <<Head(fifo)>>, fifo' = Tail(fifo)
      PROVE  Queue' = Queue
  <2>1. Queue' = <<Head(fifo)>> \o Tail(fifo)
    BY <1>3, <1>8
  <2>2. Queue = fifo
    BY <1>1, <1>4, <1>8 DEF Queue
  <2> QED
    BY <1>1, <1>8, <2>1, <2>2, ConcatOfLines
<1>9. buf # <<>> /\ buf' = Tail(buf) /\ fifo' = fifo => Queue' = Tail(Queue)
  BY <1>1, <1>3, ConcatOfLines DEF Queue
<1>10. buf = <<>> /\ fifo # <<>> /\ buf' = <<>> /\ fifo' = Tail(fifo) =>
         Queue # <<>> /\ Queue' = Tail(Queue)
  BY <1>1, <1>2, <1>3, <1>4 DEF Queue
<1>11. buf' = <<>> /\ fifo' = <<>> => Queue' = <<>>
  BY <1>1, <1>3, <1>4
<1> QED
  BY <1>5, <1>6, <1>7, <1>8, <1>9, <1>10, <1>11

\* No later line is about the host of line k; none at all is about m.
LastOf(q, k) == \A j \in k + 1..Len(q) : q[j].mac # q[k].mac
NoneOf(q, m) == \A j \in 1..Len(q) : q[j].mac # m

LEMMA TailOfQueue ==
    ASSUME NEW q \in Seq(Lines), q # <<>>
    PROVE  /\ \A k \in 1..Len(Tail(q)) :
                /\ k + 1 \in 1..Len(q) /\ Tail(q)[k] = q[k + 1]
                /\ LastOf(Tail(q), k) => LastOf(q, k + 1)
           /\ 1 \in 1..Len(q) /\ q[1] = Head(q)
           /\ \A m : NoneOf(Tail(q), m) => IF m = q[1].mac THEN LastOf(q, 1) ELSE NoneOf(q, m)
<1>1. /\ Len(q) \in Nat \ {0} /\ Head(q) = q[1]
      /\ Tail(q) \in Seq(Lines) /\ Len(Tail(q)) = Len(q) - 1
      /\ \A i \in 1..Len(q) - 1 : Tail(q)[i] = q[i + 1]
  BY HeadOfLines
<1>2. ASSUME NEW k \in 1..Len(Tail(q))
      PROVE  /\ k + 1 \in 1..Len(q) /\ Tail(q)[k] = q[k + 1]
             /\ LastOf(Tail(q), k) => LastOf(q, k + 1)
  <2>1. k + 1 \in 1..Len(q) /\ Tail(q)[k] = q[k + 1]
    BY <1>1
  <2>2. ASSUME LastOf(Tail(q), k), NEW j \in k + 1 + 1..Len(q) PROVE q[j].mac # q[k + 1].mac
    <3>1. j - 1 \in k + 1..Len(Tail(q)) /\ j - 1 \in 1..Len(q) - 1 /\ (j - 1) + 1 = j
      BY <1>1
    <3>2. Tail(q)[j - 1] = q[j]
      BY <1>1, <3>1
    <3> QED
      BY <2>1, <2>2, <3>1, <3>2 DEF LastOf
  <2> QED
    BY <2>1, <2>2 DEF LastOf
<1>3. ASSUME NEW m, NoneOf(Tail(q), m)
      PROVE  IF m = q[1].mac THEN LastOf(q, 1) ELSE NoneOf(q, m)
  <2>1. ASSUME NEW j \in 2..Len(q) PROVE q[j].mac # m
    <3>1. j - 1 \in 1..Len(Tail(q)) /\ j - 1 \in 1..Len(q) - 1 /\ (j - 1) + 1 = j
      BY <1>1
    <3>2. Tail(q)[j - 1] = q[j]
      BY <1>1, <3>1
    <3> QED
      BY <1>3, <3>1, <3>2 DEF NoneOf
  <2>2. \A j \in 1..Len(q) : j = 1 \/ j \in 2..Len(q)
    BY <1>1
  <2> QED
    BY <1>1, <2>1, <2>2 DEF LastOf, NoneOf
<1> QED
  BY <1>1, <1>2, <1>3

LEMMA AppendToQueue ==
    ASSUME NEW q \in Seq(Lines), NEW e \in Lines
    PROVE  /\ Len(Append(q, e)) = Len(q) + 1 /\ Append(q, e)[Len(q) + 1] = e
           /\ \A k \in 1..Len(q) : Append(q, e)[k] = q[k]
           /\ \A k \in 1..Len(q) + 1 : k = Len(q) + 1 \/ k \in 1..Len(q)
           /\ \A k \in 1..Len(q) :
                LastOf(Append(q, e), k) => LastOf(q, k) /\ q[k].mac # e.mac
           /\ \A m : NoneOf(Append(q, e), m) => NoneOf(q, m) /\ m # e.mac
<1>1. /\ Len(q) \in Nat /\ Len(Append(q, e)) = Len(q) + 1
      /\ \A k \in 1..Len(q) : Append(q, e)[k] = q[k]
      /\ Append(q, e)[Len(q) + 1] = e
  BY AppendProperties, LenProperties
<1>2. ASSUME NEW k \in 1..Len(q), LastOf(Append(q, e), k)
      PROVE  LastOf(q, k) /\ q[k].mac # e.mac
  <2>1. Len(q) + 1 \in k + 1..Len(q) + 1 /\ \A j \in k + 1..Len(q) :
          j \in k + 1..Len(q) + 1 /\ j \in 1..Len(q)
    BY <1>1
  <2> QED
    BY <1>1, <1>2, <2>1 DEF LastOf
<1>3. ASSUME NEW m, NoneOf(Append(q, e), m) PROVE NoneOf(q, m) /\ m # e.mac
  <2>1. Len(q) + 1 \in 1..Len(q) + 1 /\ \A j \in 1..Len(q) : j \in 1..Len(q) + 1
    BY <1>1
  <2> QED
    BY <1>1, <1>3, <2>1 DEF NoneOf
<1> QED
  BY <1>1, <1>2, <1>3

-----------------------------------------------------------------------------
(* Leases and the lines about them. *)

Leased(m, ip) == \E l \in leases : l.mac = m /\ l.ip4 = ip

\* A line about a grant, a renewal, a move or an end.
Announces(e) ==
    /\ fifo' = Append(fifo, e)
    /\ e.iface # NoIface
    /\ e.act = "add" => \A l \in leases : l.ip4 # e.ip4
    /\ e.act # "add" => Leased(e.mac, e.ip4)
    /\ e.act # "del" => Leased(e.mac, e.ip4)'
    /\ \A m \in Macs, ip \in Ips : Leased(m, ip) =>
         Leased(m, ip)' \/ (e.act = "del" /\ m = e.mac /\ ip = e.ip4)

LEMMA NotifyNames ==
    ASSUME ~ MayOmitIface, NEW act, NEW f \in Ifaces, NEW m, NEW ip, Notify(act, f, m, ip)
    PROVE  fifo' = Append(fifo, [act |-> act, iface |-> f, mac |-> m, ip4 |-> ip])
           /\ f # NoIface
BY NoneAssumption DEF Notify

LEMMA DnsmasqAnnounces ==
    ASSUME ~ MayOmitIface, TypeOK, Dnsmasq
    PROVE  LoseLine \/ \E e \in Lines : Announces(e)
<1>1. ASSUME NEW f \in Ifaces, NEW m \in Macs, NEW ip \in Ips, Grant(f, m, ip)
      PROVE  \E e \in Lines : Announces(e)
  <2> DEFINE e == [act |-> "add", iface |-> f, mac |-> m, ip4 |-> ip]
  <2>1. fifo' = Append(fifo, e) /\ f # NoIface
    BY <1>1, NotifyNames DEF Grant
  <2>2. leases \subseteq leases' /\ [iface |-> f, mac |-> m, ip4 |-> ip] \in leases'
    BY <1>1 DEF Grant
  <2>3. e \in Lines
    BY DEF Lines
  <2>4. Announces(e)
    BY <1>1, <2>1, <2>2 DEF Announces, Leased, Grant
  <2> QED
    BY <2>3, <2>4
<1>2. ASSUME NEW l \in leases, NEW f \in Ifaces, Renew(l, f)
      PROVE  \E e \in Lines : Announces(e)
  <2> DEFINE e == [act |-> "old", iface |-> f, mac |-> l.mac, ip4 |-> l.ip4]
             moved == [l EXCEPT !.iface = f]
  <2>1. fifo' = Append(fifo, e) /\ f # NoIface
    BY <1>2, NotifyNames DEF Renew
  <2>2. l \in Leases /\ moved.mac = l.mac /\ moved.ip4 = l.ip4
    BY DEF TypeOK, Leases
  <2>3. leases' = (leases \ {l}) \cup {moved}
    BY <1>2 DEF Renew
  <2>4. e \in Lines
    BY <2>2 DEF Lines, Leases
  <2> HIDE DEF moved
  <2>5. \A m, ip : Leased(m, ip) => Leased(m, ip)'
    BY <2>2, <2>3 DEF Leased
  <2>6. Leased(l.mac, l.ip4) /\ \E k \in leases' : k.mac = l.mac /\ k.ip4 = l.ip4
    BY <2>2, <2>3 DEF Leased
  <2>7. Announces(e)
    BY <2>1, <2>5, <2>6 DEF Announces, Leased
  <2> QED
    BY <2>4, <2>7
<1>3. ASSUME NEW l \in leases, End(l)
      PROVE  \E e \in Lines : Announces(e)
  <2> DEFINE e == [act |-> "del", iface |-> l.iface, mac |-> l.mac, ip4 |-> l.ip4]
  <2>1. l.iface \in Ifaces /\ e \in Lines
    BY DEF TypeOK, Leases, Lines
  <2>2. fifo' = Append(fifo, e) /\ l.iface # NoIface
    BY <1>3, <2>1, NotifyNames DEF End
  <2>3. leases' = leases \ {l}
    BY <1>3 DEF End
  <2>4. Announces(e)
    BY <2>2, <2>3 DEF Announces, Leased
  <2> QED
    BY <2>1, <2>4
<1> QED
  BY <1>1, <1>2, <1>3 DEF Dnsmasq

-----------------------------------------------------------------------------
(* Records have leases. *)

Named == \A k \in 1..Len(Queue) : Queue[k].iface # NoIface

\* The last line about a host, unless it ends the lease, is about a lease that
\* still is; a record no line is about stands for a lease.
LiveLines ==
    \A k \in 1..Len(Queue) : LastOf(Queue, k) /\ Queue[k].act # "del" =>
        Leased(Queue[k].mac, Queue[k].ip4)

LiveRecords ==
    ~ blind => \A m \in Known : NoneOf(Queue, m) => Leased(m, hosts[m].ip4)

LiveInv == Named /\ LiveLines /\ LiveRecords

LEMMA AnnouncingLive ==
    ASSUME TypeOK, TypeOK', LiveInv, NEW e \in Lines, Announces(e),
           UNCHANGED <<hosts, blind, buf>>
    PROVE  LiveInv'
<1>1. Queue' = Append(Queue, e) /\ Queue \in Seq(Lines)
      /\ \A k \in 1..Len(Queue) : Queue[k] \in Lines
  BY QueueSteps, QueueType DEF Announces
<1>2. /\ Len(Queue') = Len(Queue) + 1 /\ Queue'[Len(Queue) + 1] = e
      /\ \A k \in 1..Len(Queue) : Queue'[k] = Queue[k]
      /\ \A k \in 1..Len(Queue') : k = Len(Queue) + 1 \/ k \in 1..Len(Queue)
      /\ \A k \in 1..Len(Queue) :
           LastOf(Queue', k) => LastOf(Queue, k) /\ Queue[k].mac # e.mac
      /\ \A m : NoneOf(Queue', m) => NoneOf(Queue, m) /\ m # e.mac
  BY <1>1, AppendToQueue
<1>3. Named'
  BY <1>2 DEF Announces, Named, LiveInv
<1>4. ASSUME NEW m \in Macs, NEW ip \in Ips, Leased(m, ip), m # e.mac
      PROVE  Leased(m, ip)'
  BY <1>4 DEF Announces
<1>5. ASSUME NEW k \in 1..Len(Queue'), LastOf(Queue', k), Queue'[k].act # "del"
      PROVE  \E l \in leases' : l.mac = Queue'[k].mac /\ l.ip4 = Queue'[k].ip4
  <2>1. CASE k = Len(Queue) + 1
    BY <1>2, <1>5, <2>1 DEF Announces, Leased
  <2>2. CASE k \in 1..Len(Queue)
    <3>1. Queue'[k] = Queue[k] /\ Queue[k].mac # e.mac /\ LastOf(Queue, k)
      BY <1>2, <1>5, <2>2
    <3>2. Leased(Queue[k].mac, Queue[k].ip4) /\ Queue[k].mac \in Macs /\ Queue[k].ip4 \in Ips
      BY <1>1, <1>5, <2>2, <3>1, LineFields DEF LiveInv, LiveLines
    <3> QED
      BY <1>4, <3>1, <3>2 DEF Leased
  <2> QED
    BY <1>2, <2>1, <2>2
<1>6. ASSUME ~ blind, NEW m \in Known, NoneOf(Queue', m)
      PROVE  \E l \in leases' : l.mac = m /\ l.ip4 = hosts[m].ip4
  BY <1>2, <1>4, <1>6, HostFields DEF LiveInv, LiveRecords, Leased
<1> QED
  BY <1>3, <1>5, <1>6 DEF LiveInv, LiveLines, LiveRecords, Leased, LastOf, NoneOf, Known

\* The head line is handled or lost: what it said of its host holds.
LEMMA HandlingLive ==
    ASSUME TypeOK, LiveInv, Queue # <<>>, Queue' = Tail(Queue), UNCHANGED <<leases, blind>>,
           ~ blind => \A m \in Macs : hosts'[m] # None /\ m # Head(Queue).mac =>
             hosts[m] # None /\ hosts'[m].ip4 = hosts[m].ip4,
           ~ blind => (hosts'[Head(Queue).mac] # None =>
             /\ Head(Queue).act # "del"
             /\ hosts'[Head(Queue).mac].ip4 = Head(Queue).ip4)
    PROVE  LiveInv'
<1>1. Queue \in Seq(Lines)
  BY QueueType
<1>2. /\ \A k \in 1..Len(Queue') :
           /\ k + 1 \in 1..Len(Queue) /\ Queue'[k] = Queue[k + 1]
           /\ LastOf(Queue', k) => LastOf(Queue, k + 1)
      /\ 1 \in 1..Len(Queue) /\ Queue[1] = Head(Queue)
      /\ \A m : NoneOf(Queue', m) =>
           IF m = Queue[1].mac THEN LastOf(Queue, 1) ELSE NoneOf(Queue, m)
  BY <1>1, TailOfQueue
<1>3. Named'
  BY <1>2 DEF LiveInv, Named
<1>4. ASSUME NEW k \in 1..Len(Queue'), LastOf(Queue', k), Queue'[k].act # "del"
      PROVE  \E l \in leases' : l.mac = Queue'[k].mac /\ l.ip4 = Queue'[k].ip4
  BY <1>2, <1>4 DEF LiveInv, LiveLines, Leased
<1>5. ASSUME ~ blind, NEW m \in Macs, hosts'[m] # None, NoneOf(Queue', m)
      PROVE  \E l \in leases' : l.mac = m /\ l.ip4 = hosts'[m].ip4
  <2>1. CASE m = Queue[1].mac
    <3>1. LastOf(Queue, 1) /\ Queue[1].act # "del" /\ hosts'[m].ip4 = Queue[1].ip4
      BY <1>2, <1>5, <2>1
    <3> QED
      BY <1>2, <2>1, <3>1 DEF LiveInv, LiveLines, Leased
  <2>2. CASE m # Queue[1].mac
    <3>1. NoneOf(Queue, m) /\ m \in Known /\ hosts'[m].ip4 = hosts[m].ip4
      BY <1>2, <1>5, <2>2 DEF Known
    <3> QED
      BY <1>5, <3>1 DEF LiveInv, LiveRecords, Leased
  <2> QED
    BY <2>1, <2>2
<1> QED
  BY <1>3, <1>4, <1>5 DEF LiveInv, LiveLines, LiveRecords, Leased, LastOf, NoneOf, Known

LEMMA SameQueueLive ==
    ASSUME LiveInv, UNCHANGED leases, Queue' = Queue, blind' = blind,
           \A m \in Macs : hosts'[m] # None =>
             \/ hosts[m] # None /\ hosts'[m].ip4 = hosts[m].ip4
             \/ ~ NoneOf(Queue, m)
    PROVE  LiveInv'
BY DEF LiveInv, Named, LiveLines, LiveRecords, Leased, LastOf, NoneOf, Known

LEMMA EnvironmentLive ==
    ASSUME ~ MayOmitIface, TypeOK, TypeOK', PlaceInv, LiveInv, ~ Hook, Environment
    PROVE  LiveInv'
<1>1. UNCHANGED <<pc, hosts, blind, buf>>
  BY EnvironmentLeaves
<1>2. CASE Dnsmasq
  <2>1. CASE LoseLine
    <3>1. buf = <<>> /\ fifo # <<>> /\ fifo' = Tail(fifo) /\ \A m \in Macs : hosts[m] = None
      BY <2>1 DEF LoseLine, PlaceInv, DaemonPlace
    <3>2. Queue # <<>> /\ Queue' = Tail(Queue) /\ leases' = leases
      BY <1>1, <2>1, <3>1, QueueSteps DEF LoseLine
    <3>3. Head(Queue) \in Lines
      BY <3>2, QueueType, HeadOfLines
    <3> QED
      BY <1>1, <3>1, <3>2, <3>3, LineFields, HandlingLive
  <2>2. ASSUME NEW e \in Lines, Announces(e) PROVE LiveInv'
    BY <1>1, <2>2, AnnouncingLive
  <2> QED
    BY <1>2, <2>1, <2>2, DnsmasqAnnounces
<1>3. CASE Kernel
  <2>1. UNCHANGED <<leases, fifo>>
    BY <1>3 DEF Kernel, ArpForms, CacheChanges, LoseLink, LinkAppears
  <2>2. Queue' = Queue
    BY <1>1, <2>1, QueueSteps
  <2> QED
    BY <1>1, <2>1, <2>2, SameQueueLive
<1> QED
  BY <1>2, <1>3 DEF Environment

LEMMA StepLive ==
    ASSUME ~ MayOmitIface, TypeOK, TypeOK', PlaceInv, LiveInv, ~ Hook, [Next]_vars
    PROVE  LiveInv'
<1> USE DEF files, world
<1>1. CASE Environment
  BY <1>1, EnvironmentLive
<1>2. CASE UNCHANGED <<leases, hosts, blind>> /\ Queue' = Queue
  BY <1>2, SameQueueLive
<1>3. CASE UNCHANGED vars \/ Start \/ WakeMonitor \/ Timeout \/ Sweep \/ OnLease
  <2>1. UNCHANGED <<leases, hosts, blind, buf, fifo>>
    BY <1>3 DEF vars, Start, WakeMonitor, Timeout, Sweep, OnLease
  <2> QED
    BY <1>2, <2>1, QueueSteps
<1>4. CASE WakeFifo
  <2>1. UNCHANGED <<leases, hosts, blind>> /\ buf = <<>> /\ buf' = fifo /\ fifo' = <<>>
    BY <1>4 DEF WakeFifo, PlaceInv, DaemonPlace
  <2> QED
    BY <1>2, <2>1, QueueSteps
<1>5. pc \in {"lines", "record", "persist"} =>
        /\ buf # <<>> /\ Head(buf) \in Lines /\ Head(buf).mac \in Macs
        /\ Queue # <<>> /\ Head(Queue) = Head(buf)
        /\ 1 \in 1..Len(Queue) /\ Queue[1] = Head(Queue)
  BY QueueType, HeadOfLines, LineFields, TailOfQueue DEF TypeOK
<1>6. CASE Restore
  <2>1. UNCHANGED <<leases, buf, fifo>> /\ Queue' = Queue
    BY <1>6, QueueSteps DEF Restore
  <2>2. ASSUME ~ blind', NEW m \in Macs, hosts'[m] # None
        PROVE  Leased(m, hosts'[m].ip4)
    <3>1. Restorable(m) /\ hosts'[m] = [iface |-> saved[m].iface, ip4 |-> saved[m].ip4,
                                        nh |-> None, armed |-> TRUE]
      BY <1>6, <2>2 DEF Restore
    <3>2. hosts'[m].ip4 = saved[m].ip4
      BY <3>1
    <3> QED
      BY <3>1, <3>2 DEF Restorable, Leased
  <2>3. LiveRecords'
    BY <2>1, <2>2 DEF LiveRecords, Leased, Known
  <2>4. Named' /\ LiveLines'
    BY <2>1 DEF LiveInv, Named, LiveLines, Leased, LastOf
  <2> QED
    BY <2>3, <2>4 DEF LiveInv
<1>7. CASE ReadNexthop \/ Install \/ DropArp
  <2>1. UNCHANGED <<leases, blind, buf, fifo>>
    BY <1>7 DEF ReadNexthop, Install, DropArp
  <2>2. ASSUME NEW m \in Macs, hosts'[m] # None
        PROVE  hosts[m] # None /\ hosts'[m].ip4 = hosts[m].ip4
    BY <1>7, <2>2, EvaluateKeeps DEF SameHost
  <2> QED
    BY <2>1, <2>2, QueueSteps, SameQueueLive
<1>8. CASE DropLine
  <2>1. Queue[1].iface = NoIface
    BY <1>5, <1>8 DEF DropLine
  <2> QED
    BY <1>5, <1>8, <2>1 DEF LiveInv, Named, DropLine
<1>9. CASE Record
  <2>1. UNCHANGED <<leases, blind, buf, fifo>> /\ ~ NoneOf(Queue, Head(buf).mac)
    BY <1>5, <1>9 DEF Record, NoneOf
  <2>2. \A m \in Macs : m # Head(buf).mac => hosts'[m] = hosts[m]
    BY <1>9 DEF Record, TypeOK
  <2> QED
    BY <2>1, <2>2, QueueSteps, SameQueueLive
<1>10. CASE OnRelease
  <2>1. CASE buf' = Tail(buf) /\ UNCHANGED hosts /\ hosts[Head(buf).mac] = None
    <3>1. UNCHANGED <<leases, blind, fifo>> /\ Queue' = Tail(Queue)
      BY <1>5, <1>10, <2>1, QueueSteps DEF OnRelease
    <3> QED
      BY <1>5, <1>10, <2>1, <3>1, HandlingLive DEF OnRelease
  <2>2. CASE UNCHANGED buf /\ Forget(Head(buf).mac)
    <3>1. UNCHANGED <<leases, blind, fifo>> /\ Queue' = Queue
      BY <1>10, <2>2, QueueSteps DEF OnRelease
    <3>2. \A m \in Macs : hosts'[m] # None => hosts'[m] = hosts[m]
      BY <2>2 DEF Forget, TypeOK
    <3> QED
      BY <3>1, <3>2, SameQueueLive
  <2> QED
    BY <1>10, <2>1, <2>2 DEF OnRelease
<1>11. CASE Persist
  <2>1. UNCHANGED <<leases, hosts, blind, fifo>> /\ buf' = Tail(buf) /\ pc = "persist"
    BY <1>11 DEF Persist
  <2>2. HeadRecorded
    BY <2>1 DEF PlaceInv, DaemonPlace
  <2>3. Queue' = Tail(Queue)
    BY <1>5, <2>1, QueueSteps
  <2> QED
    BY <1>5, <2>1, <2>2, <2>3, HandlingLive DEF HeadRecorded
<1>12. CASE EndDaemon
  <2>1. Queue' = <<>> /\ \A m \in Macs : hosts'[m] = None
    BY <1>12, QueueSteps DEF EndDaemon
  <2>2. \A k \in 1..Len(Queue') : FALSE
    BY <2>1, EmptySeq
  <2> QED
    BY <2>1, <2>2 DEF LiveInv, Named, LiveLines, LiveRecords, Known
<1> QED
  BY <1>1, <1>3, <1>4, <1>6, <1>7, <1>8, <1>9, <1>10, <1>11, <1>12
  DEF Next, DaemonNext, Daemon

LEMMA EmptyAtFirst ==
    ASSUME Init
    PROVE  Queue = <<>> /\ \A k \in 1..Len(Queue) : FALSE
<1>1. Queue = <<>>
  BY ConcatEmptySeq, EmptySeq DEF Init, Queue
<1> QED
  BY <1>1, EmptySeq

(* No record outlives its lease, also when the line that ended it was lost *)
(* with the daemon or while it was down (restore, "prune leases dnsmasq    *)
(* has since dropped"), as long as dnsmasq names an interface in every     *)
(* line.                                                                   *)
THEOREM RecordsAlwaysLive == ASSUME ~ MayOmitIface PROVE Spec => []RecordsAreLive
<1> DEFINE Inv == ~ Hook => LiveInv
<1>1. Init => Inv
  BY EmptyAtFirst DEF Init, LiveInv, Named, LiveLines, LiveRecords, Known
<1>2. TypeOK /\ TypeOK' /\ PlaceInv /\ Inv /\ [Next]_vars => Inv'
  BY StepLive, StepToolStays
<1>3. TypeOK /\ PlaceInv /\ Inv => RecordsAreLive
  <2> SUFFICES ASSUME TypeOK, PlaceInv, Inv, Quiet, ~ blind, NEW m \in Known
               PROVE  Leased(m, hosts[m].ip4)
    BY DEF RecordsAreLive, Leased
  <2>1. ~ Hook
    BY DEF PlaceInv, HookPlace, Known
  <2>2. buf = <<>> /\ fifo = <<>>
    BY <2>1 DEF Quiet, PlaceInv, DaemonPlace
  <2>3. NoneOf(Queue, m)
    BY <2>2, QueueType, EmptySeq DEF NoneOf
  <2> QED
    BY <2>1, <2>3 DEF LiveInv, LiveRecords
<1> QED
  BY <1>1, <1>2, <1>3, TypeCorrect, PlaceAlways, PTL DEF Spec

-----------------------------------------------------------------------------
(* Who will hold an address when the lines up to some point are handled.   *)

\* In the queue q after its k-th line, the next line about ip renews or ends a
\* lease of m, or there is none and m has the lease.
HeldAfter(ls, q, k, ip, m) ==
    \/ \E j \in k + 1..Len(q) :
         /\ q[j].ip4 = ip /\ q[j].mac = m /\ q[j].act # "add"
         /\ \A i \in k + 1..j - 1 : q[i].ip4 # ip
    \/ /\ \A j \in k + 1..Len(q) : q[j].ip4 # ip
       /\ \E l \in ls : l.mac = m /\ l.ip4 = ip

LEMMA HeldAfterTail ==
    ASSUME NEW q \in Seq(Lines), q # <<>>, NEW k \in 0..Len(q) - 1, NEW ls, NEW ip, NEW m,
           HeldAfter(ls, q, k + 1, ip, m)
    PROVE  HeldAfter(ls, Tail(q), k, ip, m)
<1>1. /\ Len(q) \in Nat \ {0} /\ Len(Tail(q)) = Len(q) - 1
      /\ \A i \in 1..Len(q) - 1 : Tail(q)[i] = q[i + 1]
  BY HeadOfLines
<1>2. ASSUME NEW j \in k + 1 + 1..Len(q),
             q[j].ip4 = ip, q[j].mac = m, q[j].act # "add",
             \A i \in k + 1 + 1..j - 1 : q[i].ip4 # ip
      PROVE  HeldAfter(ls, Tail(q), k, ip, m)
  <2>1. j - 1 \in k + 1..Len(Tail(q)) /\ Tail(q)[j - 1] = q[j]
    <3>1. j - 1 \in k + 1..Len(Tail(q)) /\ j - 1 \in 1..Len(q) - 1 /\ (j - 1) + 1 = j
      BY <1>1
    <3> QED
      BY <1>1, <3>1
  <2>2. ASSUME NEW i \in k + 1..(j - 1) - 1 PROVE Tail(q)[i].ip4 # ip
    <3>1. i \in 1..Len(q) - 1 /\ i + 1 \in k + 1 + 1..j - 1
      BY <1>1
    <3> QED
      BY <1>1, <1>2, <3>1
  <2> QED
    BY <1>2, <2>1, <2>2 DEF HeldAfter
<1>3. ASSUME \A j \in k + 1 + 1..Len(q) : q[j].ip4 # ip, \E l \in ls : l.mac = m /\ l.ip4 = ip
      PROVE  HeldAfter(ls, Tail(q), k, ip, m)
  <2>1. ASSUME NEW j \in k + 1..Len(Tail(q)) PROVE Tail(q)[j].ip4 # ip
    <3>1. j \in 1..Len(q) - 1 /\ j + 1 \in k + 1 + 1..Len(q)
      BY <1>1
    <3> QED
      BY <1>1, <1>3, <3>1
  <2> QED
    BY <1>3, <2>1 DEF HeldAfter
<1> QED
  BY <1>2, <1>3 DEF HeldAfter

LEMMA HeldAfterAppend ==
    ASSUME NEW q \in Seq(Lines), NEW e \in Lines, NEW k \in 0..Len(q),
           NEW ls, NEW new, NEW ip, NEW m, HeldAfter(ls, q, k, ip, m),
           (\E l \in ls : l.mac = m /\ l.ip4 = ip) =>
             IF e.ip4 = ip THEN e.mac = m /\ e.act # "add"
                           ELSE \E l \in new : l.mac = m /\ l.ip4 = ip
    PROVE  HeldAfter(new, Append(q, e), k, ip, m)
<1>1. /\ Len(q) \in Nat /\ Len(Append(q, e)) = Len(q) + 1
      /\ \A i \in 1..Len(q) : Append(q, e)[i] = q[i]
      /\ Append(q, e)[Len(q) + 1] = e
  BY AppendProperties, LenProperties
<1>2. ASSUME NEW j \in k + 1..Len(q),
             q[j].ip4 = ip, q[j].mac = m, q[j].act # "add",
             \A i \in k + 1..j - 1 : q[i].ip4 # ip
      PROVE  HeldAfter(new, Append(q, e), k, ip, m)
  <2>1. j \in k + 1..Len(q) + 1 /\ j \in 1..Len(q) /\ \A i \in k + 1..j - 1 : i \in 1..Len(q)
    BY <1>1
  <2> QED
    BY <1>1, <1>2, <2>1 DEF HeldAfter
<1>3. ASSUME \A j \in k + 1..Len(q) : q[j].ip4 # ip, \E l \in ls : l.mac = m /\ l.ip4 = ip
      PROVE  HeldAfter(new, Append(q, e), k, ip, m)
  <2>1. \A i \in k + 1..Len(q) : i \in 1..Len(q)
    BY <1>1
  <2>2. CASE e.ip4 = ip
    <3>1. Len(q) + 1 \in k + 1..Len(q) + 1 /\ (Len(q) + 1) - 1 = Len(q)
      BY <1>1
    <3> QED
      BY <1>1, <1>3, <2>1, <2>2, <3>1 DEF HeldAfter
  <2>3. CASE e.ip4 # ip
    <3>1. \A i \in k + 1..Len(q) + 1 : i = Len(q) + 1 \/ i \in k + 1..Len(q)
      BY <1>1
    <3> QED
      BY <1>1, <1>3, <2>1, <2>3, <3>1 DEF HeldAfter
  <2> QED
    BY <2>2, <2>3
<1> QED
  BY <1>2, <1>3 DEF HeldAfter

LEMMA HeldAfterHead ==
    ASSUME NEW q \in Seq(Lines), q # <<>>, NEW ls, NEW ip, NEW m, HeldAfter(ls, q, 0, ip, m)
    PROVE  IF Head(q).ip4 = ip THEN Head(q).mac = m /\ Head(q).act # "add"
                               ELSE HeldAfter(ls, q, 1, ip, m)
<1>1. Len(q) \in Nat \ {0} /\ Head(q) = q[1]
  BY HeadOfLines
<1>2. ASSUME NEW j \in 0 + 1..Len(q),
             q[j].ip4 = ip, q[j].mac = m, q[j].act # "add",
             \A i \in 0 + 1..j - 1 : q[i].ip4 # ip
      PROVE  IF Head(q).ip4 = ip THEN Head(q).mac = m /\ Head(q).act # "add"
                                 ELSE HeldAfter(ls, q, 1, ip, m)
  <2>1. j = 1 \/ (1 \in 0 + 1..j - 1 /\ j \in 1 + 1..Len(q)
                   /\ \A i \in 1 + 1..j - 1 : i \in 0 + 1..j - 1)
    BY <1>1
  <2> QED
    BY <1>1, <1>2, <2>1 DEF HeldAfter
<1>3. ASSUME \A j \in 0 + 1..Len(q) : q[j].ip4 # ip, \E l \in ls : l.mac = m /\ l.ip4 = ip
      PROVE  Head(q).ip4 # ip /\ HeldAfter(ls, q, 1, ip, m)
  <2>1. 1 \in 0 + 1..Len(q) /\ \A j \in 1 + 1..Len(q) : j \in 0 + 1..Len(q)
    BY <1>1
  <2> QED
    BY <1>1, <1>3, <2>1 DEF HeldAfter
<1> QED
  BY <1>2, <1>3 DEF HeldAfter

LEMMA HeldByOne ==
    ASSUME NEW q \in Seq(Lines), NEW k \in Nat, NEW ip, NEW m1, NEW m2,
           NEW ls, \A l1, l2 \in ls : l1.ip4 = l2.ip4 => l1 = l2,
           HeldAfter(ls, q, k, ip, m1), HeldAfter(ls, q, k, ip, m2)
    PROVE  m1 = m2
<1>1. Len(q) \in Nat
  BY LenProperties
<1>2. ASSUME NEW j1 \in k + 1..Len(q), NEW j2 \in k + 1..Len(q), q[j1].ip4 = ip, q[j2].ip4 = ip,
             \A i \in k + 1..j1 - 1 : q[i].ip4 # ip, \A i \in k + 1..j2 - 1 : q[i].ip4 # ip
      PROVE  j1 = j2
  <2>1. j1 < j2 => j1 \in k + 1..j2 - 1
    BY <1>1
  <2>2. j2 < j1 => j2 \in k + 1..j1 - 1
    BY <1>1
  <2> QED
    BY <1>1, <1>2, <2>1, <2>2
<1> QED
  BY <1>2 DEF HeldAfter

-----------------------------------------------------------------------------
(* Routes and records are for whoever holds the address. *)

Unique == \A l1, l2 \in leases : l1.ip4 = l2.ip4 => l1 = l2

\* A line that does not end its lease is followed by one that renews or ends
\* it, or the lease is there.
LinesHeld ==
    \A k \in 1..Len(Queue) : Queue[k].act # "del" =>
        HeldAfter(leases, Queue, k, Queue[k].ip4, Queue[k].mac)

QueueHeld == Unique /\ Named /\ LinesHeld

\* Once the head line is in the records, what counts comes after it.
Past == IF pc = "persist" THEN 1 ELSE 0

RecordsHeld == \A m \in Known : HeldAfter(leases, Queue, Past, hosts[m].ip4, m)

\* The script installs the route of a new lease first of all, and withdraws
\* that of a lease that ended.
RouteHeld(ip) ==
    IF buf # <<>> /\ ip = Line.ip4
      THEN /\ rt[ip].mac = Line.mac
           /\ Line.act = "add" => pc = "unarp"
           /\ Line.act = "del" => pc = "delete"
      ELSE HeldAfter(leases, Queue, 0, ip, rt[ip].mac)

RoutesHeld == \A ip \in Ips : rt[ip] # None => RouteHeld(ip)

HeldInv == QueueHeld /\ (~ Hook => RecordsHeld) /\ (Hook => RoutesHeld)

LEMMA DnsmasqUnique ==
    ASSUME TypeOK, Unique, Dnsmasq
    PROVE  Unique'
<1>1. ASSUME NEW f \in Ifaces, NEW m \in Macs, NEW ip \in Ips, Grant(f, m, ip) PROVE Unique'
  BY <1>1 DEF Grant, Unique
<1>2. ASSUME NEW l \in leases, NEW f \in Ifaces, Renew(l, f) PROVE Unique'
  <2> DEFINE moved == [l EXCEPT !.iface = f]
  <2>1. leases' = (leases \ {l}) \cup {moved} /\ moved.ip4 = l.ip4
    BY <1>2 DEF Renew, TypeOK, Leases
  <2> HIDE DEF moved
  <2> QED
    BY <2>1 DEF Unique
<1>3. CASE leases' \subseteq leases
  BY <1>3 DEF Unique
<1> QED
  BY <1>1, <1>2, <1>3 DEF Dnsmasq, End, LoseLine

LEMMA AnnouncingHeld ==
    ASSUME TypeOK, QueueHeld, NEW e \in Lines, Announces(e), Unique', UNCHANGED buf
    PROVE  /\ QueueHeld'
           /\ \A k \in 0..Len(Queue), ip \in Ips, m \in Macs :
                HeldAfter(leases, Queue, k, ip, m) => HeldAfter(leases', Queue', k, ip, m)
<1>1. /\ Queue' = Append(Queue, e) /\ Queue \in Seq(Lines) /\ Len(Queue) \in Nat
      /\ \A k \in 1..Len(Queue) : Queue[k] \in Lines
  BY QueueSteps, QueueType DEF Announces
<1>2. /\ Len(Queue') = Len(Queue) + 1 /\ Queue'[Len(Queue) + 1] = e
      /\ \A k \in 1..Len(Queue) : Queue'[k] = Queue[k]
      /\ \A k \in 1..Len(Queue') : k = Len(Queue) + 1 \/ k \in 1..Len(Queue)
  BY <1>1, AppendToQueue
<1>3. ASSUME NEW k \in 0..Len(Queue), NEW ip \in Ips, NEW m \in Macs,
             HeldAfter(leases, Queue, k, ip, m)
      PROVE  HeldAfter(leases', Queue', k, ip, m)
  <2>1. ASSUME NEW l \in leases, l.mac = m, l.ip4 = ip, e.ip4 = ip
        PROVE  e.mac = m /\ e.act # "add"
    BY <2>1 DEF Announces, Leased, QueueHeld, Unique
  <2>2. ASSUME NEW l \in leases, l.mac = m, l.ip4 = ip, e.ip4 # ip
        PROVE  \E new \in leases' : new.mac = m /\ new.ip4 = ip
    BY <2>2 DEF Announces, Leased
  <2> QED
    BY <1>1, <1>3, <2>1, <2>2, HeldAfterAppend
<1>4. Named'
  BY <1>2 DEF Announces, QueueHeld, Named
<1>5. ASSUME NEW k \in 1..Len(Queue'), Queue'[k].act # "del"
      PROVE  HeldAfter(leases', Queue', k, Queue'[k].ip4, Queue'[k].mac)
  <2>1. CASE k = Len(Queue) + 1
    <3>1. \E l \in leases' : l.mac = e.mac /\ l.ip4 = e.ip4
      BY <1>2, <1>5, <2>1 DEF Announces, Leased
    <3>2. \A j \in k + 1..Len(Queue') : FALSE
      BY <1>1, <1>2, <2>1
    <3> QED
      BY <1>2, <2>1, <3>1, <3>2 DEF HeldAfter
  <2>2. CASE k \in 1..Len(Queue)
    <3>1. Queue'[k] = Queue[k] /\ k \in 0..Len(Queue)
          /\ Queue[k].ip4 \in Ips /\ Queue[k].mac \in Macs
      BY <1>1, <1>2, <2>2, LineFields
    <3>2. HeldAfter(leases, Queue, k, Queue[k].ip4, Queue[k].mac)
      BY <1>5, <2>2, <3>1 DEF QueueHeld, LinesHeld
    <3> QED
      BY <1>3, <3>1, <3>2
  <2> QED
    BY <1>2, <2>1, <2>2
<1> QED
  BY <1>3, <1>4, <1>5 DEF QueueHeld, LinesHeld

LEMMA HandlingHeld ==
    ASSUME TypeOK, QueueHeld, Queue # <<>>, Queue' = Tail(Queue), UNCHANGED leases
    PROVE  /\ QueueHeld'
           /\ \A ip, m : HeldAfter(leases, Queue, 1, ip, m) => HeldAfter(leases', Queue', 0, ip, m)
<1>1. Queue \in Seq(Lines) /\ Len(Queue) \in Nat \ {0} /\ Len(Queue') = Len(Queue) - 1
  BY QueueType, HeadOfLines
<1>2. \A k \in 1..Len(Queue') : k + 1 \in 1..Len(Queue) /\ Queue'[k] = Queue[k + 1]
  BY <1>1, TailOfQueue
<1>3. ASSUME NEW k \in 0..Len(Queue'), NEW ip, NEW m, HeldAfter(leases, Queue, k + 1, ip, m)
      PROVE  HeldAfter(leases', Queue', k, ip, m)
  BY <1>1, <1>3, HeldAfterTail
<1>4. Unique' /\ Named'
  BY <1>2 DEF QueueHeld, Unique, Named
<1>5. ASSUME NEW k \in 1..Len(Queue'), Queue'[k].act # "del"
      PROVE  HeldAfter(leases', Queue', k, Queue'[k].ip4, Queue'[k].mac)
  <2>1. HeldAfter(leases, Queue, k + 1, Queue[k + 1].ip4, Queue[k + 1].mac)
    BY <1>2, <1>5 DEF QueueHeld, LinesHeld
  <2> QED
    BY <1>1, <1>2, <1>3, <2>1
<1>6. 0 \in 0..Len(Queue') /\ 0 + 1 = 1
  BY <1>1
<1> QED
  BY <1>3, <1>4, <1>5, <1>6 DEF QueueHeld, LinesHeld

LEMMA SameQueueHeld ==
    ASSUME QueueHeld, UNCHANGED leases, Queue' = Queue
    PROVE  QueueHeld'
BY DEF QueueHeld, Unique, Named, LinesHeld

\* The head line is the next to be handled; its record is not yet, or just, made.
LEMMA HeadOfQueue ==
    ASSUME TypeOK, QueueHeld, buf # <<>>
    PROVE  /\ Queue \in Seq(Lines) /\ Queue # <<>>
           /\ Head(Queue) = Head(buf) /\ Head(buf) \in Lines
           /\ Head(buf).mac \in Macs /\ Head(buf).ip4 \in Ips
           /\ Head(buf).iface # NoIface
           /\ Head(buf).act # "del" =>
                HeldAfter(leases, Queue, 1, Head(buf).ip4, Head(buf).mac)
<1>1. /\ Queue \in Seq(Lines) /\ Queue # <<>>
      /\ Head(Queue) = Head(buf) /\ Head(buf) \in Lines
      /\ Queue[1] = Head(buf) /\ 1 \in 1..Len(Queue)
  BY QueueType, HeadOfLines, TailOfQueue DEF TypeOK
<1> QED
  BY <1>1, LineFields DEF QueueHeld, Named, LinesHeld

LEMMA EnvironmentHeld ==
    ASSUME ~ MayOmitIface, TypeOK, PlaceInv, HeldInv, Environment
    PROVE  HeldInv'
<1>1. UNCHANGED <<tool, pc, hosts, buf>> /\ Hook' = Hook
  BY EnvironmentLeaves DEF Hook
<1>2. \A ip \in Ips : rt'[ip] # None => rt[ip] # None /\ rt'[ip] = rt[ip]
  BY DEF Environment, Dnsmasq, Kernel, Grant, Renew, End, LoseLine, kernel, ArpForms,
         CacheChanges, LoseLink, LinkAppears
<1>3. ASSUME NEW e \in Lines, Announces(e), Unique' PROVE HeldInv'
  <2>1. QueueHeld' /\ \A k \in 0..Len(Queue), ip \in Ips, m \in Macs :
          HeldAfter(leases, Queue, k, ip, m) => HeldAfter(leases', Queue', k, ip, m)
    BY <1>1, <1>3, AnnouncingHeld DEF HeldInv
  <2>2. ASSUME ~ Hook PROVE RecordsHeld'
    <3>1. Past \in 0..Len(Queue)
      BY QueueType, EmptySeq DEF Past, TypeOK
    <3>2. ASSUME NEW m \in Known PROVE HeldAfter(leases', Queue', Past, hosts[m].ip4, m)
      BY <2>1, <2>2, <3>1, HostFields DEF HeldInv, RecordsHeld
    <3> QED
      BY <1>1, <3>2 DEF RecordsHeld, Past, Known
  <2>3. ASSUME Hook PROVE RoutesHeld'
    <3>1. 0 \in 0..Len(Queue)
      BY QueueType
    <3>2. ASSUME NEW ip \in Ips, rt'[ip] # None PROVE RouteHeld(ip)'
      <4>1. RouteHeld(ip) /\ rt'[ip] = rt[ip] /\ rt[ip].mac \in Macs
        BY <1>2, <2>3, <3>2 DEF HeldInv, RoutesHeld, TypeOK, Routes
      <4>2. CASE buf # <<>> /\ ip = Line.ip4
        BY <1>1, <4>1, <4>2 DEF RouteHeld, Line
      <4>3. CASE ~ (buf # <<>> /\ ip = Line.ip4)
        BY <1>1, <2>1, <3>1, <4>1, <4>3 DEF RouteHeld, Line
      <4> QED
        BY <4>2, <4>3
    <3> QED
      BY <3>2 DEF RoutesHeld
  <2> QED
    BY <1>1, <2>1, <2>2, <2>3 DEF HeldInv
<1>4. CASE LoseLine
  <2>1. buf = <<>> /\ fifo # <<>> /\ fifo' = Tail(fifo) /\ ~ Hook /\ Known = {}
    BY <1>4 DEF LoseLine, PlaceInv, DaemonPlace, HookPlace, TypeOK, Hook, HookSteps, Known
  <2>2. Queue # <<>> /\ Queue' = Tail(Queue) /\ leases' = leases
    BY <1>1, <1>4, <2>1, QueueSteps DEF LoseLine
  <2>3. QueueHeld'
    BY <2>2, HandlingHeld DEF HeldInv
  <2> QED
    BY <1>1, <2>1, <2>3 DEF HeldInv, RecordsHeld, Known
<1>5. CASE Dnsmasq
  BY <1>3, <1>4, <1>5, DnsmasqAnnounces, DnsmasqUnique DEF HeldInv, QueueHeld
<1>6. CASE Kernel
  <2>1. UNCHANGED <<leases, fifo>> /\ Queue' = Queue
    BY <1>1, <1>6, QueueSteps DEF Kernel, ArpForms, CacheChanges, LoseLink, LinkAppears
  <2>2. QueueHeld'
    BY <2>1, SameQueueHeld DEF HeldInv
  <2>3. ~ Hook => RecordsHeld'
    BY <1>1, <2>1 DEF HeldInv, RecordsHeld, Known, Past
  <2>4. Hook => RoutesHeld'
    BY <1>1, <1>2, <2>1 DEF HeldInv, RoutesHeld, RouteHeld, Line
  <2> QED
    BY <1>1, <2>2, <2>3, <2>4 DEF HeldInv
<1> QED
  BY <1>5, <1>6 DEF Environment

\* What is held of a record whose host is not that of the line being handled.
LEMMA OthersHeld ==
    ASSUME TypeOK, QueueHeld, RecordsHeld, buf # <<>>, pc # "persist",
           NEW m \in Known, m # Head(buf).mac
    PROVE  HeldAfter(leases, Queue, 1, hosts[m].ip4, m)
<1>1. HeldAfter(leases, Queue, 0, hosts[m].ip4, m)
  BY DEF RecordsHeld, Past
<1> QED
  BY <1>1, HeadOfQueue, HeldAfterHead

LEMMA DaemonHeld ==
    ASSUME ~ MayEnd, TypeOK, TypeOK', PlaceInv, RecordInv,
           QueueHeld, RecordsHeld, ~ Hook, DaemonNext
    PROVE  QueueHeld' /\ RecordsHeld'
<1> USE DEF files, world
<1>1. ASSUME UNCHANGED <<leases, buf, fifo>> PROVE QueueHeld' /\ Queue' = Queue
  BY <1>1, SameQueueHeld, QueueSteps
<1>2. ASSUME UNCHANGED leases, Queue' = Queue, pc # "persist", pc' # "persist",
             \A m \in Macs : hosts'[m] # None => hosts[m] # None /\ hosts'[m].ip4 = hosts[m].ip4
      PROVE  QueueHeld' /\ RecordsHeld'
  BY <1>2, SameQueueHeld DEF RecordsHeld, Past, Known
<1>3. CASE Start \/ WakeMonitor \/ Timeout \/ Sweep \/ OnLease
  <2>1. UNCHANGED <<leases, hosts, buf, fifo>> /\ pc # "persist" /\ pc' # "persist"
    BY <1>3 DEF Start, WakeMonitor, Timeout, Sweep, OnLease
  <2> QED
    BY <1>2, <2>1, QueueSteps
<1>4. CASE WakeFifo
  <2>1. /\ UNCHANGED <<leases, hosts>> /\ pc # "persist" /\ pc' # "persist"
        /\ buf = <<>> /\ buf' = fifo /\ fifo' = <<>>
    BY <1>4 DEF WakeFifo, PlaceInv, DaemonPlace
  <2> QED
    BY <1>2, <2>1, QueueSteps
<1>5. CASE Restore
  <2>1. UNCHANGED <<leases, buf, fifo>> /\ \A m \in Macs : hosts'[m] = None
    BY <1>5 DEF Restore, RecordInv, Restorable, Stale
  <2> QED
    BY <1>1, <2>1 DEF RecordsHeld, Known
<1>6. CASE ReadNexthop \/ Install \/ DropArp
  <2>1. UNCHANGED <<leases, buf, fifo>> /\ pc # "persist" /\ pc' # "persist"
    BY <1>6 DEF ReadNexthop, Install, DropArp, Installed, Return
  <2>2. ASSUME NEW m \in Macs, hosts'[m] # None
        PROVE  hosts[m] # None /\ hosts'[m].ip4 = hosts[m].ip4
    BY <1>6, <2>2, EvaluateKeeps DEF SameHost
  <2> QED
    BY <1>2, <2>1, <2>2, QueueSteps
<1>7. pc \in {"lines", "record", "persist"} => buf # <<>>
  BY DEF TypeOK
<1>8. CASE DropLine
  BY <1>7, <1>8, HeadOfQueue DEF DropLine
<1>9. CASE Record
  <2> DEFINE line == Head(buf)
  <2>1. /\ UNCHANGED <<leases, buf, fifo>> /\ pc = "record" /\ pc' = "persist"
        /\ \A m \in Macs : m # line.mac => hosts'[m] = hosts[m]
    BY <1>9 DEF Record, TypeOK
  <2>2. Queue' = Queue
    BY <2>1, QueueSteps
  <2>3. line.act # "del"
    BY <2>1 DEF PlaceInv, DaemonPlace
  <2>4. hosts'[line.mac].ip4 = line.ip4
    <3>1. DaemonPlace'
      BY <1>9, DaemonPlaces DEF PlaceInv
    <3> QED
      BY <2>1, <2>3, <3>1 DEF DaemonPlace, HeadRecorded
  <2>5. ASSUME NEW m \in Macs, hosts'[m] # None
        PROVE  HeldAfter(leases, Queue, 1, hosts'[m].ip4, m)
    <3>1. CASE m = line.mac
      BY <1>7, <2>1, <2>3, <2>4, <3>1, HeadOfQueue
    <3>2. CASE m # line.mac
      <4>1. m \in Known /\ hosts'[m] = hosts[m]
        BY <2>1, <2>5, <3>2 DEF Known
      <4> QED
        BY <1>7, <2>1, <3>2, <4>1, OthersHeld
    <3> QED
      BY <3>1, <3>2
  <2> QED
    BY <1>1, <2>1, <2>2, <2>5 DEF RecordsHeld, Past, Known
<1>10. CASE OnRelease
  <2>1. CASE buf' = Tail(buf) /\ UNCHANGED hosts /\ hosts[Head(buf).mac] = None
    <3>1. UNCHANGED <<leases, fifo>> /\ pc = "lines" /\ pc' # "persist"
      BY <1>10, <2>1 DEF OnRelease, LineDone
    <3>2. Queue # <<>> /\ Queue' = Tail(Queue)
      BY <1>7, <2>1, <3>1, QueueSteps, QueueType
    <3>3. QueueHeld'
          /\ \A ip, m : HeldAfter(leases, Queue, 1, ip, m) => HeldAfter(leases', Queue', 0, ip, m)
      BY <3>1, <3>2, HandlingHeld
    <3>4. \A m \in Known : m # Head(buf).mac /\ HeldAfter(leases, Queue, 1, hosts[m].ip4, m)
      BY <1>7, <2>1, <3>1, OthersHeld DEF Known
    <3> QED
      BY <2>1, <3>1, <3>3, <3>4 DEF RecordsHeld, Past, Known
  <2>2. CASE UNCHANGED buf /\ Forget(Head(buf).mac) /\ pc' = "persist"
    <3>1. UNCHANGED <<leases, fifo>> /\ pc = "lines" /\ Queue' = Queue
      BY <1>10, <2>2, QueueSteps DEF OnRelease
    <3>2. \A m \in Macs : hosts'[m] # None =>
            m \in Known /\ m # Head(buf).mac /\ hosts'[m] = hosts[m]
      BY <2>2 DEF Forget, TypeOK, Known
    <3>3. \A m \in Macs : hosts'[m] # None => HeldAfter(leases, Queue, 1, hosts'[m].ip4, m)
      BY <1>7, <3>1, <3>2, OthersHeld
    <3> QED
      BY <1>1, <2>2, <3>1, <3>3 DEF RecordsHeld, Past, Known
  <2> QED
    BY <1>10, <2>1, <2>2 DEF OnRelease
<1>11. CASE Persist
  <2>1. UNCHANGED <<leases, hosts, fifo>> /\ buf' = Tail(buf) /\ pc = "persist" /\ pc' # "persist"
    BY <1>11 DEF Persist, LineDone
  <2>2. Queue # <<>> /\ Queue' = Tail(Queue)
    BY <1>7, <2>1, QueueSteps, QueueType
  <2>3. QueueHeld'
        /\ \A ip, m : HeldAfter(leases, Queue, 1, ip, m) => HeldAfter(leases', Queue', 0, ip, m)
    BY <2>1, <2>2, HandlingHeld
  <2> QED
    BY <2>1, <2>3 DEF RecordsHeld, Past, Known
<1> QED
  BY <1>3, <1>4, <1>5, <1>6, <1>8, <1>9, <1>10, <1>11 DEF DaemonNext, Daemon, EndDaemon

\* The script ends with the route of its line as the line found it or made it.
LEMMA ExitHeld ==
    ASSUME TypeOK, PlaceInv, QueueHeld, RoutesHeld, Hook, pc \notin {"poll", "delete"},
           buf' = <<>>, UNCHANGED <<leases, rt, fifo>>
    PROVE  QueueHeld' /\ RoutesHeld'
<1>1. buf # <<>> /\ Tail(buf) = <<>>
  BY HeadOfLines, EmptySeq DEF PlaceInv, HookPlace, TypeOK, HookSteps
<1>2. Queue # <<>> /\ Queue' = Tail(Queue)
  BY <1>1, QueueSteps, HeadOfQueue
<1>3. QueueHeld'
      /\ \A ip, m : HeldAfter(leases, Queue, 1, ip, m) => HeldAfter(leases', Queue', 0, ip, m)
  BY <1>2, HandlingHeld
<1>4. ASSUME NEW ip \in Ips, rt[ip] # None
      PROVE  HeldAfter(leases, Queue, 1, ip, rt[ip].mac)
  <2>1. RouteHeld(ip)
    BY <1>4 DEF RoutesHeld
  <2>2. CASE ip = Line.ip4
    BY <1>1, <2>1, <2>2, HeadOfQueue DEF RouteHeld, Line
  <2>3. CASE ip # Line.ip4
    <3>1. HeldAfter(leases, Queue, 0, ip, rt[ip].mac)
      BY <2>1, <2>3 DEF RouteHeld
    <3> QED
      BY <1>1, <2>3, <3>1, HeadOfQueue, HeldAfterHead DEF Line
  <2> QED
    BY <2>2, <2>3
<1> QED
  BY <1>3, <1>4 DEF RoutesHeld, RouteHeld

LEMMA HookHeld ==
    ASSUME MaxRefusals = 0, TypeOK, PlaceInv, QueueHeld, RoutesHeld, Hook, HookNext
    PROVE  QueueHeld' /\ RoutesHeld'
<1> USE DEF world, notHook, HookExit
<1>1. refused + 1 # refused /\ ~ refused < MaxRefusals
  BY DEF TypeOK
<1>2. CASE HookStart
  <2>1. buf = <<>> /\ fifo # <<>> /\ UNCHANGED <<leases, rt>>
    BY <1>2 DEF HookStart, PlaceInv, HookPlace
  <2>2. Queue = fifo /\ Queue \in Seq(Lines) /\ Head(Queue).iface # NoIface
    <3>1. Queue = fifo /\ Queue \in Seq(Lines)
      BY <2>1, QueueType
    <3>2. 1 \in 1..Len(Queue) /\ Queue[1] = Head(Queue)
      BY <2>1, <3>1, TailOfQueue
    <3> QED
      BY <3>1, <3>2 DEF QueueHeld, Named
  <2>3. /\ fifo' = Tail(fifo) /\ buf' = <<Head(fifo)>>
        /\ Head(fifo).act = "del" => pc' = "delete"
    BY <1>2, <2>1, <2>2, HeadOfLines, LineFields DEF HookStart
  <2>4. Queue' = Queue /\ Head(buf') = Head(Queue) /\ buf' # <<>>
    BY <2>1, <2>2, <2>3, QueueSteps
  <2>5. ASSUME NEW ip \in Ips, rt[ip] # None
        PROVE  /\ HeldAfter(leases, Queue, 0, ip, rt[ip].mac)
               /\ ip = Head(Queue).ip4 =>
                    Head(Queue).mac = rt[ip].mac /\ Head(Queue).act # "add"
    <3>1. HeldAfter(leases, Queue, 0, ip, rt[ip].mac)
      BY <2>1, <2>5 DEF RoutesHeld, RouteHeld
    <3> QED
      BY <2>1, <2>2, <3>1, HeldAfterHead
  <2>6. RoutesHeld'
    BY <2>1, <2>2, <2>3, <2>4, <2>5 DEF RoutesHeld, RouteHeld, Line
  <2> QED
    BY <2>1, <2>4, <2>6, SameQueueHeld
<1>3. CASE pc \in {"derive", "find", "again"} /\ UNCHANGED <<leases, rt, buf, fifo>>
  <2>1. Queue' = Queue
    BY <1>3, QueueSteps
  <2>2. RoutesHeld'
    BY <1>3, <2>1 DEF RoutesHeld, RouteHeld, Line
  <2> QED
    BY <1>3, <2>1, <2>2, SameQueueHeld
<1>4. CASE Derive \/ Find
  BY <1>3, <1>4 DEF Derive, Find
<1>5. pc # "poll" => /\ buf # <<>> /\ Line \in Lines /\ Line.ip4 \in Ips
                     /\ pc = "replace" => Line.act # "del"
  BY HeadOfQueue DEF PlaceInv, HookPlace, TypeOK, Line
<1>6. CASE Replace
  <2>1. CASE /\ rt' = [rt EXCEPT ![Line.ip4] =
                         [iface |-> Line.iface, mac |-> Line.mac, nh |-> nhop]]
             /\ pc' = "unarp" /\ UNCHANGED buf
    <3>1. UNCHANGED <<leases, fifo>> /\ Queue' = Queue /\ Line.act # "del" /\ pc = "replace"
      BY <1>5, <1>6, <2>1, QueueSteps DEF Replace
    <3>2. rt'[Line.ip4].mac = Line.mac /\ \A ip \in Ips : ip # Line.ip4 => rt'[ip] = rt[ip]
      BY <1>5, <2>1, <3>1 DEF TypeOK
    <3>3. RoutesHeld'
      BY <1>5, <2>1, <3>1, <3>2 DEF RoutesHeld, RouteHeld, Line
    <3> QED
      BY <3>1, <3>3, SameQueueHeld
  <2>2. CASE HookExit /\ UNCHANGED rt
    BY <1>6, <2>2, ExitHeld DEF Replace
  <2> QED
    BY <1>1, <1>6, <2>1, <2>2 DEF Replace
<1>7. CASE Delete
  <2>1. UNCHANGED <<leases, buf, fifo>> /\ Queue' = Queue /\ pc = "delete"
    BY <1>7, QueueSteps DEF Delete
  <2>2. refused' = refused
    BY <1>1, <1>7 DEF Delete, WithdrawRoute
  <2>3. rt'[Line.ip4] = None /\ \A ip \in Ips \ {Line.ip4} : rt'[ip] = rt[ip]
    BY <1>5, <1>7, <2>1, <2>2, Withdrawn DEF Delete
  <2>4. RoutesHeld'
    BY <1>5, <2>1, <2>3 DEF RoutesHeld, RouteHeld, Line
  <2> QED
    BY <2>1, <2>4, SameQueueHeld
<1>8. CASE HookUnarp
  BY <1>8, ExitHeld DEF HookUnarp
<1> QED
  BY <1>2, <1>4, <1>6, <1>7, <1>8 DEF HookNext

LEMMA HeldAlways ==
    ASSUME ~ MayEnd, ~ MayOmitIface, MaxRefusals = 0
    PROVE  Spec => []HeldInv
<1>1. Init => HeldInv
  BY EmptyAtFirst DEF Init, HeldInv, QueueHeld, Unique, Named, LinesHeld, RecordsHeld,
         RoutesHeld, Known
<1>2. TypeOK /\ TypeOK' /\ PlaceInv /\ (~ Hook => RecordInv) /\ HeldInv /\ [Next]_vars
        => HeldInv'
  <2> SUFFICES ASSUME TypeOK, TypeOK', PlaceInv, ~ Hook => RecordInv, HeldInv, [Next]_vars
               PROVE  HeldInv'
    OBVIOUS
  <2>1. Hook' = Hook
    BY StepToolStays
  <2>2. CASE Environment
    BY <2>2, EnvironmentHeld
  <2>3. CASE ~ Hook /\ DaemonNext
    BY <2>1, <2>3, DaemonHeld DEF HeldInv
  <2>4. CASE Hook /\ HookNext
    BY <2>1, <2>4, HookHeld DEF HeldInv
  <2>5. CASE UNCHANGED vars
    <3>1. UNCHANGED <<leases, rt, pc, hosts, buf, fifo>> /\ Queue' = Queue
      BY <2>5, QueueSteps DEF vars
    <3> QED
      BY <2>1, <3>1, SameQueueHeld
      DEF HeldInv, RecordsHeld, Past, Known, RoutesHeld, RouteHeld, Line
  <2> QED
    BY <2>2, <2>3, <2>4, <2>5 DEF Next
<1> QED
  BY <1>1, <1>2, TypeCorrect, PlaceAlways, RecordAlways, PTL DEF Spec

\* At rest whoever has the route to an address has its lease.
LEMMA RestHeld ==
    ASSUME MaxRefusals = 0, TypeOK, PlaceInv, ~ Hook => RecordInv, HeldInv, Quiet,
           NEW ip \in Ips, rt[ip] # None
    PROVE  Leased(rt[ip].mac, ip)
<1>1. buf = <<>> /\ fifo = <<>> /\ pc = "poll"
  BY DEF Quiet, PlaceInv, HookPlace, DaemonPlace
<1>2. \A k \in 0 + 1..Len(Queue) : FALSE
  BY <1>1, QueueType, EmptySeq
<1>3. HeldAfter(leases, Queue, 0, ip, rt[ip].mac)
  <2>1. CASE Hook
    BY <1>1, <2>1 DEF HeldInv, RoutesHeld, RouteHeld
  <2>2. CASE ~ Hook
    <3>1. refused = 0
      BY DEF TypeOK
    <3>2. HasRecord(ip) /\ rt[ip].mac \in Macs
      BY <2>2, <3>1 DEF RecordInv, TypeOK, Routes
    <3> QED
      BY <1>1, <2>2, <3>2 DEF HeldInv, RecordsHeld, Past, HasRecord, Known
  <2> QED
    BY <2>1, <2>2
<1> QED
  BY <1>2, <1>3 DEF HeldAfter, Leased

(* At rest no leased address is routed to a host that does not lease it,   *)
(* with the daemon or with the script, which looks for a next hop only     *)
(* once, and may find none: a line that ends a lease comes before the one  *)
(* that grants the address anew (on_release, "del").                       *)
THEOREM RouteAlwaysReachesLessee ==
    ASSUME ~ MayEnd, ~ MayOmitIface, MaxRefusals = 0
    PROVE  Spec => []RouteReachesLessee
<1>1. TypeOK /\ PlaceInv /\ (~ Hook => RecordInv) /\ HeldInv => RouteReachesLessee
  <2> SUFFICES ASSUME TypeOK, PlaceInv, ~ Hook => RecordInv, HeldInv, Quiet,
                      NEW l \in leases, rt[l.ip4] # None
               PROVE  rt[l.ip4].mac = l.mac
    BY DEF RouteReachesLessee
  <2>1. l.ip4 \in Ips
    BY DEF TypeOK, Leases
  <2>2. Leased(rt[l.ip4].mac, l.ip4)
    BY <2>1, RestHeld
  <2> QED
    BY <2>2 DEF Leased, HeldInv, QueueHeld, Unique
<1> QED
  BY <1>1, TypeCorrect, PlaceAlways, RecordAlways, HeldAlways, PTL

(* On a lease release the route is withdrawn: at rest every return route   *)
(* is for an address that some host leases (on_release, "del").            *)
THEOREM NoRouteEverWithoutLease ==
    ASSUME ~ MayEnd, ~ MayOmitIface, MaxRefusals = 0
    PROVE  Spec => []NoRouteWithoutLease
<1>1. TypeOK /\ PlaceInv /\ (~ Hook => RecordInv) /\ HeldInv => NoRouteWithoutLease
  BY RestHeld DEF NoRouteWithoutLease, Leased
<1> QED
  BY <1>1, TypeCorrect, PlaceAlways, RecordAlways, HeldAlways, PTL

-----------------------------------------------------------------------------
(* Records are leases. *)

Lease(f, m, ip) == [iface |-> f, mac |-> m, ip4 |-> ip]

\* One lease per host.
Exact == \A l1, l2 \in leases : l1.mac = l2.mac => l1 = l2

\* The last line about a host says what dnsmasq has of it, and its record says
\* so when there is no such line.
ExactLines ==
    \A k \in 1..Len(Queue) : LastOf(Queue, k) =>
        IF Queue[k].act = "del"
          THEN \A l \in leases : l.mac # Queue[k].mac
          ELSE Lease(Queue[k].iface, Queue[k].mac, Queue[k].ip4) \in leases

ExactRecords ==
    \A m \in Macs : NoneOf(Queue, m) =>
        IF hosts[m] = None
          THEN \A l \in leases : l.mac # m
          ELSE Lease(hosts[m].iface, m, hosts[m].ip4) \in leases

LeasesInv ==
    /\ Exact
    /\ Named
    /\ pc = "down" => fifo = <<>>
    /\ ExactLines
    /\ ExactRecords

\* What a line about a change of a host's only lease says of it.
Tells(e) ==
    /\ \A l : l.mac # e.mac => (l \in leases' <=> l \in leases)
    /\ IF e.act = "del"
         THEN \A l \in leases' : l.mac # e.mac
         ELSE Lease(e.iface, e.mac, e.ip4) \in leases'

LEMMA DnsmasqTells ==
    ASSUME ~ MayOmitIface, DaemonFirst, MaxLeases = 1, TypeOK, Exact,
           Dnsmasq, ~ LoseLine
    PROVE  /\ Exact'
           /\ pc # "down"
           /\ \E e \in Lines : fifo' = Append(fifo, e) /\ e.iface # NoIface /\ Tells(e)
<1>1. ASSUME NEW f \in Ifaces, NEW m \in Macs, NEW ip \in Ips, Grant(f, m, ip)
      PROVE  /\ Exact'
             /\ \E e \in Lines : fifo' = Append(fifo, e) /\ e.iface # NoIface /\ Tells(e)
  <2> DEFINE e == [act |-> "add", iface |-> f, mac |-> m, ip4 |-> ip]
  <2>1. e \in Lines /\ fifo' = Append(fifo, e) /\ f # NoIface
    BY <1>1, NotifyNames DEF Grant, Lines
  <2>2. ASSUME NEW l \in leases, l.mac = m PROVE FALSE
    <3>1. {k \in leases : k.mac = m} = {l}
      BY <2>2 DEF Exact
    <3>2. Cardinality({k \in leases : k.mac = m}) = 1
      BY <3>1, FS_Singleton
    <3> QED
      BY <1>1, <3>2 DEF Grant
  <2>3. leases' = leases \cup {Lease(f, m, ip)} /\ Lease(f, m, ip).mac = m
    BY <1>1 DEF Grant, Lease
  <2>4. Exact'
    BY <2>2, <2>3 DEF Exact
  <2>5. Tells(e)
    BY <2>3 DEF Tells
  <2> QED
    BY <2>1, <2>4, <2>5
<1>2. ASSUME NEW l \in leases, NEW f \in Ifaces, Renew(l, f)
      PROVE  /\ Exact'
             /\ \E e \in Lines : fifo' = Append(fifo, e) /\ e.iface # NoIface /\ Tells(e)
  <2> DEFINE e == [act |-> "old", iface |-> f, mac |-> l.mac, ip4 |-> l.ip4]
  <2>1. l \in Leases /\ l.mac \in Macs /\ l.ip4 \in Ips
    BY DEF TypeOK, Leases
  <2>2. e \in Lines /\ fifo' = Append(fifo, e) /\ f # NoIface
    BY <1>2, <2>1, NotifyNames DEF Renew, Lines
  <2>3. [l EXCEPT !.iface = f] = Lease(f, l.mac, l.ip4)
    BY <2>1 DEF Lease, Leases
  <2>4. leases' = (leases \ {l}) \cup {Lease(f, l.mac, l.ip4)}
        /\ Lease(f, l.mac, l.ip4).mac = l.mac
    BY <1>2, <2>3 DEF Renew, Lease
  <2>5. Exact'
    BY <2>4 DEF Exact
  <2>6. Tells(e)
    BY <2>4 DEF Tells
  <2> QED
    BY <2>2, <2>5, <2>6
<1>3. ASSUME NEW l \in leases, End(l)
      PROVE  /\ Exact'
             /\ \E e \in Lines : fifo' = Append(fifo, e) /\ e.iface # NoIface /\ Tells(e)
  <2> DEFINE e == [act |-> "del", iface |-> l.iface, mac |-> l.mac, ip4 |-> l.ip4]
  <2>1. l.iface \in Ifaces /\ e \in Lines
    BY DEF TypeOK, Leases, Lines
  <2>2. fifo' = Append(fifo, e) /\ l.iface # NoIface
    BY <1>3, <2>1, NotifyNames DEF End
  <2>3. leases' = leases \ {l}
    BY <1>3 DEF End
  <2>4. Exact' /\ Tells(e)
    BY <2>3 DEF Exact, Tells
  <2> QED
    BY <2>1, <2>2, <2>4
<1>4. pc # "down"
  BY DEF Dnsmasq, Grant, Renew, End, CanAnnounce
<1> QED
  BY <1>1, <1>2, <1>3, <1>4 DEF Dnsmasq

LEMMA AnnouncingLeases ==
    ASSUME TypeOK, LeasesInv, Exact', NEW e \in Lines, fifo' = Append(fifo, e),
           e.iface # NoIface, Tells(e), pc # "down", UNCHANGED <<pc, hosts, buf>>
    PROVE  LeasesInv'
<1>1. Queue' = Append(Queue, e) /\ Queue \in Seq(Lines)
      /\ \A k \in 1..Len(Queue) : Queue[k] \in Lines
  BY QueueSteps, QueueType
<1>2. /\ Len(Queue') = Len(Queue) + 1 /\ Queue'[Len(Queue) + 1] = e
      /\ \A k \in 1..Len(Queue) : Queue'[k] = Queue[k]
      /\ \A k \in 1..Len(Queue') : k = Len(Queue) + 1 \/ k \in 1..Len(Queue)
      /\ \A k \in 1..Len(Queue) :
           LastOf(Queue', k) => LastOf(Queue, k) /\ Queue[k].mac # e.mac
      /\ \A m : NoneOf(Queue', m) => NoneOf(Queue, m) /\ m # e.mac
  BY <1>1, AppendToQueue
<1>3. \A f, m, ip : Lease(f, m, ip).mac = m
  BY DEF Lease
<1>4. Named'
  BY <1>2 DEF Named, LeasesInv
<1>5. ASSUME NEW k \in 1..Len(Queue'), LastOf(Queue', k)
      PROVE  IF Queue'[k].act = "del"
               THEN \A l \in leases' : l.mac # Queue'[k].mac
               ELSE Lease(Queue'[k].iface, Queue'[k].mac, Queue'[k].ip4) \in leases'
  <2>1. CASE k = Len(Queue) + 1
    BY <1>2, <2>1 DEF Tells
  <2>2. CASE k \in 1..Len(Queue)
    <3>1. Queue'[k] = Queue[k] /\ Queue[k].mac # e.mac /\ LastOf(Queue, k)
      BY <1>2, <1>5, <2>2
    <3> QED
      BY <1>3, <2>2, <3>1 DEF LeasesInv, ExactLines, Tells
  <2> QED
    BY <1>2, <2>1, <2>2
<1>6. ASSUME NEW m \in Macs, NoneOf(Queue', m)
      PROVE  IF hosts[m] = None
               THEN \A l \in leases' : l.mac # m
               ELSE Lease(hosts[m].iface, m, hosts[m].ip4) \in leases'
  <2>1. NoneOf(Queue, m) /\ m # e.mac
    BY <1>2, <1>6
  <2> QED
    BY <1>3, <2>1 DEF LeasesInv, ExactRecords, Tells
<1>7. ExactLines'
  BY <1>5 DEF ExactLines, LastOf
<1>8. ExactRecords'
  BY <1>6 DEF ExactRecords, NoneOf
<1> QED
  BY <1>4, <1>7, <1>8 DEF LeasesInv

\* The head line is handled: the record of its host says what it said.
LEMMA HandlingLeases ==
    ASSUME TypeOK, LeasesInv, Queue # <<>>, Queue' = Tail(Queue), UNCHANGED leases, pc' # "down",
           \A m \in Macs : m # Head(Queue).mac => SameHost(m),
           IF Head(Queue).act = "del"
             THEN hosts'[Head(Queue).mac] = None
             ELSE /\ hosts'[Head(Queue).mac] # None
                  /\ hosts'[Head(Queue).mac].iface = Head(Queue).iface
                  /\ hosts'[Head(Queue).mac].ip4 = Head(Queue).ip4
    PROVE  LeasesInv'
<1>1. Queue \in Seq(Lines)
  BY QueueType
<1>2. /\ \A k \in 1..Len(Queue') :
           /\ k + 1 \in 1..Len(Queue) /\ Queue'[k] = Queue[k + 1]
           /\ LastOf(Queue', k) => LastOf(Queue, k + 1)
      /\ 1 \in 1..Len(Queue) /\ Queue[1] = Head(Queue)
      /\ \A m : NoneOf(Queue', m) =>
           IF m = Queue[1].mac THEN LastOf(Queue, 1) ELSE NoneOf(Queue, m)
  BY <1>1, TailOfQueue
<1>3. Named' /\ Exact'
  BY <1>2 DEF LeasesInv, Named, Exact
<1>4. ExactLines'
  <2>1. ASSUME NEW k \in 1..Len(Queue'), LastOf(Queue', k)
        PROVE  IF Queue'[k].act = "del"
                 THEN \A l \in leases' : l.mac # Queue'[k].mac
                 ELSE Lease(Queue'[k].iface, Queue'[k].mac, Queue'[k].ip4) \in leases'
    BY <1>2, <2>1 DEF LeasesInv, ExactLines
  <2> QED
    BY <2>1 DEF ExactLines, LastOf
<1>5. ASSUME NEW m \in Macs, NoneOf(Queue', m)
      PROVE  IF hosts'[m] = None
               THEN \A l \in leases' : l.mac # m
               ELSE Lease(hosts'[m].iface, m, hosts'[m].ip4) \in leases'
  <2>1. CASE m = Queue[1].mac
    <3>1. LastOf(Queue, 1)
      BY <1>2, <1>5, <2>1
    <3>2. IF Queue[1].act = "del"
            THEN \A l \in leases : l.mac # Queue[1].mac
            ELSE Lease(Queue[1].iface, Queue[1].mac, Queue[1].ip4) \in leases
      BY <1>2, <3>1 DEF LeasesInv, ExactLines
    <3> QED
      BY <1>2, <2>1, <3>2
  <2>2. CASE m # Queue[1].mac
    <3>1. NoneOf(Queue, m) /\ SameHost(m)
      BY <1>2, <1>5, <2>2
    <3> QED
      BY <3>1 DEF LeasesInv, ExactRecords, SameHost
  <2> QED
    BY <2>1, <2>2
<1>6. ExactRecords'
  BY <1>5 DEF ExactRecords, NoneOf
<1> QED
  BY <1>3, <1>4, <1>6 DEF LeasesInv

LEMMA SameQueueLeases ==
    ASSUME LeasesInv, UNCHANGED leases, Queue' = Queue, pc' = "down" => fifo' = fifo /\ pc = "down",
           \A m \in Macs : SameHost(m) \/ ~ NoneOf(Queue, m)
    PROVE  LeasesInv'
<1>1. ExactRecords'
  BY DEF LeasesInv, ExactRecords, SameHost, NoneOf
<1>2. Exact' /\ Named' /\ ExactLines'
  BY DEF LeasesInv, Exact, Named, ExactLines, LastOf
<1> QED
  BY <1>1, <1>2 DEF LeasesInv

LEMMA StepLeases ==
    ASSUME ~ MayEnd, ~ MayOmitIface, DaemonFirst, MaxLeases = 1,
           TypeOK, TypeOK', PlaceInv, RecordInv, LeasesInv, ~ Hook, [Next]_vars
    PROVE  LeasesInv'
<1> USE DEF files, world
<1>1. \A m : hosts'[m] = hosts[m] => SameHost(m)
  BY DEF SameHost
<1>2. ASSUME UNCHANGED <<pc, leases, hosts, buf, fifo>> PROVE LeasesInv'
  BY <1>1, <1>2, QueueSteps, SameQueueLeases
<1>3. CASE Dnsmasq
  <2>1. UNCHANGED <<pc, hosts, buf>>
    BY <1>3, EnvironmentLeaves DEF Environment
  <2>2. ~ LoseLine
    BY DEF LoseLine, LeasesInv
  <2> QED
    BY <1>3, <2>1, <2>2, DnsmasqTells, AnnouncingLeases DEF LeasesInv
<1>4. CASE Kernel
  <2>1. UNCHANGED <<pc, hosts, buf>>
    BY <1>4, EnvironmentLeaves DEF Environment
  <2> QED
    BY <1>2, <1>4, <2>1 DEF Kernel, ArpForms, CacheChanges, LoseLink, LinkAppears
<1>5. CASE Start \/ WakeMonitor \/ Timeout \/ Sweep \/ OnLease
  <2>1. UNCHANGED <<leases, hosts, buf, fifo>> /\ pc' # "down"
    BY <1>5 DEF Start, WakeMonitor, Timeout, Sweep, OnLease
  <2> QED
    BY <1>1, <2>1, QueueSteps, SameQueueLeases
<1>6. CASE WakeFifo
  <2>1. /\ UNCHANGED <<leases, hosts>> /\ pc' # "down"
        /\ buf = <<>> /\ buf' = fifo /\ fifo' = <<>>
    BY <1>6 DEF WakeFifo, PlaceInv, DaemonPlace
  <2> QED
    BY <1>1, <2>1, QueueSteps, SameQueueLeases
<1>7. CASE Restore
  <2>1. UNCHANGED <<leases, buf, fifo>> /\ pc' # "down" /\ \A m \in Macs : hosts'[m] = None
    BY <1>7 DEF Restore, RecordInv, Restorable, Stale
  <2>2. \A m \in Macs : hosts[m] = None
    BY <1>7 DEF Restore, PlaceInv, DaemonPlace
  <2> QED
    BY <1>1, <2>1, <2>2, QueueSteps, SameQueueLeases
<1>8. CASE ReadNexthop \/ Install \/ DropArp
  <2>1. UNCHANGED <<leases, buf, fifo>> /\ pc' # "down"
    BY <1>8 DEF ReadNexthop, Install, DropArp, Installed, Return
  <2>2. \A m \in Macs : SameHost(m)
    BY <1>8, EvaluateKeeps
  <2> QED
    BY <2>1, <2>2, QueueSteps, SameQueueLeases
<1>9. pc \in {"lines", "record", "persist"} =>
        /\ buf # <<>> /\ Head(buf) \in Lines /\ Head(buf).mac \in Macs
        /\ Queue # <<>> /\ Head(Queue) = Head(buf)
        /\ 1 \in 1..Len(Queue) /\ Queue[1] = Head(Queue)
  BY QueueType, HeadOfLines, LineFields, TailOfQueue DEF TypeOK
<1>10. CASE DropLine
  <2>1. Queue[1].iface = NoIface
    BY <1>9, <1>10 DEF DropLine
  <2> QED
    BY <1>9, <1>10, <2>1 DEF LeasesInv, Named, DropLine
<1>11. CASE Record
  <2>1. UNCHANGED <<leases, buf, fifo>> /\ pc' # "down" /\ ~ NoneOf(Queue, Head(buf).mac)
    BY <1>9, <1>11 DEF Record, NoneOf
  <2>2. \A m \in Macs : m # Head(buf).mac => hosts'[m] = hosts[m]
    BY <1>11 DEF Record, TypeOK
  <2> QED
    BY <1>1, <2>1, <2>2, QueueSteps, SameQueueLeases
<1>12. CASE OnRelease
  <2>1. CASE buf' = Tail(buf) /\ UNCHANGED hosts /\ hosts[Head(buf).mac] = None
    <3>1. /\ UNCHANGED <<leases, fifo>> /\ pc' # "down" /\ Queue' = Tail(Queue)
          /\ Head(buf).act = "del" /\ pc = "lines"
      BY <1>9, <1>12, <2>1, QueueSteps DEF OnRelease, LineDone
    <3> QED
      BY <1>1, <1>9, <2>1, <3>1, HandlingLeases
  <2>2. CASE UNCHANGED buf /\ Forget(Head(buf).mac)
    <3>1. UNCHANGED <<leases, fifo>> /\ pc' # "down" /\ ~ NoneOf(Queue, Head(buf).mac)
      BY <1>9, <1>12, <2>2 DEF OnRelease, LineDone, NoneOf
    <3>2. \A m \in Macs : m # Head(buf).mac => hosts'[m] = hosts[m]
      BY <2>2 DEF Forget, TypeOK
    <3> QED
      BY <1>1, <2>2, <3>1, <3>2, QueueSteps, SameQueueLeases
  <2> QED
    BY <1>12, <2>1, <2>2 DEF OnRelease
<1>13. CASE Persist
  <2>1. UNCHANGED <<leases, hosts, fifo>> /\ buf' = Tail(buf) /\ pc = "persist" /\ pc' # "down"
    BY <1>13 DEF Persist, LineDone
  <2>2. HeadRecorded
    BY <2>1 DEF PlaceInv, DaemonPlace
  <2>3. Queue' = Tail(Queue)
    BY <1>9, <2>1, QueueSteps
  <2> QED
    BY <1>1, <1>9, <2>1, <2>2, <2>3, HandlingLeases DEF HeadRecorded
<1> QED
  BY <1>2, <1>3, <1>4, <1>5, <1>6, <1>7, <1>8, <1>10, <1>11, <1>12, <1>13
  DEF Next, Environment, DaemonNext, Daemon, EndDaemon, vars

(* At rest the records are exactly dnsmasq's leases, whatever the order of *)
(* grants, renewals, moves and ends, and however many lines one reading    *)
(* returns: a host holds one lease, every line names its interface, and    *)
(* the daemon is there before the first lease (on_lease, on_release).      *)
THEOREM RecordsAlwaysLeases ==
    ASSUME ~ MayEnd, ~ MayOmitIface, DaemonFirst, MaxLeases = 1
    PROVE  Spec => []RecordsAreLeases
<1> DEFINE Inv == ~ Hook => LeasesInv
<1>1. Init => Inv
  BY EmptyAtFirst DEF Init, LeasesInv, Exact, Named, ExactLines, ExactRecords
<1>2. TypeOK /\ TypeOK' /\ PlaceInv /\ (~ Hook => RecordInv) /\ Inv /\ [Next]_vars => Inv'
  BY StepLeases, StepToolStays
<1>3. TypeOK /\ PlaceInv /\ Inv => RecordsAreLeases
  <2> SUFFICES ASSUME TypeOK, PlaceInv, Inv, Quiet, ~ Hook
               PROVE  leases = {Lease(hosts[m].iface, m, hosts[m].ip4) : m \in Known}
    BY DEF RecordsAreLeases, Lease
  <2>1. buf = <<>> /\ fifo = <<>>
    BY DEF Quiet, PlaceInv, DaemonPlace
  <2>2. \A m : NoneOf(Queue, m)
    BY <2>1, QueueType, EmptySeq DEF NoneOf
  <2>3. \A m \in Macs : IF hosts[m] = None
                          THEN \A l \in leases : l.mac # m
                          ELSE Lease(hosts[m].iface, m, hosts[m].ip4) \in leases
    BY <2>2 DEF LeasesInv, ExactRecords
  <2>4. ASSUME NEW l \in leases
        PROVE  l.mac \in Known /\ l = Lease(hosts[l.mac].iface, l.mac, hosts[l.mac].ip4)
    <3>1. l.mac \in Macs
      BY DEF TypeOK, Leases
    <3>2. l.mac \in Known /\ Lease(hosts[l.mac].iface, l.mac, hosts[l.mac].ip4) \in leases
      BY <2>3, <3>1 DEF Known
    <3>3. Lease(hosts[l.mac].iface, l.mac, hosts[l.mac].ip4).mac = l.mac
      BY DEF Lease
    <3> QED
      BY <3>2, <3>3 DEF LeasesInv, Exact
  <2>5. \A m \in Known : Lease(hosts[m].iface, m, hosts[m].ip4) \in leases
    BY <2>3 DEF Known
  <2> QED
    BY <2>4, <2>5
<1> QED
  BY <1>1, <1>2, <1>3, TypeCorrect, PlaceAlways, RecordAlways, PTL DEF Spec

-----------------------------------------------------------------------------
(* Routes follow next hops. *)

\* The route of m is due to be what its record says.
Settled(m) ==
    /\ hosts[m].nh # None
    /\ ~ (pc = "record" /\ m = Head(buf).mac /\ Changed(hosts[m], Head(buf)))
    /\ ~ (pc = "unarp" /\ m = cur)

\* Links stay up and no change is missed: whoever's best next hop is not the
\* one on record is still to be evaluated.
FollowInv ==
    /\ up = [f \in Ifaces |-> TRUE]
    /\ todo # {} => buf = <<>> /\ pc \notin {"poll", "lines", "record", "persist"}
    /\ pc \in {"install", "unarp"} => ixLive
    /\ pc = "unarp" =>
         /\ pending
         /\ rt[hosts[cur].ip4] = [iface |-> hosts[cur].iface, mac |-> cur, nh |-> nhop]
    /\ \A m \in Known : Settled(m) =>
         rt[hosts[m].ip4] = [iface |-> hosts[m].iface, mac |-> m, nh |-> hosts[m].nh]
    /\ \A m \in Known :
         \/ pending \/ m \in todo \/ m = cur
         \/ BestNexthop(hosts[m].iface, m) \in {None, hosts[m].nh}

\* No two records name one address.
LEMMA RecordsDiffer ==
    ASSUME TypeOK, QueueHeld, RecordsHeld, NEW m1 \in Known, NEW m2 \in Known,
           hosts[m1].ip4 = hosts[m2].ip4
    PROVE  m1 = m2
<1>1. Queue \in Seq(Lines) /\ Past \in Nat
  BY QueueType DEF Past
<1>2. HeldAfter(leases, Queue, Past, hosts[m1].ip4, m1)
      /\ HeldAfter(leases, Queue, Past, hosts[m1].ip4, m2)
  BY DEF RecordsHeld
<1> QED
  BY <1>1, <1>2, HeldByOne DEF QueueHeld, Unique

LEMMA EnvironmentFollow ==
    ASSUME ~ MayLoseLink, ~ MayMiss, TypeOK, FollowInv, ~ Hook, Environment
    PROVE  FollowInv'
<1>1. UNCHANGED <<pc, hosts, buf, todo, cur, nhop>>
  BY EnvironmentLeaves
<1>2. UNCHANGED <<up, rt, ixLive>>
  BY DEF Environment, Dnsmasq, Kernel, Grant, Renew, End, LoseLine, kernel, ArpForms,
         CacheChanges, LinkAppears, FollowInv, daemonVars
<1>3. pending' = TRUE \/ UNCHANGED <<pending, usable>>
  BY DEF Environment, Dnsmasq, Kernel, Grant, Renew, End, LoseLine, kernel, ArpForms,
         CacheChanges, LinkAppears, FollowInv, Announce
<1>4. ASSUME NEW m \in Known
      PROVE  \/ pending' \/ m \in todo \/ m = cur
             \/ BestNexthop(hosts[m].iface, m)' \in {None, hosts[m].nh}
  BY <1>1, <1>3 DEF FollowInv, BestNexthop
<1> QED
  BY <1>1, <1>2, <1>3, <1>4 DEF FollowInv, Known, Settled, Changed

\* Steps that leave routes and the records alone, and evaluate no one.
LEMMA SameFollow ==
    ASSUME FollowInv, UNCHANGED <<usable, up, rt, hosts>>,
           pc' \notin {"record", "install", "unarp"}, pc \notin {"record", "unarp"},
           todo' # {} => buf' = <<>> /\ pc' \notin {"poll", "lines", "record", "persist"},
           \A m \in Known : pending \/ m \in todo \/ m = cur => pending' \/ m \in todo' \/ m = cur'
    PROVE  FollowInv'
<1>1. \A m \in Known : Settled(m)' = Settled(m)
  BY DEF Settled
<1>2. \A m \in Known : BestNexthop(hosts[m].iface, m)' = BestNexthop(hosts[m].iface, m)
  BY DEF BestNexthop
<1> QED
  BY <1>1, <1>2 DEF FollowInv, Known

\* A withdrawal takes the route of one record only.
LEMMA WithdrawsOne ==
    ASSUME MaxRefusals = 0, TypeOK, QueueHeld, RecordsHeld, NEW m \in Known,
           WithdrawRoute(hosts[m].ip4)
    PROVE  \A n \in Known : n # m => rt'[hosts[n].ip4] = rt[hosts[n].ip4]
<1>1. refused' = refused
  BY DEF WithdrawRoute, TypeOK
<1>2. hosts[m].ip4 \in Ips
  BY HostFields
<1>3. \A ip \in Ips \ {hosts[m].ip4} : rt'[ip] = rt[ip]
  BY <1>1, <1>2, Withdrawn
<1>4. ASSUME NEW n \in Known, n # m PROVE rt'[hosts[n].ip4] = rt[hosts[n].ip4]
  BY <1>3, <1>4, HostFields, RecordsDiffer
<1> QED
  BY <1>4

LEMMA LineFollow ==
    ASSUME MaxRefusals = 0, TypeOK, TypeOK', PlaceInv, QueueHeld, RecordsHeld, FollowInv, ~ Hook,
           OnLease \/ Record \/ OnRelease
    PROVE  FollowInv'
<1> USE DEF files, world
<1> DEFINE line == Head(buf)
<1>1. buf # <<>> /\ line \in Lines /\ line.mac \in Macs
  BY HeadOfLines, LineFields DEF TypeOK, OnLease, Record, OnRelease
<1>2. UNCHANGED <<usable, up, todo>> /\ todo = {} /\ cur = None
  BY DEF OnLease, Record, OnRelease, FollowInv, PlaceInv, DaemonPlace
<1>3. \A m \in Known : m # None /\ m \in Macs
  BY HostFields
<1>4. ASSUME pc \notin {"install", "unarp"}, pc' \notin {"install", "unarp"},
             \A m \in Macs : hosts'[m] # None /\ m # cur' => m \in Known /\ hosts'[m] = hosts[m],
             pending => pending',
             \A m \in Macs : hosts'[m] # None /\ Settled(m)' =>
               rt'[hosts'[m].ip4] = [iface |-> hosts'[m].iface, mac |-> m, nh |-> hosts'[m].nh]
      PROVE  FollowInv'
  <2>1. ASSUME NEW m \in Macs, hosts'[m] # None
        PROVE  \/ pending' \/ m \in todo' \/ m = cur'
               \/ BestNexthop(hosts[m].iface, m)' \in {None, hosts'[m].nh}
    <3>1. CASE m # cur'
      <4>1. m \in Known /\ hosts'[m] = hosts[m] /\ m # cur
        BY <1>2, <1>3, <1>4, <2>1, <3>1
      <4>2. BestNexthop(hosts[m].iface, m)' = BestNexthop(hosts[m].iface, m)
        BY <1>2, <4>1 DEF BestNexthop
      <4> QED
        BY <1>2, <1>4, <4>1, <4>2 DEF FollowInv
    <3> QED
      BY <3>1
  <2> QED
    BY <1>2, <1>4, <2>1 DEF FollowInv, Known, BestNexthop
<1>5. CASE OnLease
  <2>1. /\ UNCHANGED <<hosts, buf, cur>> /\ pc = "lines" /\ pc' = "record"
        /\ pending => pending'
    BY <1>5 DEF OnLease, WithdrawRoute
  <2>2. ASSUME NEW m \in Known, Settled(m)'
        PROVE  rt'[hosts[m].ip4] = [iface |-> hosts[m].iface, mac |-> m, nh |-> hosts[m].nh]
    <3>1. Settled(m) /\ (m = line.mac => ~ Changed(hosts[m], line))
      BY <2>1, <2>2 DEF Settled, Changed
    <3>2. rt[hosts[m].ip4] = [iface |-> hosts[m].iface, mac |-> m, nh |-> hosts[m].nh]
      BY <3>1 DEF FollowInv
    <3>3. CASE UNCHANGED rt
      BY <3>2, <3>3
    <3>4. CASE /\ hosts[line.mac] # None /\ Changed(hosts[line.mac], line)
               /\ WithdrawRoute(hosts[line.mac].ip4)
      <4>1. line.mac \in Known /\ m # line.mac
        BY <1>1, <3>1, <3>4 DEF Known
      <4> QED
        BY <3>2, <3>4, <4>1, WithdrawsOne
    <3> QED
      BY <1>5, <3>3, <3>4 DEF OnLease
  <2> QED
    BY <1>4, <2>1, <2>2 DEF Known
<1>6. CASE Record
  <2> DEFINE new  == IF hosts[line.mac] = None THEN TRUE ELSE Changed(hosts[line.mac], line)
             host == [iface |-> line.iface, ip4 |-> line.ip4,
                      nh |-> IF new THEN None ELSE hosts[line.mac].nh, armed |-> TRUE]
  <2>1. /\ UNCHANGED <<rt, buf, pending>> /\ pc = "record" /\ pc' = "persist" /\ cur' = line.mac
        /\ hosts' = [hosts EXCEPT ![line.mac] = host]
    BY <1>6 DEF Record
  <2>2. /\ host.iface = line.iface /\ host.ip4 = line.ip4
        /\ host.nh = IF new THEN None ELSE hosts[line.mac].nh
    OBVIOUS
  <2> HIDE DEF host
  <2>3. hosts'[line.mac] = host /\ \A m \in Macs : m # line.mac => hosts'[m] = hosts[m]
    BY <1>1, <2>1 DEF TypeOK
  <2>4. ASSUME NEW m \in Macs, hosts'[m] # None, Settled(m)'
        PROVE  rt[hosts'[m].ip4] = [iface |-> hosts'[m].iface, mac |-> m, nh |-> hosts'[m].nh]
    <3>1. CASE m # line.mac
      <4>1. hosts'[m] = hosts[m] /\ m \in Known /\ Settled(m)
        BY <2>1, <2>3, <2>4, <3>1 DEF Known, Settled
      <4> QED
        BY <4>1 DEF FollowInv
    <3>2. CASE m = line.mac
      <4>1. ~ new
        BY <2>2, <2>3, <2>4, <3>2 DEF Settled
      <4>2. hosts[m] # None /\ ~ Changed(hosts[m], line) /\ m \in Known
        BY <3>2, <4>1 DEF Known
      <4>3. hosts'[m].iface = hosts[m].iface /\ hosts'[m].ip4 = hosts[m].ip4
            /\ hosts'[m].nh = hosts[m].nh
        BY <2>2, <2>3, <3>2, <4>1, <4>2 DEF Changed
      <4>4. Settled(m)
        BY <2>1, <2>4, <4>2, <4>3 DEF Settled
      <4> QED
        BY <4>2, <4>3, <4>4 DEF FollowInv
    <3> QED
      BY <3>1, <3>2
  <2> QED
    BY <1>4, <2>1, <2>3, <2>4 DEF Known
<1>7. CASE OnRelease
  <2>1. pc = "lines" /\ pc' \in {"poll", "lines", "persist"} /\ UNCHANGED cur
        /\ (pending => pending')
    BY <1>7 DEF OnRelease, LineDone, WithdrawRoute
  <2>2. CASE UNCHANGED <<rt, hosts>>
    <3>1. \A m \in Known : Settled(m)' => Settled(m)
      BY <2>1, <2>2 DEF Settled
    <3> QED
      BY <1>4, <2>1, <2>2, <3>1 DEF FollowInv, Known
  <2>3. CASE hosts[line.mac] # None /\ WithdrawRoute(hosts[line.mac].ip4) /\ Forget(line.mac)
    <3>1. line.mac \in Known
      BY <1>1, <2>3 DEF Known
    <3>2. \A m \in Macs : hosts'[m] # None => m \in Known /\ m # line.mac /\ hosts'[m] = hosts[m]
      BY <1>1, <2>3 DEF Forget, Known, TypeOK
    <3>3. ASSUME NEW m \in Macs, hosts'[m] # None, Settled(m)'
          PROVE  rt'[hosts'[m].ip4] = [iface |-> hosts'[m].iface, mac |-> m, nh |-> hosts'[m].nh]
      <4>1. m \in Known /\ hosts'[m] = hosts[m] /\ Settled(m)
        BY <2>1, <3>2, <3>3 DEF Settled
      <4>2. rt'[hosts[m].ip4] = rt[hosts[m].ip4]
        BY <2>3, <3>1, <3>2, <3>3, WithdrawsOne
      <4> QED
        BY <4>1, <4>2 DEF FollowInv
    <3> QED
      BY <1>4, <2>1, <3>2, <3>3
  <2> QED
    BY <1>7, <2>2, <2>3 DEF OnRelease
<1> QED
  BY <1>5, <1>6, <1>7

LEMMA EvaluateFollow ==
    ASSUME MaxRefusals = 0, TypeOK, TypeOK', PlaceInv, QueueHeld, RecordsHeld, FollowInv, ~ Hook,
           ReadNexthop \/ Install \/ DropArp
    PROVE  FollowInv'
<1> USE DEF files, world
<1>1. UNCHANGED <<usable, up, todo, buf>> /\ pc \in {"read", "install", "unarp"}
  BY DEF ReadNexthop, Install, DropArp
<1>2. \A m \in Macs : SameHost(m) /\ (m # cur => hosts'[m] = hosts[m])
  BY EvaluateKeeps
<1>3. /\ Known' = Known
      /\ \A m \in Known : hosts'[m].iface = hosts[m].iface /\ hosts'[m].ip4 = hosts[m].ip4
  BY <1>2 DEF Known, SameHost
<1>4. \A m \in Known : BestNexthop(hosts[m].iface, m)' = BestNexthop(hosts[m].iface, m)
  BY <1>1, <1>3 DEF BestNexthop
<1>5. pc \in {"install", "unarp"} => cur \in Known /\ ixLive
  BY DEF TypeOK, FollowInv
<1>6. up' = [f \in Ifaces |-> TRUE]
  BY <1>1 DEF FollowInv
<1>7. Return => /\ pc' \in {"sweep", "lines"} /\ cur' = None
                /\ todo' # {} => buf' = <<>> /\ pc' = "sweep"
  BY <1>1 DEF Return, FollowInv
<1>8. \A m \in Known : m # None /\ m \in Macs
  BY HostFields
<1>9. CASE ReadNexthop
  <2>1. UNCHANGED <<rt, pending>> /\ pc = "read" /\ pc' \in {"sweep", "lines", "install"}
    BY <1>7, <1>9 DEF ReadNexthop
  <2>2. ASSUME NEW m \in Known, Settled(m)'
        PROVE  rt'[hosts[m].ip4] = [iface |-> hosts[m].iface, mac |-> m, nh |-> hosts'[m].nh]
    <3>1. hosts'[m].nh = hosts[m].nh
      BY <1>8, <1>9, <2>1, EvaluateKeeps
    <3>2. Settled(m)
      BY <2>1, <2>2, <3>1 DEF Settled
    <3> QED
      BY <2>1, <3>1, <3>2 DEF FollowInv
  <2>3. ASSUME NEW m \in Known
        PROVE  \/ pending' \/ m \in todo' \/ m = cur'
               \/ BestNexthop(hosts[m].iface, m) \in {None, hosts'[m].nh}
    <3>1. hosts'[m].nh = hosts[m].nh
      BY <1>8, <1>9, <2>1, EvaluateKeeps
    <3>2. CASE m # cur
      BY <1>1, <2>1, <3>1, <3>2 DEF FollowInv
    <3>3. CASE m = cur
      <4>1. hosts[cur] # None /\ up[hosts[cur].iface]
        BY <3>3, HostFields DEF FollowInv
      <4> QED
        BY <1>9, <3>1, <3>3, <4>1 DEF ReadNexthop, UpToDate
    <3> QED
      BY <3>2, <3>3
  <2>4. /\ pc' = "install" => ixLive'
        /\ todo' # {} => buf' = <<>> /\ pc' \in {"sweep", "install"}
    BY <1>1, <1>7, <1>9 DEF ReadNexthop, FollowInv
  <2> QED
    BY <1>3, <1>4, <1>6, <2>1, <2>2, <2>3, <2>4 DEF FollowInv
<1>10. CASE Install
  <2>1. cur \in Known /\ hosts[cur].ip4 \in Ips /\ pc = "install" /\ ~ refused < MaxRefusals
    BY <1>5, <1>10, HostFields DEF Install, TypeOK
  <2>2. /\ rt' = [rt EXCEPT ![hosts[cur].ip4] =
                    [iface |-> hosts[cur].iface, mac |-> cur, nh |-> nhop]]
        /\ pending' = TRUE /\ pc' = "unarp" /\ UNCHANGED <<hosts, cur, nhop, ixLive>> /\ ixLive
    BY <1>5, <1>10, <2>1 DEF Install
  <2>3. rt'[hosts[cur].ip4] = [iface |-> hosts[cur].iface, mac |-> cur, nh |-> nhop]
    BY <2>1, <2>2 DEF TypeOK
  <2>4. ASSUME NEW m \in Known, Settled(m)'
        PROVE  rt'[hosts[m].ip4] = [iface |-> hosts[m].iface, mac |-> m, nh |-> hosts[m].nh]
    <3>1. m # cur /\ Settled(m)
      BY <2>1, <2>2, <2>4 DEF Settled
    <3>2. hosts[m].ip4 # hosts[cur].ip4 /\ hosts[m].ip4 \in Ips
      BY <2>1, <3>1, HostFields, RecordsDiffer
    <3>3. rt'[hosts[m].ip4] = rt[hosts[m].ip4]
      BY <2>1, <2>2, <3>2 DEF TypeOK
    <3> QED
      BY <3>1, <3>3 DEF FollowInv
  <2>5. todo' # {} => buf' = <<>>
    BY <1>1 DEF FollowInv
  <2> QED
    BY <1>6, <2>2, <2>3, <2>4, <2>5 DEF FollowInv, Known
<1>11. CASE DropArp
  <2>1. /\ UNCHANGED <<rt, pending>> /\ pc = "unarp" /\ pc' \in {"sweep", "lines"}
        /\ Return /\ pending /\ cur \in Known
        /\ rt[hosts[cur].ip4] = [iface |-> hosts[cur].iface, mac |-> cur, nh |-> nhop]
    BY <1>5, <1>7, <1>11 DEF DropArp, Installed, FollowInv
  <2>2. ASSUME NEW m \in Known, Settled(m)'
        PROVE  rt'[hosts[m].ip4] = [iface |-> hosts[m].iface, mac |-> m, nh |-> hosts'[m].nh]
    <3>1. CASE m = cur
      <4>1. hosts'[m].nh = nhop
        BY <1>8, <1>11, <2>1, <3>1, EvaluateKeeps
      <4> QED
        BY <2>1, <3>1, <4>1
    <3>2. CASE m # cur
      <4>1. hosts'[m] = hosts[m] /\ Settled(m)
        BY <1>2, <1>8, <2>1, <2>2, <3>2 DEF Settled
      <4> QED
        BY <2>1, <4>1 DEF FollowInv
    <3> QED
      BY <3>1, <3>2
  <2> QED
    BY <1>3, <1>6, <1>7, <2>1, <2>2 DEF FollowInv
<1> QED
  BY <1>9, <1>10, <1>11

LEMMA StepFollow ==
    ASSUME ~ MayEnd, ~ MayLoseLink, ~ MayMiss, MaxRefusals = 0,
           TypeOK, TypeOK', PlaceInv, RecordInv, HeldInv, FollowInv, ~ Hook, [Next]_vars
    PROVE  FollowInv'
<1> USE DEF files, world
<1>1. CASE Environment
  BY <1>1, EnvironmentFollow
<1>2. CASE UNCHANGED vars
  BY <1>2 DEF vars, FollowInv, Known, Settled, Changed, BestNexthop
<1>3. CASE OnLease \/ Record \/ OnRelease
  BY <1>3, LineFollow DEF HeldInv
<1>4. CASE ReadNexthop \/ Install \/ DropArp
  BY <1>4, EvaluateFollow DEF HeldInv
<1>5. CASE Start \/ Restore
  <2>1. Known = {}
    BY <1>5 DEF Start, Restore, PlaceInv, DaemonPlace, Known
  <2>2. Known' = {}
    <3>1. CASE Start
      BY <2>1, <3>1 DEF Start, Known
    <3>2. CASE Restore
      <4>1. \A m \in Macs : saved[m] = None
        BY <3>2 DEF RecordInv, Restore
      <4>2. \A m \in Macs : hosts'[m] = None
        BY <3>2, <4>1 DEF Restore, Restorable, Stale
      <4> QED
        BY <4>2 DEF Known
    <3> QED
      BY <1>5, <3>1, <3>2
  <2>3. /\ UNCHANGED up /\ pc' \in {"restore", "sweep"}
        /\ todo' # {} => buf' = <<>>
    BY <1>5 DEF Start, Restore, FollowInv, PlaceInv, DaemonPlace
  <2> QED
    BY <2>2, <2>3 DEF FollowInv
<1>6. \A m \in Known : m # None
  BY HostFields
<1>7. CASE WakeMonitor \/ Timeout \/ WakeFifo \/ Sweep
  <2>1. /\ UNCHANGED <<usable, up, rt, hosts>>
        /\ pc' \in {"sweep", "lines", "poll", "read"} /\ pc \in {"poll", "sweep"}
        /\ cur = None
    BY <1>7 DEF WakeMonitor, Timeout, WakeFifo, Sweep, PlaceInv, DaemonPlace
  <2>2. todo' # {} => buf' = <<>> /\ pc' \notin {"poll", "lines", "record", "persist"}
    BY <1>7 DEF WakeMonitor, Timeout, WakeFifo, Sweep, FollowInv, PlaceInv, DaemonPlace
  <2>3. \A m \in Known : pending \/ m \in todo \/ m = cur => pending' \/ m \in todo' \/ m = cur'
    BY <1>6, <1>7, <2>1 DEF WakeMonitor, Timeout, WakeFifo, Sweep
  <2> QED
    BY <2>1, <2>2, <2>3, SameFollow
<1>8. CASE DropLine \/ Persist
  <2>1. /\ UNCHANGED <<usable, up, rt, hosts, pending, todo, cur>>
        /\ pc' \in {"lines", "poll", "read"} /\ pc \in {"lines", "persist"} /\ todo = {}
    BY <1>8 DEF DropLine, Persist, LineDone, FollowInv
  <2> QED
    BY <2>1, SameFollow
<1> QED
  BY <1>1, <1>2, <1>3, <1>4, <1>5, <1>7, <1>8 DEF Next, DaemonNext, Daemon, EndDaemon

(* The route of every recorded and reachable host goes to its best next    *)
(* hop when the daemon is at rest, whichever neighbours came and went      *)
(* while it worked: nothing is missed, no link is lost and no change of a  *)
(* route refused (evaluate, reconcile_all).                                *)
THEOREM RoutesAlwaysFollow ==
    ASSUME ~ MayEnd, ~ MayOmitIface, ~ MayLoseLink, ~ MayMiss, MaxRefusals = 0
    PROVE  Spec => []RoutesFollow
<1> DEFINE Inv == ~ Hook => FollowInv
<1>1. Init => Inv
  BY DEF Init, FollowInv, Known
<1>2. TypeOK /\ TypeOK' /\ PlaceInv /\ (~ Hook => RecordInv) /\ HeldInv /\ Inv /\ [Next]_vars
        => Inv'
  BY StepFollow, StepToolStays
<1>3. TypeOK /\ PlaceInv /\ Inv => RoutesFollow
  <2> SUFFICES ASSUME TypeOK, PlaceInv, Inv, Quiet, NEW m \in Known,
                      BestNexthop(hosts[m].iface, m) # None
               PROVE  rt[hosts[m].ip4] =
                        [iface |-> hosts[m].iface, mac |-> m,
                         nh |-> BestNexthop(hosts[m].iface, m)]
    BY DEF RoutesFollow, AllFollow
  <2>1. ~ Hook
    BY DEF PlaceInv, HookPlace, Known
  <2>2. pc = "poll" /\ ~ pending /\ todo = {} /\ cur = None /\ m # None
    BY <2>1, HostFields DEF Quiet, FollowInv, PlaceInv, DaemonPlace
  <2>3. BestNexthop(hosts[m].iface, m) = hosts[m].nh
    BY <2>1, <2>2 DEF FollowInv
  <2>4. Settled(m)
    BY <2>2, <2>3 DEF Settled
  <2> QED
    BY <2>1, <2>3, <2>4 DEF FollowInv
<1> QED
  BY <1>1, <1>2, <1>3, TypeCorrect, PlaceAlways, RecordAlways, HeldAlways, PTL DEF Spec
=============================================================================
