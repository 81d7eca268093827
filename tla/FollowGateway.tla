--------------------------- MODULE FollowGateway ---------------------------
(***************************************************************************)
(* What every host daemon of this repository promises of the one place in  *)
(* the kernel it writes to, be that an IPv4 default route or a permanent   *)
(* neighbour entry: it puts something there only while it runs, always     *)
(* knows that what is there is its own, and takes it away when it ends.    *)
(* Only a mishap, a kill or a refused call, breaks that, and what is left  *)
(* behind then goes when the kernel drops it or the daemon writes again.   *)
(*                                                                         *)
(* V4gwd, FreeBsdGwd and NeighborDaemons implement this specification, as  *)
(* their property Follows says; it stands for no code of its own.          *)
(***************************************************************************)
EXTENDS Naturals

CONSTANT Empty   \* nothing of the daemon's is in its place

VARIABLES
    slot,     \* what of the daemon's is in its place, or Empty
    claims,   \* what the daemon believes it put there
    alive,    \* the process runs
    mishaps   \* number of kills and refused calls so far

vars == <<slot, claims, alive, mishaps>>

Orphan == slot # Empty /\ slot \notin claims

Init ==
    /\ slot = Empty
    /\ claims = {}
    /\ alive = FALSE
    /\ mishaps = 0

\* A daemon without a record of its own takes what it finds for its own.
Start ==
    /\ ~ alive
    /\ alive' = TRUE
    /\ claims' \subseteq {slot}
    /\ UNCHANGED <<slot, mishaps>>

\* The daemon writes, over whatever is there, and knows what it wrote.
Take ==
    /\ alive
    /\ slot' # Empty
    /\ slot' \in claims'
    /\ claims' \subseteq claims \cup {slot'}
    /\ UNCHANGED <<alive, mishaps>>

\* The daemon removes what is there, or the kernel does, and the daemon drops
\* claims on what is not there.
Release ==
    /\ slot' \in {slot, Empty}
    /\ claims' \subseteq claims
    /\ slot' \in claims => slot' \in claims' \cup {Empty}
    /\ UNCHANGED <<alive, mishaps>>

\* The daemon ends as it should; an orphan is nothing it could remove.
Stop ==
    /\ alive
    /\ alive' = FALSE
    /\ claims' = {}
    /\ slot' = Empty \/ (Orphan /\ UNCHANGED slot)
    /\ UNCHANGED mishaps

\* A call is refused, or the process killed: claims may be gone for nothing.
Mishap ==
    /\ mishaps' = mishaps + 1
    /\ claims' \subseteq claims
    /\ alive' => alive
    /\ ~ alive' => claims' = {}
    /\ UNCHANGED slot

Next == Start \/ Take \/ Release \/ Stop \/ Mishap

Spec == Init /\ [][Next]_vars

-----------------------------------------------------------------------------
(* Without a mishap, what is in the place is claimed by a running daemon.  *)
Accounted == mishaps = 0 /\ slot # Empty => alive /\ slot \in claims
=============================================================================
