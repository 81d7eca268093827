------------------------ MODULE FollowGatewayProofs ------------------------
(* What FollowGateway promises of every daemon that implements it.         *)
EXTENDS FollowGateway, TLAPS

AccountedInv == mishaps \in Nat /\ Accounted

(* Until the first kill or refused call, nothing of the daemon's is in its *)
(* place that a running daemon does not claim: what it writes it knows,    *)
(* what it drops is gone, and a stop leaves nothing.                       *)
THEOREM AlwaysAccounted == Spec => []Accounted
<1>1. Init => AccountedInv
  BY DEF Init, AccountedInv, Accounted
<1>2. AccountedInv /\ [Next]_vars => AccountedInv'
  <2> SUFFICES ASSUME AccountedInv, [Next]_vars PROVE AccountedInv'
    OBVIOUS
  <2> USE DEF AccountedInv, Accounted
  <2>1. CASE Start
    BY <2>1 DEF Start
  <2>2. CASE Take
    BY <2>2 DEF Take
  <2>3. CASE Release
    BY <2>3 DEF Release
  <2>4. CASE Stop
    BY <2>4 DEF Stop, Orphan
  <2>5. CASE Mishap
    BY <2>5 DEF Mishap
  <2>6. CASE UNCHANGED vars
    BY <2>6 DEF vars
  <2> QED
    BY <2>1, <2>2, <2>3, <2>4, <2>5, <2>6 DEF Next
<1>3. AccountedInv => Accounted
  BY DEF AccountedInv
<1> QED
  BY <1>1, <1>2, <1>3, PTL DEF Spec
=============================================================================
