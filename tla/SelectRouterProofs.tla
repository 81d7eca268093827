------------------------- MODULE SelectRouterProofs -------------------------
(***************************************************************************)
(* SelectRouter for every set of routers and every dump: the loop returns  *)
(* the last entry no other entry beats.                                    *)
(***************************************************************************)
EXTENDS SelectRouter, SequenceTheorems, TLAPS

LEMMA KeyOfType ==
    ASSUME NEW e, NEW state
    PROVE  KeyOf(e, state) \in Keys
  BY DEF KeyOf, Keys, PrefRank

(* Every variable keeps its type and keys grows with the scan.             *)
THEOREM TypeCorrect == Spec => []TypeOK
<1>1. Init => TypeOK
  BY DumpsAssumption DEF Init, TypeOK
<1>2. TypeOK /\ [Next]_vars => TypeOK'
  <2> SUFFICES ASSUME TypeOK, [Next]_vars
               PROVE  TypeOK'
    OBVIOUS
  <2> USE DEF TypeOK
  <2>1. CASE Skip
    BY <2>1 DEF Skip
  <2>2. ASSUME NEW state \in NudStates, Examine(state)
        PROVE  TypeOK'
    <3> DEFINE key == KeyOf(dump[k], state)
    <3>1. key \in Keys
      BY KeyOfType
    <3>2. dump[k] \in Entries /\ k \in 1..Len(dump)
      BY <2>2, ElementOfSeq DEF Examine
    <3>3. dump[k].gw \in Gws \cup {NoGw}
      BY <3>2 DEF Entries
    <3> QED
      BY <2>2, <3>1, <3>2, <3>3 DEF Examine
  <2>3. CASE UNCHANGED vars
    BY <2>3 DEF vars
  <2> QED
    BY <2>1, <2>2, <2>3 DEF Next
<1> QED
  BY <1>1, <1>2, PTL DEF Spec

-----------------------------------------------------------------------------
(* The loop invariant: best is the last best of the entries examined.      *)
Examined == {j \in 1..(k - 1) : dump[j].gw # NoGw}

LastBestSoFar(j) ==
    /\ j \in Examined
    /\ bestKey = keys[j]
    /\ best = dump[j].gw
    /\ \A m \in Examined :
          /\ AtLeast(keys[j], keys[m])
          /\ m > j => ~ AtLeast(keys[m], keys[j])

LoopInv ==
    /\ \A j \in Examined : keys[j] \in Keys
    /\ IF Examined = {}
         THEN best = NoGw /\ bestKey = NoKey
         ELSE \E j \in Examined : LastBestSoFar(j)

(* AtLeast is a total order on keys.                                       *)
LEMMA AtLeastOrder ==
    ASSUME NEW a \in Keys, NEW b \in Keys, NEW c \in Keys
    PROVE  /\ AtLeast(a, a)
           /\ AtLeast(a, b) \/ AtLeast(b, a)
           /\ AtLeast(a, b) /\ AtLeast(b, c) => AtLeast(a, c)
  BY DEF AtLeast, Keys

LEMMA NoKeyIsNoKey == NoKey \notin Keys
  BY DEF NoKey, Keys

THEOREM LoopInvariant == Spec => []LoopInv
<1>1. Init => LoopInv
  BY DEF Init, LoopInv, Examined
<1>2. TypeOK /\ TypeOK' /\ LoopInv /\ [Next]_vars => LoopInv'
  <2> SUFFICES ASSUME TypeOK, TypeOK', LoopInv, [Next]_vars
               PROVE  LoopInv'
    OBVIOUS
  <2>1. CASE Skip
    <3>1. Examined' = Examined
      BY <2>1 DEF Skip, Examined, TypeOK
    <3>2. \A j \in Examined : keys'[j] = keys[j]
      BY <2>1 DEF Skip, Examined, TypeOK
    <3>3. \A j \in Examined : LastBestSoFar(j) => LastBestSoFar(j)'
      BY <2>1, <3>1, <3>2 DEF Skip, LastBestSoFar
    <3> QED
      BY <2>1, <3>1, <3>2, <3>3 DEF Skip, LoopInv
  <2>2. ASSUME NEW state \in NudStates, Examine(state)
        PROVE  LoopInv'
    <3> DEFINE key == KeyOf(dump[k], state)
    <3>1. key \in Keys
      BY KeyOfType
    <3>2. Examined' = Examined \cup {k} /\ k \notin Examined
      BY <2>2 DEF Examine, Examined, TypeOK
    <3>3. \A j \in Examined : keys'[j] = keys[j]
      BY <2>2 DEF Examine, Examined, TypeOK
    <3>4. keys'[k] = key
      BY <2>2 DEF Examine, TypeOK
    <3>5. \A j \in Examined' : keys'[j] \in Keys
      BY <3>1, <3>2, <3>3, <3>4 DEF LoopInv
    <3>6. \A j \in Examined : k > j
      BY DEF Examined, TypeOK
    <3>7. CASE Replaces(key)
      <4>1. best' = dump'[k].gw /\ bestKey' = keys'[k]
        BY <2>2, <3>4, <3>7 DEF Examine
      <4>2. ASSUME NEW m \in Examined
            PROVE  AtLeast(key, keys[m])
        <5>1. PICK j \in Examined : LastBestSoFar(j)
          BY DEF LoopInv
        <5>2. keys[j] \in Keys /\ keys[m] \in Keys
          BY <5>1 DEF LoopInv
        <5>3. AtLeast(key, keys[j])
          BY <3>7, <5>1, <5>2, NoKeyIsNoKey DEF Replaces, LastBestSoFar
        <5>4. AtLeast(keys[j], keys[m])
          BY <5>1 DEF LastBestSoFar
        <5> QED
          BY <3>1, <5>2, <5>3, <5>4, AtLeastOrder
      <4>3. AtLeast(key, key)
        BY <3>1, AtLeastOrder
      <4>4. PICK n \in Nat : n = k
        BY DEF TypeOK
      <4>5. n \in Examined' /\ keys'[n] = key /\ best' = dump'[n].gw /\ bestKey' = keys'[n]
        BY <3>2, <3>4, <4>1, <4>4
      <4>6. \A m \in Examined' : m = n \/ (m \in Examined /\ n > m)
        BY <3>2, <3>6, <4>4
      <4>7. \A m \in Examined' :
               /\ AtLeast(keys'[n], keys'[m])
               /\ m > n => ~ AtLeast(keys'[m], keys'[n])
        <5> TAKE m \in Examined'
        <5>1. CASE m = n
          BY <4>3, <4>5, <5>1
        <5>2. CASE m \in Examined /\ n > m
          <6>1. ~ m > n
            BY <4>4, <5>2 DEF Examined, TypeOK
          <6> QED
            BY <3>3, <4>2, <4>5, <5>2, <6>1
        <5> QED
          BY <4>6, <5>1, <5>2
      <4>8. LastBestSoFar(n)'
        BY <4>5, <4>7 DEF LastBestSoFar
      <4> QED
        BY <3>5, <4>5, <4>8 DEF LoopInv
    <3>8. CASE ~ Replaces(key)
      <4>1. UNCHANGED <<best, bestKey, dump>>
        BY <2>2, <3>8 DEF Examine
      <4>2. PICK j \in Examined : LastBestSoFar(j)
        BY <3>8 DEF LoopInv, Replaces
      <4>3. ~ AtLeast(key, keys[j]) /\ keys[j] \in Keys
        BY <3>8, <4>2 DEF Replaces, LastBestSoFar, LoopInv
      <4>4. AtLeast(keys[j], key)
        BY <3>1, <4>3, AtLeastOrder
      <4>5. \A m \in Examined' :
               /\ AtLeast(keys'[j], keys'[m])
               /\ m > j => ~ AtLeast(keys'[m], keys'[j])
        BY <3>2, <3>3, <3>4, <4>2, <4>3, <4>4 DEF LastBestSoFar
      <4>6. LastBestSoFar(j)'
        BY <3>2, <3>3, <4>1, <4>2, <4>5 DEF LastBestSoFar
      <4> QED
        BY <3>2, <3>5, <4>6 DEF LoopInv
    <3> QED
      BY <3>7, <3>8
  <2>3. CASE UNCHANGED vars
    BY <2>3 DEF vars, LoopInv, Examined, LastBestSoFar
  <2> QED
    BY <2>1, <2>2, <2>3 DEF Next
<1> QED
  BY <1>1, <1>2, TypeCorrect, PTL DEF Spec

(* select_router returns the last of the routers no other router beats on  *)
(* (preference, reachability), and None only when there is none.  So equal *)
(* routers are told apart by the order of the dump, not by address, as     *)
(* docs/conformance.md:40 has it.                                          *)
THEOREM SelectionCorrect == Spec => []SelectsLastBest
<1>1. TypeOK /\ LoopInv => SelectsLastBest
  <2> SUFFICES ASSUME TypeOK, LoopInv, Done
               PROVE  IF Candidates(dump) = {}
                        THEN best = NoGw
                        ELSE \E j \in 1..Len(dump) :
                               IsLastBest(dump, keys, j) /\ best = dump[j].gw
    BY DEF SelectsLastBest
  <2>1. k - 1 = Len(dump)
    BY DEF Done, TypeOK
  <2>2. Examined = Candidates(dump)
    BY <2>1 DEF Examined, Candidates
  <2>3. CASE Candidates(dump) = {}
    BY <2>2, <2>3 DEF LoopInv
  <2>4. CASE Candidates(dump) # {}
    <3>1. PICK j \in Examined : LastBestSoFar(j)
      BY <2>2, <2>4 DEF LoopInv
    <3>2. IsLastBest(dump, keys, j) /\ best = dump[j].gw
      BY <2>2, <3>1 DEF IsLastBest, LastBestSoFar
    <3> QED
      BY <2>2, <2>4, <3>1, <3>2 DEF Candidates
  <2> QED
    BY <2>3, <2>4
<1> QED
  BY <1>1, TypeCorrect, LoopInvariant, PTL

(* The keys rank the entries examined by their preference.                 *)
RankInv == \A j \in Examined : keys[j].rank = PrefRank(dump[j].pref)

LEMMA KeysRank == Spec => []RankInv
<1>1. Init => RankInv
  BY DEF Init, RankInv, Examined
<1>2. TypeOK /\ RankInv /\ [Next]_vars => RankInv'
  <2> SUFFICES ASSUME TypeOK, RankInv, [Next]_vars
               PROVE  RankInv'
    OBVIOUS
  <2>1. CASE Skip
    BY <2>1 DEF Skip, RankInv, Examined, TypeOK
  <2>2. ASSUME NEW state \in NudStates, Examine(state)
        PROVE  RankInv'
    BY <2>2 DEF Examine, KeyOf, RankInv, Examined, TypeOK
  <2>3. CASE UNCHANGED vars
    BY <2>3 DEF vars, RankInv, Examined
  <2> QED
    BY <2>1, <2>2, <2>3 DEF Next
<1> QED
  BY <1>1, <1>2, TypeCorrect, PTL DEF Spec

(* Whatever becomes of equal routers, none is preferred to the one that    *)
(* select_router returns, in any dump and with any states read.            *)
THEOREM SelectionBest == Spec => []SelectsBest
<1>1. TypeOK /\ LoopInv /\ RankInv /\ SelectsLastBest => SelectsBest
  <2> SUFFICES ASSUME TypeOK, LoopInv, RankInv, SelectsLastBest, Done,
                      Candidates(dump) # {}
               PROVE  \E j \in Candidates(dump) :
                        /\ best = dump[j].gw
                        /\ \A i \in Candidates(dump) :
                             /\ ~ Preferred(dump[i].pref, dump[j].pref)
                             /\ \/ Preferred(dump[j].pref, dump[i].pref)
                                \/ keys[i].reach <= keys[j].reach
    BY DEF SelectsBest, SelectsLastBest
  <2>1. Examined = Candidates(dump)
    BY DEF Examined, Candidates, Done, TypeOK
  <2>2. PICK j \in Candidates(dump) : IsLastBest(dump, keys, j) /\ best = dump[j].gw
    BY DEF SelectsLastBest, IsLastBest
  <2>3. ASSUME NEW i \in Candidates(dump)
        PROVE  /\ ~ Preferred(dump[i].pref, dump[j].pref)
               /\ \/ Preferred(dump[j].pref, dump[i].pref)
                  \/ keys[i].reach <= keys[j].reach
    <3>1. AtLeast(keys[j], keys[i]) /\ keys[i] \in Keys /\ keys[j] \in Keys
      BY <2>1, <2>2 DEF IsLastBest, LoopInv
    <3>2. keys[i].rank = PrefRank(dump[i].pref) /\ keys[j].rank = PrefRank(dump[j].pref)
      BY <2>1 DEF RankInv
    <3> QED
      BY <3>1, <3>2 DEF AtLeast, Keys, PrefRank, Preferred
  <2> QED
    BY <2>2, <2>3
<1> QED
  BY <1>1, TypeCorrect, LoopInvariant, KeysRank, SelectionCorrect, PTL
=============================================================================
