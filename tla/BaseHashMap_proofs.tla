-------------------------- MODULE BaseHashMap_proofs --------------------------
(***************************************************************************)
(* No key of a map with room is ever lost.  The invariant is that of open  *)
(* addressing: every slot before a key in its probe is taken.  Nothing     *)
(* empties a slot, so what is true of a key when it is placed stays true,  *)
(* and while the map grows it is true of the new slots alone.              *)
(***************************************************************************)
EXTENDS HashMapRoom, Foundations_proofs

Slots(d) == [0 .. Capacity(d) - 1 -> Keys \cup {Empty}]
KeysOf(t) == {t[p] : p \in Occupied(t)}

\* All the slots before p that a probe for k looks at are taken.
Path(t, k, d, p) ==
  \E j \in Windows(d) :
    /\ p \in Window(k, d, j)
    /\ \A i \in Windows(d) : i < j => \A q \in Window(k, d, i) : t[q] # Empty
    /\ \A q \in Window(k, d, j) : q < p => t[q] # Empty

Injective(t) == \A p, q \in Occupied(t) : t[p] = t[q] => p = q
Good(t, d) == Injective(t) /\ \A p \in Occupied(t) : Path(t, t[p], d, p)

-----------------------------------------------------------------------------
\* A set of natural numbers has a least element.
LEMMA LeastElement == ASSUME NEW S \in SUBSET Nat, S # {}
                      PROVE  Least(S) \in S /\ \A y \in S : Least(S) <= y
BY LeastNatural DEF Least

\* A set of slots is finite.
LEMMA SomeSlots == ASSUME NEW n \in Nat, NEW S \in SUBSET (0 .. n - 1)
                   PROVE  IsFiniteSet(S) /\ Cardinality(S) \in Nat
<1>1. IsFiniteSet(0 .. n - 1)
  BY FS_Interval
<1>2. IsFiniteSet(S)
  BY <1>1, FS_Subset
<1>3. QED BY <1>2, FS_CardinalityType

\* A window is not empty and lies within the slots.
LEMMA WindowFacts == ASSUME NEW d \in Degrees, NEW k \in Keys, NEW j \in Windows(d)
                     PROVE  /\ Offset(k, d, j) \in Window(k, d, j)
                            /\ Offset(k, d, j) \in Nat
                            /\ Window(k, d, j) \subseteq 0 .. Capacity(d) - 1
                            /\ \A p \in Window(k, d, j) : Offset(k, d, j) <= p
<1>1. Capacity(d) \in Nat \ {0}
  BY CapacityAssumption
<1>2. j \in Nat /\ H1(k) \in Nat /\ Width \in Nat \ {0}
  BY MapAssumption DEF Windows
<1>3. j * (j + 1) \in Nat
  BY <1>2
<1>4. (j * (j + 1)) \div 2 \in Nat
  BY <1>3
<1>5. Width * ((j * (j + 1)) \div 2) \in Nat
  BY <1>2, <1>4
<1>6. H1(k) + Width * ((j * (j + 1)) \div 2) \in Nat
  BY <1>2, <1>5
<1>7. Offset(k, d, j) \in 0 .. Capacity(d) - 1
  BY <1>1, <1>6 DEF Offset
<1>8. QED BY <1>1, <1>2, <1>7 DEF Window

\* The number of keys another one may meet is a number.
LEMMA CrowdType == ASSUME NEW d \in Degrees
                   PROVE  Threshold(d) \in Nat /\ Crowd(d) \in Nat
<1>1. Capacity(d) \in Nat /\ LoadNum \in Nat /\ LoadDen \in Nat \ {0} /\ MaxKeys \in Nat
  BY CapacityAssumption, MapAssumption
<1>2. Capacity(d) * LoadNum \in Nat
  BY <1>1
<1>3. (Capacity(d) * LoadNum + LoadDen - 1) \in Nat
  BY <1>1, <1>2
<1>4. Threshold(d) \in Nat
  BY <1>1, <1>3 DEF Threshold, CeilDiv
<1>5. QED BY <1>1, <1>4 DEF Crowd

\* A probe ends at the key, if the map has it once and on its path.
LEMMA FindOld == ASSUME NEW d \in Degrees, NEW t \in Slots(d), NEW p \in Occupied(t),
                        Path(t, t[p], d, p), Injective(t)
                 PROVE  FindPosition(t, t[p], d) = p
<1> DEFINE k == t[p]
           stops == Stops(t, k, d)
           first == Least(stops)
           own  == {q \in Window(k, d, first) : t[q] = k}
<1>1. k \in Keys /\ k # Empty /\ p \in 0 .. Capacity(d) - 1
  BY DEF Occupied, Slots
<1>2. PICK j \in Windows(d) :
         /\ p \in Window(k, d, j)
         /\ \A i \in Windows(d) : i < j => \A q \in Window(k, d, i) : t[q] # Empty
         /\ \A q \in Window(k, d, j) : q < p => t[q] # Empty
  BY DEF Path
<1>3. j \in stops
  BY <1>2 DEF Stops
<1>4. stops \in SUBSET Nat
  BY DEF Stops, Windows
<1>5. first \in stops /\ first <= j
  BY <1>3, <1>4, LeastElement
<1>6. first \in Windows(d)
  BY <1>5 DEF Stops
<1>7. \A q \in Window(k, d, first) : t[q] = k => q = p
  <2>1. ASSUME NEW q \in Window(k, d, first), t[q] = k PROVE q = p
    <3>1. q \in 0 .. Capacity(d) - 1
      BY <1>1, <1>6, WindowFacts
    <3>2. q \in Occupied(t)
      BY <3>1, <2>1, <1>1 DEF Occupied, Slots
    <3>3. QED BY <3>2, <2>1 DEF Injective
  <2>2. QED BY <2>1
<1>8. p \in Window(k, d, first) /\ t[Offset(k, d, first)] # Empty
  <2>1. CASE first = j
    <3>1. Offset(k, d, j) \in Window(k, d, j) /\ Offset(k, d, j) \in Nat
          /\ Offset(k, d, j) <= p
      BY <1>1, <1>2, WindowFacts
    <3>2. QED BY <2>1, <3>1, <1>1, <1>2
  <2>2. CASE first # j
    <3>1. first < j
      BY <2>2, <1>5, <1>4, <1>3
    <3>2. \A q \in Window(k, d, first) : t[q] # Empty
      BY <3>1, <1>6, <1>2
    <3>3. \E q \in Window(k, d, first) : t[q] \in {k, Empty}
      BY <1>5 DEF Stops
    <3>4. QED BY <3>2, <3>3, <1>7, <1>1, <1>6, WindowFacts
  <2>3. QED BY <2>1, <2>2
<1>9. own = {p}
  BY <1>7, <1>8
<1>10. p \in Nat
  BY <1>1
<1>11. Least({p}) = p
  BY <1>10, LeastElement
<1>12. FindPosition(t, k, d) = Least(own)
  BY <1>3, <1>8, <1>9 DEF FindPosition
<1>13. QED BY <1>9, <1>11, <1>12

\* A probe for a key that the map does not have ends at an empty slot, if its
\* windows have more slots than are taken.
LEMMA FindNew == ASSUME NEW d \in Degrees, NEW t \in Slots(d), NEW k \in Keys,
                        k \notin KeysOf(t),
                        Cardinality(Occupied(t)) < Cardinality(Reach(k, d))
                 PROVE  /\ FindPosition(t, k, d) \in 0 .. Capacity(d) - 1
                        /\ t[FindPosition(t, k, d)] = Empty
                        /\ Path(t, k, d, FindPosition(t, k, d))
<1> DEFINE stops == Stops(t, k, d)
           first == Least(stops)
           window == Window(k, d, first)
           own   == {q \in window : t[q] = k}
           free  == {q \in window : t[q] = Empty}
<1>1. Capacity(d) \in Nat \ {0} /\ k # Empty
  BY CapacityAssumption, MapAssumption
<1>2. IsFiniteSet(Occupied(t)) /\ Cardinality(Occupied(t)) \in Nat
  <2>1. Occupied(t) \subseteq 0 .. Capacity(d) - 1
    BY DEF Occupied, Slots
  <2>2. QED BY <2>1, <1>1, SomeSlots
<1>3. \A j \in Windows(d) : Window(k, d, j) \subseteq 0 .. Capacity(d) - 1
  BY WindowFacts
<1>4. IsFiniteSet(Reach(k, d)) /\ Cardinality(Reach(k, d)) \in Nat
  <2>1. Reach(k, d) \subseteq 0 .. Capacity(d) - 1
    BY <1>3 DEF Reach
  <2>2. QED BY <2>1, <1>1, SomeSlots
<1>5. \E q \in Reach(k, d) : t[q] = Empty
  <2>1. SUFFICES ASSUME \A q \in Reach(k, d) : t[q] # Empty PROVE FALSE
    OBVIOUS
  <2>2. Reach(k, d) \subseteq Occupied(t)
    BY <2>1, <1>3 DEF Reach, Occupied, Slots
  <2>3. QED BY <2>2, <1>2, <1>4, FS_Subset
<1>6. stops # {}
  BY <1>5 DEF Reach, Stops
<1>7. stops \in SUBSET Nat
  BY DEF Stops, Windows
<1>8. first \in stops /\ \A i \in stops : first <= i
  BY <1>6, <1>7, LeastElement
<1>9. first \in Windows(d) /\ first \in Nat
  BY <1>8, <1>7 DEF Stops
<1>10. window \subseteq 0 .. Capacity(d) - 1 /\ window \in SUBSET Nat
  BY <1>9, <1>3, <1>1
<1>11. own = {}
  BY <1>10, <1>1 DEF KeysOf, Occupied, Slots
<1>12. free # {} /\ free \in SUBSET Nat
  BY <1>8, <1>10, <1>11 DEF Stops
<1>13. Least(free) \in free /\ \A q \in free : Least(free) <= q
  BY <1>12, LeastElement
<1>14. FindPosition(t, k, d) = Least(free)
  BY <1>6, <1>11 DEF FindPosition
<1>15. \A i \in Windows(d) : i < first => \A q \in Window(k, d, i) : t[q] # Empty
  <2>1. ASSUME NEW i \in Windows(d), i < first PROVE i \notin stops
    BY <2>1, <1>8, <1>9 DEF Windows
  <2>2. QED BY <2>1 DEF Stops
<1>16. \A q \in window : q < Least(free) => t[q] # Empty
  <2>1. ASSUME NEW q \in window, q < Least(free), t[q] = Empty PROVE FALSE
    <3>1. q \in free /\ q \in Nat /\ Least(free) \in Nat
      BY <2>1, <1>10, <1>12, <1>13
    <3>2. Least(free) <= q
      BY <3>1, <1>13
    <3> HIDE DEF free
    <3>3. QED BY <3>1, <3>2, <2>1
  <2>2. QED BY <2>1
<1>17. Path(t, k, d, Least(free))
  BY <1>9, <1>13, <1>15, <1>16 DEF Path
<1>18. QED BY <1>13, <1>14, <1>17, <1>10

\* t2 has the key x more than t, in slot q.
Placed(t, t2, q, x) == /\ Occupied(t2) = Occupied(t) \cup {q}
                       /\ KeysOf(t2) = KeysOf(t) \cup {x}
                       /\ Cardinality(Occupied(t2)) = Cardinality(Occupied(t)) + 1

\* What is taken stays taken: a path to a key survives the placing of another.
LEMMA PathKept == ASSUME NEW d \in Degrees, NEW t \in Slots(d), NEW k \in Keys, NEW p,
                         Path(t, k, d, p), NEW q \in DOMAIN t, NEW x \in Keys
                  PROVE  Path([t EXCEPT ![q] = x], k, d, p)
<1>1. x # Empty
  BY MapAssumption
<1>2. PICK j \in Windows(d) :
         /\ p \in Window(k, d, j)
         /\ \A i \in Windows(d) : i < j => \A r \in Window(k, d, i) : t[r] # Empty
         /\ \A r \in Window(k, d, j) : r < p => t[r] # Empty
  BY DEF Path
<1>3. \A i \in Windows(d) : Window(k, d, i) \subseteq DOMAIN t
  BY WindowFacts DEF Slots
<1>4. \A r \in DOMAIN t : t[r] # Empty => [t EXCEPT ![q] = x][r] # Empty
  BY <1>1
<1>5. QED BY <1>2, <1>3, <1>4 DEF Path

\* Placing a key in an empty slot adds it to the keys and to the taken slots.
LEMMA PlaceOne == ASSUME NEW d \in Degrees, NEW t \in Slots(d), NEW x \in Keys,
                         NEW q \in DOMAIN t, t[q] = Empty,
                         NEW t2, t2 = [t EXCEPT ![q] = x]
                  PROVE  /\ t2 \in Slots(d)
                         /\ Placed(t, t2, q, x)
<1>1. x # Empty
  BY MapAssumption
<1>2. t2 \in Slots(d) /\ DOMAIN t2 = DOMAIN t /\ DOMAIN t = 0 .. Capacity(d) - 1
  BY DEF Slots
<1>3. Occupied(t2) = Occupied(t) \cup {q}
  BY <1>1, <1>2 DEF Occupied
<1>4. \A p \in Occupied(t) : t2[p] = t[p]
  BY DEF Occupied
<1>5. KeysOf(t2) = KeysOf(t) \cup {x}
  <2>1. t2[q] = x
    OBVIOUS
  <2>2. ASSUME NEW v PROVE v \in KeysOf(t2) <=> v \in KeysOf(t) \/ v = x
    BY <2>1, <1>3, <1>4 DEF KeysOf
  <2>3. QED BY <2>2
<1>6. q \notin Occupied(t)
  BY DEF Occupied
<1>7. IsFiniteSet(Occupied(t))
  BY SomeSlots, CapacityAssumption, <1>2 DEF Occupied
<1>8. Cardinality(Occupied(t2)) = Cardinality(Occupied(t)) + 1
  BY <1>3, <1>6, <1>7, FS_AddElement
<1>9. QED BY <1>2, <1>3, <1>5, <1>8 DEF Placed

\* Placing a new key where its probe ends keeps every key on its path.
LEMMA GoodPlace == ASSUME NEW d \in Degrees, NEW t \in Slots(d), Good(t, d), NEW k \in Keys,
                          k \notin KeysOf(t), Cardinality(Occupied(t)) <= Crowd(d),
                          NEW p, p = FindPosition(t, k, d),
                          NEW t2, t2 = [t EXCEPT ![p] = k]
                   PROVE  /\ p \in DOMAIN t /\ t[p] = Empty
                          /\ t2 \in Slots(d) /\ Good(t2, d)
                          /\ Placed(t, t2, p, k)
<1>1. Cardinality(Occupied(t)) < Cardinality(Reach(k, d))
  <2>1. Cardinality(Reach(k, d)) > Crowd(d)
    BY RoomAssumption
  <2>2. Cardinality(Occupied(t)) \in Nat
    BY SomeSlots, CapacityAssumption DEF Occupied, Slots
  <2>3. Cardinality(Reach(k, d)) \in Nat
    <3>1. Reach(k, d) \subseteq 0 .. Capacity(d) - 1
      BY WindowFacts DEF Reach
    <3>2. QED BY <3>1, SomeSlots, CapacityAssumption
  <2>4. Crowd(d) \in Nat
    BY CrowdType
  <2>5. QED BY <2>1, <2>2, <2>3, <2>4
<1>2. p \in 0 .. Capacity(d) - 1 /\ t[p] = Empty /\ Path(t, k, d, p)
  BY <1>1, FindNew
<1>3. p \in DOMAIN t
  BY <1>2 DEF Slots
<1>4. t2 \in Slots(d) /\ Placed(t, t2, p, k)
  BY <1>2, <1>3, PlaceOne
<1>5. \A q \in Occupied(t) : t2[q] = t[q] /\ t[q] # k /\ t[q] \in Keys
  BY <1>2 DEF Occupied, KeysOf, Slots
<1>6. t2[p] = k
  BY <1>3
<1>7. Injective(t2)
  <2>1. ASSUME NEW a \in Occupied(t2), NEW b \in Occupied(t2), t2[a] = t2[b] PROVE a = b
    BY <2>1, <1>4, <1>5, <1>6 DEF Good, Injective, Placed
  <2>2. QED BY <2>1 DEF Injective
<1>8. ASSUME NEW q \in Occupied(t2) PROVE Path(t2, t2[q], d, q)
  <2>1. CASE q = p
    BY <2>1, <1>2, <1>3, <1>6, PathKept
  <2>2. CASE q # p
    <3>1. q \in Occupied(t) /\ t2[q] = t[q] /\ t[q] \in Keys
      BY <2>2, <1>4, <1>5 DEF Placed
    <3>2. Path(t, t[q], d, q)
      BY <3>1 DEF Good
    <3>3. Path(t2, t[q], d, q)
      BY <3>1, <3>2, <1>3, PathKept
    <3>4. QED BY <3>1, <3>3
  <2>3. QED BY <2>1, <2>2
<1>9. QED BY <1>2, <1>3, <1>4, <1>7, <1>8 DEF Good

\* t2 has all keys of t but x.
Removed(t, t2, x) == /\ KeysOf(t2) = KeysOf(t) \ {x}
                     /\ Cardinality(Occupied(t2)) = Cardinality(Occupied(t)) - 1

\* Taking a key out of a table in which each key is once.
LEMMA RemoveOne == ASSUME NEW d \in Degrees, NEW t \in Slots(d), Injective(t), NEW q \in Occupied(t),
                          NEW t2, t2 = [t EXCEPT ![q] = Empty]
                   PROVE  t2 \in Slots(d) /\ Injective(t2) /\ Removed(t, t2, t[q])
<1>1. t2 \in Slots(d) /\ DOMAIN t2 = DOMAIN t /\ DOMAIN t = 0 .. Capacity(d) - 1 /\ q \in DOMAIN t
  BY DEF Slots, Occupied
<1>2. Occupied(t2) = Occupied(t) \ {q}
  BY <1>1 DEF Occupied
<1>3. \A p \in Occupied(t2) : t2[p] = t[p] /\ p \in Occupied(t)
  BY <1>2
<1>4. Injective(t2)
  <2>1. QED BY <1>3 DEF Injective
<1>5. KeysOf(t2) = KeysOf(t) \ {t[q]}
  <2>1. ASSUME NEW p \in Occupied(t2) PROVE t2[p] \in KeysOf(t) /\ t2[p] # t[q]
    <3>1. p \in Occupied(t) /\ t2[p] = t[p] /\ p # q
      BY <1>2, <1>3
    <3>2. QED BY <3>1 DEF KeysOf, Injective
  <2>2. ASSUME NEW p \in Occupied(t), t[p] # t[q] PROVE t[p] \in KeysOf(t2)
    <3>1. p \in Occupied(t2) /\ t2[p] = t[p]
      BY <2>2, <1>2, <1>3
    <3>2. QED BY <3>1 DEF KeysOf
  <2>3. QED BY <2>1, <2>2 DEF KeysOf
<1>6. IsFiniteSet(Occupied(t))
  BY SomeSlots, CapacityAssumption, <1>1 DEF Occupied
<1>7. Cardinality(Occupied(t2)) = Cardinality(Occupied(t)) - 1
  BY <1>2, <1>6, FS_RemoveElement
<1>8. QED BY <1>1, <1>4, <1>5, <1>7 DEF Removed

\* A map that has just been made holds nothing.
LEMMA EmptyTable == ASSUME NEW d \in Degrees
                    PROVE  /\ NoSlots(d) \in Slots(d) /\ Good(NoSlots(d), d)
                           /\ Occupied(NoSlots(d)) = {} /\ KeysOf(NoSlots(d)) = {}
                           /\ Cardinality(Occupied(NoSlots(d))) = 0
<1>1. NoSlots(d) \in Slots(d) /\ Occupied(NoSlots(d)) = {}
  BY DEF NoSlots, Slots, Occupied
<1>2. Cardinality({}) = 0
  BY FS_EmptySet
<1>3. QED BY <1>1, <1>2 DEF Good, Injective, KeysOf

\* The taken slots of a table are counted by a number.
LEMMA Taken == ASSUME NEW d \in Degrees, NEW t \in Slots(d)
               PROVE  IsFiniteSet(Occupied(t)) /\ Cardinality(Occupied(t)) \in Nat
BY SomeSlots, CapacityAssumption DEF Occupied, Slots

-----------------------------------------------------------------------------
Shape ==
  /\ degree \in Degrees /\ slots \in Slots(degree) /\ (\E d \in Degrees : oldSlots \in Slots(d))
  /\ nullSlot \in BOOLEAN /\ pending \in Keys \cup {Empty}
  /\ elementsSize \in Nat /\ hasBeenOutput \in Nat

\* Every key is once in the map, old or new.
Once ==
  /\ Good(slots, degree) /\ Injective(oldSlots)
  /\ KeysOf(slots) \cap KeysOf(oldSlots) = {}
  /\ put = KeysOf(slots) \cup KeysOf(oldSlots)

Counted ==
  elementsSize = Cardinality(Occupied(slots)) + Cardinality(Occupied(oldSlots))
                 + (IF nullSlot THEN 1 ELSE 0)

\* While the map does not grow there are no old slots, and at most one key more than
\* the threshold; while it does there is room for all keys.
Growth ==
  /\ pending = Empty => Occupied(oldSlots) = {}
  /\ pending = Empty /\ Growing => Cardinality(Occupied(slots)) <= Threshold(degree) + 1
  /\ pending # Empty =>
       /\ Growing
       /\ Cardinality(Occupied(slots)) + Cardinality(Occupied(oldSlots)) <= Threshold(degree)

Walk ==
  /\ output \subseteq Stored
  /\ hasBeenOutput = 0 => output = {}
  /\ pending # Empty => hasBeenOutput = 0

IInv == Shape /\ Once /\ Counted /\ Growth /\ Walk

\* What a map without old slots has.
LEMMA StoredIs == ASSUME NEW d \in Degrees, oldSlots \in Slots(d)
                  PROVE  /\ Stored = KeysOf(slots) \cup KeysOf(oldSlots)
                                     \cup (IF nullSlot THEN {null} ELSE {})
                         /\ Occupied(oldSlots) = {} => KeysOf(oldSlots) = {}
                         /\ Occupied(oldSlots) = {} <=> Cardinality(Occupied(oldSlots)) = 0
<1>1. Occupied(oldSlots) = {} <=> Cardinality(Occupied(oldSlots)) = 0
  BY Taken, FS_EmptySet
<1>2. QED BY <1>1 DEF Stored, KeysOf

\* The slots after Emplace: the key is in them, and counted if it is new.
LEMMA PlaceStep == ASSUME degree \in Degrees, slots \in Slots(degree), Good(slots, degree),
                          elementsSize \in Nat, NEW k \in Keys,
                          Cardinality(Occupied(slots)) <= Crowd(degree), Place(k)
                   PROVE  /\ slots' \in Slots(degree) /\ Good(slots', degree)
                          /\ KeysOf(slots') = KeysOf(slots) \cup {k}
                          /\ elementsSize' \in Nat
                          /\ \/ /\ elementsSize' = elementsSize
                                /\ Cardinality(Occupied(slots')) = Cardinality(Occupied(slots))
                             \/ /\ elementsSize' = elementsSize + 1
                                /\ Cardinality(Occupied(slots')) = Cardinality(Occupied(slots)) + 1
                          /\ put' = put \cup {k}
<1>1. k # Empty
  BY MapAssumption
<1>2. CASE k \in KeysOf(slots)
  <2>1. PICK p \in Occupied(slots) : slots[p] = k
    BY <1>2 DEF KeysOf
  <2>2. Find(k) = p
    BY <2>1, FindOld DEF Good, Find
  <2>3. [slots EXCEPT ![p] = k] = slots
    BY <2>1 DEF Slots
  <2>4. slots' = slots /\ elementsSize' = elementsSize /\ put' = put \cup {k}
    BY <2>1, <2>2, <2>3 DEF Place
  <2>5. QED BY <2>4, <1>2
<1>3. CASE k \notin KeysOf(slots)
  <2> DEFINE p == FindPosition(slots, k, degree)
             t2 == [slots EXCEPT ![p] = k]
  <2>1. /\ slots[p] = Empty
        /\ t2 \in Slots(degree) /\ Good(t2, degree)
        /\ Placed(slots, t2, p, k)
    <3>1. p = FindPosition(slots, k, degree) /\ t2 = [slots EXCEPT ![p] = k]
      OBVIOUS
    <3> HIDE DEF p, t2
    <3>2. /\ degree \in Degrees /\ slots \in Slots(degree) /\ Good(slots, degree)
          /\ k \in Keys /\ k \notin KeysOf(slots)
          /\ Cardinality(Occupied(slots)) <= Crowd(degree)
      BY <1>3
    <3>3. QED BY ONLY <3>1, <3>2, GoodPlace
  <2>2. slots' = t2 /\ put' = put \cup {k}
    BY DEF Place, Find
  <2>3. elementsSize' = elementsSize + 1
    BY <2>1, <1>1 DEF Place, Find
  <2> HIDE DEF t2, p
  <2>4. QED BY <2>1, <2>2, <2>3 DEF Placed
<1>4. QED BY <1>2, <1>3

LEMMA InitIInv == Init => IInv
<1> SUFFICES ASSUME Init PROVE IInv
  OBVIOUS
<1>1. Degree \in Degrees
  BY DegreeAssumption, MapAssumption DEF Degrees
<1>2. /\ slots \in Slots(degree) /\ Good(slots, degree) /\ KeysOf(slots) = {}
      /\ Cardinality(Occupied(slots)) = 0
      /\ oldSlots \in Slots(Degree) /\ Good(oldSlots, Degree) /\ KeysOf(oldSlots) = {}
      /\ Occupied(oldSlots) = {} /\ Cardinality(Occupied(oldSlots)) = 0
  BY <1>1, EmptyTable DEF Init
<1>3. Shape
  BY <1>1, <1>2 DEF Init, Shape
<1>4. Once
  BY <1>2 DEF Init, Once, Good
<1>5. Counted
  BY <1>2 DEF Init, Counted
<1>6. Growth
  <2>1. Threshold(degree) \in Nat
    BY <1>1, CrowdType DEF Init
  <2>2. QED BY <1>2, <2>1 DEF Init, Growth
<1>7. Walk
  BY DEF Init, Walk
<1>8. QED BY <1>3, <1>4, <1>5, <1>6, <1>7 DEF IInv

\* What a state of the invariant says of the slots, for the steps below.
LEMMA StateFacts == ASSUME IInv
                    PROVE  /\ Threshold(degree) \in Nat /\ Crowd(degree) \in Nat
                           /\ Cardinality(Occupied(slots)) \in Nat
                           /\ Cardinality(Occupied(oldSlots)) \in Nat
                           /\ (Occupied(oldSlots) = {} <=> Cardinality(Occupied(oldSlots)) = 0)
                           /\ (Occupied(oldSlots) = {} => KeysOf(oldSlots) = {})
                           /\ Stored = KeysOf(slots) \cup KeysOf(oldSlots)
                                       \cup (IF nullSlot THEN {null} ELSE {})
<1>1. degree \in Degrees /\ slots \in Slots(degree) /\ \E d \in Degrees : oldSlots \in Slots(d)
  BY DEF IInv, Shape
<1>2. QED BY <1>1, CrowdType, Taken, StoredIs

\* Emplace and EmplaceNotNullKey, and the end of an Emplace that had to rehash.
LEMMA PlaceIInv == ASSUME IInv, NEW k \in Keys, Place(k), Occupied(oldSlots) = {},
                          hasBeenOutput = 0, pending' = Empty,
                          Growing => Cardinality(Occupied(slots)) <= Threshold(degree),
                          ~Growing => elementsSize < MaxKeys,
                          UNCHANGED <<nullSlot, degree, oldSlots, pos, hasBeenOutput, output>>
                   PROVE  IInv'
<1>1. Cardinality(Occupied(slots)) <= Crowd(degree)
  <2>1. CASE Growing
    BY <2>1 DEF Crowd
  <2>2. CASE ~Growing
    BY <2>2, StateFacts, MapAssumption DEF Crowd, IInv, Counted, Shape
  <2>3. QED BY <2>1, <2>2
<1>2. /\ slots' \in Slots(degree) /\ Good(slots', degree)
      /\ KeysOf(slots') = KeysOf(slots) \cup {k}
      /\ elementsSize' \in Nat
      /\ \/ /\ elementsSize' = elementsSize
            /\ Cardinality(Occupied(slots')) = Cardinality(Occupied(slots))
         \/ /\ elementsSize' = elementsSize + 1
            /\ Cardinality(Occupied(slots')) = Cardinality(Occupied(slots)) + 1
      /\ put' = put \cup {k}
  BY <1>1, PlaceStep DEF IInv, Shape, Once
<1>3. Shape'
  BY <1>2 DEF IInv, Shape
<1>4. Once'
  BY <1>2, StateFacts DEF IInv, Once
<1>5. Counted'
  BY <1>2, StateFacts, SMTT(30) DEF IInv, Counted, Shape
<1>6. Growth'
  BY <1>2, StateFacts DEF IInv, Growth, Shape
<1>7. Walk'
  <2>1. output' = {} /\ hasBeenOutput' = 0
    BY DEF IInv, Walk
  <2>2. QED BY <2>1 DEF Walk
<1>8. QED BY <1>3, <1>4, <1>5, <1>6, <1>7 DEF IInv

LEMMA RehashIInv == ASSUME IInv, NEW k \in Keys, Rehash(k) PROVE IInv'
<1> DEFINE d2 == GrowSize(degree)
<1>1. d2 \in Degrees
  BY DegreeAssumption, MapAssumption DEF Rehash, IInv, Shape, Degrees, GrowSize, enlargeThreshold
<1>2. /\ slots' \in Slots(d2) /\ Good(slots', d2) /\ KeysOf(slots') = {}
      /\ Cardinality(Occupied(slots')) = 0
  BY <1>1, EmptyTable DEF Rehash
<1>3. degree' = d2 /\ oldSlots' = slots /\ pending' = k /\ k # Empty
  BY MapAssumption DEF Rehash
<1>4. Occupied(oldSlots) = {} /\ KeysOf(oldSlots) = {} /\ Cardinality(Occupied(oldSlots)) = 0
  BY StateFacts DEF IInv, Growth, Rehash, Idle
<1>5. Shape'
  BY <1>1, <1>2, <1>3 DEF IInv, Shape, Rehash
<1>6. Once'
  BY <1>2, <1>3, <1>4 DEF IInv, Once, Good, Rehash
<1>7. Counted'
  BY <1>2, <1>3, <1>4, StateFacts DEF IInv, Counted, Rehash
<1>8. Growth'
  <2>1. Threshold(degree) < Threshold(d2)
    BY <1>1, RoomAssumption DEF IInv, Shape
  <2>2. Threshold(d2) \in Nat /\ Threshold(degree) \in Nat
    BY <1>1, CrowdType, StateFacts
  <2>3. Cardinality(Occupied(slots)) <= Threshold(degree) + 1
    BY DEF IInv, Growth, Rehash, Idle
  <2>4. QED BY <1>2, <1>3, <2>1, <2>2, <2>3, StateFacts DEF Growth, Rehash
<1>9. Walk'
  <2>1. output' = {} /\ hasBeenOutput' = 0
    BY DEF IInv, Walk, Rehash, Idle
  <2>2. QED BY <2>1 DEF Walk
<1>10. QED BY <1>5, <1>6, <1>7, <1>8, <1>9 DEF IInv

LEMMA ReinsertIInv == ASSUME IInv, Reinsert PROVE IInv'
<1>1. PICK d \in Degrees : oldSlots \in Slots(d)
  BY DEF IInv, Shape
<1> DEFINE p == Least(Occupied(oldSlots))
           k == oldSlots[p]
           f == FindPosition(slots, k, degree)
<1>2. p \in Occupied(oldSlots)
  <2>1. Occupied(oldSlots) \in SUBSET Nat
    BY <1>1 DEF Occupied, Slots
  <2>2. QED BY <2>1, LeastElement DEF Reinsert
<1>3. k \in Keys /\ k \in KeysOf(oldSlots) /\ k \notin KeysOf(slots)
  BY <1>1, <1>2 DEF Occupied, Slots, KeysOf, IInv, Once
<1>4. /\ slots' = [slots EXCEPT ![f] = k] /\ oldSlots' = [oldSlots EXCEPT ![p] = Empty]
      /\ UNCHANGED <<nullSlot, elementsSize, degree, pending, pos, hasBeenOutput, output, put>>
      /\ pending # Empty
  BY DEF Reinsert, Find
<1>5. /\ Growing /\ Cardinality(Occupied(slots)) + Cardinality(Occupied(oldSlots)) <= Threshold(degree)
  BY <1>4 DEF IInv, Growth
<1>6. Cardinality(Occupied(slots)) <= Crowd(degree)
  BY <1>5, StateFacts DEF Crowd
<1>7. slots' \in Slots(degree) /\ Good(slots', degree) /\ Placed(slots, slots', f, k)
  <2> HIDE DEF f, k
  <2>1. f = FindPosition(slots, k, degree)
    BY DEF f
  <2>2. /\ degree \in Degrees /\ slots \in Slots(degree) /\ Good(slots, degree)
    BY DEF IInv, Shape, Once
  <2>3. QED BY ONLY <1>3, <1>4, <1>6, <2>1, <2>2, GoodPlace
<1>8. oldSlots' \in Slots(d) /\ Injective(oldSlots') /\ Removed(oldSlots, oldSlots', k)
  <2>1. Injective(oldSlots)
    BY DEF IInv, Once
  <2> HIDE DEF p
  <2>2. QED BY <1>1, <1>2, <1>4, <2>1, RemoveOne
<1> HIDE DEF p, k, f
<1>9. KeysOf(slots') = KeysOf(slots) \cup {k} /\ KeysOf(oldSlots') = KeysOf(oldSlots) \ {k}
  BY <1>7, <1>8 DEF Placed, Removed
<1>10. /\ Cardinality(Occupied(slots')) = Cardinality(Occupied(slots)) + 1
       /\ Cardinality(Occupied(oldSlots')) = Cardinality(Occupied(oldSlots)) - 1
  BY <1>7, <1>8 DEF Placed, Removed
<1>11. Shape'
  BY <1>1, <1>4, <1>7, <1>8 DEF IInv, Shape
<1>12. Once'
  BY <1>3, <1>4, <1>7, <1>8, <1>9 DEF IInv, Once
<1>13. Counted'
  BY <1>4, <1>10, StateFacts DEF IInv, Counted
<1>14. Growth'
  BY <1>4, <1>5, <1>10, StateFacts DEF IInv, Growth
<1>15. Walk'
  <2>1. output' = {} /\ hasBeenOutput' = 0
    BY <1>4 DEF IInv, Walk
  <2>2. QED BY <2>1 DEF Walk
<1>16. QED BY <1>11, <1>12, <1>13, <1>14, <1>15 DEF IInv

LEMMA NullIInv == ASSUME IInv, EmplaceNullValue PROVE IInv'
<1>1. /\ nullSlot' = TRUE /\ elementsSize' = IF nullSlot THEN elementsSize ELSE elementsSize + 1
      /\ UNCHANGED <<slots, degree, pending, oldSlots, pos, hasBeenOutput, output, put>>
      /\ hasBeenOutput = 0
  BY DEF EmplaceNullValue, Idle
<1>2. Shape'
  BY <1>1 DEF IInv, Shape
<1>3. Once'
  BY <1>1 DEF IInv, Once
<1>4. Counted'
  BY <1>1, StateFacts DEF IInv, Counted, Shape
<1>5. Growth'
  BY <1>1 DEF IInv, Growth
<1>6. Walk'
  <2>1. output' = {} /\ hasBeenOutput' = 0
    BY <1>1 DEF IInv, Walk
  <2>2. pending' # Empty => hasBeenOutput' = 0
    BY <2>1
  <2>3. QED BY <2>1 DEF Walk
<1>7. QED BY <1>2, <1>3, <1>4, <1>5, <1>6 DEF IInv

LEMMA ResetIInv == ASSUME IInv, Reset PROVE IInv'
<1>1. /\ slots' = NoSlots(degree) /\ nullSlot' = FALSE /\ elementsSize' = 0
      /\ hasBeenOutput' = 0 /\ output' = {} /\ put' = {}
      /\ UNCHANGED <<degree, pending, oldSlots>> /\ pending = Empty
  BY DEF Reset
<1>2. degree \in Degrees
  BY DEF IInv, Shape
<1>3. /\ slots' \in Slots(degree) /\ Good(slots', degree) /\ KeysOf(slots') = {}
      /\ Cardinality(Occupied(slots')) = 0
  BY <1>1, <1>2, EmptyTable
<1>4. Occupied(oldSlots) = {} /\ KeysOf(oldSlots) = {} /\ Cardinality(Occupied(oldSlots)) = 0
  BY <1>1, StateFacts DEF IInv, Growth
<1>5. Shape'
  BY <1>1, <1>3 DEF IInv, Shape
<1>6. Once'
  BY <1>1, <1>3, <1>4 DEF IInv, Once
<1>7. Counted'
  BY <1>1, <1>3, <1>4 DEF Counted
<1>8. Growth'
  BY <1>1, <1>3, <1>4, StateFacts DEF Growth
<1>9. Walk'
  BY <1>1 DEF Walk
<1>10. QED BY <1>5, <1>6, <1>7, <1>8, <1>9 DEF IInv

\* A piece of the walk gives keys of the map, and at least one of them.
LEMMA HandleIInv == ASSUME IInv, HandleElements PROVE IInv'
<1> DEFINE expect == Smaller(OutRows, elementsSize - hasBeenOutput)
           n      == Smaller(expect, remainSlot)
           taken  == NextSlots(n)
           nulls  == IF n < expect /\ nullSlot THEN {null} ELSE {}
<1>1. /\ hasBeenOutput < elementsSize /\ pending = Empty
      /\ output' = output \cup {slots[p] : p \in taken} \cup nulls
      /\ hasBeenOutput' = hasBeenOutput + n + Cardinality(nulls)
      /\ UNCHANGED <<slots, nullSlot, elementsSize, degree, pending, oldSlots, put>>
  BY DEF HandleElements
<1>2. expect \in Nat \ {0} /\ n \in Nat
  BY <1>1, MapAssumption DEF Smaller, remainSlot, IInv, Shape
<1>3. nulls \subseteq Stored /\ Cardinality(nulls) \in {0, 1}
      /\ (Cardinality(nulls) = 0 => nulls = {})
  BY FS_EmptySet, FS_Singleton DEF Stored
<1>4. taken \subseteq Occupied(slots) /\ (n = 0 => taken = {})
  <2>1. taken \subseteq Occupied(slots)
    BY DEF NextSlots
  <2>2. ASSUME n = 0 PROVE taken = {}
    <3>1. ASSUME NEW p \in taken PROVE FALSE
      <4> DEFINE before == {q \in Occupied(slots) : pos <= q /\ q < p}
      <4>1. Cardinality(before) < 0
        BY <2>2, <3>1 DEF NextSlots
      <4>2. IsFiniteSet(Occupied(slots))
        BY Taken DEF IInv, Shape
      <4>3. Cardinality(before) \in Nat
        <5>1. before \subseteq Occupied(slots)
          OBVIOUS
        <5> HIDE DEF before
        <5>2. QED BY <5>1, <4>2, FS_Subset, FS_CardinalityType
      <4>4. QED BY <4>1, <4>3
    <3>2. QED BY <3>1
  <2>3. QED BY <2>1, <2>2
<1>5. {slots[p] : p \in taken} \subseteq Stored
  BY <1>4 DEF Stored
<1>6. Stored' = Stored
  BY <1>1 DEF Stored, Occupied
<1>7. Walk'
  <2>1. output' \subseteq Stored'
    BY <1>1, <1>3, <1>5, <1>6 DEF IInv, Walk
  <2>2. ASSUME hasBeenOutput' = 0 PROVE output' = {}
    <3>1. hasBeenOutput = 0 /\ n = 0 /\ Cardinality(nulls) = 0
      BY <2>2, <1>1, <1>2, <1>3 DEF IInv, Shape
    <3>2. QED BY <3>1, <1>1, <1>3, <1>4 DEF IInv, Walk
  <2>3. QED BY <2>1, <2>2, <1>1 DEF Walk
<1>8. hasBeenOutput' \in Nat
  BY <1>1, <1>2, <1>3 DEF IInv, Shape
<1>9. Shape' /\ Once' /\ Counted' /\ Growth'
  BY <1>1, <1>8 DEF IInv, Shape, Once, Counted, Growth
<1>10. QED BY <1>7, <1>9 DEF IInv

LEMMA StepIInv == IInv /\ [Next]_vars => IInv'
<1> SUFFICES ASSUME IInv, [Next]_vars PROVE IInv'
  OBVIOUS
<1>1. ASSUME NEW k \in Keys, Emplace(k) PROVE IInv'
  <2>1. Cardinality(Occupied(slots)) <= Threshold(degree)
    BY <1>1, StateFacts DEF Emplace, NeedRehash, IInv, Counted, Shape
  <2>2. Occupied(oldSlots) = {} /\ hasBeenOutput = 0 /\ pending' = Empty /\ Growing
    BY <1>1 DEF Emplace, Idle, IInv, Growth
  <2>3. QED BY <1>1, <2>1, <2>2, PlaceIInv DEF Emplace
<1>2. ASSUME NEW k \in Keys, Rehash(k) PROVE IInv'
  BY <1>2, RehashIInv
<1>3. ASSUME NEW k \in Keys, EmplaceNotNullKey(k) PROVE IInv'
  <2>1. Occupied(oldSlots) = {} /\ hasBeenOutput = 0 /\ pending' = Empty
    BY <1>3 DEF EmplaceNotNullKey, Idle, IInv, Growth
  <2>2. Growing => Cardinality(Occupied(slots)) <= Threshold(degree)
    BY <1>3, StateFacts DEF EmplaceNotNullKey, NeedRehash, IInv, Counted, Shape
  <2>3. ~Growing => elementsSize < MaxKeys
    BY <1>3 DEF EmplaceNotNullKey
  <2>4. QED BY <1>3, <2>1, <2>2, <2>3, PlaceIInv DEF EmplaceNotNullKey
<1>4. CASE Reinsert
  BY <1>4, ReinsertIInv
<1>5. CASE EmplaceRehashed
  <2>1. pending \in Keys /\ Place(pending) /\ pending # Empty
    BY <1>5 DEF EmplaceRehashed, IInv, Shape
  <2>2. Growing /\ Cardinality(Occupied(slots)) <= Threshold(degree)
    BY <2>1, StateFacts DEF IInv, Growth
  <2>3. hasBeenOutput = 0
    BY <2>1 DEF IInv, Walk
  <2>4. QED BY <1>5, <2>1, <2>2, <2>3, PlaceIInv DEF EmplaceRehashed
<1>6. CASE EmplaceNullValue
  BY <1>6, NullIInv
<1>7. CASE Reset
  BY <1>7, ResetIInv
<1>8. CASE HandleElements
  BY <1>8, HandleIInv
<1>9. CASE UNCHANGED vars
  BY <1>9 DEF vars, IInv, Shape, Once, Counted, Growth, Walk, Stored, Occupied, KeysOf, Good,
              Injective, Path
<1>10. QED BY <1>1, <1>2, <1>3, <1>4, <1>5, <1>6, <1>7, <1>8, <1>9 DEF Next

THEOREM Invariant == Spec => []IInv
<1>1. QED BY InitIInv, StepIInv, PTL DEF Spec

\* No key that was put is ever missed by a probe.
THEOREM KeysAreFound == Spec => []EveryKeyFound
<1>1. IInv => EveryKeyFound
  <2> SUFFICES ASSUME IInv, pending = Empty, NEW k \in put PROVE slots[Find(k)] = k
    BY DEF EveryKeyFound
  <2>1. k \in KeysOf(slots)
    BY StateFacts DEF IInv, Once, Growth
  <2>2. PICK p \in Occupied(slots) : slots[p] = k
    BY <2>1 DEF KeysOf
  <2>3. Find(k) = p
    BY <2>2, FindOld DEF IInv, Shape, Once, Good, Find
  <2>4. QED BY <2>2, <2>3
<1>2. QED BY <1>1, Invariant, PTL

\* As many keys as slots, for a table in which every key is once.
LEMMA KeysCounted == ASSUME NEW d \in Degrees, NEW t \in Slots(d), Injective(t)
                     PROVE  /\ IsFiniteSet(KeysOf(t)) /\ KeysOf(t) \subseteq Keys
                            /\ Cardinality(KeysOf(t)) = Cardinality(Occupied(t))
<1> DEFINE f == [p \in Occupied(t) |-> t[p]]
<1>1. IsFiniteSet(Occupied(t))
  BY Taken
<1>2. KeysOf(t) \subseteq Keys
  BY DEF KeysOf, Occupied, Slots
<1>3. f \in Surjection(Occupied(t), KeysOf(t)) /\ f \in Injection(Occupied(t), KeysOf(t))
  BY DEF Surjection, Injection, IsInjective, KeysOf, Injective
<1>4. QED BY <1>1, <1>2, <1>3, FS_Surjection

\* elementsSize is the number of keys in the map.
THEOREM ElementsAreCounted == Spec => []ElementsCounted
<1>1. IInv => ElementsCounted
  <2> SUFFICES ASSUME IInv PROVE elementsSize = Cardinality(Stored)
    BY DEF ElementsCounted
  <2> DEFINE N == KeysOf(slots)
             O == KeysOf(oldSlots)
  <2>1. PICK d \in Degrees : oldSlots \in Slots(d)
    BY DEF IInv, Shape
  <2>2. /\ IsFiniteSet(N) /\ N \subseteq Keys /\ Cardinality(N) = Cardinality(Occupied(slots))
        /\ IsFiniteSet(O) /\ O \subseteq Keys /\ Cardinality(O) = Cardinality(Occupied(oldSlots))
    BY <2>1, KeysCounted DEF IInv, Shape, Once, Good
  <2>3. N \cap O = {}
    BY DEF IInv, Once
  <2> HIDE DEF N, O
  <2>4. IsFiniteSet(N \cup O) /\ Cardinality(N \cup O) = Cardinality(N) + Cardinality(O)
    <3>1. Cardinality(N) \in Nat /\ Cardinality(O) \in Nat /\ Cardinality(N \cap O) = 0
      BY <2>2, <2>3, FS_CardinalityType, FS_EmptySet
    <3>2. IsFiniteSet(N \cup O)
          /\ Cardinality(N \cup O) = Cardinality(N) + Cardinality(O) - Cardinality(N \cap O)
      BY <2>2, FS_Union
    <3>3. QED BY <3>1, <3>2
  <2>5. null \notin N \cup O
    BY <2>2, MapAssumption
  <2>6. Stored = (N \cup O) \cup (IF nullSlot THEN {null} ELSE {})
    BY StateFacts DEF N, O
  <2>7. Cardinality(N) \in Nat /\ Cardinality(O) \in Nat
    BY <2>2, FS_CardinalityType
  <2>8. Cardinality(Stored) = Cardinality(N) + Cardinality(O) + (IF nullSlot THEN 1 ELSE 0)
    <3>1. CASE nullSlot
      <4>1. Stored = (N \cup O) \cup {null}
        BY <2>6, <3>1
      <4>2. QED BY <4>1, <2>4, <2>5, <3>1, FS_AddElement
    <3>2. CASE ~nullSlot
      <4>1. Stored = N \cup O
        BY <2>6, <3>2
      <4>2. QED BY <4>1, <2>4, <2>7, <3>2
    <3>3. QED BY <3>1, <3>2
  <2>9. QED BY <2>2, <2>8 DEF IInv, Counted
<1>2. QED BY <1>1, Invariant, PTL

\* The map implements KeyMap: what is stored is what was put, also while it grows,
\* and the walk gives nothing else.
LEMMA StoredIsPut == IInv => Stored = put \cup (IF nullSlot THEN {null} ELSE {})
BY StateFacts DEF IInv, Once

LEMMA StoredIsPutNext == IInv' => (Stored = put \cup (IF nullSlot THEN {null} ELSE {}))'
BY StoredIsPut, PTL

LEMMA PutKey == ASSUME IInv, IInv', NEW k \in Keys, put' = put \cup {k}, hasBeenOutput = 0,
                       UNCHANGED <<nullSlot, output>>
                PROVE  Map!MapNext
<1>1. Stored' = Stored \cup {k}
  <2>1. Stored' = put' \cup (IF nullSlot' THEN {null} ELSE {})
    BY StoredIsPut, StoredIsPutNext
  <2>2. QED BY <2>1, StoredIsPut
<1>2. output = {} /\ output' = output
  BY DEF IInv, Walk
<1>3. k \in Stored' /\ Map!Put(k)
  BY <1>1, <1>2 DEF Map!Put
<1>4. QED BY <1>3 DEF Map!MapNext

THEOREM ImplementsKeyMap == Spec => IsKeyMap
<1>1. Init => Map!MapInit
  <2> SUFFICES ASSUME Init PROVE Stored = {} /\ output = {}
    BY DEF Map!MapInit
  <2>1. put = {} /\ nullSlot = FALSE /\ output = {}
    BY DEF Init
  <2>2. QED BY <2>1, InitIInv, StoredIsPut
<1>2. IInv /\ IInv' /\ [Next]_vars => [Map!MapNext]_<<Stored, output>>
  <2> SUFFICES ASSUME IInv, IInv', [Next]_vars
               PROVE  Map!MapNext \/ (Stored' = Stored /\ output' = output)
    OBVIOUS
  <2>1. Stored = put \cup (IF nullSlot THEN {null} ELSE {})
        /\ Stored' = put' \cup (IF nullSlot' THEN {null} ELSE {})
    BY StoredIsPut, StoredIsPutNext
  <2>2. ASSUME NEW k \in Keys, Emplace(k) \/ EmplaceNotNullKey(k) PROVE Map!MapNext
    BY <2>2, PutKey DEF Emplace, EmplaceNotNullKey, Place, Idle
  <2>3. ASSUME NEW k \in Keys, Rehash(k) PROVE Stored' = Stored /\ output' = output
    BY <2>3, <2>1 DEF Rehash
  <2>4. CASE Reinsert
    BY <2>4, <2>1 DEF Reinsert
  <2>5. CASE EmplaceRehashed
    <3>1. pending \in Keys /\ hasBeenOutput = 0
      BY <2>5 DEF EmplaceRehashed, IInv, Shape, Walk
    <3>2. QED BY <2>5, <3>1, PutKey DEF EmplaceRehashed, Place
  <2>6. CASE EmplaceNullValue
    <3>1. Stored' = Stored \cup {null}
      BY <2>6, <2>1 DEF EmplaceNullValue
    <3>2. output = {} /\ output' = output
      BY <2>6 DEF EmplaceNullValue, Idle, IInv, Walk
    <3>3. null \in Stored' /\ Map!Put(null)
      BY <3>1, <3>2 DEF Map!Put
    <3>4. QED BY <3>3 DEF Map!MapNext
  <2>7. CASE Reset
    <3>1. Stored' = {} /\ output' = {}
      BY <2>7, <2>1 DEF Reset
    <3>2. QED BY <3>1 DEF Map!MapNext, Map!Clear
  <2>8. CASE HandleElements
    <3>1. Stored' = Stored
      BY <2>8, <2>1 DEF HandleElements
    <3>2. output \subseteq output' /\ output' \subseteq Stored
      BY <2>8, <3>1 DEF HandleElements, IInv, Walk
    <3>3. QED BY <3>1, <3>2 DEF Map!MapNext, Map!Deliver
  <2>9. CASE UNCHANGED vars
    BY <2>9, <2>1 DEF vars
  <2>10. QED BY <2>2, <2>3, <2>4, <2>5, <2>6, <2>7, <2>8, <2>9 DEF Next
<1>3. QED BY <1>1, <1>2, Invariant, PTL DEF Spec, IsKeyMap, Map!MapSpec, Map!mapVars

-----------------------------------------------------------------------------
(* The walk.  What it has given are the keys of the occupied slots before   *)
(* pos, and the null key last; as every key is in one slot, it gives none   *)
(* twice.                                                                   *)

Under(A, p) == {q \in A : q < p}
Firsts(A, n) == {p \in A : Cardinality(Under(A, p)) < n}

LEMMA BelowFacts == ASSUME NEW A \in SUBSET Nat, IsFiniteSet(A), NEW p \in Nat
                    PROVE  /\ IsFiniteSet(Under(A, p)) /\ Cardinality(Under(A, p)) \in Nat
                           /\ \A q \in Nat : q <= p => /\ Under(A, q) \subseteq Under(A, p)
                                                    /\ Cardinality(Under(A, q)) <= Cardinality(Under(A, p))
<1>1. IsFiniteSet(Under(A, p)) /\ Cardinality(Under(A, p)) \in Nat
  <2>1. Under(A, p) \subseteq A
    BY DEF Under
  <2>2. QED BY <2>1, FS_Subset, FS_CardinalityType
<1>2. ASSUME NEW q \in Nat, q <= p
      PROVE  Under(A, q) \subseteq Under(A, p) /\ Cardinality(Under(A, q)) <= Cardinality(Under(A, p))
  <2>1. Under(A, q) \subseteq Under(A, p)
    <3>1. \A r \in A : r \in Nat
      OBVIOUS
    <3>2. \A r \in A : r < q => r < p
      BY <1>2, <3>1
    <3>3. QED BY <3>2 DEF Under
  <2>2. QED BY <1>1, <2>1, FS_Subset
<1>3. QED BY <1>1, <1>2

\* The first n of a set are n, and none is missing among them.
LEMMA FirstOnes == ASSUME NEW A \in SUBSET Nat, IsFiniteSet(A), NEW n \in Nat, n <= Cardinality(A)
                   PROVE  Cardinality(Firsts(A, n)) = n
<1> DEFINE B == {m \in Nat : m <= Cardinality(A) /\ Cardinality(Firsts(A, m)) # m}
<1> SUFFICES ASSUME B # {} PROVE FALSE
  OBVIOUS
<1>1. PICK m \in B : \A l \in B : m <= l
  <2>1. B \in SUBSET Nat
    OBVIOUS
  <2> HIDE DEF B
  <2>2. QED BY <2>1, LeastNatural
<1>2. m \in Nat /\ m <= Cardinality(A) /\ Cardinality(Firsts(A, m)) # m
  OBVIOUS
<1>3. \A p \in A : p \in Nat /\ Cardinality(Under(A, p)) \in Nat
  BY BelowFacts
<1>4. m # 0
  <2>1. SUFFICES ASSUME m = 0 PROVE FALSE
    OBVIOUS
  <2>2. Firsts(A, m) = {}
    <3>1. ASSUME NEW p \in A PROVE ~(Cardinality(Under(A, p)) < m)
      BY <1>3, <2>1
    <3>2. QED BY <3>1 DEF Firsts
  <2>3. QED BY <1>2, <2>1, <2>2, FS_EmptySet
<1> DEFINE F == Firsts(A, m - 1)
           R == A \ F
<1>5. Cardinality(F) = m - 1
  <2>1. m - 1 \in Nat /\ m - 1 <= Cardinality(A) /\ ~(m <= m - 1)
    BY <1>2, <1>4, FS_CardinalityType
  <2>2. m - 1 \notin B
    <3> HIDE DEF B
    <3>1. QED BY <1>1, <2>1
  <2>3. QED BY <2>1, <2>2
<1>6. F \subseteq A /\ IsFiniteSet(F)
  BY FS_Subset DEF Firsts
<1>7. R # {} /\ R \in SUBSET Nat
  <2>1. F # A
    BY <1>2, <1>5
  <2>2. QED BY <1>6, <2>1
<1> DEFINE x == Least(R)
<1> HIDE DEF B
<1>8. x \in R /\ \A y \in R : x <= y
  <2> HIDE DEF R
  <2>1. QED BY <1>7, LeastElement
<1>9. x \in A /\ x \in Nat /\ x \notin F
  BY <1>8
<1> HIDE DEF x
<1>10. Under(A, x) = F
  <2>1. ASSUME NEW q \in Under(A, x) PROVE q \in F
    <3>1. q \in A /\ q < x /\ q \in Nat
      BY DEF Under
    <3>2. q \notin R
      BY <1>8, <1>9, <3>1
    <3>3. QED BY <3>1, <3>2
  <2>2. ASSUME NEW q \in F PROVE q \in Under(A, x)
    <3>1. q \in A /\ q \in Nat /\ Cardinality(Under(A, q)) < m - 1
      BY DEF Firsts
    <3>2. ~(Cardinality(Under(A, x)) < m - 1)
      BY <1>9 DEF Firsts
    <3>3. ASSUME x <= q PROVE FALSE
      BY <1>2, <1>3, <1>9, <3>1, <3>2, <3>3, BelowFacts
    <3>4. QED BY <1>9, <3>1, <3>3 DEF Under
  <2>3. QED BY <2>1, <2>2
<1>11. Firsts(A, m) = F \cup {x}
  <2>1. ASSUME NEW p \in Firsts(A, m), p \notin F PROVE p = x
    <3>1. p \in A /\ p \in Nat /\ Cardinality(Under(A, p)) < m /\ p \in R
      BY <2>1 DEF Firsts
    <3>2. x <= p
      BY <1>8, <3>1
    <3>3. ASSUME x # p PROVE FALSE
      <4>1. x \in Under(A, p)
        BY <1>9, <3>1, <3>2, <3>3 DEF Under
      <4>6. F \subseteq Under(A, p)
        BY <1>9, <1>10, <3>1, <3>2, BelowFacts
      <4>2. F \cup {x} \subseteq Under(A, p) /\ IsFiniteSet(Under(A, p))
        BY <4>1, <4>6, <3>1, BelowFacts
      <4> HIDE DEF F
      <4>7. Cardinality(F \cup {x}) = Cardinality(F) + 1
        BY <1>6, <1>9, FS_AddElement
      <4>3. Cardinality(F \cup {x}) = m
        BY <1>2, <1>5, <4>7
      <4>4. m <= Cardinality(Under(A, p))
        BY <4>2, <4>3, FS_Subset
      <4>5. QED BY <1>2, <1>3, <3>1, <4>4
    <3>4. QED BY <3>3
  <2>2. x \in Firsts(A, m)
    <3>1. Cardinality(Under(A, x)) = m - 1
      BY <1>5, <1>10
    <3>2. QED BY <1>2, <1>9, <3>1 DEF Firsts
  <2>3. ASSUME NEW p \in F PROVE p \in Firsts(A, m)
    BY <1>2, <1>3, <2>3 DEF Firsts
  <2>4. Firsts(A, m) \subseteq A
    BY DEF Firsts
  <2>5. QED BY <2>1, <2>2, <2>3
<1>12. Cardinality(Firsts(A, m)) = m
  <2> HIDE DEF F
  <2>1. Cardinality(F \cup {x}) = Cardinality(F) + 1
    BY <1>6, <1>9, FS_AddElement
  <2>2. QED BY <1>2, <1>5, <1>11, <2>1
<1>13. QED BY <1>2, <1>12

Passed == {p \in Occupied(slots) : p < pos}
NullGiven == null \in output

WalkInv ==
  /\ pos \in Nat
  /\ output = {slots[p] : p \in Passed} \cup (IF NullGiven THEN {null} ELSE {})
  /\ hasBeenOutput = Cardinality(Passed) + (IF NullGiven THEN 1 ELSE 0)
  /\ NullGiven => nullSlot /\ hasBeenOutput = elementsSize
  /\ hasBeenOutput = 0 => pos = 0

\* Before the walk there is nothing to say.
LEMMA NoWalk == ASSUME IInv, pos = 0, hasBeenOutput = 0, output = {} PROVE WalkInv
<1>1. Occupied(slots) \subseteq Nat
  BY CapacityAssumption DEF IInv, Shape, Slots, Occupied
<1>2. Passed = {}
  BY <1>1 DEF Passed
<1>3. Cardinality(Passed) = 0
  BY <1>2, FS_EmptySet
<1>4. QED BY <1>2, <1>3 DEF WalkInv, NullGiven

\* A walk that has not ended finds as many keys as it is to give.
LEMMA HandleWalk == ASSUME IInv, WalkInv, HandleElements PROVE WalkInv'
<1> DEFINE expect == Smaller(OutRows, elementsSize - hasBeenOutput)
           n      == Smaller(expect, remainSlot)
           taken  == NextSlots(n)
           nulls  == IF n < expect /\ nullSlot THEN {null} ELSE {}
           A      == {p \in Occupied(slots) : p >= pos}
<1>1. /\ hasBeenOutput < elementsSize /\ pending = Empty
      /\ pos' = IF taken = {} THEN pos ELSE 1 + (CHOOSE p \in taken : \A q \in taken : q <= p)
      /\ output' = output \cup {slots[p] : p \in taken} \cup nulls
      /\ hasBeenOutput' = hasBeenOutput + n + Cardinality(nulls)
      /\ UNCHANGED <<slots, nullSlot, elementsSize, degree, pending, oldSlots, put>>
  BY DEF HandleElements
<1>2. /\ Occupied(slots) \in SUBSET Nat /\ IsFiniteSet(Occupied(slots))
      /\ Cardinality(Occupied(slots)) \in Nat /\ pos \in Nat
      /\ elementsSize \in Nat /\ hasBeenOutput \in Nat
  <2>1. Occupied(slots) \subseteq Nat
    BY CapacityAssumption DEF IInv, Shape, Slots, Occupied
  <2>2. QED BY <2>1, Taken DEF IInv, Shape, WalkInv
<1>3. ~NullGiven /\ hasBeenOutput = Cardinality(Passed)
  <2>1. Passed \subseteq Occupied(slots)
    BY DEF Passed
  <2>2. Cardinality(Passed) \in Nat
    BY <1>2, <2>1, FS_Subset, FS_CardinalityType
  <2>3. ~NullGiven
    BY <1>1, <1>2 DEF WalkInv
  <2>4. QED BY <2>2, <2>3 DEF WalkInv
<1>4. elementsSize = Cardinality(Occupied(slots)) + (IF nullSlot THEN 1 ELSE 0)
  BY <1>1, <1>2, StateFacts DEF IInv, Counted, Growth
<1>5. /\ IsFiniteSet(A) /\ A \in SUBSET Nat /\ IsFiniteSet(Passed) /\ A \cap Passed = {}
      /\ Cardinality(A) = Cardinality(Occupied(slots)) - Cardinality(Passed)
      /\ Cardinality(Passed) \in Nat /\ Cardinality(A) \in Nat
  <2>1. A \subseteq Occupied(slots) /\ Passed \subseteq Occupied(slots)
    BY DEF Passed
  <2>2. A \cap Passed = {} /\ A \cup Passed = Occupied(slots)
    BY <1>2 DEF Passed
  <2> HIDE DEF A
  <2>3. IsFiniteSet(A) /\ IsFiniteSet(Passed) /\ Cardinality(A) \in Nat /\ Cardinality(Passed) \in Nat
    BY <1>2, <2>1, FS_Subset, FS_CardinalityType
  <2>4. Cardinality(Occupied(slots)) = Cardinality(A) + Cardinality(Passed) - Cardinality(A \cap Passed)
    BY <2>2, <2>3, FS_Union
  <2>5. Cardinality(A \cap Passed) = 0
    BY <2>2, FS_EmptySet
  <2>6. QED BY <1>2, <2>1, <2>2, <2>3, <2>4, <2>5
<1>6. remainSlot = Cardinality(A)
  BY <1>2, <1>3, <1>4, <1>5 DEF remainSlot
<1>7. expect \in Nat \ {0} /\ n \in Nat /\ n <= Cardinality(A) /\ n <= expect
      /\ (n < expect => n = Cardinality(A)) /\ expect <= elementsSize - hasBeenOutput
  BY <1>1, <1>2, <1>5, <1>6, MapAssumption DEF Smaller
<1>8. taken = Firsts(A, n)
  <2> HIDE DEF n
  <2>1. \A p \in Nat : {q \in Occupied(slots) : pos <= q /\ q < p} = Under(A, p)
    BY <1>2 DEF Under
  <2>2. QED BY <1>2, <2>1 DEF NextSlots, Firsts
<1> HIDE DEF n, expect, taken
<1>9. taken \subseteq A /\ Cardinality(taken) = n /\ IsFiniteSet(taken)
  <2>1. taken \subseteq A
    BY <1>8 DEF Firsts
  <2>2. QED BY <1>5, <1>7, <1>8, <2>1, FirstOnes, FS_Subset
<1>10. \A p \in taken, q \in A : q <= p => q \in taken
  <2>1. ASSUME NEW p \in taken, NEW q \in A, q <= p PROVE q \in taken
    <3>1. p \in Nat /\ q \in Nat
      BY <1>5, <1>9
    <3>2. Cardinality(Under(A, p)) < n /\ Cardinality(Under(A, p)) \in Nat
          /\ Cardinality(Under(A, q)) <= Cardinality(Under(A, p)) /\ Cardinality(Under(A, q)) \in Nat
      BY <1>5, <1>8, <2>1, <3>1, BelowFacts DEF Firsts
    <3>3. Cardinality(Under(A, q)) < n
      BY <1>7, <3>2
    <3>4. QED BY <1>8, <3>3 DEF Firsts
  <2>2. QED BY <2>1
<1>11. pos' \in Nat /\ Passed' = Passed \cup taken
  <2>1. CASE taken = {}
    <3>1. pos' = pos /\ Passed' = Passed
      BY <1>1, <2>1 DEF Passed, Occupied
    <3>2. QED BY <1>2, <2>1, <3>1
  <2>2. CASE taken # {}
    <3>1. \E p \in taken : \A q \in taken : q <= p
      <4>1. Capacity(degree) \in Nat \ {0} /\ slots \in Slots(degree)
        BY CapacityAssumption DEF IInv, Shape
      <4>2. taken \in SUBSET (0 .. Capacity(degree) - 1)
        BY <1>9, <4>1 DEF Occupied, Slots
      <4>3. Capacity(degree) - 1 \in Nat
        BY <4>1
      <4>4. QED BY <2>2, <4>2, <4>3, GreatestNatural
    <3> DEFINE last == CHOOSE p \in taken : \A q \in taken : q <= p
    <3>7. last \in taken /\ \A q \in taken : q <= last
      BY <3>1
    <3>8. pos' = 1 + last
      BY <1>1, <2>2
    <3>9. last \in Nat
      BY <1>5, <1>9, <3>7
    <3> HIDE DEF last
    <3>2. PICK p \in taken : pos' = p + 1 /\ \A q \in taken : q <= p
      BY <3>7, <3>8, <3>9
    <3>3. p \in Nat /\ p >= pos
      BY <1>5, <1>9
    <3>4. \A q \in Occupied(slots) : q < p + 1 <=> q < pos \/ q \in taken
      <4>1. ASSUME NEW q \in Occupied(slots) PROVE q < p + 1 <=> q < pos \/ q \in taken
        <5>1. q \in Nat /\ (q >= pos <=> q \in A)
          BY <1>2
        <5>2. q \in taken => q <= p /\ q \in A
          BY <1>9, <3>2
        <5>3. q \in A /\ q <= p => q \in taken
          BY <1>10
        <5> HIDE DEF A
        <5>4. QED BY <1>2, <3>3, <5>1, <5>2, <5>3
      <4>2. QED BY <4>1
    <3>5. Occupied(slots)' = Occupied(slots) /\ taken \subseteq Occupied(slots)
      BY <1>1, <1>9 DEF Occupied
    <3>6. Passed' = {q \in Occupied(slots) : q < p + 1}
      BY <3>2, <3>5 DEF Passed
    <3>10. Passed' = Passed \cup taken
      BY <3>4, <3>5, <3>6 DEF Passed
    <3>11. QED BY <3>2, <3>3, <3>10
  <2>3. QED BY <2>1, <2>2
<1>12. Cardinality(Passed') = Cardinality(Passed) + n
  <2>1. Passed \cap taken = {}
    BY <1>5, <1>9
  <2>2. Cardinality(Passed \cup taken) = Cardinality(Passed) + Cardinality(taken) - Cardinality(Passed \cap taken)
    BY <1>5, <1>9, FS_Union
  <2>3. Cardinality(Passed \cap taken) = 0
    BY <2>1, FS_EmptySet
  <2>4. QED BY <1>5, <1>7, <1>9, <1>11, <2>2, <2>3
<1>13. /\ NullGiven' <=> nulls = {null}
       /\ Cardinality(nulls) = IF nulls = {null} THEN 1 ELSE 0
  <2>1. \A p \in taken : slots[p] # null
    <3>1. taken \subseteq Occupied(slots)
      BY <1>9
    <3>2. QED BY <3>1, MapAssumption DEF IInv, Shape, Slots, Occupied
  <2>2. QED BY <1>1, <1>3, <2>1, FS_EmptySet, FS_Singleton DEF NullGiven
<1>14. nulls = {null} => nullSlot /\ n = Cardinality(A)
  BY <1>7
<1>15. output' = {slots'[p] : p \in Passed'} \cup (IF NullGiven' THEN {null} ELSE {})
  <2>1. output = {slots[p] : p \in Passed}
    BY <1>3 DEF WalkInv
  <2>2. output' = {slots[p] : p \in Passed} \cup {slots[p] : p \in taken} \cup nulls
    BY <1>1, <2>1
  <2>3. {slots[p] : p \in Passed} \cup {slots[p] : p \in taken} = {slots[p] : p \in Passed'}
    BY <1>11
  <2>4. nulls = IF NullGiven' THEN {null} ELSE {}
    BY <1>13
  <2> HIDE DEF nulls
  <2>5. QED BY <1>1, <2>2, <2>3, <2>4
<1> HIDE DEF nulls, A
<1>16. hasBeenOutput' = Cardinality(Passed') + (IF NullGiven' THEN 1 ELSE 0)
  BY <1>1, <1>2, <1>3, <1>5, <1>7, <1>12, <1>13
<1>17. NullGiven' => nullSlot' /\ hasBeenOutput' = elementsSize'
  BY <1>1, <1>2, <1>3, <1>4, <1>5, <1>7, <1>13, <1>14
<1>18. hasBeenOutput' = 0 => pos' = 0
  <2>1. SUFFICES ASSUME hasBeenOutput' = 0 PROVE pos' = 0
    OBVIOUS
  <2>2. hasBeenOutput = 0 /\ n = 0
    BY <1>1, <1>2, <1>7, <1>13, <2>1
  <2>3. taken = {} /\ pos = 0
    BY <1>9, <2>2, FS_EmptySet DEF WalkInv
  <2>4. QED BY <1>1, <2>3
<1>19. QED BY <1>11, <1>15, <1>16, <1>17, <1>18 DEF WalkInv

LEMMA StepWalkInv == IInv /\ IInv' /\ WalkInv /\ [Next]_vars => WalkInv'
<1> SUFFICES ASSUME IInv, IInv', WalkInv, [Next]_vars PROVE WalkInv'
  OBVIOUS
<1>1. ASSUME pos' = 0, hasBeenOutput' = 0, output' = {} PROVE WalkInv'
  <2>1. (IInv /\ pos = 0 /\ hasBeenOutput = 0 /\ output = {} => WalkInv)'
    BY NoWalk, PTL
  <2>2. QED BY <1>1, <2>1
<1>2. hasBeenOutput = 0 => pos = 0 /\ output = {}
  BY DEF IInv, Walk, WalkInv
<1>3. ASSUME NEW k \in Keys, Emplace(k) \/ Rehash(k) \/ EmplaceNotNullKey(k) PROVE WalkInv'
  BY <1>1, <1>2, <1>3 DEF Emplace, Rehash, EmplaceNotNullKey, Idle
<1>4. CASE Reinsert \/ EmplaceRehashed
  BY <1>1, <1>2, <1>4 DEF Reinsert, EmplaceRehashed, IInv, Walk
<1>5. CASE EmplaceNullValue
  BY <1>1, <1>2, <1>5 DEF EmplaceNullValue, Idle
<1>6. CASE Reset
  BY <1>1, <1>6 DEF Reset
<1>7. CASE HandleElements
  BY <1>7, HandleWalk
<1>8. CASE UNCHANGED vars
  BY <1>8 DEF vars, WalkInv, Passed, NullGiven, Occupied
<1>9. QED BY <1>3, <1>4, <1>5, <1>6, <1>7, <1>8 DEF Next

\* A walk over the map, in pieces of any size, gives each key once.
THEOREM WalkGivesEachOnce == Spec => []EachKeyOnce
<1>1. Init => WalkInv
  BY InitIInv, NoWalk DEF Init
<1>2. IInv /\ WalkInv => EachKeyOnce
  <2> SUFFICES ASSUME IInv, WalkInv PROVE hasBeenOutput = Cardinality(output)
    BY DEF EachKeyOnce
  <2> DEFINE G == {slots[p] : p \in Passed}
             f == [p \in Passed |-> slots[p]]
  <2>1. IsFiniteSet(Passed) /\ Passed \subseteq Occupied(slots)
    <3>1. Passed \subseteq Occupied(slots)
      BY DEF Passed
    <3>2. QED BY <3>1, Taken, FS_Subset DEF IInv, Shape
  <2>2. Injective(slots)
    BY DEF IInv, Once, Good
  <2>3. f \in Surjection(Passed, G) /\ f \in Injection(Passed, G)
    BY <2>1, <2>2 DEF Surjection, Injection, IsInjective, Injective
  <2>4. IsFiniteSet(G) /\ Cardinality(G) = Cardinality(Passed)
    <3> HIDE DEF f, G
    <3>1. QED BY <2>1, <2>3, FS_Surjection
  <2>5. null \notin G
    BY <2>1, MapAssumption DEF IInv, Shape, Slots, Occupied
  <2>6. output = G \cup (IF NullGiven THEN {null} ELSE {})
        /\ hasBeenOutput = Cardinality(Passed) + (IF NullGiven THEN 1 ELSE 0)
    BY DEF WalkInv
  <2>7. Cardinality(G \cup {null}) = Cardinality(G) + 1 /\ Cardinality(Passed) \in Nat
    <3> HIDE DEF G
    <3>1. QED BY <2>1, <2>4, <2>5, FS_AddElement, FS_CardinalityType
  <2> HIDE DEF G
  <2>8. CASE NullGiven
    BY <2>4, <2>6, <2>7, <2>8
  <2>9. CASE ~NullGiven
    BY <2>4, <2>6, <2>7, <2>9
  <2>10. QED BY <2>8, <2>9
<1>3. QED BY <1>1, <1>2, StepWalkInv, Invariant, PTL DEF Spec
=============================================================================
