----------------------------- MODULE BaseHashMap -----------------------------
(***************************************************************************)
(* The hash map of aggregations and joins                                  *)
(* (src/core/src/operator/hashmap/base_hash_map.h): open addressing, the   *)
(* probe looks at Width neighbouring slots at once.  A control byte only   *)
(* filters (it holds seven bits of the hash) and is left out; the slots    *)
(* past the end, whose control byte is kSentinel, are never looked at.     *)
(* Key and hash of a slot are never apart.                                 *)
(*                                                                         *)
(* Aggregations call Emplace, which grows the map; joins know the number   *)
(* of their rows and call EmplaceNotNullKey, which never does.             *)
(***************************************************************************)
EXTENDS Integers, FiniteSets

CONSTANTS
  Keys,        \* the keys
  null,        \* the null key
  Empty,       \* kEmpty: no key
  H1(_),       \* their hash values without the seven bits
  Width,       \* Group::kWidth
  Degree,      \* initDegree
  LoadNum, LoadDen,  \* MAX_LOAD_FACTOR
  Growing,     \* Emplace is used, not only EmplaceNotNullKey
  MaxKeys,     \* the rows of the join; bound: keys in the map
  MaxDegree,   \* bound: degree after growing
  OutRows      \* the rows of an output batch

ASSUME MapAssumption ==
  /\ Width \in Nat \ {0} /\ Degree \in Nat /\ OutRows \in Nat \ {0}
  /\ LoadNum \in Nat /\ LoadDen \in Nat \ {0} /\ MaxKeys \in Nat
  /\ Growing \in BOOLEAN /\ MaxDegree \in Nat
  /\ ~Growing => MaxKeys * LoadDen <= 2 ^ Degree * LoadNum   \* BuildHashTable's initDegree
  /\ \A k \in Keys : H1(k) \in Nat
  /\ {null, Empty} \cap Keys = {} /\ null # Empty

VARIABLES
  slots,         \* the key in every slot, or Empty
  nullSlot,      \* whether there is one
  elementsSize,
  degree,        \* of the Grower
  pending,       \* the key whose Emplace rehashes, or Empty
  oldSlots,      \* Rehash: the slots not yet inserted again
  pos,           \* OutputState::outputHashmapPos
  hasBeenOutput, \* OutputState::hasBeenOutputNum
  output,        \* history: the keys handed out
  put            \* history: the keys Emplace has been called with

vars == <<slots, nullSlot, elementsSize, degree, pending, oldSlots, pos, hasBeenOutput, output, put>>

Capacity(d) == 2 ^ d

NoSlots(d)  == [p \in 0 .. Capacity(d) - 1 |-> Empty]     \* InitSlots
Occupied(t) == {p \in DOMAIN t : t[p] # Empty}

CeilDiv(a, b) == (a + b - 1) \div b
Threshold(d)  == CeilDiv(Capacity(d) * LoadNum, LoadDen)   \* CalculateThreshold

enlargeThreshold == 23
GrowSize(d) == IF d >= enlargeThreshold THEN d + 1 ELSE d + 2

Least(S) == CHOOSE x \in S : \A y \in S : x <= y

Init ==
  /\ degree = Degree /\ slots = NoSlots(Degree)
  /\ nullSlot = FALSE /\ elementsSize = 0
  /\ pending = Empty /\ oldSlots = NoSlots(Degree)
  /\ pos = 0 /\ hasBeenOutput = 0 /\ output = {} /\ put = {}
-----------------------------------------------------------------------------
(* ProbeSeq and FindPosition.                                              *)

\* Where window j of a key begins, after j calls of GetNext.
Offset(k, d, j) == (H1(k) + Width * ((j * (j + 1)) \div 2)) % Capacity(d)

\* The windows looked at, until the index is larger than the capacity.
Windows(d) == 0 .. Capacity(d) \div Width

\* The slots of a window: it does not wrap around.
Window(k, d, j) == {p \in 0 .. Capacity(d) - 1 : Offset(k, d, j) <= p /\ p < Offset(k, d, j) + Width}

\* The probe ends in a window that has the key or an empty slot.
Stops(t, k, d) == {j \in Windows(d) : \E p \in Window(k, d, j) : t[p] \in {k, Empty}}

\* Mutant: of the free slots of a window the last is taken.
LastFreeSlot(t, k, d) ==
  IF Stops(t, k, d) = {} THEN Offset(k, d, Capacity(d) \div Width + 1)
  ELSE LET window == Window(k, d, Least(Stops(t, k, d)))
           own    == {p \in window : t[p] = k}
           free   == {p \in window : t[p] = Empty}
       IN  IF own = {} \/ t[Offset(k, d, Least(Stops(t, k, d)))] = Empty
           THEN CHOOSE p \in free : \A q \in free : q <= p
           ELSE Least(own)

\* The slot of a key: inserted is whether it holds something else, nothing or, if no
\* window has room for it, the key it is then lost for.
FindPosition(t, k, d) ==
  IF Stops(t, k, d) = {} THEN Offset(k, d, Capacity(d) \div Width + 1)
  ELSE LET window == Window(k, d, Least(Stops(t, k, d)))
           own    == {p \in window : t[p] = k}
           free   == {p \in window : t[p] = Empty}
       IN  IF own = {} \/ t[Offset(k, d, Least(Stops(t, k, d)))] = Empty THEN Least(free)
           ELSE Least(own)

Find(k) == FindPosition(slots, k, degree)

-----------------------------------------------------------------------------
Idle == pending = Empty /\ hasBeenOutput = 0

\* Mutant: a key that is found is counted once more.
PlaceCounted(k) ==
  /\ slots' = [slots EXCEPT ![Find(k)] = k]
  /\ elementsSize' = elementsSize + 1
  /\ put' = put \cup {k}

\* The part of Emplace and EmplaceNotNullKey behind FindPosition.
Place(k) ==
  /\ slots' = [slots EXCEPT ![Find(k)] = k]
  /\ elementsSize' = IF slots[Find(k)] = k THEN elementsSize ELSE elementsSize + 1
  /\ put' = put \cup {k}

NeedRehash == elementsSize > Threshold(degree)

\* Emplace without rehash.
Emplace(k) ==
  /\ Growing /\ Idle /\ ~NeedRehash /\ elementsSize < MaxKeys
  /\ Place(k)
  /\ UNCHANGED <<nullSlot, degree, pending, oldSlots, pos, hasBeenOutput, output>>

\* Emplace that rehashes first: new slots, and the old ones to be inserted again.
Rehash(k) ==
  /\ Growing /\ Idle /\ NeedRehash /\ elementsSize < MaxKeys
  /\ GrowSize(degree) <= MaxDegree
  /\ pending' = k
  /\ oldSlots' = slots
  /\ degree' = GrowSize(degree)
  /\ slots' = NoSlots(degree')
  /\ UNCHANGED <<nullSlot, elementsSize, pos, hasBeenOutput, output, put>>

\* Mutant: the slot a key had modulo the new capacity is taken for free.
ReinsertAtHome ==
  LET p == Least(Occupied(oldSlots))
  IN  /\ pending # Empty /\ Occupied(oldSlots) # {}
      /\ slots' = [slots EXCEPT ![Offset(oldSlots[p], degree, 0)] = oldSlots[p]]
      /\ oldSlots' = [oldSlots EXCEPT ![p] = Empty]
      /\ UNCHANGED <<nullSlot, elementsSize, degree, pending, pos, hasBeenOutput, output, put>>

\* One iteration of the loop of Rehash.
Reinsert ==
  LET p == Least(Occupied(oldSlots))
  IN  /\ pending # Empty /\ Occupied(oldSlots) # {}
      /\ slots' = [slots EXCEPT ![Find(oldSlots[p])] = oldSlots[p]]
      /\ oldSlots' = [oldSlots EXCEPT ![p] = Empty]
      /\ UNCHANGED <<nullSlot, elementsSize, degree, pending, pos, hasBeenOutput, output, put>>

\* Rehash has returned, Emplace goes on.
EmplaceRehashed ==
  /\ pending # Empty /\ Occupied(oldSlots) = {}
  /\ Place(pending)
  /\ pending' = Empty
  /\ UNCHANGED <<nullSlot, degree, oldSlots, pos, hasBeenOutput, output>>

\* It never looks whether the map is too full: that is up to its caller.
EmplaceNotNullKey(k) ==
  /\ Idle /\ elementsSize < MaxKeys
  /\ Growing => ~NeedRehash
  /\ Place(k)
  /\ UNCHANGED <<nullSlot, degree, pending, oldSlots, pos, hasBeenOutput, output>>

EmplaceNullValue ==
  /\ Idle
  /\ nullSlot' = TRUE
  /\ elementsSize' = IF nullSlot THEN elementsSize ELSE elementsSize + 1
  /\ UNCHANGED <<slots, degree, pending, oldSlots, pos, hasBeenOutput, output, put>>

\* The map keeps its capacity when it is emptied.
Reset ==
  /\ pending = Empty
  /\ slots' = NoSlots(degree) /\ nullSlot' = FALSE /\ elementsSize' = 0
  /\ pos' = 0 /\ hasBeenOutput' = 0 /\ output' = {} /\ put' = {}
  /\ UNCHANGED <<degree, pending, oldSlots>>

-----------------------------------------------------------------------------
(* HashmapIteratorOutput.                                                  *)

Smaller(a, b) == IF a < b THEN a ELSE b

\* The slots from which n keys are taken: the first n occupied ones from pos on.
NextSlots(n) == {p \in Occupied(slots) : p >= pos /\ Cardinality({q \in Occupied(slots) : pos <= q /\ q < p}) < n}

\* Mutant: the null key is counted among those of the slots.
AllRemain == elementsSize - hasBeenOutput

\* The constructor's remainSlot.
remainSlot == elementsSize - (IF nullSlot THEN 1 ELSE 0) - hasBeenOutput

\* HandleElements, for as many rows as the batch has room for or are left.
HandleElements ==
  LET expect == Smaller(OutRows, elementsSize - hasBeenOutput)
      n      == Smaller(expect, remainSlot)
      taken  == NextSlots(n)
      nulls  == IF n < expect /\ nullSlot THEN {null} ELSE {}
  IN  /\ pending = Empty /\ hasBeenOutput < elementsSize
      /\ pos' = IF taken = {} THEN pos ELSE 1 + (CHOOSE p \in taken : \A q \in taken : q <= p)
      /\ output' = output \cup {slots[p] : p \in taken} \cup nulls
      /\ hasBeenOutput' = hasBeenOutput + n + Cardinality(nulls)
      /\ UNCHANGED <<slots, nullSlot, elementsSize, degree, pending, oldSlots, put>>

Next ==
  \/ \E k \in Keys : Emplace(k) \/ Rehash(k) \/ EmplaceNotNullKey(k)
  \/ Reinsert \/ EmplaceRehashed \/ EmplaceNullValue \/ Reset \/ HandleElements

Spec == Init /\ [][Next]_vars

-----------------------------------------------------------------------------
\* The keys that are somewhere in the map.
Stored == {slots[p] : p \in Occupied(slots)} \cup {oldSlots[p] : p \in Occupied(oldSlots)}
          \cup (IF nullSlot THEN {null} ELSE {})

\* A probe for a key that was put ends at that key, however many keys with the same
\* or neighbouring hash values came before or after it and however often the map has
\* grown: neither Emplace nor FindMatchPosition takes it for a new one.
EveryKeyFound == pending = Empty => \A k \in put : slots[Find(k)] = k

\* elementsSize, from which the output is cut and the growth decided, is the number
\* of keys in the map.
ElementsCounted == elementsSize = Cardinality(Stored)

\* The walk over the map, in pieces of any size, gives each key once: the number of
\* rows it has given is the number of different keys among them.
EachKeyOnce == hasBeenOutput = Cardinality(output)

\* The map keeps every key that was put, also while it grows, and gives only keys
\* that are in it: it implements KeyMap.
Map == INSTANCE KeyMap WITH keys <- Stored, delivered <- output
IsKeyMap == Map!MapSpec
=============================================================================
