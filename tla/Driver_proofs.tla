---------------------------- MODULE Driver_proofs ----------------------------
(***************************************************************************)
(* Proofs about Driver for every pipeline: any number of operators, any    *)
(* assignment of kinds to them, any number of batches.                     *)
(***************************************************************************)
EXTENDS Driver, TLAPS

\* An operator that has finished holds nothing and is not waited for.
FinishedIsEmpty == \A k \in Ops : fin[k] => pending[k] = 0 /\ ~blocked[k]

\* An operator finishes because its input ended, or because it stops early.
FinishedForAReason ==
  \A k \in 2 .. N : fin[k] => noMore[k] \/ k \in Stoppers

\* noMoreInput() is called when the operator below has finished, and the
\* ValueStream has nobody below it.
ToldWhenFinished == /\ ~noMore[1]
                    /\ \A k \in 2 .. N : noMore[k] => fin[k - 1]

\* A finished operator has finished operators below it, down to the first one
\* that stopped early.
FinishedBelow == \A k \in Ops : \A j \in 1 .. k : fin[k] /\ Through(j, k) => fin[j]

\* The operators the cursor has passed are ready for a batch.
PassedAreReady ==
  cursor # 0 => \A k \in cursor + 1 .. N :
                   k \in Buffers \/ pending[k] = 0 \/ noMore[k] \/ Unwanted(k)

\* The driver finishes with its last operator.
FinishedWithLast == finished => fin[N]

\* The inductive invariant.
IInv == /\ TypeOK
        /\ FinishedIsEmpty
        /\ FinishedForAReason
        /\ ToldWhenFinished
        /\ FinishedBelow
        /\ PassedAreReady
        /\ FinishedWithLast
        /\ OnlyUnwantedLost


LEMMA InitInv == Init => IInv
<1> SUFFICES ASSUME Init PROVE IInv
  OBVIOUS
<1> USE SizeAssumption, KindAssumption DEF Init, Ops, Nothing
<1>1. TypeOK
  <2> PICK rest \in 0 .. MaxOut : pending = [k \in 1 .. N |-> IF k = 1 THEN rest ELSE 0]
    OBVIOUS
  <2>1. pending \in [Ops -> Nat]
    OBVIOUS
  <2>2. blocked \in [Ops -> BOOLEAN]
    OBVIOUS
  <2>3. fin \in [Ops -> BOOLEAN] /\ noMore \in [Ops -> BOOLEAN] /\ closing \in [Ops -> BOOLEAN]
    OBVIOUS
  <2>4. cursor \in 0 .. N
    OBVIOUS
  <2>5. finished \in BOOLEAN /\ shouldStop \in BOOLEAN
    BY Zenon
  <2>6. lost \subseteq Ops
    OBVIOUS
  <2> HIDE DEF Init
  <2> QED
    BY <2>1, <2>2, <2>3, <2>4, <2>5, <2>6 DEF TypeOK
<1>2. FinishedIsEmpty /\ FinishedForAReason /\ ToldWhenFinished
  BY DEF FinishedIsEmpty, FinishedForAReason, ToldWhenFinished
<1>3. FinishedBelow /\ PassedAreReady /\ FinishedWithLast /\ OnlyUnwantedLost
  BY DEF FinishedBelow, PassedAreReady, FinishedWithLast, OnlyUnwantedLost
<1> QED
  BY <1>1, <1>2, <1>3 DEF IInv

\* An operator that finishes on top of a finished one keeps the chain whole.
LEMMA FinishedBelowStep ==
  ASSUME TypeOK, FinishedBelow, NEW i \in Ops,
         i = 1 \/ i \in Stoppers \/ fin[i - 1],
         fin' \in {fin, [fin EXCEPT ![i] = TRUE]}
  PROVE  FinishedBelow'
<1> USE SizeAssumption, KindAssumption DEF Ops
<1> SUFFICES ASSUME NEW k \in Ops, NEW j \in 1 .. k, fin'[k], Through(j, k)'
             PROVE  fin'[j]
  BY DEF FinishedBelow
<1>1. CASE fin[k]
  BY <1>1, SMTT(30) DEF FinishedBelow, TypeOK, Through
<1>2. CASE ~fin[k] /\ j # k
  <2>1. k = i /\ k # 1
    BY <1>2 DEF TypeOK
  <2>2. fin[k - 1]
    BY <2>1, <1>2 DEF Through
  <2>3. Through(j, k - 1) /\ k - 1 \in Ops /\ j \in 1 .. k - 1
    BY <2>1, <1>2 DEF Through
  <2> QED
    BY <2>2, <2>3, SMTT(30) DEF FinishedBelow, TypeOK
<1> QED
  BY <1>1, <1>2

LEMMA BlockInv == ASSUME IInv, NEW k \in Ops, Block(k) PROVE IInv'
<1> USE SizeAssumption, KindAssumption DEF IInv, Ops
<1>1. TypeOK'
  BY DEF TypeOK, Block
<1>2. FinishedIsEmpty'
  BY DEF TypeOK, FinishedIsEmpty, Block
<1>3. FinishedForAReason'
  BY DEF TypeOK, FinishedForAReason, Block
<1>4. ToldWhenFinished'
  BY DEF TypeOK, ToldWhenFinished, Block
<1>5. FinishedBelow'
  BY DEF FinishedBelow, Through, Block
<1>6. PassedAreReady'
  BY DEF TypeOK, PassedAreReady, FinishedIsEmpty, FinishedForAReason, ToldWhenFinished, Unwanted, Block
<1>7. FinishedWithLast'
  BY DEF TypeOK, FinishedWithLast, Block
<1>8. OnlyUnwantedLost'
  BY DEF TypeOK, OnlyUnwantedLost, PassedAreReady, Unwanted, Block
<1> QED
  BY <1>1, <1>2, <1>3, <1>4, <1>5, <1>6, <1>7, <1>8

LEMMA FeedInv == ASSUME IInv, NEW k \in Ops, Feed(k) PROVE IInv'
<1> USE SizeAssumption, KindAssumption DEF IInv, Ops
<1>0. /\ pending' \in [Ops -> Nat] /\ k + 1 \in Ops
      /\ pending'[k] = pending[k] - 1
      /\ \A i \in Ops : i # k /\ i # k + 1 => pending'[i] = pending[i]
  <2>1. pending[k] > 0 /\ k + 1 \in Ops
    BY DEF TypeOK, Feed, Emit, CanEmit
  <2>2. CASE Keep(k)
    BY <2>1, <2>2 DEF TypeOK, Keep
  <2>3. CASE Take(k)
    BY <2>1, <2>3 DEF TypeOK, Take
  <2> QED
    BY <2>2, <2>3 DEF Feed, Hand
<1>1. TypeOK'
  <2>1. cursor' \in 0 .. N /\ closing' = closing
    BY DEF TypeOK, Feed, Emit
  <2>2. fin' \in [Ops -> BOOLEAN]
    BY DEF TypeOK, Feed, Emit
  <2>3. pending' \in [Ops -> Nat]
    BY <1>0
  <2>4. blocked' \in [Ops -> BOOLEAN]
    BY DEF TypeOK, Feed, Hand, MayBlockAgain
  <2>5. lost' \subseteq Ops
    <3>1. lost' = lost \/ lost' = lost \union {k + 1}
      BY Zenon DEF Feed, Hand, Keep, Take
    <3> QED
      BY <1>0, <3>1 DEF TypeOK
  <2> QED
    BY <2>1, <2>2, <2>3, <2>4, <2>5 DEF TypeOK, Feed
<1>2. FinishedIsEmpty'
  <2>1. \A i \in Ops : fin'[i] => fin[i] \/ (i = k /\ pending[k] = 1)
    BY DEF TypeOK, Feed, Emit, LastBatch
  <2>2. \A i \in Ops : blocked'[i] => blocked[i] \/ i = k + 1
    BY DEF TypeOK, Feed, Hand, MayBlockAgain
  <2>3. ~fin[k] /\ ~fin[k + 1] /\ ~blocked[k]
    BY DEF Feed, At, MayTake, Emit, CanEmit
  <2>4. ASSUME NEW i \in Ops, fin'[i] PROVE pending'[i] = 0 /\ ~blocked'[i]
    <3>1. CASE i = k
      BY <3>1, <2>1, <2>2, <2>3, <2>4, <1>0 DEF TypeOK
    <3>2. CASE i # k
      BY <3>2, <2>1, <2>2, <2>3, <2>4, <1>0 DEF FinishedIsEmpty
    <3> QED
      BY <3>1, <3>2
  <2> QED
    BY <2>4 DEF FinishedIsEmpty
<1>3. FinishedForAReason'
  BY DEF TypeOK, FinishedForAReason, Feed, At, MayTake, Emit, CanEmit, LastBatch, Hand, MayBlockAgain
<1>4. ToldWhenFinished'
  <2>1. noMore' = noMore /\ \A i \in Ops : fin[i] => fin'[i]
    BY DEF TypeOK, Feed, Emit
  <2> QED
    BY <2>1 DEF ToldWhenFinished
<1>5. FinishedBelow'
  <2>1. k = 1 \/ k \in Stoppers \/ fin[k - 1] \/ fin' = fin
    BY DEF TypeOK, ToldWhenFinished, FinishedForAReason, Feed, At, MayTake, Emit, CanEmit, LastBatch, Hand, MayBlockAgain
  <2>2. fin' \in {fin, [fin EXCEPT ![k] = TRUE]}
    BY DEF TypeOK, Feed, At, MayTake, Emit, CanEmit, LastBatch, Hand, MayBlockAgain
  <2> QED
    BY <2>1, <2>2, FinishedBelowStep DEF FinishedBelow, Through
<1>6. PassedAreReady'
  BY <1>0, SMTT(30) DEF TypeOK, PassedAreReady, FinishedIsEmpty, FinishedForAReason, ToldWhenFinished, Unwanted, Feed, At, MayTake, Emit, CanEmit, LastBatch
<1>7. FinishedWithLast'
  BY DEF TypeOK, FinishedWithLast, Feed, At, MayTake, Emit, CanEmit, LastBatch, Hand, MayBlockAgain
<1>8. OnlyUnwantedLost'
  <2>1. \A i \in Ops : Unwanted(i) => Unwanted(i)'
    BY DEF TypeOK, Unwanted, Feed, Emit
  <2>2. lost' = lost \/ (lost' = lost \union {k + 1} /\ k + 1 \notin Buffers /\ pending[k + 1] > 0)
    BY Zenon DEF Feed, Hand, Keep, Take
  <2>3. k + 1 \notin Buffers /\ pending[k + 1] > 0 => Unwanted(k + 1)
    BY DEF TypeOK, PassedAreReady, Feed, At, MayTake
  <2>4. lost \subseteq Ops /\ k + 1 \in Ops
    BY DEF TypeOK, Feed
  <2>5. ASSUME NEW i \in lost' PROVE Unwanted(i)'
    <3>1. CASE i \in lost
      BY <3>1, <2>1, <2>4 DEF OnlyUnwantedLost
    <3>2. CASE i \notin lost
      BY <3>2, <2>1, <2>2, <2>3, <2>4
    <3> QED
      BY <3>1, <3>2
  <2> QED
    BY <2>5, Zenon DEF OnlyUnwantedLost
<1> QED
  BY <1>1, <1>2, <1>3, <1>4, <1>5, <1>6, <1>7, <1>8

LEMMA DryInv == ASSUME IInv, NEW k \in Ops, Dry(k) PROVE IInv'
<1> USE SizeAssumption, KindAssumption DEF IInv, Ops
<1>1. TypeOK'
  BY DEF TypeOK, Dry, At, MayTake, CanEmit, NullGoesOn, Down
<1>2. FinishedIsEmpty'
  BY DEF TypeOK, FinishedIsEmpty, Dry, At, MayTake, CanEmit, NullGoesOn, Down
<1>3. FinishedForAReason'
  BY DEF TypeOK, FinishedForAReason, Dry, At, MayTake, CanEmit, NullGoesOn, Down
<1>4. ToldWhenFinished'
  BY DEF TypeOK, ToldWhenFinished, Dry, At, MayTake, CanEmit, NullGoesOn, Down
<1>5. FinishedBelow'
  BY DEF FinishedBelow, Through, Dry, NullGoesOn
<1>6. PassedAreReady'
  <2>1. \A i \in Ops : Unwanted(i)' = Unwanted(i)
    BY DEF Unwanted, Dry, NullGoesOn
  <2>2. \A i \in Ops : i # k => pending'[i] = pending[i]
    BY DEF TypeOK, Dry, NullGoesOn
  <2>3. CASE cursor = 1
    BY <2>3, <2>1, <2>2 DEF TypeOK, PassedAreReady, Down, Dry
  <2>4. CASE cursor # 1
    <3>1. k # 1 /\ cursor' = k - 1
      BY <2>4 DEF Dry, At, Down, TypeOK
    <3>2. k \in Buffers \/ pending'[k] = 0 \/ noMore[k]
      BY <3>1 DEF Dry, NullGoesOn, CanEmit, TypeOK
    <3> QED
      BY <3>1, <3>2, <2>1, <2>2 DEF Dry, At, TypeOK, PassedAreReady
  <2> QED
    BY <2>3, <2>4
<1>7. FinishedWithLast'
  BY DEF TypeOK, FinishedWithLast, Dry, At, MayTake, CanEmit, NullGoesOn, Down
<1>8. OnlyUnwantedLost'
  BY DEF TypeOK, OnlyUnwantedLost, PassedAreReady, Unwanted, Dry, At, MayTake, CanEmit, NullGoesOn, Down
<1> QED
  BY <1>1, <1>2, <1>3, <1>4, <1>5, <1>6, <1>7, <1>8

LEMMA EndOfInputInv == ASSUME IInv, NEW k \in Ops, EndOfInput(k) PROVE IInv'
<1> USE SizeAssumption, KindAssumption DEF IInv, Ops
<1>1. TypeOK'
  <2>1. fin' \in [Ops -> BOOLEAN] /\ closing' = closing
    BY DEF TypeOK, EndOfInput, NullFinishes
  <2>2. pending' \in [Ops -> Nat]
    BY DEF TypeOK, EndOfInput, TellNoMore
  <2>3. noMore' \in [Ops -> BOOLEAN] /\ blocked' \in [Ops -> BOOLEAN]
    BY DEF TypeOK, EndOfInput, TellNoMore, MayBlockAgain
  <2> QED
    BY <2>1, <2>2, <2>3 DEF TypeOK, EndOfInput
<1>2. FinishedIsEmpty'
  BY DEF TypeOK, FinishedIsEmpty, EndOfInput, At, MayTake, CanEmit, NullFinishes, TellNoMore, MayBlockAgain
<1>3. FinishedForAReason'
  BY DEF TypeOK, FinishedForAReason, EndOfInput, At, MayTake, CanEmit, NullFinishes, TellNoMore, MayBlockAgain
<1>4. ToldWhenFinished'
  BY DEF TypeOK, ToldWhenFinished, EndOfInput, At, MayTake, CanEmit, NullFinishes, TellNoMore, MayBlockAgain
<1>5. FinishedBelow'
  <2>1. k = 1 \/ k \in Stoppers \/ fin[k - 1] \/ fin' = fin
    BY DEF TypeOK, ToldWhenFinished, FinishedForAReason, EndOfInput, At, MayTake, CanEmit, NullFinishes, TellNoMore, MayBlockAgain
  <2>2. fin' \in {fin, [fin EXCEPT ![k] = TRUE]}
    BY DEF TypeOK, EndOfInput, At, MayTake, CanEmit, NullFinishes, TellNoMore, MayBlockAgain
  <2> QED
    BY <2>1, <2>2, FinishedBelowStep DEF FinishedBelow, Through
<1>6. PassedAreReady'
  BY DEF TypeOK, PassedAreReady, FinishedIsEmpty, FinishedForAReason, ToldWhenFinished, Unwanted, EndOfInput, At, MayTake, CanEmit, NullFinishes, TellNoMore, MayBlockAgain
<1>7. FinishedWithLast'
  BY DEF TypeOK, FinishedWithLast, EndOfInput, At, MayTake, CanEmit, NullFinishes, TellNoMore, MayBlockAgain
<1>8. OnlyUnwantedLost'
  BY DEF TypeOK, OnlyUnwantedLost, PassedAreReady, Unwanted, EndOfInput, At, MayTake, CanEmit, NullFinishes, TellNoMore, MayBlockAgain
<1> QED
  BY <1>1, <1>2, <1>3, <1>4, <1>5, <1>6, <1>7, <1>8

LEMMA SkipInv == ASSUME IInv, NEW k \in Ops, Skip(k) PROVE IInv'
<1> USE SizeAssumption, KindAssumption DEF IInv, Ops
<1>1. TypeOK'
  BY DEF TypeOK, Skip, At, MayDecline, Down
<1>2. FinishedIsEmpty'
  BY DEF TypeOK, FinishedIsEmpty, Skip, At, MayDecline, Down
<1>3. FinishedForAReason'
  BY DEF TypeOK, FinishedForAReason, Skip, At, MayDecline, Down
<1>4. ToldWhenFinished'
  BY DEF TypeOK, ToldWhenFinished, Skip, At, MayDecline, Down
<1>5. FinishedBelow'
  BY DEF FinishedBelow, Through, Skip
<1>6. PassedAreReady'
  BY DEF TypeOK, PassedAreReady, FinishedIsEmpty, FinishedForAReason, ToldWhenFinished, Unwanted, Skip, At, MayDecline, Down
<1>7. FinishedWithLast'
  BY DEF TypeOK, FinishedWithLast, Skip, At, MayDecline, Down
<1>8. OnlyUnwantedLost'
  BY DEF TypeOK, OnlyUnwantedLost, PassedAreReady, Unwanted, Skip, At, MayDecline, Down
<1> QED
  BY <1>1, <1>2, <1>3, <1>4, <1>5, <1>6, <1>7, <1>8

LEMMA DeliverInv == ASSUME IInv, Deliver PROVE IInv'
<1> USE SizeAssumption, KindAssumption DEF IInv, Ops
<1>1. TypeOK'
  <2>1. fin' \in [Ops -> BOOLEAN] /\ closing' = closing
    BY DEF TypeOK, Deliver, Emit
  <2>2. pending' \in [Ops -> Nat]
    BY DEF TypeOK, Deliver, Emit, CanEmit
  <2>3. finished' = fin'[N] /\ N \in Ops
    BY DEF Deliver
  <2>4. finished' \in BOOLEAN
    BY <2>1, <2>3, Zenon
  <2> QED
    BY <2>1, <2>2, <2>4 DEF TypeOK, Deliver
<1>2. FinishedIsEmpty'
  BY DEF TypeOK, FinishedIsEmpty, Deliver, At, Emit, CanEmit, LastBatch
<1>3. FinishedForAReason'
  BY DEF TypeOK, FinishedForAReason, Deliver, At, Emit, CanEmit, LastBatch
<1>4. ToldWhenFinished'
  BY DEF TypeOK, ToldWhenFinished, Deliver, At, Emit, CanEmit, LastBatch
<1>5. FinishedBelow'
  <2>1. N = 1 \/ N \in Stoppers \/ fin[N - 1] \/ fin' = fin
    BY DEF TypeOK, ToldWhenFinished, FinishedForAReason, Deliver, At, Emit, CanEmit, LastBatch
  <2>2. fin' \in {fin, [fin EXCEPT ![N] = TRUE]}
    BY DEF TypeOK, Deliver, At, Emit, CanEmit, LastBatch
  <2> QED
    BY <2>1, <2>2, FinishedBelowStep DEF FinishedBelow, Through
<1>6. PassedAreReady'
  BY DEF TypeOK, PassedAreReady, FinishedIsEmpty, FinishedForAReason, ToldWhenFinished, Unwanted, Deliver, At, Emit, CanEmit, LastBatch
<1>7. FinishedWithLast'
  BY DEF TypeOK, FinishedWithLast, Deliver, At, Emit, CanEmit, LastBatch
<1>8. OnlyUnwantedLost'
  BY DEF TypeOK, OnlyUnwantedLost, PassedAreReady, Unwanted, Deliver, At, Emit, CanEmit, LastBatch
<1> QED
  BY <1>1, <1>2, <1>3, <1>4, <1>5, <1>6, <1>7, <1>8

LEMMA SinkDryInv == ASSUME IInv, SinkDry PROVE IInv'
<1> USE SizeAssumption, KindAssumption DEF IInv, Ops
<1>1. TypeOK'
  BY DEF TypeOK, SinkDry, At, CanEmit, NullGoesOn, Down
<1>2. FinishedIsEmpty'
  BY DEF TypeOK, FinishedIsEmpty, SinkDry, At, CanEmit, NullGoesOn, Down
<1>3. FinishedForAReason'
  BY DEF TypeOK, FinishedForAReason, SinkDry, At, CanEmit, NullGoesOn, Down
<1>4. ToldWhenFinished'
  BY DEF TypeOK, ToldWhenFinished, SinkDry, At, CanEmit, NullGoesOn, Down
<1>5. FinishedBelow'
  BY DEF FinishedBelow, Through, SinkDry, NullGoesOn
<1>6. PassedAreReady'
  <2>1. \A i \in Ops : Unwanted(i)' = Unwanted(i)
    BY DEF Unwanted, SinkDry, NullGoesOn
  <2>2. \A i \in Ops : i # N => pending'[i] = pending[i]
    BY DEF TypeOK, SinkDry, NullGoesOn
  <2>3. CASE cursor = 1
    BY <2>3, <2>1, <2>2 DEF TypeOK, PassedAreReady, Down, SinkDry
  <2>4. CASE cursor # 1
    <3>1. N # 1 /\ cursor' = N - 1
      BY <2>4 DEF SinkDry, At, Down, TypeOK
    <3>2. N \in Buffers \/ pending'[N] = 0 \/ noMore[N]
      BY <3>1 DEF SinkDry, NullGoesOn, CanEmit, TypeOK
    <3> QED
      BY <3>1, <3>2, <2>1, <2>2 DEF SinkDry, At, TypeOK, PassedAreReady
  <2> QED
    BY <2>3, <2>4
<1>7. FinishedWithLast'
  BY DEF TypeOK, FinishedWithLast, SinkDry, At, CanEmit, NullGoesOn, Down
<1>8. OnlyUnwantedLost'
  BY DEF TypeOK, OnlyUnwantedLost, PassedAreReady, Unwanted, SinkDry, At, CanEmit, NullGoesOn, Down
<1> QED
  BY <1>1, <1>2, <1>3, <1>4, <1>5, <1>6, <1>7, <1>8

LEMMA FinishInv == ASSUME IInv, Finish PROVE IInv'
<1> USE SizeAssumption, KindAssumption DEF IInv, Ops
<1>1. TypeOK'
  BY DEF TypeOK, Finish, At, CanEmit, NullFinishes
<1>2. FinishedIsEmpty'
  BY DEF TypeOK, FinishedIsEmpty, Finish, At, CanEmit, NullFinishes
<1>3. FinishedForAReason'
  BY DEF TypeOK, FinishedForAReason, Finish, At, CanEmit, NullFinishes
<1>4. ToldWhenFinished'
  BY DEF TypeOK, ToldWhenFinished, Finish, At, CanEmit, NullFinishes
<1>5. FinishedBelow'
  <2>1. N = 1 \/ N \in Stoppers \/ fin[N - 1] \/ fin' = fin
    BY DEF TypeOK, ToldWhenFinished, FinishedForAReason, Finish, At, CanEmit, NullFinishes
  <2>2. fin' \in {fin, [fin EXCEPT ![N] = TRUE]}
    BY DEF TypeOK, Finish, At, CanEmit, NullFinishes
  <2> QED
    BY <2>1, <2>2, FinishedBelowStep DEF FinishedBelow, Through
<1>6. PassedAreReady'
  BY DEF TypeOK, PassedAreReady, FinishedIsEmpty, FinishedForAReason, ToldWhenFinished, Unwanted, Finish, At, CanEmit, NullFinishes
<1>7. FinishedWithLast'
  BY DEF TypeOK, FinishedWithLast, Finish, At, CanEmit, NullFinishes
<1>8. OnlyUnwantedLost'
  BY DEF TypeOK, OnlyUnwantedLost, PassedAreReady, Unwanted, Finish, At, CanEmit, NullFinishes
<1> QED
  BY <1>1, <1>2, <1>3, <1>4, <1>5, <1>6, <1>7, <1>8

LEMMA EnterInv == ASSUME IInv, Enter PROVE IInv'
<1> USE SizeAssumption, KindAssumption DEF IInv, Ops
<1>1. TypeOK'
  BY DEF TypeOK, Enter
<1>2. FinishedIsEmpty'
  BY DEF TypeOK, FinishedIsEmpty, Enter
<1>3. FinishedForAReason'
  BY DEF TypeOK, FinishedForAReason, Enter
<1>4. ToldWhenFinished'
  BY DEF TypeOK, ToldWhenFinished, Enter
<1>5. FinishedBelow'
  BY DEF FinishedBelow, Through, Enter
<1>6. PassedAreReady'
  BY DEF TypeOK, PassedAreReady, FinishedIsEmpty, FinishedForAReason, ToldWhenFinished, Unwanted, Enter
<1>7. FinishedWithLast'
  BY DEF TypeOK, FinishedWithLast, Enter
<1>8. OnlyUnwantedLost'
  BY DEF TypeOK, OnlyUnwantedLost, PassedAreReady, Unwanted, Enter
<1> QED
  BY <1>1, <1>2, <1>3, <1>4, <1>5, <1>6, <1>7, <1>8

LEMMA ElsewhereInv == ASSUME IInv, NEW k \in Ops, Elsewhere(k) PROVE IInv'
<1> USE SizeAssumption, KindAssumption DEF IInv, Ops
<1>1. TypeOK'
  BY DEF TypeOK, Elsewhere
<1>2. FinishedIsEmpty'
  BY DEF TypeOK, FinishedIsEmpty, Elsewhere
<1>3. FinishedForAReason'
  BY DEF TypeOK, FinishedForAReason, Elsewhere
<1>4. ToldWhenFinished'
  BY DEF TypeOK, ToldWhenFinished, Elsewhere
<1>5. FinishedBelow'
  BY DEF FinishedBelow, Through, Elsewhere
<1>6. PassedAreReady'
  BY DEF TypeOK, PassedAreReady, FinishedIsEmpty, FinishedForAReason, ToldWhenFinished, Unwanted, Elsewhere
<1>7. FinishedWithLast'
  BY DEF TypeOK, FinishedWithLast, Elsewhere
<1>8. OnlyUnwantedLost'
  BY DEF TypeOK, OnlyUnwantedLost, PassedAreReady, Unwanted, Elsewhere
<1> QED
  BY <1>1, <1>2, <1>3, <1>4, <1>5, <1>6, <1>7, <1>8

LEMMA CloseInv == ASSUME IInv, Close PROVE IInv'
<1> USE SizeAssumption, KindAssumption DEF IInv, Ops
<1>1. TypeOK'
  BY DEF TypeOK, Close
<1>2. FinishedIsEmpty'
  BY DEF TypeOK, FinishedIsEmpty, Close
<1>3. FinishedForAReason'
  BY DEF TypeOK, FinishedForAReason, Close
<1>4. ToldWhenFinished'
  BY DEF TypeOK, ToldWhenFinished, Close
<1>5. FinishedBelow'
  BY DEF FinishedBelow, Through, Close
<1>6. PassedAreReady'
  BY DEF TypeOK, PassedAreReady, FinishedIsEmpty, FinishedForAReason, ToldWhenFinished, Unwanted, Close
<1>7. FinishedWithLast'
  BY DEF TypeOK, FinishedWithLast, Close
<1>8. OnlyUnwantedLost'
  BY DEF TypeOK, OnlyUnwantedLost, PassedAreReady, Unwanted, Close
<1> QED
  BY <1>1, <1>2, <1>3, <1>4, <1>5, <1>6, <1>7, <1>8

-----------------------------------------------------------------------------
LEMMA NextInv == IInv /\ [Next \/ Ended]_vars => IInv'
<1> SUFFICES ASSUME IInv, [Next \/ Ended]_vars PROVE IInv'
  OBVIOUS
<1>1. CASE Enter
  BY <1>1, EnterInv
<1>2. CASE Step
  BY <1>2, BlockInv, FeedInv, DryInv, EndOfInputInv, SkipInv, DeliverInv, SinkDryInv, FinishInv DEF Step
<1>3. CASE \E k \in Ops : Elsewhere(k)
  BY <1>3, ElsewhereInv
<1>4. CASE Close
  BY <1>4, CloseInv
<1>5. CASE UNCHANGED vars
  BY <1>5 DEF vars, IInv, TypeOK, FinishedIsEmpty, FinishedForAReason, ToldWhenFinished,
              FinishedBelow, Through, PassedAreReady, Unwanted, FinishedWithLast, OnlyUnwantedLost
<1> QED
  BY <1>1, <1>2, <1>3, <1>4, <1>5 DEF Next, Ended

\* The inductive invariant holds in every reachable state of every pipeline.
THEOREM Invariance == Spec => []IInv
<1>1. Init => IInv
  BY InitInv
<1>2. IInv /\ [Next \/ Ended]_vars => IInv'
  BY NextInv
<1> QED
  BY <1>1, <1>2, PTL DEF Spec

\* Type correctness: the cursor never leaves the pipeline, and no operator
\* hands out a batch it does not hold.
THEOREM TypeCorrect == Spec => []TypeOK
<1>1. IInv => TypeOK
  BY DEF IInv
<1> QED
  BY <1>1, Invariance, PTL

\* RunInternal overwrites a taken slot only below an operator that has stopped
\* early: a pipeline without a Limit or a merge join loses no batch.
THEOREM LossIsUnwanted == Spec => []OnlyUnwantedLost
<1>1. IInv => OnlyUnwantedLost
  BY DEF IInv
<1> QED
  BY <1>1, Invariance, PTL

\* noMoreInput() reaches an operator only when everything below it is drained.
THEOREM EndIsTold == Spec => []EndMeansDrained
<1>1. IInv => EndMeansDrained
  <2> SUFFICES ASSUME IInv, NEW k \in 2 .. N, noMore[k],
                      NEW j \in 1 .. k - 1, Through(j, k - 1)
               PROVE  fin[j] /\ pending[j] = 0
    BY DEF EndMeansDrained
  <2>1. fin[k - 1] /\ k - 1 \in Ops /\ j \in Ops
    BY SizeAssumption DEF IInv, ToldWhenFinished, Ops
  <2> QED
    BY <2>1, SizeAssumption DEF IInv, FinishedBelow, FinishedIsEmpty, Ops
<1> QED
  BY <1>1, Invariance, PTL

\* A driver that has reported the end has left no row behind.
THEOREM EndIsComplete == Spec => []NothingLeftBehind
<1>1. IInv => NothingLeftBehind
  BY SizeAssumption DEF IInv, FinishedWithLast, FinishedBelow, FinishedIsEmpty, NothingLeftBehind, Ops
<1> QED
  BY <1>1, Invariance, PTL

=============================================================================
