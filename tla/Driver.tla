------------------------------- MODULE Driver -------------------------------
(***************************************************************************)
(* OmniDriver (src/core/src/compute/driver.cpp): one pipeline of operators *)
(* 1 .. N, operator 1 being the ValueStream that pulls from the caller's   *)
(* iterator.  RunInternal walks a cursor over the pipeline from its last   *)
(* operator to its first; one action below is one iteration of that loop.  *)
(*                                                                         *)
(* Operators are described by what the driver can see of them: what their  *)
(* IsBlocked, needsInput, GetOutput, AddInput, noMoreInput and isFinished  *)
(* may answer.  Batches are counted, not inspected.  Operators.tla gives   *)
(* the operators their actual handlers.                                    *)
(***************************************************************************)
EXTENDS Integers, FiniteSets

CONSTANTS
  N,          \* number of operators of the pipeline
  MaxOut,     \* most batches one input batch (or one flush) can turn into
  Buffers,    \* keep every batch they are given: Sort, TopN, Window,
              \*   aggregations, Union, HashBuilder
  Breakers,   \* the Buffers that emit nothing before noMoreInput: all but Union
  Choosy,     \* needsInput may be false while they hold something: Expand,
              \*   the streamed table of a merge join
  Stoppers,   \* may finish before their input has ended: Limit, and the
              \*   streamed table of a merge join
  Flushers,   \* noMoreInput may itself create output: a global aggregation's
              \*   single row, the streamed table's end-of-data batch
  Lazy,       \* their first empty GetOutput after noMoreInput does not finish
              \*   them: LookupJoinWrapper, which then turns to the outer join
  Blockable   \* override IsBlocked: Union, LookupJoin, the streamed table

Ops == 1 .. N

ASSUME SizeAssumption == N \in Nat \ {0} /\ MaxOut \in Nat
ASSUME KindAssumption ==
  /\ Buffers \subseteq 2 .. N /\ Choosy \subseteq 2 .. N
  /\ Stoppers \subseteq 2 .. N /\ Flushers \subseteq 2 .. N
  /\ Lazy \subseteq 2 .. N /\ Blockable \subseteq 2 .. N
  /\ Breakers \subseteq Buffers
  /\ Buffers \intersect (Choosy \union Stoppers \union Lazy) = {}

VARIABLES
  cursor,     \* the loop variable i (+ 1) of RunInternal; 0: no call of Next is running
  finished,   \* OmniDriver::finished_
  shouldStop, \* OmniDriver::shouldStop, set when the task is destroyed
  pending,    \* pending[k]: batches operator k can still emit of what it holds
  fin,        \* fin[k]: status is OMNI_STATUS_FINISHED
  noMore,     \* noMore[k]: noMoreInput_
  closing,    \* ValueStream::finished_; for Lazy operators: the inner join has finished
  blocked,    \* blocked[k]: IsBlocked() would not answer kNotBlocked
  lost        \* history: single-slot operators given a batch while they held one

vars == <<cursor, finished, shouldStop, pending, fin, noMore, closing, blocked, lost>>

Nothing == [k \in Ops |-> FALSE]

Init ==
  /\ cursor = 0 /\ finished = FALSE /\ shouldStop = FALSE
  /\ \E rest \in 0 .. MaxOut : pending = [k \in Ops |-> IF k = 1 THEN rest ELSE 0]
  /\ fin = Nothing /\ noMore = Nothing /\ closing = Nothing
  /\ blocked \in [Ops -> BOOLEAN] /\ \A k \in Ops : blocked[k] <=> k \in Blockable
  /\ lost = {}

-----------------------------------------------------------------------------
(* What an operator may answer.                                            *)

\* needsInput() may answer TRUE / may answer FALSE.
MayTake(k)    == ~fin[k] /\ ~noMore[k]
MayDecline(k) == \/ fin[k] \/ noMore[k]
                 \/ k \in Choosy /\ pending[k] > 0

\* GetOutput() hands out a batch.  An operator whose input has ended may set
\* FINISHED together with its last batch (Sort, Union, the outer join).
CanEmit(k) == ~fin[k] /\ pending[k] > 0 /\ (k \in Breakers => noMore[k])

LastBatch(k) == /\ pending[k] = 1 /\ noMore[k]
                /\ k \in Lazy => closing[k]

Emit(k) ==
  /\ CanEmit(k)
  /\ fin' \in {fin} \union (IF LastBatch(k) THEN {[fin EXCEPT ![k] = TRUE]} ELSE {})
  /\ UNCHANGED closing

\* GetOutput() hands out nothing and leaves the operator unfinished ...
NullGoesOn(k) ==
  /\ ~CanEmit(k) /\ ~fin[k]
  /\ \/ k = 1 /\ ~closing[k]
     \/ k \in Lazy /\ noMore[k] /\ ~closing[k]
     \/ k # 1 /\ ~noMore[k]
  /\ closing' = [closing EXCEPT ![k] = k = 1 \/ noMore[k]]
  /\ \E more \in 0 .. (IF noMore[k] THEN MaxOut ELSE 0) :
        pending' = [pending EXCEPT ![k] = @ + more]
  /\ UNCHANGED fin

\* Mutant: an empty GetOutput() is taken for the end of the operator.
NullAlwaysFinishes(k) ==
  /\ ~CanEmit(k)
  /\ fin' = [fin EXCEPT ![k] = TRUE]
  /\ UNCHANGED closing

\* ... or finishes it (or it had finished before).
NullFinishes(k) ==
  /\ ~CanEmit(k)
  /\ \/ fin[k]
     \/ k = 1 /\ closing[k]
     \/ k # 1 /\ noMore[k] /\ (k \in Lazy => closing[k])
     \/ k \in Stoppers
  /\ fin' = [fin EXCEPT ![k] = TRUE]
  /\ UNCHANGED closing

-----------------------------------------------------------------------------
(* What the driver does to an operator.                                    *)

\* A streamed merge-join table that holds no joined rows may have to wait for
\* its buffered side after a call; no other operator becomes blocked again.
MayBlockAgain(k) ==
  IF k \in Blockable \intersect Stoppers /\ pending'[k] = 0
    THEN blocked' \in {blocked, [blocked EXCEPT ![k] = TRUE]}
    ELSE blocked' = blocked

\* op->GetOutput(&batch); nextOp->AddInput(batch).  A batch without rows is
\* dropped; any other takes the slot of an operator that has one.
Keep(k) ==
  /\ pending' = [pending EXCEPT ![k] = @ - 1]
  /\ UNCHANGED lost

Take(k) ==
  /\ \E n \in 0 .. MaxOut :
        pending' = [pending EXCEPT ![k] = @ - 1,
                                   ![k + 1] = IF k + 1 \in Buffers THEN @ + n ELSE n]
  /\ lost' = IF k + 1 \notin Buffers /\ pending[k + 1] > 0 THEN lost \union {k + 1} ELSE lost

Hand(k) == (Keep(k) \/ Take(k)) /\ MayBlockAgain(k + 1)

\* Mutant: noMoreInput() does not set noMoreInput_.
TellNothing(k) == UNCHANGED <<noMore, pending>> /\ MayBlockAgain(k)

\* nextOp->noMoreInput()
TellNoMore(k) ==
  /\ noMore' = [noMore EXCEPT ![k] = TRUE]
  /\ \E more \in 0 .. (IF k \in Flushers THEN MaxOut ELSE 0) :
        pending' = [pending EXCEPT ![k] = @ + more]
  /\ MayBlockAgain(k)

-----------------------------------------------------------------------------
(* The iterations of RunInternal.                                          *)

\* Mutant: the walk wraps to an operator that does not exist.
DownTooFar == cursor' = IF cursor = 1 THEN N + 1 ELSE cursor - 1

\* --i, and the walk starts again from the last operator when it wraps.
Down == cursor' = IF cursor = 1 THEN N ELSE cursor - 1

\* The iteration at operator k goes past the two IsBlocked checks.
At(k) == /\ cursor = k /\ ~blocked[k]
         /\ k < N => ~blocked[k + 1]

\* OmniTask::Next polls this driver.
Enter ==
  /\ cursor = 0 /\ ~finished /\ ~shouldStop
  /\ cursor' = N
  /\ UNCHANGED <<finished, shouldStop, pending, fin, noMore, closing, blocked, lost>>

\* return BlockDriver(...)
Block(k) ==
  /\ cursor = k
  /\ blocked[k] \/ (k < N /\ blocked[k + 1])
  /\ cursor' = 0
  /\ UNCHANGED <<finished, shouldStop, pending, fin, noMore, closing, blocked, lost>>

\* Mutant: without i += 2 the walk goes on below the fed operator.
FeedAndGoDown(k) ==
  /\ At(k) /\ k < N /\ MayTake(k + 1)
  /\ Emit(k) /\ Hand(k)
  /\ Down
  /\ UNCHANGED <<finished, shouldStop, noMore>>

\* The next operator takes the batch; i += 2 lets it run next.
Feed(k) ==
  /\ At(k) /\ k < N /\ MayTake(k + 1)
  /\ Emit(k) /\ Hand(k)
  /\ cursor' = k + 1
  /\ UNCHANGED <<finished, shouldStop, noMore>>

\* The next operator would take a batch, but there is none yet.
Dry(k) ==
  /\ At(k) /\ k < N /\ MayTake(k + 1)
  /\ NullGoesOn(k)
  /\ Down
  /\ UNCHANGED <<finished, shouldStop, noMore, blocked, lost>>

\* There is none and there will be none: noMoreInput() and start over.
EndOfInput(k) ==
  /\ At(k) /\ k < N /\ MayTake(k + 1)
  /\ NullFinishes(k) /\ TellNoMore(k + 1)
  /\ cursor' = N
  /\ UNCHANGED <<finished, shouldStop, lost>>

\* The next operator takes nothing now.
Skip(k) ==
  /\ At(k) /\ k < N /\ MayDecline(k + 1)
  /\ Down
  /\ UNCHANGED <<finished, shouldStop, pending, fin, noMore, closing, blocked, lost>>

\* Mutant: the driver finishes with the first batch after the end of the input.
DeliverAndEnd ==
  /\ At(N) /\ Emit(N)
  /\ pending' = [pending EXCEPT ![N] = @ - 1]
  /\ finished' = noMore[N]
  /\ cursor' = 0
  /\ UNCHANGED <<shouldStop, noMore, blocked, lost>>

\* The last operator's batch is the result of Next; with its last batch the
\* driver finishes.
Deliver ==
  /\ At(N) /\ Emit(N)
  /\ pending' = [pending EXCEPT ![N] = @ - 1]
  /\ finished' = fin'[N]
  /\ cursor' = 0
  /\ UNCHANGED <<shouldStop, noMore, blocked, lost>>

SinkDry ==
  /\ At(N) /\ NullGoesOn(N)
  /\ Down
  /\ UNCHANGED <<finished, shouldStop, noMore, blocked, lost>>

\* Mutant: finished_ is not set.
FinishUnnoticed ==
  /\ At(N) /\ NullFinishes(N)
  /\ cursor' = 0
  /\ UNCHANGED <<finished, shouldStop, pending, noMore, blocked, lost>>

\* return nullptr, and no more calls.
Finish ==
  /\ At(N) /\ NullFinishes(N)
  /\ finished' = TRUE
  /\ cursor' = 0
  /\ UNCHANGED <<shouldStop, pending, noMore, blocked, lost>>

Step == \/ \E k \in Ops : Block(k) \/ Feed(k) \/ Dry(k) \/ EndOfInput(k) \/ Skip(k)
        \/ Deliver \/ SinkDry \/ Finish

-----------------------------------------------------------------------------
(* What happens to the pipeline while its driver is not running.           *)

\* Another pipeline of the task ends the wait of operator k: the union's other
\* sources have been drained into it, the hash table is built, the buffered
\* table has been given the rows the streamed one asked for.
Elsewhere(k) ==
  /\ cursor = 0 /\ ~shouldStop /\ blocked[k]
  /\ blocked' = [blocked EXCEPT ![k] = FALSE]
  /\ \E more \in 0 .. (IF k \in Buffers \union Stoppers THEN MaxOut ELSE 0) :
        pending' = [pending EXCEPT ![k] = @ + more]
  /\ UNCHANGED <<cursor, finished, shouldStop, fin, noMore, closing, lost>>

\* ~OmniTask: shouldStop and close(), which frees what the operators hold.
Close ==
  /\ cursor = 0 /\ ~shouldStop
  /\ shouldStop' = TRUE
  /\ pending' = [k \in Ops |-> 0]
  /\ UNCHANGED <<cursor, finished, fin, noMore, closing, blocked, lost>>

Next == Enter \/ Step \/ (\E k \in Ops : Elsewhere(k)) \/ Close

\* A finished or closed driver is not called again.
Ended == cursor = 0 /\ shouldStop /\ UNCHANGED vars

Spec == Init /\ [][Next \/ Ended]_vars

\* RunInternal runs to its return, and the loop of OmniTask::Next polls every
\* unfinished driver in each of its rounds: this one, and between two polls of
\* this one the pipelines its operators wait for (hence strong fairness: the
\* wait can end only while this driver is not running).
Fairness == /\ WF_vars(Step) /\ WF_vars(Enter)
            /\ \A k \in Ops : SF_vars(Elsewhere(k))

FairSpec == Spec /\ Fairness

-----------------------------------------------------------------------------
(* Properties.                                                             *)

\* Every variable keeps its type.
TypeOK ==
  /\ cursor \in 0 .. N
  /\ finished \in BOOLEAN /\ shouldStop \in BOOLEAN
  /\ pending \in [Ops -> Nat]
  /\ fin \in [Ops -> BOOLEAN] /\ noMore \in [Ops -> BOOLEAN]
  /\ closing \in [Ops -> BOOLEAN] /\ blocked \in [Ops -> BOOLEAN]
  /\ lost \subseteq Ops

\* Somebody above operator k has stopped reading: nothing k makes is wanted.
Unwanted(k) == \E s \in Stoppers : k < s /\ fin[s]

\* Filter, Projection, LookupJoin and the other operators with one slot
\* (projectedVecs, curInputBatch) overwrite it in AddInput without looking.  The
\* driver gives them a batch while the slot is taken only below an operator
\* that has stopped early, where the rows are no longer wanted.
OnlyUnwantedLost == \A k \in lost : Unwanted(k)

\* No operator strictly between j and k, nor k itself, can stop early.
Through(j, k) == \A s \in Stoppers : ~(j < s /\ s <= k)

\* noMoreInput() reaches operator k only when everything below it, down to the
\* iterator or to an operator that stopped early, has finished and is empty.
EndMeansDrained ==
  \A k \in 2 .. N : noMore[k] =>
    \A j \in 1 .. k - 1 : Through(j, k - 1) => fin[j] /\ pending[j] = 0

\* A driver that reports the end has left nothing behind: the whole pipeline,
\* down to the iterator or to an operator that stopped early, is finished and empty.
NothingLeftBehind ==
  finished => \A j \in Ops : Through(j, N) => fin[j] /\ pending[j] = 0

\* A task that keeps calling Next sees the driver finish: no call spins for ever, and
\* each brings the driver on (driver.cpp:138).
DriverFinishes == <>(finished \/ shouldStop)

=============================================================================
