-------------------------------- MODULE Task --------------------------------
(***************************************************************************)
(* OmniTask (src/core/src/compute/task.cpp, task.h): the pipelines that    *)
(* LocalPlanner makes of a plan, each run by an OmniDriver, all polled in  *)
(* one thread by the task's Next until one of them delivers a batch.       *)
(* A step is one iteration of OmniDriver::RunInternal, with the handlers   *)
(* of module Operators, or one iteration of the polling loop of            *)
(* OmniTask::Next.                                                         *)
(***************************************************************************)
EXTENDS Operators

CONSTANTS
  Plans,     \* the plans to run
  Streams    \* what the iterator of a ValueStream may give: sequences of
             \*   batches, a batch being the sequence of its rows' keys

ASSUME PlansAssumption == \A p \in Plans : IsPlan(p)

VARIABLES
  store,      \* the operators, see module Operators
  input,      \* the batches of each ValueStream
  driver,     \* the driver that OmniTask::Next is at; 0: no call is running
  runnable,   \* runableDrivers # 0
  cursor,     \* i + 1 in RunInternal; 0: the driver is not running
  finished,   \* the drivers whose finished_ is set
  delivered,  \* the rows the caller has been given
  ended,      \* a call of Next has returned nullptr
  closed      \* the task has been destroyed

vars == <<store, input, driver, runnable, cursor, finished, delivered, ended, closed>>

plan     == store.plan
Pipeline == store.drivers[driver]
Count    == Len(store.drivers)
Ops      == DOMAIN store.op

\* Rows of node n: key, then a number of their own.
Source(n, stream) ==
  [b \in DOMAIN stream |->
    [r \in DOMAIN stream[b] |-> <<stream[b][r], 100 * n + 10 * b + r>>]]

Init ==
  /\ \E p \in Plans :
       LET leaves == {n \in DOMAIN p : p[n].kind = "VALUES"}
       IN  /\ \E streams \in [leaves -> Streams] :
                input = [n \in leaves |-> Source(n, streams[n])]
           /\ store = NewStore(p, input)
  /\ driver = 0 /\ runnable = FALSE /\ cursor = 0
  /\ finished = {} /\ delivered = <<>> /\ ended = FALSE /\ closed = FALSE

-----------------------------------------------------------------------------
(* OmniTask::Next                                                          *)

Call ==
  /\ driver = 0 /\ ~closed
  /\ driver' = 1 /\ runnable' = FALSE
  /\ UNCHANGED <<store, input, cursor, finished, delivered, ended, closed>>

PollFinished ==
  /\ driver \in finished /\ cursor = 0
  /\ driver' = driver + 1
  /\ UNCHANGED <<store, input, runnable, cursor, finished, delivered, ended, closed>>

Poll ==
  /\ driver \in 1 .. Count /\ driver \notin finished /\ cursor = 0
  /\ runnable' = TRUE
  /\ cursor' = Len(Pipeline)
  /\ UNCHANGED <<store, input, driver, finished, delivered, ended, closed>>

\* All drivers polled and some of them not finished: start over.
PollAgain ==
  /\ driver = Count + 1 /\ runnable
  /\ driver' = 1 /\ runnable' = FALSE
  /\ UNCHANGED <<store, input, cursor, finished, delivered, ended, closed>>

ReturnEnd ==
  /\ driver = Count + 1 /\ ~runnable
  /\ driver' = 0 /\ ended' = TRUE
  /\ UNCHANGED <<store, input, runnable, cursor, finished, delivered, closed>>

-----------------------------------------------------------------------------
(* OmniDriver::RunInternal                                                 *)

Op    == Pipeline[cursor]
After == Pipeline[cursor + 1]
AtEnd == cursor = Len(Pipeline)

Running == driver \in 1 .. Count /\ cursor > 0
Blocked == IsBlocked(store, Op) \/ (~AtEnd /\ IsBlocked(store, After))

Down == cursor' = IF cursor = 1 THEN Len(Pipeline) ELSE cursor - 1
Unchanged == UNCHANGED <<input, runnable, ended, closed>>

\* A driver that returns no batch: the task polls the next one.
ReturnNull == cursor' = 0 /\ driver' = driver + 1

Skip ==
  /\ Running /\ ~Blocked /\ ~AtEnd /\ ~needsInput(store, After)
  /\ Down
  /\ UNCHANGED <<store, driver, finished, delivered>> /\ Unchanged

\* op->GetOutput(&result)
Got      == GetOutput(store, Op)
GotBatch == Got.out # NoBatch
Done     == Got.store.op[Op].fin

\* Between two operators: the next one takes the batch, or there is none yet,
\* or there will be no more.
Between ==
  /\ Running /\ ~Blocked /\ ~AtEnd /\ needsInput(store, After)
  /\ UNCHANGED <<driver, finished, delivered>> /\ Unchanged

\* Mutant: without i += 2 the walk goes on below the fed operator.
FeedAndGoDown ==
  /\ Between /\ GotBatch
  /\ store' = AddInput(Got.store, After, Got.out)
  /\ Down

Feed ==
  /\ Between /\ GotBatch
  /\ store' = AddInput(Got.store, After, Got.out)
  /\ cursor' = cursor + 1

Dry ==
  /\ Between /\ ~GotBatch /\ ~Done
  /\ store' = Got.store
  /\ Down

EndOfInput ==
  /\ Between /\ ~GotBatch /\ Done
  /\ store' = noMoreInput(Got.store, After)
  /\ cursor' = Len(Pipeline)

\* At the last operator: its batch goes to the caller, who frees it.
Sink ==
  /\ Running /\ ~Blocked /\ AtEnd
  /\ finished' = IF Done THEN finished \union {driver} ELSE finished
  /\ Unchanged

Deliver ==
  /\ Sink /\ GotBatch
  /\ store' = Free(Got.store, Got.out)
  /\ delivered' = delivered \o Got.out.rows
  /\ cursor' = 0 /\ driver' = 0

SinkDry ==
  /\ Sink /\ ~GotBatch /\ ~Done
  /\ store' = Got.store
  /\ Down
  /\ UNCHANGED <<driver, delivered>>

\* The driver returns nullptr: an operator is blocked, or the last one has finished.
ReturnNothing ==
  /\ Running
  /\ ~Blocked => AtEnd /\ ~GotBatch /\ Done
  /\ store' = IF Blocked THEN store ELSE Got.store
  /\ finished' = IF Blocked THEN finished ELSE finished \union {driver}
  /\ ReturnNull
  /\ UNCHANGED delivered /\ Unchanged

-----------------------------------------------------------------------------
\* ~OmniTask, at any time between two calls: the caller may have read enough.
Close ==
  /\ driver = 0 /\ ~closed
  /\ closed' = TRUE
  /\ store' = CloseAll(store)
  /\ UNCHANGED <<input, driver, runnable, cursor, finished, delivered, ended>>

Step == \/ PollFinished \/ Poll \/ PollAgain \/ ReturnEnd
        \/ Skip \/ Feed \/ Dry \/ EndOfInput
        \/ Deliver \/ SinkDry \/ ReturnNothing

Next == Call \/ Step \/ Close

Closed == closed /\ UNCHANGED vars

Spec == Init /\ [][Next \/ Closed]_vars

\* A call of Next runs to its return.
Fairness == WF_vars(Step)

FairSpec == Spec /\ Fairness

-----------------------------------------------------------------------------
(* Properties.                                                             *)

\* A hash table is probed only when it has been built.  LookupJoinOperator waits
\* for it in IsBlocked; LookupJoinWrapper does not, and relies on the build
\* pipeline being polled first and never returning before it has finished.
ProbedWhenBuilt ==
  \A o \in Ops :
    Kind(plan, o) \in Joins /\ store.op[o].held # <<>> => store.table[o[1]].ready

\* OmniTask::Next never waits for the future of a blocked driver.  With unions and
\* hash joins it has none to wait for: the order of the drivers lets every
\* pipeline run to its end before the one that depends on it is polled.
NoDriverWaits == Running => ~Blocked

\* What a Union has handed out of a queue it has not finished, and what an
\* Expand is in the middle of expanding, are not accounted for by Close.
Interrupted ==
  \E o \in Ops : \/ Kind(plan, o) = "UNION"  /\ store.op[o].at > 0
                 \/ Kind(plan, o) = "EXPAND" /\ store.op[o].held # <<>>

\* Every batch is freed exactly once, whenever the caller stops reading, if no
\* Union or Expand was interrupted and no slot was overwritten.
FreedExactlyOnce ==
  closed /\ ~Interrupted /\ store.overwritten = {}
    => store.live = {} /\ store.freedTwice = {}

\* No batch is freed again after the caller or another operator has freed it.
NoDoubleFree == store.freedTwice = {}

\* Every call of OmniTask::Next returns.
CallReturns == (driver # 0) ~> (driver = 0)
=============================================================================
