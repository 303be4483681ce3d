---------------------------- MODULE MemoryManager ----------------------------
(***************************************************************************)
(* The accounting of off-heap memory (src/core/src/memory): every thread   *)
(* has a ThreadMemoryManager, which collects what the thread allocates and *)
(* frees and reports it, above a threshold, to the thread's MemoryManager  *)
(* and through it to the global one.  The global one refuses an allocation *)
(* with an exception when the limit has been reached.                      *)
(*                                                                         *)
(* The managers' fields are relaxed atomics, so every access to the global *)
(* manager is a step of its own.  A thread's own manager is touched by     *)
(* that thread only and is updated in the step that starts the report.     *)
(***************************************************************************)
EXTENDS Integers, FiniteSets, Sums

CONSTANTS
  Threads,
  Global,     \* the global MemoryManager
  Sizes,      \* the sizes of the blocks that are allocated
  Threshold,  \* untrackedMemoryThreshold
  Limits,     \* the values given to setGlobalMemoryLimit
  MaxAllocs   \* bound: most allocations in a run

UNLIMIT == -1
Managers == Threads \union {Global}

ASSUME ThreadsAssumption == Global \notin Threads /\ IsFiniteSet(Threads)
ASSUME NumbersAssumption ==
  /\ Sizes \subseteq Nat \ {0} /\ IsFiniteSet(Sizes) /\ Threshold \in Nat
  /\ Limits \subseteq Nat \union {UNLIMIT}
  /\ MaxAllocs \in Nat

VARIABLES
  memoryAmount, memoryLimit, isBlocked,   \* of every manager
  untracked,  \* untrackedMemory of each thread
  pc,         \* where each thread is in a report to the global manager
  reported,   \* AddMemory's argument reportedMemory (SubMemory's reclaimedMemory)
  size,       \* AddMemory's argument curAllocateSize
  amount,     \* AddMemory's newMemoryAmount
  blocks,     \* blocks[n]: number of allocated blocks of size n
  allocs,     \* history: allocations begun
  kept,       \* history: bytes each thread has been given minus those it has freed
  throws,     \* history: exceptions since the global isBlocked was last cleared
  excused     \* history: an allocation has been refused, or the limit has been
              \*   reached in a way AddMemory never sees

vars == <<memoryAmount, memoryLimit, isBlocked, untracked, pc, reported, size, amount,
          blocks, allocs, kept, throws, excused>>

Init ==
  /\ memoryAmount = [m \in Managers |-> 0]
  /\ memoryLimit = [m \in Managers |-> UNLIMIT]
  /\ isBlocked = [m \in Managers |-> FALSE]
  /\ untracked = [t \in Threads |-> 0]
  /\ pc = [t \in Threads |-> "new"]
  /\ reported = [t \in Threads |-> 0] /\ size = reported /\ amount = reported
  /\ blocks = [n \in Sizes |-> 0]
  /\ kept = [t \in Threads |-> 0]
  /\ allocs = 0 /\ throws = 0 /\ excused = FALSE

Reached(m, n) == memoryLimit[m] # UNLIMIT /\ n >= memoryLimit[m]

-----------------------------------------------------------------------------
\* SetGlobalMemoryLimit, at any time.  A thread that exists keeps its own limit.
SetGlobalMemoryLimit(l) ==
  /\ memoryLimit' = [memoryLimit EXCEPT ![Global] = l]
  /\ excused' = (excused \/ (l # UNLIMIT /\ memoryAmount[Global] >= l))
  /\ UNCHANGED <<memoryAmount, isBlocked, untracked, pc, reported, size, amount,
                 blocks, allocs, kept, throws>>

\* The first call of GetThreadMemoryManager in a thread.
Start(t) ==
  /\ pc[t] = "new"
  /\ pc' = [pc EXCEPT ![t] = "idle"]
  /\ memoryLimit' = [memoryLimit EXCEPT ![t] = memoryLimit[Global]]
  /\ UNCHANGED <<memoryAmount, isBlocked, untracked, reported, size, amount, blocks, allocs,
                 kept, throws, excused>>

\* Allocator::Alloc
Alloc(t) == pc[t] = "idle" /\ allocs < MaxAllocs /\ allocs' = allocs + 1

\* pool->Allocate, after the report has been accepted.
Allocate(t, n) ==
  /\ blocks' = [blocks EXCEPT ![n] = @ + 1]
  /\ kept' = [kept EXCEPT ![t] = @ + n]

\* ReportMemoryUsage: below the threshold nobody is told.
AllocUntracked(t, n) ==
  /\ Alloc(t) /\ untracked[t] + n <= Threshold
  /\ untracked' = [untracked EXCEPT ![t] = @ + n]
  /\ Allocate(t, n)
  /\ UNCHANGED <<memoryAmount, memoryLimit, isBlocked, pc, reported, size, amount, throws,
                 excused>>

\* Mutant: untrackedMemory is not set to 0 before the report.
ReportAgain(t, n) ==
  LET report == untracked[t] + n
      over   == Reached(t, memoryAmount[t] + report)
  IN  /\ Alloc(t) /\ report > Threshold
      /\ untracked' = [untracked EXCEPT ![t] = report]
      /\ reported' = [reported EXCEPT ![t] = report]
      /\ size' = [size EXCEPT ![t] = n]
      /\ memoryAmount' = [memoryAmount EXCEPT ![t] =
                            @ + report - (IF over /\ ~isBlocked[t] THEN n ELSE 0)]
      /\ isBlocked' = [isBlocked EXCEPT ![t] = over]
      /\ pc' = [pc EXCEPT ![t] = "add"]
      /\ UNCHANGED <<memoryLimit, amount, blocks, kept, throws, excused>>

\* Above it: untrackedMemory becomes 0 and AddMemory is called, first for the
\* thread's own manager, which never throws.
Report(t, n) ==
  LET report == untracked[t] + n
      over   == Reached(t, memoryAmount[t] + report)
  IN  /\ Alloc(t) /\ report > Threshold
      /\ untracked' = [untracked EXCEPT ![t] = 0]
      /\ reported' = [reported EXCEPT ![t] = report]
      /\ size' = [size EXCEPT ![t] = n]
      /\ memoryAmount' = [memoryAmount EXCEPT ![t] =
                            @ + report - (IF over /\ ~isBlocked[t] THEN n ELSE 0)]
      /\ isBlocked' = [isBlocked EXCEPT ![t] = over]
      /\ pc' = [pc EXCEPT ![t] = "add"]
      /\ UNCHANGED <<memoryLimit, amount, blocks, kept, throws, excused>>

-----------------------------------------------------------------------------
(* AddMemory of the global manager.                                        *)

\* memoryAmount.fetch_add(reportedMemory)
Add(t) ==
  LET new == memoryAmount[Global] + reported[t] IN
  /\ pc[t] = "add"
  /\ memoryAmount' = [memoryAmount EXCEPT ![Global] = new]
  /\ amount' = [amount EXCEPT ![t] = new]
  /\ reported' = [reported EXCEPT ![t] = 0]
  /\ pc' = [pc EXCEPT ![t] = "compare"]
  /\ UNCHANGED <<memoryLimit, isBlocked, untracked, size, blocks, allocs, kept, throws, excused>>

\* Mutant: the limit itself is still allowed.
CompareLoosely(t) ==
  /\ pc[t] = "compare"
  /\ pc' = [pc EXCEPT ![t] = IF Reached(Global, amount[t] - 1) THEN "test" ELSE "clear"]
  /\ UNCHANGED <<memoryAmount, memoryLimit, isBlocked, untracked, reported, size, amount,
                 blocks, allocs, kept, throws, excused>>

Compare(t) ==
  /\ pc[t] = "compare"
  /\ pc' = [pc EXCEPT ![t] = IF Reached(Global, amount[t]) THEN "test" ELSE "clear"]
  /\ UNCHANGED <<memoryAmount, memoryLimit, isBlocked, untracked, reported, size, amount,
                 blocks, allocs, kept, throws, excused>>

Accept(t) ==
  /\ Allocate(t, size[t])
  /\ size' = [size EXCEPT ![t] = 0] /\ amount' = [amount EXCEPT ![t] = 0]
  /\ pc' = [pc EXCEPT ![t] = "idle"]
  /\ UNCHANGED <<memoryAmount, memoryLimit, untracked, reported, allocs, excused>>

\* isBlocked.store(false), and the block is allocated.
Clear(t) ==
  /\ pc[t] = "clear"
  /\ isBlocked' = [isBlocked EXCEPT ![Global] = FALSE]
  /\ throws' = 0
  /\ Accept(t)

\* isBlocked.load(): somebody has been told before; the block is allocated.
PassBlocked(t) ==
  /\ pc[t] = "test" /\ isBlocked[Global]
  /\ Accept(t)
  /\ UNCHANGED <<isBlocked, throws>>

\* isBlocked.load(): nobody has been told.
FindUnblocked(t) ==
  /\ pc[t] = "test" /\ ~isBlocked[Global]
  /\ pc' = [pc EXCEPT ![t] = "set"]
  /\ UNCHANGED <<memoryAmount, memoryLimit, isBlocked, untracked, reported, size, amount,
                 blocks, allocs, kept, throws, excused>>

\* isBlocked.store(true)
SetBlocked(t) ==
  /\ pc[t] = "set"
  /\ isBlocked' = [isBlocked EXCEPT ![Global] = TRUE]
  /\ pc' = [pc EXCEPT ![t] = "refuse"]
  /\ UNCHANGED <<memoryAmount, memoryLimit, untracked, reported, size, amount, blocks, allocs,
                 kept, throws, excused>>

\* Mutant: what the refused allocation would have taken stays counted.
RefuseButCount(t) ==
  /\ pc[t] = "refuse"
  /\ throws' = throws + 1 /\ excused' = TRUE
  /\ size' = [size EXCEPT ![t] = 0] /\ amount' = [amount EXCEPT ![t] = 0]
  /\ pc' = [pc EXCEPT ![t] = "idle"]
  /\ UNCHANGED <<memoryAmount, memoryLimit, isBlocked, untracked, reported, blocks, allocs, kept>>

\* memoryAmount.fetch_sub(curAllocateSize); throw
Refuse(t) ==
  /\ pc[t] = "refuse"
  /\ memoryAmount' = [memoryAmount EXCEPT ![Global] = @ - size[t]]
  /\ throws' = throws + 1 /\ excused' = TRUE
  /\ size' = [size EXCEPT ![t] = 0] /\ amount' = [amount EXCEPT ![t] = 0]
  /\ pc' = [pc EXCEPT ![t] = "idle"]
  /\ UNCHANGED <<memoryLimit, isBlocked, untracked, reported, blocks, allocs, kept>>

-----------------------------------------------------------------------------
(* Allocator::Free, by any thread, and the end of a thread.                *)

Release(t, n) ==
  /\ pc[t] = "idle" /\ blocks[n] > 0
  /\ blocks' = [blocks EXCEPT ![n] = @ - 1]
  /\ kept' = [kept EXCEPT ![t] = @ - n]
  /\ UNCHANGED allocs

\* ReclaimMemoryUsage, within the threshold.
FreeUntracked(t, n) ==
  /\ Release(t, n)
  /\ untracked[t] - n >= -Threshold
  /\ untracked' = [untracked EXCEPT ![t] = @ - n]
  /\ UNCHANGED <<memoryAmount, memoryLimit, isBlocked, pc, reported, size, amount, throws,
                 excused>>

\* Mutant: what goes beyond the threshold stays with the thread.
ReclaimNothing(t, n) ==
  /\ Release(t, n)
  /\ untracked[t] - n < -Threshold
  /\ untracked' = [untracked EXCEPT ![t] = @ - n]
  /\ UNCHANGED <<memoryAmount, memoryLimit, isBlocked, pc, reported, size, amount, throws,
                 excused>>

\* Beyond it: SubMemory of the thread's own manager, then of the global one.
Reclaim(t, n) ==
  LET report == untracked[t] - n IN
  /\ Release(t, n)
  /\ report < -Threshold
  /\ untracked' = [untracked EXCEPT ![t] = 0]
  /\ memoryAmount' = [memoryAmount EXCEPT ![t] = @ + report]
  /\ reported' = [reported EXCEPT ![t] = report]
  /\ pc' = [pc EXCEPT ![t] = "sub"]
  /\ UNCHANGED <<memoryLimit, isBlocked, size, amount, throws, excused>>

\* ~ThreadMemoryManager reports the rest, whatever its sign.
End(t) ==
  /\ pc[t] = "idle"
  /\ untracked' = [untracked EXCEPT ![t] = 0]
  /\ memoryAmount' = [memoryAmount EXCEPT ![t] = @ + untracked[t]]
  /\ reported' = [reported EXCEPT ![t] = untracked[t]]
  /\ pc' = [pc EXCEPT ![t] = "last"]
  /\ UNCHANGED <<memoryLimit, isBlocked, size, amount, blocks, allocs, kept, throws, excused>>

Sub(t) ==
  LET new == memoryAmount[Global] + reported[t] IN
  /\ pc[t] \in {"sub", "last"}
  /\ memoryAmount' = [memoryAmount EXCEPT ![Global] = new]
  /\ excused' = (excused \/ (pc[t] = "last" /\ Reached(Global, new)))
  /\ reported' = [reported EXCEPT ![t] = 0]
  /\ pc' = [pc EXCEPT ![t] = IF @ = "sub" THEN "idle" ELSE "ended"]
  /\ UNCHANGED <<memoryLimit, isBlocked, untracked, size, amount, blocks, allocs, kept, throws>>

-----------------------------------------------------------------------------
AddMemory(t) == \/ Add(t) \/ Compare(t) \/ Clear(t) \/ PassBlocked(t) \/ FindUnblocked(t)
                \/ SetBlocked(t) \/ Refuse(t)

Next ==
  \/ \E l \in Limits : SetGlobalMemoryLimit(l)
  \/ \E t \in Threads :
       \/ Start(t) \/ AddMemory(t) \/ Sub(t) \/ End(t)
       \/ \E n \in Sizes : \/ AllocUntracked(t, n) \/ Report(t, n)
                           \/ FreeUntracked(t, n) \/ Reclaim(t, n)

Spec == Init /\ [][Next]_vars

-----------------------------------------------------------------------------
(* Properties.                                                             *)

Places == {"new", "idle", "add", "compare", "clear", "test", "set", "refuse", "sub", "last",
           "ended"}

\* Every variable keeps its type, and no thread keeps more than the threshold
\* to itself.
TypeOK ==
  /\ memoryAmount \in [Managers -> Int]
  /\ memoryLimit \in [Managers -> Nat \union {UNLIMIT}]
  /\ isBlocked \in [Managers -> BOOLEAN]
  /\ untracked \in [Threads -> -Threshold .. Threshold]
  /\ pc \in [Threads -> Places]
  /\ reported \in [Threads -> Int] /\ size \in [Threads -> Nat] /\ amount \in [Threads -> Int]
  /\ blocks \in [Sizes -> Nat] /\ kept \in [Threads -> Int]
  /\ allocs \in 0 .. MaxAllocs /\ throws \in Nat /\ excused \in BOOLEAN

\* The global amount, with what the threads have not reported yet, is what the
\* allocated blocks and those being allocated take: no report is lost or counted
\* twice, and a refused allocation leaves no trace.
GlobalIsExact ==
  memoryAmount[Global] + Total([t \in Threads |-> untracked[t] + reported[t]], Threads)
    = Total([n \in Sizes |-> n * blocks[n]], Sizes) + Total(size, Threads)

\* Thread t has seen the limit reached and is about to look at, or to set, isBlocked.
Noticed(t) == \/ pc[t] = "compare" /\ Reached(Global, amount[t])
              \/ pc[t] \in {"test", "set", "refuse"}

\* The global amount never reaches the limit for the first time without the
\* exception being thrown, whatever the threads do meanwhile: it has been thrown,
\* or some thread is on its way to it.
FirstExcessThrows ==
  Reached(Global, memoryAmount[Global]) => excused \/ \E t \in Threads : Noticed(t)
=============================================================================
