------------------------ MODULE MemoryManager_proofs ------------------------
(***************************************************************************)
(* Proofs about the memory accounting, for any number of threads, any      *)
(* block sizes, threshold and limits: the types, with the threshold as the *)
(* range of what a thread keeps to itself, that the first excess over the  *)
(* limit throws the exception, and that the global amount is exact.        *)
(***************************************************************************)
EXTENDS MemoryManager, Foundations_proofs

\* The global manager is blocked only by a thread that has thrown or will next.
BlockedIsExcused == isBlocked[Global] => excused \/ \E t \in Threads : pc[t] = "refuse"

\* SubMemory, but for a thread's last one, only ever takes away.
ReclaimIsNegative == \A t \in Threads : pc[t] = "sub" => reported[t] < 0

IInv == TypeOK /\ BlockedIsExcused /\ ReclaimIsNegative /\ FirstExcessThrows

-----------------------------------------------------------------------------
LEMMA InitInv == Init => IInv
<1> SUFFICES ASSUME Init PROVE IInv
  OBVIOUS
<1> USE ThreadsAssumption, NumbersAssumption DEF Init, Managers, UNLIMIT
<1>1. TypeOK
  <2>1. 0 \in -Threshold .. Threshold /\ 0 \in 0 .. MaxAllocs
    OBVIOUS
  <2>2. untracked \in [Threads -> -Threshold .. Threshold]
    BY <2>1
  <2>3. memoryAmount \in [Managers -> Int] /\ memoryLimit \in [Managers -> Nat \union {UNLIMIT}]
    OBVIOUS
  <2>4. isBlocked \in [Managers -> BOOLEAN] /\ pc \in [Threads -> Places]
    BY DEF Places
  <2> QED
    BY <2>1, <2>2, <2>3, <2>4 DEF TypeOK
<1>2. BlockedIsExcused /\ ReclaimIsNegative
  BY DEF BlockedIsExcused, ReclaimIsNegative
<1>3. FirstExcessThrows
  BY DEF FirstExcessThrows, Reached
<1> QED
  BY <1>1, <1>2, <1>3 DEF IInv

\* No step but the ones of AddMemory, Sub and SetGlobalMemoryLimit touches what the
\* invariant says of the global manager.
LEMMA Elsewhere ==
  ASSUME IInv, TypeOK', NEW t \in Threads, pc[t] \in {"new", "idle"},
         NEW place \in {"idle", "add", "sub", "last"}, pc' = [pc EXCEPT ![t] = place],
         place = "sub" => reported'[t] < 0,
         \A u \in Threads \ {t} : reported'[u] = reported[u],
         memoryAmount'[Global] = memoryAmount[Global],
         memoryLimit'[Global] = memoryLimit[Global],
         isBlocked'[Global] = isBlocked[Global],
         UNCHANGED <<amount, excused>>
  PROVE  IInv'
<1> USE DEF IInv
<1>1. \A u \in Threads : pc'[u] = IF u = t THEN place ELSE pc[u]
  BY DEF TypeOK
<1>2. BlockedIsExcused'
  BY <1>1 DEF BlockedIsExcused
<1>3. ReclaimIsNegative'
  BY <1>1 DEF ReclaimIsNegative
<1>4. \A u \in Threads : Noticed(u) => Noticed(u)'
  BY <1>1 DEF Noticed, Reached
<1>5. Reached(Global, memoryAmount[Global])' <=> Reached(Global, memoryAmount[Global])
  BY DEF Reached
<1>6. FirstExcessThrows'
  BY <1>4, <1>5 DEF FirstExcessThrows
<1> QED
  BY <1>2, <1>3, <1>6

LEMMA LimitInv == ASSUME IInv, NEW l \in Limits, SetGlobalMemoryLimit(l) PROVE IInv'
<1> USE ThreadsAssumption, NumbersAssumption DEF IInv, SetGlobalMemoryLimit, Managers, UNLIMIT
<1>1. TypeOK'
  BY DEF TypeOK
<1>2. BlockedIsExcused' /\ ReclaimIsNegative'
  BY DEF BlockedIsExcused, ReclaimIsNegative
<1>3. FirstExcessThrows'
  BY DEF FirstExcessThrows, Reached, TypeOK
<1> QED
  BY <1>1, <1>2, <1>3

LEMMA StartInv == ASSUME IInv, NEW t \in Threads, Start(t) PROVE IInv'
<1> USE ThreadsAssumption, NumbersAssumption DEF Start, Managers
<1>1. TypeOK'
  BY DEF IInv, TypeOK, Places
<1> QED
  BY <1>1, Elsewhere DEF IInv, TypeOK

LEMMA AllocUntrackedInv ==
  ASSUME IInv, NEW t \in Threads, NEW n \in Sizes, AllocUntracked(t, n) PROVE IInv'
<1> USE ThreadsAssumption, NumbersAssumption DEF AllocUntracked, Alloc, Allocate
<1>1. n \in Nat /\ n > 0
  OBVIOUS
<1>2. TypeOK'
  BY <1>1 DEF IInv, TypeOK
<1> QED
  BY <1>2, Elsewhere DEF IInv, TypeOK

LEMMA ReportInv ==
  ASSUME IInv, NEW t \in Threads, NEW n \in Sizes, Report(t, n) PROVE IInv'
<1> USE ThreadsAssumption, NumbersAssumption DEF Report, Alloc, Managers
<1>1. n \in Nat /\ n > 0 /\ t # Global
  OBVIOUS
<1>2. TypeOK'
  BY <1>1 DEF IInv, TypeOK, Places, Reached
<1>3. /\ pc[t] = "idle" /\ pc' = [pc EXCEPT ![t] = "add"]
      /\ \A u \in Threads \ {t} : reported'[u] = reported[u]
      /\ UNCHANGED <<amount, excused>>
  BY DEF IInv, TypeOK
<1>4. /\ memoryAmount'[Global] = memoryAmount[Global]
      /\ memoryLimit'[Global] = memoryLimit[Global]
      /\ isBlocked'[Global] = isBlocked[Global]
  BY <1>1 DEF IInv, TypeOK
<1> QED
  BY <1>2, <1>3, <1>4, Elsewhere

LEMMA FreeUntrackedInv ==
  ASSUME IInv, NEW t \in Threads, NEW n \in Sizes, FreeUntracked(t, n) PROVE IInv'
<1> USE ThreadsAssumption, NumbersAssumption DEF FreeUntracked, Release
<1>1. n \in Nat /\ n > 0
  OBVIOUS
<1>2. TypeOK'
  BY <1>1 DEF IInv, TypeOK
<1> QED
  BY <1>2, Elsewhere DEF IInv, TypeOK

LEMMA ReclaimInv ==
  ASSUME IInv, NEW t \in Threads, NEW n \in Sizes, Reclaim(t, n) PROVE IInv'
<1> USE ThreadsAssumption, NumbersAssumption DEF Reclaim, Release, Managers
<1>1. n \in Nat /\ n > 0 /\ t # Global
  OBVIOUS
<1>2. TypeOK'
  BY <1>1 DEF IInv, TypeOK, Places
<1>3. /\ pc[t] = "idle" /\ pc' = [pc EXCEPT ![t] = "sub"]
      /\ \A u \in Threads \ {t} : reported'[u] = reported[u]
      /\ UNCHANGED <<amount, excused>>
  BY DEF IInv, TypeOK
<1>4. /\ memoryAmount'[Global] = memoryAmount[Global]
      /\ memoryLimit'[Global] = memoryLimit[Global]
      /\ isBlocked'[Global] = isBlocked[Global]
  BY <1>1 DEF IInv, TypeOK
<1>5. reported'[t] < 0
  BY <1>1 DEF IInv, TypeOK
<1> QED
  BY <1>2, <1>3, <1>4, <1>5, Elsewhere

LEMMA EndInv == ASSUME IInv, NEW t \in Threads, End(t) PROVE IInv'
<1> USE ThreadsAssumption, NumbersAssumption DEF End, Managers
<1>1. t # Global
  OBVIOUS
<1>2. TypeOK'
  BY <1>1 DEF IInv, TypeOK, Places
<1>3. /\ pc[t] = "idle" /\ pc' = [pc EXCEPT ![t] = "last"]
      /\ \A u \in Threads \ {t} : reported'[u] = reported[u]
      /\ UNCHANGED <<amount, excused>>
  BY DEF IInv, TypeOK
<1>4. /\ memoryAmount'[Global] = memoryAmount[Global]
      /\ memoryLimit'[Global] = memoryLimit[Global]
      /\ isBlocked'[Global] = isBlocked[Global]
  BY <1>1 DEF IInv, TypeOK
<1> QED
  BY <1>2, <1>3, <1>4, Elsewhere

-----------------------------------------------------------------------------
\* The thread that carries the amount up to the limit notices it.
LEMMA AddInv == ASSUME IInv, NEW t \in Threads, Add(t) PROVE IInv'
<1> USE ThreadsAssumption, NumbersAssumption DEF IInv, Add, Managers
<1>1. TypeOK'
  BY DEF TypeOK, Places
<1>2. BlockedIsExcused' /\ ReclaimIsNegative'
  BY DEF BlockedIsExcused, ReclaimIsNegative, TypeOK
<1>3. FirstExcessThrows'
  <2> SUFFICES ASSUME Reached(Global, memoryAmount[Global])' PROVE Noticed(t)'
    BY DEF FirstExcessThrows
  <2> QED
    BY DEF Noticed, Reached, TypeOK
<1> QED
  BY <1>1, <1>2, <1>3

LEMMA CompareInv == ASSUME IInv, NEW t \in Threads, Compare(t) PROVE IInv'
<1> USE ThreadsAssumption, NumbersAssumption DEF IInv, Compare
<1>1. TypeOK'
  BY DEF TypeOK, Places
<1>2. BlockedIsExcused' /\ ReclaimIsNegative'
  BY DEF BlockedIsExcused, ReclaimIsNegative, TypeOK
<1>3. \A u \in Threads : Noticed(u) => Noticed(u)'
  BY DEF Noticed, Reached, TypeOK
<1>4. FirstExcessThrows'
  BY <1>3 DEF FirstExcessThrows, Reached
<1> QED
  BY <1>1, <1>2, <1>4

LEMMA ClearInv == ASSUME IInv, NEW t \in Threads, Clear(t) PROVE IInv'
<1> USE ThreadsAssumption, NumbersAssumption DEF IInv, Clear, Accept, Allocate, Managers
<1>1. TypeOK'
  <2>1. size[t] \in Nat /\ kept[t] \in Int
    BY DEF TypeOK
  <2>2. kept' \in [Threads -> Int]
    BY <2>1 DEF TypeOK
  <2>3. blocks' \in [Sizes -> Nat]
    <3>1. ASSUME NEW n \in Sizes PROVE blocks[n] \in Nat /\ blocks[n] + 1 \in Nat
      BY DEF TypeOK
    <3>2. blocks' = [n \in Sizes |-> IF n = size[t] THEN blocks[n] + 1 ELSE blocks[n]]
      BY Zenon DEF TypeOK
    <3> QED
      BY <3>1, <3>2
  <2>4. size' \in [Threads -> Nat] /\ amount' \in [Threads -> Int]
    BY DEF TypeOK
  <2>5. pc' \in [Threads -> Places] /\ isBlocked' \in [Managers -> BOOLEAN]
    BY DEF TypeOK, Places
  <2> QED
    BY <2>2, <2>3, <2>4, <2>5 DEF TypeOK
<1>2. BlockedIsExcused' /\ ReclaimIsNegative'
  BY DEF BlockedIsExcused, ReclaimIsNegative, TypeOK
<1>3. \A u \in Threads : Noticed(u) => Noticed(u)'
  BY DEF Noticed, Reached, TypeOK
<1>4. FirstExcessThrows'
  BY <1>3 DEF FirstExcessThrows, Reached
<1> QED
  BY <1>1, <1>2, <1>4

\* A thread that finds the manager blocked leaves the exception to whoever blocked it.
LEMMA PassBlockedInv == ASSUME IInv, NEW t \in Threads, PassBlocked(t) PROVE IInv'
<1> USE ThreadsAssumption, NumbersAssumption DEF IInv, PassBlocked, Accept, Allocate
<1>1. TypeOK'
  <2>1. size[t] \in Nat /\ kept[t] \in Int
    BY DEF TypeOK
  <2>2. kept' \in [Threads -> Int]
    BY <2>1 DEF TypeOK
  <2>3. blocks' \in [Sizes -> Nat]
    <3>1. ASSUME NEW n \in Sizes PROVE blocks[n] \in Nat /\ blocks[n] + 1 \in Nat
      BY DEF TypeOK
    <3>2. blocks' = [n \in Sizes |-> IF n = size[t] THEN blocks[n] + 1 ELSE blocks[n]]
      BY Zenon DEF TypeOK
    <3> QED
      BY <3>1, <3>2
  <2>4. size' \in [Threads -> Nat] /\ amount' \in [Threads -> Int]
    BY DEF TypeOK
  <2>5. pc' \in [Threads -> Places] /\ isBlocked' \in [Managers -> BOOLEAN]
    BY DEF TypeOK, Places
  <2> QED
    BY <2>2, <2>3, <2>4, <2>5 DEF TypeOK
<1>2. BlockedIsExcused' /\ ReclaimIsNegative'
  BY DEF BlockedIsExcused, ReclaimIsNegative, TypeOK
<1>3. excused \/ \E u \in Threads : pc[u] = "refuse"
  BY DEF BlockedIsExcused
<1>4. ASSUME NEW u \in Threads, pc[u] = "refuse" PROVE Noticed(u)'
  BY <1>4 DEF Noticed, TypeOK
<1>5. FirstExcessThrows'
  BY <1>3, <1>4 DEF FirstExcessThrows
<1> QED
  BY <1>1, <1>2, <1>5

LEMMA FindUnblockedInv == ASSUME IInv, NEW t \in Threads, FindUnblocked(t) PROVE IInv'
<1> USE ThreadsAssumption, NumbersAssumption DEF IInv, FindUnblocked
<1>1. TypeOK'
  BY DEF TypeOK, Places
<1>2. BlockedIsExcused' /\ ReclaimIsNegative'
  BY DEF BlockedIsExcused, ReclaimIsNegative, TypeOK
<1>3. \A u \in Threads : Noticed(u) => Noticed(u)'
  BY DEF Noticed, Reached, TypeOK
<1>4. FirstExcessThrows'
  BY <1>3 DEF FirstExcessThrows, Reached
<1> QED
  BY <1>1, <1>2, <1>4

LEMMA SetBlockedInv == ASSUME IInv, NEW t \in Threads, SetBlocked(t) PROVE IInv'
<1> USE ThreadsAssumption, NumbersAssumption DEF IInv, SetBlocked, Managers
<1>1. TypeOK'
  BY DEF TypeOK, Places
<1>2. pc'[t] = "refuse"
  BY DEF TypeOK
<1>3. BlockedIsExcused' /\ FirstExcessThrows'
  BY <1>2 DEF BlockedIsExcused, FirstExcessThrows, Noticed
<1>4. ReclaimIsNegative'
  BY DEF ReclaimIsNegative, TypeOK
<1> QED
  BY <1>1, <1>3, <1>4

LEMMA RefuseInv == ASSUME IInv, NEW t \in Threads, Refuse(t) PROVE IInv'
<1> USE ThreadsAssumption, NumbersAssumption DEF IInv, Refuse, Managers
<1>1. TypeOK'
  BY DEF TypeOK, Places
<1>2. BlockedIsExcused' /\ FirstExcessThrows'
  BY DEF BlockedIsExcused, FirstExcessThrows
<1>3. ReclaimIsNegative'
  BY DEF ReclaimIsNegative, TypeOK
<1> QED
  BY <1>1, <1>2, <1>3

LEMMA SubInv == ASSUME IInv, NEW t \in Threads, Sub(t) PROVE IInv'
<1> USE ThreadsAssumption, NumbersAssumption DEF IInv, Sub, Managers
<1>1. TypeOK'
  BY DEF TypeOK, Places
<1>2. BlockedIsExcused'
  BY DEF BlockedIsExcused, TypeOK
<1>3. ReclaimIsNegative'
  BY DEF ReclaimIsNegative, TypeOK
<1>4. \A u \in Threads : Noticed(u) => Noticed(u)'
  BY DEF Noticed, Reached, TypeOK
<1>5. FirstExcessThrows'
  <2> SUFFICES ASSUME Reached(Global, memoryAmount[Global])', ~excused'
               PROVE  \E u \in Threads : Noticed(u)'
    BY DEF FirstExcessThrows
  <2>1. pc[t] = "sub"
    BY DEF Reached, TypeOK
  <2>2. reported[t] < 0 /\ reported[t] \in Int /\ memoryAmount[Global] \in Int
    BY <2>1 DEF ReclaimIsNegative, TypeOK
  <2>3. Reached(Global, memoryAmount[Global])
    BY <2>2 DEF Reached, TypeOK
  <2> QED
    BY <2>3, <1>4 DEF FirstExcessThrows
<1> QED
  BY <1>1, <1>2, <1>3, <1>5

-----------------------------------------------------------------------------
LEMMA NextInv == IInv /\ [Next]_vars => IInv'
<1> SUFFICES ASSUME IInv, [Next]_vars PROVE IInv'
  OBVIOUS
<1>1. ASSUME NEW l \in Limits, SetGlobalMemoryLimit(l) PROVE IInv'
  BY <1>1, LimitInv
<1>2. ASSUME NEW t \in Threads, Start(t) \/ End(t) \/ Sub(t) PROVE IInv'
  BY <1>2, StartInv, EndInv, SubInv
<1>3. ASSUME NEW t \in Threads, AddMemory(t) PROVE IInv'
  BY <1>3, AddInv, CompareInv, ClearInv, PassBlockedInv, FindUnblockedInv, SetBlockedInv,
     RefuseInv DEF AddMemory
<1>4. ASSUME NEW t \in Threads, NEW n \in Sizes,
             \/ AllocUntracked(t, n) \/ Report(t, n)
             \/ FreeUntracked(t, n) \/ Reclaim(t, n)
      PROVE  IInv'
  BY <1>4, AllocUntrackedInv, ReportInv, FreeUntrackedInv, ReclaimInv
<1>5. CASE UNCHANGED vars
  BY <1>5 DEF vars, IInv, TypeOK, BlockedIsExcused, ReclaimIsNegative, FirstExcessThrows,
     Reached, Noticed
<1> QED
  BY <1>1, <1>2, <1>3, <1>4, <1>5 DEF Next

\* The inductive invariant holds in every state of the accounting.
THEOREM Invariance == Spec => []IInv
<1>1. Init => IInv
  BY InitInv
<1>2. IInv /\ [Next]_vars => IInv'
  BY NextInv
<1> QED
  BY <1>1, <1>2, PTL DEF Spec

\* ReportMemoryUsage and ReclaimMemoryUsage leave no thread with more than the
\* threshold untracked, and every variable keeps its type.
THEOREM TypeCorrect == Spec => []TypeOK
<1>1. IInv => TypeOK
  BY DEF IInv
<1> QED
  BY <1>1, Invariance, PTL

\* Whatever the interleaving of AddMemory in the threads, the global amount does not
\* reach the limit for the first time unnoticed.
THEOREM FirstExcessIsThrown == Spec => []FirstExcessThrows
<1>1. IInv => FirstExcessThrows
  BY DEF IInv
<1> QED
  BY <1>1, Invariance, PTL

-----------------------------------------------------------------------------
(* The global amount is exact.                                              *)

Adding == {"add", "compare", "clear", "test", "set", "refuse"}

\* What is on its way between two steps of a thread: a block that is being allocated, and
\* a report, both from the step that begins a report until the one that takes it.
OnTheWay ==
  \A t \in Threads :
    /\ IF pc[t] \in Adding THEN size[t] \in Sizes ELSE size[t] = 0
    /\ pc[t] \notin {"add", "sub", "last"} => reported[t] = 0

Exact == GlobalIsExact /\ OnTheWay

Unreported == [t \in Threads |-> untracked[t] + reported[t]]
Blocks == [n \in Sizes |-> n * blocks[n]]

\* A step of one thread keeps the sums equal if it does so for the thread.
LEMMA OneThread ==
  ASSUME TypeOK, TypeOK', GlobalIsExact, NEW t \in Threads, NEW d \in Int,
         \A u \in Threads \ {t} : /\ untracked'[u] = untracked[u]
                                 /\ reported'[u] = reported[u] /\ size'[u] = size[u],
         Total(Blocks', Sizes) = Total(Blocks, Sizes) + d,
         memoryAmount'[Global] + untracked'[t] + reported'[t] - size'[t]
           = memoryAmount[Global] + untracked[t] + reported[t] - size[t] + d
  PROVE  GlobalIsExact'
<1> USE ThreadsAssumption, NumbersAssumption
<1>1. /\ \A u \in Threads : /\ untracked[u] \in Int /\ untracked'[u] \in Int
                            /\ reported[u] \in Int /\ reported'[u] \in Int
                            /\ size[u] \in Int /\ size'[u] \in Int
      /\ memoryAmount[Global] \in Int /\ memoryAmount'[Global] \in Int
      /\ \A n \in Sizes : Blocks[n] \in Int
  BY DEF TypeOK, Managers, Blocks
<1>2. Total(Unreported', Threads)
        = Total(Unreported, Threads) - (untracked[t] + reported[t]) + (untracked'[t] + reported'[t])
  <2>1. \A u \in Threads : Unreported[u] \in Int /\ Unreported'[u] \in Int
    BY <1>1 DEF Unreported
  <2>2. \A u \in Threads \ {t} : Unreported[u] = Unreported'[u]
    BY DEF Unreported
  <2> QED
    BY <2>1, <2>2, TotalOfChange DEF Unreported
<1>3. Total(size', Threads) = Total(size, Threads) - size[t] + size'[t]
  BY <1>1, TotalOfChange
<1>4. /\ Total(Unreported, Threads) \in Int /\ Total(size, Threads) \in Int
      /\ Total(Blocks, Sizes) \in Int
  <2>1. \A u \in Threads : Unreported[u] \in Int
    BY <1>1 DEF Unreported
  <2> QED
    BY <1>1, <2>1, TotalType
<1>5. memoryAmount[Global] + Total(Unreported, Threads) = Total(Blocks, Sizes) + Total(size, Threads)
  BY DEF GlobalIsExact, Unreported, Blocks
<1>6. memoryAmount'[Global] + Total(Unreported', Threads)
        = Total(Blocks', Sizes) + Total(size', Threads)
  BY <1>1, <1>2, <1>3, <1>4, <1>5
<1> QED
  BY <1>6 DEF GlobalIsExact, Unreported, Blocks

\* One block more, or one less, takes its size.
LEMMA OneBlock ==
  ASSUME TypeOK, NEW n \in Sizes, NEW k \in {-1, 1}, TypeOK', blocks' = [blocks EXCEPT ![n] = @ + k]
  PROVE  Total(Blocks', Sizes) = Total(Blocks, Sizes) + n * k
<1> USE NumbersAssumption
<1>1. \A m \in Sizes : m \in Int /\ blocks[m] \in Int /\ blocks'[m] \in Int
  BY DEF TypeOK
<1>2. \A m \in Sizes : Blocks[m] \in Int /\ Blocks'[m] \in Int
  BY <1>1 DEF Blocks
<1>3. \A m \in Sizes \ {n} : Blocks[m] = Blocks'[m]
  BY DEF Blocks, TypeOK
<1>4. Total(Blocks', Sizes) = Total(Blocks, Sizes) - Blocks[n] + Blocks'[n]
  <2> HIDE NumbersAssumption
  <2>1. ASSUME NEW f, NEW g, f = Blocks, g = Blocks'
        PROVE  Total(g, Sizes) = Total(f, Sizes) - f[n] + g[n]
    <3>1. IsFiniteSet(Sizes)
      BY NumbersAssumption
    <3>2. \A m \in Sizes : f[m] \in Int /\ g[m] \in Int
      BY <1>2, <2>1
    <3>3. \A m \in Sizes \ {n} : f[m] = g[m]
      BY <1>3, <2>1
    <3> QED
      BY <3>1, <3>2, <3>3, TotalOfChange
  <2> QED
    BY <2>1
<1>5. blocks'[n] = blocks[n] + k
  BY DEF TypeOK
<1>6. Total(Blocks, Sizes) \in Int
  BY <1>2, TotalType
<1> QED
  <2>1. Blocks[n] = n * blocks[n] /\ Blocks'[n] = n * (blocks[n] + k)
    BY <1>5 DEF Blocks
  <2>2. n * (blocks[n] + k) = n * blocks[n] + n * k
    BY <1>1
  <2>3. n * blocks[n] \in Int /\ n * k \in Int
    BY <1>1
  <2> QED
    BY <1>4, <1>6, <2>1, <2>2, <2>3

-----------------------------------------------------------------------------
\* Every step of a thread keeps what is counted and what there is in step.
LEMMA InitExact == Init => Exact
<1> SUFFICES ASSUME Init PROVE Exact
  OBVIOUS
<1> USE ThreadsAssumption, NumbersAssumption DEF Init
<1>1. OnTheWay
  BY DEF OnTheWay, Adding
<1>2. /\ \A u \in Threads : Unreported[u] = 0 /\ size[u] = 0
      /\ \A m \in Sizes : Blocks[m] = 0
  <2>1. \A m \in Sizes : m \in Nat /\ m * 0 = 0
    OBVIOUS
  <2> QED
    BY <2>1 DEF Unreported, Blocks
<1>3. Total(Unreported, Threads) = 0 /\ Total(size, Threads) = 0 /\ Total(Blocks, Sizes) = 0
  BY <1>2, TotalOfNone
<1>4. memoryAmount[Global] = 0
  BY DEF Managers
<1> QED
  BY <1>1, <1>3, <1>4 DEF Exact, GlobalIsExact, Unreported, Blocks

LEMMA NoBlock ==
  ASSUME TypeOK, TypeOK', Exact, UNCHANGED blocks, NEW t \in Threads,
         \A u \in Threads \ {t} : /\ untracked'[u] = untracked[u] /\ pc'[u] = pc[u]
                                 /\ reported'[u] = reported[u] /\ size'[u] = size[u],
         memoryAmount'[Global] + untracked'[t] + reported'[t] - size'[t]
           = memoryAmount[Global] + untracked[t] + reported[t] - size[t],
         IF pc'[t] \in Adding THEN size'[t] \in Sizes ELSE size'[t] = 0,
         pc'[t] \notin {"add", "sub", "last"} => reported'[t] = 0
  PROVE  Exact'
<1>1. Total(Blocks', Sizes) = Total(Blocks, Sizes) + 0
  <2>1. Blocks' = Blocks
    BY DEF Blocks
  <2>2. Total(Blocks, Sizes) \in Int
    <3>1. \A m \in Sizes : Blocks[m] \in Int
      BY NumbersAssumption DEF TypeOK, Blocks
    <3> QED
      BY <3>1, TotalType, NumbersAssumption
  <2> QED
    BY <2>1, <2>2
<1>2. memoryAmount'[Global] + untracked'[t] + reported'[t] - size'[t]
        = memoryAmount[Global] + untracked[t] + reported[t] - size[t] + 0
  BY ThreadsAssumption, NumbersAssumption DEF TypeOK, Managers
<1>3. GlobalIsExact'
  BY <1>1, <1>2, OneThread DEF Exact
<1> QED
  BY <1>3 DEF Exact, OnTheWay

LEMMA OneMoreBlock ==
  ASSUME TypeOK, TypeOK', Exact, NEW t \in Threads, NEW n \in Sizes, NEW k \in {-1, 1},
         blocks' = [blocks EXCEPT ![n] = @ + k],
         \A u \in Threads \ {t} : /\ untracked'[u] = untracked[u] /\ pc'[u] = pc[u]
                                 /\ reported'[u] = reported[u] /\ size'[u] = size[u],
         memoryAmount'[Global] + untracked'[t] + reported'[t] - size'[t]
           = memoryAmount[Global] + untracked[t] + reported[t] - size[t] + n * k,
         IF pc'[t] \in Adding THEN size'[t] \in Sizes ELSE size'[t] = 0,
         pc'[t] \notin {"add", "sub", "last"} => reported'[t] = 0
  PROVE  Exact'
<1>1. Total(Blocks', Sizes) = Total(Blocks, Sizes) + n * k
  BY OneBlock
<1>2. n * k \in Int
  BY NumbersAssumption
<1>3. GlobalIsExact'
  BY <1>1, <1>2, OneThread DEF Exact
<1> QED
  BY <1>3 DEF Exact, OnTheWay

LEMMA StartExact ==
  ASSUME IInv, IInv', Exact, NEW t \in Threads, Start(t) PROVE Exact'
<1> USE ThreadsAssumption, NumbersAssumption DEF Start, Managers, Adding
<1>1. TypeOK /\ TypeOK' /\ OnTheWay
  BY DEF IInv, Exact
<1>2. /\ pc'[t] \notin {"add", "sub", "last"} => reported'[t] = 0
      /\ IF pc'[t] \in Adding THEN size'[t] \in Sizes ELSE size'[t] = 0
  BY <1>1 DEF TypeOK, OnTheWay
<1>3. memoryAmount'[Global] + untracked'[t] + reported'[t] - size'[t]
        = memoryAmount[Global] + untracked[t] + reported[t] - size[t]
  BY <1>1 DEF TypeOK, OnTheWay
<1>4. /\ UNCHANGED blocks
      /\ \A u \in Threads \ {t} : /\ untracked'[u] = untracked[u] /\ pc'[u] = pc[u]
                                 /\ reported'[u] = reported[u] /\ size'[u] = size[u]
  BY <1>1 DEF TypeOK
<1> HIDE DEF Start
<1> QED
  BY <1>1, <1>2, <1>3, <1>4, NoBlock

LEMMA AddExact ==
  ASSUME IInv, IInv', Exact, NEW t \in Threads, Add(t) PROVE Exact'
<1> USE ThreadsAssumption, NumbersAssumption DEF Add, Managers, Adding
<1>1. TypeOK /\ TypeOK' /\ OnTheWay
  BY DEF IInv, Exact
<1>2. /\ pc'[t] \notin {"add", "sub", "last"} => reported'[t] = 0
      /\ IF pc'[t] \in Adding THEN size'[t] \in Sizes ELSE size'[t] = 0
  BY <1>1 DEF TypeOK, OnTheWay
<1>3. memoryAmount'[Global] + untracked'[t] + reported'[t] - size'[t]
        = memoryAmount[Global] + untracked[t] + reported[t] - size[t]
  BY <1>1 DEF TypeOK, OnTheWay
<1>4. /\ UNCHANGED blocks
      /\ \A u \in Threads \ {t} : /\ untracked'[u] = untracked[u] /\ pc'[u] = pc[u]
                                 /\ reported'[u] = reported[u] /\ size'[u] = size[u]
  BY <1>1 DEF TypeOK
<1> HIDE DEF Add
<1> QED
  BY <1>1, <1>2, <1>3, <1>4, NoBlock

LEMMA CompareExact ==
  ASSUME IInv, IInv', Exact, NEW t \in Threads, Compare(t) PROVE Exact'
<1> USE ThreadsAssumption, NumbersAssumption DEF Compare, Managers, Adding
<1>1. TypeOK /\ TypeOK' /\ OnTheWay
  BY DEF IInv, Exact
<1>2. /\ pc'[t] \notin {"add", "sub", "last"} => reported'[t] = 0
      /\ IF pc'[t] \in Adding THEN size'[t] \in Sizes ELSE size'[t] = 0
  BY <1>1 DEF TypeOK, OnTheWay
<1>3. memoryAmount'[Global] + untracked'[t] + reported'[t] - size'[t]
        = memoryAmount[Global] + untracked[t] + reported[t] - size[t]
  BY <1>1 DEF TypeOK, OnTheWay
<1>4. /\ UNCHANGED blocks
      /\ \A u \in Threads \ {t} : /\ untracked'[u] = untracked[u] /\ pc'[u] = pc[u]
                                 /\ reported'[u] = reported[u] /\ size'[u] = size[u]
  BY <1>1 DEF TypeOK
<1> HIDE DEF Compare
<1> QED
  BY <1>1, <1>2, <1>3, <1>4, NoBlock

LEMMA FindUnblockedExact ==
  ASSUME IInv, IInv', Exact, NEW t \in Threads, FindUnblocked(t) PROVE Exact'
<1> USE ThreadsAssumption, NumbersAssumption DEF FindUnblocked, Managers, Adding
<1>1. TypeOK /\ TypeOK' /\ OnTheWay
  BY DEF IInv, Exact
<1>2. /\ pc'[t] \notin {"add", "sub", "last"} => reported'[t] = 0
      /\ IF pc'[t] \in Adding THEN size'[t] \in Sizes ELSE size'[t] = 0
  BY <1>1 DEF TypeOK, OnTheWay
<1>3. memoryAmount'[Global] + untracked'[t] + reported'[t] - size'[t]
        = memoryAmount[Global] + untracked[t] + reported[t] - size[t]
  BY <1>1 DEF TypeOK, OnTheWay
<1>4. /\ UNCHANGED blocks
      /\ \A u \in Threads \ {t} : /\ untracked'[u] = untracked[u] /\ pc'[u] = pc[u]
                                 /\ reported'[u] = reported[u] /\ size'[u] = size[u]
  BY <1>1 DEF TypeOK
<1> HIDE DEF FindUnblocked
<1> QED
  BY <1>1, <1>2, <1>3, <1>4, NoBlock

LEMMA SetBlockedExact ==
  ASSUME IInv, IInv', Exact, NEW t \in Threads, SetBlocked(t) PROVE Exact'
<1> USE ThreadsAssumption, NumbersAssumption DEF SetBlocked, Managers, Adding
<1>1. TypeOK /\ TypeOK' /\ OnTheWay
  BY DEF IInv, Exact
<1>2. /\ pc'[t] \notin {"add", "sub", "last"} => reported'[t] = 0
      /\ IF pc'[t] \in Adding THEN size'[t] \in Sizes ELSE size'[t] = 0
  BY <1>1 DEF TypeOK, OnTheWay
<1>3. memoryAmount'[Global] + untracked'[t] + reported'[t] - size'[t]
        = memoryAmount[Global] + untracked[t] + reported[t] - size[t]
  BY <1>1 DEF TypeOK, OnTheWay
<1>4. /\ UNCHANGED blocks
      /\ \A u \in Threads \ {t} : /\ untracked'[u] = untracked[u] /\ pc'[u] = pc[u]
                                 /\ reported'[u] = reported[u] /\ size'[u] = size[u]
  BY <1>1 DEF TypeOK
<1> HIDE DEF SetBlocked
<1> QED
  BY <1>1, <1>2, <1>3, <1>4, NoBlock

LEMMA RefuseExact ==
  ASSUME IInv, IInv', Exact, NEW t \in Threads, Refuse(t) PROVE Exact'
<1> USE ThreadsAssumption, NumbersAssumption DEF Refuse, Managers, Adding
<1>1. TypeOK /\ TypeOK' /\ OnTheWay
  BY DEF IInv, Exact
<1>2. /\ pc'[t] \notin {"add", "sub", "last"} => reported'[t] = 0
      /\ IF pc'[t] \in Adding THEN size'[t] \in Sizes ELSE size'[t] = 0
  BY <1>1 DEF TypeOK, OnTheWay
<1>3. memoryAmount'[Global] + untracked'[t] + reported'[t] - size'[t]
        = memoryAmount[Global] + untracked[t] + reported[t] - size[t]
  BY <1>1 DEF TypeOK, OnTheWay
<1>4. /\ UNCHANGED blocks
      /\ \A u \in Threads \ {t} : /\ untracked'[u] = untracked[u] /\ pc'[u] = pc[u]
                                 /\ reported'[u] = reported[u] /\ size'[u] = size[u]
  BY <1>1 DEF TypeOK
<1> HIDE DEF Refuse
<1> QED
  BY <1>1, <1>2, <1>3, <1>4, NoBlock

LEMMA EndExact ==
  ASSUME IInv, IInv', Exact, NEW t \in Threads, End(t) PROVE Exact'
<1> USE ThreadsAssumption, NumbersAssumption DEF End, Managers, Adding
<1>1. TypeOK /\ TypeOK' /\ OnTheWay
  BY DEF IInv, Exact
<1>2. /\ pc'[t] \notin {"add", "sub", "last"} => reported'[t] = 0
      /\ IF pc'[t] \in Adding THEN size'[t] \in Sizes ELSE size'[t] = 0
  BY <1>1 DEF TypeOK, OnTheWay
<1>3. memoryAmount'[Global] + untracked'[t] + reported'[t] - size'[t]
        = memoryAmount[Global] + untracked[t] + reported[t] - size[t]
  BY <1>1 DEF TypeOK, OnTheWay
<1>4. /\ UNCHANGED blocks
      /\ \A u \in Threads \ {t} : /\ untracked'[u] = untracked[u] /\ pc'[u] = pc[u]
                                 /\ reported'[u] = reported[u] /\ size'[u] = size[u]
  BY <1>1 DEF TypeOK
<1> HIDE DEF End
<1> QED
  BY <1>1, <1>2, <1>3, <1>4, NoBlock

LEMMA SubExact ==
  ASSUME IInv, IInv', Exact, NEW t \in Threads, Sub(t) PROVE Exact'
<1> USE ThreadsAssumption, NumbersAssumption DEF Sub, Managers, Adding
<1>1. TypeOK /\ TypeOK' /\ OnTheWay
  BY DEF IInv, Exact
<1>2. /\ pc'[t] \notin {"add", "sub", "last"} => reported'[t] = 0
      /\ IF pc'[t] \in Adding THEN size'[t] \in Sizes ELSE size'[t] = 0
  BY <1>1 DEF TypeOK, OnTheWay
<1>3. memoryAmount'[Global] + untracked'[t] + reported'[t] - size'[t]
        = memoryAmount[Global] + untracked[t] + reported[t] - size[t]
  BY <1>1 DEF TypeOK, OnTheWay
<1>4. /\ UNCHANGED blocks
      /\ \A u \in Threads \ {t} : /\ untracked'[u] = untracked[u] /\ pc'[u] = pc[u]
                                 /\ reported'[u] = reported[u] /\ size'[u] = size[u]
  BY <1>1 DEF TypeOK
<1> HIDE DEF Sub
<1> QED
  BY <1>1, <1>2, <1>3, <1>4, NoBlock

LEMMA ReportExact ==
  ASSUME IInv, IInv', Exact, NEW t \in Threads, NEW n \in Sizes, Report(t, n) PROVE Exact'
<1> USE ThreadsAssumption, NumbersAssumption DEF Report, Alloc, Managers, Adding
<1>1. TypeOK /\ TypeOK' /\ OnTheWay
  BY DEF IInv, Exact
<1>2. /\ pc'[t] \notin {"add", "sub", "last"} => reported'[t] = 0
      /\ IF pc'[t] \in Adding THEN size'[t] \in Sizes ELSE size'[t] = 0
  BY <1>1 DEF TypeOK, OnTheWay
<1>3. memoryAmount'[Global] + untracked'[t] + reported'[t] - size'[t]
        = memoryAmount[Global] + untracked[t] + reported[t] - size[t]
  <2>1. memoryAmount'[Global] = memoryAmount[Global]
    BY <1>1 DEF TypeOK
  <2>2. size[t] = 0 /\ reported[t] = 0
    BY <1>1 DEF OnTheWay
  <2>3. untracked'[t] = 0 /\ reported'[t] = untracked[t] + n /\ size'[t] = n
    BY <1>1 DEF TypeOK
  <2>4. memoryAmount[Global] \in Int /\ untracked[t] \in Int /\ n \in Int
    BY <1>1 DEF TypeOK
  <2> HIDE DEF Report, Alloc
  <2> QED
    BY <2>1, <2>2, <2>3, <2>4
<1>4. /\ UNCHANGED blocks
      /\ \A u \in Threads \ {t} : /\ untracked'[u] = untracked[u] /\ pc'[u] = pc[u]
                                 /\ reported'[u] = reported[u] /\ size'[u] = size[u]
  BY <1>1 DEF TypeOK
<1> HIDE DEF Report, Alloc
<1> QED
  BY <1>1, <1>2, <1>3, <1>4, NoBlock

LEMMA AllocUntrackedExact ==
  ASSUME IInv, IInv', Exact, NEW t \in Threads, NEW n \in Sizes, AllocUntracked(t, n) PROVE Exact'
<1> USE ThreadsAssumption, NumbersAssumption DEF AllocUntracked, Alloc, Allocate, Managers, Adding
<1>1. TypeOK /\ TypeOK' /\ OnTheWay
  BY DEF IInv, Exact
<1>2. /\ pc'[t] \notin {"add", "sub", "last"} => reported'[t] = 0
      /\ IF pc'[t] \in Adding THEN size'[t] \in Sizes ELSE size'[t] = 0
  BY <1>1 DEF TypeOK, OnTheWay
<1>3. memoryAmount'[Global] + untracked'[t] + reported'[t] - size'[t]
        = memoryAmount[Global] + untracked[t] + reported[t] - size[t] + n * (1)
  BY <1>1 DEF TypeOK, OnTheWay
<1>4. /\ n \in Sizes /\ blocks' = [blocks EXCEPT ![n] = @ + (1)]
      /\ \A u \in Threads \ {t} : /\ untracked'[u] = untracked[u] /\ pc'[u] = pc[u]
                                 /\ reported'[u] = reported[u] /\ size'[u] = size[u]
  BY <1>1 DEF TypeOK, OnTheWay
<1> HIDE DEF AllocUntracked, Alloc, Allocate
<1> QED
  BY <1>1, <1>2, <1>3, <1>4, OneMoreBlock

LEMMA FreeUntrackedExact ==
  ASSUME IInv, IInv', Exact, NEW t \in Threads, NEW n \in Sizes, FreeUntracked(t, n) PROVE Exact'
<1> USE ThreadsAssumption, NumbersAssumption DEF FreeUntracked, Release, Managers, Adding
<1>1. TypeOK /\ TypeOK' /\ OnTheWay
  BY DEF IInv, Exact
<1>2. /\ pc'[t] \notin {"add", "sub", "last"} => reported'[t] = 0
      /\ IF pc'[t] \in Adding THEN size'[t] \in Sizes ELSE size'[t] = 0
  BY <1>1 DEF TypeOK, OnTheWay
<1>3. memoryAmount'[Global] + untracked'[t] + reported'[t] - size'[t]
        = memoryAmount[Global] + untracked[t] + reported[t] - size[t] + n * (-1)
  BY <1>1 DEF TypeOK, OnTheWay
<1>4. /\ n \in Sizes /\ blocks' = [blocks EXCEPT ![n] = @ + (-1)]
      /\ \A u \in Threads \ {t} : /\ untracked'[u] = untracked[u] /\ pc'[u] = pc[u]
                                 /\ reported'[u] = reported[u] /\ size'[u] = size[u]
  BY <1>1 DEF TypeOK, OnTheWay
<1> HIDE DEF FreeUntracked, Release
<1> QED
  BY <1>1, <1>2, <1>3, <1>4, OneMoreBlock

LEMMA ReclaimExact ==
  ASSUME IInv, IInv', Exact, NEW t \in Threads, NEW n \in Sizes, Reclaim(t, n) PROVE Exact'
<1> USE ThreadsAssumption, NumbersAssumption DEF Reclaim, Release, Managers, Adding
<1>1. TypeOK /\ TypeOK' /\ OnTheWay
  BY DEF IInv, Exact
<1>2. /\ pc'[t] \notin {"add", "sub", "last"} => reported'[t] = 0
      /\ IF pc'[t] \in Adding THEN size'[t] \in Sizes ELSE size'[t] = 0
  BY <1>1 DEF TypeOK, OnTheWay
<1>3. memoryAmount'[Global] + untracked'[t] + reported'[t] - size'[t]
        = memoryAmount[Global] + untracked[t] + reported[t] - size[t] + n * (-1)
  BY <1>1 DEF TypeOK, OnTheWay
<1>4. /\ n \in Sizes /\ blocks' = [blocks EXCEPT ![n] = @ + (-1)]
      /\ \A u \in Threads \ {t} : /\ untracked'[u] = untracked[u] /\ pc'[u] = pc[u]
                                 /\ reported'[u] = reported[u] /\ size'[u] = size[u]
  BY <1>1 DEF TypeOK, OnTheWay
<1> HIDE DEF Reclaim, Release
<1> QED
  BY <1>1, <1>2, <1>3, <1>4, OneMoreBlock

LEMMA ClearExact ==
  ASSUME IInv, IInv', Exact, NEW t \in Threads, Clear(t) PROVE Exact'
<1> USE ThreadsAssumption, NumbersAssumption DEF Clear, Accept, Allocate, Managers, Adding
<1>1. TypeOK /\ TypeOK' /\ OnTheWay
  BY DEF IInv, Exact
<1>2. /\ pc'[t] \notin {"add", "sub", "last"} => reported'[t] = 0
      /\ IF pc'[t] \in Adding THEN size'[t] \in Sizes ELSE size'[t] = 0
  BY <1>1 DEF TypeOK, OnTheWay
<1>3. memoryAmount'[Global] + untracked'[t] + reported'[t] - size'[t]
        = memoryAmount[Global] + untracked[t] + reported[t] - size[t] + size[t] * (1)
  BY <1>1 DEF TypeOK, OnTheWay
<1>4. /\ size[t] \in Sizes /\ blocks' = [blocks EXCEPT ![size[t]] = @ + (1)]
      /\ \A u \in Threads \ {t} : /\ untracked'[u] = untracked[u] /\ pc'[u] = pc[u]
                                 /\ reported'[u] = reported[u] /\ size'[u] = size[u]
  BY <1>1 DEF TypeOK, OnTheWay
<1> HIDE DEF Clear, Accept, Allocate
<1> QED
  BY <1>1, <1>2, <1>3, <1>4, OneMoreBlock

LEMMA PassBlockedExact ==
  ASSUME IInv, IInv', Exact, NEW t \in Threads, PassBlocked(t) PROVE Exact'
<1> USE ThreadsAssumption, NumbersAssumption DEF PassBlocked, Accept, Allocate, Managers, Adding
<1>1. TypeOK /\ TypeOK' /\ OnTheWay
  BY DEF IInv, Exact
<1>2. /\ pc'[t] \notin {"add", "sub", "last"} => reported'[t] = 0
      /\ IF pc'[t] \in Adding THEN size'[t] \in Sizes ELSE size'[t] = 0
  BY <1>1 DEF TypeOK, OnTheWay
<1>3. memoryAmount'[Global] + untracked'[t] + reported'[t] - size'[t]
        = memoryAmount[Global] + untracked[t] + reported[t] - size[t] + size[t] * (1)
  BY <1>1 DEF TypeOK, OnTheWay
<1>4. /\ size[t] \in Sizes /\ blocks' = [blocks EXCEPT ![size[t]] = @ + (1)]
      /\ \A u \in Threads \ {t} : /\ untracked'[u] = untracked[u] /\ pc'[u] = pc[u]
                                 /\ reported'[u] = reported[u] /\ size'[u] = size[u]
  BY <1>1 DEF TypeOK, OnTheWay
<1> HIDE DEF PassBlocked, Accept, Allocate
<1> QED
  BY <1>1, <1>2, <1>3, <1>4, OneMoreBlock

LEMMA NextExact == IInv /\ IInv' /\ Exact /\ [Next]_vars => Exact'
<1> SUFFICES ASSUME IInv, IInv', Exact, [Next]_vars PROVE Exact'
  OBVIOUS
<1>1. ASSUME NEW l \in Limits, SetGlobalMemoryLimit(l) PROVE Exact'
  BY <1>1 DEF SetGlobalMemoryLimit, Exact, OnTheWay, GlobalIsExact
<1>2. ASSUME NEW t \in Threads, Start(t) \/ End(t) \/ Sub(t) PROVE Exact'
  BY <1>2, StartExact, EndExact, SubExact
<1>3. ASSUME NEW t \in Threads, AddMemory(t) PROVE Exact'
  BY <1>3, AddExact, CompareExact, ClearExact, PassBlockedExact, FindUnblockedExact,
     SetBlockedExact, RefuseExact DEF AddMemory
<1>4. ASSUME NEW t \in Threads, NEW n \in Sizes,
             \/ AllocUntracked(t, n) \/ Report(t, n)
             \/ FreeUntracked(t, n) \/ Reclaim(t, n)
      PROVE  Exact'
  BY <1>4, AllocUntrackedExact, ReportExact, FreeUntrackedExact, ReclaimExact
<1>5. CASE UNCHANGED vars
  BY <1>5 DEF vars, Exact, OnTheWay, GlobalIsExact
<1> QED
  BY <1>1, <1>2, <1>3, <1>4, <1>5 DEF Next

\* No report is lost or counted twice and a refused allocation leaves no trace, however many
\* threads allocate, free and end, and whatever they are in the middle of.
THEOREM GlobalAmountIsExact == Spec => []GlobalIsExact
<1>1. Init => Exact
  BY InitExact
<1>2. IInv /\ IInv' /\ Exact /\ [Next]_vars => Exact'
  BY NextExact
<1>3. Exact => GlobalIsExact
  BY DEF Exact
<1> QED
  BY <1>1, <1>2, <1>3, Invariance, PTL DEF Spec
=============================================================================
