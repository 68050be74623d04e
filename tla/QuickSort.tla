------------------------------- MODULE QuickSort -------------------------------
(***************************************************************************)
(* QuickSort of hw14: each partition hands its two halves to a fixed pool   *)
(* of threads.  A semaphore counts the tasks: a permit is taken before a    *)
(* task is submitted and given back when it is done, and the caller waits   *)
(* for all maxTaskCount permits at once.  The semaphore is not fair: a       *)
(* thread that finds enough permits takes them past those that wait, while  *)
(* those that wait are served in their order, the first one's whole demand  *)
(* before anyone behind it.  Indices count from 1.                          *)
(***************************************************************************)
EXTENDS Integers, Sequences, FiniteSets

CONSTANTS
  Values,       \* what the lists are made of: integers, in the order of comp
  Lengths,      \* and how long they are
  EqualLengths, \* and how long those of equal elements alone are
  Workers,      \* threads of the pool
  Caller,       \* the thread that calls quickSort
  Threshold     \* INSERTION_SORT_THRESHOLD

ASSUME ListsAssumption ==
  Values \subseteq Int /\ Lengths \cup EqualLengths \subseteq Nat
ASSUME ThreadsAssumption == Caller \notin Workers /\ Workers # {} /\ IsFiniteSet(Workers)
ASSUME ThresholdAssumption == Threshold \in Nat

VARIABLES
  lst,      \* the list
  permits,  \* taskCountSemaphore
  waiting,  \* threads parked in its queue, first come first
  tasks,    \* the queue of the executor: ranges to be sorted
  thread,   \* where each thread is, in which range, and its pivot's place
  input     \* history: the list as it was given

vars == <<lst, permits, waiting, tasks, thread, input>>

Lists == {[i \in 1..n |-> v] : n \in EqualLengths, v \in Values}
           \cup (UNION {[1..n -> Values] : n \in Lengths})
Threads == Workers \cup {Caller}
N == Len(input)

getMaxTaskCount(n) == IF n > Threshold THEN n + 2 - Threshold ELSE 0
maxTaskCount == getMaxTaskCount(N)

(* isTrimTerminalRecursion, acquireTask and execute twice, then the release of *)
(* a task or the caller's awaitThreadExecutionFinished.                         *)
Steps == {"idle", "sort", "acquireLeft", "executeLeft", "acquireRight",
          "executeRight", "release", "await", "done"}

Ranges == [low : 1..(N + 1), high : 0..N]
NoRange == [low |-> 1, high |-> 0]
NoTask == [at |-> "idle", range |-> NoRange, pivot |-> 1]

TypeOK ==
  /\ input \in Lists
  /\ lst \in [1..N -> {input[i] : i \in 1..N}]
  /\ permits \in 0..maxTaskCount
  /\ waiting \in Seq(Threads)
  /\ tasks \in Seq(Ranges)
  /\ thread \in [Threads -> [at : Steps, range : Ranges, pivot : 1..(N + 1)]]

Init ==
  /\ input \in Lists
  /\ lst = input
  /\ permits = maxTaskCount
  /\ waiting = <<>>
  /\ tasks = <<>>
  /\ thread = [t \in Threads |->
                 IF t = Caller
                   THEN [NoTask EXCEPT !.at = "sort", !.range.high = N]
                   ELSE NoTask]

-----------------------------------------------------------------------------
(* The list. *)

swap(l, i, j) == [l EXCEPT ![i] = l[j], ![j] = l[i]]

(* The pivot stands at high: what is not greater goes to the front. *)
partition(l, low, high) ==
  LET scan[j \in (low - 1)..(high - 1)] ==
        IF j = low - 1 THEN [lst |-> l, i |-> low - 1]
        ELSE LET s == scan[j - 1] IN
             IF s.lst[j] <= l[high]
               THEN [lst |-> swap(s.lst, s.i + 1, j), i |-> s.i + 1]
               ELSE s
      s == scan[high - 1]
  IN [lst |-> swap(s.lst, s.i + 1, high), at |-> s.i + 1]

(* getPivotElement: nextInt(high - low) + low is never high itself. *)
randomPartitions(l, low, high) ==
  {partition(swap(l, p, high), low, high) : p \in low..(high - 1)}

(* Element i goes down to where it belongs among the sorted ones below it. *)
insert(l, low, i) ==
  LET p == low + Cardinality({k \in low..(i - 1) : l[k] <= l[i]})
  IN [k \in 1..N |-> IF k < p \/ k > i THEN l[k]
                     ELSE IF k = p THEN l[i] ELSE l[k - 1]]

(* Mutant: the upper bound taken as exclusive, as the comment has it. *)
insertionSort_exclusive(l, low, high) ==
  LET sorted[i \in low..(high - 1)] ==
        IF i = low THEN l ELSE insert(sorted[i - 1], low, i)
  IN IF low >= high THEN l ELSE sorted[high - 1]

insertionSort(l, low, high) ==
  LET sorted[i \in low..high] ==
        IF i = low THEN l ELSE insert(sorted[i - 1], low, i)
  IN IF low > high THEN l ELSE sorted[high]

-----------------------------------------------------------------------------
(* Threads. *)

at(t) == thread[t].at
range(t) == thread[t].range
goto(t, step) == thread' = [thread EXCEPT ![t].at = step]

Left(t) == [low |-> range(t).low, high |-> thread[t].pivot - 1]
Right(t) == [low |-> thread[t].pivot + 1, high |-> range(t).high]

(* Mutant: the permit of a task is given back when the task is taken over. *)
TakeTask_release(w) ==
  /\ at(w) = "idle"
  /\ tasks # <<>>
  /\ thread' = [thread EXCEPT ![w].at = "sort", ![w].range = Head(tasks)]
  /\ tasks' = Tail(tasks)
  /\ permits' = permits + 1
  /\ UNCHANGED <<lst, waiting, input>>

(* A thread of the pool takes the next task. *)
TakeTask(w) ==
  /\ at(w) = "idle"
  /\ tasks # <<>>
  /\ thread' = [thread EXCEPT ![w].at = "sort", ![w].range = Head(tasks)]
  /\ tasks' = Tail(tasks)
  /\ UNCHANGED <<lst, permits, waiting, input>>

afterSort(t) == IF t = Caller THEN "await" ELSE "release"

(* A short range is sorted at once. *)
TrimTerminalRecursion(t) ==
  /\ at(t) = "sort"
  /\ range(t).high - range(t).low <= Threshold
  /\ lst' = insertionSort(lst, range(t).low, range(t).high)
  /\ goto(t, afterSort(t))
  /\ UNCHANGED <<permits, waiting, tasks, input>>

RandomPartition(t) ==
  /\ at(t) = "sort"
  /\ range(t).high - range(t).low > Threshold
  /\ \E p \in randomPartitions(lst, range(t).low, range(t).high) :
       /\ lst' = p.lst
       /\ thread' = [thread EXCEPT ![t].at = "acquireLeft", ![t].pivot = p.at]
  /\ UNCHANGED <<permits, waiting, tasks, input>>

-----------------------------------------------------------------------------
(* The semaphore. *)

Acquiring == {"acquireLeft", "acquireRight", "await"}
demand(t) == IF at(t) = "await" THEN maxTaskCount ELSE 1
granted(step) == CASE step = "acquireLeft" -> "executeLeft"
                   [] step = "acquireRight" -> "executeRight"
                   [] step = "await" -> "done"
Waits(t) == \E i \in 1..Len(waiting) : waiting[i] = t

(* acquire: enough permits are taken at once, or the thread is parked.  With a *)
(* maxTaskCount of 0 there is no semaphore and nothing to wait for.             *)
Acquire(t) ==
  /\ at(t) \in Acquiring
  /\ ~Waits(t)
  /\ permits >= demand(t)
  /\ permits' = permits - demand(t)
  /\ goto(t, granted(at(t)))
  /\ UNCHANGED <<lst, waiting, tasks, input>>

Park(t) ==
  /\ at(t) \in Acquiring
  /\ ~Waits(t)
  /\ permits < demand(t)
  /\ waiting' = Append(waiting, t)
  /\ UNCHANGED <<lst, permits, tasks, thread, input>>

(* The first of those that wait is woken and served when there is enough. *)
Unpark(t) ==
  /\ waiting # <<>> /\ Head(waiting) = t
  /\ permits >= demand(t)
  /\ permits' = permits - demand(t)
  /\ waiting' = Tail(waiting)
  /\ goto(t, granted(at(t)))
  /\ UNCHANGED <<lst, tasks, input>>

(* Mutant: both tasks are given the part on the left. *)
Execute_left(t) ==
  /\ at(t) \in {"executeLeft", "executeRight"}
  /\ tasks' = Append(tasks, Left(t))
  /\ goto(t, IF at(t) = "executeLeft" THEN "acquireRight" ELSE afterSort(t))
  /\ UNCHANGED <<lst, permits, waiting, input>>

Execute(t) ==
  /\ at(t) \in {"executeLeft", "executeRight"}
  /\ tasks' = Append(tasks, IF at(t) = "executeLeft" THEN Left(t) ELSE Right(t))
  /\ goto(t, IF at(t) = "executeLeft" THEN "acquireRight" ELSE afterSort(t))
  /\ UNCHANGED <<lst, permits, waiting, input>>

(* Mutant: the permit is not given back. *)
Release_lost(w) ==
  /\ at(w) = "release"
  /\ thread' = [thread EXCEPT ![w] = NoTask]
  /\ UNCHANGED <<lst, permits, waiting, tasks, input>>

(* withReleaseTask *)
Release(w) ==
  /\ at(w) = "release"
  /\ permits' = permits + 1
  /\ thread' = [thread EXCEPT ![w] = NoTask]
  /\ UNCHANGED <<lst, waiting, tasks, input>>

Step(t) ==
  \/ t \in Workers /\ TakeTask(t)
  \/ TrimTerminalRecursion(t) \/ RandomPartition(t)
  \/ Acquire(t) \/ Park(t) \/ Unpark(t) \/ Execute(t) \/ Release(t)

(* quickSort has returned; the pool, never shut down, waits for more. *)
Returned == at(Caller) = "done" /\ UNCHANGED vars

Next == (\E t \in Threads : Step(t)) \/ Returned

SafetySpec == Init /\ [][Next]_vars
Spec == SafetySpec /\ \A t \in Threads : WF_vars(Step(t))

-----------------------------------------------------------------------------
(* Properties. *)

(* The ranges that are still to be sorted: queued, in a thread's hands, or     *)
(* parts of a partition that are not submitted yet.                            *)
ToSort(t) ==
  CASE at(t) = "sort" -> {range(t)}
    [] at(t) \in {"acquireLeft", "executeLeft"} -> {Left(t), Right(t)}
    [] at(t) \in {"acquireRight", "executeRight"} -> {Right(t)}
    [] OTHER -> {}
Claims ==
  {<<i, tasks[i]>> : i \in 1..Len(tasks)} \cup UNION {{t} \X ToSort(t) : t \in Threads}
Pending == {c[2] : c \in Claims}

Within(i, r) == r.low <= i /\ i <= r.high

(* No lock guards the list: the threads sort side by side because no two of    *)
(* the ranges meet, whoever holds them, and no task is handed out twice.        *)
RangesDisjoint ==
  \A c, d \in Claims : c # d => ~\E i \in 1..N : Within(i, c[2]) /\ Within(i, d[2])

(* Whatever order the tasks run in, two elements that no pending range holds   *)
(* together are already in their order.                                         *)
OrderedAcrossRanges ==
  \A i, j \in 1..N :
    i < j /\ ~(\E r \in Pending : Within(i, r) /\ Within(j, r)) => lst[i] <= lst[j]

(* quickSort returns only when the list is sorted: the caller cannot collect   *)
(* maxTaskCount permits while a task is queued, running or still to come.       *)
SortedWhenReturned ==
  at(Caller) = "done" =>
    /\ \A i \in 1..(N - 1) : lst[i] <= lst[i + 1]
    /\ \A v \in {input[i] : i \in 1..N} :
         Cardinality({i \in 1..N : lst[i] = v}) =
         Cardinality({i \in 1..N : input[i] = v})

(* awaitThreadExecutionFinished comes back once the tasks are done. *)
Returns == <>(at(Caller) = "done")

(* A thread of the pool is parked behind the caller, which asks for every permit and   *)
(* so is not to be passed by anyone parked after it.                                   *)
BehindCaller ==
  /\ at(Caller) = "await"
  /\ \E i, j \in 1..Len(waiting) : i < j /\ waiting[i] = Caller

(* That is the only way for quickSort not to return: threads that run out of permits    *)
(* before the caller asks for all of them are served by the tasks that others end, and  *)
(* the caller has all of them in the end unless one is kept by a thread parked behind.  *)
ReturnsOrBlocked == <>(at(Caller) = "done") \/ <>[]BehindCaller

(* The tasks divide the list: one thread in a range, and every range in its place.      *)
RangesInOrder == TypeOK /\ RangesDisjoint /\ OrderedAcrossRanges
=============================================================================
