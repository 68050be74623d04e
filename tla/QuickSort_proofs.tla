--------------------------- MODULE QuickSort_proofs ---------------------------
(***************************************************************************)
(* Proofs about QuickSort for lists of any lengths over any integers, any    *)
(* finite pool and every threshold.                                         *)
(***************************************************************************)
EXTENDS QuickSort, FiniteSetTheorems, TLAPS

(* Induction over an interval, for the numbers of a set. *)
LEMMA IntervalInduction ==
  ASSUME NEW a \in Int, NEW b \in Int, NEW S, a <= b, a \in S,
         \A j \in a..(b - 1) : j \in S => j + 1 \in S
  PROVE  \A j \in a..b : j \in S
<1> SUFFICES ASSUME {n \in Nat : a + n <= b /\ a + n \notin S} # {}
             PROVE  FALSE
  <2>1. ASSUME NEW j \in a..b, j \notin S
        PROVE  j - a \in {n \in Nat : a + n <= b /\ a + n \notin S}
    BY <2>1
  <2> QED BY <2>1
<1> DEFINE T == {n \in Nat : a + n <= b /\ a + n \notin S}
           R == {ss \in Nat \X Nat : ss[1] < ss[2]}
<1>1. IsWellFoundedOn(R, Nat)
  BY NatLessThanWellFounded DEF OpToRel
<1>2. \A k, n \in Nat : k < n => <<k, n>> \in R
  OBVIOUS
<1> HIDE DEF R
<1>3. PICK m \in T : \A k \in T : ~ (<<k, m>> \in R)
  BY <1>1, WFMin
<1>4. m # 0
  BY <1>3
<1>5. m - 1 \in Nat /\ m - 1 \notin T
  <2>1. m \in Nat /\ m - 1 \in Nat /\ m - 1 < m
    BY <1>4
  <2>2. <<m - 1, m>> \in R
    BY <1>2, <2>1
  <2> QED BY <1>3, <2>1, <2>2
<1>6. a + (m - 1) \in a..(b - 1) /\ a + (m - 1) \in S
  BY <1>3, <1>5
<1> QED BY <1>3, <1>6

-----------------------------------------------------------------------------
(* What has been moved, and only between low and high. *)
Rearranged(n, l, m, low, high) ==
  \E f \in [1..n -> 1..n] :
    /\ \A i, j \in 1..n : f[i] = f[j] => i = j
    /\ \A j \in 1..n : \E i \in 1..n : f[i] = j
    /\ \A i \in 1..n : i < low \/ i > high => f[i] = i
    /\ \A i \in 1..n : m[i] = l[f[i]]

(* A list that is left alone is rearranged, trivially. *)
LEMMA RearrangedSelf ==
  ASSUME NEW n, NEW l, NEW low, NEW high
  PROVE  Rearranged(n, l, l, low, high)
<1> DEFINE f == [i \in 1..n |-> i]
<1>1. f \in [1..n -> 1..n] /\ \A i \in 1..n : f[i] = i
  OBVIOUS
<1> HIDE DEF f
<1> QED BY <1>1 DEF Rearranged

(* What is rearranged and rearranged again is a rearrangement of the first. *)
LEMMA RearrangedTwice ==
  ASSUME NEW n \in Nat, NEW l, NEW m, NEW k, NEW low, NEW high,
         Rearranged(n, l, m, low, high), Rearranged(n, m, k, low, high)
  PROVE  Rearranged(n, l, k, low, high)
<1>1. PICK f \in [1..n -> 1..n] :
        /\ \A i, j \in 1..n : f[i] = f[j] => i = j
        /\ \A j \in 1..n : \E i \in 1..n : f[i] = j
        /\ \A i \in 1..n : i < low \/ i > high => f[i] = i
        /\ \A i \in 1..n : m[i] = l[f[i]]
  BY DEF Rearranged
<1>2. PICK g \in [1..n -> 1..n] :
        /\ \A i, j \in 1..n : g[i] = g[j] => i = j
        /\ \A j \in 1..n : \E i \in 1..n : g[i] = j
        /\ \A i \in 1..n : i < low \/ i > high => g[i] = i
        /\ \A i \in 1..n : k[i] = m[g[i]]
  BY DEF Rearranged
<1> DEFINE h == [i \in 1..n |-> f[g[i]]]
<1>3. h \in [1..n -> 1..n] /\ \A i \in 1..n : h[i] = f[g[i]] /\ g[i] \in 1..n
  OBVIOUS
<1> HIDE DEF h
<1>4. ASSUME NEW i \in 1..n, NEW j \in 1..n, h[i] = h[j]
      PROVE  i = j
  <2>1. g[i] \in 1..n /\ g[j] \in 1..n /\ f[g[i]] = f[g[j]]
    BY <1>3, <1>4
  <2>2. g[i] = g[j]
    BY <1>1, <2>1
  <2> QED BY <1>2, <2>2
<1>5. \A j \in 1..n : \E i \in 1..n : h[i] = j
  <2> TAKE j \in 1..n
  <2>1. PICK a \in 1..n : f[a] = j
    BY <1>1
  <2>2. PICK i \in 1..n : g[i] = a
    BY <1>2
  <2> QED BY <1>3, <2>1, <2>2
<1>6. \A i \in 1..n : i < low \/ i > high => h[i] = i
  BY <1>1, <1>2, <1>3
<1>7. ASSUME NEW i \in 1..n PROVE k[i] = l[h[i]]
  <2>1. g[i] \in 1..n /\ k[i] = m[g[i]] /\ h[i] = f[g[i]]
    BY <1>2, <1>3
  <2> QED BY <1>1, <2>1
<1> QED BY <1>3, <1>4, <1>5, <1>6, <1>7 DEF Rearranged

(* What stays between two places stays between two that are further apart. *)
LEMMA RearrangedWider ==
  ASSUME NEW n \in Nat, NEW l, NEW m, NEW low \in Int, NEW high \in Int,
         NEW low1 \in Int, NEW high1 \in Int, low1 <= low, high <= high1,
         Rearranged(n, l, m, low, high)
  PROVE  Rearranged(n, l, m, low1, high1)
<1>1. PICK f \in [1..n -> 1..n] :
        /\ \A i, j \in 1..n : f[i] = f[j] => i = j
        /\ \A j \in 1..n : \E i \in 1..n : f[i] = j
        /\ \A i \in 1..n : i < low \/ i > high => f[i] = i
        /\ \A i \in 1..n : m[i] = l[f[i]]
  BY DEF Rearranged
<1>2. \A i \in 1..n : i < low1 \/ i > high1 => f[i] = i
  BY <1>1
<1> QED BY <1>1, <1>2 DEF Rearranged

(* What is in the range after it was there before. *)
LEMMA RearrangedWithin ==
  ASSUME NEW n \in Nat, NEW l, NEW m, NEW low \in Int, NEW high \in Int,
         Rearranged(n, l, m, low, high)
  PROVE  /\ \A i \in 1..n : i < low \/ i > high => m[i] = l[i]
         /\ \A i \in 1..n : low <= i /\ i <= high =>
              \E j \in 1..n : low <= j /\ j <= high /\ m[i] = l[j]
<1>1. PICK f \in [1..n -> 1..n] :
        /\ \A i, j \in 1..n : f[i] = f[j] => i = j
        /\ \A j \in 1..n : \E i \in 1..n : f[i] = j
        /\ \A i \in 1..n : i < low \/ i > high => f[i] = i
        /\ \A i \in 1..n : m[i] = l[f[i]]
  BY DEF Rearranged
<1>2. ASSUME NEW i \in 1..n, low <= i, i <= high
      PROVE  low <= f[i] /\ f[i] <= high
  <2>1. f[i] \in 1..n
    OBVIOUS
  <2>2. CASE f[i] < low \/ f[i] > high
    <3>1. f[f[i]] = f[i]
      BY <1>1, <2>1, <2>2
    <3> QED BY <1>1, <1>2, <2>1, <2>2, <3>1
  <2> QED BY <2>1, <2>2
<1>3. \A i \in 1..n : f[i] \in 1..n
  OBVIOUS
<1> QED BY <1>1, <1>2, <1>3

(* A rearranged list is of the same length, and made of the same things. *)
LEMMA RearrangedType ==
  ASSUME NEW n \in Nat, NEW S, NEW l \in [1..n -> S], NEW m, NEW low, NEW high,
         m = [i \in 1..n |-> m[i]], Rearranged(n, l, m, low, high)
  PROVE  m \in [1..n -> S]
BY DEF Rearranged

(* w is l with elements i and j in each other's place. *)
Swapped(n, l, w, i, j, low, high) ==
  /\ w \in [1..n -> Int] /\ Rearranged(n, l, w, low, high)
  /\ w[j] = l[i] /\ w[i] = l[j]
  /\ \A k \in 1..n : k # i /\ k # j => w[k] = l[k]

(* Collections.swap *)
LEMMA SwapRearranges ==
  ASSUME NEW n \in Nat, NEW l \in [1..n -> Int], NEW i \in 1..n, NEW j \in 1..n,
         NEW low \in Int, NEW high \in Int,
         low <= i, i <= high, low <= j, j <= high
  PROVE  Swapped(n, l, swap(l, i, j), i, j, low, high)
<1> DEFINE f == [k \in 1..n |-> IF k = j THEN i ELSE IF k = i THEN j ELSE k]
           m == swap(l, i, j)
<1>1. m \in [1..n -> Int]
      /\ \A k \in 1..n : m[k] = IF k = j THEN l[i] ELSE IF k = i THEN l[j] ELSE l[k]
  BY DEF swap
<1>2. f \in [1..n -> 1..n]
      /\ \A k \in 1..n : f[k] = IF k = j THEN i ELSE IF k = i THEN j ELSE k
  OBVIOUS
<1> HIDE DEF f, m
<1>3. /\ \A a \in 1..n : f[f[a]] = a /\ f[a] \in 1..n
      /\ \A a \in 1..n : a < low \/ a > high => f[a] = a
  <2>1. f[i] = j /\ f[j] = i /\ \A a \in 1..n : a # i /\ a # j => f[a] = a
    BY <1>2
  <2>2. ASSUME NEW a \in 1..n PROVE f[f[a]] = a /\ f[a] \in 1..n
    <3>1. CASE a = i
      BY <2>1, <3>1
    <3>2. CASE a = j
      BY <2>1, <3>2
    <3>3. CASE a # i /\ a # j
      BY <2>1, <3>3
    <3> QED BY <3>1, <3>2, <3>3
  <2>3. ASSUME NEW a \in 1..n, a < low \/ a > high PROVE f[a] = a
    BY <2>1, <2>3
  <2> QED BY <2>2, <2>3
<1>4. \A a \in 1..n : m[a] = l[f[a]]
  BY <1>1, <1>2
<1>5. \A a, b \in 1..n : f[a] = f[b] => a = b
  BY <1>3
<1>6. \A a \in 1..n : \E b \in 1..n : f[b] = a
  BY <1>3
<1>7. Rearranged(n, l, m, low, high)
  BY <1>2, <1>3, <1>4, <1>5, <1>6 DEF Rearranged
<1>8. m[j] = l[i] /\ m[i] = l[j] /\ \A k \in 1..n : k # i /\ k # j => m[k] = l[k]
  BY <1>1
<1>9. Swapped(n, l, m, i, j, low, high)
  BY <1>1, <1>7, <1>8 DEF Swapped
<1> QED BY <1>9 DEF m

-----------------------------------------------------------------------------
(* partition: the pass over the elements before the pivot. *)
Passed(l, low, high, j, s) ==
  IF j = low - 1 THEN [lst |-> l, i |-> low - 1]
  ELSE IF s[j - 1].lst[j] <= l[high]
    THEN [lst |-> swap(s[j - 1].lst, s[j - 1].i + 1, j), i |-> s[j - 1].i + 1]
    ELSE s[j - 1]

(* The recursion of partition's pass has a solution: one more element at a *)
(* time.                                                                   *)
LEMMA ScanExists ==
  ASSUME NEW l, NEW low \in Int, NEW high \in Int, low < high
  PROVE  \E s : s = [j \in (low - 1)..(high - 1) |-> Passed(l, low, high, j, s)]
<1> DEFINE S == {n \in (low - 1)..(high - 1) :
                   \E s : s = [j \in (low - 1)..n |-> Passed(l, low, high, j, s)]}
<1>1. low - 1 \in S
  <2> DEFINE s == [j \in (low - 1)..(low - 1) |-> [lst |-> l, i |-> low - 1]]
  <2>1. s = [j \in (low - 1)..(low - 1) |-> Passed(l, low, high, j, s)]
    BY DEF Passed
  <2> QED BY <2>1
<1>2. ASSUME NEW n \in (low - 1)..(high - 2), n \in S
      PROVE  n + 1 \in S
  <2>1. PICK s : s = [j \in (low - 1)..n |-> Passed(l, low, high, j, s)]
    BY <1>2
  <2> DEFINE t == [j \in (low - 1)..(n + 1) |->
                     IF j = n + 1 THEN Passed(l, low, high, j, s) ELSE s[j]]
  <2>2. \A j \in (low - 1)..(n + 1) :
          t[j] = IF j = n + 1 THEN Passed(l, low, high, j, s) ELSE s[j]
    OBVIOUS
  <2>3. DOMAIN t = (low - 1)..(n + 1)
        /\ t = [j \in (low - 1)..(n + 1) |-> t[j]]
    OBVIOUS
  <2> HIDE DEF t
  <2>4. ASSUME NEW j \in (low - 1)..(n + 1)
        PROVE  t[j] = Passed(l, low, high, j, t)
    <3>1. CASE j = low - 1
      <4>1. t[j] = s[j] /\ s[j] = Passed(l, low, high, j, s)
        BY <2>1, <2>2, <3>1
      <4> QED BY <3>1, <4>1 DEF Passed
    <3>2. CASE j # low - 1
      <4>1. j - 1 \in (low - 1)..n /\ t[j - 1] = s[j - 1]
        BY <2>2, <3>2
      <4>2. Passed(l, low, high, j, t) = Passed(l, low, high, j, s)
        BY <4>1 DEF Passed
      <4>3. j # n + 1 => s[j] = Passed(l, low, high, j, s)
        BY <2>1
      <4> QED BY <2>2, <4>2, <4>3
    <3> QED BY <3>1, <3>2
  <2>5. t = [j \in (low - 1)..(n + 1) |-> Passed(l, low, high, j, t)]
    BY <2>3, <2>4
  <2> QED BY <2>5
<1> HIDE DEF S
<1>3. high - 1 \in S
  BY <1>1, <1>2, IntervalInduction
<1> QED BY <1>3 DEF S

(* partition, with the states of its pass in the open. *)
LEMMA PartitionScans ==
  ASSUME NEW l, NEW low \in Int, NEW high \in Int, low < high
  PROVE  \E s :
           /\ \A j \in (low - 1)..(high - 1) : s[j] = Passed(l, low, high, j, s)
           /\ partition(l, low, high) =
                [lst |-> swap(s[high - 1].lst, s[high - 1].i + 1, high),
                 at |-> s[high - 1].i + 1]
<1> DEFINE scan == CHOOSE f : f = [j \in (low - 1)..(high - 1) |->
                     IF j = low - 1 THEN [lst |-> l, i |-> low - 1]
                     ELSE LET s == f[j - 1] IN
                          IF s.lst[j] <= l[high]
                            THEN [lst |-> swap(s.lst, s.i + 1, j), i |-> s.i + 1]
                            ELSE s]
<1>1. partition(l, low, high) =
        [lst |-> swap(scan[high - 1].lst, scan[high - 1].i + 1, high),
         at |-> scan[high - 1].i + 1]
  BY Zenon DEF partition
<1>2. scan = CHOOSE s : s = [j \in (low - 1)..(high - 1) |-> Passed(l, low, high, j, s)]
  BY Zenon DEF Passed
<1> HIDE DEF scan
<1>3. scan = [j \in (low - 1)..(high - 1) |-> Passed(l, low, high, j, scan)]
  BY <1>2, ScanExists, Zenon
<1>4. \A j \in (low - 1)..(high - 1) : scan[j] = Passed(l, low, high, j, scan)
  BY <1>3, Zenon
<1> QED BY <1>1, <1>4

(* Between i and j are the greater ones; behind j nothing has been touched. *)
ScanSound(n, l, low, high, j, s) ==
  /\ s.lst \in [1..n -> Int] /\ s.i \in (low - 1)..j
  /\ Rearranged(n, l, s.lst, low, high)
  /\ \A k \in low..s.i : s.lst[k] <= l[high]
  /\ \A k \in (s.i + 1)..j : s.lst[k] > l[high]
  /\ \A k \in (j + 1)..high : s.lst[k] = l[k]

(* One element of the pass: what is not greater is swapped behind i. *)
LEMMA PassSound ==
  ASSUME NEW n \in Nat, NEW l \in [1..n -> Int], NEW low \in 1..n, NEW high \in 1..n,
         NEW j \in low..(high - 1), NEW s, ScanSound(n, l, low, high, j - 1, s[j - 1])
  PROVE  ScanSound(n, l, low, high, j, Passed(l, low, high, j, s))
<1> DEFINE m == s[j - 1].lst
           i == s[j - 1].i
<1>1. /\ m \in [1..n -> Int] /\ i \in (low - 1)..(j - 1) /\ Rearranged(n, l, m, low, high)
      /\ \A k \in low..i : m[k] <= l[high]
      /\ \A k \in (i + 1)..(j - 1) : m[k] > l[high]
      /\ \A k \in j..high : m[k] = l[k]
  BY DEF ScanSound
<1>2. Passed(l, low, high, j, s) =
        IF m[j] <= l[high] THEN [lst |-> swap(m, i + 1, j), i |-> i + 1] ELSE s[j - 1]
  BY DEF Passed
<1> HIDE DEF m, i
<1>3. CASE m[j] <= l[high]
  <2> DEFINE w == swap(m, i + 1, j)
  <2>1. i + 1 \in low..j /\ i + 1 \in 1..n /\ j \in 1..n /\ low <= j /\ j <= high /\ j < high
    BY <1>1
  <2>a. low \in Int /\ high \in Int /\ low <= i + 1 /\ i + 1 <= high
    BY <2>1
  <2>2. /\ w \in [1..n -> Int] /\ Rearranged(n, m, w, low, high)
        /\ w[j] = m[i + 1] /\ w[i + 1] = m[j]
        /\ \A k \in 1..n : k # i + 1 /\ k # j => w[k] = m[k]
    <3> DEFINE a == i + 1
    <3>1. a \in 1..n /\ low <= a /\ a <= high
      BY <2>1, <2>a
    <3> HIDE DEF a
    <3>2. /\ swap(m, a, j) \in [1..n -> Int] /\ Rearranged(n, m, swap(m, a, j), low, high)
          /\ swap(m, a, j)[j] = m[a] /\ swap(m, a, j)[a] = m[j]
          /\ \A k \in 1..n : k # a /\ k # j => swap(m, a, j)[k] = m[k]
      <4>1. m \in [1..n -> Int] /\ j \in 1..n /\ low \in Int /\ high \in Int /\ low <= j /\ j <= high
        BY <1>1, <2>1, <2>a
      <4>2. Swapped(n, m, swap(m, a, j), a, j, low, high)
        BY ONLY <4>1, <3>1, n \in Nat, SwapRearranges
      <4> QED BY ONLY <4>2 DEF Swapped
    <3> QED BY <3>2 DEF a
  <2> HIDE DEF w
  <2>3. Rearranged(n, l, w, low, high)
    BY <1>1, <2>2, RearrangedTwice
  <2>4. ASSUME NEW k \in low..(i + 1) PROVE w[k] <= l[high]
    <3>1. k \in 1..n /\ (k = i + 1 \/ k \in low..i)
      BY <1>1, <2>1
    <3>2. k # i + 1 => k # j /\ m[k] <= l[high]
      BY <1>1, <3>1
    <3>3. i + 1 = j => m[i + 1] = m[j]
      OBVIOUS
    <3> QED BY <1>3, <2>2, <3>1, <3>2, <3>3
  <2>5. ASSUME NEW k \in (i + 2)..j PROVE w[k] > l[high]
    <3>1. k \in 1..n /\ k # i + 1 /\ i + 1 \in (i + 1)..(j - 1)
      BY <1>1, <2>1
    <3>2. m[i + 1] > l[high]
      BY <1>1, <3>1
    <3>3. k # j => m[k] > l[high]
      BY <1>1
    <3> QED BY <2>2, <3>1, <3>2, <3>3
  <2>6. ASSUME NEW k \in (j + 1)..high PROVE w[k] = l[k]
    BY <1>1, <2>1, <2>2
  <2>7. i + 1 \in (low - 1)..j /\ i + 1 + 1 = i + 2
    BY <1>1
  <2> DEFINE p == Passed(l, low, high, j, s)
  <2>8. p.lst = w /\ p.i = i + 1
    BY <1>2, <1>3 DEF w
  <2> HIDE DEF p
  <2>9. ScanSound(n, l, low, high, j, p)
    BY <2>2, <2>3, <2>4, <2>5, <2>6, <2>7, <2>8 DEF ScanSound
  <2> QED BY <2>9 DEF p
<1>4. CASE ~(m[j] <= l[high])
  <2>1. l[high] \in Int /\ m[j] \in Int /\ m[j] > l[high]
    BY <1>1, <1>4
  <2>2. \A k \in (i + 1)..j : m[k] > l[high]
    BY <1>1, <2>1
  <2>3. i \in (low - 1)..j /\ \A k \in (j + 1)..high : m[k] = l[k]
    BY <1>1
  <2> QED BY <1>1, <1>2, <1>4, <2>2, <2>3 DEF ScanSound, m, i
<1> QED BY <1>3, <1>4

(* randomPartition's second half: the pivot comes between the smaller and the   *)
(* greater ones, and nothing else is touched.                                  *)
LEMMA PartitionSound ==
  ASSUME NEW n \in Nat, NEW l \in [1..n -> Int], NEW low \in 1..n, NEW high \in 1..n,
         low < high, NEW r, r = partition(l, low, high)
  PROVE  /\ r.lst \in [1..n -> Int] /\ r.at \in low..high
         /\ Rearranged(n, l, r.lst, low, high)
         /\ \A k \in low..(r.at - 1) : r.lst[k] <= r.lst[r.at]
         /\ \A k \in (r.at + 1)..high : r.lst[k] >= r.lst[r.at]
<1>1. PICK s :
        /\ \A j \in (low - 1)..(high - 1) : s[j] = Passed(l, low, high, j, s)
        /\ r = [lst |-> swap(s[high - 1].lst, s[high - 1].i + 1, high),
                at |-> s[high - 1].i + 1]
  BY PartitionScans
<1> DEFINE S == {j \in (low - 1)..(high - 1) : ScanSound(n, l, low, high, j, s[j])}
<1>2. low - 1 \in S
  <2>1. low - 1 \in (low - 1)..(high - 1)
    OBVIOUS
  <2>2. s[low - 1] = [lst |-> l, i |-> low - 1]
    BY <1>1, <2>1 DEF Passed
  <2> QED BY <2>1, <2>2, RearrangedSelf DEF ScanSound
<1>3. ASSUME NEW j \in (low - 1)..(high - 2), j \in S
      PROVE  j + 1 \in S
  <2>1. j + 1 \in low..(high - 1) /\ (j + 1) - 1 = j
    BY <1>3
  <2>2. ScanSound(n, l, low, high, j + 1, Passed(l, low, high, j + 1, s))
    BY <1>3, <2>1, PassSound
  <2>3. s[j + 1] = Passed(l, low, high, j + 1, s)
    BY <1>1, <2>1
  <2> QED BY <2>1, <2>2, <2>3
<1>4. ScanSound(n, l, low, high, high - 1, s[high - 1])
  <2> HIDE DEF S
  <2>1. low - 1 \in Int /\ high - 1 \in Int /\ low - 1 <= high - 1
        /\ (high - 1) - 1 = high - 2 /\ high - 1 \in (low - 1)..(high - 1)
    OBVIOUS
  <2>2. high - 1 \in S
    BY <1>2, <1>3, <2>1, IntervalInduction
  <2> QED BY <2>2 DEF S
<1> DEFINE m == s[high - 1].lst
           i == s[high - 1].i
           w == swap(m, i + 1, high)
<1>5. /\ m \in [1..n -> Int] /\ i \in (low - 1)..(high - 1) /\ Rearranged(n, l, m, low, high)
      /\ \A k \in low..i : m[k] <= l[high]
      /\ \A k \in (i + 1)..(high - 1) : m[k] > l[high]
      /\ m[high] = l[high]
  <2>1. /\ m \in [1..n -> Int] /\ i \in (low - 1)..(high - 1) /\ Rearranged(n, l, m, low, high)
        /\ \A k \in low..i : m[k] <= l[high]
        /\ \A k \in (i + 1)..(high - 1) : m[k] > l[high]
        /\ \A k \in ((high - 1) + 1)..high : m[k] = l[k]
    BY <1>4 DEF ScanSound
  <2> HIDE DEF m, i
  <2>2. high \in ((high - 1) + 1)..high
    OBVIOUS
  <2> QED BY <2>1, <2>2
<1>6. r.lst = w /\ r.at = i + 1
  BY <1>1
<1> HIDE DEF m, i
<1>7. i + 1 \in low..high /\ i + 1 \in 1..n
  BY <1>5
<1>a. low \in Int /\ high \in Int /\ low <= i + 1 /\ i + 1 <= high /\ low <= high
  BY <1>7
<1>8. /\ w \in [1..n -> Int] /\ Rearranged(n, m, w, low, high)
      /\ w[high] = m[i + 1] /\ w[i + 1] = m[high]
      /\ \A k \in 1..n : k # i + 1 /\ k # high => w[k] = m[k]
  <2> DEFINE a == i + 1
  <2>1. a \in 1..n /\ low <= a /\ a <= high
    BY <1>7, <1>a
  <2> HIDE DEF a
  <2>2. /\ swap(m, a, high) \in [1..n -> Int] /\ Rearranged(n, m, swap(m, a, high), low, high)
        /\ swap(m, a, high)[high] = m[a] /\ swap(m, a, high)[a] = m[high]
        /\ \A k \in 1..n : k # a /\ k # high => swap(m, a, high)[k] = m[k]
    <3>1. m \in [1..n -> Int] /\ high \in 1..n /\ low \in Int /\ high \in Int /\ low <= high /\ high <= high
      BY <1>5, <1>a
    <3>2. Swapped(n, m, swap(m, a, high), a, high, low, high)
      BY ONLY <2>1, <3>1, n \in Nat, SwapRearranges
    <3> QED BY ONLY <3>2 DEF Swapped
  <2> QED BY <2>2 DEF a
<1> HIDE DEF w
<1>9. Rearranged(n, l, w, low, high)
  BY <1>5, <1>8, RearrangedTwice
<1>10. w[i + 1] = l[high]
  BY <1>5, <1>7, <1>8
<1>11. ASSUME NEW k \in low..i PROVE w[k] <= w[i + 1]
  <2>1. k \in 1..n /\ k # high /\ k # i + 1
    BY <1>5
  <2> QED BY <1>5, <1>8, <1>10, <2>1
<1>12. ASSUME NEW k \in (i + 2)..high PROVE w[k] >= w[i + 1]
  <2>1. k \in 1..n /\ k # i + 1 /\ i + 1 \in (i + 1)..(high - 1)
    BY <1>5
  <2>2. m[i + 1] > l[high] /\ (k # high => m[k] > l[high])
    BY <1>5, <2>1
  <2>3. w[k] > l[high]
    BY <1>8, <2>1, <2>2
  <2>4. w[k] \in Int /\ l[high] \in Int
    BY <1>8, <2>1
  <2> QED BY <1>10, <2>3, <2>4
<1>13. (i + 1) - 1 = i /\ (i + 1) + 1 = i + 2
  BY <1>5
<1> QED BY <1>6, <1>7, <1>8, <1>9, <1>11, <1>12, <1>13

-----------------------------------------------------------------------------
(* insertionSort. *)
SortedIn(l, low, high) == \A i, j \in low..high : i <= j => l[i] <= l[j]

(* An element goes down to behind those that are not greater. *)
LEMMA InsertPlace ==
  ASSUME NEW l, NEW low \in Int, NEW i \in Int, low < i,
         \A k \in low..i : l[k] \in Int, SortedIn(l, low, i - 1)
  PROVE  \E p \in low..i :
           /\ low + Cardinality({k \in low..(i - 1) : l[k] <= l[i]}) = p
           /\ \A k \in low..(p - 1) : l[k] <= l[i]
           /\ \A k \in p..(i - 1) : l[k] > l[i]
<1> DEFINE S == {q \in low..i : \A k \in low..(q - 1) : l[k] <= l[i]}
<1>1. low \in S
  OBVIOUS
<1>2. PICK p \in S : p = i \/ p + 1 \notin S
  <2> SUFFICES ASSUME \A q \in S : q # i /\ q + 1 \in S PROVE FALSE
    OBVIOUS
  <2>1. \A j \in low..(i - 1) : j \in S => j + 1 \in S
    OBVIOUS
  <2> HIDE DEF S
  <2>2. \A j \in low..i : j \in S
    BY <1>1, <2>1, IntervalInduction
  <2> QED BY <2>2
<1>3. p \in low..i /\ \A k \in low..(p - 1) : l[k] <= l[i]
  OBVIOUS
<1>4. p # i => l[p] > l[i]
  <2> SUFFICES ASSUME p # i, ~(l[p] > l[i]) PROVE FALSE
    OBVIOUS
  <2>1. p \in low..i /\ l[p] \in Int /\ l[i] \in Int /\ l[p] <= l[i] /\ p + 1 \in low..i
    BY <1>3
  <2>2. \A k \in low..((p + 1) - 1) : k = p \/ k \in low..(p - 1)
    BY <2>1
  <2>3. \A k \in low..((p + 1) - 1) : l[k] <= l[i]
    BY <1>3, <2>1, <2>2
  <2> QED BY <1>2, <2>1, <2>3
<1> HIDE DEF S
<1>5. ASSUME NEW k \in p..(i - 1) PROVE l[k] > l[i]
  <2>1. p \in low..(i - 1) /\ k \in low..(i - 1) /\ p <= k /\ p # i
    BY <1>3
  <2>2. l[p] <= l[k]
    BY <2>1 DEF SortedIn
  <2>3. l[p] \in Int /\ l[k] \in Int /\ l[i] \in Int
    BY <2>1
  <2> QED BY <1>4, <2>1, <2>2, <2>3
<1>6. {k \in low..(i - 1) : l[k] <= l[i]} = low..(p - 1)
  <2>1. ASSUME NEW k \in low..(i - 1), l[k] <= l[i] PROVE k \in low..(p - 1)
    <3>1. l[k] \in Int /\ l[i] \in Int
      BY <2>1
    <3> QED BY <1>3, <1>5, <2>1, <3>1
  <2>2. \A k \in low..(p - 1) : k \in low..(i - 1) /\ l[k] <= l[i]
    BY <1>3
  <2> QED BY <2>1, <2>2
<1>7. Cardinality(low..(p - 1)) = p - low
  <2>1. p - 1 \in Int /\ low <= p
    BY <1>3
  <2>2. Cardinality(low..(p - 1)) = IF low > p - 1 THEN 0 ELSE (p - 1) - low + 1
    BY <2>1, FS_Interval
  <2> QED BY <1>3, <2>2
<1>8. low + Cardinality({k \in low..(i - 1) : l[k] <= l[i]}) = p
  <2>1. Cardinality({k \in low..(i - 1) : l[k] <= l[i]}) = p - low
    BY <1>6, <1>7
  <2> QED BY <1>3, <2>1
<1> QED BY <1>3, <1>5, <1>8

(* Element i goes to its place: the others keep their order, and the sorted *)
(* part is longer by one.                                                   *)
LEMMA InsertSound ==
  ASSUME N \in Nat, NEW l \in [1..N -> Int], NEW low \in 1..N, NEW i \in 1..N, low < i,
         NEW high \in Int, i <= high, SortedIn(l, low, i - 1)
  PROVE  /\ insert(l, low, i) \in [1..N -> Int]
         /\ Rearranged(N, l, insert(l, low, i), low, high)
         /\ SortedIn(insert(l, low, i), low, i)
         /\ \A k \in 1..N : k > i => insert(l, low, i)[k] = l[k]
<1>0. PICK n : n = N
  OBVIOUS
<1>a. n \in Nat /\ l \in [1..n -> Int] /\ low \in 1..n /\ i \in 1..n
  BY <1>0
<1>1. PICK p \in low..i :
        /\ low + Cardinality({k \in low..(i - 1) : l[k] <= l[i]}) = p
        /\ \A k \in low..(p - 1) : l[k] <= l[i]
        /\ \A k \in p..(i - 1) : l[k] > l[i]
  <2>1. low \in Int /\ i \in Int /\ \A k \in low..i : l[k] \in Int
    BY <1>a
  <2> QED BY <2>1, InsertPlace
<1> DEFINE m == [k \in 1..n |-> IF k < p \/ k > i THEN l[k]
                               ELSE IF k = p THEN l[i] ELSE l[k - 1]]
           f == [k \in 1..n |-> IF k < p \/ k > i THEN k ELSE IF k = p THEN i ELSE k - 1]
<1>2. insert(l, low, i) = m
  BY <1>0, <1>1 DEF insert
<1>3. /\ \A k \in 1..n : k < p \/ k > i => m[k] = l[k]
      /\ m[p] = l[i] /\ p \in 1..n /\ low <= p /\ p <= i
      /\ \A k \in 1..n : p < k /\ k <= i => m[k] = l[k - 1] /\ k - 1 \in 1..n
  BY <1>a, <1>1
<1>4. /\ \A k \in 1..n : k < p \/ k > i => f[k] = k
      /\ f[p] = i
      /\ \A k \in 1..n : p < k /\ k <= i => f[k] = k - 1
      /\ f \in [1..n -> 1..n]
  BY <1>a, <1>1
<1>5. m \in [1..n -> Int]
  BY <1>a, <1>1
<1> HIDE DEF m, f
<1>6. ASSUME NEW a \in 1..n, NEW b \in 1..n, f[a] = f[b] PROVE a = b
  <2>1. \A k \in 1..n : \/ (k < p \/ k > i) /\ f[k] = k
                        \/ k = p /\ f[k] = i
                        \/ p < k /\ k <= i /\ f[k] = k - 1
    BY <1>a, <1>1, <1>4
  <2>2. p \in Int /\ i \in Int /\ p <= i
    BY <1>a, <1>1
  <2> QED BY <1>6, <2>1, <2>2
<1>7. ASSUME NEW b \in 1..n PROVE \E a \in 1..n : f[a] = b
  <2>1. CASE b < p \/ b > i
    BY <1>4, <2>1
  <2>2. CASE b = i
    BY <1>3, <1>4, <2>2
  <2>3. CASE p <= b /\ b < i
    <3>1. b + 1 \in 1..n /\ p < b + 1 /\ b + 1 <= i /\ (b + 1) - 1 = b
      BY <1>a, <2>3
    <3>2. f[b + 1] = b
      BY <1>4, <3>1
    <3> QED BY <3>1, <3>2
  <2> QED BY <1>a, <1>1, <2>1, <2>2, <2>3
<1>8. \A k \in 1..n : k < low \/ k > high => f[k] = k
  <2>1. low \in Int /\ i \in Int /\ p \in Int /\ high \in Int /\ low <= p /\ i <= high
    BY <1>a, <1>3
  <2>2. \A k \in 1..n : k < low \/ k > high => k < p \/ k > i
    BY <2>1
  <2> QED BY <1>4, <2>2
<1>9. ASSUME NEW k \in 1..n PROVE m[k] = l[f[k]]
  <2>1. CASE k < p \/ k > i
    BY <1>3, <1>4, <2>1
  <2>2. CASE k = p
    BY <1>3, <1>4, <2>2
  <2>3. CASE p < k /\ k <= i
    BY <1>3, <1>4, <2>3
  <2> QED BY <1>a, <1>1, <2>1, <2>2, <2>3
<1>10. Rearranged(n, l, m, low, high)
  BY <1>4, <1>6, <1>7, <1>8, <1>9 DEF Rearranged
<1>11. SortedIn(m, low, i)
  <2> SUFFICES ASSUME NEW a \in low..i, NEW b \in low..i, a < b
               PROVE  m[a] <= m[b]
    <3>1. \A a \in low..i : m[a] \in Int
      BY <1>a, <1>5
    <3> QED BY <3>1 DEF SortedIn
  <2>0. /\ a \in 1..n /\ b \in 1..n /\ \A k \in low..i : k \in 1..n /\ l[k] \in Int
        /\ \A c, d \in low..(i - 1) : c <= d => l[c] <= l[d]
    BY <1>a DEF SortedIn
  <2>1. CASE b < p
    <3>1. a \in low..(i - 1) /\ b \in low..(i - 1) /\ m[a] = l[a] /\ m[b] = l[b]
      BY <1>1, <1>3, <2>0, <2>1
    <3> QED BY <2>0, <3>1
  <2>2. CASE b = p
    <3>1. a \in low..(p - 1) /\ m[a] = l[a] /\ m[b] = l[i]
      BY <1>1, <1>3, <2>0, <2>2
    <3> QED BY <1>1, <3>1
  <2>3. CASE b > p
    <3>1. b - 1 \in low..(i - 1) /\ b - 1 \in p..(i - 1) /\ m[b] = l[b - 1]
      BY <1>1, <1>3, <2>0, <2>3
    <3>2. CASE a < p
      <4>1. a \in low..(i - 1) /\ m[a] = l[a] /\ a <= b - 1
        BY <1>1, <1>3, <2>0, <3>2
      <4> QED BY <2>0, <3>1, <4>1
    <3>3. CASE a = p
      <4>1. m[a] = l[i] /\ l[b - 1] > l[i]
        BY <1>1, <1>3, <3>1, <3>3
      <4>2. l[i] \in Int /\ l[b - 1] \in Int
        BY <2>0, <3>1
      <4> QED BY <3>1, <4>1, <4>2
    <3>4. CASE a > p
      <4>1. a - 1 \in low..(i - 1) /\ m[a] = l[a - 1] /\ a - 1 <= b - 1
        BY <1>1, <1>3, <2>0, <3>4
      <4> QED BY <2>0, <3>1, <4>1
    <3> QED BY <1>1, <3>2, <3>3, <3>4
  <2> QED BY <1>1, <2>1, <2>2, <2>3
<1>12. \A k \in 1..n : k > i => m[k] = l[k]
  BY <1>3
<1> QED BY <1>0, <1>2, <1>5, <1>10, <1>11, <1>12

(* insertionSort: the elements from low on, one after the other. *)
Inserted(l, low, i, s) == IF i = low THEN l ELSE insert(s[i - 1], low, i)

(* The recursion of insertionSort has a solution. *)
LEMMA SortedExists ==
  ASSUME NEW l, NEW low \in Int, NEW high \in Int, low <= high
  PROVE  \E s : s = [i \in low..high |-> Inserted(l, low, i, s)]
<1> DEFINE S == {n \in low..high : \E s : s = [i \in low..n |-> Inserted(l, low, i, s)]}
<1>1. low \in S
  <2> DEFINE s == [i \in low..low |-> l]
  <2>1. s = [i \in low..low |-> Inserted(l, low, i, s)]
    BY DEF Inserted
  <2> QED BY <2>1
<1>2. ASSUME NEW n \in low..(high - 1), n \in S
      PROVE  n + 1 \in S
  <2>1. PICK s : s = [i \in low..n |-> Inserted(l, low, i, s)]
    BY <1>2
  <2> DEFINE t == [i \in low..(n + 1) |->
                     IF i = n + 1 THEN Inserted(l, low, i, s) ELSE s[i]]
  <2>2. \A i \in low..(n + 1) :
          t[i] = IF i = n + 1 THEN Inserted(l, low, i, s) ELSE s[i]
    OBVIOUS
  <2>3. t = [i \in low..(n + 1) |-> t[i]]
    OBVIOUS
  <2> HIDE DEF t
  <2>4. ASSUME NEW i \in low..(n + 1)
        PROVE  t[i] = Inserted(l, low, i, t)
    <3>1. CASE i = low
      <4>1. t[i] = s[i] /\ s[i] = Inserted(l, low, i, s)
        BY <2>1, <2>2, <3>1
      <4> QED BY <3>1, <4>1 DEF Inserted
    <3>2. CASE i # low
      <4>1. i - 1 \in low..n /\ t[i - 1] = s[i - 1]
        BY <2>2, <3>2
      <4>2. Inserted(l, low, i, t) = Inserted(l, low, i, s)
        BY <4>1 DEF Inserted
      <4>3. i # n + 1 => s[i] = Inserted(l, low, i, s)
        BY <2>1
      <4> QED BY <2>2, <4>2, <4>3
    <3> QED BY <3>1, <3>2
  <2>5. t = [i \in low..(n + 1) |-> Inserted(l, low, i, t)]
    BY <2>3, <2>4
  <2> QED BY <2>5
<1> HIDE DEF S
<1>3. high \in S
  BY <1>1, <1>2, IntervalInduction
<1> QED BY <1>3 DEF S

(* insertionSort, with the lists in between in the open. *)
LEMMA InsertionSortInserts ==
  ASSUME NEW l, NEW low \in Int, NEW high \in Int, low <= high
  PROVE  \E s :
           /\ \A i \in low..high : s[i] = Inserted(l, low, i, s)
           /\ insertionSort(l, low, high) = s[high]
<1> DEFINE sorted == CHOOSE f : f = [i \in low..high |->
                       IF i = low THEN l ELSE insert(f[i - 1], low, i)]
<1>1. insertionSort(l, low, high) = IF low > high THEN l ELSE sorted[high]
  BY Zenon DEF insertionSort
<1>2. sorted = CHOOSE s : s = [i \in low..high |-> Inserted(l, low, i, s)]
  BY Zenon DEF Inserted
<1> HIDE DEF sorted
<1>3. sorted = [i \in low..high |-> Inserted(l, low, i, sorted)]
  BY <1>2, SortedExists, Zenon
<1>4. \A i \in low..high : sorted[i] = Inserted(l, low, i, sorted)
  BY <1>3, Zenon
<1>5. ~(low > high)
  OBVIOUS
<1> QED BY <1>1, <1>4, <1>5

(* insertionSort sorts the range and touches nothing else. *)
LEMMA InsertionSortSound ==
  ASSUME N \in Nat, NEW l \in [1..N -> Int], NEW low \in 1..(N + 1), NEW high \in 0..N,
         NEW m, m = insertionSort(l, low, high)
  PROVE  m \in [1..N -> Int] /\ Rearranged(N, l, m, low, high) /\ SortedIn(m, low, high)
<1>1. CASE low > high
  <2>1. m = l
    BY <1>1 DEF insertionSort
  <2> QED BY <1>1, <2>1, RearrangedSelf DEF SortedIn
<1>2. CASE low <= high
  <2>1. low \in 1..N /\ high \in 1..N /\ low \in Int /\ high \in Int
    BY <1>2
  <2>2. PICK s :
          /\ \A i \in low..high : s[i] = Inserted(l, low, i, s)
          /\ m = s[high]
    BY <1>2, <2>1, InsertionSortInserts
  <2> DEFINE S == {i \in low..high : /\ s[i] \in [1..N -> Int]
                                     /\ Rearranged(N, l, s[i], low, high)
                                     /\ SortedIn(s[i], low, i)}
  <2>3. low \in S
    <3>1. low \in low..high /\ s[low] = l
      BY <1>2, <2>1, <2>2 DEF Inserted
    <3>2. SortedIn(l, low, low)
      BY <2>1 DEF SortedIn
    <3> QED BY <3>1, <3>2, RearrangedSelf
  <2>4. ASSUME NEW j \in low..(high - 1), j \in S
        PROVE  j + 1 \in S
    <3> DEFINE i == j + 1
    <3>1. i \in low..high /\ i \in 1..N /\ low < i /\ i <= high /\ i - 1 = j
      BY <2>1
    <3> HIDE DEF i
    <3>2. s[i] = insert(s[j], low, i)
      BY <2>2, <3>1 DEF Inserted
    <3>3. s[j] \in [1..N -> Int] /\ Rearranged(N, l, s[j], low, high) /\ SortedIn(s[j], low, i - 1)
      BY <2>4, <3>1
    <3>4. /\ s[i] \in [1..N -> Int] /\ Rearranged(N, s[j], s[i], low, high)
          /\ SortedIn(s[i], low, i)
      <4>1. PICK g : g = s[j]
        OBVIOUS
      <4>2. g \in [1..N -> Int] /\ SortedIn(g, low, i - 1) /\ s[i] = insert(g, low, i)
        BY <3>2, <3>3, <4>1
      <4>3. high \in Int
        BY <2>1
      <4>4. /\ insert(g, low, i) \in [1..N -> Int]
            /\ Rearranged(N, g, insert(g, low, i), low, high)
            /\ SortedIn(insert(g, low, i), low, i)
        BY ONLY N \in Nat, low \in 1..N, <2>1, <3>1, <4>2, <4>3, InsertSound
      <4> QED BY <4>1, <4>2, <4>4
    <3>5. Rearranged(N, l, s[i], low, high)
      BY <3>3, <3>4, RearrangedTwice
    <3> QED BY <3>1, <3>4, <3>5 DEF i
  <2> HIDE DEF S
  <2>5. high \in S
    <3>1. \A j \in low..(high - 1) : j \in S => j + 1 \in S
      BY <2>4
    <3>2. \A j \in low..high : j \in S
      BY ONLY <1>2, <2>1, <2>3, <3>1, IntervalInduction
    <3> QED BY <1>2, <2>1, <3>2
  <2> QED BY <2>2, <2>5 DEF S
<1> QED BY <1>1, <1>2

-----------------------------------------------------------------------------
(* The inductive invariant. *)

(* The list is a rearrangement of the one that was given. *)
Typed ==
  /\ input \in Lists
  /\ lst \in [1..N -> Int] /\ Rearranged(N, input, lst, 1, N)
  /\ permits \in Nat
  /\ waiting \in Seq(Threads)
  /\ tasks \in Seq(Ranges)
  /\ thread \in [Threads -> [at : Steps, range : Ranges, pivot : 1..(N + 1)]]

(* The caller is no worker, and who has a pivot has it in its range. *)
InPlace ==
  /\ at(Caller) \notin {"idle", "release"}
  /\ \A w \in Workers : at(w) \notin {"await", "done"}
  /\ \A t \in Threads :
       at(t) \in {"acquireLeft", "executeLeft", "acquireRight", "executeRight"} =>
         range(t).low <= thread[t].pivot /\ thread[t].pivot <= range(t).high

(* A thread is parked once, and where it acquires. *)
Queued ==
  /\ \A i \in 1..Len(waiting) : at(waiting[i]) \in Acquiring
  /\ \A i, j \in 1..Len(waiting) : waiting[i] = waiting[j] => i = j

(* Where every permit is: free, spent on a task in the queue or on one that a  *)
(* worker has, or taken for a task that is about to be submitted.              *)
Busy == {w \in Workers : at(w) # "idle"}
Granted == {t \in Threads : at(t) \in {"executeLeft", "executeRight"}}
Counted ==
  permits + Len(tasks) + Cardinality(Busy) + Cardinality(Granted) =
  IF at(Caller) = "done" THEN 0 ELSE maxTaskCount

(* What a thread has still to sort or to submit: ToSort, from its record. *)
Parts(d) ==
  LET left == [low |-> d.range.low, high |-> d.pivot - 1]
      right == [low |-> d.pivot + 1, high |-> d.range.high]
  IN CASE d.at = "sort" -> {d.range}
       [] d.at \in {"acquireLeft", "executeLeft"} -> {left, right}
       [] d.at \in {"acquireRight", "executeRight"} -> {right}
       [] OTHER -> {}

(* RangesDisjoint, by who holds the ranges. *)
Disjoint(r, q) == \A i \in Int : ~(Within(i, r) /\ Within(i, q))
Apart ==
  /\ \A i, j \in 1..Len(tasks) : i # j => Disjoint(tasks[i], tasks[j])
  /\ \A i \in 1..Len(tasks), t \in Threads :
       \A r \in Parts(thread[t]) : Disjoint(tasks[i], r)
  /\ \A t, u \in Threads : t # u =>
       \A r \in Parts(thread[t]), q \in Parts(thread[u]) : Disjoint(r, q)

(* OrderedAcrossRanges, by who holds the ranges. *)
Together(i, j, r) == Within(i, r) /\ Within(j, r)
Ordered ==
  \A i, j \in 1..N :
    /\ i < j
    /\ \A k \in 1..Len(tasks) : ~Together(i, j, tasks[k])
    /\ \A t \in Threads : \A r \in Parts(thread[t]) : ~Together(i, j, r)
    => lst[i] <= lst[j]

(* What every step keeps. *)
IInv == Typed /\ InPlace /\ Queued /\ Counted /\ Apart /\ Ordered

(* The record of a thread. *)
Holding == [at : Steps, range : Ranges, pivot : 1..(N + 1)]

-----------------------------------------------------------------------------
(* The list given has a length, and integers in it. *)
LEMMA ListLength ==
  ASSUME input \in Lists
  PROVE  N \in Nat /\ input \in [1..N -> Int] /\ maxTaskCount \in Nat
<1>1. PICK n \in Lengths \cup EqualLengths : input \in [1..n -> Values]
  <2>1. CASE \E n \in Lengths : input \in [1..n -> Values]
    BY <2>1
  <2>2. CASE input \in {[i \in 1..n |-> v] : n \in EqualLengths, v \in Values}
    <3>1. PICK n \in EqualLengths, v \in Values : input = [i \in 1..n |-> v]
      BY <2>2
    <3>2. input \in [1..n -> Values]
      BY <3>1
    <3> QED BY <3>2
  <2> QED BY <2>1, <2>2 DEF Lists
<1>2. n \in Nat /\ Values \subseteq Int
  BY ListsAssumption
<1>3. N = n
  BY <1>1, <1>2 DEF N
<1>4. N \in Nat /\ input \in [1..N -> Int]
  BY <1>1, <1>2, <1>3
<1>5. getMaxTaskCount(N) \in Nat
  BY <1>4, ThresholdAssumption DEF getMaxTaskCount
<1> QED BY <1>4, <1>5 DEF maxTaskCount

(* The parts, step by step. *)
LEMMA PartsOf ==
  ASSUME NEW d
  PROVE  /\ d.at = "sort" => Parts(d) = {d.range}
         /\ d.at \in {"acquireLeft", "executeLeft"} =>
              Parts(d) = {[low |-> d.range.low, high |-> d.pivot - 1],
                          [low |-> d.pivot + 1, high |-> d.range.high]}
         /\ d.at \in {"acquireRight", "executeRight"} =>
              Parts(d) = {[low |-> d.pivot + 1, high |-> d.range.high]}
         /\ d.at \notin {"sort", "acquireLeft", "executeLeft", "acquireRight", "executeRight"} =>
              Parts(d) = {}
BY DEF Parts

(* The parts are ranges of the list, the empty ones beside its ends included. *)
LEMMA PartsTyped ==
  ASSUME Typed, InPlace, NEW t \in Threads
  PROVE  Parts(thread[t]) \subseteq Ranges
<1>1. N \in Nat
  BY ListLength DEF Typed
<1>2. thread[t] \in Holding
  BY DEF Typed, Holding
<1>3. thread[t].at \in {"acquireLeft", "executeLeft", "acquireRight", "executeRight"} =>
        thread[t].range.low <= thread[t].pivot /\ thread[t].pivot <= thread[t].range.high
  BY DEF InPlace, at, range
<1> DEFINE d == thread[t]
<1>4. d.range \in Ranges /\ d.pivot \in 1..(N + 1) /\ d.range.low \in 1..(N + 1) /\ d.range.high \in 0..N
  BY <1>2 DEF Holding, Ranges
<1>5. d.at \in {"acquireLeft", "executeLeft", "acquireRight", "executeRight"} =>
        /\ [low |-> d.range.low, high |-> d.pivot - 1] \in Ranges
        /\ [low |-> d.pivot + 1, high |-> d.range.high] \in Ranges
  BY <1>1, <1>3, <1>4 DEF Ranges
<1> HIDE DEF d
<1>6. Parts(d) \subseteq Ranges
  BY <1>4, <1>5, PartsOf
<1> QED BY <1>6 DEF d

(* The two parts of a partition, without the pivot between them. *)
LEMMA PartsApart ==
  ASSUME Typed, NEW t \in Threads, NEW r \in Parts(thread[t]), NEW q \in Parts(thread[t]), r # q
  PROVE  Disjoint(r, q)
<1> DEFINE d == thread[t]
<1>1. d.pivot \in Int
  BY DEF Typed
<1> DEFINE left == [low |-> d.range.low, high |-> d.pivot - 1]
           right == [low |-> d.pivot + 1, high |-> d.range.high]
<1>2. Disjoint(left, right) /\ Disjoint(right, left)
  BY <1>1 DEF Disjoint, Within
<1> HIDE DEF d
<1>3. Parts(d) \in {{}, {d.range}, {left, right}, {right}}
  BY PartsOf
<1>4. {r, q} = {left, right}
  BY <1>3 DEF d
<1> QED BY <1>2, <1>4

(* The threads are finitely many, and the caller is none of the pool. *)
LEMMA ThreadsOf ==
  /\ Caller \in Threads /\ IsFiniteSet(Threads) /\ IsFiniteSet(Workers)
  /\ Workers \subseteq Threads /\ \A t \in Threads : t \in Workers <=> t # Caller
<1>1. IsFiniteSet(Workers \cup {Caller})
  BY ThreadsAssumption, FS_AddElement
<1> QED BY <1>1, ThreadsAssumption DEF Threads

(* The permits that are out can be counted. *)
LEMMA CountsTyped ==
  /\ IsFiniteSet(Busy) /\ Cardinality(Busy) \in Nat
  /\ IsFiniteSet(Granted) /\ Cardinality(Granted) \in Nat
<1>1. Busy \subseteq Workers /\ Granted \subseteq Threads
  BY DEF Busy, Granted
<1> QED BY <1>1, ThreadsOf, FS_Subset, FS_CardinalityType

(* One more. *)
LEMMA CountOneMore ==
  ASSUME NEW S, NEW x, IsFiniteSet(S), x \notin S
  PROVE  Cardinality(S \cup {x}) = Cardinality(S) + 1
BY FS_AddElement

(* One less. *)
LEMMA CountOneLess ==
  ASSUME NEW S, NEW x, IsFiniteSet(S), x \in S
  PROVE  Cardinality(S \ {x}) = Cardinality(S) - 1
BY FS_RemoveElement

(* A thread goes from one step to another. *)
LEMMA Going ==
  ASSUME Typed, NEW t \in Threads, NEW step \in Steps, goto(t, step), N' = N
  PROVE  /\ thread' \in [Threads -> [at : Steps, range : Ranges, pivot : 1..(N + 1)]]'
         /\ thread'[t].at = step /\ thread'[t].range = thread[t].range
         /\ thread'[t].pivot = thread[t].pivot
         /\ \A u \in Threads : u # t => thread'[u] = thread[u]
<1> DEFINE d == [thread[t] EXCEPT !.at = step]
<1>1. thread \in [Threads -> Holding]
  BY DEF Typed, Holding
<1>2. d \in Holding /\ d.at = step /\ d.range = thread[t].range /\ d.pivot = thread[t].pivot
  BY <1>1 DEF Holding
<1>3. thread' = [thread EXCEPT ![t] = d]
  BY <1>1 DEF goto, Holding
<1> HIDE DEF d
<1>4. thread' \in [Threads -> Holding] /\ thread'[t] = d
      /\ \A u \in Threads : u # t => thread'[u] = thread[u]
  BY <1>1, <1>2, <1>3
<1>5. Holding = [at : Steps, range : Ranges', pivot : 1..(N' + 1)]
  BY DEF Holding, Ranges
<1> QED BY <1>2, <1>4, <1>5

-----------------------------------------------------------------------------
(* Who holds which range. *)

(* A step that moves no range and no element. *)
LEMMA ClaimsSame ==
  ASSUME Apart, Ordered, tasks' = tasks, lst' = lst, N' = N,
         \A u \in Threads : Parts(thread'[u]) = Parts(thread[u])
  PROVE  Apart' /\ Ordered'
<1>1. Apart'
  BY DEF Apart
<1>2. Ordered'
  BY DEF Ordered
<1> QED BY <1>1, <1>2

(* A thread goes on with parts of what it held. *)
LEMMA ClaimsShrink ==
  ASSUME Apart, Typed, InPlace, tasks' = tasks, NEW t \in Threads,
         \A u \in Threads : u # t => thread'[u] = thread[u],
         Parts(thread'[t]) \subseteq Ranges,
         \A r \in Parts(thread'[t]) : \E q \in Parts(thread[t]) :
           q.low <= r.low /\ r.high <= q.high,
         \A r, q \in Parts(thread'[t]) : r # q => Disjoint(r, q)
  PROVE  Apart'
<1>0. Parts(thread[t]) \subseteq Ranges
  BY PartsTyped
<1>1. ASSUME NEW r \in Parts(thread'[t]), NEW x,
             \A q \in Parts(thread[t]) : Disjoint(x, q) /\ Disjoint(q, x)
      PROVE  Disjoint(x, r) /\ Disjoint(r, x)
  <2>1. PICK q \in Parts(thread[t]) : q.low <= r.low /\ r.high <= q.high
    OBVIOUS
  <2>2. /\ q.low \in Int /\ q.high \in Int /\ r.low \in Int /\ r.high \in Int
    BY <1>0, ListLength DEF Ranges, Typed
  <2>3. \A i \in Int : Within(i, r) => Within(i, q)
    BY <2>1, <2>2 DEF Within
  <2>4. Disjoint(x, q) /\ Disjoint(q, x)
    BY <1>1
  <2> QED BY <2>3, <2>4 DEF Disjoint
<1>2. \A i, j \in 1..Len(tasks') : i # j => Disjoint(tasks'[i], tasks'[j])
  BY DEF Apart
<1>3. ASSUME NEW i \in 1..Len(tasks'), NEW u \in Threads, NEW r \in Parts(thread'[u])
      PROVE  Disjoint(tasks'[i], r)
  <2>0. \A q, x : Disjoint(q, x) <=> Disjoint(x, q)
    BY DEF Disjoint
  <2>1. CASE u # t
    BY <2>1 DEF Apart
  <2>2. CASE u = t
    <3>1. \A q \in Parts(thread[t]) : Disjoint(tasks[i], q) /\ Disjoint(q, tasks[i])
      BY <2>0 DEF Apart
    <3>2. r \in Parts(thread'[t])
      BY <2>2
    <3>3. Disjoint(tasks[i], r)
      BY <1>1, <3>1, <3>2
    <3> QED BY <3>3
  <2> QED BY <2>1, <2>2
<1>4. ASSUME NEW u \in Threads, NEW v \in Threads, u # v,
             NEW r \in Parts(thread'[u]), NEW q \in Parts(thread'[v])
      PROVE  Disjoint(r, q)
  <2>0. \A y, x : Disjoint(y, x) <=> Disjoint(x, y)
    BY DEF Disjoint
  <2>1. CASE u # t /\ v # t
    BY <1>4, <2>1 DEF Apart
  <2>2. CASE u = t
    <3>1. v # t /\ q \in Parts(thread[v]) /\ r \in Parts(thread'[t])
      BY <1>4, <2>2
    <3>2. \A x \in Parts(thread[t]) : Disjoint(x, q) /\ Disjoint(q, x)
      BY <2>0, <3>1 DEF Apart
    <3> QED BY <1>1, <3>1, <3>2
  <2>3. CASE v = t
    <3>1. u # t /\ r \in Parts(thread[u]) /\ q \in Parts(thread'[t])
      BY <1>4, <2>3
    <3>2. \A x \in Parts(thread[t]) : Disjoint(x, r) /\ Disjoint(r, x)
      BY <2>0, <3>1 DEF Apart
    <3> QED BY <1>1, <3>1, <3>2
  <2> QED BY <2>1, <2>2, <2>3
<1> QED BY <1>2, <1>3, <1>4 DEF Apart

(* A range is rearranged, and what it is divided into is in order. *)
LEMMA OrderKept ==
  ASSUME Typed, InPlace, Apart, Ordered, tasks' = tasks, N' = N, NEW t \in Threads,
         at(t) = "sort",
         \A u \in Threads : u # t => thread'[u] = thread[u],
         lst' \in [1..N -> Int], Rearranged(N, lst, lst', range(t).low, range(t).high),
         \A i, j \in 1..N :
           /\ i < j
           /\ Within(i, range(t)) /\ Within(j, range(t))
           /\ \A q \in Parts(thread'[t]) : ~Together(i, j, q)
           => lst'[i] <= lst'[j]
  PROVE  Ordered'
<1> DEFINE r == range(t)
<1>0. N \in Nat /\ lst \in [1..N -> Int] /\ r.low \in Int /\ r.high \in Int
      /\ Parts(thread[t]) = {r}
  <2>1. N \in Nat /\ lst \in [1..N -> Int]
    BY ListLength DEF Typed
  <2>2. r \in Ranges
    BY DEF Typed, range
  <2>3. Parts(thread[t]) = {r}
    BY PartsOf DEF at, range
  <2> QED BY <2>1, <2>2, <2>3 DEF Ranges
<1>a. /\ \A i \in 1..N : i < r.low \/ i > r.high => lst'[i] = lst[i]
      /\ \A i \in 1..N : r.low <= i /\ i <= r.high =>
           \E j \in 1..N : r.low <= j /\ j <= r.high /\ lst'[i] = lst[j]
  <2> HIDE DEF r
  <2>1. Rearranged(N, lst, lst', r.low, r.high)
    BY DEF r
  <2>2. PICK a, b : a = r.low /\ b = r.high
    OBVIOUS
  <2>3. N \in Nat /\ a \in Int /\ b \in Int /\ Rearranged(N, lst, lst', a, b)
    BY <1>0, <2>1, <2>2
  <2>4. /\ \A i \in 1..N : i < a \/ i > b => lst'[i] = lst[i]
        /\ \A i \in 1..N : a <= i /\ i <= b =>
             \E j \in 1..N : a <= j /\ j <= b /\ lst'[i] = lst[j]
    BY ONLY <2>3, RearrangedWithin
  <2> QED BY <2>2, <2>4
<1> SUFFICES ASSUME NEW i \in 1..N, NEW j \in 1..N, i < j,
                    \A k \in 1..Len(tasks) : ~Together(i, j, tasks[k]),
                    \A u \in Threads : \A q \in Parts(thread'[u]) : ~Together(i, j, q)
             PROVE  lst'[i] <= lst'[j]
  BY DEF Ordered
<1>1. CASE Within(i, r) /\ Within(j, r)
  BY <1>1
<1>2. CASE ~(Within(i, r) /\ Within(j, r))
  <2>1. PICK a \in 1..N : lst'[i] = lst[a] /\ (a = i \/ (Within(i, r) /\ Within(a, r)))
                         /\ (Within(i, r) => Within(a, r))
    <3> HIDE DEF r
    <3>1. CASE Within(i, r)
      BY <1>0, <1>a, <3>1 DEF Within
    <3>2. CASE ~Within(i, r)
      BY <1>0, <1>a, <3>2 DEF Within
    <3> QED BY <3>1, <3>2
  <2>2. PICK b \in 1..N : lst'[j] = lst[b] /\ (b = j \/ (Within(j, r) /\ Within(b, r)))
                         /\ (Within(j, r) => Within(b, r))
    <3> HIDE DEF r
    <3>1. CASE Within(j, r)
      BY <1>0, <1>a, <3>1 DEF Within
    <3>2. CASE ~Within(j, r)
      BY <1>0, <1>a, <3>2 DEF Within
    <3> QED BY <3>1, <3>2
  <2>3. a < b /\ ~Together(a, b, r)
    <3> HIDE DEF r
    <3> QED BY <1>0, <1>2, <2>1, <2>2 DEF Within, Together
  <2>4. ASSUME NEW q, Disjoint(q, r), ~Together(i, j, q)
        PROVE  ~Together(a, b, q)
    <3> HIDE DEF r
    <3>1. \A k \in 1..N : ~(Within(k, q) /\ Within(k, r))
      BY <1>0, <2>4 DEF Disjoint
    <3> QED BY <1>2, <2>1, <2>2, <2>4, <3>1 DEF Together
  <2>5. ASSUME NEW k \in 1..Len(tasks)
        PROVE  ~Together(a, b, tasks[k])
    <3>1. Disjoint(tasks[k], r)
      BY <1>0 DEF Apart
    <3> QED BY <2>4, <3>1
  <2>6. ASSUME NEW u \in Threads, NEW q \in Parts(thread[u])
        PROVE  ~Together(a, b, q)
    <3>1. CASE u = t
      BY <1>0, <2>3, <3>1
    <3>2. CASE u # t
      <4>1. Disjoint(q, r)
        BY <1>0, <3>2 DEF Apart
      <4>2. ~Together(i, j, q)
        BY <3>2
      <4> QED BY <2>4, <4>1, <4>2
    <3> QED BY <3>1, <3>2
  <2>7. lst[a] <= lst[b]
    BY <2>3, <2>5, <2>6 DEF Ordered
  <2> QED BY <2>1, <2>2, <2>7
<1> QED BY <1>1, <1>2

-----------------------------------------------------------------------------
(* A task is taken from the queue. *)
LEMMA ClaimsTaken ==
  ASSUME Apart, Ordered, lst' = lst, N' = N, NEW t \in Threads,
         tasks \in Seq(Ranges), tasks # <<>>, tasks' = Tail(tasks),
         Parts(thread[t]) = {}, Parts(thread'[t]) = {Head(tasks)},
         \A u \in Threads : u # t => thread'[u] = thread[u]
  PROVE  Apart' /\ Ordered'
<1>1. /\ 1 \in 1..Len(tasks) /\ Head(tasks) = tasks[1]
      /\ \A k \in 1..Len(tasks') : k + 1 \in 1..Len(tasks) /\ tasks'[k] = tasks[k + 1] /\ k + 1 # 1
      /\ \A k \in 1..Len(tasks) : k # 1 => k - 1 \in 1..Len(tasks') /\ tasks'[k - 1] = tasks[k]
  OBVIOUS
<1>2. \A q, x : Disjoint(q, x) <=> Disjoint(x, q)
  BY DEF Disjoint
<1>3. \A i, j \in 1..Len(tasks') : i # j => Disjoint(tasks'[i], tasks'[j])
  <2> TAKE i, j \in 1..Len(tasks')
  <2> HAVE i # j
  <2>1. i + 1 \in 1..Len(tasks) /\ j + 1 \in 1..Len(tasks) /\ i + 1 # j + 1
    BY <1>1
  <2>2. Disjoint(tasks[i + 1], tasks[j + 1])
    BY <2>1 DEF Apart
  <2> QED BY <1>1, <2>2
<1>4. ASSUME NEW i \in 1..Len(tasks'), NEW u \in Threads, NEW r \in Parts(thread'[u])
      PROVE  Disjoint(tasks'[i], r)
  <2>1. i + 1 \in 1..Len(tasks) /\ i + 1 # 1 /\ tasks'[i] = tasks[i + 1]
    BY <1>1
  <2>2. CASE u = t
    <3>1. r = tasks[1]
      BY <1>1, <2>2
    <3>2. Disjoint(tasks[i + 1], tasks[1])
      BY <1>1, <2>1 DEF Apart
    <3> QED BY <2>1, <3>1, <3>2
  <2>3. CASE u # t
    <3>1. Disjoint(tasks[i + 1], r)
      BY <2>1, <2>3 DEF Apart
    <3> QED BY <2>1, <3>1
  <2> QED BY <2>2, <2>3
<1>5. ASSUME NEW u \in Threads, NEW v \in Threads, u # v,
             NEW r \in Parts(thread'[u]), NEW q \in Parts(thread'[v])
      PROVE  Disjoint(r, q)
  <2>1. CASE u # t /\ v # t
    BY <1>5, <2>1 DEF Apart
  <2>2. CASE u = t
    <3>1. r = tasks[1] /\ v # t /\ q \in Parts(thread[v])
      BY <1>1, <1>5, <2>2
    <3> QED BY <1>1, <3>1 DEF Apart
  <2>3. CASE v = t
    <3>1. q = tasks[1] /\ u # t /\ r \in Parts(thread[u])
      BY <1>1, <1>5, <2>3
    <3>2. Disjoint(tasks[1], r)
      BY <1>1, <3>1 DEF Apart
    <3> QED BY <1>2, <3>1, <3>2
  <2> QED BY <2>1, <2>2, <2>3
<1>6. Apart'
  BY <1>3, <1>4, <1>5 DEF Apart
<1>7. Ordered'
  <2> SUFFICES ASSUME NEW i \in 1..N, NEW j \in 1..N, i < j,
                      \A k \in 1..Len(tasks') : ~Together(i, j, tasks'[k]),
                      \A u \in Threads : \A q \in Parts(thread'[u]) : ~Together(i, j, q)
               PROVE  lst[i] <= lst[j]
    BY DEF Ordered
  <2>1. ASSUME NEW k \in 1..Len(tasks)
        PROVE  ~Together(i, j, tasks[k])
    <3>1. CASE k = 1
      BY <1>1, <3>1
    <3>2. CASE k # 1
      BY <1>1, <3>2
    <3> QED BY <3>1, <3>2
  <2>2. ASSUME NEW u \in Threads, NEW q \in Parts(thread[u])
        PROVE  ~Together(i, j, q)
    <3>1. u # t
      OBVIOUS
    <3> QED BY <3>1
  <2> QED BY <2>1, <2>2 DEF Ordered
<1> QED BY <1>6, <1>7

(* A part goes from a thread to the end of the queue. *)
LEMMA ClaimsSubmitted ==
  ASSUME Apart, Ordered, lst' = lst, N' = N, NEW t \in Threads, NEW r,
         tasks \in Seq(Ranges), r \in Ranges, tasks' = Append(tasks, r),
         r \in Parts(thread[t]),
         Parts(thread[t]) = Parts(thread'[t]) \cup {r},
         \A q \in Parts(thread'[t]) : Disjoint(r, q),
         \A u \in Threads : u # t => thread'[u] = thread[u]
  PROVE  Apart' /\ Ordered'
<1> DEFINE n == Len(tasks)
<1>1. /\ n \in Nat /\ Len(tasks') = n + 1 /\ tasks'[n + 1] = r
      /\ \A k \in 1..n : tasks'[k] = tasks[k]
      /\ \A k \in 1..Len(tasks') : k = n + 1 \/ k \in 1..n
  OBVIOUS
<1>2. \A q, x : Disjoint(q, x) <=> Disjoint(x, q)
  BY DEF Disjoint
<1>3. /\ \A k \in 1..n : Disjoint(tasks[k], r) /\ Disjoint(r, tasks[k])
      /\ \A u \in Threads : u # t => \A q \in Parts(thread[u]) : Disjoint(q, r) /\ Disjoint(r, q)
  BY <1>2 DEF Apart
<1>4. \A u \in Threads : Parts(thread'[u]) \subseteq Parts(thread[u])
  <2> TAKE u \in Threads
  <2>1. CASE u = t
    BY <2>1
  <2>2. CASE u # t
    BY <2>2
  <2> QED BY <2>1, <2>2
<1> HIDE DEF n
<1>5. ASSUME NEW i \in 1..Len(tasks'), NEW j \in 1..Len(tasks'), i # j
      PROVE  Disjoint(tasks'[i], tasks'[j])
  <2>1. CASE i = n + 1
    <3>1. j \in 1..n /\ tasks'[i] = r /\ tasks'[j] = tasks[j]
      BY <1>1, <1>5, <2>1
    <3> QED BY <1>3, <3>1
  <2>2. CASE j = n + 1
    <3>1. i \in 1..n /\ tasks'[j] = r /\ tasks'[i] = tasks[i]
      BY <1>1, <1>5, <2>2
    <3> QED BY <1>3, <3>1
  <2>3. CASE i \in 1..n /\ j \in 1..n
    <3>1. Disjoint(tasks[i], tasks[j])
      BY <1>5, <2>3 DEF Apart, n
    <3> QED BY <1>1, <2>3, <3>1
  <2> QED BY <1>1, <2>1, <2>2, <2>3
<1>6. ASSUME NEW i \in 1..Len(tasks'), NEW u \in Threads, NEW q \in Parts(thread'[u])
      PROVE  Disjoint(tasks'[i], q)
  <2>1. CASE i = n + 1
    <3>1. tasks'[i] = r
      BY <1>1, <2>1
    <3>2. CASE u = t
      BY <3>1, <3>2
    <3>3. CASE u # t
      BY <1>3, <3>1, <3>3
    <3> QED BY <3>2, <3>3
  <2>2. CASE i \in 1..n
    <3>1. Disjoint(tasks[i], q)
      BY <1>4, <2>2 DEF Apart, n
    <3> QED BY <1>1, <2>2, <3>1
  <2> QED BY <1>1, <2>1, <2>2
<1>7. ASSUME NEW u \in Threads, NEW v \in Threads, u # v,
             NEW x \in Parts(thread'[u]), NEW q \in Parts(thread'[v])
      PROVE  Disjoint(x, q)
  BY <1>4, <1>7 DEF Apart
<1>8. Apart'
  BY <1>5, <1>6, <1>7 DEF Apart
<1>9. Ordered'
  <2> SUFFICES ASSUME NEW i \in 1..N, NEW j \in 1..N, i < j,
                      \A k \in 1..Len(tasks') : ~Together(i, j, tasks'[k]),
                      \A u \in Threads : \A q \in Parts(thread'[u]) : ~Together(i, j, q)
               PROVE  lst[i] <= lst[j]
    BY DEF Ordered
  <2>1. n + 1 \in 1..Len(tasks') /\ \A k \in 1..n : k \in 1..Len(tasks')
    BY <1>1
  <2>2. ~Together(i, j, r)
    BY <1>1, <2>1
  <2>3. \A k \in 1..n : ~Together(i, j, tasks[k])
    BY <1>1, <2>1
  <2>4. ASSUME NEW u \in Threads, NEW q \in Parts(thread[u])
        PROVE  ~Together(i, j, q)
    <3>1. CASE u # t
      BY <3>1
    <3>2. CASE u = t /\ q # r
      BY <3>2
    <3> QED BY <2>2, <3>1, <3>2
  <2> QED BY <2>3, <2>4 DEF Ordered, n
<1> QED BY <1>8, <1>9

-----------------------------------------------------------------------------
(* The pivot's range is rearranged about it, whichever element is drawn. *)
LEMMA RandomPartitionSound ==
  ASSUME NEW n \in Nat, NEW l \in [1..n -> Int], NEW low \in 1..n, NEW high \in 1..n,
         low < high, NEW r \in randomPartitions(l, low, high)
  PROVE  /\ r.lst \in [1..n -> Int] /\ r.at \in low..high
         /\ Rearranged(n, l, r.lst, low, high)
         /\ \A k \in low..(r.at - 1) : r.lst[k] <= r.lst[r.at]
         /\ \A k \in (r.at + 1)..high : r.lst[k] >= r.lst[r.at]
<1>1. PICK p \in low..(high - 1) : r = partition(swap(l, p, high), low, high)
  BY DEF randomPartitions
<1>2. p \in 1..n /\ low \in Int /\ high \in Int /\ low <= p /\ p <= high /\ low <= high /\ high <= high
  BY <1>1
<1> DEFINE m == swap(l, p, high)
<1>3. m \in [1..n -> Int] /\ Rearranged(n, l, m, low, high)
  <2>1. Swapped(n, l, swap(l, p, high), p, high, low, high)
    BY <1>2, SwapRearranges
  <2> QED BY <2>1 DEF Swapped
<1>4. r = partition(m, low, high)
  BY <1>1
<1> HIDE DEF m
<1>5. /\ r.lst \in [1..n -> Int] /\ r.at \in low..high
      /\ Rearranged(n, m, r.lst, low, high)
      /\ \A k \in low..(r.at - 1) : r.lst[k] <= r.lst[r.at]
      /\ \A k \in (r.at + 1)..high : r.lst[k] >= r.lst[r.at]
  BY <1>3, <1>4, PartitionSound
<1>6. Rearranged(n, l, r.lst, low, high)
  BY <1>3, <1>5, RearrangedTwice
<1> QED BY <1>5, <1>6

(* Rearranging a range of the list rearranges the list. *)
LEMMA ListKept ==
  ASSUME Typed, input' = input, NEW t \in Threads,
         lst' \in [1..N -> Int], Rearranged(N, lst, lst', range(t).low, range(t).high)
  PROVE  lst' \in [1..N' -> Int] /\ Rearranged(N', input', lst', 1, N')
<1>1. N \in Nat /\ N' = N
  BY ListLength DEF Typed, N
<1>2. range(t).low \in 1..(N + 1) /\ range(t).high \in 0..N
  BY DEF Typed, range, Ranges
<1> DEFINE a == range(t).low
           b == range(t).high
<1>3. a \in Int /\ b \in Int /\ 1 <= a /\ b <= N /\ 1 \in Int /\ N \in Int
      /\ Rearranged(N, lst, lst', a, b)
  BY <1>1, <1>2
<1> HIDE DEF a, b
<1>4. Rearranged(N, lst, lst', 1, N)
  BY ONLY <1>1, <1>3, RearrangedWider
<1>5. Rearranged(N, input, lst', 1, N)
  BY <1>1, <1>4, RearrangedTwice DEF Typed
<1> QED BY <1>1, <1>5

(* Nobody but the thread that steps is elsewhere afterwards. *)
LEMMA OthersQueued ==
  ASSUME Typed, Queued, waiting' = waiting, NEW t \in Threads,
         \A u \in Threads : u # t => thread'[u] = thread[u],
         \A i \in 1..Len(waiting) : waiting[i] # t
  PROVE  Queued'
<1>1. \A i \in 1..Len(waiting) : waiting[i] \in Threads
  BY DEF Typed
<1>2. \A i \in 1..Len(waiting') : thread'[waiting'[i]].at \in Acquiring
  BY <1>1 DEF Queued, at
<1> QED BY <1>2 DEF Queued, at

(* Only who acquires is parked. *)
LEMMA NotWaiting ==
  ASSUME Queued, NEW t, at(t) \notin Acquiring
  PROVE  \A i \in 1..Len(waiting) : waiting[i] # t
BY DEF Queued

(* A worker that has a task before and after the step. *)
LEMMA OthersBusy ==
  ASSUME NEW t, \A u \in Threads : u # t => thread'[u] = thread[u],
         thread[t].at # "idle", thread'[t].at # "idle"
  PROVE  Busy' = Busy
BY ThreadsOf DEF Busy, at

(* A thread that is about to submit neither before nor after the step. *)
LEMMA OthersGranted ==
  ASSUME NEW t, \A u \in Threads : u # t => thread'[u] = thread[u],
         thread[t].at \notin {"executeLeft", "executeRight"},
         thread'[t].at \notin {"executeLeft", "executeRight"}
  PROVE  Granted' = Granted
BY DEF Granted, at

(* Who steps is where it may be; the others are where they were. *)
LEMMA OthersInPlace ==
  ASSUME InPlace, NEW t \in Threads,
         \A u \in Threads : u # t => thread'[u] = thread[u],
         t = Caller => thread'[t].at \notin {"idle", "release"},
         t # Caller => thread'[t].at \notin {"await", "done"},
         thread'[t].at \in {"acquireLeft", "executeLeft", "acquireRight", "executeRight"} =>
           thread'[t].range.low <= thread'[t].pivot /\ thread'[t].pivot <= thread'[t].range.high
  PROVE  InPlace'
<1>1. thread'[Caller].at \notin {"idle", "release"}
  BY ThreadsOf DEF InPlace, at
<1>2. \A w \in Workers : thread'[w].at \notin {"await", "done"}
  BY ThreadsOf DEF InPlace, at
<1>3. \A u \in Threads :
        thread'[u].at \in {"acquireLeft", "executeLeft", "acquireRight", "executeRight"} =>
          thread'[u].range.low <= thread'[u].pivot /\ thread'[u].pivot <= thread'[u].range.high
  BY DEF InPlace, at, range
<1> QED BY <1>1, <1>2, <1>3 DEF InPlace, at, range

(* All that follows from the list that was given stays with it. *)
LEMMA SameLists ==
  ASSUME input' = input
  PROVE  N' = N /\ maxTaskCount' = maxTaskCount /\ Ranges' = Ranges /\ Lists' = Lists
BY DEF N, maxTaskCount, getMaxTaskCount, Ranges, Lists

(* A task goes from the queue to a worker. *)
LEMMA TakeTaskKeeps ==
  ASSUME IInv, NEW w \in Workers, TakeTask(w)
  PROVE  IInv'
<1>1. /\ w \in Threads /\ w # Caller /\ thread[w].at = "idle" /\ tasks # <<>>
      /\ tasks' = Tail(tasks) /\ input' = input /\ lst' = lst /\ permits' = permits
      /\ waiting' = waiting /\ N' = N /\ Ranges' = Ranges /\ maxTaskCount' = maxTaskCount
  BY ThreadsOf, SameLists DEF TakeTask, at
<1>2. /\ Typed /\ InPlace /\ Queued /\ Counted /\ Apart /\ Ordered /\ N \in Nat
  BY ListLength DEF IInv, Typed
<1> DEFINE d == [thread[w] EXCEPT !.at = "sort", !.range = Head(tasks)]
<1>3. thread \in [Threads -> Holding] /\ tasks \in Seq(Ranges)
  BY <1>2 DEF Typed, Holding
<1>4. d \in Holding /\ d.at = "sort" /\ d.range = Head(tasks)
  <2>1. Head(tasks) \in Ranges /\ "sort" \in Steps /\ thread[w] \in Holding
    BY <1>1, <1>3 DEF Steps
  <2> QED BY <2>1 DEF Holding
<1>5. thread' = [thread EXCEPT ![w] = d]
  BY <1>1, <1>3 DEF TakeTask, Holding
<1> HIDE DEF d
<1>6. thread' \in [Threads -> Holding] /\ thread'[w] = d
      /\ \A u \in Threads : u # w => thread'[u] = thread[u]
  BY <1>1, <1>3, <1>4, <1>5
<1>7. Typed'
  <2>1. Holding = [at : Steps, range : Ranges, pivot : 1..(N + 1)]
    BY DEF Holding
  <2>2. Tail(tasks) \in Seq(Ranges)
    BY <1>1, <1>3
  <2> QED BY <1>1, <1>2, <1>6, <2>1, <2>2, SameLists DEF Typed
<1>8. InPlace'
  BY <1>1, <1>2, <1>4, <1>6, OthersInPlace
<1>9. Queued'
  <2>1. \A i \in 1..Len(waiting) : waiting[i] # w
    BY <1>1, <1>2, NotWaiting DEF at, Acquiring
  <2> QED BY <1>1, <1>2, <1>6, <2>1, OthersQueued
<1>10. Counted'
  <2>1. Busy' = Busy \cup {w} /\ w \notin Busy
    BY <1>1, <1>4, <1>6, ThreadsOf DEF Busy, at
  <2>2. Granted' = Granted
    BY <1>1, <1>4, <1>6, OthersGranted
  <2>3. Cardinality(Busy') = Cardinality(Busy) + 1
    BY <2>1, CountsTyped, CountOneMore
  <2>4. Len(tasks') = Len(tasks) - 1 /\ Len(tasks) \in Nat
    BY <1>1, <1>3
  <2>5. thread'[Caller].at = thread[Caller].at
    BY <1>1, <1>6, ThreadsOf
  <2> QED BY <1>1, <1>2, <2>2, <2>3, <2>4, <2>5, CountsTyped DEF Counted, at, Typed
<1>11. Apart' /\ Ordered'
  <2>1. Parts(thread[w]) = {} /\ Parts(thread'[w]) = {Head(tasks)}
    BY <1>1, <1>4, <1>6, PartsOf
  <2> QED BY <1>1, <1>2, <1>3, <1>6, <2>1, ClaimsTaken
<1> QED BY <1>7, <1>8, <1>9, <1>10, <1>11 DEF IInv

(* A short range is sorted: it is done with, and in order. *)
LEMMA TrimTerminalRecursionKeeps ==
  ASSUME IInv, NEW t \in Threads, TrimTerminalRecursion(t)
  PROVE  IInv'
<1>1. /\ thread[t].at = "sort" /\ goto(t, afterSort(t))
      /\ lst' = insertionSort(lst, range(t).low, range(t).high)
      /\ tasks' = tasks /\ input' = input /\ permits' = permits
      /\ waiting' = waiting /\ N' = N /\ Ranges' = Ranges /\ maxTaskCount' = maxTaskCount
  BY SameLists DEF TrimTerminalRecursion, at
<1>2. /\ Typed /\ InPlace /\ Queued /\ Counted /\ Apart /\ Ordered /\ N \in Nat
  BY ListLength DEF IInv, Typed
<1>3. afterSort(t) \in Steps /\ afterSort(t) = IF t = Caller THEN "await" ELSE "release"
  BY DEF afterSort, Steps
<1>4. /\ thread' \in [Threads -> [at : Steps, range : Ranges, pivot : 1..(N + 1)]]'
      /\ thread'[t].at = afterSort(t)
      /\ \A u \in Threads : u # t => thread'[u] = thread[u]
  BY <1>1, <1>2, <1>3, Going
<1>5. /\ lst' \in [1..N -> Int] /\ Rearranged(N, lst, lst', range(t).low, range(t).high)
      /\ SortedIn(lst', range(t).low, range(t).high)
  <2>1. range(t).low \in 1..(N + 1) /\ range(t).high \in 0..N /\ lst \in [1..N -> Int]
    BY <1>2 DEF Typed, range, Ranges
  <2> QED BY <1>1, <1>2, <2>1, InsertionSortSound
<1>6. Parts(thread'[t]) = {}
  BY <1>3, <1>4, PartsOf
<1>7. Typed'
  BY <1>1, <1>2, <1>4, <1>5, ListKept, SameLists DEF Typed
<1>8. InPlace'
  BY <1>2, <1>3, <1>4, OthersInPlace
<1>9. Queued'
  <2>1. \A i \in 1..Len(waiting) : waiting[i] # t
    BY <1>1, <1>2, NotWaiting DEF at, Acquiring
  <2> QED BY <1>1, <1>2, <1>4, <2>1, OthersQueued
<1>10. Counted'
  <2>1. Busy' = Busy
    BY <1>1, <1>3, <1>4, OthersBusy
  <2>2. Granted' = Granted
    BY <1>1, <1>3, <1>4, OthersGranted
  <2>3. thread'[Caller].at = "done" <=> thread[Caller].at = "done"
    BY <1>1, <1>3, <1>4, ThreadsOf
  <2> QED BY <1>1, <1>2, <2>1, <2>2, <2>3 DEF Counted, at
<1>11. Apart'
  BY <1>1, <1>2, <1>4, <1>6, ClaimsShrink
<1>12. Ordered'
  <2>1. ASSUME NEW i \in 1..N, NEW j \in 1..N, i < j, Within(i, range(t)), Within(j, range(t))
        PROVE  lst'[i] <= lst'[j]
    <3>1. i \in range(t).low..range(t).high /\ j \in range(t).low..range(t).high
      BY <2>1 DEF Within
    <3> QED BY <1>5, <2>1, <3>1 DEF SortedIn
  <2> QED BY <1>1, <1>2, <1>4, <1>5, <2>1, OrderKept DEF at
<1> QED BY <1>7, <1>8, <1>9, <1>10, <1>11, <1>12 DEF IInv

(* A range is divided: two parts in its place, the pivot where it belongs. *)
LEMMA RandomPartitionKeeps ==
  ASSUME IInv, NEW t \in Threads, RandomPartition(t)
  PROVE  IInv'
<1>1. /\ thread[t].at = "sort" /\ thread[t].range = range(t)
      /\ range(t).high - range(t).low > Threshold
      /\ tasks' = tasks /\ input' = input /\ permits' = permits
      /\ waiting' = waiting /\ N' = N /\ Ranges' = Ranges /\ maxTaskCount' = maxTaskCount
  BY SameLists DEF RandomPartition, at, range
<1>2. /\ Typed /\ InPlace /\ Queued /\ Counted /\ Apart /\ Ordered /\ N \in Nat
  BY ListLength DEF IInv, Typed
<1>3. PICK low, high : low = range(t).low /\ high = range(t).high
  OBVIOUS
<1>4. PICK p \in randomPartitions(lst, low, high) :
        /\ lst' = p.lst
        /\ thread' = [thread EXCEPT ![t].at = "acquireLeft", ![t].pivot = p.at]
  BY <1>3 DEF RandomPartition
<1>5. thread \in [Threads -> Holding] /\ thread[t] \in Holding
  BY <1>2 DEF Typed, Holding
<1>6. low \in 1..N /\ high \in 1..N /\ low < high /\ lst \in [1..N -> Int]
  <2>1. range(t).low \in 1..(N + 1) /\ range(t).high \in 0..N /\ lst \in [1..N -> Int]
    BY <1>2 DEF Typed, range, Ranges
  <2> QED BY <1>1, <1>2, <1>3, <2>1, ThresholdAssumption
<1>7. /\ lst' \in [1..N -> Int] /\ p.at \in low..high
      /\ Rearranged(N, lst, lst', low, high)
      /\ \A k \in low..(p.at - 1) : lst'[k] <= lst'[p.at]
      /\ \A k \in (p.at + 1)..high : lst'[k] >= lst'[p.at]
  <2>1. p \in randomPartitions(lst, low, high)
    OBVIOUS
  <2>2. PICK m, a : m = p.lst /\ a = p.at
    OBVIOUS
  <2>3. /\ m \in [1..N -> Int] /\ a \in low..high
        /\ Rearranged(N, lst, m, low, high)
        /\ \A k \in low..(a - 1) : m[k] <= m[a]
        /\ \A k \in (a + 1)..high : m[k] >= m[a]
    BY <1>2, <1>6, <2>1, <2>2, RandomPartitionSound
  <2> QED BY <1>4, <2>2, <2>3
<1> DEFINE d == [thread[t] EXCEPT !.at = "acquireLeft", !.pivot = p.at]
           left == [low |-> low, high |-> p.at - 1]
           right == [low |-> p.at + 1, high |-> high]
<1>8. d \in Holding /\ d.at = "acquireLeft" /\ d.pivot = p.at /\ d.range = range(t)
  <2>1. p.at \in 1..(N + 1) /\ "acquireLeft" \in Steps
    BY <1>2, <1>6, <1>7 DEF Steps
  <2> QED BY <1>1, <1>5, <2>1 DEF Holding
<1>9. thread' = [thread EXCEPT ![t] = d]
  BY <1>4, <1>5 DEF Holding
<1>10. Parts(d) = {left, right}
  BY <1>3, <1>8, PartsOf
<1> HIDE DEF d
<1>11. thread' \in [Threads -> Holding] /\ thread'[t] = d
       /\ \A u \in Threads : u # t => thread'[u] = thread[u]
  BY <1>5, <1>8, <1>9
<1>12. Typed'
  <2>1. Holding = [at : Steps, range : Ranges, pivot : 1..(N + 1)]
    BY DEF Holding
  <2>2. lst' \in [1..N' -> Int] /\ Rearranged(N', input', lst', 1, N')
    BY <1>1, <1>2, <1>3, <1>7, ListKept
  <2> QED BY <1>1, <1>2, <1>11, <2>1, <2>2, SameLists DEF Typed
<1>13. InPlace'
  <2>1. d.range.low <= d.pivot /\ d.pivot <= d.range.high
    BY <1>3, <1>6, <1>7, <1>8
  <2> QED BY <1>2, <1>8, <1>11, <2>1, OthersInPlace
<1>14. Queued'
  <2>1. \A i \in 1..Len(waiting) : waiting[i] # t
    BY <1>1, <1>2, NotWaiting DEF at, Acquiring
  <2> QED BY <1>1, <1>2, <1>11, <2>1, OthersQueued
<1>15. Counted'
  <2>1. Busy' = Busy
    BY <1>1, <1>8, <1>11, OthersBusy
  <2>2. Granted' = Granted
    BY <1>1, <1>8, <1>11, OthersGranted
  <2>3. thread'[Caller].at = "done" <=> thread[Caller].at = "done"
    BY <1>1, <1>8, <1>11, ThreadsOf
  <2> QED BY <1>1, <1>2, <2>1, <2>2, <2>3 DEF Counted, at
<1>16. Apart'
  <2>1. left \in Ranges /\ right \in Ranges
    BY <1>2, <1>6, <1>7 DEF Ranges
  <2>2. \A r \in Parts(thread'[t]) : r.low >= low /\ r.high <= high
    BY <1>6, <1>7, <1>10, <1>11
  <2>3. Parts(thread[t]) = {range(t)}
    BY <1>1, PartsOf
  <2>4. Disjoint(left, right) /\ Disjoint(right, left)
    BY <1>6, <1>7 DEF Disjoint, Within
  <2>5. \A r, q \in Parts(thread'[t]) : r # q => Disjoint(r, q)
    BY <1>10, <1>11, <2>4
  <2>6. \A r \in Parts(thread'[t]) : \E q \in Parts(thread[t]) :
          q.low <= r.low /\ r.high <= q.high
    <3> TAKE r \in Parts(thread'[t])
    <3>1. r.low \in Int /\ r.low >= low
      BY <1>6, <1>7, <1>10, <1>11
    <3> QED BY <1>3, <1>6, <2>2, <2>3, <3>1
  <2>7. Parts(thread'[t]) \subseteq Ranges
    BY <1>10, <1>11, <2>1
  <2> QED BY <1>1, <1>2, <1>11, <2>5, <2>6, <2>7, ClaimsShrink
<1>17. Ordered'
  <2>1. ASSUME NEW i \in 1..N, NEW j \in 1..N, i < j,
               Within(i, range(t)), Within(j, range(t)),
               \A q \in Parts(thread'[t]) : ~Together(i, j, q)
        PROVE  lst'[i] <= lst'[j]
    <3>1. i \in low..high /\ j \in low..high
      BY <1>3, <1>6, <2>1 DEF Within
    <3>2. ~Together(i, j, left) /\ ~Together(i, j, right)
      BY <1>10, <1>11, <2>1
    <3>3. i <= p.at /\ p.at <= j
      BY <1>6, <1>7, <2>1, <3>1, <3>2 DEF Together, Within
    <3>4. lst'[i] \in Int /\ lst'[j] \in Int /\ lst'[p.at] \in Int
      <4>1. p.at \in 1..N
        BY <1>2, <1>6, <1>7
      <4> QED BY <1>7, <4>1
    <3>5. lst'[i] <= lst'[p.at] /\ lst'[p.at] <= lst'[j]
      <4>1. i = p.at \/ i \in low..(p.at - 1)
        BY <1>6, <1>7, <3>1, <3>3
      <4>2. j = p.at \/ j \in (p.at + 1)..high
        BY <1>6, <1>7, <3>1, <3>3
      <4> QED BY <1>7, <3>4, <4>1, <4>2
    <3> QED BY <3>4, <3>5
  <2>2. Rearranged(N, lst, lst', range(t).low, range(t).high) /\ at(t) = "sort"
    BY <1>1, <1>3, <1>7 DEF at
  <2> QED BY <1>1, <1>2, <1>7, <1>11, <2>1, <2>2, OrderKept
<1> QED BY <1>12, <1>13, <1>14, <1>15, <1>16, <1>17 DEF IInv

(* A thread gets what it asks for. *)
LEMMA GrantKeeps ==
  ASSUME IInv, NEW t \in Threads, at(t) \in Acquiring, permits >= demand(t),
         permits' = permits - demand(t), goto(t, granted(at(t))),
         lst' = lst, tasks' = tasks, input' = input, waiting' \in Seq(Threads)
  PROVE  /\ Typed' /\ InPlace' /\ Counted' /\ Apart' /\ Ordered'
         /\ \A u \in Threads : u # t => thread'[u] = thread[u]
<1>1. /\ N' = N /\ Ranges' = Ranges /\ maxTaskCount' = maxTaskCount /\ Lists' = Lists
  BY SameLists
<1>2. /\ Typed /\ InPlace /\ Queued /\ Counted /\ Apart /\ Ordered /\ N \in Nat
      /\ maxTaskCount \in Nat /\ permits \in Nat
  BY ListLength DEF IInv, Typed
<1>3. /\ thread[t].at = "acquireLeft" => granted(at(t)) = "executeLeft"
      /\ thread[t].at = "acquireRight" => granted(at(t)) = "executeRight"
      /\ thread[t].at = "await" => granted(at(t)) = "done"
      /\ thread[t].at \in {"acquireLeft", "acquireRight", "await"}
      /\ granted(at(t)) \in Steps
  BY DEF granted, at, Acquiring, Steps
<1>4. /\ thread' \in [Threads -> [at : Steps, range : Ranges, pivot : 1..(N + 1)]]'
      /\ thread'[t].at = granted(at(t)) /\ thread'[t].range = thread[t].range
      /\ thread'[t].pivot = thread[t].pivot
      /\ \A u \in Threads : u # t => thread'[u] = thread[u]
  BY <1>1, <1>2, <1>3, Going
<1>5. demand(t) = IF thread[t].at = "await" THEN maxTaskCount ELSE 1
  BY DEF demand, at
<1>6. /\ thread[t].at = "await" => t = Caller
      /\ thread[t].at # "await" => thread[t].range.low <= thread[t].pivot
                                   /\ thread[t].pivot <= thread[t].range.high
  BY <1>2, <1>3, ThreadsOf DEF InPlace, at, range
<1>7. Typed'
  <2>1. permits' \in Nat
    BY <1>2, <1>5
  <2> QED BY <1>1, <1>2, <1>4, <2>1 DEF Typed
<1>8. InPlace'
  <2>1. /\ t = Caller => thread'[t].at \notin {"idle", "release"}
        /\ t # Caller => thread'[t].at \notin {"await", "done"}
    BY <1>3, <1>4, <1>6
  <2>2. thread'[t].at \in {"acquireLeft", "executeLeft", "acquireRight", "executeRight"} =>
           thread'[t].range.low <= thread'[t].pivot /\ thread'[t].pivot <= thread'[t].range.high
    BY <1>3, <1>4, <1>6
  <2> QED BY <1>2, <1>4, <2>1, <2>2, OthersInPlace
<1>9. Counted'
  <2>1. Busy' = Busy
    BY <1>3, <1>4, OthersBusy
  <2>2. /\ Cardinality(Busy) \in Nat /\ Cardinality(Granted) \in Nat /\ Len(tasks) \in Nat
    BY <1>2, CountsTyped DEF Typed
  <2>3. permits + Len(tasks) + Cardinality(Busy) + Cardinality(Granted) =
        IF thread[Caller].at = "done" THEN 0 ELSE maxTaskCount
    BY <1>2 DEF Counted, at
  <2>4. CASE thread[t].at = "await"
    <3>1. Granted' = Granted
      BY <1>3, <1>4, <2>4, OthersGranted
    <3>2. thread[Caller].at = "await" /\ thread'[Caller].at = "done" /\ permits' = permits - maxTaskCount
      BY <1>3, <1>4, <1>5, <1>6, <2>4
    <3>3. permits >= maxTaskCount
      BY <1>5, <2>4
    <3> QED BY <1>1, <1>2, <2>1, <2>2, <2>3, <3>1, <3>2, <3>3 DEF Counted, at
  <2>5. CASE thread[t].at # "await"
    <3>1. Granted' = Granted \cup {t} /\ t \notin Granted
      BY <1>3, <1>4, <2>5 DEF Granted, at
    <3>2. Cardinality(Granted') = Cardinality(Granted) + 1
      BY <3>1, CountsTyped, CountOneMore
    <3>3. (thread'[Caller].at = "done" <=> thread[Caller].at = "done") /\ permits' = permits - 1
      BY <1>3, <1>4, <1>5, <2>5, ThreadsOf
    <3>4. permits \in Nat /\ maxTaskCount \in Nat /\ maxTaskCount' = maxTaskCount
      BY <1>1, <1>2, ListLength DEF Typed
    <3>5. Len(tasks') = Len(tasks) /\ Cardinality(Busy') = Cardinality(Busy)
      BY <1>4, <2>1
    <3>6. permits' + Len(tasks') + Cardinality(Busy') + Cardinality(Granted') =
          IF thread'[Caller].at = "done" THEN 0 ELSE maxTaskCount
      BY ONLY <2>2, <2>3, <3>2, <3>3, <3>4, <3>5
    <3> QED BY <3>4, <3>6 DEF Counted, at
  <2> QED BY <2>4, <2>5
<1>10. Apart' /\ Ordered'
  <2> DEFINE d == thread[t]
             e == thread'[t]
  <2>0. e.range = d.range /\ e.pivot = d.pivot
    BY <1>3, <1>4
  <2> HIDE DEF d, e
  <2>1. Parts(thread'[t]) = Parts(thread[t])
    <3>1. CASE d.at = "acquireLeft"
      <4>1. e.at = "executeLeft"
        BY <1>3, <1>4, <3>1 DEF d, e
      <4> QED BY <2>0, <3>1, <4>1 DEF d, e, Parts
    <3>2. CASE d.at = "acquireRight"
      <4>1. e.at = "executeRight"
        BY <1>3, <1>4, <3>2 DEF d, e
      <4> QED BY <2>0, <3>2, <4>1 DEF d, e, Parts
    <3>3. CASE d.at = "await"
      <4>1. e.at = "done"
        BY <1>3, <1>4, <3>3 DEF d, e
      <4> QED BY <3>3, <4>1 DEF d, e, Parts
    <3> QED BY <1>3, <3>1, <3>2, <3>3 DEF d
  <2> QED BY <1>1, <1>2, <1>4, <2>1, ClaimsSame
<1> QED BY <1>4, <1>7, <1>8, <1>9, <1>10

(* acquire, with permits to be had. *)
LEMMA AcquireKeeps ==
  ASSUME IInv, NEW t \in Threads, Acquire(t)
  PROVE  IInv'
<1>1. /\ waiting' = waiting /\ waiting' \in Seq(Threads) /\ Typed /\ Queued
  BY DEF Acquire, IInv, Typed
<1>2. /\ Typed' /\ InPlace' /\ Counted' /\ Apart' /\ Ordered'
      /\ \A u \in Threads : u # t => thread'[u] = thread[u]
  BY <1>1, GrantKeeps DEF Acquire
<1>3. \A i \in 1..Len(waiting) : waiting[i] # t
  BY DEF Acquire, Waits
<1>4. Queued'
  BY <1>1, <1>2, <1>3, OthersQueued
<1> QED BY <1>2, <1>4 DEF IInv

(* The first of the queue is served. *)
LEMMA UnparkKeeps ==
  ASSUME IInv, NEW t \in Threads, Unpark(t)
  PROVE  IInv'
<1>1. /\ Typed /\ Queued /\ waiting \in Seq(Threads) /\ waiting # <<>> /\ Head(waiting) = t
      /\ waiting' = Tail(waiting)
  BY DEF Unpark, IInv, Typed
<1>2. /\ 1 \in 1..Len(waiting) /\ waiting[1] = t /\ waiting' \in Seq(Threads)
      /\ \A i \in 1..Len(waiting') :
           i + 1 \in 1..Len(waiting) /\ waiting'[i] = waiting[i + 1] /\ i + 1 # 1
  BY <1>1
<1>3. at(t) \in Acquiring
  BY <1>1, <1>2 DEF Queued
<1>4. /\ Typed' /\ InPlace' /\ Counted' /\ Apart' /\ Ordered'
      /\ \A u \in Threads : u # t => thread'[u] = thread[u]
  BY <1>2, <1>3, GrantKeeps DEF Unpark
<1>5. ASSUME NEW i \in 1..Len(waiting')
      PROVE  thread'[waiting'[i]].at \in Acquiring
  <2>1. i + 1 \in 1..Len(waiting) /\ waiting'[i] = waiting[i + 1] /\ i + 1 # 1
    BY <1>2
  <2>2. waiting[i + 1] # t /\ waiting[i + 1] \in Threads
    BY <1>1, <1>2, <2>1 DEF Queued
  <2>3. at(waiting[i + 1]) \in Acquiring
    BY <1>1, <2>1 DEF Queued
  <2> QED BY <1>4, <2>1, <2>2, <2>3 DEF at
<1>6. ASSUME NEW i \in 1..Len(waiting'), NEW j \in 1..Len(waiting'), waiting'[i] = waiting'[j]
      PROVE  i = j
  <2>1. i + 1 \in 1..Len(waiting) /\ j + 1 \in 1..Len(waiting) /\ waiting[i + 1] = waiting[j + 1]
    BY <1>2, <1>6
  <2>2. i + 1 = j + 1
    BY <1>1, <2>1 DEF Queued
  <2> QED BY <2>2
<1>7. Queued'
  BY <1>5, <1>6 DEF Queued, at
<1> QED BY <1>4, <1>7 DEF IInv

(* acquire, without. *)
LEMMA ParkKeeps ==
  ASSUME IInv, NEW t \in Threads, Park(t)
  PROVE  IInv'
<1>1. /\ Typed /\ InPlace /\ Queued /\ Counted /\ Apart /\ Ordered
      /\ lst' = lst /\ permits' = permits /\ tasks' = tasks /\ thread' = thread
      /\ input' = input /\ waiting' = Append(waiting, t) /\ at(t) \in Acquiring /\ ~Waits(t)
      /\ waiting \in Seq(Threads)
  BY DEF Park, IInv, Typed
<1>2. N' = N /\ Ranges' = Ranges /\ maxTaskCount' = maxTaskCount /\ Lists' = Lists
  BY <1>1, SameLists
<1> DEFINE n == Len(waiting)
<1>3. /\ n \in Nat /\ Len(waiting') = n + 1 /\ waiting'[n + 1] = t
      /\ \A i \in 1..n : waiting'[i] = waiting[i] /\ waiting[i] # t
      /\ \A i \in 1..Len(waiting') : i = n + 1 \/ i \in 1..n
  BY <1>1 DEF Waits
<1>4. Typed'
  BY <1>1, <1>2 DEF Typed
<1>5. InPlace'
  BY <1>1 DEF InPlace, at, range
<1>6. Counted'
  BY <1>1, <1>2 DEF Counted, Busy, Granted, at
<1>7. Apart' /\ Ordered'
  BY <1>1, <1>2, ClaimsSame
<1>8. Queued'
  <2> HIDE DEF n
  <2>1. \A i \in 1..n : thread[waiting[i]].at \in Acquiring
    BY <1>1 DEF Queued, at, n
  <2>2. \A i, j \in 1..n : waiting[i] = waiting[j] => i = j
    BY <1>1 DEF Queued, n
  <2>3. \A i \in 1..Len(waiting') : thread'[waiting'[i]].at \in Acquiring
    BY <1>1, <1>3, <2>1 DEF at
  <2>4. \A i, j \in 1..Len(waiting') : waiting'[i] = waiting'[j] => i = j
    BY <1>3, <2>2
  <2> QED BY <2>3, <2>4 DEF Queued, at
<1> QED BY <1>4, <1>5, <1>6, <1>7, <1>8 DEF IInv

(* The permit taken for a task goes with the task, and so does its range. *)
LEMMA ExecuteKeeps ==
  ASSUME IInv, NEW t \in Threads, Execute(t)
  PROVE  IInv'
<1> DEFINE step == IF thread[t].at = "executeLeft" THEN "acquireRight" ELSE afterSort(t)
           left == [low |-> thread[t].range.low, high |-> thread[t].pivot - 1]
           right == [low |-> thread[t].pivot + 1, high |-> thread[t].range.high]
           r == IF thread[t].at = "executeLeft" THEN left ELSE right
<1>1. /\ thread[t].at \in {"executeLeft", "executeRight"}
      /\ goto(t, step) /\ tasks' = Append(tasks, r)
      /\ lst' = lst /\ permits' = permits /\ waiting' = waiting /\ input' = input
  BY DEF Execute, at, Left, Right, range
<1>2. /\ Typed /\ InPlace /\ Queued /\ Counted /\ Apart /\ Ordered /\ N \in Nat
      /\ tasks \in Seq(Ranges)
  BY ListLength DEF IInv, Typed
<1>3. /\ N' = N /\ Ranges' = Ranges /\ maxTaskCount' = maxTaskCount /\ Lists' = Lists
  BY <1>1, SameLists
<1>4. /\ step \in Steps
      /\ thread[t].at = "executeLeft" => step = "acquireRight"
      /\ thread[t].at = "executeRight" => step = IF t = Caller THEN "await" ELSE "release"
  BY <1>1 DEF afterSort, Steps
<1>5. /\ Parts(thread[t]) = IF thread[t].at = "executeLeft" THEN {left, right} ELSE {right}
      /\ Parts(thread[t]) \subseteq Ranges
      /\ thread[t].range.low <= thread[t].pivot /\ thread[t].pivot <= thread[t].range.high
  BY <1>1, <1>2, PartsOf, PartsTyped DEF InPlace, at, range
<1>6. r \in Parts(thread[t]) /\ r \in Ranges
  BY <1>1, <1>5
<1>7. Disjoint(left, right)
  <2>1. thread[t].pivot \in Int
    BY <1>2 DEF Typed
  <2> QED BY <2>1 DEF Disjoint, Within
<1> HIDE DEF step
<1>8. /\ thread' \in [Threads -> [at : Steps, range : Ranges, pivot : 1..(N + 1)]]'
      /\ thread'[t].at = step /\ thread'[t].range = thread[t].range
      /\ thread'[t].pivot = thread[t].pivot
      /\ \A u \in Threads : u # t => thread'[u] = thread[u]
  BY <1>1, <1>2, <1>3, <1>4, Going
<1>9. Parts(thread'[t]) = IF thread[t].at = "executeLeft" THEN {right} ELSE {}
  BY <1>1, <1>4, <1>8, PartsOf
<1>10. Typed'
  <2>1. tasks' \in Seq(Ranges)
    BY <1>1, <1>2, <1>6
  <2> QED BY <1>1, <1>2, <1>3, <1>8, <2>1 DEF Typed
<1>11. InPlace'
  <2>1. /\ t = Caller => thread'[t].at \notin {"idle", "release"}
        /\ t # Caller => thread'[t].at \notin {"await", "done"}
    BY <1>1, <1>4, <1>8
  <2>2. thread'[t].range.low <= thread'[t].pivot /\ thread'[t].pivot <= thread'[t].range.high
    BY <1>5, <1>8
  <2> QED BY <1>2, <1>8, <2>1, <2>2, OthersInPlace
<1>12. Queued'
  <2>1. \A i \in 1..Len(waiting) : waiting[i] # t
    BY <1>1, <1>2, NotWaiting DEF at, Acquiring
  <2> QED BY <1>1, <1>2, <1>8, <2>1, OthersQueued
<1>13. Counted'
  <2>1. Busy' = Busy
    BY <1>1, <1>4, <1>8, OthersBusy
  <2>2. Granted' = Granted \ {t} /\ t \in Granted
    BY <1>1, <1>4, <1>8 DEF Granted, at
  <2>3. Cardinality(Granted') = Cardinality(Granted) - 1
    BY <2>2, CountsTyped, CountOneLess
  <2>4. Len(tasks') = Len(tasks) + 1 /\ Len(tasks) \in Nat
    BY <1>1, <1>2
  <2>5. thread'[Caller].at = "done" <=> thread[Caller].at = "done"
    BY <1>1, <1>4, <1>8, ThreadsOf
  <2> QED BY <1>1, <1>2, <1>3, <2>1, <2>3, <2>4, <2>5, CountsTyped DEF Counted, at, Typed
<1>14. Apart' /\ Ordered'
  <2>1. Parts(thread[t]) = Parts(thread'[t]) \cup {r}
    BY <1>1, <1>5, <1>9
  <2>2. \A q \in Parts(thread'[t]) : Disjoint(r, q)
    BY <1>1, <1>7, <1>9
  <2> HIDE DEF r
  <2> QED BY <1>1, <1>2, <1>3, <1>6, <1>8, <2>1, <2>2, ClaimsSubmitted
<1> QED BY <1>10, <1>11, <1>12, <1>13, <1>14 DEF IInv

(* A worker is done, and its permit is free. *)
LEMMA ReleaseKeeps ==
  ASSUME IInv, NEW w \in Threads, Release(w)
  PROVE  IInv'
<1>1. /\ thread[w].at = "release" /\ permits' = permits + 1
      /\ thread' = [thread EXCEPT ![w] = NoTask]
      /\ lst' = lst /\ waiting' = waiting /\ tasks' = tasks /\ input' = input
  BY DEF Release, at
<1>2. /\ Typed /\ InPlace /\ Queued /\ Counted /\ Apart /\ Ordered /\ N \in Nat
  BY ListLength DEF IInv, Typed
<1>3. /\ N' = N /\ Ranges' = Ranges /\ maxTaskCount' = maxTaskCount /\ Lists' = Lists
  BY <1>1, SameLists
<1>4. w # Caller /\ w \in Workers
  BY <1>1, <1>2, ThreadsOf DEF InPlace, at
<1>5. thread \in [Threads -> Holding] /\ NoTask \in Holding /\ NoTask.at = "idle"
  BY <1>2 DEF Typed, Holding, NoTask, NoRange, Steps, Ranges
<1>6. /\ thread' \in [Threads -> Holding] /\ thread'[w].at = "idle"
      /\ \A u \in Threads : u # w => thread'[u] = thread[u]
  BY <1>1, <1>5
<1>7. Typed'
  <2>1. Holding = [at : Steps, range : Ranges, pivot : 1..(N + 1)] /\ permits' \in Nat
    BY <1>1, <1>2 DEF Holding, Typed
  <2> QED BY <1>1, <1>2, <1>3, <1>6, <2>1 DEF Typed
<1>8. InPlace'
  BY <1>2, <1>4, <1>6, OthersInPlace
<1>9. Queued'
  <2>1. \A i \in 1..Len(waiting) : waiting[i] # w
    BY <1>1, <1>2, NotWaiting DEF at, Acquiring
  <2> QED BY <1>1, <1>2, <1>6, <2>1, OthersQueued
<1>10. Counted'
  <2>1. Busy' = Busy \ {w} /\ w \in Busy
    BY <1>1, <1>4, <1>6, ThreadsOf DEF Busy, at
  <2>2. Granted' = Granted
    BY <1>1, <1>6, OthersGranted
  <2>3. Cardinality(Busy') = Cardinality(Busy) - 1
    BY <2>1, CountsTyped, CountOneLess
  <2>4. thread'[Caller].at = thread[Caller].at
    BY <1>4, <1>6, ThreadsOf
  <2>5. permits \in Nat /\ Len(tasks) \in Nat
    BY <1>2 DEF Typed
  <2> QED BY <1>1, <1>2, <1>3, <2>2, <2>3, <2>4, <2>5, CountsTyped DEF Counted, at
<1>11. Apart' /\ Ordered'
  <2>1. Parts(thread[w]) = {} /\ Parts(thread'[w]) = {}
    BY <1>1, <1>6, PartsOf
  <2>2. \A u \in Threads : Parts(thread'[u]) = Parts(thread[u])
    BY <1>6, <2>1
  <2> QED BY <1>1, <1>2, <1>3, <2>2, ClaimsSame
<1> QED BY <1>7, <1>8, <1>9, <1>10, <1>11 DEF IInv

-----------------------------------------------------------------------------
(* The caller has the whole list, and every permit is free. *)
LEMMA InitHolds == Init => IInv
<1> SUFFICES ASSUME Init PROVE IInv
  OBVIOUS
<1>1. /\ input \in Lists /\ lst = input /\ permits = maxTaskCount /\ waiting = <<>> /\ tasks = <<>>
      /\ N \in Nat /\ input \in [1..N -> Int] /\ maxTaskCount \in Nat
  BY ListLength DEF Init
<1> DEFINE d == [NoTask EXCEPT !.at = "sort", !.range.high = N]
<1>2. d \in Holding /\ d.at = "sort" /\ d.range = [low |-> 1, high |-> N]
  <2> DEFINE r == [NoTask.range EXCEPT !.high = N]
  <2>1. r = [low |-> 1, high |-> N]
    BY DEF NoTask, NoRange
  <2>2. NoTask = [at |-> "idle", range |-> NoRange, pivot |-> 1]
    BY DEF NoTask
  <2>3. d = [NoTask EXCEPT !.at = "sort", !.range = r]
    BY <2>2
  <2> HIDE DEF r, d
  <2>4. d = [at |-> "sort", range |-> r, pivot |-> 1]
    BY <2>2, <2>3
  <2> QED BY <1>1, <2>1, <2>4 DEF Holding, Steps, Ranges
<1>3. NoTask \in Holding /\ NoTask.at = "idle"
  BY <1>1 DEF Holding, NoTask, NoRange, Steps, Ranges
<1>4. thread = [t \in Threads |-> IF t = Caller THEN d ELSE NoTask]
  BY DEF Init
<1> HIDE DEF d
<1>5. /\ thread \in [Threads -> Holding] /\ thread[Caller] = d
      /\ \A w \in Workers : thread[w] = NoTask
  BY <1>2, <1>3, <1>4, ThreadsOf
<1>6. Typed
  BY <1>1, <1>5, RearrangedSelf DEF Typed, Holding
<1>7. InPlace
  <2>1. \A t \in Threads : thread[t].at \in {"sort", "idle"}
    BY <1>2, <1>3, <1>5, ThreadsOf
  <2> QED BY <1>2, <1>3, <1>5, <2>1 DEF InPlace, at
<1>8. Queued
  BY <1>1 DEF Queued
<1>9. Counted
  <2>1. Busy = {} /\ Granted = {}
    BY <1>2, <1>3, <1>5, ThreadsOf DEF Busy, Granted, at
  <2>2. Cardinality(Busy) = 0 /\ Cardinality(Granted) = 0
    BY <2>1, FS_EmptySet
  <2>3. thread[Caller].at # "done" /\ Len(tasks) = 0
    BY <1>1, <1>2, <1>5
  <2> QED BY <1>1, <2>2, <2>3 DEF Counted, at
<1>10. /\ Parts(thread[Caller]) = {[low |-> 1, high |-> N]}
       /\ \A t \in Threads : t # Caller => Parts(thread[t]) = {}
  BY <1>2, <1>3, <1>5, PartsOf, ThreadsOf
<1>11. Apart
  <2>1. \A t, u \in Threads : t # u =>
          \A r \in Parts(thread[t]), q \in Parts(thread[u]) : Disjoint(r, q)
    BY <1>10
  <2>2. Len(tasks) = 0 /\ 1..0 = {}
    BY <1>1
  <2> QED BY <2>1, <2>2 DEF Apart
<1>12. Ordered
  <2> DEFINE r == [low |-> 1, high |-> N]
  <2>1. \A i, j \in 1..N : Together(i, j, r)
    BY <1>1 DEF Together, Within
  <2>2. r \in Parts(thread[Caller]) /\ Caller \in Threads
    BY <1>10, ThreadsOf
  <2> HIDE DEF r
  <2> QED BY <2>1, <2>2 DEF Ordered
<1> QED BY <1>6, <1>7, <1>8, <1>9, <1>11, <1>12 DEF IInv

(* One step of any thread. *)
LEMMA NextKeeps == IInv /\ [Next]_vars => IInv'
<1> SUFFICES ASSUME IInv, [Next]_vars PROVE IInv'
  OBVIOUS
<1>1. CASE UNCHANGED vars
  <2>1. /\ lst' = lst /\ permits' = permits /\ waiting' = waiting /\ tasks' = tasks
        /\ thread' = thread /\ input' = input /\ Typed /\ InPlace /\ Queued /\ Counted
        /\ Apart /\ Ordered
    BY <1>1 DEF vars, IInv
  <2>2. N' = N /\ Ranges' = Ranges /\ maxTaskCount' = maxTaskCount /\ Lists' = Lists
    BY <2>1, SameLists
  <2>3. Typed' /\ InPlace' /\ Queued'
    BY <2>1, <2>2 DEF Typed, InPlace, Queued, at, range
  <2>4. Counted'
    BY <2>1, <2>2 DEF Counted, Busy, Granted, at
  <2>5. Apart' /\ Ordered'
    BY <2>1, <2>2, ClaimsSame
  <2> QED BY <2>3, <2>4, <2>5 DEF IInv
<1>2. ASSUME NEW t \in Threads, Step(t) PROVE IInv'
  <2>1. CASE t \in Workers /\ TakeTask(t)
    BY <2>1, TakeTaskKeeps
  <2>2. CASE TrimTerminalRecursion(t)
    BY <2>2, TrimTerminalRecursionKeeps
  <2>3. CASE RandomPartition(t)
    BY <2>3, RandomPartitionKeeps
  <2>4. CASE Acquire(t)
    BY <2>4, AcquireKeeps
  <2>5. CASE Park(t)
    BY <2>5, ParkKeeps
  <2>6. CASE Unpark(t)
    BY <2>6, UnparkKeeps
  <2>7. CASE Execute(t)
    BY <2>7, ExecuteKeeps
  <2>8. CASE Release(t)
    BY <2>8, ReleaseKeeps
  <2> QED BY <1>2, <2>1, <2>2, <2>3, <2>4, <2>5, <2>6, <2>7, <2>8 DEF Step
<1> QED BY <1>1, <1>2 DEF Next, Returned

(* Whatever the pivots and the schedule: the ranges are apart, the elements *)
(* across them in order, and every permit is accounted for.                 *)
THEOREM Invariant == SafetySpec => []IInv
BY InitHolds, NextKeeps, PTL DEF SafetySpec

-----------------------------------------------------------------------------
(* ToSort is what Parts finds in a thread's record. *)
LEMMA ToSortParts ==
  ASSUME NEW t
  PROVE  ToSort(t) = Parts(thread[t])
BY DEF ToSort, Parts, Left, Right, at, range

(* The invariant says what RangesInOrder asks for, claim by claim. *)
LEMMA OrderHolds == IInv => RangesInOrder
<1> SUFFICES ASSUME IInv PROVE RangesInOrder
  OBVIOUS
<1>1. /\ Typed /\ InPlace /\ Queued /\ Counted /\ Apart /\ Ordered /\ N \in Nat
      /\ maxTaskCount \in Nat
  BY ListLength DEF IInv, Typed
<1>2. TypeOK
  <2>1. lst \in [1..N -> {input[i] : i \in 1..N}]
    <3>1. lst \in [1..N -> Int] /\ Rearranged(N, input, lst, 1, N)
      BY <1>1 DEF Typed
    <3>2. \A i \in 1..N : \E j \in 1..N : lst[i] = input[j]
      BY <3>1 DEF Rearranged
    <3> QED BY <3>1, <3>2
  <2>2. permits \in 0..maxTaskCount
    <3>1. permits \in Nat /\ Len(tasks) \in Nat
      BY <1>1 DEF Typed
    <3>2. permits + Len(tasks) + Cardinality(Busy) + Cardinality(Granted) <= maxTaskCount
      <4>1. CASE at(Caller) = "done"
        BY <1>1, <4>1 DEF Counted
      <4>2. CASE at(Caller) # "done"
        BY <1>1, <4>2 DEF Counted
      <4> QED BY <4>1, <4>2
    <3> QED BY <1>1, <3>1, <3>2, CountsTyped
  <2> QED BY <1>1, <2>1, <2>2 DEF TypeOK, Typed
<1>3. \A c \in Claims : \/ \E i \in 1..Len(tasks) : c = <<i, tasks[i]>>
                        \/ \E t \in Threads : \E r \in Parts(thread[t]) : c = <<t, r>>
  BY ToSortParts DEF Claims
<1>4. RangesDisjoint
  <2> SUFFICES ASSUME NEW c \in Claims, NEW d \in Claims, c # d
               PROVE  ~\E i \in 1..N : Within(i, c[2]) /\ Within(i, d[2])
    BY DEF RangesDisjoint
  <2>0. \A r, q : Disjoint(r, q) => ~\E i \in 1..N : Within(i, r) /\ Within(i, q)
    BY <1>1 DEF Disjoint
  <2>a. \A r, q : Disjoint(r, q) <=> Disjoint(q, r)
    BY DEF Disjoint
  <2>1. CASE \E i \in 1..Len(tasks) : c = <<i, tasks[i]>>
    <3>1. PICK i \in 1..Len(tasks) : c = <<i, tasks[i]>>
      BY <2>1
    <3>2. CASE \E j \in 1..Len(tasks) : d = <<j, tasks[j]>>
      <4>1. PICK j \in 1..Len(tasks) : d = <<j, tasks[j]>>
        BY <3>2
      <4>2. i # j /\ c[2] = tasks[i] /\ d[2] = tasks[j]
        BY <3>1, <4>1
      <4>3. Disjoint(tasks[i], tasks[j])
        BY <1>1, <4>2 DEF Apart
      <4> QED BY <2>0, <4>2, <4>3
    <3>3. CASE \E t \in Threads : \E r \in Parts(thread[t]) : d = <<t, r>>
      <4>1. PICK t, r : t \in Threads /\ r \in Parts(thread[t]) /\ d = <<t, r>>
        BY <3>3
      <4>2. Disjoint(tasks[i], r) /\ c[2] = tasks[i] /\ d[2] = r
        BY <1>1, <3>1, <4>1 DEF Apart
      <4> QED BY <2>0, <4>2
    <3> QED BY <1>3, <3>2, <3>3
  <2>2. CASE \E t \in Threads : \E r \in Parts(thread[t]) : c = <<t, r>>
    <3>1. PICK t, r : t \in Threads /\ r \in Parts(thread[t]) /\ c = <<t, r>>
      BY <2>2
    <3>2. CASE \E j \in 1..Len(tasks) : d = <<j, tasks[j]>>
      <4>1. PICK j \in 1..Len(tasks) : d = <<j, tasks[j]>>
        BY <3>2
      <4>2. Disjoint(tasks[j], r) /\ c[2] = r /\ d[2] = tasks[j]
        BY <1>1, <3>1, <4>1 DEF Apart
      <4> QED BY <2>0, <2>a, <4>2
    <3>3. CASE \E u \in Threads : \E q \in Parts(thread[u]) : d = <<u, q>>
      <4>1. PICK u, q : u \in Threads /\ q \in Parts(thread[u]) /\ d = <<u, q>>
        BY <3>3
      <4>2. c[2] = r /\ d[2] = q
        BY <3>1, <4>1
      <4>3. CASE t # u
        <5>1. Disjoint(r, q)
          BY <1>1, <3>1, <4>1, <4>3 DEF Apart
        <5> QED BY <2>0, <4>2, <5>1
      <4>4. CASE t = u
        <5>1. r # q /\ q \in Parts(thread[t])
          BY <3>1, <4>1, <4>4
        <5>2. Disjoint(r, q)
          BY <1>1, <3>1, <5>1, PartsApart
        <5> QED BY <2>0, <4>2, <5>2
      <4> QED BY <4>3, <4>4
    <3> QED BY <1>3, <3>2, <3>3
  <2> QED BY <1>3, <2>1, <2>2
<1>5. OrderedAcrossRanges
  <2> SUFFICES ASSUME NEW i \in 1..N, NEW j \in 1..N, i < j,
                      ~(\E r \in Pending : Within(i, r) /\ Within(j, r))
               PROVE  lst[i] <= lst[j]
    BY DEF OrderedAcrossRanges
  <2>1. ASSUME NEW k \in 1..Len(tasks) PROVE ~Together(i, j, tasks[k])
    <3>1. <<k, tasks[k]>> \in Claims /\ <<k, tasks[k]>>[2] = tasks[k]
      BY DEF Claims
    <3>2. tasks[k] \in Pending
      BY <3>1 DEF Pending
    <3> QED BY <3>2 DEF Together
  <2>2. ASSUME NEW t \in Threads, NEW r \in Parts(thread[t]) PROVE ~Together(i, j, r)
    <3>1. <<t, r>> \in {t} \X ToSort(t) /\ <<t, r>>[2] = r
      BY ToSortParts
    <3>2. <<t, r>> \in Claims
      BY <3>1 DEF Claims
    <3>3. r \in Pending
      BY <3>1, <3>2 DEF Pending
    <3> QED BY <3>3 DEF Together
  <2> QED BY <1>1, <2>1, <2>2 DEF Ordered
<1> QED BY <1>2, <1>4, <1>5 DEF RangesInOrder

(* Rearranging keeps how often a value occurs. *)
Occurrences(n, l, v) == {i \in 1..n : l[i] = v}
LEMMA SameOccurrences ==
  ASSUME NEW n \in Nat, NEW l, NEW m, NEW v, NEW low, NEW high,
         Rearranged(n, l, m, low, high)
  PROVE  Cardinality(Occurrences(n, m, v)) = Cardinality(Occurrences(n, l, v))
<1>1. PICK f \in [1..n -> 1..n] :
        /\ \A i, j \in 1..n : f[i] = f[j] => i = j
        /\ \A j \in 1..n : \E i \in 1..n : f[i] = j
        /\ \A i \in 1..n : m[i] = l[f[i]]
  BY DEF Rearranged
<1> DEFINE S == {i \in 1..n : m[i] = v}
           T == {i \in 1..n : l[i] = v}
           g == [i \in S |-> f[i]]
<1>2. IsFiniteSet(S)
  <2>1. IsFiniteSet(1..n) /\ S \subseteq 1..n
    BY FS_Interval
  <2> QED BY <2>1, FS_Subset
<1>3. g \in [S -> T]
  BY <1>1
<1>4. \A a, b \in S : g[a] = g[b] => a = b
  BY <1>1
<1>5. \A t \in T : \E s \in S : g[s] = t
  <2> TAKE t \in T
  <2>1. PICK i \in 1..n : f[i] = t
    BY <1>1
  <2>2. i \in S
    BY <1>1, <2>1
  <2> QED BY <2>1, <2>2
<1>6. g \in Bijection(S, T)
  BY <1>3, <1>4, <1>5 DEF Bijection, Injection, Surjection, IsInjective
<1>7. ExistsBijection(S, T)
  BY <1>6 DEF ExistsBijection
<1>8. Cardinality(S) = Cardinality(T)
  BY <1>2, <1>7, FS_Bijection
<1> QED BY <1>8 DEF Occurrences

(* A caller that has all permits has left none for a task: nothing is *)
(* pending, so every two elements are in order.                       *)
LEMMA SortedHolds == IInv => SortedWhenReturned
<1> SUFFICES ASSUME IInv, at(Caller) = "done" PROVE
               /\ \A i \in 1..(N - 1) : lst[i] <= lst[i + 1]
               /\ \A v \in {input[i] : i \in 1..N} :
                    Cardinality({i \in 1..N : lst[i] = v}) =
                    Cardinality({i \in 1..N : input[i] = v})
  BY DEF SortedWhenReturned
<1>1. /\ Typed /\ InPlace /\ Queued /\ Counted /\ Apart /\ Ordered /\ N \in Nat
  BY ListLength DEF IInv, Typed
<1>2. Len(tasks) = 0 /\ Cardinality(Busy) = 0
  <2>1. permits \in Nat /\ Len(tasks) \in Nat
    BY <1>1 DEF Typed
  <2> QED BY <1>1, <2>1, CountsTyped DEF Counted
<1>3. Busy = {}
  BY <1>2, CountsTyped, FS_EmptySet
<1>4. ASSUME NEW t \in Threads PROVE Parts(thread[t]) = {}
  <2>1. thread[t].at \in {"idle", "done"}
    BY <1>3, ThreadsOf DEF Busy, at
  <2> QED BY <2>1, PartsOf
<1>5. ASSUME NEW i \in 1..(N - 1) PROVE lst[i] <= lst[i + 1]
  <2>1. i \in 1..N /\ i + 1 \in 1..N /\ i < i + 1
    BY <1>1
  <2> QED BY <1>1, <1>2, <1>4, <2>1 DEF Ordered
<1>6. ASSUME NEW v
      PROVE  Cardinality({i \in 1..N : lst[i] = v}) = Cardinality({i \in 1..N : input[i] = v})
  <2>1. N \in Nat /\ Rearranged(N, input, lst, 1, N)
    BY <1>1 DEF Typed
  <2>2. Cardinality(Occurrences(N, lst, v)) = Cardinality(Occurrences(N, input, v))
    BY <2>1, SameOccurrences
  <2> QED BY <2>2 DEF Occurrences
<1> QED BY <1>5, <1>6

(* No two threads sort in the same place, and no task undoes another one's *)
(* work.                                                                   *)
THEOREM TasksStayInOrder == SafetySpec => []RangesInOrder
BY Invariant, OrderHolds, PTL

(* What quickSort returns is sorted, and has every value as often as it was *)
(* given.                                                                   *)
THEOREM ReturnsSorted == SafetySpec => []SortedWhenReturned
BY Invariant, SortedHolds, PTL
=============================================================================
