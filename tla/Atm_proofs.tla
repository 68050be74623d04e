------------------------------ MODULE Atm_proofs ------------------------------
(***************************************************************************)
(* Proofs about Atm for any finite racks, nominals, packs and sums: what the *)
(* two passes of a withdrawal come to, and that the books balance.           *)
(***************************************************************************)
EXTENDS Atm, FiniteSetTheorems, TLAPS

(* Sums over finite sets. *)
Chosen(s) == CHOOSE x \in s : TRUE
(* One step of the recursion that SumFunctionOnSet is. *)
SumStep(f, s, it) == IF s = {} THEN 0 ELSE f[Chosen(s)] + it[s \ {Chosen(s)}]

(* SumFunctionOnSet, with its recursion in the open. *)
LEMMA SumIs ==
  ASSUME NEW f, NEW S
  PROVE  SumFunctionOnSet(f, S) = (CHOOSE it : it = [s \in SUBSET S |-> SumStep(f, s, it)])[S]
BY Zenon DEF SumFunctionOnSet, FoldFunctionOnSet, MapThenFoldSet, SumStep, Chosen

(* Induction over the subsets of a finite set, for those of a set. *)
LEMMA SubsetInduction ==
  ASSUME NEW S, IsFiniteSet(S), NEW P,
         \A T \in SUBSET S : (\A x \in T : T \ {x} \in P) => T \in P
  PROVE  \A T \in SUBSET S : T \in P
<1> DEFINE F == {T \in SUBSET S : T \notin P}
           R == StrictSubsetOrdering(S)
<1> SUFFICES ASSUME F # {} PROVE FALSE
  OBVIOUS
<1>1. IsWellFoundedOn(R, FiniteSubsetsOf(S))
  BY FS_StrictSubsetOrderingWellFounded
<1>2. F \subseteq FiniteSubsetsOf(S)
  BY FS_Subset DEF FiniteSubsetsOf
<1>3. \A U \in SUBSET S : \A x \in U : <<U \ {x}, U>> \in R
  BY DEF StrictSubsetOrdering
<1> HIDE DEF R
<1>4. PICK U \in F : \A V \in F : ~ (<<V, U>> \in R)
  BY <1>1, <1>2, WFMin
<1>5. \A x \in U : U \ {x} \in P
  BY <1>3, <1>4
<1> QED BY <1>4, <1>5

(* A solution of the recursion for the subsets of a set. *)
Summed(f, S, it) == it = [s \in SUBSET S |-> SumStep(f, s, it)]

(* The element that is added next is one of the set. *)
LEMMA ChosenIn ==
  ASSUME NEW s, s # {}
  PROVE  Chosen(s) \in s
BY DEF Chosen

(* The solutions for a set and for a part of it agree on the part. *)
LEMMA SummedAgree ==
  ASSUME NEW f, NEW S, IsFiniteSet(S), NEW T, T \subseteq S, NEW i, NEW k,
         Summed(f, S, i), Summed(f, T, k), NEW s, s \subseteq T
  PROVE  i[s] = k[s]
<1> DEFINE P == {u \in SUBSET T : i[u] = k[u]}
<1>1. IsFiniteSet(T)
  BY FS_Subset
<1>2. ASSUME NEW u \in SUBSET T, \A x \in u : u \ {x} \in P
      PROVE  u \in P
  <2>1. i[u] = SumStep(f, u, i) /\ k[u] = SumStep(f, u, k)
    BY DEF Summed
  <2>2. u # {} => i[u \ {Chosen(u)}] = k[u \ {Chosen(u)}]
    BY <1>2, ChosenIn
  <2> QED BY <2>1, <2>2 DEF SumStep
<1> HIDE DEF P
<1>3. \A u \in SUBSET T : u \in P
  BY <1>1, <1>2, SubsetInduction
<1>4. s \in P
  BY <1>3
<1> QED BY <1>4 DEF P

(* The recursion of a sum has a solution: a set at a time. *)
LEMMA SummedExists ==
  ASSUME NEW f, NEW S, IsFiniteSet(S)
  PROVE  \E it : Summed(f, S, it)
<1> DEFINE P == {T \in SUBSET S : \E it : Summed(f, T, it)}
<1>1. ASSUME NEW T \in SUBSET S, \A x \in T : T \ {x} \in P
      PROVE  T \in P
  <2>a. IsFiniteSet(T)
    BY FS_Subset
  <2> DEFINE part(U) == CHOOSE it : Summed(f, U, it)
             t == [s \in SUBSET T |->
                     IF s = {} THEN 0 ELSE f[Chosen(s)] + part(T \ {Chosen(s)})[s \ {Chosen(s)}]]
  <2>1. \A x \in T : Summed(f, T \ {x}, part(T \ {x}))
    BY <1>1
  <2>2. \A s \in SUBSET T :
          t[s] = IF s = {} THEN 0 ELSE f[Chosen(s)] + part(T \ {Chosen(s)})[s \ {Chosen(s)}]
    OBVIOUS
  <2>3. t = [s \in SUBSET T |-> t[s]]
    OBVIOUS
  <2> HIDE DEF part, t
  <2>4. ASSUME NEW s \in SUBSET T
        PROVE  t[s] = SumStep(f, s, t)
    <3>1. CASE s = {}
      BY <2>2, <3>1 DEF SumStep
    <3>2. CASE s # {}
      <4> DEFINE c == Chosen(s)
                 u == s \ {c}
      <4>1. c \in s /\ c \in T /\ u \in SUBSET T /\ u \in SUBSET (T \ {c})
        BY <3>2, ChosenIn
      <4>2. t[s] = f[c] + part(T \ {c})[u]
        BY <2>2, <3>2
      <4>3. SumStep(f, s, t) = f[c] + t[u]
        BY <3>2 DEF SumStep
      <4> HIDE DEF c
      <4>4. part(T \ {c})[u] = t[u]
        <5>1. CASE u = {}
          <6>1. part(T \ {c})[u] = SumStep(f, u, part(T \ {c}))
            BY <2>1, <4>1 DEF Summed
          <6> QED BY <2>2, <4>1, <5>1, <6>1 DEF SumStep
        <5>2. CASE u # {}
          <6> DEFINE d == Chosen(u)
                     v == u \ {d}
          <6>1. d \in u /\ d \in T /\ d # c
            BY <4>1, <5>2, ChosenIn
          <6>2. part(T \ {c})[u] = f[d] + part(T \ {c})[v]
            <7>1. part(T \ {c})[u] = SumStep(f, u, part(T \ {c}))
              BY <2>1, <4>1 DEF Summed
            <7> QED BY <5>2, <7>1 DEF SumStep
          <6>3. t[u] = f[d] + part(T \ {d})[v]
            BY <2>2, <4>1, <5>2
          <6> HIDE DEF d
          <6> DEFINE W == (T \ {c}) \ {d}
          <6>4. PICK w : Summed(f, W, w)
            <7>1. T \ {c} \in SUBSET S /\ IsFiniteSet(T \ {c})
              BY <2>a, FS_Subset
            <7> DEFINE w == [s1 \in SUBSET W |-> part(T \ {c})[s1]]
            <7>2. \A s1 \in SUBSET W : w[s1] = part(T \ {c})[s1]
                    /\ part(T \ {c})[s1] = SumStep(f, s1, part(T \ {c}))
                    /\ s1 \ {Chosen(s1)} \in SUBSET W
              BY <2>1, <4>1 DEF Summed
            <7>3. w = [s1 \in SUBSET W |-> w[s1]]
              OBVIOUS
            <7> HIDE DEF w
            <7>4. \A s1 \in SUBSET W : w[s1] = SumStep(f, s1, w)
              BY <7>2 DEF SumStep
            <7>5. Summed(f, W, w)
              BY <7>3, <7>4 DEF Summed
            <7> QED BY <7>5
          <6>5. v \in SUBSET W /\ W \in SUBSET (T \ {c}) /\ W \in SUBSET (T \ {d})
                /\ IsFiniteSet(T \ {c}) /\ IsFiniteSet(T \ {d})
            BY <2>a, <4>1, <6>1, FS_Subset
          <6> HIDE DEF W
          <6>6. Summed(f, T \ {c}, part(T \ {c})) /\ Summed(f, T \ {d}, part(T \ {d}))
            BY <2>1, <4>1, <6>1
          <6>7. part(T \ {c})[v] = w[v]
            <7>1. PICK A, k, X, y : A = T \ {c} /\ k = part(T \ {c}) /\ X = W /\ y = v
              OBVIOUS
            <7>2. IsFiniteSet(A) /\ X \subseteq A /\ Summed(f, A, k) /\ Summed(f, X, w)
                  /\ y \subseteq X
              BY <6>4, <6>5, <6>6, <7>1
            <7>3. k[y] = w[y]
              BY <7>2, SummedAgree
            <7> QED BY <7>1, <7>3
          <6>8. part(T \ {d})[v] = w[v]
            <7>1. PICK A, k, X, y : A = T \ {d} /\ k = part(T \ {d}) /\ X = W /\ y = v
              OBVIOUS
            <7>2. IsFiniteSet(A) /\ X \subseteq A /\ Summed(f, A, k) /\ Summed(f, X, w)
                  /\ y \subseteq X
              BY <6>4, <6>5, <6>6, <7>1
            <7>3. k[y] = w[y]
              BY <7>2, SummedAgree
            <7> QED BY <7>1, <7>3
          <6> QED BY <6>2, <6>3, <6>7, <6>8
        <5> QED BY <5>1, <5>2
      <4> QED BY <4>2, <4>3, <4>4
    <3> QED BY <3>1, <3>2
  <2>5. Summed(f, T, t)
    BY <2>3, <2>4 DEF Summed
  <2> QED BY <2>5
<1> HIDE DEF P
<1>2. \A T \in SUBSET S : T \in P
  BY <1>1, SubsetInduction
<1> QED BY <1>2 DEF P

(* The recursion of a sum: nothing, or one element and the others. *)
LEMMA SumOfAll ==
  ASSUME NEW f, NEW S, IsFiniteSet(S)
  PROVE  /\ S = {} => SumFunctionOnSet(f, S) = 0
         /\ S # {} => /\ Chosen(S) \in S
                      /\ SumFunctionOnSet(f, S) =
                           f[Chosen(S)] + SumFunctionOnSet(f, S \ {Chosen(S)})
<1> DEFINE it(U) == CHOOSE k : Summed(f, U, k)
<1>1. \A U \in SUBSET S : Summed(f, U, it(U)) /\ SumFunctionOnSet(f, U) = it(U)[U]
  <2> TAKE U \in SUBSET S
  <2>1. Summed(f, U, it(U))
    BY FS_Subset, SummedExists
  <2>2. SumFunctionOnSet(f, U) = it(U)[U]
    BY SumIs DEF Summed
  <2> QED BY <2>1, <2>2
<1> HIDE DEF it
<1>2. it(S)[S] = SumStep(f, S, it(S))
  BY <1>1 DEF Summed
<1>3. CASE S = {}
  BY <1>1, <1>2, <1>3 DEF SumStep
<1>4. CASE S # {}
  <2>1. Chosen(S) \in S
    BY <1>4, ChosenIn
  <2> DEFINE U == S \ {Chosen(S)}
  <2>2. U \in SUBSET S /\ U \in SUBSET U
    OBVIOUS
  <2>3. it(S)[U] = it(U)[U]
    BY <1>1, <2>2, SummedAgree
  <2> QED BY <1>1, <1>2, <1>4, <2>1, <2>2, <2>3 DEF SumStep
<1> QED BY <1>3, <1>4

(* Sums of integers are integers, of each part of a set. *)
LEMMA SumsAreInt ==
  ASSUME NEW S, IsFiniteSet(S), NEW f, \A x \in S : f[x] \in Int
  PROVE  \A T \in SUBSET S : SumFunctionOnSet(f, T) \in Int
<1> DEFINE P == {T \in SUBSET S : SumFunctionOnSet(f, T) \in Int}
<1>1. ASSUME NEW T \in SUBSET S, \A x \in T : T \ {x} \in P
      PROVE  T \in P
  <2>1. IsFiniteSet(T)
    BY FS_Subset
  <2>2. \A x \in T : SumFunctionOnSet(f, T \ {x}) \in Int
    BY <1>1
  <2>3. SumFunctionOnSet(f, T) \in Int
    <3>1. CASE T = {}
      <4>1. SumFunctionOnSet(f, T) = 0
        BY <2>1, <3>1, SumOfAll
      <4> QED BY <4>1
    <3>2. CASE T # {}
      <4>1. PICK c \in T : SumFunctionOnSet(f, T) = f[c] + SumFunctionOnSet(f, T \ {c})
        BY <2>1, <3>2, SumOfAll
      <4>2. f[c] \in Int /\ SumFunctionOnSet(f, T \ {c}) \in Int
        BY <2>2
      <4> QED BY <4>1, <4>2
    <3> QED BY <3>1, <3>2
  <2> QED BY <2>3
<1> HIDE DEF P
<1>2. \A T \in SUBSET S : T \in P
  BY <1>1, SubsetInduction
<1> QED BY <1>2 DEF P

(* Whichever element comes first. *)
LEMMA SumOneMore ==
  ASSUME NEW S, IsFiniteSet(S), NEW f, \A x \in S : f[x] \in Int
  PROVE  \A T \in SUBSET S :
           /\ SumFunctionOnSet(f, T) \in Int
           /\ \A x \in T : SumFunctionOnSet(f, T) = f[x] + SumFunctionOnSet(f, T \ {x})
<1> DEFINE sum(T) == SumFunctionOnSet(f, T)
           P == {T \in SUBSET S : /\ sum(T) \in Int
                                  /\ \A x \in T : sum(T) = f[x] + sum(T \ {x})}
<1>0. \A T \in SUBSET S :
        /\ T = {} => sum(T) = 0
        /\ T # {} => Chosen(T) \in T /\ sum(T) = f[Chosen(T)] + sum(T \ {Chosen(T)})
  BY FS_Subset, SumOfAll
<1> HIDE DEF sum
<1>1. ASSUME NEW T \in SUBSET S, \A x \in T : T \ {x} \in P
      PROVE  T \in P
  <2>1. CASE T = {}
    <3>1. sum(T) = 0
      BY <1>0, <2>1
    <3> QED BY <2>1, <3>1
  <2>2. CASE T # {}
    <3>1. PICK c \in T : sum(T) = f[c] + sum(T \ {c})
      BY <1>0, <2>2
    <3>2. /\ \A x \in T : /\ f[x] \in Int /\ sum(T \ {x}) \in Int
                          /\ \A y \in T \ {x} :
                               sum(T \ {x}) = f[y] + sum((T \ {x}) \ {y})
      BY <1>1
    <3>3. ASSUME NEW x \in T, x # c
          PROVE  sum(T) = f[x] + sum(T \ {x})
      <4>1. sum(T \ {c}) = f[x] + sum((T \ {c}) \ {x})
        BY <3>2, <3>3
      <4>2. sum(T \ {x}) = f[c] + sum((T \ {x}) \ {c})
        BY <3>2, <3>3
      <4>3. (T \ {x}) \ {c} = (T \ {c}) \ {x}
        OBVIOUS
      <4>4. sum((T \ {c}) \ {x}) \in Int
        <5>1. T \ {c} \in P /\ x \in T \ {c}
          BY <1>1, <3>3
        <5>2. (T \ {c}) \ {x} \in SUBSET S /\ IsFiniteSet(S)
          OBVIOUS
        <5>3. sum(T \ {c}) \in Int /\ f[x] \in Int /\ f[c] \in Int
          BY <3>2
        <5> QED BY <1>0, <5>1, <5>2, <5>3, <4>1, SumsAreInt DEF sum
      <4>5. f[x] \in Int /\ f[c] \in Int /\ sum(T \ {c}) \in Int /\ sum(T \ {x}) \in Int
        BY <3>2
      <4> QED BY <3>1, <4>1, <4>2, <4>3, <4>4, <4>5
    <3>4. sum(T) \in Int
      BY <3>1, <3>2
    <3> QED BY <3>1, <3>3, <3>4
  <2> QED BY <2>1, <2>2
<1> HIDE DEF P
<1>2. \A T \in SUBSET S : T \in P
  BY <1>1, SubsetInduction
<1> QED BY <1>2 DEF P, sum

(* The sums of the same numbers are the same. *)
LEMMA SumSame ==
  ASSUME NEW S, IsFiniteSet(S), NEW f, NEW g, \A x \in S : f[x] = g[x]
  PROVE  SumFunctionOnSet(f, S) = SumFunctionOnSet(g, S)
<1> DEFINE P == {T \in SUBSET S : SumFunctionOnSet(f, T) = SumFunctionOnSet(g, T)}
<1>1. ASSUME NEW T \in SUBSET S, \A x \in T : T \ {x} \in P
      PROVE  T \in P
  <2>1. IsFiniteSet(T)
    BY FS_Subset
  <2> QED BY <1>1, <2>1, SumOfAll
<1> HIDE DEF P
<1>2. \A T \in SUBSET S : T \in P
  BY <1>1, SubsetInduction
<1> QED BY <1>2 DEF P

(* The sum of differences is the difference of the sums. *)
LEMMA SumMinus ==
  ASSUME NEW S, IsFiniteSet(S), NEW f, NEW g, NEW h,
         \A x \in S : f[x] \in Int /\ g[x] \in Int /\ h[x] = f[x] - g[x]
  PROVE  SumFunctionOnSet(h, S) = SumFunctionOnSet(f, S) - SumFunctionOnSet(g, S)
<1> DEFINE P == {T \in SUBSET S :
                   SumFunctionOnSet(h, T) = SumFunctionOnSet(f, T) - SumFunctionOnSet(g, T)}
<1>0. \A x \in S : h[x] \in Int
  OBVIOUS
<1>a. \A T \in SUBSET S : /\ SumFunctionOnSet(f, T) \in Int
                          /\ SumFunctionOnSet(g, T) \in Int
                          /\ SumFunctionOnSet(h, T) \in Int
  BY <1>0, SumsAreInt
<1>1. ASSUME NEW T \in SUBSET S, \A x \in T : T \ {x} \in P
      PROVE  T \in P
  <2>1. IsFiniteSet(T)
    BY FS_Subset
  <2>2. CASE T = {}
    <3>1. SumFunctionOnSet(h, T) = 0 /\ SumFunctionOnSet(f, T) = 0 /\ SumFunctionOnSet(g, T) = 0
      BY <2>1, <2>2, SumOfAll
    <3> QED BY <3>1
  <2>3. CASE T # {}
    <3>1. PICK c : c = Chosen(T)
      OBVIOUS
    <3>2. /\ c \in T
          /\ SumFunctionOnSet(h, T) = h[c] + SumFunctionOnSet(h, T \ {c})
          /\ SumFunctionOnSet(f, T) = f[c] + SumFunctionOnSet(f, T \ {c})
          /\ SumFunctionOnSet(g, T) = g[c] + SumFunctionOnSet(g, T \ {c})
      BY <2>1, <2>3, <3>1, SumOfAll
    <3>3. SumFunctionOnSet(h, T \ {c}) =
            SumFunctionOnSet(f, T \ {c}) - SumFunctionOnSet(g, T \ {c})
      BY <1>1, <3>2
    <3>4. /\ SumFunctionOnSet(f, T \ {c}) \in Int /\ SumFunctionOnSet(g, T \ {c}) \in Int
          /\ f[c] \in Int /\ g[c] \in Int /\ h[c] = f[c] - g[c]
      BY <1>a, <3>2
    <3> QED BY <3>2, <3>3, <3>4
  <2> QED BY <2>2, <2>3
<1> HIDE DEF P
<1>2. \A T \in SUBSET S : T \in P
  BY <1>1, SubsetInduction
<1> QED BY <1>2 DEF P

(* The sum of natural numbers is one. *)
LEMMA SumNat ==
  ASSUME NEW S, IsFiniteSet(S), NEW f, \A x \in S : f[x] \in Nat
  PROVE  SumFunctionOnSet(f, S) \in Nat
<1> DEFINE P == {T \in SUBSET S : SumFunctionOnSet(f, T) \in Nat}
<1>1. ASSUME NEW T \in SUBSET S, \A x \in T : T \ {x} \in P
      PROVE  T \in P
  <2>1. IsFiniteSet(T)
    BY FS_Subset
  <2>2. \A x \in T : SumFunctionOnSet(f, T \ {x}) \in Nat
    BY <1>1
  <2>3. SumFunctionOnSet(f, T) \in Nat
    <3>1. CASE T = {}
      <4>1. SumFunctionOnSet(f, T) = 0
        BY <2>1, <3>1, SumOfAll
      <4> QED BY <4>1
    <3>2. CASE T # {}
      <4>1. PICK c \in T : SumFunctionOnSet(f, T) = f[c] + SumFunctionOnSet(f, T \ {c})
        BY <2>1, <3>2, SumOfAll
      <4>2. f[c] \in Nat /\ SumFunctionOnSet(f, T \ {c}) \in Nat
        BY <2>2
      <4> QED BY <4>1, <4>2
    <3> QED BY <3>1, <3>2
  <2> QED BY <2>3
<1> HIDE DEF P
<1>2. \A T \in SUBSET S : T \in P
  BY <1>1, SubsetInduction
<1> QED BY <1>2 DEF P

(* A part of the numbers sums up to no more. *)
LEMMA SumPart ==
  ASSUME NEW S, IsFiniteSet(S), NEW f, \A x \in S : f[x] \in Nat, NEW T, T \subseteq S
  PROVE  SumFunctionOnSet(f, T) <= SumFunctionOnSet(f, S)
<1> DEFINE sum(U) == SumFunctionOnSet(f, U)
           P == {U \in SUBSET S : \A V \in SUBSET U : sum(V) <= sum(U)}
<1>0. \A U \in SUBSET S : sum(U) \in Int /\ \A x \in U : sum(U) = f[x] + sum(U \ {x})
  BY SumOneMore
<1> HIDE DEF sum
<1>1. ASSUME NEW U \in SUBSET S, \A x \in U : U \ {x} \in P
      PROVE  U \in P
  <2> SUFFICES ASSUME NEW V \in SUBSET U PROVE sum(V) <= sum(U)
    OBVIOUS
  <2>1. CASE V = U
    <3>1. sum(U) \in Int
      BY <1>0
    <3> QED BY <2>1, <3>1
  <2>2. CASE V # U
    <3>1. PICK x \in U : x \notin V
      BY <2>2
    <3>2. V \in SUBSET (U \ {x}) /\ U \ {x} \in P
      BY <1>1, <3>1
    <3>3. sum(V) <= sum(U \ {x})
      BY <3>2
    <3>4. sum(U) = f[x] + sum(U \ {x}) /\ f[x] \in Nat /\ sum(U \ {x}) \in Int /\ sum(V) \in Int
          /\ sum(U) \in Int
      BY <1>0
    <3> QED BY <3>3, <3>4
  <2> QED BY <2>1, <2>2
<1> HIDE DEF P
<1>2. \A U \in SUBSET S : U \in P
  BY <1>1, SubsetInduction
<1>3. S \in P
  BY <1>2
<1> QED BY <1>3 DEF P, sum

(* Zeros sum up to zero. *)
LEMMA SumZero ==
  ASSUME NEW S, IsFiniteSet(S), NEW f, \A x \in S : f[x] = 0
  PROVE  SumFunctionOnSet(f, S) = 0
<1> DEFINE P == {T \in SUBSET S : SumFunctionOnSet(f, T) = 0}
<1>1. ASSUME NEW T \in SUBSET S, \A x \in T : T \ {x} \in P
      PROVE  T \in P
  <2>1. IsFiniteSet(T)
    BY FS_Subset
  <2>2. CASE T = {}
    <3>1. SumFunctionOnSet(f, T) = 0
      BY <2>1, <2>2, SumOfAll
    <3> QED BY <3>1
  <2>3. CASE T # {}
    <3>1. PICK c \in T : SumFunctionOnSet(f, T) = f[c] + SumFunctionOnSet(f, T \ {c})
      BY <2>1, <2>3, SumOfAll
    <3>2. f[c] = 0 /\ SumFunctionOnSet(f, T \ {c}) = 0
      BY <1>1
    <3>3. SumFunctionOnSet(f, T) = 0
      BY <3>1, <3>2
    <3> QED BY <3>3
  <2> QED BY <2>2, <2>3
<1> HIDE DEF P
<1>2. \A T \in SUBSET S : T \in P
  BY <1>1, SubsetInduction
<1> QED BY <1>2 DEF P

(* A sum with one number in it that may not be zero. *)
LEMMA SumOfOne ==
  ASSUME NEW S, IsFiniteSet(S), NEW f, NEW c \in S, f[c] \in Int,
         \A x \in S : x # c => f[x] = 0
  PROVE  SumFunctionOnSet(f, S) = f[c]
<1>1. IsFiniteSet(S \ {c}) /\ \A x \in S \ {c} : f[x] = 0
  BY FS_Subset
<1>2. SumFunctionOnSet(f, S \ {c}) = 0
  BY <1>1, SumZero
<1>3. \A x \in S : f[x] \in Int
  <2> TAKE x \in S
  <2>1. CASE x = c
    BY <2>1
  <2>2. CASE x # c
    BY <2>2
  <2> QED BY <2>1, <2>2
<1>4. SumFunctionOnSet(f, S) = f[c] + SumFunctionOnSet(f, S \ {c})
  BY <1>3, SumOneMore
<1> QED BY <1>2, <1>4

(* The last one in an order. *)
LEMMA LastOne ==
  ASSUME NEW S, IsFiniteSet(S), S # {}, NEW R,
         \A x, y \in S : x # y => <<x, y>> \in R \/ <<y, x>> \in R,
         \A x, y, z \in S : <<x, y>> \in R /\ <<y, z>> \in R => <<x, z>> \in R
  PROVE  \E m \in S : \A x \in S : x # m => <<x, m>> \in R
<1> DEFINE Last(T) == \E m \in T : \A x \in T : x # m => <<x, m>> \in R
           P == {T \in SUBSET S : T # {} => Last(T)}
<1>1. ASSUME NEW T \in SUBSET S, \A x \in T : T \ {x} \in P
      PROVE  T \in P
  <2> SUFFICES ASSUME T # {} PROVE Last(T)
    OBVIOUS
  <2>1. PICK a \in T : TRUE
    OBVIOUS
  <2>2. CASE T = {a}
    BY <2>2
  <2>3. CASE T # {a}
    <3>1. T \ {a} # {} /\ T \ {a} \in P
      BY <1>1, <2>1, <2>3
    <3>2. PICK m \in T \ {a} : \A x \in T \ {a} : x # m => <<x, m>> \in R
      BY <3>1
    <3>3. <<a, m>> \in R \/ <<m, a>> \in R
      OBVIOUS
    <3>4. CASE <<a, m>> \in R
      <4>1. \A x \in T : x # m => <<x, m>> \in R
        BY <3>2, <3>4
      <4> QED BY <4>1
    <3>5. CASE <<m, a>> \in R
      <4>1. ASSUME NEW x \in T, x # a PROVE <<x, a>> \in R
        <5>1. x = m \/ <<x, m>> \in R
          BY <3>2, <4>1
        <5> QED BY <3>5, <5>1
      <4> QED BY <4>1
    <3> QED BY <3>3, <3>4, <3>5
  <2> QED BY <2>2, <2>3
<1> HIDE DEF P
<1>2. \A T \in SUBSET S : T \in P
  BY <1>1, SubsetInduction
<1>3. S \in P
  BY <1>2
<1> QED BY <1>3 DEF P

-----------------------------------------------------------------------------
(* What a rack gives. *)
Fuller(f, A, c) == {d \in A : f[d] > f[c] \/ (f[d] = f[c] /\ d < c)}
(* ejected, of any counts in the cells. *)
Given(f, A, c, n) ==
  LET before == SumFunctionOnSet(f, Fuller(f, A, c))
  IN smaller(f[c], IF before < n THEN n - before ELSE 0)

(* A cell gives no more than it has. *)
LEMMA GivenBounded ==
  ASSUME NEW A, IsFiniteSet(A), NEW f, \A x \in A : f[x] \in Nat, NEW c \in A, NEW n \in Nat
  PROVE  Given(f, A, c, n) \in 0..f[c]
<1>1. Fuller(f, A, c) \in SUBSET A
  BY DEF Fuller
<1>2. SumFunctionOnSet(f, Fuller(f, A, c)) \in Int
  BY <1>1, SumOneMore
<1>3. PICK t : t = SumFunctionOnSet(f, Fuller(f, A, c))
  OBVIOUS
<1>4. Given(f, A, c, n) = smaller(f[c], IF t < n THEN n - t ELSE 0)
  BY <1>3 DEF Given
<1> QED BY <1>2, <1>3, <1>4 DEF smaller

(* The cells of a type together give what is wanted, or all they have: from *)
(* the fullest to the emptiest, each what those before it could not.        *)
LEMMA GivenSum ==
  ASSUME NEW A, IsFiniteSet(A), A \subseteq Nat, NEW f, \A x \in A : f[x] \in Nat, NEW n \in Nat,
         NEW g, \A x \in A : g[x] = Given(f, A, x, n)
  PROVE  SumFunctionOnSet(g, A) = smaller(n, SumFunctionOnSet(f, A))
<1> DEFINE R == {p \in A \X A : p[1] \in Fuller(f, A, p[2])}
           Closed(T) == \A c \in T : Fuller(f, A, c) \subseteq T
           P == {T \in SUBSET A : Closed(T) =>
                   SumFunctionOnSet(g, T) = smaller(n, SumFunctionOnSet(f, T))}
<1>r. \A x, y \in A : <<x, y>> \in R <=> (f[x] > f[y] \/ (f[x] = f[y] /\ x < y))
  BY DEF Fuller
<1>s. \A x, y \in A : <<x, y>> \in R <=> x \in Fuller(f, A, y)
  OBVIOUS
<1>a. \A x, y \in A : x # y => <<x, y>> \in R \/ <<y, x>> \in R
  <2> TAKE x, y \in A
  <2>1. x \in Nat /\ y \in Nat /\ f[x] \in Nat /\ f[y] \in Nat
    OBVIOUS
  <2> HIDE DEF R
  <2> QED BY <1>r, <2>1
<1>b. \A x, y, z \in A : <<x, y>> \in R /\ <<y, z>> \in R => <<x, z>> \in R
  <2> TAKE x, y, z \in A
  <2>1. x \in Nat /\ y \in Nat /\ z \in Nat /\ f[x] \in Nat /\ f[y] \in Nat /\ f[z] \in Nat
    OBVIOUS
  <2> HIDE DEF R
  <2> QED BY <1>r, <2>1
<1>c. \A x, y \in A : <<x, y>> \in R => ~ <<y, x>> \in R /\ x # y
  <2> TAKE x, y \in A
  <2>1. x \in Nat /\ y \in Nat /\ f[x] \in Nat /\ f[y] \in Nat
    OBVIOUS
  <2> HIDE DEF R
  <2> QED BY <1>r, <2>1
<1>d. \A x \in A : g[x] \in Int
  <2> TAKE x \in A
  <2>1. Given(f, A, x, n) \in 0..f[x]
    BY GivenBounded
  <2> QED BY <2>1
<1>e. \A T \in SUBSET A : /\ SumFunctionOnSet(f, T) \in Int /\ SumFunctionOnSet(g, T) \in Int
                          /\ \A x \in T : /\ SumFunctionOnSet(f, T) = f[x] + SumFunctionOnSet(f, T \ {x})
                                          /\ SumFunctionOnSet(g, T) = g[x] + SumFunctionOnSet(g, T \ {x})
  <2>1. \A x \in A : f[x] \in Int
    OBVIOUS
  <2>2. \A T \in SUBSET A :
          /\ SumFunctionOnSet(f, T) \in Int
          /\ \A x \in T : SumFunctionOnSet(f, T) = f[x] + SumFunctionOnSet(f, T \ {x})
    BY ONLY <2>1, IsFiniteSet(A), SumOneMore
  <2>3. \A T \in SUBSET A :
          /\ SumFunctionOnSet(g, T) \in Int
          /\ \A x \in T : SumFunctionOnSet(g, T) = g[x] + SumFunctionOnSet(g, T \ {x})
    BY ONLY <1>d, IsFiniteSet(A), SumOneMore
  <2> QED BY <2>2, <2>3
<1> HIDE DEF R
<1>1. ASSUME NEW T \in SUBSET A, \A x \in T : T \ {x} \in P
      PROVE  T \in P
  <2> SUFFICES ASSUME Closed(T)
               PROVE  SumFunctionOnSet(g, T) = smaller(n, SumFunctionOnSet(f, T))
    OBVIOUS
  <2>1. IsFiniteSet(T)
    BY FS_Subset
  <2>2. CASE T = {}
    <3>1. SumFunctionOnSet(f, T) = 0 /\ SumFunctionOnSet(g, T) = 0
      BY <2>1, <2>2, SumOfAll
    <3> QED BY <3>1 DEF smaller
  <2>3. CASE T # {}
    <3>1. /\ \A x, y \in T : x # y => <<x, y>> \in R \/ <<y, x>> \in R
          /\ \A x, y, z \in T : <<x, y>> \in R /\ <<y, z>> \in R => <<x, z>> \in R
      BY <1>a, <1>b
    <3>2. PICK m \in T : \A x \in T : x # m => <<x, m>> \in R
      BY ONLY <2>1, <2>3, <3>1, LastOne
    <3>3. m \in A /\ Fuller(f, A, m) \subseteq A
      BY DEF Fuller
    <3>4. Fuller(f, A, m) = T \ {m}
      BY <1>s, <1>c, <3>2, <3>3
    <3>5. Closed(T \ {m})
      BY <1>s, <1>c, <3>2, <3>3
    <3>6. SumFunctionOnSet(g, T \ {m}) = smaller(n, SumFunctionOnSet(f, T \ {m}))
      BY <1>1, <3>2, <3>5
    <3>7. PICK t : t = SumFunctionOnSet(f, T \ {m})
      OBVIOUS
    <3>8. g[m] = smaller(f[m], IF t < n THEN n - t ELSE 0)
      BY <3>4, <3>7 DEF Given
    <3>9. SumFunctionOnSet(g, T) = g[m] + smaller(n, t) /\ SumFunctionOnSet(f, T) = f[m] + t
      BY <1>e, <3>6, <3>7
    <3>10. t \in Int /\ f[m] \in Nat
      BY <1>e, <3>2, <3>7
    <3>11. t >= 0
      <4>1. IsFiniteSet(T \ {m}) /\ \A x \in T \ {m} : f[x] \in Nat
        BY <2>1, FS_Subset
      <4>2. t \in Nat
        BY <3>7, <4>1, SumNat
      <4> QED BY <4>2
    <3> QED BY <3>8, <3>9, <3>10, <3>11 DEF smaller
  <2> QED BY <2>2, <2>3
<1> HIDE DEF P
<1>2. \A T \in SUBSET A : T \in P
  BY <1>1, SubsetInduction
<1>3. A \in P /\ Closed(A)
  BY <1>2 DEF Fuller
<1> QED BY <1>3 DEF P

(* What the cells of a type hold after n notes were taken or some were put. *)
LEMMA LeftAfter ==
  ASSUME NEW A, IsFiniteSet(A), A \subseteq Nat, NEW f, \A x \in A : f[x] \in Nat, NEW n \in Nat,
         n <= SumFunctionOnSet(f, A),
         NEW h, \A x \in A : h[x] = f[x] - Given(f, A, x, n)
  PROVE  /\ \A x \in A : h[x] \in Nat
         /\ SumFunctionOnSet(h, A) = SumFunctionOnSet(f, A) - n
<1> DEFINE g == [x \in A |-> Given(f, A, x, n)]
<1>1. \A x \in A : g[x] = Given(f, A, x, n) /\ g[x] \in 0..f[x]
  BY GivenBounded
<1> HIDE DEF g
<1>2. \A x \in A : f[x] \in Int /\ g[x] \in Int /\ h[x] = f[x] - g[x] /\ h[x] \in Nat
  BY <1>1
<1>3. SumFunctionOnSet(g, A) = smaller(n, SumFunctionOnSet(f, A))
  BY <1>1, GivenSum
<1>4. SumFunctionOnSet(h, A) = SumFunctionOnSet(f, A) - SumFunctionOnSet(g, A)
  BY ONLY <1>2, IsFiniteSet(A), SumMinus
<1>5. SumFunctionOnSet(f, A) \in Int
  BY <1>2, SumsAreInt
<1> QED BY <1>2, <1>3, <1>4, <1>5 DEF smaller

(* There is a first cell among those with the fewest notes. *)
LEMMA FewestIn ==
  ASSUME NEW A, IsFiniteSet(A), A # {}, A \subseteq Nat, NEW f, \A x \in A : f[x] \in Nat
  PROVE  \E c \in A : \A d \in A : f[c] < f[d] \/ (f[c] = f[d] /\ c <= d)
<1> DEFINE R == {p \in A \X A : f[p[2]] < f[p[1]] \/ (f[p[2]] = f[p[1]] /\ p[2] < p[1])}
<1>1. \A x, y \in A : <<x, y>> \in R <=> (f[y] < f[x] \/ (f[y] = f[x] /\ y < x))
  OBVIOUS
<1> HIDE DEF R
<1>2. \A x, y \in A : x # y => <<x, y>> \in R \/ <<y, x>> \in R
  <2> TAKE x, y \in A
  <2>1. x \in Nat /\ y \in Nat /\ f[x] \in Nat /\ f[y] \in Nat
    OBVIOUS
  <2> QED BY <1>1, <2>1
<1>3. \A x, y, z \in A : <<x, y>> \in R /\ <<y, z>> \in R => <<x, z>> \in R
  <2> TAKE x, y, z \in A
  <2>1. x \in Nat /\ y \in Nat /\ z \in Nat /\ f[x] \in Nat /\ f[y] \in Nat /\ f[z] \in Nat
    OBVIOUS
  <2> QED BY <1>1, <2>1
<1>4. PICK m \in A : \A x \in A : x # m => <<x, m>> \in R
  BY <1>2, <1>3, LastOne
<1>5. ASSUME NEW d \in A PROVE f[m] < f[d] \/ (f[m] = f[d] /\ m <= d)
  <2>1. d \in Nat /\ m \in Nat
    OBVIOUS
  <2>2. CASE d = m
    BY <2>1, <2>2
  <2>3. CASE d # m
    <3>1. <<d, m>> \in R
      BY <1>4, <2>3
    <3> QED BY <1>1, <2>1, <3>1
  <2> QED BY <2>2, <2>3
<1> QED BY <1>5

(* Only what is not zero counts. *)
LEMMA SumSupport ==
  ASSUME NEW S, IsFiniteSet(S), NEW T, T \subseteq S, NEW f, \A x \in S : f[x] \in Int,
         \A x \in S \ T : f[x] = 0
  PROVE  SumFunctionOnSet(f, S) = SumFunctionOnSet(f, T)
<1> DEFINE P == {U \in SUBSET S : SumFunctionOnSet(f, U) = SumFunctionOnSet(f, U \cap T)}
<1>0. \A U \in SUBSET S :
        /\ SumFunctionOnSet(f, U) \in Int
        /\ \A x \in U : SumFunctionOnSet(f, U) = f[x] + SumFunctionOnSet(f, U \ {x})
  BY SumOneMore
<1>1. ASSUME NEW U \in SUBSET S, \A x \in U : U \ {x} \in P
      PROVE  U \in P
  <2>1. CASE U \subseteq T
    <3>1. U \cap T = U
      BY <2>1
    <3> QED BY <3>1
  <2>2. CASE ~ (U \subseteq T)
    <3>1. PICK x \in U : x \notin T
      BY <2>2
    <3>2. U \cap T = (U \ {x}) \cap T
      BY <3>1
    <3>3. SumFunctionOnSet(f, U \ {x}) = SumFunctionOnSet(f, U \cap T)
      BY <1>1, <3>2
    <3>4. SumFunctionOnSet(f, U) = f[x] + SumFunctionOnSet(f, U \ {x}) /\ f[x] = 0
      BY <1>0, <3>1
    <3>5. SumFunctionOnSet(f, U \ {x}) \in Int
      BY <1>0
    <3>6. SumFunctionOnSet(f, U) = SumFunctionOnSet(f, U \cap T)
      BY <3>3, <3>4, <3>5
    <3> QED BY <3>6
  <2> QED BY <2>1, <2>2
<1> HIDE DEF P
<1>2. \A U \in SUBSET S : U \in P
  BY <1>1, SubsetInduction
<1>3. S \in P /\ S \cap T = T
  BY <1>2
<1> QED BY <1>3 DEF P

(* A sum of numbers none of which is greater is not greater. *)
LEMMA SumLess ==
  ASSUME NEW S, IsFiniteSet(S), NEW f, NEW g,
         \A x \in S : f[x] \in Int /\ g[x] \in Int /\ f[x] <= g[x]
  PROVE  SumFunctionOnSet(f, S) <= SumFunctionOnSet(g, S)
<1> DEFINE h == [x \in S |-> g[x] - f[x]]
<1>1. \A x \in S : g[x] \in Int /\ f[x] \in Int /\ h[x] = g[x] - f[x] /\ h[x] \in Nat
  OBVIOUS
<1> HIDE DEF h
<1>2. SumFunctionOnSet(h, S) = SumFunctionOnSet(g, S) - SumFunctionOnSet(f, S)
  BY ONLY <1>1, IsFiniteSet(S), SumMinus
<1>3. SumFunctionOnSet(h, S) \in Nat
  BY <1>1, SumNat
<1>4. SumFunctionOnSet(g, S) \in Int /\ SumFunctionOnSet(f, S) \in Int
  BY SumsAreInt
<1> QED BY <1>2, <1>3, <1>4

-----------------------------------------------------------------------------
(* The counts and the balances of a rack, of any counts in the cells. *)
Count(f, a, b) == SumFunctionOnSet(f, CellsOf(a, b))
(* getBalance. *)
Balance(f, a, cur) == worth([b \in Notes |-> Count(f, a, b)], cur)
(* What may be in the cells. *)
Counts == [Cells -> Nat]
(* The banknote types of a currency. *)
NotesIn(cur) == {b \in Notes : CurrencyOf[b] = cur}

(* The sets that are summed over are finite. *)
LEMMA CellsOfSound ==
  /\ \A a, b : CellsOf(a, b) \subseteq Cells /\ IsFiniteSet(CellsOf(a, b))
  /\ \A cur : NotesIn(cur) \subseteq Notes /\ IsFiniteSet(NotesIn(cur))
<1>1. \A a, b : CellsOf(a, b) \subseteq Cells
  BY DEF CellsOf
<1>2. \A cur : NotesIn(cur) \subseteq Notes
  BY DEF NotesIn
<1> QED BY <1>1, <1>2, FinitenessAssumption, FS_Subset

(* A rack counts natural numbers of notes. *)
LEMMA CountSound ==
  ASSUME NEW f \in Counts
  PROVE  \A a, b : Count(f, a, b) \in Nat
<1> TAKE a, b
<1>1. IsFiniteSet(CellsOf(a, b)) /\ \A x \in CellsOf(a, b) : f[x] \in Nat
  BY CellsOfSound DEF Counts
<1>2. PICK A : A = CellsOf(a, b)
  OBVIOUS
<1>3. SumFunctionOnSet(f, A) \in Nat
  BY <1>1, <1>2, SumNat
<1> QED BY <1>2, <1>3 DEF Count

(* A machine whose cells are the same counts the same. *)
LEMMA CountSame ==
  ASSUME NEW f, NEW g, NEW a, \A c \in Cells : CellAtm[c] = a => f[c] = g[c]
  PROVE  \A b : Count(f, a, b) = Count(g, a, b)
<1> TAKE b
<1>1. PICK A : A = CellsOf(a, b)
  OBVIOUS
<1>2. IsFiniteSet(A) /\ \A x \in A : f[x] = g[x]
  <2>1. IsFiniteSet(A)
    BY <1>1, CellsOfSound
  <2>2. \A x \in A : f[x] = g[x]
    BY <1>1 DEF CellsOf
  <2> QED BY <2>1, <2>2
<1>3. SumFunctionOnSet(f, A) = SumFunctionOnSet(g, A)
  BY ONLY <1>2, SumSame
<1> QED BY <1>1, <1>3 DEF Count

(* And has the same balance. *)
LEMMA BalanceSame ==
  ASSUME NEW f, NEW g, NEW a, \A c \in Cells : CellAtm[c] = a => f[c] = g[c]
  PROVE  \A cur : Balance(f, a, cur) = Balance(g, a, cur)
BY CountSame DEF Balance

(* A pack is worth a natural number in each currency. *)
LEMMA WorthSound ==
  ASSUME NEW p \in [Notes -> Nat]
  PROVE  \A cur : worth(p, cur) \in Nat
<1> TAKE cur
<1>1. PICK W : W = [b \in Notes |-> Nominal[b] * p[b]]
  OBVIOUS
<1>2. PICK B : B = NotesIn(cur)
  OBVIOUS
<1>3. IsFiniteSet(B) /\ B \subseteq Notes
  BY <1>2, CellsOfSound
<1>4. \A b \in B : W[b] \in Nat
  <2> TAKE b \in B
  <2>1. W[b] = Nominal[b] * p[b] /\ Nominal[b] \in Nat /\ p[b] \in Nat
    BY <1>1, <1>3, NotesAssumption
  <2>2. \A x, y \in Nat : x * y \in Nat
    OBVIOUS
  <2> QED BY <2>1, <2>2
<1>5. SumFunctionOnSet(W, B) \in Nat
  BY <1>3, <1>4, SumNat
<1> QED BY <1>1, <1>2, <1>5 DEF worth, NotesIn

(* What remains of a pack is worth the rest. *)
LEMMA WorthMinus ==
  ASSUME NEW p \in [Notes -> Nat], NEW q \in [Notes -> Nat], NEW r \in [Notes -> Nat],
         \A b \in Notes : r[b] = p[b] - q[b]
  PROVE  \A cur : worth(r, cur) = worth(p, cur) - worth(q, cur)
<1> TAKE cur
<1>1. PICK W, V, U : /\ W = [b \in Notes |-> Nominal[b] * p[b]]
                     /\ V = [b \in Notes |-> Nominal[b] * q[b]]
                     /\ U = [b \in Notes |-> Nominal[b] * r[b]]
  OBVIOUS
<1>2. PICK B : B = NotesIn(cur)
  OBVIOUS
<1>3. IsFiniteSet(B) /\ B \subseteq Notes
  BY <1>2, CellsOfSound
<1>4. \A b \in B : W[b] \in Int /\ V[b] \in Int /\ U[b] = W[b] - V[b]
  <2> TAKE b \in B
  <2>1. /\ W[b] = Nominal[b] * p[b] /\ V[b] = Nominal[b] * q[b]
        /\ U[b] = Nominal[b] * (p[b] - q[b])
        /\ Nominal[b] \in Nat /\ p[b] \in Nat /\ q[b] \in Nat
    BY <1>1, <1>3, NotesAssumption
  <2>2. \A x, y, z \in Nat : x * y \in Int /\ x * z \in Int /\ x * (y - z) = x * y - x * z
    OBVIOUS
  <2> QED BY <2>1, <2>2
<1>5. SumFunctionOnSet(U, B) = SumFunctionOnSet(W, B) - SumFunctionOnSet(V, B)
  BY ONLY <1>3, <1>4, SumMinus
<1> QED BY <1>1, <1>2, <1>5 DEF worth, NotesIn

(* No notes are worth nothing. *)
LEMMA WorthNothing ==
  /\ NoNotes \in [Notes -> Nat]
  /\ \A x : worth(NoNotes, x) = 0
<1>1. NoNotes \in [Notes -> Nat]
  BY DEF NoNotes
<1>2. ASSUME NEW x PROVE worth(NoNotes, x) = 0
  <2>1. PICK V, B : V = [b \in Notes |-> Nominal[b] * NoNotes[b]] /\ B = NotesIn(x)
    OBVIOUS
  <2>2. IsFiniteSet(B) /\ \A b \in B : V[b] = 0
    <3>1. B \subseteq Notes /\ IsFiniteSet(B)
      BY <2>1, CellsOfSound
    <3>2. \A b \in Notes : V[b] = Nominal[b] * 0 /\ Nominal[b] \in Nat
      BY <2>1, NotesAssumption DEF NoNotes
    <3> QED BY <3>1, <3>2
  <2>3. SumFunctionOnSet(V, B) = 0
    BY <2>2, SumZero
  <2> QED BY <2>1, <2>3 DEF worth, NotesIn
<1> QED BY <1>1, <1>2

(* A machine that gave p, or was given it. *)
LEMMA BalanceMinus ==
  ASSUME NEW f \in Counts, NEW g \in Counts, NEW a, NEW p \in [Notes -> Nat],
         \A b \in Notes : Count(g, a, b) = Count(f, a, b) - p[b]
  PROVE  \A cur : /\ Balance(g, a, cur) = Balance(f, a, cur) - worth(p, cur)
                  /\ Balance(f, a, cur) \in Nat /\ Balance(g, a, cur) \in Nat
                  /\ worth(p, cur) \in Nat
<1> DEFINE F == [b \in Notes |-> Count(f, a, b)]
           G == [b \in Notes |-> Count(g, a, b)]
<1>1. F \in [Notes -> Nat] /\ G \in [Notes -> Nat] /\ \A b \in Notes : G[b] = F[b] - p[b]
  BY CountSound
<1>2. \A cur : Balance(f, a, cur) = worth(F, cur) /\ Balance(g, a, cur) = worth(G, cur)
  BY DEF Balance
<1> HIDE DEF F, G
<1>3. \A cur : worth(G, cur) = worth(F, cur) - worth(p, cur)
  BY <1>1, WorthMinus
<1>4. \A cur : worth(F, cur) \in Nat /\ worth(G, cur) \in Nat /\ worth(p, cur) \in Nat
  BY <1>1, WorthSound
<1> QED BY <1>2, <1>3, <1>4

-----------------------------------------------------------------------------
(* The first pass of a withdrawal. *)

(* Banknote types of one currency, in any stock of them. *)
OneCurrency(S, cur) == S \subseteq NotesIn(cur)

(* Of the types of one currency one is the cheapest: no two have the same *)
(* nominal.                                                               *)
LEMMA CheapestIn ==
  ASSUME NEW cur, NEW S, OneCurrency(S, cur), S # {}
  PROVE  cheapest(S) \in S /\ \A d \in S : d # cheapest(S) => Nominal[d] > Nominal[cheapest(S)]
<1> DEFINE R == {p \in S \X S : Nominal[p[1]] > Nominal[p[2]]}
<1>0. IsFiniteSet(S) /\ \A b \in S : b \in Notes /\ Nominal[b] \in Nat
  BY CellsOfSound, FS_Subset, NotesAssumption DEF OneCurrency
<1>1. \A x, y \in S : <<x, y>> \in R <=> Nominal[x] > Nominal[y]
  OBVIOUS
<1> HIDE DEF R
<1>2. \A x, y \in S : x # y => Nominal[x] # Nominal[y]
  BY NotesAssumption DEF OneCurrency, NotesIn
<1>3. \A x, y \in S : x # y => <<x, y>> \in R \/ <<y, x>> \in R
  BY <1>0, <1>1, <1>2
<1>4. \A x, y, z \in S : <<x, y>> \in R /\ <<y, z>> \in R => <<x, z>> \in R
  BY <1>0, <1>1
<1>5. PICK m \in S : \A x \in S : x # m => <<x, m>> \in R
  BY <1>0, <1>3, <1>4, LastOne
<1>6. \A d \in S : Nominal[m] <= Nominal[d]
  <2> TAKE d \in S
  <2>1. d = m \/ Nominal[d] > Nominal[m]
    BY <1>1, <1>5
  <2> QED BY <1>0, <2>1
<1>7. cheapest(S) \in S /\ \A d \in S : Nominal[cheapest(S)] <= Nominal[d]
  BY <1>6 DEF cheapest
<1> QED BY <1>0, <1>2, <1>7

(* The step of withdrawCalc's pass for one type. *)
PassStep(S, k, sum, pass, b) ==
  LET left == IF dearer(S, b) = {} THEN sum
              ELSE pass[cheapest(dearer(S, b))].left
      n == smaller(left \div Nominal[b], k[b])
  IN [taken |-> n, left |-> left - n * Nominal[b]]

(* A pass over some types of a stock, those that come before one of them too. *)
Passes(S, k, sum, T, pass) == pass = [b \in T |-> PassStep(S, k, sum, pass, b)]
(* Nothing dearer is left out. *)
Before(S, T) == \A b \in T : dearer(S, b) \subseteq T

(* The last type of such a part, and what is before it. *)
LEMMA LastType ==
  ASSUME NEW cur, NEW S, OneCurrency(S, cur), NEW T \in SUBSET S, T # {}, Before(S, T)
  PROVE  /\ cheapest(T) \in T /\ dearer(S, cheapest(T)) = T \ {cheapest(T)}
         /\ Before(S, T \ {cheapest(T)})
<1>1. OneCurrency(T, cur)
  BY DEF OneCurrency
<1>2. PICK m : m = cheapest(T)
  OBVIOUS
<1>3. m \in T /\ \A d \in T : d # m => Nominal[d] > Nominal[m]
  BY <1>1, <1>2, CheapestIn
<1>4. \A b \in S : Nominal[b] \in Nat
  BY CellsOfSound, NotesAssumption DEF OneCurrency
<1>5. dearer(S, m) = T \ {m}
  BY <1>3, <1>4 DEF Before, dearer
<1>6. Before(S, T \ {m})
  <2> SUFFICES ASSUME NEW b \in T \ {m} PROVE dearer(S, b) \subseteq T \ {m}
    BY DEF Before
  <2>1. dearer(S, b) \subseteq T
    BY DEF Before
  <2>2. m \notin dearer(S, b)
    BY <1>3, <1>4 DEF dearer
  <2> QED BY <2>1, <2>2
<1> QED BY <1>2, <1>3, <1>5, <1>6

(* The recursion of the pass has a solution: a type at a time, the cheapest *)
(* last.                                                                    *)
LEMMA PassExists ==
  ASSUME NEW cur, NEW S, OneCurrency(S, cur), NEW k, NEW sum
  PROVE  \E pass : Passes(S, k, sum, S, pass)
<1> DEFINE P == {T \in SUBSET S : Before(S, T) => \E pass : Passes(S, k, sum, T, pass)}
<1>0. IsFiniteSet(S)
  BY CellsOfSound, FS_Subset DEF OneCurrency
<1>1. ASSUME NEW T \in SUBSET S, \A x \in T : T \ {x} \in P
      PROVE  T \in P
  <2> SUFFICES ASSUME Before(S, T) PROVE \E pass : Passes(S, k, sum, T, pass)
    OBVIOUS
  <2>1. CASE T = {}
    <3> DEFINE pass == [b \in T |-> 0]
    <3>1. pass = [b \in T |-> PassStep(S, k, sum, pass, b)]
      BY <2>1
    <3>2. Passes(S, k, sum, T, pass)
      BY <3>1 DEF Passes
    <3> QED BY <3>2
  <2>2. CASE T # {}
    <3>1. PICK m : m = cheapest(T)
      OBVIOUS
    <3>2. m \in T /\ dearer(S, m) = T \ {m} /\ Before(S, T \ {m})
      BY <2>2, <3>1, LastType
    <3>3. PICK p : Passes(S, k, sum, T \ {m}, p)
      BY <1>1, <3>2
    <3> DEFINE q == [b \in T |-> IF b = m THEN PassStep(S, k, sum, p, m) ELSE p[b]]
    <3>4. /\ q = [b \in T |-> q[b]]
          /\ \A b \in T : q[b] = IF b = m THEN PassStep(S, k, sum, p, m) ELSE p[b]
      OBVIOUS
    <3> HIDE DEF q
    <3>5. ASSUME NEW b \in T
          PROVE  q[b] = PassStep(S, k, sum, q, b)
      <4>1. q[b] = PassStep(S, k, sum, p, b)
        <5>1. CASE b = m
          BY <3>4, <5>1
        <5>2. CASE b # m
          <6>1. p[b] = PassStep(S, k, sum, p, b)
            BY <3>3, <5>2 DEF Passes
          <6> QED BY <3>4, <5>2, <6>1
        <5> QED BY <5>1, <5>2
      <4>2. dearer(S, b) # {} => q[cheapest(dearer(S, b))] = p[cheapest(dearer(S, b))]
        <5> SUFFICES ASSUME dearer(S, b) # {}
                     PROVE  q[cheapest(dearer(S, b))] = p[cheapest(dearer(S, b))]
          OBVIOUS
        <5>1. dearer(S, b) \subseteq T \ {m}
          <6>1. CASE b = m
            BY <3>2, <6>1
          <6>2. CASE b # m
            BY <3>2, <6>2 DEF Before
          <6> QED BY <6>1, <6>2
        <5>2. OneCurrency(dearer(S, b), cur)
          BY <5>1 DEF OneCurrency
        <5>3. cheapest(dearer(S, b)) \in dearer(S, b)
          BY <5>2, CheapestIn
        <5> QED BY <3>4, <5>1, <5>3
      <4> QED BY <4>1, <4>2 DEF PassStep
    <3>6. Passes(S, k, sum, T, q)
      BY <3>4, <3>5 DEF Passes
    <3> QED BY <3>6
  <2> QED BY <2>1, <2>2
<1> HIDE DEF P
<1>2. \A T \in SUBSET S : T \in P
  BY <1>0, <1>1, SubsetInduction
<1>3. S \in P /\ Before(S, S)
  BY <1>2 DEF Before, dearer
<1> QED BY <1>3 DEF P

(* As many notes as fit into what is left, and as there are, leave a natural *)
(* number.                                                                   *)
LEMMA Fitting ==
  ASSUME NEW x \in Nat, NEW d \in Nat \ {0}, NEW k \in Nat, NEW n, n = smaller(x \div d, k)
  PROVE  n \in 0..k /\ n * d \in Nat /\ x - n * d \in Nat
<1>1. PICK q : q = x \div d
  OBVIOUS
<1>2. q \in Nat /\ d * q <= x
  BY <1>1
<1>3. n \in Nat /\ n <= q /\ n <= k
  BY <1>1, <1>2 DEF smaller
<1>4. n * d <= q * d /\ n * d \in Nat /\ q * d \in Nat /\ q * d = d * q
  <2>1. \A i, j, l \in Nat : i <= j => i * l <= j * l
    OBVIOUS
  <2>2. \A i, l \in Nat : i * l \in Nat /\ i * l = l * i
    OBVIOUS
  <2> QED BY <1>2, <1>3, <2>1, <2>2
<1> QED BY <1>2, <1>3, <1>4

(* What is left after a part of the pass. *)
Remaining(sum, T, pass) == IF T = {} THEN sum ELSE pass[cheapest(T)].left

(* Of each type the pass takes no more than there are, and all it takes and *)
(* what it leaves are the sum that was asked for.                           *)
LEMMA PassSound ==
  ASSUME NEW cur, NEW S, OneCurrency(S, cur), NEW k, \A b \in S : k[b] \in Nat, NEW sum \in Nat,
         NEW pass, Passes(S, k, sum, S, pass),
         NEW w, \A b \in S : w[b] = Nominal[b] * pass[b].taken
  PROVE  /\ \A b \in S : pass[b].taken \in 0..k[b] /\ w[b] \in Nat
         /\ Remaining(sum, S, pass) \in Nat
         /\ SumFunctionOnSet(w, S) = sum - Remaining(sum, S, pass)
<1> DEFINE Good(T) == /\ \A b \in T : pass[b].taken \in 0..k[b] /\ w[b] \in Nat
                      /\ Remaining(sum, T, pass) \in Nat
                      /\ SumFunctionOnSet(w, T) = sum - Remaining(sum, T, pass)
           P == {T \in SUBSET S : Before(S, T) => Good(T)}
<1>0. IsFiniteSet(S)
  BY CellsOfSound, FS_Subset DEF OneCurrency
<1>1. ASSUME NEW T \in SUBSET S, \A x \in T : T \ {x} \in P
      PROVE  T \in P
  <2> SUFFICES ASSUME Before(S, T) PROVE Good(T)
    OBVIOUS
  <2>f. IsFiniteSet(T)
    BY <1>0, FS_Subset
  <2>1. CASE T = {}
    <3>1. SumFunctionOnSet(w, T) = 0
      BY <2>1, <2>f, SumOfAll
    <3> QED BY <2>1, <3>1 DEF Remaining
  <2>2. CASE T # {}
    <3>1. PICK m : m = cheapest(T)
      OBVIOUS
    <3>2. m \in T /\ dearer(S, m) = T \ {m} /\ Before(S, T \ {m})
      BY <2>2, <3>1, LastType
    <3>3. Good(T \ {m})
      BY <1>1, <3>2
    <3>4. PICK left, n : left = Remaining(sum, T \ {m}, pass) /\ n = smaller(left \div Nominal[m], k[m])
      OBVIOUS
    <3>5. pass[m] = [taken |-> n, left |-> left - n * Nominal[m]]
      <4>1. pass[m] = PassStep(S, k, sum, pass, m)
        BY <3>2 DEF Passes
      <4> QED BY <3>2, <3>4, <4>1 DEF PassStep, Remaining
    <3>6. left \in Nat /\ Nominal[m] \in Nat \ {0} /\ k[m] \in Nat
      <4>1. m \in Notes
        BY <3>2, CellsOfSound DEF OneCurrency
      <4> QED BY <3>2, <3>3, <3>4, <4>1, NotesAssumption
    <3>7. n \in 0..k[m] /\ n * Nominal[m] \in Nat /\ left - n * Nominal[m] \in Nat
      BY <3>4, <3>6, Fitting
    <3>8. w[m] = n * Nominal[m]
      <4>1. w[m] = Nominal[m] * n
        BY <3>2, <3>5
      <4>2. \A i, l \in Nat : i * l = l * i
        OBVIOUS
      <4> QED BY <3>6, <3>7, <4>1, <4>2
    <3>9. \A b \in T : pass[b].taken \in 0..k[b] /\ w[b] \in Nat
      <4> TAKE b \in T
      <4>1. CASE b = m
        <5>1. pass[m].taken = n
          BY <3>5
        <5> QED BY <3>7, <3>8, <4>1, <5>1
      <4>2. CASE b # m
        BY <3>3, <4>2
      <4> QED BY <4>1, <4>2
    <3>10. Remaining(sum, T, pass) = left - n * Nominal[m]
      BY <2>2, <3>1, <3>5 DEF Remaining
    <3>11. SumFunctionOnSet(w, T) = w[m] + SumFunctionOnSet(w, T \ {m})
      <4>1. \A x \in T : w[x] \in Int
        BY <3>9
      <4> QED BY <2>f, <3>2, <4>1, SumOneMore
    <3>12. SumFunctionOnSet(w, T) = sum - Remaining(sum, T, pass)
      <4>1. SumFunctionOnSet(w, T \ {m}) = sum - left
        BY <3>3, <3>4
      <4>2. PICK x : x = n * Nominal[m]
        OBVIOUS
      <4>3. x \in Nat /\ w[m] = x /\ Remaining(sum, T, pass) = left - x
        BY <3>7, <3>8, <3>10, <4>2
      <4> QED BY <3>6, <3>11, <4>1, <4>3
    <3> QED BY <3>7, <3>9, <3>10, <3>12
  <2> QED BY <2>1, <2>2
<1> HIDE DEF P
<1>2. \A T \in SUBSET S : T \in P
  BY <1>0, <1>1, SubsetInduction
<1>3. S \in P /\ Before(S, S)
  BY <1>2 DEF Before, dearer
<1> QED BY <1>3 DEF P

(* What a pack for a sum comes to, with something of the sum left. *)
Calculated(calc, a, cur, sum) ==
  /\ calc.taken \in [Notes -> Nat] /\ calc.left \in Nat
  /\ \A b \in Notes : /\ calc.taken[b] <= countOf(a, b)
                      /\ b \notin stock(a, cur) => calc.taken[b] = 0
  /\ worth(calc.taken, cur) = sum - calc.left

(* What the first pass finds: notes that are there, worth the sum but for what is left. *)
LEMMA CalcSound ==
  ASSUME banknoteCount \in Counts, NEW a, NEW cur \in Currencies, NEW sum \in Nat
  PROVE  Calculated(withdrawCalc(a, cur, sum), a, cur, sum)
<1> DEFINE calc == withdrawCalc(a, cur, sum)
<1> DEFINE S == stock(a, cur)
           k == [b \in Notes |-> countOf(a, b)]
           p == CHOOSE pass : pass =
                  [b \in S |->
                     LET left == IF dearer(S, b) = {} THEN sum
                                 ELSE pass[cheapest(dearer(S, b))].left
                         n == smaller(left \div Nominal[b], countOf(a, b))
                     IN [taken |-> n, left |-> left - n * Nominal[b]]]
<1>1. calc =
        [taken |-> [b \in Notes |-> IF b \in S THEN p[b].taken ELSE 0],
         left |-> IF S = {} THEN sum ELSE p[cheapest(S)].left]
  BY Zenon DEF withdrawCalc
<1>2. OneCurrency(S, cur) /\ S \subseteq Notes
  <2>1. NotesOf(a) \subseteq Notes
    BY CellsAssumption DEF NotesOf
  <2> QED BY <2>1 DEF stock, OneCurrency, NotesIn
<1>3. \A b \in Notes : k[b] = countOf(a, b) /\ k[b] \in Nat
  BY CountSound DEF Count, countOf
<1> HIDE DEF S, k
<1>4. \A pass : Passes(S, k, sum, S, pass) <=>
        pass = [b \in S |->
                     LET left == IF dearer(S, b) = {} THEN sum
                                 ELSE pass[cheapest(dearer(S, b))].left
                         n == smaller(left \div Nominal[b], countOf(a, b))
                     IN [taken |-> n, left |-> left - n * Nominal[b]]]
  BY <1>2, <1>3 DEF Passes, PassStep
<1>5. \E pass : Passes(S, k, sum, S, pass)
  BY <1>2, PassExists
<1>6. Passes(S, k, sum, S, p)
  BY <1>4, <1>5
<1> HIDE DEF p, calc
<1> DEFINE W == [b \in Notes |-> Nominal[b] * calc.taken[b]]
<1>7. calc.taken = [b \in Notes |-> IF b \in S THEN p[b].taken ELSE 0]
      /\ calc.left = Remaining(sum, S, p)
  BY <1>1 DEF Remaining
<1>8. \A b \in S : W[b] = Nominal[b] * p[b].taken
  BY <1>2, <1>7
<1> HIDE DEF W
<1>9. /\ \A b \in S : p[b].taken \in 0..k[b] /\ W[b] \in Nat
      /\ Remaining(sum, S, p) \in Nat
      /\ SumFunctionOnSet(W, S) = sum - Remaining(sum, S, p)
  <2>1. \A b \in S : k[b] \in Nat
    BY <1>2, <1>3
  <2>2. PICK s, kk, pp, ww : s = S /\ kk = k /\ pp = p /\ ww = W
    OBVIOUS
  <2>3. OneCurrency(s, cur) /\ (\A b \in s : kk[b] \in Nat) /\ Passes(s, kk, sum, s, pp)
        /\ \A b \in s : ww[b] = Nominal[b] * pp[b].taken
    BY <1>2, <1>6, <1>8, <2>1, <2>2
  <2>4. /\ \A b \in s : pp[b].taken \in 0..kk[b] /\ ww[b] \in Nat
        /\ Remaining(sum, s, pp) \in Nat
        /\ SumFunctionOnSet(ww, s) = sum - Remaining(sum, s, pp)
    BY ONLY <2>3, sum \in Nat, PassSound
  <2> QED BY <2>2, <2>4
<1>10. \A b \in Notes : calc.taken[b] \in 0..k[b] /\ (b \notin S => calc.taken[b] = 0)
  BY <1>2, <1>3, <1>7, <1>9
<1>11. calc.taken \in [Notes -> Nat]
  BY <1>7, <1>10
<1>12. worth(calc.taken, cur) = SumFunctionOnSet(W, S)
  <2>1. PICK B : B = NotesIn(cur)
    OBVIOUS
  <2>2. IsFiniteSet(B) /\ S \subseteq B /\ B \subseteq Notes
    BY <1>2, <2>1, CellsOfSound DEF OneCurrency
  <2>3. \A b \in B \ S : W[b] = 0
    <3>1. \A b \in Notes : W[b] = Nominal[b] * calc.taken[b] /\ Nominal[b] \in Nat
      BY NotesAssumption DEF W
    <3> QED BY <1>10, <2>2, <3>1
  <2>4. \A b \in B : W[b] \in Int
    BY <1>9, <2>3
  <2>5. PICK ww, s : ww = W /\ s = S
    OBVIOUS
  <2>6. SumFunctionOnSet(ww, B) = SumFunctionOnSet(ww, s)
    BY <2>2, <2>3, <2>4, <2>5, SumSupport
  <2> QED BY <2>1, <2>5, <2>6 DEF worth, NotesIn, W
<1> QED BY <1>3, <1>7, <1>9, <1>10, <1>11, <1>12 DEF S, calc, Calculated

(* What the second pass takes. *)
LEMMA PaidOutSound ==
  ASSUME banknoteCount \in Counts, NEW a, NEW cur \in Currencies, NEW sum \in Nat,
         NEW calc, calc = withdrawCalc(a, cur, sum),
         NEW pack, pack = paidOut(a, cur, calc.taken)
  PROVE  /\ pack \in [Notes -> Nat]
         /\ \A b \in Notes : pack[b] <= countOf(a, b)
         /\ worth(pack, cur) \in 0..(sum - calc.left)
         /\ \A x \in Currencies \ {cur} : worth(pack, x) = 0
         /\ pack = calc.taken => worth(pack, cur) = sum - calc.left
<1>1. /\ calc.taken \in [Notes -> Nat] /\ calc.left \in Nat
      /\ \A b \in Notes : /\ calc.taken[b] <= countOf(a, b)
                          /\ b \notin stock(a, cur) => calc.taken[b] = 0
      /\ worth(calc.taken, cur) = sum - calc.left
  BY CalcSound DEF Calculated
<1>2. \A b \in Notes : pack[b] = calc.taken[b] \/ pack[b] = 0
  BY DEF paidOut
<1>3. \A b \in Notes : countOf(a, b) \in Nat
  BY CountSound DEF Count, countOf
<1>4. pack = [b \in Notes |-> pack[b]]
  BY DEF paidOut
<1>5. pack \in [Notes -> Nat] /\ \A b \in Notes : pack[b] <= countOf(a, b)
  <2>1. \A b \in Notes : pack[b] \in Nat /\ pack[b] <= countOf(a, b) /\ calc.taken[b] \in Nat
    BY <1>1, <1>2, <1>3
  <2> QED BY <1>4, <2>1
<1>6. \A b \in Notes : b \notin stock(a, cur) => pack[b] = 0
  BY <1>1, <1>2
<1>7. worth(pack, cur) <= worth(calc.taken, cur)
  <2>1. PICK V, U, B : /\ V = [b \in Notes |-> Nominal[b] * pack[b]]
                       /\ U = [b \in Notes |-> Nominal[b] * calc.taken[b]]
                       /\ B = NotesIn(cur)
    OBVIOUS
  <2>2. IsFiniteSet(B) /\ B \subseteq Notes
    BY <2>1, CellsOfSound
  <2>3. \A b \in B : V[b] \in Int /\ U[b] \in Int /\ V[b] <= U[b]
    <3> TAKE b \in B
    <3>1. V[b] = Nominal[b] * pack[b] /\ U[b] = Nominal[b] * calc.taken[b]
          /\ Nominal[b] \in Nat /\ calc.taken[b] \in Nat
          /\ (pack[b] = calc.taken[b] \/ pack[b] = 0)
      BY <1>1, <1>2, <2>1, <2>2, NotesAssumption
    <3>2. \A x, y \in Nat : x * y \in Nat /\ x * 0 = 0
      OBVIOUS
    <3>3. U[b] \in Nat /\ (V[b] = U[b] \/ V[b] = 0)
      BY <3>1, <3>2
    <3> QED BY <3>3
  <2>4. SumFunctionOnSet(V, B) <= SumFunctionOnSet(U, B)
    BY ONLY <2>2, <2>3, SumLess
  <2> QED BY <2>1, <2>4 DEF worth, NotesIn
<1>8. worth(pack, cur) \in Nat
  BY <1>5, WorthSound
<1>9. ASSUME NEW x \in Currencies \ {cur}
      PROVE  worth(pack, x) = 0
  <2>1. PICK V, B : V = [b \in Notes |-> Nominal[b] * pack[b]] /\ B = NotesIn(x)
    OBVIOUS
  <2>2. IsFiniteSet(B) /\ B \subseteq Notes
    BY <2>1, CellsOfSound
  <2>3. \A b \in B : V[b] = 0
    <3> TAKE b \in B
    <3>1. b \in Notes /\ CurrencyOf[b] = x
      BY <2>1 DEF NotesIn
    <3>2. b \notin stock(a, cur)
      BY <3>1 DEF stock
    <3>3. V[b] = Nominal[b] * 0 /\ Nominal[b] \in Nat
      BY <1>6, <2>1, <3>1, <3>2, NotesAssumption
    <3> QED BY <3>3
  <2>4. SumFunctionOnSet(V, B) = 0
    BY <2>2, <2>3, SumZero
  <2> QED BY <2>1, <2>4 DEF worth, NotesIn
<1> QED BY <1>1, <1>5, <1>7, <1>8, <1>9

-----------------------------------------------------------------------------
(* What the commands do to the counts and the balances. *)

(* What the action says of a cell is what was shown above of any. *)
LEMMA EjectedIsGiven ==
  \A c \in Cells : \A n : ejected(c, n) =
     Given(banknoteCount, CellsOf(CellAtm[c], CellNote[c]), c, n)
BY DEF ejected, Given, ahead, Fuller

(* A pack is taken from a machine. *)
Taken(a, pack) ==
  banknoteCount' = [c \in Cells |-> IF CellAtm[c] = a
                                      THEN banknoteCount[c] - ejected(c, pack[CellNote[c]])
                                      ELSE banknoteCount[c]]

(* Of each type a machine then has as many less as the pack holds, and the *)
(* others' cells are as they were.                                         *)
LEMMA TakenCounts ==
  ASSUME banknoteCount \in Counts, NEW a, NEW pack \in [Notes -> Nat],
         \A b \in Notes : pack[b] <= countOf(a, b), Taken(a, pack)
  PROVE  /\ banknoteCount' \in Counts
         /\ \A b \in Notes : Count(banknoteCount', a, b) = Count(banknoteCount, a, b) - pack[b]
         /\ \A c \in Cells : CellAtm[c] # a => banknoteCount'[c] = banknoteCount[c]
<1>1. PICK f, g : f = banknoteCount /\ g = banknoteCount'
  OBVIOUS
<1>2. ASSUME NEW b \in Notes
      PROVE  /\ \A c \in CellsOf(a, b) : g[c] \in Nat
             /\ Count(g, a, b) = Count(f, a, b) - pack[b]
  <2>1. PICK A, n : A = CellsOf(a, b) /\ n = pack[b]
    OBVIOUS
  <2>2. /\ IsFiniteSet(A) /\ A \subseteq Cells /\ A \subseteq Nat /\ n \in Nat
        /\ \A x \in A : f[x] \in Nat
    BY <1>1, <2>1, CellsOfSound, CellsAssumption DEF Counts
  <2>3. n <= SumFunctionOnSet(f, A)
    BY <1>1, <2>1 DEF countOf
  <2>4. \A x \in A : g[x] = f[x] - Given(f, A, x, n)
    <3> TAKE x \in A
    <3>1. x \in Cells /\ CellAtm[x] = a /\ CellNote[x] = b
      BY <2>1 DEF CellsOf
    <3>2. ejected(x, n) = Given(f, A, x, n)
      BY <1>1, <2>1, <3>1, EjectedIsGiven
    <3> QED BY <1>1, <2>1, <3>1, <3>2 DEF Taken
  <2>5. /\ \A x \in A : g[x] \in Nat
        /\ SumFunctionOnSet(g, A) = SumFunctionOnSet(f, A) - n
    BY ONLY <2>2, <2>3, <2>4, LeftAfter
  <2> QED BY <2>1, <2>5 DEF Count
<1>3. \A c \in Cells : CellAtm[c] # a => g[c] = f[c]
  BY <1>1 DEF Taken
<1>4. g \in Counts
  <2>1. g = [c \in Cells |-> g[c]]
    BY <1>1 DEF Taken
  <2>2. ASSUME NEW c \in Cells PROVE g[c] \in Nat
    <3>1. CASE CellAtm[c] # a
      BY <1>1, <1>3, <3>1 DEF Counts
    <3>2. CASE CellAtm[c] = a
      <4>1. c \in CellsOf(a, CellNote[c]) /\ CellNote[c] \in Notes
        BY <3>2, CellsAssumption DEF CellsOf
      <4> QED BY <1>2, <4>1
    <3> QED BY <3>1, <3>2
  <2> QED BY <2>1, <2>2 DEF Counts
<1> QED BY <1>1, <1>2, <1>3, <1>4

(* A pack is put into a machine that has cells for it. *)
Put(a, pack) ==
  banknoteCount' = [c \in Cells |-> IF CellAtm[c] = a /\ c = fewest(a, CellNote[c])
                                      THEN banknoteCount[c] + pack[CellNote[c]]
                                      ELSE banknoteCount[c]]

(* Of each type it has as many more: the pack goes into the cells with the *)
(* fewest.                                                                 *)
LEMMA PutCounts ==
  ASSUME banknoteCount \in Counts, NEW a, NEW pack \in [Notes -> Nat],
         typesIn(pack) \subseteq NotesOf(a), Put(a, pack)
  PROVE  /\ banknoteCount' \in Counts
         /\ \A b \in Notes : Count(banknoteCount, a, b) = Count(banknoteCount', a, b) - pack[b]
         /\ \A c \in Cells : CellAtm[c] # a => banknoteCount'[c] = banknoteCount[c]
<1>1. PICK f, g : f = banknoteCount /\ g = banknoteCount'
  OBVIOUS
<1>2. g \in Counts /\ f \in Counts
  BY <1>1, CellsAssumption DEF Counts, Put
<1>3. \A c \in Cells : CellAtm[c] # a => g[c] = f[c]
  BY <1>1 DEF Put
<1>4. ASSUME NEW b \in Notes
      PROVE  Count(f, a, b) = Count(g, a, b) - pack[b]
  <2>1. PICK A, n, m : A = CellsOf(a, b) /\ n = pack[b] /\ m = fewest(a, b)
    OBVIOUS
  <2>2. /\ IsFiniteSet(A) /\ A \subseteq Cells /\ A \subseteq Nat /\ n \in Nat
        /\ \A x \in A : f[x] \in Nat /\ g[x] \in Nat
    BY <1>2, <2>1, CellsOfSound, CellsAssumption DEF Counts
  <2>3. \A x \in A : g[x] = IF x = m THEN f[x] + n ELSE f[x]
    BY <1>1, <2>1 DEF Put, CellsOf
  <2>4. SumFunctionOnSet(f, A) \in Int /\ SumFunctionOnSet(g, A) \in Int
    <3>1. \A x \in A : f[x] \in Int /\ g[x] \in Int
      BY <2>2
    <3> QED BY <2>2, <3>1, SumsAreInt
  <2>5. SumFunctionOnSet(f, A) = SumFunctionOnSet(g, A) - n
    <3>1. CASE n = 0
      <4>1. \A x \in A : f[x] = g[x]
        BY <2>2, <2>3, <3>1
      <4>2. SumFunctionOnSet(f, A) = SumFunctionOnSet(g, A)
        BY ONLY <2>2, <4>1, SumSame
      <4> QED BY <2>4, <3>1, <4>2
    <3>2. CASE n # 0
      <4>1. A # {}
        <5>1. b \in NotesOf(a)
          BY <2>1, <2>2, <3>2 DEF typesIn
        <5> QED BY <2>1, <5>1 DEF NotesOf, CellsOf
      <4>2. \E c \in A : \A d \in A : f[c] < f[d] \/ (f[c] = f[d] /\ c <= d)
        BY ONLY <2>2, <4>1, FewestIn
      <4>3. m \in A
        BY <1>1, <2>1, <4>2 DEF fewest
      <4>4. \A x \in A : f[x] \in Int /\ g[x] \in Int
        BY <2>2
      <4>a. \A x \in A : x # m => g[x] = f[x]
        BY <2>3
      <4>5. SumFunctionOnSet(f, A) = f[m] + SumFunctionOnSet(f, A \ {m})
        <5>1. IsFiniteSet(A) /\ A \in SUBSET A
          BY <2>2
        <5>2. \A x \in A : f[x] \in Int
          BY <4>4
        <5>3. \A T \in SUBSET A :
                /\ SumFunctionOnSet(f, T) \in Int
                /\ \A x \in T : SumFunctionOnSet(f, T) = f[x] + SumFunctionOnSet(f, T \ {x})
          BY ONLY <5>1, <5>2, SumOneMore
        <5> QED BY <4>3, <5>1, <5>3
      <4>6. SumFunctionOnSet(g, A) = g[m] + SumFunctionOnSet(g, A \ {m})
        <5>1. IsFiniteSet(A) /\ A \in SUBSET A
          BY <2>2
        <5>2. \A x \in A : g[x] \in Int
          BY <4>4
        <5>3. \A T \in SUBSET A :
                /\ SumFunctionOnSet(g, T) \in Int
                /\ \A x \in T : SumFunctionOnSet(g, T) = g[x] + SumFunctionOnSet(g, T \ {x})
          BY ONLY <5>1, <5>2, SumOneMore
        <5> QED BY <4>3, <5>1, <5>3
      <4>7. SumFunctionOnSet(f, A \ {m}) = SumFunctionOnSet(g, A \ {m})
        <5>1. IsFiniteSet(A \ {m}) /\ \A x \in A \ {m} : f[x] = g[x]
          BY <2>2, <4>a, FS_Subset
        <5> QED BY <5>1, SumSame
      <4>8. g[m] = f[m] + n /\ f[m] \in Nat
        BY <2>2, <2>3, <4>3
      <4>9. SumFunctionOnSet(f, A \ {m}) \in Int
        <5>1. A \ {m} \in SUBSET A
          OBVIOUS
        <5> QED BY ONLY <2>2, <4>4, <5>1, SumsAreInt
      <4> QED BY <2>2, <4>5, <4>6, <4>7, <4>8, <4>9
    <3> QED BY <3>1, <3>2
  <2> QED BY <2>1, <2>5 DEF Count
<1> QED BY <1>1, <1>2, <1>3, <1>4

-----------------------------------------------------------------------------
(* The invariant. *)

(* BooksBalance, of any counts and ledger. *)
Books(f, l, s) ==
  \A a \in Atms \ s : \A cur \in Currencies :
    Balance(f, a, cur) = Balance(CellInitial, a, cur) + l[a][cur]

(* The balances before and after a step. *)
LEMMA BalanceIs ==
  /\ \A a, cur : balance(a, cur) = Balance(banknoteCount, a, cur)
  /\ \A a, cur : balance(a, cur)' = Balance(banknoteCount', a, cur)
<1>1. \A a, cur : balance(a, cur) = Balance(banknoteCount, a, cur)
  BY DEF balance, countOf, Balance, Count
<1>2. \A a, cur : balance(a, cur)' = Balance(banknoteCount', a, cur)
  BY DEF balance, countOf, Balance, Count, worth, CellsOf
<1> QED BY <1>1, <1>2

(* The books before and after a step. *)
LEMMA BooksAre ==
  /\ BooksBalance <=> Books(banknoteCount, ledger, short)
  /\ BooksBalance' <=> Books(banknoteCount', ledger', short')
<1>1. \A a, cur : worth([b \in Notes |-> SumFunctionOnSet(CellInitial, CellsOf(a, b))], cur)
                    = Balance(CellInitial, a, cur)
  BY DEF Balance, Count
<1>2. BooksBalance <=> Books(banknoteCount, ledger, short)
  BY <1>1, BalanceIs DEF BooksBalance, Books
<1>3. BooksBalance' <=> Books(banknoteCount', ledger', short')
  BY <1>1, BalanceIs DEF BooksBalance, Books
<1> QED BY <1>2, <1>3

(* Whatever is in the cells, the balances are natural numbers. *)
LEMMA CountsTyped ==
  /\ TypeOK => banknoteCount \in Counts
  /\ CellInitial \in Counts
  /\ \A f \in Counts : \A a, cur : Balance(f, a, cur) \in Nat
<1>1. TypeOK => banknoteCount \in Counts
  BY DEF TypeOK, Counts
<1>2. CellInitial \in Counts
  BY CellsAssumption DEF Counts
<1>3. ASSUME NEW f \in Counts, NEW a, NEW cur
      PROVE  Balance(f, a, cur) \in Nat
  <2> DEFINE F == [b \in Notes |-> Count(f, a, b)]
  <2>1. F \in [Notes -> Nat]
    BY CountSound
  <2>2. Balance(f, a, cur) = worth(F, cur)
    BY DEF Balance
  <2> HIDE DEF F
  <2>3. worth(F, cur) \in Nat
    BY <2>1, WorthSound
  <2> QED BY <2>2, <2>3
<1> QED BY <1>1, <1>2, <1>3

(* The racks as they are delivered: nothing is booked. *)
LEMMA RoundTyped ==
  /\ \A n \in Nat : \A F \in SUBSET Atms :
       [next |-> n, failed |-> F] \in [next : Nat, failed : SUBSET Atms]
  /\ {} \in SUBSET Atms
OBVIOUS

LEMMA InitBooks == Init => BooksInOrder
<1> SUFFICES ASSUME Init PROVE BooksInOrder
  OBVIOUS
<1>1. banknoteCount = CellInitial /\ ledger = [a \in Atms |-> NothingBooked] /\ short = {}
  BY DEF Init
<1>2. TypeOK
  BY <1>1, CellsAssumption, RoundTyped DEF TypeOK, Init, NoAnswer, NoNotes, NothingBooked, NoRound
<1>3. Books(banknoteCount, ledger, short)
  <2> SUFFICES ASSUME NEW a \in Atms, NEW cur \in Currencies
               PROVE  Balance(CellInitial, a, cur) = Balance(CellInitial, a, cur) + 0
    BY <1>1 DEF Books, NothingBooked
  <2>1. Balance(CellInitial, a, cur) \in Nat
    BY CountsTyped
  <2> QED BY <2>1
<1> QED BY <1>2, <1>3, BooksAre DEF BooksInOrder

(* Commands that leave the cells. *)
LEMMA IdleBooks ==
  ASSUME BooksInOrder, UNCHANGED <<banknoteCount, ledger, short>>, TypeOK'
  PROVE  BooksInOrder'
BY BooksAre DEF BooksInOrder

(* The steps of a withdrawal that goes through to the second pass. *)
LEMMA WithdrawTakes ==
  ASSUME TypeOK, NEW a \in Atms, NEW cur \in Currencies, NEW sum \in Sums,
         Withdraw(a, cur, sum)
  PROVE  \E pack \in [Notes -> Nat] :
           /\ banknoteCount' \in Counts
           /\ Taken(a, pack)
           /\ \A x \in Currencies : Balance(banknoteCount', a, x) =
                                      Balance(banknoteCount, a, x) - worth(pack, x)
           /\ \A e \in Atms \ {a} : \A x : Balance(banknoteCount', e, x) =
                                             Balance(banknoteCount, e, x)
           /\ sum \in Nat
           /\ worth(pack, cur) \in 0..sum
           /\ \A x \in Currencies \ {cur} : worth(pack, x) = 0
           /\ \/ /\ worth(pack, cur) = sum
                 /\ answerTo("withdraw", "ok", sum, pack)
                 /\ book(a, [x \in Currencies |-> IF x = cur THEN -sum ELSE 0])
                 /\ UNCHANGED short
              \/ /\ answerTo("withdraw", "illegalArgument", sum, NoNotes)
                 /\ short' = IF pack = NoNotes THEN short ELSE short \cup {a}
                 /\ ledger' = IF pack = NoNotes THEN ledger
                              ELSE [ledger EXCEPT ![a] = NothingBooked]
<1>1. PICK calc, pack : calc = withdrawCalc(a, cur, sum) /\ pack = paidOut(a, cur, calc.taken)
  OBVIOUS
<1>2. /\ sum > 0 /\ calc.left = 0 /\ Taken(a, pack)
      /\ IF pack = calc.taken
           THEN /\ answerTo("withdraw", "ok", sum, pack)
                /\ book(a, [x \in Currencies |-> IF x = cur THEN -sum ELSE 0])
                /\ UNCHANGED short
           ELSE /\ answerTo("withdraw", "illegalArgument", sum, NoNotes)
                /\ short' = IF pack = NoNotes THEN short ELSE short \cup {a}
                /\ ledger' = IF pack = NoNotes THEN ledger
                             ELSE [ledger EXCEPT ![a] = NothingBooked]
  BY <1>1 DEF Withdraw, Taken
<1>3. sum \in Nat /\ banknoteCount \in Counts
  BY <1>2, InputsAssumption, CountsTyped
<1>4. /\ pack \in [Notes -> Nat]
      /\ \A b \in Notes : pack[b] <= countOf(a, b)
      /\ worth(pack, cur) \in 0..(sum - calc.left)
      /\ \A x \in Currencies \ {cur} : worth(pack, x) = 0
      /\ pack = calc.taken => worth(pack, cur) = sum - calc.left
  BY ONLY <1>1, <1>3, cur \in Currencies, PaidOutSound
<1>5. /\ banknoteCount' \in Counts
      /\ \A b \in Notes : Count(banknoteCount', a, b) = Count(banknoteCount, a, b) - pack[b]
      /\ \A c \in Cells : CellAtm[c] # a => banknoteCount'[c] = banknoteCount[c]
  BY ONLY <1>2, <1>3, <1>4, TakenCounts
<1>6. PICK f, g : f = banknoteCount /\ g = banknoteCount'
  OBVIOUS
<1>7. \A x : Balance(g, a, x) = Balance(f, a, x) - worth(pack, x)
  <2>1. f \in Counts /\ g \in Counts /\ \A b \in Notes : Count(g, a, b) = Count(f, a, b) - pack[b]
    BY <1>3, <1>5, <1>6
  <2> QED BY <1>4, <2>1, BalanceMinus
<1>8. ASSUME NEW e \in Atms \ {a}
      PROVE  \A x : Balance(g, e, x) = Balance(f, e, x)
  <2>1. \A c \in Cells : CellAtm[c] = e => g[c] = f[c]
    BY <1>5, <1>6
  <2> QED BY <2>1, BalanceSame
<1>9. worth(pack, cur) \in 0..sum /\ (pack = calc.taken => worth(pack, cur) = sum)
  BY <1>2, <1>3, <1>4
<1> QED BY <1>2, <1>3, <1>4, <1>5, <1>6, <1>7, <1>8, <1>9

(* A withdrawal is booked when it is paid; a machine that is left short is no *)
(* longer accounted for, and one that gave nothing still is.                  *)
LEMMA WithdrawBooks ==
  ASSUME BooksInOrder, NEW a \in Atms, NEW cur \in Currencies, NEW sum \in Sums,
         Withdraw(a, cur, sum), UNCHANGED restoring
  PROVE  BooksInOrder'
<1>1. TypeOK /\ Books(banknoteCount, ledger, short)
  BY BooksAre DEF BooksInOrder
<1>2. PICK pack \in [Notes -> Nat] :
           /\ banknoteCount' \in Counts
           /\ Taken(a, pack)
           /\ \A x \in Currencies : Balance(banknoteCount', a, x) =
                                      Balance(banknoteCount, a, x) - worth(pack, x)
           /\ \A e \in Atms \ {a} : \A x : Balance(banknoteCount', e, x) =
                                             Balance(banknoteCount, e, x)
           /\ sum \in Nat
           /\ worth(pack, cur) \in 0..sum
           /\ \A x \in Currencies \ {cur} : worth(pack, x) = 0
           /\ \/ /\ worth(pack, cur) = sum
                 /\ answerTo("withdraw", "ok", sum, pack)
                 /\ book(a, [x \in Currencies |-> IF x = cur THEN -sum ELSE 0])
                 /\ UNCHANGED short
              \/ /\ answerTo("withdraw", "illegalArgument", sum, NoNotes)
                 /\ short' = IF pack = NoNotes THEN short ELSE short \cup {a}
                 /\ ledger' = IF pack = NoNotes THEN ledger
                              ELSE [ledger EXCEPT ![a] = NothingBooked]
  BY <1>1, WithdrawTakes
<1>3. atms' = atms
  BY DEF Withdraw
<1>4. ledger \in [Atms -> [Currencies -> Int]] /\ short \subseteq Atms
  BY <1>1 DEF TypeOK
<1>5. \A e \in Atms, x \in Currencies :
        Balance(banknoteCount, e, x) \in Nat /\ Balance(CellInitial, e, x) \in Nat
        /\ ledger[e][x] \in Int
  BY <1>1, <1>4, CountsTyped
<1>6. CASE /\ worth(pack, cur) = sum
           /\ answerTo("withdraw", "ok", sum, pack)
           /\ book(a, [x \in Currencies |-> IF x = cur THEN -sum ELSE 0])
           /\ UNCHANGED short
  <2>1. \A x \in Currencies : ([y \in Currencies |-> IF y = cur THEN -sum ELSE 0])[x] = -worth(pack, x)
    BY <1>2, <1>6
  <2>2. ledger' \in [Atms -> [Currencies -> Int]]
    BY <1>2, <1>4, <1>6 DEF book
  <2>3. TypeOK'
    BY <1>1, <1>2, <1>3, <1>6, <2>2 DEF TypeOK, answerTo, Counts
  <2>4. ASSUME NEW e \in Atms \ short, NEW x \in Currencies
        PROVE  Balance(banknoteCount', e, x) = Balance(CellInitial, e, x) + ledger'[e][x]
    <3>1. Balance(banknoteCount, e, x) = Balance(CellInitial, e, x) + ledger[e][x]
      BY <1>1 DEF Books
    <3>2. CASE e = a
      <4>1. ledger'[a][x] = ledger[a][x] + (-worth(pack, x))
        BY <1>4, <1>6, <2>1, <2>4, <3>2 DEF book
      <4>2. Balance(banknoteCount', a, x) = Balance(banknoteCount, a, x) - worth(pack, x)
        BY <1>2
      <4>3. worth(pack, x) \in Nat
        BY WorthSound
      <4>4. /\ Balance(banknoteCount, e, x) \in Nat /\ Balance(CellInitial, e, x) \in Nat
            /\ ledger[e][x] \in Int
        BY <1>5
      <4> QED BY <3>1, <3>2, <4>1, <4>2, <4>3, <4>4
    <3>3. CASE e # a
      <4>1. ledger'[e] = ledger[e]
        BY <1>4, <1>6, <2>4, <3>3 DEF book
      <4> QED BY <1>2, <3>1, <3>3, <4>1
    <3> QED BY <3>2, <3>3
  <2>5. Books(banknoteCount', ledger', short')
    BY <1>6, <2>4 DEF Books
  <2> QED BY <2>3, <2>5, BooksAre DEF BooksInOrder
<1>7. CASE /\ answerTo("withdraw", "illegalArgument", sum, NoNotes)
           /\ short' = IF pack = NoNotes THEN short ELSE short \cup {a}
           /\ ledger' = IF pack = NoNotes THEN ledger
                        ELSE [ledger EXCEPT ![a] = NothingBooked]
  <2>2. ledger' \in [Atms -> [Currencies -> Int]] /\ short' \subseteq Atms
    BY <1>4, <1>7 DEF NothingBooked
  <2>3. TypeOK'
    BY <1>1, <1>2, <1>3, <1>7, <2>2 DEF TypeOK, answerTo, Counts, NoNotes
  <2>4. ASSUME NEW e \in Atms \ short', NEW x \in Currencies
        PROVE  Balance(banknoteCount', e, x) = Balance(CellInitial, e, x) + ledger'[e][x]
    <3>1. Balance(banknoteCount, e, x) = Balance(CellInitial, e, x) + ledger[e][x]
      BY <1>1, <1>7 DEF Books
    <3>2. CASE e = a
      <4>1. pack = NoNotes /\ ledger' = ledger
        BY <1>7, <3>2
      <4>2. worth(pack, x) = 0
        BY <4>1, WorthNothing
      <4>3. Balance(banknoteCount', a, x) = Balance(banknoteCount, a, x) - 0
        BY <1>2, <4>2
      <4> QED BY <1>5, <3>1, <3>2, <4>1, <4>3
    <3>3. CASE e # a
      <4>1. ledger'[e] = ledger[e]
        BY <1>4, <1>7, <2>4, <3>3
      <4> QED BY <1>2, <3>1, <3>3, <4>1
    <3> QED BY <3>2, <3>3
  <2>5. Books(banknoteCount', ledger', short')
    BY <2>4 DEF Books
  <2> QED BY <2>3, <2>5, BooksAre DEF BooksInOrder
<1> QED BY <1>2, <1>6, <1>7

(* A deposit is booked with what the pack is worth. *)
LEMMA DepositBooks ==
  ASSUME BooksInOrder, NEW a \in Atms, NEW pack \in Packs, Deposit(a, pack), UNCHANGED restoring
  PROVE  BooksInOrder'
<1>1. TypeOK /\ Books(banknoteCount, ledger, short)
  BY BooksAre DEF BooksInOrder
<1>2. pack \in [Notes -> Nat] /\ banknoteCount \in Counts /\ Put(a, pack)
      /\ typesIn(pack) \subseteq NotesOf(a)
  BY <1>1, InputsAssumption, CountsTyped DEF Deposit, Put
<1>3. /\ banknoteCount' \in Counts
      /\ \A b \in Notes : Count(banknoteCount, a, b) = Count(banknoteCount', a, b) - pack[b]
      /\ \A c \in Cells : CellAtm[c] # a => banknoteCount'[c] = banknoteCount[c]
  BY ONLY <1>2, PutCounts
<1>4. PICK f, g : f = banknoteCount /\ g = banknoteCount'
  OBVIOUS
<1>5. \A x : /\ Balance(f, a, x) = Balance(g, a, x) - worth(pack, x)
             /\ Balance(g, a, x) \in Nat /\ Balance(f, a, x) \in Nat /\ worth(pack, x) \in Nat
  <2>1. f \in Counts /\ g \in Counts /\ \A b \in Notes : Count(f, a, b) = Count(g, a, b) - pack[b]
    BY <1>2, <1>3, <1>4
  <2> QED BY <1>2, <2>1, BalanceMinus
<1>6. ASSUME NEW e \in Atms \ {a}
      PROVE  \A x : Balance(g, e, x) = Balance(f, e, x)
  <2>1. \A c \in Cells : CellAtm[c] = e => g[c] = f[c]
    BY <1>3, <1>4
  <2> QED BY <2>1, BalanceSame
<1>7. ledger \in [Atms -> [Currencies -> Int]] /\ short \subseteq Atms
  BY <1>1 DEF TypeOK
<1>8. /\ book(a, [cur \in Currencies |-> worth(pack, cur)])
      /\ answerTo("deposit", "ok", 0, NoNotes)
      /\ UNCHANGED <<atms, short>>
  BY DEF Deposit
<1>9. ledger' \in [Atms -> [Currencies -> Int]]
  BY <1>5, <1>7, <1>8 DEF book
<1>10. TypeOK'
  BY <1>1, <1>3, <1>8, <1>9 DEF TypeOK, answerTo, Counts, NoNotes
<1>11. ASSUME NEW e \in Atms \ short, NEW x \in Currencies
       PROVE  Balance(g, e, x) = Balance(CellInitial, e, x) + ledger'[e][x]
  <2>1. Balance(f, e, x) = Balance(CellInitial, e, x) + ledger[e][x]
    BY <1>1, <1>4 DEF Books
  <2>2. CASE e = a
    <3>1. ledger'[a][x] = ledger[a][x] + worth(pack, x)
      BY <1>7, <1>8, <1>11, <2>2 DEF book
    <3>2. Balance(CellInitial, e, x) \in Nat /\ ledger[e][x] \in Int
      BY <1>7, CountsTyped
    <3> QED BY <1>5, <2>1, <2>2, <3>1, <3>2
  <2>3. CASE e # a
    <3>1. ledger'[e] = ledger[e]
      BY <1>7, <1>8, <1>11, <2>3 DEF book
    <3> QED BY <1>6, <2>1, <2>3, <3>1
  <2> QED BY <2>2, <2>3
<1>12. Books(banknoteCount', ledger', short')
  BY <1>4, <1>8, <1>11 DEF Books
<1> QED BY <1>10, <1>12, BooksAre DEF BooksInOrder

(* A machine that is restored begins a new ledger. *)
LEMMA RestoredBooks ==
  ASSUME BooksInOrder, NEW A, restored(A), TypeOK'
  PROVE  BooksInOrder'
<1>1. TypeOK /\ Books(banknoteCount, ledger, short)
  BY BooksAre DEF BooksInOrder
<1>2. PICK f, g : f = banknoteCount /\ g = banknoteCount'
  OBVIOUS
<1>3. ASSUME NEW e \in Atms \ short', NEW x \in Currencies
      PROVE  Balance(g, e, x) = Balance(CellInitial, e, x) + ledger'[e][x]
  <2>1. CASE e \in A
    <3>1. \A c \in Cells : CellAtm[c] = e => g[c] = CellInitial[c]
      BY <1>2, <2>1 DEF restored
    <3>2. Balance(g, e, x) = Balance(CellInitial, e, x)
      BY <3>1, BalanceSame
    <3>3. ledger'[e][x] = 0
      BY <2>1 DEF restored, NothingBooked
    <3>4. Balance(CellInitial, e, x) \in Nat
      BY CountsTyped
    <3> QED BY <3>2, <3>3, <3>4
  <2>2. CASE e \notin A
    <3>1. \A c \in Cells : CellAtm[c] = e => g[c] = f[c]
      BY <1>2, <2>2 DEF restored
    <3>2. Balance(g, e, x) = Balance(f, e, x)
      BY <3>1, BalanceSame
    <3>3. ledger'[e] = ledger[e] /\ e \notin short
      BY <1>3, <2>2 DEF restored
    <3>4. Balance(f, e, x) = Balance(CellInitial, e, x) + ledger[e][x]
      BY <1>1, <1>2, <3>3 DEF Books
    <3> QED BY <3>2, <3>3, <3>4
  <2> QED BY <2>1, <2>2
<1>4. Books(banknoteCount', ledger', short')
  BY <1>2, <1>3 DEF Books
<1> QED BY <1>4, BooksAre DEF BooksInOrder

(* A restore leaves counts, ledgers and machines. *)
LEMMA RestoredTyped ==
  ASSUME TypeOK, NEW A, restored(A)
  PROVE  /\ banknoteCount' \in [Cells -> Nat]
         /\ ledger' \in [Atms -> [Currencies -> Int]]
         /\ short' \subseteq Atms
<1>1. banknoteCount' \in [Cells -> Nat]
  BY CellsAssumption DEF TypeOK, restored
<1>2. ledger' \in [Atms -> [Currencies -> Int]]
  BY DEF TypeOK, restored, NothingBooked
<1>3. short' \subseteq Atms
  BY DEF TypeOK, restored
<1> QED BY <1>1, <1>2, <1>3

(* Every command keeps the books: BooksInOrder is inductive as it stands. *)
LEMMA NextBooks == BooksInOrder /\ [Next]_vars => BooksInOrder'
<1> SUFFICES ASSUME BooksInOrder, [Next]_vars PROVE BooksInOrder'
  OBVIOUS
<1>1. TypeOK
  BY DEF BooksInOrder
<1>2. ASSUME UNCHANGED <<banknoteCount, atms, ledger, short>>,
             answer'.to \in {"none", "restoreAll"}, answer'.outcome \in {"ok", "undoFailed"},
             answer'.sum = 0, answer'.pack = NoNotes, answer'.failed \subseteq Atms,
             restoring' \in [next : Nat, failed : SUBSET Atms]
      PROVE  BooksInOrder'
  <2>1. TypeOK'
    BY <1>1, <1>2 DEF TypeOK, NoNotes
  <2> QED BY <1>2, <2>1, IdleBooks
<1>12. CASE RestoreAll
  <2>1. restoring' = [next |-> 1, failed |-> {}]
    BY <1>12 DEF RestoreAll
  <2>2. restoring' \in [next : Nat, failed : SUBSET Atms]
    BY <2>1, RoundTyped
  <2> QED BY <1>2, <1>12, <2>2 DEF RestoreAll, NoAnswer
<1>13. CASE MemberFails
  <2>1. restoring \in [next : Nat, failed : SUBSET Atms] /\ Broken \subseteq Atms
    BY <1>1, InputsAssumption DEF TypeOK
  <2>2. restoring' \in [next : Nat, failed : SUBSET Atms]
    BY <1>13, <2>1 DEF MemberFails
  <2> QED BY <1>2, <1>13, <2>2 DEF MemberFails, NoAnswer
<1>14. CASE RoundEnds
  <2>1. restoring' \in [next : Nat, failed : SUBSET Atms]
    BY <1>14, RoundTyped DEF RoundEnds, NoRound
  <2>2. restoring.failed \subseteq Atms
    BY <1>1 DEF TypeOK
  <2> QED BY <1>2, <1>14, <2>1, <2>2 DEF RoundEnds, NoAnswer
<1>11. CASE RestoreMember
  <2>1. restored({atms[restoring.next]})
    BY <1>11 DEF RestoreMember
  <2>2. TypeOK'
    <3>1. /\ banknoteCount' \in [Cells -> Nat]
          /\ ledger' \in [Atms -> [Currencies -> Int]]
          /\ short' \subseteq Atms
      BY <1>1, <2>1, RestoredTyped
    <3>2. restoring' \in [next : Nat, failed : SUBSET Atms]
      <4>1. restoring \in [next : Nat, failed : SUBSET Atms]
        BY <1>1 DEF TypeOK
      <4> QED BY <1>11, <4>1 DEF RestoreMember
    <3> QED BY <1>1, <1>11, <3>1, <3>2 DEF TypeOK, RestoreMember, NoAnswer, NoNotes
  <2> QED BY <2>1, <2>2, RestoredBooks
<1>3. ASSUME NEW a \in Atms, UNCHANGED restoring, Restore(a)
      PROVE  BooksInOrder'
  <2>1. restored({a})
    BY <1>3 DEF Restore
  <2>2. TypeOK'
    <3>1. /\ banknoteCount' \in [Cells -> Nat]
          /\ ledger' \in [Atms -> [Currencies -> Int]]
          /\ short' \subseteq Atms
      BY <1>1, <2>1, RestoredTyped
    <3> QED BY <1>1, <1>3, <3>1 DEF TypeOK, Restore, answerTo, NoNotes
  <2> QED BY <2>1, <2>2, RestoredBooks
<1>4. ASSUME NEW a \in Atms, UNCHANGED restoring, AddATM(a)
      PROVE  BooksInOrder'
  <2>1. TypeOK'
    BY <1>1, <1>4 DEF TypeOK, AddATM, NoAnswer, NoNotes
  <2> QED BY <1>4, <2>1, IdleBooks DEF AddATM
<1>5. ASSUME NEW a \in Atms, NEW pack \in Packs, UNCHANGED restoring, Deposit(a, pack)
      PROVE  BooksInOrder'
  BY <1>5, DepositBooks
<1>6. ASSUME NEW a \in Atms, NEW pack \in Packs, UNCHANGED restoring, DepositRefused(a, pack)
      PROVE  BooksInOrder'
  <2>1. TypeOK'
    BY <1>1, <1>6 DEF TypeOK, DepositRefused, answerTo, NoNotes
  <2> QED BY <1>6, <2>1, IdleBooks DEF DepositRefused
<1>7. ASSUME NEW a \in Atms, NEW cur \in Currencies, NEW sum \in Sums, UNCHANGED restoring,
             Withdraw(a, cur, sum)
      PROVE  BooksInOrder'
  BY <1>7, WithdrawBooks
<1>8. ASSUME NEW a \in Atms, NEW cur \in Currencies, NEW sum \in Sums, UNCHANGED restoring,
             WithdrawRefused(a, cur, sum)
      PROVE  BooksInOrder'
  <2>1. TypeOK'
    BY <1>1, <1>8 DEF TypeOK, WithdrawRefused, answerTo, NoNotes
  <2> QED BY <1>8, <2>1, IdleBooks DEF WithdrawRefused
<1>9. ASSUME NEW a \in Atms, NEW cur \in Currencies, NEW sum \in Sums, UNCHANGED restoring,
             WithdrawUnable(a, cur, sum)
      PROVE  BooksInOrder'
  <2>1. TypeOK'
    BY <1>1, <1>9 DEF TypeOK, WithdrawUnable, answerTo, NoNotes
  <2> QED BY <1>9, <2>1, IdleBooks DEF WithdrawUnable
<1>10. CASE UNCHANGED vars
  <2>1. TypeOK'
    BY <1>1, <1>10 DEF TypeOK, vars
  <2> QED BY <1>10, <2>1, IdleBooks DEF vars
<1> QED BY <1>2, <1>3, <1>4, <1>5, <1>6, <1>7, <1>8, <1>9, <1>10, <1>11, <1>12, <1>13, <1>14 DEF Next, Command

(* Through every sequence of commands each machine that no refused withdrawal *)
(* has left short holds what it began with, plus what was brought, minus what *)
(* was paid, in every currency.                                               *)
THEOREM BooksStayInOrder == Spec => []BooksInOrder
BY InitBooks, NextBooks, PTL DEF Spec

-----------------------------------------------------------------------------
(* What a step may do. *)

(* The parts of PaidInFull: what the pack is worth, what a machine misses, *)
(* and the step.                                                           *)
Handed == SumFunction([x \in Currencies |-> worth(answer'.pack, x)])
Missing(a) == SumFunction([x \in Currencies |-> balance(a, x) - balance(a, x)'])
PaidStep ==
  answer'.to = "withdraw" =>
    /\ answer'.outcome = "ok" => Handed = answer'.sum
    /\ \A a \in Atms : Missing(a) # 0 =>
         /\ Missing(a) \in Handed..answer'.sum
         /\ \A e \in Atms \ {a} : Missing(e) = 0

(* The sum over the currencies when all is in one of them. *)
LEMMA InOneCurrency ==
  ASSUME NEW cur \in Currencies, NEW f \in [Currencies -> Int],
         \A x \in Currencies \ {cur} : f[x] = 0
  PROVE  SumFunction(f) = f[cur]
<1>1. SumFunction(f) = SumFunctionOnSet(f, Currencies)
  <2>1. DOMAIN f = Currencies
    OBVIOUS
  <2> QED BY <2>1, Zenon DEF SumFunction, SumFunctionOnSet, FoldFunction
<1>2. f[cur] \in Int /\ \A x \in Currencies : x # cur => f[x] = 0
  OBVIOUS
<1>3. IsFiniteSet(Currencies)
  BY FinitenessAssumption
<1>4. SumFunctionOnSet(f, Currencies) = f[cur]
  BY ONLY <1>2, <1>3, cur \in Currencies, SumOfOne
<1> QED BY <1>1, <1>4

(* What a machine misses when all is in one currency. *)
LEMMA MissingIs ==
  ASSUME NEW a, NEW cur \in Currencies, NEW w \in [Currencies -> Int],
         \A x \in Currencies : Balance(banknoteCount, a, x) - Balance(banknoteCount', a, x) = w[x],
         \A x \in Currencies \ {cur} : w[x] = 0
  PROVE  Missing(a) = w[cur]
<1> DEFINE d == [x \in Currencies |-> balance(a, x) - balance(a, x)']
<1>1. d = [x \in Currencies |-> w[x]]
  BY BalanceIs
<1>2. d = w
  BY <1>1
<1> HIDE DEF d
<1>3. SumFunction(w) = w[cur]
  BY InOneCurrency
<1>4. SumFunction(d) = w[cur]
  BY <1>2, <1>3
<1> QED BY <1>4 DEF Missing, d

(* A step that leaves the cells takes nothing. *)
LEMMA NothingMissing ==
  ASSUME TypeOK, NEW cur \in Currencies, banknoteCount' = banknoteCount
  PROVE  \A a : Missing(a) = 0
<1> TAKE a
<1> DEFINE w == [x \in Currencies |-> 0]
<1>1. w \in [Currencies -> Int] /\ w[cur] = 0 /\ \A x \in Currencies : w[x] = 0
  OBVIOUS
<1> HIDE DEF w
<1>2. \A x \in Currencies : Balance(banknoteCount, a, x) - Balance(banknoteCount', a, x) = w[x]
  <2> TAKE x \in Currencies
  <2>1. Balance(banknoteCount, a, x) \in Nat
    BY CountsTyped
  <2> QED BY <1>1, <2>1
<1>3. Missing(a) = w[cur]
  BY <1>1, <1>2, MissingIs
<1> QED BY <1>1, <1>3

(* What a pack of one currency is worth. *)
LEMMA HandedIs ==
  ASSUME NEW cur \in Currencies, answer'.pack \in [Notes -> Nat],
         \A x \in Currencies \ {cur} : worth(answer'.pack, x) = 0
  PROVE  Handed = worth(answer'.pack, cur)
<1> DEFINE w == [x \in Currencies |-> worth(answer'.pack, x)]
<1>1. w \in [Currencies -> Int] /\ \A x \in Currencies \ {cur} : w[x] = 0
  BY WorthSound
<1>2. w[cur] = worth(answer'.pack, cur)
  OBVIOUS
<1>3. Handed = SumFunction(w)
  BY DEF Handed
<1> HIDE DEF w
<1>4. SumFunction(w) = w[cur]
  BY <1>1, InOneCurrency
<1> QED BY <1>2, <1>3, <1>4

(* A withdrawal pays its sum, or fails and keeps no more than that from one *)
(* machine.                                                                 *)
LEMMA WithdrawPays ==
  ASSUME TypeOK, NEW a \in Atms, NEW cur \in Currencies, NEW sum \in Sums,
         Withdraw(a, cur, sum)
  PROVE  PaidStep
<1>1. PICK pack \in [Notes -> Nat] :
           /\ banknoteCount' \in Counts
           /\ Taken(a, pack)
           /\ \A x \in Currencies : Balance(banknoteCount', a, x) =
                                      Balance(banknoteCount, a, x) - worth(pack, x)
           /\ \A e \in Atms \ {a} : \A x : Balance(banknoteCount', e, x) =
                                             Balance(banknoteCount, e, x)
           /\ sum \in Nat
           /\ worth(pack, cur) \in 0..sum
           /\ \A x \in Currencies \ {cur} : worth(pack, x) = 0
           /\ \/ /\ worth(pack, cur) = sum
                 /\ answerTo("withdraw", "ok", sum, pack)
                 /\ book(a, [x \in Currencies |-> IF x = cur THEN -sum ELSE 0])
                 /\ UNCHANGED short
              \/ /\ answerTo("withdraw", "illegalArgument", sum, NoNotes)
                 /\ short' = IF pack = NoNotes THEN short ELSE short \cup {a}
                 /\ ledger' = IF pack = NoNotes THEN ledger
                              ELSE [ledger EXCEPT ![a] = NothingBooked]
  BY WithdrawTakes
<1>2. \A e : \A x : Balance(banknoteCount, e, x) \in Nat
  BY CountsTyped
<1>3. Missing(a) = worth(pack, cur)
  <2> DEFINE w == [x \in Currencies |-> worth(pack, x)]
  <2>1. /\ w \in [Currencies -> Int] /\ w[cur] = worth(pack, cur)
        /\ \A x \in Currencies : w[x] = worth(pack, x) /\ w[x] \in Nat
    BY WorthSound
  <2> HIDE DEF w
  <2>2. \A x \in Currencies : Balance(banknoteCount, a, x) - Balance(banknoteCount', a, x) = w[x]
    BY <1>1, <1>2, <2>1
  <2>3. \A x \in Currencies \ {cur} : w[x] = 0
    BY <1>1, <2>1
  <2> QED BY <2>1, <2>2, <2>3, MissingIs
<1>4. ASSUME NEW e \in Atms \ {a}
      PROVE  Missing(e) = 0
  <2> DEFINE w == [x \in Currencies |-> 0]
  <2>1. w \in [Currencies -> Int] /\ w[cur] = 0 /\ \A x \in Currencies : w[x] = 0
    OBVIOUS
  <2> HIDE DEF w
  <2>2. \A x \in Currencies : Balance(banknoteCount, e, x) - Balance(banknoteCount', e, x) = w[x]
    BY <1>1, <1>2, <2>1
  <2> QED BY <2>1, <2>2, MissingIs
<1>5. CASE worth(pack, cur) = sum /\ answerTo("withdraw", "ok", sum, pack)
  <2>1. answer'.pack = pack /\ answer'.sum = sum
    BY <1>5 DEF answerTo
  <2>2. Handed = sum
    BY <1>1, <1>5, <2>1, HandedIs
  <2>3. sum \in Handed..answer'.sum
    BY <1>1, <2>1, <2>2
  <2> QED BY <1>3, <1>4, <1>5, <2>1, <2>2, <2>3 DEF PaidStep
<1>6. CASE answerTo("withdraw", "illegalArgument", sum, NoNotes)
  <2>1. answer'.pack = NoNotes /\ answer'.sum = sum /\ answer'.outcome # "ok"
    BY <1>6 DEF answerTo
  <2>2. Handed = 0
    BY <2>1, WorthNothing, HandedIs
  <2>3. worth(pack, cur) \in Handed..answer'.sum
    BY <1>1, <2>1, <2>2
  <2> QED BY <1>3, <1>4, <2>1, <2>3 DEF PaidStep
<1> QED BY <1>1, <1>5, <1>6

(* The steps that answer to a withdrawal. *)
LEMMA Withdrawing ==
  ASSUME Next, answer'.to = "withdraw"
  PROVE  \E a \in Atms : \E cur \in Currencies : \E sum \in Sums :
           \/ Withdraw(a, cur, sum)
           \/ banknoteCount' = banknoteCount /\ answer'.outcome # "ok"
<1>1. ~ (RestoreAll \/ RestoreMember \/ MemberFails \/ RoundEnds)
  <2>1. NoAnswer.to = "none"
    BY DEF NoAnswer
  <2>2. ~ RestoreAll /\ ~ RestoreMember /\ ~ MemberFails
    BY <2>1 DEF RestoreAll, RestoreMember, MemberFails
  <2> QED BY <2>2 DEF RoundEnds, NoAnswer
<1>2. \A a \in Atms : ~ Restore(a) /\ ~ AddATM(a)
  BY DEF Restore, AddATM, NoAnswer, answerTo
<1>3. \A a \in Atms : \A pack \in Packs : ~ Deposit(a, pack) /\ ~ DepositRefused(a, pack)
  BY DEF Deposit, DepositRefused, answerTo
<1>4. \A a \in Atms : \A cur \in Currencies, sum \in Sums :
        WithdrawRefused(a, cur, sum) \/ WithdrawUnable(a, cur, sum)
          => banknoteCount' = banknoteCount /\ answer'.outcome # "ok"
  BY DEF WithdrawRefused, WithdrawUnable, answerTo
<1> QED BY <1>1, <1>2, <1>3, <1>4 DEF Next, Command

(* No other step pays. *)
LEMMA StepPays == TypeOK /\ [Next]_vars => [PaidStep]_vars
<1> SUFFICES ASSUME TypeOK, Next, answer'.to = "withdraw" PROVE PaidStep
  BY DEF PaidStep
<1>1. PICK a \in Atms, cur \in Currencies, sum \in Sums :
        \/ Withdraw(a, cur, sum)
        \/ banknoteCount' = banknoteCount /\ answer'.outcome # "ok"
  BY Withdrawing
<1>2. CASE Withdraw(a, cur, sum)
  BY <1>2, WithdrawPays
<1>3. CASE banknoteCount' = banknoteCount /\ answer'.outcome # "ok"
  <2>1. \A e : Missing(e) = 0
    BY <1>3, NothingMissing
  <2> QED BY <1>3, <2>1 DEF PaidStep
<1> QED BY <1>1, <1>2, <1>3

(* A withdrawal that succeeds hands out notes worth its sum exactly, and one  *)
(* that fails in the second pass takes no more than its sum, from one machine *)
(* only.                                                                      *)
THEOREM PaysInFull == Spec => PaidInFull
<1>1. BooksInOrder => TypeOK
  BY DEF BooksInOrder
<1>2. [PaidStep]_vars =>
      [answer'.to = "withdraw" =>
       LET handed == SumFunction([x \in Currencies |-> worth(answer'.pack, x)])
           missing(a) == SumFunction([x \in Currencies |-> balance(a, x) - balance(a, x)'])
       IN /\ answer'.outcome = "ok" => handed = answer'.sum
          /\ \A a \in Atms : missing(a) # 0 =>
               /\ missing(a) \in handed..answer'.sum
               /\ \A e \in Atms \ {a} : missing(e) = 0]_vars
  BY DEF PaidStep, Handed, Missing
<1> QED BY <1>1, <1>2, BooksStayInOrder, StepPays, PTL DEF Spec, PaidInFull

(* A cell from which notes are taken has those that are fuller emptied: they *)
(* come before it, and give all they have before it is asked.                *)
LEMMA FullerFirst ==
  ASSUME TypeOK, Next, answer'.to = "withdraw", NEW c \in Cells, NEW d \in Cells,
         CellAtm[c] = CellAtm[d], CellNote[c] = CellNote[d],
         banknoteCount[c] > banknoteCount[d], banknoteCount'[d] # banknoteCount[d]
  PROVE  banknoteCount'[c] = 0
<1>1. PICK a \in Atms, cur \in Currencies, sum \in Sums : Withdraw(a, cur, sum)
  BY Withdrawing
<1>2. PICK pack \in [Notes -> Nat] : banknoteCount' \in Counts /\ Taken(a, pack)
  BY <1>1, WithdrawTakes
<1>3. PICK f, g, A, n : /\ f = banknoteCount /\ g = banknoteCount'
                        /\ A = CellsOf(CellAtm[c], CellNote[c]) /\ n = pack[CellNote[c]]
  OBVIOUS
<1>4. /\ CellAtm[d] = a /\ CellAtm[c] = a
      /\ g[d] = f[d] - Given(f, A, d, n) /\ g[c] = f[c] - Given(f, A, c, n)
  <2>1. CellAtm[d] = a
    BY <1>2 DEF Taken
  <2>2. g[d] = f[d] - ejected(d, n) /\ g[c] = f[c] - ejected(c, n)
    BY <1>2, <1>3, <2>1 DEF Taken
  <2> QED BY <1>3, <2>1, <2>2, EjectedIsGiven
<1>5. /\ IsFiniteSet(A) /\ A \subseteq Cells /\ A \subseteq Nat
      /\ (\A x \in A : f[x] \in Nat) /\ n \in Nat /\ c \in A /\ d \in A
  <2>1. n \in Nat
    BY <1>3, CellsAssumption
  <2>2. f \in Counts
    BY <1>3, CountsTyped
  <2>3. A \subseteq Cells /\ IsFiniteSet(A)
    BY <1>3, CellsOfSound
  <2>4. c \in A /\ d \in A
    BY <1>3 DEF CellsOf
  <2> QED BY <2>1, <2>2, <2>3, <2>4, CellsAssumption DEF Counts
<1>6. PICK C, D : C = Fuller(f, A, c) /\ D = Fuller(f, A, d)
  OBVIOUS
<1>7. c \in D /\ C \subseteq D \ {c} /\ D \subseteq A
  <2>1. \A x \in A : f[x] \in Nat /\ x \in Nat
    BY <1>5
  <2>2. f[c] > f[d]
    BY <1>3
  <2>3. c \in D /\ D \subseteq A
    BY <1>5, <1>6, <2>2 DEF Fuller
  <2>4. ASSUME NEW x \in C PROVE x \in D /\ x # c
    <3>1. x \in A /\ (f[x] > f[c] \/ (f[x] = f[c] /\ x < c))
      BY <1>6 DEF Fuller
    <3>2. f[x] \in Nat /\ f[c] \in Nat /\ f[d] \in Nat /\ x \in Nat /\ c \in Nat
      BY <1>5, <2>1, <3>1
    <3>3. f[x] > f[d] /\ x # c
      BY <2>2, <3>1, <3>2
    <3> QED BY <1>6, <3>1, <3>3 DEF Fuller
  <2> QED BY <2>3, <2>4
<1>8. /\ SumFunctionOnSet(f, D) = f[c] + SumFunctionOnSet(f, D \ {c})
      /\ SumFunctionOnSet(f, C) \in Nat /\ SumFunctionOnSet(f, D) \in Nat
      /\ SumFunctionOnSet(f, D \ {c}) \in Nat
      /\ SumFunctionOnSet(f, C) <= SumFunctionOnSet(f, D \ {c})
  <2>1. IsFiniteSet(C) /\ IsFiniteSet(D) /\ IsFiniteSet(D \ {c})
    BY <1>5, <1>7, FS_Subset
  <2>2. \A x \in D : f[x] \in Int /\ f[x] \in Nat
    BY <1>5, <1>7
  <2>3. \A T \in SUBSET D :
          /\ SumFunctionOnSet(f, T) \in Int
          /\ \A x \in T : SumFunctionOnSet(f, T) = f[x] + SumFunctionOnSet(f, T \ {x})
    BY <2>1, <2>2, SumOneMore
  <2>4. SumFunctionOnSet(f, C) \in Nat
    BY <1>7, <2>1, <2>2, SumNat
  <2>5. SumFunctionOnSet(f, D) \in Nat
    BY <2>1, <2>2, SumNat
  <2>6. SumFunctionOnSet(f, D \ {c}) \in Nat
    BY <2>1, <2>2, SumNat
  <2>7. SumFunctionOnSet(f, C) <= SumFunctionOnSet(f, D \ {c})
    BY <1>7, <2>1, <2>2, SumPart
  <2> QED BY <1>7, <2>3, <2>4, <2>5, <2>6, <2>7
<1>9. PICK s, t, u : s = SumFunctionOnSet(f, C) /\ t = SumFunctionOnSet(f, D)
                     /\ u = SumFunctionOnSet(f, D \ {c})
  OBVIOUS
<1>10. s \in Nat /\ t \in Nat /\ u \in Nat /\ s <= u /\ t = f[c] + u
       /\ f[c] \in Nat /\ f[d] \in Nat
  BY <1>5, <1>8, <1>9
<1>11. /\ Given(f, A, c, n) = smaller(f[c], IF s < n THEN n - s ELSE 0)
       /\ Given(f, A, d, n) = smaller(f[d], IF t < n THEN n - t ELSE 0)
  BY <1>6, <1>9 DEF Given
<1>12. Given(f, A, d, n) # 0
  BY <1>3, <1>4, <1>10
<1>13. t < n
  BY <1>5, <1>10, <1>11, <1>12 DEF smaller
<1>14. Given(f, A, c, n) = f[c]
  BY <1>5, <1>10, <1>11, <1>13 DEF smaller
<1> QED BY <1>3, <1>4, <1>10, <1>14

(* Notes leave a cell only when the fuller cells of its type in its machine *)
(* are left empty.                                                          *)
THEOREM TakesFromTheFullest == Spec => FullerCellsFirst
<1>1. TypeOK /\ [Next]_vars =>
      [answer'.to = "withdraw" =>
       \A c, d \in Cells :
         /\ CellAtm[c] = CellAtm[d] /\ CellNote[c] = CellNote[d]
         /\ banknoteCount[c] > banknoteCount[d]
         /\ banknoteCount'[d] # banknoteCount[d]
         => banknoteCount'[c] = 0]_vars
  BY FullerFirst
<1>2. BooksInOrder => TypeOK
  BY DEF BooksInOrder
<1> QED BY <1>1, <1>2, BooksStayInOrder, PTL DEF Spec, FullerCellsFirst

-----------------------------------------------------------------------------
(* The department's round. *)

AtStart(f, a) == \A c \in Cells : CellAtm[c] = a => f[c] = CellInitial[c]

(* In the middle of a round, the machines it has come past have been restored *)
(* or are noted as failed, and those noted are some of the list that may fail. *)
RoundSound ==
  /\ restoring.next \in 0..(Len(atms) + 1)
  /\ restoring.failed \subseteq Broken \cap members
  /\ \A k \in 1..Len(atms) : k < restoring.next =>
       atms[k] \in restoring.failed \/ AtStart(banknoteCount, atms[k])

RoundInv == TypeOK /\ RoundSound

LEMMA InitRound == Init => RoundSound
<1> SUFFICES ASSUME Init PROVE RoundSound
  OBVIOUS
<1>1. restoring = [next |-> 0, failed |-> {}] /\ atms = <<>>
  BY DEF Init, NoRound
<1> QED BY <1>1 DEF RoundSound

(* A turn of the loop leaves the list, and what is restored stays so. *)
LEMMA TurnKeepsRound ==
  ASSUME RoundInv, RestoreMember \/ MemberFails
  PROVE  RoundSound'
<1>1. /\ restoring \in [next : Nat, failed : SUBSET Atms] /\ atms \in Seq(Atms)
      /\ restoring.next \in 1..Len(atms) /\ atms' = atms /\ members' = members
      /\ restoring'.next = restoring.next + 1
  BY DEF RoundInv, TypeOK, RestoreMember, MemberFails, InRound, members
<1>2. PICK f, g, a : f = banknoteCount /\ g = banknoteCount' /\ a = atms[restoring.next]
  OBVIOUS
<1>3. /\ Len(atms) \in Nat /\ a \in members
      /\ \A k \in 1..Len(atms) : k < restoring.next => atms[k] \in restoring.failed \/ AtStart(f, atms[k])
      /\ restoring.failed \subseteq Broken \cap members
  BY <1>1, <1>2 DEF RoundInv, RoundSound, members
<1>4. \/ /\ \A c \in Cells : g[c] = IF CellAtm[c] = a THEN CellInitial[c] ELSE f[c]
         /\ restoring'.failed = restoring.failed
      \/ g = f /\ a \in Broken /\ restoring'.failed = restoring.failed \cup {a}
  BY <1>2 DEF RestoreMember, MemberFails, restored
<1>5. restoring.failed \subseteq restoring'.failed /\ restoring'.failed \subseteq Broken \cap members
  BY <1>3, <1>4
<1>6. a \in restoring'.failed \/ AtStart(g, a)
  BY <1>4 DEF AtStart
<1>7. \A e : AtStart(f, e) => AtStart(g, e)
  BY <1>4 DEF AtStart
<1>8. ASSUME NEW k \in 1..Len(atms), k < restoring'.next
      PROVE  atms[k] \in restoring'.failed \/ AtStart(g, atms[k])
  <2>1. CASE k < restoring.next
    BY <1>3, <1>5, <1>7, <2>1
  <2>2. CASE k = restoring.next
    BY <1>2, <1>6, <2>2
  <2> QED BY <1>1, <1>8, <2>1, <2>2
<1>9. restoring'.next \in 0..(Len(atms) + 1)
  BY <1>1, <1>3
<1> QED BY <1>1, <1>2, <1>5, <1>8, <1>9 DEF RoundSound

(* Outside a round there is nothing to keep. *)
LEMMA NextRound == RoundInv /\ [Next]_vars => RoundSound'
<1> SUFFICES ASSUME RoundInv, [Next]_vars PROVE RoundSound'
  OBVIOUS
<1>1. /\ restoring \in [next : Nat, failed : SUBSET Atms] /\ atms \in Seq(Atms)
      /\ Len(atms) \in Nat
  BY DEF RoundInv, TypeOK
<1>2. CASE RestoreMember \/ MemberFails
  BY <1>2, TurnKeepsRound
<1>3. CASE RestoreAll
  <2>1. restoring' = [next |-> 1, failed |-> {}] /\ atms' = atms
    BY <1>3 DEF RestoreAll
  <2> QED BY <1>1, <2>1 DEF RoundSound
<1>4. CASE restoring' = NoRound
  <2>1. atms' \in Seq(Atms)
    <3>1. CASE RoundEnds \/ UNCHANGED vars
      BY <1>1, <3>1 DEF RoundEnds, vars
    <3>2. CASE Command
      <4>1. (\E a \in Atms : AddATM(a)) \/ UNCHANGED atms
        BY <3>2 DEF Command, Restore, Deposit, DepositRefused, Withdraw, WithdrawRefused,
                    WithdrawUnable
      <4> QED BY <1>1, <4>1 DEF AddATM
    <3>3. ~ (RestoreAll \/ RestoreMember \/ MemberFails)
      BY <1>1, <1>4 DEF RestoreAll, RestoreMember, MemberFails, InRound, NoRound
    <3> QED BY <3>1, <3>2, <3>3 DEF Next
  <2>2. restoring'.next = 0 /\ restoring'.failed = {} /\ Len(atms') \in Nat
    BY <1>4, <2>1 DEF NoRound
  <2> QED BY <2>2 DEF RoundSound
<1>5. CASE UNCHANGED vars
  <2>1. /\ restoring' = restoring /\ atms' = atms /\ banknoteCount' = banknoteCount
    BY <1>5 DEF vars
  <2> QED BY <2>1 DEF RoundInv, RoundSound, members
<1> QED BY <1>2, <1>3, <1>4, <1>5 DEF Next, RoundEnds

(* A round that ends has come past the whole list. *)
LEMMA RoundOver ==
  ASSUME RoundInv, Next, answer'.to = "restoreAll"
  PROVE  /\ answer'.failed \subseteq Broken \cap members
         /\ \A c \in Cells : CellAtm[c] \in members \ answer'.failed =>
                               banknoteCount'[c] = CellInitial[c]
<1>1. ~ (RestoreAll \/ RestoreMember \/ MemberFails)
  BY DEF RestoreAll, RestoreMember, MemberFails, NoAnswer
<1>2. ~ Command
  <2>1. \A a \in Atms : ~ Restore(a) /\ ~ AddATM(a)
    BY DEF Restore, AddATM, NoAnswer, answerTo
  <2>2. \A a \in Atms : \A pack \in Packs : ~ Deposit(a, pack) /\ ~ DepositRefused(a, pack)
    BY DEF Deposit, DepositRefused, answerTo
  <2>3. \A a \in Atms : \A cur \in Currencies, sum \in Sums :
          ~ Withdraw(a, cur, sum) /\ ~ WithdrawRefused(a, cur, sum)
          /\ ~ WithdrawUnable(a, cur, sum)
    BY DEF Withdraw, WithdrawRefused, WithdrawUnable, answerTo
  <2> QED BY <2>1, <2>2, <2>3 DEF Command
<1>3. RoundEnds
  BY <1>1, <1>2 DEF Next
<1>4. /\ restoring.next = Len(atms) + 1 /\ banknoteCount' = banknoteCount
      /\ answer'.failed = restoring.failed
  BY <1>3 DEF RoundEnds, NoAnswer
<1>5. ASSUME NEW c \in Cells, CellAtm[c] \in members \ answer'.failed
      PROVE  banknoteCount'[c] = CellInitial[c]
  <2>1. PICK k \in 1..Len(atms) : atms[k] = CellAtm[c]
    BY <1>5 DEF members
  <2>2. k < restoring.next
    BY <1>4 DEF RoundInv, TypeOK
  <2>3. AtStart(banknoteCount, CellAtm[c])
    BY <1>4, <1>5, <2>1, <2>2 DEF RoundInv, RoundSound
  <2> QED BY <1>4, <2>3 DEF AtStart
<1> QED BY <1>4, <1>5 DEF RoundInv, RoundSound

(* When the department's round is over, each machine of its list has been     *)
(* restored or is named in the failure, however many threw before it.         *)
THEOREM RestoresAllItCan == Spec => RestoredIndependently
<1>1. Spec => []TypeOK
  <2>1. BooksInOrder => TypeOK
    BY DEF BooksInOrder
  <2> QED BY <2>1, BooksStayInOrder, PTL
<1>2. Spec => []RoundSound
  <2>1. TypeOK /\ RoundSound /\ [Next]_vars => RoundSound'
    BY NextRound DEF RoundInv
  <2> QED BY <1>1, <2>1, InitRound, PTL DEF Spec
<1>3. TypeOK /\ RoundSound /\ [Next]_vars =>
      [answer'.to = "restoreAll" =>
         /\ answer'.failed \subseteq Broken \cap members
         /\ \A c \in Cells : CellAtm[c] \in members \ answer'.failed =>
                               banknoteCount'[c] = CellInitial[c]]_vars
  BY RoundOver DEF RoundInv
<1> QED BY <1>1, <1>2, <1>3, PTL DEF Spec, RestoredIndependently
=============================================================================
