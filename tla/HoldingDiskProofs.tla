------------------------- MODULE HoldingDiskProofs --------------------------
(***************************************************************************)
(* Proofs about module HoldingDisk: what the accounts of holding-disk      *)
(* space in driver.c compute, for any holding disks and chunk sizes and    *)
(* for any entries of a dump.                                              *)
(*                                                                         *)
(* The first part has sums over finite sets, by induction on their size,   *)
(* and over the entries of a dump; the second the functions of driver.c:   *)
(* where a chunker is in the files of its dump and what each function      *)
(* leaves of that; the third the loop of find_diskspace.                   *)
(***************************************************************************)
EXTENDS HoldingDisk, FiniteSets, FiniteSetTheorems, SequenceTheorems, TLAPS

\* the loop of find_diskspace over the holding disks
RoundLoop == INSTANCE FoldFacts WITH op <- Round

-----------------------------------------------------------------------------
(* Sums.                                                                   *)

\* the element of a set that SumFunction adds next
AnyOf(A) == CHOOSE x \in A : TRUE

\* g has the sum of f over each subset of S.
Sums(f, S, g) ==
    \A A \in SUBSET S : g[A] = IF A = {} THEN 0 ELSE f[AnyOf(A)] + g[A \ {AnyOf(A)}]

\* g is the recursive function of SumFunction.
SumsFcn(f, S, g) ==
    g = [A \in SUBSET S |-> IF A = {} THEN 0 ELSE f[AnyOf(A)] + g[A \ {AnyOf(A)}]]

\* A property of the empty set that a set has when it holds of the set without any
\* one of its elements, holds of all finite sets: U has the sets with the property.
LEMMA SetInduction ==
    ASSUME NEW S, IsFiniteSet(S), NEW U, {} \in U,
           \A A \in SUBSET S : A # {} /\ (\A x \in A : A \ {x} \in U) => A \in U
    PROVE  \A A \in SUBSET S : A \in U
<1> DEFINE T == {n \in Nat : \A A \in SUBSET S : Cardinality(A) = n => A \in U}
<1>0. \A A \in SUBSET S : IsFiniteSet(A) /\ Cardinality(A) \in Nat /\ Cardinality(A) <= Cardinality(S)
  BY FS_Subset, FS_CardinalityType
<1>1. Cardinality(S) \in Nat
  BY FS_CardinalityType
<1>2. 0 \in T
  BY <1>0, FS_EmptySet
<1>3. ASSUME NEW n \in 0..(Cardinality(S) - 1), n \in T PROVE n + 1 \in T
  <2>1. n \in Nat /\ \A A \in SUBSET S : Cardinality(A) = n => A \in U
    BY <1>3
  <2>2. ASSUME NEW A \in SUBSET S, Cardinality(A) = n + 1 PROVE A \in U
    <3>1. A # {}
      <4>1. Cardinality({}) = 0
        BY FS_EmptySet
      <4>2. Cardinality(A) # 0
        BY <2>1, <2>2
      <4> QED
        BY <4>1, <4>2
    <3>2. \A x \in A : A \ {x} \in U
      <4> SUFFICES ASSUME NEW x \in A PROVE A \ {x} \in U
        OBVIOUS
      <4>1. Cardinality(A \ {x}) = Cardinality(A) - 1
        BY <1>0, FS_RemoveElement
      <4>2. Cardinality(A \ {x}) = n /\ A \ {x} \in SUBSET S
        BY <4>1, <2>1, <2>2
      <4> QED
        BY <4>2, <2>1
    <3> QED
      BY <3>1, <3>2
  <2> QED
    BY <2>1, <2>2
<1> HIDE DEF T
<1>4. \A n \in 0..Cardinality(S) : n \in T
  BY <1>1, <1>2, <1>3, RoundLoop!UpTo
<1> QED
  <2> SUFFICES ASSUME NEW A \in SUBSET S PROVE A \in U
    OBVIOUS
  <2>1. Cardinality(A) \in 0..Cardinality(S)
    BY <1>0, <1>1
  <2>2. Cardinality(A) \in T
    BY <1>4, <2>1
  <2> QED
    BY <2>2 DEF T

\* The recursive function of SumFunction exists.
LEMMA SumsExist ==
    ASSUME NEW f, NEW S, IsFiniteSet(S)
    PROVE  \E g : SumsFcn(f, S, g)
<1> DEFINE D(n) == {A \in SUBSET S : Cardinality(A) <= n}
           Is(n, g) == g = [A \in D(n) |-> IF A = {} THEN 0 ELSE f[AnyOf(A)] + g[A \ {AnyOf(A)}]]
           T == {n \in Nat : \E g : Is(n, g)}
<1>0. /\ \A A \in SUBSET S : IsFiniteSet(A) /\ Cardinality(A) \in Nat /\ Cardinality(A) <= Cardinality(S)
      /\ Cardinality(S) \in Nat
  BY FS_Subset, FS_CardinalityType
<1>a. \A A \in SUBSET S : A # {} => AnyOf(A) \in A /\ Cardinality(A \ {AnyOf(A)}) = Cardinality(A) - 1
  <2> SUFFICES ASSUME NEW A \in SUBSET S, A # {}
               PROVE  AnyOf(A) \in A /\ Cardinality(A \ {AnyOf(A)}) = Cardinality(A) - 1
    OBVIOUS
  <2>1. AnyOf(A) \in A
    BY DEF AnyOf
  <2> QED
    BY <2>1, <1>0, FS_RemoveElement
<1>1. 0 \in T
  <2> DEFINE g == [A \in D(0) |-> 0]
  <2>1. \A A \in D(0) : A = {}
    BY <1>0, FS_EmptySet
  <2>2. Is(0, g)
    BY <2>1, Zenon
  <2> QED
    BY <2>2
<1>2. ASSUME NEW n \in 0..(Cardinality(S) - 1), n \in T PROVE n + 1 \in T
  <2>0. n \in Nat
    BY <1>2
  <2>1. PICK g : Is(n, g)
    BY <1>2
  <2> DEFINE val(k, A) == IF A = {} THEN 0 ELSE f[AnyOf(A)] + k[A \ {AnyOf(A)}]
             h == [A \in D(n + 1) |-> IF A \in D(n) THEN g[A] ELSE val(g, A)]
  <2>2. \A A \in D(n) : g[A] = val(g, A)
    BY <2>1, Zenon
  <2>3. \A A \in D(n + 1) : A # {} => A \ {AnyOf(A)} \in D(n) /\ A \ {AnyOf(A)} \in D(n + 1)
    <3> SUFFICES ASSUME NEW A \in SUBSET S, Cardinality(A) <= n + 1, A # {}
                 PROVE  A \ {AnyOf(A)} \in D(n) /\ A \ {AnyOf(A)} \in D(n + 1)
      OBVIOUS
    <3>1. A \ {AnyOf(A)} \in SUBSET S /\ Cardinality(A) \in Nat /\ Cardinality(A \ {AnyOf(A)}) = Cardinality(A) - 1
      BY <1>0, <1>a
    <3>2. Cardinality(A \ {AnyOf(A)}) <= n /\ Cardinality(A \ {AnyOf(A)}) <= n + 1
      BY <3>1, <2>0
    <3> QED
      BY <3>1, <3>2
  <2>4. \A A \in D(n) : A \in D(n + 1)
    BY <1>0, <2>0
  <2> HIDE DEF D
  <2>5. ASSUME NEW A \in D(n + 1)
        PROVE  (IF A \in D(n) THEN g[A] ELSE val(g, A)) = val(h, A)
    <3>1. CASE A = {}
      BY <3>1, <2>2, Zenon
    <3>2. CASE A # {}
      <4>1. h[A \ {AnyOf(A)}] = g[A \ {AnyOf(A)}]
        BY <3>2, <2>3, Zenon
      <4> HIDE DEF h
      <4>2. val(h, A) = val(g, A)
        BY <4>1, <3>2, Zenon
      <4> QED
        BY <4>2, <2>2, Zenon
    <3> QED
      BY <3>1, <3>2
  <2> HIDE DEF val
  <2>6. h = [A \in D(n + 1) |-> val(h, A)]
    BY <2>5, Zenon
  <2>7. Is(n + 1, h)
    BY <2>6, Zenon DEF val
  <2> HIDE DEF h, Is
  <2> QED
    BY <2>0, <2>7
<1> HIDE DEF T
<1>3. Cardinality(S) \in T
  <2>1. \A n \in 0..Cardinality(S) : n \in T
    BY <1>0, <1>1, <1>2, RoundLoop!UpTo
  <2> QED
    BY <2>1, <1>0
<1>4. D(Cardinality(S)) = SUBSET S
  BY <1>0
<1>5. PICK g : Is(Cardinality(S), g)
  BY <1>3 DEF T
<1>6. SumsFcn(f, S, g)
  BY <1>4, <1>5, Zenon DEF SumsFcn
<1> QED
  BY <1>6

\* What SumFunctionOnSet computes.
LEMMA SumsOnSet ==
    ASSUME NEW f, NEW S, IsFiniteSet(S)
    PROVE  \E g : Sums(f, S, g) /\ SumFunctionOnSet(f, S) = g[S]
<1> DEFINE g == CHOOSE g : SumsFcn(f, S, g)
<1>1. SumsFcn(f, S, g)
  BY SumsExist, Zenon
<1>2. SumFunctionOnSet(f, S) = g[S]
  BY Zenon DEF SumFunctionOnSet, FoldFunctionOnSet, MapThenFoldSet, AnyOf, SumsFcn
<1> HIDE DEF g
<1>3. Sums(f, S, g)
  BY <1>1, Zenon DEF Sums, SumsFcn
<1> QED
  BY <1>2, <1>3

\* The sum over a set depends only on the values in the set.
LEMMA SumsAgree ==
    ASSUME NEW S, IsFiniteSet(S), NEW R, S \subseteq R, NEW f, NEW e, \A x \in S : f[x] = e[x],
           NEW g, Sums(f, S, g), NEW h, Sums(e, R, h)
    PROVE  g[S] = h[S]
<1> DEFINE U == {A \in SUBSET S : g[A] = h[A]}
<1>1. {} \in U
  BY DEF Sums
<1>2. ASSUME NEW A \in SUBSET S, A # {}, \A x \in A : A \ {x} \in U PROVE A \in U
  <2>1. AnyOf(A) \in A /\ AnyOf(A) \in S
    BY <1>2 DEF AnyOf
  <2>2. g[A \ {AnyOf(A)}] = h[A \ {AnyOf(A)}] /\ f[AnyOf(A)] = e[AnyOf(A)]
    BY <1>2, <2>1
  <2>3. g[A] = f[AnyOf(A)] + g[A \ {AnyOf(A)}] /\ h[A] = e[AnyOf(A)] + h[A \ {AnyOf(A)}]
    BY <1>2 DEF Sums
  <2> QED
    BY <2>2, <2>3
<1> HIDE DEF U
<1>3. \A A \in SUBSET S : A \in U
  BY <1>1, <1>2, SetInduction
<1> QED
  BY <1>3 DEF U

\* A sum of integers does not depend on their order.
LEMMA SumsAnyOrder ==
    ASSUME NEW S, IsFiniteSet(S), NEW f, \A x \in S : f[x] \in Int, NEW g, Sums(f, S, g)
    PROVE  \A A \in SUBSET S : g[A] \in Int /\ \A x \in A : g[A] = f[x] + g[A \ {x}]
<1>a. ASSUME NEW A \in SUBSET S, A # {}
      PROVE  AnyOf(A) \in A /\ f[AnyOf(A)] \in Int /\ g[A] = f[AnyOf(A)] + g[A \ {AnyOf(A)}]
  <2>1. AnyOf(A) \in A
    BY <1>a DEF AnyOf
  <2> QED
    BY <1>a, <2>1 DEF Sums
<1>b. \A A \in SUBSET S : g[A] \in Int
  <2> DEFINE U == {A \in SUBSET S : g[A] \in Int}
  <2>1. {} \in U
    BY DEF Sums
  <2>2. ASSUME NEW A \in SUBSET S, A # {}, \A x \in A : A \ {x} \in U PROVE A \in U
    <3>1. AnyOf(A) \in A /\ f[AnyOf(A)] \in Int /\ g[A] = f[AnyOf(A)] + g[A \ {AnyOf(A)}]
      BY <1>a, <2>2
    <3>2. g[A \ {AnyOf(A)}] \in Int
      BY <3>1, <2>2
    <3> QED
      BY <3>1, <3>2
  <2> HIDE DEF U
  <2>3. \A A \in SUBSET S : A \in U
    BY <2>1, <2>2, SetInduction
  <2> QED
    BY <2>3 DEF U
<1> DEFINE U == {A \in SUBSET S : \A x \in A : g[A] = f[x] + g[A \ {x}]}
<1>1. {} \in U
  OBVIOUS
<1>2. ASSUME NEW A \in SUBSET S, A # {}, \A x \in A : A \ {x} \in U PROVE A \in U
  <2> DEFINE c == AnyOf(A)
  <2>1. c \in A /\ f[c] \in Int /\ g[A] = f[c] + g[A \ {c}]
    BY <1>a, <1>2
  <2> HIDE DEF c
  <2>2. ASSUME NEW x \in A, x # c PROVE g[A] = f[x] + g[A \ {x}]
    <3>1. A \ {c} \in U /\ A \ {x} \in U /\ x \in A \ {c} /\ c \in A \ {x}
      BY <1>2, <2>1, <2>2
    <3> DEFINE B == (A \ {x}) \ {c}
    <3>2. (A \ {c}) \ {x} = B /\ B \in SUBSET S
      OBVIOUS
    <3>3. g[A \ {c}] = f[x] + g[B] /\ g[A \ {x}] = f[c] + g[B]
      BY <3>1, <3>2
    <3>4. g[B] \in Int /\ f[x] \in Int
      BY <3>2, <1>b
    <3> HIDE DEF B
    <3> QED
      BY <2>1, <3>3, <3>4
  <2>3. \A x \in A : g[A] = f[x] + g[A \ {x}]
    BY <2>1, <2>2
  <2> QED
    BY <2>3
<1> HIDE DEF U
<1>3. \A A \in SUBSET S : A \in U
  BY <1>1, <1>2, SetInduction
<1> QED
  BY <1>b, <1>3 DEF U

\* f gives each element of the finite set S an integer.
Ints(f, S) == IsFiniteSet(S) /\ f \in [S -> Int]

\* The empty sum; a sum is an integer; one value taken out of a sum.
LEMMA SumEmpty ==
    ASSUME NEW f, DOMAIN f = {}
    PROVE  SumFunction(f) = 0
<1>1. PICK g : Sums(f, {}, g) /\ SumFunctionOnSet(f, {}) = g[{}]
  BY SumsOnSet, FS_EmptySet
<1>2. g[{}] = 0
  BY <1>1 DEF Sums
<1> QED
  BY <1>1, <1>2 DEF SumFunction

LEMMA SumSplit ==
    ASSUME NEW S, NEW f, Ints(f, S)
    PROVE  /\ SumFunction(f) \in Int
           /\ \A x \in S : SumFunction(f) = f[x] + SumFunction([y \in S \ {x} |-> f[y]])
<1>0. IsFiniteSet(S) /\ f \in [S -> Int]
  BY DEF Ints
<1>1. PICK g : Sums(f, S, g) /\ SumFunctionOnSet(f, S) = g[S]
  BY <1>0, SumsOnSet
<1>2. SumFunction(f) = g[S] /\ g[S] \in Int /\ \A x \in S : g[S] = f[x] + g[S \ {x}]
  <2>1. \A A \in SUBSET S : g[A] \in Int /\ \A x \in A : g[A] = f[x] + g[A \ {x}]
    BY <1>0, <1>1, SumsAnyOrder
  <2>2. S \in SUBSET S /\ DOMAIN f = S
    BY <1>0
  <2> QED
    BY <1>1, <2>1, <2>2 DEF SumFunction
<1>3. ASSUME NEW x \in S PROVE SumFunction([y \in S \ {x} |-> f[y]]) = g[S \ {x}]
  <2> DEFINE e == [y \in S \ {x} |-> f[y]]
             R == S \ {x}
  <2>1. IsFiniteSet(R) /\ R \subseteq S /\ DOMAIN e = R /\ \A y \in R : e[y] = f[y]
    BY <1>0, FS_RemoveElement
  <2> HIDE DEF e, R
  <2>2. PICK h : Sums(e, R, h) /\ SumFunctionOnSet(e, R) = h[R]
    BY <2>1, SumsOnSet
  <2>3. h[R] = g[R]
    BY <1>1, <2>1, <2>2, SumsAgree
  <2>4. SumFunction(e) = g[R]
    BY <2>1, <2>2, <2>3 DEF SumFunction
  <2> QED
    BY <2>4 DEF e, R
<1> QED
  BY <1>2, <1>3

LEMMA SumWithout ==
    ASSUME NEW S, NEW f, Ints(f, S), NEW x \in S, NEW e, Ints(e, S \ {x}),
           \A y \in S \ {x} : e[y] = f[y]
    PROVE  SumFunction(e) \in Int /\ SumFunction(f) = f[x] + SumFunction(e)
<1>1. SumFunction(e) \in Int
  BY SumSplit
<1>2. e = [y \in S \ {x} |-> f[y]]
  BY DEF Ints
<1>3. SumFunction(f) = f[x] + SumFunction([y \in S \ {x} |-> f[y]])
  BY SumSplit
<1> QED
  BY <1>1, <1>2, <1>3

\* One value of a sum changes.
LEMMA SumChange ==
    ASSUME NEW S, NEW f, Ints(f, S), NEW e, Ints(e, S),
           NEW x \in S, \A y \in S : y # x => e[y] = f[y]
    PROVE  SumFunction(e) = SumFunction(f) - f[x] + e[x]
<1> DEFINE r == [y \in S \ {x} |-> f[y]]
<1>1. Ints(r, S \ {x}) /\ \A y \in S \ {x} : r[y] = f[y] /\ r[y] = e[y]
  BY FS_RemoveElement DEF Ints
<1>2. f[x] \in Int /\ e[x] \in Int
  BY DEF Ints
<1> HIDE DEF r
<1>3. SumFunction(r) \in Int /\ SumFunction(f) = f[x] + SumFunction(r)
  <2>1. \A y \in S \ {x} : r[y] = f[y]
    BY <1>1
  <2>2. Ints(f, S) /\ x \in S /\ Ints(r, S \ {x})
    BY <1>1
  <2>3. SumFunction(r) \in Int
    BY <2>2, SumSplit
  <2>4. SumFunction(f) = f[x] + SumFunction(r)
    BY <2>1, <2>2, SumWithout
  <2> QED
    BY <2>3, <2>4
<1>4. SumFunction(e) = e[x] + SumFunction(r)
  BY <1>1, SumWithout
<1> QED
  BY <1>2, <1>3, <1>4

\* Sums are monotonic.
LEMMA SumLeq ==
    ASSUME NEW S, NEW f, Ints(f, S), NEW e, Ints(e, S),
           \A y \in S : f[y] <= e[y]
    PROVE  SumFunction(f) <= SumFunction(e)
<1>0. IsFiniteSet(S) /\ f \in [S -> Int] /\ e \in [S -> Int]
  BY DEF Ints
<1>1. PICK g : Sums(f, S, g) /\ SumFunctionOnSet(f, S) = g[S]
  BY <1>0, SumsOnSet
<1>2. PICK h : Sums(e, S, h) /\ SumFunctionOnSet(e, S) = h[S]
  BY <1>0, SumsOnSet
<1>3. \A A \in SUBSET S : g[A] \in Int /\ \A x \in A : g[A] = f[x] + g[A \ {x}]
  <2>1. \A x \in S : f[x] \in Int
    BY <1>0
  <2> QED
    BY <2>1, <1>0, <1>1, SumsAnyOrder
<1>4. \A A \in SUBSET S : h[A] \in Int /\ \A x \in A : h[A] = e[x] + h[A \ {x}]
  <2>1. \A x \in S : e[x] \in Int
    BY <1>0
  <2> QED
    BY <2>1, <1>0, <1>2, SumsAnyOrder
<1> DEFINE U == {A \in SUBSET S : g[A] <= h[A]}
<1>5. {} \in U
  <2>1. g[{}] = 0 /\ h[{}] = 0
    BY <1>1, <1>2 DEF Sums
  <2> QED
    BY <2>1
<1>6. ASSUME NEW A \in SUBSET S, A # {}, \A x \in A : A \ {x} \in U PROVE A \in U
  <2>1. PICK x \in A : TRUE
    BY <1>6
  <2>2. g[A] = f[x] + g[A \ {x}] /\ h[A] = e[x] + h[A \ {x}] /\ g[A \ {x}] <= h[A \ {x}]
        /\ f[x] <= e[x] /\ f[x] \in Int /\ e[x] \in Int
    BY <1>0, <1>3, <1>4, <1>6, <2>1
  <2>3. g[A \ {x}] \in Int /\ h[A \ {x}] \in Int
    BY <1>3, <1>4
  <2> QED
    BY <2>2, <2>3
<1> HIDE DEF U
<1>7. \A A \in SUBSET S : A \in U
  BY <1>0, <1>5, <1>6, SetInduction
<1>8. g[S] <= h[S] /\ DOMAIN f = S /\ DOMAIN e = S
  BY <1>0, <1>7 DEF U
<1> QED
  BY <1>1, <1>2, <1>8 DEF SumFunction

\* A sum of zeroes
LEMMA SumZero ==
    ASSUME NEW S, IsFiniteSet(S)
    PROVE  SumFunction([x \in S |-> 0]) = 0
<1> DEFINE z == [x \in S |-> 0]
<1>1. PICK g : Sums(z, S, g) /\ SumFunctionOnSet(z, S) = g[S]
  BY SumsOnSet
<1> DEFINE U == {A \in SUBSET S : g[A] = 0}
<1>2. {} \in U
  BY <1>1 DEF Sums
<1>3. ASSUME NEW A \in SUBSET S, A # {}, \A x \in A : A \ {x} \in U PROVE A \in U
  <2>1. AnyOf(A) \in A /\ AnyOf(A) \in S
    BY <1>3 DEF AnyOf
  <2>2. g[A] = z[AnyOf(A)] + g[A \ {AnyOf(A)}] /\ g[A \ {AnyOf(A)}] = 0
    BY <1>1, <1>3, <2>1 DEF Sums
  <2>3. z[AnyOf(A)] = 0
    BY <2>1
  <2> QED
    BY <2>2, <2>3
<1> HIDE DEF U
<1>4. \A A \in SUBSET S : A \in U
  BY <1>2, <1>3, SetInduction
<1>5. SumFunction(z) = 0
  <2>1. DOMAIN z = S /\ g[S] = 0
    BY <1>4 DEF U
  <2> QED
    BY <1>1, <2>1 DEF SumFunction
<1> QED
  BY <1>5

\* A sum of natural numbers
LEMMA SumNat ==
    ASSUME NEW S, IsFiniteSet(S), NEW f \in [S -> Nat]
    PROVE  SumFunction(f) \in Nat
<1> DEFINE z == [x \in S |-> 0]
<1>5. SumFunction(z) = 0
  BY SumZero
<1>6. Ints(z, S) /\ Ints(f, S) /\ \A y \in S : z[y] <= f[y]
  BY DEF Ints
<1> HIDE DEF z
<1>7. SumFunction(z) <= SumFunction(f)
  BY <1>6, SumLeq
<1>8. SumFunction(f) \in Int
  BY <1>6, SumSplit
<1> QED
  BY <1>5, <1>7, <1>8

\* The last value of a sum over 1..(n + 1)
LEMMA SumLast ==
    ASSUME NEW n \in Nat, NEW f, Ints(f, 1..(n + 1)), NEW e, Ints(e, 1..n), \A k \in 1..n : e[k] = f[k]
    PROVE  SumFunction(e) \in Int /\ SumFunction(f) = SumFunction(e) + f[n + 1]
<1> DEFINE S == 1..(n + 1)
<1>1. n + 1 \in S /\ f[n + 1] \in Int /\ S \ {n + 1} = 1..n /\ Ints(f, S)
  BY DEF Ints
<1> HIDE DEF S
<1>2. Ints(e, S \ {n + 1}) /\ \A k \in S \ {n + 1} : e[k] = f[k]
  BY <1>1
<1>3. SumFunction(e) \in Int /\ SumFunction(f) = f[n + 1] + SumFunction(e)
  BY <1>1, <1>2, SumWithout
<1> QED
  BY <1>1, <1>3

\* A sum in two parts
LEMMA SumParts ==
    ASSUME NEW m \in Nat, NEW n \in Nat, NEW f, Ints(f, 1..(m + n))
    PROVE  SumFunction(f) = SumFunction([k \in 1..m |-> f[k]]) + SumFunction([k \in 1..n |-> f[m + k]])
<1> DEFINE a == SumFunction([k \in 1..m |-> f[k]])
           up(j) == [k \in 1..(m + j) |-> f[k]]
           to(j) == [k \in 1..j |-> f[m + k]]
           T == {j \in 0..n : SumFunction(up(j)) = a + SumFunction(to(j))}
<1>f. f \in [1..(m + n) -> Int]
  BY DEF Ints
<1>0. \A j \in 0..n : Ints(up(j), 1..(m + j)) /\ Ints(to(j), 1..j)
  <2> SUFFICES ASSUME NEW j \in 0..n PROVE Ints(up(j), 1..(m + j)) /\ Ints(to(j), 1..j)
    OBVIOUS
  <2>1. \A k \in 1..(m + j) : k \in 1..(m + n)
    OBVIOUS
  <2>2. \A k \in 1..j : m + k \in 1..(m + n)
    OBVIOUS
  <2>3. IsFiniteSet(1..(m + j)) /\ IsFiniteSet(1..j)
    BY FS_Interval
  <2> QED
    BY <2>1, <2>2, <2>3, <1>f DEF Ints
<1>a. a \in Int
  <2>1. Ints([k \in 1..m |-> f[k]], 1..m)
    BY <1>f, FS_Interval DEF Ints
  <2> QED
    BY <2>1, SumSplit
<1>1. 0 \in T
  <2>1. up(0) = [k \in 1..m |-> f[k]]
    OBVIOUS
  <2>2. DOMAIN to(0) = {}
    OBVIOUS
  <2>3. SumFunction(to(0)) = 0
    BY <2>2, SumEmpty
  <2> HIDE DEF to, up
  <2>4. SumFunction(up(0)) = a + SumFunction(to(0))
    BY <2>1, <2>3, <1>a
  <2> QED
    BY <2>4
<1>2. ASSUME NEW j \in 0..(n - 1), j \in T PROVE j + 1 \in T
  <2>0. j \in Nat /\ j \in 0..n /\ j + 1 \in 0..n /\ m + j \in Nat /\ m + (j + 1) = (m + j) + 1
    OBVIOUS
  <2>1. /\ Ints(up(j + 1), 1..((m + j) + 1)) /\ Ints(to(j + 1), 1..(j + 1))
        /\ Ints(up(j), 1..(m + j)) /\ Ints(to(j), 1..j)
    <3> HIDE DEF up, to
    <3> QED
      BY <1>0, <2>0
  <2>2. (\A k \in 1..(m + j) : up(j)[k] = up(j + 1)[k]) /\ up(j + 1)[(m + j) + 1] = f[(m + j) + 1]
    BY <2>0
  <2>3. (\A k \in 1..j : to(j)[k] = to(j + 1)[k]) /\ to(j + 1)[j + 1] = f[(m + j) + 1]
    BY <2>0
  <2>v. f[(m + j) + 1] \in Int
    BY <2>0, <1>f
  <2> HIDE DEF to, up
  <2>4. SumFunction(up(j)) \in Int /\ SumFunction(up(j + 1)) = SumFunction(up(j)) + f[(m + j) + 1]
    BY <2>0, <2>1, <2>2, SumLast
  <2>5. SumFunction(to(j)) \in Int /\ SumFunction(to(j + 1)) = SumFunction(to(j)) + f[(m + j) + 1]
    BY <2>0, <2>1, <2>3, SumLast
  <2>6. SumFunction(up(j)) = a + SumFunction(to(j))
    BY <1>2
  <2>7. SumFunction(up(j + 1)) = a + SumFunction(to(j + 1))
    <3> HIDE DEF a
    <3> QED
      BY <2>4, <2>5, <2>6, <2>v, <1>a
  <2> QED
    BY <2>0, <2>7
<1> HIDE DEF T
<1>3. n \in T
  <2>1. \A j \in 0..n : j \in T
    BY <1>1, <1>2, RoundLoop!UpTo
  <2> QED
    BY <2>1
<1>4. up(n) = f
  BY <1>f
<1> HIDE DEF up
<1> QED
  BY <1>3, <1>4 DEF T

-----------------------------------------------------------------------------
(* What the entries of a dump add up to.                                   *)

HdEntry == [disk : Hdisks, used : Nat, reserved : Nat]
Amount == {"used", "reserved"}

\* the blocks of entry e on holding disk h, and those of each entry
On(e, field, h) == IF e.disk = h THEN e[field] ELSE 0
OnEach(q, field, h) == [k \in DOMAIN q |-> On(q[k], field, h)]

LEMMA OnNat ==
    ASSUME NEW e \in HdEntry, NEW field \in Amount, NEW h
    PROVE  On(e, field, h) \in Nat
BY DEF On, HdEntry, Amount

LEMMA OnDiskIs ==
    ASSUME NEW q \in Seq(HdEntry), NEW field \in Amount, NEW h
    PROVE  /\ OnDisk(q, field, h) = SumFunction(OnEach(q, field, h))
           /\ Ints(OnEach(q, field, h), 1..Len(q))
           /\ OnDisk(q, field, h) \in Nat
           /\ \A k \in 1..Len(q) : OnEach(q, field, h)[k] = On(q[k], field, h)
<1>1. OnDisk(q, field, h) = SumFunction(OnEach(q, field, h))
  BY Zenon DEF OnDisk, OnEach, On
<1>2. Len(q) \in Nat /\ DOMAIN q = 1..Len(q) /\ \A k \in 1..Len(q) : q[k] \in HdEntry
  OBVIOUS
<1>3. \A k \in 1..Len(q) : On(q[k], field, h) \in Nat
  BY <1>2, OnNat
<1>4. IsFiniteSet(1..Len(q))
  BY <1>2, FS_Interval
<1>5. OnEach(q, field, h) \in [1..Len(q) -> Nat]
  BY <1>2, <1>3 DEF OnEach
<1>6. Ints(OnEach(q, field, h), 1..Len(q))
  BY <1>4, <1>5 DEF Ints
<1>7. SumFunction(OnEach(q, field, h)) \in Nat
  BY <1>4, <1>5, SumNat
<1>8. \A k \in 1..Len(q) : OnEach(q, field, h)[k] = On(q[k], field, h)
  BY <1>2 DEF OnEach
<1> QED
  BY <1>1, <1>6, <1>7, <1>8

LEMMA OnDiskEmpty ==
    ASSUME NEW field, NEW h
    PROVE  OnDisk(<<>>, field, h) = 0
<1> DEFINE f == [k \in DOMAIN <<>> |-> IF <<>>[k].disk = h THEN <<>>[k][field] ELSE 0]
<1>1. DOMAIN f = {}
  OBVIOUS
<1> HIDE DEF f
<1>2. SumFunction(f) = 0
  BY <1>1, SumEmpty
<1> QED
  BY <1>2, Zenon DEF OnDisk, f

\* Entries are added.
LEMMA OnDiskConcat ==
    ASSUME NEW q \in Seq(HdEntry), NEW r \in Seq(HdEntry), NEW field \in Amount, NEW h
    PROVE  OnDisk(q \o r, field, h) = OnDisk(q, field, h) + OnDisk(r, field, h)
<1> DEFINE p == q \o r
           f == OnEach(p, field, h)
<1>1. p \in Seq(HdEntry) /\ Len(q) \in Nat /\ Len(r) \in Nat /\ Len(p) = Len(q) + Len(r)
  OBVIOUS
<1>2. \A k \in 1..Len(q) : p[k] = q[k] /\ k \in 1..Len(p)
  BY <1>1
<1>3. \A k \in 1..Len(r) : p[Len(q) + k] = r[k] /\ Len(q) + k \in 1..Len(p)
  BY <1>1
<1> HIDE DEF p
<1>4. /\ OnDisk(p, field, h) = SumFunction(f) /\ Ints(f, 1..Len(p))
      /\ \A k \in 1..Len(p) : f[k] = On(p[k], field, h)
  BY <1>1, OnDiskIs
<1> HIDE DEF f
<1>5. SumFunction(f) = SumFunction([k \in 1..Len(q) |-> f[k]]) + SumFunction([k \in 1..Len(r) |-> f[Len(q) + k]])
  <2>1. Ints(f, 1..(Len(q) + Len(r)))
    BY <1>1, <1>4
  <2> QED
    BY <1>1, <2>1, SumParts
<1>6. [k \in 1..Len(q) |-> f[k]] = OnEach(q, field, h)
  <2>1. \A k \in 1..Len(q) : f[k] = On(q[k], field, h)
    BY <1>2, <1>4
  <2> QED
    BY <2>1 DEF OnEach
<1>7. [k \in 1..Len(r) |-> f[Len(q) + k]] = OnEach(r, field, h)
  <2>1. \A k \in 1..Len(r) : f[Len(q) + k] = On(r[k], field, h)
    BY <1>3, <1>4
  <2> QED
    BY <2>1 DEF OnEach
<1>8. OnDisk(q, field, h) = SumFunction(OnEach(q, field, h)) /\ OnDisk(r, field, h) = SumFunction(OnEach(r, field, h))
  BY OnDiskIs
<1> QED
  BY <1>4, <1>5, <1>6, <1>7, <1>8 DEF p

\* One entry
LEMMA OnDiskOne ==
    ASSUME NEW e \in HdEntry, NEW field \in Amount, NEW h
    PROVE  OnDisk(<<e>>, field, h) = On(e, field, h)
<1> DEFINE q == <<e>>
           f == OnEach(q, field, h)
<1>1. q \in Seq(HdEntry) /\ Len(q) = 1 /\ q[1] = e
  OBVIOUS
<1> HIDE DEF q
<1>2. OnDisk(q, field, h) = SumFunction(f) /\ Ints(f, 1..1) /\ f[1] = On(q[1], field, h)
  BY <1>1, OnDiskIs
<1> HIDE DEF f
<1> DEFINE z == [k \in 1..0 |-> 0]
<1>3. Ints(z, 1..0) /\ DOMAIN z = {} /\ (\A k \in 1..0 : z[k] = f[k])
  BY FS_Interval DEF Ints
<1> HIDE DEF z
<1>4. SumFunction(z) = 0
  BY <1>3, SumEmpty
<1>5. SumFunction(f) = SumFunction(z) + f[0 + 1]
  <2>1. Ints(f, 1..(0 + 1)) /\ 0 \in Nat
    BY <1>2
  <2> QED
    BY <2>1, <1>3, SumLast
<1>6. On(e, field, h) \in Nat
  BY OnNat
<1> QED
  BY <1>1, <1>2, <1>4, <1>5, <1>6 DEF q

\* An element of a sequence is replaced.
LEMMA Replaced ==
    ASSUME NEW S, NEW q \in Seq(S), NEW k \in 1..Len(q), NEW e \in S, NEW p, p = [q EXCEPT ![k] = e]
    PROVE  /\ p \in Seq(S) /\ Len(p) = Len(q) /\ p[k] = e
           /\ \A j \in 1..Len(q) : j # k => p[j] = q[j]
OBVIOUS

\* One entry changes.
LEMMA OnDiskChange ==
    ASSUME NEW q \in Seq(HdEntry), NEW p \in Seq(HdEntry), Len(p) = Len(q), NEW k \in 1..Len(q),
           \A j \in 1..Len(q) : j # k => p[j] = q[j], NEW field \in Amount, NEW h
    PROVE  OnDisk(p, field, h) = OnDisk(q, field, h) - On(q[k], field, h) + On(p[k], field, h)
<1> DEFINE f == OnEach(q, field, h)
           g == OnEach(p, field, h)
<1>2. /\ OnDisk(q, field, h) = SumFunction(f) /\ Ints(f, 1..Len(q))
      /\ \A j \in 1..Len(q) : f[j] = On(q[j], field, h)
  BY OnDiskIs
<1>3. /\ OnDisk(p, field, h) = SumFunction(g) /\ Ints(g, 1..Len(q))
      /\ \A j \in 1..Len(q) : g[j] = On(p[j], field, h)
  BY OnDiskIs
<1> HIDE DEF f, g
<1>4. \A j \in 1..Len(q) : j # k => g[j] = f[j]
  BY <1>2, <1>3
<1>5. SumFunction(g) = SumFunction(f) - f[k] + g[k]
  BY <1>2, <1>3, <1>4, SumChange
<1> QED
  BY <1>2, <1>3, <1>5

\* Entries are not used beyond their reservation: nor is what they add up to.
LEMMA OnDiskLeq ==
    ASSUME NEW q \in Seq(HdEntry), \A k \in 1..Len(q) : q[k].used <= q[k].reserved, NEW h
    PROVE  OnDisk(q, "used", h) <= OnDisk(q, "reserved", h)
<1> DEFINE f == OnEach(q, "used", h)
           g == OnEach(q, "reserved", h)
<1>0. "used" \in Amount /\ "reserved" \in Amount
  BY DEF Amount
<1>1. /\ OnDisk(q, "used", h) = SumFunction(f) /\ Ints(f, 1..Len(q))
      /\ \A j \in 1..Len(q) : f[j] = On(q[j], "used", h)
  BY <1>0, OnDiskIs
<1>2. /\ OnDisk(q, "reserved", h) = SumFunction(g) /\ Ints(g, 1..Len(q))
      /\ \A j \in 1..Len(q) : g[j] = On(q[j], "reserved", h)
  BY <1>0, OnDiskIs
<1> HIDE DEF f, g
<1>3. \A j \in 1..Len(q) : f[j] <= g[j]
  BY <1>1, <1>2 DEF On
<1>4. SumFunction(f) <= SumFunction(g)
  BY <1>1, <1>2, <1>3, SumLeq
<1> QED
  BY <1>1, <1>2, <1>4

\* Entries that are used as reserved
LEMMA OnDiskSettled ==
    ASSUME NEW q \in Seq(HdEntry), NEW r \in Seq(HdEntry), Len(r) = Len(q),
           \A k \in 1..Len(q) : q[k].disk = r[k].disk /\ q[k].used = r[k].reserved, NEW h
    PROVE  OnDisk(q, "used", h) = OnDisk(r, "reserved", h)
<1>1. \A k \in 1..Len(q) : On(q[k], "used", h) = On(r[k], "reserved", h)
  BY DEF On
<1>2. OnEach(q, "used", h) = OnEach(r, "reserved", h)
  BY <1>1 DEF OnEach
<1>3. OnDisk(q, "used", h) = SumFunction(OnEach(q, "used", h)) /\ OnDisk(r, "reserved", h) = SumFunction(OnEach(r, "reserved", h))
  BY OnDiskIs DEF Amount
<1> QED
  BY <1>2, <1>3

-----------------------------------------------------------------------------
(* The files of a dump, and where its chunker is in them.                  *)

Holdp(q) == q \in Seq(HdEntry) /\ \A k \in 1..Len(q) : q[k].used <= q[k].reserved
Settled(q) == \A k \in 1..Len(q) : q[k].used = q[k].reserved

\* the size of the files before entry a
Before(q, a) == Used(SubSeq(q, 1, a - 1))

UsedUp(q, n) == [k \in 1..n |-> q[k].used]

LEMMA BeforeIs ==
    ASSUME NEW q \in Seq(HdEntry), NEW n \in 0..Len(q)
    PROVE  /\ Before(q, n + 1) = SumFunction(UsedUp(q, n))
           /\ Ints(UsedUp(q, n), 1..n)
           /\ Before(q, n + 1) \in Nat
<1>0. Len(q) \in Nat /\ n \in Nat /\ \A k \in 1..n : k \in 1..Len(q) /\ q[k] \in HdEntry
  OBVIOUS
<1> DEFINE r == SubSeq(q, 1, (n + 1) - 1)
<1>1. DOMAIN r = 1..n /\ \A k \in 1..n : r[k] = q[k]
  <2>1. (n + 1) - 1 = n
    BY <1>0
  <2>2. DOMAIN SubSeq(q, 1, n) = 1..n /\ \A k \in 1..n : SubSeq(q, 1, n)[k] = q[k]
    BY <1>0
  <2> QED
    BY <2>1, <2>2
<1>2. Before(q, n + 1) = SumFunction([k \in DOMAIN r |-> r[k].used])
  BY Zenon DEF Before, Used
<1> HIDE DEF r
<1>3. [k \in DOMAIN r |-> r[k].used] = UsedUp(q, n)
  BY <1>1 DEF UsedUp
<1>4. UsedUp(q, n) \in [1..n -> Nat]
  BY <1>0 DEF UsedUp, HdEntry
<1>5. IsFiniteSet(1..n)
  BY <1>0, FS_Interval
<1>6. SumFunction(UsedUp(q, n)) \in Nat
  BY <1>4, <1>5, SumNat
<1>7. Ints(UsedUp(q, n), 1..n)
  BY <1>4, <1>5 DEF Ints
<1> QED
  BY <1>2, <1>3, <1>6, <1>7

LEMMA BeforeFirst ==
    ASSUME NEW q \in Seq(HdEntry)
    PROVE  Before(q, 1) = 0
<1>1. 0 \in 0..Len(q) /\ 0 + 1 = 1 /\ DOMAIN UsedUp(q, 0) = {}
  BY DEF UsedUp
<1>2. Before(q, 0 + 1) = SumFunction(UsedUp(q, 0))
  BY <1>1, BeforeIs
<1>3. SumFunction(UsedUp(q, 0)) = 0
  BY <1>1, SumEmpty
<1> QED
  BY <1>1, <1>2, <1>3

\* The chunker goes on to the next entry.
LEMMA BeforeNext ==
    ASSUME NEW q \in Seq(HdEntry), NEW a \in 1..Len(q)
    PROVE  Before(q, a) \in Nat /\ Before(q, a + 1) = Before(q, a) + q[a].used
<1> DEFINE n == a - 1
<1>0. n \in Nat /\ n + 1 = a /\ n \in 0..Len(q) /\ a \in 0..Len(q) /\ a \in 1..Len(q)
  OBVIOUS
<1> HIDE DEF n
<1>1. Before(q, n + 1) = SumFunction(UsedUp(q, n)) /\ Ints(UsedUp(q, n), 1..n) /\ Before(q, n + 1) \in Nat
  BY <1>0, BeforeIs
<1>2. Before(q, a + 1) = SumFunction(UsedUp(q, a)) /\ Ints(UsedUp(q, a), 1..a)
  BY <1>0, BeforeIs
<1>3. (\A k \in 1..n : UsedUp(q, n)[k] = UsedUp(q, a)[k]) /\ UsedUp(q, a)[a] = q[a].used
  BY <1>0 DEF UsedUp
<1>4. SumFunction(UsedUp(q, a)) = SumFunction(UsedUp(q, n)) + UsedUp(q, a)[a]
  <2>1. Ints(UsedUp(q, a), 1..(n + 1))
    BY <1>0, <1>2
  <2>2. SumFunction(UsedUp(q, a)) = SumFunction(UsedUp(q, n)) + UsedUp(q, a)[n + 1]
    BY <1>0, <1>1, <1>3, <2>1, SumLast
  <2> QED
    BY <1>0, <2>2
<1> QED
  BY <1>0, <1>1, <1>2, <1>3, <1>4

\* Before(q, a) depends on what is before entry a.
LEMMA BeforeSame ==
    ASSUME NEW q \in Seq(HdEntry), NEW r \in Seq(HdEntry), NEW a \in Nat \ {0},
           a <= Len(q) + 1, a <= Len(r) + 1, \A k \in 1..(a - 1) : r[k].used = q[k].used
    PROVE  Before(r, a) = Before(q, a)
<1> DEFINE n == a - 1
<1>0. n \in Nat /\ n + 1 = a /\ n \in 0..Len(q) /\ n \in 0..Len(r)
  OBVIOUS
<1>1. UsedUp(q, n) = UsedUp(r, n)
  BY DEF UsedUp
<1> HIDE DEF n
<1>2. Before(q, n + 1) = SumFunction(UsedUp(q, n))
  BY <1>0, BeforeIs
<1>3. Before(r, n + 1) = SumFunction(UsedUp(r, n))
  BY <1>0, BeforeIs
<1> QED
  BY <1>0, <1>1, <1>2, <1>3

\* What is reserved up to entry a
LEMMA ReservedUpTo ==
    ASSUME NEW q \in Seq(HdEntry), NEW a \in 1..Len(q),
           \A k \in 1..(a - 1) : q[k].used = q[k].reserved
    PROVE  LET p == SubSeq(q, 1, a)
           IN  SumFunction([k \in DOMAIN p |-> p[k].reserved]) = Before(q, a) + q[a].reserved
<1> DEFINE p == SubSeq(q, 1, a)
           f == [k \in DOMAIN p |-> p[k].reserved]
           n == a - 1
<1>0. n \in Nat /\ n + 1 = a /\ n \in 0..Len(q) /\ a \in 0..Len(q) /\ a \in 1..Len(q) /\ Len(q) \in Nat
  OBVIOUS
<1>1. DOMAIN p = 1..a /\ \A k \in 1..a : p[k] = q[k] /\ q[k] \in HdEntry
  BY <1>0
<1>2. f \in [1..a -> Nat] /\ f[a] = q[a].reserved /\ \A k \in 1..n : f[k] = q[k].reserved
  <2> HIDE DEF p
  <2>1. \A k \in 1..n : k \in 1..a
    BY <1>0
  <2>2. f = [k \in 1..a |-> q[k].reserved]
    BY <1>1
  <2>3. \A k \in 1..a : q[k].reserved \in Nat
    BY <1>1 DEF HdEntry
  <2> HIDE DEF f
  <2>4. f \in [1..a -> Nat]
    BY <2>2, <2>3
  <2>5. a \in 1..a
    BY <1>0
  <2> QED
    BY <2>1, <2>2, <2>4, <2>5
<1>3. \A k \in 1..n : q[k].used = q[k].reserved
  OBVIOUS
<1> HIDE DEF n, f
<1>4. Before(q, n + 1) = SumFunction(UsedUp(q, n)) /\ Ints(UsedUp(q, n), 1..n) /\ Before(q, n + 1) \in Nat
  BY <1>0, BeforeIs
<1>5. \A k \in 1..n : UsedUp(q, n)[k] = f[k]
  BY <1>2, <1>3 DEF UsedUp
<1>6. Ints(f, 1..(n + 1))
  <2>1. IsFiniteSet(1..a)
    BY <1>0, FS_Interval
  <2> QED
    BY <1>0, <1>2, <2>1 DEF Ints
<1>7. SumFunction(f) = SumFunction(UsedUp(q, n)) + f[n + 1]
  BY <1>0, <1>4, <1>5, <1>6, SumLast
<1>8. SumFunction(f) = Before(q, a) + q[a].reserved
  BY <1>0, <1>2, <1>4, <1>7
<1> QED
  BY <1>8 DEF f

\* The chunker writes to entry a: the entries before it are full, those after it
\* are not used yet.
Position(q, a) ==
    /\ a \in 1..Len(q)
    /\ \A k \in 1..Len(q) : /\ k < a => q[k].used = q[k].reserved
                            /\ k > a => q[k].used = 0

\* What the chunker wrote and may still write is within entry a.
AtWork(q, a, ch) ==
    /\ Position(q, a) /\ ch.wrote \in Nat /\ ch.use \in Nat
    /\ Before(q, a) + q[a].used <= ch.wrote
    /\ ch.wrote + ch.use <= Before(q, a) + q[a].reserved
    /\ ch.proc \in {"writing", "room"} => ch.wrote = Before(q, a) + q[a].used
    /\ ch.proc = "writing" => ch.use = q[a].reserved - q[a].used
    /\ ch.proc = "room" => ch.use = 0

\* The chunker has no entry left to write to.
Filled(q, a) == a = Len(q) /\ q[a].used = q[a].reserved

\* what find_diskspace returns
Fresh(new) == new \in Seq(HdEntry) /\ \A k \in 1..Len(new) : new[k].used = 0

LEMMA EntryOf ==
    ASSUME NEW q, Holdp(q), NEW a, Position(q, a)
    PROVE  /\ q \in Seq(HdEntry) /\ Len(q) \in Nat /\ a \in 1..Len(q) /\ a \in Nat /\ a >= 1
           /\ q[a] \in HdEntry /\ q[a].disk \in Hdisks
           /\ q[a].used \in Nat /\ q[a].reserved \in Nat /\ q[a].used <= q[a].reserved
           /\ Before(q, a) \in Nat
<1>1. q \in Seq(HdEntry) /\ Len(q) \in Nat /\ a \in 1..Len(q) /\ q[a].used <= q[a].reserved
  BY DEF Holdp, Position
<1>2. q[a] \in HdEntry
  BY <1>1
<1>3. Before(q, a) \in Nat
  BY <1>1, BeforeNext
<1> QED
  BY <1>1, <1>2, <1>3 DEF HdEntry

\* The first entries of a dump
LEMMA StartWork ==
    ASSUME NEW new, Fresh(new), new # <<>>, NEW ch, ch.wrote = 0, ch.use = new[1].reserved,
           ch.proc = "writing"
    PROVE  Holdp(new) /\ AtWork(new, 1, ch) /\ AssignHoldp(<<>>, new) = new /\ AssignActive(<<>>, new) = 1
<1>1. new \in Seq(HdEntry) /\ Len(new) \in Nat /\ Len(new) >= 1 /\ 1 \in 1..Len(new)
  BY DEF Fresh
<1>2. \A k \in 1..Len(new) : new[k] \in HdEntry /\ new[k].used = 0 /\ new[k].reserved \in Nat
  <2>1. \A k \in 1..Len(new) : new[k] \in HdEntry /\ new[k].used = 0
    BY <1>1 DEF Fresh
  <2>2. \A e \in HdEntry : e.reserved \in Nat
    BY DEF HdEntry
  <2> QED
    BY <2>1, <2>2
<1>3. Holdp(new)
  BY <1>1, <1>2 DEF Holdp
<1>4. Position(new, 1)
  BY <1>1, <1>2 DEF Position
<1>5. Before(new, 1) = 0
  BY <1>1, BeforeFirst
<1>6. AtWork(new, 1, ch)
  BY <1>1, <1>2, <1>4, <1>5 DEF AtWork
<1>7. AssignHoldp(<<>>, new) = new /\ AssignActive(<<>>, new) = 1
  <2>1. ~Merges(<<>>, new)
    BY DEF Merges
  <2>2. <<>> \o new = new /\ Len(<<>>) + 1 = 1
    BY <1>1
  <2> QED
    BY <2>1, <2>2 DEF AssignHoldp, AssignActive
<1> QED
  BY <1>3, <1>6, <1>7

\* RQ-MORE-DISK: entry a is full, at its size or n blocks short of it (NO-ROOM).
LEMMA FillEntry ==
    ASSUME NEW q, Holdp(q), NEW a, NEW ch, AtWork(q, a, ch), ch.proc = "writing",
           NEW n \in Nat, n <= ch.use, NEW p \in Seq(HdEntry), Len(p) = Len(q),
           \A j \in 1..Len(q) : j # a => p[j] = q[j], p[a].disk = q[a].disk,
           p[a].used = q[a].reserved - n, p[a].reserved = q[a].reserved - n
    PROVE  /\ Holdp(p) /\ Position(p, a)
           /\ ch.wrote + ch.use - n \in Nat
           /\ ch.wrote + ch.use - n = Before(p, a) + p[a].used
           /\ \A h : OnDisk(p, "reserved", h) = OnDisk(q, "reserved", h) - (IF h = q[a].disk THEN n ELSE 0)
<1>0. Position(q, a) /\ ch.wrote \in Nat /\ ch.use \in Nat /\ ch.wrote = Before(q, a) + q[a].used
      /\ ch.use = q[a].reserved - q[a].used
  BY DEF AtWork
<1>1. /\ q \in Seq(HdEntry) /\ Len(q) \in Nat /\ a \in 1..Len(q) /\ a \in Nat /\ a >= 1
      /\ q[a] \in HdEntry /\ q[a].disk \in Hdisks
      /\ q[a].used \in Nat /\ q[a].reserved \in Nat /\ q[a].used <= q[a].reserved
      /\ Before(q, a) \in Nat
  BY <1>0, EntryOf
<1>2. q[a].reserved - n \in Nat
  BY <1>0, <1>1
<1>5. Holdp(p)
  <2>1. \A k \in 1..Len(q) : q[k].used <= q[k].reserved
    BY DEF Holdp
  <2>2. \A k \in 1..Len(q) : p[k].used <= p[k].reserved
    BY <2>1, <1>2
  <2> QED
    BY <2>2 DEF Holdp
<1>6. Position(p, a)
  BY <1>0, <1>1 DEF Position
<1>7. Before(p, a) = Before(q, a)
  <2>1. \A k \in 1..(a - 1) : p[k].used = q[k].used
    BY <1>1
  <2>2. a \in Nat \ {0} /\ a <= Len(q) + 1 /\ a <= Len(p) + 1
    BY <1>1
  <2> QED
    BY <1>1, <2>1, <2>2, BeforeSame
<1>8. ch.wrote + ch.use - n \in Nat /\ ch.wrote + ch.use - n = Before(p, a) + p[a].used
  <2>1. PICK b, u, r : b = Before(q, a) /\ u = q[a].used /\ r = q[a].reserved
    OBVIOUS
  <2>2. PICK w, x : w = ch.wrote /\ x = ch.use
    OBVIOUS
  <2>3. b \in Nat /\ u \in Nat /\ r \in Nat /\ w = b + u /\ x = r - u /\ r - n \in Nat
    BY <2>1, <2>2, <1>0, <1>1, <1>2
  <2>4. w + x - n = b + (r - n) /\ b + (r - n) \in Nat
    BY <2>3
  <2>5. Before(p, a) = b /\ p[a].used = r - n
    BY <2>1, <1>7
  <2> QED
    BY <2>2, <2>4, <2>5
<1>9. ASSUME NEW h
      PROVE  OnDisk(p, "reserved", h) = OnDisk(q, "reserved", h) - (IF h = q[a].disk THEN n ELSE 0)
  <2>0. "reserved" \in Amount
    BY DEF Amount
  <2>1. OnDisk(p, "reserved", h) = OnDisk(q, "reserved", h) - On(q[a], "reserved", h) + On(p[a], "reserved", h)
    BY <1>1, <2>0, OnDiskChange
  <2>2. OnDisk(q, "reserved", h) \in Nat
    BY <1>1, <2>0, OnDiskIs
  <2>3. On(q[a], "reserved", h) = IF q[a].disk = h THEN q[a].reserved ELSE 0
    BY DEF On
  <2>4. On(p[a], "reserved", h) = IF q[a].disk = h THEN q[a].reserved - n ELSE 0
    BY DEF On
  <2> QED
    BY <2>1, <2>2, <2>3, <2>4, <1>1
<1> QED
  BY <1>5, <1>6, <1>8, <1>9

\* The chunker goes on to the next entry, or waits.
LEMMA NextOrWait ==
    ASSUME NEW p, Holdp(p), NEW a, Position(p, a), p[a].used = p[a].reserved,
           NEW w, w = Before(p, a) + p[a].used, NEW ch, ch.wrote = w
    PROVE  /\ a < Len(p) /\ ch.use = p[a + 1].reserved - p[a + 1].used /\ ch.proc = "writing"
                 => AtWork(p, a + 1, ch) /\ p[a + 1].disk \in Hdisks
           /\ a = Len(p) /\ ch.use = 0 /\ ch.proc \in {"room", "dead"} => AtWork(p, a, ch) /\ Filled(p, a)
<1>1. /\ p \in Seq(HdEntry) /\ Len(p) \in Nat /\ a \in 1..Len(p) /\ a \in Nat /\ a >= 1
      /\ p[a] \in HdEntry /\ p[a].disk \in Hdisks
      /\ p[a].used \in Nat /\ p[a].reserved \in Nat /\ p[a].used <= p[a].reserved
      /\ Before(p, a) \in Nat
  BY EntryOf
<1>2. w \in Nat
  BY <1>1
<1>3. ASSUME a < Len(p), ch.use = p[a + 1].reserved - p[a + 1].used, ch.proc = "writing"
      PROVE  AtWork(p, a + 1, ch) /\ p[a + 1].disk \in Hdisks
  <2>1. Position(p, a + 1)
    BY <1>1, <1>3 DEF Position
  <2>2. p[a + 1].used = 0 /\ p[a + 1].reserved \in Nat /\ p[a + 1].disk \in Hdisks
    <3>1. a + 1 \in 1..Len(p) /\ a + 1 > a
      BY <1>1, <1>3
    <3>2. p[a + 1] \in HdEntry /\ p[a + 1].used = 0
      BY <1>1, <3>1 DEF Position
    <3> QED
      BY <3>2 DEF HdEntry
  <2>3. Before(p, a + 1) = w
    BY <1>1, BeforeNext
  <2>4. ch.use = p[a + 1].reserved /\ w + 0 = w /\ p[a + 1].reserved - 0 = p[a + 1].reserved
    BY <1>2, <1>3, <2>2
  <2> QED
    BY <1>2, <1>3, <2>1, <2>2, <2>3, <2>4 DEF AtWork
<1>4. ASSUME a = Len(p), ch.use = 0, ch.proc \in {"room", "dead"} PROVE AtWork(p, a, ch) /\ Filled(p, a)
  BY <1>1, <1>2, <1>4 DEF AtWork, Filled
<1> QED
  BY <1>3, <1>4

\* One sequence after the other
LEMMA Joined ==
    ASSUME NEW q \in Seq(HdEntry), NEW r \in Seq(HdEntry)
    PROVE  \E p : /\ p = q \o r /\ p \in Seq(HdEntry)
                  /\ Len(p) = Len(q) + Len(r) /\ Len(q) \in Nat /\ Len(r) \in Nat
                  /\ \A k \in 1..Len(q) : p[k] = q[k]
                  /\ \A k \in (Len(q) + 1)..Len(p) : k - Len(q) \in 1..Len(r) /\ p[k] = r[k - Len(q)]
<1> DEFINE p == q \o r
<1>1. /\ p = q \o r /\ p \in Seq(HdEntry)
      /\ Len(p) = Len(q) + Len(r) /\ Len(q) \in Nat /\ Len(r) \in Nat
  OBVIOUS
<1>2. \A k \in 1..Len(q) : p[k] = q[k]
  OBVIOUS
<1>3. \A k \in (Len(q) + 1)..Len(p) : k - Len(q) \in 1..Len(r) /\ p[k] = r[k - Len(q)]
  OBVIOUS
<1> HIDE DEF p
<1> QED
  BY <1>1, <1>2, <1>3

\* An entry with another size or use
LEMMA EntryWith ==
    ASSUME NEW x \in HdEntry, NEW v \in Nat
    PROVE  /\ LET y == [x EXCEPT !.reserved = v]
              IN  y \in HdEntry /\ y.disk = x.disk /\ y.used = x.used /\ y.reserved = v
           /\ LET y == [x EXCEPT !.used = v]
              IN  y \in HdEntry /\ y.disk = x.disk /\ y.used = v /\ y.reserved = x.reserved
BY DEF HdEntry

\* The new entries are merged with the last one of the dump.
LEMMA AssignMerged ==
    ASSUME NEW q \in Seq(HdEntry), NEW new, Fresh(new), new # <<>>, Merges(q, new)
    PROVE  LET p == AssignHoldp(q, new)
               a == Len(q)
           IN  /\ a \in 1..Len(p) /\ p \in Seq(HdEntry)
               /\ \A k \in 1..(a - 1) : p[k] = q[k]
               /\ p[a].disk = q[a].disk /\ p[a].used = q[a].used
               /\ p[a].reserved = q[a].reserved + new[1].reserved
               /\ \A k \in (a + 1)..Len(p) : p[k].used = 0
               /\ \A h : OnDisk(p, "reserved", h) = OnDisk(q, "reserved", h) + OnDisk(new, "reserved", h)
<1> DEFINE a == Len(q)
           e == [q[a] EXCEPT !.reserved = @ + new[1].reserved]
           m == [q EXCEPT ![a] = e]
           r == Tail(new)
           p == m \o r
<1>0. new \in Seq(HdEntry) /\ Len(new) \in Nat /\ Len(new) >= 1 /\ Head(new) = new[1]
      /\ new[1] \in HdEntry /\ \A k \in 1..Len(new) : new[k].used = 0
  BY DEF Fresh
<1>1. q # <<>> /\ q[a].disk = new[1].disk /\ a \in 1..Len(q) /\ a \in Nat /\ q[a] \in HdEntry
  BY <1>0 DEF Merges, Last
<1>2. AssignHoldp(q, new) = p
  BY <1>0 DEF AssignHoldp
<1>3. e \in HdEntry /\ e.disk = q[a].disk /\ e.used = q[a].used /\ e.reserved = q[a].reserved + new[1].reserved
  <2> DEFINE v == q[a].reserved + new[1].reserved
  <2>1. v \in Nat
    BY <1>0, <1>1 DEF HdEntry
  <2>2. e = [q[a] EXCEPT !.reserved = v]
    OBVIOUS
  <2> HIDE DEF e, v
  <2>3. e \in HdEntry /\ e.disk = q[a].disk /\ e.used = q[a].used /\ e.reserved = v
    BY <1>1, <2>1, <2>2, EntryWith
  <2> QED
    BY <2>3 DEF v
<1> HIDE DEF e
<1>4. /\ m \in Seq(HdEntry) /\ Len(m) = a /\ m[a] = e
      /\ \A j \in 1..a : j # a => m[j] = q[j]
  BY <1>1, <1>3, Replaced
<1>5. r \in Seq(HdEntry) /\ Len(r) = Len(new) - 1 /\ \A k \in 1..Len(r) : k + 1 \in 1..Len(new) /\ r[k] = new[k + 1]
  BY <1>0
<1>6. new = <<new[1]>> \o r
  BY <1>0
<1> HIDE DEF m, r
<1>7. /\ p \in Seq(HdEntry) /\ Len(p) = Len(m) + Len(r) /\ Len(m) \in Nat /\ Len(r) \in Nat
      /\ \A k \in 1..Len(m) : p[k] = m[k]
      /\ \A k \in (Len(m) + 1)..Len(p) : k - Len(m) \in 1..Len(r) /\ p[k] = r[k - Len(m)]
  <2>1. p = m \o r
    OBVIOUS
  <2>2. m \in Seq(HdEntry) /\ r \in Seq(HdEntry)
    BY <1>4, <1>5
  <2>3. PICK x : /\ x = m \o r /\ x \in Seq(HdEntry)
                 /\ Len(x) = Len(m) + Len(r) /\ Len(m) \in Nat /\ Len(r) \in Nat
                 /\ \A k \in 1..Len(m) : x[k] = m[k]
                 /\ \A k \in (Len(m) + 1)..Len(x) : k - Len(m) \in 1..Len(r) /\ x[k] = r[k - Len(m)]
    BY <2>2, Joined
  <2>4. x = p
    BY <2>1, <2>3
  <2> HIDE DEF p
  <2> QED
    BY <2>3, <2>4, Zenon
<1>8. ASSUME NEW h
      PROVE  OnDisk(p, "reserved", h) = OnDisk(q, "reserved", h) + OnDisk(new, "reserved", h)
  <2>0. "reserved" \in Amount
    BY DEF Amount
  <2>1. OnDisk(p, "reserved", h) = OnDisk(m, "reserved", h) + OnDisk(r, "reserved", h)
    BY <1>4, <1>5, <2>0, OnDiskConcat
  <2>2. OnDisk(m, "reserved", h) = OnDisk(q, "reserved", h) - On(q[a], "reserved", h) + On(m[a], "reserved", h)
    BY <1>1, <1>4, <2>0, OnDiskChange
  <2>3. OnDisk(new, "reserved", h) = On(new[1], "reserved", h) + OnDisk(r, "reserved", h)
    <3>1. <<new[1]>> \in Seq(HdEntry)
      BY <1>0
    <3>2. OnDisk(<<new[1]>> \o r, "reserved", h) = OnDisk(<<new[1]>>, "reserved", h) + OnDisk(r, "reserved", h)
      BY <1>5, <2>0, <3>1, OnDiskConcat
    <3>3. OnDisk(<<new[1]>>, "reserved", h) = On(new[1], "reserved", h)
      BY <1>0, <2>0, OnDiskOne
    <3> QED
      BY <1>6, <3>2, <3>3
  <2>4. On(m[a], "reserved", h) = On(q[a], "reserved", h) + On(new[1], "reserved", h)
    <3>1. q[a].reserved \in Nat /\ new[1].reserved \in Nat
      BY <1>0, <1>1 DEF HdEntry
    <3> QED
      BY <3>1, <1>1, <1>3, <1>4 DEF On
  <2>5. OnDisk(q, "reserved", h) \in Nat /\ On(q[a], "reserved", h) \in Nat
    BY <1>1, <2>0, OnDiskIs, OnNat
  <2>6. OnDisk(r, "reserved", h) \in Nat /\ On(new[1], "reserved", h) \in Nat
    BY <1>0, <1>5, <2>0, OnDiskIs, OnNat
  <2> QED
    BY <2>1, <2>2, <2>3, <2>4, <2>5, <2>6
<1>9. \A k \in (a + 1)..Len(p) : p[k].used = 0
  <2>1. \A k \in 1..Len(r) : r[k].used = 0
    BY <1>0, <1>5
  <2> QED
    BY <2>1, <1>4, <1>7
<1>10. a \in 1..Len(p) /\ p[a] = e /\ \A k \in 1..(a - 1) : p[k] = q[k]
  <2>1. a \in 1..Len(p) /\ \A k \in 1..(a - 1) : k \in 1..a /\ k # a
    BY <1>1, <1>4, <1>7
  <2>2. p[a] = m[a] /\ \A k \in 1..(a - 1) : p[k] = m[k]
    BY <1>1, <1>4, <1>7, <2>1
  <2> QED
    BY <1>4, <2>1, <2>2
<1> HIDE DEF p
<1> QED
  BY <1>2, <1>3, <1>7, <1>8, <1>9, <1>10

\* The new entries follow those of the dump.
LEMMA AssignAfter ==
    ASSUME NEW q \in Seq(HdEntry), NEW new, Fresh(new), new # <<>>, ~Merges(q, new)
    PROVE  LET p == AssignHoldp(q, new)
               a == Len(q) + 1
           IN  /\ a \in 1..Len(p) /\ p \in Seq(HdEntry)
               /\ \A k \in 1..Len(q) : p[k] = q[k]
               /\ \A k \in a..Len(p) : p[k].used = 0
               /\ \A h : OnDisk(p, "reserved", h) = OnDisk(q, "reserved", h) + OnDisk(new, "reserved", h)
<1> DEFINE p == q \o new
<1>0. new \in Seq(HdEntry) /\ Len(new) \in Nat /\ Len(new) >= 1 /\ \A k \in 1..Len(new) : new[k].used = 0
  BY DEF Fresh
<1>1. AssignHoldp(q, new) = p /\ p = q \o new
  BY DEF AssignHoldp
<1> HIDE DEF p
<1>2. /\ p \in Seq(HdEntry) /\ Len(p) = Len(q) + Len(new) /\ Len(q) \in Nat /\ Len(new) \in Nat
      /\ \A k \in 1..Len(q) : p[k] = q[k]
      /\ \A k \in (Len(q) + 1)..Len(p) : k - Len(q) \in 1..Len(new) /\ p[k] = new[k - Len(q)]
  <2>1. PICK x : /\ x = q \o new /\ x \in Seq(HdEntry)
                 /\ Len(x) = Len(q) + Len(new) /\ Len(q) \in Nat /\ Len(new) \in Nat
                 /\ \A k \in 1..Len(q) : x[k] = q[k]
                 /\ \A k \in (Len(q) + 1)..Len(x) : k - Len(q) \in 1..Len(new) /\ x[k] = new[k - Len(q)]
    BY <1>0, Joined
  <2>2. x = p
    BY <1>1, <2>1
  <2> QED
    BY <2>1, <2>2, Zenon
<1>3. ASSUME NEW h
      PROVE  OnDisk(p, "reserved", h) = OnDisk(q, "reserved", h) + OnDisk(new, "reserved", h)
  BY <1>0, <1>1, OnDiskConcat DEF Amount
<1>4. Len(q) + 1 \in 1..Len(p)
  BY <1>0, <1>2
<1>5. \A k \in (Len(q) + 1)..Len(p) : p[k].used = 0
  BY <1>0, <1>2
<1> QED
  BY <1>1, <1>2, <1>3, <1>4, <1>5

\* A dump that fills its last entry gets more: it goes on in the new entries.
LEMMA MoreWork ==
    ASSUME NEW q, Holdp(q), NEW a, Position(q, a), Filled(q, a), NEW new, Fresh(new), new # <<>>,
           NEW w, w = Before(q, a) + q[a].used,
           NEW p, p = AssignHoldp(q, new), NEW b, b = AssignActive(q, new)
    PROVE  /\ Holdp(p) /\ Position(p, b) /\ w = Before(p, b) + p[b].used /\ w \in Nat
           /\ \A h : OnDisk(p, "reserved", h) = OnDisk(q, "reserved", h) + OnDisk(new, "reserved", h)
<1>1. /\ q \in Seq(HdEntry) /\ Len(q) \in Nat /\ a \in 1..Len(q) /\ a \in Nat /\ a >= 1
      /\ q[a] \in HdEntry /\ q[a].disk \in Hdisks
      /\ q[a].used \in Nat /\ q[a].reserved \in Nat /\ q[a].used <= q[a].reserved
      /\ Before(q, a) \in Nat
  BY EntryOf
<1>2. a = Len(q) /\ \A k \in 1..Len(q) : q[k].used = q[k].reserved
  BY <1>1 DEF Filled, Position
<1>3. w \in Nat /\ \A k \in 1..Len(q) : q[k].used <= q[k].reserved
  BY <1>1 DEF Holdp
<1>4. \A r \in Seq(HdEntry) : \A k \in 1..Len(r) : r[k].used \in Nat /\ r[k].reserved \in Nat
  <2> SUFFICES ASSUME NEW r \in Seq(HdEntry), NEW k \in 1..Len(r) PROVE r[k].used \in Nat /\ r[k].reserved \in Nat
    OBVIOUS
  <2>1. r[k] \in HdEntry
    OBVIOUS
  <2> QED
    BY <2>1 DEF HdEntry
<1>5. CASE Merges(q, new)
  <2>1. /\ a \in 1..Len(p) /\ p \in Seq(HdEntry)
        /\ \A k \in 1..(a - 1) : p[k] = q[k]
        /\ p[a].disk = q[a].disk /\ p[a].used = q[a].used
        /\ p[a].reserved = q[a].reserved + new[1].reserved
        /\ \A k \in (a + 1)..Len(p) : p[k].used = 0
        /\ \A h : OnDisk(p, "reserved", h) = OnDisk(q, "reserved", h) + OnDisk(new, "reserved", h)
    BY <1>1, <1>2, <1>5, AssignMerged
  <2>2. b = a
    BY <1>2, <1>5 DEF AssignActive
  <2>3. new[1].reserved \in Nat
    <3>1. new \in Seq(HdEntry) /\ 1 \in 1..Len(new)
      BY DEF Fresh
    <3> QED
      BY <3>1, <1>4
  <2>4. p[a].used <= p[a].reserved
    BY <1>1, <2>1, <2>3
  <2>a. Len(p) \in Nat /\ \A k \in 1..Len(p) : k \in 1..(a - 1) \/ k = a \/ k \in (a + 1)..Len(p)
    BY <1>1, <2>1
  <2>b. \A k \in 1..(a - 1) : k \in 1..Len(q)
    BY <1>1
  <2>5. Holdp(p)
    <3>1. \A k \in 1..Len(p) : p[k].used <= p[k].reserved
      <4> SUFFICES ASSUME NEW k \in 1..Len(p) PROVE p[k].used <= p[k].reserved
        OBVIOUS
      <4>1. CASE k \in 1..(a - 1)
        BY <4>1, <1>3, <2>1, <2>b
      <4>2. CASE k \in (a + 1)..Len(p)
        BY <4>2, <1>4, <2>1
      <4> QED
        BY <4>1, <4>2, <2>4, <2>a
    <3> QED
      BY <3>1, <2>1 DEF Holdp
  <2>6. Position(p, a)
    <3>1. ASSUME NEW k \in 1..Len(p) PROVE (k < a => p[k].used = p[k].reserved) /\ (k > a => p[k].used = 0)
      <4>1. k < a => k \in 1..(a - 1) /\ k \in 1..Len(q)
        BY <1>1
      <4>2. k > a => k \in (a + 1)..Len(p)
        BY <1>1, <2>a
      <4> QED
        BY <4>1, <4>2, <1>2, <2>1
    <3> QED
      BY <3>1, <2>1 DEF Position
  <2>7. Before(p, a) = Before(q, a)
    <3>1. \A k \in 1..(a - 1) : p[k].used = q[k].used
      BY <2>1
    <3>2. a \in Nat \ {0} /\ a <= Len(q) + 1 /\ a <= Len(p) + 1
      BY <1>1, <2>1, <2>a
    <3> QED
      BY <1>1, <2>1, <3>1, <3>2, BeforeSame
  <2> QED
    BY <1>3, <2>1, <2>2, <2>5, <2>6, <2>7
<1>6. CASE ~Merges(q, new)
  <2>1. /\ a + 1 \in 1..Len(p) /\ p \in Seq(HdEntry)
        /\ \A k \in 1..a : p[k] = q[k]
        /\ \A k \in (a + 1)..Len(p) : p[k].used = 0
        /\ \A h : OnDisk(p, "reserved", h) = OnDisk(q, "reserved", h) + OnDisk(new, "reserved", h)
    BY <1>1, <1>2, <1>6, AssignAfter
  <2>2. b = a + 1
    BY <1>2, <1>6 DEF AssignActive
  <2>a. Len(p) \in Nat /\ \A k \in 1..Len(p) : k \in 1..a \/ k \in (a + 1)..Len(p)
    BY <1>1, <2>1
  <2>5. Holdp(p)
    <3>1. \A k \in 1..Len(p) : p[k].used <= p[k].reserved
      <4> SUFFICES ASSUME NEW k \in 1..Len(p) PROVE p[k].used <= p[k].reserved
        OBVIOUS
      <4>1. CASE k \in 1..a
        BY <4>1, <1>2, <1>3, <2>1
      <4>2. CASE k \in (a + 1)..Len(p)
        BY <4>2, <1>4, <2>1
      <4> QED
        BY <4>1, <4>2, <2>a
    <3> QED
      BY <3>1, <2>1 DEF Holdp
  <2>6. Position(p, a + 1)
    <3>1. ASSUME NEW k \in 1..Len(p)
          PROVE  (k < a + 1 => p[k].used = p[k].reserved) /\ (k > a + 1 => p[k].used = 0)
      <4>1. k < a + 1 => k \in 1..a
        BY <1>1
      <4>2. k > a + 1 => k \in (a + 1)..Len(p)
        BY <1>1, <2>a
      <4> QED
        BY <4>1, <4>2, <1>2, <2>1
    <3> QED
      BY <3>1, <2>1 DEF Position
  <2>7. Before(p, a) = Before(q, a)
    <3>1. \A k \in 1..(a - 1) : p[k].used = q[k].used
      <4>1. \A k \in 1..(a - 1) : k \in 1..a
        BY <1>1
      <4> QED
        BY <4>1, <2>1
    <3>2. a \in Nat \ {0} /\ a <= Len(q) + 1 /\ a <= Len(p) + 1
      BY <1>1, <2>1, <2>a
    <3> QED
      BY <1>1, <2>1, <3>1, <3>2, BeforeSame
  <2>8. Before(p, a + 1) = w
    <3>1. a \in 1..Len(p) /\ p[a] = q[a]
      BY <1>1, <2>1, <2>a
    <3>2. Before(p, a + 1) = Before(p, a) + p[a].used
      BY <2>1, <3>1, BeforeNext
    <3> QED
      BY <2>7, <3>1, <3>2
  <2>9. p[a + 1].used = 0
    <3>1. a + 1 \in (a + 1)..Len(p)
      BY <2>1, <2>a
    <3> QED
      BY <2>1, <3>1
  <2>10. w = Before(p, a + 1) + p[a + 1].used
    BY <1>3, <2>8, <2>9
  <2> QED
    BY <1>3, <2>1, <2>2, <2>5, <2>6, <2>10
<1> QED
  BY <1>5, <1>6

\* A dump whose files have the size reserved for them
LEMMA SettledOnDisk ==
    ASSUME NEW q, Holdp(q), Settled(q), NEW h
    PROVE  OnDisk(q, "used", h) = OnDisk(q, "reserved", h) /\ OnDisk(q, "reserved", h) \in Nat
<1>1. q \in Seq(HdEntry)
  BY DEF Holdp
<1>2. OnDisk(q, "used", h) = OnDisk(q, "reserved", h)
  BY <1>1, OnDiskSettled DEF Settled
<1>3. "reserved" \in Amount
  BY DEF Amount
<1>4. OnDisk(q, "reserved", h) \in Nat
  BY <1>1, <1>3, OnDiskIs
<1> QED
  BY <1>2, <1>4

\* The entry after entry a was given its final size v
Sized(q, a, v) == [q EXCEPT ![a].used = v]

LEMMA SizedEntry ==
    ASSUME NEW q \in Seq(HdEntry), NEW a \in 1..Len(q), NEW v \in Nat
    PROVE  \E p : /\ p = Sized(q, a, v)
                  /\ p \in Seq(HdEntry) /\ Len(p) = Len(q)
                  /\ \A j \in 1..Len(q) : j # a => p[j] = q[j]
                  /\ p[a].disk = q[a].disk /\ p[a].used = v /\ p[a].reserved = q[a].reserved
<1> DEFINE e == [q[a] EXCEPT !.used = v]
           p == [q EXCEPT ![a] = e]
<1>1. q[a] \in HdEntry
  OBVIOUS
<1>2. e \in HdEntry /\ e.disk = q[a].disk /\ e.used = v /\ e.reserved = q[a].reserved
  BY <1>1, EntryWith
<1>3. p = Sized(q, a, v)
  BY DEF Sized
<1> HIDE DEF e
<1>4. /\ p \in Seq(HdEntry) /\ Len(p) = Len(q) /\ p[a] = e
      /\ \A j \in 1..Len(q) : j # a => p[j] = q[j]
  BY <1>2
<1> HIDE DEF p
<1> QED
  BY <1>2, <1>3, <1>4

\* adjust_diskspace reserves what is used.
LEMMA AdjustHoldpIs ==
    ASSUME NEW p \in Seq(HdEntry)
    PROVE  \E r : /\ r = AdjustHoldp(p) /\ r \in Seq(HdEntry) /\ Len(r) = Len(p)
                  /\ \A k \in 1..Len(p) : /\ r[k].disk = p[k].disk /\ r[k].used = p[k].used
                                          /\ r[k].reserved = p[k].used
<1> DEFINE r == [k \in 1..Len(p) |-> [p[k] EXCEPT !.reserved = p[k].used]]
<1>1. r = AdjustHoldp(p)
  BY DEF AdjustHoldp
<1>2. ASSUME NEW k \in 1..Len(p)
      PROVE  /\ r[k] \in HdEntry /\ r[k].disk = p[k].disk /\ r[k].used = p[k].used
             /\ r[k].reserved = p[k].used
  <2>1. p[k] \in HdEntry
    OBVIOUS
  <2>2. p[k].used \in Nat
    BY <2>1 DEF HdEntry
  <2>3. r[k] = [p[k] EXCEPT !.reserved = p[k].used]
    OBVIOUS
  <2>4. LET y == [p[k] EXCEPT !.reserved = p[k].used]
        IN  y \in HdEntry /\ y.disk = p[k].disk /\ y.used = p[k].used /\ y.reserved = p[k].used
    BY <2>1, <2>2, EntryWith
  <2> QED
    BY <2>3, <2>4, Zenon
<1>3. r \in [1..Len(p) -> HdEntry] /\ Len(p) \in Nat
  BY <1>2
<1>4. r \in Seq(HdEntry) /\ Len(r) = Len(p)
  BY <1>3
<1> HIDE DEF r
<1> QED
  BY <1>1, <1>2, <1>4

\* The end of a dump: entry a gets the size of its file, and the space that was
\* not used is given back.
LEMMA FinishWork ==
    ASSUME NEW q, Holdp(q), NEW a, NEW ch, AtWork(q, a, ch)
    PROVE  \E p, r :
              /\ p = Sized(q, a, ch.wrote - Before(q, a)) /\ r = AdjustHoldp(p)
              /\ p \in Seq(HdEntry) /\ a \in 1..Len(p) /\ p[a].disk = q[a].disk /\ q[a].disk \in Hdisks
              /\ Holdp(r) /\ Settled(r)
              /\ \A h : /\ OnDisk(r, "reserved", h) = OnDisk(p, "used", h)
                        /\ OnDisk(p, "reserved", h) = OnDisk(q, "reserved", h)
                        /\ OnDisk(p, "used", h) \in Nat /\ OnDisk(p, "reserved", h) \in Nat
                        /\ OnDisk(p, "used", h) <= OnDisk(p, "reserved", h)
<1>1. /\ Position(q, a) /\ ch.wrote \in Nat /\ ch.use \in Nat
      /\ Before(q, a) + q[a].used <= ch.wrote
      /\ ch.wrote + ch.use <= Before(q, a) + q[a].reserved
  BY DEF AtWork
<1>2. /\ q \in Seq(HdEntry) /\ Len(q) \in Nat /\ a \in 1..Len(q) /\ a \in Nat /\ a >= 1
      /\ q[a] \in HdEntry /\ q[a].disk \in Hdisks
      /\ q[a].used \in Nat /\ q[a].reserved \in Nat /\ q[a].used <= q[a].reserved
      /\ Before(q, a) \in Nat
  BY <1>1, EntryOf
<1>3. PICK v : v = ch.wrote - Before(q, a)
  OBVIOUS
<1>4. v \in Nat /\ v <= q[a].reserved
  <2>1. \E w, u, b : w = ch.wrote /\ u = ch.use /\ b = Before(q, a)
    OBVIOUS
  <2>2. PICK w, u, b : w = ch.wrote /\ u = ch.use /\ b = Before(q, a)
    BY <2>1
  <2>3. PICK x, y : x = q[a].used /\ y = q[a].reserved
    OBVIOUS
  <2>4. /\ w \in Nat /\ u \in Nat /\ b \in Nat /\ x \in Nat /\ y \in Nat
        /\ b + x <= w /\ w + u <= b + y /\ v = w - b
    BY <1>1, <1>2, <1>3, <2>2, <2>3
  <2>5. v \in Nat /\ v <= y
    BY <2>4
  <2> QED
    BY <2>3, <2>5
<1>5. PICK p : /\ p = Sized(q, a, v)
               /\ p \in Seq(HdEntry) /\ Len(p) = Len(q)
               /\ \A j \in 1..Len(q) : j # a => p[j] = q[j]
               /\ p[a].disk = q[a].disk /\ p[a].used = v /\ p[a].reserved = q[a].reserved
  BY <1>2, <1>4, SizedEntry, Zenon
<1>6. PICK r : /\ r = AdjustHoldp(p) /\ r \in Seq(HdEntry) /\ Len(r) = Len(p)
               /\ \A k \in 1..Len(p) : /\ r[k].disk = p[k].disk /\ r[k].used = p[k].used
                                       /\ r[k].reserved = p[k].used
  BY <1>5, AdjustHoldpIs
<1>7. \A k \in 1..Len(p) : p[k].used <= p[k].reserved
  BY <1>2, <1>4, <1>5 DEF Holdp
<1>8. ASSUME NEW k \in 1..Len(r)
      PROVE  r[k].used = r[k].reserved /\ r[k].used \in Nat
  <2>1. r[k] \in HdEntry
    BY <1>6
  <2> QED
    BY <1>6, <2>1 DEF HdEntry
<1>9. Holdp(r) /\ Settled(r)
  BY <1>6, <1>8 DEF Holdp, Settled
<1>10. "used" \in Amount /\ "reserved" \in Amount
  BY DEF Amount
<1>11. ASSUME NEW h
       PROVE  /\ OnDisk(r, "reserved", h) = OnDisk(p, "used", h)
              /\ OnDisk(p, "reserved", h) = OnDisk(q, "reserved", h)
              /\ OnDisk(p, "used", h) \in Nat /\ OnDisk(p, "reserved", h) \in Nat
              /\ OnDisk(p, "used", h) <= OnDisk(p, "reserved", h)
  <2>1. OnDisk(p, "used", h) = OnDisk(r, "reserved", h)
    BY <1>5, <1>6, OnDiskSettled
  <2>2. OnDisk(p, "used", h) \in Nat /\ OnDisk(p, "reserved", h) \in Nat
      /\ OnDisk(q, "reserved", h) \in Nat
    BY <1>2, <1>5, <1>10, OnDiskIs
  <2>3. OnDisk(p, "used", h) <= OnDisk(p, "reserved", h)
    BY <1>5, <1>7, OnDiskLeq
  <2>4. OnDisk(p, "reserved", h) = OnDisk(q, "reserved", h) - On(q[a], "reserved", h) + On(p[a], "reserved", h)
    <3>1. p \in Seq(HdEntry) /\ Len(p) = Len(q) /\ \A j \in 1..Len(q) : j # a => p[j] = q[j]
      BY <1>5
    <3>2. q \in Seq(HdEntry) /\ a \in 1..Len(q) /\ "reserved" \in Amount
      BY <1>2, <1>10
    <3> QED
      BY <3>1, <3>2, OnDiskChange
  <2>5. On(q[a], "reserved", h) = On(p[a], "reserved", h)
    BY <1>5 DEF On
  <2>6. On(q[a], "reserved", h) \in Nat
    BY <1>2, <1>10, OnNat
  <2>7. OnDisk(p, "reserved", h) = OnDisk(q, "reserved", h)
    BY <2>2, <2>4, <2>5, <2>6
  <2> QED
    BY <2>1, <2>2, <2>3, <2>7
<1>12. p = Sized(q, a, ch.wrote - Before(q, a))
  BY <1>3, <1>5
<1>13. p \in Seq(HdEntry) /\ a \in 1..Len(p) /\ p[a].disk = q[a].disk /\ q[a].disk \in Hdisks
  BY <1>2, <1>5
<1>14. r = AdjustHoldp(p)
  BY <1>6
<1> WITNESS p, r
<1> QED
  BY <1>14, <1>9, <1>11, <1>12, <1>13, Zenon

-----------------------------------------------------------------------------
(* find_diskspace.                                                         *)

\* The accounts of the holding disks are numbers.
Accounts(ha) ==
    /\ DOMAIN ha = Hdisks
    /\ \A h \in Hdisks : /\ DOMAIN ha[h] = {"disksize", "allocated_space", "allocated_dumpers"}
                         /\ ha[h].disksize \in Int /\ ha[h].allocated_space \in Int
                         /\ ha[h].allocated_dumpers \in Int

LEMMA HdisksAre ==
    /\ IsFiniteSet(Hdisks) /\ Hdisks = 1..Len(DiskSize) /\ Len(DiskSize) \in Nat
    /\ \A h \in Hdisks : h \in Nat /\ ChunkSize[h] \in Nat \ {0}
<1>1. DiskSize \in Seq(Nat) /\ ChunkSize \in [Hdisks -> Nat \ {0, 1}]
  BY HoldingAssumption
<1>2. Hdisks = 1..Len(DiskSize) /\ Len(DiskSize) \in Nat
  BY <1>1 DEF Hdisks
<1>3. IsFiniteSet(Hdisks)
  BY <1>2, FS_Interval
<1> QED
  BY <1>1, <1>2, <1>3

\* Among the holding disks with room one is preferred to all.
LEMMA PreferredExists ==
    ASSUME NEW ha, Accounts(ha), NEW A \in SUBSET Hdisks, A # {}
    PROVE  \E h \in A : \A g \in A : Preferred(ha, h, g)
<1> DEFINE Best(B) == \E h \in B : \A g \in B : Preferred(ha, h, g)
           U == {B \in SUBSET Hdisks : B = {} \/ Best(B)}
<1>0. \A h \in Hdisks : h \in Nat /\ Free(ha, h) \in Int /\ ha[h].allocated_dumpers \in Int
  BY HdisksAre DEF Accounts, Free
<1>1. \A x, y \in Hdisks : Preferred(ha, x, x) /\ (Preferred(ha, x, y) \/ Preferred(ha, y, x))
  BY <1>0 DEF Preferred
<1>2. \A x, y, z \in Hdisks : Preferred(ha, x, y) /\ Preferred(ha, y, z) => Preferred(ha, x, z)
  BY <1>0 DEF Preferred
<1>3. ASSUME NEW B \in SUBSET Hdisks, B # {}, \A x \in B : B \ {x} \in U PROVE B \in U
  <2>1. PICK x : x \in B
    BY <1>3
  <2>2. CASE B \ {x} = {}
    BY <2>1, <2>2, <1>1
  <2>3. CASE B \ {x} # {}
    <3>1. PICK y \in B \ {x} : \A g \in B \ {x} : Preferred(ha, y, g)
      BY <1>3, <2>1, <2>3
    <3>2. CASE Preferred(ha, x, y)
      <4>1. \A g \in B : Preferred(ha, x, g)
        BY <1>1, <1>2, <2>1, <3>1, <3>2
      <4> QED
        BY <2>1, <4>1
    <3>3. CASE Preferred(ha, y, x)
      <4>1. \A g \in B : Preferred(ha, y, g)
        BY <3>1, <3>3
      <4> QED
        BY <3>1, <4>1
    <3> QED
      BY <1>1, <2>1, <3>1, <3>2, <3>3
  <2> QED
    BY <2>2, <2>3
<1> HIDE DEF U
<1>4. {} \in U
  BY DEF U
<1>5. IsFiniteSet(Hdisks)
  BY HdisksAre
<1>6. \A B \in SUBSET Hdisks : B \in U
  BY <1>3, <1>4, <1>5, SetInduction
<1> QED
  BY <1>6 DEF U

\* The holding disk of the next round has room and was not taken.
LEMMA MinPIs ==
    ASSUME NEW ha, Accounts(ha), NEW taken, NEW pref
    PROVE  \/ MinP(ha, taken, pref) = NoDisk
           \/ MinP(ha, taken, pref) \in Hdisks \ taken /\ Free(ha, MinP(ha, taken, pref)) >= 1
<1> DEFINE fit == {h \in Hdisks \ taken : Free(ha, h) >= 2}
<1>1. CASE pref \in Hdisks \ taken /\ Free(ha, pref) >= 1
  <2>1. MinP(ha, taken, pref) = pref
    BY <1>1 DEF MinP
  <2> QED
    BY <1>1, <2>1
<1>2. CASE ~(pref \in Hdisks \ taken /\ Free(ha, pref) >= 1) /\ fit = {}
  BY <1>2 DEF MinP
<1>3. CASE ~(pref \in Hdisks \ taken /\ Free(ha, pref) >= 1) /\ fit # {}
  <2>1. fit \in SUBSET Hdisks
    OBVIOUS
  <2>2. MinP(ha, taken, pref) = CHOOSE h \in fit : \A g \in fit : Preferred(ha, h, g)
    BY <1>3, Zenon DEF MinP
  <2>3. \A h \in fit : h \in Hdisks \ taken /\ Free(ha, h) >= 2 /\ Free(ha, h) \in Int
    BY DEF Accounts, Free
  <2> HIDE DEF fit
  <2>4. \E h \in fit : \A g \in fit : Preferred(ha, h, g)
    BY <1>3, <2>1, PreferredExists
  <2>5. MinP(ha, taken, pref) \in fit
    BY <2>2, <2>4
  <2> QED
    BY <2>3, <2>5
<1> QED
  BY <1>1, <1>2, <1>3

\* A round takes no more than the holding disk has, headers included.
LEMMA TakeIs ==
    ASSUME NEW ha, Accounts(ha), NEW h \in Hdisks, Free(ha, h) >= 1, NEW size \in Nat
    PROVE  LET t == Take1(ha, h, size)
           IN  /\ t.data \in 0..size /\ t.hd \in HdEntry /\ t.hd.disk = h /\ t.hd.used = 0
               /\ t.hd.reserved <= Free(ha, h)
<1>1. PICK f, c, u, v : /\ f = Free(ha, h) /\ c = ChunkSize[h] /\ u = Usable(ha, h)
                        /\ v = IF u < size THEN u ELSE size
  OBVIOUS
<1>2. f \in Nat /\ f >= 1 /\ c \in Nat \ {0}
  BY <1>1, HdisksAre DEF Accounts, Free
<1>3. u = f - (((f - 1) \div c) + 1)
  BY <1>1, <1>2 DEF Usable, Headers
<1>4. (f - 1) \div c \in Nat /\ (f - 1) \div c <= f - 1
  BY <1>2
<1>5. u \in Nat /\ v \in Nat /\ v <= u /\ v <= size
  BY <1>1, <1>3, <1>4, <1>2
<1>6. Headers(h, v) \in Nat /\ v + Headers(h, v) <= f
  <2>1. CASE v = 0
    BY <2>1, <1>2 DEF Headers
  <2>2. CASE v # 0
    <3>1. v - 1 \in Nat /\ f - 1 \in Nat /\ v - 1 <= f - 1
      BY <2>2, <1>2, <1>3, <1>4, <1>5
    <3>2. (v - 1) \div c \in Nat /\ (v - 1) \div c <= (f - 1) \div c
      BY <3>1, <1>2
    <3>3. Headers(h, v) = ((v - 1) \div c) + 1
      BY <2>2, <1>1 DEF Headers
    <3> QED
      BY <3>2, <3>3, <1>2, <1>3, <1>4, <1>5
  <2> QED
    BY <2>1, <2>2
<1>7. Take1(ha, h, size) = Entry(h, v)
  BY <1>1 DEF Take1
<1>8. v + Headers(h, v) \in Nat
  BY <1>5, <1>6
<1>9. LET t == Entry(h, v)
      IN  /\ t.data = v /\ t.hd \in HdEntry /\ t.hd.disk = h /\ t.hd.used = 0
          /\ t.hd.reserved = v + Headers(h, v)
  BY <1>8 DEF Entry, HdEntry
<1> QED
  BY <1>1, <1>5, <1>6, <1>7, <1>9, <1>2

\* find_diskspace is a loop: one Round for each holding disk.
LEMMA RoundRounds ==
    ASSUME NEW r
    PROVE  \E f : /\ f[0] = r
                  /\ \A n \in Hdisks : f[n] = Round(f[n - 1], n)
                  /\ FoldLeft(Round, r, [n \in Hdisks |-> n]) = f[Len(DiskSize)]
<1> DEFINE q == [n \in Hdisks |-> n]
<1>0. Hdisks = 1..Len(DiskSize) /\ Len(DiskSize) \in Nat
  BY HdisksAre
<1>1. q \in Seq(Nat) /\ Len(q) = Len(DiskSize) /\ DOMAIN q = 1..Len(q) /\ DOMAIN q = Hdisks /\ \A n \in Hdisks : q[n] = n
  <2>1. q = [n \in 1..Len(DiskSize) |-> n]
    BY <1>0
  <2> QED
    BY <1>0, <2>1
<1> HIDE DEF q
<1>2. FoldLeft(Round, r, q) = RoundLoop!Folded(r, q)
  BY <1>1, Zenon DEF FoldLeft, MapThenFoldSet, Max, RoundLoop!Biggest,
     RoundLoop!Iterates, RoundLoop!Folded
<1>3. \E f : /\ f[0] = r
             /\ \A n \in 1..Len(q) : f[n] = Round(f[n - 1], q[n])
             /\ RoundLoop!Folded(r, q) = f[Len(q)]
  BY <1>1, RoundLoop!FoldRounds
<1>4. \E f : /\ f[0] = r
             /\ \A n \in Hdisks : f[n] = Round(f[n - 1], n)
             /\ RoundLoop!Folded(r, q) = f[Len(DiskSize)]
  BY <1>1, <1>3
<1> QED
  BY <1>2, <1>4 DEF q

\* The locals of find_diskspace: what was found on a holding disk it has.
Finding(ha, r) ==
    /\ DOMAIN r = {"ha", "pref", "taken", "result", "left"}
    /\ r.ha = ha /\ r.left \in Nat /\ Fresh(r.result)
    /\ \A h \in Hdisks : IF h \in r.taken THEN OnDisk(r.result, "reserved", h) <= Free(ha, h)
                         ELSE OnDisk(r.result, "reserved", h) = 0

LEMMA RoundFinds ==
    ASSUME NEW ha, Accounts(ha), NEW r, Finding(ha, r), NEW n
    PROVE  Finding(ha, Round(r, n))
<1>1. PICK h : h = MinP(r.ha, r.taken, IF n = 1 THEN r.pref ELSE NoDisk)
  OBVIOUS
<1>2. Round(r, n) = IF r.left = 0 \/ h = NoDisk THEN r ELSE Found(r, h, Take1(r.ha, h, r.left))
  BY <1>1, Zenon DEF Round
<1>3. SUFFICES ASSUME h # NoDisk PROVE Finding(ha, Found(r, h, Take1(r.ha, h, r.left)))
  BY <1>2
<1>4. r.ha = ha /\ r.left \in Nat /\ r.result \in Seq(HdEntry) /\ DOMAIN r = {"ha", "pref", "taken", "result", "left"}
  BY DEF Finding, Fresh
<1>5. h \in Hdisks /\ h \notin r.taken /\ Free(ha, h) >= 1
  BY <1>1, <1>3, <1>4, MinPIs
<1>6. PICK t : t = Take1(ha, h, r.left)
  OBVIOUS
<1>7. /\ t.data \in 0..r.left /\ t.hd \in HdEntry /\ t.hd.disk = h /\ t.hd.used = 0
      /\ t.hd.reserved <= Free(ha, h)
  BY <1>4, <1>5, <1>6, TakeIs
<1>8. PICK u : u = Found(r, h, t)
  OBVIOUS
<1>9. /\ DOMAIN u = {"ha", "pref", "taken", "result", "left"} /\ u.ha = ha
      /\ u.left = r.left - t.data /\ u.taken = r.taken \cup {h} /\ u.result = Append(r.result, t.hd)
  BY <1>4, <1>8 DEF Found
<1>10. u.left \in Nat
  BY <1>4, <1>7, <1>9
<1>11. Fresh(u.result)
  <2>1. \A k \in 1..Len(r.result) : r.result[k].used = 0
    BY DEF Finding, Fresh
  <2> QED
    BY <1>4, <1>7, <1>9, <2>1 DEF Fresh
<1>12. u.result = r.result \o <<t.hd>> /\ <<t.hd>> \in Seq(HdEntry)
  BY <1>4, <1>7, <1>9
<1>13. "reserved" \in Amount
  BY DEF Amount
<1>14. ASSUME NEW g \in Hdisks
       PROVE  IF g \in u.taken THEN OnDisk(u.result, "reserved", g) <= Free(ha, g)
              ELSE OnDisk(u.result, "reserved", g) = 0
  <2>1. OnDisk(u.result, "reserved", g) = OnDisk(r.result, "reserved", g) + OnDisk(<<t.hd>>, "reserved", g)
    <3>1. r.result \in Seq(HdEntry) /\ <<t.hd>> \in Seq(HdEntry)
      BY <1>4, <1>12
    <3>2. OnDisk(r.result \o <<t.hd>>, "reserved", g) = OnDisk(r.result, "reserved", g) + OnDisk(<<t.hd>>, "reserved", g)
      BY <3>1, <1>13, OnDiskConcat
    <3> QED
      BY <3>2, <1>12, Zenon
  <2>2. OnDisk(<<t.hd>>, "reserved", g) = IF g = h THEN t.hd.reserved ELSE 0
    <3>1. OnDisk(<<t.hd>>, "reserved", g) = On(t.hd, "reserved", g)
      BY <1>7, <1>13, OnDiskOne
    <3> QED
      BY <3>1, <1>7 DEF On
  <2>3. OnDisk(r.result, "reserved", g) \in Nat /\ t.hd.reserved \in Nat
    <3>1. OnDisk(r.result, "reserved", g) \in Nat
      BY <1>4, <1>13, OnDiskIs
    <3> QED
      BY <1>7, <3>1 DEF HdEntry
  <2>4. IF g \in r.taken THEN OnDisk(r.result, "reserved", g) <= Free(ha, g)
        ELSE OnDisk(r.result, "reserved", g) = 0
    BY DEF Finding
  <2>5. Free(ha, g) \in Int
    BY DEF Accounts, Free
  <2> QED
    BY <2>1, <2>2, <2>3, <2>4, <2>5, <1>5, <1>7, <1>9
<1>15. Finding(ha, u)
  BY <1>9, <1>10, <1>11, <1>14 DEF Finding
<1> QED
  BY <1>4, <1>6, <1>8, <1>15

\* find_diskspace promises on each holding disk what is free there.
THEOREM FindDiskspaceIs ==
    ASSUME NEW ha, Accounts(ha), NEW want \in Int, NEW pref
    PROVE  /\ Fresh(FindDiskspace(ha, want, pref))
           /\ \A h \in Hdisks :
                 LET n == OnDisk(FindDiskspace(ha, want, pref), "reserved", h)
                 IN  n \in Nat /\ (n = 0 \/ n <= Free(ha, h))
<1> DEFINE r == [ha |-> ha, pref |-> pref, taken |-> {}, result |-> <<>>,
                 left |-> IF want < 2 THEN 2 ELSE want]
           N == Len(DiskSize)
<1>0. Hdisks = 1..N /\ N \in Nat
  BY HdisksAre
<1>1. PICK f : /\ f[0] = r
               /\ \A n \in Hdisks : f[n] = Round(f[n - 1], n)
               /\ FoldLeft(Round, r, [n \in Hdisks |-> n]) = f[N]
  BY RoundRounds, Zenon
<1>2. FindDiskspace(ha, want, pref) = Enough(f[N])
  BY <1>1, Zenon DEF FindDiskspace
<1>3. Finding(ha, r)
  <2>1. Fresh(<<>>) /\ \A h : OnDisk(<<>>, "reserved", h) = 0
    BY OnDiskEmpty DEF Fresh
  <2>2. /\ DOMAIN r = {"ha", "pref", "taken", "result", "left"} /\ r.ha = ha /\ r.left \in Nat
        /\ r.result = <<>> /\ r.taken = {}
    OBVIOUS
  <2> HIDE DEF r
  <2> QED
    BY <2>1, <2>2 DEF Finding
<1> HIDE DEF r
<1> DEFINE T == {k \in 0..N : Finding(ha, f[k])}
<1>4. 0 \in T
  BY <1>0, <1>1, <1>3
<1>5. ASSUME NEW k \in 0..(N - 1), k \in T PROVE k + 1 \in T
  <2>1. k + 1 \in Hdisks /\ (k + 1) - 1 = k /\ k + 1 \in 0..N
    BY <1>0
  <2>2. f[k + 1] = Round(f[k], k + 1)
    BY <1>1, <2>1
  <2>3. Finding(ha, f[k])
    BY <1>5
  <2> QED
    BY <2>1, <2>2, <2>3, RoundFinds
<1> HIDE DEF T
<1>6. \A k \in 0..N : k \in T
  BY <1>0, <1>4, <1>5, RoundLoop!UpTo
<1>7. Finding(ha, f[N])
  BY <1>0, <1>6 DEF T
<1>8. Fresh(Enough(f[N])) /\ \A h \in Hdisks : OnDisk(Enough(f[N]), "reserved", h) = 0 \/ OnDisk(Enough(f[N]), "reserved", h) <= Free(ha, h)
  <2>1. CASE f[N].left = 0
    BY <1>7, <2>1 DEF Enough, Finding
  <2>2. CASE f[N].left # 0
    <3>1. Enough(f[N]) = <<>>
      BY <2>2 DEF Enough
    <3>2. Fresh(<<>>)
      BY DEF Fresh
    <3> QED
      BY <3>1, <3>2, OnDiskEmpty
  <2> QED
    BY <2>1, <2>2
<1>9. "reserved" \in Amount
  BY DEF Amount
<1>10. \A h \in Hdisks : OnDisk(Enough(f[N]), "reserved", h) \in Nat
  BY <1>8, <1>9, OnDiskIs DEF Fresh
<1> QED
  BY <1>2, <1>8, <1>10
=============================================================================
