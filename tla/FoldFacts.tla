----------------------------- MODULE FoldFacts ------------------------------
(***************************************************************************)
(* What FoldLeft of the community modules computes, for an operator op:    *)
(* the loops of the driver are folds, and are reasoned about through the   *)
(* values that the loop has after each of its rounds.  The module is       *)
(* instantiated with the operator of each loop.                            *)
(***************************************************************************)
EXTENDS Integers, Sequences, TLAPS, WellFoundedInduction

CONSTANT op(_, _)

\* The greatest element of s, as FoldLeft chooses it.
Biggest(s) == CHOOSE x \in s : \A y \in s : x >= y

\* g is the function of sets of positions by which the fold is defined.
Iterates(base, q, n, g) ==
    g = [s \in SUBSET (1..n) |->
            IF s = {} THEN base ELSE op(g[s \ {Biggest(s)}], q[Biggest(s)])]

\* the fold, with its definition expanded
Folded(base, q) == (CHOOSE g : Iterates(base, q, Len(q), g))[1..Len(q)]

\* A nonempty set of natural numbers has a least element: induction without an
\* operator as a parameter.
LEMMA LeastNat ==
    ASSUME NEW T \in SUBSET Nat, T # {}
    PROVE  \E x \in T : \A y \in T : x <= y
<1> DEFINE R == {ss \in Nat \X Nat : ss[1] < ss[2]}
<1>1. IsWellFoundedOn(R, Nat)
  BY NatLessThanWellFounded, Zenon DEF OpToRel
<1>2. \A x, y \in Nat : y < x => <<y, x>> \in R
  OBVIOUS
<1> HIDE DEF R
<1>3. PICK x \in T : \A y \in T : ~(<<y, x>> \in R)
  BY <1>1, WFMin
<1>4. \A y \in T : ~(y < x)
  BY <1>3, <1>2
<1> QED
  BY <1>4

\* A set that holds 0, and the successor of each of its elements below n, holds
\* the numbers up to n.
LEMMA UpTo ==
    ASSUME NEW n \in Nat, NEW T, 0 \in T,
           \A k \in 0..(n - 1) : k \in T => k + 1 \in T
    PROVE  \A k \in 0..n : k \in T
<1> SUFFICES ASSUME (0..n) \ T # {} PROVE FALSE
  OBVIOUS
<1> DEFINE U == (0..n) \ T
<1>1. U \in SUBSET Nat /\ U # {}
  OBVIOUS
<1> HIDE DEF U
<1>2. PICK x \in U : \A y \in U : x <= y
  BY <1>1, LeastNat
<1>3. x \in 0..n /\ x \notin T /\ x # 0
  BY <1>2 DEF U
<1>4. x - 1 \in 0..(n - 1) /\ x - 1 \notin U
  BY <1>2, <1>3
<1>5. x - 1 \in T
  BY <1>4 DEF U
<1>6. (x - 1) + 1 \in T
  BY <1>4, <1>5
<1> QED
  BY <1>3, <1>6

LEMMA BiggestIs ==
    ASSUME NEW k \in Nat, NEW s \in SUBSET (1..k), k \in s
    PROVE  Biggest(s) = k
<1>1. \A y \in s : k >= y
  OBVIOUS
<1>2. \A x \in s : (\A y \in s : x >= y) => x = k
  OBVIOUS
<1> QED
  BY <1>1, <1>2, Zenon DEF Biggest

LEMMA IterateMore ==
    ASSUME NEW base, NEW q, NEW n \in Nat, NEW g, Iterates(base, q, n, g)
    PROVE  \E h : Iterates(base, q, n + 1, h)
<1> DEFINE h == [s \in SUBSET (1..(n + 1)) |->
                    IF n + 1 \notin s THEN g[s] ELSE op(g[s \ {n + 1}], q[n + 1])]
           val(f, s) == IF s = {} THEN base ELSE op(f[s \ {Biggest(s)}], q[Biggest(s)])
<1>1. \A s \in SUBSET (1..n) : g[s] = val(g, s)
  BY Zenon DEF Iterates
<1>2. ASSUME NEW s \in SUBSET (1..(n + 1)) PROVE h[s] = val(h, s)
  <2>1. CASE n + 1 \notin s
    <3>0. \A x \in 1..(n + 1) : x # n + 1 => x \in 1..n
      OBVIOUS
    <3>1. s \in SUBSET (1..n) /\ s \ {Biggest(s)} \in SUBSET (1..n)
      BY <2>1, <3>0, Zenon
    <3>2. s \ {Biggest(s)} \in SUBSET (1..(n + 1)) /\ n + 1 \notin s \ {Biggest(s)}
      BY <2>1
    <3>3. h[s \ {Biggest(s)}] = g[s \ {Biggest(s)}] /\ h[s] = g[s]
      BY <3>2, <2>1, Zenon
    <3> QED
      BY <3>1, <3>3, <1>1, Zenon
  <2>2. CASE n + 1 \in s
    <3>1. Biggest(s) = n + 1
      BY <2>2, BiggestIs
    <3>2. s \ {n + 1} \in SUBSET (1..(n + 1)) /\ n + 1 \notin s \ {n + 1}
      OBVIOUS
    <3>3. h[s \ {n + 1}] = g[s \ {n + 1}] /\ h[s] = op(g[s \ {n + 1}], q[n + 1])
      BY <3>2, <2>2, Zenon
    <3> QED
      BY <3>1, <3>3, <2>2, Zenon
  <2> QED
    BY <2>1, <2>2
<1>3. h = [s \in SUBSET (1..(n + 1)) |-> val(h, s)]
  <2>1. \A s \in SUBSET (1..(n + 1)) :
          (IF n + 1 \notin s THEN g[s] ELSE op(g[s \ {n + 1}], q[n + 1])) = val(h, s)
    BY <1>2, Zenon
  <2> HIDE DEF val
  <2> QED
    BY <2>1, Zenon
<1>4. Iterates(base, q, n + 1, h)
  BY <1>3, Zenon DEF Iterates
<1> QED
  BY <1>4, Zenon

\* The loop: round n is op of the value after round n - 1 and of the element n.
LEMMA FoldRounds ==
    ASSUME NEW base, NEW S, NEW q \in Seq(S)
    PROVE  \E f : /\ f[0] = base
                  /\ \A n \in 1..Len(q) : f[n] = op(f[n - 1], q[n])
                  /\ Folded(base, q) = f[Len(q)]
<1>0. Len(q) \in Nat
  OBVIOUS
<1>1. \E g : Iterates(base, q, Len(q), g)
  <2> DEFINE T == {k \in Nat : \E g : Iterates(base, q, k, g)}
  <2>1. 0 \in T
    <3> DEFINE g0 == [s \in SUBSET (1..0) |-> base]
    <3>1. \A s \in SUBSET (1..0) : s = {}
      OBVIOUS
    <3>2. g0 = [s \in SUBSET (1..0) |->
                  IF s = {} THEN base ELSE op(g0[s \ {Biggest(s)}], q[Biggest(s)])]
      BY <3>1, Zenon
    <3>3. Iterates(base, q, 0, g0)
      BY <3>2, Zenon DEF Iterates
    <3> QED
      BY <3>3
  <2>2. \A k \in 0..(Len(q) - 1) : k \in T => k + 1 \in T
    <3> SUFFICES ASSUME NEW k \in Nat, \E g : Iterates(base, q, k, g)
                 PROVE  \E h : Iterates(base, q, k + 1, h)
      BY <1>0
    <3> QED
      BY IterateMore
  <2> HIDE DEF T
  <2>3. \A k \in 0..Len(q) : k \in T
    BY <1>0, <2>1, <2>2, UpTo
  <2> QED
    BY <1>0, <2>3 DEF T
<1> DEFINE g == CHOOSE g : Iterates(base, q, Len(q), g)
<1>2. Iterates(base, q, Len(q), g)
  BY <1>1, Zenon
<1>3. Folded(base, q) = g[1..Len(q)]
  BY DEF Folded
<1> HIDE DEF g
<1> DEFINE f == [n \in 0..Len(q) |-> g[1..n]]
<1>4. \A s \in SUBSET (1..Len(q)) :
        g[s] = IF s = {} THEN base ELSE op(g[s \ {Biggest(s)}], q[Biggest(s)])
  BY <1>2, Zenon DEF Iterates
<1>5. f[0] = base
  <2>1. 1..0 = {} /\ 0 \in 0..Len(q)
    BY <1>0
  <2>2. {} \in SUBSET (1..Len(q))
    OBVIOUS
  <2>3. g[{}] = base
    BY <2>2, <1>4, Zenon
  <2> QED
    BY <2>1, <2>3, Zenon
<1>6. ASSUME NEW n \in 1..Len(q) PROVE f[n] = op(f[n - 1], q[n])
  <2>1. n \in 0..Len(q) /\ n - 1 \in 0..Len(q) /\ 1..n \in SUBSET (1..Len(q)) /\ n \in 1..n
    BY <1>0
  <2>2. (1..n) \ {n} = 1..(n - 1) /\ 1..n # {}
    <3>1. n \in Nat /\ n >= 1
      BY <1>0
    <3>2. \A x : x \in (1..n) \ {n} <=> x \in 1..(n - 1)
      BY <3>1
    <3> QED
      BY <2>1, <3>2, Zenon
  <2>3. Biggest(1..n) = n
    <3>1. n \in Nat
      BY <1>0
    <3> QED
      BY <3>1, <2>1, BiggestIs
  <2>4. g[1..n] = op(g[1..(n - 1)], q[n])
    BY <2>1, <2>2, <2>3, <1>4, Zenon
  <2> QED
    BY <2>1, <2>4, Zenon
<1>7. Folded(base, q) = f[Len(q)]
  <2>1. Len(q) \in 0..Len(q)
    BY <1>0
  <2> QED
    BY <2>1, <1>3, Zenon
<1> HIDE DEF f
<1> QED
  BY <1>5, <1>6, <1>7
=============================================================================
