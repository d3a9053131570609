----------------------------- MODULE FoldTheorems -----------------------------
(***************************************************************************)
(* Sums over finite sets: that the fold of the community modules, which     *)
(* takes the members of a set in an order of its own, gives the sum that    *)
(* grows by the value of each member that joins the set.                    *)
(*                                                                          *)
(* Induction is over sets of numbers, and sets of sets, rather than over    *)
(* predicates: a set that holds 0 and the successor of each of its members  *)
(* holds every number (SuccessorInduction), by the pigeonhole principle.          *)
(***************************************************************************)
EXTENDS Integers, FiniteSets, Functions, FiniteSetTheorems, TLAPS

\* The numbers up to n that are in S, and the successor function on them.
UpTo(n, S) == {k \in 0 .. n : k \in S}
Succ(T) == [k \in T |-> k + 1]

\* A set of numbers that holds 0 and is closed under the successor holds all:
\* up to a number that is missing, the successor would map the set into itself,
\* one to one, and not onto 0.
LEMMA SuccessorInduction ==
    ASSUME NEW S, 0 \in S, \A n \in Nat : n \in S => n + 1 \in S
    PROVE  \A n \in Nat : n \in S
<1>1. ASSUME NEW n \in Nat, n \notin S
      PROVE  FALSE
  <2>1. IsFiniteSet(UpTo(n, S))
    <3>1. 0 \in Int /\ n \in Int
      BY <1>1
    <3>2. IsFiniteSet(0 .. n)
      BY <3>1, FS_Interval
    <3>3. UpTo(n, S) \in SUBSET (0 .. n)
      BY DEF UpTo
    <3> QED
      BY <3>2, <3>3, FS_Subset
  <2>2. \A k \in UpTo(n, S) : k \in Nat /\ k + 1 \in UpTo(n, S)
    BY <1>1 DEF UpTo
  <2>3. Succ(UpTo(n, S)) \in Injection(UpTo(n, S), UpTo(n, S))
    BY <2>2 DEF Injection, IsInjective, Succ
  <2>4. Succ(UpTo(n, S)) \in Surjection(UpTo(n, S), UpTo(n, S))
    BY <2>1, <2>3, FS_Injection
  <2>5. 0 \in UpTo(n, S)
    BY <1>1 DEF UpTo
  <2>6. \E k \in UpTo(n, S) : Succ(UpTo(n, S))[k] = 0
    BY <2>4, <2>5 DEF Surjection
  <2> QED
    BY <2>2, <2>6 DEF Succ
<1> QED
  BY <1>1

\* The sizes of which every subset of S is in U.
Sizes(S, U) == {n \in Nat : \A T \in SUBSET S : Cardinality(T) = n => T \in U}

\* A set holds every subset of S, if it holds a subset as soon as it holds what
\* is left of it without any one of its members.
LEMMA SubsetInduction ==
    ASSUME NEW S, IsFiniteSet(S), NEW U,
           \A T \in SUBSET S : (\A x \in T : T \ {x} \in U) => T \in U
    PROVE  SUBSET S \subseteq U
<1>1. \A T \in SUBSET S : IsFiniteSet(T) /\ Cardinality(T) \in Nat
  BY FS_Subset, FS_CardinalityType
<1>2. 0 \in Sizes(S, U)
  <2> SUFFICES ASSUME NEW T \in SUBSET S, Cardinality(T) = 0 PROVE T \in U
    BY DEF Sizes
  <2>1. T = {}
    BY <1>1, FS_EmptySet
  <2> QED
    BY <2>1
<1>3. \A n \in Nat : n \in Sizes(S, U) => n + 1 \in Sizes(S, U)
  <2> SUFFICES ASSUME NEW n \in Nat, n \in Sizes(S, U),
                      NEW T \in SUBSET S, Cardinality(T) = n + 1
               PROVE  T \in U
    BY DEF Sizes
  <2>1. ASSUME NEW x \in T
        PROVE  T \ {x} \in U
    <3>1. Cardinality(T \ {x}) = Cardinality(T) - 1
      BY <1>1, FS_RemoveElement
    <3>2. Cardinality(T \ {x}) = n /\ T \ {x} \in SUBSET S
      BY <3>1
    <3> QED
      BY <3>2 DEF Sizes
  <2> QED
    BY <2>1
<1>4. \A n \in Nat : n \in Sizes(S, U)
  BY <1>2, <1>3, SuccessorInduction
<1> QED
  BY <1>1, <1>4 DEF Sizes

-----------------------------------------------------------------------------
(* The fold.                                                                *)

\* The member of a set that the fold takes first, and what the fold does with it.
Pick(s) == CHOOSE x \in s : TRUE
FoldStep(g, h, s) == IF s = {} THEN 0 ELSE g[Pick(s)] + h[s \ {Pick(s)}]

\* The function the fold of g over S is defined by, and the fold.
Iter(g, S) == CHOOSE h : h = [s \in SUBSET S |-> FoldStep(g, h, s)]
SumOver(g, S) == Iter(g, S)[S]

\* It is the sum of the community modules.
LEMMA SumIsFold ==
    ASSUME NEW g, NEW S
    PROVE  SumFunctionOnSet(g, S) = SumOver(g, S)
  BY DEF SumFunctionOnSet, FoldFunctionOnSet, MapThenFoldSet, SumOver, Iter, FoldStep, Pick

\* The subsets of S with at most n members, and the numbers up to which the
\* fold's function exists.
Small(n, S) == {s \in SUBSET S : Cardinality(s) \leq n}
Folded(g, S) ==
    {n \in Nat : \E h : h = [s \in Small(n, S) |-> FoldStep(g, h, s)]}

\* What is left of a set without the member the fold takes first is smaller.
LEMMA PickShrinks ==
    ASSUME NEW S, IsFiniteSet(S), NEW s \in SUBSET S, s # {}
    PROVE  /\ Pick(s) \in s
           /\ s \ {Pick(s)} \in SUBSET S
           /\ Cardinality(s) \in Nat \ {0}
           /\ Cardinality(s \ {Pick(s)}) = Cardinality(s) - 1
<1>1. Pick(s) \in s
  BY DEF Pick
<1>2. IsFiniteSet(s) /\ Cardinality(s) \in Nat
  BY FS_Subset, FS_CardinalityType
<1>3. Cardinality(s) # 0
  BY <1>2, FS_EmptySet
<1>4. Cardinality(s \ {Pick(s)}) = Cardinality(s) - 1
  BY <1>1, <1>2, FS_RemoveElement
<1> QED
  BY <1>1, <1>2, <1>3, <1>4

\* A step of the fold reads its function at one smaller set only.
LEMMA StepReads ==
    ASSUME NEW g, NEW h1, NEW h2, NEW s,
           s # {} => h1[s \ {Pick(s)}] = h2[s \ {Pick(s)}]
    PROVE  FoldStep(g, h1, s) = FoldStep(g, h2, s)
  BY DEF FoldStep

\* The fold's function exists.
LEMMA IterExists ==
    ASSUME NEW g, NEW S, IsFiniteSet(S)
    PROVE  \E h : h = [s \in SUBSET S |-> FoldStep(g, h, s)]
<1>1. 0 \in Folded(g, S)
  <2> DEFINE h == [s \in Small(0, S) |-> 0]
  <2>1. ASSUME NEW s \in Small(0, S), s # {}
        PROVE  FALSE
    <3>1. s \in SUBSET S /\ Cardinality(s) \leq 0
      BY DEF Small
    <3>2. Cardinality(s) \in Nat \ {0}
      BY <2>1, <3>1, PickShrinks
    <3> QED
      BY <3>1, <3>2
  <2>2. \A s \in Small(0, S) : FoldStep(g, h, s) = 0
    BY <2>1 DEF FoldStep
  <2>3. h = [s \in Small(0, S) |-> FoldStep(g, h, s)]
    BY <2>2
  <2> HIDE DEF h
  <2> QED
    BY <2>3 DEF Folded
<1>2. \A n \in Nat : n \in Folded(g, S) => n + 1 \in Folded(g, S)
  <2> SUFFICES ASSUME NEW n \in Nat, n \in Folded(g, S)
               PROVE  n + 1 \in Folded(g, S)
    OBVIOUS
  <2>1. PICK h : h = [s \in Small(n, S) |-> FoldStep(g, h, s)]
    BY DEF Folded
  <2> DEFINE k == [s \in Small(n + 1, S) |-> FoldStep(g, h, s)]
  <2>2. \A s \in Small(n, S) : s \in Small(n + 1, S) /\ k[s] = h[s]
    <3>1. \A s \in Small(n, S) : s \in Small(n + 1, S)
      <4> SUFFICES ASSUME NEW s \in Small(n, S) PROVE s \in Small(n + 1, S)
        OBVIOUS
      <4>1. IsFiniteSet(s) /\ Cardinality(s) \in Nat
        BY FS_Subset, FS_CardinalityType DEF Small
      <4> QED
        BY <4>1 DEF Small
    <3>2. \A s \in Small(n, S) : h[s] = FoldStep(g, h, s)
      BY <2>1
    <3>3. \A s \in Small(n + 1, S) : k[s] = FoldStep(g, h, s)
      OBVIOUS
    <3> QED
      BY <3>1, <3>2, <3>3
  <2>3. \A s \in Small(n + 1, S) : s # {} => s \ {Pick(s)} \in Small(n, S)
    BY PickShrinks DEF Small
  <2> HIDE DEF k
  <2>4. ASSUME NEW s \in Small(n + 1, S)
        PROVE  FoldStep(g, h, s) = FoldStep(g, k, s)
    <3>1. s # {} => h[s \ {Pick(s)}] = k[s \ {Pick(s)}]
      BY <2>2, <2>3
    <3> QED
      BY <3>1, StepReads
  <2>5. k = [s \in Small(n + 1, S) |-> FoldStep(g, k, s)]
    BY <2>4 DEF k
  <2> QED
    BY <2>5 DEF Folded
<1>3. \A n \in Nat : n \in Folded(g, S)
  BY <1>1, <1>2, SuccessorInduction
<1>4. Cardinality(S) \in Nat
  BY FS_CardinalityType
<1>5. \A s \in SUBSET S : Cardinality(s) \leq Cardinality(S)
  BY FS_Subset
<1>6. Small(Cardinality(S), S) = SUBSET S
  BY <1>5 DEF Small
<1>7. Cardinality(S) \in Folded(g, S)
  BY <1>3, <1>4
<1> QED
  BY <1>6, <1>7 DEF Folded

\* The fold's function is what its definition says.
LEMMA IterStep ==
    ASSUME NEW g, NEW S, IsFiniteSet(S)
    PROVE  \A s \in SUBSET S : Iter(g, S)[s] = FoldStep(g, Iter(g, S), s)
<1>1. Iter(g, S) = [s \in SUBSET S |-> FoldStep(g, Iter(g, S), s)]
  BY IterExists DEF Iter
<1> QED
  BY <1>1

\* What the fold gives for a set does not depend on the set it is part of.
LEMMA IterAgrees ==
    ASSUME NEW g, NEW S, IsFiniteSet(S), NEW T \in SUBSET S
    PROVE  Iter(g, S)[T] = SumOver(g, T)
<1> DEFINE U == {s \in SUBSET T : Iter(g, S)[s] = Iter(g, T)[s]}
<1>1. IsFiniteSet(T)
  BY FS_Subset
<1>2. ASSUME NEW s \in SUBSET T, \A x \in s : s \ {x} \in U
      PROVE  s \in U
  <2>1. s # {} => Iter(g, S)[s \ {Pick(s)}] = Iter(g, T)[s \ {Pick(s)}]
    BY <1>1, <1>2, PickShrinks
  <2>2. FoldStep(g, Iter(g, S), s) = FoldStep(g, Iter(g, T), s)
    BY <2>1, StepReads
  <2>3. /\ Iter(g, S)[s] = FoldStep(g, Iter(g, S), s)
        /\ Iter(g, T)[s] = FoldStep(g, Iter(g, T), s)
    BY <1>1, IterStep
  <2> QED
    BY <2>2, <2>3
<1> HIDE DEF U
<1>3. \A s \in SUBSET T : (\A x \in s : s \ {x} \in U) => s \in U
  BY <1>2
<1>4. SUBSET T \subseteq U
  BY <1>1, <1>3, SubsetInduction
<1>5. T \in U
  BY <1>4
<1> QED
  BY <1>5 DEF U, SumOver

-----------------------------------------------------------------------------
(* What the sum is.                                                         *)

\* The sum over no member is 0.
LEMMA SumEmpty ==
    ASSUME NEW g
    PROVE  SumOver(g, {}) = 0
<1>1. IsFiniteSet({})
  BY FS_EmptySet
<1>2. Iter(g, {})[{}] = FoldStep(g, Iter(g, {}), {})
  BY <1>1, IterStep
<1> QED
  BY <1>2 DEF SumOver, FoldStep

\* The sum over a set, by the member the fold takes first.
LEMMA SumFirst ==
    ASSUME NEW g, NEW S, IsFiniteSet(S), S # {}
    PROVE  SumOver(g, S) = g[Pick(S)] + SumOver(g, S \ {Pick(S)})
<1>1. SumOver(g, S) = FoldStep(g, Iter(g, S), S)
  BY IterStep DEF SumOver
<1>2. Iter(g, S)[S \ {Pick(S)}] = SumOver(g, S \ {Pick(S)})
  BY IterAgrees
<1> QED
  BY <1>1, <1>2 DEF FoldStep

\* The sum over a set, by any of its members: the order does not matter.
LEMMA SumRemove ==
    ASSUME NEW g, NEW S, IsFiniteSet(S), \A x \in S : g[x] \in Int
    PROVE  /\ SumOver(g, S) \in Int
           /\ \A x \in S : SumOver(g, S) = g[x] + SumOver(g, S \ {x})
<1> DEFINE U == {T \in SUBSET S : /\ SumOver(g, T) \in Int
                                  /\ \A x \in T : /\ SumOver(g, T \ {x}) \in Int
                                                 /\ SumOver(g, T) = g[x] + SumOver(g, T \ {x})}
<1>1. ASSUME NEW T \in SUBSET S, \A x \in T : T \ {x} \in U
      PROVE  T \in U
  <2>1. CASE T = {}
    BY <2>1, SumEmpty
  <2>2. CASE T # {}
    <3>1. Pick(T) \in T /\ IsFiniteSet(T)
      BY <2>2, FS_Subset DEF Pick
    <3>2. SumOver(g, T) = g[Pick(T)] + SumOver(g, T \ {Pick(T)})
      BY <2>2, <3>1, SumFirst
    <3>3. T \ {Pick(T)} \in U
      BY <1>1, <3>1
    <3>4. SumOver(g, T) \in Int
      BY <3>1, <3>2, <3>3
    <3>5. ASSUME NEW x \in T, x # Pick(T)
          PROVE  SumOver(g, T) = g[x] + SumOver(g, T \ {x})
      <4>1. T \ {x} \in U
        BY <1>1
      <4>2. SumOver(g, T \ {Pick(T)}) = g[x] + SumOver(g, (T \ {Pick(T)}) \ {x})
        BY <3>3, <3>5
      <4>3. SumOver(g, T \ {x}) = g[Pick(T)] + SumOver(g, (T \ {x}) \ {Pick(T)})
        BY <3>1, <3>5, <4>1
      <4>4. (T \ {x}) \ {Pick(T)} = (T \ {Pick(T)}) \ {x}
        OBVIOUS
      <4>5. SumOver(g, (T \ {Pick(T)}) \ {x}) \in Int
        BY <3>3, <3>5
      <4>6. g[x] \in Int /\ g[Pick(T)] \in Int
        BY <3>1
      <4>7. SumOver(g, T) = g[x] + (g[Pick(T)] + SumOver(g, (T \ {Pick(T)}) \ {x}))
        BY <3>2, <4>2, <4>5, <4>6
      <4> QED
        BY <4>3, <4>4, <4>7
    <3>6. \A x \in T : SumOver(g, T \ {x}) \in Int
      BY <1>1
    <3> QED
      BY <3>2, <3>4, <3>5, <3>6
  <2> QED
    BY <2>1, <2>2
<1> HIDE DEF U
<1>2. \A T \in SUBSET S : (\A x \in T : T \ {x} \in U) => T \in U
  BY <1>1
<1>3. SUBSET S \subseteq U
  BY <1>2, SubsetInduction
<1>4. S \in U
  BY <1>3
<1> QED
  BY <1>4 DEF U

-----------------------------------------------------------------------------
\* A finite set of numbers that is not empty has a greatest one.
LEMMA GreatestExists ==
    ASSUME NEW S \in SUBSET Int, IsFiniteSet(S), S # {}
    PROVE  \E m \in S : \A y \in S : m \geq y
<1> DEFINE U == {T \in SUBSET S : T # {} => \E m \in T : \A y \in T : m \geq y}
<1>1. ASSUME NEW T \in SUBSET S, \A x \in T : T \ {x} \in U
      PROVE  T \in U
  <2> SUFFICES ASSUME NEW x \in T
               PROVE  \E m \in T : \A y \in T : m \geq y
    OBVIOUS
  <2>1. CASE T \ {x} = {}
    <3>1. T = {x} /\ x \in Int
      BY <2>1
    <3> QED
      BY <3>1
  <2>2. CASE T \ {x} # {}
    <3>1. PICK m \in T \ {x} : \A y \in T \ {x} : m \geq y
      BY <1>1, <2>2
    <3>2. m \in Int /\ x \in Int /\ m \in T
      BY <3>1
    <3>3. CASE m \geq x
      BY <3>1, <3>2, <3>3
    <3>4. CASE x \geq m
      <4>1. \A y \in T : x \geq y
        BY <3>1, <3>2, <3>4
      <4> QED
        BY <4>1
    <3> QED
      BY <3>2, <3>3, <3>4
  <2> QED
    BY <2>1, <2>2
<1> HIDE DEF U
<1>2. \A T \in SUBSET S : (\A x \in T : T \ {x} \in U) => T \in U
  BY <1>1
<1>3. SUBSET S \subseteq U
  BY <1>2, SubsetInduction
<1>4. S \in U
  BY <1>3
<1> QED
  BY <1>4 DEF U
==============================================================================
