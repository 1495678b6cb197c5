------------------------------ MODULE SumLemmas ------------------------------
(***************************************************************************)
(* Facts about the sums and counts the operator's jobs report: the SUM and *)
(* COUNT of a GROUP BY, as SumFunctionOnSet and Cardinality.  The library  *)
(* states induction with a predicate as parameter; here a predicate is the *)
(* set of what satisfies it, so that each fact is an instance of one about *)
(* sets.                                                                   *)
(***************************************************************************)
EXTENDS Functions, FiniteSetTheorems, TLAPS

-----------------------------------------------------------------------------
\* Induction.

\* A set of numbers that holds 0 and the successor of each member holds them
\* all: were m missing, the successor would map the members below m one to one
\* and not onto themselves.
LEMMA Induction ==
    ASSUME NEW G \in SUBSET Nat, 0 \in G, \A n \in G : n + 1 \in G
    PROVE  G = Nat
  <1> SUFFICES ASSUME NEW m \in Nat, m \notin G PROVE FALSE
    OBVIOUS
  <1> DEFINE T == {n \in G : n < m}
             succ == [n \in T |-> n + 1]
  <1>1. 0 \in T
    OBVIOUS
  <1>2. succ \in Injection(T, T)
    <2>1. ASSUME NEW n \in T PROVE n + 1 \in T
      <3>1. n \in G /\ n \in Nat /\ n < m /\ n + 1 \in G
        OBVIOUS
      <3>2. n + 1 < m
        BY <3>1
      <3> QED
        BY <3>1, <3>2
    <2>2. succ \in [T -> T]
      BY <2>1
    <2>3. \A a, b \in T : succ[a] = succ[b] => a = b
      OBVIOUS
    <2> HIDE DEF succ, T
    <2>4. DOMAIN succ = T
      BY <2>2
    <2> QED
      BY <2>2, <2>3, <2>4 DEF Injection, IsInjective
  <1>3. IsFiniteSet(T)
    <2>1. T \in SUBSET Nat
      OBVIOUS
    <2>2. \A n \in T : n <= m
      OBVIOUS
    <2> HIDE DEF T
    <2> QED
      BY <2>1, <2>2, FS_BoundedSetOfNaturals
  <1> HIDE DEF succ
  <1>4. succ \in Surjection(T, T)
    <2> HIDE DEF T
    <2> QED
      BY <1>2, <1>3, FS_Injection
  <1>5. \E n \in T : succ[n] = 0
    BY <1>1, <1>4 DEF Surjection
  <1> QED
    BY <1>5 DEF succ

\* A set of subsets of S that holds the empty set, and T \cup {x} with every T,
\* holds S.
LEMMA SetInduction ==
    ASSUME NEW S, IsFiniteSet(S), NEW G \in SUBSET SUBSET S, {} \in G,
           \A T \in G : \A x \in S \ T : T \cup {x} \in G
    PROVE  S \in G
  <1> DEFINE H == {n \in Nat : \A T \in SUBSET S : Cardinality(T) = n => T \in G}
  <1>0. \A T \in SUBSET S : IsFiniteSet(T) /\ Cardinality(T) \in Nat
    BY FS_Subset, FS_CardinalityType
  <1>1. 0 \in H
    BY <1>0, FS_EmptySet
  <1>2. ASSUME NEW n \in H PROVE n + 1 \in H
    <2> SUFFICES ASSUME NEW T \in SUBSET S, Cardinality(T) = n + 1 PROVE T \in G
      OBVIOUS
    <2>1. PICK x \in T : TRUE
      BY <1>0, FS_EmptySet
    <2>2. T \ {x} \in SUBSET S /\ Cardinality(T \ {x}) = n
      <3>1. Cardinality(T \ {x}) = Cardinality(T) - 1
        BY <1>0, <2>1, FS_RemoveElement
      <3>2. n \in Nat
        OBVIOUS
      <3> QED
        BY <3>1, <3>2
    <2>3. T \ {x} \in G /\ x \in S \ (T \ {x}) /\ T = (T \ {x}) \cup {x}
      BY <2>1, <2>2
    <2> QED
      BY <2>3
  <1>3. H = Nat
    <2> HIDE DEF H
    <2>1. H \in SUBSET Nat
      BY DEF H
    <2> QED
      BY <1>1, <1>2, <2>1, Induction
  <1> QED
    BY <1>0, <1>3

-----------------------------------------------------------------------------
\* A sum satisfies the equation it is defined by.

Chosen(s) == CHOOSE x \in s : TRUE

\* g is the table of the sums of f over the sets of D.
Tabulates(g, f, D) ==
    g = [s \in D |-> IF s = {} THEN 0 ELSE f[Chosen(s)] + g[s \ {Chosen(s)}]]

Table(f, S) == CHOOSE g : Tabulates(g, f, SUBSET S)

LEMMA SumIsTabulated ==
    ASSUME NEW f, NEW S
    PROVE  SumFunctionOnSet(f, S) = Table(f, S)[S]
  BY DEF SumFunctionOnSet, FoldFunctionOnSet, MapThenFoldSet, Table, Tabulates, Chosen

\* The element chosen, and what is left without it.
LEMMA ChosenIsTaken ==
    ASSUME NEW s, IsFiniteSet(s), s # {}
    PROVE  /\ Chosen(s) \in s
           /\ IsFiniteSet(s \ {Chosen(s)})
           /\ Cardinality(s \ {Chosen(s)}) = Cardinality(s) - 1
           /\ Cardinality(s) \in Nat
  <1>1. Chosen(s) \in s
    BY DEF Chosen
  <1> QED
    BY <1>1, FS_RemoveElement, FS_CardinalityType

\* There is a table: one of the sets of at most n + 1 elements is got from one
\* of the sets of at most n.
LEMMA TableExists ==
    ASSUME NEW f, NEW S, IsFiniteSet(S)
    PROVE  Tabulates(Table(f, S), f, SUBSET S)
  <1> DEFINE Upto(n) == {s \in SUBSET S : Cardinality(s) <= n}
             H == {n \in Nat : \E g : Tabulates(g, f, Upto(n))}
  <1>1. \A s \in SUBSET S : IsFiniteSet(s) /\ Cardinality(s) \in Nat
    BY FS_Subset, FS_CardinalityType
  <1>2. 0 \in H
    <2> DEFINE g == [s \in Upto(0) |-> 0]
    <2>1. \A s \in Upto(0) : s = {}
      BY <1>1, FS_EmptySet
    <2>2. Tabulates(g, f, Upto(0))
      BY <2>1 DEF Tabulates
    <2> QED
      BY <2>2
  <1>3. ASSUME NEW n \in H PROVE n + 1 \in H
    <2>1. PICK g : Tabulates(g, f, Upto(n))
      OBVIOUS
    <2> DEFINE next(h, s) == IF s = {} THEN 0 ELSE f[Chosen(s)] + h[s \ {Chosen(s)}]
               h == [s \in Upto(n + 1) |-> next(g, s)]
    <2>2. \A s \in Upto(n) : g[s] = next(g, s)
      BY <2>1 DEF Tabulates
    <2>3. ASSUME NEW s \in Upto(n + 1) PROVE next(g, s) = next(h, s)
      <3>1. CASE s = {}
        BY <3>1
      <3>2. CASE s # {}
        <4>1. s \ {Chosen(s)} \in Upto(n) /\ s \ {Chosen(s)} \in Upto(n + 1)
          BY <1>1, <3>2, ChosenIsTaken
        <4>2. h[s \ {Chosen(s)}] = g[s \ {Chosen(s)}]
          BY <2>2, <4>1
        <4> QED
          BY <4>2
      <3> QED
        BY <3>1, <3>2
    <2>4. h = [s \in Upto(n + 1) |-> next(h, s)]
      BY <2>3
    <2>5. Tabulates(h, f, Upto(n + 1))
      BY <2>4 DEF Tabulates
    <2>6. n + 1 \in Nat
      OBVIOUS
    <2> HIDE DEF h
    <2> QED
      BY <2>5, <2>6
  <1>4. H = Nat
    <2>1. H \in SUBSET Nat
      OBVIOUS
    <2> HIDE DEF H
    <2> QED
      BY <1>2, <1>3, <2>1, Induction
  <1>5. Cardinality(S) \in Nat /\ Upto(Cardinality(S)) = SUBSET S
    BY <1>1, FS_Subset
  <1>6. PICK g : Tabulates(g, f, SUBSET S)
    <2>1. Cardinality(S) \in H
      BY <1>4, <1>5
    <2>2. \E g : Tabulates(g, f, Upto(Cardinality(S)))
      BY <2>1
    <2> QED
      BY <1>5, <2>2
  <1> QED
    BY <1>6 DEF Table

\* There is one table only, on the sets that both have.
LEMMA TablesAgree ==
    ASSUME NEW f, NEW S, IsFiniteSet(S), NEW T \in SUBSET S
    PROVE  \A s \in SUBSET T : Table(f, S)[s] = Table(f, T)[s]
  <1> DEFINE H == {n \in Nat : \A s \in SUBSET T :
                       Cardinality(s) = n => Table(f, S)[s] = Table(f, T)[s]}
  <1>1. \A s \in SUBSET T : IsFiniteSet(s) /\ Cardinality(s) \in Nat
    BY FS_Subset, FS_CardinalityType
  <1>2. /\ Tabulates(Table(f, S), f, SUBSET S)
        /\ Tabulates(Table(f, T), f, SUBSET T)
    BY TableExists, FS_Subset
  <1>3. \A s \in SUBSET T :
            /\ Table(f, S)[s] = IF s = {} THEN 0
                                ELSE f[Chosen(s)] + Table(f, S)[s \ {Chosen(s)}]
            /\ Table(f, T)[s] = IF s = {} THEN 0
                                ELSE f[Chosen(s)] + Table(f, T)[s \ {Chosen(s)}]
    BY <1>2 DEF Tabulates
  <1>4. 0 \in H
    BY <1>1, <1>3, FS_EmptySet
  <1>5. ASSUME NEW n \in H PROVE n + 1 \in H
    <2> SUFFICES ASSUME NEW s \in SUBSET T, Cardinality(s) = n + 1
                 PROVE  Table(f, S)[s] = Table(f, T)[s]
      OBVIOUS
    <2>1. s # {}
      <3>1. n \in Nat
        OBVIOUS
      <3> QED
        BY <3>1, FS_EmptySet
    <2>2. s \ {Chosen(s)} \in SUBSET T /\ Cardinality(s \ {Chosen(s)}) = n
      BY <1>1, <2>1, ChosenIsTaken
    <2> QED
      BY <1>3, <2>1, <2>2
  <1>6. H = Nat
    <2>1. H \in SUBSET Nat
      OBVIOUS
    <2> HIDE DEF H
    <2> QED
      BY <1>4, <1>5, <2>1, Induction
  <1> QED
    BY <1>1, <1>6

\* The sum over no element, and over some.
LEMMA SumUnfolds ==
    ASSUME NEW f, NEW S, IsFiniteSet(S)
    PROVE  SumFunctionOnSet(f, S) =
               IF S = {} THEN 0
               ELSE f[Chosen(S)] + SumFunctionOnSet(f, S \ {Chosen(S)})
  <1>1. Table(f, S)[S] = IF S = {} THEN 0
                         ELSE f[Chosen(S)] + Table(f, S)[S \ {Chosen(S)}]
    <2>1. Tabulates(Table(f, S), f, SUBSET S) /\ S \in SUBSET S
      BY TableExists
    <2> QED
      BY <2>1 DEF Tabulates
  <1>2. Table(f, S)[S \ {Chosen(S)}] = Table(f, S \ {Chosen(S)})[S \ {Chosen(S)}]
    BY TablesAgree
  <1> QED
    BY <1>1, <1>2, SumIsTabulated

LEMMA SumEmpty == \A f : SumFunctionOnSet(f, {}) = 0
  BY SumUnfolds, FS_EmptySet

-----------------------------------------------------------------------------
\* Sums of integers, in whatever order.

\* f is an amount for each element of S.
Amounts(f, S) == IsFiniteSet(S) /\ \A x \in S : f[x] \in Int

LEMMA SumType ==
    ASSUME NEW f, NEW S, Amounts(f, S)
    PROVE  \A T \in SUBSET S : SumFunctionOnSet(f, T) \in Int
  <1> DEFINE H == {n \in Nat : \A T \in SUBSET S :
                       Cardinality(T) = n => SumFunctionOnSet(f, T) \in Int}
  <1>1. \A T \in SUBSET S : IsFiniteSet(T) /\ Cardinality(T) \in Nat
    BY FS_Subset, FS_CardinalityType DEF Amounts
  <1>2. 0 \in H
    BY <1>1, SumEmpty, FS_EmptySet
  <1>3. ASSUME NEW n \in H PROVE n + 1 \in H
    <2>0. n \in Nat
      OBVIOUS
    <2>1. ASSUME NEW T \in SUBSET S, Cardinality(T) = n + 1
          PROVE  SumFunctionOnSet(f, T) \in Int
      <3>1. T # {}
        BY <2>0, <2>1, FS_EmptySet
      <3>2. /\ T \ {Chosen(T)} \in SUBSET S
            /\ Cardinality(T \ {Chosen(T)}) = n
            /\ Chosen(T) \in S
        BY <1>1, <2>0, <2>1, <3>1, ChosenIsTaken
      <3>3. SumFunctionOnSet(f, T \ {Chosen(T)}) \in Int
        BY <3>2
      <3>4. SumFunctionOnSet(f, T) = f[Chosen(T)] + SumFunctionOnSet(f, T \ {Chosen(T)})
        BY <1>1, <3>1, SumUnfolds
      <3> QED
        BY <3>2, <3>3, <3>4 DEF Amounts
    <2> QED
      BY <2>0, <2>1
  <1>4. H = Nat
    <2>1. H \in SUBSET Nat
      OBVIOUS
    <2> HIDE DEF H
    <2> QED
      BY <1>2, <1>3, <2>1, Induction
  <1> QED
    BY <1>1, <1>4

\* Any element may be taken out first.
LEMMA SumTakes ==
    ASSUME NEW f, NEW S, Amounts(f, S)
    PROVE  \A T \in SUBSET S : \A y \in T :
               SumFunctionOnSet(f, T) = f[y] + SumFunctionOnSet(f, T \ {y})
  <1> DEFINE Takes(T, y) ==
                 SumFunctionOnSet(f, T) = f[y] + SumFunctionOnSet(f, T \ {y})
             H == {n \in Nat : \A T \in SUBSET S :
                       Cardinality(T) = n => \A y \in T : Takes(T, y)}
  <1>1. \A T \in SUBSET S : IsFiniteSet(T) /\ Cardinality(T) \in Nat
    BY FS_Subset, FS_CardinalityType DEF Amounts
  <1>2. 0 \in H
    BY <1>1, FS_EmptySet
  <1>3. ASSUME NEW n \in H PROVE n + 1 \in H
    <2>0. n \in Nat
      OBVIOUS
    <2>1. ASSUME NEW T \in SUBSET S, Cardinality(T) = n + 1, NEW y \in T
          PROVE  Takes(T, y)
      <3> DEFINE c == Chosen(T)
      <3>1. c \in T
        BY <1>1, <2>0, <2>1, FS_EmptySet, ChosenIsTaken
      <3>2. Takes(T, c)
        BY <1>1, <3>1, SumUnfolds
      <3>3. CASE y # c
        <4>1. /\ T \ {c} \in SUBSET S /\ Cardinality(T \ {c}) = n /\ y \in T \ {c}
              /\ T \ {y} \in SUBSET S /\ Cardinality(T \ {y}) = n /\ c \in T \ {y}
          <5>1. /\ Cardinality(T \ {c}) = Cardinality(T) - 1
                /\ Cardinality(T \ {y}) = Cardinality(T) - 1
            BY <1>1, <3>1, FS_RemoveElement
          <5> QED
            BY <2>0, <2>1, <3>1, <3>3, <5>1
        <4>2. Takes(T \ {c}, y) /\ Takes(T \ {y}, c)
          BY <4>1
        <4> DEFINE U == (T \ {c}) \ {y}
        <4>3. (T \ {y}) \ {c} = U
          OBVIOUS
        <4>4. /\ SumFunctionOnSet(f, T) = f[c] + SumFunctionOnSet(f, T \ {c})
              /\ SumFunctionOnSet(f, T \ {c}) = f[y] + SumFunctionOnSet(f, U)
              /\ SumFunctionOnSet(f, T \ {y}) = f[c] + SumFunctionOnSet(f, U)
          BY <3>2, <4>2, <4>3
        <4>5. f[c] \in Int /\ f[y] \in Int /\ SumFunctionOnSet(f, U) \in Int
          BY <3>1, SumType DEF Amounts
        <4> HIDE DEF c, U
        <4> QED
          BY <4>4, <4>5
      <3> QED
        BY <3>2, <3>3
    <2> QED
      BY <2>0, <2>1
  <1>4. H = Nat
    <2>1. H \in SUBSET Nat
      OBVIOUS
    <2> HIDE DEF H
    <2> QED
      BY <1>2, <1>3, <2>1, Induction
  <1> QED
    BY <1>1, <1>4

\* A sum with one element more.
LEMMA SumAdds ==
    ASSUME NEW f, NEW S, Amounts(f, S)
    PROVE  \A T \in SUBSET S : \A x \in S \ T :
               SumFunctionOnSet(f, T \cup {x}) = f[x] + SumFunctionOnSet(f, T)
  <1> SUFFICES ASSUME NEW T \in SUBSET S, NEW x \in S \ T
               PROVE  SumFunctionOnSet(f, T \cup {x}) = f[x] + SumFunctionOnSet(f, T)
    OBVIOUS
  <1>1. T \cup {x} \in SUBSET S /\ (T \cup {x}) \ {x} = T
    OBVIOUS
  <1>2. SumFunctionOnSet(f, T \cup {x})
            = f[x] + SumFunctionOnSet(f, (T \cup {x}) \ {x})
    BY <1>1, SumTakes
  <1> QED
    BY <1>1, <1>2

-----------------------------------------------------------------------------
\* What follows by induction on the set.

\* Equal amounts have equal sums.
LEMMA SumSame ==
    ASSUME NEW f, NEW g, NEW S, Amounts(f, S), \A x \in S : g[x] = f[x]
    PROVE  SumFunctionOnSet(g, S) = SumFunctionOnSet(f, S)
  <1> DEFINE G == {T \in SUBSET S : SumFunctionOnSet(g, T) = SumFunctionOnSet(f, T)}
  <1>0. Amounts(g, S)
    BY DEF Amounts
  <1>1. {} \in G
    BY SumEmpty
  <1>2. ASSUME NEW T \in G, NEW x \in S \ T PROVE T \cup {x} \in G
    BY <1>0, SumAdds
  <1>3. G \in SUBSET SUBSET S
    OBVIOUS
  <1>4. S \in G
    <2> HIDE DEF G
    <2> QED
      BY <1>1, <1>2, <1>3, SetInduction DEF Amounts
  <1> QED
    BY <1>4

\* The sum of differences is the difference of the sums.
LEMMA SumSubtracts ==
    ASSUME NEW f, NEW g, NEW h, NEW S, Amounts(f, S), Amounts(g, S),
           \A x \in S : h[x] = f[x] - g[x]
    PROVE  SumFunctionOnSet(h, S) = SumFunctionOnSet(f, S) - SumFunctionOnSet(g, S)
  <1> DEFINE Holds(T) == SumFunctionOnSet(h, T)
                             = SumFunctionOnSet(f, T) - SumFunctionOnSet(g, T)
             G == {T \in SUBSET S : Holds(T)}
  <1>0. Amounts(h, S)
    BY DEF Amounts
  <1>1. {} \in G
    BY SumEmpty
  <1>2. ASSUME NEW T \in G, NEW x \in S \ T PROVE T \cup {x} \in G
    <2>1. Holds(T) /\ T \in SUBSET S
      OBVIOUS
    <2>2. /\ SumFunctionOnSet(h, T \cup {x}) = h[x] + SumFunctionOnSet(h, T)
          /\ SumFunctionOnSet(f, T \cup {x}) = f[x] + SumFunctionOnSet(f, T)
          /\ SumFunctionOnSet(g, T \cup {x}) = g[x] + SumFunctionOnSet(g, T)
      BY <1>0, <2>1, SumAdds
    <2>3. f[x] \in Int /\ g[x] \in Int /\ h[x] = f[x] - g[x]
      BY DEF Amounts
    <2>4. SumFunctionOnSet(f, T) \in Int /\ SumFunctionOnSet(g, T) \in Int
      BY <2>1, SumType
    <2>5. Holds(T \cup {x})
      BY <2>1, <2>2, <2>3, <2>4
    <2> QED
      BY <2>1, <2>5
  <1>3. G \in SUBSET SUBSET S
    OBVIOUS
  <1>4. S \in G
    <2> HIDE DEF G
    <2> QED
      BY <1>1, <1>2, <1>3, SetInduction DEF Amounts
  <1> QED
    BY <1>4

\* A sum of ones is a count.
LEMMA SumCounts ==
    ASSUME NEW f, NEW S, IsFiniteSet(S), \A x \in S : f[x] = 1
    PROVE  SumFunctionOnSet(f, S) = Cardinality(S)
  <1> DEFINE G == {T \in SUBSET S : SumFunctionOnSet(f, T) = Cardinality(T)}
  <1>0. Amounts(f, S)
    BY DEF Amounts
  <1>1. {} \in G
    BY SumEmpty, FS_EmptySet
  <1>2. ASSUME NEW T \in G, NEW x \in S \ T PROVE T \cup {x} \in G
    <2>1. IsFiniteSet(T) /\ Cardinality(T) \in Nat
      BY FS_Subset, FS_CardinalityType
    <2>2. Cardinality(T \cup {x}) = Cardinality(T) + 1
      BY <2>1, FS_AddElement
    <2>3. SumFunctionOnSet(f, T \cup {x}) = 1 + SumFunctionOnSet(f, T)
      BY <1>0, SumAdds
    <2> QED
      BY <2>1, <2>2, <2>3
  <1>3. G \in SUBSET SUBSET S
    OBVIOUS
  <1>4. S \in G
    <2> HIDE DEF G
    <2> QED
      BY <1>1, <1>2, <1>3, SetInduction
  <1> QED
    BY <1>4

\* GROUP BY loses nothing: the sums of the groups sum to the whole.
LEMMA SumByGroup ==
    ASSUME NEW f, NEW S, Amounts(f, S), NEW A, IsFiniteSet(A),
           NEW key, \A x \in S : key[x] \in A
    PROVE  SumFunctionOnSet(
               [a \in A |-> SumFunctionOnSet(f, {x \in S : key[x] = a})], A)
               = SumFunctionOnSet(f, S)
  <1> DEFINE Group(T, a) == {x \in T : key[x] = a}
             Sums(T) == [a \in A |-> SumFunctionOnSet(f, Group(T, a))]
             Holds(T) == SumFunctionOnSet(Sums(T), A) = SumFunctionOnSet(f, T)
             G == {T \in SUBSET S : Holds(T)}
  <1>0. \A T \in SUBSET S : Amounts(Sums(T), A)
    <2> SUFFICES ASSUME NEW T \in SUBSET S, NEW a \in A PROVE Sums(T)[a] \in Int
      BY DEF Amounts
    <2>1. Group(T, a) \in SUBSET S
      OBVIOUS
    <2> QED
      BY <2>1, SumType
  <1>1. {} \in G
    <2>1. \A a \in A : Sums({})[a] = 0
      BY SumEmpty
    <2> DEFINE zero == [a \in A |-> 0]
    <2>2. Amounts(zero, A)
      BY DEF Amounts
    <2>3. SumFunctionOnSet(Sums({}), A) = 0
      <3> DEFINE Z == {B \in SUBSET A : SumFunctionOnSet(zero, B) = 0}
      <3>1. {} \in Z
        BY SumEmpty
      <3>2. ASSUME NEW B \in Z, NEW a \in A \ B PROVE B \cup {a} \in Z
        BY <2>2, SumAdds
      <3>3. Z \in SUBSET SUBSET A
        OBVIOUS
      <3>4. A \in Z
        <4> HIDE DEF Z
        <4> QED
          BY <3>1, <3>2, <3>3, SetInduction
      <3> QED
        BY <2>1, <2>2, <3>4, SumSame
    <2> QED
      BY <2>3, SumEmpty
  <1>2. ASSUME NEW T \in G, NEW x \in S \ T PROVE T \cup {x} \in G
    <2> DEFINE b == key[x]
               U == T \cup {x}
               others == A \ {b}
    <2>1. Holds(T) /\ T \in SUBSET S /\ U \in SUBSET S /\ b \in A
      OBVIOUS
    <2>2. \A a \in others : Sums(U)[a] = Sums(T)[a]
      <3>1. \A a \in others : Group(U, a) = Group(T, a)
        OBVIOUS
      <3> QED
        BY <3>1
    <2>3. Sums(U)[b] = f[x] + Sums(T)[b]
      <3>1. Group(U, b) = Group(T, b) \cup {x} /\ x \notin Group(T, b)
        OBVIOUS
      <3>2. Group(T, b) \in SUBSET S
        OBVIOUS
      <3>3. SumFunctionOnSet(f, Group(T, b) \cup {x})
                = f[x] + SumFunctionOnSet(f, Group(T, b))
        BY <3>1, <3>2, SumAdds
      <3> QED
        BY <2>1, <3>1, <3>3
    <2>4. SumFunctionOnSet(Sums(U), others) = SumFunctionOnSet(Sums(T), others)
      <3>1. Amounts(Sums(T), others)
        BY <1>0, <2>1, FS_Subset DEF Amounts
      <3> HIDE DEF Sums, others
      <3> QED
        BY <2>2, <3>1, SumSame
    <2>5. /\ SumFunctionOnSet(Sums(U), A) = Sums(U)[b] + SumFunctionOnSet(Sums(U), others)
          /\ SumFunctionOnSet(Sums(T), A) = Sums(T)[b] + SumFunctionOnSet(Sums(T), others)
      <3>1. Amounts(Sums(U), A) /\ Amounts(Sums(T), A)
        BY <1>0, <2>1
      <3> HIDE DEF Sums
      <3> QED
        BY <2>1, <3>1, SumTakes
    <2>6. SumFunctionOnSet(f, U) = f[x] + SumFunctionOnSet(f, T)
      BY <2>1, SumAdds
    <2>7. /\ f[x] \in Int /\ Sums(T)[b] \in Int
          /\ SumFunctionOnSet(Sums(T), others) \in Int
      <3>1. Amounts(Sums(T), A) /\ others \in SUBSET A
        BY <1>0, <2>1
      <3>2. SumFunctionOnSet(Sums(T), others) \in Int
        <4> HIDE DEF Sums, others
        <4> QED
          BY <3>1, SumType
      <3> QED
        BY <2>1, <3>1, <3>2 DEF Amounts
    <2>8. Holds(U)
      <3>1. SumFunctionOnSet(Sums(T), A) = SumFunctionOnSet(f, T)
        BY <2>1
      <3> HIDE DEF Sums, others, b, U
      <3> QED
        BY <2>3, <2>4, <2>5, <2>6, <2>7, <3>1
    <2> QED
      BY <2>1, <2>8
  <1>3. G \in SUBSET SUBSET S
    OBVIOUS
  <1>4. S \in G
    <2> HIDE DEF G
    <2> QED
      BY <1>1, <1>2, <1>3, SetInduction DEF Amounts
  <1> QED
    BY <1>4
=============================================================================
