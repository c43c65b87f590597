---------------------------- MODULE NaturalLemmas ----------------------------
(****************************************************************************)
(* A set of naturals has a least member, and a greatest one if it is        *)
(* bounded: what the proofs about lists, logs and queues use in the place   *)
(* of induction.  Sums over a finite set do not depend on the order of the  *)
(* terms, and split and scale as they should.                               *)
(****************************************************************************)
EXTENDS FiniteSetTheorems, Functions, Integers, WellFoundedInduction, TLAPS

\* A set of naturals has a least member.
LEMMA LeastNatural ==
    ASSUME NEW T, T \subseteq Nat, T # {}
    PROVE  \E x \in T : \A y \in T : x =< y
<1> DEFINE R == OpToRel(<, Nat)
<1>1. PICK x \in T : \A y \in T : ~ (<<y, x>> \in R)
  BY WFMin, NatLessThanWellFounded
<1>2. ASSUME NEW y \in T PROVE x =< y
  <2>1. ~ (y < x)
    <3>1. SUFFICES ASSUME y < x PROVE <<y, x>> \in R
      BY <1>1
    <3> QED
      BY <3>1, Zenon DEF OpToRel
  <2> QED
    BY <2>1
<1> QED
  BY <1>2

\* A bounded set of naturals has a greatest member.
LEMMA GreatestNatural ==
    ASSUME NEW n \in Nat, NEW T, T \subseteq 0 .. n, T # {}
    PROVE  \E x \in T : \A y \in T : y =< x
<1> DEFINE Above == {b \in Nat : \A y \in T : y =< b}
<1>1. n \in Above
  OBVIOUS
<1>2. PICK b \in Above : \A c \in Above : b =< c
  <2>1. Above # {} /\ Above \subseteq Nat
    BY <1>1
  <2> QED BY <2>1, LeastNatural
<1>3. b \in T
  <2>1. SUFFICES ASSUME b \notin T PROVE FALSE
    OBVIOUS
  <2>2. PICK y \in T : TRUE
    OBVIOUS
  <2>3. b - 1 \in Above
    BY <1>2, <2>1, <2>2
  <2> QED BY <1>2, <2>3
<1> QED BY <1>2, <1>3

-----------------------------------------------------------------------------
\* The recursion of SumFunctionOnSet: it takes the terms in an order of its own.
Term(s) == CHOOSE x \in s : TRUE
IterIs(f, g, S) ==
    f = [s \in SUBSET S |-> IF s = {} THEN 0 ELSE g[Term(s)] + f[s \ {Term(s)}]]

\* A sum is what that recursion gives.
LEMMA SumIs ==
    ASSUME NEW g, NEW S
    PROVE  SumFunctionOnSet(g, S) = (CHOOSE f : IterIs(f, g, S))[S]
BY DEF SumFunctionOnSet, FoldFunctionOnSet, MapThenFoldSet, IterIs, Term

\* What holds of the empty set, and of a set when it holds of what is left without
\* any one of its members, holds of every finite set.
LEMMA SetsByRemoving ==
    ASSUME NEW S, IsFiniteSet(S), NEW F, {} \in F,
           \A T \in SUBSET S : T # {} /\ (\A x \in T : T \ {x} \in F) => T \in F
    PROVE  S \in F
<1> SUFFICES ASSUME S \notin F PROVE FALSE
  OBVIOUS
<1> DEFINE sizes == {n \in Nat : \E T \in SUBSET S : T \notin F /\ Cardinality(T) = n}
<1>1. \A T \in SUBSET S : IsFiniteSet(T) /\ Cardinality(T) \in Nat
  BY FS_Subset, FS_CardinalityType
<1>2. Cardinality(S) \in sizes
  BY <1>1
<1>3. PICK n \in sizes : \A m \in sizes : n =< m
  <2>1. sizes \subseteq Nat
    OBVIOUS
  <2> HIDE DEF sizes
  <2> QED BY <1>2, <2>1, LeastNatural
<1>4. PICK T \in SUBSET S : T \notin F /\ Cardinality(T) = n
  BY <1>3
<1>5. PICK x \in T : T \ {x} \notin F
  BY <1>4
<1>6. T \ {x} \in SUBSET S /\ Cardinality(T \ {x}) = n - 1 /\ n \in Nat /\ n - 1 \in Nat /\ ~(n =< n - 1)
  <2>1. IsFiniteSet(T) /\ x \in T /\ T \ {x} \in SUBSET S
    BY <1>1, <1>5
  <2>2. Cardinality(T \ {x}) = Cardinality(T) - 1
    BY <2>1, FS_RemoveElement
  <2>3. Cardinality(T \ {x}) \in Nat /\ Cardinality(T) \in Nat
    BY <1>1, <2>1
  <2> QED BY <1>4, <2>1, <2>2, <2>3
<1>7. n - 1 \in sizes
  BY <1>5, <1>6
<1> HIDE DEF sizes
<1> QED BY <1>3, <1>6, <1>7

\* The recursion on the subsets of at most n members.
UpTo(S, n) == {s \in SUBSET S : Cardinality(s) =< n}

\* The term is one of the set.
LEMMA TermIn == \A s : s # {} => Term(s) \in s
BY DEF Term

Solves(f, g, S, n) ==
    f = [s \in UpTo(S, n) |-> IF s = {} THEN 0 ELSE g[Term(s)] + f[s \ {Term(s)}]]
UnsolvedAt(g, S) == {n \in Nat : \A f : ~Solves(f, g, S, n)}

\* The recursion has a solution.
LEMMA IterExists ==
    ASSUME NEW g, NEW S, IsFiniteSet(S) PROVE \E f : IterIs(f, g, S)
<1>1. \A s \in SUBSET S : IsFiniteSet(s) /\ Cardinality(s) \in Nat /\ Cardinality(s) =< Cardinality(S)
  BY FS_Subset, FS_CardinalityType
<1>2. \A s \in SUBSET S : Cardinality(s) = 0 <=> s = {}
  BY <1>1, FS_EmptySet
<1>3. UnsolvedAt(g, S) = {}
  <2> SUFFICES ASSUME UnsolvedAt(g, S) # {} PROVE FALSE
    OBVIOUS
  <2>1. PICK n \in UnsolvedAt(g, S) : \A m \in UnsolvedAt(g, S) : n =< m
    <3>1. UnsolvedAt(g, S) \subseteq Nat
      BY DEF UnsolvedAt
    <3> QED BY <3>1, LeastNatural
  <2>2. CASE n = 0
    <3>1. UpTo(S, 0) = {{}}
      BY <1>1, <1>2 DEF UpTo
    <3>2. Solves([s \in UpTo(S, 0) |-> 0], g, S, 0)
      BY <3>1 DEF Solves
    <3> QED BY <2>1, <2>2, <3>2 DEF UnsolvedAt
  <2>3. CASE n # 0
    <3>1. n \in Nat /\ n - 1 \in Nat /\ ~(n =< n - 1)
      BY <2>1, <2>3 DEF UnsolvedAt
    <3>6. n - 1 \notin UnsolvedAt(g, S)
      BY <2>1, <3>1
    <3>2. PICK f : Solves(f, g, S, n - 1)
      BY <3>1, <3>6 DEF UnsolvedAt
    <3> DEFINE h == [s \in UpTo(S, n) |-> IF s = {} THEN 0 ELSE g[Term(s)] + f[s \ {Term(s)}]]
    <3>3. \A s \in UpTo(S, n - 1) : s \in UpTo(S, n) /\ h[s] = f[s]
      <4> SUFFICES ASSUME NEW s \in UpTo(S, n - 1) PROVE s \in UpTo(S, n) /\ h[s] = f[s]
        OBVIOUS
      <4>1. s \in SUBSET S /\ Cardinality(s) \in Nat /\ Cardinality(s) =< n - 1
        BY <1>1 DEF UpTo
      <4>2. Cardinality(s) =< n
        BY <3>1, <4>1
      <4>3. s \in UpTo(S, n)
        BY <4>1, <4>2 DEF UpTo
      <4>4. f[s] = IF s = {} THEN 0 ELSE g[Term(s)] + f[s \ {Term(s)}]
        BY <3>2 DEF Solves
      <4> QED BY <4>3, <4>4
    <3>4. \A s \in UpTo(S, n) : s # {} => s \ {Term(s)} \in UpTo(S, n - 1)
      <4>1. ASSUME NEW s \in UpTo(S, n), s # {} PROVE s \ {Term(s)} \in UpTo(S, n - 1)
        <5>1. Term(s) \in s /\ IsFiniteSet(s) /\ s \in SUBSET S /\ Cardinality(s) =< n
          BY <1>1, <4>1, TermIn DEF UpTo
        <5>2. Cardinality(s \ {Term(s)}) = Cardinality(s) - 1
          BY <5>1, FS_RemoveElement
        <5> QED BY <1>1, <5>1, <5>2, <3>1 DEF UpTo
      <4> QED BY <4>1
    <3>5. Solves(h, g, S, n)
      BY <3>3, <3>4 DEF Solves
    <3> QED BY <2>1, <3>5 DEF UnsolvedAt
  <2> QED BY <2>2, <2>3
<1>4. PICK n \in Nat : n = Cardinality(S)
  BY FS_CardinalityType
<1>5. PICK f : Solves(f, g, S, n)
  BY <1>3, <1>4 DEF UnsolvedAt
<1>6. UpTo(S, n) = SUBSET S
  BY <1>1, <1>4 DEF UpTo
<1> QED BY <1>5, <1>6 DEF IterIs, Solves

\* The solution over a set is the solution over its subsets.
LEMMA IterUnique ==
    ASSUME NEW g, NEW S, IsFiniteSet(S), NEW T \in SUBSET S, NEW f, NEW h, IterIs(f, g, S), IterIs(h, g, T)
    PROVE  f[T] = h[T]
<1> DEFINE F == {s \in SUBSET T : f[s] = h[s]}
<1>1. \A s \in SUBSET T : /\ f[s] = IF s = {} THEN 0 ELSE g[Term(s)] + f[s \ {Term(s)}]
                          /\ h[s] = IF s = {} THEN 0 ELSE g[Term(s)] + h[s \ {Term(s)}]
  <2> TAKE s \in SUBSET T
  <2>1. s \in SUBSET S
    OBVIOUS
  <2>2. f[s] = IF s = {} THEN 0 ELSE g[Term(s)] + f[s \ {Term(s)}]
    BY <2>1 DEF IterIs
  <2>3. h[s] = IF s = {} THEN 0 ELSE g[Term(s)] + h[s \ {Term(s)}]
    BY DEF IterIs
  <2> QED BY <2>2, <2>3
<1>2. {} \in F
  BY <1>1
<1>3. ASSUME NEW s \in SUBSET T, s # {}, \A x \in s : s \ {x} \in F PROVE s \in F
  <2>1. f[s \ {Term(s)}] = h[s \ {Term(s)}]
    BY <1>3, TermIn
  <2> QED BY <1>1, <1>3, <2>1
<1>4. IsFiniteSet(T)
  BY FS_Subset
<1>5. T \in F
  <2> HIDE DEF F
  <2> QED BY <1>2, <1>3, <1>4, SetsByRemoving
<1> QED BY <1>5

\* The sum over a set with the member that the recursion takes first.
LEMMA SumUnfolds ==
    ASSUME NEW g, NEW S, IsFiniteSet(S)
    PROVE  SumFunctionOnSet(g, S) = IF S = {} THEN 0 ELSE g[Term(S)] + SumFunctionOnSet(g, S \ {Term(S)})
<1>1. PICK f : IterIs(f, g, S) /\ SumFunctionOnSet(g, S) = f[S]
  BY IterExists, SumIs
<1>2. f[S] = IF S = {} THEN 0 ELSE g[Term(S)] + f[S \ {Term(S)}]
  BY <1>1 DEF IterIs
<1>3. ASSUME S # {} PROVE f[S \ {Term(S)}] = SumFunctionOnSet(g, S \ {Term(S)})
  <2>1. S \ {Term(S)} \in SUBSET S /\ IsFiniteSet(S \ {Term(S)})
    BY FS_Subset
  <2>2. PICK T : T = S \ {Term(S)}
    OBVIOUS
  <2>3. PICK h : IterIs(h, g, T) /\ SumFunctionOnSet(g, T) = h[T]
    BY <2>1, <2>2, IterExists, SumIs
  <2>5. f[T] = h[T]
    BY <1>1, <2>1, <2>2, <2>3, IterUnique
  <2> QED BY <2>2, <2>3, <2>5
<1> QED BY <1>1, <1>2, <1>3

\* A sum of integers is an integer, and is any term and the sum of the others.
LEMMA SumTerm ==
    ASSUME NEW S, IsFiniteSet(S), NEW g, \A x \in S : g[x] \in Int
    PROVE  /\ SumFunctionOnSet(g, S) \in Int
           /\ \A x \in S : /\ SumFunctionOnSet(g, S) = g[x] + SumFunctionOnSet(g, S \ {x})
                           /\ SumFunctionOnSet(g, S \ {x}) \in Int
<1> DEFINE Good(T) == /\ SumFunctionOnSet(g, T) \in Int
                      /\ \A x \in T : /\ SumFunctionOnSet(g, T) = g[x] + SumFunctionOnSet(g, T \ {x})
                                      /\ SumFunctionOnSet(g, T \ {x}) \in Int
<1> DEFINE F == {T \in SUBSET S : Good(T)}
<1>1. \A T \in SUBSET S : IsFiniteSet(T)
  BY FS_Subset
<1>2. {} \in F
  <2>1. SumFunctionOnSet(g, {}) = 0
    BY FS_EmptySet, SumUnfolds
  <2> QED BY <2>1
<1>3. ASSUME NEW T \in SUBSET S, T # {}, \A x \in T : T \ {x} \in F PROVE T \in F
  <2>1. PICK y \in T : SumFunctionOnSet(g, T) = g[y] + SumFunctionOnSet(g, T \ {y})
    <3>1. SumFunctionOnSet(g, T) = g[Term(T)] + SumFunctionOnSet(g, T \ {Term(T)})
      BY <1>1, <1>3, SumUnfolds
    <3> QED BY <1>3, <3>1, TermIn
  <2>2. SumFunctionOnSet(g, T) \in Int /\ \A x \in T : SumFunctionOnSet(g, T \ {x}) \in Int
    BY <1>3, <2>1
  <2>3. ASSUME NEW x \in T, x # y PROVE SumFunctionOnSet(g, T) = g[x] + SumFunctionOnSet(g, T \ {x})
    <3>1. (T \ {y}) \ {x} = (T \ {x}) \ {y}
      OBVIOUS
    <3>2. PICK rest : rest = SumFunctionOnSet(g, (T \ {y}) \ {x})
      OBVIOUS
    <3>3. SumFunctionOnSet(g, T \ {y}) = g[x] + rest
      BY <1>3, <2>3, <3>2
    <3>4. SumFunctionOnSet(g, T \ {x}) = g[y] + rest
      BY <1>3, <2>3, <3>1, <3>2
    <3>5. rest \in Int
      BY <1>3, <2>3, <3>2
    <3>6. g[x] \in Int /\ g[y] \in Int
      OBVIOUS
    <3> QED BY <2>1, <3>3, <3>4, <3>5, <3>6
  <2> QED BY <2>1, <2>2, <2>3
<1>4. S \in F
  <2> HIDE DEF F
  <2> QED BY <1>2, <1>3, SetsByRemoving
<1> QED BY <1>4

\* A sum over a set is the sum over a part of it and the sum over the rest.
LEMMA SumSplit ==
    ASSUME NEW S, IsFiniteSet(S), NEW g, \A x \in S : g[x] \in Int, NEW Part \in SUBSET S
    PROVE  SumFunctionOnSet(g, S) = SumFunctionOnSet(g, Part) + SumFunctionOnSet(g, S \ Part)
<1> DEFINE F == {T \in SUBSET Part : SumFunctionOnSet(g, S) = SumFunctionOnSet(g, T) + SumFunctionOnSet(g, S \ T)}
<1>1. \A T \in SUBSET S : IsFiniteSet(T) /\ SumFunctionOnSet(g, T) \in Int
  <2> TAKE T \in SUBSET S
  <2>1. IsFiniteSet(T) /\ \A x \in T : g[x] \in Int
    BY FS_Subset
  <2> QED BY <2>1, SumTerm
<1>2. {} \in F
  <2>1. SumFunctionOnSet(g, {}) = 0
    BY FS_EmptySet, SumUnfolds
  <2>2. S \ {} = S /\ SumFunctionOnSet(g, S) \in Int
    BY <1>1
  <2> QED BY <2>1, <2>2
<1>3. ASSUME NEW T \in SUBSET Part, T # {}, \A x \in T : T \ {x} \in F PROVE T \in F
  <2>1. PICK x \in T : TRUE
    BY <1>3
  <2>2. PICK More : More = S \ (T \ {x})
    OBVIOUS
  <2>3. T \in SUBSET S /\ More \in SUBSET S /\ x \in More /\ More \ {x} = S \ T
    BY <2>2
  <2>4. SumFunctionOnSet(g, T) = g[x] + SumFunctionOnSet(g, T \ {x})
    BY <1>1, <2>1, <2>3, SumTerm
  <2>5. SumFunctionOnSet(g, More) = g[x] + SumFunctionOnSet(g, S \ T)
    BY <1>1, <2>3, SumTerm
  <2>6. SumFunctionOnSet(g, S) = SumFunctionOnSet(g, T \ {x}) + SumFunctionOnSet(g, More)
    BY <1>3, <2>1, <2>2
  <2>7. g[x] \in Int /\ SumFunctionOnSet(g, T \ {x}) \in Int /\ SumFunctionOnSet(g, S \ T) \in Int
    BY <1>1, <2>1
  <2> QED BY <2>4, <2>5, <2>6, <2>7
<1>4. Part \in F
  <2>1. IsFiniteSet(Part)
    BY FS_Subset
  <2> HIDE DEF F
  <2> QED BY <1>2, <1>3, <2>1, SetsByRemoving
<1> QED BY <1>4

\* A common factor of the terms is a factor of the sum.
LEMMA SumScaled ==
    ASSUME NEW S, IsFiniteSet(S), NEW g, NEW f, NEW k \in Int, \A x \in S : g[x] \in Int /\ f[x] = k * g[x]
    PROVE  SumFunctionOnSet(f, S) = k * SumFunctionOnSet(g, S)
<1> DEFINE F == {T \in SUBSET S : SumFunctionOnSet(f, T) = k * SumFunctionOnSet(g, T)}
<1>1. {} \in F
  <2>1. SumFunctionOnSet(f, {}) = 0 /\ SumFunctionOnSet(g, {}) = 0
    BY FS_EmptySet, SumUnfolds
  <2> QED BY <2>1
<1>2. ASSUME NEW T \in SUBSET S, T # {}, \A x \in T : T \ {x} \in F PROVE T \in F
  <2>1. PICK x \in T : TRUE
    BY <1>2
  <2>2. IsFiniteSet(T) /\ \A y \in T : g[y] \in Int
    BY FS_Subset
  <2>3. \A y \in T : f[y] \in Int
    OBVIOUS
  <2>4. PICK a : a = SumFunctionOnSet(g, T \ {x})
    OBVIOUS
  <2>5. SumFunctionOnSet(g, T) = g[x] + a /\ a \in Int
    BY <2>1, <2>2, <2>4, SumTerm
  <2>6. SumFunctionOnSet(f, T) = f[x] + SumFunctionOnSet(f, T \ {x})
    BY <2>1, <2>2, <2>3, SumTerm
  <2>7. SumFunctionOnSet(f, T) = k * g[x] + k * a
    BY <1>2, <2>1, <2>4, <2>6
  <2>8. k * (g[x] + a) = k * g[x] + k * a
    BY <2>1, <2>2, <2>5
  <2> QED BY <2>5, <2>7, <2>8
<1>3. S \in F
  <2> HIDE DEF F
  <2> QED BY <1>1, <1>2, SetsByRemoving
<1> QED BY <1>3

\* What a function makes of finitely many values is finite.
LEMMA ImageFinite ==
    ASSUME NEW S, IsFiniteSet(S), NEW h PROVE IsFiniteSet({h[x] : x \in S})
<1>1. [x \in S |-> h[x]] \in Surjection(S, {h[x] : x \in S})
  BY DEF Surjection
<1> QED BY <1>1, FS_Surjection

\* h takes S to T, one to one.
Carries(h, S, T) == /\ \A x, y \in S : h[x] = h[y] => x = y
                    /\ \A y : y \in T <=> \E x \in S : y = h[x]

\* Terms that are carried over one to one have the same sum.
LEMMA SumImage ==
    ASSUME NEW S, IsFiniteSet(S), NEW h, NEW T, Carries(h, S, T), NEW f, NEW g,
           \A x \in S : f[x] \in Int /\ g[h[x]] = f[x]
    PROVE  SumFunctionOnSet(g, T) = SumFunctionOnSet(f, S)
<1> DEFINE Img(U) == {h[x] : x \in U}
           F == {U \in SUBSET S : SumFunctionOnSet(g, Img(U)) = SumFunctionOnSet(f, U)}
<1>1. {} \in F
  <2>1. SumFunctionOnSet(g, {}) = 0 /\ SumFunctionOnSet(f, {}) = 0
    BY FS_EmptySet, SumUnfolds
  <2>2. Img({}) = {}
    OBVIOUS
  <2> QED BY <2>1, <2>2
<1>2. ASSUME NEW U \in SUBSET S, U # {}, \A x \in U : U \ {x} \in F PROVE U \in F
  <2>1. PICK x \in U : TRUE
    BY <1>2
  <2>2. IsFiniteSet(U) /\ IsFiniteSet(Img(U))
    <3>1. IsFiniteSet(U)
      BY FS_Subset
    <3> QED BY <3>1, ImageFinite
  <2>3. h[x] \in Img(U) /\ Img(U) \ {h[x]} = Img(U \ {x})
    BY <2>1 DEF Carries
  <2>4. \A y \in Img(U) : g[y] \in Int
    OBVIOUS
  <2>5. \A y \in U : f[y] \in Int
    OBVIOUS
  <2>6. SumFunctionOnSet(f, U) = f[x] + SumFunctionOnSet(f, U \ {x})
    BY <2>1, <2>2, <2>5, SumTerm
  <2>7. SumFunctionOnSet(g, Img(U)) = g[h[x]] + SumFunctionOnSet(g, Img(U) \ {h[x]})
    <3> HIDE DEF Img
    <3> QED BY <2>2, <2>3, <2>4, SumTerm
  <2>8. SumFunctionOnSet(g, Img(U \ {x})) = SumFunctionOnSet(f, U \ {x}) /\ g[h[x]] = f[x]
    BY <1>2, <2>1
  <2> QED BY <2>3, <2>6, <2>7, <2>8
<1>3. S \in F
  <2> HIDE DEF F
  <2> QED BY <1>1, <1>2, SetsByRemoving
<1>4. T = Img(S)
  BY DEF Carries
<1> QED BY <1>3, <1>4

\* A sum is the sum of the sums of its classes.
LEMMA SumClasses ==
    ASSUME NEW S, IsFiniteSet(S), NEW K, IsFiniteSet(K), NEW g, NEW c, NEW part,
           \A x \in S : g[x] \in Int /\ c[x] \in K,
           NEW class, \A k \in K : class[k] \in SUBSET S /\ \A x \in S : x \in class[k] <=> c[x] = k,
           \A k \in K : part[k] = SumFunctionOnSet(g, class[k])
    PROVE  SumFunctionOnSet(part, K) = SumFunctionOnSet(g, S)
<1> DEFINE Of(T) == {x \in S : c[x] \in T}
           F == {T \in SUBSET K : SumFunctionOnSet(part, T) = SumFunctionOnSet(g, Of(T))}
<1>1. \A T : Of(T) \in SUBSET S /\ IsFiniteSet(Of(T)) /\ SumFunctionOnSet(g, Of(T)) \in Int
  <2> TAKE T
  <2>1. Of(T) \in SUBSET S /\ IsFiniteSet(Of(T)) /\ \A x \in Of(T) : g[x] \in Int
    BY FS_Subset
  <2> HIDE DEF Of
  <2> QED BY <2>1, SumTerm
<1>2. \A k \in K : part[k] = SumFunctionOnSet(g, class[k]) /\ part[k] \in Int
  <2> TAKE k \in K
  <2>1. class[k] = Of({k})
    OBVIOUS
  <2>2. part[k] = SumFunctionOnSet(g, class[k])
    OBVIOUS
  <2>3. SumFunctionOnSet(g, Of({k})) \in Int
    BY <1>1
  <2> HIDE DEF Of
  <2> QED BY <2>1, <2>2, <2>3
<1>3. {} \in F
  <2>1. SumFunctionOnSet(g, {}) = 0 /\ SumFunctionOnSet(part, {}) = 0
    BY FS_EmptySet, SumUnfolds
  <2>2. Of({}) = {}
    OBVIOUS
  <2> QED BY <2>1, <2>2
<1>4. ASSUME NEW T \in SUBSET K, T # {}, \A k \in T : T \ {k} \in F PROVE T \in F
  <2>1. PICK k \in T : TRUE
    BY <1>4
  <2>2. SumFunctionOnSet(part, T) = part[k] + SumFunctionOnSet(part, T \ {k})
    <3>1. IsFiniteSet(T) /\ \A j \in T : part[j] \in Int
      BY <1>2, FS_Subset
    <3> QED BY <2>1, <3>1, SumTerm
  <2>3. class[k] \in SUBSET Of(T) /\ Of(T) \ class[k] = Of(T \ {k})
    BY <2>1
  <2>4. SumFunctionOnSet(g, Of(T)) = SumFunctionOnSet(g, class[k]) + SumFunctionOnSet(g, Of(T) \ class[k])
    <3>1. IsFiniteSet(Of(T)) /\ \A x \in Of(T) : g[x] \in Int
      BY <1>1
    <3> HIDE DEF Of
    <3> QED BY <2>3, <3>1, SumSplit
  <2>5. SumFunctionOnSet(part, T \ {k}) = SumFunctionOnSet(g, Of(T \ {k}))
    BY <1>4, <2>1
  <2> QED BY <1>2, <2>1, <2>2, <2>3, <2>4, <2>5
<1>5. K \in F
  <2> HIDE DEF F
  <2> QED BY <1>3, <1>4, SetsByRemoving
<1>6. Of(K) = S
  OBVIOUS
<1> QED BY <1>5, <1>6
==============================================================================
