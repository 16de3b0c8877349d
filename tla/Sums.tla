-------------------------------- MODULE Sums --------------------------------
(***************************************************************************)
(* Sums over finite sets, for proofs.  MapThenSumSet of the community      *)
(* modules is a recursion that takes the elements of a set in the order    *)
(* CHOOSE picks them; here it is shown that the order does not matter, by  *)
(* looking at a smallest set on which it would.                            *)
(***************************************************************************)
EXTENDS Integers, FiniteSets, FiniteSetTheorems, WellFoundedInduction, TLAPS

\* A set of natural numbers has a least element.
LEMMA LeastNumber ==
  ASSUME NEW T \in SUBSET Nat, T # {}
  PROVE \E n \in T : \A m \in T : n <= m
PROOF
<1>. DEFINE R == {p \in Nat \X Nat : p[1] < p[2]}
<1>1. R = OpToRel(<, Nat) BY DEF OpToRel
<1>2. IsWellFoundedOn(R, Nat) BY <1>1, NatLessThanWellFounded
<1>3. \A m, n \in Nat : <<m, n>> \in R <=> m < n OBVIOUS
<1>. HIDE DEF R
<1>4. \E n \in T : \A m \in T : ~ (<<m, n>> \in R) BY <1>2, WFMin
<1>5. PICK n \in T : \A m \in T : ~ (<<m, n>> \in R) BY <1>4
<1>6. ASSUME NEW m \in T PROVE n <= m
  <2>1. m \in Nat /\ n \in Nat OBVIOUS
  <2>2. ~ (<<m, n>> \in R) BY <1>5
  <2>. QED BY <1>3, <2>1, <2>2
<1>. QED BY <1>6

\* Of the finite sets in a collection one is smallest.
LEMMA SmallestSet ==
  ASSUME NEW C, C # {}, \A s \in C : IsFiniteSet(s)
  PROVE \E s \in C : \A t \in C : Cardinality(s) <= Cardinality(t)
PROOF
<1>. DEFINE T == {Cardinality(s) : s \in C}
<1>1. T \in SUBSET Nat BY FS_CardinalityType
<1>2. T # {} OBVIOUS
<1>3. PICK n \in T : \A m \in T : n <= m BY <1>1, <1>2, LeastNumber
<1>. QED BY <1>3

\* The element a recursion takes next.
Choice(s) == CHOOSE x \in s : TRUE

\* The function it holds, for every subset of S, the sum of h over it.
IsSums(it, h, S) ==
  it = [s \in SUBSET S |-> IF s = {} THEN 0 ELSE h[Choice(s)] + it[s \ {Choice(s)}]]

SumOf(h, S) == (CHOOSE it : IsSums(it, h, S))[S]

\* ... is one of its elements.
LEMMA ChoiceIsElement == ASSUME NEW s, s # {} PROVE Choice(s) \in s
PROOF BY DEF Choice

\* Removing an element of a finite set makes it smaller.
LEMMA Smaller ==
  ASSUME NEW s, IsFiniteSet(s), NEW x \in s
  PROVE IsFiniteSet(s \ {x}) /\ Cardinality(s \ {x}) < Cardinality(s)
PROOF
<1>1. IsFiniteSet(s \ {x}) /\ Cardinality(s \ {x}) = Cardinality(s) - 1 BY FS_RemoveElement
<1>2. Cardinality(s) \in Nat BY FS_CardinalityType
<1>. QED BY <1>1, <1>2

\* Up to a size: the recursion on the subsets of S of at most n elements.
UpTo(n, S) == {s \in SUBSET S : Cardinality(s) <= n}
IsSumsUpTo(it, h, S, n) ==
  it = [s \in UpTo(n, S) |-> IF s = {} THEN 0 ELSE h[Choice(s)] + it[s \ {Choice(s)}]]

LEMMA SumsGrow ==
  ASSUME NEW S, IsFiniteSet(S), NEW h, NEW n \in Nat, NEW it, IsSumsUpTo(it, h, S, n)
  PROVE \E jt : IsSumsUpTo(jt, h, S, n + 1)
PROOF
<1>. DEFINE jt == [s \in UpTo(n + 1, S) |-> IF s = {} THEN 0 ELSE h[Choice(s)] + it[s \ {Choice(s)}]]
<1>1. ASSUME NEW s \in UpTo(n + 1, S), s # {}
      PROVE s \ {Choice(s)} \in UpTo(n, S)
  BY <1>1, Smaller, ChoiceIsElement, FS_Subset, FS_CardinalityType DEF UpTo
<1>2. UpTo(n, S) \subseteq UpTo(n + 1, S) BY FS_Subset, FS_CardinalityType DEF UpTo
<1>3. \A t \in UpTo(n, S) : jt[t] = it[t] BY <1>2 DEF IsSumsUpTo
<1>4. \A s \in UpTo(n + 1, S) : s # {} => jt[s \ {Choice(s)}] = it[s \ {Choice(s)}] BY <1>1, <1>3
<1>. HIDE DEF UpTo
<1>5. jt = [s \in UpTo(n + 1, S) |-> IF s = {} THEN 0 ELSE h[Choice(s)] + jt[s \ {Choice(s)}]]
  BY <1>4
<1>. QED BY <1>5 DEF IsSumsUpTo

\* The recursion has a solution.
LEMMA SumsExist ==
  ASSUME NEW S, IsFiniteSet(S), NEW h
  PROVE \E it : IsSums(it, h, S)
PROOF
<1>. DEFINE T == {n \in Nat : ~ \E it : IsSumsUpTo(it, h, S, n)}
<1>1. 0 \notin T
  <2>1. UpTo(0, S) = {{}} BY FS_EmptySet, FS_Subset, FS_CardinalityType DEF UpTo
  <2>. DEFINE it == [s \in UpTo(0, S) |-> 0]
  <2>2. IsSumsUpTo(it, h, S, 0) BY <2>1 DEF IsSumsUpTo
  <2>. QED BY <2>2
<1>2. T = {}
  <2>. SUFFICES ASSUME T # {} PROVE FALSE OBVIOUS
  <2>1. PICK n \in T : \A m \in T : n <= m BY LeastNumber
  <2>2. n - 1 \in Nat /\ n - 1 \notin T BY <1>1, <2>1
  <2>3. PICK it : IsSumsUpTo(it, h, S, n - 1) BY <2>2
  <2>4. \E jt : IsSumsUpTo(jt, h, S, (n - 1) + 1) BY <2>2, <2>3, SumsGrow
  <2>5. (n - 1) + 1 = n OBVIOUS
  <2>. QED BY <2>4, <2>5
<1>3. Cardinality(S) \in Nat BY FS_CardinalityType
<1>4. PICK it : IsSumsUpTo(it, h, S, Cardinality(S)) BY <1>2, <1>3
<1>5. UpTo(Cardinality(S), S) = SUBSET S BY FS_Subset DEF UpTo
<1>. QED BY <1>4, <1>5 DEF IsSums, IsSumsUpTo

\* What it holds at a set.
LEMMA SumsAt ==
  ASSUME NEW S, NEW h, NEW it, IsSums(it, h, S), NEW s \in SUBSET S
  PROVE it[s] = IF s = {} THEN 0 ELSE h[Choice(s)] + it[s \ {Choice(s)}]
PROOF BY DEF IsSums

\* Sums of the same numbers are the same.
LEMMA SumsAgree ==
  ASSUME NEW S, IsFiniteSet(S), NEW h, NEW it, IsSums(it, h, S),
         NEW R, NEW g, NEW jt, IsSums(jt, g, R),
         NEW s \in SUBSET (S \cap R), \A x \in s : h[x] = g[x]
  PROVE it[s] = jt[s]
PROOF
<1>. DEFINE C == {t \in SUBSET s : it[t] # jt[t]}
<1>. SUFFICES ASSUME C # {} PROVE FALSE OBVIOUS
<1>1. \A t \in C : IsFiniteSet(t) BY FS_Subset
<1>2. PICK t \in C : \A u \in C : Cardinality(t) <= Cardinality(u)
  <2>. HIDE DEF C
  <2>. QED BY <1>1, SmallestSet
<1>3. t # {} BY SumsAt
<1>4. Choice(t) \in t BY <1>3, ChoiceIsElement
<1>5. t \ {Choice(t)} \notin C BY <1>1, <1>2, <1>4, Smaller, FS_CardinalityType
<1>6. it[t \ {Choice(t)}] = jt[t \ {Choice(t)}] BY <1>5
<1>7. it[t] = jt[t] BY <1>3, <1>4, <1>6, SumsAt
<1>. QED BY <1>7

\* A sum of natural numbers is one.
LEMMA SumsNat ==
  ASSUME NEW S, IsFiniteSet(S), NEW h, \A x \in S : h[x] \in Nat, NEW it, IsSums(it, h, S),
         NEW s \in SUBSET S
  PROVE it[s] \in Nat
PROOF
<1>. DEFINE C == {t \in SUBSET S : it[t] \notin Nat}
<1>. SUFFICES ASSUME C # {} PROVE FALSE OBVIOUS
<1>1. \A t \in C : IsFiniteSet(t) BY FS_Subset
<1>2. PICK t \in C : \A u \in C : Cardinality(t) <= Cardinality(u)
  <2>. HIDE DEF C
  <2>. QED BY <1>1, SmallestSet
<1>3. t # {} BY SumsAt
<1>4. Choice(t) \in t BY <1>3, ChoiceIsElement
<1>5. t \ {Choice(t)} \notin C BY <1>1, <1>2, <1>4, Smaller, FS_CardinalityType
<1>6. it[t \ {Choice(t)}] \in Nat BY <1>5
<1>7. it[t] = h[Choice(t)] + it[t \ {Choice(t)}] BY <1>3, SumsAt
<1>8. h[Choice(t)] \in Nat BY <1>4
<1>. QED BY <1>6, <1>7, <1>8

\* Any element may be taken first.
LEMMA SumsSplit ==
  ASSUME NEW S, IsFiniteSet(S), NEW h, \A x \in S : h[x] \in Nat, NEW it, IsSums(it, h, S),
         NEW s \in SUBSET S, NEW y \in s
  PROVE it[s] = h[y] + it[s \ {y}]
PROOF
<1>. DEFINE Wrong(t) == \E x \in t : it[t] # h[x] + it[t \ {x}]
            C == {t \in SUBSET S : Wrong(t)}
<1>. SUFFICES ASSUME C # {} PROVE FALSE OBVIOUS
<1>1. \A t \in C : IsFiniteSet(t) BY FS_Subset
<1>2. PICK t \in C : \A u \in C : Cardinality(t) <= Cardinality(u)
  <2>. HIDE DEF C
  <2>. QED BY <1>1, SmallestSet
<1>3. PICK x \in t : it[t] # h[x] + it[t \ {x}] OBVIOUS
<1>. DEFINE c == Choice(t)
<1>4. c \in t BY ChoiceIsElement
<1>5. it[t] = h[c] + it[t \ {c}] BY <1>4, SumsAt
<1>6. x # c BY <1>3, <1>5
<1>7. \A z \in t : \A v \in t \ {z} : it[t \ {z}] = h[v] + it[(t \ {z}) \ {v}]
  <2>. TAKE z \in t
  <2>1. IsFiniteSet(t) BY <1>1
  <2>2. IsFiniteSet(t \ {z}) /\ Cardinality(t \ {z}) < Cardinality(t) BY <2>1, Smaller
  <2>3. Cardinality(t) \in Nat /\ Cardinality(t \ {z}) \in Nat BY <2>1, <2>2, FS_CardinalityType
  <2>4. t \ {z} \notin C
    <3>. HIDE DEF C
    <3>. QED BY <1>2, <2>2, <2>3
  <2>5. ~ Wrong(t \ {z}) BY <2>4
  <2>. QED BY <2>5
<1>. HIDE DEF c
<1>8. it[t \ {c}] = h[x] + it[(t \ {c}) \ {x}] BY <1>4, <1>6, <1>7
<1>9. it[t \ {x}] = h[c] + it[(t \ {x}) \ {c}] BY <1>4, <1>6, <1>7
<1>10. (t \ {c}) \ {x} = (t \ {x}) \ {c} OBVIOUS
<1>11. it[(t \ {c}) \ {x}] \in Nat BY SumsNat
<1>12. h[c] \in Nat /\ h[x] \in Nat BY <1>4
<1>13. PICK u \in Nat : u = it[(t \ {c}) \ {x}] BY <1>11
<1>14. it[t] = h[c] + (h[x] + u) BY <1>5, <1>8, <1>13
<1>15. it[t \ {x}] = h[c] + u BY <1>9, <1>10, <1>13
<1>16. h[c] + (h[x] + u) = h[x] + (h[c] + u) BY <1>12
<1>17. it[t] = h[x] + it[t \ {x}] BY <1>14, <1>15, <1>16
<1>. QED BY <1>3, <1>17
-----------------------------------------------------------------------------
\* The sum over S is the value the recursion gives at S.
LEMMA SumOfIsSum ==
  ASSUME NEW S, IsFiniteSet(S), NEW h
  PROVE \E it : IsSums(it, h, S) /\ SumOf(h, S) = it[S]
PROOF BY SumsExist DEF SumOf

\* Nothing adds up to zero.
LEMMA SumOfNothing == \A h : SumOf(h, {}) = 0
PROOF
<1>. TAKE h
<1>1. PICK it : IsSums(it, h, {}) /\ SumOf(h, {}) = it[{}] BY SumOfIsSum, FS_EmptySet
<1>. QED BY <1>1, SumsAt

\* A sum of natural numbers is one.
LEMMA SumOfNaturals ==
  ASSUME NEW S, IsFiniteSet(S), NEW h, \A x \in S : h[x] \in Nat
  PROVE SumOf(h, S) \in Nat
PROOF
<1>1. PICK it : IsSums(it, h, S) /\ SumOf(h, S) = it[S] BY SumOfIsSum
<1>. QED BY <1>1, SumsNat

\* A sum depends on the numbers of the set only.
LEMMA SumOfSame ==
  ASSUME NEW S, IsFiniteSet(S), NEW h, NEW g, \A x \in S : h[x] = g[x]
  PROVE SumOf(h, S) = SumOf(g, S)
PROOF
<1>1. PICK it : IsSums(it, h, S) /\ SumOf(h, S) = it[S] BY SumOfIsSum
<1>2. PICK jt : IsSums(jt, g, S) /\ SumOf(g, S) = jt[S] BY SumOfIsSum
<1>3. S \in SUBSET (S \cap S) OBVIOUS
<1>4. it[S] = jt[S] BY <1>1, <1>2, <1>3, SumsAgree
<1>. QED BY <1>1, <1>2, <1>4

\* Any element may be set apart.
LEMMA SumOfSplit ==
  ASSUME NEW S, IsFiniteSet(S), NEW h, \A x \in S : h[x] \in Nat, NEW y \in S
  PROVE SumOf(h, S) = h[y] + SumOf(h, S \ {y})
PROOF
<1>1. PICK it : IsSums(it, h, S) /\ SumOf(h, S) = it[S] BY SumOfIsSum
<1>2. IsFiniteSet(S \ {y}) BY FS_Subset
<1>3. PICK jt : IsSums(jt, h, S \ {y}) /\ SumOf(h, S \ {y}) = jt[S \ {y}] BY <1>2, SumOfIsSum
<1>4. S \ {y} \in SUBSET (S \cap (S \ {y})) OBVIOUS
<1>5. it[S \ {y}] = jt[S \ {y}] BY <1>1, <1>3, <1>4, SumsAgree
<1>6. it[S] = h[y] + it[S \ {y}] BY <1>1, SumsSplit
<1>. QED BY <1>1, <1>3, <1>5, <1>6

\* Elements that count nothing may be left out.
LEMMA SumOfRest ==
  ASSUME NEW S, IsFiniteSet(S), NEW h, \A x \in S : h[x] \in Nat,
         NEW T \in SUBSET S, \A x \in S \ T : h[x] = 0
  PROVE SumOf(h, S) = SumOf(h, T)
PROOF
<1>. DEFINE C == {t \in SUBSET S : T \subseteq t /\ SumOf(h, t) # SumOf(h, T)}
<1>. SUFFICES ASSUME C # {} PROVE FALSE OBVIOUS
<1>1. \A t \in C : IsFiniteSet(t) BY FS_Subset
<1>2. PICK t \in C : \A u \in C : Cardinality(t) <= Cardinality(u)
  <2>. HIDE DEF C
  <2>. QED BY <1>1, SmallestSet
<1>3. PICK x \in t : x \notin T OBVIOUS
<1>4. SumOf(h, t) = h[x] + SumOf(h, t \ {x}) BY <1>1, SumOfSplit
<1>5. t \ {x} \notin C BY <1>1, <1>2, <1>3, Smaller, FS_CardinalityType
<1>6. SumOf(h, t \ {x}) = SumOf(h, T) BY <1>3, <1>5
<1>7. SumOf(h, T) \in Nat BY FS_Subset, SumOfNaturals
<1>8. h[x] = 0 BY <1>3
<1>. QED BY <1>4, <1>6, <1>7, <1>8

\* A sum grows with what it adds up.
LEMMA SumOfGrowing ==
  ASSUME NEW S, IsFiniteSet(S), NEW h, NEW g,
         \A x \in S : h[x] \in Nat /\ g[x] \in Nat /\ h[x] <= g[x]
  PROVE SumOf(h, S) <= SumOf(g, S)
PROOF
<1>. DEFINE C == {t \in SUBSET S : ~ SumOf(h, t) <= SumOf(g, t)}
<1>. SUFFICES ASSUME C # {} PROVE FALSE OBVIOUS
<1>1. \A t \in C : IsFiniteSet(t) BY FS_Subset
<1>2. PICK t \in C : \A u \in C : Cardinality(t) <= Cardinality(u)
  <2>. HIDE DEF C
  <2>. QED BY <1>1, SmallestSet
<1>3. t # {} BY SumOfNothing
<1>4. PICK x \in t : TRUE BY <1>3
<1>5. SumOf(h, t) = h[x] + SumOf(h, t \ {x}) BY <1>1, SumOfSplit
<1>6. SumOf(g, t) = g[x] + SumOf(g, t \ {x}) BY <1>1, SumOfSplit
<1>7. t \ {x} \notin C BY <1>1, <1>2, Smaller, FS_CardinalityType
<1>8. SumOf(h, t \ {x}) <= SumOf(g, t \ {x}) BY <1>7
<1>9. SumOf(h, t \ {x}) \in Nat /\ SumOf(g, t \ {x}) \in Nat BY FS_Subset, SumOfNaturals
<1>10. h[x] \in Nat /\ g[x] \in Nat /\ h[x] <= g[x] OBVIOUS
<1>11. PICK a, b, c, d \in Nat :
         a = h[x] /\ b = g[x] /\ c = SumOf(h, t \ {x}) /\ d = SumOf(g, t \ {x})
  BY <1>9, <1>10
<1>12. a + c <= b + d BY <1>8, <1>10, <1>11
<1>. QED BY <1>5, <1>6, <1>11, <1>12

\* A sum with one number changed.
LEMMA SumOfChange ==
  ASSUME NEW S, IsFiniteSet(S), NEW h, NEW g, \A y \in S : h[y] \in Nat /\ g[y] \in Nat,
         NEW x \in S, \A y \in S \ {x} : g[y] = h[y]
  PROVE /\ SumOf(g, S) = g[x] + SumOf(h, S \ {x})
        /\ SumOf(h, S \ {x}) <= SumOf(h, S)
PROOF
<1>1. IsFiniteSet(S \ {x}) BY FS_Subset
<1>2. SumOf(g, S \ {x}) = SumOf(h, S \ {x}) BY <1>1, SumOfSame
<1>3. SumOf(g, S) = g[x] + SumOf(g, S \ {x}) BY SumOfSplit
<1>4. SumOf(h, S) = h[x] + SumOf(h, S \ {x}) BY SumOfSplit
<1>5. SumOf(h, S \ {x}) \in Nat /\ h[x] \in Nat BY <1>1, SumOfNaturals
<1>6. PICK n \in Nat, m \in Nat : n = SumOf(h, S \ {x}) /\ m = h[x] BY <1>5
<1>7. n <= m + n BY <1>6
<1>8. SumOf(h, S \ {x}) <= SumOf(h, S) BY <1>4, <1>6, <1>7
<1>. QED BY <1>2, <1>3, <1>8
=============================================================================
