-------------------------- MODULE AuctionHouseProofs --------------------------
(***************************************************************************)
(* Theorems about gold, units and letters, for any players, units, prices  *)
(* and fees, any number of workers of the database, of auctions, of        *)
(* transactions waiting and of ends of the process.                        *)
(*                                                                         *)
(* What a crash may fall back to, and what a query that is queued will     *)
(* read, are the stores At(0), ..., At(Len(queue)): the tables after so    *)
(* many of the operations that wait. AuctionInv says of all of them that   *)
(* they are sound, and how memory and mailboxes lie among them. BalanceInv *)
(* adds that each of them holds every unit once and the gold there was:    *)
(* Balanced says it of a step from one store to the next, in sums weighted *)
(* by units or gold. Fair says of such a step that no player is the worse  *)
(* for it. A worker that is faster than another puts tables between two    *)
(* stores that are Mixed from these, row by row, and keeps both.           *)
(***************************************************************************)
EXTENDS AuctionHouse, WellFoundedInduction, FiniteSetTheorems, TLAPS

-----------------------------------------------------------------------------
(* Induction, by least counterexamples.                                    *)

LEMMA LeastNumber ==
    ASSUME NEW T \in SUBSET Nat, T # {}
    PROVE  \E n \in T : \A m \in T : n <= m
<1>1. PICK n \in T : \A m \in T : ~(<<m, n>> \in OpToRel(<, Nat))
  BY NatLessThanWellFounded, WFMin
<1>2. ASSUME NEW m \in T PROVE n <= m
  <2>1. m \in Nat /\ n \in Nat /\ <<m, n>> \in Nat \X Nat
    OBVIOUS
  <2>2. m < n => <<m, n>> \in OpToRel(<, Nat)
    BY <2>1 DEF OpToRel
  <2>3. ~(m < n)
    BY <1>1, <2>2, Zenon
  <2> QED
    BY <2>1, <2>3
<1> QED
  BY <1>2

\* Among sets taken from the subsets of a finite one is one that is none of
\* them any more whatever element it loses.
LEMMA LeastSet ==
    ASSUME NEW S, IsFiniteSet(S), NEW Bad \in SUBSET (SUBSET S), Bad # {}
    PROVE  \E s \in Bad : IsFiniteSet(s) /\ \A x \in s : s \ {x} \notin Bad
<1> DEFINE sizes == {n \in Nat : \E s \in Bad : Cardinality(s) = n}
<1>1. \A s \in Bad : IsFiniteSet(s) /\ Cardinality(s) \in Nat
  BY FS_Subset, FS_CardinalityType
<1>2. sizes \in SUBSET Nat /\ sizes # {}
  BY <1>1
<1>3. PICK n \in sizes : \A m \in sizes : n <= m
  BY <1>2, LeastNumber
<1>4. PICK s \in Bad : Cardinality(s) = n
  BY <1>3
<1>5. ASSUME NEW x \in s, s \ {x} \in Bad PROVE FALSE
  <2>1. Cardinality(s \ {x}) = n - 1 /\ n - 1 \in Nat
    BY <1>1, <1>4, <1>5, FS_RemoveElement
  <2>2. n - 1 \in sizes
    BY <1>5, <2>1
  <2>3. n <= n - 1 /\ n \in Nat
    BY <1>3, <2>2
  <2> QED
    BY <2>3
<1> QED
  BY <1>1, <1>4, <1>5

-----------------------------------------------------------------------------
(* Sums over finite sets: the equation by which SumFunctionOnSet is        *)
(* defined has a solution, and the solution does not depend on the order   *)
(* in which elements are taken.                                            *)

Taken(s) == CHOOSE x \in s : TRUE

Solves(g, f, D) ==
    g = [s \in D |-> IF s = {} THEN 0 ELSE f[Taken(s)] + g[s \ {Taken(s)}]]

LEMMA SumByDefinition ==
    ASSUME NEW f, NEW S, NEW g, Solves(g, f, SUBSET S)
    PROVE  \E h : Solves(h, f, SUBSET S) /\ SumFunctionOnSet(f, S) = h[S]
BY DEF SumFunctionOnSet, FoldFunctionOnSet, MapThenFoldSet, Solves, Taken

LEMMA TakenIn ==
    ASSUME NEW s, s # {}
    PROVE  Taken(s) \in s
BY DEF Taken

LEMMA SolutionExists ==
    ASSUME NEW f, NEW S, IsFiniteSet(S)
    PROVE  \E g : Solves(g, f, SUBSET S)
<1> DEFINE small(n) == {s \in SUBSET S : Cardinality(s) <= n}
           fails == {n \in Nat : ~ \E g : Solves(g, f, small(n))}
<1>1. \A s \in SUBSET S : IsFiniteSet(s) /\ Cardinality(s) \in Nat
  BY FS_Subset, FS_CardinalityType
<1>2. fails = {}
  <2> SUFFICES ASSUME fails # {} PROVE FALSE
    OBVIOUS
  <2>1. PICK n \in fails : \A m \in fails : n <= m
    <3> HIDE DEF fails
    <3>1. fails \in SUBSET Nat
      BY DEF fails
    <3> QED BY <3>1, LeastNumber
  <2>2. CASE n = 0
    <3>1. \A s \in small(0) : s = {}
      <4>1. \A s \in SUBSET S : Cardinality(s) <= 0 => Cardinality(s) = 0
        BY <1>1
      <4> QED BY <1>1, <4>1, FS_EmptySet
    <3>2. Solves([s \in small(0) |-> 0], f, small(0))
      BY <3>1 DEF Solves
    <3> QED BY <2>1, <2>2, <3>2
  <2>3. CASE n # 0
    <3>1. n \in Nat /\ n - 1 \in Nat
      BY <2>1, <2>3
    <3>2. n - 1 \notin fails
      <4> HIDE DEF fails
      <4>1. n - 1 \in fails => n <= n - 1
        BY <2>1
      <4> QED BY <3>1, <4>1
    <3>3. PICK g : Solves(g, f, small(n - 1))
      BY <3>1, <3>2
    <3> DEFINE h == [s \in small(n) |-> IF s = {} THEN 0 ELSE f[Taken(s)] + g[s \ {Taken(s)}]]
    <3>4. \A s \in small(n) : s # {} => s \ {Taken(s)} \in small(n - 1)
      <4>1. SUFFICES ASSUME NEW s \in small(n), s # {}
                     PROVE  s \ {Taken(s)} \in small(n - 1)
        OBVIOUS
      <4>2. Taken(s) \in s /\ IsFiniteSet(s) /\ Cardinality(s) \in Nat /\ Cardinality(s) <= n
        BY <1>1, <4>1, TakenIn
      <4>3. Cardinality(s \ {Taken(s)}) = Cardinality(s) - 1
        BY <4>2, FS_RemoveElement
      <4> QED BY <2>1, <4>2, <4>3
    <3>5. \A s \in small(n - 1) : s \in small(n) /\ h[s] = g[s]
      <4>1. \A s \in small(n - 1) : s \in small(n)
        BY <1>1, <2>1
      <4>2. \A s \in small(n - 1) : g[s] = IF s = {} THEN 0 ELSE f[Taken(s)] + g[s \ {Taken(s)}]
        BY <3>3 DEF Solves
      <4> QED BY <4>1, <4>2
    <3>6. \A s \in small(n) : h[s] = IF s = {} THEN 0 ELSE f[Taken(s)] + h[s \ {Taken(s)}]
      <4> HIDE DEF small
      <4> QED BY <3>4, <3>5
    <3>7. Solves(h, f, small(n))
      <4>1. h = [s \in small(n) |-> IF s = {} THEN 0 ELSE f[Taken(s)] + h[s \ {Taken(s)}]]
        <5>1. h = [s \in small(n) |-> h[s]]
          OBVIOUS
        <5> HIDE DEF h, small
        <5> QED BY <3>6, <5>1
      <4> QED BY <4>1 DEF Solves
    <3> QED BY <2>1, <3>7
  <2> QED
    BY <2>2, <2>3
<1>3. Cardinality(S) \in Nat /\ small(Cardinality(S)) = SUBSET S
  <2>1. \A s \in SUBSET S : Cardinality(s) <= Cardinality(S)
    BY FS_Subset
  <2> QED
    BY <1>1, <2>1
<1> QED
  BY <1>2, <1>3

\* Two solutions agree where both are defined, if what they add up agrees.
LEMMA SolutionUnique ==
    ASSUME NEW f, NEW g, NEW S, NEW h, NEW k, NEW T, NEW R, IsFiniteSet(R),
           R \subseteq S, R \subseteq T,
           Solves(h, f, SUBSET S), Solves(k, g, SUBSET T),
           \A x \in R : f[x] = g[x]
    PROVE  h[R] = k[R]
<1> DEFINE bad == {s \in SUBSET R : h[s] # k[s]}
<1>1. SUFFICES ASSUME bad # {} PROVE FALSE
  OBVIOUS
<1>2. PICK s \in bad : \A x \in s : s \ {x} \notin bad
  <2> HIDE DEF bad
  <2>1. bad \in SUBSET (SUBSET R)
    BY DEF bad
  <2> QED
    BY <1>1, <2>1, LeastSet
<1>3. s \in SUBSET S /\ s \in SUBSET T
  BY <1>2
<1>4. /\ h[s] = IF s = {} THEN 0 ELSE f[Taken(s)] + h[s \ {Taken(s)}]
      /\ k[s] = IF s = {} THEN 0 ELSE g[Taken(s)] + k[s \ {Taken(s)}]
  BY <1>3 DEF Solves
<1>5. s # {}
  BY <1>2, <1>4
<1>6. Taken(s) \in s /\ Taken(s) \in R
  BY <1>2, <1>5, TakenIn
<1>7. h[s \ {Taken(s)}] = k[s \ {Taken(s)}]
  BY <1>2, <1>6
<1> QED
  BY <1>2, <1>4, <1>5, <1>6, <1>7

LEMMA SumSolution ==
    ASSUME NEW f, NEW S, IsFiniteSet(S)
    PROVE  \E h : Solves(h, f, SUBSET S) /\ SumFunctionOnSet(f, S) = h[S]
BY SolutionExists, SumByDefinition

LEMMA SumEqual ==
    ASSUME NEW S, IsFiniteSet(S), NEW f, NEW g, \A x \in S : f[x] = g[x]
    PROVE  SumFunctionOnSet(f, S) = SumFunctionOnSet(g, S)
<1>1. PICK h : Solves(h, f, SUBSET S) /\ SumFunctionOnSet(f, S) = h[S]
  BY SumSolution
<1>2. PICK k : Solves(k, g, SUBSET S) /\ SumFunctionOnSet(g, S) = k[S]
  BY SumSolution
<1> QED
  BY <1>1, <1>2, SolutionUnique

LEMMA SumEmpty ==
    ASSUME NEW f
    PROVE  SumFunctionOnSet(f, {}) = 0
<1>1. PICK h : Solves(h, f, SUBSET {}) /\ SumFunctionOnSet(f, {}) = h[{}]
  BY SumSolution, FS_EmptySet
<1> QED
  BY <1>1 DEF Solves

LEMMA SumTaken ==
    ASSUME NEW f, NEW S, IsFiniteSet(S), S # {}
    PROVE  SumFunctionOnSet(f, S) = f[Taken(S)] + SumFunctionOnSet(f, S \ {Taken(S)})
<1> DEFINE R == S \ {Taken(S)}
<1>1. PICK h : Solves(h, f, SUBSET S) /\ SumFunctionOnSet(f, S) = h[S]
  BY SumSolution
<1>2. IsFiniteSet(R)
  BY FS_RemoveElement
<1>3. PICK k : Solves(k, f, SUBSET R) /\ SumFunctionOnSet(f, R) = k[R]
  BY <1>2, SumSolution
<1>4. h[R] = k[R]
  <2> R \subseteq S
    OBVIOUS
  <2> HIDE DEF R
  <2> QED
    BY <1>1, <1>2, <1>3, SolutionUnique
<1>5. h[S] = f[Taken(S)] + h[R]
  BY <1>1 DEF Solves
<1> QED
  BY <1>1, <1>3, <1>4, <1>5

LEMMA SumType ==
    ASSUME NEW S, IsFiniteSet(S), NEW f, \A x \in S : f[x] \in Int
    PROVE  SumFunctionOnSet(f, S) \in Int
<1> DEFINE bad == {s \in SUBSET S : SumFunctionOnSet(f, s) \notin Int}
<1>1. SUFFICES ASSUME bad # {} PROVE FALSE
  OBVIOUS
<1>2. PICK s \in bad : IsFiniteSet(s) /\ \A x \in s : s \ {x} \notin bad
  <2> HIDE DEF bad
  <2>1. bad \in SUBSET (SUBSET S)
    BY DEF bad
  <2> QED
    BY <1>1, <2>1, LeastSet
<1>3. s # {}
  BY <1>2, SumEmpty
<1>4. Taken(s) \in s
  BY <1>3, TakenIn
<1>5. SumFunctionOnSet(f, s \ {Taken(s)}) \in Int
  BY <1>2, <1>4
<1>6. SumFunctionOnSet(f, s) = f[Taken(s)] + SumFunctionOnSet(f, s \ {Taken(s)})
  BY <1>2, <1>3, SumTaken
<1> QED
  BY <1>2, <1>4, <1>5, <1>6

\* Any element can be taken out.
LEMMA SumWithout ==
    ASSUME NEW S, IsFiniteSet(S), NEW f, \A x \in S : f[x] \in Int, NEW x \in S
    PROVE  SumFunctionOnSet(f, S) = f[x] + SumFunctionOnSet(f, S \ {x})
<1> DEFINE Total(s) == SumFunctionOnSet(f, s)
           bad == {s \in SUBSET S : \E y \in s : Total(s) # f[y] + Total(s \ {y})}
<1>1. SUFFICES ASSUME bad # {} PROVE FALSE
  OBVIOUS
<1>2. PICK s \in bad : IsFiniteSet(s) /\ \A y \in s : s \ {y} \notin bad
  <2> HIDE DEF bad
  <2>1. bad \in SUBSET (SUBSET S)
    BY DEF bad
  <2> QED
    BY <1>1, <2>1, LeastSet
<1>3. PICK y \in s : Total(s) # f[y] + Total(s \ {y})
  BY <1>2
<1> DEFINE t == Taken(s)
<1>4. t \in s /\ t # y /\ Total(s) = f[t] + Total(s \ {t})
  <2>1. t \in s
    BY <1>3, TakenIn
  <2>2. Total(s) = f[t] + Total(s \ {t})
    BY <1>2, <1>3, SumTaken
  <2> QED
    BY <1>3, <2>1, <2>2
<1>5. \A r \in SUBSET s : IsFiniteSet(r) /\ Total(r) \in Int
  BY <1>2, FS_Subset, SumType
<1> DEFINE r == s \ {t, y}
<1>6. s \ {t} \in SUBSET s /\ s \ {y} \in SUBSET s /\ r \in SUBSET s
      /\ r = (s \ {t}) \ {y} /\ r = (s \ {y}) \ {t}
  OBVIOUS
<1>7. y \in s \ {t} /\ t \in s \ {y} /\ s \ {t} \in SUBSET S /\ s \ {y} \in SUBSET S
  BY <1>2, <1>3, <1>4
<1>8. Total(s \ {t}) = f[y] + Total(r)
  BY <1>2, <1>4, <1>6, <1>7
<1>9. Total(s \ {y}) = f[t] + Total(r)
  BY <1>2, <1>3, <1>6, <1>7
<1>10. f[t] \in Int /\ f[y] \in Int /\ Total(r) \in Int
  BY <1>2, <1>3, <1>4, <1>5, <1>6
<1> HIDE DEF Total, r, t
<1> QED
  BY <1>3, <1>4, <1>8, <1>9, <1>10

LEMMA SumWith ==
    ASSUME NEW S, IsFiniteSet(S), NEW x, x \notin S, NEW f, \A y \in S \cup {x} : f[y] \in Int
    PROVE  SumFunctionOnSet(f, S \cup {x}) = f[x] + SumFunctionOnSet(f, S)
<1>1. IsFiniteSet(S \cup {x}) /\ (S \cup {x}) \ {x} = S /\ x \in S \cup {x}
  BY FS_AddElement
<1>2. SumFunctionOnSet(f, S \cup {x}) = f[x] + SumFunctionOnSet(f, (S \cup {x}) \ {x})
  BY <1>1, SumWithout
<1> QED
  BY <1>1, <1>2

\* One term differs.
LEMMA SumChanged ==
    ASSUME NEW S, IsFiniteSet(S), NEW x \in S, NEW f, NEW g,
           \A y \in S : f[y] \in Int /\ g[y] \in Int,
           \A y \in S \ {x} : f[y] = g[y]
    PROVE  SumFunctionOnSet(g, S) = SumFunctionOnSet(f, S) - f[x] + g[x]
<1> DEFINE R == S \ {x}
<1>1. IsFiniteSet(R) /\ \A y \in R : y \in S
  BY FS_RemoveElement
<1>2. SumFunctionOnSet(f, S) = f[x] + SumFunctionOnSet(f, R)
  BY SumWithout
<1>3. SumFunctionOnSet(g, S) = g[x] + SumFunctionOnSet(g, R)
  BY SumWithout
<1>4. SumFunctionOnSet(f, R) = SumFunctionOnSet(g, R)
  BY <1>1, SumEqual
<1>5. SumFunctionOnSet(f, R) \in Int
  BY <1>1, SumType
<1> QED
  BY <1>2, <1>3, <1>4, <1>5

LEMMA SumAdded ==
    ASSUME NEW S, IsFiniteSet(S), NEW f, NEW g, NEW h,
           \A x \in S : f[x] \in Int /\ g[x] \in Int /\ h[x] = f[x] + g[x]
    PROVE  SumFunctionOnSet(h, S) = SumFunctionOnSet(f, S) + SumFunctionOnSet(g, S)
<1> DEFINE Total(e, s) == SumFunctionOnSet(e, s)
           bad == {s \in SUBSET S : Total(h, s) # Total(f, s) + Total(g, s)}
<1>1. SUFFICES ASSUME bad # {} PROVE FALSE
  OBVIOUS
<1>2. PICK s \in bad : IsFiniteSet(s) /\ \A y \in s : s \ {y} \notin bad
  <2> HIDE DEF bad
  <2>1. bad \in SUBSET (SUBSET S)
    BY DEF bad
  <2> QED
    BY <1>1, <2>1, LeastSet
<1>3. s # {}
  BY <1>2, SumEmpty
<1>4. PICK x \in s : TRUE
  BY <1>3
<1> DEFINE r == s \ {x}
<1>5. s \in SUBSET S /\ r \in SUBSET S /\ r \notin bad /\ IsFiniteSet(r)
  BY <1>2, FS_RemoveElement
<1>6. \A y \in s : f[y] \in Int /\ g[y] \in Int /\ h[y] \in Int /\ h[y] = f[y] + g[y]
  BY <1>5
<1>7. Total(f, s) = f[x] + Total(f, r)
  BY <1>2, <1>6, SumWithout
<1>8. Total(g, s) = g[x] + Total(g, r)
  BY <1>2, <1>6, SumWithout
<1>9. Total(h, s) = h[x] + Total(h, r)
  BY <1>2, <1>6, SumWithout
<1>10. Total(f, r) \in Int /\ Total(g, r) \in Int
  <2>1. \A y \in r : f[y] \in Int /\ g[y] \in Int
    BY <1>6
  <2> QED
    BY <1>5, <2>1, SumType
<1>11. Total(h, r) = Total(f, r) + Total(g, r)
  BY <1>5
<1>12. Total(h, s) # Total(f, s) + Total(g, s) /\ f[x] \in Int /\ g[x] \in Int /\ h[x] = f[x] + g[x]
  BY <1>2, <1>6
<1> HIDE DEF Total, r
<1> QED
  BY <1>7, <1>8, <1>9, <1>10, <1>11, <1>12

\* What adds nothing can be left out.
LEMMA SumOfSome ==
    ASSUME NEW S, IsFiniteSet(S), NEW T, T \subseteq S, NEW f,
           \A x \in S : f[x] \in Int,
           \A x \in S \ T : f[x] = 0
    PROVE  SumFunctionOnSet(f, S) = SumFunctionOnSet(f, T)
<1> DEFINE Total(s) == SumFunctionOnSet(f, s)
           bad == {s \in SUBSET S : Total(s) # Total(s \cap T)}
<1>1. SUFFICES ASSUME bad # {} PROVE FALSE
  <2>1. S \cap T = T
    OBVIOUS
  <2> QED
    BY <2>1
<1>2. PICK s \in bad : IsFiniteSet(s) /\ \A y \in s : s \ {y} \notin bad
  <2> HIDE DEF bad
  <2>1. bad \in SUBSET (SUBSET S)
    BY DEF bad
  <2> QED
    BY <1>1, <2>1, LeastSet
<1>3. PICK x \in s : x \notin T
  <2>1. s \in SUBSET S /\ Total(s) # Total(s \cap T)
    BY <1>2
  <2>2. s \cap T # s
    BY <2>1
  <2> QED
    BY <2>2
<1> DEFINE r == s \ {x}
<1>4. s \in SUBSET S /\ r \in SUBSET S /\ r \notin bad /\ r \cap T = s \cap T
  BY <1>2, <1>3
<1>5. Total(s) = f[x] + Total(r)
  BY <1>2, <1>4, SumWithout
<1>6. f[x] = 0 /\ Total(r) \in Int
  <2>1. IsFiniteSet(r) /\ \A y \in r : f[y] \in Int
    BY <1>2, <1>4, FS_RemoveElement
  <2> QED
    BY <1>3, <1>4, <2>1, SumType
<1>7. Total(r) = Total(r \cap T)
  BY <1>4
<1>8. Total(s) # Total(s \cap T)
  BY <1>2
<1>9. Total(r) = Total(s \cap T)
  BY <1>4, <1>7
<1> HIDE DEF Total, r, bad
<1> QED
  BY <1>5, <1>6, <1>8, <1>9

LEMMA SumNatural ==
    ASSUME NEW S, IsFiniteSet(S), NEW f, \A x \in S : f[x] \in Nat
    PROVE  /\ SumFunctionOnSet(f, S) \in Nat
           /\ \A x \in S : f[x] <= SumFunctionOnSet(f, S)
           /\ \A x, y \in S : x # y => f[x] + f[y] <= SumFunctionOnSet(f, S)
<1> DEFINE Total(s) == SumFunctionOnSet(f, s)
           bad == {s \in SUBSET S : Total(s) \notin Nat}
<1>1. bad = {}
  <2>1. SUFFICES ASSUME bad # {} PROVE FALSE
    OBVIOUS
  <2>2. PICK s \in bad : IsFiniteSet(s) /\ \A y \in s : s \ {y} \notin bad
    <3> HIDE DEF bad
    <3>1. bad \in SUBSET (SUBSET S)
      BY DEF bad
    <3> QED BY <2>1, <3>1, LeastSet
  <2>3. s # {}
    BY <2>2, SumEmpty
  <2>4. Taken(s) \in s /\ Total(s) = f[Taken(s)] + Total(s \ {Taken(s)})
    BY <2>2, <2>3, TakenIn, SumTaken
  <2>5. Total(s \ {Taken(s)}) \in Nat /\ f[Taken(s)] \in Nat
    BY <2>2, <2>4
  <2> QED
    BY <2>2, <2>4, <2>5
<1>2. \A s \in SUBSET S : Total(s) \in Nat
  BY <1>1
<1>3. \A x \in S : f[x] \in Int
  OBVIOUS
<1>4. ASSUME NEW x \in S PROVE Total(S) = f[x] + Total(S \ {x}) /\ Total(S \ {x}) \in Nat
  BY <1>2, <1>3, SumWithout
<1>5. ASSUME NEW x \in S, NEW y \in S, x # y
      PROVE  /\ Total(S \ {x}) = f[y] + Total((S \ {x}) \ {y})
             /\ Total((S \ {x}) \ {y}) \in Nat
  <2>1. IsFiniteSet(S \ {x}) /\ y \in S \ {x} /\ \A z \in S \ {x} : f[z] \in Int
    BY <1>3, <1>5, FS_RemoveElement
  <2>2. Total(S \ {x}) = f[y] + Total((S \ {x}) \ {y})
    BY <2>1, SumWithout
  <2> QED
    BY <1>2, <2>2
<1>6. \A x \in S : f[x] <= Total(S)
  <2>1. SUFFICES ASSUME NEW x \in S PROVE f[x] <= Total(S)
    OBVIOUS
  <2>2. Total(S) = f[x] + Total(S \ {x}) /\ Total(S \ {x}) \in Nat /\ f[x] \in Nat
    BY <1>4, <2>1
  <2> HIDE DEF Total
  <2> QED
    BY <2>2
<1>7. \A x, y \in S : x # y => f[x] + f[y] <= Total(S)
  <2>1. SUFFICES ASSUME NEW x \in S, NEW y \in S, x # y PROVE f[x] + f[y] <= Total(S)
    OBVIOUS
  <2>2. /\ Total(S) = f[x] + Total(S \ {x})
        /\ Total(S \ {x}) = f[y] + Total((S \ {x}) \ {y})
        /\ Total((S \ {x}) \ {y}) \in Nat /\ f[x] \in Nat /\ f[y] \in Nat
    BY <1>4, <1>5, <2>1
  <2> HIDE DEF Total
  <2> QED
    BY <2>2
<1> QED
  BY <1>2, <1>6, <1>7

-----------------------------------------------------------------------------
(* Bags, by the number of copies they hold.                                *)

Copies(l, m) == IF l \in DOMAIN m THEN m[l] ELSE 0

LEMMA BagCopies ==
    ASSUME NEW m, IsABag(m)
    PROVE  \A l : Copies(l, m) \in Nat /\ (l \in DOMAIN m <=> Copies(l, m) > 0)
BY DEF IsABag, Copies

LEMMA BagSum ==
    ASSUME NEW a, IsABag(a), NEW b, IsABag(b)
    PROVE  /\ IsABag(a (+) b)
           /\ DOMAIN (a (+) b) = DOMAIN a \cup DOMAIN b
           /\ \A l : Copies(l, a (+) b) = Copies(l, a) + Copies(l, b)
BY DEF IsABag, Copies, (+)

LEMMA BagDifference ==
    ASSUME NEW a, IsABag(a), NEW b, IsABag(b)
    PROVE  /\ IsABag(a (-) b)
           /\ DOMAIN (a (-) b) \subseteq DOMAIN a
           /\ \A l : Copies(l, a (-) b) = IF Copies(l, a) > Copies(l, b)
                                          THEN Copies(l, a) - Copies(l, b) ELSE 0
<1> DEFINE left == {l \in DOMAIN a : Copies(l, a) > Copies(l, b)}
<1>1. a (-) b = [l \in left |-> Copies(l, a) - Copies(l, b)]
  <2>1. left = {l \in DOMAIN a : (IF l \in DOMAIN b THEN a[l] - b[l] ELSE a[l]) > 0}
    BY DEF IsABag, Copies
  <2>2. \A l \in left : Copies(l, a) - Copies(l, b) = IF l \in DOMAIN b THEN a[l] - b[l] ELSE a[l]
    BY DEF IsABag, Copies
  <2> DEFINE rest == [l \in DOMAIN a |-> IF l \in DOMAIN b THEN a[l] - b[l] ELSE a[l]]
  <2>3. DOMAIN rest = DOMAIN a /\ {l \in DOMAIN rest : rest[l] > 0} = left
    BY <2>1
  <2>4. a (-) b = [l \in left |-> rest[l]]
    BY <2>3, Zenon DEF (-)
  <2> QED
    BY <2>2, <2>4
<1>2. \A l : Copies(l, a) \in Nat /\ Copies(l, b) \in Nat /\ (l \in DOMAIN a <=> Copies(l, a) > 0)
  BY BagCopies
<1>3. IsABag(a (-) b)
  BY <1>1, <1>2 DEF IsABag
<1>4. ASSUME NEW l
      PROVE  Copies(l, a (-) b) = IF Copies(l, a) > Copies(l, b)
                                  THEN Copies(l, a) - Copies(l, b) ELSE 0
  <2>1. Copies(l, a (-) b) = IF l \in left THEN Copies(l, a) - Copies(l, b) ELSE 0
    <3> DEFINE few == [k \in left |-> Copies(k, a) - Copies(k, b)]
    <3>1. Copies(l, few) = IF l \in left THEN Copies(l, a) - Copies(l, b) ELSE 0
      BY DEF Copies
    <3> QED BY <1>1, <3>1
  <2> QED
    BY <1>2, <2>1
<1> QED
  BY <1>1, <1>3, <1>4

LEMMA BagOfSet ==
    ASSUME NEW S
    PROVE  /\ IsABag(SetToBag(S)) /\ DOMAIN SetToBag(S) = S
           /\ \A l : Copies(l, SetToBag(S)) = IF l \in S THEN 1 ELSE 0
BY DEF IsABag, Copies, SetToBag

LEMMA BagIncluded ==
    ASSUME NEW a, IsABag(a), NEW b, IsABag(b)
    PROVE  a \sqsubseteq b <=> \A l : Copies(l, a) <= Copies(l, b)
BY DEF IsABag, Copies, \sqsubseteq

\* A letter with nothing in it is not kept.
Filled(l) == l.money > 0 \/ l.units # {}

LEMMA SentBag ==
    ASSUME NEW L
    PROVE  /\ IsABag(Sent(L)) /\ DOMAIN Sent(L) = {l \in L : Filled(l)}
           /\ \A l : Copies(l, Sent(L)) = IF l \in L /\ Filled(l) THEN 1 ELSE 0
<1>1. Sent(L) = SetToBag({l \in L : Filled(l)})
  BY DEF Sent, Filled
<1> QED
  BY <1>1, BagOfSet

\* The letters that are there when one has been rewritten.
LEMMA RewrittenBag ==
    ASSUME NEW m, IsABag(m), NEW k, NEW now
    PROVE  /\ IsABag(Rewritten(m, k, now))
           /\ DOMAIN Rewritten(m, k, now) \subseteq DOMAIN m \cup now
           /\ \A l : Copies(l, Rewritten(m, k, now)) =
                (IF l = k /\ Copies(k, m) > 0 THEN Copies(k, m) - 1 ELSE Copies(l, m))
                + (IF l \in now /\ Filled(l) THEN 1 ELSE 0)
<1> DEFINE one == SetToBag({k})
           rest == m (-) one
<1>1. IsABag(one) /\ \A l : Copies(l, one) = IF l = k THEN 1 ELSE 0
  BY BagOfSet
<1>2. IsABag(rest) /\ DOMAIN rest \subseteq DOMAIN m
      /\ \A l : Copies(l, rest) = IF Copies(l, m) > Copies(l, one) THEN Copies(l, m) - Copies(l, one) ELSE 0
  BY <1>1, BagDifference
<1>3. IsABag(Sent(now)) /\ DOMAIN Sent(now) \subseteq now
      /\ \A l : Copies(l, Sent(now)) = IF l \in now /\ Filled(l) THEN 1 ELSE 0
  BY SentBag
<1>4. Rewritten(m, k, now) = rest (+) Sent(now)
  BY DEF Rewritten
<1> HIDE DEF rest, one
<1>5. IsABag(rest (+) Sent(now)) /\ DOMAIN (rest (+) Sent(now)) = DOMAIN rest \cup DOMAIN Sent(now)
      /\ \A l : Copies(l, rest (+) Sent(now)) = Copies(l, rest) + Copies(l, Sent(now))
  BY <1>2, <1>3, BagSum
<1>6. \A l : Copies(l, m) \in Nat
  BY BagCopies
<1>7. \A l : Copies(l, rest) = IF l = k /\ Copies(k, m) > 0 THEN Copies(k, m) - 1 ELSE Copies(l, m)
  BY <1>1, <1>2, <1>6
<1> QED
  BY <1>2, <1>3, <1>4, <1>5, <1>7

-----------------------------------------------------------------------------
(* What the letters of a bag weigh together.                               *)

Mass(w, m) == SumFunctionOnSet([l \in DOMAIN m |-> w[l] * m[l]], DOMAIN m)

LEMMA MassOver ==
    ASSUME NEW m, IsABag(m), NEW S, IsFiniteSet(S), DOMAIN m \subseteq S,
           NEW w, \A l \in S : w[l] \in Int
    PROVE  Mass(w, m) = SumFunctionOnSet([l \in S |-> w[l] * Copies(l, m)], S)
<1> DEFINE f == [l \in DOMAIN m |-> w[l] * m[l]]
           g == [l \in S |-> w[l] * Copies(l, m)]
<1>1. \A l \in S : Copies(l, m) \in Int /\ w[l] * Copies(l, m) \in Int
  BY BagCopies
<1>2. \A l \in S \ DOMAIN m : w[l] * Copies(l, m) = 0
  BY DEF Copies
<1>3. SumFunctionOnSet(g, S) = SumFunctionOnSet(g, DOMAIN m)
  <2>1. (\A l \in S : g[l] \in Int) /\ (\A l \in S \ DOMAIN m : g[l] = 0)
    BY <1>1, <1>2
  <2> HIDE DEF g
  <2> QED
    BY <2>1, SumOfSome
<1>4. IsFiniteSet(DOMAIN m)
  BY FS_Subset
<1>5. \A l \in DOMAIN m : f[l] = g[l]
  BY DEF Copies
<1>6. SumFunctionOnSet(f, DOMAIN m) = SumFunctionOnSet(g, DOMAIN m)
  <2> HIDE DEF f, g
  <2> QED
    BY <1>4, <1>5, SumEqual
<1> QED
  BY <1>3, <1>6 DEF Mass

LEMMA MassType ==
    ASSUME NEW m, IsABag(m), IsFiniteSet(DOMAIN m), NEW w, \A l \in DOMAIN m : w[l] \in Int
    PROVE  Mass(w, m) \in Int
<1> DEFINE f == [l \in DOMAIN m |-> w[l] * m[l]]
<1>1. \A l \in DOMAIN m : f[l] \in Int
  BY DEF IsABag
<1> HIDE DEF f
<1>2. SumFunctionOnSet(f, DOMAIN m) \in Int
  BY <1>1, SumType
<1> QED
  BY <1>2 DEF Mass, f

LEMMA MassOfSum ==
    ASSUME NEW a, IsABag(a), IsFiniteSet(DOMAIN a), NEW b, IsABag(b), IsFiniteSet(DOMAIN b),
           NEW w, \A l \in DOMAIN a \cup DOMAIN b : w[l] \in Int
    PROVE  Mass(w, a (+) b) = Mass(w, a) + Mass(w, b)
<1> DEFINE S == DOMAIN a \cup DOMAIN b
           f == [l \in S |-> w[l] * Copies(l, a)]
           g == [l \in S |-> w[l] * Copies(l, b)]
           h == [l \in S |-> w[l] * Copies(l, a (+) b)]
<1>1. IsFiniteSet(S)
  BY FS_Union
<1>2. IsABag(a (+) b) /\ DOMAIN (a (+) b) = S
      /\ \A l : Copies(l, a (+) b) = Copies(l, a) + Copies(l, b)
  BY BagSum
<1>3. \A l : Copies(l, a) \in Nat /\ Copies(l, b) \in Nat
  BY BagCopies
<1>4. ASSUME NEW l \in S PROVE f[l] \in Int /\ g[l] \in Int /\ h[l] = f[l] + g[l]
  <2>1. f[l] = w[l] * Copies(l, a) /\ g[l] = w[l] * Copies(l, b)
        /\ h[l] = w[l] * (Copies(l, a) + Copies(l, b))
    BY <1>2
  <2>2. w[l] \in Int /\ Copies(l, a) \in Int /\ Copies(l, b) \in Int
    BY <1>3
  <2> QED
    BY <2>1, <2>2
<1>5. DOMAIN a \subseteq S /\ DOMAIN b \subseteq S /\ \A l \in S : w[l] \in Int
  OBVIOUS
<1>6. Mass(w, a) = SumFunctionOnSet(f, S)
  BY <1>1, <1>5, MassOver
<1>7. Mass(w, b) = SumFunctionOnSet(g, S)
  BY <1>1, <1>5, MassOver
<1>8. Mass(w, a (+) b) = SumFunctionOnSet(h, S)
  BY <1>1, <1>2, <1>5, MassOver
<1> HIDE DEF f, g, h, S
<1>9. SumFunctionOnSet(h, S) = SumFunctionOnSet(f, S) + SumFunctionOnSet(g, S)
  BY <1>1, <1>4, SumAdded
<1> QED
  BY <1>6, <1>7, <1>8, <1>9

\* Letters of different contents that are sent together.
LEMMA MassSent ==
    ASSUME NEW L, IsFiniteSet(L), NEW w, \A l \in L : w[l] \in Int,
           \A l \in L : ~Filled(l) => w[l] = 0
    PROVE  Mass(w, Sent(L)) = SumFunctionOnSet(w, L)
<1> DEFINE f == [l \in L |-> w[l] * Copies(l, Sent(L))]
<1>1. IsABag(Sent(L)) /\ DOMAIN Sent(L) \subseteq L
      /\ \A l : Copies(l, Sent(L)) = IF l \in L /\ Filled(l) THEN 1 ELSE 0
  BY SentBag
<1>2. Mass(w, Sent(L)) = SumFunctionOnSet(f, L)
  BY <1>1, MassOver
<1>3. \A l \in L : f[l] = w[l]
  BY <1>1
<1> HIDE DEF f
<1>4. SumFunctionOnSet(f, L) = SumFunctionOnSet(w, L)
  BY <1>3, SumEqual
<1> QED
  BY <1>2, <1>4

LEMMA MassRewritten ==
    ASSUME NEW m, IsABag(m), IsFiniteSet(DOMAIN m), NEW k \in DOMAIN m,
           NEW now, IsFiniteSet(now),
           NEW w, \A l \in DOMAIN m \cup now : w[l] \in Int,
           \A l \in now : ~Filled(l) => w[l] = 0
    PROVE  Mass(w, Rewritten(m, k, now)) = Mass(w, m) - w[k] + SumFunctionOnSet(w, now)
<1> DEFINE r == Rewritten(m, k, now)
           S == DOMAIN m \cup now
           f == [l \in S |-> w[l] * Copies(l, r)]
           g == [l \in S |-> w[l] * Copies(l, m)]
           h == [l \in S |-> w[l] * (IF l = k THEN Copies(l, m) - 1 ELSE Copies(l, m))]
           s == [l \in S |-> w[l] * Copies(l, Sent(now))]
<1>1. IsFiniteSet(S) /\ \A l \in S : w[l] \in Int
  BY FS_Union
<1>2. IsABag(r) /\ DOMAIN r \subseteq S
      /\ \A l : Copies(l, r) = (IF l = k /\ Copies(k, m) > 0 THEN Copies(k, m) - 1 ELSE Copies(l, m))
                               + (IF l \in now /\ Filled(l) THEN 1 ELSE 0)
  BY RewrittenBag
<1>3. \A l : Copies(l, m) \in Nat
  BY BagCopies
<1>4. Copies(k, m) > 0
  BY BagCopies
<1>5. IsABag(Sent(now)) /\ DOMAIN Sent(now) \subseteq S
      /\ \A l : Copies(l, Sent(now)) = IF l \in now /\ Filled(l) THEN 1 ELSE 0
  BY SentBag
<1>6. Mass(w, r) = SumFunctionOnSet(f, S)
  BY <1>1, <1>2, MassOver
<1>7. Mass(w, m) = SumFunctionOnSet(g, S)
  <2>1. DOMAIN m \subseteq S
    OBVIOUS
  <2> QED
    BY <1>1, <2>1, MassOver
<1>8. Mass(w, Sent(now)) = SumFunctionOnSet(s, S)
  BY <1>1, <1>5, MassOver
<1>9. ASSUME NEW l \in S
      PROVE  h[l] \in Int /\ s[l] \in Int /\ g[l] \in Int /\ f[l] = h[l] + s[l]
  <2> DEFINE i == IF l = k THEN Copies(l, m) - 1 ELSE Copies(l, m)
             j == Copies(l, Sent(now))
  <2>1. i \in Int /\ j \in Int /\ Copies(l, r) = i + j /\ w[l] \in Int /\ Copies(l, m) \in Int
    BY <1>1, <1>2, <1>3, <1>4, <1>5
  <2>2. f[l] = w[l] * Copies(l, r) /\ h[l] = w[l] * i /\ s[l] = w[l] * j /\ g[l] = w[l] * Copies(l, m)
    OBVIOUS
  <2> HIDE DEF i, j, f, g, h, s
  <2> QED
    BY <2>1, <2>2
<1>10. h[k] = g[k] - w[k] /\ \A l \in S \ {k} : h[l] = g[l]
  <2>1. k \in S /\ w[k] \in Int /\ Copies(k, m) \in Int
    BY <1>1, <1>3
  <2>2. h[k] = w[k] * (Copies(k, m) - 1) /\ g[k] = w[k] * Copies(k, m)
    BY <2>1
  <2>3. w[k] * (Copies(k, m) - 1) = w[k] * Copies(k, m) - w[k]
    BY <2>1
  <2> QED
    BY <2>2, <2>3
<1>11. Mass(w, Sent(now)) = SumFunctionOnSet(w, now)
  BY <1>1, MassSent
<1>12. k \in S /\ w[k] \in Int
  BY <1>1
<1> HIDE DEF f, g, h, s, S
<1>13. SumFunctionOnSet(f, S) = SumFunctionOnSet(h, S) + SumFunctionOnSet(s, S)
  BY <1>1, <1>9, SumAdded
<1>14. SumFunctionOnSet(h, S) = SumFunctionOnSet(g, S) - g[k] + h[k]
  BY <1>1, <1>9, <1>10, <1>12, SumChanged
<1>15. SumFunctionOnSet(g, S) \in Int /\ SumFunctionOnSet(s, S) \in Int /\ g[k] \in Int
  BY <1>1, <1>9, <1>12, SumType
<1>16. SumFunctionOnSet(h, S) = SumFunctionOnSet(g, S) - w[k]
  <2>1. h[k] = g[k] - w[k]
    BY <1>10
  <2> QED
    BY <1>12, <1>14, <1>15, <2>1
<1>17. SumFunctionOnSet(f, S) = SumFunctionOnSet(g, S) - w[k] + SumFunctionOnSet(s, S)
  BY <1>13, <1>16
<1> QED
  BY <1>6, <1>7, <1>8, <1>11, <1>17

\* Sums over one or two letters.
LEMMA SumOne ==
    ASSUME NEW x, NEW f, f[x] \in Int
    PROVE  IsFiniteSet({x}) /\ SumFunctionOnSet(f, {x}) = f[x]
<1>1. IsFiniteSet({}) /\ {} \cup {x} = {x} /\ x \notin {}
  BY FS_EmptySet
<1>2. IsFiniteSet({x})
  BY <1>1, FS_AddElement
<1>3. SumFunctionOnSet(f, {} \cup {x}) = f[x] + SumFunctionOnSet(f, {})
  BY <1>1, SumWith
<1>4. SumFunctionOnSet(f, {}) = 0
  BY SumEmpty
<1> QED
  BY <1>1, <1>2, <1>3, <1>4

-----------------------------------------------------------------------------
(* The queue. Seen is what the database holds after the first j operations *)
(* that wait: the contents a crash may fall back to, what a query that is  *)
(* queued reads, and, after all of them, what is planned.                  *)

Seen(d, q, j) ==
    LET commits == {i \in 1..j : q[i].kind = "commit"} IN
    IF commits = {} THEN d ELSE q[Max(commits)].contents

LEMMA PlannedIsSeen == Planned = Seen(disk, queue, Len(queue))
BY DEF Planned, After, Seen

LEMMA MaxIs ==
    ASSUME NEW S \in SUBSET Int, NEW x \in S, \A y \in S : y <= x
    PROVE  Max(S) = x
<1>1. x \in S /\ \A y \in S : x >= y
  OBVIOUS
<1>2. Max(S) \in S /\ \A y \in S : Max(S) >= y
  BY <1>1, Zenon DEF Max
<1>3. Max(S) \in Int /\ x \in Int /\ x >= Max(S) /\ Max(S) >= x
  BY <1>1, <1>2
<1> QED
  BY <1>3

LEMMA MaxIn ==
    ASSUME NEW n \in Nat, NEW S \in SUBSET (1..n), S # {}
    PROVE  Max(S) \in S /\ \A y \in S : y <= Max(S)
<1> DEFINE T == {n - y : y \in S}
<1>1. T \in SUBSET Nat /\ T # {}
  OBVIOUS
<1>2. PICK m \in T : \A k \in T : m <= k
  <2> HIDE DEF T
  <2> QED
    BY <1>1, LeastNumber
<1>3. PICK x \in S : m = n - x
  BY <1>2
<1>4. ASSUME NEW y \in S PROVE y <= x
  <2>1. n - y \in T
    OBVIOUS
  <2>2. m <= n - y
    BY <1>2, <2>1
  <2> QED
    BY <1>3, <2>2
<1>5. S \in SUBSET Int
  OBVIOUS
<1> QED
  BY <1>3, <1>4, <1>5, MaxIs

LEMMA SeenFirst ==
    ASSUME NEW d, NEW q
    PROVE  Seen(d, q, 0) = d
BY DEF Seen

LEMMA SeenNext ==
    ASSUME NEW d, NEW q, NEW j \in Nat
    PROVE  Seen(d, q, j + 1) = IF q[j + 1].kind = "commit" THEN q[j + 1].contents
                               ELSE Seen(d, q, j)
<1> DEFINE C(n) == {i \in 1..n : q[i].kind = "commit"}
<1>1. CASE q[j + 1].kind = "commit"
  <2>1. C(j + 1) \in SUBSET Int /\ j + 1 \in C(j + 1) /\ \A y \in C(j + 1) : y <= j + 1
    BY <1>1
  <2>2. Max(C(j + 1)) = j + 1
    <3> HIDE DEF C
    <3> QED BY <2>1, MaxIs
  <2> QED
    BY <1>1, <2>1, <2>2 DEF Seen
<1>2. CASE q[j + 1].kind # "commit"
  <2>1. C(j + 1) = C(j)
    BY <1>2
  <2> QED
    BY <1>2, <2>1 DEF Seen
<1> QED
  BY <1>1, <1>2

LEMMA SeenSame ==
    ASSUME NEW d, NEW q, NEW r, NEW j \in Nat, \A i \in 1..j : q[i] = r[i]
    PROVE  Seen(d, q, j) = Seen(d, r, j)
<1> DEFINE C(s) == {i \in 1..j : s[i].kind = "commit"}
<1>1. C(q) = C(r) /\ C(q) \in SUBSET (1..j)
  OBVIOUS
<1>2. CASE C(q) = {}
  BY <1>1, <1>2 DEF Seen
<1>3. CASE C(q) # {}
  <2>1. Max(C(q)) \in 1..j
    <3> HIDE DEF C
    <3> QED BY <1>1, <1>3, MaxIn
  <2> QED
    BY <1>1, <1>3, <2>1 DEF Seen
<1> QED
  BY <1>2, <1>3

\* The worker takes the first operation.
LEMMA SeenRest ==
    ASSUME NEW d, NEW q, NEW e, NEW r, NEW j \in Nat,
           \A i \in 1..j : r[i] = q[i + 1],
           e = IF q[1].kind = "commit" THEN q[1].contents ELSE d
    PROVE  Seen(e, r, j) = Seen(d, q, j + 1)
<1> DEFINE C == {i \in 1..j : r[i].kind = "commit"}
           D == {i \in 1..(j + 1) : q[i].kind = "commit"}
<1>1. C \in SUBSET (1..j) /\ D \in SUBSET (1..(j + 1)) /\ D \in SUBSET Int
  OBVIOUS
<1>2. \A i \in 1..j : i \in C <=> i + 1 \in D
  OBVIOUS
<1>3. \A i \in D : i = 1 \/ (i - 1 \in 1..j /\ i - 1 \in C)
  <2>1. \A i \in 1..(j + 1) : i = 1 \/ (i - 1 \in 1..j /\ (i - 1) + 1 = i)
    OBVIOUS
  <2> QED
    BY <1>1, <1>2, <2>1
<1>4. 1 \in D <=> q[1].kind = "commit"
  OBVIOUS
<1>5. Seen(e, r, j) = IF C = {} THEN e ELSE r[Max(C)].contents
  BY DEF Seen
<1>6. Seen(d, q, j + 1) = IF D = {} THEN d ELSE q[Max(D)].contents
  BY DEF Seen
<1> HIDE DEF C, D
<1>7. CASE C = {}
  <2>1. \A i \in D : i = 1
    BY <1>3, <1>7
  <2>2. ASSUME D # {} PROVE 1 \in D /\ Max(D) = 1
    <3>1. 1 \in D /\ \A i \in D : i <= 1
      BY <2>1, <2>2
    <3> QED BY <1>1, <3>1, MaxIs
  <2> QED
    BY <1>4, <1>5, <1>6, <1>7, <2>2
<1>8. CASE C # {}
  <2>1. Max(C) \in C /\ \A y \in C : y <= Max(C)
    BY <1>1, <1>8, MaxIn
  <2>2. Max(C) \in 1..j
    BY <1>1, <2>1
  <2>3. Max(C) + 1 \in D /\ \A y \in D : y <= Max(C) + 1
    BY <1>1, <1>2, <1>3, <2>1, <2>2
  <2>4. Max(D) = Max(C) + 1
    BY <1>1, <2>3, MaxIs
  <2> QED
    BY <1>5, <1>6, <1>8, <2>2, <2>3, <2>4
<1> QED
  BY <1>7, <1>8

-----------------------------------------------------------------------------
(* Types, with what holds of every auction and letter.                     *)

Offers == {a \in Auction : a.bidder # a.owner /\ (a.bidder = NoOne <=> a.bid = 0)}
Posted == {l \in Letter : l.from # l.to /\ (l.cod > 0 => l.from \in Players)}

Houses == UNION {[D -> Offers] : D \in SUBSET (1..MaxAuctions)}
Mailboxes == UNION {[L -> Nat \ {0}] : L \in {S \in SUBSET Posted : IsFiniteSet(S)}}

Contents == [gold : [Players -> Nat], bag : [Players -> SUBSET Units],
             auctions : Houses, mails : Mailboxes, fees : Int, moving : SUBSET Units]

Operations == [kind : {"commit"}, by : SUBSET Players, contents : Contents]
              \cup [kind : {"load"}, for : Players]

At(j) == Seen(disk, queue, j)

LEMMA MailboxType ==
    ASSUME NEW m
    PROVE  m \in Mailboxes <=> IsABag(m) /\ IsFiniteSet(DOMAIN m) /\ DOMAIN m \subseteq Posted
<1>1. ASSUME m \in Mailboxes
      PROVE  IsABag(m) /\ IsFiniteSet(DOMAIN m) /\ DOMAIN m \subseteq Posted
  BY <1>1 DEF Mailboxes, IsABag
<1>2. ASSUME IsABag(m), IsFiniteSet(DOMAIN m), DOMAIN m \subseteq Posted
      PROVE  m \in Mailboxes
  <2>1. DOMAIN m \in {S \in SUBSET Posted : IsFiniteSet(S)}
    BY <1>2
  <2>2. m \in [DOMAIN m -> Nat \ {0}]
    BY <1>2 DEF IsABag
  <2> QED
    BY <2>1, <2>2 DEF Mailboxes
<1> QED
  BY <1>1, <1>2

LEMMA EmptyMailbox == EmptyBag \in Mailboxes /\ DOMAIN EmptyBag = {}
<1>1. IsABag(EmptyBag) /\ DOMAIN EmptyBag = {}
  BY BagOfSet DEF EmptyBag
<1> QED
  BY <1>1, FS_EmptySet, MailboxType

LEMMA MailboxSum ==
    ASSUME NEW a \in Mailboxes, NEW b \in Mailboxes
    PROVE  a (+) b \in Mailboxes
<1>1. IsABag(a) /\ IsFiniteSet(DOMAIN a) /\ DOMAIN a \subseteq Posted
      /\ IsABag(b) /\ IsFiniteSet(DOMAIN b) /\ DOMAIN b \subseteq Posted
  BY MailboxType
<1>2. IsABag(a (+) b) /\ DOMAIN (a (+) b) = DOMAIN a \cup DOMAIN b
  BY <1>1, BagSum
<1>3. IsFiniteSet(DOMAIN a \cup DOMAIN b)
  BY <1>1, FS_Union
<1> QED
  BY <1>1, <1>2, <1>3, MailboxType

LEMMA MailboxSent ==
    ASSUME NEW L \in SUBSET Posted, IsFiniteSet(L)
    PROVE  Sent(L) \in Mailboxes
<1>1. IsABag(Sent(L)) /\ DOMAIN Sent(L) = {l \in L : Filled(l)}
  BY SentBag
<1>2. IsFiniteSet({l \in L : Filled(l)})
  BY FS_Subset
<1> QED
  BY <1>1, <1>2, MailboxType

LEMMA MailboxRewritten ==
    ASSUME NEW m \in Mailboxes, NEW k, NEW now \in SUBSET Posted, IsFiniteSet(now)
    PROVE  Rewritten(m, k, now) \in Mailboxes
<1>1. IsABag(m) /\ IsFiniteSet(DOMAIN m) /\ DOMAIN m \subseteq Posted
  BY MailboxType
<1>2. IsABag(Rewritten(m, k, now)) /\ DOMAIN Rewritten(m, k, now) \subseteq DOMAIN m \cup now
  BY <1>1, RewrittenBag
<1>3. IsFiniteSet(DOMAIN m \cup now)
  BY <1>1, FS_Union
<1>4. IsFiniteSet(DOMAIN Rewritten(m, k, now))
  BY <1>2, <1>3, FS_Subset
<1> QED
  BY <1>1, <1>2, <1>4, MailboxType

LEMMA HouseType ==
    ASSUME NEW as
    PROVE  as \in Houses <=> /\ DOMAIN as \subseteq 1..MaxAuctions
                             /\ as \in [DOMAIN as -> Offers]
BY DEF Houses

LEMMA NoHouse == NoAuctions \in Houses /\ DOMAIN NoAuctions = {}
BY HouseType DEF NoAuctions

\* A value instead of another, and an auction taken away.
Instead(f, x, v) == [f EXCEPT ![x] = v]
Without(as, id) == Restrict(as, DOMAIN as \ {id})

LEMMA HouseWithout ==
    ASSUME NEW as \in Houses, NEW id, NEW rest, rest = Without(as, id)
    PROVE  /\ rest \in Houses /\ \A i : i \in DOMAIN rest <=> i \in DOMAIN as /\ i # id
           /\ \A i \in DOMAIN rest : rest[i] = as[i]
<1>1. rest = [i \in DOMAIN as \ {id} |-> as[i]]
  BY DEF Without, Restrict
<1>2. DOMAIN as \subseteq 1..MaxAuctions /\ as \in [DOMAIN as -> Offers]
  BY HouseType
<1>3. DOMAIN rest = DOMAIN as \ {id} /\ \A i \in DOMAIN rest : rest[i] = as[i]
  BY <1>1
<1>4. rest \in [DOMAIN rest -> Offers] /\ DOMAIN rest \subseteq 1..MaxAuctions
  BY <1>1, <1>2
<1> QED
  BY <1>3, <1>4, HouseType

LEMMA HouseWith ==
    ASSUME NEW as \in Houses, NEW id \in 1..MaxAuctions, id \notin DOMAIN as, NEW a \in Offers,
           NEW more, more = AddAuction(as, id, a)
    PROVE  /\ more \in Houses /\ \A i : i \in DOMAIN more <=> i \in DOMAIN as \/ i = id
           /\ more[id] = a /\ \A i \in DOMAIN as : more[i] = as[i]
<1>1. more = [i \in DOMAIN as \cup {id} |-> IF i = id THEN a ELSE as[i]]
  BY DEF AddAuction
<1>2. DOMAIN as \subseteq 1..MaxAuctions /\ as \in [DOMAIN as -> Offers]
  BY HouseType
<1>3. DOMAIN more = DOMAIN as \cup {id} /\ more[id] = a /\ \A i \in DOMAIN as : more[i] = as[i]
  BY <1>1
<1>4. more \in [DOMAIN more -> Offers] /\ DOMAIN more \subseteq 1..MaxAuctions
  BY <1>1, <1>2
<1> QED
  BY <1>3, <1>4, HouseType

LEMMA HouseChanged ==
    ASSUME NEW as \in Houses, NEW id \in DOMAIN as, NEW a \in Offers,
           NEW now, now = Instead(as, id, a)
    PROVE  /\ now \in Houses /\ DOMAIN now = DOMAIN as
           /\ now[id] = a /\ \A i \in DOMAIN as : i # id => now[i] = as[i]
<1>1. DOMAIN as \subseteq 1..MaxAuctions /\ as \in [DOMAIN as -> Offers]
  BY HouseType
<1>2. now = [as EXCEPT ![id] = a]
  BY DEF Instead
<1> QED
  BY <1>1, <1>2, HouseType

LEMMA ContentsType ==
    ASSUME NEW d \in Contents
    PROVE  /\ d.gold \in [Players -> Nat] /\ d.bag \in [Players -> SUBSET Units]
           /\ d.auctions \in Houses /\ d.mails \in Mailboxes
           /\ d.fees \in Int /\ d.moving \in SUBSET Units
BY DEF Contents

-----------------------------------------------------------------------------
(* Steps of the queue.                                                     *)

AtNext(j) == Seen(disk', queue', j)

LEMMA AtPrime ==
    ASSUME NEW CONSTANT j
    PROVE  At(j)' = AtNext(j)
BY DEF At, AtNext, Seen

LEMMA PlannedIsAt == Planned = At(Len(queue))
BY PlannedIsSeen DEF At

LEMMA PlannedPrime == Planned' = AtNext(Len(queue'))
BY DEF Planned, After, Seen, AtNext

\* Whoever it is for.
Commits(cs) == \E by \in SUBSET Players : Commit(by, cs)

LEMMA CommitBy ==
    ASSUME NEW cs, Commit({}, cs) \/ \E p \in Players : Commit({p}, cs)
    PROVE  Commits(cs)
<1>1. {} \in SUBSET Players /\ \A p \in Players : {p} \in SUBSET Players
  OBVIOUS
<1> QED
  BY <1>1, Zenon DEF Commits

\* What a commit does to the stores there are.
LEMMA CommitSeen ==
    ASSUME queue \in Seq(Operations), NEW cs \in Seq(Contents), cs # << >>, Commits(cs)
    PROVE  /\ queue' \in Seq(Operations) /\ Len(queue') <= MaxQueue
           /\ Len(queue) \in Nat /\ Len(cs) \in Nat /\ Len(queue') = Len(queue) + Len(cs)
           /\ \A i \in 1..Len(queue) : queue'[i] = queue[i]
           /\ \A i \in 1..Len(cs) : queue'[Len(queue) + i].kind = "commit"
           /\ \A j \in 0..Len(queue) : AtNext(j) = At(j)
           /\ \A i \in 1..Len(cs) : AtNext(Len(queue) + i) = cs[i]
           /\ Planned' = cs[Len(cs)] /\ disk' = disk
<1> DEFINE n == Len(queue)
<1>0. PICK by \in SUBSET Players : Commit(by, cs)
  BY DEF Commits
<1> DEFINE more == [i \in 1..Len(cs) |-> [kind |-> "commit", by |-> by, contents |-> cs[i]]]
<1>1. queue' = queue \o more /\ disk' = disk /\ n + Len(cs) <= MaxQueue
  BY <1>0 DEF Commit, HasRoom
<1>2. n \in Nat /\ Len(cs) \in Nat /\ Len(cs) > 0
  OBVIOUS
<1>3. more \in Seq(Operations) /\ Len(more) = Len(cs)
  <2>1. \A i \in 1..Len(cs) : [kind |-> "commit", by |-> by, contents |-> cs[i]] \in Operations
    <3> HIDE DEF Contents
    <3> QED BY DEF Operations
  <2> HIDE DEF Operations
  <2> QED
    BY <2>1
<1>4. queue' \in Seq(Operations) /\ Len(queue') = n + Len(cs)
  BY <1>1, <1>2, <1>3
<1>5. \A i \in 1..n : queue'[i] = queue[i]
  BY <1>1, <1>2, <1>3
<1>6. \A i \in 1..Len(cs) : queue'[n + i] = [kind |-> "commit", by |-> by, contents |-> cs[i]]
  BY <1>1, <1>2, <1>3
<1>7. ASSUME NEW j \in 0..n PROVE AtNext(j) = At(j)
  <2>1. j \in Nat /\ \A i \in 1..j : queue'[i] = queue[i]
    BY <1>5
  <2>2. Seen(disk, queue', j) = Seen(disk, queue, j)
    BY <2>1, SeenSame
  <2> QED
    BY <1>1, <2>2, Zenon DEF At, AtNext
<1>8. ASSUME NEW i \in 1..Len(cs) PROVE AtNext(n + i) = cs[i]
  <2> DEFINE k == n + i - 1
  <2>1. k \in Nat /\ k + 1 = n + i
    BY <1>2
  <2>2. queue'[k + 1] = [kind |-> "commit", by |-> by, contents |-> cs[i]]
    BY <1>6, <2>1
  <2> HIDE DEF k
  <2>3. Seen(disk', queue', k + 1) = IF queue'[k + 1].kind = "commit" THEN queue'[k + 1].contents
                                     ELSE Seen(disk', queue', k)
    BY <2>1, SeenNext
  <2>4. Seen(disk', queue', k + 1) = cs[i]
    BY <2>2, <2>3
  <2> QED
    BY <2>1, <2>4 DEF AtNext
<1>9. Planned' = cs[Len(cs)]
  <2>1. Len(cs) \in 1..Len(cs)
    BY <1>2
  <2> QED
    BY <1>4, <1>8, <2>1, PlannedPrime
<1> QED
  BY <1>1, <1>2, <1>4, <1>5, <1>6, <1>7, <1>8, <1>9

LEMMA DelaySeen ==
    ASSUME queue \in Seq(Operations), NEW p \in Players, DelayQueryHolder(p)
    PROVE  /\ queue' \in Seq(Operations) /\ Len(queue') <= MaxQueue
           /\ Len(queue) \in Nat /\ Len(queue') = Len(queue) + 1
           /\ \A i \in 1..Len(queue) : queue'[i] = queue[i]
           /\ queue'[Len(queue) + 1] = [kind |-> "load", for |-> p]
           /\ \A j \in 0..Len(queue) : AtNext(j) = At(j)
           /\ AtNext(Len(queue) + 1) = Planned
           /\ Planned' = Planned /\ disk' = disk
<1> DEFINE n == Len(queue)
           load == [kind |-> "load", for |-> p]
<1>1. queue' = Append(queue, load) /\ disk' = disk /\ n + 1 <= MaxQueue
  BY DEF DelayQueryHolder, HasRoom
<1>2. load \in Operations /\ n \in Nat
  BY DEF Operations
<1>3. queue' \in Seq(Operations) /\ Len(queue') = n + 1 /\ queue'[n + 1] = load
  BY <1>1, <1>2
<1>4. \A i \in 1..n : queue'[i] = queue[i]
  BY <1>1, <1>2
<1>5. ASSUME NEW j \in 0..n PROVE AtNext(j) = At(j)
  <2>1. j \in Nat /\ \A i \in 1..j : queue'[i] = queue[i]
    BY <1>4
  <2>2. Seen(disk, queue', j) = Seen(disk, queue, j)
    BY <2>1, SeenSame
  <2> QED
    BY <1>1, <2>2, Zenon DEF At, AtNext
<1>6. AtNext(n + 1) = AtNext(n)
  BY <1>2, <1>3, SeenNext DEF AtNext
<1>7. AtNext(n) = Planned
  BY <1>2, <1>5, PlannedIsAt
<1>8. AtNext(n + 1) = Planned
  BY <1>6, <1>7
<1>9. Planned' = Planned
  BY <1>3, <1>6, <1>7, PlannedPrime
<1> QED
  BY <1>1, <1>2, <1>3, <1>4, <1>5, <1>8, <1>9

\* The first operation is executed.
LEMMA RestSeen ==
    ASSUME NEW j \in Nat, \A i \in 1..j : queue'[i] = queue[i + 1],
           disk' = IF queue[1].kind = "commit" THEN queue[1].contents ELSE disk
    PROVE  AtNext(j) = At(j + 1)
BY SeenRest, Zenon DEF At, AtNext

LEMMA ExecuteSeen ==
    ASSUME queue \in Seq(Operations), queue # << >>, queue' = Tail(queue),
           disk' = IF Head(queue).kind = "commit" THEN Head(queue).contents ELSE disk
    PROVE  /\ queue' \in Seq(Operations)
           /\ Len(queue) \in Nat /\ Len(queue') \in Nat /\ Len(queue') + 1 = Len(queue)
           /\ \A i \in 1..Len(queue') : queue'[i] = queue[i + 1]
           /\ \A j \in 0..Len(queue') : AtNext(j) = At(j + 1)
           /\ Planned' = Planned
<1>1. queue' \in Seq(Operations) /\ Len(queue) \in Nat /\ Len(queue') \in Nat
      /\ Len(queue') + 1 = Len(queue) /\ \A i \in 1..Len(queue') : queue'[i] = queue[i + 1]
  OBVIOUS
<1>2. disk' = IF queue[1].kind = "commit" THEN queue[1].contents ELSE disk
  OBVIOUS
<1>3. ASSUME NEW j \in 0..Len(queue') PROVE AtNext(j) = At(j + 1)
  <2>1. j \in Nat /\ \A i \in 1..j : queue'[i] = queue[i + 1]
    BY <1>1
  <2> QED
    BY <1>2, <2>1, RestSeen
<1>4. Planned' = Planned
  BY <1>1, <1>3, PlannedIsAt, PlannedPrime
<1> QED
  BY <1>1, <1>3, <1>4

-----------------------------------------------------------------------------
(* The inductive invariant of types and of what memory and stores have in  *)
(* common.                                                                 *)

MemoryType ==
    /\ queue \in Seq(Operations) /\ Len(queue) <= MaxQueue
    /\ world \in {"running", "down"}
    /\ auctions \in Houses
    /\ aItems \in SUBSET (SUBSET Units)
    /\ session \in [Players -> {"offline", "loading", "online"}]
    /\ purse \in [Players -> Nat]
    /\ bag \in [Players -> SUBSET Units]
    /\ loaded \in SUBSET Players
    /\ nextAuction \in 1..(MaxAuctions + 1)
    /\ crashes \in 0..MaxCrashes

\* Contents of the tables that can be: no two auctions have the same item, and
\* the number of the next one is new.
Sound(d, n) ==
    /\ d \in Contents
    /\ \A id \in DOMAIN d.auctions : id < n
    /\ \A i, k \in DOMAIN d.auctions : d.auctions[i].units = d.auctions[k].units => i = k

StoresSound == \A j \in 0..Len(queue) : Sound(At(j), nextAuction)

\* Mailboxes, those of some players open, and all letters.
BoxesOf(boxes, open, mails) ==
    /\ boxes \in [Players -> Mailboxes]
    /\ \A p \in Players : /\ \A l \in DOMAIN boxes[p] : l.to = p
                          /\ p \notin open => DOMAIN boxes[p] = {}
                          /\ p \in open => boxes[p] \sqsubseteq mails

BoxesRight ==
    /\ \A p \in loaded : session[p] = "online"
    /\ BoxesOf(box, loaded, Planned.mails)

DownIsEmpty ==
    world = "down" => queue = << >> /\ \A p \in Players : session[p] = "offline"

\* No letter to p in d is missing in e.
Keeps(p, d, e) == \A l \in Posted : l.to = p => Copies(l, d.mails) <= Copies(l, e.mails)

Loads(p, i) == queue[i].kind = "load" /\ queue[i].for = p

\* What a login will read is what is planned, and stays so: everything of the
\* player's last session was queued before.
LoadsRight ==
    \A p \in Players, i \in 1..Len(queue) :
        Loads(p, i) =>
            /\ session[p] = "loading"
            /\ \A k \in 1..Len(queue) : Loads(p, k) => k = i
            /\ \A j \in i..Len(queue) : /\ At(j).gold[p] = Planned.gold[p]
                                        /\ At(j).bag[p] = Planned.bag[p]
                                        /\ Keeps(p, At(j), Planned)

\* A mailbox that has not been opened: the letters in any of the stores will
\* still be there.
UnreadRight ==
    \A p \in Players :
        session[p] = "online" /\ p \notin loaded =>
            \A j \in 0..Len(queue) : Keeps(p, At(j), Planned)

AuctionInv ==
    /\ MemoryType /\ StoresSound /\ BoxesRight /\ DownIsEmpty
    /\ LoadsRight /\ UnreadRight /\ InMemory

LEMMA KeepsSame == ASSUME NEW p, NEW d \in Contents PROVE Keeps(p, d, d)
<1>1. \A l : Copies(l, d.mails) \in Nat
  BY ContentsType, MailboxType, BagCopies
<1> QED
  BY <1>1 DEF Keeps

LEMMA KeepsOn ==
    ASSUME NEW p, NEW d \in Contents, NEW e \in Contents, NEW f \in Contents,
           Keeps(p, d, e), Keeps(p, e, f)
    PROVE  Keeps(p, d, f)
<1>1. \A l : Copies(l, d.mails) \in Nat /\ Copies(l, e.mails) \in Nat /\ Copies(l, f.mails) \in Nat
  BY ContentsType, MailboxType, BagCopies
<1> QED
  BY <1>1 DEF Keeps

LEMMA SoundLater ==
    ASSUME NEW d, NEW n \in Int, NEW m \in Int, n <= m, Sound(d, n)
    PROVE  Sound(d, m)
<1>1. DOMAIN d.auctions \subseteq Int
  <2>1. d.auctions \in Houses
    BY ContentsType DEF Sound
  <2> QED
    BY <2>1, HouseType
<1> QED
  BY <1>1 DEF Sound

LEMMA StoresPrime == StoresSound' <=> \A j \in 0..Len(queue') : Sound(AtNext(j), nextAuction')
<1>1. \A j : At(j)' = AtNext(j)
  BY AtPrime
<1> QED
  BY <1>1 DEF StoresSound, Sound

LEMMA UnreadPrime ==
    UnreadRight' <=> \A p \in Players :
        session'[p] = "online" /\ p \notin loaded' =>
            \A j \in 0..Len(queue') : Keeps(p, AtNext(j), Planned')
<1>1. \A j : At(j)' = AtNext(j)
  BY AtPrime
<1> QED
  BY <1>1 DEF UnreadRight, Keeps

\* What the next state's loads have to satisfy.
LoadNext(p, i) == queue'[i].kind = "load" /\ queue'[i].for = p

LEMMA LoadsPrime ==
    LoadsRight' <=>
      \A p \in Players, i \in 1..Len(queue') :
        LoadNext(p, i) =>
            /\ session'[p] = "loading"
            /\ \A k \in 1..Len(queue') : LoadNext(p, k) => k = i
            /\ \A j \in i..Len(queue') : /\ AtNext(j).gold[p] = Planned'.gold[p]
                                        /\ AtNext(j).bag[p] = Planned'.bag[p]
                                        /\ Keeps(p, AtNext(j), Planned')
<1>1. \A j : At(j)' = AtNext(j)
  BY AtPrime
<1>2. \A p, i : Loads(p, i)' <=> LoadNext(p, i)
  BY DEF Loads, LoadNext
<1> QED
  BY <1>1, <1>2 DEF LoadsRight, Keeps

\* New stores are as sound as the old ones.
LEMMA CommitStores ==
    ASSUME MemoryType, StoresSound, NEW cs \in Seq(Contents), cs # << >>, Commits(cs),
           nextAuction' \in Int, nextAuction <= nextAuction',
           \A i \in 1..Len(cs) : Sound(cs[i], nextAuction')
    PROVE  StoresSound'
<1>1. /\ Len(queue) \in Nat /\ Len(cs) \in Nat /\ Len(queue') = Len(queue) + Len(cs)
      /\ \A j \in 0..Len(queue) : AtNext(j) = At(j)
      /\ \A i \in 1..Len(cs) : AtNext(Len(queue) + i) = cs[i]
  BY CommitSeen DEF MemoryType
<1>2. SUFFICES ASSUME NEW j \in 0..Len(queue') PROVE Sound(AtNext(j), nextAuction')
  BY StoresPrime
<1>3. CASE j \in 0..Len(queue)
  <2>1. Sound(AtNext(j), nextAuction)
    BY <1>1, <1>3 DEF StoresSound
  <2>2. nextAuction \in Int
    BY DEF MemoryType
  <2> QED
    BY <2>1, <2>2, SoundLater
<1>4. CASE j \notin 0..Len(queue)
  <2>1. j - Len(queue) \in 1..Len(cs) /\ Len(queue) + (j - Len(queue)) = j
    BY <1>1, <1>4
  <2> QED
    BY <1>1, <2>1
<1> QED
  BY <1>3, <1>4

\* And so is what those will see who are not concerned.
LEMMA CommitViews ==
    ASSUME MemoryType, StoresSound, LoadsRight, UnreadRight,
           NEW cs \in Seq(Contents), cs # << >>, Commits(cs),
           \A q \in Players : session[q] = "loading" =>
              /\ session'[q] = "loading"
              /\ \A i \in 1..Len(cs) : /\ cs[i].gold[q] = Planned.gold[q]
                                       /\ cs[i].bag[q] = Planned.bag[q],
           \A q \in Players : session'[q] = "online" /\ q \notin loaded' =>
              session[q] = "online" /\ q \notin loaded,
           \A q \in Players : session'[q] = "loading" \/ (session'[q] = "online" /\ q \notin loaded') =>
              \A i \in 1..Len(cs) : Keeps(q, Planned, cs[Len(cs)]) /\ Keeps(q, cs[i], cs[Len(cs)])
    PROVE  LoadsRight' /\ UnreadRight'
<1> DEFINE n == Len(queue)
           c == cs[Len(cs)]
<1>1. /\ n \in Nat /\ Len(cs) \in Nat /\ Len(queue') = n + Len(cs)
      /\ \A i \in 1..n : queue'[i] = queue[i]
      /\ \A i \in 1..Len(cs) : queue'[n + i].kind = "commit"
      /\ \A j \in 0..n : AtNext(j) = At(j)
      /\ \A i \in 1..Len(cs) : AtNext(n + i) = cs[i]
      /\ Planned' = c
  BY CommitSeen DEF MemoryType
<1>2. Len(cs) \in 1..Len(cs) /\ c \in Contents /\ \A i \in 1..Len(cs) : cs[i] \in Contents
  OBVIOUS
<1>3. /\ \A j \in 0..n : At(j) \in Contents
      /\ Planned \in Contents
  BY <1>1, PlannedIsAt DEF StoresSound, Sound
<1>4. \A j \in 0..Len(queue') : j \in 0..n \/ (j - n \in 1..Len(cs) /\ n + (j - n) = j)
  BY <1>1
<1> HIDE DEF c
<1>5. ASSUME NEW q \in Players, NEW i \in 1..Len(queue'), LoadNext(q, i)
      PROVE  /\ i \in 1..n /\ Loads(q, i)
             /\ session[q] = "loading" /\ session'[q] = "loading"
  <2>1. ASSUME i - n \in 1..Len(cs), n + (i - n) = i PROVE FALSE
    BY <1>1, <1>5, <2>1 DEF LoadNext
  <2>2. i \in 1..n
    <3>1. i \in 0..Len(queue') /\ i # 0
      BY <1>1
    <3>2. i \in 0..n
      BY <1>4, <2>1, <3>1
    <3> QED BY <1>1, <3>1, <3>2
  <2>3. Loads(q, i)
    BY <1>1, <1>5, <2>2 DEF Loads, LoadNext
  <2>4. session[q] = "loading"
    BY <2>2, <2>3 DEF LoadsRight
  <2> QED
    BY <2>2, <2>3, <2>4
<1>6. ASSUME NEW q \in Players, NEW i \in 1..Len(queue'), LoadNext(q, i), NEW j \in i..Len(queue')
      PROVE  /\ AtNext(j).gold[q] = Planned'.gold[q]
             /\ AtNext(j).bag[q] = Planned'.bag[q]
             /\ Keeps(q, AtNext(j), Planned')
  <2>1. i \in 1..n /\ Loads(q, i) /\ session[q] = "loading" /\ session'[q] = "loading"
    BY <1>5, <1>6
  <2>2. c.gold[q] = Planned.gold[q] /\ c.bag[q] = Planned.bag[q] /\ Keeps(q, Planned, c)
    BY <1>2, <2>1 DEF c
  <2>3. CASE j \in 0..n
    <3>1. j \in i..n /\ At(j).gold[q] = Planned.gold[q] /\ At(j).bag[q] = Planned.bag[q]
          /\ Keeps(q, At(j), Planned)
      BY <2>1, <2>3 DEF LoadsRight
    <3>2. Keeps(q, At(j), c)
      BY <1>2, <1>3, <2>2, <2>3, <3>1, KeepsOn
    <3> QED BY <1>1, <2>2, <2>3, <3>1, <3>2
  <2>4. CASE j \notin 0..n
    <3>1. j \in 0..Len(queue')
      BY <1>1, <2>1
    <3> DEFINE k == j - n
    <3>2. k \in 1..Len(cs) /\ n + k = j
      BY <1>4, <2>4, <3>1
    <3>3. AtNext(j) = cs[k] /\ cs[k].gold[q] = Planned.gold[q] /\ cs[k].bag[q] = Planned.bag[q]
          /\ Keeps(q, cs[k], c)
      BY <1>1, <2>1, <3>2 DEF c
    <3> QED BY <1>1, <2>2, <3>3
  <2> QED
    BY <2>3, <2>4
<1>7. ASSUME NEW q \in Players, NEW i \in 1..Len(queue'), LoadNext(q, i),
             NEW k \in 1..Len(queue'), LoadNext(q, k)
      PROVE  k = i
  <2>1. i \in 1..n /\ Loads(q, i) /\ k \in 1..n /\ Loads(q, k)
    BY <1>5, <1>7
  <2> QED
    BY <2>1 DEF LoadsRight
<1>8. LoadsRight'
  BY <1>5, <1>6, <1>7, LoadsPrime
<1>9. ASSUME NEW q \in Players, session'[q] = "online", q \notin loaded',
             NEW j \in 0..Len(queue')
      PROVE  Keeps(q, AtNext(j), Planned')
  <2>1. session[q] = "online" /\ q \notin loaded /\ Keeps(q, Planned, c)
    BY <1>2, <1>9 DEF c
  <2>2. CASE j \in 0..n
    <3>1. Keeps(q, At(j), Planned)
      BY <2>1, <2>2 DEF UnreadRight
    <3>2. Keeps(q, At(j), c)
      BY <1>2, <1>3, <2>1, <2>2, <3>1, KeepsOn
    <3> QED BY <1>1, <2>2, <3>2
  <2>3. CASE j \notin 0..n
    <3> DEFINE k == j - n
    <3>1. k \in 1..Len(cs) /\ n + k = j
      BY <1>4, <2>3
    <3>2. AtNext(j) = cs[k] /\ Keeps(q, cs[k], c)
      BY <1>1, <1>9, <3>1 DEF c
    <3> QED BY <1>1, <3>2
  <2> QED
    BY <2>2, <2>3
<1>10. UnreadRight'
  BY <1>9, UnreadPrime
<1> QED
  BY <1>8, <1>10

\* The worker executes an operation; a load gives its player what he had.
LEMMA ExecuteViews ==
    ASSUME MemoryType, StoresSound, LoadsRight, UnreadRight, BoxesRight,
           queue # << >>, queue' = Tail(queue),
           disk' = IF Head(queue).kind = "commit" THEN Head(queue).contents ELSE disk,
           nextAuction' = nextAuction, loaded' = loaded,
           \A q \in Players : session'[q] = session[q] \/ (Loads(q, 1) /\ session'[q] = "online")
    PROVE  StoresSound' /\ LoadsRight' /\ UnreadRight'
<1>1. /\ Len(queue) \in Nat /\ Len(queue') \in Nat /\ Len(queue') + 1 = Len(queue)
      /\ \A i \in 1..Len(queue') : queue'[i] = queue[i + 1]
      /\ \A j \in 0..Len(queue') : AtNext(j) = At(j + 1)
      /\ Planned' = Planned
  BY ExecuteSeen DEF MemoryType
<1>2. StoresSound'
  <2>1. SUFFICES ASSUME NEW j \in 0..Len(queue') PROVE Sound(AtNext(j), nextAuction')
    BY StoresPrime
  <2>2. j + 1 \in 0..Len(queue)
    BY <1>1
  <2> QED
    BY <1>1, <2>2 DEF StoresSound
<1>3. ASSUME NEW q \in Players, NEW i \in 1..Len(queue'), LoadNext(q, i)
      PROVE  /\ session'[q] = "loading"
             /\ \A k \in 1..Len(queue') : LoadNext(q, k) => k = i
             /\ \A j \in i..Len(queue') : /\ AtNext(j).gold[q] = Planned'.gold[q]
                                          /\ AtNext(j).bag[q] = Planned'.bag[q]
                                          /\ Keeps(q, AtNext(j), Planned')
  <2>1. \A k \in 1..Len(queue') : LoadNext(q, k) => k + 1 \in 1..Len(queue) /\ Loads(q, k + 1)
    BY <1>1 DEF Loads, LoadNext
  <2>2. i + 1 \in 1..Len(queue) /\ Loads(q, i + 1)
    BY <1>3, <2>1
  <2>3. session[q] = "loading" /\ \A k \in 1..Len(queue) : Loads(q, k) => k = i + 1
    BY <2>2 DEF LoadsRight
  <2>4. session'[q] = "loading"
    <3>1. 1 \in 1..Len(queue) /\ 1 # i + 1
      BY <1>1
    <3>2. ~Loads(q, 1)
      BY <2>3, <3>1
    <3> QED BY <2>3, <3>2
  <2>5. ASSUME NEW k \in 1..Len(queue'), LoadNext(q, k) PROVE k = i
    <3>1. k + 1 \in 1..Len(queue) /\ Loads(q, k + 1)
      BY <2>1, <2>5
    <3>2. k + 1 = i + 1
      BY <2>3, <3>1
    <3> QED BY <3>2
  <2>6. ASSUME NEW j \in i..Len(queue')
        PROVE  /\ AtNext(j).gold[q] = Planned'.gold[q]
               /\ AtNext(j).bag[q] = Planned'.bag[q]
               /\ Keeps(q, AtNext(j), Planned')
    <3>1. j \in 0..Len(queue') /\ j + 1 \in (i + 1)..Len(queue)
      BY <1>1
    <3>2. /\ At(j + 1).gold[q] = Planned.gold[q]
          /\ At(j + 1).bag[q] = Planned.bag[q]
          /\ Keeps(q, At(j + 1), Planned)
      BY <2>2, <3>1 DEF LoadsRight
    <3> QED BY <1>1, <3>1, <3>2
  <2> QED
    BY <2>4, <2>5, <2>6
<1>4. LoadsRight'
  BY <1>3, LoadsPrime
<1>5. ASSUME NEW q \in Players, session'[q] = "online", q \notin loaded',
             NEW j \in 0..Len(queue')
      PROVE  Keeps(q, AtNext(j), Planned')
  <2>1. j + 1 \in 1..Len(queue) /\ j + 1 \in 0..Len(queue) /\ 1 \in 1..Len(queue) /\ q \notin loaded
    BY <1>1, <1>5
  <2>2. CASE session[q] = "online"
    <3>1. Keeps(q, At(j + 1), Planned)
      BY <2>1, <2>2 DEF UnreadRight
    <3> QED BY <1>1, <3>1
  <2>3. CASE Loads(q, 1)
    <3>1. Keeps(q, At(j + 1), Planned)
      BY <2>1, <2>3 DEF LoadsRight
    <3> QED BY <1>1, <3>1
  <2> QED
    BY <1>5, <2>2, <2>3
<1>6. UnreadRight'
  BY <1>5, UnreadPrime
<1> QED
  BY <1>2, <1>4, <1>6

\* A login is queued.
LEMMA DelayViews ==
    ASSUME MemoryType, StoresSound, LoadsRight, UnreadRight,
           NEW p \in Players, DelayQueryHolder(p), session[p] = "offline",
           session' = [session EXCEPT ![p] = "loading"],
           nextAuction' = nextAuction, loaded' = loaded
    PROVE  StoresSound' /\ LoadsRight' /\ UnreadRight'
<1> DEFINE n == Len(queue)
<1>1. /\ n \in Nat /\ Len(queue') = n + 1
      /\ \A i \in 1..n : queue'[i] = queue[i]
      /\ queue'[n + 1] = [kind |-> "load", for |-> p]
      /\ \A j \in 0..n : AtNext(j) = At(j)
      /\ AtNext(n + 1) = Planned
      /\ Planned' = Planned
  BY DelaySeen DEF MemoryType
<1>2. Sound(Planned, nextAuction) /\ Planned \in Contents /\ \A j \in 0..n : At(j) \in Contents
  BY <1>1, PlannedIsAt DEF StoresSound, Sound
<1>3. \A j \in 0..(n + 1) : j \in 0..n \/ j = n + 1
  BY <1>1
<1>4. StoresSound'
  BY <1>1, <1>2, <1>3, StoresPrime DEF StoresSound
<1>5. /\ session'[p] = "loading" /\ \A q \in Players \ {p} : session'[q] = session[q]
  BY DEF MemoryType
<1>6. ASSUME NEW q \in Players, NEW i \in 1..Len(queue'), LoadNext(q, i)
      PROVE  (q = p /\ i = n + 1) \/ (q # p /\ i \in 1..n /\ Loads(q, i))
  <2>1. CASE i = n + 1
    BY <1>1, <1>6, <2>1 DEF LoadNext
  <2>2. CASE i # n + 1
    <3>1. i \in 1..n
      BY <1>1, <2>2
    <3>2. Loads(q, i)
      BY <1>1, <1>6, <3>1 DEF Loads, LoadNext
    <3>3. q # p
      BY <3>1, <3>2 DEF LoadsRight
    <3> QED BY <3>1, <3>2, <3>3
  <2> QED
    BY <2>1, <2>2
<1>7. ASSUME NEW q \in Players, NEW i \in 1..Len(queue'), LoadNext(q, i)
      PROVE  /\ session'[q] = "loading"
             /\ \A k \in 1..Len(queue') : LoadNext(q, k) => k = i
             /\ \A j \in i..Len(queue') : /\ AtNext(j).gold[q] = Planned'.gold[q]
                                          /\ AtNext(j).bag[q] = Planned'.bag[q]
                                          /\ Keeps(q, AtNext(j), Planned')
  <2>1. Keeps(q, Planned, Planned)
    BY <1>2, KeepsSame
  <2>2. CASE q = p /\ i = n + 1
    <3>1. \A j \in i..Len(queue') : j = n + 1
      BY <1>1, <2>2
    <3>2. \A k \in 1..Len(queue') : LoadNext(q, k) => k = i
      BY <1>6, <2>2
    <3> QED BY <1>1, <1>5, <2>1, <2>2, <3>1, <3>2
  <2>3. CASE q # p /\ i \in 1..n /\ Loads(q, i)
    <3>1. session'[q] = "loading"
      BY <1>5, <2>3 DEF LoadsRight
    <3>2. \A k \in 1..Len(queue') : LoadNext(q, k) => k = i
      BY <1>6, <2>3 DEF LoadsRight
    <3>3. ASSUME NEW j \in i..Len(queue')
          PROVE  /\ AtNext(j).gold[q] = Planned'.gold[q]
                 /\ AtNext(j).bag[q] = Planned'.bag[q]
                 /\ Keeps(q, AtNext(j), Planned')
      <4>1. CASE j = n + 1
        BY <1>1, <2>1, <4>1
      <4>2. CASE j # n + 1
        <5>1. j \in i..n /\ j \in 0..n
          BY <1>1, <4>2
        <5> QED BY <1>1, <2>3, <5>1 DEF LoadsRight
      <4> QED BY <4>1, <4>2
    <3> QED BY <3>1, <3>2, <3>3
  <2> QED
    BY <1>6, <1>7, <2>2, <2>3
<1>8. LoadsRight'
  BY <1>7, LoadsPrime
<1>9. ASSUME NEW q \in Players, session'[q] = "online", q \notin loaded',
             NEW j \in 0..Len(queue')
      PROVE  Keeps(q, AtNext(j), Planned')
  <2>1. session[q] = "online" /\ q \notin loaded
    BY <1>5, <1>9
  <2>2. CASE j \in 0..n
    BY <1>1, <2>1, <2>2 DEF UnreadRight
  <2>3. CASE j = n + 1
    BY <1>1, <1>2, <2>3, KeepsSame
  <2> QED
    BY <1>1, <1>3, <2>2, <2>3
<1>10. UnreadRight'
  BY <1>9, UnreadPrime
<1> QED
  BY <1>4, <1>8, <1>10

\* The queue is as it was.
LEMMA SameViews ==
    ASSUME StoresSound, LoadsRight, UnreadRight, UNCHANGED <<disk, queue>>, nextAuction' = nextAuction,
           \A q \in Players : session[q] = "loading" => session'[q] = "loading",
           \A q \in Players : session'[q] = "online" /\ q \notin loaded' =>
              session[q] = "online" /\ q \notin loaded
    PROVE  StoresSound' /\ LoadsRight' /\ UnreadRight' /\ Planned' = Planned
<1>1. queue' = queue /\ disk' = disk /\ \A j : AtNext(j) = At(j)
  BY DEF AtNext, At
<1>2. Planned' = Planned
  BY <1>1, PlannedIsAt, PlannedPrime
<1>3. StoresSound'
  BY <1>1, StoresPrime DEF StoresSound
<1>4. LoadsRight'
  BY <1>1, <1>2, LoadsPrime DEF LoadsRight, LoadNext, Loads
<1>5. UnreadRight'
  BY <1>1, <1>2, UnreadPrime DEF UnreadRight
<1> QED
  BY <1>2, <1>3, <1>4, <1>5

-----------------------------------------------------------------------------
(* Letters sent and rewritten.                                             *)

LEMMA BoxesSent ==
    ASSUME NEW boxes, NEW m \in Mailboxes, BoxesOf(boxes, loaded, m),
           NEW L \in SUBSET Posted, IsFiniteSet(L)
    PROVE  BoxesOf(Delivered(boxes, L), loaded, m (+) Sent(L))
<1> DEFINE to(p) == {l \in L : l.to = p}
           now == Delivered(boxes, L)
<1>1. now = [p \in Players |-> IF p \in loaded THEN boxes[p] (+) Sent(to(p)) ELSE boxes[p]]
  BY DEF Delivered
<1>2. Sent(L) \in Mailboxes /\ m (+) Sent(L) \in Mailboxes
  BY MailboxSent, MailboxSum
<1> HIDE DEF now
<1>3. ASSUME NEW p \in Players
      PROVE  /\ now[p] \in Mailboxes
             /\ \A l \in DOMAIN now[p] : l.to = p
             /\ p \notin loaded => DOMAIN now[p] = {}
             /\ p \in loaded => now[p] \sqsubseteq m (+) Sent(L)
  <2>1. /\ boxes[p] \in Mailboxes /\ \A l \in DOMAIN boxes[p] : l.to = p
        /\ p \notin loaded => DOMAIN boxes[p] = {}
        /\ p \in loaded => boxes[p] \sqsubseteq m
    BY DEF BoxesOf
  <2>2. CASE p \notin loaded
    BY <1>1, <2>1, <2>2
  <2>3. CASE p \in loaded
    <3>1. now[p] = boxes[p] (+) Sent(to(p))
      BY <1>1, <2>3
    <3>2. to(p) \in SUBSET Posted /\ IsFiniteSet(to(p))
      BY FS_Subset
    <3>3. Sent(to(p)) \in Mailboxes /\ now[p] \in Mailboxes
      BY <2>1, <3>1, <3>2, MailboxSent, MailboxSum
    <3>4. IsABag(boxes[p]) /\ IsABag(m) /\ IsABag(Sent(L)) /\ IsABag(Sent(to(p)))
          /\ IsABag(now[p]) /\ IsABag(m (+) Sent(L))
      BY <1>2, <2>1, <3>3, MailboxType
    <3>5. DOMAIN now[p] = DOMAIN boxes[p] \cup DOMAIN Sent(to(p))
          /\ \A l : Copies(l, now[p]) = Copies(l, boxes[p]) + Copies(l, Sent(to(p)))
      BY <3>1, <3>4, BagSum
    <3>6. DOMAIN Sent(to(p)) \subseteq to(p)
          /\ \A l : Copies(l, Sent(to(p))) = IF l \in to(p) /\ Filled(l) THEN 1 ELSE 0
      BY SentBag
    <3>7. \A l : Copies(l, Sent(L)) = IF l \in L /\ Filled(l) THEN 1 ELSE 0
      BY SentBag
    <3>8. \A l : Copies(l, m (+) Sent(L)) = Copies(l, m) + Copies(l, Sent(L))
      BY <3>4, BagSum
    <3>9. \A l : /\ Copies(l, boxes[p]) <= Copies(l, m)
                 /\ Copies(l, boxes[p]) \in Nat /\ Copies(l, m) \in Nat
      BY <2>1, <2>3, <3>4, BagIncluded, BagCopies
    <3>10. \A l : Copies(l, Sent(to(p))) <= Copies(l, Sent(L))
      BY <3>6, <3>7
    <3>11. \A l : Copies(l, Sent(to(p))) \in Nat /\ Copies(l, Sent(L)) \in Nat
      BY <3>6, <3>7
    <3>12. \A l : Copies(l, now[p]) <= Copies(l, m (+) Sent(L))
      <4>1. SUFFICES ASSUME NEW l PROVE Copies(l, now[p]) <= Copies(l, m (+) Sent(L))
        OBVIOUS
      <4>2. Copies(l, now[p]) = Copies(l, boxes[p]) + Copies(l, Sent(to(p)))
            /\ Copies(l, m (+) Sent(L)) = Copies(l, m) + Copies(l, Sent(L))
        BY <3>5, <3>8
      <4> QED BY <3>9, <3>10, <3>11, <4>2
    <3>13. now[p] \sqsubseteq m (+) Sent(L)
      BY <3>4, <3>12, BagIncluded
    <3>14. \A l \in DOMAIN now[p] : l.to = p
      BY <2>1, <3>5, <3>6
    <3> QED BY <2>3, <3>3, <3>13, <3>14
  <2> QED
    BY <2>2, <2>3
<1>4. now \in [Players -> Mailboxes]
  <2>1. now = [p \in Players |-> now[p]]
    BY <1>1
  <2> QED
    BY <1>3, <2>1
<1>5. BoxesOf(now, loaded, m (+) Sent(L))
  BY <1>3, <1>4 DEF BoxesOf
<1> QED
  BY <1>5 DEF now

LEMMA BoxesRewritten ==
    ASSUME NEW boxes, NEW m \in Mailboxes, BoxesOf(boxes, loaded, m),
           NEW p \in loaded, p \in Players, NEW k \in DOMAIN boxes[p],
           NEW new \in SUBSET Posted, IsFiniteSet(new), \A l \in new : l.to = p
    PROVE  BoxesOf([boxes EXCEPT ![p] = Rewritten(@, k, new)], loaded, Rewritten(m, k, new))
<1> DEFINE now == [boxes EXCEPT ![p] = Rewritten(@, k, new)]
           after == Rewritten(m, k, new)
<1>1. /\ boxes \in [Players -> Mailboxes]
      /\ \A q \in Players : /\ \A l \in DOMAIN boxes[q] : l.to = q
                            /\ q \notin loaded => DOMAIN boxes[q] = {}
                            /\ q \in loaded => boxes[q] \sqsubseteq m
  BY DEF BoxesOf
<1>2. now \in [Players -> Mailboxes] /\ now[p] = Rewritten(boxes[p], k, new)
      /\ \A q \in Players \ {p} : now[q] = boxes[q]
  <2>1. Rewritten(boxes[p], k, new) \in Mailboxes
    BY <1>1, MailboxRewritten
  <2> HIDE DEF Mailboxes
  <2> QED
    BY <1>1, <2>1
<1> HIDE DEF now
<1>3. after \in Mailboxes
  BY MailboxRewritten
<1>4. IsABag(m) /\ IsABag(after) /\ \A q \in Players : IsABag(boxes[q]) /\ IsABag(now[q])
  BY <1>1, <1>2, <1>3, MailboxType
<1> DEFINE extra(l) == IF l \in new /\ Filled(l) THEN 1 ELSE 0
<1>5. \A l : Copies(l, after) =
               (IF l = k /\ Copies(k, m) > 0 THEN Copies(k, m) - 1 ELSE Copies(l, m)) + extra(l)
  BY <1>4, RewrittenBag
<1>6. DOMAIN now[p] \subseteq DOMAIN boxes[p] \cup new
      /\ \A l : Copies(l, now[p]) =
           (IF l = k /\ Copies(k, boxes[p]) > 0 THEN Copies(k, boxes[p]) - 1
            ELSE Copies(l, boxes[p])) + extra(l)
  BY <1>2, <1>4, RewrittenBag
<1>7. \A l : extra(l) \in {0, 1} /\ Copies(l, m) \in Nat /\ \A q \in Players : Copies(l, boxes[q]) \in Nat
  BY <1>4, BagCopies
<1>8. ASSUME NEW q \in loaded, q \in Players PROVE \A l : Copies(l, boxes[q]) <= Copies(l, m)
  BY <1>1, <1>4, <1>8, BagIncluded
<1> HIDE DEF extra, after
<1>9. now[p] \sqsubseteq after
  <2>1. \A l : Copies(l, boxes[p]) <= Copies(l, m)
    BY <1>8
  <2>2. \A l : Copies(l, now[p]) <= Copies(l, after)
    BY <1>5, <1>6, <1>7, <2>1
  <2> QED
    BY <1>4, <2>2, BagIncluded
<1>10. ASSUME NEW q \in Players, q # p, q \in loaded PROVE now[q] \sqsubseteq after
  <2>1. k \notin DOMAIN boxes[q]
    BY <1>1, <1>10
  <2>2. \A l : Copies(l, boxes[q]) <= Copies(l, after)
    <3>1. SUFFICES ASSUME NEW l PROVE Copies(l, boxes[q]) <= Copies(l, after)
      OBVIOUS
    <3>2. CASE l = k
      <4>1. Copies(l, boxes[q]) = 0
        BY <2>1, <3>2 DEF Copies
      <4>2. Copies(l, after) \in Nat
        BY <1>4, BagCopies
      <4> QED BY <4>1, <4>2
    <3>3. CASE l # k
      <4>1. Copies(l, after) = Copies(l, m) + extra(l)
        BY <1>5, <3>3
      <4>2. Copies(l, boxes[q]) <= Copies(l, m)
        BY <1>8, <1>10
      <4> QED BY <1>7, <4>1, <4>2
    <3> QED BY <3>2, <3>3
  <2> QED
    BY <1>2, <1>4, <1>10, <2>2, BagIncluded
<1>11. ASSUME NEW q \in Players
       PROVE  /\ \A l \in DOMAIN now[q] : l.to = q
              /\ q \notin loaded => DOMAIN now[q] = {}
              /\ q \in loaded => now[q] \sqsubseteq after
  BY <1>1, <1>2, <1>6, <1>9, <1>10
<1>12. BoxesOf(now, loaded, after)
  BY <1>2, <1>11 DEF BoxesOf
<1> QED
  BY <1>12 DEF now, after

\* Letters are sent, and one to p may be rewritten: those to others stay.
LEMMA KeepsSent ==
    ASSUME NEW q, NEW d \in Contents, NEW e \in Contents, NEW L, e.mails = d.mails (+) Sent(L)
    PROVE  Keeps(q, d, e)
<1>1. IsABag(d.mails) /\ IsABag(Sent(L))
  BY ContentsType, MailboxType, SentBag
<1>2. \A l : Copies(l, e.mails) = Copies(l, d.mails) + Copies(l, Sent(L))
  BY <1>1, BagSum
<1>3. \A l : Copies(l, d.mails) \in Nat /\ Copies(l, Sent(L)) \in Nat
  BY <1>1, BagCopies
<1> QED
  BY <1>2, <1>3 DEF Keeps

LEMMA KeepsRewritten ==
    ASSUME NEW q, NEW d \in Contents, NEW e \in Contents, NEW k, k.to # q, NEW new,
           e.mails = Rewritten(d.mails, k, new)
    PROVE  Keeps(q, d, e)
<1>1. IsABag(d.mails)
  BY ContentsType, MailboxType
<1>2. \A l : Copies(l, e.mails) =
               (IF l = k /\ Copies(k, d.mails) > 0 THEN Copies(k, d.mails) - 1 ELSE Copies(l, d.mails))
               + (IF l \in new /\ Filled(l) THEN 1 ELSE 0)
  BY <1>1, RewrittenBag
<1>3. \A l : Copies(l, d.mails) \in Nat
  BY <1>1, BagCopies
<1> QED
  BY <1>2, <1>3 DEF Keeps

-----------------------------------------------------------------------------
(* Contents of the tables, and what transactions make of them.             *)

LEMMA SavedContents ==
    ASSUME NEW d \in Contents, NEW p, NEW gold \in Nat, NEW units \in SUBSET Units,
           NEW e, e = SavedInventoryAndGold(d, p, gold, units)
    PROVE  /\ e \in Contents
           /\ e.gold = Instead(d.gold, p, gold) /\ e.bag = Instead(d.bag, p, units)
           /\ e.auctions = d.auctions /\ e.mails = d.mails
           /\ e.fees = d.fees /\ e.moving = d.moving
BY DEF SavedInventoryAndGold, Contents, Instead

LEMMA EndedContents ==
    ASSUME NEW d \in Contents, NEW id, NEW L \in SUBSET Posted, IsFiniteSet(L),
           NEW fee \in Nat, NEW e, e = Ended(d, id, L, fee)
    PROVE  /\ e \in Contents
           /\ e.gold = d.gold /\ e.bag = d.bag
           /\ e.auctions = Without(d.auctions, id)
           /\ e.mails = d.mails (+) Sent(L)
           /\ e.fees = d.fees + fee /\ e.moving = d.moving
<1> DEFINE rest == Without(d.auctions, id)
           mails == d.mails (+) Sent(L)
           fees == d.fees + fee
<1>1. e = [d EXCEPT !.auctions = rest, !.mails = mails, !.fees = fees]
  BY DEF Ended, Without
<1>2. d.auctions \in Houses /\ d.mails \in Mailboxes /\ d.fees \in Int
  BY ContentsType
<1>3. rest \in Houses
  BY <1>2, HouseWithout
<1>4. mails \in Mailboxes
  BY <1>2, MailboxSent, MailboxSum
<1>5. fees \in Int
  BY <1>2
<1> HIDE DEF rest, mails, fees
<1>6. /\ e \in Contents
      /\ e.gold = d.gold /\ e.bag = d.bag /\ e.auctions = rest /\ e.mails = mails
      /\ e.fees = fees /\ e.moving = d.moving
  BY <1>1, <1>3, <1>4, <1>5 DEF Contents
<1> QED
  BY <1>6 DEF rest, mails, fees

\* The items of auctions.
ItemsOf(as) == {a.units : a \in Range(as)}

LEMMA ItemOf == ASSUME NEW as, NEW id \in DOMAIN as PROVE as[id].units \in ItemsOf(as)
BY DEF ItemsOf, Range

LEMMA SoundSame ==
    ASSUME NEW d, NEW n, Sound(d, n), NEW e \in Contents, e.auctions = d.auctions
    PROVE  Sound(e, n)
BY DEF Sound

LEMMA SoundWithout ==
    ASSUME NEW d, NEW n, Sound(d, n), NEW e \in Contents, NEW id \in DOMAIN d.auctions,
           e.auctions = Without(d.auctions, id)
    PROVE  /\ Sound(e, n)
           /\ ItemsOf(e.auctions) = ItemsOf(d.auctions) \ {d.auctions[id].units}
<1>1. d.auctions \in Houses
  BY ContentsType DEF Sound
<1>2. /\ \A i : i \in DOMAIN e.auctions <=> i \in DOMAIN d.auctions /\ i # id
      /\ \A i \in DOMAIN e.auctions : e.auctions[i] = d.auctions[i]
  BY <1>1, HouseWithout
<1>3. Sound(e, n)
  BY <1>2 DEF Sound
<1>4. \A u : u \in ItemsOf(e.auctions) <=> u \in ItemsOf(d.auctions) /\ u # d.auctions[id].units
  <2>1. \A i \in DOMAIN d.auctions : i = id <=> d.auctions[i].units = d.auctions[id].units
    BY DEF Sound
  <2>2. \A u : u \in ItemsOf(d.auctions) <=> \E i \in DOMAIN d.auctions : u = d.auctions[i].units
    BY DEF ItemsOf, Range
  <2>3. \A u : u \in ItemsOf(e.auctions) <=> \E i \in DOMAIN e.auctions : u = e.auctions[i].units
    BY DEF ItemsOf, Range
  <2>4. ASSUME NEW u, u \in ItemsOf(e.auctions)
        PROVE  u \in ItemsOf(d.auctions) /\ u # d.auctions[id].units
    <3>1. PICK i \in DOMAIN e.auctions : u = e.auctions[i].units
      BY <2>3, <2>4
    <3>2. i \in DOMAIN d.auctions /\ i # id /\ u = d.auctions[i].units
      BY <1>2, <3>1
    <3> QED BY <2>1, <2>2, <3>2
  <2>5. ASSUME NEW u, u \in ItemsOf(d.auctions), u # d.auctions[id].units
        PROVE  u \in ItemsOf(e.auctions)
    <3>1. PICK i \in DOMAIN d.auctions : u = d.auctions[i].units
      BY <2>2, <2>5
    <3>2. i \in DOMAIN e.auctions /\ u = e.auctions[i].units
      BY <1>2, <2>5, <3>1
    <3> QED BY <2>3, <3>2
  <2> QED
    BY <2>4, <2>5
<1> QED
  BY <1>3, <1>4

LEMMA SoundChanged ==
    ASSUME NEW d, NEW n, Sound(d, n), NEW e \in Contents, NEW id \in DOMAIN d.auctions,
           NEW a \in Offers, a.units = d.auctions[id].units,
           e.auctions = Instead(d.auctions, id, a)
    PROVE  Sound(e, n) /\ ItemsOf(e.auctions) = ItemsOf(d.auctions)
<1>1. d.auctions \in Houses
  BY ContentsType DEF Sound
<1>2. DOMAIN e.auctions = DOMAIN d.auctions /\ e.auctions[id] = a
      /\ \A i \in DOMAIN e.auctions \ {id} : e.auctions[i] = d.auctions[i]
  BY <1>1, HouseChanged
<1>3. \A i \in DOMAIN e.auctions : e.auctions[i].units = d.auctions[i].units
  BY <1>2
<1>4. Sound(e, n)
  BY <1>2, <1>3 DEF Sound
<1>5. \A u : u \in ItemsOf(e.auctions) <=> u \in ItemsOf(d.auctions)
  BY <1>2, <1>3 DEF ItemsOf, Range
<1> QED
  BY <1>4, <1>5

LEMMA SoundWith ==
    ASSUME NEW d, NEW n \in 1..MaxAuctions, Sound(d, n), NEW e \in Contents, NEW a \in Offers,
           a.units \notin ItemsOf(d.auctions),
           e.auctions = AddAuction(d.auctions, n, a), MaxAuctions \in Nat
    PROVE  /\ Sound(e, n + 1) /\ ItemsOf(e.auctions) = ItemsOf(d.auctions) \cup {a.units}
           /\ n \notin DOMAIN d.auctions
<1>1. d.auctions \in Houses
  BY ContentsType DEF Sound
<1>2. n \notin DOMAIN d.auctions /\ \A i \in DOMAIN d.auctions : i \in Int /\ i < n
  BY <1>1, HouseType DEF Sound
<1>3. DOMAIN e.auctions = DOMAIN d.auctions \cup {n} /\ e.auctions[n] = a
      /\ \A i \in DOMAIN d.auctions : e.auctions[i] = d.auctions[i]
  BY <1>1, <1>2, HouseWith
<1>4. \A i \in DOMAIN d.auctions : d.auctions[i].units # a.units
  BY ItemOf
<1>5. \A id \in DOMAIN e.auctions : id < n + 1
  BY <1>2, <1>3
<1>6. \A i, k \in DOMAIN e.auctions : e.auctions[i].units = e.auctions[k].units => i = k
  BY <1>3, <1>4 DEF Sound
<1>7. \A u : u \in ItemsOf(e.auctions) <=> u \in ItemsOf(d.auctions) \/ u = a.units
  BY <1>3 DEF ItemsOf, Range
<1> QED
  BY <1>2, <1>5, <1>6, <1>7 DEF Sound

-----------------------------------------------------------------------------
(* A step of the running world commits transactions. Only the players in S *)
(* are concerned, and they are in the world.                               *)

Concerns(S, cs, c) ==
    /\ S \in SUBSET Players
    /\ \A q \in S : session[q] = "online" /\ session'[q] \in {"online", "offline"}
    /\ \A q \in Players \ S : /\ session'[q] = session[q]
                              /\ \A i \in 1..Len(cs) : /\ cs[i].gold[q] = Planned.gold[q]
                                                       /\ cs[i].bag[q] = Planned.bag[q]
    /\ \A q \in Players : q \notin loaded \/ q \notin S =>
          \A i \in 1..Len(cs) : Keeps(q, Planned, c) /\ Keeps(q, cs[i], c)

LEMMA RunningStep ==
    ASSUME AuctionInv, world = "running", world' = world, crashes' = crashes,
           NEW cs \in Seq(Contents), cs # << >>, Commits(cs), NEW c, c = cs[Len(cs)],
           nextAuction' \in 1..(MaxAuctions + 1), nextAuction <= nextAuction',
           \A i \in 1..Len(cs) : Sound(cs[i], nextAuction'),
           NEW S, Concerns(S, cs, c),
           session' \in [Players -> {"offline", "loading", "online"}],
           loaded' = {q \in loaded : session'[q] = "online"},
           auctions' = c.auctions, aItems' = ItemsOf(c.auctions),
           purse' \in [Players -> Nat], bag' \in [Players -> SUBSET Units],
           \A q \in Players : session'[q] = "online" =>
              purse'[q] = c.gold[q] /\ bag'[q] = c.bag[q],
           BoxesOf(box', loaded', c.mails)
    PROVE  AuctionInv' /\ Planned' = c
<1>1. /\ MemoryType /\ StoresSound /\ BoxesRight /\ LoadsRight /\ UnreadRight
      /\ nextAuction \in Int /\ nextAuction' \in Int
  BY DEF AuctionInv, MemoryType
<1>2. queue' \in Seq(Operations) /\ Len(queue') <= MaxQueue /\ Planned' = c
  BY <1>1, CommitSeen DEF MemoryType
<1>3. Len(cs) \in 1..Len(cs) /\ c \in Contents
  OBVIOUS
<1>4. c.auctions \in Houses
  BY <1>3, ContentsType
<1>5. aItems' \in SUBSET (SUBSET Units)
  BY <1>4, HouseType DEF ItemsOf, Range, Offers, Auction
<1>6. loaded' \in SUBSET Players /\ loaded' \subseteq loaded
  BY <1>1 DEF MemoryType
<1>7. MemoryType'
  BY <1>1, <1>2, <1>4, <1>5, <1>6 DEF MemoryType
<1>8. StoresSound'
  BY <1>1, CommitStores
<1>9. LoadsRight' /\ UnreadRight'
  <2>1. \A q \in Players : session[q] = "loading" => q \notin S
    BY DEF Concerns
  <2>2. \A q \in Players : session'[q] = "online" /\ q \notin loaded' =>
              session[q] = "online" /\ q \notin loaded
    BY DEF Concerns
  <2>3. \A q \in Players : session'[q] = "loading" \/ (session'[q] = "online" /\ q \notin loaded') =>
              q \notin loaded \/ q \notin S
    BY DEF Concerns
  <2>4. \A q \in Players : session[q] = "loading" =>
              /\ session'[q] = "loading"
              /\ \A i \in 1..Len(cs) : /\ cs[i].gold[q] = Planned.gold[q]
                                       /\ cs[i].bag[q] = Planned.bag[q]
    BY <2>1 DEF Concerns
  <2>5. \A q \in Players : session'[q] = "loading" \/ (session'[q] = "online" /\ q \notin loaded') =>
              \A i \in 1..Len(cs) : Keeps(q, Planned, cs[Len(cs)]) /\ Keeps(q, cs[i], cs[Len(cs)])
    BY <2>3 DEF Concerns
  <2> QED
    BY <1>1, <2>2, <2>4, <2>5, CommitViews
<1>10. BoxesRight'
  <2>1. BoxesOf(box', loaded', Planned'.mails)
    BY <1>2
  <2> QED
    BY <2>1 DEF BoxesRight, BoxesOf
<1>11. DownIsEmpty'
  BY DEF DownIsEmpty
<1>12. InMemory'
  <2>1. \A q \in Players : q \in loaded' => box'[q] \sqsubseteq c.mails
    BY DEF BoxesOf
  <2> QED
    BY <1>2, <2>1 DEF InMemory, ItemsOf
<1> QED
  BY <1>2, <1>7, <1>8, <1>9, <1>10, <1>11, <1>12 DEF AuctionInv

\* Most steps commit one transaction, and nobody leaves.
LEMMA OneCommit ==
    ASSUME AuctionInv, world = "running", world' = world, crashes' = crashes,
           NEW c \in Contents, Commits(<<c>>), Sound(c, nextAuction),
           nextAuction' = nextAuction, session' = session, loaded' = loaded,
           NEW S \in SUBSET Players, \A q \in S : session[q] = "online",
           \A q \in Players \ S : /\ c.gold[q] = Planned.gold[q]
                                  /\ c.bag[q] = Planned.bag[q],
           \A q \in Players : q \notin loaded \/ q \notin S => Keeps(q, Planned, c),
           auctions' = c.auctions, aItems' = ItemsOf(c.auctions),
           purse' \in [Players -> Nat], bag' \in [Players -> SUBSET Units],
           \A q \in Players : session[q] = "online" =>
              purse'[q] = c.gold[q] /\ bag'[q] = c.bag[q],
           BoxesOf(box', loaded', c.mails)
    PROVE  AuctionInv' /\ Planned' = c
<1> DEFINE cs == <<c>>
<1>1. cs \in Seq(Contents) /\ cs # << >> /\ Len(cs) = 1 /\ cs[Len(cs)] = c
      /\ \A i \in 1..Len(cs) : cs[i] = c
  OBVIOUS
<1>2. /\ session \in [Players -> {"offline", "loading", "online"}]
      /\ nextAuction' \in 1..(MaxAuctions + 1) /\ nextAuction <= nextAuction'
      /\ \A q \in loaded : session[q] = "online"
  BY DEF AuctionInv, MemoryType, BoxesRight
<1>3. loaded' = {q \in loaded : session'[q] = "online"}
  BY <1>2
<1>4. \A q \in Players : Keeps(q, c, c)
  BY KeepsSame
<1> HIDE DEF cs
<1>5. (\A i \in 1..Len(cs) : Sound(cs[i], nextAuction')) /\ Concerns(S, cs, c)
  BY <1>1, <1>4 DEF Concerns
<1>6. Commits(cs)
  BY DEF cs
<1>7. /\ \A q \in Players : session'[q] = "online" => purse'[q] = c.gold[q] /\ bag'[q] = c.bag[q]
      /\ session' \in [Players -> {"offline", "loading", "online"}]
      /\ cs \in Seq(Contents) /\ cs # << >> /\ c = cs[Len(cs)]
  BY <1>1, <1>2
<1> QED
  BY <1>2, <1>3, <1>5, <1>6, <1>7, RunningStep

-----------------------------------------------------------------------------
(* What holds while the world runs.                                        *)

LEMMA InWorld ==
    ASSUME AuctionInv, world = "running"
    PROVE  /\ Planned \in Contents /\ Sound(Planned, nextAuction)
           /\ Planned.gold \in [Players -> Nat] /\ Planned.bag \in [Players -> SUBSET Units]
           /\ Planned.auctions \in Houses /\ Planned.mails \in Mailboxes
           /\ Planned.fees \in Int /\ Planned.moving \in SUBSET Units
           /\ auctions = Planned.auctions /\ aItems = ItemsOf(Planned.auctions)
           /\ \A p \in Players : session[p] = "online" =>
                purse[p] = Planned.gold[p] /\ bag[p] = Planned.bag[p]
           /\ BoxesOf(box, loaded, Planned.mails)
           /\ \A p \in loaded : p \in Players /\ session[p] = "online"
<1>1. Len(queue) \in Nat
  BY DEF AuctionInv, MemoryType
<1>2. Sound(Planned, nextAuction) /\ Planned \in Contents
  BY <1>1, PlannedIsAt DEF AuctionInv, StoresSound, Sound
<1>3. /\ auctions = Planned.auctions /\ aItems = ItemsOf(Planned.auctions)
      /\ \A p \in Players : session[p] = "online" =>
           purse[p] = Planned.gold[p] /\ bag[p] = Planned.bag[p]
  BY DEF AuctionInv, InMemory, ItemsOf
<1>4. /\ BoxesOf(box, loaded, Planned.mails)
      /\ \A p \in loaded : p \in Players /\ session[p] = "online"
  BY DEF AuctionInv, BoxesRight, MemoryType
<1> QED
  BY <1>2, <1>3, <1>4, ContentsType

LEMMA OfferType ==
    ASSUME NEW as \in Houses, NEW id \in DOMAIN as
    PROVE  /\ as[id] \in Offers /\ id \in 1..MaxAuctions
           /\ as[id] \in Auction /\ as[id].bidder # as[id].owner
           /\ as[id].bidder = NoOne <=> as[id].bid = 0
BY HouseType DEF Offers

LEMMA AuctionType ==
    ASSUME NEW a \in Auction
    PROVE  /\ a.units \in SUBSET Units /\ a.units # {} /\ a.owner \in Players
           /\ a.start \in StartPrices /\ a.buyout \in Buyouts /\ a.buyout \in Nat
           /\ a.bidder \in Players \cup {NoOne} /\ a.bid \in Nat /\ a.deposit = Deposit
           /\ a.deposit \in Nat /\ a.bid \in Prices \cup Buyouts \cup {0}
<1>1. /\ a.units \in SUBSET Units /\ a.units # {} /\ a.owner \in Players
      /\ a.start \in StartPrices /\ a.buyout \in Buyouts
      /\ a.bidder \in Players \cup {NoOne} /\ a.deposit = Deposit
      /\ a.bid \in Prices \cup Buyouts \cup {0}
  BY DEF Auction
<1>2. Buyouts \subseteq Nat /\ Prices \subseteq Nat /\ Deposit \in Nat
  BY AuctionAssumption
<1>3. a.bid \in Nat /\ a.buyout \in Nat /\ a.deposit \in Nat
  <2>1. 0 \in Nat
    OBVIOUS
  <2> QED
    BY <1>1, <1>2, <2>1, Zenon
<1> QED
  BY <1>1, <1>3, Zenon

LEMMA LetterType ==
    ASSUME NEW l \in Posted
    PROVE  /\ l \in Letter /\ l.to \in Players /\ l.from \in Players \cup {House} /\ l.money \in Nat
           /\ l.units \in SUBSET Units /\ l.cod \in CodPrices \cup {0} /\ l.cod \in Nat
           /\ l.from # l.to /\ (l.cod > 0 => l.from \in Players)
<1>1. /\ l \in Letter /\ l.from # l.to /\ (l.cod > 0 => l.from \in Players)
  BY DEF Posted
<1>2. /\ l.to \in Players /\ l.from \in Players \cup {House} /\ l.money \in Nat
      /\ l.units \in SUBSET Units /\ l.cod \in CodPrices \cup {0}
  BY <1>1 DEF Letter
<1>3. l.cod \in Nat
  <2>1. 0 \in Nat /\ CodPrices \subseteq Nat
    BY AuctionAssumption
  <2> QED
    BY <1>2, <2>1, Zenon
<1> QED
  BY <1>1, <1>2, <1>3, Zenon

LEMMA CutType == ASSUME NEW bid \in Nat PROVE AuctionCut(bid) \in Nat
<1>1. bid * CutPercent \in Nat
  BY AuctionAssumption
<1> DEFINE n == bid * CutPercent
<1> HIDE DEF n
<1>2. n \in Nat => n \div 100 \in Nat
  OBVIOUS
<1> QED
  BY <1>1, <1>2 DEF AuctionCut, Percent, n

LEMMA MailFields ==
    ASSUME NEW to, NEW from, NEW money, NEW units, NEW cod
    PROVE  LET l == Mail(to, from, money, units, cod)
           IN  /\ l.to = to /\ l.from = from /\ l.money = money /\ l.units = units /\ l.cod = cod
BY DEF Mail

LEMMA MailPosted ==
    ASSUME NEW to \in Players, NEW from \in Players \cup {House}, from # to, NEW money \in Nat,
           NEW units \in SUBSET Units, NEW cod \in CodPrices \cup {0}, cod > 0 => from \in Players
    PROVE  Mail(to, from, money, units, cod) \in Posted
BY DEF Mail, Posted, Letter

LEMMA OneLetter ==
    ASSUME NEW l \in Posted
    PROVE  {l} \in SUBSET Posted /\ IsFiniteSet({l})
BY FS_Singleton

LEMMA NoLetter == {} \in SUBSET Posted /\ IsFiniteSet({})
BY FS_EmptySet

LEMMA MoreLetters ==
    ASSUME NEW K \in SUBSET Posted, IsFiniteSet(K), NEW L \in SUBSET Posted, IsFiniteSet(L)
    PROVE  K \cup L \in SUBSET Posted /\ IsFiniteSet(K \cup L)
BY FS_Union

\* The mails about an auction.
LEMMA SuccessfulPosted ==
    ASSUME NEW a \in Offers
    PROVE  SuccessfulMail(a) \in SUBSET Posted /\ IsFiniteSet(SuccessfulMail(a))
<1>1. /\ a.owner \in Players /\ a.bid \in Nat /\ a.deposit \in Nat
  BY AuctionType DEF Offers
<1> DEFINE profit == (a.bid + a.deposit - AuctionCut(a.bid)) % Word
<1>2. profit \in Nat
  <2>1. AuctionCut(a.bid) \in Nat
    BY <1>1, CutType
  <2> DEFINE n == a.bid + a.deposit - AuctionCut(a.bid)
  <2>2. n \in Int
    BY <1>1, <2>1
  <2> HIDE DEF n
  <2>3. n % Word \in Nat
    BY <2>2, AuctionAssumption
  <2> QED
    BY <2>3 DEF n
<1>3. SuccessfulMail(a) = {Mail(a.owner, House, profit, {}, 0)}
  BY DEF SuccessfulMail
<1> HIDE DEF profit
<1>4. House # a.owner /\ {} \in SUBSET Units /\ ~(0 > 0) /\ House \in Players \cup {House}
  BY <1>1, AuctionAssumption
<1>5. Mail(a.owner, House, profit, {}, 0) \in Posted
  BY <1>1, <1>2, <1>4, MailPosted
<1> QED
  BY <1>3, <1>5, OneLetter

LEMMA ItemPosted ==
    ASSUME NEW a \in Offers
    PROVE  /\ ExpiredMail(a) \in SUBSET Posted /\ IsFiniteSet(ExpiredMail(a))
           /\ a.bidder # NoOne => WonMail(a) \in SUBSET Posted /\ IsFiniteSet(WonMail(a))
<1>1. /\ a.owner \in Players /\ a.bidder \in Players \cup {NoOne} /\ a.units \in SUBSET Units
      /\ House \notin Players /\ 0 \in Nat /\ ~(0 > 0)
  BY AuctionType, AuctionAssumption DEF Offers
<1>2. Mail(a.owner, House, 0, a.units, 0) \in Posted
  BY <1>1, MailPosted
<1>3. a.bidder # NoOne => Mail(a.bidder, House, 0, a.units, 0) \in Posted
  BY <1>1, MailPosted
<1> QED
  BY <1>2, <1>3, OneLetter, NoLetter DEF ExpiredMail, WonMail

LEMMA BidderPosted ==
    ASSUME NEW a \in Offers, a.bidder # NoOne
    PROVE  BidderMail(a) \in SUBSET Posted /\ IsFiniteSet(BidderMail(a))
<1>1. /\ a.bidder \in Players /\ a.bid \in Nat /\ House \notin Players /\ ~(0 > 0) /\ {} \in SUBSET Units
  BY AuctionType, AuctionAssumption DEF Offers
<1>2. Mail(a.bidder, House, a.bid, {}, 0) \in Posted
  BY <1>1, MailPosted
<1> QED
  BY <1>2, OneLetter DEF BidderMail

LEMMA RefundPosted ==
    ASSUME NEW a \in Offers, NEW p
    PROVE  Refund(a, p) \in SUBSET Posted /\ IsFiniteSet(Refund(a, p))
BY BidderPosted, NoLetter DEF Refund

LEMMA SettlementPosted ==
    ASSUME NEW a \in Offers
    PROVE  /\ Settlement(a) \in SUBSET Posted /\ IsFiniteSet(Settlement(a))
           /\ Kept(a) \in Nat
<1>1. a.bid \in Nat /\ a.deposit \in Nat
  BY AuctionType DEF Offers
<1>2. Kept(a) \in Nat
  BY <1>1, CutType DEF Kept
<1>3. CASE a.bidder = NoOne
  BY <1>2, <1>3, ItemPosted DEF Settlement
<1>4. CASE a.bidder # NoOne
  BY <1>2, <1>4, SuccessfulPosted, ItemPosted, MoreLetters DEF Settlement
<1> QED
  BY <1>3, <1>4

-----------------------------------------------------------------------------
(* Steps of the running world.                                             *)

OfferOf(p, units, start, buyout) ==
    [units |-> units, owner |-> p, start |-> start, buyout |-> buyout,
     bidder |-> NoOne, bid |-> 0, deposit |-> Deposit]
Halfway(d, p, units) == [d EXCEPT !.bag[p] = @ \ units, !.moving = @ \cup units]
Less(m, n) == m - n
Minus(S, T) == S \ T
Plus(S, T) == S \cup T

LEMMA SellStep ==
    ASSUME AuctionInv, NEW p \in Players, NEW units \in SUBSET bag[p], NEW whole \in BOOLEAN,
           NEW start \in StartPrices, NEW buyout \in Buyouts,
           HandleAuctionSellItem(p, units, whole, start, buyout),
           NEW offer, offer = OfferOf(p, units, start, buyout),
           NEW half, half = Halfway(Planned, p, units),
           NEW gold, gold = Less(Planned.gold[p], Deposit),
           NEW kept, kept = Minus(Planned.bag[p], units),
           NEW moved, moved = Plus(Planned.moving, units)
    PROVE  /\ AuctionInv' /\ Online(p) /\ nextAuction \in 1..MaxAuctions
           /\ offer \in Offers /\ nextAuction \notin DOMAIN Planned.auctions
           /\ purse[p] = Planned.gold[p] /\ bag[p] = Planned.bag[p]
           /\ units # {} /\ units \in SUBSET Units
           /\ gold \in Nat /\ kept \in SUBSET Units
           /\ Planned'.gold = Instead(Planned.gold, p, gold)
           /\ Planned'.bag = Instead(Planned.bag, p, kept)
           /\ Planned'.auctions = AddAuction(Planned.auctions, nextAuction, offer)
           /\ Planned'.mails = Planned.mails
           /\ Planned'.fees = Planned.fees /\ Planned'.moving = Planned.moving
           /\ half \in Contents /\ half.gold = Planned.gold
           /\ half.bag = Instead(Planned.bag, p, kept)
           /\ half.auctions = Planned.auctions /\ half.mails = Planned.mails
           /\ half.fees = Planned.fees /\ half.moving = moved
           /\ Planned' \in Contents
           /\ Commits(IF whole THEN <<Planned'>> ELSE <<half, Planned'>>)
<1>0. /\ offer = [units |-> units, owner |-> p, start |-> start, buyout |-> buyout,
                  bidder |-> NoOne, bid |-> 0, deposit |-> Deposit]
      /\ half = [Planned EXCEPT !.bag[p] = @ \ units, !.moving = @ \cup units]
      /\ gold = Planned.gold[p] - Deposit /\ kept = Planned.bag[p] \ units
      /\ moved = Planned.moving \cup units
  BY DEF OfferOf, Halfway, Less, Minus, Plus
<1> DEFINE save == SavedInventoryAndGold(Planned, p, purse[p] - Deposit, bag[p] \ units)
           c == [save EXCEPT !.auctions = AddAuction(@, nextAuction, offer)]
           cs == IF whole THEN <<c>> ELSE <<half, c>>
<1>1. /\ world = "running" /\ session[p] = "online"
      /\ nextAuction <= MaxAuctions
      /\ units # {} /\ units \subseteq bag[p] /\ units \notin aItems
      /\ purse[p] >= Deposit
      /\ purse' = [purse EXCEPT ![p] = purse[p] - Deposit]
      /\ bag' = [bag EXCEPT ![p] = bag[p] \ units]
      /\ auctions' = AddAuction(auctions, nextAuction, offer)
      /\ aItems' = aItems \cup {units}
      /\ nextAuction' = nextAuction + 1
      /\ Commits(cs)
      /\ world' = world /\ session' = session /\ loaded' = loaded /\ box' = box /\ crashes' = crashes
  BY <1>0, CommitBy, Zenon DEF HandleAuctionSellItem, Online, Becomes, mailVars
<1>2. /\ Planned \in Contents /\ Sound(Planned, nextAuction)
      /\ Planned.gold \in [Players -> Nat] /\ Planned.bag \in [Players -> SUBSET Units]
      /\ Planned.auctions \in Houses /\ Planned.mails \in Mailboxes
      /\ Planned.moving \in SUBSET Units
      /\ auctions = Planned.auctions /\ aItems = ItemsOf(Planned.auctions)
      /\ purse[p] = Planned.gold[p] /\ bag[p] = Planned.bag[p]
      /\ BoxesOf(box, loaded, Planned.mails)
      /\ \A q \in Players : session[q] = "online" =>
                purse[q] = Planned.gold[q] /\ bag[q] = Planned.bag[q]
  BY <1>1, InWorld
<1>3. /\ purse \in [Players -> Nat] /\ bag \in [Players -> SUBSET Units]
      /\ nextAuction \in 1..(MaxAuctions + 1) /\ loaded \in SUBSET Players
      /\ session \in [Players -> {"offline", "loading", "online"}]
  BY DEF AuctionInv, MemoryType
<1>4. Deposit \in Nat /\ MaxAuctions \in Nat /\ NoOne \notin Players
  BY AuctionAssumption
<1>5. purse[p] - Deposit \in Nat /\ bag[p] \ units \in SUBSET Units /\ units \in SUBSET Units
  BY <1>1, <1>3, <1>4
<1>6. offer \in Offers /\ offer.units = units
  <2>1. offer \in Auction
    BY <1>0, <1>1, <1>5 DEF Auction
  <2>2. offer.bidder = NoOne /\ offer.owner = p /\ offer.bid = 0 /\ offer.units = units
    BY <1>0
  <2> QED
    BY <1>4, <2>1, <2>2 DEF Offers
<1>7. save = SavedInventoryAndGold(Planned, p, gold, kept)
      /\ gold \in Nat /\ kept \in SUBSET Units
  BY <1>0, <1>2, <1>5
<1> HIDE DEF save
<1>8. /\ save \in Contents
      /\ save.gold = Instead(Planned.gold, p, gold)
      /\ save.bag = Instead(Planned.bag, p, kept)
      /\ save.auctions = Planned.auctions /\ save.mails = Planned.mails
      /\ save.fees = Planned.fees /\ save.moving = Planned.moving
  BY <1>2, <1>7, SavedContents
<1>9. nextAuction \in 1..MaxAuctions
  BY <1>1, <1>3, <1>4
<1>10. AddAuction(Planned.auctions, nextAuction, offer) \in Houses
      /\ nextAuction \notin DOMAIN Planned.auctions
  <2>1. nextAuction \notin DOMAIN Planned.auctions
    BY <1>2, <1>9 DEF Sound
  <2> QED
    BY <1>2, <1>6, <1>9, <2>1, HouseWith
<1>11. /\ c \in Contents /\ c.gold = save.gold /\ c.bag = save.bag
       /\ c.auctions = AddAuction(Planned.auctions, nextAuction, offer)
       /\ c.mails = Planned.mails /\ c.fees = Planned.fees /\ c.moving = Planned.moving
  BY <1>8, <1>10 DEF Contents
<1>12. /\ half \in Contents /\ half.gold = Planned.gold
       /\ half.bag = Instead(Planned.bag, p, kept)
       /\ half.auctions = Planned.auctions /\ half.mails = Planned.mails
       /\ half.fees = Planned.fees /\ half.moving = moved
  BY <1>0, <1>2, <1>5 DEF Contents, Instead
<1> HIDE DEF c
<1>13. Sound(c, nextAuction') /\ ItemsOf(c.auctions) = aItems \cup {units}
  <2>1. offer.units \notin ItemsOf(Planned.auctions)
    BY <1>1, <1>2, <1>6
  <2>2. Sound(c, nextAuction + 1) /\ ItemsOf(c.auctions) = ItemsOf(Planned.auctions) \cup {offer.units}
    BY <1>2, <1>4, <1>6, <1>9, <1>11, <2>1, SoundWith
  <2> QED
    BY <1>1, <1>2, <1>6, <2>2
<1>14. Sound(half, nextAuction')
  <2>1. Sound(half, nextAuction)
    BY <1>2, <1>12, SoundSame
  <2>2. nextAuction \in Int /\ nextAuction' \in Int /\ nextAuction <= nextAuction'
    BY <1>1, <1>3, <1>4
  <2> QED
    BY <2>1, <2>2, SoundLater
<1>15. /\ cs \in Seq(Contents) /\ cs # << >> /\ c = cs[Len(cs)]
       /\ \A i \in 1..Len(cs) : cs[i] = c \/ cs[i] = half
  BY <1>11, <1>12
<1>16. Concerns({p}, cs, c)
  <2>1. \A q \in Players : Keeps(q, Planned, c) /\ Keeps(q, half, c) /\ Keeps(q, c, c)
    <3>1. \A q \in Players : Keeps(q, Planned, Planned)
      BY <1>2, KeepsSame
    <3> QED BY <1>11, <1>12, <3>1 DEF Keeps
  <2>2. \A q \in Players \ {p} : /\ c.gold[q] = Planned.gold[q] /\ c.bag[q] = Planned.bag[q]
                                 /\ half.gold[q] = Planned.gold[q] /\ half.bag[q] = Planned.bag[q]
    BY <1>2, <1>8, <1>11, <1>12 DEF Instead
  <2> HIDE DEF cs
  <2> QED
    BY <1>1, <1>15, <2>1, <2>2 DEF Concerns
<1> HIDE DEF cs
<1>17. /\ \A i \in 1..Len(cs) : Sound(cs[i], nextAuction')
       /\ nextAuction' \in 1..(MaxAuctions + 1) /\ nextAuction <= nextAuction'
       /\ session' \in [Players -> {"offline", "loading", "online"}]
       /\ auctions' = c.auctions /\ aItems' = ItemsOf(c.auctions)
  <2>1. \A i \in 1..Len(cs) : Sound(cs[i], nextAuction')
    BY <1>13, <1>14, <1>15
  <2>2. nextAuction' \in 1..(MaxAuctions + 1) /\ nextAuction <= nextAuction'
    BY <1>1, <1>4, <1>9
  <2>3. auctions' = c.auctions /\ aItems' = ItemsOf(c.auctions)
    BY <1>1, <1>2, <1>11, <1>13
  <2> QED
    BY <1>1, <1>3, <2>1, <2>2, <2>3
<1>18. loaded' = {q \in loaded : session'[q] = "online"}
  <2>1. \A q \in loaded : session[q] = "online"
    BY DEF AuctionInv, BoxesRight
  <2> QED
    BY <1>1, <2>1
<1>19. /\ purse' \in [Players -> Nat] /\ bag' \in [Players -> SUBSET Units]
       /\ \A q \in Players : session'[q] = "online" => purse'[q] = c.gold[q] /\ bag'[q] = c.bag[q]
  BY <1>0, <1>1, <1>2, <1>3, <1>5, <1>7, <1>8, <1>11 DEF Instead
<1>20. BoxesOf(box', loaded', c.mails)
  BY <1>1, <1>2, <1>11
<1>21. AuctionInv' /\ Planned' = c
  BY <1>1, <1>15, <1>16, <1>17, <1>18, <1>19, <1>20, RunningStep
<1>22. Commits(IF whole THEN <<Planned'>> ELSE <<half, Planned'>>)
  BY <1>1, <1>21, Zenon DEF cs
<1>23. Online(p)
  BY <1>1 DEF Online
<1>24. /\ Planned'.gold = Instead(Planned.gold, p, gold)
       /\ Planned'.bag = Instead(Planned.bag, p, kept)
       /\ Planned'.auctions = AddAuction(Planned.auctions, nextAuction, offer)
       /\ Planned'.mails = Planned.mails
       /\ Planned'.fees = Planned.fees /\ Planned'.moving = Planned.moving
       /\ Planned' \in Contents
  BY <1>8, <1>11, <1>21, Zenon
<1> QED
  BY <1>1, <1>2, <1>5, <1>6, <1>7, <1>9, <1>10, <1>12, <1>21, <1>22, <1>23, <1>24, Zenon

\* A handler of p that commits one transaction.
LEMMA PlayerStep ==
    ASSUME AuctionInv, NEW p \in Players, Online(p),
           UNCHANGED <<world, session, loaded, nextAuction, crashes>>,
           NEW c \in Contents, Commits(<<c>>), Sound(c, nextAuction),
           NEW gold \in Nat, NEW units \in SUBSET Units, Becomes(p, gold, units),
           c.gold = Instead(Planned.gold, p, gold),
           c.bag = Instead(Planned.bag, p, units),
           \A q \in Players : q \notin loaded \/ q # p => Keeps(q, Planned, c),
           auctions' = c.auctions, aItems' = ItemsOf(c.auctions),
           BoxesOf(box', loaded', c.mails)
    PROVE  AuctionInv' /\ Planned' = c
<1>1. world = "running" /\ session[p] = "online"
  BY DEF Online
<1>2. /\ Planned.gold \in [Players -> Nat] /\ Planned.bag \in [Players -> SUBSET Units]
      /\ \A q \in Players : session[q] = "online" =>
                purse[q] = Planned.gold[q] /\ bag[q] = Planned.bag[q]
  BY <1>1, InWorld
<1>3. purse \in [Players -> Nat] /\ bag \in [Players -> SUBSET Units]
  BY DEF AuctionInv, MemoryType
<1>4. /\ purse' = [purse EXCEPT ![p] = gold] /\ bag' = [bag EXCEPT ![p] = units]
      /\ world' = world /\ session' = session /\ loaded' = loaded
      /\ nextAuction' = nextAuction /\ crashes' = crashes
  BY DEF Becomes
<1>5. /\ purse' \in [Players -> Nat] /\ bag' \in [Players -> SUBSET Units]
      /\ \A q \in Players : session[q] = "online" => purse'[q] = c.gold[q] /\ bag'[q] = c.bag[q]
      /\ \A q \in Players \ {p} : c.gold[q] = Planned.gold[q] /\ c.bag[q] = Planned.bag[q]
  BY <1>2, <1>3, <1>4 DEF Instead
<1>6. {p} \in SUBSET Players /\ \A q \in {p} : session[q] = "online"
  BY <1>1
<1>7. \A q \in Players : q \notin loaded \/ q \notin {p} => Keeps(q, Planned, c)
  OBVIOUS
<1> QED
  BY <1>1, <1>4, <1>5, <1>6, <1>7, OneCommit

-----------------------------------------------------------------------------
(* Bids.                                                                   *)

\* What is paid for a bid of this price, and the auction with the bid.
PaidFor(a, price) == IF IsBuyout(a, price) THEN a.buyout ELSE price
WithBid(a, p, paid) == [a EXCEPT !.bidder = p, !.bid = paid]

LEMMA BiddenOffer ==
    ASSUME NEW a \in Offers, NEW p \in Players, NEW price \in Prices, MayBid(p, a, price),
           purse[p] \in Nat,
           NEW paid, paid = PaidFor(a, price),
           NEW bidden, bidden = WithBid(a, p, paid)
    PROVE  /\ bidden \in Offers /\ paid \in Nat /\ paid > 0 /\ paid <= price
           /\ bidden.bidder = p /\ bidden.bid = paid /\ bidden.owner = a.owner
           /\ bidden.units = a.units /\ bidden.deposit = a.deposit
           /\ purse[p] - Cost(p, a, paid) \in Nat
<1>1. a \in Auction /\ a.bid \in Nat /\ a.buyout \in Nat /\ a.buyout \in Buyouts
  BY AuctionType DEF Offers
<1>2. price \in Nat /\ NoOne \notin Players
  BY AuctionAssumption
<1>3. a.owner # p /\ price > a.bid /\ purse[p] >= price
      /\ (IsBuyout(a, price) => a.buyout # 0 /\ price >= a.buyout)
  BY DEF MayBid, IsBuyout
<1>4. paid \in Nat /\ paid > 0 /\ paid <= price /\ paid \in Prices \cup Buyouts \cup {0}
  BY <1>1, <1>2, <1>3 DEF PaidFor
<1>6. bidden \in Auction
  BY <1>1, <1>4 DEF Auction, WithBid
<1>7. /\ bidden.bidder = p /\ bidden.bid = paid /\ bidden.owner = a.owner
      /\ bidden.units = a.units /\ bidden.deposit = a.deposit
  BY <1>1 DEF Auction, WithBid
<1>8. bidden \in Offers
  <2>1. bidden.bidder # bidden.owner /\ bidden.bidder # NoOne /\ bidden.bid # 0
    BY <1>2, <1>3, <1>4, <1>7
  <2> QED
    BY <1>6, <2>1 DEF Offers
<1>9. purse[p] - Cost(p, a, paid) \in Nat
  BY <1>1, <1>2, <1>3, <1>4 DEF Cost
<1> QED
  BY <1>4, <1>7, <1>8, <1>9

\* An auction ends: by a buyout, by its owner or by its time.
LEMMA EndStores ==
    ASSUME AuctionInv, world = "running", NEW id \in DOMAIN auctions,
           NEW e \in Contents, RemoveAuction(id),
           e.auctions = Without(Planned.auctions, id)
    PROVE  Sound(e, nextAuction) /\ auctions' = e.auctions /\ aItems' = ItemsOf(e.auctions)
<1>1. Sound(Planned, nextAuction) /\ auctions = Planned.auctions /\ aItems = ItemsOf(Planned.auctions)
  BY InWorld
<1>2. id \in DOMAIN Planned.auctions
  BY <1>1
<1> DEFINE stuff == Planned.auctions[id].units
<1>3. Sound(e, nextAuction) /\ ItemsOf(e.auctions) = ItemsOf(Planned.auctions) \ {stuff}
  BY <1>1, <1>2, SoundWithout
<1>4. auctions' = Without(auctions, id) /\ aItems' = aItems \ {stuff}
  BY <1>1 DEF RemoveAuction, Without
<1> HIDE DEF stuff
<1>5. auctions' = e.auctions
  BY <1>1, <1>4
<1> QED
  BY <1>1, <1>3, <1>4, <1>5

\* A bid below the price for selling at once.
LEMMA RaiseStep ==
    ASSUME AuctionInv, NEW p \in Players, NEW id \in DOMAIN auctions, NEW price \in Prices,
           HandleAuctionPlaceBid(p, id, price),
           NEW a, a = Planned.auctions[id], ~IsBuyout(a, price),
           NEW bidden, bidden = WithBid(a, p, price),
           NEW left, left = Planned.gold[p] - Cost(p, a, price),
           NEW L, L = Refund(a, p)
    PROVE  /\ AuctionInv' /\ Online(p) /\ id \in DOMAIN Planned.auctions
           /\ a \in Offers /\ bidden \in Offers /\ MayBid(p, a, price)
           /\ purse[p] = Planned.gold[p] /\ left \in Nat
           /\ L \in SUBSET Posted /\ IsFiniteSet(L)
           /\ Planned' \in Contents /\ Commits(<<Planned'>>)
           /\ Planned'.gold = Instead(Planned.gold, p, left)
           /\ Planned'.bag = Planned.bag
           /\ Planned'.auctions = Instead(Planned.auctions, id, bidden)
           /\ Planned'.mails = Planned.mails (+) Sent(L)
           /\ Planned'.fees = Planned.fees /\ Planned'.moving = Planned.moving
<1> DEFINE saved == SavedInventoryAndGold(Planned, p, left, bag[p])
           c == [saved EXCEPT !.auctions[id] = bidden, !.mails = @ (+) Sent(L)]
<1>1. world = "running" /\ session[p] = "online" /\ Online(p)
  BY DEF HandleAuctionPlaceBid, Online
<1>2. /\ Planned \in Contents /\ Sound(Planned, nextAuction)
      /\ Planned.gold \in [Players -> Nat] /\ Planned.bag \in [Players -> SUBSET Units]
      /\ Planned.auctions \in Houses /\ Planned.mails \in Mailboxes
      /\ auctions = Planned.auctions /\ aItems = ItemsOf(Planned.auctions)
      /\ purse[p] = Planned.gold[p] /\ bag[p] = Planned.bag[p]
      /\ BoxesOf(box, loaded, Planned.mails)
  BY <1>1, InWorld
<1>3. /\ id \in DOMAIN Planned.auctions /\ a \in Offers /\ purse[p] \in Nat
      /\ bag[p] \in SUBSET Units
  BY <1>2, OfferType
<1>4. a = auctions[id] /\ left = purse[p] - Cost(p, a, price)
  BY <1>2
<1>5. /\ MayBid(p, a, price) /\ Becomes(p, left, bag[p])
      /\ box' = Delivered(box, L)
      /\ auctions' = [auctions EXCEPT ![id] = bidden] /\ aItems' = aItems /\ Commits(<<c>>)
      /\ UNCHANGED <<world, session, loaded, nextAuction, crashes>>
  <2> DEFINE b == auctions[id]
             paid == IF IsBuyout(b, price) THEN b.buyout ELSE price
             offer == [b EXCEPT !.bidder = p, !.bid = paid]
             M == Refund(b, p) \cup (IF IsBuyout(b, price) THEN Settlement(offer) ELSE {})
             rest == purse[p] - Cost(p, b, paid)
             stored == SavedInventoryAndGold(Planned, p, rest, bag[p])
             kept == [stored EXCEPT !.auctions[id] = offer, !.mails = @ (+) Sent(M)]
  <2>1. /\ MayBid(p, b, price) /\ Becomes(p, rest, bag[p]) /\ box' = Delivered(box, M)
        /\ ~IsBuyout(b, price) =>
              auctions' = [auctions EXCEPT ![id] = offer] /\ aItems' = aItems /\ Commits(<<kept>>)
        /\ UNCHANGED <<world, session, loaded, nextAuction, crashes>>
    BY CommitBy DEF HandleAuctionPlaceBid
  <2>2. b = a
    BY <1>4
  <2> HIDE DEF b
  <2>3. paid = price
    BY <2>2
  <2> HIDE DEF paid
  <2>4. offer = bidden
    BY <2>2, <2>3 DEF WithBid
  <2>5. M = L
    BY <2>2
  <2>6. rest = left
    BY <1>4, <2>2, <2>3
  <2> HIDE DEF offer, M, rest
  <2>7. stored = saved
    BY <2>6
  <2>8. kept = c
    BY <2>4, <2>5, <2>7
  <2> HIDE DEF stored, saved, kept, c
  <2> QED
    BY <2>1, <2>2, <2>4, <2>5, <2>6, <2>8
<1>6. bidden \in Offers /\ left \in Nat /\ bidden.units = a.units
  <2>1. price = PaidFor(a, price)
    BY DEF PaidFor
  <2>2. bidden \in Offers /\ bidden.units = a.units /\ purse[p] - Cost(p, a, price) \in Nat
    BY <1>3, <1>5, <2>1, BiddenOffer
  <2> QED
    BY <1>4, <2>2
<1>7. L \in SUBSET Posted /\ IsFiniteSet(L)
  BY <1>3, RefundPosted
<1> HIDE DEF saved
<1>8. /\ saved \in Contents
      /\ saved.gold = Instead(Planned.gold, p, left)
      /\ saved.bag = Instead(Planned.bag, p, bag[p])
      /\ saved.auctions = Planned.auctions /\ saved.mails = Planned.mails
      /\ saved.fees = Planned.fees /\ saved.moving = Planned.moving
  <2> DEFINE units == bag[p]
  <2>1. saved = SavedInventoryAndGold(Planned, p, left, units) /\ units \in SUBSET Units
    BY <1>3 DEF saved
  <2> HIDE DEF units
  <2>2. /\ saved \in Contents
        /\ saved.gold = Instead(Planned.gold, p, left)
        /\ saved.bag = Instead(Planned.bag, p, units)
        /\ saved.auctions = Planned.auctions /\ saved.mails = Planned.mails
        /\ saved.fees = Planned.fees /\ saved.moving = Planned.moving
    BY <1>2, <1>6, <2>1, SavedContents
  <2> QED
    BY <2>2 DEF units
<1>9. /\ c \in Contents /\ c.gold = saved.gold /\ c.bag = saved.bag
      /\ c.auctions = Instead(Planned.auctions, id, bidden)
      /\ c.mails = Planned.mails (+) Sent(L)
      /\ c.fees = Planned.fees /\ c.moving = Planned.moving
  <2> DEFINE as == Instead(Planned.auctions, id, bidden)
             mails == Planned.mails (+) Sent(L)
  <2>1. as \in Houses
    BY <1>2, <1>3, <1>6, HouseChanged
  <2>2. mails \in Mailboxes
    BY <1>2, <1>7, MailboxSent, MailboxSum
  <2>3. c = [saved EXCEPT !.auctions = as, !.mails = mails]
    BY <1>8 DEF Instead
  <2> HIDE DEF as, mails, c
  <2>4. /\ c \in Contents /\ c.gold = saved.gold /\ c.bag = saved.bag
        /\ c.auctions = as /\ c.mails = mails
        /\ c.fees = saved.fees /\ c.moving = saved.moving
    BY <1>8, <2>1, <2>2, <2>3 DEF Contents
  <2> QED
    BY <1>8, <2>4 DEF as, mails
<1> HIDE DEF c
<1>10. Sound(c, nextAuction) /\ auctions' = c.auctions /\ aItems' = ItemsOf(c.auctions)
  <2>1. bidden.units = Planned.auctions[id].units
    BY <1>6
  <2>2. Sound(c, nextAuction) /\ ItemsOf(c.auctions) = ItemsOf(Planned.auctions)
    BY <1>2, <1>3, <1>6, <1>9, <2>1, SoundChanged
  <2> QED
    BY <1>2, <1>5, <1>9, <2>2 DEF Instead
<1>11. \A q \in Players : Keeps(q, Planned, c)
  BY <1>2, <1>9, KeepsSent
<1>12. BoxesOf(box', loaded', c.mails)
  BY <1>2, <1>5, <1>7, <1>9, BoxesSent
<1>13. AuctionInv' /\ Planned' = c
  <2> DEFINE units == bag[p]
  <2>1. /\ c.gold = Instead(Planned.gold, p, left) /\ c.bag = Instead(Planned.bag, p, units)
        /\ units \in SUBSET Units /\ Becomes(p, left, units)
    BY <1>3, <1>5, <1>8, <1>9
  <2> HIDE DEF units
  <2> QED
    BY <1>1, <1>5, <1>6, <1>9, <1>10, <1>11, <1>12, <2>1, PlayerStep
<1>14. c.bag = Planned.bag
  BY <1>2, <1>8, <1>9 DEF Instead
<1> QED
  BY <1>1, <1>2, <1>3, <1>5, <1>6, <1>7, <1>8, <1>9, <1>13, <1>14

\* An auction ends with a transaction that saves a player, too.
LEMMA EndStep ==
    ASSUME AuctionInv, NEW p \in Players, NEW id \in DOMAIN auctions,
           Online(p), UNCHANGED <<world, session, loaded, nextAuction, crashes>>,
           NEW left \in Nat, Becomes(p, left, bag[p]),
           NEW L \in SUBSET Posted, IsFiniteSet(L), box' = Delivered(box, L),
           NEW fee \in Nat, RemoveAuction(id),
           Commits(<<Ended(SavedInventoryAndGold(Planned, p, left, bag[p]), id, L, fee)>>)
    PROVE  /\ AuctionInv' /\ Planned' \in Contents /\ Commits(<<Planned'>>)
           /\ Planned'.gold = Instead(Planned.gold, p, left)
           /\ Planned'.bag = Planned.bag
           /\ Planned'.auctions = Without(Planned.auctions, id)
           /\ Planned'.mails = Planned.mails (+) Sent(L)
           /\ Planned'.fees = Planned.fees + fee /\ Planned'.moving = Planned.moving
<1> DEFINE units == bag[p]
           saved == SavedInventoryAndGold(Planned, p, left, units)
           c == Ended(saved, id, L, fee)
<1>1. world = "running" /\ session[p] = "online"
  BY DEF Online
<1>2. /\ Planned \in Contents /\ Sound(Planned, nextAuction)
      /\ Planned.gold \in [Players -> Nat] /\ Planned.bag \in [Players -> SUBSET Units]
      /\ Planned.auctions \in Houses /\ Planned.mails \in Mailboxes
      /\ bag[p] = Planned.bag[p]
      /\ BoxesOf(box, loaded, Planned.mails)
  BY <1>1, InWorld
<1>3. Becomes(p, left, units) /\ Commits(<<c>>) /\ units \in SUBSET Units /\ units = Planned.bag[p]
  BY <1>2
<1> HIDE DEF units
<1>4. /\ saved \in Contents
      /\ saved.gold = Instead(Planned.gold, p, left)
      /\ saved.bag = Instead(Planned.bag, p, units)
      /\ saved.auctions = Planned.auctions /\ saved.mails = Planned.mails
      /\ saved.fees = Planned.fees /\ saved.moving = Planned.moving
  BY <1>2, <1>3, SavedContents
<1> HIDE DEF saved
<1>12. c = Ended(saved, id, L, fee)
  OBVIOUS
<1> HIDE DEF c
<1>5. /\ c \in Contents /\ c.gold = saved.gold /\ c.bag = saved.bag
      /\ c.auctions = Without(saved.auctions, id)
      /\ c.mails = saved.mails (+) Sent(L)
      /\ c.fees = saved.fees + fee /\ c.moving = saved.moving
  BY <1>4, <1>12, EndedContents
<1>6. /\ c.auctions = Without(Planned.auctions, id)
      /\ c.mails = Planned.mails (+) Sent(L)
      /\ c.fees = Planned.fees + fee /\ c.moving = Planned.moving
      /\ c.gold = Instead(Planned.gold, p, left)
      /\ c.bag = Instead(Planned.bag, p, units)
  BY <1>4, <1>5
<1>7. Sound(c, nextAuction) /\ auctions' = c.auctions /\ aItems' = ItemsOf(c.auctions)
  BY <1>1, <1>5, <1>6, EndStores
<1>8. \A q \in Players : Keeps(q, Planned, c)
  BY <1>2, <1>5, <1>6, KeepsSent
<1>9. BoxesOf(box', loaded', c.mails)
  BY <1>2, <1>6, BoxesSent
<1>10. AuctionInv' /\ Planned' = c
  BY <1>3, <1>5, <1>6, <1>7, <1>8, <1>9, PlayerStep
<1>11. c.bag = Planned.bag
  BY <1>2, <1>3, <1>6 DEF Instead
<1> QED
  BY <1>3, <1>5, <1>6, <1>10, <1>11

\* A bid that reaches the price for selling at once.
BuyoutLetters(a, p, bidden) == Refund(a, p) \cup Settlement(bidden)

LEMMA BuyoutStep ==
    ASSUME AuctionInv, NEW p \in Players, NEW id \in DOMAIN auctions, NEW price \in Prices,
           HandleAuctionPlaceBid(p, id, price),
           NEW a, a = Planned.auctions[id], IsBuyout(a, price),
           NEW bidden, bidden = WithBid(a, p, a.buyout),
           NEW left, left = Planned.gold[p] - Cost(p, a, a.buyout),
           NEW L, L = BuyoutLetters(a, p, bidden)
    PROVE  /\ AuctionInv' /\ Online(p) /\ id \in DOMAIN Planned.auctions
           /\ a \in Offers /\ bidden \in Offers /\ MayBid(p, a, price)
           /\ purse[p] = Planned.gold[p] /\ left \in Nat
           /\ L \in SUBSET Posted /\ IsFiniteSet(L)
           /\ Planned' \in Contents /\ Commits(<<Planned'>>)
           /\ Planned'.gold = Instead(Planned.gold, p, left)
           /\ Planned'.bag = Planned.bag
           /\ Planned'.auctions = Without(Planned.auctions, id)
           /\ Planned'.mails = Planned.mails (+) Sent(L)
           /\ Planned'.fees = Planned.fees + Kept(bidden) /\ Planned'.moving = Planned.moving
<1>1. world = "running" /\ session[p] = "online" /\ Online(p)
  BY DEF HandleAuctionPlaceBid, Online
<1>2. /\ Planned.auctions \in Houses /\ auctions = Planned.auctions
      /\ purse[p] = Planned.gold[p] /\ bag[p] = Planned.bag[p]
  BY <1>1, InWorld
<1>3. purse[p] \in Nat
  BY DEF AuctionInv, MemoryType
<1>4. id \in DOMAIN Planned.auctions /\ a \in Offers
  BY <1>2, OfferType
<1>5. a = auctions[id] /\ left = purse[p] - Cost(p, a, a.buyout)
  BY <1>2
<1> DEFINE fee == Kept(bidden)
<1>6. /\ MayBid(p, a, price) /\ Becomes(p, left, bag[p])
      /\ box' = Delivered(box, L)
      /\ RemoveAuction(id)
      /\ Commits(<<Ended(SavedInventoryAndGold(Planned, p, left, bag[p]), id, L, fee)>>)
      /\ UNCHANGED <<world, session, loaded, nextAuction, crashes>>
  <2> DEFINE b == auctions[id]
             paid == IF IsBuyout(b, price) THEN b.buyout ELSE price
             offer == [b EXCEPT !.bidder = p, !.bid = paid]
             M == Refund(b, p) \cup (IF IsBuyout(b, price) THEN Settlement(offer) ELSE {})
             rest == purse[p] - Cost(p, b, paid)
             stored == SavedInventoryAndGold(Planned, p, rest, bag[p])
             kept == Ended(stored, id, M, Kept(offer))
  <2>1. /\ MayBid(p, b, price) /\ Becomes(p, rest, bag[p]) /\ box' = Delivered(box, M)
        /\ IsBuyout(b, price) => RemoveAuction(id) /\ Commits(<<kept>>)
        /\ UNCHANGED <<world, session, loaded, nextAuction, crashes>>
    BY CommitBy DEF HandleAuctionPlaceBid
  <2>2. b = a
    BY <1>5
  <2> HIDE DEF b
  <2>3. paid = a.buyout
    BY <2>2
  <2> HIDE DEF paid
  <2>4. offer = bidden
    BY <2>2, <2>3 DEF WithBid
  <2> HIDE DEF offer
  <2>5. M = L
    BY <2>2, <2>4 DEF BuyoutLetters
  <2>6. rest = left
    BY <1>5, <2>2, <2>3
  <2> HIDE DEF M, rest
  <2>7. stored = SavedInventoryAndGold(Planned, p, left, bag[p])
    BY <2>6
  <2> HIDE DEF stored
  <2>8. kept = Ended(SavedInventoryAndGold(Planned, p, left, bag[p]), id, L, fee)
    BY <2>4, <2>5, <2>7
  <2> HIDE DEF kept
  <2> QED
    BY <2>1, <2>2, <2>5, <2>6, <2>8
<1>7. bidden \in Offers /\ left \in Nat
  <2>1. a.buyout = PaidFor(a, price)
    BY DEF PaidFor
  <2>2. bidden \in Offers /\ purse[p] - Cost(p, a, a.buyout) \in Nat
    BY <1>3, <1>4, <1>6, <2>1, BiddenOffer
  <2> QED
    BY <1>5, <2>2
<1>8. L \in SUBSET Posted /\ IsFiniteSet(L) /\ fee \in Nat
  BY <1>4, <1>7, SettlementPosted, RefundPosted, MoreLetters DEF BuyoutLetters
<1> HIDE DEF fee
<1>9. /\ AuctionInv' /\ Planned' \in Contents /\ Commits(<<Planned'>>)
      /\ Planned'.gold = Instead(Planned.gold, p, left)
      /\ Planned'.bag = Planned.bag
      /\ Planned'.auctions = Without(Planned.auctions, id)
      /\ Planned'.mails = Planned.mails (+) Sent(L)
      /\ Planned'.fees = Planned.fees + fee /\ Planned'.moving = Planned.moving
  BY <1>1, <1>6, <1>7, <1>8, EndStep
<1> QED
  BY <1>1, <1>2, <1>4, <1>6, <1>7, <1>8, <1>9 DEF fee

\* What the owner pays when he takes an auction back, and the letters.
CutOf(a) == IF a.bidder # NoOne THEN AuctionCut(a.bid) ELSE 0
Cancelled(a, p) ==
    {Mail(p, House, 0, a.units, 0)} \cup (IF a.bidder # NoOne THEN BidderMail(a) ELSE {})

LEMMA RemoveStep ==
    ASSUME AuctionInv, NEW p \in Players, NEW id \in DOMAIN auctions,
           HandleAuctionRemoveItem(p, id),
           NEW a, a = Planned.auctions[id],
           NEW cut, cut = CutOf(a),
           NEW left, left = Planned.gold[p] - cut,
           NEW L, L = Cancelled(a, p)
    PROVE  /\ AuctionInv' /\ Online(p) /\ id \in DOMAIN Planned.auctions
           /\ auctions' = Without(auctions, id)
           /\ a \in Offers /\ a.owner = p
           /\ purse[p] = Planned.gold[p] /\ cut \in Nat /\ left \in Nat
           /\ L \in SUBSET Posted /\ IsFiniteSet(L)
           /\ Planned' \in Contents /\ Commits(<<Planned'>>)
           /\ Planned'.gold = Instead(Planned.gold, p, left)
           /\ Planned'.bag = Planned.bag
           /\ Planned'.auctions = Without(Planned.auctions, id)
           /\ Planned'.mails = Planned.mails (+) Sent(L)
           /\ Planned'.fees = Planned.fees + (a.deposit + cut) /\ Planned'.moving = Planned.moving
<1>1. world = "running" /\ session[p] = "online" /\ Online(p)
  BY DEF HandleAuctionRemoveItem, Online
<1>2. /\ Planned.auctions \in Houses /\ auctions = Planned.auctions
      /\ purse[p] = Planned.gold[p] /\ bag[p] = Planned.bag[p]
  BY <1>1, InWorld
<1>3. purse[p] \in Nat
  BY DEF AuctionInv, MemoryType
<1>4. id \in DOMAIN Planned.auctions /\ a \in Offers
  BY <1>2, OfferType
<1>5. a = auctions[id] /\ left = purse[p] - cut
  BY <1>2
<1> DEFINE fee == a.deposit + cut
<1>6. /\ a.owner = p /\ purse[p] >= cut /\ Becomes(p, left, bag[p])
      /\ box' = Delivered(box, L)
      /\ RemoveAuction(id)
      /\ Commits(<<Ended(SavedInventoryAndGold(Planned, p, left, bag[p]), id, L, fee)>>)
      /\ UNCHANGED <<world, session, loaded, nextAuction, crashes>>
  <2> DEFINE b == auctions[id]
             bidden == b.bidder # NoOne
             pay == IF bidden THEN AuctionCut(b.bid) ELSE 0
             M == {Mail(p, House, 0, b.units, 0)} \cup (IF bidden THEN BidderMail(b) ELSE {})
             rest == purse[p] - pay
             all == b.deposit + pay
             kept == Ended(SavedInventoryAndGold(Planned, p, rest, bag[p]), id, M, all)
  <2>1. /\ b.owner = p /\ purse[p] >= pay /\ Becomes(p, rest, bag[p])
        /\ box' = Delivered(box, M) /\ RemoveAuction(id) /\ Commits(<<kept>>)
        /\ UNCHANGED <<world, session, loaded, nextAuction, crashes>>
    BY CommitBy DEF HandleAuctionRemoveItem
  <2>2. b = a
    BY <1>5
  <2> HIDE DEF b
  <2>3. pay = cut
    BY <2>2 DEF CutOf
  <2>4. M = L
    BY <2>2 DEF Cancelled
  <2> HIDE DEF pay, M
  <2>5. rest = left /\ all = fee
    BY <1>5, <2>2, <2>3
  <2> HIDE DEF rest, all, fee
  <2>6. kept = Ended(SavedInventoryAndGold(Planned, p, left, bag[p]), id, L, fee)
    BY <2>4, <2>5
  <2> HIDE DEF kept
  <2> QED
    BY <2>1, <2>2, <2>3, <2>4, <2>5, <2>6
<1>7. a.bid \in Nat /\ a.deposit \in Nat /\ a.units \in SUBSET Units
  BY <1>4, AuctionType DEF Offers
<1>8. cut \in Nat
  BY <1>7, CutType DEF CutOf
<1>9. fee \in Nat
  BY <1>7, <1>8
<1>10. left \in Nat
  BY <1>3, <1>5, <1>6, <1>8
<1>11. L \in SUBSET Posted /\ IsFiniteSet(L)
  <2>1. Mail(p, House, 0, a.units, 0) \in Posted
    <3>1. House # p /\ ~(0 > 0) /\ House \in Players \cup {House} /\ 0 \in Nat
      BY AuctionAssumption
    <3> QED BY <1>7, <3>1, MailPosted
  <2>2. CASE a.bidder # NoOne
    BY <1>4, <2>1, <2>2, BidderPosted, OneLetter, MoreLetters DEF Cancelled
  <2>3. CASE a.bidder = NoOne
    BY <2>1, <2>3, OneLetter, NoLetter, MoreLetters DEF Cancelled
  <2> QED
    BY <2>2, <2>3
<1> HIDE DEF fee
<1>12. /\ AuctionInv' /\ Planned' \in Contents /\ Commits(<<Planned'>>)
       /\ Planned'.gold = Instead(Planned.gold, p, left)
       /\ Planned'.bag = Planned.bag
       /\ Planned'.auctions = Without(Planned.auctions, id)
       /\ Planned'.mails = Planned.mails (+) Sent(L)
       /\ Planned'.fees = Planned.fees + fee /\ Planned'.moving = Planned.moving
  BY <1>1, <1>6, <1>9, <1>10, <1>11, EndStep
<1>13. auctions' = Without(auctions, id)
  BY <1>6 DEF RemoveAuction, Without
<1> QED
  BY <1>1, <1>2, <1>4, <1>6, <1>8, <1>10, <1>11, <1>12, <1>13 DEF fee

\* A step of the world that concerns no player.
LEMMA WorldStep ==
    ASSUME AuctionInv, world = "running",
           UNCHANGED <<world, session, purse, bag, loaded, nextAuction, crashes>>,
           NEW c \in Contents, Commits(<<c>>), Sound(c, nextAuction),
           c.gold = Planned.gold, c.bag = Planned.bag,
           \A q \in Players : Keeps(q, Planned, c),
           auctions' = c.auctions, aItems' = ItemsOf(c.auctions),
           BoxesOf(box', loaded', c.mails)
    PROVE  AuctionInv' /\ Planned' = c
<1>1. /\ \A q \in Players : session[q] = "online" =>
                purse'[q] = c.gold[q] /\ bag'[q] = c.bag[q]
      /\ world' = world /\ session' = session /\ loaded' = loaded
      /\ nextAuction' = nextAuction /\ crashes' = crashes
  BY InWorld
<1>2. purse' \in [Players -> Nat] /\ bag' \in [Players -> SUBSET Units]
  BY DEF AuctionInv, MemoryType
<1> DEFINE S == {}
<1>3. S \in SUBSET Players /\ \A q \in S : session[q] = "online"
  OBVIOUS
<1>4. \A q \in Players \ S : c.gold[q] = Planned.gold[q] /\ c.bag[q] = Planned.bag[q]
  OBVIOUS
<1>5. \A q \in Players : q \notin loaded \/ q \notin S => Keeps(q, Planned, c)
  OBVIOUS
<1> HIDE DEF S
<1> QED
  BY <1>1, <1>2, <1>3, <1>4, <1>5, OneCommit

LEMMA UpdateStep ==
    ASSUME AuctionInv, NEW id \in DOMAIN auctions, Update(id),
           NEW a, a = Planned.auctions[id],
           NEW L, L = Settlement(a)
    PROVE  /\ AuctionInv' /\ world = "running" /\ id \in DOMAIN Planned.auctions
           /\ a \in Offers
           /\ L \in SUBSET Posted /\ IsFiniteSet(L)
           /\ Planned' \in Contents /\ Commits(<<Planned'>>)
           /\ Planned'.gold = Planned.gold /\ Planned'.bag = Planned.bag
           /\ Planned'.auctions = Without(Planned.auctions, id)
           /\ Planned'.mails = Planned.mails (+) Sent(L)
           /\ Planned'.fees = Planned.fees + Kept(a) /\ Planned'.moving = Planned.moving
<1>1. world = "running"
  BY DEF Update
<1>2. /\ Planned \in Contents /\ Sound(Planned, nextAuction)
      /\ Planned.auctions \in Houses /\ Planned.mails \in Mailboxes
      /\ auctions = Planned.auctions
      /\ BoxesOf(box, loaded, Planned.mails)
  BY <1>1, InWorld
<1>3. id \in DOMAIN Planned.auctions /\ a \in Offers /\ a = auctions[id]
  BY <1>2, OfferType
<1> DEFINE fee == Kept(a)
           c == Ended(Planned, id, L, fee)
<1>4. /\ box' = Delivered(box, L) /\ RemoveAuction(id) /\ Commits(<<c>>)
      /\ UNCHANGED <<world, session, purse, bag, loaded, nextAuction, crashes>>
  <2> DEFINE b == auctions[id]
             kept == Ended(Planned, id, Settlement(b), Kept(b))
  <2>1. /\ box' = Delivered(box, Settlement(b)) /\ RemoveAuction(id) /\ Commits(<<kept>>)
        /\ UNCHANGED <<world, session, purse, bag, loaded, nextAuction, crashes>>
    BY CommitBy DEF Update
  <2>2. b = a
    BY <1>3
  <2> HIDE DEF b
  <2>3. kept = c
    BY <2>2
  <2> HIDE DEF kept, c
  <2> QED
    BY <2>1, <2>2, <2>3
<1>5. L \in SUBSET Posted /\ IsFiniteSet(L) /\ fee \in Nat
  BY <1>3, SettlementPosted
<1>6. c = Ended(Planned, id, L, fee)
  OBVIOUS
<1> HIDE DEF fee, c
<1>7. /\ c \in Contents /\ c.gold = Planned.gold /\ c.bag = Planned.bag
      /\ c.auctions = Without(Planned.auctions, id)
      /\ c.mails = Planned.mails (+) Sent(L)
      /\ c.fees = Planned.fees + fee /\ c.moving = Planned.moving
  BY <1>2, <1>5, <1>6, EndedContents
<1>8. Sound(c, nextAuction) /\ auctions' = c.auctions /\ aItems' = ItemsOf(c.auctions)
  BY <1>1, <1>4, <1>7, EndStores
<1>9. \A q \in Players : Keeps(q, Planned, c)
  BY <1>2, <1>7, KeepsSent
<1>10. BoxesOf(box', loaded', c.mails)
  BY <1>2, <1>4, <1>5, <1>7, BoxesSent
<1>11. AuctionInv' /\ Planned' = c
  BY <1>1, <1>4, <1>7, <1>8, <1>9, <1>10, WorldStep
<1> QED
  BY <1>1, <1>3, <1>4, <1>5, <1>7, <1>11 DEF fee

-----------------------------------------------------------------------------
(* Mail.                                                                   *)

\* The auctions are as they were.
LEMMA SameStores ==
    ASSUME AuctionInv, world = "running", NEW c \in Contents, c.auctions = Planned.auctions,
           UNCHANGED <<auctions, aItems>>
    PROVE  Sound(c, nextAuction) /\ auctions' = c.auctions /\ aItems' = ItemsOf(c.auctions)
<1>1. /\ Sound(Planned, nextAuction)
      /\ auctions = Planned.auctions /\ aItems = ItemsOf(Planned.auctions)
  BY InWorld
<1>2. Sound(c, nextAuction)
  BY <1>1, SoundSame
<1> QED
  BY <1>1, <1>2

PostageOf(units) == Postage * Max({1, Cardinality(units)})

LEMMA PostageType == ASSUME NEW units \in SUBSET Units PROVE PostageOf(units) \in Nat
<1>1. IsFiniteSet(units) /\ Cardinality(units) \in Nat
  BY AuctionAssumption, FS_Subset, FS_CardinalityType
<1> DEFINE n == Cardinality(units)
           m == Max({1, n})
<1> HIDE DEF n
<1>2. n \in Nat
  BY <1>1 DEF n
<1>3. m \in Nat
  <2>1. CASE n <= 1
    <3>1. {1, n} \in SUBSET Int /\ 1 \in {1, n} /\ \A y \in {1, n} : y <= 1
      BY <1>2, <2>1
    <3>2. m = 1
      BY <3>1, MaxIs
    <3> QED BY <3>2
  <2>2. CASE n > 1
    <3>1. {1, n} \in SUBSET Int /\ n \in {1, n} /\ \A y \in {1, n} : y <= n
      BY <1>2, <2>2
    <3>2. m = n
      BY <3>1, MaxIs
    <3> QED BY <1>2, <3>2
  <2> QED
    BY <1>2, <2>1, <2>2
<1> HIDE DEF m
<1>4. Postage \in Nat
  BY AuctionAssumption
<1>5. Postage * m \in Nat
  BY <1>3, <1>4
<1> QED
  BY <1>5 DEF PostageOf, m, n

LessBoth(k, m, n) == k - (m + n)
Only(l) == {l}

LEMMA SendStep ==
    ASSUME AuctionInv, NEW p \in Players, NEW to \in Players, NEW units \in SUBSET bag[p],
           NEW money \in MailMoney, NEW cod \in CodPrices, HandleSendMail(p, to, money, units, cod),
           NEW l, l = Mail(to, p, money, units, cod),
           NEW postage, postage = PostageOf(units),
           NEW left, left = LessBoth(Planned.gold[p], money, postage),
           NEW kept, kept = Minus(Planned.bag[p], units),
           NEW L, L = Only(l)
    PROVE  /\ AuctionInv' /\ Online(p) /\ to # p /\ units \in SUBSET Units
           /\ units \subseteq Planned.bag[p] /\ money \in Nat /\ postage \in Nat
           /\ (money > 0 \/ units # {})
           /\ purse[p] = Planned.gold[p] /\ left \in Nat /\ kept \in SUBSET Units
           /\ l \in Posted
           /\ Planned' \in Contents /\ Commits(<<Planned'>>)
           /\ Planned'.gold = Instead(Planned.gold, p, left)
           /\ Planned'.bag = Instead(Planned.bag, p, kept)
           /\ Planned'.auctions = Planned.auctions
           /\ Planned'.mails = Planned.mails (+) Sent(L)
           /\ Planned'.fees = Planned.fees + postage /\ Planned'.moving = Planned.moving
<1> DEFINE saved == SavedInventoryAndGold(Planned, p, left, kept)
           c == [saved EXCEPT !.mails = @ (+) Sent(L), !.fees = @ + postage]
<1>0. left = Planned.gold[p] - (money + postage) /\ kept = Planned.bag[p] \ units /\ L = {l}
  BY DEF LessBoth, Minus, Only
<1>1. world = "running" /\ session[p] = "online" /\ Online(p)
  BY DEF HandleSendMail, Online
<1>2. /\ Planned \in Contents
      /\ Planned.gold \in [Players -> Nat] /\ Planned.bag \in [Players -> SUBSET Units]
      /\ Planned.mails \in Mailboxes /\ Planned.fees \in Int
      /\ purse[p] = Planned.gold[p] /\ bag[p] = Planned.bag[p]
      /\ BoxesOf(box, loaded, Planned.mails)
  BY <1>1, InWorld
<1>3. /\ to # p /\ units \subseteq bag[p]
      /\ (money > 0 \/ units # {}) /\ (cod > 0 => units # {})
      /\ purse[p] >= money + postage
      /\ Becomes(p, left, kept) /\ box' = Delivered(box, L) /\ Commits(<<c>>)
      /\ UNCHANGED <<world, auctions, aItems, session, loaded, nextAuction, crashes>>
  <2> DEFINE M == {Mail(to, p, money, units, cod)}
             all == Postage * Max({1, Cardinality(units)})
             rest == purse[p] - (money + all)
             keep == bag[p] \ units
             stored == [SavedInventoryAndGold(Planned, p, rest, keep)
                          EXCEPT !.mails = @ (+) Sent(M), !.fees = @ + all]
  <2>1. /\ to # p /\ units \subseteq bag[p]
        /\ (money > 0 \/ units # {}) /\ (cod > 0 => units # {})
        /\ purse[p] >= money + all
        /\ Becomes(p, rest, keep) /\ box' = Delivered(box, M) /\ Commits(<<stored>>)
        /\ UNCHANGED <<world, auctions, aItems, session, loaded, nextAuction, crashes>>
    BY CommitBy DEF HandleSendMail
  <2>2. M = L /\ keep = kept
    BY <1>0, <1>2
  <2>3. all = postage
    BY DEF PostageOf
  <2> HIDE DEF M, keep, all
  <2>4. rest = left
    BY <1>0, <1>2, <2>3
  <2> HIDE DEF rest
  <2>5. stored = c
    BY <2>2, <2>3, <2>4
  <2> HIDE DEF stored, c
  <2> QED
    BY <2>1, <2>2, <2>3, <2>4, <2>5
<1>4. /\ units \in SUBSET Units /\ kept \in SUBSET Units /\ money \in Nat /\ cod \in Nat
      /\ cod \in CodPrices \cup {0}
  BY <1>0, <1>2, AuctionAssumption
<1>5. postage \in Nat
  BY <1>4, PostageType
<1>6. left \in Nat
  BY <1>0, <1>2, <1>3, <1>4, <1>5
<1>7. l \in Posted /\ L \in SUBSET Posted /\ IsFiniteSet(L)
  <2>1. l \in Posted
    BY <1>3, <1>4, MailPosted
  <2> QED
    BY <1>0, <2>1, OneLetter
<1> HIDE DEF saved
<1>8. /\ saved \in Contents
      /\ saved.gold = Instead(Planned.gold, p, left)
      /\ saved.bag = Instead(Planned.bag, p, kept)
      /\ saved.auctions = Planned.auctions /\ saved.mails = Planned.mails
      /\ saved.fees = Planned.fees /\ saved.moving = Planned.moving
  <2>1. saved = SavedInventoryAndGold(Planned, p, left, kept)
    BY DEF saved
  <2> QED
    BY <1>2, <1>4, <1>6, <2>1, SavedContents
<1>9. /\ c \in Contents /\ c.gold = saved.gold /\ c.bag = saved.bag
      /\ c.auctions = Planned.auctions
      /\ c.mails = Planned.mails (+) Sent(L)
      /\ c.fees = Planned.fees + postage /\ c.moving = Planned.moving
  <2> DEFINE mails == Planned.mails (+) Sent(L)
             fees == Planned.fees + postage
  <2>1. mails \in Mailboxes /\ fees \in Int
    BY <1>2, <1>5, <1>7, MailboxSent, MailboxSum
  <2>2. c = [saved EXCEPT !.mails = mails, !.fees = fees]
    BY <1>8
  <2> HIDE DEF mails, fees, c
  <2>3. /\ c \in Contents /\ c.gold = saved.gold /\ c.bag = saved.bag
        /\ c.auctions = saved.auctions /\ c.mails = mails
        /\ c.fees = fees /\ c.moving = saved.moving
    BY <1>8, <2>1, <2>2 DEF Contents
  <2> QED
    BY <1>8, <2>3 DEF mails, fees
<1> HIDE DEF c
<1>10. Sound(c, nextAuction) /\ auctions' = c.auctions /\ aItems' = ItemsOf(c.auctions)
  BY <1>1, <1>3, <1>9, SameStores
<1>11. \A q \in Players : Keeps(q, Planned, c)
  BY <1>2, <1>9, KeepsSent
<1>12. BoxesOf(box', loaded', c.mails)
  BY <1>2, <1>3, <1>7, <1>9, BoxesSent
<1>13. AuctionInv' /\ Planned' = c
  <2>1. c.gold = Instead(Planned.gold, p, left) /\ c.bag = Instead(Planned.bag, p, kept)
    BY <1>8, <1>9
  <2>2. UNCHANGED <<world, session, loaded, nextAuction, crashes>>
    BY <1>3
  <2> QED
    BY <1>1, <1>3, <1>4, <1>6, <1>9, <1>10, <1>11, <1>12, <2>1, <2>2, PlayerStep
<1> QED
  BY <1>1, <1>2, <1>3, <1>4, <1>5, <1>6, <1>7, <1>8, <1>9, <1>13

LEMMA GetMailStep ==
    ASSUME AuctionInv, NEW p \in Players, HandleGetMailList(p)
    PROVE  AuctionInv' /\ Planned' = Planned
<1> DEFINE mine == [l \in LettersTo(p, disk.mails) |-> disk.mails[l]]
<1>1. /\ world = "running" /\ session[p] = "online" /\ p \notin loaded
      /\ loaded' = loaded \cup {p} /\ box' = [box EXCEPT ![p] = mine]
      /\ UNCHANGED <<disk, queue>> /\ queue' = queue /\ disk' = disk /\ world' = world
      /\ auctions' = auctions /\ aItems' = aItems /\ session' = session /\ purse' = purse
      /\ bag' = bag /\ nextAuction' = nextAuction /\ crashes' = crashes
  BY DEF HandleGetMailList, Online, dbVars
<1>2. /\ MemoryType /\ StoresSound /\ BoxesRight /\ LoadsRight /\ UnreadRight /\ InMemory
  BY DEF AuctionInv
<1>3. /\ Planned \in Contents /\ Planned.mails \in Mailboxes
      /\ BoxesOf(box, loaded, Planned.mails)
      /\ \A q \in loaded : q \in Players /\ session[q] = "online"
  BY <1>1, InWorld
<1>4. Len(queue) \in Nat /\ 0 \in 0..Len(queue) /\ At(0) = disk
  BY <1>2, SeenFirst DEF MemoryType, At
<1>5. disk \in Contents /\ disk.mails \in Mailboxes /\ Keeps(p, disk, Planned)
  <2>1. disk \in Contents
    BY <1>2, <1>4 DEF StoresSound, Sound
  <2>2. Keeps(p, disk, Planned)
    BY <1>1, <1>2, <1>4 DEF UnreadRight
  <2> QED
    BY <2>1, <2>2, ContentsType
<1>6. IsABag(disk.mails) /\ IsFiniteSet(DOMAIN disk.mails) /\ DOMAIN disk.mails \subseteq Posted
      /\ IsABag(Planned.mails)
  BY <1>3, <1>5, MailboxType
<1>7. LettersTo(p, disk.mails) = {l \in DOMAIN disk.mails : l.to = p}
  BY DEF LettersTo, BagToSet
<1>8. /\ DOMAIN mine = {l \in DOMAIN disk.mails : l.to = p}
      /\ IsABag(mine)
      /\ \A l : Copies(l, mine) = IF l \in DOMAIN mine THEN Copies(l, disk.mails) ELSE 0
  BY <1>6, <1>7 DEF IsABag, Copies
<1> HIDE DEF mine
<1>9. mine \in Mailboxes
  <2>1. IsFiniteSet(DOMAIN mine)
    BY <1>6, <1>8, FS_Subset
  <2> QED
    BY <1>6, <1>8, <2>1, MailboxType
<1>10. mine \sqsubseteq Planned.mails
  <2>1. ASSUME NEW l PROVE Copies(l, mine) <= Copies(l, Planned.mails)
    <3>1. Copies(l, Planned.mails) \in Nat
      BY <1>6, BagCopies
    <3>2. CASE l \in DOMAIN mine
      <4>1. l \in Posted /\ l.to = p
        BY <1>6, <1>8, <3>2
      <4>2. Copies(l, disk.mails) <= Copies(l, Planned.mails)
        BY <1>5, <4>1 DEF Keeps
      <4> QED BY <1>8, <3>2, <4>2
    <3>3. CASE l \notin DOMAIN mine
      <4>1. Copies(l, mine) = 0
        BY <1>8, <3>3
      <4> QED BY <3>1, <4>1
    <3> QED BY <3>2, <3>3
  <2> QED
    BY <1>6, <1>8, <2>1, BagIncluded
<1>11. BoxesOf(box', loaded', Planned.mails)
  <2>1. /\ box \in [Players -> Mailboxes]
        /\ \A q \in Players : /\ \A l \in DOMAIN box[q] : l.to = q
                              /\ q \notin loaded => DOMAIN box[q] = {}
                              /\ q \in loaded => box[q] \sqsubseteq Planned.mails
    BY <1>3 DEF BoxesOf
  <2>2. box' \in [Players -> Mailboxes] /\ box'[p] = mine
        /\ \A q \in Players : q # p => box'[q] = box[q]
    <3> HIDE DEF Mailboxes
    <3> QED BY <1>1, <1>9, <2>1
  <2>3. \A l \in DOMAIN mine : l.to = p
    BY <1>8
  <2>4. ASSUME NEW q \in Players
        PROVE  /\ \A l \in DOMAIN box'[q] : l.to = q
               /\ q \notin loaded' => DOMAIN box'[q] = {}
               /\ q \in loaded' => box'[q] \sqsubseteq Planned.mails
    <3>1. CASE q = p
      BY <1>1, <1>10, <2>2, <2>3, <3>1
    <3>2. CASE q # p
      BY <1>1, <2>1, <2>2, <3>2
    <3> QED BY <3>1, <3>2
  <2> QED
    BY <2>2, <2>4 DEF BoxesOf
<1>12. StoresSound' /\ LoadsRight' /\ UnreadRight' /\ Planned' = Planned
  BY <1>1, <1>2, SameViews
<1>13. MemoryType'
  BY <1>1, <1>2 DEF MemoryType
<1>14. BoxesRight'
  <2>1. BoxesOf(box', loaded', Planned'.mails)
    BY <1>11, <1>12
  <2>2. \A q \in loaded' : session'[q] = "online"
    BY <1>1, <1>3
  <2> QED
    BY <2>1, <2>2 DEF BoxesRight, BoxesOf
<1>15. DownIsEmpty'
  BY <1>1 DEF DownIsEmpty
<1>16. InMemory'
  <2>1. \A q \in Players : q \in loaded' => box'[q] \sqsubseteq Planned'.mails
    BY <1>11, <1>12 DEF BoxesOf
  <2>2. /\ auctions = Planned.auctions /\ aItems = {a.units : a \in Range(auctions)}
        /\ \A q \in Players : session[q] = "online" =>
             purse[q] = Planned.gold[q] /\ bag[q] = Planned.bag[q]
    BY <1>1, <1>2 DEF InMemory
  <2>3. /\ auctions' = Planned'.auctions /\ aItems' = {a.units : a \in Range(auctions')}
        /\ \A q \in Players : session'[q] = "online" =>
             purse'[q] = Planned'.gold[q] /\ bag'[q] = Planned'.bag[q]
    BY <1>1, <1>12, <2>2
  <2> QED
    BY <2>1, <2>3 DEF InMemory
<1> QED
  BY <1>12, <1>13, <1>14, <1>15, <1>16 DEF AuctionInv

-----------------------------------------------------------------------------
(* A letter in an open mailbox.                                            *)

LEMMA LetterInBox ==
    ASSUME AuctionInv, world = "running", NEW p \in Players, NEW l \in BagToSet(box[p])
    PROVE  /\ l \in DOMAIN box[p] /\ p \in loaded /\ l.to = p
           /\ l \in Posted /\ l \in DOMAIN Planned.mails
<1>1. Planned.mails \in Mailboxes /\ BoxesOf(box, loaded, Planned.mails)
  BY InWorld
<1>2. l \in DOMAIN box[p]
  BY DEF BagToSet
<1>3. /\ box[p] \in Mailboxes /\ l.to = p /\ p \in loaded /\ box[p] \sqsubseteq Planned.mails
  BY <1>1, <1>2 DEF BoxesOf
<1>4. IsABag(box[p]) /\ DOMAIN box[p] \subseteq Posted /\ IsABag(Planned.mails)
  BY <1>1, <1>3, MailboxType
<1>5. l \in DOMAIN Planned.mails
  <2>1. Copies(l, box[p]) <= Copies(l, Planned.mails) /\ Copies(l, box[p]) > 0
        /\ Copies(l, box[p]) \in Nat /\ Copies(l, Planned.mails) \in Nat
    BY <1>2, <1>3, <1>4, BagIncluded, BagCopies
  <2> QED
    BY <1>4, <2>1, BagCopies
<1> QED
  BY <1>2, <1>3, <1>4, <1>5

\* What is left of a letter, and what is sent for it.
Emptied(l) == {[l EXCEPT !.money = 0]}
Opened(l, u) == {[l EXCEPT !.units = @ \ {u}, !.cod = 0]}
PaymentFor(l, p) == IF l.cod > 0 THEN {Mail(l.from, p, l.cod, {}, 0)} ELSE {}
BackTo(l, p) == {Mail(l.from, p, l.money, l.units, 0)}

LEMMA EmptiedPosted ==
    ASSUME NEW l \in Posted
    PROVE  /\ Emptied(l) \in SUBSET Posted /\ IsFiniteSet(Emptied(l))
           /\ \A k \in Emptied(l) : k.to = l.to
<1> DEFINE k == [l EXCEPT !.money = 0]
<1>1. /\ k.to = l.to /\ k.from = l.from /\ k.cod = l.cod /\ k \in Letter
  BY DEF Posted, Letter
<1> HIDE DEF k
<1>2. k \in Posted
  BY <1>1, LetterType DEF Posted
<1>3. Emptied(l) = {k}
  BY DEF Emptied, k
<1> QED
  BY <1>1, <1>2, <1>3, OneLetter

LEMMA OpenedPosted ==
    ASSUME NEW l \in Posted, NEW u
    PROVE  /\ Opened(l, u) \in SUBSET Posted /\ IsFiniteSet(Opened(l, u))
           /\ \A k \in Opened(l, u) : k.to = l.to
<1> DEFINE k == [l EXCEPT !.units = @ \ {u}, !.cod = 0]
<1>1. /\ k.to = l.to /\ k.from = l.from /\ k.cod = 0 /\ k \in Letter
  BY DEF Posted, Letter
<1> HIDE DEF k
<1>2. k \in Posted
  BY <1>1, LetterType DEF Posted
<1>3. Opened(l, u) = {k}
  BY DEF Opened, k
<1> QED
  BY <1>1, <1>2, <1>3, OneLetter

LEMMA PaymentPosted ==
    ASSUME NEW l \in Posted, NEW p \in Players, l.to = p
    PROVE  PaymentFor(l, p) \in SUBSET Posted /\ IsFiniteSet(PaymentFor(l, p))
<1>1. CASE l.cod > 0
  <2>1. l.from \in Players /\ p # l.from /\ l.cod \in Nat /\ p \in Players \cup {House}
        /\ {} \in SUBSET Units /\ ~(0 > 0)
    BY <1>1, LetterType
  <2>2. Mail(l.from, p, l.cod, {}, 0) \in Posted
    BY <2>1, MailPosted
  <2> QED
    BY <1>1, <2>2, OneLetter DEF PaymentFor
<1>2. CASE ~(l.cod > 0)
  BY <1>2, NoLetter DEF PaymentFor
<1> QED
  BY <1>1, <1>2

LEMMA BackPosted ==
    ASSUME NEW l \in Posted, NEW p \in Players, l.to = p, l.from # House
    PROVE  BackTo(l, p) \in SUBSET Posted /\ IsFiniteSet(BackTo(l, p))
<1>1. l.from \in Players /\ p # l.from /\ l.money \in Nat /\ p \in Players \cup {House}
      /\ l.units \in SUBSET Units /\ ~(0 > 0)
  BY LetterType
<1>2. Mail(l.from, p, l.money, l.units, 0) \in Posted
  BY <1>1, MailPosted
<1> QED
  BY <1>2, OneLetter DEF BackTo

\* A letter of p is rewritten, and letters are sent.
LEMMA LetterStep ==
    ASSUME AuctionInv, NEW p \in Players, Online(p), NEW l \in BagToSet(box[p]),
           UNCHANGED <<world, auctions, aItems, session, loaded, nextAuction, crashes>>,
           NEW gold \in Nat, NEW units \in SUBSET Units, Becomes(p, gold, units),
           NEW left \in SUBSET Posted, IsFiniteSet(left), \A k \in left : k.to = p,
           NEW L \in SUBSET Posted, IsFiniteSet(L),
           NEW c \in Contents, Commits(<<c>>),
           c.gold = Instead(Planned.gold, p, gold), c.bag = Instead(Planned.bag, p, units),
           c.auctions = Planned.auctions,
           c.mails = Rewritten(Planned.mails, l, left) (+) Sent(L),
           box' = Delivered([box EXCEPT ![p] = Rewritten(@, l, left)], L)
    PROVE  AuctionInv' /\ Planned' = c
<1>1. world = "running"
  BY DEF Online
<1>2. /\ Planned \in Contents /\ Planned.mails \in Mailboxes
      /\ BoxesOf(box, loaded, Planned.mails)
  BY <1>1, InWorld
<1>3. l \in DOMAIN box[p] /\ p \in loaded /\ l.to = p /\ l \in Posted
  BY <1>1, LetterInBox
<1> DEFINE mid == Rewritten(Planned.mails, l, left)
           boxes == [box EXCEPT ![p] = Rewritten(@, l, left)]
           d == [Planned EXCEPT !.mails = mid]
<1>4. mid \in Mailboxes
  BY <1>2, MailboxRewritten
<1>5. BoxesOf(boxes, loaded, mid)
  BY <1>2, <1>3, BoxesRewritten
<1>6. d \in Contents /\ d.mails = mid
  <2> HIDE DEF mid
  <2> QED
    BY <1>2, <1>4 DEF Contents
<1> HIDE DEF d, boxes
<1>7. ASSUME NEW q \in Players, q # p PROVE Keeps(q, Planned, c)
  <2>1. l.to # q
    BY <1>3, <1>7
  <2>2. Keeps(q, Planned, d)
    BY <1>2, <1>6, <2>1, KeepsRewritten
  <2>3. Keeps(q, d, c)
    BY <1>6, KeepsSent
  <2> QED
    BY <1>2, <1>6, <2>2, <2>3, KeepsOn
<1>8. box' = Delivered(boxes, L) /\ c.mails = mid (+) Sent(L)
  BY DEF boxes
<1> HIDE DEF mid
<1>9. BoxesOf(box', loaded', c.mails)
  BY <1>4, <1>5, <1>8, BoxesSent
<1>10. Sound(c, nextAuction) /\ auctions' = c.auctions /\ aItems' = ItemsOf(c.auctions)
  BY <1>1, SameStores
<1>11. \A q \in Players : q \notin loaded \/ q # p => Keeps(q, Planned, c)
  BY <1>3, <1>7
<1>12. UNCHANGED <<world, session, loaded, nextAuction, crashes>>
  OBVIOUS
<1> QED
  BY <1>9, <1>10, <1>11, <1>12, PlayerStep

\* A player's own inventory instead of itself.
LEMMA SameInstead ==
    ASSUME NEW V, NEW f \in [Players -> V], NEW p \in Players
    PROVE  f = Instead(f, p, f[p])
BY DEF Instead

LEMMA TakeMoneyStep ==
    ASSUME AuctionInv, NEW p \in Players, NEW l \in BagToSet(box[p]), HandleMailTakeMoney(p, l),
           NEW gold, gold = Planned.gold[p] + l.money,
           NEW left, left = Emptied(l)
    PROVE  /\ AuctionInv' /\ Online(p) /\ l \in DOMAIN Planned.mails /\ l \in Posted /\ l.to = p
           /\ l.money > 0 /\ gold \in Nat
           /\ left \in SUBSET Posted /\ IsFiniteSet(left)
           /\ Planned' \in Contents /\ Commits(<<Planned'>>)
           /\ Planned'.gold = Instead(Planned.gold, p, gold)
           /\ Planned'.bag = Planned.bag
           /\ Planned'.auctions = Planned.auctions
           /\ Planned'.mails = Rewritten(Planned.mails, l, left)
           /\ Planned'.fees = Planned.fees /\ Planned'.moving = Planned.moving
<1> DEFINE c == [Planned EXCEPT !.gold[p] = gold, !.mails = Rewritten(@, l, left)]
           units == bag[p]
<1>1. world = "running" /\ session[p] = "online" /\ Online(p)
  BY DEF HandleMailTakeMoney, Online
<1>2. /\ Planned \in Contents
      /\ Planned.gold \in [Players -> Nat] /\ Planned.bag \in [Players -> SUBSET Units]
      /\ Planned.mails \in Mailboxes
      /\ purse[p] = Planned.gold[p] /\ bag[p] = Planned.bag[p]
      /\ BoxesOf(box, loaded, Planned.mails)
  BY <1>1, InWorld
<1>3. l \in DOMAIN box[p] /\ p \in loaded /\ l.to = p /\ l \in Posted /\ l \in DOMAIN Planned.mails
  BY <1>1, LetterInBox
<1>4. /\ l.money > 0 /\ Becomes(p, gold, units)
      /\ box' = [box EXCEPT ![p] = Rewritten(@, l, left)]
      /\ Commits(<<c>>)
      /\ UNCHANGED <<world, auctions, aItems, session, loaded, nextAuction, crashes>>
  <2> DEFINE rest == {[l EXCEPT !.money = 0]}
             more == purse[p] + l.money
             stored == [Planned EXCEPT !.gold[p] = more, !.mails = Rewritten(@, l, rest)]
  <2>1. /\ l.money > 0 /\ Becomes(p, more, units)
        /\ box' = [box EXCEPT ![p] = Rewritten(@, l, rest)]
        /\ Commits(<<stored>>)
        /\ UNCHANGED <<world, auctions, aItems, session, loaded, nextAuction, crashes>>
    BY CommitBy DEF HandleMailTakeMoney
  <2>2. rest = left
    BY DEF Emptied
  <2>3. more = gold
    BY <1>2
  <2> HIDE DEF rest, more, units
  <2>4. stored = c
    BY <2>2, <2>3
  <2> HIDE DEF stored, c
  <2> QED
    BY <2>1, <2>2, <2>3, <2>4
<1>5. gold \in Nat /\ units \in SUBSET Units /\ Planned.bag = Instead(Planned.bag, p, units)
  <2>1. l.money \in Nat
    BY <1>3, LetterType
  <2>2. units \in SUBSET Units /\ units = Planned.bag[p]
    BY <1>2
  <2> HIDE DEF units
  <2>3. Planned.bag = Instead(Planned.bag, p, units)
    BY <1>2, <2>2, SameInstead
  <2>4. gold \in Nat
    BY <1>2, <2>1
  <2> QED
    BY <2>2, <2>3, <2>4
<1>6. left \in SUBSET Posted /\ IsFiniteSet(left) /\ \A k \in left : k.to = p
  BY <1>3, EmptiedPosted
<1>7. /\ c \in Contents /\ c.gold = Instead(Planned.gold, p, gold) /\ c.bag = Planned.bag
      /\ c.auctions = Planned.auctions /\ c.mails = Rewritten(Planned.mails, l, left)
      /\ c.fees = Planned.fees /\ c.moving = Planned.moving
  <2> DEFINE mails == Rewritten(Planned.mails, l, left)
             golds == Instead(Planned.gold, p, gold)
  <2>1. mails \in Mailboxes /\ golds \in [Players -> Nat]
    BY <1>2, <1>5, <1>6, MailboxRewritten DEF Instead
  <2>2. c = [Planned EXCEPT !.gold = golds, !.mails = mails]
    BY DEF Instead
  <2> HIDE DEF mails, golds, c
  <2>3. /\ c \in Contents /\ c.gold = golds /\ c.bag = Planned.bag
        /\ c.auctions = Planned.auctions /\ c.mails = mails
        /\ c.fees = Planned.fees /\ c.moving = Planned.moving
    BY <1>2, <2>1, <2>2 DEF Contents
  <2> QED
    BY <2>3 DEF mails, golds
<1> HIDE DEF c, units
<1>8. BoxesOf(box', loaded', c.mails)
  <2>1. BoxesOf([box EXCEPT ![p] = Rewritten(@, l, left)], loaded, Rewritten(Planned.mails, l, left))
    BY <1>2, <1>3, <1>6, BoxesRewritten
  <2>2. loaded' = loaded
    BY <1>4
  <2> QED
    BY <1>4, <1>7, <2>1, <2>2
<1>9. \A q \in Players : q \notin loaded \/ q # p => Keeps(q, Planned, c)
  BY <1>2, <1>3, <1>7, KeepsRewritten
<1>10. Sound(c, nextAuction) /\ auctions' = c.auctions /\ aItems' = ItemsOf(c.auctions)
  BY <1>1, <1>4, <1>7, SameStores
<1>11. UNCHANGED <<world, session, loaded, nextAuction, crashes>>
  BY <1>4
<1>12. c.bag = Instead(Planned.bag, p, units)
  BY <1>5, <1>7
<1>13. AuctionInv' /\ Planned' = c
  BY <1>1, <1>4, <1>5, <1>7, <1>8, <1>9, <1>10, <1>11, <1>12, PlayerStep
<1> QED
  BY <1>1, <1>3, <1>4, <1>5, <1>6, <1>7, <1>13

LEMMA TakeItemStep ==
    ASSUME AuctionInv, NEW p \in Players, NEW l \in BagToSet(box[p]), NEW u \in l.units,
           HandleMailTakeItem(p, l, u),
           NEW gold, gold = Less(Planned.gold[p], l.cod),
           NEW units, units = Plus(Planned.bag[p], Only(u)),
           NEW left, left = Opened(l, u),
           NEW L, L = PaymentFor(l, p)
    PROVE  /\ AuctionInv' /\ Online(p) /\ l \in DOMAIN Planned.mails /\ l \in Posted /\ l.to = p
           /\ gold \in Nat /\ units \in SUBSET Units
           /\ left \in SUBSET Posted /\ IsFiniteSet(left)
           /\ L \in SUBSET Posted /\ IsFiniteSet(L)
           /\ Planned' \in Contents /\ Commits(<<Planned'>>)
           /\ Planned'.gold = Instead(Planned.gold, p, gold)
           /\ Planned'.bag = Instead(Planned.bag, p, units)
           /\ Planned'.auctions = Planned.auctions
           /\ Planned'.mails = Rewritten(Planned.mails, l, left) (+) Sent(L)
           /\ Planned'.fees = Planned.fees /\ Planned'.moving = Planned.moving
<1> DEFINE saved == SavedInventoryAndGold(Planned, p, gold, units)
           c == [saved EXCEPT !.mails = Rewritten(@, l, left) (+) Sent(L)]
<1>0. gold = Planned.gold[p] - l.cod /\ units = Planned.bag[p] \cup {u}
  BY DEF Less, Plus, Only
<1>1. world = "running" /\ session[p] = "online" /\ Online(p)
  BY DEF HandleMailTakeItem, Online
<1>2. /\ Planned \in Contents
      /\ Planned.gold \in [Players -> Nat] /\ Planned.bag \in [Players -> SUBSET Units]
      /\ Planned.mails \in Mailboxes
      /\ purse[p] = Planned.gold[p] /\ bag[p] = Planned.bag[p]
  BY <1>1, InWorld
<1>3. p \in loaded /\ l.to = p /\ l \in Posted /\ l \in DOMAIN Planned.mails
  BY <1>1, LetterInBox
<1>4. /\ purse[p] >= l.cod /\ Becomes(p, gold, units)
      /\ box' = Delivered([box EXCEPT ![p] = Rewritten(@, l, left)], L)
      /\ Commits(<<c>>)
      /\ UNCHANGED <<world, auctions, aItems, session, loaded, nextAuction, crashes>>
  <2> DEFINE rest == {[l EXCEPT !.units = @ \ {u}, !.cod = 0]}
             pay == IF l.cod > 0 THEN {Mail(l.from, p, l.cod, {}, 0)} ELSE {}
             coins == purse[p] - l.cod
             things == bag[p] \cup {u}
             stored == [SavedInventoryAndGold(Planned, p, coins, things)
                          EXCEPT !.mails = Rewritten(@, l, rest) (+) Sent(pay)]
  <2>1. /\ purse[p] >= l.cod /\ Becomes(p, coins, things)
        /\ box' = Delivered([box EXCEPT ![p] = Rewritten(@, l, rest)], pay)
        /\ Commits(<<stored>>)
        /\ UNCHANGED <<world, auctions, aItems, session, loaded, nextAuction, crashes>>
    BY CommitBy DEF HandleMailTakeItem
  <2>2. rest = left /\ pay = L
    BY DEF Opened, PaymentFor
  <2>3. coins = gold /\ things = units
    BY <1>0, <1>2
  <2> HIDE DEF rest, pay, coins, things
  <2>4. stored = c
    BY <2>2, <2>3
  <2> HIDE DEF stored, c
  <2> QED
    BY <2>1, <2>2, <2>3, <2>4
<1>5. gold \in Nat /\ units \in SUBSET Units
  <2>1. l.cod \in Nat /\ l.units \in SUBSET Units
    BY <1>3, LetterType
  <2> QED
    BY <1>0, <1>2, <1>4, <2>1
<1>6. /\ left \in SUBSET Posted /\ IsFiniteSet(left) /\ \A k \in left : k.to = p
      /\ L \in SUBSET Posted /\ IsFiniteSet(L)
  BY <1>3, OpenedPosted, PaymentPosted
<1> HIDE DEF saved
<1>7. /\ saved \in Contents
      /\ saved.gold = Instead(Planned.gold, p, gold)
      /\ saved.bag = Instead(Planned.bag, p, units)
      /\ saved.auctions = Planned.auctions /\ saved.mails = Planned.mails
      /\ saved.fees = Planned.fees /\ saved.moving = Planned.moving
  <2>1. saved = SavedInventoryAndGold(Planned, p, gold, units)
    BY DEF saved
  <2> QED
    BY <1>2, <1>5, <2>1, SavedContents
<1>8. /\ c \in Contents /\ c.gold = saved.gold /\ c.bag = saved.bag
      /\ c.auctions = Planned.auctions
      /\ c.mails = Rewritten(Planned.mails, l, left) (+) Sent(L)
      /\ c.fees = Planned.fees /\ c.moving = Planned.moving
  <2> DEFINE mails == Rewritten(Planned.mails, l, left) (+) Sent(L)
  <2>1. mails \in Mailboxes
    BY <1>2, <1>6, MailboxRewritten, MailboxSent, MailboxSum
  <2>2. c = [saved EXCEPT !.mails = mails]
    BY <1>7
  <2> HIDE DEF mails, c
  <2>3. /\ c \in Contents /\ c.gold = saved.gold /\ c.bag = saved.bag
        /\ c.auctions = saved.auctions /\ c.mails = mails
        /\ c.fees = saved.fees /\ c.moving = saved.moving
    BY <1>7, <2>1, <2>2 DEF Contents
  <2> QED
    BY <1>7, <2>3 DEF mails
<1> HIDE DEF c
<1>9. c.gold = Instead(Planned.gold, p, gold) /\ c.bag = Instead(Planned.bag, p, units)
  BY <1>7, <1>8
<1>10. AuctionInv' /\ Planned' = c
  BY <1>1, <1>4, <1>5, <1>6, <1>8, <1>9, LetterStep
<1> QED
  BY <1>1, <1>3, <1>4, <1>5, <1>6, <1>7, <1>8, <1>9, <1>10

LEMMA ReturnStep ==
    ASSUME AuctionInv, NEW p \in Players, NEW l \in BagToSet(box[p]),
           HandleMailReturnToSender(p, l),
           NEW L, L = BackTo(l, p)
    PROVE  /\ AuctionInv' /\ Online(p) /\ l \in DOMAIN Planned.mails /\ l \in Posted /\ l.to = p
           /\ l.from # House
           /\ L \in SUBSET Posted /\ IsFiniteSet(L)
           /\ Planned' \in Contents /\ Commits(<<Planned'>>)
           /\ Planned'.gold = Planned.gold
           /\ Planned'.bag = Planned.bag
           /\ Planned'.auctions = Planned.auctions
           /\ Planned'.mails = Rewritten(Planned.mails, l, {}) (+) Sent(L)
           /\ Planned'.fees = Planned.fees /\ Planned'.moving = Planned.moving
<1> DEFINE c == [Planned EXCEPT !.mails = Rewritten(@, l, {}) (+) Sent(L)]
           gold == purse[p]
           units == bag[p]
<1>1. world = "running" /\ session[p] = "online" /\ Online(p)
  BY DEF HandleMailReturnToSender, Online
<1>2. /\ Planned \in Contents
      /\ Planned.gold \in [Players -> Nat] /\ Planned.bag \in [Players -> SUBSET Units]
      /\ Planned.mails \in Mailboxes
      /\ purse[p] = Planned.gold[p] /\ bag[p] = Planned.bag[p]
  BY <1>1, InWorld
<1>3. p \in loaded /\ l.to = p /\ l \in Posted /\ l \in DOMAIN Planned.mails
  BY <1>1, LetterInBox
<1>4. /\ l.from # House
      /\ box' = Delivered([box EXCEPT ![p] = Rewritten(@, l, {})], L)
      /\ Commits(<<c>>)
      /\ UNCHANGED <<world, auctions, aItems, session, purse, bag, loaded, nextAuction, crashes>>
  BY CommitBy DEF HandleMailReturnToSender, BackTo
<1>5. L \in SUBSET Posted /\ IsFiniteSet(L)
  BY <1>3, <1>4, BackPosted
<1>6. /\ c \in Contents /\ c.gold = Planned.gold /\ c.bag = Planned.bag
      /\ c.auctions = Planned.auctions
      /\ c.mails = Rewritten(Planned.mails, l, {}) (+) Sent(L)
      /\ c.fees = Planned.fees /\ c.moving = Planned.moving
  <2> DEFINE mails == Rewritten(Planned.mails, l, {}) (+) Sent(L)
  <2>1. mails \in Mailboxes
    BY <1>2, <1>5, NoLetter, MailboxRewritten, MailboxSent, MailboxSum
  <2>2. c = [Planned EXCEPT !.mails = mails]
    OBVIOUS
  <2> HIDE DEF mails, c
  <2>3. /\ c \in Contents /\ c.gold = Planned.gold /\ c.bag = Planned.bag
        /\ c.auctions = Planned.auctions /\ c.mails = mails
        /\ c.fees = Planned.fees /\ c.moving = Planned.moving
    BY <1>2, <2>1, <2>2 DEF Contents
  <2> QED
    BY <2>3 DEF mails
<1> HIDE DEF c
<1>7. /\ gold \in Nat /\ units \in SUBSET Units /\ Becomes(p, gold, units)
      /\ Planned.gold = Instead(Planned.gold, p, gold)
      /\ Planned.bag = Instead(Planned.bag, p, units)
  <2>1. purse \in [Players -> Nat] /\ bag \in [Players -> SUBSET Units]
    BY DEF AuctionInv, MemoryType
  <2>2. Becomes(p, gold, units)
    BY <1>4, <2>1 DEF Becomes
  <2> QED
    BY <1>2, <2>2, SameInstead
<1> HIDE DEF gold, units
<1>8. /\ {} \in SUBSET Posted /\ IsFiniteSet({}) /\ \A k \in {} : k.to = p
      /\ c.gold = Instead(Planned.gold, p, gold) /\ c.bag = Instead(Planned.bag, p, units)
      /\ UNCHANGED <<world, auctions, aItems, session, loaded, nextAuction, crashes>>
  BY <1>4, <1>6, <1>7, NoLetter
<1> DEFINE none == {}
<1>9. /\ none \in SUBSET Posted /\ IsFiniteSet(none) /\ \A k \in none : k.to = p
      /\ box' = Delivered([box EXCEPT ![p] = Rewritten(@, l, none)], L)
      /\ c.mails = Rewritten(Planned.mails, l, none) (+) Sent(L)
  BY <1>4, <1>6, <1>8
<1> HIDE DEF none
<1>10. AuctionInv' /\ Planned' = c
  BY <1>1, <1>4, <1>5, <1>6, <1>7, <1>8, <1>9, LetterStep
<1> QED
  BY <1>1, <1>3, <1>4, <1>5, <1>6, <1>10

-----------------------------------------------------------------------------
(* Players come and go.                                                    *)

\* Neither the stores that are planned nor anybody in the world is touched.
LEMMA QuietStep ==
    ASSUME AuctionInv, MemoryType', StoresSound', LoadsRight', UnreadRight', Planned' = Planned,
           world' = world, world = "running",
           UNCHANGED <<auctions, aItems, loaded, box>>,
           \A q \in Players : session[q] = "online" => session'[q] = "online",
           \A q \in Players : session'[q] = "online" =>
              purse'[q] = Planned.gold[q] /\ bag'[q] = Planned.bag[q]
    PROVE  AuctionInv'
<1>1. /\ BoxesOf(box, loaded, Planned.mails)
      /\ auctions = Planned.auctions /\ aItems = ItemsOf(Planned.auctions)
      /\ \A q \in loaded : q \in Players /\ session[q] = "online"
  BY InWorld
<1>2. BoxesRight'
  <2>1. BoxesOf(box', loaded', Planned'.mails)
    BY <1>1
  <2>2. \A q \in loaded' : session'[q] = "online"
    BY <1>1
  <2> QED
    BY <2>1, <2>2 DEF BoxesRight, BoxesOf
<1>3. DownIsEmpty'
  BY DEF DownIsEmpty
<1>4. InMemory'
  <2>1. \A q \in Players : q \in loaded' => box'[q] \sqsubseteq Planned'.mails
    BY <1>1 DEF BoxesOf
  <2>2. /\ auctions' = Planned'.auctions /\ aItems' = ItemsOf(auctions')
        /\ \A q \in Players : session'[q] = "online" =>
             purse'[q] = Planned'.gold[q] /\ bag'[q] = Planned'.bag[q]
    BY <1>1
  <2> QED
    BY <2>1, <2>2 DEF InMemory, ItemsOf
<1> QED
  BY <1>2, <1>3, <1>4 DEF AuctionInv

LEMMA LoginStep ==
    ASSUME AuctionInv, NEW p \in Players, HandlePlayerLogin(p)
    PROVE  AuctionInv' /\ Planned' = Planned
<1>1. /\ world = "running" /\ session[p] = "offline"
      /\ session' = [session EXCEPT ![p] = "loading"] /\ DelayQueryHolder(p)
      /\ UNCHANGED <<auctions, aItems, loaded, box>>
      /\ loaded' = loaded /\ world' = world /\ auctions' = auctions /\ aItems' = aItems
      /\ purse' = purse /\ bag' = bag /\ nextAuction' = nextAuction /\ crashes' = crashes
  BY DEF HandlePlayerLogin, mailVars
<1>2. MemoryType /\ StoresSound /\ LoadsRight /\ UnreadRight
  BY DEF AuctionInv
<1>3. StoresSound' /\ LoadsRight' /\ UnreadRight'
  BY <1>1, <1>2, DelayViews
<1>4. queue' \in Seq(Operations) /\ Len(queue') <= MaxQueue /\ Planned' = Planned
  BY <1>1, <1>2, DelaySeen DEF MemoryType
<1>5. /\ session' \in [Players -> {"offline", "loading", "online"}]
      /\ \A q \in Players : session[q] = "online" <=> session'[q] = "online"
  BY <1>1, <1>2 DEF MemoryType
<1>6. MemoryType'
  BY <1>1, <1>2, <1>4, <1>5 DEF MemoryType
<1>7. \A q \in Players : session'[q] = "online" =>
              purse'[q] = Planned.gold[q] /\ bag'[q] = Planned.bag[q]
  BY <1>1, <1>5, InWorld
<1> QED
  BY <1>1, <1>3, <1>4, <1>5, <1>6, <1>7, QuietStep

LEMMA AnsweredStep ==
    ASSUME AuctionInv, NEW p \in Players, LoginHolderAnswered(p)
    PROVE  AuctionInv' /\ Planned' = Planned
<1>1. /\ queue # << >> /\ Head(queue).kind = "load" /\ Head(queue).for = p
      /\ queue' = Tail(queue) /\ disk' = disk
      /\ session' = [session EXCEPT ![p] = "online"]
      /\ purse' = [purse EXCEPT ![p] = disk.gold[p]] /\ bag' = [bag EXCEPT ![p] = disk.bag[p]]
      /\ UNCHANGED <<auctions, aItems, loaded, box>>
      /\ loaded' = loaded /\ world' = world /\ auctions' = auctions /\ aItems' = aItems
      /\ nextAuction' = nextAuction /\ crashes' = crashes
  BY DEF LoginHolderAnswered, ExecuteQueries, Becomes, mailVars
<1>2. MemoryType /\ StoresSound /\ LoadsRight /\ UnreadRight /\ BoxesRight /\ DownIsEmpty
  BY DEF AuctionInv
<1>3. world = "running"
  BY <1>1, <1>2 DEF DownIsEmpty, MemoryType
<1>4. Len(queue) \in Nat /\ 1 \in 1..Len(queue) /\ Head(queue) = queue[1] /\ Loads(p, 1)
  BY <1>1, <1>2 DEF Loads, MemoryType
<1>5. /\ session[p] = "loading"
      /\ At(1).gold[p] = Planned.gold[p] /\ At(1).bag[p] = Planned.bag[p]
  BY <1>2, <1>4 DEF LoadsRight
<1>6. At(1) = disk /\ At(0) = disk
  <2>1. At(0) = disk
    BY SeenFirst DEF At
  <2>2. 0 \in Nat /\ 0 + 1 = 1 /\ queue[1].kind # "commit"
    BY <1>1, <1>4
  <2>3. At(1) = At(0)
    BY <2>2, SeenNext DEF At
  <2> QED
    BY <2>1, <2>3
<1>7. disk \in Contents
  BY <1>2, <1>4, <1>6 DEF StoresSound, Sound
<1>8. disk' = IF Head(queue).kind = "commit" THEN Head(queue).contents ELSE disk
  BY <1>1
<1>9. \A q \in Players : session'[q] = session[q] \/ (Loads(q, 1) /\ session'[q] = "online")
  BY <1>1, <1>2, <1>4 DEF MemoryType
<1>10. StoresSound' /\ LoadsRight' /\ UnreadRight'
  BY <1>1, <1>2, <1>8, <1>9, ExecuteViews
<1>11. queue' \in Seq(Operations) /\ Len(queue') <= MaxQueue /\ Planned' = Planned
  <2>1. queue \in Seq(Operations) /\ Len(queue) <= MaxQueue /\ MaxQueue \in Nat
    BY <1>2, AuctionAssumption DEF MemoryType
  <2>2. /\ queue' \in Seq(Operations) /\ Len(queue') \in Nat /\ Len(queue') + 1 = Len(queue)
        /\ Planned' = Planned
    BY <1>1, <1>8, <2>1, ExecuteSeen
  <2> QED
    BY <1>4, <2>1, <2>2
<1>12. /\ session' \in [Players -> {"offline", "loading", "online"}]
       /\ purse' \in [Players -> Nat] /\ bag' \in [Players -> SUBSET Units]
       /\ purse'[p] = disk.gold[p] /\ bag'[p] = disk.bag[p]
       /\ \A q \in Players : q # p => /\ session'[q] = session[q]
                                      /\ purse'[q] = purse[q] /\ bag'[q] = bag[q]
       /\ \A q \in Players : session[q] = "online" => session'[q] = "online"
  <2>1. disk.gold[p] \in Nat /\ disk.bag[p] \in SUBSET Units
    BY <1>7, ContentsType
  <2> QED
    BY <1>1, <1>2, <2>1 DEF MemoryType
<1>13. MemoryType'
  BY <1>1, <1>2, <1>11, <1>12 DEF MemoryType
<1>14. \A q \in Players : session'[q] = "online" =>
              purse'[q] = Planned.gold[q] /\ bag'[q] = Planned.bag[q]
  BY <1>3, <1>5, <1>6, <1>12, InWorld
<1> QED
  BY <1>1, <1>3, <1>10, <1>11, <1>12, <1>13, <1>14, QuietStep

LEMMA SaveStep ==
    ASSUME AuctionInv, Save
    PROVE  AuctionInv' /\ Planned' = Planned
<1>1. /\ queue # << >> /\ Head(queue).kind = "commit"
      /\ queue' = Tail(queue) /\ disk' = Head(queue).contents
      /\ UNCHANGED <<auctions, aItems, loaded, box>>
      /\ loaded' = loaded /\ world' = world /\ auctions' = auctions /\ aItems' = aItems
      /\ session' = session /\ purse' = purse /\ bag' = bag
      /\ nextAuction' = nextAuction /\ crashes' = crashes
  BY DEF Save, ExecuteTransaction, playerVars, mailVars
<1>2. MemoryType /\ StoresSound /\ LoadsRight /\ UnreadRight /\ BoxesRight /\ DownIsEmpty
  BY DEF AuctionInv
<1>3. world = "running"
  BY <1>1, <1>2 DEF DownIsEmpty, MemoryType
<1>4. disk' = IF Head(queue).kind = "commit" THEN Head(queue).contents ELSE disk
  BY <1>1
<1>5. StoresSound' /\ LoadsRight' /\ UnreadRight'
  BY <1>1, <1>2, <1>4, ExecuteViews
<1>6. queue' \in Seq(Operations) /\ Len(queue') <= MaxQueue /\ Planned' = Planned
  <2>1. queue \in Seq(Operations) /\ Len(queue) <= MaxQueue /\ MaxQueue \in Nat
    BY <1>2, AuctionAssumption DEF MemoryType
  <2>2. /\ queue' \in Seq(Operations) /\ Len(queue') \in Nat /\ Len(queue') + 1 = Len(queue)
        /\ Planned' = Planned /\ Len(queue) \in Nat
    BY <1>1, <1>4, <2>1, ExecuteSeen
  <2> QED
    BY <2>1, <2>2
<1>7. MemoryType'
  BY <1>1, <1>2, <1>6 DEF MemoryType
<1>8. \A q \in Players : session'[q] = "online" =>
              purse'[q] = Planned.gold[q] /\ bag'[q] = Planned.bag[q]
  BY <1>1, <1>3, InWorld
<1>9. \A q \in Players : session[q] = "online" => session'[q] = "online"
  BY <1>1
<1> QED
  BY <1>1, <1>3, <1>5, <1>6, <1>7, <1>8, <1>9, QuietStep

LEMMA LogoutStep ==
    ASSUME AuctionInv, NEW p \in Players, LogoutPlayer(p)
    PROVE  /\ AuctionInv' /\ Planned' \in Contents /\ Commits(<<Planned'>>)
           /\ Planned'.gold = Planned.gold /\ Planned'.bag = Planned.bag
           /\ Planned'.auctions = Planned.auctions /\ Planned'.mails = Planned.mails
           /\ Planned'.fees = Planned.fees /\ Planned'.moving = Planned.moving
<1> DEFINE c == SavedInventoryAndGold(Planned, p, purse[p], bag[p])
<1>1. /\ Online(p) /\ session' = [session EXCEPT ![p] = "offline"]
      /\ purse' = [purse EXCEPT ![p] = 0] /\ bag' = [bag EXCEPT ![p] = {}]
      /\ loaded' = loaded \ {p} /\ box' = [box EXCEPT ![p] = EmptyBag]
      /\ Commits(<<c>>)
      /\ world' = world /\ auctions' = auctions /\ aItems' = aItems
      /\ nextAuction' = nextAuction /\ crashes' = crashes
  BY CommitBy DEF LogoutPlayer, Becomes
<1> DEFINE cs == <<c>>
           S == {p}
<1>2. cs = <<c>> /\ S = {p} /\ c = SavedInventoryAndGold(Planned, p, purse[p], bag[p])
  OBVIOUS
<1> HIDE DEF c, cs, S
<1>3. world = "running" /\ session[p] = "online"
  BY <1>1 DEF Online
<1>4. /\ Planned \in Contents /\ Sound(Planned, nextAuction)
      /\ Planned.gold \in [Players -> Nat] /\ Planned.bag \in [Players -> SUBSET Units]
      /\ Planned.mails \in Mailboxes
      /\ auctions = Planned.auctions /\ aItems = ItemsOf(Planned.auctions)
      /\ \A q \in Players : session[q] = "online" =>
           purse[q] = Planned.gold[q] /\ bag[q] = Planned.bag[q]
      /\ BoxesOf(box, loaded, Planned.mails)
      /\ \A q \in loaded : q \in Players /\ session[q] = "online"
  BY <1>3, InWorld
<1>5. /\ session \in [Players -> {"offline", "loading", "online"}]
      /\ purse \in [Players -> Nat] /\ bag \in [Players -> SUBSET Units]
      /\ nextAuction \in 1..(MaxAuctions + 1)
  BY DEF AuctionInv, MemoryType
<1>6. /\ c \in Contents
      /\ c.gold = Instead(Planned.gold, p, purse[p]) /\ c.bag = Instead(Planned.bag, p, bag[p])
      /\ c.auctions = Planned.auctions /\ c.mails = Planned.mails
      /\ c.fees = Planned.fees /\ c.moving = Planned.moving
  <2>1. purse[p] \in Nat /\ bag[p] \in SUBSET Units
    BY <1>5
  <2> QED
    BY <1>2, <1>4, <2>1, SavedContents
<1>7. c.gold = Planned.gold /\ c.bag = Planned.bag
  BY <1>3, <1>4, <1>6 DEF Instead
<1>8. /\ cs \in Seq(Contents) /\ cs # << >> /\ Len(cs) = 1 /\ c = cs[Len(cs)]
      /\ \A i \in 1..Len(cs) : cs[i] = c
  BY <1>2, <1>6
<1>9. /\ session' \in [Players -> {"offline", "loading", "online"}]
      /\ session'[p] = "offline" /\ \A q \in Players : q # p => session'[q] = session[q]
      /\ purse' \in [Players -> Nat] /\ bag' \in [Players -> SUBSET Units]
      /\ \A q \in Players : q # p => purse'[q] = purse[q] /\ bag'[q] = bag[q]
  BY <1>1, <1>5
<1>10. loaded' = {q \in loaded : session'[q] = "online"}
  BY <1>1, <1>4, <1>9
<1>11. \A q \in Players : session'[q] = "online" => purse'[q] = c.gold[q] /\ bag'[q] = c.bag[q]
  BY <1>4, <1>7, <1>9
<1>12. Sound(c, nextAuction)
  BY <1>4, <1>6, SoundSame
<1>13. \A q \in Players : Keeps(q, Planned, c) /\ Keeps(q, c, c)
  BY <1>4, <1>6, KeepsSame DEF Keeps
<1>14. Concerns(S, cs, c)
  <2>1. S \in SUBSET Players /\ \A q \in S : session[q] = "online" /\ session'[q] \in {"online", "offline"}
    BY <1>2, <1>3, <1>9
  <2>2. \A q \in Players \ S : session'[q] = session[q]
    BY <1>2, <1>9
  <2> QED
    BY <1>7, <1>8, <1>13, <2>1, <2>2 DEF Concerns
<1>15. BoxesOf(box', loaded', c.mails)
  <2>1. /\ box \in [Players -> Mailboxes]
        /\ \A q \in Players : /\ \A l \in DOMAIN box[q] : l.to = q
                              /\ q \notin loaded => DOMAIN box[q] = {}
                              /\ q \in loaded => box[q] \sqsubseteq Planned.mails
    BY <1>4 DEF BoxesOf
  <2>2. EmptyBag \in Mailboxes /\ DOMAIN EmptyBag = {}
    BY EmptyMailbox
  <2>3. /\ box' \in [Players -> Mailboxes] /\ box'[p] = EmptyBag
        /\ \A q \in Players : q # p => box'[q] = box[q]
    BY <1>1, <2>1, <2>2
  <2>4. p \notin loaded' /\ \A q \in Players : q # p => (q \in loaded <=> q \in loaded')
    BY <1>1
  <2>5. \A q \in Players : /\ \A l \in DOMAIN box'[q] : l.to = q
                           /\ q \notin loaded' => DOMAIN box'[q] = {}
                           /\ q \in loaded' => box'[q] \sqsubseteq c.mails
    BY <1>6, <2>1, <2>2, <2>3, <2>4
  <2> QED
    BY <2>3, <2>5 DEF BoxesOf
<1>16. /\ nextAuction' \in 1..(MaxAuctions + 1) /\ nextAuction <= nextAuction'
       /\ \A i \in 1..Len(cs) : Sound(cs[i], nextAuction')
       /\ auctions' = c.auctions /\ aItems' = ItemsOf(c.auctions)
  BY <1>1, <1>4, <1>5, <1>6, <1>8, <1>12
<1>17. Commits(cs)
  BY <1>1, <1>2
<1>18. AuctionInv' /\ Planned' = c
  <2>1. world' = world /\ crashes' = crashes
    BY <1>1
  <2>2. /\ session' \in [Players -> {"offline", "loading", "online"}]
        /\ purse' \in [Players -> Nat] /\ bag' \in [Players -> SUBSET Units]
    BY <1>9
  <2>3. cs \in Seq(Contents) /\ cs # << >> /\ c = cs[Len(cs)]
    BY <1>8
  <2> QED
    BY <1>3, <2>1, <2>2, <2>3, <1>10, <1>11, <1>14, <1>15, <1>16, <1>17, RunningStep
<1> QED
  BY <1>1, <1>6, <1>7, <1>18

-----------------------------------------------------------------------------
(* The process ends and starts.                                            *)

\* With nothing waiting, there is one store.
LEMMA EmptyQueue ==
    ASSUME MemoryType, queue = << >>
    PROVE  /\ Len(queue) = 0 /\ At(0) = disk /\ Planned = disk /\ \A j \in 0..Len(queue) : j = 0
<1>1. Len(queue) = 0 /\ \A j \in 0..Len(queue) : j = 0
  OBVIOUS
<1> QED
  BY <1>1, SeenFirst, PlannedIsAt DEF At

LEMMA CrashStep ==
    ASSUME AuctionInv, Crash
    PROVE  AuctionInv' /\ world' = "down" /\ crashes' # 0 /\ Planned' = At(0)
<1>1. /\ world = "running" /\ crashes < MaxCrashes
      /\ world' = "down" /\ crashes' = crashes + 1 /\ queue' = << >> /\ disk' = disk
      /\ auctions' = NoAuctions /\ aItems' = {} /\ nextAuction' = nextAuction
      /\ session' = [p \in Players |-> "offline"] /\ purse' = [p \in Players |-> 0]
      /\ bag' = [p \in Players |-> {}] /\ loaded' = {} /\ box' = [p \in Players |-> EmptyBag]
  BY DEF Crash, QueueLost, Offline
<1>2. MemoryType /\ StoresSound
  BY DEF AuctionInv
<1>3. /\ MaxCrashes \in Nat /\ MaxQueue \in Nat /\ crashes \in 0..MaxCrashes
      /\ nextAuction \in 1..(MaxAuctions + 1)
  BY <1>2, AuctionAssumption DEF MemoryType
<1>4. Len(queue') = 0 /\ \A j \in 0..Len(queue') : j = 0
  BY <1>1
<1>5. AtNext(0) = disk /\ At(0) = disk /\ Planned' = disk
  BY <1>1, <1>4, SeenFirst, PlannedPrime DEF AtNext, At
<1>6. Sound(disk, nextAuction)
  <2>1. 0 \in 0..Len(queue)
    BY <1>2 DEF MemoryType
  <2> QED
    BY <1>2, <1>5, <2>1 DEF StoresSound
<1>7. MemoryType'
  <2>1. auctions' \in Houses
    BY <1>1, NoHouse
  <2>2. queue' \in Seq(Operations) /\ Len(queue') <= MaxQueue
    BY <1>1, <1>3, <1>4
  <2>3. /\ crashes' \in 0..MaxCrashes /\ nextAuction' \in 1..(MaxAuctions + 1)
    BY <1>1, <1>3
  <2>4. /\ session' \in [Players -> {"offline", "loading", "online"}]
        /\ purse' \in [Players -> Nat] /\ bag' \in [Players -> SUBSET Units]
        /\ loaded' \in SUBSET Players /\ aItems' \in SUBSET (SUBSET Units)
        /\ world' \in {"running", "down"}
    BY <1>1
  <2> QED
    BY <2>1, <2>2, <2>3, <2>4 DEF MemoryType
<1>8. StoresSound'
  BY <1>1, <1>4, <1>5, <1>6, StoresPrime
<1>9. BoxesRight'
  <2>1. EmptyBag \in Mailboxes /\ DOMAIN EmptyBag = {}
    BY EmptyMailbox
  <2>2. /\ box' \in [Players -> Mailboxes]
        /\ \A p \in Players : box'[p] = EmptyBag /\ p \notin loaded'
    BY <1>1, <2>1
  <2> QED
    BY <1>1, <2>1, <2>2 DEF BoxesRight, BoxesOf
<1>10. DownIsEmpty'
  BY <1>1 DEF DownIsEmpty
<1>11. LoadsRight' /\ UnreadRight'
  <2>1. LoadsRight'
    BY <1>4, LoadsPrime
  <2>2. \A q \in Players : session'[q] # "online"
    BY <1>1
  <2> QED
    BY <2>1, <2>2, UnreadPrime
<1>12. InMemory'
  BY <1>1 DEF InMemory
<1> QED
  BY <1>1, <1>3, <1>5, <1>7, <1>8, <1>9, <1>10, <1>11, <1>12 DEF AuctionInv

LEMMA LoadAuctionsStep ==
    ASSUME AuctionInv, LoadAuctions
    PROVE  AuctionInv' /\ Planned' = Planned /\ world = "down"
<1>1. /\ world = "down" /\ world' = "running"
      /\ auctions' = disk.auctions /\ aItems' = ItemsOf(disk.auctions)
      /\ UNCHANGED <<disk, queue>>
      /\ disk' = disk /\ queue' = queue /\ session' = session /\ purse' = purse /\ bag' = bag
      /\ loaded' = loaded /\ box' = box /\ nextAuction' = nextAuction /\ crashes' = crashes
  BY DEF LoadAuctions, dbVars, playerVars, mailVars, ItemsOf
<1>2. MemoryType /\ StoresSound /\ BoxesRight /\ DownIsEmpty /\ LoadsRight /\ UnreadRight
  BY DEF AuctionInv
<1>3. queue = << >> /\ \A p \in Players : session[p] = "offline"
  BY <1>1, <1>2 DEF DownIsEmpty
<1>4. Planned = disk
  BY <1>2, <1>3, EmptyQueue
<1>5. StoresSound' /\ LoadsRight' /\ UnreadRight' /\ Planned' = Planned
  BY <1>1, <1>2, SameViews
<1>6. disk.auctions \in Houses
  <2>1. 0 \in 0..Len(queue) /\ At(0) = disk
    BY <1>2, <1>3, EmptyQueue
  <2> QED
    BY <1>2, <2>1, ContentsType DEF StoresSound, Sound
<1>7. MemoryType'
  <2>1. ItemsOf(disk.auctions) \in SUBSET (SUBSET Units)
    BY <1>6, HouseType DEF ItemsOf, Range, Offers, Auction
  <2> QED
    BY <1>1, <1>2, <1>6, <2>1 DEF MemoryType
<1>8. BoxesRight'
  BY <1>1, <1>2, <1>5 DEF BoxesRight, BoxesOf
<1>9. DownIsEmpty'
  BY <1>1 DEF DownIsEmpty
<1>10. InMemory'
  <2>1. \A p \in Players : session'[p] # "online"
    BY <1>1, <1>3
  <2> QED
    BY <1>1, <1>4, <1>5, <2>1 DEF InMemory, ItemsOf
<1> QED
  BY <1>1, <1>5, <1>7, <1>8, <1>9, <1>10 DEF AuctionInv

LEMMA NothingStep ==
    ASSUME AuctionInv, UNCHANGED vars
    PROVE  AuctionInv' /\ Planned' = Planned
<1>1. /\ disk' = disk /\ queue' = queue /\ world' = world /\ auctions' = auctions
      /\ aItems' = aItems /\ session' = session /\ purse' = purse /\ bag' = bag
      /\ loaded' = loaded /\ box' = box /\ nextAuction' = nextAuction /\ crashes' = crashes
      /\ UNCHANGED <<disk, queue>>
  BY DEF vars, dbVars, playerVars, mailVars
<1>2. MemoryType /\ StoresSound /\ BoxesRight /\ DownIsEmpty /\ LoadsRight /\ UnreadRight
      /\ InMemory
  BY DEF AuctionInv
<1>3. StoresSound' /\ LoadsRight' /\ UnreadRight' /\ Planned' = Planned
  BY <1>1, <1>2, SameViews
<1>4. MemoryType' /\ DownIsEmpty'
  BY <1>1, <1>2 DEF MemoryType, DownIsEmpty
<1>5. BoxesRight' /\ InMemory'
  BY <1>1, <1>2, <1>3 DEF BoxesRight, BoxesOf, InMemory
<1> QED
  BY <1>3, <1>4, <1>5 DEF AuctionInv

-----------------------------------------------------------------------------
(* The beginning.                                                          *)

LEMMA AtFirst ==
    ASSUME Init
    PROVE  AuctionInv /\ Planned = disk /\ \A j \in 0..Len(queue) : At(j) = disk
<1>1. PICK p \in Players :
          disk = [gold |-> [q \in Players |-> StartGold],
                  bag |-> [q \in Players |-> IF q = p THEN Units ELSE {}],
                  auctions |-> NoAuctions, mails |-> EmptyBag,
                  fees |-> 0, moving |-> {}]
  BY DEF Init
<1>2. /\ queue = << >> /\ world = "running" /\ auctions = NoAuctions /\ aItems = {}
      /\ session = [q \in Players |-> "offline"] /\ purse = [q \in Players |-> 0]
      /\ bag = [q \in Players |-> {}] /\ loaded = {} /\ box = [q \in Players |-> EmptyBag]
      /\ nextAuction = 1 /\ crashes = 0
  BY DEF Init
<1>3. /\ StartGold \in Nat /\ MaxQueue \in Nat /\ MaxAuctions \in Nat /\ MaxCrashes \in Nat
  BY AuctionAssumption
<1>4. NoAuctions \in Houses /\ DOMAIN NoAuctions = {} /\ EmptyBag \in Mailboxes /\ DOMAIN EmptyBag = {}
  BY NoHouse, EmptyMailbox
<1>5. /\ disk.auctions = NoAuctions /\ disk.mails = EmptyBag /\ disk \in Contents
  BY <1>1, <1>3, <1>4 DEF Contents
<1>6. MemoryType
  <2>1. queue \in Seq(Operations) /\ Len(queue) <= MaxQueue
    BY <1>2, <1>3
  <2>2. nextAuction \in 1..(MaxAuctions + 1) /\ crashes \in 0..MaxCrashes
    BY <1>2, <1>3
  <2> QED
    BY <1>2, <1>4, <2>1, <2>2 DEF MemoryType
<1>7. Len(queue) = 0 /\ At(0) = disk /\ Planned = disk /\ \A j \in 0..Len(queue) : j = 0
  BY <1>2, <1>6, EmptyQueue
<1>8. Sound(disk, nextAuction)
  BY <1>4, <1>5 DEF Sound
<1>9. StoresSound
  BY <1>7, <1>8 DEF StoresSound
<1>10. BoxesRight
  BY <1>2, <1>4 DEF BoxesRight, BoxesOf
<1>11. DownIsEmpty
  BY <1>2 DEF DownIsEmpty
<1>12. LoadsRight /\ UnreadRight
  BY <1>2, <1>7 DEF LoadsRight, UnreadRight
<1>13. InMemory
  <2>1. aItems = {a.units : a \in Range(auctions)}
    BY <1>2, <1>4 DEF Range
  <2> QED
    BY <1>2, <1>5, <1>7, <2>1 DEF InMemory
<1> QED
  BY <1>6, <1>7, <1>9, <1>10, <1>11, <1>12, <1>13 DEF AuctionInv

-----------------------------------------------------------------------------
(* What letters and auctions are worth: weights for units and for gold.    *)

Weights == {w \in [Posted -> Int] : \A l \in Posted : ~Filled(l) => w[l] = 0}
Values == [Offers -> Int]

Stake(v, as) == SumFunctionOnSet([id \in DOMAIN as |-> v[as[id]]], DOMAIN as)

LEMMA MassInt ==
    ASSUME NEW w \in Weights, NEW m \in Mailboxes
    PROVE  Mass(w, m) \in Int
<1>1. IsABag(m) /\ IsFiniteSet(DOMAIN m) /\ DOMAIN m \subseteq Posted
  BY MailboxType
<1>2. \A l \in DOMAIN m : w[l] \in Int
  BY <1>1 DEF Weights
<1> QED
  BY <1>1, <1>2, MassType

LEMMA WeightInt ==
    ASSUME NEW w \in Weights, NEW L \in SUBSET Posted, IsFiniteSet(L)
    PROVE  (\A l \in L : w[l] \in Int) /\ SumFunctionOnSet(w, L) \in Int
<1>1. \A l \in L : w[l] \in Int
  BY DEF Weights
<1> QED
  BY <1>1, SumType

LEMMA MassWithLetters ==
    ASSUME NEW w \in Weights, NEW m \in Mailboxes, NEW L \in SUBSET Posted, IsFiniteSet(L),
           NEW more, more = m (+) Sent(L)
    PROVE  Mass(w, more) = Mass(w, m) + SumFunctionOnSet(w, L)
<1>1. IsABag(m) /\ IsFiniteSet(DOMAIN m) /\ DOMAIN m \subseteq Posted
  BY MailboxType
<1>2. Sent(L) \in Mailboxes
  BY MailboxSent
<1>3. IsABag(Sent(L)) /\ IsFiniteSet(DOMAIN Sent(L)) /\ DOMAIN Sent(L) \subseteq Posted
  BY <1>2, MailboxType
<1>4. \A l \in Posted : w[l] \in Int /\ (~Filled(l) => w[l] = 0)
  BY DEF Weights
<1>5. \A l \in DOMAIN m \cup DOMAIN Sent(L) : w[l] \in Int
  BY <1>1, <1>3, <1>4
<1>6. Mass(w, m (+) Sent(L)) = Mass(w, m) + Mass(w, Sent(L))
  BY <1>1, <1>3, <1>5, MassOfSum
<1>7. (\A l \in L : w[l] \in Int) /\ (\A l \in L : ~Filled(l) => w[l] = 0)
  BY <1>4
<1>8. Mass(w, Sent(L)) = SumFunctionOnSet(w, L)
  BY <1>7, MassSent
<1> QED
  BY <1>6, <1>8

LEMMA MassOfRewritten ==
    ASSUME NEW w \in Weights, NEW m \in Mailboxes, NEW k \in DOMAIN m,
           NEW now \in SUBSET Posted, IsFiniteSet(now),
           NEW after, after = Rewritten(m, k, now)
    PROVE  /\ k \in Posted
           /\ Mass(w, after) = (Mass(w, m) - w[k]) + SumFunctionOnSet(w, now)
<1>1. IsABag(m) /\ IsFiniteSet(DOMAIN m) /\ DOMAIN m \subseteq Posted
  BY MailboxType
<1>2. \A l \in Posted : w[l] \in Int /\ (~Filled(l) => w[l] = 0)
  BY DEF Weights
<1>3. \A l \in DOMAIN m \cup now : w[l] \in Int
  BY <1>1, <1>2
<1>4. \A l \in now : ~Filled(l) => w[l] = 0
  BY <1>2
<1> QED
  BY <1>1, <1>3, <1>4, MassRewritten

\* Weights that are nowhere negative.
LEMMA MassNatural ==
    ASSUME NEW w \in Weights, \A l \in Posted : w[l] \in Nat, NEW m \in Mailboxes
    PROVE  /\ Mass(w, m) \in Nat
           /\ \A l \in DOMAIN m : w[l] <= Mass(w, m)
           /\ \A l \in DOMAIN m : m[l] > 1 => w[l] + w[l] <= Mass(w, m)
           /\ \A l, k \in DOMAIN m : l # k => w[l] + w[k] <= Mass(w, m)
<1>1. IsABag(m) /\ IsFiniteSet(DOMAIN m) /\ DOMAIN m \subseteq Posted
  BY MailboxType
<1> DEFINE f == [l \in DOMAIN m |-> w[l] * m[l]]
<1>2. \A l \in DOMAIN m : m[l] \in Nat /\ m[l] >= 1 /\ w[l] \in Nat
  BY <1>1 DEF IsABag
<1>3. \A n \in Nat, k \in Nat : k >= 1 => n * k \in Nat /\ n <= n * k
  <2>1. SUFFICES ASSUME NEW n \in Nat, NEW k \in Nat, k >= 1 PROVE n * k \in Nat /\ n <= n * k
    OBVIOUS
  <2>2. PICK j \in Nat : k = j + 1
    <3>1. k - 1 \in Nat /\ k = (k - 1) + 1
      BY <2>1
    <3> QED BY <3>1
  <2>3. n * k = n * j + n /\ n * j \in Nat
    BY <2>2
  <2> QED
    BY <2>3
<1>4. \A n \in Nat, k \in Nat : k > 1 => n + n <= n * k
  <2>1. SUFFICES ASSUME NEW n \in Nat, NEW k \in Nat, k > 1 PROVE n + n <= n * k
    OBVIOUS
  <2>2. PICK j \in Nat : k = j + 2
    <3>1. k - 2 \in Nat /\ k = (k - 2) + 2
      BY <2>1
    <3> QED BY <3>1
  <2>3. n * k = n * j + (n + n) /\ n * j \in Nat
    BY <2>2
  <2> QED
    BY <2>3
<1>5. \A l \in DOMAIN m : f[l] = w[l] * m[l] /\ f[l] \in Nat /\ w[l] <= f[l]
                          /\ (m[l] > 1 => w[l] + w[l] <= f[l])
  BY <1>2, <1>3, <1>4
<1>6. Mass(w, m) = SumFunctionOnSet(f, DOMAIN m)
  BY DEF Mass
<1> HIDE DEF f
<1>7. /\ Mass(w, m) \in Nat /\ \A l \in DOMAIN m : f[l] <= Mass(w, m)
      /\ \A l, k \in DOMAIN m : l # k => f[l] + f[k] <= Mass(w, m)
  BY <1>1, <1>5, <1>6, SumNatural
<1> QED
  BY <1>2, <1>5, <1>7

LEMMA HouseFinite == ASSUME NEW as \in Houses PROVE IsFiniteSet(DOMAIN as)
<1>1. DOMAIN as \subseteq 1..MaxAuctions /\ MaxAuctions \in Nat
  BY HouseType, AuctionAssumption
<1>2. IsFiniteSet(1..MaxAuctions)
  BY <1>1, FS_Interval
<1> QED
  BY <1>1, <1>2, FS_Subset

LEMMA ValueInt ==
    ASSUME NEW v \in Values, NEW as \in Houses, NEW id \in DOMAIN as
    PROVE  v[as[id]] \in Int
BY OfferType DEF Values

LEMMA StakeInt ==
    ASSUME NEW v \in Values, NEW as \in Houses
    PROVE  Stake(v, as) \in Int
<1> DEFINE f == [id \in DOMAIN as |-> v[as[id]]]
<1>1. \A id \in DOMAIN as : f[id] \in Int
  BY ValueInt
<1>2. IsFiniteSet(DOMAIN as)
  BY HouseFinite
<1>3. Stake(v, as) = SumFunctionOnSet(f, DOMAIN as)
  BY DEF Stake
<1> HIDE DEF f
<1> QED
  BY <1>1, <1>2, <1>3, SumType

LEMMA StakeNatural ==
    ASSUME NEW v \in Values, \A a \in Offers : v[a] \in Nat, NEW as \in Houses
    PROVE  /\ Stake(v, as) \in Nat
           /\ \A id \in DOMAIN as : v[as[id]] <= Stake(v, as)
           /\ \A i, k \in DOMAIN as : i # k => v[as[i]] + v[as[k]] <= Stake(v, as)
<1> DEFINE f == [id \in DOMAIN as |-> v[as[id]]]
<1>1. \A id \in DOMAIN as : f[id] \in Nat /\ f[id] = v[as[id]]
  BY OfferType
<1>2. IsFiniteSet(DOMAIN as)
  BY HouseFinite
<1>3. Stake(v, as) = SumFunctionOnSet(f, DOMAIN as)
  BY DEF Stake
<1> HIDE DEF f
<1>4. /\ SumFunctionOnSet(f, DOMAIN as) \in Nat
      /\ \A id \in DOMAIN as : f[id] <= SumFunctionOnSet(f, DOMAIN as)
      /\ \A i, k \in DOMAIN as : i # k => f[i] + f[k] <= SumFunctionOnSet(f, DOMAIN as)
  BY <1>1, <1>2, SumNatural
<1> QED
  BY <1>1, <1>3, <1>4

LEMMA StakeWithout ==
    ASSUME NEW v \in Values, NEW as \in Houses, NEW id \in DOMAIN as,
           NEW rest, rest = Without(as, id)
    PROVE  Stake(v, rest) = Stake(v, as) - v[as[id]]
<1> DEFINE f == [i \in DOMAIN as |-> v[as[i]]]
           g == [i \in DOMAIN rest |-> v[rest[i]]]
           D == DOMAIN as \ {id}
<1>1. /\ rest \in Houses /\ \A i : i \in DOMAIN rest <=> i \in DOMAIN as /\ i # id
      /\ \A i \in DOMAIN rest : rest[i] = as[i]
  BY HouseWithout
<1>2. DOMAIN rest = D
  BY <1>1
<1>3. IsFiniteSet(DOMAIN as) /\ IsFiniteSet(D)
  BY <1>1, <1>2, HouseFinite
<1>4. \A i \in DOMAIN as : f[i] \in Int
  BY ValueInt
<1>5. f[id] = v[as[id]] /\ \A i \in D : f[i] = g[i]
  BY <1>1, <1>2
<1>6. Stake(v, as) = SumFunctionOnSet(f, DOMAIN as) /\ Stake(v, rest) = SumFunctionOnSet(g, D)
  BY <1>2 DEF Stake
<1>7. D = DOMAIN as \ {id} /\ D \subseteq DOMAIN as
  OBVIOUS
<1> HIDE DEF f, g, D
<1>8. SumFunctionOnSet(f, D) = SumFunctionOnSet(g, D)
  BY <1>3, <1>5, SumEqual
<1>9. SumFunctionOnSet(f, DOMAIN as) = f[id] + SumFunctionOnSet(f, D)
  BY <1>3, <1>4, <1>7, SumWithout
<1>10. SumFunctionOnSet(f, D) \in Int /\ f[id] \in Int
  BY <1>3, <1>4, <1>7, SumType
<1> DEFINE x == f[id]
           y == SumFunctionOnSet(f, D)
<1>11. x \in Int /\ y \in Int /\ Stake(v, as) = x + y /\ Stake(v, rest) = y /\ v[as[id]] = x
  BY <1>5, <1>6, <1>8, <1>9, <1>10
<1>12. y = (x + y) - x
  <2> HIDE DEF x, y
  <2> QED
    BY <1>11
<1> HIDE DEF x, y
<1> QED
  BY <1>11, <1>12

LEMMA StakeWith ==
    ASSUME NEW v \in Values, NEW as \in Houses, NEW id \in 1..MaxAuctions, id \notin DOMAIN as,
           NEW a \in Offers, NEW more, more = AddAuction(as, id, a)
    PROVE  Stake(v, more) = Stake(v, as) + v[a]
<1>1. /\ more \in Houses /\ more[id] = a /\ \A i \in DOMAIN as : more[i] = as[i]
      /\ \A i : i \in DOMAIN more <=> i \in DOMAIN as \/ i = id
  <2>1. more \in Houses
    BY HouseWith
  <2>2. more = [i \in DOMAIN as \cup {id} |-> IF i = id THEN a ELSE as[i]]
    BY DEF AddAuction
  <2> QED
    BY <2>1, <2>2
<1>2. id \in DOMAIN more
  BY <1>1
<1>3. as = Without(more, id)
  <2> DEFINE rest == Without(more, id)
  <2>1. rest = [i \in DOMAIN more \ {id} |-> more[i]]
    BY DEF Without, Restrict
  <2>2. as = [i \in DOMAIN as |-> as[i]]
    BY HouseType
  <2>3. DOMAIN more \ {id} = DOMAIN as
    BY <1>1
  <2> QED
    BY <1>1, <2>1, <2>2, <2>3
<1>4. Stake(v, as) = Stake(v, more) - v[more[id]]
  BY <1>1, <1>2, <1>3, StakeWithout
<1>5. Stake(v, more) \in Int /\ v[more[id]] \in Int
  BY <1>1, <1>2, StakeInt, ValueInt
<1> DEFINE x == v[a]
           y == Stake(v, more)
<1>6. x \in Int /\ y \in Int /\ Stake(v, as) = y - x
  BY <1>1, <1>4, <1>5
<1>7. y = (y - x) + x
  <2> HIDE DEF x, y
  <2> QED
    BY <1>6
<1> HIDE DEF x, y
<1>8. y = Stake(v, as) + x
  BY <1>6, <1>7
<1> QED
  BY <1>8 DEF x, y

LEMMA StakeInstead ==
    ASSUME NEW v \in Values, NEW as \in Houses, NEW id \in DOMAIN as,
           NEW a \in Offers, NEW now, now = Instead(as, id, a)
    PROVE  Stake(v, now) = (Stake(v, as) - v[as[id]]) + v[a]
<1>1. /\ now \in Houses /\ DOMAIN now = DOMAIN as
      /\ now[id] = a /\ \A i \in DOMAIN as : i # id => now[i] = as[i]
  <2>1. now \in Houses
    BY HouseChanged
  <2>2. as \in [DOMAIN as -> Offers] /\ now = [as EXCEPT ![id] = a]
    BY HouseType DEF Instead
  <2> QED
    BY <2>1, <2>2
<1> DEFINE D == DOMAIN as
           f == [i \in D |-> v[as[i]]]
           g == [i \in D |-> v[now[i]]]
<1>2. IsFiniteSet(D) /\ id \in D
  BY HouseFinite
<1>3. \A i \in D : f[i] \in Int /\ g[i] \in Int
  BY <1>1, ValueInt
<1>4. f[id] = v[as[id]] /\ g[id] = v[a] /\ \A i \in D : i # id => f[i] = g[i]
  BY <1>1
<1>5. Stake(v, as) = SumFunctionOnSet(f, D) /\ Stake(v, now) = SumFunctionOnSet(g, D)
  BY <1>1 DEF Stake
<1> HIDE DEF f, g, D
<1>6. \A i \in D \ {id} : f[i] = g[i]
  BY <1>4
<1>7. SumFunctionOnSet(g, D) = SumFunctionOnSet(f, D) - f[id] + g[id]
  BY <1>2, <1>3, <1>6, SumChanged
<1> QED
  BY <1>4, <1>5, <1>7

-----------------------------------------------------------------------------
(* Sums over sets of letters.                                              *)

LEMMA SumUnion ==
    ASSUME NEW K, IsFiniteSet(K), NEW L, IsFiniteSet(L), \A x \in K : x \notin L,
           NEW f, \A x \in K \cup L : f[x] \in Int
    PROVE  SumFunctionOnSet(f, K \cup L) = SumFunctionOnSet(f, K) + SumFunctionOnSet(f, L)
<1> DEFINE S == K \cup L
           g == [x \in S |-> IF x \in K THEN f[x] ELSE 0]
           h == [x \in S |-> IF x \in L THEN f[x] ELSE 0]
<1>1. IsFiniteSet(S) /\ K \subseteq S /\ L \subseteq S
  BY FS_Union
<1>2. \A x \in S : g[x] \in Int /\ h[x] \in Int /\ f[x] = g[x] + h[x]
  OBVIOUS
<1>3. /\ \A x \in S \ K : g[x] = 0
      /\ \A x \in S \ L : h[x] = 0
      /\ \A x \in K : g[x] = f[x]
      /\ \A x \in L : h[x] = f[x]
  OBVIOUS
<1>4. S = K \cup L
  OBVIOUS
<1> HIDE DEF S, g, h
<1>5. SumFunctionOnSet(f, S) = SumFunctionOnSet(g, S) + SumFunctionOnSet(h, S)
  BY <1>1, <1>2, SumAdded
<1>6. SumFunctionOnSet(g, S) = SumFunctionOnSet(g, K)
  <2>1. \A x \in S : g[x] \in Int
    BY <1>2
  <2> QED
    BY <1>1, <1>3, <2>1, SumOfSome
<1>7. SumFunctionOnSet(h, S) = SumFunctionOnSet(h, L)
  <2>1. \A x \in S : h[x] \in Int
    BY <1>2
  <2> QED
    BY <1>1, <1>3, <2>1, SumOfSome
<1>8. SumFunctionOnSet(g, K) = SumFunctionOnSet(f, K)
  BY <1>3, SumEqual
<1>9. SumFunctionOnSet(h, L) = SumFunctionOnSet(f, L)
  BY <1>3, SumEqual
<1> QED
  BY <1>4, <1>5, <1>6, <1>7, <1>8, <1>9

-----------------------------------------------------------------------------
(* How often a unit is in a store, and the gold there is.                  *)

LetterHas(u) == [l \in Posted |-> Among(u, l.units)]
OfferHas(u) == [a \in Offers |-> Among(u, a.units)]
LetterGold == [l \in Posted |-> l.money]
OfferGold == [a \in Offers |-> a.bid + a.deposit]

BagsWith(b, u) == SumFunctionOnSet([p \in Players |-> Among(u, b[p])], Players)

UnitsOf(d, u) ==
    BagsWith(d.bag, u) + Stake(OfferHas(u), d.auctions) + Mass(LetterHas(u), d.mails)
    + Among(u, d.moving)
GoldOf(d) ==
    SumFunctionOnSet(d.gold, Players) + Mass(LetterGold, d.mails) + d.fees
    + Stake(OfferGold, d.auctions)

LEMMA AmongNat == \A u, units : /\ Among(u, units) \in Nat
                                /\ Among(u, units) = 1 <=> u \in units
                                /\ Among(u, units) = 0 <=> u \notin units
BY DEF Among

LEMMA HasWeights ==
    ASSUME NEW u
    PROVE  /\ LetterHas(u) \in Weights /\ \A l \in Posted : LetterHas(u)[l] \in Nat
           /\ \A l \in Posted : LetterHas(u)[l] = Among(u, l.units)
           /\ OfferHas(u) \in Values /\ \A a \in Offers : OfferHas(u)[a] \in Nat
           /\ \A a \in Offers : OfferHas(u)[a] = Among(u, a.units)
<1>1. \A l \in Posted : LetterHas(u)[l] = Among(u, l.units) /\ LetterHas(u)[l] \in Nat
  BY AmongNat DEF LetterHas
<1>2. \A a \in Offers : OfferHas(u)[a] = Among(u, a.units) /\ OfferHas(u)[a] \in Nat
  BY AmongNat DEF OfferHas
<1>3. LetterHas(u) \in [Posted -> Int] /\ OfferHas(u) \in [Offers -> Int]
  <2>1. \A l \in Posted : Among(u, l.units) \in Int
    BY AmongNat
  <2>2. \A a \in Offers : Among(u, a.units) \in Int
    BY AmongNat
  <2> QED
    BY <2>1, <2>2 DEF LetterHas, OfferHas
<1>4. \A l \in Posted : ~Filled(l) => LetterHas(u)[l] = 0
  BY <1>1 DEF Filled, Among
<1> QED
  BY <1>1, <1>2, <1>3, <1>4 DEF Weights, Values

LEMMA GoldWeights ==
    /\ LetterGold \in Weights /\ \A l \in Posted : LetterGold[l] = l.money
    /\ OfferGold \in Values /\ \A a \in Offers : OfferGold[a] = a.bid + a.deposit
<1>1. \A l \in Posted : l.money \in Nat
  BY LetterType
<1>2. \A a \in Offers : a.bid \in Nat /\ a.deposit \in Nat
  BY AuctionType DEF Offers
<1>3. LetterGold \in [Posted -> Int] /\ OfferGold \in [Offers -> Int]
  <2>1. \A l \in Posted : l.money \in Int
    BY <1>1
  <2>2. \A a \in Offers : a.bid + a.deposit \in Int
    BY <1>2
  <2> QED
    BY <2>1, <2>2 DEF LetterGold, OfferGold
<1>4. \A l \in Posted : ~Filled(l) => LetterGold[l] = 0
  BY <1>1 DEF Filled, LetterGold
<1> QED
  BY <1>3, <1>4 DEF Weights, Values, LetterGold, OfferGold

LEMMA BagsNatural ==
    ASSUME NEW b \in [Players -> SUBSET Units], NEW u
    PROVE  /\ BagsWith(b, u) \in Nat
           /\ \A p \in Players : Among(u, b[p]) <= BagsWith(b, u)
           /\ \A p, q \in Players : p # q => Among(u, b[p]) + Among(u, b[q]) <= BagsWith(b, u)
<1> DEFINE f == [p \in Players |-> Among(u, b[p])]
<1>1. IsFiniteSet(Players)
  BY AuctionAssumption
<1>2. \A p \in Players : f[p] = Among(u, b[p]) /\ f[p] \in Nat
  BY AmongNat
<1>3. BagsWith(b, u) = SumFunctionOnSet(f, Players)
  BY DEF BagsWith
<1> HIDE DEF f
<1>4. /\ SumFunctionOnSet(f, Players) \in Nat
      /\ \A p \in Players : f[p] <= SumFunctionOnSet(f, Players)
      /\ \A p, q \in Players : p # q => f[p] + f[q] <= SumFunctionOnSet(f, Players)
  BY <1>1, <1>2, SumNatural
<1> QED
  BY <1>2, <1>3, <1>4

LEMMA BagsInstead ==
    ASSUME NEW b \in [Players -> SUBSET Units], NEW p \in Players, NEW units, NEW u,
           NEW c, c = Instead(b, p, units)
    PROVE  BagsWith(c, u) = (BagsWith(b, u) - Among(u, b[p])) + Among(u, units)
<1> DEFINE f == [q \in Players |-> Among(u, b[q])]
           g == [q \in Players |-> Among(u, c[q])]
<1>1. IsFiniteSet(Players)
  BY AuctionAssumption
<1>2. \A q \in Players : f[q] \in Int /\ g[q] \in Int
  BY AmongNat
<1>3. c[p] = units /\ \A q \in Players : q # p => c[q] = b[q]
  BY DEF Instead
<1>4. f[p] = Among(u, b[p]) /\ g[p] = Among(u, units) /\ \A q \in Players : q # p => f[q] = g[q]
  BY <1>3
<1>5. BagsWith(b, u) = SumFunctionOnSet(f, Players) /\ BagsWith(c, u) = SumFunctionOnSet(g, Players)
  BY DEF BagsWith
<1> HIDE DEF f, g
<1>6. \A q \in Players \ {p} : f[q] = g[q]
  BY <1>4
<1>7. SumFunctionOnSet(g, Players) = SumFunctionOnSet(f, Players) - f[p] + g[p]
  BY <1>1, <1>2, <1>6, SumChanged
<1> QED
  BY <1>4, <1>5, <1>7

LEMMA PursesInt ==
    ASSUME NEW g \in [Players -> Nat]
    PROVE  SumFunctionOnSet(g, Players) \in Int
<1>1. IsFiniteSet(Players) /\ \A q \in Players : g[q] \in Int
  BY AuctionAssumption
<1> QED
  BY <1>1, SumType

LEMMA PursesInstead ==
    ASSUME NEW g \in [Players -> Nat], NEW p \in Players, NEW x \in Nat,
           NEW h, h = Instead(g, p, x)
    PROVE  SumFunctionOnSet(h, Players) = (SumFunctionOnSet(g, Players) - g[p]) + x
<1>1. IsFiniteSet(Players)
  BY AuctionAssumption
<1>2. h[p] = x /\ \A q \in Players : q # p => h[q] = g[q]
  BY DEF Instead
<1>3. \A q \in Players : g[q] \in Int /\ h[q] \in Int
  BY <1>2
<1>4. \A q \in Players \ {p} : g[q] = h[q]
  BY <1>2
<1>5. SumFunctionOnSet(h, Players) = SumFunctionOnSet(g, Players) - g[p] + h[p]
  BY <1>1, <1>3, <1>4, SumChanged
<1> QED
  BY <1>2, <1>5

\* The parts of the two sums.
LEMMA UnitParts ==
    ASSUME NEW d \in Contents, NEW u
    PROVE  /\ BagsWith(d.bag, u) \in Nat /\ Stake(OfferHas(u), d.auctions) \in Nat
           /\ Mass(LetterHas(u), d.mails) \in Nat /\ Among(u, d.moving) \in Nat
<1>1. /\ d.bag \in [Players -> SUBSET Units] /\ d.auctions \in Houses /\ d.mails \in Mailboxes
  BY ContentsType
<1> QED
  BY <1>1, BagsNatural, AmongNat, HasWeights, StakeNatural, MassNatural

LEMMA GoldParts ==
    ASSUME NEW d \in Contents
    PROVE  /\ SumFunctionOnSet(d.gold, Players) \in Int /\ Mass(LetterGold, d.mails) \in Int
           /\ d.fees \in Int /\ Stake(OfferGold, d.auctions) \in Int
<1>1. /\ d.gold \in [Players -> Nat] /\ d.auctions \in Houses /\ d.mails \in Mailboxes
      /\ d.fees \in Int
  BY ContentsType
<1> QED
  BY <1>1, PursesInt, GoldWeights, StakeInt, MassInt

-----------------------------------------------------------------------------
(* A unit that is in the store once is in one place only.                  *)

LEMMA InABag ==
    ASSUME NEW d \in Contents, NEW u, UnitsOf(d, u) = 1, NEW p \in Players, u \in d.bag[p]
    PROVE  /\ u \notin d.moving /\ \A q \in Players : u \in d.bag[q] => q = p
           /\ \A id \in DOMAIN d.auctions : u \notin d.auctions[id].units
           /\ \A l \in DOMAIN d.mails : u \notin l.units
<1>1. /\ d.bag \in [Players -> SUBSET Units] /\ d.auctions \in Houses /\ d.mails \in Mailboxes
  BY ContentsType
<1> DEFINE B == BagsWith(d.bag, u)
           S == Stake(OfferHas(u), d.auctions)
           M == Mass(LetterHas(u), d.mails)
           V == Among(u, d.moving)
<1>2. B \in Nat /\ S \in Nat /\ M \in Nat /\ V \in Nat /\ B + S + M + V = 1
  BY UnitParts DEF UnitsOf
<1>3. /\ \A q \in Players : Among(u, d.bag[q]) <= B
      /\ \A q, r \in Players : q # r => Among(u, d.bag[q]) + Among(u, d.bag[r]) <= B
  BY <1>1, BagsNatural
<1>4. \A id \in DOMAIN d.auctions : Among(u, d.auctions[id].units) <= S
  BY <1>1, HasWeights, StakeNatural, OfferType
<1>5. \A l \in DOMAIN d.mails : Among(u, l.units) <= M
  <2>1. DOMAIN d.mails \subseteq Posted
    BY <1>1, MailboxType
  <2> QED
    BY <1>1, <2>1, HasWeights, MassNatural
<1> HIDE DEF B, S, M
<1>6. Among(u, d.bag[p]) = 1
  BY AmongNat
<1>7. B = 1 /\ S = 0 /\ M = 0 /\ V = 0
  <2>1. 1 <= B
    BY <1>3, <1>6
  <2> HIDE DEF V
  <2> QED
    BY <1>2, <2>1
<1>8. \A q \in Players : u \in d.bag[q] => q = p
  <2>1. SUFFICES ASSUME NEW q \in Players, u \in d.bag[q], q # p PROVE FALSE
    OBVIOUS
  <2>2. Among(u, d.bag[q]) = 1
    BY <2>1, AmongNat
  <2> QED
    BY <1>3, <1>6, <1>7, <2>1, <2>2
<1>9. \A units : Among(u, units) <= 0 => u \notin units
  BY DEF Among
<1>10. V <= 0
  BY <1>7
<1> QED
  BY <1>4, <1>5, <1>7, <1>8, <1>9, <1>10

LEMMA InAnAuction ==
    ASSUME NEW d \in Contents, NEW u, UnitsOf(d, u) = 1,
           NEW k \in DOMAIN d.auctions, u \in d.auctions[k].units
    PROVE  /\ \A q \in Players : u \notin d.bag[q]
           /\ \A id \in DOMAIN d.auctions : u \in d.auctions[id].units => id = k
           /\ \A l \in DOMAIN d.mails : u \notin l.units
<1>1. /\ d.bag \in [Players -> SUBSET Units] /\ d.auctions \in Houses /\ d.mails \in Mailboxes
  BY ContentsType
<1> DEFINE B == BagsWith(d.bag, u)
           S == Stake(OfferHas(u), d.auctions)
           M == Mass(LetterHas(u), d.mails)
           V == Among(u, d.moving)
<1>2. B \in Nat /\ S \in Nat /\ M \in Nat /\ V \in Nat /\ B + S + M + V = 1
  BY UnitParts DEF UnitsOf
<1>3. \A q \in Players : Among(u, d.bag[q]) <= B
  BY <1>1, BagsNatural
<1>4. /\ \A id \in DOMAIN d.auctions : Among(u, d.auctions[id].units) <= S
      /\ \A i, j \in DOMAIN d.auctions :
           i # j => Among(u, d.auctions[i].units) + Among(u, d.auctions[j].units) <= S
  <2>1. \A i \in DOMAIN d.auctions : OfferHas(u)[d.auctions[i]] = Among(u, d.auctions[i].units)
    BY <1>1, HasWeights, OfferType
  <2>2. /\ \A i \in DOMAIN d.auctions : OfferHas(u)[d.auctions[i]] <= S
        /\ \A i, j \in DOMAIN d.auctions :
             i # j => OfferHas(u)[d.auctions[i]] + OfferHas(u)[d.auctions[j]] <= S
    BY <1>1, HasWeights, StakeNatural
  <2> QED
    BY <2>1, <2>2
<1>5. \A l \in DOMAIN d.mails : Among(u, l.units) <= M
  <2>1. DOMAIN d.mails \subseteq Posted
    BY <1>1, MailboxType
  <2> QED
    BY <1>1, <2>1, HasWeights, MassNatural
<1> HIDE DEF B, S, M
<1>6. Among(u, d.auctions[k].units) = 1
  BY AmongNat
<1>7. B = 0 /\ S = 1 /\ M = 0
  <2>1. 1 <= S
    BY <1>4, <1>6
  <2> HIDE DEF V
  <2> QED
    BY <1>2, <2>1
<1>8. \A i \in DOMAIN d.auctions : u \in d.auctions[i].units => i = k
  <2>1. SUFFICES ASSUME NEW i \in DOMAIN d.auctions, u \in d.auctions[i].units, i # k PROVE FALSE
    OBVIOUS
  <2>2. Among(u, d.auctions[i].units) = 1
    BY <2>1, AmongNat
  <2> QED
    BY <1>4, <1>6, <1>7, <2>1, <2>2
<1>9. \A units : Among(u, units) <= 0 => u \notin units
  BY DEF Among
<1> QED
  BY <1>3, <1>5, <1>7, <1>8, <1>9

LEMMA InALetter ==
    ASSUME NEW d \in Contents, NEW u, UnitsOf(d, u) = 1,
           NEW k \in DOMAIN d.mails, u \in k.units
    PROVE  /\ \A q \in Players : u \notin d.bag[q]
           /\ \A id \in DOMAIN d.auctions : u \notin d.auctions[id].units
           /\ \A l \in DOMAIN d.mails : u \in l.units => l = k
<1>1. /\ d.bag \in [Players -> SUBSET Units] /\ d.auctions \in Houses /\ d.mails \in Mailboxes
  BY ContentsType
<1> DEFINE B == BagsWith(d.bag, u)
           S == Stake(OfferHas(u), d.auctions)
           M == Mass(LetterHas(u), d.mails)
           V == Among(u, d.moving)
<1>2. B \in Nat /\ S \in Nat /\ M \in Nat /\ V \in Nat /\ B + S + M + V = 1
  BY UnitParts DEF UnitsOf
<1>3. \A q \in Players : Among(u, d.bag[q]) <= B
  BY <1>1, BagsNatural
<1>4. \A id \in DOMAIN d.auctions : Among(u, d.auctions[id].units) <= S
  BY <1>1, HasWeights, StakeNatural, OfferType
<1>5. /\ \A l \in DOMAIN d.mails : Among(u, l.units) <= M
      /\ \A i, j \in DOMAIN d.mails : i # j => Among(u, i.units) + Among(u, j.units) <= M
  <2>1. \A l \in DOMAIN d.mails : LetterHas(u)[l] = Among(u, l.units)
    BY <1>1, HasWeights, MailboxType
  <2>2. /\ \A l \in DOMAIN d.mails : LetterHas(u)[l] <= M
        /\ \A i, j \in DOMAIN d.mails : i # j => LetterHas(u)[i] + LetterHas(u)[j] <= M
    BY <1>1, HasWeights, MassNatural
  <2> QED
    BY <2>1, <2>2
<1> HIDE DEF B, S, M
<1>6. Among(u, k.units) = 1
  BY AmongNat
<1>7. B = 0 /\ S = 0 /\ M = 1
  <2>1. 1 <= M
    BY <1>5, <1>6
  <2> HIDE DEF V
  <2> QED
    BY <1>2, <2>1
<1>8. \A l \in DOMAIN d.mails : u \in l.units => l = k
  <2>1. SUFFICES ASSUME NEW l \in DOMAIN d.mails, u \in l.units, l # k PROVE FALSE
    OBVIOUS
  <2>2. Among(u, l.units) = 1
    BY <2>1, AmongNat
  <2> QED
    BY <1>5, <1>6, <1>7, <2>1, <2>2
<1>9. \A units : Among(u, units) <= 0 => u \notin units
  BY DEF Among
<1> QED
  BY <1>3, <1>4, <1>7, <1>8, <1>9

-----------------------------------------------------------------------------
(* What a transaction does to the sums, from one store to the next.        *)

\* A sum grows by a number, which may be negative; four numbers cancel out.
Grows(x, y, by) == y = x + by
CancelOut(k, l, m, n) == k \in Int /\ l \in Int /\ m \in Int /\ n \in Int /\ k + l + m + n = 0

LEMMA UnitsChange ==
    ASSUME NEW d \in Contents, NEW e \in Contents, NEW u,
           NEW b, NEW s, NEW m, NEW v, CancelOut(b, s, m, v),
           Grows(BagsWith(d.bag, u), BagsWith(e.bag, u), b),
           Grows(Stake(OfferHas(u), d.auctions), Stake(OfferHas(u), e.auctions), s),
           Grows(Mass(LetterHas(u), d.mails), Mass(LetterHas(u), e.mails), m),
           Grows(Among(u, d.moving), Among(u, e.moving), v)
    PROVE  UnitsOf(e, u) = UnitsOf(d, u)
<1> DEFINE B == BagsWith(d.bag, u)
           S == Stake(OfferHas(u), d.auctions)
           M == Mass(LetterHas(u), d.mails)
           V == Among(u, d.moving)
<1>1. B \in Int /\ S \in Int /\ M \in Int /\ V \in Int
  BY UnitParts
<1>2. UnitsOf(d, u) = B + S + M + V /\ UnitsOf(e, u) = (B + b) + (S + s) + (M + m) + (V + v)
  BY DEF UnitsOf, Grows
<1> HIDE DEF B, S, M, V
<1> QED
  BY <1>1, <1>2 DEF CancelOut

LEMMA GoldChange ==
    ASSUME NEW d \in Contents, NEW e \in Contents,
           NEW g, NEW s, NEW m, NEW f, CancelOut(g, s, m, f),
           Grows(SumFunctionOnSet(d.gold, Players), SumFunctionOnSet(e.gold, Players), g),
           Grows(Stake(OfferGold, d.auctions), Stake(OfferGold, e.auctions), s),
           Grows(Mass(LetterGold, d.mails), Mass(LetterGold, e.mails), m),
           Grows(d.fees, e.fees, f)
    PROVE  GoldOf(e) = GoldOf(d)
<1> DEFINE G == SumFunctionOnSet(d.gold, Players)
           S == Stake(OfferGold, d.auctions)
           M == Mass(LetterGold, d.mails)
           F == d.fees
<1>1. G \in Int /\ S \in Int /\ M \in Int /\ F \in Int
  BY GoldParts
<1>2. GoldOf(d) = G + M + F + S /\ GoldOf(e) = (G + g) + (M + m) + (F + f) + (S + s)
  BY DEF GoldOf, Grows
<1> HIDE DEF G, S, M, F
<1> QED
  BY <1>1, <1>2 DEF CancelOut

\* Units leave or join an inventory.
LEMMA BagsLess ==
    ASSUME NEW b \in [Players -> SUBSET Units], NEW p \in Players, NEW units, units \subseteq b[p],
           NEW kept, kept = b[p] \ units, NEW u, NEW c, c = Instead(b, p, kept)
    PROVE  BagsWith(c, u) = BagsWith(b, u) - Among(u, units)
<1>1. BagsWith(c, u) = (BagsWith(b, u) - Among(u, b[p])) + Among(u, kept)
  BY BagsInstead
<1>2. Among(u, b[p]) = Among(u, kept) + Among(u, units)
  BY DEF Among
<1>3. BagsWith(b, u) \in Int /\ Among(u, kept) \in Int /\ Among(u, units) \in Int
  BY BagsNatural, AmongNat
<1> DEFINE x == Among(u, kept)
           y == Among(u, units)
           z == BagsWith(b, u)
<1> HIDE DEF x, y, z
<1>4. z - y = (z - (x + y)) + x
  BY <1>3 DEF x, y, z
<1> QED
  BY <1>1, <1>2, <1>4 DEF x, y, z

LEMMA BagsMore ==
    ASSUME NEW b \in [Players -> SUBSET Units], NEW p \in Players, NEW x, x \notin b[p],
           NEW units, units = b[p] \cup {x}, NEW u, NEW c, c = Instead(b, p, units)
    PROVE  BagsWith(c, u) = BagsWith(b, u) + Among(u, {x})
<1>1. BagsWith(c, u) = (BagsWith(b, u) - Among(u, b[p])) + Among(u, units)
  BY BagsInstead
<1>2. Among(u, units) = Among(u, b[p]) + Among(u, {x})
  BY DEF Among
<1>3. BagsWith(b, u) \in Int /\ Among(u, b[p]) \in Int /\ Among(u, {x}) \in Int
  BY BagsNatural, AmongNat
<1> DEFINE r == Among(u, b[p])
           y == Among(u, {x})
           z == BagsWith(b, u)
<1> HIDE DEF r, y, z
<1>4. z + y = (z - r) + (r + y)
  BY <1>3 DEF r, y, z
<1> QED
  BY <1>1, <1>2, <1>4 DEF r, y, z

\* The sums over the letters that are sent.
LEMMA OneSum ==
    ASSUME NEW w \in Weights, NEW l \in Posted
    PROVE  SumFunctionOnSet(w, {l}) = w[l]
<1>1. w[l] \in Int
  BY DEF Weights
<1> QED
  BY <1>1, SumOne

LEMMA TwoSums ==
    ASSUME NEW w \in Weights, NEW K \in SUBSET Posted, IsFiniteSet(K),
           NEW L \in SUBSET Posted, IsFiniteSet(L), \A k \in K, l \in L : k.to # l.to,
           NEW N, N = K \cup L
    PROVE  SumFunctionOnSet(w, N) = SumFunctionOnSet(w, K) + SumFunctionOnSet(w, L)
<1>1. \A k \in K : k \notin L
  OBVIOUS
<1>2. \A l \in K \cup L : w[l] \in Int
  BY DEF Weights
<1> QED
  BY <1>1, <1>2, SumUnion

\* The mails about an auction: what they are worth.
LEMMA SuccessfulSum ==
    ASSUME NEW a \in Offers, NEW w \in Weights,
           NEW l, l = Mail(a.owner, House, (a.bid + a.deposit - AuctionCut(a.bid)) % Word, {}, 0)
    PROVE  /\ SuccessfulMail(a) = {l} /\ l \in Posted
           /\ SumFunctionOnSet(w, SuccessfulMail(a)) = w[l]
<1>1. SuccessfulMail(a) = {l}
  BY DEF SuccessfulMail
<1>2. SuccessfulMail(a) \in SUBSET Posted
  BY SuccessfulPosted
<1>3. l \in Posted
  BY <1>1, <1>2
<1> QED
  BY <1>1, <1>3, OneSum

LEMMA BidderSum ==
    ASSUME NEW a \in Offers, a.bidder # NoOne, NEW w \in Weights,
           NEW l, l = Mail(a.bidder, House, a.bid, {}, 0)
    PROVE  /\ BidderMail(a) = {l} /\ l \in Posted
           /\ SumFunctionOnSet(w, BidderMail(a)) = w[l]
<1>1. BidderMail(a) = {l}
  BY DEF BidderMail
<1>2. BidderMail(a) \in SUBSET Posted
  BY BidderPosted
<1>3. l \in Posted
  BY <1>1, <1>2
<1> QED
  BY <1>1, <1>3, OneSum

LEMMA WonSum ==
    ASSUME NEW a \in Offers, a.bidder # NoOne, a.units \in aItems, NEW w \in Weights,
           NEW l, l = Mail(a.bidder, House, 0, a.units, 0)
    PROVE  /\ WonMail(a) = {l} /\ l \in Posted
           /\ SumFunctionOnSet(w, WonMail(a)) = w[l]
<1>1. WonMail(a) = {l}
  BY DEF WonMail
<1>2. WonMail(a) \in SUBSET Posted
  BY ItemPosted
<1>3. l \in Posted
  BY <1>1, <1>2
<1> QED
  BY <1>1, <1>3, OneSum

LEMMA ExpiredSum ==
    ASSUME NEW a \in Offers, a.units \in aItems, NEW w \in Weights,
           NEW l, l = Mail(a.owner, House, 0, a.units, 0)
    PROVE  /\ ExpiredMail(a) = {l} /\ l \in Posted
           /\ SumFunctionOnSet(w, ExpiredMail(a)) = w[l]
<1>1. ExpiredMail(a) = {l}
  BY DEF ExpiredMail
<1>2. ExpiredMail(a) \in SUBSET Posted
  BY ItemPosted
<1>3. l \in Posted
  BY <1>1, <1>2
<1> QED
  BY <1>1, <1>3, OneSum

\* The letter to the owner of what is sold, and to who has bought it.
ProfitOf(a) == (a.bid + a.deposit - AuctionCut(a.bid)) % Word
PaidLetter(a) == Mail(a.owner, House, ProfitOf(a), {}, 0)
WonLetter(a) == Mail(a.bidder, House, 0, a.units, 0)
BackLetter(a) == Mail(a.owner, House, 0, a.units, 0)
RefundLetter(a) == Mail(a.bidder, House, a.bid, {}, 0)

LEMMA SettlementSum ==
    ASSUME NEW a \in Offers, a.units \in aItems, NEW w \in Weights
    PROVE  /\ a.bidder = NoOne =>
                /\ Settlement(a) = {BackLetter(a)} /\ BackLetter(a) \in Posted
                /\ SumFunctionOnSet(w, Settlement(a)) = w[BackLetter(a)]
           /\ a.bidder # NoOne =>
                /\ Settlement(a) = {PaidLetter(a), WonLetter(a)}
                /\ PaidLetter(a) \in Posted /\ WonLetter(a) \in Posted
                /\ SumFunctionOnSet(w, Settlement(a)) = w[PaidLetter(a)] + w[WonLetter(a)]
<1>1. ASSUME a.bidder = NoOne
      PROVE  /\ Settlement(a) = {BackLetter(a)} /\ BackLetter(a) \in Posted
             /\ SumFunctionOnSet(w, Settlement(a)) = w[BackLetter(a)]
  <2>1. Settlement(a) = ExpiredMail(a)
    BY <1>1 DEF Settlement
  <2> QED
    BY <2>1, ExpiredSum DEF BackLetter
<1>2. ASSUME a.bidder # NoOne
      PROVE  /\ Settlement(a) = {PaidLetter(a), WonLetter(a)}
             /\ PaidLetter(a) \in Posted /\ WonLetter(a) \in Posted
             /\ SumFunctionOnSet(w, Settlement(a)) = w[PaidLetter(a)] + w[WonLetter(a)]
  <2> DEFINE K == SuccessfulMail(a)
             L == WonMail(a)
             N == Settlement(a)
  <2>1. N = K \cup L
    BY <1>2 DEF Settlement
  <2>2. K = {PaidLetter(a)} /\ PaidLetter(a) \in Posted /\ SumFunctionOnSet(w, K) = w[PaidLetter(a)]
    BY SuccessfulSum DEF PaidLetter, ProfitOf
  <2>3. L = {WonLetter(a)} /\ WonLetter(a) \in Posted /\ SumFunctionOnSet(w, L) = w[WonLetter(a)]
    BY <1>2, WonSum DEF WonLetter
  <2>4. PaidLetter(a).to = a.owner /\ WonLetter(a).to = a.bidder /\ a.owner # a.bidder
    BY DEF PaidLetter, WonLetter, Mail, Offers
  <2>5. /\ K \in SUBSET Posted /\ IsFiniteSet(K) /\ L \in SUBSET Posted /\ IsFiniteSet(L)
        /\ \A k \in K, l \in L : k.to # l.to
    BY <2>2, <2>3, <2>4, OneLetter
  <2> HIDE DEF K, L, N
  <2>6. SumFunctionOnSet(w, N) = SumFunctionOnSet(w, K) + SumFunctionOnSet(w, L)
    BY <2>1, <2>5, TwoSums
  <2>7. SumFunctionOnSet(w, N) = w[PaidLetter(a)] + w[WonLetter(a)]
    BY <2>2, <2>3, <2>6
  <2>8. N = {PaidLetter(a), WonLetter(a)}
    BY <2>1, <2>2, <2>3
  <2> QED
    BY <2>2, <2>3, <2>7, <2>8 DEF N
<1> QED
  BY <1>1, <1>2

LEMMA RefundSum ==
    ASSUME NEW a \in Offers, NEW p, NEW w \in Weights
    PROVE  /\ a.bidder \in {NoOne, p} =>
                Refund(a, p) = {} /\ SumFunctionOnSet(w, Refund(a, p)) = 0
           /\ a.bidder \notin {NoOne, p} =>
                /\ Refund(a, p) = {RefundLetter(a)} /\ RefundLetter(a) \in Posted
                /\ SumFunctionOnSet(w, Refund(a, p)) = w[RefundLetter(a)]
<1>1. ASSUME a.bidder \in {NoOne, p}
      PROVE  Refund(a, p) = {} /\ SumFunctionOnSet(w, Refund(a, p)) = 0
  <2>1. Refund(a, p) = {}
    BY <1>1 DEF Refund
  <2> QED
    BY <2>1, SumEmpty
<1>2. ASSUME a.bidder \notin {NoOne, p}
      PROVE  /\ Refund(a, p) = {RefundLetter(a)} /\ RefundLetter(a) \in Posted
             /\ SumFunctionOnSet(w, Refund(a, p)) = w[RefundLetter(a)]
  <2>1. Refund(a, p) = BidderMail(a) /\ a.bidder # NoOne
    BY <1>2 DEF Refund
  <2> QED
    BY <2>1, BidderSum DEF RefundLetter
<1> QED
  BY <1>1, <1>2

LEMMA LetterWeights ==
    ASSUME NEW a, NEW u
    PROVE  /\ PaidLetter(a) \in Posted => /\ LetterHas(u)[PaidLetter(a)] = 0
                                          /\ LetterGold[PaidLetter(a)] = ProfitOf(a)
           /\ WonLetter(a) \in Posted => /\ LetterHas(u)[WonLetter(a)] = Among(u, a.units)
                                         /\ LetterGold[WonLetter(a)] = 0
           /\ BackLetter(a) \in Posted => /\ LetterHas(u)[BackLetter(a)] = Among(u, a.units)
                                          /\ LetterGold[BackLetter(a)] = 0
           /\ RefundLetter(a) \in Posted => /\ LetterHas(u)[RefundLetter(a)] = 0
                                            /\ LetterGold[RefundLetter(a)] = a.bid
<1>1. /\ PaidLetter(a).units = {} /\ PaidLetter(a).money = ProfitOf(a)
      /\ WonLetter(a).units = a.units /\ WonLetter(a).money = 0
      /\ BackLetter(a).units = a.units /\ BackLetter(a).money = 0
      /\ RefundLetter(a).units = {} /\ RefundLetter(a).money = a.bid
  BY DEF PaidLetter, WonLetter, BackLetter, RefundLetter, Mail
<1>2. Among(u, {}) = 0
  BY DEF Among
<1>3. /\ \A l \in Posted : LetterHas(u)[l] = Among(u, l.units)
      /\ \A l \in Posted : LetterGold[l] = l.money
  BY HasWeights, GoldWeights
<1> QED
  BY <1>1, <1>2, <1>3

LEMMA ProfitIs ==
    ASSUME ProfitsFit, NEW a \in Offers, a.bidder # NoOne
    PROVE  ProfitOf(a) = a.bid + a.deposit - AuctionCut(a.bid) /\ a.bid \in Nat /\ a.bid # 0
           /\ a.deposit = Deposit /\ a.bid \in (Prices \cup Buyouts) \ {0} /\ AuctionCut(a.bid) \in Nat
<1>1. /\ a.bid \in Nat /\ a.bid \in Prices \cup Buyouts \cup {0} /\ a.deposit = Deposit
      /\ a.bid # 0
  BY AuctionType DEF Offers
<1>2. AuctionCut(a.bid) \in Nat
  BY <1>1, CutType
<1>3. a.bid + a.deposit - AuctionCut(a.bid) \in 0..(Word - 1)
  BY <1>1 DEF ProfitsFit
<1>4. Word \in Nat \ {0}
  BY AuctionAssumption
<1>5. \A x \in 0..(Word - 1) : x % Word = x
  BY <1>4
<1> QED
  BY <1>1, <1>2, <1>3, <1>5 DEF ProfitOf

LEMMA SettlementUnits ==
    ASSUME NEW a \in Offers, a.units \in aItems, NEW u
    PROVE  SumFunctionOnSet(LetterHas(u), Settlement(a)) = Among(u, a.units)
<1>1. LetterHas(u) \in Weights
  BY HasWeights
<1>2. CASE a.bidder = NoOne
  BY <1>1, <1>2, SettlementSum, LetterWeights
<1>3. CASE a.bidder # NoOne
  <2>1. /\ PaidLetter(a) \in Posted /\ WonLetter(a) \in Posted
        /\ SumFunctionOnSet(LetterHas(u), Settlement(a))
             = LetterHas(u)[PaidLetter(a)] + LetterHas(u)[WonLetter(a)]
    BY <1>1, <1>3, SettlementSum
  <2>2. LetterHas(u)[PaidLetter(a)] = 0 /\ LetterHas(u)[WonLetter(a)] = Among(u, a.units)
    BY <2>1, LetterWeights
  <2>3. Among(u, a.units) \in Nat
    BY AmongNat
  <2> QED
    BY <2>1, <2>2, <2>3
<1> QED
  BY <1>2, <1>3

LEMMA SettlementGold ==
    ASSUME ProfitsFit, NEW a \in Offers, a.units \in aItems
    PROVE  SumFunctionOnSet(LetterGold, Settlement(a)) + Kept(a) = a.bid + a.deposit
<1>1. LetterGold \in Weights
  BY GoldWeights
<1>2. a.bid \in Nat /\ a.deposit \in Nat
  BY AuctionType DEF Offers
<1>3. CASE a.bidder = NoOne
  <2>1. BackLetter(a) \in Posted
        /\ SumFunctionOnSet(LetterGold, Settlement(a)) = LetterGold[BackLetter(a)]
    BY <1>1, <1>3, SettlementSum
  <2>2. LetterGold[BackLetter(a)] = 0
    BY <2>1, LetterWeights
  <2>3. a.bid = 0 /\ Kept(a) = a.deposit
    BY <1>3 DEF Offers, Kept
  <2> QED
    BY <1>2, <2>1, <2>2, <2>3
<1>4. CASE a.bidder # NoOne
  <2>1. /\ PaidLetter(a) \in Posted /\ WonLetter(a) \in Posted
        /\ SumFunctionOnSet(LetterGold, Settlement(a))
             = LetterGold[PaidLetter(a)] + LetterGold[WonLetter(a)]
    BY <1>1, <1>4, SettlementSum
  <2>2. LetterGold[PaidLetter(a)] = ProfitOf(a) /\ LetterGold[WonLetter(a)] = 0
    BY <2>1, LetterWeights
  <2>3. ProfitOf(a) = a.bid + a.deposit - AuctionCut(a.bid) /\ AuctionCut(a.bid) \in Nat
    BY <1>4, ProfitIs
  <2>4. Kept(a) = AuctionCut(a.bid)
    BY <1>4 DEF Kept
  <2> QED
    BY <1>2, <2>1, <2>2, <2>3, <2>4
<1> QED
  BY <1>3, <1>4

LEMMA RefundUnits ==
    ASSUME NEW a \in Offers, NEW p, NEW u
    PROVE  SumFunctionOnSet(LetterHas(u), Refund(a, p)) = 0
<1>1. LetterHas(u) \in Weights
  BY HasWeights
<1>2. CASE a.bidder \in {NoOne, p}
  BY <1>1, <1>2, RefundSum
<1>3. CASE a.bidder \notin {NoOne, p}
  BY <1>1, <1>3, RefundSum, LetterWeights
<1> QED
  BY <1>2, <1>3

\* Who bids pays what his bid exceeds the last one by; the last bidder, if he is
\* another, gets his bid back.
LEMMA RefundGold ==
    ASSUME NEW a \in Offers, NEW p \in Players, NEW paid \in Nat
    PROVE  /\ SumFunctionOnSet(LetterGold, Refund(a, p)) + paid = Cost(p, a, paid) + a.bid
           /\ Cost(p, a, paid) \in Int /\ SumFunctionOnSet(LetterGold, Refund(a, p)) \in Int
<1>1. LetterGold \in Weights
  BY GoldWeights
<1>2. a.bid \in Nat /\ NoOne \notin Players
  BY AuctionType, AuctionAssumption DEF Offers
<1>3. CASE a.bidder = NoOne
  <2>1. a.bid = 0 /\ Cost(p, a, paid) = paid
    BY <1>2, <1>3 DEF Offers, Cost
  <2>2. SumFunctionOnSet(LetterGold, Refund(a, p)) = 0
    BY <1>1, <1>3, RefundSum
  <2> QED
    BY <2>1, <2>2
<1>4. CASE a.bidder = p
  <2>1. Cost(p, a, paid) = paid - a.bid
    BY <1>4 DEF Cost
  <2>2. SumFunctionOnSet(LetterGold, Refund(a, p)) = 0
    BY <1>1, <1>4, RefundSum
  <2> QED
    BY <1>2, <2>1, <2>2
<1>5. CASE a.bidder \notin {NoOne, p}
  <2>1. Cost(p, a, paid) = paid
    BY <1>5 DEF Cost
  <2>2. RefundLetter(a) \in Posted
        /\ SumFunctionOnSet(LetterGold, Refund(a, p)) = LetterGold[RefundLetter(a)]
    BY <1>1, <1>5, RefundSum
  <2>3. LetterGold[RefundLetter(a)] = a.bid
    BY <2>2, LetterWeights
  <2> QED
    BY <1>2, <2>1, <2>2, <2>3
<1> QED
  BY <1>3, <1>4, <1>5

LEMMA BuyoutSum ==
    ASSUME NEW a \in Offers, NEW p \in Players, a.owner # p, NEW bidden \in Offers,
           bidden.bidder = p, bidden.owner = a.owner, bidden.units \in aItems,
           NEW w \in Weights, NEW L, L = BuyoutLetters(a, p, bidden)
    PROVE  SumFunctionOnSet(w, L)
             = SumFunctionOnSet(w, Refund(a, p)) + SumFunctionOnSet(w, Settlement(bidden))
<1> DEFINE K == Refund(a, p)
           N == Settlement(bidden)
<1>1. L = K \cup N
  BY DEF BuyoutLetters
<1>2. K \in SUBSET Posted /\ IsFiniteSet(K) /\ N \in SUBSET Posted /\ IsFiniteSet(N)
  BY RefundPosted, SettlementPosted
<1>3. p # NoOne
  BY AuctionAssumption
<1>4. N = {PaidLetter(bidden), WonLetter(bidden)}
  BY <1>3, SettlementSum
<1>5. \A l \in N : l.to \in {a.owner, p}
  BY <1>4 DEF PaidLetter, WonLetter, Mail
<1>6. \A k \in K : k.to \notin {a.owner, p}
  <2>1. CASE a.bidder \in {NoOne, p}
    BY <2>1, RefundSum
  <2>2. CASE a.bidder \notin {NoOne, p}
    <3>1. K = {RefundLetter(a)}
      BY <2>2, RefundSum
    <3>2. RefundLetter(a).to = a.bidder /\ a.bidder # a.owner
      BY DEF RefundLetter, Mail, Offers
    <3> QED BY <2>2, <3>1, <3>2
  <2> QED
    BY <2>1, <2>2
<1>7. \A k \in K, l \in N : k.to # l.to
  BY <1>5, <1>6
<1> HIDE DEF K, N
<1>8. SumFunctionOnSet(w, L) = SumFunctionOnSet(w, K) + SumFunctionOnSet(w, N)
  BY <1>1, <1>2, <1>7, TwoSums
<1> QED
  BY <1>8 DEF K, N

LEMMA CancelledSum ==
    ASSUME NEW a \in Offers, NEW w \in Weights, NEW L, L = Cancelled(a, a.owner)
    PROVE  /\ BackLetter(a) \in Posted
           /\ a.bidder = NoOne => L = {BackLetter(a)} /\ SumFunctionOnSet(w, L) = w[BackLetter(a)]
           /\ a.bidder # NoOne =>
                /\ L = {BackLetter(a), RefundLetter(a)} /\ RefundLetter(a) \in Posted
                /\ SumFunctionOnSet(w, L) = w[BackLetter(a)] + w[RefundLetter(a)]
<1> DEFINE K == {BackLetter(a)}
           N == IF a.bidder # NoOne THEN BidderMail(a) ELSE {}
<1>1. L = K \cup N
  BY DEF Cancelled, BackLetter
<1>2. BackLetter(a) \in Posted
  <2>1. a.units \in SUBSET Units /\ a.owner \in Players /\ House \notin Players /\ 0 \in Nat /\ ~(0 > 0)
    BY AuctionType, AuctionAssumption DEF Offers
  <2>2. 0 \in CodPrices \cup {0} /\ House \in Players \cup {House} /\ House # a.owner
    BY <2>1
  <2> QED
    BY <2>1, <2>2, MailPosted DEF BackLetter
<1>3. K \in SUBSET Posted /\ IsFiniteSet(K) /\ SumFunctionOnSet(w, K) = w[BackLetter(a)]
  BY <1>2, OneLetter, OneSum
<1>4. CASE a.bidder = NoOne
  <2>1. L = K
    BY <1>1, <1>4
  <2> HIDE DEF K
  <2>2. SumFunctionOnSet(w, L) = w[BackLetter(a)]
    BY <1>3, <2>1
  <2> QED
    BY <1>2, <1>4, <2>1, <2>2 DEF K
<1>5. CASE a.bidder # NoOne
  <2>1. N = {RefundLetter(a)} /\ RefundLetter(a) \in Posted
        /\ SumFunctionOnSet(w, N) = w[RefundLetter(a)]
    BY <1>5, BidderSum DEF RefundLetter
  <2>2. BackLetter(a).to = a.owner /\ RefundLetter(a).to = a.bidder /\ a.owner # a.bidder
    BY DEF BackLetter, RefundLetter, Mail, Offers
  <2>3. /\ N \in SUBSET Posted /\ IsFiniteSet(N)
        /\ \A k \in K, l \in N : k.to # l.to
    BY <2>1, <2>2, OneLetter
  <2>4. L = {BackLetter(a), RefundLetter(a)}
    BY <1>1, <2>1
  <2> HIDE DEF K, N
  <2>5. SumFunctionOnSet(w, L) = SumFunctionOnSet(w, K) + SumFunctionOnSet(w, N)
    BY <1>1, <1>3, <2>3, TwoSums
  <2> QED
    BY <1>2, <1>3, <1>5, <2>1, <2>4, <2>5
<1> QED
  BY <1>2, <1>4, <1>5

-----------------------------------------------------------------------------
(* From one store to the next nothing appears and nothing disappears.      *)

Balanced(d, e) ==
    /\ \A u \in Units : UnitsOf(d, u) = 1 => UnitsOf(e, u) = 1
    /\ ProfitsFit => GoldOf(e) = GoldOf(d)

LEMMA SoldBalance ==
    ASSUME NEW d \in Contents, NEW e \in Contents, NEW p \in Players, NEW units, units \subseteq d.bag[p],
           NEW offer \in Offers, offer.units = units, offer.bid = 0, offer.deposit = Deposit,
           NEW n \in 1..MaxAuctions, n \notin DOMAIN d.auctions,
           NEW gold \in Nat, gold = d.gold[p] - Deposit, NEW kept, kept = d.bag[p] \ units,
           e.gold = Instead(d.gold, p, gold), e.bag = Instead(d.bag, p, kept),
           e.auctions = AddAuction(d.auctions, n, offer), e.mails = d.mails,
           e.fees = d.fees, e.moving = d.moving
    PROVE  Balanced(d, e)
<1>1. /\ d.gold \in [Players -> Nat] /\ d.bag \in [Players -> SUBSET Units]
      /\ d.auctions \in Houses /\ d.mails \in Mailboxes
  BY ContentsType
<1>2. ASSUME NEW u PROVE UnitsOf(e, u) = UnitsOf(d, u)
  <2> DEFINE x == Among(u, units)
             b == 0 - x
  <2>1. x \in Int /\ CancelOut(b, x, 0, 0)
    BY AmongNat DEF CancelOut
  <2>2. BagsWith(e.bag, u) = BagsWith(d.bag, u) - x /\ BagsWith(d.bag, u) \in Int
    BY <1>1, BagsLess, BagsNatural
  <2>3. Stake(OfferHas(u), e.auctions) = Stake(OfferHas(u), d.auctions) + OfferHas(u)[offer]
    BY <1>1, HasWeights, StakeWith
  <2>4. OfferHas(u)[offer] = x
    BY HasWeights
  <2> HIDE DEF x
  <2>5. Grows(BagsWith(d.bag, u), BagsWith(e.bag, u), b)
    BY <2>1, <2>2 DEF Grows
  <2>6. /\ Grows(Mass(LetterHas(u), d.mails), Mass(LetterHas(u), e.mails), 0)
        /\ Grows(Among(u, d.moving), Among(u, e.moving), 0)
    BY UnitParts DEF Grows
  <2> HIDE DEF b
  <2>7. Grows(Stake(OfferHas(u), d.auctions), Stake(OfferHas(u), e.auctions), x)
    BY <2>3, <2>4 DEF Grows
  <2> QED
    BY <2>1, <2>5, <2>6, <2>7, UnitsChange
<1>3. GoldOf(e) = GoldOf(d)
  <2> DEFINE g == 0 - Deposit
  <2>1. Deposit \in Int /\ g \in Int /\ CancelOut(g, Deposit, 0, 0) /\ d.gold[p] \in Int
    BY <1>1, AuctionAssumption DEF CancelOut
  <2>2. SumFunctionOnSet(e.gold, Players) = (SumFunctionOnSet(d.gold, Players) - d.gold[p]) + gold
        /\ SumFunctionOnSet(d.gold, Players) \in Int
    BY <1>1, PursesInstead, PursesInt
  <2>3. Grows(SumFunctionOnSet(d.gold, Players), SumFunctionOnSet(e.gold, Players), g)
    BY <2>1, <2>2 DEF Grows
  <2>4. Stake(OfferGold, e.auctions) = Stake(OfferGold, d.auctions) + OfferGold[offer]
    BY <1>1, GoldWeights, StakeWith
  <2>5. OfferGold[offer] = Deposit
    BY <2>1, GoldWeights
  <2>6. /\ Grows(Mass(LetterGold, d.mails), Mass(LetterGold, e.mails), 0)
        /\ Grows(d.fees, e.fees, 0)
    BY GoldParts DEF Grows
  <2> HIDE DEF g
  <2>7. Grows(Stake(OfferGold, d.auctions), Stake(OfferGold, e.auctions), Deposit)
    BY <2>4, <2>5 DEF Grows
  <2> QED
    BY <2>1, <2>3, <2>6, <2>7, GoldChange
<1> QED
  BY <1>2, <1>3 DEF Balanced

\* The first transactions of a sale, which leave the units nowhere else.
LEMMA MovedBalance ==
    ASSUME NEW d \in Contents, NEW e \in Contents, NEW p \in Players, NEW units, units \subseteq d.bag[p],
           NEW kept, kept = d.bag[p] \ units, NEW moved, moved = d.moving \cup units,
           e.gold = d.gold, e.bag = Instead(d.bag, p, kept),
           e.auctions = d.auctions, e.mails = d.mails,
           e.fees = d.fees, e.moving = moved
    PROVE  Balanced(d, e)
<1>1. /\ d.gold \in [Players -> Nat] /\ d.bag \in [Players -> SUBSET Units]
      /\ d.auctions \in Houses /\ d.mails \in Mailboxes
  BY ContentsType
<1>2. ASSUME NEW u, UnitsOf(d, u) = 1 PROVE UnitsOf(e, u) = 1
  <2> DEFINE x == Among(u, units)
             b == 0 - x
  <2>1. x \in Int /\ b \in Int /\ CancelOut(b, 0, 0, x)
    BY AmongNat DEF CancelOut
  <2>2. BagsWith(e.bag, u) = BagsWith(d.bag, u) - x /\ BagsWith(d.bag, u) \in Int
    BY <1>1, BagsLess, BagsNatural
  <2>3. u \in units => u \notin d.moving
    BY <1>2, InABag
  <2>4. Grows(Among(u, d.moving), Among(u, e.moving), x)
    BY <2>3 DEF Among, Grows
  <2> HIDE DEF x
  <2>5. Grows(BagsWith(d.bag, u), BagsWith(e.bag, u), b)
    BY <2>1, <2>2 DEF Grows
  <2>6. /\ Grows(Mass(LetterHas(u), d.mails), Mass(LetterHas(u), e.mails), 0)
        /\ Grows(Stake(OfferHas(u), d.auctions), Stake(OfferHas(u), e.auctions), 0)
    BY UnitParts DEF Grows
  <2> HIDE DEF b
  <2>7. UnitsOf(e, u) = UnitsOf(d, u)
    BY <2>1, <2>4, <2>5, <2>6, UnitsChange
  <2> QED
    BY <1>2, <2>7
<1>3. GoldOf(e) = GoldOf(d)
  BY DEF GoldOf
<1> QED
  BY <1>2, <1>3 DEF Balanced

\* A bid that does not end the auction.
LEMMA RaisedBalance ==
    ASSUME NEW d \in Contents, NEW e \in Contents, NEW p \in Players,
           NEW id \in DOMAIN d.auctions, NEW a \in Offers, a = d.auctions[id],
           NEW bidden \in Offers, bidden.units = a.units, bidden.deposit = a.deposit,
           NEW price \in Nat, bidden.bid = price,
           NEW left \in Nat, left = d.gold[p] - Cost(p, a, price),
           NEW L \in SUBSET Posted, IsFiniteSet(L), L = Refund(a, p),
           e.gold = Instead(d.gold, p, left), e.bag = d.bag,
           e.auctions = Instead(d.auctions, id, bidden), e.mails = d.mails (+) Sent(L),
           e.fees = d.fees, e.moving = d.moving
    PROVE  Balanced(d, e)
<1>1. /\ d.gold \in [Players -> Nat] /\ d.bag \in [Players -> SUBSET Units]
      /\ d.auctions \in Houses /\ d.mails \in Mailboxes
  BY ContentsType
<1>2. ASSUME NEW u PROVE UnitsOf(e, u) = UnitsOf(d, u)
  <2>1. Stake(OfferHas(u), e.auctions)
          = (Stake(OfferHas(u), d.auctions) - OfferHas(u)[a]) + OfferHas(u)[bidden]
    BY <1>1, HasWeights, StakeInstead
  <2>2. OfferHas(u)[a] = OfferHas(u)[bidden] /\ OfferHas(u)[a] \in Nat
    BY HasWeights
  <2>3. Mass(LetterHas(u), e.mails) = Mass(LetterHas(u), d.mails) + SumFunctionOnSet(LetterHas(u), L)
    BY <1>1, HasWeights, MassWithLetters
  <2>4. SumFunctionOnSet(LetterHas(u), L) = 0
    BY RefundUnits
  <2>5. /\ BagsWith(d.bag, u) \in Int /\ Stake(OfferHas(u), d.auctions) \in Int
        /\ Mass(LetterHas(u), d.mails) \in Int
    BY UnitParts
  <2>6. /\ Mass(LetterHas(u), e.mails) = Mass(LetterHas(u), d.mails)
        /\ Stake(OfferHas(u), e.auctions) = Stake(OfferHas(u), d.auctions)
    BY <2>1, <2>2, <2>3, <2>4, <2>5
  <2> QED
    BY <2>6 DEF UnitsOf
<1>3. GoldOf(e) = GoldOf(d)
  <2> DEFINE c == Cost(p, a, price)
             r == SumFunctionOnSet(LetterGold, L)
             g == 0 - c
             s == price - a.bid
  <2>1. r + price = c + a.bid /\ c \in Int /\ r \in Int
    BY RefundGold
  <2>2. a.bid \in Nat /\ a.deposit \in Nat /\ d.gold[p] \in Int
    BY <1>1, AuctionType DEF Offers
  <2>3. SumFunctionOnSet(e.gold, Players) = (SumFunctionOnSet(d.gold, Players) - d.gold[p]) + left
        /\ SumFunctionOnSet(d.gold, Players) \in Int
    BY <1>1, PursesInstead, PursesInt
  <2>4. Stake(OfferGold, e.auctions) = (Stake(OfferGold, d.auctions) - OfferGold[a]) + OfferGold[bidden]
    BY <1>1, GoldWeights, StakeInstead
  <2>5. OfferGold[a] = a.bid + a.deposit /\ OfferGold[bidden] = price + a.deposit
    BY GoldWeights
  <2>6. Mass(LetterGold, e.mails) = Mass(LetterGold, d.mails) + r
    BY <1>1, GoldWeights, MassWithLetters
  <2>7. Stake(OfferGold, d.auctions) \in Int /\ d.fees \in Int
    BY GoldParts
  <2>8. left = d.gold[p] - c
    OBVIOUS
  <2> HIDE DEF c, r
  <2>9. CancelOut(g, s, r, 0) /\ Grows(d.fees, e.fees, 0)
    BY <2>1, <2>2, <2>7 DEF CancelOut, Grows
  <2>10. Grows(SumFunctionOnSet(d.gold, Players), SumFunctionOnSet(e.gold, Players), g)
    BY <2>1, <2>2, <2>3, <2>8 DEF Grows
  <2>11. Grows(Stake(OfferGold, d.auctions), Stake(OfferGold, e.auctions), s)
    BY <2>2, <2>4, <2>5, <2>7 DEF Grows
  <2>12. Grows(Mass(LetterGold, d.mails), Mass(LetterGold, e.mails), r)
    BY <2>6 DEF Grows
  <2> HIDE DEF g, s
  <2> QED
    BY <2>9, <2>10, <2>11, <2>12, GoldChange
<1> QED
  BY <1>2, <1>3 DEF Balanced

\* An auction ends: somebody pays, letters are sent and the house keeps a part.
LEMMA EndedBalance ==
    ASSUME NEW d \in Contents, NEW e \in Contents,
           NEW id \in DOMAIN d.auctions, NEW a \in Offers, a = d.auctions[id],
           NEW paid \in Int,
           SumFunctionOnSet(e.gold, Players) = SumFunctionOnSet(d.gold, Players) - paid,
           NEW L \in SUBSET Posted, IsFiniteSet(L), NEW fee \in Nat,
           \A u : SumFunctionOnSet(LetterHas(u), L) = Among(u, a.units),
           ProfitsFit => SumFunctionOnSet(LetterGold, L) + fee = a.bid + a.deposit + paid,
           e.bag = d.bag,
           e.auctions = Without(d.auctions, id), e.mails = d.mails (+) Sent(L),
           e.fees = d.fees + fee, e.moving = d.moving
    PROVE  Balanced(d, e)
<1>1. /\ d.gold \in [Players -> Nat] /\ d.bag \in [Players -> SUBSET Units]
      /\ d.auctions \in Houses /\ d.mails \in Mailboxes
  BY ContentsType
<1>2. ASSUME NEW u PROVE UnitsOf(e, u) = UnitsOf(d, u)
  <2> DEFINE x == Among(u, a.units)
             s == 0 - x
  <2>1. x \in Int /\ s \in Int /\ CancelOut(0, s, x, 0)
    BY AmongNat DEF CancelOut
  <2>2. Stake(OfferHas(u), e.auctions) = Stake(OfferHas(u), d.auctions) - OfferHas(u)[a]
        /\ OfferHas(u)[a] = x
    BY <1>1, HasWeights, StakeWithout
  <2>3. Mass(LetterHas(u), e.mails) = Mass(LetterHas(u), d.mails) + SumFunctionOnSet(LetterHas(u), L)
        /\ SumFunctionOnSet(LetterHas(u), L) = x
    BY <1>1, HasWeights, MassWithLetters
  <2>4. /\ BagsWith(d.bag, u) \in Int /\ Stake(OfferHas(u), d.auctions) \in Int
        /\ Mass(LetterHas(u), d.mails) \in Int /\ Among(u, d.moving) \in Int
    BY UnitParts
  <2> HIDE DEF x
  <2>5. /\ Grows(Stake(OfferHas(u), d.auctions), Stake(OfferHas(u), e.auctions), s)
        /\ Grows(Mass(LetterHas(u), d.mails), Mass(LetterHas(u), e.mails), x)
        /\ Grows(BagsWith(d.bag, u), BagsWith(e.bag, u), 0)
        /\ Grows(Among(u, d.moving), Among(u, e.moving), 0)
    BY <2>1, <2>2, <2>3, <2>4 DEF Grows
  <2> HIDE DEF s
  <2> QED
    BY <2>1, <2>5, UnitsChange
<1>3. ASSUME ProfitsFit PROVE GoldOf(e) = GoldOf(d)
  <2> DEFINE r == SumFunctionOnSet(LetterGold, L)
             g == 0 - paid
             s == 0 - (a.bid + a.deposit)
  <2>1. r \in Int /\ a.bid \in Nat /\ a.deposit \in Nat
    BY GoldWeights, WeightInt, AuctionType DEF Offers
  <2>2. r + fee = a.bid + a.deposit + paid
    BY <1>3
  <2>3. Stake(OfferGold, e.auctions) = Stake(OfferGold, d.auctions) - OfferGold[a]
        /\ OfferGold[a] = a.bid + a.deposit
    BY <1>1, GoldWeights, StakeWithout
  <2>4. Mass(LetterGold, e.mails) = Mass(LetterGold, d.mails) + r
    BY <1>1, GoldWeights, MassWithLetters
  <2>5. SumFunctionOnSet(d.gold, Players) \in Int /\ Stake(OfferGold, d.auctions) \in Int
    BY GoldParts
  <2> HIDE DEF r
  <2>6. CancelOut(g, s, r, fee) /\ Grows(d.fees, e.fees, fee)
    BY <2>1, <2>2 DEF CancelOut, Grows
  <2>7. /\ Grows(SumFunctionOnSet(d.gold, Players), SumFunctionOnSet(e.gold, Players), g)
        /\ Grows(Stake(OfferGold, d.auctions), Stake(OfferGold, e.auctions), s)
        /\ Grows(Mass(LetterGold, d.mails), Mass(LetterGold, e.mails), r)
    BY <2>1, <2>3, <2>4, <2>5 DEF Grows
  <2> HIDE DEF g, s
  <2> QED
    BY <2>6, <2>7, GoldChange
<1> QED
  BY <1>2, <1>3 DEF Balanced

LEMMA EmptiedIs ==
    ASSUME NEW l \in Posted
    PROVE  \E k \in Posted : /\ Emptied(l) = {k} /\ k.to = l.to /\ k.from = l.from
                             /\ k.units = l.units /\ k.cod = l.cod /\ k.money = 0
<1> DEFINE k == [l EXCEPT !.money = 0]
<1>1. /\ k.to = l.to /\ k.from = l.from /\ k.cod = l.cod /\ k.units = l.units /\ k.money = 0
      /\ Emptied(l) = {k}
  BY DEF Posted, Letter, Emptied
<1>2. k \in Posted
  BY EmptiedPosted, <1>1
<1> QED
  BY <1>1, <1>2

Lacking(units, u) == units \ {u}

LEMMA OpenedIs ==
    ASSUME NEW l \in Posted, NEW u
    PROVE  \E k \in Posted : /\ Opened(l, u) = {k} /\ k.to = l.to /\ k.from = l.from
                             /\ k.units = Lacking(l.units, u) /\ k.cod = 0 /\ k.money = l.money
<1> DEFINE k == [l EXCEPT !.units = @ \ {u}, !.cod = 0]
<1>1. /\ k.to = l.to /\ k.from = l.from /\ k.cod = 0 /\ k.units = Lacking(l.units, u)
      /\ k.money = l.money /\ Opened(l, u) = {k}
  BY DEF Posted, Letter, Opened, Lacking
<1>2. k \in Posted
  BY OpenedPosted, <1>1
<1> QED
  BY <1>1, <1>2

LEMMA PaymentSum ==
    ASSUME NEW l \in Posted, NEW p \in Players, l.to = p, NEW u
    PROVE  /\ SumFunctionOnSet(LetterHas(u), PaymentFor(l, p)) = 0
           /\ SumFunctionOnSet(LetterGold, PaymentFor(l, p)) = l.cod
<1>1. l.cod \in Nat /\ LetterHas(u) \in Weights /\ LetterGold \in Weights
  BY LetterType, HasWeights, GoldWeights
<1>2. CASE l.cod > 0
  <2> DEFINE k == Mail(l.from, p, l.cod, {}, 0)
  <2>1. PaymentFor(l, p) = {k} /\ k.units = {} /\ k.money = l.cod
    BY <1>2 DEF PaymentFor, Mail
  <2>2. k \in Posted
    BY <2>1, PaymentPosted
  <2> HIDE DEF k
  <2>3. LetterHas(u)[k] = 0 /\ LetterGold[k] = l.cod
    BY <2>1, <2>2, HasWeights, GoldWeights DEF Among
  <2> QED
    BY <1>1, <2>1, <2>2, <2>3, OneSum
<1>3. CASE ~(l.cod > 0)
  <2>1. PaymentFor(l, p) = {} /\ l.cod = 0
    BY <1>1, <1>3 DEF PaymentFor
  <2> QED
    BY <2>1, SumEmpty
<1> QED
  BY <1>2, <1>3

LEMMA SentBalance ==
    ASSUME NEW d \in Contents, NEW e \in Contents, NEW p \in Players, NEW units, units \subseteq d.bag[p],
           NEW l \in Posted, l.units = units, NEW L, L = {l},
           NEW postage \in Nat,
           NEW left \in Nat, left = d.gold[p] - (l.money + postage),
           NEW kept, kept = d.bag[p] \ units,
           e.gold = Instead(d.gold, p, left), e.bag = Instead(d.bag, p, kept),
           e.auctions = d.auctions, e.mails = d.mails (+) Sent(L),
           e.fees = d.fees + postage, e.moving = d.moving
    PROVE  Balanced(d, e)
<1>1. /\ d.gold \in [Players -> Nat] /\ d.bag \in [Players -> SUBSET Units]
      /\ d.auctions \in Houses /\ d.mails \in Mailboxes
      /\ L \in SUBSET Posted /\ IsFiniteSet(L)
  BY ContentsType, OneLetter
<1>2. ASSUME NEW u PROVE UnitsOf(e, u) = UnitsOf(d, u)
  <2> DEFINE x == Among(u, units)
             b == 0 - x
  <2>1. x \in Int /\ CancelOut(b, 0, x, 0)
    BY AmongNat DEF CancelOut
  <2>2. BagsWith(e.bag, u) = BagsWith(d.bag, u) - x /\ BagsWith(d.bag, u) \in Int
    BY <1>1, BagsLess, BagsNatural
  <2>3. Mass(LetterHas(u), e.mails) = Mass(LetterHas(u), d.mails) + SumFunctionOnSet(LetterHas(u), L)
    BY <1>1, HasWeights, MassWithLetters
  <2>4. SumFunctionOnSet(LetterHas(u), L) = x
    BY HasWeights, OneSum
  <2> HIDE DEF x
  <2>5. Grows(BagsWith(d.bag, u), BagsWith(e.bag, u), b)
    BY <2>1, <2>2 DEF Grows
  <2>6. /\ Grows(Stake(OfferHas(u), d.auctions), Stake(OfferHas(u), e.auctions), 0)
        /\ Grows(Among(u, d.moving), Among(u, e.moving), 0)
    BY UnitParts DEF Grows
  <2> HIDE DEF b
  <2>7. Grows(Mass(LetterHas(u), d.mails), Mass(LetterHas(u), e.mails), x)
    BY <2>3, <2>4 DEF Grows
  <2> QED
    BY <2>1, <2>5, <2>6, <2>7, UnitsChange
<1>3. GoldOf(e) = GoldOf(d)
  <2> DEFINE m == l.money
             g == 0 - (m + postage)
  <2>1. m \in Nat /\ d.gold[p] \in Int /\ d.fees \in Int
    BY <1>1, LetterType, GoldParts
  <2>2. SumFunctionOnSet(e.gold, Players) = (SumFunctionOnSet(d.gold, Players) - d.gold[p]) + left
        /\ SumFunctionOnSet(d.gold, Players) \in Int
    BY <1>1, PursesInstead, PursesInt
  <2>3. Mass(LetterGold, e.mails) = Mass(LetterGold, d.mails) + SumFunctionOnSet(LetterGold, L)
    BY <1>1, GoldWeights, MassWithLetters
  <2>4. SumFunctionOnSet(LetterGold, L) = m
    BY GoldWeights, OneSum
  <2>5. left = d.gold[p] - (m + postage)
    OBVIOUS
  <2> HIDE DEF m
  <2>6. CancelOut(g, 0, m, postage) /\ Grows(d.fees, e.fees, postage)
    BY <2>1 DEF CancelOut, Grows
  <2>7. Grows(SumFunctionOnSet(d.gold, Players), SumFunctionOnSet(e.gold, Players), g)
    BY <2>1, <2>2, <2>5 DEF Grows
  <2>8. Grows(Mass(LetterGold, d.mails), Mass(LetterGold, e.mails), m)
    BY <2>3, <2>4 DEF Grows
  <2>9. Grows(Stake(OfferGold, d.auctions), Stake(OfferGold, e.auctions), 0)
    BY GoldParts DEF Grows
  <2> HIDE DEF g
  <2> QED
    BY <2>6, <2>7, <2>8, <2>9, GoldChange
<1> QED
  BY <1>2, <1>3 DEF Balanced

LEMMA EmptiedBalance ==
    ASSUME NEW d \in Contents, NEW e \in Contents, NEW p \in Players,
           NEW l \in DOMAIN d.mails, NEW gold \in Nat, gold = d.gold[p] + l.money,
           NEW left, left = Emptied(l),
           e.gold = Instead(d.gold, p, gold), e.bag = d.bag,
           e.auctions = d.auctions, e.mails = Rewritten(d.mails, l, left),
           e.fees = d.fees, e.moving = d.moving
    PROVE  Balanced(d, e)
<1>1. /\ d.gold \in [Players -> Nat] /\ d.bag \in [Players -> SUBSET Units]
      /\ d.auctions \in Houses /\ d.mails \in Mailboxes
  BY ContentsType
<1>2. l \in Posted
  BY <1>1, MailboxType
<1>3. PICK k \in Posted : left = {k} /\ k.units = l.units /\ k.money = 0
  BY <1>2, EmptiedIs
<1>4. left \in SUBSET Posted /\ IsFiniteSet(left)
  BY <1>3, OneLetter
<1>5. ASSUME NEW u PROVE UnitsOf(e, u) = UnitsOf(d, u)
  <2>1. Mass(LetterHas(u), e.mails) = (Mass(LetterHas(u), d.mails) - LetterHas(u)[l])
                                       + SumFunctionOnSet(LetterHas(u), left)
    BY <1>1, <1>4, HasWeights, MassOfRewritten
  <2>2. SumFunctionOnSet(LetterHas(u), left) = LetterHas(u)[l] /\ LetterHas(u)[l] \in Nat
    BY <1>2, <1>3, HasWeights, OneSum
  <2>3. Mass(LetterHas(u), d.mails) \in Int
    BY UnitParts
  <2>4. Mass(LetterHas(u), e.mails) = Mass(LetterHas(u), d.mails)
    BY <2>1, <2>2, <2>3
  <2> QED
    BY <2>4 DEF UnitsOf
<1>6. GoldOf(e) = GoldOf(d)
  <2> DEFINE m == l.money
             n == 0 - m
  <2>1. m \in Nat /\ d.gold[p] \in Int /\ Mass(LetterGold, d.mails) \in Int
    BY <1>1, <1>2, LetterType, GoldParts
  <2>2. SumFunctionOnSet(e.gold, Players) = (SumFunctionOnSet(d.gold, Players) - d.gold[p]) + gold
        /\ SumFunctionOnSet(d.gold, Players) \in Int
    BY <1>1, PursesInstead, PursesInt
  <2>3. Mass(LetterGold, e.mails) = (Mass(LetterGold, d.mails) - LetterGold[l])
                                     + SumFunctionOnSet(LetterGold, left)
    BY <1>1, <1>4, GoldWeights, MassOfRewritten
  <2>4. SumFunctionOnSet(LetterGold, left) = 0 /\ LetterGold[l] = m
    BY <1>2, <1>3, GoldWeights, OneSum
  <2>5. gold = d.gold[p] + m
    OBVIOUS
  <2> HIDE DEF m
  <2>6. CancelOut(m, 0, n, 0)
    BY <2>1 DEF CancelOut
  <2>7. /\ Grows(SumFunctionOnSet(d.gold, Players), SumFunctionOnSet(e.gold, Players), m)
        /\ Grows(Mass(LetterGold, d.mails), Mass(LetterGold, e.mails), n)
    BY <2>1, <2>2, <2>3, <2>4, <2>5 DEF Grows
  <2>8. /\ Grows(Stake(OfferGold, d.auctions), Stake(OfferGold, e.auctions), 0)
        /\ Grows(d.fees, e.fees, 0)
    BY GoldParts DEF Grows
  <2> HIDE DEF n
  <2> QED
    BY <2>6, <2>7, <2>8, GoldChange
<1> QED
  BY <1>5, <1>6 DEF Balanced

\* A letter is rewritten and others are sent.
LEMMA RewrittenMass ==
    ASSUME NEW d \in Contents, NEW l \in DOMAIN d.mails,
           NEW now \in SUBSET Posted, IsFiniteSet(now), NEW L \in SUBSET Posted, IsFiniteSet(L),
           NEW m, m = Rewritten(d.mails, l, now) (+) Sent(L), NEW w \in Weights
    PROVE  /\ l \in Posted
           /\ Mass(w, m) = ((Mass(w, d.mails) - w[l]) + SumFunctionOnSet(w, now))
                            + SumFunctionOnSet(w, L)
<1> DEFINE r == Rewritten(d.mails, l, now)
<1>1. d.mails \in Mailboxes
  BY ContentsType
<1>2. r \in Mailboxes
  BY <1>1, MailboxRewritten
<1>3. m = r (+) Sent(L) /\ r = Rewritten(d.mails, l, now)
  OBVIOUS
<1> HIDE DEF r
<1>4. Mass(w, m) = Mass(w, r) + SumFunctionOnSet(w, L)
  BY <1>2, <1>3, MassWithLetters
<1>5. l \in Posted /\ Mass(w, r) = (Mass(w, d.mails) - w[l]) + SumFunctionOnSet(w, now)
  BY <1>1, <1>3, MassOfRewritten
<1> QED
  BY <1>4, <1>5

LEMMA OpenedBalance ==
    ASSUME NEW d \in Contents, NEW e \in Contents, \A u \in Units : UnitsOf(d, u) = 1,
           NEW p \in Players, NEW l \in DOMAIN d.mails, l.to = p, NEW x \in l.units,
           NEW gold \in Nat, gold = d.gold[p] - l.cod,
           NEW units, units = d.bag[p] \cup {x},
           NEW left, left = Opened(l, x), NEW L, L = PaymentFor(l, p),
           e.gold = Instead(d.gold, p, gold), e.bag = Instead(d.bag, p, units),
           e.auctions = d.auctions, e.mails = Rewritten(d.mails, l, left) (+) Sent(L),
           e.fees = d.fees, e.moving = d.moving
    PROVE  Balanced(d, e)
<1>1. /\ d.gold \in [Players -> Nat] /\ d.bag \in [Players -> SUBSET Units]
      /\ d.auctions \in Houses /\ d.mails \in Mailboxes
  BY ContentsType
<1>2. l \in Posted
  BY <1>1, MailboxType
<1>3. l.units \in SUBSET Units /\ l.cod \in Nat
  BY <1>2, LetterType
<1>4. x \notin d.bag[p]
  <2>1. UnitsOf(d, x) = 1
    BY <1>3
  <2> QED
    BY <2>1, InALetter
<1> DEFINE rest == Lacking(l.units, x)
<1>5. PICK k \in Posted : left = {k} /\ k.units = rest /\ k.money = l.money
  BY <1>2, OpenedIs
<1>6. /\ left \in SUBSET Posted /\ IsFiniteSet(left)
      /\ L \in SUBSET Posted /\ IsFiniteSet(L)
  BY <1>2, <1>5, OneLetter, PaymentPosted
<1>7. ASSUME NEW u PROVE UnitsOf(e, u) = UnitsOf(d, u)
  <2> DEFINE y == Among(u, {x})
             n == 0 - y
             w == LetterHas(u)
  <2>1. y \in Int /\ Among(u, rest) \in Int /\ Among(u, l.units) = Among(u, rest) + y
    BY AmongNat DEF Among, Lacking
  <2>2. BagsWith(e.bag, u) = BagsWith(d.bag, u) + y
    BY <1>1, <1>4, BagsMore
  <2>3. w \in Weights /\ w[l] = Among(u, l.units) /\ w[k] = Among(u, rest)
    BY <1>2, <1>5, HasWeights
  <2>4. SumFunctionOnSet(w, L) = 0
    BY <1>2, PaymentSum
  <2> HIDE DEF w, y, rest
  <2>5. Mass(w, e.mails) = ((Mass(w, d.mails) - w[l]) + SumFunctionOnSet(w, left))
                            + SumFunctionOnSet(w, L)
    BY <1>6, <2>3, RewrittenMass
  <2>6. SumFunctionOnSet(w, left) = w[k] /\ Mass(w, d.mails) \in Int
    BY <1>1, <1>5, <2>3, OneSum, MassInt
  <2>7. CancelOut(y, 0, n, 0)
    BY <2>1 DEF CancelOut
  <2>8. Grows(Mass(w, d.mails), Mass(w, e.mails), n)
    BY <2>1, <2>3, <2>4, <2>5, <2>6 DEF Grows
  <2>9. /\ Grows(Stake(OfferHas(u), d.auctions), Stake(OfferHas(u), e.auctions), 0)
        /\ Grows(Among(u, d.moving), Among(u, e.moving), 0)
        /\ Grows(BagsWith(d.bag, u), BagsWith(e.bag, u), y)
    BY <2>2, UnitParts DEF Grows
  <2> HIDE DEF n
  <2> QED
    BY <2>7, <2>8, <2>9, UnitsChange DEF w
<1>8. GoldOf(e) = GoldOf(d)
  <2> DEFINE c == l.cod
             g == 0 - c
             w == LetterGold
  <2>1. c \in Nat /\ d.gold[p] \in Int /\ w[l] \in Int /\ l.money \in Nat
    BY <1>1, <1>2, <1>3, LetterType, GoldWeights
  <2>2. SumFunctionOnSet(e.gold, Players) = (SumFunctionOnSet(d.gold, Players) - d.gold[p]) + gold
        /\ SumFunctionOnSet(d.gold, Players) \in Int
    BY <1>1, PursesInstead, PursesInt
  <2>3. w \in Weights /\ w[l] = w[k]
    BY <1>2, <1>5, GoldWeights
  <2>4. SumFunctionOnSet(w, L) = c
    BY <1>2, PaymentSum
  <2>5. gold = d.gold[p] - c
    OBVIOUS
  <2> HIDE DEF w, c
  <2>6. Mass(w, e.mails) = ((Mass(w, d.mails) - w[l]) + SumFunctionOnSet(w, left))
                            + SumFunctionOnSet(w, L)
    BY <1>6, <2>3, RewrittenMass
  <2>7. SumFunctionOnSet(w, left) = w[k] /\ Mass(w, d.mails) \in Int
    BY <1>1, <1>5, <2>3, OneSum, MassInt
  <2>8. CancelOut(g, 0, c, 0)
    BY <2>1 DEF CancelOut
  <2>9. Grows(Mass(w, d.mails), Mass(w, e.mails), c)
    BY <2>1, <2>3, <2>4, <2>6, <2>7 DEF Grows
  <2>10. /\ Grows(Stake(OfferGold, d.auctions), Stake(OfferGold, e.auctions), 0)
         /\ Grows(d.fees, e.fees, 0)
    BY GoldParts DEF Grows
  <2>11. Grows(SumFunctionOnSet(d.gold, Players), SumFunctionOnSet(e.gold, Players), g)
    BY <2>1, <2>2, <2>5 DEF Grows
  <2> HIDE DEF g
  <2> QED
    BY <2>8, <2>9, <2>10, <2>11, GoldChange DEF w
<1> QED
  BY <1>7, <1>8 DEF Balanced

LEMMA ReturnedBalance ==
    ASSUME NEW d \in Contents, NEW e \in Contents,
           NEW p \in Players, NEW l \in DOMAIN d.mails, l.to = p, l.from # House,
           NEW none, none = {}, NEW L, L = BackTo(l, p),
           e.gold = d.gold, e.bag = d.bag,
           e.auctions = d.auctions, e.mails = Rewritten(d.mails, l, none) (+) Sent(L),
           e.fees = d.fees, e.moving = d.moving
    PROVE  Balanced(d, e)
<1>1. d.mails \in Mailboxes
  BY ContentsType
<1>2. l \in Posted
  BY <1>1, MailboxType
<1> DEFINE k == Mail(l.from, p, l.money, l.units, 0)
<1>3. L = {k} /\ k.units = l.units /\ k.money = l.money
  BY DEF BackTo, Mail
<1>4. L \in SUBSET Posted /\ IsFiniteSet(L)
  BY <1>2, BackPosted
<1>5. none \in SUBSET Posted /\ IsFiniteSet(none)
  BY NoLetter
<1> HIDE DEF k
<1>6. k \in Posted
  BY <1>3, <1>4
<1>7. ASSUME NEW w \in Weights, w[k] = w[l] PROVE Mass(w, e.mails) = Mass(w, d.mails)
  <2>1. Mass(w, e.mails) = ((Mass(w, d.mails) - w[l]) + SumFunctionOnSet(w, none))
                            + SumFunctionOnSet(w, L)
    BY <1>4, <1>5, RewrittenMass
  <2>2. SumFunctionOnSet(w, none) = 0 /\ SumFunctionOnSet(w, L) = w[k]
    BY <1>3, <1>6, SumEmpty, OneSum
  <2>3. w[l] \in Int /\ Mass(w, d.mails) \in Int
    BY <1>1, <1>2, MassInt DEF Weights
  <2> QED
    BY <1>7, <2>1, <2>2, <2>3
<1>8. ASSUME NEW u PROVE UnitsOf(e, u) = UnitsOf(d, u)
  <2>1. LetterHas(u) \in Weights /\ LetterHas(u)[k] = LetterHas(u)[l]
    BY <1>2, <1>3, <1>6, HasWeights
  <2> QED
    BY <1>7, <2>1 DEF UnitsOf
<1>9. GoldOf(e) = GoldOf(d)
  <2>1. LetterGold \in Weights /\ LetterGold[k] = LetterGold[l]
    BY <1>2, <1>3, <1>6, GoldWeights
  <2> QED
    BY <1>7, <2>1 DEF GoldOf
<1> QED
  BY <1>8, <1>9 DEF Balanced

-----------------------------------------------------------------------------
(* Every store has each unit once, and the gold there was.                 *)

Right(d) ==
    /\ \A u \in Units : UnitsOf(d, u) = 1
    /\ ProfitsFit => GoldOf(d) = StartGold * Cardinality(Players)

BalanceInv ==
    /\ \A j \in 0..Len(queue) : Right(At(j))
    /\ crashes = 0 => Planned.moving = {}

LEMMA RightAfter == ASSUME NEW d, NEW e, Right(d), Balanced(d, e) PROVE Right(e)
BY DEF Right, Balanced

LEMMA RightPlanned ==
    ASSUME AuctionInv, BalanceInv
    PROVE  Right(Planned) /\ Planned \in Contents
<1>1. Len(queue) \in 0..Len(queue)
  BY DEF AuctionInv, MemoryType
<1> QED
  BY <1>1, PlannedIsAt DEF BalanceInv, AuctionInv, StoresSound, Sound

LEMMA BalancePrime ==
    BalanceInv' <=> /\ \A j \in 0..Len(queue') : Right(AtNext(j))
                    /\ crashes' = 0 => Planned'.moving = {}
<1>1. \A j : At(j)' = AtNext(j)
  BY AtPrime
<1>2. \A j : Right(At(j))' <=> Right(AtNext(j))
  BY <1>1 DEF Right
<1> QED
  BY <1>2 DEF BalanceInv

LEMMA CommitsBalance ==
    ASSUME AuctionInv, BalanceInv, NEW cs \in Seq(Contents), cs # << >>, Commits(cs),
           \A i \in 1..Len(cs) : Balanced(Planned, cs[i]),
           Planned'.moving = Planned.moving, crashes' = crashes
    PROVE  BalanceInv'
<1>1. /\ Len(queue) \in Nat /\ Len(cs) \in Nat /\ Len(queue') = Len(queue) + Len(cs)
      /\ \A j \in 0..Len(queue) : AtNext(j) = At(j)
      /\ \A i \in 1..Len(cs) : AtNext(Len(queue) + i) = cs[i]
  BY CommitSeen DEF AuctionInv, MemoryType
<1>2. Right(Planned)
  BY RightPlanned
<1>3. ASSUME NEW j \in 0..Len(queue') PROVE Right(AtNext(j))
  <2>1. CASE j \in 0..Len(queue)
    BY <1>1, <2>1 DEF BalanceInv
  <2>2. CASE j \notin 0..Len(queue)
    <3>1. j - Len(queue) \in 1..Len(cs) /\ Len(queue) + (j - Len(queue)) = j
      BY <1>1, <2>2
    <3>2. AtNext(j) = cs[j - Len(queue)]
      BY <1>1, <3>1
    <3> QED BY <1>2, <3>1, <3>2, RightAfter
  <2> QED
    BY <2>1, <2>2
<1>4. crashes' = 0 => Planned'.moving = {}
  BY DEF BalanceInv
<1> QED
  BY <1>3, <1>4, BalancePrime

LEMMA OneBalance ==
    ASSUME AuctionInv, BalanceInv, NEW c \in Contents, Commits(<<c>>), Balanced(Planned, c),
           Planned'.moving = Planned.moving, crashes' = crashes
    PROVE  BalanceInv'
<1> DEFINE cs == <<c>>
<1>1. cs \in Seq(Contents) /\ cs # << >> /\ Len(cs) = 1 /\ \A i \in 1..Len(cs) : cs[i] = c
  OBVIOUS
<1>2. Commits(cs)
  OBVIOUS
<1> HIDE DEF cs
<1>3. \A i \in 1..Len(cs) : Balanced(Planned, cs[i])
  BY <1>1
<1> QED
  BY <1>1, <1>2, <1>3, CommitsBalance

LEMMA QuietBalance ==
    ASSUME BalanceInv, Len(queue') \in Nat, Planned' = Planned, crashes' = crashes,
           \A j \in 0..Len(queue') : \E i \in 0..Len(queue) : AtNext(j) = At(i)
    PROVE  BalanceInv'
BY BalancePrime DEF BalanceInv

\* Handlers that change stores.
LEMMA SellBalance ==
    ASSUME AuctionInv, BalanceInv, NEW p \in Players, NEW units \in SUBSET bag[p],
           NEW whole \in BOOLEAN, NEW start \in StartPrices, NEW buyout \in Buyouts,
           HandleAuctionSellItem(p, units, whole, start, buyout)
    PROVE  BalanceInv'
<1> DEFINE offer == OfferOf(p, units, start, buyout)
           half == Halfway(Planned, p, units)
           gold == Less(Planned.gold[p], Deposit)
           kept == Minus(Planned.bag[p], units)
           moved == Plus(Planned.moving, units)
           c == Planned'
<1>1. /\ offer = OfferOf(p, units, start, buyout) /\ half = Halfway(Planned, p, units)
      /\ gold = Less(Planned.gold[p], Deposit) /\ kept = Minus(Planned.bag[p], units)
      /\ moved = Plus(Planned.moving, units) /\ c = Planned'
  OBVIOUS
<1>0. /\ offer.units = units /\ offer.bid = 0 /\ offer.deposit = Deposit
      /\ gold = Planned.gold[p] - Deposit /\ kept = Planned.bag[p] \ units
      /\ moved = Planned.moving \cup units
  BY DEF OfferOf, Less, Minus, Plus
<1> HIDE DEF offer, half, gold, kept, moved, c
<1>2. /\ nextAuction \in 1..MaxAuctions
      /\ offer \in Offers /\ nextAuction \notin DOMAIN Planned.auctions
      /\ bag[p] = Planned.bag[p] /\ gold \in Nat
      /\ c.gold = Instead(Planned.gold, p, gold) /\ c.bag = Instead(Planned.bag, p, kept)
      /\ c.auctions = AddAuction(Planned.auctions, nextAuction, offer)
      /\ c.mails = Planned.mails /\ c.fees = Planned.fees /\ c.moving = Planned.moving
      /\ half \in Contents /\ half.gold = Planned.gold
      /\ half.bag = Instead(Planned.bag, p, kept)
      /\ half.auctions = Planned.auctions /\ half.mails = Planned.mails
      /\ half.fees = Planned.fees /\ half.moving = moved
      /\ c \in Contents
      /\ Commits(IF whole THEN <<c>> ELSE <<half, c>>)
  <2>1. /\ nextAuction \in 1..MaxAuctions
        /\ offer \in Offers /\ nextAuction \notin DOMAIN Planned.auctions
        /\ bag[p] = Planned.bag[p] /\ gold \in Nat
        /\ Planned'.gold = Instead(Planned.gold, p, gold)
        /\ Planned'.bag = Instead(Planned.bag, p, kept)
        /\ Planned'.auctions = AddAuction(Planned.auctions, nextAuction, offer)
        /\ Planned'.mails = Planned.mails
        /\ Planned'.fees = Planned.fees /\ Planned'.moving = Planned.moving
        /\ half \in Contents /\ half.gold = Planned.gold
        /\ half.bag = Instead(Planned.bag, p, kept)
        /\ half.auctions = Planned.auctions /\ half.mails = Planned.mails
        /\ half.fees = Planned.fees /\ half.moving = moved
        /\ Planned' \in Contents
        /\ Commits(IF whole THEN <<Planned'>> ELSE <<half, Planned'>>)
    BY <1>1, SellStep
  <2> QED
    BY <2>1 DEF c
<1>3. units \subseteq Planned.bag[p] /\ crashes' = crashes /\ Planned \in Contents
  BY <1>2, RightPlanned DEF HandleAuctionSellItem
<1> DEFINE n == nextAuction
           d == Planned
           cs == IF whole THEN <<c>> ELSE <<half, c>>
<1> HIDE DEF n, d
<1>5. Balanced(d, c)
  <2>1. /\ d \in Contents /\ units \subseteq d.bag[p] /\ n \in 1..MaxAuctions
        /\ n \notin DOMAIN d.auctions
        /\ gold = d.gold[p] - Deposit /\ kept = d.bag[p] \ units
        /\ c.gold = Instead(d.gold, p, gold) /\ c.bag = Instead(d.bag, p, kept)
        /\ c.auctions = AddAuction(d.auctions, n, offer) /\ c.mails = d.mails
        /\ c.fees = d.fees /\ c.moving = d.moving
    BY <1>0, <1>2, <1>3 DEF d, n
  <2> QED
    BY <1>0, <1>2, <2>1, SoldBalance
<1>6. Balanced(d, half)
  <2>1. /\ d \in Contents /\ units \subseteq d.bag[p]
        /\ kept = d.bag[p] \ units /\ moved = d.moving \cup units
        /\ half.gold = d.gold /\ half.bag = Instead(d.bag, p, kept)
        /\ half.auctions = d.auctions /\ half.mails = d.mails
        /\ half.fees = d.fees /\ half.moving = moved
    BY <1>0, <1>2, <1>3 DEF d
  <2> QED
    BY <1>2, <2>1, MovedBalance
<1>7. /\ cs \in Seq(Contents) /\ cs # << >> /\ \A i \in 1..Len(cs) : cs[i] \in {half, c}
  <2>1. CASE whole
    BY <1>2, <2>1
  <2>2. CASE ~whole
    BY <1>2, <2>2
  <2> QED
    BY <2>1, <2>2
<1>8. Commits(cs)
  BY <1>2
<1> HIDE DEF cs
<1>9. \A i \in 1..Len(cs) : Balanced(Planned, cs[i])
  BY <1>5, <1>6, <1>7 DEF d
<1>10. Planned'.moving = Planned.moving /\ crashes' = crashes
  BY <1>1, <1>2, <1>3
<1> QED
  BY <1>7, <1>8, <1>9, <1>10, CommitsBalance

LEMMA RaiseBalance ==
    ASSUME AuctionInv, BalanceInv, NEW p \in Players, NEW id \in DOMAIN auctions,
           NEW price \in Prices, HandleAuctionPlaceBid(p, id, price),
           ~IsBuyout(Planned.auctions[id], price)
    PROVE  BalanceInv'
<1> DEFINE a == Planned.auctions[id]
           bidden == WithBid(a, p, price)
           left == Planned.gold[p] - Cost(p, a, price)
           L == Refund(a, p)
           c == Planned'
<1>1. /\ Online(p) /\ id \in DOMAIN Planned.auctions
      /\ a \in Offers /\ bidden \in Offers /\ MayBid(p, a, price) /\ left \in Nat
      /\ L \in SUBSET Posted /\ IsFiniteSet(L)
      /\ c \in Contents /\ Commits(<<c>>)
      /\ c.gold = Instead(Planned.gold, p, left)
      /\ c.bag = Planned.bag
      /\ c.auctions = Instead(Planned.auctions, id, bidden)
      /\ c.mails = Planned.mails (+) Sent(L)
      /\ c.fees = Planned.fees /\ c.moving = Planned.moving
  BY RaiseStep
<1>2. crashes' = crashes /\ Planned \in Contents
  BY RightPlanned DEF HandleAuctionPlaceBid
<1>3. bidden.units = a.units /\ bidden.deposit = a.deposit /\ bidden.bid = price
  <2>1. a \in Auction
    BY <1>1 DEF Offers
  <2> QED
    BY <2>1 DEF WithBid, Auction
<1>4. a = Planned.auctions[id] /\ left = Planned.gold[p] - Cost(p, a, price) /\ L = Refund(a, p)
      /\ price \in Nat /\ c = Planned'
  BY AuctionAssumption
<1> HIDE DEF a, bidden, left, L, c
<1> DEFINE d == Planned
<1>5. d \in Contents /\ id \in DOMAIN d.auctions /\ a = d.auctions[id]
      /\ left = d.gold[p] - Cost(p, a, price)
      /\ c.gold = Instead(d.gold, p, left) /\ c.bag = d.bag
      /\ c.auctions = Instead(d.auctions, id, bidden)
      /\ c.mails = d.mails (+) Sent(L) /\ c.fees = d.fees /\ c.moving = d.moving
  BY <1>1, <1>2, <1>4
<1> HIDE DEF d
<1>6. Balanced(d, c)
  BY <1>1, <1>3, <1>4, <1>5, RaisedBalance
<1>7. Balanced(Planned, c) /\ Planned'.moving = Planned.moving
  BY <1>1, <1>4, <1>6 DEF d
<1> QED
  BY <1>1, <1>2, <1>7, OneBalance

LEMMA BuyoutBalance ==
    ASSUME AuctionInv, BalanceInv, NEW p \in Players, NEW id \in DOMAIN auctions,
           NEW price \in Prices, HandleAuctionPlaceBid(p, id, price),
           IsBuyout(Planned.auctions[id], price)
    PROVE  BalanceInv'
<1> DEFINE a == Planned.auctions[id]
           bidden == WithBid(a, p, a.buyout)
           paid == Cost(p, a, a.buyout)
           left == Planned.gold[p] - paid
           L == BuyoutLetters(a, p, bidden)
           fee == Kept(bidden)
           c == Planned'
<1>1. /\ Online(p) /\ id \in DOMAIN Planned.auctions
      /\ a \in Offers /\ bidden \in Offers /\ MayBid(p, a, price) /\ left \in Nat
      /\ L \in SUBSET Posted /\ IsFiniteSet(L)
      /\ c \in Contents /\ Commits(<<c>>)
      /\ c.gold = Instead(Planned.gold, p, left)
      /\ c.bag = Planned.bag
      /\ c.auctions = Without(Planned.auctions, id)
      /\ c.mails = Planned.mails (+) Sent(L)
      /\ c.fees = Planned.fees + fee /\ c.moving = Planned.moving
  BY BuyoutStep
<1>2. crashes' = crashes /\ Planned \in Contents /\ world = "running"
  BY <1>1, RightPlanned DEF HandleAuctionPlaceBid, Online
<1>3. /\ bidden.units = a.units /\ bidden.deposit = a.deposit /\ bidden.bid = a.buyout
      /\ bidden.bidder = p /\ bidden.owner = a.owner /\ a.buyout \in Nat /\ a.bid \in Nat
      /\ a.owner # p /\ a.deposit \in Nat
  <2>1. a \in Auction
    BY <1>1 DEF Offers
  <2> QED
    BY <1>1, <2>1, AuctionType DEF WithBid, Auction, MayBid
<1>4. bidden.units \in aItems
  BY <1>1, <1>2, <1>3, InWorld, ItemOf
<1>5. /\ a = Planned.auctions[id] /\ paid = Cost(p, a, a.buyout) /\ left = Planned.gold[p] - paid
      /\ L = BuyoutLetters(a, p, bidden) /\ fee = Kept(bidden) /\ c = Planned'
  OBVIOUS
<1> HIDE DEF a, bidden, paid, left, L, fee, c
<1>6. fee \in Nat
  BY <1>1, <1>5, SettlementPosted
<1>7. ASSUME NEW u PROVE SumFunctionOnSet(LetterHas(u), L) = Among(u, a.units)
  <2>1. SumFunctionOnSet(LetterHas(u), L) = SumFunctionOnSet(LetterHas(u), Refund(a, p))
                                             + SumFunctionOnSet(LetterHas(u), Settlement(bidden))
    BY <1>1, <1>3, <1>4, <1>5, HasWeights, BuyoutSum
  <2>2. SumFunctionOnSet(LetterHas(u), Refund(a, p)) = 0
    BY <1>1, RefundUnits
  <2>3. SumFunctionOnSet(LetterHas(u), Settlement(bidden)) = Among(u, a.units)
    BY <1>1, <1>3, <1>4, SettlementUnits
  <2>4. Among(u, a.units) \in Nat
    BY AmongNat
  <2> QED
    BY <2>1, <2>2, <2>3, <2>4
<1>8. ASSUME ProfitsFit
      PROVE  SumFunctionOnSet(LetterGold, L) + fee = a.bid + a.deposit + paid
  <2> DEFINE r == SumFunctionOnSet(LetterGold, Refund(a, p))
             s == SumFunctionOnSet(LetterGold, Settlement(bidden))
  <2>1. SumFunctionOnSet(LetterGold, L) = r + s
    BY <1>1, <1>3, <1>4, <1>5, GoldWeights, BuyoutSum
  <2>2. r + a.buyout = paid + a.bid /\ paid \in Int /\ r \in Int
    BY <1>1, <1>3, <1>5, RefundGold
  <2>3. s + fee = a.buyout + a.deposit
    BY <1>1, <1>3, <1>4, <1>5, <1>8, SettlementGold
  <2>4. s \in Int
    BY <1>1, GoldWeights, SettlementPosted, WeightInt
  <2> HIDE DEF r, s
  <2> QED
    BY <1>3, <1>6, <2>1, <2>2, <2>3, <2>4
<1>9. paid \in Int
  BY <1>1, <1>3, <1>5, RefundGold
<1> DEFINE d == Planned
<1>10. d \in Contents /\ id \in DOMAIN d.auctions /\ a = d.auctions[id]
       /\ c.bag = d.bag /\ c.auctions = Without(d.auctions, id)
       /\ c.mails = d.mails (+) Sent(L) /\ c.fees = d.fees + fee /\ c.moving = d.moving
       /\ c.gold = Instead(d.gold, p, left) /\ left = d.gold[p] - paid
  BY <1>1, <1>2, <1>5
<1> HIDE DEF d
<1>11. SumFunctionOnSet(c.gold, Players) = SumFunctionOnSet(d.gold, Players) - paid
  <2>1. d.gold \in [Players -> Nat]
    BY <1>10, ContentsType
  <2>2. SumFunctionOnSet(c.gold, Players) = (SumFunctionOnSet(d.gold, Players) - d.gold[p]) + left
        /\ SumFunctionOnSet(d.gold, Players) \in Int /\ d.gold[p] \in Int
    BY <1>1, <1>10, <2>1, PursesInstead, PursesInt
  <2> QED
    BY <1>9, <1>10, <2>2
<1>12. Balanced(d, c)
  BY <1>1, <1>6, <1>7, <1>8, <1>9, <1>10, <1>11, EndedBalance
<1>13. Balanced(Planned, c) /\ Planned'.moving = Planned.moving
  BY <1>1, <1>5, <1>12 DEF d
<1> QED
  BY <1>1, <1>2, <1>13, OneBalance

\* The letters of an auction that is over carry its units, and with the fee its gold.
LEMMA CancelledUnits ==
    ASSUME NEW a \in Offers, NEW L, L = Cancelled(a, a.owner), NEW u
    PROVE  SumFunctionOnSet(LetterHas(u), L) = Among(u, a.units)
<1> DEFINE w == LetterHas(u)
<1>1. w \in Weights /\ BackLetter(a) \in Posted /\ Among(u, a.units) \in Nat
  BY HasWeights, CancelledSum, AmongNat
<1>2. w[BackLetter(a)] = Among(u, a.units)
      /\ (RefundLetter(a) \in Posted => w[RefundLetter(a)] = 0)
  BY <1>1, LetterWeights
<1> HIDE DEF w
<1>3. CASE a.bidder = NoOne
  BY <1>1, <1>2, <1>3, CancelledSum DEF w
<1>4. CASE a.bidder # NoOne
  <2>1. SumFunctionOnSet(w, L) = w[BackLetter(a)] + w[RefundLetter(a)] /\ RefundLetter(a) \in Posted
    BY <1>1, <1>4, CancelledSum
  <2> QED
    BY <1>1, <1>2, <2>1 DEF w
<1> QED
  BY <1>3, <1>4

LEMMA CancelledGold ==
    ASSUME NEW a \in Offers, NEW L, L = Cancelled(a, a.owner)
    PROVE  SumFunctionOnSet(LetterGold, L) = a.bid
<1> DEFINE w == LetterGold
<1>1. w \in Weights /\ BackLetter(a) \in Posted /\ a.bid \in Nat
      /\ (a.bidder = NoOne <=> a.bid = 0)
  BY GoldWeights, CancelledSum, AuctionType DEF Offers
<1>2. w[BackLetter(a)] = 0
      /\ (RefundLetter(a) \in Posted => w[RefundLetter(a)] = a.bid)
  BY <1>1, LetterWeights
<1> HIDE DEF w
<1>3. CASE a.bidder = NoOne
  BY <1>1, <1>2, <1>3, CancelledSum DEF w
<1>4. CASE a.bidder # NoOne
  <2>1. SumFunctionOnSet(w, L) = w[BackLetter(a)] + w[RefundLetter(a)] /\ RefundLetter(a) \in Posted
    BY <1>1, <1>4, CancelledSum
  <2> QED
    BY <1>1, <1>2, <2>1 DEF w
<1> QED
  BY <1>3, <1>4

LEMMA RemoveBalance ==
    ASSUME AuctionInv, BalanceInv, NEW p \in Players, NEW id \in DOMAIN auctions,
           HandleAuctionRemoveItem(p, id)
    PROVE  BalanceInv'
<1> DEFINE a == Planned.auctions[id]
           cut == CutOf(a)
           left == Planned.gold[p] - cut
           L == Cancelled(a, p)
           fee == a.deposit + cut
           c == Planned'
<1>1. /\ Online(p) /\ id \in DOMAIN Planned.auctions
      /\ a \in Offers /\ a.owner = p
      /\ cut \in Nat /\ left \in Nat
      /\ L \in SUBSET Posted /\ IsFiniteSet(L)
      /\ c \in Contents /\ Commits(<<c>>)
      /\ c.gold = Instead(Planned.gold, p, left)
      /\ c.bag = Planned.bag
      /\ c.auctions = Without(Planned.auctions, id)
      /\ c.mails = Planned.mails (+) Sent(L)
      /\ c.fees = Planned.fees + fee /\ c.moving = Planned.moving
  BY RemoveStep
<1>2. crashes' = crashes /\ Planned \in Contents
  BY RightPlanned DEF HandleAuctionRemoveItem
<1>3. /\ a = Planned.auctions[id] /\ left = Planned.gold[p] - cut
      /\ L = Cancelled(a, a.owner) /\ fee = a.deposit + cut /\ c = Planned'
  BY <1>1
<1> HIDE DEF a, cut, left, L, fee, c
<1>4. a.deposit \in Nat /\ a.bid \in Nat
  BY <1>1, AuctionType DEF Offers
<1>5. fee \in Nat /\ cut \in Int
  BY <1>1, <1>3, <1>4
<1>6. \A u : SumFunctionOnSet(LetterHas(u), L) = Among(u, a.units)
  BY <1>1, <1>3, CancelledUnits
<1>7. SumFunctionOnSet(LetterGold, L) = a.bid
  BY <1>1, <1>3, CancelledGold
<1>8. SumFunctionOnSet(LetterGold, L) + fee = a.bid + a.deposit + cut
  BY <1>3, <1>4, <1>5, <1>7
<1> DEFINE d == Planned
<1>9. d \in Contents /\ id \in DOMAIN d.auctions /\ a = d.auctions[id]
      /\ c.bag = d.bag /\ c.auctions = Without(d.auctions, id)
      /\ c.mails = d.mails (+) Sent(L) /\ c.fees = d.fees + fee /\ c.moving = d.moving
      /\ c.gold = Instead(d.gold, p, left) /\ left = d.gold[p] - cut
  BY <1>1, <1>2, <1>3
<1> HIDE DEF d
<1>10. SumFunctionOnSet(c.gold, Players) = SumFunctionOnSet(d.gold, Players) - cut
  <2>1. d.gold \in [Players -> Nat]
    BY <1>9, ContentsType
  <2>2. SumFunctionOnSet(c.gold, Players) = (SumFunctionOnSet(d.gold, Players) - d.gold[p]) + left
        /\ SumFunctionOnSet(d.gold, Players) \in Int /\ d.gold[p] \in Int
    BY <1>1, <1>9, <2>1, PursesInstead, PursesInt
  <2> QED
    BY <1>5, <1>9, <2>2
<1>11. Balanced(d, c)
  BY <1>1, <1>5, <1>6, <1>8, <1>9, <1>10, EndedBalance
<1>12. Balanced(Planned, c) /\ Planned'.moving = Planned.moving
  BY <1>1, <1>3, <1>11 DEF d
<1> QED
  BY <1>1, <1>2, <1>12, OneBalance

LEMMA UpdateBalance ==
    ASSUME AuctionInv, BalanceInv, NEW id \in DOMAIN auctions, Update(id)
    PROVE  BalanceInv'
<1> DEFINE a == Planned.auctions[id]
           L == Settlement(a)
           fee == Kept(a)
           c == Planned'
<1>1. /\ world = "running" /\ id \in DOMAIN Planned.auctions
      /\ a \in Offers
      /\ L \in SUBSET Posted /\ IsFiniteSet(L)
      /\ c \in Contents /\ Commits(<<c>>)
      /\ c.gold = Planned.gold /\ c.bag = Planned.bag
      /\ c.auctions = Without(Planned.auctions, id)
      /\ c.mails = Planned.mails (+) Sent(L)
      /\ c.fees = Planned.fees + fee /\ c.moving = Planned.moving
  BY UpdateStep
<1>2. crashes' = crashes /\ Planned \in Contents
  BY RightPlanned DEF Update
<1>3. /\ a = Planned.auctions[id]
      /\ L = Settlement(a) /\ fee = Kept(a) /\ c = Planned'
  OBVIOUS
<1> HIDE DEF a, L, fee, c
<1>4. a.deposit \in Nat /\ a.bid \in Nat /\ fee \in Nat
  BY <1>1, <1>3, AuctionType, SettlementPosted DEF Offers
<1>5. a.units \in aItems
  BY <1>1, <1>3, InWorld, ItemOf
<1>6. \A u : SumFunctionOnSet(LetterHas(u), L) = Among(u, a.units)
  BY <1>1, <1>3, <1>5, SettlementUnits
<1> DEFINE none == 0
           d == Planned
<1>7. ProfitsFit => SumFunctionOnSet(LetterGold, L) + fee = a.bid + a.deposit + none
  <2> SUFFICES ASSUME ProfitsFit PROVE SumFunctionOnSet(LetterGold, L) + fee = a.bid + a.deposit + none
    OBVIOUS
  <2>1. SumFunctionOnSet(LetterGold, L) + fee = a.bid + a.deposit
    BY <1>1, <1>3, <1>5, SettlementGold
  <2> QED
    BY <1>4, <2>1
<1>8. d \in Contents /\ id \in DOMAIN d.auctions /\ a = d.auctions[id]
      /\ c.bag = d.bag /\ c.auctions = Without(d.auctions, id)
      /\ c.mails = d.mails (+) Sent(L) /\ c.fees = d.fees + fee /\ c.moving = d.moving
      /\ c.gold = d.gold
  BY <1>1, <1>2, <1>3
<1> HIDE DEF d
<1>9. SumFunctionOnSet(c.gold, Players) = SumFunctionOnSet(d.gold, Players) - none /\ none \in Int
  BY <1>8, GoldParts
<1> HIDE DEF none
<1>10. Balanced(d, c)
  BY <1>1, <1>4, <1>6, <1>7, <1>8, <1>9, EndedBalance
<1>11. Balanced(Planned, c) /\ Planned'.moving = Planned.moving
  BY <1>1, <1>3, <1>10 DEF d
<1> QED
  BY <1>1, <1>2, <1>11, OneBalance

LEMMA SendBalance ==
    ASSUME AuctionInv, BalanceInv, NEW p \in Players, NEW to \in Players, NEW units \in SUBSET bag[p],
           NEW money \in MailMoney, NEW cod \in CodPrices, HandleSendMail(p, to, money, units, cod)
    PROVE  BalanceInv'
<1> DEFINE l == Mail(to, p, money, units, cod)
           postage == PostageOf(units)
           left == LessBoth(Planned.gold[p], money, postage)
           kept == Minus(Planned.bag[p], units)
           L == Only(l)
           c == Planned'
           d == Planned
<1>1. /\ units \subseteq Planned.bag[p] /\ money \in Nat /\ postage \in Nat
      /\ left \in Nat /\ l \in Posted
      /\ Planned' \in Contents /\ Commits(<<Planned'>>)
      /\ Planned'.gold = Instead(Planned.gold, p, left)
      /\ Planned'.bag = Instead(Planned.bag, p, kept)
      /\ Planned'.auctions = Planned.auctions
      /\ Planned'.mails = Planned.mails (+) Sent(L)
      /\ Planned'.fees = Planned.fees + postage /\ Planned'.moving = Planned.moving
  BY SendStep
<1>2. crashes' = crashes /\ Planned \in Contents
  BY RightPlanned DEF HandleSendMail
<1>3. l.units = units /\ l.money = money
  BY MailFields
<1>4. /\ left = d.gold[p] - (l.money + postage) /\ kept = d.bag[p] \ units /\ L = {l}
      /\ units \subseteq d.bag[p] /\ d \in Contents /\ c \in Contents
      /\ c.gold = Instead(d.gold, p, left) /\ c.bag = Instead(d.bag, p, kept)
      /\ c.auctions = d.auctions /\ c.mails = d.mails (+) Sent(L)
      /\ c.fees = d.fees + postage /\ c.moving = d.moving
  BY <1>1, <1>2, <1>3 DEF LessBoth, Minus, Only
<1> HIDE DEF l, postage, left, kept, L, c, d
<1>5. Balanced(d, c)
  BY <1>1, <1>3, <1>4, SentBalance
<1> QED
  BY <1>1, <1>2, <1>5, OneBalance DEF c, d

LEMMA TakeMoneyBalance ==
    ASSUME AuctionInv, BalanceInv, NEW p \in Players, NEW l \in BagToSet(box[p]),
           HandleMailTakeMoney(p, l)
    PROVE  BalanceInv'
<1> DEFINE gold == Planned.gold[p] + l.money
           left == Emptied(l)
           c == Planned'
           d == Planned
<1>1. /\ l \in DOMAIN Planned.mails /\ gold \in Nat
      /\ Planned' \in Contents /\ Commits(<<Planned'>>)
      /\ Planned'.gold = Instead(Planned.gold, p, gold)
      /\ Planned'.bag = Planned.bag
      /\ Planned'.auctions = Planned.auctions
      /\ Planned'.mails = Rewritten(Planned.mails, l, left)
      /\ Planned'.fees = Planned.fees /\ Planned'.moving = Planned.moving
  BY TakeMoneyStep
<1>2. crashes' = crashes /\ Planned \in Contents
  BY RightPlanned DEF HandleMailTakeMoney
<1>3. /\ gold = d.gold[p] + l.money /\ left = Emptied(l)
      /\ d \in Contents /\ c \in Contents /\ l \in DOMAIN d.mails /\ gold \in Nat
      /\ c.gold = Instead(d.gold, p, gold) /\ c.bag = d.bag
      /\ c.auctions = d.auctions /\ c.mails = Rewritten(d.mails, l, left)
      /\ c.fees = d.fees /\ c.moving = d.moving
  BY <1>1, <1>2
<1> HIDE DEF gold, left, c, d
<1>4. Balanced(d, c)
  BY <1>3, EmptiedBalance
<1> QED
  BY <1>1, <1>2, <1>4, OneBalance DEF c, d

LEMMA TakeItemBalance ==
    ASSUME AuctionInv, BalanceInv, NEW p \in Players, NEW l \in BagToSet(box[p]), NEW u \in l.units,
           HandleMailTakeItem(p, l, u)
    PROVE  BalanceInv'
<1> DEFINE gold == Less(Planned.gold[p], l.cod)
           units == Plus(Planned.bag[p], Only(u))
           left == Opened(l, u)
           L == PaymentFor(l, p)
           c == Planned'
           d == Planned
<1>1. /\ l \in DOMAIN Planned.mails /\ l.to = p /\ gold \in Nat
      /\ Planned' \in Contents /\ Commits(<<Planned'>>)
      /\ Planned'.gold = Instead(Planned.gold, p, gold)
      /\ Planned'.bag = Instead(Planned.bag, p, units)
      /\ Planned'.auctions = Planned.auctions
      /\ Planned'.mails = Rewritten(Planned.mails, l, left) (+) Sent(L)
      /\ Planned'.fees = Planned.fees /\ Planned'.moving = Planned.moving
  BY TakeItemStep
<1>2. crashes' = crashes /\ Right(Planned) /\ Planned \in Contents
  BY RightPlanned DEF HandleMailTakeItem
<1>3. /\ gold = d.gold[p] - l.cod /\ units = d.bag[p] \cup {u} /\ left = Opened(l, u)
      /\ L = PaymentFor(l, p) /\ l.to = p
      /\ d \in Contents /\ c \in Contents /\ l \in DOMAIN d.mails /\ gold \in Nat
      /\ c.gold = Instead(d.gold, p, gold) /\ c.bag = Instead(d.bag, p, units)
      /\ c.auctions = d.auctions /\ c.mails = Rewritten(d.mails, l, left) (+) Sent(L)
      /\ c.fees = d.fees /\ c.moving = d.moving
      /\ \A v \in Units : UnitsOf(d, v) = 1
  BY <1>1, <1>2 DEF Right, Less, Plus, Only
<1> HIDE DEF gold, units, left, L, c, d
<1>4. Balanced(d, c)
  BY <1>3, OpenedBalance
<1> QED
  BY <1>1, <1>2, <1>4, OneBalance DEF c, d

LEMMA ReturnBalance ==
    ASSUME AuctionInv, BalanceInv, NEW p \in Players, NEW l \in BagToSet(box[p]),
           HandleMailReturnToSender(p, l)
    PROVE  BalanceInv'
<1> DEFINE none == {}
           L == BackTo(l, p)
           c == Planned'
           d == Planned
<1>1. /\ l \in DOMAIN Planned.mails /\ l.to = p /\ l.from # House
      /\ Planned' \in Contents /\ Commits(<<Planned'>>)
      /\ Planned'.gold = Planned.gold
      /\ Planned'.bag = Planned.bag
      /\ Planned'.auctions = Planned.auctions
      /\ Planned'.mails = Rewritten(Planned.mails, l, none) (+) Sent(L)
      /\ Planned'.fees = Planned.fees /\ Planned'.moving = Planned.moving
  BY ReturnStep
<1>2. crashes' = crashes /\ Planned \in Contents
  BY RightPlanned DEF HandleMailReturnToSender
<1>3. /\ none = {} /\ L = BackTo(l, p) /\ l.to = p /\ l.from # House
      /\ d \in Contents /\ c \in Contents /\ l \in DOMAIN d.mails
      /\ c.gold = d.gold /\ c.bag = d.bag
      /\ c.auctions = d.auctions /\ c.mails = Rewritten(d.mails, l, none) (+) Sent(L)
      /\ c.fees = d.fees /\ c.moving = d.moving
  BY <1>1, <1>2
<1> HIDE DEF none, L, c, d
<1>4. Balanced(d, c)
  BY <1>3, ReturnedBalance
<1> QED
  BY <1>1, <1>2, <1>4, OneBalance DEF c, d

LEMMA LogoutBalance ==
    ASSUME AuctionInv, BalanceInv, NEW p \in Players, LogoutPlayer(p)
    PROVE  BalanceInv'
<1>1. /\ Planned' \in Contents /\ Commits(<<Planned'>>)
      /\ Planned'.gold = Planned.gold /\ Planned'.bag = Planned.bag
      /\ Planned'.auctions = Planned.auctions /\ Planned'.mails = Planned.mails
      /\ Planned'.fees = Planned.fees /\ Planned'.moving = Planned.moving
  BY LogoutStep
<1>2. crashes' = crashes
  BY DEF LogoutPlayer
<1>3. Balanced(Planned, Planned')
  BY <1>1 DEF Balanced, UnitsOf, GoldOf
<1> QED
  BY <1>1, <1>2, <1>3, OneBalance

\* Steps that submit nothing but queries, or execute what was submitted.
LEMMA LoginBalance ==
    ASSUME AuctionInv, BalanceInv, NEW p \in Players, HandlePlayerLogin(p)
    PROVE  BalanceInv'
<1>1. queue \in Seq(Operations) /\ DelayQueryHolder(p) /\ crashes' = crashes
  BY DEF AuctionInv, MemoryType, HandlePlayerLogin
<1>2. /\ Len(queue) \in Nat /\ Len(queue') = Len(queue) + 1 /\ Planned' = Planned
      /\ \A j \in 0..Len(queue) : AtNext(j) = At(j)
      /\ AtNext(Len(queue) + 1) = Planned
  BY <1>1, DelaySeen
<1>3. Planned = At(Len(queue))
  BY PlannedIsAt
<1>4. ASSUME NEW j \in 0..Len(queue') PROVE \E i \in 0..Len(queue) : AtNext(j) = At(i)
  <2>1. CASE j \in 0..Len(queue)
    BY <1>2, <2>1
  <2>2. CASE j \notin 0..Len(queue)
    <3>1. j = Len(queue) + 1 /\ Len(queue) \in 0..Len(queue)
      BY <1>2, <2>2
    <3> QED BY <1>2, <1>3, <3>1
  <2> QED
    BY <2>1, <2>2
<1> QED
  BY <1>1, <1>2, <1>4, QuietBalance

LEMMA ExecuteBalance ==
    ASSUME AuctionInv, BalanceInv, queue # << >>, queue' = Tail(queue),
           disk' = IF Head(queue).kind = "commit" THEN Head(queue).contents ELSE disk,
           crashes' = crashes
    PROVE  BalanceInv'
<1>1. queue \in Seq(Operations)
  BY DEF AuctionInv, MemoryType
<1>2. /\ Len(queue) \in Nat /\ Len(queue') \in Nat /\ Len(queue') + 1 = Len(queue)
      /\ \A j \in 0..Len(queue') : AtNext(j) = At(j + 1)
      /\ Planned' = Planned
  BY <1>1, ExecuteSeen
<1>3. ASSUME NEW j \in 0..Len(queue') PROVE \E i \in 0..Len(queue) : AtNext(j) = At(i)
  <2>1. j + 1 \in 0..Len(queue)
    BY <1>2
  <2> QED
    BY <1>2, <2>1
<1> QED
  BY <1>2, <1>3, QuietBalance

LEMMA SameBalanceInv ==
    ASSUME AuctionInv, BalanceInv, UNCHANGED <<disk, queue>>, crashes' = crashes, Planned' = Planned
    PROVE  BalanceInv'
<1>1. Len(queue) \in Nat /\ queue' = queue /\ disk' = disk
  BY DEF AuctionInv, MemoryType
<1>2. \A j : AtNext(j) = At(j)
  BY <1>1 DEF AtNext, At
<1> QED
  BY <1>1, <1>2, QuietBalance

LEMMA CrashBalance ==
    ASSUME AuctionInv, BalanceInv, Crash
    PROVE  BalanceInv'
<1>1. AuctionInv' /\ crashes' # 0 /\ queue' = << >> /\ disk' = disk
  BY CrashStep DEF Crash, QueueLost
<1>2. Len(queue) \in Nat /\ Len(queue') = 0
  BY <1>1 DEF AuctionInv, MemoryType
<1>3. AtNext(0) = At(0)
  BY <1>1, SeenFirst DEF At, AtNext
<1>4. Right(At(0))
  <2>1. 0 \in 0..Len(queue)
    BY <1>2
  <2> QED
    BY <2>1 DEF BalanceInv
<1>5. \A j \in 0..Len(queue') : j = 0
  BY <1>2
<1> QED
  BY <1>1, <1>3, <1>4, <1>5, BalancePrime

-----------------------------------------------------------------------------
(* At first.                                                               *)

LEMMA SumConstant ==
    ASSUME NEW S, IsFiniteSet(S), NEW n \in Nat, NEW f, \A x \in S : f[x] = n
    PROVE  SumFunctionOnSet(f, S) = n * Cardinality(S)
<1> DEFINE Bad == {T \in SUBSET S : SumFunctionOnSet(f, T) # n * Cardinality(T)}
<1>1. Bad \in SUBSET (SUBSET S)
  OBVIOUS
<1>2. SUFFICES ASSUME Bad # {} PROVE FALSE
  OBVIOUS
<1>3. PICK T \in Bad : IsFiniteSet(T) /\ \A x \in T : T \ {x} \notin Bad
  BY <1>1, <1>2, LeastSet
<1>4. T # {}
  <2>1. SumFunctionOnSet(f, {}) = 0 /\ Cardinality({}) = 0 /\ n * 0 = 0
    BY SumEmpty, FS_EmptySet
  <2> QED
    BY <1>3, <2>1
<1>5. PICK x \in T : TRUE
  BY <1>4
<1> DEFINE R == T \ {x}
<1>6. SumFunctionOnSet(f, T) = n + SumFunctionOnSet(f, R)
  <2>1. \A y \in T : f[y] = n /\ f[y] \in Int
    BY <1>3
  <2> QED
    BY <1>3, <1>5, <2>1, SumWithout
<1>7. SumFunctionOnSet(f, R) = n * Cardinality(R)
  BY <1>3, <1>5
<1>8. Cardinality(R) = Cardinality(T) - 1 /\ Cardinality(T) \in Nat
  BY <1>3, <1>5, FS_RemoveElement, FS_CardinalityType
<1> DEFINE k == Cardinality(T)
<1>9. n * k = n + n * (k - 1)
  BY <1>8
<1> HIDE DEF R, Bad
<1>10. SumFunctionOnSet(f, T) = n * k
  BY <1>6, <1>7, <1>8, <1>9
<1> QED
  BY <1>3, <1>10 DEF Bad

LEMMA RightFirst ==
    ASSUME NEW d, NEW p \in Players,
           d.gold = [q \in Players |-> StartGold],
           d.bag = [q \in Players |-> IF q = p THEN Units ELSE {}],
           d.auctions = NoAuctions, d.mails = EmptyBag, d.fees = 0, d.moving = {}
    PROVE  Right(d)
<1>1. IsFiniteSet(Players) /\ StartGold \in Nat
  BY AuctionAssumption
<1>2. \A v : Stake(v, d.auctions) = 0
  BY NoHouse, SumEmpty DEF Stake
<1>3. \A w : Mass(w, d.mails) = 0
  BY EmptyMailbox, SumEmpty DEF Mass
<1>4. ASSUME NEW u \in Units PROVE UnitsOf(d, u) = 1
  <2> DEFINE f == [q \in Players |-> Among(u, d.bag[q])]
  <2>1. \A q \in Players : f[q] = IF q = p THEN 1 ELSE 0
    BY DEF Among
  <2> HIDE DEF f
  <2>2. SumFunctionOnSet(f, Players) = SumFunctionOnSet(f, {p})
    BY <1>1, <2>1, SumOfSome
  <2>3. SumFunctionOnSet(f, {p}) = 1
    <3>1. f[p] = 1 /\ f[p] \in Int
      BY <2>1
    <3> QED BY <3>1, SumOne
  <2>4. BagsWith(d.bag, u) = 1
    BY <2>2, <2>3 DEF f, BagsWith
  <2>5. Among(u, d.moving) = 0
    BY DEF Among
  <2> QED
    BY <1>2, <1>3, <2>4, <2>5 DEF UnitsOf
<1>5. GoldOf(d) = StartGold * Cardinality(Players)
  <2>1. SumFunctionOnSet(d.gold, Players) = StartGold * Cardinality(Players)
    BY <1>1, SumConstant
  <2>2. Cardinality(Players) \in Nat
    BY <1>1, FS_CardinalityType
  <2> DEFINE n == StartGold * Cardinality(Players)
  <2>3. n \in Int
    BY <1>1, <2>2
  <2> HIDE DEF n
  <2> QED
    BY <1>2, <1>3, <2>1, <2>3 DEF GoldOf, n
<1> QED
  BY <1>4, <1>5 DEF Right

LEMMA FirstBalance ==
    ASSUME Init
    PROVE  BalanceInv
<1>1. Planned = disk /\ \A j \in 0..Len(queue) : At(j) = disk
  BY AtFirst
<1>2. PICK p \in Players :
        disk = [gold |-> [q \in Players |-> StartGold],
                bag |-> [q \in Players |-> IF q = p THEN Units ELSE {}],
                auctions |-> NoAuctions, mails |-> EmptyBag, fees |-> 0, moving |-> {}]
  BY DEF Init
<1>3. /\ disk.gold = [q \in Players |-> StartGold]
      /\ disk.bag = [q \in Players |-> IF q = p THEN Units ELSE {}]
      /\ disk.auctions = NoAuctions /\ disk.mails = EmptyBag /\ disk.fees = 0 /\ disk.moving = {}
  BY <1>2
<1>4. Right(disk)
  BY <1>3, RightFirst
<1> QED
  BY <1>1, <1>3, <1>4 DEF BalanceInv

-----------------------------------------------------------------------------
(* A later operation overtakes one with which it has no rows in common. In *)
(* the tables between them each row is as before both or as after both.    *)

\* A row that is the same in both.
SameRow(x, f, g) == (x \in DOMAIN f <=> x \in DOMAIN g) /\ (x \in DOMAIN f => f[x] = g[x])

\* A row of m is as in f where g and h have the same, and otherwise as in h.
Mixes(m, f, g, h) ==
    \A x : (SameRow(x, m, f) /\ SameRow(x, g, h)) \/ (SameRow(x, m, h) /\ SameRow(x, f, g))

LEMMA DifferingRows ==
    ASSUME NEW f, NEW g, NEW x
    PROVE  x \in Differing(f, g) <=> ~SameRow(x, f, g)
BY DEF Differing, SameRow

LEMMA ChangedRows ==
    ASSUME NEW f, NEW g, NEW h, NEW m, m = Changed(f, g, h)
    PROVE  /\ m = [x \in DOMAIN m |-> m[x]]
           /\ \A x : IF SameRow(x, g, h) THEN SameRow(x, m, f) ELSE SameRow(x, m, h)
<1> DEFINE new == Differing(g, h)
           D == (DOMAIN f \ new) \cup (DOMAIN h \cap new)
<1>1. m = [x \in D |-> IF x \in new THEN h[x] ELSE f[x]]
  BY DEF Changed
<1>2. \A x : x \in new <=> ~SameRow(x, g, h)
  BY DifferingRows
<1> HIDE DEF new
<1>3. DOMAIN m = D /\ \A x \in D : m[x] = IF x \in new THEN h[x] ELSE f[x]
  BY <1>1
<1> QED
  BY <1>1, <1>2, <1>3 DEF SameRow

LEMMA ChangedMixes ==
    ASSUME NEW f, NEW g, NEW h, NEW m, m = Changed(f, g, h),
           Differing(f, g) \cap Differing(g, h) = {}
    PROVE  Mixes(m, f, g, h)
<1>1. \A x : SameRow(x, f, g) \/ SameRow(x, g, h)
  BY DifferingRows
<1>2. \A x : IF SameRow(x, g, h) THEN SameRow(x, m, f) ELSE SameRow(x, m, h)
  BY ChangedRows
<1> QED
  BY <1>1, <1>2 DEF Mixes

LEMMA MixedRow ==
    ASSUME NEW m, NEW f, NEW g, NEW h, Mixes(m, f, g, h), NEW x \in DOMAIN m
    PROVE  (x \in DOMAIN f /\ m[x] = f[x]) \/ (x \in DOMAIN h /\ m[x] = h[x])
BY DEF Mixes, SameRow

\* Of two operations one of which changes nothing.
LEMMA ChangedNothing ==
    ASSUME NEW f, f = [x \in DOMAIN f |-> f[x]], NEW g
    PROVE  Changed(f, g, g) = f /\ Changed(g, g, f) = f
<1>1. ASSUME NEW m, m = [x \in DOMAIN m |-> m[x]], \A x : SameRow(x, m, f) PROVE m = f
  BY <1>1 DEF SameRow
<1>2. \A x : SameRow(x, g, g)
  BY DEF SameRow
<1>3. \A x : SameRow(x, g, f) => \A e : SameRow(x, e, g) => SameRow(x, e, f)
  BY DEF SameRow
<1>4. Changed(f, g, g) = f
  <2>1. \A x : SameRow(x, Changed(f, g, g), f)
    BY <1>2, ChangedRows
  <2> QED
    BY <1>1, <2>1, ChangedRows
<1>5. Changed(g, g, f) = f
  <2>1. \A x : SameRow(x, Changed(g, g, f), f)
    BY <1>3, ChangedRows
  <2> QED
    BY <1>1, <2>1, ChangedRows
<1> QED
  BY <1>4, <1>5

\* Sums of values each of which crosses over.
LEMMA SumCrossed ==
    ASSUME NEW S, IsFiniteSet(S), NEW m, NEW f, NEW g, NEW h,
           \A x \in S : /\ f[x] \in Int /\ g[x] \in Int /\ h[x] \in Int
                        /\ (m[x] = f[x] /\ g[x] = h[x]) \/ (m[x] = h[x] /\ f[x] = g[x])
    PROVE  SumFunctionOnSet(m, S) + SumFunctionOnSet(g, S)
             = SumFunctionOnSet(f, S) + SumFunctionOnSet(h, S)
<1> DEFINE both == [x \in S |-> f[x] + h[x]]
<1>1. \A x \in S : m[x] \in Int /\ g[x] \in Int /\ both[x] = m[x] + g[x]
  OBVIOUS
<1>2. \A x \in S : f[x] \in Int /\ h[x] \in Int /\ both[x] = f[x] + h[x]
  OBVIOUS
<1> HIDE DEF both
<1>3. SumFunctionOnSet(both, S) = SumFunctionOnSet(m, S) + SumFunctionOnSet(g, S)
  BY <1>1, SumAdded
<1>4. SumFunctionOnSet(both, S) = SumFunctionOnSet(f, S) + SumFunctionOnSet(h, S)
  BY <1>2, SumAdded
<1> QED
  BY <1>3, <1>4

\* What the auction of each number is worth.
StakeAt(v, as) == [id \in 1..MaxAuctions |-> IF id \in DOMAIN as THEN v[as[id]] ELSE 0]

LEMMA StakeOver ==
    ASSUME NEW v \in Values, NEW as \in Houses
    PROVE  /\ Stake(v, as) = SumFunctionOnSet(StakeAt(v, as), 1..MaxAuctions)
           /\ \A id \in 1..MaxAuctions : StakeAt(v, as)[id] \in Int
<1> DEFINE f == [id \in DOMAIN as |-> v[as[id]]]
           g == StakeAt(v, as)
           I == 1..MaxAuctions
<1>1. IsFiniteSet(I) /\ DOMAIN as \subseteq I /\ IsFiniteSet(DOMAIN as)
  <2>1. MaxAuctions \in Int /\ 1 \in Int
    BY AuctionAssumption
  <2> QED
    BY <2>1, HouseType, HouseFinite, FS_Interval
<1>2. \A id \in DOMAIN as : v[as[id]] \in Int
  BY ValueInt
<1> HIDE DEF I
<1>3. \A id \in I : g[id] = IF id \in DOMAIN as THEN v[as[id]] ELSE 0
  BY DEF StakeAt, I
<1>4. \A id \in DOMAIN as : f[id] = v[as[id]]
  OBVIOUS
<1>5. Stake(v, as) = SumFunctionOnSet(f, DOMAIN as)
  BY DEF Stake
<1> HIDE DEF f, g
<1>6. (\A id \in I : g[id] \in Int) /\ \A id \in I \ DOMAIN as : g[id] = 0
  <2>1. 0 \in Int
    OBVIOUS
  <2> QED
    BY <1>2, <1>3, <2>1, Zenon
<1>7. SumFunctionOnSet(g, I) = SumFunctionOnSet(g, DOMAIN as)
  BY <1>1, <1>6, SumOfSome
<1>8. \A id \in DOMAIN as : g[id] = f[id]
  BY <1>1, <1>3, <1>4
<1>9. SumFunctionOnSet(g, DOMAIN as) = SumFunctionOnSet(f, DOMAIN as)
  BY <1>1, <1>8, SumEqual
<1> QED
  BY <1>5, <1>6, <1>7, <1>9 DEF g, I

LEMMA StakeCrossed ==
    ASSUME NEW v \in Values, NEW m \in Houses, NEW f \in Houses, NEW g \in Houses, NEW h \in Houses,
           Mixes(m, f, g, h)
    PROVE  Stake(v, m) + Stake(v, g) = Stake(v, f) + Stake(v, h)
<1> DEFINE I == 1..MaxAuctions
           M == StakeAt(v, m)
           F == StakeAt(v, f)
           G == StakeAt(v, g)
           H == StakeAt(v, h)
<1>1. /\ Stake(v, m) = SumFunctionOnSet(M, I) /\ Stake(v, f) = SumFunctionOnSet(F, I)
      /\ Stake(v, g) = SumFunctionOnSet(G, I) /\ Stake(v, h) = SumFunctionOnSet(H, I)
      /\ \A x \in I : F[x] \in Int /\ G[x] \in Int /\ H[x] \in Int
  BY StakeOver
<1>2. \A as, bs : \A x \in I : SameRow(x, as, bs) => StakeAt(v, as)[x] = StakeAt(v, bs)[x]
  BY DEF SameRow, StakeAt
<1>3. \A x \in I : \/ M[x] = F[x] /\ G[x] = H[x]
                   \/ M[x] = H[x] /\ F[x] = G[x]
  BY <1>2 DEF Mixes
<1>4. IsFiniteSet(I)
  BY FS_Interval, AuctionAssumption
<1> HIDE DEF I, M, F, G, H
<1> QED
  BY <1>1, <1>3, <1>4, SumCrossed

LEMMA MixedCopies ==
    ASSUME NEW m, NEW f, NEW g, NEW h, Mixes(m, f, g, h), NEW l
    PROVE  \/ Copies(l, m) = Copies(l, f) /\ Copies(l, g) = Copies(l, h)
           \/ Copies(l, m) = Copies(l, h) /\ Copies(l, f) = Copies(l, g)
BY DEF Mixes, SameRow, Copies

LEMMA MassCrossed ==
    ASSUME NEW w \in Weights, NEW m \in Mailboxes, NEW f \in Mailboxes, NEW g \in Mailboxes,
           NEW h \in Mailboxes, Mixes(m, f, g, h)
    PROVE  Mass(w, m) + Mass(w, g) = Mass(w, f) + Mass(w, h)
<1> DEFINE S == DOMAIN m \cup DOMAIN f \cup DOMAIN g \cup DOMAIN h
           at(b) == [l \in S |-> w[l] * Copies(l, b)]
<1>1. \A b \in {m, f, g, h} : IsABag(b) /\ IsFiniteSet(DOMAIN b) /\ DOMAIN b \subseteq Posted
  BY MailboxType
<1>2. IsFiniteSet(S) /\ S \subseteq Posted
  BY <1>1, FS_Union
<1>3. \A l \in S : w[l] \in Int
  BY <1>2 DEF Weights
<1>4. \A b \in {m, f, g, h} : DOMAIN b \subseteq S
  OBVIOUS
<1> HIDE DEF S
<1>5. \A b \in {m, f, g, h} : Mass(w, b) = SumFunctionOnSet(at(b), S)
  BY <1>1, <1>2, <1>3, <1>4, MassOver
<1>6. \A l \in S : \A b \in {m, f, g, h} : at(b)[l] \in Int
  <2>1. \A b \in {m, f, g, h}, l \in S : Copies(l, b) \in Int /\ w[l] * Copies(l, b) \in Int
    BY <1>1, <1>3, BagCopies
  <2> QED
    BY <2>1
<1>7. \A l \in S : \/ at(m)[l] = at(f)[l] /\ at(g)[l] = at(h)[l]
                   \/ at(m)[l] = at(h)[l] /\ at(f)[l] = at(g)[l]
  BY MixedCopies
<1> HIDE DEF at
<1>8. SumFunctionOnSet(at(m), S) + SumFunctionOnSet(at(g), S)
        = SumFunctionOnSet(at(f), S) + SumFunctionOnSet(at(h), S)
  BY <1>2, <1>6, <1>7, SumCrossed
<1> QED
  BY <1>5, <1>8

LEMMA BagsCrossed ==
    ASSUME NEW u, NEW m \in [Players -> SUBSET Units], NEW f \in [Players -> SUBSET Units],
           NEW g \in [Players -> SUBSET Units], NEW h \in [Players -> SUBSET Units], Mixes(m, f, g, h)
    PROVE  BagsWith(m, u) + BagsWith(g, u) = BagsWith(f, u) + BagsWith(h, u)
<1> DEFINE at(b) == [p \in Players |-> Among(u, b[p])]
           M == at(m)
           F == at(f)
           G == at(g)
           H == at(h)
<1>1. \A p \in Players : (m[p] = f[p] /\ g[p] = h[p]) \/ (m[p] = h[p] /\ f[p] = g[p])
  BY DEF Mixes, SameRow
<1>2. \A p \in Players : /\ F[p] \in Int /\ G[p] \in Int /\ H[p] \in Int
                         /\ (M[p] = F[p] /\ G[p] = H[p]) \/ (M[p] = H[p] /\ F[p] = G[p])
  BY <1>1, AmongNat
<1>3. IsFiniteSet(Players)
  BY AuctionAssumption
<1> HIDE DEF M, F, G, H
<1>4. SumFunctionOnSet(M, Players) + SumFunctionOnSet(G, Players)
        = SumFunctionOnSet(F, Players) + SumFunctionOnSet(H, Players)
  BY <1>2, <1>3, SumCrossed
<1> QED
  BY <1>4 DEF BagsWith, M, F, G, H

LEMMA PursesCrossed ==
    ASSUME NEW m \in [Players -> Nat], NEW f \in [Players -> Nat], NEW g \in [Players -> Nat],
           NEW h \in [Players -> Nat], Mixes(m, f, g, h)
    PROVE  SumFunctionOnSet(m, Players) + SumFunctionOnSet(g, Players)
             = SumFunctionOnSet(f, Players) + SumFunctionOnSet(h, Players)
<1>1. \A p \in Players : /\ f[p] \in Int /\ g[p] \in Int /\ h[p] \in Int
                         /\ (m[p] = f[p] /\ g[p] = h[p]) \/ (m[p] = h[p] /\ f[p] = g[p])
  BY DEF Mixes, SameRow
<1>2. IsFiniteSet(Players)
  BY AuctionAssumption
<1> QED
  BY <1>1, <1>2, SumCrossed

\* The tables m between two operations, from a over b to c.
Mixed(a, b, c) ==
    [gold |-> Changed(a.gold, b.gold, c.gold), bag |-> Changed(a.bag, b.bag, c.bag),
     auctions |-> Changed(a.auctions, b.auctions, c.auctions),
     mails |-> Changed(a.mails, b.mails, c.mails),
     fees |-> a.fees + (c.fees - b.fees),
     moving |-> (a.moving \ (b.moving \ c.moving)) \cup (c.moving \ b.moving)]

Apart(a, b, c) ==
    /\ Differing(a.gold, b.gold) \cap Differing(b.gold, c.gold) = {}
    /\ Differing(a.bag, b.bag) \cap Differing(b.bag, c.bag) = {}
    /\ Differing(a.auctions, b.auctions) \cap Differing(b.auctions, c.auctions) = {}
    /\ Differing(a.mails, b.mails) \cap Differing(b.mails, c.mails) = {}
    /\ \A u : (u \in a.moving <=> u \in b.moving) \/ (u \in b.moving <=> u \in c.moving)

LEMMA MixedIs ==
    ASSUME NEW a \in Contents, NEW b \in Contents, NEW c \in Contents, Apart(a, b, c),
           NEW m, m = Mixed(a, b, c)
    PROVE  /\ Mixes(m.gold, a.gold, b.gold, c.gold) /\ Mixes(m.bag, a.bag, b.bag, c.bag)
           /\ Mixes(m.auctions, a.auctions, b.auctions, c.auctions)
           /\ Mixes(m.mails, a.mails, b.mails, c.mails)
           /\ m.fees = a.fees + (c.fees - b.fees)
           /\ \A u : \/ (u \in m.moving <=> u \in a.moving) /\ (u \in b.moving <=> u \in c.moving)
                     \/ (u \in m.moving <=> u \in c.moving) /\ (u \in a.moving <=> u \in b.moving)
<1>1. /\ m.gold = Changed(a.gold, b.gold, c.gold) /\ m.bag = Changed(a.bag, b.bag, c.bag)
      /\ m.auctions = Changed(a.auctions, b.auctions, c.auctions)
      /\ m.mails = Changed(a.mails, b.mails, c.mails)
      /\ m.fees = a.fees + (c.fees - b.fees)
      /\ m.moving = (a.moving \ (b.moving \ c.moving)) \cup (c.moving \ b.moving)
  BY DEF Mixed
<1>2. \A u : \/ (u \in m.moving <=> u \in a.moving) /\ (u \in b.moving <=> u \in c.moving)
             \/ (u \in m.moving <=> u \in c.moving) /\ (u \in a.moving <=> u \in b.moving)
  BY <1>1 DEF Apart
<1> QED
  BY <1>1, <1>2, ChangedMixes DEF Apart

LEMMA ChangedPlayers ==
    ASSUME NEW T, NEW f \in [Players -> T], NEW g \in [Players -> T], NEW h \in [Players -> T],
           NEW m, m = Changed(f, g, h)
    PROVE  m \in [Players -> T]
<1>1. /\ m = [x \in DOMAIN m |-> m[x]]
      /\ \A x : SameRow(x, m, f) \/ SameRow(x, m, h)
  BY ChangedRows
<1>2. DOMAIN m = Players /\ \A x \in Players : m[x] \in T
  BY <1>1 DEF SameRow
<1> QED
  BY <1>1, <1>2

LEMMA MixedContents ==
    ASSUME NEW a \in Contents, NEW b \in Contents, NEW c \in Contents, NEW m, m = Mixed(a, b, c)
    PROVE  m \in Contents
<1>1. /\ a.gold \in [Players -> Nat] /\ b.gold \in [Players -> Nat] /\ c.gold \in [Players -> Nat]
      /\ a.bag \in [Players -> SUBSET Units] /\ b.bag \in [Players -> SUBSET Units]
      /\ c.bag \in [Players -> SUBSET Units]
      /\ a.auctions \in Houses /\ c.auctions \in Houses
      /\ a.mails \in Mailboxes /\ c.mails \in Mailboxes
      /\ a.fees \in Int /\ b.fees \in Int /\ c.fees \in Int
      /\ a.moving \in SUBSET Units /\ c.moving \in SUBSET Units
  BY ContentsType
<1> DEFINE as == Changed(a.auctions, b.auctions, c.auctions)
           ls == Changed(a.mails, b.mails, c.mails)
<1>2. Changed(a.gold, b.gold, c.gold) \in [Players -> Nat]
  BY <1>1, ChangedPlayers
<1>3. Changed(a.bag, b.bag, c.bag) \in [Players -> SUBSET Units]
  BY <1>1, ChangedPlayers
<1>4. as \in Houses
  <2>1. /\ as = [x \in DOMAIN as |-> as[x]]
        /\ \A x : SameRow(x, as, a.auctions) \/ SameRow(x, as, c.auctions)
    BY ChangedRows
  <2> HIDE DEF as
  <2>2. \A x \in DOMAIN as : x \in 1..MaxAuctions /\ as[x] \in Offers
    BY <1>1, <2>1, OfferType DEF SameRow
  <2> QED
    BY <2>1, <2>2, HouseType
<1>5. ls \in Mailboxes
  <2>1. /\ ls = [x \in DOMAIN ls |-> ls[x]]
        /\ \A x : SameRow(x, ls, a.mails) \/ SameRow(x, ls, c.mails)
    BY ChangedRows
  <2>2. /\ IsABag(a.mails) /\ IsFiniteSet(DOMAIN a.mails) /\ DOMAIN a.mails \subseteq Posted
        /\ IsABag(c.mails) /\ IsFiniteSet(DOMAIN c.mails) /\ DOMAIN c.mails \subseteq Posted
    BY <1>1, MailboxType
  <2> HIDE DEF ls
  <2>3. /\ DOMAIN ls \subseteq DOMAIN a.mails \cup DOMAIN c.mails
        /\ \A x \in DOMAIN ls : ls[x] \in {n \in Nat : n > 0}
    BY <2>1, <2>2 DEF SameRow, IsABag
  <2>4. IsABag(ls)
    BY <2>1, <2>3 DEF IsABag
  <2>5. IsFiniteSet(DOMAIN ls)
    BY <2>2, <2>3, FS_Union, FS_Subset
  <2> QED
    BY <2>2, <2>3, <2>4, <2>5, MailboxType
<1>6. a.fees + (c.fees - b.fees) \in Int
  BY <1>1
<1>7. (a.moving \ (b.moving \ c.moving)) \cup (c.moving \ b.moving) \in SUBSET Units
  BY <1>1
<1> HIDE DEF as, ls
<1> QED
  BY <1>2, <1>3, <1>4, <1>5, <1>6, <1>7 DEF Contents, Mixed, as, ls

LEMMA MixedRight ==
    ASSUME NEW a \in Contents, NEW b \in Contents, NEW c \in Contents, Apart(a, b, c),
           NEW m, m = Mixed(a, b, c), Right(a), Right(b), Right(c)
    PROVE  Right(m)
<1>1. m \in Contents
  BY MixedContents
<1>2. \A d \in {m, a, b, c} :
        /\ d \in Contents
        /\ d.gold \in [Players -> Nat] /\ d.bag \in [Players -> SUBSET Units]
        /\ d.auctions \in Houses /\ d.mails \in Mailboxes /\ d.fees \in Int
  BY <1>1, ContentsType
<1>3. /\ Mixes(m.gold, a.gold, b.gold, c.gold) /\ Mixes(m.bag, a.bag, b.bag, c.bag)
      /\ Mixes(m.auctions, a.auctions, b.auctions, c.auctions)
      /\ Mixes(m.mails, a.mails, b.mails, c.mails)
      /\ m.fees = a.fees + (c.fees - b.fees)
      /\ \A u : \/ (u \in m.moving <=> u \in a.moving) /\ (u \in b.moving <=> u \in c.moving)
                \/ (u \in m.moving <=> u \in c.moving) /\ (u \in a.moving <=> u \in b.moving)
  BY MixedIs
<1>4. ASSUME NEW u \in Units PROVE UnitsOf(m, u) = 1
  <2> DEFINE B(d) == BagsWith(d.bag, u)
             S(d) == Stake(OfferHas(u), d.auctions)
             M(d) == Mass(LetterHas(u), d.mails)
             V(d) == Among(u, d.moving)
  <2>1. \A d \in {m, a, b, c} : B(d) \in Int /\ S(d) \in Int /\ M(d) \in Int /\ V(d) \in Int
    BY <1>2, UnitParts
  <2>2. B(m) + B(b) = B(a) + B(c)
    BY <1>2, <1>3, BagsCrossed
  <2>3. S(m) + S(b) = S(a) + S(c)
    BY <1>2, <1>3, HasWeights, StakeCrossed
  <2>4. M(m) + M(b) = M(a) + M(c)
    BY <1>2, <1>3, HasWeights, MassCrossed
  <2>5. V(m) + V(b) = V(a) + V(c)
    BY <1>3 DEF Among
  <2>6. \A d : UnitsOf(d, u) = B(d) + S(d) + M(d) + V(d)
    BY DEF UnitsOf
  <2>7. UnitsOf(a, u) = 1 /\ UnitsOf(b, u) = 1 /\ UnitsOf(c, u) = 1
    BY DEF Right
  <2> HIDE DEF B, S, M, V
  <2> QED
    BY <2>1, <2>2, <2>3, <2>4, <2>5, <2>6, <2>7
<1>5. ASSUME ProfitsFit PROVE GoldOf(m) = StartGold * Cardinality(Players)
  <2> DEFINE G(d) == SumFunctionOnSet(d.gold, Players)
             M(d) == Mass(LetterGold, d.mails)
             S(d) == Stake(OfferGold, d.auctions)
             all == StartGold * Cardinality(Players)
  <2>1. \A d \in {m, a, b, c} : G(d) \in Int /\ M(d) \in Int /\ d.fees \in Int /\ S(d) \in Int
    BY <1>2, GoldParts
  <2>2. G(m) + G(b) = G(a) + G(c)
    BY <1>2, <1>3, PursesCrossed
  <2>3. M(m) + M(b) = M(a) + M(c)
    BY <1>2, <1>3, GoldWeights, MassCrossed
  <2>4. S(m) + S(b) = S(a) + S(c)
    BY <1>2, <1>3, GoldWeights, StakeCrossed
  <2>5. \A d : GoldOf(d) = G(d) + M(d) + d.fees + S(d)
    BY DEF GoldOf
  <2>6. GoldOf(a) = all /\ GoldOf(b) = all /\ GoldOf(c) = all
    BY <1>5 DEF Right
  <2> HIDE DEF G, M, S, all
  <2>7. GoldOf(m) = all
    BY <1>3, <2>1, <2>2, <2>3, <2>4, <2>5, <2>6
  <2> QED
    BY <2>7 DEF all
<1> QED
  BY <1>4, <1>5 DEF Right

\* Where no unit is twice, no two auctions have the same item.
LEMMA RightSound ==
    ASSUME NEW d \in Contents, Right(d), NEW n, \A id \in DOMAIN d.auctions : id < n
    PROVE  Sound(d, n)
<1>1. SUFFICES ASSUME NEW i \in DOMAIN d.auctions, NEW k \in DOMAIN d.auctions,
                      d.auctions[i].units = d.auctions[k].units
               PROVE  i = k
  BY DEF Sound
<1>2. d.auctions[i].units \in SUBSET Units /\ d.auctions[i].units # {}
  BY ContentsType, OfferType, AuctionType
<1>3. PICK u \in Units : u \in d.auctions[i].units
  BY <1>2
<1>4. UnitsOf(d, u) = 1
  BY DEF Right
<1> QED
  BY <1>1, <1>3, <1>4, InAnAuction

\* What nobody loses before or after both he does not lose in between.
LEMMA MixedViews ==
    ASSUME NEW a \in Contents, NEW b \in Contents, NEW c \in Contents, Apart(a, b, c),
           NEW m, m = Mixed(a, b, c), NEW q \in Players, NEW d
    PROVE  /\ a.gold[q] = d.gold[q] /\ c.gold[q] = d.gold[q] => m.gold[q] = d.gold[q]
           /\ a.bag[q] = d.bag[q] /\ c.bag[q] = d.bag[q] => m.bag[q] = d.bag[q]
           /\ Keeps(q, a, d) /\ Keeps(q, c, d) => Keeps(q, m, d)
<1>1. /\ Mixes(m.gold, a.gold, b.gold, c.gold) /\ Mixes(m.bag, a.bag, b.bag, c.bag)
      /\ Mixes(m.mails, a.mails, b.mails, c.mails)
  BY MixedIs
<1>2. m \in Contents
  BY MixedContents
<1>3. q \in DOMAIN m.gold /\ q \in DOMAIN m.bag
  BY <1>2, ContentsType
<1>4. (m.gold[q] = a.gold[q] \/ m.gold[q] = c.gold[q]) /\ (m.bag[q] = a.bag[q] \/ m.bag[q] = c.bag[q])
  BY <1>1, <1>3, MixedRow
<1>5. \A l : Copies(l, m.mails) = Copies(l, a.mails) \/ Copies(l, m.mails) = Copies(l, c.mails)
  BY <1>1, MixedCopies
<1>6. Keeps(q, a, d) /\ Keeps(q, c, d) => Keeps(q, m, d)
  BY <1>5 DEF Keeps
<1> QED
  BY <1>4, <1>6

LEMMA SeenFrom ==
    ASSUME NEW d, NEW q, NEW e, NEW r, NEW k \in Nat, NEW j \in Nat, k <= j,
           Seen(d, q, k) = Seen(e, r, k), \A i \in (k + 1)..j : q[i] = r[i]
    PROVE  Seen(d, q, j) = Seen(e, r, j)
<1> DEFINE bad == {n \in Nat : k <= n /\ n <= j /\ Seen(d, q, n) # Seen(e, r, n)}
<1>1. SUFFICES ASSUME bad # {} PROVE FALSE
  OBVIOUS
<1>2. PICK n \in bad : \A x \in bad : n <= x
  <2> HIDE DEF bad
  <2>1. bad \in SUBSET Nat
    BY DEF bad
  <2> QED
    BY <1>1, <2>1, LeastNumber
<1>3. n \in Nat /\ k <= n /\ n <= j /\ n # k /\ Seen(d, q, n) # Seen(e, r, n)
  OBVIOUS
<1> DEFINE o == n - 1
<1>4. o \in Nat /\ k <= o /\ o <= j /\ ~(n <= o) /\ o + 1 = n /\ n \in (k + 1)..j
  BY <1>3
<1>5. Seen(d, q, o) = Seen(e, r, o)
  <2>1. o \notin bad
    <3> HIDE DEF bad, o
    <3> QED BY <1>2, <1>4
  <2> HIDE DEF o
  <2> QED
    BY <1>4, <2>1
<1> HIDE DEF bad, o
<1>6. q[o + 1] = r[o + 1]
  BY <1>4
<1> QED
  BY <1>3, <1>4, <1>5, <1>6, SeenNext

LEMMA AfterIsAt == \A n : After(n) = At(n)
BY DEF After, At, Seen

\* An operation that has changed its place.
Leaving(operation, contents) ==
    IF operation.kind = "commit" THEN [operation EXCEPT !.contents = contents] ELSE operation

LEMMA LeavingType ==
    ASSUME NEW o \in Operations, NEW c \in Contents
    PROVE  /\ Leaving(o, c) \in Operations /\ Leaving(o, c).kind = o.kind
           /\ o.kind \in {"commit", "load"}
           /\ o.kind = "commit" => Leaving(o, c).contents = c
           /\ o.kind # "commit" => Leaving(o, c) = o
<1> DEFINE C == Contents
<1>1. o \in [kind : {"commit"}, by : SUBSET Players, contents : C]
      \/ o \in [kind : {"load"}, for : Players]
  BY DEF Operations
<1> HIDE DEF C
<1>2. CASE o \in [kind : {"commit"}, by : SUBSET Players, contents : C]
  <2>1. c \in C
    BY DEF C
  <2>2. o.kind = "commit" /\ Leaving(o, c) = [o EXCEPT !.contents = c]
    BY <1>2 DEF Leaving
  <2>3. /\ Leaving(o, c) \in [kind : {"commit"}, by : SUBSET Players, contents : C]
        /\ Leaving(o, c).contents = c
    BY <1>2, <2>1, <2>2
  <2> QED
    BY <2>2, <2>3 DEF Operations, C
<1>3. CASE o \in [kind : {"load"}, for : Players]
  BY <1>3 DEF Leaving
<1> QED
  BY <1>1, <1>2, <1>3

LEMMA OvertakeSeen ==
    ASSUME queue \in Seq(Operations), NEW i \in 1..(Len(queue) - 1), NEW m \in Contents,
           At(i + 1) \in Contents, Overtake(i, m),
           queue[i].kind = "load" => m = At(i + 1),
           queue[i + 1].kind = "load" => m = At(i - 1)
    PROVE  /\ queue' \in Seq(Operations) /\ Len(queue) \in Nat /\ Len(queue') = Len(queue)
           /\ \A k \in 1..Len(queue) : k # i /\ k # i + 1 => queue'[k] = queue[k]
           /\ \A p : LoadNext(p, i) <=> Loads(p, i + 1)
           /\ \A p : LoadNext(p, i + 1) <=> Loads(p, i)
           /\ \A j \in 0..Len(queue) : AtNext(j) = IF j = i THEN m ELSE At(j)
           /\ Planned' = Planned
<1> DEFINE n == Len(queue)
           o == queue[i]
           u == queue[i + 1]
           c == At(i + 1)
<1>1. n \in Nat /\ i \in 1..n /\ i + 1 \in 1..n /\ i - 1 \in Nat /\ i \in Nat /\ i # i + 1
      /\ (i - 1) + 1 = i
  OBVIOUS
<1>2. queue' = [queue EXCEPT ![i] = Leaving(u, m), ![i + 1] = Leaving(o, c)] /\ disk' = disk
  BY AfterIsAt DEF Overtake, Leaving
<1>3. o \in Operations /\ u \in Operations
  BY <1>1
<1> HIDE DEF o, u, c
<1>4. /\ Leaving(u, m) \in Operations /\ Leaving(u, m).kind = u.kind
      /\ u.kind = "commit" => Leaving(u, m).contents = m
      /\ u.kind # "commit" => Leaving(u, m) = u
      /\ Leaving(o, c) \in Operations /\ Leaving(o, c).kind = o.kind
      /\ o.kind = "commit" => Leaving(o, c).contents = c
      /\ o.kind # "commit" => Leaving(o, c) = o
      /\ o.kind \in {"commit", "load"} /\ u.kind \in {"commit", "load"}
  BY <1>3, LeavingType DEF c
<1>5. queue' \in Seq(Operations) /\ Len(queue') = n
  BY <1>1, <1>2, <1>4
<1>6. /\ queue'[i] = Leaving(u, m) /\ queue'[i + 1] = Leaving(o, c)
      /\ \A k \in 1..n : k # i /\ k # i + 1 => queue'[k] = queue[k]
  BY <1>1, <1>2
<1>7. \A p : /\ LoadNext(p, i) <=> Loads(p, i + 1)
             /\ LoadNext(p, i + 1) <=> Loads(p, i)
  BY <1>4, <1>6 DEF LoadNext, Loads, o, u
<1>8. ASSUME NEW j \in 0..(i - 1) PROVE AtNext(j) = At(j)
  <2>1. j \in Nat /\ \A k \in 1..j : queue'[k] = queue[k]
    BY <1>1, <1>6
  <2>2. Seen(disk, queue', j) = Seen(disk, queue, j)
    BY <2>1, SeenSame
  <2> QED
    BY <1>2, <2>2, Zenon DEF At, AtNext
<1>9. AtNext(i) = m
  <2>1. AtNext(i) = IF queue'[i].kind = "commit" THEN queue'[i].contents ELSE AtNext(i - 1)
    BY <1>1, SeenNext DEF AtNext
  <2>2. i - 1 \in 0..(i - 1)
    BY <1>1
  <2> QED
    BY <1>4, <1>6, <1>8, <2>1, <2>2 DEF u
<1>10. AtNext(i + 1) = c
  <2>1. AtNext(i + 1) = IF queue'[i + 1].kind = "commit" THEN queue'[i + 1].contents ELSE AtNext(i)
    BY <1>1, SeenNext DEF AtNext
  <2> QED
    BY <1>4, <1>6, <1>9, <2>1 DEF o, c
<1>11. ASSUME NEW j \in (i + 1)..n PROVE AtNext(j) = At(j)
  <2>1. j \in Nat /\ i + 1 \in Nat /\ i + 1 <= j /\ \A k \in ((i + 1) + 1)..j : queue'[k] = queue[k]
    BY <1>1, <1>6
  <2>2. Seen(disk', queue', i + 1) = Seen(disk, queue, i + 1)
    BY <1>10 DEF AtNext, At, c
  <2>3. Seen(disk', queue', j) = Seen(disk, queue, j)
    BY <2>1, <2>2, SeenFrom
  <2> QED
    BY <2>3, Zenon DEF At, AtNext
<1>12. ASSUME NEW j \in 0..n PROVE AtNext(j) = IF j = i THEN m ELSE At(j)
  <2>1. j \in 0..(i - 1) \/ j = i \/ j \in (i + 1)..n
    BY <1>1
  <2>2. j \in 0..(i - 1) \/ j \in (i + 1)..n => j # i
    BY <1>1
  <2> QED
    BY <1>8, <1>9, <1>11, <2>1, <2>2
<1>13. Planned' = Planned
  <2>1. n \in (i + 1)..n
    BY <1>1
  <2> QED
    BY <1>5, <1>11, <2>1, PlannedIsAt, PlannedPrime
<1> QED
  BY <1>1, <1>5, <1>6, <1>7, <1>12, <1>13

\* The operation of which the tables i are what it leaves behind.
LEMMA StepOfQueue ==
    ASSUME queue \in Seq(Operations), NEW i \in 1..Len(queue)
    PROVE  /\ i - 1 \in 0..Len(queue) /\ i \in 0..Len(queue)
           /\ queue[i].kind \in {"commit", "load"}
           /\ queue[i].kind = "load" => At(i) = At(i - 1)
<1>1. i - 1 \in Nat /\ (i - 1) + 1 = i /\ i - 1 \in 0..Len(queue) /\ i \in 0..Len(queue)
  OBVIOUS
<1>2. queue[i].kind \in {"commit", "load"}
  <2>1. queue[i] \in Operations
    OBVIOUS
  <2> QED
    BY <2>1 DEF Operations
<1>3. At(i) = IF queue[i].kind = "commit" THEN queue[i].contents ELSE At(i - 1)
  BY <1>1, SeenNext DEF At
<1> QED
  BY <1>1, <1>2, <1>3

\* Who is not among the players of an operation has what he had.
LEMMA OthersKeep ==
    ASSUME queue \in Seq(Operations), StoresSound, NEW i \in 1..Len(queue),
           NEW q \in Players, q \notin PlayersOf(i)
    PROVE  /\ At(i - 1).gold[q] = At(i).gold[q] /\ At(i - 1).bag[q] = At(i).bag[q]
           /\ Keeps(q, At(i - 1), At(i))
           /\ ~Loads(q, i)
<1> DEFINE a == At(i - 1)
           b == At(i)
<1>1. /\ a \in Contents /\ b \in Contents /\ queue[i].kind \in {"commit", "load"}
      /\ queue[i].kind = "load" => b = a
  BY StepOfQueue DEF StoresSound, Sound
<1>2. After(i - 1) = a /\ After(i) = b
  BY AfterIsAt
<1> HIDE DEF a, b
<1>3. CASE queue[i].kind = "load"
  <2>1. q # queue[i].for
    BY <1>3 DEF PlayersOf
  <2> QED
    BY <1>1, <1>3, <2>1, KeepsSame DEF Loads, a, b
<1>4. CASE queue[i].kind = "commit"
  <2>1. /\ q \notin {l.to : l \in DOMAIN (a.mails (-) b.mails)}
        /\ q \notin Differing(a.gold, b.gold) /\ q \notin Differing(a.bag, b.bag)
    BY <1>2, <1>4 DEF PlayersOf, GoneBy
  <2>2. /\ a.gold \in [Players -> Nat] /\ b.gold \in [Players -> Nat]
        /\ a.bag \in [Players -> SUBSET Units] /\ b.bag \in [Players -> SUBSET Units]
        /\ IsABag(a.mails) /\ IsABag(b.mails)
    BY <1>1, ContentsType, MailboxType
  <2>3. a.gold[q] = b.gold[q] /\ a.bag[q] = b.bag[q]
    BY <2>1, <2>2, DifferingRows DEF SameRow
  <2>4. ASSUME NEW l \in Posted, l.to = q PROVE Copies(l, a.mails) <= Copies(l, b.mails)
    <3>1. l \notin DOMAIN (a.mails (-) b.mails)
      BY <2>1, <2>4
    <3>2. Copies(l, a.mails (-) b.mails) = 0
      BY <3>1 DEF Copies
    <3>3. Copies(l, a.mails) \in Nat /\ Copies(l, b.mails) \in Nat
      BY <2>2, BagCopies
    <3> QED BY <2>2, <3>2, <3>3, BagDifference
  <2> QED
    BY <1>4, <2>3, <2>4 DEF Keeps, Loads, a, b
<1> QED
  BY <1>1, <1>3, <1>4

LEMMA ApartFrom ==
    ASSUME queue \in Seq(Operations), NEW i \in 1..(Len(queue) - 1), ~Conflict(i)
    PROVE  Apart(At(i - 1), At(i), At(i + 1)) /\ Between(i) = Mixed(At(i - 1), At(i), At(i + 1))
<1> DEFINE a == At(i - 1)
           b == At(i)
           c == At(i + 1)
<1>1. i \in 1..Len(queue) /\ i + 1 \in 1..Len(queue) /\ (i + 1) - 1 = i
  OBVIOUS
<1>2. After(i - 1) = a /\ After(i) = b /\ After(i + 1) = c
  BY AfterIsAt
<1>3. /\ queue[i].kind = "load" => b = a
      /\ queue[i + 1].kind = "load" => c = b
  BY <1>1, StepOfQueue
<1> HIDE DEF a, b, c
<1>4. \A f, g, x : x \in Differing(f, g) => f # g
  BY DEF Differing
<1>5. Differing(a.gold, b.gold) \subseteq PlayersOf(i) /\ Differing(a.bag, b.bag) \subseteq PlayersOf(i)
  BY <1>2, <1>3, <1>4 DEF PlayersOf
<1>6. /\ Differing(b.gold, c.gold) \subseteq PlayersOf(i + 1)
      /\ Differing(b.bag, c.bag) \subseteq PlayersOf(i + 1)
  BY <1>1, <1>2, <1>3, <1>4 DEF PlayersOf
<1>7. /\ PlayersOf(i) \cap PlayersOf(i + 1) = {}
      /\ Differing(a.auctions, b.auctions) \cap Differing(b.auctions, c.auctions) = {}
      /\ Differing(a.mails, b.mails) \cap Differing(b.mails, c.mails) = {}
      /\ MovedBy(i) \cap MovedBy(i + 1) = {}
  BY <1>2 DEF Conflict
<1>8. \A u : (u \in a.moving <=> u \in b.moving) \/ (u \in b.moving <=> u \in c.moving)
  BY <1>1, <1>2, <1>7 DEF MovedBy
<1> QED
  BY <1>2, <1>5, <1>6, <1>7, <1>8 DEF Apart, Between, Mixed, a, b, c

LEMMA MixedNothing ==
    ASSUME NEW a \in Contents, NEW b \in Contents
    PROVE  Mixed(a, b, b) = a /\ Mixed(b, b, a) = a
<1>1. \A f \in [Players -> Nat] \cup [Players -> SUBSET Units] \cup Houses \cup Mailboxes :
        f = [x \in DOMAIN f |-> f[x]]
  BY HouseType, MailboxType DEF IsABag, Houses, Mailboxes
<1>2. /\ a.gold \in [Players -> Nat] /\ a.bag \in [Players -> SUBSET Units]
      /\ a.auctions \in Houses /\ a.mails \in Mailboxes /\ a.fees \in Int /\ b.fees \in Int
      /\ a = [gold |-> a.gold, bag |-> a.bag, auctions |-> a.auctions, mails |-> a.mails,
              fees |-> a.fees, moving |-> a.moving]
  BY ContentsType DEF Contents
<1>3. /\ \A g : Changed(a.gold, g, g) = a.gold /\ Changed(g, g, a.gold) = a.gold
      /\ \A g : Changed(a.bag, g, g) = a.bag /\ Changed(g, g, a.bag) = a.bag
      /\ \A g : Changed(a.auctions, g, g) = a.auctions /\ Changed(g, g, a.auctions) = a.auctions
      /\ \A g : Changed(a.mails, g, g) = a.mails /\ Changed(g, g, a.mails) = a.mails
  BY <1>1, <1>2, ChangedNothing
<1>4. /\ a.fees + (b.fees - b.fees) = a.fees /\ b.fees + (a.fees - b.fees) = a.fees
      /\ (a.moving \ (b.moving \ b.moving)) \cup (b.moving \ b.moving) = a.moving
      /\ (b.moving \ (b.moving \ a.moving)) \cup (a.moving \ b.moving) = a.moving
  BY <1>2
<1> QED
  BY <1>2, <1>3, <1>4 DEF Mixed

LEMMA OvertakeViews ==
    ASSUME AuctionInv, BalanceInv, NEW i \in 1..(Len(queue) - 1), ~Conflict(i),
           Overtake(i, Between(i)), nextAuction' = nextAuction, loaded' = loaded,
           session' = session, crashes' = crashes
    PROVE  /\ StoresSound' /\ LoadsRight' /\ UnreadRight' /\ BalanceInv' /\ Planned' = Planned
           /\ queue' \in Seq(Operations) /\ Len(queue') = Len(queue)
<1> DEFINE n == Len(queue)
           a == At(i - 1)
           b == At(i)
           c == At(i + 1)
           m == Mixed(a, b, c)
<1>1. /\ n \in Nat /\ i \in 1..n /\ i + 1 \in 1..n /\ (i + 1) - 1 = i /\ i # i + 1
      /\ i - 1 \in 0..n /\ i \in 0..n /\ i + 1 \in 0..n /\ queue \in Seq(Operations)
  BY DEF AuctionInv, MemoryType
<1>2. StoresSound /\ LoadsRight /\ UnreadRight
  BY DEF AuctionInv
<1>3. /\ \A j \in 0..n : At(j) \in Contents /\ Right(At(j))
                         /\ \A id \in DOMAIN At(j).auctions : id < nextAuction
      /\ Planned \in Contents
  BY <1>1, <1>2, RightPlanned DEF StoresSound, Sound, BalanceInv
<1>4. Apart(a, b, c) /\ Between(i) = m
  BY <1>1, ApartFrom
<1>5. /\ queue[i].kind = "load" => b = a
      /\ queue[i + 1].kind = "load" => c = b
  BY <1>1, StepOfQueue
<1>6. m \in Contents
  BY <1>1, <1>3, MixedContents
<1>7. /\ queue[i].kind = "load" => m = c
      /\ queue[i + 1].kind = "load" => m = a
  BY <1>1, <1>3, <1>5, MixedNothing
<1>8. /\ queue' \in Seq(Operations) /\ Len(queue') = n
      /\ \A k \in 1..n : k # i /\ k # i + 1 => queue'[k] = queue[k]
      /\ \A p : LoadNext(p, i) <=> Loads(p, i + 1)
      /\ \A p : LoadNext(p, i + 1) <=> Loads(p, i)
      /\ \A j \in 0..n : AtNext(j) = IF j = i THEN m ELSE At(j)
      /\ Planned' = Planned
  <2> HIDE DEF m
  <2>1. Overtake(i, m)
    BY <1>4
  <2> QED
    BY <1>1, <1>3, <1>6, <1>7, <2>1, OvertakeSeen
<1>9. Right(m) /\ Sound(m, nextAuction)
  <2>1. Right(m)
    BY <1>1, <1>3, <1>4, MixedRight
  <2>2. Mixes(m.auctions, a.auctions, b.auctions, c.auctions)
    BY <1>1, <1>3, <1>4, MixedIs
  <2> HIDE DEF m
  <2>3. \A id \in DOMAIN m.auctions : id < nextAuction
    BY <1>1, <1>3, <2>2, MixedRow
  <2> QED
    BY <1>6, <2>1, <2>3, RightSound
<1>10. ASSUME NEW q \in Players
       PROVE  /\ a.gold[q] = Planned.gold[q] /\ c.gold[q] = Planned.gold[q] => m.gold[q] = Planned.gold[q]
              /\ a.bag[q] = Planned.bag[q] /\ c.bag[q] = Planned.bag[q] => m.bag[q] = Planned.bag[q]
              /\ Keeps(q, a, Planned) /\ Keeps(q, c, Planned) => Keeps(q, m, Planned)
  BY <1>1, <1>3, <1>4, MixedViews
<1> HIDE DEF m, n
<1>11. StoresSound'
  BY <1>2, <1>8, <1>9, StoresPrime DEF StoresSound, n
<1>12. BalanceInv'
  BY <1>8, <1>9, BalancePrime DEF BalanceInv, n
<1>13. UnreadRight'
  <2>1. ASSUME NEW q \in Players, session'[q] = "online", q \notin loaded', NEW j \in 0..n
        PROVE  Keeps(q, AtNext(j), Planned')
    <3>1. \A k \in 0..n : Keeps(q, At(k), Planned)
      BY <1>2, <2>1 DEF UnreadRight, n
    <3> QED BY <1>1, <1>8, <1>10, <3>1
  <2> QED
    BY <1>8, <2>1, UnreadPrime DEF n
<1>14. ASSUME NEW q \in Players, NEW k \in 1..n, LoadNext(q, k)
       PROVE  LET o == IF k = i THEN i + 1 ELSE IF k = i + 1 THEN i ELSE k IN
              o \in 1..n /\ Loads(q, o)
  <2>1. CASE k = i
    BY <1>1, <1>8, <1>14, <2>1
  <2>2. CASE k = i + 1
    BY <1>1, <1>8, <1>14, <2>2
  <2>3. CASE k # i /\ k # i + 1
    BY <1>1, <1>8, <1>14, <2>3 DEF LoadNext, Loads
  <2> QED
    BY <2>1, <2>2, <2>3
<1>15. ASSUME NEW q \in Players, NEW k \in 1..n, LoadNext(q, k)
       PROVE  /\ session'[q] = "loading"
              /\ \A o \in 1..n : LoadNext(q, o) => o = k
              /\ \A j \in k..n : /\ AtNext(j).gold[q] = Planned'.gold[q]
                                 /\ AtNext(j).bag[q] = Planned'.bag[q]
                                 /\ Keeps(q, AtNext(j), Planned')
  <2> DEFINE From(x) == IF x = i THEN i + 1 ELSE IF x = i + 1 THEN i ELSE x
             l == From(k)
  <2>1. \A x \in 1..n : LoadNext(q, x) => From(x) \in 1..n /\ Loads(q, From(x))
    BY <1>14
  <2>2. l \in 1..n /\ Loads(q, l)
    BY <1>15, <2>1
  <2>3. \A x \in 1..n, y \in 1..n : From(x) = From(y) => x = y
    BY <1>1
  <2>4. /\ session[q] = "loading"
        /\ \A x \in 1..n : Loads(q, x) => x = l
        /\ \A j \in l..n : At(j).gold[q] = Planned.gold[q] /\ At(j).bag[q] = Planned.bag[q]
                           /\ Keeps(q, At(j), Planned)
    <3> HIDE DEF l
    <3> QED BY <1>2, <2>2 DEF LoadsRight, n
  <2>5. \A o \in 1..n : LoadNext(q, o) => o = k
    <3>1. \A o \in 1..n : LoadNext(q, o) => From(o) = From(k)
      BY <2>1, <2>4
    <3> HIDE DEF From
    <3> QED BY <1>15, <2>3, <3>1
  <2>6. ASSUME NEW j \in k..n
        PROVE  /\ AtNext(j).gold[q] = Planned.gold[q] /\ AtNext(j).bag[q] = Planned.bag[q]
               /\ Keeps(q, AtNext(j), Planned)
    <3>1. j \in 0..n
      BY <1>1
    <3>2. CASE j # i
      <4>1. j \in l..n
        BY <1>1, <3>2
      <4> QED BY <1>8, <2>4, <3>1, <3>2, <4>1
    <3>3. CASE j = i /\ k # i
      <4>1. i - 1 \in l..n /\ i + 1 \in l..n
        BY <1>1, <3>3
      <4> QED BY <1>1, <1>8, <1>10, <2>4, <3>3, <4>1
    <3>4. CASE j = i /\ k = i
      <4>1. Loads(q, i + 1) /\ i + 1 \in l..n
        BY <1>1, <2>2, <3>4
      <4>2. m = a /\ c = b
        BY <1>5, <1>7, <4>1 DEF Loads
      <4>3. q \in PlayersOf(i + 1)
        BY <4>1 DEF Loads, PlayersOf
      <4>4. q \notin PlayersOf(i)
        BY <4>3 DEF Conflict
      <4>5. a.gold[q] = b.gold[q] /\ a.bag[q] = b.bag[q] /\ Keeps(q, a, b)
        BY <1>1, <1>2, <4>4, OthersKeep DEF n
      <4>6. c.gold[q] = Planned.gold[q] /\ c.bag[q] = Planned.bag[q] /\ Keeps(q, c, Planned)
        BY <2>4, <4>1
      <4>7. Keeps(q, a, Planned)
        BY <1>1, <1>3, <4>2, <4>5, <4>6, KeepsOn
      <4> QED BY <1>1, <1>8, <3>4, <4>2, <4>5, <4>6, <4>7
    <3> QED BY <3>2, <3>3, <3>4
  <2> QED
    BY <1>8, <2>4, <2>5, <2>6
<1>16. LoadsRight'
  BY <1>8, <1>15, LoadsPrime DEF n
<1> QED
  BY <1>8, <1>11, <1>12, <1>13, <1>16 DEF n

\* An operation overtakes another, with rows in common or without.
LEMMA FasterStep ==
    ASSUME AuctionInv, BalanceInv, NEW i \in 1..(Len(queue) - 1), Faster(i)
    PROVE  AuctionInv' /\ BalanceInv' /\ Planned' = Planned
<1>1. /\ UNCHANGED <<auctions, aItems, loaded, box>>
      /\ loaded' = loaded /\ world' = world /\ auctions' = auctions /\ aItems' = aItems
      /\ session' = session /\ purse' = purse /\ bag' = bag
      /\ nextAuction' = nextAuction /\ crashes' = crashes
  BY DEF Faster, playerVars, mailVars
<1>2. /\ MemoryType /\ StoresSound /\ LoadsRight /\ UnreadRight /\ DownIsEmpty
      /\ queue \in Seq(Operations) /\ Len(queue) <= MaxQueue
  BY DEF AuctionInv, MemoryType
<1>3. world = "running"
  <2>1. queue # << >>
    OBVIOUS
  <2> QED
    BY <1>2, <2>1 DEF DownIsEmpty, MemoryType
<1>4. /\ StoresSound' /\ LoadsRight' /\ UnreadRight' /\ BalanceInv' /\ Planned' = Planned
      /\ queue' \in Seq(Operations) /\ Len(queue') = Len(queue)
  <2>1. CASE ~Conflict(i)
    BY <1>1, <2>1, OvertakeViews DEF Faster
  <2>2. CASE Conflict(i)
    <3>1. UNCHANGED <<disk, queue>> /\ queue' = queue
      BY <2>2 DEF Faster, OvertakeInConflict
    <3>2. StoresSound' /\ LoadsRight' /\ UnreadRight' /\ Planned' = Planned
      BY <1>1, <1>2, <3>1, SameViews
    <3> QED BY <1>1, <1>2, <3>1, <3>2, SameBalanceInv
  <2> QED
    BY <2>1, <2>2
<1>5. MemoryType'
  BY <1>1, <1>2, <1>4 DEF MemoryType
<1>6. \A q \in Players : session'[q] = "online" => purse'[q] = Planned.gold[q] /\ bag'[q] = Planned.bag[q]
  BY <1>1, <1>3, InWorld
<1>7. \A q \in Players : session[q] = "online" => session'[q] = "online"
  BY <1>1
<1> QED
  BY <1>1, <1>3, <1>4, <1>5, <1>6, <1>7, QuietStep

LEMMA WorkerBalance ==
    ASSUME AuctionInv, BalanceInv, Workers
    PROVE  BalanceInv'
<1>1. CASE Save
  <2>1. /\ queue # << >> /\ queue' = Tail(queue) /\ Head(queue).kind = "commit"
        /\ disk' = Head(queue).contents /\ crashes' = crashes
    BY <1>1 DEF Save, ExecuteTransaction
  <2> QED
    BY <2>1, ExecuteBalance
<1>2. ASSUME NEW p \in Players, LoginHolderAnswered(p) PROVE BalanceInv'
  <2>1. /\ queue # << >> /\ queue' = Tail(queue) /\ Head(queue).kind = "load"
        /\ disk' = disk /\ crashes' = crashes
    BY <1>2 DEF LoginHolderAnswered, ExecuteQueries
  <2> QED
    BY <2>1, ExecuteBalance
<1> QED
  BY <1>1, <1>2, FasterStep DEF Workers

-----------------------------------------------------------------------------
(* Every step.                                                             *)

LEMMA InvStep ==
    ASSUME AuctionInv, BalanceInv, [Next]_vars
    PROVE  AuctionInv'
<1>1. ASSUME NEW p \in Players, NEW units \in SUBSET bag[p], NEW whole \in BOOLEAN,
             NEW start \in StartPrices, NEW buyout \in Buyouts,
             HandleAuctionSellItem(p, units, whole, start, buyout)
      PROVE  AuctionInv'
  BY <1>1, SellStep
<1>2. ASSUME NEW p \in Players, NEW id \in DOMAIN auctions, NEW price \in Prices,
             HandleAuctionPlaceBid(p, id, price)
      PROVE  AuctionInv'
  <2>1. CASE IsBuyout(Planned.auctions[id], price)
    BY <1>2, <2>1, BuyoutStep
  <2>2. CASE ~IsBuyout(Planned.auctions[id], price)
    BY <1>2, <2>2, RaiseStep
  <2> QED
    BY <2>1, <2>2
<1>3. ASSUME NEW p \in Players, NEW id \in DOMAIN auctions, HandleAuctionRemoveItem(p, id)
      PROVE  AuctionInv'
  BY <1>3, RemoveStep
<1>4. ASSUME NEW p \in Players, NEW to \in Players, NEW units \in SUBSET bag[p],
             NEW money \in MailMoney, NEW cod \in CodPrices, HandleSendMail(p, to, money, units, cod)
      PROVE  AuctionInv'
  BY <1>4, SendStep
<1>5. ASSUME NEW p \in Players, HandleGetMailList(p) PROVE AuctionInv'
  BY <1>5, GetMailStep
<1>6. ASSUME NEW p \in Players, NEW l \in BagToSet(box[p]),
             \/ HandleMailTakeMoney(p, l)
             \/ \E u \in l.units : HandleMailTakeItem(p, l, u)
             \/ HandleMailReturnToSender(p, l)
      PROVE  AuctionInv'
  <2>1. CASE HandleMailTakeMoney(p, l)
    BY <2>1, TakeMoneyStep
  <2>2. ASSUME NEW u \in l.units, HandleMailTakeItem(p, l, u) PROVE AuctionInv'
    BY <2>2, TakeItemStep
  <2>3. CASE HandleMailReturnToSender(p, l)
    BY <2>3, ReturnStep
  <2> QED
    BY <1>6, <2>1, <2>2, <2>3
<1>7. ASSUME NEW p \in Players, HandlePlayerLogin(p) \/ LogoutPlayer(p) PROVE AuctionInv'
  BY <1>7, LoginStep, LogoutStep
<1>8. CASE Handlers
  BY <1>1, <1>2, <1>3, <1>4, <1>5, <1>6, <1>7, <1>8 DEF Handlers
<1>9. ASSUME NEW id \in DOMAIN auctions, Update(id) PROVE AuctionInv'
  BY <1>9, UpdateStep
<1>10. CASE Workers
  BY <1>10, SaveStep, AnsweredStep, FasterStep DEF Workers
<1>11. CASE Crash
  BY <1>11, CrashStep
<1>12. CASE LoadAuctions
  BY <1>12, LoadAuctionsStep
<1>13. CASE UNCHANGED vars
  BY <1>13, NothingStep
<1> QED
  BY <1>8, <1>9, <1>10, <1>11, <1>12, <1>13 DEF Next, Lost

-----------------------------------------------------------------------------
(* Every step keeps the balance.                                           *)

LEMMA BalanceStep ==
    ASSUME AuctionInv, BalanceInv, [Next]_vars
    PROVE  BalanceInv'
<1>1. ASSUME NEW p \in Players, NEW units \in SUBSET bag[p], NEW whole \in BOOLEAN,
             NEW start \in StartPrices, NEW buyout \in Buyouts,
             HandleAuctionSellItem(p, units, whole, start, buyout)
      PROVE  BalanceInv'
  BY <1>1, SellBalance
<1>2. ASSUME NEW p \in Players, NEW id \in DOMAIN auctions, NEW price \in Prices,
             HandleAuctionPlaceBid(p, id, price)
      PROVE  BalanceInv'
  BY <1>2, BuyoutBalance, RaiseBalance
<1>3. ASSUME NEW p \in Players, NEW id \in DOMAIN auctions, HandleAuctionRemoveItem(p, id)
      PROVE  BalanceInv'
  BY <1>3, RemoveBalance
<1>4. ASSUME NEW p \in Players, NEW to \in Players, NEW units \in SUBSET bag[p],
             NEW money \in MailMoney, NEW cod \in CodPrices, HandleSendMail(p, to, money, units, cod)
      PROVE  BalanceInv'
  BY <1>4, SendBalance
<1>5. ASSUME NEW p \in Players, HandleGetMailList(p) PROVE BalanceInv'
  <2>1. UNCHANGED <<disk, queue>> /\ crashes' = crashes
    BY <1>5 DEF HandleGetMailList, dbVars
  <2> QED
    BY <1>5, <2>1, GetMailStep, SameBalanceInv
<1>6. ASSUME NEW p \in Players, NEW l \in BagToSet(box[p]),
             \/ HandleMailTakeMoney(p, l)
             \/ \E u \in l.units : HandleMailTakeItem(p, l, u)
             \/ HandleMailReturnToSender(p, l)
      PROVE  BalanceInv'
  BY <1>6, TakeMoneyBalance, TakeItemBalance, ReturnBalance
<1>7. ASSUME NEW p \in Players, HandlePlayerLogin(p) \/ LogoutPlayer(p) PROVE BalanceInv'
  BY <1>7, LoginBalance, LogoutBalance
<1>8. CASE Handlers
  BY <1>1, <1>2, <1>3, <1>4, <1>5, <1>6, <1>7, <1>8 DEF Handlers
<1>9. ASSUME NEW id \in DOMAIN auctions, Update(id) PROVE BalanceInv'
  BY <1>9, UpdateBalance
<1>10. CASE Workers
  BY <1>10, WorkerBalance
<1>11. CASE Crash
  BY <1>11, CrashBalance
<1>12. CASE LoadAuctions
  <2>1. UNCHANGED <<disk, queue>> /\ crashes' = crashes
    BY <1>12 DEF LoadAuctions, dbVars
  <2> QED
    BY <1>12, <2>1, LoadAuctionsStep, SameBalanceInv
<1>13. CASE UNCHANGED vars
  <2>1. UNCHANGED <<disk, queue>> /\ crashes' = crashes
    BY <1>13 DEF vars, dbVars
  <2> QED
    BY <1>13, <2>1, NothingStep, SameBalanceInv
<1> QED
  BY <1>8, <1>9, <1>10, <1>11, <1>12, <1>13 DEF Next, Lost

LEMMA SpecBalance == Spec => [](AuctionInv /\ BalanceInv)
<1>1. Init => AuctionInv /\ BalanceInv
  BY AtFirst, FirstBalance
<1>2. AuctionInv /\ BalanceInv /\ [Next]_vars => AuctionInv' /\ BalanceInv'
  BY InvStep, BalanceStep
<1> QED
  BY <1>1, <1>2, PTL DEF Spec

-----------------------------------------------------------------------------
(* Types.                                                                  *)

\* An operation overtakes another only if there are workers enough.
TurnsInv == overtaken \in BOOLEAN /\ (overtaken => WorkerThreads # 1)

LEMMA TurnsStep ==
    ASSUME TurnsInv, [Next]_vars
    PROVE  TurnsInv'
<1>1. CASE UNCHANGED overtaken
  BY <1>1 DEF TurnsInv
<1>2. ASSUME NEW i \in 1..(Len(queue) - 1), Faster(i) PROVE TurnsInv'
  <2>1. CASE Conflict(i)
    <3>1. overtaken' = TRUE /\ i + 1 <= WorkerThreads
      BY <1>2, <2>1 DEF Faster, OvertakeInConflict
    <3> QED BY <3>1, DatabaseAssumption DEF TurnsInv
  <2>2. CASE ~Conflict(i)
    <3>1. UNCHANGED overtaken
      BY <1>2, <2>2 DEF Faster, Overtake
    <3> QED BY <1>1, <3>1
  <2> QED
    BY <2>1, <2>2
<1>3. \A who : DelayQueryHolder(who) \/ ExecuteQueries(who) => UNCHANGED overtaken
  BY DEF DelayQueryHolder, ExecuteQueries
<1>4. \A by, contents : Commit(by, contents) => UNCHANGED overtaken
  BY DEF Commit
<1>5. ASSUME NEW p \in Players, NEW units, NEW whole, NEW start, NEW buyout,
             HandleAuctionSellItem(p, units, whole, start, buyout)
      PROVE  UNCHANGED overtaken
  BY <1>4, <1>5 DEF HandleAuctionSellItem
<1>6. ASSUME NEW p, NEW id, NEW price, HandleAuctionPlaceBid(p, id, price) PROVE UNCHANGED overtaken
  BY <1>4, <1>6 DEF HandleAuctionPlaceBid
<1>7. ASSUME NEW p, NEW id, HandleAuctionRemoveItem(p, id) PROVE UNCHANGED overtaken
  BY <1>4, <1>7 DEF HandleAuctionRemoveItem
<1>8. ASSUME NEW p, NEW to, NEW units, NEW money, NEW cod, HandleSendMail(p, to, money, units, cod)
      PROVE  UNCHANGED overtaken
  BY <1>4, <1>8 DEF HandleSendMail
<1>9. ASSUME NEW p, NEW l,
             \/ HandleMailTakeMoney(p, l)
             \/ \E u \in l.units : HandleMailTakeItem(p, l, u)
             \/ HandleMailReturnToSender(p, l)
      PROVE  UNCHANGED overtaken
  BY <1>4, <1>9 DEF HandleMailTakeMoney, HandleMailTakeItem, HandleMailReturnToSender
<1>10. ASSUME NEW p, HandleGetMailList(p) \/ HandlePlayerLogin(p) \/ LogoutPlayer(p)
       PROVE  UNCHANGED overtaken
  BY <1>3, <1>4, <1>10 DEF HandleGetMailList, HandlePlayerLogin, LogoutPlayer, dbVars
<1>11. Handlers => UNCHANGED overtaken
  BY <1>5, <1>6, <1>7, <1>8, <1>9, <1>10 DEF Handlers
<1>12. ASSUME NEW id, Update(id) PROVE UNCHANGED overtaken
  BY <1>4, <1>12 DEF Update
<1>13. Save \/ (\E p \in Players : LoginHolderAnswered(p)) => UNCHANGED overtaken
  BY <1>3 DEF Save, ExecuteTransaction, LoginHolderAnswered
<1>14. Crash \/ LoadAuctions \/ UNCHANGED vars => UNCHANGED overtaken
  BY DEF Crash, QueueLost, LoadAuctions, vars, dbVars
<1> QED
  BY <1>1, <1>2, <1>11, <1>12, <1>13, <1>14 DEF Next, Lost, Workers

LEMMA SpecTurns == Spec => []TurnsInv
<1>1. Init => TurnsInv
  BY DEF Init, TurnsInv
<1>2. TurnsInv /\ [Next]_vars => TurnsInv'
  BY TurnsStep
<1> QED
  BY <1>1, <1>2, PTL DEF Spec

LEMMA StoreWellFormed == ASSUME NEW d \in Contents PROVE WellFormed(d)
<1>1. /\ d.gold \in [Players -> Nat] /\ d.bag \in [Players -> SUBSET Units]
      /\ d.auctions \in Houses /\ d.mails \in Mailboxes
      /\ d.fees \in Int /\ d.moving \in SUBSET Units
  BY ContentsType
<1>2. DOMAIN d.auctions \subseteq 1..MaxAuctions /\ d.auctions \in [DOMAIN d.auctions -> Offers]
  BY <1>1, HouseType
<1>3. Range(d.auctions) \subseteq Auction
  BY <1>2 DEF Range, Offers
<1>4. IsABag(d.mails) /\ BagToSet(d.mails) \subseteq Letter
  BY <1>1, MailboxType DEF BagToSet, Posted
<1> QED
  BY <1>1, <1>2, <1>3, <1>4 DEF WellFormed

LEMMA InvTypes == AuctionInv /\ TurnsInv => TypeOK
<1> SUFFICES ASSUME AuctionInv, TurnsInv PROVE TypeOK
  OBVIOUS
<1>1. MemoryType /\ StoresSound /\ BoxesRight /\ LoadsRight
  BY DEF AuctionInv
<1>2. queue \in Seq(Operations) /\ Len(queue) <= MaxQueue /\ Len(queue) \in Nat
  BY <1>1 DEF MemoryType
<1>3. WellFormed(disk)
  <2>1. 0 \in 0..Len(queue) /\ At(0) = disk
    BY <1>2, SeenFirst DEF At
  <2> QED
    BY <1>1, <2>1, StoreWellFormed DEF StoresSound, Sound
<1>4. ASSUME NEW i \in 1..Len(queue)
      PROVE  CASE queue[i].kind = "commit" -> WellFormed(queue[i].contents)
               [] queue[i].kind = "load" -> session[queue[i].for] = "loading"
  <2>1. queue[i] \in Operations
    BY <1>2
  <2>2. CASE queue[i] \in [kind : {"commit"}, by : SUBSET Players, contents : Contents]
    <3>1. queue[i].kind = "commit" /\ queue[i].contents \in Contents
      <4> HIDE DEF Contents
      <4> QED BY <2>2
    <3>2. WellFormed(queue[i].contents)
      BY <3>1, StoreWellFormed
    <3>3. queue[i].kind # "load"
      BY <3>1
    <3> QED BY <3>1, <3>2, <3>3
  <2>3. CASE queue[i] \in [kind : {"load"}, for : Players]
    <3>1. queue[i].kind = "load" /\ queue[i].for \in Players /\ queue[i].kind # "commit"
      BY <2>3
    <3>2. session[queue[i].for] = "loading"
      BY <1>1, <3>1 DEF LoadsRight, Loads
    <3> QED BY <3>1, <3>2
  <2> QED
    BY <2>1, <2>2, <2>3 DEF Operations
<1>5. DOMAIN auctions \subseteq 1..MaxAuctions /\ Range(auctions) \subseteq Auction
  <2>1. DOMAIN auctions \subseteq 1..MaxAuctions /\ auctions \in [DOMAIN auctions -> Offers]
    BY <1>1, HouseType DEF MemoryType
  <2> QED
    BY <2>1 DEF Range, Offers
<1>6. loaded \subseteq {p \in Players : session[p] = "online"}
  BY <1>1 DEF MemoryType, BoxesRight
<1>7. \A p \in Players : IsABag(box[p]) /\ BagToSet(box[p]) \subseteq Letter
  <2>1. \A p \in Players : box[p] \in Mailboxes
    BY <1>1 DEF BoxesRight, BoxesOf
  <2> QED
    BY <2>1, MailboxType DEF BagToSet, Posted
<1> QED
  BY <1>1, <1>2, <1>3, <1>4, <1>5, <1>6, <1>7 DEF TypeOK, MemoryType, TurnsInv

(***************************************************************************)
(* Whatever the world thread, the workers of the database and the end of   *)
(* the process make of them, the tables, the transactions that wait and    *)
(* what is in memory are of their types; nobody but players who are being  *)
(* loaded waits for an answer, and only the mail of players online is in   *)
(* memory.                                                                 *)
(***************************************************************************)
THEOREM TypeCorrect == Spec => []TypeOK
<1>1. Spec => [](AuctionInv /\ BalanceInv)
  BY SpecBalance
<1>2. Spec => []TurnsInv
  BY SpecTurns
<1>3. AuctionInv /\ BalanceInv /\ TurnsInv => TypeOK
  BY InvTypes
<1> QED
  BY <1>1, <1>2, <1>3, PTL

(***************************************************************************)
(* One worker (Master.cpp's default) executes what is queued in order: no  *)
(* operation overtakes another, and what is said below of the time before  *)
(* one does holds always.                                                  *)
(***************************************************************************)
THEOREM OneWorkerTakesTurns == ASSUME WorkerThreads = 1 PROVE Spec => []~overtaken
<1>1. Spec => []TurnsInv
  BY SpecTurns
<1>2. TurnsInv => ~overtaken
  BY DEF TurnsInv
<1> QED
  BY <1>1, <1>2, PTL

(***************************************************************************)
(* A handler may rely on memory: the gold, the inventory and the auctions  *)
(* in it are what the database will hold once the queue is empty, and no   *)
(* mailbox shows a letter that has been taken, returned or changed, though *)
(* logins and mailboxes are read while transactions wait, by workers       *)
(* that need not take turns. It holds until an operation overtakes another *)
(* with which it has rows in common.                                       *)
(***************************************************************************)
THEOREM MemoryIsWhatIsSaved == Spec => []MemoryIsSaved
<1>1. Spec => [](AuctionInv /\ BalanceInv)
  BY SpecBalance
<1>2. AuctionInv /\ BalanceInv => MemoryIsSaved
  BY DEF AuctionInv, MemoryIsSaved
<1> QED
  BY <1>1, <1>2, PTL

-----------------------------------------------------------------------------
(* Sums.                                                                    *)

\* The sums of the properties.
LEMMA SumsAre ==
    ASSUME NEW d \in Contents
    PROVE  /\ \A u : UnitsOf(d, u) =
                SumFunction([p \in Players |-> Among(u, d.bag[p])])
                + SumFunction([id \in DOMAIN d.auctions |-> Among(u, d.auctions[id].units)])
                + SumFunction([l \in BagToSet(d.mails) |-> Among(u, l.units) * d.mails[l]])
                + Among(u, d.moving)
           /\ GoldOf(d) =
                SumFunction(d.gold) + GoldIn(d.mails, Players) + d.fees
                + SumFunction([id \in DOMAIN d.auctions |->
                                d.auctions[id].bid + d.auctions[id].deposit])
<1>1. /\ d.gold \in [Players -> Nat] /\ d.auctions \in Houses /\ d.mails \in Mailboxes
      /\ DOMAIN d.mails \subseteq Posted
  BY ContentsType, MailboxType
<1>2. ASSUME NEW u
      PROVE  /\ BagsWith(d.bag, u) = SumFunction([p \in Players |-> Among(u, d.bag[p])])
             /\ Stake(OfferHas(u), d.auctions)
                  = SumFunction([id \in DOMAIN d.auctions |-> Among(u, d.auctions[id].units)])
             /\ Mass(LetterHas(u), d.mails)
                  = SumFunction([l \in BagToSet(d.mails) |-> Among(u, l.units) * d.mails[l]])
  <2>1. \A id \in DOMAIN d.auctions : OfferHas(u)[d.auctions[id]] = Among(u, d.auctions[id].units)
    BY <1>1, HasWeights, OfferType
  <2>2. \A l \in DOMAIN d.mails : LetterHas(u)[l] = Among(u, l.units)
    BY <1>1, HasWeights
  <2>3. [id \in DOMAIN d.auctions |-> OfferHas(u)[d.auctions[id]]]
          = [id \in DOMAIN d.auctions |-> Among(u, d.auctions[id].units)]
    BY <2>1
  <2>4. [l \in DOMAIN d.mails |-> LetterHas(u)[l] * d.mails[l]]
          = [l \in DOMAIN d.mails |-> Among(u, l.units) * d.mails[l]]
    BY <2>2
  <2> QED
    BY <2>3, <2>4 DEF BagsWith, Stake, Mass, SumFunction, BagToSet
<1>3. SumFunction(d.gold) = SumFunctionOnSet(d.gold, Players)
  BY <1>1 DEF SumFunction
<1>4. Stake(OfferGold, d.auctions) = SumFunction([id \in DOMAIN d.auctions |->
                                        d.auctions[id].bid + d.auctions[id].deposit])
  <2>1. \A id \in DOMAIN d.auctions :
          OfferGold[d.auctions[id]] = d.auctions[id].bid + d.auctions[id].deposit
    BY <1>1, GoldWeights, OfferType
  <2>2. [id \in DOMAIN d.auctions |-> OfferGold[d.auctions[id]]]
          = [id \in DOMAIN d.auctions |-> d.auctions[id].bid + d.auctions[id].deposit]
    BY <2>1
  <2> QED
    BY <2>2 DEF Stake, SumFunction
<1>5. Mass(LetterGold, d.mails) = GoldIn(d.mails, Players)
  <2>1. \A l \in DOMAIN d.mails : LetterGold[l] = l.money /\ l.to \in Players
    BY <1>1, GoldWeights, LetterType
  <2>2. {m \in BagToSet(d.mails) : m.to \in Players} = DOMAIN d.mails
    BY <2>1 DEF BagToSet
  <2>3. [l \in DOMAIN d.mails |-> LetterGold[l] * d.mails[l]]
          = [l \in {m \in BagToSet(d.mails) : m.to \in Players} |-> l.money * d.mails[l]]
    BY <2>1, <2>2
  <2> QED
    BY <2>2, <2>3 DEF Mass, GoldIn, SumFunction
<1> QED
  BY <1>2, <1>3, <1>4, <1>5 DEF UnitsOf, GoldOf

LEMMA BalanceKeeps ==
    ASSUME AuctionInv, BalanceInv
    PROVE  UnitsKept /\ (ProfitsFit => Conservation)
<1> DEFINE d == Planned
<1>1. Right(d) /\ d \in Contents
  BY RightPlanned
<1>2. crashes = 0 => d.moving = {}
  BY DEF BalanceInv
<1>3. d = Planned
  OBVIOUS
<1> HIDE DEF d
<1>4. UnitsKept
  BY <1>1, <1>2, <1>3, SumsAre DEF Right, UnitsKept
<1>5. ProfitsFit => Conservation
  BY <1>1, <1>3, <1>4, SumsAre DEF Right, Conservation
<1> QED
  BY <1>4, <1>5

(***************************************************************************)
(* Whoever sells, bids, turns bids down and mails, with logins, logouts    *)
(* and expiring auctions in between and transactions still waiting: every  *)
(* unit is in exactly one inventory, auction or letter of the tables that  *)
(* the queue leads to, and it stays so when the process ends and what      *)
(* waited is lost. Only an end between the transactions of one sale of     *)
(* several stacks (HandleAuctionSellItem) leaves units nowhere, and as     *)
(* long as the process has not ended there are none. Workers need not take *)
(* turns: it holds until an operation overtakes another with which it has  *)
(* rows in common, with one worker always.                                 *)
(***************************************************************************)
THEOREM NoUnitIsLost == Spec => []UnitsKept
<1>1. Spec => [](AuctionInv /\ BalanceInv)
  BY SpecBalance
<1>2. AuctionInv /\ BalanceInv => UnitsKept
  BY BalanceKeeps
<1> QED
  BY <1>1, <1>2, PTL

(***************************************************************************)
(* No step makes or loses gold: what players hold, letters carry, bids     *)
(* and deposits hold back and fees have taken is always the gold there     *)
(* was, also after an end of the process at any point of the queue; until  *)
(* an operation overtakes another with which it has rows in common, with   *)
(* one worker always. The profit of a sale has to fit the 32 bits          *)
(* SendAuctionSuccessfulMail computes it in; otherwise the equation is     *)
(* false.                                                                  *)
(***************************************************************************)
THEOREM GoldIsConserved == ASSUME ProfitsFit PROVE Spec => []Conservation
<1>1. Spec => [](AuctionInv /\ BalanceInv)
  BY SpecBalance
<1>2. AuctionInv /\ BalanceInv => Conservation
  BY BalanceKeeps
<1> QED
  BY <1>1, <1>2, PTL

-----------------------------------------------------------------------------
(* What a player has.                                                      *)

Holder(l) == IF l.cod > 0 THEN l.from ELSE l.to

InBag(d, p, u) == u \in d.bag[p]
InMail(d, p, u) == \E l \in DOMAIN d.mails : u \in l.units /\ Holder(l) = p
InHouse(d, p, u) == \E id \in DOMAIN d.auctions :
                        u \in d.auctions[id].units /\ d.auctions[id].owner = p
Has(d, p, u) == InBag(d, p, u) \/ InMail(d, p, u) \/ InHouse(d, p, u)

GoldTo(p) == [l \in Posted |-> IF l.to = p THEN l.money ELSE 0]
BidOf(p) == [a \in Offers |-> IF a.bidder = p THEN a.bid ELSE 0]
WorthOf(d, p) == d.gold[p] + Mass(GoldTo(p), d.mails) + Stake(BidOf(p), d.auctions)

LEMMA GoodsAre ==
    ASSUME NEW d, NEW p, NEW u
    PROVE  Has(d, p, u) <=>
             u \in UNION ({d.bag[p]}
                          \cup {l.units : l \in {m \in BagToSet(d.mails) :
                                    IF m.cod > 0 THEN m.from = p ELSE m.to = p}}
                          \cup {a.units : a \in {b \in Range(d.auctions) : b.owner = p}})
<1> DEFINE M == {l.units : l \in {m \in BagToSet(d.mails) :
                                    IF m.cod > 0 THEN m.from = p ELSE m.to = p}}
           H == {a.units : a \in {b \in Range(d.auctions) : b.owner = p}}
<1>1. InMail(d, p, u) <=> \E S \in M : u \in S
  BY DEF InMail, Holder, BagToSet
<1>2. InHouse(d, p, u) <=> \E S \in H : u \in S
  BY DEF InHouse, Range
<1> HIDE DEF M, H
<1>3. Has(d, p, u) <=> u \in UNION ({d.bag[p]} \cup M \cup H)
  BY <1>1, <1>2 DEF Has, InBag
<1> QED
  BY <1>3 DEF M, H

LEMMA ToWeights ==
    ASSUME NEW p
    PROVE  /\ GoldTo(p) \in Weights /\ \A l \in Posted : GoldTo(p)[l] \in Nat
           /\ \A l \in Posted : l.to = p => GoldTo(p)[l] = l.money
           /\ \A l \in Posted : l.to # p => GoldTo(p)[l] = 0
           /\ BidOf(p) \in Values /\ \A a \in Offers : BidOf(p)[a] \in Nat
           /\ \A a \in Offers : a.bidder = p => BidOf(p)[a] = a.bid
           /\ \A a \in Offers : a.bidder # p => BidOf(p)[a] = 0
<1>1. \A l \in Posted : l.money \in Nat
  BY LetterType
<1>2. \A a \in Offers : a.bid \in Nat
  BY AuctionType DEF Offers
<1>3. /\ \A l \in Posted : GoldTo(p)[l] = IF l.to = p THEN l.money ELSE 0
      /\ \A a \in Offers : BidOf(p)[a] = IF a.bidder = p THEN a.bid ELSE 0
  BY DEF GoldTo, BidOf
<1>4. GoldTo(p) \in Weights
  <2>1. GoldTo(p) \in [Posted -> Int]
    BY <1>1 DEF GoldTo
  <2>2. \A l \in Posted : ~Filled(l) => GoldTo(p)[l] = 0
    BY <1>1, <1>3 DEF Filled
  <2> QED
    BY <2>1, <2>2 DEF Weights
<1>5. BidOf(p) \in Values
  BY <1>2 DEF BidOf, Values
<1> QED
  BY <1>1, <1>2, <1>3, <1>4, <1>5

LEMMA WorthParts ==
    ASSUME NEW d \in Contents, NEW p \in Players
    PROVE  /\ d.gold[p] \in Nat /\ Mass(GoldTo(p), d.mails) \in Nat
           /\ Stake(BidOf(p), d.auctions) \in Nat /\ WorthOf(d, p) \in Nat
<1>1. /\ d.gold \in [Players -> Nat] /\ d.auctions \in Houses /\ d.mails \in Mailboxes
  BY ContentsType
<1>2. Mass(GoldTo(p), d.mails) \in Nat
  BY <1>1, ToWeights, MassNatural
<1>3. Stake(BidOf(p), d.auctions) \in Nat
  BY <1>1, ToWeights, StakeNatural
<1> QED
  BY <1>1, <1>2, <1>3 DEF WorthOf

LEMMA WorthIs ==
    ASSUME NEW d \in Contents, NEW p \in Players
    PROVE  WorthOf(d, p) = d.gold[p] + GoldIn(d.mails, {p}) + BidsBy(d.auctions, {p})
<1>1. /\ d.auctions \in Houses /\ d.mails \in Mailboxes
      /\ IsABag(d.mails) /\ IsFiniteSet(DOMAIN d.mails) /\ DOMAIN d.mails \subseteq Posted
      /\ IsFiniteSet(DOMAIN d.auctions)
  BY ContentsType, MailboxType, HouseFinite
<1>2. Mass(GoldTo(p), d.mails) = GoldIn(d.mails, {p})
  <2> DEFINE S == DOMAIN d.mails
             T == {m \in BagToSet(d.mails) : m.to \in {p}}
             f == [l \in S |-> GoldTo(p)[l] * d.mails[l]]
             g == [l \in T |-> l.money * d.mails[l]]
  <2>1. /\ \A l \in S : f[l] = GoldTo(p)[l] * d.mails[l]
        /\ \A l \in T : g[l] = l.money * d.mails[l]
        /\ T \subseteq S /\ \A l \in S : l \in T <=> l.to = p
    BY DEF BagToSet
  <2>2. \A l \in S : d.mails[l] \in Nat
    BY <1>1 DEF IsABag
  <2>3. Mass(GoldTo(p), d.mails) = SumFunctionOnSet(f, S)
    BY DEF Mass
  <2>4. GoldIn(d.mails, {p}) = SumFunctionOnSet(g, T)
    BY DEF GoldIn, SumFunction
  <2> HIDE DEF f, g, T
  <2>5. \A l \in S : f[l] \in Int /\ (l.to # p => f[l] = 0) /\ (l.to = p => f[l] = l.money * d.mails[l])
    BY <1>1, <2>1, <2>2, ToWeights
  <2>6. SumFunctionOnSet(f, S) = SumFunctionOnSet(f, T)
    BY <1>1, <2>1, <2>5, SumOfSome
  <2>7. IsFiniteSet(T)
    BY <1>1, <2>1, FS_Subset
  <2>8. SumFunctionOnSet(f, T) = SumFunctionOnSet(g, T)
    BY <2>1, <2>5, <2>7, SumEqual
  <2> QED
    BY <2>3, <2>4, <2>6, <2>8
<1>3. Stake(BidOf(p), d.auctions) = BidsBy(d.auctions, {p})
  <2> DEFINE as == d.auctions
             S == DOMAIN as
             T == {i \in DOMAIN as : as[i].bidder \in {p}}
             f == [id \in S |-> BidOf(p)[as[id]]]
             g == [id \in T |-> as[id].bid]
  <2>1. /\ \A id \in S : f[id] = BidOf(p)[as[id]]
        /\ \A id \in T : g[id] = as[id].bid
        /\ T \subseteq S /\ \A id \in S : id \in T <=> as[id].bidder = p
    OBVIOUS
  <2>2. \A id \in S : as[id] \in Offers
    BY <1>1, OfferType
  <2>3. Stake(BidOf(p), d.auctions) = SumFunctionOnSet(f, S)
    BY DEF Stake
  <2>4. BidsBy(d.auctions, {p}) = SumFunctionOnSet(g, T)
    BY DEF BidsBy, SumFunction
  <2> HIDE DEF f, g, T
  <2>5. \A id \in S : f[id] \in Int /\ (as[id].bidder # p => f[id] = 0)
                      /\ (as[id].bidder = p => f[id] = as[id].bid)
    BY <2>1, <2>2, ToWeights
  <2>6. SumFunctionOnSet(f, S) = SumFunctionOnSet(f, T)
    BY <1>1, <2>1, <2>5, SumOfSome
  <2>7. IsFiniteSet(T)
    BY <1>1, <2>1, FS_Subset
  <2>8. SumFunctionOnSet(f, T) = SumFunctionOnSet(g, T)
    BY <2>1, <2>5, <2>7, SumEqual
  <2> QED
    BY <2>3, <2>4, <2>6, <2>8
<1> QED
  BY <1>2, <1>3 DEF WorthOf

-----------------------------------------------------------------------------
(* A fair step.                                                            *)

GivesAway(d, e, p) ==
    \E l \in DOMAIN e.mails : l.from = p /\ (l \in DOMAIN d.mails => d.mails[l] < e.mails[l])
PaysFees(d, e, p) ==
    \/ \E id \in DOMAIN e.auctions :
          id \notin DOMAIN d.auctions /\ e.auctions[id].owner = p
          /\ WorthOf(d, p) - WorthOf(e, p) = Deposit
    \/ \E id \in DOMAIN d.auctions :
          id \notin DOMAIN e.auctions /\ d.auctions[id].owner = p
          /\ WorthOf(d, p) - WorthOf(e, p) = AuctionCut(d.auctions[id].bid)
KeepsGoods(d, e, p) == \A u : Has(d, p, u) => Has(e, p, u)
Poorer(d, e, p) == WorthOf(e, p) < WorthOf(d, p)
Richer(d, e, p) == WorthOf(e, p) > WorthOf(d, p)
Gets(d, e, p) == \E u : Has(e, p, u) /\ ~Has(d, p, u)
Fair(d, e, p) ==
    \/ GivesAway(d, e, p)
    \/ /\ KeepsGoods(d, e, p) \/ Richer(d, e, p)
       /\ ~Poorer(d, e, p) \/ Gets(d, e, p) \/ PaysFees(d, e, p)
FairStep ==
    \A p \in Players :
        /\ Goods(p) \subseteq Goods(p)' \/ Worth(p)' > Worth(p) \/ Gives(p)
        /\ \/ Worth(p)' >= Worth(p)
           \/ Goods(p)' \ Goods(p) # {}
           \/ Gives(p)
           \/ PaysFee(p)

LEMMA FairIs ==
    ASSUME AuctionInv, AuctionInv', world = "running", world' = "running",
           \A q \in Players : Fair(Planned, Planned', q)
    PROVE  FairStep
<1> DEFINE d == Planned
           e == Planned'
<1>1. d \in Contents /\ auctions = d.auctions
  BY InWorld
<1>2. e \in Contents
  <2>1. Len(queue') \in Nat /\ StoresSound'
    BY DEF AuctionInv, MemoryType
  <2>2. Len(queue') \in 0..Len(queue')
    BY <2>1
  <2>3. Sound(AtNext(Len(queue')), nextAuction')
    BY <2>1, <2>2, StoresPrime
  <2> QED
    BY <2>3, PlannedPrime DEF Sound
<1>3. auctions' = e.auctions
  BY DEF AuctionInv, InMemory
<1>4. ASSUME NEW p \in Players
      PROVE  /\ Worth(p) = WorthOf(d, p) /\ Worth(p)' = WorthOf(e, p)
             /\ \A u : u \in Goods(p) <=> Has(d, p, u)
             /\ \A u : u \in Goods(p)' <=> Has(e, p, u)
             /\ Gives(p) <=> GivesAway(d, e, p)
             /\ WorthOf(d, p) \in Nat /\ WorthOf(e, p) \in Nat
  <2>1. Worth(p) = WorthOf(d, p)
    BY <1>1, WorthIs DEF Worth
  <2>2. Worth(p)' = e.gold[p] + GoldIn(e.mails, {p}) + BidsBy(e.auctions, {p})
    BY DEF Worth
  <2>3. Gives(p) <=> GivesAway(d, e, p)
    BY DEF Gives, GivesAway, BagToSet
  <2>4. Goods(p) = UNION ({d.bag[p]}
                   \cup {l.units : l \in {m \in BagToSet(d.mails) :
                                    IF m.cod > 0 THEN m.from = p ELSE m.to = p}}
                   \cup {a.units : a \in {b \in Range(d.auctions) : b.owner = p}})
    BY DEF Goods
  <2>5. Goods(p)' = UNION ({e.bag[p]}
                   \cup {l.units : l \in {m \in BagToSet(e.mails) :
                                    IF m.cod > 0 THEN m.from = p ELSE m.to = p}}
                   \cup {a.units : a \in {b \in Range(e.auctions) : b.owner = p}})
    BY DEF Goods
  <2> HIDE DEF d, e
  <2>6. Worth(p)' = WorthOf(e, p)
    BY <1>2, <2>2, WorthIs
  <2>7. \A u : u \in Goods(p) <=> Has(d, p, u)
    BY <2>4, GoodsAre
  <2>8. \A u : u \in Goods(p)' <=> Has(e, p, u)
    BY <2>5, GoodsAre
  <2> QED
    BY <1>1, <1>2, <2>1, <2>3, <2>6, <2>7, <2>8, WorthParts
<1>5. \A q \in Players : Fair(d, e, q)
  OBVIOUS
<1> HIDE DEF d, e
<1>6. ASSUME NEW p \in Players, ~Gives(p), ~(Goods(p) \subseteq Goods(p)'), ~(Worth(p)' > Worth(p))
      PROVE  FALSE
  <2>1. ~KeepsGoods(d, e, p) /\ ~Richer(d, e, p) /\ ~GivesAway(d, e, p)
    BY <1>4, <1>6 DEF KeepsGoods, Richer
  <2> QED
    BY <1>5, <2>1 DEF Fair
<1>7. ASSUME NEW p \in Players, ~Gives(p), ~(Worth(p)' >= Worth(p)),
             ~(Goods(p)' \ Goods(p) # {}), ~PaysFee(p)
      PROVE  FALSE
  <2>1. ~GivesAway(d, e, p)
    BY <1>4, <1>7
  <2>2. Poorer(d, e, p)
    BY <1>4, <1>7 DEF Poorer
  <2>3. ~Gets(d, e, p)
    BY <1>4, <1>7 DEF Gets
  <2>4. ~PaysFees(d, e, p)
    <3>1. Worth(p) = WorthOf(d, p) /\ Worth(p)' = WorthOf(e, p)
      BY <1>4
    <3> QED BY <1>1, <1>3, <1>7, <3>1 DEF PaysFee, PaysFees
  <2> QED
    BY <1>5, <2>1, <2>2, <2>3, <2>4 DEF Fair
<1> QED
  BY <1>6, <1>7 DEF FairStep

\* Letters sent, an auction that is over, added or bid for: whose the units are then.
LEMMA SentIn ==
    ASSUME NEW m \in Mailboxes, NEW L \in SUBSET Posted, IsFiniteSet(L),
           NEW more, more = m (+) Sent(L)
    PROVE  /\ \A l : l \in DOMAIN more <=> l \in DOMAIN m \/ (l \in L /\ Filled(l))
           /\ \A l \in L : Filled(l) /\ l \in DOMAIN m => m[l] < more[l]
<1>1. IsABag(m)
  BY MailboxType
<1>2. /\ DOMAIN more = DOMAIN m \cup DOMAIN Sent(L) /\ IsABag(more)
      /\ \A l : Copies(l, more) = Copies(l, m) + Copies(l, Sent(L))
      /\ DOMAIN Sent(L) = {l \in L : Filled(l)}
      /\ \A l : Copies(l, Sent(L)) = IF l \in L /\ Filled(l) THEN 1 ELSE 0
  <2> DEFINE b == Sent(L)
  <2>1. /\ IsABag(b) /\ DOMAIN b = {l \in L : Filled(l)}
        /\ \A l : Copies(l, b) = IF l \in L /\ Filled(l) THEN 1 ELSE 0
    BY SentBag
  <2>2. more = m (+) b
    OBVIOUS
  <2> HIDE DEF b
  <2>3. /\ IsABag(m (+) b) /\ DOMAIN (m (+) b) = DOMAIN m \cup DOMAIN b
        /\ \A l : Copies(l, m (+) b) = Copies(l, m) + Copies(l, b)
    BY <1>1, <2>1, BagSum, Zenon
  <2> QED
    BY <2>1, <2>2, <2>3 DEF b
<1>3. ASSUME NEW l \in L, Filled(l), l \in DOMAIN m PROVE m[l] < more[l]
  <2>1. Copies(l, more) = Copies(l, m) + 1 /\ Copies(l, m) \in Nat
    BY <1>1, <1>2, <1>3, BagCopies
  <2>2. Copies(l, m) = m[l] /\ Copies(l, more) = more[l]
    BY <1>2, <1>3 DEF Copies
  <2> QED
    BY <2>1, <2>2
<1> QED
  BY <1>2, <1>3

LEMMA MailStays ==
    ASSUME NEW d \in Contents, NEW e, NEW L \in SUBSET Posted, IsFiniteSet(L),
           e.mails = d.mails (+) Sent(L)
    PROVE  /\ \A q, u : InMail(d, q, u) => InMail(e, q, u)
           /\ \A l \in L : \A u \in l.units : InMail(e, Holder(l), u)
           /\ \A q, u : InMail(e, q, u) =>
                InMail(d, q, u) \/ \E l \in L : u \in l.units /\ Holder(l) = q
<1>1. \A l : l \in DOMAIN e.mails <=> l \in DOMAIN d.mails \/ (l \in L /\ Filled(l))
  BY ContentsType, SentIn
<1>2. \A l \in L : \A u \in l.units : Filled(l)
  BY DEF Filled
<1> QED
  BY <1>1, <1>2 DEF InMail

LEMMA HouseLess ==
    ASSUME NEW d \in Contents, NEW e, NEW id \in DOMAIN d.auctions,
           NEW a, a = d.auctions[id], e.auctions = Without(d.auctions, id)
    PROVE  /\ \A q, u : InHouse(d, q, u) => InHouse(e, q, u) \/ (u \in a.units /\ q = a.owner)
           /\ \A q, u : InHouse(e, q, u) => InHouse(d, q, u)
           /\ id \notin DOMAIN e.auctions
<1> DEFINE as == e.auctions
<1>1. as = Without(d.auctions, id) /\ d.auctions \in Houses
  BY ContentsType
<1> HIDE DEF as
<1>2. /\ \A i : i \in DOMAIN as <=> i \in DOMAIN d.auctions /\ i # id
      /\ \A i \in DOMAIN as : as[i] = d.auctions[i]
  BY <1>1, HouseWithout
<1> QED
  BY <1>2 DEF InHouse, as

LEMMA HouseMore ==
    ASSUME NEW d \in Contents, NEW e, NEW n \in 1..MaxAuctions, n \notin DOMAIN d.auctions,
           NEW a \in Offers, e.auctions = AddAuction(d.auctions, n, a)
    PROVE  /\ \A q, u : InHouse(d, q, u) => InHouse(e, q, u)
           /\ \A u \in a.units : InHouse(e, a.owner, u)
           /\ n \in DOMAIN e.auctions /\ e.auctions[n] = a
<1> DEFINE as == e.auctions
<1>1. as = AddAuction(d.auctions, n, a) /\ d.auctions \in Houses
  BY ContentsType
<1> HIDE DEF as
<1>2. /\ \A i : i \in DOMAIN as <=> i \in DOMAIN d.auctions \/ i = n
      /\ as[n] = a /\ \A i \in DOMAIN d.auctions : as[i] = d.auctions[i]
  BY <1>1, HouseWith
<1> QED
  BY <1>2 DEF InHouse, as

LEMMA HouseBid ==
    ASSUME NEW d \in Contents, NEW e, NEW id \in DOMAIN d.auctions,
           NEW b \in Offers, b.units = d.auctions[id].units, b.owner = d.auctions[id].owner,
           e.auctions = Instead(d.auctions, id, b)
    PROVE  \A q, u : InHouse(d, q, u) => InHouse(e, q, u)
<1> DEFINE as == e.auctions
<1>1. as = Instead(d.auctions, id, b) /\ d.auctions \in Houses
  BY ContentsType
<1> HIDE DEF as
<1>2. /\ DOMAIN as = DOMAIN d.auctions
      /\ as[id] = b /\ \A i \in DOMAIN d.auctions : i # id => as[i] = d.auctions[i]
  BY <1>1, HouseChanged
<1> QED
  BY <1>2 DEF InHouse, as

-----------------------------------------------------------------------------
(* What they are worth.                                                    *)

LEMMA WorthChange ==
    ASSUME NEW d \in Contents, NEW e \in Contents, NEW q \in Players,
           NEW g \in Int, NEW m \in Int, NEW s \in Int,
           e.gold[q] = d.gold[q] + g,
           Mass(GoldTo(q), e.mails) = Mass(GoldTo(q), d.mails) + m,
           Stake(BidOf(q), e.auctions) = Stake(BidOf(q), d.auctions) + s
    PROVE  WorthOf(e, q) = WorthOf(d, q) + (g + m + s) /\ WorthOf(d, q) \in Nat
<1>1. /\ d.gold[q] \in Nat /\ Mass(GoldTo(q), d.mails) \in Nat
      /\ Stake(BidOf(q), d.auctions) \in Nat /\ WorthOf(d, q) \in Nat
  BY WorthParts
<1> DEFINE x == Mass(GoldTo(q), d.mails)
           y == Stake(BidOf(q), d.auctions)
<1>2. WorthOf(d, q) = d.gold[q] + x + y /\ WorthOf(e, q) = (d.gold[q] + g) + (x + m) + (y + s)
  BY DEF WorthOf
<1> HIDE DEF x, y
<1> QED
  BY <1>1, <1>2 DEF x, y

LEMMA WorthEnded ==
    ASSUME NEW d \in Contents, NEW e \in Contents, NEW q \in Players, NEW g \in Int,
           e.gold[q] = d.gold[q] + g,
           NEW id \in DOMAIN d.auctions, NEW a \in Offers, a = d.auctions[id],
           NEW L \in SUBSET Posted, IsFiniteSet(L),
           e.auctions = Without(d.auctions, id), e.mails = d.mails (+) Sent(L)
    PROVE  /\ WorthOf(e, q) = WorthOf(d, q) + (g + SumFunctionOnSet(GoldTo(q), L) - BidOf(q)[a])
           /\ WorthOf(d, q) \in Nat
           /\ SumFunctionOnSet(GoldTo(q), L) \in Int /\ BidOf(q)[a] \in Nat
<1> DEFINE m == SumFunctionOnSet(GoldTo(q), L)
           b == BidOf(q)[a]
           s == 0 - b
<1>1. /\ d.auctions \in Houses /\ d.mails \in Mailboxes
      /\ GoldTo(q) \in Weights /\ BidOf(q) \in Values /\ b \in Nat
  BY ContentsType, ToWeights
<1>2. m \in Int
  BY <1>1, WeightInt
<1>3. Mass(GoldTo(q), e.mails) = Mass(GoldTo(q), d.mails) + m
  BY <1>1, MassWithLetters
<1>4. Stake(BidOf(q), e.auctions) = Stake(BidOf(q), d.auctions) - b
  BY <1>1, StakeWithout
<1>5. Stake(BidOf(q), d.auctions) \in Nat
  BY WorthParts
<1> HIDE DEF m, b
<1>6. Stake(BidOf(q), e.auctions) = Stake(BidOf(q), d.auctions) + s /\ s \in Int
  BY <1>1, <1>4, <1>5
<1> HIDE DEF s
<1>7. WorthOf(e, q) = WorthOf(d, q) + (g + m + s) /\ WorthOf(d, q) \in Nat
  BY <1>2, <1>3, <1>6, WorthChange
<1>8. g + m + s = g + m - b
  BY <1>1, <1>2 DEF s
<1> QED
  BY <1>1, <1>2, <1>7, <1>8 DEF m, b

\* What the letters of an auction are worth to a player.
LEMMA LetterGoldTo ==
    ASSUME NEW a, NEW q
    PROVE  /\ PaidLetter(a) \in Posted =>
                GoldTo(q)[PaidLetter(a)] = IF q = a.owner THEN ProfitOf(a) ELSE 0
           /\ WonLetter(a) \in Posted => GoldTo(q)[WonLetter(a)] = 0
           /\ BackLetter(a) \in Posted => GoldTo(q)[BackLetter(a)] = 0
           /\ RefundLetter(a) \in Posted =>
                GoldTo(q)[RefundLetter(a)] = IF q = a.bidder THEN a.bid ELSE 0
<1>1. /\ PaidLetter(a).to = a.owner /\ PaidLetter(a).money = ProfitOf(a)
      /\ WonLetter(a).money = 0 /\ BackLetter(a).money = 0
      /\ RefundLetter(a).to = a.bidder /\ RefundLetter(a).money = a.bid
  BY DEF PaidLetter, WonLetter, BackLetter, RefundLetter, Mail
<1>2. \A l \in Posted : GoldTo(q)[l] = IF l.to = q THEN l.money ELSE 0
  BY DEF GoldTo
<1> QED
  BY <1>1, <1>2

LEMMA LetterHolders ==
    ASSUME NEW a
    PROVE  /\ Holder(WonLetter(a)) = a.bidder /\ WonLetter(a).units = a.units
           /\ Holder(BackLetter(a)) = a.owner /\ BackLetter(a).units = a.units
BY DEF WonLetter, BackLetter, Mail, Holder

LEMMA RefundTo ==
    ASSUME NEW a \in Offers, NEW p \in Players, NEW q \in Players
    PROVE  SumFunctionOnSet(GoldTo(q), Refund(a, p)) = IF q = p THEN 0 ELSE BidOf(q)[a]
<1>1. GoldTo(q) \in Weights /\ (a.bidder = q => BidOf(q)[a] = a.bid)
      /\ (a.bidder # q => BidOf(q)[a] = 0) /\ NoOne \notin Players
  BY ToWeights, AuctionAssumption
<1>2. CASE a.bidder \in {NoOne, p}
  <2>1. SumFunctionOnSet(GoldTo(q), Refund(a, p)) = 0
    BY <1>1, <1>2, RefundSum
  <2>2. q # p => a.bidder # q
    BY <1>1, <1>2
  <2> QED
    BY <1>1, <2>1, <2>2
<1>3. CASE a.bidder \notin {NoOne, p}
  <2>1. SumFunctionOnSet(GoldTo(q), Refund(a, p)) = GoldTo(q)[RefundLetter(a)]
        /\ RefundLetter(a) \in Posted
    BY <1>1, <1>3, RefundSum
  <2>2. GoldTo(q)[RefundLetter(a)] = IF q = a.bidder THEN a.bid ELSE 0
    BY <2>1, LetterGoldTo
  <2> QED
    BY <1>1, <1>3, <2>1, <2>2
<1> QED
  BY <1>2, <1>3

LEMMA SettlementTo ==
    ASSUME NEW a \in Offers, a.units \in aItems, NEW q \in Players
    PROVE  SumFunctionOnSet(GoldTo(q), Settlement(a))
             = IF a.bidder # NoOne /\ q = a.owner THEN ProfitOf(a) ELSE 0
<1>1. GoldTo(q) \in Weights
  BY ToWeights
<1>2. CASE a.bidder = NoOne
  <2>1. SumFunctionOnSet(GoldTo(q), Settlement(a)) = GoldTo(q)[BackLetter(a)]
        /\ BackLetter(a) \in Posted
    BY <1>1, <1>2, SettlementSum
  <2> QED
    BY <1>2, <2>1, LetterGoldTo
<1>3. CASE a.bidder # NoOne
  <2>1. /\ SumFunctionOnSet(GoldTo(q), Settlement(a))
             = GoldTo(q)[PaidLetter(a)] + GoldTo(q)[WonLetter(a)]
        /\ PaidLetter(a) \in Posted /\ WonLetter(a) \in Posted
    BY <1>1, <1>3, SettlementSum
  <2>2. GoldTo(q)[WonLetter(a)] = 0
        /\ GoldTo(q)[PaidLetter(a)] = IF q = a.owner THEN ProfitOf(a) ELSE 0
    BY <2>1, LetterGoldTo
  <2>3. GoldTo(q)[PaidLetter(a)] \in Nat
    BY <2>1, ToWeights
  <2> QED
    BY <1>3, <2>1, <2>2, <2>3
<1> QED
  BY <1>2, <1>3

LEMMA CancelledTo ==
    ASSUME NEW a \in Offers, NEW L, L = Cancelled(a, a.owner), NEW q \in Players
    PROVE  SumFunctionOnSet(GoldTo(q), L) = BidOf(q)[a]
<1>1. GoldTo(q) \in Weights /\ (a.bidder = q => BidOf(q)[a] = a.bid)
      /\ (a.bidder # q => BidOf(q)[a] = 0) /\ NoOne \notin Players
      /\ BackLetter(a) \in Posted
  BY ToWeights, AuctionAssumption, CancelledSum
<1>2. GoldTo(q)[BackLetter(a)] = 0
  BY <1>1, LetterGoldTo
<1>3. CASE a.bidder = NoOne
  <2>1. SumFunctionOnSet(GoldTo(q), L) = GoldTo(q)[BackLetter(a)]
    BY <1>1, <1>3, CancelledSum
  <2> QED
    BY <1>1, <1>2, <1>3, <2>1
<1>4. CASE a.bidder # NoOne
  <2>1. /\ SumFunctionOnSet(GoldTo(q), L) = GoldTo(q)[BackLetter(a)] + GoldTo(q)[RefundLetter(a)]
        /\ RefundLetter(a) \in Posted
    BY <1>1, <1>4, CancelledSum
  <2>2. GoldTo(q)[RefundLetter(a)] = IF q = a.bidder THEN a.bid ELSE 0
    BY <2>1, LetterGoldTo
  <2>3. GoldTo(q)[RefundLetter(a)] \in Nat
    BY <2>1, ToWeights
  <2> QED
    BY <1>1, <1>2, <2>1, <2>2, <2>3
<1> QED
  BY <1>3, <1>4

LEMMA SoldFair ==
    ASSUME NEW d \in Contents, NEW e \in Contents, NEW p \in Players, NEW units,
           NEW offer \in Offers, offer.units = units, offer.owner = p, offer.bidder = NoOne,
           NEW n \in 1..MaxAuctions, n \notin DOMAIN d.auctions,
           NEW gold \in Nat, gold = d.gold[p] - Deposit, NEW kept, kept = d.bag[p] \ units,
           e.gold = Instead(d.gold, p, gold), e.bag = Instead(d.bag, p, kept),
           e.auctions = AddAuction(d.auctions, n, offer), e.mails = d.mails,
           NEW q \in Players
    PROVE  Fair(d, e, q)
<1>1. /\ d.gold \in [Players -> Nat] /\ d.bag \in [Players -> SUBSET Units]
      /\ d.auctions \in Houses /\ d.mails \in Mailboxes /\ Deposit \in Nat /\ NoOne \notin Players
  BY ContentsType, AuctionAssumption
<1>2. /\ e.gold[p] = gold /\ (q # p => e.gold[q] = d.gold[q])
      /\ e.bag[p] = kept /\ (q # p => e.bag[q] = d.bag[q])
  BY <1>1 DEF Instead
<1>3. /\ \A r, u : InHouse(d, r, u) => InHouse(e, r, u)
      /\ \A u \in units : InHouse(e, p, u)
      /\ n \in DOMAIN e.auctions /\ e.auctions[n] = offer
  BY HouseMore
<1>4. KeepsGoods(d, e, q)
  <2>1. \A u : InMail(d, q, u) => InMail(e, q, u)
    BY DEF InMail
  <2>2. \A u : InBag(d, q, u) => InBag(e, q, u) \/ InHouse(e, q, u)
    BY <1>2, <1>3 DEF InBag
  <2> QED
    BY <1>3, <2>1, <2>2 DEF KeepsGoods, Has
<1>5. Stake(BidOf(q), e.auctions) = Stake(BidOf(q), d.auctions)
  <2>1. BidOf(q) \in Values /\ BidOf(q)[offer] = 0
    BY <1>1, ToWeights
  <2>2. Stake(BidOf(q), e.auctions) = Stake(BidOf(q), d.auctions) + BidOf(q)[offer]
    BY <1>1, <2>1, StakeWith
  <2> QED
    BY <2>1, <2>2, WorthParts
<1>6. WorthOf(e, q) = WorthOf(d, q) - (IF q = p THEN Deposit ELSE 0) /\ WorthOf(d, q) \in Nat
  <2> DEFINE x == Mass(GoldTo(q), d.mails)
             y == Stake(BidOf(q), d.auctions)
  <2>1. WorthOf(d, q) = d.gold[q] + x + y /\ WorthOf(e, q) = e.gold[q] + x + y
    BY <1>5 DEF WorthOf
  <2>2. x \in Nat /\ y \in Nat /\ d.gold[q] \in Nat
    BY WorthParts
  <2>3. e.gold[q] = d.gold[q] - (IF q = p THEN Deposit ELSE 0)
    BY <1>1, <1>2
  <2> HIDE DEF x, y
  <2> QED
    BY <1>1, <2>1, <2>2, <2>3
<1>7. CASE q = p
  <2>1. WorthOf(d, p) - WorthOf(e, p) = Deposit
    BY <1>1, <1>6, <1>7
  <2>2. PaysFees(d, e, p)
    BY <1>3, <2>1 DEF PaysFees
  <2> QED
    BY <1>4, <1>7, <2>2 DEF Fair
<1>8. CASE q # p
  <2>1. ~Poorer(d, e, q)
    BY <1>6, <1>8 DEF Poorer
  <2> QED
    BY <1>4, <2>1 DEF Fair
<1> QED
  BY <1>7, <1>8

LEMMA RaisedFair ==
    ASSUME NEW d \in Contents, NEW e \in Contents, NEW p \in Players,
           NEW id \in DOMAIN d.auctions, NEW a \in Offers, a = d.auctions[id],
           NEW bidden \in Offers, bidden.units = a.units, bidden.owner = a.owner,
           NEW price \in Nat, bidden.bid = price, bidden.bidder = p,
           NEW left \in Nat, left = d.gold[p] - Cost(p, a, price),
           NEW L \in SUBSET Posted, IsFiniteSet(L), L = Refund(a, p),
           e.gold = Instead(d.gold, p, left), e.bag = d.bag,
           e.auctions = Instead(d.auctions, id, bidden), e.mails = d.mails (+) Sent(L),
           NEW q \in Players
    PROVE  Fair(d, e, q)
<1>1. /\ d.gold \in [Players -> Nat]
      /\ d.auctions \in Houses /\ d.mails \in Mailboxes /\ NoOne \notin Players
  BY ContentsType, AuctionAssumption
<1>2. e.gold[p] = left /\ (q # p => e.gold[q] = d.gold[q])
  BY <1>1 DEF Instead
<1>3. KeepsGoods(d, e, q)
  <2>1. \A u : InMail(d, q, u) => InMail(e, q, u)
    BY MailStays
  <2>2. \A u : InHouse(d, q, u) => InHouse(e, q, u)
    BY HouseBid
  <2> QED
    BY <2>1, <2>2 DEF KeepsGoods, Has, InBag
<1> DEFINE b == BidOf(q)[a]
           c == BidOf(q)[bidden]
           m == SumFunctionOnSet(GoldTo(q), L)
           g == e.gold[q] - d.gold[q]
           s == c - b
<1>4. /\ GoldTo(q) \in Weights /\ BidOf(q) \in Values /\ b \in Nat /\ c \in Nat
      /\ (q = a.bidder => b = a.bid) /\ (q # a.bidder => b = 0)
      /\ (q = p => c = price) /\ (q # p => c = 0)
  BY ToWeights
<1>5. m = IF q = p THEN 0 ELSE b
  BY RefundTo
<1>6. Mass(GoldTo(q), e.mails) = Mass(GoldTo(q), d.mails) + m
  BY <1>1, <1>4, MassWithLetters
<1>7. Stake(BidOf(q), e.auctions) = (Stake(BidOf(q), d.auctions) - b) + c
  BY <1>1, <1>4, StakeInstead
<1>8. d.gold[q] \in Nat /\ e.gold[q] \in Nat /\ Stake(BidOf(q), d.auctions) \in Nat /\ a.bid \in Nat
  BY WorthParts, AuctionType DEF Offers
<1>9. g = IF q = p THEN b - price ELSE 0
  <2>1. CASE q # p
    BY <1>2, <1>8, <2>1
  <2>2. CASE q = p
    <3>1. Cost(p, a, price) = price - b
      BY <1>4, <2>2 DEF Cost
    <3> HIDE DEF b
    <3> QED BY <1>2, <1>4, <1>8, <2>2, <3>1
  <2> QED
    BY <2>1, <2>2
<1>10. e.gold[q] = d.gold[q] + g
  BY <1>8
<1> HIDE DEF b, c, m, g
<1>11. Stake(BidOf(q), e.auctions) = Stake(BidOf(q), d.auctions) + s /\ s \in Int
  BY <1>4, <1>7, <1>8
<1>12. g \in Int /\ m \in Int /\ g + m + s = 0
  BY <1>4, <1>5, <1>9
<1> HIDE DEF s
<1>13. WorthOf(e, q) = WorthOf(d, q) + (g + m + s) /\ WorthOf(d, q) \in Nat
  BY <1>6, <1>10, <1>11, <1>12, WorthChange
<1>14. ~Poorer(d, e, q)
  BY <1>12, <1>13 DEF Poorer
<1> QED
  BY <1>3, <1>14 DEF Fair

-----------------------------------------------------------------------------
(* An auction that is over.                                                *)

\* To its buyer or bidder, its units are new.
LEMMA GetsUnits ==
    ASSUME NEW d \in Contents, \A u \in Units : UnitsOf(d, u) = 1,
           NEW id \in DOMAIN d.auctions, NEW a \in Offers, a = d.auctions[id],
           NEW q \in Players, a.owner # q,
           NEW e, NEW L \in SUBSET Posted, IsFiniteSet(L),
           NEW l \in L, l.units = a.units, Holder(l) = q, e.mails = d.mails (+) Sent(L)
    PROVE  Gets(d, e, q)
<1>1. a.units \in SUBSET Units /\ a.units # {}
  BY AuctionType DEF Offers
<1>2. PICK u \in a.units : u \in Units
  BY <1>1
<1>3. Has(e, q, u)
  BY <1>2, MailStays DEF Has
<1>4. ~Has(d, q, u)
  <2>1. /\ \A r \in Players : u \notin d.bag[r]
        /\ \A k \in DOMAIN d.auctions : u \in d.auctions[k].units => k = id
        /\ \A k \in DOMAIN d.mails : u \notin k.units
    BY <1>2, InAnAuction
  <2> QED
    BY <2>1 DEF Has, InBag, InMail, InHouse
<1> QED
  BY <1>3, <1>4 DEF Gets

\* Who is not its owner keeps what he has.
LEMMA EndedKeeps ==
    ASSUME NEW d \in Contents, NEW e, NEW id \in DOMAIN d.auctions,
           NEW a, a = d.auctions[id], NEW L \in SUBSET Posted, IsFiniteSet(L),
           e.bag = d.bag, e.auctions = Without(d.auctions, id), e.mails = d.mails (+) Sent(L),
           NEW q, q # a.owner \/ \E l \in L : l.units = a.units /\ Holder(l) = q
    PROVE  KeepsGoods(d, e, q)
<1>1. \A u : InMail(d, q, u) => InMail(e, q, u)
  BY MailStays
<1>2. \A u : InHouse(d, q, u) => InHouse(e, q, u) \/ (u \in a.units /\ q = a.owner)
  BY HouseLess
<1>3. \A u : InBag(d, q, u) => InBag(e, q, u)
  BY DEF InBag
<1>4. \A u : u \in a.units /\ q = a.owner => InMail(e, q, u)
  BY MailStays
<1> QED
  BY <1>1, <1>2, <1>3, <1>4 DEF KeepsGoods, Has

LEMMA Profit ==
    ASSUME ProfitsFit, SalesPay, NEW a \in Offers, a.bidder # NoOne
    PROVE  ProfitOf(a) \in Nat /\ ProfitOf(a) > 0
<1>1. /\ ProfitOf(a) = a.bid + a.deposit - AuctionCut(a.bid) /\ a.bid \in Nat
      /\ a.deposit = Deposit /\ a.bid \in (Prices \cup Buyouts) \ {0} /\ AuctionCut(a.bid) \in Nat
      /\ Deposit \in Nat
  BY ProfitIs, AuctionAssumption
<1>2. AuctionCut(a.bid) < a.bid + Deposit
  BY <1>1 DEF SalesPay
<1> DEFINE cut == AuctionCut(a.bid)
<1> HIDE DEF cut
<1> QED
  BY <1>1, <1>2 DEF cut

LEMMA BoughtFair ==
    ASSUME ProfitsFit, SalesPay,
           NEW d \in Contents, NEW e \in Contents, \A u \in Units : UnitsOf(d, u) = 1,
           NEW p \in Players,
           NEW id \in DOMAIN d.auctions, NEW a \in Offers, a = d.auctions[id], a.owner # p,
           NEW bidden \in Offers, bidden.units = a.units, bidden.owner = a.owner,
           bidden.bidder = p, bidden.units \in aItems,
           NEW left \in Nat,
           NEW L \in SUBSET Posted, IsFiniteSet(L), L = BuyoutLetters(a, p, bidden),
           e.gold = Instead(d.gold, p, left), e.bag = d.bag,
           e.auctions = Without(d.auctions, id), e.mails = d.mails (+) Sent(L),
           NEW q \in Players
    PROVE  Fair(d, e, q)
<1>1. d.gold \in [Players -> Nat] /\ NoOne \notin Players
  BY ContentsType, AuctionAssumption
<1>2. q # p => e.gold[q] = d.gold[q]
  BY <1>1 DEF Instead
<1>3. WonLetter(bidden) \in L
  <2>1. Settlement(bidden) = {PaidLetter(bidden), WonLetter(bidden)}
    BY <1>1, HasWeights, SettlementSum
  <2> QED
    BY <2>1 DEF BuyoutLetters
<1>4. CASE q = p
  <2>1. KeepsGoods(d, e, q)
    BY <1>4, EndedKeeps
  <2>2. Gets(d, e, q)
    BY <1>3, <1>4, LetterHolders, GetsUnits
  <2> QED
    BY <2>1, <2>2 DEF Fair
<1>5. CASE q # p
  <2> DEFINE b == BidOf(q)[a]
             m == SumFunctionOnSet(GoldTo(q), L)
             none == 0
  <2>1. e.gold[q] = d.gold[q] + none /\ none \in Int
    BY <1>1, <1>2, <1>5
  <2>2. m = SumFunctionOnSet(GoldTo(q), Refund(a, p)) + SumFunctionOnSet(GoldTo(q), Settlement(bidden))
    BY ToWeights, BuyoutSum
  <2>3. SumFunctionOnSet(GoldTo(q), Refund(a, p)) = b
    BY <1>5, RefundTo
  <2>4. SumFunctionOnSet(GoldTo(q), Settlement(bidden)) = IF q = a.owner THEN ProfitOf(bidden) ELSE 0
    BY <1>1, SettlementTo
  <2> HIDE DEF none
  <2>5. WorthOf(e, q) = WorthOf(d, q) + (none + m - b) /\ WorthOf(d, q) \in Nat
        /\ m \in Int /\ b \in Nat
    BY <2>1, WorthEnded
  <2> HIDE DEF b, m
  <2>6. WorthOf(e, q) = WorthOf(d, q) + (IF q = a.owner THEN ProfitOf(bidden) ELSE 0)
    <3>1. ProfitOf(bidden) \in Nat
      BY <1>1, Profit
    <3> QED BY <2>2, <2>3, <2>4, <2>5, <3>1 DEF none
  <2>7. CASE q = a.owner
    <3>1. ProfitOf(bidden) \in Nat /\ ProfitOf(bidden) > 0
      BY <1>1, Profit
    <3>2. Richer(d, e, q) /\ ~Poorer(d, e, q)
      BY <2>5, <2>6, <2>7, <3>1 DEF Richer, Poorer
    <3> QED BY <3>2 DEF Fair
  <2>8. CASE q # a.owner
    <3>1. ~Poorer(d, e, q)
      BY <2>5, <2>6, <2>8 DEF Poorer
    <3>2. KeepsGoods(d, e, q)
      BY <2>8, EndedKeeps
    <3> QED BY <3>1, <3>2 DEF Fair
  <2> QED
    BY <2>7, <2>8
<1> QED
  BY <1>4, <1>5

LEMMA RemovedFair ==
    ASSUME NEW d \in Contents, NEW e \in Contents, NEW p \in Players,
           NEW id \in DOMAIN d.auctions, NEW a \in Offers, a = d.auctions[id], a.owner = p,
           NEW cut \in Nat, cut = CutOf(a), NEW left \in Nat, left = d.gold[p] - cut,
           NEW L \in SUBSET Posted, IsFiniteSet(L), L = Cancelled(a, a.owner),
           e.gold = Instead(d.gold, p, left), e.bag = d.bag,
           e.auctions = Without(d.auctions, id), e.mails = d.mails (+) Sent(L),
           NEW q \in Players
    PROVE  Fair(d, e, q)
<1>1. d.gold \in [Players -> Nat]
  BY ContentsType
<1>2. e.gold[p] = left /\ (q # p => e.gold[q] = d.gold[q])
  BY <1>1 DEF Instead
<1>3. BackLetter(a) \in L
  BY GoldWeights, CancelledSum
<1>4. KeepsGoods(d, e, q)
  <2>1. CASE q # a.owner
    BY <2>1, EndedKeeps
  <2>2. CASE q = a.owner
    <3>1. \E l \in L : l.units = a.units /\ Holder(l) = q
      BY <1>3, <2>2, LetterHolders
    <3> QED BY <3>1, EndedKeeps
  <2> QED
    BY <2>1, <2>2
<1> DEFINE g == IF q = p THEN 0 - cut ELSE 0
           m == SumFunctionOnSet(GoldTo(q), L)
           b == BidOf(q)[a]
<1>5. e.gold[q] = d.gold[q] + g /\ g \in Int
  BY <1>1, <1>2
<1>6. m = b
  BY CancelledTo
<1> HIDE DEF g
<1>7. WorthOf(e, q) = WorthOf(d, q) + (g + m - b) /\ WorthOf(d, q) \in Nat /\ m \in Int /\ b \in Nat
  BY <1>5, WorthEnded
<1> HIDE DEF m, b
<1>8. WorthOf(e, q) = WorthOf(d, q) + g
  BY <1>5, <1>6, <1>7
<1>9. CASE q # p
  <2>1. ~Poorer(d, e, q)
    BY <1>7, <1>8, <1>9 DEF Poorer, g
  <2> QED
    BY <1>4, <2>1 DEF Fair
<1>10. CASE q = p /\ a.bidder = NoOne
  <2>1. ~Poorer(d, e, q)
    BY <1>7, <1>8, <1>10 DEF Poorer, g, CutOf
  <2> QED
    BY <1>4, <2>1 DEF Fair
<1>11. CASE q = p /\ a.bidder # NoOne
  <2>1. WorthOf(d, q) - WorthOf(e, q) = cut
    BY <1>7, <1>8, <1>11 DEF g
  <2>2. cut = AuctionCut(a.bid)
    BY <1>11 DEF CutOf
  <2>3. id \notin DOMAIN e.auctions
    BY HouseLess
  <2>4. PaysFees(d, e, q)
    BY <1>11, <2>1, <2>2, <2>3 DEF PaysFees
  <2> QED
    BY <1>4, <2>4 DEF Fair
<1> QED
  BY <1>9, <1>10, <1>11

LEMMA UpdatedFair ==
    ASSUME ProfitsFit, SalesPay,
           NEW d \in Contents, NEW e \in Contents, \A u \in Units : UnitsOf(d, u) = 1,
           NEW id \in DOMAIN d.auctions, NEW a \in Offers, a = d.auctions[id], a.units \in aItems,
           NEW L \in SUBSET Posted, IsFiniteSet(L), L = Settlement(a),
           NEW q \in Players, e.gold[q] = d.gold[q], e.bag = d.bag,
           e.auctions = Without(d.auctions, id), e.mails = d.mails (+) Sent(L)
    PROVE  Fair(d, e, q)
<1> DEFINE m == SumFunctionOnSet(GoldTo(q), L)
           b == BidOf(q)[a]
           none == 0
<1>1. e.gold[q] = d.gold[q] + none /\ none \in Int
  BY WorthParts
<1> HIDE DEF none
<1>2. WorthOf(e, q) = WorthOf(d, q) + (none + m - b) /\ WorthOf(d, q) \in Nat /\ m \in Int /\ b \in Nat
  BY <1>1, WorthEnded
<1>3. m = IF a.bidder # NoOne /\ q = a.owner THEN ProfitOf(a) ELSE 0
  BY SettlementTo
<1>4. /\ (q # a.bidder => b = 0) /\ a.bidder # a.owner /\ NoOne \notin Players
      /\ a.bidder \in Players \cup {NoOne}
  BY ToWeights, AuctionType, AuctionAssumption DEF Offers
<1> HIDE DEF m, b
<1>5. WorthOf(e, q) = WorthOf(d, q) + (m - b)
  BY <1>2 DEF none
<1>6. CASE a.bidder = NoOne
  <2>1. ~Poorer(d, e, q)
    BY <1>2, <1>3, <1>4, <1>5, <1>6 DEF Poorer
  <2>2. BackLetter(a) \in L
    BY <1>6, HasWeights, SettlementSum
  <2>3. KeepsGoods(d, e, q)
    <3>1. CASE q # a.owner
      BY <3>1, EndedKeeps
    <3>2. CASE q = a.owner
      <4>1. \E l \in L : l.units = a.units /\ Holder(l) = q
        BY <2>2, <3>2, LetterHolders
      <4> QED BY <4>1, EndedKeeps
    <3> QED BY <3>1, <3>2
  <2> QED
    BY <2>1, <2>3 DEF Fair
<1>7. CASE a.bidder # NoOne /\ q = a.owner
  <2>1. ProfitOf(a) \in Nat /\ ProfitOf(a) > 0
    BY <1>7, Profit
  <2>2. Richer(d, e, q) /\ ~Poorer(d, e, q)
    BY <1>2, <1>3, <1>4, <1>5, <1>7, <2>1 DEF Richer, Poorer
  <2> QED
    BY <2>2 DEF Fair
<1>8. CASE a.bidder # NoOne /\ q = a.bidder
  <2>1. WonLetter(a) \in L
    BY <1>8, HasWeights, SettlementSum
  <2>2. Gets(d, e, q)
    <3> DEFINE l == WonLetter(a)
    <3>1. l \in L /\ l.units = a.units /\ Holder(l) = q /\ a.owner # q
      BY <1>4, <1>8, <2>1, LetterHolders
    <3> HIDE DEF l
    <3> QED BY <3>1, GetsUnits
  <2>3. KeepsGoods(d, e, q)
    BY <1>4, <1>8, EndedKeeps
  <2> QED
    BY <2>2, <2>3 DEF Fair
<1>9. CASE a.bidder # NoOne /\ q # a.owner /\ q # a.bidder
  <2>1. ~Poorer(d, e, q)
    BY <1>2, <1>3, <1>4, <1>5, <1>9 DEF Poorer
  <2>2. KeepsGoods(d, e, q)
    BY <1>9, EndedKeeps
  <2> QED
    BY <2>1, <2>2 DEF Fair
<1> QED
  BY <1>6, <1>7, <1>8, <1>9

-----------------------------------------------------------------------------
(* Mail: what a letter sent, changed or returned is to players.            *)

\* What mail and gold change in a player's worth.
LEMMA WorthMail ==
    ASSUME NEW d \in Contents, NEW e \in Contents, NEW q \in Players,
           NEW g \in Int, NEW m \in Int, e.gold[q] = d.gold[q] + g,
           Mass(GoldTo(q), e.mails) = Mass(GoldTo(q), d.mails) + m,
           e.auctions = d.auctions
    PROVE  WorthOf(e, q) = WorthOf(d, q) + (g + m) /\ WorthOf(d, q) \in Nat
<1>1. /\ d.gold[q] \in Nat /\ Mass(GoldTo(q), d.mails) \in Nat
      /\ Stake(BidOf(q), d.auctions) \in Nat /\ WorthOf(d, q) \in Nat
  BY WorthParts
<1> DEFINE x == Mass(GoldTo(q), d.mails)
           y == Stake(BidOf(q), d.auctions)
<1>2. WorthOf(d, q) = d.gold[q] + x + y /\ WorthOf(e, q) = (d.gold[q] + g) + (x + m) + y
  BY DEF WorthOf
<1> HIDE DEF x, y
<1> QED
  BY <1>1, <1>2 DEF x, y

LEMMA SentFair ==
    ASSUME NEW d \in Contents, NEW e \in Contents, NEW p \in Players,
           NEW l \in Posted, l.from = p, Filled(l), NEW L, L = {l},
           NEW left, NEW kept,
           e.gold = Instead(d.gold, p, left), e.bag = Instead(d.bag, p, kept),
           e.auctions = d.auctions, e.mails = d.mails (+) Sent(L),
           NEW q \in Players
    PROVE  Fair(d, e, q)
<1>1. /\ d.gold \in [Players -> Nat] /\ d.bag \in [Players -> SUBSET Units]
      /\ d.mails \in Mailboxes
      /\ L \in SUBSET Posted /\ IsFiniteSet(L)
  BY ContentsType, OneLetter
<1>2. CASE q = p
  <2>1. /\ \A k : k \in DOMAIN e.mails <=> k \in DOMAIN d.mails \/ (k \in L /\ Filled(k))
        /\ \A k \in L : Filled(k) /\ k \in DOMAIN d.mails => d.mails[k] < e.mails[k]
    BY <1>1, SentIn
  <2>2. l \in L
    OBVIOUS
  <2>3. GivesAway(d, e, p)
    BY <2>1, <2>2 DEF GivesAway
  <2> QED
    BY <1>2, <2>3 DEF Fair
<1>3. CASE q # p
  <2>1. e.gold[q] = d.gold[q] /\ e.bag[q] = d.bag[q]
    BY <1>1, <1>3 DEF Instead
  <2>2. KeepsGoods(d, e, q)
    <3>1. \A u : InMail(d, q, u) => InMail(e, q, u)
      BY <1>1, MailStays
    <3> QED BY <2>1, <3>1 DEF KeepsGoods, Has, InBag, InHouse
  <2> DEFINE m == SumFunctionOnSet(GoldTo(q), L)
             none == 0
  <2>3. m \in Nat
    <3>1. GoldTo(q) \in Weights /\ GoldTo(q)[l] \in Nat
      BY ToWeights
    <3> QED BY <3>1, OneSum
  <2>4. Mass(GoldTo(q), e.mails) = Mass(GoldTo(q), d.mails) + m
    BY <1>1, ToWeights, MassWithLetters
  <2>5. e.gold[q] = d.gold[q] + none /\ none \in Int
    BY <2>1, WorthParts
  <2> HIDE DEF m, none
  <2>6. WorthOf(e, q) = WorthOf(d, q) + (none + m) /\ WorthOf(d, q) \in Nat
    BY <2>3, <2>4, <2>5, WorthMail
  <2>7. ~Poorer(d, e, q)
    BY <2>3, <2>6 DEF Poorer, none
  <2> QED
    BY <2>2, <2>7 DEF Fair
<1> QED
  BY <1>2, <1>3

\* A letter that is rewritten, and letters sent with it.
LEMMA RewrittenIn ==
    ASSUME NEW m \in Mailboxes, NEW k, NEW now \in SUBSET Posted, IsFiniteSet(now),
           NEW after, after = Rewritten(m, k, now)
    PROVE  /\ \A l : l \in DOMAIN m /\ l # k => l \in DOMAIN after
           /\ \A l \in now : Filled(l) => l \in DOMAIN after
           /\ \A l : l # k /\ l \notin now =>
                (l \in DOMAIN after <=> l \in DOMAIN m)
                /\ (l \in DOMAIN m => after[l] = m[l])
<1>1. IsABag(m)
  BY MailboxType
<1>2. /\ IsABag(after)
      /\ \A l : Copies(l, after) =
           (IF l = k /\ Copies(k, m) > 0 THEN Copies(k, m) - 1 ELSE Copies(l, m))
           + (IF l \in now /\ Filled(l) THEN 1 ELSE 0)
  BY <1>1, RewrittenBag
<1>3. /\ \A l : Copies(l, m) \in Nat /\ (l \in DOMAIN m <=> Copies(l, m) > 0)
      /\ \A l : Copies(l, after) \in Nat /\ (l \in DOMAIN after <=> Copies(l, after) > 0)
  BY <1>1, <1>2, BagCopies
<1>4. ASSUME NEW l, l \in DOMAIN m, l # k PROVE l \in DOMAIN after
  BY <1>2, <1>3, <1>4
<1>5. ASSUME NEW l \in now, Filled(l) PROVE l \in DOMAIN after
  BY <1>2, <1>3, <1>5
<1>6. ASSUME NEW l, l # k, l \notin now
      PROVE  (l \in DOMAIN after <=> l \in DOMAIN m) /\ (l \in DOMAIN m => after[l] = m[l])
  <2>1. Copies(l, after) = Copies(l, m)
    BY <1>2, <1>3, <1>6
  <2>2. l \in DOMAIN after <=> l \in DOMAIN m
    BY <1>3, <2>1
  <2> QED
    BY <2>1, <2>2 DEF Copies
<1> QED
  BY <1>4, <1>5, <1>6

LEMMA MailRewritten ==
    ASSUME NEW d \in Contents, NEW e, NEW l, NEW now \in SUBSET Posted, IsFiniteSet(now),
           NEW L \in SUBSET Posted, IsFiniteSet(L),
           e.mails = Rewritten(d.mails, l, now) (+) Sent(L)
    PROVE  /\ \A k \in DOMAIN d.mails : k # l => k \in DOMAIN e.mails
           /\ \A k \in now \cup L : Filled(k) => k \in DOMAIN e.mails
           /\ \A k \in L : Filled(k) /\ k # l /\ k \notin now /\ k \in DOMAIN d.mails =>
                d.mails[k] < e.mails[k]
<1> DEFINE r == Rewritten(d.mails, l, now)
           m == e.mails
<1>1. d.mails \in Mailboxes
  BY ContentsType
<1>2. r \in Mailboxes /\ r = Rewritten(d.mails, l, now) /\ m = r (+) Sent(L)
  BY <1>1, MailboxRewritten
<1> HIDE DEF r, m
<1>3. /\ \A k : k \in DOMAIN d.mails /\ k # l => k \in DOMAIN r
      /\ \A k \in now : Filled(k) => k \in DOMAIN r
      /\ \A k : k # l /\ k \notin now =>
           (k \in DOMAIN r <=> k \in DOMAIN d.mails) /\ (k \in DOMAIN d.mails => r[k] = d.mails[k])
  BY <1>1, <1>2, RewrittenIn
<1>4. /\ \A k : k \in DOMAIN m <=> k \in DOMAIN r \/ (k \in L /\ Filled(k))
      /\ \A k \in L : Filled(k) /\ k \in DOMAIN r => r[k] < m[k]
  BY <1>2, SentIn
<1>5. \A k \in L : Filled(k) /\ k # l /\ k \notin now /\ k \in DOMAIN d.mails => d.mails[k] < m[k]
  BY <1>3, <1>4
<1> QED
  BY <1>3, <1>4, <1>5 DEF m

\* Who has what was in a letter, or never had it, keeps what he has when it goes.
BagKept(d, e, q) == \A u : u \in d.bag[q] => u \in e.bag[q]
PassedOn(l, e, q, now, L) ==
    \A u \in l.units : \/ q # Holder(l)
                       \/ u \in e.bag[q]
                       \/ \E k \in now \cup L : u \in k.units /\ Holder(k) = q

LEMMA RewrittenKeeps ==
    ASSUME NEW d \in Contents, NEW e, NEW l, NEW now \in SUBSET Posted, IsFiniteSet(now),
           NEW L \in SUBSET Posted, IsFiniteSet(L),
           e.mails = Rewritten(d.mails, l, now) (+) Sent(L),
           e.auctions = d.auctions, NEW q, BagKept(d, e, q), PassedOn(l, e, q, now, L)
    PROVE  KeepsGoods(d, e, q)
<1>1. /\ \A k \in DOMAIN d.mails : k # l => k \in DOMAIN e.mails
      /\ \A k \in now \cup L : Filled(k) => k \in DOMAIN e.mails
  BY MailRewritten
<1>2. \A k \in now \cup L : \A u \in k.units : Filled(k)
  BY DEF Filled
<1>3. ASSUME NEW u, InMail(d, q, u) PROVE InMail(e, q, u) \/ u \in e.bag[q]
  <2>1. PICK k \in DOMAIN d.mails : u \in k.units /\ Holder(k) = q
    BY <1>3 DEF InMail
  <2>2. CASE k # l
    BY <1>1, <2>1, <2>2 DEF InMail
  <2>3. CASE k = l
    <3>1. u \in e.bag[q] \/ \E n \in now \cup L : u \in n.units /\ Holder(n) = q
      BY <2>1, <2>3 DEF PassedOn
    <3> QED BY <1>1, <1>2, <3>1 DEF InMail
  <2> QED
    BY <2>2, <2>3
<1>4. \A u : InHouse(d, q, u) => InHouse(e, q, u)
  BY DEF InHouse
<1> QED
  BY <1>3, <1>4 DEF KeepsGoods, Has, InBag, BagKept

LEMMA WorthRewritten ==
    ASSUME NEW d \in Contents, NEW e \in Contents, NEW q \in Players, NEW g \in Int,
           e.gold[q] = d.gold[q] + g,
           NEW l \in DOMAIN d.mails, NEW now \in SUBSET Posted, IsFiniteSet(now),
           NEW L \in SUBSET Posted, IsFiniteSet(L),
           e.auctions = d.auctions, e.mails = Rewritten(d.mails, l, now) (+) Sent(L),
           NEW w, w = GoldTo(q)
    PROVE  /\ WorthOf(e, q) = WorthOf(d, q)
                + (g + (SumFunctionOnSet(w, now) - w[l] + SumFunctionOnSet(w, L)))
           /\ WorthOf(d, q) \in Nat /\ w[l] \in Nat /\ l \in Posted
           /\ SumFunctionOnSet(w, L) \in Int /\ SumFunctionOnSet(w, now) \in Int
<1> DEFINE s == SumFunctionOnSet(w, L)
           t == SumFunctionOnSet(w, now)
           m == t - w[l] + s
<1>1. w \in Weights
  BY ToWeights
<1>2. /\ l \in Posted
      /\ Mass(w, e.mails) = ((Mass(w, d.mails) - w[l]) + t) + s
  BY <1>1, RewrittenMass
<1>3. w[l] \in Nat
  BY <1>2, ToWeights
<1>4. s \in Int /\ t \in Int
  BY <1>1, WeightInt
<1>5. Mass(w, d.mails) \in Nat
  BY WorthParts
<1> HIDE DEF s, t
<1>6. Mass(w, e.mails) = Mass(w, d.mails) + m /\ m \in Int
  BY <1>2, <1>3, <1>4, <1>5
<1> HIDE DEF m
<1>7. Mass(GoldTo(q), e.mails) = Mass(GoldTo(q), d.mails) + m
  BY <1>6
<1>8. WorthOf(e, q) = WorthOf(d, q) + (g + m) /\ WorthOf(d, q) \in Nat
  BY <1>6, <1>7, WorthMail
<1> QED
  BY <1>2, <1>3, <1>4, <1>8 DEF m, s, t

LEMMA NothingSent ==
    ASSUME NEW m, IsABag(m), NEW none, none = {}
    PROVE  m = m (+) Sent(none)
<1> DEFINE b == Sent(none)
           s == m (+) b
<1>1. IsABag(b) /\ DOMAIN b = {}
  BY SentBag
<1> HIDE DEF b
<1>2. DOMAIN s = DOMAIN m /\ s = [x \in DOMAIN s |-> s[x]]
  BY <1>1 DEF (+)
<1>3. \A x \in DOMAIN m : s[x] = m[x]
  BY <1>1 DEF (+), IsABag
<1>4. m = [x \in DOMAIN m |-> m[x]]
  BY DEF IsABag
<1> HIDE DEF s
<1>5. m = s
  BY <1>2, <1>3, <1>4
<1> QED
  BY <1>5 DEF s, b

\* Letters of which all are for one player.
LEMMA WorthOfOne ==
    ASSUME NEW l \in Posted, NEW k \in Posted, k.to = l.to, NEW q,
           NEW now, now = {k}, NEW w, w = GoldTo(q)
    PROVE  /\ SumFunctionOnSet(w, now) = w[k] /\ w[k] \in Nat /\ w[l] \in Nat
           /\ (l.to # q => w[l] = 0 /\ w[k] = 0)
           /\ (l.to = q => w[l] = l.money /\ w[k] = k.money)
           /\ now \in SUBSET Posted /\ IsFiniteSet(now)
BY ToWeights, OneSum, OneLetter

LEMMA EmptiedFair ==
    ASSUME NEW d \in Contents, NEW e \in Contents, NEW p \in Players,
           NEW l \in DOMAIN d.mails, l.to = p, NEW gold \in Nat, gold = d.gold[p] + l.money,
           NEW left, left = Emptied(l),
           e.gold = Instead(d.gold, p, gold), e.bag = d.bag,
           e.auctions = d.auctions, e.mails = Rewritten(d.mails, l, left),
           NEW q \in Players
    PROVE  Fair(d, e, q)
<1>1. d.gold \in [Players -> Nat] /\ d.mails \in Mailboxes
  BY ContentsType
<1>2. l \in Posted
  BY <1>1, MailboxType
<1>3. PICK k \in Posted : /\ left = {k} /\ k.units = l.units /\ k.money = 0
                          /\ k.to = l.to /\ k.from = l.from /\ k.cod = l.cod
  BY <1>2, EmptiedIs
<1> DEFINE none == {}
           w == GoldTo(q)
           g == IF q = p THEN l.money ELSE 0
<1>4. left \in SUBSET Posted /\ IsFiniteSet(left) /\ none \in SUBSET Posted /\ IsFiniteSet(none)
  BY <1>3, OneLetter, NoLetter
<1>5. e.mails = Rewritten(d.mails, l, left) (+) Sent(none)
  <2> DEFINE r == Rewritten(d.mails, l, left)
  <2>1. r \in Mailboxes
    BY <1>1, <1>4, MailboxRewritten
  <2> HIDE DEF r
  <2>2. IsABag(r)
    BY <2>1, MailboxType
  <2>3. r = r (+) Sent(none)
    BY <2>2, NothingSent
  <2>4. e.mails = r
    BY DEF r
  <2> QED
    BY <2>3, <2>4 DEF r
<1>6. SumFunctionOnSet(w, none) = 0
  BY SumEmpty
<1> HIDE DEF none
<1>7. e.gold[q] = d.gold[q] + g /\ g \in Int /\ l.money \in Nat
  <2>1. l.money \in Nat
    BY <1>2, LetterType
  <2>2. IF q = p THEN e.gold[q] = gold ELSE e.gold[q] = d.gold[q]
    BY <1>1 DEF Instead
  <2> QED
    BY <1>1, <2>1, <2>2
<1> HIDE DEF w, g
<1>8. w = GoldTo(q)
  BY DEF w
<1>9. /\ WorthOf(e, q) = WorthOf(d, q)
            + (g + (SumFunctionOnSet(w, left) - w[l] + SumFunctionOnSet(w, none)))
      /\ WorthOf(d, q) \in Nat
  BY <1>4, <1>5, <1>7, <1>8, WorthRewritten
<1>10. /\ SumFunctionOnSet(w, left) = w[k] /\ w[k] \in Nat /\ w[l] \in Nat
       /\ (l.to # q => w[l] = 0 /\ w[k] = 0)
       /\ (l.to = q => w[l] = l.money /\ w[k] = k.money)
  BY <1>2, <1>3, <1>8, WorthOfOne
<1>11. g + (SumFunctionOnSet(w, left) - w[l] + SumFunctionOnSet(w, none)) = 0
  BY <1>3, <1>6, <1>7, <1>10 DEF g
<1>12. ~Poorer(d, e, q)
  BY <1>9, <1>11 DEF Poorer
<1>13. KeepsGoods(d, e, q)
  <2>1. PassedOn(l, e, q, left, none)
    BY <1>3 DEF Holder, PassedOn
  <2>2. BagKept(d, e, q)
    BY DEF BagKept
  <2> QED
    BY <1>4, <1>5, <2>1, <2>2, RewrittenKeeps
<1> QED
  BY <1>12, <1>13 DEF Fair

LEMMA SameFair ==
    ASSUME NEW d \in Contents, NEW e \in Contents, e.gold = d.gold, e.bag = d.bag,
           e.auctions = d.auctions, e.mails = d.mails, NEW q \in Players
    PROVE  Fair(d, e, q)
<1>1. WorthOf(e, q) = WorthOf(d, q) /\ WorthOf(d, q) \in Nat
  <2>1. WorthOf(e, q) = WorthOf(d, q)
    BY DEF WorthOf
  <2> QED
    BY <2>1, WorthParts
<1>2. ~Poorer(d, e, q)
  BY <1>1 DEF Poorer
<1>3. KeepsGoods(d, e, q)
  BY DEF KeepsGoods, Has, InBag, InMail, InHouse
<1> QED
  BY <1>2, <1>3 DEF Fair

LEMMA ReturnedFair ==
    ASSUME NEW d \in Contents, NEW e \in Contents,
           NEW p \in Players, NEW l \in DOMAIN d.mails, l.to = p, l.from # House,
           NEW none, none = {}, NEW L, L = BackTo(l, p), NEW q \in Players,
           e.gold[q] = d.gold[q], e.bag = d.bag,
           e.auctions = d.auctions, e.mails = Rewritten(d.mails, l, none) (+) Sent(L)
    PROVE  Fair(d, e, q)
<1>1. d.gold \in [Players -> Nat] /\ d.mails \in Mailboxes
  BY ContentsType
<1>2. l \in Posted
  BY <1>1, MailboxType
<1>3. l.from # l.to /\ l.from \in Players /\ l.money \in Nat /\ l.cod \in Nat /\ l.units \in SUBSET Units
  BY <1>2, LetterType
<1> DEFINE k == Mail(l.from, p, l.money, l.units, 0)
           nil == 0
           w == GoldTo(q)
<1>4. /\ L = {k} /\ k.units = l.units /\ k.money = l.money /\ k.to = l.from /\ k.from = p
      /\ Holder(k) = l.from
  BY DEF BackTo, Mail, Holder
<1>5. /\ L \in SUBSET Posted /\ IsFiniteSet(L)
      /\ none \in SUBSET Posted /\ IsFiniteSet(none)
  BY <1>2, BackPosted, NoLetter
<1> HIDE DEF k
<1>6. k \in Posted /\ k # l /\ k \in L
  BY <1>3, <1>4, <1>5
<1>7. e.gold[q] = d.gold[q] + nil /\ nil \in Int
  BY <1>1
<1> HIDE DEF nil, w
<1>8. w = GoldTo(q)
  BY DEF w
<1>9. /\ WorthOf(e, q) = WorthOf(d, q)
            + (nil + (SumFunctionOnSet(w, none) - w[l] + SumFunctionOnSet(w, L)))
      /\ WorthOf(d, q) \in Nat /\ w[l] \in Nat
  BY <1>5, <1>7, <1>8, WorthRewritten
<1>10. /\ SumFunctionOnSet(w, none) = 0 /\ SumFunctionOnSet(w, L) = w[k] /\ w[k] \in Nat
       /\ (q # p => w[l] = 0)
  <2>1. w \in Weights /\ w[k] \in Nat /\ (q # p => w[l] = 0)
    BY <1>2, <1>6, <1>8, ToWeights
  <2> QED
    BY <1>4, <1>6, <2>1, SumEmpty, OneSum
<1>11. BagKept(d, e, q)
  BY DEF BagKept
<1>12. CASE q # p
  <2>1. ~Poorer(d, e, q)
    BY <1>9, <1>10, <1>12 DEF Poorer, nil
  <2>2. KeepsGoods(d, e, q)
    <3>1. PassedOn(l, e, q, none, L)
      BY <1>4, <1>6, <1>12 DEF Holder, PassedOn
    <3> QED BY <1>5, <1>11, <3>1, RewrittenKeeps
  <2> QED
    BY <2>1, <2>2 DEF Fair
<1>13. CASE q = p /\ Filled(l)
  <2>1. Filled(k)
    BY <1>4, <1>13 DEF Filled
  <2>2. /\ \A n \in none \cup L : Filled(n) => n \in DOMAIN e.mails
        /\ \A n \in L : Filled(n) /\ n # l /\ n \notin none /\ n \in DOMAIN d.mails =>
             d.mails[n] < e.mails[n]
    BY <1>5, MailRewritten
  <2>3. k \in DOMAIN e.mails /\ (k \in DOMAIN d.mails => d.mails[k] < e.mails[k])
    BY <1>6, <2>1, <2>2
  <2>4. GivesAway(d, e, p)
    BY <1>4, <2>3 DEF GivesAway
  <2> QED
    BY <1>13, <2>4 DEF Fair
<1>14. CASE q = p /\ ~Filled(l)
  <2>1. l.money = 0 /\ l.units = {}
    BY <1>3, <1>14 DEF Filled
  <2>2. w[l] = 0
    BY <1>2, <1>8, <1>14, <2>1, ToWeights
  <2>3. ~Poorer(d, e, q)
    BY <1>9, <1>10, <2>2 DEF Poorer, nil
  <2>4. PassedOn(l, e, q, none, L)
    BY <2>1 DEF PassedOn
  <2>5. KeepsGoods(d, e, q)
    BY <1>5, <1>11, <2>4, RewrittenKeeps
  <2> QED
    BY <2>3, <2>5 DEF Fair
<1> QED
  BY <1>12, <1>13, <1>14

\* Who takes a unit out of a letter has it, and the sender has what was to be paid.
LEMMA OpenedFair ==
    ASSUME NEW d \in Contents, NEW e \in Contents, \A u \in Units : UnitsOf(d, u) = 1,
           NEW p \in Players, NEW l \in DOMAIN d.mails, l.to = p, NEW x \in l.units,
           NEW gold \in Nat, gold = d.gold[p] - l.cod,
           NEW units, units = d.bag[p] \cup {x},
           NEW left, left = Opened(l, x), NEW L, L = PaymentFor(l, p),
           e.gold = Instead(d.gold, p, gold), e.bag = Instead(d.bag, p, units),
           e.auctions = d.auctions, e.mails = Rewritten(d.mails, l, left) (+) Sent(L),
           NEW q \in Players
    PROVE  Fair(d, e, q)
<1>1. /\ d.gold \in [Players -> Nat] /\ d.bag \in [Players -> SUBSET Units] /\ d.mails \in Mailboxes
  BY ContentsType
<1>2. l \in Posted
  BY <1>1, MailboxType
<1>3. /\ l.units \in SUBSET Units /\ l.cod \in Nat /\ l.money \in Nat
      /\ l.from # l.to /\ (l.cod > 0 => l.from \in Players)
  BY <1>2, LetterType
<1> DEFINE rest == Lacking(l.units, x)
           w == GoldTo(q)
           g == IF q = p THEN 0 - l.cod ELSE 0
           paid == IF q = l.from THEN l.cod ELSE 0
<1>4. PICK k \in Posted : /\ left = {k} /\ k.units = rest /\ k.money = l.money
                          /\ k.to = l.to /\ k.from = l.from /\ k.cod = 0
  BY <1>2, OpenedIs
<1>5. /\ left \in SUBSET Posted /\ IsFiniteSet(left)
      /\ L \in SUBSET Posted /\ IsFiniteSet(L)
  BY <1>2, <1>4, OneLetter, PaymentPosted
<1>6. /\ e.gold[q] = d.gold[q] + g /\ g \in Int
      /\ (q = p => e.bag[q] = units) /\ (q # p => e.bag[q] = d.bag[q])
  <2>1. /\ IF q = p THEN e.gold[q] = gold ELSE e.gold[q] = d.gold[q]
        /\ IF q = p THEN e.bag[q] = units ELSE e.bag[q] = d.bag[q]
    BY <1>1 DEF Instead
  <2>2. d.gold[q] \in Nat
    BY <1>1
  <2>3. e.gold[q] = d.gold[q] + g /\ g \in Int
    <3>1. CASE q = p
      BY <1>3, <2>1, <2>2, <3>1
    <3>2. CASE q # p
      BY <2>1, <2>2, <3>2
    <3> QED BY <3>1, <3>2
  <2> QED
    BY <2>1, <2>3
<1>7. BagKept(d, e, q)
  BY <1>6 DEF BagKept
<1>8. x \in e.bag[p]
  BY <1>1 DEF Instead
<1>9. SumFunctionOnSet(w, L) = paid
  <2>1. CASE l.cod > 0
    <3> DEFINE n == Mail(l.from, p, l.cod, {}, 0)
    <3>1. L = {n} /\ n.to = l.from /\ n.money = l.cod
      BY <2>1 DEF PaymentFor, Mail
    <3> HIDE DEF n
    <3>2. n \in Posted
      BY <1>5, <3>1
    <3> QED BY <3>1, <3>2, ToWeights, OneSum
  <2>2. CASE ~(l.cod > 0)
    <3>1. L = {} /\ l.cod = 0
      BY <1>3, <2>2 DEF PaymentFor
    <3> QED BY <3>1, SumEmpty
  <2> QED
    BY <2>1, <2>2
<1> HIDE DEF w, g
<1>10. w = GoldTo(q)
  BY DEF w
<1>11. /\ WorthOf(e, q) = WorthOf(d, q)
             + (g + (SumFunctionOnSet(w, left) - w[l] + SumFunctionOnSet(w, L)))
       /\ WorthOf(d, q) \in Nat
  BY <1>5, <1>6, <1>10, WorthRewritten
<1>12. SumFunctionOnSet(w, left) = w[l] /\ w[l] \in Nat
  <2>1. /\ SumFunctionOnSet(w, left) = w[k] /\ w[k] \in Nat /\ w[l] \in Nat
        /\ (l.to # q => w[l] = 0 /\ w[k] = 0)
        /\ (l.to = q => w[l] = l.money /\ w[k] = k.money)
    BY <1>2, <1>4, <1>10, WorthOfOne
  <2> QED
    BY <1>4, <2>1
<1>13. WorthOf(e, q) = WorthOf(d, q) + (g + paid)
  BY <1>3, <1>6, <1>9, <1>11, <1>12
<1>14. CASE l.cod = 0
  <2>1. ~Poorer(d, e, q)
    BY <1>11, <1>13, <1>14 DEF Poorer, g
  <2>2. Holder(l) = p /\ Holder(k) = p
    BY <1>4, <1>14 DEF Holder
  <2>3. PassedOn(l, e, q, left, L)
    BY <1>4, <1>8, <2>2 DEF PassedOn, Lacking
  <2>4. KeepsGoods(d, e, q)
    BY <1>5, <1>7, <2>3, RewrittenKeeps
  <2> QED
    BY <2>1, <2>4 DEF Fair
<1>15. CASE l.cod > 0
  <2>1. Holder(l) = l.from /\ l.from \in Players /\ l.from # p
    BY <1>3, <1>15 DEF Holder
  <2>2. CASE q = l.from
    <3>1. Richer(d, e, q) /\ ~Poorer(d, e, q)
      BY <1>3, <1>11, <1>13, <1>15, <2>1, <2>2 DEF Richer, Poorer, g
    <3> QED BY <3>1 DEF Fair
  <2>3. CASE q # l.from
    <3>1. PassedOn(l, e, q, left, L)
      BY <2>1, <2>3 DEF PassedOn
    <3>2. KeepsGoods(d, e, q)
      BY <1>5, <1>7, <3>1, RewrittenKeeps
    <3>3. CASE q = p
      <4>1. Has(e, q, x)
        BY <1>8, <3>3 DEF Has, InBag
      <4>2. UnitsOf(d, x) = 1
        BY <1>3
      <4>3. /\ x \notin d.bag[q]
            /\ \A id \in DOMAIN d.auctions : x \notin d.auctions[id].units
            /\ \A n \in DOMAIN d.mails : x \in n.units => n = l
        BY <4>2, InALetter
      <4>4. ~Has(d, q, x)
        BY <2>1, <3>3, <4>3 DEF Has, InBag, InMail, InHouse
      <4> QED BY <3>2, <4>1, <4>4 DEF Fair, Gets
    <3>4. CASE q # p
      <4>1. ~Poorer(d, e, q)
        BY <1>11, <1>13, <2>3, <3>4 DEF Poorer, g
      <4> QED BY <3>2, <4>1 DEF Fair
    <3> QED BY <3>3, <3>4
  <2> QED
    BY <2>2, <2>3
<1> QED
  BY <1>3, <1>14, <1>15

-----------------------------------------------------------------------------
(* Handlers that change stores are fair.                                   *)

FairTo(d, e) == \A q \in Players : Fair(d, e, q)

LEMMA SellFair ==
    ASSUME AuctionInv, BalanceInv, NEW p \in Players, NEW units \in SUBSET bag[p],
           NEW whole \in BOOLEAN, NEW start \in StartPrices, NEW buyout \in Buyouts,
           HandleAuctionSellItem(p, units, whole, start, buyout)
    PROVE  FairTo(Planned, Planned')
<1> DEFINE offer == OfferOf(p, units, start, buyout)
           half == Halfway(Planned, p, units)
           gold == Less(Planned.gold[p], Deposit)
           kept == Minus(Planned.bag[p], units)
           moved == Plus(Planned.moving, units)
           c == Planned'
           d == Planned
           n == nextAuction
<1>1. /\ offer = OfferOf(p, units, start, buyout) /\ half = Halfway(Planned, p, units)
      /\ gold = Less(Planned.gold[p], Deposit) /\ kept = Minus(Planned.bag[p], units)
      /\ moved = Plus(Planned.moving, units)
  OBVIOUS
<1>2. /\ offer.units = units /\ offer.owner = p /\ offer.bidder = NoOne
      /\ gold = Planned.gold[p] - Deposit /\ kept = Planned.bag[p] \ units
  BY DEF OfferOf, Less, Minus
<1> HIDE DEF offer, half, gold, kept, moved, c, d, n
<1>3. /\ nextAuction \in 1..MaxAuctions
      /\ offer \in Offers /\ nextAuction \notin DOMAIN Planned.auctions
      /\ bag[p] = Planned.bag[p] /\ gold \in Nat
      /\ Planned'.gold = Instead(Planned.gold, p, gold)
      /\ Planned'.bag = Instead(Planned.bag, p, kept)
      /\ Planned'.auctions = AddAuction(Planned.auctions, nextAuction, offer)
      /\ Planned'.mails = Planned.mails
      /\ Planned'.fees = Planned.fees /\ Planned'.moving = Planned.moving
      /\ half \in Contents /\ half.gold = Planned.gold
      /\ half.bag = Instead(Planned.bag, p, kept)
      /\ half.auctions = Planned.auctions /\ half.mails = Planned.mails
      /\ half.fees = Planned.fees /\ half.moving = moved
      /\ Planned' \in Contents
      /\ Commits(IF whole THEN <<Planned'>> ELSE <<half, Planned'>>)
  BY <1>1, SellStep
<1>4. Planned \in Contents
  BY RightPlanned
<1>5. /\ d \in Contents /\ c \in Contents /\ n \in 1..MaxAuctions
      /\ n \notin DOMAIN d.auctions /\ offer \in Offers /\ gold \in Nat
      /\ gold = d.gold[p] - Deposit /\ kept = d.bag[p] \ units
      /\ c.gold = Instead(d.gold, p, gold) /\ c.bag = Instead(d.bag, p, kept)
      /\ c.auctions = AddAuction(d.auctions, n, offer) /\ c.mails = d.mails
  BY <1>2, <1>3, <1>4 DEF c, d, n
<1>6. ASSUME NEW q \in Players PROVE Fair(d, c, q)
  BY <1>2, <1>5, SoldFair
<1> QED
  BY <1>6 DEF FairTo, c, d

LEMMA RaiseFair ==
    ASSUME AuctionInv, BalanceInv, NEW p \in Players, NEW id \in DOMAIN auctions,
           NEW price \in Prices, HandleAuctionPlaceBid(p, id, price),
           ~IsBuyout(Planned.auctions[id], price)
    PROVE  FairTo(Planned, Planned')
<1> DEFINE a == Planned.auctions[id]
           bidden == WithBid(a, p, price)
           left == Planned.gold[p] - Cost(p, a, price)
           L == Refund(a, p)
           c == Planned'
           d == Planned
<1>1. /\ Online(p) /\ id \in DOMAIN Planned.auctions
      /\ a \in Offers /\ bidden \in Offers /\ MayBid(p, a, price) /\ left \in Nat
      /\ L \in SUBSET Posted /\ IsFiniteSet(L)
      /\ c \in Contents
      /\ c.gold = Instead(Planned.gold, p, left)
      /\ c.bag = Planned.bag
      /\ c.auctions = Instead(Planned.auctions, id, bidden)
      /\ c.mails = Planned.mails (+) Sent(L)
  BY RaiseStep
<1>2. Planned \in Contents
  BY RightPlanned
<1>3. bidden.units = a.units /\ bidden.owner = a.owner /\ bidden.bid = price /\ bidden.bidder = p
  <2>1. a \in Auction
    BY <1>1 DEF Offers
  <2> QED
    BY <2>1 DEF WithBid, Auction
<1>4. /\ a = d.auctions[id] /\ left = d.gold[p] - Cost(p, a, price) /\ L = Refund(a, p)
      /\ price \in Nat
      /\ d \in Contents /\ c \in Contents /\ id \in DOMAIN d.auctions
      /\ c.gold = Instead(d.gold, p, left) /\ c.bag = d.bag
      /\ c.auctions = Instead(d.auctions, id, bidden)
      /\ c.mails = d.mails (+) Sent(L)
  BY <1>1, <1>2, AuctionAssumption
<1> HIDE DEF a, bidden, left, L, c, d
<1>5. ASSUME NEW q \in Players PROVE Fair(d, c, q)
  BY <1>1, <1>3, <1>4, RaisedFair
<1> QED
  BY <1>5 DEF FairTo, c, d

LEMMA BuyoutFair ==
    ASSUME ProfitsFit, SalesPay,
           AuctionInv, BalanceInv, NEW p \in Players, NEW id \in DOMAIN auctions,
           NEW price \in Prices, HandleAuctionPlaceBid(p, id, price),
           IsBuyout(Planned.auctions[id], price)
    PROVE  FairTo(Planned, Planned')
<1> DEFINE a == Planned.auctions[id]
           bidden == WithBid(a, p, a.buyout)
           paid == Cost(p, a, a.buyout)
           left == Planned.gold[p] - paid
           L == BuyoutLetters(a, p, bidden)
           fee == Kept(bidden)
           c == Planned'
           d == Planned
<1>1. /\ Online(p) /\ id \in DOMAIN Planned.auctions
      /\ a \in Offers /\ bidden \in Offers /\ MayBid(p, a, price) /\ left \in Nat
      /\ L \in SUBSET Posted /\ IsFiniteSet(L)
      /\ c \in Contents
      /\ c.gold = Instead(Planned.gold, p, left)
      /\ c.bag = Planned.bag
      /\ c.auctions = Without(Planned.auctions, id)
      /\ c.mails = Planned.mails (+) Sent(L)
  BY BuyoutStep
<1>2. Planned \in Contents /\ Right(Planned) /\ world = "running"
  BY <1>1, RightPlanned DEF Online
<1>3. /\ bidden.units = a.units
      /\ bidden.bidder = p /\ bidden.owner = a.owner /\ a.owner # p
  <2>1. a \in Auction
    BY <1>1 DEF Offers
  <2> QED
    BY <1>1, <2>1 DEF WithBid, Auction, MayBid
<1>4. bidden.units \in aItems
  BY <1>1, <1>2, <1>3, InWorld, ItemOf
<1>5. /\ a = d.auctions[id] /\ L = BuyoutLetters(a, p, bidden)
      /\ d \in Contents /\ c \in Contents /\ id \in DOMAIN d.auctions
      /\ c.gold = Instead(d.gold, p, left) /\ c.bag = d.bag
      /\ c.auctions = Without(d.auctions, id)
      /\ c.mails = d.mails (+) Sent(L)
  BY <1>1, <1>2
<1>6. \A u \in Units : UnitsOf(d, u) = 1
  BY <1>2 DEF Right
<1> HIDE DEF a, bidden, paid, left, L, fee, c, d
<1>7. ASSUME NEW q \in Players PROVE Fair(d, c, q)
  BY <1>1, <1>3, <1>4, <1>5, <1>6, BoughtFair
<1> QED
  BY <1>7 DEF FairTo, c, d

LEMMA RemoveFair ==
    ASSUME AuctionInv, BalanceInv, NEW p \in Players, NEW id \in DOMAIN auctions,
           HandleAuctionRemoveItem(p, id)
    PROVE  FairTo(Planned, Planned')
<1> DEFINE a == Planned.auctions[id]
           cut == CutOf(a)
           left == Planned.gold[p] - cut
           L == Cancelled(a, p)
           c == Planned'
           d == Planned
<1>1. /\ id \in DOMAIN Planned.auctions
      /\ a \in Offers /\ a.owner = p
      /\ cut \in Nat /\ left \in Nat
      /\ L \in SUBSET Posted /\ IsFiniteSet(L)
      /\ c \in Contents
      /\ c.gold = Instead(Planned.gold, p, left)
      /\ c.bag = Planned.bag
      /\ c.auctions = Without(Planned.auctions, id)
      /\ c.mails = Planned.mails (+) Sent(L)
  BY RemoveStep
<1>2. Planned \in Contents
  BY RightPlanned
<1>3. /\ a = d.auctions[id] /\ left = d.gold[p] - cut /\ cut = CutOf(a)
      /\ L = Cancelled(a, a.owner)
      /\ d \in Contents /\ c \in Contents /\ id \in DOMAIN d.auctions
      /\ c.gold = Instead(d.gold, p, left) /\ c.bag = d.bag
      /\ c.auctions = Without(d.auctions, id)
      /\ c.mails = d.mails (+) Sent(L)
  BY <1>1, <1>2
<1> HIDE DEF a, cut, left, L, c, d
<1>4. ASSUME NEW q \in Players PROVE Fair(d, c, q)
  BY <1>1, <1>3, RemovedFair
<1> QED
  BY <1>4 DEF FairTo, c, d

LEMMA UpdateFair ==
    ASSUME ProfitsFit, SalesPay,
           AuctionInv, BalanceInv, NEW id \in DOMAIN auctions, Update(id)
    PROVE  FairTo(Planned, Planned')
<1> DEFINE a == Planned.auctions[id]
           L == Settlement(a)
           c == Planned'
           d == Planned
<1>1. /\ world = "running" /\ id \in DOMAIN Planned.auctions
      /\ a \in Offers
      /\ L \in SUBSET Posted /\ IsFiniteSet(L)
      /\ c \in Contents
      /\ c.gold = Planned.gold /\ c.bag = Planned.bag
      /\ c.auctions = Without(Planned.auctions, id)
      /\ c.mails = Planned.mails (+) Sent(L)
  BY UpdateStep
<1>2. Planned \in Contents /\ Right(Planned)
  BY RightPlanned
<1>3. a.units \in aItems
  BY <1>1, InWorld, ItemOf
<1>4. /\ a = d.auctions[id] /\ L = Settlement(a)
      /\ d \in Contents /\ c \in Contents /\ id \in DOMAIN d.auctions
      /\ \A q \in Players : c.gold[q] = d.gold[q]
      /\ c.bag = d.bag
      /\ c.auctions = Without(d.auctions, id)
      /\ c.mails = d.mails (+) Sent(L)
  BY <1>1, <1>2
<1>5. \A u \in Units : UnitsOf(d, u) = 1
  BY <1>2 DEF Right
<1> HIDE DEF a, L, c, d
<1>6. ASSUME NEW q \in Players PROVE Fair(d, c, q)
  <2>1. c.gold[q] = d.gold[q]
    BY <1>4
  <2> QED
    BY <1>1, <1>3, <1>4, <1>5, <2>1, UpdatedFair
<1> QED
  BY <1>6 DEF FairTo, c, d

LEMMA SendFair ==
    ASSUME AuctionInv, BalanceInv, NEW p \in Players, NEW to \in Players, NEW units \in SUBSET bag[p],
           NEW money \in MailMoney, NEW cod \in CodPrices, HandleSendMail(p, to, money, units, cod)
    PROVE  FairTo(Planned, Planned')
<1> DEFINE l == Mail(to, p, money, units, cod)
           postage == PostageOf(units)
           left == LessBoth(Planned.gold[p], money, postage)
           kept == Minus(Planned.bag[p], units)
           L == Only(l)
           c == Planned'
           d == Planned
<1>1. /\ units \subseteq Planned.bag[p] /\ money \in Nat /\ postage \in Nat
      /\ left \in Nat /\ l \in Posted
      /\ Planned' \in Contents /\ Commits(<<Planned'>>)
      /\ Planned'.gold = Instead(Planned.gold, p, left)
      /\ Planned'.bag = Instead(Planned.bag, p, kept)
      /\ Planned'.auctions = Planned.auctions
      /\ Planned'.mails = Planned.mails (+) Sent(L)
      /\ Planned'.fees = Planned.fees + postage /\ Planned'.moving = Planned.moving
  BY SendStep
<1>2. Planned \in Contents
  BY RightPlanned
<1>3. l.from = p /\ Filled(l)
  <2>1. l.units = units /\ l.money = money /\ l.from = p
    BY MailFields
  <2>2. money > 0 \/ units # {}
    BY DEF HandleSendMail
  <2> QED
    BY <2>1, <2>2 DEF Filled
<1>4. /\ L = {l} /\ d \in Contents /\ c \in Contents
      /\ c.gold = Instead(d.gold, p, left) /\ c.bag = Instead(d.bag, p, kept)
      /\ c.auctions = d.auctions /\ c.mails = d.mails (+) Sent(L)
  BY <1>1, <1>2 DEF Only
<1>5. l \in Posted
  BY <1>1
<1> HIDE DEF l, postage, left, kept, L, c, d
<1>6. ASSUME NEW q \in Players PROVE Fair(d, c, q)
  BY <1>3, <1>4, <1>5, SentFair
<1> QED
  BY <1>6 DEF FairTo, c, d

LEMMA TakeMoneyFair ==
    ASSUME AuctionInv, BalanceInv, NEW p \in Players, NEW l \in BagToSet(box[p]),
           HandleMailTakeMoney(p, l)
    PROVE  FairTo(Planned, Planned')
<1> DEFINE gold == Planned.gold[p] + l.money
           left == Emptied(l)
           c == Planned'
           d == Planned
<1>1. /\ l \in DOMAIN Planned.mails /\ l.to = p /\ gold \in Nat
      /\ Planned' \in Contents /\ Commits(<<Planned'>>)
      /\ Planned'.gold = Instead(Planned.gold, p, gold)
      /\ Planned'.bag = Planned.bag
      /\ Planned'.auctions = Planned.auctions
      /\ Planned'.mails = Rewritten(Planned.mails, l, left)
  BY TakeMoneyStep
<1>2. Planned \in Contents
  BY RightPlanned
<1>3. /\ gold = d.gold[p] + l.money /\ left = Emptied(l) /\ l.to = p
      /\ d \in Contents /\ c \in Contents /\ l \in DOMAIN d.mails /\ gold \in Nat
      /\ c.gold = Instead(d.gold, p, gold) /\ c.bag = d.bag
      /\ c.auctions = d.auctions /\ c.mails = Rewritten(d.mails, l, left)
  BY <1>1, <1>2
<1> HIDE DEF gold, left, c, d
<1>4. ASSUME NEW q \in Players PROVE Fair(d, c, q)
  BY <1>3, EmptiedFair
<1> QED
  BY <1>4 DEF FairTo, c, d

LEMMA TakeItemFair ==
    ASSUME AuctionInv, BalanceInv, NEW p \in Players, NEW l \in BagToSet(box[p]), NEW u \in l.units,
           HandleMailTakeItem(p, l, u)
    PROVE  FairTo(Planned, Planned')
<1> DEFINE gold == Less(Planned.gold[p], l.cod)
           units == Plus(Planned.bag[p], Only(u))
           left == Opened(l, u)
           L == PaymentFor(l, p)
           c == Planned'
           d == Planned
<1>1. /\ l \in DOMAIN Planned.mails /\ l.to = p /\ gold \in Nat
      /\ Planned' \in Contents /\ Commits(<<Planned'>>)
      /\ Planned'.gold = Instead(Planned.gold, p, gold)
      /\ Planned'.bag = Instead(Planned.bag, p, units)
      /\ Planned'.auctions = Planned.auctions
      /\ Planned'.mails = Rewritten(Planned.mails, l, left) (+) Sent(L)
      /\ Planned'.fees = Planned.fees /\ Planned'.moving = Planned.moving
  BY TakeItemStep
<1>2. Right(Planned) /\ Planned \in Contents
  BY RightPlanned
<1>3. /\ gold = d.gold[p] - l.cod /\ units = d.bag[p] \cup {u} /\ left = Opened(l, u)
      /\ L = PaymentFor(l, p) /\ l.to = p
      /\ d \in Contents /\ c \in Contents /\ l \in DOMAIN d.mails /\ gold \in Nat
      /\ c.gold = Instead(d.gold, p, gold) /\ c.bag = Instead(d.bag, p, units)
      /\ c.auctions = d.auctions /\ c.mails = Rewritten(d.mails, l, left) (+) Sent(L)
      /\ \A v \in Units : UnitsOf(d, v) = 1
  BY <1>1, <1>2 DEF Right, Less, Plus, Only
<1> HIDE DEF gold, units, left, L, c, d
<1>4. ASSUME NEW q \in Players PROVE Fair(d, c, q)
  BY <1>3, OpenedFair
<1> QED
  BY <1>4 DEF FairTo, c, d

LEMMA ReturnFair ==
    ASSUME AuctionInv, BalanceInv, NEW p \in Players, NEW l \in BagToSet(box[p]),
           HandleMailReturnToSender(p, l)
    PROVE  FairTo(Planned, Planned')
<1> DEFINE none == {}
           L == BackTo(l, p)
           c == Planned'
           d == Planned
<1>1. /\ l \in DOMAIN Planned.mails /\ l.to = p /\ l.from # House
      /\ Planned' \in Contents /\ Commits(<<Planned'>>)
      /\ Planned'.gold = Planned.gold
      /\ Planned'.bag = Planned.bag
      /\ Planned'.auctions = Planned.auctions
      /\ Planned'.mails = Rewritten(Planned.mails, l, none) (+) Sent(L)
      /\ Planned'.fees = Planned.fees /\ Planned'.moving = Planned.moving
  BY ReturnStep
<1>2. Planned \in Contents
  BY RightPlanned
<1>3. /\ none = {} /\ L = BackTo(l, p) /\ l.to = p /\ l.from # House
      /\ d \in Contents /\ c \in Contents /\ l \in DOMAIN d.mails
      /\ c.bag = d.bag
      /\ c.auctions = d.auctions /\ c.mails = Rewritten(d.mails, l, none) (+) Sent(L)
  BY <1>1, <1>2
<1>4. \A q \in Players : c.gold[q] = d.gold[q]
  BY <1>1
<1> HIDE DEF none, L, c, d
<1>5. ASSUME NEW q \in Players PROVE Fair(d, c, q)
  <2>1. c.gold[q] = d.gold[q]
    BY <1>4
  <2> QED
    BY <1>3, <2>1, ReturnedFair
<1> QED
  BY <1>5 DEF FairTo, c, d

LEMMA LogoutFair ==
    ASSUME AuctionInv, BalanceInv, NEW p \in Players, LogoutPlayer(p)
    PROVE  FairTo(Planned, Planned')
<1>1. /\ Planned' \in Contents
      /\ Planned'.gold = Planned.gold /\ Planned'.bag = Planned.bag
      /\ Planned'.auctions = Planned.auctions /\ Planned'.mails = Planned.mails
  BY LogoutStep
<1>2. Planned \in Contents
  BY RightPlanned
<1>3. \A q \in Players : Fair(Planned, Planned', q)
  BY <1>1, <1>2, SameFair
<1> QED
  BY <1>3 DEF FairTo

-----------------------------------------------------------------------------
(* Every step is fair.                                                     *)

\* A step while the world runs changes stores fairly, or not at all.
LEMMA FairNext ==
    ASSUME ProfitsFit, SalesPay, AuctionInv, BalanceInv, [Next]_vars,
           world = "running", world' = "running"
    PROVE  Planned' = Planned \/ FairTo(Planned, Planned')
<1> DEFINE Good == Planned' = Planned \/ FairTo(Planned, Planned')
<1>1. ASSUME NEW p \in Players, NEW units \in SUBSET bag[p], NEW whole \in BOOLEAN,
             NEW start \in StartPrices, NEW buyout \in Buyouts,
             HandleAuctionSellItem(p, units, whole, start, buyout)
      PROVE  Good
  BY <1>1, SellFair
<1>2. ASSUME NEW p \in Players, NEW id \in DOMAIN auctions, NEW price \in Prices,
             HandleAuctionPlaceBid(p, id, price)
      PROVE  Good
  BY <1>2, BuyoutFair, RaiseFair
<1>3. ASSUME NEW p \in Players, NEW id \in DOMAIN auctions, HandleAuctionRemoveItem(p, id)
      PROVE  Good
  BY <1>3, RemoveFair
<1>4. ASSUME NEW p \in Players, NEW to \in Players, NEW units \in SUBSET bag[p],
             NEW money \in MailMoney, NEW cod \in CodPrices, HandleSendMail(p, to, money, units, cod)
      PROVE  Good
  BY <1>4, SendFair
<1>5. ASSUME NEW p \in Players, HandleGetMailList(p) PROVE Good
  BY <1>5, GetMailStep
<1>6. ASSUME NEW p \in Players, NEW l \in BagToSet(box[p]),
             \/ HandleMailTakeMoney(p, l)
             \/ \E u \in l.units : HandleMailTakeItem(p, l, u)
             \/ HandleMailReturnToSender(p, l)
      PROVE  Good
  BY <1>6, TakeMoneyFair, TakeItemFair, ReturnFair
<1>7. ASSUME NEW p \in Players, LogoutPlayer(p) PROVE Good
  BY <1>7, LogoutFair
<1>8. ASSUME NEW p \in Players, HandlePlayerLogin(p) PROVE Good
  <2>1. queue \in Seq(Operations) /\ DelayQueryHolder(p)
    BY <1>8 DEF AuctionInv, MemoryType, HandlePlayerLogin
  <2> QED
    BY <2>1, DelaySeen
<1>9. CASE Handlers
  BY <1>1, <1>2, <1>3, <1>4, <1>5, <1>6, <1>7, <1>8, <1>9 DEF Handlers
<1>10. ASSUME NEW id \in DOMAIN auctions, Update(id) PROVE Good
  BY <1>10, UpdateFair
<1>11. CASE Workers /\ ~\E i \in 1..(Len(queue) - 1) : Faster(i)
  <2>1. /\ queue # << >> /\ queue' = Tail(queue) /\ queue \in Seq(Operations)
        /\ disk' = IF Head(queue).kind = "commit" THEN Head(queue).contents ELSE disk
    <3>1. CASE Save
      BY <3>1 DEF Save, ExecuteTransaction, AuctionInv, MemoryType
    <3>2. ASSUME NEW p \in Players, LoginHolderAnswered(p)
          PROVE  /\ queue # << >> /\ queue' = Tail(queue) /\ queue \in Seq(Operations)
                 /\ disk' = IF Head(queue).kind = "commit" THEN Head(queue).contents ELSE disk
      BY <3>2 DEF LoginHolderAnswered, ExecuteQueries, AuctionInv, MemoryType
    <3> QED BY <1>11, <3>1, <3>2 DEF Workers
  <2> QED
    BY <2>1, ExecuteSeen
<1>12. CASE Crash
  BY <1>12 DEF Crash
<1>13. CASE LoadAuctions
  BY <1>13 DEF LoadAuctions
<1>14. CASE UNCHANGED vars
  BY <1>14, NothingStep
<1>15. ASSUME NEW i \in 1..(Len(queue) - 1), Faster(i) PROVE Good
  BY <1>15, FasterStep
<1> QED
  BY <1>9, <1>10, <1>11, <1>12, <1>13, <1>14, <1>15 DEF Next, Lost

(***************************************************************************)
(* No handler, expiry or worker takes units from a player without giving   *)
(* him gold, nor gold without giving him units, but for what he mails      *)
(* away himself, the deposit of his own sale and the cut of a bid he       *)
(* turns down; until an operation overtakes another with which it has rows *)
(* in common, with one worker always. A sale has to pay: were the cut all  *)
(* of the bid and the deposit, the owner would get nothing for his units.  *)
(***************************************************************************)
THEOREM TradeIsFair == ASSUME ProfitsFit, SalesPay PROVE Spec => FairExchange
<1>1. Spec => [](AuctionInv /\ BalanceInv)
  BY SpecBalance
<1>2. ASSUME AuctionInv, BalanceInv, [Next]_vars, AuctionInv', world = "running", world' = "running",
             Planned' # Planned
      PROVE  FairStep
  <2>1. \A q \in Players : Fair(Planned, Planned', q)
    BY <1>2, FairNext DEF FairTo
  <2> QED
    BY <1>2, <2>1, FairIs
<1>3. /\ AuctionInv /\ BalanceInv /\ AuctionInv' /\ [Next]_vars
      => [~overtaken' /\ world = "running" /\ world' = "running" /\ Planned' # Planned =>
            \A p \in Players :
              /\ Goods(p) \subseteq Goods(p)' \/ Worth(p)' > Worth(p) \/ Gives(p)
              /\ \/ Worth(p)' >= Worth(p)
                 \/ Goods(p)' \ Goods(p) # {}
                 \/ Gives(p)
                 \/ PaysFee(p)]_vars
  BY <1>2 DEF FairStep
<1> QED
  BY <1>1, <1>3, PTL DEF Spec, FairExchange
=============================================================================
