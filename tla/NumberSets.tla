------------------------------- MODULE NumberSets -------------------------------
(***************************************************************************)
(* Facts about sets of numbers that the provers do not know: a largest     *)
(* element exists (the latest open invoice, the latest code of an          *)
(* address), and how the sum over a finite set changes with its elements   *)
(* (what has been sold of a number), with its parts (sales by seller) and  *)
(* with the order of summing a table (by ticket or by number).  Where an   *)
(* argument is by induction, it takes a counterexample that no smaller set *)
(* is.                                                                     *)
(***************************************************************************)
EXTENDS Integers, FiniteSetsExt, FiniteSetTheorems, TLAPS

\* Of sets that are finite one is minimal.
LEMMA Minimal ==
  ASSUME NEW S, NEW sets \in SUBSET FiniteSubsetsOf(S), sets # {}
  PROVE  \E x \in sets : \A y \in sets : y \subseteq x => y = x
<1>1. PICK x \in sets : \A y \in sets : ~(<<y, x>> \in StrictSubsetOrdering(S))
  BY FS_StrictSubsetOrderingWellFounded, WFMin
<1>2. \A y \in sets : y \in SUBSET S
  BY DEF FiniteSubsetsOf
<1>3. QED  BY <1>1, <1>2 DEF StrictSubsetOrdering

\* A set of numbers up to n that is not empty has a largest one.
LEMMA Latest ==
  ASSUME NEW n \in Nat, NEW S \in SUBSET (1..n), S # {}
  PROVE  \E i \in S : \A j \in S : j <= i
<1> DEFINE tails == {i..n : i \in S}
<1>1. tails \subseteq FiniteSubsetsOf(Nat) /\ tails # {}
  <2>1. \A i \in S : i..n \in SUBSET Nat /\ IsFiniteSet(i..n)
    BY FS_Interval
  <2>2. QED  BY <2>1 DEF FiniteSubsetsOf
<1>2. PICK x \in tails : \A y \in tails : ~(<<y, x>> \in StrictSubsetOrdering(Nat))
  BY <1>1, FS_StrictSubsetOrderingWellFounded, WFMin
<1>3. PICK i \in S : x = i..n
  BY <1>2
<1>4. ASSUME NEW j \in S, ~(j <= i)
      PROVE  FALSE
  <2>1. j..n \in tails /\ j..n \in SUBSET Nat /\ i..n \in SUBSET Nat
    OBVIOUS
  <2>2. j..n \subseteq i..n /\ i \in i..n /\ i \notin j..n
    BY <1>4
  <2>3. <<j..n, x>> \in StrictSubsetOrdering(Nat)
    BY <1>3, <2>1, <2>2 DEF StrictSubsetOrdering
  <2>4. QED  BY <1>2, <2>1, <2>3
<1>5. QED  BY <1>4

----------------------------------------------------------------------------
(* The sum over a finite set.                                              *)

\* MapThenSumSet takes an element of the set and goes on with the others.
IsSum(g, f, S) ==
  g = [s \in SUBSET S |-> IF s = {} THEN 0
                          ELSE LET x == CHOOSE x \in s : TRUE IN f[x] + g[s \ {x}]]

SumOf(f, S) == MapThenSumSet(LAMBDA x : f[x], S)

LEMMA SumStep ==
  ASSUME NEW f, NEW S, NEW g, IsSum(g, f, S), NEW s \in SUBSET S, s # {}
  PROVE  LET x == CHOOSE x \in s : TRUE
         IN  x \in s /\ s \ {x} \in SUBSET S /\ g[s] = f[x] + g[s \ {x}]
BY DEF IsSum

LEMMA SumEmpty ==
  ASSUME NEW f, NEW S, NEW g, IsSum(g, f, S)
  PROVE  g[{}] = 0
<1>1. {} \in SUBSET S
  OBVIOUS
<1>2. QED  BY <1>1 DEF IsSum

\* What a sum is does not depend on the set it is computed in, nor on what the
\* function is elsewhere.
LEMMA SumUnique ==
  ASSUME NEW f, NEW h, NEW S, NEW T, IsFiniteSet(T), NEW U \in SUBSET S, U \subseteq T,
         \A x \in U : f[x] = h[x], NEW g, NEW k, IsSum(g, f, S), IsSum(k, h, T)
  PROVE  g[U] = k[U]
<1> DEFINE wrong == {s \in SUBSET U : g[s] # k[s]}
<1>1. SUFFICES ASSUME U \in wrong PROVE FALSE
  OBVIOUS
<1>2. wrong \in SUBSET FiniteSubsetsOf(T)
  BY FS_Subset DEF FiniteSubsetsOf
<1>3. PICK s \in wrong : \A y \in wrong : y \subseteq s => y = s
  <2> HIDE DEF wrong
  <2>1. wrong # {}
    BY <1>1
  <2>2. QED  BY <1>2, <2>1, Minimal
<1>4. s \in SUBSET S /\ s \in SUBSET T /\ s # {}
  <2>1. g[{}] = k[{}]
    BY SumEmpty
  <2>2. QED  BY <1>3, <2>1
<1> DEFINE x == CHOOSE x \in s : TRUE
<1>5. x \in s /\ g[s] = f[x] + g[s \ {x}] /\ k[s] = h[x] + k[s \ {x}]
  BY <1>4, SumStep
<1> HIDE DEF x
<1>6. s \ {x} \notin wrong
  BY <1>3, <1>5
<1>7. g[s \ {x}] = k[s \ {x}] /\ f[x] = h[x]
  BY <1>3, <1>5, <1>6
<1>8. QED  BY <1>3, <1>5, <1>7

\* The recursion has a solution on every finite set.
LEMMA SumExists ==
  ASSUME NEW f, NEW S, IsFiniteSet(S)
  PROVE  \E g : IsSum(g, f, S)
<1> DEFINE without == {s \in SUBSET S : ~ \E g : IsSum(g, f, s)}
<1>1. SUFFICES ASSUME S \in without PROVE FALSE
  OBVIOUS
<1>2. without \in SUBSET FiniteSubsetsOf(S)
  BY FS_Subset DEF FiniteSubsetsOf
<1>3. PICK T \in without : \A y \in without : y \subseteq T => y = T
  <2> HIDE DEF without
  <2>1. without # {}
    BY <1>1
  <2>2. QED  BY <1>2, <2>1, Minimal
<1>4. T \in SUBSET S /\ IsFiniteSet(T) /\ ~ \E g : IsSum(g, f, T)
  BY <1>3, FS_Subset
<1>5. \A s \in SUBSET T : s # T => \E g : IsSum(g, f, s)
  BY <1>3, <1>4
<1> HIDE DEF without
<1> DEFINE first(s) == CHOOSE x \in s : TRUE
           part(s) == CHOOSE g : IsSum(g, f, s)
           sum == [s \in SUBSET T |-> IF s = {} THEN 0
                                       ELSE f[first(s)] + part(s \ {first(s)})[s \ {first(s)}]]
<1>6. \A s \in SUBSET T : s # T => IsSum(part(s), f, s)
  BY <1>5
<1>7. \A s \in SUBSET T : s # {} => first(s) \in s /\ s \ {first(s)} \in SUBSET T /\ s \ {first(s)} # T
  OBVIOUS
<1> HIDE DEF first, part
<1>8. ASSUME NEW s \in SUBSET T, s # {}
      PROVE  sum[s \ {first(s)}] = part(s \ {first(s)})[s \ {first(s)}]
  <2> DEFINE u == s \ {first(s)}
  <2>1. u \in SUBSET T /\ u # T /\ IsSum(part(u), f, u)
    BY <1>6, <1>7, <1>8
  <2> HIDE DEF u
  <2>2. SUFFICES sum[u] = part(u)[u]
    BY DEF u
  <2>3. CASE u = {}
    BY <2>1, <2>3, SumEmpty
  <2>4. CASE u # {}
    <3> DEFINE w == u \ {first(u)}
    <3>1. w \in SUBSET T /\ w # T /\ IsSum(part(w), f, w) /\ w \in SUBSET u /\ IsFiniteSet(w)
      BY <1>4, <1>6, <1>7, <2>1, <2>4, FS_Subset
    <3>2. part(u)[u] = f[first(u)] + part(u)[w]
      BY <2>1, <2>4, SumStep DEF first
    <3> HIDE DEF w
    <3>3. part(u)[w] = part(w)[w]
      BY <2>1, <3>1, SumUnique
    <3>4. sum[u] = f[first(u)] + part(w)[w]
      BY <2>1, <2>4 DEF w
    <3>5. QED  BY <3>2, <3>3, <3>4
  <2>5. QED  BY <2>3, <2>4
<1>9. IsSum(sum, f, T)
  <2>1. \A s \in SUBSET T : s # {} => sum[s] = f[first(s)] + sum[s \ {first(s)}]
    BY <1>7, <1>8
  <2>2. sum[{}] = 0 /\ DOMAIN sum = SUBSET T
    OBVIOUS
  <2>3. sum = [s \in SUBSET T |-> sum[s]]
    OBVIOUS
  <2> HIDE DEF sum
  <2>4. QED  BY <2>1, <2>2, <2>3 DEF IsSum, first
<1>10. QED  BY <1>4, <1>9

LEMMA SumIs ==
  ASSUME NEW f, NEW S, IsFiniteSet(S), NEW g, IsSum(g, f, S)
  PROVE  SumOf(f, S) = g[S]
<1> DEFINE iter == CHOOSE h : IsSum(h, f, S)
<1>1. IsSum(iter, f, S)
  OBVIOUS
<1>2. SumOf(f, S) = iter[S]
  BY DEF SumOf, MapThenSumSet, MapThenFoldSet, IsSum
<1> HIDE DEF iter
<1>3. iter[S] = g[S]
  BY <1>1, SumUnique
<1>4. QED  BY <1>2, <1>3

LEMMA SumOfEmpty == ASSUME NEW f PROVE SumOf(f, {}) = 0
<1>1. IsFiniteSet({})
  BY FS_EmptySet
<1>2. PICK g : IsSum(g, f, {})
  BY <1>1, SumExists
<1>3. QED  BY <1>1, <1>2, SumIs, SumEmpty

LEMMA SumSame ==
  ASSUME NEW f, NEW h, NEW S, IsFiniteSet(S), \A x \in S : f[x] = h[x]
  PROVE  SumOf(f, S) = SumOf(h, S)
<1>1. PICK g : IsSum(g, f, S)
  BY SumExists
<1>2. PICK k : IsSum(k, h, S)
  BY SumExists
<1>3. g[S] = k[S]
  BY <1>1, <1>2, SumUnique
<1>4. QED  BY <1>1, <1>2, <1>3, SumIs

\* One of the elements is taken first.
LEMMA SumFirst ==
  ASSUME NEW f, NEW S, IsFiniteSet(S), S # {}
  PROVE  \E x \in S : SumOf(f, S) = f[x] + SumOf(f, S \ {x})
<1>1. PICK g : IsSum(g, f, S)
  BY SumExists
<1> DEFINE x == CHOOSE x \in S : TRUE
<1>2. x \in S /\ g[S] = f[x] + g[S \ {x}]
  <2>1. S \in SUBSET S
    OBVIOUS
  <2>2. QED  BY <1>1, <2>1 DEF IsSum
<1> HIDE DEF x
<1>3. IsFiniteSet(S \ {x})
  BY FS_RemoveElement
<1>4. PICK k : IsSum(k, f, S \ {x})
  BY <1>3, SumExists
<1>5. g[S \ {x}] = k[S \ {x}]
  <2>1. PICK rest : rest = S \ {x}
    OBVIOUS
  <2>2. /\ rest \in SUBSET S /\ rest \subseteq S \ {x}
        /\ \A y \in rest : f[y] = f[y]
    BY <2>1
  <2>3. g[rest] = k[rest]
    BY <1>1, <1>3, <1>4, <2>2, SumUnique
  <2>4. QED  BY <2>1, <2>3
<1>6. SumOf(f, S) = g[S] /\ SumOf(f, S \ {x}) = k[S \ {x}]
  BY <1>1, <1>3, <1>4, SumIs
<1>7. QED  BY <1>2, <1>5, <1>6

LEMMA SumInt ==
  ASSUME NEW f, NEW S, IsFiniteSet(S), \A x \in S : f[x] \in Int
  PROVE  SumOf(f, S) \in Int
<1> DEFINE wrong == {s \in SUBSET S : SumOf(f, s) \notin Int}
<1>1. SUFFICES ASSUME wrong # {} PROVE FALSE
  OBVIOUS
<1>2. wrong \in SUBSET FiniteSubsetsOf(S)
  BY FS_Subset DEF FiniteSubsetsOf
<1>3. PICK s \in wrong : \A y \in wrong : y \subseteq s => y = s
  <2> HIDE DEF wrong
  <2>1. QED  BY <1>1, <1>2, Minimal
<1>4. IsFiniteSet(s) /\ s # {}
  <2>1. SumOf(f, {}) \in Int
    BY SumOfEmpty
  <2>2. QED  BY <1>3, <2>1, FS_Subset
<1>5. PICK x \in s : SumOf(f, s) = f[x] + SumOf(f, s \ {x})
  BY <1>4, SumFirst
<1>6. s \ {x} \notin wrong
  BY <1>3
<1>7. QED  BY <1>3, <1>5, <1>6

\* Any element may be taken out.
LEMMA SumTake ==
  ASSUME NEW f, NEW S, IsFiniteSet(S), \A x \in S : f[x] \in Int, NEW x \in S
  PROVE  SumOf(f, S) = f[x] + SumOf(f, S \ {x})
<1> DEFINE wrong == {s \in SUBSET S : \E y \in s : SumOf(f, s) # f[y] + SumOf(f, s \ {y})}
<1>1. SUFFICES ASSUME wrong # {} PROVE FALSE
  OBVIOUS
<1>2. wrong \in SUBSET FiniteSubsetsOf(S)
  BY FS_Subset DEF FiniteSubsetsOf
<1>3. PICK s \in wrong : \A t \in wrong : t \subseteq s => t = s
  <2> HIDE DEF wrong
  <2>1. QED  BY <1>1, <1>2, Minimal
<1>4. PICK y \in s : SumOf(f, s) # f[y] + SumOf(f, s \ {y})
  BY <1>3
<1>5. IsFiniteSet(s) /\ s \in SUBSET S
  BY <1>3, FS_Subset
<1>6. PICK z \in s : SumOf(f, s) = f[z] + SumOf(f, s \ {z})
  BY <1>4, <1>5, SumFirst
<1>7. y # z
  BY <1>4, <1>6
<1>8. s \ {z} \notin wrong /\ s \ {y} \notin wrong
  BY <1>3
<1>9. /\ SumOf(f, s \ {z}) = f[y] + SumOf(f, (s \ {z}) \ {y})
      /\ SumOf(f, s \ {y}) = f[z] + SumOf(f, (s \ {y}) \ {z})
  BY <1>5, <1>7, <1>8
<1>10. (s \ {z}) \ {y} = (s \ {y}) \ {z} /\ IsFiniteSet((s \ {y}) \ {z})
  BY <1>5, FS_RemoveElement
<1>11. PICK n \in Int : SumOf(f, (s \ {y}) \ {z}) = n
  BY <1>5, <1>10, SumInt
<1>12. f[y] \in Int /\ f[z] \in Int
  BY <1>5
<1>13. SumOf(f, s) = f[z] + (f[y] + n) /\ SumOf(f, s \ {y}) = f[z] + n
  BY <1>6, <1>9, <1>10, <1>11
<1>14. QED  BY <1>4, <1>11, <1>12, <1>13

\* Adding an element adds its number.
LEMMA SumAdd ==
  ASSUME NEW f, NEW S, IsFiniteSet(S), NEW x, x \notin S, \A y \in S \cup {x} : f[y] \in Int
  PROVE  SumOf(f, S \cup {x}) = SumOf(f, S) + f[x]
<1>1. IsFiniteSet(S \cup {x}) /\ (S \cup {x}) \ {x} = S
  BY FS_AddElement
<1>2. SumOf(f, S \cup {x}) = f[x] + SumOf(f, S)
  BY <1>1, SumTake
<1>3. SumOf(f, S) \in Int
  BY SumInt
<1>4. QED  BY <1>2, <1>3

\* Fewer elements have a smaller sum.
LEMMA SumSubset ==
  ASSUME NEW f, NEW S, IsFiniteSet(S), \A x \in S : f[x] \in Nat, NEW T \in SUBSET S
  PROVE  SumOf(f, T) \in Nat /\ SumOf(f, S) \in Nat /\ SumOf(f, T) <= SumOf(f, S)
<1> DEFINE fine(s) == SumOf(f, s) \in Nat /\ \A t \in SUBSET s : SumOf(f, t) \in Nat /\ SumOf(f, t) <= SumOf(f, s)
           wrong == {s \in SUBSET S : ~fine(s)}
<1>1. SUFFICES ASSUME wrong # {} PROVE FALSE
  OBVIOUS
<1>2. wrong \in SUBSET FiniteSubsetsOf(S)
  BY FS_Subset DEF FiniteSubsetsOf
<1>3. PICK s \in wrong : \A t \in wrong : t \subseteq s => t = s
  <2> HIDE DEF wrong
  <2>1. QED  BY <1>1, <1>2, Minimal
<1>4. IsFiniteSet(s) /\ s \in SUBSET S /\ ~fine(s)
  BY <1>3, FS_Subset
<1>5. s # {}
  BY <1>4, SumOfEmpty
<1>6. \A x \in s : fine(s \ {x})
  BY <1>3
<1>7. \A x \in s : SumOf(f, s) = f[x] + SumOf(f, s \ {x}) /\ f[x] \in Nat
  BY <1>4, SumTake
<1>8. SumOf(f, s) \in Nat
  <2>1. PICK x \in s : TRUE
    BY <1>5
  <2>2. SumOf(f, s \ {x}) \in Nat /\ f[x] \in Nat /\ SumOf(f, s) = f[x] + SumOf(f, s \ {x})
    BY <1>6, <1>7
  <2>3. QED  BY <2>2
<1>9. ASSUME NEW t \in SUBSET s, t # s PROVE SumOf(f, t) \in Nat /\ SumOf(f, t) <= SumOf(f, s)
  <2>1. PICK x \in s : x \notin t
    BY <1>9
  <2>2. t \in SUBSET (s \ {x})
    BY <2>1
  <2>3. /\ SumOf(f, t) \in Nat /\ SumOf(f, t) <= SumOf(f, s \ {x}) /\ SumOf(f, s \ {x}) \in Nat
        /\ SumOf(f, s) = f[x] + SumOf(f, s \ {x}) /\ f[x] \in Nat
    BY <1>6, <1>7, <2>2
  <2>4. QED  BY <2>3
<1>10. QED  BY <1>4, <1>8, <1>9

(***************************************************************************)
(* Sums of sums                                                            *)
(***************************************************************************)
\* Induction over a finite set, one element at a time: a property is the set of
\* the subsets that have it.
LEMMA Grown ==
  ASSUME NEW S, IsFiniteSet(S), NEW fine, {} \in fine,
         \A s \in SUBSET S : \A x \in s : IsFiniteSet(s) /\ s \ {x} \in fine => s \in fine
  PROVE  S \in fine
<1> DEFINE wrong == {s \in SUBSET S : s \notin fine}
<1>1. SUFFICES ASSUME wrong # {} PROVE FALSE
  OBVIOUS
<1>2. wrong \in SUBSET FiniteSubsetsOf(S)
  BY FS_Subset DEF FiniteSubsetsOf
<1>3. PICK s \in wrong : \A y \in wrong : y \subseteq s => y = s
  <2> HIDE DEF wrong
  <2>1. QED  BY <1>1, <1>2, Minimal
<1>4. IsFiniteSet(s) /\ s # {}
  BY <1>3, FS_Subset
<1>5. PICK x \in s : TRUE
  BY <1>4
<1>6. s \ {x} \in fine
  BY <1>3, <1>5
<1>7. QED  BY <1>3, <1>4, <1>5, <1>6

LEMMA SumPlus ==
  ASSUME NEW S, IsFiniteSet(S), NEW f, NEW g, NEW h,
         \A x \in S : f[x] \in Int /\ g[x] \in Int /\ h[x] = f[x] + g[x]
  PROVE  SumOf(h, S) = SumOf(f, S) + SumOf(g, S)
<1> DEFINE fine == {s \in SUBSET S : SumOf(h, s) = SumOf(f, s) + SumOf(g, s)}
<1>1. {} \in fine
  BY SumOfEmpty
<1>2. ASSUME NEW s \in SUBSET S, NEW x \in s, IsFiniteSet(s), s \ {x} \in fine PROVE s \in fine
  <2>1. IsFiniteSet(s \ {x})
    BY <1>2, FS_RemoveElement
  <2>2. PICK n \in Int : SumOf(f, s \ {x}) = n
    BY <2>1, SumInt
  <2>3. PICK m \in Int : SumOf(g, s \ {x}) = m
    BY <2>1, SumInt
  <2>4. /\ SumOf(f, s) = f[x] + SumOf(f, s \ {x})
        /\ SumOf(g, s) = g[x] + SumOf(g, s \ {x})
        /\ SumOf(h, s) = h[x] + SumOf(h, s \ {x})
    <3>1. \A y \in s : f[y] \in Int /\ g[y] \in Int /\ h[y] \in Int
      OBVIOUS
    <3>2. QED  BY <1>2, <3>1, SumTake
  <2>5. SumOf(h, s \ {x}) = n + m /\ f[x] \in Int /\ g[x] \in Int /\ h[x] = f[x] + g[x]
    BY <1>2, <2>2, <2>3
  <2>6. SumOf(h, s) = SumOf(f, s) + SumOf(g, s)
    BY <2>2, <2>3, <2>4, <2>5
  <2>7. QED  BY <2>6
<1> HIDE DEF fine
<1>3. S \in fine
  BY <1>1, <1>2, Grown
<1>4. QED  BY <1>3 DEF fine

LEMMA SumZero ==
  ASSUME NEW S, IsFiniteSet(S), NEW f, \A x \in S : f[x] = 0
  PROVE  SumOf(f, S) = 0
<1>1. \A x \in S : f[x] \in Int /\ f[x] = f[x] + f[x]
  OBVIOUS
<1>2. PICK n \in Int : SumOf(f, S) = n
  BY <1>1, SumInt
<1>3. SumOf(f, S) = SumOf(f, S) + SumOf(f, S)
  BY <1>1, SumPlus
<1>4. n = n + n
  BY <1>2, <1>3
<1>5. n = 0
  BY <1>4
<1>6. QED  BY <1>2, <1>5

\* The values of a function on a finite set are finitely many.
LEMMA FiniteImage ==
  ASSUME NEW S, IsFiniteSet(S), NEW f PROVE IsFiniteSet({f[x] : x \in S})
<1> DEFINE T == {f[x] : x \in S}
           g == [x \in S |-> f[x]]
<1>1. g \in Surjection(S, T)
  BY DEF Surjection
<1> HIDE DEF g, T
<1>2. IsFiniteSet(T)
  BY <1>1, FS_Surjection
<1>3. QED  BY <1>2 DEF T

\* Numbers that are larger have a larger sum.
LEMMA SumLess ==
  ASSUME NEW S, IsFiniteSet(S), NEW f, NEW g,
         \A x \in S : f[x] \in Int /\ g[x] \in Int /\ f[x] <= g[x]
  PROVE  SumOf(f, S) <= SumOf(g, S)
<1> DEFINE d == [x \in S |-> g[x] - f[x]]
<1>1. \A x \in S : d[x] \in Nat /\ d[x] \in Int /\ g[x] = f[x] + d[x]
  OBVIOUS
<1> HIDE DEF d
<1>2. SumOf(g, S) = SumOf(f, S) + SumOf(d, S)
  BY <1>1, SumPlus
<1>3. SumOf(d, S) \in Nat
  BY <1>1, SumSubset
<1>4. SumOf(f, S) \in Int
  BY SumInt
<1>5. QED  BY <1>2, <1>3, <1>4

\* What counts for nothing may be left out.
LEMMA SumOnly ==
  ASSUME NEW S, IsFiniteSet(S), NEW f, NEW g, NEW T \in SUBSET S,
         \A x \in S : f[x] \in Int /\ g[x] = IF x \in T THEN f[x] ELSE 0
  PROVE  SumOf(g, S) = SumOf(f, T)
<1> DEFINE fine == {s \in SUBSET S : SumOf(g, s) = SumOf(f, s \cap T)}
<1>1. {} \in fine
  <2>1. {} \cap T = {}
    OBVIOUS
  <2>2. QED  BY <2>1, SumOfEmpty
<1>2. ASSUME NEW s \in SUBSET S, NEW x \in s, IsFiniteSet(s), s \ {x} \in fine PROVE s \in fine
  <2>1. SumOf(g, s) = g[x] + SumOf(g, s \ {x})
    <3>1. \A y \in s : g[y] \in Int
      OBVIOUS
    <3>2. QED  BY <1>2, <3>1, SumTake
  <2>2. SumOf(g, s \ {x}) = SumOf(f, (s \ {x}) \cap T) /\ SumOf(f, (s \ {x}) \cap T) \in Int
    <3>1. IsFiniteSet((s \ {x}) \cap T)
      BY <1>2, FS_Subset
    <3>2. QED  BY <1>2, <3>1, SumInt
  <2>3. CASE x \in T
    <3>1. IsFiniteSet(s \cap T) /\ x \in s \cap T /\ (s \cap T) \ {x} = (s \ {x}) \cap T
      BY <1>2, <2>3, FS_Subset
    <3>2. SumOf(f, s \cap T) = f[x] + SumOf(f, (s \ {x}) \cap T)
      BY <3>1, SumTake
    <3>3. QED  BY <2>1, <2>2, <2>3, <3>2
  <2>4. CASE x \notin T
    <3>1. s \cap T = (s \ {x}) \cap T
      BY <2>4
    <3>2. PICK n \in Int : SumOf(f, (s \ {x}) \cap T) = n
      BY <2>2
    <3>3. g[x] = 0
      BY <2>4
    <3>4. SumOf(g, s) = 0 + n
      BY <2>1, <2>2, <3>2, <3>3
    <3>5. SumOf(g, s) = n
      BY <3>4
    <3>6. SumOf(g, s) = SumOf(f, s \cap T)
      BY <3>1, <3>2, <3>5
    <3>7. QED  BY <3>6
  <2>5. QED  BY <2>3, <2>4
<1> HIDE DEF fine
<1>3. S \in fine
  BY <1>1, <1>2, Grown
<1>4. S \cap T = T
  OBVIOUS
<1>5. QED  BY <1>3, <1>4 DEF fine

LEMMA SumSplit ==
  ASSUME NEW S, IsFiniteSet(S), NEW f, \A x \in S : f[x] \in Int, NEW T \in SUBSET S
  PROVE  SumOf(f, S) = SumOf(f, T) + SumOf(f, S \ T)
<1> DEFINE in == [x \in S |-> IF x \in T THEN f[x] ELSE 0]
           out == [x \in S |-> IF x \in S \ T THEN f[x] ELSE 0]
<1>1. \A x \in S : /\ in[x] = (IF x \in T THEN f[x] ELSE 0) /\ in[x] \in Int /\ out[x] \in Int
                   /\ out[x] = (IF x \in S \ T THEN f[x] ELSE 0) /\ f[x] = in[x] + out[x]
  OBVIOUS
<1> HIDE DEF in, out
<1>2. SumOf(f, S) = SumOf(in, S) + SumOf(out, S)
  BY <1>1, SumPlus
<1>3. SumOf(in, S) = SumOf(f, T)
  BY <1>1, SumOnly
<1>4. SumOf(out, S) = SumOf(f, S \ T)
  <2>1. PICK U \in SUBSET S : U = S \ T
    OBVIOUS
  <2>2. SumOf(out, S) = SumOf(f, U)
    BY <1>1, <2>1, SumOnly
  <2>3. QED  BY <2>1, <2>2
<1>5. QED  BY <1>2, <1>3, <1>4

\* A sum is the sum of the sums of its parts.
LEMMA SumParts ==
  ASSUME NEW S, IsFiniteSet(S), NEW f, NEW key, NEW P, IsFiniteSet(P),
         \A x \in S : f[x] \in Int /\ key[x] \in P,
         NEW of, \A p \in P : of[p] \subseteq S /\ \A x \in S : x \in of[p] <=> key[x] = p,
         NEW parts, \A p \in P : parts[p] = SumOf(f, of[p])
  PROVE  SumOf(f, S) = SumOf(parts, P)
<1> DEFINE part(s, p) == {y \in s : key[y] = p}
           sums(s) == [p \in P |-> SumOf(f, part(s, p))]
           fine == {s \in SUBSET S : SumOf(f, s) = SumOf(sums(s), P)}
<1>1. {} \in fine
  <2>1. \A p \in P : part({}, p) = {}
    OBVIOUS
  <2>2. \A p \in P : sums({})[p] = 0
    BY <2>1, SumOfEmpty
  <2> HIDE DEF sums
  <2>3. SumOf(sums({}), P) = 0
    BY <2>2, SumZero
  <2>4. QED  BY <2>3, SumOfEmpty
<1>2. ASSUME NEW s \in SUBSET S, NEW x \in s, IsFiniteSet(s), s \ {x} \in fine PROVE s \in fine
  <2> DEFINE t == s \ {x}
             k == key[x]
  <2>1. k \in P /\ f[x] \in Int /\ SumOf(f, t) = SumOf(sums(t), P)
    BY <1>2
  <2>2. SumOf(f, s) = f[x] + SumOf(f, t)
    BY <1>2, SumTake
  <2>3. \A p \in P : part(t, p) \subseteq s /\ IsFiniteSet(part(t, p)) /\ IsFiniteSet(part(s, p))
    BY <1>2, FS_Subset
  <2>4. \A p \in P : sums(t)[p] \in Int /\ sums(s)[p] \in Int
    <3>1. \A p \in P : SumOf(f, part(t, p)) \in Int /\ SumOf(f, part(s, p)) \in Int
      BY <2>3, SumInt
    <3>2. QED  BY <3>1
  <2>5. \A p \in P \ {k} : sums(s)[p] = sums(t)[p]
    <3>1. \A p \in P \ {k} : part(s, p) = part(t, p)
      OBVIOUS
    <3>2. QED  BY <3>1
  <2>6. sums(s)[k] = f[x] + sums(t)[k]
    <3>1. x \in part(s, k) /\ part(s, k) \ {x} = part(t, k) /\ part(s, k) \subseteq S
      OBVIOUS
    <3>2. SumOf(f, part(s, k)) = f[x] + SumOf(f, part(t, k))
      <4> HIDE DEF part, k, t
      <4>1. QED  BY <2>1, <2>3, <3>1, SumTake
    <3>3. QED  BY <2>1, <3>2
  <2> HIDE DEF sums, t, k
  <2>7. /\ SumOf(sums(s), P) = sums(s)[k] + SumOf(sums(s), P \ {k})
        /\ SumOf(sums(t), P) = sums(t)[k] + SumOf(sums(t), P \ {k})
    BY <2>1, <2>4, SumTake
  <2>8. IsFiniteSet(P \ {k})
    BY FS_RemoveElement
  <2>9. SumOf(sums(s), P \ {k}) = SumOf(sums(t), P \ {k}) /\ SumOf(sums(t), P \ {k}) \in Int
    BY <2>4, <2>5, <2>8, SumSame, SumInt
  <2>10. SumOf(f, s) = SumOf(sums(s), P)
    BY <2>1, <2>2, <2>4, <2>6, <2>7, <2>9
  <2>11. QED  BY <2>10
<1>3. S \in fine
  <2> HIDE DEF fine
  <2>1. QED  BY <1>1, <1>2, Grown
<1>4. SumOf(sums(S), P) = SumOf(parts, P)
  <2>1. \A p \in P : part(S, p) = of[p]
    OBVIOUS
  <2>2. \A p \in P : sums(S)[p] = parts[p]
    BY <2>1
  <2> HIDE DEF sums
  <2>3. QED  BY <2>2, SumSame
<1>5. QED  BY <1>3, <1>4

\* A table of numbers adds up row by row as column by column.
Transposed(a, b, S, T) == \A x \in S, y \in T : a[x][y] \in Int /\ b[y][x] = a[x][y]
RowSums(rows, a, S, T) == \A x \in S : rows[x] = SumOf(a[x], T)

LEMMA SumSwap ==
  ASSUME NEW S, IsFiniteSet(S), NEW T, IsFiniteSet(T), NEW a, NEW b, Transposed(a, b, S, T),
         NEW rows, RowSums(rows, a, S, T), NEW columns, RowSums(columns, b, T, S)
  PROVE  SumOf(rows, S) = SumOf(columns, T)
<1> DEFINE sums(s) == [y \in T |-> SumOf(b[y], s)]
           fine == {s \in SUBSET S : SumOf(rows, s) = SumOf(sums(s), T)}
<1>0. \A y \in T : \A x \in S : a[x][y] \in Int /\ b[y][x] = a[x][y] /\ b[y][x] \in Int
  BY DEF Transposed
<1>00. \A x \in S : rows[x] \in Int
  <2>1. ASSUME NEW x \in S PROVE SumOf(a[x], T) \in Int
    <3>1. \A y \in T : a[x][y] \in Int
      BY <1>0
    <3>2. QED  BY <3>1, SumInt
  <2>2. QED  BY <2>1 DEF RowSums
<1>1. {} \in fine
  <2>1. \A y \in T : sums({})[y] = 0
    BY SumOfEmpty
  <2> HIDE DEF sums
  <2>2. SumOf(sums({}), T) = 0
    BY <2>1, SumZero
  <2>3. QED  BY <2>2, SumOfEmpty
<1>2. ASSUME NEW s \in SUBSET S, NEW x \in s, IsFiniteSet(s), s \ {x} \in fine PROVE s \in fine
  <2> DEFINE t == s \ {x}
  <2>1. SumOf(rows, t) = SumOf(sums(t), T) /\ IsFiniteSet(t) /\ t \subseteq S /\ x \in S
    BY <1>2, FS_RemoveElement
  <2>2. SumOf(rows, s) = rows[x] + SumOf(rows, t)
    <3>1. \A y \in s : rows[y] \in Int
      BY <1>00
    <3>2. QED  BY <1>2, <3>1, SumTake
  <2>3. \A y \in T : SumOf(b[y], s) = b[y][x] + SumOf(b[y], t)
    BY <1>0, <1>2, SumTake
  <2>4. \A y \in T : SumOf(b[y], t) \in Int
    BY <1>0, <2>1, SumInt
  <2> HIDE DEF t
  <2>5. \A y \in T : a[x][y] \in Int /\ sums(t)[y] \in Int /\ sums(s)[y] = a[x][y] + sums(t)[y]
    BY <1>0, <2>1, <2>3, <2>4
  <2> HIDE DEF sums
  <2>6. SumOf(sums(s), T) = SumOf(a[x], T) + SumOf(sums(t), T)
    <3>1. PICK f : f = a[x]
      OBVIOUS
    <3>2. \A y \in T : f[y] \in Int /\ sums(t)[y] \in Int /\ sums(s)[y] = f[y] + sums(t)[y]
      BY <2>5, <3>1
    <3>3. SumOf(sums(s), T) = SumOf(f, T) + SumOf(sums(t), T)
      BY <3>2, SumPlus
    <3>4. QED  BY <3>1, <3>3
  <2>7. QED  BY <2>1, <2>2, <2>6 DEF RowSums
<1>3. S \in fine
  <2> HIDE DEF fine
  <2>1. QED  BY <1>1, <1>2, Grown
<1>4. SumOf(sums(S), T) = SumOf(columns, T)
  <2>1. \A y \in T : sums(S)[y] = columns[y]
    BY DEF RowSums
  <2> HIDE DEF sums
  <2>2. QED  BY <2>1, SumSame
<1>5. QED  BY <1>3, <1>4

\* Counting is adding ones.
LEMMA SumCount ==
  ASSUME NEW S, IsFiniteSet(S), NEW f, \A x \in S : f[x] = 1
  PROVE  SumOf(f, S) = Cardinality(S)
<1> DEFINE fine == {s \in SUBSET S : SumOf(f, s) = Cardinality(s)}
<1>1. {} \in fine
  BY SumOfEmpty, FS_EmptySet
<1>2. ASSUME NEW s \in SUBSET S, NEW x \in s, IsFiniteSet(s), s \ {x} \in fine PROVE s \in fine
  <2>1. Cardinality(s \ {x}) = Cardinality(s) - 1 /\ Cardinality(s) \in Nat
    BY <1>2, FS_RemoveElement, FS_CardinalityType
  <2>2. SumOf(f, s) = f[x] + SumOf(f, s \ {x})
    <3>1. \A y \in s : f[y] \in Int
      OBVIOUS
    <3>2. QED  BY <1>2, <3>1, SumTake
  <2>3. QED  BY <1>2, <2>1, <2>2
<1> HIDE DEF fine
<1>3. S \in fine
  BY <1>1, <1>2, Grown
<1>4. QED  BY <1>3 DEF fine
=============================================================================
