-------------------------------- MODULE Sums --------------------------------
(***************************************************************************)
(* Lemmas about SumFunction, the sum of the values of a function with a    *)
(* finite domain.  The library defines it by a recursive function that     *)
(* takes the elements of a set in an order of its own; here it is shown    *)
(* that the order does not matter.  The inductions over finite sets are    *)
(* done by a smallest counterexample, a set and not a predicate.           *)
(***************************************************************************)
EXTENDS Integers, FiniteSets, Functions, FiniteSetTheorems, TLAPS

\* The element of s that the library takes first.
TakenFirst(s) == CHOOSE x \in s : TRUE

\* What the sum over s is, from that over the rest of s.
SumStep(f, it, s) == IF s = {} THEN 0 ELSE f[TakenFirst(s)] + it[s \ {TakenFirst(s)}]

\* it gives the sums of f over the subsets of S.
GivesSums(f, S, it) == it = [s \in SUBSET S |-> SumStep(f, it, s)]

\* The sums of f over the subsets of S, as the library has them.
AllSums(f, S) == CHOOSE it : GivesSums(f, S, it)

\* A nonempty set has the element that is taken first.
LEMMA TakenElement == \A s : s # {} => TakenFirst(s) \in s
BY DEF TakenFirst

\* The library's sum is one of the sums over the subsets.
LEMMA SumIsFold == \A f, S : SumFunctionOnSet(f, S) = AllSums(f, S)[S]
BY DEF SumFunctionOnSet, FoldFunctionOnSet, MapThenFoldSet, AllSums, GivesSums, SumStep, TakenFirst

\* A nonempty set of subsets of a finite set has a smallest member.
LEMMA SmallestSet ==
    ASSUME NEW S, IsFiniteSet(S), NEW Bad \in SUBSET SUBSET S, Bad # {}
    PROVE  \E T \in Bad : \A U \in SUBSET T : U # T => U \notin Bad
<1> DEFINE R == StrictSubsetOrdering(S)
<1>1. IsWellFoundedOn(R, SUBSET S)
  BY FS_StrictSubsetOrderingWellFounded, FS_FiniteSubsetsOfFinite
<1>2. PICK T \in Bad : \A y \in Bad : ~(<<y, T>> \in R)
  <2> HIDE DEF R
  <2> QED BY <1>1, WFMin
<1>3. ASSUME NEW U \in SUBSET T, U # T, U \in Bad PROVE FALSE
  BY <1>2, <1>3 DEF StrictSubsetOrdering
<1> QED BY <1>2, <1>3

\* Two families of sums agree on the sets they have in common.
LEMMA SumsAgree ==
    ASSUME NEW f, NEW S, IsFiniteSet(S), NEW T1 \in SUBSET S, NEW T2 \in SUBSET S,
           NEW g, NEW h, GivesSums(f, T1, g), GivesSums(f, T2, h)
    PROVE  \A s \in SUBSET (T1 \cap T2) : g[s] = h[s]
<1> DEFINE Bad == {s \in SUBSET (T1 \cap T2) : g[s] # h[s]}
<1> SUFFICES ASSUME Bad # {} PROVE FALSE
  OBVIOUS
<1>1. PICK s \in Bad : \A U \in SUBSET s : U # s => U \notin Bad
  <2>1. Bad \in SUBSET SUBSET S
    OBVIOUS
  <2> HIDE DEF Bad
  <2> QED BY <2>1, SmallestSet
<1>2. g[s] = SumStep(f, g, s) /\ h[s] = SumStep(f, h, s)
  BY DEF GivesSums
<1>3. CASE s = {}
  BY <1>2, <1>3 DEF SumStep
<1>4. CASE s # {}
  <2>1. TakenFirst(s) \in s
    BY <1>4, TakenElement
  <2>2. g[s \ {TakenFirst(s)}] = h[s \ {TakenFirst(s)}]
    BY <1>1, <2>1
  <2> QED BY <1>2, <2>2 DEF SumStep
<1> QED BY <1>3, <1>4

\* So the sum over a subset does not depend on the set it is taken from.
LEMMA SumsBelow ==
    ASSUME NEW f, NEW S, IsFiniteSet(S), NEW T \in SUBSET S, NEW g, NEW h,
           GivesSums(f, S, g), GivesSums(f, T, h)
    PROVE  g[T] = h[T]
<1>1. S \in SUBSET S /\ T \in SUBSET (S \cap T)
  OBVIOUS
<1>2. \A s \in SUBSET (S \cap T) : g[s] = h[s]
  BY <1>1, SumsAgree
<1> QED BY <1>1, <1>2

\* There are sums over the subsets of every finite set.
LEMMA SumsExist ==
    ASSUME NEW f, NEW S, IsFiniteSet(S)
    PROVE  \A T \in SUBSET S : GivesSums(f, T, AllSums(f, T))
<1> DEFINE Bad == {T \in SUBSET S : ~ \E it : GivesSums(f, T, it)}
<1>1. SUFFICES Bad = {}
  BY DEF AllSums
<1> SUFFICES ASSUME Bad # {} PROVE FALSE
  OBVIOUS
<1>2. PICK T \in Bad : \A U \in SUBSET T : U # T => U \notin Bad
  <2>1. Bad \in SUBSET SUBSET S
    OBVIOUS
  <2> HIDE DEF Bad
  <2> QED BY <2>1, SmallestSet
<1>3. \A U \in SUBSET T : U # T => GivesSums(f, U, AllSums(f, U))
  BY <1>2 DEF AllSums
<1> DEFINE below == [U \in SUBSET T |-> AllSums(f, U)[U]]
           it == [s \in SUBSET T |-> SumStep(f, below, s)]
<1>4. ASSUME NEW s \in SUBSET T, s # T PROVE it[s] = below[s]
  <2>1. GivesSums(f, s, AllSums(f, s))
    BY <1>3, <1>4
  <2>2. below[s] = SumStep(f, AllSums(f, s), s)
    BY <2>1 DEF GivesSums
  <2>3. CASE s = {}
    BY <2>2, <2>3 DEF SumStep
  <2>4. CASE s # {}
    <3> DEFINE r == s \ {TakenFirst(s)}
    <3>1. TakenFirst(s) \in s
      BY <2>4, TakenElement
    <3>2. r \in SUBSET T /\ r # T
      BY <3>1
    <3>3. GivesSums(f, r, AllSums(f, r))
      BY <1>3, <3>2
    <3>4. AllSums(f, s)[r] = AllSums(f, r)[r]
      BY <2>1, <3>3, SumsBelow, FS_Subset
    <3>5. below[r] = AllSums(f, s)[r]
      BY <3>2, <3>4
    <3> QED BY <2>2, <3>5, <2>4 DEF SumStep
  <2> QED BY <2>3, <2>4
<1>5. ASSUME NEW s \in SUBSET T PROVE it[s] = SumStep(f, it, s)
  <2>1. CASE s = {}
    BY <2>1 DEF SumStep
  <2>2. CASE s # {}
    <3>1. TakenFirst(s) \in s
      BY <2>2, TakenElement
    <3>2. it[s \ {TakenFirst(s)}] = below[s \ {TakenFirst(s)}]
      BY <3>1, <1>4
    <3> HIDE DEF below
    <3> QED BY <2>2, <3>2 DEF SumStep
  <2> QED BY <2>1, <2>2
<1>6. GivesSums(f, T, it)
  <2> HIDE DEF it
  <2>1. DOMAIN it = SUBSET T /\ it = [s \in SUBSET T |-> it[s]]
    BY DEF it
  <2> QED BY <1>5, <2>1 DEF GivesSums
<1> QED BY <1>6
-----------------------------------------------------------------------------
(* What the sums are *)

\* A sum takes one element out and goes on with the rest.
LEMMA SumUnfold ==
    ASSUME NEW f, NEW S, IsFiniteSet(S)
    PROVE  /\ S = {} => SumFunctionOnSet(f, S) = 0
           /\ S # {} => SumFunctionOnSet(f, S)
                          = f[TakenFirst(S)] + SumFunctionOnSet(f, S \ {TakenFirst(S)})
<1> DEFINE rest == S \ {TakenFirst(S)}
<1>1. GivesSums(f, S, AllSums(f, S)) /\ GivesSums(f, rest, AllSums(f, rest))
  BY SumsExist
<1>2. AllSums(f, S)[S] = SumStep(f, AllSums(f, S), S)
  BY <1>1 DEF GivesSums
<1>3. AllSums(f, S)[rest] = AllSums(f, rest)[rest]
  <2>1. rest \in SUBSET S
    OBVIOUS
  <2> HIDE DEF rest
  <2> QED BY <1>1, <2>1, SumsBelow
<1> QED BY <1>2, <1>3, SumIsFold DEF SumStep

\* The sum over a finite set is a number of the kind of the values.
LEMMA SumType ==
    ASSUME NEW f, NEW S, IsFiniteSet(S)
    PROVE  /\ (\A x \in S : f[x] \in Int) => SumFunctionOnSet(f, S) \in Int
           /\ (\A x \in S : f[x] \in Nat) => SumFunctionOnSet(f, S) \in Nat
<1>1. ASSUME NEW Kind \in {Int, Nat}, \A x \in S : f[x] \in Kind
      PROVE  SumFunctionOnSet(f, S) \in Kind
  <2> DEFINE Bad == {T \in SUBSET S : SumFunctionOnSet(f, T) \notin Kind}
  <2> SUFFICES ASSUME Bad # {} PROVE FALSE
    OBVIOUS
  <2>1. PICK T \in Bad : \A U \in SUBSET T : U # T => U \notin Bad
    <3>1. Bad \in SUBSET SUBSET S /\ Bad # {}
      OBVIOUS
    <3> HIDE DEF Bad
    <3> QED BY <3>1, SmallestSet
  <2>2. IsFiniteSet(T)
    BY FS_Subset
  <2>3. CASE T = {}
    <3>1. 0 \in Kind
      OBVIOUS
    <3> QED BY <2>2, <2>3, <3>1, SumUnfold
  <2>4. CASE T # {}
    <3>1. TakenFirst(T) \in T
      BY <2>4, TakenElement
    <3>2. SumFunctionOnSet(f, T \ {TakenFirst(T)}) \in Kind
      BY <2>1, <3>1
    <3>3. f[TakenFirst(T)] \in Kind
      BY <1>1, <3>1
    <3>4. SumFunctionOnSet(f, T) = f[TakenFirst(T)] + SumFunctionOnSet(f, T \ {TakenFirst(T)})
      BY <2>2, <2>4, SumUnfold
    <3>5. SumFunctionOnSet(f, T) \in Kind
      BY <3>2, <3>3, <3>4
    <3> QED BY <3>5
  <2> QED BY <2>3, <2>4
<1> QED BY <1>1

\* Any element may be taken out first.
LEMMA SumRemove ==
    ASSUME NEW f, NEW S, IsFiniteSet(S), \A x \in S : f[x] \in Int, NEW e \in S
    PROVE  SumFunctionOnSet(f, S) = f[e] + SumFunctionOnSet(f, S \ {e})
<1> DEFINE sum(T) == SumFunctionOnSet(f, T)
           Bad == {T \in SUBSET S : \E x \in T : sum(T) # f[x] + sum(T \ {x})}
<1> SUFFICES ASSUME Bad # {} PROVE FALSE
  OBVIOUS
<1>1. PICK T \in Bad : \A U \in SUBSET T : U # T => U \notin Bad
  <2>1. Bad \in SUBSET SUBSET S
    OBVIOUS
  <2> HIDE DEF Bad
  <2> QED BY <2>1, SmallestSet
<1>2. PICK x \in T : sum(T) # f[x] + sum(T \ {x})
  OBVIOUS
<1> DEFINE p == TakenFirst(T)
           both == T \ {p, x}
<1>3. p \in T /\ sum(T) = f[p] + sum(T \ {p})
  BY TakenElement, SumUnfold, FS_Subset
<1>4. p # x
  BY <1>2, <1>3
<1>5. (T \ {p}) \ {x} = both /\ (T \ {x}) \ {p} = both
  OBVIOUS
<1>6. sum(T \ {p}) = f[x] + sum(both)
  <2>1. T \ {p} \in SUBSET S /\ T \ {p} \notin Bad /\ x \in T \ {p}
    BY <1>1, <1>3, <1>4
  <2> HIDE DEF p, both, sum
  <2> QED BY <2>1, <1>5
<1>7. sum(T \ {x}) = f[p] + sum(both)
  <2>1. T \ {x} \in SUBSET S /\ T \ {x} \notin Bad /\ p \in T \ {x}
    BY <1>1, <1>3, <1>4
  <2> HIDE DEF p, both, sum
  <2> QED BY <2>1, <1>5
<1>8. f[p] \in Int /\ f[x] \in Int /\ sum(both) \in Int
  <2>1. both \in SUBSET S
    OBVIOUS
  <2> QED BY <1>3, <2>1, SumType, FS_Subset
<1>9. sum(T) = f[x] + sum(T \ {x})
  <2> HIDE DEF sum, p, both
  <2> QED BY <1>3, <1>6, <1>7, <1>8
<1> QED BY <1>2, <1>9

\* Only the values count, not the functions they come from.
LEMMA SumEqual ==
    ASSUME NEW f, NEW g, NEW S, IsFiniteSet(S), \A x \in S : f[x] = g[x]
    PROVE  SumFunctionOnSet(f, S) = SumFunctionOnSet(g, S)
<1> DEFINE Bad == {T \in SUBSET S : SumFunctionOnSet(f, T) # SumFunctionOnSet(g, T)}
<1> SUFFICES ASSUME Bad # {} PROVE FALSE
  OBVIOUS
<1>1. PICK T \in Bad : \A U \in SUBSET T : U # T => U \notin Bad
  <2>1. Bad \in SUBSET SUBSET S
    OBVIOUS
  <2> HIDE DEF Bad
  <2> QED BY <2>1, SmallestSet
<1>2. IsFiniteSet(T)
  BY FS_Subset
<1>3. CASE T = {}
  BY <1>2, <1>3, SumUnfold
<1>4. CASE T # {}
  <2>1. TakenFirst(T) \in T
    BY <1>4, TakenElement
  <2>2. SumFunctionOnSet(f, T \ {TakenFirst(T)}) = SumFunctionOnSet(g, T \ {TakenFirst(T)})
    BY <1>1, <2>1
  <2> QED BY <1>2, <1>4, <2>1, <2>2, SumUnfold
<1> QED BY <1>3, <1>4

\* Changing one value changes the sum by as much.
LEMMA SumExcept ==
    ASSUME NEW S, IsFiniteSet(S), NEW f \in [S -> Int], NEW e \in S, NEW v \in Int
    PROVE  SumFunction([f EXCEPT ![e] = v]) = SumFunction(f) - f[e] + v
<1> DEFINE g == [f EXCEPT ![e] = v]
           rest == S \ {e}
<1>1. g \in [S -> Int]
  OBVIOUS
<1>2. SumFunction(f) = SumFunctionOnSet(f, S) /\ SumFunction(g) = SumFunctionOnSet(g, S)
  BY <1>1 DEF SumFunction
<1>3. SumFunctionOnSet(f, S) = f[e] + SumFunctionOnSet(f, rest)
  BY SumRemove
<1>4. SumFunctionOnSet(g, S) = v + SumFunctionOnSet(g, rest)
  <2>1. g[e] = v
    OBVIOUS
  <2> HIDE DEF g
  <2> QED BY <1>1, <2>1, SumRemove
<1>5. SumFunctionOnSet(f, rest) = SumFunctionOnSet(g, rest)
  <2>1. \A x \in rest : f[x] = g[x]
    OBVIOUS
  <2>2. IsFiniteSet(rest)
    BY FS_Subset
  <2> HIDE DEF g, rest
  <2> QED BY <2>1, <2>2, SumEqual
<1>6. SumFunctionOnSet(f, rest) \in Int
  <2>1. IsFiniteSet(rest)
    BY FS_Subset
  <2> QED BY <2>1, SumType
<1> HIDE DEF g, rest
<1>7. SumFunctionOnSet(g, S) = SumFunctionOnSet(f, S) - f[e] + v
  BY <1>3, <1>4, <1>5, <1>6
<1>8. SumFunction(g) = SumFunction(f) - f[e] + v
  BY <1>2, <1>7
<1> QED BY <1>8 DEF g

\* The sum of a function to the natural numbers is one, and one value of it is not
\* more than the sum.
LEMMA SumOfNaturals ==
    ASSUME NEW S, IsFiniteSet(S), NEW f \in [S -> Nat]
    PROVE  /\ SumFunction(f) \in Nat
           /\ \A e \in S : f[e] <= SumFunction(f)
<1>1. SumFunction(f) = SumFunctionOnSet(f, S)
  BY DEF SumFunction
<1>2. SumFunction(f) \in Nat
  BY <1>1, SumType
<1>3. ASSUME NEW e \in S PROVE f[e] <= SumFunction(f)
  <2>1. SumFunctionOnSet(f, S) = f[e] + SumFunctionOnSet(f, S \ {e})
    BY SumRemove
  <2>2. SumFunctionOnSet(f, S \ {e}) \in Nat
    BY SumType, FS_Subset
  <2> QED BY <1>1, <2>1, <2>2
<1> QED BY <1>2, <1>3

\* Elements whose value is 0 do not count.
LEMMA SumOutside ==
    ASSUME NEW f, NEW S, IsFiniteSet(S), NEW T \in SUBSET S,
           \A x \in S : f[x] \in Int, \A x \in S \ T : f[x] = 0
    PROVE  SumFunctionOnSet(f, S) = SumFunctionOnSet(f, T)
<1> DEFINE Bad == {U \in SUBSET (S \ T) :
                      SumFunctionOnSet(f, T \cup U) # SumFunctionOnSet(f, T)}
<1>1. Bad = {}
  <2> SUFFICES ASSUME Bad # {} PROVE FALSE
    OBVIOUS
  <2>1. PICK U \in Bad : \A V \in SUBSET U : V # U => V \notin Bad
    <3>1. Bad \in SUBSET SUBSET S
      OBVIOUS
    <3> HIDE DEF Bad
    <3> QED BY <3>1, SmallestSet
  <2>2. PICK x \in U : TRUE
    <3>1. T \cup {} = T
      OBVIOUS
    <3> QED BY <3>1
  <2>3. SumFunctionOnSet(f, T \cup (U \ {x})) = SumFunctionOnSet(f, T)
    BY <2>1, <2>2
  <2>4. (T \cup U) \ {x} = T \cup (U \ {x}) /\ x \in T \cup U /\ f[x] = 0
    BY <2>2
  <2>5. IsFiniteSet(T \cup U) /\ IsFiniteSet(T)
    BY FS_Subset
  <2>6. SumFunctionOnSet(f, T \cup U) = 0 + SumFunctionOnSet(f, T)
    BY <2>3, <2>4, <2>5, SumRemove
  <2>7. SumFunctionOnSet(f, T) \in Int
    BY <2>5, SumType
  <2> QED BY <2>6, <2>7
<1>2. S \ T \notin Bad /\ T \cup (S \ T) = S
  BY <1>1
<1> QED BY <1>2

\* A sum may be taken along a bijection.
LEMMA SumBijection ==
    ASSUME NEW S, IsFiniteSet(S), NEW T, IsFiniteSet(T), NEW r \in Bijection(S, T),
           NEW f, \A x \in T : f[x] \in Int
    PROVE  SumFunctionOnSet(f, T) = SumFunctionOnSet([i \in S |-> f[r[i]]], S)
<1> DEFINE g == [i \in S |-> f[r[i]]]
           Image(U) == {r[i] : i \in U}
           Bad == {U \in SUBSET S : SumFunctionOnSet(f, Image(U)) # SumFunctionOnSet(g, U)}
<1>1. /\ \A i \in S : r[i] \in T
      /\ \A i, j \in S : r[i] = r[j] => i = j
      /\ \A x \in T : \E i \in S : r[i] = x
  BY DEF Bijection, Injection, Surjection, IsInjective
<1>2. Bad = {}
  <2> SUFFICES ASSUME Bad # {} PROVE FALSE
    OBVIOUS
  <2>1. PICK U \in Bad : \A V \in SUBSET U : V # U => V \notin Bad
    <3>1. Bad \in SUBSET SUBSET S
      OBVIOUS
    <3> HIDE DEF Bad
    <3> QED BY <3>1, SmallestSet
  <2>2. IsFiniteSet(U) /\ IsFiniteSet(Image(U)) /\ Image(U) \subseteq T
    <3>1. Image(U) \in SUBSET T
      BY <1>1
    <3> QED BY <3>1, FS_Subset
  <2>3. CASE U = {}
    <3>1. Image(U) = {}
      BY <2>3
    <3> QED BY <2>2, <2>3, <3>1, SumUnfold
  <2>4. CASE U # {}
    <3>1. PICK x \in U : TRUE
      BY <2>4
    <3>2. Image(U) \ {r[x]} = Image(U \ {x}) /\ r[x] \in Image(U)
      BY <1>1, <3>1
    <3>3. SumFunctionOnSet(f, Image(U \ {x})) = SumFunctionOnSet(g, U \ {x})
      BY <2>1, <3>1
    <3>4. \A i \in U : g[i] \in Int
      BY <1>1
    <3>5. g[x] = f[r[x]] /\ \A y \in Image(U) : f[y] \in Int
      BY <1>1, <3>1
    <3>6. SumFunctionOnSet(f, Image(U)) = f[r[x]] + SumFunctionOnSet(f, Image(U) \ {r[x]})
      <4> HIDE DEF Image
      <4> QED BY <2>2, <3>2, <3>5, SumRemove
    <3>7. SumFunctionOnSet(g, U) = g[x] + SumFunctionOnSet(g, U \ {x})
      <4> HIDE DEF g
      <4> QED BY <2>2, <3>1, <3>4, SumRemove
    <3>8. SumFunctionOnSet(f, Image(U)) = SumFunctionOnSet(g, U)
      <4> HIDE DEF g, Image
      <4> QED BY <3>2, <3>3, <3>5, <3>6, <3>7
    <3> QED BY <3>8
  <2> QED BY <2>3, <2>4
<1>3. S \notin Bad /\ Image(S) = T
  BY <1>1, <1>2
<1> QED BY <1>3

-----------------------------------------------------------------------------
(* Several sums *)

\* The sum of two functions.
LEMMA SumPlus ==
    ASSUME NEW S, IsFiniteSet(S), NEW f, NEW g, NEW h,
           \A x \in S : f[x] \in Int /\ g[x] \in Int /\ h[x] = f[x] + g[x]
    PROVE  SumFunctionOnSet(h, S) = SumFunctionOnSet(f, S) + SumFunctionOnSet(g, S)
<1> DEFINE Bad == {T \in SUBSET S : SumFunctionOnSet(h, T)
                                      # SumFunctionOnSet(f, T) + SumFunctionOnSet(g, T)}
<1> SUFFICES ASSUME Bad # {} PROVE FALSE
  OBVIOUS
<1>1. PICK T \in Bad : \A U \in SUBSET T : U # T => U \notin Bad
  <2>1. Bad \in SUBSET SUBSET S
    OBVIOUS
  <2> HIDE DEF Bad
  <2> QED BY <2>1, SmallestSet
<1>2. IsFiniteSet(T)
  BY FS_Subset
<1>3. CASE T = {}
  <2>1. SumFunctionOnSet(f, T) = 0 /\ SumFunctionOnSet(g, T) = 0 /\ SumFunctionOnSet(h, T) = 0
    BY <1>2, <1>3, SumUnfold
  <2> QED BY <2>1
<1>4. CASE T # {}
  <2> DEFINE x == TakenFirst(T)
             rest == T \ {x}
  <2>1. x \in T
    BY <1>4, TakenElement
  <2> HIDE DEF x
  <2>2. /\ SumFunctionOnSet(f, T) = f[x] + SumFunctionOnSet(f, rest)
        /\ SumFunctionOnSet(g, T) = g[x] + SumFunctionOnSet(g, rest)
        /\ SumFunctionOnSet(h, T) = h[x] + SumFunctionOnSet(h, rest)
    BY <1>2, <1>4, SumUnfold DEF x
  <2>3. rest \in SUBSET T /\ rest # T /\ IsFiniteSet(rest)
    BY <1>2, <2>1, FS_Subset
  <2>4. SumFunctionOnSet(h, rest) = SumFunctionOnSet(f, rest) + SumFunctionOnSet(g, rest)
    BY <1>1, <2>3
  <2>5. SumFunctionOnSet(f, rest) \in Int /\ SumFunctionOnSet(g, rest) \in Int
    BY <2>3, SumType
  <2>6. SumFunctionOnSet(h, T) = SumFunctionOnSet(f, T) + SumFunctionOnSet(g, T)
    <3>1. f[x] \in Int /\ g[x] \in Int /\ h[x] = f[x] + g[x]
      BY <2>1
    <3> HIDE DEF rest
    <3> QED BY <2>2, <2>4, <2>5, <3>1
  <2> QED BY <2>6
<1> QED BY <1>3, <1>4

\* What is nowhere greater has no greater sum.
LEMMA SumMonotone ==
    ASSUME NEW S, IsFiniteSet(S), NEW f, NEW g,
           \A x \in S : f[x] \in Int /\ g[x] \in Int /\ f[x] <= g[x]
    PROVE  SumFunctionOnSet(f, S) <= SumFunctionOnSet(g, S)
<1> DEFINE d == [x \in S |-> g[x] - f[x]]
<1>1. \A x \in S : f[x] \in Int /\ d[x] \in Int /\ g[x] = f[x] + d[x]
  OBVIOUS
<1>2. \A x \in S : d[x] \in Nat
  OBVIOUS
<1> HIDE DEF d
<1>3. SumFunctionOnSet(g, S) = SumFunctionOnSet(f, S) + SumFunctionOnSet(d, S)
  BY <1>1, SumPlus
<1>4. SumFunctionOnSet(d, S) \in Nat /\ SumFunctionOnSet(f, S) \in Int
  BY <1>1, <1>2, SumType
<1> QED BY <1>3, <1>4

\* The sum of a table m with rows S and columns T, by rows and by columns.
ByRows(m, S, T) == SumFunction([c \in S |-> SumFunction([a \in T |-> m[c][a]])])
ByColumns(m, S, T) == SumFunction([a \in T |-> SumFunction([c \in S |-> m[c][a]])])

\* The rows of a table have the same sum as its columns.
LEMMA SumExchange ==
    ASSUME NEW S, IsFiniteSet(S), NEW T, IsFiniteSet(T),
           NEW m, \A c \in S, a \in T : m[c][a] \in Int
    PROVE  ByColumns(m, S, T) = ByRows(m, S, T)
<1> DEFINE column(a) == [c \in S |-> m[c][a]]
           row(c) == [a \in T |-> m[c][a]]
           columns(U) == [a \in T |-> SumFunctionOnSet(column(a), U)]
           rows == [c \in S |-> SumFunctionOnSet(row(c), T)]
           Bad == {U \in SUBSET S :
                      SumFunctionOnSet(columns(U), T) # SumFunctionOnSet(rows, U)}
<1>1. \A a \in T : \A c \in S : column(a)[c] = m[c][a] /\ column(a)[c] \in Int
  OBVIOUS
<1>2. \A c \in S : \A a \in T : row(c)[a] = m[c][a] /\ row(c)[a] \in Int
  OBVIOUS
<1>3. \A U : \A a \in T : columns(U)[a] = SumFunctionOnSet(column(a), U)
  OBVIOUS
<1>4. \A c \in S : rows[c] = SumFunctionOnSet(row(c), T) /\ rows[c] \in Int
  <2> HIDE DEF row
  <2> QED BY <1>2, SumType
<1> HIDE DEF column, row, columns, rows
<1>5. Bad = {}
  <2> SUFFICES ASSUME Bad # {} PROVE FALSE
    OBVIOUS
  <2>1. PICK U \in Bad : \A V \in SUBSET U : V # U => V \notin Bad
    <3>1. Bad \in SUBSET SUBSET S
      OBVIOUS
    <3> HIDE DEF Bad
    <3> QED BY <3>1, SmallestSet
  <2>2. IsFiniteSet(U)
    BY FS_Subset
  <2>3. CASE U = {}
    <3>1. \A a \in T : columns(U)[a] = 0
      BY <1>3, <2>2, <2>3, SumUnfold
    <3>2. SumFunctionOnSet(columns(U), T) = SumFunctionOnSet(columns(U), {})
      <4>1. {} \in SUBSET T /\ \A a \in T : columns(U)[a] \in Int
        BY <3>1
      <4> QED BY <3>1, <4>1, SumOutside
    <3> QED BY <2>2, <2>3, <3>2, SumUnfold, FS_EmptySet
  <2>4. CASE U # {}
    <3>1. PICK x \in U : TRUE
      BY <2>4
    <3> DEFINE rest == U \ {x}
    <3>2. rest \in SUBSET U /\ rest # U /\ IsFiniteSet(rest)
      BY <2>2, <3>1, FS_Subset
    <3>3. SumFunctionOnSet(columns(rest), T) = SumFunctionOnSet(rows, rest)
      BY <2>1, <3>2
    <3>4. SumFunctionOnSet(rows, U) = rows[x] + SumFunctionOnSet(rows, rest)
      BY <1>4, <2>2, <3>1, SumRemove
    <3>5. ASSUME NEW a \in T
          PROVE  /\ row(x)[a] \in Int /\ columns(rest)[a] \in Int
                 /\ columns(U)[a] = row(x)[a] + columns(rest)[a]
      <4>1. \A c \in U : column(a)[c] \in Int
        BY <1>1
      <4>2. SumFunctionOnSet(column(a), U)
              = column(a)[x] + SumFunctionOnSet(column(a), rest)
        BY <2>2, <3>1, <4>1, SumRemove
      <4>3. SumFunctionOnSet(column(a), rest) \in Int
        BY <3>2, <4>1, SumType
      <4>4. column(a)[x] = row(x)[a] /\ row(x)[a] \in Int
        BY <1>1, <1>2, <3>1
      <4> QED BY <1>3, <4>2, <4>3, <4>4
    <3>6. SumFunctionOnSet(columns(U), T)
            = SumFunctionOnSet(row(x), T) + SumFunctionOnSet(columns(rest), T)
      <4> HIDE DEF rest
      <4> QED BY <3>5, SumPlus
    <3> QED BY <1>4, <3>1, <3>3, <3>4, <3>6
  <2> QED BY <2>3, <2>4
<1>6. SumFunctionOnSet(columns(S), T) = SumFunctionOnSet(rows, S)
  BY <1>5
<1>7. ByColumns(m, S, T) = SumFunctionOnSet(columns(S), T)
  BY DEF ByColumns, SumFunction, columns, column
<1>8. ByRows(m, S, T) = SumFunctionOnSet(rows, S)
  BY DEF ByRows, SumFunction, rows, row
<1> QED BY <1>6, <1>7, <1>8

\* A finite set of numbers has a least and a greatest one.
LEMMA LeastAndGreatest ==
    ASSUME NEW S \in SUBSET Int, IsFiniteSet(S), S # {}
    PROVE  /\ \E m \in S : \A x \in S : m <= x
           /\ \E m \in S : \A x \in S : m >= x
<1> DEFINE HasBoth(T) == /\ \E m \in T : \A x \in T : m <= x
                         /\ \E m \in T : \A x \in T : m >= x
           Bad == {T \in SUBSET S : T # {} /\ ~HasBoth(T)}
<1>1. Bad = {}
  <2> SUFFICES ASSUME Bad # {} PROVE FALSE
    OBVIOUS
  <2>1. PICK T \in Bad : \A U \in SUBSET T : U # T => U \notin Bad
    <3>1. Bad \in SUBSET SUBSET S
      OBVIOUS
    <3> HIDE DEF Bad
    <3> QED BY <3>1, SmallestSet
  <2>2. PICK x \in T : x \in Int
    OBVIOUS
  <2>3. CASE T = {x}
    <3>1. HasBoth(T)
      BY <2>2, <2>3
    <3> QED BY <3>1
  <2>4. CASE T # {x}
    <3>1. HasBoth(T \ {x}) /\ T \subseteq Int
      <4>1. T \ {x} \in SUBSET S /\ T \ {x} \notin Bad
        BY <2>1
      <4>2. T \ {x} # {}
        BY <2>4
      <4> HIDE DEF HasBoth
      <4> QED BY <4>1, <4>2
    <3>2. PICK l \in T \ {x}, g \in T \ {x} : \A y \in T \ {x} : l <= y /\ g >= y
      BY <3>1
    <3>3. \E m \in T : \A y \in T : m <= y
      <4>1. CASE x <= l
        BY <2>2, <3>1, <3>2, <4>1
      <4>2. CASE ~(x <= l)
        BY <2>2, <3>1, <3>2, <4>2
      <4> QED BY <4>1, <4>2
    <3>4. \E m \in T : \A y \in T : m >= y
      <4>1. CASE x >= g
        BY <2>2, <3>1, <3>2, <4>1
      <4>2. CASE ~(x >= g)
        BY <2>2, <3>1, <3>2, <4>2
      <4> QED BY <4>1, <4>2
    <3> QED BY <3>3, <3>4
  <2> QED BY <2>3, <2>4
<1>2. HasBoth(S)
  BY <1>1
<1> QED BY <1>2

\* Ones add up to the number of elements.
LEMMA SumOfOnes ==
    ASSUME NEW S, IsFiniteSet(S), NEW f, \A x \in S : f[x] = 1
    PROVE  SumFunctionOnSet(f, S) = Cardinality(S)
<1> DEFINE Bad == {T \in SUBSET S : SumFunctionOnSet(f, T) # Cardinality(T)}
<1> SUFFICES ASSUME Bad # {} PROVE FALSE
  OBVIOUS
<1>1. PICK T \in Bad : \A U \in SUBSET T : U # T => U \notin Bad
  <2>1. Bad \in SUBSET SUBSET S
    OBVIOUS
  <2> HIDE DEF Bad
  <2> QED BY <2>1, SmallestSet
<1>2. T \in SUBSET S /\ IsFiniteSet(T)
  BY FS_Subset
<1>3. T # {}
  BY <1>2, SumUnfold, FS_EmptySet
<1>4. PICK x \in T : TRUE
  BY <1>3
<1>5. SumFunctionOnSet(f, T \ {x}) = Cardinality(T \ {x})
  BY <1>1, <1>2, <1>4
<1>6. Cardinality(T) \in Nat /\ Cardinality(T \ {x}) = Cardinality(T) - 1
  BY <1>2, <1>4, FS_CardinalityType, FS_RemoveElement
<1>7. \A y \in T : f[y] \in Int
  BY <1>2
<1>8. SumFunctionOnSet(f, T) = f[x] + SumFunctionOnSet(f, T \ {x})
  BY <1>2, <1>4, <1>7, SumRemove
<1>9. f[x] = 1
  BY <1>2, <1>4
<1>10. SumFunctionOnSet(f, T) = Cardinality(T)
  BY <1>5, <1>6, <1>8, <1>9
<1> QED BY <1>10

=============================================================================
