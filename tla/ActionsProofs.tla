---------------------------- MODULE ActionsProofs ----------------------------
(***************************************************************************)
(* Proofs about Actions, for all weapons, cards, colours, costs and        *)
(* actions, and whatever the player chooses, goes back to and changes.     *)
(***************************************************************************)
EXTENDS Actions, Sums, SequenceTheorems, TLAPS

-----------------------------------------------------------------------------
(* The library folds over a sequence by a recursive function on the sets of *)
(* its indices, the greatest index last.                                    *)

FoldStep(h, es, it, s) == IF s = {} THEN h ELSE After(it[s \ {Max(s)}], es[Max(s)])

GivesFolds(h, es, S, it) == it = [s \in SUBSET S |-> FoldStep(h, es, it, s)]

AllFolds(h, es, S) == CHOOSE it : GivesFolds(h, es, S, it)

LEMMA FoldLeftIs == \A h, es : FoldLeft(After, h, es) = AllFolds(h, es, DOMAIN es)[DOMAIN es]
BY DEF FoldLeft, MapThenFoldSet, AllFolds, GivesFolds, FoldStep

\* I is a finite set of integers, as the indices of a sequence are.
Indices(I) == IsFiniteSet(I) /\ I \subseteq Int

LEMMA IndicesFinite == ASSUME NEW n \in Nat PROVE Indices(1..n)
<1>1. IsFiniteSet(1..n)
  BY FS_Interval
<1> QED BY <1>1 DEF Indices

LEMMA GreatestIndex ==
    ASSUME NEW I, Indices(I), NEW s \in SUBSET I, s # {}
    PROVE  Max(s) \in s /\ \A i \in s : i <= Max(s)
<1>1. IsFiniteSet(s)
  BY FS_Subset DEF Indices
<1>2. s \in SUBSET Int
  BY DEF Indices
<1>3. \E m \in s : \A x \in s : m >= x
  BY <1>1, <1>2, LeastAndGreatest
<1>4. \E m \in s : \A x \in s : x <= m
  BY <1>2, <1>3
<1> QED
  BY <1>4 DEF Max

\* A nonempty set of sets of indices has a smallest member.
LEMMA SmallestIndices ==
    ASSUME NEW I, Indices(I), NEW Bad \in SUBSET SUBSET I, Bad # {}
    PROVE  \E T \in Bad : \A U \in SUBSET T : U # T => U \notin Bad
<1>1. IsFiniteSet(I)
  BY DEF Indices
<1> QED BY <1>1, SmallestSet

\* Two families of folds agree on the sets they have in common.
LEMMA FoldsAgree ==
    ASSUME NEW h, NEW es, NEW I, Indices(I), NEW T1 \in SUBSET I, NEW T2 \in SUBSET I,
           NEW f, NEW g, GivesFolds(h, es, T1, f), GivesFolds(h, es, T2, g)
    PROVE  \A s \in SUBSET (T1 \cap T2) : f[s] = g[s]
<1> DEFINE Bad == {s \in SUBSET (T1 \cap T2) : f[s] # g[s]}
<1> SUFFICES ASSUME Bad # {} PROVE FALSE
  OBVIOUS
<1>1. PICK s \in Bad : \A U \in SUBSET s : U # s => U \notin Bad
  <2>1. Bad \in SUBSET SUBSET I
    OBVIOUS
  <2> HIDE DEF Bad
  <2> QED BY <2>1, SmallestIndices
<1>2. f[s] = FoldStep(h, es, f, s) /\ g[s] = FoldStep(h, es, g, s)
  BY DEF GivesFolds
<1>3. CASE s = {}
  BY <1>2, <1>3 DEF FoldStep
<1>4. CASE s # {}
  <2>1. Max(s) \in s
    BY <1>4, GreatestIndex
  <2>2. f[s \ {Max(s)}] = g[s \ {Max(s)}]
    BY <1>1, <2>1
  <2> QED BY <1>2, <1>4, <2>2 DEF FoldStep
<1> QED BY <1>3, <1>4

\* So the fold over a subset does not depend on the set it is taken from.
LEMMA FoldsBelow ==
    ASSUME NEW h, NEW es, NEW I, Indices(I), NEW T \in SUBSET I, NEW U \in SUBSET T,
           NEW f, NEW g, GivesFolds(h, es, T, f), GivesFolds(h, es, U, g)
    PROVE  f[U] = g[U]
<1>1. U \in SUBSET I
  OBVIOUS
<1>2. \A s \in SUBSET (T \cap U) : f[s] = g[s]
  BY ONLY Indices(I), T \in SUBSET I, <1>1,
          GivesFolds(h, es, T, f), GivesFolds(h, es, U, g), FoldsAgree
<1>3. U \in SUBSET (T \cap U)
  OBVIOUS
<1> QED BY <1>2, <1>3

\* There are folds over the sets of indices.
LEMMA FoldsExist ==
    ASSUME NEW h, NEW es, NEW I, Indices(I)
    PROVE  \A T \in SUBSET I : GivesFolds(h, es, T, AllFolds(h, es, T))
<1> DEFINE Bad == {T \in SUBSET I : ~ \E it : GivesFolds(h, es, T, it)}
<1>1. SUFFICES Bad = {}
  BY DEF AllFolds
<1> SUFFICES ASSUME Bad # {} PROVE FALSE
  OBVIOUS
<1>2. PICK T \in Bad : \A U \in SUBSET T : U # T => U \notin Bad
  <2>1. Bad \in SUBSET SUBSET I
    OBVIOUS
  <2> HIDE DEF Bad
  <2> QED BY <2>1, SmallestIndices
<1>3. \A U \in SUBSET T : U # T => GivesFolds(h, es, U, AllFolds(h, es, U))
  BY <1>2 DEF AllFolds
<1> DEFINE below == [U \in SUBSET T |-> AllFolds(h, es, U)[U]]
           it == [s \in SUBSET T |-> FoldStep(h, es, below, s)]
<1>4. ASSUME NEW s \in SUBSET T, s # T PROVE it[s] = below[s]
  <2>1. GivesFolds(h, es, s, AllFolds(h, es, s))
    BY <1>3, <1>4
  <2>2. below[s] = FoldStep(h, es, AllFolds(h, es, s), s)
    BY <2>1 DEF GivesFolds
  <2>3. CASE s = {}
    BY <2>2, <2>3 DEF FoldStep
  <2>4. CASE s # {}
    <3> DEFINE r == s \ {Max(s)}
    <3>1. Max(s) \in s
      BY <2>4, GreatestIndex
    <3>2. r \in SUBSET T /\ r # T /\ r \in SUBSET s /\ r \in SUBSET I /\ s \in SUBSET I
      BY <3>1
    <3>3. GivesFolds(h, es, r, AllFolds(h, es, r))
      BY <1>3, <3>2
    <3>4. AllFolds(h, es, s)[r] = AllFolds(h, es, r)[r]
      <4> HIDE DEF r, below, it, Bad
      <4>1. s \in SUBSET I
        BY <3>2
      <4>2. r \in SUBSET s
        BY <3>2
      <4> QED BY <2>1, <3>3, <4>1, <4>2, FoldsBelow
    <3>5. below[r] = AllFolds(h, es, s)[r]
      BY <3>2, <3>4
    <3> QED BY <2>2, <3>5, <2>4 DEF FoldStep
  <2> QED BY <2>3, <2>4
<1>5. ASSUME NEW s \in SUBSET T PROVE it[s] = FoldStep(h, es, it, s)
  <2>1. CASE s = {}
    BY <2>1 DEF FoldStep
  <2>2. CASE s # {}
    <3>1. Max(s) \in s
      BY <2>2, GreatestIndex
    <3>2. it[s \ {Max(s)}] = below[s \ {Max(s)}]
      BY <3>1, <1>4
    <3> HIDE DEF below
    <3> QED BY <2>2, <3>2 DEF FoldStep
  <2> QED BY <2>1, <2>2
<1>6. GivesFolds(h, es, T, it)
  <2> HIDE DEF it
  <2>1. DOMAIN it = SUBSET T /\ it = [s \in SUBSET T |-> it[s]]
    BY DEF it
  <2> QED BY <1>5, <2>1 DEF GivesFolds
<1> QED BY <1>6

\* What the effects of a sequence make of h, one after another, is their fold.
LEMMA FoldAlong ==
    ASSUME NEW h, NEW es, NEW n \in Nat, DOMAIN es = 1..n, NEW st,
           st[0] = h, \A i \in 1..n : st[i] = After(st[i - 1], es[i])
    PROVE  FoldLeft(After, h, es) = st[n]
<1> DEFINE it == AllFolds(h, es, 1..n)
           Bad == {s \in SUBSET (1..n) : \E k \in 0..n : s = 1..k /\ it[s] # st[k]}
<1>1. GivesFolds(h, es, 1..n, it)
  <2>1. Indices(1..n) /\ 1..n \in SUBSET (1..n)
    BY IndicesFinite
  <2> QED BY <2>1, FoldsExist
<1> HIDE DEF it
<1>2. Bad = {}
  <2> SUFFICES ASSUME Bad # {} PROVE FALSE
    OBVIOUS
  <2>1. PICK s \in Bad : \A U \in SUBSET s : U # s => U \notin Bad
    <3>1. Bad \in SUBSET SUBSET (1..n)
      OBVIOUS
    <3> HIDE DEF Bad
    <3> QED BY <3>1, IndicesFinite, SmallestIndices
  <2>2. PICK k \in 0..n : s = 1..k /\ it[s] # st[k]
    BY <2>1
  <2>3. s \in SUBSET (1..n) /\ it[s] = FoldStep(h, es, it, s)
    BY <1>1 DEF GivesFolds
  <2>4. CASE k = 0
    <3>1. s = {}
      BY <2>2, <2>4
    <3> QED BY <2>2, <2>3, <2>4, <3>1 DEF FoldStep
  <2>5. CASE k # 0
    <3>1. k \in s /\ s # {} /\ k \in 1..n /\ k - 1 \in 0..n
      BY <2>2, <2>5
    <3>2. Max(s) \in s /\ \A i \in s : i <= Max(s)
      BY <2>3, <3>1, IndicesFinite, GreatestIndex
    <3>3. Max(s) = k
      BY <2>2, <3>1, <3>2
    <3>4. s \ {k} = 1..k - 1 /\ s \ {k} # s
      BY <2>2, <3>1
    <3>5. it[1..k - 1] = st[k - 1]
      <4>1. 1..k - 1 \in SUBSET s /\ 1..k - 1 # s /\ 1..k - 1 \in SUBSET (1..n)
        BY <3>4
      <4>2. 1..k - 1 \notin Bad
        BY <2>1, <4>1
      <4> QED BY <3>1, <4>1, <4>2
    <3>6. it[s] = After(st[k - 1], es[k])
      BY <2>3, <3>1, <3>3, <3>4, <3>5 DEF FoldStep
    <3> QED BY <2>2, <3>1, <3>6
  <2> QED BY <2>4, <2>5
<1>3. it[1..n] = st[n]
  <2>1. 1..n \notin Bad /\ 1..n \in SUBSET (1..n) /\ n \in 0..n
    BY <1>2
  <2> QED BY <2>1
<1> QED BY <1>3, FoldLeftIs DEF it

-----------------------------------------------------------------------------
(* Ways through effects *)

Has == [cubes : Amount, cards : SUBSET Card, loaded : SUBSET Weapon]

\* An effect finds what it needs.
Works(h, e) ==
    /\ e.do = "reload" => e.on \in Weapon \ h.loaded
    /\ e.do = "fire" => e.on \in h.loaded
    /\ e.do = "payCard" => e.on \in h.cards
    /\ e.do = "payCubes" => CanBuy(h.cubes, e.amount)

\* st is the way from h through the effects of es, each of which works, to g.
Way(h, es, g, st) ==
    /\ st \in [0..Len(es) -> Has]
    /\ st[0] = h /\ st[Len(es)] = g
    /\ \A i \in 1..Len(es) : Works(st[i - 1], es[i]) /\ st[i] = After(st[i - 1], es[i])

Leads(h, es, g) == \E st \in [0..Len(es) -> Has] : Way(h, es, g, st)

\* The fold of the effects is where the way leads.
LEMMA WayFolds ==
    ASSUME NEW h, NEW es \in Seq(Effect), NEW g, Leads(h, es, g)
    PROVE  FoldLeft(After, h, es) = g
<1>1. PICK st \in [0..Len(es) -> Has] : Way(h, es, g, st)
  BY DEF Leads
<1>2. Len(es) \in Nat /\ DOMAIN es = 1..Len(es)
  OBVIOUS
<1>3. st[0] = h /\ \A i \in 1..Len(es) : st[i] = After(st[i - 1], es[i])
  BY <1>1 DEF Way
<1>4. FoldLeft(After, h, es) = st[Len(es)]
  BY <1>2, <1>3, FoldAlong
<1> QED BY <1>1, <1>4 DEF Way

\* No effects lead nowhere.
LEMMA WayOfNone ==
    ASSUME NEW h \in Has
    PROVE  Leads(h, <<>>, h)
<1> DEFINE st == [i \in 0..0 |-> h]
<1>1. Len(<<>>) = 0 /\ st \in [0..0 -> Has] /\ st[0] = h
  OBVIOUS
<1>2. Way(h, <<>>, h, st)
  BY <1>1 DEF Way
<1> QED BY <1>1, <1>2 DEF Leads

LEMMA NoneLeadsNowhere ==
    ASSUME NEW h, NEW g, Leads(h, <<>>, g)
    PROVE  g = h
BY DEF Leads, Way

LEMMA WayTypes ==
    ASSUME NEW h, NEW es \in Seq(Effect), NEW g, Leads(h, es, g)
    PROVE  h \in Has /\ g \in Has
<1>1. Len(es) \in Nat /\ 0 \in 0..Len(es) /\ Len(es) \in 0..Len(es)
  OBVIOUS
<1> QED BY <1>1 DEF Leads, Way

LEMMA AfterType ==
    ASSUME NEW h \in Has, NEW e \in Effect, Works(h, e)
    PROVE  After(h, e) \in Has
<1>1. (IF e.do = "payCubes" THEN Subtract(h.cubes, e.amount) ELSE h.cubes) \in Amount
  <2>1. h.cubes \in Amount /\ e.amount \in Amount
    BY DEF Has, Effect
  <2>2. CASE e.do = "payCubes"
    <3>1. CanBuy(h.cubes, e.amount)
      BY <2>2 DEF Works
    <3>2. Subtract(h.cubes, e.amount) \in Amount
      BY <2>1, <3>1 DEF Amount, Subtract, CanBuy
    <3> QED BY <2>2, <3>2
  <2> QED BY <2>1, <2>2
<1>2. (IF e.do = "payCard" THEN h.cards \ {e.on} ELSE h.cards) \in SUBSET Card
  BY DEF Has
<1>3. (CASE e.do = "reload" -> h.loaded \cup {e.on}
         [] e.do = "fire" -> h.loaded \ {e.on}
         [] OTHER -> h.loaded) \in SUBSET Weapon
  BY DEF Works, Has
<1> QED BY <1>1, <1>2, <1>3 DEF After, Has

\* One effect leads on if it works.
LEMMA WayOfOne ==
    ASSUME NEW h \in Has, NEW e \in Effect, Works(h, e)
    PROVE  Leads(h, <<e>>, After(h, e))
<1> DEFINE st == [i \in 0..1 |-> IF i = 0 THEN h ELSE After(h, e)]
<1>1. Len(<<e>>) = 1 /\ <<e>>[1] = e
  OBVIOUS
<1>2. st \in [0..1 -> Has] /\ st[0] = h /\ st[1] = After(h, e)
  BY AfterType
<1> HIDE DEF st
<1>3. Way(h, <<e>>, After(h, e), st)
  BY <1>1, <1>2 DEF Way
<1> QED BY <1>1, <1>2, <1>3 DEF Leads

\* Ways are joined.
LEMMA WayOn ==
    ASSUME NEW h, NEW es \in Seq(Effect), NEW g, Leads(h, es, g),
           NEW fs \in Seq(Effect), NEW k, Leads(g, fs, k)
    PROVE  Leads(h, es \o fs, k)
<1>1. PICK st \in [0..Len(es) -> Has] : Way(h, es, g, st)
  BY DEF Leads
<1>2. PICK tt \in [0..Len(fs) -> Has] : Way(g, fs, k, tt)
  BY DEF Leads
<1> DEFINE n == Len(es)
           m == Len(fs)
           both == [i \in 0..n + m |-> IF i <= n THEN st[i] ELSE tt[i - n]]
<1>3. /\ n \in Nat /\ m \in Nat /\ Len(es \o fs) = n + m
      /\ \A i \in 1..n : (es \o fs)[i] = es[i]
      /\ \A i \in 1..m : (es \o fs)[n + i] = fs[i]
  OBVIOUS
<1>4. st[n] = tt[0] /\ st[0] = h /\ tt[m] = k
  BY <1>1, <1>2 DEF Way
<1> HIDE DEF n, m
<1>5. both \in [0..n + m -> Has]
  <2> SUFFICES ASSUME NEW i \in 0..n + m PROVE (IF i <= n THEN st[i] ELSE tt[i - n]) \in Has
    OBVIOUS
  <2>1. CASE i <= n
    BY <1>3, <2>1 DEF n
  <2>2. CASE ~(i <= n)
    <3>1. i - n \in 0..m
      BY <1>3, <2>2
    <3> QED BY <2>2, <3>1 DEF m
  <2> QED BY <2>1, <2>2
<1>6. both[0] = h /\ both[n + m] = k
  <2>1. CASE m = 0
    BY <1>3, <1>4, <2>1
  <2>2. CASE m # 0
    BY <1>3, <1>4, <2>2
  <2> QED BY <2>1, <2>2
<1>7. ASSUME NEW i \in 1..n + m
      PROVE  /\ Works(both[i - 1], (es \o fs)[i])
             /\ both[i] = After(both[i - 1], (es \o fs)[i])
  <2>1. CASE i <= n
    <3>1. i \in 1..n /\ both[i] = st[i] /\ both[i - 1] = st[i - 1]
      BY <1>3, <2>1
    <3>2. Works(st[i - 1], es[i]) /\ st[i] = After(st[i - 1], es[i])
      BY <1>1, <3>1 DEF Way, n
    <3> QED BY <1>3, <3>1, <3>2
  <2>2. CASE ~(i <= n)
    <3> DEFINE j == i - n
    <3>1. j \in 1..m /\ i = n + j /\ both[i] = tt[j]
      BY <1>3, <2>2
    <3>2. both[i - 1] = tt[j - 1]
      <4>1. CASE j = 1
        BY <1>3, <1>4, <2>2, <4>1
      <4>2. CASE j # 1
        BY <1>3, <2>2, <4>2
      <4> QED BY <4>1, <4>2
    <3> HIDE DEF j
    <3>3. Works(tt[j - 1], fs[j]) /\ tt[j] = After(tt[j - 1], fs[j])
      BY <1>2, <3>1 DEF Way, m
    <3> QED BY <1>3, <3>1, <3>2, <3>3
  <2> QED BY <2>1, <2>2
<1> HIDE DEF both
<1>8. Way(h, es \o fs, k, both)
  BY <1>3, <1>5, <1>6, <1>7 DEF Way
<1> QED BY <1>3, <1>5, <1>8 DEF Leads

\* The first effect works, and the rest lead on from what it leaves.
LEMMA WayFromFirst ==
    ASSUME NEW h, NEW es \in Seq(Effect), es # <<>>, NEW g, Leads(h, es, g)
    PROVE  Works(h, Head(es)) /\ Leads(After(h, Head(es)), Tail(es), g)
<1>1. PICK st \in [0..Len(es) -> Has] : Way(h, es, g, st)
  BY DEF Leads
<1> DEFINE n == Len(es)
           rest == [i \in 0..n - 1 |-> st[i + 1]]
<1>2. /\ n \in Nat \ {0} /\ Head(es) = es[1]
      /\ Tail(es) \in Seq(Effect) /\ Len(Tail(es)) = n - 1
      /\ \A i \in 1..n - 1 : Tail(es)[i] = es[i + 1]
  OBVIOUS
<1>3. /\ st[0] = h /\ st[n] = g
      /\ \A i \in 1..n : Works(st[i - 1], es[i]) /\ st[i] = After(st[i - 1], es[i])
  BY <1>1 DEF Way
<1> HIDE DEF n
<1>4. rest \in [0..n - 1 -> Has]
  BY <1>2 DEF n
<1>5. Works(h, Head(es)) /\ rest[0] = After(h, Head(es)) /\ rest[n - 1] = g
  <2>1. 1 \in 1..n /\ 0 \in 0..n - 1 /\ n - 1 \in 0..n - 1 /\ (n - 1) + 1 = n /\ 1 - 1 = 0
    BY <1>2
  <2>2. Works(st[0], es[1]) /\ st[1] = After(st[0], es[1])
    BY <1>3, <2>1
  <2> QED BY <1>2, <1>3, <2>1, <2>2
<1>6. ASSUME NEW i \in 1..n - 1
      PROVE  Works(rest[i - 1], Tail(es)[i]) /\ rest[i] = After(rest[i - 1], Tail(es)[i])
  <2>1. i + 1 \in 1..n /\ rest[i - 1] = st[i] /\ rest[i] = st[i + 1] /\ (i + 1) - 1 = i
    BY <1>2
  <2> QED BY <1>2, <1>3, <2>1
<1> HIDE DEF rest
<1>7. Way(After(h, Head(es)), Tail(es), g, rest)
  BY <1>2, <1>4, <1>5, <1>6 DEF Way
<1> QED BY <1>2, <1>4, <1>5, <1>7 DEF Leads

-----------------------------------------------------------------------------
(* What a sequence of effects comes to *)

\* Effects on what they are about.
GoodEffect == {e \in Effect : /\ e.do = "reload" => e.on \in Weapon
                              /\ e.do = "mode" => e.on \in Mode
                              /\ e.do = "payCard" => e.on \in Card}

Tally(v, es) == [c \in Colour |-> SumFunction([i \in DOMAIN es |-> v[es[i]][c]])]

costs == [e \in GoodEffect |-> CostOf(e)]
paids == [e \in GoodEffect |-> PaidBy(e)]

LEMMA SumSplit ==
    ASSUME NEW S, IsFiniteSet(S), NEW T, IsFiniteSet(T), S \cap T = {},
           NEW f, \A x \in S \cup T : f[x] \in Int
    PROVE  SumFunctionOnSet(f, S \cup T) = SumFunctionOnSet(f, S) + SumFunctionOnSet(f, T)
<1> DEFINE U == S \cup T
           g == [x \in U |-> IF x \in S THEN f[x] ELSE 0]
           k == [x \in U |-> IF x \in S THEN 0 ELSE f[x]]
<1>1. IsFiniteSet(U)
  BY FS_Union
<1>2. \A x \in U : g[x] \in Int /\ k[x] \in Int /\ f[x] = g[x] + k[x]
  OBVIOUS
<1>3. /\ \A x \in S : g[x] = f[x]
      /\ \A x \in T : k[x] = f[x]
      /\ \A x \in U \ S : g[x] = 0
      /\ \A x \in U \ T : k[x] = 0
      /\ S \in SUBSET U /\ T \in SUBSET U
  OBVIOUS
<1> HIDE DEF g, k, U
<1>4. SumFunctionOnSet(f, U) = SumFunctionOnSet(g, U) + SumFunctionOnSet(k, U)
  BY <1>1, <1>2, SumPlus
<1>5. SumFunctionOnSet(g, U) = SumFunctionOnSet(g, S)
  BY <1>1, <1>2, <1>3, SumOutside
<1>6. SumFunctionOnSet(k, U) = SumFunctionOnSet(k, T)
  BY <1>1, <1>2, <1>3, SumOutside
<1>7. SumFunctionOnSet(g, S) = SumFunctionOnSet(f, S)
  BY <1>3, SumEqual
<1>8. SumFunctionOnSet(k, T) = SumFunctionOnSet(f, T)
  BY <1>3, SumEqual
<1> QED BY <1>4, <1>5, <1>6, <1>7, <1>8 DEF U

LEMMA SumJoined ==
    ASSUME NEW n \in Nat, NEW m \in Nat, NEW f, \A i \in 1..n + m : f[i] \in Int
    PROVE  SumFunctionOnSet(f, 1..n + m)
             = SumFunctionOnSet(f, 1..n)
               + SumFunctionOnSet([i \in 1..m |-> f[n + i]], 1..m)
<1> DEFINE T == n + 1..n + m
           r == [i \in 1..m |-> n + i]
<1>1. IsFiniteSet(1..n) /\ IsFiniteSet(1..m) /\ IsFiniteSet(T)
  BY FS_Interval
<1>2. 1..n + m = (1..n) \cup T /\ (1..n) \cap T = {} /\ \A x \in T : f[x] \in Int
  OBVIOUS
<1>3. r \in Bijection(1..m, T)
  <2>1. r \in [1..m -> T] /\ \A i, j \in 1..m : r[i] = r[j] => i = j
    OBVIOUS
  <2>2. ASSUME NEW t \in T PROVE \E i \in 1..m : r[i] = t
    <3>1. t - n \in 1..m /\ r[t - n] = t
      OBVIOUS
    <3> QED BY <3>1
  <2> HIDE DEF r, T
  <2>3. DOMAIN r = 1..m
    BY <2>1
  <2> QED BY <2>1, <2>2, <2>3 DEF Bijection, Injection, Surjection, IsInjective
<1>4. [i \in 1..m |-> f[r[i]]] = [i \in 1..m |-> f[n + i]]
  OBVIOUS
<1> HIDE DEF r, T
<1>5. SumFunctionOnSet(f, 1..n + m) = SumFunctionOnSet(f, 1..n) + SumFunctionOnSet(f, T)
  <2>1. \A x \in (1..n) \cup T : f[x] \in Int
    BY <1>2
  <2>2. SumFunctionOnSet(f, (1..n) \cup T)
          = SumFunctionOnSet(f, 1..n) + SumFunctionOnSet(f, T)
    BY <1>1, <1>2, <2>1, SumSplit
  <2> QED BY <1>2, <2>2
<1>6. SumFunctionOnSet(f, T) = SumFunctionOnSet([i \in 1..m |-> f[r[i]]], 1..m)
  BY <1>1, <1>2, <1>3, SumBijection
<1> QED BY <1>4, <1>5, <1>6

LEMMA TallyType ==
    ASSUME NEW v \in [GoodEffect -> Amount], NEW es \in Seq(GoodEffect)
    PROVE  Tally(v, es) \in Amount
<1>1. ASSUME NEW c \in Colour PROVE SumFunction([i \in DOMAIN es |-> v[es[i]][c]]) \in Nat
  <2>1. [i \in DOMAIN es |-> v[es[i]][c]] \in [1..Len(es) -> Nat] /\ Len(es) \in Nat
    BY DEF Amount
  <2>2. IsFiniteSet(1..Len(es))
    BY <2>1, FS_Interval
  <2> QED BY <2>1, <2>2, SumOfNaturals
<1> QED BY <1>1 DEF Tally, Amount

LEMMA TallyJoined ==
    ASSUME NEW v \in [GoodEffect -> Amount],
           NEW es \in Seq(GoodEffect), NEW fs \in Seq(GoodEffect)
    PROVE  Tally(v, es \o fs) = Add(Tally(v, es), Tally(v, fs))
<1> DEFINE n == Len(es)
           m == Len(fs)
<1>1. ASSUME NEW c \in Colour
      PROVE  SumFunction([i \in DOMAIN (es \o fs) |-> v[(es \o fs)[i]][c]])
               = SumFunction([i \in DOMAIN es |-> v[es[i]][c]])
                 + SumFunction([i \in DOMAIN fs |-> v[fs[i]][c]])
  <2> DEFINE f == [i \in DOMAIN (es \o fs) |-> v[(es \o fs)[i]][c]]
             g == [i \in DOMAIN es |-> v[es[i]][c]]
             k == [i \in DOMAIN fs |-> v[fs[i]][c]]
  <2>1. /\ n \in Nat /\ m \in Nat
        /\ DOMAIN f = 1..n + m /\ DOMAIN g = 1..n /\ DOMAIN k = 1..m
    OBVIOUS
  <2>2. es \o fs \in Seq(GoodEffect) /\ Len(es \o fs) = n + m
    OBVIOUS
  <2>3. \A i \in 1..n + m : f[i] \in Int
    <3>1. \A i \in 1..n + m : (es \o fs)[i] \in GoodEffect
      BY <2>2
    <3> QED BY <2>1, <3>1 DEF Amount
  <2>4. \A i \in 1..n : g[i] = f[i]
    BY <2>1
  <2>5. k = [i \in 1..m |-> f[n + i]]
    BY <2>1
  <2> HIDE DEF f, g, k, n, m
  <2>6. SumFunctionOnSet(f, 1..n + m)
          = SumFunctionOnSet(f, 1..n) + SumFunctionOnSet([i \in 1..m |-> f[n + i]], 1..m)
    <3>1. n \in Nat /\ m \in Nat
      BY <2>1
    <3> QED BY <3>1, <2>3, SumJoined
  <2>7. SumFunctionOnSet(f, 1..n) = SumFunctionOnSet(g, 1..n)
    <3>1. IsFiniteSet(1..n)
      BY <2>1, FS_Interval
    <3>2. \A i \in 1..n : f[i] = g[i]
      BY <2>4
    <3> QED BY <3>1, <3>2, SumEqual
  <2>8. /\ SumFunction(f) = SumFunctionOnSet(f, 1..n + m)
        /\ SumFunction(g) = SumFunctionOnSet(g, 1..n)
        /\ SumFunction(k) = SumFunctionOnSet(k, 1..m)
    BY <2>1 DEF SumFunction
  <2>9. SumFunction(f) = SumFunction(g) + SumFunction(k)
    BY <2>5, <2>6, <2>7, <2>8
  <2> QED BY <2>9 DEF f, g, k
<1> QED BY <1>1 DEF Tally, Add

LEMMA TallyOne ==
    ASSUME NEW v \in [GoodEffect -> Amount], NEW e \in GoodEffect
    PROVE  Tally(v, <<e>>) = v[e]
<1>1. ASSUME NEW c \in Colour PROVE SumFunction([i \in DOMAIN <<e>> |-> v[<<e>>[i]][c]]) = v[e][c]
  <2> DEFINE f == [i \in DOMAIN <<e>> |-> v[<<e>>[i]][c]]
  <2>1. DOMAIN f = {1} /\ f[1] = v[e][c] /\ v[e][c] \in Int
    BY DEF Amount
  <2> HIDE DEF f
  <2>2. IsFiniteSet({1}) /\ IsFiniteSet({})
    BY FS_Singleton, FS_EmptySet
  <2>3. SumFunctionOnSet(f, {1}) = f[1] + SumFunctionOnSet(f, {1} \ {1})
    BY <2>1, <2>2, SumRemove
  <2>4. {1} \ {1} = {} /\ SumFunctionOnSet(f, {}) = 0
    BY <2>2, SumUnfold
  <2>5. SumFunction(f) = f[1]
    BY <2>1, <2>3, <2>4 DEF SumFunction
  <2> QED BY <2>1, <2>5 DEF f
<1>2. v[e] = [c \in Colour |-> v[e][c]]
  BY DEF Amount
<1> QED BY <1>1, <1>2 DEF Tally

LEMMA TallyNone ==
    ASSUME NEW v \in [GoodEffect -> Amount], NEW es \in Seq(GoodEffect),
           \A i \in DOMAIN es : v[es[i]] = Zero
    PROVE  Tally(v, es) = Zero
<1>1. ASSUME NEW c \in Colour PROVE SumFunction([i \in DOMAIN es |-> v[es[i]][c]]) = 0
  <2> DEFINE f == [i \in DOMAIN es |-> v[es[i]][c]]
             S == DOMAIN es
  <2>1. DOMAIN f = S /\ \A i \in S : f[i] = 0
    BY DEF Zero
  <2>2. S = 1..Len(es) /\ Len(es) \in Nat
    OBVIOUS
  <2> HIDE DEF f, S
  <2>3. IsFiniteSet(S)
    BY <2>2, FS_Interval
  <2>4. \A i \in S : f[i] \in Int
    BY <2>1
  <2>5. {} \in SUBSET S /\ \A i \in S \ {} : f[i] = 0
    BY <2>1
  <2>6. SumFunctionOnSet(f, S) = SumFunctionOnSet(f, {})
    BY <2>3, <2>4, <2>5, SumOutside
  <2>7. IsFiniteSet({})
    BY FS_EmptySet
  <2>8. SumFunctionOnSet(f, {}) = 0
    BY <2>7, SumUnfold
  <2>9. SumFunction(f) = 0
    BY <2>1, <2>6, <2>8 DEF SumFunction
  <2> QED BY <2>9 DEF f
<1> QED BY <1>1 DEF Tally, Zero

-----------------------------------------------------------------------------
(* Effects of a set of weapons or cards, in some order *)

LEMMA SeqOfSet ==
    ASSUME NEW S, IsFiniteSet(S)
    PROVE  Cardinality(S) \in Nat /\ SetToSeq(S) \in Bijection(1..Cardinality(S), S)
<1> DEFINE n == Cardinality(S)
<1>1. n \in Nat /\ ExistsBijection(1..n, S)
  BY FS_CardinalityType
<1>2. \E f \in [1..n -> S] : IsInjective(f)
  <2>1. PICK f \in Bijection(1..n, S) : TRUE
    BY <1>1 DEF ExistsBijection
  <2> QED BY <2>1 DEF Bijection, Injection
<1>3. SetToSeq(S) \in [1..n -> S] /\ IsInjective(SetToSeq(S))
  BY <1>2 DEF SetToSeq
<1>4. SetToSeq(S) \in Injection(1..n, S)
  BY <1>3 DEF Injection
<1>5. IsFiniteSet(1..n) /\ Cardinality(1..n) = n
  BY <1>1, FS_Interval
<1>6. SetToSeq(S) \in Surjection(1..n, S)
  BY <1>4, <1>5, FS_Injection
<1> QED BY <1>1, <1>4, <1>6 DEF Bijection

LEMMA TallyOfSet ==
    ASSUME NEW v \in [GoodEffect -> Amount], NEW S \in SUBSET GoodEffect, IsFiniteSet(S)
    PROVE  /\ SetToSeq(S) \in Seq(GoodEffect)
           /\ \A c \in Colour :
                 Tally(v, SetToSeq(S))[c] = SumFunctionOnSet([e \in S |-> v[e][c]], S)
<1> DEFINE n == Cardinality(S)
           r == SetToSeq(S)
<1>1. n \in Nat /\ r \in Bijection(1..n, S)
  BY SeqOfSet
<1> HIDE DEF n, r
<1>2. r \in [1..n -> S] /\ DOMAIN r = 1..n
  BY <1>1 DEF Bijection, Injection
<1>3. r \in Seq(GoodEffect)
  <2>1. r \in [1..n -> GoodEffect]
    BY <1>2
  <2> QED BY <1>1, <2>1, SeqDef
<1>4. ASSUME NEW c \in Colour
      PROVE  Tally(v, r)[c] = SumFunctionOnSet([e \in S |-> v[e][c]], S)
  <2> DEFINE f == [e \in S |-> v[e][c]]
             g == [i \in 1..n |-> f[r[i]]]
  <2>1. \A e \in S : f[e] \in Int
    BY DEF Amount
  <2>2. g = [i \in DOMAIN r |-> v[r[i]][c]] /\ DOMAIN g = 1..n
    BY <1>2
  <2> HIDE DEF f
  <2>3. IsFiniteSet(1..n)
    BY <1>1, FS_Interval
  <2>4. SumFunctionOnSet(f, S) = SumFunctionOnSet(g, 1..n)
    BY <1>1, <2>1, <2>3, SumBijection
  <2>5. SumFunction(g) = SumFunctionOnSet(g, 1..n)
    BY <2>2 DEF SumFunction
  <2> HIDE DEF g
  <2>6. Tally(v, r)[c] = SumFunction([i \in DOMAIN r |-> v[r[i]][c]])
    BY DEF Tally
  <2>7. Tally(v, r)[c] = SumFunctionOnSet(f, S)
    BY <2>2, <2>4, <2>5, <2>6
  <2> QED BY <2>7 DEF f
<1> QED BY <1>3, <1>4 DEF r

LEMMA ZeroType == Zero \in Amount
BY DEF Zero, Amount

LEMMA DoesType ==
    ASSUME NEW do \in Kind, NEW on \in Weapon \cup Mode \cup Card \cup {""},
           do = "reload" => on \in Weapon, do = "mode" => on \in Mode,
           do = "payCard" => on \in Card
    PROVE  Does(do, on) \in GoodEffect
BY ZeroType DEF Does, GoodEffect, Effect

LEMMA WorthType ==
    ASSUME NEW S \in SUBSET Card
    PROVE  Worth(S) \in Amount
<1>1. ASSUME NEW c \in Colour PROVE Cardinality({p \in S : ColourOf[p] = c}) \in Nat
  <2>1. IsFiniteSet(Card)
    BY AmmoAssumption
  <2>2. IsFiniteSet({p \in S : ColourOf[p] = c})
    BY <2>1, FS_Subset
  <2> QED BY <2>2, FS_CardinalityType
<1> QED BY <1>1 DEF Worth, Amount

LEMMA CostsType == costs \in [GoodEffect -> Amount]
<1>1. ASSUME NEW e \in GoodEffect PROVE CostOf(e) \in Amount
  BY ZeroType, ActionsAssumption DEF CostOf, GoodEffect
<1> QED BY <1>1 DEF costs

LEMMA PaidsType == paids \in [GoodEffect -> Amount]
<1>1. ASSUME NEW e \in GoodEffect PROVE PaidBy(e) \in Amount
  <2>1. CASE e.do = "payCard"
    <3>1. {e.on} \in SUBSET Card
      BY <2>1 DEF GoodEffect
    <3> QED BY <2>1, <3>1, WorthType DEF PaidBy
  <2>2. CASE e.do # "payCard"
    BY <2>2 DEF PaidBy, GoodEffect, Effect
  <2> QED BY <2>1, <2>2
<1> QED BY <1>1 DEF paids

\* The effects of one kind on a set of things, and what they sum up to.
Each(do, S) == {Does(do, w) : w \in S}
SumOfEach(v, do, S, c) == SumFunctionOnSet([w \in S |-> v[Does(do, w)][c]], S)

LEMMA SameOnEach ==
    ASSUME NEW do, NEW S, IsFiniteSet(S),
           (do = "reload" /\ S \in SUBSET Weapon) \/ (do = "payCard" /\ S \in SUBSET Card),
           NEW v \in [GoodEffect -> Amount],
           NEW es, es = SetToSeq(Each(do, S))
    PROVE  /\ es \in Seq(GoodEffect)
           /\ \A i \in DOMAIN es : \E w \in S : es[i] = Does(do, w)
           /\ \A w \in S : \E i \in DOMAIN es : es[i] = Does(do, w)
           /\ \A i, j \in DOMAIN es : es[i] = es[j] => i = j
           /\ \A c \in Colour :
                 Tally(v, es)[c] = SumOfEach(v, do, S, c)
<1> DEFINE R == {Does(do, w) : w \in S}
           r == [w \in S |-> Does(do, w)]
<1>0. es = SetToSeq(R)
  BY DEF Each
<1>1. r \in Bijection(S, R)
  <2>1. r \in [S -> R] /\ \A w, x \in S : r[w] = r[x] => w = x
    BY DEF Does
  <2>2. \A t \in R : \E w \in S : r[w] = t
    OBVIOUS
  <2> HIDE DEF r, R
  <2>3. DOMAIN r = S
    BY <2>1
  <2> QED BY <2>1, <2>2, <2>3 DEF Bijection, Injection, Surjection, IsInjective
<1>2. R \in SUBSET GoodEffect
  <2> SUFFICES ASSUME NEW w \in S PROVE Does(do, w) \in GoodEffect
    OBVIOUS
  <2> QED BY DoesType DEF Kind
<1>3. IsFiniteSet(R)
  <2>1. ExistsBijection(S, R)
    BY <1>1 DEF ExistsBijection
  <2> HIDE DEF R
  <2> QED BY <2>1, FS_Bijection
<1>4. es \in Seq(GoodEffect)
  BY <1>0, <1>2, <1>3, TallyOfSet
<1>5. /\ \A i \in DOMAIN es : es[i] \in R
      /\ \A t \in R : \E i \in DOMAIN es : es[i] = t
      /\ \A i, j \in DOMAIN es : es[i] = es[j] => i = j
  <2> HIDE DEF R
  <2>1. es \in Bijection(1..Cardinality(R), R)
    BY <1>0, <1>3, SeqOfSet
  <2>2. es \in [1..Cardinality(R) -> R] /\ DOMAIN es = 1..Cardinality(R)
    BY <2>1 DEF Bijection, Injection
  <2> QED BY <2>1, <2>2 DEF Bijection, Injection, Surjection, IsInjective
<1>6. ASSUME NEW c \in Colour
      PROVE  Tally(v, es)[c] = SumFunctionOnSet([w \in S |-> v[Does(do, w)][c]], S)
  <2> DEFINE f == [e \in R |-> v[e][c]]
  <2>1. Tally(v, es)[c] = SumFunctionOnSet(f, R)
    BY <1>0, <1>2, <1>3, TallyOfSet
  <2>2. \A e \in R : f[e] \in Int
    BY <1>2 DEF Amount
  <2>3. [w \in S |-> f[r[w]]] = [w \in S |-> v[Does(do, w)][c]]
    OBVIOUS
  <2> HIDE DEF f, R, r
  <2>4. SumFunctionOnSet(f, R) = SumFunctionOnSet([w \in S |-> f[r[w]]], S)
    BY <1>1, <1>3, <2>2, SumBijection
  <2> QED BY <2>1, <2>3, <2>4
<1>7. /\ \A i \in DOMAIN es : \E w \in S : es[i] = Does(do, w)
      /\ \A w \in S : \E i \in DOMAIN es : es[i] = Does(do, w)
  <2> QED BY <1>5
<1> QED BY <1>4, <1>5, <1>6, <1>7 DEF SumOfEach

LEMMA WorthParts ==
    ASSUME NEW S \in SUBSET Card, NEW T \in SUBSET S
    PROVE  Worth(S \ T) = Subtract(Worth(S), Worth(T)) /\ CanBuy(Worth(S), Worth(T))
<1>1. ASSUME NEW c \in Colour
      PROVE  /\ Cardinality({p \in S \ T : ColourOf[p] = c})
                  = Cardinality({p \in S : ColourOf[p] = c})
                      - Cardinality({p \in T : ColourOf[p] = c})
             /\ Cardinality({p \in T : ColourOf[p] = c})
                  <= Cardinality({p \in S : ColourOf[p] = c})
  <2> DEFINE A == {p \in S : ColourOf[p] = c}
             B == {p \in T : ColourOf[p] = c}
             D == {p \in S \ T : ColourOf[p] = c}
  <2>1. A \in SUBSET Card /\ D \in SUBSET Card /\ B \in SUBSET A /\ D = A \ B
    OBVIOUS
  <2> HIDE DEF A, B, D
  <2>2. IsFiniteSet(Card)
    BY AmmoAssumption
  <2>3. IsFiniteSet(A)
    BY <2>1, <2>2, FS_Subset
  <2>4. IsFiniteSet(B)
    BY <2>1, <2>3, FS_Subset
  <2>5. Cardinality(A \ B) = Cardinality(A) - Cardinality(A \cap B)
    BY <2>3, FS_Difference
  <2>6. A \cap B = B
    BY <2>1
  <2>7. Cardinality(B) <= Cardinality(A)
    BY <2>1, <2>3, FS_Subset
  <2> QED BY <2>1, <2>5, <2>6, <2>7 DEF A, B, D
<1> QED BY <1>1 DEF Worth, Subtract, CanBuy

\* Reloading unloaded weapons works, costs what they ask for, and takes nothing
\* by itself.
LEMMA ReloadsLead ==
    ASSUME NEW h \in Has, NEW S \in SUBSET (Weapon \ h.loaded)
    PROVE  /\ Reloads(S) \in Seq(GoodEffect)
           /\ Tally(costs, Reloads(S)) = ReloadDebt(S) /\ ReloadDebt(S) \in Amount
           /\ Tally(paids, Reloads(S)) = Zero
           /\ \E g \in Has : Leads(h, Reloads(S), g) /\ g.cubes = h.cubes /\ g.cards = h.cards
<1> DEFINE es == Reloads(S)
           n == Len(es)
<1>1. S \in SUBSET Weapon /\ IsFiniteSet(S)
  <2>1. S \in SUBSET Weapon /\ IsFiniteSet(Weapon)
    BY ActionsAssumption
  <2> QED BY <2>1, FS_Subset
<1>2. /\ es \in Seq(GoodEffect)
      /\ \A i \in DOMAIN es : \E w \in S : es[i] = Does("reload", w)
      /\ \A w \in S : \E i \in DOMAIN es : es[i] = Does("reload", w)
      /\ \A i, j \in DOMAIN es : es[i] = es[j] => i = j
      /\ \A c \in Colour :
            Tally(costs, es)[c] = SumFunctionOnSet([w \in S |-> costs[Does("reload", w)][c]], S)
  <2> DEFINE do == "reload"
  <2>2. es = SetToSeq(Each(do, S))
    BY DEF Reloads, Each
  <2> HIDE DEF do, es
  <2>3. /\ es \in Seq(GoodEffect)
        /\ \A i \in DOMAIN es : \E w \in S : es[i] = Does(do, w)
        /\ \A w \in S : \E i \in DOMAIN es : es[i] = Does(do, w)
        /\ \A i, j \in DOMAIN es : es[i] = es[j] => i = j
        /\ \A c \in Colour :
              Tally(costs, es)[c] = SumOfEach(costs, do, S, c)
    <3>1. (do = "reload" /\ S \in SUBSET Weapon) \/ (do = "payCard" /\ S \in SUBSET Card)
      BY <1>1 DEF do
    <3>2. IsFiniteSet(S)
      BY <1>1
    <3>4. costs \in [GoodEffect -> Amount]
      BY CostsType
    <3> HIDE DEF n
    <3> QED BY <2>2, <3>1, <3>2, <3>4, SameOnEach
  <2> QED BY <2>3 DEF do, SumOfEach
<1>3. Tally(costs, es) = ReloadDebt(S)
  <2>1. ASSUME NEW c \in Colour PROVE Tally(costs, es)[c] = ReloadDebt(S)[c]
    <3>1. [w \in S |-> costs[Does("reload", w)][c]] = [w \in S |-> ReloadCost[w][c]]
      <4> SUFFICES ASSUME NEW w \in S
                   PROVE  costs[Does("reload", w)][c] = ReloadCost[w][c]
        OBVIOUS
      <4>1. Does("reload", w) \in GoodEffect
        BY <1>1, DoesType DEF Kind
      <4> QED BY <4>1 DEF costs, CostOf, Does
    <3> DEFINE f == [w \in S |-> ReloadCost[w][c]]
    <3>2. DOMAIN f = S
      OBVIOUS
    <3>3. Tally(costs, es)[c] = SumFunctionOnSet(f, S)
      BY <1>2, <3>1
    <3> HIDE DEF f, es
    <3>4. Tally(costs, es)[c] = SumFunction(f)
      BY <3>2, <3>3 DEF SumFunction
    <3> QED BY <3>4 DEF f, ReloadDebt
  <2>2. Tally(costs, es) = [c \in Colour |-> Tally(costs, es)[c]]
    BY DEF Tally
  <2> HIDE DEF es
  <2> QED BY <2>1, <2>2 DEF ReloadDebt
<1>4. ReloadDebt(S) \in Amount
  BY <1>2, <1>3, CostsType, TallyType
<1>5. Tally(paids, es) = Zero
  <2>1. ASSUME NEW i \in DOMAIN es PROVE paids[es[i]] = Zero
    <3>1. PICK w \in S : es[i] = Does("reload", w)
      BY <1>2
    <3>2. es[i] \in GoodEffect
      BY <1>2
    <3> QED BY <3>1, <3>2 DEF paids, PaidBy, Does
  <2> QED BY <1>2, <2>1, PaidsType, TallyNone
<1> DEFINE done(i) == {es[j].on : j \in 1..i}
           st == [i \in 0..n |-> [cubes |-> h.cubes, cards |-> h.cards,
                                  loaded |-> h.loaded \cup done(i)]]
<1>6. n \in Nat /\ DOMAIN es = 1..n
  BY <1>2
<1>7. \A i \in 1..n : es[i].do = "reload" /\ es[i].on \in S
  <2> SUFFICES ASSUME NEW i \in 1..n PROVE es[i].do = "reload" /\ es[i].on \in S
    OBVIOUS
  <2>1. PICK w \in S : es[i] = Does("reload", w)
    BY <1>2, <1>6
  <2> QED BY <2>1 DEF Does
<1>8. h.loaded \in SUBSET Weapon /\ h.cubes \in Amount /\ h.cards \in SUBSET Card
  BY DEF Has
<1>9. st \in [0..n -> Has]
  <2> SUFFICES ASSUME NEW i \in 0..n PROVE h.loaded \cup done(i) \in SUBSET Weapon
    BY <1>8 DEF Has
  <2>1. \A j \in 1..i : es[j].on \in S
    BY <1>6, <1>7
  <2> QED BY <1>8, <2>1
<1>10. st[0] = h
  <2>1. done(0) = {}
    OBVIOUS
  <2>2. h = [cubes |-> h.cubes, cards |-> h.cards, loaded |-> h.loaded]
    BY DEF Has
  <2>3. st[0] = [cubes |-> h.cubes, cards |-> h.cards, loaded |-> h.loaded \cup done(0)]
    BY <1>6
  <2>4. h.loaded \cup done(0) = h.loaded
    BY <2>1
  <2> QED BY <2>2, <2>3, <2>4
<1>11. ASSUME NEW i \in 1..n PROVE Works(st[i - 1], es[i]) /\ st[i] = After(st[i - 1], es[i])
  <2>1. i - 1 \in 0..n /\ i \in 0..n
    BY <1>6
  <2>2. st[i - 1].loaded = h.loaded \cup done(i - 1)
    BY <2>1
  <2>3. es[i].on \notin done(i - 1)
    <3> SUFFICES ASSUME NEW j \in 1..i - 1, es[j].on = es[i].on PROVE FALSE
      OBVIOUS
    <3>1. j \in DOMAIN es /\ i \in DOMAIN es /\ i # j
      BY <1>6
    <3>2. es[i] = es[j]
      <4>1. PICK w \in S : es[i] = Does("reload", w)
        BY <1>2, <3>1
      <4>2. PICK x \in S : es[j] = Does("reload", x)
        BY <1>2, <3>1
      <4> QED BY <4>1, <4>2 DEF Does
    <3> QED BY <1>2, <3>1, <3>2
  <2>4. done(i) = done(i - 1) \cup {es[i].on}
    <3>1. 1..i = (1..i - 1) \cup {i}
      OBVIOUS
    <3> QED BY <3>1
  <2>5. es[i].do = "reload" /\ es[i].on \in Weapon /\ es[i].on \notin h.loaded
    BY <1>7
  <2>6. Works(st[i - 1], es[i])
    <3> HIDE DEF st, es, done
    <3> QED BY <2>2, <2>3, <2>5 DEF Works
  <2>7. st[i] = [cubes |-> st[i - 1].cubes, cards |-> st[i - 1].cards,
                 loaded |-> st[i - 1].loaded \cup {es[i].on}]
    BY <2>1, <2>4
  <2>8. st[i] = After(st[i - 1], es[i])
    <3> HIDE DEF st, es, done
    <3> QED BY <2>5, <2>7 DEF After
  <2> QED BY <2>6, <2>8
<1>12. st[n] \in Has /\ st[n].cubes = h.cubes /\ st[n].cards = h.cards
  <2>1. n \in 0..n
    BY <1>6
  <2> QED BY <1>9, <2>1
<1>13. Leads(h, es, st[n])
  <2> HIDE DEF st, es
  <2>1. Way(h, es, st[n], st)
    BY <1>9, <1>10, <1>11 DEF Way
  <2> QED BY <1>9, <2>1 DEF Leads
<1> HIDE DEF st
<1> QED BY <1>2, <1>3, <1>4, <1>5, <1>12, <1>13

\* Cards one has can be used, they are gone then, and they pay what they are
\* worth.
LEMMA PayCardsLead ==
    ASSUME NEW h \in Has, NEW S \in SUBSET h.cards
    PROVE  /\ PayCards(S) \in Seq(GoodEffect)
           /\ Tally(costs, PayCards(S)) = Zero
           /\ Tally(paids, PayCards(S)) = Worth(S) /\ Worth(S) \in Amount
           /\ \E g \in Has : Leads(h, PayCards(S), g) /\ g.cubes = h.cubes /\ g.cards = h.cards \ S
<1> DEFINE es == PayCards(S)
           n == Len(es)
<1>1. S \in SUBSET Card /\ IsFiniteSet(S)
  <2>1. S \in SUBSET Card
    BY DEF Has
  <2>2. IsFiniteSet(Card)
    BY AmmoAssumption
  <2> QED BY <2>1, <2>2, FS_Subset
<1>2. /\ es \in Seq(GoodEffect)
      /\ \A i \in DOMAIN es : \E w \in S : es[i] = Does("payCard", w)
      /\ \A w \in S : \E i \in DOMAIN es : es[i] = Does("payCard", w)
      /\ \A i, j \in DOMAIN es : es[i] = es[j] => i = j
      /\ \A c \in Colour :
            Tally(paids, es)[c] = SumFunctionOnSet([w \in S |-> paids[Does("payCard", w)][c]], S)
  <2> DEFINE do == "payCard"
  <2>2. es = SetToSeq(Each(do, S))
    BY DEF PayCards, Each
  <2> HIDE DEF do, es
  <2>3. /\ es \in Seq(GoodEffect)
        /\ \A i \in DOMAIN es : \E w \in S : es[i] = Does(do, w)
        /\ \A w \in S : \E i \in DOMAIN es : es[i] = Does(do, w)
        /\ \A i, j \in DOMAIN es : es[i] = es[j] => i = j
        /\ \A c \in Colour :
              Tally(paids, es)[c] = SumOfEach(paids, do, S, c)
    <3>1. (do = "reload" /\ S \in SUBSET Weapon) \/ (do = "payCard" /\ S \in SUBSET Card)
      BY <1>1 DEF do
    <3>2. IsFiniteSet(S)
      BY <1>1
    <3>4. paids \in [GoodEffect -> Amount]
      BY PaidsType
    <3> HIDE DEF n
    <3> QED BY <2>2, <3>1, <3>2, <3>4, SameOnEach
  <2> QED BY <2>3 DEF do, SumOfEach
<1>3. Tally(paids, es) = Worth(S)
  <2>1. ASSUME NEW c \in Colour PROVE Tally(paids, es)[c] = Worth(S)[c]
    <3> DEFINE f == [w \in S |-> paids[Does("payCard", w)][c]]
               C == {p \in S : ColourOf[p] = c}
    <3>1. ASSUME NEW w \in S PROVE f[w] = IF w \in C THEN 1 ELSE 0
      <4>1. Does("payCard", w) \in GoodEffect
        BY <1>1, DoesType DEF Kind
      <4>2. f[w] = Cardinality({p \in {w} : ColourOf[p] = c})
        BY <4>1 DEF paids, PaidBy, Does, Worth
      <4>3. CASE w \in C
        <5>1. {p \in {w} : ColourOf[p] = c} = {w}
          BY <4>3
        <5>2. Cardinality({w}) = 1
          BY FS_Singleton
        <5> HIDE DEF f
        <5> QED BY <4>2, <4>3, <5>1, <5>2
      <4>4. CASE w \notin C
        <5>1. {p \in {w} : ColourOf[p] = c} = {}
          BY <4>4
        <5>2. Cardinality({}) = 0
          BY FS_EmptySet
        <5> HIDE DEF f
        <5> QED BY <4>2, <4>4, <5>1, <5>2
      <4> QED BY <4>3, <4>4
    <3>2. C \in SUBSET S
      OBVIOUS
    <3>3. Tally(paids, es)[c] = SumFunctionOnSet(f, S)
      BY <1>2
    <3> HIDE DEF f, C, es
    <3>4. IsFiniteSet(C)
      BY <1>1, <3>2, FS_Subset
    <3>5. SumFunctionOnSet(f, S) = SumFunctionOnSet(f, C)
      <4>1. \A w \in S : f[w] \in Int
        BY <3>1
      <4>2. \A w \in S \ C : f[w] = 0
        BY <3>1
      <4> QED BY <1>1, <3>2, <4>1, <4>2, SumOutside
    <3>6. SumFunctionOnSet(f, C) = Cardinality(C)
      <4>1. \A w \in C : f[w] = 1
        BY <3>1, <3>2
      <4> QED BY <3>4, <4>1, SumOfOnes
    <3> QED BY <3>3, <3>5, <3>6 DEF Worth, C
  <2>2. Tally(paids, es) = [c \in Colour |-> Tally(paids, es)[c]]
    BY DEF Tally
  <2> HIDE DEF es
  <2> QED BY <2>1, <2>2 DEF Worth
<1>4. Worth(S) \in Amount
  BY <1>1, WorthType
<1>5. Tally(costs, es) = Zero
  <2>1. ASSUME NEW i \in DOMAIN es PROVE costs[es[i]] = Zero
    <3>1. PICK w \in S : es[i] = Does("payCard", w)
      BY <1>2
    <3>2. es[i] \in GoodEffect
      BY <1>2
    <3> QED BY <3>1, <3>2 DEF costs, CostOf, Does
  <2> QED BY <1>2, <2>1, CostsType, TallyNone
<1> DEFINE used(i) == {es[j].on : j \in 1..i}
           st == [i \in 0..n |-> [cubes |-> h.cubes, cards |-> h.cards \ used(i),
                                  loaded |-> h.loaded]]
<1>6. n \in Nat /\ DOMAIN es = 1..n
  BY <1>2
<1>7. \A i \in 1..n : es[i].do = "payCard" /\ es[i].on \in S
  <2> SUFFICES ASSUME NEW i \in 1..n PROVE es[i].do = "payCard" /\ es[i].on \in S
    OBVIOUS
  <2>1. PICK w \in S : es[i] = Does("payCard", w)
    BY <1>2, <1>6
  <2> QED BY <2>1 DEF Does
<1>8. h.loaded \in SUBSET Weapon /\ h.cubes \in Amount /\ h.cards \in SUBSET Card
  BY DEF Has
<1>9. st \in [0..n -> Has]
  BY <1>8 DEF Has
<1>10. st[0] = h
  <2>1. used(0) = {}
    OBVIOUS
  <2>2. h = [cubes |-> h.cubes, cards |-> h.cards, loaded |-> h.loaded]
    BY DEF Has
  <2>3. st[0] = [cubes |-> h.cubes, cards |-> h.cards \ used(0), loaded |-> h.loaded]
    BY <1>6
  <2>4. h.cards \ used(0) = h.cards
    BY <2>1
  <2> QED BY <2>2, <2>3, <2>4
<1>11. ASSUME NEW i \in 1..n PROVE Works(st[i - 1], es[i]) /\ st[i] = After(st[i - 1], es[i])
  <2>1. i - 1 \in 0..n /\ i \in 0..n
    BY <1>6
  <2>2. st[i - 1].cards = h.cards \ used(i - 1)
    BY <2>1
  <2>3. es[i].on \notin used(i - 1)
    <3> SUFFICES ASSUME NEW j \in 1..i - 1, es[j].on = es[i].on PROVE FALSE
      OBVIOUS
    <3>1. j \in DOMAIN es /\ i \in DOMAIN es /\ i # j
      BY <1>6
    <3>2. es[i] = es[j]
      <4>1. PICK w \in S : es[i] = Does("payCard", w)
        BY <1>2, <3>1
      <4>2. PICK x \in S : es[j] = Does("payCard", x)
        BY <1>2, <3>1
      <4> QED BY <4>1, <4>2 DEF Does
    <3> QED BY <1>2, <3>1, <3>2
  <2>4. used(i) = used(i - 1) \cup {es[i].on}
    <3>1. 1..i = (1..i - 1) \cup {i}
      OBVIOUS
    <3> QED BY <3>1
  <2>5. es[i].do = "payCard" /\ es[i].on \in h.cards
    BY <1>7
  <2>6. Works(st[i - 1], es[i])
    <3> HIDE DEF st, es, used
    <3> QED BY <2>2, <2>3, <2>5 DEF Works
  <2>7. st[i] = [cubes |-> st[i - 1].cubes, cards |-> st[i - 1].cards \ {es[i].on},
                 loaded |-> st[i - 1].loaded]
    BY <2>1, <2>4
  <2>8. st[i] = After(st[i - 1], es[i])
    <3> HIDE DEF st, es, used
    <3> QED BY <2>5, <2>7 DEF After
  <2> QED BY <2>6, <2>8
<1>12. st[n] \in Has /\ st[n].cubes = h.cubes /\ st[n].cards = h.cards \ used(n)
  <2>1. n \in 0..n
    BY <1>6
  <2> QED BY <1>9, <2>1
<1>13. used(n) = S
  <2>1. ASSUME NEW w \in S PROVE w \in used(n)
    <3>1. PICK i \in 1..n : es[i] = Does("payCard", w)
      BY <1>2, <1>6
    <3>2. es[i].on = w
      BY <3>1 DEF Does
    <3> QED BY <3>2
  <2>2. used(n) \subseteq S
    BY <1>7
  <2> QED BY <2>1, <2>2
<1>14. Leads(h, es, st[n])
  <2> HIDE DEF st, es
  <2>1. Way(h, es, st[n], st)
    BY <1>9, <1>10, <1>11 DEF Way
  <2> QED BY <1>9, <2>1 DEF Leads
<1> HIDE DEF st, used
<1> QED BY <1>2, <1>3, <1>4, <1>5, <1>12, <1>13, <1>14

-----------------------------------------------------------------------------
(* Plans: a Sandbox that leads from what the player has to what it shows, and *)
(* pays for what it contains up to a debt.                                    *)

Plan(h, box, owed) ==
    /\ box \in Box
    /\ box.history \in Seq(GoodEffect)
    /\ Leads(h, box.history, box.have)
    /\ Cost(box.history) = Add(Paid(box.history), owed)

\* What must hold of a debt that is asked for.
Payable(box, owed) == CanBuy(Total(box), owed) /\ Useful(box, owed) # {}

\* A message that can be answered: a debt it asks for can be paid, and the
\* others leave none.
Sound(h, m) ==
    /\ m \in Message
    /\ Plan(h, m.box, m.owed)
    /\ \/ m.ask = "pay" /\ Payable(m.box, m.owed)
       \/ m.ask # "pay" /\ m.owed = Zero

LEMMA CostIsTally ==
    ASSUME NEW es \in Seq(GoodEffect)
    PROVE  Cost(es) = Tally(costs, es) /\ Paid(es) = Tally(paids, es)
<1>1. \A i \in DOMAIN es : es[i] \in GoodEffect
  OBVIOUS
<1>2. \A i \in DOMAIN es : costs[es[i]] = CostOf(es[i]) /\ paids[es[i]] = PaidBy(es[i])
  BY <1>1 DEF costs, paids
<1>3. ASSUME NEW c \in Colour
      PROVE  /\ [i \in DOMAIN es |-> CostOf(es[i])[c]] = [i \in DOMAIN es |-> costs[es[i]][c]]
             /\ [i \in DOMAIN es |-> PaidBy(es[i])[c]] = [i \in DOMAIN es |-> paids[es[i]][c]]
  BY <1>2
<1>4. ASSUME NEW c \in Colour
      PROVE  /\ SumFunction([i \in DOMAIN es |-> CostOf(es[i])[c]])
                   = SumFunction([i \in DOMAIN es |-> costs[es[i]][c]])
             /\ SumFunction([i \in DOMAIN es |-> PaidBy(es[i])[c]])
                   = SumFunction([i \in DOMAIN es |-> paids[es[i]][c]])
  BY <1>3
<1> QED BY <1>4 DEF Cost, Paid, Tally

\* What a Sandbox shows is where its added effects lead.
LEMMA WithHave ==
    ASSUME NEW box \in Box, NEW fs \in Seq(GoodEffect), NEW g, Leads(box.have, fs, g)
    PROVE  /\ With(box, fs).have = g
           /\ With(box, fs) = [have |-> g, history |-> box.history \o fs,
                               template |-> box.template]
<1>1. fs \in Seq(Effect)
  BY DEF GoodEffect
<1>2. FoldLeft(After, box.have, fs) = g
  BY <1>1, WayFolds
<1>3. With(box, fs) = [box EXCEPT !.have = g, !.history = box.history \o fs]
  BY <1>2, Zenon DEF With
<1> QED BY <1>3 DEF Box

\* A plan stays one when effects are added that the debt accounts for.
LEMMA WithPlan ==
    ASSUME NEW h, NEW box, NEW owed \in Amount, Plan(h, box, owed),
           NEW fs \in Seq(GoodEffect), NEW g, Leads(box.have, fs, g),
           NEW left \in Amount, Add(owed, Tally(costs, fs)) = Add(Tally(paids, fs), left)
    PROVE  /\ Plan(h, With(box, fs), left)
           /\ With(box, fs).have \in Has
<1>1. fs \in Seq(Effect)
  BY DEF GoodEffect
<1>3. /\ box \in Box /\ box.history \in Seq(GoodEffect) /\ box.history \in Seq(Effect)
      /\ Leads(h, box.history, box.have)
  BY DEF Plan, GoodEffect
<1>4. g \in Has
  BY <1>1, WayTypes
<1>5. Leads(h, box.history \o fs, g)
  BY <1>1, <1>3, WayOn
<1>6. /\ With(box, fs).have = g
      /\ With(box, fs).history = box.history \o fs
      /\ With(box, fs) \in Box
  <2>1. With(box, fs) = [have |-> g, history |-> box.history \o fs, template |-> box.template]
    BY <1>3, WithHave
  <2>2. box.template \in Template \cup {<<>>} /\ box.history \o fs \in Seq(Effect)
    BY <1>1, <1>3 DEF Box
  <2> QED BY <1>4, <2>1, <2>2 DEF Box, Has
<1>7. box.history \o fs \in Seq(GoodEffect)
  BY <1>3
<1>8. Cost(box.history \o fs) = Add(Paid(box.history \o fs), left)
  <2> DEFINE C == Tally(costs, box.history)
             P == Tally(paids, box.history)
             c == Tally(costs, fs)
             p == Tally(paids, fs)
  <2>1. C \in Amount /\ P \in Amount /\ c \in Amount /\ p \in Amount
    BY <1>3, CostsType, PaidsType, TallyType
  <2>2. C = Add(P, owed)
    BY <1>3, CostIsTally DEF Plan
  <2>3. Cost(box.history \o fs) = Add(C, c) /\ Paid(box.history \o fs) = Add(P, p)
    BY <1>3, <1>7, CostIsTally, CostsType, PaidsType, TallyJoined
  <2>4. Add(owed, c) = Add(p, left)
    OBVIOUS
  <2> HIDE DEF C, P, c, p
  <2>5. ASSUME NEW a \in Colour PROVE C[a] + c[a] = (P[a] + p[a]) + left[a]
    <3>1. /\ C[a] \in Nat /\ P[a] \in Nat /\ c[a] \in Nat /\ p[a] \in Nat
          /\ owed[a] \in Nat /\ left[a] \in Nat
      BY <2>1 DEF Amount
    <3>2. C[a] = P[a] + owed[a]
      BY <2>2 DEF Add
    <3>3. owed[a] + c[a] = p[a] + left[a]
      <4>1. Add(owed, c)[a] = owed[a] + c[a] /\ Add(p, left)[a] = p[a] + left[a]
        BY DEF Add
      <4> QED BY <2>4, <4>1
    <3> QED BY <3>1, <3>2, <3>3
  <2> QED BY <2>3, <2>5 DEF Add
<1> QED BY <1>4, <1>5, <1>6, <1>7, <1>8 DEF Plan

LEMMA MsgSound ==
    ASSUME NEW h, NEW ask \in Ask, NEW box, NEW own \in Nat,
           NEW rest \in Seq({"move", "reload", "fire"}),
           NEW owed \in Amount, NEW taken \in SUBSET Mode, Plan(h, box, owed),
           (ask = "pay" /\ Payable(box, owed)) \/ (ask # "pay" /\ owed = Zero)
    PROVE  Sound(h, [ask |-> ask, box |-> box, own |-> own, rest |-> rest,
                     owed |-> owed, taken |-> taken])
<1>1. box \in Box
  BY DEF Plan
<1> QED BY <1>1 DEF Sound, Message

LEMMA ZeroAdds ==
    \A a \in Amount : Add(a, Zero) = a /\ Add(Zero, a) = a
<1> SUFFICES ASSUME NEW a \in Amount PROVE Add(a, Zero) = a /\ Add(Zero, a) = a
  OBVIOUS
<1>1. \A c \in Colour : a[c] + 0 = a[c] /\ 0 + a[c] = a[c]
  BY DEF Amount
<1> QED BY <1>1 DEF Add, Zero, Amount

\* Moves lead nowhere and cost nothing.
LEMMA MovesPlan ==
    ASSUME NEW h, NEW box, Plan(h, box, Zero), NEW n \in Nat
    PROVE  Plan(h, With(box, [k \in 1..n |-> Does("move", "")]), Zero)
<1> DEFINE es == [k \in 1..n |-> Does("move", "")]
           g == box.have
           st == [i \in 0..n |-> g]
<1>1. g \in Has
  BY DEF Plan, Box, Has
<1>2. Does("move", "") \in GoodEffect
  BY DoesType DEF Kind
<1>3. es \in Seq(GoodEffect) /\ Len(es) = n /\ DOMAIN es = 1..n
  <2>1. es \in [1..n -> GoodEffect] /\ DOMAIN es = 1..n
    BY <1>2
  <2> HIDE DEF es
  <2>2. es \in Seq(GoodEffect)
    BY <2>1, SeqDef
  <2> QED BY <2>1, <2>2
<1>4. Leads(g, es, g)
  <2>1. st \in [0..n -> Has]
    BY <1>1
  <2>2. ASSUME NEW i \in 1..n PROVE Works(st[i - 1], es[i]) /\ st[i] = After(st[i - 1], es[i])
    <3>1. st[i - 1] = g /\ st[i] = g /\ es[i] = Does("move", "")
      OBVIOUS
    <3>2. Works(g, Does("move", ""))
      BY DEF Works, Does
    <3>3. After(g, Does("move", "")) = g
      BY <1>1 DEF After, Does, Has
    <3> HIDE DEF st, es, g
    <3> QED BY <3>1, <3>2, <3>3
  <2>3. st[0] = g /\ st[n] = g
    OBVIOUS
  <2> HIDE DEF st, es, g
  <2>4. Way(g, es, g, st)
    BY <1>3, <2>1, <2>2, <2>3 DEF Way
  <2> QED BY <1>3, <2>1, <2>4 DEF Leads
<1>5. Tally(costs, es) = Zero /\ Tally(paids, es) = Zero
  <2>1. \A i \in DOMAIN es : costs[es[i]] = Zero /\ paids[es[i]] = Zero
    <3>1. costs[Does("move", "")] = Zero /\ paids[Does("move", "")] = Zero
      BY <1>2 DEF costs, paids, CostOf, PaidBy, Does
    <3> QED BY <3>1
  <2> HIDE DEF es
  <2> QED BY <1>3, <2>1, CostsType, PaidsType, TallyNone
<1> HIDE DEF es
<1>6. Zero \in Amount /\ Add(Zero, Tally(costs, es)) = Add(Tally(paids, es), Zero)
  BY <1>5, ZeroType
<1>7. Plan(h, With(box, es), Zero)
  BY <1>3, <1>4, <1>6, WithPlan
<1> QED BY <1>7 DEF es

\* What Action.iterate asks next is sound.
LEMMA IterateSound ==
    ASSUME NEW h, NEW box, Plan(h, box, Zero), NEW at \in Nat,
           NEW todo \in Seq({"move", "reload", "fire"})
    PROVE  Sound(h, Iterate(todo, box, at)) /\ Iterate(todo, box, at).own \in {0, at}
<1> DEFINE asks == {j \in DOMAIN todo : todo[j] # "move"}
           i == CHOOSE j \in asks : \A k \in asks : j <= k
           moves(n) == [k \in 1..n |-> Does("move", "")]
<1>1. Len(todo) \in Nat /\ DOMAIN todo = 1..Len(todo) /\ <<>> \in Seq({"move", "reload", "fire"})
  OBVIOUS
<1>2. CASE asks = {}
  <2> DEFINE used == With(box, moves(Len(todo)))
  <2>1. Plan(h, used, Zero)
    BY <1>1, MovesPlan
  <2>2. Iterate(todo, box, at) = [ask |-> "confirm", box |-> used, own |-> 0, rest |-> <<>>,
                                  owed |-> Zero, taken |-> {}]
    BY <1>2 DEF Iterate, Msg
  <2> HIDE DEF used
  <2>3. Sound(h, [ask |-> "confirm", box |-> used, own |-> 0, rest |-> <<>>,
                  owed |-> Zero, taken |-> {}])
    BY <1>1, <2>1, ZeroType, MsgSound DEF Ask
  <2> QED BY <2>2, <2>3
<1>3. CASE asks # {}
  <2>1. i \in asks
    <3>1. IsFiniteSet(1..Len(todo))
      BY <1>1, FS_Interval
    <3>2. asks \in SUBSET (1..Len(todo)) /\ asks \in SUBSET Int
      BY <1>1
    <3>3. IsFiniteSet(asks)
      BY <3>1, <3>2, FS_Subset
    <3> HIDE DEF asks
    <3>4. \E j \in asks : \A k \in asks : j <= k
      BY <1>3, <3>2, <3>3, LeastAndGreatest
    <3> QED BY <3>4
  <2>2. i - 1 \in Nat
    BY <1>1, <2>1
  <2> DEFINE used == With(box, moves(i - 1))
             ask == IF todo[i] = "fire" THEN "weapon" ELSE "reload"
             rest == SubSeq(todo, i + 1, Len(todo))
  <2>3. Plan(h, used, Zero)
    <3> HIDE DEF i
    <3> QED BY <2>2, MovesPlan
  <2>4. rest \in Seq({"move", "reload", "fire"})
    <3> HIDE DEF i
    <3>1. i + 1 \in 1..Len(todo) + 1
      BY <1>1, <2>1
    <3> QED BY <1>1, <3>1
  <2>5. Iterate(todo, box, at) = [ask |-> ask, box |-> used, own |-> at, rest |-> rest,
                                  owed |-> Zero, taken |-> {}]
    BY <1>3 DEF Iterate, Msg
  <2>6. ask \in Ask /\ ask # "pay"
    BY DEF Ask
  <2> HIDE DEF used, ask, rest
  <2>7. Sound(h, [ask |-> ask, box |-> used, own |-> at, rest |-> rest,
                  owed |-> Zero, taken |-> {}])
    BY <2>3, <2>4, <2>6, ZeroType, MsgSound
  <2> QED BY <2>5, <2>7
<1> QED BY <1>2, <1>3

-----------------------------------------------------------------------------
(* The client's stack *)

AllSound(h, st) ==
    /\ st \in Seq(Message)
    /\ \A j \in DOMAIN st : Sound(h, st[j]) /\ st[j].own <= j

LEMMA RolledBack ==
    ASSUME NEW h, NEW st, AllSound(h, st), NEW i \in DOMAIN st
    PROVE  AllSound(h, SubSeq(st, 1, i)) /\ Len(SubSeq(st, 1, i)) = i
<1>1. st \in Seq(Message) /\ i \in 1..Len(st)
  BY DEF AllSound
<1>2. /\ SubSeq(st, 1, i) \in Seq(Message) /\ Len(SubSeq(st, 1, i)) = i
      /\ DOMAIN SubSeq(st, 1, i) = 1..i /\ 1..i \subseteq DOMAIN st
      /\ \A j \in 1..i : SubSeq(st, 1, i)[j] = st[j]
  BY <1>1
<1> QED BY <1>2 DEF AllSound

LEMMA Pushed ==
    ASSUME NEW h, NEW st, AllSound(h, st), NEW m, Sound(h, m), m.own <= Len(st) + 1
    PROVE  AllSound(h, Append(st, m))
<1>1. st \in Seq(Message) /\ m \in Message
  BY DEF AllSound, Sound
<1>2. Append(st, m) \in Seq(Message) /\ DOMAIN Append(st, m) = 1..Len(st) + 1
  BY <1>1
<1>3. ASSUME NEW j \in 1..Len(st) + 1
      PROVE  Sound(h, Append(st, m)[j]) /\ Append(st, m)[j].own <= j
  <2>1. CASE j = Len(st) + 1
    <3>1. Append(st, m)[j] = m
      BY <1>1, <2>1
    <3> QED BY <2>1, <3>1
  <2>2. CASE j # Len(st) + 1
    <3>1. j \in DOMAIN st /\ Append(st, m)[j] = st[j]
      BY <1>1, <2>2
    <3> QED BY <3>1 DEF AllSound
  <2> QED BY <2>1, <2>2
<1> QED BY <1>2, <1>3 DEF AllSound

LEMMA Emptied ==
    ASSUME NEW h, NEW st, AllSound(h, st), NEW own \in DOMAIN st
    PROVE  /\ AllSound(h, [st EXCEPT ![own].rest = <<>>])
           /\ Len([st EXCEPT ![own].rest = <<>>]) = Len(st)
<1> DEFINE m == [st[own] EXCEPT !.rest = <<>>]
           ts == [st EXCEPT ![own] = m]
<1>1. st \in Seq(Message) /\ st[own] \in Message /\ Sound(h, st[own]) /\ st[own].own <= own
  BY DEF AllSound
<1>2. <<>> \in Seq({"move", "reload", "fire"})
  OBVIOUS
<1>3. /\ m \in Message /\ m.ask = st[own].ask /\ m.box = st[own].box
      /\ m.own = st[own].own /\ m.owed = st[own].owed
  BY <1>1, <1>2 DEF Message
<1> HIDE DEF m
<1>4. Sound(h, m) /\ m.own <= own
  BY <1>1, <1>3 DEF Sound
<1>5. /\ ts \in Seq(Message) /\ DOMAIN ts = DOMAIN st /\ Len(ts) = Len(st)
      /\ \A j \in DOMAIN st : ts[j] = IF j = own THEN m ELSE st[j]
  BY <1>1, <1>3
<1> HIDE DEF ts
<1>6. AllSound(h, ts)
  BY <1>4, <1>5 DEF AllSound
<1>7. [st EXCEPT ![own].rest = <<>>] = ts
  BY DEF ts, m
<1> QED BY <1>5, <1>6, <1>7

-----------------------------------------------------------------------------
(* The invariant: every message of the stack is sound for what the player has *)
(* in the game, and what he confirmed leads to what his Sandbox showed him.   *)
(* While he composes nothing is left to merge, so the game does not change    *)
(* under the plans of the stack.                                              *)

Own == [cubes |-> cubes, cards |-> cards, loaded |-> loaded]

OwnInv ==
    /\ cubes \in [Colour -> 0..MaxAmmo] /\ cards \subseteq Card /\ loaded \subseteq Weapon
    /\ acts \in -1..2
    /\ hit \in BOOLEAN

EffectsInv ==
    /\ effects \in Seq(GoodEffect)
    /\ Leads(Own, effects, foreseen)

Idle == stack # <<>> => effects = <<>> /\ acts >= 0

Inv == OwnInv /\ AllSound(Own, stack) /\ EffectsInv /\ Idle

LEMMA OwnHas == ASSUME OwnInv PROVE Own \in Has
BY AmmoAssumption DEF OwnInv, Own, Has, Amount

LEMMA NoneSound == \A h : AllSound(h, <<>>)
BY DEF AllSound

LEMMA StepSend ==
    ASSUME Inv, NEW i \in DOMAIN stack, NEW m, Sound(Own, m), m.own <= i + 1,
           Send(i, m), Composing
    PROVE  Inv'
<1>1. AllSound(Own, Append(Back(i), m))
  <2>1. AllSound(Own, Back(i)) /\ Len(Back(i)) = i
    BY RolledBack DEF Inv, Back
  <2> HIDE DEF Back
  <2> QED BY <2>1, Pushed
<1>2. Own' = Own /\ stack' = Append(Back(i), m) /\ effects' = effects
  BY DEF Composing, owned, Own, Send
<1>3. AllSound(Own', stack')
  BY <1>1, <1>2
<1>4. OwnInv'
  BY DEF Inv, OwnInv, Composing, owned
<1>5. EffectsInv'
  BY <1>2 DEF Inv, EffectsInv, Composing
<1>6. stack # <<>>
  BY DEF Inv, AllSound
<1>7. Idle'
  BY <1>6 DEF Inv, Idle, Composing
<1>8. AllSound(Own, stack)'
  BY <1>3
<1> QED BY <1>4, <1>5, <1>7, <1>8 DEF Inv

LEMMA StepResolve ==
    ASSUME Inv, NEW box, Plan(Own, box, Zero), NEW n \in -1..2, Resolve(box, n),
           hit' \in BOOLEAN
    PROVE  Inv'
<1>1. Own' = Own /\ stack' = <<>> /\ effects' = box.history /\ foreseen' = box.have
  BY DEF Resolve, owned, Own
<1>2. AllSound(Own, stack)'
  BY <1>1, NoneSound
<1>3. OwnInv'
  BY DEF Inv, OwnInv, Resolve, owned
<1>4. EffectsInv'
  BY <1>1 DEF EffectsInv, Plan
<1>5. Idle'
  BY <1>1 DEF Idle
<1> QED BY <1>2, <1>3, <1>4, <1>5 DEF Inv

LEMMA StepContinue ==
    ASSUME Inv, NEW i \in DOMAIN stack, NEW own \in 0..i, NEW box, Plan(Own, box, Zero),
           Continue(i, own, box)
    PROVE  Inv'
<1>1. CASE own = 0
  <2>1. Resolve(box, -1) /\ hit' = hit
    BY <1>1 DEF Continue
  <2>2. hit' \in BOOLEAN /\ -1 \in -1..2
    BY <2>1 DEF Inv, OwnInv
  <2> QED BY <2>1, <2>2, StepResolve
<1>2. CASE own # 0
  <2> DEFINE base == [Back(i) EXCEPT ![own].rest = <<>>]
             m == Iterate(stack[own].rest, box, i + 1)
  <2>1. stack' = Append(base, m) /\ Composing
    BY <1>2 DEF Continue
  <2>2. stack \in Seq(Message) /\ i \in Nat \ {0} /\ own \in 1..i /\ own \in DOMAIN stack
    BY <1>2 DEF Inv, AllSound
  <2>3. AllSound(Own, Back(i)) /\ Len(Back(i)) = i
    BY RolledBack DEF Inv, Back
  <2>4. AllSound(Own, base) /\ Len(base) = i
    <3>1. own \in DOMAIN Back(i)
      BY <2>2, <2>3 DEF AllSound
    <3> HIDE DEF Back
    <3> QED BY <2>3, <3>1, Emptied
  <2>5. stack[own].rest \in Seq({"move", "reload", "fire"})
    <3>1. stack[own] \in Message
      BY <2>2
    <3> QED BY <3>1 DEF Message
  <2>6. Sound(Own, m) /\ m.own \in {0, i + 1}
    <3>1. i + 1 \in Nat
      BY <2>2
    <3> QED BY <2>5, <3>1, IterateSound
  <2> HIDE DEF base, m
  <2>7. AllSound(Own, Append(base, m))
    <3>1. m.own <= Len(base) + 1
      BY <2>2, <2>4, <2>6
    <3> QED BY <2>4, <2>6, <3>1, Pushed
  <2>8. Own' = Own /\ effects' = effects
    BY <2>1 DEF Composing, owned, Own
  <2>9. AllSound(Own, stack)'
    BY <2>1, <2>7, <2>8
  <2>10. OwnInv'
    BY <2>1 DEF Inv, OwnInv, Composing, owned
  <2>11. EffectsInv'
    BY <2>1, <2>8 DEF Inv, EffectsInv, Composing
  <2>12. Idle'
    <3>1. stack # <<>>
      BY <2>2
    <3> QED BY <2>1, <3>1 DEF Inv, Idle, Composing
  <2> QED BY <2>9, <2>10, <2>11, <2>12 DEF Inv
<1> QED BY <1>1, <1>2

LEMMA StepProceed ==
    ASSUME Inv, NEW i \in DOMAIN stack, NEW own \in 0..i, NEW box, Plan(Own, box, Zero),
           NEW taken \in SUBSET Mode, Proceed(i, own, taken, box)
    PROVE  Inv'
<1>1. CASE taken = {}
  BY <1>1, StepContinue DEF Proceed
<1>2. CASE taken # {}
  <2> DEFINE m == [Msg("mode", box, own) EXCEPT !.taken = taken]
  <2>1. Send(i, m) /\ Composing
    BY <1>2 DEF Proceed
  <2>2. i \in Nat /\ own \in Nat /\ own <= i + 1 /\ <<>> \in Seq({"move", "reload", "fire"})
    BY DEF Inv, AllSound
  <2>3. m = [ask |-> "mode", box |-> box, own |-> own, rest |-> <<>>,
             owed |-> Zero, taken |-> taken]
    BY DEF Msg
  <2> HIDE DEF m
  <2>4. "mode" \in Ask /\ "mode" # "pay"
    BY DEF Ask
  <2>5. Sound(Own, m)
    BY <2>2, <2>3, <2>4, ZeroType, MsgSound
  <2>6. m.own <= i + 1
    BY <2>2, <2>3
  <2> QED BY <2>1, <2>5, <2>6, StepSend
<1> QED BY <1>1, <1>2

-----------------------------------------------------------------------------
(* Payments *)

\* Cards take what they are worth off a debt, and what is left can be paid if
\* the whole could.
LEMMA CardsPlan ==
    ASSUME NEW h, NEW box, NEW debt \in Amount, Plan(h, box, debt),
           NEW S \in SUBSET box.have.cards, CanBuy(debt, Worth(S)), CanBuy(Total(box), debt)
    PROVE  LET left == Subtract(debt, Worth(S))
               used == With(box, PayCards(S))
           IN /\ left \in Amount
              /\ Plan(h, used, left)
              /\ CanBuy(Total(used), left)
<1> DEFINE left == Subtract(debt, Worth(S))
           used == With(box, PayCards(S))
<1>1. box.have \in Has
  BY DEF Plan, Box, Has
<1>2. /\ PayCards(S) \in Seq(GoodEffect)
      /\ Tally(costs, PayCards(S)) = Zero
      /\ Tally(paids, PayCards(S)) = Worth(S) /\ Worth(S) \in Amount
  BY <1>1, PayCardsLead
<1>3. PICK g \in Has : /\ Leads(box.have, PayCards(S), g)
                       /\ g.cubes = box.have.cubes /\ g.cards = box.have.cards \ S
  BY <1>1, PayCardsLead
<1>4. left \in Amount
  BY <1>2 DEF Amount, Subtract, CanBuy
<1>5. Add(debt, Tally(costs, PayCards(S))) = Add(Tally(paids, PayCards(S)), left)
  <2>1. Add(debt, Zero) = debt
    BY ZeroAdds
  <2>2. \A c \in Colour : Worth(S)[c] + (debt[c] - Worth(S)[c]) = debt[c]
    BY <1>2 DEF Amount
  <2>3. Add(Worth(S), left) = debt
    BY <2>2 DEF Add, Subtract, Amount
  <2> QED BY <1>2, <2>1, <2>3
<1> HIDE DEF left
<1>6. Plan(h, used, left) /\ used.have = g
  <2>1. Plan(h, used, left)
    BY <1>2, <1>3, <1>4, <1>5, WithPlan
  <2>2. used.have = g
    BY <1>2, <1>3, WithHave DEF Plan
  <2> QED BY <2>1, <2>2
<1> HIDE DEF used
<1>7. CanBuy(Total(used), left)
  <2>1. box.have.cards \in SUBSET Card /\ box.have.cubes \in Amount
    BY <1>1 DEF Has
  <2>2. Worth(g.cards) = Subtract(Worth(box.have.cards), Worth(S)) /\ Worth(box.have.cards) \in Amount
    BY <1>3, <2>1, WorthParts, WorthType
  <2>3. ASSUME NEW c \in Colour PROVE left[c] <= Total(used)[c]
    <3> DEFINE k == box.have.cubes[c]
               w == Worth(box.have.cards)[c]
               s == Worth(S)[c]
               o == debt[c]
    <3>1. k \in Nat /\ w \in Nat /\ s \in Nat /\ o \in Nat
      BY <1>2, <2>1, <2>2 DEF Amount
    <3>2. Total(box)[c] = k + w
      BY DEF Total, Add
    <3>3. Total(used)[c] = k + (w - s)
      BY <1>3, <1>6, <2>2 DEF Total, Add, Subtract
    <3>4. left[c] = o - s
      BY DEF left, Subtract
    <3>5. o <= Total(box)[c]
      BY DEF CanBuy
    <3> HIDE DEF k, w, s, o
    <3> QED BY <3>1, <3>2, <3>3, <3>4, <3>5
  <2> QED BY <2>3 DEF CanBuy
<1>8. left \in Amount /\ Plan(h, used, left) /\ CanBuy(Total(used), left)
  BY <1>4, <1>6, <1>7
<1> QED BY <1>8 DEF left, used

\* Cubes that are enough pay a debt off.
LEMMA CubesPlan ==
    ASSUME NEW h, NEW box, NEW owed \in Amount, Plan(h, box, owed), CanBuy(box.have.cubes, owed)
    PROVE  Plan(h, With(box, <<PaysCubes(owed)>>), Zero)
<1> DEFINE e == PaysCubes(owed)
<1>1. box.have \in Has
  BY DEF Plan, Box, Has
<1>2. e \in GoodEffect /\ e \in Effect /\ e.do = "payCubes" /\ e.amount = owed
  BY DEF PaysCubes, GoodEffect, Effect, Kind
<1> HIDE DEF e
<1>3. Works(box.have, e)
  BY <1>2 DEF Works
<1>4. Leads(box.have, <<e>>, After(box.have, e))
  BY <1>1, <1>2, <1>3, WayOfOne
<1>5. Tally(costs, <<e>>) = Zero /\ Tally(paids, <<e>>) = owed
  <2>1. Tally(costs, <<e>>) = costs[e] /\ Tally(paids, <<e>>) = paids[e]
    BY <1>2, CostsType, PaidsType, TallyOne
  <2>2. costs[e] = Zero /\ paids[e] = owed
    BY <1>2 DEF costs, paids, CostOf, PaidBy
  <2> QED BY <2>1, <2>2
<1>6. <<e>> \in Seq(GoodEffect)
  BY <1>2
<1>7. Plan(h, With(box, <<e>>), Zero)
  BY <1>4, <1>5, <1>6, ZeroType, WithPlan
<1> QED BY <1>7 DEF e

\* A debt that the cubes do not cover, but cubes and cards do, has a card that is
\* of use.
LEMMA CardOfUse ==
    ASSUME NEW box \in Box, NEW debt \in Amount, CanBuy(Total(box), debt),
           ~CanBuy(box.have.cubes, debt)
    PROVE  Payable(box, debt)
<1>1. box.have.cubes \in Amount /\ box.have.cards \in SUBSET Card
  BY DEF Box
<1>2. PICK c \in Colour : ~(debt[c] <= box.have.cubes[c])
  BY DEF CanBuy
<1> DEFINE C == {p \in box.have.cards : ColourOf[p] = c}
           k == box.have.cubes[c]
           d == debt[c]
           w == Cardinality(C)
<1>3. Total(box)[c] = k + w
  BY DEF Total, Add, Worth
<1>4. d <= k + w
  <2>1. d <= Total(box)[c]
    BY DEF CanBuy
  <2> QED BY <1>3, <2>1
<1>5. k \in Nat /\ d \in Nat /\ ~(d <= k)
  BY <1>1, <1>2 DEF Amount
<1> HIDE DEF k, d
<1>6. C # {}
  <2> SUFFICES ASSUME C = {} PROVE FALSE
    OBVIOUS
  <2>1. Cardinality({}) = 0
    BY FS_EmptySet
  <2>2. w = 0
    BY <2>1
  <2> HIDE DEF w, C
  <2> QED BY <1>4, <1>5, <2>2
<1>7. PICK p \in box.have.cards : ColourOf[p] = c
  BY <1>6
<1>8. CanBuy(debt, One(ColourOf[p]))
  <2>1. ASSUME NEW a \in Colour PROVE One(c)[a] <= debt[a]
    <3>1. One(c)[a] = IF a = c THEN 1 ELSE 0
      BY DEF One, Zero
    <3>2. debt[a] \in Nat
      BY DEF Amount
    <3>3. CASE a = c
      <4>1. 1 <= d
        BY <1>5
      <4> QED BY <3>1, <3>3, <4>1 DEF d
    <3>4. CASE a # c
      BY <3>1, <3>2, <3>4
    <3> QED BY <3>3, <3>4
  <2> QED BY <1>7, <2>1 DEF CanBuy
<1>9. p \in Useful(box, debt)
  BY <1>7, <1>8 DEF Useful
<1> QED BY <1>9 DEF Payable

LEMMA StepAsksPay ==
    ASSUME Inv, NEW i \in DOMAIN stack, NEW own \in 0..i, NEW box, NEW debt \in Amount,
           Plan(Own, box, debt), Payable(box, debt), NEW played \in SUBSET Mode,
           Send(i, [Msg("pay", box, own) EXCEPT !.owed = debt, !.taken = played]), Composing
    PROVE  Inv'
<1> DEFINE m == [Msg("pay", box, own) EXCEPT !.owed = debt, !.taken = played]
<1>1. i \in Nat /\ own \in Nat /\ own <= i + 1 /\ <<>> \in Seq({"move", "reload", "fire"})
  BY DEF Inv, AllSound
<1>2. m = [ask |-> "pay", box |-> box, own |-> own, rest |-> <<>>,
           owed |-> debt, taken |-> played]
  <2>1. PICK r : r = [Msg("pay", box, own) EXCEPT !.owed = debt]
    OBVIOUS
  <2>2. r = [ask |-> "pay", box |-> box, own |-> own, rest |-> <<>>,
             owed |-> debt, taken |-> {}]
    BY <2>1 DEF Msg
  <2>3. m = [r EXCEPT !.taken = played]
    BY <2>1
  <2> HIDE DEF m
  <2> QED BY <2>2, <2>3
<1> HIDE DEF m
<1>3. "pay" \in Ask
  BY DEF Ask
<1>4. Sound(Own, m)
  BY <1>1, <1>2, <1>3, MsgSound
<1>5. m.own <= i + 1
  BY <1>1, <1>2
<1>6. Send(i, m)
  BY DEF m
<1> QED BY <1>4, <1>5, <1>6, StepSend

LEMMA StepSettle ==
    ASSUME Inv, NEW i \in DOMAIN stack, NEW own \in 0..i, NEW box, NEW owed \in Amount,
           Plan(Own, box, owed), CanBuy(Total(box), owed), NEW taken \in SUBSET Mode,
           NEW S \in SUBSET box.have.cards, CanBuy(owed, Worth(S)),
           Settle(i, own, taken, box, owed, S)
    PROVE  Inv'
<1> DEFINE left == Subtract(owed, Worth(S))
           used == With(box, PayCards(S))
<1>1. left \in Amount /\ Plan(Own, used, left) /\ CanBuy(Total(used), left)
  BY CardsPlan
<1>2. \/ left = Zero /\ Proceed(i, own, taken, used)
      \/ CanBuy(used.have.cubes, left) /\ Proceed(i, own, taken, With(used, <<PaysCubes(left)>>))
      \/ /\ left # Zero /\ ~CanBuy(used.have.cubes, left)
         /\ Send(i, [Msg("pay", used, own) EXCEPT !.owed = left, !.taken = taken])
         /\ Composing
  BY Zenon DEF Settle
<1> HIDE DEF left, used
<1>3. CASE left = Zero /\ Proceed(i, own, taken, used)
  <2>1. Plan(Own, used, Zero)
    BY <1>1, <1>3
  <2> QED BY <1>3, <2>1, StepProceed
<1>4. CASE CanBuy(used.have.cubes, left) /\ Proceed(i, own, taken, With(used, <<PaysCubes(left)>>))
  <2>1. Plan(Own, With(used, <<PaysCubes(left)>>), Zero)
    BY <1>1, <1>4, CubesPlan
  <2> QED BY <1>4, <2>1, StepProceed
<1>5. CASE /\ left # Zero /\ ~CanBuy(used.have.cubes, left)
           /\ Send(i, [Msg("pay", used, own) EXCEPT !.owed = left, !.taken = taken])
           /\ Composing
  <2>1. used \in Box
    BY <1>1 DEF Plan
  <2>2. Payable(used, left)
    BY <1>1, <1>5, <2>1, CardOfUse
  <2> QED BY <1>1, <1>5, <2>2, StepAsksPay
<1> QED BY <1>2, <1>3, <1>4, <1>5

LEMMA WorthNone == Worth({}) = Zero
<1>1. ASSUME NEW c \in Colour PROVE Cardinality({p \in {} : ColourOf[p] = c}) = 0
  <2>1. {p \in {} : ColourOf[p] = c} = {}
    OBVIOUS
  <2>2. Cardinality({}) = 0
    BY FS_EmptySet
  <2> QED BY <2>1, <2>2
<1> QED BY <1>1 DEF Worth, Zero

LEMMA StepAskPay ==
    ASSUME Inv, NEW i \in DOMAIN stack, NEW own \in 0..i, NEW box, NEW owed \in Amount,
           Plan(Own, box, owed), CanBuy(Total(box), owed), NEW taken \in SUBSET Mode,
           AskPay(i, own, taken, box, owed)
    PROVE  Inv'
<1>1. CASE Useful(box, owed) = {}
  <2>1. Settle(i, own, taken, box, owed, {})
    BY <1>1 DEF AskPay
  <2>2. CanBuy(owed, Worth({}))
    BY WorthNone DEF CanBuy, Zero, Amount
  <2>3. {} \in SUBSET box.have.cards
    OBVIOUS
  <2> QED BY <2>1, <2>2, <2>3, StepSettle
<1>2. CASE Useful(box, owed) # {}
  <2>1. /\ Send(i, [Msg("pay", box, own) EXCEPT !.owed = owed, !.taken = taken])
        /\ Composing
    BY <1>2 DEF AskPay
  <2>2. Payable(box, owed)
    BY <1>2 DEF Payable
  <2> QED BY <2>1, <2>2, StepAsksPay
<1> QED BY <1>1, <1>2

-----------------------------------------------------------------------------
(* The actions *)

\* An effect that works and pays nothing adds what it costs to the debt.
LEMMA OnePlan ==
    ASSUME NEW h, NEW box, Plan(h, box, Zero), NEW e \in GoodEffect, Works(box.have, e),
           PaidBy(e) = Zero
    PROVE  /\ Plan(h, With(box, <<e>>), CostOf(e)) /\ CostOf(e) \in Amount
           /\ With(box, <<e>>).have = After(box.have, e)
<1>1. box \in Box /\ box.have \in Has /\ e \in Effect /\ <<e>> \in Seq(GoodEffect)
  BY DEF Plan, Box, Has, GoodEffect
<1>2. Leads(box.have, <<e>>, After(box.have, e))
  BY <1>1, WayOfOne
<1>3. costs[e] = CostOf(e) /\ paids[e] = Zero /\ costs[e] \in Amount
  BY CostsType DEF costs, paids
<1>4. Tally(costs, <<e>>) = CostOf(e) /\ Tally(paids, <<e>>) = Zero
  BY <1>3, CostsType, PaidsType, TallyOne
<1>5. Add(Zero, Tally(costs, <<e>>)) = Add(Tally(paids, <<e>>), CostOf(e))
  BY <1>4
<1>6. Plan(h, With(box, <<e>>), CostOf(e))
  BY <1>1, <1>2, <1>3, <1>5, ZeroType, WithPlan
<1>7. With(box, <<e>>).have = After(box.have, e)
  BY <1>1, <1>2, WithHave
<1> QED BY <1>3, <1>6, <1>7

\* What answering a message may start from.
LEMMA Answered ==
    ASSUME Inv, NEW i \in DOMAIN stack
    PROVE  /\ stack[i] \in Message /\ Sound(Own, stack[i]) /\ stack[i].own \in 0..i
           /\ stack[i].ask # "pay" => stack[i].owed = Zero /\ Plan(Own, stack[i].box, Zero)
           /\ i \in Nat /\ stack[i].box \in Box /\ stack[i].box.have \in Has
<1>1. stack[i] \in Message /\ Sound(Own, stack[i]) /\ stack[i].own <= i /\ i \in Nat
  BY DEF Inv, AllSound
<1>2. stack[i].own \in Nat /\ stack[i].box \in Box
  BY <1>1 DEF Message
<1>3. stack[i].box.have \in Has
  BY <1>2 DEF Box, Has
<1>4. ASSUME stack[i].ask # "pay" PROVE stack[i].owed = Zero /\ Plan(Own, stack[i].box, Zero)
  BY <1>1, <1>4 DEF Sound
<1>5. stack[i].own \in 0..i
  BY <1>1, <1>2
<1> QED BY <1>1, <1>2, <1>3, <1>4, <1>5

LEMMA StepPickBundle ==
    ASSUME Inv, NEW i \in DOMAIN stack, PickBundle(i)
    PROVE  Inv'
<1> DEFINE box == stack[i].box
<1>1. PICK t \in Template : Send(i, Iterate(t, [box EXCEPT !.template = t], i + 1))
  BY DEF PickBundle
<1>2. stack[i].ask = "menu" /\ Composing
  BY DEF PickBundle
<1>3. Plan(Own, box, Zero) /\ i \in Nat /\ box \in Box
  BY <1>2, Answered
<1>4. t \in Seq({"move", "reload", "fire"})
  BY ActionsAssumption
<1> HIDE DEF box
<1> DEFINE b == [box EXCEPT !.template = t]
<1>5. b \in Box /\ b.history = box.history /\ b.have = box.have
  BY <1>3 DEF Box
<1> HIDE DEF b
<1>6. Plan(Own, b, Zero)
  BY <1>3, <1>5 DEF Plan
<1> DEFINE m == Iterate(t, b, i + 1)
<1>7. Sound(Own, m) /\ m.own \in {0, i + 1}
  BY <1>3, <1>4, <1>6, IterateSound
<1>8. Send(i, m)
  BY <1>1 DEF b
<1> HIDE DEF m
<1>9. m.own <= i + 1
  BY <1>3, <1>7
<1> QED BY <1>2, <1>7, <1>8, <1>9, StepSend

LEMMA StepPickReload ==
    ASSUME Inv, NEW i \in DOMAIN stack, PickReload(i)
    PROVE  Inv'
<1> DEFINE m == stack[i]
           box == m.box
<1>1. m.ask = "reload"
  BY DEF PickReload
<1>2. /\ Plan(Own, box, Zero) /\ m.own \in 0..i /\ box \in Box /\ box.have \in Has
  BY <1>1, Answered
<1>3. PICK S \in SUBSET (Weapon \ box.have.loaded) :
          IF S = {} THEN Continue(i, m.own, box)
          ELSE /\ CanBuy(Total(box), ReloadDebt(S))
               /\ AskPay(i, m.own, {}, With(box, Reloads(S)), ReloadDebt(S))
  BY DEF PickReload
<1> HIDE DEF m, box
<1>4. CASE S = {}
  BY <1>2, <1>3, <1>4, StepContinue
<1>5. CASE S # {}
  <2>1. /\ CanBuy(Total(box), ReloadDebt(S))
        /\ AskPay(i, m.own, {}, With(box, Reloads(S)), ReloadDebt(S))
    BY <1>3, <1>5
  <2>2. /\ Reloads(S) \in Seq(GoodEffect)
        /\ Tally(costs, Reloads(S)) = ReloadDebt(S) /\ ReloadDebt(S) \in Amount
        /\ Tally(paids, Reloads(S)) = Zero
    BY <1>2, ReloadsLead
  <2>3. PICK g \in Has : /\ Leads(box.have, Reloads(S), g)
                         /\ g.cubes = box.have.cubes /\ g.cards = box.have.cards
    BY <1>2, ReloadsLead
  <2>4. Add(Zero, Tally(costs, Reloads(S))) = Add(Tally(paids, Reloads(S)), ReloadDebt(S))
    BY <2>2
  <2>5. Plan(Own, With(box, Reloads(S)), ReloadDebt(S))
    BY <1>2, <2>2, <2>3, <2>4, ZeroType, WithPlan
  <2>6. With(box, Reloads(S)).have = g
    BY <1>2, <2>2, <2>3, WithHave
  <2>7. CanBuy(Total(With(box, Reloads(S))), ReloadDebt(S))
    <3>1. Total(With(box, Reloads(S))) = Total(box)
      BY <2>3, <2>6 DEF Total
    <3> QED BY <2>1, <3>1
  <2>8. {} \in SUBSET Mode
    OBVIOUS
  <2> QED BY <1>2, <2>1, <2>2, <2>5, <2>7, <2>8, StepAskPay
<1> QED BY <1>4, <1>5

LEMMA StepPickPay ==
    ASSUME Inv, NEW i \in DOMAIN stack, PickPay(i)
    PROVE  Inv'
<1> DEFINE m == stack[i]
<1>1. PICK S \in SUBSET Useful(m.box, m.owed) :
          CanBuy(m.owed, Worth(S)) /\ Settle(i, m.own, m.taken, m.box, m.owed, S)
  BY DEF PickPay
<1>2. m.ask = "pay"
  BY DEF PickPay
<1>3. m \in Message /\ Sound(Own, m) /\ m.own \in 0..i
  BY Answered
<1> HIDE DEF m
<1>4. m.taken \in SUBSET Mode /\ m.owed \in Amount
  BY <1>3 DEF Message
<1>5. Plan(Own, m.box, m.owed) /\ CanBuy(Total(m.box), m.owed)
  BY <1>2, <1>3 DEF Sound, Payable
<1>6. S \in SUBSET m.box.have.cards
  BY DEF Useful
<1> QED BY <1>1, <1>3, <1>4, <1>5, <1>6, StepSettle

LEMMA StepPickWeapon ==
    ASSUME Inv, NEW i \in DOMAIN stack, PickWeapon(i)
    PROVE  Inv'
<1> DEFINE box == stack[i].box
           own == stack[i].own
<1>1. PICK w \in box.have.loaded : Send(i, Msg("mode", With(box, <<Does("fire", w)>>), own))
  BY DEF PickWeapon
<1>2. stack[i].ask = "weapon" /\ Composing
  BY DEF PickWeapon
<1>3. Plan(Own, box, Zero) /\ own \in 0..i /\ i \in Nat /\ box.have \in Has
  BY <1>2, Answered
<1> HIDE DEF box, own
<1> DEFINE e == Does("fire", w)
<1>4. w \in Weapon
  BY <1>3 DEF Has
<1>5. e \in GoodEffect /\ e.do = "fire" /\ e.on = w /\ e.amount = Zero
  <2>1. e \in GoodEffect
    BY <1>4, DoesType DEF Kind
  <2> QED BY <2>1 DEF Does
<1> HIDE DEF e
<1>6. Works(box.have, e) /\ PaidBy(e) = Zero /\ CostOf(e) = Zero
  BY <1>5 DEF Works, PaidBy, CostOf
<1>7. Plan(Own, With(box, <<e>>), Zero)
  <2>1. Plan(Own, With(box, <<e>>), CostOf(e))
    BY <1>3, <1>5, <1>6, OnePlan
  <2> QED BY <1>6, <2>1
<1> DEFINE used == With(box, <<e>>)
           n == Msg("mode", used, own)
<1>8. n = [ask |-> "mode", box |-> used, own |-> own, rest |-> <<>>,
           owed |-> Zero, taken |-> {}]
  BY DEF Msg
<1>9. Send(i, n)
  BY <1>1 DEF e
<1> HIDE DEF n, used
<1>10. /\ Plan(Own, used, Zero) /\ "mode" \in Ask /\ "mode" # "pay" /\ own \in Nat
       /\ <<>> \in Seq({"move", "reload", "fire"}) /\ {} \in SUBSET Mode
  BY <1>3, <1>7 DEF Ask, used
<1>11. Sound(Own, n)
  BY <1>8, <1>10, ZeroType, MsgSound
<1>12. n.own <= i + 1
  BY <1>3, <1>8
<1> QED BY <1>2, <1>9, <1>11, <1>12, StepSend

LEMMA StepPickMode ==
    ASSUME Inv, NEW i \in DOMAIN stack, PickMode(i)
    PROVE  Inv'
<1> DEFINE m == stack[i]
           box == m.box
<1>1. PICK a \in Available(box, m.taken) :
          AskPay(i, m.own, m.taken \cup {a}, With(box, <<Does("mode", a)>>), ModeCost[a])
  BY DEF PickMode
<1>2. m.ask = "mode"
  BY DEF PickMode
<1>3. Plan(Own, box, Zero) /\ m.own \in 0..i /\ box.have \in Has /\ m \in Message
  BY <1>2, Answered
<1> HIDE DEF m, box
<1>4. a \in Mode /\ CanBuy(Limit(Total(box)), ModeCost[a])
  BY DEF Available
<1>5. m.taken \cup {a} \in SUBSET Mode
  BY <1>3, <1>4 DEF Message
<1>6. ModeCost[a] \in Amount
  BY <1>4, ActionsAssumption
<1>7. CanBuy(Total(box), ModeCost[a])
  <2>1. box.have.cubes \in Amount /\ Worth(box.have.cards) \in Amount
    BY <1>3, WorthType DEF Has
  <2>2. Total(box) \in Amount
    BY <2>1 DEF Total, Add, Amount
  <2> DEFINE t == Total(box)
             k == ModeCost[a]
  <2>3. t \in Amount /\ k \in Amount /\ CanBuy(Limit(t), k)
    BY <1>4, <1>6, <2>2
  <2> HIDE DEF t, k
  <2>4. CanBuy(t, k)
    BY <2>3, AmmoAssumption DEF CanBuy, Limit, Amount
  <2> QED BY <2>4 DEF t, k
<1> DEFINE e == Does("mode", a)
<1>8. e \in GoodEffect /\ e.do = "mode" /\ e.on = a /\ e.amount = Zero
  <2>1. e \in GoodEffect
    BY <1>4, DoesType DEF Kind
  <2> QED BY <2>1 DEF Does
<1>9. AskPay(i, m.own, m.taken \cup {a}, With(box, <<e>>), ModeCost[a])
  BY <1>1
<1> HIDE DEF e
<1>10. Works(box.have, e) /\ PaidBy(e) = Zero /\ CostOf(e) = ModeCost[a]
  BY <1>8 DEF Works, PaidBy, CostOf
<1>11. Plan(Own, With(box, <<e>>), CostOf(e)) /\ With(box, <<e>>).have = After(box.have, e)
  BY <1>3, <1>8, <1>10, OnePlan
<1>12. Total(With(box, <<e>>)) = Total(box)
  <2>1. After(box.have, e).cubes = box.have.cubes /\ After(box.have, e).cards = box.have.cards
    BY <1>8 DEF After
  <2> QED BY <1>11, <2>1 DEF Total
<1>13. Plan(Own, With(box, <<e>>), ModeCost[a]) /\ CanBuy(Total(With(box, <<e>>)), ModeCost[a])
  BY <1>7, <1>10, <1>11, <1>12
<1> QED BY <1>3, <1>5, <1>6, <1>9, <1>13, StepAskPay

LEMMA StepStop ==
    ASSUME Inv, NEW i \in DOMAIN stack, Stop(i)
    PROVE  Inv'
<1>1. stack[i].ask = "mode" /\ Continue(i, stack[i].own, stack[i].box)
  BY DEF Stop
<1>2. Plan(Own, stack[i].box, Zero) /\ stack[i].own \in 0..i
  BY <1>1, Answered
<1> QED BY <1>1, <1>2, StepContinue

LEMMA StepConfirm ==
    ASSUME Inv, NEW i \in DOMAIN stack, Confirm(i)
    PROVE  Inv'
<1>1. stack[i].ask = "confirm" /\ Resolve(stack[i].box, acts - 1)
  BY DEF Confirm
<1>2. Plan(Own, stack[i].box, Zero)
  BY <1>1, Answered
<1>3. hit' \in BOOLEAN
  BY DEF Confirm
<1>4. acts - 1 \in -1..2
  <2>1. stack # <<>>
    BY DEF Inv, AllSound
  <2> QED BY <2>1 DEF Inv, OwnInv, Idle
<1> QED BY <1>1, <1>2, <1>3, <1>4, StepResolve

LEMMA StepUsePowerup ==
    ASSUME Inv, UsePowerup
    PROVE  Inv'
<1>1. PICK p \in Offered \ Scope :
          /\ cards' = cards \ {p}
          /\ foreseen' = [cubes |-> cubes, cards |-> cards', loaded |-> loaded]
  BY DEF UsePowerup
<1>2. /\ stack' = <<>> /\ stack # <<>> /\ effects' = effects
      /\ cubes' = cubes /\ loaded' = loaded /\ acts' = acts /\ hit' = hit
  BY DEF UsePowerup, InMenu
<1>3. OwnInv'
  BY <1>1, <1>2 DEF Inv, OwnInv
<1>4. AllSound(Own, stack)'
  BY <1>2, NoneSound
<1>5. effects' = <<>> /\ foreseen' = Own'
  <2>1. effects = <<>>
    BY <1>2 DEF Inv, Idle
  <2> QED BY <1>1, <1>2, <2>1 DEF Own
<1>6. Leads(Own', <<>>, Own')
  <2>1. (Own \in Has)'
    BY <1>3, OwnHas, PTL
  <2> QED BY <2>1, WayOfNone
<1>7. EffectsInv'
  BY <1>5, <1>6 DEF EffectsInv
<1>8. Idle'
  BY <1>2 DEF Idle
<1> QED BY <1>3, <1>4, <1>7, <1>8 DEF Inv

LEMMA StepUseScope ==
    ASSUME Inv, UseScope
    PROVE  Inv'
<1> DEFINE Pays(p) == {Does("payCard", q) : q \in cards \ {p}}
                        \cup {PaysCubes(One(c)) : c \in {d \in Colour : cubes[d] > 0}}
<1>1. PICK p \in Offered \cap Scope : \E e \in Pays(p) :
          /\ cards' = cards \ {p}
          /\ effects' = <<e>>
          /\ foreseen' = After([cubes |-> cubes, cards |-> cards', loaded |-> loaded], e)
  BY DEF UseScope
<1>2. PICK e \in Pays(p) :
          /\ cards' = cards \ {p}
          /\ effects' = <<e>>
          /\ foreseen' = After([cubes |-> cubes, cards |-> cards', loaded |-> loaded], e)
  BY <1>1
<1>3. /\ stack' = <<>>
      /\ cubes' = cubes /\ loaded' = loaded /\ acts' = acts /\ hit' = hit
  BY DEF UseScope
<1>4. OwnInv'
  BY <1>2, <1>3 DEF Inv, OwnInv
<1>5. AllSound(Own, stack)'
  BY <1>3, NoneSound
<1>6. PICK k : k = Own'
  OBVIOUS
<1>7. k \in Has
  <2>1. (Own \in Has)'
    BY <1>4, OwnHas, PTL
  <2> QED BY <1>6, <2>1
<1>8. k.cubes = cubes /\ k.cards = cards \ {p} /\ foreseen' = After(k, e)
  BY <1>2, <1>3, <1>6 DEF Own
<1>9. e \in GoodEffect /\ Works(k, e)
  <2>1. CASE e \in {Does("payCard", q) : q \in cards \ {p}}
    <3>1. PICK q \in cards \ {p} : e = Does("payCard", q)
      BY <2>1
    <3>2. q \in Card
      BY <3>1 DEF Inv, OwnInv
    <3>3. Does("payCard", q) \in GoodEffect
      BY <3>2, DoesType DEF Kind
    <3>4. e.do = "payCard" /\ e.on = q
      BY <3>1 DEF Does
    <3> QED BY <1>8, <3>1, <3>3, <3>4 DEF Works
  <2>2. CASE e \in {PaysCubes(One(c)) : c \in {d \in Colour : cubes[d] > 0}}
    <3>1. PICK c \in Colour : cubes[c] > 0 /\ e = PaysCubes(One(c))
      BY <2>2
    <3>2. cubes \in [Colour -> Nat]
      BY AmmoAssumption DEF Inv, OwnInv
    <3>3. One(c) \in Amount
      BY DEF One, Zero, Amount
    <3>4. CanBuy(cubes, One(c))
      <4>1. ASSUME NEW d \in Colour PROVE One(c)[d] <= cubes[d]
        <5>1. One(c)[d] = IF d = c THEN 1 ELSE 0
          BY DEF One, Zero
        <5>2. cubes[d] \in Nat
          BY <3>2
        <5>3. CASE d = c
          BY <3>1, <5>1, <5>2, <5>3
        <5>4. CASE d # c
          BY <5>1, <5>2, <5>4
        <5> QED BY <5>3, <5>4
      <4> QED BY <4>1 DEF CanBuy
    <3>5. e \in GoodEffect /\ e.do = "payCubes" /\ e.amount = One(c)
      BY <3>1, <3>3 DEF PaysCubes, GoodEffect, Effect, Kind
    <3> QED BY <1>8, <3>4, <3>5 DEF Works
  <2> QED BY <2>1, <2>2
<1>10. Leads(k, <<e>>, After(k, e)) /\ <<e>> \in Seq(GoodEffect)
  <2>1. e \in Effect
    BY <1>9 DEF GoodEffect
  <2> QED BY <1>7, <1>9, <2>1, WayOfOne
<1>11. EffectsInv'
  BY <1>2, <1>6, <1>8, <1>10 DEF EffectsInv
<1>12. Idle'
  BY <1>3 DEF Idle
<1> QED BY <1>4, <1>5, <1>11, <1>12 DEF Inv

LEMMA StepMergeEffect ==
    ASSUME Inv, MergeEffect
    PROVE  Inv'
<1> DEFINE e == Head(effects)
<1>1. /\ effects # <<>> /\ effects' = Tail(effects)
      /\ acts' = acts /\ hit' = hit /\ stack' = stack /\ foreseen' = foreseen
  BY DEF MergeEffect
<1>2. /\ effects \in Seq(GoodEffect) /\ effects \in Seq(Effect)
      /\ e \in GoodEffect /\ e \in Effect /\ Tail(effects) \in Seq(GoodEffect)
  BY <1>1 DEF Inv, EffectsInv, GoodEffect
<1>3. Works(Own, e) /\ Leads(After(Own, e), Tail(effects), foreseen)
  BY <1>1, <1>2, WayFromFirst DEF Inv, EffectsInv
<1>4. Own \in Has /\ OwnInv
  BY OwnHas DEF Inv
<1>5. cubes \in [Colour -> 0..MaxAmmo] /\ MaxAmmo \in Nat /\ e.amount \in Amount
  BY <1>2, <1>4, AmmoAssumption DEF OwnInv, Effect
<1> HIDE DEF e
<1>6. /\ cubes' = IF e.do = "payCubes" THEN Limit(Subtract(cubes, e.amount)) ELSE cubes
      /\ cards' = IF e.do = "payCard" THEN cards \ {e.on} ELSE cards
      /\ loaded' = CASE e.do = "reload" -> loaded \cup {e.on}
                     [] e.do = "fire" -> loaded \ {e.on}
                     [] OTHER -> loaded
  BY DEF MergeEffect, e
<1>7. CASE e.do = "payCubes"
  <2>1. CanBuy(cubes, e.amount)
    BY <1>3, <1>7 DEF Works, Own
  <2>2. Subtract(cubes, e.amount) \in [Colour -> 0..MaxAmmo]
    BY <1>5, <2>1 DEF Subtract, CanBuy, Amount
  <2>3. Limit(Subtract(cubes, e.amount)) = Subtract(cubes, e.amount)
    BY <1>5, <2>2 DEF Limit
  <2>4. cubes' = Subtract(cubes, e.amount) /\ cards' = cards /\ loaded' = loaded
    BY <1>6, <1>7, <2>3
  <2>5. Own' = After(Own, e)
    BY <1>7, <2>4 DEF Own, After
  <2>6. OwnInv'
    BY <1>1, <1>4, <2>2, <2>4 DEF OwnInv
  <2> QED BY <1>1, <2>5, <2>6, <1>2, <1>3, NoneSound DEF Inv, EffectsInv, Idle
<1>8. CASE e.do # "payCubes"
  <2>1. cubes' = cubes
    BY <1>6, <1>8
  <2>2. Own' = After(Own, e)
    BY <1>6, <1>8, <2>1 DEF Own, After
  <2>3. After(Own, e) \in Has
    BY <1>2, <1>3, <1>4, AfterType
  <2>4. cards' \subseteq Card /\ loaded' \subseteq Weapon
    BY <2>2, <2>3 DEF Own, Has
  <2>5. OwnInv'
    BY <1>1, <1>4, <2>1, <2>4 DEF OwnInv
  <2> QED BY <1>1, <2>2, <2>5, <1>2, <1>3, NoneSound DEF Inv, EffectsInv, Idle
<1> QED BY <1>7, <1>8

LEMMA MenuSound ==
    ASSUME NEW h \in Has, NEW n \in 0..2
    PROVE  AllSound(h, Menu(h, n)) /\ Menu(h, n) # <<>>
<1> DEFINE box == NewBox(h)
           ask == IF n > 0 THEN "menu" ELSE "reload"
<1>1. box \in Box /\ box.history = <<>> /\ box.have = h
  BY DEF NewBox, Box, Has
<1> HIDE DEF box
<1>2. <<>> \in Seq(GoodEffect)
  OBVIOUS
<1>3. Cost(<<>>) = Add(Paid(<<>>), Zero)
  <2>1. Tally(costs, <<>>) = Zero /\ Tally(paids, <<>>) = Zero
    <3>1. \A i \in DOMAIN <<>> : costs[<<>>[i]] = Zero /\ paids[<<>>[i]] = Zero
      OBVIOUS
    <3>2. PICK es : es = <<>>
      OBVIOUS
    <3>3. es \in Seq(GoodEffect) /\ \A i \in DOMAIN es : costs[es[i]] = Zero /\ paids[es[i]] = Zero
      BY <1>2, <3>1, <3>2
    <3>4. Tally(costs, es) = Zero
      BY <3>3, CostsType, TallyNone
    <3>5. Tally(paids, es) = Zero
      BY <3>3, PaidsType, TallyNone
    <3> QED BY <3>2, <3>4, <3>5
  <2>2. Cost(<<>>) = Zero /\ Paid(<<>>) = Zero
    BY <1>2, <2>1, CostIsTally
  <2> QED BY <2>2, ZeroAdds, ZeroType
<1>4. Plan(h, box, Zero)
  BY <1>1, <1>2, <1>3, WayOfNone DEF Plan
<1>5. ask \in Ask /\ ask # "pay" /\ 0 \in Nat /\ {} \in SUBSET Mode
      /\ <<>> \in Seq({"move", "reload", "fire"})
  BY DEF Ask
<1> HIDE DEF ask
<1> DEFINE m == [ask |-> ask, box |-> box, own |-> 0, rest |-> <<>>, owed |-> Zero, taken |-> {}]
<1>6. Sound(h, m)
  BY <1>4, <1>5, ZeroType, MsgSound
<1>7. m.own = 0
  OBVIOUS
<1>8. Menu(h, n) = <<m>>
  BY DEF Menu, Msg, ask, box
<1> HIDE DEF m
<1>9. m \in Message
  BY <1>6 DEF Sound
<1>10. AllSound(h, <<m>>) /\ <<m>> # <<>>
  BY <1>6, <1>7, <1>9 DEF AllSound
<1> QED BY <1>8, <1>10

LEMMA StepNextMenu ==
    ASSUME Inv, NextMenu
    PROVE  Inv'
<1>1. /\ effects = <<>> /\ acts >= 0 /\ stack' = Menu(Own, acts)
      /\ Own' = Own /\ acts' = acts /\ effects' = effects /\ foreseen' = foreseen
  BY DEF NextMenu, owned, Own
<1>2. OwnInv'
  BY DEF Inv, OwnInv, NextMenu, owned
<1>3. Own \in Has /\ acts \in 0..2
  BY <1>1, OwnHas DEF Inv, OwnInv
<1>4. AllSound(Own, Menu(Own, acts))
  BY <1>3, MenuSound
<1>5. AllSound(Own, stack)'
  BY <1>1, <1>4
<1>6. EffectsInv'
  BY <1>1 DEF Inv, EffectsInv
<1>7. Idle'
  BY <1>1 DEF Idle
<1> QED BY <1>2, <1>5, <1>6, <1>7 DEF Inv

-----------------------------------------------------------------------------
(* The theorems *)

LEMMA InitInv == Init => Inv
<1> SUFFICES ASSUME Init PROVE Inv
  OBVIOUS
<1>1. OwnInv /\ acts \in 0..2
  <2>1. cubes \in [Colour -> 0..MaxAmmo] /\ cards \subseteq Card /\ loaded \subseteq Weapon
    BY DEF Init
  <2>2. acts \in -1..2 /\ acts \in 0..2
    BY DEF Init
  <2>3. hit \in BOOLEAN
    BY DEF Init
  <2> QED BY <2>1, <2>2, <2>3 DEF OwnInv
<1>2. Own \in Has /\ foreseen = Own /\ effects = <<>> /\ stack = Menu(Own, acts)
  BY <1>1, OwnHas DEF Init, Own
<1>3. AllSound(Own, stack)
  BY <1>1, <1>2, MenuSound
<1>4. EffectsInv
  BY <1>2, WayOfNone DEF EffectsInv
<1>5. Idle
  BY <1>1, <1>2 DEF Idle
<1> QED BY <1>1, <1>3, <1>4, <1>5 DEF Inv

LEMMA NextInv == Inv /\ [Next]_vars => Inv'
<1> SUFFICES ASSUME Inv, [Next]_vars PROVE Inv'
  OBVIOUS
<1>1. ASSUME NEW i \in DOMAIN stack,
             \/ PickBundle(i) \/ PickReload(i) \/ PickPay(i) \/ PickWeapon(i)
             \/ PickMode(i) \/ Stop(i) \/ Confirm(i)
      PROVE  Inv'
  BY <1>1, StepPickBundle, StepPickReload, StepPickPay, StepPickWeapon, StepPickMode,
     StepStop, StepConfirm
<1>2. CASE UsePowerup
  BY <1>2, StepUsePowerup
<1>3. CASE UseScope
  BY <1>3, StepUseScope
<1>4. CASE MergeEffect
  BY <1>4, StepMergeEffect
<1>5. CASE NextMenu
  BY <1>5, StepNextMenu
<1>6. CASE UNCHANGED vars
  <2>1. /\ cubes' = cubes /\ cards' = cards /\ loaded' = loaded /\ acts' = acts /\ hit' = hit
        /\ stack' = stack /\ effects' = effects /\ foreseen' = foreseen
    BY <1>6 DEF vars, owned
  <2>2. OwnInv' /\ Idle' /\ Own' = Own
    BY <2>1 DEF Inv, OwnInv, Idle, Own
  <2>3. AllSound(Own, stack)' /\ EffectsInv'
    BY <2>1, <2>2 DEF Inv, EffectsInv
  <2> QED BY <2>2, <2>3 DEF Inv
<1> QED BY <1>1, <1>2, <1>3, <1>4, <1>5, <1>6 DEF Next

LEMMA AlwaysInv == Spec => []Inv
BY InitInv, NextInv, PTL DEF Spec

LEMMA InvSound ==
    ASSUME Inv, NEW i \in DOMAIN stack
    PROVE  /\ stack[i] \in Message /\ stack[i].own <= i
           /\ Cost(stack[i].box.history) = Add(Paid(stack[i].box.history), stack[i].owed)
           /\ stack[i].ask = "pay" => /\ CanBuy(Total(stack[i].box), stack[i].owed)
                                     /\ Useful(stack[i].box, stack[i].owed) # {}
BY DEF Inv, AllSound, Sound, Plan, Payable

\* Every message on the client's stack, what is merged and what is foreseen
\* have their types: no effect is about nothing, no amount goes below zero.
THEOREM TypeCorrect == Spec => []TypeOK
<1>1. ASSUME Inv PROVE TypeOK
  <2>1. OwnInv /\ effects \in Seq(GoodEffect) /\ Leads(Own, effects, foreseen)
    BY <1>1 DEF Inv, EffectsInv
  <2>2. effects \in Seq(Effect)
    BY <2>1 DEF GoodEffect
  <2>3. foreseen \in Has
    BY <2>1, <2>2, WayTypes
  <2>4. \A i \in DOMAIN stack : stack[i] \in Message /\ stack[i].own <= i
    BY <1>1, InvSound
  <2> QED BY <2>1, <2>2, <2>3, <2>4 DEF TypeOK, OwnInv, Has
<1> QED BY <1>1, AlwaysInv, PTL

\* Whatever the player goes back to and answers otherwise, every plan he can
\* still go on with pays for what it contains, once, up to what it is asked for.
THEOREM PlansPay == Spec => []PaidExactly
<1>1. ASSUME Inv PROVE PaidExactly
  BY <1>1, InvSound DEF PaidExactly
<1> QED BY <1>1, AlwaysInv, PTL

\* Neither composing nor merging a plan comes to a point where it cannot go on:
\* what is asked for can be paid, and each effect finds what it needs.
THEOREM GoesOn == Spec => []NeverStuck
<1>1. ASSUME Inv PROVE PaymentPossible
  BY <1>1, InvSound DEF PaymentPossible
<1>2. ASSUME Inv PROVE MergesSucceed
  <2> SUFFICES ASSUME effects # <<>>
               PROVE  LET e == Head(effects) IN
                      /\ e.do = "reload" => e.on \notin loaded
                      /\ e.do = "fire" => e.on \in loaded
                      /\ e.do = "payCard" => e.on \in cards
                      /\ e.do = "payCubes" => CanBuy(cubes, e.amount)
    BY DEF MergesSucceed
  <2>1. effects \in Seq(Effect) /\ Leads(Own, effects, foreseen)
    BY <1>2 DEF Inv, EffectsInv, GoodEffect
  <2>2. Works(Own, Head(effects))
    BY <2>1, WayFromFirst
  <2> QED BY <2>2 DEF Works, Own
<1>3. Inv => NeverStuck
  BY <1>1, <1>2 DEF NeverStuck
<1> QED BY <1>3, AlwaysInv, PTL

\* When everything is merged the player has what the Sandbox showed him.
THEOREM ShownIsKept == Spec => []PlanKept
<1>1. ASSUME Inv PROVE PlanKept
  <2> SUFFICES ASSUME effects = <<>>
               PROVE  foreseen = [cubes |-> cubes, cards |-> cards, loaded |-> loaded]
    BY DEF PlanKept
  <2>1. Leads(Own, <<>>, foreseen)
    BY <1>1 DEF Inv, EffectsInv
  <2>2. foreseen = Own
    BY <2>1, NoneLeadsNowhere
  <2> QED BY <2>2 DEF Own
<1> QED BY <1>1, AlwaysInv, PTL
=============================================================================
