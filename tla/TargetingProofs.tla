--------------------------- MODULE TargetingProofs ---------------------------
(***************************************************************************)
(* Proofs about Targeting, for every map, every player and control point,  *)
(* and every weapon that is put together as those of the game are.         *)
(***************************************************************************)
EXTENDS Targeting, Sums, SequenceTheorems, TLAPS

-----------------------------------------------------------------------------
(* The library folds over a sequence by a recursive function on the sets of *)
(* its indices, the greatest index last.  There are three folds here: over  *)
(* targeters, over the effects of an action, and over the history of a      *)
(* Sandbox.                                                                 *)

StepOf(by, v, e) ==
    CASE by = "targeters" -> ResolveAll(v, e)
      [] by = "effects" -> Spawn(v, e)
      [] by = "history" -> Move(v, e)

FoldStep(by, h, es, it, s) == IF s = {} THEN h ELSE StepOf(by, it[s \ {Max(s)}], es[Max(s)])

GivesFolds(by, h, es, S, it) == it = [s \in SUBSET S |-> FoldStep(by, h, es, it, s)]

AllFolds(by, h, es, S) == CHOOSE it : GivesFolds(by, h, es, S, it)

FoldOf(by, h, es) == AllFolds(by, h, es, DOMAIN es)[DOMAIN es]

LEMMA FoldLeftIs ==
    \A h, es : /\ FoldLeft(ResolveAll, h, es) = FoldOf("targeters", h, es)
               /\ FoldLeft(Spawn, h, es) = FoldOf("effects", h, es)
               /\ FoldLeft(Move, h, es) = FoldOf("history", h, es)
BY DEF FoldLeft, MapThenFoldSet, FoldOf, AllFolds, GivesFolds, FoldStep, StepOf

\* I is a finite set of integers, as the indices of a sequence are.
Indices(I) == IsFiniteSet(I) /\ I \subseteq Int

LEMMA IndicesFinite == ASSUME NEW n \in Nat PROVE Indices(1..n)
<1>1. IsFiniteSet(1..n)
  BY FS_Interval
<1> QED BY <1>1 DEF Indices

LEMMA GreatestIndex ==
    ASSUME NEW I, Indices(I), NEW s \in SUBSET I, s # {}
    PROVE  Max(s) \in s /\ \A i \in s : i <= Max(s)
<1>1. IsFiniteSet(s)
  BY FS_Subset DEF Indices
<1>2. s \in SUBSET Int
  BY DEF Indices
<1>3. \E m \in s : \A x \in s : m >= x
  BY <1>1, <1>2, LeastAndGreatest
<1>4. \E m \in s : \A x \in s : x <= m
  BY <1>2, <1>3
<1> QED
  BY <1>4 DEF Max

\* A nonempty set of sets of indices has a smallest member.
LEMMA SmallestIndices ==
    ASSUME NEW I, Indices(I), NEW Bad \in SUBSET SUBSET I, Bad # {}
    PROVE  \E T \in Bad : \A U \in SUBSET T : U # T => U \notin Bad
<1>1. IsFiniteSet(I)
  BY DEF Indices
<1> QED BY <1>1, SmallestSet

\* Two families of folds agree on the sets they have in common.
LEMMA FoldsAgree ==
    ASSUME NEW by, NEW h, NEW es, NEW I, Indices(I), NEW T1 \in SUBSET I, NEW T2 \in SUBSET I,
           NEW f, NEW g, GivesFolds(by, h, es, T1, f), GivesFolds(by, h, es, T2, g)
    PROVE  \A s \in SUBSET (T1 \cap T2) : f[s] = g[s]
<1> DEFINE Bad == {s \in SUBSET (T1 \cap T2) : f[s] # g[s]}
<1> SUFFICES ASSUME Bad # {} PROVE FALSE
  OBVIOUS
<1>1. PICK s \in Bad : \A U \in SUBSET s : U # s => U \notin Bad
  <2>1. Bad \in SUBSET SUBSET I
    OBVIOUS
  <2> HIDE DEF Bad
  <2> QED BY <2>1, SmallestIndices
<1>2. f[s] = FoldStep(by, h, es, f, s) /\ g[s] = FoldStep(by, h, es, g, s)
  BY DEF GivesFolds
<1>3. CASE s = {}
  BY <1>2, <1>3 DEF FoldStep
<1>4. CASE s # {}
  <2>1. Max(s) \in s
    BY <1>4, GreatestIndex
  <2>2. f[s \ {Max(s)}] = g[s \ {Max(s)}]
    BY <1>1, <2>1
  <2> QED BY <1>2, <1>4, <2>2 DEF FoldStep
<1> QED BY <1>3, <1>4

\* So the fold over a subset does not depend on the set it is taken from.
LEMMA FoldsBelow ==
    ASSUME NEW by, NEW h, NEW es, NEW I, Indices(I), NEW T \in SUBSET I, NEW U \in SUBSET T,
           NEW f, NEW g, GivesFolds(by, h, es, T, f), GivesFolds(by, h, es, U, g)
    PROVE  f[U] = g[U]
<1>1. U \in SUBSET I
  OBVIOUS
<1>2. \A s \in SUBSET (T \cap U) : f[s] = g[s]
  BY ONLY Indices(I), T \in SUBSET I, <1>1,
          GivesFolds(by, h, es, T, f), GivesFolds(by, h, es, U, g), FoldsAgree
<1>3. U \in SUBSET (T \cap U)
  OBVIOUS
<1> QED BY <1>2, <1>3

\* There are folds over the sets of indices.
LEMMA FoldsExist ==
    ASSUME NEW by, NEW h, NEW es, NEW I, Indices(I)
    PROVE  \A T \in SUBSET I : GivesFolds(by, h, es, T, AllFolds(by, h, es, T))
<1> DEFINE Bad == {T \in SUBSET I : ~ \E it : GivesFolds(by, h, es, T, it)}
<1>1. SUFFICES Bad = {}
  BY DEF AllFolds
<1> SUFFICES ASSUME Bad # {} PROVE FALSE
  OBVIOUS
<1>2. PICK T \in Bad : \A U \in SUBSET T : U # T => U \notin Bad
  <2>1. Bad \in SUBSET SUBSET I
    OBVIOUS
  <2> HIDE DEF Bad
  <2> QED BY <2>1, SmallestIndices
<1>3. \A U \in SUBSET T : U # T => GivesFolds(by, h, es, U, AllFolds(by, h, es, U))
  BY <1>2 DEF AllFolds
<1> DEFINE below == [U \in SUBSET T |-> AllFolds(by, h, es, U)[U]]
           it == [s \in SUBSET T |-> FoldStep(by, h, es, below, s)]
<1>4. ASSUME NEW s \in SUBSET T, s # T PROVE it[s] = below[s]
  <2>1. GivesFolds(by, h, es, s, AllFolds(by, h, es, s))
    BY <1>3, <1>4
  <2>2. below[s] = FoldStep(by, h, es, AllFolds(by, h, es, s), s)
    BY <2>1 DEF GivesFolds
  <2>3. CASE s = {}
    BY <2>2, <2>3 DEF FoldStep
  <2>4. CASE s # {}
    <3> DEFINE r == s \ {Max(s)}
    <3>1. Max(s) \in s
      BY <2>4, GreatestIndex
    <3>2. r \in SUBSET T /\ r # T /\ r \in SUBSET s /\ r \in SUBSET I /\ s \in SUBSET I
      BY <3>1
    <3>3. GivesFolds(by, h, es, r, AllFolds(by, h, es, r))
      BY <1>3, <3>2
    <3>4. AllFolds(by, h, es, s)[r] = AllFolds(by, h, es, r)[r]
      <4> HIDE DEF r, below, it, Bad
      <4>1. s \in SUBSET I
        BY <3>2
      <4>2. r \in SUBSET s
        BY <3>2
      <4> QED BY <2>1, <3>3, <4>1, <4>2, FoldsBelow
    <3>5. below[r] = AllFolds(by, h, es, s)[r]
      BY <3>2, <3>4
    <3> QED BY <2>2, <3>5, <2>4 DEF FoldStep
  <2> QED BY <2>3, <2>4
<1>5. ASSUME NEW s \in SUBSET T PROVE it[s] = FoldStep(by, h, es, it, s)
  <2>1. CASE s = {}
    BY <2>1 DEF FoldStep
  <2>2. CASE s # {}
    <3>1. Max(s) \in s
      BY <2>2, GreatestIndex
    <3>2. it[s \ {Max(s)}] = below[s \ {Max(s)}]
      BY <3>1, <1>4
    <3> HIDE DEF below
    <3> QED BY <2>2, <3>2 DEF FoldStep
  <2> QED BY <2>1, <2>2
<1>6. GivesFolds(by, h, es, T, it)
  <2> HIDE DEF it
  <2>1. DOMAIN it = SUBSET T /\ it = [s \in SUBSET T |-> it[s]]
    BY DEF it
  <2> QED BY <1>5, <2>1 DEF GivesFolds
<1> QED BY <1>6

\* st is what comes of h step by step along the sequence.
Chain(by, h, es, st) ==
    /\ st = [i \in 0..Len(es) |-> st[i]]
    /\ st[0] = h
    /\ \A i \in 1..Len(es) : st[i] = StepOf(by, st[i - 1], es[i])

\* The least of some natural numbers.
LEMMA LeastNat ==
    ASSUME NEW S \in SUBSET Nat, S # {}
    PROVE  \E m \in S : \A x \in S : m <= x
<1>1. PICK n \in S : TRUE
  OBVIOUS
<1> DEFINE T == S \cap 0..n
<1>2. T \in SUBSET Int /\ T # {}
  BY <1>1
<1>3. IsFiniteSet(0..n)
  BY <1>1, FS_Interval
<1>4. IsFiniteSet(T)
  BY <1>3, FS_Subset
<1>5. \E m \in T : \A x \in T : m <= x
  <2> HIDE DEF T
  <2> QED BY <1>2, <1>4, LeastAndGreatest
<1> QED BY <1>5, <1>1

\* A fold has a chain.
LEMMA FoldHasChain ==
    ASSUME NEW by, NEW h, NEW S, NEW es \in Seq(S)
    PROVE  \E st : Chain(by, h, es, st) /\ FoldOf(by, h, es) = st[Len(es)]
<1> DEFINE n == Len(es)
           it == AllFolds(by, h, es, 1..n)
           st == [i \in 0..n |-> it[1..i]]
<1>1. n \in Nat /\ DOMAIN es = 1..n
  BY LenProperties
<1>2. GivesFolds(by, h, es, 1..n, it)
  <2>1. Indices(1..n) /\ 1..n \in SUBSET (1..n)
    BY <1>1, IndicesFinite
  <2> HIDE DEF it, n
  <2> QED BY <2>1, FoldsExist DEF it
<1> HIDE DEF it, n
<1>3. \A s \in SUBSET (1..n) : it[s] = FoldStep(by, h, es, it, s)
  BY <1>2 DEF GivesFolds
<1>4. st[0] = h
  <2>1. it[{}] = h
    BY <1>3 DEF FoldStep
  <2>2. 1..0 = {} /\ 0 \in 0..n
    BY <1>1
  <2> QED BY <2>1, <2>2
<1>5. ASSUME NEW i \in 1..n PROVE st[i] = StepOf(by, st[i - 1], es[i])
  <2>1. 1..i \in SUBSET (1..n) /\ i \in 1..i /\ 1..i # {} /\ i - 1 \in 0..n /\ i \in 0..n
    BY <1>1
  <2>2. Max(1..i) \in 1..i /\ \A j \in 1..i : j <= Max(1..i)
    <3>1. Indices(1..i) /\ 1..i \in SUBSET (1..i)
      BY <1>1, IndicesFinite
    <3> QED BY <2>1, <3>1, GreatestIndex
  <2>3. Max(1..i) = i
    BY <2>1, <2>2
  <2>4. (1..i) \ {i} = 1..i - 1
    BY <1>1
  <2>5. it[1..i] = StepOf(by, it[1..i - 1], es[i])
    BY <1>3, <2>1, <2>3, <2>4 DEF FoldStep
  <2> QED BY <2>1, <2>5
<1>6. FoldOf(by, h, es) = st[n]
  <2>1. n \in 0..n
    BY <1>1
  <2> QED BY <1>1, <2>1 DEF FoldOf, it
<1>7. Chain(by, h, es, st)
  <2>1. st = [i \in 0..n |-> st[i]]
    OBVIOUS
  <2> HIDE DEF st
  <2> QED BY <1>4, <1>5, <2>1 DEF Chain, n
<1> QED BY <1>6, <1>7 DEF n

\* There is only one.
LEMMA ChainsAgree ==
    ASSUME NEW by, NEW h, NEW S, NEW es \in Seq(S), NEW st, NEW tt,
           Chain(by, h, es, st), Chain(by, h, es, tt)
    PROVE  st[Len(es)] = tt[Len(es)]
<1> DEFINE Bad == {i \in 0..Len(es) : st[i] # tt[i]}
<1>1. Len(es) \in Nat
  BY LenProperties
<1>2. Bad = {}
  <2> SUFFICES ASSUME Bad # {} PROVE FALSE
    OBVIOUS
  <2>1. Bad \in SUBSET Nat
    BY <1>1
  <2>2. PICK m \in Bad : \A x \in Bad : m <= x
    <3> HIDE DEF Bad
    <3> QED BY <2>1, LeastNat
  <2>3. m # 0 /\ m \in 1..Len(es) /\ m - 1 \in 0..Len(es)
    BY <1>1 DEF Chain
  <2>4. st[m - 1] = tt[m - 1]
    BY <1>1, <2>2, <2>3
  <2> QED BY <2>3, <2>4 DEF Chain
<1> QED BY <1>1, <1>2

-----------------------------------------------------------------------------
(* The map *)

\* What is next to a tile is another tile.
LEMMA NearIsTile ==
    ASSUME NEW t, NEW logical, NEW u \in Near(t, logical)
    PROVE  u \in Tile
BY DEF Near, Neighbors, Range

LEMMA NearIsOther ==
    ASSUME NEW t \in Tile, NEW logical
    PROVE  t \notin Near(t, logical)
<1>1. \A d \in Direction : t + Diff[d] # t
  BY BoardAssumption DEF Direction, Diff, Tile
<1> QED BY <1>1 DEF Near, Neighbors, Range

\* From a tile one sees the rooms next to it, and its own only across another tile
\* of it, which every tile has at its side that is not alone.
LEMMA SeenFromTile ==
    ASSUME NEW s \in Tile, NEW t \in Tile
    PROVE  t \in TilesSeen(s)
             <=> t \in Visible(s) /\ ~(t = s /\ InRoom(Room[t]) = {t})
<1>1. CASE t \in TilesSeen(s)
  <2>1. t \in Visible(s)
    BY <1>1 DEF TilesSeen, Visible
  <2>2. ASSUME t = s, InRoom(Room[t]) = {t} PROVE FALSE
    <3>1. PICK u \in Near(s, TRUE) : t \in InRoom(Room[u])
      BY <1>1 DEF TilesSeen
    <3>2. u \in InRoom(Room[t])
      BY <3>1, NearIsTile DEF InRoom
    <3> QED BY <2>2, <3>1, <3>2, NearIsOther
  <2> QED BY <1>1, <2>1, <2>2
<1>2. CASE t \notin TilesSeen(s) /\ t \in Visible(s)
  <2>1. t \in InRoom(Room[s]) /\ s \in InRoom(Room[s])
    BY <1>2 DEF TilesSeen, Visible, InRoom
  <2>2. ASSUME InRoom(Room[s]) # {s} PROVE FALSE
    <3>1. {s} \in SUBSET InRoom(Room[s]) /\ {s} # {}
      BY <2>1
    <3>2. Near(s, TRUE) \cap (InRoom(Room[s]) \ {s}) # {}
      BY <2>2, <3>1, RoomsConnected DEF InRoom
    <3>3. PICK u \in InRoom(Room[s]) : u \in Near(s, TRUE)
      BY <3>2
    <3>4. t \in InRoom(Room[u])
      BY <2>1, <3>3 DEF InRoom
    <3> QED BY <1>2, <3>3, <3>4 DEF TilesSeen
  <2> QED BY <1>2, <2>1, <2>2
<1>3. CASE t \notin TilesSeen(s) /\ t \notin Visible(s)
  BY <1>3
<1> QED BY <1>1, <1>2, <1>3

-----------------------------------------------------------------------------
(* Circles *)

DiscStep(c, logical, disc, r) ==
    IF r = -1 THEN {}
    ELSE IF r = 0 THEN {c}
    ELSE disc[r - 1] \cup UNION {Near(t, logical) : t \in disc[r - 1] \ disc[r - 2]}

GivesDiscs(c, logical, n, disc) == disc = [r \in -1..n |-> DiscStep(c, logical, disc, r)]

Discs(c, logical, n) == CHOOSE disc : GivesDiscs(c, logical, n, disc)

LEMMA CircleIs ==
    \A c, n, logical : Circle(c, n, logical) = IF n < 0 THEN {} ELSE Discs(c, logical, n)[n]
BY DEF Circle, Discs, GivesDiscs, DiscStep

\* There are discs up to every radius.
LEMMA DiscsExist ==
    ASSUME NEW c, NEW logical
    PROVE  \A n \in Nat : GivesDiscs(c, logical, n, Discs(c, logical, n))
<1> DEFINE Bad == {n \in Nat : ~ \E disc : GivesDiscs(c, logical, n, disc)}
<1>1. SUFFICES Bad = {}
  BY DEF Discs
<1> SUFFICES ASSUME Bad # {} PROVE FALSE
  OBVIOUS
<1>2. PICK n \in Bad : \A m \in Bad : n <= m
  <2>1. Bad \in SUBSET Nat
    OBVIOUS
  <2> HIDE DEF Bad
  <2> QED BY <2>1, LeastNat
<1>3. n \in Nat /\ ~ \E disc : GivesDiscs(c, logical, n, disc)
  OBVIOUS
<1>4. \E old : \A r \in -1..n - 1 : old[r] = DiscStep(c, logical, old, r)
  <2>1. CASE n = 0
    <3> DEFINE old == [r \in {-1} |-> {}]
    <3>1. -1..n - 1 = {-1}
      BY <2>1
    <3>2. \A r \in -1..n - 1 : old[r] = DiscStep(c, logical, old, r)
      BY <3>1 DEF DiscStep
    <3> QED BY <3>2
  <2>2. CASE n # 0
    <3>1. n - 1 \in Nat
      BY <1>3, <2>2
    <3>2. n - 1 \notin Bad
      BY <1>2, <1>3
    <3>3. PICK old : GivesDiscs(c, logical, n - 1, old)
      BY <3>1, <3>2
    <3>4. \A r \in -1..n - 1 : old[r] = DiscStep(c, logical, old, r)
      BY <3>3 DEF GivesDiscs
    <3> QED BY <3>4
  <2> QED BY <2>1, <2>2
<1>5. PICK old : \A r \in -1..n - 1 : old[r] = DiscStep(c, logical, old, r)
  BY <1>4
<1> HIDE DEF Bad
<1> DEFINE disc == [r \in -1..n |-> DiscStep(c, logical, old, r)]
<1>6. \A r \in -1..n - 1 : disc[r] = old[r]
  BY <1>3, <1>5
<1>7. ASSUME NEW r \in -1..n PROVE disc[r] = DiscStep(c, logical, disc, r)
  <2>1. CASE r \in {-1, 0}
    BY <2>1 DEF DiscStep
  <2>2. CASE r \notin {-1, 0}
    <3>1. r - 1 \in -1..n - 1 /\ r - 2 \in -1..n - 1
      BY <1>3, <2>2
    <3>2. disc[r - 1] = old[r - 1] /\ disc[r - 2] = old[r - 2]
      BY <1>6, <3>1
    <3>3. disc[r] = DiscStep(c, logical, old, r)
      OBVIOUS
    <3> HIDE DEF disc
    <3> QED BY <2>2, <3>2, <3>3 DEF DiscStep
  <2> QED BY <2>1, <2>2
<1>8. GivesDiscs(c, logical, n, disc)
  <2>1. DOMAIN disc = -1..n /\ disc = [r \in -1..n |-> disc[r]]
    OBVIOUS
  <2> HIDE DEF disc
  <2> QED BY <1>7, <2>1 DEF GivesDiscs
<1> QED BY <1>3, <1>8

\* A disc around a tile consists of tiles.
LEMMA DiscsAreTiles ==
    ASSUME NEW c \in Tile, NEW logical, NEW n \in Nat, NEW disc,
           GivesDiscs(c, logical, n, disc)
    PROVE  \A r \in -1..n : disc[r] \subseteq Tile
<1> DEFINE Bad == {m \in Nat : m - 1 \in -1..n /\ ~(disc[m - 1] \subseteq Tile)}
<1>1. Bad = {}
  <2> SUFFICES ASSUME Bad # {} PROVE FALSE
    OBVIOUS
  <2>1. PICK m \in Bad : \A x \in Bad : m <= x
    <3>1. Bad \in SUBSET Nat
      OBVIOUS
    <3> HIDE DEF Bad
    <3> QED BY <3>1, LeastNat
  <2>2. m \in Nat /\ m - 1 \in -1..n /\ ~(disc[m - 1] \subseteq Tile)
    OBVIOUS
  <2>3. disc[m - 1] = DiscStep(c, logical, disc, m - 1)
    BY <2>2 DEF GivesDiscs
  <2>4. m # 0 /\ m # 1
    BY <2>2, <2>3 DEF DiscStep
  <2>5. m - 1 \in Nat /\ (m - 1) - 1 \in -1..n
    BY <2>2, <2>4
  <2>6. m - 1 \notin Bad
    BY <2>1, <2>2
  <2>7. disc[(m - 1) - 1] \subseteq Tile
    BY <2>5, <2>6
  <2> QED BY <2>2, <2>3, <2>4, <2>7, NearIsTile DEF DiscStep
<1>2. ASSUME NEW r \in -1..n PROVE disc[r] \subseteq Tile
  <2>1. r + 1 \in Nat /\ (r + 1) - 1 = r
    OBVIOUS
  <2>2. r + 1 \notin Bad
    BY <1>1
  <2> QED BY <2>1, <2>2
<1> QED BY <1>2

\* So nobody leaves the map, however far he goes.
LEMMA CircleIsTiles ==
    ASSUME NEW c \in Tile, NEW n \in Int, NEW logical
    PROVE  Circle(c, n, logical) \subseteq Tile
<1>1. CASE n < 0
  BY <1>1, CircleIs
<1>2. CASE ~(n < 0)
  <2>1. n \in Nat /\ n \in -1..n
    BY <1>2
  <2>2. GivesDiscs(c, logical, n, Discs(c, logical, n))
    BY <2>1, DiscsExist
  <2>3. Discs(c, logical, n)[n] \subseteq Tile
    BY <2>1, <2>2, DiscsAreTiles
  <2> QED BY <1>2, <2>3, CircleIs
<1> QED BY <1>1, <1>2

-----------------------------------------------------------------------------
(* Ways on the map: what Sandbox.circle finds by looking again at the tiles *)
(* of the last round only, and what the rules say                           *)

\* u is reached from c in n steps or less.
Steps(c, u, n, logical) ==
    \E way \in [0..n -> Tile] :
        /\ way[0] = c /\ way[n] = u
        /\ \A i \in 0..n - 1 : way[i + 1] = way[i] \/ way[i + 1] \in Near(way[i], logical)

LEMMA DiscGrows ==
    ASSUME NEW c, NEW logical, NEW n, NEW disc, GivesDiscs(c, logical, n, disc)
    PROVE  \A r \in 1..n :
              disc[r] = disc[r - 1] \cup UNION {Near(t, logical) : t \in disc[r - 1] \ disc[r - 2]}
<1> SUFFICES ASSUME NEW r \in 1..n
             PROVE  disc[r] = disc[r - 1]
                                  \cup UNION {Near(t, logical) : t \in disc[r - 1] \ disc[r - 2]}
  OBVIOUS
<1>1. r \in -1..n /\ r # -1 /\ r # 0
  OBVIOUS
<1>2. disc[r] = DiscStep(c, logical, disc, r)
  BY <1>1 DEF GivesDiscs
<1> QED BY <1>1, <1>2 DEF DiscStep

\* Whoever is inside has his neighbours inside a round later.
LEMMA NearInside ==
    ASSUME NEW c, NEW logical, NEW n \in Nat, NEW disc, GivesDiscs(c, logical, n, disc)
    PROVE  \A r \in 1..n : \A t \in disc[r - 1] : Near(t, logical) \subseteq disc[r]
<1> DEFINE Good(r) == \A t \in disc[r - 1] : Near(t, logical) \subseteq disc[r]
           Bad == {r \in 1..n : ~Good(r)}
<1>1. ASSUME NEW r \in 1..n, r # 1 => Good(r - 1) PROVE Good(r)
  <2> SUFFICES ASSUME NEW t \in disc[r - 1] PROVE Near(t, logical) \subseteq disc[r]
    OBVIOUS
  <2>0. disc[-1] = {}
    BY DEF GivesDiscs, DiscStep
  <2>1. disc[r] = disc[r - 1] \cup UNION {Near(v, logical) : v \in disc[r - 1] \ disc[r - 2]}
    BY DiscGrows
  <2>2. CASE t \notin disc[r - 2]
    BY <2>1, <2>2
  <2>3. CASE t \in disc[r - 2]
    <3>1. r # 1
      BY <2>0, <2>3
    <3>2. (r - 1) - 1 = r - 2
      OBVIOUS
    <3>3. Near(t, logical) \subseteq disc[r - 1]
      BY <1>1, <2>3, <3>1, <3>2
    <3> QED BY <2>1, <3>3
  <2> QED BY <2>2, <2>3
<1>2. Bad = {}
  <2> SUFFICES ASSUME Bad # {} PROVE FALSE
    OBVIOUS
  <2>1. PICK r \in Bad : \A x \in Bad : r <= x
    <3>1. Bad \in SUBSET Nat
      OBVIOUS
    <3> HIDE DEF Bad
    <3> QED BY <3>1, LeastNat
  <2> HIDE DEF Good
  <2>2. r \in 1..n /\ (r # 1 => r - 1 \in 1..n)
    OBVIOUS
  <2>3. r - 1 \notin Bad
    BY <2>1, <2>2
  <2> QED BY <1>1, <2>2, <2>3
<1> QED BY <1>2

\* A way of one step more.
LEMMA StepsMore ==
    ASSUME NEW c, NEW n \in Nat \ {0}, NEW logical, NEW t, Steps(c, t, n - 1, logical),
           NEW u \in Tile, u = t \/ u \in Near(t, logical)
    PROVE  Steps(c, u, n, logical)
<1>1. PICK way \in [0..n - 1 -> Tile] :
         /\ way[0] = c /\ way[n - 1] = t
         /\ \A i \in 0..(n - 1) - 1 : way[i + 1] = way[i] \/ way[i + 1] \in Near(way[i], logical)
  BY DEF Steps
<1> DEFINE on == [i \in 0..n |-> IF i = n THEN u ELSE way[i]]
<1>2. on \in [0..n -> Tile] /\ on[0] = c /\ on[n] = u
  BY <1>1
<1>3. ASSUME NEW i \in 0..n - 1 PROVE on[i + 1] = on[i] \/ on[i + 1] \in Near(on[i], logical)
  <2>1. CASE i = n - 1
    <3>1. i + 1 = n /\ i \in 0..n /\ i # n
      BY <2>1
    <3>2. on[i + 1] = u /\ on[i] = t
      BY <1>1, <2>1, <3>1
    <3> QED BY <3>2
  <2>2. CASE i # n - 1
    <3>1. i \in 0..(n - 1) - 1 /\ i + 1 \in 0..n /\ i + 1 # n /\ i \in 0..n /\ i # n
      BY <2>2
    <3>2. on[i + 1] = way[i + 1] /\ on[i] = way[i]
      BY <3>1
    <3> HIDE DEF on
    <3> QED BY <1>1, <3>1, <3>2
  <2> QED BY <2>1, <2>2
<1> HIDE DEF on
<1> QED BY <1>2, <1>3 DEF Steps

\* A way of one step less.
LEMMA StepsLess ==
    ASSUME NEW c, NEW n \in Nat \ {0}, NEW logical, NEW u, Steps(c, u, n, logical)
    PROVE  \E t \in Tile : /\ Steps(c, t, n - 1, logical)
                           /\ u = t \/ u \in Near(t, logical)
<1>1. PICK way \in [0..n -> Tile] :
         /\ way[0] = c /\ way[n] = u
         /\ \A i \in 0..n - 1 : way[i + 1] = way[i] \/ way[i + 1] \in Near(way[i], logical)
  BY DEF Steps
<1> DEFINE off == [i \in 0..n - 1 |-> way[i]]
<1>2. n - 1 \in 0..n - 1 /\ n - 1 \in 0..n /\ 0 \in 0..n - 1 /\ (n - 1) + 1 = n
  OBVIOUS
<1>3. off \in [0..n - 1 -> Tile] /\ off[0] = c /\ off[n - 1] = way[n - 1]
  BY <1>1, <1>2
<1>4. ASSUME NEW i \in 0..(n - 1) - 1
      PROVE off[i + 1] = off[i] \/ off[i + 1] \in Near(off[i], logical)
  <2>1. i \in 0..n - 1 /\ i + 1 \in 0..n - 1
    OBVIOUS
  <2>2. off[i + 1] = way[i + 1] /\ off[i] = way[i]
    BY <2>1
  <2> HIDE DEF off
  <2> QED BY <1>1, <2>1, <2>2
<1>5. way[n - 1] \in Tile /\ (u = way[n - 1] \/ u \in Near(way[n - 1], logical))
  BY <1>1, <1>2
<1> HIDE DEF off
<1>6. Steps(c, way[n - 1], n - 1, logical)
  BY <1>3, <1>4 DEF Steps
<1> QED BY <1>5, <1>6

LEMMA DiscIsSteps ==
    ASSUME NEW c \in Tile, NEW logical, NEW n \in Nat, NEW disc, GivesDiscs(c, logical, n, disc)
    PROVE  \A r \in 0..n : \A u : u \in disc[r] <=> Steps(c, u, r, logical)
<1> DEFINE Good(r) == \A u : u \in disc[r] <=> Steps(c, u, r, logical)
           Bad == {r \in 0..n : ~Good(r)}
<1>1. Good(0)
  <2>1. disc[0] = {c}
    BY DEF GivesDiscs, DiscStep
  <2>2. Steps(c, c, 0, logical)
    <3> DEFINE way == [i \in 0..0 |-> c]
    <3>1. way \in [0..0 -> Tile] /\ way[0] = c
      OBVIOUS
    <3>2. \A i \in 0..0 - 1 : way[i + 1] = way[i] \/ way[i + 1] \in Near(way[i], logical)
      OBVIOUS
    <3> HIDE DEF way
    <3> QED BY <3>1, <3>2 DEF Steps
  <2>3. ASSUME NEW u, Steps(c, u, 0, logical) PROVE u = c
    BY <2>3 DEF Steps
  <2> QED BY <2>1, <2>2, <2>3
<1>2. ASSUME NEW r \in 1..n, Good(r - 1) PROVE Good(r)
  <2>1. disc[r] = disc[r - 1] \cup UNION {Near(t, logical) : t \in disc[r - 1] \ disc[r - 2]}
    BY DiscGrows
  <2>2. \A t \in disc[r - 1] : Near(t, logical) \subseteq disc[r]
    BY NearInside
  <2>3. r \in Nat \ {0} /\ r \in -1..n /\ r - 1 \in -1..n
    OBVIOUS
  <2>4. disc[r] \subseteq Tile
    BY <2>3, DiscsAreTiles
  <2>5. ASSUME NEW u \in disc[r] PROVE Steps(c, u, r, logical)
    <3>1. \E t \in disc[r - 1] : u = t \/ u \in Near(t, logical)
      BY <2>1
    <3>2. PICK t \in disc[r - 1] : u = t \/ u \in Near(t, logical)
      BY <3>1
    <3>3. Steps(c, t, r - 1, logical)
      BY <1>2
    <3> QED BY <2>3, <2>4, <3>2, <3>3, StepsMore
  <2>6. ASSUME NEW u, Steps(c, u, r, logical) PROVE u \in disc[r]
    <3>1. PICK t \in Tile : Steps(c, t, r - 1, logical) /\ (u = t \/ u \in Near(t, logical))
      BY <2>3, <2>6, StepsLess
    <3>2. t \in disc[r - 1]
      BY <1>2, <3>1
    <3> QED BY <2>1, <2>2, <3>1, <3>2
  <2> QED BY <2>5, <2>6
<1>3. Bad = {}
  <2> SUFFICES ASSUME Bad # {} PROVE FALSE
    OBVIOUS
  <2>1. PICK r \in Bad : \A x \in Bad : r <= x
    <3>1. Bad \in SUBSET Nat
      OBVIOUS
    <3> HIDE DEF Bad
    <3> QED BY <3>1, LeastNat
  <2> HIDE DEF Good
  <2>2. r \in 1..n /\ r - 1 \in 0..n
    BY <1>1
  <2>3. r - 1 \notin Bad
    BY <2>1, <2>2
  <2> QED BY <1>2, <2>2, <2>3
<1> QED BY <1>3

LEMMA OneMore == \A n, m \in Int : (n - 1) * m + m = n * m
OBVIOUS

LEMMA Product == ASSUME NEW k \in Nat \ {0}, NEW m \in Nat PROVE k * m >= m
OBVIOUS

LEMMA Division ==
    ASSUME NEW t \in Nat
    PROVE  Row(t) \in Nat /\ Column(t) \in 0..Length - 1 /\ t = Length * Row(t) + Column(t)
BY BoardAssumption DEF Row, Column

\* Only one row and one column fit an index.
LEMMA DivisionIsUnique ==
    ASSUME NEW m \in Nat \ {0}, NEW a \in Nat, NEW b \in Nat,
           NEW c \in 0..m - 1, NEW d \in 0..m - 1, m * a + c = m * b + d
    PROVE  a = b /\ c = d
<1>1. ASSUME NEW x \in Nat, NEW y \in Nat, NEW u \in 0..m - 1, NEW v \in 0..m - 1,
             m * x + u = m * y + v, x > y
      PROVE  FALSE
  <2> DEFINE X == m * x
             Y == m * y
  <2>1. x - y \in Nat \ {0}
    BY <1>1
  <2>2. (x - y) * m >= m
    BY <2>1, Product
  <2>3. (x - y) * m = m * x - m * y
    OBVIOUS
  <2>4. X \in Int /\ Y \in Int
    OBVIOUS
  <2>5. X - Y >= m
    BY <2>2, <2>3
  <2>6. X + u = Y + v
    BY <1>1
  <2> HIDE DEF X, Y
  <2> QED BY <2>4, <2>5, <2>6
<1>2. a = b
  <2>1. ~(a > b)
    BY <1>1
  <2>2. ~(b > a)
    <3>1. m * b + d = m * a + c
      OBVIOUS
    <3> QED BY <1>1, <3>1
  <2> QED BY <2>1, <2>2
<1> QED BY <1>2

\* The next index is the next column, but at the end of a row.
LEMMA OnTheRight ==
    ASSUME NEW t \in Nat, Column(t) # Length - 1
    PROVE  Row(t + 1) = Row(t) /\ Column(t + 1) = Column(t) + 1
<1> DEFINE a == Row(t)
           c == Column(t)
           b == Row(t + 1)
           d == Column(t + 1)
<1>1. Length \in Nat \ {0}
  BY BoardAssumption
<1>2. a \in Nat /\ c \in 0..Length - 1 /\ t = Length * a + c
  BY Division
<1>3. b \in Nat /\ d \in 0..Length - 1 /\ t + 1 = Length * b + d
  BY Division
<1>4. c # Length - 1
  OBVIOUS
<1> HIDE DEF a, b, c, d
<1>5. Length * a + (c + 1) = Length * b + d /\ c + 1 \in 0..Length - 1
  BY <1>1, <1>2, <1>3, <1>4
<1>6. a = b /\ c + 1 = d
  BY <1>1, <1>2, <1>3, <1>5, DivisionIsUnique
<1> QED BY <1>6 DEF a, b, c, d

LEMMA Below ==
    ASSUME NEW t \in Nat
    PROVE  Row(t + Length) = Row(t) + 1 /\ Column(t + Length) = Column(t)
<1> DEFINE a == Row(t)
           c == Column(t)
           b == Row(t + Length)
           d == Column(t + Length)
<1>1. Length \in Nat \ {0} /\ t + Length \in Nat
  BY BoardAssumption
<1>2. a \in Nat /\ c \in 0..Length - 1 /\ t = Length * a + c
  BY Division
<1>3. b \in Nat /\ d \in 0..Length - 1 /\ t + Length = Length * b + d
  BY <1>1, Division
<1> HIDE DEF a, b, c, d
<1>4. Length * (a + 1) + c = Length * b + d /\ a + 1 \in Nat
  BY <1>1, <1>2, <1>3
<1>5. a + 1 = b /\ c = d
  BY <1>1, <1>2, <1>3, <1>4, DivisionIsUnique
<1> QED BY <1>5 DEF a, b, c, d

LEMMA Between ==
    ASSUME NEW t \in Nat, NEW u \in Nat
    PROVE  /\ Row(t) = Row(u) => u - t = Column(u) - Column(t)
           /\ Column(t) = Column(u) /\ Row(u) = Row(t) + 1 => u = t + Length
BY Division, BoardAssumption

LEMMA NearIs ==
    ASSUME NEW t \in Tile, NEW u
    PROVE  u \in Near(t, TRUE)
             <=> /\ u \in Tile /\ (Room[t] = Room[u] \/ {t, u} \in Door)
                 /\ u \in {t + Length, t - Length, t + 1, t - 1}
<1>1. u \in Near(t, TRUE)
        <=> \E d \in Direction : /\ u = t + Diff[d] /\ u \in 0..Length * Width - 1
                                 /\ u \in Tile /\ (Room[t] = Room[u] \/ {t, u} \in Door)
  BY DEF Near, Neighbors, Range, Tile
<1>2. t \in Int /\ Length \in Int
  BY BoardAssumption DEF Tile
<1>3. /\ Direction = {"UP", "LEFT", "DOWN", "RIGHT"}
      /\ Diff["UP"] = -Length /\ Diff["LEFT"] = -1 /\ Diff["DOWN"] = Length /\ Diff["RIGHT"] = 1
  BY DEF Direction, Diff
<1>4. {t + Diff[d] : d \in Direction} = {t + Length, t - Length, t + 1, t - 1}
  BY <1>2, <1>3
<1> QED BY <1>1, <1>4 DEF Tile

\* Through the doors and inside the rooms, neighbours are those of the rules.
LEMMA NearIsPassage ==
    ASSUME NEW t \in Tile, NEW u \in Tile
    PROVE  u \in Near(t, TRUE) <=> Passage(t, u)
<1>1. t \in Nat /\ u \in Nat /\ Length \in Nat \ {0}
  BY BoardAssumption DEF Tile
<1> DEFINE open == Room[t] = Room[u] \/ {t, u} \in Door
           side == \/ Row(t) = Row(u) /\ Column(t) - Column(u) \in {-1, 1}
                   \/ Column(t) = Column(u) /\ Row(t) - Row(u) \in {-1, 1}
<1>2. Passage(t, u) <=> side /\ open
  BY DEF Passage
<1>3. u \in Near(t, TRUE) <=> open /\ u \in {t + Length, t - Length, t + 1, t - 1}
  BY NearIs
<1>4. /\ Row(t) \in Nat /\ Column(t) \in 0..Length - 1
      /\ Row(u) \in Nat /\ Column(u) \in 0..Length - 1
  BY <1>1, Division
<1>5. ASSUME open, u \in {t + Length, t - Length, t + 1, t - 1} PROVE side
  <2>1. CASE u = t + Length
    BY <1>1, <1>4, <2>1, Below
  <2>2. CASE u = t - Length
    <3>1. t = u + Length
      BY <1>1, <2>2
    <3> QED BY <1>1, <1>4, <3>1, Below
  <2>3. CASE u = t + 1
    <3>1. Column(t) # Length - 1
      BY <1>5, <2>3, RowsApart
    <3> QED BY <1>1, <1>4, <2>3, <3>1, OnTheRight
  <2>4. CASE u = t - 1
    <3>1. t = u + 1
      BY <1>1, <2>4
    <3>2. {u, u + 1} = {t, u}
      BY <3>1
    <3>3. Column(u) # Length - 1
      BY <1>5, <3>1, <3>2, RowsApart
    <3> QED BY <1>1, <1>4, <3>1, <3>3, OnTheRight
  <2> QED BY <1>5, <2>1, <2>2, <2>3, <2>4
<1>6. ASSUME side PROVE u \in {t + Length, t - Length, t + 1, t - 1}
  <2>1. CASE Row(t) = Row(u) /\ Column(t) - Column(u) \in {-1, 1}
    <3>1. u - t = Column(u) - Column(t)
      BY <1>1, <2>1, Between
    <3> QED BY <1>1, <1>4, <2>1, <3>1
  <2>2. CASE Column(t) = Column(u) /\ Row(t) - Row(u) \in {-1, 1}
    <3>1. Row(u) = Row(t) + 1 \/ Row(t) = Row(u) + 1
      BY <1>4, <2>2
    <3>2. u = t + Length \/ t = u + Length
      BY <1>1, <2>2, <3>1, Between
    <3> QED BY <1>1, <3>2
  <2> QED BY <1>6, <2>1, <2>2
<1> HIDE DEF open, side
<1> QED BY <1>2, <1>3, <1>5, <1>6

LEMMA StepsAreWalks ==
    ASSUME NEW s, NEW t, NEW n \in Nat
    PROVE  Steps(s, t, n, TRUE) <=> Walk(s, t, n)
<1>1. ASSUME NEW way \in [0..n -> Tile], NEW i \in 0..n - 1
      PROVE  (way[i + 1] = way[i] \/ way[i + 1] \in Near(way[i], TRUE))
               <=> (way[i] = way[i + 1] \/ Passage(way[i], way[i + 1]))
  <2>1. way[i] \in Tile /\ way[i + 1] \in Tile
    OBVIOUS
  <2> QED BY <2>1, NearIsPassage
<1> QED BY <1>1 DEF Steps, Walk

\* Sandbox.circle, which looks again only at the tiles it found in the last round, finds
\* exactly the tiles that the rules let one walk to in so many steps, on a map where no
\* row is joined to the next one.
THEOREM CirclesAreWalks ==
    ASSUME NEW s \in Tile, NEW t, NEW n \in Nat
    PROVE  t \in Circle(s, n, TRUE) <=> Walk(s, t, n)
<1>1. GivesDiscs(s, TRUE, n, Discs(s, TRUE, n))
  BY DiscsExist
<1>2. n \in 0..n /\ ~(n < 0)
  OBVIOUS
<1>3. t \in Discs(s, TRUE, n)[n] <=> Steps(s, t, n, TRUE)
  BY <1>1, <1>2, DiscIsSteps
<1>4. Circle(s, n, TRUE) = Discs(s, TRUE, n)[n]
  BY <1>2, CircleIs
<1> QED BY <1>3, <1>4, StepsAreWalks

-----------------------------------------------------------------------------
(* Straight ways on the map *)

\* A line holds its origin and consists of tiles.
LEMMA LineIsTiles ==
    ASSUME NEW t \in Tile, NEW d \in Direction, NEW logical
    PROVE  Line(t, d, logical) \in (SUBSET Tile) \ {{}}
<1>1. Diff[d] \in Int /\ t \in Int
  BY BoardAssumption DEF Direction, Diff, Tile
<1> DEFINE far == Length * Width
<1>5. far \in Nat
  BY BoardAssumption
<1> HIDE DEF far
<1>2. t \in Line(t, d, logical)
  <2>1. 0 \in 0..far
    BY <1>5
  <2>3. t + 0 * Diff[d] = t
    BY <1>1
  <2>2. \A i \in 0..0 - 1 : d \in DOMAIN Neighbors(t + i * Diff[d], logical)
    OBVIOUS
  <2> QED BY <2>1, <2>2, <2>3 DEF Line, far
<1>3. ASSUME NEW n \in 0..far,
             \A i \in 0..n - 1 : d \in DOMAIN Neighbors(t + i * Diff[d], logical)
      PROVE  t + n * Diff[d] \in Tile
  <2>1. CASE n = 0
    BY <1>1, <2>1
  <2>2. CASE n # 0
    <3>1. n - 1 \in 0..n - 1
      BY <1>5, <2>2
    <3>2. d \in DOMAIN Neighbors(t + (n - 1) * Diff[d], logical)
      BY <1>3, <3>1
    <3>3. (t + (n - 1) * Diff[d]) + Diff[d] \in Tile
      BY <3>2 DEF Neighbors
    <3>4. (t + (n - 1) * Diff[d]) + Diff[d] = t + n * Diff[d]
      <4>1. n \in Int /\ (n - 1) * Diff[d] \in Int /\ n * Diff[d] \in Int
        BY <1>1, <1>5
      <4>2. (n - 1) * Diff[d] + Diff[d] = n * Diff[d]
        BY <1>1, <4>1, OneMore
      <4> QED BY <1>1, <4>1, <4>2
    <3> QED BY <3>3, <3>4
  <2> QED BY <2>1, <2>2
<1>4. Line(t, d, logical) \subseteq Tile
  BY <1>3 DEF Line, far
<1> QED BY <1>2, <1>4

\* A step through a passage goes one row or one column on, or back.
Diagonal(t) == Row(t) + Column(t)

LEMMA PassageTurns ==
    ASSUME NEW t, NEW u, Passage(t, u)
    PROVE  /\ Diagonal(t) \in Int /\ Diagonal(u) \in Int
           /\ u > t => Diagonal(u) = Diagonal(t) + 1
           /\ u < t => Diagonal(u) = Diagonal(t) - 1
<1>1. t \in Nat /\ u \in Nat /\ Length \in Nat \ {0}
  BY BoardAssumption DEF Passage, Tile
<1> DEFINE a == Row(t)
           c == Column(t)
           b == Row(u)
           d == Column(u)
<1>2. a \in Nat /\ c \in 0..Length - 1 /\ t = Length * a + c
  BY <1>1, Division
<1>3. b \in Nat /\ d \in 0..Length - 1 /\ u = Length * b + d
  BY <1>1, Division
<1>4. (a = b /\ c - d \in {-1, 1}) \/ (c = d /\ a - b \in {-1, 1})
  BY DEF Passage
<1> HIDE DEF a, b, c, d
<1>5. CASE a = b /\ c - d \in {-1, 1}
  <2>1. u - t = d - c
    BY <1>1, <1>2, <1>3, <1>5
  <2> QED BY <1>1, <1>2, <1>3, <1>5, <2>1 DEF Diagonal, a, b, c, d
<1>6. CASE c = d /\ a - b \in {-1, 1}
  <2>1. b = a + 1 \/ b = a - 1
    BY <1>2, <1>3, <1>6
  <2>2. b = a + 1 => u = t + Length
    BY <1>1, <1>2, <1>3, <1>6
  <2>3. b = a - 1 => u = t - Length
    BY <1>1, <1>2, <1>3, <1>6
  <2>4. (u > t => b = a + 1) /\ (u < t => b = a - 1)
    BY <1>1, <2>1, <2>2, <2>3
  <2> QED BY <1>2, <1>3, <1>6, <2>4 DEF Diagonal, a, b, c, d
<1> QED BY <1>4, <1>5, <1>6

DiffSign(d) == IF d \in {"DOWN", "RIGHT"} THEN 1 ELSE -1

LEMMA DiffIs ==
    ASSUME NEW d \in Direction
    PROVE  /\ Diff[d] \in Int /\ Diff[d] # 0
           /\ DiffSign(d) \in {-1, 1}
           /\ DiffSign(d) = 1 => Diff[d] > 0
           /\ DiffSign(d) = -1 => Diff[d] < 0
BY BoardAssumption DEF Direction, Diff, DiffSign

\* In one direction the passages lead on and on, or back and back.
LEMMA StraightTurns ==
    ASSUME NEW s \in Tile, NEW d \in Direction, NEW n \in Nat,
           \A i \in 0..n - 1 : Passage(s + i * Diff[d], s + (i + 1) * Diff[d])
    PROVE  Diagonal(s + n * Diff[d]) = Diagonal(s) + n * DiffSign(d)
<1> DEFINE way(i) == s + i * Diff[d]
           Good(i) == Diagonal(way(i)) = Diagonal(s) + i * DiffSign(d)
           Bad == {i \in 0..n : ~Good(i)}
<1>1. s \in Int /\ Diff[d] \in Int /\ DiffSign(d) \in Int
  BY DiffIs, BoardAssumption DEF Tile
<1>2. Diagonal(s) \in Int
  BY BoardAssumption, Division DEF Tile, Diagonal
<1>3. Good(0)
  BY <1>1, <1>2
<1>4. ASSUME NEW i \in 1..n, Good(i - 1) PROVE Good(i)
  <2>1. i - 1 \in 0..n - 1 /\ (i - 1) + 1 = i
    OBVIOUS
  <2>2. Passage(way(i - 1), way(i))
    BY <2>1
  <2>3. (i - 1) * Diff[d] + Diff[d] = i * Diff[d] /\ (i - 1) * DiffSign(d) + DiffSign(d) = i * DiffSign(d)
    BY <1>1, OneMore
  <2>4. way(i - 1) \in Int /\ way(i) = way(i - 1) + Diff[d]
    <3>1. (i - 1) * Diff[d] \in Int /\ i * Diff[d] \in Int
      BY <1>1
    <3> QED BY <1>1, <2>3, <3>1
  <2>5. (i - 1) * DiffSign(d) \in Int
    BY <1>1
  <2> DEFINE v == way(i - 1)
             w == way(i)
  <2> HIDE DEF v, w, way
  <2>6. Diagonal(w) = Diagonal(v) + DiffSign(d)
    <3>1. Passage(v, w) /\ v \in Int /\ w = v + Diff[d]
      BY <2>2, <2>4 DEF v, w
    <3>2. /\ w > v => Diagonal(w) = Diagonal(v) + 1
          /\ w < v => Diagonal(w) = Diagonal(v) - 1
      BY <3>1, PassageTurns
    <3>3. DiffSign(d) = 1 \/ DiffSign(d) = -1
      BY DiffIs
    <3>4. CASE DiffSign(d) = 1
      BY <1>1, <3>1, <3>2, <3>4, DiffIs
    <3>5. CASE DiffSign(d) = -1
      <4>1. w < v
        BY <1>1, <3>1, <3>5, DiffIs
      <4>2. Diagonal(v) \in Int
        BY <3>1, PassageTurns
      <4> QED BY <3>2, <3>5, <4>1, <4>2
    <3> QED BY <3>3, <3>4, <3>5
  <2>7. Diagonal(v) = Diagonal(s) + (i - 1) * DiffSign(d)
    BY <1>4 DEF v
  <2> DEFINE x == (i - 1) * DiffSign(d)
             y == i * DiffSign(d)
  <2>8. Diagonal(v) = Diagonal(s) + x /\ x \in Int /\ x + DiffSign(d) = y
    BY <2>3, <2>5, <2>7
  <2>9. Diagonal(w) = Diagonal(s) + y
    <3> HIDE DEF x, y
    <3> QED BY <1>1, <1>2, <2>6, <2>8
  <2> QED BY <2>9 DEF w
<1>5. Bad = {}
  <2> SUFFICES ASSUME Bad # {} PROVE FALSE
    OBVIOUS
  <2>1. PICK m \in Bad : \A x \in Bad : m <= x
    <3>1. Bad \in SUBSET Nat
      OBVIOUS
    <3> HIDE DEF Bad
    <3> QED BY <3>1, LeastNat
  <2> HIDE DEF Good
  <2>2. m \in 1..n /\ m - 1 \in 0..n
    BY <1>3
  <2>3. m - 1 \notin Bad
    BY <2>1, <2>2
  <2> QED BY <1>4, <2>1, <2>2, <2>3
<1> QED BY <1>5

\* In two steps nobody gets further than two rows or columns.
LEMMA WalkTurns ==
    ASSUME NEW s, NEW t, NEW n \in 1..2, Walk(s, t, n)
    PROVE  Diagonal(s) \in Int /\ Diagonal(t) - Diagonal(s) \in -n..n
<1>1. PICK way \in [0..n -> Tile] :
         /\ way[0] = s /\ way[n] = t
         /\ \A i \in 0..n - 1 : way[i] = way[i + 1] \/ Passage(way[i], way[i + 1])
  BY DEF Walk
<1>2. ASSUME NEW v \in Tile, NEW w \in Tile, v = w \/ Passage(v, w)
      PROVE  /\ Diagonal(v) \in Int /\ Diagonal(w) \in Int
             /\ Diagonal(w) - Diagonal(v) \in -1..1
  <2>1. v \in Int /\ w \in Int /\ Diagonal(v) \in Int /\ Diagonal(w) \in Int
    <3>1. v \in Nat /\ w \in Nat /\ Length \in Nat \ {0}
      BY BoardAssumption DEF Tile
    <3>2. /\ Row(v) \in Nat /\ Column(v) \in 0..Length - 1
          /\ Row(w) \in Nat /\ Column(w) \in 0..Length - 1
      BY <3>1, Division
    <3> QED BY <3>1, <3>2 DEF Diagonal
  <2>2. CASE v = w
    BY <2>1, <2>2
  <2>3. CASE v # w
    <3>1. v < w \/ w < v
      BY <2>1, <2>3
    <3> QED BY <1>2, <2>1, <2>3, <3>1, PassageTurns
  <2> QED BY <2>2, <2>3
<1>3. way[0] = way[1] \/ Passage(way[0], way[1])
  BY <1>1
<1>4. way[0] \in Tile /\ way[1] \in Tile
  BY <1>1
<1>5. CASE n = 1
  BY <1>1, <1>2, <1>3, <1>4, <1>5
<1>6. CASE n = 2
  <2>1. way[2] \in Tile /\ (way[1] = way[2] \/ Passage(way[1], way[2]))
    BY <1>1, <1>6
  <2>2. /\ Diagonal(way[0]) \in Int /\ Diagonal(way[1]) \in Int
        /\ Diagonal(way[1]) - Diagonal(way[0]) \in -1..1
    BY <1>2, <1>3, <1>4
  <2>3. /\ Diagonal(way[2]) \in Int
        /\ Diagonal(way[2]) - Diagonal(way[1]) \in -1..1
    BY <1>2, <1>4, <2>1
  <2> QED BY <1>1, <1>6, <2>2, <2>3
<1> QED BY <1>5, <1>6

\* The tiles of a line are in a row: each is next to the one before.
LEMMA LineGoes ==
    ASSUME NEW s \in Tile, NEW d \in Direction, NEW logical, NEW u \in Line(s, d, logical)
    PROVE  \E n \in Nat :
              /\ n <= Length * Width /\ u = s + n * Diff[d]
              /\ \A i \in 0..n - 1 : d \in DOMAIN Neighbors(s + i * Diff[d], logical)
              /\ \A i \in 0..n : s + i * Diff[d] \in Line(s, d, logical)
<1> DEFINE far == Length * Width
<1>1. far \in Nat
  BY BoardAssumption
<1> HIDE DEF far
<1>2. PICK n \in 0..far :
         /\ u = s + n * Diff[d]
         /\ \A i \in 0..n - 1 : d \in DOMAIN Neighbors(s + i * Diff[d], logical)
  BY DEF Line, far
<1>3. ASSUME NEW i \in 0..n PROVE s + i * Diff[d] \in Line(s, d, logical)
  <2>1. i \in 0..far /\ \A j \in 0..i - 1 : j \in 0..n - 1
    BY <1>1
  <2> QED BY <1>2, <2>1 DEF Line, far
<1> QED BY <1>1, <1>2, <1>3 DEF far

\* A line through doors and rooms that stays near is straight.
LEMMA NearLineIsStraight ==
    ASSUME NEW s \in Tile, NEW d \in Direction, NEW u \in Line(s, d, TRUE),
           NEW m \in 1..2, Walk(s, u, m)
    PROVE  \E n \in 0..m :
              /\ u = s + n * Diff[d]
              /\ \A i \in 0..n - 1 : Passage(s + i * Diff[d], s + (i + 1) * Diff[d])
<1>1. PICK n \in Nat :
         /\ u = s + n * Diff[d]
         /\ \A i \in 0..n - 1 : d \in DOMAIN Neighbors(s + i * Diff[d], TRUE)
         /\ \A i \in 0..n : s + i * Diff[d] \in Line(s, d, TRUE)
  BY LineGoes
<1>2. ASSUME NEW i \in 0..n - 1 PROVE Passage(s + i * Diff[d], s + (i + 1) * Diff[d])
  <2> DEFINE v == s + i * Diff[d]
             w == s + (i + 1) * Diff[d]
  <2>1. i \in 0..n /\ i + 1 \in 0..n
    OBVIOUS
  <2>2. v \in Tile /\ w \in Tile
    BY <1>1, <2>1, LineIsTiles
  <2>3. w = v + Diff[d]
    <3>1. s \in Int /\ Diff[d] \in Int
      BY DiffIs, BoardAssumption DEF Tile
    <3>2. ((i + 1) - 1) * Diff[d] + Diff[d] = (i + 1) * Diff[d] /\ (i + 1) - 1 = i
      BY <3>1, OneMore
    <3>3. i * Diff[d] \in Int
      BY <3>1
    <3> QED BY <3>1, <3>2, <3>3
  <2>4. d \in DOMAIN Neighbors(v, TRUE)
    BY <1>1
  <2> HIDE DEF v, w
  <2>5. w \in Near(v, TRUE)
    BY <2>3, <2>4 DEF Near, Neighbors, Range
  <2>6. Passage(v, w)
    BY <2>2, <2>5, NearIsPassage
  <2> QED BY <2>6 DEF v, w
<1>3. Diagonal(u) = Diagonal(s) + n * DiffSign(d)
  BY <1>1, <1>2, StraightTurns
<1>4. Diagonal(s) \in Int /\ Diagonal(u) - Diagonal(s) \in -m..m
  BY WalkTurns
<1>5. n <= m
  <2>1. DiffSign(d) = 1 \/ DiffSign(d) = -1
    BY DiffIs
  <2>2. CASE DiffSign(d) = 1
    BY <1>3, <1>4, <2>2
  <2>3. CASE DiffSign(d) = -1
    <3>1. n * (-1) = -n
      OBVIOUS
    <3> QED BY <1>3, <1>4, <2>3, <3>1
  <2> QED BY <2>1, <2>2, <2>3
<1> QED BY <1>1, <1>2, <1>5

\* From a tile on into its line, one step of the walk there is one step of the line.
LEMMA LineThrough ==
    ASSUME NEW s \in Tile, NEW d \in Direction, NEW e \in Direction,
           NEW u \in Line(s, d, TRUE), Walk(s, u, 1), u = s + Diff[e]
    PROVE  Diff[d] = Diff[e]
<1>1. PICK n \in 0..1 : u = s + n * Diff[d]
  <2>1. \E n \in 0..1 :
           /\ u = s + n * Diff[d]
           /\ \A i \in 0..n - 1 : Passage(s + i * Diff[d], s + (i + 1) * Diff[d])
    <3>1. 1 \in 1..2
      OBVIOUS
    <3> QED BY <3>1, NearLineIsStraight
  <2> QED BY <2>1
<1>2. s \in Int /\ Diff[d] \in Int /\ Diff[e] \in Int /\ Diff[e] # 0
  BY DiffIs, BoardAssumption DEF Tile
<1>3. n # 0
  BY <1>1, <1>2
<1>4. n = 1
  BY <1>3
<1> QED BY <1>1, <1>2, <1>4

\* If one can go straight on, the line goes on.
LEMMA StraightInLine ==
    ASSUME NEW s \in Tile, NEW d \in Direction,
           Passage(s, s + Diff[d]), Passage(s + Diff[d], s + 2 * Diff[d])
    PROVE  /\ s + 2 * Diff[d] \in Line(s, d, TRUE)
           /\ Walk(s, s + 2 * Diff[d], 2) /\ ~Walk(s, s + 2 * Diff[d], 1)
<1> DEFINE u == s + Diff[d]
           v == s + 2 * Diff[d]
<1>1. s \in Int /\ Diff[d] \in Int /\ Diff[d] # 0
  BY DiffIs, BoardAssumption DEF Tile
<1>2. u \in Int /\ v \in Int /\ v = u + Diff[d] /\ u = s + Diff[d]
  BY <1>1
<1>3. u \in Tile /\ v \in Tile
  BY DEF Passage
<1>4. Passage(s, u) /\ Passage(u, v)
  OBVIOUS
<1>5. s + 0 * Diff[d] = s /\ s + 1 * Diff[d] = u
  BY <1>1
<1> HIDE DEF u, v
<1>6. d \in DOMAIN Neighbors(s, TRUE) /\ d \in DOMAIN Neighbors(u, TRUE)
  BY <1>2, <1>3, <1>4 DEF Neighbors, Passage
<1>7. 2 \in 0..Length * Width
  <2> DEFINE far == Length * Width
  <2>1. far \in Nat
    BY BoardAssumption
  <2>2. s \in 0..far - 1 /\ u \in 0..far - 1 /\ v \in 0..far - 1
    BY <1>3 DEF Tile
  <2> HIDE DEF far
  <2>3. far >= 2
    BY <1>1, <1>2, <2>1, <2>2
  <2>4. 2 \in 0..far
    BY <2>1, <2>3
  <2> QED BY <2>4 DEF far
<1>8. \A i \in 0..2 - 1 : d \in DOMAIN Neighbors(s + i * Diff[d], TRUE)
  <2>1. \A i \in 0..2 - 1 : i = 0 \/ i = 1
    OBVIOUS
  <2> QED BY <1>5, <1>6, <2>1
<1>9. v \in Line(s, d, TRUE)
  BY <1>7, <1>8 DEF Line, v
<1>10. Walk(s, v, 2)
  <2> DEFINE way == [i \in 0..2 |-> IF i = 0 THEN s ELSE IF i = 1 THEN u ELSE v]
  <2>1. way \in [0..2 -> Tile] /\ way[0] = s /\ way[1] = u /\ way[2] = v
    BY <1>3
  <2>2. \A i \in 0..2 - 1 : i = 0 \/ i = 1
    OBVIOUS
  <2>3. 0 + 1 = 1 /\ 1 + 1 = 2
    OBVIOUS
  <2> HIDE DEF way
  <2>4. \A i \in 0..2 - 1 : Passage(way[i], way[i + 1])
    BY <1>4, <2>1, <2>2, <2>3
  <2> QED BY <2>1, <2>4 DEF Walk
<1>11. ~Walk(s, v, 1)
  <2>1. \A i \in 0..2 - 1 : Passage(s + i * Diff[d], s + (i + 1) * Diff[d])
    <3>1. \A i \in 0..2 - 1 : i = 0 \/ i = 1
      OBVIOUS
    <3>2. s + (0 + 1) * Diff[d] = u /\ s + (1 + 1) * Diff[d] = v
      BY <1>1 DEF u, v
    <3> QED BY <1>4, <1>5, <3>1, <3>2
  <2>2. Diagonal(v) = Diagonal(s) + 2 * DiffSign(d)
    BY <2>1, StraightTurns DEF v
  <2>3. DiffSign(d) = 1 \/ DiffSign(d) = -1
    BY DiffIs
  <2> SUFFICES ASSUME Walk(s, v, 1) PROVE FALSE
    OBVIOUS
  <2>4. Diagonal(s) \in Int /\ Diagonal(v) - Diagonal(s) \in -1..1
    BY WalkTurns
  <2> QED BY <2>2, <2>3, <2>4
<1> QED BY <1>9, <1>10, <1>11 DEF v

\* A longer walk is allowed to be shorter.
LEMMA WalkLonger ==
    ASSUME NEW s, NEW t, NEW m \in Nat, NEW n \in Nat, m <= n, Walk(s, t, m)
    PROVE  Walk(s, t, n)
<1>1. PICK way \in [0..m -> Tile] :
         /\ way[0] = s /\ way[m] = t
         /\ \A i \in 0..m - 1 : way[i] = way[i + 1] \/ Passage(way[i], way[i + 1])
  BY DEF Walk
<1> DEFINE on == [i \in 0..n |-> IF i <= m THEN way[i] ELSE t]
<1>2. on \in [0..n -> Tile] /\ on[0] = s /\ on[n] = t
  BY <1>1
<1>3. ASSUME NEW i \in 0..n - 1 PROVE on[i] = on[i + 1] \/ Passage(on[i], on[i + 1])
  <2>1. CASE i < m
    <3>1. i \in 0..m - 1 /\ i <= m /\ i + 1 <= m /\ i \in 0..n /\ i + 1 \in 0..n
      BY <2>1
    <3>2. on[i] = way[i] /\ on[i + 1] = way[i + 1]
      BY <3>1
    <3> HIDE DEF on
    <3> QED BY <1>1, <3>1, <3>2
  <2>2. CASE ~(i < m)
    <3>1. ~(i + 1 <= m) /\ i + 1 \in 0..n /\ i \in 0..n /\ (i <= m => i = m)
      BY <2>2
    <3>2. on[i] = t /\ on[i + 1] = t
      BY <1>1, <3>1
    <3> QED BY <3>2
  <2> QED BY <2>1, <2>2
<1> HIDE DEF on
<1> QED BY <1>2, <1>3 DEF Walk

\* Whatever the walls, a line goes along a row or a column, or over the end of a row.
LEMMA LineStrays ==
    ASSUME NEW s \in Tile, NEW d \in Direction, NEW logical, NEW u \in Line(s, d, logical)
    PROVE  \/ Row(u) = Row(s) \/ Column(u) = Column(s)
           \/ \E t \in Line(s, d, logical) :
                 Column(t) = Length - 1 /\ t + 1 \in Line(s, d, logical)
<1>1. PICK n \in Nat :
         /\ u = s + n * Diff[d]
         /\ \A i \in 0..n : s + i * Diff[d] \in Line(s, d, logical)
  BY LineGoes
<1> SUFFICES ASSUME \A t \in Line(s, d, logical) :
                       ~(Column(t) = Length - 1 /\ t + 1 \in Line(s, d, logical))
             PROVE  Row(u) = Row(s) \/ Column(u) = Column(s)
  OBVIOUS
<1> DEFINE way(i) == s + i * Diff[d]
           Good(i) == IF d \in {"UP", "DOWN"} THEN Column(way(i)) = Column(s)
                                              ELSE Row(way(i)) = Row(s)
           Bad == {i \in 0..n : ~Good(i)}
<1>2. s \in Int /\ Diff[d] \in Int /\ Length \in Nat \ {0}
  BY DiffIs, BoardAssumption DEF Tile
<1>3. Good(0)
  BY <1>2
<1>4. ASSUME NEW i \in 1..n, Good(i - 1) PROVE Good(i)
  <2> DEFINE v == way(i - 1)
             w == way(i)
  <2>1. i - 1 \in 0..n /\ i \in 0..n
    OBVIOUS
  <2>2. v \in Line(s, d, logical) /\ w \in Line(s, d, logical)
    BY <1>1, <2>1
  <2>3. v \in Nat /\ w \in Nat
    <3>1. v \in Tile /\ w \in Tile
      BY <2>2, LineIsTiles
    <3> HIDE DEF v, w
    <3> QED BY <3>1, BoardAssumption DEF Tile
  <2>4. w = v + Diff[d]
    <3>1. (i - 1) * Diff[d] + Diff[d] = i * Diff[d]
      BY <1>2, OneMore
    <3>2. (i - 1) * Diff[d] \in Int /\ i * Diff[d] \in Int
      BY <1>2
    <3> QED BY <1>2, <3>1, <3>2
  <2>5. IF d \in {"UP", "DOWN"} THEN Column(v) = Column(s) ELSE Row(v) = Row(s)
    BY <1>4
  <2> HIDE DEF v, w
  <2>6. IF d \in {"UP", "DOWN"} THEN Column(w) = Column(v) ELSE Row(w) = Row(v)
    <3>1. d \in {"UP", "LEFT", "DOWN", "RIGHT"}
      BY DEF Direction, Diff
    <3>2. CASE d = "DOWN"
      <4>1. w = v + Length
        BY <2>4, <3>2 DEF Diff
      <4> QED BY <2>3, <3>2, <4>1, Below
    <3>3. CASE d = "UP"
      <4>1. w = v - Length
        BY <1>2, <2>3, <2>4, <3>3 DEF Diff
      <4>2. v = w + Length
        BY <1>2, <2>3, <4>1
      <4> QED BY <2>3, <3>3, <4>2, Below
    <3>4. CASE d = "RIGHT"
      <4>1. w = v + 1
        BY <2>4, <3>4 DEF Diff
      <4>2. Column(v) # Length - 1
        BY <2>2, <4>1
      <4> QED BY <2>3, <3>4, <4>1, <4>2, OnTheRight
    <3>5. CASE d = "LEFT"
      <4>1. w = v - 1
        BY <1>2, <2>3, <2>4, <3>5 DEF Diff
      <4>2. v = w + 1
        BY <2>3, <4>1
      <4>3. Column(w) # Length - 1
        BY <2>2, <4>2
      <4> QED BY <2>3, <3>5, <4>2, <4>3, OnTheRight
    <3> QED BY <3>1, <3>2, <3>3, <3>4, <3>5
  <2>7. IF d \in {"UP", "DOWN"} THEN Column(w) = Column(s) ELSE Row(w) = Row(s)
    BY <2>5, <2>6
  <2> QED BY <2>7 DEF w
<1>5. Bad = {}
  <2> SUFFICES ASSUME Bad # {} PROVE FALSE
    OBVIOUS
  <2>1. PICK m \in Bad : \A x \in Bad : m <= x
    <3>1. Bad \in SUBSET Nat
      OBVIOUS
    <3> HIDE DEF Bad
    <3> QED BY <3>1, LeastNat
  <2> HIDE DEF Good
  <2>2. m \in 1..n /\ m - 1 \in 0..n
    BY <1>3
  <2>3. m - 1 \notin Bad
    BY <2>1, <2>2
  <2> QED BY <1>4, <2>1, <2>2, <2>3
<1>6. Good(n)
  BY <1>5
<1> QED BY <1>1, <1>6

-----------------------------------------------------------------------------
(* Targets *)

\* The targets of a type, as the pawns stand now: they are on the map.
OfType(place, type) ==
    CASE type = "pawn" -> {Target("pawn", q) : q \in On(place, Tile)}
      [] type = "group" -> {Target("group", S) : S \in (SUBSET On(place, Tile)) \ {{}}}
      [] type = "tile" -> {Target("tile", u) : u \in Tile}
      [] type = "room" -> {Target("room", Room[u]) : u \in Tile}
      [] type \in {"direction", "directionph"} ->
            {Target("direction", S) : S \in (SUBSET Tile) \ {{}}}

Type == {"pawn", "group", "tile", "room", "direction", "directionph"}

\* What is on a tile of the map, and the directions from it, make sense.
LEMMA BuiltFits ==
    ASSUME NEW place, NEW type \in Type, NEW t \in Tile, NEW x \in Built(place, type, t)
    PROVE  /\ type # "group" => x \in OfType(place, type)
           /\ type = "group" => x \in OfType(place, "pawn")
<1>1. CASE type \in {"pawn", "group"}
  BY <1>1 DEF Built, OfType, On
<1>2. CASE type = "tile"
  BY <1>2 DEF Built, OfType
<1>3. CASE type = "room"
  BY <1>3 DEF Built, OfType
<1>4. CASE type = "direction"
  <2>1. PICK d \in DOMAIN Neighbors(t, TRUE) : x = Target("direction", Line(t, d, TRUE))
    BY <1>4 DEF Built
  <2>2. d \in Direction
    BY DEF Neighbors
  <2>3. Line(t, d, TRUE) \in (SUBSET Tile) \ {{}}
    BY <2>2, LineIsTiles
  <2> QED BY <1>4, <2>1, <2>3 DEF OfType
<1>5. CASE type = "directionph"
  <2>1. PICK d \in DOMAIN Neighbors(t, FALSE) : x = Target("direction", Line(t, d, FALSE))
    BY <1>5 DEF Built
  <2>2. d \in Direction
    BY DEF Neighbors
  <2>3. Line(t, d, FALSE) \in (SUBSET Tile) \ {{}}
    BY <2>2, LineIsTiles
  <2> QED BY <1>5, <2>1, <2>3 DEF OfType
<1> QED BY <1>1, <1>2, <1>3, <1>4, <1>5 DEF Type

\* A target has a tile, and all its tiles are on the map.
LEMMA TilesOfTarget ==
    ASSUME NEW place, NEW type \in Type, NEW x \in OfType(place, type)
    PROVE  TilesOf(place, x) \in (SUBSET Tile) \ {{}}
<1>1. CASE type = "pawn"
  BY <1>1 DEF OfType, TilesOf, Target, On
<1>2. CASE type = "group"
  <2>1. PICK S \in (SUBSET On(place, Tile)) \ {{}} : x = Target("group", S)
    BY <1>2 DEF OfType
  <2>2. TilesOf(place, x) = {place[q] : q \in S}
    BY <2>1 DEF TilesOf, Target
  <2> QED BY <2>1, <2>2 DEF On
<1>3. CASE type = "tile"
  BY <1>3 DEF OfType, TilesOf, Target
<1>4. CASE type = "room"
  BY <1>4 DEF OfType, TilesOf, Target, InRoom
<1>5. CASE type \in {"direction", "directionph"}
  <2>1. PICK S \in (SUBSET Tile) \ {{}} : x = Target("direction", S)
    BY <1>5 DEF OfType
  <2>2. TilesOf(place, x) = S
    BY <2>1 DEF TilesOf, Target
  <2> QED BY <2>2
<1> QED BY <1>1, <1>2, <1>3, <1>4, <1>5 DEF Type

\* A pawn or a tile is somewhere.
LEMMA LocationOfTarget ==
    ASSUME NEW place, NEW type \in {"pawn", "tile"}, NEW x \in OfType(place, type)
    PROVE  LocationOf(place, x) \in Tile
BY DEF OfType, LocationOf, Target, On

LEMMA ReachableIsTiles ==
    ASSUME NEW place, NEW x, LocationOf(place, x) \in Tile, NEW min \in Int, NEW max \in Int
    PROVE  Reachable(place, x, min, max) \subseteq Tile
<1>1. Circle(LocationOf(place, x), max, TRUE) \subseteq Tile
  BY CircleIsTiles
<1> QED BY <1>1 DEF Reachable

\* A control point reaches its own tile at most.
LEMMA PointReaches ==
    ASSUME NEW place, NEW x, IsPoint(x), NEW min, NEW max
    PROVE  Reachable(place, x, min, max) \subseteq {place[x.id]}
BY DEF Reachable, IsPoint, LocationOf

\* A selector selects tiles of the map, from a source that makes sense.
LEMMA SelectedAreTiles ==
    ASSUME NEW place, NEW s, s.by \in {"exists", "seen", "distant", "reached", "has", "in"},
           s.min \in Int, s.max \in Int,
           NEW type \in Type, NEW x \in OfType(place, type),
           s.by \in {"seen", "distant", "reached", "has"} => type \in {"pawn", "tile"}
    PROVE  Selected(place, s, x) \subseteq Tile
<1>1. CASE s.by = "exists"
  BY <1>1 DEF Selected
<1>2. CASE s.by = "seen"
  <2>1. Seen(place, x) \subseteq Tile
    BY DEF Seen, TilesSeen, InRoom
  <2> QED BY <1>2, <2>1 DEF Selected
<1>3. CASE s.by = "distant"
  <2>1. LocationOf(place, x) \in Tile
    BY <1>3, LocationOfTarget
  <2>2. Circle(LocationOf(place, x), s.max, s.logical) \subseteq Tile
    BY <2>1, CircleIsTiles
  <2> QED BY <1>3, <2>2 DEF Selected, Distant
<1>4. CASE s.by = "reached"
  <2>1. LocationOf(place, x) \in Tile
    BY <1>4, LocationOfTarget
  <2>2. Reachable(place, x, s.min, s.max) \subseteq Tile
    BY <2>1, ReachableIsTiles
  <2> QED BY <1>4, <2>2 DEF Selected
<1>5. CASE s.by = "has"
  <2>1. LocationOf(place, x) \in Tile
    BY <1>5, LocationOfTarget
  <2> QED BY <1>5, <2>1 DEF Selected
<1>6. CASE s.by = "in"
  BY <1>6, TilesOfTarget DEF Selected
<1> QED BY <1>1, <1>2, <1>3, <1>4, <1>5, <1>6

-----------------------------------------------------------------------------
(* Choices *)

\* Whatever is offered is of the targeter's type and makes sense as the pawns stand.
LEMMA ChoicesFit ==
    ASSUME NEW p, NEW t, t.type \in Type,
           Selected(Place(p), t, p.targets[t.of]) \subseteq Tile,
           NEW x \in GiveChoices(p, t)
    PROVE  x \in OfType(Place(p), t.type)
<1> DEFINE place == Place(p)
           built == UNION {Built(place, t.type, u) : u \in Selected(place, t, p.targets[t.of])}
           legal == {y \in built \ {Target("pawn", Shooter)} :
                        \A f \in t.filters :
                            f.of \in DOMAIN p.targets => Meets(place, f, y, p.targets[f.of])}
           whole == IF t.type = "group" /\ legal # {}
                    THEN {Target("group", {y.id : y \in legal})}
                    ELSE legal
<1>1. x \in whole
  BY DEF GiveChoices
<1> HIDE DEF place
<1>2. \A y \in built :
          /\ t.type # "group" => y \in OfType(place, t.type)
          /\ t.type = "group" => y \in OfType(place, "pawn")
  BY BuiltFits DEF place
<1> HIDE DEF built
<1>3. CASE t.type # "group"
  BY <1>1, <1>2, <1>3 DEF place
<1>4. CASE t.type = "group" /\ legal = {}
  BY <1>1, <1>4
<1>5. CASE t.type = "group" /\ legal # {}
  <2>1. \A y \in legal : y.id \in On(place, Tile)
    BY <1>2, <1>5 DEF OfType, Target
  <2>2. x = Target("group", {y.id : y \in legal})
    BY <1>1, <1>5
  <2>3. {y.id : y \in legal} \in (SUBSET On(place, Tile)) \ {{}}
    BY <1>5, <2>1
  <2> HIDE DEF legal
  <2> QED BY <1>5, <2>2, <2>3 DEF OfType, place
<1> QED BY <1>3, <1>4, <1>5

\* What a control point is offered to be moved to, is where it is ...
LEMMA PointGoesNowhere ==
    ASSUME NEW p, NEW t, t.type = "tile", t.by = "reached",
           IsPoint(p.targets[t.of]), NEW x \in GiveChoices(p, t)
    PROVE  x = Target("tile", Place(p)[p.targets[t.of].id])
<1> DEFINE place == Place(p)
           y == p.targets[t.of]
<1>1. Reachable(place, y, t.min, t.max) \subseteq {place[y.id]}
  BY PointReaches
<1>2. x \in UNION {Built(place, t.type, u) : u \in Selected(place, t, y)}
  BY DEF GiveChoices
<1> HIDE DEF place, y
<1>3. PICK u \in Selected(place, t, y) : x \in Built(place, t.type, u)
  BY <1>2
<1>4. x = Target("tile", u)
  BY <1>3 DEF Built
<1>5. u = place[y.id]
  BY <1>1, <1>3 DEF Selected
<1> QED BY <1>4, <1>5 DEF place, y

\* ... and one that is offered because it reaches a tile, is on it.
LEMMA PointIsThere ==
    ASSUME NEW p, NEW t, t.type = "pawn",
           NEW f \in t.filters, f.by = "reaches", f.negated = FALSE,
           f.of \in DOMAIN p.targets, NEW u, p.targets[f.of] = Target("tile", u),
           NEW x \in GiveChoices(p, t), IsPoint(x)
    PROVE  u = Place(p)[x.id]
<1> DEFINE place == Place(p)
<1>1. Meets(place, f, x, p.targets[f.of])
  BY DEF GiveChoices
<1> HIDE DEF place
<1>2. TilesOf(place, p.targets[f.of]) = {u}
  BY DEF TilesOf, Target
<1>3. Reachable(place, x, f.min, f.max) \subseteq {place[x.id]}
  BY PointReaches
<1>4. TilesOf(place, p.targets[f.of]) \cap Reachable(place, x, f.min, f.max) # {}
  BY <1>1 DEF Meets
<1> QED BY <1>2, <1>3, <1>4 DEF place

\* What is offered depends on what was acquired, and where the pawns stand.
LEMMA ChoicesAgree ==
    ASSUME NEW g, NEW h, g.moved = h.moved, DOMAIN g.targets = DOMAIN h.targets,
           \A n \in DOMAIN g.targets : g.targets[n] = h.targets[n],
           NEW t, t.of \in DOMAIN g.targets
    PROVE  GiveChoices(g, t) = GiveChoices(h, t)
<1>1. Place(g) = Place(h) /\ g.targets[t.of] = h.targets[t.of]
  BY DEF Place
<1> DEFINE place == Place(g)
           built == UNION {Built(place, t.type, u) : u \in Selected(place, t, g.targets[t.of])}
           L(m) == {x \in built \ {Target("pawn", Shooter)} :
                      \A f \in t.filters :
                        f.of \in DOMAIN m.targets => Meets(place, f, x, m.targets[f.of])}
           W(m) == IF t.type = "group" /\ L(m) # {}
                   THEN {Target("group", {x.id : x \in L(m)})} ELSE L(m)
           C(m) == {x \in W(m) : t.new => \A n \in DOMAIN m.targets : ~Same(x, m.targets[n])}
<1>2. GiveChoices(g, t) = C(g) /\ GiveChoices(h, t) = C(h)
  BY <1>1 DEF GiveChoices
<1> HIDE DEF built, place
<1>3. L(g) = L(h)
  OBVIOUS
<1> HIDE DEF L
<1>4. W(g) = W(h)
  BY <1>3
<1> HIDE DEF W
<1>5. C(g) = C(h)
  BY <1>4
<1> QED BY <1>2, <1>5

\* The player is not offered as a target.
LEMMA NeverHimself ==
    ASSUME NEW g, NEW t, NEW x \in GiveChoices(g, t)
    PROVE  x # Target("pawn", Shooter)
<1> DEFINE place == Place(g)
           built == UNION {Built(place, t.type, u) : u \in Selected(place, t, g.targets[t.of])}
           legal == {y \in built \ {Target("pawn", Shooter)} :
                      \A f \in t.filters :
                        f.of \in DOMAIN g.targets => Meets(place, f, y, g.targets[f.of])}
           whole == IF t.type = "group" /\ legal # {}
                    THEN {Target("group", {y.id : y \in legal})} ELSE legal
<1>1. x \in whole
  BY DEF GiveChoices
<1> HIDE DEF built, place
<1>2. legal \subseteq built \ {Target("pawn", Shooter)}
  OBVIOUS
<1> HIDE DEF legal
<1>3. \A S : Target("group", S) # Target("pawn", Shooter)
  BY DEF Target
<1> QED BY <1>1, <1>2, <1>3

\* How one that is not a group is offered.
LEMMA OfferedIs ==
    ASSUME NEW g, NEW t, t.type # "group", NEW x \in GiveChoices(g, t)
    PROVE  /\ \E u \in Selected(Place(g), t, g.targets[t.of]) : x \in Built(Place(g), t.type, u)
           /\ \A f \in t.filters :
                 f.of \in DOMAIN g.targets => Meets(Place(g), f, x, g.targets[f.of])
           /\ t.new => \A n \in DOMAIN g.targets : ~Same(x, g.targets[n])
BY DEF GiveChoices

LEMMA WalkNowhere == ASSUME NEW s \in Tile, NEW n \in Nat PROVE Walk(s, s, n)
<1> DEFINE way == [i \in 0..n |-> s]
<1>1. way \in [0..n -> Tile] /\ way[0] = s /\ way[n] = s
  OBVIOUS
<1>2. \A i \in 0..n - 1 : way[i] = way[i + 1]
  OBVIOUS
<1> HIDE DEF way
<1> QED BY <1>1, <1>2 DEF Walk

\* What is within two steps is a walk of two steps.
LEMMA ReachedIsWalk ==
    ASSUME NEW place, NEW x, LocationOf(place, x) \in Tile, NEW min, NEW max \in 0..2,
           NEW u \in Reachable(place, x, min, max)
    PROVE  Walk(LocationOf(place, x), u, 2)
<1> DEFINE from == LocationOf(place, x)
<1>1. u = from \/ u \in Circle(from, max, TRUE)
  BY DEF Reachable
<1> HIDE DEF from
<1>2. from \in Tile /\ max \in Nat /\ max <= 2
  BY DEF from
<1>3. CASE u = from
  BY <1>2, <1>3, WalkNowhere DEF from
<1>4. CASE u \in Circle(from, max, TRUE)
  <2>1. Walk(from, u, max)
    BY <1>2, <1>4, CirclesAreWalks
  <2> QED BY <1>2, <2>1, WalkLonger DEF from
<1> QED BY <1>1, <1>3, <1>4

LEMMA DistantIsWalk ==
    ASSUME NEW place, NEW x, LocationOf(place, x) \in Tile, NEW min, NEW max \in Nat,
           NEW u \in Distant(place, x, min, max, TRUE)
    PROVE  Walk(LocationOf(place, x), u, max)
<1>1. u \in Circle(LocationOf(place, x), max, TRUE)
  BY DEF Distant
<1> QED BY <1>1, CirclesAreWalks

\* The tile that is picked for a pawn is within two steps of it.
LEMMA TileIsNear ==
    ASSUME NEW g, NEW t, t.type = "tile", t.max \in 0..2,
           t.by = "reached" \/ (t.by = "distant" /\ t.logical = TRUE),
           NEW c, g.targets[t.of] = Target("pawn", c), Place(g)[c] \in Tile,
           NEW x \in GiveChoices(g, t)
    PROVE  \E u \in Tile : x = Target("tile", u) /\ Walk(Place(g)[c], u, 2)
<1> DEFINE y == g.targets[t.of]
<1>1. LocationOf(Place(g), y) = Place(g)[c]
  BY DEF LocationOf, Target
<1>2. PICK u \in Selected(Place(g), t, y) : x \in Built(Place(g), t.type, u)
  BY OfferedIs
<1>3. x = Target("tile", u)
  BY <1>2 DEF Built
<1> HIDE DEF y
<1>4. Walk(Place(g)[c], u, 2)
  <2>1. CASE t.by = "reached"
    <3>1. u \in Reachable(Place(g), y, t.min, t.max)
      BY <1>2, <2>1 DEF Selected
    <3> QED BY <1>1, <3>1, ReachedIsWalk
  <2>2. CASE t.by = "distant" /\ t.logical = TRUE
    <3>1. u \in Distant(Place(g), y, t.min, t.max, TRUE)
      BY <1>2, <2>2 DEF Selected
    <3>2. Walk(Place(g)[c], u, t.max)
      <4>1. t.max \in Nat /\ LocationOf(Place(g), y) \in Tile
        BY <1>1
      <4>2. Walk(LocationOf(Place(g), y), u, t.max)
        BY <3>1, <4>1, DistantIsWalk
      <4> QED BY <1>1, <4>2
    <3> QED BY <3>2, WalkLonger
  <2> QED BY <2>1, <2>2
<1>5. u \in Tile
  <2>1. PICK way \in [0..2 -> Tile] : way[2] = u
    BY <1>4 DEF Walk
  <2> QED BY <2>1
<1> QED BY <1>3, <1>4, <1>5

\* A pawn that is picked for a tile is within two steps of it.
LEMMA PawnIsNear ==
    ASSUME NEW g, NEW t, t.type = "pawn", NEW f \in t.filters,
           f.by = "reaches", f.negated = FALSE, f.max \in 0..2,
           f.of \in DOMAIN g.targets, NEW u, g.targets[f.of] = Target("tile", u),
           NEW c, Place(g)[c] \in Tile, Target("pawn", c) \in GiveChoices(g, t)
    PROVE  Walk(Place(g)[c], u, 2)
<1> DEFINE x == Target("pawn", c)
<1>1. LocationOf(Place(g), x) = Place(g)[c]
  BY DEF LocationOf, Target
<1>2. Meets(Place(g), f, x, g.targets[f.of])
  BY OfferedIs
<1>3. TilesOf(Place(g), g.targets[f.of]) = {u}
  BY DEF TilesOf, Target
<1> HIDE DEF x
<1>4. u \in Reachable(Place(g), x, f.min, f.max)
  BY <1>2, <1>3 DEF Meets
<1> QED BY <1>1, <1>4, ReachedIsWalk

\* A tile in a direction.
LEMMA DirectionIs ==
    ASSUME NEW g, NEW t, t.type \in {"direction", "directionph"}, t.by = "has",
           g.targets[t.of] = Target("pawn", Shooter), NEW x \in GiveChoices(g, t)
    PROVE  \E d \in Direction :
              x = Target("direction", Line(Place(g)[Shooter], d, t.type = "direction"))
<1> DEFINE s == Place(g)[Shooter]
<1>1. LocationOf(Place(g), g.targets[t.of]) = s
  BY DEF LocationOf, Target
<1>2. Selected(Place(g), t, g.targets[t.of]) = {s}
  BY <1>1 DEF Selected
<1>3. x \in Built(Place(g), t.type, s)
  BY <1>2, OfferedIs
<1> HIDE DEF s
<1>4. CASE t.type = "direction"
  <2>1. PICK d \in DOMAIN Neighbors(s, TRUE) : x = Target("direction", Line(s, d, TRUE))
    BY <1>3, <1>4 DEF Built
  <2>2. d \in Direction
    BY DEF Neighbors
  <2>3. (t.type = "direction") = TRUE
    BY <1>4
  <2> QED BY <2>1, <2>2, <2>3 DEF s
<1>5. CASE t.type = "directionph"
  <2>1. PICK d \in DOMAIN Neighbors(s, FALSE) : x = Target("direction", Line(s, d, FALSE))
    BY <1>3, <1>5 DEF Built
  <2>2. d \in Direction
    BY DEF Neighbors
  <2>3. (t.type = "direction") = FALSE
    BY <1>5
  <2> QED BY <2>1, <2>2, <2>3 DEF s
<1> QED BY <1>4, <1>5

\* What is in a target, is on its tiles.
LEMMA InIs ==
    ASSUME NEW g, NEW t, t.by = "in", NEW x \in GiveChoices(g, t)
    PROVE  /\ t.type = "tile" =>
                 \E u \in TilesOf(Place(g), g.targets[t.of]) : x = Target("tile", u)
           /\ t.type = "pawn" =>
                 \E c \in Pawn : /\ x = Target("pawn", c)
                                 /\ Place(g)[c] \in TilesOf(Place(g), g.targets[t.of])
<1>0. Selected(Place(g), t, g.targets[t.of]) = TilesOf(Place(g), g.targets[t.of])
  BY DEF Selected
<1>1. ASSUME t.type = "tile"
      PROVE  \E u \in TilesOf(Place(g), g.targets[t.of]) : x = Target("tile", u)
  <2>1. PICK u \in TilesOf(Place(g), g.targets[t.of]) : x \in Built(Place(g), t.type, u)
    BY <1>0, <1>1, OfferedIs
  <2> QED BY <1>1, <2>1 DEF Built
<1>2. ASSUME t.type = "pawn"
      PROVE  \E c \in Pawn : /\ x = Target("pawn", c)
                             /\ Place(g)[c] \in TilesOf(Place(g), g.targets[t.of])
  <2>1. PICK u \in TilesOf(Place(g), g.targets[t.of]) : x \in Built(Place(g), t.type, u)
    BY <1>0, <1>2, OfferedIs
  <2> QED BY <1>2, <2>1 DEF Built, On
<1> QED BY <1>1, <1>2

-----------------------------------------------------------------------------
(* Plans *)

\* Everybody is somewhere, the control points and the player who plays on the map.
OnTheMap ==
    /\ at \in [Pawn -> Tile \cup {Nowhere}]
    /\ \A c \in Point : at[c] = Spot[c]
    /\ at[Shooter] \in Tile

\* A plan is a record with these fields.
Shape(p) ==
    p = [weapon |-> p.weapon, done |-> p.done, now |-> p.now, ask |-> p.ask, todo |-> p.todo,
         targets |-> p.targets, moved |-> p.moved, history |-> p.history]

\* The Sandbox moves pawns to tiles, and control points to where they are.
Moved(p) ==
    /\ DOMAIN p.moved \subseteq Pawn
    /\ \A q \in DOMAIN p.moved : p.moved[q] \in Tile
    /\ \A c \in Point \cap DOMAIN p.moved : p.moved[c] = at[c]

\* Every target was acquired by a targeter of an action that was picked, and makes
\* sense as the pawns stand in the Sandbox.
Acquired(p) ==
    /\ "self" \in DOMAIN p.targets /\ p.targets["self"] = Target("pawn", Shooter)
    /\ \A n \in DOMAIN p.targets \ {"self"} :
          \E a \in p.done : \E t \in Targeters(a) :
              t.name = n /\ p.targets[n] \in OfType(Place(p), t.type)

\* What is merged, and who is hit.
Entry == [do : {"move", "damage"}, who : SUBSET Pawn, to : Tile]

\* st is where the pawns stand after each entry of the history.
Course(history, st) ==
    /\ st = [i \in 0..Len(history) |-> st[i]]
    /\ st[0] = at
    /\ \A i \in 1..Len(history) : st[i] = Move(st[i - 1], history[i])

\* Merged on the map, the history leads to what the Sandbox shows.
Told(p) ==
    /\ p.history \in Seq(Entry)
    /\ \E st : Course(p.history, st) /\ st[Len(p.history)] = Place(p)

Sound(p) ==
    /\ Shape(p)
    /\ p.weapon \in DOMAIN Weapon /\ p.done \subseteq Weapon[p.weapon]
    /\ Moved(p) /\ Acquired(p) /\ Told(p)

\* Control points are moved, by the action that is under way, to where they are.
Linked(p) ==
    \A e \in Range(ActionOf[p.now].effects) :
        /\ e.do = "move" /\ e.target # "self"
        /\ e.target \in DOMAIN p.targets /\ e.to \in DOMAIN p.targets
        /\ IsPoint(p.targets[e.target])
        => p.targets[e.to] = Target("tile", at[p.targets[e.target].id])

\* The targeters of the action from the k-th on have not acquired anything yet.
Fresh(p, k) ==
    \A i \in DOMAIN ActionOf[p.now].targeters :
        i >= k => ActionOf[p.now].targeters[i].name \notin DOMAIN p.targets

\* The names of the targeters of the action under way from the i-th on.
NamesFrom(p, i) ==
    LET ts == ActionOf[p.now].targeters IN {ts[j].name : j \in {k \in DOMAIN ts : k >= i}}

\* The Sandbox as the i-th targeter found it.
AsBefore(p, i) ==
    [moved |-> p.moved,
     targets |-> [n \in DOMAIN p.targets \ NamesFrom(p, i) |-> p.targets[n]]]

\* What the targeters before the k-th acquired had been offered, and what they did not
\* acquire was optional, and not to be had if it was looked for automatically.
Given(p, k) ==
    LET ts == ActionOf[p.now].targeters IN
    \A i \in DOMAIN ts : i < k =>
        LET offered == GiveChoices(AsBefore(p, i), ts[i]) IN
        /\ ts[i].of \in DOMAIN AsBefore(p, i).targets
        /\ ts[i].name \in DOMAIN p.targets => p.targets[ts[i].name] \in offered
        /\ ts[i].name \notin DOMAIN p.targets =>
              ts[i].optional /\ (ts[i].automatic => offered = {})

\* Who has been moved was a target of a move of one of these actions.
MovedBy(p, actions) ==
    \A c \in DOMAIN p.moved : \E b \in actions : \E e \in Moves(b) :
        e.target \in DOMAIN p.targets /\ p.targets[e.target] = Target("pawn", c)

\* Who has been hit was a target of theirs.
HitBy(p, actions) ==
    \A i \in DOMAIN p.history : p.history[i].do = "damage" =>
        \E b \in actions : \E e \in Range(ActionOf[b].effects) :
            /\ e.do = "damage" /\ e.target \in DOMAIN p.targets
            /\ p.targets[e.target].is = "pawn" => p.history[i].who \subseteq {p.targets[e.target].id}

\* They have acquired all targets that are not optional.
Complete(p, actions) ==
    \A b \in actions : \A t \in Targeters(b) : ~t.optional => t.name \in DOMAIN p.targets

Traced(p, actions) == MovedBy(p, actions) /\ HitBy(p, actions) /\ Complete(p, actions)

\* Actions that exclude each other are not both used, nobody aims at himself, and
\* nobody has been taken further than two steps.
Orderly(p) ==
    /\ \A a, b \in p.done : a # b => ~Exclude(a, b)
    /\ \A n \in DOMAIN p.targets \ {"self"} : p.targets[n] # Target("pawn", Shooter)
    /\ \A c \in DOMAIN p.moved : at[c] \in Tile /\ Walk(at[c], p.moved[c], 2)

\* The moves to come are of two steps at most.
Ready(p) ==
    \A e \in Moves(p.now) :
        e.target \in DOMAIN p.targets /\ e.to \in DOMAIN p.targets =>
            \E c \in Pawn, u \in Tile :
                /\ p.targets[e.target] = Target("pawn", c) /\ p.targets[e.to] = Target("tile", u)
                /\ at[c] \in Tile /\ Walk(at[c], u, 2)

Hit(q) == UNION {q.history[i].who : i \in {j \in DOMAIN q.history : q.history[j].do = "damage"}}

FlamesFit(q) ==
    q.now = "flames" =>
        \E d \in Direction : \A c \in Hit(q) : Straight(at[Shooter], d, at[c])

LaserFits(q) ==
    q.now = "laser" =>
        \A c \in Hit(q) :
            \/ Row(at[c]) = Row(at[Shooter]) \/ Column(at[c]) = Column(at[Shooter])
            \/ \E t \in q.targets["direz"].id :
                  Column(t) = Length - 1 /\ t + 1 \in q.targets["direz"].id

NoTileLeft(q) ==
    \A d \in Direction :
        q.targets["tile1"].id = at[Shooter] + Diff[d] =>
            ~Straight(at[Shooter], d, at[Shooter] + 2 * Diff[d])

\* The action under way follows upon others that have followed the rules.
Ruled(p) ==
    /\ Orderly(p) /\ Traced(p, p.done \ {p.now})
    /\ ActionOf[p.now].before \subseteq p.done \ {p.now}

Running(p, k) ==
    /\ Sound(p) /\ p.now \in p.done /\ Fresh(p, k) /\ Linked(p)
    /\ Ruled(p) /\ Given(p, k)

\* Only the question differs.
Alike(p, q) ==
    /\ Shape(q)
    /\ q.weapon = p.weapon /\ q.done = p.done /\ q.now = p.now
    /\ q.targets = p.targets /\ q.moved = p.moved /\ q.history = p.history

LEMMA AlikeRuns ==
    ASSUME NEW p, NEW q, Alike(p, q)
    PROVE  /\ Sound(p) => Sound(q)
           /\ Orderly(p) => Orderly(q)
           /\ \A D : Traced(p, D) => Traced(q, D)
           /\ Ruled(p) => Ruled(q)
           /\ FlamesFit(p) /\ LaserFits(p) => FlamesFit(q) /\ LaserFits(q)
           /\ NoTileLeft(p) => NoTileLeft(q)
           /\ \A k : Running(p, k) => Running(q, k)
<1>1. Place(q) = Place(p)
  BY DEF Alike, Place
<1>2. Sound(p) => Sound(q)
  BY <1>1 DEF Alike, Sound, Moved, Acquired, Told
<1>3. Linked(p) => Linked(q)
  BY DEF Alike, Linked
<1>4. \A k : Fresh(p, k) => Fresh(q, k)
  BY DEF Alike, Fresh
<1>5. Orderly(p) => Orderly(q)
  BY DEF Alike, Orderly
<1>6. \A D : Traced(p, D) => Traced(q, D)
  BY DEF Alike, Traced, MovedBy, HitBy, Complete
<1>7. Ruled(p) => Ruled(q)
  BY <1>5, <1>6 DEF Alike, Ruled
<1>8. \A k : Given(p, k) => Given(q, k)
  <2>1. \A i : NamesFrom(q, i) = NamesFrom(p, i)
    BY DEF Alike, NamesFrom
  <2>2. \A i : AsBefore(q, i) = AsBefore(p, i)
    BY <2>1 DEF Alike, AsBefore
  <2> QED BY <2>2 DEF Alike, Given
<1>9. FlamesFit(p) /\ LaserFits(p) => FlamesFit(q) /\ LaserFits(q)
  <2>1. Hit(q) = Hit(p)
    BY DEF Alike, Hit
  <2> QED BY <2>1 DEF Alike, FlamesFit, LaserFits
<1>10. NoTileLeft(p) => NoTileLeft(q)
  BY DEF Alike, NoTileLeft
<1>11. \A k : Running(p, k) => Running(q, k)
  BY <1>2, <1>3, <1>4, <1>7, <1>8 DEF Running, Alike
<1> QED BY <1>2, <1>5, <1>6, <1>7, <1>9, <1>10, <1>11

LEMMA AskChanged ==
    ASSUME NEW p, Shape(p), NEW v, NEW q, q = [p EXCEPT !.ask = v]
    PROVE  Alike(p, q) /\ q.ask = v /\ q.todo = p.todo
BY DEF Shape, Alike

LEMMA TargetsChanged ==
    ASSUME NEW p, Shape(p), NEW T, NEW q, q = [p EXCEPT !.targets = T]
    PROVE  /\ Shape(q) /\ q.weapon = p.weapon /\ q.done = p.done /\ q.now = p.now
           /\ q.ask = p.ask /\ q.todo = p.todo
           /\ q.targets = T /\ q.moved = p.moved /\ q.history = p.history
BY DEF Shape

\* Where a pawn stands in the Sandbox.
LEMMA PlaceOf ==
    ASSUME OnTheMap, NEW p, Moved(p)
    PROVE  /\ Place(p) \in [Pawn -> Tile \cup {Nowhere}]
           /\ \A c \in Point : Place(p)[c] = at[c]
           /\ Place(p)[Shooter] \in Tile
<1>1. Point \subseteq Pawn /\ Shooter \in Pawn
  BY TargetingAssumption DEF Pawn
<1>2. DOMAIN at = Pawn
  BY DEF OnTheMap
<1> QED BY <1>1, <1>2 DEF OnTheMap, Moved, Place, Over

\* What a target that was acquired is.
LEMMA AcquiredFits ==
    ASSUME OnTheMap, NEW p, Sound(p), NEW n \in DOMAIN p.targets
    PROVE  \E type \in Type :
              /\ p.targets[n] \in OfType(Place(p), type)
              /\ n = "self" => type = "pawn"
              /\ n # "self" => type \in TypesOf(p.weapon, n)
<1>1. CASE n = "self"
  <2>1. Shooter \in On(Place(p), Tile)
    BY PlaceOf, TargetingAssumption DEF Sound, On, Pawn
  <2>2. p.targets[n] \in OfType(Place(p), "pawn")
    BY <1>1, <2>1 DEF Sound, Acquired, OfType
  <2> QED BY <1>1, <2>2 DEF Type
<1>2. CASE n # "self"
  <2>0. PICK a \in p.done :
            \E t \in Targeters(a) : t.name = n /\ p.targets[n] \in OfType(Place(p), t.type)
    BY <1>2 DEF Sound, Acquired
  <2>1. PICK t \in Targeters(a) : t.name = n /\ p.targets[n] \in OfType(Place(p), t.type)
    BY <2>0
  <2>2. a \in Weapon[p.weapon] /\ a \in DOMAIN ActionOf
    BY TargetingAssumption DEF Sound
  <2>3. t.type \in Type
    BY <2>2, ActionAssumption DEF Type
  <2>4. t.type \in TypesOf(p.weapon, n)
    BY <2>1, <2>2 DEF TypesOf
  <2> QED BY <1>2, <2>1, <2>3, <2>4
<1> QED BY <1>1, <1>2

-----------------------------------------------------------------------------
(* A target is acquired *)

LEMMA ActionOfPlan ==
    ASSUME NEW p, Sound(p), p.now \in p.done
    PROVE  /\ p.weapon \in DOMAIN Weapon /\ p.now \in Weapon[p.weapon]
           /\ p.now \in DOMAIN ActionOf
           /\ ActionOf[p.now].targeters \in Seq(Targeter)
           /\ ActionOf[p.now].effects \in Seq(Effect)
<1>1. p.weapon \in DOMAIN Weapon /\ p.now \in Weapon[p.weapon]
  BY DEF Sound
<1>2. p.now \in DOMAIN ActionOf
  BY <1>1, TargetingAssumption
<1> QED BY <1>1, <1>2, ActionAssumption

LEMMA TargeterOfPlan ==
    ASSUME NEW p, Sound(p), p.now \in p.done,
           NEW k \in DOMAIN ActionOf[p.now].targeters,
           NEW t, t = ActionOf[p.now].targeters[k]
    PROVE  /\ t \in Targeters(p.now) /\ t.type \in Type
           /\ t.by \in {"exists", "seen", "distant", "reached", "has", "in"}
           /\ t.min \in Int /\ t.max \in Int
           /\ t.name # "self" /\ t.type \in TypesOf(p.weapon, t.name)
           /\ \A f \in t.filters : f.negated \in BOOLEAN
           /\ t.by \in {"seen", "distant", "reached", "has"}
                => TypesOf(p.weapon, t.of) \subseteq {"pawn", "tile"}
<1>1. p.weapon \in DOMAIN Weapon /\ p.now \in Weapon[p.weapon] /\ p.now \in DOMAIN ActionOf
  BY ActionOfPlan
<1>2. t \in Targeters(p.now)
  BY DEF Targeters, Range
<1>3. /\ t.type \in Type
      /\ t.by \in {"exists", "seen", "distant", "reached", "has", "in"}
      /\ t.min \in Int /\ t.max \in Int
      /\ t.name # "self"
      /\ \A f \in t.filters : f.negated \in BOOLEAN
  BY <1>1, <1>2, ActionAssumption DEF Type
<1>4. t.type \in TypesOf(p.weapon, t.name)
  BY <1>1, <1>2 DEF TypesOf
<1>5. t.by \in {"seen", "distant", "reached", "has"}
        => TypesOf(p.weapon, t.of) \subseteq {"pawn", "tile"}
  BY <1>1, <1>2, WeaponAssumption
<1> QED BY <1>2, <1>3, <1>4, <1>5

\* A choice of the player makes sense as the pawns stand.
LEMMA ChoiceFits ==
    ASSUME OnTheMap, NEW p, Sound(p), p.now \in p.done,
           NEW k \in DOMAIN ActionOf[p.now].targeters,
           NEW t, t = ActionOf[p.now].targeters[k], t.of \in DOMAIN p.targets,
           NEW x \in GiveChoices(p, t)
    PROVE  x \in OfType(Place(p), t.type)
<1>1. PICK type \in Type :
         /\ p.targets[t.of] \in OfType(Place(p), type)
         /\ t.of = "self" => type = "pawn"
         /\ t.of # "self" => type \in TypesOf(p.weapon, t.of)
  BY AcquiredFits
<1>2. /\ t.type \in Type
      /\ t.by \in {"exists", "seen", "distant", "reached", "has", "in"}
      /\ t.min \in Int /\ t.max \in Int
      /\ t.by \in {"seen", "distant", "reached", "has"}
           => TypesOf(p.weapon, t.of) \subseteq {"pawn", "tile"}
  BY TargeterOfPlan
<1>3. t.by \in {"seen", "distant", "reached", "has"} => type \in {"pawn", "tile"}
  BY <1>1, <1>2
<1>4. Selected(Place(p), t, p.targets[t.of]) \subseteq Tile
  BY <1>1, <1>2, <1>3, SelectedAreTiles
<1> QED BY <1>2, <1>4, ChoicesFit

\* What was acquired by the name of a pawn, or of a tile, is one.
LEMMA AcquiredPawnOrTile ==
    ASSUME OnTheMap, NEW p, Sound(p), NEW n \in DOMAIN p.targets, n # "self"
    PROVE  /\ TypesOf(p.weapon, n) \subseteq {"tile"}
                => \E u \in Tile : p.targets[n] = Target("tile", u)
           /\ TypesOf(p.weapon, n) \subseteq {"pawn"}
                => \E q \in On(Place(p), Tile) : p.targets[n] = Target("pawn", q)
BY AcquiredFits DEF OfType

\* The targeter of an action that has acquired nothing so far acquires x.
Acquires(p, k, x, q) ==
    /\ p.now \in p.done /\ k \in DOMAIN ActionOf[p.now].targeters
    /\ LET t == ActionOf[p.now].targeters[k] IN
       /\ t.of \in DOMAIN p.targets /\ x \in GiveChoices(p, t)
       /\ q = [p EXCEPT !.targets = Over([n \in {t.name} |-> x], @)]

\* A control point that is moved is moved to where it is.
LEMMA AcquireLinks ==
    ASSUME OnTheMap, NEW p, NEW k, Running(p, k), NEW x, NEW q, Acquires(p, k, x, q)
    PROVE  Linked(q)
<1> DEFINE ts == ActionOf[p.now].targeters
           t == ts[k]
<1>1. Shape(q) /\ q.now = p.now /\ q.targets = Over([n \in {t.name} |-> x], p.targets)
  BY TargetsChanged DEF Acquires, Running, Sound
<1>2. /\ DOMAIN q.targets = DOMAIN p.targets \cup {t.name}
      /\ q.targets[t.name] = x
      /\ \A m \in DOMAIN p.targets \ {t.name} : q.targets[m] = p.targets[m]
  BY <1>1 DEF Over
<1>3. k \in DOMAIN ts /\ t.of \in DOMAIN p.targets /\ x \in GiveChoices(p, t)
      /\ p.now \in p.done /\ Sound(p) /\ Linked(p) /\ Fresh(p, k)
  BY DEF Acquires, Running
<1>4. ts \in Seq(Targeter) /\ p.now \in DOMAIN ActionOf
      /\ p.weapon \in DOMAIN Weapon /\ p.now \in Weapon[p.weapon]
  BY <1>3, ActionOfPlan
<1>5. DOMAIN ts \subseteq Nat /\ k \in Nat
  BY <1>3, <1>4, LenProperties
<1>6. \A i, j \in DOMAIN ts : ts[i].name = ts[j].name => i = j
  BY <1>4, ActionAssumption
<1>7. \A i \in DOMAIN ts : i >= k => ts[i].name \notin DOMAIN p.targets
  BY <1>3 DEF Fresh
<1>8. t.name \notin DOMAIN p.targets
  BY <1>3, <1>5, <1>7
<1>9. t.type \in TypesOf(p.weapon, t.name) /\ \A f \in t.filters : f.negated \in BOOLEAN
  BY <1>3, TargeterOfPlan
<1>10. \A c \in Point : Place(p)[c] = at[c]
  BY <1>3, PlaceOf DEF Sound
<1> SUFFICES ASSUME NEW e \in Range(ActionOf[p.now].effects),
                    e.do = "move", e.target # "self",
                    e.target \in DOMAIN q.targets, e.to \in DOMAIN q.targets,
                    IsPoint(q.targets[e.target])
             PROVE  q.targets[e.to] = Target("tile", at[q.targets[e.target].id])
  BY <1>1 DEF Linked
<1>11. Guided(p.weapon, p.now, e)
  BY <1>4, WeaponAssumption
<1>12. TypesOf(p.weapon, e.target) \subseteq {"pawn"} /\ TypesOf(p.weapon, e.to) \subseteq {"tile"}
       /\ e.to # "self"
  BY <1>11 DEF Guided
<1>13. PICK i \in DOMAIN ts :
         \/ /\ ts[i].name = e.to /\ ts[i].by = "reached" /\ ts[i].of = e.target
            /\ e.target \notin {ts[j].name : j \in {m \in DOMAIN ts : m > i}}
         \/ /\ ts[i].name = e.target /\ e.to \notin {ts[j].name : j \in {m \in DOMAIN ts : m > i}}
            /\ \E f \in ts[i].filters : f.by = "reaches" /\ f.of = e.to /\ ~f.negated
  BY <1>11 DEF Guided
<1> HIDE DEF ts
<1>14. \A n \in DOMAIN ts : ts[n].name = t.name => n = k
  BY <1>3, <1>6
<1>15. \A c \in Point : q.targets[e.target].id = c => Place(p)[c] = at[q.targets[e.target].id]
  BY <1>10
<1>16. q.targets[e.target].id \in Point /\ q.targets[e.target].is = "pawn"
  BY DEF IsPoint
<1>17. CASE e.target # t.name /\ e.to # t.name
  <2>1. e.target \in DOMAIN p.targets /\ e.to \in DOMAIN p.targets
    BY <1>2, <1>17
  <2>2. q.targets[e.target] = p.targets[e.target] /\ q.targets[e.to] = p.targets[e.to]
    BY <1>2, <1>17, <2>1
  <2> QED BY <1>3, <2>1, <2>2 DEF Linked
<1>18. CASE e.target = t.name /\ e.to = t.name
  BY <1>9, <1>12, <1>18
<1>19. CASE e.target # t.name /\ e.to = t.name
  <2>1. e.target \in DOMAIN p.targets /\ q.targets[e.target] = p.targets[e.target]
    BY <1>2, <1>19
  <2>2. i \in Nat /\ (i > k => ts[i].name # e.target)
    BY <1>5, <1>7, <2>1
  <2>3. CASE ts[i].name = e.to /\ ts[i].by = "reached" /\ ts[i].of = e.target
    <3>1. i = k
      BY <1>14, <1>19, <2>3
    <3>2. t.type = "tile"
      BY <1>9, <1>12, <1>19
    <3>3. x = Target("tile", Place(p)[p.targets[t.of].id])
      <4>1. t.by = "reached" /\ IsPoint(p.targets[t.of])
        BY <2>1, <2>3, <3>1
      <4> HIDE DEF t
      <4> QED BY <1>3, <3>2, <4>1, PointGoesNowhere
    <3>4. p.targets[t.of] = q.targets[e.target]
      BY <2>1, <2>3, <3>1
    <3> QED BY <1>2, <1>10, <1>16, <1>19, <3>3, <3>4
  <2>4. CASE ts[i].name = e.target /\ e.to \notin {ts[j].name : j \in {m \in DOMAIN ts : m > i}}
    <3>1. ~(k > i)
      BY <1>3, <1>19, <2>4
    <3>2. i # k
      BY <1>19, <2>4
    <3>3. i > k
      BY <1>5, <2>2, <3>1, <3>2
    <3> QED BY <2>2, <2>4, <3>3
  <2> QED BY <1>13, <2>3, <2>4
<1>20. CASE e.target = t.name /\ e.to # t.name
  <2>1. e.to \in DOMAIN p.targets /\ q.targets[e.to] = p.targets[e.to]
    BY <1>2, <1>20
  <2>2. i \in Nat /\ (i > k => ts[i].name # e.to)
    BY <1>5, <1>7, <2>1
  <2>3. CASE ts[i].name = e.to /\ e.target \notin {ts[j].name : j \in {m \in DOMAIN ts : m > i}}
    <3>1. ~(k > i)
      BY <1>3, <1>20, <2>3
    <3>2. i # k
      BY <1>20, <2>3
    <3>3. i > k
      BY <1>5, <2>2, <3>1, <3>2
    <3> QED BY <2>2, <2>3, <3>3
  <2>4. CASE /\ ts[i].name = e.target
             /\ \E f \in ts[i].filters : f.by = "reaches" /\ f.of = e.to /\ ~f.negated
    <3>1. i = k
      BY <1>14, <1>20, <2>4
    <3>2. t.type = "pawn"
      BY <1>9, <1>12, <1>20
    <3>3. PICK f \in t.filters : f.by = "reaches" /\ f.of = e.to /\ ~f.negated
      BY <2>4, <3>1
    <3>4. PICK u \in Tile : p.targets[e.to] = Target("tile", u)
      BY <1>3, <1>12, <2>1, AcquiredPawnOrTile
    <3>5. f.negated = FALSE
      BY <1>9, <3>3
    <3>6. u = Place(p)[x.id]
      <4>1. IsPoint(x) /\ f.of \in DOMAIN p.targets /\ p.targets[f.of] = Target("tile", u)
        BY <1>2, <1>20, <2>1, <3>3, <3>4
      <4> HIDE DEF t
      <4> QED BY <1>3, <3>2, <3>3, <3>5, <4>1, PointIsThere
    <3> QED BY <1>2, <1>10, <1>16, <1>20, <2>1, <3>4, <3>6
  <2> QED BY <1>13, <2>3, <2>4
<1> QED BY <1>17, <1>18, <1>19, <1>20

\* The targeter that is run finds the Sandbox as it is.
LEMMA BeforeIsNow ==
    ASSUME NEW p, NEW k, Fresh(p, k), NEW t, t.of \in DOMAIN p.targets
    PROVE  /\ DOMAIN AsBefore(p, k).targets = DOMAIN p.targets
           /\ GiveChoices(AsBefore(p, k), t) = GiveChoices(p, t)
<1> DEFINE g == AsBefore(p, k)
<1>1. DOMAIN p.targets \ NamesFrom(p, k) = DOMAIN p.targets
  BY DEF Fresh, NamesFrom
<1>2. /\ g.moved = p.moved
      /\ DOMAIN g.targets = DOMAIN p.targets
      /\ \A n \in DOMAIN g.targets : g.targets[n] = p.targets[n]
  BY <1>1 DEF AsBefore
<1> HIDE DEF g
<1> QED BY <1>2, ChoicesAgree DEF g

\* What was offered stays as it was when more is acquired.
LEMMA BeforeStays ==
    ASSUME NEW p, NEW q, q.now = p.now, q.moved = p.moved, NEW i, NEW n \in NamesFrom(p, i),
           DOMAIN q.targets = DOMAIN p.targets \cup {n},
           \A m \in DOMAIN p.targets \ {n} : q.targets[m] = p.targets[m]
    PROVE  AsBefore(q, i) = AsBefore(p, i)
<1> DEFINE D == DOMAIN p.targets \ NamesFrom(p, i)
<1>1. NamesFrom(q, i) = NamesFrom(p, i)
  BY DEF NamesFrom
<1>2. DOMAIN q.targets \ NamesFrom(q, i) = D
  BY <1>1
<1>3. \A m \in D : q.targets[m] = p.targets[m]
  OBVIOUS
<1>4. [m \in D |-> q.targets[m]] = [m \in D |-> p.targets[m]]
  BY <1>3
<1> QED BY <1>2, <1>4 DEF AsBefore

\* One targeter more has acquired what it was offered, ...
LEMMA GivenMore ==
    ASSUME OnTheMap, NEW p, NEW k, Running(p, k), NEW x, NEW q, Acquires(p, k, x, q)
    PROVE  Given(q, k + 1)
<1> DEFINE ts == ActionOf[p.now].targeters
           t == ts[k]
<1>1. /\ Shape(q) /\ q.now = p.now /\ q.moved = p.moved
      /\ q.targets = Over([n \in {t.name} |-> x], p.targets)
  BY TargetsChanged DEF Acquires, Running, Sound
<1>2. /\ DOMAIN q.targets = DOMAIN p.targets \cup {t.name}
      /\ q.targets[t.name] = x
      /\ \A m \in DOMAIN p.targets \ {t.name} : q.targets[m] = p.targets[m]
  BY <1>1 DEF Over
<1>3. k \in DOMAIN ts /\ t.of \in DOMAIN p.targets /\ x \in GiveChoices(p, t)
      /\ p.now \in p.done /\ Sound(p) /\ Fresh(p, k) /\ Given(p, k)
  BY DEF Acquires, Running
<1>4. ts \in Seq(Targeter) /\ p.now \in DOMAIN ActionOf
  BY <1>3, ActionOfPlan
<1>5. DOMAIN ts \subseteq Nat
  BY <1>4, LenProperties
<1>6. \A i, j \in DOMAIN ts : ts[i].name = ts[j].name => i = j
  BY <1>4, ActionAssumption
<1> SUFFICES ASSUME NEW i \in DOMAIN ts, i < k + 1
             PROVE  LET offered == GiveChoices(AsBefore(q, i), ts[i]) IN
                    /\ ts[i].of \in DOMAIN AsBefore(q, i).targets
                    /\ ts[i].name \in DOMAIN q.targets => q.targets[ts[i].name] \in offered
                    /\ ts[i].name \notin DOMAIN q.targets =>
                          ts[i].optional /\ (ts[i].automatic => offered = {})
  BY <1>1 DEF Given
<1>7. i \in Nat /\ k \in Nat /\ (i = k \/ i < k)
  BY <1>3, <1>5
<1>8. t.name \in NamesFrom(p, i)
  BY <1>3, <1>7 DEF NamesFrom
<1>9. AsBefore(q, i) = AsBefore(p, i)
  <2> HIDE DEF t
  <2> QED BY <1>1, <1>2, <1>8, BeforeStays
<1>10. CASE i = k
  <2>1. /\ DOMAIN AsBefore(p, k).targets = DOMAIN p.targets
        /\ GiveChoices(AsBefore(p, k), t) = GiveChoices(p, t)
    <3> HIDE DEF t
    <3> QED BY <1>3, BeforeIsNow
  <2> QED BY <1>2, <1>3, <1>9, <1>10, <2>1
<1>11. CASE i < k
  <2>1. ts[i].name # t.name
    BY <1>3, <1>6, <1>7, <1>11
  <2>2. /\ ts[i].name \in DOMAIN q.targets <=> ts[i].name \in DOMAIN p.targets
        /\ ts[i].name \in DOMAIN p.targets => q.targets[ts[i].name] = p.targets[ts[i].name]
    BY <1>2, <2>1
  <2>3. /\ ts[i].of \in DOMAIN AsBefore(p, i).targets
        /\ ts[i].name \in DOMAIN p.targets
             => p.targets[ts[i].name] \in GiveChoices(AsBefore(p, i), ts[i])
        /\ ts[i].name \notin DOMAIN p.targets =>
              ts[i].optional /\ (ts[i].automatic => GiveChoices(AsBefore(p, i), ts[i]) = {})
    BY <1>3, <1>11 DEF Given
  <2> HIDE DEF ts, t
  <2> QED BY <1>9, <2>2, <2>3
<1> QED BY <1>7, <1>10, <1>11

\* ... or none.
LEMMA GivenNone ==
    ASSUME NEW p, NEW k, Running(p, k), k \in DOMAIN ActionOf[p.now].targeters,
           NEW t, t = ActionOf[p.now].targeters[k], t.of \in DOMAIN p.targets,
           t.optional, t.automatic => GiveChoices(p, t) = {}
    PROVE  Running(p, k + 1)
<1> DEFINE ts == ActionOf[p.now].targeters
<1>1. /\ Sound(p) /\ p.now \in p.done /\ Fresh(p, k) /\ Linked(p)
      /\ Ruled(p) /\ Given(p, k)
  BY DEF Running
<1>2. DOMAIN ts \subseteq Nat /\ k \in Nat
  BY <1>1, ActionOfPlan, LenProperties
<1>3. /\ DOMAIN AsBefore(p, k).targets = DOMAIN p.targets
      /\ GiveChoices(AsBefore(p, k), t) = GiveChoices(p, t)
  BY <1>1, BeforeIsNow
<1>4. t.name \notin DOMAIN p.targets
  BY <1>1, <1>2 DEF Fresh
<1>8. Fresh(p, k + 1)
  <2>1. \A i \in DOMAIN ts : i >= k + 1 => i >= k
    BY <1>2
  <2> QED BY <1>1, <2>1 DEF Fresh
<1> SUFFICES ASSUME NEW i \in DOMAIN ts, i < k + 1
             PROVE  LET offered == GiveChoices(AsBefore(p, i), ts[i]) IN
                    /\ ts[i].of \in DOMAIN AsBefore(p, i).targets
                    /\ ts[i].name \in DOMAIN p.targets => p.targets[ts[i].name] \in offered
                    /\ ts[i].name \notin DOMAIN p.targets =>
                          ts[i].optional /\ (ts[i].automatic => offered = {})
  BY <1>1, <1>8 DEF Running, Given
<1>5. i = k \/ i < k
  BY <1>2
<1>6. CASE i = k
  <2>1. ts[i] = t
    BY <1>6
  <2> HIDE DEF ts
  <2> QED BY <1>3, <1>4, <1>6, <2>1
<1>7. CASE i < k
  BY <1>1, <1>7 DEF Given
<1> QED BY <1>5, <1>6, <1>7

\* What traces there are of the actions remains when more is acquired.
LEMMA TracesStay ==
    ASSUME NEW p, NEW q, q.moved = p.moved, q.history = p.history, q.done = p.done,
           \A n \in DOMAIN p.targets : n \in DOMAIN q.targets /\ q.targets[n] = p.targets[n]
    PROVE  /\ \A D : Traced(p, D) => Traced(q, D)
           /\ Orderly(p) /\ (\A n \in DOMAIN q.targets \ DOMAIN p.targets :
                                q.targets[n] # Target("pawn", Shooter))
                => Orderly(q)
<1>1. \A D : MovedBy(p, D) => MovedBy(q, D)
  BY DEF MovedBy
<1>2. \A D : HitBy(p, D) => HitBy(q, D)
  <2> SUFFICES ASSUME NEW D, HitBy(p, D), NEW i \in DOMAIN q.history, q.history[i].do = "damage"
               PROVE  \E b \in D : \E e \in Range(ActionOf[b].effects) :
                        /\ e.do = "damage" /\ e.target \in DOMAIN q.targets
                        /\ q.targets[e.target].is = "pawn"
                             => q.history[i].who \subseteq {q.targets[e.target].id}
    BY DEF HitBy
  <2>1. PICK b \in D : \E e \in Range(ActionOf[b].effects) :
           /\ e.do = "damage" /\ e.target \in DOMAIN p.targets
           /\ p.targets[e.target].is = "pawn" => p.history[i].who \subseteq {p.targets[e.target].id}
    BY DEF HitBy
  <2> QED BY <2>1
<1>3. \A D : Complete(p, D) => Complete(q, D)
  BY DEF Complete
<1>4. ASSUME Orderly(p), \A n \in DOMAIN q.targets \ DOMAIN p.targets :
                                q.targets[n] # Target("pawn", Shooter)
      PROVE  Orderly(q)
  <2>1. \A n \in DOMAIN q.targets \ {"self"} : q.targets[n] # Target("pawn", Shooter)
    <3>1. \A n \in DOMAIN p.targets \ {"self"} : p.targets[n] # Target("pawn", Shooter)
      BY <1>4 DEF Orderly
    <3> QED BY <1>4, <3>1
  <2> QED BY <1>4, <2>1 DEF Orderly
<1> QED BY <1>1, <1>2, <1>3, <1>4 DEF Traced

\* The action goes on with the next targeter.
LEMMA AcquireRuns ==
    ASSUME OnTheMap, NEW p, NEW k, Running(p, k), NEW x, NEW q, Acquires(p, k, x, q)
    PROVE  /\ Running(q, k + 1)
           /\ q.now = p.now /\ q.done = p.done /\ q.ask = p.ask /\ q.todo = p.todo
           /\ DOMAIN p.targets \subseteq DOMAIN q.targets
<1> DEFINE ts == ActionOf[p.now].targeters
           t == ts[k]
<1>1. /\ Shape(q) /\ q.weapon = p.weapon /\ q.done = p.done /\ q.now = p.now
      /\ q.ask = p.ask /\ q.todo = p.todo
      /\ q.moved = p.moved /\ q.history = p.history
      /\ q.targets = Over([n \in {t.name} |-> x], p.targets)
  BY TargetsChanged DEF Acquires, Running, Sound
<1>2. /\ DOMAIN q.targets = DOMAIN p.targets \cup {t.name}
      /\ q.targets[t.name] = x
      /\ \A m \in DOMAIN p.targets \ {t.name} : q.targets[m] = p.targets[m]
  BY <1>1 DEF Over
<1>3. k \in DOMAIN ts /\ t.of \in DOMAIN p.targets /\ x \in GiveChoices(p, t)
      /\ p.now \in p.done /\ Sound(p) /\ Fresh(p, k)
  BY DEF Acquires, Running
<1>4. Place(q) = Place(p)
  BY <1>1 DEF Place
<1>5. t.name # "self" /\ t \in Targeters(p.now)
  BY <1>3, TargeterOfPlan
<1>6. x \in OfType(Place(q), t.type)
  BY <1>3, <1>4, ChoiceFits
<1>7. Acquired(q)
  <2>1. "self" \in DOMAIN q.targets /\ q.targets["self"] = Target("pawn", Shooter)
    BY <1>2, <1>3, <1>5 DEF Sound, Acquired
  <2>2. ASSUME NEW n \in DOMAIN q.targets \ {"self"}
        PROVE  \E a \in q.done : \E u \in Targeters(a) :
                  u.name = n /\ q.targets[n] \in OfType(Place(q), u.type)
    <3>1. CASE n = t.name
      BY <1>1, <1>2, <1>3, <1>5, <1>6, <3>1
    <3>2. CASE n # t.name
      <4>1. n \in DOMAIN p.targets \ {"self"} /\ q.targets[n] = p.targets[n]
        BY <1>2, <3>2
      <4> HIDE DEF t, ts
      <4> QED BY <1>1, <1>3, <1>4, <4>1 DEF Sound, Acquired
    <3> QED BY <3>1, <3>2
  <2> QED BY <2>1, <2>2 DEF Acquired
<1>8. Moved(q) /\ Told(q)
  BY <1>1, <1>3, <1>4 DEF Sound, Moved, Told
<1>9. Sound(q)
  BY <1>1, <1>3, <1>7, <1>8 DEF Sound
<1>10. Fresh(q, k + 1)
  <2>1. ts \in Seq(Targeter) /\ p.now \in DOMAIN ActionOf
    BY <1>3, ActionOfPlan
  <2>2. DOMAIN ts \subseteq Nat
    BY <2>1, LenProperties
  <2>3. \A i, j \in DOMAIN ts : ts[i].name = ts[j].name => i = j
    BY <2>1, ActionAssumption
  <2>4. ASSUME NEW i \in DOMAIN ts, i >= k + 1 PROVE ts[i].name \notin DOMAIN q.targets
    <3>1. i \in Nat /\ k \in Nat /\ i >= k /\ i # k
      BY <1>3, <2>2, <2>4
    <3>2. ts[i].name \notin DOMAIN p.targets
      BY <1>3, <3>1 DEF Fresh
    <3> QED BY <1>2, <1>3, <2>3, <3>1, <3>2
  <2> QED BY <1>1, <2>4 DEF Fresh
<1>11. Linked(q) /\ Given(q, k + 1)
  BY AcquireLinks, GivenMore
<1>12. Ruled(q)
  <2>1. Ruled(p)
    BY DEF Running
  <2>2. x # Target("pawn", Shooter)
    BY <1>3, NeverHimself
  <2>3. \A n \in DOMAIN p.targets : n \in DOMAIN q.targets /\ q.targets[n] = p.targets[n]
    <3>1. k \in Nat
      BY <1>3, ActionOfPlan, LenProperties
    <3>2. t.name \notin DOMAIN p.targets
      BY <1>3, <3>1 DEF Fresh
    <3> QED BY <1>2, <3>2
  <2>4. \A n \in DOMAIN q.targets \ DOMAIN p.targets : q.targets[n] # Target("pawn", Shooter)
    BY <1>2, <2>2
  <2> HIDE DEF t, ts
  <2>5. /\ \A D : Traced(p, D) => Traced(q, D)
        /\ Orderly(p) => Orderly(q)
    BY <1>1, <2>3, <2>4, TracesStay
  <2> QED BY <1>1, <2>1, <2>5 DEF Ruled
<1> QED BY <1>1, <1>2, <1>3, <1>9, <1>10, <1>11, <1>12 DEF Running

-----------------------------------------------------------------------------
(* What the targeters of an action have acquired *)

\* A targeter's choice, among what was offered to it.
LEMMA GivenAt ==
    ASSUME NEW p, NEW k, Given(p, k), NEW i \in DOMAIN ActionOf[p.now].targeters, i < k,
           NEW t, t = ActionOf[p.now].targeters[i], NEW g, g = AsBefore(p, i)
    PROVE  /\ Place(g) = Place(p)
           /\ t.of \in DOMAIN g.targets
           /\ DOMAIN g.targets \subseteq DOMAIN p.targets
           /\ \A n \in DOMAIN g.targets : g.targets[n] = p.targets[n]
           /\ \A n \in DOMAIN p.targets \ NamesFrom(p, i) : n \in DOMAIN g.targets
           /\ t.name \in DOMAIN p.targets => p.targets[t.name] \in GiveChoices(g, t)
           /\ t.name \notin DOMAIN p.targets =>
                 t.optional /\ (t.automatic => GiveChoices(g, t) = {})
<1>1. Place(g) = Place(p)
  BY DEF AsBefore, Place
<1>2. /\ DOMAIN g.targets = DOMAIN p.targets \ NamesFrom(p, i)
      /\ \A n \in DOMAIN g.targets : g.targets[n] = p.targets[n]
  BY DEF AsBefore
<1>3. /\ t.of \in DOMAIN g.targets
      /\ t.name \in DOMAIN p.targets => p.targets[t.name] \in GiveChoices(g, t)
      /\ t.name \notin DOMAIN p.targets =>
            t.optional /\ (t.automatic => GiveChoices(g, t) = {})
  BY DEF Given
<1> QED BY <1>1, <1>2, <1>3

\* An action moves nobody whom another one has moved.
LEMMA MovesOthers ==
    ASSUME NEW p, Sound(p), p.now \in p.done, NEW n, n = Len(ActionOf[p.now].targeters),
           Given(p, n + 1), Orderly(p), MovedBy(p, p.done \ {p.now}),
           NEW e \in Moves(p.now), NEW c, e.target \in DOMAIN p.targets,
           p.targets[e.target] = Target("pawn", c)
    PROVE  c \notin DOMAIN p.moved
<1> SUFFICES ASSUME c \in DOMAIN p.moved PROVE FALSE
  OBVIOUS
<1>1. PICK b \in p.done \ {p.now} : \E f \in Moves(b) :
         f.target \in DOMAIN p.targets /\ p.targets[f.target] = Target("pawn", c)
  BY DEF MovedBy
<1>2. PICK f \in Moves(b) : f.target \in DOMAIN p.targets /\ p.targets[f.target] = Target("pawn", c)
  BY <1>1
<1>3. /\ p.weapon \in DOMAIN Weapon /\ p.now \in Weapon[p.weapon]
      /\ b \in Weapon[p.weapon] \ {p.now}
      /\ ActionOf[p.now].targeters \in Seq(Targeter) /\ p.now \in DOMAIN ActionOf
  BY <1>1, ActionOfPlan DEF Sound
<1>4. ~Exclude(p.now, b)
  BY <1>1 DEF Orderly
<1>5. Apart(p.now, b)
  BY <1>3, <1>4, ShotAssumption
<1>6. CASE (e.target = "self") # (f.target = "self")
  <2>1. p.targets["self"] = Target("pawn", Shooter)
    BY DEF Sound, Acquired
  <2>2. \A m \in DOMAIN p.targets \ {"self"} : p.targets[m] # Target("pawn", Shooter)
    BY DEF Orderly
  <2>3. CASE e.target = "self"
    <3>1. f.target # "self"
      BY <1>6, <2>3
    <3> QED BY <1>2, <2>1, <2>2, <2>3, <3>1
  <2>4. CASE e.target # "self"
    <3>1. f.target = "self"
      BY <1>6, <2>4
    <3> QED BY <1>2, <2>1, <2>2, <2>4, <3>1
  <2> QED BY <2>3, <2>4
<1>7. CASE PicksNew(p.now, e) /\ PicksNew(b, f)
  <2> DEFINE ts == ActionOf[p.now].targeters
  <2>1. PICK t \in Targeters(p.now) : t.name = e.target /\ t.new
    BY <1>7 DEF PicksNew
  <2>2. PICK i \in DOMAIN ts : ts[i] = t
    BY DEF Targeters, Range
  <2>3. DOMAIN ts = 1..n /\ n \in Nat
    BY <1>3, LenProperties
  <2>4. i < n + 1
    BY <2>3
  <2>5. PICK g : g = AsBefore(p, i)
    OBVIOUS
  <2>6. /\ p.targets[e.target] \in GiveChoices(g, t)
        /\ \A m \in DOMAIN g.targets : g.targets[m] = p.targets[m]
        /\ \A m \in DOMAIN p.targets \ NamesFrom(p, i) : m \in DOMAIN g.targets
    <3> HIDE DEF ts
    <3>1. t = ts[i] /\ i \in DOMAIN ts
      BY <2>2
    <3> QED BY <2>1, <2>4, <2>5, <3>1, GivenAt DEF ts
  <2>7. f.target \notin NamesFrom(p, i)
    <3> SUFFICES ASSUME f.target \in NamesFrom(p, i) PROVE FALSE
      OBVIOUS
    <3>1. PICK j \in DOMAIN ts : ts[j].name = f.target
      BY DEF NamesFrom
    <3>2. ts[j] \in Targeters(p.now)
      BY DEF Targeters, Range
    <3>3. PICK u \in Targeters(b) : u.name = f.target
      BY <1>7 DEF PicksNew
    <3> QED BY <1>3, <1>4, <3>1, <3>2, <3>3, WeaponAssumption DEF Exclude
  <2>8. f.target \in DOMAIN g.targets /\ g.targets[f.target] = Target("pawn", c)
    BY <1>2, <2>6, <2>7
  <2>9. t.type # "group"
    <3>1. e.target # "self"
      BY <1>3, <2>1, ActionAssumption
    <3>2. Guided(p.weapon, p.now, e)
      <4>1. e \in Range(ActionOf[p.now].effects) /\ e.do = "move"
        BY DEF Moves
      <4> QED BY <1>3, <3>1, <4>1, WeaponAssumption
    <3>3. t.type \in TypesOf(p.weapon, e.target)
      BY <1>3, <2>1 DEF TypesOf
    <3> QED BY <3>2, <3>3 DEF Guided
  <2>10. ~Same(Target("pawn", c), g.targets[f.target])
    BY <2>1, <2>6, <2>8, <2>9, OfferedIs
  <2> QED BY <2>8, <2>10 DEF Same
<1> QED BY <1>5, <1>6, <1>7, <1>2 DEF Apart

\* When all targeters have been run, the moves to come are short.
LEMMA GivenIsReady ==
    ASSUME OnTheMap, NEW p, Sound(p), p.now \in p.done, NEW n, n = Len(ActionOf[p.now].targeters),
           Given(p, n + 1), Orderly(p), MovedBy(p, p.done \ {p.now})
    PROVE  Ready(p)
<1> DEFINE ts == ActionOf[p.now].targeters
<1> SUFFICES ASSUME NEW e \in Moves(p.now),
                    e.target \in DOMAIN p.targets, e.to \in DOMAIN p.targets
             PROVE  \E c \in Pawn, u \in Tile :
                       /\ p.targets[e.target] = Target("pawn", c)
                       /\ p.targets[e.to] = Target("tile", u)
                       /\ at[c] \in Tile /\ Walk(at[c], u, 2)
  BY DEF Ready
<1>1. /\ p.weapon \in DOMAIN Weapon /\ p.now \in Weapon[p.weapon]
      /\ ts \in Seq(Targeter) /\ p.now \in DOMAIN ActionOf
  BY ActionOfPlan
<1>2. e \in Range(ActionOf[p.now].effects) /\ e.do = "move"
  BY DEF Moves
<1>3. DOMAIN ts = 1..n /\ n \in Nat
  BY <1>1, LenProperties
<1>4. PICK c \in Pawn : p.targets[e.target] = Target("pawn", c) /\ Place(p)[c] \in Tile
  <2>1. CASE e.target = "self"
    <3>1. p.targets["self"] = Target("pawn", Shooter)
      BY DEF Sound, Acquired
    <3>2. Shooter \in Pawn /\ Place(p)[Shooter] \in Tile
      BY PlaceOf, TargetingAssumption DEF Sound, Pawn
    <3> QED BY <2>1, <3>1, <3>2
  <2>2. CASE e.target # "self"
    <3>1. TypesOf(p.weapon, e.target) \subseteq {"pawn"}
      BY <1>1, <1>2, <2>2, WeaponAssumption DEF Guided
    <3>2. PICK c \in On(Place(p), Tile) : p.targets[e.target] = Target("pawn", c)
      BY <2>2, <3>1, AcquiredPawnOrTile
    <3> QED BY <3>2 DEF On
  <2> QED BY <2>1, <2>2
<1>5. at[c] = Place(p)[c]
  <2>1. c \notin DOMAIN p.moved
    BY <1>4, MovesOthers
  <2>2. c \in DOMAIN at
    BY DEF OnTheMap
  <2> QED BY <2>1, <2>2 DEF Place, Over
<1>6. PICK i \in DOMAIN ts :
        \/ /\ ts[i].name = e.to /\ ts[i].type = "tile" /\ ts[i].of = e.target
           /\ ts[i].by = "reached" \/ (ts[i].by = "distant" /\ ts[i].logical)
           /\ ts[i].max \in 0..2
        \/ /\ ts[i].name = e.target /\ ts[i].type = "pawn"
           /\ \A j \in DOMAIN ts : j >= i => ts[j].name # e.to
           /\ \E f \in ts[i].filters :
                 f.by = "reaches" /\ f.of = e.to /\ f.max \in 0..2 /\ ~f.negated
  BY <1>1, ShotAssumption DEF ShortMove
<1>7. i < n + 1
  BY <1>3
<1>8. PICK g : g = AsBefore(p, i)
  OBVIOUS
<1>9. PICK t : t = ts[i]
  OBVIOUS
<1>10. /\ Place(g) = Place(p)
       /\ t.of \in DOMAIN g.targets
       /\ \A m \in DOMAIN g.targets : g.targets[m] = p.targets[m]
       /\ \A m \in DOMAIN p.targets \ NamesFrom(p, i) : m \in DOMAIN g.targets
       /\ t.name \in DOMAIN p.targets => p.targets[t.name] \in GiveChoices(g, t)
  <2> HIDE DEF ts
  <2> QED BY <1>7, <1>8, <1>9, GivenAt DEF ts
<1>11. t \in Targeters(p.now)
  BY <1>9 DEF Targeters, Range
<1>12. t.logical \in BOOLEAN /\ \A f \in t.filters : f.negated \in BOOLEAN
  BY <1>1, <1>11, ActionAssumption
<1>13. CASE /\ t.name = e.to /\ t.type = "tile" /\ t.of = e.target
            /\ t.by = "reached" \/ (t.by = "distant" /\ t.logical)
            /\ t.max \in 0..2
  <2>1. t.by = "reached" \/ (t.by = "distant" /\ t.logical = TRUE)
    BY <1>12, <1>13
  <2>2. g.targets[t.of] = Target("pawn", c) /\ Place(g)[c] \in Tile
    BY <1>4, <1>10, <1>13
  <2>3. p.targets[e.to] \in GiveChoices(g, t)
    BY <1>10, <1>13
  <2>4. \E u \in Tile : p.targets[e.to] = Target("tile", u) /\ Walk(Place(g)[c], u, 2)
    BY <1>13, <2>1, <2>2, <2>3, TileIsNear
  <2> QED BY <1>4, <1>5, <1>10, <2>4
<1>14. CASE /\ t.name = e.target /\ t.type = "pawn"
            /\ \A j \in DOMAIN ts : j >= i => ts[j].name # e.to
            /\ \E f \in t.filters :
                  f.by = "reaches" /\ f.of = e.to /\ f.max \in 0..2 /\ ~f.negated
  <2>1. PICK f \in t.filters : f.by = "reaches" /\ f.of = e.to /\ f.max \in 0..2 /\ ~f.negated
    BY <1>14
  <2>2. f.negated = FALSE
    BY <1>12, <2>1
  <2>3. e.target # "self"
    BY <1>1, <1>11, <1>14, ActionAssumption
  <2>4. TypesOf(p.weapon, e.to) \subseteq {"tile"} /\ e.to # "self"
    <3>1. Guided(p.weapon, p.now, e)
      BY <1>1, <1>2, <2>3, WeaponAssumption
    <3> QED BY <3>1 DEF Guided
  <2>5. PICK u \in Tile : p.targets[e.to] = Target("tile", u)
    BY <2>4, AcquiredPawnOrTile
  <2>6. e.to \notin NamesFrom(p, i)
    BY <1>14 DEF NamesFrom
  <2>7. f.of \in DOMAIN g.targets /\ g.targets[f.of] = Target("tile", u)
    BY <1>10, <2>1, <2>5, <2>6
  <2>8. Target("pawn", c) \in GiveChoices(g, t) /\ Place(g)[c] \in Tile
    BY <1>4, <1>10, <1>14
  <2>9. Walk(Place(g)[c], u, 2)
    BY <1>14, <2>1, <2>2, <2>7, <2>8, PawnIsNear
  <2> QED BY <1>4, <1>5, <1>10, <2>5, <2>9
<1> QED BY <1>6, <1>9, <1>13, <1>14

-----------------------------------------------------------------------------
(* The effects are added to the Sandbox *)

LEMMA EntryAdded ==
    ASSUME NEW p, Shape(p), NEW H, NEW q, q = [p EXCEPT !.history = H]
    PROVE  /\ Shape(q) /\ q.weapon = p.weapon /\ q.done = p.done /\ q.now = p.now
           /\ q.ask = p.ask /\ q.todo = p.todo /\ q.targets = p.targets
           /\ q.moved = p.moved /\ q.history = H
BY DEF Shape

\* A course goes on with the next entry of the history.
LEMMA CourseAppend ==
    ASSUME NEW h \in Seq(Entry), NEW e \in Entry, NEW st, Course(h, st)
    PROVE  /\ Append(h, e) \in Seq(Entry)
           /\ \E tt : /\ Course(Append(h, e), tt)
                      /\ tt[Len(Append(h, e))] = Move(st[Len(h)], e)
<1> DEFINE n == Len(h)
           g == Append(h, e)
           tt == [i \in 0..n + 1 |-> IF i = n + 1 THEN Move(st[n], e) ELSE st[i]]
<1>1. /\ g \in Seq(Entry) /\ Len(g) = n + 1 /\ n \in Nat
      /\ \A i \in 1..n : g[i] = h[i]
      /\ g[n + 1] = e
  BY AppendProperties, LenProperties
<1> HIDE DEF n, g
<1>2. tt[0] = at /\ tt[n + 1] = Move(st[n], e)
  BY <1>1 DEF Course
<1>3. ASSUME NEW i \in 1..n + 1 PROVE tt[i] = Move(tt[i - 1], g[i])
  <2>1. CASE i = n + 1
    BY <1>1, <2>1
  <2>2. CASE i # n + 1
    <3>1. i \in 1..n /\ i \in 0..n + 1 /\ i - 1 \in 0..n + 1 /\ i - 1 # n + 1
      BY <1>1, <2>2
    <3>2. tt[i] = st[i] /\ tt[i - 1] = st[i - 1]
      BY <2>2, <3>1
    <3>3. st[i] = Move(st[i - 1], h[i])
      BY <3>1 DEF Course, n
    <3> HIDE DEF tt
    <3> QED BY <1>1, <3>1, <3>2, <3>3
  <2> QED BY <2>1, <2>2
<1>4. Course(g, tt)
  <2>1. tt = [i \in 0..n + 1 |-> tt[i]]
    OBVIOUS
  <2> HIDE DEF tt
  <2> QED BY <1>1, <1>2, <1>3, <2>1 DEF Course
<1> QED BY <1>1, <1>2, <1>4 DEF n, g

\* Who is on the map stays there, and so do the targets.
LEMMA OfTypeGrows ==
    ASSUME NEW place, NEW other, On(place, Tile) \subseteq On(other, Tile), NEW type \in Type
    PROVE  OfType(place, type) \subseteq OfType(other, type)
<1>1. CASE type = "pawn"
  BY <1>1 DEF OfType
<1>2. CASE type = "group"
  <2> SUFFICES ASSUME NEW x \in OfType(place, type) PROVE x \in OfType(other, type)
    OBVIOUS
  <2>1. PICK S \in (SUBSET On(place, Tile)) \ {{}} : x = Target("group", S)
    BY <1>2 DEF OfType
  <2>2. S \in (SUBSET On(other, Tile)) \ {{}}
    OBVIOUS
  <2> QED BY <1>2, <2>1, <2>2 DEF OfType
<1>3. CASE type = "tile"
  BY <1>3 DEF OfType
<1>4. CASE type = "room"
  BY <1>4 DEF OfType
<1>5. CASE type \in {"direction", "directionph"}
  BY <1>5 DEF OfType
<1> QED BY <1>1, <1>2, <1>3, <1>4, <1>5 DEF Type

\* The pawns of a target are pawns.
LEMMA PawnsOfTarget ==
    ASSUME NEW place, NEW type \in Type, NEW x \in OfType(place, type)
    PROVE  PawnsOf(place, x) \subseteq Pawn
<1>1. CASE type = "pawn"
  BY <1>1 DEF OfType, PawnsOf, Target, On
<1>2. CASE type = "group"
  <2>1. PICK S \in (SUBSET On(place, Tile)) \ {{}} : x = Target("group", S)
    BY <1>2 DEF OfType
  <2>2. PawnsOf(place, x) = S
    BY <2>1 DEF PawnsOf, Target
  <2> QED BY <2>2 DEF On
<1>3. CASE type \in {"tile", "room", "direction", "directionph"}
  <2>1. x.is \in {"tile", "room", "direction"}
    BY <1>3 DEF OfType, Target
  <2>2. PawnsOf(place, x) = On(place, TilesOf(place, x))
    BY <2>1 DEF PawnsOf
  <2> QED BY <2>2 DEF On
<1> QED BY <1>1, <1>2, <1>3 DEF Type

\* Who is moved, and where to: one pawn to a tile, a control point to where it is.
LEMMA MovesFit ==
    ASSUME OnTheMap, NEW p, Sound(p), p.now \in p.done, Linked(p),
           NEW e \in Range(ActionOf[p.now].effects), e.do = "move",
           e.target \in DOMAIN p.targets, e.to \in DOMAIN p.targets
    PROVE  \E c \in Pawn :
              /\ PawnsOf(Place(p), p.targets[e.target]) = {c}
              /\ (CHOOSE t \in TilesOf(Place(p), p.targets[e.to]) : TRUE) \in Tile
              /\ c \in Point => (CHOOSE t \in TilesOf(Place(p), p.targets[e.to]) : TRUE) = at[c]
<1> DEFINE tiles == TilesOf(Place(p), p.targets[e.to])
<1>1. tiles \in (SUBSET Tile) \ {{}}
  <2>1. \E type \in Type : p.targets[e.to] \in OfType(Place(p), type)
    BY AcquiredFits
  <2> QED BY <2>1, TilesOfTarget
<1>2. (CHOOSE t \in tiles : TRUE) \in Tile
  <2> HIDE DEF tiles
  <2> QED BY <1>1
<1>3. CASE e.target = "self"
  <2>1. p.targets["self"] = Target("pawn", Shooter)
    BY DEF Sound, Acquired
  <2>2. PawnsOf(Place(p), p.targets[e.target]) = {Shooter}
    BY <1>3, <2>1 DEF PawnsOf, Target
  <2>3. Shooter \in Pawn /\ Shooter \notin Point
    BY TargetingAssumption DEF Pawn
  <2> QED BY <1>2, <2>2, <2>3
<1>4. CASE e.target # "self"
  <2>1. Guided(p.weapon, p.now, e)
    BY <1>4, ActionOfPlan, WeaponAssumption
  <2>2. TypesOf(p.weapon, e.target) \subseteq {"pawn"}
    BY <2>1 DEF Guided
  <2>3. PICK c \in On(Place(p), Tile) : p.targets[e.target] = Target("pawn", c)
    BY <1>4, <2>2, AcquiredPawnOrTile
  <2>4. PawnsOf(Place(p), p.targets[e.target]) = {c} /\ c \in Pawn
    BY <2>3 DEF PawnsOf, Target, On
  <2>5. ASSUME c \in Point PROVE (CHOOSE t \in tiles : TRUE) = at[c]
    <3>1. IsPoint(p.targets[e.target]) /\ p.targets[e.target].id = c
      BY <2>3, <2>5 DEF IsPoint, Target
    <3>2. p.targets[e.to] = Target("tile", at[c])
      BY <1>4, <3>1 DEF Linked
    <3>3. tiles = {at[c]}
      BY <3>2 DEF TilesOf, Target
    <3> HIDE DEF tiles
    <3> QED BY <3>3
  <2> QED BY <1>2, <2>4, <2>5
<1> QED BY <1>3, <1>4

\* After an effect the plan is sound if the pawns are seen where they are to be merged.
LEMMA Spawned ==
    ASSUME OnTheMap, NEW p, Sound(p), NEW e \in Entry, NEW q,
           Shape(q), q.weapon = p.weapon, q.done = p.done, q.now = p.now, q.targets = p.targets,
           Moved(q), q.history = Append(p.history, e), Place(q) = Move(Place(p), e)
    PROVE  Sound(q)
<1>1. PICK st : Course(p.history, st) /\ st[Len(p.history)] = Place(p)
  BY DEF Sound, Told
<1>2. Told(q)
  <2>1. p.history \in Seq(Entry)
    BY DEF Sound, Told
  <2> QED BY <1>1, <2>1, CourseAppend DEF Told
<1>3. On(Place(p), Tile) \subseteq On(Place(q), Tile)
  <2>1. DOMAIN Place(p) = Pawn /\ e.to \in Tile
    BY PlaceOf DEF Sound, Entry
  <2>2. \A c \in Pawn : Place(p)[c] \in Tile => Place(q)[c] \in Tile
    BY <2>1 DEF Move, Over
  <2> QED BY <2>2 DEF On
<1>4. Acquired(q)
  <2>1. "self" \in DOMAIN q.targets /\ q.targets["self"] = Target("pawn", Shooter)
    BY DEF Sound, Acquired
  <2>2. ASSUME NEW n \in DOMAIN q.targets \ {"self"}
        PROVE  \E a \in q.done : \E t \in Targeters(a) :
                  t.name = n /\ q.targets[n] \in OfType(Place(q), t.type)
    <3>1. PICK a \in p.done : \E t \in Targeters(a) :
                t.name = n /\ p.targets[n] \in OfType(Place(p), t.type)
      BY DEF Sound, Acquired
    <3>2. PICK t \in Targeters(a) : t.name = n /\ p.targets[n] \in OfType(Place(p), t.type)
      BY <3>1
    <3>3. a \in DOMAIN ActionOf
      BY TargetingAssumption DEF Sound
    <3>4. t.type \in Type
      BY <3>3, ActionAssumption DEF Type
    <3>5. p.targets[n] \in OfType(Place(q), t.type)
      BY <1>3, <3>2, <3>4, OfTypeGrows
    <3> QED BY <3>2, <3>5
  <2> QED BY <2>1, <2>2 DEF Acquired
<1> QED BY <1>2, <1>4 DEF Sound

LEMMA SpawnIsSound ==
    ASSUME OnTheMap, NEW p, Sound(p), p.now \in p.done, Linked(p),
           NEW e \in Range(ActionOf[p.now].effects), NEW q, q = Spawn(p, e)
    PROVE  Sound(q) /\ q.now = p.now /\ q.done = p.done /\ Linked(q)
<1>1. e.do \in {"move", "damage"}
  BY ActionOfPlan, ActionAssumption
<1>2. Shape(p) /\ Moved(p)
  BY DEF Sound
<1>3. CASE e.do = "move" /\ e.target \in DOMAIN p.targets /\ e.to \in DOMAIN p.targets
  <2> DEFINE who == PawnsOf(Place(p), p.targets[e.target])
             to == CHOOSE t \in TilesOf(Place(p), p.targets[e.to]) : TRUE
             entry == [do |-> "move", who |-> who, to |-> to]
             M == Over([x \in who |-> to], p.moved)
             H == Append(p.history, entry)
  <2>1. PICK c \in Pawn : who = {c} /\ to \in Tile /\ (c \in Point => to = at[c])
    BY <1>3, MovesFit
  <2>2. q = [p EXCEPT !.moved = M, !.history = H]
    BY <1>3 DEF Spawn
  <2> HIDE DEF who, to
  <2>3. entry \in Entry
    BY <2>1 DEF Entry
  <2>4. /\ Shape(q) /\ q.weapon = p.weapon /\ q.done = p.done /\ q.now = p.now
        /\ q.targets = p.targets /\ q.moved = M /\ q.history = H
    <3> HIDE DEF M, H
    <3> QED BY ONLY <1>2, <2>2 DEF Shape
  <2>5. Moved(q)
    <3>1. M = [x \in {c} \cup DOMAIN p.moved |-> IF x = c THEN to ELSE p.moved[x]]
      BY <2>1 DEF Over
    <3> HIDE DEF M
    <3> QED BY <1>2, <2>1, <2>4, <3>1 DEF Moved
  <2>6. Place(q) = Move(Place(p), entry)
    <3>1. DOMAIN at = Pawn /\ DOMAIN p.moved \subseteq Pawn
      BY <1>2 DEF OnTheMap, Moved
    <3>2. DOMAIN M = {c} \cup DOMAIN p.moved
          /\ \A x \in {c} \cup DOMAIN p.moved : M[x] = IF x = c THEN to ELSE p.moved[x]
      BY <2>1 DEF Over
    <3> HIDE DEF M
    <3>3. Place(q) = [x \in Pawn |-> IF x = c THEN to
                                     ELSE IF x \in DOMAIN p.moved THEN p.moved[x] ELSE at[x]]
      BY <2>1, <2>4, <3>1, <3>2 DEF Place, Over
    <3>4. Place(p) = [x \in Pawn |-> IF x \in DOMAIN p.moved THEN p.moved[x] ELSE at[x]]
      BY <3>1 DEF Place, Over
    <3>5. Move(Place(p), entry) = Over([x \in {c} \cap Player |-> to], Place(p))
      BY <2>1 DEF Move
    <3>6. CASE c \in Player
      <4>1. {c} \cap Player = {c}
        BY <3>6
      <4> QED BY <2>1, <3>3, <3>4, <3>5, <4>1 DEF Over
    <3>7. CASE c \in Point
      <4>1. {c} \cap Player = {}
        BY <3>7, TargetingAssumption
      <4>2. Move(Place(p), entry) = [x \in Pawn |-> Place(p)[x]]
        BY <3>4, <3>5, <4>1 DEF Over
      <4>3. Place(p)[c] = to
        BY <2>1, <3>7, <1>2, PlaceOf
      <4> QED BY <3>3, <3>4, <4>2, <4>3
    <3> QED BY <2>1, <3>6, <3>7 DEF Pawn
  <2>7. Sound(q)
    <3> HIDE DEF entry, M
    <3> QED BY <2>3, <2>4, <2>5, <2>6, Spawned
  <2> QED BY <2>4, <2>7 DEF Linked
<1>4. CASE e.do = "damage" /\ e.target \in DOMAIN p.targets
  <2> DEFINE who == PawnsOf(Place(p), p.targets[e.target])
             entry == [do |-> "damage", who |-> who \ {Shooter}, to |-> Place(p)[Shooter]]
             H == Append(p.history, entry)
  <2>1. who \subseteq Pawn
    BY <1>4, AcquiredFits, PawnsOfTarget
  <2>2. q = [p EXCEPT !.history = H]
    BY <1>4 DEF Spawn
  <2> HIDE DEF who
  <2>3. entry \in Entry
    BY <1>2, <2>1, PlaceOf DEF Entry
  <2>4. /\ Shape(q) /\ q.weapon = p.weapon /\ q.done = p.done /\ q.now = p.now
        /\ q.targets = p.targets /\ q.moved = p.moved /\ q.history = H
    <3> HIDE DEF H
    <3> QED BY <1>2, <2>2, EntryAdded
  <2>5. Moved(q) /\ Place(q) = Place(p)
    BY <1>2, <2>4 DEF Moved, Place
  <2>6. Place(q) = Move(Place(p), entry)
    BY <2>5 DEF Move
  <2>7. Sound(q)
    <3> HIDE DEF entry
    <3> QED BY <2>3, <2>4, <2>5, <2>6, Spawned
  <2> QED BY <2>4, <2>7 DEF Linked
<1>5. CASE \/ e.do = "move" /\ ~(e.target \in DOMAIN p.targets /\ e.to \in DOMAIN p.targets)
           \/ e.do = "damage" /\ e.target \notin DOMAIN p.targets
  BY <1>5 DEF Spawn
<1> QED BY <1>1, <1>3, <1>4, <1>5

\* An effect leaves its trace, and moves nobody too far.
LEMMA SpawnTraces ==
    ASSUME OnTheMap, NEW p, Sound(p), p.now \in p.done, Orderly(p), Ready(p), Traced(p, p.done),
           NEW e \in Range(ActionOf[p.now].effects), NEW q, q = Spawn(p, e)
    PROVE  /\ Orderly(q) /\ Ready(q) /\ Traced(q, q.done) /\ q.targets = p.targets
<1>1. e.do \in {"move", "damage"}
  BY ActionOfPlan, ActionAssumption
<1>2. Shape(p) /\ p.history \in Seq(Entry)
  BY DEF Sound, Told
<1>3. CASE e.do = "move" /\ e.target \in DOMAIN p.targets /\ e.to \in DOMAIN p.targets
  <2> DEFINE who == PawnsOf(Place(p), p.targets[e.target])
             to == CHOOSE t \in TilesOf(Place(p), p.targets[e.to]) : TRUE
             entry == [do |-> "move", who |-> who, to |-> to]
             M == Over([x \in who |-> to], p.moved)
             H == Append(p.history, entry)
  <2>1. e \in Moves(p.now)
    BY <1>3 DEF Moves
  <2>2. PICK c \in Pawn, u \in Tile :
           /\ p.targets[e.target] = Target("pawn", c) /\ p.targets[e.to] = Target("tile", u)
           /\ at[c] \in Tile /\ Walk(at[c], u, 2)
    BY <1>3, <2>1 DEF Ready
  <2>3. who = {c}
    BY <2>2 DEF PawnsOf, Target
  <2>4. to = u
    <3>1. TilesOf(Place(p), p.targets[e.to]) = {u}
      BY <2>2 DEF TilesOf, Target
    <3> QED BY <3>1
  <2>5. q = [p EXCEPT !.moved = M, !.history = H]
    BY <1>3 DEF Spawn
  <2> HIDE DEF who, to
  <2>6. /\ q.done = p.done /\ q.now = p.now /\ q.targets = p.targets /\ q.moved = M /\ q.history = H
    <3> HIDE DEF M, H
    <3> QED BY ONLY <1>2, <2>5 DEF Shape
  <2>7. DOMAIN M = {c} \cup DOMAIN p.moved /\ M[c] = u
        /\ \A x \in DOMAIN p.moved \ {c} : M[x] = p.moved[x]
    BY <2>3, <2>4 DEF Over
  <2> HIDE DEF M
  <2>8. Orderly(q)
    <3>1. ASSUME NEW x \in DOMAIN q.moved PROVE at[x] \in Tile /\ Walk(at[x], q.moved[x], 2)
      <4>1. CASE x = c
        BY <2>2, <2>6, <2>7, <4>1
      <4>2. CASE x # c
        <5>1. x \in DOMAIN p.moved /\ q.moved[x] = p.moved[x]
          BY <2>6, <2>7, <4>2
        <5> QED BY <5>1 DEF Orderly
      <4> QED BY <4>1, <4>2
    <3> QED BY <2>6, <3>1 DEF Orderly
  <2>9. Ready(q)
    BY <2>6 DEF Ready
  <2>10. MovedBy(q, q.done)
    <3>1. ASSUME NEW x \in DOMAIN q.moved
          PROVE  \E b \in q.done : \E f \in Moves(b) :
                    f.target \in DOMAIN q.targets /\ q.targets[f.target] = Target("pawn", x)
      <4>1. CASE x = c
        BY <1>3, <2>1, <2>2, <2>6, <4>1
      <4>2. CASE x # c
        <5>1. x \in DOMAIN p.moved
          BY <2>6, <2>7, <4>2
        <5> QED BY <2>6, <5>1 DEF Traced, MovedBy
      <4> QED BY <4>1, <4>2
    <3> QED BY <3>1 DEF MovedBy
  <2>11. HitBy(q, q.done)
    <3> DEFINE m == Len(p.history)
    <3>1. m \in Nat /\ DOMAIN p.history = 1..m
      BY <1>2, LenProperties
    <3>2. entry.do = "move"
      OBVIOUS
    <3>3. entry \in [do : {"move"}, who : {who}, to : {to}]
      OBVIOUS
    <3> HIDE DEF m, entry
    <3>4. /\ DOMAIN H = 1..m + 1 /\ H[m + 1] = entry
          /\ \A i \in 1..m : H[i] = p.history[i]
      BY <1>2, <3>1 DEF m
    <3> HIDE DEF H
    <3>5. ASSUME NEW i \in DOMAIN q.history, q.history[i].do = "damage"
          PROVE  i \in DOMAIN p.history /\ q.history[i] = p.history[i]
      <4>1. i # m + 1
        BY <2>6, <3>2, <3>4, <3>5
      <4> QED BY <2>6, <3>1, <3>4, <4>1
    <3> QED BY <2>6, <3>5 DEF Traced, HitBy
  <2>12. Complete(q, q.done)
    BY <2>6 DEF Traced, Complete
  <2> QED BY <2>6, <2>8, <2>9, <2>10, <2>11, <2>12 DEF Traced
<1>4. CASE e.do = "damage" /\ e.target \in DOMAIN p.targets
  <2> DEFINE who == PawnsOf(Place(p), p.targets[e.target])
             entry == [do |-> "damage", who |-> who \ {Shooter}, to |-> Place(p)[Shooter]]
             H == Append(p.history, entry)
  <2>1. p.targets[e.target].is = "pawn" => who = {p.targets[e.target].id}
    BY DEF PawnsOf
  <2>2. q = [p EXCEPT !.history = H]
    BY <1>4 DEF Spawn
  <2> HIDE DEF who
  <2>3. /\ q.done = p.done /\ q.now = p.now /\ q.targets = p.targets
        /\ q.moved = p.moved /\ q.history = H
    <3> HIDE DEF H
    <3> QED BY <1>2, <2>2, EntryAdded
  <2>4. Orderly(q) /\ Ready(q)
    BY <2>3 DEF Orderly, Ready
  <2>5. MovedBy(q, q.done) /\ Complete(q, q.done)
    BY <2>3 DEF Traced, MovedBy, Complete
  <2>6. HitBy(q, q.done)
    <3> DEFINE m == Len(p.history)
    <3>1. m \in Nat /\ DOMAIN p.history = 1..m
      BY <1>2, LenProperties
    <3>2. entry.who \subseteq who
      OBVIOUS
    <3> HIDE DEF m, entry
    <3>4. /\ DOMAIN H = 1..m + 1 /\ H[m + 1] = entry
          /\ \A i \in 1..m : H[i] = p.history[i]
      BY <1>2, <3>1 DEF m, entry
    <3> HIDE DEF H
    <3>5. ASSUME NEW i \in DOMAIN q.history, q.history[i].do = "damage"
          PROVE  \E b \in q.done : \E f \in Range(ActionOf[b].effects) :
                    /\ f.do = "damage" /\ f.target \in DOMAIN q.targets
                    /\ q.targets[f.target].is = "pawn"
                         => q.history[i].who \subseteq {q.targets[f.target].id}
      <4>1. CASE i = m + 1
        <5>1. q.history[i].who \subseteq who
          BY <2>3, <3>2, <3>4, <4>1
        <5> QED BY <1>4, <2>1, <2>3, <5>1
      <4>2. CASE i # m + 1
        <5>1. i \in DOMAIN p.history /\ q.history[i] = p.history[i]
          BY <2>3, <3>1, <3>4, <4>2
        <5>2. PICK b \in p.done : \E f \in Range(ActionOf[b].effects) :
                /\ f.do = "damage" /\ f.target \in DOMAIN p.targets
                /\ p.targets[f.target].is = "pawn"
                     => p.history[i].who \subseteq {p.targets[f.target].id}
          BY <3>5, <5>1 DEF Traced, HitBy
        <5> QED BY <2>3, <5>1, <5>2
      <4> QED BY <4>1, <4>2
    <3> QED BY <3>5 DEF HitBy
  <2> QED BY <2>3, <2>4, <2>5, <2>6 DEF Traced
<1>5. CASE \/ e.do = "move" /\ ~(e.target \in DOMAIN p.targets /\ e.to \in DOMAIN p.targets)
           \/ e.do = "damage" /\ e.target \notin DOMAIN p.targets
  BY <1>5 DEF Spawn
<1> QED BY <1>1, <1>3, <1>4, <1>5

-----------------------------------------------------------------------------
(* The flames and the laser *)

\* Where nothing has been used there is nobody moved or hit.
LEMMA NothingTraced ==
    ASSUME OnTheMap, NEW p, MovedBy(p, {})
    PROVE  \A c \in Pawn : Place(p)[c] = at[c]
<1>1. DOMAIN p.moved = {}
  BY DEF MovedBy
<1>2. DOMAIN at = Pawn
  BY DEF OnTheMap
<1> QED BY <1>1, <1>2 DEF Place, Over

LEMMA NothingHit == ASSUME NEW p, HitBy(p, {}) PROVE Hit(p) = {}
BY DEF HitBy, Hit

\* An action that excludes all others is used alone.
LEMMA UsedAlone ==
    ASSUME NEW p, Sound(p), Orderly(p), p.now \in p.done, p.now \in {"flames", "laser"}
    PROVE  p.done = {p.now}
<1>1. p.weapon \in DOMAIN Weapon /\ p.done \subseteq Weapon[p.weapon]
  BY DEF Sound
<1>2. ASSUME NEW b \in p.done, b # p.now PROVE FALSE
  <2>1. Exclude(p.now, b)
    BY <1>1, <1>2, ShotAssumption
  <2> QED BY <1>2, <2>1 DEF Orderly
<1> QED BY <1>2

LEMMA FlamesTargeters ==
    ASSUME "flames" \in DOMAIN ActionOf, NEW ts, ts = ActionOf["flames"].targeters
    PROVE  /\ ts \in Seq(Targeter) /\ Len(ts) = 5 /\ DOMAIN ts = 1..5
           /\ Is(ts[1], "tile1", "tile", "distant", "self")
           /\ ts[1].min = 1 /\ ts[1].max = 1 /\ ts[1].logical = TRUE /\ ~ts[1].optional
           /\ Is(ts[2], "dir", "direction", "has", "self") /\ ~ts[2].optional
           /\ \E f \in ts[2].filters : f.by = "has" /\ f.of = "tile1" /\ f.negated = FALSE
           /\ Is(ts[3], "tile2", "tile", "in", "dir") /\ ts[3].automatic /\ ~ts[3].new
           /\ ts[3].filters # {}
           /\ \A f \in ts[3].filters :
                 /\ f.by = "distant" /\ f.min = 2 /\ f.max = 2 /\ f.logical = TRUE
                 /\ f.of = "self" /\ f.negated = FALSE
           /\ Is(ts[4], "targ1", "pawn", "in", "tile1")
           /\ Is(ts[5], "targ2", "pawn", "in", "tile2")
<1>1. FlamesAction(ActionOf["flames"])
  BY ShotAssumption
<1>2. ts \in Seq(Targeter)
  BY ActionAssumption
<1>3. Len(ts) = 5
  BY <1>1 DEF FlamesAction
<1>4. DOMAIN ts = 1..5
  BY <1>2, <1>3, LenProperties
<1>5. \A i \in 1..5 : /\ ts[i].logical \in BOOLEAN
                      /\ \A f \in ts[i].filters : f.negated \in BOOLEAN /\ f.logical \in BOOLEAN
  <2>1. \A i \in 1..5 : ts[i] \in Targeters("flames")
    BY <1>4 DEF Targeters, Range
  <2> QED BY <2>1, ActionAssumption
<1>6. 1 \in 1..5 /\ 2 \in 1..5 /\ 3 \in 1..5
  OBVIOUS
<1>7. ts[1].logical = TRUE
  <2>1. ts[1].logical /\ ts[1].logical \in BOOLEAN
    BY <1>1, <1>5, <1>6 DEF FlamesAction
  <2> QED BY <2>1
<1>8. \E f \in ts[2].filters : f.by = "has" /\ f.of = "tile1" /\ f.negated = FALSE
  <2>1. PICK f \in ts[2].filters : f.by = "has" /\ f.of = "tile1" /\ ~f.negated
    BY <1>1 DEF FlamesAction
  <2>2. f.negated \in BOOLEAN
    BY <1>5, <1>6
  <2>3. f.negated = FALSE
    BY <2>1, <2>2
  <2> QED BY <2>1, <2>3
<1>9. ASSUME NEW f \in ts[3].filters
      PROVE  /\ f.by = "distant" /\ f.min = 2 /\ f.max = 2 /\ f.logical = TRUE
             /\ f.of = "self" /\ f.negated = FALSE
  <2>1. /\ f.by = "distant" /\ f.min = 2 /\ f.max = 2 /\ f.logical
        /\ f.of = "self" /\ ~f.negated
    BY <1>1 DEF FlamesAction
  <2>2. f.negated \in BOOLEAN /\ f.logical \in BOOLEAN
    BY <1>5, <1>6
  <2>3. f.negated = FALSE /\ f.logical = TRUE
    BY <2>1, <2>2
  <2> QED BY <2>1, <2>3
<1>10. /\ Is(ts[1], "tile1", "tile", "distant", "self")
       /\ ts[1].min = 1 /\ ts[1].max = 1 /\ ~ts[1].optional
       /\ Is(ts[2], "dir", "direction", "has", "self") /\ ~ts[2].optional
       /\ Is(ts[3], "tile2", "tile", "in", "dir") /\ ts[3].automatic /\ ~ts[3].new
       /\ ts[3].filters # {}
       /\ Is(ts[4], "targ1", "pawn", "in", "tile1")
       /\ Is(ts[5], "targ2", "pawn", "in", "tile2")
  BY <1>1 DEF FlamesAction
<1> QED BY <1>2, <1>3, <1>4, <1>7, <1>8, <1>9, <1>10

\* A flamethrower, or a laser, that is about to be used.
Aims(p, a) ==
    /\ Sound(p) /\ Orderly(p) /\ p.now \in p.done /\ p.now = a
    /\ Traced(p, p.done \ {p.now})

LEMMA AimsFromThere ==
    ASSUME OnTheMap, NEW a \in {"flames", "laser"}, NEW p, Aims(p, a)
    PROVE  /\ a \in DOMAIN ActionOf /\ p.done = {a}
           /\ p.targets["self"] = Target("pawn", Shooter) /\ at[Shooter] \in Tile
           /\ \A c \in Pawn : Place(p)[c] = at[c]
           /\ Place(p)[Shooter] = at[Shooter]
<1>1. p.done = {p.now} /\ p.now = a
  BY UsedAlone DEF Aims
<1>2. a \in DOMAIN ActionOf
  BY ActionOfPlan DEF Aims
<1>3. p.targets["self"] = Target("pawn", Shooter)
  BY DEF Aims, Sound, Acquired
<1>4. p.done \ {p.now} = {}
  BY <1>1
<1>5. MovedBy(p, {})
  BY <1>4 DEF Aims, Traced
<1>6. \A c \in Pawn : Place(p)[c] = at[c]
  BY <1>5, NothingTraced
<1> QED BY <1>1, <1>2, <1>3, <1>6, TargetingAssumption DEF OnTheMap, Pawn

\* The first tile of the flames is next to the player and on their line.
LEMMA FlamesLine ==
    ASSUME OnTheMap, NEW p, Aims(p, "flames"), NEW k \in Nat, k > 2, Given(p, k)
    PROVE  \E d \in Direction : \E u \in Line(at[Shooter], d, TRUE) :
              /\ "tile1" \in DOMAIN p.targets /\ p.targets["tile1"] = Target("tile", u)
              /\ "dir" \in DOMAIN p.targets
              /\ p.targets["dir"] = Target("direction", Line(at[Shooter], d, TRUE))
              /\ Walk(at[Shooter], u, 1)
<1> DEFINE s == at[Shooter]
           ts == ActionOf["flames"].targeters
<1>1. /\ "flames" \in DOMAIN ActionOf /\ p.now = "flames" /\ s \in Tile
      /\ p.targets["self"] = Target("pawn", Shooter) /\ Place(p)[Shooter] = s
  BY AimsFromThere DEF Aims
<1>2. /\ DOMAIN ts = 1..5
      /\ Is(ts[1], "tile1", "tile", "distant", "self")
      /\ ts[1].min = 1 /\ ts[1].max = 1 /\ ts[1].logical = TRUE /\ ~ts[1].optional
      /\ Is(ts[2], "dir", "direction", "has", "self") /\ ~ts[2].optional
      /\ \E f \in ts[2].filters : f.by = "has" /\ f.of = "tile1" /\ f.negated = FALSE
  BY <1>1, FlamesTargeters
<1>3. \A i, j \in DOMAIN ts : ts[i].name = ts[j].name => i = j
  BY <1>1, ActionAssumption
<1> HIDE DEF s, ts
<1>4. PICK t1 : t1 = ts[1]
  OBVIOUS
<1>5. PICK t2 : t2 = ts[2]
  OBVIOUS
<1>6. PICK g1 : g1 = AsBefore(p, 1)
  OBVIOUS
<1>7. PICK g2 : g2 = AsBefore(p, 2)
  OBVIOUS
<1>8. 1 \in DOMAIN ActionOf[p.now].targeters /\ 1 < k /\ t1 = ActionOf[p.now].targeters[1]
  BY <1>1, <1>2, <1>4 DEF ts
<1>9. 2 \in DOMAIN ActionOf[p.now].targeters /\ 2 < k /\ t2 = ActionOf[p.now].targeters[2]
  BY <1>1, <1>2, <1>5 DEF ts
<1>10. /\ Place(g1) = Place(p) /\ t1.of \in DOMAIN g1.targets
       /\ \A n \in DOMAIN g1.targets : g1.targets[n] = p.targets[n]
       /\ t1.name \in DOMAIN p.targets => p.targets[t1.name] \in GiveChoices(g1, t1)
       /\ t1.name \notin DOMAIN p.targets => t1.optional
  BY <1>6, <1>8, GivenAt
<1>11. /\ Place(g2) = Place(p) /\ t2.of \in DOMAIN g2.targets
       /\ \A n \in DOMAIN g2.targets : g2.targets[n] = p.targets[n]
       /\ \A n \in DOMAIN p.targets \ NamesFrom(p, 2) : n \in DOMAIN g2.targets
       /\ t2.name \in DOMAIN p.targets => p.targets[t2.name] \in GiveChoices(g2, t2)
       /\ t2.name \notin DOMAIN p.targets => t2.optional
  BY <1>7, <1>9, GivenAt
<1>12. "tile1" \in DOMAIN p.targets /\ p.targets["tile1"] \in GiveChoices(g1, t1)
  BY <1>2, <1>4, <1>10 DEF Is
<1>13. PICK u \in Tile : p.targets["tile1"] = Target("tile", u) /\ Walk(s, u, 1)
  <2> DEFINE x == p.targets["tile1"]
  <2>1. g1.targets[t1.of] = Target("pawn", Shooter)
    BY <1>1, <1>2, <1>4, <1>10 DEF Is
  <2>2. LocationOf(Place(g1), g1.targets[t1.of]) = s
    BY <1>1, <1>10, <2>1 DEF LocationOf, Target
  <2>3. t1.type = "tile" /\ t1.by = "distant" /\ t1.min = 1 /\ t1.max = 1 /\ t1.logical = TRUE
    BY <1>2, <1>4 DEF Is
  <2> HIDE DEF x
  <2>4. PICK v \in Selected(Place(g1), t1, g1.targets[t1.of]) : x \in Built(Place(g1), t1.type, v)
    BY <1>12, <2>3, OfferedIs DEF x
  <2>5. v \in Distant(Place(g1), g1.targets[t1.of], 1, 1, TRUE)
    BY <2>3, <2>4 DEF Selected
  <2>6. Walk(s, v, 1)
    <3>1. 1 \in Nat /\ LocationOf(Place(g1), g1.targets[t1.of]) \in Tile
      BY <1>1, <2>2
    <3>2. Walk(LocationOf(Place(g1), g1.targets[t1.of]), v, 1)
      BY <2>5, <3>1, DistantIsWalk
    <3> QED BY <2>2, <3>2
  <2>7. v \in Tile
    <3>1. PICK way \in [0..1 -> Tile] : way[1] = v
      BY <2>6 DEF Walk
    <3> QED BY <3>1
  <2>8. x = Target("tile", v)
    BY <2>3, <2>4 DEF Built
  <2> QED BY <2>6, <2>7, <2>8 DEF x
<1>14. "dir" \in DOMAIN p.targets /\ p.targets["dir"] \in GiveChoices(g2, t2)
  BY <1>2, <1>5, <1>11 DEF Is
<1>15. g2.targets[t2.of] = Target("pawn", Shooter) /\ t2.type = "direction" /\ t2.by = "has"
  BY <1>1, <1>2, <1>5, <1>11 DEF Is
<1>16. PICK d \in Direction : p.targets["dir"] = Target("direction", Line(s, d, TRUE))
  <2>1. \E d \in Direction : p.targets["dir"]
                                = Target("direction", Line(Place(g2)[Shooter], d, t2.type = "direction"))
    BY <1>14, <1>15, DirectionIs
  <2>2. (t2.type = "direction") = TRUE /\ Place(g2)[Shooter] = s
    BY <1>1, <1>11, <1>15
  <2> QED BY <2>1, <2>2
<1>17. u \in Line(s, d, TRUE)
  <2>1. PICK f \in t2.filters : f.by = "has" /\ f.of = "tile1" /\ f.negated = FALSE
    BY <1>2, <1>5
  <2>2. "tile1" \notin NamesFrom(p, 2)
    <3> SUFFICES ASSUME "tile1" \in NamesFrom(p, 2) PROVE FALSE
      OBVIOUS
    <3>1. PICK j \in DOMAIN ts : j >= 2 /\ ts[j].name = "tile1"
      BY <1>1 DEF NamesFrom, ts
    <3>2. ts[1].name = "tile1" /\ 1 \in DOMAIN ts
      BY <1>2 DEF Is
    <3>3. j = 1
      BY <1>3, <3>1, <3>2
    <3> QED BY <3>1, <3>3
  <2>3. f.of \in DOMAIN g2.targets /\ g2.targets[f.of] = Target("tile", u)
    BY <1>11, <1>12, <1>13, <2>1, <2>2
  <2>4. Meets(Place(g2), f, p.targets["dir"], Target("tile", u))
    <3>1. t2.type # "group"
      BY <1>15
    <3>2. \A h \in t2.filters :
             h.of \in DOMAIN g2.targets => Meets(Place(g2), h, p.targets["dir"], g2.targets[h.of])
      BY <1>14, <3>1, OfferedIs
    <3> QED BY <2>1, <2>3, <3>2
  <2>5. LocationOf(Place(g2), Target("tile", u)) = u
    BY DEF LocationOf, Target
  <2>6. TilesOf(Place(g2), p.targets["dir"]) = Line(s, d, TRUE)
    BY <1>16 DEF TilesOf, Target
  <2>7. f.negated \in BOOLEAN /\ ~f.negated
    BY <2>1
  <2>8. (LocationOf(Place(g2), Target("tile", u)) \in TilesOf(Place(g2), p.targets["dir"])) # f.negated
    BY <2>1, <2>4 DEF Meets
  <2>9. LocationOf(Place(g2), Target("tile", u)) \in TilesOf(Place(g2), p.targets["dir"])
    BY <2>7, <2>8
  <2> QED BY <2>5, <2>6, <2>9
<1> QED BY <1>12, <1>13, <1>14, <1>16, <1>17 DEF s

\* The flames burn in one line.
LEMMA FlamesBurn ==
    ASSUME OnTheMap, NEW p, Aims(p, "flames"), Given(p, 6),
           NEW q, q.now = p.now, q.done = p.done, q.targets = p.targets, HitBy(q, q.done)
    PROVE  FlamesFit(q)
<1> DEFINE s == at[Shooter]
           ts == ActionOf["flames"].targeters
<1>1. /\ "flames" \in DOMAIN ActionOf /\ p.now = "flames" /\ s \in Tile /\ p.done = {"flames"}
      /\ p.targets["self"] = Target("pawn", Shooter) /\ Place(p)[Shooter] = s
      /\ \A c \in Pawn : Place(p)[c] = at[c]
  BY AimsFromThere DEF Aims
<1>2. /\ DOMAIN ts = 1..5
      /\ Is(ts[3], "tile2", "tile", "in", "dir")
      /\ ts[3].filters # {}
      /\ \A f \in ts[3].filters :
            /\ f.by = "distant" /\ f.min = 2 /\ f.max = 2 /\ f.logical = TRUE
            /\ f.of = "self" /\ f.negated = FALSE
      /\ Is(ts[4], "targ1", "pawn", "in", "tile1")
      /\ Is(ts[5], "targ2", "pawn", "in", "tile2")
  BY <1>1, FlamesTargeters
<1> HIDE DEF s
<1>3. PICK d \in Direction : \E u \in Line(s, d, TRUE) :
         /\ p.targets["tile1"] = Target("tile", u)
         /\ p.targets["dir"] = Target("direction", Line(s, d, TRUE))
         /\ Walk(s, u, 1)
  <2>1. 6 \in Nat /\ 6 > 2
    OBVIOUS
  <2>2. \E d \in Direction : \E u \in Line(at[Shooter], d, TRUE) :
           /\ "tile1" \in DOMAIN p.targets /\ p.targets["tile1"] = Target("tile", u)
           /\ "dir" \in DOMAIN p.targets
           /\ p.targets["dir"] = Target("direction", Line(at[Shooter], d, TRUE))
           /\ Walk(at[Shooter], u, 1)
    BY <2>1, FlamesLine
  <2> QED BY <2>2 DEF s
<1>4. PICK u \in Line(s, d, TRUE) :
         /\ p.targets["tile1"] = Target("tile", u)
         /\ p.targets["dir"] = Target("direction", Line(s, d, TRUE))
         /\ Walk(s, u, 1)
  BY <1>3
<1>5. ASSUME NEW v \in Line(s, d, TRUE), NEW m \in 1..2, Walk(s, v, m)
      PROVE  Straight(s, d, v)
  <2>1. PICK n \in 0..m :
           /\ v = s + n * Diff[d]
           /\ \A i \in 0..n - 1 : Passage(s + i * Diff[d], s + (i + 1) * Diff[d])
    BY <1>1, <1>5, NearLineIsStraight
  <2>2. n \in 0..2
    OBVIOUS
  <2> QED BY <2>1, <2>2 DEF Straight
<1>6. ASSUME NEW i \in 3..5, ts[i].name \in DOMAIN p.targets
      PROVE  \E g : /\ Place(g) = Place(p) /\ ts[i].of \in DOMAIN g.targets
                    /\ DOMAIN g.targets \subseteq DOMAIN p.targets
                    /\ \A n \in DOMAIN g.targets : g.targets[n] = p.targets[n]
                    /\ \A n \in DOMAIN p.targets \ NamesFrom(p, i) : n \in DOMAIN g.targets
                    /\ p.targets[ts[i].name] \in GiveChoices(g, ts[i])
  <2>1. PICK g : g = AsBefore(p, i)
    OBVIOUS
  <2>2. PICK t : t = ts[i]
    OBVIOUS
  <2>3. i \in DOMAIN ActionOf[p.now].targeters /\ i < 6 /\ t = ActionOf[p.now].targeters[i]
    BY <1>1, <1>2, <2>2
  <2> HIDE DEF ts
  <2> QED BY <1>6, <2>1, <2>2, <2>3, GivenAt
<1> HIDE DEF ts
<1>7. ASSUME "tile2" \in DOMAIN p.targets
      PROVE  \E v \in Line(s, d, TRUE) : p.targets["tile2"] = Target("tile", v) /\ Walk(s, v, 2)
  <2>1. PICK t : t = ts[3]
    OBVIOUS
  <2>2. PICK g : /\ Place(g) = Place(p) /\ t.of \in DOMAIN g.targets
                 /\ \A n \in DOMAIN g.targets : g.targets[n] = p.targets[n]
                 /\ \A n \in DOMAIN p.targets \ NamesFrom(p, 3) : n \in DOMAIN g.targets
                 /\ p.targets["tile2"] \in GiveChoices(g, t)
    BY <1>2, <1>6, <1>7, <2>1 DEF Is
  <2>3. t.type = "tile" /\ t.by = "in" /\ t.of = "dir"
    BY <1>2, <2>1 DEF Is
  <2>4. TilesOf(Place(g), g.targets[t.of]) = Line(s, d, TRUE)
    <3>1. g.targets["dir"] = Target("direction", Line(s, d, TRUE))
      BY <1>4, <2>2, <2>3
    <3>2. TilesOf(Place(g), Target("direction", Line(s, d, TRUE))) = Line(s, d, TRUE)
      BY DEF TilesOf, Target
    <3> QED BY <2>3, <3>1, <3>2
  <2>5. PICK v \in Line(s, d, TRUE) : p.targets["tile2"] = Target("tile", v)
    <3>1. \E v \in TilesOf(Place(g), g.targets[t.of]) : p.targets["tile2"] = Target("tile", v)
      BY <2>2, <2>3, InIs
    <3> QED BY <2>4, <3>1
  <2>6. PICK f \in t.filters : /\ f.by = "distant" /\ f.min = 2 /\ f.max = 2 /\ f.logical = TRUE
                               /\ f.of = "self" /\ f.negated = FALSE
    BY <1>2, <2>1
  <2>7. "self" \in DOMAIN g.targets /\ g.targets["self"] = Target("pawn", Shooter)
    <3>1. "self" \notin NamesFrom(p, 3)
      <4>1. \A j \in DOMAIN ts : ts[j].name # "self"
        <5>1. \A j \in DOMAIN ts : ts[j] \in Targeters("flames")
          BY DEF ts, Targeters, Range
        <5> QED BY <1>1, <5>1, ActionAssumption
      <4> QED BY <1>1, <4>1 DEF NamesFrom, ts
    <3>2. "self" \in DOMAIN p.targets
      BY DEF Aims, Sound, Acquired
    <3> QED BY <1>1, <2>2, <3>1, <3>2
  <2>8. Meets(Place(g), f, Target("tile", v), Target("pawn", Shooter))
    <3>1. t.type # "group"
      BY <2>3
    <3>2. \A h \in t.filters :
             h.of \in DOMAIN g.targets => Meets(Place(g), h, p.targets["tile2"], g.targets[h.of])
      BY <2>2, <3>1, OfferedIs
    <3> QED BY <2>5, <2>6, <2>7, <3>2
  <2>9. TilesOf(Place(g), Target("tile", v)) = {v}
    BY DEF TilesOf, Target
  <2>10. v \in Distant(Place(g), Target("pawn", Shooter), 2, 2, TRUE)
    BY <2>6, <2>8, <2>9 DEF Meets
  <2>11. LocationOf(Place(g), Target("pawn", Shooter)) = s
    BY <1>1, <2>2 DEF LocationOf, Target
  <2>12. Walk(s, v, 2)
    <3>1. 2 \in Nat /\ LocationOf(Place(g), Target("pawn", Shooter)) \in Tile
      BY <1>1, <2>11
    <3>2. Walk(LocationOf(Place(g), Target("pawn", Shooter)), v, 2)
      BY <2>10, <3>1, DistantIsWalk
    <3> QED BY <2>11, <3>2
  <2> QED BY <2>5, <2>12
<1>8. ASSUME "targ1" \in DOMAIN p.targets
      PROVE  \E c \in Pawn : p.targets["targ1"] = Target("pawn", c) /\ at[c] = u
  <2>1. PICK t : t = ts[4]
    OBVIOUS
  <2>2. PICK g : /\ Place(g) = Place(p) /\ t.of \in DOMAIN g.targets
                 /\ \A n \in DOMAIN g.targets : g.targets[n] = p.targets[n]
                 /\ p.targets["targ1"] \in GiveChoices(g, t)
    BY <1>2, <1>6, <1>8, <2>1 DEF Is
  <2>3. t.type = "pawn" /\ t.by = "in" /\ t.of = "tile1"
    BY <1>2, <2>1 DEF Is
  <2>4. TilesOf(Place(g), g.targets[t.of]) = {u}
    BY <1>4, <2>2, <2>3 DEF TilesOf, Target
  <2>5. PICK c \in Pawn : /\ p.targets["targ1"] = Target("pawn", c)
                          /\ Place(g)[c] \in TilesOf(Place(g), g.targets[t.of])
    BY <2>2, <2>3, InIs
  <2> QED BY <1>1, <2>2, <2>4, <2>5
<1>9. ASSUME "targ2" \in DOMAIN p.targets
      PROVE  \E c \in Pawn : /\ p.targets["targ2"] = Target("pawn", c)
                             /\ at[c] \in Line(s, d, TRUE) /\ Walk(s, at[c], 2)
  <2>1. PICK t : t = ts[5]
    OBVIOUS
  <2>2. PICK g : /\ Place(g) = Place(p) /\ t.of \in DOMAIN g.targets
                 /\ DOMAIN g.targets \subseteq DOMAIN p.targets
                 /\ \A n \in DOMAIN g.targets : g.targets[n] = p.targets[n]
                 /\ p.targets["targ2"] \in GiveChoices(g, t)
    BY <1>2, <1>6, <1>9, <2>1 DEF Is
  <2>3. t.type = "pawn" /\ t.by = "in" /\ t.of = "tile2"
    BY <1>2, <2>1 DEF Is
  <2>4. PICK v \in Line(s, d, TRUE) : p.targets["tile2"] = Target("tile", v) /\ Walk(s, v, 2)
    BY <1>7, <2>2, <2>3
  <2>5. TilesOf(Place(g), g.targets[t.of]) = {v}
    BY <2>2, <2>3, <2>4 DEF TilesOf, Target
  <2>6. PICK c \in Pawn : /\ p.targets["targ2"] = Target("pawn", c)
                          /\ Place(g)[c] \in TilesOf(Place(g), g.targets[t.of])
    BY <2>2, <2>3, InIs
  <2> QED BY <1>1, <2>2, <2>4, <2>5, <2>6
<1>10. ASSUME NEW c \in Hit(q) PROVE Straight(s, d, at[c])
  <2>1. PICK i \in DOMAIN q.history : q.history[i].do = "damage" /\ c \in q.history[i].who
    BY <1>10 DEF Hit
  <2>2. PICK e \in Range(ActionOf["flames"].effects) :
           /\ e.do = "damage" /\ e.target \in DOMAIN p.targets
           /\ p.targets[e.target].is = "pawn" => q.history[i].who \subseteq {p.targets[e.target].id}
    BY <1>1, <2>1 DEF HitBy
  <2>3. e.target \in {"targ1", "targ2"}
    BY <1>1, ShotAssumption DEF FlamesAction
  <2>4. CASE e.target = "targ1"
    <3>1. PICK b \in Pawn : p.targets["targ1"] = Target("pawn", b) /\ at[b] = u
      BY <1>8, <2>2, <2>4
    <3>2. c = b
      BY <2>1, <2>2, <2>4, <3>1 DEF Target
    <3>3. 1 \in 1..2
      OBVIOUS
    <3> QED BY <1>4, <1>5, <3>1, <3>2, <3>3
  <2>5. CASE e.target = "targ2"
    <3>1. PICK b \in Pawn : /\ p.targets["targ2"] = Target("pawn", b)
                            /\ at[b] \in Line(s, d, TRUE) /\ Walk(s, at[b], 2)
      BY <1>9, <2>2, <2>5
    <3>2. c = b
      BY <2>1, <2>2, <2>5, <3>1 DEF Target
    <3>3. 2 \in 1..2
      OBVIOUS
    <3> QED BY <1>5, <3>1, <3>2, <3>3
  <2> QED BY <2>3, <2>4, <2>5
<1> QED BY <1>10 DEF FlamesFit, s

\* The laser hits who is in one direction.
LEMMA LaserHits ==
    ASSUME OnTheMap, NEW p, Aims(p, "laser"), NEW n, n = Len(ActionOf[p.now].targeters),
           Given(p, n + 1),
           NEW q, q.now = p.now, q.done = p.done, q.targets = p.targets, HitBy(q, q.done)
    PROVE  LaserFits(q)
<1> DEFINE s == at[Shooter]
           ts == ActionOf["laser"].targeters
           direz == p.targets["direz"]
<1>1. /\ "laser" \in DOMAIN ActionOf /\ p.now = "laser" /\ s \in Tile /\ p.done = {"laser"}
      /\ p.targets["self"] = Target("pawn", Shooter) /\ Place(p)[Shooter] = s
      /\ \A c \in Pawn : Place(p)[c] = at[c]
  BY AimsFromThere DEF Aims
<1>2. LaserAction(ActionOf["laser"])
  BY <1>1, ShotAssumption
<1>3. PICK i, j \in DOMAIN ts : /\ Is(ts[i], "direz", "directionph", "has", "self")
                                /\ Is(ts[j], "targ1", "pawn", "in", "direz")
  BY <1>2 DEF LaserAction
<1>4. \A e \in Range(ActionOf["laser"].effects) : e.target = "targ1"
  BY <1>2 DEF LaserAction
<1>5. i < n + 1 /\ j < n + 1
  <2>1. DOMAIN ts = 1..n /\ n \in Nat
    BY <1>1, ActionOfPlan, LenProperties DEF Aims
  <2> QED BY <2>1
<1> HIDE DEF s
<1>6. ASSUME "targ1" \in DOMAIN p.targets
      PROVE  \E c \in Pawn : \E d \in Direction :
                /\ p.targets["targ1"] = Target("pawn", c)
                /\ direz = Target("direction", Line(s, d, FALSE))
                /\ at[c] \in Line(s, d, FALSE)
  <2>1. PICK t : t = ts[i]
    OBVIOUS
  <2>2. PICK u : u = ts[j]
    OBVIOUS
  <2>3. PICK g : g = AsBefore(p, i)
    OBVIOUS
  <2>4. PICK h : h = AsBefore(p, j)
    OBVIOUS
  <2>5. /\ i \in DOMAIN ActionOf[p.now].targeters /\ t = ActionOf[p.now].targeters[i]
        /\ j \in DOMAIN ActionOf[p.now].targeters /\ u = ActionOf[p.now].targeters[j]
    BY <1>1, <2>1, <2>2
  <2>6. /\ t.name = "direz" /\ t.type = "directionph" /\ t.by = "has" /\ t.of = "self"
        /\ u.name = "targ1" /\ u.type = "pawn" /\ u.by = "in" /\ u.of = "direz"
    BY <1>3, <2>1, <2>2 DEF Is
  <2> HIDE DEF ts
  <2>7. /\ Place(g) = Place(p) /\ t.of \in DOMAIN g.targets
        /\ \A m \in DOMAIN g.targets : g.targets[m] = p.targets[m]
        /\ t.name \in DOMAIN p.targets => p.targets[t.name] \in GiveChoices(g, t)
    BY <1>5, <2>3, <2>5, GivenAt
  <2>8. /\ Place(h) = Place(p) /\ u.of \in DOMAIN h.targets
        /\ DOMAIN h.targets \subseteq DOMAIN p.targets
        /\ \A m \in DOMAIN h.targets : h.targets[m] = p.targets[m]
        /\ u.name \in DOMAIN p.targets => p.targets[u.name] \in GiveChoices(h, u)
    BY <1>5, <2>4, <2>5, GivenAt
  <2>9. "direz" \in DOMAIN p.targets /\ h.targets[u.of] = direz
    BY <2>6, <2>8
  <2>10. direz \in GiveChoices(g, t) /\ g.targets[t.of] = Target("pawn", Shooter)
    BY <1>1, <2>6, <2>7, <2>9
  <2>11. PICK d \in Direction : direz = Target("direction", Line(s, d, FALSE))
    <3>1. \E d \in Direction :
             direz = Target("direction", Line(Place(g)[Shooter], d, t.type = "direction"))
      BY <2>6, <2>10, DirectionIs
    <3>2. (t.type = "direction") = FALSE /\ Place(g)[Shooter] = s
      BY <1>1, <2>6, <2>7
    <3> QED BY <3>1, <3>2
  <2>12. TilesOf(Place(h), h.targets[u.of]) = Line(s, d, FALSE)
    <3>1. TilesOf(Place(h), Target("direction", Line(s, d, FALSE))) = Line(s, d, FALSE)
      BY DEF TilesOf, Target
    <3> QED BY <2>9, <2>11, <3>1
  <2> HIDE DEF direz
  <2>13. p.targets["targ1"] \in GiveChoices(h, u)
    BY <1>6, <2>6, <2>8
  <2>14. \E c \in Pawn : /\ p.targets["targ1"] = Target("pawn", c)
                         /\ Place(h)[c] \in TilesOf(Place(h), h.targets[u.of])
    BY <2>6, <2>13, InIs
  <2> QED BY <1>1, <2>8, <2>11, <2>12, <2>14
<1> HIDE DEF ts
<1> SUFFICES ASSUME NEW c \in Hit(q)
             PROVE  \/ Row(at[c]) = Row(s) \/ Column(at[c]) = Column(s)
                    \/ \E t \in q.targets["direz"].id :
                          Column(t) = Length - 1 /\ t + 1 \in q.targets["direz"].id
  BY DEF LaserFits, s
<1>7. PICK m \in DOMAIN q.history : q.history[m].do = "damage" /\ c \in q.history[m].who
  BY DEF Hit
<1>8. PICK e \in Range(ActionOf["laser"].effects) :
         /\ e.do = "damage" /\ e.target \in DOMAIN p.targets
         /\ p.targets[e.target].is = "pawn" => q.history[m].who \subseteq {p.targets[e.target].id}
  BY <1>1, <1>7 DEF HitBy
<1>9. e.target = "targ1"
  BY <1>4
<1>10. PICK b \in Pawn : \E d \in Direction :
         /\ p.targets["targ1"] = Target("pawn", b)
         /\ direz = Target("direction", Line(s, d, FALSE))
         /\ at[b] \in Line(s, d, FALSE)
  BY <1>6, <1>8, <1>9
<1>11. PICK d \in Direction :
         /\ p.targets["targ1"] = Target("pawn", b)
         /\ direz = Target("direction", Line(s, d, FALSE))
         /\ at[b] \in Line(s, d, FALSE)
  BY <1>10
<1>12. c = b
  BY <1>7, <1>8, <1>9, <1>11 DEF Target
<1>13. q.targets["direz"].id = Line(s, d, FALSE)
  BY <1>11 DEF Target
<1>14. \/ Row(at[b]) = Row(s) \/ Column(at[b]) = Column(s)
       \/ \E t \in Line(s, d, FALSE) : Column(t) = Length - 1 /\ t + 1 \in Line(s, d, FALSE)
  BY <1>1, <1>11, LineStrays
<1> QED BY <1>12, <1>13, <1>14

\* A targeter lacks what it starts from only where the flames have no second tile.
LEMMA FallsShort ==
    ASSUME OnTheMap, NEW p, Sound(p), p.now \in p.done, Orderly(p),
           Traced(p, p.done \ {p.now}), ActionOf[p.now].before \subseteq p.done \ {p.now},
           NEW k \in DOMAIN ActionOf[p.now].targeters, Given(p, k),
           ActionOf[p.now].targeters[k].of \notin DOMAIN p.targets
    PROVE  NoTileLeft(p)
<1> DEFINE s == at[Shooter]
           ts == ActionOf[p.now].targeters
<1>1. p.weapon \in DOMAIN Weapon /\ p.now \in Weapon[p.weapon] /\ p.now \in DOMAIN ActionOf
  BY ActionOfPlan
<1>2. "self" \in DOMAIN p.targets /\ p.targets["self"] = Target("pawn", Shooter)
  BY DEF Sound, Acquired
<1>3. p.now = "flames" /\ ts[k].of = "tile2"
  <2>1. ~Sourced(p.now, k)
    <3>1. ts[k].of # "self"
      BY <1>2
    <3>2. ASSUME NEW j \in DOMAIN ts, j < k, ts[j].name = ts[k].of PROVE ts[j].optional
      BY <3>2 DEF Given
    <3>3. ASSUME NEW b \in ActionOf[p.now].before, NEW t \in Targeters(b), t.name = ts[k].of
          PROVE  t.optional
      BY <3>3 DEF Traced, Complete
    <3> QED BY <3>1, <3>2, <3>3 DEF Sourced
  <2> QED BY <1>1, <2>1, ShotAssumption
<1>4. Aims(p, "flames")
  BY <1>3 DEF Aims
<1>5. /\ DOMAIN ts = 1..5
      /\ ts[1].of = "self" /\ ts[2].of = "self" /\ ts[3].of = "dir" /\ ts[4].of = "tile1"
      /\ Is(ts[3], "tile2", "tile", "in", "dir") /\ ts[3].automatic /\ ~ts[3].new
      /\ \A f \in ts[3].filters :
            /\ f.by = "distant" /\ f.min = 2 /\ f.max = 2 /\ f.logical = TRUE
            /\ f.of = "self" /\ f.negated = FALSE
  <2>1. "flames" \in DOMAIN ActionOf /\ ts = ActionOf["flames"].targeters
    BY <1>1, <1>3
  <2> HIDE DEF ts
  <2>2. /\ DOMAIN ts = 1..5
        /\ Is(ts[1], "tile1", "tile", "distant", "self")
        /\ Is(ts[2], "dir", "direction", "has", "self")
        /\ Is(ts[3], "tile2", "tile", "in", "dir") /\ ts[3].automatic /\ ~ts[3].new
        /\ \A f \in ts[3].filters :
              /\ f.by = "distant" /\ f.min = 2 /\ f.max = 2 /\ f.logical = TRUE
              /\ f.of = "self" /\ f.negated = FALSE
        /\ Is(ts[4], "targ1", "pawn", "in", "tile1")
    BY <2>1, FlamesTargeters
  <2> QED BY <2>2 DEF Is
<1>6. k = 5
  BY <1>3, <1>5
<1>7. s \in Tile /\ Place(p)[Shooter] = s
  BY <1>4, AimsFromThere
<1> HIDE DEF s
<1>8. PICK d \in Direction : \E u \in Line(s, d, TRUE) :
         /\ p.targets["tile1"] = Target("tile", u)
         /\ "dir" \in DOMAIN p.targets
         /\ p.targets["dir"] = Target("direction", Line(s, d, TRUE))
         /\ Walk(s, u, 1)
  <2>1. k \in Nat /\ k > 2
    BY <1>6
  <2>2. \E d \in Direction : \E u \in Line(at[Shooter], d, TRUE) :
           /\ "tile1" \in DOMAIN p.targets /\ p.targets["tile1"] = Target("tile", u)
           /\ "dir" \in DOMAIN p.targets
           /\ p.targets["dir"] = Target("direction", Line(at[Shooter], d, TRUE))
           /\ Walk(at[Shooter], u, 1)
    BY <1>4, <2>1, FlamesLine
  <2> QED BY <2>2 DEF s
<1>9. PICK u \in Line(s, d, TRUE) :
         /\ p.targets["tile1"] = Target("tile", u)
         /\ "dir" \in DOMAIN p.targets
         /\ p.targets["dir"] = Target("direction", Line(s, d, TRUE))
         /\ Walk(s, u, 1)
  BY <1>8
<1>10. PICK t : t = ts[3]
  OBVIOUS
<1>11. PICK g : g = AsBefore(p, 3)
  OBVIOUS
<1>12. /\ Place(g) = Place(p) /\ t.of \in DOMAIN g.targets
       /\ \A m \in DOMAIN g.targets : g.targets[m] = p.targets[m]
       /\ GiveChoices(g, t) = {}
  <2>1. 3 \in DOMAIN ActionOf[p.now].targeters /\ 3 < k /\ t = ActionOf[p.now].targeters[3]
    BY <1>5, <1>6, <1>10
  <2>2. t.name \notin DOMAIN p.targets /\ t.automatic
    BY <1>3, <1>5, <1>10 DEF Is
  <2> HIDE DEF ts
  <2> QED BY <1>11, <2>1, <2>2, GivenAt
<1>13. /\ t.type = "tile" /\ t.by = "in" /\ t.of = "dir" /\ ~t.new
       /\ \A f \in t.filters :
             /\ f.by = "distant" /\ f.min = 2 /\ f.max = 2 /\ f.logical = TRUE
             /\ f.of = "self" /\ f.negated = FALSE
  BY <1>5, <1>10 DEF Is
<1> HIDE DEF ts
<1> SUFFICES ASSUME NEW e \in Direction, p.targets["tile1"].id = s + Diff[e],
                    Straight(s, e, s + 2 * Diff[e])
             PROVE  FALSE
  BY DEF NoTileLeft, s
<1>14. s \in Int /\ Diff[e] \in Int /\ Diff[e] # 0 /\ Diff[d] \in Int
  BY <1>7, DiffIs, BoardAssumption DEF Tile
<1>15. Passage(s, s + Diff[e]) /\ Passage(s + Diff[e], s + 2 * Diff[e])
  <2>1. PICK n \in 0..2 :
           /\ s + 2 * Diff[e] = s + n * Diff[e]
           /\ \A i \in 0..n - 1 : Passage(s + i * Diff[e], s + (i + 1) * Diff[e])
    BY DEF Straight
  <2>2. n = 2
    <3>1. n # 0
      BY <1>14, <2>1
    <3>2. n # 1
      BY <1>14, <2>1
    <3> QED BY <3>1, <3>2
  <2>3. 0 \in 0..n - 1 /\ 1 \in 0..n - 1
    BY <2>2
  <2>4. Passage(s + 0 * Diff[e], s + (0 + 1) * Diff[e])
        /\ Passage(s + 1 * Diff[e], s + (1 + 1) * Diff[e])
    BY <2>1, <2>3
  <2>5. /\ s + 0 * Diff[e] = s /\ s + (0 + 1) * Diff[e] = s + Diff[e]
        /\ s + 1 * Diff[e] = s + Diff[e] /\ s + (1 + 1) * Diff[e] = s + 2 * Diff[e]
    BY <1>14
  <2> QED BY <2>4, <2>5
<1>16. Diff[d] = Diff[e]
  <2>1. u = s + Diff[e]
    BY <1>9 DEF Target
  <2>2. s \in Tile /\ u \in Line(s, d, TRUE) /\ Walk(s, u, 1)
    BY <1>7, <1>9
  <2> QED BY <2>1, <2>2, LineThrough
<1> DEFINE v == s + 2 * Diff[d]
<1>17. v \in Line(s, d, TRUE) /\ Walk(s, v, 2) /\ ~Walk(s, v, 1)
  <2>1. Passage(s, s + Diff[d]) /\ Passage(s + Diff[d], s + 2 * Diff[d])
    BY <1>15, <1>16
  <2> QED BY <1>7, <2>1, StraightInLine
<1> HIDE DEF v
<1>18. Target("tile", v) \in GiveChoices(g, t)
  <2> DEFINE place == Place(g)
             x == Target("tile", v)
             self == Target("pawn", Shooter)
             built == UNION {Built(place, t.type, w) : w \in Selected(place, t, g.targets[t.of])}
             legal == {y \in built \ {self} : \A f \in t.filters :
                          f.of \in DOMAIN g.targets => Meets(place, f, y, g.targets[f.of])}
             whole == IF t.type = "group" /\ legal # {}
                      THEN {Target("group", {y.id : y \in legal})} ELSE legal
  <2>1. GiveChoices(g, t) = {y \in whole : t.new => \A m \in DOMAIN g.targets : ~Same(y, g.targets[m])}
    BY DEF GiveChoices
  <2>2. Selected(place, t, g.targets[t.of]) = Line(s, d, TRUE)
    <3>1. g.targets[t.of] = Target("direction", Line(s, d, TRUE))
      BY <1>9, <1>12, <1>13
    <3>2. TilesOf(place, Target("direction", Line(s, d, TRUE))) = Line(s, d, TRUE)
      BY DEF TilesOf, Target
    <3> QED BY <1>13, <3>1, <3>2 DEF Selected
  <2>3. x \in Built(place, t.type, v)
    BY <1>13 DEF Built
  <2>4. x \in built
    BY <1>17, <2>2, <2>3
  <2>5. x # self
    BY DEF Target
  <2>6. ASSUME NEW f \in t.filters, f.of \in DOMAIN g.targets
        PROVE  Meets(place, f, x, g.targets[f.of])
    <3>1. /\ f.by = "distant" /\ f.min = 2 /\ f.max = 2 /\ f.logical = TRUE
          /\ f.of = "self" /\ f.negated = FALSE
      BY <1>13
    <3>2. g.targets[f.of] = self
      BY <1>2, <1>12, <2>6, <3>1
    <3>3. LocationOf(place, self) = s
      BY <1>7, <1>12 DEF LocationOf, Target
    <3>4. v \in Circle(s, 2, TRUE)
      <4>1. 2 \in Nat
        OBVIOUS
      <4> QED BY <1>7, <1>17, <4>1, CirclesAreWalks
    <3>5. v \notin Circle(s, 1, TRUE)
      <4>1. 1 \in Nat
        OBVIOUS
      <4> QED BY <1>7, <1>17, <4>1, CirclesAreWalks
    <3>6. v \in Distant(place, self, 2, 2, TRUE)
      <4>1. 2 - 1 = 1
        OBVIOUS
      <4> QED BY <3>3, <3>4, <3>5, <4>1 DEF Distant
    <3>7. TilesOf(place, x) = {v}
      BY DEF TilesOf, Target
    <3>8. TilesOf(place, x) \cap Distant(place, self, f.min, f.max, f.logical) # {}
      BY <3>1, <3>6, <3>7
    <3> HIDE DEF x, self, place
    <3> QED BY <3>1, <3>2, <3>8 DEF Meets
  <2>7. x \in legal
    <3> HIDE DEF built, self
    <3> QED BY <2>4, <2>5, <2>6
  <2>8. x \in whole
    <3> HIDE DEF legal
    <3> QED BY <1>13, <2>7
  <2> HIDE DEF whole
  <2> QED BY <1>13, <2>1, <2>8
<1> QED BY <1>12, <1>18

-----------------------------------------------------------------------------
(* An action is run *)

\* The targeters from the j-th to the n-th of the action are still to be asked.
Awaits(q, j, n) ==
    LET ts == ActionOf[q.now].targeters IN
    /\ j \in Nat \ {0} /\ n \in Nat /\ j <= n + 1 /\ n <= Len(ts)
    /\ q.todo \in Seq(Targeter) /\ Len(q.todo) = n - j + 1
    /\ \A i \in 1..n - j + 1 : q.todo[i] = ts[j + i - 1]

\* The j-th asks the player.
Asks(q, j, n) ==
    /\ Awaits(q, j, n) /\ Running(q, j)
    /\ ActionOf[q.now].targeters[j].of \in DOMAIN q.targets
    /\ ~ActionOf[q.now].targeters[j].automatic

\* The targeters up to the n-th have been looked at.
RunState(q, n) ==
    /\ Sound(q) /\ q.now \in q.done /\ Ruled(q)
    /\ q.ask \in {"next", "target", "rollback", "exception"}
    /\ q.ask = "next" => Running(q, n + 1)
    /\ q.ask = "target" => \E j \in 1..n : Asks(q, j, n)
    /\ q.ask = "exception" => NoTileLeft(q)

\* What is between two steps of the player.
PlanInv(q) ==
    /\ Sound(q) /\ Orderly(q) /\ FlamesFit(q) /\ LaserFits(q)
    /\ q.ask \in {"action", "target", "rollback", "exception"}
    /\ q.ask = "action" => Traced(q, q.done)
    /\ q.ask = "exception" => NoTileLeft(q)
    /\ q.ask = "target" =>
          /\ q.now \in q.done
          /\ \E j \in DOMAIN ActionOf[q.now].targeters :
                Asks(q, j, Len(ActionOf[q.now].targeters))

LEMMA AwaitsMore ==
    ASSUME NEW q, NEW j, NEW n \in Nat, n + 1 <= Len(ActionOf[q.now].targeters), Awaits(q, j, n),
           ActionOf[q.now].targeters \in Seq(Targeter),
           NEW r, r.now = q.now, r.todo = Append(q.todo, ActionOf[q.now].targeters[n + 1])
    PROVE  Awaits(r, j, n + 1)
<1> DEFINE ts == ActionOf[q.now].targeters
           m == n - j + 1
<1>1. /\ j \in Nat \ {0} /\ j <= n + 1 /\ n <= Len(ts)
      /\ q.todo \in Seq(Targeter) /\ Len(q.todo) = m
      /\ \A i \in 1..m : q.todo[i] = ts[j + i - 1]
  BY DEF Awaits
<1>2. Len(ts) \in Nat /\ n + 1 \in 1..Len(ts) /\ ts[n + 1] \in Targeter
  <2>1. Len(ts) \in Nat /\ DOMAIN ts = 1..Len(ts)
    BY LenProperties
  <2>2. n + 1 \in DOMAIN ts
    BY <2>1
  <2> QED BY <2>1, <2>2, ElementOfSeq
<1>3. /\ r.todo \in Seq(Targeter) /\ Len(r.todo) = m + 1
      /\ \A i \in 1..m : r.todo[i] = q.todo[i]
      /\ r.todo[m + 1] = ts[n + 1]
  <2> HIDE DEF ts, m
  <2> QED BY <1>1, <1>2, AppendProperties DEF ts
<1>4. (n + 1) - j + 1 = m + 1 /\ j + (m + 1) - 1 = n + 1 /\ m \in Nat
  BY <1>1
<1>5. ASSUME NEW i \in 1..m + 1 PROVE r.todo[i] = ts[j + i - 1]
  <2>1. CASE i = m + 1
    BY <1>3, <1>4, <2>1
  <2>2. CASE i # m + 1
    <3>1. i \in 1..m
      BY <1>4, <2>2
    <3> QED BY <1>1, <1>3, <3>1
  <2> QED BY <2>1, <2>2
<1>6. j <= (n + 1) + 1 /\ n + 1 \in Nat
  BY <1>1
<1> HIDE DEF m
<1> QED BY <1>1, <1>3, <1>4, <1>5, <1>6 DEF Awaits

\* One targeter more.
LEMMA ResolveRuns ==
    ASSUME OnTheMap, NEW q, NEW n \in Nat, n + 1 \in DOMAIN ActionOf[q.now].targeters,
           RunState(q, n), NEW t, t = ActionOf[q.now].targeters[n + 1], NEW r \in Resolve(q, t)
    PROVE  RunState(r, n + 1) /\ r.now = q.now
<1> DEFINE ts == ActionOf[q.now].targeters
<1>1. Sound(q) /\ Shape(q) /\ q.now \in q.done /\ Ruled(q)
  BY DEF RunState, Sound
<1>2. ts \in Seq(Targeter) /\ Len(ts) \in Nat /\ DOMAIN ts = 1..Len(ts)
  BY <1>1, ActionOfPlan, LenProperties
<1>3. n + 1 <= Len(ts)
  BY <1>2
<1>4. CASE q.ask # "next"
  <2>1. r = [q EXCEPT !.todo = Append(@, t)]
    BY <1>4 DEF Resolve
  <2>2. Alike(q, r) /\ r.ask = q.ask /\ r.todo = Append(q.todo, t)
    BY ONLY <1>1, <2>1 DEF Shape, Alike
  <2>3. /\ Sound(r) /\ r.now = q.now /\ r.done = q.done /\ Ruled(r)
        /\ NoTileLeft(q) => NoTileLeft(r)
    BY <1>1, <2>2, AlikeRuns DEF Alike
  <2>4. ASSUME r.ask = "target" PROVE \E j \in 1..n + 1 : Asks(r, j, n + 1)
    <3>1. PICK j \in 1..n : Asks(q, j, n)
      BY <2>2, <2>4 DEF RunState
    <3>2. Awaits(r, j, n + 1)
      BY <1>2, <1>3, <2>2, <2>3, <3>1, AwaitsMore DEF Asks
    <3>3. Running(r, j)
      BY <2>2, <3>1, AlikeRuns DEF Asks
    <3>4. /\ ActionOf[r.now].targeters[j].of \in DOMAIN r.targets
          /\ ~ActionOf[r.now].targeters[j].automatic
      BY <2>2, <3>1 DEF Asks, Alike
    <3>5. j \in 1..n + 1
      OBVIOUS
    <3> QED BY <3>2, <3>3, <3>4, <3>5 DEF Asks
  <2> QED BY <1>1, <1>4, <2>2, <2>3, <2>4 DEF RunState
<1>5. CASE q.ask = "next" /\ t.of \notin DOMAIN q.targets
  <2>1. r = [q EXCEPT !.ask = "exception"]
    BY <1>5 DEF Resolve
  <2>2. Alike(q, r) /\ r.ask = "exception"
    BY <1>1, <2>1, AskChanged
  <2>3. NoTileLeft(q)
    <3>1. Given(q, n + 1)
      BY <1>5 DEF RunState, Running
    <3> QED BY <1>1, <1>5, <3>1, FallsShort DEF Ruled
  <2>4. Sound(r) /\ Ruled(r) /\ NoTileLeft(r)
    BY <1>1, <2>2, <2>3, AlikeRuns
  <2> QED BY <1>1, <2>2, <2>4 DEF RunState, Alike
<1>6. CASE q.ask = "next" /\ t.of \in DOMAIN q.targets
  <2>1. Running(q, n + 1)
    BY <1>6 DEF RunState
  <2> DEFINE c == GiveChoices(q, t)
  <2>2. CASE c = {} /\ ~t.optional
    <3>1. r = [q EXCEPT !.ask = "rollback"]
      BY <1>6, <2>2 DEF Resolve
    <3>2. Alike(q, r) /\ r.ask = "rollback"
      BY <1>1, <3>1, AskChanged
    <3>3. Sound(r) /\ Ruled(r)
      BY <1>1, <3>2, AlikeRuns
    <3> QED BY <1>1, <3>2, <3>3 DEF RunState, Alike
  <2>3. CASE ~(c = {} /\ ~t.optional) /\ ~t.automatic
    <3>1. r = [q EXCEPT !.ask = "target", !.todo = <<t>>]
      BY <1>6, <2>3 DEF Resolve
    <3>2. Alike(q, r) /\ r.ask = "target" /\ r.todo = <<t>>
      BY ONLY <1>1, <3>1 DEF Shape, Alike
    <3>3. Running(r, n + 1) /\ r.now = q.now
      BY <2>1, <3>2, AlikeRuns DEF Alike
    <3>4. t \in Targeter
      BY <1>2, ElementOfSeq
    <3>5. r.todo \in Seq(Targeter) /\ Len(r.todo) = 1 /\ r.todo[1] = t
      BY <3>2, <3>4
    <3>6. Awaits(r, n + 1, n + 1)
      <4>1. (n + 1) - (n + 1) + 1 = 1 /\ (n + 1) + 1 - 1 = n + 1
        OBVIOUS
      <4>2. \A i \in 1..1 : i = 1
        OBVIOUS
      <4>3. n + 1 \in Nat \ {0} /\ n + 1 <= (n + 1) + 1
        OBVIOUS
      <4> QED BY <1>3, <3>3, <3>5, <4>1, <4>2, <4>3 DEF Awaits
    <3>7. Asks(r, n + 1, n + 1)
      BY <1>6, <2>3, <3>2, <3>3, <3>6 DEF Asks, Alike
    <3>8. n + 1 \in 1..n + 1
      OBVIOUS
    <3>9. Sound(r) /\ r.now \in r.done /\ Ruled(r)
      BY <3>3 DEF Running
    <3> QED BY <3>2, <3>3, <3>7, <3>8, <3>9 DEF RunState
  <2>4. CASE c = {} /\ t.optional /\ t.automatic
    <3>1. r = q
      BY <1>6, <2>4 DEF Resolve
    <3>3. Running(q, (n + 1) + 1)
      BY <1>6, <2>1, <2>4, GivenNone
    <3> QED BY <1>1, <1>6, <3>1, <3>3 DEF RunState
  <2>5. CASE c # {} /\ t.automatic
    <3>1. PICK x \in c : r = [q EXCEPT !.targets = Over([m \in {t.name} |-> x], @)]
      BY <1>6, <2>5 DEF Resolve
    <3>2. Acquires(q, n + 1, x, r)
      BY <1>1, <1>6, <3>1 DEF Acquires
    <3>3. Running(r, (n + 1) + 1) /\ r.now = q.now /\ r.done = q.done /\ r.ask = q.ask
      BY <2>1, <3>2, AcquireRuns
    <3>4. Sound(r) /\ r.now \in r.done /\ Ruled(r)
      BY <3>3 DEF Running
    <3> QED BY <1>6, <3>3, <3>4 DEF RunState
  <2> QED BY <2>2, <2>3, <2>4, <2>5
<1> QED BY <1>4, <1>5, <1>6

\* All the targeters that are left.
LEMMA RunEnds ==
    ASSUME OnTheMap, NEW p, NEW k, Running(p, k),
           Awaits(p, k, Len(ActionOf[p.now].targeters)),
           NEW start, start = [p EXCEPT !.ask = "next", !.todo = <<>>],
           NEW q \in FoldLeft(ResolveAll, {start}, p.todo)
    PROVE  RunState(q, Len(ActionOf[p.now].targeters)) /\ q.now = p.now
<1> DEFINE ts == ActionOf[p.now].targeters
           n == Len(p.todo)
<1>1. Sound(p) /\ Shape(p) /\ p.now \in p.done
  BY DEF Running, Sound
<1>2. Len(ts) \in Nat /\ DOMAIN ts = 1..Len(ts)
  BY <1>1, ActionOfPlan, LenProperties
<1>3. k \in Nat \ {0} /\ k <= Len(ts) + 1 /\ n = Len(ts) - k + 1
  BY DEF Awaits
<1>12. p.todo \in Seq(Targeter)
  BY DEF Awaits
<1>13. \A i \in 1..n : p.todo[i] = ts[k + i - 1]
  BY <1>3 DEF Awaits
<1>4. PICK st : Chain("targeters", {start}, p.todo, st)
             /\ FoldOf("targeters", {start}, p.todo) = st[n]
  BY <1>12, FoldHasChain
<1>5. st[0] = {start} /\ \A i \in 1..n : st[i] = ResolveAll(st[i - 1], p.todo[i])
  BY <1>4 DEF Chain, StepOf
<1>6. q \in st[n]
  BY <1>4, FoldLeftIs
<1> HIDE DEF n, ts
<1>7. n \in Nat /\ Len(ts) = k + n - 1
  BY <1>2, <1>3
<1> DEFINE Good(m) == \A s \in st[m] : RunState(s, k + m - 1) /\ s.now = p.now
           Bad == {m \in 0..n : ~Good(m)}
<1>8. Good(0)
  <2>1. Alike(p, start) /\ start.ask = "next"
    BY ONLY <1>1, start = [p EXCEPT !.ask = "next", !.todo = <<>>] DEF Shape, Alike
  <2>2. Running(start, k) /\ start.now = p.now
    BY <2>1, AlikeRuns DEF Alike
  <2>3. (k + 0 - 1) + 1 = k
    BY <1>3
  <2>4. RunState(start, k + 0 - 1)
    BY <2>1, <2>2, <2>3 DEF RunState, Running
  <2> QED BY <1>5, <2>2, <2>4
<1>9. ASSUME NEW m \in 1..n, Good(m - 1) PROVE Good(m)
  <2>1. p.todo[m] = ts[k + m - 1]
    BY <1>13
  <2>2. k + (m - 1) - 1 \in Nat /\ (k + (m - 1) - 1) + 1 = k + m - 1
    BY <1>3
  <2>3. k + m - 1 \in DOMAIN ts
    BY <1>2, <1>3, <1>7
  <2> SUFFICES ASSUME NEW s \in st[m] PROVE RunState(s, k + m - 1) /\ s.now = p.now
    OBVIOUS
  <2>4. PICK o \in st[m - 1] : s \in Resolve(o, p.todo[m])
    <3>1. s \in ResolveAll(st[m - 1], p.todo[m])
      BY <1>5
    <3> QED BY <3>1 DEF ResolveAll
  <2>5. RunState(o, k + (m - 1) - 1) /\ o.now = p.now
    BY <1>9, <2>4
  <2> DEFINE i == k + (m - 1) - 1
  <2> HIDE DEF i, Good
  <2>6. i \in Nat /\ i + 1 = k + m - 1 /\ RunState(o, i)
    BY <2>2, <2>5 DEF i
  <2>7. RunState(s, i + 1) /\ s.now = o.now
    <3>1. i + 1 \in DOMAIN ActionOf[o.now].targeters /\ p.todo[m] = ActionOf[o.now].targeters[i + 1]
      BY <2>1, <2>3, <2>5, <2>6 DEF ts
    <3> QED BY <2>4, <2>6, <3>1, ResolveRuns
  <2> QED BY <2>5, <2>6, <2>7
<1>10. Bad = {}
  <2> SUFFICES ASSUME Bad # {} PROVE FALSE
    OBVIOUS
  <2>1. PICK m \in Bad : \A x \in Bad : m <= x
    <3>1. Bad \in SUBSET Nat
      BY <1>7
    <3> HIDE DEF Bad
    <3> QED BY <3>1, LeastNat
  <2> HIDE DEF Good
  <2>2. m \in 1..n /\ m - 1 \in 0..n
    BY <1>7, <1>8, <2>1
  <2>3. m - 1 \notin Bad
    BY <2>1, <2>2
  <2> QED BY <1>9, <2>1, <2>2, <2>3
<1>11. Good(n)
  <2> HIDE DEF Good
  <2> QED BY <1>7, <1>10
<1> QED BY <1>6, <1>7, <1>11 DEF ts

\* All the effects.
LEMMA FinishIsSound ==
    ASSUME OnTheMap, NEW p, Sound(p), p.now \in p.done, Linked(p),
           Orderly(p), Ready(p), Traced(p, p.done),
           NEW q, q = FoldLeft(Spawn, p, ActionOf[p.now].effects)
    PROVE  /\ Sound(q) /\ Orderly(q) /\ Traced(q, q.done)
           /\ q.now = p.now /\ q.done = p.done /\ q.targets = p.targets
<1> DEFINE es == ActionOf[p.now].effects
           n == Len(es)
<1>1. es \in Seq(Effect)
  BY ActionOfPlan
<1>2. n \in Nat /\ DOMAIN es = 1..n
  BY <1>1, LenProperties
<1>3. PICK st : Chain("effects", p, es, st) /\ FoldOf("effects", p, es) = st[n]
  BY <1>1, FoldHasChain
<1>4. st[0] = p /\ \A i \in 1..n : st[i] = Spawn(st[i - 1], es[i])
  BY <1>3 DEF Chain, StepOf
<1>5. q = st[n]
  BY <1>3, FoldLeftIs
<1> HIDE DEF n
<1> DEFINE Good(s) == /\ Sound(s) /\ s.now = p.now /\ s.done = p.done /\ Linked(s)
                      /\ Orderly(s) /\ Ready(s) /\ Traced(s, s.done) /\ s.targets = p.targets
           Bad == {m \in 0..n : ~Good(st[m])}
<1>6. ASSUME NEW m \in 1..n, Good(st[m - 1]) PROVE Good(st[m])
  <2>1. es[m] \in Range(ActionOf[st[m - 1].now].effects)
    BY <1>2, <1>6 DEF Range
  <2>2. st[m] = Spawn(st[m - 1], es[m])
    BY <1>4
  <2>3. PICK s : s = st[m - 1]
    OBVIOUS
  <2>4. PICK r : r = st[m]
    OBVIOUS
  <2>5. Good(s) /\ s.now \in s.done /\ es[m] \in Range(ActionOf[s.now].effects) /\ r = Spawn(s, es[m])
    BY <1>6, <2>1, <2>2, <2>3, <2>4
  <2> HIDE DEF es
  <2>6. Sound(r) /\ r.now = s.now /\ r.done = s.done /\ Linked(r)
    BY <2>5, SpawnIsSound
  <2>7. Orderly(r) /\ Ready(r) /\ Traced(r, r.done) /\ r.targets = s.targets
    BY <2>5, SpawnTraces
  <2> QED BY <2>4, <2>5, <2>6, <2>7
<1>7. Good(st[0])
  BY <1>4
<1>8. Bad = {}
  <2> SUFFICES ASSUME Bad # {} PROVE FALSE
    OBVIOUS
  <2>1. PICK m \in Bad : \A x \in Bad : m <= x
    <3>1. Bad \in SUBSET Nat
      BY <1>2
    <3> HIDE DEF Bad
    <3> QED BY <3>1, LeastNat
  <2> HIDE DEF Good
  <2>2. m \in 1..n /\ m - 1 \in 0..n
    BY <1>2, <1>7, <2>1
  <2>3. m - 1 \notin Bad
    BY <2>1, <2>2
  <2> QED BY <1>6, <2>1, <2>2, <2>3
<1>9. n \in 0..n
  BY <1>2
<1> QED BY <1>5, <1>8, <1>9

\* An action that has been given all its targets has its traces.
LEMMA AllTraced ==
    ASSUME NEW p, Sound(p), p.now \in p.done, Ruled(p),
           NEW n, n = Len(ActionOf[p.now].targeters), Given(p, n + 1)
    PROVE  Traced(p, p.done)
<1>1. MovedBy(p, p.done) /\ HitBy(p, p.done)
  BY DEF Ruled, Traced, MovedBy, HitBy
<1>2. ASSUME NEW b \in p.done, NEW t \in Targeters(b), ~t.optional
      PROVE  t.name \in DOMAIN p.targets
  <2>1. CASE b = p.now
    <3>1. PICK i \in DOMAIN ActionOf[p.now].targeters : ActionOf[p.now].targeters[i] = t
      BY <2>1 DEF Targeters, Range
    <3>2. DOMAIN ActionOf[p.now].targeters = 1..n /\ n \in Nat
      BY ActionOfPlan, LenProperties
    <3>3. i < n + 1
      BY <3>1, <3>2
    <3> QED BY <1>2, <3>1, <3>3 DEF Given
  <2>2. CASE b # p.now
    BY <1>2, <2>2 DEF Ruled, Traced, Complete
  <2> QED BY <2>1, <2>2
<1>3. Complete(p, p.done)
  BY <1>2 DEF Complete
<1> QED BY <1>1, <1>3 DEF Traced

\* The flames and the laser hit nobody before all targets are had.
LEMMA NotYetHit ==
    ASSUME NEW p, Sound(p), p.now \in p.done, Ruled(p)
    PROVE  FlamesFit(p) /\ LaserFits(p)
<1> SUFFICES ASSUME p.now \in {"flames", "laser"} PROVE FlamesFit(p) /\ LaserFits(p)
  BY DEF FlamesFit, LaserFits
<1>1. p.done \ {p.now} = {}
  BY UsedAlone DEF Ruled
<1>2. Hit(p) = {}
  BY <1>1, NothingHit DEF Ruled, Traced
<1>3. "UP" \in Direction
  BY DEF Direction, Diff
<1> QED BY <1>2, <1>3 DEF FlamesFit, LaserFits

\* They hit whom they may.
LEMMA HitsFit ==
    ASSUME OnTheMap, NEW p, Sound(p), p.now \in p.done, Ruled(p),
           NEW n, n = Len(ActionOf[p.now].targeters), Given(p, n + 1),
           NEW q, q.now = p.now, q.done = p.done, q.targets = p.targets, HitBy(q, q.done)
    PROVE  FlamesFit(q) /\ LaserFits(q)
<1>1. CASE p.now = "flames"
  <2>1. Aims(p, "flames")
    BY <1>1 DEF Ruled, Aims
  <2>2. n + 1 = 6
    <3>1. "flames" \in DOMAIN ActionOf
      BY <1>1, ActionOfPlan
    <3>2. Len(ActionOf["flames"].targeters) = 5
      BY <3>1, FlamesTargeters
    <3> QED BY <1>1, <3>2
  <2>3. FlamesFit(q)
    BY <2>1, <2>2, FlamesBurn
  <2> QED BY <1>1, <2>3 DEF LaserFits
<1>2. CASE p.now = "laser"
  <2>1. Aims(p, "laser")
    BY <1>2 DEF Ruled, Aims
  <2>2. LaserFits(q)
    BY <2>1, LaserHits
  <2> QED BY <1>2, <2>2 DEF FlamesFit
<1>3. CASE p.now \notin {"flames", "laser"}
  BY <1>3 DEF FlamesFit, LaserFits
<1> QED BY <1>1, <1>2, <1>3

\* The action is run up to the next question, or to its end.
LEMMA IterateHolds ==
    ASSUME OnTheMap, NEW p, NEW k, Running(p, k),
           Awaits(p, k, Len(ActionOf[p.now].targeters)), NEW r \in Iterate(p)
    PROVE  PlanInv(r)
<1> DEFINE start == [p EXCEPT !.ask = "next", !.todo = <<>>]
           n == Len(ActionOf[p.now].targeters)
<1>1. PICK q \in FoldLeft(ResolveAll, {start}, p.todo) :
         r = IF q.ask = "next"
             THEN [FoldLeft(Spawn, q, ActionOf[q.now].effects) EXCEPT !.ask = "action"]
             ELSE q
  BY DEF Iterate
<1>2. RunState(q, n) /\ q.now = p.now
  <2> HIDE DEF n
  <2> QED BY RunEnds DEF n
<1>3. CASE q.ask = "next"
  <2> DEFINE s == FoldLeft(Spawn, q, ActionOf[q.now].effects)
  <2>1. Sound(q) /\ q.now \in q.done /\ Linked(q) /\ Ruled(q)
    BY <1>2, <1>3 DEF RunState, Running
  <2>2. PICK m : m = Len(ActionOf[q.now].targeters)
    OBVIOUS
  <2>3. Given(q, m + 1)
    BY <1>2, <1>3, <2>2 DEF RunState, Running
  <2>4. Orderly(q) /\ Ready(q) /\ Traced(q, q.done)
    <3>1. Orderly(q) /\ MovedBy(q, q.done \ {q.now})
      BY <2>1 DEF Ruled, Traced
    <3>2. Traced(q, q.done)
      BY <2>1, <2>2, <2>3, AllTraced
    <3>3. Ready(q)
      BY <2>1, <2>2, <2>3, <3>1, GivenIsReady
    <3> QED BY <3>1, <3>2, <3>3
  <2>5. PICK v : v = s
    OBVIOUS
  <2>6. /\ Sound(v) /\ Orderly(v) /\ Traced(v, v.done)
        /\ v.now = q.now /\ v.done = q.done /\ v.targets = q.targets
    BY <2>1, <2>4, <2>5, FinishIsSound
  <2>7. FlamesFit(v) /\ LaserFits(v)
    <3>1. HitBy(v, v.done)
      BY <2>6 DEF Traced
    <3> QED BY <2>1, <2>2, <2>3, <2>6, <3>1, HitsFit
  <2>8. r = [v EXCEPT !.ask = "action"]
    BY <1>1, <1>3, <2>5
  <2> HIDE DEF s
  <2>9. Alike(v, r) /\ r.ask = "action"
    <3>1. Shape(v)
      BY <2>6 DEF Sound
    <3> QED BY ONLY <2>8, <3>1 DEF Shape, Alike
  <2>10. /\ Sound(r) /\ Orderly(r) /\ Traced(r, v.done) /\ r.done = v.done
         /\ FlamesFit(r) /\ LaserFits(r)
    BY <2>6, <2>7, <2>9, AlikeRuns DEF Alike
  <2> QED BY <2>9, <2>10 DEF PlanInv
<1>4. CASE q.ask # "next"
  <2>1. r = q
    BY <1>1, <1>4
  <2>2. ASSUME q.ask = "target"
        PROVE  \E j \in DOMAIN ActionOf[q.now].targeters :
                  Asks(q, j, Len(ActionOf[q.now].targeters))
    <3>1. PICK j \in 1..n : Asks(q, j, n)
      BY <1>2, <2>2 DEF RunState
    <3>2. DOMAIN ActionOf[q.now].targeters = 1..n
      BY <1>2, ActionOfPlan, LenProperties DEF RunState
    <3> QED BY <1>2, <3>1, <3>2
  <2>3. Sound(q) /\ Ruled(q) /\ q.now \in q.done
    BY <1>2 DEF RunState
  <2>4. Orderly(q) /\ FlamesFit(q) /\ LaserFits(q)
    BY <2>3, NotYetHit DEF Ruled
  <2> QED BY <1>2, <1>4, <2>1, <2>2, <2>3, <2>4 DEF RunState, PlanInv
<1> QED BY <1>3, <1>4

-----------------------------------------------------------------------------
(* The steps of the player *)

\* Everybody is on the map or dead, and the plan in the making is sound.
Inv == OnTheMap /\ (plan # Idle => PlanInv(plan))

LEMMA AwaitsRest ==
    ASSUME NEW q, NEW j, NEW n, Awaits(q, j, n), j <= n, NEW r, r.now = q.now, r.todo = Tail(q.todo)
    PROVE  Awaits(r, j + 1, n)
<1> DEFINE ts == ActionOf[q.now].targeters
           m == n - j + 1
<1>1. j \in Nat \ {0} /\ n \in Nat /\ n <= Len(ts)
  BY DEF Awaits
<1>2. q.todo \in Seq(Targeter) /\ Len(q.todo) = m
  BY DEF Awaits
<1>3. \A i \in 1..m : q.todo[i] = ts[j + i - 1]
  BY DEF Awaits
<1>4. m \in Nat \ {0}
  BY <1>1
<1>5. q.todo # <<>>
  <2> HIDE DEF m
  <2> QED BY <1>2, <1>4, EmptySeq
<1>6. /\ r.todo \in Seq(Targeter) /\ Len(r.todo) = m - 1
      /\ \A i \in 1..m - 1 : r.todo[i] = q.todo[i + 1]
  <2> HIDE DEF m
  <2> QED BY <1>2, <1>5, HeadTailProperties
<1>7. ASSUME NEW i \in 1..m - 1 PROVE r.todo[i] = ts[(j + 1) + i - 1]
  <2>1. i + 1 \in 1..m
    BY <1>4
  <2>2. j + (i + 1) - 1 = (j + 1) + i - 1
    BY <1>1, <1>4
  <2> HIDE DEF m
  <2> QED BY <1>3, <1>6, <2>1, <2>2
<1>8. n - (j + 1) + 1 = m - 1 /\ j + 1 \in Nat \ {0} /\ j + 1 <= n + 1
  BY <1>1
<1> HIDE DEF m
<1> QED BY <1>1, <1>6, <1>7, <1>8 DEF Awaits

\* The question that is asked is the first of those to come.
LEMMA FirstAsked ==
    ASSUME NEW p, NEW j, NEW n, Awaits(p, j, n), j <= n
    PROVE  p.todo # <<>> /\ Head(p.todo) = ActionOf[p.now].targeters[j]
<1>1. j \in Nat \ {0} /\ n \in Nat /\ p.todo \in Seq(Targeter) /\ Len(p.todo) = n - j + 1
  BY DEF Awaits
<1>2. 1 \in 1..n - j + 1 /\ j + 1 - 1 = j /\ n - j + 1 # 0
  BY <1>1
<1>3. p.todo[1] = ActionOf[p.now].targeters[j]
  BY <1>2 DEF Awaits
<1> QED BY <1>1, <1>2, <1>3, EmptySeq, HeadTailProperties

\* Where a question is asked.
LEMMA AskedAt ==
    ASSUME NEW p, PlanInv(p), p.ask = "target", NEW n, n = Len(ActionOf[p.now].targeters)
    PROVE  /\ p.now \in p.done /\ Sound(p)
           /\ \E j \in DOMAIN ActionOf[p.now].targeters :
                 /\ Asks(p, j, n) /\ j \in Nat /\ j <= n
                 /\ p.todo # <<>> /\ Head(p.todo) = ActionOf[p.now].targeters[j]
<1>1. p.now \in p.done /\ Sound(p)
  BY DEF PlanInv
<1>2. PICK j \in DOMAIN ActionOf[p.now].targeters : Asks(p, j, n)
  BY DEF PlanInv
<1>3. DOMAIN ActionOf[p.now].targeters = 1..n /\ n \in Nat
  BY <1>1, ActionOfPlan, LenProperties
<1>4. j \in Nat /\ j <= n
  BY <1>2, <1>3
<1>5. p.todo # <<>> /\ Head(p.todo) = ActionOf[p.now].targeters[j]
  BY <1>2, <1>4, FirstAsked DEF Asks
<1> QED BY <1>1, <1>2, <1>4, <1>5

\* An action that may be picked starts with targeters that have acquired nothing.
LEMMA PickRuns ==
    ASSUME NEW p, PlanInv(p), p.ask = "action", NEW a \in Available(p), NEW q,
           q = [p EXCEPT !.now = a, !.done = p.done \cup {a}, !.todo = ActionOf[a].targeters]
    PROVE  Running(q, 1) /\ Awaits(q, 1, Len(ActionOf[q.now].targeters))
<1> DEFINE ts == ActionOf[a].targeters
<1>1. /\ Shape(q) /\ q.weapon = p.weapon /\ q.done = p.done \cup {a} /\ q.now = a
      /\ q.todo = ts
      /\ q.targets = p.targets /\ q.moved = p.moved /\ q.history = p.history
  <2>1. Shape(p)
    BY DEF PlanInv, Sound
  <2> DEFINE D == p.done \cup {a}
  <2>2. q = [p EXCEPT !.now = a, !.done = D, !.todo = ts]
    OBVIOUS
  <2> HIDE DEF ts, D
  <2>3. /\ Shape(q) /\ q.weapon = p.weapon /\ q.done = D /\ q.now = a /\ q.todo = ts
        /\ q.targets = p.targets /\ q.moved = p.moved /\ q.history = p.history
    BY ONLY <2>1, <2>2 DEF Shape
  <2> QED BY <2>3 DEF D
<1>2. /\ a \in Weapon[p.weapon] /\ a \notin p.done /\ ActionOf[a].without \cap p.done = {}
      /\ p.weapon \in DOMAIN Weapon /\ p.done \subseteq Weapon[p.weapon]
      /\ ActionOf[a].before \subseteq p.done /\ Sound(p)
  BY DEF Available, PlanInv, Sound
<1>3. a \in DOMAIN ActionOf
  BY <1>2, TargetingAssumption
<1>4. ts \in Seq(Targeter)
  BY <1>3, ActionAssumption
<1>5. Place(q) = Place(p)
  BY <1>1 DEF Place
<1>6. Acquired(q)
  BY <1>1, <1>2, <1>5 DEF Sound, Acquired
<1>7. Sound(q)
  BY <1>1, <1>2, <1>5, <1>6 DEF Sound, Moved, Told
<1>8. ASSUME NEW i \in DOMAIN ts PROVE ts[i].name \notin DOMAIN q.targets
  <2>1. ts[i] \in Targeters(a) /\ ts[i].name # "self"
    BY <1>3, ActionAssumption DEF Targeters, Range
  <2> SUFFICES ASSUME ts[i].name \in DOMAIN p.targets PROVE FALSE
    BY <1>1
  <2>2. PICK b \in p.done : \E t \in Targeters(b) : t.name = ts[i].name
    BY <1>2, <2>1 DEF Sound, Acquired
  <2>3. b \in Weapon[p.weapon] \ {a}
    BY <1>2
  <2>4. a \in ActionOf[b].without /\ b \in ActionOf[a].without
    BY <1>2, <2>1, <2>2, <2>3, WeaponAssumption
  <2> QED BY <1>2, <2>4
<1>9. Fresh(q, 1)
  BY <1>1, <1>8 DEF Fresh
<1>10. Linked(q)
  <2>1. ASSUME NEW e \in Range(ActionOf[a].effects), e.do = "move", e.target # "self"
        PROVE  e.target \notin DOMAIN q.targets \/ e.to \notin DOMAIN q.targets
    <3>1. Guided(p.weapon, a, e)
      BY <1>2, <2>1, WeaponAssumption
    <3>2. \E i \in DOMAIN ts : ts[i].name = e.to \/ ts[i].name = e.target
      BY <3>1 DEF Guided
    <3> QED BY <1>8, <3>2
  <2> QED BY <1>1, <2>1 DEF Linked
<1>11. Awaits(q, 1, Len(ts))
  <2>1. Len(ts) \in Nat
    BY <1>4, LenProperties
  <2>2. Len(ts) - 1 + 1 = Len(ts) /\ \A i \in 1..Len(ts) : 1 + i - 1 = i
    BY <2>1
  <2>3. 1 <= Len(ts) + 1 /\ Len(ts) <= Len(ts) /\ 1 \in Nat \ {0}
    BY <2>1
  <2> HIDE DEF ts
  <2> QED BY <1>1, <1>4, <2>1, <2>2, <2>3 DEF Awaits, ts
<1>12. Ruled(q)
  <2>1. q.done \ {q.now} = p.done
    BY <1>1, <1>2
  <2>2. Orderly(p) /\ Traced(p, p.done)
    BY DEF PlanInv
  <2>3. Traced(q, p.done)
    BY <1>1, <2>2 DEF Traced, MovedBy, HitBy, Complete
  <2>4. \A b, c \in q.done : b # c => ~Exclude(b, c)
    <3>1. \A b \in p.done : ~Exclude(a, b) /\ ~Exclude(b, a)
      BY <1>2 DEF Exclude
    <3> QED BY <1>1, <2>2, <3>1 DEF Orderly
  <2>5. Orderly(q)
    BY <1>1, <2>2, <2>4 DEF Orderly
  <2> QED BY <1>1, <1>2, <2>1, <2>3, <2>5 DEF Ruled
<1>13. Given(q, 1)
  <2>1. DOMAIN ts = 1..Len(ts) /\ Len(ts) \in Nat
    BY <1>4, LenProperties
  <2>2. \A i \in DOMAIN ts : ~(i < 1)
    BY <2>1
  <2> QED BY <1>1, <2>2 DEF Given
<1> QED BY <1>1, <1>7, <1>9, <1>10, <1>11, <1>12, <1>13 DEF Running

LEMMA TakeIsSound ==
    ASSUME OnTheMap, NEW w \in DOMAIN Weapon, NEW q,
           q = [weapon |-> w, done |-> {}, now |-> Idle, ask |-> "action", todo |-> <<>>,
                targets |-> [n \in {"self"} |-> Target("pawn", Shooter)],
                moved |-> <<>>, history |-> <<>>]
    PROVE  PlanInv(q)
<1>1. DOMAIN q.moved = {} /\ q.history = <<>> /\ Len(q.history) = 0 /\ q.history \in Seq(Entry)
  OBVIOUS
<1>2. Place(q) = at
  <2>1. at = [c \in Pawn |-> at[c]]
    BY DEF OnTheMap
  <2> QED BY <1>1, <2>1 DEF Place, Over
<1>3. Told(q)
  <2> DEFINE st == [i \in 0..0 |-> at]
  <2>1. Course(q.history, st) /\ st[Len(q.history)] = Place(q)
    BY <1>1, <1>2 DEF Course
  <2> QED BY <1>1, <2>1 DEF Told
<1>4. Moved(q)
  BY <1>1 DEF Moved
<1>5. Acquired(q)
  BY DEF Acquired
<1>6. Shape(q) /\ q.weapon = w /\ q.done = {} /\ q.ask = "action"
  BY DEF Shape
<1>7. Orderly(q)
  BY <1>1 DEF Orderly
<1>8. Traced(q, q.done)
  BY <1>1, <1>6 DEF Traced, MovedBy, HitBy, Complete
<1>9. FlamesFit(q) /\ LaserFits(q)
  <2>1. Hit(q) = {}
    BY <1>1 DEF Hit
  <2>2. "UP" \in Direction
    BY DEF Direction, Diff
  <2> QED BY <2>1, <2>2 DEF FlamesFit, LaserFits
<1> QED BY <1>3, <1>4, <1>5, <1>6, <1>7, <1>8, <1>9 DEF Sound, PlanInv

\* What is merged on the map is what the Sandbox has shown.
LEMMA MergeFits ==
    ASSUME NEW p, Sound(p)
    PROVE  FoldLeft(Move, at, p.history) = Place(p)
<1>1. p.history \in Seq(Entry)
  BY DEF Sound, Told
<1>2. PICK st : Course(p.history, st) /\ st[Len(p.history)] = Place(p)
  BY DEF Sound, Told
<1>3. PICK tt : Chain("history", at, p.history, tt)
                /\ FoldOf("history", at, p.history) = tt[Len(p.history)]
  BY <1>1, FoldHasChain
<1>4. Chain("history", at, p.history, st)
  BY <1>2 DEF Course, Chain, StepOf
<1>5. st[Len(p.history)] = tt[Len(p.history)]
  BY <1>1, <1>3, <1>4, ChainsAgree
<1> QED BY <1>2, <1>3, <1>5, FoldLeftIs

LEMMA InitInv == Init => Inv
<1> SUFFICES ASSUME Init PROVE Inv
  OBVIOUS
<1>1. PICK place \in [Player -> Tile \cup {Nowhere}] :
         place[Shooter] # Nowhere /\ at = Over(Spot, place)
  BY DEF Init
<1>2. at = [c \in Pawn |-> IF c \in Point THEN Spot[c] ELSE place[c]]
  <2>1. DOMAIN Spot = Point /\ DOMAIN place = Player /\ Pawn = Point \cup Player
    BY TargetingAssumption DEF Pawn
  <2> QED BY <1>1, <2>1 DEF Over
<1>3. OnTheMap
  BY <1>1, <1>2, TargetingAssumption DEF OnTheMap, Pawn
<1> QED BY <1>3 DEF Init, Inv

\* What holds of the next plan as the pawns stand, holds then, if they have not moved.
LEMMA PlanLater ==
    ASSUME NEW q, PlanInv(q), UNCHANGED at, plan' = q
    PROVE  PlanInv(plan)'
<1>1. Place(plan)' = Place(q)
  BY DEF Place
<1>2. Moved(plan)' /\ Told(plan)'
  BY <1>1 DEF PlanInv, Sound, Moved, Told, Course
<1>3. Acquired(plan)'
  BY <1>1 DEF PlanInv, Sound, Acquired
<1>4. Sound(plan)'
  BY <1>2, <1>3 DEF PlanInv, Sound, Shape
<1>5. Orderly(plan)' <=> Orderly(q)
  BY DEF Orderly
<1>6. \A D : Traced(plan, D)' <=> Traced(q, D)
  BY DEF Traced, MovedBy, HitBy, Complete
<1>7. Ruled(q) => Ruled(plan)'
  BY <1>5, <1>6 DEF Ruled
<1>8. \A g, t : GiveChoices(g, t)' = GiveChoices(g, t)
  BY DEF GiveChoices, Place
<1>9. \A k : Given(q, k) => Given(plan, k)'
  <2>1. \A i : AsBefore(plan, i)' = AsBefore(q, i)
    BY DEF AsBefore, NamesFrom
  <2> QED BY <1>8, <2>1 DEF Given
<1>10. \A k : Running(q, k) => Running(plan, k)'
  BY <1>4, <1>7, <1>9 DEF Running, Fresh, Linked
<1>11. \A j, n : Asks(q, j, n) => Asks(plan, j, n)'
  BY <1>10 DEF Asks, Awaits
<1>12. FlamesFit(plan)' /\ LaserFits(plan)'
  <2>1. Hit(plan)' = Hit(q)
    BY DEF Hit
  <2> QED BY <2>1 DEF PlanInv, FlamesFit, LaserFits
<1>13. NoTileLeft(q) => NoTileLeft(plan)'
  BY DEF NoTileLeft
<1> QED BY <1>4, <1>5, <1>6, <1>11, <1>12, <1>13 DEF PlanInv

LEMMA NextInv == Inv /\ [Next]_vars => Inv'
<1> SUFFICES ASSUME Inv, [Next]_vars PROVE Inv'
  OBVIOUS
<1>0. OnTheMap
  BY DEF Inv
<1>1. ASSUME UNCHANGED at, plan' # Idle => \E q : q = plan' /\ PlanInv(q) PROVE Inv'
  <2>1. OnTheMap'
    BY <1>0, <1>1 DEF OnTheMap
  <2>2. CASE plan' = Idle
    BY <2>1, <2>2 DEF Inv
  <2>3. CASE plan' # Idle
    <3>1. PICK q : q = plan' /\ PlanInv(q)
      BY <1>1, <2>3
    <3>2. PlanInv(plan)'
      BY <1>1, <3>1, PlanLater
    <3> QED BY <2>1, <3>2 DEF Inv
  <2> QED BY <2>2, <2>3
<1>2. ASSUME NEW w \in DOMAIN Weapon, TakeWeapon(w) PROVE Inv'
  <2>1. PICK q : /\ q = plan'
                 /\ q = [weapon |-> w, done |-> {}, now |-> Idle, ask |-> "action", todo |-> <<>>,
                         targets |-> [n \in {"self"} |-> Target("pawn", Shooter)],
                         moved |-> <<>>, history |-> <<>>]
    BY <1>2 DEF TakeWeapon
  <2>2. PlanInv(q)
    BY <1>0, <2>1, TakeIsSound
  <2> QED BY <1>1, <1>2, <2>1, <2>2 DEF TakeWeapon
<1>3. ASSUME NEW a \in DOMAIN ActionOf, PickAction(a) PROVE Inv'
  <2>1. PlanInv(plan) /\ plan.ask = "action" /\ a \in Available(plan)
    BY <1>3 DEF PickAction, Inv
  <2> DEFINE p == [plan EXCEPT !.now = a, !.done = plan.done \cup {a},
                               !.todo = ActionOf[a].targeters]
  <2>2. plan' \in Iterate(p)
    BY <1>3 DEF PickAction
  <2>3. PICK o : o = plan
    OBVIOUS
  <2>4. PICK q : q = plan'
    OBVIOUS
  <2>5. Running(p, 1) /\ Awaits(p, 1, Len(ActionOf[p.now].targeters))
    <3>1. p = [o EXCEPT !.now = a, !.done = o.done \cup {a}, !.todo = ActionOf[a].targeters]
      BY <2>3
    <3>2. PlanInv(o) /\ o.ask = "action" /\ a \in Available(o)
      BY <2>1, <2>3
    <3> HIDE DEF p
    <3> QED BY <3>1, <3>2, PickRuns
  <2>6. PlanInv(q)
    <3> HIDE DEF p
    <3>1. PICK r : r = p
      OBVIOUS
    <3>2. Running(r, 1) /\ Awaits(r, 1, Len(ActionOf[r.now].targeters)) /\ q \in Iterate(r)
      BY <2>2, <2>4, <2>5, <3>1
    <3> QED BY <1>0, <3>2, IterateHolds
  <2> QED BY <1>1, <1>3, <2>4, <2>6 DEF PickAction
<1>4. ASSUME PickTarget PROVE Inv'
  <2> DEFINE t == Head(plan.todo)
  <2>1. plan # Idle /\ plan.ask = "target" /\ PlanInv(plan)
    BY <1>4 DEF PickTarget, Inv
  <2>2. PICK x \in GiveChoices(plan, t) :
           plan' \in Iterate([plan EXCEPT !.targets = Over([n \in {t.name} |-> x], @),
                                          !.todo = Tail(@)])
    BY <1>4 DEF PickTarget
  <2>3. PICK o : o = plan
    OBVIOUS
  <2>4. PICK q : q = plan'
    OBVIOUS
  <2>5. PICK n : n = Len(ActionOf[o.now].targeters)
    OBVIOUS
  <2>6. PICK j \in DOMAIN ActionOf[o.now].targeters :
           /\ Asks(o, j, n) /\ j \in Nat /\ j <= n
           /\ Head(o.todo) = ActionOf[o.now].targeters[j]
    BY <2>1, <2>3, <2>5, AskedAt
  <2>7. Sound(o) /\ Shape(o) /\ o.now \in o.done
    BY <2>1, <2>3 DEF PlanInv, Sound
  <2> DEFINE u == ActionOf[o.now].targeters[j]
             T == Over([m \in {u.name} |-> x], o.targets)
  <2>8. PICK r : r = [o EXCEPT !.targets = T]
    OBVIOUS
  <2>9. PICK p : p = [o EXCEPT !.targets = T, !.todo = Tail(o.todo)]
    OBVIOUS
  <2>10. q \in Iterate(p) /\ x \in GiveChoices(o, u)
    <3>1. Head(plan.todo) = u /\ o = plan
      BY <2>3, <2>6
    <3> QED BY <2>2, <2>4, <2>9, <3>1
  <2>11. Acquires(o, j, x, r)
    BY <2>6, <2>7, <2>8, <2>10 DEF Asks, Acquires
  <2>12. Running(r, j + 1) /\ r.now = o.now
    BY <1>0, <2>6, <2>11, AcquireRuns DEF Asks
  <2>13. Alike(r, p) /\ p.todo = Tail(o.todo)
    <3> HIDE DEF T
    <3> QED BY ONLY <2>7, <2>8, <2>9 DEF Shape, Alike
  <2>14. Running(p, j + 1) /\ p.now = o.now
    BY <2>12, <2>13, AlikeRuns DEF Alike
  <2>15. Awaits(p, j + 1, n)
    BY <2>6, <2>13, <2>14, AwaitsRest DEF Asks
  <2>16. PlanInv(q)
    <3>1. Awaits(p, j + 1, Len(ActionOf[p.now].targeters))
      BY <2>5, <2>14, <2>15
    <3> QED BY <1>0, <2>10, <2>14, <3>1, IterateHolds
  <2> QED BY <1>1, <1>4, <2>4, <2>16 DEF PickTarget
<1>5. ASSUME SkipTarget PROVE Inv'
  <2>1. plan # Idle /\ plan.ask = "target" /\ PlanInv(plan)
    BY <1>5 DEF SkipTarget, Inv
  <2>2. PICK o : o = plan
    OBVIOUS
  <2>3. PICK q : q = plan'
    OBVIOUS
  <2>4. Sound(o) /\ Shape(o)
    BY <2>1, <2>2 DEF PlanInv, Sound
  <2>5. CASE ~Head(plan.todo).optional
    <3>1. q = [o EXCEPT !.ask = "rollback"]
      BY <1>5, <2>2, <2>3, <2>5 DEF SkipTarget
    <3>2. Alike(o, q) /\ q.ask = "rollback"
      BY ONLY <2>4, <3>1 DEF Shape, Alike
    <3>3. PlanInv(q)
      <4>1. Orderly(o) /\ FlamesFit(o) /\ LaserFits(o)
        BY <2>1, <2>2 DEF PlanInv
      <4>2. Sound(q) /\ Orderly(q) /\ FlamesFit(q) /\ LaserFits(q)
        BY <2>4, <3>2, <4>1, AlikeRuns
      <4> QED BY <3>2, <4>2 DEF PlanInv
    <3> QED BY <1>1, <1>5, <2>3, <3>3 DEF SkipTarget
  <2>6. CASE Head(plan.todo).optional
    <3>1. PICK p : p = [o EXCEPT !.todo = Tail(o.todo)]
      OBVIOUS
    <3>2. q \in Iterate(p)
      BY <1>5, <2>2, <2>3, <2>6, <3>1 DEF SkipTarget
    <3>3. PICK n : n = Len(ActionOf[o.now].targeters)
      OBVIOUS
    <3>4. PICK j \in DOMAIN ActionOf[o.now].targeters :
             /\ Asks(o, j, n) /\ j \in Nat /\ j <= n
             /\ Head(o.todo) = ActionOf[o.now].targeters[j]
      BY <2>1, <2>2, <3>3, AskedAt
    <3>5. Alike(o, p) /\ p.todo = Tail(o.todo)
      BY ONLY <2>4, <3>1 DEF Shape, Alike
    <3>6. Running(p, j) /\ p.now = o.now
      BY <3>4, <3>5, AlikeRuns DEF Asks, Alike
    <3>7. Running(p, j + 1)
      <4>1. PICK t : t = ActionOf[p.now].targeters[j]
        OBVIOUS
      <4>2. /\ j \in DOMAIN ActionOf[p.now].targeters
            /\ t.of \in DOMAIN p.targets /\ t.optional /\ ~t.automatic
        BY <2>2, <2>6, <3>4, <3>5, <4>1 DEF Asks, Alike
      <4> QED BY <3>6, <4>1, <4>2, GivenNone
    <3>8. Awaits(p, j + 1, n)
      BY <3>4, <3>5, <3>6, AwaitsRest DEF Asks
    <3>9. PlanInv(q)
      <4>1. Awaits(p, j + 1, Len(ActionOf[p.now].targeters))
        BY <3>3, <3>6, <3>8
      <4> QED BY <1>0, <3>2, <3>7, <4>1, IterateHolds
    <3> QED BY <1>1, <1>5, <2>3, <3>9 DEF SkipTarget
  <2> QED BY <2>5, <2>6
<1>6. ASSUME GoBack PROVE Inv'
  BY <1>1, <1>6 DEF GoBack
<1>7. ASSUME Confirm PROVE Inv'
  <2>1. plan' = Idle /\ at' = FoldLeft(Move, at, plan.history) /\ Sound(plan)
    BY <1>7 DEF Confirm, Inv, PlanInv
  <2>2. PICK o : o = plan
    OBVIOUS
  <2>3. at' = Place(o)
    BY <2>1, <2>2, MergeFits
  <2>4. /\ Place(o) \in [Pawn -> Tile \cup {Nowhere}]
        /\ \A c \in Point : Place(o)[c] = at[c]
        /\ Place(o)[Shooter] \in Tile
    BY <1>0, <2>1, <2>2, PlaceOf DEF Sound
  <2>5. OnTheMap'
    BY <1>0, <2>3, <2>4 DEF OnTheMap
  <2> QED BY <2>1, <2>5 DEF Inv
<1>8. ASSUME UNCHANGED vars PROVE Inv'
  <2>1. plan' # Idle => \E q : q = plan' /\ PlanInv(q)
    BY <1>8 DEF vars, Inv
  <2> QED BY <1>1, <1>8, <2>1 DEF vars
<1> QED BY <1>2, <1>3, <1>4, <1>5, <1>6, <1>7, <1>8 DEF Next

LEMMA Invariant == Spec => []Inv
BY InitInv, NextInv, PTL DEF Spec

-----------------------------------------------------------------------------
(* Theorems *)

\* Whatever weapon is used and however often its user goes back, nobody who is on the
\* map leaves it, in the Sandbox (Sandbox.tile) or when the effects are merged, no
\* control point moves from its spot, and the actions that were picked are of the
\* weapon that is in use.
THEOREM PawnsOnTheMap == Spec => []TypeOK
<1>1. Inv => TypeOK
  <2> SUFFICES ASSUME Inv PROVE TypeOK
    OBVIOUS
  <2>1. OnTheMap /\ at[Shooter] # Nowhere
    BY TargetingAssumption DEF Inv, OnTheMap
  <2>2. ASSUME plan # Idle
        PROVE  /\ plan.ask \in {"action", "target", "rollback", "exception"}
               /\ plan.ask = "target" => plan.todo # <<>>
               /\ plan.done \subseteq Weapon[plan.weapon]
               /\ Place(plan) \in [Pawn -> Tile \cup {Nowhere}]
    <3>1. PICK o : o = plan
      OBVIOUS
    <3>2. PlanInv(o) /\ Sound(o)
      BY <2>2, <3>1 DEF Inv, PlanInv
    <3>3. o.ask = "target" => o.todo # <<>>
      BY <3>2, AskedAt
    <3>4. Place(o) \in [Pawn -> Tile \cup {Nowhere}]
      BY <2>1, <3>2, PlaceOf DEF Sound
    <3> QED BY <3>1, <3>2, <3>3, <3>4 DEF PlanInv, Sound
  <2> QED BY <2>1, <2>2 DEF OnTheMap, TypeOK
<1> QED BY <1>1, Invariant, PTL

\* Whatever targets are picked, one after the other and by one action after the other,
\* and whatever effects have moved the pawns in between (Action.iterate, MoveTemplate,
\* DamageTemplate): nobody is taken more than two steps from where he stood, the flames
\* burn one straight line, the laser strays from its row only where the row ends, and a
\* targeter lacks what it starts from only where the flames have no second tile.  This
\* holds of all weapons that ShotAssumption describes, on all maps that RowsApart does.
THEOREM ShotsFollowRules == Spec => []ShotsAsRuled
<1>1. Inv => ShotsAsRuled
  <2> SUFFICES ASSUME Inv, plan # Idle
               PROVE  WithinTwoSteps /\ FlamesInLine /\ LaserInLine /\ FailsOnlyShort
    BY DEF ShotsAsRuled
  <2>1. PICK o : o = plan
    OBVIOUS
  <2>2. PlanInv(o) /\ OnTheMap
    BY <2>1 DEF Inv
  <2>3. WithinTwoSteps
    <3>1. ASSUME NEW c \in Pawn, Place(o)[c] # at[c]
          PROVE  at[c] # Nowhere /\ Walk(at[c], Place(o)[c], 2)
      <4>1. DOMAIN at = Pawn
        BY <2>2 DEF OnTheMap
      <4>2. c \in DOMAIN o.moved /\ Place(o)[c] = o.moved[c]
        BY <3>1, <4>1 DEF Place, Over
      <4>3. at[c] \in Tile /\ Walk(at[c], o.moved[c], 2)
        BY <2>2, <4>2 DEF PlanInv, Orderly
      <4> QED BY <4>2, <4>3, TargetingAssumption
    <3> QED BY <2>1, <3>1 DEF WithinTwoSteps
  <2>4. Struck = Hit(o)
    BY <2>1 DEF Struck, Hit
  <2>5. FlamesInLine /\ LaserInLine
    <3>1. FlamesFit(o) /\ LaserFits(o)
      BY <2>2 DEF PlanInv
    <3> QED BY <2>1, <2>4, <3>1 DEF FlamesFit, LaserFits, FlamesInLine, LaserInLine
  <2>6. FailsOnlyShort
    BY <2>1, <2>2 DEF PlanInv, NoTileLeft, FailsOnlyShort
  <2> QED BY <2>3, <2>5, <2>6
<1> QED BY <1>1, Invariant, PTL

\* On every map whose rooms are connected, the Sandbox's tilesSeen is GameMap's
\* getVisible for whoever stands on a tile, but for the room of one tile.
THEOREM SightsAgree == Spec => []SightAgrees
<1>1. Inv => SightAgrees
  <2> SUFFICES ASSUME Inv, NEW p \in Player \ {Shooter}, at[p] # Nowhere
               PROVE  at[p] \in Seen(at, Target("pawn", Shooter))
                        <=> /\ at[p] \in Visible(at[Shooter])
                            /\ ~(at[p] = at[Shooter] /\ InRoom(Room[at[p]]) = {at[p]})
    BY DEF SightAgrees
  <2>1. at[p] \in Tile /\ at[Shooter] \in Tile
    BY DEF Inv, OnTheMap, Pawn
  <2>2. Seen(at, Target("pawn", Shooter)) = TilesSeen(at[Shooter])
    BY TargetingAssumption DEF Seen, IsPoint, LocationOf, Target
  <2> QED BY <2>1, <2>2, SeenFromTile
<1> QED BY <1>1, Invariant, PTL

\* Merging the effects one by one on the map (MoveEffect.mergeInGameMap, where
\* Pawn.move does nothing to a control point) leads to where the Sandbox has shown
\* everybody to stand, though it has shown control points moved.
THEOREM MergedAsForeseen == Spec => AsForeseen
<1>1. Inv /\ [Next]_vars => [Confirm => at' = Place(plan)]_vars
  <2> SUFFICES ASSUME Inv, Confirm PROVE at' = Place(plan)
    OBVIOUS
  <2>1. PICK o : o = plan
    OBVIOUS
  <2>2. Sound(o) /\ at' = FoldLeft(Move, at, o.history)
    BY <2>1 DEF Confirm, Inv, PlanInv
  <2> QED BY <2>1, <2>2, MergeFits
<1> QED BY <1>1, Invariant, PTL DEF Spec, AsForeseen
=============================================================================
