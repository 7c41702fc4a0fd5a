------------------------ MODULE AssetDepdenceProofs ------------------------
(***************************************************************************)
(* Whatever the assets, however they refer to each other and in whatever     *)
(* order: the tables agree, adding files leaves the transitive reduction of  *)
(* what refers to what, merging keeps it among the bundles left and packs     *)
(* nothing twice, and every id the loader is told of is that of a bundle.     *)
(***************************************************************************)
EXTENDS AssetDepdenceTable, SequenceLemmas

\* What an asset leads to, and what is left of it when the rest is moved down.
Under(a) == Below(refers, a)
Reduced(a) == {d \in Under(a) : \A p \in Under(a) : d \notin Under(p)}

LineCall == [asset : Assets, moving : SUBSET Assets, list : Seq(Assets), next : Nat]
MergeCall == [asset : Assets, next : Nat]
StateCall == [asset : Assets, list : Seq(Assets), needed : Nat, next : Nat]

Typed ==
  /\ refers \in Graphs /\ files \in SUBSET Assets /\ entries \in SUBSET Assets
  /\ dicDep \in [Assets -> Seq(Assets)] /\ dicDepBy \in [Assets -> [Assets -> Nat]]
  /\ listAsset \in Seq(Assets) /\ todo \in Seq(Assets)
  /\ stage \in {"adding", "merging", "parsing", "parsed"}
  /\ stage = "adding" => calls \in Seq(LineCall)
  /\ stage = "merging" => calls \in Seq(MergeCall)
  /\ stage = "parsing" => calls \in Seq(StateCall)
  /\ Id \in Nat
  /\ dicBundleId \in [DOMAIN dicBundleId -> Nat] /\ DOMAIN dicBundleId \subseteq Assets
  /\ dicBuildState \in [DOMAIN dicBuildState -> SUBSET Nat]
  /\ DOMAIN dicBuildState \subseteq Assets

\* Only what lies below is listed, and nothing where there is no list.
DownOnly == \A a \in Assets : Dep[a] \subseteq Under(a)
NoEntryNoList == \A a \in Assets \ entries : dicDep[a] = <<>>

\* A call is for an asset that the assets of the calls around it lead to.
Descends ==
  \A i, j \in 1..Len(calls) : i < j => calls[j].asset \in Under(calls[i].asset)
CallsHaveLists == \A i \in 1..Len(calls) : calls[i].asset \in entries /\ calls[i].next > 0

-----------------------------------------------------------------------------
\* The two tables count the same, and what has to move is listed once.
CountsAgree == \A a, x \in Assets : dicDepBy[x][a] = Times(dicDep[a], x)
ListedOnce == \A a, x \in Assets : x \notin Reduced(a) => Times(dicDep[a], x) <= 1

\* The list of a call names what its asset leads to ..
LineList(c) ==
  /\ c.moving \subseteq Under(c.asset)
  /\ Under(c.asset) \ c.moving \subseteq ToSet(c.list)
  /\ ToSet(c.list) \subseteq Under(c.asset)
  /\ c.next <= Len(c.list) + 1
  /\ \A j \in 1..Len(c.list) : j < c.next => c.list[j] \in entries
LineLists == \A i \in 1..Len(calls) : LineList(calls[i])

\* .. only the innermost call moves dependencies to its asset,
Moving ==
  \A i \in 1..Len(calls) : calls[i].moving # {} =>
    i = Len(calls) /\ i > 1 /\ calls[i].next = 1 /\ calls[i].list = dicDep[calls[i].asset]

\* .. the others are at the asset of the next call,
Linked ==
  \A i \in 1..Len(calls) : i < Len(calls) =>
    /\ calls[i].next > 1
    /\ calls[i + 1].asset = calls[i].list[calls[i].next - 1]

\* .. and what the assets of the list so far lead to has been moved.
HasMoved(i, j, x) ==
  /\ x \in Under(calls[i].list[j])
  /\ i + 1 = Len(calls) /\ j = calls[i].next - 1 => x \notin calls[i + 1].moving
MovedSoFar ==
  \A i \in 1..Len(calls) : calls[i].moving = {} =>
    /\ Reduced(calls[i].asset) \subseteq Dep[calls[i].asset]
    /\ \A j \in 1..Len(calls[i].list) : j < calls[i].next =>
         \A x \in Dep[calls[i].asset] : ~HasMoved(i, j, x)

\* An asset without a call has the dependencies it is left with.
AtRest ==
  \A a \in entries : (\A i \in 1..Len(calls) : calls[i].asset # a) =>
    Dep[a] = Reduced(a) /\ Under(a) \subseteq entries

\* Lists are those of the files added, and of the one being added.
Listed ==
  /\ ToSet(listAsset) \subseteq files /\ ToSet(listAsset) \subseteq entries
  /\ \A a \in entries : a \in Added \/ (calls # <<>> /\ a \in {calls[1].asset} \cup Under(calls[1].asset))
  /\ calls # <<>> => calls[1].asset \in files

NoBundles == dicBundleId = <<>> /\ Id = 0 /\ dicBuildState = <<>>

AddingInv ==
  /\ DownOnly /\ NoEntryNoList /\ Descends /\ CallsHaveLists
  /\ CountsAgree /\ ListedOnce
  /\ LineLists /\ Moving /\ Linked /\ MovedSoFar /\ AtRest /\ Listed /\ NoBundles

-----------------------------------------------------------------------------
FilesStay == files \subseteq entries /\ entries \subseteq Added /\ ToSet(listAsset) = files

\* The dependents of an asset with a list are known.
DependentsKnown ==
  \A x \in entries : \A a \in Assets :
    /\ dicDepBy[x][a] > 0 <=> x \in Dep[a]
    /\ dicDepBy[x][a] <= Times(dicDep[a], x)

\* An asset merged away is still listed only in its owner's list, where a call
\* comes to it.
LeftOvers ==
  \A a \in Assets : \A k \in 1..Len(dicDep[a]) : dicDep[a][k] \notin entries =>
    /\ dicDepBy[dicDep[a][k]] = Only(a)
    /\ \E i \in 1..Len(calls) : calls[i].asset = a /\ calls[i].next <= k

\* Those left lead to each other as before, and to each of the others one leads last.
Kept == \A a \in entries : Under(a) \cap entries \subseteq Below(Dep, a)
Owned(x) ==
  \E owner \in entries :
    /\ x \in Under(owner)
    /\ \A a \in entries : x \in Under(a) => a = owner \/ owner \in Under(a)
PackedApart == \A x \in Added \ entries : Owned(x)

MergingInv ==
  /\ DownOnly /\ NoEntryNoList /\ Descends /\ CallsHaveLists
  /\ FilesStay /\ DependentsKnown /\ LeftOvers /\ Kept /\ PackedApart
  /\ ToSet(todo) \subseteq files /\ NoBundles

-----------------------------------------------------------------------------
OnlyEntries == \A a \in Assets : Dep[a] \subseteq entries

\* Ids are different, and an asset that has one is listed or will be.
IdsDiffer ==
  /\ \A a \in DOMAIN dicBundleId : dicBundleId[a] < Id
  /\ \A a, b \in DOMAIN dicBundleId : dicBundleId[a] = dicBundleId[b] => a = b
AheadIn(x, list, stack) ==
  \/ x \in ToSet(list)
  \/ \E i \in 1..Len(stack) : \E k \in 1..Len(stack[i].list) :
       stack[i].next <= k /\ stack[i].list[k] = x
AllAhead == \A x \in DOMAIN dicBundleId : x \in DOMAIN dicBuildState \/ AheadIn(x, todo, calls)

\* A bundle needs the ids of its dependencies, as far as its call has come.
StateCalls ==
  \A i \in 1..Len(calls) :
    /\ calls[i].asset \in DOMAIN dicBuildState /\ calls[i].list = dicDep[calls[i].asset]
    /\ calls[i].next > 0 /\ calls[i].needed <= Len(calls[i].list)
    /\ calls[i].needed < Len(calls[i].list) => i = Len(calls) /\ calls[i].next = 1
Needing(a) == calls # <<>> /\ Top.asset = a /\ Top.needed < Len(Top.list)
NeedsAre(a, D) == D \subseteq DOMAIN dicBundleId /\ dicBuildState[a] = {dicBundleId[d] : d \in D}
NeedsSoFar ==
  \A a \in DOMAIN dicBuildState :
    /\ a \in DOMAIN dicBundleId
    /\ Needing(a) => NeedsAre(a, {Top.list[k] : k \in 1..Top.needed})
    /\ ~Needing(a) => NeedsAre(a, Dep[a])

ParsingInv ==
  /\ DownOnly /\ FilesStay /\ OnlyEntries /\ Kept /\ PackedApart
  /\ ToSet(todo) \subseteq entries
  /\ IdsDiffer /\ AllAhead /\ StateCalls /\ NeedsSoFar
  /\ stage = "parsed" => calls = <<>> /\ todo = <<>>

Inv ==
  /\ Typed
  /\ stage = "adding" => AddingInv
  /\ stage = "merging" => MergingInv
  /\ stage \in {"parsing", "parsed"} => ParsingInv

-----------------------------------------------------------------------------
\* Assets, and those each leads to.
IsGraph(g) == g \in [Assets -> SUBSET Assets]
HasNoCycle(g) == \A a \in Assets : a \notin Below(g, a)

(* What can be reached has what is referred to, what that leads to, and        *)
(* nothing else.                                                              *)
LEMMA BelowEffect ==
  ASSUME NEW g, IsGraph(g), NEW a \in Assets
  PROVE  /\ Below(g, a) \subseteq Assets
         /\ g[a] \subseteq Below(g, a)
         /\ \A y \in Below(g, a) : g[y] \subseteq Below(g, a)
         /\ \A S \in SUBSET Assets :
              g[a] \subseteq S /\ (\A y \in S : g[y] \subseteq S) => Below(g, a) \subseteq S
<1>1. g[a] \subseteq Assets /\ \A y \in Assets : g[y] \subseteq Assets
  BY DEF IsGraph
<1>2. \A x : x \in Below(g, a) <=>
        /\ x \in Assets
        /\ \A S \in SUBSET Assets : g[a] \subseteq S /\ (\A y \in S : g[y] \subseteq S) => x \in S
  BY DEF Below
<1>3. \A y \in Below(g, a) : g[y] \subseteq Below(g, a)
  <2>1. ASSUME NEW y \in Below(g, a), NEW x \in g[y] PROVE x \in Below(g, a)
    BY <1>1, <1>2
  <2> QED
    BY <2>1
<1> QED
  BY <1>1, <1>2, <1>3

LEMMA BelowTransitive ==
  ASSUME NEW g, IsGraph(g), NEW a \in Assets, NEW b \in Below(g, a)
  PROVE  b \in Assets /\ Below(g, b) \subseteq Below(g, a)
<1>1. /\ b \in Assets /\ g[b] \subseteq Below(g, a) /\ Below(g, a) \in SUBSET Assets
      /\ \A y \in Below(g, a) : g[y] \subseteq Below(g, a)
  BY BelowEffect
<1> QED
  BY <1>1, BelowEffect

(* What can be reached is referred to first or last.                           *)
LEMMA FirstStep ==
  ASSUME NEW g, IsGraph(g), NEW a \in Assets, NEW x \in Below(g, a)
  PROVE  x \in g[a] \/ \E p \in g[a] : x \in Below(g, p)
<1> DEFINE S == g[a] \cup {z \in Assets : \E p \in g[a] : z \in Below(g, p)}
<1>1. g[a] \subseteq Assets /\ \A y \in Assets : g[y] \subseteq Assets
  BY DEF IsGraph
<1>2. ASSUME NEW y \in S PROVE g[y] \subseteq S
  <2>1. CASE y \in g[a]
    <3>1. g[y] \subseteq Below(g, y) /\ g[y] \subseteq Assets
      BY <1>1, <2>1, BelowEffect
    <3> QED
      BY <2>1, <3>1
  <2>2. CASE \E p \in g[a] : y \in Below(g, p)
    <3>1. PICK p \in g[a] : y \in Below(g, p)
      BY <2>2
    <3>2. g[y] \subseteq Below(g, p) /\ Below(g, p) \subseteq Assets
      BY <1>1, <3>1, BelowEffect
    <3> QED
      BY <3>1, <3>2
  <2> QED
    BY <2>1, <2>2
<1>3. S \in SUBSET Assets /\ g[a] \subseteq S
  BY <1>1
<1>4. Below(g, a) \subseteq S
  <2> HIDE DEF S
  <2> QED
    BY <1>2, <1>3, BelowEffect
<1> QED
  BY <1>4

LEMMA LastStep ==
  ASSUME NEW g, IsGraph(g), NEW a \in Assets, NEW x \in Below(g, a)
  PROVE  x \in g[a] \/ \E p \in Below(g, a) : x \in g[p]
<1> DEFINE S == g[a] \cup {z \in Assets : \E p \in Below(g, a) : z \in g[p]}
<1>1. g[a] \subseteq Assets /\ \A y \in Assets : g[y] \subseteq Assets
  BY DEF IsGraph
<1>2. /\ Below(g, a) \subseteq Assets /\ g[a] \subseteq Below(g, a)
      /\ \A y \in Below(g, a) : g[y] \subseteq Below(g, a)
  BY BelowEffect
<1>3. \A y \in S : g[y] \subseteq S
  BY <1>1, <1>2
<1>4. S \in SUBSET Assets /\ g[a] \subseteq S
  BY <1>1
<1>5. Below(g, a) \subseteq S
  <2> HIDE DEF S
  <2> QED
    BY <1>3, <1>4, BelowEffect
<1> QED
  BY <1>5

(* Without a cycle, some of the assets of a set lead to no other of them, and  *)
(* to some no other leads.                                                    *)
LEMMA LowestAsset ==
  ASSUME NEW g, IsGraph(g), HasNoCycle(g), NEW S \in SUBSET Assets, S # {}
  PROVE  \E x \in S : \A y \in S : y \notin Below(g, x)
<1> DEFINE size(x) == Cardinality(Below(g, x))
           sizes == {size(x) : x \in S}
<1>1. \A x \in Assets : IsFiniteSet(Below(g, x)) /\ size(x) \in Nat
  BY BelowEffect, AssetsAssumption, FS_Subset, FS_CardinalityType
<1>2. sizes \subseteq Nat /\ sizes # {}
  BY <1>1
<1>3. PICK m \in sizes : \A n \in sizes : m <= n
  <2> HIDE DEF sizes
  <2> QED
    BY <1>2, LeastNumber
<1>4. PICK x \in S : m = size(x)
  BY <1>3
<1>5. ASSUME NEW y \in S, y \in Below(g, x) PROVE FALSE
  <2>1. Below(g, y) \subseteq Below(g, x) /\ y \notin Below(g, y)
    BY <1>5, BelowTransitive DEF HasNoCycle
  <2>2. size(y) <= size(x) /\ (size(x) = size(y) => Below(g, x) = Below(g, y))
    BY <1>1, <2>1, FS_Subset
  <2>3. size(x) <= size(y)
    BY <1>3, <1>4
  <2> QED
    BY <1>1, <1>5, <2>1, <2>2, <2>3
<1> QED
  BY <1>5

LEMMA HighestAsset ==
  ASSUME NEW g, IsGraph(g), HasNoCycle(g), NEW S \in SUBSET Assets, S # {}
  PROVE  \E x \in S : \A y \in S : x \notin Below(g, y)
<1> DEFINE size(x) == Cardinality(Below(g, x))
           all == Cardinality(Assets)
           sizes == {all - size(x) : x \in S}
<1>1. \A x \in Assets : IsFiniteSet(Below(g, x)) /\ size(x) \in Nat /\ size(x) <= all
  BY BelowEffect, AssetsAssumption, FS_Subset, FS_CardinalityType
<1>2. all \in Nat
  BY AssetsAssumption, FS_CardinalityType
<1>3. sizes \subseteq Nat /\ sizes # {}
  <2> HIDE DEF size, all
  <2> QED
    BY <1>1, <1>2
<1>4. PICK m \in sizes : \A n \in sizes : m <= n
  <2> HIDE DEF sizes
  <2> QED
    BY <1>3, LeastNumber
<1>5. PICK x \in S : m = all - size(x)
  BY <1>4
<1>6. ASSUME NEW y \in S, x \in Below(g, y) PROVE FALSE
  <2>1. Below(g, x) \subseteq Below(g, y) /\ x \notin Below(g, x)
    BY <1>6, BelowTransitive DEF HasNoCycle
  <2>2. size(x) <= size(y) /\ (size(y) = size(x) => Below(g, y) = Below(g, x))
    BY <1>1, <2>1, FS_Subset
  <2>3. all - size(x) <= all - size(y)
    BY <1>4, <1>5
  <2>4. size(y) <= size(x)
    <3> HIDE DEF size, all
    <3> QED
      BY <1>1, <1>2, <2>3
  <2> QED
    BY <1>1, <1>6, <2>1, <2>2, <2>4
<1> QED
  BY <1>6

-----------------------------------------------------------------------------
\* Of what each asset leads to, what nothing else of it leads to.
ReducedIn(g, a) == {d \in Below(g, a) : \A p \in Below(g, a) : d \notin Below(g, p)}

(* .. is what it refers to and what nothing else it refers to leads to.        *)
LEMMA ReducedIs ==
  ASSUME NEW g, IsGraph(g), HasNoCycle(g), NEW a \in Assets
  PROVE  ReducedIn(g, a) = {d \in g[a] : \A x \in g[a] \ {d} : d \notin Below(g, x)}
<1> DEFINE R == {d \in g[a] : \A x \in g[a] \ {d} : d \notin Below(g, x)}
<1>1. Below(g, a) \subseteq Assets /\ g[a] \subseteq Below(g, a)
  BY BelowEffect
<1>2. ASSUME NEW d \in ReducedIn(g, a) PROVE d \in R
  <2>1. d \in Below(g, a) /\ \A p \in Below(g, a) : d \notin Below(g, p)
    BY DEF ReducedIn
  <2>2. d \in g[a]
    BY <1>1, <2>1, FirstStep
  <2> QED
    BY <1>1, <2>1, <2>2
<1>3. ASSUME NEW d \in R, NEW p \in Below(g, a), d \in Below(g, p) PROVE FALSE
  <2>1. PICK q \in g[a] : q = p \/ p \in Below(g, q)
    BY FirstStep
  <2>2. q \in Assets /\ d \in Below(g, q)
    BY <1>1, <1>3, <2>1, BelowTransitive
  <2>3. q # d
    BY <2>2 DEF HasNoCycle
  <2> QED
    BY <2>1, <2>2, <2>3
<1>4. \A d \in R : d \in ReducedIn(g, a)
  BY <1>1, <1>3 DEF ReducedIn
<1> QED
  BY <1>2, <1>4

(* Whatever else is reached is reached through it.                             *)
LEMMA ThroughReduced ==
  ASSUME NEW g, IsGraph(g), HasNoCycle(g), NEW a \in Assets, NEW x \in Below(g, a)
  PROVE  x \in ReducedIn(g, a) \/ \E p \in ReducedIn(g, a) : x \in Below(g, p)
<1> DEFINE S == {p \in Below(g, a) : x \in Below(g, p)}
<1>1. Below(g, a) \subseteq Assets
  BY BelowEffect
<1>2. CASE S = {}
  BY <1>2 DEF ReducedIn
<1>3. CASE S # {}
  <2>1. S \in SUBSET Assets
    BY <1>1
  <2>2. PICK p \in S : \A y \in S : p \notin Below(g, y)
    <3> HIDE DEF S
    <3> QED
      BY <1>3, <2>1, HighestAsset
  <2>3. ASSUME NEW q \in Below(g, a), p \in Below(g, q) PROVE FALSE
    <3>1. q \in Assets /\ x \in Below(g, q)
      BY <1>1, <2>2, <2>3, BelowTransitive
    <3> QED
      BY <2>2, <2>3, <3>1
  <2> QED
    BY <2>2, <2>3 DEF ReducedIn
<1> QED
  BY <1>2, <1>3

(* So the reduction leads to the same assets: a lowest asset of which it did    *)
(* not would be one more.                                                     *)
LEMMA ReductionReaches ==
  ASSUME NEW g, IsGraph(g), HasNoCycle(g), NEW h, IsGraph(h), NEW T \in SUBSET Assets,
         \A a \in T : h[a] = ReducedIn(g, a) /\ Below(g, a) \subseteq T
  PROVE  \A a \in T : Below(g, a) \subseteq Below(h, a)
<1> DEFINE S == {a \in T : ~(Below(g, a) \subseteq Below(h, a))}
<1>1. SUFFICES ASSUME S # {} PROVE FALSE
  OBVIOUS
<1>2. PICK a \in S : \A y \in S : y \notin Below(g, a)
  <2>1. S \in SUBSET Assets
    OBVIOUS
  <2> HIDE DEF S
  <2> QED
    BY <1>1, <2>1, LowestAsset
<1>3. a \in T /\ a \in Assets /\ h[a] \subseteq Below(h, a)
  BY BelowEffect
<1>4. ASSUME NEW x \in Below(g, a) PROVE x \in Below(h, a)
  <2>1. CASE x \in ReducedIn(g, a)
    BY <1>3, <2>1
  <2>2. CASE \E p \in ReducedIn(g, a) : x \in Below(g, p)
    <3>1. PICK p \in ReducedIn(g, a) : x \in Below(g, p)
      BY <2>2
    <3>2. p \in Below(g, a) /\ p \in T /\ p \notin S
      BY <1>2, <1>3, <3>1 DEF ReducedIn
    <3>3. x \in Below(h, p)
      BY <3>1, <3>2
    <3>4. p \in Below(h, a)
      BY <1>3, <3>1
    <3> QED
      BY <1>3, <3>3, <3>4, BelowTransitive
  <2> QED
    BY <1>3, <2>1, <2>2, ThroughReduced
<1> QED
  BY <1>4

(* A graph within another leads to no more.                                    *)
LEMMA WithinBelow ==
  ASSUME NEW g, IsGraph(g), NEW h, IsGraph(h), \A a \in Assets : h[a] \subseteq Below(g, a)
  PROVE  \A a \in Assets : Below(h, a) \subseteq Below(g, a)
<1>1. ASSUME NEW a \in Assets PROVE Below(h, a) \subseteq Below(g, a)
  <2>1. Below(g, a) \in SUBSET Assets
    BY BelowEffect
  <2>2. \A y \in Below(g, a) : h[y] \subseteq Below(g, a)
    BY <2>1, BelowTransitive
  <2> QED
    BY <2>1, <2>2, BelowEffect
<1> QED
  BY <1>1

(* An asset merged into the only one that leads to it directly is gone, and     *)
(* what led to it leads on to the rest.                                       *)
LEMMA MergingReaches ==
  ASSUME NEW g, IsGraph(g), NEW h, IsGraph(h),
         NEW a \in Assets, NEW d \in Assets, a # d, d \notin g[d],
         \A c \in Assets : c # a => d \notin g[c],
         \A c \in Assets : c # a /\ c # d => h[c] = g[c],
         g[a] \ {d} \subseteq h[a], g[d] \subseteq h[a],
         NEW c \in Assets, c # d
  PROVE  Below(g, c) \ {d} \subseteq Below(h, c)
<1> DEFINE S == Below(h, c)
           T == (S \ {d}) \cup (IF c = a \/ a \in S THEN {d} ELSE {})
<1>1. S \subseteq Assets /\ h[c] \subseteq S /\ \A y \in S : h[y] \subseteq S
  BY BelowEffect
<1>2. g[c] \subseteq T
  <2>1. CASE c = a
    BY <1>1, <2>1
  <2>2. CASE c # a
    BY <1>1, <2>2
  <2> QED
    BY <2>1, <2>2
<1>3. ASSUME NEW y \in T PROVE g[y] \subseteq T
  <2>1. CASE y = d
    <3>1. c = a \/ a \in S
      BY <2>1
    <3>2. h[a] \subseteq S
      BY <1>1, <3>1
    <3> QED
      BY <2>1, <3>2
  <2>2. CASE y = a
    <3>1. a \in S /\ h[a] \subseteq S
      BY <1>1, <2>2
    <3> QED
      BY <2>2, <3>1
  <2>3. CASE y # a /\ y # d
    <3>1. y \in S /\ y \in Assets /\ h[y] \subseteq S
      BY <1>1, <2>3
    <3> QED
      BY <2>3, <3>1
  <2> QED
    BY <2>1, <2>2, <2>3
<1>4. T \in SUBSET Assets
  BY <1>1
<1>5. Below(g, c) \subseteq T
  <2> HIDE DEF T
  <2> QED
    BY <1>2, <1>3, <1>4, BelowEffect
<1> QED
  BY <1>5

(* Nothing is lost with an asset that leads nowhere.                           *)
LEMMA DroppingReaches ==
  ASSUME NEW g, IsGraph(g), NEW h, IsGraph(h), NEW d \in Assets, g[d] = {},
         \A c \in Assets : g[c] \ {d} \subseteq h[c], NEW c \in Assets
  PROVE  Below(g, c) \ {d} \subseteq Below(h, c)
<1> DEFINE T == Below(h, c) \cup {d}
<1>1. /\ Below(h, c) \subseteq Assets /\ h[c] \subseteq Below(h, c)
      /\ \A y \in Below(h, c) : h[y] \subseteq Below(h, c)
  BY BelowEffect
<1>2. T \in SUBSET Assets /\ g[c] \subseteq T /\ \A y \in T : g[y] \subseteq T
  BY <1>1
<1>3. Below(g, c) \subseteq T
  <2> HIDE DEF T
  <2> QED
    BY <1>2, BelowEffect
<1> QED
  BY <1>3

-----------------------------------------------------------------------------
\* The places of an asset in a list.
Places(list, x) == {i \in 1..Len(list) : list[i] = x}

(* How often an asset is listed is a number, not zero for what is listed.      *)
LEMMA TimesEffect ==
  ASSUME NEW s \in Seq(Assets), NEW x
  PROVE  /\ IsFiniteSet(Places(s, x)) /\ Times(s, x) = Cardinality(Places(s, x))
         /\ Times(s, x) \in Nat
         /\ Times(s, x) > 0 <=> x \in ToSet(s)
         /\ Contains(s, x) <=> x \in ToSet(s)
         /\ x \in ToSet(s) <=> \E i \in 1..Len(s) : s[i] = x
<1>1. Len(s) \in Nat /\ DOMAIN s = 1..Len(s)
  BY LenProperties
<1>2. IsFiniteSet(1..Len(s)) /\ Places(s, x) \in SUBSET (1..Len(s))
  BY <1>1, SpanSize DEF Places
<1>3. IsFiniteSet(Places(s, x))
  BY <1>2, FS_Subset
<1>4. Times(s, x) = Cardinality(Places(s, x))
  BY DEF Times, Places
<1>5. Times(s, x) \in Nat
  BY <1>3, <1>4, FS_CardinalityType
<1>6. Places(s, x) = {} <=> Times(s, x) = 0
  BY <1>3, <1>4, FS_EmptySet
<1>7. x \in ToSet(s) <=> \E i \in 1..Len(s) : s[i] = x
  BY <1>1 DEF ToSet
<1>8. Contains(s, x) <=> \E i \in 1..Len(s) : s[i] = x
  BY DEF Contains
<1>9. Places(s, x) # {} <=> \E i \in 1..Len(s) : s[i] = x
  BY DEF Places
<1> QED
  BY <1>3, <1>4, <1>5, <1>6, <1>7, <1>8, <1>9

(* Two lists in a row list an asset as often as both.                          *)
LEMMA TimesConcat ==
  ASSUME NEW s \in Seq(Assets), NEW t \in Seq(Assets), NEW x
  PROVE  /\ s \o t \in Seq(Assets) /\ ToSet(s \o t) = ToSet(s) \cup ToSet(t)
         /\ Times(s \o t, x) = Times(s, x) + Times(t, x)
<1> DEFINE m == Len(s)
           n == Len(t)
           second == {i \in (m + 1)..(m + n) : (s \o t)[i] = x}
           f == [i \in Places(t, x) |-> m + i]
<1>1. /\ m \in Nat /\ n \in Nat /\ s \o t \in Seq(Assets) /\ Len(s \o t) = m + n
      /\ \A i \in 1..(m + n) : (s \o t)[i] = IF i <= m THEN s[i] ELSE t[i - m]
      /\ DOMAIN s = 1..m /\ DOMAIN t = 1..n /\ DOMAIN (s \o t) = 1..(m + n)
  BY ConcatProperties, LenProperties
<1> HIDE DEF m, n
<1>2. \A i \in 1..m : i \in 1..(m + n) /\ (s \o t)[i] = s[i]
  BY <1>1
<1>3. \A i \in 1..n : m + i \in 1..(m + n) /\ (s \o t)[m + i] = t[i]
  <2>1. ASSUME NEW i \in 1..n PROVE m + i \in 1..(m + n) /\ ~(m + i <= m) /\ (m + i) - m = i
    BY <1>1
  <2> QED
    BY <1>1, <2>1
<1>4. \A i \in 1..(m + n) : i \in 1..m \/ (i - m \in 1..n /\ i = m + (i - m))
  BY <1>1
<1>5. ToSet(s \o t) = ToSet(s) \cup ToSet(t)
  <2>1. ToSet(s) = {s[i] : i \in 1..m} /\ ToSet(t) = {t[i] : i \in 1..n}
        /\ ToSet(s \o t) = {(s \o t)[i] : i \in 1..(m + n)}
    BY <1>1 DEF ToSet
  <2>2. ASSUME NEW i \in 1..(m + n) PROVE (s \o t)[i] \in ToSet(s) \cup ToSet(t)
    <3>1. i \in 1..m \/ (i - m \in 1..n /\ (s \o t)[i] = t[i - m])
      BY <1>3, <1>4
    <3> QED
      BY <1>2, <2>1, <3>1
  <2>3. \A i \in 1..m : s[i] \in ToSet(s \o t)
    BY <1>2, <2>1
  <2>4. \A i \in 1..n : t[i] \in ToSet(s \o t)
    BY <1>3, <2>1
  <2> QED
    BY <2>1, <2>2, <2>3, <2>4
<1>6. Places(s, x) = {i \in 1..m : s[i] = x} /\ Places(t, x) = {i \in 1..n : t[i] = x}
  BY DEF Places, m, n
<1>7. Places(s \o t, x) = {i \in 1..(m + n) : (s \o t)[i] = x}
  BY <1>1 DEF Places
<1>8. Places(s \o t, x) = Places(s, x) \cup second /\ Places(s, x) \cap second = {}
  BY <1>1, <1>2, <1>6, <1>7
<1>9. IsFiniteSet(second) /\ Cardinality(second) = Cardinality(Places(t, x))
  <2>1. f \in [Places(t, x) -> second]
    BY <1>1, <1>3, <1>6
  <2>2. \A i, j \in Places(t, x) : f[i] = f[j] => i = j
    BY <1>1, <1>6
  <2>3. ASSUME NEW i \in second PROVE \E j \in Places(t, x) : f[j] = i
    <3>1. i - m \in 1..n /\ i = m + (i - m)
      BY <1>1
    <3>2. i - m \in Places(t, x)
      BY <1>3, <1>6, <3>1
    <3> QED
      BY <3>1, <3>2
  <2> HIDE DEF f, second
  <2>4. f \in Bijection(Places(t, x), second)
    <3>1. f \in Injection(Places(t, x), second)
      BY <2>1, <2>2 DEF Injection, IsInjective
    <3>2. f \in Surjection(Places(t, x), second)
      BY <2>1, <2>3 DEF Surjection
    <3> QED
      BY <3>1, <3>2 DEF Bijection
  <2> QED
    BY <2>4, TimesEffect, FS_Bijection DEF ExistsBijection
<1>10. Cardinality(Places(s, x) \cup second) = Cardinality(Places(s, x)) + Cardinality(second)
  BY <1>8, <1>9, TimesEffect, CountingApart
<1>11. /\ Times(s, x) = Cardinality(Places(s, x)) /\ Times(t, x) = Cardinality(Places(t, x))
       /\ Times(s \o t, x) = Cardinality(Places(s \o t, x))
  BY <1>1, TimesEffect
<1> QED
  BY ONLY <1>1, <1>5, <1>8, <1>9, <1>10, <1>11

LEMMA TimesOne ==
  ASSUME NEW e \in Assets, NEW x
  PROVE  /\ <<e>> \in Seq(Assets) /\ ToSet(<<e>>) = {e}
         /\ Times(<<e>>, x) = IF x = e THEN 1 ELSE 0
<1>1. <<e>> \in Seq(Assets) /\ Len(<<e>>) = 1 /\ <<e>>[1] = e /\ DOMAIN <<e>> = {1}
  OBVIOUS
<1>2. ToSet(<<e>>) = {e}
  BY <1>1 DEF ToSet
<1>3. Places(<<e>>, x) = IF x = e THEN {1} ELSE {}
  BY <1>1 DEF Places
<1>4. Cardinality({1}) = 1 /\ Cardinality({}) = 0
  BY FS_Singleton, FS_EmptySet
<1>5. Times(<<e>>, x) = Cardinality(Places(<<e>>, x))
  BY <1>1, TimesEffect
<1> QED
  BY <1>1, <1>2, <1>3, <1>4, <1>5

LEMMA TimesExtended ==
  ASSUME NEW s \in Seq(Assets), NEW e \in Assets, NEW x
  PROVE  /\ s \o <<e>> \in Seq(Assets) /\ Len(s \o <<e>>) = Len(s) + 1
         /\ \A i \in 1..Len(s) : (s \o <<e>>)[i] = s[i]
         /\ (s \o <<e>>)[Len(s) + 1] = e
         /\ ToSet(s \o <<e>>) = ToSet(s) \cup {e}
         /\ Times(s \o <<e>>, x) = Times(s, x) + (IF x = e THEN 1 ELSE 0)
<1> DEFINE one == <<e>>
<1>1. one \in Seq(Assets) /\ ToSet(one) = {e} /\ Times(one, x) = IF x = e THEN 1 ELSE 0
  BY TimesOne
<1>2. Len(one) = 1 /\ one[1] = e /\ Len(s) \in Nat
  BY LenProperties
<1> HIDE DEF one
<1>3. /\ s \o one \in Seq(Assets) /\ ToSet(s \o one) = ToSet(s) \cup ToSet(one)
      /\ Times(s \o one, x) = Times(s, x) + Times(one, x)
  BY <1>1, TimesConcat
<1>4. /\ Len(s \o one) = Len(s) + Len(one)
      /\ \A i \in 1..(Len(s) + Len(one)) :
           (s \o one)[i] = IF i <= Len(s) THEN s[i] ELSE one[i - Len(s)]
  BY <1>1, ConcatProperties
<1>5. /\ \A i \in 1..Len(s) : (s \o one)[i] = s[i]
      /\ (s \o one)[Len(s) + 1] = e
  BY <1>2, <1>4
<1> QED
  BY <1>1, <1>2, <1>3, <1>4, <1>5 DEF one

(* A listing of a set lists what is in it once.                                *)
LEMMA TimesListing ==
  ASSUME NEW S \in SUBSET Assets, NEW l \in SetToSeqs(S), NEW x
  PROVE  /\ l \in Seq(Assets) /\ ToSet(l) = S
         /\ Times(l, x) = IF x \in S THEN 1 ELSE 0
<1> DEFINE n == Cardinality(S)
<1>1. IsFiniteSet(S) /\ n \in Nat
  BY AssetsAssumption, FS_Subset, FS_CardinalityType
<1>2. l \in [1..n -> S] /\ \A i, j \in 1..n : i # j => l[i] # l[j]
  BY DEF SetToSeqs
<1>3. l \in Seq(Assets) /\ Len(l) = n /\ DOMAIN l = 1..n
  <2>1. l \in Seq(S) /\ l \in Seq(Assets)
    BY <1>1, <1>2
  <2> QED
    BY <1>1, <1>2, <2>1, LenProperties
<1>4. l \in Surjection(1..n, S)
  <2>1. l \in Injection(1..n, S)
    BY <1>2 DEF Injection, IsInjective
  <2>2. IsFiniteSet(1..n) /\ Cardinality(1..n) = n
    BY <1>1, SpanSize
  <2> QED
    BY <1>1, <2>1, <2>2, FS_Injection
<1>5. ToSet(l) = S
  BY <1>2, <1>3, <1>4 DEF ToSet, Surjection
<1>6. CASE x \in S
  <2>1. PICK i \in 1..n : l[i] = x
    BY <1>4, <1>6 DEF Surjection
  <2>2. Places(l, x) = {i}
    BY <1>2, <1>3, <2>1 DEF Places
  <2>3. Times(l, x) = 1
    <3>1. Cardinality({i}) = 1
      BY FS_Singleton
    <3>2. Times(l, x) = Cardinality(Places(l, x))
      BY <1>3, TimesEffect
    <3> QED
      BY <2>2, <3>1, <3>2
  <2> QED
    BY <1>3, <1>5, <1>6, <2>3
<1>7. CASE x \notin S
  <2>1. Times(l, x) \in Nat /\ ~(Times(l, x) > 0)
    BY <1>3, <1>5, <1>7, TimesEffect
  <2>2. Times(l, x) = 0
    BY <2>1
  <2> QED
    BY <1>3, <1>5, <1>7, <2>2
<1> QED
  BY <1>6, <1>7

(* What is listed already is not listed again.                                 *)
LEMMA TimesAddedOnce ==
  ASSUME NEW s \in Seq(Assets), NEW e \in Assets, NEW x
  PROVE  /\ AddedOnce(s, e) \in Seq(Assets) /\ ToSet(AddedOnce(s, e)) = ToSet(s) \cup {e}
         /\ Times(AddedOnce(s, e), x) = IF x = e THEN AtLeastOne(Times(s, e)) ELSE Times(s, x)
<1>1. /\ Times(s, e) \in Nat /\ Times(s, x) \in Nat
      /\ (Times(s, e) > 0 <=> e \in ToSet(s)) /\ (Contains(s, e) <=> e \in ToSet(s))
  BY TimesEffect
<1>2. CASE Contains(s, e)
  <2>1. AddedOnce(s, e) = s
    BY <1>2 DEF AddedOnce
  <2>2. ToSet(s) \cup {e} = ToSet(s)
    BY <1>1, <1>2
  <2>3. AtLeastOne(Times(s, e)) = Times(s, e)
    BY <1>1, <1>2 DEF AtLeastOne
  <2> QED
    BY <2>1, <2>2, <2>3
<1>3. CASE ~Contains(s, e)
  <2>1. AddedOnce(s, e) = s \o <<e>>
    BY <1>3, AppendIsConcat DEF AddedOnce
  <2>2. AtLeastOne(Times(s, e)) = 1 /\ Times(s, e) = 0
    BY <1>1, <1>3 DEF AtLeastOne
  <2>3. /\ s \o <<e>> \in Seq(Assets) /\ ToSet(s \o <<e>>) = ToSet(s) \cup {e}
        /\ Times(s \o <<e>>, x) = Times(s, x) + (IF x = e THEN 1 ELSE 0)
    BY ONLY TimesExtended, s \in Seq(Assets), e \in Assets
  <2> QED
    BY <1>1, <2>1, <2>2, <2>3
<1> QED
  BY <1>2, <1>3

(* Taken out of its place, an asset is listed once less.                       *)
LEMMA TimesRemoveAt ==
  ASSUME NEW s \in Seq(Assets), NEW p \in 1..Len(s), NEW x
  PROVE  /\ RemoveAt(s, p) \in Seq(Assets) /\ Len(RemoveAt(s, p)) = Len(s) - 1
         /\ \A k \in 1..(Len(s) - 1) :
              RemoveAt(s, p)[k] = IF k < p THEN s[k] ELSE s[k + 1]
         /\ Times(RemoveAt(s, p), x) = IF x = s[p] THEN Times(s, x) - 1 ELSE Times(s, x)
<1> DEFINE u == SubSeq(s, 1, p - 1)
           w == SubSeq(s, p + 1, Len(s))
           e == s[p]
<1>0. Len(s) \in Nat /\ e \in Assets
  BY LenProperties, ElementOfSeq
<1>1. u \in Seq(Assets) /\ Len(u) = p - 1 /\ \A i \in 1..(p - 1) : u[i] = s[i]
  BY <1>0, SubSeqProperties
<1>2. w \in Seq(Assets) /\ Len(w) = Len(s) - p /\ \A i \in 1..(Len(s) - p) : w[i] = s[p + i]
  <2>1. p + 1 \in 1..(Len(s) + 1) /\ Len(s) \in p..Len(s)
    BY <1>0
  <2>2. w \in Seq(Assets) /\ Len(w) = (IF p + 1 <= Len(s) THEN (Len(s) - (p + 1)) + 1 ELSE 0)
        /\ \A i \in 1..((Len(s) - (p + 1)) + 1) : w[i] = s[(p + 1) + i - 1]
    BY <1>0, <2>1, SubSeqProperties
  <2>3. ASSUME NEW i \in 1..(Len(s) - p) PROVE w[i] = s[p + i]
    <3>1. i \in 1..((Len(s) - (p + 1)) + 1) /\ (p + 1) + i - 1 = p + i
      BY <1>0
    <3> QED
      BY <2>2, <3>1
  <2> QED
    BY <1>0, <2>2, <2>3
<1> HIDE DEF u, w
<1>3. RemoveAt(s, p) = u \o w
  BY DEF RemoveAt, u, w
<1>4. u \o w \in Seq(Assets) /\ Len(u \o w) = Len(s) - 1
  <2>1. u \o w \in Seq(Assets) /\ Len(u \o w) = Len(u) + Len(w)
    BY <1>1, <1>2, ConcatProperties
  <2> QED
    BY <1>0, <1>1, <1>2, <2>1
<1>5. ASSUME NEW k \in 1..(Len(s) - 1) PROVE (u \o w)[k] = IF k < p THEN s[k] ELSE s[k + 1]
  <2>1. (u \o w)[k] = IF k <= Len(u) THEN u[k] ELSE w[k - Len(u)]
    BY <1>0, <1>1, <1>2, ConcatProperties
  <2>2. CASE k < p
    BY <1>0, <1>1, <2>1, <2>2
  <2>3. CASE ~(k < p)
    <3>1. ~(k <= Len(u)) /\ k - Len(u) = k - p + 1 /\ k - (p - 1) \in 1..(Len(s) - p)
          /\ p + (k - (p - 1)) = k + 1
      BY <1>0, <1>1, <2>3
    <3> QED
      BY <1>1, <1>2, <2>1, <2>3, <3>1
  <2> QED
    BY <2>2, <2>3
<1>6. s = (u \o <<e>>) \o w
  <2> DEFINE v == u \o <<e>>
  <2>1. /\ v \in Seq(Assets) /\ Len(v) = p /\ \A i \in 1..(p - 1) : v[i] = s[i]
        /\ v[p] = s[p]
    <3>1. /\ v \in Seq(Assets) /\ Len(v) = Len(u) + 1 /\ v[Len(u) + 1] = e
          /\ \A i \in 1..Len(u) : v[i] = u[i]
      BY <1>0, <1>1, TimesExtended
    <3> QED
      BY <1>0, <1>1, <3>1
  <2> HIDE DEF v
  <2>2. /\ v \o w \in Seq(Assets) /\ Len(v \o w) = Len(s)
        /\ \A i \in 1..Len(s) : (v \o w)[i] = IF i <= p THEN v[i] ELSE w[i - p]
    <3>1. /\ v \o w \in Seq(Assets) /\ Len(v \o w) = Len(v) + Len(w)
          /\ \A i \in 1..(Len(v) + Len(w)) :
               (v \o w)[i] = IF i <= Len(v) THEN v[i] ELSE w[i - Len(v)]
      BY <1>2, <2>1, ConcatProperties
    <3>2. Len(v) + Len(w) = Len(s)
      BY <1>0, <1>2, <2>1
    <3> QED
      BY <2>1, <3>1, <3>2
  <2>3. ASSUME NEW i \in 1..Len(s) PROVE (v \o w)[i] = s[i]
    <3>1. CASE i <= p
      <4>1. i \in 1..(p - 1) \/ i = p
        BY <1>0, <3>1
      <4> QED
        BY <2>1, <2>2, <3>1, <4>1
    <3>2. CASE ~(i <= p)
      <4>1. i - p \in 1..(Len(s) - p) /\ p + (i - p) = i
        BY <1>0, <3>2
      <4> QED
        BY <1>2, <2>2, <3>2, <4>1
    <3> QED
      BY <3>1, <3>2
  <2> QED
    BY <2>2, <2>3, SeqEqual DEF v
<1>7. /\ Times(s, x) = (Times(u, x) + (IF x = e THEN 1 ELSE 0)) + Times(w, x)
      /\ Times(u \o w, x) = Times(u, x) + Times(w, x)
      /\ Times(u, x) \in Nat /\ Times(w, x) \in Nat
  <2>1. u \o <<e>> \in Seq(Assets) /\ Times(u \o <<e>>, x) = Times(u, x) + (IF x = e THEN 1 ELSE 0)
    BY <1>0, <1>1, TimesExtended
  <2>2. Times((u \o <<e>>) \o w, x) = Times(u \o <<e>>, x) + Times(w, x)
    BY <1>2, <2>1, TimesConcat
  <2>3. Times(s, x) = Times((u \o <<e>>) \o w, x)
    BY <1>6
  <2> QED
    BY <1>1, <1>2, <2>1, <2>2, <2>3, TimesConcat, TimesEffect
<1>8. Times(RemoveAt(s, p), x) = IF x = s[p] THEN Times(s, x) - 1 ELSE Times(s, x)
  BY <1>3, <1>7
<1> QED
  BY <1>3, <1>4, <1>5, <1>8

(* So RemoveFirst leaves an asset once less, if it is listed.                  *)
LEMMA TimesRemoveFirst ==
  ASSUME NEW s \in Seq(Assets), NEW e \in Assets, NEW x
  PROVE  /\ RemoveFirst(s, e) \in Seq(Assets)
         /\ Times(RemoveFirst(s, e), x) = IF x = e THEN OneLess(Times(s, e)) ELSE Times(s, x)
<1>1. /\ Times(s, e) \in Nat /\ Times(s, x) \in Nat /\ Len(s) \in Nat
      /\ Times(s, e) > 0 <=> \E i \in 1..Len(s) : s[i] = e
  BY TimesEffect, LenProperties
<1>2. CASE \E i \in 1..Len(s) : s[i] = e
  <2>1. PICK p \in 1..Len(s) :
          /\ s[p] = e
          /\ RemoveFirst(s, e) \in Seq(Assets) /\ Len(RemoveFirst(s, e)) = Len(s) - 1
          /\ \A i \in 1..(Len(s) - 1) :
               RemoveFirst(s, e)[i] = IF i < p THEN s[i] ELSE s[i + 1]
    BY <1>2, RemoveFirstEffect
  <2>2. /\ RemoveAt(s, p) \in Seq(Assets) /\ Len(RemoveAt(s, p)) = Len(s) - 1
        /\ \A i \in 1..(Len(s) - 1) : RemoveAt(s, p)[i] = IF i < p THEN s[i] ELSE s[i + 1]
        /\ Times(RemoveAt(s, p), x) = IF x = s[p] THEN Times(s, x) - 1 ELSE Times(s, x)
    BY TimesRemoveAt
  <2>3. RemoveFirst(s, e) = RemoveAt(s, p)
    BY <2>1, <2>2, SeqEqual
  <2>4. OneLess(Times(s, e)) = Times(s, e) - 1
    BY <1>1, <1>2 DEF OneLess
  <2> QED
    BY <2>1, <2>2, <2>3, <2>4
<1>3. CASE ~\E i \in 1..Len(s) : s[i] = e
  <2>1. RemoveFirst(s, e) = s
    BY <1>3, RemoveFirstAbsent
  <2>2. OneLess(Times(s, e)) = 0 /\ Times(s, e) = 0
    BY <1>1, <1>3 DEF OneLess
  <2> QED
    BY <2>1, <2>2
<1> QED
  BY <1>2, <1>3

(* The empty list lists nothing.                                               *)
LEMMA EmptyList ==
  /\ ToSet(<<>>) = {} /\ <<>> \in Seq(Assets)
  /\ \A x : Times(<<>>, x) = 0
<1>1. <<>> \in Seq(Assets) /\ Len(<<>>) = 0 /\ DOMAIN <<>> = {}
  OBVIOUS
<1>2. ToSet(<<>>) = {}
  BY <1>1 DEF ToSet
<1>3. \A x : Times(<<>>, x) \in Nat /\ ~(Times(<<>>, x) > 0)
  BY <1>1, <1>2, TimesEffect
<1> QED
  BY <1>1, <1>2, <1>3

LEMMA ListInAssets ==
  ASSUME NEW s \in Seq(Assets)
  PROVE  ToSet(s) \subseteq Assets
<1>1. ASSUME NEW x \in ToSet(s) PROVE x \in Assets
  BY <1>1, TimesEffect, ElementOfSeq
<1> QED
  BY <1>1

LEMMA HeadAndTail ==
  ASSUME NEW s \in Seq(Assets), s # <<>>
  PROVE  /\ Tail(s) \in Seq(Assets) /\ Head(s) \in ToSet(s) /\ ToSet(Tail(s)) \subseteq ToSet(s)
         /\ ToSet(s) = ToSet(Tail(s)) \cup {Head(s)}
<1>1. /\ Len(s) \in Nat /\ Len(s) > 0 /\ Head(s) = s[1]
      /\ Tail(s) \in Seq(Assets) /\ Len(Tail(s)) = Len(s) - 1
      /\ \A i \in 1..(Len(s) - 1) : Tail(s)[i] = s[i + 1]
  BY LenProperties, EmptySeq, HeadTailProperties
<1>2. Head(s) \in ToSet(s)
  BY <1>1, TimesEffect
<1>3. ASSUME NEW x \in ToSet(Tail(s)) PROVE x \in ToSet(s)
  <2>1. PICK i \in 1..Len(Tail(s)) : Tail(s)[i] = x
    BY <1>1, TimesEffect
  <2>2. i + 1 \in 1..Len(s) /\ s[i + 1] = x
    BY <1>1, <2>1
  <2> QED
    BY <2>2, TimesEffect
<1>4. ASSUME NEW x \in ToSet(s), x # Head(s) PROVE x \in ToSet(Tail(s))
  <2>1. PICK i \in 1..Len(s) : s[i] = x
    BY TimesEffect
  <2>2. i - 1 \in 1..(Len(s) - 1) /\ (i - 1) + 1 = i
    BY <1>1, <1>4, <2>1
  <2>3. Tail(s)[i - 1] = x
    BY <1>1, <2>1, <2>2
  <2> QED
    BY <1>1, <2>2, <2>3, TimesEffect
<1> QED
  BY <1>1, <1>2, <1>3, <1>4

-----------------------------------------------------------------------------
(* What the constants give: nothing leads to itself.                           *)
LEMMA UnderEffect ==
  ASSUME Typed
  PROVE  /\ IsGraph(refers) /\ HasNoCycle(refers) /\ IsGraph(Dep)
         /\ \A a \in Assets :
              /\ Under(a) \subseteq Assets /\ a \notin Under(a)
              /\ \A b \in Under(a) : Under(b) \subseteq Under(a)
              /\ Reduced(a) \subseteq Under(a) /\ Reduced(a) = ReducedIn(refers, a)
              /\ dicDep[a] \in Seq(Assets) /\ Len(dicDep[a]) \in Nat /\ Dep[a] = ToSet(dicDep[a])
<1>1. IsGraph(refers) /\ HasNoCycle(refers)
  BY AssetsAssumption DEF Typed, IsGraph, HasNoCycle
<1>2. \A a \in Assets : dicDep[a] \in Seq(Assets) /\ Len(dicDep[a]) \in Nat /\ Dep[a] = ToSet(dicDep[a])
  BY LenProperties DEF Typed, Dep
<1>3. \A a \in Assets : ToSet(dicDep[a]) \subseteq Assets
  <2>1. ASSUME NEW a \in Assets, NEW i \in DOMAIN dicDep[a] PROVE dicDep[a][i] \in Assets
    BY <1>2, <2>1, ElementOfSeq, LenProperties
  <2> QED
    BY <2>1 DEF ToSet
<1>4. IsGraph(Dep)
  BY <1>3 DEF IsGraph, Dep
<1>5. ASSUME NEW a \in Assets
      PROVE  /\ Under(a) \subseteq Assets /\ a \notin Under(a)
             /\ \A b \in Under(a) : Under(b) \subseteq Under(a)
             /\ Reduced(a) \subseteq Under(a) /\ Reduced(a) = ReducedIn(refers, a)
  BY <1>1, BelowEffect, BelowTransitive DEF Under, Reduced, ReducedIn, HasNoCycle
<1> QED
  BY <1>1, <1>2, <1>4, <1>5

LEMMA SameUnder ==
  ASSUME UNCHANGED refers
  PROVE  \A a : Under(a)' = Under(a) /\ Reduced(a)' = Reduced(a)
BY DEF Under, Reduced

LEMMA DepPrimed ==
  ASSUME dicDep' \in [Assets -> Seq(Assets)]
  PROVE  \A a \in Assets : Dep'[a] = ToSet(dicDep'[a])
BY DEF Dep

LEMMA DepIsGraph ==
  ASSUME dicDep' \in [Assets -> Seq(Assets)]
  PROVE  IsGraph(Dep')
<1>1. \A a \in Assets : dicDep'[a] \in Seq(Assets)
  OBVIOUS
<1>2. \A a \in Assets : ToSet(dicDep'[a]) \subseteq Assets
  BY <1>1, ListInAssets
<1> QED
  BY <1>2 DEF IsGraph, Dep

LEMMA BelowPrimed == \A a : Below(Dep, a)' = Below(Dep', a)
BY DEF Below

(* The stack of calls: the innermost is replaced, or left.                     *)
LEMMA GoesEffect ==
  ASSUME NEW S, NEW s \in Seq(S), s # <<>>, NEW c \in S
  PROVE  /\ Len(s) \in Nat /\ Len(s) > 0 /\ Last(s) = s[Len(s)] /\ s[Len(s)] \in S
         /\ Front(s) \in Seq(S) /\ Len(Front(s)) = Len(s) - 1
         /\ \A i \in 1..(Len(s) - 1) : Front(s)[i] = s[i]
         /\ Append(Front(s), c) \in Seq(S) /\ Len(Append(Front(s), c)) = Len(s)
         /\ \A i \in 1..(Len(s) - 1) : Append(Front(s), c)[i] = s[i]
         /\ Append(Front(s), c)[Len(s)] = c
<1>1. Len(s) \in Nat /\ Len(s) > 0
  BY LenProperties, EmptySeq
<1>2. s[Len(s)] \in S /\ Last(s) = s[Len(s)]
  BY <1>1, ElementOfSeq DEF Last
<1>3. /\ Front(s) \in Seq(S) /\ Len(Front(s)) = Len(s) - 1
      /\ \A i \in 1..(Len(s) - 1) : Front(s)[i] = s[i]
  <2>1. \A i \in 1..(Len(s) - 1) : s[i] \in S
    BY <1>1, ElementOfSeq
  <2>2. /\ SubSeq(s, 1, Len(s) - 1) \in Seq(S)
        /\ Len(SubSeq(s, 1, Len(s) - 1)) = IF 1 <= Len(s) - 1 THEN (Len(s) - 1) - 1 + 1 ELSE 0
        /\ \A i \in 1..((Len(s) - 1) - 1 + 1) : SubSeq(s, 1, Len(s) - 1)[i] = s[1 + i - 1]
    BY <1>1, <2>1, SubSeqProperties
  <2>3. (Len(s) - 1) - 1 + 1 = Len(s) - 1 /\ \A i \in 1..(Len(s) - 1) : 1 + i - 1 = i
    BY <1>1
  <2> QED
    BY <1>1, <2>2, <2>3 DEF Front
<1> DEFINE f == Front(s)
<1> HIDE DEF f
<1>4. /\ Append(f, c) \in Seq(S) /\ Len(Append(f, c)) = Len(f) + 1
      /\ \A i \in 1..Len(f) : Append(f, c)[i] = f[i]
      /\ Append(f, c)[Len(f) + 1] = c
  BY <1>3, AppendProperties DEF f
<1> QED
  BY <1>1, <1>2, <1>3, <1>4 DEF f

-----------------------------------------------------------------------------
(* The invariant holds before anything is added.                               *)
LEMMA InitInv == Init => Inv
<1>1. SUFFICES ASSUME Init PROVE Inv
  OBVIOUS
<1>2. Typed
  <2>1. <<>> \in [DOMAIN <<>> -> Nat] /\ <<>> \in [DOMAIN <<>> -> SUBSET Nat] /\ DOMAIN <<>> = {}
    OBVIOUS
  <2>2. <<>> \in Seq(Assets) /\ <<>> \in Seq(LineCall)
    OBVIOUS
  <2> QED
    BY <1>1, <2>1, <2>2 DEF Init, Typed
<1>3. /\ stage = "adding" /\ calls = <<>> /\ entries = {} /\ listAsset = <<>> /\ Len(calls) = 0
      /\ \A a \in Assets : dicDep[a] = <<>>
      /\ \A x, a \in Assets : dicDepBy[x][a] = 0
  BY <1>1 DEF Init
<1>4. \A a \in Assets : Dep[a] = {}
  BY <1>2, <1>3, UnderEffect, EmptyList
<1>5. DownOnly /\ NoEntryNoList /\ AtRest
  BY <1>3, <1>4 DEF DownOnly, NoEntryNoList, AtRest
<1>6. Descends /\ CallsHaveLists /\ LineLists /\ Moving /\ Linked /\ MovedSoFar
  BY <1>3 DEF Descends, CallsHaveLists, LineLists, Moving, Linked, MovedSoFar
<1>7. CountsAgree /\ ListedOnce
  BY <1>3, EmptyList DEF CountsAgree, ListedOnce
<1>8. Listed /\ NoBundles
  BY <1>1, <1>3, EmptyList DEF Init, Listed, NoBundles
<1> QED
  BY <1>2, <1>3, <1>5, <1>6, <1>7, <1>8 DEF Inv, AddingInv

-----------------------------------------------------------------------------
(* A file's dependencies are listed on top of those it may have already.        *)
LEMMA AddFileKeeps ==
  ASSUME Typed, AddingInv, NEW a \in Assets, AddFile(a)
  PROVE  Typed' /\ AddingInv' /\ stage' = "adding"
<1>0. PICK l \in SetToSeqs(Under(a)) : dicDep' = [dicDep EXCEPT ![a] = @ \o l]
  BY DEF AddFile, GetDependencies, Under
<1>1. /\ stage = "adding" /\ calls = <<>> /\ a \in files /\ stage' = stage
      /\ refers' = refers /\ files' = files /\ listAsset' = listAsset /\ todo' = todo
      /\ UNCHANGED bundles
      /\ entries' = entries \cup {a}
      /\ dicDepBy' = [d \in Assets |->
           IF d \in Under(a) THEN [dicDepBy[d] EXCEPT ![a] = @ + 1] ELSE dicDepBy[d]]
      /\ calls' = <<[asset |-> a, moving |-> {}, list |-> dicDep'[a], next |-> 1]>>
  BY DEF AddFile, project, Under
<1>2. /\ Under(a) \in SUBSET Assets /\ a \notin Under(a) /\ Reduced(a) \subseteq Under(a)
      /\ dicDep[a] \in Seq(Assets) /\ Dep[a] = ToSet(dicDep[a])
      /\ \A b \in Assets : Dep[b] = ToSet(dicDep[b])
  BY UnderEffect
<1>3. \A b : Under(b)' = Under(b) /\ Reduced(b)' = Reduced(b)
  BY <1>1, SameUnder
<1>4. l \in Seq(Assets) /\ ToSet(l) = Under(a)
      /\ \A x : Times(l, x) = IF x \in Under(a) THEN 1 ELSE 0
  BY <1>2, TimesListing
<1>5. /\ dicDep[a] \o l \in Seq(Assets) /\ ToSet(dicDep[a] \o l) = Dep[a] \cup Under(a)
      /\ \A x : Times(dicDep[a] \o l, x) = Times(dicDep[a], x) + (IF x \in Under(a) THEN 1 ELSE 0)
  BY <1>2, <1>4, TimesConcat
<1>6. dicDep \in [Assets -> Seq(Assets)] /\ dicDepBy \in [Assets -> [Assets -> Nat]]
  BY DEF Typed
<1>7. /\ dicDep' \in [Assets -> Seq(Assets)] /\ dicDep'[a] = dicDep[a] \o l
      /\ \A b \in Assets : b # a => dicDep'[b] = dicDep[b]
  BY <1>0, <1>5, <1>6
<1>8. /\ Dep'[a] = Under(a) /\ \A b \in Assets : b # a => Dep'[b] = Dep[b]
  <2>1. Dep[a] \subseteq Under(a)
    BY DEF AddingInv, DownOnly
  <2> QED
    BY <1>2, <1>5, <1>7, <2>1, DepPrimed
<1>9. /\ Len(calls') = 1 /\ calls'[1].asset = a /\ calls'[1].moving = {} /\ calls'[1].next = 1
      /\ calls'[1].list = dicDep'[a] /\ calls' # <<>> /\ calls' \in Seq(LineCall)
  <2> DEFINE c == [asset |-> a, moving |-> {}, list |-> dicDep'[a], next |-> 1]
  <2>1. /\ c \in LineCall /\ c.asset = a /\ c.moving = {} /\ c.next = 1 /\ c.list = dicDep'[a]
    BY <1>7 DEF LineCall
  <2>2. calls' = <<c>>
    BY <1>1
  <2> HIDE DEF c
  <2> QED
    BY <2>1, <2>2
<1>10. Typed'
  <2>1. dicDepBy' \in [Assets -> [Assets -> Nat]]
    BY <1>1, <1>6
  <2> QED
    BY <1>1, <1>7, <1>9, <2>1 DEF Typed, bundles
<1>11. DownOnly' /\ NoEntryNoList'
  BY <1>1, <1>3, <1>7, <1>8 DEF AddingInv, DownOnly, NoEntryNoList
<1>12. Descends' /\ CallsHaveLists' /\ Moving' /\ Linked'
  BY <1>1, <1>9 DEF Descends, CallsHaveLists, Moving, Linked
<1>13. CountsAgree'
  <2>1. ASSUME NEW b \in Assets, NEW x \in Assets
        PROVE  dicDepBy'[x][b] = Times(dicDep'[b], x)
    <3>1. dicDepBy[x][b] = Times(dicDep[b], x)
      BY DEF AddingInv, CountsAgree
    <3>2. CASE b = a
      <4>1. dicDepBy'[x][a] = dicDepBy[x][a] + (IF x \in Under(a) THEN 1 ELSE 0)
        BY <1>1, <1>6
      <4>2. Times(dicDep'[a], x) = Times(dicDep[a], x) + (IF x \in Under(a) THEN 1 ELSE 0)
        BY <1>5, <1>7
      <4> QED
        BY <3>1, <3>2, <4>1, <4>2
    <3>3. CASE b # a
      BY <1>1, <1>6, <1>7, <3>1, <3>3
    <3> QED
      BY <3>2, <3>3
  <2> QED
    BY <2>1 DEF CountsAgree
<1>14. ListedOnce'
  <2>1. ASSUME NEW b \in Assets, NEW x \in Assets, x \notin Reduced(b)
        PROVE  Times(dicDep'[b], x) <= 1
    <3>1. CASE b # a
      <4>1. Times(dicDep[b], x) <= 1 /\ dicDep'[b] = dicDep[b]
        BY <1>7, <2>1, <3>1 DEF AddingInv, ListedOnce
      <4> QED
        BY <4>1
    <3>2. CASE b = a
      <4>1. x \notin Dep[a]
        <5>1. CASE a \in entries
          <6>1. \A i \in 1..Len(calls) : calls[i].asset # a
            BY <1>1
          <6> QED
            BY <2>1, <3>2, <5>1, <6>1 DEF AddingInv, AtRest
        <5>2. CASE a \notin entries
          BY <1>2, <5>2, EmptyList DEF AddingInv, NoEntryNoList
        <5> QED
          BY <5>1, <5>2
      <4>2. Times(dicDep[a], x) = 0
        <5>1. Times(dicDep[a], x) \in Nat /\ ~(Times(dicDep[a], x) > 0)
          BY <1>2, <4>1, TimesEffect
        <5> QED
          BY <5>1
      <4>3. Times(dicDep'[a], x) = Times(dicDep[a], x) + (IF x \in Under(a) THEN 1 ELSE 0)
        BY <1>5, <1>7
      <4> QED
        BY ONLY <3>2, <4>2, <4>3
    <3> QED
      BY <3>1, <3>2
  <2> QED
    BY <1>3, <2>1 DEF ListedOnce
<1>15. LineLists' /\ MovedSoFar'
  <2>1. ToSet(dicDep'[a]) = Under(a) /\ Len(dicDep'[a]) \in Nat
    BY <1>7, <1>8, DepPrimed, LenProperties
  <2>2. LineLists'
    BY <1>3, <1>9, <2>1 DEF LineLists, LineList
  <2>3. MovedSoFar'
    BY <1>2, <1>3, <1>8, <1>9 DEF MovedSoFar
  <2> QED
    BY <2>2, <2>3
<1>16. AtRest'
  <2>1. ASSUME NEW b \in entries', \A i \in 1..Len(calls') : calls'[i].asset # b
        PROVE  Dep'[b] = Reduced(b) /\ Under(b) \subseteq entries'
    <3>1. b # a /\ b \in entries /\ b \in Assets
      BY <1>1, <1>9, <2>1 DEF Typed
    <3>2. \A i \in 1..Len(calls) : calls[i].asset # b
      BY <1>1
    <3> QED
      BY <1>1, <1>8, <3>1, <3>2 DEF AddingInv, AtRest
  <2> QED
    BY <1>3, <2>1 DEF AtRest
<1>17. Listed' /\ NoBundles'
  <2>1. Added' = Added
    BY <1>1 DEF Added
  <2> QED
    BY <1>1, <1>9, <2>1 DEF AddingInv, Listed, NoBundles, bundles
<1> QED
  BY <1>1, <1>10, <1>11, <1>12, <1>13, <1>14, <1>15, <1>16, <1>17 DEF AddingInv

(* The calls of a stage, each of its kind.                                     *)
LEMMA LineFrames ==
  ASSUME Typed, AddingInv, stage = "adding", calls # <<>>
  PROVE  /\ calls \in Seq(LineCall) /\ Len(calls) \in Nat /\ Len(calls) > 0
         /\ Top = calls[Len(calls)] /\ Top \in LineCall
         /\ \A i \in 1..Len(calls) :
              /\ calls[i] \in LineCall /\ calls[i].asset \in Assets /\ calls[i].asset \in entries
              /\ calls[i].moving \subseteq Assets /\ calls[i].next \in Nat /\ calls[i].next > 0
              /\ calls[i].list \in Seq(Assets) /\ Len(calls[i].list) \in Nat
              /\ \A j \in 1..Len(calls[i].list) :
                   calls[i].list[j] \in Assets /\ calls[i].list[j] \in ToSet(calls[i].list)
         /\ DOMAIN dicDep = Assets /\ dicDep \in [Assets -> Seq(Assets)]
<1>1. calls \in Seq(LineCall) /\ dicDep \in [Assets -> Seq(Assets)]
  BY DEF Typed
<1>2. Len(calls) \in Nat /\ Len(calls) > 0 /\ \A i \in 1..Len(calls) : calls[i] \in LineCall
  BY <1>1, LenProperties, EmptySeq, ElementOfSeq
<1>3. Top = calls[Len(calls)] /\ Top \in LineCall
  BY <1>2 DEF Top, Last
<1>4. \A c \in LineCall :
        c.asset \in Assets /\ c.moving \subseteq Assets /\ c.next \in Nat /\ c.list \in Seq(Assets)
  BY DEF LineCall
<1>5. \A s \in Seq(Assets) : /\ Len(s) \in Nat /\ DOMAIN s = 1..Len(s)
                             /\ \A j \in 1..Len(s) : s[j] \in Assets /\ s[j] \in ToSet(s)
  <2>1. ASSUME NEW s \in Seq(Assets), NEW j \in 1..Len(s) PROVE s[j] \in Assets /\ s[j] \in ToSet(s)
    BY <2>1, ElementOfSeq, TimesEffect
  <2> QED
    BY <2>1, LenProperties
<1>6. \A i \in 1..Len(calls) : calls[i].asset \in entries /\ calls[i].next > 0
  BY DEF AddingInv, CallsHaveLists
<1> QED
  BY <1>1, <1>2, <1>3, <1>4, <1>5, <1>6

LEMMA NextAsset ==
  ASSUME NEW c \in LineCall
  PROVE  LET t == [c EXCEPT !.next = @ + 1]
         IN t \in LineCall /\ t.asset = c.asset /\ t.moving = c.moving /\ t.list = c.list
            /\ t.next = c.next + 1
BY DEF LineCall

(* The call for the next asset of the list moves all it leads to.              *)
LEMMA LineKeeps ==
  ASSUME Typed, AddingInv, Line
  PROVE  Typed' /\ AddingInv' /\ stage' = "adding"
<1> DEFINE n == Len(calls)
           d == Top.list[Top.next]
           T == [Top EXCEPT !.next = @ + 1]
           C == [asset |-> d, moving |-> Under(d), list |-> dicDep[d], next |-> 1]
<1>1. /\ stage = "adding" /\ calls # <<>> /\ stage' = stage
      /\ Top.moving = {} /\ Top.next <= Len(Top.list)
      /\ refers' = refers /\ files' = files /\ listAsset' = listAsset /\ todo' = todo
      /\ dicDep' = dicDep /\ dicDepBy' = dicDepBy /\ UNCHANGED bundles
      /\ entries' = entries \cup {d}
      /\ calls' = Append(Append(Front(calls), T), C)
  BY DEF Line, project, Under, Goes
<1>2. /\ calls \in Seq(LineCall) /\ n \in Nat /\ n > 0 /\ Top = calls[n] /\ Top \in LineCall
      /\ \A i \in 1..n :
           /\ calls[i] \in LineCall /\ calls[i].asset \in Assets /\ calls[i].asset \in entries
           /\ calls[i].next \in Nat /\ calls[i].next > 0
           /\ calls[i].list \in Seq(Assets) /\ Len(calls[i].list) \in Nat
           /\ \A j \in 1..Len(calls[i].list) :
                calls[i].list[j] \in Assets /\ calls[i].list[j] \in ToSet(calls[i].list)
  BY <1>1, LineFrames
<1>3. \A b : Under(b)' = Under(b) /\ Reduced(b)' = Reduced(b)
  BY <1>1, SameUnder
<1>4. n \in 1..n /\ Top.next \in 1..Len(Top.list) /\ Top.next \in Nat /\ Top.asset \in Assets
  BY <1>1, <1>2
<1>5. d \in Assets /\ d \in Under(Top.asset)
  <2>1. ToSet(Top.list) \subseteq Under(Top.asset)
    BY <1>2, <1>4 DEF AddingInv, LineLists, LineList
  <2> QED
    BY <1>2, <1>4, <2>1
<1>6. /\ Under(d) \subseteq Assets /\ dicDep[d] \in Seq(Assets) /\ Len(dicDep[d]) \in Nat
      /\ Dep[d] = ToSet(dicDep[d]) /\ Reduced(d) \subseteq Under(d) /\ d \notin Under(d)
  BY <1>5, UnderEffect
<1>7. /\ T \in LineCall /\ T.asset = Top.asset /\ T.moving = {} /\ T.list = Top.list
      /\ T.next = Top.next + 1
  BY <1>1, <1>2, NextAsset
<1>8. C \in LineCall /\ C.asset = d /\ C.moving = Under(d) /\ C.list = dicDep[d] /\ C.next = 1
  BY <1>5, <1>6 DEF LineCall
<1> HIDE DEF T, C
<1>9. /\ calls' \in Seq(LineCall) /\ Len(calls') = n + 1
      /\ calls'[n] = T /\ calls'[n + 1] = C
      /\ \A i \in 1..n : i # n => calls'[i] = calls[i]
  <2> DEFINE f == Append(Front(calls), T)
  <2>1. f \in Seq(LineCall) /\ Len(f) = n /\ f[n] = T /\ \A i \in 1..(n - 1) : f[i] = calls[i]
    BY <1>1, <1>2, <1>7, GoesEffect
  <2> HIDE DEF f
  <2>2. /\ Append(f, C) \in Seq(LineCall) /\ Len(Append(f, C)) = n + 1 /\ Append(f, C)[n + 1] = C
        /\ \A i \in 1..n : Append(f, C)[i] = f[i]
    BY <1>8, <2>1, AppendProperties
  <2>3. calls' = Append(f, C)
    BY <1>1 DEF f
  <2> QED
    BY <1>2, <2>1, <2>2, <2>3
<1>10. \A i \in 1..n : /\ calls'[i].asset = calls[i].asset /\ calls'[i].list = calls[i].list
                       /\ calls'[i].moving = calls[i].moving
                       /\ calls'[i].next = IF i = n THEN calls[i].next + 1 ELSE calls[i].next
  BY <1>1, <1>2, <1>7, <1>9
<1>11. \A i \in 1..(n + 1) : i \in 1..n \/ i = n + 1
  BY <1>2
<1>12. Typed'
  BY <1>1, <1>5, <1>9 DEF Typed, bundles
<1> HIDE DEF d
<1>13. /\ DownOnly' /\ NoEntryNoList' /\ CountsAgree' /\ ListedOnce' /\ NoBundles'
  <2>1. Dep' = Dep
    BY <1>1 DEF Dep
  <2> QED
    BY <1>1, <1>3, <2>1
    DEF AddingInv, DownOnly, NoEntryNoList, CountsAgree, ListedOnce, NoBundles, bundles
<1>14. Descends'
  <2>1. ASSUME NEW i \in 1..(n + 1), NEW j \in 1..(n + 1), i < j
        PROVE  calls'[j].asset \in Under(calls'[i].asset)
    <3>1. i \in 1..n /\ calls'[i].asset = calls[i].asset
      BY <1>2, <1>10, <2>1
    <3>2. CASE j \in 1..n
      BY <1>10, <2>1, <3>1, <3>2 DEF AddingInv, Descends
    <3>3. CASE j = n + 1
      <4>1. CASE i = n
        BY <1>2, <1>5, <1>8, <1>9, <3>1, <3>3, <4>1
      <4>2. CASE i # n
        <5>1. calls[n].asset \in Under(calls[i].asset)
          BY <1>2, <1>4, <3>1, <4>2 DEF AddingInv, Descends
        <5>2. Under(calls[n].asset) \subseteq Under(calls[i].asset)
          BY <1>2, <3>1, <5>1, UnderEffect
        <5> QED
          BY <1>2, <1>5, <1>8, <1>9, <3>1, <3>3, <5>2
      <4> QED
        BY <4>1, <4>2
    <3> QED
      BY <1>11, <3>2, <3>3
  <2> QED
    BY <1>3, <1>9, <2>1 DEF Descends
<1>15. CallsHaveLists'
  <2>1. ASSUME NEW i \in 1..(n + 1) PROVE calls'[i].asset \in entries' /\ calls'[i].next > 0
    <3>1. CASE i \in 1..n
      <4>1. calls[i].next + 1 > 0
        BY <1>2, <3>1
      <4> QED
        BY <1>1, <1>2, <1>10, <3>1, <4>1
    <3>2. CASE i = n + 1
      BY <1>1, <1>8, <1>9, <3>2
    <3> QED
      BY <1>11, <3>1, <3>2
  <2> QED
    BY <1>9, <2>1 DEF CallsHaveLists
<1>16. LineLists'
  <2>1. ASSUME NEW i \in 1..(n + 1)
        PROVE  /\ calls'[i].moving \subseteq Under(calls'[i].asset)
               /\ Under(calls'[i].asset) \ calls'[i].moving \subseteq ToSet(calls'[i].list)
               /\ ToSet(calls'[i].list) \subseteq Under(calls'[i].asset)
               /\ calls'[i].next <= Len(calls'[i].list) + 1
               /\ \A j \in 1..Len(calls'[i].list) : j < calls'[i].next => calls'[i].list[j] \in entries'
    <3>1. CASE i \in 1..n
      <4>1. LineList(calls[i])
        BY <3>1 DEF AddingInv, LineLists
      <4>2. /\ calls'[i].next <= Len(calls'[i].list) + 1
            /\ \A j \in 1..Len(calls'[i].list) : j < calls'[i].next => calls'[i].list[j] \in entries'
        <5>1. CASE i = n
          <6>1. \A j \in 1..Len(Top.list) : j < Top.next + 1 => j < Top.next \/ j = Top.next
            BY <1>4
          <6>2. Top.next + 1 <= Len(Top.list) + 1
            BY <1>2, <1>4
          <6> QED
            BY <1>1, <1>2, <1>7, <1>9, <4>1, <5>1, <6>1, <6>2 DEF LineList, d
        <5>2. CASE i # n
          BY <1>1, <1>10, <3>1, <4>1, <5>2 DEF LineList
        <5> QED
          BY <5>1, <5>2
      <4> QED
        BY <1>10, <3>1, <4>1, <4>2 DEF LineList
    <3>2. CASE i = n + 1
      <4>1. Dep[d] \subseteq Under(d)
        BY <1>5 DEF AddingInv, DownOnly
      <4>2. 1 <= Len(dicDep[d]) + 1 /\ \A j \in 1..Len(dicDep[d]) : ~(j < 1)
        BY <1>6
      <4> QED
        BY <1>6, <1>8, <1>9, <3>2, <4>1, <4>2
    <3> QED
      BY <1>11, <3>1, <3>2
  <2> QED
    BY <1>3, <1>9, <2>1 DEF LineLists, LineList
<1>17. Moving'
  <2>1. ASSUME NEW i \in 1..(n + 1), calls'[i].moving # {}
        PROVE  i = n + 1 /\ i > 1 /\ calls'[i].next = 1 /\ calls'[i].list = dicDep'[calls'[i].asset]
    <3>1. CASE i \in 1..n
      <4>1. calls[i].moving # {}
        BY <1>10, <2>1, <3>1
      <4>2. i = n
        BY <3>1, <4>1 DEF AddingInv, Moving
      <4> QED
        BY <1>1, <1>2, <4>1, <4>2
    <3>2. CASE i = n + 1
      BY <1>1, <1>2, <1>8, <1>9, <3>2
    <3> QED
      BY <1>11, <3>1, <3>2
  <2> QED
    BY <1>9, <2>1 DEF Moving
<1>18. Linked'
  <2>1. ASSUME NEW i \in 1..(n + 1), i < n + 1
        PROVE  calls'[i].next > 1 /\ calls'[i + 1].asset = calls'[i].list[calls'[i].next - 1]
    <3>1. i \in 1..n
      BY <1>11, <2>1
    <3>2. CASE i # n
      <4>1. i < n /\ i + 1 \in 1..n
        BY <1>2, <3>1, <3>2
      <4>2. calls[i].next > 1 /\ calls[i + 1].asset = calls[i].list[calls[i].next - 1]
        BY <3>1, <4>1 DEF AddingInv, Linked
      <4> QED
        BY <1>10, <3>1, <3>2, <4>1, <4>2
    <3>3. CASE i = n
      <4>1. Top.next + 1 > 1 /\ (Top.next + 1) - 1 = Top.next
        BY <1>4
      <4> QED
        BY <1>7, <1>8, <1>9, <3>3, <4>1 DEF d
    <3> QED
      BY <3>2, <3>3
  <2> QED
    BY <1>9, <2>1 DEF Linked
<1>19. MovedSoFar'
  <2>1. Dep' = Dep
    BY <1>1 DEF Dep
  <2>2. ASSUME NEW i \in 1..(n + 1), calls'[i].moving = {}
        PROVE  Reduced(calls'[i].asset) \subseteq Dep[calls'[i].asset]
    <3>1. CASE i \in 1..n
      BY <1>10, <2>2, <3>1 DEF AddingInv, MovedSoFar
    <3>2. CASE i = n + 1
      BY <1>6, <1>8, <1>9, <2>2, <3>2
    <3> QED
      BY <1>11, <3>1, <3>2
  <2>3. ASSUME NEW i \in 1..(n + 1), calls'[i].moving = {},
               NEW j \in 1..Len(calls'[i].list), j < calls'[i].next,
               NEW x \in Dep[calls'[i].asset], x \in Under(calls'[i].list[j]),
               i + 1 = n + 1 /\ j = calls'[i].next - 1 => x \notin calls'[i + 1].moving
        PROVE  FALSE
    <3>1. i # n + 1
      BY <1>8, <1>9, <2>3
    <3>2. i \in 1..n /\ calls[i].moving = {} /\ x \in Dep[calls[i].asset]
          /\ j \in 1..Len(calls[i].list) /\ x \in Under(calls[i].list[j])
      BY <1>10, <1>11, <2>3, <3>1
    <3>3. CASE i # n
      <4>1. j < calls[i].next
        BY <1>10, <2>3, <3>2, <3>3
      <4>2. ~HasMoved(i, j, x)
        BY <3>2, <4>1 DEF AddingInv, MovedSoFar
      <4>3. i + 1 = n /\ x \in calls[i + 1].moving
        BY <3>2, <4>2 DEF HasMoved
      <4> QED
        BY <1>1, <1>2, <4>3
    <3>4. CASE i = n
      <4>1. CASE j < Top.next
        <5>1. ~HasMoved(n, j, x)
          BY <1>2, <3>2, <3>4, <4>1 DEF AddingInv, MovedSoFar
        <5>2. n + 1 # n
          BY <1>2
        <5> QED
          BY <3>2, <3>4, <5>1, <5>2 DEF HasMoved
      <4>2. CASE ~(j < Top.next)
        <5>1. j = Top.next /\ j = T.next - 1
          BY <1>2, <1>4, <1>7, <1>9, <2>3, <3>4, <4>2
        <5>2. x \in Under(d)
          BY <1>2, <3>2, <3>4, <5>1 DEF d
        <5>3. x \notin Under(d)
          BY <1>8, <1>9, <2>3, <3>4, <5>1
        <5> QED
          BY <5>2, <5>3
      <4> QED
        BY <4>1, <4>2
    <3> QED
      BY <3>3, <3>4
  <2> QED
    BY <1>3, <1>9, <2>1, <2>2, <2>3 DEF MovedSoFar, HasMoved
<1>20. AtRest'
  <2>1. ASSUME NEW b \in entries', \A i \in 1..(n + 1) : calls'[i].asset # b
        PROVE  Dep[b] = Reduced(b) /\ Under(b) \subseteq entries'
    <3>1. b \in entries
      BY <1>1, <1>2, <1>8, <1>9, <2>1
    <3>2. \A i \in 1..Len(calls) : calls[i].asset # b
      BY <1>2, <1>10, <2>1
    <3> QED
      BY <1>1, <3>1, <3>2 DEF AddingInv, AtRest
  <2> QED
    BY <1>1, <1>3, <1>9, <2>1 DEF AtRest, Dep
<1>21. Listed'
  <2>1. Added' = Added
    BY <1>1 DEF Added
  <2>2. calls'[1].asset = calls[1].asset /\ calls' # <<>>
    BY <1>2, <1>9, <1>10
  <2>3. d \in Under(calls[1].asset)
    <3>1. 1 \in 1..(n + 1) /\ n + 1 \in 1..(n + 1) /\ 1 < n + 1
      BY <1>2
    <3> QED
      BY <1>3, <1>8, <1>9, <1>14, <2>2, <3>1 DEF Descends
  <2> QED
    BY <1>1, <1>3, <2>1, <2>2, <2>3 DEF AddingInv, Listed
<1> QED
  BY <1>1, <1>12, <1>13, <1>14, <1>15, <1>16, <1>17, <1>18, <1>19, <1>20, <1>21 DEF AddingInv

LEMMA MovedByEffect ==
  ASSUME NEW by \in [Assets -> Nat], NEW from \in Assets, NEW to \in Assets, from # to
  PROVE  /\ MovedBy(by, from, to) \in [Assets -> Nat]
         /\ MovedBy(by, from, to)[to] = AtLeastOne(by[to])
         /\ MovedBy(by, from, to)[from] = OneLess(by[from])
         /\ \A c \in Assets : c # from /\ c # to => MovedBy(by, from, to)[c] = by[c]
<1>1. \A k \in Nat : AtLeastOne(k) \in Nat /\ OneLess(k) \in Nat
  BY DEF AtLeastOne, OneLess
<1> QED
  BY <1>1 DEF MovedBy

(* What the innermost asset leads to moves to it from the asset around it, which *)
(* listed it once.                                                            *)
LEMMA MoveKeeps ==
  ASSUME Typed, AddingInv, NEW x \in Assets, Move(x)
  PROVE  Typed' /\ AddingInv' /\ stage' = "adding"
<1> DEFINE n == Len(calls)
           d == Top.asset
           p == Caller.asset
           to == AddedOnce(dicDep[d], x)
           from == RemoveFirst(dicDep[p], x)
           T == [Top EXCEPT !.moving = @ \ {x}, !.list = dicDep'[d]]
<1>1. /\ stage = "adding" /\ calls # <<>> /\ stage' = stage /\ x \in Top.moving
      /\ refers' = refers /\ files' = files /\ listAsset' = listAsset /\ todo' = todo
      /\ entries' = entries /\ UNCHANGED bundles
      /\ dicDep' = [dicDep EXCEPT ![d] = AddedOnce(@, x), ![p] = RemoveFirst(@, x)]
      /\ dicDepBy' = [dicDepBy EXCEPT ![x] = MovedBy(@, p, d)]
      /\ calls' = Append(Front(calls), T)
  BY DEF Move, project, Goes
<1>2. /\ calls \in Seq(LineCall) /\ n \in Nat /\ n > 0 /\ Top = calls[n] /\ Top \in LineCall
      /\ \A i \in 1..n :
           /\ calls[i] \in LineCall /\ calls[i].asset \in Assets /\ calls[i].asset \in entries
           /\ calls[i].next \in Nat /\ calls[i].next > 0
           /\ calls[i].list \in Seq(Assets) /\ Len(calls[i].list) \in Nat
           /\ \A j \in 1..Len(calls[i].list) :
                calls[i].list[j] \in Assets /\ calls[i].list[j] \in ToSet(calls[i].list)
      /\ dicDep \in [Assets -> Seq(Assets)]
  BY <1>1, LineFrames
<1>3. \A b : Under(b)' = Under(b) /\ Reduced(b)' = Reduced(b)
  BY <1>1, SameUnder
<1>4. /\ n \in 1..n /\ n > 1 /\ n - 1 \in 1..n /\ n - 1 < n /\ (n - 1) + 1 = n
      /\ n - 1 \in 1..(n - 1) /\ n - 1 # n
      /\ Top.next = 1 /\ Top.list = dicDep[d]
  <2>1. n \in 1..n
    BY <1>2
  <2>2. n > 1 /\ Top.next = 1 /\ Top.list = dicDep[d]
    BY <1>1, <1>2, <2>1 DEF AddingInv, Moving
  <2> QED
    BY <1>2, <2>1, <2>2
<1>5. p = calls[n - 1].asset /\ p \in Assets /\ d \in Assets /\ d = calls[n].asset
  <2>1. Len(Front(calls)) = n - 1 /\ \A i \in 1..(n - 1) : Front(calls)[i] = calls[i]
    BY <1>1, <1>2, GoesEffect
  <2>2. Caller = calls[n - 1]
    BY <1>4, <2>1 DEF Caller, Last
  <2> QED
    BY <1>2, <1>4, <2>2
<1>6. /\ \A i \in 1..n : i # n => calls[i].moving = {} /\ calls[i].asset # d
                                  /\ d \in Under(calls[i].asset)
      /\ \A i \in 1..n : i # n /\ i # n - 1 => calls[i].asset # p
  <2>1. ASSUME NEW i \in 1..n, i # n
        PROVE  calls[i].moving = {} /\ calls[i].asset # d /\ d \in Under(calls[i].asset)
    <3>1. i < n
      BY <1>2, <2>1
    <3>2. d \in Under(calls[i].asset)
      BY <1>4, <1>5, <2>1, <3>1 DEF AddingInv, Descends
    <3>3. calls[i].asset \notin Under(calls[i].asset)
      BY <1>2, <2>1, UnderEffect
    <3> QED
      BY <2>1, <3>2, <3>3 DEF AddingInv, Moving
  <2>2. ASSUME NEW i \in 1..n, i # n, i # n - 1 PROVE calls[i].asset # p
    <3>1. i < n - 1
      BY <1>2, <2>2
    <3>2. p \in Under(calls[i].asset)
      BY <1>4, <1>5, <2>2, <3>1 DEF AddingInv, Descends
    <3> QED
      BY <1>2, <2>2, <3>2, UnderEffect
  <2> QED
    BY <2>1, <2>2
<1>7. p # d /\ d \in Under(p)
  BY <1>2, <1>4, <1>5, <1>6
<1>8. x \in Under(d) /\ x \in Under(p) /\ x \notin Reduced(p)
  <2>1. x \in Under(d)
    BY <1>1, <1>2, <1>4, <1>5 DEF AddingInv, LineLists, LineList
  <2>2. x \in Under(p)
    BY <1>5, <1>7, <2>1, UnderEffect
  <2> QED
    BY <1>7, <2>1, <2>2 DEF Reduced
<1>9. /\ dicDep[d] \in Seq(Assets) /\ dicDep[p] \in Seq(Assets)
      /\ dicDepBy \in [Assets -> [Assets -> Nat]] /\ DOMAIN dicDep = Assets
  BY <1>2, <1>5 DEF Typed
<1>10. /\ to \in Seq(Assets) /\ ToSet(to) = Dep[d] \cup {x} /\ from \in Seq(Assets)
       /\ \A y : /\ Times(to, y) = IF y = x THEN AtLeastOne(Times(dicDep[d], x)) ELSE Times(dicDep[d], y)
                 /\ Times(from, y) = IF y = x THEN OneLess(Times(dicDep[p], x)) ELSE Times(dicDep[p], y)
  <2>1. ToSet(dicDep[d]) = Dep[d]
    BY <1>5, UnderEffect
  <2>2. ASSUME NEW s \in Seq(Assets), NEW y
        PROVE  /\ AddedOnce(s, x) \in Seq(Assets) /\ ToSet(AddedOnce(s, x)) = ToSet(s) \cup {x}
               /\ Times(AddedOnce(s, x), y) = IF y = x THEN AtLeastOne(Times(s, x)) ELSE Times(s, y)
    BY TimesAddedOnce
  <2>3. ASSUME NEW s \in Seq(Assets), NEW y
        PROVE  /\ RemoveFirst(s, x) \in Seq(Assets)
               /\ Times(RemoveFirst(s, x), y) = IF y = x THEN OneLess(Times(s, x)) ELSE Times(s, y)
    BY TimesRemoveFirst
  <2> HIDE DEF d, p
  <2> QED
    BY ONLY <1>9, <2>1, <2>2, <2>3 DEF to, from
<1>11. /\ dicDep' \in [Assets -> Seq(Assets)] /\ dicDep'[d] = to /\ dicDep'[p] = from
       /\ \A b \in Assets : b # d /\ b # p => dicDep'[b] = dicDep[b]
  <2> HIDE DEF p, d
  <2> QED
    BY <1>1, <1>2, <1>5, <1>7, <1>10
<1> HIDE DEF to, from
<1>12. \A b \in Assets, y \in Assets :
          /\ Times(dicDep[b], y) \in Nat /\ Times(dicDep'[b], y) \in Nat
          /\ Times(dicDep'[b], y) =
               IF y = x /\ b = d THEN AtLeastOne(Times(dicDep[b], y))
               ELSE IF y = x /\ b = p THEN OneLess(Times(dicDep[b], y))
               ELSE Times(dicDep[b], y)
          /\ y \in Dep[b] <=> Times(dicDep[b], y) > 0
          /\ y \in Dep'[b] <=> Times(dicDep'[b], y) > 0
  <2>1. ASSUME NEW b \in Assets, NEW y \in Assets
        PROVE  /\ Times(dicDep[b], y) \in Nat /\ Times(dicDep'[b], y) \in Nat
               /\ y \in Dep[b] <=> Times(dicDep[b], y) > 0
               /\ y \in Dep'[b] <=> Times(dicDep'[b], y) > 0
    <3>1. dicDep[b] \in Seq(Assets) /\ dicDep'[b] \in Seq(Assets)
      BY <1>2, <1>11
    <3>2. Dep[b] = ToSet(dicDep[b]) /\ Dep'[b] = ToSet(dicDep'[b])
      BY <1>11, DepPrimed DEF Dep
    <3> QED
      BY <3>1, <3>2, TimesEffect
  <2>2. ASSUME NEW b \in Assets, NEW y \in Assets
        PROVE  Times(dicDep'[b], y) =
                 IF y = x /\ b = d THEN AtLeastOne(Times(dicDep[b], y))
                 ELSE IF y = x /\ b = p THEN OneLess(Times(dicDep[b], y))
                 ELSE Times(dicDep[b], y)
    <3>1. CASE b = d
      BY <1>7, <1>10, <1>11, <3>1
    <3>2. CASE b = p
      BY <1>7, <1>10, <1>11, <3>2
    <3>3. CASE b # d /\ b # p
      BY <1>11, <3>3
    <3> QED
      BY <3>1, <3>2, <3>3
  <2> QED
    BY <2>1, <2>2
<1>13. Times(dicDep[p], x) <= 1
  BY <1>5, <1>8 DEF AddingInv, ListedOnce
<1>14. /\ Dep'[d] = Dep[d] \cup {x} /\ Dep'[p] = Dep[p] \ {x}
       /\ \A b \in Assets : b # d /\ b # p => Dep'[b] = Dep[b]
  <2>1. \A b \in Assets : Dep'[b] = ToSet(dicDep'[b]) /\ Dep[b] = ToSet(dicDep[b])
    BY <1>11, DepPrimed, UnderEffect
  <2>2. Dep[p] \subseteq Assets /\ Dep'[p] \subseteq Assets
    BY <1>5, <1>9, <1>11, <2>1, ListInAssets, SMTT(30)
  <2>3. ASSUME NEW y \in Assets PROVE y \in Dep'[p] <=> y \in Dep[p] /\ y # x
    <3> HIDE DEF d, p
    <3>1. Times(dicDep'[p], x) = 0
      <4>1. Times(dicDep[p], x) \in Nat /\ Times(dicDep'[p], x) = OneLess(Times(dicDep[p], x))
        BY <1>5, <1>7, <1>12
      <4> QED
        BY <1>13, <4>1 DEF OneLess
    <3>2. x \notin Dep'[p]
      <4>1. x \in Dep'[p] <=> Times(dicDep'[p], x) > 0
        BY <1>5, <1>12
      <4> QED
        BY <3>1, <4>1
    <3>3. y # x => Times(dicDep'[p], y) = Times(dicDep[p], y)
      BY <1>5, <1>12
    <3> QED
      BY <1>5, <1>12, <3>2, <3>3
  <2> QED
    BY <1>5, <1>10, <1>11, <2>1, <2>2, <2>3
<1>15. T \in LineCall /\ T.asset = d /\ T.moving = Top.moving \ {x} /\ T.list = to /\ T.next = 1
  <2>1. T = [Top EXCEPT !.moving = @ \ {x}, !.list = to]
    BY <1>11
  <2>2. Top \in LineCall /\ to \in Seq(Assets) /\ Top.next = 1
    BY <1>2, <1>4, <1>10
  <2> QED
    BY ONLY <2>1, <2>2 DEF LineCall
<1> HIDE DEF T
<1>16. /\ calls' \in Seq(LineCall) /\ Len(calls') = n /\ calls' # <<>>
       /\ calls'[n] = T /\ \A i \in 1..n : i # n => calls'[i] = calls[i]
  <2>1. /\ calls' \in Seq(LineCall) /\ Len(calls') = n
        /\ calls'[n] = T /\ \A i \in 1..(n - 1) : calls'[i] = calls[i]
    BY <1>1, <1>2, <1>15, GoesEffect
  <2> QED
    BY <1>2, <2>1
<1>17. \A i \in 1..n : calls'[i].asset = calls[i].asset /\ calls'[i].next = calls[i].next
  BY <1>4, <1>5, <1>2, <1>15, <1>16
<1>18. Typed'
  <2>1. MovedBy(dicDepBy[x], p, d) \in [Assets -> Nat]
    BY <1>5, <1>7, <1>9, MovedByEffect
  <2>2. dicDepBy' \in [Assets -> [Assets -> Nat]]
    BY <1>1, <1>9, <2>1
  <2> QED
    BY <1>1, <1>11, <1>16, <2>2 DEF Typed, bundles
<1>19. DownOnly' /\ NoEntryNoList'
  <2>1. ASSUME NEW b \in Assets PROVE Dep'[b] \subseteq Under(b)
    <3>1. Dep[b] \subseteq Under(b)
      BY DEF AddingInv, DownOnly
    <3>2. Dep'[b] \subseteq Dep[b] \/ (b = d /\ Dep'[b] = Dep[d] \cup {x})
      BY <1>5, <1>14
    <3> QED
      BY <1>8, <3>1, <3>2
  <2>2. d \in entries /\ p \in entries
    BY <1>2, <1>4, <1>5
  <2> QED
    BY <1>1, <1>3, <1>11, <2>1, <2>2 DEF AddingInv, DownOnly, NoEntryNoList
<1>20. Descends' /\ CallsHaveLists'
  BY <1>1, <1>3, <1>16, <1>17 DEF AddingInv, Descends, CallsHaveLists
<1>21. Linked'
  <2>1. ASSUME NEW i \in 1..n, i < n
        PROVE  calls'[i].next > 1 /\ calls'[i + 1].asset = calls'[i].list[calls'[i].next - 1]
    <3>1. i + 1 \in 1..n /\ i # n
      BY <1>2, <2>1
    <3>2. calls[i].next > 1 /\ calls[i + 1].asset = calls[i].list[calls[i].next - 1]
      BY <2>1 DEF AddingInv, Linked
    <3> QED
      BY <1>16, <1>17, <3>1, <3>2
  <2> QED
    BY <1>16, <2>1 DEF Linked
<1>22. CountsAgree'
  <2>1. ASSUME NEW b \in Assets, NEW y \in Assets PROVE dicDepBy'[y][b] = Times(dicDep'[b], y)
    <3>1. dicDepBy[y][b] = Times(dicDep[b], y)
      BY DEF AddingInv, CountsAgree
    <3>2. CASE y = x
      <4>1. dicDepBy'[x] = MovedBy(dicDepBy[x], p, d)
        BY <1>1, <1>9
      <4>2. dicDepBy[x] \in [Assets -> Nat]
        BY <1>9
      <4>3. /\ MovedBy(dicDepBy[x], p, d)[d] = AtLeastOne(dicDepBy[x][d])
            /\ MovedBy(dicDepBy[x], p, d)[p] = OneLess(dicDepBy[x][p])
            /\ \A c \in Assets : c # p /\ c # d => MovedBy(dicDepBy[x], p, d)[c] = dicDepBy[x][c]
        <5>1. d \in Assets /\ p \in Assets /\ p # d
          BY <1>5, <1>7
        <5> HIDE DEF d, p
        <5> QED
          BY ONLY <4>2, <5>1, MovedByEffect
      <4> QED
        BY <1>7, <1>12, <3>1, <3>2, <4>1, <4>3
    <3>3. CASE y # x
      BY <1>1, <1>9, <1>12, <3>1, <3>3
    <3> QED
      BY <3>2, <3>3
  <2> QED
    BY <2>1 DEF CountsAgree
<1>23. ListedOnce'
  <2>1. ASSUME NEW b \in Assets, NEW y \in Assets, y \notin Reduced(b)
        PROVE  Times(dicDep'[b], y) <= 1
    <3>1. Times(dicDep[b], y) <= 1
      BY <2>1 DEF AddingInv, ListedOnce
    <3>2. \A k \in Nat : k <= 1 => AtLeastOne(k) <= 1 /\ OneLess(k) <= 1
      BY DEF AtLeastOne, OneLess
    <3> QED
      BY <1>12, <3>1, <3>2
  <2> QED
    BY <1>3, <2>1 DEF ListedOnce
<1>24. LineLists'
  <2>1. ASSUME NEW i \in 1..n
        PROVE  /\ calls'[i].moving \subseteq Under(calls'[i].asset)
               /\ Under(calls'[i].asset) \ calls'[i].moving \subseteq ToSet(calls'[i].list)
               /\ ToSet(calls'[i].list) \subseteq Under(calls'[i].asset)
               /\ calls'[i].next <= Len(calls'[i].list) + 1
               /\ \A j \in 1..Len(calls'[i].list) : j < calls'[i].next => calls'[i].list[j] \in entries'
    <3>1. LineList(calls[i])
      BY DEF AddingInv, LineLists
    <3>2. CASE i # n
      BY <1>1, <1>16, <3>1, <3>2 DEF LineList
    <3>3. CASE i = n
      <4>1. ToSet(Top.list) = Dep[d]
        BY <1>4, <1>5, UnderEffect
      <4>2. /\ Top.moving \subseteq Under(d) /\ Under(d) \ Top.moving \subseteq Dep[d]
            /\ Dep[d] \subseteq Under(d)
        BY <1>2, <3>1, <3>3, <4>1 DEF LineList
      <4>3. Len(to) \in Nat
        BY <1>10, LenProperties
      <4>4. 1 <= Len(to) + 1 /\ \A j \in 1..Len(to) : ~(j < 1)
        BY <4>3
      <4> QED
        BY <1>8, <1>10, <1>15, <1>16, <3>3, <4>2, <4>4
    <3> QED
      BY <3>2, <3>3
  <2> QED
    BY <1>3, <1>16, <2>1 DEF LineLists, LineList
<1>25. Moving'
  BY <1>4, <1>6, <1>11, <1>15, <1>16 DEF Moving
<1>26. MovedSoFar'
  <2>1. ASSUME NEW i \in 1..n, calls'[i].moving = {}
        PROVE  Reduced(calls'[i].asset) \subseteq Dep'[calls'[i].asset]
    <3>1. CASE i = n
      <4>1. Under(d) \subseteq ToSet(to)
        BY <1>3, <1>15, <1>16, <1>24, <2>1, <3>1 DEF LineLists, LineList
      <4>2. Reduced(d) \subseteq Under(d)
        BY <1>5, UnderEffect
      <4> QED
        BY <1>10, <1>14, <1>15, <1>16, <3>1, <4>1, <4>2
    <3>2. CASE i # n
      <4>1. Reduced(calls[i].asset) \subseteq Dep[calls[i].asset]
        BY <1>6, <3>2 DEF AddingInv, MovedSoFar
      <4>2. calls[i].asset # d /\ calls[i].asset \in Assets /\ calls'[i].asset = calls[i].asset
        BY <1>2, <1>6, <1>17, <3>2
      <4> QED
        BY <1>8, <1>14, <4>1, <4>2
    <3> QED
      BY <3>1, <3>2
  <2>2. ASSUME NEW i \in 1..n, calls'[i].moving = {},
               NEW j \in 1..Len(calls'[i].list), j < calls'[i].next,
               NEW y \in Dep'[calls'[i].asset], y \in Under(calls'[i].list[j]),
               i + 1 = n /\ j = calls'[i].next - 1 => y \notin calls'[i + 1].moving
        PROVE  FALSE
    <3>1. i # n
      BY <1>15, <1>16, <2>2
    <3>2. /\ calls'[i] = calls[i] /\ calls[i].moving = {} /\ calls[i].asset # d
          /\ calls[i].asset \in Assets
      BY <1>2, <1>6, <1>16, <3>1
    <3>3. y \in Dep[calls[i].asset] /\ (i = n - 1 => y # x)
      BY <1>5, <1>14, <2>2, <3>2
    <3>4. ~HasMoved(i, j, y)
      BY <2>2, <3>2, <3>3 DEF AddingInv, MovedSoFar
    <3>5. i + 1 = n /\ j = calls[i].next - 1 /\ y \in calls[i + 1].moving
      BY <2>2, <3>2, <3>4 DEF HasMoved
    <3>6. y # x
      BY <1>2, <3>3, <3>5
    <3>7. calls[n].moving = Top.moving /\ calls'[n].moving = Top.moving \ {x}
      BY <1>2, <1>15, <1>16
    <3> QED
      BY <2>2, <3>2, <3>5, <3>6, <3>7
  <2> QED
    BY <1>3, <1>16, <2>1, <2>2 DEF MovedSoFar, HasMoved
<1>27. AtRest'
  <2>1. ASSUME NEW b \in entries, \A i \in 1..n : calls'[i].asset # b
        PROVE  Dep'[b] = Reduced(b) /\ Under(b) \subseteq entries
    <3>1. \A i \in 1..Len(calls) : calls[i].asset # b
      BY <1>17, <2>1
    <3>2. b # d /\ b # p /\ b \in Assets
      BY <1>4, <1>5, <3>1 DEF Typed
    <3> QED
      BY <1>14, <3>1, <3>2 DEF AddingInv, AtRest
  <2> QED
    BY <1>1, <1>3, <1>16, <2>1 DEF AtRest
<1>28. Listed' /\ NoBundles'
  <2>1. Added' = Added
    BY <1>1 DEF Added
  <2>2. calls'[1].asset = calls[1].asset
    BY <1>2, <1>17
  <2> QED
    BY <1>1, <1>3, <1>16, <2>1, <2>2 DEF AddingInv, Listed, NoBundles, bundles
<1> QED
  BY <1>1, <1>18, <1>19, <1>20, <1>21, <1>22, <1>23, <1>24, <1>25, <1>26, <1>27, <1>28 DEF AddingInv

(* At the end of the list the asset is left with the reduction.                *)
LEMMA LineEndsKeeps ==
  ASSUME Typed, AddingInv, LineEnds
  PROVE  Typed' /\ AddingInv' /\ stage' = "adding"
<1> DEFINE n == Len(calls)
           a == Top.asset
<1>1. /\ stage = "adding" /\ calls # <<>> /\ stage' = stage
      /\ Top.moving = {} /\ Top.next > Len(Top.list)
      /\ refers' = refers /\ files' = files /\ todo' = todo
      /\ entries' = entries /\ dicDep' = dicDep /\ dicDepBy' = dicDepBy /\ UNCHANGED bundles
      /\ calls' = Front(calls)
      /\ listAsset' = IF n = 1 THEN Append(listAsset, a) ELSE listAsset
  BY DEF LineEnds, project, tables
<1>2. /\ calls \in Seq(LineCall) /\ n \in Nat /\ n > 0 /\ Top = calls[n] /\ Top \in LineCall
      /\ \A i \in 1..n :
           /\ calls[i] \in LineCall /\ calls[i].asset \in Assets /\ calls[i].asset \in entries
           /\ calls[i].next \in Nat /\ calls[i].next > 0
           /\ calls[i].list \in Seq(Assets) /\ Len(calls[i].list) \in Nat
           /\ \A j \in 1..Len(calls[i].list) :
                calls[i].list[j] \in Assets /\ calls[i].list[j] \in ToSet(calls[i].list)
  BY <1>1, LineFrames
<1>3. /\ \A b : Under(b)' = Under(b) /\ Reduced(b)' = Reduced(b)
      /\ Dep' = Dep
  BY <1>1, SameUnder DEF Dep
<1>4. /\ n \in 1..n /\ n + 1 # n /\ n - 1 \in Nat /\ \A i \in 1..(n - 1) : i \in 1..n /\ i # n
      /\ a \in Assets /\ a \in entries
  BY <1>2
<1>5. Dep[a] = Reduced(a) /\ Under(a) \subseteq entries
  <2>1. LineList(Top)
    BY <1>2, <1>4 DEF AddingInv, LineLists
  <2>2. \A y \in Under(a) : \E j \in 1..Len(Top.list) : Top.list[j] = y
    <3>1. \A y \in Under(a) : y \in ToSet(Top.list)
      BY <1>1, <2>1 DEF LineList
    <3>2. Top.list \in Seq(Assets)
      BY <1>2 DEF LineCall
    <3> QED
      BY <3>1 DEF ToSet
  <2>3. \A j \in 1..Len(Top.list) : j < Top.next
    BY <1>1, <1>2, <1>4, SMTT(30)
  <2>4. ASSUME NEW y \in Dep[a], NEW q \in Under(a), y \in Under(q) PROVE FALSE
    <3>1. PICK j \in 1..Len(Top.list) : Top.list[j] = q
      BY <2>2
    <3>2. ~HasMoved(n, j, y)
      BY <1>1, <1>2, <1>4, <2>3, <3>1 DEF AddingInv, MovedSoFar
    <3> QED
      BY <1>2, <1>4, <2>4, <3>1, <3>2 DEF HasMoved
  <2>5. Reduced(a) \subseteq Dep[a]
    BY <1>1, <1>2, <1>4 DEF AddingInv, MovedSoFar
  <2>6. Dep[a] \subseteq Under(a)
    BY <1>4 DEF AddingInv, DownOnly
  <2>7. Under(a) \subseteq entries
    BY <2>1, <2>2, <2>3 DEF LineList
  <2> QED
    BY <2>4, <2>5, <2>6, <2>7 DEF Reduced
<1>6. /\ calls' \in Seq(LineCall) /\ Len(calls') = n - 1
      /\ \A i \in 1..(n - 1) : calls'[i] = calls[i]
      /\ n # 1 => calls' # <<>> /\ 1 \in 1..(n - 1)
  <2>1. /\ calls' \in Seq(LineCall) /\ Len(calls') = n - 1
        /\ \A i \in 1..(n - 1) : calls'[i] = calls[i]
    BY <1>1, <1>2, GoesEffect
  <2> QED
    <3>1. n \in Nat /\ n > 0
      BY <1>2
    <3> HIDE DEF n
    <3>2. ASSUME n # 1 PROVE Len(calls') # 0 /\ 1 \in 1..(n - 1)
      BY <2>1, <3>1, <3>2
    <3>3. Len(<<>>) = 0
      OBVIOUS
    <3> QED
      BY <2>1, <3>2, <3>3
<1>7. /\ listAsset' \in Seq(Assets)
      /\ ToSet(listAsset') = ToSet(listAsset) \cup (IF n = 1 THEN {a} ELSE {})
  <2>1. listAsset \in Seq(Assets)
    BY DEF Typed
  <2>2. Append(listAsset, a) = listAsset \o <<a>>
    BY <1>4, <2>1, AppendIsConcat
  <2>3. listAsset \o <<a>> \in Seq(Assets) /\ ToSet(listAsset \o <<a>>) = ToSet(listAsset) \cup {a}
    BY <1>4, <2>1, TimesExtended
  <2> QED
    BY <1>1, <2>1, <2>2, <2>3
<1>8. Typed'
  BY <1>1, <1>6, <1>7 DEF Typed, bundles
<1>9. DownOnly' /\ NoEntryNoList' /\ CountsAgree' /\ ListedOnce' /\ NoBundles'
  BY <1>1, <1>3
  DEF AddingInv, DownOnly, NoEntryNoList, CountsAgree, ListedOnce, NoBundles, bundles
<1>10. Descends' /\ CallsHaveLists'
  BY <1>1, <1>3, <1>4, <1>6 DEF AddingInv, Descends, CallsHaveLists
<1>11. LineLists'
  BY <1>1, <1>3, <1>4, <1>6 DEF AddingInv, LineLists, LineList
<1>12. Moving'
  BY <1>4, <1>6 DEF AddingInv, Moving
<1>13. Linked'
  <2>1. ASSUME NEW i \in 1..(n - 1), i < n - 1
        PROVE  calls'[i].next > 1 /\ calls'[i + 1].asset = calls'[i].list[calls'[i].next - 1]
    <3>1. i \in 1..n /\ i < n /\ i + 1 \in 1..(n - 1)
      BY <1>2, <2>1
    <3> QED
      BY <1>6, <3>1 DEF AddingInv, Linked
  <2> QED
    BY <1>6, <2>1 DEF Linked
<1>14. MovedSoFar'
  <2>1. ASSUME NEW i \in 1..(n - 1), calls[i].moving = {}
        PROVE  /\ Reduced(calls[i].asset) \subseteq Dep[calls[i].asset]
               /\ \A j \in 1..Len(calls[i].list) : j < calls[i].next =>
                    \A y \in Dep[calls[i].asset] : y \notin Under(calls[i].list[j])
    <3>1. ASSUME NEW j \in 1..Len(calls[i].list), j < calls[i].next,
                 NEW y \in Dep[calls[i].asset], y \in Under(calls[i].list[j])
          PROVE  FALSE
      <4>1. ~HasMoved(i, j, y)
        BY <1>4, <2>1, <3>1 DEF AddingInv, MovedSoFar
      <4>2. i + 1 = n => calls[i + 1].moving = {}
        BY <1>1, <1>2
      <4> QED
        BY <3>1, <4>1, <4>2 DEF HasMoved
    <3> QED
      BY <1>4, <2>1, <3>1 DEF AddingInv, MovedSoFar
  <2> QED
    BY <1>3, <1>6, <2>1 DEF MovedSoFar, HasMoved
<1>15. AtRest'
  <2>1. ASSUME NEW b \in entries, \A i \in 1..(n - 1) : calls[i].asset # b
        PROVE  Dep[b] = Reduced(b) /\ Under(b) \subseteq entries
    <3>1. CASE b = a
      BY <1>5, <3>1
    <3>2. CASE b # a
      <4>1. \A i \in 1..n : i \in 1..(n - 1) \/ i = n
        BY <1>2
      <4>2. \A i \in 1..Len(calls) : calls[i].asset # b
        BY <1>2, <2>1, <3>2, <4>1
      <4> QED
        BY <4>2 DEF AddingInv, AtRest
    <3> QED
      BY <3>1, <3>2
  <2> QED
    BY <1>1, <1>3, <1>6, <2>1 DEF AtRest
<1>16. Listed'
  <2>1. CASE n = 1
    <3>1. calls' = <<>> /\ a = calls[1].asset
      BY <1>2, <1>6, <2>1, EmptySeq
    <3>2. Added \cup {a} \cup Under(a) \subseteq Added'
      <4>1. Under(a) \subseteq UNION {Under(b) : b \in ToSet(listAsset')}
        BY <1>7, <2>1
      <4> QED
        BY <1>1, <1>7, <2>1, <4>1 DEF Added, Under
    <3> QED
      BY <1>1, <1>4, <1>7, <2>1, <3>1, <3>2 DEF AddingInv, Listed
  <2>2. CASE n # 1
    <3>1. Added' = Added /\ listAsset' = listAsset
      BY <1>1, <2>2 DEF Added
    <3>2. calls'[1] = calls[1] /\ calls' # <<>>
      BY <1>6, <2>2
    <3> QED
      BY <1>1, <1>3, <3>1, <3>2 DEF AddingInv, Listed
  <2> QED
    BY <2>1, <2>2
<1> QED
  BY <1>1, <1>8, <1>9, <1>10, <1>11, <1>12, <1>13, <1>14, <1>15, <1>16 DEF AddingInv

-----------------------------------------------------------------------------
(* Once all files are added, all that is listed has a list and what is left     *)
(* leads to the same assets.                                                  *)
LEMMA MergeDependenciesKeeps ==
  ASSUME Typed, AddingInv, MergeDependencies
  PROVE  Typed' /\ MergingInv' /\ stage' = "merging"
<1>1. /\ stage = "adding" /\ calls = <<>> /\ Len(calls) = 0 /\ ToSet(listAsset) = files
      /\ stage' = "merging" /\ todo' = listAsset /\ calls' = calls
      /\ refers' = refers /\ files' = files /\ entries' = entries /\ dicDep' = dicDep
      /\ dicDepBy' = dicDepBy /\ listAsset' = listAsset /\ UNCHANGED bundles
  BY DEF MergeDependencies, project, tables
<1>2. /\ \A b : Under(b)' = Under(b) /\ Reduced(b)' = Reduced(b)
      /\ Dep' = Dep /\ Added' = Added
  BY <1>1, SameUnder DEF Dep, Added
<1>3. Typed'
  <2>1. calls' \in Seq(MergeCall)
    BY <1>1
  <2> QED
    BY <1>1, <2>1 DEF Typed, bundles
<1>4. \A a \in entries : a \in Assets /\ Dep[a] = Reduced(a) /\ Under(a) \subseteq entries
  BY <1>1 DEF AddingInv, AtRest, Typed
<1>5. \A a \in Assets : Dep[a] \subseteq entries
  <2>1. ASSUME NEW a \in Assets, a \in entries PROVE Dep[a] \subseteq entries
    BY <1>4, <2>1, UnderEffect
  <2>2. ASSUME NEW a \in Assets, a \notin entries PROVE Dep[a] = {}
    BY <2>2, UnderEffect, EmptyList DEF AddingInv, NoEntryNoList
  <2> QED
    BY <2>1, <2>2
<1>6. DownOnly' /\ NoEntryNoList' /\ NoBundles'
  BY <1>1, <1>2 DEF AddingInv, DownOnly, NoEntryNoList, NoBundles, bundles
<1>7. Descends' /\ CallsHaveLists'
  BY <1>1 DEF Descends, CallsHaveLists
<1>8. Added \subseteq entries
  BY <1>1, <1>4 DEF AddingInv, Listed, Added, Under
<1>9. FilesStay' /\ ToSet(todo)' \subseteq files'
  BY <1>1, <1>2 DEF AddingInv, Listed, FilesStay
<1>10. DependentsKnown'
  <2>1. ASSUME NEW x \in Assets, NEW a \in Assets
        PROVE  /\ dicDepBy[x][a] > 0 <=> x \in Dep[a]
               /\ dicDepBy[x][a] <= Times(dicDep[a], x)
    <3>1. dicDepBy[x][a] = Times(dicDep[a], x)
      BY DEF AddingInv, CountsAgree
    <3>2. dicDep[a] \in Seq(Assets) /\ Dep[a] = ToSet(dicDep[a])
      BY UnderEffect
    <3> QED
      BY <3>1, <3>2, TimesEffect
  <2>2. entries \subseteq Assets
    BY DEF Typed
  <2> QED
    BY <1>1, <1>2, <2>1, <2>2 DEF DependentsKnown
<1>11. LeftOvers'
  <2>1. ASSUME NEW a \in Assets, NEW k \in 1..Len(dicDep[a]) PROVE dicDep[a][k] \in entries
    <3>1. dicDep[a] \in Seq(Assets) /\ Dep[a] = ToSet(dicDep[a])
      BY UnderEffect
    <3>2. dicDep[a][k] \in Dep[a]
      BY <2>1, <3>1, TimesEffect
    <3> QED
      BY <1>5, <3>2
  <2> QED
    BY <1>1, <2>1 DEF LeftOvers
<1>12. Kept'
  <2>1. \A a \in entries : Dep[a] = ReducedIn(refers, a) /\ Below(refers, a) \subseteq entries
    BY <1>4, UnderEffect DEF Under
  <2>2. \A a \in entries : Below(refers, a) \subseteq Below(Dep, a)
    <3>1. IsGraph(refers) /\ HasNoCycle(refers) /\ IsGraph(Dep) /\ entries \in SUBSET Assets
      BY UnderEffect DEF Typed
    <3> QED
      BY <2>1, <3>1, ReductionReaches
  <2> QED
    BY <1>1, <1>2, <2>2 DEF Kept, Under
<1>13. PackedApart'
  BY <1>1, <1>2, <1>8 DEF PackedApart
<1> QED
  BY <1>1, <1>3, <1>6, <1>7, <1>9, <1>10, <1>11, <1>12, <1>13 DEF MergingInv

-----------------------------------------------------------------------------
LEMMA MergeFrames ==
  ASSUME Typed, MergingInv, stage = "merging", calls # <<>>
  PROVE  /\ calls \in Seq(MergeCall) /\ Len(calls) \in Nat /\ Len(calls) > 0
         /\ Len(calls) \in 1..Len(calls)
         /\ Top = calls[Len(calls)] /\ Top \in MergeCall
         /\ Top.asset \in entries /\ Top.asset \in Assets /\ Top.next \in Nat /\ Top.next > 0
         /\ \A i \in 1..Len(calls) :
              /\ calls[i] \in MergeCall /\ calls[i].asset \in Assets /\ calls[i].asset \in entries
              /\ calls[i].next \in Nat /\ calls[i].next > 0
<1>1. calls \in Seq(MergeCall)
  BY DEF Typed
<1>2. Len(calls) \in Nat /\ Len(calls) > 0 /\ \A i \in 1..Len(calls) : calls[i] \in MergeCall
  BY <1>1, LenProperties, EmptySeq, ElementOfSeq
<1>3. Len(calls) \in 1..Len(calls)
  BY <1>2
<1>4. Top = calls[Len(calls)] /\ Top \in MergeCall
  BY <1>2, <1>3 DEF Top, Last
<1>5. \A c \in MergeCall : c.asset \in Assets /\ c.next \in Nat
  BY DEF MergeCall
<1>6. \A i \in 1..Len(calls) : calls[i].asset \in entries /\ calls[i].next > 0
  BY DEF MergingInv, CallsHaveLists
<1> QED
  BY <1>1, <1>2, <1>3, <1>4, <1>5, <1>6

LEMMA MergeFileKeeps ==
  ASSUME Typed, MergingInv, MergeFile
  PROVE  Typed' /\ MergingInv' /\ stage' = "merging"
<1> DEFINE c == [asset |-> Head(todo), next |-> 1]
<1>1. /\ stage = "merging" /\ calls = <<>> /\ Len(calls) = 0 /\ todo # <<>>
      /\ stage' = stage /\ calls' = <<c>> /\ todo' = Tail(todo)
      /\ refers' = refers /\ files' = files /\ entries' = entries /\ dicDep' = dicDep
      /\ dicDepBy' = dicDepBy /\ listAsset' = listAsset /\ UNCHANGED bundles
  BY DEF MergeFile, project, tables
<1>2. (\A b : Under(b)' = Under(b)) /\ Dep' = Dep /\ Added' = Added
  BY <1>1, SameUnder DEF Dep, Added
<1>3. /\ todo \in Seq(Assets) /\ Tail(todo) \in Seq(Assets)
      /\ Head(todo) \in ToSet(todo) /\ ToSet(Tail(todo)) \subseteq ToSet(todo)
  BY <1>1, HeadAndTail DEF Typed
<1>4. Head(todo) \in entries /\ Head(todo) \in Assets
  BY <1>3 DEF MergingInv, FilesStay, Typed
<1>5. c \in MergeCall /\ c.asset = Head(todo) /\ c.next = 1
  BY <1>4 DEF MergeCall
<1> HIDE DEF c
<1>6. calls' \in Seq(MergeCall) /\ Len(calls') = 1 /\ calls'[1] = c
  BY <1>1, <1>5
<1>7. Typed'
  BY <1>1, <1>3, <1>6 DEF Typed, bundles
<1>8. DownOnly' /\ NoEntryNoList' /\ NoBundles'
  BY <1>1, <1>2 DEF MergingInv, DownOnly, NoEntryNoList, NoBundles, bundles
<1>9. FilesStay' /\ DependentsKnown' /\ ToSet(todo)' \subseteq files'
  BY <1>1, <1>2, <1>3 DEF MergingInv, FilesStay, DependentsKnown
<1>10. Descends' /\ CallsHaveLists'
  BY <1>1, <1>4, <1>5, <1>6 DEF Descends, CallsHaveLists
<1>11. LeftOvers'
  <2>1. \A a \in Assets : \A k \in 1..Len(dicDep[a]) : dicDep[a][k] \in entries
    BY <1>1 DEF MergingInv, LeftOvers
  <2> QED
    BY <1>1, <2>1 DEF LeftOvers
<1>12. Kept' /\ PackedApart'
  BY <1>1, <1>2 DEF MergingInv, Kept, PackedApart, Owned
<1> QED
  BY <1>1, <1>7, <1>8, <1>9, <1>10, <1>11, <1>12 DEF MergingInv

LEMMA MergeEndsKeeps ==
  ASSUME Typed, MergingInv, MergeEnds
  PROVE  Typed' /\ MergingInv' /\ stage' = "merging"
<1> DEFINE n == Len(calls)
<1>1. /\ stage = "merging" /\ calls # <<>> /\ Top.next > Len(dicDep[Top.asset])
      /\ stage' = stage /\ calls' = Front(calls) /\ todo' = todo
      /\ refers' = refers /\ files' = files /\ entries' = entries /\ dicDep' = dicDep
      /\ dicDepBy' = dicDepBy /\ listAsset' = listAsset /\ UNCHANGED bundles
  BY DEF MergeEnds, project, tables
<1>2. (\A b : Under(b)' = Under(b)) /\ Dep' = Dep /\ Added' = Added
  BY <1>1, SameUnder DEF Dep, Added
<1>3. /\ calls \in Seq(MergeCall) /\ n \in Nat /\ n > 0 /\ Top = calls[n] /\ Top \in MergeCall
      /\ Top.next \in Nat
  BY <1>1, MergeFrames
<1>4. /\ calls' \in Seq(MergeCall) /\ Len(calls') = n - 1
      /\ \A i \in 1..(n - 1) : calls'[i] = calls[i] /\ i \in 1..n
  BY <1>1, <1>3, GoesEffect
<1>5. Typed'
  BY <1>1, <1>4 DEF Typed, bundles
<1>6. DownOnly' /\ NoEntryNoList' /\ NoBundles'
  BY <1>1, <1>2 DEF MergingInv, DownOnly, NoEntryNoList, NoBundles, bundles
<1>7. FilesStay' /\ DependentsKnown' /\ ToSet(todo)' \subseteq files'
  BY <1>1, <1>2 DEF MergingInv, FilesStay, DependentsKnown
<1>8. Descends' /\ CallsHaveLists'
  BY <1>1, <1>2, <1>4 DEF MergingInv, Descends, CallsHaveLists
<1>9. LeftOvers'
  <2>1. ASSUME NEW a \in Assets, NEW k \in 1..Len(dicDep[a]), dicDep[a][k] \notin entries
        PROVE  /\ dicDepBy[dicDep[a][k]] = Only(a)
               /\ \E i \in 1..(n - 1) : calls'[i].asset = a /\ calls'[i].next <= k
    <3>1. dicDepBy[dicDep[a][k]] = Only(a)
      BY <2>1 DEF MergingInv, LeftOvers
    <3>2. PICK i \in 1..n : calls[i].asset = a /\ calls[i].next <= k
      BY <2>1 DEF MergingInv, LeftOvers
    <3>3. i # n
      <4>1. Len(dicDep[a]) \in Nat
        BY UnderEffect
      <4>2. ~(Top.next <= k) \/ Top.asset # a
        BY <1>1, <1>3, <4>1
      <4> QED
        BY <1>3, <3>2, <4>2
    <3>4. i \in 1..(n - 1)
      BY <1>3, <3>3
    <3> QED
      BY <1>4, <3>1, <3>2, <3>4
  <2> QED
    BY <1>1, <1>4, <2>1 DEF LeftOvers
<1>10. Kept' /\ PackedApart'
  BY <1>1, <1>2 DEF MergingInv, Kept, PackedApart, Owned
<1> QED
  BY <1>1, <1>5, <1>6, <1>7, <1>8, <1>9, <1>10 DEF MergingInv

(* An asset that stays has a list: nothing else is looked up.                   *)
LEMMA KeepOneKeeps ==
  ASSUME Typed, MergingInv, NEW d \in Assets, KeepOne(d)
  PROVE  Typed' /\ MergingInv' /\ stage' = "merging"
<1> DEFINE n == Len(calls)
           a == Top.asset
           T == [Top EXCEPT !.next = @ + 1]
           C == [asset |-> d, next |-> 1]
<1>1. /\ stage = "merging" /\ calls # <<>> /\ Top.next <= Len(dicDep[a]) /\ d = dicDep[a][Top.next]
      /\ ~OnlyOneNeeds(d) /\ stage' = (IF d \in entries THEN stage ELSE "failed")
      /\ calls' = Append(Append(Front(calls), T), C) /\ todo' = todo
      /\ refers' = refers /\ files' = files /\ entries' = entries /\ dicDep' = dicDep
      /\ dicDepBy' = dicDepBy /\ listAsset' = listAsset /\ UNCHANGED bundles
  BY DEF KeepOne, MergesAt, project, tables, Goes
<1>2. (\A b : Under(b)' = Under(b)) /\ Dep' = Dep /\ Added' = Added
  BY <1>1, SameUnder DEF Dep, Added
<1>3. /\ calls \in Seq(MergeCall) /\ n \in Nat /\ n > 0 /\ n \in 1..n
      /\ Top = calls[n] /\ Top \in MergeCall
      /\ a \in entries /\ a \in Assets /\ Top.next \in Nat /\ Top.next > 0
      /\ \A i \in 1..n :
           /\ calls[i] \in MergeCall /\ calls[i].asset \in Assets /\ calls[i].asset \in entries
           /\ calls[i].next \in Nat /\ calls[i].next > 0
  BY <1>1, MergeFrames
<1>4. /\ Top.next \in 1..Len(dicDep[a]) /\ d \in Under(a)
      /\ dicDep[a] \in Seq(Assets) /\ Dep[a] = ToSet(dicDep[a]) /\ Len(dicDep[a]) \in Nat
  <2>1. dicDep[a] \in Seq(Assets) /\ Dep[a] = ToSet(dicDep[a]) /\ Len(dicDep[a]) \in Nat
    BY <1>3, UnderEffect
  <2>2. Top.next \in 1..Len(dicDep[a])
    BY <1>1, <1>3, <2>1
  <2>3. d \in Dep[a]
    BY <1>1, <2>1, <2>2, TimesEffect
  <2> QED
    BY <1>3, <2>1, <2>2, <2>3 DEF MergingInv, DownOnly
<1>5. d \in entries
  <2>1. SUFFICES ASSUME d \notin entries PROVE FALSE
    OBVIOUS
  <2>2. dicDepBy[d] = Only(a)
    BY <1>1, <1>3, <1>4, <2>1 DEF MergingInv, LeftOvers
  <2>3. d \notin files
    BY <2>1 DEF MergingInv, FilesStay
  <2> QED
    BY <1>1, <1>3, <2>2, <2>3 DEF OnlyOneNeeds
<1>6. /\ T \in MergeCall /\ T.asset = a /\ T.next = Top.next + 1
      /\ C \in MergeCall /\ C.asset = d /\ C.next = 1
  <2>1. Top \in MergeCall
    BY <1>3
  <2> QED
    BY ONLY <2>1, d \in Assets DEF MergeCall
<1> HIDE DEF T, C
<1>7. /\ calls' \in Seq(MergeCall) /\ Len(calls') = n + 1
      /\ calls'[n] = T /\ calls'[n + 1] = C
      /\ \A i \in 1..n : i # n => calls'[i] = calls[i]
  <2> DEFINE f == Append(Front(calls), T)
  <2>1. f \in Seq(MergeCall) /\ Len(f) = n /\ f[n] = T /\ \A i \in 1..(n - 1) : f[i] = calls[i]
    BY <1>1, <1>3, <1>6, GoesEffect
  <2> HIDE DEF f
  <2>2. /\ Append(f, C) \in Seq(MergeCall) /\ Len(Append(f, C)) = n + 1 /\ Append(f, C)[n + 1] = C
        /\ \A i \in 1..n : Append(f, C)[i] = f[i]
    BY <1>6, <2>1, AppendProperties
  <2>3. calls' = Append(f, C)
    BY <1>1 DEF f
  <2> QED
    BY <1>3, <2>1, <2>2, <2>3
<1>8. \A i \in 1..n : /\ calls'[i].asset = calls[i].asset
                      /\ calls'[i].next = IF i = n THEN calls[i].next + 1 ELSE calls[i].next
  BY <1>3, <1>6, <1>7
<1>9. \A i \in 1..(n + 1) : i \in 1..n \/ i = n + 1
  BY <1>3
<1>10. Typed' /\ stage' = "merging"
  BY <1>1, <1>5, <1>7 DEF Typed, bundles
<1>11. DownOnly' /\ NoEntryNoList' /\ NoBundles'
  BY <1>1, <1>2 DEF MergingInv, DownOnly, NoEntryNoList, NoBundles, bundles
<1>12. FilesStay' /\ DependentsKnown' /\ ToSet(todo)' \subseteq files'
  BY <1>1, <1>2 DEF MergingInv, FilesStay, DependentsKnown
<1> HIDE DEF a
<1>13. Descends'
  <2>1. ASSUME NEW i \in 1..(n + 1), NEW j \in 1..(n + 1), i < j
        PROVE  calls'[j].asset \in Under(calls'[i].asset)
    <3>1. i \in 1..n /\ calls'[i].asset = calls[i].asset
      BY <1>3, <1>8, <2>1
    <3>2. CASE j \in 1..n
      BY <1>8, <2>1, <3>1, <3>2 DEF MergingInv, Descends
    <3>3. CASE j = n + 1
      <4>1. CASE i = n
        BY <1>3, <1>4, <1>6, <1>7, <3>1, <3>3, <4>1 DEF a
      <4>2. CASE i # n
        <5>1. calls[n].asset \in Under(calls[i].asset)
          BY <1>3, <3>1, <4>2 DEF MergingInv, Descends
        <5>2. Under(calls[n].asset) \subseteq Under(calls[i].asset)
          BY <1>3, <3>1, <5>1, UnderEffect
        <5> QED
          BY <1>3, <1>4, <1>6, <1>7, <3>1, <3>3, <5>2 DEF a
      <4> QED
        BY <4>1, <4>2
    <3> QED
      BY <1>9, <3>2, <3>3
  <2> QED
    BY <1>2, <1>7, <2>1 DEF Descends
<1>14. CallsHaveLists'
  <2>1. ASSUME NEW i \in 1..(n + 1) PROVE calls'[i].asset \in entries' /\ calls'[i].next > 0
    <3>1. CASE i \in 1..n
      <4>1. calls[i].next + 1 > 0
        BY <1>3, <3>1
      <4> QED
        BY <1>1, <1>3, <1>8, <3>1, <4>1
    <3>2. CASE i = n + 1
      BY <1>1, <1>5, <1>6, <1>7, <3>2
    <3> QED
      BY <1>9, <3>1, <3>2
  <2> QED
    BY <1>7, <2>1 DEF CallsHaveLists
<1>15. LeftOvers'
  <2>1. ASSUME NEW b \in Assets, NEW k \in 1..Len(dicDep[b]), dicDep[b][k] \notin entries
        PROVE  /\ dicDepBy[dicDep[b][k]] = Only(b)
               /\ \E i \in 1..(n + 1) : calls'[i].asset = b /\ calls'[i].next <= k
    <3>1. dicDepBy[dicDep[b][k]] = Only(b)
      BY <2>1 DEF MergingInv, LeftOvers
    <3>2. PICK i \in 1..n : calls[i].asset = b /\ calls[i].next <= k
      BY <2>1 DEF MergingInv, LeftOvers
    <3>3. i \in 1..(n + 1) /\ calls[i].next \in Nat /\ k \in Nat
      BY <1>3
    <3>4. i = n => k # calls[i].next
      BY <1>1, <1>3, <1>5, <2>1, <3>2 DEF a
    <3>5. calls'[i].next <= k
      BY <1>8, <3>2, <3>3, <3>4
    <3> QED
      BY <1>8, <3>1, <3>2, <3>3, <3>5
  <2> QED
    BY <1>1, <1>7, <2>1 DEF LeftOvers
<1>16. Kept' /\ PackedApart'
  BY <1>1, <1>2 DEF MergingInv, Kept, PackedApart, Owned
<1> QED
  BY <1>10, <1>11, <1>12, <1>13, <1>14, <1>15, <1>16 DEF MergingInv

LEMMA MergesAtEffect ==
  ASSUME Typed, MergingInv, NEW d \in Assets, MergesAt(d)
  PROVE  LET a == Top.asset
             k == Top.next
             n == Len(calls)
         IN /\ stage = "merging" /\ calls # <<>> /\ calls \in Seq(MergeCall)
            /\ n \in Nat /\ n > 0 /\ n \in 1..n /\ Top = calls[n] /\ Top \in MergeCall
            /\ a \in entries /\ a \in Assets /\ k \in Nat /\ k > 0
            /\ k \in 1..Len(dicDep[a]) /\ dicDep[a][k] = d /\ d \in Dep[a] /\ d \in Under(a) /\ a # d
            /\ dicDep[a] \in Seq(Assets) /\ Dep[a] = ToSet(dicDep[a]) /\ Len(dicDep[a]) \in Nat
            /\ \A i \in 1..n :
                 /\ calls[i] \in MergeCall /\ calls[i].asset \in entries /\ calls[i].asset \in Assets
                 /\ calls[i].next \in Nat
                 /\ calls[i].asset # d
<1> DEFINE n == Len(calls)
           a == Top.asset
           k == Top.next
<1>1. /\ stage = "merging" /\ calls # <<>> /\ Top.next <= Len(dicDep[a]) /\ d = dicDep[a][Top.next]
  BY DEF MergesAt
<1>2. /\ calls \in Seq(MergeCall) /\ n \in Nat /\ n > 0 /\ n \in 1..n
      /\ Top = calls[n] /\ Top \in MergeCall
      /\ a \in entries /\ a \in Assets /\ k \in Nat /\ k > 0
      /\ \A i \in 1..n :
           /\ calls[i] \in MergeCall /\ calls[i].asset \in Assets /\ calls[i].asset \in entries
           /\ calls[i].next \in Nat /\ calls[i].next > 0
  BY <1>1, MergeFrames
<1>3. dicDep[a] \in Seq(Assets) /\ Dep[a] = ToSet(dicDep[a]) /\ Len(dicDep[a]) \in Nat
  BY <1>2, UnderEffect
<1>4. k \in 1..Len(dicDep[a])
  BY <1>1, <1>2, <1>3
<1>5. d \in Dep[a]
  BY <1>1, <1>3, <1>4, TimesEffect
<1>6. d \in Under(a) /\ a # d
  BY <1>2, <1>5, UnderEffect DEF MergingInv, DownOnly
<1>7. ASSUME NEW i \in 1..n PROVE calls[i].asset # d
  <2>1. CASE i = n
    BY <1>2, <1>6, <2>1
  <2>2. CASE i # n
    <3>1. a \in Under(calls[i].asset)
      BY <1>2, <2>2 DEF MergingInv, Descends
    <3>2. d \in Under(calls[i].asset)
      BY <1>2, <1>6, <3>1, UnderEffect
    <3> QED
      BY <1>2, <3>2, UnderEffect
  <2> QED
    BY <2>1, <2>2
<1> QED
  BY <1>1, <1>2, <1>3, <1>4, <1>5, <1>6, <1>7

(* An asset merged before leaves the list; nothing is lost with it.             *)
LEMMA DropOneKeeps ==
  ASSUME Typed, MergingInv, NEW d \in Assets, DropOne(d)
  PROVE  Typed' /\ MergingInv' /\ stage' = "merging"
<1> DEFINE n == Len(calls)
           a == Top.asset
           k == Top.next
           rest == RemoveAt(dicDep[a], k)
<1>0. MergesAt(d)
  BY DEF DropOne
<1>1. /\ stage' = stage /\ calls' = calls /\ todo' = todo /\ d \notin entries
      /\ refers' = refers /\ files' = files /\ entries' = entries
      /\ dicDep' = [dicDep EXCEPT ![a] = rest]
      /\ dicDepBy' = dicDepBy /\ listAsset' = listAsset /\ UNCHANGED bundles
  BY DEF DropOne, project
<1>2. /\ stage = "merging" /\ n \in 1..n /\ Top = calls[n]
      /\ a \in entries /\ a \in Assets /\ k \in Nat /\ k > 0
      /\ k \in 1..Len(dicDep[a]) /\ dicDep[a][k] = d /\ a # d
      /\ dicDep[a] \in Seq(Assets) /\ Dep[a] = ToSet(dicDep[a]) /\ Len(dicDep[a]) \in Nat
      /\ \A i \in 1..n : calls[i].next \in Nat
  BY <1>0, MergesAtEffect
<1>3. (\A b : Under(b)' = Under(b)) /\ Added' = Added
  BY <1>1, SameUnder DEF Added
<1>4. /\ rest \in Seq(Assets) /\ Len(rest) = Len(dicDep[a]) - 1
      /\ \A j \in 1..(Len(dicDep[a]) - 1) :
           rest[j] = IF j < k THEN dicDep[a][j] ELSE dicDep[a][j + 1]
      /\ \A x : Times(rest, x) = IF x = d THEN Times(dicDep[a], x) - 1 ELSE Times(dicDep[a], x)
  <2> HIDE DEF a, k
  <2>1. ASSUME NEW s \in Seq(Assets), NEW p \in 1..Len(s), NEW x
        PROVE  /\ RemoveAt(s, p) \in Seq(Assets) /\ Len(RemoveAt(s, p)) = Len(s) - 1
               /\ \A j \in 1..(Len(s) - 1) : RemoveAt(s, p)[j] = IF j < p THEN s[j] ELSE s[j + 1]
               /\ Times(RemoveAt(s, p), x) = IF x = s[p] THEN Times(s, x) - 1 ELSE Times(s, x)
    BY TimesRemoveAt
  <2> QED
    BY <1>2, <2>1
<1> HIDE DEF rest, a, k
<1>5. /\ dicDep' \in [Assets -> Seq(Assets)] /\ dicDep'[a] = rest
      /\ \A b \in Assets : b # a => dicDep'[b] = dicDep[b]
  BY <1>1, <1>2, <1>4 DEF Typed
<1>6. /\ \A b \in Assets : b # a => Dep'[b] = Dep[b]
      /\ Dep'[a] \subseteq Dep[a] /\ Dep[a] \ {d} \subseteq Dep'[a]
      /\ Dep'[a] = ToSet(rest)
  <2>1. \A b \in Assets : Dep'[b] = ToSet(dicDep'[b]) /\ Dep[b] = ToSet(dicDep[b])
    BY <1>5, DepPrimed, UnderEffect
  <2>2. ASSUME NEW x PROVE (x \in ToSet(rest) => x \in Dep[a]) /\ (x \in Dep[a] /\ x # d => x \in ToSet(rest))
    <3>1. /\ x \in ToSet(rest) <=> Times(rest, x) > 0
          /\ x \in Dep[a] <=> Times(dicDep[a], x) > 0
          /\ Times(dicDep[a], x) \in Nat /\ Times(rest, x) \in Nat
      BY <1>2, <1>4, TimesEffect
    <3>2. Times(rest, x) = IF x = d THEN Times(dicDep[a], x) - 1 ELSE Times(dicDep[a], x)
      BY <1>4
    <3> QED
      BY <3>1, <3>2
  <2> QED
    BY <1>2, <1>5, <2>1, <2>2
<1>7. Typed'
  BY <1>1, <1>5 DEF Typed, bundles
<1>8. DownOnly' /\ NoEntryNoList' /\ NoBundles'
  <2>1. \A b \in Assets : Dep'[b] \subseteq Dep[b]
    BY <1>6
  <2> QED
    BY <1>1, <1>2, <1>3, <1>5, <2>1
    DEF MergingInv, DownOnly, NoEntryNoList, NoBundles, bundles
<1>9. FilesStay' /\ Descends' /\ CallsHaveLists' /\ ToSet(todo)' \subseteq files'
  BY <1>1, <1>3 DEF MergingInv, FilesStay, Descends, CallsHaveLists
<1>10. DependentsKnown'
  <2>1. ASSUME NEW x \in entries, NEW b \in Assets
        PROVE  /\ dicDepBy[x][b] > 0 <=> x \in Dep'[b]
               /\ dicDepBy[x][b] <= Times(dicDep'[b], x)
    <3>1. x # d /\ (dicDepBy[x][b] > 0 <=> x \in Dep[b]) /\ dicDepBy[x][b] <= Times(dicDep[b], x)
      BY <1>1 DEF MergingInv, DependentsKnown
    <3>2. Times(dicDep'[b], x) = Times(dicDep[b], x) /\ (x \in Dep'[b] <=> x \in Dep[b])
      BY <1>4, <1>5, <1>6, <3>1
    <3> QED
      BY <3>1, <3>2
  <2> QED
    BY <1>1, <2>1 DEF DependentsKnown
<1>11. LeftOvers'
  <2>1. ASSUME NEW b \in Assets, NEW j \in 1..Len(dicDep'[b]), dicDep'[b][j] \notin entries
        PROVE  /\ dicDepBy[dicDep'[b][j]] = Only(b)
               /\ \E i \in 1..n : calls[i].asset = b /\ calls[i].next <= j
    <3>1. CASE b # a
      <4>1. dicDep'[b] = dicDep[b]
        BY <1>5, <3>1
      <4> QED
        BY <2>1, <4>1 DEF MergingInv, LeftOvers
    <3>2. CASE b = a
      <4>1. j \in 1..(Len(dicDep[a]) - 1) /\ dicDep'[a] = rest
        BY <1>4, <1>5, <2>1, <3>2
      <4>2. CASE j < k
        <5>1. j \in 1..Len(dicDep[a]) /\ dicDep'[a][j] = dicDep[a][j]
          BY <1>2, <1>4, <4>1, <4>2
        <5> QED
          BY <2>1, <3>2, <5>1 DEF MergingInv, LeftOvers
      <4>3. CASE ~(j < k)
        <5>1. j + 1 \in 1..Len(dicDep[a]) /\ dicDep'[a][j] = dicDep[a][j + 1]
          BY <1>2, <1>4, <4>1, <4>3
        <5>2. dicDepBy[dicDep[a][j + 1]] = Only(a)
          BY <1>2, <2>1, <3>2, <5>1 DEF MergingInv, LeftOvers
        <5>3. calls[n].asset = a /\ calls[n].next <= j
          BY <1>2, <4>1, <4>3 DEF a, k
        <5> QED
          BY <1>2, <3>2, <5>1, <5>2, <5>3
      <4> QED
        BY <4>2, <4>3
    <3> QED
      BY <3>1, <3>2
  <2> QED
    BY <1>1, <2>1 DEF LeftOvers
<1>12. Kept'
  <2>1. IsGraph(Dep) /\ IsGraph(Dep')
    BY <1>5, DepIsGraph, UnderEffect
  <2>2. Dep[d] = {}
    BY <1>1, UnderEffect, EmptyList DEF MergingInv, NoEntryNoList
  <2>3. \A c \in Assets : Dep[c] \ {d} \subseteq Dep'[c]
    BY <1>6
  <2>4. ASSUME NEW c \in entries PROVE Under(c) \cap entries \subseteq Below(Dep', c)
    <3>1. c \in Assets
      BY DEF Typed
    <3>2. Below(Dep, c) \ {d} \subseteq Below(Dep', c)
      BY <2>1, <2>2, <2>3, <3>1, DroppingReaches
    <3>3. Under(c) \cap entries \subseteq Below(Dep, c)
      BY DEF MergingInv, Kept
    <3> QED
      BY <1>1, <3>2, <3>3
  <2> QED
    BY <1>1, <1>3, <2>4, BelowPrimed DEF Kept
<1>13. PackedApart'
  BY <1>1, <1>3 DEF MergingInv, PackedApart, Owned
<1> QED
  BY <1>1, <1>2, <1>7, <1>8, <1>9, <1>10, <1>11, <1>12, <1>13 DEF MergingInv

(* An asset only one other needs is merged into that: what led to the merged    *)
(* asset leads to what it is packed into.                                      *)
LEMMA MergeOneKeeps ==
  ASSUME Typed, MergingInv, NEW d \in Assets, MergeOne(d)
  PROVE  Typed' /\ MergingInv' /\ stage' = "merging"
<1> DEFINE n == Len(calls)
           a == Top.asset
           k == Top.next
           rest == RemoveAt(dicDep[a], k)
           T == [Top EXCEPT !.next = 1]
<1>0. MergesAt(d)
  BY DEF MergeOne
<1>1. /\ stage' = stage /\ calls' = Append(Front(calls), T) /\ todo' = todo /\ d \in entries
      /\ refers' = refers /\ files' = files /\ entries' = entries \ {d} /\ OnlyOneNeeds(d)
      /\ dicDep' = [dicDep EXCEPT ![a] = rest \o dicDep[d], ![d] = <<>>]
      /\ dicDepBy' = [x \in Assets |->
           IF Contains(dicDep[d], x)
           THEN [dicDepBy[x] EXCEPT ![a] = AtLeastOne(@),
                                    ![d] = IF @ > Times(dicDep[d], x)
                                           THEN @ - Times(dicDep[d], x) ELSE 0]
           ELSE dicDepBy[x]]
      /\ listAsset' = listAsset /\ UNCHANGED bundles
  BY DEF MergeOne, Inherited, project, Goes
<1>2. /\ stage = "merging" /\ calls # <<>> /\ calls \in Seq(MergeCall) /\ n \in Nat /\ n > 0
      /\ n \in 1..n /\ Top = calls[n] /\ Top \in MergeCall
      /\ a \in entries /\ a \in Assets /\ k \in Nat /\ k > 0
      /\ k \in 1..Len(dicDep[a]) /\ dicDep[a][k] = d /\ d \in Dep[a] /\ d \in Under(a) /\ a # d
      /\ dicDep[a] \in Seq(Assets) /\ Dep[a] = ToSet(dicDep[a]) /\ Len(dicDep[a]) \in Nat
      /\ \A i \in 1..n : /\ calls[i].next \in Nat /\ calls[i].asset # d
                         /\ calls[i].asset \in entries
  BY <1>0, MergesAtEffect
<1>3. (\A b : Under(b)' = Under(b)) /\ Added' = Added
  BY <1>1, SameUnder DEF Added
<1>4. /\ rest \in Seq(Assets) /\ Len(rest) = Len(dicDep[a]) - 1
      /\ \A j \in 1..(Len(dicDep[a]) - 1) :
           rest[j] = IF j < k THEN dicDep[a][j] ELSE dicDep[a][j + 1]
      /\ \A x : Times(rest, x) = IF x = d THEN Times(dicDep[a], x) - 1 ELSE Times(dicDep[a], x)
  <2> HIDE DEF a, k
  <2>1. ASSUME NEW s \in Seq(Assets), NEW p \in 1..Len(s), NEW x
        PROVE  /\ RemoveAt(s, p) \in Seq(Assets) /\ Len(RemoveAt(s, p)) = Len(s) - 1
               /\ \A j \in 1..(Len(s) - 1) : RemoveAt(s, p)[j] = IF j < p THEN s[j] ELSE s[j + 1]
               /\ Times(RemoveAt(s, p), x) = IF x = s[p] THEN Times(s, x) - 1 ELSE Times(s, x)
    BY TimesRemoveAt
  <2> QED
    BY <1>2, <2>1
<1>5. T \in MergeCall /\ T.asset = a /\ T.next = 1
  <2>1. Top \in MergeCall
    BY <1>2
  <2> QED
    BY ONLY <2>1 DEF MergeCall
<1> HIDE DEF rest, a, k, T
<1>6. /\ dicDep[d] \in Seq(Assets) /\ Dep[d] = ToSet(dicDep[d]) /\ Len(dicDep[d]) \in Nat
      /\ Dep[d] \subseteq Under(d) /\ Under(d) \subseteq Under(a) /\ d \notin Under(d)
      /\ Dep[a] \subseteq Under(a) /\ Len(rest) \in Nat
      /\ dicDepBy \in [Assets -> [Assets -> Nat]] /\ dicDep \in [Assets -> Seq(Assets)]
  BY <1>2, <1>4, UnderEffect, LenProperties DEF MergingInv, DownOnly, Typed
<1>7. \A b \in Assets : d \in Dep[b] => b = a
  <2>1. PICK c \in Assets : dicDepBy[d] = Only(c)
    BY <1>1 DEF OnlyOneNeeds
  <2>2. \A b \in Assets : dicDepBy[d][b] = IF b = c THEN 1 ELSE 0
    BY <2>1 DEF Only
  <2>3. \A b \in Assets : d \in Dep[b] => dicDepBy[d][b] > 0
    BY <1>1 DEF MergingInv, DependentsKnown
  <2> QED
    BY <1>2, <2>2, <2>3
<1>8. dicDepBy[d] = Only(a) /\ d \notin files
  <2>1. PICK c \in Assets : dicDepBy[d] = Only(c)
    BY <1>1 DEF OnlyOneNeeds
  <2>2. dicDepBy[d][a] > 0
    BY <1>1, <1>2 DEF MergingInv, DependentsKnown
  <2>3. c = a
    BY <1>2, <2>1, <2>2 DEF Only
  <2> QED
    BY <1>1, <2>1, <2>3 DEF OnlyOneNeeds
<1>9. /\ rest \o dicDep[d] \in Seq(Assets) /\ Len(rest \o dicDep[d]) = Len(rest) + Len(dicDep[d])
      /\ \A j \in 1..(Len(rest) + Len(dicDep[d])) :
           (rest \o dicDep[d])[j] = IF j <= Len(rest) THEN rest[j] ELSE dicDep[d][j - Len(rest)]
      /\ ToSet(rest \o dicDep[d]) = ToSet(rest) \cup Dep[d]
      /\ \A x : Times(rest \o dicDep[d], x) = Times(rest, x) + Times(dicDep[d], x)
  <2> DEFINE t == dicDep[d]
  <2>1. t \in Seq(Assets) /\ Dep[d] = ToSet(t)
    BY <1>6
  <2> HIDE DEF t
  <2>2. /\ rest \o t \in Seq(Assets) /\ Len(rest \o t) = Len(rest) + Len(t)
        /\ \A j \in 1..(Len(rest) + Len(t)) :
             (rest \o t)[j] = IF j <= Len(rest) THEN rest[j] ELSE t[j - Len(rest)]
    BY <1>4, <2>1, ConcatProperties
  <2>3. ASSUME NEW x
        PROVE  /\ ToSet(rest \o t) = ToSet(rest) \cup ToSet(t)
               /\ Times(rest \o t, x) = Times(rest, x) + Times(t, x)
    BY <1>4, <2>1, TimesConcat
  <2> QED
    BY <2>1, <2>2, <2>3 DEF t
<1>10. /\ dicDep' \in [Assets -> Seq(Assets)]
       /\ dicDep'[a] = rest \o dicDep[d] /\ dicDep'[d] = <<>>
       /\ \A b \in Assets : b # a /\ b # d => dicDep'[b] = dicDep[b]
  <2>1. <<>> \in Seq(Assets)
    OBVIOUS
  <2> QED
    BY <1>1, <1>2, <1>6, <1>9, <2>1
<1>11. /\ Dep[a] \ {d} \subseteq ToSet(rest) /\ ToSet(rest) \subseteq Dep[a]
  <2>1. ASSUME NEW x PROVE (x \in ToSet(rest) => x \in Dep[a]) /\ (x \in Dep[a] /\ x # d => x \in ToSet(rest))
    <3>1. /\ x \in ToSet(rest) <=> Times(rest, x) > 0
          /\ x \in Dep[a] <=> Times(dicDep[a], x) > 0
          /\ Times(dicDep[a], x) \in Nat /\ Times(rest, x) \in Nat
      BY <1>2, <1>4, TimesEffect
    <3>2. Times(rest, x) = IF x = d THEN Times(dicDep[a], x) - 1 ELSE Times(dicDep[a], x)
      BY <1>4
    <3> QED
      BY <3>1, <3>2
  <2> QED
    BY <2>1
<1>12. /\ Dep'[a] = ToSet(rest) \cup Dep[d] /\ Dep'[d] = {}
       /\ \A b \in Assets : b # a /\ b # d => Dep'[b] = Dep[b]
  <2>1. \A b \in Assets : Dep'[b] = ToSet(dicDep'[b]) /\ Dep[b] = ToSet(dicDep[b])
    BY <1>10, DepPrimed, UnderEffect
  <2> QED
    <3>1. a \in Assets /\ d \in Assets
      BY <1>2
    <3>2. /\ ToSet(dicDep'[a]) = ToSet(rest) \cup Dep[d] /\ ToSet(dicDep'[d]) = {}
          /\ \A b \in Assets : b # a /\ b # d => ToSet(dicDep'[b]) = ToSet(dicDep[b])
      BY <1>9, <1>10, EmptyList
    <3> QED
      BY <2>1, <3>1, <3>2
<1>13. \A x \in Assets :
         /\ dicDepBy'[x] \in [Assets -> Nat]
         /\ x \notin Dep[d] => dicDepBy'[x] = dicDepBy[x]
         /\ x \in Dep[d] =>
              /\ dicDepBy'[x][a] = AtLeastOne(dicDepBy[x][a])
              /\ dicDepBy'[x][d] = IF dicDepBy[x][d] > Times(dicDep[d], x)
                                   THEN dicDepBy[x][d] - Times(dicDep[d], x) ELSE 0
              /\ \A b \in Assets : b # a /\ b # d => dicDepBy'[x][b] = dicDepBy[x][b]
  <2>1. ASSUME NEW x \in Assets
        PROVE  /\ dicDepBy'[x] \in [Assets -> Nat]
               /\ x \notin Dep[d] => dicDepBy'[x] = dicDepBy[x]
               /\ x \in Dep[d] =>
                    /\ dicDepBy'[x][a] = AtLeastOne(dicDepBy[x][a])
                    /\ dicDepBy'[x][d] = IF dicDepBy[x][d] > Times(dicDep[d], x)
                                         THEN dicDepBy[x][d] - Times(dicDep[d], x) ELSE 0
                    /\ \A b \in Assets : b # a /\ b # d => dicDepBy'[x][b] = dicDepBy[x][b]
    <3> DEFINE by == dicDepBy[x]
               m == Times(dicDep[d], x)
    <3>1. by \in [Assets -> Nat] /\ m \in Nat /\ (Contains(dicDep[d], x) <=> x \in Dep[d])
      BY <1>6, TimesEffect
    <3>2. dicDepBy'[x] = IF x \in Dep[d]
                         THEN [by EXCEPT ![a] = AtLeastOne(@), ![d] = IF @ > m THEN @ - m ELSE 0]
                         ELSE by
      BY <1>1, <3>1
    <3> HIDE DEF by, m
    <3>3. \A j \in Nat : AtLeastOne(j) \in Nat /\ (IF j > m THEN j - m ELSE 0) \in Nat
      BY <3>1 DEF AtLeastOne
    <3>4. by = dicDepBy[x] /\ m = Times(dicDep[d], x)
      BY DEF by, m
    <3>5. CASE x \notin Dep[d]
      BY <3>1, <3>2, <3>4, <3>5
    <3>6. CASE x \in Dep[d]
      <4> DEFINE r == [by EXCEPT ![a] = AtLeastOne(@), ![d] = IF @ > m THEN @ - m ELSE 0]
      <4>1. /\ r \in [Assets -> Nat] /\ r[a] = AtLeastOne(by[a])
            /\ r[d] = IF by[d] > m THEN by[d] - m ELSE 0
            /\ \A b \in Assets : b # a /\ b # d => r[b] = by[b]
        BY <1>2, <3>1, <3>3
      <4>2. dicDepBy'[x] = r
        BY <3>2, <3>6
      <4> HIDE DEF r
      <4> QED
        BY <3>4, <3>6, <4>1, <4>2
    <3> QED
      BY <3>5, <3>6
  <2> QED
    BY <2>1
<1>14. /\ calls' \in Seq(MergeCall) /\ Len(calls') = n /\ calls'[n] = T
       /\ \A i \in 1..n : i # n => calls'[i] = calls[i]
  <2>1. /\ calls' \in Seq(MergeCall) /\ Len(calls') = n /\ calls'[n] = T
        /\ \A i \in 1..(n - 1) : calls'[i] = calls[i]
    BY <1>1, <1>2, <1>5, GoesEffect
  <2> QED
    BY <1>2, <2>1
<1>15. /\ \A i \in 1..n : calls'[i].asset = calls[i].asset
       /\ calls'[n].asset = a /\ calls'[n].next = 1
  BY <1>2, <1>5, <1>14 DEF a
<1>16. Typed'
  <2>1. dicDepBy' \in [Assets -> [Assets -> Nat]]
    <3>1. dicDepBy' = [x \in Assets |-> dicDepBy'[x]]
      BY <1>1
    <3> QED
      BY <1>13, <3>1
  <2> QED
    BY <1>1, <1>2, <1>10, <1>14, <2>1 DEF Typed, bundles
<1>17. DownOnly'
  <2>1. ASSUME NEW b \in Assets PROVE Dep'[b] \subseteq Under(b)
    <3>1. Dep[b] \subseteq Under(b)
      BY DEF MergingInv, DownOnly
    <3>2. CASE b = a
      BY <1>6, <1>11, <1>12, <3>2
    <3>3. CASE b # a
      BY <1>12, <3>1, <3>3
    <3> QED
      BY <3>2, <3>3
  <2> QED
    BY <1>3, <2>1 DEF DownOnly
<1>18. NoEntryNoList' /\ NoBundles' /\ FilesStay' /\ ToSet(todo)' \subseteq files'
  BY <1>1, <1>2, <1>3, <1>8, <1>10
  DEF MergingInv, NoEntryNoList, NoBundles, FilesStay, bundles
<1>19. Descends' /\ CallsHaveLists'
  <2>1. Descends'
    BY <1>3, <1>14, <1>15 DEF MergingInv, Descends
  <2>2. ASSUME NEW i \in 1..n PROVE calls'[i].asset \in entries' /\ calls'[i].next > 0
    BY <1>1, <1>2, <1>14, <1>15 DEF MergingInv, CallsHaveLists
  <2> QED
    BY <1>14, <2>1, <2>2 DEF CallsHaveLists
<1>20. /\ entries' = entries \ {d} /\ d \notin entries' /\ a \in entries' /\ entries \subseteq Assets
  BY <1>1, <1>2 DEF Typed
<1>21. DependentsKnown'
  <2>1. ASSUME NEW x \in entries', NEW b \in Assets
        PROVE  /\ dicDepBy'[x][b] > 0 <=> x \in Dep'[b]
               /\ dicDepBy'[x][b] <= Times(dicDep'[b], x)
    <3>1. x \in entries /\ x \in Assets /\ x # d
      BY <1>20
    <3>2. ASSUME NEW c \in Assets
          PROVE  /\ dicDepBy[x][c] > 0 <=> x \in Dep[c]
                 /\ dicDepBy[x][c] <= Times(dicDep[c], x)
                 /\ dicDepBy[x][c] \in Nat /\ Times(dicDep[c], x) \in Nat
      <4>1. Times(dicDep[c], x) \in Nat /\ dicDepBy[x][c] \in Nat
        <5>1. dicDep[c] \in Seq(Assets) /\ dicDepBy[x] \in [Assets -> Nat]
          BY <1>6, <3>1
        <5> QED
          BY <5>1, TimesEffect
      <4> QED
        BY <3>1, <4>1 DEF MergingInv, DependentsKnown
    <3>3. CASE b # a /\ b # d
      <4>1. dicDepBy'[x][b] = dicDepBy[x][b] /\ Dep'[b] = Dep[b] /\ dicDep'[b] = dicDep[b]
        BY <1>10, <1>12, <1>13, <3>1, <3>3
      <4> QED
        BY <3>2, <4>1
    <3>4. CASE b = d
      <4>1. Times(dicDep'[d], x) = 0 /\ x \notin Dep'[d]
        BY <1>10, <1>12, EmptyList
      <4>2. dicDepBy'[x][d] = 0
        <5>1. CASE x \in Dep[d]
          <6>1. /\ dicDepBy'[x][d] = IF dicDepBy[x][d] > Times(dicDep[d], x)
                                     THEN dicDepBy[x][d] - Times(dicDep[d], x) ELSE 0
            BY <1>13, <3>1, <5>1
          <6> QED
            BY <3>2, <6>1
        <5>2. CASE x \notin Dep[d]
          <6>1. dicDepBy'[x] = dicDepBy[x] /\ dicDepBy[x][d] \in Nat /\ ~(dicDepBy[x][d] > 0)
            BY <1>13, <3>1, <3>2, <5>2
          <6> QED
            BY <6>1
        <5> QED
          BY <5>1, <5>2
      <4> QED
        BY <3>4, <4>1, <4>2
    <3>5. CASE b = a
      <4> DEFINE before == Times(dicDep[a], x)
                 more == Times(dicDep[d], x)
      <4>1. Times(dicDep'[a], x) = before + more /\ before \in Nat /\ more \in Nat
        BY <1>2, <1>4, <1>9, <1>10, <3>1, <3>2
      <4>2. x \in Dep'[a] <=> x \in Dep[a] \/ x \in Dep[d]
        BY <1>11, <1>12, <3>1
      <4>3. more > 0 <=> x \in Dep[d]
        BY <1>6, TimesEffect
      <4>4. /\ dicDepBy[x][a] \in Nat /\ (dicDepBy[x][a] > 0 <=> x \in Dep[a])
            /\ dicDepBy[x][a] <= before
        BY <1>2, <3>2
      <4> HIDE DEF before, more
      <4>5. CASE x \in Dep[d]
        <5>1. dicDepBy'[x][a] = AtLeastOne(dicDepBy[x][a])
          BY <1>13, <3>1, <4>5
        <5> QED
          BY <3>5, <4>1, <4>2, <4>3, <4>4, <4>5, <5>1 DEF AtLeastOne
      <4>6. CASE x \notin Dep[d]
        <5>1. dicDepBy'[x] = dicDepBy[x]
          BY <1>13, <3>1, <4>6
        <5> QED
          BY <3>5, <4>1, <4>2, <4>3, <4>4, <4>6, <5>1
      <4> QED
        BY <4>5, <4>6
    <3> QED
      BY <3>3, <3>4, <3>5
  <2> QED
    BY <2>1 DEF DependentsKnown
\* What was merged before is in no list of an asset without a call.
<1>22. \A y \in Dep[d] : y \in entries
  <2>1. ASSUME NEW y \in Dep[d], y \notin entries PROVE FALSE
    <3>1. PICK j \in 1..Len(dicDep[d]) : dicDep[d][j] = y
      BY <1>6, TimesEffect
    <3>2. \E i \in 1..n : calls[i].asset = d
      BY <2>1, <3>1 DEF MergingInv, LeftOvers
    <3> QED
      BY <1>2, <3>2
  <2> QED
    BY <2>1
<1>23. LeftOvers'
  <2>1. ASSUME NEW b \in Assets, NEW j \in 1..Len(dicDep'[b]), dicDep'[b][j] \notin entries'
        PROVE  /\ dicDepBy'[dicDep'[b][j]] = Only(b)
               /\ \E i \in 1..n : calls'[i].asset = b /\ calls'[i].next <= j
    <3> DEFINE y == dicDep'[b][j]
    <3>0. y \in Assets /\ y \in Dep'[b] /\ (y \in entries => y = d) /\ j \in Nat /\ j >= 1
      <4>1. dicDep'[b] \in Seq(Assets) /\ Dep'[b] = ToSet(dicDep'[b]) /\ Len(dicDep'[b]) \in Nat
        BY <1>10, DepPrimed, LenProperties
      <4>2. y \in Dep'[b]
        BY <2>1, <4>1, TimesEffect
      <4>3. y \in Assets
        BY <4>1, <4>2, ListInAssets
      <4> QED
        BY <1>20, <2>1, <4>1, <4>2, <4>3
    <3> HIDE DEF y
    <3>1. y \notin Dep[d]
      BY <1>6, <1>22, <3>0
    <3>2. dicDepBy'[y] = dicDepBy[y]
      BY <1>13, <3>0, <3>1
    <3>3. b # d
      BY <1>12, <3>0
    <3>4. CASE b = a
      <4>1. dicDepBy[y] = Only(a)
        <5>1. CASE y = d
          BY <1>8, <5>1
        <5>2. CASE y # d
          <6>1. y \in Dep[a] /\ y \notin entries
            BY <1>11, <1>12, <3>0, <3>1, <3>4, <5>2
          <6>2. PICK i \in 1..Len(dicDep[a]) : dicDep[a][i] = y
            BY <1>2, <6>1, TimesEffect
          <6> QED
            BY <1>2, <6>1, <6>2 DEF MergingInv, LeftOvers
        <5> QED
          BY <5>1, <5>2
      <4> QED
        BY <1>2, <1>15, <3>0, <3>2, <3>4, <4>1 DEF y
    <3>5. CASE b # a
      <4>1. dicDep'[b] = dicDep[b] /\ Dep'[b] = Dep[b]
        BY <1>10, <1>12, <3>3, <3>5
      <4>2. y # d /\ y \notin entries
        BY <1>7, <3>0, <3>5, <4>1
      <4>3. dicDepBy[y] = Only(b) /\ \E i \in 1..n : calls[i].asset = b /\ calls[i].next <= j
        BY <2>1, <4>1, <4>2 DEF MergingInv, LeftOvers, y
      <4>4. PICK i \in 1..n : calls[i].asset = b /\ calls[i].next <= j
        BY <4>3
      <4>5. calls'[i] = calls[i]
        BY <1>2, <1>14, <3>5, <4>4 DEF a
      <4> QED
        BY <3>2, <4>3, <4>4, <4>5 DEF y
    <3> QED
      BY <3>4, <3>5
  <2> QED
    BY <1>14, <2>1 DEF LeftOvers
<1>24. IsGraph(Dep) /\ IsGraph(Dep') /\ IsGraph(refers)
  BY <1>10, DepIsGraph, UnderEffect
<1>25. Kept'
  <2>1. ASSUME NEW c \in entries' PROVE Under(c) \cap entries' \subseteq Below(Dep', c)
    <3>1. c \in Assets /\ c # d /\ c \in entries
      BY <1>20
    <3>2. d \notin Dep[d] /\ \A b \in Assets : b # a => d \notin Dep[b]
      BY <1>2, <1>7
    <3>3. /\ \A b \in Assets : b # a /\ b # d => Dep'[b] = Dep[b]
          /\ Dep[a] \ {d} \subseteq Dep'[a] /\ Dep[d] \subseteq Dep'[a]
      BY <1>11, <1>12
    <3>4. Below(Dep, c) \ {d} \subseteq Below(Dep', c)
      BY <1>2, <1>24, <3>1, <3>2, <3>3, MergingReaches
    <3>5. Under(c) \cap entries \subseteq Below(Dep, c)
      BY <3>1 DEF MergingInv, Kept
    <3> QED
      BY <1>20, <3>4, <3>5
  <2> QED
    BY <1>3, <2>1, BelowPrimed DEF Kept
<1>26. PackedApart'
  <2>1. ASSUME NEW c \in entries, d \in Under(c) PROVE c = a \/ a \in Under(c)
    <3>1. c \in Assets /\ d \in Below(Dep, c)
      BY <1>1, <1>20, <2>1 DEF MergingInv, Kept
    <3>2. d \in Dep[c] \/ \E p \in Below(Dep, c) : d \in Dep[p]
      BY <1>24, <3>1, LastStep
    <3>3. Below(Dep, c) \subseteq Assets
      BY <1>24, <3>1, BelowEffect
    <3>4. c = a \/ a \in Below(Dep, c)
      BY <1>7, <3>1, <3>2, <3>3
    <3>5. \A b \in Assets : Dep[b] \subseteq Below(refers, b)
      BY DEF MergingInv, DownOnly, Under
    <3>6. Below(Dep, c) \subseteq Under(c)
      BY <1>24, <3>1, <3>5, WithinBelow DEF Under
    <3> QED
      BY <3>4, <3>6
  <2>2. ASSUME NEW x \in Added, x \notin entries'
        PROVE  \E owner \in entries' :
                 /\ x \in Under(owner)
                 /\ \A c \in entries' : x \in Under(c) => c = owner \/ owner \in Under(c)
    <3>1. CASE x = d
      <4>1. /\ x \in Under(a)
            /\ \A c \in entries' : x \in Under(c) => c = a \/ a \in Under(c)
        BY <1>2, <1>20, <2>1, <3>1
      <4> QED
        BY <1>20, <4>1
    <3>2. CASE x # d
      <4>1. x \notin entries
        BY <1>20, <2>2, <3>2
      <4>2. PICK o \in entries :
              /\ x \in Under(o)
              /\ \A c \in entries : x \in Under(c) => c = o \/ o \in Under(c)
        BY <4>1, <2>2 DEF MergingInv, PackedApart, Owned
      <4>3. CASE o # d
        BY <1>20, <4>2, <4>3
      <4>4. CASE o = d
        <5>1. x \in Under(a)
          BY <1>6, <4>2, <4>4
        <5>2. ASSUME NEW c \in entries', x \in Under(c) PROVE c = a \/ a \in Under(c)
          <6>1. d \in Under(c) /\ c \in entries
            BY <1>20, <4>2, <4>4, <5>2
          <6> QED
            BY <2>1, <6>1
        <5> QED
          BY <1>20, <5>1, <5>2
      <4> QED
        BY <4>3, <4>4
    <3> QED
      BY <3>1, <3>2
  <2> QED
    BY <1>3, <2>2 DEF PackedApart, Owned
<1> QED
  BY <1>1, <1>2, <1>16, <1>17, <1>18, <1>19, <1>21, <1>23, <1>25, <1>26 DEF MergingInv

-----------------------------------------------------------------------------
(* When all is merged, what is listed is a bundle.                             *)
LEMMA ParseKeeps ==
  ASSUME Typed, MergingInv, parseDepTable
  PROVE  Typed' /\ ParsingInv' /\ stage' = "parsing"
<1>1. /\ stage = "merging" /\ calls = <<>> /\ Len(calls) = 0
      /\ stage' = "parsing" /\ todo' = listAsset /\ calls' = calls
      /\ refers' = refers /\ files' = files /\ entries' = entries /\ dicDep' = dicDep
      /\ dicDepBy' = dicDepBy /\ listAsset' = listAsset /\ UNCHANGED bundles
  BY DEF parseDepTable, project, tables
<1>2. (\A b : Under(b)' = Under(b)) /\ Dep' = Dep /\ Added' = Added
  BY <1>1, SameUnder DEF Dep, Added
<1>3. Typed'
  <2>1. calls' \in Seq(StateCall)
    BY <1>1
  <2> QED
    BY <1>1, <2>1 DEF Typed, bundles
<1>4. DownOnly' /\ FilesStay' /\ Kept' /\ PackedApart' /\ ToSet(todo)' \subseteq entries'
  BY <1>1, <1>2 DEF MergingInv, DownOnly, FilesStay, Kept, PackedApart, Owned
<1>5. OnlyEntries'
  <2>1. ASSUME NEW a \in Assets, NEW x \in Dep[a] PROVE x \in entries
    <3>1. dicDep[a] \in Seq(Assets) /\ Dep[a] = ToSet(dicDep[a])
      BY UnderEffect
    <3>2. PICK k \in 1..Len(dicDep[a]) : dicDep[a][k] = x
      BY <2>1, <3>1, TimesEffect
    <3> QED
      BY <1>1, <3>2 DEF MergingInv, LeftOvers
  <2> QED
    BY <1>1, <1>2, <2>1 DEF OnlyEntries
<1>6. IdsDiffer' /\ AllAhead' /\ StateCalls' /\ NeedsSoFar'
  <2>1. DOMAIN dicBundleId' = {} /\ DOMAIN dicBuildState' = {} /\ Len(calls') = 0
    BY <1>1 DEF MergingInv, NoBundles, bundles
  <2> QED
    BY <2>1 DEF IdsDiffer, AllAhead, StateCalls, NeedsSoFar
<1> QED
  BY <1>1, <1>3, <1>4, <1>5, <1>6 DEF ParsingInv

-----------------------------------------------------------------------------
(* An id is given once, and different from those given before.                  *)
LEMMA GetBundleIdEffect ==
  ASSUME Typed, IdsDiffer, NEW a \in Assets, getBundleId(a)
  PROVE  /\ DOMAIN dicBundleId' = DOMAIN dicBundleId \cup {a}
         /\ dicBundleId' \in [DOMAIN dicBundleId' -> Nat] /\ Id' \in Nat
         /\ \A x \in DOMAIN dicBundleId : dicBundleId'[x] = dicBundleId[x]
         /\ IdsDiffer'
<1>1. Id \in Nat /\ dicBundleId \in [DOMAIN dicBundleId -> Nat]
  BY DEF Typed
<1>2. CASE a \in DOMAIN dicBundleId
  <2>1. dicBundleId' = dicBundleId /\ Id' = Id
    BY <1>2 DEF getBundleId
  <2> QED
    BY <1>1, <1>2, <2>1 DEF IdsDiffer
<1>3. CASE a \notin DOMAIN dicBundleId
  <2> DEFINE D == DOMAIN dicBundleId \cup {a}
  <2>1. dicBundleId' = [x \in D |-> IF x = a THEN Id ELSE dicBundleId[x]] /\ Id' = Id + 1
    BY <1>3 DEF getBundleId
  <2>2. /\ DOMAIN dicBundleId' = D /\ dicBundleId'[a] = Id
        /\ \A x \in DOMAIN dicBundleId : dicBundleId'[x] = dicBundleId[x] /\ dicBundleId[x] \in Nat
        /\ \A x \in D : x = a \/ x \in DOMAIN dicBundleId
    BY <1>1, <1>3, <2>1
  <2>3. dicBundleId' \in [D -> Nat] /\ Id' \in Nat
    BY <1>1, <2>1
  <2> HIDE DEF D
  <2>4. \A x \in D : dicBundleId'[x] < Id'
    BY <1>1, <2>1, <2>2 DEF IdsDiffer
  <2>5. ASSUME NEW x \in D, NEW y \in D, dicBundleId'[x] = dicBundleId'[y] PROVE x = y
    <3>1. \A z \in DOMAIN dicBundleId : dicBundleId[z] # Id
      BY <1>1, <2>2 DEF IdsDiffer
    <3> QED
      BY <2>2, <2>5, <3>1 DEF IdsDiffer
  <2>6. IdsDiffer'
    BY <2>2, <2>4, <2>5 DEF IdsDiffer
  <2> QED
    BY <2>2, <2>3, <2>6 DEF D
<1> QED
  BY <1>2, <1>3

LEMMA NotParsedAway ==
  ASSUME ParsingInv, UNCHANGED <<project, tables, listAsset>>
  PROVE  /\ DownOnly' /\ FilesStay' /\ OnlyEntries' /\ Kept' /\ PackedApart'
         /\ Dep' = Dep /\ entries' = entries /\ dicDep' = dicDep
<1>1. /\ refers' = refers /\ files' = files /\ entries' = entries /\ dicDep' = dicDep
      /\ listAsset' = listAsset
  BY DEF project, tables
<1>2. (\A b : Under(b)' = Under(b)) /\ Dep' = Dep /\ Added' = Added
  BY <1>1, SameUnder DEF Dep, Added
<1> QED
  BY <1>1, <1>2 DEF ParsingInv, DownOnly, FilesStay, OnlyEntries, Kept, PackedApart, Owned

LEMMA StateFrames ==
  ASSUME Typed, ParsingInv, stage = "parsing", calls # <<>>
  PROVE  /\ calls \in Seq(StateCall) /\ Len(calls) \in Nat /\ Len(calls) > 0
         /\ Len(calls) \in 1..Len(calls) /\ Top = calls[Len(calls)] /\ Top \in StateCall
         /\ \A i \in 1..Len(calls) :
              /\ calls[i] \in StateCall /\ calls[i].asset \in Assets
              /\ calls[i].asset \in DOMAIN dicBuildState /\ calls[i].list = dicDep[calls[i].asset]
              /\ calls[i].list \in Seq(Assets) /\ Len(calls[i].list) \in Nat
              /\ ToSet(calls[i].list) = Dep[calls[i].asset]
              /\ calls[i].needed \in Nat /\ calls[i].needed <= Len(calls[i].list)
              /\ calls[i].next \in Nat /\ calls[i].next > 0
              /\ i # Len(calls) => calls[i].needed = Len(calls[i].list)
<1>1. calls \in Seq(StateCall)
  BY DEF Typed
<1>2. Len(calls) \in Nat /\ Len(calls) > 0 /\ \A i \in 1..Len(calls) : calls[i] \in StateCall
  BY <1>1, LenProperties, EmptySeq, ElementOfSeq
<1>3. Len(calls) \in 1..Len(calls)
  BY <1>2
<1>4. Top = calls[Len(calls)] /\ Top \in StateCall
  BY <1>2, <1>3 DEF Top, Last
<1>5. \A c \in StateCall :
        c.asset \in Assets /\ c.next \in Nat /\ c.needed \in Nat /\ c.list \in Seq(Assets)
  BY DEF StateCall
<1>6. \A i \in 1..Len(calls) :
        /\ calls[i].asset \in DOMAIN dicBuildState /\ calls[i].list = dicDep[calls[i].asset]
        /\ calls[i].next > 0 /\ calls[i].needed <= Len(calls[i].list)
        /\ calls[i].needed < Len(calls[i].list) => i = Len(calls)
  BY DEF ParsingInv, StateCalls
<1>7. ASSUME NEW i \in 1..Len(calls)
      PROVE  /\ Len(calls[i].list) \in Nat /\ ToSet(calls[i].list) = Dep[calls[i].asset]
             /\ i # Len(calls) => calls[i].needed = Len(calls[i].list)
  <2>1. calls[i].asset \in Assets /\ calls[i].needed \in Nat
    BY <1>2, <1>5
  <2>2. Len(calls[i].list) \in Nat /\ ToSet(calls[i].list) = Dep[calls[i].asset]
    BY <1>6, <2>1, UnderEffect
  <2> QED
    BY <1>6, <2>1, <2>2
<1> QED
  BY <1>1, <1>2, <1>3, <1>4, <1>5, <1>6, <1>7

(* A bundle is listed once, with an id of its own.                             *)
LEMMA AddStateEffect ==
  ASSUME Typed, ParsingInv, stage = "parsing", NEW a \in Assets, a \in entries,
         NEW rest \in Seq(StateCall), addState(a, rest), UNCHANGED <<project, tables, listAsset>>,
         todo' \in Seq(Assets), ToSet(todo') \subseteq entries,
         calls # <<>> => Top.needed = Len(Top.list),
         \A i \in 1..Len(rest) :
           /\ rest[i].asset \in DOMAIN dicBuildState /\ rest[i].list = dicDep[rest[i].asset]
           /\ rest[i].next > 0 /\ rest[i].needed = Len(rest[i].list),
         \A x : AheadIn(x, todo, calls) => x = a \/ AheadIn(x, todo', rest)
  PROVE  Typed' /\ ParsingInv' /\ stage' = "parsing"
<1>1. /\ DownOnly' /\ FilesStay' /\ OnlyEntries' /\ Kept' /\ PackedApart'
      /\ Dep' = Dep /\ entries' = entries /\ dicDep' = dicDep /\ ToSet(todo)' \subseteq entries'
  BY NotParsedAway
<1>2. /\ refers' = refers /\ files' = files /\ dicDepBy' = dicDepBy /\ listAsset' = listAsset
  BY DEF project, tables
<1>3. \A b \in DOMAIN dicBuildState : b \in DOMAIN dicBundleId /\ NeedsAre(b, Dep[b])
  <2>1. \A b : ~Needing(b)
    <3>1. calls # <<>> => Len(Top.list) \in Nat
      BY StateFrames
    <3> QED
      BY <3>1 DEF Needing
  <2> QED
    BY <2>1 DEF ParsingInv, NeedsSoFar
<1>4. dicDep[a] \in Seq(Assets) /\ Len(dicDep[a]) \in Nat /\ Dep[a] = ToSet(dicDep[a])
  BY UnderEffect
<1>5. /\ Len(rest) \in Nat /\ \A i \in 1..Len(rest) : rest[i] \in StateCall /\ rest[i].needed \in Nat
      /\ rest # <<>> => Last(rest) = rest[Len(rest)] /\ Len(rest) \in 1..Len(rest)
  <2>1. Len(rest) \in Nat /\ \A i \in 1..Len(rest) : rest[i] \in StateCall
    BY LenProperties, ElementOfSeq
  <2>2. \A c \in StateCall : c.needed \in Nat
    BY DEF StateCall
  <2>3. rest # <<>> => Len(rest) > 0
    BY EmptySeq, <2>1
  <2> QED
    BY <2>1, <2>2, <2>3 DEF Last
<1>6. CASE a \in DOMAIN dicBuildState
  <2>1. calls' = rest /\ stage' = stage /\ UNCHANGED bundles
    BY <1>6 DEF addState
  <2>2. Typed'
    BY <1>1, <1>2, <2>1 DEF Typed, bundles
  <2>3. IdsDiffer' /\ AllAhead'
    BY <1>6, <2>1 DEF ParsingInv, IdsDiffer, AllAhead, bundles
  <2>4. StateCalls'
    <3>1. \A i \in 1..Len(rest) : ~(rest[i].needed < Len(rest[i].list)) /\ rest[i].needed <= Len(rest[i].list)
      BY <1>5
    <3> QED
      BY <1>1, <2>1, <3>1 DEF StateCalls, bundles
  <2>5. NeedsSoFar'
    <3>1. \A b : ~Needing(b)'
      BY <1>5, <2>1 DEF Needing, Top
    <3> QED
      BY <1>1, <1>3, <2>1, <3>1 DEF NeedsSoFar, NeedsAre, bundles
  <2> QED
    BY <1>1, <2>1, <2>2, <2>3, <2>4, <2>5 DEF ParsingInv
<1>7. CASE a \notin DOMAIN dicBuildState
  <2> DEFINE C == [asset |-> a, list |-> dicDep[a], needed |-> 0, next |-> 1]
             D == DOMAIN dicBuildState \cup {a}
             m == Len(rest)
  <2>1. /\ dicBuildState' = [x \in D |-> IF x = a THEN {} ELSE dicBuildState[x]]
        /\ getBundleId(a) /\ calls' = Append(rest, C) /\ stage' = stage
    BY <1>7 DEF addState
  <2>2. /\ DOMAIN dicBundleId' = DOMAIN dicBundleId \cup {a}
        /\ dicBundleId' \in [DOMAIN dicBundleId' -> Nat] /\ Id' \in Nat
        /\ \A x \in DOMAIN dicBundleId : dicBundleId'[x] = dicBundleId[x]
        /\ IdsDiffer'
    BY <2>1, GetBundleIdEffect DEF ParsingInv
  <2>3. /\ C \in StateCall /\ C.asset = a /\ C.list = dicDep[a] /\ C.needed = 0 /\ C.next = 1
    BY <1>4 DEF StateCall
  <2> HIDE DEF C
  <2>4. /\ calls' \in Seq(StateCall) /\ Len(calls') = m + 1 /\ calls'[m + 1] = C
        /\ \A i \in 1..m : calls'[i] = rest[i]
    BY <2>1, <2>3, AppendProperties
  <2>5. Top' = C
    <3>1. calls'[Len(calls')] = C
      BY <2>4
    <3> QED
      BY <3>1 DEF Top, Last
  <2>6. /\ DOMAIN dicBuildState' = D /\ dicBuildState'[a] = {}
        /\ \A b \in DOMAIN dicBuildState : b # a /\ dicBuildState'[b] = dicBuildState[b]
    BY <1>7, <2>1
  <2>7. Typed'
    <3>1. dicBuildState' \in [D -> SUBSET Nat] /\ D \subseteq Assets
      BY <2>1 DEF Typed
    <3> QED
      BY <1>1, <1>2, <2>1, <2>2, <2>4, <2>6, <3>1 DEF Typed
  <2>8. AllAhead'
    <3>1. ASSUME NEW x \in DOMAIN dicBundleId', x \notin D PROVE AheadIn(x, todo', calls')
      <4>1. x \in DOMAIN dicBundleId /\ x \notin DOMAIN dicBuildState /\ x # a
        BY <2>2, <3>1
      <4>2. AheadIn(x, todo', rest)
        BY <4>1 DEF ParsingInv, AllAhead
      <4>3. \A i \in 1..m : i \in 1..(m + 1)
        BY <1>5
      <4> QED
        BY <2>4, <4>2, <4>3 DEF AheadIn
    <3> QED
      BY <2>6, <3>1 DEF AllAhead, AheadIn
  <2>9. StateCalls'
    <3>1. ASSUME NEW i \in 1..(m + 1)
          PROVE  /\ calls'[i].asset \in D /\ calls'[i].list = dicDep[calls'[i].asset]
                 /\ calls'[i].next > 0 /\ calls'[i].needed <= Len(calls'[i].list)
                 /\ calls'[i].needed < Len(calls'[i].list) => i = m + 1 /\ calls'[i].next = 1
      <4>1. CASE i = m + 1
        BY <1>4, <2>3, <2>4, <4>1
      <4>2. CASE i # m + 1
        <5>1. i \in 1..m
          BY <1>5, <4>2
        <5>2. calls'[i] = rest[i] /\ ~(rest[i].needed < Len(rest[i].list)) /\ rest[i].needed <= Len(rest[i].list)
          BY <1>5, <2>4, <5>1
        <5> QED
          BY <5>1, <5>2
      <4> QED
        BY <4>1, <4>2
    <3> QED
      BY <1>1, <2>4, <2>6, <3>1 DEF StateCalls
  <2>10. NeedsSoFar'
    <3>1. ASSUME NEW b \in D
          PROVE  /\ b \in DOMAIN dicBundleId'
                 /\ Needing(b)' => NeedsAre(b, {Top.list[k] : k \in 1..Top.needed})'
                 /\ ~Needing(b)' => NeedsAre(b, Dep[b])'
      <4>1. CASE b = a
        <5>1. ~Needing(a)' => Dep[a] = {}
          <6>1. Needing(a)' <=> 0 < Len(dicDep[a])
            BY <2>3, <2>4, <2>5, <1>5, EmptySeq DEF Needing
          <6>2. Len(dicDep[a]) = 0 => dicDep[a] = <<>>
            BY <1>4, EmptySeq
          <6> QED
            BY <1>4, <6>1, <6>2, EmptyList
        <5>2. {Top'.list[k] : k \in 1..Top'.needed} = {}
          BY <2>3, <2>5
        <5> QED
          BY <1>1, <2>2, <2>6, <4>1, <5>1, <5>2 DEF NeedsAre
      <4>2. CASE b # a
        <5>1. ~Needing(b)' /\ b \in DOMAIN dicBuildState
          BY <2>3, <2>5, <3>1, <4>2 DEF Needing
        <5>2. /\ b \in DOMAIN dicBundleId /\ Dep[b] \subseteq DOMAIN dicBundleId
              /\ dicBuildState[b] = {dicBundleId[d] : d \in Dep[b]}
          BY <1>3, <5>1 DEF NeedsAre
        <5>3. {dicBundleId[d] : d \in Dep[b]} = {dicBundleId'[d] : d \in Dep[b]}
          BY <2>2, <5>2
        <5> QED
          BY <1>1, <2>2, <2>6, <5>1, <5>2, <5>3 DEF NeedsAre
      <4> QED
        BY <4>1, <4>2
    <3> QED
      BY <2>6, <3>1 DEF NeedsSoFar
  <2> QED
    BY <1>1, <2>1, <2>2, <2>7, <2>8, <2>9, <2>10 DEF ParsingInv
<1> QED
  BY <1>6, <1>7

LEMMA AddFileStateKeeps ==
  ASSUME Typed, ParsingInv, AddFileState
  PROVE  Typed' /\ ParsingInv' /\ stage' = "parsing"
<1> DEFINE a == Head(todo)
<1>1. /\ stage = "parsing" /\ calls = <<>> /\ Len(calls) = 0 /\ todo # <<>>
      /\ addState(a, <<>>) /\ todo' = Tail(todo) /\ UNCHANGED <<project, tables, listAsset>>
  BY DEF AddFileState
<1>2. /\ Tail(todo) \in Seq(Assets) /\ a \in ToSet(todo)
      /\ ToSet(todo) = ToSet(Tail(todo)) \cup {a}
  BY <1>1, HeadAndTail DEF Typed
<1>3. a \in Assets /\ a \in entries /\ ToSet(Tail(todo)) \subseteq entries
  BY <1>2 DEF ParsingInv, Typed
<1> DEFINE none == <<>>
<1>4. none \in Seq(StateCall) /\ Len(none) = 0 /\ addState(a, none)
  BY <1>1
<1> HIDE DEF a, none
<1>5. \A x : AheadIn(x, todo, calls) => x = a \/ AheadIn(x, todo', none)
  BY <1>1, <1>2 DEF AheadIn
<1>6. \A i \in 1..Len(none) :
        /\ none[i].asset \in DOMAIN dicBuildState /\ none[i].list = dicDep[none[i].asset]
        /\ none[i].next > 0 /\ none[i].needed = Len(none[i].list)
  BY <1>4
<1> QED
  BY <1>1, <1>2, <1>3, <1>4, <1>5, <1>6, AddStateEffect

LEMMA NextState ==
  ASSUME NEW c \in StateCall
  PROVE  /\ LET t == [c EXCEPT !.next = @ + 1]
            IN t \in StateCall /\ t.asset = c.asset /\ t.list = c.list /\ t.needed = c.needed
               /\ t.next = c.next + 1
         /\ LET t == [c EXCEPT !.needed = @ + 1]
            IN t \in StateCall /\ t.asset = c.asset /\ t.list = c.list /\ t.needed = c.needed + 1
               /\ t.next = c.next
BY DEF StateCall

LEMMA AddStateKeeps ==
  ASSUME Typed, ParsingInv, AddState
  PROVE  Typed' /\ ParsingInv' /\ stage' = "parsing"
<1> DEFINE n == Len(calls)
           a == Top.list[Top.next]
           T == [Top EXCEPT !.next = @ + 1]
           rest == Append(Front(calls), T)
<1>1. /\ stage = "parsing" /\ calls # <<>> /\ Top.needed = Len(Top.list) /\ Top.next <= Len(Top.list)
      /\ addState(a, rest) /\ todo' = todo /\ UNCHANGED <<project, tables, listAsset>>
  BY DEF AddState, Goes
<1>2. /\ calls \in Seq(StateCall) /\ n \in Nat /\ n > 0 /\ n \in 1..n /\ Top = calls[n]
      /\ Top \in StateCall
      /\ \A i \in 1..n :
           /\ calls[i].asset \in DOMAIN dicBuildState /\ calls[i].list = dicDep[calls[i].asset]
           /\ calls[i].asset \in Assets /\ calls[i].list \in Seq(Assets)
           /\ ToSet(calls[i].list) = Dep[calls[i].asset]
           /\ calls[i].next \in Nat /\ calls[i].next > 0 /\ Len(calls[i].list) \in Nat
           /\ i # n => calls[i].needed = Len(calls[i].list)
  BY <1>1, StateFrames
<1>3. a \in entries /\ a \in Assets
  <2>1. Top.next \in 1..Len(Top.list)
    BY <1>1, <1>2
  <2>2. a \in Dep[Top.asset]
    BY <1>2, <2>1, TimesEffect
  <2> QED
    BY <1>2, <2>2 DEF ParsingInv, OnlyEntries, Typed
<1>4. /\ T \in StateCall /\ T.asset = Top.asset /\ T.list = Top.list /\ T.needed = Top.needed
      /\ T.next = Top.next + 1
  BY <1>2, NextState
<1> HIDE DEF T
<1>5. /\ rest \in Seq(StateCall) /\ Len(rest) = n /\ rest[n] = T
      /\ \A i \in 1..n : i # n => rest[i] = calls[i]
  <2>1. rest \in Seq(StateCall) /\ Len(rest) = n /\ rest[n] = T /\ \A i \in 1..(n - 1) : rest[i] = calls[i]
    BY <1>1, <1>2, <1>4, GoesEffect
  <2> QED
    BY <1>2, <2>1
<1> HIDE DEF rest
<1>6. \A i \in 1..n : /\ rest[i].asset = calls[i].asset /\ rest[i].list = calls[i].list
                      /\ rest[i].needed = calls[i].needed
                      /\ rest[i].next = IF i = n THEN calls[i].next + 1 ELSE calls[i].next
  BY <1>2, <1>4, <1>5
<1>7. \A i \in 1..Len(rest) :
        /\ rest[i].asset \in DOMAIN dicBuildState /\ rest[i].list = dicDep[rest[i].asset]
        /\ rest[i].next > 0 /\ rest[i].needed = Len(rest[i].list)
  <2>1. ASSUME NEW i \in 1..n
        PROVE  /\ rest[i].asset \in DOMAIN dicBuildState /\ rest[i].list = dicDep[rest[i].asset]
               /\ rest[i].next > 0 /\ rest[i].needed = Len(rest[i].list)
    <3>1. calls[i].next + 1 > 0
      BY <1>2
    <3> QED
      BY <1>1, <1>2, <1>6, <3>1
  <2> QED
    BY <1>5, <2>1
<1>8. ASSUME NEW x, AheadIn(x, todo, calls) PROVE x = a \/ AheadIn(x, todo', rest)
  <2>1. CASE x \in ToSet(todo)
    BY <1>1, <2>1 DEF AheadIn
  <2>2. CASE \E i \in 1..n : \E k \in 1..Len(calls[i].list) :
               calls[i].next <= k /\ calls[i].list[k] = x
    <3>1. PICK i \in 1..n : \E k \in 1..Len(calls[i].list) :
                              calls[i].next <= k /\ calls[i].list[k] = x
      BY <2>2
    <3>2. PICK k \in 1..Len(calls[i].list) : calls[i].next <= k /\ calls[i].list[k] = x
      BY <3>1
    <3>3. i = n /\ k = calls[i].next => x = a
      BY <1>2, <3>2
    <3>4. ~(i = n /\ k = calls[i].next) => rest[i].next <= k
      BY <1>2, <1>6, <3>2
    <3> QED
      BY <1>5, <1>6, <3>2, <3>3, <3>4 DEF AheadIn
  <2> QED
    BY <1>8, <2>1, <2>2 DEF AheadIn
<1> HIDE DEF a
<1>9. todo' \in Seq(Assets) /\ ToSet(todo') \subseteq entries
  BY <1>1 DEF Typed, ParsingInv
<1> QED
  BY <1>1, <1>3, <1>5, <1>7, <1>8, <1>9, AddStateEffect

(* What a bundle needs is given an id before it is listed.                      *)
LEMMA NeedKeeps ==
  ASSUME Typed, ParsingInv, Need
  PROVE  Typed' /\ ParsingInv' /\ stage' = "parsing"
<1> DEFINE n == Len(calls)
           a == Top.asset
           k == Top.needed
           d == Top.list[k + 1]
           T == [Top EXCEPT !.needed = @ + 1]
<1>1. /\ stage = "parsing" /\ calls # <<>> /\ k < Len(Top.list) /\ getBundleId(d)
      /\ dicBuildState' = [dicBuildState EXCEPT ![a] = @ \cup {dicBundleId'[d]}]
      /\ calls' = Append(Front(calls), T)
      /\ todo' = todo /\ stage' = stage /\ UNCHANGED <<project, tables, listAsset>>
  BY DEF Need, Goes
<1>2. /\ calls \in Seq(StateCall) /\ n \in Nat /\ n > 0 /\ n \in 1..n /\ Top = calls[n]
      /\ Top \in StateCall
      /\ \A i \in 1..n :
           /\ calls[i].asset \in DOMAIN dicBuildState /\ calls[i].list = dicDep[calls[i].asset]
           /\ calls[i].asset \in Assets /\ calls[i].list \in Seq(Assets)
           /\ ToSet(calls[i].list) = Dep[calls[i].asset]
           /\ calls[i].next \in Nat /\ calls[i].next > 0 /\ Len(calls[i].list) \in Nat
           /\ calls[i].needed \in Nat /\ calls[i].needed <= Len(calls[i].list)
           /\ i # n => calls[i].needed = Len(calls[i].list)
  BY <1>1, StateFrames
<1>3. /\ DownOnly' /\ FilesStay' /\ OnlyEntries' /\ Kept' /\ PackedApart'
      /\ Dep' = Dep /\ entries' = entries /\ dicDep' = dicDep
      /\ refers' = refers /\ files' = files /\ dicDepBy' = dicDepBy /\ listAsset' = listAsset
      /\ ToSet(todo)' \subseteq entries'
  BY <1>1, NotParsedAway DEF ParsingInv, project, tables
<1>4. k + 1 \in 1..Len(Top.list) /\ k \in Nat /\ d \in Assets /\ Top.next = 1
  <2>1. k + 1 \in 1..Len(Top.list) /\ k \in Nat
    BY <1>1, <1>2
  <2>2. d \in Assets
    BY <1>2, <2>1, ElementOfSeq
  <2> QED
    BY <1>1, <1>2, <2>1, <2>2 DEF ParsingInv, StateCalls
<1>5. /\ T \in StateCall /\ T.asset = a /\ T.list = Top.list /\ T.needed = k + 1 /\ T.next = 1
  BY <1>2, <1>4, NextState
<1> HIDE DEF T
<1>6. /\ calls' \in Seq(StateCall) /\ Len(calls') = n /\ calls'[n] = T /\ Top' = T /\ calls' # <<>>
      /\ \A i \in 1..n : i # n => calls'[i] = calls[i]
  <2>1. /\ calls' \in Seq(StateCall) /\ Len(calls') = n /\ calls'[n] = T
        /\ \A i \in 1..(n - 1) : calls'[i] = calls[i]
    BY <1>1, <1>2, <1>5, GoesEffect
  <2> QED
    BY <1>2, <2>1 DEF Top, Last
<1>7. /\ DOMAIN dicBundleId' = DOMAIN dicBundleId \cup {d}
      /\ dicBundleId' \in [DOMAIN dicBundleId' -> Nat] /\ Id' \in Nat
      /\ \A x \in DOMAIN dicBundleId : dicBundleId'[x] = dicBundleId[x]
      /\ IdsDiffer'
  BY <1>1, <1>4, GetBundleIdEffect DEF ParsingInv
<1>8. /\ DOMAIN dicBuildState' = DOMAIN dicBuildState
      /\ dicBuildState \in [DOMAIN dicBuildState -> SUBSET Nat]
      /\ a \in DOMAIN dicBuildState /\ dicBuildState'[a] = dicBuildState[a] \cup {dicBundleId'[d]}
      /\ \A b \in DOMAIN dicBuildState : b # a => dicBuildState'[b] = dicBuildState[b]
  BY <1>1, <1>2 DEF Typed
<1>9. Typed'
  <2>1. dicBundleId'[d] \in Nat
    BY <1>7
  <2>2. dicBuildState' \in [DOMAIN dicBuildState -> SUBSET Nat]
    BY <1>1, <1>8, <2>1
  <2> QED
    BY <1>1, <1>3, <1>4, <1>6, <1>7, <1>8, <2>2 DEF Typed
<1>10. \A i \in 1..n : /\ calls'[i].asset = calls[i].asset /\ calls'[i].list = calls[i].list
                       /\ calls'[i].next = calls[i].next
                       /\ calls'[i].needed = IF i = n THEN k + 1 ELSE calls[i].needed
  BY <1>2, <1>4, <1>5, <1>6
<1>11. AllAhead'
  <2>1. ASSUME NEW x \in DOMAIN dicBundleId', x \notin DOMAIN dicBuildState
        PROVE  AheadIn(x, todo', calls')
    <3>1. CASE x = d
      <4>1. calls'[n].next <= k + 1 /\ calls'[n].list[k + 1] = x /\ k + 1 \in 1..Len(calls'[n].list)
        BY <1>2, <1>4, <1>10, <3>1
      <4> QED
        BY <1>2, <1>6, <4>1 DEF AheadIn
    <3>2. CASE x # d
      <4>1. AheadIn(x, todo, calls)
        BY <1>7, <2>1, <3>2 DEF ParsingInv, AllAhead
      <4> QED
        BY <1>1, <1>6, <1>10, <4>1 DEF AheadIn
    <3> QED
      BY <3>1, <3>2
  <2> QED
    BY <1>8, <2>1 DEF AllAhead, AheadIn
<1>12. StateCalls'
  <2>1. ASSUME NEW i \in 1..n
        PROVE  /\ calls'[i].asset \in DOMAIN dicBuildState /\ calls'[i].list = dicDep[calls'[i].asset]
               /\ calls'[i].next > 0 /\ calls'[i].needed <= Len(calls'[i].list)
               /\ calls'[i].needed < Len(calls'[i].list) => i = n /\ calls'[i].next = 1
    <3>1. CASE i = n
      BY <1>2, <1>4, <1>10, <3>1
    <3>2. CASE i # n
      BY <1>2, <1>10, <3>2
    <3> QED
      BY <3>1, <3>2
  <2> QED
    BY <1>3, <1>6, <1>8, <2>1 DEF StateCalls
<1>13. NeedsSoFar'
  <2> DEFINE before == {Top.list[j] : j \in 1..k}
             after == {Top.list[j] : j \in 1..(k + 1)}
  <2>1. after = before \cup {d}
    <3>1. \A j \in 1..(k + 1) : j \in 1..k \/ j = k + 1
      BY <1>4
    <3>2. k + 1 \in 1..(k + 1) /\ \A j \in 1..k : j \in 1..(k + 1)
      BY <1>4
    <3> QED
      BY <3>1, <3>2
  <2>2. NeedsAre(a, before)
    BY <1>1, <1>8 DEF ParsingInv, NeedsSoFar, Needing
  <2> HIDE DEF before
  <2>3. /\ after \subseteq DOMAIN dicBundleId'
        /\ dicBuildState'[a] = {dicBundleId'[x] : x \in after}
    <3>1. before \subseteq DOMAIN dicBundleId /\ dicBuildState[a] = {dicBundleId[x] : x \in before}
      BY <2>2 DEF NeedsAre
    <3> HIDE DEF after, a, d
    <3>2. {dicBundleId[x] : x \in before} = {dicBundleId'[x] : x \in before}
      BY <1>7, <3>1
    <3>3. after \subseteq DOMAIN dicBundleId'
      BY <1>7, <2>1, <3>1
    <3>4. {dicBundleId'[x] : x \in after} = {dicBundleId'[x] : x \in before} \cup {dicBundleId'[d]}
      BY <2>1
    <3> QED
      BY <1>8, <3>1, <3>2, <3>3, <3>4
  <2>4. ASSUME NEW b \in DOMAIN dicBuildState
        PROVE  /\ b \in DOMAIN dicBundleId'
               /\ \A D : (Needing(b)' /\ D = {Top'.list[j] : j \in 1..Top'.needed})
                          \/ (~Needing(b)' /\ D = Dep[b]) =>
                    D \subseteq DOMAIN dicBundleId' /\ dicBuildState'[b] = {dicBundleId'[x] : x \in D}
    <3>1. b \in DOMAIN dicBundleId'
      BY <1>7 DEF ParsingInv, NeedsSoFar
    <3>2. CASE b = a
      <4>1. {Top'.list[j] : j \in 1..Top'.needed} = after
        BY <1>5, <1>6
      <4>2. Needing(b)' <=> k + 1 < Len(Top.list)
        BY <1>5, <1>6, <3>2 DEF Needing
      <4>3. ~Needing(b)' => Dep[a] = after
        <5>1. ~Needing(b)' => k + 1 = Len(Top.list)
          BY <1>2, <1>4, <4>2
        <5>2. Dep[a] = {Top.list[j] : j \in 1..Len(Top.list)}
          <6>1. Dep[a] = ToSet(Top.list) /\ Top.list \in Seq(Assets)
            BY <1>2
          <6>2. DOMAIN Top.list = 1..Len(Top.list)
            BY <6>1, LenProperties
          <6> QED
            BY <6>1, <6>2 DEF ToSet
        <5> QED
          BY <5>1, <5>2
      <4> HIDE DEF after
      <4> QED
        <5>1. ASSUME NEW D, (Needing(b)' /\ D = {Top'.list[j] : j \in 1..Top'.needed})
                            \/ (~Needing(b)' /\ D = Dep[b])
              PROVE  D = after
          BY <3>2, <4>1, <4>3, <5>1
        <5> QED
          BY <2>3, <3>1, <3>2, <5>1
    <3>3. CASE b # a
      <4>1. ~Needing(b)' /\ ~Needing(b)
        BY <1>5, <1>6, <3>3 DEF Needing
      <4>2. Dep[b] \subseteq DOMAIN dicBundleId /\ dicBuildState[b] = {dicBundleId[x] : x \in Dep[b]}
        BY <4>1 DEF ParsingInv, NeedsSoFar, NeedsAre
      <4>3. {dicBundleId[x] : x \in Dep[b]} = {dicBundleId'[x] : x \in Dep[b]}
        BY <1>7, <4>2
      <4> QED
        BY <1>7, <1>8, <3>1, <3>3, <4>1, <4>2, <4>3
    <3> QED
      BY <3>2, <3>3
  <2> QED
    BY <1>3, <1>8, <2>4 DEF NeedsSoFar, NeedsAre
<1> QED
  BY <1>1, <1>3, <1>7, <1>9, <1>11, <1>12, <1>13 DEF ParsingInv

LEMMA AddStateEndsKeeps ==
  ASSUME Typed, ParsingInv, AddStateEnds
  PROVE  Typed' /\ ParsingInv' /\ stage' = "parsing"
<1> DEFINE n == Len(calls)
<1>1. /\ stage = "parsing" /\ calls # <<>> /\ Top.needed = Len(Top.list) /\ Top.next > Len(Top.list)
      /\ calls' = Front(calls) /\ todo' = todo /\ stage' = stage
      /\ UNCHANGED <<project, tables, listAsset>> /\ UNCHANGED bundles
  BY DEF AddStateEnds
<1>2. /\ calls \in Seq(StateCall) /\ n \in Nat /\ n > 0 /\ n \in 1..n /\ Top = calls[n]
      /\ Top \in StateCall
      /\ \A i \in 1..n :
           /\ calls[i].next \in Nat /\ Len(calls[i].list) \in Nat
           /\ i # n => calls[i].needed = Len(calls[i].list)
  BY <1>1, StateFrames
<1>3. /\ DownOnly' /\ FilesStay' /\ OnlyEntries' /\ Kept' /\ PackedApart'
      /\ Dep' = Dep /\ entries' = entries /\ dicDep' = dicDep
      /\ refers' = refers /\ files' = files /\ dicDepBy' = dicDepBy /\ listAsset' = listAsset
      /\ ToSet(todo)' \subseteq entries'
  BY <1>1, NotParsedAway DEF ParsingInv, project, tables
<1>4. /\ calls' \in Seq(StateCall) /\ Len(calls') = n - 1
      /\ \A i \in 1..(n - 1) : calls'[i] = calls[i] /\ i \in 1..n /\ i # n
  BY <1>1, <1>2, GoesEffect
<1>5. Typed'
  BY <1>1, <1>3, <1>4 DEF Typed, bundles
<1>6. IdsDiffer'
  BY <1>1 DEF ParsingInv, IdsDiffer, bundles
<1>7. AllAhead'
  <2>1. ASSUME NEW x, AheadIn(x, todo, calls) PROVE AheadIn(x, todo', calls')
    <3>1. CASE x \in ToSet(todo)
      BY <1>1, <3>1 DEF AheadIn
    <3>2. CASE \E i \in 1..n : \E k \in 1..Len(calls[i].list) :
                 calls[i].next <= k /\ calls[i].list[k] = x
      <4>1. PICK i \in 1..n : \E k \in 1..Len(calls[i].list) :
                                calls[i].next <= k /\ calls[i].list[k] = x
        BY <3>2
      <4>2. i # n
        BY <1>1, <1>2, <4>1
      <4>3. i \in 1..(n - 1)
        BY <1>2, <4>2
      <4> QED
        BY <1>4, <4>1, <4>3 DEF AheadIn
    <3> QED
      BY <2>1, <3>1, <3>2 DEF AheadIn
  <2> QED
    BY <1>1, <2>1 DEF ParsingInv, AllAhead, bundles
<1>8. StateCalls'
  <2>1. ASSUME NEW i \in 1..(n - 1)
        PROVE  /\ calls'[i].asset \in DOMAIN dicBuildState /\ calls'[i].list = dicDep[calls'[i].asset]
               /\ calls'[i].next > 0 /\ calls'[i].needed <= Len(calls'[i].list)
               /\ ~(calls'[i].needed < Len(calls'[i].list))
    BY <1>2, <1>4 DEF ParsingInv, StateCalls
  <2> QED
    BY <1>1, <1>3, <1>4, <2>1 DEF StateCalls, bundles
<1>9. NeedsSoFar'
  <2>1. \A b : ~Needing(b)
    BY <1>1, <1>2 DEF Needing
  <2>2. ASSUME calls' # <<>> PROVE ~(Top'.needed < Len(Top'.list))
    <3>1. n - 1 \in 1..(n - 1)
      BY <1>2, <1>4, <2>2, EmptySeq
    <3>2. Top' = calls[n - 1]
      BY <1>4, <3>1 DEF Top, Last
    <3> QED
      BY <1>2, <1>4, <3>1, <3>2
  <2>3. \A b : ~Needing(b)'
    BY <2>2 DEF Needing
  <2> QED
    BY <1>1, <1>3, <2>1, <2>3 DEF ParsingInv, NeedsSoFar, NeedsAre, bundles
<1> QED
  BY <1>1, <1>3, <1>5, <1>6, <1>7, <1>8, <1>9 DEF ParsingInv

LEMMA ParsedKeeps ==
  ASSUME Typed, ParsingInv, Parsed
  PROVE  Typed' /\ ParsingInv' /\ stage' = "parsed"
<1>1. /\ stage = "parsing" /\ calls = <<>> /\ todo = <<>> /\ stage' = "parsed"
      /\ calls' = calls /\ todo' = todo
      /\ UNCHANGED <<project, tables, listAsset>> /\ UNCHANGED bundles
  BY DEF Parsed
<1>2. /\ DownOnly' /\ FilesStay' /\ OnlyEntries' /\ Kept' /\ PackedApart'
      /\ Dep' = Dep /\ entries' = entries /\ dicDep' = dicDep
      /\ refers' = refers /\ files' = files /\ dicDepBy' = dicDepBy /\ listAsset' = listAsset
      /\ ToSet(todo)' \subseteq entries'
  BY <1>1, NotParsedAway DEF ParsingInv, project, tables
<1>3. Typed'
  BY <1>1, <1>2 DEF Typed, bundles
<1>4. IdsDiffer' /\ AllAhead' /\ StateCalls' /\ NeedsSoFar'
  BY <1>1, <1>2
  DEF ParsingInv, IdsDiffer, AllAhead, AheadIn, StateCalls, NeedsSoFar, NeedsAre, Needing, Top, bundles
<1> QED
  BY <1>1, <1>2, <1>3, <1>4 DEF ParsingInv

-----------------------------------------------------------------------------
(* Every step keeps the invariant.                                            *)
LEMMA StepInv == Inv /\ [Next]_vars => Inv'
<1>1. SUFFICES ASSUME Inv, [Next]_vars PROVE Inv'
  OBVIOUS
<1>2. Typed
  BY <1>1 DEF Inv
<1>3. ASSUME stage = "adding" PROVE AddingInv
  BY <1>1, <1>3 DEF Inv
<1>4. ASSUME stage = "merging" PROVE MergingInv
  BY <1>1, <1>4 DEF Inv
<1>5. ASSUME stage = "parsing" PROVE ParsingInv
  BY <1>1, <1>5 DEF Inv
<1>6. ASSUME NEW a \in Assets, AddFile(a) PROVE Inv'
  <2>1. AddingInv
    BY <1>3, <1>6 DEF AddFile
  <2> QED
    BY <1>2, <1>6, <2>1, AddFileKeeps DEF Inv
<1>7. ASSUME NEW a \in Assets, Move(a) PROVE Inv'
  <2>1. AddingInv
    BY <1>3, <1>7 DEF Move
  <2> QED
    BY <1>2, <1>7, <2>1, MoveKeeps DEF Inv
<1>8. ASSUME NEW a \in Assets, MergeOne(a) PROVE Inv'
  <2>1. MergingInv
    BY <1>4, <1>8 DEF MergeOne, MergesAt
  <2> QED
    BY <1>2, <1>8, <2>1, MergeOneKeeps DEF Inv
<1>9. ASSUME NEW a \in Assets, DropOne(a) PROVE Inv'
  <2>1. MergingInv
    BY <1>4, <1>9 DEF DropOne, MergesAt
  <2> QED
    BY <1>2, <1>9, <2>1, DropOneKeeps DEF Inv
<1>10. ASSUME NEW a \in Assets, KeepOne(a) PROVE Inv'
  <2>1. MergingInv
    BY <1>4, <1>10 DEF KeepOne, MergesAt
  <2> QED
    BY <1>2, <1>10, <2>1, KeepOneKeeps DEF Inv
<1>11. ASSUME Line PROVE Inv'
  <2>1. AddingInv
    BY <1>3, <1>11 DEF Line
  <2> QED
    BY <1>2, <1>11, <2>1, LineKeeps DEF Inv
<1>12. ASSUME LineEnds PROVE Inv'
  <2>1. AddingInv
    BY <1>3, <1>12 DEF LineEnds
  <2> QED
    BY <1>2, <1>12, <2>1, LineEndsKeeps DEF Inv
<1>13. ASSUME MergeDependencies PROVE Inv'
  <2>1. AddingInv
    BY <1>3, <1>13 DEF MergeDependencies
  <2> QED
    BY <1>2, <1>13, <2>1, MergeDependenciesKeeps DEF Inv
<1>14. ASSUME MergeFile PROVE Inv'
  <2>1. MergingInv
    BY <1>4, <1>14 DEF MergeFile
  <2> QED
    BY <1>2, <1>14, <2>1, MergeFileKeeps DEF Inv
<1>15. ASSUME MergeEnds PROVE Inv'
  <2>1. MergingInv
    BY <1>4, <1>15 DEF MergeEnds
  <2> QED
    BY <1>2, <1>15, <2>1, MergeEndsKeeps DEF Inv
<1>16. ASSUME parseDepTable PROVE Inv'
  <2>1. MergingInv
    BY <1>4, <1>16 DEF parseDepTable
  <2> QED
    BY <1>2, <1>16, <2>1, ParseKeeps DEF Inv
<1>17. ASSUME AddFileState PROVE Inv'
  <2>1. ParsingInv
    BY <1>5, <1>17 DEF AddFileState
  <2> QED
    BY <1>2, <1>17, <2>1, AddFileStateKeeps DEF Inv
<1>18. ASSUME AddState PROVE Inv'
  <2>1. ParsingInv
    BY <1>5, <1>18 DEF AddState
  <2> QED
    BY <1>2, <1>18, <2>1, AddStateKeeps DEF Inv
<1>19. ASSUME Need PROVE Inv'
  <2>1. ParsingInv
    BY <1>5, <1>19 DEF Need
  <2> QED
    BY <1>2, <1>19, <2>1, NeedKeeps DEF Inv
<1>20. ASSUME AddStateEnds PROVE Inv'
  <2>1. ParsingInv
    BY <1>5, <1>20 DEF AddStateEnds
  <2> QED
    BY <1>2, <1>20, <2>1, AddStateEndsKeeps DEF Inv
<1>21. ASSUME Parsed PROVE Inv'
  <2>1. ParsingInv
    BY <1>5, <1>21 DEF Parsed
  <2> QED
    BY <1>2, <1>21, <2>1, ParsedKeeps DEF Inv
<1>22. ASSUME UNCHANGED vars PROVE Inv'
  <2>1. /\ refers' = refers /\ files' = files /\ entries' = entries /\ dicDep' = dicDep
        /\ dicDepBy' = dicDepBy /\ listAsset' = listAsset /\ calls' = calls /\ stage' = stage
        /\ todo' = todo /\ dicBundleId' = dicBundleId /\ Id' = Id /\ dicBuildState' = dicBuildState
    BY <1>22 DEF vars, project, tables, bundles
  <2>2. (\A b : Under(b)' = Under(b) /\ Reduced(b)' = Reduced(b)) /\ Dep' = Dep /\ Added' = Added
    BY <2>1, SameUnder DEF Dep, Added
  <2>3. Typed'
    BY <1>2, <2>1 DEF Typed
  <2>4. ASSUME stage = "adding" PROVE AddingInv'
    BY <1>3, <2>1, <2>2, <2>4
    DEF AddingInv, DownOnly, NoEntryNoList, Descends, CallsHaveLists, CountsAgree, ListedOnce,
        LineLists, LineList, Moving, Linked, MovedSoFar, HasMoved, AtRest, Listed, NoBundles
  <2>5. ASSUME stage = "merging" PROVE MergingInv'
    BY <1>4, <2>1, <2>2, <2>5
    DEF MergingInv, DownOnly, NoEntryNoList, Descends, CallsHaveLists, FilesStay, DependentsKnown,
        LeftOvers, Kept, PackedApart, Owned, NoBundles
  <2>6. ASSUME stage \in {"parsing", "parsed"} PROVE ParsingInv'
    <3>1. ParsingInv
      BY <1>1, <2>6 DEF Inv
    <3> QED
      BY <2>1, <2>2, <3>1
      DEF ParsingInv, DownOnly, FilesStay, OnlyEntries, Kept, PackedApart, Owned, IdsDiffer, AllAhead,
          AheadIn, StateCalls, NeedsSoFar, NeedsAre, Needing, Top
  <2> QED
    BY <2>1, <2>3, <2>4, <2>5, <2>6 DEF Inv
<1> QED
  BY <1>1, <1>6, <1>7, <1>8, <1>9, <1>10, <1>11, <1>12, <1>13, <1>14, <1>15, <1>16, <1>17, <1>18,
     <1>19, <1>20, <1>21, <1>22 DEF Next

LEMMA AlwaysInv == Spec => []Inv
BY InitInv, StepInv, PTL DEF Spec

(* The tables, the calls and the ids are what the code takes them for at every *)
(* step, and no asset that is looked up has no list: a build does not fail.     *)
THEOREM TablesTyped == Spec => []Typed
<1>1. Inv => Typed
  BY DEF Inv
<1> QED
  BY <1>1, AlwaysInv, PTL

(* The tables of dependencies and of dependents are the inverse of each other   *)
(* at every step of addAsset and parseToLineDepdencies, for every project.     *)
THEOREM TablesAgreeAlways == Spec => []TablesAgree
<1>1. Inv => TablesAgree
  <2>1. SUFFICES ASSUME Inv, stage = "adding", NEW a \in Assets, NEW d \in Assets
                 PROVE  d \in Dep[a] <=> dicDepBy[d][a] > 0
    BY DEF TablesAgree
  <2>2. dicDepBy[d][a] = Times(dicDep[a], d)
    BY <2>1 DEF Inv, AddingInv, CountsAgree
  <2>3. dicDep[a] \in Seq(Assets) /\ Dep[a] = ToSet(dicDep[a])
    BY <2>1, UnderEffect DEF Inv
  <2> QED
    BY <2>2, <2>3, TimesEffect
<1> QED
  BY <1>1, AlwaysInv, PTL

(* What addAsset leaves of the dependencies is the transitive reduction of the *)
(* project, whatever the files, their order and the order of what they need.   *)
THEOREM LinesAreReduced == Spec => []LineDependencies
<1>1. Inv => LineDependencies
  <2>1. SUFFICES ASSUME Inv, stage = "adding", calls = <<>>, NEW a \in Added
                 PROVE  Dep[a] = {d \in refers[a] : \A x \in refers[a] \ {d} : d \notin Below(refers, x)}
    BY DEF LineDependencies
  <2>2. Typed /\ AddingInv
    BY <2>1 DEF Inv
  <2>3. \A b \in entries : b \in Assets /\ Dep[b] = Reduced(b) /\ Under(b) \subseteq entries
    BY <2>1, <2>2 DEF AddingInv, AtRest, Typed
  <2>4. a \in entries
    BY <2>2, <2>3 DEF AddingInv, Listed, Added, Under
  <2>5. IsGraph(refers) /\ HasNoCycle(refers) /\ Dep[a] = ReducedIn(refers, a) /\ a \in Assets
    BY <2>2, <2>3, <2>4, UnderEffect
  <2> QED
    BY <2>5, ReducedIs
<1> QED
  BY <1>1, AlwaysInv, PTL

(* mergeAssetDep keeps what leads to what among the bundles it leaves.          *)
THEOREM MergingKeepsDependencies == Spec => []DependenciesKept
<1>1. Inv => DependenciesKept
  <2>1. SUFFICES ASSUME Inv, Merged, NEW a \in entries
                 PROVE  Below(Dep, a) = Below(refers, a) \cap entries
    BY DEF DependenciesKept
  <2>2. Typed /\ ParsingInv
    BY <2>1 DEF Inv, Merged
  <2>3. /\ a \in Assets /\ IsGraph(refers) /\ IsGraph(Dep) /\ entries \in SUBSET Assets
        /\ \A b \in Assets : Dep[b] \subseteq Below(refers, b) /\ Dep[b] \subseteq entries
    BY <2>2, UnderEffect DEF Typed, ParsingInv, DownOnly, OnlyEntries, Under
  <2>4. Below(Dep, a) \subseteq Below(refers, a)
    BY <2>3, WithinBelow
  <2>5. Below(Dep, a) \subseteq entries
    BY <2>3, BelowEffect
  <2>6. Below(refers, a) \cap entries \subseteq Below(Dep, a)
    BY <2>2 DEF ParsingInv, Kept, Under
  <2> QED
    BY <2>4, <2>5, <2>6
<1> QED
  BY <1>1, AlwaysInv, PTL

(* No asset that mergeAssetDep leaves without a bundle is packed into two that *)
(* do not depend on each other.                                               *)
THEOREM NothingIsPackedTwice == Spec => []PackedOnce
<1>1. Inv => PackedOnce
  <2>1. SUFFICES ASSUME Inv, Merged, NEW x \in Added \ entries
                 PROVE  \E owner \in entries :
                          /\ x \in Below(refers, owner)
                          /\ \A a \in entries :
                               x \in Below(refers, a) => a = owner \/ owner \in Below(Dep, a)
    BY DEF PackedOnce
  <2>2. ParsingInv
    BY <2>1 DEF Inv, Merged
  <2>3. PICK owner \in entries :
          /\ x \in Under(owner)
          /\ \A a \in entries : x \in Under(a) => a = owner \/ owner \in Under(a)
    BY <2>1, <2>2 DEF ParsingInv, PackedApart, Owned
  <2>4. \A a \in entries : owner \in Under(a) => owner \in Below(Dep, a)
    BY <2>2 DEF ParsingInv, Kept
  <2> QED
    BY <2>3, <2>4 DEF Under
<1> QED
  BY <1>1, AlwaysInv, PTL

(* Every bundle parseDepTable and addState list has an id of its own and is     *)
(* told the ids of exactly what it depends on, each that of a bundle listed.    *)
THEOREM LoaderAlwaysFindsBundles == Spec => []LoaderFindsItsBundles
<1>1. Inv => LoaderFindsItsBundles
  <2>1. SUFFICES ASSUME Inv PROVE LoaderFindsItsBundles
    OBVIOUS
  <2>2. stage # "failed"
    BY <2>1 DEF Inv, Typed
  <2>3. ASSUME stage = "parsed"
        PROVE  /\ IsInjective(dicBundleId)
               /\ DOMAIN dicBuildState = DOMAIN dicBundleId
               /\ \A a \in DOMAIN dicBuildState :
                    dicBuildState[a] = {dicBundleId[d] : d \in Dep[a]}
    <3>1. ParsingInv /\ calls = <<>> /\ todo = <<>> /\ Len(calls) = 0
      BY <2>1, <2>3 DEF Inv, ParsingInv
    <3>2. IsInjective(dicBundleId)
      BY <3>1 DEF ParsingInv, IdsDiffer, IsInjective
    <3>3. \A x : ~AheadIn(x, todo, calls)
      BY <3>1, EmptyList DEF AheadIn
    <3>4. DOMAIN dicBundleId \subseteq DOMAIN dicBuildState
      BY <3>1, <3>3 DEF ParsingInv, AllAhead
    <3>5. \A a \in DOMAIN dicBuildState : a \in DOMAIN dicBundleId /\ NeedsAre(a, Dep[a])
      BY <3>1 DEF ParsingInv, NeedsSoFar, Needing
    <3> QED
      BY <3>2, <3>4, <3>5 DEF NeedsAre
  <2> QED
    BY <2>2, <2>3 DEF LoaderFindsItsBundles
<1> QED
  BY <1>1, AlwaysInv, PTL

=============================================================================
