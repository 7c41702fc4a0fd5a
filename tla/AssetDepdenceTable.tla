------------------------- MODULE AssetDepdenceTable -------------------------
(***************************************************************************)
(* Which assets become bundles of their own, and which bundle needs which:   *)
(* AssetDepdenceTable and BundleDepdenciesTable of Common/ResourceMgr/       *)
(* AssetBundle/Editor, the way AssetBundleTool.BuildBundles drives them. The  *)
(* files under the bundle paths are added one by one, then dependencies are   *)
(* merged, then bundles are numbered. Each part recurses: the calls it is in  *)
(* are a stack, the innermost last.                                         *)
(***************************************************************************)
EXTENDS Integers, FiniteSets, SequencesExt

CONSTANTS
  Assets,    \* the assets of the project
  Graphs     \* what each asset refers to, one of these

\* The least set of assets that has what an asset refers to, and what those do.
Below(graph, a) ==
  {x \in Assets : \A S \in SUBSET Assets :
     graph[a] \subseteq S /\ (\A y \in S : graph[y] \subseteq S) => x \in S}

\* (The code recurses without an end where assets refer to each other.)
ASSUME AssetsAssumption ==
  /\ IsFiniteSet(Assets)
  /\ Graphs \subseteq [Assets -> SUBSET Assets]
  /\ \A graph \in Graphs : \A a \in Assets : a \notin Below(graph, a)

VARIABLES
  refers,         \* for every asset, those it refers to itself
  files,          \* the assets under the bundle paths
  entries,        \* the keys of dicDep
  dicDep,         \* for every asset, the list of those it depends on
  dicDepBy,       \* how often each asset is in the list of those that depend on one
  listAsset,      \* the files added
  calls,          \* the calls in progress
  stage,          \* how far the build is
  todo,           \* the files that the loop over listAsset has still to come to
  dicBundleId,    \* the ids given to assets ..
  Id,             \* .. and how many
  dicBuildState   \* the ids each bundle listed so far needs

project == <<refers, files>>
tables == <<entries, dicDep, dicDepBy>>
bundles == <<dicBundleId, Id, dicBuildState>>
vars == <<project, tables, listAsset, calls, stage, todo, bundles>>

\* AssetDatabase.GetDependencies of an asset without itself, in some order.
GetDependencies(a) == SetToSeqs(Below(refers, a))

AddedOnce(list, a) == IF Contains(list, a) THEN list ELSE Append(list, a)
AtLeastOne(n) == IF n = 0 THEN 1 ELSE n
OneLess(n) == IF n = 0 THEN 0 ELSE n - 1
Only(a) == [x \in Assets |-> IF x = a THEN 1 ELSE 0]

Top == Last(calls)
Caller == Last(Front(calls))
Goes(call) == Append(Front(calls), call)

Init ==
  /\ refers \in Graphs
  /\ files \in SUBSET Assets \ {{}}
  /\ entries = {}
  /\ dicDep = [a \in Assets |-> <<>>]
  /\ dicDepBy = [d \in Assets |-> [a \in Assets |-> 0]]
  /\ listAsset = <<>> /\ calls = <<>> /\ stage = "adding" /\ todo = <<>>
  /\ dicBundleId = <<>> /\ Id = 0 /\ dicBuildState = <<>>

-----------------------------------------------------------------------------
\* addAsset up to its loop over what the file depends on, all of which is listed
\* whether or not it is already.
AddFile(a) ==
  /\ stage = "adding" /\ calls = <<>>
  /\ a \in files /\ ~Contains(listAsset, a)
  /\ \E list \in GetDependencies(a) : dicDep' = [dicDep EXCEPT ![a] = @ \o list]
  /\ dicDepBy' = [d \in Assets |->
       IF d \in Below(refers, a) THEN [dicDepBy[d] EXCEPT ![a] = @ + 1] ELSE dicDepBy[d]]
  /\ entries' = entries \cup {a}
  /\ calls' = <<[asset |-> a, moving |-> {}, list |-> dicDep'[a], next |-> 1]>>
  /\ UNCHANGED <<project, listAsset, stage, todo, bundles>>

\* The next asset of the list: parseToLineDepdencies is called for it.
Line ==
  LET d == Top.list[Top.next]
  IN /\ stage = "adding" /\ calls # <<>>
     /\ Top.moving = {} /\ Top.next <= Len(Top.list)
     /\ entries' = entries \cup {d}
     /\ calls' = Append(Goes([Top EXCEPT !.next = @ + 1]),
          [asset |-> d, moving |-> Below(refers, d), list |-> dicDep[d], next |-> 1])
     /\ UNCHANGED <<project, dicDep, dicDepBy, listAsset, stage, todo, bundles>>

\* Mutant: the caller stays one of those that depend on the asset.
MovedKeepsBy(by, from, to) == [by EXCEPT ![to] = AtLeastOne(@)]

\* .. of those that depend on an asset: to does, from no longer directly.
MovedBy(by, from, to) == [by EXCEPT ![to] = AtLeastOne(@), ![from] = OneLess(@)]

\* One of the dependencies of the asset moves down from the caller's list.
Move(x) ==
  LET from == Caller.asset
      to == Top.asset
  IN /\ stage = "adding" /\ calls # <<>> /\ x \in Top.moving
     /\ dicDep' = [dicDep EXCEPT ![to] = AddedOnce(@, x), ![from] = RemoveFirst(@, x)]
     /\ dicDepBy' = [dicDepBy EXCEPT ![x] = MovedBy(@, from, to)]
     /\ calls' = Goes([Top EXCEPT !.moving = @ \ {x}, !.list = dicDep'[to]])
     /\ UNCHANGED <<project, entries, listAsset, stage, todo, bundles>>

\* Mutant: nothing is moved further down.
LineEndsEarly ==
  /\ stage = "adding" /\ calls # <<>> /\ Top.moving = {}
  /\ Len(calls) > 1 \/ Top.next > Len(Top.list)
  /\ calls' = Front(calls)
  /\ listAsset' = IF Len(calls) = 1 THEN Append(listAsset, Top.asset) ELSE listAsset
  /\ UNCHANGED <<project, tables, stage, todo, bundles>>

\* The loop has ended: parseToLineDepdencies returns, or addAsset lists its file.
LineEnds ==
  /\ stage = "adding" /\ calls # <<>>
  /\ Top.moving = {} /\ Top.next > Len(Top.list)
  /\ calls' = Front(calls)
  /\ listAsset' = IF Len(calls) = 1 THEN Append(listAsset, Top.asset) ELSE listAsset
  /\ UNCHANGED <<project, tables, stage, todo, bundles>>

-----------------------------------------------------------------------------
MergeDependencies ==
  /\ stage = "adding" /\ calls = <<>> /\ ToSet(listAsset) = files
  /\ stage' = "merging" /\ todo' = listAsset
  /\ UNCHANGED <<project, tables, listAsset, calls, bundles>>

\* mergeAssetDep is called for the next file, or for an asset below.
MergeFile ==
  /\ stage = "merging" /\ calls = <<>> /\ todo # <<>>
  /\ calls' = <<[asset |-> Head(todo), next |-> 1]>>
  /\ todo' = Tail(todo)
  /\ UNCHANGED <<project, tables, listAsset, stage, bundles>>

\* Mutant: an asset several others need is merged into the first of them.
SomeNeed(d) == d \notin files /\ \E a \in Assets : dicDepBy[d][a] > 0

\* d is merged into what needs it: it is no file under the bundle paths.
OnlyOneNeeds(d) == d \notin files /\ \E a \in Assets : dicDepBy[d] = Only(a)

\* Mutant: what d depends on is forgotten.
InheritedNothing(a, d, rest) ==
  /\ dicDep' = [dicDep EXCEPT ![a] = rest, ![d] = <<>>]
  /\ UNCHANGED dicDepBy

\* How often an asset is in a list.
Times(list, x) == Cardinality({i \in 1..Len(list) : list[i] = x})

\* d is no bundle: a inherits what d depends on, once for each time it is listed.
Inherited(a, d, rest) ==
  /\ dicDep' = [dicDep EXCEPT ![a] = rest \o dicDep[d], ![d] = <<>>]
  /\ dicDepBy' = [x \in Assets |->
       IF Contains(dicDep[d], x)
       THEN [dicDepBy[x] EXCEPT ![a] = AtLeastOne(@),
                                ![d] = IF @ > Times(dicDep[d], x)
                                       THEN @ - Times(dicDep[d], x) ELSE 0]
       ELSE dicDepBy[x]]

\* The loop of mergeAssetDep over the list of its asset, at an asset ..
MergesAt(d) ==
  /\ stage = "merging" /\ calls # <<>>
  /\ Top.next <= Len(dicDep[Top.asset])
  /\ d = dicDep[Top.asset][Top.next]

\* .. that is merged and begins the loop again,
MergeOne(d) ==
  /\ MergesAt(d) /\ OnlyOneNeeds(d) /\ d \in entries
  /\ Inherited(Top.asset, d, RemoveAt(dicDep[Top.asset], Top.next))
  /\ entries' = entries \ {d}
  /\ calls' = Goes([Top EXCEPT !.next = 1])
  /\ UNCHANGED <<project, listAsset, stage, todo, bundles>>

\* .. that was merged before and is still in the list,
DropOne(d) ==
  /\ MergesAt(d) /\ OnlyOneNeeds(d) /\ d \notin entries
  /\ dicDep' = [dicDep EXCEPT ![Top.asset] = RemoveAt(@, Top.next)]
  /\ UNCHANGED <<project, entries, dicDepBy, listAsset, calls, stage, todo, bundles>>

\* .. that stays: dicDep[assetDep] throws if it has no list.
KeepOne(d) ==
  /\ MergesAt(d) /\ ~OnlyOneNeeds(d)
  /\ calls' = Append(Goes([Top EXCEPT !.next = @ + 1]), [asset |-> d, next |-> 1])
  /\ stage' = IF d \in entries THEN stage ELSE "failed"
  /\ UNCHANGED <<project, tables, listAsset, todo, bundles>>

MergeEnds ==
  /\ stage = "merging" /\ calls # <<>>
  /\ Top.next > Len(dicDep[Top.asset])
  /\ calls' = Front(calls)
  /\ UNCHANGED <<project, tables, listAsset, stage, todo, bundles>>

-----------------------------------------------------------------------------
parseDepTable ==
  /\ stage = "merging" /\ calls = <<>> /\ todo = <<>>
  /\ stage' = "parsing" /\ todo' = listAsset
  /\ UNCHANGED <<project, tables, listAsset, calls, bundles>>

\* getBundleId, also of a bundle that is only needed so far.
getBundleId(a) ==
  IF a \in DOMAIN dicBundleId THEN UNCHANGED <<dicBundleId, Id>>
  ELSE /\ dicBundleId' = [x \in DOMAIN dicBundleId \cup {a} |->
                            IF x = a THEN Id ELSE dicBundleId[x]]
       /\ Id' = Id + 1

\* The loop of addState at an asset, which continues with rest.
addState(a, rest) ==
  \/ /\ a \in DOMAIN dicBuildState
     /\ calls' = rest
     /\ UNCHANGED <<stage, bundles>>
  \/ /\ a \notin DOMAIN dicBuildState
     /\ dicBuildState' = [x \in DOMAIN dicBuildState \cup {a} |->
                            IF x = a THEN {} ELSE dicBuildState[x]]
     /\ getBundleId(a)
     /\ calls' = Append(rest, [asset |-> a, list |-> dicDep[a], needed |-> 0, next |-> 1])
     /\ stage' = IF a \in entries THEN stage ELSE "failed"

\* .. over listAsset, and over what an asset depends on.
AddFileState ==
  /\ stage = "parsing" /\ calls = <<>> /\ todo # <<>>
  /\ addState(Head(todo), <<>>)
  /\ todo' = Tail(todo)
  /\ UNCHANGED <<project, tables, listAsset>>

\* Mutant: what a file depends on is not listed.
AddNoState ==
  /\ stage = "parsing" /\ calls # <<>> /\ Top.needed = Len(Top.list)
  /\ Top.next <= Len(Top.list)
  /\ calls' = Goes([Top EXCEPT !.next = @ + 1])
  /\ UNCHANGED <<project, tables, listAsset, stage, todo, bundles>>

AddState ==
  /\ stage = "parsing" /\ calls # <<>> /\ Top.needed = Len(Top.list)
  /\ Top.next <= Len(Top.list)
  /\ addState(Top.list[Top.next], Goes([Top EXCEPT !.next = @ + 1]))
  /\ UNCHANGED <<project, tables, listAsset, todo>>

\* The id of the next asset of the list is one its asset needs.
Need ==
  LET d == Top.list[Top.needed + 1]
  IN /\ stage = "parsing" /\ calls # <<>> /\ Top.needed < Len(Top.list)
     /\ getBundleId(d)
     /\ dicBuildState' = [dicBuildState EXCEPT ![Top.asset] = @ \cup {dicBundleId'[d]}]
     /\ calls' = Goes([Top EXCEPT !.needed = @ + 1])
     /\ UNCHANGED <<project, tables, listAsset, stage, todo>>

AddStateEnds ==
  /\ stage = "parsing" /\ calls # <<>> /\ Top.needed = Len(Top.list)
  /\ Top.next > Len(Top.list)
  /\ calls' = Front(calls)
  /\ UNCHANGED <<project, tables, listAsset, stage, todo, bundles>>

Parsed ==
  /\ stage = "parsing" /\ calls = <<>> /\ todo = <<>>
  /\ stage' = "parsed"
  /\ UNCHANGED <<project, tables, listAsset, calls, todo, bundles>>

Next ==
  \/ \E a \in Assets : AddFile(a) \/ Move(a) \/ MergeOne(a) \/ DropOne(a) \/ KeepOne(a)
  \/ Line \/ LineEnds \/ MergeDependencies \/ MergeFile \/ MergeEnds
  \/ parseDepTable \/ AddFileState \/ AddState \/ Need \/ AddStateEnds \/ Parsed

Spec == Init /\ [][Next]_vars

-----------------------------------------------------------------------------
Dep == [a \in Assets |-> ToSet(dicDep[a])]
Added == ToSet(listAsset) \cup UNION {Below(refers, a) : a \in ToSet(listAsset)}
Merged == stage \in {"parsing", "parsed"}

(* The table of dependencies and the table of dependents stay the inverse of   *)
(* each other at every step that moves a dependency down, in whatever order    *)
(* files come and dependencies are listed.                                     *)
TablesAgree ==
  stage = "adding" => \A a, d \in Assets : d \in Dep[a] <=> dicDepBy[d][a] > 0

(* However the files refer to each other and whatever their order, what is     *)
(* left of the dependencies is the transitive reduction of the project: a      *)
(* depends on d only when a refers to d and to nothing else that leads to d.   *)
LineDependencies ==
  stage = "adding" /\ calls = <<>> =>
    \A a \in Added :
      Dep[a] = {d \in refers[a] : \A x \in refers[a] \ {d} : d \notin Below(refers, x)}

(* Merging bundles away keeps what depends on what among those left.           *)
DependenciesKept ==
  Merged => \A a \in entries : Below(Dep, a) = Below(refers, a) \cap entries

(* The assets without a bundle are not packed twice: each has one bundle it is  *)
(* packed into, and any other bundle that leads to it depends on that one.      *)
PackedOnce ==
  Merged =>
    \A x \in Added \ entries :
      \E owner \in entries :
        /\ x \in Below(refers, owner)
        /\ \A a \in entries : x \in Below(refers, a) => a = owner \/ owner \in Below(Dep, a)

(* The loader finds every bundle it is told to load first: no asset that is    *)
(* looked up, neither a dependency while bundles are merged nor a file, has    *)
(* been merged away, ids are unique, and each id a bundle needs is that of a   *)
(* bundle listed itself, one for each dependency.                            *)
LoaderFindsItsBundles ==
  /\ stage # "failed"
  /\ stage = "parsed" =>
       /\ IsInjective(dicBundleId)
       /\ DOMAIN dicBuildState = DOMAIN dicBundleId
       /\ \A a \in DOMAIN dicBuildState :
            dicBuildState[a] = {dicBundleId[d] : d \in Dep[a]}

=============================================================================
