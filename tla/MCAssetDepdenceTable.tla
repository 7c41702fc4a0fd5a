------------------------ MODULE MCAssetDepdenceTable ------------------------
EXTENDS AssetDepdenceTable

CONSTANT Number

SomeAssets == 1..Number

\* Every graph without a cycle, but for the names of the assets.
Acyclic ==
  {graph \in [SomeAssets -> SUBSET SomeAssets] :
     \A a \in SomeAssets : \A d \in graph[a] : d < a}

=============================================================================
