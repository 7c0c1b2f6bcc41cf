\* Two frames of two scopes and two variables: a reference can be passed,
\* hidden, assigned through and dropped.
SPECIFICATION Spec
CONSTANTS
  Names = {"f", "x"}
  Types <- MCTypes
  Values <- MCValues
  Builtins <- MCBuiltins
  MaxFrames = 2
  MaxScopes = 2
  MaxStore = 2
INVARIANTS TypeOK StoreTyped ConstHolders
PROPERTIES ConstNeverChanges
