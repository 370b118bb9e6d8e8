\* Whether an Int attribute persists when it is saved and loaded.
SPECIFICATION Spec
CONSTANTS
  Built <- MCBuilt
  Foreign <- MCForeign
INVARIANT IntAttributesPersist
