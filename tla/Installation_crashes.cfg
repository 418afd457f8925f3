SPECIFICATION Spec
CONSTANTS
  Versions <- MCVersions
  Bindings <- MCBindings
INVARIANTS EntryIsInstalled DriftHasACause
PROPERTY OperationsAreAtomic
