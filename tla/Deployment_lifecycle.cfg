SPECIFICATION Spec
CONSTANTS
  Versions = {v1, v2}
  Digests = {d1, d2}
INVARIANTS RecordsAreTrue AutostartLaunches AnswersHaveACause
PROPERTIES ForeignIsKept OnlyAcceptedPayloads OfferChangesWhole
SYMMETRY Interchangeable
