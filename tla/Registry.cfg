SPECIFICATION Spec
CONSTANTS
  Names <- MCNames
  Filters <- MCFilters
  Handlers = {h1}
  NoHandler = nullptr
  Ids = {i1, i2}
  MaxTopics = 2
  MaxName = 5
SYMMETRY IdSymmetry
INVARIANTS RegistryTypeOK LimitExceededByOne CoveredHasHandler MessageForItsTopic SubscribedAtGateway MatcherAgrees
PROPERTIES UnsubscribeTakesCovered
