SPECIFICATION FairSpec
CONSTANTS
  search_docs = search_docs
  get_trace = get_trace
  bogus = bogus
  fast = fast
  quality = quality
  other = other
  None = None
  Failed = Failed
  Names = {search_docs, get_trace, bogus}
  Tools = {search_docs, get_trace}
  SearchDocs = search_docs
  UseLists <- SomeLists
  Aliases = {fast, quality}
  NoAlias = other
  Chosen = {fast, other}
  MaxSteps = 2
  MaxTurns = 2
  MaxCost = 1
  MaxUpsets = 1
INVARIANTS
  Paired
  IndexedBySearch
  CostKnown
  StatsAddUp
  ToolsTraced
PROPERTY
  TurnEnds
CHECK_DEADLOCK FALSE
