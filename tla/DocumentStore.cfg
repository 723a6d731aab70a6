SPECIFICATION Spec
CONSTANTS
  Ids = {1, 2}
  Inserts <- MCInserts
  Filters <- MCFilters
  Requests <- MCRequests
  Windows <- MCWindows
  Computations <- MCComputations
  Selections <- MCSelections
  Aggregations <- MCAggregations
  BatchSize = 3
  Storable <- MCStorable
  Bson <- MCBson
  Depths <- MCDepths
  Selectors <- MCAllFilters
  Levels <- MCLevels
  EqualsWithin <- MCEquals
  PrecedesWithin <- MCPrecedes
  MatchesWithin <- MCMatches
  HoldsWithin <- MCHolds
  WhereWithin <- MCWhere
  NestedWithin <- MCBranches
  StagesWithin <- MCStages
  AddedFields <- Adding
  ProjectedFields <- Projecting
INVARIANTS
  QueriesMissNothing
  StagesLoseNothing
  UpsertsAgreeWithFilter
  
  InsertsAsOrdered
  BindingIsScoped
  LawsHold
  ProjectionsSelect
