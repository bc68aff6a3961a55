SPECIFICATION Spec
CONSTANTS
  Null = Null
  Entry <- MCEntries
  Root <- MCRoot
  Ids = {1, 2, 3, 4, 5}
  Initial = {1, 2, 4}
  Hits <- SearchHits
  Refusals <- SearchRefusals
  Attrs = {"sn", "title"}
  Values = {1, 2}
  Names = {"ou", "a", "b", "c", "dc"}
  Queries <- MCQueries
  Filters <- MCAllFilters
  Depth <- MCDepth
  MaxRemoved = 1
INVARIANTS TypeOK MeansWhatItSays WalkCovers NoEmptyPage
CHECK_DEADLOCK FALSE
