SPECIFICATION FairSpec
CONSTANTS
  s1 = s1
  s2 = s2
  s3 = s3
  h1 = h1
  h2 = h2
  h3 = h3
  fruit = fruit
  kg = kg
  block = block
  field = field
  Records <- FewRecords
  Units <- TwoUnits
  FilterDays = {2, 3}
  Places = {block, field}
  Today = 3
  SeriesDays = 2
  MaxFill = 1
  Presets = {3}
  ListLimit = 2
  RecentLimit = 1
  Scenarios <- FewScenarios
  Unset = Unset
  NoData = NoData
INVARIANTS ReportsTypeOK ShownIsAsked ChartsAreWhole TotalsAreExplained ExportButtonIsTrue
PROPERTY LoadingEnds
CHECK_DEADLOCK FALSE
