SPECIFICATION Spec
CONSTANTS
    s1 = s1
    s2 = s2
    Sessions <- MCSessions
    Ids = {1, 2, 3, 4}
    Keys = {1, 2, 3}
    Values = {1, 2}
    Null = Null
    NoRow = NoRow
    Same = Same
    NoClause = NoClause
    BatchSize = 1
    Programs <- MCSessionPrograms
    Pieces = {"key", "value", "a", "b", "1", "2", "gte", "gt", "lte", "lt", "ne", "eq", "nil", "il"}
    SortFields = {"key", "value"}
    FilterFields = {"key", "value"}
    Place <- MCPlace
    Number <- MCNumber
    Contains <- MCContains
    EndsWith <- MCEndsWith
    Queries <- MCQueries
    Limit = 2
    Scenarios <- MCScenarios
INVARIANTS TypeOK AcceptedReadAsWritten PagesPartition CountMatchesPages
PROPERTIES WorksInUnits
CHECK_DEADLOCK FALSE
