CONSTANTS
    Books <- MCBooks
    Limits <- MCLimits
    CellUnits = 8
    ChunkUnits = 3
    FinePlaces = 4
    PanelLimits <- MCPanelLimits
    MonthDays = 2
    YearMonths = 2
    MaxWindows = 4
    ProofWindow = 4
    MaxDepth = 3
    Inputs <- MCInputs
    Sample <- MCSample
SPECIFICATION DocumentsSpec
INVARIANT SeriesLiesInTheAxis
CHECK_DEADLOCK FALSE
