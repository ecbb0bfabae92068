CONSTANTS
    PageSize = 4
    IdBytes = 2
    PoolPages = 6
    None = None
    Texts = {1, 3, 4, 5, 8}
    Datas = {0, 2, 3, 4, 5}
    Spans = {2, 4, 5, 8, 9}
    Programs <- MCPrograms
    ByteBase = 8
    MaxEntries = 3
    Idents = {0, 5}
    Gaps = {0, 50}
    Tables <- MCTables
    ProgramsFor <- MCProgramsFor
SPECIFICATION FileSpec
INVARIANTS
    LoadedAsLinked
    RefusedOnlyIfShort
    AppliesTable
    ControlAsListed
    StaysInFile
CHECK_DEADLOCK FALSE
