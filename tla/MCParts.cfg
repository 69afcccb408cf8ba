\* Every text of up to six characters; two exports of two results to one
\* destination; two processes that start up to three times
\* and need the page-token key; every failure.
SPECIFICATION PartsSpec
CONSTANTS
    e1 = e1
    e2 = e2
    r1 = r1
    r2 = r2
    p1 = p1
    a = a
    b = b
    Exports = {e1, e2}
    Results = {r1, r2}
    Paths = {p1}
    MaxRivals = 1
    MaxCrashes = 1
    Processes = {a, b}
    MaxRestarts = 2
    Alphabets <- MCAlphabets
    MaxLength = 6
CHECK_DEADLOCK FALSE
INVARIANTS
    RivalsKept
    ExportAnswersTrue
    ExportedIsDurable
    OneTokenKey
    TargetsAreStatements
    BoundariesIgnoreSqlMode
    RecoveryFits
PROPERTIES
    ExportsSettle
