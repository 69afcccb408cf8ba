\* The other program keeps out of the rename window, as the doc comment of
\* ConfigWriter requires; the theorems about all but BackupHoldsOriginal and
\* IsAtomic do not need that.  Two crashes, so that a migration undone by a power
\* loss is attempted again.
SPECIFICATION FairSpec
CONSTANTS
    Writers = {w1, w2}
    NoWriter = NoWriter
    Ids = {1, 2, 3}
    Bodies = {"a", "b", "x"}
    ValidBodies = {"a", "b"}
    InitialContents <- MCInitialContents
    CallMutations <- MCMutations
    EditedContents <- MCEditedContents
    BackupContents <- MCBackupContents
    EditInRenameWindow = FALSE
    MaxCalls = 2
    MaxEdits = 1
    MaxCrashes = 2
CHECK_DEADLOCK FALSE
INVARIANTS
    TypeOK
    NeverTorn
    CommittedIsDurable
    OutcomeMatchesCommit
    BackupHoldsOriginal
PROPERTIES
    BackupNeverOverwritten
    IsAtomic
    CallsReturn
