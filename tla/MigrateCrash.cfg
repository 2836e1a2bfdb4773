\* One crash inside Migrate, one failed sqlite_master query, one later restart.
CONSTANTS
    Files <- MCFiles
    MaxCrashes = 1
    MaxCheckErrors = 1
    MaxRuns = 1
SPECIFICATION Spec
\* Migrate returns: the last start ends in "done" or "failed".
CHECK_DEADLOCK FALSE
INVARIANT MigrateNeverFails
