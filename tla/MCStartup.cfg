SPECIFICATION Spec
CONSTANTS
    NoFile = NoFile
    SizeLimit = 16
    IntLimit = 4
    Fallback = 10
    CapacityKey <- MCCapacityKey
    LevelKey <- MCLevelKey
    LogFileKey <- MCLogFileKey
    Files <- MCFiles
    Edits <- MCEdits
INVARIANTS
    ValuesAsWritten
    GettersAgree
    QueueAsAnnounced
