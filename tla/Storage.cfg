SPECIFICATION Spec
CONSTANTS
    None = None
    j1 = j1
    b1 = b1
    b2 = b2
    n1 = n1
    Jobs <- OneJob
    Backups <- TwoBackups
    Names <- OneName
    MaxVersion = 2
    Operations <- FailuresAndCrashes
INVARIANTS TypeOK DownloadsWhole LastCopyMatches
