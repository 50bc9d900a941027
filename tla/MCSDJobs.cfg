SPECIFICATION FairSpec
CONSTANTS
    Names = {"f"}
    Characters = {"a", "b", "c", "x", "NL"}
    InitialFiles <- MCInitialFiles
    Uploads <- MCUploads
    RefusedLines <- MCRefused
    Unsupported <- MCUnsupported
    MaxLine = 3
    MaxRetries = 1
    Requests = {"run", "show", "delete", "store", "list", "move", "unlock", "overflow", "upload", "download", "files"}
    MaxRequests = 3
    MaxTroubles = 2
INVARIANTS UploadTrue
PROPERTIES JobTrue JobEnds
