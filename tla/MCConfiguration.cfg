SPECIFICATION Spec
CONSTANTS
    Files <- MCFiles
    Uploads <- MCUploads
INVARIANTS ParsedAsWritten BadFileNeverRuns PanicRecovers
PROPERTIES BootEnds
