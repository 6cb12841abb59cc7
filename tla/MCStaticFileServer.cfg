SPECIFICATION FileSpec
CONSTANTS
    Chars <- MCChars
    Files <- MCFiles
    Directories <- MCDirectories
    Types <- MCTypes
    Bytes = {1, 2}
    MaxPath = 4
    MaxSize = 2
INVARIANTS
    FileTypeOK
    DecodesWhatIsMeant
    AnswersWhatIsMeant
CHECK_DEADLOCK FALSE
