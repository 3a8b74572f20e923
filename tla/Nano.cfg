SPECIFICATION Spec
CONSTANTS
    a = a
    b = b
    MaxLines = 3
    MaxLineLen = 2
    VisibleRows = 2
    MaxFileSize = 9
    NameLen = 2
    Chars <- MCChars
    NL = NL
    Texts <- MCTexts
    Absent = Absent
    Some = Some
    Faults = {"delete", "create", "open", "read", "full"}
INVARIANTS
    CursorInside
    RoundTrip
    CleanIsOnDisk
PROPERTIES
    OneCharacterPerKey
