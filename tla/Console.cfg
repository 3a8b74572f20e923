SPECIFICATION Spec
CONSTANTS
    Persons <- MCPersons
    MaxLine = 3
    HistorySize = 2
    Unprintable <- MCUnprintable
    MaxUsers = 2
    NameMax = 1
    LineMax = 2
    NotPrintable <- MCUnprintable
    MaxFailures = 1
    Absent = Absent
    Empty = Empty
    None = None
    LogoutLine <- MCLogout
    NanoLine <- MCNano
    MaxBoots = 2
INVARIANTS
    ModifiersFollowKeys
    SessionIsEarned
    AccountsSurvive
    HistoryShown
PROPERTIES
    SessionsApart
