SPECIFICATION Spec
CONSTANTS
    Null = Null
    Junk = Junk
    Node = "node-02"
    Protocol = "ssh"
    ModelNodes = {"node-02"}
    KnownNodes = {"node-02"}
    Addresses = {"198.51.100.7", "192.0.2.1"}
    Unspecified = {}
    MaxTracked = 1
    Raws <- MCRaws
    Histories <- MCHistories
    Cutoffs = {1}
    BatchSize = 2
    MaxLines = 3
    MaxFiles = 3
    MaxFault = 1
INVARIANTS TypeOK OneCopyEach BackfillComplete NoBatchRefused FilesInTurn PasswordsStayInLogins DurationsAreTrue
