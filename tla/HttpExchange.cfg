SPECIFICATION HttpSpec
CONSTANTS
    Ends = {"server", "client"}
    Peer <- MCPeer
    Byte <- MCByte
    LF = 10
    CR = 13
    BufSize = 3
    MaxLine = 5
    Server = "server"
    Client = "client"
    GET = 71
    TagLength = 76
    TagCsum = 83
    OK = 200
    NotFound = 404
    NotImplemented = 501
    ErrorText <- MCErrorText
    Decimal <- MCDecimal
    Disk <- MCDisk
    Missing = 78
    Requests <- MCRequests
INVARIANTS HttpTypeOK Conserved ClientServed
PROPERTIES ImplementsLineStream RequestServed
CHECK_DEADLOCK FALSE
