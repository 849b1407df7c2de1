SPECIFICATION Spec
CONSTANTS
    h1 = h1
    h2 = h2
    Hashes = {h1, h2}
    ZeroHash = ZeroHash
    NoRecord = NoRecord
    BadEndpoint = BadEndpoint
    NoEndpoint = NoEndpoint
    LowerCase <- Letters
    RawRecords <- Records
    Loads <- Stored
    MaxFiles = 2
    W = 8
    MaxDepth = 2
    HashText <- HashTexts
    HashLen = 3
    HexDigits <- HexText
    Clients = {c}
    Requests <- MCRequests
    Runtime <- Offered
    Offers <- Sharing
    FirstHighID = 8
    BatchSize = 1
    MaxResults = 2
    MaxSources = 2
    ReplyLimit = 255
INVARIANTS
    CatalogCoherent
    UnderstoodAsSent
    SummarySound
    PagesExact
    SourcesBest
PROPERTY
    AnswerIsAsked
