SPECIFICATION DFairSpec
INVARIANTS
    DTypeOK
    LogIsTrue
    ErrorsCarryContext
    CorsOnEveryReply
    PageFindsItsParts
    NoForeignAllowance
PROPERTY PageShows
CONSTANTS
    Browser = browser
    Requester = {browser, app}
    None = None
    Configs <- MCConfigs
    Requests <- MCRequests
    Relayed = {42, 200}
    Rejected = {429}
