SPECIFICATION FairSpec
CONSTANTS
    App = {"product"}
    Uri = {"/v1/user", "/.env"}
    Valid = {"/v1/user"}
    Log <- MCLog
    Ui = {"monitor", "dashboard"}
    Window <- MCWindow
    Default = "15m"
    Mins <- MCMins
    ParseInt <- MCParseInt
    Load = {l1, l2}
    TopUris = 2
    MaxPages = 2
    AtFirst <- MCAtFirst
    MaxChanges = 1
    MaxSelects = 1
    NoData = NoData
INVARIANTS
    TypeOK
    AlarmsWereTrue
    WafVerdictSound
PROPERTIES
    LoadsEnd
    PageSettles
