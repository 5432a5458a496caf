CONSTANTS
    Clients <- MCClients
    Daemons <- MCDaemons
    MaxLogs = 2
    Crashing = {"client","daemon"}
SPECIFICATION FairSpec
INVARIANTS TypeOK NoMisread NothingHeldBack OneVersion CleanStart
PROPERTIES Settles Opens
