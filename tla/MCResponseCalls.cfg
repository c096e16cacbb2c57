\* Two clients that block and unblock two addresses, and a failure of any kind.
SPECIFICATION FairSpec
CONSTANTS
    Clients <- TwoClients
    IPs <- Addresses
    Public <- TwoPublic
    Requests <- Both
    Faults <- AllFaults
    MaxFaults = 1
    ui1 = ui1
    ui2 = ui2
    public1 = public1
    public2 = public2
    local = local
INVARIANTS
    TypeOK
    ListedIsBlocked
    TableMatchesFirewall
PROPERTIES
    SuccessIsReal
    UnblockSucceeds
