SPECIFICATION FairSpec
CONSTANTS
    manifest = manifest
    updater = updater
    server = server
    old = old
    new = new
    Files <- MC_Files
    Manifest <- manifest
    Updater <- updater
    Required <- MC_Required
    DirectBaseline = 2
    MaxVersion = 3
    Payload <- MC_Payload
    InstallOrder <- MC_InstallOrder
    Budget <- MC_Budget
INVARIANT TypeOK RunsWholePackage RollbackPossible CommitIsFinal
PROPERTY UpdateResolves ServesAgain
