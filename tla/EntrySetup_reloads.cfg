SPECIFICATION Spec
CONSTANTS
    a = a
    b = b
    Cameras = {a, b}
    Hosts = {1, 2}
    Nobody = Nobody
    Accounts <- MCAccounts
    Options <- MCOptions
    Leftovers <- MCLeftovers
    LanModels = {"0667", "0085"}
    MaxChanges = 2
CHECK_DEADLOCK FALSE
INVARIANTS RoutesOwnCamera ShownOnce RegistryClean OptionsInForce
PROPERTIES RemovedForCause
