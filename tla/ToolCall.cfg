SPECIFICATION Spec
CONSTANTS
    PageSize = 2
    MaxPages = 2
    MaxRows = 6
    MaxChanges = 2
    Styles <- MCStyles
    Samples <- MCSamples
    Good <- MCGood
    ApiErrors <- MCApiErrors
    Statuses <- MCStatuses
    Details <- MCDetails
    Misfits <- MCMisfits
    Patience = 4
INVARIANTS
    TypeOK
    MissesAtMostTheRemoved
    RepeatsAtMostTheInserted
    NamedFaultsAreAllFaults
    SameErrorSameCode
PROPERTIES
    LeniencyKeepsTheContract
    EveryCallIsAnswered
