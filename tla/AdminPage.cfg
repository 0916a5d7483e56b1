SPECIFICATION FairPageSpec
CONSTANTS
    k1 = k1
    NoField = NoField
    EmptyField = EmptyField
    Nothing = Nothing
    Item <- Rows
    Operation = {"removeCache", "removeAutoloadTO"}
    MaxPresses = 3
    MaxChanges = 1
INVARIANTS
    PageTypeOK
    PostedAsChosen
    OwnChangesShow
    ArgsAreThoseAskedFor
PROPERTIES
    WaitingAppear
CHECK_DEADLOCK FALSE
