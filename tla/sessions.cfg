SPECIFICATION FairSpec
CONSTANTS
    Token <- Tokens
    Tab = {x, y}
    Call = {1, 2}
    NoTab = NoTab
    MaxFaults = 1
INVARIANTS
    TypeOK
    SerialFamilies
    TabsAgree
PROPERTIES
    ExtinctForGood
    RefreshSettles
CHECK_DEADLOCK FALSE
