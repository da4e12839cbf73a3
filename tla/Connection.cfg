CONSTANTS
    MaxRequests = 2
    MaxFaults = 1
SPECIFICATION FairSpec
CHECK_DEADLOCK FALSE
INVARIANT TypeOK
INVARIANT NothingLeftBehind
PROPERTY ConversationSpec
PROPERTY RequestsAreAnswered
PROPERTY UpgradeCompletes
