SPECIFICATION FairSpec
CONSTANTS
    MaxTips = 3
    MaxNotices = 1
    MaxPolls = 2
INVARIANTS
    NoticesAreFollowed
    RequestsAreKept
PROPERTIES
    NewBlocksStartClean
    TipsAreWorkedOn
    WorkIsRenewed
