\* Replies of up to four words of up to three runes.
SPECIFICATION Spec
CONSTANTS
    Texts <- ShortTexts
    Configs <- SmallConfigs
    MaxWords = 4
    MaxWidth = 3
    Limits = {0, 1, 3, 5, 7}
    MinSizes = {0, 3}
INVARIANTS TypeOK PartsTileReply WithinLimit FewestParts  PostedInOrder InterruptedUnfinished
CHECK_DEADLOCK FALSE
