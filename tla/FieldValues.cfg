CONSTANTS
    Records = {"r1", "r2"}
    Clients = {"c1"}
    Words = {"Red", "red", "9", "day"}
    Numerals = {"9"}
    Dates = {"day"}
    OptionIDs = {"o1", "o2"}
    FoldWord <- MCFoldWord
    TextKey <- MCTextKey
    NumberRank <- MCNumberRank
    TextLimit = 2
    ListLimit = 2
    NameLimit = 1
    OptionLimit = 500
    InitialTypes = {"text"}
    MaxRevision = 3
    MaxWrites = 1
SPECIFICATION Spec
INVARIANTS ValuesConform ProjectionNeverWrong ReadingsComplete
PROPERTIES ConvertedAsShown
\* When the bounds are spent and the Field is deleted there is nothing left to do.
CHECK_DEADLOCK FALSE
