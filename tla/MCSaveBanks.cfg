SPECIFICATION FairSpec
CONSTANTS
    BankCount = 3
    Images = {"a", "b", "c"}
    Junk = "junk"
    Originals <- SavedGames
    Views <- SelectorViews
    Attempts = 3
    MaxUnplugs = 1
INVARIANTS
    TypeOK
    Recoverable
PROPERTIES
    NothingThroughOneBank
    StrayWriteIsLast
    CallsReturn
