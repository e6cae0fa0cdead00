SPECIFICATION FairSpec
CONSTANTS
    BufSize = 4
    LastInterface = 1
    ChildSentinel = 3
    Layouts <- MCLayouts
    RequestLength = {3, 4, 11, 255}
PROPERTIES
    DeliversAnswer
    AnswerEnds
