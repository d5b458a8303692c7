SPECIFICATION FairSpec
CONSTANTS
    Fields <- StartTagEnd
    Sizes = {0, 1, 2, 4}
    SizeWidth = 3
    TimeWidth = 3
    IntSize = 4
INVARIANTS InStep
PROPERTIES MessageRead
