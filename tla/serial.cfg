SPECIFICATION FairSpec
CONSTANTS
    Types = {"wattsup", "fluke189", "protek506", "rs22812"}
    Displays <- CheckedDisplays
    Pieces = {4, 9}
    MaxReads = 4
    MaxPackets = 2
INVARIANTS AnswersOwnQuery ReadsDisplay
PROPERTIES ReadEnds
