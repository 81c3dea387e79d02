SPECIFICATION Spec
CONSTANTS
    Root = {"talks", "half", "theirs", "none"}
    NoRoot = "none"
    Holds <- MCHolds
    Corpus = {"talks"}
    Homes = {"talks", "half", "none"}
    Name = {"moments", "segments"}
    Reader = {r1}
    MaxOpen = 2
    Handles = 9
INVARIANTS
    HandlesAreSound
    OnlyColdHandlesAreTaken
    DemoCounterIsItsOwn
PROPERTIES
    DemoKeepsPlaying
CHECK_DEADLOCK FALSE
