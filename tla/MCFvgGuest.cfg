SPECIFICATION Spec
CONSTANTS
    SCENES <- MCScenes
    Count = 3
    Calls = 4
    Handles = {1}
    Pixels = {d1}
    Pages = 3
    HighPage = 2
    None = None
    Garbage = Garbage
INVARIANTS
    FrameIsTheScene
    HostHasTheFrame
    ImagesAgree
