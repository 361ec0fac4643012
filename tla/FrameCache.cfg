SPECIFICATION FairFrameSpec
CONSTANTS
    queueLen = 2
    MaxFrames = 5
    Media = {"video", "audio"}
INVARIANTS
    FramesInOrder
PROPERTIES
    FramesLeave
