\* Two seeks, accurate or to a keyframe after the target.
CONSTANTS
    None = None
    Providers <- MCProviders
    VideoProviders <- MCVideoProviders
    m_queue_max_size = 1
    MaxSeeks = 2
    Modes = {"Accurate", "FastAfter"}
SPECIFICATION FairSpec
INVARIANTS Inv InSync PlaysAsAsked
PROPERTY SeekEnds
