SPECIFICATION DebounceFairSpec
CONSTANTS
    MaxMessages = 6
    MaxWrites = 1
    MaxChatter = 1
INVARIANTS
    IgnoredAreScheduled
    NewestTimerLives
    DirtyIsFollowed
PROPERTIES
    FiresAreCurrent
    ScheduledFires
    LastWriteIsTaken
    RescansCease
CHECK_DEADLOCK FALSE
