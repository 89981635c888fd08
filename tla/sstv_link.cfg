SPECIFICATION FairSpec
CONSTANTS
    VoxDuration = 8
    LeaderDuration = 30
    BreakDuration = 10
    BitDuration = 20
    Modes <- SmallModes
    SamplePeriod = 2
    TransitionDuration = 4
    VISDelay = 2
    UnitsPerMillisecond = 3
    CounterBits = 16
    Transmission <- ThreePictures
    DefaultMode = 99
    SilenceDuration = 20
    Bursts <- SomeBursts
INVARIANTS
    ResultFits
    RowsFitTheImage
    SingleErrorDetected
    RowsKeepTheirLine
PROPERTIES
    PicturesArrive
    NextPictureArrives
CHECK_DEADLOCK FALSE
