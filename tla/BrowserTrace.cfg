\* The browser and a process that outlives it write up to five characters; the
\* reader may fail to start.
CONSTANTS
    Browser = browser
    Writer = {browser, utility}
    PipeSize = 2
    ReadSize = 3
    LineSize = 4
    EventLimit = 2
    MaxOutput = 5
SPECIFICATION TraceFairSpec
INVARIANTS
    EventsRetained
PROPERTIES
    PipeDrains
\* The launcher goes on to stop the monitor, or waits for ever without a reader.
CHECK_DEADLOCK FALSE
