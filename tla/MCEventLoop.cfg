SPECIFICATION PromptSpec
CONSTANTS
    Threads = {t1, t2}
    Functors = {f1, f2, f3}
    IoChannels = {c1}
    wakeupChannel = wakeup
INVARIANTS
    TypeOK
    NoLostWakeup
PROPERTIES
    BatchIsClosed
    ImplementsExecutor
    FunctorsRun
    QuitEndsLoop
