SPECIFICATION PollerSpec
CONSTANTS
    Channels = {c1, c2, c3}
    Fds = {fd1, fd2}
    Connectors = {k1}
    None = None
    Programs = {{}, {"destroy"}, {"destroy", "again", "stop"}}
    MaxResets = 3
SYMMETRY Symmetry
INVARIANTS
    PollerTypeOK
    WatchesWhatIsAsked
    NoDanglingChannel
