\* A thread registered after shutdown() outlives Stop().
CONSTANTS
    s1 = s1
    s2 = s2
    Socks <- MCSocks
    NoSock = NoSock
    MaxProducts = 2
    IndexWord = 3
    InitProdIndex = 0
    MaxStops = 2
    Flags <- MCFlags
SPECIFICATION Spec
SYMMETRY MCSymmetry
VIEW MCView
INVARIANT StoppedNoUncancelledThread
