\* A failing sendProduct() runs Stop() through taskExit(); the Stop() the
\* application then makes joins the timer and the coordinator a second time.
CONSTANTS
    s1 = s1
    s2 = s2
    Socks <- MCSocks
    NoSock = NoSock
    MaxProducts = 1
    IndexWord = 2
    InitProdIndex = 0
    MaxStops = 2
    Flags <- MCFlags
SPECIFICATION Spec
SYMMETRY MCSymmetry
INVARIANT JoinedAtMostOnce
