\* A receiver's connection closes while it is in a product's unfinished set;
\* accept() hands its descriptor to a new receiver, whose RETX_END clears the
\* old receiver's membership.
CONSTANTS
    s1 = s1
    s2 = s2
    Socks <- MCSocks
    NoSock = NoSock
    MaxProducts = 1
    IndexWord = 2
    InitProdIndex = 0
    MaxStops = 1
    Flags <- MCFlags
SYMMETRY MCSymmetry
SPECIFICATION Spec
INVARIANT EndFromSnapshotConnection
