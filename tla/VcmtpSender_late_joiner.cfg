\* A receiver that connected after a product was inserted is served it.
CONSTANTS
    s1 = s1
    s2 = s2
    Socks <- MCSocks
    NoSock = NoSock
    MaxProducts = 2
    IndexWord = 3
    InitProdIndex = 0
    MaxStops = 2
    Flags <- MCFlags
SPECIFICATION Spec
SYMMETRY MCSymmetry

INVARIANT LateJoinerRejected
