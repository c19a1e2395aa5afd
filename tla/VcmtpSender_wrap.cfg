\* prodIndex is a uint32_t: with more products than index values (here 3
\* products and a 2-value word) `return prodIndex++` wraps, and a later
\* product is inserted under the index of an earlier one.
CONSTANTS
    s1 = s1
    s2 = s2
    Socks <- MCSocks
    NoSock = NoSock
    MaxProducts = 3
    IndexWord = 2
    InitProdIndex = 1
    MaxStops = 1
    Flags <- MCFlags
SYMMETRY MCSymmetry
VIEW MCView
SPECIFICATION Spec
PROPERTY FreshProdIndex
