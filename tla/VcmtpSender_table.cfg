\* The retransmission table under every interleaving of the application, the
\* timer, the coordinator and two receivers: notification exactly once per
\* removal, fresh indices, the RetxTable contract, and the connection list
\* and the thread list kept in step with the retransmission threads.
CONSTANTS
    s1 = s1
    s2 = s2
    Socks <- MCSocks
    NoSock = NoSock
    MaxProducts = 2
    IndexWord = 3
    InitProdIndex = 0
    MaxStops = 1
    Flags <- MCFlags
SYMMETRY MCSymmetry
VIEW MCView
SPECIFICATION Spec
INVARIANT NotifyExactlyOnRemoval
INVARIANT ConnectionsServed
INVARIANT RunningThreadsListed
PROPERTY FreshProdIndex
PROPERTY RefinesRetxTable
PROPERTY RefinesConnRegistry
