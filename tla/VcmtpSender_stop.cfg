\* Stop() returns under the kernel's fair scheduling of the sender's threads.
\* One receiver (Stop() joins no retransmission thread), two calls of Stop().
CONSTANTS
    s1 = s1
    s2 = s2
    Socks <- MCOneSock
    NoSock = NoSock
    MaxProducts = 1
    IndexWord = 2
    InitProdIndex = 0
    MaxStops = 2
    Flags <- MCFlags
SPECIFICATION Spec
PROPERTY StopTerminates
\* Deadlock freedom of this specification is checked by the table run;
\* here a Stop() that hangs is reported as a violation of StopTerminates.
CHECK_DEADLOCK FALSE
