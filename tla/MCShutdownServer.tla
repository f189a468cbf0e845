-------------------------- MODULE MCShutdownServer --------------------------
EXTENDS ShutdownServer

CONSTANTS c1, c2, c3

MCClients == {c1, c2, c3}

\* EReleaseDisk is handled as EReleaseRAM.
MCSaveTypes == {"ESaveAll", "ESaveQuick", "ESaveData", "EReleaseRAM"}
=============================================================================
