--------------------------- MODULE MCPacketRuntime ---------------------------
EXTENDS PacketRuntime

CONSTANTS a1, a2, a3, w1, w2

MCAddresses == {a1, a2, a3}
MCWriters == {w1, w2}
MCQueues == <<"queue 0", "queue 1">>
===============================================================================
