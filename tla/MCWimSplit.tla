---------------------------- MODULE MCWimSplit ----------------------------
EXTENDS WimSplit

MCMetadata == {<<1>>, <<2, 1>>, <<6, 6>>}
MCBlobs == [1..2 -> {1, 5, 12}] \cup [1..3 -> {1, 5, 12}] \cup [1..4 -> {5, 12}]
MCWaste == {-1, 0, 9}
MCFaults == {"memory", "write"}
===========================================================================
