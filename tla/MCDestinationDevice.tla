------------------------- MODULE MCDestinationDevice -------------------------
EXTENDS DestinationDevice, TLC

CONSTANTS disk2, disk3, stick, otherStick, drive, image

MCNames == {disk2, disk3}
MCDevices == {stick, otherStick, drive, image}
MCInternal == {drive, image}
MCDeviceUnits == {stick, otherStick, drive}

Symmetry == Permutations(MCNames) \cup Permutations({stick, otherStick})
=============================================================================
