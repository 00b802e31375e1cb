--------------------------- MODULE MCDeviceStack ---------------------------
EXTENDS DeviceStack
CONSTANTS d1, d2, m1, m2, x, y
=============================================================================
