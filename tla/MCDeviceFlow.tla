---------------------------- MODULE MCDeviceFlow ----------------------------
EXTENDS DeviceFlow

\* A provider interval of 0 (the loop polls without sleeping) and of 2.
MCIntervals == {0, 2}
\* The provider expires the code a second early (issued before startTime),
\* on time, or not within the bound (it keeps codes past expires_in).
MCLifetimes == {6, 7, 100}
=============================================================================
