-------------------------- MODULE MCChargingMission --------------------------
\* Four levels of charge: low up to 1, full at 3.
EXTENDS ChargingMission, TLC
=============================================================================
