----------------------- MODULE MCMonitoredNavigation -----------------------
\* A critical, a low and a full charge; alarms after two ticks.
EXTENDS MonitoredNavigation, TLC
=============================================================================
