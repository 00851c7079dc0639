-------------------------- MODULE MCMonitoredFetch --------------------------
\* A hand that misses once, and an alarm after three ticks; two places, one of
\* two parts.
EXTENDS MonitoredFetch, TLC

MCPlaces == {<<"kitchen">>, <<"charging", "station">>}
=============================================================================
