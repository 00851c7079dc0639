---------------------------- MODULE MCFetchSystem ----------------------------
\* The Fetch skill, its guard and the arm.
EXTENDS FetchSystem, TLC
=============================================================================
