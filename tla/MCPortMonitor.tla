--------------------------- MODULE MCPortMonitor ---------------------------
\* A script that goes first, one that gives way to it, and a library.
EXTENDS PortMonitor, TLC

MCScript == [high |-> {"create", "accept", "trig"}, low |-> {"update"}, lib |-> {}]
MCMayRead == [high |-> {}, low |-> {"update"}, lib |-> {"accept", "update"}]
MCRaises == [high |-> {"e_high", "e_busy"}, low |-> {}, lib |-> {}]
MCRule == [high |-> <<>>, low |-> <<"e_high", "e_busy">>, lib |-> <<>>]
MCMaxMessages == [high |-> 2, low |-> 1, lib |-> 1]
=============================================================================
