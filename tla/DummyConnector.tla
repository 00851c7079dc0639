-------------------------- MODULE DummyConnector --------------------------
(***************************************************************************)
(* DummyConnector2: what is written to its writer can be read again.  The  *)
(* writer gathers what is written since it was reset, and the reader is    *)
(* loaded with a copy of that.                                             *)
(***************************************************************************)
EXTENDS Sequences

DummyConnector2 == [writer |-> <<>>, reader |-> <<>>]

\* Mutant: the writer keeps what was written before.
resetNothing(con) == con

reset(con) == [con EXCEPT !.writer = <<>>]

write(con, data) == [con EXCEPT !.writer = @ \o data]

getReader(con) == [con EXCEPT !.reader = con.writer]

\* Who reads all of the reader leaves nothing in it.
drain(con) == [con EXCEPT !.reader = <<>>]
=============================================================================
