------------------------------ MODULE FlightRec ------------------------------
(***************************************************************************)
(* The flight recorder (FlightRec.c) that every step of a request carries  *)
(* its result in: a code and the list of messages.  Code and messages are  *)
(* independent of each other: setting the one does not touch the other.    *)
(* Of a message only its author is kept.                                   *)
(***************************************************************************)
EXTENDS Sequences

VARIABLE fr \* the recorder of the request at work

\* ERR_OK; every other code is the name of its error.
OK == "OK"

\* FlightRec(ERR_OK), reset: nothing has happened.
Clean == [code |-> OK, msgs |-> <<>>]

SetCode(f, c) == [f EXCEPT !.code = c]

AddMessages(f, ms) == [f EXCEPT !.msgs = @ \o ms]

\* code() followed by addMessage(), as every error is reported.
Report(f, c, by) == AddMessages(SetCode(f, c), <<by>>)
=============================================================================
