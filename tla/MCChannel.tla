------------------------------ MODULE MCChannel ------------------------------
EXTENDS Channel

(* An empty message, one byte, a payload that reads as the header of a     *)
(* one-byte message, and a message longer than the header can say.         *)
MCMsgs == {<<>>, <<1>>, <<0, 1>>, <<1, 1, 1, 1>>}

=============================================================================
