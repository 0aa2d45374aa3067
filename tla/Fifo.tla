-------------------------------- MODULE Fifo ---------------------------------
(***************************************************************************)
(* What a framed channel promises: ordered, reliable transport of whole    *)
(* messages.  A message that was sent is in the queue until a receive      *)
(* hands it over, in order, as part of a batch; when the channel fails the *)
(* messages that were sent last may be lost, never one in the middle.      *)
(***************************************************************************)
EXTENDS Naturals, Sequences

CONSTANT Msgs

VARIABLES queue,   \* the messages sent and not yet received
          out      \* the batch the last receive returned

Init == queue = <<>> /\ out = <<>>

Send(m) == queue' = Append(queue, m) /\ UNCHANGED out

(* A receive returns at least one message, and possibly more. *)
Recv(k) ==
    /\ k \in 1..Len(queue)
    /\ out' = SubSeq(queue, 1, k)
    /\ queue' = SubSeq(queue, k + 1, Len(queue))

(* The channel fails: what was sent last never arrives. *)
Fail(k) ==
    /\ k \in 0..(Len(queue) - 1)
    /\ queue' = SubSeq(queue, 1, k)
    /\ UNCHANGED out

Next ==
    \/ \E m \in Msgs : Send(m)
    \/ \E k \in 0..Len(queue) : Recv(k) \/ Fail(k)

Spec == Init /\ [][Next]_<<queue, out>>

=============================================================================
