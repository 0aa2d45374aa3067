------------------------------ MODULE MCFanOut ------------------------------
EXTENDS FanOut

CONSTANTS s1, s2, s3, a, b

(* Channel a is registered for two subscriptions, s1 has two channels, and *)
(* s3 is a subscription the publisher granted and the task turned down.    *)
MCWanted == {<<s1, a, TRUE>>, <<s2, a, FALSE>>, <<s1, b, FALSE>>}

MCMaxUpdates == (s1 :> 2) @@ (s2 :> 1) @@ (s3 :> 1)

=============================================================================
