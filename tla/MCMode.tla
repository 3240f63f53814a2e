------------------------------- MODULE MCMode -------------------------------
(* Instance of Mode for TLC: two boots, sequence numbers around zero and   *)
(* around the wrap of the byte, windows of one and two ticks.              *)
EXTENDS Mode

MCFirstSequences == {0, 1, 2, 253, 254, 255}

=============================================================================
