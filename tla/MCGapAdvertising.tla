-------------------------- MODULE MCGapAdvertising --------------------------
(* Instances of GapAdvertising for TLC. *)
EXTENDS GapAdvertising

ConnectionEvents == {"conn_update", "enc_change", "repeat_pairing"}

(* The two values the callback has branches for, and one it passes over.   *)
HostStatuses == {0, 1, 2}
=============================================================================
