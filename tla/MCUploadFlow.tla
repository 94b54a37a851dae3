---------------------------- MODULE MCUploadFlow ----------------------------
(* Instances of the browser's upload flow for TLC: archives of two parts. *)
EXTENDS UploadFlow

CONSTANTS s1, s2, good, damaged

\* one create request for each of two attempts
TwoAttempts == {[client |-> n, chunks |-> 2, expected |-> NoDigest] : n \in 1..2}
=============================================================================
