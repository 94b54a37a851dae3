------------------------- MODULE MCUploadSessions -------------------------
(* Instances of the upload store for TLC. *)
EXTENDS UploadSessionProperties, TLC

CONSTANTS s1, s2, c1, good, bad

\* one identifier used for two archives, of one part and, with a checksum, of two
Conflict == {[client |-> c1, chunks |-> 2, expected |-> <<good, good>>],
             [client |-> c1, chunks |-> 1, expected |-> NoDigest]}

Symmetry == Permutations(Sessions)
=============================================================================
