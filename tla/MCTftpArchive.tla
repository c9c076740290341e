--------------------------- MODULE MCTftpArchive ---------------------------
(* Instances of TftpArchive.  Two attempts s1, s2 of one run stage build   *)
(* a, a third run s3 stages build b, and k boots an archived build.        *)
EXTENDS TftpArchive

CONSTANTS s1, s2, s3, k, a, b

IdsApart    == [j \in {s1, s2, s3, k} |-> IF j \in {s1, s2} THEN a ELSE b]
IdsRestaged == [j \in {s1, s2, k} |-> a]
OneRetry    == {<<s1, s2>>}
=============================================================================
