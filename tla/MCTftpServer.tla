---------------------------- MODULE MCTftpServer ----------------------------
(* Instances of TftpServer: see the configurations.                        *)
EXTENDS TftpServer

CONSTANTS c1, c2
=============================================================================
