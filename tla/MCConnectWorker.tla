---------------------------- MODULE MCConnectWorker ----------------------------
(* A small instance of ConnectWorker for TLC. *)
EXTENDS ConnectWorker

CONSTANTS s1, s2, s3

ThreeSocks == {s1, s2, s3}
TcpSocks   == {s1, s2}
=============================================================================
