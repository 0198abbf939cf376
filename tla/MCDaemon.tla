------------------------------ MODULE MCDaemon ------------------------------
(* Daemon with few instances and clients.                                  *)
EXTENDS Daemon, TLC

CONSTANTS i1, i2, c1, c2

MCTwo == {i1, i2}
MCOne == {i1}
MCClients == {c1, c2}
NoOne == {}
=============================================================================
