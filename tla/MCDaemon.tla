---------------------------- MODULE MCDaemon ----------------------------
(***************************************************************************)
(* Daemon with its processes and clients as model values.                  *)
(***************************************************************************)
EXTENDS Daemon, TLC

CONSTANTS d1, d2, r1, s1, s2, q1

\* The starts are alike, and so are the stops. For safety only.
Alike == Permutations(Daemons) \cup Permutations(StopClients)
=============================================================================
