------------------------------- MODULE MCPipe -------------------------------
(***************************************************************************)
(* Pipe on a few lines of which the first and the last raise an alert.     *)
(***************************************************************************)
EXTENDS Pipe

MCAlerting == {1, MaxLines}
=============================================================================
