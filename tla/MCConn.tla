------------------------------- MODULE MCConn -------------------------------
(***************************************************************************)
(* TLC instances of Conn: the handshake and the exchanges that follow it.  *)
(***************************************************************************)
EXTENDS Conn
=============================================================================
