--------------------------- MODULE MCTcpConnection --------------------------
(***************************************************************************)
(* TLC instances of TcpConnection: three messages of two bytes, and a      *)
(* socket buffer that cuts one of them.                                    *)
(***************************************************************************)
EXTENDS TcpConnection
=============================================================================
