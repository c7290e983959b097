------------------------- MODULE MCGeneratedMessage -------------------------
(***************************************************************************)
(* TLC instance of GeneratedMessage: every class of the program, strings   *)
(* of no byte and of two.                                                  *)
(***************************************************************************)
EXTENDS GeneratedMessage

MCClasses == {RpcMetaMessage, SudokuRequest, SudokuResponse, EchoRequest, EchoResponse}
MCStrings == {<< >>, <<7, 7>>}
=============================================================================
