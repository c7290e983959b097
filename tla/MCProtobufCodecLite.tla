------------------------ MODULE MCProtobufCodecLite -------------------------
(***************************************************************************)
(* TLC instance of ProtobufCodecLite: four frames, cut anywhere.           *)
(***************************************************************************)
EXTENDS ProtobufCodecLite
=============================================================================
