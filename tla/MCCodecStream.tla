---------------------------- MODULE MCCodecStream ----------------------------
(***************************************************************************)
(* CodecStream for TLC.  The codecs are interchangeable: no action names   *)
(* one, and all properties are invariants.                                 *)
(***************************************************************************)
EXTENDS CodecStream, TLC

CodecSymmetry == Permutations(Codecs)
=============================================================================
