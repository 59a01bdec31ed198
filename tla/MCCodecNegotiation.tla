-------------------------- MODULE MCCodecNegotiation --------------------------
(***************************************************************************)
(* CodecNegotiation for TLC: a client that decodes H264 and H265, one that *)
(* decodes H265 only, and their choices.                                   *)
(***************************************************************************)
EXTENDS CodecNegotiation

Says(prefer, can) == [prefer |-> prefer, can |-> can]

MCWishes ==
  {Says("Auto", {"H264", "H265"}), Says("H265", {"H264", "H265"}),
   Says("H264", {"H265"})}
=============================================================================
