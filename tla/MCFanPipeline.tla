---------------------------- MODULE MCFanPipeline ----------------------------
(* Four items, two of them equal when squared, over three stages. *)
EXTENDS FanPipeline

MCIn == <<2, -1, -2, 0>>

=============================================================================
