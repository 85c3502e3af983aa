----------------------------- MODULE MCClientApp -----------------------------
(* Instances of ClientApp for TLC.                                         *)
EXTENDS ClientApp
=============================================================================
