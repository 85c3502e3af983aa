--------------------------- MODULE MCAndroidClient ---------------------------
(* Instances of AndroidClient for TLC.                                     *)
EXTENDS AndroidClient
=============================================================================
