---------------------------- MODULE MCVideoFrames ----------------------------
(* An instance of VideoFrames for TLC.                                     *)
EXTENDS VideoFrames
=============================================================================
