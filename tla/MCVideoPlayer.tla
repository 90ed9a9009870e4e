------------------------------ MODULE MCVideoPlayer ------------------------------
(* TLC instance of VideoPlayer. *)
EXTENDS VideoPlayer
================================================================================
