---------------------------- MODULE MCCaptureFrames ---------------------------
(* One device, two attempts of one line each, a channel of one event. *)
EXTENDS CaptureFrames
===============================================================================
