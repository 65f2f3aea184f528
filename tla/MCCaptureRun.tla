----------------------------- MODULE MCCaptureRun -----------------------------
(* Two attempts of up to two lines each. *)
EXTENDS CaptureRun
===============================================================================
