---------------------------- MODULE MCCameraHal ----------------------------
(* The camera HAL with two frame buffers, one dropped frame per picture and *)
(* two set-ups of the stream.                                               *)
EXTENDS CameraHal

CONSTANTS b1, b2

MCBuffers == {b1, b2}
MCSlips == AllSlips

=============================================================================
