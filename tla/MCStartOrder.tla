---------------------------- MODULE MCStartOrder ----------------------------
(* The TLC instance of StartOrder alone: three apps in config order.       *)
EXTENDS StartOrder

CONSTANTS a, b, c
ThreeApps == <<a, b, c>>
=============================================================================
