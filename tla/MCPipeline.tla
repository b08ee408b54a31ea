------------------------------ MODULE MCPipeline ------------------------------
(* Pipeline, with what is claimed of TouchScreen evaluated for every pixel.  *)
EXTENDS Pipeline, TouchScreen

ASSUME TouchChecked == CornersLand /\ OffByOneAtMost
=============================================================================
