------------------------------ MODULE MCCampaign ------------------------------
(* Small instances of Campaign: states of two shapes, and of two sizes where *)
(* the size counts.                                                          *)
EXTENDS Campaign

MCShapes == [shape : {1, 2}, size : {1}]
MCStates == [shape : {1, 2}, size : {1, 2}]
MCTraces == {"good", "error"}
MCErrorTraces == {"error"}
==============================================================================
