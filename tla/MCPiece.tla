--------------------------------- MODULE MCPiece ---------------------------------
(* Two pieces and a fabricated label, one of each watched; one page that sends    *)
(* one scan at a time; elsewhere the piece is loaded for its own manifest or      *)
(* unloaded under another; one verification or sweep at a time.  Nothing is       *)
(* permuted: a liveness property is checked.                                      *)
EXTENDS PieceLife

ScannedElsewhere == {<<Home, "LOADING">>, <<Other, "UNLOADING">>}
================================================================================
