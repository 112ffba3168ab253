------------------------------ MODULE MCPacer ------------------------------
(* Games at more than 60, and at 50, 40 and 21 fps on 60 Hz, and a pause    *)
(* that is too long to be a frame.                                          *)
EXTENDS Pacer

SomePaces == {20, 72, 90, 170, 1000}
=============================================================================
