--------------------------- MODULE MCFrameReader ---------------------------
(* A finite instance of FrameReader for TLC: the constants are given by    *)
(* the configuration.                                                      *)
EXTENDS FrameReader
=============================================================================
