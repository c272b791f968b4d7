------------------------------ MODULE MCCanvas ------------------------------
(* Two pixels of one chunk, for Canvas.                                    *)
EXTENDS Canvas

OneChunk == {Pixel}
=============================================================================
