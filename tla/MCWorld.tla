------------------------------ MODULE MCWorld ------------------------------
(* Small instances of World: one for the players, one for the pixels. *)
EXTENDS World

OneChunk == {Pixel}
OnePixelChunks == {{p} : p \in Pixel}
=============================================================================
