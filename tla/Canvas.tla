------------------------------- MODULE Canvas -------------------------------
(***************************************************************************)
(* A world and what it sends of its chunks.  World has a few pixels, each  *)
(* of which stands here for any number of pixels of a chunk, anywhere in   *)
(* it; ChunkCodec turns them into the message of GetChunk, del_chunk and   *)
(* paste_chunk.                                                            *)
(***************************************************************************)
EXTENDS World, ChunkCodec

CONSTANT MaxPixels  \* bounds the pixels of a chunk, of which there are 256
ASSUME CanvasAssumption == MaxPixels \in Nat

Drawings == UNION {[1..n -> Colour] : n \in 1..MaxPixels}
Garbled == UNION {IF Arrives(drawing) THEN {} ELSE {drawing} : drawing \in Drawings}

\* drawing is made of what the world's pixels are now.
Shows(drawing) == \A i \in DOMAIN drawing : \E p \in Pixel : drawing[i] = canvas[p]

\* Whatever the world shows, and wherever in a chunk it is, the message of the
\* chunk means just that and fits into its array (compress_data_to).
ChunkArrives == \A drawing \in Garbled : ~Shows(drawing)
=============================================================================
