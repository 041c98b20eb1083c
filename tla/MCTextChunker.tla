---------------------------- MODULE MCTextChunker ----------------------------
(* TextChunker needs no more than values for its bounds.                   *)
EXTENDS TextChunker
=============================================================================
