------------------------ MODULE MCReaderWriterQueue -------------------------
(* Instances of ReaderWriterQueue with up to three blocks, of 2, 4 and 8    *)
(* slots.                                                                   *)
EXTENDS ReaderWriterQueue
CONSTANTS b1, b2, b3
=============================================================================
