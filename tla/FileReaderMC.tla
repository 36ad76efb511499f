---------------------------- MODULE FileReaderMC ----------------------------
(* Instances of FileReader for TLC.                                        *)
EXTENDS FileReader

\* A block of a full packet and a partial chunk, and a block of one chunk.
TwoBlocks == <<0, 7, 10>>

\* One block of a chunk and a part of one.
OneBlock == <<0, 4>>

\* The first datanode has a corrupt chunk, the one of the second block.
SecondCorrupt == {<<1, 2, 0>>}

\* The first datanode has a corrupt first chunk.
FirstCorrupt == {<<1, 1, 0>>}
=============================================================================
