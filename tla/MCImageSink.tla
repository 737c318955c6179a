---------------------------- MODULE MCImageSink ----------------------------
(* A file of one or three bytes on a disk that holds five; 12 offsets, so   *)
(* that off + length wraps around and the upper half cannot be seeked to.  *)
EXTENDS ImageSink

MCByte   == {0, 1, 2}
MCInputs == {<<1>>, <<1, 2, 1>>}
MCBlocks == {<<1>>, <<2, 1>>}
=============================================================================
