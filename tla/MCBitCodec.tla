---------------------------- MODULE MCBitCodec ----------------------------
EXTENDS BitCodec

\* Frames of one to three bytes, with all-0, all-1 and mixed bit patterns
MCFrames == {<<0>>, <<165>>, <<0, 255>>, <<165, 90>>, <<90, 0, 255>>}
=============================================================================
