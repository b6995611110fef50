------------------------- MODULE MCChunkCompressor -------------------------
EXTENDS ChunkCompressor, TLC

MCFaults == {"create", "memory", "read", "write"}
=============================================================================
