--------------------------- MODULE MCChainArchive ---------------------------
EXTENDS ChainArchive
=============================================================================
