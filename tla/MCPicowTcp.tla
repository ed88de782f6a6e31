----------------------------- MODULE MCPicowTcp -----------------------------
EXTENDS PicowTcp
=============================================================================
