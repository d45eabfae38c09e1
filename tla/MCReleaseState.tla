-------------------------- MODULE MCReleaseState ---------------------------
EXTENDS ReleaseState, TLC
=============================================================================
