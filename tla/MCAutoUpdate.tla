---------------------------- MODULE MCAutoUpdate ----------------------------
EXTENDS AutoUpdate

MCBroken == {3}
=============================================================================
