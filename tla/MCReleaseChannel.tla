-------------------------- MODULE MCReleaseChannel --------------------------
EXTENDS ReleaseChannel, TLC

Symmetry == Permutations(Admins)
=============================================================================
