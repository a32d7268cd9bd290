-------------------------- MODULE MCSessionMetrics --------------------------
EXTENDS SessionMetrics, TLC

PublisherSymmetry == Permutations(Publishers)
=============================================================================
