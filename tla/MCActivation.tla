---------------------------- MODULE MCActivation ----------------------------
EXTENDS Activation
CONSTANTS k1, k2, k3
ThreeTasks == {k1, k2, k3}
=============================================================================
