---------------------------- MODULE MCCexDexFanout ----------------------------
EXTENDS CexDexFanout, TLC
RelaySymmetry == Permutations(Relays)
=============================================================================
