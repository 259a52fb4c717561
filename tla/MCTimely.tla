------------------------------ MODULE MCTimely -------------------------------
EXTENDS TimelyConsensus, TLC

\* The punctual backups are interchangeable, and so are the two chains: what
\* PBFT.go does for the main chain it does for the side chain.
TimelySymmetry == Permutations(Backups \cap Punctual) \cup Permutations(Chains)
=============================================================================
