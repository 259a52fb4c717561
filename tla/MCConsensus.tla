----------------------------- MODULE MCConsensus -----------------------------
EXTENDS Consensus, TLC

\* The backups are interchangeable; the client and the primary are not.
BackupSymmetry == Permutations(Backups)
=============================================================================
