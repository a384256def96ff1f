---------------------------- MODULE MCPoolCounts ----------------------------
EXTENDS PoolCounts, MCSandboxPool
=============================================================================
