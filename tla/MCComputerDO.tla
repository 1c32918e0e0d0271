----------------------------- MODULE MCComputerDO -----------------------------
EXTENDS ComputerDO
=============================================================================
