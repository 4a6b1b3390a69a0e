---------------------------- MODULE MCBlockLeases ----------------------------
\* The instance of BlockLeases that TLC checks; BlockLeases.cfg gives the sets.
EXTENDS BlockLeases
=============================================================================
