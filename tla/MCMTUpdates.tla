---------------------------- MODULE MCMTUpdates ----------------------------
EXTENDS MTUpdates
=============================================================================
