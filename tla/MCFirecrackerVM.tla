-------------------------- MODULE MCFirecrackerVM --------------------------
EXTENDS FirecrackerVM
=============================================================================
