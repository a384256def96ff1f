---------------------------- MODULE MCHostBackend ---------------------------
EXTENDS HostBackend, TLC

CONSTANTS bash, glob, C1, C2, C3, H1, H2, H3, X, E1, E2

MCDefaults == <<bash, glob>>

MCRequests == {<<bash, H1>>, <<glob, H2>>, <<bash, H3>>, <<glob, X>>}

\* Two sandboxes with an env, one without.
MCEnv == (H1 :> E1) @@ (H2 :> E2) @@ (H3 :> NoEnv)
=============================================================================
