---------------------------- MODULE MCIpcStartup ----------------------------
(* Instances of IpcStartup for TLC.                                        *)
EXTENDS IpcStartupInvariant, TLC

CONSTANTS c1, c2, s1, s2, s3, k1, k2, k3

\* Clients, servers and keys are interchangeable in the safety runs.
StartupSymmetry ==
  Permutations(Clients) \cup Permutations(Servers) \cup Permutations(Keys)
=============================================================================
