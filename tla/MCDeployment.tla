----------------------------- MODULE MCDeployment -----------------------------
\* Two versions, so that one is active while the other is staged or accepted, and two
\* payloads, so that one can be in the place of the other.  Nothing tells the versions,
\* or the payloads, apart but their names.
EXTENDS Deployment, TLC

Interchangeable == Permutations(Versions) \cup Permutations(Digests)
================================================================================
