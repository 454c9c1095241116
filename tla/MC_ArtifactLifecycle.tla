-------------------------- MODULE MC_ArtifactLifecycle --------------------------
(***************************************************************************)
(* One digest is where everything meets: two workspaces share it, and each *)
(* pair of requests is a retry, a reuse of the key for another version, a  *)
(* second key for the same version, or independent.                        *)
(***************************************************************************)
EXTENDS ArtifactLifecycle

CONSTANTS A, B, d1

Ask(ws, key, version, digest) ==
  [ws |-> ws, key |-> key, version |-> version, digest |-> digest]

MCInputs == {Ask(A, "k1", "v1", d1), Ask(A, "k1", "v2", d1), Ask(A, "k2", "v1", d1),
             Ask(B, "k1", "v1", d1)}
================================================================================
