------------------------------ MODULE MC_Revisions -----------------------------
(***************************************************************************)
(* Two versions of one package with the same content, two policies, a      *)
(* manifest that names the first version, two administrators who approve   *)
(* it, and a download of the content.                                      *)
(***************************************************************************)
EXTENDS Revisions

CONSTANTS d1, d2

Old == [name |-> "skill", version |-> "1"]
New == [name |-> "skill", version |-> "2"]

Ask(kind, document, r, signed) ==
  [kind |-> kind, document |-> document, release |-> r, digest |-> d1, signed |-> signed]

MCRelease == {Old, New}

MCInput ==
  [approval    |-> Ask("policy", {RequireApproval}, Old, FALSE),
   signature   |-> Ask("policy", {RequireSignature}, Old, FALSE),
   unsigned    |-> Ask("publish", {}, Old, FALSE),
   signed      |-> Ask("publish", {}, New, TRUE),
   manifest    |-> Ask("manifest", {[release |-> Old, digest |-> d1]}, Old, FALSE),
   both        |-> Ask("manifest", {[release |-> r, digest |-> d1] : r \in MCRelease}, Old, FALSE),
   wrong       |-> Ask("manifest", {[release |-> New, digest |-> d2]}, Old, FALSE),
   first       |-> Ask("approve", {}, Old, FALSE),
   second      |-> Ask("approve", {}, Old, FALSE),
   content     |-> Ask("artifact", {}, Old, FALSE),
   download    |-> Ask("download", {}, Old, FALSE)]

MCRequest == DOMAIN MCInput
================================================================================
