--------------------------- MODULE MCCloudClaims ---------------------------
(* TLC instances of the cloud claims: one notification, two sessions whose   *)
(* requests, the poller and a repair get in each other's way.                *)
EXTENDS CloudClaims, TLC

Symmetry == Permutations(Sessions) \cup Permutations(Slots)

\* Requests nobody waits for make a difference while the cloud can still carry
\* them out, what the cloud has carried out while its answer is asked for.
View == <<storeVars, journalVars, cloud, applied \cap (pending \cup Called),
          {i \in loose \ applied : Grants(i)}, daemonVars>>
=============================================================================
