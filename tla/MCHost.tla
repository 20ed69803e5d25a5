-------------------------------- MODULE MCHost --------------------------------
(* Two backups of the first agent, one of the second, one session of check,
   all of one device.  Numbers, keys and the first agent's backups are alike. *)
EXTENDS Host, TLC
CONSTANTS a1, a2, s1, s2, s3, s4, p1, p2, k1, k2
MCSession   == {s1, s2, s3, s4}
MCProcessOf == (s1 :> a1) @@ (s2 :> a1) @@ (s3 :> a2) @@ (s4 :> Check)
MCAddressOf == [s \in MCSession |-> "device"]
MCVendorOf  == [s \in MCSession |-> "cisco"]
(* States in which both excuses hold are not followed: only the cache is still
   held to anything there, and it meets neither.                            *)
OneExcuse == ~ (unguarded /\ clashed)
Symmetry == Permutations({p1, p2}) \cup Permutations({k1, k2}) \cup Permutations({s1, s2})
=============================================================================
