--------------------------- MODULE MCHistoryCache ---------------------------
(* Three backups of one device, seconds apart or in the same second, pruned by
   two goroutines with limits that change between calls.                    *)
EXTENDS HistoryCache, TLC
CONSTANTS b1, b2, b3

MCBackup   == {b1, b2, b3}
MCDeviceOf == [b \in Backup |-> 1]
MCSymmetry == Permutations(Backup)
=============================================================================
