-------------------------- MODULE MCStorageManager --------------------------
(* Two backups of one device, with a history that keeps one *)
EXTENDS StorageManager, TLC
CONSTANTS b1, b2

MCBackup   == {b1, b2}
MCDeviceOf == [b \in MCBackup |-> 1]
MCSymmetry == Permutations(MCBackup)
=============================================================================
