------------------------------ MODULE MCDaemon ------------------------------
(* Three backups for two slots: two that cron fires and a command *)
EXTENDS Daemon
CONSTANTS b1, b2, b3
MCBackup    == {b1, b2, b3}
MCScheduled == {b1, b2}
=============================================================================
