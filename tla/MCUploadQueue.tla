--------------------------- MODULE MCUploadQueue ---------------------------
(* Two backups of device 1, whose saves may meet in one second, and one of
   device 2, behind them in the queue.  Two operations may fail or be cut by a
   kill; a third if two of them are removals of what was sent, which a pair
   needs to stay whole in the queue.                                        *)
EXTENDS UploadQueue
CONSTANTS b1, b2, b3

MCBackup   == {b1, b2, b3}
MCDeviceOf == [b \in MCBackup |-> IF b = b3 THEN 2 ELSE 1]
MCPair     == {b1, b2}
MCPairOf   == [b \in MCPair |-> 1]
MCSpread   == {b1, b3}
MCSpreadOf == [b \in MCSpread |-> IF b = b3 THEN 2 ELSE 1]

TwoFaults == faults <= 2 \/ (crashes = 0 /\ Cardinality(unremoved) >= 2)
MCNext    == Next /\ TwoFaults'
MCSpec    == Init /\ [][MCNext]_vars /\ WF_vars(ProcessQueue)
=============================================================================
