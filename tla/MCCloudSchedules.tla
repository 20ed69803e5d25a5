-------------------------- MODULE MCCloudSchedules --------------------------
(* Two devices, two good schedules and one that cron refuses.  The agent is
   installed with any schedule of device 1, and first seen by a cloud that
   leaves device 2 to its local schedule; edits reach the other combinations. *)
EXTENDS CloudSchedules
CONSTANTS hourly, daily, garbled
MCSchedule == {hourly, daily, garbled}
MCValid    == {hourly, daily}
MCInit     == Init /\ file[2] = hourly /\ cloud[2] = Unset
MCSpec     == MCInit /\ [][Next]_vars /\ WF_vars(Daemon)
=============================================================================
