---------------------------- MODULE MCCageLifecycle ----------------------------
EXTENDS CageLifecycle

\* Everything that may go wrong, and what goes wrong in a day's use: no command
\* is killed, the disk is not full and nobody deletes what is in use.
AllFaults == FaultKinds
DailyFaults == {"image", "define", "start", "isolation", "poweroff"}
=============================================================================
