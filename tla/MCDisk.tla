-------------------------------- MODULE MCDisk --------------------------------
(* Four places: a drive that does not know the command, no drive, a drive of *)
(* two sectors and one of one sector.                                        *)
EXTENDS Disk

DrivesReady == {1, 3, 4}
DrivesIdentified == {3, 4}
LastSectors == <<0, 0, 1, 0>>
EarlyRegisters == <<{0}, {}, {0}, {2}>>
TwoValues == {1, 2}
\* Nothing but FlushedOnReturn asks about the platters, and of the time only
\* how long the driver has waited matters.
WithoutPlatters ==
  <<pc, place, tick - started_waiting, disks_arr, late, request, i, buffer,
    state, task, cache, failed>>

StartContents == [d \in 1 .. 4 |-> [s \in 0 .. LastSectors[d] |-> s + 1]]
=============================================================================
