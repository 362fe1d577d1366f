--------------------------------- MODULE Disk ---------------------------------
(***************************************************************************)
(* The disk driver (kernel/disk/disk.cpp) with the clock it waits by       *)
(* (kernel/timer) and the ATA drives behind the ports.  The driver polls:  *)
(* between any two of its port accesses a drive may go on or the timer may *)
(* interrupt.  It asks about "busy" and about "data" with one port access  *)
(* each.                                                                   *)
(*                                                                         *)
(* The drives are external and modelled as the ATA protocol has them: one  *)
(* command at a time, one sector at a time, the error bit when they have   *)
(* stopped, and a command that comes while they are busy is ignored.  The  *)
(* transfer of the words of a sector is one step.                          *)
(***************************************************************************)
EXTENDS Integers, FiniteSets, Sequences

CONSTANTS
  Places,        \* port_base and h in the order of disks::init, 1 .. 16
  Ready,         \* the places with a drive whose status is 0x50
  Identifies,    \* those that know the command 0xF8
  LastSector,    \* what they answer, by place
  Early,         \* what the registers may read as well while one has not answered
  Data,          \* contents of a sector
  Contents,      \* of the drives at the start: Contents[d][sector]
  MaxDisks,      \* length of disks_arr (10)
  MaxCount,      \* bound: sectors in one transfer; the register takes 256
  MaxTicks       \* bound: ticks counted beyond the start of the last wait

ASSUME DriveAssumption ==
  /\ Places \in Nat \ {0} /\ Ready \subseteq 1 .. Places /\ Identifies \subseteq Ready
  /\ LastSector \in [1 .. Places -> Nat] /\ Early \in [1 .. Places -> SUBSET Nat]
  /\ 0 \notin Data
  /\ DOMAIN Contents = 1 .. Places
  /\ \A d \in 1 .. Places : Contents[d] \in [0 .. LastSector[d] -> Data]
  /\ MaxDisks \in Nat /\ MaxCount \in Nat /\ MaxTicks \in Nat

VARIABLES
  pc, place, started_waiting,      \* the driver
  disks_arr,
  late,                            \* places whose answer the driver did not wait for
  request, i, buffer,              \* the transfer in progress, or the last one
  tick,                            \* timer.cpp
  state, task,                     \* status and command of each drive
  cache, medium,                   \* its sectors as it answers, and on the platter
  failed                           \* history: a drive has failed in this transfer

driver == <<pc, place, started_waiting, disks_arr, late, request, i, buffer>>
drives == <<state, task, cache, medium, failed>>
vars == <<driver, tick, drives>>

Place == 1 .. Places
Sector(d) == 0 .. LastSector[d]
NoTask == [command |-> "none", sector |-> 0, left |-> 0, word |-> 0]
NoRequest == [op |-> "none", at |-> 1, sector |-> 0, count |-> 0, data |-> <<>>]

\* A busy drive ignores the command register.
Command(d, t) ==
  IF state[d] = "busy" THEN UNCHANGED <<state, task>>
  ELSE state' = [state EXCEPT ![d] = "busy"] /\ task' = [task EXCEPT ![d] = t]

-----------------------------------------------------------------------------
(* disks::init                                                             *)

\* The status of the place: ready, without an error.
Probe ==
  /\ pc = "probe" /\ place <= Places
  /\ IF place \in Ready THEN pc' = "identify" /\ UNCHANGED place
                        ELSE place' = place + 1 /\ UNCHANGED pc
  /\ UNCHANGED <<started_waiting, disks_arr, late, request, i, buffer, tick, drives>>

\* Command 0xF8.  The wait before it has the mask 0x40 == 0, which is 0.
Identify ==
  /\ pc = "identify"
  /\ Command(place, [NoTask EXCEPT !.command = "identify"])
  /\ pc' = "wait"
  /\ started_waiting' = tick
  /\ UNCHANGED <<place, disks_arr, late, request, i, buffer, tick, cache, medium, failed>>

\* The mask is 0x80 != 0, which is 1: the error bit.  A drive that is still busy
\* is taken for one that has answered.
Wait ==
  /\ pc = "wait"
  /\ pc' = IF state[place] = "error" THEN "ticks" ELSE "size"
  /\ late' = IF state[place] = "busy" THEN late \cup {place} ELSE late
  /\ UNCHANGED <<place, started_waiting, disks_arr, request, i, buffer, tick, drives>>

WaitNoLonger ==                               \* mutant: no timeout
  /\ pc = "ticks"
  /\ pc' = "wait"
  /\ UNCHANGED <<place, started_waiting, disks_arr, late, request, i, buffer, tick, drives>>
TimeOut ==
  /\ pc = "ticks"
  /\ IF tick >= started_waiting + 2 THEN pc' = "probe" /\ place' = place + 1
                                    ELSE pc' = "wait" /\ UNCHANGED place
  /\ UNCHANGED <<started_waiting, disks_arr, late, request, i, buffer, tick, drives>>

Registers(d) == IF d \in late THEN Early[d] \cup {LastSector[d]} ELSE {LastSector[d]}

AddLastSector ==                              \* mutant: the last sector is the size
  /\ pc = "size" /\ Len(disks_arr) < MaxDisks
  /\ \E last \in Registers(place) :
       disks_arr' = Append(disks_arr, [at |-> place, size |-> last])
  /\ pc' = "probe" /\ place' = place + 1
  /\ UNCHANGED <<started_waiting, late, request, i, buffer, tick, drives>>
AddDisk ==
  /\ pc = "size" /\ Len(disks_arr) < MaxDisks
  /\ \E last \in Registers(place) :
       disks_arr' = Append(disks_arr, [at |-> place, size |-> last + 1])
  /\ pc' = "probe" /\ place' = place + 1
  /\ UNCHANGED <<started_waiting, late, request, i, buffer, tick, drives>>

\* Nothing keeps the count within disks_arr: what the write behind its end hits
\* is not defined, and the model ends there.
OverrunDisks ==
  /\ pc = "size" /\ Len(disks_arr) >= MaxDisks
  /\ pc' = "overrun"
  /\ UNCHANGED <<place, started_waiting, disks_arr, late, request, i, buffer, tick, drives>>

Probed ==
  /\ pc = "probe" /\ place > Places
  /\ pc' = "caller"
  /\ UNCHANGED <<place, started_waiting, disks_arr, late, request, i, buffer, tick, drives>>

-----------------------------------------------------------------------------
(* Disk::read and Disk::write of sectors that the drive has.               *)
Start(op, k, sector, data) ==
  LET d == disks_arr[k].at
  IN  /\ pc = "caller"
      /\ sector + Len(data) <= LastSector[d] + 1
      /\ request' = [op |-> op, at |-> d, sector |-> sector, count |-> Len(data),
                     data |-> IF op = "write" THEN data ELSE <<>>]
      /\ Command(d, [command |-> op, sector |-> sector, left |-> Len(data), word |-> 0])
      /\ i' = 0 /\ buffer' = <<>>
      /\ pc' = "busy?" /\ failed' = FALSE
      /\ UNCHANGED <<place, started_waiting, disks_arr, late, tick, cache, medium>>

\* The wait at each sector: two questions, and two more if one disappoints.
PollBusy ==
  /\ pc = "busy?"
  /\ pc' = IF state[request.at] = "busy" THEN "error?" ELSE "data?"
  /\ UNCHANGED <<place, started_waiting, disks_arr, late, request, i, buffer, tick, drives>>

PollDataSkipped ==                            \* mutant: not busy is good enough
  /\ pc = "data?"
  /\ pc' = "move"
  /\ UNCHANGED <<place, started_waiting, disks_arr, late, request, i, buffer, tick, drives>>
PollData ==
  /\ pc = "data?"
  /\ pc' = IF state[request.at] = "data" THEN "move" ELSE "error?"
  /\ UNCHANGED <<place, started_waiting, disks_arr, late, request, i, buffer, tick, drives>>

PollError ==
  /\ pc = "error?"
  /\ pc' = IF state[request.at] = "error" THEN "hung" ELSE "busy?"
  /\ UNCHANGED <<place, started_waiting, disks_arr, late, request, i, buffer, tick, drives>>

NextSector == IF i + 1 < request.count THEN "busy?"
              ELSE IF request.op = "read" THEN "caller" ELSE "flush"

\* The words of one sector.  The drive is then busy, or has given the last.
MoveInPlace ==                                \* mutant: always the first sector of ptr
  /\ pc = "move"
  /\ LET d == request.at
         t == task[d]
     IN  IF request.op = "read"
           THEN /\ buffer' = Append(buffer, cache[d][t.sector])
                /\ task' = [task EXCEPT ![d].left = t.left - 1, ![d].sector = t.sector + 1]
                /\ state' = [state EXCEPT ![d] = IF t.left = 1 THEN "idle" ELSE "busy"]
           ELSE /\ task' = [task EXCEPT ![d].left = t.left - 1, ![d].word = request.data[1]]
                /\ state' = [state EXCEPT ![d] = "busy"]
                /\ UNCHANGED buffer
  /\ i' = i + 1
  /\ pc' = NextSector
  /\ UNCHANGED <<place, started_waiting, disks_arr, late, request, tick, cache, medium, failed>>
Move ==
  /\ pc = "move"
  /\ LET d == request.at
         t == task[d]
     IN  IF request.op = "read"
           THEN /\ buffer' = Append(buffer, cache[d][t.sector])
                /\ task' = [task EXCEPT ![d].left = t.left - 1, ![d].sector = t.sector + 1]
                /\ state' = [state EXCEPT ![d] = IF t.left = 1 THEN "idle" ELSE "busy"]
           ELSE /\ task' = [task EXCEPT ![d].left = t.left - 1,
                                        ![d].word = request.data[i + 1]]
                /\ state' = [state EXCEPT ![d] = "busy"]
                /\ UNCHANGED buffer
  /\ i' = i + 1
  /\ pc' = NextSector
  /\ UNCHANGED <<place, started_waiting, disks_arr, late, request, tick, cache, medium, failed>>

\* Command 0xE7, without a look at the status.
Flush ==
  /\ pc = "flush"
  /\ Command(request.at, [NoTask EXCEPT !.command = "flush"])
  /\ pc' = "settled?"
  /\ UNCHANGED <<place, started_waiting, disks_arr, late, request, i, buffer, tick, cache, medium, failed>>

\* The errors are asked about only while the drive is busy.
Settle ==
  /\ pc = "settled?"
  /\ pc' = IF state[request.at] = "busy" THEN "flushed?" ELSE "caller"
  /\ UNCHANGED <<place, started_waiting, disks_arr, late, request, i, buffer, tick, drives>>

SettleError ==
  /\ pc = "flushed?"
  /\ pc' = IF state[request.at] = "error" THEN "hung" ELSE "settled?"
  /\ UNCHANGED <<place, started_waiting, disks_arr, late, request, i, buffer, tick, drives>>

-----------------------------------------------------------------------------
(* The timer interrupt and the drives.                                     *)
timerCallback ==
  /\ tick < started_waiting + MaxTicks
  /\ tick' = tick + 1
  /\ UNCHANGED <<driver, drives>>

\* The last sector is in the registers, or the command is unknown.
DriveAnswers(d) ==
  /\ state[d] = "busy" /\ task[d].command = "identify"
  /\ state' = [state EXCEPT ![d] = IF d \in Identifies THEN "idle" ELSE "error"]
  /\ UNCHANGED <<driver, tick, task, cache, medium, failed>>

Stored(d) == task[d].command = "write" /\ task[d].word # 0

\* The sector to read is there, or room for the one to write.
DriveAsks(d) ==
  /\ state[d] = "busy" /\ task[d].command \in {"read", "write"} /\ ~Stored(d)
  /\ state' = [state EXCEPT ![d] = "data"]
  /\ UNCHANGED <<driver, tick, task, cache, medium, failed>>

\* A written sector is in the cache; the next one is asked for.
DriveStores(d) ==
  /\ state[d] = "busy" /\ Stored(d)
  /\ cache' = [cache EXCEPT ![d][task[d].sector] = task[d].word]
  /\ task' = [task EXCEPT ![d].word = 0, ![d].sector = @ + 1]
  /\ state' = [state EXCEPT ![d] = IF task[d].left = 0 THEN "idle" ELSE "data"]
  /\ UNCHANGED <<driver, tick, medium, failed>>

DriveFlushes(d) ==
  /\ state[d] = "busy" /\ task[d].command = "flush"
  /\ medium' = [medium EXCEPT ![d] = cache[d]]
  /\ state' = [state EXCEPT ![d] = "idle"]
  /\ UNCHANGED <<driver, tick, task, cache, failed>>

DriveFails(d) ==
  /\ state[d] = "busy"
  /\ state' = [state EXCEPT ![d] = "error"]
  /\ failed' = (failed \/ d = request.at)
  /\ UNCHANGED <<driver, tick, task, cache, medium>>

Init ==
  /\ pc = "probe" /\ place = 1 /\ started_waiting = 0 /\ disks_arr = <<>>
  /\ late = {} /\ request = NoRequest /\ i = 0 /\ buffer = <<>>
  /\ tick = 0
  /\ state = [d \in Place |-> "idle"] /\ task = [d \in Place |-> NoTask]
  /\ cache = Contents /\ medium = Contents /\ failed = FALSE

Driver ==
  \/ Probe \/ Identify \/ Wait \/ TimeOut \/ AddDisk \/ OverrunDisks \/ Probed
  \/ PollBusy \/ PollData \/ PollError \/ Move
  \/ Flush \/ Settle \/ SettleError

Request ==
  \E op \in {"read", "write"}, k \in DOMAIN disks_arr :
    \E sector \in Sector(disks_arr[k].at), n \in 1 .. MaxCount :
      \E data \in [1 .. n -> Data] : Start(op, k, sector, data)

DriveGoesOn(d) ==
  DriveAnswers(d) \/ DriveAsks(d) \/ DriveStores(d) \/ DriveFlushes(d) \/ DriveFails(d)

Next == Driver \/ Request \/ timerCallback \/ \E d \in Place : DriveGoesOn(d)

\* The driver polls without a pause, the timer goes on, and a drive that is
\* busy comes to an end, of whatever kind.
Spec ==
  /\ Init /\ [][Next]_vars
  /\ WF_vars(Driver) /\ WF_vars(timerCallback)
  /\ \A d \in Place : WF_vars(DriveGoesOn(d))

-----------------------------------------------------------------------------
\* The driver's place in a transfer, the command and the counters of the drive
\* keep their types.
TypeOK ==
  /\ pc \in {"probe", "identify", "wait", "ticks", "size", "caller", "busy?", "data?",
             "error?", "move", "flush", "settled?", "flushed?", "hung",
             "overrun"}
  /\ place \in 1 .. Places + 1 /\ started_waiting \in Nat /\ tick \in Nat
  /\ disks_arr \in Seq([at : Place, size : Nat]) /\ Len(disks_arr) <= MaxDisks
  /\ late \subseteq Place
  /\ request \in [op : {"none", "read", "write"}, at : Place, sector : Nat,
                  count : Nat, data : Seq(Data)]
  /\ i \in 0 .. request.count /\ buffer \in Seq(Data)
  /\ state \in [Place -> {"idle", "busy", "data", "error"}]
  /\ task \in [Place -> [command : {"none", "identify", "read", "write", "flush"}, sector : Nat,
                         left : Nat, word : Data \cup {0}]]
  /\ \A d \in Place : {cache[d], medium[d]} \subseteq [Sector(d) -> Data]
  /\ failed \in BOOLEAN

\* disks_arr lists drives that are there, in order; one that has answered in
\* time knows the command and stands there with its size.  A drive is left out
\* only when it has answered with an error, and never stops the kernel.
DisksFound ==
  LET listed == {disks_arr[k].at : k \in DOMAIN disks_arr}
  IN  /\ \A k, l \in DOMAIN disks_arr : k < l => disks_arr[k].at < disks_arr[l].at
      /\ listed \subseteq {d \in Ready : d < place}
      /\ \A k \in DOMAIN disks_arr :
           LET d == disks_arr[k].at
           IN  d \notin late => d \in Identifies /\ disks_arr[k].size = Cardinality(Sector(d))
      /\ \A d \in Ready \ listed : d < place => state[d] = "error"

\* The words are moved only while the drive asks for those very words:
\* whatever it did between the questions, it is never ahead or behind.
InStep ==
  /\ TypeOK
  /\ pc = "move" => /\ state[request.at] = "data"
                    /\ task[request.at].command = request.op
                    /\ task[request.at].sector = request.sector + i
                    /\ task[request.at].left = request.count - i

\* When read returns, its buffer holds what the drive answers; when write
\* returns and the drive has not failed, the drive answers what was written.
TransferRight ==
  pc = "caller" /\ request.op # "none" =>
    LET sectors == cache[request.at]
    IN  \A k \in 1 .. request.count :
          /\ request.op = "read" => buffer[k] = sectors[request.sector + k - 1]
          /\ request.op = "write" /\ ~failed =>
               request.data[k] = sectors[request.sector + k - 1]

\* Every transfer and the search for drives come to an end, if the drives fit
\* disks_arr and the drive has got the command: one that is still busy with
\* the search ignores it.
CallsReturn ==
  pc # "caller" ~> \/ pc \in {"caller", "hung", "overrun"}
                   \/ request.op # "none" /\ task[request.at].command = "identify"

\* When write returns and the drive has not failed, the platter holds what was
\* written.
FlushedOnReturn ==
  pc = "caller" /\ request.op = "write" /\ ~failed =>
    \A k \in 1 .. request.count :
      medium[request.at][request.sector + k - 1] = request.data[k]
=============================================================================
