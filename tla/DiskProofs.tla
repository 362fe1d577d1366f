------------------------------ MODULE DiskProofs ------------------------------
(***************************************************************************)
(* Theorems about Disk, for every number of places and drives, every size  *)
(* of a disk and of a transfer, and every order in which drives, timer and *)
(* driver go on.                                                           *)
(***************************************************************************)
EXTENDS Disk, FiniteSetTheorems, TLAPS

-----------------------------------------------------------------------------
(* The inductive invariant.                                                *)

Searching == {"probe", "identify", "wait", "ticks", "size"}
Moving == {"busy?", "data?", "error?", "move"}
Flushing == {"flush", "settled?", "flushed?"}

\* Every drive has its sectors.
Drives == DOMAIN cache = Place /\ DOMAIN medium = Place

\* Only the drive of the transfer in progress is busy or asks for data, and a
\* drive that still answers the search.
Identifying(d) == state[d] = "busy" /\ task[d].command = "identify"
Quiet ==
  \A d \in Place : \/ state[d] \in {"idle", "error"}
                   \/ Identifying(d)
                   \/ d = request.at /\ pc \in Moving \cup Flushing

\* What the search knows of the drive at its place.
Search ==
  /\ pc \in Searching => request.op = "none"
  /\ pc \in Searching \ {"probe"} => place \in Ready
  /\ pc = "wait" /\ state[place] = "idle" => place \in Identifies
  /\ pc = "ticks" => state[place] = "error"
  /\ pc = "size" => place \in late \cup Identifies

Listed(list) == {list[k].at : k \in DOMAIN list}

\* The transfer is one of sectors of the disk, and i is how many have moved.
Transfer ==
  /\ request.op # "none" => /\ request.count > 0
                            /\ request.sector + request.count <= LastSector[request.at] + 1
                            /\ request.at \in Listed(disks_arr)
  /\ request.op = "write" => Len(request.data) = request.count
  /\ pc \in Moving => request.op # "none" /\ i < request.count
  /\ pc \in Flushing => request.op = "write" /\ i = request.count
  /\ pc = "caller" => request.op = "none" \/ i = request.count

\* A word that waits for the drive is the last one that was moved.
LastMoved(t) ==
  /\ request.op = "write" /\ t.command = "write" /\ i > 0
  /\ t.sector = request.sector + i - 1 /\ t.word = request.data[i]

\* The drive's counters follow the driver's, unless it has not got the command.
Follows ==
  LET d == request.at
      t == task[d]
  IN  /\ pc \in Moving =>
           IF t.command = "identify" THEN state[d] # "data"
           ELSE /\ t.command = request.op /\ t.left = request.count - i /\ state[d] # "idle"
                /\ t.word = 0 => t.sector = request.sector + i
                /\ t.word # 0 => LastMoved(t) /\ state[d] # "data"
      /\ pc = "move" => state[d] = "data"
      /\ pc \in Flushing =>
           /\ state[d] # "data"
           /\ state[d] = "busy" => \/ t.command = "flush"
                                   \/ LastMoved(t) /\ t.word # 0 /\ t.left = 0

\* What has moved is the same on both sides, or a word that waits.
Agrees ==
  LET d == request.at
      waits == state[d] = "busy" /\ task[d].word # 0 /\ LastMoved(task[d])
  IN  /\ request.op = "read" /\ pc # "hung" =>
           /\ Len(buffer) = i
           /\ \A k \in 1 .. i : buffer[k] = cache[d][request.sector + k - 1]
      /\ request.op = "write" /\ ~failed =>
           \A k \in 1 .. i : \/ cache[d][request.sector + k - 1] = request.data[k]
                             \/ k = i /\ waits

DiskInv == /\ TypeOK /\ Drives /\ DisksFound /\ Quiet /\ Search
           /\ Transfer /\ Follows /\ Agrees

-----------------------------------------------------------------------------
(* The disks found so far.                                                 *)

LEMMA ReadyPlaces ==
  Places \in Nat /\ Ready \subseteq Place /\ Identifies \subseteq Ready /\ Place \subseteq Nat
BY DriveAssumption DEF Place

LEMMA SectorCount ==
  ASSUME NEW d \in Place
  PROVE  Cardinality(Sector(d)) = LastSector[d] + 1 /\ LastSector[d] \in Nat
<1>1. LastSector[d] \in Nat
  BY DriveAssumption DEF Place
<1>2. Cardinality(0 .. LastSector[d]) = LastSector[d] + 1
  BY <1>1, FS_Interval
<1> QED BY <1>1, <1>2 DEF Sector

\* DisksFound in its parts.
InOrder(list) == \A k, l \in DOMAIN list : k < l => list[k].at < list[l].at
SizesRight(list, passed) ==
  \A k \in DOMAIN list : list[k].at \notin passed =>
    list[k].at \in Identifies /\ list[k].size = Cardinality(Sector(list[k].at))
LeftOut(list, p, status) == \A d \in Ready \ Listed(list) : d < p => status[d] = "error"

LEMMA FoundParts ==
  DisksFound <=> /\ InOrder(disks_arr) /\ Listed(disks_arr) \subseteq {d \in Ready : d < place}
                 /\ SizesRight(disks_arr, late) /\ LeftOut(disks_arr, place, state)
BY DEF DisksFound, InOrder, Listed, SizesRight, LeftOut

\* A step that adds no drive, and passes one only when it has answered with an
\* error.
LEMMA FoundKept ==
  ASSUME DisksFound, UNCHANGED disks_arr, late \subseteq late', place \in Nat,
         place' = place \/ (place' = place + 1 /\ (place \in Ready => state[place] = "error")),
         \A d \in Ready \ Listed(disks_arr) :
           d < place' /\ state[d] = "error" => state'[d] = "error"
  PROVE  DisksFound'
<1>1. /\ InOrder(disks_arr) /\ Listed(disks_arr) \subseteq {d \in Ready : d < place}
      /\ SizesRight(disks_arr, late) /\ LeftOut(disks_arr, place, state)
  BY FoundParts
<1>2. \A d \in Ready : d \in Nat
  BY ReadyPlaces
<1>3. Listed(disks_arr) \subseteq {d \in Ready : d < place'}
  <2>1. \A d \in Ready : d < place => d < place'
    BY <1>2
  <2> QED BY <1>1, <2>1
<1>4. SizesRight(disks_arr, late')
  BY <1>1 DEF SizesRight
<1>5. LeftOut(disks_arr, place', state')
  <2> SUFFICES ASSUME NEW d \in Ready \ Listed(disks_arr), d < place' PROVE state'[d] = "error"
    BY DEF LeftOut
  <2>1. d < place \/ (d = place /\ place' = place + 1)
    BY <1>2
  <2>2. state[d] = "error"
    BY <1>1, <2>1 DEF LeftOut
  <2> QED BY <2>2
<1> QED BY <1>1, <1>3, <1>4, <1>5 DEF DisksFound, InOrder, Listed, SizesRight, LeftOut

\* The next drive in the list.
LEMMA FoundAppend ==
  ASSUME NEW list \in Seq([at : Place, size : Nat]), NEW p \in Ready, NEW size \in Nat, NEW passed,
         NEW status,
         InOrder(list), Listed(list) \subseteq {d \in Ready : d < p},
         SizesRight(list, passed), LeftOut(list, p, status),
         p \notin passed => p \in Identifies /\ size = Cardinality(Sector(p))
  PROVE  LET longer == Append(list, [at |-> p, size |-> size])
         IN  /\ InOrder(longer) /\ Listed(longer) \subseteq {d \in Ready : d < p + 1}
             /\ SizesRight(longer, passed) /\ LeftOut(longer, p + 1, status)
<1> DEFINE new == [at |-> p, size |-> size]
           longer == Append(list, new)
<1>1. /\ Len(list) \in Nat /\ DOMAIN list = 1 .. Len(list)
      /\ DOMAIN longer = 1 .. Len(list) + 1
      /\ \A k \in 1 .. Len(list) : longer[k] = list[k]
      /\ longer[Len(list) + 1] = new
  BY ReadyPlaces
<1>2. new.at = p /\ new.size = size
  OBVIOUS
<1> HIDE DEF new, longer
<1>3. \A k \in DOMAIN longer : k \in DOMAIN list \/ k = Len(list) + 1
  BY <1>1
<1>4. \A k \in DOMAIN list : longer[k] = list[k] /\ list[k].at \in Ready /\ list[k].at < p
  BY <1>1 DEF Listed
<1>5. p \in Nat /\ \A d \in Ready : d \in Nat
  BY ReadyPlaces
<1>6. InOrder(longer)
  <2> SUFFICES ASSUME NEW k \in DOMAIN longer, NEW l \in DOMAIN longer, k < l
               PROVE  longer[k].at < longer[l].at
    BY DEF InOrder
  <2>1. k \in DOMAIN list
    BY <1>1
  <2>2. CASE l \in DOMAIN list
    BY <1>4, <2>1, <2>2 DEF InOrder
  <2>3. CASE l = Len(list) + 1
    BY <1>1, <1>2, <1>4, <2>1, <2>3
  <2> QED BY <1>3, <2>2, <2>3
<1>7. Listed(longer) = Listed(list) \cup {p}
  <2>1. \A k \in DOMAIN longer : longer[k].at \in Listed(list) \cup {p}
    BY <1>1, <1>2, <1>3, <1>4 DEF Listed
  <2>2. \A k \in DOMAIN list : list[k].at \in Listed(longer)
    BY <1>1, <1>4 DEF Listed
  <2>3. p \in Listed(longer)
    <3>1. Len(list) + 1 \in DOMAIN longer
      BY <1>1
    <3> QED BY <1>1, <1>2, <3>1 DEF Listed
  <2> QED BY <2>1, <2>2, <2>3 DEF Listed
<1>8. Listed(longer) \subseteq {d \in Ready : d < p + 1}
  <2>1. \A d \in Ready : d < p => d < p + 1
    BY <1>5
  <2>2. p < p + 1
    BY <1>5
  <2> QED BY <1>7, <2>1, <2>2
<1>9. SizesRight(longer, passed)
  <2> SUFFICES ASSUME NEW k \in DOMAIN longer, longer[k].at \notin passed
               PROVE  /\ longer[k].at \in Identifies
                      /\ longer[k].size = Cardinality(Sector(longer[k].at))
    BY DEF SizesRight
  <2>1. CASE k \in DOMAIN list
    BY <1>4, <2>1 DEF SizesRight
  <2>2. CASE k = Len(list) + 1
    BY <1>1, <1>2, <2>2
  <2> QED BY <1>3, <2>1, <2>2
<1>10. LeftOut(longer, p + 1, status)
  <2> SUFFICES ASSUME NEW d \in Ready \ Listed(longer), d < p + 1 PROVE status[d] = "error"
    BY DEF LeftOut
  <2>1. d \in Ready \ Listed(list) /\ d < p
    BY <1>5, <1>7
  <2> QED BY <2>1 DEF LeftOut
<1> QED BY <1>6, <1>8, <1>9, <1>10 DEF longer, new

-----------------------------------------------------------------------------
(* The actions.                                                            *)

LEMMA DiskInit == Init => DiskInv
<1> SUFFICES ASSUME Init PROVE DiskInv
  OBVIOUS
<1> USE DEF Init
<1>1. /\ Places \in Nat \ {0} /\ 1 \in Place /\ 0 \in Nat /\ MaxDisks \in Nat
      /\ DOMAIN Contents = Place
      /\ \A d \in Place : Contents[d] \in [Sector(d) -> Data]
  BY DriveAssumption DEF Place, Sector
<1>2. TypeOK
  <2>1. request \in [op : {"none", "read", "write"}, at : Place, sector : Nat,
                     count : Nat, data : Seq(Data)]
    BY <1>1 DEF NoRequest
  <2>2. task \in [Place -> [command : {"none", "identify", "read", "write", "flush"}, sector : Nat,
                            left : Nat, word : Data \cup {0}]]
    BY <1>1 DEF NoTask
  <2>3. place \in 1 .. Places + 1
    BY <1>1
  <2>4. disks_arr \in Seq([at : Place, size : Nat]) /\ Len(disks_arr) <= MaxDisks
    BY <1>1
  <2>5. i \in 0 .. request.count
    BY DEF NoRequest
  <2>6. buffer \in Seq(Data) /\ state \in [Place -> {"idle", "busy", "data", "error"}]
        /\ late \subseteq Place
    OBVIOUS
  <2>7. \A d \in Place : {cache[d], medium[d]} \subseteq [Sector(d) -> Data]
    BY <1>1
  <2>8. /\ pc \in {"probe", "identify", "wait", "ticks", "size", "caller", "busy?", "data?",
                   "error?", "move", "flush", "settled?", "flushed?", "hung", "overrun"}
        /\ started_waiting \in Nat /\ tick \in Nat /\ failed \in BOOLEAN
    OBVIOUS
  <2> QED BY <2>1, <2>2, <2>3, <2>4, <2>5, <2>6, <2>7, <2>8 DEF TypeOK
<1>3. DisksFound
  <2>1. \A d \in Ready : ~(d < 1)
    BY ReadyPlaces DEF Place
  <2>2. DOMAIN disks_arr = {} /\ Listed(disks_arr) = {}
    BY DEF Listed
  <2>3. InOrder(disks_arr) /\ SizesRight(disks_arr, late)
    BY <2>2 DEF InOrder, SizesRight
  <2>4. LeftOut(disks_arr, place, state)
    BY <2>1 DEF LeftOut
  <2> QED BY <2>2, <2>3, <2>4, FoundParts
<1>4. Drives /\ Quiet /\ Search
  BY <1>1 DEF Drives, Quiet, Search, Searching, NoRequest
<1>5. Transfer /\ Follows /\ Agrees
  BY DEF Transfer, Follows, Agrees, Searching, Moving, Flushing, NoRequest
<1> QED BY <1>2, <1>3, <1>4, <1>5 DEF DiskInv

Task == [command : {"none", "identify", "read", "write", "flush"}, sector : Nat, left : Nat, word : Data \cup {0}]

LEMMA DriveTypes ==
  ASSUME TypeOK
  PROVE  /\ state \in [Place -> {"idle", "busy", "data", "error"}] /\ task \in [Place -> Task]
         /\ request.at \in Place
         /\ place \in 1 .. Places + 1 /\ place \in Nat /\ late \subseteq Place
<1>1. state \in [Place -> {"idle", "busy", "data", "error"}] /\ task \in [Place -> Task]
  BY DEF TypeOK, Task
<1>2. request.at \in Place /\ place \in 1 .. Places + 1 /\ late \subseteq Place
  BY DEF TypeOK
<1>3. place \in Nat
  BY <1>2, ReadyPlaces
<1> QED BY <1>1, <1>2, <1>3

\* The driver has asked a drive or looked at its own variables, no more.
Asks == UNCHANGED <<started_waiting, disks_arr, request, i, buffer, tick, drives>>

LEMMA AsksInv ==
  ASSUME DiskInv, Asks,
         \/ Probe \/ Wait \/ TimeOut \/ OverrunDisks \/ Probed
         \/ PollBusy \/ PollData \/ PollError \/ Settle \/ SettleError
  PROVE  DiskInv'
<1> USE DEF DiskInv
<1>1. UNCHANGED <<started_waiting, disks_arr, request, i, buffer, tick, state, task, cache, medium, failed>>
  BY DEF Asks, drives
<1> DEFINE at == request.at
<1>2. /\ at \in Place /\ state[at] \in {"idle", "error", "busy", "data"}
      /\ place \in 1 .. Places + 1 /\ place \in Nat /\ Places \in Nat /\ late \subseteq Place
  BY ReadyPlaces, DriveTypes
<1>3. pc \in Searching \ {"probe"} => place \in Place /\ place \in Ready
  BY ReadyPlaces DEF Search
\* Which way each of them takes.
<1>4. /\ \/ place' = place
         \/ place' = place + 1 /\ place \in Place /\ (place \in Ready => state[place] = "error")
      /\ \/ late' = late
         \/ late' = late \cup {place} /\ place \in Place
      /\ \/ pc = "probe" /\ pc' = "identify" /\ place' = place /\ place \in Ready
         \/ pc \in {"probe", "ticks"} /\ pc' = "probe"
         \/ pc = "wait" /\ pc' = "ticks" /\ place' = place /\ state[place] = "error"
         \/ /\ pc = "wait" /\ pc' = "size" /\ place' = place
            /\ state[place] \in {"idle", "data"} \/ place \in late'
         \/ pc = "ticks" /\ pc' = "wait" /\ place' = place /\ state[place] = "error"
         \/ pc = "size" /\ pc' = "overrun" /\ place' = place
         \/ pc = "probe" /\ pc' = "caller" /\ place' = place
         \/ /\ place' = place
            /\ \/ pc \in Moving /\ pc' \in {"busy?", "data?", "error?"}
               \/ pc \in Moving /\ pc' = "move" /\ state[at] = "data"
               \/ pc \in Moving \cup Flushing /\ pc' = "hung" /\ state[at] = "error"
               \/ pc \in Flushing /\ pc' \in {"settled?", "flushed?"}
               \/ pc \in Flushing /\ pc' = "caller" /\ state[at] # "busy"
  <2>1. CASE Probe
    <3>1. pc = "probe" /\ place \in Place
      BY <1>2, <2>1 DEF Probe, Place
    <3> QED BY <2>1, <3>1 DEF Probe
  <2>2. CASE Wait
    <3>1. place \in Place /\ state[place] \in {"idle", "busy", "data", "error"}
      BY <1>3, <2>2 DEF Wait, Searching, TypeOK
    <3> QED BY <2>2, <3>1 DEF Wait
  <2>3. CASE TimeOut
    <3>1. pc = "ticks" /\ place \in Place /\ state[place] = "error"
      BY <1>3, <2>3 DEF TimeOut, Searching, Search
    <3> QED BY <2>3, <3>1 DEF TimeOut
  <2>4. CASE Probed \/ OverrunDisks
    BY <2>4 DEF Probed, OverrunDisks
  <2>5. CASE PollBusy \/ PollData \/ PollError
    BY <2>5 DEF PollBusy, PollData, PollError, Moving
  <2>6. CASE Settle \/ SettleError
    BY <2>6 DEF Settle, SettleError, Flushing
  <2> QED BY <2>1, <2>2, <2>3, <2>4, <2>5, <2>6
<1>5. TypeOK'
  <2>1. place' \in 1 .. Places + 1
    <3>1. place' = place \/ (place' = place + 1 /\ place \in Place)
      BY <1>4
    <3> QED BY <1>2, <3>1 DEF Place
  <2>2. pc' \in {"probe", "identify", "wait", "ticks", "size", "caller", "busy?", "data?",
                 "error?", "move", "flush", "settled?", "flushed?", "hung", "overrun"}
    BY <1>4
  <2>3. late' \subseteq Place
    BY <1>2, <1>4
  <2> QED BY <1>1, <2>1, <2>2, <2>3 DEF TypeOK
<1>6. DisksFound'
  <2>1. late \subseteq late'
    BY <1>4
  <2>2. place' = place \/ (place' = place + 1 /\ (place \in Ready => state[place] = "error"))
    BY <1>4
  <2> QED BY <1>1, <1>2, <2>1, <2>2, FoundKept
<1>7. Drives'
  BY <1>1 DEF Drives
<1>8. Transfer'
  <2>1. pc' = "caller" => request.op = "none" \/ i = request.count
    BY <1>4 DEF Transfer, Search, Searching, Flushing
  <2>2. /\ pc' \in Moving => pc \in Moving
        /\ pc' \in Flushing => pc \in Flushing
    BY <1>4 DEF Moving, Flushing
  <2> QED BY <1>1, <2>1, <2>2 DEF Transfer
<1>9. Search'
  <2>1. pc' \in Searching => request.op = "none"
    BY <1>4 DEF Search, Searching, Moving, Flushing
  <2>2. pc' \in Searching \ {"probe"} => place' = place /\ place \in Ready
    BY <1>3, <1>4 DEF Searching, Moving, Flushing
  <2>3. pc' \in {"wait", "ticks"} => state[place] = "error"
    BY <1>4
  <2>4. pc' = "size" => place \in late' \cup Identifies
    <3>1. pc' = "size" => pc = "wait" /\ (state[place] \in {"idle", "data"} \/ place \in late')
      BY <1>4
    <3>2. pc = "wait" => place \in Place /\ state[place] # "data"
      <4>1. pc = "wait" => place \in Place /\ pc \notin Moving \cup Flushing
        BY <1>3 DEF Searching, Moving, Flushing
      <4> QED BY <4>1 DEF Quiet, Identifying
    <3> QED BY <3>1, <3>2 DEF Search
  <2> QED BY <1>1, <2>1, <2>2, <2>3, <2>4 DEF Search, Searching
<1>10. Quiet'
  <2> SUFFICES ASSUME NEW d \in Place
               PROVE  \/ state[d] \in {"idle", "error"} \/ Identifying(d)
                      \/ d = at /\ pc' \in Moving \cup Flushing
    BY <1>1 DEF Quiet, Identifying
  <2>1. CASE d = at /\ pc \in Moving \cup Flushing
    <3>1. pc' \in Moving \cup Flushing \/ state[at] # "busy"
      BY <1>4, <2>1 DEF Moving, Flushing
    <3>2. pc' \in Moving \cup Flushing \/ state[at] # "data"
      BY <1>4, <2>1 DEF Moving, Flushing, Follows
    <3> QED BY <1>2, <2>1, <3>1, <3>2
  <2>2. CASE ~ (d = at /\ pc \in Moving \cup Flushing)
    BY <2>2 DEF Quiet
  <2> QED BY <2>1, <2>2
<1>11. Follows'
  <2>1. /\ pc' \in Moving => pc \in Moving
        /\ pc' \in Flushing => pc \in Flushing
        /\ pc' = "move" => state[at] = "data"
    BY <1>4 DEF Moving, Flushing
  <2> QED BY <1>1, <2>1 DEF Follows, LastMoved
<1>12. Agrees'
  <2>1. pc' # "hung" => pc # "hung"
    BY <1>4 DEF Moving, Flushing
  <2> QED BY <1>1, <2>1 DEF Agrees, LastMoved
<1> QED BY <1>5, <1>6, <1>7, <1>8, <1>9, <1>10, <1>11, <1>12

LEMMA IdentifyInv ==
  ASSUME DiskInv, Identify
  PROVE  DiskInv'
<1> USE DEF DiskInv
<1>1. /\ pc = "identify" /\ pc' = "wait" /\ started_waiting' = tick
      /\ \/ state[place] = "busy" /\ UNCHANGED <<state, task>>
         \/ /\ state' = [state EXCEPT ![place] = "busy"]
            /\ task' = [task EXCEPT ![place] = [NoTask EXCEPT !.command = "identify"]]
      /\ UNCHANGED <<place, disks_arr, late, request, i, buffer, tick, cache, medium, failed>>
  BY DEF Identify, Command
<1>2. place \in Place /\ place \in Ready /\ place \in Nat /\ request.op = "none"
  BY <1>1, ReadyPlaces DEF Search, Searching
<1>3. /\ [NoTask EXCEPT !.command = "identify"] \in Task
      /\ [NoTask EXCEPT !.command = "identify"].command = "identify"
  BY DEF NoTask, Task
<1>4. \A d \in Place : state[d] \in {"idle", "error"} \/ Identifying(d)
  BY <1>1 DEF Quiet, Moving, Flushing
<1>5. /\ state' \in [Place -> {"idle", "busy", "data", "error"}] /\ task' \in [Place -> Task]
      /\ state'[place] = "busy" /\ task'[place].command = "identify"
      /\ \A d \in Place : d # place => state'[d] = state[d] /\ task'[d] = task[d]
  <2>1. state \in [Place -> {"idle", "busy", "data", "error"}] /\ task \in [Place -> Task]
    BY DriveTypes
  <2>2. state[place] = "busy" => task[place].command = "identify"
    BY <1>2, <1>4 DEF Identifying
  <2>3. CASE state[place] = "busy" /\ UNCHANGED <<state, task>>
    BY <2>1, <2>2, <2>3
  <2>4. CASE /\ state' = [state EXCEPT ![place] = "busy"]
             /\ task' = [task EXCEPT ![place] = [NoTask EXCEPT !.command = "identify"]]
    <3> DEFINE t == [NoTask EXCEPT !.command = "identify"]
    <3>1. t \in Task /\ t.command = "identify" /\ task' = [task EXCEPT ![place] = t]
      BY <1>3, <2>4
    <3> HIDE DEF t
    <3> QED BY <1>2, <2>1, <2>4, <3>1
  <2> QED BY <1>1, <2>3, <2>4
<1>6. TypeOK'
  BY <1>1, <1>5 DEF TypeOK, Task
<1>7. DisksFound'
  <2>1. \A d \in Ready : d < place => d \in Place /\ d # place
    BY <1>2, ReadyPlaces
  <2> QED BY <1>1, <1>2, <1>5, <2>1, FoundKept
<1>8. Drives'
  BY <1>1 DEF Drives
<1>9. Quiet'
  BY <1>4, <1>5 DEF Quiet, Identifying
<1>10. Search'
  BY <1>1, <1>2, <1>5 DEF Search, Searching
<1>11. Transfer'
  BY <1>1, <1>2 DEF Transfer, Moving, Flushing
<1>12. Follows'
  BY <1>1 DEF Follows, Moving, Flushing
<1>13. Agrees'
  BY <1>1, <1>2 DEF Agrees
<1> QED BY <1>6, <1>7, <1>8, <1>9, <1>10, <1>11, <1>12, <1>13

LEMMA AddDiskInv ==
  ASSUME DiskInv, AddDisk
  PROVE  DiskInv'
<1> USE DEF DiskInv
<1>1. PICK last \in Registers(place) :
        disks_arr' = Append(disks_arr, [at |-> place, size |-> last + 1])
  BY DEF AddDisk
<1>2. /\ pc = "size" /\ pc' = "probe" /\ place' = place + 1 /\ Len(disks_arr) < MaxDisks
      /\ UNCHANGED <<started_waiting, late, request, i, buffer, tick, state, task, cache, medium, failed>>
  BY DEF AddDisk, drives
<1>3. place \in Ready /\ place \in Place /\ place \in Nat /\ Places \in Nat
      /\ place \in late \cup Identifies /\ request.op = "none"
  BY <1>2, ReadyPlaces DEF Search, Searching
<1>4. \A d \in Place : state[d] \in {"idle", "error"} \/ Identifying(d)
  BY <1>2 DEF Quiet, Moving, Flushing
<1>5. last \in Nat /\ (place \notin late => last + 1 = Cardinality(Sector(place)))
  <2>1. LastSector[place] \in Nat /\ Cardinality(Sector(place)) = LastSector[place] + 1
    BY <1>3, SectorCount
  <2>2. Early[place] \subseteq Nat
    BY <1>3, DriveAssumption DEF Place
  <2> QED BY <2>1, <2>2 DEF Registers
<1>6. disks_arr \in Seq([at : Place, size : Nat]) /\ last + 1 \in Nat
  BY <1>5 DEF TypeOK
<1>7. DisksFound'
  <2>1. /\ InOrder(disks_arr) /\ Listed(disks_arr) \subseteq {d \in Ready : d < place}
        /\ SizesRight(disks_arr, late) /\ LeftOut(disks_arr, place, state)
    BY FoundParts
  <2>2. place \notin late => place \in Identifies /\ last + 1 = Cardinality(Sector(place))
    BY <1>3, <1>5
  <2>3. /\ InOrder(disks_arr') /\ Listed(disks_arr') \subseteq {d \in Ready : d < place'}
        /\ SizesRight(disks_arr', late) /\ LeftOut(disks_arr', place', state)
    BY <1>1, <1>2, <1>3, <1>6, <2>1, <2>2, FoundAppend
  <2> QED BY <1>2, <2>3 DEF DisksFound, InOrder, Listed, SizesRight, LeftOut
<1>8. TypeOK'
  <2>1. disks_arr' \in Seq([at : Place, size : Nat]) /\ Len(disks_arr') = Len(disks_arr) + 1
    BY <1>1, <1>3, <1>6
  <2>2. Len(disks_arr') <= MaxDisks
    <3>1. Len(disks_arr) \in Nat /\ MaxDisks \in Nat
      BY <1>6, DriveAssumption
    <3> QED BY <1>2, <2>1, <3>1
  <2>3. place' \in 1 .. Places + 1
    BY <1>2, <1>3 DEF Place
  <2> QED BY <1>2, <2>1, <2>2, <2>3 DEF TypeOK
<1>9. Quiet'
  BY <1>2, <1>4 DEF Quiet, Identifying
<1>10. Search' /\ Drives'
  BY <1>2, <1>3 DEF Search, Searching, Drives
<1>11. Transfer'
  BY <1>2, <1>3 DEF Transfer, Moving, Flushing
<1>12. Follows'
  BY <1>2 DEF Follows, Moving, Flushing
<1>13. Agrees'
  BY <1>2, <1>3 DEF Agrees
<1> QED BY <1>7, <1>8, <1>9, <1>10, <1>11, <1>12, <1>13

LEMMA TimerInv ==
  ASSUME DiskInv, timerCallback \/ UNCHANGED vars
  PROVE  DiskInv'
<1> USE DEF DiskInv
<1>1. /\ tick' \in Nat
      /\ UNCHANGED <<pc, place, started_waiting, disks_arr, late, request, i, buffer, state, task, cache, medium, failed>>
  BY DEF timerCallback, driver, drives, vars, TypeOK
<1>2. TypeOK'
  BY <1>1 DEF TypeOK
<1>3. DisksFound' /\ Drives' /\ Quiet' /\ Search'
  BY <1>1 DEF DisksFound, Drives, Quiet, Search, Identifying
<1>4. Transfer' /\ Follows' /\ Agrees'
  BY <1>1 DEF Transfer, Follows, Agrees, LastMoved
<1> QED BY <1>2, <1>3, <1>4

LEMMA FlushInv ==
  ASSUME DiskInv, Flush
  PROVE  DiskInv'
<1> USE DEF DiskInv
<1> DEFINE at == request.at
<1>1. /\ pc = "flush" /\ pc' = "settled?"
      /\ \/ state[at] = "busy" /\ UNCHANGED <<state, task>>
         \/ /\ state[at] # "busy"
            /\ state' = [state EXCEPT ![at] = "busy"]
            /\ task' = [task EXCEPT ![at] = [NoTask EXCEPT !.command = "flush"]]
      /\ UNCHANGED <<place, started_waiting, disks_arr, late, request, i, buffer, tick, cache, medium, failed>>
      /\ request.op = "write" /\ at \in Place /\ at \in Listed(disks_arr)
  BY DEF Flush, Command, TypeOK, Transfer, Flushing
<1>2. TypeOK'
  <2>1. [NoTask EXCEPT !.command = "flush"] \in [command : {"none", "identify", "read", "write", "flush"}, sector : Nat,
                                               left : Nat, word : Data \cup {0}]
    BY DEF NoTask
  <2>2. task' \in [Place -> [command : {"none", "identify", "read", "write", "flush"}, sector : Nat,
                             left : Nat, word : Data \cup {0}]]
    BY <1>1, <2>1 DEF TypeOK
  <2>3. state' \in [Place -> {"idle", "busy", "data", "error"}]
    BY <1>1 DEF TypeOK
  <2> QED BY <1>1, <2>2, <2>3 DEF TypeOK
<1>3. Drives' /\ Search' /\ Transfer'
  BY <1>1 DEF Drives, Search, Searching, Transfer, Moving, Flushing
<1>4. \A d \in Place : d # at => state'[d] = state[d] /\ task'[d] = task[d]
  BY <1>1 DEF TypeOK
<1>5. Quiet'
  BY <1>1, <1>4 DEF Quiet, Identifying, Flushing
<1>9. DisksFound'
  <2>1. place \in Nat /\ \A d \in Ready : d \in Place
    BY ReadyPlaces DEF TypeOK
  <2> QED BY <1>1, <1>4, <2>1, FoundKept
<1>6. state'[at] = "busy" /\ (state[at] = "busy" => task'[at] = task[at])
      /\ (state[at] # "busy" => task'[at].command = "flush")
  BY <1>1 DEF TypeOK, NoTask
<1>7. Follows'
  BY <1>1, <1>6 DEF Follows, LastMoved, Moving, Flushing
<1>8. Agrees'
  BY <1>1, <1>6 DEF Agrees, LastMoved
<1> QED BY <1>2, <1>3, <1>5, <1>7, <1>8, <1>9

\* The request of Start.
NewRequest(op, d, sector, data) ==
  [op |-> op, at |-> d, sector |-> sector, count |-> Len(data),
   data |-> IF op = "write" THEN data ELSE <<>>]

LEMMA ElementOf ==
  ASSUME NEW S, NEW list \in Seq(S), NEW k \in 1 .. Len(list)
  PROVE  list[k] \in S
OBVIOUS

LEMMA StartInv ==
  ASSUME DiskInv, NEW op \in {"read", "write"}, NEW k \in DOMAIN disks_arr,
         NEW sector \in Sector(disks_arr[k].at), NEW n \in 1 .. MaxCount,
         NEW data \in [1 .. n -> Data], Start(op, k, sector, data)
  PROVE  DiskInv'
<1> USE DEF DiskInv
<1> DEFINE d == disks_arr[k].at
<1>1. d \in Place /\ d \in Listed(disks_arr) /\ LastSector[d] \in Nat
  <2>0. disks_arr \in Seq([at : Place, size : Nat])
    BY DEF TypeOK
  <2>1. k \in 1 .. Len(disks_arr)
    BY ONLY <2>0, k \in DOMAIN disks_arr
  <2>2. d \in Place
    <3>1. disks_arr[k] \in [at : Place, size : Nat]
      BY <2>0, <2>1, ElementOf
    <3> QED BY <3>1
  <2> QED BY <2>2, SectorCount DEF Listed
<1>2. n \in Nat /\ n > 0 /\ data \in Seq(Data) /\ Len(data) = n /\ sector \in Nat
  BY DriveAssumption DEF Sector
<1> DEFINE t == [command |-> op, sector |-> sector, left |-> Len(data), word |-> 0]
<1>3. /\ pc = "caller" /\ sector + n <= LastSector[d] + 1
      /\ request' = NewRequest(op, d, sector, data)
      /\ Command(d, t)
      /\ i' = 0 /\ buffer' = <<>> /\ pc' = "busy?" /\ failed' = FALSE
      /\ UNCHANGED <<place, started_waiting, disks_arr, late, tick, cache, medium>>
  BY <1>1, <1>2 DEF Start, NewRequest
<1> HIDE DEF d
<1>4. \A e \in Place : state[e] \in {"idle", "error"} \/ Identifying(e)
  BY <1>3 DEF Quiet, Moving, Flushing
<1>5. \/ state[d] \in {"idle", "error"}
         /\ state' = [state EXCEPT ![d] = "busy"] /\ task' = [task EXCEPT ![d] = t]
      \/ Identifying(d) /\ state' = state /\ task' = task
  BY <1>1, <1>3, <1>4 DEF Command, Identifying
<1>6. t \in Task /\ t.command = op /\ t.sector = sector /\ t.left = n /\ t.word = 0
  BY <1>2 DEF Task
<1> HIDE DEF t
<1>7. /\ request' \in [op : {"none", "read", "write"}, at : Place, sector : Nat, count : Nat, data : Seq(Data)]
      /\ request'.op = op /\ request'.at = d /\ request'.sector = sector /\ request'.count = n
      /\ request'.data = IF op = "write" THEN data ELSE <<>>
  BY <1>1, <1>2, <1>3 DEF NewRequest
<1>8. /\ state' \in [Place -> {"idle", "busy", "data", "error"}] /\ task' \in [Place -> Task]
      /\ state'[d] = "busy" /\ (task'[d] = t \/ task'[d].command = "identify")
      /\ \A e \in Place : e # d => state'[e] = state[e] /\ task'[e] = task[e]
  <2>1. state \in [Place -> {"idle", "busy", "data", "error"}] /\ task \in [Place -> Task]
    BY DriveTypes
  <2>2. CASE state' = [state EXCEPT ![d] = "busy"] /\ task' = [task EXCEPT ![d] = t]
    BY <1>1, <1>6, <2>1, <2>2
  <2>3. CASE Identifying(d) /\ state' = state /\ task' = task
    BY <2>1, <2>3 DEF Identifying
  <2> QED BY <1>5, <2>2, <2>3
<1>9. TypeOK'
  <2>1. i' \in 0 .. request'.count /\ buffer' \in Seq(Data)
    BY <1>2, <1>3, <1>7
  <2>2. /\ place' \in 1 .. Places + 1 /\ started_waiting' \in Nat /\ tick' \in Nat
        /\ disks_arr' \in Seq([at : Place, size : Nat]) /\ Len(disks_arr') <= MaxDisks
        /\ late' \subseteq Place
        /\ \A e \in Place : {cache'[e], medium'[e]} \subseteq [Sector(e) -> Data]
    BY <1>3 DEF TypeOK
  <2>3. request' \in [op : {"none", "read", "write"}, at : Place, sector : Nat,
                      count : Nat, data : Seq(Data)]
    BY <1>7
  <2>4. /\ state' \in [Place -> {"idle", "busy", "data", "error"}]
        /\ task' \in [Place -> [command : {"none", "identify", "read", "write", "flush"}, sector : Nat,
                                left : Nat, word : Data \cup {0}]]
    BY <1>8 DEF Task
  <2>5. /\ failed' \in BOOLEAN
        /\ pc' \in {"probe", "identify", "wait", "ticks", "size", "caller", "busy?", "data?",
                   "error?", "move", "flush", "settled?", "flushed?", "hung", "overrun"}
    BY <1>3
  <2> QED BY <2>1, <2>2, <2>3, <2>4, <2>5 DEF TypeOK
<1>10. DisksFound'
  <2>1. place \in Nat /\ \A e \in Ready : e \in Place
    BY ReadyPlaces DEF TypeOK
  <2> QED BY <1>1, <1>3, <1>8, <2>1, FoundKept
<1>11. Drives' /\ Search'
  BY <1>3 DEF Drives, Search, Searching
<1>12. Quiet'
  BY <1>3, <1>4, <1>7, <1>8 DEF Quiet, Identifying, Moving
<1>13. Transfer'
  BY <1>1, <1>2, <1>3, <1>7 DEF Transfer, Moving, Flushing
<1>14. Follows'
  BY <1>2, <1>3, <1>6, <1>7, <1>8 DEF Follows, Moving, Flushing
<1>15. Agrees'
  BY <1>3 DEF Agrees
<1> QED BY <1>9, <1>10, <1>11, <1>12, <1>13, <1>14, <1>15

LEMMA MoveInv ==
  ASSUME DiskInv, Move
  PROVE  DiskInv'
<1> USE DEF DiskInv
<1> DEFINE d == request.at
           t == task[d]
<1>1. /\ pc = "move" /\ d \in Place /\ request.op \in {"read", "write"} /\ i < request.count
      /\ i \in Nat /\ request.count \in Nat /\ request.sector \in Nat
      /\ state[d] = "data" /\ t \in Task /\ t.command = request.op
      /\ t.left = request.count - i /\ t.word = 0 /\ t.sector = request.sector + i
      /\ request.sector + request.count <= LastSector[d] + 1 /\ LastSector[d] \in Nat
  <2>1. pc = "move" /\ d \in Place /\ t \in Task
    BY DEF Move, TypeOK, Task
  <2>2. /\ request.op \in {"read", "write"} /\ i < request.count
        /\ i \in Nat /\ request.count \in Nat /\ request.sector \in Nat
    BY <2>1 DEF TypeOK, Transfer, Moving
  <2>3. state[d] = "data" /\ t.command = request.op /\ t.left = request.count - i /\ t.word = 0
        /\ t.sector = request.sector + i
    BY <2>1 DEF Follows, Moving
  <2>4. request.sector + request.count <= LastSector[d] + 1 /\ LastSector[d] \in Nat
    BY <2>1, <2>2, SectorCount DEF Transfer
  <2> QED BY <2>1, <2>2, <2>3, <2>4
<1>2. /\ i' = i + 1
      /\ pc' = IF i + 1 < request.count THEN "busy?" ELSE IF request.op = "read" THEN "caller" ELSE "flush"
      /\ UNCHANGED <<place, started_waiting, disks_arr, late, request, tick, cache, medium, failed>>
  BY DEF Move, NextSector
<1>3. i' \in Nat /\ i' <= request.count /\ i' > 0
  BY <1>1, <1>2
<1>4. t.sector \in Sector(d)
  BY <1>1 DEF Sector
<1>5. \A e \in Place : e # d => state[e] \in {"idle", "error"} \/ Identifying(e)
  BY DEF Quiet
<1>6. DisksFound' /\ Drives' /\ Search'
  <2>1. \A e \in Place : e # d => state'[e] = state[e]
    BY DEF Move, TypeOK
  <2>2. place \in Nat /\ d \in Listed(disks_arr) /\ \A e \in Ready : e \in Place
    BY <1>1, ReadyPlaces DEF TypeOK, Transfer
  <2>3. DisksFound'
    BY <1>2, <2>1, <2>2, FoundKept
  <2> QED BY <1>1, <1>2, <2>3 DEF Drives, Search, Searching
<1>7. Transfer'
  BY <1>1, <1>2 DEF Transfer, Moving, Flushing
<1>8. CASE request.op = "read"
  <2>1. /\ buffer' = Append(buffer, cache[d][t.sector])
        /\ task' = [task EXCEPT ![d].left = t.left - 1, ![d].sector = t.sector + 1]
        /\ state' = [state EXCEPT ![d] = IF t.left = 1 THEN "idle" ELSE "busy"]
    BY <1>8 DEF Move
  <2>2. cache[d][t.sector] \in Data
    BY <1>1, <1>4 DEF TypeOK
  <2>3. /\ task'[d].command = "read" /\ task'[d].left = request.count - i' /\ task'[d].word = 0
        /\ task'[d].sector = request.sector + i'
        /\ task' \in [Place -> Task]
    <3> HIDE DEF d
    <3>1. task \in [Place -> Task] /\ t.left - 1 \in Nat /\ t.sector + 1 \in Nat
      <4>1. task \in [Place -> Task]
        BY DEF TypeOK, Task
      <4>2. t.left \in Nat \ {0} /\ t.sector \in Nat
        BY <1>1
      <4> HIDE DEF t
      <4> QED BY <4>1, <4>2
    <3>2. task' = [task EXCEPT ![d] = [t EXCEPT !.left = t.left - 1, !.sector = t.sector + 1]]
      BY <2>1
    <3>3. task'[d] = [t EXCEPT !.left = t.left - 1, !.sector = t.sector + 1]
      BY <1>1, <3>1, <3>2
    <3>4. task'[d] \in Task
      BY <1>1, <3>1, <3>3 DEF Task
    <3>5. task' \in [Place -> Task]
      BY <3>1, <3>2, <3>3, <3>4
    <3>6. task'[d].command = t.command /\ task'[d].left = t.left - 1 /\ task'[d].word = t.word
          /\ task'[d].sector = t.sector + 1
      BY <1>1, <3>3 DEF Task
    <3>7. t.left - 1 = request.count - (i + 1) /\ t.sector + 1 = request.sector + (i + 1)
      BY <1>1
    <3> QED BY <1>1, <1>2, <1>8, <3>5, <3>6, <3>7
  <2>4. /\ state' \in [Place -> {"idle", "busy", "data", "error"}]
        /\ state'[d] = IF request.count = i' THEN "idle" ELSE "busy"
        /\ \A e \in Place : e # d => state'[e] = state[e] /\ task'[e] = task[e]
    <3>1. t.left = 1 <=> request.count = i + 1
      BY <1>1
    <3> QED BY <1>1, <1>2, <2>1, <3>1 DEF TypeOK
  <2>5. TypeOK'
    <3>1. buffer' \in Seq(Data) /\ i' \in 0 .. request'.count
      BY <1>2, <1>3, <2>1, <2>2 DEF TypeOK
    <3>2. pc' \in {"busy?", "caller"}
      BY <1>2, <1>8
    <3> QED BY <1>2, <2>3, <2>4, <3>1, <3>2 DEF TypeOK, Task
  <2>6. pc' = IF i' < request.count THEN "busy?" ELSE "caller"
    BY <1>2, <1>8
  <2>7. Quiet'
    BY <1>1, <1>2, <1>3, <1>5, <2>4, <2>6 DEF Quiet, Identifying, Moving
  <2>8. Follows'
    BY <1>2, <1>3, <1>8, <2>3, <2>4, <2>6 DEF Follows, LastMoved, Moving, Flushing
  <2>9. Agrees'
    <3>1. Len(buffer) = i /\ buffer \in Seq(Data)
          /\ \A k \in 1 .. i : buffer[k] = cache[d][request.sector + k - 1]
      BY <1>1, <1>8 DEF Agrees, TypeOK
    <3>2. Len(buffer') = i' /\ (\A k \in 1 .. i : buffer'[k] = buffer[k])
          /\ buffer'[i + 1] = cache[d][t.sector]
      BY <1>2, <2>1, <3>1
    <3>3. t.sector = request.sector + (i + 1) - 1
      BY <1>1
    <3>4. \A k \in 1 .. i' : k \in 1 .. i \/ k = i + 1
      BY <1>1, <1>2
    <3>5. \A k \in 1 .. i' : buffer'[k] = cache[d][request.sector + k - 1]
      BY <3>1, <3>2, <3>3, <3>4
    <3> QED BY <1>2, <1>8, <3>2, <3>5 DEF Agrees
  <2> QED BY <1>6, <1>7, <2>5, <2>7, <2>8, <2>9
<1>9. CASE request.op = "write"
  <2>1. /\ task' = [task EXCEPT ![d].left = t.left - 1, ![d].word = request.data[i + 1]]
        /\ state' = [state EXCEPT ![d] = "busy"] /\ buffer' = buffer
    BY <1>9 DEF Move
  <2>2. request.data[i + 1] \in Data /\ 0 \notin Data
    <3>1. request.data \in Seq(Data) /\ Len(request.data) = request.count
      BY <1>9 DEF TypeOK, Transfer
    <3>2. i + 1 \in 1 .. Len(request.data)
      BY <1>1, <3>1
    <3> QED BY <3>1, <3>2, DriveAssumption
  <2>3. /\ task'[d].command = "write" /\ task'[d].left = request.count - i' /\ task'[d].word # 0
        /\ task'[d].sector = request.sector + i' - 1 /\ task'[d].word = request.data[i']
        /\ task' \in [Place -> Task]
    <3> HIDE DEF d
    <3>0. t.left \in Nat /\ t.left # 0
      BY <1>1 DEF Task
    <3>1. task \in [Place -> Task] /\ t.left - 1 \in Nat
      <4>1. task \in [Place -> Task]
        BY DriveTypes
      <4>2. t.left - 1 \in Nat
        <5> HIDE DEF t
        <5> QED BY ONLY <3>0
      <4> QED BY <4>1, <4>2
    <3>2. task' = [task EXCEPT ![d] = [t EXCEPT !.left = t.left - 1, !.word = request.data[i + 1]]]
      BY <2>1
    <3>3. task'[d] = [t EXCEPT !.left = t.left - 1, !.word = request.data[i + 1]]
      BY <1>1, <3>1, <3>2
    <3>4. task'[d] \in Task
      BY <1>1, <2>2, <3>1, <3>3 DEF Task
    <3>5. task' \in [Place -> Task]
      BY <3>1, <3>2, <3>3, <3>4
    <3>6. task'[d].command = t.command /\ task'[d].left = t.left - 1
          /\ task'[d].sector = t.sector /\ task'[d].word = request.data[i + 1]
      BY <1>1, <3>3 DEF Task
    <3>7. t.left - 1 = request.count - (i + 1) /\ t.sector = request.sector + (i + 1) - 1
      BY <1>1
    <3> QED BY <1>1, <1>2, <1>9, <2>2, <3>5, <3>6, <3>7
  <2>4. /\ state' \in [Place -> {"idle", "busy", "data", "error"}] /\ state'[d] = "busy"
        /\ \A e \in Place : e # d => state'[e] = state[e] /\ task'[e] = task[e]
    BY <1>1, <2>1 DEF TypeOK
  <2>5. TypeOK'
    <3>1. i' \in 0 .. request'.count
      BY <1>2, <1>3
    <3>2. pc' \in {"busy?", "flush"}
      BY <1>2, <1>9
    <3> QED BY <1>2, <2>1, <2>3, <2>4, <3>1, <3>2 DEF TypeOK, Task
  <2>6. pc' = IF i' < request.count THEN "busy?" ELSE "flush"
    BY <1>2, <1>9
  <2>7. Quiet'
    BY <1>1, <1>2, <1>5, <2>4, <2>6 DEF Quiet, Identifying, Moving, Flushing
  <2>8. LastMoved(task[d])'
    BY <1>2, <1>3, <1>9, <2>3 DEF LastMoved
  <2>9. pc' = "flush" => task'[d].left = 0
    BY <1>1, <1>3, <2>3, <2>6
  <2>10. Follows'
    BY <1>2, <1>3, <1>9, <2>3, <2>4, <2>6, <2>9 DEF Follows, LastMoved, Moving, Flushing
  <2>11. Agrees'
    <3>1. ~failed => \A k \in 1 .. i : cache[d][request.sector + k - 1] = request.data[k]
      BY <1>1, <1>9 DEF Agrees
    <3>2. \A k \in 1 .. i' : k \in 1 .. i \/ k = i'
      BY <1>1, <1>2
    <3>3. ~failed => \A k \in 1 .. i' : cache[d][request.sector + k - 1] = request.data[k] \/ k = i'
      BY <3>1, <3>2
    <3> QED BY <1>2, <1>9, <2>3, <2>4, <2>8, <3>3 DEF Agrees
  <2> QED BY <1>6, <1>7, <2>5, <2>7, <2>10, <2>11
<1> QED BY <1>1, <1>8, <1>9

\* A drive goes on: it answers the search, or it is the one of the transfer.
LEMMA GoesOn ==
  ASSUME DiskInv, NEW d \in Place, state[d] = "busy"
  PROVE  /\ task[d] \in Task
         /\ task[d].command = "identify" \/ (d = request.at /\ pc \in Moving \cup Flushing)
         /\ d \notin Ready \/ d \in Listed(disks_arr) \/ d >= place
<1> USE DEF DiskInv
<1>1. task[d] \in Task
  BY DEF TypeOK, Task
<1>2. task[d].command = "identify" \/ (d = request.at /\ pc \in Moving \cup Flushing)
  BY DEF Quiet, Identifying
<1>3. d \notin Ready \/ d \in Listed(disks_arr) \/ d >= place
  <2>1. d \in Nat /\ place \in Nat
    BY ReadyPlaces DEF TypeOK
  <2>2. d \in Ready \ Listed(disks_arr) => ~ (d < place)
    BY FoundParts DEF LeftOut
  <2> QED BY <2>1, <2>2
<1> QED BY <1>1, <1>2, <1>3

\* Whichever it is, the list stays.
LEMMA DriveLists ==
  ASSUME DiskInv, NEW d \in Place, state[d] = "busy",
         \A e \in Place : e # d => state'[e] = state[e],
         UNCHANGED <<place, disks_arr, late>>
  PROVE  DisksFound'
<1>1. DisksFound /\ place \in Nat /\ \A e \in Ready : e \in Place
  BY ReadyPlaces DEF DiskInv, TypeOK
<1> QED BY <1>1, FoundKept

\* A drive answers the search or fails while it does, during a transfer, too.
LEMMA DriveAnswersInv ==
  ASSUME DiskInv, NEW d \in Place, Identifying(d), NEW answer \in {"idle", "error"},
         answer = "idle" => d \in Identifies, state' = [state EXCEPT ![d] = answer],
         failed' \in BOOLEAN, ~ failed' => ~ failed,
         UNCHANGED <<driver, tick, task, cache, medium>>
  PROVE  DiskInv'
<1> USE DEF DiskInv
<1>1. /\ UNCHANGED <<pc, place, started_waiting, disks_arr, late, request, i, buffer, tick, task, cache, medium>>
      /\ state' \in [Place -> {"idle", "busy", "data", "error"}] /\ state'[d] = answer
      /\ \A e \in Place : e # d => state'[e] = state[e]
      /\ state[d] = "busy" /\ task[d].command = "identify"
  <2>1. state \in [Place -> {"idle", "busy", "data", "error"}]
    BY DriveTypes
  <2>2. /\ state' \in [Place -> {"idle", "busy", "data", "error"}] /\ state'[d] = answer
        /\ \A e \in Place : e # d => state'[e] = state[e]
    BY <2>1
  <2>3. UNCHANGED <<pc, place, started_waiting, disks_arr, late, request, i, buffer, tick, task, cache, medium>>
    BY Zenon DEF driver
  <2> QED BY <2>2, <2>3 DEF Identifying
<1>2. TypeOK'
  BY ONLY TypeOK, <1>1, failed' \in BOOLEAN DEF TypeOK
<1>3. DisksFound'
  BY <1>1, DriveLists
<1>4. Drives' /\ Transfer'
  BY <1>1 DEF Drives, Transfer
<1>5. Search'
  BY <1>1 DEF Search, Searching
<1>6. Quiet'
  BY <1>1 DEF Quiet, Identifying
<1>7. Follows'
  <2>1. d = request.at => pc # "move" /\ pc \notin Flushing
    BY <1>1 DEF Follows, LastMoved
  <2>2. request.at \in Place
    BY DriveTypes
  <2>3. CASE d = request.at
    BY <1>1, <2>1, <2>3 DEF Follows
  <2>4. CASE d # request.at
    <3>1. state'[request.at] = state[request.at]
      BY <1>1, <2>2, <2>4
    <3> QED BY <1>1, <3>1 DEF Follows, LastMoved
  <2> QED BY <2>3, <2>4
<1>8. Agrees'
  <2>1. LastMoved(task[request.at]) => d # request.at
    BY <1>1 DEF LastMoved
  <2>2. d # request.at => state'[request.at] = state[request.at]
    BY <1>1, DriveTypes
  <2>3. /\ request.op = "read" /\ pc # "hung" =>
             Len(buffer) = i /\ \A k \in 1 .. i : buffer[k] = cache[request.at][request.sector + k - 1]
        /\ request.op = "write" /\ ~failed' => request.op = "write" /\ ~failed
    BY DEF Agrees
  <2> QED BY <1>1, <2>1, <2>2, <2>3 DEF Agrees, LastMoved
<1> QED BY <1>2, <1>3, <1>4, <1>5, <1>6, <1>7, <1>8

LEMMA DriveAsksInv ==
  ASSUME DiskInv, NEW d \in Place, DriveAsks(d)
  PROVE  DiskInv'
<1> USE DEF DiskInv
<1>1. state[d] = "busy" /\ task[d].command \in {"read", "write"} /\ (task[d].word = 0 \/ task[d].command # "write")
  BY DEF DriveAsks, Stored
<1>2. d = request.at /\ pc \in Moving \cup Flushing
  BY <1>1, GoesOn
<1>3. pc \in Moving /\ task[d].word = 0
  BY <1>1, <1>2 DEF Follows, LastMoved
<1>4. /\ state' \in [Place -> {"idle", "busy", "data", "error"}] /\ state'[d] = "data"
      /\ \A e \in Place : e # d => state'[e] = state[e]
      /\ UNCHANGED <<pc, place, started_waiting, disks_arr, late, request, i, buffer, tick, task, cache, medium, failed>>
  BY DEF DriveAsks, driver, TypeOK
<1>5. TypeOK'
  BY <1>4 DEF TypeOK
<1>6. DisksFound'
  BY <1>1, <1>4, DriveLists
<1>7. Drives' /\ Transfer' /\ Search'
  BY <1>3, <1>4 DEF Drives, Transfer, Search, Searching, Moving
<1>8. Quiet'
  BY <1>2, <1>3, <1>4 DEF Quiet, Identifying
<1>9. Follows'
  BY <1>1, <1>2, <1>3, <1>4 DEF Follows, LastMoved, Moving, Flushing
<1>10. Agrees'
  BY <1>2, <1>3, <1>4 DEF Agrees, LastMoved
<1> QED BY <1>5, <1>6, <1>7, <1>8, <1>9, <1>10

LEMMA DriveFailsInv ==
  ASSUME DiskInv, NEW d \in Place, DriveFails(d), ~ Identifying(d)
  PROVE  DiskInv'
<1> USE DEF DiskInv
<1>1. d = request.at /\ pc \in Moving \cup Flushing /\ state[d] = "busy" /\ task[d].command # "identify"
  BY GoesOn DEF DriveFails, Identifying
<1>2. /\ state' \in [Place -> {"idle", "busy", "data", "error"}] /\ state'[d] = "error"
      /\ \A e \in Place : e # d => state'[e] = state[e]
      /\ failed' = TRUE
      /\ UNCHANGED <<pc, place, started_waiting, disks_arr, late, request, i, buffer, tick, task, cache, medium>>
  BY <1>1 DEF DriveFails, driver, TypeOK
<1>3. TypeOK'
  BY <1>2 DEF TypeOK
<1>4. DisksFound'
  BY <1>1, <1>2, DriveLists
<1>5. Drives' /\ Transfer' /\ Search'
  BY <1>1, <1>2 DEF Drives, Transfer, Search, Searching, Moving, Flushing
<1>6. Quiet'
  BY <1>1, <1>2 DEF Quiet, Identifying, Moving, Flushing
<1>7. pc # "move"
  BY <1>1 DEF Follows
<1>8. Follows'
  BY <1>1, <1>2, <1>7 DEF Follows, LastMoved, Moving, Flushing
<1>9. Agrees'
  BY <1>2 DEF Agrees
<1> QED BY <1>3, <1>4, <1>5, <1>6, <1>8, <1>9

LEMMA DriveFlushesInv ==
  ASSUME DiskInv, NEW d \in Place, DriveFlushes(d)
  PROVE  DiskInv'
<1> USE DEF DiskInv
<1>1. /\ d = request.at /\ pc \in Moving \cup Flushing
      /\ state[d] = "busy" /\ task[d].command = "flush"
  BY GoesOn DEF DriveFlushes
<1>2. pc \in Flushing /\ request.op = "write"
  BY <1>1 DEF Follows, TypeOK, Transfer
<1>3. /\ state' \in [Place -> {"idle", "busy", "data", "error"}] /\ state'[d] = "idle"
      /\ \A e \in Place : e # d => state'[e] = state[e]
      /\ medium' = [medium EXCEPT ![d] = cache[d]]
      /\ UNCHANGED <<pc, place, started_waiting, disks_arr, late, request, i, buffer, tick, task, cache, failed>>
  BY DEF DriveFlushes, driver, TypeOK
<1>4. DOMAIN medium' = Place /\ \A e \in Place : medium'[e] = IF e = d THEN cache[e] ELSE medium[e]
  BY <1>3 DEF Drives
<1>5. \A e \in Place : cache[e] \in [Sector(e) -> Data] /\ medium[e] \in [Sector(e) -> Data]
  BY DEF TypeOK
<1>6. TypeOK'
  <2>1. \A e \in Place : {cache'[e], medium'[e]} \subseteq [Sector(e) -> Data]
    BY <1>3, <1>4, <1>5
  <2> QED BY <1>3, <2>1 DEF TypeOK
<1>7. DisksFound'
  BY <1>1, <1>3, DriveLists
<1>8. Drives' /\ Transfer' /\ Search'
  BY <1>2, <1>3, <1>4 DEF Drives, Transfer, Search, Searching, Flushing
<1>9. Quiet'
  BY <1>1, <1>2, <1>3 DEF Quiet, Identifying
<1>10. Follows'
  BY <1>1, <1>2, <1>3 DEF Follows, LastMoved, Moving, Flushing
<1>11. Agrees'
  <2>1. ~LastMoved(task[d])
    BY <1>1 DEF LastMoved
  <2>2. ~failed => \A k \in 1 .. i : cache[d][request.sector + k - 1] = request.data[k]
    BY <1>1, <1>2, <2>1 DEF Agrees
  <2> QED BY <1>1, <1>2, <1>3, <2>2 DEF Agrees
<1> QED BY <1>6, <1>7, <1>8, <1>9, <1>10, <1>11

LEMMA DriveStoresInv ==
  ASSUME DiskInv, NEW d \in Place, DriveStores(d)
  PROVE  DiskInv'
<1> USE DEF DiskInv
<1> DEFINE t == task[d]
<1>1. /\ d = request.at /\ pc \in Moving \cup Flushing /\ t \in Task
      /\ state[d] = "busy" /\ t.command = "write" /\ t.word # 0
  BY GoesOn DEF DriveStores, Stored
<1>2. LastMoved(t) /\ (pc \in Flushing => t.left = 0) /\ (pc \in Moving => t.left = request.count - i)
  BY <1>1 DEF Follows
<1>3. /\ request.op = "write" /\ i \in Nat /\ i > 0 /\ i <= request.count
      /\ request.count \in Nat /\ request.sector \in Nat /\ request.data \in Seq(Data)
      /\ t.sector = request.sector + i - 1 /\ t.word = request.data[i] /\ t.word \in Data
      /\ request.sector + request.count <= LastSector[d] + 1 /\ LastSector[d] \in Nat
      /\ (pc \in Moving => i < request.count) /\ (pc \in Flushing => i = request.count)
  <2>1. request.op = "write" /\ i > 0 /\ t.sector = request.sector + i - 1 /\ t.word = request.data[i]
    BY <1>2 DEF LastMoved
  <2>2. i \in Nat /\ i <= request.count /\ request.count \in Nat /\ request.sector \in Nat
        /\ request.data \in Seq(Data)
    BY DEF TypeOK
  <2>3. t.word \in Data
    BY <1>1 DEF Task
  <2>4. request.sector + request.count <= LastSector[d] + 1 /\ LastSector[d] \in Nat
    BY <1>1, <2>1, SectorCount DEF Transfer
  <2>5. (pc \in Moving => i < request.count) /\ (pc \in Flushing => i = request.count)
    BY DEF Transfer
  <2> QED BY <2>1, <2>2, <2>3, <2>4, <2>5
<1>4. t.sector \in Sector(d)
  BY <1>3 DEF Sector
<1>5. /\ cache' = [cache EXCEPT ![d][t.sector] = t.word]
      /\ task' = [task EXCEPT ![d].word = 0, ![d].sector = t.sector + 1]
      /\ state' = [state EXCEPT ![d] = IF t.left = 0 THEN "idle" ELSE "data"]
      /\ UNCHANGED <<pc, place, started_waiting, disks_arr, late, request, i, buffer, tick, medium, failed>>
  BY DEF DriveStores, driver
<1>6. /\ state' \in [Place -> {"idle", "busy", "data", "error"}]
      /\ state'[d] = IF t.left = 0 THEN "idle" ELSE "data"
      /\ \A e \in Place : e # d => state'[e] = state[e]
  BY <1>5 DEF TypeOK
<1>17. \A e \in Place : e # d => task'[e] = task[e]
  BY <1>5 DEF TypeOK
<1>7. /\ task' \in [Place -> Task]
      /\ task'[d].command = "write" /\ task'[d].word = 0 /\ task'[d].left = t.left
      /\ task'[d].sector = request.sector + i
  <2>1. task \in [Place -> Task] /\ t.sector + 1 \in Nat /\ t.sector + 1 = request.sector + i
    <3>1. task \in [Place -> Task]
      BY DEF TypeOK, Task
    <3>2. request.sector \in Nat /\ i \in Nat /\ t.sector = request.sector + i - 1 /\ i > 0
      BY <1>3 DEF TypeOK
    <3> HIDE DEF t
    <3> QED BY <3>1, <3>2
  <2>2. task' = [task EXCEPT ![d] = [t EXCEPT !.word = 0, !.sector = t.sector + 1]]
    BY <1>5
  <2>3. task'[d] = [t EXCEPT !.word = 0, !.sector = t.sector + 1]
    BY <2>1, <2>2
  <2>4. task'[d] \in Task
    BY <1>1, <2>1, <2>3 DEF Task
  <2>5. task' \in [Place -> Task]
    BY <2>1, <2>2, <2>3, <2>4
  <2>6. task'[d].command = t.command /\ task'[d].word = 0 /\ task'[d].left = t.left
        /\ task'[d].sector = t.sector + 1
    BY <1>1, <2>3 DEF Task
  <2> HIDE DEF t
  <2> QED BY <1>1, <2>1, <2>5, <2>6
<1>8. /\ DOMAIN cache' = Place /\ \A e \in Place : e # d => cache'[e] = cache[e]
      /\ cache'[d] \in [Sector(d) -> Data]
      /\ \A s \in Sector(d) : cache'[d][s] = IF s = t.sector THEN t.word ELSE cache[d][s]
  <2>1. DOMAIN cache = Place /\ cache[d] \in [Sector(d) -> Data]
    BY DEF Drives, TypeOK
  <2>2. cache' = [cache EXCEPT ![d] = [cache[d] EXCEPT ![t.sector] = t.word]]
    BY <1>5
  <2>3. cache'[d] = [cache[d] EXCEPT ![t.sector] = t.word]
    BY <2>1, <2>2
  <2> HIDE DEF t
  <2>4. cache'[d] \in [Sector(d) -> Data]
        /\ \A s \in Sector(d) : cache'[d][s] = IF s = t.sector THEN t.word ELSE cache[d][s]
    BY <1>3, <1>4, <2>1, <2>3
  <2> QED BY <2>1, <2>2, <2>4
<1>9. TypeOK'
  <2>1. \A e \in Place : {cache[e], medium[e]} \subseteq [Sector(e) -> Data]
    BY DEF TypeOK
  <2>2. \A e \in Place : {cache'[e], medium'[e]} \subseteq [Sector(e) -> Data]
    <3> TAKE e \in Place
    <3>1. cache'[e] \in [Sector(e) -> Data]
      <4>1. e = d \/ cache'[e] = cache[e]
        BY <1>8
      <4> QED BY <1>8, <2>1, <4>1
    <3>2. medium'[e] \in [Sector(e) -> Data]
      BY <1>5, <2>1
    <3> QED BY <3>1, <3>2
  <2> QED BY <1>5, <1>6, <1>7, <2>2 DEF TypeOK, Task
<1>10. DisksFound' /\ Drives' /\ Transfer'
  <2>1. DisksFound' /\ Transfer'
    <3>1. DisksFound'
      BY <1>1, <1>5, <1>6, DriveLists
    <3> QED BY <1>5, <3>1 DEF Transfer
  <2>2. Drives'
    BY <1>5, <1>8 DEF Drives
  <2> QED BY <2>1, <2>2
<1>11. Search'
  <2>1. pc \notin Searching
    BY <1>1 DEF Searching, Moving, Flushing
  <2> QED BY <1>5, <2>1 DEF Search, Searching
<1>12. Quiet'
  <2> SUFFICES ASSUME NEW e \in Place
               PROVE  \/ state'[e] \in {"idle", "error"}
                      \/ state'[e] = "busy" /\ task'[e].command = "identify"
                      \/ e = request'.at /\ pc' \in Moving \cup Flushing
    BY Zenon DEF Quiet, Identifying
  <2>1. CASE e = d
    BY <1>1, <1>5, <2>1
  <2>2. CASE e # d
    BY <1>5, <1>6, <1>17, <2>2 DEF Quiet, Identifying
  <2> QED BY <2>1, <2>2
<1>13. pc \in Moving => t.left # 0
  BY <1>2, <1>3
<1>14. pc # "move"
  BY <1>1 DEF Follows
<1>15. Follows'
  BY <1>1, <1>2, <1>3, <1>5, <1>6, <1>7, <1>13, <1>14 DEF Follows, Moving, Flushing
<1>16. Agrees'
  <2>1. ~failed => \A k \in 1 .. i : cache[d][request.sector + k - 1] = request.data[k] \/ k = i
    BY <1>1, <1>3 DEF Agrees
  <2>2. ASSUME ~failed, NEW k \in 1 .. i
        PROVE  cache'[d][request.sector + k - 1] = request.data[k]
    <3> DEFINE s == request.sector + k - 1
    <3>0. /\ t.sector = request.sector + i - 1 /\ request.sector \in Nat /\ i \in Nat
          /\ i <= request.count /\ request.count \in Nat /\ LastSector[d] \in Nat
          /\ request.sector + request.count <= LastSector[d] + 1
      BY <1>3
    <3>1. s \in Sector(d) /\ (s = t.sector <=> k = i)
      <4> HIDE DEF t
      <4> QED BY ONLY <3>0, k \in 1 .. i DEF Sector, s
    <3> HIDE DEF s, t
    <3>2. cache'[d][s] = IF k = i THEN t.word ELSE cache[d][s]
      BY <1>8, <3>1
    <3>3. k # i => cache[d][s] = request.data[k]
      BY <2>1, <2>2 DEF s
    <3> QED BY <1>3, <3>2, <3>3 DEF s
  <2> QED BY <1>1, <1>3, <1>5, <2>2 DEF Agrees
<1> QED BY <1>9, <1>10, <1>11, <1>12, <1>15, <1>16

LEMMA DiskInductive == DiskInv /\ [Next]_vars => DiskInv'
<1> SUFFICES ASSUME DiskInv, [Next]_vars PROVE DiskInv'
  OBVIOUS
<1>1. CASE Driver
  <2>1. CASE \/ Probe \/ Wait \/ TimeOut \/ OverrunDisks \/ Probed
             \/ PollBusy \/ PollData \/ PollError \/ Settle \/ SettleError
    <3>1. Asks
      BY <2>1 DEF Asks, Probe, Wait, TimeOut, OverrunDisks, Probed, PollBusy, PollData, PollError, Settle, SettleError
    <3> QED BY <2>1, <3>1, AsksInv
  <2>2. CASE Identify
    BY <2>2, IdentifyInv
  <2>3. CASE AddDisk
    BY <2>3, AddDiskInv
  <2>4. CASE Move
    BY <2>4, MoveInv
  <2>5. CASE Flush
    BY <2>5, FlushInv
  <2> QED BY <1>1, <2>1, <2>2, <2>3, <2>4, <2>5 DEF Driver
<1>2. CASE Request
  <2>1. PICK op \in {"read", "write"}, k \in DOMAIN disks_arr :
          \E sector \in Sector(disks_arr[k].at), n \in 1 .. MaxCount :
            \E data \in [1 .. n -> Data] : Start(op, k, sector, data)
    BY <1>2 DEF Request
  <2>2. PICK sector \in Sector(disks_arr[k].at), n \in 1 .. MaxCount :
            \E data \in [1 .. n -> Data] : Start(op, k, sector, data)
    BY <2>1
  <2>3. PICK data \in [1 .. n -> Data] : Start(op, k, sector, data)
    BY <2>2
  <2> QED BY <2>3, StartInv
<1>3. CASE timerCallback \/ UNCHANGED vars
  BY <1>3, TimerInv
<1>4. ASSUME NEW d \in Place, DriveGoesOn(d) PROVE DiskInv'
  <2>1. CASE DriveAnswers(d) \/ (DriveFails(d) /\ Identifying(d))
    <3>1. Identifying(d) /\ UNCHANGED <<driver, tick, task, cache, medium>>
      BY <2>1 DEF DriveAnswers, DriveFails, Identifying
    <3>2. failed' \in BOOLEAN /\ (~ failed' => ~ failed)
      <4>1. failed \in BOOLEAN
        BY DEF DiskInv, TypeOK
      <4>2. CASE DriveAnswers(d)
        BY <4>1, <4>2 DEF DriveAnswers
      <4>3. CASE failed' = (failed \/ d = request.at)
        BY <4>3
      <4> QED BY <2>1, <4>2, <4>3 DEF DriveFails
    <3>3. PICK answer \in {"idle", "error"} :
            state' = [state EXCEPT ![d] = answer] /\ (answer = "idle" => d \in Identifies)
      BY <2>1 DEF DriveAnswers, DriveFails
    <3> QED BY <3>1, <3>2, <3>3, DriveAnswersInv
  <2>2. CASE DriveFails(d) /\ ~ Identifying(d)
    BY <2>2, DriveFailsInv
  <2> QED BY <1>4, <2>1, <2>2, DriveAsksInv, DriveStoresInv, DriveFlushesInv DEF DriveGoesOn
<1> QED BY <1>1, <1>2, <1>3, <1>4 DEF Next

-----------------------------------------------------------------------------
(* The theorems.                                                           *)

LEMMA AlwaysDiskInv == Spec => []DiskInv
BY DiskInit, DiskInductive, PTL DEF Spec

\* Whatever the drives are and however long they take, those in disks_arr are
\* there and in order, those that answer before the driver looks have their
\* sizes, and only those that answer with an error are missing.
THEOREM DisksAlwaysFound == Spec => []DisksFound
<1>1. DiskInv => DisksFound
  BY DEF DiskInv
<1> QED BY <1>1, AlwaysDiskInv, PTL

\* Driver and drive never get out of step: for any number of sectors, and
\* whatever the drive does between the two questions of the driver, words are
\* moved only while the drive asks for those very words.
THEOREM NeverOutOfStep == Spec => []InStep
<1>1. DiskInv => InStep
  <2> SUFFICES ASSUME DiskInv, pc = "move"
               PROVE  /\ state[request.at] = "data"
                      /\ task[request.at].command = request.op
                      /\ task[request.at].sector = request.sector + i
                      /\ task[request.at].left = request.count - i
    BY DEF InStep, DiskInv
  <2> QED BY DEF DiskInv, Follows, Moving
<1> QED BY <1>1, AlwaysDiskInv, PTL

\* A read returns what the drive answers, and what a write leaves behind is
\* what was written, if the drive has not failed.
THEOREM TransfersRight == Spec => []TransferRight
<1>1. DiskInv => TransferRight
  <2> SUFFICES ASSUME DiskInv, pc = "caller", request.op # "none", NEW k \in 1 .. request.count
               PROVE  /\ request.op = "read" => buffer[k] = cache[request.at][request.sector + k - 1]
                      /\ request.op = "write" /\ ~failed =>
                           request.data[k] = cache[request.at][request.sector + k - 1]
    BY DEF TransferRight
  <2>1. k \in 1 .. i
    BY DEF DiskInv, Transfer
  <2>2. request.at \in Place
    BY DEF DiskInv, TypeOK
  <2>3. ~ (state[request.at] = "busy" /\ LastMoved(task[request.at]))
    BY <2>2 DEF DiskInv, Quiet, Identifying, Moving, Flushing, LastMoved
  <2> QED BY <2>1, <2>3 DEF DiskInv, Agrees
<1> QED BY <1>1, AlwaysDiskInv, PTL
=============================================================================
