--------------------------------- MODULE Boot ---------------------------------
(***************************************************************************)
(* The start of the kernel, from gdt::init to the program: in which order  *)
(* the tables are filled, the handlers of interrupts and system calls come *)
(* and a disk is mounted, with interrupts on from the gates on.  How an    *)
(* interrupt, a call or a fault reaches its handler is in Traps.           *)
(*                                                                         *)
(* The interrupt and the keyboard controller are external: a request is    *)
(* latched on the edge of its line, and the line of the keyboard stays up  *)
(* until somebody reads port 0x60.                                         *)
(***************************************************************************)
EXTENDS Traps

CONSTANTS
  MaxTicks,        \* bound: ticks beyond the start of the last wait
  MaxScancodes,    \* bound: scancodes that arrive
  Disks            \* what the disks of a machine may hold, in their order

ASSUME BootAssumption ==
  /\ MaxTicks \in Nat /\ MaxTicks >= 2 /\ MaxScancodes \in Nat
  /\ \A d \in Disks : d \in Seq({"formatted", "blank", "garbage"})

VARIABLES
  pc,                   \* place in kernelMain, behind its end the program
  syscall_handlers,     \* the functions in the order of their registration
  irq_handlers,
  tick, started_waiting,
  call,                 \* history: the last int 0x40, what it meant and reached
  disks, disk_id,       \* the disks; the one that is mounted, or tried next
  mounted,
  requests, in_service, \* of the interrupt controllers
  unread,               \* scancodes in the keyboard and its controller
  arrived               \* how many have come

handlers == <<syscall_handlers, irq_handlers>>
volume == <<disks, disk_id, mounted>>
devices == <<requests, in_service, unread, arrived>>
vars == <<pc, handlers, tick, started_waiting, call, volume, devices, traps>>

Timer == 0
Keyboard == 1
Drive == 14
Irqs == {Timer, Keyboard, Drive}
NoCall == [wanted |-> "none", reached |-> "none"]

\* __syscalls.hpp: the function with number k is the k + 1st of these.
Numbered == <<"shutdown", "allocateFrame", "getTotalMemory", "getUsedMemory",
  "outString", "outChar", "flush", "getCursorX", "getCursorY", "setCursorPos",
  "sleep", "getKeyEvent", "getKeyState">>

-----------------------------------------------------------------------------
(* What the init functions do about interrupts and system calls, in order. *)
Register(name) == [op |-> "syscall", name |-> name]
Handle(name) == [op |-> "irq", name |-> name]
Syscall(name) == [op |-> "call", name |-> name]
Other(op) == [op |-> op, name |-> "none"]

interrupts_init == <<Other("gates"), Other("sti"), Register("shutdown")>>

\* initHeap asks for a page by a system call, in the kernel as in the program.
mem_init ==
  <<Register("allocateFrame"), Syscall("allocateFrame"),
    Register("getTotalMemory"), Register("getUsedMemory")>>

vesa_init == <<Syscall("allocateFrame")>>

initTextCharFirst ==                          \* mutant: two lines swapped
  <<Register("outChar"), Register("outString"), Register("flush"),
    Register("getCursorX"), Register("getCursorY"), Register("setCursorPos"),
    Syscall("allocateFrame")>>
initText ==
  <<Register("outString"), Register("outChar"), Register("flush"),
    Register("getCursorX"), Register("getCursorY"), Register("setCursorPos"),
    Syscall("allocateFrame")>>

timer_init == <<Handle("timerCallback"), Register("sleep")>>

keyboard_init ==
  <<Handle("keyboardCallback"), Register("getKeyEvent"), Register("getKeyState")>>

\* A place where no drive answers is waited for.
disks_init == <<Other("getTicks"), Other("wait")>>

fs_init == <<Syscall("allocateFrame"), Other("mount"), Syscall("outString"), Syscall("flush")>>

kernelMainDisksFirst ==                       \* mutant: the timer comes too late
  <<Other("segments")>> \o interrupts_init \o mem_init \o vesa_init \o initText \o disks_init
    \o timer_init \o keyboard_init \o fs_init \o <<Other("switchToUserMode")>>
kernelMain ==
  <<Other("segments")>> \o interrupts_init \o mem_init \o vesa_init \o initText \o timer_init
    \o keyboard_init \o disks_init \o fs_init \o <<Other("switchToUserMode")>>

-----------------------------------------------------------------------------
InKernel == pc <= Len(kernelMain)
Running == frames = <<>> /\ ~halted
At(op) == Running /\ InKernel /\ kernelMain[pc].op = op
Argument == kernelMain[pc].name

FillSegments ==
  /\ At("segments") /\ gdt_init
  /\ pc' = pc + 1
  /\ UNCHANGED <<handlers, started_waiting, call, tick, volume, devices>>

FillGates ==
  /\ At("gates") /\ FillIdt
  /\ pc' = pc + 1
  /\ UNCHANGED <<handlers, started_waiting, call, tick, volume, devices>>

EnableInterrupts ==
  /\ At("sti")
  /\ cpu' = [cpu EXCEPT !.on = TRUE]
  /\ pc' = pc + 1
  /\ UNCHANGED <<tables, frames, cause, report, handlers, started_waiting, call, tick, volume, devices>>

registerSyscallHandler ==
  /\ At("syscall")
  /\ syscall_handlers' = Append(syscall_handlers, Argument)
  /\ pc' = pc + 1
  /\ UNCHANGED <<irq_handlers, started_waiting, call, tick, volume, devices, traps>>

registerIrqHandler ==
  /\ At("irq")
  /\ irq_handlers' = IF Argument = "timerCallback"
                       THEN [irq_handlers EXCEPT ![Timer] = Argument]
                       ELSE [irq_handlers EXCEPT ![Keyboard] = Argument]
  /\ pc' = pc + 1
  /\ UNCHANGED <<syscall_handlers, started_waiting, call, tick, volume, devices, traps>>

\* int 0x40, in the kernel and in the program.
syscall(name) ==
  /\ call' = [wanted |-> name, reached |-> "waiting"]
  /\ cause' = cause /\ Take(SystemCall, TRUE)
  /\ UNCHANGED <<handlers, started_waiting, tick, volume, devices>>

KernelCall == At("call") /\ syscall(Argument) /\ pc' = pc + 1

\* A number without a handler is ignored.
systemCallHandler ==
  /\ InHandler /\ Top.n = SystemCall
  /\ \E func \in DOMAIN Numbered :
       /\ Numbered[func] = call.wanted
       /\ call' = [call EXCEPT !.reached = IF func > Len(syscall_handlers) THEN "none"
                                           ELSE syscall_handlers[func]]
  /\ HandlerReturns
  /\ UNCHANGED <<pc, handlers, started_waiting, tick, volume, devices, tables, cpu, cause, report>>

\* disks::init: two ticks from here on.
StartWaiting ==
  /\ At("getTicks")
  /\ started_waiting' = tick
  /\ pc' = pc + 1
  /\ UNCHANGED <<handlers, call, tick, volume, devices, traps>>

StopWaiting ==
  /\ At("wait")
  /\ tick >= started_waiting + 2
  /\ pc' = pc + 1
  /\ UNCHANGED <<handlers, started_waiting, call, tick, volume, devices, traps>>

\* fs::init, a disk at a time: sector 0 is read, which the drive reports by
\* an interrupt.  The size of the root is believed before the magic number is
\* looked at; one that is large enough takes the loop off the mapped memory.
\* The search ends at the first disk that mounts, or behind the last one.
MountOn ==                                    \* mutant: the search goes on
  /\ At("mount")
  /\ IF disk_id <= Len(disks)
       THEN /\ disk_id' = disk_id + 1
            /\ mounted' = IF disks[disk_id] = "formatted" THEN disk_id ELSE mounted
            /\ requests' = requests \cup {Drive}
            /\ UNCHANGED pc
       ELSE pc' = pc + 1 /\ UNCHANGED <<disk_id, mounted, requests>>
  /\ UNCHANGED <<handlers, started_waiting, call, tick, disks, in_service, unread, arrived, traps>>
Mount ==
  /\ At("mount")
  /\ IF mounted = 0 /\ disk_id <= Len(disks)
       THEN /\ disk_id' = disk_id + 1
            /\ mounted' = IF disks[disk_id] = "formatted" THEN disk_id ELSE 0
            /\ requests' = requests \cup {Drive}
            /\ UNCHANGED pc
       ELSE pc' = pc + 1 /\ UNCHANGED <<disk_id, mounted, requests>>
  /\ UNCHANGED <<handlers, started_waiting, call, tick, disks, in_service, unread, arrived, traps>>

MountFaults ==
  /\ At("mount") /\ mounted = 0 /\ disk_id <= Len(disks) /\ disks[disk_id] = "garbage"
  /\ Fault("page")
  /\ UNCHANGED <<pc, handlers, started_waiting, call, tick, volume, devices>>

\* fs::init does not say that it has mounted nothing, and kernelMain goes on
\* with a file system that nobody has filled in: openFile finds no file, and
\* the size of the program is whatever lies at a null pointer.
Unmounted ==
  mounted = 0 /\ \E p \in DOMAIN kernelMain : p < pc /\ kernelMain[p].op = "mount"

switchToUserMode ==
  /\ At("switchToUserMode") /\ toRing3
  /\ pc' = pc + 1
  /\ UNCHANGED <<handlers, started_waiting, call, tick, volume, devices>>

Kernel ==
  \/ FillSegments \/ FillGates \/ EnableInterrupts \/ registerSyscallHandler
  \/ registerIrqHandler \/ KernelCall \/ StartWaiting \/ StopWaiting
  \/ Mount \/ MountFaults \/ switchToUserMode

\* Whatever the library of programs asks for, and the end that start() asks for.
Program ==
  /\ Running /\ ~InKernel /\ call.wanted # "shutdown"
  /\ \E func \in DOMAIN Numbered : Numbered[func] # "sleep" /\ syscall(Numbered[func])
  /\ UNCHANGED pc

\* The heap is in both; the rest is the kernel's, a wild pointer anybody's.
Failure ==
  /\ \E what \in DOMAIN Meaning :
       /\ Ring = 3 => what \in {"corrupted", "freedTwice", "page"}
       /\ Fault(what)
  /\ UNCHANGED <<pc, handlers, started_waiting, call, tick, volume, devices>>

-----------------------------------------------------------------------------
(* Interrupts.                                                             *)
timerCallback == tick' = tick + 1 /\ UNCHANGED <<requests, unread>>

\* With the next scancode the line of the keyboard rises anew.
keyboardCallback ==
  /\ unread' = unread - 1
  /\ requests' = IF unread > 1 THEN requests \cup {Keyboard} ELSE requests
  /\ UNCHANGED tick

\* The interrupt is acknowledged before its handler is called, if it has one.
irqHandlerSilent ==                           \* mutant: not acknowledged
  /\ InHandler /\ Top.n \in 32 .. 47
  /\ CASE Top.n - 32 = Drive -> UNCHANGED <<tick, requests, unread>>
       [] irq_handlers[Top.n - 32] = "none" -> UNCHANGED <<tick, requests, unread>>
       [] Top.n - 32 = Timer -> timerCallback
       [] OTHER -> keyboardCallback
  /\ HandlerReturns
  /\ UNCHANGED <<pc, handlers, started_waiting, call, volume, in_service, arrived, tables, cpu, cause, report>>
irqHandler ==
  /\ InHandler /\ Top.n \in 32 .. 47
  /\ in_service' = in_service \ {Top.n - 32}
  /\ CASE irq_handlers[Top.n - 32] = "none" -> UNCHANGED <<tick, requests, unread>>
       [] Top.n - 32 = Timer -> timerCallback
       [] OTHER -> keyboardCallback
  /\ HandlerReturns
  /\ UNCHANGED <<pc, handlers, started_waiting, call, volume, arrived, tables, cpu, cause, report>>

\* Timer, keyboard, and then the drive, which has the second controller.
Interrupt(n) ==
  /\ TakesInterrupts /\ n \in requests
  /\ \A m \in in_service : n < m
  /\ requests' = requests \ {n} /\ in_service' = in_service \cup {n}
  /\ cause' = cause /\ Take(n + 32, FALSE)
  /\ UNCHANGED <<pc, handlers, started_waiting, call, tick, volume, unread, arrived>>

Stubs ==
  /\ EnterStub \/ LeaveStub \/ Iret \/ isrHandler
  /\ UNCHANGED <<pc, handlers, started_waiting, call, tick, volume, devices>>

Handler == Stubs \/ systemCallHandler \/ irqHandler

TimerTick ==
  /\ Timer \notin requests \cup in_service /\ tick < started_waiting + MaxTicks
  /\ requests' = requests \cup {Timer}
  /\ UNCHANGED <<pc, handlers, started_waiting, call, tick, volume, in_service, unread, arrived, traps>>

Scancode ==
  /\ arrived < MaxScancodes
  /\ arrived' = arrived + 1
  /\ unread' = unread + 1
  /\ requests' = IF unread = 0 THEN requests \cup {Keyboard} ELSE requests
  /\ UNCHANGED <<pc, handlers, started_waiting, call, tick, volume, in_service, traps>>

\* A key pressed under the boot loader may be waiting: the controller forgets
\* its request when interrupts::init sets it up.
Init ==
  /\ pc = 1 /\ TrapInit
  /\ syscall_handlers = <<>> /\ irq_handlers = [n \in Irqs |-> "none"]
  /\ tick = 0 /\ started_waiting = 0 /\ call = NoCall
  /\ disks \in Disks /\ disk_id = 1 /\ mounted = 0
  /\ requests = {} /\ in_service = {}
  /\ unread \in {0, 1} /\ arrived = 0

Next ==
  \/ Kernel \/ Handler \/ Program \/ Failure \/ TimerTick \/ Scancode
  \/ \E n \in Irqs : Interrupt(n)

\* The processor goes on, in a handler and, as two ticks are further apart
\* than a handler takes, in the kernel; the timer goes on; and an interrupt is
\* taken when the processor takes interrupts again and again.  Without a file
\* system kernelMain may read for ever from a disk that is none.
Spec ==
  /\ Init /\ [][Next]_vars
  /\ WF_vars(Handler) /\ SF_vars(~ Unmounted /\ Kernel) /\ WF_vars(TimerTick)
  /\ \A n \in Irqs : SF_vars(Interrupt(n))

-----------------------------------------------------------------------------
\* Every int 0x40, of the kernel before and of the program after the switch,
\* reaches the function that its number stands for: the numbers of
\* __syscalls.hpp agree with the order in which five files register their
\* functions, and none is called before it is registered.
CallsReachHandlers == call.reached \in {"waiting", call.wanted}

\* The kernel comes to its program, unless a fault stops it or no disk mounts:
\* when it waits for a disk, the timer has a handler and interrupts are on.
BootEnds == <>(~InKernel \/ halted \/ Unmounted)

\* Once the keyboard has a handler every scancode is read, if none was left
\* over from before.  (One that came before stays in the port, its interrupt
\* is over, and no other interrupt of the keyboard ever comes.)
KeysDelivered ==
  irq_handlers[Keyboard] # "none" /\ Keyboard \in requests ~> unread = 0 \/ cause.what # "none"

\* What runs behind kernelMain is on the first disk that the builder has made,
\* whatever else the machine has before it.  Only where there is none does the
\* kernel come to ring 3 with no file system, as fs::init does not stop it.
FirstDiskMounted ==
  LET made == {d \in DOMAIN disks : disks[d] = "formatted"}
  IN  ~InKernel => IF made = {} THEN mounted = 0
                   ELSE mounted \in made /\ \A d \in made : mounted <= d

RightRing == RingsKept(~InKernel)
=============================================================================
