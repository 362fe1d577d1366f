-------------------------------- MODULE Traps --------------------------------
(***************************************************************************)
(* Segments, gates and the stubs of interrupt.asm: how the processor gets  *)
(* from the code that runs into a handler of the kernel and back.  The     *)
(* tables are what gdt::init and interrupts::init put into memory; what    *)
(* the processor does with them is external.  A word of 32 bits is a pair  *)
(* of its high and its low half.                                           *)
(***************************************************************************)
EXTENDS Integers, SequencesExt

VARIABLES
  gdt, tss, idt,   \* the tables, <<>> before they are filled
  cpu,             \* cs, ss, ds, which stack esp is in, the interrupt flag,
                   \* and whether the last instruction was sti
  frames,          \* interrupted contexts, the last on top, with what the
                   \* stub has saved and how far it is
  cause,           \* history: the fault that has happened, and in which ring
  report           \* the message of isrHandler on the serial port

tables == <<gdt, tss, idt>>
context == <<cpu, frames, cause, report>>
traps == <<tables, context>>

-----------------------------------------------------------------------------
(* The tables.                                                             *)
createGdtEntry(base, limit, access, gran) ==
  [base_low |-> base[2], base_middle |-> base[1] % 256, base_high |-> base[1] \div 256,
   limit_low |-> limit[2], granularity |-> (limit[1] % 16) + (gran \div 16) * 16,
   access |-> access]

None == <<0, 0>>
All == <<65535, 65535>>
TssAddress == <<260, 4660>>           \* of tss_entry; any other would do

\* Its end is where its size should be: more than enough.
writeTss(ss0, esp0) ==
  /\ tss' = [ss0 |-> ss0, esp0 |-> esp0]
  /\ LET limit == <<TssAddress[1], TssAddress[2] + 104>>
         entries == <<createGdtEntry(None, None, 0, 0),
                      createGdtEntry(None, All, 154, 207), createGdtEntry(None, All, 146, 207),
                      createGdtEntry(None, All, 250, 207), createGdtEntry(None, All, 242, 207),
                      createGdtEntry(TssAddress, limit, 233, 0)>>
     IN  gdt' = [i \in 0 .. 5 |-> entries[i + 1]]

gdt_init ==
  /\ writeTss(16, "low")
  /\ cpu' = [cpu EXCEPT !.cs = 8, !.ds = 16, !.ss = 16]
  /\ UNCHANGED <<idt, frames, cause, report>>

setIdtGateTrap(user) == [sel |-> 8, flags |-> 143 + (IF user THEN 96 ELSE 0)]   \* mutant: a trap gate
setIdtGate(user) == [sel |-> 8, flags |-> 142 + (IF user THEN 96 ELSE 0)]

SystemCall == 64
FillIdt ==
  /\ idt' = [n \in 0 .. 47 \cup {SystemCall} |-> setIdtGate(n = SystemCall)]
  /\ UNCHANGED <<gdt, tss, context>>

-----------------------------------------------------------------------------
(* The processor.                                                          *)
Bit(byte, mask) == (byte \div mask) % 2 = 1
Dpl(flags) == (flags \div 32) % 4
Ring == cpu.cs % 4
Top == Last(frames)
InHandler == frames # <<>> /\ Top.stage = "handler"
halted == report # "none"
TakesInterrupts == cpu.on /\ ~cpu.after_sti /\ ~halted

\* An int n that the gate does not allow is a general protection fault.
Take(n, software) ==
  LET m == IF software /\ Dpl(idt[n].flags) < Ring THEN 13 ELSE n
  IN  /\ frames' = Append(frames, [n |-> m, cpu |-> cpu, ds |-> 0, stage |-> "stub"])
      /\ cpu' = [cpu EXCEPT !.cs = idt[m].sel,
                            !.ss = IF Ring = 3 THEN tss.ss0 ELSE @,
                            !.stack = IF Ring = 3 THEN tss.esp0 ELSE @,
                            !.on = @ /\ Bit(idt[m].flags, 1)]
      /\ UNCHANGED <<tables, report>>

\* cli, but for the system call; ds is saved and the kernel's loaded.
EnterStub ==
  /\ frames # <<>> /\ Top.stage = "stub"
  /\ frames' = Append(Front(frames), [Top EXCEPT !.ds = cpu.ds, !.stage = "handler"])
  /\ cpu' = [cpu EXCEPT !.ds = 16, !.on = @ /\ Top.n = SystemCall]
  /\ UNCHANGED <<tables, cause, report>>

HandlerReturns == frames' = Append(Front(frames), [Top EXCEPT !.stage = "leave"])

\* The segments are loaded again; sti, but for the system call.
LeaveStubUnloaded ==                          \* mutant: ds stays the kernel's
  /\ frames # <<>> /\ Top.stage = "leave"
  /\ frames' = Append(Front(frames), [Top EXCEPT !.stage = "iret"])
  /\ cpu' = [cpu EXCEPT !.on = @ \/ Top.n # SystemCall, !.after_sti = Top.n # SystemCall]
  /\ UNCHANGED <<tables, cause, report>>
LeaveStub ==
  /\ frames # <<>> /\ Top.stage = "leave"
  /\ frames' = Append(Front(frames), [Top EXCEPT !.stage = "iret"])
  /\ cpu' = [cpu EXCEPT !.ds = Top.ds, !.on = @ \/ Top.n # SystemCall,
                        !.after_sti = Top.n # SystemCall]
  /\ UNCHANGED <<tables, cause, report>>

Iret ==
  /\ frames # <<>> /\ Top.stage = "iret"
  /\ frames' = Front(frames)
  /\ cpu' = [Top.cpu EXCEPT !.ds = cpu.ds]
  /\ UNCHANGED <<tables, cause, report>>

\* The program goes on on the stack of the kernel, with interrupts on.
toRing3 ==
  /\ cpu' = [cpu EXCEPT !.cs = 27, !.ss = 35, !.ds = 35, !.on = TRUE]
  /\ UNCHANGED <<tables, frames, cause, report>>

-----------------------------------------------------------------------------
(* Faults: those the code raises itself, by int, and the page fault.       *)
Raised == [corrupted |-> 19, freedTwice |-> 22, frameTaken |-> 20, noRegion |-> 23,
           noFrames |-> 24]
PageFault == 14

exception_messagesShifted ==                  \* mutant: a line is missing
  <<"Division By Zero", "Debug", "Non Maskable Interrupt", "Breakpoint",
    "Into Detected Overflow", "Out of Bounds", "Invalid Opcode", "No Coprocessor",
    "Double Fault", "Coprocessor Segment Overrun", "Bad TSS", "Segment Not Present",
    "Stack Fault", "General Protection Fault", "Page Fault", "Coprocessor Fault",
    "Alignment Check", "Machine Check", "Heap Corruption", "Frame not free on identity map",
    "Freeing Invalid Memory", "Freeing Freed Memory", "Cannot Find Free Region",
    "Ran out of free frames", "Ran out of syscall handlers">>
exception_messages ==
  <<"Division By Zero", "Debug", "Non Maskable Interrupt", "Breakpoint",
    "Into Detected Overflow", "Out of Bounds", "Invalid Opcode", "No Coprocessor",
    "Double Fault", "Coprocessor Segment Overrun", "Bad TSS", "Segment Not Present",
    "Stack Fault", "General Protection Fault", "Page Fault", "Unknown Interrupt",
    "Coprocessor Fault", "Alignment Check", "Machine Check", "Heap Corruption",
    "Frame not free on identity map", "Freeing Invalid Memory", "Freeing Freed Memory",
    "Cannot Find Free Region", "Ran out of free frames", "Ran out of syscall handlers">>

\* Wherever code runs, its own or a handler's on its behalf.
Fault(what) ==
  /\ ~halted /\ cause.what = "none" /\ idt # <<>>
  /\ frames = <<>> \/ InHandler
  /\ cause' = [what |-> what, ring |-> Ring]
  /\ IF what = "page" THEN Take(PageFault, FALSE) ELSE Take(Raised[what], TRUE)

\* It prints, and halts with interrupts off.
isrHandler ==
  /\ InHandler /\ Top.n < 32
  /\ report' = exception_messages[Top.n + 1]
  /\ frames' = Append(Front(frames), [Top EXCEPT !.stage = "stopped"])
  /\ UNCHANGED <<tables, cpu, cause>>

TrapInit ==
  /\ gdt = <<>> /\ tss = <<>> /\ idt = <<>>
  /\ cpu = [cs |-> 8, ss |-> 16, ds |-> 16, stack |-> "boot", on |-> FALSE, after_sti |-> FALSE]
  /\ frames = <<>>
  /\ cause = [what |-> "none", ring |-> 0] /\ report = "none"

-----------------------------------------------------------------------------
Loaded(sel, kind) ==
  LET e == gdt[sel \div 8]
  IN  /\ <<e.base_low, e.base_middle, e.base_high>> = <<0, 0, 0>>
      /\ e.limit_low = 65535 /\ e.granularity % 16 = 15 /\ Bit(e.granularity, 128)
      /\ Bit(e.access, 128) /\ Bit(e.access, 16) /\ (Bit(e.access, 8) <=> kind = "code")
      /\ Dpl(e.access) = sel % 4

\* Whatever runs, after any interrupt, call or fault, runs on segments of its
\* own ring that span the whole memory; only the program is in ring 3, where
\* it can always be interrupted; a handler never works on the program's stack,
\* and none is interrupted but by a fault of its own.
RingsKept(program) ==
  gdt # <<>> =>
    /\ Loaded(cpu.cs, "code") /\ Loaded(cpu.ss, "data") /\ cpu.ss % 4 = Ring
    /\ frames = <<>> \/ InHandler => Loaded(cpu.ds, "data") /\ cpu.ds % 4 = Ring
    /\ Ring = (IF program /\ frames = <<>> THEN 3 ELSE 0)
    /\ Ring = 3 => cpu.on
    /\ \A i \in DOMAIN frames :
         /\ frames[i].cpu.cs % 4 = 3 => cpu.stack = tss.esp0 /\ i = 1
         /\ i > 1 => frames[i].n < 32

\* The interrupted code never notices: when a stub has returned, segments,
\* stack and interrupt flag are what they were.
ContextRestored ==
  [][Len(frames') < Len(frames) => cpu' = Last(frames).cpu]_traps

\* A fault stops the machine with the message that is meant, in the kernel and
\* in its handlers.  The program cannot raise it: its gate is the kernel's, so
\* that the report is of the attempt.
Meaning == [corrupted |-> "Heap Corruption", freedTwice |-> "Freeing Freed Memory",
            frameTaken |-> "Frame not free on identity map",
            noRegion |-> "Cannot Find Free Region", noFrames |-> "Ran out of free frames",
            page |-> "Page Fault"]
FaultsReported ==
  halted => report = IF cause.ring = 3 /\ cause.what # "page" THEN "General Protection Fault"
                     ELSE Meaning[cause.what]
=============================================================================
