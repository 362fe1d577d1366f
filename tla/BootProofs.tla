------------------------------ MODULE BootProofs ------------------------------
(***************************************************************************)
(* Theorems about Boot and Traps, for any disks, any interrupts and any    *)
(* calls of the program.                                                   *)
(***************************************************************************)
EXTENDS Boot, SequenceTheorems, TLAPS

-----------------------------------------------------------------------------
(* kernelMain, place by place.                                             *)

Functions == {Numbered[n] : n \in DOMAIN Numbered}
Step == [op : {"syscall", "irq", "call", "segments", "gates", "sti", "getTicks", "wait",
               "mount", "switchToUserMode"},
         name : Functions \cup {"timerCallback", "keyboardCallback", "none"}]

LEMMA StepType ==
  /\ \A name \in Functions : Register(name) \in Step /\ Syscall(name) \in Step
  /\ \A name \in {"timerCallback", "keyboardCallback"} : Handle(name) \in Step
  /\ \A op \in {"segments", "gates", "sti", "getTicks", "wait", "mount", "switchToUserMode"} :
       Other(op) \in Step
BY DEF Register, Handle, Syscall, Other, Step

LEMMA FunctionsAre ==
  /\ Functions = {"shutdown", "allocateFrame", "getTotalMemory", "getUsedMemory",
                  "outString", "outChar", "flush", "getCursorX", "getCursorY", "setCursorPos",
                  "sleep", "getKeyEvent", "getKeyState"}
BY DEF Functions, Numbered

\* One more init function at the end.
LEMMA Then ==
  ASSUME NEW p \in Seq(Step), NEW q \in Seq(Step)
  PROVE  /\ p \o q \in Seq(Step) /\ Len(p \o q) = Len(p) + Len(q)
         /\ \A i \in 1 .. Len(p) : (p \o q)[i] = p[i]
         /\ \A i \in 1 .. Len(q) : (p \o q)[Len(p) + i] = q[i]
<1>1. /\ p \o q \in Seq(Step) /\ Len(p \o q) = Len(p) + Len(q)
      /\ \A i \in 1 .. Len(p) + Len(q) : (p \o q)[i] =
           IF i <= Len(p) THEN p[i] ELSE q[i - Len(p)]
  BY ConcatProperties
<1>2. Len(p) \in Nat /\ Len(q) \in Nat
  OBVIOUS
<1>3. ASSUME NEW i \in 1 .. Len(p) PROVE (p \o q)[i] = p[i]
  BY <1>1, <1>2
<1>4. ASSUME NEW i \in 1 .. Len(q) PROVE (p \o q)[Len(p) + i] = q[i]
  <2>1. Len(p) + i \in 1 .. Len(p) + Len(q) /\ ~ (Len(p) + i <= Len(p))
        /\ Len(p) + i - Len(p) = i
    BY <1>2
  <2> QED BY <1>1, <2>1
<1> QED BY <1>1, <1>3, <1>4

LEMMA Inits ==
  /\ <<Other("segments")>> \in Seq(Step) /\ Len(<<Other("segments")>>) = 1
  /\ interrupts_init \in Seq(Step) /\ Len(interrupts_init) = 3
  /\ mem_init \in Seq(Step) /\ Len(mem_init) = 4
  /\ vesa_init \in Seq(Step) /\ Len(vesa_init) = 1
  /\ initText \in Seq(Step) /\ Len(initText) = 7
  /\ timer_init \in Seq(Step) /\ Len(timer_init) = 2
  /\ keyboard_init \in Seq(Step) /\ Len(keyboard_init) = 3
  /\ disks_init \in Seq(Step) /\ Len(disks_init) = 2
  /\ fs_init \in Seq(Step) /\ Len(fs_init) = 4
  /\ <<Other("switchToUserMode")>> \in Seq(Step) /\ Len(<<Other("switchToUserMode")>>) = 1
<1>1. <<Other("segments")>> \in Seq(Step) /\ Len(<<Other("segments")>>) = 1
  BY StepType
<1>2. interrupts_init \in Seq(Step) /\ Len(interrupts_init) = 3
  BY StepType, FunctionsAre DEF interrupts_init
<1>3. mem_init \in Seq(Step) /\ Len(mem_init) = 4
  BY StepType, FunctionsAre DEF mem_init
<1>4. vesa_init \in Seq(Step) /\ Len(vesa_init) = 1
  BY StepType, FunctionsAre DEF vesa_init
<1>5. initText \in Seq(Step) /\ Len(initText) = 7
  BY StepType, FunctionsAre DEF initText
<1>6. timer_init \in Seq(Step) /\ Len(timer_init) = 2
  BY StepType, FunctionsAre DEF timer_init
<1>7. keyboard_init \in Seq(Step) /\ Len(keyboard_init) = 3
  BY StepType, FunctionsAre DEF keyboard_init
<1>8. disks_init \in Seq(Step) /\ Len(disks_init) = 2
  BY StepType, FunctionsAre DEF disks_init
<1>9. fs_init \in Seq(Step) /\ Len(fs_init) = 4
  BY StepType, FunctionsAre DEF fs_init
<1>10. <<Other("switchToUserMode")>> \in Seq(Step) /\ Len(<<Other("switchToUserMode")>>) = 1
  BY StepType
<1> QED BY <1>1, <1>2, <1>3, <1>4, <1>5, <1>6, <1>7, <1>8, <1>9, <1>10

LEMMA Main ==
  /\ kernelMain \in Seq(Step) /\ Len(kernelMain) = 28
  /\ kernelMain[1] = Other("segments")
  /\ \A i \in 1 .. 3 : kernelMain[1 + i] = interrupts_init[i]
  /\ \A i \in 1 .. 4 : kernelMain[4 + i] = mem_init[i]
  /\ \A i \in 1 .. 1 : kernelMain[8 + i] = vesa_init[i]
  /\ \A i \in 1 .. 7 : kernelMain[9 + i] = initText[i]
  /\ \A i \in 1 .. 2 : kernelMain[16 + i] = timer_init[i]
  /\ \A i \in 1 .. 3 : kernelMain[18 + i] = keyboard_init[i]
  /\ \A i \in 1 .. 2 : kernelMain[21 + i] = disks_init[i]
  /\ \A i \in 1 .. 4 : kernelMain[23 + i] = fs_init[i]
  /\ kernelMain[28] = Other("switchToUserMode")
<1> DEFINE first == <<Other("segments")>>
           p2 == first \o interrupts_init
           p3 == p2 \o mem_init
           p4 == p3 \o vesa_init
           p5 == p4 \o initText
           p6 == p5 \o timer_init
           p7 == p6 \o keyboard_init
           p8 == p7 \o disks_init
           p9 == p8 \o fs_init
           last == <<Other("switchToUserMode")>>
           p10 == p9 \o last
<1>1. kernelMain = p10
  BY DEF kernelMain
<1>2. first \in Seq(Step) /\ Len(first) = 1 /\ first[1] = Other("segments")
      /\ last \in Seq(Step) /\ Len(last) = 1 /\ last[1] = Other("switchToUserMode")
  BY Inits
<1> HIDE DEF first, last
<1>3. /\ p2 \in Seq(Step) /\ Len(p2) = 4
      /\ \A i \in 1 .. 1 : p2[i] = first[i]
      /\ \A i \in 1 .. 3 : p2[1 + i] = interrupts_init[i]
  <2>1. first \in Seq(Step) /\ interrupts_init \in Seq(Step)
    BY <1>2, Inits
  <2>2. /\ p2 \in Seq(Step) /\ Len(p2) = Len(first) + Len(interrupts_init)
        /\ \A i \in 1 .. Len(first) : p2[i] = first[i]
        /\ \A i \in 1 .. Len(interrupts_init) : p2[Len(first) + i] = interrupts_init[i]
    BY <2>1, Then
  <2> HIDE DEF p2
  <2> QED BY <2>2, <1>2, Inits
<1> HIDE DEF p2
<1>4. /\ p3 \in Seq(Step) /\ Len(p3) = 8
      /\ \A i \in 1 .. 4 : p3[i] = p2[i]
      /\ \A i \in 1 .. 4 : p3[4 + i] = mem_init[i]
  <2>1. p2 \in Seq(Step) /\ mem_init \in Seq(Step)
    BY <1>3, Inits
  <2>2. /\ p3 \in Seq(Step) /\ Len(p3) = Len(p2) + Len(mem_init)
        /\ \A i \in 1 .. Len(p2) : p3[i] = p2[i]
        /\ \A i \in 1 .. Len(mem_init) : p3[Len(p2) + i] = mem_init[i]
    BY <2>1, Then
  <2> HIDE DEF p3
  <2> QED BY <2>2, <1>3, Inits
<1> HIDE DEF p3
<1>5. /\ p4 \in Seq(Step) /\ Len(p4) = 9
      /\ \A i \in 1 .. 8 : p4[i] = p3[i]
      /\ \A i \in 1 .. 1 : p4[8 + i] = vesa_init[i]
  <2>1. p3 \in Seq(Step) /\ vesa_init \in Seq(Step)
    BY <1>4, Inits
  <2>2. /\ p4 \in Seq(Step) /\ Len(p4) = Len(p3) + Len(vesa_init)
        /\ \A i \in 1 .. Len(p3) : p4[i] = p3[i]
        /\ \A i \in 1 .. Len(vesa_init) : p4[Len(p3) + i] = vesa_init[i]
    BY <2>1, Then
  <2> HIDE DEF p4
  <2> QED BY <2>2, <1>4, Inits
<1> HIDE DEF p4
<1>6. /\ p5 \in Seq(Step) /\ Len(p5) = 16
      /\ \A i \in 1 .. 9 : p5[i] = p4[i]
      /\ \A i \in 1 .. 7 : p5[9 + i] = initText[i]
  <2>1. p4 \in Seq(Step) /\ initText \in Seq(Step)
    BY <1>5, Inits
  <2>2. /\ p5 \in Seq(Step) /\ Len(p5) = Len(p4) + Len(initText)
        /\ \A i \in 1 .. Len(p4) : p5[i] = p4[i]
        /\ \A i \in 1 .. Len(initText) : p5[Len(p4) + i] = initText[i]
    BY <2>1, Then
  <2> HIDE DEF p5
  <2> QED BY <2>2, <1>5, Inits
<1> HIDE DEF p5
<1>7. /\ p6 \in Seq(Step) /\ Len(p6) = 18
      /\ \A i \in 1 .. 16 : p6[i] = p5[i]
      /\ \A i \in 1 .. 2 : p6[16 + i] = timer_init[i]
  <2>1. p5 \in Seq(Step) /\ timer_init \in Seq(Step)
    BY <1>6, Inits
  <2>2. /\ p6 \in Seq(Step) /\ Len(p6) = Len(p5) + Len(timer_init)
        /\ \A i \in 1 .. Len(p5) : p6[i] = p5[i]
        /\ \A i \in 1 .. Len(timer_init) : p6[Len(p5) + i] = timer_init[i]
    BY <2>1, Then
  <2> HIDE DEF p6
  <2> QED BY <2>2, <1>6, Inits
<1> HIDE DEF p6
<1>8. /\ p7 \in Seq(Step) /\ Len(p7) = 21
      /\ \A i \in 1 .. 18 : p7[i] = p6[i]
      /\ \A i \in 1 .. 3 : p7[18 + i] = keyboard_init[i]
  <2>1. p6 \in Seq(Step) /\ keyboard_init \in Seq(Step)
    BY <1>7, Inits
  <2>2. /\ p7 \in Seq(Step) /\ Len(p7) = Len(p6) + Len(keyboard_init)
        /\ \A i \in 1 .. Len(p6) : p7[i] = p6[i]
        /\ \A i \in 1 .. Len(keyboard_init) : p7[Len(p6) + i] = keyboard_init[i]
    BY <2>1, Then
  <2> HIDE DEF p7
  <2> QED BY <2>2, <1>7, Inits
<1> HIDE DEF p7
<1>9. /\ p8 \in Seq(Step) /\ Len(p8) = 23
      /\ \A i \in 1 .. 21 : p8[i] = p7[i]
      /\ \A i \in 1 .. 2 : p8[21 + i] = disks_init[i]
  <2>1. p7 \in Seq(Step) /\ disks_init \in Seq(Step)
    BY <1>8, Inits
  <2>2. /\ p8 \in Seq(Step) /\ Len(p8) = Len(p7) + Len(disks_init)
        /\ \A i \in 1 .. Len(p7) : p8[i] = p7[i]
        /\ \A i \in 1 .. Len(disks_init) : p8[Len(p7) + i] = disks_init[i]
    BY <2>1, Then
  <2> HIDE DEF p8
  <2> QED BY <2>2, <1>8, Inits
<1> HIDE DEF p8
<1>10. /\ p9 \in Seq(Step) /\ Len(p9) = 27
       /\ \A i \in 1 .. 23 : p9[i] = p8[i]
       /\ \A i \in 1 .. 4 : p9[23 + i] = fs_init[i]
  <2>1. p8 \in Seq(Step) /\ fs_init \in Seq(Step)
    BY <1>9, Inits
  <2>2. /\ p9 \in Seq(Step) /\ Len(p9) = Len(p8) + Len(fs_init)
        /\ \A i \in 1 .. Len(p8) : p9[i] = p8[i]
        /\ \A i \in 1 .. Len(fs_init) : p9[Len(p8) + i] = fs_init[i]
    BY <2>1, Then
  <2> HIDE DEF p9
  <2> QED BY <2>2, <1>9, Inits
<1> HIDE DEF p9
<1>11. /\ p10 \in Seq(Step) /\ Len(p10) = 28
       /\ \A i \in 1 .. 27 : p10[i] = p9[i]
       /\ \A i \in 1 .. 1 : p10[27 + i] = last[i]
  <2>1. p9 \in Seq(Step) /\ last \in Seq(Step)
    BY <1>10, <1>2
  <2>2. /\ p10 \in Seq(Step) /\ Len(p10) = Len(p9) + Len(last)
        /\ \A i \in 1 .. Len(p9) : p10[i] = p9[i]
        /\ \A i \in 1 .. Len(last) : p10[Len(p9) + i] = last[i]
    BY <2>1, Then
  <2> HIDE DEF p10
  <2> QED BY <2>2, <1>10, <1>2
<1> HIDE DEF p10
<1>12. /\ \A i \in 1 .. 23 : kernelMain[i] = p8[i]
       /\ \A i \in 1 .. 18 : kernelMain[i] = p6[i]
       /\ \A i \in 1 .. 9 : kernelMain[i] = p4[i]
       /\ \A i \in 1 .. 4 : kernelMain[i] = p2[i]
  <2>1. ASSUME NEW i \in 1 .. 27 PROVE kernelMain[i] = p9[i]
    BY <1>1, <1>11
  <2>2. ASSUME NEW i \in 1 .. 23 PROVE kernelMain[i] = p8[i]
    <3>1. kernelMain[i] = p9[i]
      BY <2>1
    <3>2. p9[i] = p8[i]
      BY <1>10
    <3> QED BY <3>1, <3>2
  <2>3. ASSUME NEW i \in 1 .. 18 PROVE kernelMain[i] = p6[i]
    <3>1. kernelMain[i] = p8[i] /\ i \in 1 .. 21
      BY <2>2
    <3>2. p8[i] = p7[i] /\ p7[i] = p6[i]
      BY <3>1, <1>8, <1>9
    <3> QED BY <3>1, <3>2
  <2>4. ASSUME NEW i \in 1 .. 9 PROVE kernelMain[i] = p4[i]
    <3>1. kernelMain[i] = p6[i] /\ i \in 1 .. 16
      BY <2>3
    <3>2. p6[i] = p5[i] /\ p5[i] = p4[i]
      BY <3>1, <1>6, <1>7
    <3> QED BY <3>1, <3>2
  <2>5. ASSUME NEW i \in 1 .. 4 PROVE kernelMain[i] = p2[i]
    <3>1. kernelMain[i] = p4[i] /\ i \in 1 .. 8
      BY <2>4
    <3>2. p4[i] = p3[i] /\ p3[i] = p2[i]
      BY <3>1, <1>4, <1>5
    <3> QED BY <3>1, <3>2
  <2> QED BY <2>2, <2>3, <2>4, <2>5
<1>13. kernelMain[1] = Other("segments") /\ \A i \in 1 .. 3 : kernelMain[1 + i] = interrupts_init[i]
  <2>1. kernelMain[1] = p4[1] /\ p4[1] = p3[1] /\ p3[1] = p2[1] /\ p2[1] = first[1]
    BY <1>3, <1>4, <1>5, <1>12
  <2>2. ASSUME NEW i \in 1 .. 3 PROVE kernelMain[1 + i] = interrupts_init[i]
    <3>1. 1 + i \in 1 .. 4
      BY ONLY i \in 1 .. 3
    <3>2. kernelMain[1 + i] = p2[1 + i]
      BY <1>12, <3>1
    <3>3. p2[1 + i] = interrupts_init[i]
      BY <1>3
    <3> QED BY <3>2, <3>3
  <2> QED BY <1>2, <2>1, <2>2
<1>14. ASSUME NEW i \in 1 .. 4 PROVE kernelMain[4 + i] = mem_init[i]
  <2>1. 4 + i \in 1 .. 9 /\ 4 + i \in 1 .. 8
    BY ONLY i \in 1 .. 4
  <2>2. kernelMain[4 + i] = p4[4 + i]
    BY <2>1, <1>12
  <2>3. p4[4 + i] = p3[4 + i]
    BY <2>1, <1>5
  <2>4. p3[4 + i] = mem_init[i]
    BY <1>4
  <2> QED BY <2>2, <2>3, <2>4
<1>15. ASSUME NEW i \in 1 .. 1 PROVE kernelMain[8 + i] = vesa_init[i]
  <2>1. 8 + i \in 1 .. 9
    BY ONLY i \in 1 .. 1
  <2>2. kernelMain[8 + i] = p4[8 + i]
    BY <2>1, <1>12
  <2>3. p4[8 + i] = vesa_init[i]
    BY <1>5
  <2> QED BY <2>2, <2>3
<1>16. ASSUME NEW i \in 1 .. 7 PROVE kernelMain[9 + i] = initText[i]
  <2>1. 9 + i \in 1 .. 18 /\ 9 + i \in 1 .. 16
    BY ONLY i \in 1 .. 7
  <2>2. kernelMain[9 + i] = p6[9 + i]
    BY <2>1, <1>12
  <2>3. p6[9 + i] = p5[9 + i]
    BY <2>1, <1>7
  <2>4. p5[9 + i] = initText[i]
    BY <1>6
  <2> QED BY <2>2, <2>3, <2>4
<1>17. ASSUME NEW i \in 1 .. 2 PROVE kernelMain[16 + i] = timer_init[i]
  <2>1. 16 + i \in 1 .. 18
    BY ONLY i \in 1 .. 2
  <2>2. kernelMain[16 + i] = p6[16 + i]
    BY <2>1, <1>12
  <2>3. p6[16 + i] = timer_init[i]
    BY <1>7
  <2> QED BY <2>2, <2>3
<1>18. ASSUME NEW i \in 1 .. 3 PROVE kernelMain[18 + i] = keyboard_init[i]
  <2>1. 18 + i \in 1 .. 23 /\ 18 + i \in 1 .. 21
    BY ONLY i \in 1 .. 3
  <2>2. kernelMain[18 + i] = p8[18 + i]
    BY <2>1, <1>12
  <2>3. p8[18 + i] = p7[18 + i]
    BY <2>1, <1>9
  <2>4. p7[18 + i] = keyboard_init[i]
    BY <1>8
  <2> QED BY <2>2, <2>3, <2>4
<1>19. ASSUME NEW i \in 1 .. 2 PROVE kernelMain[21 + i] = disks_init[i]
  <2>1. 21 + i \in 1 .. 23
    BY ONLY i \in 1 .. 2
  <2>2. kernelMain[21 + i] = p8[21 + i]
    BY <2>1, <1>12
  <2>3. p8[21 + i] = disks_init[i]
    BY <1>9
  <2> QED BY <2>2, <2>3
<1>20. ASSUME NEW i \in 1 .. 4 PROVE kernelMain[23 + i] = fs_init[i]
  <2>1. 23 + i \in 1 .. 27
    BY ONLY i \in 1 .. 4
  <2>2. kernelMain[23 + i] = p9[23 + i]
    BY <1>1, <1>11, <2>1
  <2>3. p9[23 + i] = fs_init[i]
    BY <1>10
  <2> QED BY <2>2, <2>3
<1>21. kernelMain[28] = Other("switchToUserMode")
  <2>1. p10[27 + 1] = last[1]
    BY <1>11
  <2> QED BY <1>1, <1>2, <2>1
<1> QED BY <1>1, <1>11, <1>13, <1>14, <1>15, <1>16, <1>17, <1>18, <1>19, <1>20, <1>21

LEMMA Places ==
  /\ Len(kernelMain) = 28 /\ kernelMain \in Seq(Step)
  /\ kernelMain[1] = Other("segments") /\ kernelMain[2] = Other("gates")
  /\ kernelMain[3] = Other("sti") /\ kernelMain[4] = Register("shutdown")
  /\ kernelMain[5] = Register("allocateFrame") /\ kernelMain[6] = Syscall("allocateFrame")
  /\ kernelMain[7] = Register("getTotalMemory") /\ kernelMain[8] = Register("getUsedMemory")
  /\ kernelMain[9] = Syscall("allocateFrame")
  /\ kernelMain[10] = Register("outString") /\ kernelMain[11] = Register("outChar")
  /\ kernelMain[12] = Register("flush") /\ kernelMain[13] = Register("getCursorX")
  /\ kernelMain[14] = Register("getCursorY") /\ kernelMain[15] = Register("setCursorPos")
  /\ kernelMain[16] = Syscall("allocateFrame")
  /\ kernelMain[17] = Handle("timerCallback") /\ kernelMain[18] = Register("sleep")
  /\ kernelMain[19] = Handle("keyboardCallback")
  /\ kernelMain[20] = Register("getKeyEvent") /\ kernelMain[21] = Register("getKeyState")
  /\ kernelMain[22] = Other("getTicks") /\ kernelMain[23] = Other("wait")
  /\ kernelMain[24] = Syscall("allocateFrame") /\ kernelMain[25] = Other("mount")
  /\ kernelMain[26] = Syscall("outString") /\ kernelMain[27] = Syscall("flush")
  /\ kernelMain[28] = Other("switchToUserMode")
<1>1. Len(kernelMain) = 28 /\ kernelMain \in Seq(Step) /\ kernelMain[1] = Other("segments")
      /\ kernelMain[28] = Other("switchToUserMode")
  BY Main
<1>2. kernelMain[2] = Other("gates") /\ kernelMain[3] = Other("sti") /\ kernelMain[4] = Register("shutdown")
  <2>1. kernelMain[1 + 1] = interrupts_init[1] /\ kernelMain[1 + 2] = interrupts_init[2]
        /\ kernelMain[1 + 3] = interrupts_init[3]
    BY Main
  <2> QED BY <2>1 DEF interrupts_init
<1>3. /\ kernelMain[5] = Register("allocateFrame") /\ kernelMain[6] = Syscall("allocateFrame")
      /\ kernelMain[7] = Register("getTotalMemory") /\ kernelMain[8] = Register("getUsedMemory")
  <2>1. /\ kernelMain[4 + 1] = mem_init[1] /\ kernelMain[4 + 2] = mem_init[2]
        /\ kernelMain[4 + 3] = mem_init[3] /\ kernelMain[4 + 4] = mem_init[4]
    BY Main
  <2> QED BY <2>1 DEF mem_init
<1>4. kernelMain[9] = Syscall("allocateFrame")
  <2>1. kernelMain[8 + 1] = vesa_init[1]
    BY Main
  <2> QED BY <2>1 DEF vesa_init
<1>5. /\ kernelMain[10] = Register("outString") /\ kernelMain[11] = Register("outChar")
      /\ kernelMain[12] = Register("flush") /\ kernelMain[13] = Register("getCursorX")
      /\ kernelMain[14] = Register("getCursorY") /\ kernelMain[15] = Register("setCursorPos")
      /\ kernelMain[16] = Syscall("allocateFrame")
  <2>1. /\ kernelMain[9 + 1] = initText[1] /\ kernelMain[9 + 2] = initText[2]
        /\ kernelMain[9 + 3] = initText[3] /\ kernelMain[9 + 4] = initText[4]
        /\ kernelMain[9 + 5] = initText[5] /\ kernelMain[9 + 6] = initText[6]
        /\ kernelMain[9 + 7] = initText[7]
    BY Main
  <2> QED BY <2>1 DEF initText
<1>6. kernelMain[17] = Handle("timerCallback") /\ kernelMain[18] = Register("sleep")
  <2>1. kernelMain[16 + 1] = timer_init[1] /\ kernelMain[16 + 2] = timer_init[2]
    BY Main
  <2> QED BY <2>1 DEF timer_init
<1>7. /\ kernelMain[19] = Handle("keyboardCallback")
      /\ kernelMain[20] = Register("getKeyEvent") /\ kernelMain[21] = Register("getKeyState")
  <2>1. /\ kernelMain[18 + 1] = keyboard_init[1] /\ kernelMain[18 + 2] = keyboard_init[2]
        /\ kernelMain[18 + 3] = keyboard_init[3]
    BY Main
  <2> QED BY <2>1 DEF keyboard_init
<1>8. kernelMain[22] = Other("getTicks") /\ kernelMain[23] = Other("wait")
  <2>1. kernelMain[21 + 1] = disks_init[1] /\ kernelMain[21 + 2] = disks_init[2]
    BY Main
  <2> QED BY <2>1 DEF disks_init
<1>9. /\ kernelMain[24] = Syscall("allocateFrame") /\ kernelMain[25] = Other("mount")
      /\ kernelMain[26] = Syscall("outString") /\ kernelMain[27] = Syscall("flush")
  <2>1. /\ kernelMain[23 + 1] = fs_init[1] /\ kernelMain[23 + 2] = fs_init[2]
        /\ kernelMain[23 + 3] = fs_init[3] /\ kernelMain[23 + 4] = fs_init[4]
    BY Main
  <2> QED BY <2>1 DEF fs_init
<1> QED BY <1>1, <1>2, <1>3, <1>4, <1>5, <1>6, <1>7, <1>8, <1>9

-----------------------------------------------------------------------------
(* What holds at every place.                                              *)

\* The calls of registerSyscallHandler, in their order: that of the numbers.
Order == <<4, 5, 7, 8, 10, 11, 12, 13, 14, 15, 18, 20, 21>>
Registered ==
  /\ syscall_handlers \in Seq(Functions) /\ Len(syscall_handlers) <= 13
  /\ \A k \in 1 .. 13 : k <= Len(syscall_handlers) <=> Order[k] < pc
  /\ \A k \in 1 .. Len(syscall_handlers) : syscall_handlers[k] = Numbered[k]

Called ==
  /\ call \in [wanted : Functions \cup {"none"}, reached : Functions \cup {"none", "waiting"}]
  /\ call.wanted # "none" => \E k \in 1 .. Len(syscall_handlers) : Numbered[k] = call.wanted
  /\ CallsReachHandlers

Searched ==
  /\ disks \in Seq({"formatted", "blank", "garbage"})
  /\ disk_id \in 1 .. Len(disks) + 1 /\ mounted \in Nat
  /\ \A d \in 1 .. disk_id - 1 : disks[d] = "formatted" => d = mounted
  /\ mounted # 0 => disk_id = mounted + 1 /\ disks[mounted] = "formatted"
  /\ pc > 25 => mounted # 0 \/ disk_id = Len(disks) + 1

\* What an unfaulted processor is in: the code of kernelMain or the program,
\* and a handler of whatever interrupted it.
Cpu == [cs : {8, 27}, ss : {16, 35}, ds : {16, 35}, stack : {"boot", "low"},
        on : BOOLEAN, after_sti : BOOLEAN]
Own(c) ==
  /\ c.cs = (IF pc <= 28 THEN 8 ELSE 27) /\ c.ss = (IF pc <= 28 THEN 16 ELSE 35)
  /\ c.ds = c.ss /\ c.stack = "boot" /\ (c.on <=> pc > 3) /\ ~ c.after_sti
Inner(c) ==
  /\ c.cs = 8 /\ c.ss = 16 /\ c.stack = (IF pc <= 28 THEN "boot" ELSE "low")

Tables ==
  /\ gdt # <<>> => /\ Loaded(8, "code") /\ Loaded(16, "data")
                   /\ Loaded(27, "code") /\ Loaded(35, "data")
  /\ pc > 1 => tss = [ss0 |-> 16, esp0 |-> "low"]
  /\ pc <= 2 => idt = <<>>
  /\ pc > 2 => idt = [n \in 0 .. 47 \cup {SystemCall} |-> setIdtGate(n = SystemCall)]

Frame == [n : 0 .. 47 \cup {SystemCall}, cpu : Cpu, ds : {0, 16, 35},
          stage : {"stub", "handler", "leave", "iret", "stopped"}]

\* At most an interrupt or a call, and a fault in its handler.
Interrupted ==
  /\ frames \in Seq(Frame) /\ Len(frames) <= 2 /\ cpu \in Cpu
  /\ frames # <<>> => pc > 2
  /\ \A i \in 1 .. Len(frames) :
       /\ frames[i].stage # "stub" => frames[i].ds = frames[i].cpu.ds
       /\ frames[i].n < 32 => frames[i].stage \in {"stub", "handler", "stopped"}
       /\ frames[i].stage = "stopped" => frames[i].n < 32
  /\ Len(frames) = 2 =>
       frames[1].stage = "handler" /\ frames[1].n >= 32 /\ frames[2].n < 32

Contexts ==
  /\ frames = <<>> => Own(cpu)
  /\ frames # <<>> => Own(frames[1].cpu)
  /\ Len(frames) = 2 => Inner(frames[2].cpu) /\ frames[2].cpu.ds = 16
  /\ frames # <<>> =>
       /\ Inner(cpu) /\ cpu.ds = (IF Top.stage \in {"stub", "iret"} THEN Top.cpu.ds ELSE 16)
       /\ cpu.on <=> Top.stage = "iret" /\ Top.n # SystemCall
       /\ cpu.after_sti <=> Top.stage = "iret" /\ Top.n # SystemCall

\* The number that a fault comes with.
Number == IF cause.what = "page" THEN PageFault ELSE IF cause.ring = 3 THEN 13
          ELSE Raised[cause.what]
Stopped ==
  /\ cause \in [what : DOMAIN Meaning \cup {"none"}, ring : {0, 3}]
  /\ cause.what = "none" => ~halted /\ \A i \in 1 .. Len(frames) : frames[i].n >= 32
  /\ cause.what # "none" => frames # <<>> /\ Top.n = Number
  /\ halted <=> frames # <<>> /\ Top.stage = "stopped"
  /\ halted => report = exception_messages[Number + 1]

Inv == pc \in 1 .. 29 /\ Registered /\ Called /\ Searched /\ Tables /\ Interrupted /\ Contexts
       /\ Stopped

\* In parts, which are easier to cite.
LEMMA PlacesMemory ==
  /\ kernelMain[1] = Other("segments") /\ kernelMain[2] = Other("gates")
  /\ kernelMain[3] = Other("sti") /\ kernelMain[4] = Register("shutdown")
  /\ kernelMain[5] = Register("allocateFrame") /\ kernelMain[6] = Syscall("allocateFrame")
  /\ kernelMain[7] = Register("getTotalMemory") /\ kernelMain[8] = Register("getUsedMemory")
  /\ kernelMain[9] = Syscall("allocateFrame")
BY Places

LEMMA PlacesText ==
  /\ kernelMain[10] = Register("outString") /\ kernelMain[11] = Register("outChar")
  /\ kernelMain[12] = Register("flush") /\ kernelMain[13] = Register("getCursorX")
  /\ kernelMain[14] = Register("getCursorY") /\ kernelMain[15] = Register("setCursorPos")
  /\ kernelMain[16] = Syscall("allocateFrame") /\ kernelMain[17] = Handle("timerCallback")
  /\ kernelMain[18] = Register("sleep")
BY Places

LEMMA PlacesLast ==
  /\ kernelMain[19] = Handle("keyboardCallback") /\ kernelMain[20] = Register("getKeyEvent")
  /\ kernelMain[21] = Register("getKeyState") /\ kernelMain[22] = Other("getTicks")
  /\ kernelMain[23] = Other("wait") /\ kernelMain[24] = Syscall("allocateFrame")
  /\ kernelMain[25] = Other("mount") /\ kernelMain[26] = Syscall("outString")
  /\ kernelMain[27] = Syscall("flush") /\ kernelMain[28] = Other("switchToUserMode")
BY Places

Numbers == {4, 5, 7, 8, 10, 11, 12, 13, 14, 15, 18, 20, 21}

\* What a place does tells where it is.
LEMMA Ops ==
  ASSUME NEW p \in 1 .. 28
  PROVE  /\ kernelMain[p].op = "segments" => p = 1
         /\ kernelMain[p].op = "gates" => p = 2
         /\ kernelMain[p].op = "sti" => p = 3
         /\ kernelMain[p].op = "syscall" <=> p \in Numbers
         /\ kernelMain[p].op = "irq" => p \in {17, 19}
         /\ kernelMain[p].op = "call" => p \in {6, 9, 16, 24, 26, 27}
         /\ kernelMain[p].op = "getTicks" => p = 22
         /\ kernelMain[p].op = "wait" => p = 23
         /\ kernelMain[p].op = "mount" => p = 25
         /\ kernelMain[p].op = "switchToUserMode" => p = 28
<1>1. CASE p \in 1 .. 4
  <2>1. p = 1 \/ p = 2 \/ p = 3 \/ p = 4
    BY <1>1
  <2> QED BY <2>1, PlacesMemory DEF Numbers, Register, Handle, Syscall, Other
<1>2. CASE p \in 5 .. 9
  <2>1. p = 5 \/ p = 6 \/ p = 7 \/ p = 8 \/ p = 9
    BY <1>2
  <2> QED BY <2>1, PlacesMemory DEF Numbers, Register, Handle, Syscall, Other
<1>3. CASE p \in 10 .. 12
  <2>1. p = 10 \/ p = 11 \/ p = 12
    BY <1>3
  <2> QED BY <2>1, PlacesText DEF Numbers, Register, Handle, Syscall, Other
<1>4. CASE p \in 13 .. 16
  <2>1. p = 13 \/ p = 14 \/ p = 15 \/ p = 16
    BY <1>4
  <2> QED BY <2>1, PlacesText DEF Numbers, Register, Handle, Syscall, Other
<1>5. CASE p \in 17 .. 18
  <2>1. p = 17 \/ p = 18
    BY <1>5
  <2> QED BY <2>1, PlacesText DEF Numbers, Register, Handle, Syscall, Other
<1>6. CASE p \in 19 .. 22
  <2>1. p = 19 \/ p = 20 \/ p = 21 \/ p = 22
    BY <1>6
  <2> QED BY <2>1, PlacesLast DEF Numbers, Register, Handle, Syscall, Other
<1>7. CASE p \in 23 .. 25
  <2>1. p = 23 \/ p = 24 \/ p = 25
    BY <1>7
  <2> QED BY <2>1, PlacesLast DEF Numbers, Register, Handle, Syscall, Other
<1>8. CASE p \in 26 .. 28
  <2>1. p = 26 \/ p = 27 \/ p = 28
    BY <1>8
  <2> QED BY <2>1, PlacesLast DEF Numbers, Register, Handle, Syscall, Other
<1> QED BY <1>1, <1>2, <1>3, <1>4, <1>5, <1>6, <1>7, <1>8

\* The functions come in the order of their numbers.
LEMMA InOrder ==
  ASSUME NEW k \in 1 .. 13
  PROVE  kernelMain[Order[k]].name = Numbered[k] /\ Order[k] \in Numbers
<1>1. CASE k \in 1 .. 4
  <2>1. k = 1 \/ k = 2 \/ k = 3 \/ k = 4
    BY <1>1
  <2>2. Order[1] = 4 /\ Order[2] = 5 /\ Order[3] = 7 /\ Order[4] = 8
    BY DEF Order
  <2> QED BY <2>1, <2>2, PlacesMemory DEF Numbered, Register, Numbers
<1>2. CASE k \in 5 .. 8
  <2>1. k = 5 \/ k = 6 \/ k = 7 \/ k = 8
    BY <1>2
  <2>2. Order[5] = 10 /\ Order[6] = 11 /\ Order[7] = 12 /\ Order[8] = 13
    BY DEF Order
  <2> QED BY <2>1, <2>2, PlacesText DEF Numbered, Register, Numbers
<1>3. CASE k \in 9 .. 11
  <2>1. k = 9 \/ k = 10 \/ k = 11
    BY <1>3
  <2>2. Order[9] = 14 /\ Order[10] = 15 /\ Order[11] = 18
    BY DEF Order
  <2> QED BY <2>1, <2>2, PlacesText DEF Numbered, Register, Numbers
<1>4. CASE k \in 12 .. 13
  <2>1. k = 12 \/ k = 13
    BY <1>4
  <2>2. Order[12] = 20 /\ Order[13] = 21
    BY DEF Order
  <2> QED BY <2>1, <2>2, PlacesLast DEF Numbered, Register, Numbers
<1> QED BY <1>1, <1>2, <1>3, <1>4

LEMMA Increasing ==
  /\ \A k \in 1 .. 13 : Order[k] \in 1 .. 28
  /\ \A k \in 1 .. 12 : Order[k] < Order[k + 1]
  /\ \A p \in Numbers : \E k \in 1 .. 13 : Order[k] = p
<1>1. ASSUME NEW k \in 1 .. 13 PROVE Order[k] \in 1 .. 28
  BY InOrder DEF Numbers
<1>2. ASSUME NEW k \in 1 .. 12 PROVE Order[k] < Order[k + 1]
  <2>1. \/ k = 1 \/ k = 2 \/ k = 3 \/ k = 4 \/ k = 5 \/ k = 6 \/ k = 7 \/ k = 8 \/ k = 9 \/ k = 10
        \/ k = 11 \/ k = 12
    OBVIOUS
  <2> QED BY <2>1 DEF Order
<1>3. /\ Order[1] = 4 /\ Order[2] = 5 /\ Order[3] = 7 /\ Order[4] = 8 /\ Order[5] = 10
      /\ Order[6] = 11 /\ Order[7] = 12 /\ Order[8] = 13 /\ Order[9] = 14 /\ Order[10] = 15
      /\ Order[11] = 18 /\ Order[12] = 20 /\ Order[13] = 21
  BY DEF Order
<1>4. ASSUME NEW p \in Numbers PROVE \E k \in 1 .. 13 : Order[k] = p
  BY <1>3 DEF Numbers
<1> QED BY <1>1, <1>2, <1>4

LEMMA Apart ==
  ASSUME NEW j \in 1 .. 13, NEW k \in 1 .. 13, Order[j] = Order[k]
  PROVE  j = k
<1>1. ASSUME NEW i \in 1 .. 13
      PROVE  \/ i = 1 \/ i = 2 \/ i = 3 \/ i = 4 \/ i = 5 \/ i = 6 \/ i = 7 \/ i = 8 \/ i = 9
             \/ i = 10 \/ i = 11 \/ i = 12 \/ i = 13
  OBVIOUS
<1> QED BY <1>1 DEF Order

LEMMA Distinct ==
  ASSUME NEW j \in DOMAIN Numbered, NEW k \in DOMAIN Numbered, Numbered[j] = Numbered[k]
  PROVE  j = k
<1>1. DOMAIN Numbered = 1 .. 13
  BY DEF Numbered
<1>2. ASSUME NEW i \in 1 .. 13
      PROVE  \/ i = 1 \/ i = 2 \/ i = 3 \/ i = 4 \/ i = 5 \/ i = 6 \/ i = 7 \/ i = 8 \/ i = 9
             \/ i = 10 \/ i = 11 \/ i = 12 \/ i = 13
  OBVIOUS
<1> QED BY <1>1, <1>2 DEF Numbered

-----------------------------------------------------------------------------
(* Where the steps go in kernelMain.                                       *)
\* A step that registers nothing.
Still == /\ syscall_handlers' = syscall_handlers
         /\ \/ pc' = pc
            \/ pc \in 1 .. 28 /\ pc' = pc + 1 /\ kernelMain[pc].op # "syscall"

LEMMA PcMoves ==
  ASSUME pc \in 1 .. 29, [Next]_vars
  PROVE  pc' \in 1 .. 29 /\ (registerSyscallHandler \/ Still)
<1>0. Len(kernelMain) = 28
  BY Places
<1>1. CASE registerSyscallHandler
  BY <1>0, <1>1 DEF registerSyscallHandler, At, InKernel
<1>2. CASE ~ registerSyscallHandler
  <2>1. CASE FillSegments
    BY <2>1, <1>0, <1>2 DEF Still, FillSegments, At, InKernel, handlers
  <2>2. CASE FillGates
    BY <2>2, <1>0, <1>2 DEF Still, FillGates, At, InKernel, handlers
  <2>3. CASE EnableInterrupts
    BY <2>3, <1>0, <1>2 DEF Still, EnableInterrupts, At, InKernel, handlers
  <2>4. CASE registerIrqHandler
    BY <2>4, <1>0, <1>2 DEF Still, registerIrqHandler, At, InKernel, handlers
  <2>5. CASE KernelCall
    BY <2>5, <1>0, <1>2 DEF Still, KernelCall, At, InKernel, handlers, syscall
  <2>6. CASE StartWaiting
    BY <2>6, <1>0, <1>2 DEF Still, StartWaiting, At, InKernel, handlers
  <2>7. CASE StopWaiting
    BY <2>7, <1>0, <1>2 DEF Still, StopWaiting, At, InKernel, handlers
  <2>8. CASE Mount
    <3>1. /\ syscall_handlers' = syscall_handlers /\ (pc' = pc \/ pc' = pc + 1)
          /\ pc <= Len(kernelMain) /\ kernelMain[pc].op = "mount"
      BY <2>8 DEF Mount, At, InKernel, handlers
    <3>2. pc \in 1 .. 28
      BY <3>1, <1>0
    <3>3. pc' = pc \/ pc' = pc + 1
      BY <3>1
    <3>4. Still
      BY ONLY <3>1, <3>2 DEF Still
    <3>5. pc' \in 1 .. 29
      BY ONLY <3>2, <3>3
    <3> QED BY <3>4, <3>5
  <2>9. CASE MountFaults
    BY <2>9, <1>0, <1>2 DEF Still, MountFaults, At, InKernel, handlers
  <2>10. CASE switchToUserMode
    BY <2>10, <1>0, <1>2 DEF Still, switchToUserMode, At, InKernel, handlers
  <2>11. CASE Stubs
    BY <2>11 DEF Still, Stubs, handlers
  <2>12. CASE systemCallHandler
    BY <2>12 DEF Still, systemCallHandler, handlers
  <2>13. CASE irqHandler
    BY <2>13 DEF Still, irqHandler, handlers
  <2>14. CASE Program
    BY <2>14 DEF Still, Program, syscall, handlers
  <2>15. CASE Failure
    BY <2>15 DEF Still, Failure, handlers
  <2>16. CASE TimerTick
    BY <2>16 DEF Still, TimerTick, handlers
  <2>17. CASE Scancode
    BY <2>17 DEF Still, Scancode, handlers
  <2>18. CASE \E n \in Irqs : Interrupt(n)
    BY <2>18 DEF Still, Interrupt, handlers
  <2>19. CASE UNCHANGED vars
    BY <2>19 DEF Still, vars, handlers
  <2>20. Still
    BY <1>2, <2>1, <2>2, <2>3, <2>4, <2>5, <2>6, <2>7, <2>8, <2>9, <2>10, <2>11, <2>12, <2>13, <2>14, <2>15, <2>16, <2>17, <2>18, <2>19
       DEF Next, Kernel, Handler
  <2> QED BY <2>20 DEF Still
<1> QED BY <1>1, <1>2

-----------------------------------------------------------------------------
(* System calls.                                                           *)
LEMMA HandlersAre ==
  ASSUME Registered
  PROVE  Len(syscall_handlers) \in 0 .. 13
<1> DEFINE n == Len(syscall_handlers)
<1>1. syscall_handlers \in Seq(Functions) /\ n <= 13
  BY DEF Registered
<1>2. n \in Nat
  BY <1>1, LenProperties
<1> HIDE DEF n
<1>3. n \in 0 .. 13
  BY <1>1, <1>2
<1> QED BY <1>3 DEF n

LEMMA RegisteredKept ==
  ASSUME pc \in 1 .. 29, Registered, [Next]_vars
  PROVE  Registered'
<1> DEFINE n == Len(syscall_handlers)
<1>0. /\ n \in 0 .. 13 /\ pc \in Int
      /\ \A k \in 1 .. 13 : k <= n <=> Order[k] < pc
      /\ \A k \in 1 .. n : syscall_handlers[k] = Numbered[k]
  <2>1. n \in 0 .. 13
    BY HandlersAre
  <2>2. pc \in Int
    OBVIOUS
  <2> QED BY <2>1, <2>2 DEF Registered
<1>1. CASE registerSyscallHandler
  <2>0. Len(kernelMain) = 28
    BY Places
  <2>1. /\ pc \in 1 .. 28 /\ kernelMain[pc].op = "syscall" /\ pc' = pc + 1
        /\ syscall_handlers' = Append(syscall_handlers, kernelMain[pc].name)
    BY <1>1, <2>0 DEF registerSyscallHandler, At, InKernel, Argument
  <2>2. pc \in Numbers
    BY <2>1, Ops
  <2>3. PICK k \in 1 .. 13 : Order[k] = pc
    BY <2>2, Increasing
  <2>4. k = n + 1
    <3> HIDE DEF n
    <3>1. n < k /\ n \in 0 .. 13
      BY <2>3, <1>0
    <3>2. ASSUME n + 1 < k PROVE FALSE
      <4>1. k - 1 \in 1 .. 12 /\ k - 1 + 1 = k
        BY <3>1, <3>2
      <4>2. Order[k - 1] < Order[k]
        BY <4>1, Increasing
      <4>3. k - 1 <= n
        BY <1>0, <2>3, <4>1, <4>2
      <4> QED BY <3>1, <3>2, <4>3
    <3> QED BY <3>1, <3>2
  <2>5. kernelMain[pc].name = Numbered[k] /\ Numbered[k] \in Functions
    <3>1. DOMAIN Numbered = 1 .. 13
      BY DEF Numbered
    <3> QED BY <2>3, <3>1, InOrder DEF Functions
  <2>6. /\ syscall_handlers' \in Seq(Functions) /\ Len(syscall_handlers') = k
        /\ \A i \in 1 .. n : syscall_handlers'[i] = syscall_handlers[i]
        /\ syscall_handlers'[k] = Numbered[k]
    BY <2>1, <2>4, <2>5 DEF Registered
  <2>7. ASSUME NEW i \in 1 .. 13 PROVE i <= k <=> Order[i] < pc'
    <3> HIDE DEF n
    <3>1. Order[i] \in 1 .. 28 /\ (i <= n <=> Order[i] < pc)
      BY <1>0, Increasing
    <3>2. Order[i] = pc <=> i = k
      BY <2>3, Apart
    <3>3. i <= k <=> i <= n \/ i = k
      BY <1>0, <2>4
    <3>4. Order[i] < pc + 1 <=> Order[i] < pc \/ Order[i] = pc
      BY <1>0, <3>1
    <3> QED BY <2>1, <3>1, <3>2, <3>3, <3>4
  <2>8. ASSUME NEW i \in 1 .. k PROVE syscall_handlers'[i] = Numbered[i]
    <3> HIDE DEF n
    <3> QED BY <2>4, <2>6, <1>0
  <2> QED BY <2>3, <2>6, <2>7, <2>8 DEF Registered
<1>2. CASE Still
  <2>1. ASSUME NEW k \in 1 .. 13 PROVE Order[k] < pc' <=> Order[k] < pc
    <3>1. Order[k] \in Numbers /\ Order[k] \in 1 .. 28
      BY InOrder, Increasing
    <3>2. pc' # pc => Order[k] # pc
      BY <1>2, <3>1, Ops DEF Still
    <3> QED BY <1>2, <3>1, <3>2 DEF Still
  <2> QED BY <1>2, <2>1 DEF Registered, Still
<1> QED BY <1>1, <1>2, PcMoves

LEMMA Calls == \* what the kernel asks for is there
  ASSUME NEW p \in 1 .. 28, kernelMain[p].op = "call"
  PROVE  \E k \in 1 .. 13 : kernelMain[p].name = Numbered[k] /\ Order[k] < p
<1>1. p \in {6, 9, 16, 24, 26, 27}
  BY Ops
<1>2. CASE p \in {6, 9, 16, 24}
  <2>1. Order[2] < p /\ Numbered[2] = "allocateFrame"
    BY <1>2 DEF Numbered, Order
  <2>2. kernelMain[p].name = Numbered[2]
    BY <1>2, <2>1, PlacesMemory, PlacesText, PlacesLast DEF Syscall
  <2> QED BY <2>1, <2>2
<1>3. CASE p = 26
  <2>1. kernelMain[p].name = Numbered[5] /\ Order[5] < p
    BY <1>3, PlacesLast DEF Syscall, Numbered, Order
  <2> QED BY <2>1
<1>4. CASE p = 27
  <2>1. kernelMain[p].name = Numbered[7] /\ Order[7] < p
    BY <1>4, PlacesLast DEF Syscall, Numbered, Order
  <2> QED BY <2>1
<1> QED BY <1>1, <1>2, <1>3, <1>4

LEMMA CalledKept ==
  ASSUME pc \in 1 .. 29, Registered, Called, [Next]_vars
  PROVE  Called'
<1> DEFINE n == Len(syscall_handlers)
<1>0. n \in 0 .. 13 /\ DOMAIN Numbered = 1 .. 13 /\ Len(kernelMain) = 28
  <2>1. DOMAIN Numbered = 1 .. 13
    BY DEF Numbered
  <2> QED BY <2>1, Places, HandlersAre
<1>1. n' \in Nat /\ n <= n'
  <2>1. CASE registerSyscallHandler
    <3>1. n' = n + 1
      <4>1. syscall_handlers' = Append(syscall_handlers, Argument) /\ Argument \in Functions
        <5>1. /\ pc \in 1 .. 28 /\ kernelMain[pc].op = "syscall"
              /\ syscall_handlers' = Append(syscall_handlers, kernelMain[pc].name)
          BY <2>1, <1>0 DEF registerSyscallHandler, At, InKernel, Argument
        <5>2. PICK k \in 1 .. 13 : Order[k] = pc
          BY <5>1, Ops, Increasing
        <5> QED BY <5>1, <5>2, <1>0, InOrder DEF Functions, Argument
      <4> QED BY <4>1 DEF Registered
    <3> QED BY <1>0, <3>1
  <2>2. CASE Still
    BY <1>0, <2>2 DEF Still
  <2> QED BY <2>1, <2>2, PcMoves
<1>2. CASE call' = call
  <2>1. call'.wanted # "none" => \E k \in 1 .. n' : Numbered[k] = call'.wanted
    BY <1>0, <1>1, <1>2 DEF Called
  <2> QED BY <1>2, <2>1 DEF Called, CallsReachHandlers
<1>3. ASSUME NEW k \in 1 .. 13, k <= n, call' = [wanted |-> Numbered[k], reached |-> "waiting"]
      PROVE  Called'
  <2>1. k \in 1 .. n' /\ Numbered[k] \in Functions
    BY <1>0, <1>1, <1>3 DEF Functions
  <2>2. call'.wanted = Numbered[k] /\ call'.reached = "waiting"
    BY <1>3
  <2> QED BY <1>3, <2>1, <2>2 DEF Called, CallsReachHandlers
<1>4. CASE KernelCall
  <2>1. /\ pc \in 1 .. 28 /\ kernelMain[pc].op = "call"
        /\ call' = [wanted |-> kernelMain[pc].name, reached |-> "waiting"]
    BY <1>0, <1>4 DEF KernelCall, At, InKernel, Argument, syscall
  <2>2. PICK k \in 1 .. 13 : kernelMain[pc].name = Numbered[k] /\ Order[k] < pc
    BY <2>1, Calls
  <2>3. k <= n
    BY <2>2 DEF Registered
  <2> QED BY <1>3, <2>1, <2>2, <2>3
<1>5. CASE Program
  <2>1. PICK k \in 1 .. 13 : call' = [wanted |-> Numbered[k], reached |-> "waiting"]
    <3>1. \E func \in DOMAIN Numbered :
            call' = [wanted |-> Numbered[func], reached |-> "waiting"]
      BY <1>5 DEF Program, syscall
    <3> QED BY <3>1, <1>0
  <2>2. pc = 29 /\ Order[k] < pc
    <3>1. ~ (pc <= 28)
      BY <1>0, <1>5 DEF Program, InKernel
    <3>2. Order[k] \in 1 .. 28
      BY Increasing
    <3> QED BY <3>1, <3>2
  <2>3. k <= n
    BY <2>2 DEF Registered
  <2> QED BY <1>3, <2>1, <2>3
<1>6. CASE systemCallHandler
  <2>1. PICK k \in 1 .. 13 :
          /\ Numbered[k] = call.wanted
          /\ call' = [call EXCEPT !.reached = IF k > n THEN "none" ELSE syscall_handlers[k]]
    BY <1>0, <1>6 DEF systemCallHandler
  <2>2. Numbered[k] \in Functions /\ Numbered[k] # "none"
    <3>1. Numbered[k] \in Functions
      BY <1>0 DEF Functions
    <3> QED BY <3>1, FunctionsAre
  <2>3. PICK j \in 1 .. n : Numbered[j] = call.wanted
    <3>1. call.wanted # "none"
      BY <2>1, <2>2
    <3> QED BY <3>1 DEF Called
  <2>4. j = k
    <3> HIDE DEF n
    <3>1. j \in DOMAIN Numbered /\ k \in DOMAIN Numbered
      BY <1>0
    <3>2. Numbered[j] = Numbered[k]
      BY <2>1, <2>3
    <3> QED BY <3>1, <3>2, Distinct
  <2>5. syscall_handlers[k] = Numbered[k] /\ ~ (k > n)
    BY <1>0, <2>3, <2>4 DEF Registered
  <2>6. call' = [call EXCEPT !.reached = Numbered[k]]
    BY <2>1, <2>5
  <2>7. call'.wanted = Numbered[k] /\ call'.reached = Numbered[k]
        /\ call' \in [wanted : Functions \cup {"none"}, reached : Functions \cup {"none", "waiting"}]
    BY <2>1, <2>2, <2>6 DEF Called
  <2>8. k \in 1 .. n'
    BY <1>0, <1>1, <2>5
  <2> QED BY <2>7, <2>8 DEF Called, CallsReachHandlers
<1>7. CASE ~ (KernelCall \/ Program \/ systemCallHandler)
  <2>1. Kernel => call' = call
    BY <1>7 DEF Kernel, FillSegments, FillGates, EnableInterrupts, registerSyscallHandler,
       registerIrqHandler, StartWaiting, StopWaiting, Mount, MountFaults, switchToUserMode
  <2>2. Stubs \/ irqHandler \/ Failure \/ TimerTick \/ Scancode => call' = call
    BY DEF Stubs, irqHandler, Failure, TimerTick, Scancode
  <2>3. (\E m \in Irqs : Interrupt(m)) \/ UNCHANGED vars => call' = call
    BY DEF Interrupt, vars
  <2> QED BY <1>2, <1>7, <2>1, <2>2, <2>3 DEF Next, Handler
<1> QED BY <1>4, <1>5, <1>6, <1>7

-----------------------------------------------------------------------------
(* The search for a disk.                                                  *)
LEMMA SearchedKept ==
  ASSUME pc \in 1 .. 29, Searched, [Next]_vars
  PROVE  Searched'
<1>0. Len(kernelMain) = 28
  BY Places
<1>1. CASE Mount
  <2>1. pc = 25
    <3>1. pc \in 1 .. 28 /\ kernelMain[pc].op = "mount"
      BY <1>0, <1>1 DEF Mount, At, InKernel
    <3> QED BY <3>1, Ops
  <2>2. CASE mounted = 0 /\ disk_id <= Len(disks)
    <3>1. /\ disk_id' = disk_id + 1 /\ disks' = disks /\ pc' = pc
          /\ mounted' = IF disks[disk_id] = "formatted" THEN disk_id ELSE 0
      BY <1>1, <2>2 DEF Mount
    <3>2. \A d \in 1 .. disk_id - 1 : disks[d] # "formatted"
      BY <2>2 DEF Searched
    <3>3. /\ disks \in Seq({"formatted", "blank", "garbage"})
          /\ Len(disks) \in Nat /\ disk_id \in 1 .. Len(disks)
      BY <2>2 DEF Searched
    <3> QED BY <2>1, <3>1, <3>2, <3>3 DEF Searched
  <2>3. CASE ~ (mounted = 0 /\ disk_id <= Len(disks))
    <3>1. pc' = pc + 1 /\ disk_id' = disk_id /\ mounted' = mounted /\ disks' = disks
      BY <1>1, <2>3 DEF Mount
    <3> QED BY <2>3, <3>1 DEF Searched
  <2> QED BY <2>2, <2>3
<1>2. CASE ~ Mount
  <2>1. UNCHANGED volume /\ (pc' > 25 => pc > 25)
    <3>1. Kernel => UNCHANGED volume
      BY <1>2 DEF Kernel, FillSegments, FillGates, EnableInterrupts, registerSyscallHandler,
         registerIrqHandler, KernelCall, syscall, StartWaiting, StopWaiting, MountFaults,
         switchToUserMode
    <3>2. Handler \/ Program \/ Failure => UNCHANGED volume
      BY DEF Handler, Stubs, systemCallHandler, irqHandler, Program, syscall, Failure
    <3>3. TimerTick \/ Scancode \/ (\E n \in Irqs : Interrupt(n)) \/ UNCHANGED vars
          => UNCHANGED volume
      BY DEF TimerTick, Scancode, Interrupt, vars
    <3>4. UNCHANGED volume
      BY <3>1, <3>2, <3>3 DEF Next
    <3>5. pc = 25 => pc' = pc
      <4>1. pc = 25 => kernelMain[pc].op = "mount"
        BY PlacesLast DEF Other
      <4>2. Kernel /\ pc' # pc => kernelMain[pc].op # "mount"
        BY <1>2 DEF Kernel, FillSegments, FillGates, EnableInterrupts, registerSyscallHandler,
           registerIrqHandler, KernelCall, StartWaiting, StopWaiting, MountFaults,
           switchToUserMode, At
      <4>3. Handler \/ Program \/ Failure => pc' = pc
        BY DEF Handler, Stubs, systemCallHandler, irqHandler, Program, Failure
      <4>4. TimerTick \/ Scancode \/ (\E n \in Irqs : Interrupt(n)) \/ UNCHANGED vars => pc' = pc
        BY DEF TimerTick, Scancode, Interrupt, vars
      <4> QED BY <4>1, <4>2, <4>3, <4>4 DEF Next
    <3>6. pc' \in 1 .. 29 /\ (pc' = pc \/ pc' = pc + 1)
      BY PcMoves DEF registerSyscallHandler, Still
    <3> QED BY <3>4, <3>5, <3>6
  <2> QED BY <2>1 DEF volume, Searched
<1> QED BY <1>1, <1>2

-----------------------------------------------------------------------------
(* Frames.                                                                 *)
LEMMA OnTop ==
  ASSUME NEW S, NEW s \in Seq(S), NEW x \in S
  PROVE  /\ Append(s, x) \in Seq(S) /\ Append(s, x) # <<>> /\ Len(Append(s, x)) = Len(s) + 1
         /\ Last(Append(s, x)) = x /\ Append(s, x)[Len(s) + 1] = x
         /\ \A i \in 1 .. Len(s) : Append(s, x)[i] = s[i]
BY AppendProperties DEF Last

LEMMA WithoutTop ==
  ASSUME NEW S, NEW s \in Seq(S), s # <<>>
  PROVE  /\ Front(s) \in Seq(S) /\ Len(Front(s)) = Len(s) - 1 /\ Len(s) \in Nat \ {0}
         /\ \A i \in 1 .. Len(s) - 1 : Front(s)[i] = s[i]
         /\ Last(s) = s[Len(s)] /\ Last(s) \in S
<1>1. Len(s) \in Nat \ {0}
  BY EmptySeq, LenProperties
<1>2. Front(s) = [i \in 1 .. Len(s) - 1 |-> s[i]]
  BY <1>1 DEF Front
<1>3. Front(s) \in Seq(S) /\ Len(Front(s)) = Len(s) - 1
  BY <1>1, <1>2
<1>4. Last(s) = s[Len(s)] /\ Last(s) \in S
  BY <1>1 DEF Last
<1> QED BY <1>1, <1>2, <1>3, <1>4

LEMMA TopReplaced ==
  ASSUME NEW S, NEW s \in Seq(S), s # <<>>, NEW x \in S
  PROVE  /\ Append(Front(s), x) \in Seq(S) /\ Append(Front(s), x) # <<>>
         /\ Len(Append(Front(s), x)) = Len(s)
         /\ Last(Append(Front(s), x)) = x /\ Append(Front(s), x)[Len(s)] = x
         /\ \A i \in 1 .. Len(s) - 1 : Append(Front(s), x)[i] = s[i]
<1> DEFINE f == Front(s)
<1>1. /\ f \in Seq(S) /\ Len(f) = Len(s) - 1 /\ Len(s) \in Nat \ {0}
      /\ \A i \in 1 .. Len(s) - 1 : f[i] = s[i]
  BY WithoutTop
<1> HIDE DEF f
<1>2. /\ Append(f, x) \in Seq(S) /\ Append(f, x) # <<>> /\ Len(Append(f, x)) = Len(f) + 1
      /\ Last(Append(f, x)) = x /\ Append(f, x)[Len(f) + 1] = x
      /\ \A i \in 1 .. Len(f) : Append(f, x)[i] = f[i]
  BY <1>1, OnTop
<1>3. Len(f) + 1 = Len(s)
  BY <1>1
<1>4. /\ Append(f, x) \in Seq(S) /\ Append(f, x) # <<>> /\ Len(Append(f, x)) = Len(s)
      /\ Last(Append(f, x)) = x /\ Append(f, x)[Len(s)] = x
      /\ \A i \in 1 .. Len(s) - 1 : Append(f, x)[i] = s[i]
  BY <1>1, <1>2, <1>3
<1> QED BY <1>4 DEF f

-----------------------------------------------------------------------------
(* Steps as the processor sees them.                                       *)
Code ==        \* kernelMain goes on
  /\ UNCHANGED traps
  /\ \/ pc' = pc
     \/ pc \in 1 .. 27 /\ pc' = pc + 1 /\ pc > 3 /\ frames = <<>>
Int40 ==       \* a system call begins
  /\ frames = <<>> /\ ~halted /\ pc > 3 /\ Take(SystemCall, TRUE) /\ cause' = cause
  /\ \/ pc' = pc
     \/ pc \in 1 .. 27 /\ pc' = pc + 1
Request(n) ==  \* an interrupt begins
  /\ pc' = pc /\ TakesInterrupts /\ Take(n + 32, FALSE) /\ cause' = cause
Abort(what) == \* a fault
  /\ pc' = pc /\ Fault(what)
Served ==      \* a handler has done its work
  /\ pc' = pc /\ InHandler /\ Top.n >= 32 /\ HandlerReturns
  /\ UNCHANGED <<tables, cpu, cause, report>>

LEMMA TrapMoves ==
  ASSUME pc \in 1 .. 29, Interrupted, [Next]_vars
  PROVE  \/ Code \/ Int40 \/ Served
         \/ \E n \in Irqs : Request(n)
         \/ \E what \in DOMAIN Meaning : Abort(what)
         \/ pc' = pc /\ (EnterStub \/ LeaveStub \/ Iret \/ isrHandler)
         \/ pc = 1 /\ pc' = 2 /\ gdt_init /\ frames = <<>>
         \/ pc = 2 /\ pc' = 3 /\ FillIdt /\ frames = <<>>
         \/ pc = 3 /\ pc' = 4 /\ frames = <<>> /\ cpu' = [cpu EXCEPT !.on = TRUE]
                              /\ UNCHANGED <<tables, frames, cause, report>>
         \/ pc = 28 /\ pc' = 29 /\ toRing3 /\ frames = <<>>
<1>0. Len(kernelMain) = 28
  BY Places
<1>1. ASSUME NEW op, At(op)
      PROVE  pc \in 1 .. 28 /\ kernelMain[pc].op = op /\ frames = <<>> /\ ~halted
  BY <1>0, <1>1 DEF At, InKernel, Running
<1>2. CASE FillSegments
  <2>1. pc = 1 /\ frames = <<>>
    BY <1>1, <1>2, Ops DEF FillSegments
  <2> QED BY <1>2, <2>1 DEF FillSegments
<1>3. CASE FillGates
  <2>1. pc = 2 /\ frames = <<>>
    BY <1>1, <1>3, Ops DEF FillGates
  <2> QED BY <1>3, <2>1 DEF FillGates
<1>4. CASE EnableInterrupts
  <2>1. pc = 3 /\ frames = <<>>
    BY <1>1, <1>4, Ops DEF EnableInterrupts
  <2> QED BY <1>4, <2>1 DEF EnableInterrupts
<1>5. CASE switchToUserMode
  <2>1. pc = 28 /\ frames = <<>>
    BY <1>1, <1>5, Ops DEF switchToUserMode
  <2> QED BY <1>5, <2>1 DEF switchToUserMode
<1>6. CASE registerSyscallHandler
  <2>1. pc \in Numbers /\ pc \in 1 .. 28 /\ frames = <<>>
    BY <1>1, <1>6, Ops DEF registerSyscallHandler
  <2>2. pc \in 1 .. 27 /\ pc > 3
    BY <2>1 DEF Numbers
  <2> QED BY <1>6, <2>1, <2>2 DEF registerSyscallHandler, Code
<1>7. CASE registerIrqHandler
  <2>1. pc \in {17, 19} /\ frames = <<>>
    BY <1>1, <1>7, Ops DEF registerIrqHandler
  <2> QED BY <1>7, <2>1 DEF registerIrqHandler, Code
<1>8. CASE KernelCall
  <2>1. pc \in {6, 9, 16, 24, 26, 27} /\ frames = <<>> /\ ~halted
    BY <1>1, <1>8, Ops DEF KernelCall
  <2>2. pc \in 1 .. 27 /\ pc > 3
    BY <2>1
  <2> QED BY <1>8, <2>1, <2>2 DEF KernelCall, syscall, Int40
<1>9. CASE StartWaiting
  <2>1. pc = 22 /\ frames = <<>>
    BY <1>1, <1>9, Ops DEF StartWaiting
  <2> QED BY <1>9, <2>1 DEF StartWaiting, Code
<1>10. CASE StopWaiting
  <2>1. pc = 23 /\ frames = <<>>
    BY <1>1, <1>10, Ops DEF StopWaiting
  <2> QED BY <1>10, <2>1 DEF StopWaiting, Code
<1>11. CASE Mount
  <2>1. pc = 25 /\ frames = <<>>
    BY <1>1, <1>11, Ops DEF Mount
  <2> QED BY <1>11, <2>1 DEF Mount, Code
<1>12. CASE MountFaults
  <2>1. Abort("page") /\ "page" \in DOMAIN Meaning
    BY <1>12 DEF MountFaults, Abort, Meaning
  <2> QED BY <2>1
<1>13. CASE Program
  <2>1. pc > 3 /\ pc' = pc /\ frames = <<>> /\ ~halted
    BY <1>0, <1>13 DEF Program, InKernel, Running
  <2> QED BY <1>13, <2>1 DEF Program, syscall, Int40
<1>14. CASE Failure
  BY <1>14 DEF Failure, Abort
<1>15. CASE Stubs
  BY <1>15 DEF Stubs
<1>16. CASE systemCallHandler
  BY <1>16 DEF systemCallHandler, Served, SystemCall
<1>17. CASE irqHandler
  <2>1. Top.n >= 32
    BY <1>17 DEF irqHandler
  <2> QED BY <1>17, <2>1 DEF irqHandler, Served
<1>18. CASE TimerTick \/ Scancode \/ UNCHANGED vars
  BY <1>18 DEF TimerTick, Scancode, vars, Code
<1>19. CASE \E n \in Irqs : Interrupt(n)
  BY <1>19 DEF Interrupt, Request
<1> QED BY <1>2, <1>3, <1>4, <1>5, <1>6, <1>7, <1>8, <1>9, <1>10, <1>11, <1>12, <1>13, <1>14,
           <1>15, <1>16, <1>17, <1>18, <1>19 DEF Next, Kernel, Handler

-----------------------------------------------------------------------------
(* The tables.                                                             *)
LEMMA GatesAre ==
  ASSUME Tables, pc > 2, pc \in Int
  PROVE  /\ \A n \in 0 .. 47 : idt[n] = [sel |-> 8, flags |-> 142]
         /\ idt[SystemCall] = [sel |-> 8, flags |-> 238]
         /\ Dpl(142) = 0 /\ Dpl(238) = 3 /\ ~ Bit(142, 1) /\ ~ Bit(238, 1)
<1>1. idt = [n \in 0 .. 47 \cup {SystemCall} |-> setIdtGate(n = SystemCall)]
  BY DEF Tables
<1>2. ASSUME NEW n \in 0 .. 47 PROVE idt[n] = [sel |-> 8, flags |-> 142]
  BY <1>1 DEF setIdtGate, SystemCall
<1>3. idt[SystemCall] = [sel |-> 8, flags |-> 238]
  BY <1>1 DEF setIdtGate, SystemCall
<1>4. Dpl(142) = 0 /\ Dpl(238) = 3 /\ ~ Bit(142, 1) /\ ~ Bit(238, 1)
  BY DEF Dpl, Bit
<1> QED BY <1>2, <1>3, <1>4

LEMMA SegmentsFilled ==
  ASSUME gdt_init
  PROVE  (Loaded(8, "code") /\ Loaded(16, "data") /\ Loaded(27, "code") /\ Loaded(35, "data"))'
<1>1. /\ gdt'[1] = createGdtEntry(None, All, 154, 207)
      /\ gdt'[2] = createGdtEntry(None, All, 146, 207)
      /\ gdt'[3] = createGdtEntry(None, All, 250, 207)
      /\ gdt'[4] = createGdtEntry(None, All, 242, 207)
  BY DEF gdt_init, writeTss
<1>2. ASSUME NEW access \in Int
      PROVE  createGdtEntry(None, All, access, 207) =
               [base_low |-> 0, base_middle |-> 0, base_high |-> 0, limit_low |-> 65535,
                granularity |-> 207, access |-> access]
  BY DEF createGdtEntry, None, All
<1>3. 8 \div 8 = 1 /\ 16 \div 8 = 2 /\ 27 \div 8 = 3 /\ 35 \div 8 = 4 /\ 8 % 4 = 0 /\ 16 % 4 = 0
      /\ 27 % 4 = 3 /\ 35 % 4 = 3
  OBVIOUS
<1>4. 207 % 16 = 15 /\ Bit(207, 128)
  BY DEF Bit
<1>5. /\ Bit(154, 128) /\ Bit(154, 16) /\ Bit(154, 8) /\ Dpl(154) = 0
      /\ Bit(146, 128) /\ Bit(146, 16) /\ ~ Bit(146, 8) /\ Dpl(146) = 0
      /\ Bit(250, 128) /\ Bit(250, 16) /\ Bit(250, 8) /\ Dpl(250) = 3
      /\ Bit(242, 128) /\ Bit(242, 16) /\ ~ Bit(242, 8) /\ Dpl(242) = 3
  BY DEF Bit, Dpl
<1>6. ASSUME NEW sel \in Int, NEW access \in Int, NEW kind, Bit(access, 128), Bit(access, 16),
             Bit(access, 8) <=> kind = "code", Dpl(access) = sel % 4,
             gdt'[sel \div 8] = createGdtEntry(None, All, access, 207)
      PROVE  Loaded(sel, kind)'
  BY <1>2, <1>4, <1>6 DEF Loaded
<1>7. Loaded(8, "code")'
  BY <1>1, <1>3, <1>5, <1>6
<1>8. Loaded(16, "data")'
  BY <1>1, <1>3, <1>5, <1>6
<1>9. Loaded(27, "code")'
  BY <1>1, <1>3, <1>5, <1>6
<1>10. Loaded(35, "data")'
  BY <1>1, <1>3, <1>5, <1>6
<1> QED BY <1>7, <1>8, <1>9, <1>10

LEMMA TablesKept ==
  ASSUME pc \in 1 .. 29, Interrupted, Tables, [Next]_vars
  PROVE  Tables'
<1>1. CASE UNCHANGED tables /\ (pc' = pc \/ (pc > 2 /\ pc' = pc + 1))
  <2>1. pc' > 1 <=> pc > 1
    BY <1>1
  <2>2. pc' <= 2 <=> pc <= 2
    BY <1>1
  <2>3. pc' > 2 <=> pc > 2
    BY <1>1
  <2> QED BY <1>1, <2>1, <2>2, <2>3 DEF Tables, tables, Loaded
<1>2. CASE pc = 1 /\ pc' = 2 /\ gdt_init
  <2>1. tss' = [ss0 |-> 16, esp0 |-> "low"] /\ idt' = idt
    BY <1>2 DEF gdt_init, writeTss
  <2> QED BY <1>2, <2>1, SegmentsFilled DEF Tables
<1>3. CASE pc = 2 /\ pc' = 3 /\ FillIdt
  BY <1>3 DEF FillIdt, Tables, Loaded
<1>4. CASE Code
  BY <1>1, <1>4 DEF Code, traps
<1>5. CASE Int40
  BY <1>1, <1>5 DEF Int40, Take
<1>6. CASE Served
  BY <1>1, <1>6 DEF Served
<1>7. ASSUME NEW n \in Irqs, Request(n) PROVE Tables'
  BY <1>1, <1>7 DEF Request, Take
<1>8. ASSUME NEW what \in DOMAIN Meaning, Abort(what) PROVE Tables'
  BY <1>1, <1>8 DEF Abort, Fault, Take
<1>9. CASE pc' = pc /\ (EnterStub \/ LeaveStub \/ Iret \/ isrHandler)
  BY <1>1, <1>9 DEF EnterStub, LeaveStub, Iret, isrHandler
<1>10. CASE pc = 3 /\ pc' = 4 /\ UNCHANGED <<tables, frames, cause, report>>
  BY <1>1, <1>10
<1>11. CASE pc = 28 /\ pc' = 29 /\ toRing3
  BY <1>1, <1>11 DEF toRing3
<1> QED BY <1>2, <1>3, <1>4, <1>5, <1>6, <1>7, <1>8, <1>9, <1>10, <1>11, TrapMoves

-----------------------------------------------------------------------------
(* Interrupts, calls and faults.                                           *)
LEMMA FramesAre ==
  ASSUME Interrupted
  PROVE  /\ frames \in Seq(Frame) /\ Len(frames) \in {0, 1, 2} /\ (frames = <<>> <=> Len(frames) = 0)
         /\ \A i \in 1 .. Len(frames) : frames[i] \in Frame
<1> DEFINE n == Len(frames)
<1>1. frames \in Seq(Frame) /\ n <= 2
  BY DEF Interrupted
<1>2. n \in Nat /\ (frames = <<>> <=> n = 0)
  BY <1>1, EmptySeq, LenProperties
<1>3. \A i \in 1 .. n : frames[i] \in Frame
  BY <1>1
<1> HIDE DEF n
<1>4. n \in {0, 1, 2}
  BY <1>1, <1>2
<1> QED BY <1>1, <1>2, <1>3, <1>4 DEF n

LEMMA FrameNumber ==
  ASSUME NEW f \in Frame
  PROVE  f.n \in Int
<1>1. f.n \in 0 .. 47 \cup {64}
  BY DEF Frame, SystemCall
<1> DEFINE n == f.n
<1> HIDE DEF n
<1>2. n \in 0 .. 47 \cup {64} => n \in Int
  OBVIOUS
<1> QED BY <1>1, <1>2 DEF n

\* The way in: the processor saves what it was in, and is in ring 0.
LEMMA Pushed ==
  ASSUME pc \in 3 .. 29, pc' = pc \/ (pc \in 4 .. 27 /\ pc' = pc + 1), Tables, Interrupted, Contexts,
         frames = <<>> \/ (InHandler /\ Len(frames) = 1 /\ frames[1].n >= 32),
         NEW n \in 0 .. 47 \cup {SystemCall}, NEW software \in BOOLEAN,
         NEW m \in 0 .. 47 \cup {SystemCall},
         m = IF software /\ Dpl(idt[n].flags) < Ring THEN 13 ELSE n,
         frames # <<>> => m < 32, Take(n, software)
  PROVE  /\ Interrupted' /\ Contexts' /\ frames' # <<>> /\ Top'.n = m /\ Top'.stage = "stub"
         /\ Len(frames') = Len(frames) + 1 /\ report' = report
         /\ \A i \in 1 .. Len(frames) : frames'[i] = frames[i]
<1> DEFINE f == [n |-> m, cpu |-> cpu, ds |-> 0, stage |-> "stub"]
<1>1. frames' = Append(frames, f)
  BY DEF Take
<1>2. f \in Frame
  BY DEF Interrupted, Frame
<1>3. f.n = m /\ f.cpu = cpu /\ f.ds = 0 /\ f.stage = "stub"
  OBVIOUS
<1> HIDE DEF f
<1>4. /\ frames' \in Seq(Frame) /\ frames' # <<>> /\ Len(frames') = Len(frames) + 1
      /\ Last(frames') = f /\ frames'[Len(frames) + 1] = f
      /\ \A i \in 1 .. Len(frames) : frames'[i] = frames[i]
  BY <1>1, <1>2, FramesAre, OnTop
<1>5. Top' = f
  BY <1>4 DEF Top
<1>6. /\ cpu \in Cpu /\ Inner(cpu)' /\ cpu'.ds = cpu.ds /\ ~ cpu'.on /\ ~ cpu'.after_sti
      /\ cpu' \in Cpu
  <2> DEFINE k == IF software /\ Dpl(idt[n].flags) < Ring THEN 13 ELSE n
  <2>1. idt[k].sel = 8 /\ ~ Bit(idt[k].flags, 1)
    <3>1. pc > 2 /\ pc \in Int
      OBVIOUS
    <3>2. m \in 0 .. 47 \/ m = SystemCall
      OBVIOUS
    <3>3. /\ \A i \in 0 .. 47 : idt[i] = [sel |-> 8, flags |-> 142]
          /\ idt[SystemCall] = [sel |-> 8, flags |-> 238] /\ ~ Bit(142, 1) /\ ~ Bit(238, 1)
      BY <3>1, GatesAre
    <3>4. idt[m] = [sel |-> 8, flags |-> 142] \/ idt[m] = [sel |-> 8, flags |-> 238]
      BY <3>2, <3>3
    <3>5. idt[m].sel = 8 /\ (idt[m].flags = 142 \/ idt[m].flags = 238)
      BY <3>4
    <3>6. ~ Bit(idt[m].flags, 1)
      BY <3>3, <3>5
    <3> QED BY <3>5, <3>6
  <2>2. cpu' = [cpu EXCEPT !.cs = idt[k].sel, !.ss = IF Ring = 3 THEN tss.ss0 ELSE @,
                           !.stack = IF Ring = 3 THEN tss.esp0 ELSE @,
                           !.on = @ /\ Bit(idt[k].flags, 1)]
    BY Zenon DEF Take
  <2> HIDE DEF k
  <2>3. tss.ss0 = 16 /\ tss.esp0 = "low"
    <3>1. pc > 1
      OBVIOUS
    <3>2. tss = [ss0 |-> 16, esp0 |-> "low"]
      BY <3>1 DEF Tables
    <3> QED BY <3>2
  <2>4. cpu \in Cpu /\ 8 % 4 = 0 /\ 27 % 4 = 3
    BY DEF Interrupted
  <2>5. /\ ~ cpu.after_sti /\ (Ring = 3 <=> pc = 29 /\ frames = <<>>)
        /\ (Ring # 3 => cpu.ss = 16 /\ cpu.stack = (IF pc <= 28 THEN "boot" ELSE "low"))
    <3>1. CASE frames = <<>>
      BY <2>4, <3>1 DEF Contexts, Own, Ring
    <3>2. CASE frames # <<>>
      <4>1. InHandler
        BY <3>2
      <4>2. Top.stage # "iret"
        BY <4>1 DEF InHandler
      <4> QED BY <2>4, <3>2, <4>2 DEF Contexts, Inner, Ring
    <3> QED BY <3>1, <3>2
  <2>6. /\ cpu'.cs = 8 /\ cpu'.ss = (IF Ring = 3 THEN 16 ELSE cpu.ss)
        /\ cpu'.stack = (IF Ring = 3 THEN "low" ELSE cpu.stack) /\ cpu'.ds = cpu.ds
        /\ cpu'.on = FALSE /\ cpu'.after_sti = cpu.after_sti
    BY <2>1, <2>2, <2>3, <2>4 DEF Cpu
  <2>7. cpu' \in Cpu
    BY <2>1, <2>2, <2>3, <2>4 DEF Cpu
  <2>8. pc' <= 28 <=> pc <= 28
    OBVIOUS
  <2> QED BY <2>4, <2>5, <2>6, <2>7, <2>8 DEF Inner
<1>7. Interrupted'
  <2>1. Len(frames') \in {1, 2} /\ Len(frames) \in {0, 1}
    BY <1>4, FramesAre, EmptySeq
  <2>2. pc' > 2
    OBVIOUS
  <2>3. ASSUME NEW i \in 1 .. Len(frames')
        PROVE  /\ frames'[i].stage # "stub" => frames'[i].ds = frames'[i].cpu.ds
               /\ frames'[i].n < 32 => frames'[i].stage \in {"stub", "handler", "stopped"}
               /\ frames'[i].stage = "stopped" => frames'[i].n < 32
    <3>1. CASE i = Len(frames) + 1
      BY <1>3, <1>4, <3>1
    <3>2. CASE i # Len(frames) + 1
      <4>1. i \in 1 .. Len(frames)
        BY <1>4, <2>1, <3>2
      <4> QED BY <1>4, <4>1 DEF Interrupted
    <3> QED BY <3>1, <3>2
  <2>4. Len(frames') = 2 =>
          frames'[1].stage = "handler" /\ frames'[1].n >= 32 /\ frames'[2].n < 32
    <3> SUFFICES ASSUME Len(frames') = 2
                 PROVE  frames'[1].stage = "handler" /\ frames'[1].n >= 32 /\ frames'[2].n < 32
      OBVIOUS
    <3>1. Len(frames) = 1 /\ frames # <<>>
      <4> DEFINE k == Len(frames)
      <4>1. k \in {0, 1} /\ k + 1 = 2
        BY <1>4, <2>1
      <4> HIDE DEF k
      <4>2. k = 1
        BY <4>1
      <4>3. Len(frames) = 1
        BY <4>2 DEF k
      <4> QED BY <4>3, FramesAre
    <3>2. Top = frames[1]
      BY <3>1 DEF Top, Last
    <3> QED BY <1>3, <1>4, <3>1, <3>2 DEF InHandler
  <2> QED BY <1>4, <1>6, <2>1, <2>2, <2>3, <2>4 DEF Interrupted
<1>8. Contexts'
  <2>1. pc' <= 28 <=> pc <= 28
    OBVIOUS
  <2>2. pc' > 3 <=> pc > 3
    OBVIOUS
  <2>3. CASE frames = <<>>
    <3>1. Len(frames) = 0 /\ Len(frames') = 1 /\ frames'[1] = f
      BY <1>4, <2>3, FramesAre
    <3>2. Own(cpu)
      BY <2>3 DEF Contexts
    <3>3. Own(frames[1].cpu)'
      BY <1>3, <2>1, <2>2, <3>1, <3>2 DEF Own
    <3>4. /\ (cpu.ds = IF Top.stage \in {"stub", "iret"} THEN Top.cpu.ds ELSE 16)'
          /\ (cpu.on <=> Top.stage = "iret" /\ Top.n # SystemCall)'
          /\ (cpu.after_sti <=> Top.stage = "iret" /\ Top.n # SystemCall)'
      BY <1>3, <1>5, <1>6
    <3>5. frames' # <<>> /\ Len(frames') # 2
      BY <1>4, <3>1
    <3> QED BY <1>6, <3>3, <3>4, <3>5 DEF Contexts
  <2>4. CASE frames # <<>>
    <3>1. Len(frames) = 1 /\ Len(frames') = 2 /\ frames'[1] = frames[1] /\ frames'[2] = f
      BY <1>4, <2>4
    <3>2. Own(frames[1].cpu) /\ Inner(cpu) /\ cpu.ds = 16
      BY <2>4 DEF Contexts, InHandler
    <3>3. Own(frames[1].cpu)' /\ Inner(frames[2].cpu)'
      BY <1>3, <2>1, <2>2, <3>1, <3>2 DEF Own, Inner
    <3>4. /\ (cpu.ds = IF Top.stage \in {"stub", "iret"} THEN Top.cpu.ds ELSE 16)'
          /\ (cpu.on <=> Top.stage = "iret" /\ Top.n # SystemCall)'
          /\ (cpu.after_sti <=> Top.stage = "iret" /\ Top.n # SystemCall)'
      BY <1>3, <1>5, <1>6
    <3>5. frames' # <<>> /\ frames'[2].cpu.ds = 16
      BY <1>3, <1>4, <3>1, <3>2
    <3> QED BY <1>6, <3>3, <3>4, <3>5 DEF Contexts
  <2> QED BY <2>3, <2>4
<1> QED BY <1>3, <1>4, <1>5, <1>7, <1>8 DEF Take

\* In a handler and its stub: the frame on top changes its stage.
LEMMA Replaced ==
  ASSUME pc \in 3 .. 29, pc' = pc, Interrupted, Contexts, frames # <<>>,
         NEW f \in Frame, f.n = Top.n, f.cpu = Top.cpu, f.stage # "stub" => f.ds = f.cpu.ds,
         f.n < 32 => f.stage \in {"stub", "handler", "stopped"}, f.stage = "stopped" => f.n < 32,
         Top.n >= 32 \/ f.stage \in {"handler", "stopped"},
         frames' = Append(Front(frames), f), cpu' \in Cpu,
         cpu'.cs = cpu.cs /\ cpu'.ss = cpu.ss /\ cpu'.stack = cpu.stack,
         cpu'.ds = (IF f.stage \in {"stub", "iret"} THEN f.cpu.ds ELSE 16),
         cpu'.on <=> f.stage = "iret" /\ f.n # SystemCall,
         cpu'.after_sti <=> f.stage = "iret" /\ f.n # SystemCall
  PROVE  /\ Interrupted' /\ Contexts' /\ frames' # <<>> /\ Top' = f
         /\ Len(frames') = Len(frames) /\ frames'[Len(frames)] = f
         /\ \A i \in 1 .. Len(frames) - 1 : frames'[i] = frames[i]
<1>1. /\ frames' \in Seq(Frame) /\ frames' # <<>> /\ Len(frames') = Len(frames)
      /\ Last(frames') = f /\ frames'[Len(frames)] = f
      /\ \A i \in 1 .. Len(frames) - 1 : frames'[i] = frames[i]
  BY FramesAre, TopReplaced
<1>2. Top' = f
  BY <1>1 DEF Top
<1>3. Len(frames) \in {1, 2} /\ Top = frames[Len(frames)]
  BY FramesAre DEF Top, Last
<1>4. Len(frames) = 2 => frames[1].stage = "handler" /\ frames[1].n >= 32 /\ Top.n < 32
  BY <1>3 DEF Interrupted
<1>5. ASSUME NEW i \in 1 .. Len(frames'), i # Len(frames)
      PROVE  i = 1 /\ Len(frames) = 2 /\ frames'[i] = frames[i]
  BY <1>1, <1>3, <1>5
<1>6. Interrupted'
  <2>1. ASSUME NEW i \in 1 .. Len(frames')
        PROVE  /\ frames'[i].stage # "stub" => frames'[i].ds = frames'[i].cpu.ds
               /\ frames'[i].n < 32 => frames'[i].stage \in {"stub", "handler", "stopped"}
               /\ frames'[i].stage = "stopped" => frames'[i].n < 32
    <3>1. CASE i = Len(frames)
      BY <1>1, <3>1
    <3>2. CASE i # Len(frames)
      <4>1. i = 1 /\ i \in 1 .. Len(frames) /\ frames'[i] = frames[i]
        BY <1>3, <1>5, <3>2
      <4> QED BY <4>1 DEF Interrupted
    <3> QED BY <3>1, <3>2
  <2>2. Len(frames') = 2 =>
          frames'[1].stage = "handler" /\ frames'[1].n >= 32 /\ frames'[2].n < 32
    BY <1>1, <1>3, <1>4
  <2>3. pc' > 2 /\ Len(frames') <= 2
    BY <1>1, <1>3
  <2> QED BY <1>1, <2>1, <2>2, <2>3 DEF Interrupted
<1>7. frames'[1].cpu = frames[1].cpu /\ (Len(frames) = 2 => frames'[2].cpu = frames[2].cpu)
  BY <1>1, <1>3
<1>8. Contexts'
  <2>1. Own(frames[1].cpu)'
    <3>1. Own(frames[1].cpu)
      BY DEF Contexts
    <3> QED BY <1>7, <3>1 DEF Own
  <2>2. (Len(frames) = 2 => Inner(frames[2].cpu) /\ frames[2].cpu.ds = 16)'
    <3>1. Len(frames) = 2 => Inner(frames[2].cpu) /\ frames[2].cpu.ds = 16
      BY DEF Contexts
    <3> QED BY <1>1, <1>7, <3>1 DEF Inner
  <2>3. Inner(cpu)'
    <3>1. Inner(cpu)
      BY DEF Contexts
    <3> QED BY <3>1 DEF Inner
  <2>4. /\ (cpu.ds = IF Top.stage \in {"stub", "iret"} THEN Top.cpu.ds ELSE 16)'
        /\ (cpu.on <=> Top.stage = "iret" /\ Top.n # SystemCall)'
        /\ (cpu.after_sti <=> Top.stage = "iret" /\ Top.n # SystemCall)'
    BY <1>2
  <2> QED BY <1>1, <2>1, <2>2, <2>3, <2>4 DEF Contexts
<1> QED BY <1>1, <1>2, <1>6, <1>8

LEMMA NumberIs ==
  ASSUME Stopped, cause.what # "none"
  PROVE  Number \in {13, 14, 19, 20, 22, 23, 24} /\ exception_messages[Number + 1] # "none"
<1>1. cause.what \in DOMAIN Meaning
  BY DEF Stopped
<1>2. Number \in {13, 14, 19, 20, 22, 23, 24}
  BY <1>1 DEF Meaning, Number, Raised, PageFault
<1>3. \A k \in {13, 14, 19, 20, 22, 23, 24} : exception_messages[k + 1] # "none"
  <2>1. exception_messages[14] # "none" /\ exception_messages[15] # "none"
    BY DEF exception_messages
  <2>2. exception_messages[20] # "none" /\ exception_messages[21] # "none"
    BY DEF exception_messages
  <2>3. exception_messages[23] # "none" /\ exception_messages[24] # "none"
        /\ exception_messages[25] # "none"
    BY DEF exception_messages
  <2> QED BY <2>1, <2>2, <2>3
<1> QED BY <1>2, <1>3

LEMMA StoppedSame ==
  ASSUME Stopped, UNCHANGED <<frames, cause, report>>
  PROVE  Stopped'
BY DEF Stopped, halted, Top, Number

\* The ring is the one of the program just when the program runs.
LEMMA RingIs ==
  ASSUME pc \in 1 .. 29, Interrupted, Contexts
  PROVE  Ring \in {0, 3} /\ (Ring = 3 <=> pc = 29 /\ frames = <<>>)
<1>1. 8 % 4 = 0 /\ 27 % 4 = 3
  OBVIOUS
<1>2. CASE frames = <<>>
  BY <1>1, <1>2 DEF Contexts, Own, Ring
<1>3. CASE frames # <<>>
  BY <1>1, <1>3 DEF Contexts, Inner, Ring
<1> QED BY <1>2, <1>3

LEMMA FrameKept == \* in the code
  ASSUME pc \in 1 .. 29, Interrupted, Contexts, UNCHANGED frames, frames = <<>>, cpu' \in Cpu,
         Own(cpu)', pc' \in 1 .. 29
  PROVE  Interrupted' /\ Contexts'
<1>1. frames' = <<>> /\ Len(frames') = 0
  BY FramesAre
<1>2. Interrupted'
  BY <1>1 DEF Interrupted
<1> QED BY <1>1, <1>2 DEF Contexts

LEMMA CodeKeeps ==
  ASSUME pc \in 1 .. 29, Interrupted, Contexts, Stopped, Code
  PROVE  Interrupted' /\ Contexts' /\ Stopped'
<1>1. UNCHANGED <<cpu, frames, cause, report>>
  BY DEF Code, traps, context
<1>2. Stopped'
  BY <1>1, StoppedSame
<1>3. CASE pc' = pc
  <2>1. Interrupted'
    BY <1>1, <1>3 DEF Interrupted
  <2>2. Contexts'
    BY <1>1, <1>3 DEF Contexts, Own, Inner, Top
  <2> QED BY <1>2, <2>1, <2>2
<1>4. CASE pc \in 1 .. 27 /\ pc' = pc + 1 /\ pc > 3 /\ frames = <<>>
  <2>1. cpu' \in Cpu /\ Own(cpu)
    BY <1>1, <1>4 DEF Interrupted, Contexts
  <2>2. Own(cpu)'
    BY <1>1, <1>4, <2>1 DEF Own
  <2>3. pc' \in 1 .. 29
    BY <1>4
  <2> QED BY <1>1, <1>2, <1>4, <2>1, <2>2, <2>3, FrameKept
<1> QED BY <1>3, <1>4 DEF Code

LEMMA StartKeeps ==
  ASSUME pc \in 1 .. 29, Interrupted, Contexts, Stopped, frames = <<>>,
         \/ pc = 1 /\ pc' = 2 /\ gdt_init
         \/ pc = 2 /\ pc' = 3 /\ FillIdt
         \/ pc = 3 /\ pc' = 4 /\ cpu' = [cpu EXCEPT !.on = TRUE]
                              /\ UNCHANGED <<tables, frames, cause, report>>
         \/ pc = 28 /\ pc' = 29 /\ toRing3
  PROVE  Interrupted' /\ Contexts' /\ Stopped'
<1>1. UNCHANGED <<frames, cause, report>>
  BY DEF gdt_init, writeTss, FillIdt, toRing3, context
<1>2. Stopped'
  BY <1>1, StoppedSame
<1>3. cpu \in Cpu /\ Own(cpu)
  BY DEF Interrupted, Contexts
<1>4. cpu' \in Cpu /\ Own(cpu)'
  <2>1. CASE pc = 1 /\ pc' = 2 /\ gdt_init
    <3>1. cpu' = [cpu EXCEPT !.cs = 8, !.ds = 16, !.ss = 16]
      BY <2>1 DEF gdt_init
    <3>2. /\ cpu' \in Cpu /\ cpu'.cs = 8 /\ cpu'.ds = 16 /\ cpu'.ss = 16
          /\ cpu'.stack = cpu.stack /\ cpu'.on = cpu.on /\ cpu'.after_sti = cpu.after_sti
      BY <1>3, <3>1 DEF Cpu
    <3>3. cpu.stack = "boot" /\ ~ cpu.on /\ ~ cpu.after_sti
      BY <1>3, <2>1 DEF Own
    <3>4. pc' <= 28 /\ ~ (pc' > 3)
      BY <2>1
    <3> QED BY <3>2, <3>3, <3>4 DEF Own
  <2>2. CASE pc = 2 /\ pc' = 3 /\ FillIdt
    <3>1. cpu' = cpu
      BY <2>2 DEF FillIdt, context
    <3>2. pc <= 28 /\ pc' <= 28 /\ ~ (pc > 3) /\ ~ (pc' > 3)
      BY <2>2
    <3> QED BY <1>3, <3>1, <3>2 DEF Own
  <2>3. CASE pc = 3 /\ pc' = 4 /\ cpu' = [cpu EXCEPT !.on = TRUE]
    <3>1. /\ cpu' \in Cpu /\ cpu'.cs = cpu.cs /\ cpu'.ds = cpu.ds /\ cpu'.ss = cpu.ss
          /\ cpu'.stack = cpu.stack /\ cpu'.on = TRUE /\ cpu'.after_sti = cpu.after_sti
      BY <1>3, <2>3 DEF Cpu
    <3>2. pc <= 28 /\ pc' <= 28 /\ pc' > 3
      BY <2>3
    <3> QED BY <1>3, <3>1, <3>2 DEF Own
  <2>4. CASE pc = 28 /\ pc' = 29 /\ toRing3
    <3>1. cpu' = [cpu EXCEPT !.cs = 27, !.ss = 35, !.ds = 35, !.on = TRUE]
      BY <2>4 DEF toRing3
    <3>2. /\ cpu' \in Cpu /\ cpu'.cs = 27 /\ cpu'.ds = 35 /\ cpu'.ss = 35
          /\ cpu'.stack = cpu.stack /\ cpu'.on = TRUE /\ cpu'.after_sti = cpu.after_sti
      BY <1>3, <3>1 DEF Cpu
    <3>3. ~ (pc' <= 28) /\ pc' > 3
      BY <2>4
    <3> QED BY <1>3, <3>2, <3>3 DEF Own
  <2> QED BY <2>1, <2>2, <2>3, <2>4
<1>5. pc' \in 1 .. 29
  OBVIOUS
<1> QED BY <1>1, <1>2, <1>4, <1>5, FrameKept

LEMMA Int40Keeps ==
  ASSUME pc \in 1 .. 29, Tables, Interrupted, Contexts, Stopped, Int40
  PROVE  Interrupted' /\ Contexts' /\ Stopped'
<1>1. /\ pc \in 3 .. 29 /\ (pc' = pc \/ (pc \in 4 .. 27 /\ pc' = pc + 1)) /\ frames = <<>>
      /\ Take(SystemCall, TRUE) /\ cause' = cause /\ ~ halted
  <2>1. pc > 3 /\ (pc' = pc \/ (pc \in 1 .. 27 /\ pc' = pc + 1))
    BY DEF Int40
  <2>2. pc \in 3 .. 29 /\ (pc' = pc \/ (pc \in 4 .. 27 /\ pc' = pc + 1))
    BY <2>1
  <2> QED BY <2>2 DEF Int40
<1>2. ~ (Dpl(idt[SystemCall].flags) < Ring)
  <2>1. pc > 2 /\ pc \in Int
    BY <1>1
  <2>2. idt[SystemCall] = [sel |-> 8, flags |-> 238] /\ Dpl(238) = 3
    BY <2>1, GatesAre
  <2>3. Ring \in {0, 3}
    BY RingIs
  <2>4. Dpl(idt[SystemCall].flags) = 3
    BY <2>2
  <2> QED BY <2>3, <2>4
<1>3. SystemCall = IF TRUE /\ Dpl(idt[SystemCall].flags) < Ring THEN 13 ELSE SystemCall
  BY <1>2
<1>4. /\ Interrupted' /\ Contexts' /\ frames' # <<>> /\ Top'.n = SystemCall /\ Top'.stage = "stub"
      /\ Len(frames') = Len(frames) + 1 /\ report' = report
      /\ \A i \in 1 .. Len(frames) : frames'[i] = frames[i]
  BY <1>1, <1>3, Pushed
<1>5. Len(frames') = 1 /\ Top' = frames'[1]
  BY <1>1, <1>4, FramesAre DEF Top, Last
<1>6. cause.what = "none"
  BY <1>1 DEF Stopped
<1>7. Stopped'
  BY <1>1, <1>4, <1>5, <1>6 DEF Stopped, halted, SystemCall
<1> QED BY <1>4, <1>7

LEMMA RequestKeeps ==
  ASSUME pc \in 1 .. 29, Tables, Interrupted, Contexts, Stopped, NEW n \in Irqs, Request(n)
  PROVE  Interrupted' /\ Contexts' /\ Stopped'
<1>1. pc' = pc /\ cpu.on /\ ~ cpu.after_sti /\ ~ halted /\ Take(n + 32, FALSE) /\ cause' = cause
  BY DEF Request, TakesInterrupts
<1>2. frames = <<>>
  BY <1>1 DEF Contexts
<1>3. pc \in 3 .. 29
  BY <1>1, <1>2 DEF Contexts, Own
<1> DEFINE m == n + 32
<1>4. m \in 32 .. 47
  BY DEF Irqs, Timer, Keyboard, Drive
<1>5. Take(m, FALSE)
  BY <1>1
<1> HIDE DEF m
<1>6. m \in 0 .. 47 \cup {SystemCall} /\ m = IF FALSE /\ Dpl(idt[m].flags) < Ring THEN 13 ELSE m
  BY <1>4
<1>7. /\ Interrupted' /\ Contexts' /\ frames' # <<>> /\ Top'.n = m /\ Top'.stage = "stub"
      /\ Len(frames') = Len(frames) + 1 /\ report' = report
      /\ \A i \in 1 .. Len(frames) : frames'[i] = frames[i]
  BY <1>1, <1>2, <1>3, <1>5, <1>6, Pushed
<1>8. Len(frames') = 1 /\ Top' = frames'[1]
  BY <1>2, <1>7, FramesAre DEF Top, Last
<1>9. cause.what = "none"
  BY <1>2 DEF Stopped
<1>10. Stopped'
  <2>1. \A i \in 1 .. Len(frames') : frames'[i].n >= 32
    <3>1. frames'[1].n = m /\ m >= 32
      BY <1>4, <1>7, <1>8
    <3>2. \A i \in 1 .. Len(frames') : i = 1
      BY <1>8
    <3> QED BY <3>1, <3>2
  <2>2. ~ halted'
    BY <1>1, <1>7 DEF halted
  <2>3. cause'.what = "none" /\ Top'.stage # "stopped"
    BY <1>1, <1>7, <1>9
  <2> QED BY <1>1, <2>1, <2>2, <2>3 DEF Stopped
<1> QED BY <1>7, <1>10

LEMMA AbortKeeps ==
  ASSUME pc \in 1 .. 29, Tables, Interrupted, Contexts, Stopped,
         NEW what \in DOMAIN Meaning, Abort(what)
  PROVE  Interrupted' /\ Contexts' /\ Stopped'
<1>1. /\ pc' = pc /\ ~ halted /\ cause.what = "none" /\ idt # <<>> /\ (frames = <<>> \/ InHandler)
      /\ cause' = [what |-> what, ring |-> Ring]
      /\ IF what = "page" THEN Take(PageFault, FALSE) ELSE Take(Raised[what], TRUE)
  BY DEF Abort, Fault
<1>2. pc \in 3 .. 29
  <2>1. ~ (pc <= 2)
    BY <1>1 DEF Tables
  <2> QED BY <2>1
<1>3. \A i \in 1 .. Len(frames) : frames[i].n >= 32
  BY <1>1 DEF Stopped
<1>4. Len(frames) # 2
  <2>1. Len(frames) = 2 => ~ (frames[2].n >= 32)
    <3>1. Len(frames) = 2 => frames[2].n < 32 /\ frames[2] \in Frame
      BY FramesAre DEF Interrupted
    <3> QED BY <3>1 DEF Frame, SystemCall
  <2> QED BY <1>3, <2>1
<1>5. frames = <<>> \/ (InHandler /\ Len(frames) = 1 /\ frames[1].n >= 32)
  BY <1>1, <1>3, <1>4, FramesAre
<1>6. Ring \in {0, 3}
  BY RingIs
<1> DEFINE m == IF what = "page" THEN 14 ELSE IF Ring = 3 THEN 13 ELSE Raised[what]
<1>7. m \in {13, 14, 19, 20, 22, 23, 24}
  BY DEF Meaning, Raised
<1>8. Number' = m
  BY <1>1 DEF Number, PageFault
<1>9. /\ Interrupted' /\ Contexts' /\ frames' # <<>> /\ Top'.n = m /\ Top'.stage = "stub"
      /\ Len(frames') = Len(frames) + 1 /\ report' = report
      /\ \A i \in 1 .. Len(frames) : frames'[i] = frames[i]
  <2>1. m \in 0 .. 47 \cup {SystemCall} /\ m < 32
    BY <1>7
  <2>2. CASE what = "page"
    <3>1. m = 14 /\ Take(14, FALSE)
      BY <1>1, <2>2 DEF PageFault
    <3> HIDE DEF m
    <3>2. Take(m, FALSE) /\ m = IF FALSE /\ Dpl(idt[m].flags) < Ring THEN 13 ELSE m
      BY <3>1
    <3> QED BY <1>1, <1>2, <1>5, <2>1, <3>2, Pushed
  <2>3. CASE what # "page"
    <3> DEFINE r == Raised[what]
    <3>1. r \in {19, 20, 22, 23, 24} /\ Take(r, TRUE) /\ m = IF Ring = 3 THEN 13 ELSE r
      <4>1. r \in {19, 20, 22, 23, 24}
        BY <2>3 DEF Meaning, Raised
      <4>2. Take(r, TRUE)
        BY <1>1, <2>3
      <4>3. m = IF Ring = 3 THEN 13 ELSE r
        BY <2>3
      <4> QED BY <4>1, <4>2, <4>3
    <3> HIDE DEF m, r
    <3>2. Dpl(idt[r].flags) = 0
      <4>1. pc > 2 /\ pc \in Int /\ r \in 0 .. 47
        BY <1>2, <3>1
      <4>2. idt[r] = [sel |-> 8, flags |-> 142] /\ Dpl(142) = 0
        BY <4>1, GatesAre
      <4> QED BY <4>2
    <3>3. m = IF TRUE /\ Dpl(idt[r].flags) < Ring THEN 13 ELSE r
      BY <1>6, <3>1, <3>2
    <3>4. r \in 0 .. 47 \cup {SystemCall}
      BY <3>1
    <3> QED BY <1>1, <1>2, <1>5, <2>1, <3>1, <3>3, <3>4, Pushed
  <2> QED BY <2>2, <2>3
<1>10. cause' \in [what : DOMAIN Meaning \cup {"none"}, ring : {0, 3}] /\ cause'.what # "none"
  BY <1>1, <1>6 DEF Meaning
<1> HIDE DEF m
<1>11. Stopped'
  BY <1>1, <1>8, <1>9, <1>10 DEF Stopped, halted
<1> QED BY <1>9, <1>11

\* A frame that changes its stage, but not to "stopped".
LEMMA StoppedReplaced ==
  ASSUME Interrupted, Stopped, frames # <<>>, Top.stage # "stopped", NEW f, f.n = Top.n,
         f.stage # "stopped", UNCHANGED <<cause, report>>, frames' # <<>>, Top' = f,
         Len(frames') = Len(frames), frames'[Len(frames)] = f,
         \A i \in 1 .. Len(frames) - 1 : frames'[i] = frames[i]
  PROVE  Stopped'
<1>1. Len(frames) \in {1, 2} /\ Top = frames[Len(frames)]
  BY FramesAre DEF Top, Last
<1>2. ASSUME NEW i \in 1 .. Len(frames') PROVE frames'[i].n = frames[i].n
  BY <1>1
<1>3. Number' = Number /\ ~ halted /\ ~ halted'
  BY DEF Number, Stopped, halted
<1> QED BY <1>2, <1>3 DEF Stopped

LEMMA ServedKeeps ==
  ASSUME pc \in 1 .. 29, Interrupted, Contexts, Stopped, Served
  PROVE  Interrupted' /\ Contexts' /\ Stopped'
<1>1. /\ pc' = pc /\ frames # <<>> /\ Top.stage = "handler" /\ Top.n >= 32 /\ cpu' = cpu
      /\ frames' = Append(Front(frames), [Top EXCEPT !.stage = "leave"])
      /\ UNCHANGED <<cause, report>>
  BY DEF Served, InHandler, HandlerReturns
<1>2. Top \in Frame /\ cpu \in Cpu /\ pc \in 3 .. 29 /\ Top.ds = Top.cpu.ds
  <2>1. Len(frames) \in 1 .. Len(frames) /\ Top = frames[Len(frames)]
    BY <1>1, FramesAre DEF Top, Last
  <2>2. Top \in Frame
    BY <2>1, FramesAre
  <2>3. Top.ds = Top.cpu.ds
    BY <1>1, <2>1 DEF Interrupted
  <2> QED BY <1>1, <2>2, <2>3 DEF Interrupted
<1> DEFINE f == [Top EXCEPT !.stage = "leave"]
<1>3. f \in Frame /\ f.n = Top.n /\ f.cpu = Top.cpu /\ f.ds = Top.ds /\ f.stage = "leave"
      /\ ~ (f.n < 32)
  <2>1. f \in Frame /\ f.n = Top.n /\ f.cpu = Top.cpu /\ f.ds = Top.ds /\ f.stage = "leave"
    BY <1>2 DEF Frame
  <2>2. Top.n \in Int
    BY <1>2, FrameNumber
  <2> HIDE DEF f
  <2> QED BY <1>1, <2>1, <2>2
<1>4. frames' = Append(Front(frames), f)
  BY <1>1
<1>5. cpu.ds = 16 /\ ~ cpu.on /\ ~ cpu.after_sti
  BY <1>1 DEF Contexts
<1> HIDE DEF f
<1>6. /\ Interrupted' /\ Contexts' /\ frames' # <<>> /\ Top' = f
      /\ Len(frames') = Len(frames) /\ frames'[Len(frames)] = f
      /\ \A i \in 1 .. Len(frames) - 1 : frames'[i] = frames[i]
  BY <1>1, <1>2, <1>3, <1>4, <1>5, Replaced
<1>7. Stopped'
  BY <1>1, <1>3, <1>6, StoppedReplaced
<1> QED BY <1>6, <1>7

LEMMA EnterKeeps ==
  ASSUME pc \in 1 .. 29, pc' = pc, Interrupted, Contexts, Stopped, EnterStub
  PROVE  Interrupted' /\ Contexts' /\ Stopped'
<1>1. /\ frames # <<>> /\ Top.stage = "stub"
      /\ frames' = Append(Front(frames), [Top EXCEPT !.ds = cpu.ds, !.stage = "handler"])
      /\ cpu' = [cpu EXCEPT !.ds = 16, !.on = @ /\ Top.n = SystemCall]
      /\ UNCHANGED <<cause, report>>
  BY DEF EnterStub
<1>2. Top \in Frame /\ cpu \in Cpu /\ pc \in 3 .. 29 /\ Len(frames) \in {1, 2}
      /\ Top = frames[Len(frames)] /\ Inner(cpu)
  <2>1. Len(frames) \in 1 .. Len(frames) /\ Top = frames[Len(frames)] /\ Len(frames) \in {1, 2}
    BY <1>1, FramesAre DEF Top, Last
  <2>2. Top \in Frame
    BY <2>1, FramesAre
  <2>3. cpu \in Cpu /\ pc > 2
    BY <1>1 DEF Interrupted
  <2>4. Inner(cpu)
    BY <1>1 DEF Contexts
  <2>5. pc \in 3 .. 29
    BY <2>3
  <2> QED BY <2>1, <2>2, <2>3, <2>4, <2>5
<1>3. cpu.ds = Top.cpu.ds /\ cpu.on = FALSE /\ ~ cpu.after_sti
  <2>1. cpu.ds = Top.cpu.ds /\ ~ cpu.on /\ ~ cpu.after_sti
    BY <1>1 DEF Contexts
  <2> QED BY <1>2, <2>1 DEF Cpu
<1> DEFINE f == [Top EXCEPT !.ds = cpu.ds, !.stage = "handler"]
<1>4. /\ f \in Frame /\ f.n = Top.n /\ f.cpu = Top.cpu /\ f.ds = f.cpu.ds
      /\ f.stage = "handler"
  BY <1>2, <1>3 DEF Frame, Cpu
<1>5. frames' = Append(Front(frames), f)
  BY <1>1
<1> HIDE DEF f
<1>6. /\ cpu' \in Cpu /\ cpu'.cs = cpu.cs /\ cpu'.ss = cpu.ss /\ cpu'.stack = cpu.stack
      /\ cpu'.ds = 16 /\ cpu'.on = FALSE /\ cpu'.after_sti = cpu.after_sti
  BY <1>1, <1>2, <1>3 DEF Cpu
<1>7. /\ Interrupted' /\ Contexts' /\ frames' # <<>> /\ Top' = f
      /\ Len(frames') = Len(frames) /\ frames'[Len(frames)] = f
      /\ \A i \in 1 .. Len(frames) - 1 : frames'[i] = frames[i]
  BY <1>1, <1>2, <1>3, <1>4, <1>5, <1>6, Replaced
<1>8. Stopped'
  BY <1>1, <1>4, <1>7, StoppedReplaced
<1> QED BY <1>7, <1>8

LEMMA LeaveKeeps ==
  ASSUME pc \in 1 .. 29, pc' = pc, Interrupted, Contexts, Stopped, LeaveStub
  PROVE  Interrupted' /\ Contexts' /\ Stopped'
<1>1. /\ frames # <<>> /\ Top.stage = "leave"
      /\ frames' = Append(Front(frames), [Top EXCEPT !.stage = "iret"])
      /\ cpu' = [cpu EXCEPT !.ds = Top.ds, !.on = @ \/ Top.n # SystemCall,
                            !.after_sti = Top.n # SystemCall]
      /\ UNCHANGED <<cause, report>>
  BY DEF LeaveStub
<1>2. Top \in Frame /\ cpu \in Cpu /\ pc \in 3 .. 29 /\ Len(frames) \in {1, 2}
      /\ Top = frames[Len(frames)] /\ Inner(cpu)
  <2>1. Len(frames) \in 1 .. Len(frames) /\ Top = frames[Len(frames)] /\ Len(frames) \in {1, 2}
    BY <1>1, FramesAre DEF Top, Last
  <2>2. Top \in Frame
    BY <2>1, FramesAre
  <2>3. cpu \in Cpu /\ pc > 2
    BY <1>1 DEF Interrupted
  <2>4. Inner(cpu)
    BY <1>1 DEF Contexts
  <2>5. pc \in 3 .. 29
    BY <2>3
  <2> QED BY <2>1, <2>2, <2>3, <2>4, <2>5
<1>3. Top.ds = Top.cpu.ds /\ cpu.on = FALSE /\ ~ cpu.after_sti /\ ~ (Top.n < 32)
  <2>1. ~ cpu.on /\ ~ cpu.after_sti
    BY <1>1 DEF Contexts
  <2>2. Len(frames) \in 1 .. Len(frames)
    BY <1>2
  <2>3. Top.ds = Top.cpu.ds /\ ~ (Top.n < 32)
    BY <1>1, <1>2, <2>2 DEF Interrupted
  <2> QED BY <1>2, <2>1, <2>3 DEF Cpu
<1> DEFINE f == [Top EXCEPT !.stage = "iret"]
<1>4. /\ f \in Frame /\ f.n = Top.n /\ f.cpu = Top.cpu /\ f.ds = f.cpu.ds
      /\ f.stage = "iret"
  BY <1>2, <1>3 DEF Frame
<1>5. frames' = Append(Front(frames), f)
  BY <1>1
<1>6. Top.n \in Int /\ Top.n >= 32
  <2>1. Top.n \in Int
    BY <1>2, FrameNumber
  <2> QED BY <1>3, <2>1
<1> HIDE DEF f
<1>7. /\ cpu' \in Cpu /\ cpu'.cs = cpu.cs /\ cpu'.ss = cpu.ss /\ cpu'.stack = cpu.stack
      /\ cpu'.ds = Top.cpu.ds /\ (cpu'.on <=> Top.n # SystemCall)
      /\ (cpu'.after_sti <=> Top.n # SystemCall)
  <2>1. Top.ds \in {16, 35} /\ (Top.n # SystemCall) \in BOOLEAN
        /\ (cpu.on \/ Top.n # SystemCall) \in BOOLEAN
    BY <1>2, <1>3 DEF Frame, Cpu
  <2> DEFINE yes == Top.n # SystemCall
             on == cpu.on \/ Top.n # SystemCall
  <2>2. cpu' = [cpu EXCEPT !.ds = Top.ds, !.on = on, !.after_sti = yes]
    BY <1>1, Zenon
  <2>3. on <=> yes
    BY <1>3
  <2> HIDE DEF yes, on
  <2>4. yes \in BOOLEAN /\ on \in BOOLEAN
    BY <2>1 DEF yes, on
  <2>5. /\ cpu' \in Cpu /\ cpu'.cs = cpu.cs /\ cpu'.ss = cpu.ss /\ cpu'.stack = cpu.stack
        /\ cpu'.ds = Top.ds /\ cpu'.on = on /\ cpu'.after_sti = yes
    BY <1>2, <2>1, <2>2, <2>4 DEF Cpu
  <2> QED BY <1>3, <2>3, <2>5 DEF yes
<1>8. /\ Interrupted' /\ Contexts' /\ frames' # <<>> /\ Top' = f
      /\ Len(frames') = Len(frames) /\ frames'[Len(frames)] = f
      /\ \A i \in 1 .. Len(frames) - 1 : frames'[i] = frames[i]
  BY <1>1, <1>2, <1>3, <1>4, <1>5, <1>6, <1>7, Replaced
<1>9. Stopped'
  BY <1>1, <1>4, <1>8, StoppedReplaced
<1> QED BY <1>8, <1>9

LEMMA HaltKeeps ==
  ASSUME pc \in 1 .. 29, pc' = pc, Interrupted, Contexts, Stopped, isrHandler
  PROVE  Interrupted' /\ Contexts' /\ Stopped'
<1>1. /\ frames # <<>> /\ Top.stage = "handler" /\ Top.n < 32
      /\ frames' = Append(Front(frames), [Top EXCEPT !.stage = "stopped"])
      /\ cpu' = cpu /\ cause' = cause /\ report' = exception_messages[Top.n + 1]
  BY DEF isrHandler, InHandler
<1>2. Top \in Frame /\ cpu \in Cpu /\ pc \in 3 .. 29 /\ Len(frames) \in {1, 2}
      /\ Top = frames[Len(frames)] /\ Inner(cpu)
  <2>1. Len(frames) \in 1 .. Len(frames) /\ Top = frames[Len(frames)] /\ Len(frames) \in {1, 2}
    BY <1>1, FramesAre DEF Top, Last
  <2>2. Top \in Frame
    BY <2>1, FramesAre
  <2>3. cpu \in Cpu /\ pc > 2
    BY <1>1 DEF Interrupted
  <2>4. Inner(cpu)
    BY <1>1 DEF Contexts
  <2>5. pc \in 3 .. 29
    BY <2>3
  <2> QED BY <2>1, <2>2, <2>3, <2>4, <2>5
<1>3. Top.ds = Top.cpu.ds /\ cpu.ds = 16 /\ ~ cpu.on /\ ~ cpu.after_sti
  <2>1. Len(frames) \in 1 .. Len(frames)
    BY <1>2
  <2>2. Top.ds = Top.cpu.ds
    BY <1>1, <1>2, <2>1 DEF Interrupted
  <2> QED BY <1>1, <2>2 DEF Contexts
<1> DEFINE f == [Top EXCEPT !.stage = "stopped"]
<1>4. /\ f \in Frame /\ f.n = Top.n /\ f.cpu = Top.cpu /\ f.ds = f.cpu.ds
      /\ f.stage = "stopped"
  BY <1>2, <1>3 DEF Frame
<1>5. frames' = Append(Front(frames), f)
  BY <1>1
<1> HIDE DEF f
<1>6. /\ Interrupted' /\ Contexts' /\ frames' # <<>> /\ Top' = f
      /\ Len(frames') = Len(frames) /\ frames'[Len(frames)] = f
      /\ \A i \in 1 .. Len(frames) - 1 : frames'[i] = frames[i]
  BY <1>1, <1>2, <1>3, <1>4, <1>5, Replaced
<1>7. cause.what # "none"
  <2>1. Len(frames) \in 1 .. Len(frames) /\ Top.n \in Int
    BY <1>2, FrameNumber
  <2>2. ~ (Top.n >= 32)
    <3> DEFINE n == Top.n
    <3>1. n \in Int /\ n < 32
      BY <1>1, <2>1
    <3> HIDE DEF n
    <3>2. ~ (n >= 32)
      BY <3>1
    <3> QED BY <3>2 DEF n
  <2> QED BY <1>2, <2>1, <2>2 DEF Stopped
<1>8. Top.n = Number /\ report' = exception_messages[Number + 1] /\ report' # "none"
  <2>1. Top.n = Number
    BY <1>7 DEF Stopped
  <2> QED BY <1>1, <1>7, <2>1, NumberIs
<1>9. Stopped'
  <2>1. Number' = Number /\ halted'
    BY <1>1, <1>8 DEF Number, halted
  <2> QED BY <1>1, <1>4, <1>6, <1>7, <1>8, <2>1 DEF Stopped
<1> QED BY <1>6, <1>9

\* The way out: nothing is left of the interrupt.
LEMMA IretRestores ==
  ASSUME pc \in 1 .. 29, Interrupted, Contexts, Iret
  PROVE  /\ Len(frames) = 1 /\ frames' = <<>> /\ cpu' = Top.cpu /\ Top = frames[1]
         /\ Top.n >= 32 /\ cpu' \in Cpu
<1>1. /\ frames # <<>> /\ Top.stage = "iret" /\ frames' = Front(frames)
      /\ cpu' = [Top.cpu EXCEPT !.ds = cpu.ds]
  BY DEF Iret
<1>2. Top \in Frame /\ cpu \in Cpu /\ Len(frames) \in {1, 2}
      /\ Top = frames[Len(frames)] /\ Inner(cpu)
  <2>1. Len(frames) \in 1 .. Len(frames) /\ Top = frames[Len(frames)] /\ Len(frames) \in {1, 2}
    BY <1>1, FramesAre DEF Top, Last
  <2>2. Top \in Frame
    BY <2>1, FramesAre
  <2>3. cpu \in Cpu /\ pc > 2
    BY <1>1 DEF Interrupted
  <2>4. Inner(cpu)
    BY <1>1 DEF Contexts
  <2>5. pc \in 3 .. 29
    BY <2>3
  <2> QED BY <2>1, <2>2, <2>3, <2>4, <2>5
<1>3. ~ (Top.n < 32) /\ Top.n \in Int /\ Top.n >= 32
  <2>1. Len(frames) \in 1 .. Len(frames)
    BY <1>2
  <2>2. Top.n \in Int
    BY <1>2, FrameNumber
  <2>3. ~ (Top.n < 32)
    BY <1>1, <1>2, <2>1 DEF Interrupted
  <2> QED BY <2>2, <2>3
<1>4. Len(frames) = 1
  BY <1>2, <1>3 DEF Interrupted
<1>5. frames' = <<>>
  <2>1. frames' \in Seq(Frame) /\ Len(frames') = 0
    BY <1>1, <1>4, FramesAre, WithoutTop
  <2> QED BY <2>1, EmptySeq
<1>6. cpu.ds = Top.cpu.ds
  BY <1>1 DEF Contexts
<1>7. Top.cpu \in Cpu
  BY <1>2 DEF Frame
<1>8. cpu' = Top.cpu
  BY <1>1, <1>6, <1>7 DEF Cpu
<1> QED BY <1>2, <1>3, <1>4, <1>5, <1>7, <1>8

LEMMA IretKeeps ==
  ASSUME pc \in 1 .. 29, pc' = pc, Interrupted, Contexts, Stopped, Iret
  PROVE  Interrupted' /\ Contexts' /\ Stopped'
<1>1. /\ Len(frames) = 1 /\ frames' = <<>> /\ cpu' = Top.cpu /\ Top = frames[1] /\ Top.n >= 32
      /\ cpu' \in Cpu /\ frames # <<>>
  BY IretRestores DEF Iret
<1>2. UNCHANGED <<cause, report>> /\ Top.stage = "iret"
  BY DEF Iret
<1>3. Len(frames') = 0
  BY <1>1
<1>4. Interrupted'
  BY <1>1, <1>3 DEF Interrupted
<1>5. Own(cpu)'
  <2>1. Own(frames[1].cpu)
    BY <1>1 DEF Contexts
  <2> QED BY <1>1, <2>1 DEF Own
<1>6. Contexts'
  BY <1>1, <1>3, <1>5 DEF Contexts
<1>7. cause.what = "none"
  <2>1. cause.what # "none" => Top.n \in {13, 14, 19, 20, 22, 23, 24}
    BY NumberIs DEF Stopped
  <2> QED BY <1>1, <2>1
<1>8. ~ halted /\ ~ halted'
  BY <1>2, <1>7 DEF Stopped, halted
<1>9. Stopped'
  BY <1>1, <1>2, <1>3, <1>7, <1>8 DEF Stopped
<1> QED BY <1>4, <1>6, <1>9

LEMMA TrapsKept ==
  ASSUME pc \in 1 .. 29, Tables, Interrupted, Contexts, Stopped, [Next]_vars
  PROVE  Interrupted' /\ Contexts' /\ Stopped'
<1>1. CASE Code
  BY <1>1, CodeKeeps
<1>2. CASE Int40
  BY <1>2, Int40Keeps
<1>3. CASE Served
  BY <1>3, ServedKeeps
<1>4. ASSUME NEW n \in Irqs, Request(n) PROVE Interrupted' /\ Contexts' /\ Stopped'
  BY <1>4, RequestKeeps
<1>5. ASSUME NEW what \in DOMAIN Meaning, Abort(what) PROVE Interrupted' /\ Contexts' /\ Stopped'
  BY <1>5, AbortKeeps
<1>6. CASE pc' = pc /\ (EnterStub \/ LeaveStub \/ Iret \/ isrHandler)
  BY <1>6, EnterKeeps, LeaveKeeps, IretKeeps, HaltKeeps
<1>7. CASE /\ frames = <<>>
           /\ \/ pc = 1 /\ pc' = 2 /\ gdt_init
              \/ pc = 2 /\ pc' = 3 /\ FillIdt
              \/ pc = 3 /\ pc' = 4 /\ cpu' = [cpu EXCEPT !.on = TRUE]
                                   /\ UNCHANGED <<tables, frames, cause, report>>
              \/ pc = 28 /\ pc' = 29 /\ toRing3
  BY <1>7, StartKeeps
<1> QED BY <1>1, <1>2, <1>3, <1>4, <1>5, <1>6, <1>7, TrapMoves

-----------------------------------------------------------------------------
(* The invariant, and what follows from it.                                *)
LEMMA InvInit == Init => Inv
<1> SUFFICES ASSUME Init PROVE Inv
  OBVIOUS
<1>1. /\ pc = 1 /\ syscall_handlers = <<>> /\ call = NoCall /\ disk_id = 1 /\ mounted = 0
      /\ gdt = <<>> /\ idt = <<>> /\ frames = <<>> /\ report = "none"
      /\ cpu = [cs |-> 8, ss |-> 16, ds |-> 16, stack |-> "boot", on |-> FALSE,
                after_sti |-> FALSE]
      /\ cause = [what |-> "none", ring |-> 0]
  BY DEF Init, TrapInit
<1>2. Registered
  <2>1. syscall_handlers \in Seq(Functions) /\ Len(syscall_handlers) = 0
    BY <1>1
  <2>2. ASSUME NEW k \in 1 .. 13 PROVE ~ (k <= 0) /\ ~ (Order[k] < pc)
    <3>1. Order[k] \in 1 .. 28 /\ pc = 1
      BY <1>1, Increasing
    <3> QED BY <3>1
  <2> QED BY <2>1, <2>2 DEF Registered
<1>3. Called
  BY <1>1 DEF NoCall, Called, CallsReachHandlers
<1>4. Searched
  <2>1. disks \in Seq({"formatted", "blank", "garbage"})
    BY BootAssumption DEF Init
  <2> QED BY <1>1, <2>1 DEF Searched
<1>5. Tables
  BY <1>1 DEF Tables
<1>6. cpu \in Cpu /\ Own(cpu) /\ Len(frames) = 0
  BY <1>1 DEF Cpu, Own
<1>7. Interrupted /\ Contexts
  BY <1>1, <1>6 DEF Interrupted, Contexts
<1>8. Stopped
  BY <1>1, <1>6 DEF Stopped, halted
<1> QED BY <1>1, <1>2, <1>3, <1>4, <1>5, <1>7, <1>8 DEF Inv

LEMMA InvNext == Inv /\ [Next]_vars => Inv'
<1> SUFFICES ASSUME Inv, [Next]_vars PROVE Inv'
  OBVIOUS
<1>1. /\ pc \in 1 .. 29 /\ Registered /\ Called /\ Searched /\ Tables /\ Interrupted /\ Contexts
      /\ Stopped
  BY DEF Inv
<1>2. pc' \in 1 .. 29
  BY <1>1, PcMoves
<1>3. Registered' /\ Called' /\ Searched'
  BY <1>1, RegisteredKept, CalledKept, SearchedKept
<1>4. Tables' /\ Interrupted' /\ Contexts' /\ Stopped'
  BY <1>1, TablesKept, TrapsKept
<1> QED BY <1>2, <1>3, <1>4 DEF Inv

\* The parts above hold together, wherever kernelMain, a handler or the
\* program is and however interrupts, calls and faults come in between.
THEOREM BootInvariant == Spec => []Inv
<1> QED BY InvInit, InvNext, PTL DEF Spec

\* Every int 0x40 reaches the function that __syscalls.hpp means: five files
\* register their functions in the order of the numbers, and none is called
\* before its registration.
THEOREM CallsAreServed == Spec => []CallsReachHandlers
<1>1. Inv => CallsReachHandlers
  BY DEF Inv, Called
<1> QED BY <1>1, BootInvariant, PTL

\* Whatever the disks hold, and however many there are, fs::init has mounted
\* the first that the builder has made when kernelMain is over, and nothing
\* only where there is none.
THEOREM DiskIsTheFirst == Spec => []FirstDiskMounted
<1>1. Inv => FirstDiskMounted
  <2> DEFINE made == {d \in DOMAIN disks : disks[d] = "formatted"}
  <2> SUFFICES ASSUME Inv, ~ InKernel
               PROVE  IF made = {} THEN mounted = 0
                      ELSE mounted \in made /\ \A d \in made : mounted <= d
    BY DEF FirstDiskMounted
  <2>1. pc > 25
    BY Places DEF Inv, InKernel
  <2>2. /\ DOMAIN disks = 1 .. Len(disks) /\ Len(disks) \in Nat
        /\ disk_id \in 1 .. Len(disks) + 1 /\ mounted \in Nat
        /\ mounted # 0 \/ disk_id = Len(disks) + 1
        /\ mounted # 0 => disk_id = mounted + 1 /\ disks[mounted] = "formatted"
    BY <2>1 DEF Inv, Searched
  <2>3. ASSUME NEW d \in made, d < disk_id PROVE d = mounted
    <3>1. d \in 1 .. disk_id - 1 /\ disks[d] = "formatted"
      BY <2>2, <2>3
    <3> QED BY <3>1 DEF Inv, Searched
  <2>4. CASE mounted # 0
    <3>1. mounted \in made
      BY <2>2, <2>4
    <3>2. ASSUME NEW d \in made PROVE mounted <= d
      <4>1. d \in Nat
        BY <2>2
      <4> QED BY <2>2, <2>3, <2>4, <4>1
    <3> QED BY <3>1, <3>2
  <2>5. CASE mounted = 0
    <3>1. ASSUME NEW d \in made PROVE FALSE
      <4>1. d \in Nat /\ d # mounted /\ d < disk_id
        BY <2>2, <2>5
      <4> QED BY <2>3, <4>1
    <3> QED BY <2>5, <3>1
  <2> QED BY <2>4, <2>5
<1> QED BY <1>1, BootInvariant, PTL

\* In any order of interrupts, calls and faults the code that runs has the
\* segments of its ring, and a handler never works on the program's stack.
THEOREM RingsAreRight == Spec => []RightRing
<1>1. Inv => RightRing
  <2> SUFFICES ASSUME Inv, gdt # <<>>
               PROVE  /\ Loaded(cpu.cs, "code") /\ Loaded(cpu.ss, "data") /\ cpu.ss % 4 = Ring
                      /\ frames = <<>> \/ InHandler => Loaded(cpu.ds, "data") /\ cpu.ds % 4 = Ring
                      /\ Ring = (IF ~ InKernel /\ frames = <<>> THEN 3 ELSE 0)
                      /\ Ring = 3 => cpu.on
                      /\ \A i \in DOMAIN frames :
                           /\ frames[i].cpu.cs % 4 = 3 => cpu.stack = tss.esp0 /\ i = 1
                           /\ i > 1 => frames[i].n < 32
    BY DEF RightRing, RingsKept
  <2>1. /\ pc \in 1 .. 29 /\ Tables /\ Interrupted /\ Contexts
        /\ Loaded(8, "code") /\ Loaded(16, "data") /\ Loaded(27, "code") /\ Loaded(35, "data")
    BY DEF Inv, Tables
  <2>2. ~ InKernel <=> pc = 29
    <3>1. Len(kernelMain) = 28
      BY Places
    <3> QED BY <2>1, <3>1 DEF InKernel
  <2>3. 8 % 4 = 0 /\ 16 % 4 = 0 /\ 27 % 4 = 3 /\ 35 % 4 = 3
    OBVIOUS
  <2>4. Ring \in {0, 3} /\ (Ring = 3 <=> ~ InKernel /\ frames = <<>>)
    BY <2>1, <2>2, RingIs
  <2>5. CASE frames = <<>>
    <3>1. Own(cpu) /\ DOMAIN frames = {}
      BY <2>1, <2>5 DEF Contexts
    <3> QED BY <2>1, <2>3, <2>4, <3>1, <2>5 DEF Own, Ring
  <2>6. CASE frames # <<>>
    <3>1. Inner(cpu) /\ (InHandler => cpu.ds = 16)
      BY <2>1, <2>6 DEF Contexts, InHandler
    <3>2. /\ Loaded(cpu.cs, "code") /\ Loaded(cpu.ss, "data") /\ cpu.ss % 4 = Ring
          /\ InHandler => Loaded(cpu.ds, "data") /\ cpu.ds % 4 = Ring
      BY <2>1, <2>3, <3>1 DEF Inner, Ring
    <3>3. ASSUME NEW i \in DOMAIN frames
          PROVE  /\ frames[i].cpu.cs % 4 = 3 => cpu.stack = tss.esp0 /\ i = 1
                 /\ i > 1 => frames[i].n < 32
      <4>1. Len(frames) \in {1, 2} /\ i \in 1 .. Len(frames)
        BY <2>1, <2>6, FramesAre
      <4>2. CASE i = 1
        <5>1. frames[1].cpu.cs % 4 = 3 => pc = 29
          BY <2>1, <2>3, <2>6 DEF Contexts, Own
        <5>2. pc = 29 => cpu.stack = "low" /\ tss.esp0 = "low"
          BY <2>1, <3>1 DEF Inner, Tables
        <5> QED BY <4>2, <5>1, <5>2
      <4>3. CASE i = 2 /\ Len(frames) = 2
        <5>1. frames[2].cpu.cs = 8 /\ frames[2].n < 32
          BY <2>1, <4>3 DEF Contexts, Inner, Interrupted
        <5> QED BY <2>3, <4>3, <5>1
      <4> QED BY <4>1, <4>2, <4>3
    <3> QED BY <2>4, <2>6, <3>2, <3>3
  <2> QED BY <2>5, <2>6
<1> QED BY <1>1, BootInvariant, PTL

\* When the machine has stopped, isrHandler has printed the message that the
\* fault means, although the stubs, the table and int are in three files.
THEOREM FaultsAreReported == Spec => []FaultsReported
<1>1. Inv => FaultsReported
  <2> SUFFICES ASSUME Inv, halted
               PROVE  report = IF cause.ring = 3 /\ cause.what # "page"
                               THEN "General Protection Fault" ELSE Meaning[cause.what]
    BY DEF FaultsReported
  <2>1. cause.what \in DOMAIN Meaning /\ report = exception_messages[Number + 1]
    BY DEF Inv, Stopped
  <2>2. CASE cause.what = "page"
    <3>1. Number + 1 = 15 /\ Meaning[cause.what] = "Page Fault"
      BY <2>2 DEF Number, PageFault, Meaning
    <3>2. exception_messages[15] = "Page Fault"
      BY DEF exception_messages
    <3>3. exception_messages[Number + 1] = exception_messages[15]
      BY <3>1
    <3> QED BY <2>1, <2>2, <3>1, <3>2, <3>3, Zenon
  <2>3. CASE cause.what # "page" /\ cause.ring = 3
    <3>1. Number + 1 = 14
      BY <2>3 DEF Number
    <3>2. exception_messages[14] = "General Protection Fault"
      BY DEF exception_messages
    <3>3. exception_messages[Number + 1] = exception_messages[14]
      BY <3>1
    <3> QED BY <2>1, <2>3, <3>2, <3>3, Zenon
  <2>4. CASE cause.what # "page" /\ cause.ring # 3
    <3>1. report = exception_messages[Raised[cause.what] + 1]
      BY <2>1, <2>4 DEF Number
    <3>2. exception_messages[20] = "Heap Corruption"
      BY DEF exception_messages
    <3>3. exception_messages[23] = "Freeing Freed Memory"
      BY DEF exception_messages
    <3>4. exception_messages[21] = "Frame not free on identity map"
      BY DEF exception_messages
    <3>5. exception_messages[24] = "Cannot Find Free Region"
      BY DEF exception_messages
    <3>6. exception_messages[25] = "Ran out of free frames"
      BY DEF exception_messages
    <3>7. exception_messages[Raised[cause.what] + 1] = Meaning[cause.what]
      <4>1. cause.what \in {"corrupted", "freedTwice", "frameTaken", "noRegion", "noFrames"}
        BY <2>1, <2>4 DEF Meaning
      <4>2. /\ Raised["corrupted"] + 1 = 20 /\ Raised["freedTwice"] + 1 = 23
            /\ Raised["frameTaken"] + 1 = 21 /\ Raised["noRegion"] + 1 = 24
            /\ Raised["noFrames"] + 1 = 25
        BY DEF Raised
      <4>3. /\ Meaning["corrupted"] = "Heap Corruption"
            /\ Meaning["freedTwice"] = "Freeing Freed Memory"
            /\ Meaning["frameTaken"] = "Frame not free on identity map"
            /\ Meaning["noRegion"] = "Cannot Find Free Region"
            /\ Meaning["noFrames"] = "Ran out of free frames"
        BY DEF Meaning
      <4> QED BY <4>1, <4>2, <4>3, <3>2, <3>3, <3>4, <3>5, <3>6
    <3> QED BY <2>4, <3>1, <3>7
  <2> QED BY <2>2, <2>3, <2>4
<1> QED BY <1>1, BootInvariant, PTL

\* An iret brings back the segments, the stack and the interrupt flag of
\* whatever was interrupted, kernelMain or the program.
THEOREM ContextComesBack == Spec => ContextRestored
<1>1. Inv /\ [Next]_vars => [Len(frames') < Len(frames) => cpu' = Last(frames).cpu]_traps
  <2> SUFFICES ASSUME Inv, [Next]_vars, Len(frames') < Len(frames)
               PROVE  cpu' = Last(frames).cpu
    OBVIOUS
  <2>1. pc \in 1 .. 29 /\ Tables /\ Interrupted /\ Contexts /\ Stopped
    BY DEF Inv
  <2>2. Len(frames) \in {0, 1, 2} /\ (frames = <<>> <=> Len(frames) = 0)
    BY <2>1, FramesAre
  <2>3. ASSUME NEW f, frames' = Append(frames, f) \/ frames' = Append(Front(frames), f)
        PROVE  FALSE
    <3>1. frames \in Seq(Frame)
      BY <2>1 DEF Interrupted
    <3>2. CASE frames' = Append(frames, f)
      <4>1. Len(frames') = Len(frames) + 1
        BY <3>1, <3>2
      <4> QED BY <2>2, <4>1
    <3>3. CASE frames' = Append(Front(frames), f) /\ frames # <<>>
      <4>1. Front(frames) \in Seq(Frame) /\ Len(Front(frames)) = Len(frames) - 1
        BY <3>1, <3>3, WithoutTop
      <4>2. Len(frames') = Len(frames) - 1 + 1
        BY <3>3, <4>1
      <4> QED BY <2>2, <4>2
    <3>4. Len(frames') \in Nat
      <4>1. Interrupted'
        BY <2>1, TrapsKept
      <4> QED BY <4>1, LenProperties DEF Interrupted
    <3> QED BY <2>2, <2>3, <3>2, <3>3, <3>4
  <2>4. CASE UNCHANGED frames
    BY <2>2, <2>4
  <2>5. CASE Iret
    BY <2>1, <2>5, IretRestores DEF Top
  <2>6. CASE Code \/ gdt_init \/ FillIdt \/ toRing3
    BY <2>4, <2>6 DEF Code, traps, context, gdt_init, FillIdt, toRing3
  <2>7. CASE Int40 \/ Served \/ (\E n \in Irqs : Request(n))
    BY <2>3, <2>7 DEF Int40, Served, HandlerReturns, Request, Take
  <2>8. CASE \E what \in DOMAIN Meaning : Abort(what)
    BY <2>3, <2>8 DEF Abort, Fault, Take
  <2>9. CASE EnterStub \/ LeaveStub \/ isrHandler
    BY <2>3, <2>9 DEF EnterStub, LeaveStub, isrHandler
  <2> QED BY <2>1, <2>4, <2>5, <2>6, <2>7, <2>8, <2>9, TrapMoves
<1> QED BY <1>1, BootInvariant, PTL DEF Spec, ContextRestored
==============================================================================
