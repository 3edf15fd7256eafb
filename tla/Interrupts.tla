----------------------------- MODULE Interrupts ------------------------------
(***************************************************************************)
(* How the kernel is interrupted: the two 8259 controllers (i8259.c), the  *)
(* boot sequence that makes the machine ready for them (kernel.c,          *)
(* naman_page.c, idt.c), and the bodies of the three handlers (pit.c,      *)
(* keyboard.c, rtc.c), seen only as far as they raise and lower the        *)
(* interrupt flag, acknowledge, return or leave for another program.       *)
(*                                                                         *)
(* An interrupt handler here need not return: pit_handler and, through     *)
(* sys_halt, keyboard_handler go on in another program and leave on the    *)
(* kernel stacks whatever they had interrupted.                            *)
(***************************************************************************)
EXTENDS Integers, Sequences, FiniteSets

CONSTANT MaxFrames   (* the handlers that may be nested at a time            *)

ASSUME InterruptsAssumption == MaxFrames \in Nat \ {0}

PIT_IV      == 0
KEYBOARD_IV == 1
Cascade     == 2   (* the master's line the slave is on *)
RTC_IV      == 8
Irq == {PIT_IV, KEYBOARD_IV, RTC_IV}

VARIABLES
  irr,              (* the requests the controllers have latched               *)
  isr,              (* the requests in service                                 *)
  mask,             (* master_mask and slave_mask                              *)
  regC,             (* the clock holds its line until register C is read       *)
  enabled,          (* the processor's interrupt flag                          *)
  frames,           (* the interrupt handlers on the stack, the newest last    *)
  base,             (* what they have interrupted: "boot", "user", "critical"  *)
                    (* (a system call between cli and sti) or "stuck" (an      *)
                    (* exception that loops for ever)                          *)
  step,             (* the boot steps done                                     *)
  ticks,            (* the terminals pit_handler has served; 4: t_init[0] = 2  *)
  scheduling_flag,
  lost              (* a clock handler was left before it acknowledged         *)

pic  == <<irr, isr, mask, regC>>
vars == <<pic, enabled, frames, base, step, ticks, scheduling_flag, lost>>

-----------------------------------------------------------------------------
(* The 8259s.  A request is delivered when nothing of its own level or of  *)
(* a higher one is in service; the slave's requests have the level of the  *)
(* master's line 2.                                                        *)
Level(i) == IF i >= 8 THEN Cascade ELSE i

InService(i) == IF i >= 8 THEN {i, Cascade} ELSE {i}

Deliverable(i) == /\ i \in irr \ mask
                  /\ \A j \in isr : Level(i) < Level(j)
                  /\ \A j \in irr \ mask : Level(i) <= Level(j)

send_eoi_slave(i) == isr' = isr \ {i}
send_eoi(i) == isr' = isr \ InService(i)

-----------------------------------------------------------------------------
(* The steps of entry() that matter here, in the order kernel.c takes them:*)
(* each init_ of a device ends or begins with enable_irq, and rtc_open is  *)
(* where interrupts are first enabled, by the sti of its rtc_write.        *)
BootOrderIdtLate == <<"i8259_init", "page_init", "init_rtc", "rtc_open", "init_idt",
                      "init_keyboard", "init_pit", "sti", "terminal_init">>
BootOrder == <<"i8259_init", "page_init", "init_idt", "init_rtc", "rtc_open",
               "init_keyboard", "init_pit", "sti", "terminal_init">>

Past(s) == \E k \in 1..step : BootOrder[k] = s

(* The pages page_init maps, by their number in units of 4kB: the kernel's *)
(* 4MB page (its first 4kB stand for it), the screen and the three hidden  *)
(* screens after it, and the same four for programs at 132MB.              *)
KernelPage == 1024
VideoPage  == 184
WindowPage == 33 * 1024

TermPageShared(t) == VideoPage + (IF t = 3 THEN 2 ELSE t)
TermPage(t) == VideoPage + t

PageInit == [p \in {KernelPage} \cup {VideoPage + t : t \in 0..3}
                     \cup {WindowPage + t : t \in 0..3} |->
               [frame |-> IF p = KernelPage THEN KernelPage
                          ELSE TermPage(IF p < KernelPage THEN p - VideoPage
                                                          ELSE p - WindowPage),
                user  |-> p >= WindowPage]]

pages == IF Past("page_init") THEN PageInit ELSE [p \in {} |-> 0]

(* The gates of init_idt: an interrupt gate clears the interrupt flag, a   *)
(* trap gate leaves it.                                                    *)
Gates == [v \in (0..19) \cup (32..47) \cup {128} |->
            [kind    |-> IF v \in 32..47 THEN "interrupt" ELSE "trap",
             handler |-> CASE v < 20   -> "exception"
                           [] v = 32 + PIT_IV      -> "pit"
                           [] v = 32 + KEYBOARD_IV -> "keyboard"
                           [] v = 32 + RTC_IV      -> "rtc"
                           [] v = 128  -> "syscall"
                           [] OTHER    -> "none"]]

idt == IF Past("init_idt") THEN Gates ELSE [v \in {} |-> 0]

AfterGate(v) == IF Gates[v].kind = "interrupt" THEN FALSE ELSE enabled

-----------------------------------------------------------------------------
(* The BIOS leaves requests of its own time latched, and the flag cleared. *)
Init == /\ irr \in SUBSET {PIT_IV, KEYBOARD_IV} /\ isr = {} /\ mask = {}
        /\ regC = FALSE /\ enabled = FALSE /\ frames = <<>>
        /\ base = "boot" /\ step = 0 /\ ticks = 0 /\ scheduling_flag = 0
        /\ lost = FALSE

Boot == /\ base = "boot" /\ frames = <<>> /\ step < Len(BootOrder)
        /\ step' = step + 1
        /\ LET s == BootOrder[step + 1] IN
           /\ mask' = CASE s = "i8259_init"    -> Irq
                        [] s = "init_rtc"      -> mask \ {RTC_IV}
                        [] s = "init_keyboard" -> mask \ {KEYBOARD_IV}
                        [] s = "init_pit"      -> mask \ {PIT_IV}
                        [] OTHER               -> mask
           /\ irr' = IF s = "i8259_init" THEN {} ELSE irr
           /\ enabled' = (enabled \/ s \in {"rtc_open", "sti"})
        /\ UNCHANGED <<isr, regC, frames, base, ticks, scheduling_flag, lost>>

-----------------------------------------------------------------------------
(* The devices.  None is faster than the kernel: a request that waits only *)
(* for its turn gets it before a device of a higher level asks again.      *)
Raise(i) == /\ \A j \in irr \ mask : InService(j) \cap isr = {} => Level(i) > Level(j)
            /\ i \notin irr
            /\ irr' = irr \cup {i}
            /\ UNCHANGED <<isr, mask, enabled, frames, base, step, ticks,
                           scheduling_flag, lost>>

Tick     == Raise(PIT_IV) /\ UNCHANGED regC
KeyPress == Raise(KEYBOARD_IV) /\ UNCHANGED regC
RtcTick  == /\ Past("init_rtc") /\ ~regC
            /\ Raise(RTC_IV) /\ regC' = TRUE

-----------------------------------------------------------------------------
Top == frames[Len(frames)]
At(i, place) == frames # <<>> /\ Top = [irq |-> i, at |-> place]
GoTo(place)  == frames' = [frames EXCEPT ![Len(frames)] = [irq |-> Top.irq, at |-> place]]

(* The processor accepts a request; INTR_LINK saves the registers. *)
Take(i) == /\ enabled /\ Deliverable(i) /\ Len(frames) < MaxFrames
           /\ irr' = irr \ {i} /\ isr' = isr \cup InService(i)
           /\ enabled' = FALSE
           /\ frames' = Append(frames, [irq |-> i, at |-> "start"])
           /\ UNCHANGED <<mask, regC, base, step, ticks, scheduling_flag, lost>>

(* iret brings back the flags of what was interrupted. *)
Return == /\ \E i \in Irq : At(i, "ret")
          /\ frames' = SubSeq(frames, 1, Len(frames) - 1) /\ enabled' = TRUE
          /\ UNCHANGED <<pic, base, step, ticks, scheduling_flag, lost>>

(* The kernel goes on in another program: what is on the stacks is left.   *)
Leave == /\ frames' = <<>> /\ base' = "user" /\ enabled' = TRUE
         /\ lost' = (lost \/ RTC_IV \in isr)

RtcRead == /\ At(RTC_IV, "start")
           /\ regC' = FALSE /\ enabled' = TRUE /\ GoTo("eoi")
           /\ UNCHANGED <<irr, isr, mask, base, step, ticks, scheduling_flag, lost>>

RtcEoi == /\ At(RTC_IV, "eoi")
          /\ send_eoi(RTC_IV) /\ GoTo("ret")
          /\ UNCHANGED <<irr, mask, regC, enabled, base, step, ticks,
                         scheduling_flag, lost>>

(* Every key but the ones below; Ctrl-S stops and starts the scheduler. *)
Key == /\ At(KEYBOARD_IV, "start")
       /\ scheduling_flag' \in {scheduling_flag, 1 - scheduling_flag}
       /\ GoTo("eoi")
       /\ UNCHANGED <<pic, enabled, base, step, ticks, lost>>

(* Alt-F1 .. Alt-F3: switch_terminal ends with sti, and the handler goes   *)
(* on to acknowledge once more.                                            *)
KeySwitch == /\ At(KEYBOARD_IV, "start")
             /\ send_eoi(KEYBOARD_IV) /\ enabled' = TRUE /\ GoTo("eoi")
             /\ UNCHANGED <<irr, mask, regC, base, step, ticks, scheduling_flag, lost>>

(* Ctrl-C: sys_halt(0), of a program with a parent or of a first shell.    *)
(* Before the first shell there is no program to end.                      *)
KeyHalt == /\ At(KEYBOARD_IV, "start") /\ base # "boot"
           /\ send_eoi(KEYBOARD_IV)
           /\ \/ Leave
              \/ /\ enabled' = TRUE /\ GoTo("restart")
                 /\ UNCHANGED <<base, lost>>
           /\ UNCHANGED <<irr, mask, regC, step, ticks, scheduling_flag>>

KeyRestart == /\ At(KEYBOARD_IV, "restart") /\ Leave
              /\ UNCHANGED <<pic, step, ticks, scheduling_flag>>

KeyEoi == /\ At(KEYBOARD_IV, "eoi")
          /\ send_eoi(KEYBOARD_IV) /\ enabled' = TRUE /\ GoTo("ret")
          /\ UNCHANGED <<irr, mask, regC, base, step, ticks, scheduling_flag, lost>>

(* pit_handler serves the next of the three terminals: switch_terminal     *)
(* (which ends with sti), clear, send_eoi, sys_execute("shell").           *)
PitServe == /\ At(PIT_IV, "start") /\ scheduling_flag = 0 /\ ticks < 3
            /\ ticks' = ticks + 1 /\ enabled' = TRUE /\ GoTo("serve")
            /\ UNCHANGED <<pic, base, step, scheduling_flag, lost>>

PitServedLate == /\ At(PIT_IV, "serve") /\ GoTo("exec")
                 /\ UNCHANGED <<pic, enabled, base, step, ticks, scheduling_flag, lost>>

PitServed == /\ At(PIT_IV, "serve")
             /\ send_eoi(PIT_IV) /\ GoTo("exec")
             /\ UNCHANGED <<irr, mask, regC, enabled, base, step, ticks,
                            scheduling_flag, lost>>

PitExec == /\ At(PIT_IV, "exec") /\ Leave
           /\ UNCHANGED <<pic, step, ticks, scheduling_flag>>

(* Once all are served: scheduler() shows terminal 0 and stops scheduling; *)
(* a later tick only acknowledges.                                         *)
PitSchedule == /\ At(PIT_IV, "start") /\ (scheduling_flag = 0 => ticks >= 3)
               /\ send_eoi(PIT_IV)
               /\ IF scheduling_flag = 0 /\ ticks = 3
                  THEN ticks' = 4 /\ enabled' = TRUE /\ GoTo("freeze")
                  ELSE /\ enabled' = (scheduling_flag = 0)
                       /\ GoTo("ret") /\ UNCHANGED ticks
               /\ UNCHANGED <<irr, mask, regC, base, step, scheduling_flag, lost>>

PitFreeze == /\ At(PIT_IV, "freeze")
             /\ scheduling_flag' = 1 /\ GoTo("ret")
             /\ UNCHANGED <<pic, enabled, base, step, ticks, lost>>

-----------------------------------------------------------------------------
(* Programs: a system call disables interrupts for a while; an exception   *)
(* other than DE, GP and PF (which end the program) loops for ever.        *)
Cli == /\ base = "user" /\ frames = <<>> /\ enabled
       /\ base' = "critical" /\ enabled' = FALSE
       /\ UNCHANGED <<pic, frames, step, ticks, scheduling_flag, lost>>

Sti == /\ base = "critical" /\ frames = <<>>
       /\ base' = "user" /\ enabled' = TRUE
       /\ UNCHANGED <<pic, frames, step, ticks, scheduling_flag, lost>>

Looping == (0..19) \ {0, 13, 14}

Fault == /\ base = "user" /\ frames = <<>> /\ enabled
         /\ base' = "stuck" /\ \E v \in Looping : enabled' = AfterGate(v)
         /\ UNCHANGED <<pic, frames, step, ticks, scheduling_flag, lost>>

Handler(i) == \/ i = RTC_IV      /\ (RtcRead \/ RtcEoi)
              \/ i = KEYBOARD_IV /\ (Key \/ KeySwitch \/ KeyHalt \/ KeyRestart \/ KeyEoi)
              \/ i = PIT_IV      /\ (PitServe \/ PitServed \/ PitExec \/ PitSchedule
                                       \/ PitFreeze)

Next == \/ Boot \/ Tick \/ KeyPress \/ RtcTick
        \/ \E i \in Irq : Take(i) \/ Handler(i)
        \/ Return
        \/ Cli \/ Sti \/ Fault

(* The processor never stops between two instructions, so whatever is      *)
(* interrupted gets on, however often that happens: an interruption is far *)
(* shorter than the time between two.  The clock goes on for ever.         *)
Deep(d) == Len(frames) = d /\ (Return \/ \E i \in Irq : Handler(i))

Fairness == /\ WF_vars(Boot) /\ SF_vars(Sti) /\ WF_vars(RtcTick)
            /\ \A d \in 1..MaxFrames : SF_vars(Deep(d))
            /\ \A i \in Irq : SF_vars(Take(i))

Spec == Init /\ [][Next]_vars /\ Fairness

-----------------------------------------------------------------------------
(* Whatever handlers nest in whatever order and wherever one of them goes  *)
(* on in another program, a request stays in service only while a handler  *)
(* that will acknowledge it is on the stack.  The one exception is the     *)
(* clock: rtc_handler enables interrupts before it acknowledges (rtc.c:28),*)
(* and the interrupt that comes there may never return to it.              *)
Acknowledged ==
  \A i \in isr : \/ \E k \in DOMAIN frames : /\ frames[k].at # "ret"
                                             /\ i \in InService(frames[k].irq)
                 \/ (i \in InService(RTC_IV) /\ lost)

(* No interrupt is taken before the machine can bear it, although the boot *)
(* sequence enables them early, inside rtc_open: its vector has a handler, *)
(* and the kernel and all four screens are mapped, each on memory of its   *)
(* own that programs do not reach through the kernel's addresses.          *)
ReadyWhenTaken ==
  frames # <<>> =>
    /\ \A k \in DOMAIN frames : LET v == 32 + frames[k].irq IN
         v \in DOMAIN idt /\ idt[v].handler # "none" /\ idt[v].kind = "interrupt"
    /\ LET needed == {KernelPage} \cup {VideoPage + t : t \in 0..3} IN
       /\ needed \subseteq DOMAIN pages
       /\ \A p \in needed : ~pages[p].user
       /\ Cardinality({pages[p].frame : p \in needed}) = Cardinality(needed)

(* An unmasked request is taken in the end, whatever the kernel was doing, *)
(* a program in an endless exception included, and the clock's line is let *)
(* go; only a lost clock handler may leave the clock unserved for ever.    *)
Served == /\ \A i \in Irq : (i \in irr \ mask) ~> (i \notin irr \/ (i = RTC_IV /\ lost))
          /\ regC ~> (~regC \/ lost)
=============================================================================
