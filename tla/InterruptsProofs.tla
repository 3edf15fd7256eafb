-------------------------- MODULE InterruptsProofs ---------------------------
(***************************************************************************)
(* Acknowledged, for any depth of nesting.  It is not inductive: that the  *)
(* kernel leaves the stack only when neither the timer nor the keyboard is *)
(* in service needs to know where their handlers are while they are.       *)
(***************************************************************************)
EXTENDS Interrupts, TLAPS

Places == {"start", "eoi", "restart", "serve", "exec", "freeze", "ret"}
Frame  == [irq : Irq, at : Places]

TypeInv == /\ frames \in Seq(Frame)
           /\ isr \subseteq Irq \cup {Cascade}

(* Nothing is delivered over the timer, so its unacknowledged handler is   *)
(* the newest one.                                                         *)
PitOnTop == PIT_IV \in isr =>
              /\ frames # <<>> /\ Top.irq = PIT_IV
              /\ Top.at \in {"start", "serve"}

(* An unacknowledged keyboard handler has not enabled interrupts.          *)
KeyOnTop == KEYBOARD_IV \in isr =>
              /\ frames # <<>> /\ Top.irq = KEYBOARD_IV
              /\ Top.at \in {"start", "eoi"}
              /\ enabled = FALSE

(* Both controllers of the clock are acknowledged, or none.                *)
BothInService == Cascade \in isr <=> RTC_IV \in isr

Waiting(s) == \E k \in DOMAIN s : s[k].irq = RTC_IV /\ s[k].at \in {"start", "eoi"}

ClockLives == RTC_IV \in isr => lost \/ Waiting(frames)

IInv == TypeInv /\ PitOnTop /\ KeyOnTop /\ BothInService /\ ClockLives

-----------------------------------------------------------------------------
(* What changing, pushing and popping the newest frame does to the stack.  *)
LEMMA Replaced ==
  ASSUME NEW s \in Seq(Frame), s # <<>>, NEW e \in Frame
  PROVE  LET t == [s EXCEPT ![Len(s)] = e] IN
           /\ t \in Seq(Frame) /\ t # <<>> /\ Len(t) = Len(s)
           /\ t[Len(t)] = e
           /\ \A k \in DOMAIN s : k # Len(s) => t[k] = s[k]
  OBVIOUS

LEMMA Popped ==
  ASSUME NEW s \in Seq(Frame), s # <<>>
  PROVE  LET t == SubSeq(s, 1, Len(s) - 1) IN
           /\ t \in Seq(Frame)
           /\ \A k \in DOMAIN s : k # Len(s) => k \in DOMAIN t /\ t[k] = s[k]
  OBVIOUS

LEMMA Pushed ==
  ASSUME NEW s \in Seq(Frame), NEW e \in Frame
  PROVE  LET t == Append(s, e) IN
           /\ t \in Seq(Frame) /\ t # <<>> /\ t[Len(t)] = e
           /\ \A k \in DOMAIN s : k \in DOMAIN t /\ t[k] = s[k]
  OBVIOUS

(* The newest handler goes on to another place: a waiting clock handler    *)
(* still waits, unless it is the newest and goes on to return.             *)
LEMMA Going ==
  ASSUME TypeInv, frames # <<>>, NEW place \in Places, GoTo(place)
  PROVE  /\ frames' \in Seq(Frame) /\ frames' # <<>>
         /\ Top' = [irq |-> Top.irq, at |-> place]
         /\ Waiting(frames) =>
              Waiting(frames') \/ (Top.irq = RTC_IV /\ place \notin {"start", "eoi"})
  <1>1. Top \in Frame
    BY DEF TypeInv, Top
  <1>2. [irq |-> Top.irq, at |-> place] \in Frame
    BY <1>1 DEF Frame
  <1>3. /\ frames' \in Seq(Frame) /\ frames' # <<>> /\ Len(frames') = Len(frames)
        /\ frames'[Len(frames')] = [irq |-> Top.irq, at |-> place]
        /\ \A k \in DOMAIN frames : k # Len(frames) => frames'[k] = frames[k]
    BY <1>2, Replaced DEF TypeInv, GoTo
  <1>4. Top' = [irq |-> Top.irq, at |-> place]
    BY <1>3 DEF Top
  <1>5. ASSUME NEW k \in DOMAIN frames, frames[k].irq = RTC_IV,
               frames[k].at \in {"start", "eoi"}
        PROVE  Waiting(frames') \/ (Top.irq = RTC_IV /\ place \notin {"start", "eoi"})
    <2>1. Len(frames) \in DOMAIN frames' /\ k \in DOMAIN frames'
      BY <1>3 DEF TypeInv
    <2>2. CASE k # Len(frames)
      BY <2>1, <2>2, <1>3, <1>5 DEF Waiting
    <2>3. CASE k = Len(frames)
      <3>1. Top.irq = RTC_IV
        BY <2>3, <1>5 DEF Top
      <3>2. CASE place \in {"start", "eoi"}
        BY <3>1, <3>2, <2>1, <1>3 DEF Waiting
      <3> QED
        BY <3>1, <3>2
    <2> QED
      BY <2>2, <2>3
  <1> QED
    BY <1>3, <1>4, <1>5 DEF Waiting

LEMMA InitInv == Init => IInv
  BY DEF Init, IInv, TypeInv, PitOnTop, KeyOnTop, BothInService, ClockLives

(* The stack is left only when the clock alone can be in service.          *)
LEMMA Left ==
  ASSUME IInv, Leave, isr' \subseteq isr, PIT_IV \notin isr', KEYBOARD_IV \notin isr',
         Cascade \in isr' <=> RTC_IV \in isr'
  PROVE  IInv'
  <1>1. frames' \in Seq(Frame)
    BY DEF Leave
  <1>2. TypeInv'
    BY <1>1 DEF IInv, TypeInv
  <1>3. PitOnTop' /\ KeyOnTop' /\ BothInService'
    BY DEF PitOnTop, KeyOnTop, BothInService
  <1>4. RTC_IV \in isr => lost'
    BY DEF Leave
  <1>5. ClockLives'
    BY <1>4 DEF ClockLives
  <1> QED
    BY <1>2, <1>3, <1>5 DEF IInv

(* A step of a handler that stays on the stack.                            *)
LEMMA Stepped ==
  ASSUME IInv, frames # <<>>, NEW place \in Places, GoTo(place), UNCHANGED lost,
         isr' \subseteq isr, Cascade \in isr' <=> RTC_IV \in isr',
         PIT_IV \in isr' => place \in {"start", "serve"},
         KEYBOARD_IV \in isr' => place \in {"start", "eoi"} /\ enabled' = FALSE,
         Top.irq = RTC_IV /\ place \notin {"start", "eoi"} => RTC_IV \notin isr'
  PROVE  IInv'
  <1>1. TypeInv
    BY DEF IInv
  <1>2. /\ frames' \in Seq(Frame) /\ frames' # <<>>
        /\ Top' = [irq |-> Top.irq, at |-> place]
        /\ Waiting(frames) =>
             Waiting(frames') \/ (Top.irq = RTC_IV /\ place \notin {"start", "eoi"})
    BY <1>1, Going
  <1>3. TypeInv'
    BY <1>1, <1>2 DEF TypeInv
  <1>4. PitOnTop'
    BY <1>2 DEF IInv, PitOnTop
  <1>5. KeyOnTop'
    BY <1>2 DEF IInv, KeyOnTop
  <1>6. BothInService'
    BY DEF BothInService
  <1>7. ClockLives'
    <2> SUFFICES ASSUME RTC_IV \in isr' PROVE lost' \/ Waiting(frames')
      BY DEF ClockLives
    <2>1. lost \/ Waiting(frames)
      BY DEF IInv, ClockLives
    <2> QED
      BY <2>1, <1>2
  <1> QED
    BY <1>3, <1>4, <1>5, <1>6, <1>7 DEF IInv

LEMMA Levels == /\ Level(PIT_IV) = 0 /\ Level(KEYBOARD_IV) = 1 /\ Level(RTC_IV) = 2
                /\ Level(Cascade) = 2
                /\ InService(PIT_IV) = {PIT_IV} /\ InService(KEYBOARD_IV) = {KEYBOARD_IV}
                /\ InService(RTC_IV) = {RTC_IV, Cascade}
  BY DEF Level, InService, PIT_IV, KEYBOARD_IV, RTC_IV, Cascade

LEMMA TakeInv == ASSUME IInv, NEW i \in Irq, Take(i) PROVE IInv'
  <1> DEFINE e == [irq |-> i, at |-> "start"]
  <1>1. e \in Frame
    BY DEF Frame, Places
  <1>2. /\ frames' \in Seq(Frame) /\ frames' # <<>> /\ frames'[Len(frames')] = e
        /\ \A k \in DOMAIN frames : k \in DOMAIN frames' /\ frames'[k] = frames[k]
    BY <1>1, Pushed DEF IInv, TypeInv, Take
  <1>3. Top' = e
    BY <1>2 DEF Top
  <1>4. \A j \in isr : Level(i) < Level(j)
    BY DEF Take, Deliverable
  <1>5. PIT_IV \notin isr
    BY <1>4, Levels DEF Irq
  <1>6. KEYBOARD_IV \notin isr
    BY DEF Take, IInv, KeyOnTop
  <1>7. isr' = isr \cup InService(i) /\ enabled' = FALSE /\ lost' = lost
    BY DEF Take
  <1>8. TypeInv'
    BY <1>2, <1>7, Levels DEF IInv, TypeInv, Irq
  <1>9. PitOnTop'
    BY <1>2, <1>3, <1>5, <1>7, Levels DEF PitOnTop, Irq, PIT_IV, KEYBOARD_IV, RTC_IV, Cascade
  <1>10. KeyOnTop'
    BY <1>2, <1>3, <1>6, <1>7, Levels DEF KeyOnTop, Irq, PIT_IV, KEYBOARD_IV, RTC_IV, Cascade
  <1>11. BothInService'
    BY <1>7, Levels DEF IInv, BothInService, Irq, PIT_IV, KEYBOARD_IV, RTC_IV, Cascade
  <1>12. ClockLives'
    <2>1. CASE i = RTC_IV
      <3>1. Len(frames') \in DOMAIN frames'
        BY <1>2
      <3> QED
        BY <2>1, <3>1, <1>2 DEF ClockLives, Waiting
    <2>2. CASE i # RTC_IV /\ RTC_IV \in isr'
      <3>1. RTC_IV \in isr
        BY <2>2, <1>7, Levels DEF Irq, PIT_IV, KEYBOARD_IV, RTC_IV
      <3>2. Waiting(frames) => Waiting(frames')
        BY <1>2 DEF Waiting
      <3> QED
        BY <3>1, <3>2, <1>7 DEF IInv, ClockLives
    <2> QED
      BY <2>1, <2>2 DEF ClockLives
  <1> QED
    BY <1>8, <1>9, <1>10, <1>11, <1>12 DEF IInv

LEMMA ReturnInv == ASSUME IInv, Return PROVE IInv'
  <1>1. frames # <<>> /\ Top.at = "ret"
    BY DEF Return, At
  <1>2. frames' \in Seq(Frame)
        /\ \A k \in DOMAIN frames : k # Len(frames) => k \in DOMAIN frames' /\ frames'[k] = frames[k]
    BY <1>1, Popped DEF IInv, TypeInv, Return
  <1>3. isr' = isr /\ lost' = lost
    BY DEF Return, pic
  <1>4. PIT_IV \notin isr /\ KEYBOARD_IV \notin isr
    BY <1>1 DEF IInv, PitOnTop, KeyOnTop
  <1>5. Waiting(frames) => Waiting(frames')
    BY <1>1, <1>2 DEF Waiting, Top
  <1> QED
    BY <1>2, <1>3, <1>4, <1>5 DEF IInv, TypeInv, PitOnTop, KeyOnTop, BothInService, ClockLives

(* With the timer's or the keyboard's handler on top, the other of the two *)
(* is not in service; with the clock's on top, neither is.                 *)
LEMMA OnTop ==
  ASSUME IInv, NEW i \in Irq, NEW place \in Places, At(i, place)
  PROVE  /\ frames # <<>> /\ Top.irq = i /\ Top.at = place
         /\ i # PIT_IV \/ place \notin {"start", "serve"} => PIT_IV \notin isr
         /\ i # KEYBOARD_IV \/ place \notin {"start", "eoi"} => KEYBOARD_IV \notin isr
         /\ Cascade \in isr <=> RTC_IV \in isr
  BY DEF At, IInv, PitOnTop, KeyOnTop, BothInService

LEMMA RtcInv == ASSUME IInv, RtcRead \/ RtcEoi PROVE IInv'
  <1>0. RTC_IV \in Irq /\ "start" \in Places /\ "eoi" \in Places /\ "ret" \in Places
    BY DEF Irq, Places
  <1>1. CASE RtcRead
    <2>1. At(RTC_IV, "start") /\ GoTo("eoi") /\ isr' = isr /\ UNCHANGED lost
      BY <1>1 DEF RtcRead
    <2>2. /\ frames # <<>> /\ PIT_IV \notin isr /\ KEYBOARD_IV \notin isr
          /\ Cascade \in isr <=> RTC_IV \in isr
      BY <2>1, <1>0, OnTop DEF RTC_IV, PIT_IV, KEYBOARD_IV
    <2> QED
      BY <2>1, <2>2, <1>0, Stepped
  <1>2. CASE RtcEoi
    <2>1. At(RTC_IV, "eoi") /\ GoTo("ret") /\ isr' = isr \ {RTC_IV, Cascade} /\ UNCHANGED lost
      BY <1>2, Levels DEF RtcEoi, send_eoi
    <2>2. frames # <<>> /\ PIT_IV \notin isr /\ KEYBOARD_IV \notin isr
      BY <2>1, <1>0, OnTop DEF RTC_IV, PIT_IV, KEYBOARD_IV
    <2> QED
      BY <2>1, <2>2, <1>0, Stepped
  <1> QED
    BY <1>1, <1>2

LEMMA KeyInv ==
  ASSUME IInv, Key \/ KeySwitch \/ KeyHalt \/ KeyRestart \/ KeyEoi PROVE IInv'
  <1>0. KEYBOARD_IV \in Irq /\ {"start", "eoi", "ret", "restart"} \subseteq Places
    BY DEF Irq, Places
  <1>1. CASE Key
    <2>1. At(KEYBOARD_IV, "start") /\ GoTo("eoi") /\ isr' = isr
          /\ enabled' = enabled /\ UNCHANGED lost
      BY <1>1 DEF Key, pic
    <2>2. /\ frames # <<>> /\ Top.irq = KEYBOARD_IV /\ PIT_IV \notin isr
          /\ Cascade \in isr <=> RTC_IV \in isr
      BY <2>1, <1>0, OnTop DEF PIT_IV, KEYBOARD_IV
    <2>3. KEYBOARD_IV \in isr' => enabled' = FALSE
      BY <2>1 DEF IInv, KeyOnTop
    <2> QED
      BY <2>1, <2>2, <2>3, <1>0, Stepped
  <1>2. ASSUME NEW from \in {"start", "eoi"}, NEW to \in {"eoi", "ret", "restart"},
               At(KEYBOARD_IV, from), GoTo(to), send_eoi(KEYBOARD_IV), UNCHANGED lost
        PROVE  IInv'
    <2>1. isr' = isr \ {KEYBOARD_IV}
      BY <1>2, Levels DEF send_eoi
    <2>2. /\ frames # <<>> /\ Top.irq = KEYBOARD_IV /\ PIT_IV \notin isr
          /\ Cascade \in isr <=> RTC_IV \in isr
      BY <1>2, <1>0, OnTop DEF PIT_IV, KEYBOARD_IV
    <2>3. Cascade \in isr' <=> RTC_IV \in isr'
      BY <2>1, <2>2 DEF Cascade, RTC_IV, KEYBOARD_IV
    <2>4. Top.irq # RTC_IV
      BY <2>2 DEF RTC_IV, KEYBOARD_IV
    <2> QED
      BY <1>2, <2>1, <2>2, <2>3, <2>4, <1>0, Stepped
  <1>3. CASE KeySwitch
    BY <1>2, <1>3 DEF KeySwitch
  <1>4. CASE KeyEoi
    BY <1>2, <1>4 DEF KeyEoi
  <1>5. CASE KeyHalt
    <2>1. At(KEYBOARD_IV, "start") /\ send_eoi(KEYBOARD_IV)
      BY <1>5 DEF KeyHalt
    <2>2. CASE Leave
      <3>1. isr' = isr \ {KEYBOARD_IV}
        BY <2>1, Levels DEF send_eoi
      <3>2. PIT_IV \notin isr /\ (Cascade \in isr <=> RTC_IV \in isr)
        BY <2>1, <1>0, OnTop DEF PIT_IV, KEYBOARD_IV
      <3>3. Cascade \in isr' <=> RTC_IV \in isr'
        BY <3>1, <3>2 DEF Cascade, RTC_IV, KEYBOARD_IV
      <3> QED
        BY <2>2, <3>1, <3>2, <3>3, Left
    <2>3. CASE GoTo("restart") /\ UNCHANGED lost
      BY <2>1, <2>3, <1>2
    <2> QED
      BY <1>5, <2>2, <2>3 DEF KeyHalt
  <1>6. CASE KeyRestart
    <2>1. At(KEYBOARD_IV, "restart") /\ Leave /\ isr' = isr
      BY <1>6 DEF KeyRestart, pic
    <2>2. PIT_IV \notin isr /\ KEYBOARD_IV \notin isr /\ (Cascade \in isr <=> RTC_IV \in isr)
      BY <2>1, <1>0, OnTop DEF PIT_IV, KEYBOARD_IV
    <2> QED
      BY <2>1, <2>2, Left
  <1> QED
    BY <1>1, <1>3, <1>4, <1>5, <1>6

LEMMA PitInv ==
  ASSUME IInv, PitServe \/ PitServed \/ PitExec \/ PitSchedule \/ PitFreeze PROVE IInv'
  <1>0. PIT_IV \in Irq /\ {"start", "serve", "exec", "freeze", "ret"} \subseteq Places
    BY DEF Irq, Places
  <1>1. CASE PitServe
    <2>1. At(PIT_IV, "start") /\ GoTo("serve") /\ isr' = isr /\ UNCHANGED lost
      BY <1>1 DEF PitServe, pic
    <2>2. /\ frames # <<>> /\ Top.irq = PIT_IV /\ KEYBOARD_IV \notin isr
          /\ Cascade \in isr <=> RTC_IV \in isr
      BY <2>1, <1>0, OnTop DEF PIT_IV, KEYBOARD_IV
    <2>3. Top.irq # RTC_IV
      BY <2>2 DEF RTC_IV, PIT_IV
    <2> QED
      BY <2>1, <2>2, <2>3, <1>0, Stepped
  <1>2. ASSUME NEW from \in {"start", "serve", "freeze"}, NEW to \in {"exec", "freeze", "ret"},
               At(PIT_IV, from), GoTo(to), UNCHANGED lost,
               send_eoi(PIT_IV) \/ (from = "freeze" /\ isr' = isr)
        PROVE  IInv'
    <2>1. /\ frames # <<>> /\ Top.irq = PIT_IV /\ KEYBOARD_IV \notin isr
          /\ Cascade \in isr <=> RTC_IV \in isr
          /\ from = "freeze" => PIT_IV \notin isr
      BY <1>2, <1>0, OnTop DEF PIT_IV, KEYBOARD_IV
    <2>2. isr' = isr \ {PIT_IV}
      BY <1>2, <2>1, Levels DEF send_eoi
    <2>3. Cascade \in isr' <=> RTC_IV \in isr'
      BY <2>1, <2>2 DEF Cascade, RTC_IV, PIT_IV
    <2>4. Top.irq # RTC_IV
      BY <2>1 DEF RTC_IV, PIT_IV
    <2> QED
      BY <1>2, <2>1, <2>2, <2>3, <2>4, <1>0, Stepped
  <1>3. CASE PitServed
    BY <1>2, <1>3 DEF PitServed
  <1>4. CASE PitSchedule
    <2>1. At(PIT_IV, "start") /\ send_eoi(PIT_IV) /\ UNCHANGED lost
          /\ (GoTo("freeze") \/ GoTo("ret"))
      BY <1>4 DEF PitSchedule
    <2> QED
      BY <1>2, <2>1
  <1>5. CASE PitFreeze
    <2>1. At(PIT_IV, "freeze") /\ GoTo("ret") /\ isr' = isr /\ UNCHANGED lost
      BY <1>5 DEF PitFreeze, pic
    <2> QED
      BY <1>2, <2>1
  <1>6. CASE PitExec
    <2>1. At(PIT_IV, "exec") /\ Leave /\ isr' = isr
      BY <1>6 DEF PitExec, pic
    <2>2. PIT_IV \notin isr /\ KEYBOARD_IV \notin isr /\ (Cascade \in isr <=> RTC_IV \in isr)
      BY <2>1, <1>0, OnTop DEF PIT_IV, KEYBOARD_IV
    <2> QED
      BY <2>1, <2>2, Left
  <1> QED
    BY <1>1, <1>3, <1>4, <1>5, <1>6

(* What happens with no handler on the stack, and what only devices do.    *)
LEMMA ElsewhereInv ==
  ASSUME IInv, UNCHANGED <<isr, frames, lost>>, frames = <<>> \/ UNCHANGED enabled
  PROVE  IInv'
  <1>1. Top' = Top /\ (Waiting(frames') <=> Waiting(frames))
    BY DEF Top
  <1> QED
    BY <1>1 DEF IInv, TypeInv, PitOnTop, KeyOnTop, BothInService, ClockLives

LEMMA NextInv == ASSUME IInv, [Next]_vars PROVE IInv'
  <1>1. CASE UNCHANGED vars
    BY <1>1, ElsewhereInv DEF vars, pic
  <1>2. CASE Boot
    BY <1>2, ElsewhereInv DEF Boot
  <1>3. CASE Tick \/ KeyPress \/ RtcTick
    BY <1>3, ElsewhereInv DEF Tick, KeyPress, RtcTick, Raise
  <1>4. ASSUME NEW i \in Irq, Take(i) PROVE IInv'
    BY <1>4, TakeInv
  <1>5. ASSUME NEW i \in Irq, Handler(i) PROVE IInv'
    BY <1>5, RtcInv, KeyInv, PitInv DEF Handler
  <1>6. CASE Return
    BY <1>6, ReturnInv
  <1>7. CASE Cli \/ Sti \/ Fault
    BY <1>7, ElsewhereInv DEF Cli, Sti, Fault, pic
  <1> QED
    BY <1>1, <1>2, <1>3, <1>4, <1>5, <1>6, <1>7 DEF Next

(* A request stays in service only while its handler can acknowledge it,   *)
(* or, the clock's, once its handler was left.                             *)
LEMMA InvAcknowledged == IInv => Acknowledged
  <1> SUFFICES ASSUME IInv, NEW i \in isr
               PROVE  \/ \E k \in DOMAIN frames : /\ frames[k].at # "ret"
                                                  /\ i \in InService(frames[k].irq)
                      \/ (i \in InService(RTC_IV) /\ lost)
    BY DEF Acknowledged
  <1>1. i \in {PIT_IV, KEYBOARD_IV, RTC_IV, Cascade}
    BY DEF IInv, TypeInv, Irq
  <1>2. frames # <<>> => Len(frames) \in DOMAIN frames
    BY DEF IInv, TypeInv
  <1>3. CASE i = PIT_IV
    BY <1>2, <1>3, Levels DEF IInv, PitOnTop, Top
  <1>4. CASE i = KEYBOARD_IV
    BY <1>2, <1>4, Levels DEF IInv, KeyOnTop, Top
  <1>5. CASE i \in {RTC_IV, Cascade}
    <2>1. lost \/ Waiting(frames)
      BY <1>5 DEF IInv, BothInService, ClockLives
    <2>2. i \in InService(RTC_IV)
      BY <1>5, Levels
    <2> QED
      BY <2>1, <2>2 DEF Waiting
  <1> QED
    BY <1>1, <1>3, <1>4, <1>5

(* However deep handlers nest and wherever the kernel leaves one for       *)
(* another program, no request is stuck in service but a lost clock's.     *)
THEOREM AlwaysAcknowledged == Spec => []Acknowledged
  BY InitInv, NextInv, InvAcknowledged, PTL DEF Spec

-----------------------------------------------------------------------------
(* Interrupts are first enabled by the fifth step of the boot, and no       *)
(* handler runs and no program before.                                      *)
StepInv == /\ step \in 0..9
           /\ enabled \/ frames # <<>> \/ base # "boot" => step >= 5

LEMMA Steps ==
  /\ Len(BootOrder) = 9
  /\ \A k \in 1..9 : BootOrder[k] \in {"rtc_open", "sti"} => k >= 5
  /\ BootOrder[2] = "page_init" /\ BootOrder[3] = "init_idt"
  BY DEF BootOrder

LEMMA StepKept == ASSUME StepInv, [Next]_vars PROVE StepInv'
  <1>1. CASE Boot
    <2> DEFINE k == step + 1
    <2>1. /\ k \in 1..9 /\ step' = k /\ UNCHANGED <<frames, base>>
          /\ frames = <<>> /\ base = "boot"
          /\ enabled' = (enabled \/ BootOrder[k] \in {"rtc_open", "sti"})
      BY <1>1, Steps DEF Boot, StepInv
    <2> HIDE DEF k
    <2>2. step < k
      BY DEF StepInv, k
    <2>3. enabled' => k >= 5
      <3>1. CASE BootOrder[k] \in {"rtc_open", "sti"}
        BY <2>1, <3>1, Steps
      <3>2. CASE BootOrder[k] \notin {"rtc_open", "sti"}
        <4>1. enabled' => enabled
          BY <2>1, <3>2, Zenon
        <4> QED BY <2>1, <2>2, <4>1 DEF StepInv
      <3> QED BY <3>1, <3>2
    <2> QED BY <2>1, <2>3 DEF StepInv
  <1>2. CASE Tick \/ KeyPress \/ RtcTick
    BY <1>2 DEF Tick, KeyPress, RtcTick, Raise, StepInv
  <1>3. ASSUME NEW i \in Irq, Take(i) PROVE StepInv'
    BY <1>3 DEF Take, StepInv
  <1>4. ASSUME NEW i \in Irq, Handler(i) PROVE StepInv'
    <2>1. frames # <<>> /\ UNCHANGED step
      BY <1>4 DEF Handler, At, RtcRead, RtcEoi, Key, KeySwitch, KeyHalt, KeyRestart, KeyEoi,
                  PitServe, PitServed, PitExec, PitSchedule, PitFreeze
    <2> QED BY <2>1 DEF StepInv
  <1>5. CASE Return
    BY <1>5 DEF Return, At, StepInv
  <1>6. CASE Cli \/ Sti \/ Fault
    BY <1>6 DEF Cli, Sti, Fault, StepInv
  <1>7. CASE UNCHANGED vars
    BY <1>7 DEF vars, StepInv
  <1> QED
    BY <1>1, <1>2, <1>3, <1>4, <1>5, <1>6, <1>7 DEF Next

(* The four screens and the kernel keep their addresses. *)
LEMMA PagesReady ==
  ASSUME Past("page_init")
  PROVE  LET needed == {KernelPage} \cup {VideoPage + t : t \in 0..3} IN
           /\ needed \subseteq DOMAIN pages
           /\ \A p \in needed : ~pages[p].user /\ pages[p].frame = p
  <1> DEFINE needed == {KernelPage} \cup {VideoPage + t : t \in 0..3}
             mapped == needed \cup {WindowPage + t : t \in 0..3}
  <1>1. pages = PageInit /\ DOMAIN PageInit = mapped
    BY DEF pages, PageInit
  <1>2. ASSUME NEW p \in needed
        PROVE  ~PageInit[p].user /\ PageInit[p].frame = p
    <2>1. p \in mapped
      BY <1>2
    <2>2. p = 1024 \/ (p \in Int /\ 184 <= p /\ p <= 187)
      BY <1>2 DEF KernelPage, VideoPage
    <2>3. /\ PageInit[p].user = (p >= WindowPage)
          /\ PageInit[p].frame = IF p = KernelPage THEN KernelPage
                                 ELSE TermPage(IF p < KernelPage THEN p - VideoPage
                                                                 ELSE p - WindowPage)
      BY <2>1 DEF PageInit
    <2> HIDE DEF needed, mapped
    <2>4. ~PageInit[p].user
      <3>1. (p >= WindowPage) = FALSE
        BY <2>2 DEF WindowPage
      <3>2. PageInit[p].user = FALSE
        BY <2>3, <3>1, Zenon
      <3> QED BY <3>2, Zenon
    <2>5. PageInit[p].frame = p
      BY <2>2, <2>3 DEF KernelPage, VideoPage, TermPage
    <2> QED BY <2>4, <2>5
  <1>3. needed \subseteq DOMAIN pages
    BY <1>1
  <1> HIDE DEF mapped
  <1> QED BY <1>1, <1>2, <1>3

LEMMA GatesReady ==
  ASSUME Past("init_idt"), NEW i \in Irq
  PROVE  32 + i \in DOMAIN idt /\ idt[32 + i].handler # "none" /\ idt[32 + i].kind = "interrupt"
  <1>1. i \in {0, 1, 8}
    BY DEF Irq, PIT_IV, KEYBOARD_IV, RTC_IV
  <1>2. idt = Gates /\ 32 + i \in DOMAIN Gates
    BY <1>1 DEF idt, Gates
  <1>3. Gates[32 + i].kind = "interrupt"
    BY <1>1 DEF Gates
  <1>4. Gates[32 + i].handler # "none"
    BY <1>1 DEF Gates, PIT_IV, KEYBOARD_IV, RTC_IV
  <1> QED BY <1>2, <1>3, <1>4

LEMMA InvReady == IInv /\ StepInv => ReadyWhenTaken
  <1> SUFFICES ASSUME IInv, StepInv, frames # <<>> PROVE ReadyWhenTaken
    BY DEF ReadyWhenTaken
  <1>1. Past("page_init") /\ Past("init_idt")
    BY Steps DEF StepInv, Past
  <1>2. ASSUME NEW k \in DOMAIN frames PROVE frames[k].irq \in Irq
    <2>1. frames[k] \in Frame
      BY DEF IInv, TypeInv
    <2> QED BY <2>1 DEF Frame
  <1> DEFINE needed == {KernelPage} \cup {VideoPage + t : t \in 0..3}
  <1>3. needed \subseteq DOMAIN pages /\ \A p \in needed : ~pages[p].user /\ pages[p].frame = p
    BY <1>1, PagesReady
  <1>4. {pages[p].frame : p \in needed} = needed
    BY <1>3
  <1> QED
    BY <1>1, <1>2, <1>3, <1>4, GatesReady DEF ReadyWhenTaken

(* No interrupt is taken before its vector has a handler and the kernel and *)
(* the four screens are mapped, whatever nests and whatever the BIOS left.  *)
THEOREM AlwaysReady == Spec => []ReadyWhenTaken
  <1>1. Init => StepInv
    BY DEF Init, StepInv
  <1>2. IInv /\ StepInv /\ [Next]_vars => IInv' /\ StepInv'
    BY NextInv, StepKept
  <1> QED
    BY <1>1, <1>2, InitInv, InvReady, PTL DEF Spec

=============================================================================
