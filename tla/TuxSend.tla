------------------------------ MODULE TuxSend -------------------------------
(***************************************************************************)
(* How a command reaches the Tux controller: the ioctls of tuxctl-ioctl.c   *)
(* put packets into the transmit buffer of the line discipline (tuxctl-ld.c) *)
(* and every put, like every wakeup from the serial driver, moves what the  *)
(* buffer holds to that driver.  Three contexts run this code: the program's *)
(* ioctl, the receive interrupt, which answers a RESET of the controller by *)
(* setting it up again, and the driver's wakeup.  tuxctl_ldisc_lock guards  *)
(* the buffer, and nothing between the buffer and the driver.               *)
(*                                                                         *)
(* A packet is abstracted to its commands: "ENABLE" is MTCP_BIOC_ON with    *)
(* MTCP_LED_USR, and LED_SET has one byte of data, the state of the LEDs.    *)
(***************************************************************************)
EXTENDS Naturals, Sequences, SequencesExt, FiniteSetsExt

CONSTANTS
  BufSize,   (* TUXCTL_BUFSIZE: the buffer holds one byte less               *)
  Room,      (* the bytes the serial driver's own buffer holds               *)
  Led,       (* what the program may ask the LEDs to show                    *)
  Quiet,     (* who is paced waits until the driver holds so few bytes       *)
  MaxUp,     (* a bound on the packets on their way from the controller      *)
  Smp,       (* TRUE: contexts interleave; FALSE: interrupts nest            *)
  Freedoms   (* "flood": nobody waits: the program calls and the user        *)
             (* presses RESET whatever is still on its way                   *)

ASSUME TuxSendAssumption == /\ BufSize \in Nat \ {0} /\ Room \in Nat
                            /\ Quiet \in Nat /\ MaxUp \in Nat \ {0}
                            /\ Smp \in BOOLEAN /\ Freedoms \subseteq {"flood"}
                            /\ {"off", "none", "ENABLE", "LED_SET"} \cap Led = {}

Ctx  == {"ioctl", "rx", "tx"}
Lit  == Led \cup {"off"}
Byte == {"ENABLE", "LED_SET"} \cup Lit

VARIABLES
  ctx,                     (* each context's place in the code, and its locals *)
  ack_flag, previous_LED,  (* tuxctl-ioctl.c                                  *)
  tx,                      (* what tx_buf holds between tx_start and tx_end   *)
  line, wake, lost,        (* the serial driver: its buffer, a wakeup it owes, *)
                           (* and whether it has refused a byte               *)
  leds, enabled, parse,    (* the controller: its LEDs, whether it reports the *)
                           (* buttons, and what its next byte is to it        *)
  up,                      (* its packets on their way to the host            *)
  asked, called            (* what the LEDs shall show: by the last call that *)
                           (* the driver took, and by the last one made       *)

driver == <<line, wake, lost>>
device == <<leds, enabled, parse>>
vars   == <<ctx, ack_flag, previous_LED, tx, driver, device, up, asked, called>>

(* A context that is not in the line discipline or the ioctls. *)
Idle == [pc |-> "idle", pkt |-> <<>>, puts |-> 0, then |-> "done", arg |-> "off",
         left |-> 0, room |-> 0, buf |-> <<>>]

Init == /\ ctx = [c \in Ctx |-> Idle]
        /\ ack_flag = 0 /\ previous_LED = "off"
        /\ tx = <<>>
        /\ line = <<>> /\ wake = FALSE /\ lost = FALSE
        /\ leds = "off" /\ enabled = FALSE /\ parse = "command"
        /\ up = <<>> /\ asked = "none" /\ called = "none"

(* On one processor an interrupt runs to its end before what it interrupted. *)
MayRun(c) == Smp \/ (c = "ioctl" => \A i \in {"rx", "tx"} : ctx[i].pc = "idle")
MayStart(c) == /\ ctx[c].pc = "idle"
               /\ Smp \/ \A i \in {"rx", "tx"} : ctx[i].pc = "idle"

-----------------------------------------------------------------------------
(* The two packets of tuxctl-ioctl.c; each is put twice. *)
InitPacket    == <<"ENABLE", "LED_SET", "off">>
LedPacket(v)  == <<"LED_SET", v>>

InInit(then)  == [Idle EXCEPT !.pc = "put", !.pkt = InitPacket, !.puts = 2, !.then = then]
InSetLed(v)   == [Idle EXCEPT !.pc = "led", !.arg = v]

(* What a paced program waits for, and a paced user. *)
MayCall  == "flood" \in Freedoms \/ (Len(line) <= Quiet /\ up = <<>>)
MayReset == "flood" \in Freedoms \/ Len(line) <= Quiet

TuxInit ==
  /\ MayStart("ioctl") /\ MayCall /\ asked = "none"
  /\ ctx' = [ctx EXCEPT !["ioctl"] = InInit("done")]
  /\ ack_flag' = 0
  /\ asked' = "off" /\ called' = "off"
  /\ UNCHANGED <<previous_LED, tx, driver, device, up>>

(* TUX_SET_LED.  A call made before the last one is acknowledged is dropped; *)
(* the ioctl returns 0 all the same.                                        *)
TakeLed(v) ==
  /\ ack_flag = 0
  /\ ack_flag' = 1
  /\ ctx' = [ctx EXCEPT !["ioctl"] = InSetLed(v)]
  /\ asked' = v
DropLed == ack_flag = 1 /\ UNCHANGED <<ctx, ack_flag, asked>>

TuxSetLed(v) ==
  /\ MayStart("ioctl") /\ MayCall /\ asked # "none"
  /\ TakeLed(v) \/ DropLed
  /\ called' = v
  /\ UNCHANGED <<previous_LED, tx, driver, device, up>>

(* set_led_tux stores its argument and puts the packet. *)
StoreLed(c) ==
  /\ MayRun(c) /\ ctx[c].pc = "led"
  /\ previous_LED' = ctx[c].arg
  /\ ctx' = [ctx EXCEPT ![c] = [Idle EXCEPT !.pc = "put", !.puts = 2,
                                            !.pkt = LedPacket(ctx[c].arg)]]
  /\ UNCHANGED <<ack_flag, tx, driver, device, up, asked, called>>

(* tuxctl_handle_packet *)
HandlePacketReset ==                  \* mutant: an ACK does not clear the flag
  /\ MayStart("rx") /\ up # <<>>
  /\ up' = Tail(up)
  /\ ack_flag' = IF Head(up) = "RESET" THEN 0 ELSE ack_flag
  /\ ctx' = IF Head(up) = "RESET" THEN [ctx EXCEPT !["rx"] = InInit("restore")] ELSE ctx
  /\ UNCHANGED <<previous_LED, tx, driver, device, asked, called>>
HandlePacket ==
  /\ MayStart("rx") /\ up # <<>>
  /\ up' = Tail(up)
  /\ ack_flag' = 0
  /\ ctx' = IF Head(up) = "RESET" THEN [ctx EXCEPT !["rx"] = InInit("restore")] ELSE ctx
  /\ UNCHANGED <<previous_LED, tx, driver, device, asked, called>>

-----------------------------------------------------------------------------
(* tuxctl_ldisc_put: as much of the packet as the buffer has room for. *)
PutByBytes(c) ==                      \* mutant: the lock is given up between bytes
  LET p == ctx[c]
  IN  /\ MayRun(c) /\ p.pc = "put"
      /\ tx' = IF Len(p.buf) < Len(p.pkt) THEN Append(tx, p.pkt[Len(p.buf) + 1]) ELSE tx
      /\ ctx' = [ctx EXCEPT ![c] = IF Len(p.buf) < Len(p.pkt)
                                     THEN [p EXCEPT !.buf = SubSeq(p.pkt, 1, Len(@) + 1)]
                                     ELSE [p EXCEPT !.pc = "room", !.buf = <<>>]]
      /\ UNCHANGED <<ack_flag, previous_LED, driver, device, up, asked, called>>
Put(c) ==
  LET n == Min({Len(ctx[c].pkt), BufSize - 1 - Len(tx)})
  IN  /\ MayRun(c) /\ ctx[c].pc = "put"
      /\ tx' = tx \o SubSeq(ctx[c].pkt, 1, n)
      /\ ctx' = [ctx EXCEPT ![c].pc = "room", ![c].left = Len(ctx[c].pkt) - n]
      /\ UNCHANGED <<ack_flag, previous_LED, driver, device, up, asked, called>>

(* tuxctl_ldisc_write_wakeup asks for the driver's room, takes bytes off     *)
(* the buffer under the lock, and hands them to the driver after it.         *)
Wakeup ==
  /\ MayStart("tx") /\ wake
  /\ wake' = FALSE
  /\ ctx' = [ctx EXCEPT !["tx"] = [Idle EXCEPT !.pc = "room"]]
  /\ UNCHANGED <<ack_flag, previous_LED, tx, line, lost, device, up, asked, called>>

WriteRoom(c) ==
  /\ MayRun(c) /\ ctx[c].pc = "room"
  /\ ctx' = [ctx EXCEPT ![c].pc = "take", ![c].room = Room - Len(line)]
  /\ UNCHANGED <<ack_flag, previous_LED, tx, driver, device, up, asked, called>>

Take(c) ==
  LET n == Min({ctx[c].room + 1, Len(tx)})
  IN  /\ MayRun(c) /\ ctx[c].pc = "take"
      /\ tx' = SubSeq(tx, n + 1, Len(tx))
      /\ ctx' = [ctx EXCEPT ![c].pc = "write", ![c].buf = SubSeq(tx, 1, n), ![c].room = 0]
      /\ UNCHANGED <<ack_flag, previous_LED, driver, device, up, asked, called>>

(* After the first put of a packet that fitted comes the second; then, in   *)
(* the handling of a RESET, the LEDs as they were.                          *)
AfterPutOnce(c) == Idle               \* mutant: a RESET restores no LEDs
AfterPut(c) ==
  IF ctx[c].puts = 2 /\ ctx[c].left = 0
    THEN [ctx[c] EXCEPT !.pc = "put", !.puts = 1, !.buf = <<>>]
  ELSE IF ctx[c].then = "restore" THEN InSetLed(previous_LED)
  ELSE Idle

Write(c) ==
  LET n == Min({Len(ctx[c].buf), Room - Len(line)})
  IN  /\ MayRun(c) /\ ctx[c].pc = "write"
      /\ line' = line \o SubSeq(ctx[c].buf, 1, n)
      /\ lost' = (lost \/ n < Len(ctx[c].buf))
      /\ ctx' = [ctx EXCEPT ![c] = AfterPut(c)]
      /\ UNCHANGED <<ack_flag, previous_LED, tx, wake, device, up, asked, called>>

-----------------------------------------------------------------------------
(* The serial line and the controller (mtcp.h): one byte arrives.  Every    *)
(* complete command is acknowledged.  Data where an opcode should be is an  *)
(* error, and the controller, whose debug lock-up nobody turns off, stops   *)
(* responding ("dead"); a digit may also be a harmless opcode (0xCB, a 2,   *)
(* is MTCP_CLK_POLL), all LEDs off never is.  "cut" is "command" to the      *)
(* controller: what comes next is the data of a command a RESET cut short.   *)
Opcode == {"command", "cut"}

Acknowledge == up' = Append(up, "ACK")

Receive ==
  /\ line # <<>> /\ Len(up) < MaxUp
  /\ line' = Tail(line) /\ wake' = TRUE
  /\ \/ /\ parse = "data"
        /\ leds' = Head(line) /\ parse' = "command" /\ Acknowledge
        /\ UNCHANGED enabled
     \/ /\ parse \in Opcode /\ Head(line) = "ENABLE"
        /\ enabled' = TRUE /\ parse' = "command" /\ Acknowledge
        /\ UNCHANGED leds
     \/ /\ parse \in Opcode /\ Head(line) = "LED_SET"
        /\ parse' = "data"
        /\ UNCHANGED <<leds, enabled, up>>
     \/ /\ parse \in Opcode /\ Head(line) \in Lit
        /\ parse' = "dead" \/ (Head(line) # "off" /\ parse' = "command")
        /\ UNCHANGED <<leds, enabled, up>>
     \/ /\ parse = "dead"
        /\ UNCHANGED <<leds, enabled, parse, up>>
  /\ UNCHANGED <<ctx, ack_flag, previous_LED, tx, lost, asked, called>>

(* Its RESET button, pressed again only after the host has answered: it      *)
(* starts afresh, perhaps within a command, and says so.                     *)
Reset ==
  /\ MayReset /\ Len(up) < MaxUp
  /\ "RESET" \notin Range(up) /\ ctx["rx"].pc = "idle"
  /\ leds' = "off" /\ enabled' = FALSE
  /\ parse' = IF line # <<>> /\ Head(line) \in Lit THEN "cut" ELSE "command"
  /\ up' = Append(up, "RESET")
  /\ UNCHANGED <<ctx, ack_flag, previous_LED, tx, driver, asked, called>>

-----------------------------------------------------------------------------
LineDiscipline(c) == StoreLed(c) \/ Put(c) \/ WriteRoom(c) \/ Take(c) \/ Write(c)

Next == \/ TuxInit \/ \E v \in Led : TuxSetLed(v)
        \/ HandlePacket \/ Wakeup
        \/ \E c \in Ctx : LineDiscipline(c)
        \/ Receive \/ Reset

(* Nobody need call an ioctl or press RESET; an interrupt that is due comes, *)
(* a context that can run does, and the line carries what it is given.       *)
Fairness == /\ WF_vars(HandlePacket) /\ WF_vars(Wakeup) /\ WF_vars(Receive)
            /\ \A c \in Ctx : WF_vars(LineDiscipline(c))

Spec == Init /\ [][Next]_vars /\ Fairness

-----------------------------------------------------------------------------
(* The serial driver refuses no byte, and the controller takes no opcode    *)
(* for data, nor data for an opcode but the rest of a command that a RESET  *)
(* cut short: commands arrive whole and one after the other, whichever      *)
(* contexts put them.                                                       *)
CommandsArriveWhole ==
  /\ ~lost
  /\ line # <<>> /\ parse \in {"command", "data"} => (parse = "data" <=> Head(line) \in Lit)

(* When nothing is under way, the LEDs show what the last call that the     *)
(* driver took asked for and the buttons are reported, however often a      *)
(* paced user reset the controller, unless it has locked up over the rest   *)
(* of a command that a RESET cut short.                                      *)
AtRest == /\ \A c \in Ctx : ctx[c].pc = "idle"
          /\ tx = <<>> /\ line = <<>> /\ up = <<>>
DeviceFollows == AtRest /\ asked # "none" /\ parse # "dead" => leds = asked /\ enabled

(* An LED command is acknowledged, so that the next one is not dropped, by  *)
(* a controller that has not locked up.                                      *)
AckReturns == ack_flag = 1 ~> ack_flag = 0 \/ parse = "dead"

(* What the comment in tuxctl_handle_packet says: after a RESET the LEDs are *)
(* as they were.  It does not hold: a controller that locks up shows 0xdEAd. *)
ResetRestores == AtRest /\ asked # "none" => leds = asked /\ parse # "dead"

(* What the header of tuxctl_ioctl says, that it returns 0 on success: the   *)
(* LEDs come to show what it was last called with.  It does not hold: DropLed *)
(* returns 0 as well.                                                        *)
CallSucceeds == AtRest /\ called # "none" /\ parse # "dead" => leds = called
=============================================================================
