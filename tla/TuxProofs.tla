------------------------------ MODULE TuxProofs -------------------------------
(***************************************************************************)
(* That commands reach the controller whole and leave it as the program has *)
(* asked, on one processor, from a paced program, for every set of LED      *)
(* states and every size of the ring and of the driver's buffer from the    *)
(* ones named in Enough on; and that the packets from the controller that   *)
(* the line has not damaged are handled in order, and at once while the     *)
(* chunks fit, for every size of ring, array and chunk, as long as the ring *)
(* has room and no two packets in a row are damaged (Spared).               *)
(***************************************************************************)
EXTENDS TuxSend, TuxReceive, SequenceTheorems, WellFoundedInduction, TLAPS

(* What the ring and the driver have to hold: the rest of the last command, *)
(* a command's two copies and what the answer to a RESET sends.             *)
Enough == /\ Smp = FALSE /\ Freedoms = {}
          /\ BufSize >= 7 /\ Room >= Quiet + 16

Pc == {"idle", "led", "put", "room", "take", "write"}

Context == [pc : Pc, pkt : Seq(Byte), puts : {0, 1, 2}, then : {"done", "restore"}, arg : Lit,
            left : {0}, room : Nat, buf : Seq(Byte)]

Types == /\ ctx \in [Ctx -> Context] /\ previous_LED \in Lit
         /\ tx \in Seq(Byte) /\ line \in Seq(Byte) /\ up \in Seq({"ACK", "RESET"})
         /\ parse \in {"command", "cut", "data", "dead"} /\ lost = FALSE

(* An opcode that wants data has it right behind. *)
Whole(s) == \A i \in 1..Len(s) : s[i] = "LED_SET" => i < Len(s) /\ s[i+1] \in Lit

(* A context's locals at each of its places. *)
AtPlace(c, x) ==
  /\ x.pc # "write" => x.buf = <<>>
  /\ Whole(x.buf)
  /\ IF c = "tx" THEN x.pc \notin {"led", "put"} /\ x.puts = 0 /\ x.then = "done"
     ELSE x.pc \notin {"idle", "led"} =>
            x.puts \in {1, 2} /\ Len(x.pkt) \in {2, 3} /\ Whole(x.pkt)

Places == \A c \in Ctx : AtPlace(c, ctx[c])

Exclusive == ctx["rx"].pc = "idle" \/ ctx["tx"].pc = "idle"

Pushing(c) == ctx[c].pc \in {"room", "take"}

(* The ring holds something only between a put and the taking of it; what a *)
(* context takes is always all there is, although the room it has asked for *)
(* may be stale.                                                            *)
Ring == /\ tx # <<>> => Pushing("ioctl") \/ Pushing("rx")
        /\ ctx["rx"].pc = "write" => tx = <<>>
        /\ Len(tx) <= IF Pushing("rx") THEN 6 ELSE 3
        /\ \A c \in Ctx : ctx[c].pc = "take" /\ (c = "ioctl" => ~Pushing("rx"))
                            => Len(tx) <= ctx[c].room

AllWhole == /\ Whole(tx) /\ Whole(line)
            /\ parse = "data" => line # <<>> /\ line[1] \in Lit

OneReset == \A i, j \in 1..Len(up) : up[i] = "RESET" /\ up[j] = "RESET" => i = j

(* The bytes that a context has yet to put. *)
First(x)    == IF x.pc = "put" THEN Len(x.pkt) ELSE 0
Second(x)   == IF x.puts = 2 THEN Len(x.pkt) ELSE 0
Restored(x) == IF x.then = "restore" THEN 4 ELSE 0

Owed(x) == IF x.pc = "idle" THEN 0
           ELSE IF x.pc = "led" THEN 4
           ELSE First(x) + Second(x) + Restored(x)

Held(x) == Len(x.buf) + Owed(x)

Answer == IF \E i \in 1..Len(up) : up[i] = "RESET" THEN 10 ELSE 0

(* What the program's own command may still send, and what there is in all. *)
Loose   == IF ctx["rx"].pc = "idle" THEN Len(tx) ELSE 0
OwnLoad == Held(ctx["ioctl"]) + Held(ctx["tx"]) + Loose <= 6
Load    == Len(line) + Len(tx) + Held(ctx["ioctl"]) + Held(ctx["tx"]) + Held(ctx["rx"])
             + Answer <= Quiet + 16

SendInv == Types /\ Places /\ Exclusive /\ Ring /\ AllWhole /\ OneReset /\ OwnLoad /\ Load

(* A call that the driver takes, and one that changes nothing but itself.   *)
Call == TuxInit \/ \E v \in Led : TuxSetLed(v) /\ TakeLed(v)
Same == UNCHANGED <<ctx, ack_flag, previous_LED, tx, driver, device, up, asked>>

LEMMA CallOrSame ==
  ASSUME [Next]_vars
  PROVE  \/ Call \/ Same \/ HandlePacket \/ Wakeup
         \/ \E c \in Ctx : LineDiscipline(c)
         \/ Receive \/ Reset
<1>1. CASE UNCHANGED vars
  BY <1>1 DEF vars, Same
<1>2. ASSUME NEW v \in Led, TuxSetLed(v)
      PROVE  Call \/ Same
  BY <1>2 DEF TuxSetLed, DropLed, Call, Same
<1> QED
  BY <1>1, <1>2 DEF Next, Call

-----------------------------------------------------------------------------
LEMMA MinIsLast ==
  ASSUME NEW a \in Nat, NEW b \in Nat, a >= b
  PROVE  Min({a, b}) = b
BY DEF Min

LEMMA MinIsFirst ==
  ASSUME NEW a \in Nat, NEW b \in Nat, a <= b
  PROVE  Min({a, b}) = a
BY DEF Min

LEMMA SubSeqAll ==
  ASSUME NEW S, NEW s \in Seq(S)
  PROVE  SubSeq(s, 1, Len(s)) = s /\ SubSeq(s, Len(s) + 1, Len(s)) = <<>>
OBVIOUS

LEMMA WholeConcat ==
  ASSUME NEW s \in Seq(Byte), NEW t \in Seq(Byte), Whole(s), Whole(t)
  PROVE  Whole(s \o t)
<1> SUFFICES ASSUME NEW i \in 1..Len(s \o t), (s \o t)[i] = "LED_SET"
             PROVE  i < Len(s \o t) /\ (s \o t)[i+1] \in Lit
  BY DEF Whole
<1>1. CASE i <= Len(s)
  BY <1>1 DEF Whole
<1>2. CASE i > Len(s)
  <2>1. i - Len(s) \in 1..Len(t) /\ (s \o t)[i] = t[i - Len(s)]
    BY <1>2
  <2>2. i - Len(s) < Len(t) /\ t[i - Len(s) + 1] \in Lit
    BY <2>1 DEF Whole
  <2> QED
    BY <1>2, <2>2
<1> QED
  BY <1>1, <1>2

LEMMA WholeTail ==
  ASSUME NEW s \in Seq(Byte), Whole(s), s # <<>>
  PROVE  Whole(Tail(s)) /\ Tail(s) \in Seq(Byte) /\ Len(Tail(s)) = Len(s) - 1
BY DEF Whole

LEMMA Packets ==
  /\ InitPacket \in Seq(Byte) /\ Len(InitPacket) = 3 /\ Whole(InitPacket)
  /\ \A v \in Lit : LedPacket(v) \in Seq(Byte) /\ Len(LedPacket(v)) = 2 /\ Whole(LedPacket(v))
BY TuxSendAssumption DEF InitPacket, LedPacket, Whole, Byte, Lit

LEMMA InitInv ==
  ASSUME Init
  PROVE  SendInv
<1>1. Idle \in Context /\ ctx = [c \in Ctx |-> Idle]
  BY DEF Init, Idle, Context, Pc, Lit, Ctx
<1>2. Types
  BY <1>1 DEF Init, Types, Lit
<1>3. Places
  BY <1>1 DEF Places, AtPlace, Idle, Whole
<1>4. Exclusive /\ Ring /\ AllWhole /\ OneReset
  BY <1>1 DEF Init, Exclusive, Ring, Pushing, AllWhole, Whole, OneReset, Idle, Ctx
<1>5. \A c \in Ctx : Held(ctx[c]) = 0
  BY <1>1 DEF Held, Owed, Idle
<1>6. OwnLoad /\ Load
  BY <1>1, <1>5, TuxSendAssumption DEF OwnLoad, Loose, Load, Answer, Init, Ctx, Idle
<1> QED
  BY <1>2, <1>3, <1>4, <1>6 DEF SendInv

(* What a context holds is a number, and its place bounds it. *)
LEMMA HeldIsNat ==
  ASSUME NEW x \in Context
  PROVE  Owed(x) \in Nat /\ Held(x) \in Nat /\ Len(x.buf) \in Nat /\ Len(x.pkt) \in Nat
<1>1. Len(x.buf) \in Nat /\ Len(x.pkt) \in Nat
  BY DEF Context
<1>2. First(x) \in Nat /\ Second(x) \in Nat /\ Restored(x) \in Nat
  BY <1>1 DEF First, Second, Restored
<1> QED
  BY <1>1, <1>2 DEF Held, Owed

(* A step that changes one context, and nothing else that the load counts. *)
LEMMA Begun ==
  ASSUME NEW v \in Lit, NEW then \in {"done", "restore"}
  PROVE  /\ InInit(then) \in Context /\ InSetLed(v) \in Context
         /\ \A c \in {"ioctl", "rx"} : AtPlace(c, InInit(then)) /\ AtPlace(c, InSetLed(v))
         /\ Held(InInit("done")) = 6 /\ Held(InInit("restore")) = 10 /\ Held(InSetLed(v)) = 4
         /\ InInit(then).pc = "put" /\ InSetLed(v).pc = "led"
<1>1. /\ InInit(then).buf = <<>> /\ InSetLed(v).buf = <<>> /\ InInit(then).pc = "put"
      /\ InSetLed(v).pc = "led" /\ InInit(then).puts = 2 /\ InInit(then).pkt = InitPacket
      /\ InInit(then).then = then
  BY DEF InInit, InSetLed, Idle
<1>2. InInit(then) \in Context /\ InSetLed(v) \in Context
  <2>1. Idle \in Context
    BY DEF Idle, Context, Pc, Lit
  <2>2. InInit(then) \in Context
    BY <2>1, Packets DEF InInit, Context, Pc
  <2>3. InSetLed(v) \in Context
    BY <2>1 DEF InSetLed, Context, Pc
  <2> QED
    BY <2>2, <2>3
<1>3. \A c \in {"ioctl", "rx"} : AtPlace(c, InInit(then)) /\ AtPlace(c, InSetLed(v))
  BY <1>1, Packets DEF AtPlace, Whole
<1>4. Held(InInit("done")) = 6 /\ Held(InInit("restore")) = 10
  <2>1. ASSUME NEW t \in {"done", "restore"}
        PROVE  /\ InInit(t).pc = "put" /\ InInit(t).puts = 2 /\ InInit(t).then = t
               /\ Len(InInit(t).pkt) = 3 /\ Len(InInit(t).buf) = 0
    BY Packets DEF InInit, Idle
  <2>2. ASSUME NEW t \in {"done", "restore"}
        PROVE  Held(InInit(t)) = 6 + Restored(InInit(t))
    <3>1. First(InInit(t)) = 3 /\ Second(InInit(t)) = 3 /\ Restored(InInit(t)) \in Nat
      BY <2>1 DEF First, Second, Restored
    <3> QED
      BY <2>1, <3>1 DEF Held, Owed
  <2>3. Restored(InInit("done")) = 0 /\ Restored(InInit("restore")) = 4
    BY <2>1 DEF Restored
  <2> QED
    BY <2>2, <2>3
<1>5. Held(InSetLed(v)) = 4
  BY <1>1 DEF Held, Owed
<1> QED
  BY <1>1, <1>2, <1>3, <1>4, <1>5

-----------------------------------------------------------------------------
LEMMA CallStep ==
  ASSUME Enough, SendInv, Call
  PROVE  SendInv'
<1>1. /\ \A c \in Ctx : ctx[c].pc = "idle"
      /\ Len(line) <= Quiet /\ up = <<>>
      /\ UNCHANGED <<previous_LED, tx, driver, device, up>>
  BY DEF Call, Enough, TuxInit, TuxSetLed, MayStart, MayCall, Ctx
<1>2. PICK x \in Context :
        /\ ctx' = [ctx EXCEPT !["ioctl"] = x]
        /\ AtPlace("ioctl", x) /\ Held(x) <= 6 /\ x.pc \in {"put", "led"}
  <2>1. CASE TuxInit
    <3>1. "off" \in Lit
      BY DEF Lit
    <3>2. /\ InInit("done") \in Context /\ AtPlace("ioctl", InInit("done"))
          /\ Held(InInit("done")) <= 6 /\ InInit("done").pc \in {"put", "led"}
      BY <3>1, Begun
    <3> QED
      BY <2>1, <3>2 DEF TuxInit
  <2>2. CASE \E v \in Led : TuxSetLed(v) /\ TakeLed(v)
    <3>1. PICK v \in Led : TakeLed(v)
      BY <2>2
    <3>2. /\ InSetLed(v) \in Context /\ AtPlace("ioctl", InSetLed(v))
          /\ Held(InSetLed(v)) <= 6 /\ InSetLed(v).pc \in {"put", "led"}
      BY Begun DEF Lit
    <3> QED
      BY <3>1, <3>2 DEF TakeLed
  <2> QED
    BY <2>1, <2>2 DEF Call
<1>3. /\ ctx \in [Ctx -> Context] /\ ctx' \in [Ctx -> Context] /\ ctx'["ioctl"] = x
      /\ \A c \in {"rx", "tx"} : ctx'[c] = ctx[c]
  BY <1>2 DEF SendInv, Types, Ctx
<1>4. Types'
  BY <1>1, <1>3 DEF SendInv, Types, driver, device
<1>5. Places' /\ Exclusive'
  BY <1>1, <1>2, <1>3 DEF SendInv, Places, Exclusive, Ctx
<1>6. tx = <<>>
  BY <1>1 DEF SendInv, Ring, Pushing, Ctx
<1>7. Ring'
  BY <1>1, <1>2, <1>3, <1>6 DEF Ring, Pushing, Ctx
<1>8. AllWhole' /\ OneReset'
  BY <1>1 DEF SendInv, AllWhole, OneReset, Whole, driver, device
<1>9. Held(ctx["rx"]) = 0 /\ Held(ctx["tx"]) = 0
  BY <1>1, <1>3 DEF SendInv, Places, AtPlace, Held, Owed, Ctx
<1>10. Len(line) \in Nat /\ Held(x) \in Nat /\ Quiet \in Nat
  BY HeldIsNat, TuxSendAssumption DEF SendInv, Types
<1>11. OwnLoad' /\ Load'
  BY <1>1, <1>2, <1>3, <1>6, <1>9, <1>10 DEF OwnLoad, Loose, Load, Answer, Held, Owed, driver
<1> QED
  BY <1>4, <1>5, <1>7, <1>8, <1>11 DEF SendInv

(* What a context holds at each of its places. *)
LEMMA HeldAt ==
  ASSUME NEW c \in Ctx, NEW x \in Context, AtPlace(c, x)
  PROVE  /\ Second(x) \in Nat /\ Restored(x) \in Nat /\ Len(x.pkt) \in Nat /\ Len(x.buf) \in Nat
         /\ x.pc = "idle" => Held(x) = 0
         /\ x.pc = "led"  => Held(x) = 4
         /\ x.pc = "put"  => Held(x) = Len(x.pkt) + Second(x) + Restored(x)
         /\ x.pc \in {"room", "take"} => Held(x) = Second(x) + Restored(x)
         /\ x.pc = "write" => Held(x) = Len(x.buf) + Second(x) + Restored(x)
         /\ c = "tx" => Second(x) = 0 /\ Restored(x) = 0
<1>1. Len(x.buf) \in Nat /\ Len(x.pkt) \in Nat
  BY DEF Context
<1>2. Second(x) \in Nat /\ Restored(x) \in Nat
  BY <1>1 DEF Second, Restored
<1>3. x.pc # "write" => Len(x.buf) = 0
  BY DEF AtPlace
<1>4. First(x) = IF x.pc = "put" THEN Len(x.pkt) ELSE 0
  BY DEF First
<1>5. c = "tx" => Second(x) = 0 /\ Restored(x) = 0
  BY DEF AtPlace, Second, Restored
<1> QED
  BY <1>1, <1>2, <1>3, <1>4, <1>5 DEF Held, Owed

(* A step that changes one context. *)
LEMMA Changed ==
  ASSUME Types, Places, NEW c \in Ctx, NEW x \in Context, AtPlace(c, x),
         ctx' = [ctx EXCEPT ![c] = x]
  PROVE  /\ ctx' \in [Ctx -> Context] /\ Places'
         /\ ctx'[c] = x /\ \A d \in Ctx \ {c} : ctx'[d] = ctx[d]
BY DEF Types, Places

(* What the invariant says in numbers. *)
LEMMA Numbers ==
  ASSUME SendInv
  PROVE  /\ Len(line) \in Nat /\ Len(tx) \in Nat /\ Quiet \in Nat /\ Room \in Nat /\ BufSize \in Nat
         /\ \A c \in Ctx : Held(ctx[c]) \in Nat /\ ctx[c] \in Context /\ AtPlace(c, ctx[c])
         /\ Answer \in {0, 10}
BY HeldIsNat, TuxSendAssumption DEF SendInv, Types, Places, Answer

LEMMA Loads ==
  ASSUME SendInv
  PROVE  OwnLoad /\ Load
BY DEF SendInv

LEMMA HandlePacketStep ==
  ASSUME Enough, SendInv, HandlePacket
  PROVE  SendInv'
<1>1. /\ ctx["rx"].pc = "idle" /\ ctx["tx"].pc = "idle" /\ up # <<>> /\ up' = Tail(up)
      /\ UNCHANGED <<previous_LED, tx, driver, device>>
  BY DEF Enough, HandlePacket, MayStart
<1>2. /\ up \in Seq({"ACK", "RESET"}) /\ up' \in Seq({"ACK", "RESET"}) /\ Len(up') = Len(up) - 1
      /\ \A i \in 1..Len(up') : up'[i] = up[i+1]
      /\ up[1] = Head(up) /\ Len(up) \in Nat \ {0}
  BY <1>1 DEF SendInv, Types
<1>3. OneReset'
  BY <1>2 DEF SendInv, OneReset
<1>4. AllWhole'
  BY <1>1 DEF SendInv, AllWhole, Whole, driver, device
<1>5. Held(ctx["rx"]) = 0
  BY <1>1, Numbers, HeldAt DEF Ctx
<1>6. CASE Head(up) = "RESET"
  <2>1. ctx' = [ctx EXCEPT !["rx"] = InInit("restore")]
    BY <1>6 DEF HandlePacket
  <2>2. /\ InInit("restore") \in Context /\ AtPlace("rx", InInit("restore"))
        /\ Held(InInit("restore")) = 10 /\ InInit("restore").pc = "put"
    BY Begun DEF Lit
  <2>3. /\ ctx' \in [Ctx -> Context] /\ Places'
        /\ ctx'["rx"] = InInit("restore") /\ \A d \in Ctx \ {"rx"} : ctx'[d] = ctx[d]
    BY <2>1, <2>2, Changed DEF SendInv, Ctx
  <2>4. Types'
    BY <1>1, <1>2, <2>3 DEF SendInv, Types, driver, device
  <2>5. Exclusive' /\ Ring'
    BY <1>1, <2>2, <2>3 DEF SendInv, Exclusive, Ring, Pushing, Ctx
  <2>6. Answer = 10 /\ Answer' = 0
    BY <1>2, <1>6 DEF SendInv, OneReset, Answer
  <2>7. OwnLoad' /\ Load'
    BY <1>1, <1>5, <2>2, <2>3, <2>6, Numbers, Loads DEF OwnLoad, Loose, Load, Ctx, driver
  <2> QED
    BY <1>3, <1>4, <2>3, <2>4, <2>5, <2>7 DEF SendInv
<1>7. CASE Head(up) # "RESET"
  <2>1. ctx' = ctx
    BY <1>7 DEF HandlePacket
  <2>2. Types'
    BY <1>1, <1>2, <2>1 DEF SendInv, Types, driver, device
  <2>3. Places' /\ Exclusive' /\ Ring'
    BY <1>1, <2>1 DEF SendInv, Places, Exclusive, Ring, Pushing
  <2>4. Answer' = Answer
    <3>1. ASSUME NEW i \in 1..Len(up), up[i] = "RESET"
          PROVE  \E j \in 1..Len(up') : up'[j] = "RESET"
      <4>1. i # 1
        BY <1>2, <1>7, <3>1
      <4>2. i - 1 \in 1..Len(up') /\ up'[i - 1] = up[i]
        BY <1>2, <4>1
      <4> QED
        BY <3>1, <4>2
    <3>2. ASSUME NEW j \in 1..Len(up'), up'[j] = "RESET"
          PROVE  \E i \in 1..Len(up) : up[i] = "RESET"
      BY <1>2, <3>2, j + 1 \in 1..Len(up)
    <3> QED
      BY <3>1, <3>2 DEF Answer
  <2>5. OwnLoad' /\ Load'
    BY <1>1, <2>1, <2>4, Loads DEF OwnLoad, Loose, Load, driver
  <2> QED
    BY <1>3, <1>4, <2>2, <2>3, <2>5 DEF SendInv
<1> QED
  BY <1>6, <1>7

LEMMA StoreLedStep ==
  ASSUME Enough, SendInv, NEW c \in Ctx, StoreLed(c)
  PROVE  SendInv'
<1> DEFINE x == [Idle EXCEPT !.pc = "put", !.puts = 2, !.pkt = LedPacket(ctx[c].arg)]
<1>1. /\ ctx[c].pc = "led" /\ ctx[c].arg \in Lit /\ c # "tx"
      /\ previous_LED' \in Lit /\ ctx' = [ctx EXCEPT ![c] = x]
      /\ UNCHANGED <<tx, driver, device, up>>
  BY Numbers DEF StoreLed, AtPlace, Context
<1>2. x \in Context
  <2>1. Idle \in Context
    BY DEF Idle, Context, Pc, Lit
  <2> QED
    BY <1>1, <2>1, Packets DEF Context, Pc
<1>3. /\ x.pc = "put" /\ x.puts = 2 /\ x.pkt = LedPacket(ctx[c].arg) /\ x.buf = <<>>
      /\ x.then = "done"
  BY DEF Idle
<1> HIDE DEF x
<1>4. AtPlace(c, x) /\ Held(x) = 4 /\ Held(ctx[c]) = 4
  <2>1. AtPlace(c, x)
    BY <1>1, <1>3, Packets DEF AtPlace, Whole
  <2>2. Len(x.pkt) = 2 /\ Second(x) = 2 /\ Restored(x) = 0
    BY <1>1, <1>3, Packets DEF Second, Restored
  <2>3. Held(x) = 4
    <3>1. Held(x) = Len(x.pkt) + Second(x) + Restored(x)
      BY <1>2, <1>3, <2>1, HeldAt
    <3> QED
      BY <2>2, <3>1
  <2>4. Held(ctx[c]) = 4
    BY <1>1, Numbers, HeldAt
  <2> QED
    BY <2>1, <2>3, <2>4
<1>5. /\ ctx' \in [Ctx -> Context] /\ Places'
      /\ ctx'[c] = x /\ \A d \in Ctx \ {c} : ctx'[d] = ctx[d]
  BY <1>1, <1>2, <1>4, Changed DEF SendInv
<1>6. Types'
  BY <1>1, <1>5 DEF SendInv, Types, driver, device
<1>7. \A d \in Ctx : (ctx'[d].pc = "idle" <=> ctx[d].pc = "idle")
  BY <1>1, <1>3, <1>5
<1>8. Exclusive' /\ Ring'
  BY <1>1, <1>3, <1>5 DEF SendInv, Exclusive, Ring, Pushing, Ctx
<1>9. AllWhole' /\ OneReset' /\ Answer' = Answer
  BY <1>1 DEF SendInv, AllWhole, OneReset, Answer, Whole, driver, device
<1>10. \A d \in Ctx : Held(ctx'[d]) = Held(ctx[d])
  BY <1>4, <1>5
<1>11. OwnLoad' /\ Load'
  BY <1>1, <1>7, <1>9, <1>10, Loads DEF OwnLoad, Loose, Load, Ctx, driver
<1> QED
  BY <1>5, <1>6, <1>8, <1>9, <1>11 DEF SendInv

(* A packet fits in the ring, and is put whole. *)
LEMMA PutAll ==
  ASSUME Enough, SendInv, NEW c \in Ctx, Put(c)
  PROVE  /\ Min({Len(ctx[c].pkt), BufSize - 1 - Len(tx)}) = Len(ctx[c].pkt)
         /\ Len(ctx[c].pkt) \in {2, 3} /\ ctx[c].pkt \in Seq(Byte)
         /\ c # "tx" /\ Len(tx) <= 3
         /\ c = "ioctl" => ctx["rx"].pc = "idle" /\ tx = <<>>
<1> DEFINE k == Len(ctx[c].pkt)
<1>1. /\ ctx[c].pc = "put" /\ ctx[c] \in Context /\ AtPlace(c, ctx[c])
      /\ c = "ioctl" => ctx["rx"].pc = "idle" /\ ctx["tx"].pc = "idle"
  BY Numbers DEF Put, MayRun, Enough
<1>2. c # "tx" /\ k \in {2, 3}
  BY <1>1 DEF AtPlace
<1>3. ctx[c].pkt \in Seq(Byte)
  BY <1>1 DEF Context
<1>4. /\ c = "ioctl" => ctx["rx"].pc = "idle" /\ tx = <<>>
      /\ Len(tx) <= 3
  BY <1>1, <1>2 DEF SendInv, Ring, Pushing, Ctx
<1>5. BufSize \in Nat /\ Len(tx) \in Nat /\ BufSize >= 7
  BY Numbers DEF Enough
<1> HIDE DEF k
<1>6. k \in Nat /\ BufSize - 1 - Len(tx) \in Nat /\ k <= BufSize - 1 - Len(tx)
  BY <1>2, <1>4, <1>5
<1>7. Min({k, BufSize - 1 - Len(tx)}) = k
  BY <1>6, MinIsFirst
<1> QED
  BY <1>2, <1>3, <1>4, <1>7 DEF k

LEMMA PutStep ==
  ASSUME Enough, SendInv, NEW c \in Ctx, Put(c)
  PROVE  SendInv'
<1> DEFINE old == ctx[c]
           k   == Len(old.pkt)
           n   == Min({k, BufSize - 1 - Len(tx)})
           x   == [old EXCEPT !.pc = "room", !.left = k - n]
<1>1. /\ old.pc = "put" /\ old \in Context /\ AtPlace(c, old)
      /\ tx' = tx \o SubSeq(old.pkt, 1, n)
      /\ ctx' = [ctx EXCEPT ![c].pc = "room", ![c].left = k - n]
      /\ UNCHANGED <<previous_LED, driver, device, up>>
  BY Numbers DEF Put
<1>2. /\ c # "tx" /\ old.puts \in {1, 2} /\ k \in {2, 3} /\ Whole(old.pkt) /\ old.buf = <<>>
      /\ old.pkt \in Seq(Byte) /\ k \in Nat /\ 2 <= k /\ k <= 3
  <2>1. c # "tx" /\ old.puts \in {1, 2} /\ k \in {2, 3} /\ Whole(old.pkt) /\ old.buf = <<>>
    BY <1>1 DEF AtPlace
  <2>2. k \in Nat /\ 2 <= k /\ k <= 3
    <3> HIDE DEF k
    <3> QED
      BY <2>1
  <2> QED
    BY <2>1, <2>2, PutAll
<1>3. /\ c = "ioctl" => ctx["rx"].pc = "idle" /\ tx = <<>>
      /\ Len(tx) <= 3
  BY PutAll
<1>4. n = k
  BY PutAll
<1>5. SubSeq(old.pkt, 1, n) = old.pkt /\ k - n = 0
  BY <1>2, <1>4, SubSeqAll
<1>6. /\ tx' = tx \o old.pkt /\ tx' \in Seq(Byte) /\ Len(tx') = Len(tx) + k
      /\ Whole(tx')
  <2>1. tx' = tx \o old.pkt
    BY <1>1, <1>5
  <2>2. tx \in Seq(Byte) /\ Whole(tx)
    BY DEF SendInv, Types, AllWhole
  <2>3. Whole(tx \o old.pkt)
    BY <1>2, <2>2, WholeConcat
  <2> QED
    BY <1>2, <2>1, <2>2, <2>3
<1>7. x \in Context /\ x.pc = "room" /\ x.puts = old.puts /\ x.pkt = old.pkt /\ x.buf = <<>>
      /\ x.then = old.then
  BY <1>1, <1>2, <1>5 DEF Context, Pc
<1>8. ctx' = [ctx EXCEPT ![c] = x]
  BY <1>1
<1> HIDE DEF x, n
<1>9. AtPlace(c, x)
  BY <1>1, <1>2, <1>7 DEF AtPlace
<1>10. /\ ctx' \in [Ctx -> Context] /\ Places'
       /\ ctx'[c] = x /\ \A d \in Ctx \ {c} : ctx'[d] = ctx[d]
  BY <1>7, <1>8, <1>9, Changed DEF SendInv
<1>11. Held(x) = Held(old) - k /\ Held(old) \in Nat
  <2>1. Second(x) = Second(old) /\ Restored(x) = Restored(old)
    BY <1>7 DEF Second, Restored
  <2>2. Held(x) = Second(x) + Restored(x)
    BY <1>7, <1>9, HeldAt
  <2>3. /\ Held(old) = k + Second(old) + Restored(old)
        /\ Second(old) \in Nat /\ Restored(old) \in Nat
    BY <1>1, HeldAt
  <2> QED
    BY <1>2, <2>1, <2>2, <2>3
<1>12. Types'
  BY <1>1, <1>6, <1>10 DEF SendInv, Types, driver, device
<1>13. Exclusive'
  BY <1>1, <1>7, <1>10 DEF SendInv, Exclusive, Ctx
<1>14. Ring'
  <2>1. tx' # <<>> => Pushing("ioctl")' \/ Pushing("rx")'
    BY <1>2, <1>7, <1>10 DEF Pushing, Ctx
  <2>2. Len(tx') <= IF Pushing("rx")' THEN 6 ELSE 3
    <3>1. CASE c = "ioctl"
      <4>1. Len(tx) = 0
        BY <1>3, <3>1
      <4> QED
        BY <1>2, <1>6, <4>1
    <3>2. CASE c = "rx"
      <4>1. Pushing("rx")'
        BY <1>7, <1>10, <3>2 DEF Pushing
      <4> QED
        BY <1>2, <1>3, <1>6, <4>1, Len(tx) \in Nat
    <3> QED
      BY <1>2, <3>1, <3>2 DEF Ctx
  <2>3. ASSUME NEW d \in Ctx, ctx'[d].pc = "take", d = "ioctl" => ~Pushing("rx")'
        PROVE  FALSE
    <3>1. d # c /\ ctx[d].pc = "take"
      BY <1>7, <1>10, <2>3
    <3>2. CASE c = "ioctl"
      BY <1>1, <1>3, <3>1, <3>2 DEF Put, MayRun, Enough, Ctx
    <3>3. CASE c = "rx"
      BY <1>1, <1>7, <1>10, <2>3, <3>1, <3>3 DEF SendInv, Exclusive, Pushing, Ctx
    <3> QED
      BY <1>2, <3>2, <3>3 DEF Ctx
  <2>4. ctx'["rx"].pc # "write"
    BY <1>2, <1>3, <1>7, <1>10 DEF Ctx
  <2> QED
    BY <2>1, <2>2, <2>3, <2>4 DEF Ring
<1>15. AllWhole' /\ OneReset' /\ Answer' = Answer
  BY <1>1, <1>6 DEF SendInv, AllWhole, OneReset, Answer, Whole, driver, device
<1>16. OwnLoad' /\ Load'
  <2>1. Len(line') = Len(line) /\ (Answer)' = Answer
    BY <1>1, <1>15 DEF driver
  <2>2. CASE c = "ioctl"
    <3>1. /\ Held(ctx'["ioctl"]) = Held(ctx["ioctl"]) - k
          /\ Held(ctx'["tx"]) = Held(ctx["tx"]) /\ Held(ctx'["rx"]) = Held(ctx["rx"])
          /\ ctx["rx"].pc = "idle" /\ ctx'["rx"].pc = "idle"
      BY <1>3, <1>10, <1>11, <2>2 DEF Ctx
    <3>2. /\ Held(ctx["ioctl"]) \in Nat /\ Held(ctx["tx"]) \in Nat /\ Held(ctx["rx"]) \in Nat
          /\ Len(tx) \in Nat /\ Len(line) \in Nat /\ Answer \in Nat /\ Quiet \in Nat
      BY Numbers DEF Ctx
    <3>3. Loose = Len(tx) /\ Loose' = Len(tx')
      BY <3>1 DEF Loose
    <3> HIDE DEF k, old
    <3>4. OwnLoad'
      BY <1>2, <1>6, <3>1, <3>2, <3>3, Loads DEF OwnLoad
    <3>5. Load'
      BY <1>2, <1>6, <2>1, <3>1, <3>2, Loads DEF Load
    <3> QED
      BY <3>4, <3>5
  <2>3. CASE c = "rx"
    <3>1. /\ Held(ctx'["rx"]) = Held(ctx["rx"]) - k
          /\ Held(ctx'["tx"]) = Held(ctx["tx"]) /\ Held(ctx'["ioctl"]) = Held(ctx["ioctl"])
          /\ ctx["rx"].pc # "idle" /\ ctx'["rx"].pc # "idle"
      BY <1>1, <1>7, <1>10, <1>11, <2>3 DEF Ctx
    <3>2. /\ Held(ctx["ioctl"]) \in Nat /\ Held(ctx["tx"]) \in Nat /\ Held(ctx["rx"]) \in Nat
          /\ Len(tx) \in Nat /\ Len(line) \in Nat /\ Answer \in Nat /\ Quiet \in Nat
      BY Numbers DEF Ctx
    <3>3. Loose = 0 /\ Loose' = 0
      BY <3>1 DEF Loose
    <3> HIDE DEF k, old
    <3>4. OwnLoad'
      BY <1>2, <1>6, <3>1, <3>2, <3>3, Loads DEF OwnLoad
    <3>5. Load'
      BY <1>2, <1>6, <2>1, <3>1, <3>2, Loads DEF Load
    <3> QED
      BY <3>4, <3>5
  <2> QED
    BY <1>2, <2>2, <2>3 DEF Ctx
<1> QED
  BY <1>10, <1>12, <1>13, <1>14, <1>15, <1>16 DEF SendInv

LEMMA WakeupStep ==
  ASSUME Enough, SendInv, Wakeup
  PROVE  SendInv'
<1> DEFINE x == [Idle EXCEPT !.pc = "room"]
<1>1. /\ ctx["rx"].pc = "idle" /\ ctx["tx"].pc = "idle" /\ ctx' = [ctx EXCEPT !["tx"] = x]
      /\ UNCHANGED <<previous_LED, tx, line, lost, device, up>>
  BY DEF Enough, Wakeup, MayStart
<1>2. x \in Context
  <2>1. Idle \in Context
    BY DEF Idle, Context, Pc, Lit
  <2> QED
    BY <2>1 DEF Context, Pc
<1>3. x.pc = "room" /\ x.puts = 0 /\ x.then = "done" /\ x.buf = <<>>
  BY DEF Idle
<1> HIDE DEF x
<1>4. AtPlace("tx", x)
  BY <1>3 DEF AtPlace, Whole
<1>5. Held(x) = 0 /\ Held(ctx["tx"]) = 0
  BY <1>1, <1>2, <1>3, <1>4, HeldAt, Numbers DEF Ctx
<1>6. /\ ctx' \in [Ctx -> Context] /\ Places'
      /\ ctx'["tx"] = x /\ \A d \in Ctx \ {"tx"} : ctx'[d] = ctx[d]
  BY <1>1, <1>2, <1>4, Changed DEF SendInv, Ctx
<1>7. Types'
  BY <1>1, <1>6 DEF SendInv, Types, device
<1>8. Exclusive' /\ Ring'
  BY <1>1, <1>3, <1>6 DEF SendInv, Exclusive, Ring, Pushing, Ctx
<1>9. AllWhole' /\ OneReset' /\ Answer' = Answer
  BY <1>1 DEF SendInv, AllWhole, OneReset, Answer, Whole, device
<1>10. OwnLoad' /\ Load'
  BY <1>1, <1>5, <1>6, <1>9, Loads DEF OwnLoad, Loose, Load, Ctx
<1> QED
  BY <1>6, <1>7, <1>8, <1>9, <1>10 DEF SendInv

LEMMA WriteRoomStep ==
  ASSUME Enough, SendInv, NEW c \in Ctx, WriteRoom(c)
  PROVE  SendInv'
<1> DEFINE old == ctx[c]
           x   == [old EXCEPT !.pc = "take", !.room = Room - Len(line)]
<1>1. /\ old.pc = "room" /\ old \in Context /\ AtPlace(c, old)
      /\ ctx' = [ctx EXCEPT ![c].pc = "take", ![c].room = Room - Len(line)]
      /\ UNCHANGED <<previous_LED, tx, driver, device, up>>
      /\ c = "ioctl" => ctx["rx"].pc = "idle"
  BY Numbers DEF WriteRoom, MayRun, Enough
<1>2. Room - Len(line) \in Nat /\ Len(tx) <= Room - Len(line)
  <2>1. Load /\ Room >= Quiet + 16
    BY DEF SendInv, Enough
  <2>2. /\ Held(ctx["ioctl"]) \in Nat /\ Held(ctx["tx"]) \in Nat /\ Held(ctx["rx"]) \in Nat
        /\ Len(tx) \in Nat /\ Len(line) \in Nat /\ Answer \in Nat /\ Quiet \in Nat /\ Room \in Nat
    BY Numbers DEF Ctx
  <2> QED
    BY <2>1, <2>2 DEF Load
<1>3. x \in Context /\ x.pc = "take" /\ x.puts = old.puts /\ x.pkt = old.pkt /\ x.buf = old.buf
      /\ x.then = old.then /\ x.room = Room - Len(line)
  BY <1>1, <1>2 DEF Context, Pc
<1>4. ctx' = [ctx EXCEPT ![c] = x]
  BY <1>1
<1> HIDE DEF x
<1>5. AtPlace(c, x)
  BY <1>1, <1>3 DEF AtPlace
<1>6. /\ ctx' \in [Ctx -> Context] /\ Places'
      /\ ctx'[c] = x /\ \A d \in Ctx \ {c} : ctx'[d] = ctx[d]
  BY <1>3, <1>4, <1>5, Changed DEF SendInv
<1>7. Held(x) = Held(old)
  <2>1. Second(x) = Second(old) /\ Restored(x) = Restored(old)
    BY <1>3 DEF Second, Restored
  <2>2. Held(x) = Second(x) + Restored(x)
    BY <1>3, <1>5, HeldAt
  <2>3. Held(old) = Second(old) + Restored(old)
    BY <1>1, HeldAt
  <2> QED
    BY <2>1, <2>2, <2>3
<1>8. Types'
  BY <1>1, <1>6 DEF SendInv, Types, driver, device
<1>9. Exclusive' /\ \A d \in Ctx : Pushing(d)' = Pushing(d)
  BY <1>1, <1>3, <1>6 DEF SendInv, Exclusive, Pushing, Ctx
<1>10. Ring'
  <2>1. ASSUME NEW d \in Ctx, ctx'[d].pc = "take", d = "ioctl" => ~Pushing("rx")'
        PROVE  Len(tx) <= ctx'[d].room
    BY <1>2, <1>3, <1>6, <1>9, <2>1 DEF SendInv, Ring, Ctx
  <2> QED
    BY <1>1, <1>3, <1>6, <1>9, <2>1 DEF SendInv, Ring, Ctx
<1>11. AllWhole' /\ OneReset' /\ Answer' = Answer
  BY <1>1 DEF SendInv, AllWhole, OneReset, Answer, Whole, driver, device
<1>12. \A d \in Ctx : Held(ctx'[d]) = Held(ctx[d]) /\ (ctx'[d].pc = "idle" <=> ctx[d].pc = "idle")
  BY <1>1, <1>3, <1>6, <1>7
<1>13. OwnLoad' /\ Load'
  BY <1>1, <1>11, <1>12, Loads DEF OwnLoad, Loose, Load, Ctx, driver
<1> QED
  BY <1>6, <1>8, <1>9, <1>10, <1>11, <1>13 DEF SendInv

(* What is taken is the whole ring. *)
LEMMA TakeAll ==
  ASSUME Enough, SendInv, NEW c \in Ctx, Take(c)
  PROVE  Min({ctx[c].room + 1, Len(tx)}) = Len(tx)
<1>1. /\ ctx[c].pc = "take"
      /\ c = "ioctl" => ctx["rx"].pc = "idle"
      /\ ctx[c] \in Context /\ Len(tx) \in Nat
  BY Numbers DEF Take, MayRun, Enough
<1>2. Len(tx) <= ctx[c].room
  BY <1>1 DEF SendInv, Ring, Pushing
<1>3. ctx[c].room \in Nat
  BY <1>1 DEF Context
<1> QED
  BY <1>1, <1>2, <1>3, MinIsLast

LEMMA TakeStep ==
  ASSUME Enough, SendInv, NEW c \in Ctx, Take(c)
  PROVE  SendInv'
<1> DEFINE old == ctx[c]
           n   == Min({old.room + 1, Len(tx)})
           x   == [old EXCEPT !.pc = "write", !.buf = SubSeq(tx, 1, n), !.room = 0]
<1>1. /\ old.pc = "take" /\ old \in Context /\ AtPlace(c, old)
      /\ tx' = SubSeq(tx, n + 1, Len(tx))
      /\ ctx' = [ctx EXCEPT ![c].pc = "write", ![c].buf = SubSeq(tx, 1, n), ![c].room = 0]
      /\ UNCHANGED <<previous_LED, driver, device, up>>
      /\ c = "ioctl" => ctx["rx"].pc = "idle" /\ ctx["tx"].pc = "idle"
  BY Numbers DEF Take, MayRun, Enough
<1>2. Len(tx) \in Nat
  BY Numbers
<1>3. n = Len(tx)
  BY TakeAll
<1>4. SubSeq(tx, 1, n) = tx /\ tx' = <<>> /\ tx \in Seq(Byte) /\ Whole(tx)
  BY <1>1, <1>3, SubSeqAll DEF SendInv, Types, AllWhole
<1>5. x \in Context /\ x.pc = "write" /\ x.puts = old.puts /\ x.pkt = old.pkt /\ x.buf = tx
      /\ x.then = old.then
  <2>1. x = [old EXCEPT !.pc = "write", !.buf = tx, !.room = 0]
    BY <1>4
  <2> QED
    BY <1>1, <1>4, <2>1 DEF Context, Pc
<1>6. ctx' = [ctx EXCEPT ![c] = x]
  BY <1>1
<1> HIDE DEF x, n
<1>7. AtPlace(c, x)
  BY <1>1, <1>4, <1>5 DEF AtPlace
<1>8. /\ ctx' \in [Ctx -> Context] /\ Places'
      /\ ctx'[c] = x /\ \A d \in Ctx \ {c} : ctx'[d] = ctx[d]
  BY <1>5, <1>6, <1>7, Changed DEF SendInv
<1>9. Held(x) = Held(old) + Len(tx) /\ Held(old) \in Nat
  <2>1. Second(x) = Second(old) /\ Restored(x) = Restored(old)
    BY <1>5 DEF Second, Restored
  <2>2. Held(x) = Len(tx) + Second(x) + Restored(x)
    BY <1>5, <1>7, HeldAt
  <2>3. /\ Held(old) = Second(old) + Restored(old)
        /\ Second(old) \in Nat /\ Restored(old) \in Nat
    BY <1>1, HeldAt
  <2> QED
    BY <1>2, <2>1, <2>2, <2>3
<1>10. Types'
  <2>1. tx' \in Seq(Byte)
    BY <1>4
  <2> QED
    BY <1>1, <1>8, <2>1 DEF SendInv, Types, driver, device
<1>11. Exclusive'
  BY <1>1, <1>5, <1>8 DEF SendInv, Exclusive, Ctx
<1>12. Len(tx') = 0
  BY <1>4
<1>13. Ring'
  <2>1. ASSUME NEW d \in Ctx, ctx'[d].pc = "take"
        PROVE  Len(tx') <= ctx'[d].room
    <3>1. ctx'[d] \in Context
      BY <1>8
    <3>2. ctx'[d].room \in Nat
      BY <3>1 DEF Context
    <3> QED
      BY <1>12, <3>2
  <2> QED
    BY <1>4, <1>12, <2>1 DEF Ring
<1>14. AllWhole' /\ OneReset' /\ Answer' = Answer
  <2>1. Whole(tx')
    BY <1>12 DEF Whole
  <2> QED
    BY <1>1, <2>1 DEF SendInv, AllWhole, OneReset, Answer, Whole, driver, device
<1>15. OwnLoad' /\ Load'
  <2>1. Len(line') = Len(line)
    BY <1>1 DEF driver
  <2>2. /\ Held(ctx["ioctl"]) \in Nat /\ Held(ctx["tx"]) \in Nat /\ Held(ctx["rx"]) \in Nat
        /\ Len(line) \in Nat /\ Answer \in Nat /\ Quiet \in Nat
    BY Numbers DEF Ctx
  <2>3. Loose' = 0
    BY <1>12 DEF Loose
  <2>4. CASE c = "rx"
    <3>1. /\ Held(ctx'["rx"]) = Held(ctx["rx"]) + Len(tx)
          /\ Held(ctx'["tx"]) = Held(ctx["tx"]) /\ Held(ctx'["ioctl"]) = Held(ctx["ioctl"])
          /\ Loose = 0
      BY <1>1, <1>8, <1>9, <2>4 DEF Ctx, Loose
    <3>2. OwnLoad'
      BY <2>2, <2>3, <3>1, Loads DEF OwnLoad
    <3>3. Load'
      BY <1>2, <1>12, <1>14, <2>1, <2>2, <3>1, Loads DEF Load
    <3> QED
      BY <3>2, <3>3
  <2>5. CASE c # "rx"
    <3>1. ctx["rx"].pc = "idle"
      BY <1>1, <2>5 DEF SendInv, Exclusive, Ctx
    <3>2. Loose = Len(tx)
      BY <3>1 DEF Loose
    <3>3. Held(ctx'["rx"]) = Held(ctx["rx"])
      BY <1>8, <2>5 DEF Ctx
    <3>4. \/ /\ Held(ctx'["ioctl"]) = Held(ctx["ioctl"]) + Len(tx)
             /\ Held(ctx'["tx"]) = Held(ctx["tx"])
          \/ /\ Held(ctx'["ioctl"]) = Held(ctx["ioctl"])
             /\ Held(ctx'["tx"]) = Held(ctx["tx"]) + Len(tx)
      BY <1>8, <1>9, <2>5 DEF Ctx
    <3>5. OwnLoad'
      BY <1>2, <2>2, <2>3, <3>2, <3>4, Loads DEF OwnLoad
    <3>6. Load'
      <4>1. Load /\ Answer' = Answer /\ Len(tx) \in Nat
        BY <1>2, <1>14 DEF SendInv
      <4>2. CASE /\ Held(ctx'["ioctl"]) = Held(ctx["ioctl"]) + Len(tx)
                 /\ Held(ctx'["tx"]) = Held(ctx["tx"])
        BY <1>12, <2>1, <2>2, <3>3, <4>1, <4>2 DEF Load
      <4>3. CASE /\ Held(ctx'["ioctl"]) = Held(ctx["ioctl"])
                 /\ Held(ctx'["tx"]) = Held(ctx["tx"]) + Len(tx)
        BY <1>12, <2>1, <2>2, <3>3, <4>1, <4>3 DEF Load
      <4> QED
        BY <3>4, <4>2, <4>3
    <3> QED
      BY <3>5, <3>6
  <2> QED
    BY <2>4, <2>5
<1> QED
  BY <1>8, <1>10, <1>11, <1>13, <1>14, <1>15 DEF SendInv

LEMMA Again ==
  ASSUME NEW x \in Context, NEW n \in {0, 1, 2}, NEW b \in Seq(Byte)
  PROVE  [x EXCEPT !.pc = "put", !.puts = n, !.buf = b] \in Context
BY DEF Context, Pc

(* What is written fits in the driver. *)
LEMMA WriteAll ==
  ASSUME Enough, SendInv, NEW c \in Ctx, Write(c)
  PROVE  Min({Len(ctx[c].buf), Room - Len(line)}) = Len(ctx[c].buf)
<1> DEFINE k == Len(ctx[c].buf)
           h == Held(ctx[c])
<1>1. /\ k \in Nat /\ h = k + Second(ctx[c]) + Restored(ctx[c])
      /\ Second(ctx[c]) \in Nat /\ Restored(ctx[c]) \in Nat
  BY HeldAt, Numbers DEF Write
<1>2. Load /\ Room >= Quiet + 16
  BY DEF SendInv, Enough
<1>3. /\ Held(ctx["ioctl"]) \in Nat /\ Held(ctx["tx"]) \in Nat /\ Held(ctx["rx"]) \in Nat
      /\ Answer \in Nat /\ Quiet \in Nat /\ Room \in Nat
      /\ Len(line) \in Nat /\ Len(tx) \in Nat
  BY Numbers DEF Ctx
<1>4. h = Held(ctx["ioctl"]) \/ h = Held(ctx["tx"]) \/ h = Held(ctx["rx"])
  BY DEF Ctx
<1> HIDE DEF h, k
<1>5. Len(line) + h <= Room
  BY <1>2, <1>3, <1>4 DEF Load
<1>6. k <= Room - Len(line) /\ Room - Len(line) \in Nat
  BY <1>1, <1>3, <1>5
<1>7. Min({k, Room - Len(line)}) = k
  BY <1>1, <1>6, MinIsFirst
<1> QED
  BY <1>7 DEF k

(* What is written fits, and the context goes on to its next packet. *)
LEMMA WriteStep ==
  ASSUME Enough, SendInv, NEW c \in Ctx, Write(c)
  PROVE  SendInv'
<1> DEFINE old == ctx[c]
           k   == Len(old.buf)
           n   == Min({k, Room - Len(line)})
           x   == AfterPut(c)
<1>1. /\ old.pc = "write" /\ old \in Context /\ AtPlace(c, old)
      /\ line' = line \o SubSeq(old.buf, 1, n) /\ lost' = (lost \/ n < k)
      /\ ctx' = [ctx EXCEPT ![c] = x]
      /\ UNCHANGED <<previous_LED, tx, wake, device, up>>
      /\ c = "ioctl" => ctx["rx"].pc = "idle"
  BY Numbers DEF Write, MayRun, Enough
<1>2. /\ old.buf \in Seq(Byte) /\ k \in Nat /\ Whole(old.buf) /\ old.left = 0
      /\ line \in Seq(Byte) /\ Len(line) \in Nat /\ Len(tx) \in Nat
      /\ previous_LED \in Lit
  BY <1>1 DEF AtPlace, Context, SendInv, Types
<1>3. /\ Held(old) = k + Second(old) + Restored(old)
      /\ Second(old) \in Nat /\ Restored(old) \in Nat /\ Held(old) \in Nat
  BY <1>1, HeldAt, Numbers
<1>5. n = k
  BY WriteAll
<1>6. /\ line' = line \o old.buf /\ lost' = FALSE
      /\ line' \in Seq(Byte) /\ Len(line') = Len(line) + k
  <2>1. SubSeq(old.buf, 1, n) = old.buf /\ ~(n < k)
    BY <1>2, <1>5, SubSeqAll
  <2>2. line' = line \o old.buf /\ lost' = FALSE
    BY <1>1, <2>1 DEF SendInv, Types
  <2> QED
    BY <1>2, <2>2
<1>7. AllWhole'
  <2>1. Whole(line')
    BY <1>2, <1>6, WholeConcat DEF SendInv, AllWhole
  <2>2. line # <<>> => line' # <<>> /\ line'[1] = line[1]
    BY <1>2, <1>6
  <2> QED
    BY <1>1, <2>1, <2>2 DEF SendInv, AllWhole, device
<1>8. /\ x \in Context /\ AtPlace(c, x) /\ x.pc \in {"put", "led", "idle"} 
      /\ Held(x) = Second(old) + Restored(old)
  <2>1. CASE old.puts = 2
    <3>1. x = [old EXCEPT !.pc = "put", !.puts = 1, !.buf = <<>>]
      BY <1>2, <2>1 DEF AfterPut
    <3>2. /\ x \in Context /\ x.pc = "put" /\ x.puts = 1 /\ x.pkt = old.pkt /\ x.buf = <<>>
          /\ x.then = old.then
      <4>1. x \in Context
        <5>1. PICK m \in {0, 1, 2} : m = 1
          OBVIOUS
        <5>2. PICK b \in Seq(Byte) : b = <<>>
          <6>1. <<>> \in Seq(Byte)
            OBVIOUS
          <6> QED
            BY <6>1, Zenon
        <5>3. [old EXCEPT !.pc = "put", !.puts = m, !.buf = b] \in Context
          BY <1>1, Again
        <5> QED
          BY <3>1, <5>1, <5>2, <5>3
      <4> QED
        BY <1>1, <3>1, <4>1 DEF Context
    <3> HIDE DEF x
    <3>3. c # "tx" /\ AtPlace(c, x)
      BY <1>1, <2>1, <3>2 DEF AtPlace, Whole
    <3>4. /\ Second(x) = 0 /\ Restored(x) = Restored(old) /\ Second(old) = Len(old.pkt)
          /\ Len(old.pkt) \in Nat
      BY <1>1, <2>1, <3>2, HeldAt DEF Second, Restored
    <3>5. Held(x) = Len(x.pkt) + Second(x) + Restored(x)
      BY <3>2, <3>3, HeldAt
    <3> QED
      BY <1>3, <3>2, <3>3, <3>4, <3>5
  <2>2. CASE old.puts # 2 /\ old.then = "restore"
    <3>1. x = InSetLed(previous_LED)
      BY <1>2, <2>2 DEF AfterPut
    <3>2. c # "tx"
      BY <1>1, <2>2 DEF AtPlace
    <3>3. x \in Context /\ AtPlace(c, x) /\ Held(x) = 4 /\ x.pc = "led"
      BY <1>2, <3>1, <3>2, Begun DEF Ctx
    <3>4. Second(old) = 0 /\ Restored(old) = 4
      BY <2>2 DEF Second, Restored
    <3> QED
      BY <3>3, <3>4
  <2>3. CASE old.puts # 2 /\ old.then # "restore"
    <3>1. x = Idle
      BY <2>3 DEF AfterPut
    <3>2. x \in Context /\ x.pc = "idle"
      BY <3>1 DEF Idle, Context, Pc, Lit
    <3>3. AtPlace(c, x)
      BY <3>1 DEF Idle, AtPlace, Whole
    <3>4. Held(x) = 0
      BY <3>2, <3>3, HeldAt
    <3>5. Second(old) = 0 /\ Restored(old) = 0
      BY <2>3 DEF Second, Restored
    <3> QED
      BY <3>2, <3>3, <3>4, <3>5
  <2> QED
    BY <2>1, <2>2, <2>3
<1> HIDE DEF x, n
<1>9. /\ ctx' \in [Ctx -> Context] /\ Places'
      /\ ctx'[c] = x /\ \A d \in Ctx \ {c} : ctx'[d] = ctx[d]
  BY <1>1, <1>8, Changed DEF SendInv
<1>10. Held(old) = Held(x) + k /\ Held(x) \in Nat /\ k \in Nat /\ tx' = tx
  BY <1>1, <1>2, <1>3, <1>8
<1>11. c # "rx" => ctx["rx"].pc = "idle"
  BY <1>1 DEF SendInv, Exclusive, Ctx
<1>12. c = "rx" => tx = <<>>
  BY <1>1 DEF SendInv, Ring
<1>13. Types'
  BY <1>1, <1>6, <1>9 DEF SendInv, Types, device
<1>14. c \in {"rx", "tx"} /\ x.pc # "idle" => c = "rx"
  BY <1>8 DEF AtPlace
<1>15. Exclusive'
  BY <1>1, <1>9, <1>14 DEF SendInv, Exclusive, Ctx
<1>16. OneReset' /\ Answer' = Answer
  BY <1>1 DEF SendInv, OneReset, Answer
<1>17. \A d \in Ctx : Pushing(d)' = Pushing(d) /\ (ctx'[d].pc = "take" => ctx'[d] = ctx[d])
  BY <1>1, <1>8, <1>9 DEF Pushing
<1>18. Ring'
  <2>1. ctx'["rx"].pc = "write" => ctx["rx"].pc = "write"
    BY <1>8, <1>9 DEF Ctx
  <2> QED
    BY <1>1, <1>17, <2>1 DEF SendInv, Ring, Ctx
<1>19. OwnLoad' /\ Load'
  <2>1. /\ Held(ctx["ioctl"]) \in Nat /\ Held(ctx["tx"]) \in Nat /\ Held(ctx["rx"]) \in Nat
        /\ Answer \in Nat /\ Quiet \in Nat
    BY Numbers DEF Ctx
  <2>2. Loose' = Loose /\ Loose \in Nat
    <3>1. CASE c = "rx"
      <4>1. Len(tx) = 0
        BY <1>12, <3>1
      <4> QED
        BY <1>1, <4>1 DEF Loose
    <3>2. CASE c # "rx"
      BY <1>1, <1>2, <1>9, <3>2 DEF Loose, Ctx
    <3> QED
      BY <3>1, <3>2
  <2>3. CASE c = "rx"
    <3>1. /\ Held(ctx["rx"]) = Held(ctx'["rx"]) + k /\ Held(ctx'["rx"]) \in Nat
          /\ Held(ctx'["tx"]) = Held(ctx["tx"]) /\ Held(ctx'["ioctl"]) = Held(ctx["ioctl"])
      BY <1>9, <1>10, <2>3 DEF Ctx
    <3> HIDE DEF old, k
    <3>2. OwnLoad'
      BY <2>2, <3>1, Loads DEF OwnLoad
    <3>3. Load'
      BY <1>2, <1>6, <1>10, <1>16, <2>1, <3>1, Loads DEF Load
    <3> QED
      BY <3>2, <3>3
  <2>4. CASE c = "ioctl"
    <3>1. /\ Held(ctx["ioctl"]) = Held(ctx'["ioctl"]) + k /\ Held(ctx'["ioctl"]) \in Nat
          /\ Held(ctx'["tx"]) = Held(ctx["tx"]) /\ Held(ctx'["rx"]) = Held(ctx["rx"])
      BY <1>9, <1>10, <2>4 DEF Ctx
    <3> HIDE DEF old, k
    <3>2. OwnLoad'
      BY <1>2, <2>1, <2>2, <3>1, Loads DEF OwnLoad
    <3>3. Load'
      BY <1>2, <1>6, <1>10, <1>16, <2>1, <3>1, Loads DEF Load
    <3> QED
      BY <3>2, <3>3
  <2>5. CASE c = "tx"
    <3>1. /\ Held(ctx["tx"]) = Held(ctx'["tx"]) + k /\ Held(ctx'["tx"]) \in Nat
          /\ Held(ctx'["ioctl"]) = Held(ctx["ioctl"]) /\ Held(ctx'["rx"]) = Held(ctx["rx"])
      BY <1>9, <1>10, <2>5 DEF Ctx
    <3> HIDE DEF old, k
    <3>2. OwnLoad'
      BY <1>2, <2>1, <2>2, <3>1, Loads DEF OwnLoad
    <3>3. Load'
      BY <1>2, <1>6, <1>10, <1>16, <2>1, <3>1, Loads DEF Load
    <3> QED
      BY <3>2, <3>3
  <2> QED
    BY <2>3, <2>4, <2>5 DEF Ctx
<1> QED
  BY <1>7, <1>9, <1>13, <1>15, <1>16, <1>18, <1>19 DEF SendInv

LEMMA ReceiveStep ==
  ASSUME Enough, SendInv, Receive
  PROVE  SendInv'
<1>1. /\ line # <<>> /\ line' = Tail(line) /\ up' \in {up, Append(up, "ACK")}
      /\ UNCHANGED <<ctx, previous_LED, tx, lost>>
  BY DEF Receive, Acknowledge
<1>2. line \in Seq(Byte) /\ up \in Seq({"ACK", "RESET"}) /\ Whole(line)
  BY DEF SendInv, Types, AllWhole
<1>3. /\ line' \in Seq(Byte) /\ Len(line') = Len(line) - 1 /\ Len(line) \in Nat /\ Whole(line')
      /\ \A i \in 1..Len(line') : line'[i] = line[i+1]
  BY <1>1, <1>2, WholeTail
<1>4. parse' \in {"command", "cut", "data", "dead"} /\ (parse' = "data" => line' # <<>> /\ line'[1] \in Lit)
  <2>1. CASE parse' = "data"
    <3>1. line[1] = "LED_SET"
      BY <1>1, <1>2, <2>1 DEF Receive
    <3>2. 1 < Len(line) /\ line[2] \in Lit
      BY <1>1, <1>2, <3>1 DEF Whole
    <3> QED
      BY <1>3, <2>1, <3>2
  <2>2. CASE parse' # "data"
    BY <2>2 DEF Receive, SendInv, Types
  <2> QED
    BY <2>1, <2>2
<1>5. up' \in Seq({"ACK", "RESET"})
  BY <1>1, <1>2
<1>6. OneReset' /\ Answer' = Answer
  <2>1. CASE up' = up
    BY <2>1 DEF SendInv, OneReset, Answer
  <2>2. CASE up' = Append(up, "ACK")
    <3>1. /\ Len(up') = Len(up) + 1 /\ Len(up) \in Nat /\ up'[Len(up) + 1] = "ACK"
          /\ \A i \in 1..Len(up) : up'[i] = up[i]
      BY <1>2, <2>2
    <3>2. \A i \in 1..Len(up') : up'[i] = "RESET" => i \in 1..Len(up) /\ up[i] = "RESET"
      BY <3>1
    <3> QED
      BY <3>1, <3>2 DEF SendInv, OneReset, Answer
  <2> QED
    BY <1>1, <2>1, <2>2
<1>7. Types' /\ AllWhole'
  BY <1>1, <1>3, <1>4, <1>5 DEF SendInv, Types, AllWhole, Whole
<1>8. Places' /\ Exclusive' /\ Ring'
  BY <1>1 DEF SendInv, Places, Exclusive, Ring, Pushing
<1>9. OwnLoad' /\ Load'
  <2>1. OwnLoad'
    BY <1>1, Loads DEF OwnLoad, Loose
  <2>2. Len(line') <= Len(line) /\ Len(line') \in Nat
    BY <1>1, <1>2, <1>3
  <2>3. /\ Held(ctx["ioctl"]) \in Nat /\ Held(ctx["tx"]) \in Nat /\ Held(ctx["rx"]) \in Nat
        /\ Answer \in Nat /\ Quiet \in Nat /\ Len(tx) \in Nat
    BY Numbers DEF Ctx
  <2>4. ctx' = ctx /\ tx' = tx /\ Answer' = Answer /\ Len(line) \in Nat
    BY <1>1, <1>3, <1>6
  <2>5. Load'
    BY <2>2, <2>3, <2>4, Loads DEF Load
  <2> QED
    BY <2>1, <2>5
<1> QED
  BY <1>6, <1>7, <1>8, <1>9 DEF SendInv

LEMMA ResetStep ==
  ASSUME Enough, SendInv, Reset
  PROVE  SendInv'
<1>1. /\ Len(line) <= Quiet /\ ctx["rx"].pc = "idle" /\ parse' \in {"command", "cut"}
      /\ up' = Append(up, "RESET") /\ "RESET" \notin Range(up)
      /\ UNCHANGED <<ctx, previous_LED, tx, line, lost>>
  BY DEF Enough, Reset, MayReset, driver
<1>2. up \in Seq({"ACK", "RESET"}) /\ up' \in Seq({"ACK", "RESET"})
  BY <1>1 DEF SendInv, Types
<1>3. \A i \in 1..Len(up) : up[i] # "RESET"
  BY <1>1, <1>2 DEF Range
<1>4. /\ Len(up') = Len(up) + 1 /\ Len(up) \in Nat /\ up'[Len(up) + 1] = "RESET"
      /\ \A i \in 1..Len(up) : up'[i] = up[i]
  BY <1>1, <1>2
<1>5. OneReset'
  BY <1>3, <1>4 DEF OneReset
<1>6. Answer = 0 /\ Answer' = 10
  BY <1>3, <1>4 DEF Answer
<1>7. Types' /\ AllWhole' /\ Places' /\ Exclusive' /\ Ring' /\ OwnLoad'
  BY <1>1, <1>2 DEF SendInv, Types, AllWhole, Whole, Places, Exclusive, Ring, Pushing,
                    OwnLoad, Loose
<1>8. Load'
  <2>1. /\ Held(ctx["ioctl"]) \in Nat /\ Held(ctx["tx"]) \in Nat
        /\ Len(tx) \in Nat /\ Len(line) \in Nat /\ Quiet \in Nat
    BY Numbers DEF Ctx
  <2>2. Held(ctx["rx"]) = 0
    BY <1>1, Numbers, HeldAt DEF Ctx
  <2>3. Held(ctx["ioctl"]) + Held(ctx["tx"]) + Len(tx) <= 6
    BY <1>1, Loads DEF OwnLoad, Loose
  <2> QED
    BY <1>1, <1>6, <2>1, <2>2, <2>3 DEF Load
<1> QED
  BY <1>5, <1>7, <1>8 DEF SendInv

-----------------------------------------------------------------------------
LEMMA StepInv ==
  ASSUME Enough, SendInv, [Next]_vars
  PROVE  SendInv'
<1>1. CASE Call
  BY <1>1, CallStep
<1>2. CASE HandlePacket
  BY <1>2, HandlePacketStep
<1>3. CASE Wakeup
  BY <1>3, WakeupStep
<1>4. ASSUME NEW c \in Ctx, LineDiscipline(c)
      PROVE  SendInv'
  BY <1>4, StoreLedStep, PutStep, WriteRoomStep, TakeStep, WriteStep DEF LineDiscipline
<1>5. CASE Receive
  BY <1>5, ReceiveStep
<1>6. CASE Reset
  BY <1>6, ResetStep
<1>7. CASE Same
  BY <1>7 DEF Same, driver, device, SendInv, Types, Places, Exclusive, Ring, Pushing, AllWhole,
              Whole, OneReset, OwnLoad, Loose, Load, Answer
<1> QED
  BY <1>1, <1>2, <1>3, <1>4, <1>5, <1>6, <1>7, CallOrSame

-----------------------------------------------------------------------------
(* What is still to reach the controller, in the order in which it will: on *)
(* the line, in the hands of the wakeup and of the receive interrupt, in    *)
(* the ring, what the interrupt has yet to put, and last the ioctl's.       *)
ThisPut(x)   == IF x.pc = "put" THEN x.pkt ELSE <<>>
NextPut(x)   == IF x.puts = 2 THEN x.pkt ELSE <<>>
Restoring(x) == IF x.then = "restore"
                  THEN LedPacket(previous_LED) \o LedPacket(previous_LED) ELSE <<>>

Puts(x) == IF x.pc = "idle" THEN <<>>
           ELSE IF x.pc = "led" THEN LedPacket(x.arg) \o LedPacket(x.arg)
           ELSE ThisPut(x) \o (NextPut(x) \o Restoring(x))

Future == line \o (ctx["tx"].buf \o (ctx["rx"].buf \o (tx \o
            (Puts(ctx["rx"]) \o (ctx["ioctl"].buf \o Puts(ctx["ioctl"]))))))

(* From some LED_SET on, or everywhere, the LEDs are set to v. *)
Sets(s, i, v) == s[i] = "LED_SET" => i < Len(s) /\ s[i+1] = v
Clean(s, v)   == \A i \in 1..Len(s) : Sets(s, i, v)
Ends(s, v)    == \E i \in 1..Len(s) : /\ s[i] = "LED_SET"
                                      /\ \A j \in i..Len(s) : Sets(s, j, v)
Silent(s)     == \A i \in 1..Len(s) : s[i] # "LED_SET"
Has(s)        == \E i \in 1..Len(s) : s[i] = "ENABLE"

Shows(s) == \/ Ends(s, asked)
            \/ /\ Silent(s)
               /\ parse = "data" => s # <<>> /\ s[1] = asked
               /\ parse \in Opcode => leds = asked

Due == \E i \in 1..Len(up) : up[i] = "RESET"

(* Unless the controller has locked up or a RESET is still to be answered,   *)
(* what is under way leaves it as the program has asked.                    *)
Promise == asked # "none" => \/ parse = "dead" \/ Due
                             \/ Shows(Future) /\ (enabled \/ Has(Future))

(* What the program has asked for, as the driver remembers it. *)
KeptInIoctl(x) ==
  /\ asked = "none" => previous_LED = "off" /\ x.pc = "idle"
  /\ asked # "none" /\ x.pc # "led" => previous_LED = asked
  /\ x.pc = "led" => x.arg = asked
  /\ x.then = "done"
  /\ x.pc \notin {"idle", "led"} => Clean(x.pkt, asked)
  /\ Clean(x.buf, asked)

KeptInRx(x) == x.pc = "led" => x.arg = previous_LED

Kept == /\ asked \in Lit \cup {"none"}
        /\ KeptInIoctl(ctx["ioctl"]) /\ KeptInRx(ctx["rx"])
        /\ ~Pushing("rx") => Clean(tx, asked)

FollowInv == Kept /\ Promise

LEMMA Cat ==
  \A s, t, u \in Seq(Byte) : /\ s \o t \in Seq(Byte) /\ s \o <<>> = s /\ <<>> \o s = s
                             /\ (s \o t) \o u = s \o (t \o u)
BY ConcatProperties, ConcatEmptySeq, ConcatAssociative

LEMMA CatAt ==
  ASSUME NEW s \in Seq(Byte), NEW t \in Seq(Byte)
  PROVE  /\ Len(s) \in Nat /\ Len(t) \in Nat /\ Len(s \o t) = Len(s) + Len(t)
         /\ \A i \in 1..Len(s) : (s \o t)[i] = s[i]
         /\ \A i \in 1..Len(t) : (s \o t)[Len(s) + i] = t[i]
OBVIOUS

LEMMA SetsFirst ==
  ASSUME NEW s \in Seq(Byte), NEW t \in Seq(Byte), NEW v, NEW i \in 1..Len(s), Sets(s, i, v)
  PROVE  Sets(s \o t, i, v)
<1> SUFFICES ASSUME (s \o t)[i] = "LED_SET"
             PROVE  i < Len(s \o t) /\ (s \o t)[i+1] = v
  BY DEF Sets
<1>1. s[i] = "LED_SET"
  BY CatAt
<1>2. i + 1 \in 1..Len(s) /\ s[i+1] = v
  BY <1>1, CatAt DEF Sets
<1> QED
  BY <1>2, CatAt

LEMMA SetsLast ==
  ASSUME NEW s \in Seq(Byte), NEW t \in Seq(Byte), NEW v, NEW i \in 1..Len(t), Sets(t, i, v)
  PROVE  Sets(s \o t, Len(s) + i, v)
<1> SUFFICES ASSUME (s \o t)[Len(s) + i] = "LED_SET"
             PROVE  Len(s) + i < Len(s \o t) /\ (s \o t)[Len(s) + i + 1] = v
  BY DEF Sets
<1>1. t[i] = "LED_SET"
  BY CatAt
<1>2. i + 1 \in 1..Len(t) /\ t[i+1] = v
  BY <1>1, CatAt DEF Sets
<1>3. (s \o t)[Len(s) + (i + 1)] = v
  BY <1>2, CatAt
<1> QED
  BY <1>2, <1>3, CatAt

LEMMA CleanCat ==
  ASSUME NEW s \in Seq(Byte), NEW t \in Seq(Byte), NEW v, Clean(s, v), Clean(t, v)
  PROVE  Clean(s \o t, v)
<1> SUFFICES ASSUME NEW i \in 1..Len(s \o t)
             PROVE  Sets(s \o t, i, v)
  BY DEF Clean
<1>1. CASE i \in 1..Len(s)
  BY <1>1, SetsFirst DEF Clean
<1>2. CASE i \notin 1..Len(s)
  <2>1. PICK j \in 1..Len(t) : i = Len(s) + j
    <3>1. i - Len(s) \in 1..Len(t) /\ i = Len(s) + (i - Len(s))
      BY <1>2, CatAt
    <3> QED
      BY <3>1
  <2> QED
    BY <2>1, SetsLast DEF Clean
<1> QED
  BY <1>1, <1>2

LEMMA EndsBefore ==
  ASSUME NEW s \in Seq(Byte), NEW t \in Seq(Byte), NEW v, Ends(s, v), Clean(t, v)
  PROVE  Ends(s \o t, v)
<1>1. PICK i \in 1..Len(s) : s[i] = "LED_SET" /\ \A j \in i..Len(s) : Sets(s, j, v)
  BY DEF Ends
<1>2. i \in 1..Len(s \o t) /\ (s \o t)[i] = "LED_SET"
  BY <1>1, CatAt
<1>3. ASSUME NEW j \in i..Len(s \o t)
      PROVE  Sets(s \o t, j, v)
  <2>1. CASE j \in i..Len(s)
    <3>1. j \in 1..Len(s)
      BY <2>1
    <3> QED
      BY <1>1, <2>1, <3>1, SetsFirst
  <2>2. CASE j \notin i..Len(s)
    <3>1. PICK k \in 1..Len(t) : j = Len(s) + k
      <4>1. j - Len(s) \in 1..Len(t) /\ j = Len(s) + (j - Len(s))
        BY <2>2, CatAt
      <4> QED
        BY <4>1
    <3> QED
      BY <3>1, SetsLast DEF Clean
  <2> QED
    BY <2>1, <2>2
<1> QED
  BY <1>2, <1>3 DEF Ends

LEMMA EndsBehind ==
  ASSUME NEW s \in Seq(Byte), NEW t \in Seq(Byte), NEW v, Ends(t, v)
  PROVE  Ends(s \o t, v)
<1>1. PICK i \in 1..Len(t) : t[i] = "LED_SET" /\ \A j \in i..Len(t) : Sets(t, j, v)
  BY DEF Ends
<1>2. Len(s) + i \in 1..Len(s \o t) /\ (s \o t)[Len(s) + i] = "LED_SET"
  BY <1>1, CatAt
<1>3. ASSUME NEW j \in (Len(s) + i)..Len(s \o t)
      PROVE  Sets(s \o t, j, v)
  <2>1. j - Len(s) \in i..Len(t) /\ j = Len(s) + (j - Len(s)) /\ j - Len(s) \in 1..Len(t)
    BY CatAt
  <2>2. PICK k \in 1..Len(t) : k \in i..Len(t) /\ j = Len(s) + k
    BY <2>1
  <2> QED
    BY <1>1, <2>2, SetsLast
<1> QED
  BY <1>2, <1>3 DEF Ends

LEMMA HasCat ==
  ASSUME NEW s \in Seq(Byte), NEW t \in Seq(Byte), Has(s) \/ Has(t)
  PROVE  Has(s \o t)
<1>1. CASE Has(s)
  BY <1>1, CatAt DEF Has
<1>2. CASE Has(t)
  <2>1. PICK i \in 1..Len(t) : t[i] = "ENABLE"
    BY <1>2 DEF Has
  <2>2. Len(s) + i \in 1..Len(s \o t) /\ (s \o t)[Len(s) + i] = "ENABLE"
    BY <2>1, CatAt
  <2> QED
    BY <2>2 DEF Has
<1> QED
  BY <1>1, <1>2

(* The two packets. *)
LEMMA PacketsEnd ==
  ASSUME NEW v \in Lit
  PROVE  /\ LedPacket(v) \in Seq(Byte) /\ Clean(LedPacket(v), v) /\ Ends(LedPacket(v), v)
         /\ InitPacket \in Seq(Byte) /\ Clean(InitPacket, "off") /\ Ends(InitPacket, "off")
         /\ Has(InitPacket)
<1>1. v # "LED_SET" /\ "off" # "LED_SET"
  BY TuxSendAssumption DEF Lit
<1>2. Len(LedPacket(v)) = 2 /\ LedPacket(v)[1] = "LED_SET" /\ LedPacket(v)[2] = v
  BY DEF LedPacket
<1>3. /\ Len(InitPacket) = 3 /\ InitPacket[1] = "ENABLE" /\ InitPacket[2] = "LED_SET"
      /\ InitPacket[3] = "off"
  BY DEF InitPacket
<1>4. Clean(LedPacket(v), v) /\ Ends(LedPacket(v), v)
  <2>1. ASSUME NEW i \in 1..2
        PROVE  Sets(LedPacket(v), i, v)
    <3>1. i = 1 \/ i = 2
      OBVIOUS
    <3> QED
      BY <1>1, <1>2, <3>1 DEF Sets
  <2>2. \A j \in 1..Len(LedPacket(v)) : Sets(LedPacket(v), j, v)
    BY <1>2, <2>1
  <2> QED
    BY <1>2, <2>2, 1 \in 1..2 DEF Clean, Ends
<1>5. Clean(InitPacket, "off") /\ Ends(InitPacket, "off")
  <2>1. ASSUME NEW i \in 1..3
        PROVE  Sets(InitPacket, i, "off")
    <3>1. i = 1 \/ i = 2 \/ i = 3
      OBVIOUS
    <3> QED
      BY <1>1, <1>3, <3>1 DEF Sets
  <2>2. /\ \A j \in 1..Len(InitPacket) : Sets(InitPacket, j, "off")
        /\ \A j \in 2..Len(InitPacket) : Sets(InitPacket, j, "off")
    BY <1>3, <2>1
  <2> QED
    BY <1>3, <2>2, 2 \in 1..3 DEF Clean, Ends
<1>6. Has(InitPacket)
  BY <1>3, 1 \in 1..3 DEF Has
<1> QED
  BY <1>4, <1>5, <1>6, Packets

LEMMA PutsSeq ==
  ASSUME NEW x \in Context, previous_LED \in Lit
  PROVE  /\ ThisPut(x) \in Seq(Byte) /\ NextPut(x) \in Seq(Byte) /\ Restoring(x) \in Seq(Byte)
         /\ Puts(x) \in Seq(Byte) /\ x.buf \in Seq(Byte) /\ x.pkt \in Seq(Byte)
<1>1. x.buf \in Seq(Byte) /\ x.pkt \in Seq(Byte) /\ x.arg \in Lit
  BY DEF Context
<1>2. \A v \in Lit : LedPacket(v) \o LedPacket(v) \in Seq(Byte)
  BY Cat, PacketsEnd
<1>3. <<>> \in Seq(Byte)
  OBVIOUS
<1>4. ThisPut(x) \in Seq(Byte) /\ NextPut(x) \in Seq(Byte) /\ Restoring(x) \in Seq(Byte)
  BY <1>1, <1>2, <1>3 DEF ThisPut, NextPut, Restoring
<1>5. ThisPut(x) \o (NextPut(x) \o Restoring(x)) \in Seq(Byte)
  BY <1>4, Cat
<1> QED
  BY <1>1, <1>2, <1>3, <1>4, <1>5 DEF Puts

-----------------------------------------------------------------------------
(* What each step of the line discipline does, given that everything fits. *)
LEMMA StoreLedDoes ==
  ASSUME Enough, SendInv, NEW c \in Ctx, StoreLed(c)
  PROVE  /\ c # "tx" /\ ctx[c].pc = "led" /\ ctx[c].arg \in Lit
         /\ c = "ioctl" => ctx["rx"].pc = "idle" /\ ctx["tx"].pc = "idle"
         /\ ctx'[c].pc = "put" /\ ctx'[c].puts = 2 /\ ctx'[c].pkt = LedPacket(ctx[c].arg)
         /\ ctx'[c].then = "done" /\ ctx'[c].buf = <<>> /\ ctx[c].buf = <<>>
         /\ \A d \in Ctx \ {c} : ctx'[d] = ctx[d]
         /\ previous_LED' = ctx[c].arg
         /\ UNCHANGED <<tx, line, enabled, leds, parse, up, asked>>
<1> DEFINE x == [Idle EXCEPT !.pc = "put", !.puts = 2, !.pkt = LedPacket(ctx[c].arg)]
<1>1. /\ ctx[c].pc = "led" /\ ctx' = [ctx EXCEPT ![c] = x]
      /\ c = "ioctl" => ctx["rx"].pc = "idle" /\ ctx["tx"].pc = "idle"
  BY DEF StoreLed, MayRun, Enough
<1>2. /\ x.pc = "put" /\ x.puts = 2 /\ x.pkt = LedPacket(ctx[c].arg) /\ x.buf = <<>>
      /\ x.then = "done"
  BY DEF Idle
<1> HIDE DEF x
<1>3. ctx[c] \in Context /\ AtPlace(c, ctx[c])
  BY Numbers
<1>4. ctx[c].arg \in Lit /\ ctx[c].buf = <<>> /\ c # "tx"
  BY <1>1, <1>3 DEF Context, AtPlace
<1>5. ctx'[c] = x /\ \A d \in Ctx \ {c} : ctx'[d] = ctx[d]
  BY <1>1 DEF SendInv, Types
<1>6. previous_LED' = ctx[c].arg /\ UNCHANGED <<tx, line, enabled, leds, parse, up, asked>>
  BY DEF StoreLed, driver, device
<1> QED
  BY <1>1, <1>2, <1>4, <1>5, <1>6

LEMMA PutDoes ==
  ASSUME Enough, SendInv, NEW c \in Ctx, Put(c)
  PROVE  /\ c # "tx" /\ ctx[c].pc = "put"
         /\ c = "ioctl" => ctx["rx"].pc = "idle" /\ ctx["tx"].pc = "idle" /\ tx = <<>>
         /\ ctx'[c].pc = "room" /\ ctx'[c].puts = ctx[c].puts /\ ctx'[c].pkt = ctx[c].pkt
         /\ ctx'[c].then = ctx[c].then /\ ctx'[c].buf = <<>> /\ ctx[c].buf = <<>>
         /\ \A d \in Ctx \ {c} : ctx'[d] = ctx[d]
         /\ tx' = tx \o ctx[c].pkt
         /\ UNCHANGED <<previous_LED, line, enabled, leds, parse, up, asked>>
<1> DEFINE n == Min({Len(ctx[c].pkt), BufSize - 1 - Len(tx)})
           x == [ctx[c] EXCEPT !.pc = "room", !.left = Len(ctx[c].pkt) - n]
<1>1. /\ ctx[c].pc = "put" /\ ctx' = [ctx EXCEPT ![c] = x]
      /\ c = "ioctl" => ctx["rx"].pc = "idle" /\ ctx["tx"].pc = "idle"
  BY DEF Put, MayRun, Enough
<1>2. ctx[c] \in Context /\ AtPlace(c, ctx[c])
  BY Numbers
<1>3. /\ x.pc = "room" /\ x.puts = ctx[c].puts /\ x.pkt = ctx[c].pkt
      /\ x.then = ctx[c].then /\ x.buf = ctx[c].buf
  BY <1>2 DEF Context
<1>4. ctx[c].buf = <<>>
  BY <1>1, <1>2 DEF AtPlace
<1>5. tx' = tx \o ctx[c].pkt
  <2>1. tx' = tx \o SubSeq(ctx[c].pkt, 1, n) /\ n = Len(ctx[c].pkt)
    BY PutAll DEF Put
  <2> QED
    BY <2>1, PutAll, SubSeqAll
<1>6. UNCHANGED <<previous_LED, line, enabled, leds, parse, up, asked>>
  BY DEF Put, driver, device
<1> HIDE DEF x
<1>7. ctx'[c] = x /\ \A d \in Ctx \ {c} : ctx'[d] = ctx[d]
  BY <1>1 DEF SendInv, Types
<1> QED
  BY <1>1, <1>3, <1>4, <1>5, <1>6, <1>7, PutAll

LEMMA WriteRoomDoes ==
  ASSUME Enough, SendInv, NEW c \in Ctx, WriteRoom(c)
  PROVE  /\ ctx[c].pc = "room" /\ ctx'[c].pc = "take"
         /\ ctx'[c].puts = ctx[c].puts /\ ctx'[c].pkt = ctx[c].pkt
         /\ ctx'[c].then = ctx[c].then /\ ctx'[c].buf = ctx[c].buf
         /\ \A d \in Ctx \ {c} : ctx'[d] = ctx[d]
         /\ UNCHANGED <<previous_LED, tx, line, enabled, leds, parse, up, asked>>
<1> DEFINE x == [ctx[c] EXCEPT !.pc = "take", !.room = Room - Len(line)]
<1>1. ctx[c].pc = "room" /\ ctx' = [ctx EXCEPT ![c] = x]
  BY DEF WriteRoom
<1>2. ctx[c] \in Context
  BY Numbers
<1>3. /\ x.pc = "take" /\ x.puts = ctx[c].puts /\ x.pkt = ctx[c].pkt
      /\ x.then = ctx[c].then /\ x.buf = ctx[c].buf
  BY <1>2 DEF Context
<1>4. UNCHANGED <<previous_LED, tx, line, enabled, leds, parse, up, asked>>
  BY DEF WriteRoom, driver, device
<1> HIDE DEF x
<1>5. ctx'[c] = x /\ \A d \in Ctx \ {c} : ctx'[d] = ctx[d]
  BY <1>1 DEF SendInv, Types
<1> QED
  BY <1>1, <1>3, <1>4, <1>5

LEMMA TakeDoes ==
  ASSUME Enough, SendInv, NEW c \in Ctx, Take(c)
  PROVE  /\ ctx[c].pc = "take" /\ ctx'[c].pc = "write"
         /\ c = "ioctl" => ctx["rx"].pc = "idle" /\ ctx["tx"].pc = "idle"
         /\ ctx'[c].puts = ctx[c].puts /\ ctx'[c].pkt = ctx[c].pkt
         /\ ctx'[c].then = ctx[c].then /\ ctx'[c].buf = tx /\ ctx[c].buf = <<>>
         /\ \A d \in Ctx \ {c} : ctx'[d] = ctx[d]
         /\ tx' = <<>>
         /\ UNCHANGED <<previous_LED, line, enabled, leds, parse, up, asked>>
<1> DEFINE n == Min({ctx[c].room + 1, Len(tx)})
           x == [ctx[c] EXCEPT !.pc = "write", !.buf = SubSeq(tx, 1, n), !.room = 0]
<1>1. /\ ctx[c].pc = "take" /\ ctx' = [ctx EXCEPT ![c] = x]
      /\ c = "ioctl" => ctx["rx"].pc = "idle" /\ ctx["tx"].pc = "idle"
  BY DEF Take, MayRun, Enough
<1>2. ctx[c] \in Context /\ AtPlace(c, ctx[c])
  BY Numbers
<1>3. SubSeq(tx, 1, n) = tx /\ tx' = <<>>
  <2>1. tx \in Seq(Byte) /\ n = Len(tx) /\ tx' = SubSeq(tx, n + 1, Len(tx))
    BY TakeAll DEF Take, SendInv, Types
  <2> QED
    BY <2>1, SubSeqAll
<1>4. /\ x.pc = "write" /\ x.puts = ctx[c].puts /\ x.pkt = ctx[c].pkt
      /\ x.then = ctx[c].then /\ x.buf = tx
  BY <1>2, <1>3 DEF Context
<1>5. ctx[c].buf = <<>>
  BY <1>1, <1>2 DEF AtPlace
<1>6. UNCHANGED <<previous_LED, line, enabled, leds, parse, up, asked>>
  BY DEF Take, driver, device
<1> HIDE DEF x
<1>7. ctx'[c] = x /\ \A d \in Ctx \ {c} : ctx'[d] = ctx[d]
  BY <1>1 DEF SendInv, Types
<1> QED
  BY <1>1, <1>3, <1>4, <1>5, <1>6, <1>7

LEMMA WriteDoes ==
  ASSUME Enough, SendInv, NEW c \in Ctx, Write(c)
  PROVE  /\ ctx[c].pc = "write" /\ line' = line \o ctx[c].buf
         /\ c = "ioctl" => ctx["rx"].pc = "idle" /\ ctx["tx"].pc = "idle"
         /\ c # "tx" => tx = <<>>
         /\ ctx'[c] = AfterPut(c) /\ ctx[c].left = 0
         /\ \A d \in Ctx \ {c} : ctx'[d] = ctx[d]
         /\ UNCHANGED <<previous_LED, tx, enabled, leds, parse, up, asked>>
<1> DEFINE n == Min({Len(ctx[c].buf), Room - Len(line)})
<1>1. /\ ctx[c].pc = "write" /\ ctx' = [ctx EXCEPT ![c] = AfterPut(c)]
      /\ c = "ioctl" => ctx["rx"].pc = "idle" /\ ctx["tx"].pc = "idle"
  BY DEF Write, MayRun, Enough
<1>2. ctx[c] \in Context
  BY Numbers
<1>3. line' = line \o ctx[c].buf
  <2>1. ctx[c].buf \in Seq(Byte)
    BY <1>2 DEF Context
  <2>2. line' = line \o SubSeq(ctx[c].buf, 1, n) /\ n = Len(ctx[c].buf)
    BY WriteAll DEF Write
  <2> QED
    BY <2>1, <2>2, SubSeqAll
<1>4. c # "tx" => tx = <<>>
  BY <1>1 DEF SendInv, Ring, Pushing, Ctx
<1>5. ctx[c].left = 0
  BY <1>2 DEF Context
<1>6. UNCHANGED <<previous_LED, tx, enabled, leds, parse, up, asked>>
  BY DEF Write, device
<1>7. ctx'[c] = AfterPut(c) /\ \A d \in Ctx \ {c} : ctx'[d] = ctx[d]
  BY <1>1 DEF SendInv, Types
<1> QED
  BY <1>1, <1>3, <1>4, <1>5, <1>6, <1>7

-----------------------------------------------------------------------------
(* Data stands behind an LED_SET, and what is to reach the controller begins *)
(* with an opcode unless the controller waits for data.                      *)
Paired(s) == \A i \in 2..Len(s) : s[i] \in Lit => s[i-1] = "LED_SET"
Opens(s)  == Paired(s) /\ (s # <<>> => s[1] \notin Lit)

Order == /\ Paired(line) /\ (parse = "command" /\ line # <<>> => line[1] \notin Lit)
         /\ Opens(tx)
         /\ \A c \in Ctx : Opens(ctx[c].buf) /\ Opens(ctx[c].pkt)

LEMMA PacketsOpen ==
  Opens(<<>>) /\ Opens(InitPacket) /\ \A v \in Lit : Opens(LedPacket(v))
<1>1. "ENABLE" \notin Lit /\ "LED_SET" \notin Lit
  BY TuxSendAssumption DEF Lit
<1> QED
  BY <1>1 DEF Opens, Paired, InitPacket, LedPacket

LEMMA PairedCat ==
  ASSUME NEW s \in Seq(Byte), NEW t \in Seq(Byte), Paired(s), Opens(t)
  PROVE  /\ Paired(s \o t)
         /\ s # <<>> => s \o t # <<>> /\ (s \o t)[1] = s[1]
         /\ s = <<>> => s \o t = t
<1>1. /\ Len(s) \in Nat /\ Len(t) \in Nat /\ Len(s \o t) = Len(s) + Len(t)
      /\ \A i \in 1..Len(s) : (s \o t)[i] = s[i]
      /\ \A i \in Len(s)+1..Len(s)+Len(t) : (s \o t)[i] = t[i - Len(s)]
  OBVIOUS
<1>2. ASSUME NEW i \in 2..Len(s \o t), (s \o t)[i] \in Lit
      PROVE  (s \o t)[i-1] = "LED_SET"
  <2>1. CASE i <= Len(s)
    <3>1. (s \o t)[i] = s[i] /\ (s \o t)[i-1] = s[i-1] /\ i \in 2..Len(s)
      BY <1>1, <2>1
    <3> QED
      BY <1>2, <3>1 DEF Paired
  <2>2. CASE i = Len(s) + 1
    <3>1. (s \o t)[i] = t[1] /\ t # <<>>
      BY <1>1, <2>2
    <3> QED
      BY <1>2, <3>1 DEF Opens
  <2>3. CASE i > Len(s) + 1
    <3>1. PICK j \in 2..Len(t) : j = i - Len(s)
      BY <1>1, <2>3
    <3>2. (s \o t)[i] = t[j] /\ (s \o t)[i-1] = t[j-1]
      BY <1>1, <3>1
    <3> QED
      BY <1>2, <3>2 DEF Opens, Paired
  <2> QED
    BY <1>1, <2>1, <2>2, <2>3
<1> QED
  BY <1>1, <1>2 DEF Paired

(* Where the line and the controller stay, and a context's locals are in order. *)
LEMMA OrderChanged ==
  ASSUME Order, SendInv, NEW c \in Ctx, \A d \in Ctx \ {c} : ctx'[d] = ctx[d],
         Opens(ctx'[c].buf), Opens(ctx'[c].pkt), Opens(tx'), UNCHANGED <<line, parse>>
  PROVE  Order'
BY DEF Order, Paired, Opens

LEMMA OrderLine ==
  ASSUME Enough, SendInv, Order, NEW c \in Ctx, LineDiscipline(c)
  PROVE  Order'
<1>1. /\ ctx[c] \in Context /\ Opens(ctx[c].buf) /\ Opens(ctx[c].pkt) /\ Opens(tx)
      /\ tx \in Seq(Byte) /\ line \in Seq(Byte) /\ Paired(line)
      /\ ctx[c].buf \in Seq(Byte) /\ ctx[c].pkt \in Seq(Byte)
  BY Numbers DEF Order, SendInv, Types, Context
<1>2. CASE StoreLed(c)
  <2>1. Opens(ctx'[c].pkt) /\ Opens(ctx'[c].buf)
    BY <1>2, StoreLedDoes, PacketsOpen
  <2> QED
    BY <1>1, <1>2, <2>1, StoreLedDoes, OrderChanged
<1>3. CASE Put(c)
  <2>1. Opens(tx')
    <3>1. tx' = tx \o ctx[c].pkt
      BY <1>3, PutDoes
    <3>2. Paired(tx) /\ (tx # <<>> => tx[1] \notin Lit)
      BY <1>1 DEF Opens
    <3>3. Paired(tx') /\ (tx # <<>> => tx'[1] = tx[1]) /\ (tx = <<>> => tx' = ctx[c].pkt)
      BY <1>1, <3>1, <3>2, PairedCat
    <3> QED
      BY <1>1, <3>2, <3>3 DEF Opens
  <2>2. Opens(ctx'[c].pkt) /\ Opens(ctx'[c].buf)
    BY <1>1, <1>3, PutDoes, PacketsOpen
  <2> QED
    BY <1>3, <2>1, <2>2, PutDoes, OrderChanged
<1>4. CASE WriteRoom(c)
  BY <1>1, <1>4, WriteRoomDoes, OrderChanged
<1>5. CASE Take(c)
  BY <1>1, <1>5, TakeDoes, PacketsOpen, OrderChanged
<1>6. CASE Write(c)
  <2>1. /\ line' = line \o ctx[c].buf /\ UNCHANGED <<tx, parse>>
        /\ ctx'[c] = AfterPut(c) /\ \A d \in Ctx \ {c} : ctx'[d] = ctx[d]
    BY <1>6, WriteDoes
  <2>2. /\ Paired(line') /\ (line # <<>> => line'[1] = line[1])
        /\ (line = <<>> => line' = ctx[c].buf)
    BY <1>1, <2>1, PairedCat
  <2>3. AfterPut(c).buf = <<>> /\ AfterPut(c).pkt \in {ctx[c].pkt, <<>>}
    BY <1>1 DEF AfterPut, InSetLed, Idle, Context
  <2>4. parse = "command" /\ line' # <<>> => line'[1] \notin Lit
    BY <1>1, <2>2 DEF Order, Opens
  <2>5. \A d \in Ctx : Opens(ctx'[d].buf) /\ Opens(ctx'[d].pkt)
    <3>1. Opens(ctx'[c].buf) /\ Opens(ctx'[c].pkt)
      BY <1>1, <2>1, <2>3, PacketsOpen
    <3> QED
      BY <2>1, <3>1 DEF Order
  <2>6. Opens(tx)'
    BY <1>1, <2>1 DEF Opens, Paired
  <2>7. Paired(line)'
    BY <2>2 DEF Paired
  <2> QED
    BY <2>1, <2>4, <2>5, <2>6, <2>7 DEF Order, Opens, Paired
<1> QED
  BY <1>2, <1>3, <1>4, <1>5, <1>6 DEF LineDiscipline

LEMMA OrderReceive ==
  ASSUME Enough, SendInv, Order, Receive
  PROVE  Order'
<1>1. /\ line \in Seq(Byte) /\ line # <<>> /\ line' = Tail(line) /\ UNCHANGED <<ctx, tx>>
      /\ Paired(line) /\ Head(line) = line[1]
  BY DEF Receive, SendInv, Types, Order
<1>2. /\ Len(line') = Len(line) - 1 /\ Len(line) \in Nat
      /\ \A i \in 1..Len(line') : line'[i] = line[i+1]
  BY <1>1
<1>3. Paired(line')
  <2> SUFFICES ASSUME NEW i \in 2..Len(line'), line'[i] \in Lit
               PROVE  line'[i-1] = "LED_SET"
    BY DEF Paired
  <2>1. i + 1 \in 2..Len(line) /\ line'[i] = line[i+1] /\ line'[i-1] = line[(i+1)-1]
    BY <1>2
  <2> QED
    BY <1>1, <2>1 DEF Paired
<1>4. ASSUME parse' = "command", line' # <<>>
      PROVE  line'[1] \notin Lit
  <2>1. line[1] \in Lit \/ line[1] = "ENABLE"
    BY <1>1, <1>4 DEF Receive, SendInv, AllWhole
  <2>2. line[1] # "LED_SET"
    BY <2>1, TuxSendAssumption DEF Lit
  <2>3. 2 \in 2..Len(line) /\ line'[1] = line[2] /\ line[2-1] = line[1]
    BY <1>1, <1>2, <1>4
  <2> QED
    BY <1>1, <2>2, <2>3 DEF Paired
<1> QED
  BY <1>1, <1>3, <1>4 DEF Order, Opens, Paired

LEMMA OrderKept ==
  ASSUME Enough, SendInv, Order, [Next]_vars
  PROVE  Order'
<1>1. CASE Call
  <2>1. UNCHANGED <<tx, line, parse>> /\ \A d \in Ctx \ {"ioctl"} : ctx'[d] = ctx[d]
    BY <1>1 DEF Call, TuxInit, TuxSetLed, TakeLed, driver, device, SendInv, Types
  <2>2. Opens(ctx'["ioctl"].buf) /\ Opens(ctx'["ioctl"].pkt)
    <3>1. ctx'["ioctl"].buf = <<>> /\ ctx'["ioctl"].pkt \in {InitPacket, <<>>}
      BY <1>1 DEF Call, TuxInit, TakeLed, InInit, InSetLed, Idle, SendInv, Types, Ctx
    <3> QED
      BY <3>1, PacketsOpen
  <2>3. Opens(tx')
    BY <2>1 DEF Order
  <2> QED
    BY <2>1, <2>2, <2>3, OrderChanged DEF Ctx
<1>2. CASE HandlePacket
  <2>1. UNCHANGED <<tx, line, parse>> /\ \A d \in Ctx \ {"rx"} : ctx'[d] = ctx[d]
    BY <1>2 DEF HandlePacket, driver, device, SendInv, Types
  <2>2. Opens(ctx'["rx"].buf) /\ Opens(ctx'["rx"].pkt)
    <3>1. \/ ctx'["rx"] = ctx["rx"]
          \/ ctx'["rx"].buf = <<>> /\ ctx'["rx"].pkt = InitPacket
      BY <1>2 DEF HandlePacket, InInit, Idle, SendInv, Types, Ctx
    <3> QED
      BY <3>1, PacketsOpen DEF Order, Ctx
  <2>3. Opens(tx')
    BY <2>1 DEF Order
  <2> QED
    BY <2>1, <2>2, <2>3, OrderChanged DEF Ctx
<1>3. CASE Wakeup
  <2>1. UNCHANGED <<tx, line, parse>> /\ \A d \in Ctx \ {"tx"} : ctx'[d] = ctx[d]
    BY <1>3 DEF Wakeup, driver, device, SendInv, Types
  <2>2. ctx'["tx"].buf = <<>> /\ ctx'["tx"].pkt = <<>>
    BY <1>3 DEF Wakeup, Idle, SendInv, Types, Ctx
  <2>3. Opens(tx') /\ Opens(ctx'["tx"].buf) /\ Opens(ctx'["tx"].pkt)
    BY <2>1, <2>2, PacketsOpen DEF Order
  <2> QED
    BY <2>1, <2>3, OrderChanged DEF Ctx
<1>4. ASSUME NEW c \in Ctx, LineDiscipline(c)
      PROVE  Order'
  BY <1>4, OrderLine
<1>5. CASE Receive
  BY <1>5, OrderReceive
<1>6. CASE Reset
  <2>1. /\ UNCHANGED <<ctx, tx, line>> /\ line \in Seq(Byte)
        /\ parse' = "command" /\ line # <<>> => line[1] \notin Lit
    BY <1>6 DEF Reset, driver, SendInv, Types
  <2> QED
    BY <2>1 DEF Order, Opens, Paired
<1>7. CASE Same
  BY <1>7 DEF Same, driver, device, Order, Opens, Paired
<1> QED
  BY <1>1, <1>2, <1>3, <1>4, <1>5, <1>6, <1>7, CallOrSame

(* On one processor, with a paced program and user and room for what they and
   the answer to a RESET can have under way, the driver refuses no byte, the
   controller takes no opcode for data, and no data for an opcode but the rest
   of a command a RESET cut short, whichever contexts put the commands
   (tuxctl_ldisc_put, tuxctl_ldisc_write_wakeup, set_led_tux,
   tuxctl_handle_packet).                                                     *)
THEOREM CommandsWhole ==
  ASSUME Enough
  PROVE  Spec => []CommandsArriveWhole
<1>1. Init => SendInv /\ Order
  <2>1. Init => Order
    BY PacketsOpen DEF Init, Order, Opens, Idle
  <2> QED
    BY <2>1, InitInv
<1>2. SendInv /\ Order /\ [Next]_vars => (SendInv /\ Order)'
  BY StepInv, OrderKept
<1>3. SendInv /\ Order => CommandsArriveWhole
  BY DEF SendInv, Types, AllWhole, Order, CommandsArriveWhole
<1> QED
  BY <1>1, <1>2, <1>3, PTL DEF Spec

(* What the context that has written is to do next, and what it will put. *)
LEMMA AfterPutIs ==
  ASSUME NEW c \in Ctx, ctx[c] \in Context, ctx[c].left = 0, previous_LED \in Lit
  PROVE  LET x == AfterPut(c)
         IN  /\ ctx[c].puts = 2 => /\ x.pc = "put" /\ x.puts = 1 /\ x.pkt = ctx[c].pkt
                                   /\ x.then = ctx[c].then /\ x.buf = <<>>
             /\ ctx[c].puts # 2 /\ ctx[c].then = "restore" =>
                  /\ x.pc = "led" /\ x.arg = previous_LED /\ x.then = "done" /\ x.buf = <<>>
             /\ ctx[c].puts # 2 /\ ctx[c].then # "restore" =>
                  x.pc = "idle" /\ x.then = "done" /\ x.buf = <<>>
             /\ ctx[c].pc = "write" => Puts(x) = NextPut(ctx[c]) \o Restoring(ctx[c])
<1> DEFINE x == AfterPut(c)
<1>1. ctx[c].puts = 2 => /\ x.pc = "put" /\ x.puts = 1 /\ x.pkt = ctx[c].pkt
                         /\ x.then = ctx[c].then /\ x.buf = <<>>
  BY DEF AfterPut, Context
<1>2. ctx[c].puts # 2 /\ ctx[c].then = "restore" =>
        /\ x.pc = "led" /\ x.arg = previous_LED /\ x.then = "done" /\ x.buf = <<>>
  BY DEF AfterPut, InSetLed, Idle
<1>3. ctx[c].puts # 2 /\ ctx[c].then # "restore" =>
        x.pc = "idle" /\ x.then = "done" /\ x.buf = <<>>
  BY DEF AfterPut, Idle
<1> HIDE DEF x
<1>4. /\ ThisPut(ctx[c]) \in Seq(Byte) /\ NextPut(ctx[c]) \in Seq(Byte)
      /\ Restoring(ctx[c]) \in Seq(Byte) /\ <<>> \in Seq(Byte) /\ ctx[c].pkt \in Seq(Byte)
  BY PutsSeq
<1>5. ASSUME ctx[c].pc = "write"
      PROVE  Puts(x) = NextPut(ctx[c]) \o Restoring(ctx[c])
  <2>1. CASE ctx[c].puts = 2
    <3>1. ThisPut(x) = ctx[c].pkt /\ NextPut(x) = <<>> /\ Restoring(x) = Restoring(ctx[c])
      BY <1>1, <2>1 DEF ThisPut, NextPut, Restoring
    <3>2. NextPut(ctx[c]) = ctx[c].pkt
      BY <2>1 DEF NextPut
    <3>3. Puts(x) = ctx[c].pkt \o (<<>> \o Restoring(ctx[c]))
      BY <1>1, <2>1, <3>1 DEF Puts
    <3> QED
      BY <1>4, <3>2, <3>3, Cat
  <2>2. CASE ctx[c].puts # 2 /\ ctx[c].then = "restore"
    <3>1. /\ Puts(x) = LedPacket(previous_LED) \o LedPacket(previous_LED)
          /\ NextPut(ctx[c]) = <<>>
          /\ Restoring(ctx[c]) = LedPacket(previous_LED) \o LedPacket(previous_LED)
      BY <1>2, <2>2 DEF Puts, NextPut, Restoring
    <3> QED
      BY <1>4, <3>1, Cat
  <2>3. CASE ctx[c].puts # 2 /\ ctx[c].then # "restore"
    <3>1. Puts(x) = <<>> /\ NextPut(ctx[c]) = <<>> /\ Restoring(ctx[c]) = <<>>
      BY <1>3, <2>3 DEF Puts, NextPut, Restoring
    <3> QED
      BY <1>4, <3>1, Cat
  <2> QED
    BY <2>1, <2>2, <2>3
<1> QED
  BY <1>1, <1>2, <1>3, <1>5 DEF x

LEMMA Assoc ==
  ASSUME NEW s \in Seq(Byte), NEW t \in Seq(Byte), NEW u \in Seq(Byte)
  PROVE  (s \o t) \o u = s \o (t \o u)
BY ConcatAssociative

(* What a context has yet to put depends on previous_LED and on it alone. *)
LEMMA PutsPrimed ==
  ASSUME NEW c \in Ctx, previous_LED' = previous_LED
  PROVE  Puts(ctx[c])' = Puts(ctx'[c])
BY DEF Puts, ThisPut, NextPut, Restoring

LEMMA NothingHeld ==
  ASSUME SendInv
  PROVE  /\ \A c \in Ctx : /\ ctx[c].pc = "idle" => Puts(ctx[c]) = <<>>
                           /\ ctx[c].pc # "write" => ctx[c].buf = <<>>
                           /\ ctx[c].buf \in Seq(Byte) /\ Puts(ctx[c]) \in Seq(Byte)
         /\ tx \in Seq(Byte) /\ line \in Seq(Byte) /\ <<>> \in Seq(Byte)
         /\ previous_LED \in Lit
         /\ ctx["rx"].pc # "idle" => ctx["tx"].buf = <<>>
<1>1. \A c \in Ctx : ctx[c].pc # "write" => ctx[c].buf = <<>>
  BY DEF SendInv, Places, AtPlace
<1>2. tx \in Seq(Byte) /\ line \in Seq(Byte) /\ <<>> \in Seq(Byte) /\ previous_LED \in Lit
  BY DEF SendInv, Types
<1>3. ctx["rx"].pc # "idle" => ctx["tx"].pc = "idle"
  BY DEF SendInv, Exclusive
<1>4. \A c \in Ctx : ctx[c].pc = "idle" => Puts(ctx[c]) = <<>>
  BY DEF Puts
<1>5. \A c \in Ctx : ctx[c].buf \in Seq(Byte) /\ Puts(ctx[c]) \in Seq(Byte)
  BY <1>2, Numbers, PutsSeq
<1> QED
  BY <1>1, <1>2, <1>3, <1>4, <1>5 DEF Ctx

(* No step of the line discipline adds to what is under way, takes from it or
   changes its order.                                                        *)
LEMMA StoreLedFlow ==
  ASSUME Enough, SendInv, Kept, NEW c \in Ctx, StoreLed(c)
  PROVE  Future' = Future
<1> DEFINE old == ctx[c]
           p   == LedPacket(old.arg)
<1>1. p \in Seq(Byte) /\ Puts(old) = p \o p
  BY StoreLedDoes, Packets DEF Puts
<1>2. Puts(ctx[c])' = p \o (p \o <<>>)
  BY StoreLedDoes DEF Puts, ThisPut, NextPut, Restoring
<1>3. Puts(ctx[c])' = Puts(ctx[c])
  BY <1>1, <1>2, Cat
<1>4. ASSUME NEW d \in Ctx \ {c}, d # "tx"
      PROVE  Puts(ctx[d])' = Puts(ctx[d])
  <2>1. CASE c = "rx"
    <3>1. previous_LED' = previous_LED
      BY <2>1, StoreLedDoes DEF Kept, KeptInRx
    <3> QED
      BY <3>1, PutsPrimed, StoreLedDoes
  <2>2. CASE c = "ioctl"
    <3>1. d = "rx" /\ ctx[d].pc = "idle" /\ ctx'[d].pc = "idle"
      BY <1>4, <2>2, StoreLedDoes DEF Ctx
    <3> QED
      BY <3>1 DEF Puts
  <2> QED
    BY <2>1, <2>2, StoreLedDoes DEF Ctx
<1>5. \A d \in Ctx : ctx'[d].buf = ctx[d].buf
  BY StoreLedDoes
<1>6. Puts(ctx["rx"])' = Puts(ctx["rx"]) /\ Puts(ctx["ioctl"])' = Puts(ctx["ioctl"])
  BY <1>3, <1>4 DEF Ctx
<1>7. tx' = tx /\ line' = line
  BY StoreLedDoes
<1> QED
  BY <1>5, <1>6, <1>7 DEF Future, Ctx

LEMMA PutFlow ==
  ASSUME Enough, SendInv, NEW c \in Ctx, Put(c)
  PROVE  Future' = Future
<1> DEFINE old == ctx[c]
           r   == NextPut(old) \o Restoring(old)
           I   == Puts(ctx["ioctl"])
           R   == Puts(ctx["rx"])
<1>1. previous_LED' = previous_LED /\ tx' = tx \o old.pkt /\ line' = line
  BY PutDoes
<1>2. old.pkt \in Seq(Byte) /\ r \in Seq(Byte) /\ <<>> \in Seq(Byte)
  BY NothingHeld, Numbers, PutsSeq, Cat
<1>3. Puts(old) = old.pkt \o r
  BY PutDoes DEF Puts, ThisPut
<1>4. Puts(ctx'[c]) = r
  <2>1. ThisPut(ctx'[c]) = <<>> /\ NextPut(ctx'[c]) = NextPut(old) /\ Restoring(ctx'[c]) = Restoring(old)
    BY PutDoes DEF ThisPut, NextPut, Restoring
  <2>2. Puts(ctx'[c]) = <<>> \o r
    BY <2>1, PutDoes DEF Puts
  <2> QED
    BY <1>2, <2>2, Cat
<1>5. \A d \in Ctx : ctx'[d].buf = ctx[d].buf
  BY PutDoes
<1>6. CASE c = "rx"
  <2>1. R = old.pkt \o r /\ R' = r /\ I' = I
    BY <1>1, <1>3, <1>4, <1>6, PutDoes, PutsPrimed DEF Ctx
  <2>2. /\ I \in Seq(Byte) /\ ctx["ioctl"].buf \in Seq(Byte) /\ tx \in Seq(Byte)
        /\ ctx["rx"].buf \in Seq(Byte) /\ ctx["tx"].buf \in Seq(Byte) /\ line \in Seq(Byte)
    BY NothingHeld DEF Ctx
  <2>3. PICK b \in Seq(Byte) : b = ctx["ioctl"].buf \o I
    BY <2>2, Cat
  <2>4. tx \o ((old.pkt \o r) \o b) = (tx \o old.pkt) \o (r \o b)
    <3> HIDE DEF r
    <3>1. PICK k \in Seq(Byte) : k = old.pkt
      BY <1>2
    <3>2. PICK q \in Seq(Byte) : q = r
      BY <1>2
    <3>3. PICK h \in Seq(Byte) : h = tx
      BY <2>2
    <3>4. PICK m \in Seq(Byte) : m = q \o b
      BY Cat
    <3>5. (k \o q) \o b = k \o (q \o b)
      BY Assoc
    <3>6. (h \o k) \o m = h \o (k \o m)
      BY Assoc
    <3> QED
      BY <3>1, <3>2, <3>3, <3>4, <3>5, <3>6
  <2> HIDE DEF I, R, r
  <2>5. Future = line \o (ctx["tx"].buf \o (ctx["rx"].buf \o (tx \o (R \o b))))
    BY <2>3 DEF Future, I, R
  <2>6. Future' = line \o (ctx["tx"].buf \o (ctx["rx"].buf \o (tx' \o (R' \o b))))
    BY <1>1, <1>5, <2>1, <2>3 DEF Future, I, R, Ctx
  <2> QED
    BY <1>1, <2>1, <2>4, <2>5, <2>6
<1>7. CASE c = "ioctl"
  <2>1. /\ I = old.pkt \o r /\ I' = r /\ R' = R
    BY <1>1, <1>3, <1>4, <1>7, PutDoes, PutsPrimed DEF Ctx
  <2>2. /\ R = <<>> /\ tx = <<>> /\ ctx["ioctl"].buf = <<>>
    BY <1>7, PutDoes, NothingHeld DEF Ctx
  <2> HIDE DEF I, R, r
  <2>3. tx' = old.pkt
    BY <1>1, <1>2, <2>2, Cat
  <2>4. Future = line \o (ctx["tx"].buf \o (ctx["rx"].buf \o (<<>> \o (<<>> \o (<<>> \o (old.pkt \o r))))))
    BY <2>1, <2>2 DEF Future, I, R
  <2>5. Future' = line \o (ctx["tx"].buf \o (ctx["rx"].buf \o (old.pkt \o (<<>> \o (<<>> \o r)))))
    BY <1>1, <1>5, <2>1, <2>2, <2>3 DEF Future, I, R, Ctx
  <2>6. <<>> \o (<<>> \o (<<>> \o (old.pkt \o r))) = old.pkt \o (<<>> \o (<<>> \o r))
    BY <1>2, Cat
  <2> QED
    BY <2>4, <2>5, <2>6
<1> QED
  BY <1>6, <1>7, PutDoes DEF Ctx

LEMMA WriteRoomFlow ==
  ASSUME Enough, SendInv, NEW c \in Ctx, WriteRoom(c)
  PROVE  Future' = Future
<1>1. Puts(ctx'[c]) = Puts(ctx[c])
  BY WriteRoomDoes DEF Puts, ThisPut, NextPut, Restoring
<1>2. \A d \in Ctx : Puts(ctx[d])' = Puts(ctx[d])
  BY <1>1, WriteRoomDoes, PutsPrimed
<1>3. \A d \in Ctx : ctx'[d].buf = ctx[d].buf
  BY WriteRoomDoes
<1>4. tx' = tx /\ line' = line
  BY WriteRoomDoes
<1> QED
  BY <1>2, <1>3, <1>4 DEF Future, Ctx

LEMMA TakeFlow ==
  ASSUME Enough, SendInv, NEW c \in Ctx, Take(c)
  PROVE  Future' = Future
<1> DEFINE I == Puts(ctx["ioctl"])
           R == Puts(ctx["rx"])
           b == ctx["ioctl"].buf
<1>1. /\ tx' = <<>> /\ line' = line /\ ctx'[c].buf = tx /\ ctx[c].buf = <<>>
      /\ \A d \in Ctx \ {c} : ctx'[d].buf = ctx[d].buf
  BY TakeDoes
<1>2. Puts(ctx'[c]) = Puts(ctx[c])
  BY TakeDoes DEF Puts, ThisPut, NextPut, Restoring
<1>3. I' = I /\ R' = R
  BY <1>2, TakeDoes, PutsPrimed DEF Ctx
<1>4. /\ I \in Seq(Byte) /\ R \in Seq(Byte) /\ b \in Seq(Byte) /\ tx \in Seq(Byte)
      /\ <<>> \in Seq(Byte) /\ ctx["rx"].buf \in Seq(Byte)
  BY NothingHeld DEF Ctx
<1> HIDE DEF I, R
<1>5. PICK rest \in Seq(Byte) : rest = R \o (b \o I)
  BY <1>4, Cat
<1>6. Future = line \o (ctx["tx"].buf \o (ctx["rx"].buf \o (tx \o rest)))
  BY <1>5 DEF Future, I, R
<1>7. CASE c = "rx"
  <2>1. Future' = line \o (ctx["tx"].buf \o (tx \o (<<>> \o rest)))
    BY <1>1, <1>3, <1>5, <1>7 DEF Future, I, R, Ctx
  <2>2. ctx["rx"].buf = <<>>
    BY <1>1, <1>7
  <2>3. tx \o (<<>> \o rest) = <<>> \o (tx \o rest)
    BY <1>4, Cat
  <2> QED
    BY <1>6, <2>1, <2>2, <2>3
<1>8. CASE c = "tx"
  <2>1. ctx["rx"].buf = <<>>
    BY <1>8, TakeDoes, NothingHeld DEF SendInv, Exclusive, Ctx
  <2>2. Future' = line \o (tx \o (<<>> \o (<<>> \o rest)))
    BY <1>1, <1>3, <1>5, <1>8, <2>1 DEF Future, I, R, Ctx
  <2>3. ctx["tx"].buf = <<>>
    BY <1>1, <1>8
  <2>4. tx \o (<<>> \o (<<>> \o rest)) = <<>> \o (<<>> \o (tx \o rest))
    BY <1>4, Cat
  <2> QED
    BY <1>6, <2>1, <2>2, <2>3, <2>4
<1>9. CASE c = "ioctl"
  <2>1. R = <<>> /\ b = <<>>
    BY <1>1, <1>9, TakeDoes, NothingHeld DEF R, Ctx
  <2>2. Future' = line \o (ctx["tx"].buf \o (ctx["rx"].buf \o (<<>> \o (<<>> \o (tx \o I)))))
    BY <1>1, <1>3, <1>9, <2>1 DEF Future, I, R, Ctx
  <2>3. tx \o rest = <<>> \o (<<>> \o (tx \o I))
    BY <1>4, <1>5, <2>1, Cat
  <2> QED
    BY <1>6, <2>2, <2>3
<1> QED
  BY <1>7, <1>8, <1>9 DEF Ctx

LEMMA WriteFlow ==
  ASSUME Enough, SendInv, NEW c \in Ctx, Write(c)
  PROVE  Future' = Future
<1> DEFINE I == Puts(ctx["ioctl"])
           R == Puts(ctx["rx"])
           b == ctx["ioctl"].buf
           t == ctx["tx"].buf
           r == ctx["rx"].buf
<1>1. /\ tx' = tx /\ line' = line \o ctx[c].buf
      /\ \A d \in Ctx \ {c} : ctx'[d].buf = ctx[d].buf
  BY WriteDoes
<1>2. Puts(ctx'[c]) = Puts(ctx[c]) /\ ctx'[c].buf = <<>>
  <2>1. /\ ctx[c] \in Context /\ ctx[c].left = 0 /\ previous_LED \in Lit /\ ctx[c].pc = "write"
        /\ ctx'[c] = AfterPut(c)
    BY WriteDoes, Numbers, NothingHeld
  <2>2. /\ NextPut(ctx[c]) \in Seq(Byte) /\ Restoring(ctx[c]) \in Seq(Byte)
    BY <2>1, PutsSeq
  <2>3. Puts(ctx[c]) = <<>> \o (NextPut(ctx[c]) \o Restoring(ctx[c]))
    BY <2>1 DEF Puts, ThisPut
  <2>4. Puts(ctx[c]) = NextPut(ctx[c]) \o Restoring(ctx[c])
    BY <2>2, <2>3, Cat
  <2>5. Puts(AfterPut(c)) = NextPut(ctx[c]) \o Restoring(ctx[c]) /\ AfterPut(c).buf = <<>>
    BY <2>1, AfterPutIs
  <2> QED
    BY <2>1, <2>4, <2>5
<1>3. I' = I /\ R' = R
  BY <1>2, WriteDoes, PutsPrimed DEF Ctx
<1>4. /\ I \in Seq(Byte) /\ R \in Seq(Byte) /\ b \in Seq(Byte) /\ tx \in Seq(Byte)
      /\ <<>> \in Seq(Byte) /\ r \in Seq(Byte) /\ t \in Seq(Byte) /\ line \in Seq(Byte)
  BY NothingHeld DEF Ctx
<1> HIDE DEF I, R
<1>5. PICK rest \in Seq(Byte) : rest = tx \o (R \o (b \o I))
  BY <1>4, Cat
<1>6. Future = line \o (t \o (r \o rest))
  BY <1>5 DEF Future, I, R
<1>7. CASE c = "rx"
  <2>1. Future' = (line \o r) \o (t \o (<<>> \o rest))
    BY <1>1, <1>2, <1>3, <1>5, <1>7 DEF Future, I, R, Ctx
  <2>2. t = <<>>
    BY <1>7, WriteDoes, NothingHeld
  <2>3. (line \o r) \o (<<>> \o (<<>> \o rest)) = line \o (<<>> \o (r \o rest))
    <3> HIDE DEF r
    <3>1. <<>> \o rest = rest /\ <<>> \o (r \o rest) = r \o rest
      BY <1>4, Cat
    <3>3. line \in Seq(Byte) /\ r \in Seq(Byte)
      BY <1>4
    <3>2. (line \o r) \o rest = line \o (r \o rest)
      BY <3>3, Assoc
    <3> QED
      BY <3>1, <3>2
  <2> QED
    BY <1>6, <2>1, <2>2, <2>3
<1>8. CASE c = "tx"
  <2>1. r = <<>>
    BY <1>8, WriteDoes, NothingHeld DEF SendInv, Exclusive, Ctx
  <2>2. Future' = (line \o t) \o (<<>> \o (r \o rest))
    BY <1>1, <1>2, <1>3, <1>5, <1>8 DEF Future, I, R, Ctx
  <2>3. (line \o t) \o (<<>> \o (<<>> \o rest)) = line \o (t \o (<<>> \o rest))
    <3> HIDE DEF t
    <3>1. <<>> \o rest = rest
      BY <1>4, Cat
    <3>3. line \in Seq(Byte) /\ t \in Seq(Byte)
      BY <1>4
    <3>2. (line \o t) \o rest = line \o (t \o rest)
      BY <3>3, Assoc
    <3> QED
      BY <3>1, <3>2
  <2> QED
    BY <1>6, <2>1, <2>2, <2>3
<1>9. CASE c = "ioctl"
  <2>1. R = <<>> /\ r = <<>> /\ t = <<>> /\ tx = <<>>
    BY <1>9, WriteDoes, NothingHeld DEF R, Ctx
  <2>2. Future' = (line \o b) \o (t \o (r \o (tx \o (R \o (<<>> \o I)))))
    BY <1>1, <1>2, <1>3, <1>9 DEF Future, I, R, Ctx
  <2>3. <<>> \o I = I /\ <<>> \o (b \o I) = b \o I
    BY <1>4, Cat
  <2>4. (line \o b) \o I = line \o (b \o I)
    <3> HIDE DEF b
    <3>1. line \in Seq(Byte) /\ b \in Seq(Byte) /\ I \in Seq(Byte)
      BY <1>4
    <3> QED
      BY <3>1, Assoc
  <2> QED
    BY <1>5, <1>6, <2>1, <2>2, <2>3, <2>4
<1> QED
  BY <1>7, <1>8, <1>9 DEF Ctx

-----------------------------------------------------------------------------
(* The driver remembers what was asked, whatever interrupts it. *)
LEMMA EmptyClean ==
  \A v : Clean(<<>>, v)
BY DEF Clean

LEMMA NoLit ==
  /\ \A v \in Lit : v \notin {"none", "ENABLE", "LED_SET"}
  /\ Led \subseteq Lit /\ "off" \in Lit
BY TuxSendAssumption DEF Lit

LEMMA StoreLedKept ==
  ASSUME Enough, SendInv, Kept, NEW c \in Ctx, StoreLed(c)
  PROVE  Kept'
<1>1. KeptInIoctl(ctx["ioctl"]) /\ KeptInRx(ctx["rx"]) /\ asked \in Lit \cup {"none"}
  BY DEF Kept
<1>2. Pushing("rx")' = Pushing("rx")
  BY StoreLedDoes DEF Pushing, Ctx
<1>3. CASE c = "rx"
  <2>1. previous_LED' = previous_LED /\ ctx'["ioctl"] = ctx["ioctl"] /\ ctx'["rx"].pc = "put"
    BY <1>1, <1>3, StoreLedDoes DEF KeptInRx, Ctx
  <2>2. KeptInIoctl(ctx["ioctl"])' /\ KeptInRx(ctx["rx"])'
    BY <1>1, <2>1, StoreLedDoes DEF KeptInIoctl, KeptInRx
  <2> QED
    BY <1>2, <2>2, StoreLedDoes DEF Kept
<1>4. CASE c = "ioctl"
  <2>1. asked \in Lit /\ ctx["ioctl"].arg = asked /\ previous_LED' = asked
    BY <1>1, <1>4, StoreLedDoes DEF KeptInIoctl
  <2>2. Clean(ctx'["ioctl"].pkt, asked) /\ Clean(ctx'["ioctl"].buf, asked)
    BY <1>4, <2>1, StoreLedDoes, PacketsEnd, EmptyClean
  <2>3. KeptInIoctl(ctx["ioctl"])'
    BY <1>4, <2>1, <2>2, StoreLedDoes, NoLit DEF KeptInIoctl
  <2>4. KeptInRx(ctx["rx"])'
    BY <1>4, StoreLedDoes DEF KeptInRx, Ctx
  <2> QED
    BY <1>2, <2>3, <2>4, StoreLedDoes DEF Kept
<1> QED
  BY <1>3, <1>4, StoreLedDoes DEF Ctx

LEMMA PutKept ==
  ASSUME Enough, SendInv, Kept, NEW c \in Ctx, Put(c)
  PROVE  Kept'
<1>1. KeptInIoctl(ctx["ioctl"]) /\ KeptInRx(ctx["rx"])
  BY DEF Kept
<1>2. KeptInRx(ctx["rx"])'
  BY <1>1, PutDoes DEF KeptInRx, Ctx
<1>3. CASE c = "rx"
  <2>1. KeptInIoctl(ctx["ioctl"])'
    BY <1>1, <1>3, PutDoes DEF KeptInIoctl, Ctx
  <2>2. Pushing("rx")'
    BY <1>3, PutDoes DEF Pushing
  <2> QED
    BY <1>2, <2>1, <2>2, PutDoes DEF Kept
<1>4. CASE c = "ioctl"
  <2>1. KeptInIoctl(ctx["ioctl"])'
    BY <1>1, <1>4, PutDoes DEF KeptInIoctl
  <2>2. Clean(ctx["ioctl"].pkt, asked)
    BY <1>1, <1>4, PutDoes DEF KeptInIoctl
  <2>3. tx' = ctx["ioctl"].pkt
    <3>1. ctx["ioctl"].pkt \in Seq(Byte) /\ tx' = <<>> \o ctx["ioctl"].pkt
      BY <1>4, PutDoes, PutAll
    <3> QED
      BY <3>1, Cat
  <2>4. Clean(tx, asked)'
    BY <2>2, <2>3, PutDoes
  <2> QED
    BY <1>2, <2>1, <2>4, PutDoes DEF Kept
<1> QED
  BY <1>3, <1>4, PutDoes DEF Ctx

LEMMA WriteRoomKept ==
  ASSUME Enough, SendInv, Kept, NEW c \in Ctx, WriteRoom(c)
  PROVE  Kept'
<1>1. KeptInIoctl(ctx["ioctl"]) /\ KeptInRx(ctx["rx"])
  BY DEF Kept
<1>2. KeptInRx(ctx["rx"])'
  BY <1>1, WriteRoomDoes DEF KeptInRx, Ctx
<1>3. KeptInIoctl(ctx["ioctl"])'
  <2>1. CASE c = "ioctl"
    BY <1>1, <2>1, WriteRoomDoes DEF KeptInIoctl
  <2>2. CASE c # "ioctl"
    BY <1>1, <2>2, WriteRoomDoes DEF KeptInIoctl, Ctx
  <2> QED
    BY <2>1, <2>2
<1>4. Pushing("rx")' = Pushing("rx")
  BY WriteRoomDoes DEF Pushing, Ctx
<1> QED
  BY <1>2, <1>3, <1>4, WriteRoomDoes DEF Kept

LEMMA TakeKept ==
  ASSUME Enough, SendInv, Kept, NEW c \in Ctx, Take(c)
  PROVE  Kept'
<1>1. /\ KeptInIoctl(ctx["ioctl"]) /\ KeptInRx(ctx["rx"])
      /\ ~Pushing("rx") => Clean(tx, asked)
  BY DEF Kept
<1>2. KeptInRx(ctx["rx"])'
  BY <1>1, TakeDoes DEF KeptInRx, Ctx
<1>3. KeptInIoctl(ctx["ioctl"])'
  <2>1. CASE c = "ioctl"
    <3>1. Clean(tx, asked)
      BY <1>1, <2>1, TakeDoes DEF Pushing
    <3> QED
      BY <1>1, <2>1, <3>1, TakeDoes DEF KeptInIoctl
  <2>2. CASE c # "ioctl"
    BY <1>1, <2>2, TakeDoes DEF KeptInIoctl, Ctx
  <2> QED
    BY <2>1, <2>2
<1>4. Clean(tx, asked)'
  BY TakeDoes, EmptyClean
<1> QED
  BY <1>2, <1>3, <1>4, TakeDoes DEF Kept

LEMMA WriteKept ==
  ASSUME Enough, SendInv, Kept, NEW c \in Ctx, Write(c)
  PROVE  Kept'
<1> DEFINE x == ctx'[c]
<1>1. /\ KeptInIoctl(ctx["ioctl"]) /\ KeptInRx(ctx["rx"])
      /\ ~Pushing("rx") => Clean(tx, asked)
  BY DEF Kept
<1>2. /\ ctx[c].puts = 2 => /\ x.pc = "put" /\ x.pkt = ctx[c].pkt
                            /\ x.then = ctx[c].then /\ x.buf = <<>>
      /\ ctx[c].puts # 2 /\ ctx[c].then = "restore" => x.pc = "led" /\ x.arg = previous_LED
      /\ ctx[c].puts # 2 /\ ctx[c].then # "restore" =>
           x.pc = "idle" /\ x.then = "done" /\ x.buf = <<>>
      /\ x.pc \notin {"room", "take"}
  <2>1. ctx[c] \in Context /\ ctx[c].left = 0 /\ previous_LED \in Lit /\ x = AfterPut(c)
    BY WriteDoes, Numbers, NothingHeld
  <2> HIDE DEF x
  <2> QED
    BY <2>1, AfterPutIs
<1>3. KeptInRx(ctx["rx"])'
  <2>1. CASE c = "rx"
    BY <1>2, <2>1, WriteDoes DEF KeptInRx
  <2>2. CASE c # "rx"
    BY <1>1, <2>2, WriteDoes DEF KeptInRx, Ctx
  <2> QED
    BY <2>1, <2>2
<1>4. KeptInIoctl(ctx["ioctl"])'
  <2>1. CASE c = "ioctl"
    <3>1. /\ ctx[c].then = "done" /\ asked # "none" /\ previous_LED = asked
          /\ Clean(ctx[c].pkt, asked)
      BY <1>1, <2>1, WriteDoes DEF KeptInIoctl
    <3>2. Clean(x.buf, asked) /\ x.then = "done" /\ x.pc \in {"put", "idle"}
      BY <1>2, <3>1, EmptyClean
    <3>3. x.pc # "idle" => Clean(x.pkt, asked)
      BY <1>2, <3>1
    <3> QED
      BY <2>1, <3>1, <3>2, <3>3, WriteDoes DEF KeptInIoctl
  <2>2. CASE c # "ioctl"
    BY <1>1, <2>2, WriteDoes DEF KeptInIoctl, Ctx
  <2> QED
    BY <2>1, <2>2
<1>5. ~Pushing("rx")' => Clean(tx, asked)'
  <2>1. CASE c = "rx"
    BY <2>1, WriteDoes, EmptyClean
  <2>2. CASE c # "rx"
    BY <1>1, <2>2, WriteDoes DEF Pushing, Ctx
  <2> QED
    BY <2>1, <2>2
<1> QED
  BY <1>3, <1>4, <1>5, WriteDoes DEF Kept

(* What begins a context's run. *)
LEMMA BegunAt ==
  ASSUME NEW v, NEW then
  PROVE  /\ InInit(then).pc = "put" /\ InInit(then).puts = 2 /\ InInit(then).pkt = InitPacket
         /\ InInit(then).then = then /\ InInit(then).buf = <<>>
         /\ InSetLed(v).pc = "led" /\ InSetLed(v).arg = v /\ InSetLed(v).then = "done"
         /\ InSetLed(v).buf = <<>>
BY DEF InInit, InSetLed, Idle

LEMMA OthersKept ==
  ASSUME Enough, SendInv, Kept, HandlePacket \/ Wakeup \/ Receive \/ Reset \/ Same
  PROVE  Kept'
<1>1. /\ ctx'["ioctl"] = ctx["ioctl"] /\ Pushing("rx")' = Pushing("rx")
      /\ ctx'["rx"] = ctx["rx"] \/ ctx'["rx"].pc = "put"
  <2>1. ctx \in [Ctx -> Context]
    BY DEF SendInv, Types
  <2>2. CASE HandlePacket
    <3>1. ctx' = ctx \/ (ctx' = [ctx EXCEPT !["rx"] = InInit("restore")] /\ ctx["rx"].pc = "idle")
      BY <2>2 DEF HandlePacket, MayStart
    <3> QED
      BY <2>1, <3>1, BegunAt DEF Pushing, Ctx
  <2>3. CASE Wakeup
    <3>1. \A d \in Ctx \ {"tx"} : ctx'[d] = ctx[d]
      BY <2>1, <2>3 DEF Wakeup
    <3> QED
      BY <3>1 DEF Pushing, Ctx
  <2>4. CASE Receive \/ Reset \/ Same
    BY <2>4 DEF Receive, Reset, Same, Pushing
  <2> QED
    BY <2>2, <2>3, <2>4
<1>2. UNCHANGED <<previous_LED, tx, asked>>
  BY DEF HandlePacket, Wakeup, Receive, Reset, Same
<1>3. KeptInIoctl(ctx["ioctl"]) /\ KeptInRx(ctx["rx"])
  BY DEF Kept
<1>4. KeptInIoctl(ctx["ioctl"])' /\ KeptInRx(ctx["rx"])'
  BY <1>1, <1>2, <1>3 DEF KeptInIoctl, KeptInRx
<1> QED
  BY <1>1, <1>2, <1>4 DEF Kept

LEMMA CallKept ==
  ASSUME Enough, SendInv, Kept, Call
  PROVE  /\ Kept'
         /\ \A c \in Ctx : ctx[c].pc = "idle"
         /\ tx = <<>> /\ up = <<>> /\ UNCHANGED <<previous_LED, tx, line, up, enabled, leds, parse>>
         /\ \A c \in Ctx \ {"ioctl"} : ctx'[c] = ctx[c]
         /\ asked' \in Lit
         /\ \/ ctx'["ioctl"] = InInit("done") /\ asked' = "off"
            \/ ctx'["ioctl"] = InSetLed(asked') /\ asked # "none"
<1>1. /\ \A c \in Ctx : ctx[c].pc = "idle"
      /\ up = <<>> /\ UNCHANGED <<previous_LED, tx, line, up, enabled, leds, parse>>
  BY DEF Call, Enough, TuxInit, TuxSetLed, MayStart, MayCall, Ctx, driver, device
<1>2. tx = <<>>
  BY <1>1 DEF SendInv, Ring, Pushing, Ctx
<1>3. ctx \in [Ctx -> Context]
  BY DEF SendInv, Types
<1>4. KeptInIoctl(ctx["ioctl"])
  BY DEF Kept
<1>5. ~Pushing("rx")' /\ KeptInRx(ctx["rx"])' /\ \A c \in Ctx \ {"ioctl"} : ctx'[c] = ctx[c]
  <2>1. \A c \in Ctx \ {"ioctl"} : ctx'[c] = ctx[c]
    BY <1>3 DEF Call, TuxInit, TakeLed
  <2> QED
    BY <1>1, <2>1 DEF Pushing, KeptInRx, Ctx
<1>6. CASE TuxInit
  <2>1. asked = "none" /\ asked' = "off" /\ ctx'["ioctl"] = InInit("done") /\ previous_LED = "off"
    BY <1>3, <1>4, <1>6 DEF TuxInit, KeptInIoctl, Ctx
  <2>2. Clean(InitPacket, "off")
    BY PacketsEnd, NoLit
  <2>3. KeptInIoctl(ctx["ioctl"])'
    BY <1>1, <2>1, <2>2, BegunAt, EmptyClean DEF KeptInIoctl
  <2>4. Kept'
    BY <1>1, <1>2, <1>5, <2>1, <2>3, EmptyClean, NoLit DEF Kept
  <2> QED
    BY <1>1, <1>2, <1>5, <2>1, <2>4, NoLit
<1>7. CASE \E v \in Led : TuxSetLed(v) /\ TakeLed(v)
  <2>1. PICK v \in Led : TuxSetLed(v) /\ TakeLed(v)
    BY <1>7
  <2>2. asked # "none" /\ asked' = v /\ ctx'["ioctl"] = InSetLed(v) /\ v \in Lit
    BY <1>3, <2>1, NoLit DEF TuxSetLed, TakeLed, Ctx
  <2>3. KeptInIoctl(ctx["ioctl"])'
    BY <1>1, <2>2, BegunAt, EmptyClean, NoLit DEF KeptInIoctl
  <2>4. Kept'
    BY <1>1, <1>2, <1>5, <2>2, <2>3, EmptyClean DEF Kept
  <2> QED
    BY <1>1, <1>2, <1>5, <2>2, <2>4
<1> QED
  BY <1>6, <1>7 DEF Call

-----------------------------------------------------------------------------
(* What seven sequences, one after the other, owe to the ones they end with. *)
LEMMA Seven ==
  ASSUME NEW q \in [1..7 -> Seq(Byte)], NEW v
  PROVE  LET s == q[1] \o (q[2] \o (q[3] \o (q[4] \o (q[5] \o (q[6] \o q[7])))))
         IN  /\ s \in Seq(Byte)
             /\ Ends(q[7], v) => Ends(s, v)
             /\ Ends(q[5], v) /\ Clean(q[6], v) /\ Clean(q[7], v) => Ends(s, v)
             /\ Has(q[1]) \/ Has(q[5]) \/ Has(q[7]) => Has(s)
<1>0. /\ q[1] \in Seq(Byte) /\ q[2] \in Seq(Byte) /\ q[3] \in Seq(Byte) /\ q[4] \in Seq(Byte)
      /\ q[5] \in Seq(Byte) /\ q[6] \in Seq(Byte) /\ q[7] \in Seq(Byte)
  OBVIOUS
<1>1. PICK x6 \in Seq(Byte) : x6 = q[6] \o q[7]
  BY <1>0, ConcatProperties
<1>2. PICK x5 \in Seq(Byte) : x5 = q[5] \o x6
  BY <1>0, ConcatProperties
<1>3. PICK x4 \in Seq(Byte) : x4 = q[4] \o x5
  BY <1>0, ConcatProperties
<1>4. PICK x3 \in Seq(Byte) : x3 = q[3] \o x4
  BY <1>0, ConcatProperties
<1>5. PICK x2 \in Seq(Byte) : x2 = q[2] \o x3
  BY <1>0, ConcatProperties
<1>6. PICK s \in Seq(Byte) : s = q[1] \o x2
  BY <1>0, ConcatProperties
<1>7. Ends(x5, v) => Ends(s, v)
  <2>1. Ends(x5, v) => Ends(x4, v)
    BY <1>3, EndsBehind
  <2>2. Ends(x4, v) => Ends(x3, v)
    BY <1>4, EndsBehind
  <2>3. Ends(x3, v) => Ends(x2, v)
    BY <1>0, <1>5, EndsBehind
  <2>4. Ends(x2, v) => Ends(s, v)
    BY <1>6, EndsBehind
  <2> QED
    BY <2>1, <2>2, <2>3, <2>4
<1>8. Ends(q[7], v) => Ends(x5, v)
  <2>1. Ends(q[7], v) => Ends(x6, v)
    BY <1>1, EndsBehind
  <2>2. Ends(x6, v) => Ends(x5, v)
    BY <1>2, EndsBehind
  <2> QED
    BY <2>1, <2>2
<1>9. Ends(q[5], v) /\ Clean(q[6], v) /\ Clean(q[7], v) => Ends(x5, v)
  <2>1. Clean(q[6], v) /\ Clean(q[7], v) => Clean(x6, v)
    BY <1>1, CleanCat
  <2>2. Ends(q[5], v) /\ Clean(x6, v) => Ends(x5, v)
    BY <1>2, EndsBefore
  <2> QED
    BY <2>1, <2>2
<1>10. Has(x5) => Has(s)
  <2>1. Has(x5) => Has(x4)
    BY <1>3, HasCat
  <2>2. Has(x4) => Has(x3)
    BY <1>4, HasCat
  <2>3. Has(x3) => Has(x2)
    BY <1>5, HasCat
  <2>4. Has(x2) => Has(s)
    BY <1>6, HasCat
  <2> QED
    BY <2>1, <2>2, <2>3, <2>4
<1>11. Has(q[5]) \/ Has(q[7]) => Has(x5)
  <2>1. Has(q[7]) => Has(x6)
    BY <1>1, HasCat
  <2>2. Has(q[5]) \/ Has(x6) => Has(x5)
    BY <1>2, HasCat
  <2> QED
    BY <2>1, <2>2
<1>12. Has(q[1]) => Has(s)
  BY <1>6, HasCat
<1>13. s = q[1] \o (q[2] \o (q[3] \o (q[4] \o (q[5] \o (q[6] \o q[7])))))
  BY <1>1, <1>2, <1>3, <1>4, <1>5, <1>6
<1> QED
  BY <1>7, <1>8, <1>9, <1>10, <1>11, <1>12, <1>13

LEMMA FutureEndsNext ==
  ASSUME SendInv, SendInv', previous_LED' = previous_LED, NEW v
  PROVE  /\ Ends(Puts(ctx'["ioctl"]), v) => Ends(Future', v)
         /\ Ends(Puts(ctx'["rx"]), v) /\ Clean(ctx'["ioctl"].buf, v) /\ Clean(Puts(ctx'["ioctl"]), v)
              => Ends(Future', v)
         /\ Has(line') \/ Has(Puts(ctx'["rx"])) \/ Has(Puts(ctx'["ioctl"])) => Has(Future')
<1> DEFINE q == [i \in 1..7 |-> IF i = 1 THEN line' ELSE IF i = 2 THEN ctx'["tx"].buf
                  ELSE IF i = 3 THEN ctx'["rx"].buf ELSE IF i = 4 THEN tx'
                  ELSE IF i = 5 THEN Puts(ctx'["rx"]) ELSE IF i = 6 THEN ctx'["ioctl"].buf
                  ELSE Puts(ctx'["ioctl"])]
<1>1. /\ Puts(ctx["ioctl"])' = Puts(ctx'["ioctl"]) /\ Puts(ctx["rx"])' = Puts(ctx'["rx"])
  BY PutsPrimed DEF Ctx
<1>2. tx' \in Seq(Byte) /\ line' \in Seq(Byte) /\ previous_LED \in Lit
      /\ \A c \in Ctx : ctx'[c] \in Context
  BY DEF SendInv, Types
<1>3. \A c \in Ctx : Puts(ctx'[c]) \in Seq(Byte) /\ ctx'[c].buf \in Seq(Byte)
  BY <1>2, PutsSeq
<1>4. q \in [1..7 -> Seq(Byte)]
  BY <1>2, <1>3 DEF Ctx
<1>5. /\ q[1] = line' /\ q[2] = ctx'["tx"].buf /\ q[3] = ctx'["rx"].buf /\ q[4] = tx'
      /\ q[5] = Puts(ctx'["rx"]) /\ q[6] = ctx'["ioctl"].buf /\ q[7] = Puts(ctx'["ioctl"])
  OBVIOUS
<1> HIDE DEF q
<1>6. Future' = q[1] \o (q[2] \o (q[3] \o (q[4] \o (q[5] \o (q[6] \o q[7])))))
  BY <1>1, <1>5 DEF Future
<1>7. /\ Ends(q[7], v) => Ends(Future', v)
      /\ Ends(q[5], v) /\ Clean(q[6], v) /\ Clean(q[7], v) => Ends(Future', v)
      /\ Has(q[1]) \/ Has(q[5]) \/ Has(q[7]) => Has(Future')
  BY <1>4, <1>6, Seven
<1> QED
  BY <1>5, <1>7

(* Twice the same packet, and what a controller that was reset is sent. *)
LEMMA Sent ==
  ASSUME NEW v \in Lit, previous_LED \in Lit
  PROVE  /\ Ends(Puts(InSetLed(v)), v) /\ Clean(Puts(InSetLed(v)), v)
         /\ Ends(Puts(InInit("done")), "off") /\ Has(Puts(InInit("done")))
         /\ Ends(Puts(InInit("restore")), previous_LED) /\ Has(Puts(InInit("restore")))
<1> DEFINE p == LedPacket(previous_LED)
<1>1. /\ LedPacket(v) \in Seq(Byte) /\ Clean(LedPacket(v), v) /\ Ends(LedPacket(v), v)
      /\ InitPacket \in Seq(Byte) /\ Clean(InitPacket, "off") /\ Ends(InitPacket, "off")
      /\ Has(InitPacket) /\ p \in Seq(Byte) /\ Clean(p, previous_LED) /\ Ends(p, previous_LED)
      /\ <<>> \in Seq(Byte)
  BY PacketsEnd
<1>2. Puts(InSetLed(v)) = LedPacket(v) \o LedPacket(v)
  BY BegunAt DEF Puts
<1>3. Puts(InInit("done")) = InitPacket \o (InitPacket \o <<>>)
  BY BegunAt DEF Puts, ThisPut, NextPut, Restoring
<1>4. Puts(InInit("restore")) = InitPacket \o (InitPacket \o (p \o p))
  BY BegunAt DEF Puts, ThisPut, NextPut, Restoring
<1> HIDE DEF p
<1>5. Ends(Puts(InSetLed(v)), v) /\ Clean(Puts(InSetLed(v)), v)
  BY <1>1, <1>2, CleanCat, EndsBefore
<1>6. InitPacket \o <<>> = InitPacket
  BY <1>1, Cat
<1>7. Ends(Puts(InInit("done")), "off") /\ Has(Puts(InInit("done")))
  BY <1>1, <1>3, <1>6, EndsBefore, HasCat
<1>8. PICK q \in Seq(Byte) : q = p \o p
  BY <1>1, Cat
<1>9. PICK r \in Seq(Byte) : r = InitPacket \o q
  BY <1>1, Cat
<1>10. Ends(q, previous_LED) /\ Ends(r, previous_LED) /\ Ends(InitPacket \o r, previous_LED)
  BY <1>1, <1>8, <1>9, EndsBehind
<1>11. Has(InitPacket \o r)
  BY <1>1, HasCat
<1> QED
  BY <1>4, <1>5, <1>7, <1>8, <1>9, <1>10, <1>11

LEMMA CallPromise ==
  ASSUME Enough, SendInv, SendInv', FollowInv, Call
  PROVE  FollowInv'
<1>1. Kept' /\ \A c \in Ctx : ctx[c].pc = "idle"
  BY CallKept DEF FollowInv
<1>2. /\ tx = <<>> /\ up = <<>> /\ UNCHANGED <<previous_LED, tx, line, up, enabled, leds, parse>>
      /\ asked' \in Lit /\ previous_LED \in Lit
  BY CallKept, NothingHeld DEF FollowInv
<1>4. Ends(Puts(ctx'["ioctl"]), asked')
  BY <1>2, CallKept, Sent DEF FollowInv
<1>5. Ends(Future', asked')
  BY <1>2, <1>4, FutureEndsNext
<1>6. CASE ctx'["ioctl"] = InInit("done")
  <2>1. Has(Puts(ctx'["ioctl"]))
    BY <1>2, <1>6, Sent
  <2>2. Has(Future')
    BY <1>2, <2>1, FutureEndsNext
  <2> QED
    BY <1>1, <1>5, <2>2 DEF FollowInv, Promise, Shows
<1>0. CASE parse = "dead"
  BY <1>0, <1>1, <1>2 DEF FollowInv, Promise
<1>7. CASE asked # "none" /\ parse # "dead"
  <2>1. ~Due
    BY <1>2 DEF Due
  <2>2. enabled \/ Has(Future)
    BY <1>7, <2>1 DEF FollowInv, Promise
  <2>3. Future = line
    <3>1. /\ Puts(ctx["ioctl"]) = <<>> /\ Puts(ctx["rx"]) = <<>> /\ ctx["ioctl"].buf = <<>>
          /\ ctx["rx"].buf = <<>> /\ ctx["tx"].buf = <<>> /\ line \in Seq(Byte) /\ <<>> \in Seq(Byte)
      BY <1>1, NothingHeld DEF Ctx
    <3>2. Future = line \o (<<>> \o (<<>> \o (<<>> \o (<<>> \o (<<>> \o <<>>)))))
      BY <1>2, <3>1 DEF Future
    <3>3. <<>> \o <<>> = <<>>
      BY Cat, <<>> \in Seq(Byte)
    <3> QED
      BY <3>1, <3>2, <3>3, Cat
  <2>4. enabled' \/ Has(line')
    BY <1>2, <2>2, <2>3
  <2>5. Has(line') => Has(Future')
    BY <1>2, FutureEndsNext
  <2> QED
    BY <1>1, <1>5, <2>4, <2>5 DEF FollowInv, Promise, Shows
<1> QED
  BY <1>0, <1>6, <1>7, CallKept DEF FollowInv

(* An answer to the controller's RESET sets it up and restores its LEDs. *)
LEMMA HandlePacketPromise ==
  ASSUME Enough, SendInv, SendInv', FollowInv, HandlePacket
  PROVE  FollowInv'
<1>1. /\ Kept /\ Kept' /\ Promise
  BY OthersKept DEF FollowInv
<1>2. /\ ctx["rx"].pc = "idle" /\ up # <<>> /\ up' = Tail(up)
      /\ UNCHANGED <<previous_LED, tx, line, leds, enabled, parse, asked>>
  BY DEF HandlePacket, MayStart, driver, device
<1>3. up \in Seq({"ACK", "RESET"}) /\ previous_LED \in Lit /\ ctx \in [Ctx -> Context]
  BY DEF SendInv, Types
<1>4. CASE Head(up) # "RESET"
  <2>1. ctx' = ctx
    BY <1>4 DEF HandlePacket
  <2>2. Future' = Future
    BY <1>2, <2>1 DEF Future, Puts, ThisPut, NextPut, Restoring
  <2>3. Due => Due'
    <3>1. ASSUME NEW i \in 1..Len(up), up[i] = "RESET"
          PROVE  Due'
      <4>1. i # 1
        BY <1>2, <1>3, <1>4, <3>1
      <4>2. i - 1 \in 1..Len(up') /\ up'[i - 1] = "RESET"
        BY <1>2, <1>3, <3>1, <4>1
      <4> QED
        BY <4>2 DEF Due
    <3> QED
      BY <3>1 DEF Due
  <2> QED
    BY <1>1, <1>2, <2>2, <2>3 DEF FollowInv, Promise, Shows
<1>5. CASE Head(up) = "RESET"
  <2>1. ctx'["rx"] = InInit("restore") /\ ctx'["ioctl"] = ctx["ioctl"]
    BY <1>3, <1>5 DEF HandlePacket, Ctx
  <2>3. Ends(Puts(ctx'["rx"]), previous_LED) /\ Has(Puts(ctx'["rx"]))
    BY <1>3, <2>1, Sent
  <2>4. Has(Future')
    BY <1>2, <2>3, FutureEndsNext
  <2>5. ASSUME asked # "none"
        PROVE  Ends(Future', asked)
    <3> DEFINE x == ctx["ioctl"]
    <3>1. KeptInIoctl(x) /\ asked \in Lit
      BY <1>1, <2>5 DEF Kept
    <3>2. CASE x.pc = "led"
      <4>1. Ends(Puts(x), asked)
        <5>1. Puts(x) = Puts(InSetLed(asked))
          BY <3>1, <3>2, BegunAt DEF Puts, KeptInIoctl
        <5> QED
          BY <1>3, <3>1, <5>1, Sent
      <4> QED
        BY <1>2, <2>1, <4>1, FutureEndsNext
    <3>3. CASE x.pc # "led"
      <4>1. previous_LED = asked /\ Clean(x.buf, asked)
        BY <2>5, <3>1, <3>3 DEF KeptInIoctl
      <4>2. Clean(Puts(x), asked)
        <5>1. CASE x.pc = "idle"
          BY <5>1, EmptyClean DEF Puts
        <5>2. CASE x.pc # "idle"
          <6>1. Clean(x.pkt, asked) /\ x.then = "done" /\ <<>> \in Seq(Byte) /\ x.pkt \in Seq(Byte)
            BY <3>1, <3>3, <5>2, PutsSeq, <1>3 DEF KeptInIoctl, Ctx
          <6>2. PICK p \in Seq(Byte) : p = ThisPut(x) /\ Clean(p, asked)
            BY <6>1, EmptyClean DEF ThisPut
          <6>3. PICK n \in Seq(Byte) : n = NextPut(x) /\ Clean(n, asked)
            BY <6>1, EmptyClean DEF NextPut
          <6>4. Puts(x) = p \o (n \o <<>>)
            BY <3>3, <5>2, <6>1, <6>2, <6>3 DEF Puts, Restoring
          <6>5. n \o <<>> = n
            BY Cat
          <6> QED
            BY <6>2, <6>3, <6>4, <6>5, CleanCat
        <5> QED
          BY <5>1, <5>2
      <4>3. /\ Ends(Puts(ctx'["rx"]), asked) /\ Clean(ctx'["ioctl"].buf, asked)
            /\ Clean(Puts(ctx'["ioctl"]), asked)
        BY <2>1, <2>3, <4>1, <4>2
      <4> QED
        BY <1>2, <4>3, FutureEndsNext
    <3> QED
      BY <3>2, <3>3
  <2> QED
    BY <1>1, <1>2, <2>4, <2>5 DEF FollowInv, Promise, Shows
<1> QED
  BY <1>4, <1>5

-----------------------------------------------------------------------------
(* What is left when the first byte has gone. *)
LEMMA Consumed ==
  ASSUME NEW F \in Seq(Byte), NEW G \in Seq(Byte), NEW v, Len(F) = Len(G) + 1,
         \A i \in 1..Len(G) : G[i] = F[i+1]
  PROVE  /\ Ends(F, v) => \/ Ends(G, v)
                          \/ Silent(G) /\ F[1] = "LED_SET" /\ G # <<>> /\ G[1] = v
         /\ Silent(F) => Silent(G) /\ F[1] # "LED_SET"
         /\ Has(F) => F[1] = "ENABLE" \/ Has(G)
<1>1. Len(F) \in Nat /\ Len(G) \in Nat /\ \A i \in 1..Len(G) : i + 1 \in 1..Len(F)
  OBVIOUS
<1>2. ASSUME NEW j \in 1..Len(G), Sets(F, j + 1, v)
      PROVE  Sets(G, j, v)
  <2> SUFFICES ASSUME G[j] = "LED_SET"
               PROVE  j < Len(G) /\ G[j+1] = v
    BY DEF Sets
  <2>1. j + 1 < Len(F) /\ F[(j+1)+1] = v
    BY <1>2 DEF Sets
  <2>2. j + 1 \in 1..Len(G)
    BY <1>1, <2>1
  <2> QED
    BY <2>1, <2>2
<1>3. ASSUME Ends(F, v)
      PROVE  \/ Ends(G, v)
             \/ Silent(G) /\ F[1] = "LED_SET" /\ G # <<>> /\ G[1] = v
  <2>1. PICK i \in 1..Len(F) : F[i] = "LED_SET" /\ \A j \in i..Len(F) : Sets(F, j, v)
    BY <1>3 DEF Ends
  <2>2. ASSUME NEW k \in 1..Len(G), G[k] = "LED_SET", k + 1 >= i
        PROVE  Ends(G, v)
    <3>1. ASSUME NEW j \in k..Len(G)
          PROVE  Sets(G, j, v)
      <4>1. j \in 1..Len(G) /\ j + 1 \in i..Len(F)
        BY <1>1, <2>2
      <4> QED
        BY <1>2, <2>1, <4>1
    <3> QED
      BY <2>2, <3>1 DEF Ends
  <2>3. CASE i # 1
    <3>1. PICK k \in 1..Len(G) : i = k + 1
      <4>1. i - 1 \in 1..Len(G) /\ i = (i - 1) + 1
        BY <1>1, <2>3
      <4> QED
        BY <4>1
    <3>2. G[k] = "LED_SET"
      BY <2>1, <3>1
    <3> QED
      BY <2>2, <3>1, <3>2
  <2>4. CASE i = 1 /\ Silent(G)
    <3>1. Sets(F, 1, v) /\ F[1] = "LED_SET"
      BY <1>1, <2>1, <2>4
    <3>2. 1 < Len(F) /\ F[1+1] = v
      BY <3>1 DEF Sets
    <3>3. 1 \in 1..Len(G)
      BY <1>1, <3>2
    <3> QED
      BY <2>4, <3>1, <3>2, <3>3
  <2>5. CASE i = 1 /\ ~Silent(G)
    <3>1. PICK k \in 1..Len(G) : G[k] = "LED_SET"
      BY <2>5 DEF Silent
    <3>2. k + 1 >= i
      BY <2>5
    <3> QED
      BY <2>2, <3>1, <3>2
  <2> QED
    BY <2>3, <2>4, <2>5
<1>4. Silent(F) => Silent(G) /\ F[1] # "LED_SET"
  <2>1. 1 \in 1..Len(F)
    BY <1>1
  <2> QED
    BY <1>1, <2>1 DEF Silent
<1>5. Has(F) => F[1] = "ENABLE" \/ Has(G)
  <2> SUFFICES ASSUME NEW i \in 1..Len(F), F[i] = "ENABLE", i # 1
               PROVE  Has(G)
    BY DEF Has
  <2>1. i - 1 \in 1..Len(G) /\ G[i - 1] = F[(i - 1) + 1] /\ (i - 1) + 1 = i
    BY <1>1
  <2> QED
    BY <2>1 DEF Has
<1> QED
  BY <1>3, <1>4, <1>5

LEMMA ConsumedCat ==
  ASSUME NEW l \in Seq(Byte), NEW h \in Seq(Byte), NEW r \in Seq(Byte), Len(l) = Len(h) + 1,
         \A i \in 1..Len(h) : h[i] = l[i+1]
  PROVE  /\ l \o r \in Seq(Byte) /\ h \o r \in Seq(Byte)
         /\ Len(l \o r) = Len(h \o r) + 1 /\ (l \o r)[1] = l[1]
         /\ \A i \in 1..Len(h \o r) : (h \o r)[i] = (l \o r)[i+1]
<1>1. /\ Len(l \o r) = Len(l) + Len(r) /\ Len(h \o r) = Len(h) + Len(r)
      /\ Len(h) \in Nat /\ Len(r) \in Nat /\ l \o r \in Seq(Byte) /\ h \o r \in Seq(Byte)
  OBVIOUS
<1>2. /\ \A i \in 1..Len(l) : (l \o r)[i] = l[i]
      /\ \A i \in 1..Len(r) : (l \o r)[Len(l) + i] = r[i]
  BY CatAt
<1>3. /\ \A i \in 1..Len(h) : (h \o r)[i] = h[i]
      /\ \A i \in 1..Len(r) : (h \o r)[Len(h) + i] = r[i]
  BY CatAt
<1>4. ASSUME NEW i \in 1..Len(h \o r)
      PROVE  (h \o r)[i] = (l \o r)[i+1]
  <2>1. CASE i \in 1..Len(h)
    <3>1. i + 1 \in 1..Len(l)
      BY <1>1, <2>1
    <3> QED
      BY <1>2, <1>3, <2>1, <3>1
  <2>2. CASE i \notin 1..Len(h)
    <3>1. PICK k \in 1..Len(r) : i = Len(h) + k
      <4>1. i - Len(h) \in 1..Len(r) /\ i = Len(h) + (i - Len(h))
        BY <1>1, <2>2
      <4> QED
        BY <4>1
    <3>2. Len(l) + k = i + 1
      BY <1>1, <3>1
    <3> QED
      BY <1>2, <1>3, <3>1, <3>2
  <2> QED
    BY <2>1, <2>2
<1> QED
  BY <1>1, <1>2, <1>4, 1 \in 1..Len(l)

LEMMA AckAppended ==
  ASSUME SendInv, NEW r \in {"ACK", "RESET"}, up' = Append(up, r)
  PROVE  (Due => Due') /\ (r = "RESET" => Due')
<1>1. /\ Len(up') = Len(up) + 1 /\ Len(up) \in Nat /\ up'[Len(up) + 1] = r
      /\ \A i \in 1..Len(up) : up'[i] = up[i] /\ i \in 1..Len(up')
  BY DEF SendInv, Types
<1>2. Len(up) + 1 \in 1..Len(up')
  BY <1>1
<1> QED
  BY <1>1, <1>2 DEF Due

(* The controller takes a byte: what is left does the rest. *)
LEMMA ReceivePromise ==
  ASSUME Enough, SendInv, SendInv', FollowInv, Receive
  PROVE  FollowInv'
<1>1. Kept' /\ Promise
  BY OthersKept DEF FollowInv
<1>2. /\ line # <<>> /\ line' = Tail(line)
      /\ UNCHANGED <<ctx, previous_LED, tx, asked>>
      /\ up' = up \/ up' = Append(up, "ACK")
  BY DEF Receive, Acknowledge
<1>3. line \in Seq(Byte) /\ line[1] = Head(line) /\ line' \in Seq(Byte)
      /\ Len(line) = Len(line') + 1 /\ \A i \in 1..Len(line') : line'[i] = line[i+1]
  BY <1>2 DEF SendInv, Types
<1>4. Due => Due'
  <2>1. CASE up' = up
    BY <2>1 DEF Due
  <2>2. CASE up' = Append(up, "ACK")
    BY <2>2, AckAppended
  <2> QED
    BY <1>2, <2>1, <2>2
<1>5. PICK rest \in Seq(Byte) : Future = line \o rest /\ Future' = line' \o rest
  <2>1. /\ Puts(ctx["ioctl"]) \in Seq(Byte) /\ Puts(ctx["rx"]) \in Seq(Byte) /\ tx \in Seq(Byte)
        /\ ctx["ioctl"].buf \in Seq(Byte) /\ ctx["rx"].buf \in Seq(Byte)
        /\ ctx["tx"].buf \in Seq(Byte)
    BY NothingHeld DEF Ctx
  <2>2. /\ Puts(ctx["ioctl"])' = Puts(ctx["ioctl"]) /\ Puts(ctx["rx"])' = Puts(ctx["rx"])
    BY <1>2, PutsPrimed DEF Ctx
  <2> DEFINE w == ctx["tx"].buf \o (ctx["rx"].buf \o (tx \o
                    (Puts(ctx["rx"]) \o (ctx["ioctl"].buf \o Puts(ctx["ioctl"])))))
  <2>3. w \in Seq(Byte)
    <3>1. PICK p \in Seq(Byte) : p = ctx["ioctl"].buf \o Puts(ctx["ioctl"])
      BY <2>1, ConcatProperties
    <3>2. PICK q \in Seq(Byte) : q = Puts(ctx["rx"]) \o p
      BY <2>1, ConcatProperties
    <3>3. PICK r \in Seq(Byte) : r = tx \o q
      BY <2>1, ConcatProperties
    <3>4. PICK s \in Seq(Byte) : s = ctx["rx"].buf \o r
      BY <2>1, ConcatProperties
    <3>5. ctx["tx"].buf \o s \in Seq(Byte)
      BY <2>1, ConcatProperties
    <3> QED
      BY <3>1, <3>2, <3>3, <3>4, <3>5
  <2>4. Future = line \o w /\ Future' = line' \o w
    BY <1>2, <2>2 DEF Future
  <2> HIDE DEF w
  <2> QED
    BY <2>3, <2>4
<1> DEFINE F == Future
           G == Future'
<1>6. /\ F \in Seq(Byte) /\ G \in Seq(Byte) /\ Len(F) = Len(G) + 1 /\ F[1] = line[1]
      /\ \A i \in 1..Len(G) : G[i] = F[i+1]
  <2>1. PICK h \in Seq(Byte) : h = line'
    BY <1>3
  <2>2. PICK l \in Seq(Byte) : l = line
    BY <1>3
  <2>3. Len(l) = Len(h) + 1 /\ \A i \in 1..Len(h) : h[i] = l[i+1]
    BY <1>3, <2>1, <2>2
  <2>4. /\ l \o rest \in Seq(Byte) /\ h \o rest \in Seq(Byte)
        /\ Len(l \o rest) = Len(h \o rest) + 1 /\ (l \o rest)[1] = l[1]
        /\ \A i \in 1..Len(h \o rest) : (h \o rest)[i] = (l \o rest)[i+1]
    BY <2>3, ConsumedCat
  <2> QED
    BY <1>5, <2>1, <2>2, <2>4
<1> HIDE DEF F, G
<1>7. /\ Ends(F, asked) => \/ Ends(G, asked)
                           \/ Silent(G) /\ F[1] = "LED_SET" /\ G # <<>> /\ G[1] = asked
      /\ Silent(F) => Silent(G) /\ F[1] # "LED_SET"
      /\ Has(F) => F[1] = "ENABLE" \/ Has(G)
  BY <1>6, Consumed
<1>8. ASSUME asked # "none", parse # "dead", parse' # "dead", Shows(F), enabled \/ Has(F)
      PROVE  Shows(Future)' /\ (enabled' \/ Has(G))
  <2>1. \/ Ends(F, asked)
        \/ /\ Silent(F)
           /\ parse = "data" => F # <<>> /\ F[1] = asked
           /\ parse \in Opcode => leds = asked
    BY <1>8 DEF Shows
  <2>2. Shows(Future)' <=> \/ Ends(G, asked)
                      \/ /\ Silent(G)
                         /\ parse' = "data" => G # <<>> /\ G[1] = asked
                         /\ parse' \in Opcode => leds' = asked
    BY <1>2 DEF Shows, Opcode, G
  <2>3. CASE parse = "data"
    <3>1. /\ F[1] \in Lit /\ leds' = F[1] /\ parse' = "command" /\ enabled' = enabled
      BY <1>3, <1>6, <2>3 DEF Receive, SendInv, AllWhole, Opcode
    <3> QED
      BY <1>7, <1>8, <2>1, <2>2, <2>3, <3>1, NoLit DEF Opcode
  <2>4. CASE parse \in Opcode /\ F[1] = "ENABLE"
    <3>1. leds' = leds /\ parse' = "command" /\ enabled' = TRUE
      BY <1>3, <1>6, <2>4, NoLit DEF Receive, Opcode
    <3> QED
      BY <1>7, <1>8, <2>1, <2>2, <2>4, <3>1 DEF Opcode
  <2>5. CASE parse \in Opcode /\ F[1] = "LED_SET"
    <3>1. parse' = "data" /\ enabled' = enabled
      BY <1>3, <1>6, <2>5, NoLit DEF Receive, Opcode
    <3> QED
      BY <1>7, <1>8, <2>1, <2>2, <2>5, <3>1 DEF Opcode
  <2>6. CASE parse \in Opcode /\ F[1] \in Lit
    <3>1. leds' = leds /\ parse' = "command" /\ enabled' = enabled
      BY <1>3, <1>6, <1>8, <2>6, NoLit DEF Receive, Opcode
    <3> QED
      BY <1>7, <1>8, <2>1, <2>2, <2>6, <3>1, NoLit DEF Opcode
  <2> QED
    BY <1>3, <1>6, <1>8, <2>3, <2>4, <2>5, <2>6 DEF Receive
<1>9. parse = "dead" => parse' = "dead"
  BY DEF Receive, Opcode
<1> QED
  BY <1>1, <1>2, <1>4, <1>8, <1>9 DEF FollowInv, Promise, F, G

LEMMA OthersPromise ==
  ASSUME Enough, SendInv, FollowInv, Wakeup \/ Reset \/ Same
  PROVE  FollowInv'
<1>1. Kept'
  BY OthersKept DEF FollowInv
<1>2. CASE Reset
  <2>1. Due'
    BY <1>2, AckAppended DEF Reset
  <2> QED
    BY <1>1, <2>1 DEF FollowInv, Promise
<1>3. CASE Wakeup
  <2>1. /\ UNCHANGED <<line, tx, previous_LED, leds, enabled, parse, up, asked>>
    BY <1>3 DEF Wakeup, device
  <2>2. /\ ctx'["ioctl"] = ctx["ioctl"] /\ ctx'["rx"] = ctx["rx"] /\ ctx'["tx"].buf = <<>>
    BY <1>3 DEF Wakeup, SendInv, Types, Ctx, Idle
  <2>3. ctx["tx"].buf = <<>>
    BY <1>3, NothingHeld DEF Wakeup, MayStart, Ctx
  <2>4. Puts(ctx["ioctl"])' = Puts(ctx["ioctl"]) /\ Puts(ctx["rx"])' = Puts(ctx["rx"])
    BY <2>1, <2>2, PutsPrimed DEF Ctx
  <2>5. Future' = Future
    BY <2>1, <2>2, <2>3, <2>4 DEF Future
  <2> QED
    BY <1>1, <2>1, <2>5 DEF FollowInv, Promise, Shows, Due
<1>4. CASE Same
  <2>1. Future' = Future
    BY <1>4 DEF Same, driver, Future, Puts, ThisPut, NextPut, Restoring
  <2> QED
    BY <1>1, <1>4, <2>1 DEF FollowInv, Promise, Shows, Due, Same, device
<1> QED
  BY <1>2, <1>3, <1>4

LEMMA LineDisciplinePromise ==
  ASSUME Enough, SendInv, FollowInv, NEW c \in Ctx, LineDiscipline(c)
  PROVE  FollowInv'
<1>1. Kept /\ Promise
  BY DEF FollowInv
<1>2. /\ Kept' /\ Future' = Future
      /\ UNCHANGED <<enabled, leds, parse, up, asked>>
  <2>1. CASE StoreLed(c)
    BY <1>1, <2>1, StoreLedKept, StoreLedFlow, StoreLedDoes
  <2>2. CASE Put(c)
    BY <1>1, <2>2, PutKept, PutFlow, PutDoes
  <2>3. CASE WriteRoom(c)
    BY <1>1, <2>3, WriteRoomKept, WriteRoomFlow, WriteRoomDoes
  <2>4. CASE Take(c)
    BY <1>1, <2>4, TakeKept, TakeFlow, TakeDoes
  <2>5. CASE Write(c)
    BY <1>1, <2>5, WriteKept, WriteFlow, WriteDoes
  <2> QED
    BY <2>1, <2>2, <2>3, <2>4, <2>5 DEF LineDiscipline
<1> QED
  BY <1>1, <1>2 DEF FollowInv, Promise, Shows, Due

LEMMA StepFollows ==
  ASSUME Enough, SendInv, FollowInv, [Next]_vars
  PROVE  FollowInv'
<1>0. SendInv'
  BY StepInv
<1>1. CASE Call
  BY <1>0, <1>1, CallPromise
<1>2. CASE HandlePacket
  BY <1>0, <1>2, HandlePacketPromise
<1>3. CASE Wakeup \/ Reset \/ Same
  BY <1>3, OthersPromise
<1>4. ASSUME NEW c \in Ctx, LineDiscipline(c)
      PROVE  FollowInv'
  BY <1>4, LineDisciplinePromise
<1>5. CASE Receive
  BY <1>0, <1>5, ReceivePromise
<1> QED
  BY <1>1, <1>2, <1>3, <1>4, <1>5, CallOrSame

LEMMA InitFollows ==
  ASSUME Init
  PROVE  FollowInv
<1>1. /\ ctx["ioctl"] = Idle /\ ctx["rx"] = Idle /\ tx = <<>> /\ asked = "none"
      /\ previous_LED = "off"
  BY DEF Init, Ctx
<1>2. Idle.pc = "idle" /\ Idle.buf = <<>> /\ Idle.then = "done"
  BY DEF Idle
<1>3. KeptInIoctl(ctx["ioctl"]) /\ KeptInRx(ctx["rx"])
  BY <1>1, <1>2, EmptyClean DEF KeptInIoctl, KeptInRx
<1> QED
  BY <1>1, <1>3, EmptyClean DEF FollowInv, Kept, Promise

(* Nothing under way is nothing still to be done. *)
LEMMA AtRestFollows ==
  ASSUME SendInv, FollowInv
  PROVE  DeviceFollows
<1> SUFFICES ASSUME AtRest, asked # "none", parse # "dead"
             PROVE  leds = asked /\ enabled
  BY DEF DeviceFollows
<1>1. /\ \A c \in Ctx : ctx[c].pc = "idle"
      /\ tx = <<>> /\ line = <<>> /\ up = <<>>
  BY DEF AtRest
<1>2. Future = <<>>
  <2>1. /\ Puts(ctx["ioctl"]) = <<>> /\ Puts(ctx["rx"]) = <<>> /\ ctx["ioctl"].buf = <<>>
        /\ ctx["rx"].buf = <<>> /\ ctx["tx"].buf = <<>>
    BY <1>1, NothingHeld DEF Ctx
  <2>2. Future = <<>> \o (<<>> \o (<<>> \o (<<>> \o (<<>> \o (<<>> \o <<>>)))))
    BY <1>1, <2>1 DEF Future
  <2>3. <<>> \o <<>> = <<>>
    BY Cat, <<>> \in Seq(Byte)
  <2> QED
    BY <2>2, <2>3
<1>3. ~Due /\ parse \in Opcode
  BY <1>1 DEF Due, SendInv, AllWhole, Types, Opcode
<1>4. Shows(<<>>) /\ (enabled \/ Has(<<>>))
  BY <1>2, <1>3 DEF FollowInv, Promise
<1>5. ~Ends(<<>>, asked) /\ ~Has(<<>>)
  BY DEF Ends, Has
<1> QED
  BY <1>3, <1>4, <1>5 DEF Shows

(* When nothing is under way, the LEDs show what the last call that the driver
   took asked for and the buttons are reported, however often the controller was
   reset with at most Quiet bytes on the line and whatever the answer to a RESET
   interrupted, unless the controller has locked up over the rest of a command
   that a RESET cut short (tuxctl_ioctl, set_led_tux, tuxctl_handle_packet,
   init_tux, tuxctl_ldisc_put, tuxctl_ldisc_write_wakeup).                     *)
THEOREM LedsFollow ==
  ASSUME Enough
  PROVE  Spec => []DeviceFollows
<1>1. Init => SendInv /\ FollowInv
  BY InitInv, InitFollows
<1>2. SendInv /\ FollowInv /\ [Next]_vars => (SendInv /\ FollowInv)'
  BY StepInv, StepFollows
<1>3. SendInv /\ FollowInv => DeviceFollows
  BY AtRestFollows
<1> QED
  BY <1>1, <1>2, <1>3, PTL DEF Spec

-----------------------------------------------------------------------------
(* From the controller. *)
(* The line damages no two packets in a row. *)
Spared == Bursts = FALSE

-----------------------------------------------------------------------------
(* A set of natural numbers that is not empty has a least element.          *)
LEMMA Least ==
  ASSUME NEW T, T \subseteq Nat, T # {}
  PROVE  \E n \in T : \A m \in T : n <= m
<1>1. IsWellFoundedOn(OpToRel(<, Nat), Nat)
  BY NatLessThanWellFounded
<1>2. PICK n \in T : \A m \in T : ~ (<<m, n>> \in OpToRel(<, Nat))
  BY <1>1, WFMin
<1>3. ASSUME NEW m \in T, m < n
      PROVE  FALSE
  <2>1. <<m, n>> \in OpToRel(<, Nat)
    BY <1>3 DEF OpToRel
  <2>2. QED
    BY <2>1, <1>2
<1>4. QED
  BY <1>3

(* Induction over the natural numbers, over a set instead of a predicate.  *)
LEMMA Induction ==
  ASSUME NEW T, 0 \in T, \A n \in Nat : n \in T => n + 1 \in T
  PROVE  Nat \subseteq T
<1>1. SUFFICES ASSUME Nat \ T # {}
               PROVE  FALSE
  OBVIOUS
<1>2. PICK n \in Nat \ T : \A m \in Nat \ T : n <= m
  BY <1>1, Least
<1>3. n # 0 /\ n - 1 \in Nat /\ n - 1 \in T
  BY <1>2
<1>4. QED
  BY <1>2, <1>3

-----------------------------------------------------------------------------
(* The first byte of an undamaged packet, and one of the other two.         *)
Head1(b) == b.ok /\ b.first
Mid(b)   == b.ok /\ ~b.first

(* The bytes on their way: an undamaged packet is whole, and a damaged one *)
(* that still has its first byte is followed by the next one at once.      *)
Sound(s) ==
  \A i \in 1..Len(s) :
    /\ Head1(s[i]) => /\ i + 2 <= Len(s)
                      /\ Mid(s[i+1]) /\ s[i+1].of = s[i].of
                      /\ Mid(s[i+2]) /\ s[i+2].of = s[i].of
    /\ Mid(s[i]) => \/ i > 1 /\ Head1(s[i-1])
                    \/ i > 2 /\ Head1(s[i-2])
    /\ ~s[i].ok /\ s[i].first => /\ i + 1 <= Len(s) /\ ~s[i+1].ok
                                 /\ i + 2 <= Len(s) => s[i+2].first

(* g[i] of the packets that are due begin within the first i bytes.        *)
Counts(g, s, q) ==
  /\ g \in [0..Len(s) -> Nat] /\ g[0] = 0 /\ g[Len(s)] = Len(q)
  /\ \A i, j \in 0..Len(s) : i <= j => g[i] <= g[j]
  /\ \A i \in 1..Len(s) : g[i] = g[i-1] + (IF Head1(s[i]) THEN 1 ELSE 0)
  /\ \A i \in 1..Len(s) : s[i].ok => g[i] >= 1 /\ s[i].of = q[g[i]]

(* What is queued in the ring. *)
queued == Contents(rx_buf, rx_start, rx_end)

(* Every callback keeps less than a packet, and while every chunk fits it    *)
(* empties the ring.                                                        *)
RInv == /\ rx_start \in Index /\ rx_end \in Index
        /\ chunks \in {"fits", "long"} /\ (chunks = "fits" => rx_end = rx_start)
        /\ saved \in Seq(RxByte) /\ Len(saved) <= 2 /\ queued \in Seq(RxByte)
        /\ wire \in Seq(RxByte) /\ due \in Seq(Packet)
        /\ Sound(Stream)
        /\ \E g : Counts(g, Stream, due)

(* After a byte has been dropped nothing is claimed. *)
RxInv == chunks \in {"fits", "long", "spilt"} /\ (chunks # "spilt" => RInv)

(* A middle or last byte that is undamaged has its first one before it.     *)
LEMMA MidFollows ==
  ASSUME NEW s, Len(s) \in Nat, Sound(s), NEW i \in 1..Len(s), Mid(s[i])
  PROVE  \E j \in 1..Len(s) : (j = i - 1 \/ j = i - 2) /\ Head1(s[j])
<1>1. \/ i > 1 /\ Head1(s[i-1])
      \/ i > 2 /\ Head1(s[i-2])
  BY DEF Sound
<1>2. QED
  BY <1>1

-----------------------------------------------------------------------------
(* What data_callback cuts: all that begins before the bytes it saves.     *)
CutStep(f, s, n, i) ==
  IF i + 2 > n THEN [packets |-> <<>>, rest |-> SubSeq(s, i, n)]
  ELSE IF Framed(s, i) THEN [f[i+3] EXCEPT !.packets = <<SubSeq(s, i, i+2)>> \o @]
  ELSE f[i+1]

Cuts(f, s, n) == f = [i \in 1..n+1 |-> CutStep(f, s, n, i)]

(* The recursive function that Cut defines exists, whatever the bytes are.  *)
LEMMA CutsExist ==
  ASSUME NEW s, NEW n \in Nat
  PROVE  \E f : Cuts(f, s, n)
<1> DEFINE P(m, f) == f = [i \in n+1-m..n+1 |-> CutStep(f, s, n, i)]
           T == {m \in Nat : m <= n => \E f : P(m, f)}
<1>1. 0 \in T
  <2> DEFINE f == [i \in n+1..n+1 |-> [packets |-> <<>>, rest |-> SubSeq(s, i, n)]]
  <2>1. P(0, f)
    BY DEF CutStep
  <2>2. QED
    BY <2>1
<1>2. ASSUME NEW m \in Nat, m \in T
      PROVE  m + 1 \in T
  <2>1. SUFFICES ASSUME m + 1 <= n
                 PROVE  \E f : P(m + 1, f)
    OBVIOUS
  <2>2. PICK f : P(m, f)
    BY <1>2, <2>1
  <2> DEFINE g == [i \in n-m..n+1 |-> IF i = n - m THEN CutStep(f, s, n, i) ELSE f[i]]
  <2>3. ASSUME NEW i \in n-m..n+1
        PROVE  g[i] = CutStep(g, s, n, i)
    <3>1. \A j \in n+1-m..n+1 : g[j] = f[j]
      OBVIOUS
    <3>2. i + 2 <= n => g[i+1] = f[i+1] /\ g[i+3] = f[i+3]
      <4>1. i + 2 <= n => i + 1 \in n+1-m..n+1 /\ i + 3 \in n+1-m..n+1
        OBVIOUS
      <4>2. QED
        BY <4>1, <3>1
    <3> HIDE DEF g
    <3>20. CutStep(g, s, n, i) = CutStep(f, s, n, i)
      <4>1. CASE i + 2 > n
        BY <4>1 DEF CutStep
      <4>2. CASE ~(i + 2 > n)
        <5>1. g[i+1] = f[i+1] /\ g[i+3] = f[i+3]
          BY <3>2, <4>2
        <5>2. QED
          BY <5>1, Zenon DEF CutStep
      <4>3. QED
        BY <4>1, <4>2
    <3> USE DEF g
    <3>3. CASE i = n - m
      BY <3>20, <3>3
    <3>4. CASE i # n - m
      <4>1. i \in n+1-m..n+1
        BY <3>4
      <4>2. g[i] = CutStep(f, s, n, i)
        BY <3>1, <4>1, <2>2
      <4>3. QED
        BY <4>2, <3>20
    <3>5. QED
      BY <3>3, <3>4
  <2>4. g = [i \in n-m..n+1 |-> g[i]]
    OBVIOUS
  <2> HIDE DEF g
  <2>5. g = [i \in n-m..n+1 |-> CutStep(g, s, n, i)]
    BY <2>3, <2>4
  <2>6. QED
    BY <2>5
<1> HIDE DEF T
<1>3. n \in T
  BY <1>1, <1>2, Induction
<1>4. PICK f : P(n, f)
  BY <1>3 DEF T
<1>5. Cuts(f, s, n)
  <2>1. n + 1 - n = 1
    OBVIOUS
  <2>2. QED
    BY <1>4, <2>1 DEF Cuts
<1>6. QED
  BY <1>5

(* data_callback's loop: Cut is its function at the first byte.             *)
LEMMA CutUnfolds ==
  ASSUME NEW s, NEW n \in Nat, n = Len(s)
  PROVE  \E f : Cuts(f, s, n) /\ Cut(s) = f[1]
<1> DEFINE it == CHOOSE f : Cuts(f, s, n)
<1>1. Cuts(it, s, n)
  BY CutsExist
<1>2. Cut(s) = it[1]
  BY DEF Cut, Cuts, CutStep
<1>3. QED
  BY <1>1, <1>2

(* From a place in front of a packet or of damaged bytes on, exactly the     *)
(* packets are cut that begin before what is left.                         *)
Cutting == [packets : Seq(Seq(RxByte)), rest : Seq(RxByte)]

Takes(x, s, g, q, i, m) ==
  \E r \in i..m+1 :
    /\ r + 1 >= m /\ x.rest = SubSeq(s, r, m)
    /\ r <= Len(s) => ~Mid(s[r])
    /\ x \in Cutting /\ Len(x.packets) = g[r-1] - g[i-1]
    /\ \A k \in 1..Len(x.packets) : \A j \in 1..3 : x.packets[k][j].of = q[g[i-1] + k]

(* From sound bytes, cut anywhere, data_callback takes the packets of which *)
(* it has all three, in order, and leaves at most two bytes that do not begin *)
(* within a packet.                                                         *)
LEMMA CutTakes ==
  ASSUME NEW s \in Seq(RxByte), Sound(s), NEW q \in Seq(Packet), NEW g, Counts(g, s, q),
         NEW m \in Nat, m <= Len(s)
  PROVE  Takes(Cut(SubSeq(s, 1, m)), s, g, q, 1, m)
<1> DEFINE t == SubSeq(s, 1, m)
<1>1. /\ t \in Seq(RxByte) /\ Len(t) = m /\ \A i \in 1..m : t[i] = s[i]
      /\ Len(s) \in Nat /\ \A i \in 1..Len(s) : s[i] \in RxByte
      /\ \A i \in 1..m+1 : SubSeq(t, i, m) = SubSeq(s, i, m)
  <2>1. t \in Seq(RxByte) /\ Len(t) = m /\ \A i \in 1..m : t[i] = s[i]
    OBVIOUS
  <2>2. ASSUME NEW i \in 1..m+1
        PROVE  SubSeq(t, i, m) = SubSeq(s, i, m)
    OBVIOUS
  <2>3. QED
    BY <2>1, <2>2
<1> HIDE DEF t
<1>2. PICK f : Cuts(f, t, m) /\ Cut(t) = f[1]
  BY <1>1, CutUnfolds
<1>3. \A i \in 1..m+1 : f[i] = CutStep(f, t, m, i)
  BY <1>2 DEF Cuts
<1> DEFINE Good(i) == (i <= Len(s) => ~Mid(s[i])) => Takes(f[i], s, g, q, i, m)
           T == {d \in Nat : \A i \in 1..m+1 : i + d >= m + 1 => Good(i)}
<1> HIDE DEF Good, T
<1>4. ASSUME NEW i \in 1..m+1, \A j \in i+1..m+1 : Good(j)
      PROVE  Good(i)
  <2>1. SUFFICES ASSUME i <= Len(s) => ~Mid(s[i])
                 PROVE  Takes(f[i], s, g, q, i, m)
    BY DEF Good
  <2>2. /\ \A j \in 0..Len(s) : g[j] \in Nat
        /\ \A j \in 1..Len(s) : g[j] = g[j-1] + (IF Head1(s[j]) THEN 1 ELSE 0)
    BY DEF Counts
  <2>3. f[i] = CutStep(f, t, m, i)
    BY <1>3
  <2>4. CASE i + 2 > m
    <3>1. f[i] = [packets |-> <<>>, rest |-> SubSeq(s, i, m)]
      BY <2>4, <1>1, <2>3 DEF CutStep
    <3>2. i - 1 \in 0..Len(s)
      BY <1>1
    <3>3. f[i].packets = <<>> /\ f[i].rest = SubSeq(s, i, m) /\ f[i] \in Cutting
      <4>1. SubSeq(s, i, m) \in Seq(RxByte) /\ <<>> \in Seq(Seq(RxByte))
        BY <1>1
      <4> HIDE DEF RxByte
      <4>2. QED
        BY <3>1, <4>1 DEF Cutting
    <3>4. i + 1 >= m
      BY <2>4
    <3>5. g[i-1] - g[i-1] = 0
      BY <2>2, <3>2
    <3>6. QED
      <4>1. i \in i..m+1 /\ (i <= Len(s) => ~Mid(s[i])) /\ 0 = Len(<<>>)
        BY <2>1
      <4>2. \A k \in 1..Len(<<>>) : FALSE
        OBVIOUS
      <4>3. QED
        BY <4>1, <4>2, <3>3, <3>4, <3>5, SMTT(60) DEF Takes
  <2>5. CASE i + 2 <= m /\ Head1(s[i])
    <3>1. Mid(s[i+1]) /\ Mid(s[i+2]) /\ s[i+1].of = s[i].of /\ s[i+2].of = s[i].of
      <4>1. i \in 1..Len(s)
        BY <2>5, <1>1
      <4>2. QED
        BY <4>1, <2>5, SMTT(60) DEF Sound
    <3>2. t[i] = s[i] /\ t[i+1] = s[i+1] /\ t[i+2] = s[i+2]
      BY <2>5, <1>1
    <3>3. Framed(t, i)
      BY <2>5, <3>1, <3>2 DEF Framed, Head1, Mid
    <3>4. f[i] = [f[i+3] EXCEPT !.packets = <<SubSeq(t, i, i+2)>> \o @]
      BY <3>3, <2>3, <2>5 DEF CutStep
    <3>5. i + 3 <= Len(s) => ~Mid(s[i+3])
      <4>1. SUFFICES ASSUME i + 3 <= Len(s), Mid(s[i+3])
                     PROVE  FALSE
        OBVIOUS
      <4>2. PICK j \in 1..Len(s) : (j = i + 3 - 1 \/ j = i + 3 - 2) /\ Head1(s[j])
        <5>1. i + 3 \in 1..Len(s)
          BY <4>1, <1>1
        <5>2. \A k \in 1..Len(s) : Mid(s[k]) =>
                \E j \in 1..Len(s) : (j = k - 1 \/ j = k - 2) /\ Head1(s[j])
          BY MidFollows
        <5>3. QED
          BY <5>1, <5>2, <4>1
      <4>3. j = i + 2 \/ j = i + 1
        BY <4>2
      <4>4. QED
        BY <4>2, <4>3, <3>1 DEF Head1, Mid
    <3>6. i + 3 \in i+1..m+1
      BY <2>5
    <3>7. Takes(f[i+3], s, g, q, i+3, m)
      BY <3>5, <3>6, <1>4 DEF Good
    <3> DEFINE p == <<SubSeq(t, i, i+2)>>
               x == f[i+3]
               i3 == i + 3
    <3>8. Takes(x, s, g, q, i3, m) /\ f[i] = [x EXCEPT !.packets = p \o @]
      BY <3>4, <3>7
    <3>9. /\ p \in Seq(Seq(RxByte)) /\ Len(p) = 1
          /\ \A j \in 1..3 : p[1][j].of = s[i].of
      <4>1. /\ SubSeq(t, i, i+2) \in Seq(RxByte)
            /\ SubSeq(t, i, i+2)[1] = t[i] /\ SubSeq(t, i, i+2)[2] = t[i+1]
            /\ SubSeq(t, i, i+2)[3] = t[i+2]
        BY <1>1, <2>5
      <4>2. \A j \in 1..3 : j = 1 \/ j = 2 \/ j = 3
        OBVIOUS
      <4>3. QED
        BY <4>1, <4>2, <3>1, <3>2
    <3>10. /\ g[i] = g[i-1] + 1 /\ g[i+1] = g[i] /\ g[i+2] = g[i+1] /\ i3 - 1 = i + 2
           /\ g[i-1] \in Nat /\ s[i].of = q[g[i]]
      <4>1. i \in 1..Len(s) /\ i + 1 \in 1..Len(s) /\ i + 2 \in 1..Len(s) /\ i - 1 \in 0..Len(s)
        BY <2>5, <1>1
      <4>2. g[i+1] = g[i+1-1] + 0 /\ g[i+2] = g[i+2-1] + 0
        BY <4>1, <2>2, <3>1 DEF Head1, Mid
      <4>3. i + 1 - 1 = i /\ i + 2 - 1 = i + 1
        OBVIOUS
      <4>4. s[i].of = q[g[i]]
        BY <4>1, <2>5 DEF Counts, Head1
      <4>5. g[i] \in Nat /\ g[i+1] \in Nat /\ g[i-1] \in Nat
        BY <4>1, <2>2
      <4>6. g[i] = g[i-1] + 1
        BY <4>1, <2>2, <2>5
      <4>7. QED
        BY <4>2, <4>3, <4>4, <4>5, <4>6 DEF i3
    <3> HIDE DEF p, x, i3
    <3>11. PICK r \in i3..m+1 :
            /\ r + 1 >= m /\ x.rest = SubSeq(s, r, m)
            /\ r <= Len(s) => ~Mid(s[r])
            /\ x \in Cutting /\ Len(x.packets) = g[r-1] - g[i3-1]
            /\ \A k \in 1..Len(x.packets) : \A j \in 1..3 : x.packets[k][j].of = q[g[i3-1] + k]
      BY <3>8 DEF Takes
    <3>12. f[i].rest = SubSeq(s, r, m) /\ f[i].packets = p \o x.packets
           /\ x.packets \in Seq(Seq(RxByte)) /\ x.rest \in Seq(RxByte)
      BY <3>8, <3>11 DEF Cutting
    <3>13. /\ f[i] \in Cutting /\ f[i].packets \in Seq(Seq(RxByte)) /\ Len(f[i].packets) = 1 + Len(x.packets)
           /\ f[i].packets[1] = p[1]
           /\ \A k \in 1..Len(x.packets) : f[i].packets[k+1] = x.packets[k]
      <4> DEFINE y == p \o x.packets
      <4>1. /\ y \in Seq(Seq(RxByte)) /\ Len(y) = Len(p) + Len(x.packets)
            /\ \A k \in 1..Len(p)+Len(x.packets) :
                 y[k] = IF k <= Len(p) THEN p[k] ELSE x.packets[k - Len(p)]
        BY <3>9, <3>12, ConcatProperties
      <4>2. [x EXCEPT !.packets = y] \in Cutting
        BY <4>1, <3>11 DEF Cutting
      <4> HIDE DEF y
      <4>3. Len(x.packets) \in Nat
        BY <3>12
      <4> DEFINE l == Len(x.packets)
                 xp == x.packets
      <4>10. l \in Nat /\ \A k \in 1..1+l : y[k] = IF k <= 1 THEN p[k] ELSE xp[k - 1]
        BY <4>1, <4>3, <3>9
      <4> HIDE DEF l, xp
      <4>11. \A k \in 1..l : k + 1 \in 1..1+l /\ ~(k + 1 <= 1) /\ k + 1 - 1 = k
        BY <4>10
      <4>12. \A k \in 1..l : y[k+1] = xp[k]
        BY <4>10, <4>11
      <4>5. y[1] = p[1]
        <5>1. 1 \in 1..1+l /\ 1 <= 1
          BY <4>10
        <5>2. QED
          BY <5>1, <4>10
      <4>4. \A k \in 1..Len(x.packets) : y[k+1] = x.packets[k]
        BY <4>12 DEF l, xp
      <4>6. f[i].packets = y /\ f[i] \in Cutting
        BY <3>8, <3>12, <4>2 DEF y
      <4>7. QED
        BY <4>1, <4>3, <4>4, <4>5, <4>6, <3>9
    <3>14. Len(f[i].packets) = g[r-1] - g[i-1]
      <4>1. r - 1 \in 0..Len(s)
        BY <1>1 DEF i3
      <4>2. g[r-1] \in Nat
        BY <4>1, <2>2
      <4>3. g[i3-1] = g[i-1] + 1 /\ g[i-1] \in Nat
        BY <3>10
      <4>4. Len(f[i].packets) = 1 + (g[r-1] - g[i3-1])
        BY <3>11, <3>13
      <4>5. QED
        BY <4>2, <4>3, <4>4
    <3>15. ASSUME NEW k \in 1..Len(f[i].packets), NEW j \in 1..3
           PROVE  f[i].packets[k][j].of = q[g[i-1] + k]
      <4>1. CASE k = 1
        BY <4>1, <3>9, <3>10, <3>13
      <4>2. CASE k # 1
        <5>1. k - 1 \in 1..Len(x.packets) /\ k - 1 + 1 = k
          BY <4>2, <3>12, <3>13
        <5>2. f[i].packets[k] = x.packets[k-1]
          BY <5>1, <3>13
        <5>3. x.packets[k-1][j].of = q[g[i3-1] + (k - 1)]
          BY <5>1, <3>11
        <5>4. g[i3-1] + (k - 1) = g[i-1] + k
          BY <3>10
        <5>5. QED
          BY <5>2, <5>3, <5>4
      <4>3. QED
        BY <4>1, <4>2
    <3>16. r \in i..m+1
      BY DEF i3
    <3>17. QED
      BY <3>11, <3>12, <3>13, <3>14, <3>15, <3>16 DEF Takes
  <2>6. CASE i + 2 <= m /\ ~Head1(s[i])
    <3>1. ~s[i].ok /\ i \in 1..Len(s)
      BY <2>1, <2>6, <1>1 DEF Head1, Mid
    <3>2. ~Framed(t, i)
      <4>1. t[i] = s[i] /\ t[i+1] = s[i+1] /\ t[i+2] = s[i+2]
        BY <2>6, <1>1
      <4>2. s[i].first => s[i+2].first
        BY <3>1, <2>6, <1>1 DEF Sound
      <4>3. QED
        BY <4>1, <4>2 DEF Framed
    <3>3. f[i] = f[i+1]
      BY <3>2, <2>6, <2>3 DEF CutStep
    <3>4. ~Mid(s[i+1])
      <4>1. SUFFICES ASSUME Mid(s[i+1])
                     PROVE  FALSE
        OBVIOUS
      <4>2. i + 1 \in 1..Len(s)
        BY <2>6, <1>1
      <4>3. PICK j \in 1..Len(s) : (j = i + 1 - 1 \/ j = i + 1 - 2) /\ Head1(s[j])
        BY <4>1, <4>2, <1>1, MidFollows
      <4>4. j = i - 1 /\ j + 1 = i
        BY <4>3, <2>6
      <4>5. Mid(s[j+1])
        BY <4>3, <1>1 DEF Sound
      <4>6. QED
        BY <4>4, <4>5, <3>1 DEF Mid
    <3>5. g[i] = g[i-1]
      <4>1. i \in 1..Len(s) /\ i - 1 \in 0..Len(s)
        BY <3>1
      <4>2. g[i] = g[i-1] + 0 /\ g[i-1] \in Nat
        BY <4>1, <2>2, <2>6
      <4>3. QED
        BY <4>2
    <3>6. i + 1 \in i+1..m+1 /\ i + 1 - 1 = i
      BY <2>6
    <3>7. Takes(f[i+1], s, g, q, i+1, m)
      BY <3>4, <3>6, <1>4 DEF Good
    <3>8. PICK r \in i+1..m+1 :
            /\ r + 1 >= m /\ f[i].rest = SubSeq(s, r, m)
            /\ r <= Len(s) => ~Mid(s[r])
            /\ f[i] \in Cutting /\ Len(f[i].packets) = g[r-1] - g[i-1]
            /\ \A k \in 1..Len(f[i].packets) : \A j \in 1..3 : f[i].packets[k][j].of = q[g[i-1] + k]
      <4> DEFINE i1 == i + 1
                 x == f[i]
      <4>1. Takes(x, s, g, q, i1, m) /\ i1 - 1 = i
        BY <3>3, <3>6, <3>7
      <4> HIDE DEF i1, x
      <4>2. \E r \in i1..m+1 :
            /\ r + 1 >= m /\ x.rest = SubSeq(s, r, m)
            /\ r <= Len(s) => ~Mid(s[r])
            /\ x \in Cutting /\ Len(x.packets) = g[r-1] - g[i-1]
            /\ \A k \in 1..Len(x.packets) : \A j \in 1..3 : x.packets[k][j].of = q[g[i-1] + k]
        BY <4>1, <3>5 DEF Takes
      <4>3. QED
        BY <4>2 DEF i1, x
    <3>9. r \in i..m+1
      OBVIOUS
    <3>10. QED
      BY <3>8, <3>9 DEF Takes
  <2>7. QED
    BY <2>4, <2>5, <2>6
<1>5. 0 \in T
  BY <1>4 DEF T
<1>6. ASSUME NEW d \in Nat, d \in T
      PROVE  d + 1 \in T
  <2>1. ASSUME NEW i \in 1..m+1, i + (d + 1) >= m + 1
        PROVE  Good(i)
    <3>1. \A j \in i+1..m+1 : Good(j)
      BY <2>1, <1>6 DEF T
    <3>2. QED
      BY <3>1, <1>4
  <2>2. QED
    BY <2>1 DEF T
<1>7. m \in T
  BY <1>5, <1>6, Induction
<1>8. Good(1)
  BY <1>7 DEF T
<1>9. ~(1 <= Len(s) /\ Mid(s[1]))
  <2>1. SUFFICES ASSUME 1 <= Len(s), Mid(s[1])
                 PROVE  FALSE
    OBVIOUS
  <2>2. \E j \in 1..Len(s) : (j = 1 - 1 \/ j = 1 - 2) /\ Head1(s[j])
    BY <2>1, <1>1, MidFollows
  <2>3. QED
    BY <2>2
<1>10. QED
  BY <1>2, <1>8, <1>9 DEF t, Good

-----------------------------------------------------------------------------
(* What the line and the driver do to the bytes on their way.               *)
(* What is left when bytes are taken up to a packet's beginning is sound.   *)
LEMMA Shifted ==
  ASSUME NEW s \in Seq(RxByte), Sound(s), NEW q \in Seq(Packet), NEW g, Counts(g, s, q),
         NEW r \in 1..Len(s)+1, r <= Len(s) => ~Mid(s[r])
  PROVE  /\ Sound(SubSeq(s, r, Len(s)))
         /\ g[r-1] \in 0..Len(q)
         /\ \E h : Counts(h, SubSeq(s, r, Len(s)), SubSeq(q, g[r-1] + 1, Len(q)))
<1> DEFINE t == SubSeq(s, r, Len(s))
           c == g[r-1]
           p == SubSeq(q, c + 1, Len(q))
           L == Len(s) + 1 - r
<1>1. /\ L \in Nat /\ Len(t) = L
      /\ \A i \in 1..L : i + r - 1 \in 1..Len(s) /\ t[i] = s[i + r - 1]
  OBVIOUS
<1>2. /\ g[0] = 0 /\ g[Len(s)] = Len(q)
      /\ \A i \in 0..Len(s) : g[i] \in Nat
      /\ \A i, j \in 0..Len(s) : i <= j => g[i] <= g[j]
      /\ \A i \in 1..Len(s) : g[i] = g[i-1] + (IF Head1(s[i]) THEN 1 ELSE 0)
      /\ \A i \in 1..Len(s) : s[i].ok => g[i] >= 1 /\ s[i].of = q[g[i]]
  BY DEF Counts
<1>3. c \in 0..Len(q) /\ Len(q) \in Nat
  <2>1. r - 1 \in 0..Len(s) /\ r - 1 <= Len(s) /\ Len(s) \in 0..Len(s)
    OBVIOUS
  <2>2. QED
    BY <1>2, <2>1
<1>4. /\ Len(p) = Len(q) - c
      /\ \A i \in 1..Len(q)-c : p[i] = q[i + c]
  <2> HIDE DEF c
  <2>1. c + 1 \in Int /\ Len(q) \in Int /\ \A i \in c+1..Len(q) : q[i] \in Packet
    BY <1>3
  <2>2. /\ Len(p) = IF c + 1 <= Len(q) THEN Len(q) - (c + 1) + 1 ELSE 0
        /\ \A i \in 1..Len(q)-(c+1)+1 : p[i] = q[c + 1 + i - 1]
    BY <2>1, SubSeqProperties
  <2> HIDE DEF p
  <2>3. \A i \in 1..Len(q)-c : i \in 1..Len(q)-(c+1)+1 /\ c + 1 + i - 1 = i + c
    BY <1>3
  <2>4. QED
    BY <2>2, <2>3, <1>3
<1> HIDE DEF t, c, p, L
<1>5. Sound(t)
  <2>1. ASSUME NEW i \in 1..L, Head1(t[i])
        PROVE  /\ i + 2 <= L
               /\ Mid(t[i+1]) /\ t[i+1].of = t[i].of
               /\ Mid(t[i+2]) /\ t[i+2].of = t[i].of
    <3>1. PICK j \in 1..Len(s) : j = i + r - 1 /\ t[i] = s[j]
      BY <1>1
    <3>2. /\ j + 2 <= Len(s)
          /\ Mid(s[j+1]) /\ s[j+1].of = s[j].of
          /\ Mid(s[j+2]) /\ s[j+2].of = s[j].of
      BY <2>1, <3>1 DEF Sound
    <3>3. i + 2 <= L /\ i + 1 \in 1..L /\ i + 2 \in 1..L
      BY <3>1, <3>2, <1>1 DEF L
    <3>4. i + 1 + r - 1 = j + 1 /\ i + 2 + r - 1 = j + 2
      BY <3>1
    <3>5. t[i+1] = s[j+1] /\ t[i+2] = s[j+2]
      BY <3>3, <3>4, <1>1
    <3>6. QED
      BY <3>1, <3>2, <3>3, <3>5
  <2>2. ASSUME NEW i \in 1..L, Mid(t[i])
        PROVE  \/ i > 1 /\ Head1(t[i-1])
               \/ i > 2 /\ Head1(t[i-2])
    <3>1. PICK j \in 1..Len(s) : j = i + r - 1 /\ t[i] = s[j]
      BY <1>1
    <3>2. PICK k \in 1..Len(s) : (k = j - 1 \/ k = j - 2) /\ Head1(s[k])
      BY <2>2, <3>1, MidFollows
    <3>3. k >= r
      <4>1. SUFFICES ASSUME k < r
                     PROVE  FALSE
        OBVIOUS
      <4>2. r = k + 1 \/ r = k + 2
        BY <4>1, <3>1, <3>2
      <4>3. Mid(s[k+1]) /\ Mid(s[k+2]) /\ k + 2 <= Len(s)
        BY <3>2 DEF Sound
      <4>4. QED
        BY <4>2, <4>3
    <3>4. PICK l \in 1..L : l = k - r + 1 /\ (l = i - 1 \/ l = i - 2)
      BY <3>1, <3>2, <3>3 DEF L
    <3>5. l + r - 1 = k
      BY <3>4
    <3>6. t[l] = s[k]
      BY <3>5, <1>1
    <3>7. QED
      BY <3>2, <3>4, <3>6
  <2>3. ASSUME NEW i \in 1..L, ~t[i].ok, t[i].first
        PROVE  /\ i + 1 <= L /\ ~t[i+1].ok
               /\ i + 2 <= L => t[i+2].first
    <3>1. PICK j \in 1..Len(s) : j = i + r - 1 /\ t[i] = s[j]
      BY <1>1
    <3>2. /\ j + 1 <= Len(s) /\ ~s[j+1].ok
          /\ j + 2 <= Len(s) => s[j+2].first
      BY <2>3, <3>1 DEF Sound
    <3>3. i + 1 \in 1..L /\ (i + 2 <= L => i + 2 \in 1..L /\ j + 2 <= Len(s))
      BY <3>1, <3>2, <1>1 DEF L
    <3>4. i + 1 + r - 1 = j + 1 /\ i + 2 + r - 1 = j + 2
      BY <3>1
    <3>5. t[i+1] = s[j+1]
      <4>1. i + 1 \in 1..L
        BY <3>3
      <4>2. t[i+1] = s[i + 1 + r - 1]
        BY <4>1, <1>1
      <4>3. QED
        BY <4>2, <3>4
    <3>50. i + 2 <= L => t[i+2] = s[j+2]
      BY <3>3, <3>4, <1>1
    <3>6. QED
      BY <3>2, <3>3, <3>5, <3>50
  <2>4. QED
    BY <2>1, <2>2, <2>3, <1>1 DEF Sound
<1>6. \E h : Counts(h, t, p)
  <2> DEFINE h == [i \in 0..L |-> g[i + r - 1] - c]
  <2>1. \A i \in 0..L : /\ i + r - 1 \in 0..Len(s) /\ g[i + r - 1] \in Nat
                       /\ g[i + r - 1] >= c /\ h[i] = g[i + r - 1] - c
    <3>1. \A i \in 0..L : i + r - 1 \in 0..Len(s) /\ r - 1 \in 0..Len(s) /\ r - 1 <= i + r - 1
      BY DEF L
    <3>2. QED
      BY <3>1, <1>2 DEF c
  <2>2. h \in [0..L -> Nat]
    BY <2>1, <1>3
  <2>3. h[0] = 0
    <3>1. 0 + r - 1 = r - 1 /\ 0 \in 0..L
      BY <1>1
    <3>2. h[0] = c - c
      BY <3>1, <2>1 DEF c
    <3>3. QED
      BY <3>2, <1>3
  <2>4. h[L] = Len(p)
    <3>1. L + r - 1 = Len(s) /\ L \in 0..L
      BY <1>1 DEF L
    <3>2. QED
      BY <3>1, <2>1, <1>2, <1>4
  <2> HIDE DEF h
  <2>5. ASSUME NEW i \in 0..L, NEW j \in 0..L, i <= j
        PROVE  h[i] <= h[j]
    <3>1. i + r - 1 <= j + r - 1
      BY <2>5
    <3>2. g[i + r - 1] <= g[j + r - 1]
      BY <3>1, <2>1, <1>2
    <3>3. QED
      BY <3>2, <2>1, <1>3
  <2>6. ASSUME NEW i \in 1..L
        PROVE  /\ h[i] = h[i-1] + (IF Head1(t[i]) THEN 1 ELSE 0)
               /\ t[i].ok => h[i] >= 1 /\ t[i].of = p[h[i]]
    <3>1. PICK j \in 1..Len(s) : j = i + r - 1 /\ t[i] = s[j]
      BY <1>1
    <3>2. i - 1 \in 0..L /\ i \in 0..L /\ i - 1 + r - 1 = j - 1 /\ r - 1 \in 0..Len(s)
          /\ j \in 0..Len(s) /\ Len(s) \in 0..Len(s) /\ j <= Len(s)
      BY <3>1, <1>1
    <3>3. h[i] = g[j] - c /\ h[i-1] = g[j-1] - c /\ g[j] \in Nat /\ g[j-1] \in Nat
      BY <3>1, <3>2, <2>1
    <3>4. /\ g[j] = g[j-1] + (IF Head1(s[j]) THEN 1 ELSE 0)
          /\ s[j].ok => g[j] >= 1 /\ s[j].of = q[g[j]]
      BY <1>2
    <3>5. h[i] = h[i-1] + (IF Head1(t[i]) THEN 1 ELSE 0)
      BY <3>1, <3>3, <3>4, <1>3, SMTT(60)
    <3>6. ASSUME t[i].ok
          PROVE  h[i] >= 1
      <4>1. PICK k \in 1..Len(s) : k >= r /\ k <= j /\ Head1(s[k])
        <5>1. CASE Head1(s[j])
          BY <5>1, <3>1
        <5>2. CASE ~Head1(s[j])
          <6>1. Mid(s[j])
            BY <5>2, <3>6, <3>1 DEF Head1, Mid
          <6>2. PICK k \in 1..Len(s) : (k = j - 1 \/ k = j - 2) /\ Head1(s[k])
            BY <6>1, MidFollows
          <6>3. Mid(s[k+1]) /\ Mid(s[k+2]) /\ k + 2 <= Len(s)
            BY <6>2 DEF Sound
          <6>4. r # k + 1 /\ r # k + 2
            BY <6>3
          <6>5. QED
            BY <6>2, <6>4, <3>1
        <5>3. QED
          BY <5>1, <5>2
      <4>2. k - 1 \in 0..Len(s) /\ r - 1 <= k - 1 /\ k \in 0..Len(s)
        BY <4>1
      <4>3. g[r-1] <= g[k-1] /\ g[k] <= g[j]
        BY <4>1, <4>2, <3>2, <1>2
      <4>4. g[k] = g[k-1] + 1 /\ g[k-1] \in Nat /\ g[k] \in Nat
        BY <4>1, <4>2, <1>2
      <4>5. g[j] >= c + 1
        <5>1. g[r-1] = c /\ c \in Nat
          BY <1>3 DEF c
        <5>2. QED
          <6>1. g[k] = c + 1 \/ g[k] >= c + 1
            BY <5>1, <4>3, <4>4
          <6>2. g[j] \in Nat
            BY <3>3
          <6>3. g[k] <= g[j]
            BY <4>3
          <6>4. QED
            BY <6>1, <6>2, <6>3, <4>4, <5>1
      <4>6. QED
        BY <4>5, <3>3, <1>3
    <3>7. ASSUME t[i].ok
          PROVE  t[i].of = p[h[i]]
      <4> DEFINE n == h[i]
      <4>0. n \in 1..Len(q)-c /\ n + c = g[j]
        <5>1. n >= 1
          BY <3>6, <3>7
        <5>2. g[j] <= Len(q)
          BY <3>2, <1>2
        <5>3. n = g[j] - c
          BY <3>3
        <5> HIDE DEF n
        <5>4. QED
          <6>1. g[j] \in Nat /\ c \in Nat /\ Len(q) \in Nat
            BY <3>3, <1>3
          <6>2. QED
            BY <6>1, <5>1, <5>2, <5>3, SMTT(60)
      <4> HIDE DEF n
      <4>1. p[n] = q[n + c]
        BY <4>0, <1>4
      <4>2. QED
        BY <4>0, <4>1, <3>1, <3>4, <3>7 DEF n
    <3>8. QED
      BY <3>5, <3>6, <3>7
  <2>7. Counts(h, t, p)
    BY <1>1, <2>2, <2>3, <2>4, <2>5, <2>6 DEF Counts
  <2>8. QED
    BY <2>7
<1>7. QED
  BY <1>3, <1>5, <1>6 DEF t, p, c

(* The controller sends one more packet.                                    *)
LEMMA Appended ==
  ASSUME NEW s \in Seq(RxByte), Sound(s), NEW q \in Seq(Packet), NEW g, Counts(g, s, q),
         NEW p \in Packet
  PROVE  /\ Bytes(p) \in Seq(RxByte)
         /\ Sound(s \o Bytes(p))
         /\ \E h : Counts(h, s \o Bytes(p), Append(q, p))
<1> DEFINE b == Bytes(p)
           t == s \o b
           L == Len(s)
           u == Append(q, p)
<1>1. /\ b \in Seq(RxByte) /\ Len(b) = 3
      /\ b[1] = [first |-> TRUE, of |-> p, ok |-> TRUE]
      /\ b[2] = [first |-> FALSE, of |-> p, ok |-> TRUE]
      /\ b[3] = [first |-> FALSE, of |-> p, ok |-> TRUE]
  <2>1. \A i \in 1..3 : /\ b[i] = [first |-> i = 1, of |-> p, ok |-> TRUE]
                        /\ b[i] \in RxByte
    BY DEF Bytes, RxByte
  <2>2. b = [i \in 1..3 |-> b[i]]
    BY DEF Bytes
  <2>3. b[1] = [first |-> 1 = 1, of |-> p, ok |-> TRUE]
    BY <2>1
  <2>4. b[2] = [first |-> 2 = 1, of |-> p, ok |-> TRUE]
    BY <2>1
  <2>5. b[3] = [first |-> 3 = 1, of |-> p, ok |-> TRUE]
    BY <2>1
  <2>6. (1 = 1) = TRUE /\ (2 = 1) = FALSE /\ (3 = 1) = FALSE
    OBVIOUS
  <2> HIDE DEF b, t, u
  <2>7. b \in Seq(RxByte) /\ Len(b) = 3
    BY <2>1, <2>2
  <2>8. QED
    BY <2>3, <2>4, <2>5, <2>6, <2>7
<1>2. /\ Head1(b[1]) /\ Mid(b[2]) /\ Mid(b[3]) /\ ~Head1(b[2]) /\ ~Head1(b[3])
      /\ b[1].of = p /\ b[2].of = p /\ b[3].of = p
      /\ b[1].ok /\ b[2].ok /\ b[3].ok /\ b[1].first
  BY <1>1 DEF Head1, Mid
<1> HIDE DEF b
<1>3. /\ L \in Nat /\ Len(t) = L + 3
      /\ \A i \in 1..L : t[i] = s[i]
      /\ t[L+1] = b[1] /\ t[L+2] = b[2] /\ t[L+3] = b[3]
  <2>0. /\ Len(t) = Len(s) + Len(b) /\ Len(s) \in Nat
        /\ \A i \in 1..Len(s)+Len(b) : t[i] = IF i <= Len(s) THEN s[i] ELSE b[i - Len(s)]
    <3>1. s \in Seq(RxByte) /\ b \in Seq(RxByte)
      BY <1>1
    <3> HIDE DEF L, u, RxByte
    <3>2. QED
      BY <3>1, ConcatProperties, LenProperties
  <2>1. /\ L \in Nat /\ Len(t) = L + 3
        /\ \A i \in 1..L+3 : t[i] = IF i <= L THEN s[i] ELSE b[i - L]
    BY <2>0, <1>1
  <2>2. /\ L + 1 - L = 1 /\ L + 2 - L = 2 /\ L + 3 - L = 3
        /\ ~(L + 1 <= L) /\ ~(L + 2 <= L) /\ ~(L + 3 <= L)
        /\ L + 1 \in 1..L+3 /\ L + 2 \in 1..L+3 /\ L + 3 \in 1..L+3
    BY <2>1
  <2>3. \A i \in 1..L : i \in 1..L+3 /\ i <= L
    BY <2>1
  <2> HIDE DEF t, L
  <2>4. t[L+1] = b[1] /\ t[L+2] = b[2] /\ t[L+3] = b[3]
    BY <2>1, <2>2
  <2>5. QED
    BY <2>1, <2>3, <2>4
<1>4. /\ g[0] = 0 /\ g[L] = Len(q) /\ \A i \in 0..L : g[i] \in Nat
      /\ \A i, j \in 0..L : i <= j => g[i] <= g[j]
  BY DEF Counts
<1>40. \A i \in 1..L : g[i] = g[i-1] + (IF Head1(s[i]) THEN 1 ELSE 0)
  BY DEF Counts
<1>41. \A i \in 1..L : s[i].ok => g[i] >= 1 /\ s[i].of = q[g[i]]
  BY DEF Counts
<1>5. /\ Len(q) \in Nat /\ Len(u) = Len(q) + 1 /\ u[Len(q) + 1] = p
      /\ \A i \in 1..Len(q) : u[i] = q[i]
  OBVIOUS
<1>6. Sound(t)
  <2>1. ASSUME NEW i \in 1..L+3
        PROVE  /\ Head1(t[i]) => /\ i + 2 <= L + 3
                                 /\ Mid(t[i+1]) /\ t[i+1].of = t[i].of
                                 /\ Mid(t[i+2]) /\ t[i+2].of = t[i].of
               /\ Mid(t[i]) => \/ i > 1 /\ Head1(t[i-1])
                               \/ i > 2 /\ Head1(t[i-2])
               /\ ~t[i].ok /\ t[i].first => /\ i + 1 <= L + 3 /\ ~t[i+1].ok
                                            /\ i + 2 <= L + 3 => t[i+2].first
    <3>1. CASE i \in 1..L
      <4>1. /\ Head1(s[i]) => /\ i + 2 <= L
                              /\ Mid(s[i+1]) /\ s[i+1].of = s[i].of
                              /\ Mid(s[i+2]) /\ s[i+2].of = s[i].of
            /\ Mid(s[i]) => \/ i > 1 /\ Head1(s[i-1])
                            \/ i > 2 /\ Head1(s[i-2])
            /\ ~s[i].ok /\ s[i].first => /\ i + 1 <= L /\ ~s[i+1].ok
                                         /\ i + 2 <= L => s[i+2].first
        BY <3>1 DEF Sound
      <4>2. /\ t[i] = s[i]
            /\ i > 1 => t[i-1] = s[i-1]
            /\ i > 2 => t[i-2] = s[i-2]
            /\ i + 1 <= L => t[i+1] = s[i+1]
            /\ i + 2 <= L => t[i+2] = s[i+2]
        <5>1. /\ i > 1 => i - 1 \in 1..L
              /\ i > 2 => i - 2 \in 1..L
              /\ i + 1 <= L => i + 1 \in 1..L
              /\ i + 2 <= L => i + 2 \in 1..L
          BY <3>1
        <5>2. QED
          BY <3>1, <5>1, <1>3
      <4>3. i + 1 <= L /\ ~(i + 2 <= L) => i + 2 = L + 1
        BY <3>1, <1>3
      <4>4. i + 1 <= L /\ ~(i + 2 <= L) => t[i+2].first
        BY <4>3, <1>2, <1>3
      <4>5. i + 2 <= L => i + 1 <= L /\ i + 2 <= L + 3
        BY <3>1, <1>3
      <4>6. i + 1 <= L => i + 1 <= L + 3
        BY <3>1, <1>3
      <4>7. QED
        BY <4>1, <4>2, <4>4, <4>5, <4>6
    <3>2. CASE i = L + 1
      <4>1. i + 1 = L + 2 /\ i + 2 = L + 3
        BY <3>2, <1>3
      <4>2. ~Mid(t[i])
        BY <3>2, <1>2, <1>3 DEF Head1, Mid
      <4>3. QED
        BY <3>2, <4>1, <4>2, <1>2, <1>3
    <3>3. CASE i = L + 2
      <4>1. i - 1 = L + 1 /\ i > 1
        BY <3>3, <1>3
      <4>2. Head1(t[i-1]) /\ ~Head1(t[i]) /\ t[i].ok
        BY <3>3, <4>1, <1>2, <1>3
      <4>3. QED
        BY <4>1, <4>2
    <3>4. CASE i = L + 3
      <4>1. i - 2 = L + 1 /\ i > 2
        BY <3>4, <1>3
      <4>2. Head1(t[i-2]) /\ ~Head1(t[i]) /\ t[i].ok
        BY <3>4, <4>1, <1>2, <1>3
      <4>3. QED
        BY <4>1, <4>2
    <3>5. i \in 1..L \/ i = L + 1 \/ i = L + 2 \/ i = L + 3
      BY <1>3
    <3>6. QED
      BY <3>1, <3>2, <3>3, <3>4, <3>5
  <2> HIDE DEF t, L
  <2>2. QED
    BY <2>1, <1>3 DEF Sound
<1>7. \E h : Counts(h, t, u)
  <2> DEFINE n == Len(q)
             h == [i \in 0..L+3 |-> IF i <= L THEN g[i] ELSE n + 1]
  <2> HIDE DEF t, L, u, n
  <2>1. /\ n \in Nat /\ g[L] = n /\ \A i \in 0..L : g[i] <= n
    <3>1. L \in 0..L /\ \A i \in 0..L : i <= L
      BY <1>3
    <3>2. QED
      BY <3>1, <1>4, <1>5 DEF n
  <2>2. h \in [0..L+3 -> Nat] /\ h[0] = 0
    BY <1>3, <1>4, <2>1
  <2>3. /\ \A i \in 0..L : h[i] = g[i]
        /\ h[L+1] = n + 1 /\ h[L+2] = n + 1 /\ h[L+3] = n + 1
    BY <1>3
  <2>4. \A i \in 0..L+3 : h[i] = IF i <= L THEN g[i] ELSE n + 1
    OBVIOUS
  <2> HIDE DEF h
  <2>5. ASSUME NEW i \in 0..L+3, NEW j \in 0..L+3, i <= j
        PROVE  h[i] <= h[j]
    <3>1. CASE j <= L
      <4>1. i \in 0..L /\ j \in 0..L
        BY <3>1, <2>5, <1>3
      <4>2. QED
        BY <4>1, <2>3, <2>5, <1>4
    <3>2. CASE ~(j <= L)
      <4>1. h[j] = n + 1
        BY <3>2, <2>4
      <4>2. h[i] <= n + 1
        <5>1. CASE i <= L
          <6>1. i \in 0..L
            BY <5>1, <1>3
          <6>2. h[i] = g[i] /\ g[i] <= n /\ g[i] \in Nat
            BY <6>1, <2>1, <2>3, <1>4
          <6>3. QED
            BY <6>2, <2>1
        <5>2. CASE ~(i <= L)
          BY <5>2, <2>4, <2>1
        <5>3. QED
          BY <5>1, <5>2
      <4>3. QED
        BY <4>1, <4>2
    <3>3. QED
      BY <3>1, <3>2
  <2>6. ASSUME NEW i \in 1..L+3
        PROVE  /\ h[i] = h[i-1] + (IF Head1(t[i]) THEN 1 ELSE 0)
               /\ t[i].ok => h[i] >= 1 /\ t[i].of = u[h[i]]
    <3>1. CASE i \in 1..L
      <4>1. i \in 0..L /\ i - 1 \in 0..L /\ t[i] = s[i]
        BY <3>1, <1>3
      <4>2. h[i] = g[i] /\ h[i-1] = g[i-1] /\ g[i] <= n /\ g[i] \in Nat
        BY <4>1, <2>1, <2>3, <1>4
      <4>3. s[i].ok => g[i] >= 1 /\ s[i].of = q[g[i]]
        BY <3>1, <1>41
      <4>4. s[i].ok => u[g[i]] = q[g[i]]
        BY <4>2, <4>3, <2>1, <1>5 DEF n
      <4>5. QED
        BY <4>1, <4>2, <4>3, <4>4, <3>1, <1>40
    <3>2. CASE i = L + 1
      <4>1. i - 1 = L /\ L \in 0..L
        BY <3>2, <1>3
      <4>2. h[i] = n + 1 /\ h[i-1] = n
        BY <3>2, <4>1, <2>1, <2>3
      <4>3. u[n + 1] = p /\ t[i].of = p /\ Head1(t[i])
        BY <3>2, <1>2, <1>3, <1>5 DEF n
      <4>4. QED
        BY <4>2, <4>3, <2>1
    <3>3. CASE i = L + 2 \/ i = L + 3
      <4>1. i - 1 = L + 1 \/ i - 1 = L + 2
        BY <3>3, <1>3
      <4>2. h[i] = n + 1 /\ h[i-1] = n + 1
        BY <3>3, <4>1, <2>3
      <4>3. u[n + 1] = p /\ t[i].of = p /\ ~Head1(t[i])
        BY <3>3, <1>2, <1>3, <1>5 DEF n
      <4>4. QED
        BY <4>2, <4>3, <2>1
    <3>4. QED
      BY <3>1, <3>2, <3>3, <1>3
  <2>7. h[L+3] = Len(u)
    BY <2>3, <1>5 DEF n
  <2>8. Counts(h, t, u)
    BY <1>3, <2>2, <2>5, <2>6, <2>7 DEF Counts
  <2>9. QED
    BY <2>8
<1>8. QED
  BY <1>1, <1>6, <1>7 DEF t, b, u

(* The last packet of s may lose a byte, and b can be what is left of it.    *)
MayLose(s, L) == L >= 3 /\ s[L].ok /\ s[L-2].first /\ (L > 3 => s[L-3].ok)
Remains(b)    == Len(b) = 2 /\ ~b[1].ok /\ ~b[2].ok /\ ~b[2].first

(* A byte may be lost only of a packet that is still whole on the line.     *)
LEMMA LastWhole ==
  ASSUME NEW s \in Seq(RxByte), Sound(s), NEW L, L = Len(s), MayLose(s, L)
  PROVE  Head1(s[L-2]) /\ Mid(s[L-1]) /\ Mid(s[L])
<1>1. L \in Nat /\ L >= 3
  BY DEF MayLose
<1>2. \A i \in 1..L : Head1(s[i]) => i + 2 <= L /\ Mid(s[i+1]) /\ Mid(s[i+2])
  BY <1>1 DEF Sound
<1>3. Mid(s[L]) /\ L \in 1..L
  <2>1. L \in 1..L /\ ~(L + 2 <= L)
    BY <1>1
  <2>2. ~Head1(s[L])
    BY <2>1, <1>2
  <2>3. QED
    BY <2>1, <2>2 DEF Head1, Mid, MayLose
<1>4. PICK j \in 1..L : (j = L - 1 \/ j = L - 2) /\ Head1(s[j])
  BY <1>3, <1>1, MidFollows
<1>5. j + 2 <= L
  BY <1>4, <1>2
<1>6. j = L - 2 /\ j + 1 = L - 1 /\ j + 2 = L
  BY <1>4, <1>5, <1>1
<1>7. QED
  BY <1>4, <1>6, <1>2

(* The last packet loses a byte: what remains of it is no packet's part.    *)
LEMMA Damaged ==
  ASSUME NEW s \in Seq(RxByte), Sound(s), NEW q \in Seq(Packet), NEW g, Counts(g, s, q),
         NEW L, L = Len(s), MayLose(s, L), NEW b \in Seq(RxByte), Remains(b)
  PROVE  /\ q # <<>>
         /\ Sound(SubSeq(s, 1, L - 3) \o b)
         /\ \E h : Counts(h, SubSeq(s, 1, L - 3) \o b, Front(q))
<1> DEFINE t == SubSeq(s, 1, L - 3) \o b
           n == Len(q)
           u == Front(q)
<1>0. L \in Nat /\ L >= 3 /\ Len(b) = 2
  BY DEF MayLose, Remains
<1>1. /\ L \in Nat /\ L >= 3 /\ Len(t) = L - 1
      /\ \A i \in 1..L-3 : t[i] = s[i]
      /\ t[L-2] = b[1] /\ t[L-1] = b[2]
  <2> DEFINE f == SubSeq(s, 1, L - 3)
  <2>1. f \in Seq(RxByte) /\ Len(f) = L - 3 /\ \A i \in 1..L-3 : f[i] = s[i]
    BY <1>0
  <2> HIDE DEF f, u, n, RxByte
  <2>2. /\ Len(f \o b) = Len(f) + Len(b)
        /\ \A i \in 1..Len(f)+Len(b) : (f \o b)[i] = IF i <= Len(f) THEN f[i] ELSE b[i - Len(f)]
    <3> HIDE DEF t
    <3>1. f \in Seq(RxByte) /\ b \in Seq(RxByte)
      BY <2>1
    <3>2. QED
      BY <3>1, ConcatProperties
  <2>3. L \in Nat /\ L >= 3 /\ L - 3 + 2 = L - 1 /\ Len(b) = 2
    BY <1>0
  <2>4. /\ Len(f \o b) = L - 1
        /\ \A i \in 1..L-1 : (f \o b)[i] = IF i <= L - 3 THEN f[i] ELSE b[i - (L - 3)]
    BY <2>1, <2>2, <2>3
  <2>5. /\ L - 2 \in 1..L-1 /\ ~(L - 2 <= L - 3) /\ L - 2 - (L - 3) = 1
        /\ L - 1 \in 1..L-1 /\ ~(L - 1 <= L - 3) /\ L - 1 - (L - 3) = 2
        /\ \A i \in 1..L-3 : i \in 1..L-1 /\ i <= L - 3
    BY <2>3
  <2>6. (f \o b)[L-2] = b[1] /\ (f \o b)[L-1] = b[2]
    BY <2>4, <2>5
  <2>7. \A i \in 1..L-3 : (f \o b)[i] = s[i]
    BY <2>1, <2>4, <2>5
  <2>8. QED
    BY <2>3, <2>4, <2>6, <2>7 DEF f
<1>2. /\ g[0] = 0 /\ g[L] = n /\ \A i \in 0..L : g[i] \in Nat
      /\ \A i, j \in 0..L : i <= j => g[i] <= g[j]
  BY DEF Counts
<1>3. \A i \in 1..L : g[i] = g[i-1] + (IF Head1(s[i]) THEN 1 ELSE 0)
  BY DEF Counts
<1>4. \A i \in 1..L : s[i].ok => g[i] >= 1 /\ s[i].of = q[g[i]]
  BY DEF Counts
<1>6. Head1(s[L-2]) /\ Mid(s[L-1]) /\ Mid(s[L])
  BY LastWhole
<1>7. g[L-3] = n - 1 /\ n >= 1
  <2>1. /\ L - 2 \in 1..L /\ L - 1 \in 1..L /\ L \in 1..L /\ L - 3 \in 0..L /\ L - 2 \in 0..L /\ L - 1 \in 0..L
        /\ L - 2 - 1 = L - 3 /\ L - 1 - 1 = L - 2
    BY <1>1
  <2>2. g[L-2] = g[L-3] + 1
    BY <2>1, <1>3, <1>6
  <2>3. g[L-1] = g[L-2] + 0
    BY <2>1, <1>3, <1>6 DEF Head1, Mid
  <2>4. g[L] = g[L-1] + 0
    BY <2>1, <1>3, <1>6 DEF Head1, Mid
  <2>5. g[L-2] \in Nat /\ g[L-3] \in Nat /\ g[L-1] \in Nat
    BY <2>1, <1>2
  <2> HIDE DEF t, u, n
  <2>6. g[L] = n /\ n = g[L-3] + 1
    BY <2>2, <2>3, <2>4, <2>5, <1>2
  <2> DEFINE a == g[L-3]
  <2>7. a \in Nat /\ n = a + 1
    BY <2>5, <2>6
  <2> HIDE DEF a
  <2>8. a = n - 1 /\ n >= 1
    BY <2>7
  <2>9. QED
    BY <2>8 DEF a
<1>8. q # <<>> /\ Len(u) = n - 1 /\ \A i \in 1..n-1 : u[i] = q[i]
  <2>1. n \in Nat /\ \A i \in 1..n-1 : q[i] \in Packet
    OBVIOUS
  <2>2. 1 \in Int /\ n - 1 \in Int /\ n - 1 - 1 + 1 = n - 1
    BY <2>1
  <2>3. /\ Len(SubSeq(q, 1, n - 1)) = IF 1 <= n - 1 THEN n - 1 - 1 + 1 ELSE 0
        /\ \A i \in 1..n-1-1+1 : SubSeq(q, 1, n - 1)[i] = q[1 + i - 1]
    BY <2>1, <2>2, SubSeqProperties
  <2>4. u = SubSeq(q, 1, n - 1)
    BY DEF Front
  <2>5. \A i \in 1..n-1 : 1 + i - 1 = i
    BY <2>1
  <2>6. q # <<>>
    BY <1>7
  <2> HIDE DEF u, n
  <2>7. \A i \in 1..n-1 : u[i] = q[i]
    BY <2>2, <2>3, <2>4, <2>5
  <2>8. Len(u) = n - 1
    BY <2>1, <2>3, <2>4, <1>7
  <2>9. QED
    BY <2>6, <2>7, <2>8
<1> HIDE DEF t, u, n
<1>9. Sound(t)
  <2>1. ASSUME NEW i \in 1..L-1
        PROVE  /\ Head1(t[i]) => /\ i + 2 <= L - 1
                                 /\ Mid(t[i+1]) /\ t[i+1].of = t[i].of
                                 /\ Mid(t[i+2]) /\ t[i+2].of = t[i].of
               /\ Mid(t[i]) => \/ i > 1 /\ Head1(t[i-1])
                               \/ i > 2 /\ Head1(t[i-2])
               /\ ~t[i].ok /\ t[i].first => /\ i + 1 <= L - 1 /\ ~t[i+1].ok
                                            /\ i + 2 <= L - 1 => t[i+2].first
    <3>1. CASE i \in 1..L-3
      <4>1. i \in 1..L
        BY <3>1, <1>1
      <4>2. /\ Head1(s[i]) => /\ i + 2 <= L
                              /\ Mid(s[i+1]) /\ s[i+1].of = s[i].of
                              /\ Mid(s[i+2]) /\ s[i+2].of = s[i].of
            /\ Mid(s[i]) => \/ i > 1 /\ Head1(s[i-1])
                            \/ i > 2 /\ Head1(s[i-2])
            /\ ~s[i].ok /\ s[i].first => /\ i + 1 <= L /\ ~s[i+1].ok
                                         /\ i + 2 <= L => s[i+2].first
        BY <4>1 DEF Sound
      <4>3. /\ t[i] = s[i]
            /\ i > 1 => t[i-1] = s[i-1]
            /\ i > 2 => t[i-2] = s[i-2]
            /\ i + 1 <= L - 3 => t[i+1] = s[i+1]
            /\ i + 2 <= L - 3 => t[i+2] = s[i+2]
        <5>1. /\ i > 1 => i - 1 \in 1..L-3
              /\ i > 2 => i - 2 \in 1..L-3
              /\ i + 1 <= L - 3 => i + 1 \in 1..L-3
              /\ i + 2 <= L - 3 => i + 2 \in 1..L-3
          BY <3>1
        <5>2. QED
          BY <3>1, <5>1, <1>1
      <4>4. Head1(s[i]) => i + 2 <= L - 3
        <5>1. SUFFICES ASSUME Head1(s[i]), ~(i + 2 <= L - 3)
                       PROVE  FALSE
          OBVIOUS
        <5>2. i + 1 = L - 2 \/ i + 2 = L - 2
          BY <5>1, <3>1, <1>1
        <5>3. Mid(s[i+1]) /\ Mid(s[i+2])
          BY <5>1, <4>2
        <5>4. Mid(s[L-2])
          BY <5>2, <5>3
        <5>5. QED
          BY <5>4, <1>6 DEF Head1, Mid
      <4>5. ~s[i].ok /\ s[i].first => i + 1 <= L - 3
        <5>1. SUFFICES ASSUME ~s[i].ok, s[i].first, ~(i + 1 <= L - 3)
                       PROVE  FALSE
          OBVIOUS
        <5>2. i = L - 3 /\ L > 3
          BY <5>1, <3>1, <1>1
        <5>3. QED
          BY <5>1, <5>2 DEF MayLose
      <4>6. ASSUME ~s[i].ok, s[i].first
            PROVE  i + 2 <= L - 3
        <5>1. SUFFICES ASSUME ~(i + 2 <= L - 3)
                       PROVE  FALSE
          OBVIOUS
        <5>2. i + 1 = L - 3 /\ L > 3
          BY <5>1, <4>5, <4>6, <3>1, <1>1
        <5>3. ~s[i+1].ok
          BY <4>2, <4>6
        <5>4. QED
          BY <5>2, <5>3 DEF MayLose
      <4>7. i + 2 <= L - 3 => i + 1 <= L - 3 /\ i + 2 <= L - 1 /\ i + 1 <= L - 1 /\ i + 2 <= L
        BY <3>1, <1>1
      <4>8. QED
        BY <4>2, <4>3, <4>4, <4>6, <4>7
    <3>2. CASE i = L - 2
      <4>1. i + 1 = L - 1 /\ ~(i + 2 <= L - 1) /\ i + 1 <= L - 1
        BY <3>2, <1>1
      <4>2. ~t[i].ok /\ ~t[i+1].ok
        BY <3>2, <4>1, <1>1 DEF Remains
      <4>3. QED
        BY <4>1, <4>2 DEF Head1, Mid
    <3>3. CASE i = L - 1
      <4>1. ~t[i].ok /\ ~t[i].first
        BY <3>3, <1>1 DEF Remains
      <4>2. QED
        BY <4>1 DEF Head1, Mid
    <3>4. i \in 1..L-3 \/ i = L - 2 \/ i = L - 1
      BY <1>1
    <3>5. QED
      BY <3>1, <3>2, <3>3, <3>4
  <2>2. QED
    BY <2>1, <1>1 DEF Sound
<1>10. \E h : Counts(h, t, u)
  <2> DEFINE h == [i \in 0..L-1 |-> IF i <= L - 3 THEN g[i] ELSE n - 1]
  <2>1. /\ n - 1 \in Nat /\ n \in Nat
        /\ \A i \in 0..L-3 : g[i] \in Nat /\ g[i] <= n - 1 /\ h[i] = g[i]
    <3>1. /\ L - 3 \in 0..L /\ L \in 0..L
          /\ \A i \in 0..L-3 : i \in 0..L /\ i <= L - 3 /\ i \in 0..L-1
      BY <1>1
    <3>2. n - 1 \in Nat /\ n \in Nat
      BY <3>1, <1>2, <1>7
    <3>3. \A i \in 0..L-3 : g[i] \in Nat /\ g[i] <= n - 1
      BY <3>1, <1>2, <1>7
    <3>4. QED
      BY <3>1, <3>2, <3>3
  <2>2. h[L-2] = n - 1 /\ h[L-1] = n - 1
    <3>1. L - 2 \in 0..L-1 /\ ~(L - 2 <= L - 3) /\ L - 1 \in 0..L-1 /\ ~(L - 1 <= L - 3)
      BY <1>1
    <3>2. QED
      BY <3>1
  <2>3. \A i \in 0..L-1 : i \in 0..L-3 \/ i = L - 2 \/ i = L - 1
    BY <1>1
  <2>4. h = [i \in 0..L-1 |-> h[i]] /\ h[0] = 0
    <3>1. 0 \in 0..L-1 /\ 0 <= L - 3
      BY <1>1
    <3>2. QED
      BY <3>1, <1>2
  <2> HIDE DEF h
  <2>5. \A i \in 0..L-1 : h[i] \in Nat /\ h[i] <= n - 1
    <3>1. ASSUME NEW i \in 0..L-1
          PROVE  h[i] \in Nat /\ h[i] <= n - 1
      <4>1. CASE i \in 0..L-3
        BY <4>1, <2>1
      <4>2. CASE i = L - 2 \/ i = L - 1
        BY <4>2, <2>1, <2>2
      <4>3. QED
        BY <4>1, <4>2, <2>3
    <3>2. QED
      BY <3>1
  <2>6. h \in [0..L-1 -> Nat]
    BY <2>4, <2>5
  <2>7. ASSUME NEW i \in 0..L-1, NEW j \in 0..L-1, i <= j
        PROVE  h[i] <= h[j]
    <3>1. CASE j \in 0..L-3
      <4>1. i \in 0..L-3 /\ i \in 0..L /\ j \in 0..L
        BY <3>1, <2>7, <1>1
      <4>2. g[i] <= g[j]
        BY <4>1, <2>7, <1>2
      <4>3. QED
        BY <3>1, <4>1, <4>2, <2>1
    <3>2. CASE j \notin 0..L-3
      <4>1. h[j] = n - 1
        BY <3>2, <2>2, <2>3
      <4>2. QED
        BY <4>1, <2>5
    <3>3. QED
      BY <3>1, <3>2
  <2>8. ASSUME NEW i \in 1..L-1
        PROVE  /\ h[i] = h[i-1] + (IF Head1(t[i]) THEN 1 ELSE 0)
               /\ t[i].ok => h[i] >= 1 /\ t[i].of = u[h[i]]
    <3>1. CASE i \in 1..L-3
      <4>1. i \in 0..L-3 /\ i - 1 \in 0..L-3 /\ i \in 1..L
        BY <3>1, <1>1
      <4>2. t[i] = s[i] /\ h[i] = g[i] /\ h[i-1] = g[i-1] /\ g[i] \in Nat /\ g[i] <= n - 1
        BY <3>1, <4>1, <1>1, <2>1
      <4>3. s[i].ok => g[i] >= 1 /\ s[i].of = q[g[i]]
        BY <4>1, <1>4
      <4>4. s[i].ok => u[g[i]] = q[g[i]]
        BY <4>2, <4>3, <2>1, <1>8
      <4>5. g[i] = g[i-1] + (IF Head1(s[i]) THEN 1 ELSE 0)
        BY <4>1, <1>3
      <4>6. QED
        BY <4>2, <4>3, <4>4, <4>5
    <3>2. CASE i = L - 2
      <4>1. i - 1 = L - 3 /\ L - 3 \in 0..L-3
        BY <3>2, <1>1
      <4>2. ~t[i].ok
        BY <3>2, <1>1 DEF Remains
      <4>3. h[i] = n - 1 /\ h[i-1] = n - 1
        BY <3>2, <4>1, <2>1, <2>2, <1>7
      <4>4. QED
        BY <4>2, <4>3, <2>1 DEF Head1
    <3>3. CASE i = L - 1
      <4>1. i - 1 = L - 2
        BY <3>3, <1>1
      <4>2. ~t[i].ok
        BY <3>3, <1>1 DEF Remains
      <4>3. h[i] = n - 1 /\ h[i-1] = n - 1
        BY <3>3, <4>1, <2>2
      <4>4. QED
        BY <4>2, <4>3, <2>1 DEF Head1
    <3>4. i \in 1..L-3 \/ i = L - 2 \/ i = L - 1
      BY <1>1
    <3>5. QED
      BY <3>1, <3>2, <3>3, <3>4
  <2>9. h[L-1] = Len(u)
    BY <2>2, <1>8
  <2>10. Counts(h, t, u)
    BY <1>1, <2>4, <2>6, <2>7, <2>8, <2>9 DEF Counts
  <2>11. QED
    BY <2>10
<1>11. QED
  BY <1>8, <1>9, <1>10 DEF t, u

-----------------------------------------------------------------------------
(* The ring: what is queued in it comes out again, in order.                *)
(* An index of the ring wraps at most once.                                 *)
LEMMA Wrapped ==
  ASSUME NEW b \in Nat \ {0}, NEW x \in Nat, x < b + b, NEW y, y = x % b
  PROVE  (x < b => y = x) /\ (x >= b => y = x - b)
<1>1. CASE x < b
  BY <1>1
<1>2. CASE x >= b
  <2>1. x - b \in 0..b-1
    BY <1>2
  <2>2. x = b + (x - b)
    OBVIOUS
  <2>3. x % b = x - b
    BY <2>1, <2>2
  <2>4. QED
    BY <1>2, <2>3
<1>3. QED
  BY <1>1, <1>2

(* Min of two numbers, as rcv_buf and data_callback use it.                 *)
LEMMA LeastOfTwo ==
  ASSUME NEW a \in Int, NEW b \in Int, a <= b
  PROVE  Min({a, b}) = a /\ Min({b, a}) = a
<1>1. \A x \in {a, b} : (\A y \in {a, b} : x <= y) <=> x = a
  OBVIOUS
<1>2. QED
  BY <1>1 DEF Min

(* A ring with rx_start = rx_end is empty.                                  *)
LEMMA Emptied ==
  ASSUME NEW buf, NEW start \in Index
  PROVE  Used(start, start) = 0 /\ Contents(buf, start, start) = <<>>
<1>1. start \in Int
  BY DEF Index
<1>2. Used(start, start) = 0
  BY <1>1 DEF Used
<1>3. Contents(buf, start, start) = [d \in 1..0 |-> buf[(start + d - 1) % RxSize]]
  BY <1>2 DEF Contents
<1>4. QED
  BY <1>2, <1>3

(* What two indices of the ring are apart.                                  *)
LEMMA Apart ==
  ASSUME NEW start \in Index, NEW end \in Index
  PROVE  /\ Used(start, end) \in 0..RxSize-1
         /\ (start + Used(start, end) < RxSize => end = start + Used(start, end))
         /\ (start + Used(start, end) >= RxSize => end = start + Used(start, end) - RxSize)
<1>1. RxSize \in Nat \ {0} /\ start \in 0..RxSize-1 /\ end \in 0..RxSize-1
  BY TuxReceiveAssumption DEF Index
<1>2. CASE start <= end
  BY <1>1, <1>2 DEF Used
<1>3. CASE ~(start <= end)
  BY <1>1, <1>3 DEF Used
<1>4. QED
  BY <1>2, <1>3

(* What is stored behind the bytes of the ring is found there, in order.    *)
LEMMA Queued ==
  ASSUME NEW buf, NEW start \in Index, NEW last \in Index, NEW bytes \in Seq(RxByte),
         Contents(buf, start, last) \in Seq(RxByte), Len(bytes) <= RoomLeft(start, last)
  PROVE  /\ AfterEnd(last, Len(bytes)) \in Index
         /\ Len(Contents(buf, start, last)) = Used(start, last)
         /\ Used(start, AfterEnd(last, Len(bytes))) = Used(start, last) + Len(bytes)
         /\ Contents(Store(buf, last, bytes), start, AfterEnd(last, Len(bytes)))
              = Contents(buf, start, last) \o bytes
<1>0. PICK old, end : /\ old = Contents(buf, start, last) /\ old \in Seq(RxByte)
                      /\ end = AfterEnd(last, Len(bytes))
  OBVIOUS
<1> DEFINE n == Len(bytes)
           B == RxSize
           u == Used(start, last)
<1>1. /\ B \in Nat \ {0} /\ n \in Nat /\ start \in 0..B-1 /\ last \in 0..B-1
      /\ u \in 0..B-1 /\ n <= B - u - 1
      /\ (start + u < B => last = start + u) /\ (start + u >= B => last = start + u - B)
  <2>1. B \in Nat \ {0} /\ n \in Nat /\ start \in 0..B-1 /\ last \in 0..B-1
    BY TuxReceiveAssumption DEF Index
  <2>2. /\ u \in 0..B-1
        /\ (start + u < B => last = start + u) /\ (start + u >= B => last = start + u - B)
    BY Apart
  <2>3. n <= B - u - 1
    BY DEF RoomLeft
  <2>4. QED
    BY <2>1, <2>2, <2>3
<1>2. end = (last + n) % B
  BY <1>0 DEF AfterEnd
<1>3. /\ \A d \in 1..u : old[d] = buf[(start + d - 1) % B]
      /\ Len(old) = u
  <2>1. old = [d \in 1..u |-> buf[(start + d - 1) % B]]
    BY <1>0 DEF Contents
  <2> HIDE DEF u, B
  <2>2. DOMAIN old = 1..u /\ u \in Nat
    BY <2>1, <1>1
  <2>3. Len(old) = u
    BY <2>2, <1>0, LenProperties
  <2>4. QED
    BY <2>1, <2>3
<1> HIDE DEF n, B, u
<1>4. (last + n < B => end = last + n) /\ (last + n >= B => end = last + n - B)
  <2>1. PICK x \in Nat : x = last + n /\ x < B + B
    BY <1>1
  <2>2. end = x % B
    BY <2>1, <1>2
  <2>3. (x < B => end = x) /\ (x >= B => end = x - B)
    BY <2>1, <2>2, <1>1, Wrapped
  <2>4. QED
    BY <2>1, <2>3, <1>1
<1>5. end \in 0..B-1
  BY <1>1, <1>4
<1>6. Used(start, end) = u + n
  <2>1. start <= end => end - start = u + n
    BY <1>1, <1>4
  <2>2. ~(start <= end) => B + end - start = u + n
    BY <1>1, <1>4
  <2>3. QED
    BY <2>1, <2>2 DEF Used, B
<1>7. ASSUME NEW d \in 1..u+n
      PROVE  Store(buf, last, bytes)[(start + d - 1) % RxSize] = (old \o bytes)[d]
  <2>1. PICK i, y : i = (start + d - 1) % B /\ y = (i + B - last) % B
    OBVIOUS
  <2>2. i \in 0..B-1 /\ (start + d - 1 < B => i = start + d - 1)
                     /\ (start + d - 1 >= B => i = start + d - 1 - B)
    <3>1. PICK x \in Nat : x = start + d - 1 /\ x < B + B
      BY <1>1
    <3>2. i = x % B
      BY <3>1, <2>1
    <3>3. (x < B => i = x) /\ (x >= B => i = x - B)
      BY <3>1, <3>2, <1>1, Wrapped
    <3>4. QED
      BY <3>1, <3>3, <1>1
  <2>3. i \in 0..B-1 /\ (d > u => y = d - u - 1) /\ (d <= u => y = B + d - u - 1)
    <3>1. PICK z \in Nat : z = i + B - last /\ z < B + B
      BY <2>2, <1>1
    <3>2. y = z % B
      BY <3>1, <2>1
    <3>3. (z < B => y = z) /\ (z >= B => y = z - B)
      BY <3>1, <3>2, <1>1, Wrapped
    <3>4. d > u => y = d - u - 1
      BY <3>1, <3>3, <2>2, <1>1
    <3>5. d <= u => y = B + d - u - 1
      BY <3>1, <3>3, <2>2, <1>1
    <3>6. QED
      BY <2>2, <3>4, <3>5
  <2>4. Store(buf, last, bytes)[i] = IF y < n THEN bytes[y + 1] ELSE buf[i]
    <3>1. i \in Index
      BY <2>3 DEF Index, B
    <3>2. QED
      BY <3>1, <2>1 DEF Store, Offset, n, B
  <2>5. (old \o bytes)[d] = IF d <= u THEN old[d] ELSE bytes[d - u]
    <3>1. d \in 1..Len(old)+Len(bytes)
      BY <1>3 DEF n
    <3> HIDE DEF RxByte
    <3>2. (old \o bytes)[d] = IF d <= Len(old) THEN old[d] ELSE bytes[d - Len(old)]
      BY <3>1, <1>0, ConcatProperties
    <3>3. QED
      BY <3>2, <1>3
  <2>6. CASE d <= u
    <3>1. ~(y < n)
      BY <2>3, <2>6, <1>1
    <3>2. d \in 1..u
      BY <2>6, <1>1
    <3>3. old[d] = buf[i]
      BY <3>2, <2>1, <1>3
    <3>4. QED
      BY <3>1, <3>3, <2>1, <2>4, <2>5, <2>6 DEF B
  <2>7. CASE ~(d <= u)
    <3>1. y = d - u - 1 /\ d - u - 1 < n /\ d - u - 1 + 1 = d - u
      BY <2>3, <2>7, <1>1
    <3>2. QED
      BY <3>1, <2>1, <2>4, <2>5, <2>7 DEF B
  <2>8. QED
    BY <2>6, <2>7
<1>8. Contents(Store(buf, last, bytes), start, end) = [d \in 1..u+n |-> (old \o bytes)[d]]
  BY <1>6, <1>7 DEF Contents
<1>9. old \o bytes = [d \in 1..u+n |-> (old \o bytes)[d]]
  <2> HIDE DEF RxByte
  <2>1. old \o bytes \in Seq(RxByte) /\ Len(old \o bytes) = u + n
    BY <1>0, <1>3 DEF n
  <2> DEFINE c == old \o bytes
  <2>2. c \in Seq(RxByte) /\ Len(c) = u + n
    BY <2>1
  <2> HIDE DEF c
  <2>3. c = [d \in 1..u+n |-> c[d]]
    BY <2>2
  <2>4. QED
    BY <2>3 DEF c
<1>10. QED
  BY <1>0, <1>3, <1>5, <1>6, <1>8, <1>9 DEF n, B, u, Index

(* What is left in the ring when bytes have been taken off its front.        *)
LEMMA Taken ==
  ASSUME NEW buf, NEW start \in Index, NEW end \in Index,
         Contents(buf, start, end) \in Seq(RxByte), NEW out \in 0..Used(start, end)
  PROVE  /\ (start + out) % RxSize \in Index
         /\ Contents(buf, (start + out) % RxSize, end)
              = SubSeq(Contents(buf, start, end), out + 1, Used(start, end))
         /\ out = Used(start, end) => (start + out) % RxSize = end
<1>0. PICK all, from : /\ all = Contents(buf, start, end) /\ all \in Seq(RxByte)
                       /\ from = (start + out) % RxSize
  OBVIOUS
<1> DEFINE B == RxSize
           u == Used(start, end)
<1>1. /\ B \in Nat \ {0} /\ start \in 0..B-1 /\ end \in 0..B-1 /\ u \in 0..B-1 /\ out \in 0..u
      /\ (start + u < B => end = start + u) /\ (start + u >= B => end = start + u - B)
  <2>1. B \in Nat \ {0} /\ start \in 0..B-1 /\ end \in 0..B-1
    BY TuxReceiveAssumption DEF Index
  <2>2. QED
    BY <2>1, Apart
<1>2. /\ \A d \in 1..u : all[d] = buf[(start + d - 1) % B]
      /\ Len(all) = u
  <2>1. all = [d \in 1..u |-> buf[(start + d - 1) % B]]
    BY <1>0 DEF Contents
  <2> HIDE DEF u, B
  <2>2. DOMAIN all = 1..u /\ u \in Nat
    BY <2>1, <1>1
  <2>3. Len(all) = u
    BY <2>2, <1>0, LenProperties
  <2>4. QED
    BY <2>1, <2>3
<1>3. from = (start + out) % B
  BY <1>0
<1> HIDE DEF B, u
<1>4. (start + out < B => from = start + out) /\ (start + out >= B => from = start + out - B)
  <2>1. PICK x \in Nat : x = start + out /\ x < B + B
    BY <1>1
  <2>2. from = x % B
    BY <2>1, <1>3
  <2>3. (x < B => from = x) /\ (x >= B => from = x - B)
    BY <2>1, <2>2, <1>1, Wrapped
  <2>4. QED
    BY <2>1, <2>3, <1>1
<1>5. from \in 0..B-1
  BY <1>1, <1>4
<1>6. Used(from, end) = u - out
  <2>1. from <= end => end - from = u - out
    BY <1>1, <1>4
  <2>2. ~(from <= end) => B + end - from = u - out
    BY <1>1, <1>4
  <2>3. QED
    BY <2>1, <2>2 DEF Used, B
<1>7. ASSUME NEW d \in 1..u-out
      PROVE  buf[(from + d - 1) % RxSize] = all[d + out]
  <2>1. PICK x \in Nat : x = start + (d + out) - 1 /\ x < B + B
    BY <1>1
  <2>2. PICK z \in Nat : z = from + d - 1 /\ z < B + B
    BY <1>1, <1>5
  <2>3. PICK i, j : i = x % B /\ j = z % B
    OBVIOUS
  <2>4. (x < B => i = x) /\ (x >= B => i = x - B)
    BY <2>1, <2>3, <1>1, Wrapped
  <2>5. (z < B => j = z) /\ (z >= B => j = z - B)
    BY <2>2, <2>3, <1>1, Wrapped
  <2>6. i = j
    BY <2>1, <2>2, <2>4, <2>5, <1>1, <1>4
  <2>7. d + out \in 1..u
    BY <1>1
  <2>8. all[d + out] = buf[i]
    BY <2>1, <2>3, <2>7, <1>2
  <2>9. QED
    BY <2>2, <2>3, <2>6, <2>8 DEF B
<1>8. Contents(buf, from, end) = [d \in 1..u-out |-> all[d + out]]
  BY <1>6, <1>7 DEF Contents
<1>9. SubSeq(all, out + 1, Len(all)) = [d \in 1..u-out |-> all[d + out]]
  <2>1. Len(all) = u /\ all \in Seq(RxByte)
    BY <1>0, <1>2
  <2>2. u \in Nat /\ out \in Nat /\ u - (out + 1) + 1 = u - out
    BY <1>1
  <2> DEFINE t == SubSeq(all, out + 1, Len(all))
  <2> HIDE DEF RxByte
  <2>3. /\ t \in Seq(RxByte) /\ Len(t) = u - out
        /\ \A d \in 1..u-out : t[d] = all[d + out]
    BY <2>1, <2>2, <1>1
  <2> HIDE DEF t
  <2>4. t = [d \in 1..u-out |-> all[d + out]]
    BY <2>3
  <2>5. QED
    BY <2>4 DEF t
<1>10. out = u => from = end
  BY <1>1, <1>4
<1>11. QED
  BY <1>0, <1>2, <1>5, <1>8, <1>9, <1>10 DEF B, u, Index

-----------------------------------------------------------------------------
(* Pieces of sequences.                                                    *)
(* Two sequences, cut in the second one.                                    *)
LEMMA Joined ==
  ASSUME NEW S, NEW s \in Seq(S), NEW t \in Seq(S)
  PROVE  s \o t \in Seq(S) /\ Len(s \o t) = Len(s) + Len(t)
OBVIOUS

LEMMA FirstPart ==
  ASSUME NEW S, NEW s \in Seq(S), NEW t \in Seq(S), NEW k \in 0..Len(t)
  PROVE  s \o SubSeq(t, 1, k) = SubSeq(s \o t, 1, Len(s) + k)
OBVIOUS

LEMMA LastPart ==
  ASSUME NEW S, NEW s \in Seq(S), NEW t \in Seq(S), NEW k \in 0..Len(t)
  PROVE  SubSeq(t, k + 1, Len(t)) = SubSeq(s \o t, Len(s) + k + 1, Len(s \o t))
OBVIOUS

(* The rest of two sequences from some place on.                            *)
LEMMA RestFollows ==
  ASSUME NEW S, NEW s \in Seq(S), NEW t \in Seq(S), NEW k \in 0..Len(t),
         NEW r \in 1..Len(s)+k+1
  PROVE  SubSeq(s \o t, r, Len(s) + k) \o SubSeq(t, k + 1, Len(t)) = SubSeq(s \o t, r, Len(s \o t))
<1> DEFINE u == s \o t
           m == Len(s) + k
<1>1. u \in Seq(S) /\ Len(u) = Len(s) + Len(t) /\ Len(s) \in Nat /\ Len(t) \in Nat
  OBVIOUS
<1>2. SubSeq(t, k + 1, Len(t)) = SubSeq(u, m + 1, Len(u))
  OBVIOUS
<1>3. /\ r \in 1..Len(u)+1 /\ m \in r-1..Len(u) /\ Len(u) \in m..Len(u)
  BY <1>1
<1> HIDE DEF u, m
<1>4. SubSeq(u, r, m) \o SubSeq(u, m + 1, Len(u)) = SubSeq(u, r, Len(u))
  BY <1>1, <1>3, ConcatAdjacentSubSeq
<1>5. QED
  BY <1>2, <1>4 DEF u, m

(* The beginning of a sequence, and a piece of it.                           *)
LEMMA PieceOf ==
  ASSUME NEW S, NEW t \in Seq(S), NEW k \in 0..Len(t), NEW i \in 1..k+1
  PROVE  SubSeq(t, i, k) \in Seq(S)
OBVIOUS

LEMMA PartOf ==
  ASSUME NEW S, NEW t \in Seq(S), NEW k \in 0..Len(t), NEW o \in 0..k
  PROVE  /\ SubSeq(t, 1, k) \in Seq(S) /\ Len(SubSeq(t, 1, k)) = k
         /\ SubSeq(SubSeq(t, 1, k), 1, o) = SubSeq(t, 1, o)
         /\ SubSeq(SubSeq(t, 1, k), o + 1, k) = SubSeq(t, o + 1, k)
OBVIOUS

LEMMA Meet ==
  ASSUME NEW S, NEW t \in Seq(S), NEW k \in 0..Len(t), NEW o \in 0..k
  PROVE  SubSeq(t, o + 1, k) \o SubSeq(t, k + 1, Len(t)) = SubSeq(t, o + 1, Len(t))
<1>1. o + 1 \in 1..Len(t)+1 /\ k \in (o + 1) - 1..Len(t) /\ Len(t) \in k..Len(t)
  OBVIOUS
<1>2. QED
  BY <1>1, ConcatAdjacentSubSeq

Associate(a, b, c) == (a \o b) \o c = a \o (b \o c)

LEMMA Associates ==
  ASSUME NEW S, NEW a \in Seq(S), NEW b \in Seq(S), NEW c \in Seq(S)
  PROVE  Associate(a, b, c)
BY DEF Associate

(* v is saved, q is queued and w on the line; n bytes of w arrive, of what is *)
(* queued then data_callback takes o, and saves what begins at r.            *)
Regroups(S, v, q, w, n, o, r) ==
         /\ q \o SubSeq(w, 1, n) \in Seq(S) /\ Len(q \o SubSeq(w, 1, n)) = Len(q) + n
         /\ v \o SubSeq(q \o SubSeq(w, 1, n), 1, o) = SubSeq((v \o q) \o w, 1, Len(v) + o)
         /\ (SubSeq((v \o q) \o w, r, Len(v) + o)
               \o SubSeq(q \o SubSeq(w, 1, n), o + 1, Len(q) + n))
              \o SubSeq(w, n + 1, Len(w)) = SubSeq((v \o q) \o w, r, Len((v \o q) \o w))

LEMMA Regrouped ==
  ASSUME NEW S, NEW v \in Seq(S), NEW q \in Seq(S), NEW w \in Seq(S), NEW n \in 0..Len(w),
         NEW o \in 0..Len(q)+n, NEW r \in 1..Len(v)+o+1
  PROVE  Regroups(S, v, q, w, n, o, r)
<1>1. PICK t, s, all, L, m : /\ t = q \o w /\ s = (v \o q) \o w
                             /\ all = q \o SubSeq(w, 1, n) /\ L = Len(t) /\ m = Len(v) + o
  OBVIOUS
<1>2. Len(v) \in Nat /\ Len(q) \in Nat /\ Len(w) \in Nat
  OBVIOUS
<1>3. t \in Seq(S) /\ Len(t) = Len(q) + Len(w)
  BY <1>1, Joined, Zenon
<1>4. PICK k \in 0..Len(t) : k = Len(q) + n
  BY <1>2, <1>3
<1>5. o \in 0..k /\ o \in 0..Len(t) /\ L = Len(t) /\ L \in Nat
  BY <1>1, <1>2, <1>3, <1>4
<1>6. s = v \o t
  <2>0. Associate(v, q, w)
    BY Associates, Zenon
  <2>1. (v \o q) \o w = v \o (q \o w)
    BY <2>0, Zenon DEF Associate
  <2>2. QED
    BY <1>1, <2>1, Zenon
<1>7. s \in Seq(S) /\ Len(s) = Len(v) + Len(t)
  BY <1>3, <1>6, Joined, Zenon
<1>8. all = SubSeq(t, 1, k)
  BY <1>1, <1>4, FirstPart, Zenon
<1>9. SubSeq(w, n + 1, Len(w)) = SubSeq(t, k + 1, Len(t))
  BY <1>1, <1>4, LastPart, Zenon
<1>10. /\ all \in Seq(S) /\ Len(all) = k /\ SubSeq(all, 1, o) = SubSeq(t, 1, o)
       /\ SubSeq(all, o + 1, k) = SubSeq(t, o + 1, k)
  BY <1>3, <1>5, <1>8, PartOf, Zenon
<1>11. v \o SubSeq(t, 1, o) = SubSeq(s, 1, Len(v) + o)
  BY <1>3, <1>5, <1>6, FirstPart, Zenon
<1>12. SubSeq(s, r, Len(v) + o) \o SubSeq(t, o + 1, Len(t)) = SubSeq(s, r, Len(s))
  BY <1>3, <1>5, <1>6, RestFollows, Zenon
<1>13. SubSeq(t, o + 1, k) \o SubSeq(t, k + 1, Len(t)) = SubSeq(t, o + 1, Len(t))
  BY <1>3, <1>5, Meet, Zenon
<1>14. PICK a, b, c : /\ a = SubSeq(s, r, Len(v) + o) /\ b = SubSeq(t, o + 1, k)
                      /\ c = SubSeq(t, k + 1, Len(t))
  OBVIOUS
<1>15. a \in Seq(S) /\ b \in Seq(S) /\ c \in Seq(S)
  <2>1. m \in 0..Len(s) /\ r \in 1..m+1
    BY <1>1, <1>2, <1>5, <1>7
  <2>2. a \in Seq(S)
    BY <1>1, <1>7, <1>14, <2>1, PieceOf, Zenon
  <2>3. o + 1 \in 1..k+1 /\ k + 1 \in 1..L+1 /\ L \in 0..Len(t)
    BY <1>4, <1>5
  <2>4. b \in Seq(S) /\ c \in Seq(S)
    BY <1>3, <1>5, <1>14, <2>3, PieceOf, Zenon
  <2>5. QED
    BY <2>2, <2>4
<1>16. (a \o b) \o c = a \o (b \o c)
  <2>1. Associate(a, b, c)
    BY <1>15, Associates, Zenon
  <2>2. QED
    BY <2>1, Zenon DEF Associate
<1>17. (SubSeq(s, r, Len(v) + o) \o SubSeq(all, o + 1, k)) \o SubSeq(w, n + 1, Len(w))
         = SubSeq(s, r, Len(s))
  BY <1>9, <1>10, <1>12, <1>13, <1>14, <1>16, Zenon
<1>18. QED
  BY <1>1, <1>4, <1>10, <1>11, <1>17, Zenon DEF Regroups

-----------------------------------------------------------------------------
(* The bytes on the way, and what Lose leaves.                              *)
(* What has left the line is ahead of what is on it.                        *)
ahead == saved \o queued

LEMMA StreamIs ==
  ASSUME RInv
  PROVE  /\ Stream = ahead \o wire /\ Stream \in Seq(RxByte) /\ ahead \in Seq(RxByte)
         /\ Len(Stream) = Len(ahead) + Len(wire)
         /\ \A i \in 1..Len(wire) : Stream[Len(ahead) + i] = wire[i]
<1>1. saved \in Seq(RxByte) /\ queued \in Seq(RxByte) /\ wire \in Seq(RxByte)
  BY DEF RInv
<1>2. Stream = ahead \o wire
  BY DEF Stream, queued, ahead
<1> HIDE DEF RxByte
<1>3. ahead \in Seq(RxByte)
  BY <1>1 DEF ahead
<1>4. /\ ahead \o wire \in Seq(RxByte) /\ Len(ahead \o wire) = Len(ahead) + Len(wire)
      /\ \A i \in 1..Len(wire) : (ahead \o wire)[Len(ahead) + i] = wire[i]
  BY <1>1, <1>3
<1>5. QED
  BY <1>2, <1>3, <1>4

(* The two bytes that are left of a packet, whichever is lost.              *)
LEMMA Remain ==
  ASSUME NEW w \in Seq(RxByte), Len(w) = 3, Mid(w[2]), Mid(w[3]), NEW k \in 1..3,
         NEW b, b = [i \in 1..2 |-> [RemoveAt(w, k)[i] EXCEPT !.ok = FALSE]]
  PROVE  b \in Seq(RxByte) /\ Remains(b)
<1> DEFINE r == RemoveAt(w, k)
<1>1. r[1] \in RxByte /\ r[2] \in RxByte /\ ~r[2].first
  <2>1. w[1] \in RxByte /\ w[2] \in RxByte /\ w[3] \in RxByte /\ ~w[2].first /\ ~w[3].first
    BY DEF Mid
  <2>2. CASE k = 1
    <3>1. r = SubSeq(w, 1, 0) \o SubSeq(w, 2, 3)
      BY <2>2 DEF RemoveAt
    <3>2. r[1] = w[2] /\ r[2] = w[3]
      BY <3>1
    <3>3. QED
      BY <3>2, <2>1
  <2>3. CASE k = 2
    <3>1. r = SubSeq(w, 1, 1) \o SubSeq(w, 3, 3)
      BY <2>3 DEF RemoveAt
    <3>2. r[1] = w[1] /\ r[2] = w[3]
      BY <3>1
    <3>3. QED
      BY <3>2, <2>1
  <2>4. CASE k = 3
    <3>1. r = SubSeq(w, 1, 2) \o SubSeq(w, 4, 3)
      BY <2>4 DEF RemoveAt
    <3>2. r[1] = w[1] /\ r[2] = w[2]
      BY <3>1
    <3>3. QED
      BY <3>2, <2>1
  <2>5. QED
    BY <2>2, <2>3, <2>4
<1> HIDE DEF r
<1>2. ASSUME NEW x \in RxByte
      PROVE  [x EXCEPT !.ok = FALSE] \in RxByte /\ ~[x EXCEPT !.ok = FALSE].ok
             /\ [x EXCEPT !.ok = FALSE].first = x.first
  BY DEF RxByte
<1>3. b = [i \in 1..2 |-> [r[i] EXCEPT !.ok = FALSE]]
  BY DEF r
<1>4. /\ b[1] = [r[1] EXCEPT !.ok = FALSE] /\ b[2] = [r[2] EXCEPT !.ok = FALSE]
      /\ Len(b) = 2 /\ DOMAIN b = 1..2
  <2> DEFINE d(i) == [r[i] EXCEPT !.ok = FALSE]
  <2>1. b = [i \in 1..2 |-> d(i)]
    BY <1>3
  <2> HIDE DEF d
  <2>2. b[1] = d(1) /\ b[2] = d(2) /\ DOMAIN b = 1..2
    BY <2>1
  <2>3. Len(b) = 2
    BY <2>1
  <2>4. QED
    BY <2>2, <2>3 DEF d
<1>5. b[1] \in RxByte /\ b[2] \in RxByte
  BY <1>1, <1>2, <1>4
<1>6. b \in Seq(RxByte)
  <2> HIDE DEF RxByte
  <2>1. b = [i \in 1..2 |-> b[i]] /\ \A i \in 1..2 : b[i] \in RxByte
    BY <1>3, <1>5
  <2>2. QED
    BY <2>1
<1>7. Remains(b)
  BY <1>1, <1>2, <1>4 DEF Remains
<1>8. QED
  BY <1>6, <1>7

-----------------------------------------------------------------------------
(* Every step keeps the invariant.                                         *)
(* The driver starts with nothing saved, queued or due.                     *)
LEMMA Starts ==
  ASSUME RxInit
  PROVE  RInv
<1>1. /\ rx_start \in Index /\ rx_end = rx_start
      /\ saved = <<>> /\ wire = <<>> /\ due = <<>>
  BY TuxReceiveAssumption DEF RxInit, Index
<1>2. queued = <<>>
  BY <1>1, Emptied DEF queued
<1>20. Stream = <<>> /\ Len(<<>>) = 0
  BY <1>1, <1>2 DEF Stream, queued
<1>21. chunks = "fits"
  BY DEF RxInit
<1>3. Sound(<<>>)
  BY DEF Sound
<1>4. Counts([i \in 0..0 |-> 0], <<>>, <<>>)
  BY DEF Counts
<1>5. QED
  BY <1>1, <1>2, <1>20, <1>21, <1>3, <1>4 DEF RInv

(* A packet is put on the line.                                             *)
LEMMA SendKeeps ==
  ASSUME RInv, NEW p \in Packet, Send(p)
  PROVE  RInv'
<1>1. /\ ahead \in Seq(RxByte) /\ wire \in Seq(RxByte) /\ due \in Seq(Packet)
      /\ Sound(ahead \o wire)
  BY StreamIs DEF RInv
<1>2. PICK g : Counts(g, ahead \o wire, due)
  BY StreamIs DEF RInv
<1>3. /\ wire' = wire \o Bytes(p) /\ due' = Append(due, p) /\ chunks' = chunks
      /\ saved' = saved /\ queued' = queued /\ rx_start' = rx_start /\ rx_end' = rx_end
  BY DEF Send, ring, queued
<1> DEFINE s == ahead \o wire
<1>4. s \in Seq(RxByte)
  BY <1>1
<1>5. /\ Bytes(p) \in Seq(RxByte) /\ Sound(s \o Bytes(p))
      /\ \E h : Counts(h, s \o Bytes(p), Append(due, p))
  <2> HIDE DEF s
  <2>1. Sound(s) /\ Counts(g, s, due)
    BY <1>1, <1>2 DEF s
  <2>2. QED
    BY <1>1, <1>4, <2>1, Appended
<1>6. s \o Bytes(p) = ahead \o (wire \o Bytes(p)) /\ wire \o Bytes(p) \in Seq(RxByte)
  <2> HIDE DEF RxByte
  <2>1. QED
    BY <1>1, <1>5
<1>7. Append(due, p) \in Seq(Packet)
  BY <1>1
<1>70. Stream' = s \o Bytes(p)
  BY <1>3, <1>6 DEF Stream, queued, ahead
<1> HIDE DEF s
<1>8. QED
  BY <1>1, <1>3, <1>5, <1>6, <1>7, <1>70 DEF RInv, Index

(* A byte is lost: the packet is not due any more.                          *)
LEMMA LoseKeeps ==
  ASSUME Spared, RInv, NEW k \in 1..3, Lose(k)
  PROVE  RInv'
<1> DEFINE s == ahead \o wire
           n == Len(wire)
           m == Len(ahead)
           L == Len(s)
           w == SubSeq(wire, n - 2, n)
           b == [i \in 1..2 |-> [RemoveAt(w, k)[i] EXCEPT !.ok = FALSE]]
<1>1. /\ ahead \in Seq(RxByte) /\ wire \in Seq(RxByte) /\ due \in Seq(Packet)
      /\ Sound(s) /\ Stream = s /\ s \in Seq(RxByte)
  BY StreamIs DEF RInv
<1>2. PICK g : Counts(g, s, due)
  BY <1>1 DEF RInv
<1>3. /\ n >= 3 /\ wire[n].ok /\ wire[n-2].first
      /\ L - 3 > 0 => s[L-3].ok
      /\ wire' = SubSeq(wire, 1, n - 3) \o b /\ due' = Front(due) /\ chunks' = chunks
      /\ saved' = saved /\ queued' = queued /\ rx_start' = rx_start /\ rx_end' = rx_end
  BY <1>1 DEF Lose, ring, Spared, queued
<1>4. /\ m \in Nat /\ n \in Nat /\ L = m + n
      /\ \A i \in 1..n : s[m + i] = wire[i]
  BY <1>1, StreamIs
<1>5. s[L].ok /\ s[L-2].first
  <2>1. n \in 1..n /\ n - 2 \in 1..n /\ m + n = L /\ m + (n - 2) = L - 2
    BY <1>3, <1>4
  <2> HIDE DEF s, L, n, m
  <2>2. s[L] = wire[n] /\ s[L-2] = wire[n-2]
    BY <2>1, <1>4
  <2>3. QED
    BY <2>2, <1>3
<1>6. MayLose(s, L)
  <2>1. L >= 3 /\ (L > 3 => L - 3 > 0)
    BY <1>3, <1>4
  <2>2. QED
    BY <2>1, <1>3, <1>5 DEF MayLose
<1>7. Mid(w[2]) /\ Mid(w[3]) /\ w \in Seq(RxByte) /\ Len(w) = 3
  <2>1. w \in Seq(RxByte) /\ Len(w) = 3 /\ w[2] = wire[n-1] /\ w[3] = wire[n]
    BY <1>1, <1>3, <1>4
  <2>2. Mid(s[L-1]) /\ Mid(s[L])
    <3> HIDE DEF s
    <3>1. QED
      BY <1>1, <1>6, LastWhole
  <2>3. n \in 1..n /\ n - 1 \in 1..n /\ m + n = L /\ m + (n - 1) = L - 1
    BY <1>3, <1>4
  <2> HIDE DEF s, w, n, m, L
  <2>4. s[L] = wire[n] /\ s[L-1] = wire[n-1]
    BY <2>3, <1>4
  <2>5. QED
    BY <2>1, <2>2, <2>4
<1>8. b \in Seq(RxByte) /\ Remains(b)
  <2> HIDE DEF w
  <2>1. QED
    BY <1>7, Remain
<1> HIDE DEF b, w
<1>9. Sound(SubSeq(s, 1, L - 3) \o b) /\ \E h : Counts(h, SubSeq(s, 1, L - 3) \o b, Front(due))
      /\ due # <<>>
  <2> HIDE DEF s
  <2>1. QED
    BY <1>1, <1>2, <1>6, <1>8, Damaged
<1>10. ahead \o (SubSeq(wire, 1, n - 3) \o b) = SubSeq(s, 1, L - 3) \o b
  <2>1. PICK j \in 0..Len(wire) : j = n - 3 /\ Len(ahead) + j = L - 3
    BY <1>3, <1>4
  <2> DEFINE f == SubSeq(wire, 1, j)
  <2>2. f \in Seq(RxByte) /\ f = SubSeq(wire, 1, n - 3)
    BY <1>1, <2>1
  <2>3. ahead \o f = SubSeq(ahead \o wire, 1, Len(ahead) + j)
    <3> HIDE DEF RxByte
    <3>1. QED
      BY <1>1
  <2>4. ahead \o f = SubSeq(s, 1, L - 3)
    BY <2>1, <2>3
  <2> HIDE DEF f, s, L, n, m, RxByte
  <2>5. ahead \o (f \o b) = (ahead \o f) \o b
    <3>1. ahead \in Seq(RxByte) /\ b \in Seq(RxByte) /\ f \in Seq(RxByte)
      BY <1>1, <1>8, <2>2
    <3>2. QED
      BY <3>1
  <2>6. QED
    BY <2>2, <2>4, <2>5
<1>11. SubSeq(wire, 1, n - 3) \o b \in Seq(RxByte)
  <2>1. SubSeq(wire, 1, n - 3) \in Seq(RxByte)
    BY <1>1, <1>3
  <2> HIDE DEF n, RxByte
  <2>2. QED
    BY <2>1, <1>8
<1>12. Front(due) \in Seq(Packet)
  BY <1>1, <1>9 DEF Front
<1>120. Stream' = SubSeq(s, 1, L - 3) \o b
  BY <1>3, <1>10 DEF Stream, queued, ahead
<1> HIDE DEF s, n, m, L
<1>13. QED
  BY <1>1, <1>3, <1>9, <1>11, <1>12, <1>120 DEF RInv, Index

(* rcv_buf and data_callback: when the bytes have found room, the ring holds *)
(* what the array did not take, and all that is on its way is sound.         *)
LEMMA ArriveKeeps ==
  ASSUME RInv, NEW n \in 1..MaxChunk, Arrive(n), chunks' # "spilt"
  PROVE  RInv'
<1>1. PICK v, q, w, s, d : v = saved /\ q = queued /\ w = wire /\ s = Stream /\ d = due
  OBVIOUS
<1>2. /\ v \in Seq(RxByte) /\ q \in Seq(RxByte) /\ w \in Seq(RxByte) /\ d \in Seq(Packet)
      /\ rx_start \in Index /\ rx_end \in Index /\ Len(v) <= 2 /\ Sound(s)
      /\ \E h : Counts(h, s, d)
  BY <1>1 DEF RInv
<1>3. s = (v \o q) \o w
  BY <1>1 DEF Stream, queued
<1>4. PICK lv \in 0..2, lq \in Nat, lw \in Nat : lv = Len(v) /\ lq = Len(q) /\ lw = Len(w)
  <2>1. Len(v) \in Nat
    BY <1>2
  <2>2. Len(q) \in Nat
    BY <1>2
  <2>3. Len(w) \in Nat
    BY <1>2
  <2>4. PICK lv \in Nat : lv = Len(v)
    BY <2>1
  <2>5. lv <= 2
    BY <2>4, <1>2
  <2>6. lv \in 0..2
    BY <2>4, <2>5
  <2>7. QED
    BY <2>2, <2>3, <2>4, <2>6
<1>40. s \in Seq(RxByte) /\ Len(s) = Len(v) + Len(q) + Len(w)
  <2>2. v \o q \in Seq(RxByte) /\ Len(v \o q) = Len(v) + Len(q)
    BY <1>2, Joined, Zenon
  <2>3. s \in Seq(RxByte) /\ Len(s) = Len(v \o q) + Len(w)
    BY <1>2, <1>3, <2>2, Joined, Zenon
  <2>4. QED
    BY <2>2, <2>3
<1>5. PICK g : Counts(g, s, d)
  BY <1>2
<1>6. n \in Nat /\ n \in 0..Len(w) /\ Cap \in Nat /\ Cap > 2
  <2>1. n \in Nat /\ n <= Len(w)
    BY <1>1 DEF Arrive
  <2>2. QED
    BY <2>1, <1>4, TuxReceiveAssumption
<1>60. ~(Min({n, RoomLeft(rx_start, rx_end)}) < n)
  BY DEF Arrive
<1> DEFINE x == SubSeq(w, 1, n)
           all == q \o x
           buf == Store(rx_buf, rx_end, x)
           end == AfterEnd(rx_end, n)
           out == Min({Cap - Len(v), Used(rx_start, end)})
           cut == Cut(SubSeq(s, 1, Len(v) + out))
           isDue == /\ Len(cut.packets) <= Len(d)
                    /\ \A i \in DOMAIN cut.packets : \A j \in 1..3 : cut.packets[i][j].of = d[i]
(* Every byte finds room. *)
<1>7. Min({n, RoomLeft(rx_start, rx_end)}) = n /\ n <= RoomLeft(rx_start, rx_end)
  <2>1. RoomLeft(rx_start, rx_end) \in Int
    <3>1. Used(rx_start, rx_end) \in 0..RxSize-1 /\ RxSize \in Nat
      BY <1>2, Apart, TuxReceiveAssumption
    <3>2. QED
      BY <3>1 DEF RoomLeft
  <2>2. PICK room \in Int : room = RoomLeft(rx_start, rx_end)
    BY <2>1
  <2>3. CASE n <= room
    BY <2>2, <2>3, <1>6, LeastOfTwo
  <2>4. CASE room < n
    <3>1. Min({n, room}) = room
      BY <2>2, <2>4, <1>6, LeastOfTwo
    <3>2. QED
      BY <3>1, <2>2, <2>4, <1>6, <1>60
  <2>5. QED
    BY <2>3, <2>4, <2>2, <1>6
<1>8. x \in Seq(RxByte) /\ Len(x) = n
  BY <1>2, <1>4, <1>6
<1> HIDE DEF x
<1>9. /\ end \in Index /\ Len(q) = Used(rx_start, rx_end) /\ Used(rx_start, end) = Len(q) + n
      /\ Contents(buf, rx_start, end) = all
  <2>1. q = Contents(rx_buf, rx_start, rx_end)
    BY <1>1 DEF queued
  <2>2. Contents(rx_buf, rx_start, rx_end) \in Seq(RxByte) /\ Len(x) <= RoomLeft(rx_start, rx_end)
    BY <1>2, <1>7, <1>8, <2>1
  <2>3. /\ AfterEnd(rx_end, Len(x)) \in Index
        /\ Len(Contents(rx_buf, rx_start, rx_end)) = Used(rx_start, rx_end)
        /\ Used(rx_start, AfterEnd(rx_end, Len(x))) = Used(rx_start, rx_end) + Len(x)
        /\ Contents(Store(rx_buf, rx_end, x), rx_start, AfterEnd(rx_end, Len(x)))
             = Contents(rx_buf, rx_start, rx_end) \o x
    <3>1. PICK bf, st, la, y : bf = rx_buf /\ st = rx_start /\ la = rx_end /\ y = x
      OBVIOUS
    <3>2. /\ st \in Index /\ la \in Index /\ y \in Seq(RxByte)
          /\ Contents(bf, st, la) \in Seq(RxByte) /\ Len(y) <= RoomLeft(st, la)
      BY <1>2, <1>8, <2>2, <3>1
    <3>3. /\ AfterEnd(la, Len(y)) \in Index
          /\ Len(Contents(bf, st, la)) = Used(st, la)
          /\ Used(st, AfterEnd(la, Len(y))) = Used(st, la) + Len(y)
          /\ Contents(Store(bf, la, y), st, AfterEnd(la, Len(y))) = Contents(bf, st, la) \o y
      BY <3>2, Queued
    <3>4. QED
      BY <3>1, <3>3, Zenon
  <2>4. QED
    BY <1>8, <2>1, <2>3, Zenon
(* What data_callback takes. *)
<1>10. /\ out \in 0..Len(q)+n
       /\ Len(q) + n <= Cap - Len(v) => out = Len(q) + n
  <2>1. PICK a \in Int : a = Cap - Len(v) /\ a > 0
    <3>0. lv \in Int /\ lv <= 2
      OBVIOUS
    <3>1. Cap \in Int /\ Cap > 2
      BY <1>6
    <3>2. Cap - lv \in Int /\ Cap - lv > 0
      BY <3>0, <3>1
    <3>3. QED
      BY <3>2, <1>4
  <2>2. PICK b \in Nat : b = Len(q) + n
    BY <1>4, <1>6
  <2>3. out = Min({a, b})
    BY <2>1, <2>2, <1>9
  <2> HIDE DEF out
  <2>4. CASE a <= b
    <3>1. out = a
      BY <2>3, <2>4, LeastOfTwo
    <3>2. QED
      BY <3>1, <2>1, <2>2, <2>4
  <2>5. CASE b <= a
    <3>1. out = b
      BY <2>3, <2>5, LeastOfTwo
    <3>2. QED
      BY <3>1, <2>1, <2>2, <2>5
  <2>6. QED
    BY <2>4, <2>5
<1>11. ASSUME NEW r \in 1..Len(v)+out+1
       PROVE  /\ all \in Seq(RxByte) /\ Len(all) = Len(q) + n
              /\ v \o SubSeq(all, 1, out) = SubSeq(s, 1, Len(v) + out)
              /\ (SubSeq(s, r, Len(v) + out) \o SubSeq(all, out + 1, Len(q) + n))
                   \o SubSeq(w, n + 1, Len(w)) = SubSeq(s, r, Len(s))
  <2> HIDE DEF out
  <2>1. v \in Seq(RxByte) /\ q \in Seq(RxByte) /\ w \in Seq(RxByte)
    BY <1>2
  <2>2. n \in 0..Len(w) /\ out \in 0..Len(q)+n
    BY <1>6, <1>10
  <2>3. PICK o : o = out
    OBVIOUS
  <2>4. /\ q \o SubSeq(w, 1, n) \in Seq(RxByte) /\ Len(q \o SubSeq(w, 1, n)) = Len(q) + n
        /\ v \o SubSeq(q \o SubSeq(w, 1, n), 1, o) = SubSeq((v \o q) \o w, 1, Len(v) + o)
        /\ (SubSeq((v \o q) \o w, r, Len(v) + o)
              \o SubSeq(q \o SubSeq(w, 1, n), o + 1, Len(q) + n))
             \o SubSeq(w, n + 1, Len(w)) = SubSeq((v \o q) \o w, r, Len((v \o q) \o w))
    <3>1. o \in 0..Len(q)+n /\ r \in 1..Len(v)+o+1
      BY <2>2, <2>3
    <3>2. Regroups(RxByte, v, q, w, n, o, r)
      BY <2>1, <2>2, <3>1, Regrouped, Zenon
    <3>3. QED
      BY <3>2, Zenon DEF Regroups
  <2>5. all = q \o SubSeq(w, 1, n)
    BY DEF x
  <2> HIDE DEF all
  <2>6. QED
    BY <1>3, <2>3, <2>4, <2>5, Zenon
<1>12. /\ all \in Seq(RxByte) /\ Len(all) = Len(q) + n
       /\ v \o SubSeq(all, 1, out) = SubSeq(s, 1, Len(v) + out)
  <2>1. 1 \in 1..Len(v)+out+1
    <3> HIDE DEF out
    <3>1. QED
      BY <1>4, <1>6, <1>10
  <2> HIDE DEF all, out
  <2>2. QED
    BY <2>1, <1>11, Zenon
<1>13. /\ wire' = SubSeq(w, n + 1, Len(w))
       /\ rx_buf' = buf /\ rx_end' = end /\ rx_start' = (rx_start + out) % RxSize
       /\ saved' = cut.rest
       /\ due' = IF isDue THEN SubSeq(d, Len(cut.packets) + 1, Len(d)) ELSE d
       /\ chunks' = IF chunks = "fits" /\ n > Cap - 2 THEN "long" ELSE chunks
  <2>1. /\ SubSeq(Contents(Store(rx_buf, rx_end, SubSeq(w, 1, n)), rx_start, end), 1, out)
             = SubSeq(all, 1, out)
        /\ x = SubSeq(w, 1, n)
    BY <1>9 DEF x
  <2>2. Min({n, RoomLeft(rx_start, rx_end)}) = n /\ ~(n < n)
    BY <1>6, <1>60, <1>7
  <2>3. QED
    BY <2>1, <2>2, <1>1, <1>12 DEF Arrive
<1> HIDE DEF out
<1>14. /\ Len(v) + out \in Nat /\ Len(v) + out <= Len(s) /\ out \in Nat
  BY <1>4, <1>40, <1>6, <1>10
<1>15. PICK r \in 1..Len(v)+out+1 :
         /\ r + 1 >= Len(v) + out /\ cut.rest = SubSeq(s, r, Len(v) + out)
         /\ r <= Len(s) => ~Mid(s[r])
         /\ cut \in Cutting /\ Len(cut.packets) = g[r-1] - g[0]
         /\ \A k \in 1..Len(cut.packets) : \A j \in 1..3 : cut.packets[k][j].of = d[g[0] + k]
  <2>1. Takes(cut, s, g, d, 1, Len(v) + out)
    BY <1>2, <1>40, <1>5, <1>14, CutTakes
  <2> HIDE DEF cut
  <2>2. 1 - 1 = 0
    OBVIOUS
  <2>3. QED
    BY <2>1, <2>2 DEF Takes
<1>16. r \in 1..Len(s)+1
  BY <1>40, <1>14
<1> HIDE DEF cut
<1>17. /\ Sound(SubSeq(s, r, Len(s))) /\ g[r-1] \in 0..Len(d)
       /\ \E h : Counts(h, SubSeq(s, r, Len(s)), SubSeq(d, g[r-1] + 1, Len(d)))
  BY <1>2, <1>40, <1>5, <1>15, <1>16, Shifted
<1>18. Len(cut.packets) = g[r-1] /\ isDue
  <2>1. g[0] = 0
    BY <1>5 DEF Counts
  <2>2. Len(cut.packets) = g[r-1]
    BY <2>1, <1>15, <1>17
  <2>3. DOMAIN cut.packets = 1..Len(cut.packets)
    BY <1>15 DEF Cutting
  <2>4. ASSUME NEW k \in 1..Len(cut.packets), NEW j \in 1..3
        PROVE  cut.packets[k][j].of = d[k]
    <3>1. g[0] + k = k
      BY <2>1
    <3>2. QED
      BY <3>1, <1>15
  <2>5. Len(cut.packets) <= Len(d)
    BY <2>2, <1>17
  <2>6. isDue
    BY <2>3, <2>4, <2>5, Zenon
  <2> HIDE DEF isDue
  <2>7. QED
    BY <2>2, <2>6
<1>19. due' = SubSeq(d, g[r-1] + 1, Len(d))
  <2> HIDE DEF isDue
  <2>1. QED
    BY <1>13, <1>18
(* What is left. *)
<1>20. saved' = SubSeq(s, r, Len(v) + out)
  BY <1>13, <1>15
<1>21. /\ rx_start' \in Index /\ rx_end' \in Index
       /\ queued' = SubSeq(all, out + 1, Len(all))
       /\ out = Len(all) => rx_start' = rx_end'
  <2>1. Contents(buf, rx_start, end) \in Seq(RxByte) /\ out \in 0..Used(rx_start, end)
    BY <1>9, <1>10, <1>12
  <2> HIDE DEF all, buf, end
  <2>2. /\ (rx_start + out) % RxSize \in Index
        /\ Contents(buf, (rx_start + out) % RxSize, end)
             = SubSeq(Contents(buf, rx_start, end), out + 1, Used(rx_start, end))
        /\ out = Used(rx_start, end) => (rx_start + out) % RxSize = end
    BY <2>1, <1>2, <1>9, Taken, Zenon
  <2>3. queued' = Contents(buf, (rx_start + out) % RxSize, end)
    BY <1>13 DEF queued
  <2>4. QED
    BY <2>2, <2>3, <1>9, <1>12, <1>13
<1>22. Stream' = SubSeq(s, r, Len(s))
  <2>1. Stream' = (saved' \o queued') \o wire'
    BY DEF Stream, queued
  <2> HIDE DEF all
  <2>2. QED
    BY <2>1, <1>11, <1>12, <1>13, <1>20, <1>21, Zenon
<1>23. saved' \in Seq(RxByte) /\ Len(saved') <= 2
  <2>1. \A k \in Nat : k <= Len(s) /\ r \in 1..k+1 /\ r + 1 >= k =>
          SubSeq(s, r, k) \in Seq(RxByte) /\ Len(SubSeq(s, r, k)) <= 2
    BY <1>40
  <2>2. QED
    BY <2>1, <1>14, <1>15, <1>20
<1>24. wire' \in Seq(RxByte) /\ due' \in Seq(Packet) /\ queued' \in Seq(RxByte)
  <2>1. wire' \in Seq(RxByte)
    BY <1>2, <1>6, <1>13
  <2>2. due' \in Seq(Packet)
    BY <1>2, <1>17, <1>19
  <2>3. queued' \in Seq(RxByte)
    <3> HIDE DEF all
    <3>1. QED
      BY <1>12, <1>14, <1>21
  <2>4. QED
    BY <2>1, <2>2, <2>3
<1>25. chunks' \in {"fits", "long"} /\ (chunks' = "fits" => rx_end' = rx_start')
  <2>1. chunks \in {"fits", "long"} /\ (chunks = "fits" => rx_end = rx_start)
    BY DEF RInv
  <2>2. ASSUME chunks' = "fits"
        PROVE  rx_end' = rx_start'
    <3>1. chunks = "fits" /\ n <= Cap - 2 /\ rx_end = rx_start
      BY <1>6, <1>13, <2>1, <2>2
    <3>2. Len(q) = 0
      BY <3>1, <1>2, <1>9, Emptied
    <3>3. Len(q) + n <= Cap - Len(v)
      <4>0. lv \in Int /\ lv <= 2
        OBVIOUS
      <4>1. Cap \in Int /\ n \in Int /\ n <= Cap - 2
        BY <3>1, <1>6
      <4>2. 0 + n <= Cap - lv
        BY <4>0, <4>1
      <4>3. QED
        BY <4>2, <3>2, <1>4
    <3>4. QED
      BY <3>3, <1>10, <1>12, <1>21
  <2>3. QED
    BY <2>1, <2>2, <1>13
<1>26. QED
  BY <1>17, <1>19, <1>21, <1>22, <1>23, <1>24, <1>25 DEF RInv, Index

(* The invariant holds always.                                              *)
LEMMA RxKept ==
  ASSUME Spared
  PROVE  RxSpec => []RxInv
<1>1. RxInit => RxInv
  BY Starts DEF RxInv, RInv
<1>2. ASSUME RxInv, [RxNext]_rx_vars
      PROVE  RxInv'
  <2>1. CASE \E p \in Packet : Send(p)
    <3>1. PICK p \in Packet : Send(p)
      BY <2>1
    <3>2. chunks' = chunks
      BY <3>1 DEF Send
    <3>3. QED
      BY <1>2, <3>1, <3>2, SendKeeps DEF RxInv
  <2>2. CASE \E k \in 1..3 : Lose(k)
    <3>1. PICK k \in 1..3 : Lose(k)
      BY <2>2
    <3>2. chunks' = chunks
      BY <3>1 DEF Lose
    <3>3. QED
      BY <1>2, <3>1, <3>2, LoseKeeps DEF RxInv
  <2>3. CASE \E n \in 1..MaxChunk : Arrive(n)
    <3>1. PICK n \in 1..MaxChunk : Arrive(n)
      BY <2>3
    <3>2. chunks' \in {chunks, "spilt", "long"}
      BY <3>1 DEF Arrive
    <3>3. CASE chunks' = "spilt"
      BY <3>3 DEF RxInv
    <3>4. CASE chunks' # "spilt"
      <4>1. chunks # "spilt"
        BY <3>1, <3>4 DEF Arrive
      <4>2. RInv'
        BY <1>2, <3>1, <3>4, <4>1, ArriveKeeps DEF RxInv
      <4>3. QED
        BY <1>2, <3>2, <4>2 DEF RxInv
    <3>5. QED
      BY <3>3, <3>4
  <2>4. CASE UNCHANGED rx_vars
    BY <1>2, <2>4 DEF RxInv, RInv, Stream, queued, Index, rx_vars, ring
  <2>5. QED
    BY <1>2, <2>1, <2>2, <2>3, <2>4 DEF RxNext
<1>3. QED
  BY <1>1, <1>2, PTL DEF RxSpec

-----------------------------------------------------------------------------
(* What of the bytes is undamaged: three for each packet that is due.       *)
Picked(f, s) ==
  f = [i \in 0..Len(s) |-> IF i = 0 THEN <<>>
                           ELSE IF s[i].ok THEN Append(f[i-1], s[i])
                           ELSE f[i-1]]

PickStep(f, s, i) == IF i = 0 THEN <<>> ELSE IF s[i].ok THEN Append(f[i-1], s[i]) ELSE f[i-1]

(* The recursive function that Undamaged defines exists.                    *)
LEMMA PickedExists ==
  ASSUME NEW s, Len(s) \in Nat
  PROVE  \E f : Picked(f, s)
<1> DEFINE P(m, f) == f = [i \in 0..m |-> PickStep(f, s, i)]
           T == {m \in Nat : \E f : P(m, f)}
<1>1. 0 \in T
  <2> DEFINE f == [i \in 0..0 |-> <<>>]
  <2>1. P(0, f)
    BY DEF PickStep
  <2>2. QED
    BY <2>1
<1>2. ASSUME NEW m \in Nat, m \in T
      PROVE  m + 1 \in T
  <2>1. PICK f : P(m, f)
    BY <1>2
  <2> DEFINE g == [i \in 0..m+1 |-> IF i = m + 1 THEN PickStep(f, s, i) ELSE f[i]]
  <2>2. \A i \in 0..m : g[i] = f[i]
    OBVIOUS
  <2>3. g[m+1] = PickStep(f, s, m + 1) /\ g = [i \in 0..m+1 |-> g[i]]
    OBVIOUS
  <2> HIDE DEF g
  <2>4. ASSUME NEW i \in 0..m+1
        PROVE  g[i] = PickStep(g, s, i)
    <3>1. i # 0 => g[i-1] = f[i-1]
      BY <2>2
    <3>2. PickStep(g, s, i) = PickStep(f, s, i)
      <4>1. CASE i = 0
        BY <4>1 DEF PickStep
      <4>2. CASE i # 0
        <5>1. g[i-1] = f[i-1]
          BY <3>1, <4>2
        <5>2. QED
          BY <5>1, <4>2, Zenon DEF PickStep
      <4>3. QED
        BY <4>1, <4>2
    <3>3. CASE i = m + 1
      BY <3>2, <3>3, <2>3
    <3>4. CASE i # m + 1
      <4>1. i \in 0..m
        BY <3>4
      <4>2. f[i] = PickStep(f, s, i)
        BY <4>1, <2>1
      <4>3. QED
        BY <4>1, <4>2, <3>2, <2>2
    <3>5. QED
      BY <3>3, <3>4
  <2>5. P(m + 1, g)
    BY <2>3, <2>4
  <2>6. QED
    BY <2>5
<1> HIDE DEF T
<1>3. Len(s) \in T
  BY <1>1, <1>2, Induction
<1>4. QED
  BY <1>3 DEF T, Picked, PickStep

(* Undamaged is that function at the last byte.                             *)
LEMMA UndamagedUnfolds ==
  ASSUME NEW s, Len(s) \in Nat
  PROVE  \E f : /\ f[0] = <<>> /\ Undamaged(s) = f[Len(s)]
               /\ \A i \in 1..Len(s) : f[i] = IF s[i].ok THEN Append(f[i-1], s[i]) ELSE f[i-1]
<1> DEFINE f == CHOOSE f : Picked(f, s)
<1>1. Picked(f, s)
  BY PickedExists
<1>2. Undamaged(s) = f[Len(s)]
  BY DEF Undamaged, Picked
<1> HIDE DEF f
<1>3. \A i \in 0..Len(s) : f[i] = PickStep(f, s, i)
  BY <1>1 DEF Picked, PickStep
<1>4. f[0] = <<>>
  BY <1>3 DEF PickStep
<1>5. ASSUME NEW i \in 1..Len(s)
      PROVE  f[i] = IF s[i].ok THEN Append(f[i-1], s[i]) ELSE f[i-1]
  BY <1>3 DEF PickStep
<1>6. QED
  BY <1>2, <1>4, <1>5

(* How many bytes of the packet byte i belongs to are still to come.        *)
Missing(s, i) == IF i >= 1 /\ Head1(s[i]) THEN 2
                 ELSE IF i >= 2 /\ Head1(s[i-1]) THEN 1
                 ELSE 0

(* How the bytes that a packet still lacks change from one byte to the next. *)
LEMMA MissingIs ==
  ASSUME NEW s \in Seq(RxByte), Sound(s), NEW i \in 1..Len(s)
  PROVE  /\ ~Mid(s[i]) => Missing(s, i-1) = 0
         /\ ~s[i].ok => Missing(s, i) = 0
         /\ Head1(s[i]) => Missing(s, i) = 2
         /\ Mid(s[i]) => /\ Missing(s, i-1) = Missing(s, i) + 1
                         /\ Missing(s, i) \in {0, 1}
         /\ i = Len(s) => Missing(s, i) = 0
<1>1. Len(s) \in Nat
  OBVIOUS
<1>2. \A j \in 1..Len(s) : Head1(s[j]) => j + 2 <= Len(s) /\ Mid(s[j+1]) /\ Mid(s[j+2])
  BY DEF Sound
<1>3. i - 1 >= 1 /\ Head1(s[i-1]) => Mid(s[i]) /\ i + 1 <= Len(s)
  <2>1. SUFFICES ASSUME i - 1 >= 1, Head1(s[i-1])
                 PROVE  Mid(s[i]) /\ i + 1 <= Len(s)
    OBVIOUS
  <2>2. i - 1 \in 1..Len(s) /\ i - 1 + 1 = i /\ i - 1 + 2 = i + 1
    BY <2>1
  <2>3. QED
    BY <2>1, <2>2, <1>2
<1>4. i - 2 >= 1 /\ Head1(s[i-2]) => Mid(s[i])
  <2>1. SUFFICES ASSUME i - 2 >= 1, Head1(s[i-2])
                 PROVE  Mid(s[i])
    OBVIOUS
  <2>2. i - 2 \in 1..Len(s) /\ i - 2 + 2 = i
    BY <2>1
  <2>3. QED
    BY <2>1, <2>2, <1>2
<1>5. /\ Head1(s[i]) => s[i].ok /\ ~Mid(s[i])
      /\ Mid(s[i]) => s[i].ok /\ ~Head1(s[i])
  BY DEF Head1, Mid
<1>6. i - 1 - 1 = i - 2 /\ (i >= 2 <=> i - 1 >= 1) /\ (i - 1 >= 2 <=> i - 2 >= 1)
  OBVIOUS
<1>7. Missing(s, i-1) = IF i - 1 >= 1 /\ Head1(s[i-1]) THEN 2
                        ELSE IF i - 2 >= 1 /\ Head1(s[i-2]) THEN 1 ELSE 0
  BY <1>6 DEF Missing
<1>8. Missing(s, i) = IF Head1(s[i]) THEN 2
                      ELSE IF i - 1 >= 1 /\ Head1(s[i-1]) THEN 1 ELSE 0
  BY <1>6 DEF Missing
<1>9. ~Mid(s[i]) => Missing(s, i-1) = 0
  BY <1>3, <1>4, <1>7
<1>10. ~s[i].ok => Missing(s, i) = 0
  BY <1>3, <1>5, <1>8
<1>11. Head1(s[i]) => Missing(s, i) = 2
  BY <1>8
<1>12. ASSUME Mid(s[i])
       PROVE  Missing(s, i-1) = Missing(s, i) + 1 /\ Missing(s, i) \in {0, 1}
  <2>1. PICK j \in 1..Len(s) : (j = i - 1 \/ j = i - 2) /\ Head1(s[j])
    BY <1>1, <1>12, MidFollows
  <2>2. CASE j = i - 1
    <3>1. i - 1 >= 1 /\ Head1(s[i-1])
      BY <2>1, <2>2
    <3>2. Missing(s, i-1) = 2 /\ Missing(s, i) = 1
      BY <3>1, <1>5, <1>7, <1>8, <1>12
    <3>3. QED
      BY <3>2
  <2>3. CASE j = i - 2
    <3>1. i - 2 >= 1 /\ Head1(s[i-2])
      BY <2>1, <2>3
    <3>2. j + 1 = i - 1 /\ Mid(s[j+1])
      BY <2>1, <2>3, <1>2
    <3>3. ~Head1(s[i-1])
      BY <3>2 DEF Head1, Mid
    <3>4. Missing(s, i-1) = 1 /\ Missing(s, i) = 0
      BY <3>1, <3>3, <1>5, <1>7, <1>8, <1>12
    <3>5. QED
      BY <3>4
  <2>4. QED
    BY <2>1, <2>2, <2>3
<1>13. ASSUME i = Len(s)
       PROVE  Missing(s, i) = 0
  <2>1. ~(i + 2 <= Len(s)) /\ ~(i + 1 <= Len(s))
    BY <1>13, <1>1
  <2>2. ~Head1(s[i])
    BY <2>1, <1>2
  <2>3. QED
    BY <2>1, <2>2, <1>3, <1>8
<1>14. QED
  BY <1>9, <1>10, <1>11, <1>12, <1>13

(* The undamaged bytes of a sound stream are three of each packet due.      *)
LEMMA ThreeOfEach ==
  ASSUME NEW s \in Seq(RxByte), Sound(s), NEW q \in Seq(Packet), NEW g, Counts(g, s, q)
  PROVE  /\ Undamaged(s) \in Seq(RxByte) /\ Len(Undamaged(s)) = 3 * Len(q)
         /\ \A i \in 1..Len(Undamaged(s)) : Undamaged(s)[i].of = q[(i - 1) \div 3 + 1]
<1> DEFINE L == Len(s)
<1>1. L \in Nat
  OBVIOUS
<1>2. PICK f : /\ f[0] = <<>> /\ Undamaged(s) = f[L]
               /\ \A i \in 1..L : f[i] = IF s[i].ok THEN Append(f[i-1], s[i]) ELSE f[i-1]
  BY <1>1, UndamagedUnfolds
<1>3. /\ g[0] = 0 /\ g[L] = Len(q) /\ \A i \in 0..L : g[i] \in Nat
  BY DEF Counts
<1>4. \A i \in 1..L : g[i] = g[i-1] + (IF Head1(s[i]) THEN 1 ELSE 0)
  BY DEF Counts
<1>5. \A i \in 1..L : s[i].ok => g[i] >= 1 /\ s[i].of = q[g[i]]
  BY DEF Counts
<1> DEFINE Q(i) == /\ f[i] \in Seq(RxByte)
                   /\ Len(f[i]) = 3 * g[i] - Missing(s, i)
                   /\ \A j \in 1..Len(f[i]) : f[i][j].of = q[(j - 1) \div 3 + 1]
           T == {i \in Nat : i <= L => Q(i)}
<1> HIDE DEF L
<1>6. 0 \in T
  <2>1. Missing(s, 0) = 0
    BY DEF Missing
  <2>2. 3 * g[0] - 0 = 0 /\ Len(<<>>) = 0 /\ <<>> \in Seq(RxByte)
    BY <1>3
  <2>3. f[0] \in Seq(RxByte) /\ Len(f[0]) = 0
    BY <2>2, <1>2
  <2>4. Len(f[0]) = 3 * g[0] - Missing(s, 0)
    BY <2>1, <2>2, <2>3
  <2>5. \A j \in 1..Len(f[0]) : f[0][j].of = q[(j - 1) \div 3 + 1]
    BY <2>3
  <2>6. Q(0)
    BY <2>3, <2>4, <2>5 DEF Q
  <2> HIDE DEF Q
  <2>7. QED
    BY <2>6 DEF T
<1>7. ASSUME NEW k \in Nat, k \in T
      PROVE  k + 1 \in T
  <2> HIDE DEF Q
  <2>1. SUFFICES ASSUME k + 1 <= L
                 PROVE  Q(k + 1)
    BY DEF T
  <2>2. PICK i \in 1..L : i = k + 1 /\ i - 1 = k
    BY <2>1, <1>1
  <2>3. /\ f[i-1] \in Seq(RxByte) /\ Len(f[i-1]) = 3 * g[i-1] - Missing(s, i-1)
        /\ \A j \in 1..Len(f[i-1]) : f[i-1][j].of = q[(j - 1) \div 3 + 1]
    <3>1. k <= L
      BY <2>1, <1>1
    <3>2. Q(k)
      BY <3>1, <1>7 DEF T
    <3>3. Q(i-1)
      BY <3>2, <2>2
    <3>4. QED
      BY <3>3 DEF Q
  <2> HIDE DEF T
  <2>4. i \in 1..Len(s) /\ g[i] \in Nat /\ g[i-1] \in Nat /\ s[i] \in RxByte
    BY <1>3, <2>2 DEF L
  <2>5. /\ ~Mid(s[i]) => Missing(s, i-1) = 0
        /\ ~s[i].ok => Missing(s, i) = 0
        /\ Head1(s[i]) => Missing(s, i) = 2
        /\ Mid(s[i]) => /\ Missing(s, i-1) = Missing(s, i) + 1
                        /\ Missing(s, i) \in {0, 1}
    BY <2>4, MissingIs
  <2>6. CASE ~s[i].ok
    <3>1. ~Mid(s[i]) /\ ~Head1(s[i])
      BY <2>6 DEF Mid, Head1
    <3>2. f[i] = f[i-1] /\ g[i] = g[i-1] + 0
      BY <2>6, <3>1, <1>2, <1>4
    <3>3. g[i] = g[i-1]
      BY <3>2, <2>4
    <3>4. Missing(s, i) = Missing(s, i-1)
      BY <3>1, <2>5, <2>6
    <3>5. Q(i)
      BY <2>3, <3>2, <3>3, <3>4 DEF Q
    <3>6. QED
      BY <3>5, <2>2
  <2>7. CASE s[i].ok
    <3> DEFINE n == Len(f[i-1])
    <3>1. f[i] = Append(f[i-1], s[i])
      BY <2>7, <1>2
    <3>2. /\ n \in Nat /\ f[i] \in Seq(RxByte) /\ Len(f[i]) = n + 1 /\ f[i][n+1] = s[i]
          /\ \A j \in 1..n : f[i][j] = f[i-1][j]
      <4> HIDE DEF RxByte
      <4>1. QED
        BY <3>1, <2>3, <2>4
    <3>3. \E m \in {0, 1, 2} : Missing(s, i) = m /\ n = 3 * g[i] - m - 1
      <4>1. CASE Head1(s[i])
        <5>1. g[i] = g[i-1] + 1
          BY <4>1, <1>4
        <5>2. ~Mid(s[i])
          BY <4>1 DEF Head1, Mid
        <5>3. Missing(s, i-1) = 0 /\ Missing(s, i) = 2
          BY <4>1, <5>2, <2>5
        <5>4. n = 3 * g[i-1] - 0
          BY <5>3, <2>3
        <5> HIDE DEF n
        <5>5. n = 3 * g[i] - 2 - 1
          BY <5>1, <5>4, <2>4
        <5>6. QED
          BY <5>3, <5>5
      <4>2. CASE ~Head1(s[i])
        <5>1. Mid(s[i])
          BY <4>2, <2>7 DEF Head1, Mid
        <5>2. g[i] = g[i-1] + 0
          BY <4>2, <1>4
        <5>3. PICK m \in {0, 1} : Missing(s, i) = m /\ Missing(s, i-1) = m + 1
          BY <5>1, <2>5
        <5>4. n = 3 * g[i-1] - (m + 1)
          BY <5>3, <2>3
        <5> HIDE DEF n
        <5>5. n = 3 * g[i] - m - 1
          BY <5>2, <5>4, <2>4
        <5>6. QED
          BY <5>3, <5>5
      <4>3. QED
        BY <4>1, <4>2
    <3>4. PICK m \in {0, 1, 2} : Missing(s, i) = m /\ n = 3 * g[i] - m - 1
      BY <3>3
    <3> HIDE DEF n
    <3>5. n \div 3 + 1 = g[i]
      <4>1. PICK a : a = g[i]
        OBVIOUS
      <4>2. a \in Nat /\ n \in Nat /\ n = 3 * a - m - 1
        BY <4>1, <3>4, <3>2, <2>4
      <4>3. n \div 3 + 1 = a
        BY <4>2
      <4>4. QED
        BY <4>1, <4>3
    <3>6. Len(f[i]) = 3 * g[i] - Missing(s, i)
      BY <3>2, <3>4, <2>4
    <3>7. ASSUME NEW j \in 1..Len(f[i])
          PROVE  f[i][j].of = q[(j - 1) \div 3 + 1]
      <4>1. CASE j = n + 1
        <5>1. j - 1 = n
          BY <4>1, <3>2
        <5>2. f[i][j].of = q[g[i]]
          BY <4>1, <3>2, <2>7, <1>5
        <5>3. QED
          BY <5>1, <5>2, <3>5
      <4>2. CASE j # n + 1
        <5>1. j \in 1..n
          BY <4>2, <3>2
        <5>2. f[i][j] = f[i-1][j] /\ f[i-1][j].of = q[(j - 1) \div 3 + 1]
          BY <5>1, <3>2, <2>3 DEF n
        <5>3. QED
          BY <5>2
      <4>3. QED
        BY <4>1, <4>2
    <3>8. Q(i)
      BY <3>2, <3>6, <3>7 DEF Q
    <3>9. QED
      BY <3>8, <2>2
  <2>8. QED
    BY <2>6, <2>7
<1> HIDE DEF T
<1>8. L \in T
  BY <1>1, <1>6, <1>7, Induction
<1>9. Q(L)
  <2> HIDE DEF Q
  <2>1. QED
    BY <1>8, <1>1 DEF T
<1>10. Missing(s, L) = 0
  <2>1. CASE L = 0
    BY <2>1 DEF Missing
  <2>2. CASE L # 0
    <3>1. L \in 1..Len(s) /\ L = Len(s)
      BY <2>2, <1>1 DEF L
    <3>2. QED
      BY <3>1, MissingIs
  <2>3. QED
    BY <2>1, <2>2
<1>11. 3 * g[L] - 0 = 3 * Len(q)
  BY <1>3
<1>12. QED
  BY <1>2, <1>9, <1>10, <1>11

(* data_callback never loses its place in the stream: as long as rcv_buf has *)
(* found room for every byte, the bytes between the controller and           *)
(* tuxctl_handle_packet are, damaged packets aside, exactly the packets      *)
(* still due, whole and in order, however long the chunks are, for every     *)
(* size of the ring and of the array, when the line damages no two packets   *)
(* in a row.                                                                *)
THEOREM PacketsIntact ==
  ASSUME Spared
  PROVE  RxSpec => []StreamIntact
<1>1. RxInv => StreamIntact
  <2>1. SUFFICES ASSUME RInv
                 PROVE  StreamIntact
    BY DEF RxInv, StreamIntact
  <2>2. PICK s : s = Stream
    OBVIOUS
  <2>3. s \in Seq(RxByte)
    BY <2>1, <2>2, StreamIs
  <2>4. due \in Seq(Packet) /\ Sound(s)
    BY <2>1, <2>2 DEF RInv
  <2>5. PICK g : Counts(g, s, due)
    BY <2>1, <2>2 DEF RInv
  <2>6. PICK whole : whole = Undamaged(s)
    OBVIOUS
  <2>7. /\ whole \in Seq(RxByte) /\ Len(whole) = 3 * Len(due)
        /\ \A i \in 1..Len(whole) : whole[i].of = due[(i - 1) \div 3 + 1]
    BY <2>3, <2>4, <2>5, <2>6, ThreeOfEach
  <2>8. DOMAIN whole = 1..Len(whole)
    BY <2>7
  <2>9. \A i \in DOMAIN whole : whole[i].of = due[(i - 1) \div 3 + 1]
    BY <2>7, <2>8
  <2>10. QED
    BY <2>2, <2>6, <2>7, <2>9 DEF StreamIntact
<1>2. QED
  BY <1>1, RxKept, PTL

(* A packet waits for no byte but its own: once nothing is on the line, no   *)
(* packet that arrived undamaged is still to be handled while every chunk    *)
(* has fitted, and after a longer one none but those still in the ring; what *)
(* data_callback saves is at most the two bytes of a damaged one.            *)
THEOREM HandledAtOnce ==
  ASSUME Spared
  PROVE  RxSpec => []HandledOnArrival
<1>1. RxInv => HandledOnArrival
  <2>1. SUFFICES ASSUME RInv, wire = <<>>, rx_start = rx_end
                 PROVE  due = <<>>
    BY DEF RxInv, RInv, HandledOnArrival
  <2>2. PICK s : s = Stream
    OBVIOUS
  <2>20. queued = <<>>
    BY <2>1, Emptied DEF RInv, queued
  <2>3. PICK L \in {0, 1, 2} : L = Len(s)
    <3>1. s \in Seq(RxByte) /\ Len(s) = Len(ahead) + Len(wire)
      BY <2>1, <2>2, StreamIs
    <3>2. Len(wire) = 0 /\ Len(ahead) \in Nat /\ Len(ahead) <= 2
      <4>1. saved \in Seq(RxByte) /\ Len(saved) <= 2
        BY <2>1 DEF RInv
      <4>2. ahead = saved
        BY <4>1, <2>20 DEF ahead
      <4>3. QED
        BY <4>1, <4>2, <2>1
    <3>3. Len(s) \in 0..2
      BY <3>1, <3>2
    <3>4. QED
      BY <3>3
  <2>4. \A i \in 1..L : ~Head1(s[i])
    <3>1. \A i \in 1..L : Head1(s[i]) => i + 2 <= L
      BY <2>1, <2>2, <2>3 DEF RInv, Sound
    <3>2. QED
      BY <3>1
  <2>5. PICK g : Counts(g, s, due)
    BY <2>1, <2>2 DEF RInv
  <2>6. /\ g[0] = 0 /\ g[L] = Len(due)
        /\ \A i \in 1..L : g[i] = g[i-1] + (IF Head1(s[i]) THEN 1 ELSE 0)
    BY <2>3, <2>5 DEF Counts
  <2>7. \A i \in 1..L : g[i] = g[i-1] + 0
    BY <2>4, <2>6
  <2>8. g[L] = 0
    <3>1. L >= 1 => g[1] = 0
      BY <2>6, <2>7
    <3>2. L >= 2 => g[2] = 0
      BY <3>1, <2>7
    <3>3. QED
      BY <2>6, <3>1, <3>2
  <2>9. due \in Seq(Packet) /\ Len(due) = 0
    BY <2>1, <2>6, <2>8 DEF RInv
  <2>10. QED
    BY <2>9
<1>2. QED
  BY <1>1, RxKept, PTL
=============================================================================
