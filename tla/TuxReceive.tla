----------------------------- MODULE TuxReceive -----------------------------
(***************************************************************************)
(* How a packet of the Tux controller reaches tuxctl_handle_packet: the      *)
(* serial driver hands the line discipline (tuxctl-ld.c) the bytes in        *)
(* chunks of any length; tuxctl_ldisc_rcv_buf queues them in the ring buffer *)
(* rx_buf, and tuxctl_ldisc_data_callback cuts what it finds there into      *)
(* packets of three bytes, saving what is left over for the next chunk.     *)
(* Both run in one interrupt, one step here.  The handling itself is in      *)
(* TuxSend; here a packet is its value.                                     *)
(*                                                                         *)
(* Only the first byte of a packet has bit 7 clear ("first").  The line may *)
(* lose a byte; "ok" marks the bytes of a packet that has lost none.        *)
(***************************************************************************)
EXTENDS Naturals, Sequences, SequencesExt, FiniteSetsExt

CONSTANTS
  RxSize,    (* TUXCTL_BUFSIZE                                               *)
  Cap,       (* the size of data_callback's packet array, 12                 *)
  MaxChunk,  (* a bound on the bytes the serial driver delivers at once      *)
  Packet,    (* what the controller sends                                    *)
  MaxWire,   (* a bound on the bytes on the line                             *)
  Bursts     (* TRUE: the line may lose bytes of two packets in a row        *)

ASSUME TuxReceiveAssumption ==
  /\ RxSize \in Nat /\ Cap \in Nat /\ MaxChunk \in Nat \ {0} /\ MaxWire \in Nat
  /\ RxSize > 0 /\ Cap > 2 /\ Bursts \in BOOLEAN

RxByte == [first : BOOLEAN, of : Packet, ok : BOOLEAN]
Index  == 0..RxSize-1

VARIABLES
  rx_buf, rx_start, rx_end,   (* tuxctl_ldisc_data_t                          *)
  saved,                      (* data_callback's static saved, n_saved        *)
  wire,                       (* the bytes on the line                        *)
  due,                        (* the undamaged packets sent and not handled   *)
  chunks                      (* "fits" while every chunk fitted into the     *)
                              (* array data_callback reads the ring into,     *)
                              (* "long" after one did not, "spilt" once       *)
                              (* rcv_buf had no room for a byte               *)

ring    == <<rx_buf, rx_start, rx_end>>
rx_vars == <<ring, saved, wire, due, chunks>>

-----------------------------------------------------------------------------
(* The ring buffer. *)
Used(start, end) == IF start <= end THEN end - start ELSE RxSize + end - start
RoomLeft(start, end) == RxSize - Used(start, end) - 1

Contents(buf, start, end) ==
  [d \in 1..Used(start, end) |-> buf[(start + d - 1) % RxSize]]

(* How far index i lies behind the index start. *)
Offset(start, i) == (i + RxSize - start) % RxSize

AfterEnd(end, n) == (end + n) % RxSize

Store(buf, end, bytes) ==
  [i \in Index |-> IF Offset(end, i) < Len(bytes) THEN bytes[Offset(end, i) + 1] ELSE buf[i]]

RxInit == /\ rx_buf \in [Index -> {[first |-> FALSE, of |-> CHOOSE p \in Packet : TRUE, ok |-> FALSE]}]
          /\ rx_start = 0 /\ rx_end = 0
          /\ saved = <<>> /\ wire = <<>> /\ due = <<>> /\ chunks = "fits"

-----------------------------------------------------------------------------
(* data_callback looks at every byte but the last two as the beginning of a *)
(* packet: Cut(bytes)[i] is what it does from byte i on.                    *)
FramedFirst(bytes, i) == bytes[i].first   \* mutant: only the first byte is checked
Framed(bytes, i) ==
  /\ bytes[i].first
  /\ ~bytes[i+1].first /\ ~bytes[i+2].first

CutOneShort(bytes) ==                 \* mutant: all but the last three
  LET n == Len(bytes)
      from[i \in 1..n+1] ==
        IF i + 3 > n THEN [packets |-> <<>>, rest |-> SubSeq(bytes, i, n)]
        ELSE IF Framed(bytes, i)
          THEN [from[i+3] EXCEPT !.packets = <<SubSeq(bytes, i, i+2)>> \o @]
        ELSE from[i+1]
  IN  from[1]
Cut(bytes) ==
  LET n == Len(bytes)
      from[i \in 1..n+1] ==
        IF i + 2 > n THEN [packets |-> <<>>, rest |-> SubSeq(bytes, i, n)]
        ELSE IF Framed(bytes, i)
          THEN [from[i+3] EXCEPT !.packets = <<SubSeq(bytes, i, i+2)>> \o @]
        ELSE from[i+1]
  IN  from[1]

(* The three bytes of a packet as the controller sends them. *)
Bytes(p) == [i \in 1..3 |-> [first |-> i = 1, of |-> p, ok |-> TRUE]]

-----------------------------------------------------------------------------
(* The controller, and the line. *)
Send(p) ==
  /\ Len(wire) + 3 <= MaxWire
  /\ wire' = wire \o Bytes(p)
  /\ due' = Append(due, p)
  /\ UNCHANGED <<ring, saved, chunks>>

(* The bytes between the controller and tuxctl_handle_packet, in order. *)
Stream == saved \o Contents(rx_buf, rx_start, rx_end) \o wire

(* One byte is lost of the last packet sent, if none of it has arrived yet. *)
Lose(k) ==
  LET n    == Len(wire)
      prev == Len(Stream) - 3
  IN  /\ n >= 3 /\ wire[n].ok /\ wire[n-2].first
      /\ prev > 0 /\ ~Bursts => Stream[prev].ok
      /\ wire' = SubSeq(wire, 1, n-3) \o
                 [i \in 1..2 |-> [RemoveAt(SubSeq(wire, n-2, n), k)[i] EXCEPT !.ok = FALSE]]
      /\ due' = Front(due)
      /\ UNCHANGED <<ring, saved, chunks>>

(* rcv_buf queues n bytes, less what the buffer has no room for; then       *)
(* data_callback takes up to Cap bytes, its saved ones included, and leaves  *)
(* the rest in the buffer until it is called for the next chunk.            *)
Arrive(n) ==
  LET in      == Min({n, RoomLeft(rx_start, rx_end)})
      buf     == Store(rx_buf, rx_end, SubSeq(wire, 1, in))
      end     == AfterEnd(rx_end, in)
      out     == Min({Cap - Len(saved), Used(rx_start, end)})
      bytes   == saved \o SubSeq(Contents(buf, rx_start, end), 1, out)
      handled == Cut(bytes).packets
      isDue   == /\ Len(handled) <= Len(due)
                 /\ \A i \in DOMAIN handled : \A j \in 1..3 : handled[i][j].of = due[i]
  IN  /\ n <= Len(wire)
      /\ wire' = SubSeq(wire, n + 1, Len(wire))
      /\ rx_buf' = buf /\ rx_end' = end
      /\ rx_start' = (rx_start + out) % RxSize
      /\ saved' = Cut(bytes).rest
      /\ due' = IF isDue THEN SubSeq(due, Len(handled) + 1, Len(due)) ELSE due
      /\ chunks' = IF in < n THEN "spilt"
                   ELSE IF chunks = "fits" /\ n > Cap - 2 THEN "long" ELSE chunks

RxNext == \/ \E p \in Packet : Send(p)
          \/ \E k \in 1..3 : Lose(k)
          \/ \E n \in 1..MaxChunk : Arrive(n)

RxSpec == RxInit /\ [][RxNext]_rx_vars

-----------------------------------------------------------------------------
(* The bytes of s that belong to undamaged packets, in order. *)
Undamaged(s) ==
  LET upTo[i \in 0..Len(s)] == IF i = 0 THEN <<>>
                               ELSE IF s[i].ok THEN Append(upTo[i-1], s[i])
                               ELSE upTo[i-1]
  IN  upTo[Len(s)]

(* While rcv_buf has found room for every byte, what is in the Stream is,    *)
(* damaged packets aside, the packets that are due: none has been handled    *)
(* twice, out of order, in part, or made up of pieces of two.                *)
StreamIntact ==
  chunks # "spilt" =>
    LET whole == Undamaged(Stream)
    IN  /\ Len(whole) = 3 * Len(due)
        /\ \A i \in DOMAIN whole : whole[i].of = due[(i - 1) \div 3 + 1]

(* A packet is handled when its last byte arrives.  Only a chunk longer than *)
(* Cap - 2 makes packets wait, and those wait in the ring.                   *)
HandledOnArrival ==
  /\ chunks # "spilt" /\ wire = <<>>
  /\ chunks = "fits" \/ rx_start = rx_end
  => due = <<>>

(* What the comment in data_callback says, that it looks at all bytes but    *)
(* the last two: no packet waits for the next chunk.  It does not hold: of a *)
(* chunk longer than Cap - 2 the rest waits in the ring.                     *)
AllLookedAt == chunks # "spilt" /\ wire = <<>> => due = <<>>

(* A bound for the runs: the ring never overflows. *)
Unspilt == chunks # "spilt"
=============================================================================
