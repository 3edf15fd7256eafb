------------------------------- MODULE Files --------------------------------
(***************************************************************************)
(* Files and descriptors: sys_open, sys_read, sys_close and the descriptor  *)
(* parts of sys_execute and sys_halt (syscall.c), the reads of the file     *)
(* system (file_system_driver.c) and of the real-time clock (rtc.c).  The   *)
(* programs of one terminal form a stack, of which the top one runs; it     *)
(* makes any system calls.  A program's process control block is the one    *)
(* of its depth in the stack, and holds what the last program there left.   *)
(*                                                                         *)
(* A byte of a file is the file and its place in it, a directory entry the  *)
(* name of its file.  A call that fails changes nothing and is no step.     *)
(*                                                                         *)
(* mine, got and ticked are the programs' side: the descriptors a program   *)
(* has opened, what it has read through each, and whether the clock has     *)
(* ticked since it began to wait for it.                                    *)
(***************************************************************************)
EXTENDS Integers, Sequences, SequencesExt

CONSTANTS
  Block,            (* the bytes of a data block: 4096                       *)
  Length,           (* the regular files, each with its length               *)
  Names,            (* the entries of the directory, in their order          *)
  ACTUAL_MAX_DIRS,  (* where sys_read ends a directory                       *)
  HighFd,           (* the last descriptor: 7                                *)
  Depth,            (* the programs of the terminal, the first shell counted *)
  Requests          (* the nbytes that programs ask sys_read for             *)

Regular == DOMAIN Length
None    == "none"

(* The image in the repository has as many entries as the code supposes.    *)
ASSUME FilesAssumption == /\ Block \in Nat \ {0} /\ HighFd \in Nat /\ Depth \in Nat \ {0}
                          /\ \A f \in Regular : Length[f] \in Nat
                          /\ Regular \cap {"dir", "rtc", None} = {}
                          /\ Names \in Seq(Regular \cup {"dir", "rtc"})
                          /\ ACTUAL_MAX_DIRS = Len(Names) /\ Names # <<>>
                          /\ Requests \subseteq Nat \ {0}

Fd  == 2..HighFd
Pid == 0..Depth-1

VARIABLES
  proc_cnt,              (* the programs that run; the last one is on top     *)
  file_descriptor,       (* of each process control block                     *)
  flag, waiting,         (* rtc.c; the descriptor whose read waits, or 0      *)
  mine, got, ticked      (* the programs                                      *)

rtc  == <<flag, waiting, ticked>>
vars == <<proc_cnt, file_descriptor, rtc, mine, got>>

-----------------------------------------------------------------------------
(* What a descriptor holds; ops stands for the table of operations.         *)
Descriptor == [ops : {None, "rtc", "dir", "file"}, internal_ftype : 0..2,
               inode_index : Regular \cup {None}, file_position : Nat, flags : {0, 1}]

Zeroed == [ops |-> None, internal_ftype |-> 0, inode_index |-> None,
           file_position |-> 0, flags |-> 0]

(* sys_execute sets all but the type, *)
Initialized(d) == [ops |-> None, internal_ftype |-> d.internal_ftype, inode_index |-> None,
                   file_position |-> 0, flags |-> 0]

(* sys_close and sys_halt all but the inode, *)
Closed(d) == [ops |-> None, internal_ftype |-> 0, inode_index |-> d.inode_index,
              file_position |-> 0, flags |-> 0]

(* sys_open all fields. *)
Kind(e) == IF e \in Regular THEN "file" ELSE e

Opened(e) == [ops |-> Kind(e),
              internal_ftype |-> IF e \in Regular THEN 2 ELSE IF e = "dir" THEN 1 ELSE 0,
              inode_index |-> IF e \in Regular THEN e ELSE None,
              file_position |-> 0, flags |-> 1]

(* sys_read moves the position only. *)
At(d, position) == [ops |-> d.ops, internal_ftype |-> d.internal_ftype,
                    inode_index |-> d.inode_index, file_position |-> position,
                    flags |-> d.flags]

cur == proc_cnt - 1
D(fd) == file_descriptor[cur][fd]

(* free_idx_fd: the first that is not busy. *)
FreeIdxFd(fd) == D(fd).flags # 1 /\ \A lower \in 2..fd-1 : D(lower).flags = 1

-----------------------------------------------------------------------------
(* read_data: what is copied and what is returned.  A read that ends in the *)
(* block it begins in is cut at the end of the file.  One that does not is  *)
(* copied in parts, and returns the bytes of the last part.                 *)
ByteOf(f, block, i) == IF block * Block + i < Length[f] THEN <<f, block * Block + i>>
                                                        ELSE <<f, None>>

FirstPart(offset)      == Block - (offset % Block)
CutNot(f, offset, nbytes) == nbytes   \* mutant: the length is not truncated
Cut(f, offset, nbytes) == IF nbytes + offset > Length[f] THEN Length[f] - offset ELSE nbytes
LastPart(rest)         == IF rest % Block = 0 THEN Block ELSE rest % Block

ReadDataSkips(f, offset, nbytes) ==   \* mutant: the second part from the first block
  LET first == FirstPart(offset)
      len   == Cut(f, offset, nbytes)
  IN  IF len <= first
        THEN [ret  |-> len,
              data |-> [i \in 1..len |-> ByteOf(f, offset \div Block, (offset % Block) + i - 1)]]
        ELSE [ret  |-> LastPart(nbytes - first),
              data |-> [i \in 1..nbytes |-> ByteOf(f, offset \div Block,
                                              (offset + i - 1) % Block)]]
ReadData(f, offset, nbytes) ==
  LET first == FirstPart(offset)
      len   == Cut(f, offset, nbytes)
  IN  IF len <= first
        THEN [ret  |-> len,
              data |-> [i \in 1..len |-> ByteOf(f, offset \div Block, (offset % Block) + i - 1)]]
        ELSE [ret  |-> LastPart(nbytes - first),
              data |-> [i \in 1..nbytes |->
                          IF i <= first
                            THEN ByteOf(f, offset \div Block, (offset % Block) + i - 1)
                            ELSE ByteOf(f, offset \div Block + 1 + (i - first - 1) \div Block,
                                           (i - first - 1) % Block)]]

(* dir_read: one entry, whatever nbytes is. *)
DirRead(offset) ==
  IF offset < Len(Names) THEN [ret |-> 1, data |-> <<Names[offset + 1]>>]
                         ELSE [ret |-> -1, data |-> <<>>]

(* A program asks for as much as lies in one block, or as the file still has:
   read_data does not cut the last part of a longer read.                   *)
MayRead(fd, nbytes) ==
  D(fd).ops = "file" =>
    \/ Cut(D(fd).inode_index, D(fd).file_position, nbytes) <= FirstPart(D(fd).file_position)
    \/ D(fd).file_position + nbytes <= Length[D(fd).inode_index]

(* What sys_read answers at once; a read of the clock waits.                 *)
SysReadUntilPast(fd, nbytes) ==       \* mutant: the directory ends an entry late
  IF D(fd).internal_ftype = 1 /\ D(fd).file_position > ACTUAL_MAX_DIRS
    THEN [ret |-> 0, data |-> <<>>]
  ELSE IF D(fd).flags = 0 THEN [ret |-> -1, data |-> <<>>]
  ELSE IF D(fd).ops = "file" THEN ReadData(D(fd).inode_index, D(fd).file_position, nbytes)
  ELSE IF D(fd).ops = "dir" THEN DirRead(D(fd).file_position)
  ELSE [ret |-> 0, data |-> <<>>]
SysRead(fd, nbytes) ==
  IF D(fd).internal_ftype = 1 /\ D(fd).file_position = ACTUAL_MAX_DIRS
    THEN [ret |-> 0, data |-> <<>>]
  ELSE IF D(fd).flags = 0 THEN [ret |-> -1, data |-> <<>>]
  ELSE IF D(fd).ops = "file" THEN ReadData(D(fd).inode_index, D(fd).file_position, nbytes)
  ELSE IF D(fd).ops = "dir" THEN DirRead(D(fd).file_position)
  ELSE [ret |-> 0, data |-> <<>>]

-----------------------------------------------------------------------------
Init == /\ proc_cnt = 1
        /\ file_descriptor = [p \in Pid |-> [fd \in Fd |-> Zeroed]]
        /\ flag = 0 /\ waiting = 0 /\ ticked = FALSE
        /\ mine = [p \in Pid |-> [fd \in Fd |-> None]]
        /\ got = [p \in Pid |-> [fd \in Fd |-> <<>>]]

SysOpen(e, fd) ==
  /\ waiting = 0 /\ FreeIdxFd(fd)
  /\ file_descriptor' = [file_descriptor EXCEPT ![cur][fd] = Opened(e)]
  /\ mine' = [mine EXCEPT ![cur][fd] = e]
  /\ got' = [got EXCEPT ![cur][fd] = <<>>]
  /\ UNCHANGED <<proc_cnt, rtc>>

(* A read that moves the descriptor on: by bytes in a file, by one in the   *)
(* directory.                                                               *)
SysReadData(fd, nbytes) ==
  LET r == SysRead(fd, nbytes)
  IN  /\ waiting = 0 /\ D(fd).ops # "rtc" /\ MayRead(fd, nbytes)
      /\ r.ret > 0
      /\ file_descriptor' = [file_descriptor EXCEPT ![cur][fd] =
                               At(@, D(fd).file_position
                                       + (IF D(fd).internal_ftype = 2 THEN r.ret ELSE 1))]
      /\ got' = [got EXCEPT ![cur][fd] = @ \o SubSeq(r.data, 1, r.ret)]
      /\ UNCHANGED <<proc_cnt, rtc, mine>>

(* rtc_read raises the flag and waits for rtc_handler to lower it.           *)
RtcReadNoFlag(fd) ==                  \* mutant: the flag is not raised
  /\ waiting = 0 /\ D(fd).flags = 1 /\ D(fd).ops = "rtc"
  /\ waiting' = fd /\ ticked' = FALSE
  /\ UNCHANGED <<proc_cnt, file_descriptor, flag, mine, got>>
RtcRead(fd) ==
  /\ waiting = 0 /\ D(fd).flags = 1 /\ D(fd).ops = "rtc"
  /\ flag' = 1 /\ waiting' = fd /\ ticked' = FALSE
  /\ UNCHANGED <<proc_cnt, file_descriptor, mine, got>>

RtcHandlerOnce ==                     \* mutant: the handler turns the flag over
  /\ flag' = 1 - flag /\ ticked' = (waiting # 0)
  /\ UNCHANGED <<proc_cnt, file_descriptor, waiting, mine, got>>
RtcHandler ==
  /\ flag' = 0 /\ ticked' = (waiting # 0)
  /\ UNCHANGED <<proc_cnt, file_descriptor, waiting, mine, got>>

RtcReadReturn ==
  /\ waiting # 0 /\ flag = 0
  /\ waiting' = 0 /\ ticked' = FALSE
  /\ file_descriptor' = [file_descriptor EXCEPT ![cur][waiting] = At(@, 0)]
  /\ UNCHANGED <<proc_cnt, flag, mine, got>>

SysClose(fd) ==
  /\ waiting = 0 /\ D(fd).flags # 0
  /\ file_descriptor' = [file_descriptor EXCEPT ![cur][fd] = Closed(@)]
  /\ mine' = [mine EXCEPT ![cur][fd] = None]
  /\ got' = [got EXCEPT ![cur][fd] = <<>>]
  /\ UNCHANGED <<proc_cnt, rtc>>

(* The descriptors of sys_execute, for the program at depth p. *)
Start(p) == /\ file_descriptor' =
                 [file_descriptor EXCEPT ![p] = [fd \in Fd |-> Initialized(@[fd])]]
            /\ mine' = [mine EXCEPT ![p] = [fd \in Fd |-> None]]
            /\ got' = [got EXCEPT ![p] = [fd \in Fd |-> <<>>]]

SysExecute ==
  /\ waiting = 0 /\ proc_cnt < Depth
  /\ proc_cnt' = proc_cnt + 1
  /\ Start(proc_cnt)
  /\ UNCHANGED rtc

(* A program ends by itself, by an exception or, while it waits, by Ctrl-C. *)
SysHaltOpen ==                        \* mutant: the parent's descriptors are closed
  /\ proc_cnt > 1
  /\ proc_cnt' = proc_cnt - 1
  /\ file_descriptor' = [file_descriptor EXCEPT ![cur-1] = [fd \in Fd |-> Closed(@[fd])]]
  /\ mine' = [mine EXCEPT ![cur] = [fd \in Fd |-> None]]
  /\ got' = [got EXCEPT ![cur] = [fd \in Fd |-> <<>>]]
  /\ waiting' = 0 /\ ticked' = FALSE
  /\ UNCHANGED flag
SysHalt ==
  /\ proc_cnt > 1
  /\ proc_cnt' = proc_cnt - 1
  /\ file_descriptor' = [file_descriptor EXCEPT ![cur] = [fd \in Fd |-> Closed(@[fd])]]
  /\ mine' = [mine EXCEPT ![cur] = [fd \in Fd |-> None]]
  /\ got' = [got EXCEPT ![cur] = [fd \in Fd |-> <<>>]]
  /\ waiting' = 0 /\ ticked' = FALSE
  /\ UNCHANGED flag

(* The first shell ends: sys_execute starts another in its place, and closes
   nothing before.                                                          *)
SysHaltFirst ==
  /\ proc_cnt = 1
  /\ Start(0)
  /\ waiting' = 0 /\ ticked' = FALSE
  /\ UNCHANGED <<proc_cnt, flag>>

-----------------------------------------------------------------------------
Next == \/ \E e \in Range(Names), fd \in Fd : SysOpen(e, fd)
        \/ \E fd \in Fd : \/ \E n \in Requests : SysReadData(fd, n)
                          \/ RtcRead(fd) \/ SysClose(fd)
        \/ RtcHandler \/ RtcReadReturn
        \/ SysExecute \/ SysHalt \/ SysHaltFirst

(* The clock ticks for ever, and a read that may return does. *)
Fairness == WF_vars(RtcHandler) /\ WF_vars(RtcReadReturn)

Spec == Init /\ [][Next]_vars /\ Fairness

-----------------------------------------------------------------------------
TypeOK == /\ proc_cnt \in 1..Depth
          /\ file_descriptor \in [Pid -> [Fd -> Descriptor]]
          /\ flag \in {0, 1} /\ waiting \in Fd \cup {0} /\ ticked \in BOOLEAN
          /\ mine \in [Pid -> [Fd -> Range(Names) \cup {None}]]

Whole(e) == IF e \in Regular THEN [i \in 1..Length[e] |-> <<e, i - 1>>] ELSE Names

(* Every running program's descriptors are exactly those it has opened and  *)
(* not closed, whatever the programs before it in this block and those it   *)
(* has started did with theirs, and each stands for what it opened.         *)
OwnDescriptors ==
  \A p \in 0..cur, fd \in Fd :
    LET d == file_descriptor[p][fd]
    IN  IF mine[p][fd] = None THEN d.flags = 0
                              ELSE d.flags = 1 /\ d.ops = Kind(mine[p][fd])

(* What a program has read through a descriptor is the beginning of what it *)
(* opened, without a gap or a repetition, however the reads were cut and    *)
(* whatever else ran in between.                                            *)
ReadsFollow ==
  \A p \in 0..cur, fd \in Fd :
    mine[p][fd] \notin {None, "rtc"} => IsPrefix(got[p][fd], Whole(mine[p][fd]))

(* A read answers 0 exactly when everything has been read: a program that   *)
(* reads until 0 neither stops early nor runs on, at the end of a block, of  *)
(* the file and of the directory.                                            *)
EndIsEnd ==
  \A fd \in Fd, n \in Requests :
    mine[cur][fd] \notin {None, "rtc"} /\ MayRead(fd, n) =>
      /\ SysRead(fd, n).ret >= 0
      /\ SysRead(fd, n).ret = 0 <=> Len(got[cur][fd]) = Len(Whole(mine[cur][fd]))

(* A read through a descriptor that the program has not open fails.         *)
UnopenedFails ==
  \A fd \in Fd, n \in Requests : mine[cur][fd] = None => SysRead(fd, n).ret = -1

(* A read of the clock returns only after a tick that came after the call,  *)
(* and does return, unless the program ends.                                *)
ClockAnswers == /\ [](waiting # 0 /\ flag = 0 => ticked)
                /\ waiting # 0 ~> waiting = 0
=============================================================================
