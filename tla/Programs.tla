------------------------------ MODULE Programs ------------------------------
(***************************************************************************)
(* User programs on the system calls of Files: shell, cat, ls, grep and     *)
(* syserr (syscalls/ece391*.c) of one terminal, and sys_getargs, sys_vidmap *)
(* and the checks of the calls' arguments (syscall.c, syscall_linkage.S).   *)
(* Every program below the top one is a shell that waits in sys_execute.    *)
(* A step is a system call with the computing up to the next one.  The      *)
(* terminal's side of reads and writes is left to Keyboard and Console.     *)
(*                                                                         *)
(* out and seen are the reader's side: what cat, ls and grep have written,  *)
(* and the pieces of its file that grep has searched.                       *)
(***************************************************************************)
EXTENDS Files

CONSTANTS
  Texts,       (* what may be in the regular files, a character for each byte *)
  BUFSIZE,     (* of cat and grep: 1024                                       *)
  Spelling,    (* what may follow the blank in a command, with its characters *)
  NUL, LF

(* The names that err_open tries. *)
Misspelt == {"helloo", "shel", ""}

(* The directory holds itself, and a buffer is not longer than a block.    *)
ASSUME ProgramsAssumption ==
  /\ BUFSIZE \in Nat \ {0} /\ BUFSIZE <= Block /\ HighFd >= 2
  /\ NUL # LF
  /\ "dir" \in Range(Names) /\ Misspelt \cap Range(Names) = {}
  /\ None \notin DOMAIN Spelling
  /\ \A t \in Texts, f \in Regular : t[f] \in Seq(Range(t[f])) /\ Len(t[f]) = Length[f]

VARIABLES
  text,                    (* what is in the files                            *)
  current_command,         (* what follows its blank; shared by all terminals *)
  prog, at, arg, status,   (* the program on top, its place and argument      *)
  dir, file, name,         (* descriptors, and the file that grep looks at    *)
  data, last, junk,        (* grep's buffer, and what the stack held there    *)
  todo, i, cnt, failed,    (* syserr: tests to do, loop, failed opens         *)
  out, seen

inGrep == <<data, last, junk, name>>
inTest == <<todo, i, cnt, failed>>
user   == <<prog, at, arg, status, dir, file, inGrep, inTest, out, seen>>
all    == <<vars, text, current_command, user>>

Programs  == {"shell", "cat", "ls", "grep", "syserr"}
Arguments == DOMAIN Spelling \cup {None}

-----------------------------------------------------------------------------
(* What the calls answer to any descriptor, pointer and number.  31 bytes   *)
(* are asked for.                                                           *)
ReadAnswer(fd) == IF fd \in Fd THEN SysRead(fd, 31).ret ELSE -1

WriteAnswer(fd) == IF fd = 1 THEN 31
                   ELSE IF fd \in Fd /\ D(fd).flags # 0 /\ D(fd).ops = "rtc" THEN 4 ELSE -1

CloseAnswerBusy(fd) == IF fd \in Fd THEN 0 ELSE -1   \* mutant: closes what is not open
CloseAnswer(fd) == IF fd \in Fd /\ D(fd).flags # 0 THEN 0 ELSE -1

OpenAnswer(e) == IF e \in Range(Names) /\ \E fd \in Fd : FreeIdxFd(fd) THEN 0 ELSE -1

(* Addresses in MB: the program's page is that from 128 to 132. *)
VidmapAnswer(mb) == IF mb < 128 \/ mb > 132 THEN -1 ELSE 0

(* sys_call_handler; set_handler and sigreturn are calls 9 and 10. *)
CallFails(number) == number < 1 \/ number >= 11 \/ number \in {9, 10}

-----------------------------------------------------------------------------
(* The steps that programs share. *)
Runs(p, place) == prog = p /\ at = place /\ waiting = 0

Done(s) == at' = "done" /\ status' = s

GetArgs(p, place) ==
  /\ Runs(p, "start")
  /\ IF current_command = None THEN Done(3) /\ UNCHANGED arg
                                   ELSE at' = place /\ arg' = current_command /\ UNCHANGED status
  /\ UNCHANGED <<vars, text, current_command, prog, dir, file, inGrep, inTest, out, seen>>

(* cat's open finds no such file.  Those of grep and ls cannot fail: the    *)
(* names come from the directory, and a descriptor is free.                *)
OpenFails ==
  /\ Runs("cat", "open") /\ OpenAnswer(arg) = -1
  /\ Done(2)
  /\ UNCHANGED <<vars, text, current_command, prog, arg, dir, file, inGrep, inTest, out, seen>>

(* What sys_execute leaves of a program's memory. *)
Fresh(p) == /\ prog' = p /\ at' = "start" /\ arg' = None /\ status' = 0
            /\ dir' = 0 /\ file' = 0 /\ name' = None
            /\ data' = <<>> /\ last' = 0 /\ junk' = NUL
            /\ todo' = <<>> /\ i' = 0 /\ cnt' = 0 /\ failed' = FALSE
            /\ out' = <<>> /\ seen' = <<>>
            /\ UNCHANGED text

-----------------------------------------------------------------------------
ProgramsInit == /\ Init
         /\ text \in Texts /\ current_command = None
         /\ prog = "shell" /\ at = "start" /\ arg = None /\ status = 0
         /\ dir = 0 /\ file = 0 /\ name = None
         /\ data = <<>> /\ last = 0 /\ junk = NUL
         /\ todo = <<>> /\ i = 0 /\ cnt = 0 /\ failed = FALSE
         /\ out = <<>> /\ seen = <<>>

(* ece391shell.c: a command is typed and executed, or it is "exit". *)
ShellExecutes(p, a) ==
  /\ Runs("shell", "start") /\ SysExecute
  /\ current_command' = a
  /\ Fresh(p)

ShellExits ==
  /\ Runs("shell", "start")
  /\ IF proc_cnt = 1 THEN SysHaltFirst /\ current_command' = None
                     ELSE SysHalt /\ UNCHANGED current_command
  /\ Fresh("shell")

ProgramEnds ==
  /\ prog # "shell" /\ at = "done" /\ SysHalt
  /\ Fresh("shell") /\ UNCHANGED current_command

(* Ctrl-C or an exception ends the program wherever it is. *)
ProgramKilled ==
  /\ prog # "shell" /\ at # "done" /\ SysHalt
  /\ Fresh("shell") /\ UNCHANGED current_command

(* A shell of another terminal executes a command of its own. *)
OtherTerminal(a) ==
  /\ current_command' = a
  /\ UNCHANGED <<vars, text, user>>

-----------------------------------------------------------------------------
(* ece391cat.c *)
CatOpens(fd) ==
  /\ Runs("cat", "open") /\ OpenAnswer(arg) = 0 /\ SysOpen(arg, fd)
  /\ file' = fd /\ at' = "read"
  /\ UNCHANGED <<text, current_command, prog, arg, status, dir, inGrep, inTest, out, seen>>

CatWrites ==
  LET r == SysRead(file, BUFSIZE)
  IN  /\ Runs("cat", "read") /\ D(file).ops # "rtc"
      /\ IF r.ret > 0
           THEN /\ SysReadData(file, BUFSIZE)
                /\ out' = out \o SubSeq(r.data, 1, r.ret)
                /\ UNCHANGED <<at, status>>
           ELSE /\ Done(IF r.ret = 0 THEN 0 ELSE 3)
                /\ UNCHANGED <<vars, out>>
      /\ UNCHANGED <<text, current_command, prog, arg, dir, file, inGrep, inTest, seen>>

(* cat and grep read the clock, which answers 0: cat has come to the end. *)
ReadsClock ==
  /\ prog \in {"cat", "grep"} /\ at = "read" /\ RtcRead(file)
  /\ UNCHANGED <<text, current_command, user>>

CatTold ==
  /\ prog = "cat" /\ RtcReadReturn /\ Done(0)
  /\ UNCHANGED <<text, current_command, prog, arg, dir, file, inGrep, inTest, out, seen>>

-----------------------------------------------------------------------------
(* ece391ls.c, and the directory of ece391grep.c *)
OpensDir(fd) ==
  /\ Runs("ls", "start") \/ Runs("grep", "opendir")
  /\ SysOpen("dir", fd)
  /\ dir' = fd /\ at' = "next"
  /\ UNCHANGED <<text, current_command, prog, arg, status, file, inGrep, inTest, out, seen>>

NextEntry ==
  LET r == SysRead(dir, 32)
  IN  /\ at = "next" /\ waiting = 0
      /\ IF r.ret > 0
           THEN /\ SysReadData(dir, 32)
                /\ out' = IF prog = "ls" THEN out \o r.data ELSE out
                /\ name' = r.data[1]
                /\ at' = IF prog = "ls" \/ r.data[1] = "dir" THEN "next" ELSE "open"
                /\ UNCHANGED status
           ELSE /\ Done(IF r.ret = 0 THEN 0 ELSE 3)
                /\ UNCHANGED <<vars, out, name>>
      /\ UNCHANGED <<text, current_command, prog, arg, dir, file, data, last, junk, inTest, seen>>

-----------------------------------------------------------------------------
(* do_one_file of ece391grep.c.  data is on the stack, with what the stack   *)
(* holds there.                                                             *)
Char(b) == text[b[1]][b[2] + 1]

GrepOpens(fd) ==
  /\ Runs("grep", "open") /\ SysOpen(name, fd)
  /\ file' = fd /\ last' = 0 /\ seen' = <<>> /\ at' = "read"
  /\ junk' \in {NUL, LF} /\ data' = [b \in 1..BUFSIZE+1 |-> junk']
  /\ UNCHANGED <<text, current_command, prog, arg, status, dir, name, inTest, out>>

LinesOf(t) ==
  LET lines[k \in 0..Len(t)] ==
        IF k = 0 THEN <<<<>>>>
        ELSE IF t[k] = LF THEN Append(lines[k-1], <<>>)
        ELSE [lines[k-1] EXCEPT ![Len(lines[k-1])] = Append(@, t[k])]
  IN  lines[Len(t)]

(* The lines that are searched of the n characters in d, and what is left:  *)
(* a line that is not complete and follows another one.                     *)
LinesForgetful(d, n, more) ==         \* mutant: what is not complete is searched as it is
  LET lines == LinesOf(SubSeq(d, 1, n))
  IN  IF Len(lines) > 1 /\ Last(lines) = <<>>
        THEN [found |-> Front(lines), left |-> <<>>]
      ELSE [found |-> lines, left |-> <<>>]
LinesDropping(d, n, more) ==          \* mutant: what is left is not copied down
  LET lines == LinesOf(SubSeq(d, 1, n))
  IN  IF Len(lines) > 1 /\ (Last(lines) = <<>> \/ (more /\ d[n + 1] # LF))
        THEN [found |-> Front(lines), left |-> <<>>]
      ELSE [found |-> lines, left |-> <<>>]
Lines(d, n, more) ==
  LET lines == LinesOf(SubSeq(d, 1, n))
  IN  IF Len(lines) > 1 /\ (Last(lines) = <<>> \/ (more /\ d[n + 1] # LF))
        THEN [found |-> Front(lines), left |-> Last(lines)]
      ELSE [found |-> lines, left |-> <<>>]

Has(piece) == \E b \in 1..Len(piece) : IsPrefix(Spelling[arg], SubSeq(piece, b, Len(piece)))

(* The elements of s that are in S, in their order. *)
Kept(s, S) ==
  LET kept[k \in 0..Len(s)] == IF k = 0 THEN <<>>
                               ELSE IF s[k] \in S THEN Append(kept[k-1], s[k]) ELSE kept[k-1]
  IN  kept[Len(s)]

Hits(lines) == Kept(lines, {line \in Range(lines) : Has(line)})

Named(f, lines) == [p \in 1..Len(lines) |-> <<f, lines[p]>>]

(* d with the NULs that end its lines. *)
Ended(d, n) == [b \in 1..BUFSIZE+1 |-> IF \/ b <= n /\ d[b] = LF
                                          \/ b = n + 1 /\ (n = 0 \/ d[n] # LF)
                                         THEN NUL ELSE d[b]]

(* ret characters of those read now follow the last ones.  What is left is   *)
(* copied to the beginning of the buffer.                                   *)
Searched(read, ret) ==
  \E d \in {SubSeq(data, 1, last) \o [b \in 1..Len(read) |-> Char(read[b])]
              \o SubSeq(data, last + Len(read) + 1, BUFSIZE + 1)} :
  \E r \in {Lines(d, last + ret, ret # 0)} :
    /\ last' = Len(r.left)
    /\ data' = IF r.left = <<>> THEN Ended(d, last + ret)
               ELSE r.left \o <<NUL>>
                      \o SubSeq(Ended(d, last + ret), Len(r.left) + 2, BUFSIZE + 1)
    /\ seen' = seen \o r.found
    /\ out' = out \o Named(name, Hits(r.found))
    /\ at' = IF ret = 0 THEN "close" ELSE "read"

GrepReads ==
  LET r == SysRead(file, BUFSIZE - last)
  IN  /\ Runs("grep", "read") /\ D(file).ops # "rtc"
      /\ IF r.ret > 0 THEN SysReadData(file, BUFSIZE - last) ELSE UNCHANGED vars
      /\ IF r.ret = -1 THEN Done(3) /\ UNCHANGED <<data, last, out, seen>>
                       ELSE Searched(r.data, r.ret) /\ UNCHANGED status
      /\ UNCHANGED <<text, current_command, prog, arg, dir, file, name, junk, inTest>>

GrepTold ==
  /\ prog = "grep" /\ RtcReadReturn /\ Searched(<<>>, 0)
  /\ UNCHANGED <<text, current_command, prog, arg, status, dir, file, name, junk, inTest>>

GrepKeepsOpen ==                      \* mutant: the file is not closed
  /\ Runs("grep", "close") /\ at' = "next"
  /\ UNCHANGED <<vars, text, current_command, prog, arg, status, dir, file, inGrep, inTest, out, seen>>
GrepCloses ==
  /\ Runs("grep", "close") /\ SysClose(file)
  /\ at' = "next"
  /\ UNCHANGED <<text, current_command, prog, arg, status, dir, file, inGrep, inTest, out, seen>>

-----------------------------------------------------------------------------
(* ece391syserr.c: the tests 1 to 8, or all of them.  A test passes when     *)
(* the calls it makes are answered as it expects.                           *)
FailsOn(fd) == ReadAnswer(fd) = -1 /\ WriteAnswer(fd) = -1 /\ CloseAnswer(fd) = -1

ErrNegFd      == FailsOn(-1)
ErrBigFd      == FailsOn(HighFd + 1)
ErrOpen       == \A e \in Misspelt : OpenAnswer(e) = -1
ErrUnopened   == /\ \A fd \in 0..HighFd : CloseAnswer(fd) = -1
                 /\ \A fd \in 2..HighFd : ReadAnswer(fd) = -1 /\ WriteAnswer(fd) = -1
ErrVidmap     == VidmapAnswer(0) = -1 /\ VidmapAnswer(4) = -1
ErrStdinOut   == WriteAnswer(0) = -1 /\ ReadAnswer(1) = -1
ErrSyscallNum == CallFails(1073741823) /\ CallFails(-1073741823) /\ CallFails(0)

AsExpected(test) == CASE test = 1 -> ErrNegFd     [] test = 2 -> ErrBigFd
                      [] test = 4 -> ErrOpen      [] test = 5 -> ErrUnopened
                      [] test = 6 -> ErrVidmap    [] test = 7 -> ErrStdinOut
                      [] test = 8 -> ErrSyscallNum

Selects(select) ==
  /\ Runs("syserr", "start")
  /\ todo' = IF select = 0 THEN [k \in 1..8 |-> k] ELSE IF select \in 1..8 THEN <<select>> ELSE <<>>
  /\ at' = "test"
  /\ UNCHANGED <<vars, text, current_command, prog, arg, status, dir, file, inGrep, i, cnt, failed, out, seen>>

Test ==
  /\ Runs("syserr", "test") /\ todo # <<>> /\ Head(todo) # 3
  /\ failed' = (failed \/ ~AsExpected(Head(todo)))
  /\ todo' = Tail(todo)
  /\ UNCHANGED <<vars, text, current_command, prog, at, arg, status, dir, file, inGrep, i, cnt, out, seen>>

(* err_open_lots opens HighFd times, one more than there are descriptors, and
   closes them all.                                                         *)
OpensLots ==
  /\ Runs("syserr", "test") /\ todo # <<>> /\ Head(todo) = 3 /\ i < HighFd
  /\ i' = i + 1
  /\ IF OpenAnswer("dir") = -1 THEN cnt' = cnt + 1 /\ UNCHANGED vars
                               ELSE cnt' = cnt /\ \E fd \in Fd : SysOpen("dir", fd)
  /\ at' = IF i' = HighFd THEN "closing" ELSE "test"
  /\ UNCHANGED <<text, current_command, prog, arg, status, dir, file, inGrep, todo, failed, out, seen>>

ClosesLots ==
  LET fd == i - HighFd + 2
  IN  /\ Runs("syserr", "closing")
      /\ IF CloseAnswer(fd) = 0 THEN SysClose(fd) ELSE UNCHANGED vars
      /\ IF fd < HighFd
           THEN i' = i + 1 /\ UNCHANGED <<at, todo, cnt, failed>>
           ELSE /\ i' = 0 /\ cnt' = 0 /\ at' = "test" /\ todo' = Tail(todo)
                /\ failed' = (failed \/ cnt # 1)
      /\ UNCHANGED <<text, current_command, prog, arg, status, dir, file, inGrep, out, seen>>

TestsDone ==
  /\ Runs("syserr", "test") /\ todo = <<>>
  /\ Done(IF failed THEN 2 ELSE 0)
  /\ UNCHANGED <<vars, text, current_command, prog, arg, dir, file, inGrep, inTest, out, seen>>

-----------------------------------------------------------------------------
Tick == RtcHandler /\ UNCHANGED <<text, current_command, user>>

ProgramStep ==
  \/ GetArgs("cat", "open") \/ GetArgs("grep", "opendir")
  \/ OpenFails
  \/ \E fd \in Fd : CatOpens(fd) \/ OpensDir(fd) \/ GrepOpens(fd)
  \/ CatWrites \/ ReadsClock \/ CatTold
  \/ NextEntry \/ GrepReads \/ GrepTold \/ GrepCloses
  \/ Test \/ OpensLots \/ ClosesLots \/ TestsDone
  \/ ProgramEnds

UserSelects == \E select \in 0..9 : Selects(select)

ProgramsNext ==
  \/ ProgramStep \/ UserSelects
  \/ \E p \in Programs, a \in Arguments : ShellExecutes(p, a)
  \/ ShellExits \/ ProgramKilled \/ Tick
  \/ \E a \in Arguments : OtherTerminal(a)

(* The clock ticks, and a program that can go on gets its turn.  Nobody     *)
(* must answer syserr, or type a command.                                   *)
ProgramsSpec ==
  /\ ProgramsInit /\ [][ProgramsNext]_all
  /\ WF_all(Tick) /\ WF_all(ProgramStep)

-----------------------------------------------------------------------------
(* cat and grep read on only where read_data answers with what there is:    *)
(* whatever earlier reads returned, none runs past the end of the file.  A   *)
(* file whose last block holds less than grep's requests reach over is left *)
(* out: there read_data does run past it.                                   *)
LongTail(f) == Length[f] <= Block \/ Length[f] % Block = 0 \/ Length[f] % Block >= BUFSIZE - 1

ReadsInBounds ==
  prog \in {"cat", "grep"} /\ at = "read" /\ D(file).ops = "file"
    /\ LongTail(D(file).inode_index) =>
      /\ MayRead(file, IF prog = "cat" THEN BUFSIZE ELSE BUFSIZE - last)
      /\ D(file).file_position <= Length[D(file).inode_index]

(* A program that ends with status 0 has done all its work: cat has written *)
(* every byte of its file once and in order, ls each name; and it ends with *)
(* another status only if its argument was missing or names no file.  The   *)
(* tests of syserr always pass, whatever ran in its control block before.   *)
DoesItsWork ==
  at = "done" =>
    /\ status = 0 /\ prog = "cat" => out = IF arg = "rtc" THEN <<>> ELSE Whole(arg)
    /\ status = 0 /\ prog = "ls" => out = Names
    /\ status # 0 => CASE prog = "cat"  -> arg \notin Range(Names)
                       [] prog = "grep" -> arg = None
                       [] OTHER         -> FALSE

InText == at = "close" /\ name \in Regular

(* A text but for its line ends.                                            *)
WithoutLF(t) == Kept(t, Range(t) \ {LF})

(* grep has searched every character of a file once and in order, wherever  *)
(* its reads were cut and however lines were carried over.                  *)
SearchesAll == InText => FlattenSeq(seen) = WithoutLF(text[name])

(* In a file of one block with lines that fit into the buffer, grep finds   *)
(* exactly the lines that hold the pattern (if the stack holds no LF behind *)
(* the buffer, which do_one_file reads before it writes it).                *)
FindsLines ==
  InText /\ Length[name] <= Block /\ junk # LF
    /\ (\A line \in Range(LinesOf(text[name])) : Len(line) <= BUFSIZE)
  => Kept(out, {o \in Range(out) : o[1] = name}) = Named(name, Hits(LinesOf(text[name])))

(* A program that is started comes to its end, or is syserr that waits for  *)
(* the number of a test: reads until the end do end, where no file's last   *)
(* block is shorter than grep's requests reach over.                        *)
ProgramsEnd ==
  prog # "shell" /\ (\A f \in Regular : LongTail(f))
    ~> prog = "shell" \/ (prog = "syserr" /\ at = "start")
=============================================================================
