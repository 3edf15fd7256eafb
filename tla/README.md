# Models of the ECE391 kernel and of the Tux maze game

The repository holds two programs. `MP3_FinalProj_Kernel` is a small x86 kernel with
three terminals, up to six programs, a read-only file system, a real-time clock and ten
system calls, and the user programs that run on it. `MP2` is a maze game for Linux with a line discipline for the *Tux
controller*, a game pad on a serial line. This directory holds TLA+ modules of the parts
of both in which state is shared between system calls, interrupts and threads, the TLC
configurations that check them, and TLAPS proofs of what can be shown for every size.

Paths below are relative to `src/`; `K/` is `MP3_FinalProj_Kernel/student-distrib/`.

## 1. Inventory

| Part | State it keeps | Operations | Talks to |
|---|---|---|---|
| process core: `K/syscall.c`, `pit.c`, `naman_page.c`, `terminal.h` | `pidVal`, PCBs, the terminals' process lists, `tss.esp0`, the 128MB page, boot counters | `sys_execute`, `sys_halt`, PIT handler, `switch_terminal` | keyboard (chords call it), file system (loads programs) |
| keyboard and line input: `K/keyboard.c`, `terminal.c` | modifier flags, `keyb_buff`, `kbb_ind`, `enter_flag`, a saved buffer per terminal | the handler, `terminal_read` | process core, console |
| descriptors and file system: `K/syscall.c`, `file_system_driver.c` | eight descriptors per PCB; the image is read-only | `sys_open/read/write/close`, `read_data`, `dir_read` | process core, clock |
| real-time clock: `K/rtc.c` | one `flag`, the chip's register C and rate | handler, `rtc_read`, `rtc_write` | descriptors, 8259 |
| console: `K/lib.c`, `terminal_write` | `screen_x`, `screen_y`, video memory, three backing pages, the CRT controller's cursor | `putc`, `background_putc`, `scroll_down`, `clear` | keyboard, process core |
| library: `K/lib.c` | none | `printf`, `itoa`, `memcpy`, `memset`, `memmove`, string functions | all |
| interrupts and boot: `K/i8259.c`, `kernel.c`, `idt.c`, `naman_page.c` | the controllers' requests, service and masks, the interrupt flag, IDT, page tables | `enable_irq`, `send_eoi`, the initialisations, entry to and return from handlers | all devices |
| user programs: `K/../syscalls/ece391*.c` | buffers on their stacks, `current_command` in the kernel | shell, cat, ls, grep, syserr | system calls |
| Tux line discipline: `MP2/module/tuxctl-ld.c` | a transmit and a receive ring, two saved bytes | `put`, `get`, `write_wakeup`, `rcv_buf`, `data_callback` | serial driver, ioctls |
| Tux ioctls: `MP2/module/tuxctl-ioctl.c` | `ack_flag`, `previous_LED`, `TUX_BUTTON` | `tuxctl_ioctl`, `tuxctl_handle_packet` | line discipline, game |
| maze: `MP2/maze.c` | the maze's squares, fruits, exit | `make_maze`, `unveil_space`, `check_for_fruit`, ... | game, graphics |
| game threads: `MP2/mazegame.c` | player, direction, move count, flags, a mutex, a condition | keyboard, Tux and RTC thread | maze, graphics, ioctls |
| graphics: `MP2/modex.c`, `text.c` | the logical view window in the build buffer | `set_view_window`, `show_screen`, `draw_*` | maze, game |

What is hard in them:

* "The current process" is five variables that different functions update. Interrupts
  are enabled twice on the way to `sys_execute`, switching a terminal moves only some
  of the five, and a process number is *counted*, so numbers depend on the order in
  which programs of different terminals end. Right means: each system call acts on the
  program that makes it, and each terminal is a stack of programs (`Sessions`).
* Keys come between the steps of `terminal_read`, which shares its buffer with the
  handler and with `switch_terminal`. Right means: a read delivers the line the user sees.
* Descriptors outlive programs in their PCB, and three places reset different fields.
  Files are read in pieces across blocks. Right means: the pieces follow one another.
* One pair `screen_x`, `screen_y` serves three terminals, next to a cursor in the CRT
  controller that some functions move and others do not. Right means: every terminal,
  shown or not, holds the last rows of its own text.
* Two of the three interrupt handlers may never return: they go on in another program and
  leave their frame behind. `rtc_handler` enables interrupts before it acknowledges
  (`rtc.c:28`), and `rtc_open` enables them in the middle of the boot (`rtc.c:94`).
  Right means: what is in service will be acknowledged, and what is requested is served.
* The programs read until they are told 0, and `grep` carries an unfinished line over to the
  next read while `read_data` cuts the file at its blocks. Right means: all of the file
  is written or searched, once and in order, and the program ends.
* The Tux code runs in three contexts (ioctl, receive interrupt, write wakeup) with
  one lock that covers only the rings. The line loses bytes; the controller is reset
  while commands are under way; chunks end anywhere and may be longer than what is read of them. Right means: commands arrive whole, the LEDs end as the
  program asked, and every undamaged packet is handled once, in order.
* The game's threads share a direction and flags while the player is between squares.
  Right means: the player stays on the corridors, and all threads end.
* The maze is random, and everything else relies on its shape. Right means: every square
  can be reached.
* The picture is never drawn anew: each step draws what it changes, in a buffer that is
  copied over itself now and then. Right means: the window shows the maze as it is.

`PROJECT.json` lists the single hazards with their lines and the properties that cover them.

## 2. Modules

| Module | Models | Kind |
|---|---|---|
| `Sessions` | what the kernel promises: every terminal a stack of programs | abstract specification |
| `Processes` | the process core; `Promised` instantiates `Sessions` | specification |
| `ProcessesProofs` | types, for every user; an orderly user's numbers, pages and frames, and the refinement of `Sessions` | proofs |
| `Keyboard` | modifiers, line buffer, terminal switch, `terminal_read` | specification |
| `KeyboardProofs` | the buffer and what a read delivers | proofs |
| `Files` | descriptors, files, directory, clock | specification |
| `FilesProofs` | whose descriptors; that reads follow and end; that the programs do their work | proofs |
| `MCFiles` | a small image for TLC | model |
| `Programs` | shell, cat, ls, grep, syserr on the calls of `Files` | specification, composed with `Files` |
| `MCPrograms` | files with lines for TLC | model |
| `Lib` | `printf`'s numbers, moves of memory, strings | operators, used by `Console` |
| `Console` | cursor, screen and backing pages, `terminal_write`, the echo | specification |
| `ConsoleProofs` | that every terminal shows its text and goes on behind it, for every screen | proofs |
| `MCConsole` | a few texts for TLC | model |
| `Interrupts` | the 8259s, the boot, the three handlers and how they nest | specification |
| `InterruptsProofs` | acknowledgement and readiness for every depth of nesting | proofs |
| `TuxSend` | ioctls, `put`, `write_wakeup` and the contexts that run them | specification |
| `TuxReceive` | `rcv_buf`, `get`, `data_callback` on the ring | specification |
| `TuxProofs` | of both: that commands arrive whole and the LEDs follow; that undamaged packets are handled at once, in order, for every size and chunk | proofs |
| `Maze` | `make_maze` | variables and actions, used by `Level` |
| `View` | the build buffer and the window of `modex.c` | operators on views, used by `Level` |
| `Level` | a level as `rtc_thread` plays it: maze, player, mist, fruits, picture | specification |
| `LevelProofs` | that every maze is connected, and that picture and display are true, for every size | proofs |
| `Game` | the game's three threads and `main` | specification |
| `GameProofs` | where the player may be and may stop, for every maze | proofs |
| `MCGame` | a small maze for TLC | model |

Every specification has one action per function, handler or interruptible step of it.
Definitions whose comment says *mutant* are the slips of the mutation runs: none is used
by a specification, each stands in front of the definition it varies, and each breaks the
property named for it in `PROJECT.json`.

**Processes.** Variables are the code's own; `page` is the process whose memory the 128MB
page maps, `esp0` the one whose kernel stack `tss.esp0` names, `regs` the one whose
registers the processor holds, `frame` what a PCB's saved stack pointer points at.
`sys_execute`, `sys_halt` and `switch_terminal` run with interrupts disabled and are one
step each; `status` holds the two places where an interrupt may come in. Where
`sys_halt` would follow a PCB nobody wrote or a frame that has been overwritten
(`HaltDefined`), what follows is not modelled; `NeverWild` says when it cannot happen.
`Freedoms` names what a user may do beyond orderly use; `{}` is a user who waits for the
boot, starts what exists, and switches between first shells. `sys_halt` and Ctrl-C test nothing,
and end what `pidVal` names; so an orderly user ends a terminal's *first* shell only where a program
was started last (`used`, which the kernel does not keep). Any other program may be ended
whenever it runs. That this ends the program in front is what `SessionsKept` proves, and no guard on
`pidVal` says so. What goes wrong with each of the freedoms is in section 4.

**Keyboard.** `held`, `caps` and `line` are the user's side. The handler is one step, each
of the steps of `terminal_read` another. A scan code is a small or capital letter, a digit
(the keys without a bound), newline, backspace or a chord. `keyb_buff` goes on past its
`Size`, as memory does: the digits and Enter write there. Only the handler is assumed to
touch those bytes. `Freedoms = {}` is a user who types while a read waits, leaves a line
only before its first character, moves no other modifier while Ctrl is down and holds one Shift
at a time: both Shift keys set and clear the one flag.

**Files.** The programs of one terminal as a stack; the top one makes any calls. The block
in use is that of the top program: `Processes` shows when `get_cur_pcb` returns it. A byte
is its file and place, so gaps, repetitions and bytes of another file are told apart.
A call that fails changes nothing and is no step. `MayRead` leaves out one kind of call:
a read that leaves its first block *and* in which the file ends. `read_data` never cuts
the last part of such a read (`file_system_driver.c:130-138`), returns bytes behind the end
and leaves the position there, after which the wrapped length (`:110`) keeps the end from
ever being met. Reads that only cross a block are in: they come back short, and
`ReadsFollow` shows that position and data still agree. Section 4 has an example. A name in the directory is one unit: `dir_read` (`file_system_driver.c:258-263`) copies
all of it whatever `nbytes` is, where `syscall.c:232` says "as much as fits, or all 32 bytes";
a program with a smaller buffer than 32 bytes would have what lies behind it overwritten. `ls` and `grep` have
larger ones. `ACTUAL_MAX_DIRS` must be the number of entries, as it is in `filesys_img` (17).

**Programs.** `Files` with the real programs on top instead of any calls. A step is a
system call with the computing up to the next one. `out` and `seen` are the reader's side:
what has been written, and the pieces `grep` has searched. `junk` is what the stack holds
where `grep`'s buffer is: `do_one_file` looks at `data[BUFSIZE]` before it has written it,
so what is there is a choice. A program may be killed (Ctrl-C, an exception) at any step, and
another terminal may overwrite `current_command`, which all share (`syscall.c:495-508`).
`ReadsInBounds` is why `MayRead` of `Files` costs nothing here: `cat` reads 1024 bytes at
multiples of 1024; `grep` asks for less after it has carried a line over, and stays inside
because its file is not `LongTail`. A file of a block and a few bytes would
take it past the end, where `syscall.c:231-232` has reads stop; the image has no such file (section 4). `syserr` waits for its user, who chooses a test (`UserSelects`).
`ProgramsAssumption` names what the constants owe to the code: the directory is one of its
own entries (`.`, which `ls` prints), `grep`'s buffer is no larger than a block, and there
is a descriptor above stdin and stdout. NULs in files, the opens of `ls` and `grep` that cannot fail, and terminal input are
left out.

**Lib, Console.** `Lib` has the loops of `lib.c` as operators on small words and memories:
`itoa` and `strrev`, the padded `%#x`, `memset` and `memcpy` in bytes, words and bytes, the
direction of `memmove`. In `Console`, `con` is what `lib.c` keeps: the pages (0 is video
memory), `x`, `y` and the controller's `pos`. `told` is the reader's side: the rows each
terminal has been given. `terminal_write` is one step for each character, the keyboard's
handler one step. Switching saves `pos`, not `x` and `y`, as `naman_page.c` does.
Characters outside of the printable ones and colours are left out. Only letters and tabs stop at
`KeybMax` characters; the number row and the backslash (`Unbounded`) have no test, and `LineMax` bounds
the line that an orderly user makes of them. The bytes such a line writes behind `keyb_buff` are
taken to be nobody else's.

**Interrupts.** `irr`, `isr` and `mask` are the controllers'; `regC` holds the clock's line;
`frames` are the handlers on the stacks and `base` what they have interrupted. A handler
runs through the places where it raises the interrupt flag, acknowledges or leaves. `Leave`
is going on in another program: all frames are gone. `lost` is history: the clock's
handler was left between `rtc.c:28`, which enables interrupts, and its acknowledgement.
Then IRQ 8 stays in service for ever; the properties state that exception, and nothing
else. An exception other than #DE, #GP and #PF loops with interrupts as they
were (trap gates), so the others go on being served. Ctrl-C during the boot is left out,
as there is no program yet. A key before `scan_codes` is filled only echoes wrongly.

**TuxSend.** `ctx[c]` is the place of context `c` in the code with its locals. With
`Smp = FALSE` interrupts nest, as on the one processor the game was written for; with
`Smp = TRUE` contexts interleave. The ring is a bounded sequence. A packet is abstracted:
`ENABLE` is `MTCP_BIOC_ON` with `MTCP_LED_USR`, and `LED_SET` has one byte of data for its
five. The serial driver and the controller are external, modelled from how the code uses
them and from `mtcp.h`. The program is paced (`MayCall`): the game makes one LED call per
32 Hz tick, and the twelve bytes of one are on the line for about 12 ms. The user is, too
(`MayReset`): RESET is pressed when at most `Quiet` bytes are on the line, which may be the middle of a command,
and not again before the host has answered the last one. Freedom `flood` lifts both pacings.
`asked` is what the driver took last, `called` what it was called with: a call made while `ack_flag` is 1
is dropped and returns 0 (`DropLed`). A controller that gets data for an opcode may lock up (`"dead"`), as
`mtcp.h:207-209` has it of one whose debug lock-up nobody turns off; it acknowledges nothing
any more. The store of `previous_LED` and the building of the packet are one step.

**TuxReceive.** The ring with its real indices; one arrival runs `rcv_buf` and
`data_callback` in one interrupt, for a chunk of any length. `ok`, `due` and `chunks` are history: which bytes belong to
undamaged packets, which packets have yet to be handled, and whether a chunk was longer than
the array takes (`"long"`) or than the ring has room for (`"spilt"`). `rcv_buf` drops
what finds no room; of packets damaged by that nothing is claimed.

**Maze, View, Level.** `Maze` has an action for each step of `make_maze`; random numbers are
choices. A square is `<<x, y>>` and column 0 doubles as the right boundary, one row down, as
`MAZE_INDEX` has it. `View` is the buffer with its real addresses: four planes in reverse
order, the offset of the window, the copy in either direction. A pixel is the picture it
belongs to and its own place in it, so that a lost, stale or misplaced one is seen; what
lies outside of the window is forgotten after each move (`Forget`). `Level` composes them:
`Prepare` is `prepare_maze_level`, `Tick` one round of `rtc_thread`, `Frame` the drawing of
player and text around `show_screen`. A behaviour is one level. Which open way the player
takes is free, as is whether there is a text. `RoomAssumption` is what the game's sizes owe to each other: the window is no
larger than the smallest maze without the margin that is never shown, the two margins in which it
pans leave room between them, and it is too narrow to see both sides of the maze, or one of them with the
player next to the other. The game's numbers satisfy all of it (blocks of 12 by 12, a window of 320 by
182, `SHOW_MIN` 6, `PAN_BORDER` 5, mazes from 14 by 8 on).

**Game.** A section under the mutex is one step, and so is what a thread does between two
looks at shared state. A maze is the set of its open squares with a fruit and an exit. The
terminal does not block, so that a byte may be missing anywhere, also within the three
bytes of an arrow key: the decoder then forgets the key. `open[DIR_STOP]` lies behind the
array, and is a choice of both outcomes. `MAX_LEVEL = 1` and one or two ticks for each
read of the clock bound the model.

## 3. Runs

| Run | Checks | Shows |
|---|---|---|
| `orderly` | `PageFollowsScreen ParentChain NeverWild EveryTerminalServed KeepsSessions` | six programs, orderly user: page, registers, PCBs and lists agree, every terminal gets its shell, and the kernel implements `Sessions` |
| `midswitch` | `PidsDistinct`, **violated** | switching with a program running lets `sys_execute` give out a number in use |
| `typing` | `BufferHoldsLine ReadsTheLine AnswersEnter` | lines up to and past a full buffer are read as typed, and every read is answered |
| `ctrl_l` | `ReadsTheLine`, **violated** | Ctrl-L within a line leaves `kbb_ind` behind the zeroed buffer; the next line is read as empty |
| `files` | `OwnDescriptors ReadsFollow EndIsEnd ClockAnswers` | two programs, any calls, restarts: descriptors stay apart, reads follow one another to the very end, the clock answers |
| `programs` | `ReadsInBounds DoesItsWork SearchesAll FindsLines ProgramsEnd` | the real programs over every short text: `cat`, `ls` and `grep` do all their work whatever is killed or cut, `syserr`'s tests pass, and all end but a `syserr` that waits for its user |
| `console` | `ShowsItsText CursorAtEnd NeverBeforeScreen LibraryRight` | every terminal shows its own last rows, on the screen and behind it, and goes on at their end; no backspace leaves the screen; numbers and copies are right |
| `irq` | `Acknowledged ReadyWhenTaken Served` | interrupts from the first `sti` of the boot on, handlers that nest and leave: what is in service will be acknowledged, the machine is ready when one is taken, and each request is served |
| `tux` | `CommandsArriveWhole DeviceFollows AckReturns` | interrupts nest anywhere and the controller is reset with at most two bytes on the line: commands arrive whole; unless it has locked up, the LEDs end as the last call that was taken asked, and that is acknowledged |
| `tux_rx` | `StreamIntact HandledOnArrival` | chunks of every length, lost bytes: every undamaged packet is handled once, in order, when its last byte arrives unless it is left in the ring by a chunk longer than the array takes; nothing else is handled |
| `level` | `AllReachable PictureTrue DisplayTrue ConnectEnds` | every maze of four squares and every walk in it: the maze is connected, and buffer and display hold its picture at every moment |
| `game` | `OnTheWay StopsAtWalls ButtonTurns GameEnds` | any keys and buttons at any time: the player stays on the corridors, stops only at walls and turns only into open ones, a noticed button turns it, and all threads end |

Bounds and why they suffice:

* `orderly` and `midswitch` have the kernel's own cap, 6.
* `typing`: `Size = 1`, `MaxLine = 2`, so that a line may be empty, full or past the end;
  two terminals; two Shift keys; a read longer than the buffer. `ctrl_l` needs a line of two.
* `files`: blocks of two bytes, files of two blocks and a half and of half a block, reads of 1,
  3 and 4, so that reads stay inside, end at, cross and skip whole blocks; two descriptors,
  so that the table is full; two programs; four directory entries.
* `programs`: blocks of six bytes, a buffer of three, files of eight and five bytes with a
  newline or a letter in every place but two: lines that are empty, fill the buffer, do not
  fit it, cross a block and have no end, each cut by reads at every place. One file begins as
  the other does, so the two are told apart by their lengths only.
* `console`: two terminals of two rows and three columns, one tab of two blanks, a digit and a newline,
  letters and tabs stopping at one character and digits at two, at most four characters on a terminal that is left: rows break and scroll,
  take-backs cross a row and a tab, a terminal is left with a part of a row. `LibraryRight`
  tries all words of eight bits and every move in ten bytes of memory, which holds two words
  and both remainders at every alignment.
* `irq`: two handlers nested. Deeper nesting only repeats the pairs; `AlwaysAcknowledged`
  and `AlwaysReady` prove the two invariants for every depth.
* `tux`: a ring of 8 and a driver with room for what the paced program and a reset send;
  `Quiet = 2`, so that RESET comes anywhere within an LED command; two LED states, because `DeviceFollows` tells the last from the one before.
* `tux_rx`: a ring that holds six bytes, `Cap = 6` for the code's 12, chunks up to 6: those up
  to 4 = `Cap - 2` always fit the array, longer ones leave bytes in the ring, from where
  later chunks bring them out. `Unspilt` stops where the ring is full, as nothing is claimed from there on. Losses hit one packet at a time
  (`Bursts = FALSE`): if the line loses the tail of one packet and the head of the next,
  their remains can pass the framing test as one packet, as in any framing of one bit.
* `level`: two by two squares, blocks are 5 by 3 pixels, the window
  8 by 5, two pixels of the boundary are never shown, the room for moving it 6 bytes, so that it pans in every direction, is carried back
  both upward and downward, and is not aligned with the planes. The window is narrower
  than the maze without one block: the left and the right boundary are never both in it,
  as with the real sizes. If they were, `unveil_space` would leave one of them undrawn,
  as its comment (`maze.c:598`) says. `Few = 2` and `MaxTrials = 1` let both the random choice and the scan of the
  second phase happen.
* `game`: a maze of five squares with two corridors from one corner, as `make_maze` draws them, blocks of three pixels, one fruit: the player turns
  back on the way and at a square, runs into walls, and passes the exit before and after
  the fruit is gone.

Fairness. `Processes`: the PIT fires for ever (`StartShell`, `Scheduler`), and the way from
`sti` to `sys_execute` is straight-line code (`RunShell`); nobody must switch, execute or
halt. `Keyboard`: a read that has its line runs on; nobody must type. `Files`: the clock
ticks for ever and a read that may return does; no program must make a call. `Programs`: the
clock ticks, and a program that can go on does; nobody must type a command or tell `syserr`
which test to run. `Console` needs
none. `Interrupts`: the processor never stops between two instructions, so the boot, the way
out of a critical section, a deliverable request and the handler at each depth get on
although others interrupt them again and again (`SF`); `Raise` says that no device is faster
than the kernel: a request that only waits for its turn gets it before a device of a higher
level asks again. `TuxSend`: an interrupt that is
due comes, a context that may run does, the line carries what it is given; nobody must call
an ioctl or press RESET. `Level`: `make_maze` runs on through its second phase, whatever the
random numbers are; the first phase ends only with probability one, and nothing is claimed
of it. `Game`: the clock ticks and a thread that may run does; a mutex is not kept from a
thread for ever, since `rtc_thread` waits for the clock without it; nobody must press
anything.

Deadlock is checked except where the system may stop: in the two violation runs, where the
model ends at a halt or a line that is not defined, and in `game`, where the program ends.

## 4. Findings

* `midswitch` — `K/syscall.c:82` takes the number of running programs as the new number.
* `ctrl_l` — `K/keyboard.c:107` zeroes the buffer and not its index.

More goes wrong outside of the restrictions named above, within which the properties hold. Each of the following
is what TLC ends with when a run's cfg is given the constants named here, with the property named here as its only one.

* `orderly`, `Freedoms = {"strayexit"}`, `KeepsSessions`: `K/syscall.c:29-38` and `keyboard.c:117-120` end what `pidVal`
  names. After the boot that is 2, the shell started last, with terminal 0 on the screen: `exit` or Ctrl-C there
  counts off the shell of *terminal 2* and starts another one on top of terminal 0's. Its number is 0, that of the
  shell below it, so it is its own parent; terminal 2 has no program any more. `src/README.md:6` promises "3 independent terminals".
* `orderly`, `{"refused"}`, `NeverWild`: `K/syscall.c:82` overwrites `pidVal` before the command is looked up, and
  leaves it there when it is refused (`:87`, `:107`, `:118`), at an unknown program as at the cap. If that is the first command
  after the boot, `pidVal` is 3 and the PCB has never been written: the next system call or Ctrl-C reads whatever is there. If a
  program has run under that number before, its stdin and stdout still stand in the PCB, and the slip goes unnoticed
  until a file is opened. The header (`:74`) has "-1: if the command cannot be executed", and the shell goes on with "no
  such command" (`syscalls/ece391shell.c:28-29`).
* `orderly`, `{"midrestart"}`, `EveryTerminalServed`: `K/syscall.c:35` enables interrupts between counting off a first shell and
  starting the next one (`:33`: "restarting new one..."). Alt-F in between takes it to another terminal, and the
  first one stays without a program. `{"early"}`: an Alt-F between a tick of the boot and the start of its shell does the
  same; Ctrl-S stops the boot until it is pressed again, as `keyboard.c:111-116` means it to.
* `typing`, `{"shifts"}`, `BufferHoldsLine`: with both Shift keys down, letting one go clears the flag
  (`keyboard.c:183-185`), and what the other still holds down comes out small. `{"chord"}`: while Ctrl is down no
  release but its own and Alt's is looked at (`keyboard.c:101-104`), so a flag stays up with no key down, with the same effect.
* `tux`, `ResetRestores`: `MP2/module/tuxctl-ioctl.c:129-148` never sends `MTCP_DBG_OFF`. A RESET that cuts an `MTCP_LED_SET` short
  leaves its data on the line, which the restarted controller takes for opcodes: it "displays 0xdEAd on the LEDs and
  ceases responding to commands" (`mtcp.h:208-209`), where the comment at `tuxctl-ioctl.c:184` has "set LEDs to previous state".
* `tux`, `CallSucceeds`: `tuxctl-ioctl.c:273-278` drops a call while the last one is not acknowledged and returns 0, and the LEDs never show it; the
  header (`:259`) says "Returns 0 on success otherwise -EINVAL for unused functions".
* `tux_rx`, `AllLookedAt`: `tuxctl-ld.c:298` takes one array full (12 bytes) out of the ring for each chunk, whose length
  nothing limits. The rest waits, in whole packets, until more arrives, where the comment at `:300-301` says "Look at all bytes as
  potential packet beginnings except for the last two bytes".
* `tux`, `Freedoms = {"flood"}`, `Room = 6`, `CommandsArriveWhole`: `MP2/module/tuxctl-ld.c:203` compares with
  `n <= room` and takes one byte more than there is room for: it is lost.
* `tux`, `Smp = TRUE`, `DeviceFollows`: `write_wakeup` hands bytes to the driver after
  it has given up the lock, so a wakeup on another processor may send later bytes first. The
  comments at `tuxctl-ld.c:197` ("I hope that this doesn't need synchronization") and
  `:267` ("Potential race conditions here ... ?") ask exactly this.
* `console`, `LineMax = 3`, or `Freedoms = {"clear"}`, `NeverBeforeScreen`: `K/lib.c:206` looks at the character before the cursor before
  it knows that there is one. A line of digits longer than the screen (`keyboard.c:122-126` has no bound; three are too long for the run's screen),
  or Ctrl-L within a line (`:106` leaves `kbb_ind`), bring the cursor to the first cell with characters left to take back, and the page in front of
  video memory is not present.
* `console`, `{"leave"}`, `ShowsItsText`: `background_putc` (`K/lib.c:267`) writes into the page of its terminal by the cursor of the one on the
  screen, moves that and scrolls what is shown: a switch in the middle of a write spoils one of the texts.
* `console`, `{"bare"}`, `CursorAtEnd`: `clear` (`K/lib.c:26`) leaves the controller's cursor behind, and a switch
  right after Ctrl-L saves that, where `naman_page.c:230` says "updates cursor position".
* `console`, `{"ahead"}`, `ShowsItsText`: keys and a program's text mix in one row, and a backspace takes back the program's.
  `{"edges"}`: Backspace refuses a `>` the user has typed, and takes too much over a blank at the end of a row.
* `programs`, with the longer file of 7 characters instead of 8, `ReadsInBounds` without its condition on
  `LongTail`: `grep` asks for three bytes at place 5, one of them in the first block of six, where one is left behind it. `read_data`
  (`K/file_system_driver.c:126-138`) copies two behind the block: it forgets the length it has cut at the end of the file, and answers with what was asked for
  less what lies in the first block. `syscall.c:231-232` says "data should
  be read to the end of the file or the end of the buffer provided, whichever occurs sooner".
* `Interrupts`: the comment at `i8259.c:86` ("MIGHT NOT NEED THIS LINE") is refuted by the
  mutant `send_eoi_slave`: without the line the slave's level stays in service at the
  master, and the clock is never served again.

## 5. Proofs

* `ProcessesProofs`: `TypeCorrect`, for every freedom of the user, from `CapInv`: a number fits its type because
  the count is below the cap when it is given. The proofs for an orderly user need more of the boot: a shell that
  the kernel starts itself must not be refused. `BootInv` supplies that: while the boot is
  under way the terminals are served in order and each has at most as many programs as it
  has been served; a shell about to start finds its terminal empty; and one about to
  restart finds the count below the cap. With it `pidVal` and `tss.esp0` name the same process (`StackInv`).
  The second part is for `Freedoms = {}`: `ChainKept`, `PageKept`, `NotWild`, `NumbersDistinct`
  and `SessionsKept`, that `Processes` implements `Sessions`. They share `OrderlyInv`: only
  the terminal on the screen has more than its first shell (`Counted`), so the counted
  numbers come out as the terminal's for a first shell and as the position plus one for
  the others (`Numbered`), hence are distinct. The top program is on the page and in the
  registers (`OnPage`, `InFront`), and the frame of each program but the first still lies
  on the stack of the one below (`Framed`), which is why `haltVoid` returns where it should.
  That `sys_halt` ends the program in front, though it asks `pidVal` only, is part of `InFront`: `pidVal` is the top of the terminal where a
  program was started last (`used`), and a terminal with more than its first shell is that terminal. It is proved of every
  step, assumed of none. `midswitch` shows that `Numbered` fails without `Counted`, freedom `strayexit` that `SessionsKept`
  fails when a first shell is ended elsewhere.
* `KeyboardProofs`: that the flags are the keys that are down, for one Shift at a time, is a lemma (`FlagsFollow`),
  by which the character looked up is the one that is meant. `BufferKept` and `LineRead`, for a buffer, lines and
  reads of every size and `Freedoms = {}`, from `LineInv`: which phase of `terminal_read`
  goes with which flag (`Phases`), that an entered line ends with its newline within
  the bytes that are copied (`Closed`), that the index is zero when no line is typed
  (`IndexRests`), and what has been copied so far (`Copied`).
* `FilesProofs`: `DescriptorsOwned` and `UnopenedAlwaysFails`. The invariant says of every
  running program and every descriptor that it is either not busy with position 0, or
  busy with the operations, type and inode of what the program opened. Position 0 is what
  `UnopenedAlwaysFails` needs, because `sys_read` looks at type and position before `flags`.
  `ReadsAlwaysFollow` and `EndAlwaysEnd`, for every block size, image and
  request: `FollowInv` adds to the above that a descriptor's position is the length of what has
  been read through it, and that this begins the file. The lemma `ReadsOn` says what one
  `read_data` returns, over the quotient and the remainder by the block.
  `NeverPastTheEnd` and `AlwaysDoesItsWork` are about the programs, over every image, buffer
  and interruption. `ProgInv` says what a program at each of its places has open and has
  written, that a shell below another program has nothing open, and that a read that is
  waited for is of the program's own file. What `grep` carries over follows the last newline
  of its buffer (`LeftIsShort`, by induction along `LinesOf`) and is shorter than the
  buffer, so the read behind it asks for at least a byte; `LongReads` and `ReadEnds` say where
  reads of `cat` and of `grep` can end, and `StaysInside` is the arithmetic by which a file
  that is not `LongTail` keeps both from leaving their first block and meeting the end in one read.
  `SearchesEverything` is by counting characters, not lines. What has been searched, put together
  and followed by what the front of the buffer carries over, is what has been read of
  the text without its newlines (`Carries`), and what is carried has no newline. One call
  of `do_one_file` keeps that because `LinesOf` loses nothing (`LinesAre`), what is found and what is left
  make up what was searched (`Splits`), and the copy to the front of the buffer and the next
  read behind it meet without a gap (`InBuffer`, `Beginning`). The lemmas before it
  unfold the definitions by recursion (`Recursion`) and prove by induction over the last element
  (`ByLast`) that removing newlines and flattening go through concatenation.
  `FindsEveryLine` says which lines those are. Its hypothesis `Distinct`, that no name is in the
  directory twice, is a property of the image: the driver would find the first file of that
  name each time, and `grep` would print its lines twice. `FindInv` adds three things to the invariant of
  `SearchesEverything`. What has been printed is of files that the directory has shown so far
  (`OutAt`), so nothing of a file is there when it is opened. What is printed of it are the hits
  among the pieces that have been searched, and the byte behind the buffer, which
  `do_one_file` looks at when the buffer is full, is what the stack held or a NUL (`GrepFinds`,
  `Full`). And with respect to the text that has been read, either all its lines but the last have been
  searched and the last is carried over, or all have been and the next character is a newline
  (`InStep`): then the next read finds an empty line, which holds nothing. That is why a line is
  cut nowhere if it fits into the buffer. The file must have one block, because a read that ends
  with a block may be shorter than the buffer without being the last, and `do_one_file` then takes the
  old character behind it for the one that follows.
* `ConsoleProofs`: `TextStays`, `CursorStays` and `BackspaceInScreen`, from `Enough`: an orderly
  user (`Freedoms = {}`), and a line that fits above the last row: `KeybMax` characters of at most
  `TabWidth` blanks each and the digits up to `LineMax` behind them. With the code's sizes (127, four blanks, 1920 cells above
  the last row) that is any line of up to 1539 characters. `ConsoleInv` has three parts. `Screens`: the terminal
  in front is on the screen with cursor and controller's `pos` at its end (`InFront`), except that nothing
  is promised of `pos` for a terminal that has no text; every other is in its page, with the end
  of its text kept in `cursor` (`Shelved`). `InTurn`: a text is written or a line typed, never both, and
  by the terminal in front. `TypedIn`: what has been typed into the line lies in front of the cursor, blank by blank
  for a tab, which is what a backspace relies on; it stays true when rows are broken or scrolled
  because the line is too short to reach the row that is lost. `ShowsRows` is used through
  the characters at its places (`TextAt`), so that breaking a row and scrolling are a shift of
  places (`Changes`); an echo or an unechoed tab is then an induction over its characters.
  `LibraryAlwaysRight` is about `lib.c` alone and needs no hypothesis. A loop is a `Run`: what has come
  out after each element. That digits `Reads` as the number goes up by one digit (`ReadsOn`), since `strrev`
  turns a digit in front into one behind (`StrrevGrows`); a number below 16^k has at most k
  of them (`LowestFits`), which is why `%#x` always has its full width. `memset` and `memcpy` are
  `Upward`: bytes, words and bytes again follow one another without a gap up to the last (`ByChunks`); and
  no move reads what an earlier one wrote, because the ranges are apart or the bytes come from
  above (`ReadsFirst`), or, where `memmove` goes down, from below (`MoveBack`).
* `InterruptsProofs`: `AlwaysAcknowledged` and `AlwaysReady` for every depth of nesting. `IInv`
  is sharper than the property: while the timer is in service its handler is on *top* and has
  not acknowledged, because nothing is delivered above it; while the keyboard is, its handler
  is on top too, because it enables interrupts only after its acknowledgement; the slave is
  in service exactly with the master's line 2; and an unacknowledged clock has its handler
  somewhere on the stack or is `lost`.
* `GameProofs`: `StaysOnTheWay` and `StopsOnlyAtWalls` (with where the player turns), for every set of mazes, block size and
  number of ticks. `OnCorridor` says that the player is `move_cnt` steps from an open square,
  and, if it moves, comes from the open one before; `Waiting`, that `next_dir` is
  `Stop` only while the player stands, so that only such a player
  looks at `open[DIR_STOP]`.

* `TuxProofs`: `CommandsWhole`, from `Enough`: one processor, a paced program, a ring of 6 bytes
  or more (`BufSize >= 7`) and a driver with room for 16 bytes more than it holds when the
  program or RESET may start (`Quiet`). `SendInv` has two parts. Every piece that is under way ends with
  a whole command (`Whole`, `AllWhole`), because each context takes *all* of the ring and no put
  is cut. That rests on counting: `Load` bounds all bytes under way or still owed, with the
  answer to a RESET counted from the moment it is pressed, and `OwnLoad` bounds the program's
  own part, so that the next RESET finds room again. `Ring` says when the room that was asked
  for is stale, and that the ring is empty then or will be emptied by somebody else.
  `LedsFollow` is about time as well as order. `Future` is the sequence of all bytes that are
  under way, in the order in which the controller will see them: the line's, those `write_wakeup`
  and the receive interrupt have taken, the ring's, those of the interrupt's puts that are
  still to come, and the ioctl's. No step of the line discipline changes it, which is
  the point of the discipline. The invariant (`Promise`) is then that, unless a RESET is
  still unanswered, the last `LED_SET` in `Future` sets what was asked last, or there
  is none and the LEDs show it; and that the controller is enabled, or will be before that.
  `Kept` says when `previous_LED` is what the program asked. All of it is of a controller that has not
  locked up; a call that was dropped changes nothing of it.
  `PacketsIntact` and `HandledAtOnce` are about the other direction, where (`Spared`) the line damages one packet at a time, for
  chunks of every length. `RInv` says that what is left in the ring and what the callback kept are the bytes that
  follow those already handled, the ring empty as long as every chunk has fitted the array; which of them
  belong to an undamaged packet (`Sound`); and how the packets handled and due are counted (`Counts`).
  The ring lemmas on `%` say what `put` and `get` do to the indices at the end of the array.
* `LevelProofs`, for every maze, window and walk.
  `EverythingReachable`: the invariant `MazeInv` says that an opening next to a point leads to
  another open point (`Leads`), and that what is marked is `Connected`: every set of points that holds
  (1,1) and is closed under going through openings holds it. That the walk of
  `mark_maze_area` marks all there is to mark is by counting: each of its rounds adds a point or
  it is done, so as many rounds as there are points suffice (`MarksAll`).
  `PictureStaysTrue` and `DisplayStaysTrue`: `LevelInv` is about window, player and picture
  together. No two pixels of the window share a byte of the buffer (`Alone`, over the four planes that
  begin a byte apart), so drawing changes what it draws and nothing else (`DrawnIs`), and the
  copy of `set_view_window`, upward or downward, keeps every pixel that is in the old and
  in the new window (`SetViewWindowIs`). `Keeps` relates player and window along one
  axis: the player is in the window, and outside of the margins unless the window has come to the
  edge of the maze; a step of both keeps it, which is why the window never leaves the maze and
  the player never leaves the window. `Stands` says that the player is on a square
  without wall or between two. What is drawn is all that has changed: `unveil_space` draws only
  one of the two columns that `MAZE_INDEX` maps to the same squares, and
  `SidesApart` shows that the other is then not in the window.

The proofs assume the named ASSUMEs of the modules, nothing else. Induction over the natural
numbers is a lemma on sets here (`Least`, `Induction`), from the library's theorem that `<` is well
founded on them; recursive functions are unfolded with it. Only model-checked: liveness under fairness, which
the prover cannot express (`EveryTerminalServed`, `AnswersEnter`, `ClockAnswers`, `ProgramsEnd`, `Served`,
`AckReturns`, `ConnectEnds`, `ButtonTurns`, `GameEnds`). Every invariant and action property that
a passing run checks is also a theorem.

## 6. Not modelled

`PROJECT.json` gives the reason for each part. In short: the kernel's tests and the game's
assertions only print; `pingpong`, `counter`, `hello` and `fish` read the clock and write; the
signal calls are not implemented; the rate of the clock is one number no property depends
on; port writes, VGA registers, palettes, fonts (`text.c`) and picture data have no
behaviour of interest; `input.c` is a stand-alone test that the game does not use.
Of the game, the status bar and the clocks of the fruit text are left out, and levels are
modelled one at a time in `Level`.

One thing `Game` shows and no property states: a button that is noticed by one poll and
released before the next may be lost, if `tux_thread` does not get the mutex in between.
`ButtonTurns` therefore ends its promise with the next poll that sees something else.

## 7. What is left

1. The status bar and `text_to_graphics` on top of `View`; the fruit text's clock in `Game`.
2. `Console` and `Processes` composed, so that a switch and the page it shows are one step.
