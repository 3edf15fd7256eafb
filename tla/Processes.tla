----------------------------- MODULE Processes ------------------------------
(***************************************************************************)
(* The process core of the kernel: sys_execute and sys_halt (syscall.c),   *)
(* the PIT handler that boots one shell per terminal (pit.c), and          *)
(* switch_terminal (naman_page.c) with the key chords that reach it        *)
(* (keyboard.c).  There is one processor and one set of registers; what    *)
(* the kernel calls "the current process" is spread over five places that  *)
(* different functions update: pidVal, the mapping of the 128MB page,      *)
(* tss.esp0, curr_term_ID and the terminals' process lists.                *)
(*                                                                         *)
(* sys_execute, sys_halt and switch_terminal run with interrupts disabled, *)
(* so each is one step.  Twice the kernel enables them before it calls     *)
(* sys_execute for a shell, and an interrupt may come in between: in       *)
(* pit_handler (status "starting") and in sys_halt, when a terminal's      *)
(* first shell ends (status "restarting").                                 *)
(***************************************************************************)
EXTENDS Integers, Sequences, SequencesExt

CONSTANTS
  MaxProc,   (* the cap of sys_execute on the processes of all terminals      *)
  Freedoms,  (* what the user and the programs may do beyond orderly use:     *)
             (*  "early"      act before the three shells are up; interrupt   *)
             (*               the start of one                                *)
             (*  "midswitch"  switch terminals while a program runs on top    *)
             (*               of a terminal's first shell                     *)
             (*  "midrestart" interrupt between the end of a first shell and  *)
             (*               the start of its successor                      *)
             (*  "strayexit"  end the first shell of a terminal although the  *)
             (*               last program was started in another one         *)
             (*  "refused"    execute what sys_execute refuses: an unknown    *)
             (*               program, or one more at the cap                 *)
  NoPcb,     (* a PCB nobody has written                                      *)
  NoFrame    (* a saved stack frame that is not there, or not any more        *)

AllFreedoms == {"early", "midswitch", "midrestart", "strayexit", "refused"}

Term  == 0..2
Pid   == 0..MaxProc-1
NoPid == -1

Pcb   == [Parent_id : Pid \cup {NoPid}, term_id : Term]
Frame == [stack : Pid, regs : Pid \cup {NoPid}]

ASSUME ProcessesAssumption == /\ MaxProc \in Nat /\ MaxProc >= 3
                              /\ Freedoms \subseteq AllFreedoms
                              /\ NoPcb \notin Pcb /\ NoFrame \notin Frame

VARIABLES
  curr_term_ID,      (* the terminal on the screen                             *)
  schedule_term_ID,  (* the terminal the next boot tick starts a shell in      *)
  t_init,            (* how often the PIT handler has served each terminal     *)
  scheduling_flag,
  processes,         (* processes[0..proc_cnt-1] of each terminal              *)
  pcb,               (* the PCB at the bottom of each kernel stack             *)
  pidVal,            (* selects the PCB that get_cur_pcb returns               *)
  page,              (* the process whose memory the 128MB page maps           *)
  esp0,              (* the process whose kernel stack tss.esp0 names          *)
  regs,              (* the process whose user registers the processor holds   *)
  frame,             (* what PCB.saved_esp/saved_ebp of each process points at *)
  status,            (* "running", "starting" or "restarting"                  *)
  used               (* where a program was started last: nothing the kernel   *)
                     (* keeps, but what an orderly user goes by                *)

boot  == <<schedule_term_ID, t_init, scheduling_flag>>
cpu   == <<pidVal, page, esp0, regs, frame>>
vars  == <<curr_term_ID, boot, processes, pcb, cpu, status, used>>

-----------------------------------------------------------------------------
Total == Len(processes[0]) + Len(processes[1]) + Len(processes[2])

(* processes[proc_cnt-1]; with proc_cnt = 0 that is the last byte of the   *)
(* addr field before it, which is 0 for all three video addresses.         *)
Top(t) == IF processes[t] = <<>> THEN 0 ELSE Last(processes[t])

Booted == t_init[0] = 2

(* Every terminal runs its first shell and nothing else. *)
AllAtBase == \A t \in Term : Len(processes[t]) = 1

UserMayAct == Booted \/ "early" \in Freedoms

(* An interrupt handler may run: a program is executing, or the kernel has *)
(* interrupts enabled on its way to sys_execute("shell").                  *)
Interruptible == \/ status = "running"
                 \/ status = "starting" /\ "early" \in Freedoms
                 \/ status = "restarting" /\ "midrestart" \in Freedoms

(* A frame lives on a kernel stack until tss.esp0 names that stack again:  *)
(* the next entry from user mode then starts at its top and overwrites it. *)
Overwrite(f, p) == [q \in Pid |-> IF f[q] # NoFrame /\ f[q].stack = p
                                  THEN NoFrame ELSE f[q]]

-----------------------------------------------------------------------------
Init == /\ curr_term_ID = 0
        /\ schedule_term_ID = 0
        /\ t_init = [t \in Term |-> 0]
        /\ scheduling_flag = 0
        /\ processes = [t \in Term |-> <<>>]
        /\ pcb = [p \in Pid |-> NoPcb]
        /\ pidVal = 0
        /\ page = NoPid
        /\ esp0 = 0        \* the boot stack and process 0's are the same memory
        /\ regs = NoPid    \* the idle loop of entry()
        /\ frame = [p \in Pid |-> NoFrame]
        /\ status = "running"
        /\ used = 0

(* The number sys_execute gives: the count of the processes, or the        *)
(* terminal's own number while that count is at most 2.                    *)
NewPidByCount(t) == Total  \* mutant: the count, always
NewPid(t) == IF Total <= 2 THEN t ELSE Total

(* The program below a new one: processes[proc_cnt-1], none for a first shell. *)
ParentCurrent(t) == IF processes[t] = <<>> THEN NoPid ELSE pidVal  \* mutant: the current process
ParentAlways(t) == Top(t)                       \* mutant: no case for a first shell
ParentIn(t) == IF processes[t] = <<>> THEN NoPid ELSE Last(processes[t])

(* Process p goes on with registers r: pidVal, setup_PID and tss.esp0. *)
EnterOldPage(p, r, f) ==                        \* mutant: the page is not mapped
  /\ pidVal' = p /\ esp0' = p /\ regs' = r /\ frame' = Overwrite(f, p)
  /\ UNCHANGED page
Enter(p, r, f) == /\ pidVal' = p
                  /\ page' = p
                  /\ esp0' = p
                  /\ regs' = r
                  /\ frame' = Overwrite(f, p)

(* sys_execute refuses: pidVal has been overwritten all the same. *)
ExecuteFails == /\ pidVal' = Total
                /\ UNCHANGED <<processes, pcb, page, esp0, regs, frame, used>>

(* sys_execute runs a program in terminal t. *)
ExecuteRuns(t) ==
  LET new == NewPid(t)
  IN /\ pcb' = [pcb EXCEPT ![new] = [Parent_id |-> ParentIn(t), term_id |-> t]]
     /\ processes' = [processes EXCEPT ![t] = Append(@, new)]
     /\ Enter(new, new, [frame EXCEPT ![new] = [stack |-> esp0, regs |-> regs]])
     /\ used' = t

(* switch_terminal: the page follows the screen, pidVal and tss.esp0 do not. *)
SwitchKeepsPage(t) == curr_term_ID' = t /\ UNCHANGED page  \* mutant: the page stays
SwitchTo(t) == /\ curr_term_ID' = t
               /\ page' = IF t = curr_term_ID THEN page ELSE Top(t)

-----------------------------------------------------------------------------
(* pit_handler, a terminal without a shell: put it on the screen, then run *)
(* one; what it interrupted, if that was a shell's start, is never resumed. *)
StartShell ==
  LET t == schedule_term_ID IN
  /\ Interruptible
  /\ scheduling_flag = 0 /\ t_init[t] = 0
  /\ t_init' = [t_init EXCEPT ![t] = 1]
  /\ schedule_term_ID' = (t + 1) % 3
  /\ SwitchTo(t)
  /\ status' = "starting"
  /\ UNCHANGED <<scheduling_flag, processes, pcb, pidVal, esp0, regs, frame, used>>

(* sys_execute("shell"), from pit_handler or sys_halt, in whatever terminal *)
(* is on the screen by now.                                                *)
RunShell ==
  /\ status \in {"starting", "restarting"}
  /\ \/ Total < MaxProc /\ ExecuteRuns(curr_term_ID)
     \/ Total >= MaxProc /\ ExecuteFails
  /\ status' = "running"
  /\ UNCHANGED <<curr_term_ID, boot>>

(* pit_handler calling scheduler(): the first time, back to terminal 0. *)
Scheduler ==
  /\ Interruptible
  /\ scheduling_flag = 0 /\ t_init[schedule_term_ID] # 0
  /\ t_init[0] = 1
  /\ t_init' = [t_init EXCEPT ![0] = 2]
  /\ SwitchTo(0)
  /\ scheduling_flag' = 1
  /\ UNCHANGED <<schedule_term_ID, processes, pcb, pidVal, esp0, regs, frame, status, used>>

(* keyboard_handler: Alt and a function key. *)
KeySwitch(t) ==
  /\ Interruptible /\ UserMayAct
  /\ status = "running" => "midswitch" \in Freedoms \/ AllAtBase
  /\ t # curr_term_ID
  /\ SwitchTo(t)
  /\ UNCHANGED <<boot, processes, pcb, pidVal, esp0, regs, frame, status, used>>

(* keyboard_handler: Ctrl-S. *)
KeySchedule ==
  /\ Interruptible /\ UserMayAct
  /\ scheduling_flag' = 1 - scheduling_flag
  /\ UNCHANGED <<curr_term_ID, schedule_term_ID, t_init, processes, pcb, cpu, status, used>>

SysExecute ==
  /\ status = "running"
  /\ UserMayAct
  /\ \/ Total < MaxProc /\ ExecuteRuns(curr_term_ID)
     \/ "refused" \in Freedoms /\ ExecuteFails
  /\ UNCHANGED <<curr_term_ID, boot, status>>

(* sys_halt, called by the program, by Ctrl-C and by the exception handlers. *)
(* The code tests nothing; an orderly user ends a terminal's first shell    *)
(* only where a program was started last.                                  *)
MayHalt == /\ Interruptible /\ UserMayAct
           /\ \/ Len(processes[curr_term_ID]) > 1
              \/ used = curr_term_ID
              \/ "strayexit" \in Freedoms

(* A system call finds a PCB that sys_execute has written. *)
PcbWritten == pidVal \in Pid /\ pcb[pidVal] # NoPcb

(* sys_halt finds a PCB, a process to count off and the frame to return to; *)
(* what happens where it does not is not defined, nor modelled.            *)
HaltDefined == /\ PcbWritten
               /\ processes[pcb[pidVal].term_id] # <<>>
               /\ pcb[pidVal].Parent_id # NoPid => frame[pidVal] # NoFrame

CountOff(p) == processes' = [processes EXCEPT ![pcb[p].term_id] = Front(@)]

(* The first shell of a terminal: count it off, then run another one. *)
SysHaltBaseOnly ==                              \* mutant: no successor
  /\ MayHalt /\ HaltDefined
  /\ pcb[pidVal].Parent_id = NoPid
  /\ CountOff(pidVal)
  /\ UNCHANGED <<curr_term_ID, boot, pcb, cpu, status, used>>
SysHaltBase ==
  /\ MayHalt /\ HaltDefined
  /\ pcb[pidVal].Parent_id = NoPid
  /\ CountOff(pidVal)
  /\ status' = "restarting"
  /\ UNCHANGED <<curr_term_ID, boot, pcb, cpu, used>>

(* Any other program: back into the sys_execute of its parent. *)
SysHaltToParent ==
  /\ MayHalt /\ HaltDefined
  /\ pcb[pidVal].Parent_id # NoPid
  /\ CountOff(pidVal)
  /\ Enter(pcb[pidVal].Parent_id, frame[pidVal].regs, frame)
  /\ status' = "running"
  /\ UNCHANGED <<curr_term_ID, boot, pcb, used>>

-----------------------------------------------------------------------------
Next == \/ StartShell \/ RunShell \/ Scheduler
        \/ \E t \in Term : KeySwitch(t)
        \/ KeySchedule
        \/ SysExecute
        \/ SysHaltBase \/ SysHaltToParent

(* The PIT fires at 100 Hz for ever, and what it and sys_halt call is        *)
(* straight-line code.                                                     *)
Fairness == WF_vars(StartShell) /\ WF_vars(Scheduler) /\ WF_vars(RunShell)

Spec == Init /\ [][Next]_vars /\ Fairness

-----------------------------------------------------------------------------
TypeOK == /\ curr_term_ID \in Term /\ schedule_term_ID \in Term
          /\ t_init \in [Term -> 0..2] /\ scheduling_flag \in {0, 1}
          /\ processes \in [Term -> Seq(Pid)]
          /\ pcb \in [Pid -> Pcb \cup {NoPcb}]
          /\ pidVal \in 0..MaxProc
          /\ page \in Pid \cup {NoPid} /\ esp0 \in Pid
          /\ regs \in Pid \cup {NoPid}
          /\ frame \in [Pid -> Frame \cup {NoFrame}]
          /\ status \in {"running", "starting", "restarting"}
          /\ used \in Term

(* No two running programs have the same process number, PCB and memory.   *)
PidsDistinct ==
  \A t, u \in Term : \A i \in DOMAIN processes[t], j \in DOMAIN processes[u] :
    processes[t][i] = processes[u][j] => t = u /\ i = j

(* Once booted, the 128MB page maps the newest program of the terminal on  *)
(* the screen: what the user sees is what is in memory.  And a program on  *)
(* top of a first shell runs on its own memory: the registers in the       *)
(* processor are those of the program the page maps.                       *)
PageFollowsScreen ==
  /\ Booted /\ status = "running" =>
       processes[curr_term_ID] # <<>> /\ page = Top(curr_term_ID)
  /\ Len(processes[curr_term_ID]) > 1 => regs = page

(* The PCBs of the running programs agree with the terminals' lists: each  *)
(* names its terminal, and as its parent the program below it.             *)
ParentChain ==
  \A t \in Term : \A i \in DOMAIN processes[t] :
    pcb[processes[t][i]] =
      [Parent_id |-> IF i = 1 THEN NoPid ELSE processes[t][i-1], term_id |-> t]

(* sys_halt and the other system calls never follow a PCB nobody wrote, a  *)
(* count that is already zero, or a saved frame that has been overwritten. *)
NeverWild == /\ MayHalt => HaltDefined
             /\ status = "running" /\ UserMayAct => PcbWritten

(* A terminal without a program gets a first shell, at boot and whenever   *)
(* its first shell ends.                                                   *)
EveryTerminalServed == \A t \in Term : processes[t] = <<>> ~> processes[t] # <<>>

Promised == INSTANCE Sessions WITH stack <- processes, screen <- curr_term_ID

(* The kernel does what Sessions promises.                                 *)
KeepsSessions == Promised!Spec
=============================================================================
