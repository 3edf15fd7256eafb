--------------------------- MODULE ProcessesProofs ---------------------------
(***************************************************************************)
(* What the kernel process core of Processes.tla keeps for every MaxProc,  *)
(* first whatever the user may do (Freedoms), then for an orderly user     *)
(* only.                                                                   *)
(***************************************************************************)
EXTENDS Processes, SequenceTheorems, TLAPS

(* The last element of a list, and what is before it. *)
LEMMA LastFront ==
  ASSUME NEW S, NEW s \in Seq(S), s # <<>>
  PROVE  /\ Last(s) \in S
         /\ Front(s) \in Seq(S)
         /\ Len(Front(s)) = Len(s) - 1
         /\ \A i \in 1..Len(s)-1 : Front(s)[i] = s[i]
<1>1. Len(s) \in Nat /\ Len(s) >= 1 /\ \A i \in 1..Len(s) : s[i] \in S
  BY EmptySeq, ElementOfSeq, LenProperties
<1>2. Last(s) \in S
  BY <1>1 DEF Last
<1> DEFINE n == Len(s) - 1
<1>3. \A i \in 1..n : s[i] \in S
  BY <1>1
<1>4. /\ SubSeq(s, 1, n) \in Seq(S)
      /\ Len(SubSeq(s, 1, n)) = IF 1 <= n THEN n - 1 + 1 ELSE 0
      /\ \A i \in 1..n - 1 + 1 : SubSeq(s, 1, n)[i] = s[1 + i - 1]
  BY <1>1, <1>3, SubSeqProperties
<1>5. Front(s) = SubSeq(s, 1, n)
  BY DEF Front
<1>6. n \in Nat /\ n = Len(s) - 1
  BY <1>1
<1> HIDE DEF n
<1>7. Front(s) \in Seq(S) /\ Len(Front(s)) = n
  BY <1>4, <1>5, <1>6
<1>8. \A i \in 1..n : Front(s)[i] = s[i]
  BY <1>4, <1>5, <1>6
<1> QED
  BY <1>2, <1>6, <1>7, <1>8

USE DEF Term, Pid, NoPid

LEMMA Caps == MaxProc \in Nat /\ MaxProc >= 3
  BY ProcessesAssumption

LEMMA TopType ==
  ASSUME TypeOK, NEW t \in Term
  PROVE  Top(t) \in Pid
<1>1. processes[t] \in Seq(Pid)
  BY DEF TypeOK
<1>2. 0 \in Pid
  BY Caps
<1>3. processes[t] # <<>> => Last(processes[t]) \in Pid
  BY <1>1, LastFront
<1> QED
  BY <1>2, <1>3 DEF Top

LEMMA TotalType ==
  ASSUME TypeOK
  PROVE  Total \in Nat
  BY DEF TypeOK, Total

(* What replacing one terminal's list does to the count. *)
LEMMA TotalChange ==
  ASSUME TypeOK, NEW t \in Term, NEW s \in Seq(Pid),
         processes' = [processes EXCEPT ![t] = s]
  PROVE  /\ processes' \in [Term -> Seq(Pid)]
         /\ Total' = Total - Len(processes[t]) + Len(s)
<1> DEFINE L(u) == Len(processes[u])
<1>1. processes' \in [Term -> Seq(Pid)]
  BY DEF TypeOK
<1>2. \A u \in Term : processes'[u] = IF u = t THEN s ELSE processes[u]
  BY DEF TypeOK
<1>3. Len(s) \in Nat /\ L(0) \in Nat /\ L(1) \in Nat /\ L(2) \in Nat
  BY DEF TypeOK
<1>4. /\ Len(processes'[0]) = IF t = 0 THEN Len(s) ELSE L(0)
      /\ Len(processes'[1]) = IF t = 1 THEN Len(s) ELSE L(1)
      /\ Len(processes'[2]) = IF t = 2 THEN Len(s) ELSE L(2)
  BY <1>2
<1>5. /\ Total = L(0) + L(1) + L(2)
      /\ Total' = Len(processes'[0]) + Len(processes'[1]) + Len(processes'[2])
  BY DEF Total
<1>6. L(t) = IF t = 0 THEN L(0) ELSE IF t = 1 THEN L(1) ELSE L(2)
  OBVIOUS
<1> HIDE DEF L
<1>7. Total' = Total - L(t) + Len(s)
  BY <1>3, <1>4, <1>5, <1>6
<1> QED
  BY <1>1, <1>7 DEF L

LEMMA OverwriteType ==
  ASSUME NEW f \in [Pid -> Frame \cup {NoFrame}], NEW p \in Pid
  PROVE  Overwrite(f, p) \in [Pid -> Frame \cup {NoFrame}]
  BY DEF Overwrite

(* A program that is run is given a number below MaxProc; it is counted. *)
LEMMA ExecuteType ==
  ASSUME TypeOK, NEW t \in Term, Total < MaxProc, ExecuteRuns(t)
  PROVE  /\ NewPid(t) \in Pid
         /\ processes' \in [Term -> Seq(Pid)]
         /\ pcb' \in [Pid -> Pcb \cup {NoPcb}]
         /\ pidVal' \in Pid /\ page' \in Pid /\ esp0' \in Pid /\ regs' \in Pid
         /\ used' \in Term
         /\ frame' \in [Pid -> Frame \cup {NoFrame}]
         /\ Total' = Total + 1
<1>0. Total \in Nat
  BY TotalType
<1>1. NewPid(t) \in Pid
  BY <1>0, Caps DEF NewPid
<1>2. ParentIn(t) \in Pid \cup {NoPid}
  BY LastFront DEF ParentIn, TypeOK
<1>3. pcb' \in [Pid -> Pcb \cup {NoPcb}]
  BY <1>1, <1>2 DEF ExecuteRuns, TypeOK, Pcb
<1>4. /\ processes' = [processes EXCEPT ![t] = Append(processes[t], NewPid(t))]
      /\ processes[t] \in Seq(Pid)
  BY DEF ExecuteRuns, TypeOK
<1>5. /\ Append(processes[t], NewPid(t)) \in Seq(Pid)
      /\ Len(Append(processes[t], NewPid(t))) = Len(processes[t]) + 1
  BY <1>1, <1>4, AppendProperties
<1>6. /\ processes' \in [Term -> Seq(Pid)]
      /\ Total' = Total - Len(processes[t]) + (Len(processes[t]) + 1)
  BY <1>4, <1>5, TotalChange
<1>8. Total' = Total + 1
  <2> DEFINE n == Len(processes[t])
  <2>1. n \in Nat
    BY <1>4
  <2>2. Total' = Total - n + (n + 1)
    BY <1>6
  <2> HIDE DEF n
  <2> QED BY <1>0, <2>1, <2>2
<1>7. [frame EXCEPT ![NewPid(t)] = [stack |-> esp0, regs |-> regs]]
        \in [Pid -> Frame \cup {NoFrame}]
  BY <1>1 DEF TypeOK, Frame
<1> QED
  BY <1>1, <1>3, <1>6, <1>7, <1>8, OverwriteType DEF ExecuteRuns, Enter

LEMMA CountOffType ==
  ASSUME TypeOK, HaltDefined, CountOff(pidVal)
  PROVE  processes' \in [Term -> Seq(Pid)] /\ Total' = Total - 1
<1>1. pcb[pidVal].term_id \in Term
  BY DEF HaltDefined, PcbWritten, TypeOK, Pcb
<1>2. processes[pcb[pidVal].term_id] # <<>>
  BY DEF HaltDefined
<1> DEFINE t == pcb[pidVal].term_id
<1>3. /\ processes' = [processes EXCEPT ![t] = Front(processes[t])]
      /\ processes[t] \in Seq(Pid)
  BY <1>1 DEF CountOff, TypeOK
<1>4. Front(processes[t]) \in Seq(Pid) /\ Len(Front(processes[t])) = Len(processes[t]) - 1
  BY <1>2, <1>3, LastFront
<1>5. /\ processes' \in [Term -> Seq(Pid)]
      /\ Total' = Total - Len(processes[t]) + (Len(processes[t]) - 1)
  BY <1>1, <1>3, <1>4, TotalChange
<1>6. Total \in Nat /\ Len(processes[t]) \in Nat
  BY <1>3, TotalType
<1> QED
  BY <1>5, <1>6

-----------------------------------------------------------------------------
(* TypeOK and the cap need one another: a refused sys_execute leaves the    *)
(* count in pidVal.                                                        *)
TotalWithinCap == Total <= MaxProc

CapInv == TypeOK /\ TotalWithinCap

LEMMA InitCap == Init => CapInv
  BY Caps DEF Init, CapInv, TypeOK, TotalWithinCap, Total

LEMMA ExecuteFailsType ==
  ASSUME CapInv, ExecuteFails
  PROVE  pidVal' \in 0..MaxProc
  BY TotalType, Caps DEF CapInv, ExecuteFails, TotalWithinCap

(* A program that is run keeps the types and the cap. *)
LEMMA ExecuteCap ==
  ASSUME CapInv, NEW t \in Term, Total < MaxProc, ExecuteRuns(t),
         status' \in {"running", "starting", "restarting"},
         UNCHANGED <<curr_term_ID, boot>>
  PROVE  CapInv'
<1>1. TypeOK /\ Total \in Nat
  BY TotalType DEF CapInv
<1>2. /\ processes' \in [Term -> Seq(Pid)]
      /\ pcb' \in [Pid -> Pcb \cup {NoPcb}]
      /\ pidVal' \in Pid /\ page' \in Pid /\ esp0' \in Pid /\ regs' \in Pid
      /\ used' \in Term
      /\ frame' \in [Pid -> Frame \cup {NoFrame}]
  BY <1>1, ExecuteType
<1>3. Total' = Total + 1
  BY <1>1, ExecuteType
<1>4. TotalWithinCap'
  BY <1>1, <1>3, Caps DEF TotalWithinCap
<1>5. TypeOK'
  BY <1>1, <1>2, Caps DEF TypeOK, boot
<1> QED
  BY <1>4, <1>5 DEF CapInv

(* A process that is counted off keeps the cap. *)
LEMMA CountOffCap ==
  ASSUME CapInv, HaltDefined, CountOff(pidVal)
  PROVE  TotalWithinCap'
<1>1. Total \in Nat /\ Total <= MaxProc
  BY TotalType DEF CapInv, TotalWithinCap
<1>2. Total' = Total - 1
  BY CountOffType DEF CapInv
<1> QED
  BY <1>1, <1>2, Caps DEF TotalWithinCap

LEMMA NextCap == CapInv /\ [Next]_vars => CapInv'
<1> SUFFICES ASSUME CapInv, [Next]_vars PROVE CapInv'
  OBVIOUS
<1> USE DEF CapInv
<1>1. CASE StartShell
  <2>1. page' \in Pid \cup {NoPid} /\ curr_term_ID' \in Term
    BY <1>1, TopType DEF StartShell, SwitchTo, TypeOK
  <2>2. t_init' \in [Term -> 0..2] /\ schedule_term_ID' \in Term
    BY <1>1 DEF StartShell, TypeOK
  <2> QED
    BY <1>1, <2>1, <2>2 DEF StartShell, TypeOK, TotalWithinCap, Total
<1>2. CASE RunShell
  <2>1. CASE Total < MaxProc /\ ExecuteRuns(curr_term_ID)
    BY <1>2, <2>1, ExecuteCap DEF RunShell, TypeOK
  <2>2. CASE Total >= MaxProc /\ ExecuteFails
    BY <1>2, <2>2, ExecuteFailsType DEF RunShell, boot, ExecuteFails, TypeOK, TotalWithinCap, Total
  <2> QED BY <1>2, <2>1, <2>2 DEF RunShell
<1>3. CASE Scheduler
  <2>1. page' \in Pid \cup {NoPid} /\ curr_term_ID' \in Term
    BY <1>3, TopType DEF Scheduler, SwitchTo, TypeOK
  <2> QED
    BY <1>3, <2>1 DEF Scheduler, TypeOK, TotalWithinCap, Total
<1>4. ASSUME NEW t \in Term, KeySwitch(t) PROVE CapInv'
  <2>1. page' \in Pid \cup {NoPid} /\ curr_term_ID' \in Term
    BY <1>4, TopType DEF KeySwitch, SwitchTo, TypeOK
  <2> QED
    BY <1>4, <2>1 DEF KeySwitch, boot, TypeOK, TotalWithinCap, Total
<1>5. CASE KeySchedule
  BY <1>5 DEF KeySchedule, cpu, TypeOK, TotalWithinCap, Total
<1>6. CASE SysExecute
  <2>1. CASE Total < MaxProc /\ ExecuteRuns(curr_term_ID)
    BY <1>6, <2>1, ExecuteCap DEF SysExecute, TypeOK
  <2>2. CASE ExecuteFails
    BY <1>6, <2>2, ExecuteFailsType DEF SysExecute, boot, ExecuteFails, TypeOK, TotalWithinCap, Total
  <2> QED BY <1>6, <2>1, <2>2 DEF SysExecute
<1>7. CASE SysHaltBase
  <2>1. processes' \in [Term -> Seq(Pid)] /\ TotalWithinCap'
    BY <1>7, CountOffType, CountOffCap DEF SysHaltBase
  <2> QED
    BY <1>7, <2>1 DEF SysHaltBase, boot, cpu, TypeOK
<1>8. CASE SysHaltToParent
  <2>1. pcb[pidVal].Parent_id \in Pid /\ frame[pidVal] \in Frame
    BY <1>8 DEF SysHaltToParent, HaltDefined, PcbWritten, TypeOK, Pcb
  <2>2. processes' \in [Term -> Seq(Pid)] /\ TotalWithinCap'
    BY <1>8, CountOffType, CountOffCap DEF SysHaltToParent
  <2>3. frame' \in [Pid -> Frame \cup {NoFrame}] /\ regs' \in Pid \cup {NoPid}
    BY <1>8, <2>1, OverwriteType DEF SysHaltToParent, Enter, TypeOK, Frame
  <2>4. pidVal' \in Pid /\ page' \in Pid /\ esp0' \in Pid
    BY <1>8, <2>1 DEF SysHaltToParent, Enter
  <2> QED
    BY <1>8, <2>2, <2>3, <2>4, Caps DEF SysHaltToParent, boot, TypeOK
<1>9. CASE UNCHANGED vars
  BY <1>9 DEF vars, boot, cpu, TypeOK, TotalWithinCap, Total
<1> QED
  BY <1>1, <1>2, <1>3, <1>4, <1>5, <1>6, <1>7, <1>8, <1>9 DEF Next

LEMMA SpecCap == Spec => []CapInv
  BY InitCap, NextCap, PTL DEF Spec

(* Whatever the user does, every variable keeps its type: pidVal names a   *)
(* process or is the cap itself, and the process lists hold only numbers   *)
(* sys_execute may give.                                                   *)
THEOREM TypeCorrect == Spec => []TypeOK
  BY SpecCap, PTL DEF CapInv

-----------------------------------------------------------------------------
(* With a user who waits for the three shells, the boot starts them one    *)
(* after the other in terminals without a program, and no shell is ever    *)
(* refused: neither one at boot nor the successor of a first shell.        *)
Started(n) == \A t \in Term : t_init[t] = IF t < n THEN 1 ELSE 0

BootInv ==
  /\ ~Booted => /\ \/ Started(0) /\ schedule_term_ID = 0
                   \/ Started(1) /\ schedule_term_ID = 1
                   \/ Started(2) /\ schedule_term_ID = 2
                   \/ Started(3) /\ schedule_term_ID = 0
                /\ \A t \in Term : Len(processes[t]) <= t_init[t]
  /\ Booted => \A t \in Term : t_init[t] # 0
  /\ status = "starting" =>
       ~Booted /\ t_init[curr_term_ID] = 1 /\ processes[curr_term_ID] = <<>>
  /\ status = "restarting" => Booted /\ Total < MaxProc

(* get_cur_pcb returns the PCB below the kernel stack in use. *)
CurrentPcbOnKernelStack == pidVal = esp0

StackInv == CapInv /\ BootInv /\ CurrentPcbOnKernelStack

LEMMA InitStack == Init => StackInv
<1> SUFFICES ASSUME Init PROVE StackInv
  OBVIOUS
<1>1. Started(0) /\ schedule_term_ID = 0
  BY DEF Init, Started
<1>2. \A t \in Term : Len(processes[t]) <= t_init[t]
  BY DEF Init
<1>3. ~Booted /\ status = "running" /\ pidVal = esp0
  BY DEF Init, Booted
<1> QED
  BY <1>1, <1>2, <1>3, InitCap DEF StackInv, BootInv, CurrentPcbOnKernelStack

(* A shell that the kernel is about to start is within the cap. *)
LEMMA ShellFits ==
  ASSUME StackInv, status \in {"starting", "restarting"}
  PROVE  Total < MaxProc
<1>1. CASE status = "restarting"
  BY <1>1 DEF StackInv, BootInv
<1>2. CASE status = "starting"
  <2> DEFINE L(t) == Len(processes[t])
  <2>1. curr_term_ID \in Term /\ L(curr_term_ID) = 0
    BY <1>2 DEF StackInv, BootInv, CapInv, TypeOK
  <2>2. \A t \in Term : L(t) \in Nat /\ L(t) <= t_init[t] /\ t_init[t] \in {0, 1}
    BY <1>2 DEF StackInv, BootInv, CapInv, TypeOK, Started
  <2>3. L(0) \in {0, 1} /\ L(1) \in {0, 1} /\ L(2) \in {0, 1}
    <3>1. ASSUME NEW t \in Term PROVE L(t) \in {0, 1}
      <4> HIDE DEF L
      <4> QED BY <2>2
    <3> QED BY <3>1
  <2>4. L(0) = 0 \/ L(1) = 0 \/ L(2) = 0
    BY <2>1
  <2>5. Total = L(0) + L(1) + L(2)
    BY DEF Total
  <2> HIDE DEF L
  <2> QED
    BY <2>3, <2>4, <2>5, Caps
<1> QED BY <1>1, <1>2

LEMMA NextStack ==
  ASSUME "early" \notin Freedoms, "refused" \notin Freedoms
  PROVE  StackInv /\ [Next]_vars => StackInv'
<1> SUFFICES ASSUME StackInv, [Next]_vars PROVE StackInv'
  OBVIOUS
<1>0. CapInv' /\ TypeOK /\ BootInv /\ pidVal = esp0
  BY NextCap DEF StackInv, CapInv, CurrentPcbOnKernelStack
<1>a. UserMayAct => Booted
  BY DEF UserMayAct
<1>b. status \in {"running", "starting", "restarting"}
  BY <1>0 DEF TypeOK
<1>1. CASE StartShell
  <2>0. PICK n \in Term : n = schedule_term_ID
    BY <1>0 DEF TypeOK
  <2>1. /\ t_init[n] = 0 /\ t_init' = [t_init EXCEPT ![n] = 1]
        /\ schedule_term_ID' = (n + 1) % 3 /\ curr_term_ID' = n
        /\ status' = "starting" /\ UNCHANGED <<processes, pidVal, esp0>>
    BY <1>1, <2>0 DEF StartShell, SwitchTo
  <2>2. ~Booted /\ Started(n)
    BY <1>0, <2>0, <2>1 DEF BootInv, Started
  <2>3. \A u \in Term : t_init'[u] = IF u < n + 1 THEN 1 ELSE 0
    BY <1>0, <2>1, <2>2 DEF Started, TypeOK
  <2>4. processes[n] = <<>>
    <3>1. Len(processes[n]) <= 0 /\ processes[n] \in Seq(Pid)
      BY <1>0, <2>1, <2>2 DEF BootInv, TypeOK
    <3> QED BY <3>1, EmptySeq
  <2>5. \A u \in Term : Len(processes'[u]) <= t_init'[u]
    BY <1>0, <2>1, <2>2 DEF BootInv, TypeOK
  <2>6. ~Booted' /\ t_init'[n] = 1
    BY <2>3 DEF Booted
  <2>7. \/ Started(1)' /\ schedule_term_ID' = 1
        \/ Started(2)' /\ schedule_term_ID' = 2
        \/ Started(3)' /\ schedule_term_ID' = 0
    <3>1. CASE n = 0 BY <2>1, <2>3, <3>1 DEF Started
    <3>2. CASE n = 1 BY <2>1, <2>3, <3>2 DEF Started
    <3>3. CASE n = 2 BY <2>1, <2>3, <3>3 DEF Started
    <3> QED BY <3>1, <3>2, <3>3
  <2>8. BootInv'
    BY <2>1, <2>4, <2>5, <2>6, <2>7 DEF BootInv
  <2> QED
    BY <1>0, <2>1, <2>8 DEF StackInv, CurrentPcbOnKernelStack
<1>2. CASE RunShell
  <2>1. Total < MaxProc /\ ExecuteRuns(curr_term_ID) /\ Total \in Nat
    BY <1>2, <1>0, ShellFits, TotalType, Caps DEF RunShell
  <2>2. pidVal' = esp0' /\ status' = "running" /\ UNCHANGED boot
    BY <1>2, <2>1 DEF RunShell, ExecuteRuns, Enter
  <2>3. ~Booted => \A u \in Term : Len(processes'[u]) <= t_init[u]
    <3> SUFFICES ASSUME ~Booted, NEW u \in Term PROVE Len(processes'[u]) <= t_init[u]
      OBVIOUS
    <3>1. status = "starting" /\ curr_term_ID \in Term
      BY <1>0, <1>2 DEF RunShell, BootInv, TypeOK
    <3>2. /\ processes[curr_term_ID] = <<>> /\ processes[curr_term_ID] \in Seq(Pid)
          /\ processes' = [processes EXCEPT ![curr_term_ID] =
                             Append(processes[curr_term_ID], NewPid(curr_term_ID))]
      BY <1>0, <2>1, <3>1 DEF ExecuteRuns, BootInv, TypeOK
    <3>3. NewPid(curr_term_ID) \in Pid
      BY <1>0, <2>1, <3>1, ExecuteType
    <3>4. Len(processes'[curr_term_ID]) = 1
      <4>1. Len(Append(processes[curr_term_ID], NewPid(curr_term_ID))) = 0 + 1
        BY <3>2, <3>3, AppendProperties, EmptySeq
      <4> QED BY <1>0, <3>1, <3>2, <4>1 DEF TypeOK
    <3>5. CASE u = curr_term_ID
      <4>1. t_init[u] = 1
        BY <1>0, <3>1, <3>5 DEF BootInv
      <4> QED BY <3>5, <3>4, <4>1
    <3>6. CASE u # curr_term_ID
      BY <1>0, <3>2, <3>6 DEF BootInv, TypeOK
    <3> QED BY <3>5, <3>6
  <2> QED
    BY <1>0, <2>2, <2>3 DEF StackInv, BootInv, CurrentPcbOnKernelStack, boot, Booted, Started
<1>3. CASE Scheduler
  <2>1. /\ ~Booted /\ t_init[schedule_term_ID] # 0
        /\ t_init' = [t_init EXCEPT ![0] = 2]
        /\ UNCHANGED <<schedule_term_ID, processes, pidVal, esp0, status>>
    BY <1>3 DEF Scheduler, Booted
  <2>2. \A t \in Term : t_init[t] = 1
    BY <1>0, <1>3, <2>1 DEF Scheduler, BootInv, Started
  <2>3. Booted' /\ \A t \in Term : t_init'[t] # 0
    BY <1>0, <2>1, <2>2 DEF Booted, TypeOK
  <2>4. status = "running"
    BY <1>0, <1>b, <1>3, <2>1 DEF Scheduler, Interruptible, BootInv
  <2> QED
    BY <1>0, <2>1, <2>3, <2>4 DEF StackInv, BootInv, CurrentPcbOnKernelStack
<1>4. ASSUME NEW t \in Term, KeySwitch(t) PROVE StackInv'
  <2>1. /\ Booted /\ status # "starting"
        /\ UNCHANGED <<boot, processes, pidVal, esp0, status>>
    BY <1>0, <1>a, <1>4 DEF KeySwitch, BootInv
  <2>2. Booted' /\ Total' = Total
    BY <2>1 DEF boot, Booted, Total
  <2> QED
    BY <1>0, <2>1, <2>2 DEF StackInv, BootInv, CurrentPcbOnKernelStack, boot
<1>5. CASE KeySchedule
  <2>1. /\ Booted /\ status # "starting"
        /\ UNCHANGED <<t_init, processes, pidVal, esp0, status>>
    BY <1>0, <1>a, <1>5 DEF KeySchedule, BootInv, cpu
  <2>2. Booted' /\ Total' = Total
    BY <2>1 DEF Booted, Total
  <2> QED
    BY <1>0, <2>1, <2>2 DEF StackInv, BootInv, CurrentPcbOnKernelStack
<1>6. CASE SysExecute
  <2>1. Booted /\ status' = "running" /\ ExecuteRuns(curr_term_ID) /\ UNCHANGED boot
    BY <1>a, <1>6 DEF SysExecute
  <2>2. pidVal' = esp0'
    BY <2>1 DEF ExecuteRuns, Enter
  <2> QED
    BY <1>0, <2>1, <2>2 DEF StackInv, BootInv, CurrentPcbOnKernelStack, boot, Booted
<1>7. CASE SysHaltBase
  <2>1. Booted /\ status' = "restarting" /\ UNCHANGED <<boot, pidVal, esp0>>
    BY <1>a, <1>7 DEF SysHaltBase, MayHalt, cpu
  <2>2. Total' = Total - 1 /\ Total \in Nat /\ Total <= MaxProc
    BY <1>0, <1>7, CountOffType, TotalType DEF SysHaltBase, StackInv, CapInv, TotalWithinCap
  <2>3. Total' < MaxProc
    BY <2>2, Caps
  <2> QED
    BY <1>0, <2>1, <2>3 DEF StackInv, BootInv, CurrentPcbOnKernelStack, boot, Booted
<1>8. CASE SysHaltToParent
  <2>1. Booted /\ status' = "running" /\ pidVal' = esp0' /\ UNCHANGED boot
    BY <1>a, <1>8 DEF SysHaltToParent, MayHalt, Enter
  <2> QED
    BY <1>0, <2>1 DEF StackInv, BootInv, CurrentPcbOnKernelStack, boot, Booted
<1>9. CASE UNCHANGED vars
  BY <1>0, <1>9 DEF vars, boot, cpu, StackInv, BootInv, CurrentPcbOnKernelStack, Booted,
                    Started, Total
<1> QED
  BY <1>1, <1>2, <1>3, <1>4, <1>5, <1>6, <1>7, <1>8, <1>9 DEF Next

-----------------------------------------------------------------------------
(***************************************************************************)
(* An orderly user (Freedoms = {}): the five copies of "the current       *)
(* process" agree, no saved frame is followed that has been overwritten,   *)
(* and the kernel is the stack of programs that Sessions.tla promises.     *)
(***************************************************************************)

(* The process number of the i-th program of terminal t: only the terminal *)
(* on the screen has more than its first shell.                            *)
Number(t, i) == IF i = 1 THEN t ELSE i + 1

L(t) == Len(processes[t])

Numbered == \A t \in Term : \A i \in 1..L(t) : processes[t][i] = Number(t, i)

(* How many programs each terminal has. *)
Counted == /\ \A t \in Term \ {curr_term_ID} : L(t) = IF t_init[t] = 0 THEN 0 ELSE 1
           /\ status = "running" => (L(curr_term_ID) = 0 <=> t_init[curr_term_ID] = 0)
           /\ status # "running" => L(curr_term_ID) = 0 /\ t_init[curr_term_ID] # 0
           /\ ~Booted => L(curr_term_ID) <= 1

OnPage == status = "running" /\ L(curr_term_ID) # 0 => page = Top(curr_term_ID)

(* A program above a first shell was started last, is the current process   *)
(* and the one whose registers are in use; where there is none, the first   *)
(* shell of the terminal used last is.                                     *)
InFront == IF L(curr_term_ID) > 1
           THEN used = curr_term_ID /\ pidVal = Top(curr_term_ID) /\ regs = pidVal
           ELSE pidVal = used

(* The frame to return to lies on the stack of the program below, or on    *)
(* that of the first shell that was current when the second one started.   *)
Framed == \A i \in 2..L(curr_term_ID) :
            /\ frame[i + 1] # NoFrame
            /\ i = 2 => frame[i + 1].stack \in Term
            /\ i # 2 => frame[i + 1] = [stack |-> i, regs |-> i]

OrderlyInv == Numbered /\ Counted /\ OnPage /\ InFront /\ Framed /\ ParentChain

-----------------------------------------------------------------------------
USE DEF Term, Pid, NoPid

(* Adding to a list, and the ends of both. *)
LEMMA AppendList ==
  ASSUME NEW S, NEW s \in Seq(S), NEW e \in S
  PROVE  /\ Append(s, e) \in Seq(S) /\ Len(Append(s, e)) = Len(s) + 1
         /\ Append(s, e) # <<>>
         /\ \A i \in 1..Len(s) : Append(s, e)[i] = s[i]
         /\ Append(s, e)[Len(s) + 1] = e
         /\ Last(Append(s, e)) = e
<1>1. /\ Append(s, e) \in Seq(S) /\ Len(Append(s, e)) = Len(s) + 1
      /\ \A i \in 1..Len(s) : Append(s, e)[i] = s[i]
      /\ Append(s, e)[Len(s) + 1] = e
  BY AppendProperties
<1>2. Len(s) \in Nat
  BY LenProperties
<1>3. Append(s, e) # <<>>
  BY <1>1, <1>2, EmptySeq
<1> QED
  BY <1>1, <1>3 DEF Last

LEMMA LastIs ==
  ASSUME NEW S, NEW s \in Seq(S)
  PROVE  /\ Len(s) \in Nat
         /\ s = <<>> <=> Len(s) = 0
         /\ s # <<>> => Last(s) = s[Len(s)]
  BY LenProperties, EmptySeq DEF Last

LEMMA Lengths ==
  ASSUME TypeOK
  PROVE  /\ \A t \in Term : /\ L(t) \in Nat /\ processes[t] \in Seq(Pid)
                            /\ processes[t] = <<>> <=> L(t) = 0
                            /\ processes[t] # <<>> => Last(processes[t]) = processes[t][L(t)]
         /\ Total = L(0) + L(1) + L(2)
<1>1. ASSUME NEW t \in Term
      PROVE  /\ L(t) \in Nat /\ processes[t] \in Seq(Pid)
             /\ processes[t] = <<>> <=> L(t) = 0
             /\ processes[t] # <<>> => Last(processes[t]) = processes[t][L(t)]
  <2>1. processes[t] \in Seq(Pid)
    BY DEF TypeOK
  <2> QED BY <2>1, LastIs DEF L
<1> QED BY <1>1 DEF Total, L

(* The newest program of a terminal has the last number. *)
LEMMA TopNumber ==
  ASSUME TypeOK, Numbered, NEW t \in Term, L(t) # 0
  PROVE  /\ processes[t] # <<>> /\ Top(t) = Number(t, L(t))
         /\ Last(processes[t]) = Number(t, L(t))
<1>1. L(t) \in Nat /\ processes[t] # <<>> /\ Last(processes[t]) = processes[t][L(t)]
  BY Lengths
<1>2. L(t) \in 1..L(t)
  BY <1>1
<1> QED
  BY <1>1, <1>2 DEF Numbered, Top

-----------------------------------------------------------------------------
(* What is known when sys_execute runs a program in the terminal on the    *)
(* screen, which has k of them.                                            *)
ExecuteDue == /\ StackInv /\ OrderlyInv
              /\ status # "running" \/ Booted
              /\ Total < MaxProc

LEMMA NumberGiven ==
  ASSUME ExecuteDue
  PROVE  /\ NewPid(curr_term_ID) = Number(curr_term_ID, L(curr_term_ID) + 1)
         /\ L(curr_term_ID) # 0 => \A t \in Term \ {curr_term_ID} : L(t) = 1
<1> DEFINE c == curr_term_ID
<1>0. TypeOK /\ c \in Term
  BY DEF ExecuteDue, StackInv, CapInv, TypeOK
<1>1. /\ \A t \in Term : L(t) \in Nat
      /\ Total = L(0) + L(1) + L(2)
  BY <1>0, Lengths
<1>2. \A t \in Term \ {c} : L(t) = 0 \/ L(t) = 1
  BY DEF ExecuteDue, OrderlyInv, Counted
<1>3. ASSUME L(c) # 0 PROVE \A t \in Term \ {c} : L(t) = 1
  BY <1>3 DEF ExecuteDue, OrderlyInv, Counted, StackInv, BootInv
<1>4. CASE L(c) = 0
  <2>1. Total <= 2
    <3>1. CASE c = 0 BY <1>1, <1>2, <1>4, <3>1
    <3>2. CASE c = 1 BY <1>1, <1>2, <1>4, <3>2
    <3>3. CASE c = 2 BY <1>1, <1>2, <1>4, <3>3
    <3> QED BY <1>0, <3>1, <3>2, <3>3
  <2> QED BY <1>4, <2>1 DEF NewPid, Number
<1>5. CASE L(c) # 0
  <2>1. Total = L(c) + 2
    <3>1. CASE c = 0 BY <1>1, <1>3, <1>5, <3>1
    <3>2. CASE c = 1 BY <1>1, <1>3, <1>5, <3>2
    <3>3. CASE c = 2 BY <1>1, <1>3, <1>5, <3>3
    <3> QED BY <1>0, <3>1, <3>2, <3>3
  <2>2. L(c) \in Nat
    BY <1>0, <1>1
  <2> QED BY <1>3, <1>5, <2>1, <2>2 DEF NewPid, Number
<1> QED BY <1>4, <1>5

(* No running program has that number. *)
LEMMA NewIsNew ==
  ASSUME ExecuteDue, ExecuteRuns(curr_term_ID)
  PROVE  /\ NewPid(curr_term_ID) \in Pid
         /\ \A t \in Term : \A i \in DOMAIN processes[t] :
              processes[t][i] \in Pid /\ processes[t][i] # NewPid(curr_term_ID)
<1>0. TypeOK /\ OrderlyInv /\ curr_term_ID \in Term
  BY DEF ExecuteDue, StackInv, CapInv, TypeOK
<1>1. NewPid(curr_term_ID) \in Pid
  BY <1>0, ExecuteType DEF ExecuteDue
<1>2. PICK c \in Term : c = curr_term_ID
  BY <1>0
<1>3. PICK k \in Nat : k = L(c)
  BY <1>0, Lengths
<1>4. NewPid(curr_term_ID) = IF k = 0 THEN c ELSE k + 2
  BY <1>2, <1>3, NumberGiven DEF Number
<1>5. ASSUME NEW t \in Term, NEW i \in DOMAIN processes[t]
      PROVE  processes[t][i] \in Pid /\ processes[t][i] # NewPid(curr_term_ID)
  <2>1. i \in 1..L(t) /\ processes[t] \in Seq(Pid) /\ L(t) \in Nat
    BY <1>0, Lengths, LenProperties DEF L
  <2>2. processes[t][i] \in Pid /\ processes[t][i] = Number(t, i)
    BY <1>0, <2>1, ElementOfSeq DEF OrderlyInv, Numbered, L
  <2>3. CASE t = c
    BY <1>3, <1>4, <2>1, <2>2, <2>3 DEF Number
  <2>4. CASE t # c
    <3>1. i = 1
      BY <1>0, <1>2, <2>1, <2>4 DEF OrderlyInv, Counted
    <3> QED BY <1>4, <2>2, <2>4, <3>1 DEF Number
  <2> QED BY <2>3, <2>4
<1> QED BY <1>1, <1>5

LEMMA RunsOrderly ==
  ASSUME ExecuteDue, ExecuteRuns(curr_term_ID), CapInv',
         status' = "running", UNCHANGED <<curr_term_ID, boot>>
  PROVE  OrderlyInv'
<1>0. TypeOK /\ TypeOK' /\ OrderlyInv /\ pidVal = esp0 /\ curr_term_ID' = curr_term_ID
  BY DEF ExecuteDue, StackInv, CapInv, CurrentPcbOnKernelStack
<1>a. PICK c \in Term : c = curr_term_ID
  BY <1>0 DEF TypeOK
<1>b. PICK k \in Nat : k = L(c)
  BY <1>0, Lengths
<1>c. PICK new \in Pid : new = NewPid(c)
  BY <1>0, <1>a, ExecuteType DEF ExecuteDue
<1>1. /\ processes[c] \in Seq(Pid) /\ k = Len(processes[c])
      /\ processes[c] = <<>> <=> k = 0
  BY <1>0, <1>b, Lengths DEF L
<1>2. new = IF k = 0 THEN c ELSE k + 2
  BY <1>a, <1>b, <1>c, NumberGiven DEF Number
<1>3. \A t \in Term \ {c} : L(t) = 0 \/ L(t) = 1
  BY <1>0, <1>a DEF OrderlyInv, Counted
<1>4. /\ pcb' = [pcb EXCEPT ![new] = [Parent_id |-> ParentIn(c), term_id |-> c]]
      /\ processes' = [processes EXCEPT ![c] = Append(processes[c], new)]
      /\ pidVal' = new /\ page' = new /\ esp0' = new /\ regs' = new /\ used' = c
      /\ frame' = Overwrite([frame EXCEPT ![new] = [stack |-> esp0, regs |-> regs]], new)
  BY <1>a, <1>c DEF ExecuteRuns, Enter
<1>5. /\ processes'[c] = Append(processes[c], new)
      /\ \A t \in Term \ {c} : processes'[t] = processes[t]
  BY <1>0, <1>4 DEF TypeOK
<1>6. /\ Len(processes'[c]) = k + 1
      /\ \A i \in 1..k : processes'[c][i] = processes[c][i]
      /\ processes'[c][k + 1] = new
      /\ Last(processes'[c]) = new /\ processes'[c] # <<>>
  <2> DEFINE s == processes[c]
  <2>1. s \in Seq(Pid) /\ new \in Pid
    BY <1>1
  <2>2. processes'[c] = Append(s, new) /\ k = Len(s)
    BY <1>1, <1>5
  <2> HIDE DEF s, Pid
  <2>3. /\ Len(Append(s, new)) = Len(s) + 1 /\ Append(s, new) # <<>>
        /\ \A i \in 1..Len(s) : Append(s, new)[i] = s[i]
        /\ Append(s, new)[Len(s) + 1] = new /\ Last(Append(s, new)) = new
    BY <2>1, AppendList
  <2>4. /\ Len(processes'[c]) = k + 1 /\ processes'[c] # <<>>
        /\ \A i \in 1..k : processes'[c][i] = s[i]
        /\ processes'[c][k + 1] = new /\ Last(processes'[c]) = new
    BY <2>2, <2>3
  <2> QED BY <2>4 DEF s
<1>d. L(c)' = k + 1 /\ \A t \in Term \ {c} : L(t)' = L(t)
  BY <1>5, <1>6 DEF L
<1>7. \A i \in 1..k : processes[c][i] = Number(c, i)
  BY <1>0, <1>b DEF OrderlyInv, Numbered
<1>8. \A i \in 1..k+1 : processes'[c][i] = Number(c, i)
  <2>1. Number(c, k + 1) = new
    BY <1>2 DEF Number
  <2> QED BY <1>6, <1>7, <2>1
<1>9. Numbered'
  <2>1. ASSUME NEW t \in Term \ {c} PROVE \A i \in 1..L(t) : processes'[t][i] = Number(t, i)
    BY <1>0, <1>5 DEF OrderlyInv, Numbered
  <2> QED BY <1>d, <1>8, <2>1 DEF Numbered
<1>10. t_init[c] # 0
  BY <1>0, <1>a DEF ExecuteDue, OrderlyInv, Counted, StackInv, BootInv
<1>11. ~Booted => k = 0
  BY <1>0, <1>a, <1>b DEF ExecuteDue, OrderlyInv, Counted
<1>12. Counted'
  BY <1>0, <1>a, <1>d, <1>10, <1>11 DEF Counted, OrderlyInv, boot, Booted
<1>13. OnPage'
  BY <1>0, <1>a, <1>4, <1>6 DEF OnPage, Top
<1>14. InFront'
  BY <1>0, <1>a, <1>2, <1>4, <1>6, <1>d DEF InFront, Top
<1>15. Framed'
  <2> SUFFICES ASSUME NEW i \in 2..k+1
               PROVE  /\ frame'[i + 1] # NoFrame
                      /\ i = 2 => frame'[i + 1].stack \in Term
                      /\ i # 2 => frame'[i + 1] = [stack |-> i, regs |-> i]
    BY <1>0, <1>a, <1>d DEF Framed
  <2>0. k # 0 /\ new = k + 2
    BY <1>2
  <2>1. i + 1 \in Pid /\ i + 1 <= new /\ 3 <= i + 1
    BY <2>0, Caps
  <2> DEFINE f == [frame EXCEPT ![new] = [stack |-> esp0, regs |-> regs]]
  <2>2. frame'[i + 1] = IF f[i + 1] # NoFrame /\ f[i + 1].stack = new THEN NoFrame ELSE f[i + 1]
    BY <1>4, <2>1 DEF Overwrite
  <2>3. CASE i = k + 1
    <3>0. i + 1 = new
      BY <2>0, <2>3
    <3>1. f[i + 1] = [stack |-> esp0, regs |-> regs]
      BY <1>0, <3>0 DEF TypeOK
    <3>2. f[i + 1].stack = esp0 /\ f[i + 1] # NoFrame
      <4>1. esp0 \in Pid /\ regs \in Pid \cup {NoPid}
        BY <1>0 DEF TypeOK
      <4>2. f[i + 1] \in Frame
        BY <3>1, <4>1 DEF Frame
      <4> QED BY <3>1, <4>2, ProcessesAssumption
    <3> HIDE DEF f
    <3>3. CASE k = 1
      <4>1. esp0 \in Term /\ new = 3
        BY <1>0, <1>a, <1>b, <2>0, <3>3 DEF OrderlyInv, InFront, TypeOK
      <4> QED BY <2>2, <2>3, <3>2, <3>3, <4>1
    <3>4. CASE k # 1
      <4>1. esp0 = Top(c) /\ regs = esp0
        BY <1>0, <1>a, <1>b, <2>0, <3>4 DEF OrderlyInv, InFront
      <4>2. Top(c) = Number(c, k)
        BY <1>0, <1>b, <2>0, TopNumber DEF OrderlyInv
      <4>3. Top(c) = k + 1
        BY <3>4, <4>2 DEF Number
      <4>4. esp0 = i /\ regs = i /\ new # i /\ i # 2
        BY <2>0, <2>3, <3>4, <4>1, <4>3
      <4> QED BY <2>2, <3>1, <3>2, <4>4
    <3> QED BY <3>3, <3>4
  <2>4. CASE i # k + 1
    <3>1. i \in 2..k /\ i + 1 # new /\ i # new /\ new \notin Term
      BY <2>0, <2>4
    <3>2. f[i + 1] = frame[i + 1]
      BY <1>0, <2>1, <3>1 DEF TypeOK
    <3> HIDE DEF f
    <3>3. /\ frame[i + 1] # NoFrame
          /\ i = 2 => frame[i + 1].stack \in Term
          /\ i # 2 => frame[i + 1] = [stack |-> i, regs |-> i]
      BY <1>0, <1>a, <1>b, <3>1 DEF OrderlyInv, Framed
    <3>5. frame[i + 1].stack # new
      <4>1. CASE i = 2 BY <3>1, <3>3, <4>1
      <4>2. CASE i # 2 BY <3>1, <3>3, <4>2
      <4> QED BY <4>1, <4>2
    <3> QED BY <2>2, <3>2, <3>3, <3>5
  <2> QED BY <2>3, <2>4
<1>16. ParentChain'
  <2>1. \A t \in Term : DOMAIN processes[t] = 1..L(t) /\ \A i \in 1..L(t) : processes[t][i] \in Pid
    BY <1>0, Lengths, LenProperties, ElementOfSeq DEF L
  <2>2. \A t \in Term : DOMAIN processes'[t] = 1..L(t)'
    <3>1. \A t \in Term : processes'[t] \in Seq(Pid)
      BY <1>0 DEF TypeOK
    <3> QED BY <3>1, LenProperties DEF L
  <2>3. \A t \in Term : \A i \in 1..L(t) : processes[t][i] # new
    BY <1>a, <1>c, <2>1, NewIsNew
  <2>4. \A i \in 1..k : processes[c][i] # new
    BY <1>b, <2>3
  <2>5. /\ \A p \in Pid : p # new => pcb'[p] = pcb[p]
        /\ pcb'[new] = [Parent_id |-> ParentIn(c), term_id |-> c]
    BY <1>0, <1>4 DEF TypeOK
  <2>6. ParentIn(c) = IF k = 0 THEN NoPid ELSE processes[c][k]
    BY <1>0, <1>b, Lengths DEF ParentIn
  <2>7. ASSUME NEW t \in Term \ {c}, NEW i \in 1..L(t)
        PROVE  pcb'[processes'[t][i]] =
                 [Parent_id |-> IF i = 1 THEN NoPid ELSE processes'[t][i-1], term_id |-> t]
    <3>1. pcb[processes[t][i]] =
            [Parent_id |-> IF i = 1 THEN NoPid ELSE processes[t][i-1], term_id |-> t]
      BY <1>0, <2>1, <2>7 DEF OrderlyInv, ParentChain
    <3> QED BY <1>5, <2>1, <2>3, <2>5, <2>7, <3>1
  <2>8. ASSUME NEW i \in 1..k+1
        PROVE  pcb'[processes'[c][i]] =
                 [Parent_id |-> IF i = 1 THEN NoPid ELSE processes'[c][i-1], term_id |-> c]
    <3>1. CASE i = k + 1
      <4>1. processes'[c][i] = new /\ (k = 0 <=> i = 1)
        BY <1>6, <3>1
      <4>2. k # 0 => processes'[c][i-1] = processes[c][k]
        BY <1>6, <3>1
      <4> QED BY <2>5, <2>6, <4>1, <4>2
    <3>2. CASE i # k + 1
      <4>1. i \in 1..k
        BY <3>2
      <4>2. processes'[c][i] = processes[c][i] /\ (i # 1 => processes'[c][i-1] = processes[c][i-1])
        BY <1>6, <4>1
      <4>3. /\ i \in DOMAIN processes[c] /\ processes[c][i] \in Pid
            /\ processes[c][i] # new
        BY <1>b, <2>1, <2>4, <4>1
      <4>4. pcb[processes[c][i]] =
              [Parent_id |-> IF i = 1 THEN NoPid ELSE processes[c][i-1], term_id |-> c]
        BY <1>0, <4>3 DEF OrderlyInv, ParentChain
      <4> QED BY <2>5, <4>2, <4>3, <4>4
    <3> QED BY <3>1, <3>2
  <2> SUFFICES ASSUME NEW t \in Term, NEW i \in DOMAIN processes'[t]
               PROVE  pcb'[processes'[t][i]] =
                        [Parent_id |-> IF i = 1 THEN NoPid ELSE processes'[t][i-1], term_id |-> t]
    BY DEF ParentChain
  <2>9. i \in 1..L(t)'
    BY <2>2
  <2>10. CASE t = c
    <3>1. i \in 1..k+1
      BY <1>d, <2>9, <2>10
    <3> QED BY <2>8, <2>10, <3>1
  <2>11. CASE t # c
    BY <1>d, <2>7, <2>9, <2>11
  <2> QED BY <2>10, <2>11
<1> QED
  BY <1>9, <1>12, <1>13, <1>14, <1>15, <1>16 DEF OrderlyInv

-----------------------------------------------------------------------------
(* What is known when a program may end: it is the newest one of the        *)
(* terminal on the screen, and its PCB names the one below.                 *)
LEMMA EndDue ==
  ASSUME StackInv, OrderlyInv, Freedoms = {}, MayHalt,
         NEW c \in Term, c = curr_term_ID, NEW k \in Nat, k = L(c)
  PROVE  /\ Booted /\ status = "running" /\ k # 0
         /\ pidVal = Number(c, k) /\ pidVal = processes[c][k] /\ pidVal \in Pid
         /\ pcb[pidVal] = [Parent_id |-> IF k = 1 THEN NoPid ELSE processes[c][k-1],
                           term_id |-> c]
         /\ processes[c] # <<>>
         /\ k # 1 => /\ processes[c][k-1] = Number(c, k-1)
                     /\ processes[c][k-1] \in Pid /\ pidVal = k + 1
<1>1. TypeOK
  BY DEF StackInv, CapInv
<1>2. Booted /\ status = "running" /\ (k > 1 \/ used = c)
  BY DEF MayHalt, Interruptible, UserMayAct, L
<1>3. k # 0
  BY <1>1, <1>2 DEF OrderlyInv, Counted, StackInv, BootInv
<1>4. processes[c] # <<>> /\ pidVal = Number(c, k)
  <2>1. processes[c] # <<>> /\ Top(c) = Number(c, k)
    BY <1>1, <1>3, TopNumber DEF OrderlyInv
  <2>2. CASE k > 1
    BY <2>1, <2>2 DEF OrderlyInv, InFront
  <2>3. CASE ~(k > 1)
    <3>1. k = 1 /\ used = c
      BY <1>2, <1>3, <2>3
    <3> QED BY <2>1, <3>1 DEF OrderlyInv, InFront, Number
  <2> QED BY <2>2, <2>3
<1>5. \A i \in 1..k : processes[c][i] = Number(c, i) /\ processes[c][i] \in Pid
  BY <1>1, Lengths, ElementOfSeq DEF OrderlyInv, Numbered, L
<1>6. k \in DOMAIN processes[c]
  BY <1>1, <1>3, Lengths, LenProperties DEF L
<1>7. pidVal = processes[c][k] /\ pidVal \in Pid
  BY <1>3, <1>4, <1>5
<1>8. pcb[processes[c][k]] =
        [Parent_id |-> IF k = 1 THEN NoPid ELSE processes[c][k-1], term_id |-> c]
  BY <1>6 DEF OrderlyInv, ParentChain
<1>9. k # 1 => k - 1 \in 1..k
  BY <1>3
<1>10. k # 1 => pidVal = k + 1
  BY <1>4 DEF Number
<1> QED
  BY <1>2, <1>3, <1>4, <1>5, <1>7, <1>8, <1>9, <1>10

(* The frame a program on top of a first shell returns to. *)
LEMMA FrameDue ==
  ASSUME OrderlyInv, NEW c \in Term, c = curr_term_ID, NEW k \in Nat, k = L(c), k > 1
  PROVE  /\ frame[k + 1] # NoFrame
         /\ k # 2 => frame[k + 1] = [stack |-> k, regs |-> k]
<1>1. k \in 2..L(curr_term_ID)
  OBVIOUS
<1> QED BY <1>1 DEF OrderlyInv, Framed

(* The newest program is counted off. *)
LEMMA CountedOff ==
  ASSUME TypeOK, TypeOK', OrderlyInv, NEW c \in Term, NEW k \in Nat, k = L(c), k # 0,
         pcb[pidVal].term_id = c, CountOff(pidVal), UNCHANGED pcb
  PROVE  /\ L(c)' = k - 1 /\ \A t \in Term \ {c} : L(t)' = L(t)
         /\ \A i \in 1..k-1 : processes'[c][i] = processes[c][i]
         /\ k # 1 => Last(processes'[c]) = processes[c][k-1] /\ processes'[c] # <<>>
         /\ Numbered' /\ ParentChain'
<1>1. /\ processes[c] \in Seq(Pid) /\ processes[c] # <<>> /\ k = Len(processes[c])
      /\ processes' = [processes EXCEPT ![c] = Front(processes[c])]
  BY Lengths DEF CountOff, L
<1>2. /\ processes'[c] = Front(processes[c])
      /\ \A t \in Term \ {c} : processes'[t] = processes[t]
  BY <1>1 DEF TypeOK
<1>3. /\ Len(processes'[c]) = k - 1
      /\ \A i \in 1..k-1 : processes'[c][i] = processes[c][i]
  BY <1>1, <1>2, LastFront
<1>4. L(c)' = k - 1 /\ \A t \in Term \ {c} : L(t)' = L(t)
  BY <1>2, <1>3 DEF L
<1>5. \A t \in Term : processes'[t] \in Seq(Pid) /\ processes[t] \in Seq(Pid)
  BY DEF TypeOK
<1>6. k # 1 => Last(processes'[c]) = processes[c][k-1] /\ processes'[c] # <<>>
  <2> SUFFICES ASSUME k # 1
               PROVE  Last(processes'[c]) = processes[c][k-1] /\ processes'[c] # <<>>
    OBVIOUS
  <2>1. k - 1 \in 1..k-1
    OBVIOUS
  <2>2. processes'[c] # <<>>
    BY <1>3, <1>5, <2>1, EmptySeq
  <2> QED BY <1>3, <2>1, <2>2 DEF Last
<1>7. Numbered'
  <2>1. \A i \in 1..k-1 : processes'[c][i] = Number(c, i)
    <3>1. \A i \in 1..k-1 : i \in 1..k
      OBVIOUS
    <3> QED BY <1>3, <3>1 DEF OrderlyInv, Numbered
  <2>2. \A t \in Term \ {c} : \A i \in 1..L(t) : processes'[t][i] = Number(t, i)
    BY <1>2 DEF OrderlyInv, Numbered
  <2> QED BY <1>4, <2>1, <2>2 DEF Numbered
<1>8. ParentChain'
  <2> SUFFICES ASSUME NEW t \in Term, NEW i \in DOMAIN processes'[t]
               PROVE  pcb[processes'[t][i]] =
                        [Parent_id |-> IF i = 1 THEN NoPid ELSE processes'[t][i-1], term_id |-> t]
    BY DEF ParentChain
  <2>1. CASE t # c
    BY <1>2, <2>1 DEF OrderlyInv, ParentChain
  <2>2. CASE t = c
    <3>1. i \in 1..k-1
      BY <1>3, <1>5, <2>2, LenProperties
    <3>2. /\ processes'[c][i] = processes[c][i]
          /\ i # 1 => processes'[c][i-1] = processes[c][i-1]
      BY <1>3, <3>1
    <3>3. i \in DOMAIN processes[c]
      BY <1>1, <3>1, LenProperties
    <3>4. pcb[processes[c][i]] =
            [Parent_id |-> IF i = 1 THEN NoPid ELSE processes[c][i-1], term_id |-> c]
      BY <3>3 DEF OrderlyInv, ParentChain
    <3> QED BY <2>2, <3>2, <3>4
  <2> QED BY <2>1, <2>2
<1> QED
  BY <1>3, <1>4, <1>6, <1>7, <1>8

LEMMA HaltBaseOrderly ==
  ASSUME StackInv, OrderlyInv, CapInv', Freedoms = {}, SysHaltBase
  PROVE  OrderlyInv'
<1>0. TypeOK /\ TypeOK' /\ curr_term_ID \in Term
  BY DEF StackInv, CapInv, TypeOK
<1>1. PICK c \in Term : c = curr_term_ID
  BY <1>0
<1>2. PICK k \in Nat : k = L(c)
  BY <1>0, Lengths
<1>3. /\ MayHalt /\ CountOff(pidVal) /\ status' = "restarting"
      /\ pcb[pidVal].Parent_id = NoPid
      /\ UNCHANGED <<curr_term_ID, boot, pcb, cpu, used>>
  BY DEF SysHaltBase
<1>4. /\ Booted /\ k # 0 /\ pidVal = Number(c, k)
      /\ pcb[pidVal] = [Parent_id |-> IF k = 1 THEN NoPid ELSE processes[c][k-1],
                        term_id |-> c]
      /\ k # 1 => processes[c][k-1] \in Pid
  BY <1>1, <1>2, <1>3, EndDue
<1>5. k = 1 /\ pcb[pidVal].term_id = c
  BY <1>3, <1>4
<1>6. L(c)' = 0 /\ (\A t \in Term \ {c} : L(t)' = L(t)) /\ Numbered' /\ ParentChain'
  <2>1. UNCHANGED pcb
    BY <1>3
  <2>2. L(c)' = k - 1 /\ (\A t \in Term \ {c} : L(t)' = L(t)) /\ Numbered' /\ ParentChain'
    BY <1>0, <1>2, <1>3, <1>4, <1>5, <2>1, CountedOff
  <2> QED BY <1>5, <2>2
<1>7. Counted'
  BY <1>1, <1>3, <1>4, <1>6 DEF OrderlyInv, Counted, StackInv, BootInv, boot, Booted
<1>8. InFront'
  <2>1. pidVal = used
    BY <1>1, <1>2, <1>5 DEF OrderlyInv, InFront
  <2> QED BY <1>1, <1>3, <1>6, <2>1 DEF InFront, cpu
<1>9. OnPage' /\ Framed'
  BY <1>1, <1>3, <1>6 DEF OnPage, Framed
<1> QED BY <1>6, <1>7, <1>8, <1>9 DEF OrderlyInv

LEMMA HaltToParentOrderly ==
  ASSUME StackInv, OrderlyInv, CapInv', Freedoms = {}, SysHaltToParent
  PROVE  OrderlyInv'
<1>0. TypeOK /\ TypeOK' /\ curr_term_ID \in Term
  BY DEF StackInv, CapInv, TypeOK
<1>1. PICK c \in Term : c = curr_term_ID
  BY <1>0
<1>2. PICK k \in Nat : k = L(c)
  BY <1>0, Lengths
<1>3. /\ MayHalt /\ CountOff(pidVal) /\ status' = "running"
      /\ pcb[pidVal].Parent_id # NoPid
      /\ Enter(pcb[pidVal].Parent_id, frame[pidVal].regs, frame)
      /\ UNCHANGED <<curr_term_ID, boot, pcb, used>>
  BY DEF SysHaltToParent
<1>4. /\ Booted /\ k # 0 /\ pidVal \in Pid
      /\ pcb[pidVal] = [Parent_id |-> IF k = 1 THEN NoPid ELSE processes[c][k-1],
                        term_id |-> c]
      /\ k # 1 => /\ processes[c][k-1] = Number(c, k-1)
                  /\ processes[c][k-1] \in Pid /\ pidVal = k + 1
  BY <1>1, <1>2, <1>3, EndDue
<1>5. k > 1 /\ pcb[pidVal].term_id = c
  BY <1>3, <1>4
<1>a. PICK p \in Pid : p = processes[c][k-1]
  BY <1>4, <1>5
<1>b. p = (IF k = 2 THEN c ELSE k) /\ pidVal = k + 1
  BY <1>4, <1>5, <1>a DEF Number
<1>6. /\ L(c)' = k - 1 /\ \A t \in Term \ {c} : L(t)' = L(t)
      /\ Numbered' /\ ParentChain'
      /\ Last(processes'[c]) = p /\ processes'[c] # <<>>
  BY <1>0, <1>2, <1>3, <1>4, <1>5, <1>a, CountedOff
<1>7. Counted'
  BY <1>1, <1>3, <1>4, <1>5, <1>6 DEF OrderlyInv, Counted, StackInv, BootInv, boot, Booted
<1>8. /\ pidVal' = p /\ page' = p /\ regs' = frame[k + 1].regs
      /\ frame' = Overwrite(frame, p)
  BY <1>3, <1>4, <1>5, <1>a, <1>b DEF Enter
<1>9. OnPage'
  BY <1>1, <1>3, <1>6, <1>8 DEF OnPage, Top
<1>10. InFront'
  <2>0. used = c
    BY <1>1, <1>2, <1>5 DEF OrderlyInv, InFront
  <2>1. CASE k = 2
    BY <1>1, <1>3, <1>6, <1>8, <1>b, <2>0, <2>1 DEF InFront
  <2>2. CASE k # 2
    <3>0. frame[k + 1] = [stack |-> k, regs |-> k]
      BY <1>1, <1>2, <1>5, <2>2, FrameDue
    <3>1. regs' = p
      BY <1>8, <1>b, <2>2, <3>0
    <3> QED BY <1>1, <1>3, <1>5, <1>6, <1>8, <2>0, <2>2, <3>1 DEF InFront, Top
  <2> QED BY <2>1, <2>2
<1>11. Framed'
  <2> SUFFICES ASSUME NEW i \in 2..k-1
               PROVE  /\ frame'[i + 1] # NoFrame
                      /\ i = 2 => frame'[i + 1].stack \in Term
                      /\ i # 2 => frame'[i + 1] = [stack |-> i, regs |-> i]
    BY <1>1, <1>3, <1>6 DEF Framed
  <2>1. i \in 2..L(curr_term_ID) /\ p = k /\ p \notin Term /\ p # i
    BY <1>1, <1>2, <1>5, <1>b
  <2>2. /\ frame[i + 1] # NoFrame
        /\ i = 2 => frame[i + 1].stack \in Term
        /\ i # 2 => frame[i + 1] = [stack |-> i, regs |-> i]
    BY <2>1 DEF OrderlyInv, Framed
  <2>3. frame[i + 1].stack # p
    <3>1. CASE i = 2 BY <2>1, <2>2, <3>1
    <3>2. CASE i # 2 BY <2>1, <2>2, <3>2
    <3> QED BY <3>1, <3>2
  <2>4. i + 1 \in Pid
    <3>1. k + 1 \in Pid
      BY <1>4, <1>b
    <3> QED BY <3>1, Caps
  <2>5. frame'[i + 1] = frame[i + 1]
    BY <1>8, <2>3, <2>4 DEF Overwrite
  <2> QED BY <2>2, <2>5
<1> QED BY <1>6, <1>7, <1>9, <1>10, <1>11 DEF OrderlyInv

-----------------------------------------------------------------------------
(* Another terminal comes on the screen while the first has at most a shell. *)
LEMMA SwitchOrderly ==
  ASSUME TypeOK, OrderlyInv, NEW t \in Term, SwitchTo(t),
         status = "running", L(curr_term_ID) <= 1, L(t) <= 1,
         UNCHANGED <<processes, pcb, pidVal, regs, frame, used>>
  PROVE  /\ Numbered' /\ InFront' /\ Framed' /\ ParentChain'
         /\ status' = "running" => OnPage'
<1>1. curr_term_ID' = t /\ \A u \in Term : L(u)' = L(u) /\ L(u) \in Nat
  BY Lengths DEF SwitchTo, L
<1>2. Numbered' /\ ParentChain'
  BY <1>1 DEF OrderlyInv, Numbered, ParentChain
<1>3. pidVal = used
  BY <1>1 DEF OrderlyInv, InFront, TypeOK
<1>4. InFront' /\ Framed'
  BY <1>1, <1>3 DEF InFront, Framed
<1>5. Top(t)' = Top(t)
  BY DEF Top
<1>6. OnPage'
  BY <1>1, <1>5, Lengths DEF OrderlyInv, OnPage, SwitchTo, Top
<1> QED BY <1>2, <1>4, <1>6

LEMMA InitOrderly == Init => OrderlyInv
<1> SUFFICES ASSUME Init PROVE OrderlyInv
  OBVIOUS
<1>1. \A t \in Term : L(t) = 0 /\ processes[t] = <<>>
  BY DEF Init, L
<1>2. Numbered /\ ParentChain /\ Framed
  BY <1>1 DEF Numbered, ParentChain, Framed, Init
<1>3. Counted /\ OnPage /\ InFront
  BY <1>1 DEF Counted, OnPage, InFront, Init
<1> QED BY <1>2, <1>3 DEF OrderlyInv

LEMMA NextOrderly ==
  ASSUME Freedoms = {}, StackInv, OrderlyInv, [Next]_vars
  PROVE  OrderlyInv'
<1>0. /\ TypeOK /\ TypeOK' /\ CapInv' /\ curr_term_ID \in Term /\ BootInv
      /\ status \in {"running", "starting", "restarting"}
  BY NextCap DEF StackInv, CapInv, TypeOK
<1>a. \A t \in Term : L(t) \in Nat
  BY <1>0, Lengths
<1>1. CASE StartShell
  <2>0. PICK t \in Term : t = schedule_term_ID
    BY <1>0 DEF TypeOK
  <2>1. /\ status = "running" /\ t_init[t] = 0 /\ t_init' = [t_init EXCEPT ![t] = 1]
        /\ SwitchTo(t) /\ status' = "starting" /\ curr_term_ID' = t
        /\ UNCHANGED <<processes, pcb, pidVal, regs, frame, used>>
    BY <1>1, <2>0 DEF StartShell, Interruptible, SwitchTo
  <2>2. ~Booted
    BY <1>0, <2>1 DEF BootInv
  <2>3. L(t) = 0
    BY <1>a, <1>0, <2>1, <2>2 DEF BootInv, L
  <2>4. \A u \in Term : L(u) = IF t_init[u] = 0 THEN 0 ELSE 1
    BY <1>a, <1>0, <2>1, <2>2 DEF OrderlyInv, Counted
  <2>5. Numbered' /\ InFront' /\ Framed' /\ ParentChain'
    BY <1>0, <2>1, <2>3, <2>4, SwitchOrderly
  <2>6. \A u \in Term : L(u)' = L(u) /\ (u # t => t_init'[u] = t_init[u])
    BY <1>0, <2>1 DEF L, TypeOK
  <2>7. Counted' /\ OnPage'
    BY <1>0, <2>1, <2>3, <2>4, <2>6 DEF Counted, OnPage, TypeOK
  <2> QED BY <2>5, <2>7 DEF OrderlyInv
<1>2. CASE RunShell
  <2>1. status # "running" /\ Total < MaxProc /\ ExecuteRuns(curr_term_ID)
    BY <1>2, <1>0, ShellFits, TotalType, Caps DEF RunShell
  <2>2. ExecuteDue
    BY <2>1 DEF ExecuteDue
  <2> QED BY <1>0, <1>2, <2>1, <2>2, RunsOrderly DEF RunShell
<1>3. CASE Scheduler
  <2>1. /\ status = "running" /\ ~Booted /\ t_init[schedule_term_ID] # 0
        /\ t_init' = [t_init EXCEPT ![0] = 2]
        /\ SwitchTo(0) /\ status' = "running" /\ curr_term_ID' = 0
        /\ UNCHANGED <<processes, pcb, pidVal, regs, frame, used>>
    BY <1>3 DEF Scheduler, Interruptible, SwitchTo, Booted
  <2>2. \A t \in Term : t_init[t] = 1
    BY <1>0, <1>3, <2>1 DEF Scheduler, BootInv, Started
  <2>3. \A u \in Term : L(u) = 1
    BY <1>a, <1>0, <2>1, <2>2 DEF OrderlyInv, Counted
  <2>4. Numbered' /\ InFront' /\ Framed' /\ ParentChain' /\ OnPage'
    BY <1>0, <2>1, <2>3, SwitchOrderly
  <2>5. \A u \in Term : L(u)' = 1 /\ t_init'[u] # 0
    BY <1>0, <2>1, <2>2, <2>3 DEF L, TypeOK
  <2>6. Counted'
    BY <2>1, <2>5 DEF Counted
  <2> QED BY <2>4, <2>6 DEF OrderlyInv
<1>4. ASSUME NEW t \in Term, KeySwitch(t) PROVE OrderlyInv'
  <2>1. /\ status = "running" /\ Booted /\ AllAtBase /\ SwitchTo(t)
        /\ status' = "running" /\ curr_term_ID' = t
        /\ UNCHANGED <<boot, processes, pcb, pidVal, regs, frame, used>>
    BY <1>4 DEF KeySwitch, Interruptible, UserMayAct, SwitchTo
  <2>2. \A u \in Term : L(u) = 1
    BY <2>1 DEF AllAtBase, L
  <2>3. Numbered' /\ InFront' /\ Framed' /\ ParentChain' /\ OnPage'
    BY <1>0, <2>1, <2>2, SwitchOrderly
  <2>4. \A u \in Term : L(u)' = 1 /\ t_init'[u] # 0
    BY <1>0, <2>1, <2>2 DEF L, boot, BootInv
  <2>5. Counted'
    BY <2>1, <2>4 DEF Counted
  <2> QED BY <2>3, <2>5 DEF OrderlyInv
<1>5. CASE KeySchedule
  BY <1>5 DEF KeySchedule, OrderlyInv, Numbered, Counted, OnPage, InFront, Framed,
              ParentChain, L, Top, Booted, cpu
<1>6. CASE SysExecute
  <2>1. Booted /\ Total < MaxProc /\ ExecuteRuns(curr_term_ID) /\ status' = "running"
    BY <1>6 DEF SysExecute, UserMayAct
  <2>2. ExecuteDue
    BY <2>1 DEF ExecuteDue
  <2> QED BY <1>0, <1>6, <2>1, <2>2, RunsOrderly DEF SysExecute
<1>7. CASE SysHaltBase
  BY <1>0, <1>7, HaltBaseOrderly
<1>8. CASE SysHaltToParent
  BY <1>0, <1>8, HaltToParentOrderly
<1>9. CASE UNCHANGED vars
  BY <1>9 DEF vars, OrderlyInv, Numbered, Counted, OnPage, InFront, Framed,
              ParentChain, L, Top, Booted, cpu, boot
<1> QED
  BY <1>1, <1>2, <1>3, <1>4, <1>5, <1>6, <1>7, <1>8, <1>9 DEF Next

LEMMA SpecOrderly ==
  ASSUME Freedoms = {}
  PROVE  Spec => [](StackInv /\ OrderlyInv)
<1>1. StackInv /\ OrderlyInv /\ [Next]_vars => StackInv' /\ OrderlyInv'
  BY NextStack, NextOrderly
<1> QED
  BY <1>1, InitStack, InitOrderly, PTL DEF Spec

-----------------------------------------------------------------------------
(* For every cap and as long as the user waits for the boot, switches at    *)
(* first shells only, ends a first shell only where a program was started   *)
(* last and executes nothing that is refused: the PCBs of the running programs agree with the terminals'  *)
(* lists, as sys_execute wrote them and sys_halt follows them.              *)
THEOREM ChainKept ==
  ASSUME Freedoms = {}
  PROVE  Spec => []ParentChain
<1>1. StackInv /\ OrderlyInv => ParentChain
  BY DEF OrderlyInv
<1> QED BY <1>1, SpecOrderly, PTL

(* Under the same user, what the user sees is what the 128MB page maps, and *)
(* a program runs on its own memory.                                       *)
THEOREM PageKept ==
  ASSUME Freedoms = {}
  PROVE  Spec => []PageFollowsScreen
<1>1. ASSUME StackInv, OrderlyInv PROVE PageFollowsScreen
  <2>1. /\ TypeOK /\ curr_term_ID \in Term
        /\ L(curr_term_ID) \in Nat /\ (processes[curr_term_ID] = <<>> <=> L(curr_term_ID) = 0)
    BY <1>1, Lengths DEF StackInv, CapInv, TypeOK
  <2>2. Booted /\ status = "running" => L(curr_term_ID) # 0
    BY <1>1, <2>1 DEF StackInv, BootInv, OrderlyInv, Counted
  <2>3. Booted /\ status = "running" =>
          processes[curr_term_ID] # <<>> /\ page = Top(curr_term_ID)
    BY <1>1, <2>1, <2>2 DEF OrderlyInv, OnPage
  <2>4. L(curr_term_ID) > 1 => regs = page
    BY <1>1, <2>1 DEF OrderlyInv, OnPage, InFront, Counted
  <2> QED BY <2>3, <2>4 DEF PageFollowsScreen, L
<1> QED BY <1>1, SpecOrderly, PTL

(* Under the same user, no system call follows a PCB nobody wrote, a count   *)
(* that is zero or a saved frame that has been overwritten.                 *)
THEOREM NotWild ==
  ASSUME Freedoms = {}
  PROVE  Spec => []NeverWild
<1>1. ASSUME StackInv, OrderlyInv PROVE NeverWild
  <2>0. TypeOK /\ BootInv
    BY <1>1 DEF StackInv, CapInv
  <2>1. PICK c \in Term : c = curr_term_ID
    BY <2>0 DEF TypeOK
  <2>2. PICK k \in Nat : k = L(c)
    BY <2>0, Lengths
  <2>3. ASSUME NEW t \in Term, NEW i \in 1..L(t)
        PROVE  pcb[processes[t][i]] # NoPcb
    <3>0. L(t) \in Nat /\ processes[t] \in Seq(Pid) /\ L(t) = Len(processes[t])
      BY <2>0, Lengths DEF L
    <3>1. i \in DOMAIN processes[t]
      BY <3>0, LenProperties
    <3>2. i # 1 => processes[t][i-1] \in Pid
      <4>1. i # 1 => i - 1 \in 1..Len(processes[t])
        BY <3>0
      <4> QED BY <3>0, <4>1, ElementOfSeq
    <3>3. pcb[processes[t][i]] =
            [Parent_id |-> IF i = 1 THEN NoPid ELSE processes[t][i-1], term_id |-> t]
      BY <1>1, <3>1 DEF OrderlyInv, ParentChain
    <3>4. pcb[processes[t][i]] \in Pcb
      BY <3>2, <3>3 DEF Pcb
    <3> QED BY <3>4, ProcessesAssumption
  <2>4. ASSUME MayHalt PROVE HaltDefined
    <3>1. /\ k # 0 /\ pidVal = processes[c][k] /\ pidVal \in Pid
          /\ pcb[pidVal] = [Parent_id |-> IF k = 1 THEN NoPid ELSE processes[c][k-1],
                            term_id |-> c]
          /\ processes[c] # <<>>
          /\ k # 1 => pidVal = k + 1
      BY <1>1, <2>1, <2>2, <2>4, EndDue
    <3>2. PcbWritten
      BY <2>2, <2>3, <3>1 DEF PcbWritten
    <3>3. pcb[pidVal].term_id = c
      BY <3>1
    <3>4. pcb[pidVal].Parent_id # NoPid => k # 1
      BY <3>1
    <3>5. k # 1 => frame[k + 1] # NoFrame
      <4>1. k # 1 => k > 1
        BY <3>1
      <4> QED BY <1>1, <2>1, <2>2, <4>1, FrameDue
    <3> QED BY <3>1, <3>2, <3>3, <3>4, <3>5 DEF HaltDefined
  <2>5. ASSUME status = "running", UserMayAct PROVE PcbWritten
    <3>1. Booted
      BY <2>5 DEF UserMayAct
    <3>2. k # 0 /\ \A t \in Term \ {c} : L(t) = 1
      BY <1>1, <2>0, <2>1, <2>2, <2>5, <3>1 DEF OrderlyInv, Counted, BootInv
    <3>3. CASE k > 1
      <4>1. pidVal = Top(c) /\ Top(c) = processes[c][k] /\ k \in 1..L(c)
        BY <1>1, <2>0, <2>1, <2>2, <3>3, Lengths DEF OrderlyInv, InFront, Top
      <4>2. processes[c][k] \in Pid
        BY <2>0, <2>2, <4>1, Lengths, ElementOfSeq DEF L
      <4> QED BY <2>3, <4>1, <4>2 DEF PcbWritten
    <3>4. CASE k = 1
      <4>0. pidVal \in Term
        BY <1>1, <2>0, <2>1, <2>2, <3>4 DEF OrderlyInv, InFront, TypeOK
      <4>1. pidVal \in Term /\ L(pidVal) = 1
        BY <2>2, <3>2, <3>4, <4>0
      <4>2. processes[pidVal][1] = pidVal /\ 1 \in 1..L(pidVal)
        BY <1>1, <4>1 DEF OrderlyInv, Numbered, Number
      <4>3. pidVal \in Pid
        BY <4>1, Caps
      <4> QED BY <2>3, <4>1, <4>2, <4>3 DEF PcbWritten
    <3> QED BY <3>2, <3>3, <3>4
  <2> QED BY <2>4, <2>5 DEF NeverWild
<1> QED BY <1>1, SpecOrderly, PTL

(* Under the same user, no two running programs share a number, and with it *)
(* PCB, kernel stack and memory.                                           *)
THEOREM NumbersDistinct ==
  ASSUME Freedoms = {}
  PROVE  Spec => []PidsDistinct
<1>1. ASSUME StackInv, OrderlyInv PROVE PidsDistinct
  <2>0. TypeOK
    BY <1>1 DEF StackInv, CapInv
  <2> SUFFICES ASSUME NEW t \in Term, NEW u \in Term,
                      NEW i \in DOMAIN processes[t], NEW j \in DOMAIN processes[u],
                      processes[t][i] = processes[u][j]
               PROVE  t = u /\ i = j
    BY DEF PidsDistinct
  <2>1. i \in 1..L(t) /\ j \in 1..L(u) /\ L(t) \in Nat /\ L(u) \in Nat
    BY <2>0, Lengths, LenProperties DEF L
  <2>2. Number(t, i) = Number(u, j)
    BY <1>1, <2>1 DEF OrderlyInv, Numbered
  <2>3. (t # curr_term_ID => i = 1) /\ (u # curr_term_ID => j = 1)
    BY <1>1, <2>1 DEF OrderlyInv, Counted
  <2> QED BY <2>1, <2>2, <2>3 DEF Number
<1> QED BY <1>1, SpecOrderly, PTL

-----------------------------------------------------------------------------
(* The kernel as the stacks of programs of Sessions.tla: a shell that is     *)
(* started or a command that is executed starts a program on top of the     *)
(* stack on the screen.                                                    *)
LEMMA StartsProgram ==
  ASSUME ExecuteDue, ExecuteRuns(curr_term_ID), UNCHANGED curr_term_ID
  PROVE  Promised!Execute
<1>1. TypeOK /\ curr_term_ID \in Term
  BY DEF ExecuteDue, StackInv, CapInv, TypeOK
<1>2. PICK new \in Pid : new = NewPid(curr_term_ID)
  BY NewIsNew
<1>3. new \notin Promised!Running
  <2>1. \A t \in Term : new \notin {processes[t][i] : i \in DOMAIN processes[t]}
    BY <1>2, NewIsNew
  <2> QED BY <2>1 DEF Promised!Running, Promised!ToSet
<1>4. processes' = [processes EXCEPT ![curr_term_ID] = Append(processes[curr_term_ID], new)]
  BY <1>2 DEF ExecuteRuns
<1> QED BY <1>1, <1>3, <1>4 DEF Promised!Execute, Promised!Start

(* Under the same user the kernel implements Sessions.tla, whatever the cap: *)
(* it starts programs on top of the stack on the screen, under numbers no   *)
(* running program has, and ends the one in front of the user.              *)
THEOREM SessionsKept ==
  ASSUME Freedoms = {}
  PROVE  Spec => KeepsSessions
<1>1. Init => Promised!Init
  BY DEF Init, Promised!Init
<1>2. ASSUME StackInv, OrderlyInv, [Next]_vars
      PROVE  [Promised!Next]_(Promised!vars)
  <2>0. TypeOK /\ curr_term_ID \in Term
    BY <1>2 DEF StackInv, CapInv, TypeOK
  <2> USE DEF Promised!vars
  <2>1. ASSUME NEW t \in Term, SwitchTo(t), UNCHANGED processes
        PROVE  Promised!Next
    BY <2>1 DEF SwitchTo, Promised!Next, Promised!Switch
  <2>2. CASE StartShell
    BY <2>0, <2>1, <2>2 DEF StartShell, TypeOK
  <2>3. CASE RunShell
    <3>1. status # "running" /\ Total < MaxProc /\ ExecuteRuns(curr_term_ID)
      BY <1>2, <2>0, <2>3, ShellFits, TotalType, Caps DEF RunShell
    <3>2. ExecuteDue /\ UNCHANGED curr_term_ID
      BY <1>2, <2>3, <3>1 DEF ExecuteDue, RunShell
    <3> QED BY <3>1, <3>2, StartsProgram DEF Promised!Next
  <2>4. CASE Scheduler
    BY <2>1, <2>4 DEF Scheduler
  <2>5. ASSUME NEW t \in Term, KeySwitch(t) PROVE Promised!Next
    BY <2>1, <2>5 DEF KeySwitch
  <2>6. CASE KeySchedule
    BY <2>6 DEF KeySchedule
  <2>7. CASE SysExecute
    <3>1. Booted /\ Total < MaxProc /\ ExecuteRuns(curr_term_ID)
      BY <2>7 DEF SysExecute, UserMayAct
    <3>2. ExecuteDue /\ UNCHANGED curr_term_ID
      BY <1>2, <2>7, <3>1 DEF ExecuteDue, SysExecute
    <3> QED BY <3>1, <3>2, StartsProgram DEF Promised!Next
  <2>8. ASSUME MayHalt, CountOff(pidVal), UNCHANGED curr_term_ID
        PROVE  Promised!Next
    <3>1. PICK k \in Nat : k = L(curr_term_ID)
      BY <2>0, Lengths
    <3>2. /\ processes[curr_term_ID] # <<>>
          /\ pcb[pidVal] = [Parent_id |-> IF k = 1 THEN NoPid ELSE processes[curr_term_ID][k-1],
                            term_id |-> curr_term_ID]
      BY <1>2, <2>0, <2>8, <3>1, EndDue
    <3>3. pcb[pidVal].term_id = curr_term_ID
      BY <3>2
    <3> QED BY <2>8, <3>2, <3>3 DEF CountOff, Front, Promised!Next, Promised!Halt, Promised!Front
  <2>9. CASE SysHaltBase
    BY <2>8, <2>9 DEF SysHaltBase
  <2>10. CASE SysHaltToParent
    BY <2>8, <2>10 DEF SysHaltToParent
  <2>11. CASE UNCHANGED vars
    BY <2>11 DEF vars
  <2> QED
    BY <1>2, <2>2, <2>3, <2>4, <2>5, <2>6, <2>7, <2>9, <2>10, <2>11 DEF Next
<1> QED
  BY <1>1, <1>2, SpecOrderly, PTL DEF Spec, KeepsSessions, Promised!Spec
=============================================================================
