----------------------------- MODULE FilesProofs -----------------------------
(***************************************************************************)
(* What the descriptors of Files.tla keep, and that reads follow one       *)
(* another and end at the end, for every image, every number of            *)
(* descriptors and programs, and every size of a block and of a read; and  *)
(* what the programs of Programs.tla make of them.                         *)
(***************************************************************************)
EXTENDS Programs, SequenceTheorems, WellFoundedInduction, TLAPS

(* What a descriptor holds while the program has e open through it, or      *)
(* nothing: sys_read looks at type and position before it looks at flags.   *)
Holds(d, e) ==
  IF e = None THEN d.flags = 0 /\ d.file_position = 0
  ELSE /\ d.flags = 1 /\ d.ops = Kind(e)
       /\ d.internal_ftype = (IF e \in Regular THEN 2 ELSE IF e = "dir" THEN 1 ELSE 0)
       /\ e \in Regular => d.inode_index = e

OwnInv == /\ TypeOK
          /\ \A p \in Pid, fd \in Fd : p < proc_cnt => Holds(file_descriptor[p][fd], mine[p][fd])

LEMMA Constants ==
  /\ Block \in Nat \ {0} /\ Depth \in Nat \ {0} /\ HighFd \in Nat
  /\ \A f \in Regular : Length[f] \in Nat /\ f \notin {"dir", "rtc", None}
  /\ \A n \in Requests : n \in Nat \ {0}
  /\ ACTUAL_MAX_DIRS \in Nat \ {0}
  /\ \A e \in Range(Names) : e \in Regular \/ e = "dir" \/ e = "rtc"
<1>1. Names \in Seq(Regular \cup {"dir", "rtc"}) /\ Names # <<>>
  BY FilesAssumption
<1>2. \A b \in 1..Len(Names) : Names[b] \in Regular \cup {"dir", "rtc"}
  BY <1>1
<1>3. DOMAIN Names = 1..Len(Names)
  BY <1>1
<1>4. \A e \in Range(Names) : e \in Regular \cup {"dir", "rtc"}
  BY <1>2, <1>3 DEF Range
<1>5. Len(Names) \in Nat \ {0}
  BY <1>1
<1> QED
  BY <1>4, <1>5, FilesAssumption

LEMMA CurType ==
  ASSUME TypeOK
  PROVE  cur \in Pid /\ cur < proc_cnt
  BY Constants DEF TypeOK, cur, Pid

(* The three ways a descriptor is set. *)
LEMMA SetDescriptor ==
  ASSUME NEW d \in Descriptor
  PROVE  /\ Initialized(d) \in Descriptor /\ Holds(Initialized(d), None)
         /\ Closed(d) \in Descriptor /\ Holds(Closed(d), None)
  BY DEF Initialized, Closed, Descriptor, Holds

LEMMA OpenedHolds ==
  ASSUME NEW e \in Range(Names)
  PROVE  Opened(e) \in Descriptor /\ Holds(Opened(e), e) /\ e # None
<1>0. Zeroed \in Descriptor
  BY DEF Zeroed, Descriptor
<1>1. CASE e = "rtc"
  BY <1>0, <1>1, Constants DEF Opened, Zeroed, Descriptor, Holds, Kind, None
<1>2. CASE e = "dir"
  BY <1>0, <1>2, Constants DEF Opened, Zeroed, Descriptor, Holds, Kind, None
<1>3. CASE e \in Regular
  BY <1>0, <1>3, Constants DEF Opened, Zeroed, Descriptor, Holds, Kind, None
<1> QED
  BY <1>1, <1>2, <1>3, Constants

(* What a read of a file returns is a number. *)
LEMMA ReadReturns ==
  ASSUME NEW f \in Regular, NEW offset \in Nat, NEW n \in Nat \ {0}
  PROVE  ReadData(f, offset, n).ret \in Int
<1>1. Block \in Nat /\ Block > 0 /\ Length[f] \in Nat /\ n \in Nat
  BY Constants
<1>2. Cut(f, offset, n) \in Int
  BY <1>1 DEF Cut
<1>3. FirstPart(offset) \in Int
  BY <1>1 DEF FirstPart
<1>4. n - FirstPart(offset) \in Int
  BY <1>1, <1>3
<1>5. \A r \in Int : LastPart(r) \in Int
  BY <1>1 DEF LastPart
<1> QED
  BY <1>2, <1>4, <1>5 DEF ReadData

(* One descriptor of a running program is set and the program's view of it  *)
(* with it; all others stay.                                                *)
LEMMA OneDescriptor ==
  ASSUME OwnInv, NEW fd \in Fd, NEW d \in Descriptor,
         NEW e \in Range(Names) \cup {None}, Holds(d, e),
         file_descriptor' = [file_descriptor EXCEPT ![cur][fd] = d],
         mine' = [mine EXCEPT ![cur][fd] = e],
         UNCHANGED proc_cnt, flag' \in {0, 1}, waiting' \in Fd \cup {0}, ticked' \in BOOLEAN
  PROVE  OwnInv'
<1>1. cur \in Pid
  BY CurType DEF OwnInv
<1>2. /\ file_descriptor' \in [Pid -> [Fd -> Descriptor]]
      /\ mine' \in [Pid -> [Fd -> Range(Names) \cup {None}]]
  BY <1>1 DEF OwnInv, TypeOK
<1>3. TypeOK'
  BY <1>2 DEF OwnInv, TypeOK
<1>4. ASSUME NEW p \in Pid, NEW g \in Fd, p < proc_cnt
      PROVE  Holds(file_descriptor'[p][g], mine'[p][g])
  <2>1. CASE p = cur /\ g = fd
    BY <1>1, <2>1 DEF OwnInv, TypeOK
  <2>2. CASE ~(p = cur /\ g = fd)
    <3>1. file_descriptor'[p][g] = file_descriptor[p][g] /\ mine'[p][g] = mine[p][g]
      BY <1>1, <2>2 DEF OwnInv, TypeOK
    <3> QED
      BY <1>4, <3>1 DEF OwnInv
  <2> QED
    BY <2>1, <2>2
<1> QED
  BY <1>3, <1>4 DEF OwnInv

(* The same of all descriptors of the block at depth p, which belongs then  *)
(* to a program that has opened nothing, or to none.                        *)
LEMMA WholeBlock ==
  ASSUME OwnInv, NEW p \in Pid, NEW F \in [Fd -> Descriptor],
         \A fd \in Fd : Holds(F[fd], None),
         file_descriptor' = [file_descriptor EXCEPT ![p] = F],
         mine' = [mine EXCEPT ![p] = [fd \in Fd |-> None]],
         proc_cnt' \in 1..Depth, \A q \in Pid : q < proc_cnt' => q < proc_cnt \/ q = p,
         flag' \in {0, 1}, waiting' \in Fd \cup {0}, ticked' \in BOOLEAN
  PROVE  OwnInv'
<1>1. /\ file_descriptor' \in [Pid -> [Fd -> Descriptor]]
      /\ mine' \in [Pid -> [Fd -> Range(Names) \cup {None}]]
  BY DEF OwnInv, TypeOK
<1>2. TypeOK'
  BY <1>1 DEF TypeOK
<1>3. ASSUME NEW q \in Pid, NEW fd \in Fd, q < proc_cnt'
      PROVE  Holds(file_descriptor'[q][fd], mine'[q][fd])
  <2>1. CASE q = p
    <3>1. file_descriptor'[q][fd] = F[fd] /\ mine'[q][fd] = None
      BY <2>1 DEF OwnInv, TypeOK
    <3> QED
      BY <3>1
  <2>2. CASE q # p
    <3>1. file_descriptor'[q] = file_descriptor[q] /\ mine'[q] = mine[q]
      BY <2>2 DEF OwnInv, TypeOK
    <3>2. q < proc_cnt
      BY <1>3, <2>2
    <3> QED
      BY <3>1, <3>2 DEF OwnInv
  <2> QED
    BY <2>1, <2>2
<1> QED
  BY <1>2, <1>3 DEF OwnInv

(* A read that answers more than 0 is of a file or the directory, through a *)
(* descriptor that is open, and moves its position on by a number.          *)
LEMMA ReadMovesOn ==
  ASSUME OwnInv, NEW fd \in Fd, NEW n \in Nat \ {0},
         D(fd).ops # "rtc", SysRead(fd, n).ret > 0
  PROVE  /\ mine[cur][fd] # None
         /\ D(fd).file_position + (IF D(fd).internal_ftype = 2 THEN SysRead(fd, n).ret ELSE 1) \in Nat
<1> DEFINE e == mine[cur][fd]
<1>1. D(fd) \in Descriptor /\ Holds(D(fd), e) /\ e \in Range(Names) \cup {None}
  BY CurType DEF OwnInv, TypeOK, D
<1>2. D(fd).file_position \in Nat
  BY <1>1 DEF Descriptor
<1>3. D(fd).flags # 0
  BY DEF SysRead
<1>4. e # None
  BY <1>1, <1>3 DEF Holds
<1>5. CASE e \in Regular
  <2>1. D(fd).ops = "file" /\ D(fd).internal_ftype = 2 /\ D(fd).inode_index = e
    BY <1>1, <1>4, <1>5 DEF Holds, Kind
  <2>2. SysRead(fd, n) = ReadData(e, D(fd).file_position, n)
    BY <2>1, <1>3 DEF SysRead
  <2>3. SysRead(fd, n).ret \in Int
    BY <2>2, <1>2, <1>5, ReadReturns
  <2> QED
    BY <1>2, <1>4, <2>3
<1>6. CASE e \notin Regular
  <2>1. D(fd).internal_ftype # 2
    BY <1>1, <1>4, <1>6 DEF Holds
  <2> QED
    BY <1>2, <1>4, <2>1
<1> QED
  BY <1>5, <1>6

(* To move the position of an open descriptor keeps what it holds.          *)
LEMMA Moved ==
  ASSUME OwnInv, NEW fd \in Fd, NEW position \in Nat,
         mine[cur][fd] # None \/ position = 0,
         file_descriptor' = [file_descriptor EXCEPT ![cur][fd] = At(D(fd), position)],
         UNCHANGED <<proc_cnt, mine>>,
         flag' \in {0, 1}, waiting' \in Fd \cup {0}, ticked' \in BOOLEAN
  PROVE  OwnInv'
<1> DEFINE e == mine[cur][fd]
<1>1. cur \in Pid /\ D(fd) \in Descriptor /\ Holds(D(fd), e) /\ e \in Range(Names) \cup {None}
  BY CurType DEF OwnInv, TypeOK, D
<1>2. At(D(fd), position) \in Descriptor
  BY <1>1 DEF At, Descriptor
<1>3. Holds(At(D(fd), position), e)
  BY <1>1 DEF At, Holds
<1>4. mine' = [mine EXCEPT ![cur][fd] = e]
  BY <1>1 DEF OwnInv, TypeOK
<1> HIDE DEF e
<1> QED
  BY <1>1, <1>2, <1>3, <1>4, OneDescriptor

LEMMA InitOwn == Init => OwnInv
<1> SUFFICES ASSUME Init
             PROVE  OwnInv
  OBVIOUS
<1>1. Zeroed \in Descriptor /\ Holds(Zeroed, None)
  BY DEF Zeroed, Descriptor, Holds
<1>2. file_descriptor \in [Pid -> [Fd -> Descriptor]]
  BY <1>1 DEF Init
<1>3. ticked \in BOOLEAN
  BY DEF Init
<1>4. mine \in [Pid -> [Fd -> Range(Names) \cup {None}]]
  BY DEF Init
<1>5. proc_cnt \in 1..Depth /\ flag \in {0, 1} /\ waiting \in Fd \cup {0}
  BY Constants DEF Init
<1>6. TypeOK
  BY <1>2, <1>3, <1>4, <1>5 DEF TypeOK
<1>7. \A p \in Pid, fd \in Fd : Holds(file_descriptor[p][fd], mine[p][fd])
  BY <1>1 DEF Init
<1> QED
  BY <1>6, <1>7 DEF OwnInv

(* Next with reads of any length. *)
Calls == \/ \E e \in Range(Names), fd \in Fd : SysOpen(e, fd)
         \/ \E fd \in Fd : \/ \E n \in Nat \ {0} : SysReadData(fd, n)
                           \/ RtcRead(fd) \/ SysClose(fd)
         \/ RtcHandler \/ RtcReadReturn
         \/ SysExecute \/ SysHalt \/ SysHaltFirst

LEMMA NextCalls == Next => Calls
<1>1. \A n \in Requests : n \in Nat \ {0}
  BY Constants
<1> QED
  BY <1>1 DEF Next, Calls

LEMMA CallsOwn == OwnInv /\ [Calls]_vars => OwnInv'
<1> SUFFICES ASSUME OwnInv, [Calls]_vars
             PROVE  OwnInv'
  OBVIOUS
<1>0. cur \in Pid /\ cur < proc_cnt /\ TypeOK
  BY CurType DEF OwnInv
<1>1. ASSUME NEW e \in Range(Names), NEW fd \in Fd, SysOpen(e, fd)
      PROVE  OwnInv'
  <2>1. UNCHANGED <<flag, waiting, ticked>>
    BY <1>1 DEF SysOpen, rtc
  <2>2. /\ file_descriptor' = [file_descriptor EXCEPT ![cur][fd] = Opened(e)]
        /\ mine' = [mine EXCEPT ![cur][fd] = e] /\ UNCHANGED proc_cnt
    BY <1>1 DEF SysOpen
  <2> QED
    BY <1>0, <2>1, <2>2, OpenedHolds, OneDescriptor DEF TypeOK
<1>2. ASSUME NEW fd \in Fd, NEW n \in Nat \ {0}, SysReadData(fd, n)
      PROVE  OwnInv'
  <2> DEFINE position == D(fd).file_position
                           + (IF D(fd).internal_ftype = 2 THEN SysRead(fd, n).ret ELSE 1)
  <2>1. mine[cur][fd] # None /\ position \in Nat
    BY <1>2, ReadMovesOn DEF SysReadData
  <2>2. file_descriptor' = [file_descriptor EXCEPT ![cur][fd] = At(D(fd), position)]
    BY <1>2 DEF SysReadData, D
  <2>3. UNCHANGED <<proc_cnt, mine, flag, waiting, ticked>>
    BY <1>2 DEF SysReadData, rtc
  <2> HIDE DEF position
  <2> QED
    BY <1>0, <2>1, <2>2, <2>3, Moved DEF TypeOK
<1>3. ASSUME NEW fd \in Fd, RtcRead(fd)
      PROVE  OwnInv'
  BY <1>3 DEF RtcRead, OwnInv, TypeOK
<1>4. ASSUME NEW fd \in Fd, SysClose(fd)
      PROVE  OwnInv'
  <2>1. UNCHANGED <<flag, waiting, ticked>>
    BY <1>4 DEF SysClose, rtc
  <2>2. /\ file_descriptor' = [file_descriptor EXCEPT ![cur][fd] = Closed(D(fd))]
        /\ mine' = [mine EXCEPT ![cur][fd] = None] /\ UNCHANGED proc_cnt
    BY <1>4 DEF SysClose, D
  <2>3. D(fd) \in Descriptor
    BY <1>0 DEF TypeOK, D
  <2> QED
    BY <1>0, <2>1, <2>2, <2>3, SetDescriptor, OneDescriptor DEF TypeOK
<1>5. CASE RtcHandler
  BY <1>5 DEF RtcHandler, OwnInv, TypeOK
<1>6. CASE RtcReadReturn
  <2>1. waiting \in Fd
    BY <1>0, <1>6 DEF RtcReadReturn, TypeOK
  <2>2. file_descriptor' = [file_descriptor EXCEPT ![cur][waiting] = At(D(waiting), 0)]
    BY <1>6 DEF RtcReadReturn, D
  <2>3. UNCHANGED <<proc_cnt, mine, flag>> /\ waiting' = 0 /\ ticked' = FALSE
    BY <1>6 DEF RtcReadReturn
  <2> QED
    BY <1>0, <2>1, <2>2, <2>3, Moved DEF TypeOK
<1>7. ASSUME NEW p \in Pid, Start(p), proc_cnt' \in 1..Depth,
             \A q \in Pid : q < proc_cnt' => q < proc_cnt \/ q = p,
             flag' \in {0, 1}, waiting' \in Fd \cup {0}, ticked' \in BOOLEAN
      PROVE  OwnInv'
  <2> DEFINE F == [fd \in Fd |-> Initialized(file_descriptor[p][fd])]
  <2>1. \A fd \in Fd : file_descriptor[p][fd] \in Descriptor
    BY <1>0 DEF TypeOK
  <2>2. F \in [Fd -> Descriptor] /\ \A fd \in Fd : Holds(F[fd], None)
    BY <2>1, SetDescriptor
  <2>3. /\ file_descriptor' = [file_descriptor EXCEPT ![p] = F]
        /\ mine' = [mine EXCEPT ![p] = [fd \in Fd |-> None]]
    BY <1>7 DEF Start
  <2> HIDE DEF F
  <2> QED
    BY <1>7, <2>2, <2>3, WholeBlock
<1>8. CASE SysExecute
  <2>1. /\ proc_cnt \in Pid /\ proc_cnt' \in 1..Depth
        /\ \A q \in Pid : q < proc_cnt' => q < proc_cnt \/ q = proc_cnt
    BY <1>0, <1>8, Constants DEF SysExecute, TypeOK, Pid
  <2>2. Start(proc_cnt) /\ UNCHANGED <<flag, waiting, ticked>>
    BY <1>8 DEF SysExecute, rtc
  <2> QED
    BY <1>0, <1>7, <2>1, <2>2 DEF TypeOK
<1>9. CASE SysHalt
  <2> DEFINE F == [fd \in Fd |-> Closed(file_descriptor[cur][fd])]
  <2>1. \A fd \in Fd : file_descriptor[cur][fd] \in Descriptor
    BY <1>0 DEF TypeOK
  <2>2. F \in [Fd -> Descriptor] /\ \A fd \in Fd : Holds(F[fd], None)
    BY <2>1, SetDescriptor
  <2>3. /\ file_descriptor' = [file_descriptor EXCEPT ![cur] = F]
        /\ mine' = [mine EXCEPT ![cur] = [fd \in Fd |-> None]]
    BY <1>9 DEF SysHalt
  <2>4. proc_cnt' \in 1..Depth /\ \A q \in Pid : q < proc_cnt' => q < proc_cnt
    BY <1>0, <1>9, Constants DEF SysHalt, TypeOK, Pid
  <2>5. flag' \in {0, 1} /\ waiting' = 0 /\ ticked' = FALSE
    BY <1>0, <1>9 DEF SysHalt, TypeOK
  <2> HIDE DEF F
  <2> QED
    BY <1>0, <2>2, <2>3, <2>4, <2>5, WholeBlock
<1>10. CASE SysHaltFirst
  <2>1. 0 \in Pid /\ proc_cnt' \in 1..Depth /\ proc_cnt' = proc_cnt
    BY <1>0, <1>10, Constants DEF SysHaltFirst, TypeOK, Pid
  <2>2. Start(0) /\ flag' \in {0, 1} /\ waiting' = 0 /\ ticked' = FALSE
    BY <1>0, <1>10 DEF SysHaltFirst, TypeOK
  <2> QED
    BY <1>7, <2>1, <2>2
<1>11. CASE UNCHANGED vars
  BY <1>11 DEF vars, rtc, OwnInv, TypeOK
<1> QED
  BY <1>1, <1>2, <1>3, <1>4, <1>5, <1>6, <1>8, <1>9, <1>10, <1>11 DEF Calls

THEOREM OwnAlways == Spec => []OwnInv
  BY InitOwn, CallsOwn, NextCalls, PTL DEF Spec

(* Every descriptor, process and value stays within its bounds: the stack   *)
(* of programs never outgrows the process control blocks.                   *)
THEOREM FilesTypeCorrect == Spec => []TypeOK
<1>1. OwnInv => TypeOK
  BY DEF OwnInv
<1> QED
  BY <1>1, OwnAlways, PTL

(* A running program's descriptors are those it has opened and not closed:  *)
(* what sys_execute, sys_halt and sys_close each leave in a block never     *)
(* shows through.                                                           *)
THEOREM DescriptorsOwned == Spec => []OwnDescriptors
<1>1. OwnInv => OwnDescriptors
  <2> SUFFICES ASSUME OwnInv, NEW p \in 0..cur, NEW fd \in Fd
               PROVE  LET d == file_descriptor[p][fd]
                      IN  IF mine[p][fd] = None THEN d.flags = 0
                          ELSE d.flags = 1 /\ d.ops = Kind(mine[p][fd])
    BY DEF OwnDescriptors
  <2>1. p \in Pid /\ p < proc_cnt
    BY Constants DEF OwnInv, TypeOK, cur, Pid
  <2>2. Holds(file_descriptor[p][fd], mine[p][fd])
    BY <2>1 DEF OwnInv
  <2> QED
    BY <2>2 DEF Holds
<1> QED
  BY <1>1, OwnAlways, PTL

(* A read through a descriptor that the program has not open fails, also    *)
(* where the block still has the type of a directory that an earlier        *)
(* program had open there: sys_read looks at type and position first.       *)
THEOREM UnopenedAlwaysFails == Spec => []UnopenedFails
<1>1. OwnInv => UnopenedFails
  <2> SUFFICES ASSUME OwnInv, NEW fd \in Fd, NEW n \in Requests, mine[cur][fd] = None
               PROVE  SysRead(fd, n).ret = -1
    BY DEF UnopenedFails
  <2>1. D(fd).flags = 0 /\ D(fd).file_position = 0
    BY CurType DEF OwnInv, D, Holds
  <2>2. D(fd).file_position # ACTUAL_MAX_DIRS
    BY <2>1, Constants
  <2> QED
    BY <2>1, <2>2 DEF SysRead
<1> QED
  BY <1>1, OwnAlways, PTL

-----------------------------------------------------------------------------
(* Reads that follow one another.                                          *)

(* The bytes and names that a program can have read. *)
Data == Range(Names) \cup (Regular \X Nat)

(* What has been read of e, and where the descriptor stands in it. *)
Follows(d, e, g) ==
  e \notin {None, "rtc"} => /\ d.file_position = Len(g) /\ Len(g) <= Len(Whole(e))
                            /\ \A b \in 1..Len(g) : g[b] = Whole(e)[b]

FollowInv ==
  /\ OwnInv
  /\ got \in [Pid -> [Fd -> Seq(Data)]]
  /\ waiting # 0 => mine[cur][waiting] = "rtc"
  /\ \A p \in Pid, fd \in Fd :
       p < proc_cnt => Follows(file_descriptor[p][fd], mine[p][fd], got[p][fd])

-----------------------------------------------------------------------------
LEMMA Divided ==
  ASSUME NEW B \in Nat \ {0}, NEW x \in Nat
  PROVE  /\ x \div B \in Nat /\ x % B \in 0..B-1
         /\ (x \div B) * B + (x % B) = x
OBVIOUS

LEMMA WholeOf ==
  ASSUME NEW e \in Range(Names), e # "rtc"
  PROVE  /\ Whole(e) \in Seq(Data)
         /\ e \in Regular => /\ Len(Whole(e)) = Length[e]
                             /\ \A b \in 1..Length[e] : Whole(e)[b] = <<e, b - 1>>
         /\ e = "dir" => Whole(e) = Names /\ Len(Names) = ACTUAL_MAX_DIRS
<1>1. CASE e \in Regular
  <2>1. Whole(e) = [b \in 1..Length[e] |-> <<e, b - 1>>] /\ Length[e] \in Nat /\ e # "dir"
    BY <1>1, Constants DEF Whole
  <2>2. \A b \in 1..Length[e] : <<e, b - 1>> \in Data
    BY <1>1, <2>1 DEF Data
  <2>3. [b \in 1..Length[e] |-> <<e, b - 1>>] \in Seq(Data)
    BY <2>1, <2>2
  <2>4. Len([b \in 1..Length[e] |-> <<e, b - 1>>]) = Length[e]
    BY <2>1
  <2>5. QED
    BY <2>1, <2>3, <2>4
<1>2. CASE e = "dir"
  <2>1. Whole(e) = Names /\ e \notin Regular
    BY <1>2, Constants DEF Whole
  <2>2. Names \in Seq(Regular \cup {"dir", "rtc"})
    BY FilesAssumption
  <2>3. \A b \in 1..Len(Names) : Names[b] \in Range(Names)
    BY <2>2, LenProperties DEF Range
  <2>4. Len(Names) \in Nat /\ Names = [b \in 1..Len(Names) |-> Names[b]]
    BY <2>2, LenProperties
  <2>5. Names \in Seq(Data)
    BY <2>3, <2>4 DEF Data
  <2>6. QED
    BY <1>2, <2>1, <2>5, FilesAssumption
<1>3. QED
  BY <1>1, <1>2, Constants

-----------------------------------------------------------------------------
(* read_data, file_system_driver.c: within the calls that MayRead lets      *)
(* through, what a read returns is what lies at the offset, byte by byte,   *)
(* also where it crosses blocks, and it returns nothing only at the end.    *)
LEMMA ReadsOn ==
  ASSUME NEW f \in Regular, NEW offset \in Nat, offset <= Length[f], NEW n \in Nat \ {0},
         \/ Cut(f, offset, n) <= FirstPart(offset)
         \/ offset + n <= Length[f]
  PROVE  /\ ReadData(f, offset, n).ret \in Nat
         /\ ReadData(f, offset, n).ret = 0 <=> offset = Length[f]
         /\ offset + ReadData(f, offset, n).ret <= Length[f]
         /\ ReadData(f, offset, n).ret <= n
         /\ \A b \in 1..ReadData(f, offset, n).ret :
              ReadData(f, offset, n).data[b] = <<f, offset + b - 1>>
<1>1. Block \in Nat \ {0} /\ Length[f] \in Nat /\ n \in Nat \ {0}
  BY Constants
<1>2. PICK q \in Nat, m \in 0..Block-1 :
           q = offset \div Block /\ m = offset % Block /\ q * Block + m = offset
  BY <1>1, Divided
<1>3. PICK first \in 1..Block : first = FirstPart(offset) /\ first = Block - m
  <2>1. Block - m \in 1..Block
    BY <1>1
  <2>2. QED
    BY <2>1, <1>2 DEF FirstPart
<1>4. PICK len \in Nat :
      /\ len = Cut(f, offset, n) /\ len <= n /\ len <= Length[f] - offset
      /\ len = 0 <=> offset = Length[f]
      /\ offset + n <= Length[f] => len = n
  BY <1>1 DEF Cut
<1>5. ASSUME NEW b \in Nat, b >= 1, b <= first, offset + b - 1 < Length[f]
      PROVE  ByteOf(f, q, m + b - 1) = <<f, offset + b - 1>>
  <2>1. q * Block + (m + b - 1) = offset + b - 1
    BY <1>1, <1>2, <1>5
  <2>2. QED
    BY <1>5, <2>1 DEF ByteOf
<1>6. CASE len <= first
  <2>1. ReadData(f, offset, n) = [ret  |-> len,
                                  data |-> [b \in 1..len |-> ByteOf(f, q, m + b - 1)]]
    BY <1>2, <1>3, <1>4, <1>6 DEF ReadData
  <2>2. ASSUME NEW b \in 1..len
        PROVE  ByteOf(f, q, m + b - 1) = <<f, offset + b - 1>>
    <3>1. b \in Nat /\ b >= 1 /\ b <= first /\ offset + b - 1 < Length[f]
      BY <1>1, <1>3, <1>4, <1>6
    <3>2. QED
      BY <1>5, <3>1
  <2>3. ReadData(f, offset, n).ret = len
    BY <2>1
  <2>4. \A b \in 1..len : ReadData(f, offset, n).data[b] = <<f, offset + b - 1>>
    BY <2>1, <2>2
  <2>5. QED
    BY <1>1, <1>4, <2>3, <2>4
<1>7. CASE ~(len <= first)
  <2>1. offset + n <= Length[f] /\ len = n /\ first < n /\ offset # Length[f]
    BY <1>1, <1>3, <1>4, <1>7
  <2> DEFINE part == LastPart(n - first)
             byte(b) == IF b <= first
                          THEN ByteOf(f, q, m + b - 1)
                          ELSE ByteOf(f, q + 1 + (b - first - 1) \div Block,
                                         (b - first - 1) % Block)
  <2>2. ReadData(f, offset, n) = [ret |-> part, data |-> [b \in 1..n |-> byte(b)]]
    BY <1>2, <1>3, <1>4, <1>7 DEF ReadData
  <2>3. part \in 1..n - first
    <3>1. PICK k \in Nat : k = n - first /\ k > 0 /\ part = LastPart(k)
      <4> PICK k \in Nat : k = n - first /\ k > 0
        BY <1>1, <2>1
      <4> QED
        OBVIOUS
    <3> HIDE DEF part
    <3>2. PICK c \in Nat, r \in 0..Block-1 : r = k % Block /\ c * Block + r = k
      BY <1>1, <3>1, Divided
    <3>3. part = IF r = 0 THEN Block ELSE r
      BY <3>1, <3>2 DEF LastPart
    <3>4. CASE r # 0
      <4>1. c * Block \in Nat
        BY <1>1
      <4>2. r \in 1..k
        BY <1>1, <3>1, <3>2, <3>4, <4>1
      <4>3. QED
        BY <3>1, <3>3, <3>4, <4>2
    <3>5. CASE r = 0
      <4>1. c # 0
        BY <1>1, <3>1, <3>2, <3>5
      <4>2. c * Block >= Block
        BY <1>1, <4>1
      <4>3. QED
        BY <1>1, <3>1, <3>2, <3>3, <3>5, <4>2
    <3>6. QED
      BY <3>4, <3>5
  <2>4. ASSUME NEW b \in 1..n
        PROVE  byte(b) = <<f, offset + b - 1>>
    <3>1. b \in Nat /\ b >= 1 /\ offset + b - 1 < Length[f]
      BY <1>1, <2>1
    <3>2. CASE b <= first
      BY <1>5, <3>1, <3>2
    <3>3. CASE ~(b <= first)
      <4>1. PICK x \in Nat : x = b - first - 1
        BY <1>3, <3>1, <3>3
      <4>2. /\ x \div Block \in Nat /\ x % Block \in 0..Block-1
            /\ (x \div Block) * Block + (x % Block) = x
        BY <1>1, Divided
      <4>3. (q + 1 + x \div Block) * Block + (x % Block)
              = q * Block + Block + ((x \div Block) * Block + (x % Block))
        BY <1>1, <1>2, <4>2
      <4>4. q * Block + Block + x = offset + b - 1
        BY <1>1, <1>2, <1>3, <3>1, <4>1
      <4>5. (q + 1 + x \div Block) * Block + (x % Block) = offset + b - 1
        BY <4>2, <4>3, <4>4
      <4>6. ByteOf(f, q + 1 + x \div Block, x % Block) = <<f, offset + b - 1>>
        BY <3>1, <4>5 DEF ByteOf
      <4>7. QED
        BY <3>3, <4>1, <4>6
    <3>4. QED
      BY <3>2, <3>3
  <2> HIDE DEF part, byte
  <2>5. ReadData(f, offset, n).ret = part
    BY <2>2
  <2>6. \A b \in 1..n : ReadData(f, offset, n).data[b] = <<f, offset + b - 1>>
    BY <2>2, <2>4
  <2>7. part \in 1..n
    BY <1>1, <1>3, <2>3
  <2>8. QED
    BY <1>1, <2>1, <2>5, <2>6, <2>7
<1>8. QED
  BY <1>6, <1>7

-----------------------------------------------------------------------------
(* sys_read on what is open: as much as is left, and where it left off.     *)
LEMMA ReadsRight ==
  ASSUME FollowInv, NEW fd \in Fd, NEW n \in Nat \ {0}, MayRead(fd, n),
         mine[cur][fd] \notin {None, "rtc"}
  PROVE  LET e == mine[cur][fd]
             g == got[cur][fd]
             r == SysRead(fd, n)
         IN  /\ r.ret \in Nat
             /\ r.ret = 0 <=> Len(g) = Len(Whole(e))
             /\ Len(g) + r.ret <= Len(Whole(e)) /\ r.ret <= n
             /\ \A b \in 1..r.ret : r.data[b] = Whole(e)[Len(g) + b]
             /\ D(fd).internal_ftype # 2 => r.ret \in {0, 1}
<1>1. cur \in Pid /\ cur < proc_cnt
  BY CurType DEF FollowInv, OwnInv
<1>2. PICK e \in Range(Names) : e = mine[cur][fd] /\ e # "rtc" /\ e # None
  BY <1>1 DEF FollowInv, OwnInv, TypeOK
<1>3. PICK g \in Seq(Data) : g = got[cur][fd]
  BY <1>1 DEF FollowInv
<1>4. Holds(D(fd), e) /\ Follows(D(fd), e, g)
  BY <1>1, <1>2, <1>3 DEF FollowInv, OwnInv, D
<1>5. /\ D(fd).file_position = Len(g) /\ Len(g) \in Nat /\ Len(g) <= Len(Whole(e))
      /\ D(fd).flags = 1 /\ D(fd).ops = Kind(e)
      /\ D(fd).internal_ftype = (IF e \in Regular THEN 2 ELSE IF e = "dir" THEN 1 ELSE 0)
      /\ e \in Regular => D(fd).inode_index = e
  BY <1>2, <1>3, <1>4, LenProperties DEF Holds, Follows
<1>6. CASE e \in Regular
  <2>1. D(fd).ops = "file" /\ D(fd).internal_ftype = 2 /\ D(fd).inode_index = e
    BY <1>5, <1>6 DEF Kind
  <2>2. SysRead(fd, n) = ReadData(e, Len(g), n)
    BY <1>5, <2>1 DEF SysRead
  <2>3. \/ Cut(e, Len(g), n) <= FirstPart(Len(g))
        \/ Len(g) + n <= Length[e]
    BY <1>5, <2>1 DEF MayRead
  <2>4. /\ Len(Whole(e)) = Length[e] /\ Length[e] \in Nat
        /\ \A b \in 1..Length[e] : Whole(e)[b] = <<e, b - 1>>
    BY <1>2, <1>6, WholeOf, Constants
  <2>5. /\ SysRead(fd, n).ret \in Nat
        /\ SysRead(fd, n).ret = 0 <=> Len(g) = Length[e]
        /\ Len(g) + SysRead(fd, n).ret <= Length[e] /\ SysRead(fd, n).ret <= n
        /\ \A b \in 1..SysRead(fd, n).ret : SysRead(fd, n).data[b] = <<e, Len(g) + b - 1>>
    <3>1. PICK offset \in Nat : offset = Len(g) /\ offset <= Length[e]
      BY <1>5, <2>4
    <3>2. \/ Cut(e, offset, n) <= FirstPart(offset)
          \/ offset + n <= Length[e]
      BY <2>3, <3>1
    <3>3. PICK r : r = SysRead(fd, n) /\ r = ReadData(e, offset, n)
      BY <2>2, <3>1
    <3>4. /\ ReadData(e, offset, n).ret \in Nat
          /\ ReadData(e, offset, n).ret = 0 <=> offset = Length[e]
          /\ offset + ReadData(e, offset, n).ret <= Length[e]
          /\ ReadData(e, offset, n).ret <= n
          /\ \A b \in 1..ReadData(e, offset, n).ret :
               ReadData(e, offset, n).data[b] = <<e, offset + b - 1>>
      BY <1>6, <3>1, <3>2, ReadsOn
    <3>5. QED
      BY <3>1, <3>3, <3>4
  <2>6. ASSUME NEW b \in 1..SysRead(fd, n).ret
        PROVE  SysRead(fd, n).data[b] = Whole(e)[Len(g) + b]
    <3>1. PICK j \in 1..Length[e] : j = Len(g) + b
      BY <1>5, <2>4, <2>5
    <3>2. Whole(e)[j] = <<e, j - 1>> /\ j - 1 = Len(g) + b - 1
      BY <2>4, <3>1
    <3>3. SysRead(fd, n).data[b] = <<e, Len(g) + b - 1>>
      BY <2>5
    <3>4. QED
      BY <3>1, <3>2, <3>3
  <2>7. QED
    BY <1>2, <1>3, <2>1, <2>4, <2>5, <2>6
<1>7. CASE e = "dir"
  <2>1. D(fd).ops = "dir" /\ D(fd).internal_ftype = 1
    BY <1>5, <1>7, Constants DEF Kind
  <2>2. Whole(e) = Names /\ Len(Names) = ACTUAL_MAX_DIRS /\ ACTUAL_MAX_DIRS \in Nat
    BY <1>2, <1>7, WholeOf, Constants
  <2>3. CASE Len(g) = Len(Names)
    <3>1. SysRead(fd, n) = [ret |-> 0, data |-> <<>>]
      BY <1>5, <2>1, <2>2, <2>3 DEF SysRead
    <3>2. SysRead(fd, n).ret = 0
      BY <3>1
    <3>3. QED
      BY <1>2, <1>3, <1>5, <2>2, <2>3, <3>2
  <2>4. CASE Len(g) # Len(Names)
    <3>1. Len(g) < Len(Names)
      BY <1>5, <2>2, <2>4
    <3>2. SysRead(fd, n) = [ret |-> 1, data |-> <<Names[Len(g) + 1]>>]
      BY <1>5, <2>1, <2>2, <3>1 DEF SysRead, DirRead
    <3>3. /\ SysRead(fd, n).ret = 1
          /\ SysRead(fd, n).data[1] = Names[Len(g) + 1]
      BY <3>2
    <3>4. QED
      BY <1>2, <1>3, <1>5, <2>2, <3>1, <3>3
  <2>5. QED
    BY <2>3, <2>4
<1>8. QED
  BY <1>2, <1>6, <1>7, Constants

-----------------------------------------------------------------------------
LEMMA OneFollows ==
  ASSUME FollowInv, OwnInv', NEW fd \in Fd, NEW d, NEW e, NEW g \in Seq(Data), Follows(d, e, g),
         file_descriptor' = [file_descriptor EXCEPT ![cur][fd] = d],
         mine' = [mine EXCEPT ![cur][fd] = e],
         got' = [got EXCEPT ![cur][fd] = g],
         UNCHANGED proc_cnt, waiting' = 0
  PROVE  FollowInv'
<1>1. cur \in Pid
  BY CurType DEF FollowInv, OwnInv
<1>2. got' \in [Pid -> [Fd -> Seq(Data)]]
  BY <1>1 DEF FollowInv
<1>3. ASSUME NEW p \in Pid, NEW h \in Fd, p < proc_cnt
      PROVE  Follows(file_descriptor'[p][h], mine'[p][h], got'[p][h])
  <2>1. CASE p = cur /\ h = fd
    <3>1. file_descriptor'[p][h] = d /\ mine'[p][h] = e /\ got'[p][h] = g
      BY <1>1, <2>1 DEF FollowInv, OwnInv, TypeOK
    <3>2. QED
      BY <3>1
  <2>2. CASE ~(p = cur /\ h = fd)
    <3>1. /\ file_descriptor'[p][h] = file_descriptor[p][h] /\ mine'[p][h] = mine[p][h]
          /\ got'[p][h] = got[p][h]
      BY <1>1, <2>2 DEF FollowInv, OwnInv, TypeOK
    <3>2. QED
      BY <1>3, <3>1 DEF FollowInv
  <2>3. QED
    BY <2>1, <2>2
<1>4. QED
  BY <1>2, <1>3 DEF FollowInv

LEMMA BlockFollows ==
  ASSUME FollowInv, OwnInv', NEW p \in Pid,
         mine' = [mine EXCEPT ![p] = [fd \in Fd |-> None]],
         got' = [got EXCEPT ![p] = [fd \in Fd |-> <<>>]],
         \A q \in Pid : q # p => file_descriptor'[q] = file_descriptor[q],
         \A q \in Pid : q < proc_cnt' => q < proc_cnt \/ q = p,
         waiting' = 0
  PROVE  FollowInv'
<1>1. got' \in [Pid -> [Fd -> Seq(Data)]]
  BY EmptySeq DEF FollowInv
<1>2. ASSUME NEW q \in Pid, NEW fd \in Fd, q < proc_cnt'
      PROVE  Follows(file_descriptor'[q][fd], mine'[q][fd], got'[q][fd])
  <2>1. CASE q = p
    <3>1. mine'[q][fd] = None
      BY <2>1 DEF FollowInv, OwnInv, TypeOK
    <3>2. QED
      BY <3>1 DEF Follows
  <2>2. CASE q # p
    <3>1. /\ file_descriptor'[q] = file_descriptor[q] /\ mine'[q] = mine[q]
          /\ got'[q] = got[q] /\ q < proc_cnt
      BY <1>2, <2>2 DEF FollowInv, OwnInv, TypeOK
    <3>2. QED
      BY <3>1 DEF FollowInv
  <2>3. QED
    BY <2>1, <2>2
<1>3. QED
  BY <1>1, <1>2 DEF FollowInv

LEMMA InitFollows == Init => FollowInv
<1> SUFFICES ASSUME Init
             PROVE  FollowInv
  OBVIOUS
<1>1. OwnInv
  BY InitOwn
<1>2. got \in [Pid -> [Fd -> Seq(Data)]] /\ waiting = 0
  BY EmptySeq DEF Init
<1>3. \A p \in Pid, fd \in Fd : mine[p][fd] = None
  BY DEF Init
<1>4. QED
  BY <1>1, <1>2, <1>3 DEF FollowInv, Follows

(* A read adds what it returns to what has been read. *)
LEMMA ReadFollows ==
  ASSUME FollowInv, OwnInv', NEW fd \in Fd, NEW n \in Nat \ {0}, SysReadData(fd, n)
  PROVE  FollowInv'
<1>1. cur \in Pid
  BY CurType DEF FollowInv, OwnInv
<1>2. SysRead(fd, n).ret > 0 /\ D(fd).ops # "rtc" /\ MayRead(fd, n) /\ waiting' = 0
  BY DEF SysReadData, rtc
<1>3. PICK e \in Range(Names) : e = mine[cur][fd] /\ e # None
  BY <1>1, <1>2, ReadMovesOn DEF FollowInv, OwnInv, TypeOK
<1>4. Holds(D(fd), e)
  BY <1>1, <1>3, CurType DEF FollowInv, OwnInv, D
<1>5. e # "rtc"
  BY <1>2, <1>3, <1>4, Constants DEF Holds, Kind
<1>6. PICK g \in Seq(Data) : g = got[cur][fd]
  BY <1>1 DEF FollowInv
<1>7. PICK k \in Nat : k = SysRead(fd, n).ret
  BY <1>2, <1>3, <1>5, ReadsRight
<1> DEFINE bytes == SysRead(fd, n).data
           h == g \o SubSeq(bytes, 1, k)
<1>8. /\ Len(g) + k <= Len(Whole(e)) /\ k > 0
      /\ \A b \in 1..k : bytes[b] = Whole(e)[Len(g) + b]
      /\ D(fd).internal_ftype # 2 => k = 1
  BY <1>2, <1>3, <1>5, <1>6, <1>7, ReadsRight
<1>9. Whole(e) \in Seq(Data) /\ Len(Whole(e)) \in Nat /\ Len(g) \in Nat
  BY <1>3, <1>5, <1>6, WholeOf, LenProperties
<1>10. \A b \in 1..k : bytes[b] \in Data
  <2> TAKE b \in 1..k
  <2>1. Len(g) + b \in 1..Len(Whole(e))
    BY <1>8, <1>9
  <2>2. QED
    BY <1>8, <1>9, <2>1, ElementOfSeq
<1>11. /\ SubSeq(bytes, 1, k) \in Seq(Data)
       /\ Len(SubSeq(bytes, 1, k)) = k
       /\ \A b \in 1..k : SubSeq(bytes, 1, k)[b] = bytes[b]
  <2> HIDE DEF bytes
  <2>1. /\ SubSeq(bytes, 1, k) \in Seq(Data)
        /\ Len(SubSeq(bytes, 1, k)) = IF 1 <= k THEN k - 1 + 1 ELSE 0
        /\ \A b \in 1..k - 1 + 1 : SubSeq(bytes, 1, k)[b] = bytes[1 + b - 1]
    BY <1>10, SubSeqProperties
  <2>2. \A b \in 1..k : b \in 1..k - 1 + 1 /\ 1 + b - 1 = b
    OBVIOUS
  <2>3. QED
    BY <1>8, <2>1, <2>2
<1>12. /\ h \in Seq(Data) /\ Len(h) = Len(g) + k
       /\ \A b \in 1..Len(g) + k :
            h[b] = IF b <= Len(g) THEN g[b] ELSE SubSeq(bytes, 1, k)[b - Len(g)]
  <2> HIDE DEF bytes
  <2>1. QED
    BY <1>11, ConcatProperties
<1> PICK position \in Nat : position = Len(g) + k
  BY <1>9
<1>13. /\ D(fd).file_position = Len(g)
       /\ \A b \in 1..Len(g) : g[b] = Whole(e)[b]
  BY <1>1, <1>3, <1>5, <1>6, CurType DEF FollowInv, OwnInv, Follows, D
<1>14. file_descriptor' = [file_descriptor EXCEPT ![cur][fd] = At(D(fd), position)]
  <2>1. D(fd).file_position + (IF D(fd).internal_ftype = 2 THEN SysRead(fd, n).ret ELSE 1)
          = position
    BY <1>7, <1>8, <1>13
  <2>2. QED
    BY <2>1 DEF SysReadData, D
<1>15. /\ got' = [got EXCEPT ![cur][fd] = h]
       /\ mine' = [mine EXCEPT ![cur][fd] = e] /\ UNCHANGED proc_cnt
  BY <1>1, <1>3, <1>6, <1>7 DEF SysReadData, FollowInv, OwnInv, TypeOK
<1>16. Follows(At(D(fd), position), e, h)
  <2>1. ASSUME NEW b \in 1..Len(h)
        PROVE  h[b] = Whole(e)[b]
    <3>1. CASE b <= Len(g)
      BY <1>9, <1>12, <1>13, <3>1
    <3>2. CASE ~(b <= Len(g))
      <4>1. b - Len(g) \in 1..k /\ Len(g) + (b - Len(g)) = b /\ b \in 1..Len(g) + k
        BY <1>9, <1>12, <3>2
      <4>2. h[b] = SubSeq(bytes, 1, k)[b - Len(g)]
        BY <1>12, <3>2, <4>1
      <4>3. QED
        BY <1>8, <1>11, <4>1, <4>2
    <3>3. QED
      BY <3>1, <3>2
  <2>2. At(D(fd), position).file_position = Len(h)
    BY <1>12 DEF At
  <2>3. QED
    BY <1>8, <1>12, <2>1, <2>2 DEF Follows
<1> HIDE DEF bytes, h
<1>17. QED
  BY <1>2, <1>12, <1>14, <1>15, <1>16, OneFollows

LEMMA CallsFollow == FollowInv /\ [Calls]_vars => FollowInv'
<1> SUFFICES ASSUME FollowInv, [Calls]_vars
             PROVE  FollowInv'
  OBVIOUS
<1>1. OwnInv' /\ OwnInv
  BY CallsOwn DEF FollowInv
<1>2. cur \in Pid /\ cur < proc_cnt /\ TypeOK
  BY <1>1, CurType DEF OwnInv
<1>3. ASSUME NEW e \in Range(Names), NEW fd \in Fd, SysOpen(e, fd)
      PROVE  FollowInv'
  <2>1. /\ file_descriptor' = [file_descriptor EXCEPT ![cur][fd] = Opened(e)]
        /\ mine' = [mine EXCEPT ![cur][fd] = e]
        /\ got' = [got EXCEPT ![cur][fd] = <<>>]
        /\ UNCHANGED proc_cnt /\ waiting' = 0
    BY <1>3 DEF SysOpen, rtc
  <2>2. <<>> \in Seq(Data) /\ Len(<<>>) = 0
    BY EmptySeq
  <2>3. e # "rtc" => Len(Whole(e)) \in Nat
    BY WholeOf, LenProperties
  <2>4. Opened(e).file_position = 0
    BY DEF Opened
  <2>5. Follows(Opened(e), e, <<>>)
    BY <2>2, <2>3, <2>4 DEF Follows
  <2>6. QED
    BY <1>1, <2>1, <2>2, <2>5, OneFollows
<1>4. ASSUME NEW fd \in Fd, NEW n \in Nat \ {0}, SysReadData(fd, n)
      PROVE  FollowInv'
  BY <1>1, <1>4, ReadFollows
<1>5. ASSUME NEW fd \in Fd, RtcRead(fd)
      PROVE  FollowInv'
  <2>1. /\ D(fd).ops = "rtc" /\ D(fd).flags = 1 /\ waiting' = fd
        /\ UNCHANGED <<proc_cnt, file_descriptor, mine, got>>
    BY <1>5 DEF RtcRead
  <2>2. Holds(D(fd), mine[cur][fd]) /\ mine[cur][fd] \in Range(Names) \cup {None}
    BY <1>1, <1>2 DEF OwnInv, TypeOK, D
  <2>3. mine[cur][fd] = "rtc"
    BY <2>1, <2>2, Constants DEF Holds, Kind
  <2>4. cur' = cur
    BY <2>1 DEF cur
  <2>5. QED
    BY <1>1, <2>1, <2>3, <2>4 DEF FollowInv
<1>6. ASSUME NEW fd \in Fd, SysClose(fd)
      PROVE  FollowInv'
  <2>1. /\ file_descriptor' = [file_descriptor EXCEPT ![cur][fd] = Closed(D(fd))]
        /\ mine' = [mine EXCEPT ![cur][fd] = None]
        /\ got' = [got EXCEPT ![cur][fd] = <<>>]
        /\ UNCHANGED proc_cnt /\ waiting' = 0
    BY <1>6 DEF SysClose, rtc, D
  <2>2. Follows(Closed(D(fd)), None, <<>>) /\ <<>> \in Seq(Data)
    BY EmptySeq DEF Follows
  <2>3. QED
    BY <1>1, <2>1, <2>2, OneFollows
<1>7. CASE RtcHandler
  <2>1. cur' = cur /\ UNCHANGED <<proc_cnt, file_descriptor, waiting, mine, got>>
    BY <1>7 DEF RtcHandler, cur
  <2>2. QED
    BY <1>1, <2>1 DEF FollowInv
<1>8. CASE RtcReadReturn
  <2>1. waiting \in Fd /\ mine[cur][waiting] = "rtc"
    BY <1>2, <1>8 DEF RtcReadReturn, TypeOK, FollowInv
  <2>2. PICK fd \in Fd, g \in Seq(Data) : fd = waiting /\ g = got[cur][waiting]
    BY <1>2, <2>1 DEF FollowInv
  <2>3. /\ file_descriptor' = [file_descriptor EXCEPT ![cur][fd] = At(D(fd), 0)]
        /\ UNCHANGED proc_cnt /\ waiting' = 0
    BY <1>8, <2>2 DEF RtcReadReturn, D
  <2>4. /\ mine' = [mine EXCEPT ![cur][fd] = "rtc"]
        /\ got' = [got EXCEPT ![cur][fd] = g]
    BY <1>2, <1>8, <2>1, <2>2 DEF RtcReadReturn, TypeOK, FollowInv
  <2>5. Follows(At(D(fd), 0), "rtc", g)
    BY DEF Follows
  <2>6. QED
    BY <1>1, <2>3, <2>4, <2>5, OneFollows
<1>9. ASSUME NEW p \in Pid, Start(p), waiting' = 0,
             \A q \in Pid : q < proc_cnt' => q < proc_cnt \/ q = p
      PROVE  FollowInv'
  <2>1. /\ mine' = [mine EXCEPT ![p] = [fd \in Fd |-> None]]
        /\ got' = [got EXCEPT ![p] = [fd \in Fd |-> <<>>]]
        /\ \A q \in Pid : q # p => file_descriptor'[q] = file_descriptor[q]
    BY <1>2, <1>9 DEF Start, TypeOK
  <2>2. QED
    BY <1>1, <1>9, <2>1, BlockFollows
<1>10. CASE SysExecute
  <2>1. /\ proc_cnt \in Pid /\ waiting' = 0 /\ Start(proc_cnt)
        /\ \A q \in Pid : q < proc_cnt' => q < proc_cnt \/ q = proc_cnt
    BY <1>2, <1>10, Constants DEF SysExecute, rtc, TypeOK, Pid
  <2>2. QED
    BY <1>9, <2>1
<1>11. CASE SysHalt
  <2>1. /\ mine' = [mine EXCEPT ![cur] = [fd \in Fd |-> None]]
        /\ got' = [got EXCEPT ![cur] = [fd \in Fd |-> <<>>]]
        /\ waiting' = 0 /\ proc_cnt' = proc_cnt - 1
    BY <1>11 DEF SysHalt
  <2>2. \A q \in Pid : q # cur => file_descriptor'[q] = file_descriptor[q]
    BY <1>2, <1>11 DEF SysHalt, TypeOK
  <2>3. \A q \in Pid : q < proc_cnt' => q < proc_cnt
    BY <1>2, <2>1, Constants DEF TypeOK, Pid
  <2>4. QED
    BY <1>1, <1>2, <2>1, <2>2, <2>3, BlockFollows
<1>12. CASE SysHaltFirst
  <2>1. 0 \in Pid /\ Start(0) /\ waiting' = 0 /\ proc_cnt' = proc_cnt
    BY <1>12, Constants DEF SysHaltFirst, Pid
  <2>2. QED
    BY <1>9, <2>1
<1>13. CASE UNCHANGED vars
  <2>1. cur' = cur /\ UNCHANGED <<proc_cnt, file_descriptor, waiting, mine, got>>
    BY <1>13 DEF vars, rtc, cur
  <2>2. QED
    BY <1>1, <2>1 DEF FollowInv
<1>14. QED
  BY <1>3, <1>4, <1>5, <1>6, <1>7, <1>8, <1>10, <1>11, <1>12, <1>13 DEF Calls

THEOREM FollowAlways == Spec => []FollowInv
  BY InitFollows, CallsFollow, NextCalls, PTL DEF Spec

(* sys_read, read_data and dir_read: what a program has read through a      *)
(* descriptor is the beginning of the file or the directory, for reads of   *)
(* any length and blocks of any size, whatever else ran in between.         *)
THEOREM ReadsAlwaysFollow == Spec => []ReadsFollow
<1>1. FollowInv => ReadsFollow
  <2> SUFFICES ASSUME FollowInv, NEW p \in 0..cur, NEW fd \in Fd,
                      mine[p][fd] \notin {None, "rtc"}
               PROVE  IsPrefix(got[p][fd], Whole(mine[p][fd]))
    BY DEF ReadsFollow
  <2>1. p \in Pid /\ p < proc_cnt
    BY Constants DEF FollowInv, OwnInv, TypeOK, cur, Pid
  <2>2. PICK e \in Range(Names), g \in Seq(Data) : e = mine[p][fd] /\ g = got[p][fd]
    BY <2>1 DEF FollowInv, OwnInv, TypeOK
  <2>3. /\ Len(g) <= Len(Whole(e)) /\ \A b \in 1..Len(g) : g[b] = Whole(e)[b]
    BY <2>1, <2>2 DEF FollowInv, Follows
  <2>4. Whole(e) \in Seq(Data) /\ Len(g) \in Nat
    BY <2>2, WholeOf, LenProperties
  <2>5. \A b \in 1..Len(g) : g[b] \in Data /\ Whole(e)[b] \in Data
    BY <2>3, <2>4, ElementOfSeq
  <2>6. \A s \in {g, Whole(e)} :
          /\ SubSeq(s, 1, Len(g)) \in Seq(Data)
          /\ Len(SubSeq(s, 1, Len(g))) = IF 1 <= Len(g) THEN Len(g) - 1 + 1 ELSE 0
          /\ \A b \in 1..Len(g) - 1 + 1 : SubSeq(s, 1, Len(g))[b] = s[1 + b - 1]
    BY <2>4, <2>5, SubSeqProperties
  <2>7. /\ Len(SubSeq(g, 1, Len(g))) = Len(g)
        /\ Len(SubSeq(Whole(e), 1, Len(g))) = Len(g)
    BY <2>4, <2>6
  <2>8. ASSUME NEW b \in 1..Len(g)
        PROVE  SubSeq(g, 1, Len(g))[b] = SubSeq(Whole(e), 1, Len(g))[b]
    <3>1. b \in 1..Len(g) - 1 + 1 /\ 1 + b - 1 = b
      BY <2>4
    <3>2. QED
      BY <2>3, <2>6, <3>1
  <2>9. SubSeq(g, 1, Len(g)) = SubSeq(Whole(e), 1, Len(g))
    BY <2>6, <2>7, <2>8, SeqEqual
  <2>10. QED
    BY <2>2, <2>3, <2>9 DEF IsPrefix
<1>2. QED
  BY <1>1, FollowAlways, PTL

(* The same calls: a read answers 0 exactly at the end, so that a program   *)
(* that reads until then gets all of the file and stops.                    *)
THEOREM EndAlwaysEnd == Spec => []EndIsEnd
<1>1. FollowInv => EndIsEnd
  <2> SUFFICES ASSUME FollowInv, NEW fd \in Fd, NEW n \in Requests,
                      mine[cur][fd] \notin {None, "rtc"}, MayRead(fd, n)
               PROVE  /\ SysRead(fd, n).ret >= 0
                      /\ SysRead(fd, n).ret = 0 <=> Len(got[cur][fd]) = Len(Whole(mine[cur][fd]))
    BY DEF EndIsEnd
  <2>1. /\ SysRead(fd, n).ret \in Nat
        /\ SysRead(fd, n).ret = 0 <=> Len(got[cur][fd]) = Len(Whole(mine[cur][fd]))
    BY ReadsRight, Constants
  <2>2. QED
    BY <2>1
<1>2. QED
  BY <1>1, FollowAlways, PTL
-----------------------------------------------------------------------------
(* A set of natural numbers that is not empty has a least element.          *)
LEMMA Least ==
  ASSUME NEW T, T \subseteq Nat, T # {}
  PROVE  \E n \in T : \A m \in T : n <= m
<1>1. IsWellFoundedOn(OpToRel(<, Nat), Nat)
  BY NatLessThanWellFounded
<1>2. PICK n \in T : \A m \in T : ~ (<<m, n>> \in OpToRel(<, Nat))
  BY <1>1, WFMin
<1>3. ASSUME NEW m \in T, m < n
      PROVE  FALSE
  <2>1. <<m, n>> \in OpToRel(<, Nat)
    BY <1>3 DEF OpToRel
  <2>2. QED
    BY <2>1, <1>2
<1>4. QED
  BY <1>3

(* Induction over the natural numbers, over a set instead of a predicate.  *)
LEMMA Induction ==
  ASSUME NEW T, 0 \in T, \A n \in Nat : n \in T => n + 1 \in T
  PROVE  Nat \subseteq T
<1>1. SUFFICES ASSUME Nat \ T # {}
               PROVE  FALSE
  OBVIOUS
<1>2. PICK n \in Nat \ T : \A m \in Nat \ T : n <= m
  BY <1>1, Least
<1>3. n # 0 /\ n - 1 \in Nat /\ n - 1 \in T
  BY <1>2
<1>4. QED
  BY <1>2, <1>3

(* The recursive function that LinesOf defines: one character at a time.    *)
LineStep(f, t, k) == IF k = 0 THEN <<<<>>>>
                     ELSE IF t[k] = LF THEN Append(f[k-1], <<>>)
                     ELSE [f[k-1] EXCEPT ![Len(f[k-1])] = Append(@, t[k])]

Divides(f, t) == f = [k \in 0..Len(t) |-> IF k = 0 THEN <<<<>>>>
                        ELSE IF t[k] = LF THEN Append(f[k-1], <<>>)
                        ELSE [f[k-1] EXCEPT ![Len(f[k-1])] = Append(@, t[k])]]

LEMMA DividesExists ==
  ASSUME NEW t, Len(t) \in Nat
  PROVE  \E f : Divides(f, t)
<1> DEFINE P(m, f) == f = [k \in 0..m |-> LineStep(f, t, k)]
           T == {m \in Nat : \E f : P(m, f)}
<1>1. 0 \in T
  <2> DEFINE f == [k \in 0..0 |-> <<<<>>>>]
  <2>1. P(0, f)
    BY DEF LineStep
  <2>2. QED
    BY <2>1
<1>2. ASSUME NEW m \in Nat, m \in T
      PROVE  m + 1 \in T
  <2>1. PICK f : P(m, f)
    BY <1>2
  <2> DEFINE g == [k \in 0..m+1 |-> IF k = m + 1 THEN LineStep(f, t, k) ELSE f[k]]
  <2>2. \A k \in 0..m : g[k] = f[k]
    OBVIOUS
  <2>3. g[m+1] = LineStep(f, t, m + 1) /\ g = [k \in 0..m+1 |-> g[k]]
    OBVIOUS
  <2> HIDE DEF g
  <2>4. ASSUME NEW k \in 0..m+1
        PROVE  g[k] = LineStep(g, t, k)
    <3>1. k # 0 => g[k-1] = f[k-1]
      BY <2>2
    <3>2. LineStep(g, t, k) = LineStep(f, t, k)
      <4>1. CASE k = 0
        BY <4>1 DEF LineStep
      <4>2. CASE k # 0
        <5>1. g[k-1] = f[k-1]
          BY <3>1, <4>2
        <5>2. QED
          BY <5>1, <4>2, Zenon DEF LineStep
      <4>3. QED
        BY <4>1, <4>2
    <3>3. CASE k = m + 1
      BY <3>2, <3>3, <2>3
    <3>4. CASE k # m + 1
      <4>1. k \in 0..m
        BY <3>4
      <4>2. f[k] = LineStep(f, t, k)
        BY <4>1, <2>1
      <4>3. QED
        BY <4>1, <4>2, <3>2, <2>2
    <3>5. QED
      BY <3>3, <3>4
  <2>5. P(m + 1, g)
    BY <2>3, <2>4
  <2>6. QED
    BY <2>5
<1> HIDE DEF T
<1>3. Len(t) \in T
  BY <1>1, <1>2, Induction
<1>4. QED
  BY <1>3 DEF T, Divides, LineStep

LEMMA LinesUnfold ==
  ASSUME NEW t, Len(t) \in Nat
  PROVE  \E f : /\ f[0] = <<<<>>>> /\ LinesOf(t) = f[Len(t)]
               /\ \A k \in 1..Len(t) : f[k] = LineStep(f, t, k)
<1> DEFINE f == CHOOSE f : Divides(f, t)
<1>1. Divides(f, t)
  BY DividesExists
<1>2. LinesOf(t) = f[Len(t)]
  BY DEF LinesOf, Divides
<1> HIDE DEF f
<1>3. \A k \in 0..Len(t) : f[k] = LineStep(f, t, k)
  BY <1>1 DEF Divides, LineStep
<1>4. f[0] = <<<<>>>>
  <2>1. 0 \in 0..Len(t)
    OBVIOUS
  <2>2. f[0] = LineStep(f, t, 0)
    BY <1>3, <2>1
  <2>3. QED
    BY <2>2 DEF LineStep
<1>5. QED
  BY <1>2, <1>3, <1>4

(* n characters hold a last line and the LFs before it, and no more.        *)
LEMMA LinesFit ==
  ASSUME NEW t, Len(t) \in Nat
  PROVE  LET lines == LinesOf(t)
         IN  /\ Len(lines) \in Nat \ {0} /\ Len(lines[Len(lines)]) \in Nat
             /\ Len(lines[Len(lines)]) + Len(lines) <= Len(t) + 1
<1>1. PICK f : /\ f[0] = <<<<>>>> /\ LinesOf(t) = f[Len(t)]
               /\ \A k \in 1..Len(t) : f[k] = LineStep(f, t, k)
  BY LinesUnfold
<1>2. PICK L \in Nat : L = Len(t)
  OBVIOUS
<1> DEFINE S == {t[k] : k \in 1..L}
           Q(k) == /\ f[k] \in Seq(Seq(S)) /\ Len(f[k]) # 0
                   /\ Len(f[k][Len(f[k])]) + Len(f[k]) <= k + 1
           T == {k \in Nat : k <= L => Q(k)}
<1>3. 0 \in T
  <2>1. <<>> \in Seq(S) /\ Len(<<>>) = 0
    BY EmptySeq
  <2>2. <<<<>>>> \in Seq(Seq(S)) /\ Len(<<<<>>>>) = 1 /\ <<<<>>>>[1] = <<>>
    BY <2>1
  <2>3. f[0] = <<<<>>>>
    BY <1>1
  <2> HIDE DEF S
  <2>4. Q(0)
    BY <2>1, <2>2, <2>3
  <2> HIDE DEF Q
  <2>5. QED
    BY <2>4
<1>4. ASSUME NEW k \in Nat, k \in T
      PROVE  k + 1 \in T
  <2> HIDE DEF Q, S
  <2>1. SUFFICES ASSUME k + 1 <= L
                 PROVE  Q(k + 1)
    BY DEF T
  <2>2. Q(k)
    BY <1>4, <2>1
  <2> USE DEF Q
  <2> PICK j \in 1..L : j = k + 1 /\ j - 1 = k /\ j # 0
    BY <2>1
  <2>3. PICK c \in S : c = t[j]
    BY DEF S
  <2>4. PICK lines \in Seq(Seq(S)) : lines = f[k]
    BY <2>2
  <2>5. PICK n \in Nat \ {0} : n = Len(lines)
    BY <2>2, <2>4
  <2>6. f[j] = IF c = LF THEN Append(lines, <<>>)
               ELSE [lines EXCEPT ![n] = Append(@, c)]
    <3>1. f[j] = LineStep(f, t, j)
      BY <1>1, <1>2
    <3>2. LineStep(f, t, j) = IF t[j] = LF THEN Append(f[j-1], <<>>)
                              ELSE [f[j-1] EXCEPT ![Len(f[j-1])] = Append(@, t[j])]
      BY Zenon DEF LineStep
    <3>3. f[j-1] = lines /\ Len(f[j-1]) = n /\ t[j] = c
      BY <2>3, <2>4, <2>5
    <3> HIDE DEF Q
    <3>4. QED
      BY <3>1, <3>2, <3>3, Zenon
  <2>7. CASE c = LF
    <3>1. f[j] = Append(lines, <<>>) /\ <<>> \in Seq(S) /\ Len(<<>>) = 0
      BY <2>6, <2>7, EmptySeq
    <3>2. /\ Append(lines, <<>>) \in Seq(Seq(S)) /\ Len(Append(lines, <<>>)) = n + 1
          /\ Append(lines, <<>>)[n + 1] = <<>>
      BY <2>5, <3>1, AppendProperties
    <3>3. Len(lines[n]) \in Nat
      BY <2>5
    <3>4. Len(lines[n]) + n <= k + 1
      BY <2>2, <2>4, <2>5
    <3>5. PICK m \in Nat \ {0} : /\ f[j] \in Seq(Seq(S)) /\ Len(f[j]) = m
                                /\ f[j][m] = <<>> /\ m <= j + 1
      BY <2>5, <3>1, <3>2, <3>3, <3>4
    <3>6. Q(j)
      <4>1. Len(f[j][Len(f[j])]) = 0
        BY <3>1, <3>5
      <4>2. QED
        BY <3>5, <4>1
    <3> HIDE DEF Q
    <3>7. QED
      BY <3>6
  <2>8. CASE c # LF
    <3>1. PICK old \in Seq(S) : old = lines[n] /\ n \in 1..Len(lines)
      BY <2>5
    <3>2. PICK line \in Seq(S) : line = Append(old, c) /\ Len(line) = Len(old) + 1
      BY <2>3, AppendProperties
    <3>3. f[j] = [lines EXCEPT ![n] = line]
      BY <2>6, <2>8, <3>1, <3>2
    <3>4. /\ [lines EXCEPT ![n] = line] \in Seq(Seq(S)) /\ Len([lines EXCEPT ![n] = line]) = n
          /\ [lines EXCEPT ![n] = line][n] = line
      BY <2>5, <3>1, ExceptSeq
    <3>5. Len(old) + n <= k + 1 /\ Len(old) \in Nat
      BY <2>2, <2>4, <2>5, <3>1
    <3>6. /\ f[j] \in Seq(Seq(S)) /\ Len(f[j]) = n /\ f[j][n] = line
          /\ Len(line) + n <= j + 1
      BY <2>5, <3>2, <3>3, <3>4, <3>5
    <3>7. Q(j)
      BY <2>5, <3>6
    <3> HIDE DEF Q
    <3>8. QED
      BY <3>7
  <2>9. QED
    BY <2>7, <2>8
<1> HIDE DEF T
<1>5. L \in T
  BY <1>3, <1>4, Induction
<1>6. Q(L)
  BY <1>5 DEF T
<1> HIDE DEF S
<1>7. f[L][Len(f[L])] \in Seq(S)
  BY <1>6
<1>8. QED
  BY <1>1, <1>2, <1>6, <1>7

(* What is carried over follows an LF, so there is room to read on.         *)
LEMMA LeftIsShort ==
  ASSUME NEW d, NEW n \in Nat, NEW more
  PROVE  Len(Lines(d, n, more).left) \in Nat /\ (Len(Lines(d, n, more).left) = 0 \/ Len(Lines(d, n, more).left) < n)
<1>1. PICK t : t = SubSeq(d, 1, n)
  OBVIOUS
<1>2. Len(t) = n
  <2> DEFINE S == {d[k] : k \in 1..n}
  <2>1. \A k \in 1..n : d[k] \in S
    OBVIOUS
  <2> HIDE DEF S
  <2>2. Len(SubSeq(d, 1, n)) = IF 1 <= n THEN n - 1 + 1 ELSE 0
    BY <2>1, SubSeqProperties
  <2>3. QED
    BY <1>1, <2>2
<1>3. PICK lines : lines = LinesOf(t)
  OBVIOUS
<1>4. /\ Len(lines) \in Nat \ {0} /\ Len(lines[Len(lines)]) \in Nat
      /\ Len(lines[Len(lines)]) + Len(lines) <= n + 1
  BY <1>2, <1>3, LinesFit
<1>5. \/ Lines(d, n, more).left = <<>>
      \/ Len(lines) > 1 /\ Lines(d, n, more).left = lines[Len(lines)]
  BY <1>1, <1>3 DEF Lines, Last
<1>6. Len(<<>>) = 0
  OBVIOUS
<1>7. QED
  BY <1>4, <1>5, <1>6
-----------------------------------------------------------------------------
(* A read that MayRead leaves out does answer more than 0.                  *)
LEMMA LongReads ==
  ASSUME NEW f \in Regular, NEW offset \in Nat, offset <= Length[f], NEW n \in Nat \ {0},
         ~ (Cut(f, offset, n) <= FirstPart(offset)), ~ (offset + n <= Length[f])
  PROVE  ReadData(f, offset, n).ret > 0
<1>1. Block \in Nat \ {0} /\ Length[f] \in Nat
  BY Constants
<1>2. PICK m \in 0..Block-1 : m = offset % Block
  BY <1>1, Divided
<1>3. PICK first \in Nat : first = FirstPart(offset)
  BY <1>1, <1>2 DEF FirstPart
<1>4. PICK rest \in Nat : rest = n - first
  BY <1>1, <1>3 DEF Cut
<1>5. rest % Block \in 0..Block-1
  BY <1>1, Divided
<1>6. LastPart(rest) > 0
  BY <1>1, <1>5 DEF LastPart
<1>7. ReadData(f, offset, n).ret = LastPart(rest)
  BY <1>3, <1>4 DEF ReadData
<1>8. QED
  BY <1>6, <1>7

(* A read that answers 0 or less is at the end, whatever it has asked for.  *)
LEMMA ReadEnds ==
  ASSUME FollowInv, NEW fd \in Fd, NEW n \in Nat \ {0},
         mine[cur][fd] \notin {None, "rtc"}, ~ (SysRead(fd, n).ret > 0)
  PROVE  SysRead(fd, n).ret = 0 /\ Len(got[cur][fd]) = Len(Whole(mine[cur][fd]))
<1>1. MayRead(fd, n)
  <2>1. SUFFICES ASSUME ~ MayRead(fd, n)
                 PROVE  FALSE
    OBVIOUS
  <2>2. cur \in Pid /\ cur < proc_cnt
    BY CurType DEF FollowInv, OwnInv
  <2>3. PICK e \in Range(Names), g \in Seq(Data) :
             e = mine[cur][fd] /\ g = got[cur][fd] /\ e # "rtc" /\ e # None
    BY <2>2 DEF FollowInv, OwnInv, TypeOK
  <2>4. Holds(D(fd), e) /\ Follows(D(fd), e, g)
    BY <2>2, <2>3 DEF FollowInv, OwnInv, D
  <2>5. D(fd).ops = "file"
    BY <2>1 DEF MayRead
  <2>6. e \in Regular
    BY <2>3, <2>4, <2>5, Constants DEF Holds, Kind
  <2>7. D(fd).flags = 1 /\ D(fd).internal_ftype = 2 /\ D(fd).inode_index = e
    BY <2>3, <2>4, <2>6 DEF Holds
  <2>8. PICK offset \in Nat : offset = D(fd).file_position /\ offset <= Length[e]
    BY <2>3, <2>4, <2>6, WholeOf, LenProperties DEF Follows
  <2>9. SysRead(fd, n) = ReadData(e, offset, n)
    BY <2>5, <2>7, <2>8 DEF SysRead
  <2>10. ~ (Cut(e, offset, n) <= FirstPart(offset)) /\ ~ (offset + n <= Length[e])
    BY <2>1, <2>5, <2>7, <2>8 DEF MayRead
  <2>11. ReadData(e, offset, n).ret > 0
    BY <2>6, <2>8, <2>10, LongReads
  <2>12. QED
    BY <2>9, <2>11
<1>2. /\ SysRead(fd, n).ret \in Nat
      /\ SysRead(fd, n).ret = 0 <=> Len(got[cur][fd]) = Len(Whole(mine[cur][fd]))
  BY <1>1, ReadsRight
<1>3. QED
  BY <1>2

(* A buffer not longer than a block: a read that passes the end of the file *)
(* stays within its block, if the last block of the file is not too short.  *)
LEMMA StaysInside ==
  ASSUME NEW f \in Regular, NEW offset \in Nat, offset <= Length[f],
         NEW n \in Nat \ {0}, n <= BUFSIZE, LongTail(f)
  PROVE  Cut(f, offset, n) <= FirstPart(offset) \/ offset + n <= Length[f]
<1>1. /\ Block \in Nat \ {0} /\ Length[f] \in Nat
      /\ BUFSIZE \in Nat \ {0} /\ BUFSIZE <= Block
  BY Constants, ProgramsAssumption
<1>2. PICK q \in Nat, m \in 0..Block-1 : m = offset % Block /\ q * Block + m = offset
  BY <1>1, Divided
<1>3. FirstPart(offset) = Block - m
  BY <1>2 DEF FirstPart
<1>4. SUFFICES ASSUME ~ (Cut(f, offset, n) <= Block - m), ~ (offset + n <= Length[f])
               PROVE  FALSE
  BY <1>3
<1>5. Cut(f, offset, n) = Length[f] - offset
  BY <1>1, <1>4 DEF Cut
<1>6. PICK c \in Nat, r \in 0..Block-1 : r = Length[f] % Block /\ c * Block + r = Length[f]
  BY <1>1, Divided
<1>7. (q + 1) * Block = q * Block + Block
  BY <1>1
<1>8. PICK E \in Nat : E = (q + 1) * Block /\ E = offset + (Block - m)
  BY <1>1, <1>2, <1>7
<1>9. E < Length[f] /\ Length[f] - E < BUFSIZE - 1 /\ E >= Block
  <2>1. q * Block \in Nat
    BY <1>1
  <2>2. QED
    BY <1>1, <1>2, <1>4, <1>5, <1>7, <1>8, <2>1
<1>10. c = q + 1
  <2>1. CASE c < q + 1
    <3>1. c * Block + Block <= (q + 1) * Block
      <4>1. PICK y \in Nat : y = q - c
        BY <2>1
      <4>2. (q + 1) * Block = c * Block + Block + y * Block /\ y * Block \in Nat
        BY <1>1, <4>1
      <4>3. QED
        BY <1>1, <4>2
    <3>2. QED
      BY <1>1, <1>6, <1>8, <1>9, <3>1
  <2>2. CASE c > q + 1
    <3>1. c * Block >= (q + 1) * Block + Block
      <4>1. PICK y \in Nat : y = c - q - 2
        BY <2>2
      <4>2. c * Block = (q + 1) * Block + Block + y * Block /\ y * Block \in Nat
        BY <1>1, <4>1
      <4>3. QED
        BY <1>1, <4>2
    <3>2. QED
      BY <1>1, <1>6, <1>8, <1>9, <3>1
  <2>3. QED
    BY <2>1, <2>2
<1>11. r = Length[f] - E
  BY <1>1, <1>6, <1>8, <1>10
<1>12. QED
  BY <1>1, <1>6, <1>9, <1>11 DEF LongTail

-----------------------------------------------------------------------------
(* What a program has open, and what all shells below it have not.          *)
Opens(fd, e) == fd \in Fd /\ mine[cur][fd] = e
Idle         == \A fd \in Fd : mine[cur][fd] = None
Shells       == \A p \in Pid, fd \in Fd : p < cur => mine[p][fd] = None

(* Of each program and place, what it has open, has written and carries.    *)
Starts == /\ at = "start" /\ arg = None /\ out = <<>>
          /\ i = 0 /\ cnt = 0 /\ failed = FALSE /\ Idle
CatAt ==
  /\ prog = "cat"
  /\ \/ at = "open" /\ out = <<>> /\ Idle
     \/ /\ at = "read" /\ Opens(file, arg) /\ arg \in Range(Names) /\ out = got[cur][file]
        /\ arg = "rtc" => out = <<>>
LsAt == prog = "ls" /\ at = "next" /\ Opens(dir, "dir") /\ out = got[cur][dir]

GrepAt ==
  /\ prog = "grep"
  /\ \/ at = "opendir" /\ Idle
     \/ at = "next" /\ Opens(dir, "dir")
     \/ at = "open" /\ Opens(dir, "dir") /\ name \in Range(Names)
     \/ /\ at \in {"read", "close"} /\ Opens(dir, "dir") /\ name \in Range(Names)
        /\ Opens(file, name) /\ file # dir
        /\ last \in 0..BUFSIZE-1
TestsAt ==
  /\ prog = "syserr" /\ failed = FALSE /\ todo \in Seq(1..8)
  /\ \/ /\ at = "test" /\ i \in 0..HighFd-1 /\ cnt = 0
        /\ i # 0 => todo # <<>> /\ Head(todo) = 3
        /\ \A fd \in Fd : mine[cur][fd] = IF fd < i + 2 THEN "dir" ELSE None
     \/ /\ at = "closing" /\ i \in HighFd..2*HighFd-2 /\ cnt = 1 /\ todo # <<>>
        /\ \A fd \in Fd : mine[cur][fd] = IF fd < i - HighFd + 2 THEN None ELSE "dir"

ProgInv ==
  /\ FollowInv /\ Shells
  /\ prog = "shell" => at = "start"
  /\ waiting # 0 => at = "read" /\ waiting = file
  /\ \/ Starts \/ CatAt \/ LsAt \/ GrepAt \/ TestsAt
     \/ at = "done" /\ DoesItsWork

-----------------------------------------------------------------------------
LEMMA Settings ==
  /\ HighFd \in Nat /\ HighFd >= 2 /\ 2 \in Fd /\ HighFd \in Fd
  /\ BUFSIZE \in Nat \ {0} /\ BUFSIZE <= Block
  /\ "dir" \in Range(Names) /\ None \notin Range(Names)
<1>1. \A e \in Range(Names) : e # None
  BY Constants DEF None
<1>2. QED
  BY <1>1, FilesAssumption, ProgramsAssumption DEF Fd

(* A step without a system call, or with one that fails.                    *)
LEMMA NoCall ==
  ASSUME ProgInv, UNCHANGED vars
  PROVE  /\ FollowInv' /\ Shells' /\ cur' = cur
         /\ UNCHANGED <<proc_cnt, file_descriptor, waiting, mine, got>>
<1>1. UNCHANGED <<proc_cnt, file_descriptor, flag, waiting, ticked, mine, got>> /\ cur' = cur
  BY DEF vars, rtc, cur
<1>2. FollowInv'
  BY CallsFollow DEF ProgInv
<1>3. QED
  BY <1>1, <1>2 DEF ProgInv, Shells

(* The clock's calls change no file.                                        *)
LEMMA ClockCall ==
  ASSUME ProgInv,
         \/ RtcHandler
         \/ RtcReadReturn
         \/ \E fd \in Fd : RtcRead(fd)
  PROVE  /\ FollowInv' /\ Shells' /\ cur' = cur
         /\ UNCHANGED <<proc_cnt, mine, got>>
<1>1. UNCHANGED <<proc_cnt, mine, got>> /\ cur' = cur
  BY DEF RtcHandler, RtcReadReturn, RtcRead, cur
<1>2. FollowInv'
  BY CallsFollow DEF ProgInv, Calls
<1>3. QED
  BY <1>1, <1>2 DEF ProgInv, Shells

(* One descriptor of the program on top changes.                            *)
LEMMA OneChanges ==
  ASSUME ProgInv, NEW fd \in Fd, NEW e, NEW g,
         mine' = [mine EXCEPT ![cur][fd] = e], got' = [got EXCEPT ![cur][fd] = g],
         UNCHANGED proc_cnt
  PROVE  /\ Shells' /\ cur' = cur
         /\ mine'[cur][fd] = e /\ got'[cur][fd] = g
         /\ \A h \in Fd : h # fd => mine'[cur][h] = mine[cur][h] /\ got'[cur][h] = got[cur][h]
<1>1. cur' = cur /\ cur \in Pid
  BY CurType DEF ProgInv, FollowInv, OwnInv, cur
<1>2. mine \in [Pid -> [Fd -> Range(Names) \cup {None}]] /\ got \in [Pid -> [Fd -> Seq(Data)]]
  BY DEF ProgInv, FollowInv, OwnInv, TypeOK
<1>3. \A p \in Pid : p # cur => mine'[p] = mine[p]
  BY <1>1, <1>2
<1>4. Shells'
  <2>1. ASSUME NEW p \in Pid, NEW h \in Fd, p < cur
        PROVE  mine'[p][h] = None
    <3>1. p # cur
      BY <2>1, <1>1 DEF Pid
    <3>2. QED
      BY <1>3, <2>1, <3>1 DEF ProgInv, Shells
  <2>2. QED
    BY <1>1, <2>1 DEF Shells
<1>5. QED
  BY <1>1, <1>2, <1>4

LEMMA OpenCall ==
  ASSUME ProgInv, NEW fd \in Fd, NEW e \in Range(Names), SysOpen(e, fd)
  PROVE  /\ FollowInv' /\ Shells' /\ cur' = cur /\ waiting' = 0
         /\ mine'[cur][fd] = e /\ got'[cur][fd] = <<>>
         /\ \A h \in Fd : h # fd => mine'[cur][h] = mine[cur][h] /\ got'[cur][h] = got[cur][h]
         /\ mine[cur][fd] = None
         /\ \A lower \in Fd : lower < fd => mine[cur][lower] # None
<1>1. FollowInv'
  BY CallsFollow DEF ProgInv, Calls
<1>2. /\ mine' = [mine EXCEPT ![cur][fd] = e] /\ got' = [got EXCEPT ![cur][fd] = <<>>]
      /\ proc_cnt' = proc_cnt /\ waiting' = 0 /\ FreeIdxFd(fd)
  BY DEF SysOpen, rtc
<1>3. cur \in Pid /\ cur < proc_cnt
  BY CurType DEF ProgInv, FollowInv, OwnInv
<1>4. \A h \in Fd : Holds(D(h), mine[cur][h])
  BY <1>3 DEF ProgInv, FollowInv, OwnInv, D
<1>5. mine[cur][fd] = None
  BY <1>2, <1>4 DEF FreeIdxFd, Holds
<1>6. ASSUME NEW lower \in Fd, lower < fd
      PROVE  mine[cur][lower] # None
  <2>1. lower \in 2..fd-1
    BY <1>6, Settings DEF Fd
  <2>2. D(lower).flags = 1
    BY <1>2, <2>1 DEF FreeIdxFd
  <2>3. QED
    BY <1>4, <2>2 DEF Holds
<1>7. /\ Shells' /\ cur' = cur
      /\ mine'[cur][fd] = e /\ got'[cur][fd] = <<>>
      /\ \A h \in Fd : h # fd => mine'[cur][h] = mine[cur][h] /\ got'[cur][h] = got[cur][h]
  BY <1>2, OneChanges
<1>8. QED
  BY <1>1, <1>2, <1>5, <1>6, <1>7

LEMMA CloseCall ==
  ASSUME ProgInv, NEW fd \in Fd, SysClose(fd)
  PROVE  /\ FollowInv' /\ Shells' /\ cur' = cur /\ waiting' = 0
         /\ mine'[cur][fd] = None
         /\ \A h \in Fd : h # fd => mine'[cur][h] = mine[cur][h]
<1>1. FollowInv'
  BY CallsFollow DEF ProgInv, Calls
<1>2. /\ mine' = [mine EXCEPT ![cur][fd] = None] /\ got' = [got EXCEPT ![cur][fd] = <<>>]
      /\ proc_cnt' = proc_cnt /\ waiting' = 0
  BY DEF SysClose, rtc
<1>3. QED
  BY <1>1, <1>2, OneChanges

LEMMA ReadCall ==
  ASSUME ProgInv, NEW fd \in Fd, NEW n \in Nat \ {0}, SysReadData(fd, n)
  PROVE  /\ FollowInv' /\ Shells' /\ cur' = cur /\ waiting' = 0 /\ mine' = mine
         /\ got'[cur][fd] = got[cur][fd] \o SubSeq(SysRead(fd, n).data, 1, SysRead(fd, n).ret)
         /\ mine[cur][fd] \notin {None, "rtc"}
         /\ SysRead(fd, n).ret \in 1..n
<1>1. FollowInv'
  BY CallsFollow DEF ProgInv, Calls
<1>2. cur \in Pid /\ cur < proc_cnt
  BY CurType DEF ProgInv, FollowInv, OwnInv
<1>3. PICK g : g = got[cur][fd] \o SubSeq(SysRead(fd, n).data, 1, SysRead(fd, n).ret)
  OBVIOUS
<1>4. /\ got' = [got EXCEPT ![cur][fd] = g] /\ mine' = mine /\ proc_cnt' = proc_cnt
      /\ waiting' = 0 /\ D(fd).ops # "rtc" /\ MayRead(fd, n) /\ SysRead(fd, n).ret > 0
  BY <1>3 DEF SysReadData, rtc
<1>5. mine \in [Pid -> [Fd -> Range(Names) \cup {None}]] /\ got \in [Pid -> [Fd -> Seq(Data)]]
  BY DEF ProgInv, FollowInv, OwnInv, TypeOK
<1>6. got'[cur][fd] = g /\ cur' = cur
  BY <1>2, <1>4, <1>5 DEF cur
<1>7. mine[cur][fd] # None
  BY <1>4, ReadMovesOn DEF ProgInv, FollowInv
<1>8. mine[cur][fd] # "rtc"
  <2>1. Holds(D(fd), mine[cur][fd])
    BY <1>2 DEF ProgInv, FollowInv, OwnInv, D
  <2>2. QED
    BY <1>4, <2>1, Constants DEF Holds, Kind, None
<1>9. SysRead(fd, n).ret \in Nat /\ SysRead(fd, n).ret <= n
  BY <1>4, <1>7, <1>8, ReadsRight DEF ProgInv
<1>10. SysRead(fd, n).ret \in 1..n
  BY <1>4, <1>9
<1>11. Shells'
  BY <1>4, <1>6 DEF ProgInv, Shells
<1>12. QED
  BY <1>1, <1>3, <1>4, <1>6, <1>7, <1>8, <1>10, <1>11

(* Another program comes on top, or a shell does again: it has nothing open.*)
LEMMA TopChanges ==
  ASSUME ProgInv,
         \/ SysExecute /\ Idle
         \/ SysHalt
         \/ SysHaltFirst
  PROVE  FollowInv' /\ Shells' /\ Idle' /\ waiting' = 0
<1>1. FollowInv'
  BY CallsFollow DEF ProgInv, Calls
<1>2. /\ cur \in Pid /\ cur < proc_cnt /\ proc_cnt \in 1..Depth /\ Depth \in Nat
      /\ mine \in [Pid -> [Fd -> Range(Names) \cup {None}]]
  BY CurType, Constants DEF ProgInv, FollowInv, OwnInv, TypeOK
<1>3. CASE SysExecute /\ Idle
  <2>1. /\ proc_cnt' = proc_cnt + 1 /\ waiting' = 0 /\ proc_cnt < Depth
        /\ mine' = [mine EXCEPT ![proc_cnt] = [fd \in Fd |-> None]]
    BY <1>3 DEF SysExecute, Start, rtc
  <2>2. cur' = proc_cnt /\ cur = proc_cnt - 1 /\ proc_cnt \in Pid
    BY <1>2, <2>1 DEF cur, Pid
  <2>3. Idle'
    BY <1>2, <2>1, <2>2 DEF Idle
  <2>4. ASSUME NEW p \in Pid, NEW fd \in Fd, p < cur'
        PROVE  mine'[p][fd] = None
    <3>1. p < cur \/ p = cur
      BY <1>2, <2>2, <2>4 DEF Pid
    <3>2. p # proc_cnt
      BY <1>2, <2>2, <2>4 DEF Pid
    <3>3. mine'[p] = mine[p]
      BY <1>2, <2>1, <2>2, <3>2
    <3>4. QED
      BY <1>3, <3>1, <3>3 DEF Idle, ProgInv, Shells
  <2>5. QED
    BY <1>1, <2>1, <2>3, <2>4 DEF Shells
<1>4. CASE SysHalt
  <2>1. /\ proc_cnt' = proc_cnt - 1 /\ waiting' = 0 /\ proc_cnt > 1
        /\ mine' = [mine EXCEPT ![cur] = [fd \in Fd |-> None]]
    BY <1>4 DEF SysHalt
  <2>2. cur' = proc_cnt - 2 /\ cur = proc_cnt - 1 /\ cur' \in Pid
    BY <1>2, <2>1 DEF cur, Pid
  <2>3. ASSUME NEW p \in Pid, NEW fd \in Fd, p <= cur'
        PROVE  mine'[p][fd] = None
    <3>1. p < cur /\ p # cur
      BY <1>2, <2>2, <2>3 DEF Pid
    <3>2. mine'[p] = mine[p]
      BY <1>2, <2>1, <3>1
    <3>3. QED
      BY <3>1, <3>2 DEF ProgInv, Shells
  <2>4. Idle'
    BY <1>2, <2>2, <2>3 DEF Idle, Pid
  <2>5. Shells'
    BY <1>2, <2>2, <2>3 DEF Shells, Pid
  <2>6. QED
    BY <1>1, <2>1, <2>4, <2>5
<1>5. CASE SysHaltFirst
  <2>1. /\ proc_cnt = 1 /\ proc_cnt' = 1 /\ waiting' = 0
        /\ mine' = [mine EXCEPT ![0] = [fd \in Fd |-> None]]
    BY <1>5 DEF SysHaltFirst, Start
  <2>2. cur' = 0 /\ cur = 0 /\ 0 \in Pid
    BY <1>2, <2>1 DEF cur
  <2>3. Idle'
    BY <1>2, <2>1, <2>2 DEF Idle
  <2>4. Shells'
    BY <2>2 DEF Shells, Pid
  <2>5. QED
    BY <1>1, <2>1, <2>3, <2>4
<1>6. QED
  BY <1>3, <1>4, <1>5
-----------------------------------------------------------------------------
LEMMA FreshStarts ==
  ASSUME NEW p, Fresh(p), FollowInv', Shells', Idle', waiting' = 0
  PROVE  ProgInv'
BY DEF Fresh, Starts, ProgInv

(* A step that leaves the program where it is, with what it has open.       *)
LEMMA SamePlace ==
  ASSUME ProgInv, UNCHANGED user, UNCHANGED <<mine, got>>, cur' = cur, FollowInv', Shells',
         waiting' = waiting \/ (at = "read" /\ waiting' = file)
  PROVE  ProgInv'
<1>1. /\ UNCHANGED <<prog, at, arg, status, dir, file, data, last, junk, name>>
      /\ UNCHANGED <<todo, i, cnt, failed, out, seen>>
  BY DEF user, inGrep, inTest
<1>2. /\ Idle' <=> Idle
      /\ \A fd, e : Opens(fd, e)' <=> Opens(fd, e)
  BY DEF Idle, Opens
<1>3. Starts => Starts'
  BY <1>1, <1>2 DEF Starts
<1>4. CatAt => CatAt'
  BY <1>1, <1>2 DEF CatAt, Opens
<1>5. LsAt => LsAt'
  BY <1>1, <1>2 DEF LsAt, Opens
<1>6. GrepAt => GrepAt'
  BY <1>1, <1>2 DEF GrepAt, Opens
<1>7. TestsAt => TestsAt'
  BY <1>1 DEF TestsAt
<1>8. at = "done" /\ DoesItsWork => at' = "done" /\ DoesItsWork'
  BY <1>1 DEF DoesItsWork
<1>9. QED
  BY <1>1, <1>3, <1>4, <1>5, <1>6, <1>7, <1>8 DEF ProgInv

(* The shells: a command, exit, and the end of a program.                   *)
LEMMA ShellsKeep ==
  ASSUME ProgInv,
         \/ \E p \in Programs, a \in Arguments : ShellExecutes(p, a)
         \/ ShellExits
         \/ ProgramEnds
         \/ ProgramKilled
  PROVE  ProgInv'
<1>1. ASSUME NEW p \in Programs, NEW a \in Arguments, ShellExecutes(p, a)
      PROVE  ProgInv'
  <2>1. SysExecute /\ Fresh(p) /\ at = "start"
    BY <1>1 DEF ShellExecutes, Runs
  <2>2. Idle
    BY <2>1 DEF ProgInv, Starts, CatAt, LsAt, GrepAt, TestsAt
  <2>3. QED
    BY <2>1, <2>2, TopChanges, FreshStarts
<1>2. CASE ShellExits
  <2>1. (SysHalt \/ SysHaltFirst) /\ Fresh("shell")
    BY <1>2 DEF ShellExits
  <2>2. QED
    BY <2>1, TopChanges, FreshStarts
<1>3. CASE ProgramEnds \/ ProgramKilled
  <2>1. SysHalt /\ Fresh("shell")
    BY <1>3 DEF ProgramEnds, ProgramKilled
  <2>2. QED
    BY <2>1, TopChanges, FreshStarts
<1>4. QED
  BY <1>1, <1>2, <1>3

(* The clock, and the other terminals.                                      *)
LEMMA OthersKeep ==
  ASSUME ProgInv,
         \/ Tick
         \/ ReadsClock
         \/ \E a \in Arguments : OtherTerminal(a)
  PROVE  ProgInv'
<1>1. CASE Tick
  <2>1. RtcHandler /\ UNCHANGED user /\ waiting' = waiting
    BY <1>1 DEF Tick, RtcHandler
  <2>2. FollowInv' /\ Shells' /\ cur' = cur /\ UNCHANGED <<mine, got>>
    BY <2>1, ClockCall
  <2>3. QED
    BY <2>1, <2>2, SamePlace
<1>2. CASE ReadsClock
  <2>1. /\ RtcRead(file) /\ UNCHANGED user /\ waiting' = file /\ at = "read"
        /\ prog \in {"cat", "grep"}
    BY <1>2 DEF ReadsClock, RtcRead
  <2>2. file \in Fd
    BY <2>1 DEF ProgInv, Starts, CatAt, LsAt, GrepAt, TestsAt, Opens
  <2>3. FollowInv' /\ Shells' /\ cur' = cur /\ UNCHANGED <<mine, got>>
    BY <2>1, <2>2, ClockCall
  <2>4. QED
    BY <2>1, <2>3, SamePlace
<1>3. ASSUME NEW a \in Arguments, OtherTerminal(a)
      PROVE  ProgInv'
  <2>1. UNCHANGED vars /\ UNCHANGED user
    BY <1>3 DEF OtherTerminal
  <2>2. FollowInv' /\ Shells' /\ cur' = cur /\ UNCHANGED <<waiting, mine, got>>
    BY <2>1, NoCall
  <2>3. QED
    BY <2>1, <2>2, SamePlace
<1>4. QED
  BY <1>1, <1>2, <1>3

(* What is open through an open descriptor that is not the clock's.         *)
LEMMA NotClock ==
  ASSUME ProgInv, NEW fd \in Fd, NEW e \in Range(Names), mine[cur][fd] = e, D(fd).ops # "rtc"
  PROVE  mine[cur][fd] \notin {None, "rtc"}
<1>1. Holds(D(fd), mine[cur][fd])
  BY CurType DEF ProgInv, FollowInv, OwnInv, D
<1>2. e # None
  BY Settings
<1>3. QED
  BY <1>1, <1>2, Constants DEF Holds, Kind, None

(* Who has read as much as there is has read all of it.                     *)
LEMMA AllRead ==
  ASSUME FollowInv, NEW fd \in Fd, mine[cur][fd] \notin {None, "rtc"},
         Len(got[cur][fd]) = Len(Whole(mine[cur][fd]))
  PROVE  got[cur][fd] = Whole(mine[cur][fd])
<1>1. cur \in Pid /\ cur < proc_cnt
  BY CurType DEF FollowInv, OwnInv
<1>2. PICK e \in Range(Names), g \in Seq(Data) : e = mine[cur][fd] /\ g = got[cur][fd]
  BY <1>1 DEF FollowInv, OwnInv, TypeOK
<1>3. \A b \in 1..Len(g) : g[b] = Whole(e)[b]
  BY <1>1, <1>2 DEF FollowInv, Follows
<1>4. Whole(e) \in Seq(Data)
  BY <1>2, WholeOf
<1>5. g = Whole(e)
  BY <1>2, <1>3, <1>4, SeqEqual
<1>6. QED
  BY <1>2, <1>5

-----------------------------------------------------------------------------
(* getargs: only the programs that have an argument go on.                  *)
LEMMA ArgsKeep ==
  ASSUME ProgInv, GetArgs("cat", "open") \/ GetArgs("grep", "opendir")
  PROVE  ProgInv'
<1>1. /\ FollowInv' /\ Shells' /\ cur' = cur
      /\ UNCHANGED <<waiting, mine, got, prog, out>>
  BY NoCall DEF GetArgs
<1>2. at = "start" /\ waiting = 0 /\ prog \in {"cat", "grep"}
  BY DEF GetArgs, Runs
<1>3. Starts
  BY <1>2 DEF ProgInv, CatAt, LsAt, GrepAt, TestsAt
<1>4. Idle'
  BY <1>1, <1>3 DEF Starts, Idle
<1>5. CASE current_command = None
  <2>1. at' = "done" /\ status' = 3 /\ arg' = None
    BY <1>3, <1>5 DEF GetArgs, Done, Starts
  <2>2. DoesItsWork'
    BY <1>1, <1>2, <2>1, Settings DEF DoesItsWork
  <2>3. QED
    BY <1>1, <1>2, <2>1, <2>2 DEF ProgInv
<1>6. CASE current_command # None
  <2>1. \/ prog = "cat" /\ at' = "open"
        \/ prog = "grep" /\ at' = "opendir"
    BY <1>6 DEF GetArgs, Runs
  <2>2. CatAt' \/ GrepAt'
    BY <1>1, <1>3, <1>4, <2>1 DEF CatAt, GrepAt, Starts
  <2>3. QED
    BY <1>1, <1>2, <2>2 DEF ProgInv
<1>7. QED
  BY <1>5, <1>6

(* A descriptor is free while nothing is open.                              *)
LEMMA FreeWhenIdle ==
  ASSUME ProgInv, Idle
  PROVE  \E fd \in Fd : FreeIdxFd(fd)
<1>1. Holds(D(2), mine[cur][2])
  BY CurType, Settings DEF ProgInv, FollowInv, OwnInv, D
<1>2. D(2).flags = 0
  BY <1>1, Settings DEF Idle, Holds
<1>3. FreeIdxFd(2)
  BY <1>2 DEF FreeIdxFd
<1>4. QED
  BY <1>3, Settings

(* ece391cat.c                                                              *)
LEMMA CatKeeps ==
  ASSUME ProgInv,
         \/ OpenFails
         \/ \E fd \in Fd : CatOpens(fd)
         \/ CatWrites
         \/ CatTold
  PROVE  ProgInv'
<1>1. CASE OpenFails
  <2>1. /\ FollowInv' /\ Shells' /\ cur' = cur
        /\ UNCHANGED <<waiting, mine, got, prog, arg>>
    BY <1>1, NoCall DEF OpenFails
  <2>2. /\ prog = "cat" /\ at = "open" /\ waiting = 0
        /\ OpenAnswer(arg) = -1 /\ at' = "done" /\ status' = 2
    BY <1>1 DEF OpenFails, Runs, Done
  <2>3. Idle
    BY <2>2 DEF ProgInv, Starts, CatAt, LsAt, GrepAt, TestsAt
  <2>4. arg \notin Range(Names)
    BY <2>2, <2>3, FreeWhenIdle DEF OpenAnswer
  <2>5. DoesItsWork'
    BY <2>1, <2>2, <2>4 DEF DoesItsWork
  <2>6. QED
    BY <2>1, <2>2, <2>5 DEF ProgInv
<1>2. ASSUME NEW fd \in Fd, CatOpens(fd)
      PROVE  ProgInv'
  <2>1. /\ prog = "cat" /\ at = "open" /\ OpenAnswer(arg) = 0 /\ SysOpen(arg, fd)
        /\ file' = fd /\ at' = "read" /\ UNCHANGED <<prog, arg, out>>
    BY <1>2 DEF CatOpens, Runs
  <2>2. arg \in Range(Names)
    BY <2>1 DEF OpenAnswer
  <2>3. /\ FollowInv' /\ Shells' /\ cur' = cur /\ waiting' = 0
        /\ mine'[cur][fd] = arg /\ got'[cur][fd] = <<>>
    BY <2>1, <2>2, OpenCall
  <2>4. out = <<>>
    BY <2>1 DEF ProgInv, Starts, CatAt, LsAt, GrepAt, TestsAt
  <2>5. CatAt'
    BY <2>1, <2>2, <2>3, <2>4 DEF CatAt, Opens
  <2>6. QED
    BY <2>1, <2>3, <2>5 DEF ProgInv
<1>3. CASE CatWrites
  <2>1. /\ prog = "cat" /\ at = "read" /\ waiting = 0 /\ D(file).ops # "rtc"
        /\ UNCHANGED <<prog, arg, file>>
    BY <1>3 DEF CatWrites, Runs
  <2>2. /\ file \in Fd /\ mine[cur][file] = arg /\ arg \in Range(Names)
        /\ out = got[cur][file]
    BY <2>1 DEF ProgInv, Starts, CatAt, LsAt, GrepAt, TestsAt, Opens
  <2>3. mine[cur][file] \notin {None, "rtc"} /\ arg # "rtc"
    BY <2>1, <2>2, NotClock
  <2>4. CASE SysRead(file, BUFSIZE).ret > 0
    <3>1. /\ SysReadData(file, BUFSIZE) /\ at' = at
          /\ out' = out \o SubSeq(SysRead(file, BUFSIZE).data, 1, SysRead(file, BUFSIZE).ret)
      BY <1>3, <2>4 DEF CatWrites
    <3>2. /\ FollowInv' /\ Shells' /\ cur' = cur /\ waiting' = 0 /\ mine' = mine
          /\ got'[cur][file] = got[cur][file]
                 \o SubSeq(SysRead(file, BUFSIZE).data, 1, SysRead(file, BUFSIZE).ret)
      BY <2>2, <3>1, Settings, ReadCall
    <3>3. out' = got'[cur][file]
      BY <2>2, <3>1, <3>2
    <3>4. CatAt'
      BY <2>1, <2>2, <2>3, <3>1, <3>2, <3>3 DEF CatAt, Opens
    <3>5. QED
      BY <2>1, <3>2, <3>4 DEF ProgInv
  <2>5. CASE ~ (SysRead(file, BUFSIZE).ret > 0)
    <3>1. SysRead(file, BUFSIZE).ret = 0 /\ Len(got[cur][file]) = Len(Whole(arg))
      BY <2>2, <2>3, <2>5, Settings, ReadEnds DEF ProgInv
    <3>2. out = Whole(arg)
      BY <2>2, <2>3, <3>1, AllRead DEF ProgInv
    <3>3. at' = "done" /\ status' = 0 /\ UNCHANGED vars /\ UNCHANGED out
      BY <1>3, <2>5, <3>1 DEF CatWrites, Done
    <3>4. DoesItsWork'
      BY <2>1, <2>3, <3>2, <3>3 DEF DoesItsWork
    <3>5. /\ FollowInv' /\ Shells' /\ waiting' = 0
      BY <2>1, <3>3, NoCall
    <3>6. QED
      BY <2>1, <3>3, <3>4, <3>5 DEF ProgInv
  <2>6. QED
    BY <2>4, <2>5
<1>4. CASE CatTold
  <2>1. /\ prog = "cat" /\ RtcReadReturn /\ at' = "done" /\ status' = 0
        /\ UNCHANGED <<prog, arg, out>> /\ waiting # 0 /\ waiting' = 0
    BY <1>4 DEF CatTold, Done, RtcReadReturn
  <2>2. at = "read" /\ waiting = file /\ mine[cur][waiting] = "rtc"
    BY <2>1 DEF ProgInv, FollowInv
  <2>3. arg = "rtc" /\ out = <<>>
    BY <2>1, <2>2 DEF ProgInv, Starts, CatAt, LsAt, GrepAt, TestsAt, Opens
  <2>4. DoesItsWork'
    BY <2>1, <2>3 DEF DoesItsWork
  <2>5. FollowInv' /\ Shells'
    BY <2>1, ClockCall
  <2>6. QED
    BY <2>1, <2>4, <2>5 DEF ProgInv
<1>5. QED
  BY <1>1, <1>2, <1>3, <1>4

-----------------------------------------------------------------------------
(* One entry of the directory.                                              *)
LEMMA EntryRead ==
  ASSUME ProgInv, Opens(dir, "dir"), SysRead(dir, 32).ret > 0
  PROVE  \E e \in Range(Names) : SysRead(dir, 32) = [ret |-> 1, data |-> <<e>>]
<1>1. Holds(D(dir), "dir") /\ Follows(D(dir), "dir", got[cur][dir])
  BY CurType DEF ProgInv, FollowInv, OwnInv, D, Opens
<1>2. /\ D(dir).flags = 1 /\ D(dir).ops = "dir" /\ D(dir).internal_ftype = 1
      /\ D(dir).file_position = Len(got[cur][dir])
  BY <1>1, Constants, Settings DEF Holds, Kind, Follows, None
<1>3. got[cur][dir] \in Seq(Data)
  BY CurType DEF ProgInv, FollowInv, OwnInv, Opens
<1>4. PICK p \in Nat : p = D(dir).file_position
  BY <1>2, <1>3, LenProperties
<1>5. SysRead(dir, 32) = [ret |-> 0, data |-> <<>>] \/ SysRead(dir, 32) = DirRead(p)
  BY <1>2, <1>4 DEF SysRead
<1>6. SysRead(dir, 32) = DirRead(p)
  BY <1>5
<1>7. p < Len(Names)
  BY <1>6 DEF DirRead
<1>8. SysRead(dir, 32) = [ret |-> 1, data |-> <<Names[p + 1]>>]
  BY <1>6, <1>7 DEF DirRead
<1>9. Names[p + 1] \in Range(Names)
  BY <1>7, FilesAssumption, LenProperties DEF Range
<1>10. QED
  BY <1>8, <1>9

LEMMA SingleEntry ==
  ASSUME NEW e
  PROVE  SubSeq(<<e>>, 1, 1) = <<e>>
<1>1. /\ <<e>> \in Seq({e}) /\ Len(<<e>>) = 1 /\ <<e>>[1] = e
  OBVIOUS
<1>2. /\ SubSeq(<<e>>, 1, 1) \in Seq({e})
      /\ Len(SubSeq(<<e>>, 1, 1)) = IF 1 <= 1 THEN 1 - 1 + 1 ELSE 0
      /\ \A b \in 1..1 - 1 + 1 : SubSeq(<<e>>, 1, 1)[b] = <<e>>[1 + b - 1]
  <2>1. \A b \in 1..1 : <<e>>[b] \in {e}
    BY <1>1
  <2>2. QED
    BY <2>1, SubSeqProperties
<1>3. Len(SubSeq(<<e>>, 1, 1)) = 1
  BY <1>2
<1>4. PICK s \in Seq({e}) : s = SubSeq(<<e>>, 1, 1) /\ Len(s) = 1
  BY <1>2, <1>3
<1>5. PICK single \in Seq({e}) : single = <<e>> /\ Len(single) = 1
  BY <1>1
<1>6. \A b \in 1..1 : s[b] = e /\ single[b] = e
  BY <1>4, <1>5
<1>7. s = single
  BY <1>4, <1>5, <1>6, SeqEqual
<1>8. QED
  BY <1>4, <1>5, <1>7

(* ece391ls.c and the directory of ece391grep.c                             *)
LEMMA LsKeeps ==
  ASSUME ProgInv, (\E fd \in Fd : OpensDir(fd)) \/ NextEntry
  PROVE  ProgInv'
<1>1. ASSUME NEW fd \in Fd, OpensDir(fd)
      PROVE  ProgInv'
  <2>1. /\ SysOpen("dir", fd) /\ dir' = fd /\ at' = "next"
        /\ UNCHANGED <<prog, out>>
        /\ \/ prog = "ls" /\ at = "start"
           \/ prog = "grep" /\ at = "opendir"
    BY <1>1 DEF OpensDir, Runs
  <2>2. /\ FollowInv' /\ Shells' /\ cur' = cur /\ waiting' = 0
        /\ mine'[cur][fd] = "dir" /\ got'[cur][fd] = <<>>
    BY <2>1, OpenCall, Settings
  <2>3. CASE prog = "ls" /\ at = "start"
    <3>1. out = <<>>
      BY <2>3 DEF ProgInv, Starts, CatAt, LsAt, GrepAt, TestsAt
    <3>2. LsAt'
      BY <2>1, <2>2, <2>3, <3>1 DEF LsAt, Opens
    <3>3. QED
      BY <2>1, <2>2, <2>3, <3>2 DEF ProgInv
  <2>4. CASE prog = "grep"
    <3>1. GrepAt'
      BY <2>1, <2>2, <2>4 DEF GrepAt, Opens
    <3>2. QED
      BY <2>1, <2>2, <2>4, <3>1 DEF ProgInv
  <2>5. QED
    BY <2>1, <2>3, <2>4
<1>2. CASE NextEntry
  <2>1. at = "next" /\ waiting = 0 /\ UNCHANGED <<prog, arg, dir, file, last>>
    BY <1>2 DEF NextEntry
  <2>2. /\ (prog = "ls" /\ out = got[cur][dir]) \/ prog = "grep"
        /\ Opens(dir, "dir")
    BY <2>1 DEF ProgInv, Starts, CatAt, LsAt, GrepAt, TestsAt
  <2>3. dir \in Fd /\ mine[cur][dir] = "dir" /\ mine[cur][dir] \notin {None, "rtc"}
    BY <2>2, Settings DEF Opens, None
  <2>4. CASE SysRead(dir, 32).ret > 0
    <3>1. PICK e \in Range(Names) : SysRead(dir, 32) = [ret |-> 1, data |-> <<e>>]
      BY <2>2, <2>4, EntryRead
    <3>2. SysRead(dir, 32).ret = 1 /\ SysRead(dir, 32).data = <<e>>
      BY <3>1
    <3>3. /\ SysReadData(dir, 32)
          /\ out' = IF prog = "ls" THEN out \o <<e>> ELSE out
          /\ name' = <<e>>[1]
          /\ at' = IF prog = "ls" \/ <<e>>[1] = "dir" THEN "next" ELSE "open"
      BY <1>2, <2>4, <3>2 DEF NextEntry
    <3>4. name' = e
      BY <3>3
    <3>5. /\ FollowInv' /\ Shells' /\ cur' = cur /\ waiting' = 0 /\ mine' = mine
          /\ got'[cur][dir] = got[cur][dir] \o SubSeq(SysRead(dir, 32).data, 1, SysRead(dir, 32).ret)
      <4>1. 32 \in Nat \ {0}
        OBVIOUS
      <4>2. QED
        BY <2>3, <3>3, <4>1, ReadCall
    <3>6. SubSeq(<<e>>, 1, 1) = <<e>>
      BY SingleEntry
    <3>7. got'[cur][dir] = got[cur][dir] \o <<e>>
      BY <3>2, <3>5, <3>6
    <3>8. Opens(dir, "dir")'
      BY <2>1, <2>3, <3>5 DEF Opens
    <3>9. CASE prog = "ls"
      <4>1. LsAt'
        BY <2>1, <2>2, <3>3, <3>5, <3>7, <3>8, <3>9 DEF LsAt
      <4>2. QED
        BY <2>1, <3>5, <3>9, <4>1 DEF ProgInv
    <3>10. CASE prog = "grep"
      <4>1. GrepAt'
        BY <2>1, <3>3, <3>4, <3>8, <3>10 DEF GrepAt
      <4>2. QED
        BY <2>1, <3>5, <3>10, <4>1 DEF ProgInv
    <3>11. QED
      BY <2>2, <3>9, <3>10
  <2>5. CASE ~ (SysRead(dir, 32).ret > 0)
    <3>1. SysRead(dir, 32).ret = 0 /\ Len(got[cur][dir]) = Len(Whole("dir"))
      BY <2>3, <2>5, ReadEnds DEF ProgInv
    <3>2. got[cur][dir] = Whole("dir") /\ Whole("dir") = Names
      BY <2>3, <3>1, AllRead, Settings, WholeOf DEF ProgInv
    <3>3. at' = "done" /\ status' = 0 /\ UNCHANGED vars /\ UNCHANGED out
      BY <1>2, <2>5, <3>1 DEF NextEntry, Done
    <3>4. DoesItsWork'
      BY <2>1, <2>2, <3>2, <3>3 DEF DoesItsWork
    <3>5. FollowInv' /\ Shells' /\ waiting' = 0
      BY <2>1, <3>3, NoCall
    <3>6. QED
      BY <2>1, <2>2, <3>3, <3>4, <3>5 DEF ProgInv
  <2>6. QED
    BY <2>4, <2>5
<1>3. QED
  BY <1>1, <1>2
-----------------------------------------------------------------------------
(* What is left of a search is shorter than the buffer.                     *)
LEMMA SearchLeaves ==
  ASSUME NEW read, NEW ret \in Nat, last \in Nat, last + ret <= BUFSIZE, Searched(read, ret)
  PROVE  last' \in 0..BUFSIZE-1 /\ at' \in {"read", "close"}
<1>1. PICK d, r : r = Lines(d, last + ret, ret # 0) /\ last' = Len(r.left)
  BY DEF Searched
<1>2. PICK n \in Nat : n = last + ret
  OBVIOUS
<1>3. Len(r.left) \in Nat /\ (Len(r.left) = 0 \/ Len(r.left) < n)
  BY <1>1, <1>2, LeftIsShort
<1>4. at' \in {"read", "close"}
  BY DEF Searched
<1>5. QED
  BY <1>1, <1>2, <1>3, <1>4, Settings

(* ece391grep.c                                                             *)
LEMMA GrepKeeps ==
  ASSUME ProgInv,
         \/ \E fd \in Fd : GrepOpens(fd)
         \/ GrepReads
         \/ GrepTold
         \/ GrepCloses
  PROVE  ProgInv'
<1>1. ASSUME NEW fd \in Fd, GrepOpens(fd)
      PROVE  ProgInv'
  <2>1. /\ prog = "grep" /\ at = "open" /\ SysOpen(name, fd) /\ file' = fd /\ last' = 0
        /\ at' = "read" /\ UNCHANGED <<prog, dir, name>>
    BY <1>1 DEF GrepOpens, Runs
  <2>2. Opens(dir, "dir") /\ name \in Range(Names)
    BY <2>1 DEF ProgInv, Starts, CatAt, LsAt, GrepAt, TestsAt
  <2>3. /\ FollowInv' /\ Shells' /\ cur' = cur /\ waiting' = 0 /\ mine'[cur][fd] = name
        /\ mine[cur][fd] = None
        /\ \A h \in Fd : h # fd => mine'[cur][h] = mine[cur][h]
    BY <2>1, <2>2, OpenCall
  <2>4. fd # dir
    BY <2>2, <2>3, Settings DEF Opens
  <2>5. GrepAt'
    BY <2>1, <2>2, <2>3, <2>4, Settings DEF GrepAt, Opens
  <2>6. QED
    BY <2>1, <2>3, <2>5 DEF ProgInv
<1>2. CASE GrepReads
  <2>1. /\ prog = "grep" /\ at = "read" /\ waiting = 0 /\ D(file).ops # "rtc"
        /\ UNCHANGED <<prog, arg, dir, file, name>>
    BY <1>2 DEF GrepReads, Runs
  <2>2. /\ Opens(dir, "dir") /\ name \in Range(Names) /\ Opens(file, name) /\ file # dir
        /\ last \in 0..BUFSIZE-1
    BY <2>1 DEF ProgInv, Starts, CatAt, LsAt, GrepAt, TestsAt
  <2>3. file \in Fd /\ mine[cur][file] \notin {None, "rtc"}
    BY <2>1, <2>2, NotClock DEF Opens
  <2>4. PICK n \in Nat \ {0} : n = BUFSIZE - last
    BY <2>2, Settings
  <2>5. PICK r : r = SysRead(file, n)
    OBVIOUS
  <2>6. /\ r.ret > 0 => SysReadData(file, n)
        /\ ~ (r.ret > 0) => UNCHANGED vars
        /\ r.ret # -1 => Searched(r.data, r.ret)
    BY <1>2, <2>4, <2>5 DEF GrepReads
  <2>7. /\ r.ret \in 0..n
        /\ FollowInv' /\ Shells' /\ cur' = cur /\ waiting' = 0 /\ mine' = mine
    <3>1. CASE r.ret > 0
      BY <2>3, <2>5, <2>6, <3>1, ReadCall
    <3>2. CASE ~ (r.ret > 0)
      BY <2>1, <2>3, <2>5, <2>6, <3>2, ReadEnds, NoCall DEF ProgInv
    <3>3. QED
      BY <3>1, <3>2
  <2>8. PICK ret \in Nat : ret = r.ret /\ last \in Nat /\ last + ret <= BUFSIZE
    BY <2>2, <2>4, <2>7, Settings
  <2>9. Searched(r.data, ret)
    BY <2>6, <2>8
  <2>10. last' \in 0..BUFSIZE-1 /\ at' \in {"read", "close"}
    BY <2>8, <2>9, SearchLeaves
  <2>11. GrepAt'
    BY <2>1, <2>2, <2>7, <2>10, Settings DEF GrepAt, Opens
  <2>12. QED
    BY <2>1, <2>7, <2>11 DEF ProgInv
<1>3. CASE GrepTold
  <2>1. /\ prog = "grep" /\ RtcReadReturn /\ Searched(<<>>, 0)
        /\ UNCHANGED <<prog, dir, file, name>> /\ waiting # 0 /\ waiting' = 0
    BY <1>3 DEF GrepTold, RtcReadReturn
  <2>2. at = "read"
    BY <2>1 DEF ProgInv
  <2>3. /\ Opens(dir, "dir") /\ name \in Range(Names) /\ Opens(file, name) /\ file # dir
        /\ last \in 0..BUFSIZE-1
    BY <2>1, <2>2 DEF ProgInv, Starts, CatAt, LsAt, GrepAt, TestsAt
  <2>4. last' \in 0..BUFSIZE-1 /\ at' \in {"read", "close"}
    <3>1. 0 \in Nat /\ last \in Nat /\ last + 0 <= BUFSIZE
      BY <2>3, Settings
    <3>2. QED
      BY <2>1, <3>1, SearchLeaves
  <2>5. FollowInv' /\ Shells' /\ cur' = cur /\ mine' = mine
    BY <2>1, ClockCall
  <2>6. GrepAt'
    BY <2>1, <2>3, <2>4, <2>5, Settings DEF GrepAt, Opens
  <2>7. QED
    BY <2>1, <2>5, <2>6 DEF ProgInv
<1>4. CASE GrepCloses
  <2>1. /\ prog = "grep" /\ at = "close" /\ SysClose(file) /\ at' = "next"
        /\ UNCHANGED <<prog, dir>>
    BY <1>4 DEF GrepCloses, Runs
  <2>2. Opens(dir, "dir") /\ Opens(file, name) /\ file # dir
    BY <2>1 DEF ProgInv, Starts, CatAt, LsAt, GrepAt, TestsAt
  <2>3. /\ FollowInv' /\ Shells' /\ cur' = cur /\ waiting' = 0
        /\ \A h \in Fd : h # file => mine'[cur][h] = mine[cur][h]
    BY <2>1, <2>2, CloseCall DEF Opens
  <2>4. GrepAt'
    BY <2>1, <2>2, <2>3 DEF GrepAt, Opens
  <2>5. QED
    BY <2>1, <2>3, <2>4 DEF ProgInv
<1>5. QED
  BY <1>1, <1>2, <1>3, <1>4

-----------------------------------------------------------------------------
(* ece391syserr.c: with nothing open, each of its tests passes.             *)
LEMMA TestsPass ==
  ASSUME ProgInv, Idle, NEW test \in 1..8, test # 3
  PROVE  AsExpected(test)
<1>1. \A fd \in Fd : D(fd).flags = 0 /\ D(fd).file_position = 0
  BY CurType DEF ProgInv, FollowInv, OwnInv, D, Idle, Holds
<1>2. ASSUME NEW fd \in Fd
      PROVE  SysRead(fd, 31).ret = -1
  <2>1. D(fd).file_position # ACTUAL_MAX_DIRS /\ D(fd).flags = 0
    BY <1>1, Constants
  <2>2. QED
    BY <2>1 DEF SysRead
<1>3. /\ \A fd \in 2..HighFd : ReadAnswer(fd) = -1 /\ WriteAnswer(fd) = -1
      /\ \A fd \in 0..HighFd : CloseAnswer(fd) = -1
  BY <1>1, <1>2 DEF ReadAnswer, WriteAnswer, CloseAnswer, Fd
<1>4. ErrNegFd /\ ErrBigFd
  BY Settings DEF ErrNegFd, ErrBigFd, FailsOn, ReadAnswer, WriteAnswer, CloseAnswer, Fd
<1>5. ErrOpen
  BY ProgramsAssumption DEF ErrOpen, OpenAnswer
<1>6. ErrUnopened
  BY <1>3 DEF ErrUnopened
<1>7. ErrVidmap /\ ErrSyscallNum
  BY DEF ErrVidmap, VidmapAnswer, ErrSyscallNum, CallFails
<1>8. ErrStdinOut
  BY DEF ErrStdinOut, ReadAnswer, WriteAnswer, Fd
<1>9. test \in {1, 2, 4, 5, 6, 7, 8}
  OBVIOUS
<1>10. QED
  BY <1>4, <1>5, <1>6, <1>7, <1>8, <1>9 DEF AsExpected

LEMMA TestsKeep ==
  ASSUME ProgInv,
         \/ \E select \in 0..9 : Selects(select)
         \/ Test
         \/ OpensLots
         \/ ClosesLots
         \/ TestsDone
  PROVE  ProgInv'
<1>1. ASSUME NEW select \in 0..9, Selects(select)
      PROVE  ProgInv'
  <2>1. /\ prog = "syserr" /\ at = "start" /\ at' = "test" /\ waiting = 0
        /\ UNCHANGED <<prog, i, cnt, failed>> /\ UNCHANGED vars
        /\ todo' = IF select = 0 THEN [k \in 1..8 |-> k]
                   ELSE IF select \in 1..8 THEN <<select>> ELSE <<>>
    BY <1>1 DEF Selects, Runs
  <2>2. Starts
    BY <2>1 DEF ProgInv, CatAt, LsAt, GrepAt, TestsAt
  <2>3. FollowInv' /\ Shells' /\ cur' = cur /\ UNCHANGED <<waiting, mine>>
    BY <2>1, NoCall
  <2>4. todo' \in Seq(1..8)
    <3>1. [k \in 1..8 |-> k] \in Seq(1..8)
      OBVIOUS
    <3>2. select \in 1..8 => <<select>> \in Seq(1..8)
      OBVIOUS
    <3>3. <<>> \in Seq(1..8)
      OBVIOUS
    <3>4. QED
      BY <2>1, <3>1, <3>2, <3>3
  <2>5. \A fd \in Fd : mine'[cur'][fd] = IF fd < 0 + 2 THEN "dir" ELSE None
    BY <2>2, <2>3 DEF Starts, Idle, Fd
  <2>6. TestsAt'
    BY <2>1, <2>2, <2>4, <2>5, Settings DEF TestsAt, Starts
  <2>7. QED
    BY <2>1, <2>3, <2>6 DEF ProgInv
<1>2. CASE Test
  <2>1. /\ prog = "syserr" /\ at = "test" /\ waiting = 0 /\ todo # <<>> /\ Head(todo) # 3
        /\ failed' = (failed \/ ~AsExpected(Head(todo))) /\ todo' = Tail(todo)
        /\ UNCHANGED <<prog, at, i, cnt>> /\ UNCHANGED vars
    BY <1>2 DEF Test, Runs
  <2>2. /\ failed = FALSE /\ todo \in Seq(1..8) /\ i = 0 /\ cnt = 0
        /\ \A fd \in Fd : mine[cur][fd] = IF fd < i + 2 THEN "dir" ELSE None
    BY <2>1 DEF ProgInv, Starts, CatAt, LsAt, GrepAt, TestsAt
  <2>3. Head(todo) \in 1..8 /\ Tail(todo) \in Seq(1..8)
    BY <2>1, <2>2, HeadTailProperties
  <2>4. Idle
    BY <2>2 DEF Idle, Fd
  <2>5. AsExpected(Head(todo))
    BY <2>1, <2>3, <2>4, TestsPass
  <2>6. FollowInv' /\ Shells' /\ cur' = cur /\ UNCHANGED <<waiting, mine>>
    BY <2>1, NoCall
  <2>7. failed' = FALSE
    BY <2>1, <2>2, <2>5
  <2>8. TestsAt'
    BY <2>1, <2>2, <2>3, <2>6, <2>7, Settings DEF TestsAt
  <2>9. QED
    BY <2>1, <2>6, <2>8 DEF ProgInv
<1>3. CASE OpensLots
  <2>1. /\ prog = "syserr" /\ at = "test" /\ waiting = 0 /\ todo # <<>> /\ Head(todo) = 3
        /\ i < HighFd /\ i' = i + 1 /\ at' = IF i' = HighFd THEN "closing" ELSE "test"
        /\ UNCHANGED <<prog, todo, failed>>
    BY <1>3 DEF OpensLots, Runs
  <2>2. /\ failed = FALSE /\ todo \in Seq(1..8) /\ i \in 0..HighFd-1 /\ cnt = 0
        /\ \A fd \in Fd : mine[cur][fd] = IF fd < i + 2 THEN "dir" ELSE None
    BY <2>1 DEF ProgInv, Starts, CatAt, LsAt, GrepAt, TestsAt
  <2>3. \A fd \in Fd : Holds(D(fd), mine[cur][fd])
    BY CurType DEF ProgInv, FollowInv, OwnInv, D
  <2>4. \A fd \in Fd : D(fd).flags = IF fd < i + 2 THEN 1 ELSE 0
    BY <2>2, <2>3 DEF Holds, None
  <2>5. CASE i = HighFd - 1
    <3>1. OpenAnswer("dir") = -1
      <4>1. \A fd \in Fd : D(fd).flags = 1
        BY <2>4, <2>5, Settings DEF Fd
      <4>2. \A fd \in Fd : ~ FreeIdxFd(fd)
        BY <4>1 DEF FreeIdxFd
      <4>3. QED
        BY <4>2 DEF OpenAnswer
    <3>2. cnt' = 1 /\ UNCHANGED vars /\ at' = "closing" /\ i' = HighFd
      BY <1>3, <2>1, <2>2, <2>5, <3>1, Settings DEF OpensLots
    <3>3. FollowInv' /\ Shells' /\ cur' = cur /\ UNCHANGED <<waiting, mine>>
      BY <3>2, NoCall
    <3>4. \A fd \in Fd : mine'[cur'][fd] = IF fd < i' - HighFd + 2 THEN None ELSE "dir"
      BY <2>2, <2>5, <3>2, <3>3, Settings DEF Fd
    <3>5. TestsAt'
      BY <2>1, <2>2, <3>2, <3>4, Settings DEF TestsAt
    <3>6. QED
      BY <2>1, <3>2, <3>3, <3>5 DEF ProgInv
  <2>6. CASE i # HighFd - 1
    <3>1. OpenAnswer("dir") = 0
      <4>1. i + 2 \in Fd /\ D(i + 2).flags = 0
        BY <2>2, <2>4, <2>6, Settings DEF Fd
      <4>2. \A lower \in 2..i+1 : D(lower).flags = 1
        BY <2>2, <2>4, <2>6, Settings DEF Fd
      <4>3. FreeIdxFd(i + 2)
        BY <2>2, <4>1, <4>2 DEF FreeIdxFd
      <4>4. QED
        BY <4>1, <4>3, Settings DEF OpenAnswer
    <3>2. PICK fd \in Fd : SysOpen("dir", fd)
      BY <1>3, <3>1 DEF OpensLots
    <3>3. cnt' = 0 /\ at' = "test" /\ i' \in 0..HighFd-1 /\ i' = i + 1
      BY <1>3, <2>1, <2>2, <2>6, <3>1, Settings DEF OpensLots
    <3>4. /\ FollowInv' /\ Shells' /\ cur' = cur /\ waiting' = 0 /\ mine'[cur][fd] = "dir"
          /\ mine[cur][fd] = None
          /\ \A h \in Fd : h # fd => mine'[cur][h] = mine[cur][h]
          /\ \A lower \in Fd : lower < fd => mine[cur][lower] # None
      BY <3>2, OpenCall, Settings
    <3>5. fd = i + 2
      <4>1. ~ (fd < i + 2)
        BY <2>2, <3>4, Settings
      <4>2. ~ (i + 2 < fd)
        BY <2>2, <2>6, <3>4, Settings DEF Fd
      <4>3. QED
        BY <2>2, <4>1, <4>2, Settings DEF Fd
    <3>6. ASSUME NEW h \in Fd
          PROVE  mine'[cur][h] = IF h < i' + 2 THEN "dir" ELSE None
      <4>1. CASE h = fd
        BY <2>2, <3>3, <3>4, <3>5, <4>1
      <4>2. CASE h # fd
        BY <2>2, <3>3, <3>4, <3>5, <4>2 DEF Fd
      <4>3. QED
        BY <4>1, <4>2
    <3>7. TestsAt'
      BY <2>1, <2>2, <3>3, <3>4, <3>6 DEF TestsAt
    <3>8. QED
      BY <2>1, <3>3, <3>4, <3>7 DEF ProgInv
  <2>7. QED
    BY <2>5, <2>6
<1>4. CASE ClosesLots
  <2>1. prog = "syserr" /\ at = "closing" /\ waiting = 0 /\ UNCHANGED prog
    BY <1>4 DEF ClosesLots, Runs
  <2>2. /\ failed = FALSE /\ todo \in Seq(1..8) /\ i \in HighFd..2*HighFd-2 /\ cnt = 1
        /\ todo # <<>>
        /\ \A h \in Fd : mine[cur][h] = IF h < i - HighFd + 2 THEN None ELSE "dir"
    BY <2>1 DEF ProgInv, Starts, CatAt, LsAt, GrepAt, TestsAt
  <2>3. PICK fd \in Fd : fd = i - HighFd + 2
    BY <2>2, Settings DEF Fd
  <2>4. mine[cur][fd] = "dir" /\ Holds(D(fd), mine[cur][fd])
    BY <2>2, <2>3, CurType, Settings DEF ProgInv, FollowInv, OwnInv, D, Fd
  <2>5. CloseAnswer(fd) = 0
    BY <2>4 DEF CloseAnswer, Holds, None
  <2>6. /\ SysClose(fd)
        /\ IF fd < HighFd
             THEN i' = i + 1 /\ UNCHANGED <<at, todo, cnt, failed>>
             ELSE /\ i' = 0 /\ cnt' = 0 /\ at' = "test" /\ todo' = Tail(todo)
                  /\ failed' = (failed \/ cnt # 1)
    BY <1>4, <2>3, <2>5 DEF ClosesLots
  <2>7. /\ FollowInv' /\ Shells' /\ cur' = cur /\ waiting' = 0 /\ mine'[cur][fd] = None
        /\ \A h \in Fd : h # fd => mine'[cur][h] = mine[cur][h]
    BY <2>6, CloseCall
  <2>8. ASSUME NEW h \in Fd
        PROVE  mine'[cur][h] = IF h < (i + 1) - HighFd + 2 THEN None ELSE "dir"
    <3>1. CASE h = fd
      BY <2>2, <2>3, <2>7, <3>1, Settings
    <3>2. CASE h # fd
      <4>1. h < (i + 1) - HighFd + 2 <=> h < i - HighFd + 2
        BY <2>2, <2>3, <3>2, Settings DEF Fd
      <4>2. QED
        BY <2>2, <2>7, <3>2, <4>1
    <3>3. QED
      BY <3>1, <3>2
  <2>9. CASE fd < HighFd
    <3>1. i' = i + 1 /\ UNCHANGED <<at, todo, cnt, failed>> /\ i' \in HighFd..2*HighFd-2
      BY <2>2, <2>3, <2>6, <2>9, Settings
    <3>2. ASSUME NEW h \in Fd
          PROVE  mine'[cur'][h] = IF h < i' - HighFd + 2 THEN None ELSE "dir"
      <4>1. i' - HighFd + 2 = (i + 1) - HighFd + 2
        BY <3>1
      <4>2. mine'[cur'][h] = mine'[cur][h]
        BY <2>7
      <4>3. QED
        BY <2>8, <4>1, <4>2
    <3>3. at' = "closing" /\ cnt' = 1 /\ todo' # <<>> /\ todo' \in Seq(1..8) /\ failed' = FALSE
      BY <2>1, <2>2, <3>1
    <3>4. TestsAt'
      BY <2>1, <3>1, <3>2, <3>3 DEF TestsAt
    <3>5. QED
      BY <2>1, <2>7, <3>1, <3>4 DEF ProgInv
  <2>10. CASE ~ (fd < HighFd)
    <3>1. /\ i' = 0 /\ cnt' = 0 /\ at' = "test" /\ todo' \in Seq(1..8) /\ failed' = FALSE
      BY <2>2, <2>6, <2>10, HeadTailProperties
    <3>2. \A h \in Fd : mine'[cur][h] = IF h < 0 + 2 THEN "dir" ELSE None
      BY <2>2, <2>3, <2>8, <2>10, Settings DEF Fd
    <3>3. 0 \in 0..HighFd-1
      BY Settings
    <3>4. TestsAt'
      BY <2>1, <2>7, <3>1, <3>2, <3>3 DEF TestsAt
    <3>5. QED
      BY <2>1, <2>7, <3>1, <3>4 DEF ProgInv
  <2>11. QED
    BY <2>9, <2>10
<1>5. CASE TestsDone
  <2>1. /\ prog = "syserr" /\ at = "test" /\ waiting = 0 /\ at' = "done"
        /\ status' = IF failed THEN 2 ELSE 0
        /\ UNCHANGED <<prog, out, arg>> /\ UNCHANGED vars
    BY <1>5 DEF TestsDone, Runs, Done
  <2>2. failed = FALSE
    BY <2>1 DEF ProgInv, Starts, CatAt, LsAt, GrepAt, TestsAt
  <2>3. DoesItsWork'
    BY <2>1, <2>2 DEF DoesItsWork
  <2>4. FollowInv' /\ Shells' /\ UNCHANGED waiting
    BY <2>1, NoCall
  <2>5. QED
    BY <2>1, <2>3, <2>4 DEF ProgInv
<1>6. QED
  BY <1>1, <1>2, <1>3, <1>4, <1>5

-----------------------------------------------------------------------------
LEMMA ProgramsStart == ProgramsInit => ProgInv
<1> SUFFICES ASSUME ProgramsInit
             PROVE  ProgInv
  OBVIOUS
<1>1. FollowInv /\ waiting = 0
  BY InitFollows DEF ProgramsInit, Init
<1>2. \A p \in Pid, fd \in Fd : mine[p][fd] = None
  BY DEF ProgramsInit, Init
<1>3. cur \in Pid
  BY <1>1, CurType DEF FollowInv, OwnInv
<1>4. Shells /\ Idle
  BY <1>2, <1>3 DEF Shells, Idle
<1>5. Starts /\ prog = "shell" /\ at = "start"
  BY <1>4 DEF Starts, ProgramsInit
<1>6. QED
  BY <1>1, <1>4, <1>5 DEF ProgInv

(* Whatever the programs, their user and the other terminals do.            *)
THEOREM ProgAlways == ProgramsSpec => []ProgInv
<1>1. ASSUME ProgInv, [ProgramsNext]_all
      PROVE  ProgInv'
  <2>1. CASE ProgramStep \/ UserSelects
    <3>1. ASSUME NEW fd \in Fd, CatOpens(fd) \/ OpensDir(fd) \/ GrepOpens(fd)
          PROVE  ProgInv'
      BY <1>1, <3>1, CatKeeps, LsKeeps, GrepKeeps
    <3>2. ASSUME NEW select \in 0..9, Selects(select)
          PROVE  ProgInv'
      BY <1>1, <3>2, TestsKeep
    <3>3. CASE ReadsClock
      BY <1>1, <3>3, OthersKeep
    <3>4. CASE ProgramEnds
      BY <1>1, <3>4, ShellsKeep
    <3>5. CASE GetArgs("cat", "open") \/ GetArgs("grep", "opendir")
      BY <1>1, <3>5, ArgsKeep
    <3>6. CASE OpenFails \/ CatWrites \/ CatTold
      BY <1>1, <3>6, CatKeeps
    <3>7. CASE NextEntry
      BY <1>1, <3>7, LsKeeps
    <3>8. CASE GrepReads \/ GrepTold \/ GrepCloses
      BY <1>1, <3>8, GrepKeeps
    <3>9. CASE Test \/ OpensLots \/ ClosesLots \/ TestsDone
      BY <1>1, <3>9, TestsKeep
    <3>10. QED
      BY <2>1, <3>1, <3>2, <3>3, <3>4, <3>5, <3>6, <3>7, <3>8, <3>9 DEF ProgramStep, UserSelects
  <2>2. CASE \/ \E p \in Programs, a \in Arguments : ShellExecutes(p, a)
             \/ ShellExits \/ ProgramKilled
    BY <1>1, <2>2, ShellsKeep
  <2>3. CASE Tick \/ \E a \in Arguments : OtherTerminal(a)
    BY <1>1, <2>3, OthersKeep
  <2>4. CASE UNCHANGED all
    <3>1. UNCHANGED vars /\ UNCHANGED user
      BY <2>4 DEF all
    <3>2. FollowInv' /\ Shells' /\ cur' = cur /\ UNCHANGED <<waiting, mine, got>>
      BY <1>1, <3>1, NoCall
    <3>3. QED
      BY <1>1, <3>1, <3>2, SamePlace
  <2>5. QED
    BY <1>1, <2>1, <2>2, <2>3, <2>4 DEF ProgramsNext
<1>2. QED
  BY <1>1, ProgramsStart, PTL DEF ProgramsSpec

(* cat and grep with read_data: a buffer no longer than a block stays inside *)
(* of what read_data cuts at the end of the file, whatever was carried over *)
(* from the reads before, for every file whose last block is long enough.   *)
THEOREM NeverPastTheEnd == ProgramsSpec => []ReadsInBounds
<1>1. ProgInv => ReadsInBounds
  <2> SUFFICES ASSUME ProgInv, prog \in {"cat", "grep"}, at = "read", D(file).ops = "file",
                      LongTail(D(file).inode_index)
               PROVE  /\ MayRead(file, IF prog = "cat" THEN BUFSIZE ELSE BUFSIZE - last)
                      /\ D(file).file_position <= Length[D(file).inode_index]
    BY DEF ReadsInBounds
  <2>1. PICK n \in Nat \ {0} : /\ n = (IF prog = "cat" THEN BUFSIZE ELSE BUFSIZE - last)
                               /\ n <= BUFSIZE
    BY Settings DEF ProgInv, Starts, CatAt, LsAt, GrepAt, TestsAt
  <2>2. PICK e \in Range(Names) : file \in Fd /\ mine[cur][file] = e
    BY DEF ProgInv, Starts, CatAt, LsAt, GrepAt, TestsAt, Opens
  <2>3. cur \in Pid /\ cur < proc_cnt
    BY CurType DEF ProgInv, FollowInv, OwnInv
  <2>4. PICK g \in Seq(Data) : g = got[cur][file]
    BY <2>2, <2>3 DEF ProgInv, FollowInv
  <2>5. Holds(D(file), e) /\ Follows(D(file), e, g) /\ e # None
    BY <2>2, <2>3, <2>4, Settings DEF ProgInv, FollowInv, OwnInv, D
  <2>6. e \in Regular
    BY <2>5, Constants DEF Holds, Kind
  <2>7. D(file).inode_index = e
    BY <2>5, <2>6 DEF Holds
  <2>8. PICK offset \in Nat : offset = D(file).file_position /\ offset <= Length[e]
    BY <2>2, <2>4, <2>5, <2>6, WholeOf, Constants, LenProperties DEF Follows
  <2>9. Cut(e, offset, n) <= FirstPart(offset) \/ offset + n <= Length[e]
    BY <2>1, <2>6, <2>7, <2>8, StaysInside
  <2>10. QED
    BY <2>1, <2>7, <2>8, <2>9 DEF MayRead
<1>2. QED
  BY <1>1, ProgAlways, PTL

(* cat writes every byte of its file once and in order and ls every name;   *)
(* no program ends early, and syserr's tests pass, for every image, every   *)
(* size of block and buffer, and whatever is killed or typed meanwhile.     *)
THEOREM AlwaysDoesItsWork == ProgramsSpec => []DoesItsWork
<1>1. ProgInv => DoesItsWork
  BY DEF ProgInv, DoesItsWork, Starts, CatAt, LsAt, GrepAt, TestsAt
<1>2. QED
  BY <1>1, ProgAlways, PTL

-----------------------------------------------------------------------------
(* Definitions by recursion: one value after another.                       *)
Steps(h, S) == \A k \in Nat, x \in S : h[k][x] \in S

Follow(f, n, S, x, h) ==
  f \in [0..n -> S] /\ f[0] = x /\ \A k \in 1..n : f[k] = h[k][f[k-1]]

LEMMA Recursion ==
  ASSUME NEW n \in Nat, NEW S, NEW x \in S, NEW h, Steps(h, S)
  PROVE  \E f : Follow(f, n, S, x, h)
<1> DEFINE T == {m \in Nat : \E f : Follow(f, m, S, x, h)}
<1>1. 0 \in T
  <2>1. Follow([k \in 0..0 |-> x], 0, S, x, h)
    BY DEF Follow
  <2>2. QED
    BY <2>1
<1>2. ASSUME NEW m \in Nat, m \in T
      PROVE  m + 1 \in T
  <2>1. PICK f : f \in [0..m -> S] /\ f[0] = x /\ \A k \in 1..m : f[k] = h[k][f[k-1]]
    BY <1>2 DEF Follow
  <2>2. PICK y \in S : y = h[m + 1][f[m]]
    BY <2>1 DEF Steps
  <2> DEFINE g == [k \in 0..m+1 |-> IF k = m + 1 THEN y ELSE f[k]]
  <2>3. g \in [0..m+1 -> S] /\ g[m+1] = y /\ \A k \in 0..m : g[k] = f[k]
    BY <2>1
  <2> HIDE DEF g
  <2>4. \A k \in 1..m+1 : g[k] = h[k][g[k-1]]
    <3>1. ASSUME NEW k \in 1..m+1
          PROVE  g[k] = h[k][g[k-1]]
      <4>1. k - 1 \in 0..m /\ g[k-1] = f[k-1]
        BY <2>3
      <4>2. CASE k = m + 1
        <5>1. k - 1 = m
          BY <4>2
        <5>2. QED
          BY <2>2, <2>3, <4>1, <4>2, <5>1
      <4>3. CASE k # m + 1
        <5>1. k \in 1..m /\ g[k] = f[k]
          BY <2>3, <4>3
        <5>2. QED
          BY <2>1, <4>1, <5>1
      <4>4. QED
        BY <4>2, <4>3
    <3>2. QED
      BY <3>1
  <2>5. Follow(g, m + 1, S, x, h)
    BY <2>1, <2>3, <2>4 DEF Follow
  <2>6. QED
    BY <2>5
<1> HIDE DEF T
<1>3. n \in T
  BY <1>1, <1>2, Induction
<1>4. QED
  BY <1>3 DEF T

(* Induction over the sequences, by their last element.                     *)
LEMMA ByLast ==
  ASSUME NEW C, NEW T, <<>> \in T, \A s \in Seq(C), c \in C : s \in T => Append(s, c) \in T
  PROVE  Seq(C) \subseteq T
<1> DEFINE N == {n \in Nat : \A s \in Seq(C) : Len(s) = n => s \in T}
<1>1. 0 \in N
  <2>1. \A s \in Seq(C) : Len(s) = 0 => s = <<>>
    BY EmptySeq
  <2>2. QED
    BY <2>1
<1>2. ASSUME NEW n \in Nat, n \in N
      PROVE  n + 1 \in N
  <2>1. ASSUME NEW s \in Seq(C), Len(s) = n + 1
        PROVE  s \in T
    <3>1. s # <<>>
      BY <2>1
    <3>2. PICK p \in Seq(C), c \in C : s = Append(p, c)
      BY <3>1, SequenceEmptyOrAppend
    <3>3. Len(p) = n
      BY <2>1, <3>2, AppendProperties, LenProperties
    <3>4. QED
      BY <1>2, <3>2, <3>3
  <2>2. QED
    BY <2>1
<1> HIDE DEF N
<1>3. \A n \in Nat : n \in N
  BY <1>1, <1>2, Induction
<1>4. ASSUME NEW s \in Seq(C)
      PROVE  s \in T
  <2>1. Len(s) \in N
    BY <1>3, LenProperties
  <2>2. QED
    BY <2>1 DEF N
<1>5. QED
  BY <1>4

-----------------------------------------------------------------------------
(* The three recursive functions, one element at a time: the elements of a  *)
(* sequence that are in a set,                                              *)
Keeps(f, C, t, R) ==
  /\ f \in [0..Len(t) -> Seq(C)]
  /\ f[0] = <<>> /\ Kept(t, R) = f[Len(t)]
  /\ \A k \in 1..Len(t) : f[k] = IF t[k] \in R THEN Append(f[k-1], t[k]) ELSE f[k-1]

LEMMA KeptUnfold ==
  ASSUME NEW C, NEW t \in Seq(C), NEW R
  PROVE  \E f : Keeps(f, C, t, R)
<1> DEFINE kept(f) == f = [k \in 0..Len(t) |-> IF k = 0 THEN <<>>
                                              ELSE IF t[k] \in R THEN Append(f[k-1], t[k])
                                              ELSE f[k-1]]
           h == [k \in Nat |-> [s \in Seq(C) |-> IF k \in 1..Len(t) /\ t[k] \in R
                                                THEN Append(s, t[k]) ELSE s]]
<1>1. Len(t) \in Nat /\ \A k \in 1..Len(t) : t[k] \in C
  BY LenProperties
<1>2. h \in [Nat -> [Seq(C) -> Seq(C)]]
  <2>1. ASSUME NEW k \in Nat, NEW s \in Seq(C)
        PROVE  (IF k \in 1..Len(t) /\ t[k] \in R THEN Append(s, t[k]) ELSE s) \in Seq(C)
    BY <1>1, AppendProperties
  <2>2. QED
    BY <2>1
<1>3. \A k \in 1..Len(t), s \in Seq(C) :
        h[k][s] = IF t[k] \in R THEN Append(s, t[k]) ELSE s
  BY <1>1
<1>4. <<>> \in Seq(C)
  BY EmptySeq
<1> HIDE DEF h, kept
<1>5. PICK g \in [0..Len(t) -> Seq(C)] :
             g[0] = <<>> /\ \A k \in 1..Len(t) : g[k] = h[k][g[k-1]]
  <2>1. Steps(h, Seq(C))
    BY <1>2 DEF Steps
  <2>2. \E g : Follow(g, Len(t), Seq(C), <<>>, h)
    BY <1>1, <1>4, <2>1, Recursion
  <2>3. QED
    BY <2>2 DEF Follow
<1>6. ASSUME NEW k \in 1..Len(t)
      PROVE  g[k] = IF t[k] \in R THEN Append(g[k-1], t[k]) ELSE g[k-1]
  <2>1. k - 1 \in 0..Len(t)
    BY <1>1
  <2>2. g[k-1] \in Seq(C)
    BY <1>5, <2>1
  <2>3. g[k] = h[k][g[k-1]]
    BY <1>5
  <2>4. QED
    BY <1>3, <2>2, <2>3, Zenon
<1> USE DEF kept
<1>7. kept(g)
  <2>1. g = [k \in 0..Len(t) |-> g[k]]
    BY <1>5
  <2>2. ASSUME NEW k \in 0..Len(t)
        PROVE  g[k] = IF k = 0 THEN <<>> ELSE IF t[k] \in R THEN Append(g[k-1], t[k]) ELSE g[k-1]
    <3>1. k # 0 => k \in 1..Len(t)
      BY <1>1
    <3>2. CASE k = 0
      BY <1>5, <3>2
    <3>3. CASE k # 0
      BY <1>6, <3>1, <3>3, Zenon
    <3>4. QED
      BY <3>2, <3>3
  <2>3. QED
    BY <2>1, <2>2
<1>8. PICK f : f = (CHOOSE ff : kept(ff)) /\ kept(f)
  BY <1>7
<1>9. Kept(t, R) = f[Len(t)]
  BY <1>8 DEF Kept
<1>10. /\ f[0] = <<>>
       /\ \A k \in 1..Len(t) : f[k] = IF t[k] \in R THEN Append(f[k-1], t[k]) ELSE f[k-1]
  <2>1. \A k \in 0..Len(t) : f[k] = IF k = 0 THEN <<>>
                                   ELSE IF t[k] \in R THEN Append(f[k-1], t[k]) ELSE f[k-1]
    BY <1>8
  <2>2. 0 \in 0..Len(t) /\ \A k \in 1..Len(t) : k \in 0..Len(t) /\ k # 0
    BY <1>1
  <2>3. QED
    BY <2>1, <2>2, Zenon
<1>11. f \in [0..Len(t) -> Seq(C)]
  <2> DEFINE T == {k \in Nat : k <= Len(t) => f[k] \in Seq(C)}
  <2>1. 0 \in T
    BY <1>4, <1>10
  <2>2. ASSUME NEW k \in Nat, k \in T
        PROVE  k + 1 \in T
    <3>1. SUFFICES ASSUME k + 1 <= Len(t)
                   PROVE  f[k+1] \in Seq(C)
      OBVIOUS
    <3>2. PICK j \in 1..Len(t) : j = k + 1 /\ j - 1 = k
      BY <1>1, <3>1
    <3>3. f[j-1] \in Seq(C)
      BY <1>1, <2>2, <3>2
    <3>4. f[j] = IF t[j] \in R THEN Append(f[j-1], t[j]) ELSE f[j-1]
      BY <1>10
    <3>5. QED
      BY <1>1, <3>2, <3>3, <3>4, AppendProperties
  <2> HIDE DEF T
  <2>3. \A k \in Nat : k \in T
    BY <2>1, <2>2, Induction
  <2>4. \A k \in 0..Len(t) : f[k] \in Seq(C)
    BY <2>3, <1>1 DEF T
  <2>5. f = [k \in 0..Len(t) |-> f[k]]
    BY <1>8
  <2>6. QED
    BY <2>4, <2>5
<1>12. QED
  BY <1>9, <1>10, <1>11 DEF Keeps

OneMore(u, t, c) == /\ Len(t) \in Nat /\ Len(u) = Len(t) + 1 /\ u[Len(t)+1] = c
                    /\ \A k \in 1..Len(t) : u[k] = t[k]

LEMMA AppendIs ==
  ASSUME NEW C, NEW t \in Seq(C), NEW c \in C
  PROVE  Append(t, c) \in Seq(C) /\ OneMore(Append(t, c), t, c)
<1>1. /\ Append(t, c) \in Seq(C) /\ Len(Append(t, c)) = Len(t) + 1
      /\ \A k \in 1.. Len(t) : Append(t, c)[k] = t[k]
      /\ Append(t, c)[Len(t)+1] = c
  BY AppendProperties
<1>2. PICK u \in Seq(C) : u = Append(t, c)
  BY <1>1
<1>3. Len(t) \in Nat
  BY LenProperties
<1>4. /\ Len(u) = Len(t) + 1 /\ u[Len(t)+1] = c
      /\ \A k \in 1..Len(t) : u[k] = t[k]
  BY <1>1, <1>2
<1>5. QED
  BY <1>2, <1>3, <1>4 DEF OneMore

LEMMA KeptIs ==
  ASSUME NEW C, NEW t \in Seq(C), NEW R
  PROVE  Kept(t, R) \in Seq(C) /\ Kept(<<>>, R) = <<>>
<1>1. Kept(t, R) \in Seq(C)
  <2>1. PICK f : Keeps(f, C, t, R)
    BY KeptUnfold
  <2>2. QED
    BY <2>1, LenProperties DEF Keeps
<1>2. Kept(<<>>, R) = <<>>
  <2>1. <<>> \in Seq({}) /\ Len(<<>>) = 0
    BY EmptySeq
  <2>2. PICK f : Keeps(f, {}, <<>>, R)
    BY <2>1, KeptUnfold
  <2>3. QED
    BY <2>1, <2>2 DEF Keeps
<1>3. QED
  BY <1>1, <1>2

LEMMA KeptAppend ==
  ASSUME NEW C, NEW t \in Seq(C), NEW c \in C, NEW R
  PROVE  Kept(Append(t, c), R) = IF c \in R THEN Append(Kept(t, R), c) ELSE Kept(t, R)
<1>0. PICK u \in Seq(C) : u = Append(t, c) /\ OneMore(u, t, c)
  BY AppendIs
<1>1. PICK n \in Nat : /\ n = Len(t) /\ Len(u) = n + 1 /\ u[n+1] = c
                       /\ \A k \in 1..n : u[k] = t[k]
  BY <1>0 DEF OneMore
<1>2. PICK f \in [0..n -> Seq(C)] :
           /\ f[0] = <<>> /\ Kept(t, R) = f[n]
           /\ \A k \in 1..n : f[k] = IF t[k] \in R THEN Append(f[k-1], t[k]) ELSE f[k-1]
  <2>1. PICK f : Keeps(f, C, t, R)
    BY KeptUnfold
  <2>2. QED
    BY <1>1, <2>1 DEF Keeps
<1>3. PICK g : /\ g \in [0..n+1 -> Seq(C)]
               /\ g[0] = <<>> /\ Kept(u, R) = g[n+1]
               /\ \A k \in 1..n+1 : g[k] = IF u[k] \in R THEN Append(g[k-1], u[k]) ELSE g[k-1]
  <2>1. PICK g : Keeps(g, C, u, R)
    BY KeptUnfold
  <2>2. /\ g \in [0..n+1 -> Seq(C)]
        /\ g[0] = <<>> /\ Kept(u, R) = g[n+1]
        /\ \A k \in 1..n+1 : g[k] = IF u[k] \in R THEN Append(g[k-1], u[k]) ELSE g[k-1]
    BY <1>1, <2>1 DEF Keeps
  <2>3. QED
    BY <2>2, Zenon
<1> DEFINE T == {k \in Nat : k <= n => g[k] = f[k]}
<1>4. 0 \in T
  BY <1>2, <1>3
<1>5. ASSUME NEW k \in Nat, k \in T
      PROVE  k + 1 \in T
  <2>1. SUFFICES ASSUME k + 1 <= n
                 PROVE  g[k+1] = f[k+1]
    OBVIOUS
  <2>2. PICK j \in 1..n : j = k + 1 /\ j - 1 = k /\ j \in 1..n+1
    BY <2>1
  <2>3. g[j-1] = f[j-1] /\ u[j] = t[j]
    BY <1>1, <1>5, <2>2
  <2>4. /\ g[j] = IF u[j] \in R THEN Append(g[j-1], u[j]) ELSE g[j-1]
        /\ f[j] = IF t[j] \in R THEN Append(f[j-1], t[j]) ELSE f[j-1]
    BY <1>2, <1>3, <2>2
  <2>5. QED
    BY <2>2, <2>3, <2>4
<1> HIDE DEF T
<1>6. n \in T
  BY <1>4, <1>5, Induction
<1>7. g[n] = f[n]
  BY <1>6 DEF T
<1>8. g[n+1] = IF u[n+1] \in R THEN Append(g[n], u[n+1]) ELSE g[n]
  <2>1. n + 1 \in 1..n+1 /\ n + 1 - 1 = n
    OBVIOUS
  <2>2. g[n+1] = IF u[n+1] \in R THEN Append(g[n+1-1], u[n+1]) ELSE g[n+1-1]
    BY <1>3, <2>1
  <2>3. QED
    BY <2>1, <2>2
<1>9. QED
  BY <1>0, <1>1, <1>2, <1>3, <1>7, <1>8

LEMMA ConcatAppend ==
  ASSUME NEW S, NEW s \in Seq(S), NEW t \in Seq(S), NEW x \in S
  PROVE  s \o Append(t, x) = Append(s \o t, x)
<1>1. /\ <<x>> \in Seq(S) /\ s \o t \in Seq(S)
      /\ Append(t, x) = t \o <<x>> /\ Append(s \o t, x) = (s \o t) \o <<x>>
  BY AppendIsConcat, ConcatProperties
<1>2. (s \o t) \o <<x>> = s \o (t \o <<x>>)
  BY <1>1, ConcatAssociative
<1>3. QED
  BY <1>1, <1>2

(* of which only those count that are in the sequence;                      *)
LEMMA KeptAlike ==
  ASSUME NEW C, NEW t \in Seq(C), NEW R, NEW S, \A k \in 1..Len(t) : t[k] \in R <=> t[k] \in S
  PROVE  Kept(t, R) = Kept(t, S)
<1> DEFINE Alike(s) == \A k \in 1..Len(s) : s[k] \in R <=> s[k] \in S
           T == {s \in Seq(C) : Alike(s) => Kept(s, R) = Kept(s, S)}
<1>1. <<>> \in T
  BY KeptIs, EmptySeq
<1>2. ASSUME NEW s \in Seq(C), NEW c \in C, s \in T
      PROVE  Append(s, c) \in T
  <2>1. SUFFICES ASSUME Alike(Append(s, c))
                 PROVE  Kept(Append(s, c), R) = Kept(Append(s, c), S)
    BY AppendProperties
  <2>2. PICK u \in Seq(C) : u = Append(s, c) /\ OneMore(u, s, c)
    BY AppendIs
  <2>3. PICK n \in Nat : n = Len(s) /\ Len(u) = n + 1 /\ u[n+1] = c /\ \A k \in 1..n : u[k] = s[k]
    BY <2>2 DEF OneMore
  <2>4. \A k \in 1..n+1 : u[k] \in R <=> u[k] \in S
    BY <2>1, <2>2, <2>3
  <2>5. (c \in R <=> c \in S) /\ \A k \in 1..n : s[k] \in R <=> s[k] \in S
    BY <2>3, <2>4
  <2>6. Kept(s, R) = Kept(s, S)
    BY <1>2, <2>3, <2>5
  <2>7. /\ Kept(Append(s, c), R) = IF c \in R THEN Append(Kept(s, R), c) ELSE Kept(s, R)
        /\ Kept(Append(s, c), S) = IF c \in S THEN Append(Kept(s, S), c) ELSE Kept(s, S)
    BY KeptAppend
  <2>8. QED
    BY <2>5, <2>6, <2>7
<1>3. t \in T
  <2> HIDE DEF T
  <2>1. QED
    BY <1>1, <1>2, ByLast
<1>4. QED
  BY <1>3

LEMMA KeptConcat ==
  ASSUME NEW C, NEW a \in Seq(C), NEW b \in Seq(C), NEW R
  PROVE  Kept(a \o b, R) = Kept(a, R) \o Kept(b, R)
<1> DEFINE T == {s \in Seq(C) : Kept(a \o s, R) = Kept(a, R) \o Kept(s, R)}
<1>0. \A s \in Seq(C) : Kept(s, R) \in Seq(C)
  BY KeptIs
<1>1. <<>> \in T
  <2>1. Kept(<<>>, R) = <<>>
    BY KeptIs
  <2>2. a \o <<>> = a /\ Kept(a, R) \o <<>> = Kept(a, R)
    BY <1>0, ConcatEmptySeq
  <2>3. QED
    BY <2>1, <2>2, EmptySeq
<1>2. ASSUME NEW s \in Seq(C), NEW x \in C, s \in T
      PROVE  Append(s, x) \in T
  <2>1. a \o Append(s, x) = Append(a \o s, x) /\ a \o s \in Seq(C) /\ Append(s, x) \in Seq(C)
    BY ConcatAppend, ConcatProperties, AppendProperties
  <2>2. PICK p \in Seq(C), q \in Seq(C) : p = Kept(a, R) /\ q = Kept(s, R)
    BY <1>0
  <2>3. Kept(a \o s, R) = p \o q
    BY <1>2, <2>2
  <2>4. CASE x \notin R
    <3>1. Kept(a \o Append(s, x), R) = Kept(a \o s, R) /\ Kept(Append(s, x), R) = q
      BY <2>1, <2>2, <2>4, KeptAppend
    <3>2. QED
      BY <2>1, <2>2, <2>3, <3>1
  <2>5. CASE x \in R
    <3>1. /\ Kept(a \o Append(s, x), R) = Append(Kept(a \o s, R), x)
          /\ Kept(Append(s, x), R) = Append(q, x)
      BY <2>1, <2>2, <2>5, KeptAppend
    <3>2. p \o Append(q, x) = Append(p \o q, x)
      BY ConcatAppend
    <3>3. QED
      BY <2>1, <2>2, <2>3, <3>1, <3>2
  <2>6. QED
    BY <2>4, <2>5
<1> HIDE DEF T
<1>3. b \in T
  BY <1>1, <1>2, ByLast
<1>4. QED
  BY <1>3 DEF T

(* the characters of a text but LF,                                         *)
LEMMA PlainKept ==
  ASSUME NEW C, NEW t \in Seq(C)
  PROVE  WithoutLF(t) = Kept(t, C \ {LF})
<1>1. \A k \in 1..Len(t) : t[k] \in C /\ t[k] \in Range(t)
  BY LenProperties DEF Range
<1>2. \A k \in 1..Len(t) : t[k] \in Range(t) \ {LF} <=> t[k] \in C \ {LF}
  BY <1>1
<1>3. QED
  BY <1>2, KeptAlike DEF WithoutLF

LEMMA PlainIs ==
  ASSUME NEW C, NEW t \in Seq(C)
  PROVE  WithoutLF(t) \in Seq(C) /\ WithoutLF(<<>>) = <<>>
BY KeptIs, PlainKept DEF WithoutLF

LEMMA PlainAppend ==
  ASSUME NEW C, NEW t \in Seq(C), NEW c \in C
  PROVE  WithoutLF(Append(t, c)) = IF c = LF THEN WithoutLF(t) ELSE Append(WithoutLF(t), c)
<1>1. Append(t, c) \in Seq(C)
  BY AppendProperties
<1>2. WithoutLF(t) = Kept(t, C \ {LF}) /\ WithoutLF(Append(t, c)) = Kept(Append(t, c), C \ {LF})
  BY <1>1, PlainKept
<1>3. Kept(Append(t, c), C \ {LF})
        = IF c \in C \ {LF} THEN Append(Kept(t, C \ {LF}), c) ELSE Kept(t, C \ {LF})
  BY KeptAppend
<1>4. QED
  BY <1>2, <1>3

(* the lines of a text,                                                     *)
LEMMA LinesAppend ==
  ASSUME NEW C, NEW t \in Seq(C), NEW c \in C
  PROVE  /\ LinesOf(<<>>) = <<<<>>>>
         /\ LinesOf(Append(t, c)) =
              IF c = LF THEN Append(LinesOf(t), <<>>)
              ELSE [LinesOf(t) EXCEPT ![Len(LinesOf(t))] = Append(@, c)]
<1>0. PICK u \in Seq(C) : u = Append(t, c) /\ OneMore(u, t, c)
  BY AppendIs
<1>1. PICK n \in Nat : /\ n = Len(t) /\ Len(u) = n + 1 /\ u[n+1] = c
                       /\ \A k \in 1..n : u[k] = t[k]
  BY <1>0 DEF OneMore
<1>2. PICK f : /\ f[0] = <<<<>>>> /\ LinesOf(t) = f[n]
               /\ \A k \in 1..n : f[k] = LineStep(f, t, k)
  <2>1. Len(t) \in Nat
    BY <1>1
  <2>2. PICK f : /\ f[0] = <<<<>>>> /\ LinesOf(t) = f[Len(t)]
                 /\ \A k \in 1..Len(t) : f[k] = LineStep(f, t, k)
    BY <2>1, LinesUnfold
  <2>3. QED
    BY <1>1, <2>2
<1>3. PICK g : /\ g[0] = <<<<>>>> /\ LinesOf(u) = g[n+1]
               /\ \A k \in 1..n+1 : g[k] = LineStep(g, u, k)
  <2>1. Len(u) \in Nat
    BY <1>1
  <2>2. PICK w : /\ w[0] = <<<<>>>> /\ LinesOf(u) = w[Len(u)]
                 /\ \A k \in 1..Len(u) : w[k] = LineStep(w, u, k)
    BY <2>1, LinesUnfold
  <2>3. QED
    BY <1>1, <2>2
<1> DEFINE T == {k \in Nat : k <= n => g[k] = f[k]}
<1>4. 0 \in T
  BY <1>2, <1>3
<1>5. ASSUME NEW k \in Nat, k \in T
      PROVE  k + 1 \in T
  <2>1. SUFFICES ASSUME k + 1 <= n
                 PROVE  g[k+1] = f[k+1]
    OBVIOUS
  <2>2. PICK j \in 1..n : j = k + 1 /\ j - 1 = k /\ j \in 1..n+1
    BY <2>1
  <2>3. g[j-1] = f[j-1] /\ u[j] = t[j]
    BY <1>1, <1>5, <2>2
  <2>4. g[j] = LineStep(g, u, j) /\ f[j] = LineStep(f, t, j)
    BY <1>2, <1>3, <2>2
  <2>5. LineStep(g, u, j) = LineStep(f, t, j)
    BY <2>3, Zenon DEF LineStep
  <2>6. QED
    BY <2>2, <2>4, <2>5
<1> HIDE DEF T
<1>6. n \in T
  BY <1>4, <1>5, Induction
<1>7. g[n] = f[n]
  BY <1>6 DEF T
<1>8. g[n+1] = IF c = LF THEN Append(g[n], <<>>) ELSE [g[n] EXCEPT ![Len(g[n])] = Append(@, c)]
  <2>1. PICK m : m = n + 1 /\ m \in 1..n+1 /\ m - 1 = n /\ m # 0
    OBVIOUS
  <2>2. g[m] = LineStep(g, u, m) /\ u[m] = c /\ g[m-1] = g[n]
    BY <1>1, <1>3, <2>1
  <2>3. LineStep(g, u, m) = IF u[m] = LF THEN Append(g[m-1], <<>>)
                            ELSE [g[m-1] EXCEPT ![Len(g[m-1])] = Append(@, u[m])]
    BY <2>1, Zenon DEF LineStep
  <2>4. g[m] = IF c = LF THEN Append(g[n], <<>>) ELSE [g[n] EXCEPT ![Len(g[n])] = Append(@, c)]
    BY <2>2, <2>3, Zenon
  <2>5. QED
    BY <2>1, <2>4, Zenon
<1>9. LinesOf(<<>>) = <<<<>>>>
  <2>1. Len(<<>>) = 0
    OBVIOUS
  <2>2. PICK e : e[0] = <<<<>>>> /\ LinesOf(<<>>) = e[Len(<<>>)]
    BY <2>1, LinesUnfold
  <2>3. QED
    BY <2>1, <2>2
<1>10. LinesOf(t) = g[n]
  BY <1>2, <1>7
<1>11. LinesOf(Append(t, c)) = g[n+1]
  BY <1>0, <1>3
<1>12. QED
  BY <1>8, <1>9, <1>10, <1>11, Zenon

(* and what sequences of characters follow one another to.                  *)
Flattens(f, C, ss) ==
  /\ f \in [0..Len(ss) -> Seq(C)]
  /\ f[0] = <<>> /\ FlattenSeq(ss) = f[Len(ss)]
  /\ \A k \in 1..Len(ss) : f[k] = f[k-1] \o ss[k]

LEMMA FlatUnfold ==
  ASSUME NEW C, NEW ss \in Seq(Seq(C))
  PROVE  \E f : Flattens(f, C, ss)
<1> DEFINE flat(f) == f = [k \in 1..Len(ss) |-> IF k = 1 THEN ss[k] ELSE f[k-1] \o ss[k]]
           h == [k \in Nat |-> [s \in Seq(C) |-> IF k \notin 1..Len(ss) THEN s ELSE s \o ss[k]]]
<1>1. Len(ss) \in Nat /\ (\A k \in 1..Len(ss) : ss[k] \in Seq(C)) /\ <<>> \in Seq(C)
  BY LenProperties, EmptySeq
<1>2. Steps(h, Seq(C))
  <2>1. ASSUME NEW k \in Nat, NEW s \in Seq(C)
        PROVE  (IF k \notin 1..Len(ss) THEN s ELSE s \o ss[k]) \in Seq(C)
    BY <1>1, ConcatProperties
  <2>2. QED
    BY <2>1 DEF Steps
<1>3. ASSUME NEW k \in 1..Len(ss), NEW s \in Seq(C)
      PROVE  h[k][s] = s \o ss[k]
  <2>1. k \in Nat
    BY <1>1
  <2>2. h[k][s] = IF k \notin 1..Len(ss) THEN s ELSE s \o ss[k]
    BY <2>1, Zenon
  <2>3. QED
    BY <2>2, Zenon
<1> HIDE DEF h, flat
<1>4. PICK g \in [0..Len(ss) -> Seq(C)] :
             g[0] = <<>> /\ \A k \in 1..Len(ss) : g[k] = h[k][g[k-1]]
  <2>1. \E g : Follow(g, Len(ss), Seq(C), <<>>, h)
    BY <1>1, <1>2, Recursion
  <2>2. QED
    BY <2>1 DEF Follow
<1>5. ASSUME NEW k \in 1..Len(ss)
      PROVE  g[k] = g[k-1] \o ss[k]
  <2>1. k - 1 \in 0..Len(ss)
    BY <1>1
  <2>2. g[k-1] \in Seq(C)
    BY <1>4, <2>1
  <2>3. g[k] = h[k][g[k-1]]
    BY <1>4
  <2>4. QED
    BY <1>3, <2>2, <2>3, Zenon
<1>6. CASE Len(ss) = 0
  <2>1. ss = <<>> /\ FlattenSeq(ss) = ss
    BY <1>6, EmptySeq DEF FlattenSeq
  <2>2. QED
    BY <1>4, <1>5, <1>6, <2>1 DEF Flattens
<1>7. CASE Len(ss) # 0
  <2> DEFINE r == [k \in 1..Len(ss) |-> g[k]]
  <2>1. flat(r)
    <3>1. ASSUME NEW k \in 1..Len(ss)
          PROVE  r[k] = IF k = 1 THEN ss[k] ELSE r[k-1] \o ss[k]
      <4>1. CASE k = 1
        <5>1. g[1] = g[0] \o ss[1]
          <6>1. 1 \in 1..Len(ss) /\ 1 - 1 = 0
            BY <4>1
          <6>2. g[1] = g[1-1] \o ss[1]
            BY <1>5, <6>1
          <6>3. QED
            BY <6>1, <6>2
        <5>2. g[0] \o ss[1] = ss[1]
          BY <1>1, <1>4, <4>1, ConcatEmptySeq
        <5>3. QED
          BY <4>1, <5>1, <5>2
      <4>2. CASE k # 1
        <5>1. k - 1 \in 1..Len(ss)
          BY <1>1, <4>2
        <5>2. r[k] = g[k] /\ r[k-1] = g[k-1] /\ g[k] = g[k-1] \o ss[k]
          BY <1>5, <5>1
        <5>3. QED
          BY <4>2, <5>2, Zenon
      <4>3. QED
        BY <4>1, <4>2
    <3> HIDE DEF r
    <3>2. r = [k \in 1..Len(ss) |-> r[k]]
      BY DEF r
    <3>3. QED
      BY <3>1, <3>2 DEF flat
  <2> HIDE DEF r
  <2>2. PICK f : f = (CHOOSE ff : flat(ff)) /\ flat(f)
    BY <2>1
  <2>3. FlattenSeq(ss) = f[Len(ss)]
    BY <1>7, <2>2 DEF FlattenSeq, flat
  <2>4. \A k \in 1..Len(ss) : f[k] = g[k]
    <3> DEFINE T == {k \in Nat : k + 1 <= Len(ss) => f[k+1] = g[k+1]}
    <3>1. 0 \in T
      <4>1. 1 \in 1..Len(ss)
        BY <1>1, <1>7
      <4>2. f[1] = ss[1]
        BY <2>2, <4>1 DEF flat
      <4>3. g[1] = g[0] \o ss[1]
        <5>1. g[1] = g[1-1] \o ss[1]
          BY <1>5, <4>1
        <5>2. QED
          BY <5>1
      <4>4. g[0] \o ss[1] = ss[1]
        BY <1>1, <1>4, <4>1, ConcatEmptySeq
      <4>5. QED
        BY <4>2, <4>3, <4>4
    <3>2. ASSUME NEW k \in Nat, k \in T
          PROVE  k + 1 \in T
      <4>1. SUFFICES ASSUME k + 1 + 1 <= Len(ss)
                     PROVE  f[k+1+1] = g[k+1+1]
        OBVIOUS
      <4>2. PICK j \in 1..Len(ss) : j = k + 1 + 1 /\ j - 1 = k + 1 /\ j # 1
        BY <1>1, <4>1
      <4>3. f[j-1] = g[j-1]
        BY <1>1, <3>2, <4>1, <4>2
      <4>4. f[j] = IF j = 1 THEN ss[j] ELSE f[j-1] \o ss[j]
        BY <2>2 DEF flat
      <4>5. g[j] = g[j-1] \o ss[j]
        BY <1>5
      <4>6. QED
        BY <4>2, <4>3, <4>4, <4>5, Zenon
    <3> HIDE DEF T
    <3>3. \A k \in Nat : k \in T
      BY <3>1, <3>2, Induction
    <3>4. ASSUME NEW k \in 1..Len(ss)
          PROVE  f[k] = g[k]
      <4>1. PICK j \in Nat : j + 1 = k
        BY <1>1
      <4>2. j \in T
        BY <3>3
      <4>3. j + 1 <= Len(ss)
        BY <1>1, <4>1
      <4>4. QED
        BY <4>1, <4>2, <4>3 DEF T
    <3>5. QED
      BY <3>4
  <2>5. FlattenSeq(ss) = g[Len(ss)]
    BY <1>1, <1>7, <2>3, <2>4
  <2>6. QED
    BY <1>4, <1>5, <2>5 DEF Flattens
<1>8. QED
  BY <1>6, <1>7

LEMMA FlatAppend ==
  ASSUME NEW C, NEW ss \in Seq(Seq(C)), NEW s \in Seq(C)
  PROVE  /\ FlattenSeq(ss) \in Seq(C) /\ FlattenSeq(Append(ss, s)) = FlattenSeq(ss) \o s
<1>0. PICK u \in Seq(Seq(C)) : u = Append(ss, s) /\ OneMore(u, ss, s)
  BY AppendIs
<1>1. PICK n \in Nat : /\ n = Len(ss) /\ Len(u) = n + 1 /\ u[n+1] = s
                       /\ \A k \in 1..n : u[k] = ss[k]
  BY <1>0 DEF OneMore
<1>2. PICK f : /\ f \in [0..n -> Seq(C)]
               /\ f[0] = <<>> /\ FlattenSeq(ss) = f[n]
               /\ \A k \in 1..n : f[k] = f[k-1] \o ss[k]
  <2>1. PICK f : Flattens(f, C, ss)
    BY FlatUnfold
  <2>2. /\ f \in [0..n -> Seq(C)]
        /\ f[0] = <<>> /\ FlattenSeq(ss) = f[n]
        /\ \A k \in 1..n : f[k] = f[k-1] \o ss[k]
    BY <1>1, <2>1 DEF Flattens
  <2>3. QED
    BY <2>2, Zenon
<1>3. PICK g : /\ g \in [0..n+1 -> Seq(C)]
               /\ g[0] = <<>> /\ FlattenSeq(u) = g[n+1]
               /\ \A k \in 1..n+1 : g[k] = g[k-1] \o u[k]
  <2>1. PICK g : Flattens(g, C, u)
    BY FlatUnfold
  <2>2. /\ g \in [0..n+1 -> Seq(C)]
        /\ g[0] = <<>> /\ FlattenSeq(u) = g[n+1]
        /\ \A k \in 1..n+1 : g[k] = g[k-1] \o u[k]
    BY <1>1, <2>1 DEF Flattens
  <2>3. QED
    BY <2>2, Zenon
<1> DEFINE T == {k \in Nat : k <= n => g[k] = f[k]}
<1>4. 0 \in T
  BY <1>2, <1>3
<1>5. ASSUME NEW k \in Nat, k \in T
      PROVE  k + 1 \in T
  <2>1. SUFFICES ASSUME k + 1 <= n
                 PROVE  g[k+1] = f[k+1]
    OBVIOUS
  <2>2. PICK j \in 1..n : j = k + 1 /\ j - 1 = k /\ j \in 1..n+1
    BY <2>1
  <2>3. g[j-1] = f[j-1] /\ u[j] = ss[j]
    BY <1>1, <1>5, <2>2
  <2>4. g[j] = g[j-1] \o u[j] /\ f[j] = f[j-1] \o ss[j]
    BY <1>2, <1>3, <2>2
  <2>5. QED
    BY <2>2, <2>3, <2>4
<1> HIDE DEF T
<1>6. n \in T
  BY <1>4, <1>5, Induction
<1>7. g[n] = f[n]
  BY <1>6 DEF T
<1>8. g[n+1] = g[n] \o s
  <2>1. PICK m \in 1..n+1 : m = n + 1 /\ m - 1 = n
    OBVIOUS
  <2>2. g[m] = g[m-1] \o u[m]
    BY <1>3
  <2>3. QED
    BY <1>1, <2>1, <2>2
<1>9. QED
  BY <1>0, <1>1, <1>2, <1>3, <1>7, <1>8

LEMMA FlatConcat ==
  ASSUME NEW C, NEW a \in Seq(Seq(C)), NEW b \in Seq(Seq(C))
  PROVE  FlattenSeq(a \o b) = FlattenSeq(a) \o FlattenSeq(b)
<1> DEFINE T == {s \in Seq(Seq(C)) : FlattenSeq(a \o s) = FlattenSeq(a) \o FlattenSeq(s)}
<1>1. <<>> \in T
  <2>1. FlattenSeq(<<>>) = <<>> /\ FlattenSeq(a) \in Seq(C)
    BY FlatAppend, EmptySeq DEF FlattenSeq
  <2>2. a \o <<>> = a /\ FlattenSeq(a) \o <<>> = FlattenSeq(a)
    BY <2>1, ConcatEmptySeq
  <2>3. QED
    BY <2>1, <2>2, EmptySeq
<1>2. ASSUME NEW s \in Seq(Seq(C)), NEW x \in Seq(C), s \in T
      PROVE  Append(s, x) \in T
  <2>1. a \o Append(s, x) = Append(a \o s, x) /\ a \o s \in Seq(Seq(C))
    BY ConcatAppend, ConcatProperties
  <2>2. FlattenSeq(a \o Append(s, x)) = FlattenSeq(a \o s) \o x
    BY <2>1, FlatAppend
  <2>3. FlattenSeq(Append(s, x)) = FlattenSeq(s) \o x
    BY FlatAppend
  <2>4. PICK p \in Seq(C), q \in Seq(C) : p = FlattenSeq(a) /\ q = FlattenSeq(s)
    BY FlatAppend
  <2>5. (p \o q) \o x = p \o (q \o x)
    BY ConcatAssociative
  <2>6. FlattenSeq(a \o s) = p \o q
    BY <1>2, <2>4
  <2>7. Append(s, x) \in Seq(Seq(C))
    BY AppendProperties
  <2>8. QED
    BY <2>2, <2>3, <2>4, <2>5, <2>6, <2>7
<1> HIDE DEF T
<1>3. b \in T
  BY <1>1, <1>2, ByLast
<1>4. QED
  BY <1>3 DEF T

LEMMA PlainConcat ==
  ASSUME NEW C, NEW a \in Seq(C), NEW b \in Seq(C)
  PROVE  WithoutLF(a \o b) = WithoutLF(a) \o WithoutLF(b)
<1>1. PICK R : R = C \ {LF}
  OBVIOUS
<1>2. PICK u \in Seq(C) : u = a \o b
  BY ConcatProperties
<1>3. WithoutLF(a) = Kept(a, R) /\ WithoutLF(b) = Kept(b, R) /\ WithoutLF(u) = Kept(u, R)
  BY <1>1, PlainKept
<1>4. Kept(a \o b, R) = Kept(a, R) \o Kept(b, R)
  BY KeptConcat
<1>5. QED
  BY <1>2, <1>3, <1>4

(* All but the last, and the last.                                          *)
LEMMA AppendLast ==
  ASSUME NEW S, NEW p \in Seq(S), NEW x \in S
  PROVE  /\ Append(p, x) \in Seq(S) /\ Append(p, x) # <<>>
         /\ Front(Append(p, x)) = p /\ Last(Append(p, x)) = x
<1>1. PICK u \in Seq(S) : u = Append(p, x) /\ OneMore(u, p, x)
  BY AppendIs
<1>2. PICK n \in Nat : n = Len(p) /\ Len(u) = n + 1 /\ u[n+1] = x /\ \A k \in 1..n : u[k] = p[k]
  BY <1>1 DEF OneMore
<1>3. Front(u) = SubSeq(u, 1, n) /\ Last(u) = x
  BY <1>2 DEF Front, Last
<1>4. \A k \in 1..n : u[k] \in S
  BY <1>2, LenProperties
<1>5. /\ SubSeq(u, 1, n) \in Seq(S)
      /\ Len(SubSeq(u, 1, n)) = IF 1 <= n THEN n - 1 + 1 ELSE 0
      /\ \A k \in 1..n-1+1 : SubSeq(u, 1, n)[k] = u[1+k-1]
  BY <1>4, SubSeqProperties
<1>6. PICK f \in Seq(S) : f = SubSeq(u, 1, n) /\ Len(f) = n /\ \A k \in 1..n : f[k] = p[k]
  BY <1>2, <1>5
<1>7. f = p
  BY <1>2, <1>6, SeqEqual
<1>8. QED
  BY <1>1, <1>3, <1>6, <1>7, AppendProperties

LEMMA FrontLast ==
  ASSUME NEW S, NEW s \in Seq(S), s # <<>>
  PROVE  Front(s) \in Seq(S) /\ Last(s) \in S /\ s = Append(Front(s), Last(s))
<1>1. PICK p \in Seq(S), x \in S : s = Append(p, x)
  BY SequenceEmptyOrAppend
<1>2. Front(s) = p /\ Last(s) = x
  BY <1>1, AppendLast
<1>3. QED
  BY <1>1, <1>2

LEMMA LastExcept ==
  ASSUME NEW S, NEW s \in Seq(S), s # <<>>, NEW m \in S
  PROVE  [s EXCEPT ![Len(s)] = m] = Append(Front(s), m)
<1>1. PICK p \in Seq(S), l \in S : p = Front(s) /\ l = Last(s) /\ s = Append(p, l)
  BY FrontLast
<1>2. OneMore(s, p, l)
  BY <1>1, AppendIs
<1>3. PICK n \in Nat : n = Len(p) /\ Len(s) = n + 1 /\ s[n+1] = l
                       /\ \A k \in 1..n : s[k] = p[k]
  BY <1>2 DEF OneMore
<1>4. PICK u \in Seq(S) : u = Append(p, m) /\ OneMore(u, p, m)
  BY AppendIs
<1>5. Len(u) = n + 1 /\ u[n+1] = m /\ \A k \in 1..n : u[k] = p[k]
  BY <1>3, <1>4 DEF OneMore
<1>6. PICK v \in Seq(S) :
           /\ v = [s EXCEPT ![n+1] = m] /\ Len(v) = n + 1
           /\ \A k \in 1..n+1 : v[k] = IF k = n + 1 THEN m ELSE s[k]
  <2>1. n + 1 \in 1..Len(s)
    BY <1>3
  <2>2. /\ [s EXCEPT ![n+1] = m] \in Seq(S) /\ Len([s EXCEPT ![n+1] = m]) = Len(s)
        /\ \A k \in 1..Len(s) : [s EXCEPT ![n+1] = m][k] = IF k = n + 1 THEN m ELSE s[k]
    BY <2>1, ExceptSeq
  <2>3. QED
    BY <1>3, <2>2
<1>7. u = v
  <2>1. ASSUME NEW k \in 1..Len(u)
        PROVE  u[k] = v[k]
    <3>1. k \in 1..n \/ k = n + 1
      BY <1>5
    <3>2. QED
      BY <1>3, <1>5, <1>6, <3>1
  <2>2. QED
    BY <1>5, <1>6, <2>1, SeqEqual
<1>8. QED
  BY <1>1, <1>3, <1>4, <1>6, <1>7

-----------------------------------------------------------------------------
NoLF(t) == \A k \in 1..Len(t) : t[k] # LF

LEMMA NoLFAppend ==
  ASSUME NEW C, NEW t \in Seq(C), NEW c \in C
  PROVE  NoLF(Append(t, c)) <=> NoLF(t) /\ c # LF
<1>1. PICK u \in Seq(C) : u = Append(t, c) /\ OneMore(u, t, c)
  BY AppendIs
<1>2. PICK n \in Nat : n = Len(t) /\ Len(u) = n + 1 /\ u[n+1] = c /\ \A k \in 1..n : u[k] = t[k]
  BY <1>1 DEF OneMore
<1>3. \A k \in 1..n+1 : k \in 1..n \/ k = n + 1
  OBVIOUS
<1>4. (\A k \in 1..n+1 : u[k] # LF) <=> (\A k \in 1..n : t[k] # LF) /\ c # LF
  BY <1>2, <1>3
<1>5. QED
  BY <1>1, <1>2, <1>4 DEF NoLF

LEMMA PlainSelf ==
  ASSUME NEW C, NEW t \in Seq(C), NoLF(t)
  PROVE  WithoutLF(t) = t
<1> DEFINE T == {s \in Seq(C) : NoLF(s) => WithoutLF(s) = s}
<1>1. <<>> \in T
  BY PlainIs, EmptySeq
<1>2. ASSUME NEW s \in Seq(C), NEW c \in C, s \in T
      PROVE  Append(s, c) \in T
  <2>1. SUFFICES ASSUME NoLF(Append(s, c))
                 PROVE  WithoutLF(Append(s, c)) = Append(s, c)
    BY AppendProperties
  <2>2. NoLF(s) /\ c # LF
    BY <2>1, NoLFAppend
  <2>3. WithoutLF(s) = s
    BY <1>2, <2>2
  <2>4. QED
    BY <2>2, <2>3, PlainAppend
<1> HIDE DEF T
<1>3. t \in T
  BY <1>1, <1>2, ByLast
<1>4. QED
  BY <1>3 DEF T

-----------------------------------------------------------------------------
(* The lines of a text hold its characters but LF, in their order.          *)
LinesRight(ls, C, t) ==
  ls \in Seq(Seq(C)) /\ ls # <<>> /\ NoLF(Last(ls)) /\ FlattenSeq(ls) = WithoutLF(t)

LEMMA LinesGrow ==
  ASSUME NEW C, NEW t \in Seq(C), NEW c \in C, LinesOf(t) \in Seq(Seq(C)), LinesOf(t) # <<>>
  PROVE  LinesOf(Append(t, c)) =
           IF c = LF THEN Append(LinesOf(t), <<>>)
           ELSE Append(Front(LinesOf(t)), Append(Last(LinesOf(t)), c))
<1>1. PICK ls \in Seq(Seq(C)) : ls = LinesOf(t) /\ ls # <<>>
  OBVIOUS
<1>2. LinesOf(Append(t, c)) = IF c = LF THEN Append(ls, <<>>)
                              ELSE [ls EXCEPT ![Len(ls)] = Append(@, c)]
  BY <1>1, LinesAppend
<1>3. PICK Str : Str = Seq(C)
  OBVIOUS
<1>4. ls \in Seq(Str)
  BY <1>3
<1>5. Last(ls) \in Str
  BY <1>1, <1>4, FrontLast
<1>6. PICK m \in Str : m = Append(Last(ls), c)
  BY <1>3, <1>5, AppendProperties
<1>7. [ls EXCEPT ![Len(ls)] = m] = Append(Front(ls), m)
  BY <1>1, <1>4, LastExcept
<1>8. ls[Len(ls)] = Last(ls)
  BY DEF Last
<1>9. [ls EXCEPT ![Len(ls)] = Append(@, c)] = [ls EXCEPT ![Len(ls)] = m]
  BY <1>6, <1>8
<1>10. QED
  BY <1>1, <1>2, <1>6, <1>7, <1>9

LEMMA LinesNone ==
  LinesOf(<<>>) = <<<<>>>>
<1>1. Len(<<>>) = 0
  OBVIOUS
<1>2. PICK e : e[0] = <<<<>>>> /\ LinesOf(<<>>) = e[Len(<<>>)]
  BY <1>1, LinesUnfold
<1>3. QED
  BY <1>1, <1>2

LEMMA LinesAre ==
  ASSUME NEW C, NEW t \in Seq(C)
  PROVE  LinesRight(LinesOf(t), C, t)
<1> DEFINE T == {s \in Seq(C) : LinesRight(LinesOf(s), C, s)}
<1>0. PICK Str : Str = Seq(C)
  OBVIOUS
<1>1. <<>> \in T
  <2>1. PICK s \in Str, ss \in Seq(Str) : s = <<>> /\ ss = <<>> /\ Len(s) = 0
    BY <1>0, EmptySeq
  <2>2. PICK u \in Seq(Str) : u = Append(ss, s) /\ u # <<>> /\ Last(u) = s
    BY AppendLast
  <2>3. u = <<<<>>>>
    BY <2>1, <2>2
  <2>4. FlattenSeq(u) = <<>>
    <3>1. FlattenSeq(u) = FlattenSeq(ss) \o s
      BY <1>0, <2>2, FlatAppend
    <3>2. FlattenSeq(ss) = <<>>
      BY <2>1 DEF FlattenSeq
    <3>3. s \o s = s
      BY <1>0, ConcatEmptySeq, <2>1
    <3>4. QED
      BY <2>1, <3>1, <3>2, <3>3
  <2>5. NoLF(s)
    BY <2>1 DEF NoLF
  <2>6. LinesRight(u, C, <<>>)
    BY <1>0, <2>1, <2>2, <2>4, <2>5, PlainIs DEF LinesRight
  <2>7. QED
    BY <1>0, <2>1, <2>3, <2>6, LinesNone
<1>2. ASSUME NEW s \in Seq(C), NEW c \in C, s \in T
      PROVE  Append(s, c) \in T
  <2>1. PICK ls \in Seq(Str) : ls = LinesOf(s) /\ ls # <<>> /\ NoLF(Last(ls))
                             /\ FlattenSeq(ls) = WithoutLF(s)
    BY <1>0, <1>2 DEF LinesRight
  <2>2. PICK p \in Seq(Str), l \in Str : p = Front(ls) /\ l = Last(ls) /\ ls = Append(p, l)
    BY <2>1, FrontLast
  <2>3. LinesOf(Append(s, c)) = IF c = LF THEN Append(ls, <<>>) ELSE Append(p, Append(l, c))
    BY <1>0, <2>1, <2>2, LinesGrow
  <2>4. PICK w \in Str : w = WithoutLF(s)
    BY <1>0, PlainIs
  <2>5. CASE c = LF
    <3>1. PICK e \in Str : e = <<>> /\ Len(e) = 0
      BY <1>0, EmptySeq
    <3>2. PICK m \in Seq(Str) : m = Append(ls, e) /\ m # <<>> /\ Last(m) = e
      BY AppendLast
    <3>3. FlattenSeq(m) = w \o e
      BY <1>0, <2>1, <2>4, <3>2, FlatAppend
    <3>4. w \o e = w /\ WithoutLF(Append(s, c)) = w
      BY <1>0, <2>4, <2>5, <3>1, ConcatEmptySeq, PlainAppend
    <3>5. NoLF(e)
      BY <3>1 DEF NoLF
    <3>6. LinesRight(m, C, Append(s, c))
      BY <1>0, <3>2, <3>3, <3>4, <3>5 DEF LinesRight
    <3>7. QED
      BY <2>3, <2>5, <3>1, <3>2, <3>6, AppendProperties
  <2>6. CASE c # LF
    <3>1. PICK e \in Str : e = Append(l, c)
      BY <1>0, AppendProperties
    <3>2. PICK m \in Seq(Str) : m = Append(p, e) /\ m # <<>> /\ Last(m) = e
      BY AppendLast
    <3>3. PICK q \in Str : q = FlattenSeq(p)
      BY <1>0, FlatAppend
    <3>4. FlattenSeq(ls) = q \o l /\ FlattenSeq(m) = q \o e
      BY <1>0, <2>2, <3>2, <3>3, FlatAppend
    <3>5. q \o e = Append(q \o l, c)
      BY <1>0, <3>1, ConcatAppend
    <3>6. WithoutLF(Append(s, c)) = Append(w, c)
      BY <1>0, <2>4, <2>6, PlainAppend
    <3>7. NoLF(e)
      BY <1>0, <2>1, <2>2, <2>6, <3>1, NoLFAppend
    <3>8. LinesRight(m, C, Append(s, c))
      BY <1>0, <2>1, <2>4, <3>2, <3>4, <3>5, <3>6, <3>7 DEF LinesRight
    <3>9. QED
      BY <2>3, <2>6, <3>1, <3>2, <3>8, AppendProperties
  <2>7. QED
    BY <2>5, <2>6
<1> HIDE DEF T
<1>3. t \in T
  BY <1>1, <1>2, ByLast
<1>4. QED
  BY <1>3 DEF T

(* What is found of a text, and what is left to be searched of it.          *)
Splits(r, C, p) ==
  /\ r.found \in Seq(Seq(C)) /\ r.left \in Seq(C) /\ NoLF(r.left)
  /\ FlattenSeq(r.found) \o r.left = WithoutLF(p)

LEMMA LinesSplit ==
  ASSUME NEW C, NEW p \in Seq(C), NEW d, NEW n, NEW more, SubSeq(d, 1, n) = p
  PROVE  Splits(Lines(d, n, more), C, p) /\ (~ more => Lines(d, n, more).left = <<>>)
<1>1. PICK Str : Str = Seq(C)
  OBVIOUS
<1>2. PICK ls \in Seq(Str) : /\ ls = LinesOf(p) /\ ls # <<>> /\ NoLF(Last(ls))
                           /\ FlattenSeq(ls) = WithoutLF(p)
  BY <1>1, LinesAre DEF LinesRight
<1>3. PICK f \in Seq(Str), l \in Str : f = Front(ls) /\ l = Last(ls) /\ ls = Append(f, l)
  BY <1>2, FrontLast
<1>4. FlattenSeq(f) \o l = WithoutLF(p)
  BY <1>1, <1>2, <1>3, FlatAppend
<1>5. PICK e \in Str : e = <<>> /\ Len(e) = 0
  BY <1>1, EmptySeq
<1>6. FlattenSeq(ls) \o e = WithoutLF(p) /\ NoLF(e)
  BY <1>1, <1>2, <1>5, FlatAppend, ConcatEmptySeq, PlainIs DEF NoLF
<1>7. CASE Len(ls) > 1 /\ (l = <<>> \/ (more /\ d[n + 1] # LF))
  <2>1. Lines(d, n, more) = [found |-> f, left |-> l]
    BY <1>2, <1>3, <1>7 DEF Lines
  <2>2. ~ more => l = <<>>
    BY <1>7
  <2>3. Lines(d, n, more).found = f /\ Lines(d, n, more).left = l
    BY <2>1
  <2>4. QED
    BY <1>1, <1>2, <1>3, <1>4, <2>2, <2>3 DEF Splits
<1>8. CASE ~ (Len(ls) > 1 /\ (l = <<>> \/ (more /\ d[n + 1] # LF)))
  <2>1. Lines(d, n, more) = [found |-> ls, left |-> e]
    BY <1>2, <1>3, <1>5, <1>8 DEF Lines
  <2>2. Lines(d, n, more).found = ls /\ Lines(d, n, more).left = e
    BY <2>1
  <2>3. QED
    BY <1>1, <1>5, <1>6, <2>2 DEF Splits
<1>9. QED
  BY <1>7, <1>8

(* The beginning of a sequence that is put together.                        *)
LEMMA FirstOf ==
  ASSUME NEW U, NEW s \in Seq(U), NEW t \in Seq(U)
  PROVE  SubSeq(s \o t, 1, Len(s)) = s
<1>1. CASE s = <<>>
  BY <1>1, EmptySeq, SubSeqEmpty
<1>2. CASE s # <<>>
  <2>1. 1 \in 1..Len(s) /\ Len(s) \in 1..Len(s)
    BY <1>2, EmptySeq
  <2>2. SubSeq(s \o t, 1, Len(s)) = SubSeq(s, 1, Len(s))
    BY <2>1, SubSeqOfConcat1
  <2>3. QED
    BY <2>2, SubSeqFull
<1>3. QED
  BY <1>1, <1>2

Regroups(p, q, u) == (p \o q) \o u = p \o (q \o u)

LEMMA Associative ==
  ASSUME NEW S, NEW p \in Seq(S), NEW q \in Seq(S), NEW u \in Seq(S)
  PROVE  Regroups(p, q, u)
BY ConcatAssociative DEF Regroups

Begins(a, x, y, r) == SubSeq((a \o x) \o y, 1, Len(a) + r) = a \o SubSeq(x, 1, r)

LEMMA Beginning ==
  ASSUME NEW U, NEW a \in Seq(U), NEW x \in Seq(U), NEW y \in Seq(U), NEW r \in 0..Len(x)
  PROVE  Begins(a, x, y, r)
<1>1. Len(x) \in Nat /\ r \in Nat /\ r <= Len(x)
  BY LenProperties
<1>2. PICK p \in Seq(U) : p = SubSeq(x, 1, r) /\ Len(p) = r
  <2>1. \A b \in 1..r : x[b] \in U
    BY <1>1, LenProperties
  <2>2. SubSeq(x, 1, r) \in Seq(U) /\ Len(SubSeq(x, 1, r)) = IF 1 <= r THEN r - 1 + 1 ELSE 0
    BY <1>1, <2>1, SubSeqProperties
  <2>3. Len(SubSeq(x, 1, r)) = r
    BY <1>1, <2>2
  <2>4. QED
    BY <2>2, <2>3
<1>3. PICK q \in Seq(U) : q = SubSeq(x, r + 1, Len(x))
  <2>1. PICK m \in Int, n \in Int : m = r + 1 /\ n = Len(x)
    BY <1>1
  <2>2. \A b \in m..n : x[b] \in U
    BY <1>1, <2>1, LenProperties
  <2>3. SubSeq(x, m, n) \in Seq(U)
    BY <2>2, SubSeqProperties
  <2>4. QED
    BY <2>1, <2>3
<1>4. x = p \o q
  <2>1. 1 \in 1..Len(x)+1 /\ r \in 1-1..Len(x) /\ Len(x) \in r..Len(x)
    BY <1>1
  <2>2. SubSeq(x, 1, r) \o SubSeq(x, r + 1, Len(x)) = SubSeq(x, 1, Len(x))
    BY <2>1, ConcatAdjacentSubSeq
  <2>3. QED
    BY <1>2, <1>3, <2>2, SubSeqFull
<1>5. (a \o (p \o q)) \o y = (a \o p) \o (q \o y)
  <2>1. PICK ap \in Seq(U) : ap = a \o p
    BY ConcatProperties
  <2>2. Regroups(a, p, q) /\ Regroups(ap, q, y)
    BY Associative
  <2>3. ap \o q = a \o (p \o q) /\ (ap \o q) \o y = ap \o (q \o y)
    BY <2>1, <2>2 DEF Regroups
  <2>4. QED
    BY <2>1, <2>3
<1>6. PICK ap \in Seq(U) : ap = a \o p /\ Len(ap) = Len(a) + r
  <2>1. a \o p \in Seq(U) /\ Len(a \o p) = Len(a) + Len(p)
    BY ConcatProperties
  <2>2. QED
    BY <1>2, <2>1
<1>7. PICK qy \in Seq(U) : qy = q \o y
  BY ConcatProperties
<1>8. SubSeq(ap \o qy, 1, Len(ap)) = ap
  BY FirstOf
<1>9. QED
  BY <1>2, <1>4, <1>5, <1>6, <1>7, <1>8 DEF Begins

(* What has been read of a text and what is read now are the text up to     *)
(* there, without its LFs.                                                  *)
LEMMA ReadOnPlain ==
  ASSUME NEW C, NEW t \in Seq(C), NEW k \in Nat, NEW r \in Nat, k + r <= Len(t)
  PROVE  /\ SubSeq(t, 1, k) \in Seq(C) /\ SubSeq(t, k + 1, k + r) \in Seq(C)
         /\ WithoutLF(SubSeq(t, 1, k + r))
              = WithoutLF(SubSeq(t, 1, k)) \o WithoutLF(SubSeq(t, k + 1, k + r))
<1>1. SubSeq(t, 1, k) \in Seq(C) /\ SubSeq(t, k + 1, k + r) \in Seq(C)
  <2>1. /\ \A b \in 1..k : t[b] \in C
        /\ \A b \in k+1..k+r : t[b] \in C
    BY LenProperties
  <2>2. QED
    BY <2>1, SubSeqProperties
<1>2. SubSeq(t, 1, k) \o SubSeq(t, k + 1, k + r) = SubSeq(t, 1, k + r)
  <2>1. 1 \in 1..Len(t)+1 /\ k \in 1-1..Len(t) /\ k + r \in k..Len(t)
    BY LenProperties
  <2>2. QED
    BY <2>1, ConcatAdjacentSubSeq
<1>3. QED
  BY <1>1, <1>2, PlainConcat

-----------------------------------------------------------------------------
(* What grep has searched and what it carries over are what it has read of  *)
(* the text t.                                                              *)
Carries(sn, left, C, t, k) ==
  /\ sn \in Seq(Seq(C)) /\ left \in Seq(C) /\ NoLF(left)
  /\ FlattenSeq(sn) \o left = WithoutLF(SubSeq(t, 1, k))

LEMMA CarriesOn ==
  ASSUME NEW C, NEW t \in Seq(C), NEW k \in Nat, NEW r \in Nat, k + r <= Len(t),
         NEW sn, NEW left, Carries(sn, left, C, t, k),
         NEW s, Splits(s, C, left \o SubSeq(t, k + 1, k + r))
  PROVE  Carries(sn \o s.found, s.left, C, t, k + r)
<1>1. PICK Str : Str = Seq(C)
  OBVIOUS
<1>2. PICK a \in Seq(Str), l \in Str : /\ a = sn /\ l = left /\ NoLF(l)
                                   /\ FlattenSeq(a) \o l = WithoutLF(SubSeq(t, 1, k))
  BY <1>1 DEF Carries
<1>3. PICK n \in Str : n = SubSeq(t, k + 1, k + r)
  BY <1>1, ReadOnPlain
<1>4. WithoutLF(SubSeq(t, 1, k + r)) = WithoutLF(SubSeq(t, 1, k)) \o WithoutLF(n)
  BY <1>3, ReadOnPlain
<1>5. PICK b \in Seq(Str), m \in Str : /\ b = s.found /\ m = s.left /\ NoLF(m)
                                   /\ FlattenSeq(b) \o m = WithoutLF(l \o n)
  BY <1>1, <1>2, <1>3 DEF Splits
<1>6. PICK x \in Str, y \in Str, w \in Str : x = FlattenSeq(a) /\ y = FlattenSeq(b) /\ w = WithoutLF(n)
  BY <1>1, FlatAppend, PlainIs
<1>7. WithoutLF(l \o n) = l \o w
  <2>1. WithoutLF(l) = l
    BY <1>1, <1>2, PlainSelf
  <2>2. WithoutLF(l \o n) = WithoutLF(l) \o WithoutLF(n)
    BY <1>1, PlainConcat
  <2>3. QED
    BY <1>6, <2>1, <2>2
<1>8. FlattenSeq(a \o b) = x \o y
  BY <1>1, <1>6, FlatConcat
<1>9. PICK x1 \in Seq(C), y1 \in Seq(C), m1 \in Seq(C), l1 \in Seq(C), w1 \in Seq(C) :
             x1 = x /\ y1 = y /\ m1 = m /\ l1 = l /\ w1 = w
  BY <1>1
<1>10. y1 \o m1 = l1 \o w1
  BY <1>5, <1>6, <1>7, <1>9
<1>11. FlattenSeq(a \o b) \o m = WithoutLF(SubSeq(t, 1, k + r))
  <2>1. (x1 \o y1) \o m1 = (x1 \o l1) \o w1
    <3>1. Regroups(x1, y1, m1) /\ Regroups(x1, l1, w1)
      BY Associative
    <3>2. QED
      BY <1>10, <3>1 DEF Regroups
  <2>2. /\ FlattenSeq(a \o b) \o m = (x1 \o y1) \o m1
        /\ WithoutLF(SubSeq(t, 1, k + r)) = (x1 \o l1) \o w1
    BY <1>2, <1>4, <1>6, <1>8, <1>9
  <2>3. QED
    BY <2>1, <2>2
<1>12. a \o b \in Seq(Str)
  BY ConcatProperties
<1>13. QED
  BY <1>1, <1>2, <1>5, <1>11, <1>12 DEF Carries

LEMMA Cutting ==
  ASSUME NEW U, NEW s \in Seq(U), NEW m \in Nat, NEW r \in Nat, m + r <= Len(s)
  PROVE  /\ SubSeq(s, m + 1, m + r) \in Seq(U) /\ Len(SubSeq(s, m + 1, m + r)) = r
         /\ \A b \in 1..r : SubSeq(s, m + 1, m + r)[b] = s[m + b]
<1>1. PICK i1 \in Int, i2 \in Int : i1 = m + 1 /\ i2 = m + r
  OBVIOUS
<1>2. \A b \in i1..i2 : s[b] \in U
  BY <1>1, LenProperties
<1>3. /\ SubSeq(s, i1, i2) \in Seq(U)
      /\ Len(SubSeq(s, i1, i2)) = IF i1 <= i2 THEN i2 - i1 + 1 ELSE 0
      /\ \A b \in 1..i2-i1+1 : SubSeq(s, i1, i2)[b] = s[i1+b-1]
  BY <1>2, SubSeqProperties
<1>4. PICK p : p = SubSeq(s, i1, i2)
  OBVIOUS
<1>5. Len(p) = r
  BY <1>1, <1>3, <1>4
<1>6. ASSUME NEW b \in 1..r
      PROVE  p[b] = s[m + b]
  <2>1. b \in 1..i2-i1+1 /\ i1 + b - 1 = m + b
    BY <1>1
  <2>2. p[b] = s[i1+b-1]
    BY <1>3, <1>4, <2>1
  <2>3. QED
    BY <2>1, <2>2
<1>7. QED
  BY <1>1, <1>3, <1>4, <1>5, <1>6

(* What is searched of a buffer: what was left in it, and what is read on.  *)
Buffered(a, x, y, t, k, r) ==
  SubSeq((a \o x) \o y, 1, Len(a) + r) = a \o SubSeq(t, k + 1, k + r)

LEMMA InBuffer ==
  ASSUME NEW U, NEW t \in Seq(U), NEW k \in Nat, NEW r \in Nat, k + r <= Len(t),
         NEW left \in Seq(U), NEW x \in Seq(U), NEW y \in Seq(U), r <= Len(x),
         \A b \in 1..r : x[b] = t[k + b]
  PROVE  Buffered(left, x, y, t, k, r)
<1>1. r \in 0..Len(x)
  BY LenProperties
<1>2. SubSeq((left \o x) \o y, 1, Len(left) + r) = left \o SubSeq(x, 1, r)
  <2>1. Begins(left, x, y, r)
    BY <1>1, Beginning
  <2>2. QED
    BY <2>1 DEF Begins
<1>3. PICK p \in Seq(U) : p = SubSeq(x, 0 + 1, 0 + r) /\ Len(p) = r /\ \A b \in 1..r : p[b] = x[0 + b]
  <2>1. 0 \in Nat /\ 0 + r <= Len(x)
    OBVIOUS
  <2>2. /\ SubSeq(x, 0 + 1, 0 + r) \in Seq(U) /\ Len(SubSeq(x, 0 + 1, 0 + r)) = r
        /\ \A b \in 1..r : SubSeq(x, 0 + 1, 0 + r)[b] = x[0 + b]
    BY <2>1, Cutting
  <2>3. QED
    BY <2>2, Zenon
<1>4. PICK q \in Seq(U) : q = SubSeq(t, k + 1, k + r) /\ Len(q) = r /\ \A b \in 1..r : q[b] = t[k + b]
  <2>1. /\ SubSeq(t, k + 1, k + r) \in Seq(U) /\ Len(SubSeq(t, k + 1, k + r)) = r
        /\ \A b \in 1..r : SubSeq(t, k + 1, k + r)[b] = t[k + b]
    BY Cutting
  <2>2. QED
    BY <2>1, Zenon
<1>5. \A b \in 1..r : p[b] = q[b]
  BY <1>3, <1>4
<1>6. p = q
  BY <1>3, <1>4, <1>5, SeqEqual
<1>7. SubSeq(x, 1, r) = p
  BY <1>3
<1>8. QED
  BY <1>2, <1>4, <1>6, <1>7 DEF Buffered

(* A part of any sequence is a sequence over what is in it.                 *)
Part(p, s, m, n) == /\ p \in Seq({s[b] : b \in m..n})
                    /\ Len(p) = IF m <= n THEN n - m + 1 ELSE 0

LEMMA PartOf ==
  ASSUME NEW s, NEW m \in Int, NEW n \in Int
  PROVE  Part(SubSeq(s, m, n), s, m, n)
<1>1. PICK S : S = {s[b] : b \in m..n}
  OBVIOUS
<1>2. \A b \in m..n : s[b] \in S
  BY <1>1
<1>3. /\ SubSeq(s, m, n) \in Seq(S)
      /\ Len(SubSeq(s, m, n)) = IF m <= n THEN n - m + 1 ELSE 0
  BY <1>2, SubSeqProperties
<1>4. QED
  BY <1>1, <1>3 DEF Part

LEMMA Tabled ==
  ASSUME NEW S, NEW n \in Nat, NEW f \in [1..n -> S]
  PROVE  f \in Seq(S) /\ Len(f) = n
OBVIOUS

(* Two sequences in a row.                                                  *)
Joins(c, a, b) ==
  /\ Len(a) \in Nat /\ Len(b) \in Nat /\ Len(c) = Len(a) + Len(b)
  /\ \A k \in 1..Len(c) : c[k] = IF k <= Len(a) THEN a[k] ELSE b[k - Len(a)]

LEMMA ConcatIs ==
  ASSUME NEW S, NEW a \in Seq(S), NEW b \in Seq(S)
  PROVE  a \o b \in Seq(S) /\ Joins(a \o b, a, b)
<1>1. /\ a \o b \in Seq(S) /\ Len(a \o b) = Len(a) + Len(b)
      /\ \A k \in 1..Len(a)+Len(b) : (a \o b)[k] = IF k <= Len(a) THEN a[k] ELSE b[k - Len(a)]
  BY ConcatProperties
<1>2. Len(a) \in Nat /\ Len(b) \in Nat
  BY LenProperties
<1>3. PICK c : c = a \o b
  OBVIOUS
<1>4. Joins(c, a, b)
  BY <1>1, <1>2, <1>3 DEF Joins
<1>5. QED
  BY <1>1, <1>3, <1>4

(* grep's buffer: behind it is what the stack held, or a NUL.               *)
Full(d, stack) == /\ d \in Seq(Range(d)) /\ Len(d) = BUFSIZE + 1
                  /\ d[BUFSIZE + 1] \in {stack, NUL}

LEMMA OwnRange ==
  ASSUME NEW S, NEW s \in Seq(S)
  PROVE  s \in Seq(Range(s))
<1>1. PICK n \in Nat : n = Len(s) /\ DOMAIN s = 1..n /\ s \in [1..n -> S]
  BY LenProperties
<1>2. s \in [1..n -> Range(s)]
  BY <1>1 DEF Range
<1>3. QED
  BY <1>1, <1>2, Tabled

Ends(w, a, b, c) ==
  /\ Len(w) = Len(a) + Len(b) + Len(c)
  /\ Len(c) > 0 => w[Len(w)] = c[Len(c)]
  /\ Len(c) = 0 /\ Len(b) > 0 => w[Len(w)] = b[Len(b)]

LEMMA ThreeParts ==
  ASSUME NEW U, NEW a \in Seq(U), NEW b \in Seq(U), NEW c \in Seq(U)
  PROVE  (a \o b) \o c \in Seq(U) /\ Ends((a \o b) \o c, a, b, c)
<1>1. PICK k \in Nat, m \in Nat, n \in Nat : k = Len(a) /\ m = Len(b) /\ n = Len(c)
  BY LenProperties
<1>2. PICK p \in Seq(U) : p = a \o b /\ Joins(p, a, b)
  BY ConcatIs
<1>3. PICK q \in Seq(U) : q = p \o c /\ Joins(q, p, c)
  BY ConcatIs
<1>a. /\ Len(p) = k + m
      /\ \A j \in 1..k+m : p[j] = IF j <= k THEN a[j] ELSE b[j - k]
  BY <1>1, <1>2 DEF Joins
<1>b. /\ Len(q) = k + m + n
      /\ \A j \in 1..k+m+n : q[j] = IF j <= k + m THEN p[j] ELSE c[j - (k + m)]
  BY <1>1, <1>3, <1>a DEF Joins
<1>4. ASSUME n > 0
      PROVE  q[k + m + n] = c[n]
  <2>1. PICK j \in 1..k+m+n : j = k + m + n /\ ~ (j <= k + m) /\ j - (k + m) = n
    BY <1>4
  <2>2. QED
    BY <1>b, <2>1
<1>5. ASSUME n = 0, m > 0
      PROVE  q[k + m + n] = b[m]
  <2>1. PICK j \in 1..k+m : j = k + m /\ j \in 1..k+m+n /\ j = k + m + n /\ ~ (j <= k) /\ j - k = m
    BY <1>5
  <2>2. q[j] = p[j] /\ p[j] = b[m]
    BY <1>a, <1>b, <2>1
  <2>3. QED
    BY <2>1, <2>2
<1>6. Ends(q, a, b, c)
  BY <1>1, <1>4, <1>5, <1>b DEF Ends
<1>7. QED
  BY <1>2, <1>3, <1>6

(* do_one_file: with what it reads on, ret characters of a text t from k.  d *)
(* is the buffer with them, and r what is found in it.                      *)
Looks(d, r, C, t, k, ret) ==
  /\ r = Lines(d, last + ret, ret # 0)
  /\ SubSeq(d, 1, last + ret) = SubSeq(data, 1, last) \o SubSeq(t, k + 1, k + ret)
  /\ Splits(r, C, SubSeq(data, 1, last) \o SubSeq(t, k + 1, k + ret))
  /\ ret = 0 => r.left = <<>>
  /\ last' = Len(r.left) /\ SubSeq(data', 1, last') = r.left
  /\ seen' = seen \o r.found /\ out' = out \o Named(name, Hits(r.found))
  /\ data' = IF r.left = <<>> THEN Ended(d, last + ret)
             ELSE r.left \o <<NUL>>
                    \o SubSeq(Ended(d, last + ret), Len(r.left) + 2, BUFSIZE + 1)
  /\ at' = IF ret = 0 THEN "close" ELSE "read"

(* What it does not reach of the buffer stays.                              *)
Kin(d) == /\ d \in Seq(Range(d)) /\ Len(d) = BUFSIZE + 1
          /\ d[BUFSIZE + 1] = data[BUFSIZE + 1]

LEMMA SearchIs ==
  ASSUME NEW C, NEW t \in Seq(C), NEW k \in Nat, NEW ret \in Nat, k + ret <= Len(t),
         last \in Nat, NEW read, Len(read) \in Nat, ret <= Len(read),
         \A b \in 1..ret : Char(read[b]) = t[k + b],
         SubSeq(data, 1, last) \in Seq(C), Searched(read, ret)
  PROVE  \E d, r : /\ Looks(d, r, C, t, k, ret)
                   /\ Full(data, junk) /\ last + Len(read) <= BUFSIZE => Kin(d)
<1>1. PICK z : z = SubSeq(data, 1, last)
  OBVIOUS
<1>2. z \in Seq(C) /\ Len(z) = last
  <2>1. 1 \in Int /\ last \in Int
    OBVIOUS
  <2>2. Len(z) = IF 1 <= last THEN last - 1 + 1 ELSE 0
    BY <1>1, <2>1, PartOf DEF Part
  <2>3. Len(z) = last
    BY <2>2
  <2>4. z \in Seq(C)
    BY <1>1
  <2>5. QED
    BY <2>3, <2>4
<1>3. PICK N \in Nat : N = Len(read)
  OBVIOUS
<1>4. PICK x : x = [b \in 1..N |-> Char(read[b])]
  OBVIOUS
<1>5. PICK m \in Int, n \in Int : m = last + N + 1 /\ n = BUFSIZE + 1
  BY Settings
<1>6. PICK y : y = SubSeq(data, m, n)
  OBVIOUS
<1>7. PICK U : /\ C \subseteq U /\ \A b \in 1..N : Char(read[b]) \in U
               /\ {data[b] : b \in m..n} \subseteq U
  <2> DEFINE V == C \cup {Char(read[b]) : b \in 1..N} \cup {data[b] : b \in m..n}
  <2>1. /\ C \subseteq V /\ \A b \in 1..N : Char(read[b]) \in V
        /\ {data[b] : b \in m..n} \subseteq V
    OBVIOUS
  <2> HIDE DEF V
  <2>2. QED
    BY <2>1
<1>8. x \in Seq(U) /\ Len(x) = N /\ \A b \in 1..N : x[b] = Char(read[b])
  <2>1. \A b \in 1..N : x[b] = Char(read[b])
    BY <1>4
  <2>2. x \in [1..N -> U]
    BY <1>4, <1>7
  <2>3. x \in Seq(U) /\ Len(x) = N
    BY <2>2, Tabled
  <2>4. QED
    BY <2>1, <2>3
<1>9. y \in Seq(U)
  <2>1. y \in Seq({data[b] : b \in m..n})
    BY <1>6, PartOf DEF Part
  <2>2. PICK W : W = {data[b] : b \in m..n} /\ W \subseteq U
    BY <1>7
  <2>3. y \in Seq(W)
    BY <2>1, <2>2
  <2>4. QED
    BY <2>2, <2>3
<1>10. z \in Seq(U) /\ t \in Seq(U)
  BY <1>2, <1>7
<1>11. PICK d, r :
           /\ d = (z \o x) \o y /\ r = Lines(d, last + ret, ret # 0)
           /\ last' = Len(r.left) /\ seen' = seen \o r.found
           /\ out' = out \o Named(name, Hits(r.found))
           /\ data' = IF r.left = <<>> THEN Ended(d, last + ret)
                      ELSE r.left \o <<NUL>>
                             \o SubSeq(Ended(d, last + ret), Len(r.left) + 2, BUFSIZE + 1)
           /\ at' = IF ret = 0 THEN "close" ELSE "read"
  <2>1. [b \in 1..Len(read) |-> Char(read[b])] = x
    BY <1>3, <1>4
  <2>2. SubSeq(data, last + Len(read) + 1, BUFSIZE + 1) = y
    BY <1>3, <1>5, <1>6
  <2>3. QED
    BY <1>1, <2>1, <2>2 DEF Searched
<1>12. PICK p : p = z \o SubSeq(t, k + 1, k + ret) /\ p \in Seq(C)
  <2>1. SubSeq(t, k + 1, k + ret) \in Seq(C)
    BY ReadOnPlain
  <2>2. QED
    BY <1>2, <2>1, ConcatProperties
<1>13. SubSeq(d, 1, last + ret) = p
  <2>1. ret <= Len(x) /\ \A b \in 1..ret : x[b] = t[k + b]
    BY <1>3, <1>8
  <2>2. Buffered(z, x, y, t, k, ret)
    BY <1>8, <1>9, <1>10, <2>1, InBuffer
  <2>3. QED
    BY <1>2, <1>11, <1>12, <2>2 DEF Buffered
<1>14. Splits(r, C, p) /\ (ret = 0 => r.left = <<>>)
  BY <1>11, <1>12, <1>13, LinesSplit
<1>15. PICK q \in Seq(C) : q = r.left
  BY <1>14 DEF Splits
<1>16. SubSeq(data', 1, Len(q)) = q
  <2>1. CASE q = <<>>
    <3>1. Len(q) = 0
      BY <2>1
    <3>2. PICK e : e = SubSeq(data', 1, 0)
      OBVIOUS
    <3>3. Len(e) = 0 /\ e \in Seq({data'[b] : b \in 1..0})
      BY <3>2, PartOf DEF Part
    <3>4. e = <<>>
      BY <3>3, EmptySeq
    <3>5. QED
      BY <2>1, <3>1, <3>2, <3>4
  <2>2. CASE q # <<>>
    <3>1. PICK w : w = SubSeq(Ended(d, last + ret), Len(q) + 2, BUFSIZE + 1)
      OBVIOUS
    <3>2. data' = (q \o <<NUL>>) \o w
      BY <1>11, <1>15, <2>2, <3>1
    <3>3. PICK W : w \in Seq(W)
      <4>1. PICK i1 \in Int, i2 \in Int : i1 = Len(q) + 2 /\ i2 = BUFSIZE + 1
        BY Settings, LenProperties
      <4>2. PICK e : e = Ended(d, last + ret)
        OBVIOUS
      <4>3. Part(SubSeq(e, i1, i2), e, i1, i2)
        BY PartOf
      <4>4. w \in Seq({e[b] : b \in i1..i2})
        BY <3>1, <4>1, <4>2, <4>3 DEF Part
      <4>5. QED
        BY <4>4
    <3>4. PICK V : q \in Seq(V) /\ <<NUL>> \in Seq(V) /\ w \in Seq(V)
      <4>1. C \subseteq C \cup {NUL} \cup W /\ W \subseteq C \cup {NUL} \cup W
            /\ NUL \in C \cup {NUL} \cup W
        OBVIOUS
      <4>2. PICK V : C \subseteq V /\ W \subseteq V /\ NUL \in V
        BY <4>1
      <4>3. q \in Seq(V) /\ w \in Seq(V)
        BY <3>3, <4>2
      <4>4. <<NUL>> \in Seq(V)
        BY <4>2
      <4>5. QED
        BY <4>3, <4>4
    <3>5. PICK v \in Seq(V) : v = q \o <<NUL>>
      BY <3>4, ConcatProperties
    <3>6. PICK o \in Seq(V) : o = <<NUL>> /\ Len(o) = 1
      BY <3>4
    <3>7. 0 \in 0..Len(o)
      BY <3>6
    <3>8. Begins(q, o, w, 0)
      BY <3>4, <3>7, Beginning
    <3>9. SubSeq((q \o o) \o w, 1, Len(q) + 0) = q \o SubSeq(o, 1, 0)
      BY <3>8 DEF Begins
    <3>10. SubSeq(o, 1, 0) = <<>>
      BY <3>6, SubSeqEmpty
    <3>11. Len(q) + 0 = Len(q) /\ q \o <<>> = q
      BY LenProperties, ConcatEmptySeq
    <3>12. QED
      BY <3>2, <3>6, <3>9, <3>10, <3>11
  <2>3. QED
    BY <2>1, <2>2
<1>17. SubSeq(data', 1, last') = r.left
  BY <1>11, <1>15, <1>16
<1>18. Looks(d, r, C, t, k, ret)
  BY <1>1, <1>11, <1>12, <1>13, <1>14, <1>17 DEF Looks
<1>19. ASSUME Full(data, junk), last + N <= BUFSIZE
       PROVE  Kin(d)
  <2>a. PICK S : data \in Seq(S) /\ Len(data) = BUFSIZE + 1
    BY <1>19 DEF Full
  <2>1. PICK w \in Seq(S) : w = data /\ Len(w) = BUFSIZE + 1
    BY <2>a
  <2>2. PICK u \in Nat, j \in Nat : /\ u = last + N /\ j = BUFSIZE + 1 - (last + N) /\ j > 0
                                    /\ u + j = BUFSIZE + 1 /\ m = u + 1 /\ n = u + j
    BY <1>5, <1>19, Settings
  <2>3. u + j <= Len(w)
    BY <2>1, <2>2
  <2>4. /\ SubSeq(w, u + 1, u + j) \in Seq(S) /\ Len(SubSeq(w, u + 1, u + j)) = j
        /\ \A b \in 1..j : SubSeq(w, u + 1, u + j)[b] = w[u + b]
    BY <2>3, Cutting
  <2>5. Len(y) = j /\ y[j] = data[u + j]
    <3>1. j \in 1..j
      BY <2>2
    <3>2. y = SubSeq(w, u + 1, u + j)
      BY <1>6, <2>1, <2>2
    <3>3. QED
      BY <2>1, <2>4, <3>1, <3>2
  <2>6. d \in Seq(U) /\ Ends(d, z, x, y)
    BY <1>8, <1>9, <1>10, <1>11, ThreeParts
  <2>7. Len(z) + Len(x) + Len(y) = BUFSIZE + 1
    BY <1>2, <1>8, <2>2, <2>5
  <2>8. d \in Seq(U) /\ Len(d) = BUFSIZE + 1 /\ d[BUFSIZE + 1] = data[BUFSIZE + 1]
    BY <2>2, <2>5, <2>6, <2>7 DEF Ends
  <2>9. d \in Seq(Range(d))
    BY <2>8, OwnRange
  <2>10. QED
    BY <2>8, <2>9 DEF Kin
<1>20. QED
  BY <1>3, <1>18, <1>19

(* What was read and what is carried over goes on with it.                  *)
LEMMA SearchCarries ==
  ASSUME NEW C, NEW t \in Seq(C), NEW k \in Nat, NEW ret \in Nat, k + ret <= Len(t),
         last \in Nat, NEW read, Len(read) \in Nat, ret <= Len(read),
         \A b \in 1..ret : Char(read[b]) = t[k + b],
         Carries(seen, SubSeq(data, 1, last), C, t, k), Searched(read, ret)
  PROVE  /\ Carries(seen', SubSeq(data', 1, last'), C, t, k + ret)
         /\ ret = 0 => last' = 0 /\ at' = "close"
         /\ ret # 0 => at' = "read"
<1>1. SubSeq(data, 1, last) \in Seq(C)
  BY DEF Carries
<1>2. \E d, r : Looks(d, r, C, t, k, ret)
  BY <1>1, SearchIs
<1>3. PICK d, r : Looks(d, r, C, t, k, ret)
  BY <1>2
<1>4. Splits(r, C, SubSeq(data, 1, last) \o SubSeq(t, k + 1, k + ret))
  BY <1>3 DEF Looks
<1>5. Carries(seen \o r.found, r.left, C, t, k + ret)
  BY <1>4, CarriesOn
<1>6. /\ seen' = seen \o r.found /\ SubSeq(data', 1, last') = r.left
      /\ last' = Len(r.left) /\ (ret = 0 => r.left = <<>>)
      /\ at' = IF ret = 0 THEN "close" ELSE "read"
  BY <1>3 DEF Looks
<1>7. QED
  BY <1>5, <1>6

-----------------------------------------------------------------------------
(* A read fetches no more than is asked for, and within one block what there *)
(* is of it.                                                                *)
LEMMA Fetched ==
  ASSUME ProgInv, NEW fd \in Fd, NEW n \in Nat \ {0}, NEW e \in Regular, mine[cur][fd] = e,
         SysRead(fd, n).ret \in 0..n
  PROVE  /\ Len(SysRead(fd, n).data) \in Nat /\ Len(SysRead(fd, n).data) <= n
         /\ SysRead(fd, n).ret <= Len(SysRead(fd, n).data)
         /\ Length[e] <= Block =>
              SysRead(fd, n).ret = n \/ Len(got[cur][fd]) + SysRead(fd, n).ret >= Length[e]
<1>0. cur \in Pid /\ cur < proc_cnt
  BY CurType DEF ProgInv, FollowInv, OwnInv
<1>1. Holds(D(fd), e) /\ e # None /\ Follows(D(fd), e, got[cur][fd]) /\ e # "rtc"
  BY <1>0, Settings, Constants DEF ProgInv, FollowInv, OwnInv, D
<1>2. /\ D(fd).ops = "file" /\ D(fd).flags = 1 /\ D(fd).internal_ftype = 2
      /\ D(fd).inode_index = e
  BY <1>1 DEF Holds, Kind
<1>g. e \in Range(Names)
  BY <1>0, <1>1 DEF ProgInv, FollowInv, OwnInv, TypeOK
<1>3. PICK offset \in Nat : offset = D(fd).file_position /\ offset = Len(got[cur][fd]) /\ offset <= Length[e]
  <2>1. PICK g \in Seq(Data) : g = got[cur][fd]
    BY <1>0 DEF ProgInv, FollowInv
  <2>2. Len(g) \in Nat /\ Len(Whole(e)) = Length[e]
    BY <1>1, <1>g, LenProperties, WholeOf
  <2>3. QED
    BY <1>1, <2>1, <2>2 DEF Follows
<1>4. SysRead(fd, n) = ReadData(e, offset, n)
  BY <1>2, <1>3 DEF SysRead
<1>5. PICK B \in Nat \ {0}, L \in Nat : B = Block /\ L = Length[e] /\ offset <= L
  BY <1>3, Constants
<1>6. PICK len \in Nat : /\ len = Cut(e, offset, n) /\ len <= n /\ offset + len <= L
                         /\ len = n \/ len = L - offset
  <2>1. Cut(e, offset, n) = IF n + offset > L THEN L - offset ELSE n
    BY <1>5 DEF Cut
  <2>2. QED
    BY <1>5, <2>1
<1>7. PICK r : r = SysRead(fd, n)
  OBVIOUS
<1>8. CASE len <= FirstPart(offset)
  <2>1. /\ r.ret = len
        /\ r.data = [b \in 1..len |-> ByteOf(e, offset \div Block, (offset % Block) + b - 1)]
    BY <1>4, <1>6, <1>7, <1>8 DEF ReadData
  <2>2. Len(r.data) = len
    BY <2>1
  <2>3. len = n \/ offset + len >= L
    BY <1>5, <1>6
  <2>4. QED
    BY <1>3, <1>5, <1>6, <1>7, <2>1, <2>2, <2>3
<1>9. CASE ~ (len <= FirstPart(offset))
  <2>1. PICK x : r.data = [b \in 1..n |-> x[b]]
    <3>1. r.data = [b \in 1..n |->
                      IF b <= FirstPart(offset)
                        THEN ByteOf(e, offset \div Block, (offset % Block) + b - 1)
                        ELSE ByteOf(e, offset \div Block + 1 + (b - FirstPart(offset) - 1) \div Block,
                                       (b - FirstPart(offset) - 1) % Block)]
      BY <1>4, <1>6, <1>7, <1>9 DEF ReadData
    <3>2. r.data = [b \in 1..n |-> r.data[b]]
      BY <3>1
    <3>3. QED
      BY <3>2
  <2>2. Len(r.data) = n
    BY <2>1
  <2>3. L > B
    <3>1. SUFFICES ASSUME L <= B
                   PROVE  FALSE
      BY <1>5
    <3>2. FirstPart(offset) = B - (offset % B)
      BY <1>5 DEF FirstPart
    <3>3. CASE offset = B
      <4>1. len = 0
        BY <1>5, <1>6, <3>1, <3>3
      <4>2. offset % B \in 0..B-1
        BY Divided
      <4>3. QED
        BY <1>9, <3>2, <4>1, <4>2
    <3>4. CASE offset # B
      <4>1. offset < B
        BY <1>5, <3>1, <3>4
      <4>2. offset % B = offset
        BY <4>1
      <4>3. QED
        BY <1>5, <1>6, <1>9, <3>1, <3>2, <4>2
    <3>5. QED
      BY <3>3, <3>4
  <2>4. QED
    BY <1>5, <1>7, <2>2, <2>3
<1>10. QED
  BY <1>8, <1>9

(* grep has searched what it has read of its file, but what it carries over;*)
(* at the end it carries nothing, and has read all.                         *)
InFile == prog = "grep" /\ at \in {"read", "close"} /\ name \in Regular

GrepSearches ==
  /\ Carries(seen, SubSeq(data, 1, last), Range(text[name]), text[name], Len(got[cur][file]))
  /\ at = "close" => last = 0 /\ Len(got[cur][file]) = Length[name]

GrepInv == ProgInv /\ text \in Texts /\ (InFile => GrepSearches)

LEMMA TextIs ==
  ASSUME GrepInv, NEW e \in Regular
  PROVE  text[e] \in Seq(Range(text[e])) /\ Len(text[e]) = Length[e] /\ Length[e] \in Nat
BY ProgramsAssumption, Constants DEF GrepInv

(* A step that leaves grep and its file alone.                              *)
LEMMA GrepStays ==
  ASSUME GrepInv, ProgInv', text' = text, UNCHANGED <<prog, at, name, data, last, file, seen>>,
         UNCHANGED got, cur' = cur
  PROVE  GrepInv'
<1>1. InFile' <=> InFile
  BY DEF InFile
<1>2. GrepSearches' <=> GrepSearches
  BY DEF GrepSearches
<1>3. QED
  BY <1>1, <1>2 DEF GrepInv

LEMMA GrepBegins ==
  ASSUME GrepInv, ProgInv', NEW fd \in Fd, GrepOpens(fd)
  PROVE  GrepInv'
<1>1. /\ prog = "grep" /\ at = "open" /\ SysOpen(name, fd) /\ file' = fd /\ last' = 0
      /\ seen' = <<>> /\ at' = "read" /\ UNCHANGED <<text, name>>
  BY DEF GrepOpens, Runs
<1>2. name \in Range(Names)
  BY <1>1 DEF GrepInv, ProgInv, Starts, CatAt, LsAt, GrepAt, TestsAt
<1>3. got'[cur'][file'] = <<>>
  BY <1>1, <1>2, OpenCall DEF GrepInv
<1>4. SUFFICES ASSUME InFile'
               PROVE  GrepSearches'
  BY <1>1 DEF GrepInv
<1>5. PICK e \in Regular : e = name
  BY <1>1, <1>4 DEF InFile
<1>6. PICK t : t = text[e] /\ t \in Seq(Range(t))
  BY <1>5, TextIs
<1>7. PICK z : z = SubSeq(data', 1, 0)
  OBVIOUS
<1>8. z = <<>>
  <2>1. Len(z) = 0 /\ z \in Seq({data'[b] : b \in 1..0})
    BY <1>7, PartOf DEF Part
  <2>2. QED
    BY <2>1, EmptySeq
<1>9. SubSeq(t, 1, 0) = <<>>
  BY <1>6, SubSeqEmpty
<1>10. PICK S : S = Range(t)
  OBVIOUS
<1>11. <<>> \in Seq(Seq(S)) /\ <<>> \in Seq(S) /\ NoLF(<<>>)
  BY EmptySeq DEF NoLF
<1>12. FlattenSeq(<<>>) \o <<>> = WithoutLF(<<>>)
  <2>1. PICK z0 \in Seq(S) : z0 = <<>>
    BY EmptySeq
  <2>2. FlattenSeq(z0) = <<>>
    BY <2>1 DEF FlattenSeq
  <2>3. z0 \o z0 = z0
    BY <2>1, ConcatEmptySeq
  <2>4. WithoutLF(<<>>) = <<>>
    BY PlainIs
  <2>5. QED
    BY <2>1, <2>2, <2>3, <2>4
<1>13. Carries(<<>>, <<>>, S, t, 0)
  BY <1>9, <1>11, <1>12 DEF Carries
<1>14. Len(<<>>) = 0
  OBVIOUS
<1>15. Carries(seen', SubSeq(data', 1, last'), Range(text'[name']), text'[name'], Len(got'[cur'][file']))
  BY <1>1, <1>3, <1>5, <1>6, <1>7, <1>8, <1>10, <1>13, <1>14
<1>16. QED
  BY <1>1, <1>15 DEF GrepSearches

(* What is read through grep's descriptor lengthens what it has got.        *)
LEMMA GotLonger ==
  ASSUME NEW g \in Seq(Data), NEW x, NEW ret \in Nat
  PROVE  Len(g \o SubSeq(x, 1, ret)) = Len(g) + ret
<1>1. PICK p : p = SubSeq(x, 1, ret)
  OBVIOUS
<1>2. PICK S : p \in Seq(S) /\ Len(p) = ret
  <2>1. 1 \in Int /\ ret \in Int
    OBVIOUS
  <2>2. Part(p, x, 1, ret)
    BY <1>1, <2>1, PartOf
  <2>3. PICK S : S = {x[b] : b \in 1..ret}
    OBVIOUS
  <2>4. p \in Seq(S) /\ Len(p) = IF 1 <= ret THEN ret - 1 + 1 ELSE 0
    BY <2>2, <2>3 DEF Part
  <2>5. p \in Seq(S) /\ Len(p) = ret
    BY <2>4
  <2>6. QED
    BY <2>5
<1>3. PICK V : Data \subseteq V /\ S \subseteq V
  <2>1. Data \subseteq Data \cup S /\ S \subseteq Data \cup S
    OBVIOUS
  <2>2. QED
    BY <2>1
<1>4. g \in Seq(V) /\ p \in Seq(V)
  BY <1>2, <1>3
<1>5. Len(g \o p) = Len(g) + Len(p)
  BY <1>4, ConcatProperties
<1>6. QED
  BY <1>1, <1>2, <1>5

LEMMA GrepGoesOn ==
  ASSUME GrepInv, ProgInv', GrepReads
  PROVE  GrepInv'
<1>1. /\ prog = "grep" /\ at = "read" /\ waiting = 0 /\ D(file).ops # "rtc"
      /\ UNCHANGED <<text, prog, file, name>>
  BY DEF GrepReads, Runs
<1>2. SUFFICES ASSUME name \in Regular
               PROVE  GrepSearches'
  BY <1>1 DEF GrepInv, InFile
<1>3. PICK e \in Regular : e = name
  BY <1>2
<1>4. ProgInv /\ FollowInv
  BY DEF GrepInv, ProgInv
<1>5. /\ name \in Range(Names) /\ file \in Fd /\ mine[cur][file] = e
      /\ last \in 0..BUFSIZE-1
  BY <1>1, <1>3 DEF GrepInv, ProgInv, Starts, CatAt, LsAt, GrepAt, TestsAt, Opens
<1>6. mine[cur][file] \notin {None, "rtc"}
  BY <1>1, <1>3, <1>4, <1>5, NotClock
<1>7. PICK t, C : t = text[e] /\ C = Range(t)
  OBVIOUS
<1>8. t \in Seq(C) /\ Len(t) = Length[e] /\ Length[e] \in Nat
  BY <1>7, TextIs
<1>9. Len(Whole(e)) = Length[e] /\ \A b \in 1..Length[e] : Whole(e)[b] = <<e, b - 1>>
  BY <1>3, <1>5, <1>6, WholeOf
<1>10. PICK g \in Seq(Data) : g = got[cur][file]
  BY <1>4, <1>5, CurType DEF FollowInv, OwnInv
<1>11. PICK k \in Nat : k = Len(g)
  BY LenProperties
<1>12. Carries(seen, SubSeq(data, 1, last), C, t, k)
  BY <1>1, <1>3, <1>7, <1>10, <1>11 DEF GrepInv, InFile, GrepSearches
<1>13. PICK n \in Nat \ {0} : n = BUFSIZE - last
  BY <1>5, Settings
<1>14. PICK r : r = SysRead(file, n)
  OBVIOUS
<1>15. /\ r.ret > 0 => SysReadData(file, n)
       /\ ~ (r.ret > 0) => UNCHANGED vars
       /\ r.ret # -1 => Searched(r.data, r.ret)
  BY <1>13, <1>14 DEF GrepReads
<1>16. PICK ret \in Nat : /\ ret = r.ret /\ r.ret \in 0..n /\ k + ret <= Length[e]
                          /\ \A b \in 1..ret : r.data[b] = <<e, k + b - 1>>
                          /\ ret = 0 => k = Length[e]
                          /\ Len(got'[cur'][file']) = k + ret
  <2>1. CASE r.ret > 0
    <3>1. SysReadData(file, n) /\ MayRead(file, n)
      BY <1>15, <2>1 DEF SysReadData
    <3>2. /\ r.ret \in 1..n /\ cur' = cur
          /\ got'[cur][file] = g \o SubSeq(r.data, 1, r.ret)
      BY <1>4, <1>5, <1>10, <1>14, <3>1, ReadCall
    <3>3. /\ k + r.ret <= Len(Whole(e))
          /\ \A b \in 1..r.ret : r.data[b] = Whole(e)[k + b]
      BY <1>4, <1>5, <1>6, <1>10, <1>11, <1>14, <3>1, ReadsRight
    <3>4. PICK ret \in Nat : ret = r.ret
      BY <3>2
    <3>5. ASSUME NEW b \in 1..ret
          PROVE  r.data[b] = <<e, k + b - 1>>
      <4>1. k + b \in 1..Length[e]
        BY <1>8, <1>9, <3>3, <3>4
      <4>2. Whole(e)[k + b] = <<e, k + b - 1>>
        BY <1>9, <4>1
      <4>3. QED
        BY <3>3, <3>4, <4>2
    <3>6. Len(g \o SubSeq(r.data, 1, ret)) = Len(g) + ret
      BY GotLonger
    <3>7. Len(got'[cur'][file']) = k + ret
      BY <1>1, <1>11, <3>2, <3>4, <3>6
    <3>8. ret # 0 /\ r.ret \in 0..n /\ k + ret <= Length[e]
      BY <1>9, <2>1, <3>2, <3>3, <3>4
    <3>9. QED
      BY <3>4, <3>5, <3>7, <3>8
  <2>2. CASE ~ (r.ret > 0)
    <3>1. r.ret = 0 /\ k = Len(Whole(e))
      BY <1>4, <1>5, <1>6, <1>10, <1>11, <1>14, <2>2, ReadEnds
    <3>2. cur' = cur /\ got' = got
      BY <1>4, <1>15, <2>2, NoCall
    <3>3. Len(got'[cur'][file']) = k + 0
      BY <1>1, <1>10, <1>11, <3>2
    <3>4. k = Length[e] /\ 0 \in 0..n /\ k + 0 <= Length[e]
      BY <1>9, <3>1
    <3>5. \A b \in 1..0 : r.data[b] = <<e, k + b - 1>>
      OBVIOUS
    <3>6. QED
      BY <3>1, <3>3, <3>4, <3>5
  <2>3. QED
    BY <2>1, <2>2
<1>17. Len(r.data) \in Nat /\ ret <= Len(r.data)
  BY <1>4, <1>5, <1>14, <1>16, Fetched
<1>18. \A b \in 1..ret : Char(r.data[b]) = t[k + b]
  <2>1. ASSUME NEW b \in 1..ret
        PROVE  Char(r.data[b]) = t[k + b]
    <3>1. k + b - 1 + 1 = k + b
      OBVIOUS
    <3>2. r.data[b] = <<e, k + b - 1>>
      BY <1>16
    <3>3. Char(r.data[b]) = t[k + b - 1 + 1]
      BY <1>7, <3>2 DEF Char
    <3>4. QED
      BY <3>1, <3>3
  <2>2. QED
    BY <2>1
<1>19. Searched(r.data, ret)
  BY <1>15, <1>16
<1>20. /\ Carries(seen', SubSeq(data', 1, last'), C, t, k + ret)
       /\ ret = 0 => last' = 0 /\ at' = "close"
       /\ ret # 0 => at' = "read"
  <2>1. last \in Nat /\ k + ret <= Len(t)
    BY <1>5, <1>8, <1>16, Settings
  <2>2. QED
    BY <1>8, <1>12, <1>17, <1>18, <1>19, <2>1, SearchCarries
<1>21. at' = "close" => last' = 0 /\ Len(got'[cur'][file']) = Length[e]
  BY <1>16, <1>20
<1>22. text'[name'] = t /\ name' = e
  BY <1>1, <1>3, <1>7
<1>23. Carries(seen', SubSeq(data', 1, last'), Range(text'[name']), text'[name'], Len(got'[cur'][file']))
  BY <1>7, <1>16, <1>20, <1>22
<1>24. QED
  BY <1>21, <1>22, <1>23 DEF GrepSearches

(* A step after which grep is not in a file.                                *)
LEMMA GrepLeaves ==
  ASSUME GrepInv, ProgInv',
         \/ GetArgs("cat", "open") \/ GetArgs("grep", "opendir") \/ OpenFails
         \/ \E fd \in Fd : CatOpens(fd) \/ OpensDir(fd)
         \/ CatWrites \/ CatTold \/ NextEntry \/ GrepTold \/ GrepCloses
         \/ \E select \in 0..9 : Selects(select)
         \/ Test \/ OpensLots \/ ClosesLots \/ TestsDone \/ ProgramEnds
         \/ \E p \in Programs, a \in Arguments : ShellExecutes(p, a)
         \/ ShellExits \/ ProgramKilled
  PROVE  GrepInv'
<1>1. SUFFICES text' = text /\ ~ InFile'
  BY DEF GrepInv
<1>2. CASE GetArgs("cat", "open") \/ GetArgs("grep", "opendir") \/ OpenFails
  BY <1>2 DEF GetArgs, OpenFails, Done, InFile
<1>3. ASSUME NEW fd \in Fd, CatOpens(fd) \/ OpensDir(fd)
      PROVE  text' = text /\ ~ InFile'
  BY <1>3 DEF CatOpens, OpensDir, Runs, InFile
<1>4. CASE CatWrites \/ CatTold
  BY <1>4 DEF CatWrites, CatTold, Runs, InFile
<1>5. CASE NextEntry
  BY <1>5 DEF NextEntry, Done, InFile
<1>6. CASE GrepTold
  <2>1. /\ prog = "grep" /\ waiting # 0 /\ UNCHANGED <<text, name>>
    BY <1>6 DEF GrepTold, RtcReadReturn
  <2>2. at = "read" /\ waiting = file /\ mine[cur][file] = "rtc"
    BY <2>1 DEF GrepInv, ProgInv, FollowInv
  <2>3. name = "rtc"
    BY <2>1, <2>2 DEF GrepInv, ProgInv, Starts, CatAt, LsAt, GrepAt, TestsAt, Opens
  <2>4. QED
    BY <2>1, <2>3, Constants DEF InFile
<1>7. CASE GrepCloses
  BY <1>7 DEF GrepCloses, InFile
<1>8. ASSUME NEW select \in 0..9, Selects(select)
      PROVE  text' = text /\ ~ InFile'
  BY <1>8 DEF Selects, InFile
<1>9. CASE Test \/ OpensLots \/ ClosesLots \/ TestsDone
  BY <1>9 DEF Test, OpensLots, ClosesLots, TestsDone, Runs, Done, InFile
<1>10. ASSUME NEW p, Fresh(p)
       PROVE  text' = text /\ ~ InFile'
  BY <1>10 DEF Fresh, InFile
<1>11. CASE ProgramEnds \/ ShellExits \/ ProgramKilled
  BY <1>10, <1>11 DEF ProgramEnds, ShellExits, ProgramKilled
<1>12. ASSUME NEW p \in Programs, NEW a \in Arguments, ShellExecutes(p, a)
       PROVE  text' = text /\ ~ InFile'
  BY <1>10, <1>12 DEF ShellExecutes
<1>13. QED
  BY <1>2, <1>3, <1>4, <1>5, <1>6, <1>7, <1>8, <1>9, <1>11, <1>12

LEMMA GrepStarts == ProgramsInit => GrepInv
<1> SUFFICES ASSUME ProgramsInit
             PROVE  GrepInv
  OBVIOUS
<1>1. prog = "shell" /\ text \in Texts
  BY DEF ProgramsInit
<1>2. QED
  BY <1>1, ProgramsStart DEF GrepInv, InFile

LEMMA GrepStep == GrepInv /\ ProgInv' /\ [ProgramsNext]_all => GrepInv'
<1> SUFFICES ASSUME GrepInv, ProgInv', [ProgramsNext]_all
             PROVE  GrepInv'
  OBVIOUS
<1>1. CASE ProgramStep \/ UserSelects
  <2>1. ASSUME NEW fd \in Fd, CatOpens(fd) \/ OpensDir(fd) \/ GrepOpens(fd)
        PROVE  GrepInv'
    BY <2>1, GrepLeaves, GrepBegins
  <2>2. CASE GrepReads
    BY <2>2, GrepGoesOn
  <2>3. CASE ReadsClock
    <3>1. /\ UNCHANGED <<text, prog, at, name, data, last, file, seen>>
          /\ UNCHANGED got /\ cur' = cur
      BY <2>3 DEF ReadsClock, RtcRead, user, inGrep, cur
    <3>2. QED
      BY <3>1, GrepStays
  <2>4. ASSUME NEW select \in 0..9, Selects(select)
        PROVE  GrepInv'
    BY <2>4, GrepLeaves
  <2>5. CASE \/ GetArgs("cat", "open") \/ GetArgs("grep", "opendir") \/ OpenFails
             \/ CatWrites \/ CatTold \/ NextEntry \/ GrepTold \/ GrepCloses
             \/ Test \/ OpensLots \/ ClosesLots \/ TestsDone \/ ProgramEnds
    BY <2>5, GrepLeaves
  <2>6. QED
    BY <1>1, <2>1, <2>2, <2>3, <2>4, <2>5 DEF ProgramStep, UserSelects
<1>2. CASE \/ \E p \in Programs, a \in Arguments : ShellExecutes(p, a)
           \/ ShellExits \/ ProgramKilled
  BY <1>2, GrepLeaves
<1>3. CASE Tick \/ (\E a \in Arguments : OtherTerminal(a)) \/ UNCHANGED all
  <2>1. UNCHANGED text /\ UNCHANGED user /\ UNCHANGED got /\ UNCHANGED proc_cnt
    BY <1>3 DEF Tick, RtcHandler, OtherTerminal, all, vars
  <2>2. /\ UNCHANGED <<text, prog, at, name, data, last, file, seen>>
        /\ UNCHANGED got /\ cur' = cur
    BY <2>1 DEF user, inGrep, cur
  <2>3. QED
    BY <2>2, GrepStays
<1>4. QED
  BY <1>1, <1>2, <1>3 DEF ProgramsNext

(* ece391grep.c: when it closes a file, grep has searched each character of *)
(* it once and in order, for every text, every size of buffer, and wherever *)
(* its reads were cut: what it carries over is never lost or searched twice.*)
THEOREM SearchesEverything == ProgramsSpec => []SearchesAll
<1>1. GrepInv => SearchesAll
  <2> SUFFICES ASSUME GrepInv, at = "close", name \in Regular
               PROVE  FlattenSeq(seen) = WithoutLF(text[name])
    BY DEF SearchesAll, InText
  <2>1. prog = "grep"
    BY DEF GrepInv, ProgInv, Starts, CatAt, LsAt, GrepAt, TestsAt
  <2>2. PICK t, S : t = text[name] /\ S = Range(t)
    OBVIOUS
  <2>3. t \in Seq(S) /\ Len(t) = Length[name]
    BY <2>2, TextIs
  <2>4. Carries(seen, SubSeq(data, 1, 0), S, t, Len(t))
    BY <2>1, <2>2, <2>3 DEF GrepInv, InFile, GrepSearches
  <2>5. SubSeq(t, 1, Len(t)) = t
    BY <2>3, SubSeqFull
  <2>6. PICK z : z = SubSeq(data, 1, 0)
    OBVIOUS
  <2>7. z = <<>>
    <3>1. Len(z) = 0 /\ z \in Seq({data[b] : b \in 1..0})
      BY <2>6, PartOf DEF Part
    <3>2. QED
      BY <3>1, EmptySeq
  <2>8. seen \in Seq(Seq(S)) /\ FlattenSeq(seen) \o <<>> = WithoutLF(t)
    BY <2>4, <2>5, <2>6, <2>7 DEF Carries
  <2>9. PICK p \in Seq(S) : p = FlattenSeq(seen)
    BY <2>8, FlatAppend
  <2>10. p \o <<>> = p
    BY ConcatEmptySeq
  <2>11. QED
    BY <2>2, <2>8, <2>9, <2>10
<1>2. QED
  BY <1>1, GrepStarts, GrepStep, ProgAlways, PTL DEF ProgramsSpec

-----------------------------------------------------------------------------
(* Which lines grep finds: hits of what follows one another,                *)
LEMMA HitsAre ==
  ASSUME NEW C, NEW ls \in Seq(Seq(C))
  PROVE  /\ Hits(ls) \in Seq(Seq(C))
         /\ Hits(ls) = Kept(ls, {l \in Seq(C) : Has(l)})
<1>1. PICK Str : Str = Seq(C)
  OBVIOUS
<1>2. ls \in Seq(Str)
  BY <1>1
<1>3. \A k \in 1..Len(ls) : ls[k] \in Str /\ ls[k] \in Range(ls)
  BY <1>2, LenProperties DEF Range
<1>4. PICK R, S : R = {l \in Range(ls) : Has(l)} /\ S = {l \in Str : Has(l)}
  OBVIOUS
<1>5. \A k \in 1..Len(ls) : ls[k] \in R <=> ls[k] \in S
  BY <1>3, <1>4
<1>6. Kept(ls, R) = Kept(ls, S) /\ Kept(ls, R) \in Seq(Str)
  BY <1>2, <1>5, KeptAlike, KeptIs
<1>7. QED
  BY <1>1, <1>4, <1>6 DEF Hits

LEMMA HitsConcat ==
  ASSUME NEW C, NEW a \in Seq(Seq(C)), NEW b \in Seq(Seq(C))
  PROVE  Hits(a \o b) = Hits(a) \o Hits(b)
<1>1. PICK Str : Str = Seq(C)
  OBVIOUS
<1>2. a \o b \in Seq(Str)
  BY <1>1, ConcatProperties
<1>3. PICK S : S = {l \in Str : Has(l)}
  OBVIOUS
<1>4. Hits(a) = Kept(a, S) /\ Hits(b) = Kept(b, S) /\ Hits(a \o b) = Kept(a \o b, S)
  BY <1>1, <1>2, <1>3, HitsAre
<1>5. Kept(a \o b, S) = Kept(a, S) \o Kept(b, S)
  BY <1>1, KeptConcat
<1>6. QED
  BY <1>4, <1>5

(* and that an empty line is none.                                          *)
LEMMA HitsAppend ==
  ASSUME NEW C, NEW a \in Seq(Seq(C))
  PROVE  Hits(Append(a, <<>>)) = Hits(a)
<1>1. PICK Str : Str = Seq(C)
  OBVIOUS
<1>2. PICK e \in Str : e = <<>> /\ Len(e) = 0
  BY <1>1, EmptySeq
<1>3. ~ Has(e)
  BY <1>2 DEF Has
<1>4. PICK S : S = {l \in Str : Has(l)} /\ e \notin S
  <2>1. e \notin {l \in Str : Has(l)}
    BY <1>3
  <2>2. QED
    BY <2>1
<1>5. Append(a, e) \in Seq(Str)
  BY <1>1, AppendProperties
<1>6. Hits(a) = Kept(a, S) /\ Hits(Append(a, e)) = Kept(Append(a, e), S)
  BY <1>1, <1>4, <1>5, HitsAre
<1>7. Kept(Append(a, e), S) = Kept(a, S)
  BY <1>1, <1>4, KeptAppend
<1>8. QED
  BY <1>2, <1>6, <1>7

LEMMA HitsNone ==
  ASSUME NEW C
  PROVE  /\ Hits(<<>>) = <<>> /\ Hits(<<<<>>>>) = <<>>
         /\ \A a \in Seq(Seq(C)) : Hits(<<<<>>>> \o a) = Hits(a)
<1>1. PICK Str : Str = Seq(C)
  OBVIOUS
<1>2. PICK z \in Seq(Str), e \in Str : z = <<>> /\ e = <<>>
  BY <1>1, EmptySeq
<1>3. Hits(z) = <<>>
  BY <1>2, KeptIs DEF Hits
<1>4. PICK u \in Seq(Str) : u = Append(z, e)
  BY AppendProperties
<1>5. u = <<<<>>>>
  BY <1>2, <1>4
<1>6. Hits(u) = <<>>
  BY <1>1, <1>2, <1>3, <1>4, HitsAppend
<1>7. ASSUME NEW a \in Seq(Str)
      PROVE  Hits(u \o a) = Hits(a)
  <2>1. Hits(u \o a) = Hits(u) \o Hits(a)
    BY <1>1, HitsConcat
  <2>2. PICK h \in Seq(Str) : h = Hits(a)
    BY <1>1, HitsAre
  <2>3. <<>> \o h = h
    BY ConcatEmptySeq
  <2>4. QED
    BY <1>6, <2>1, <2>2, <2>3
<1>8. QED
  BY <1>1, <1>2, <1>3, <1>5, <1>6, <1>7

-----------------------------------------------------------------------------
(* The lines of a text that goes on: those that are closed stay, and the    *)
(* last one goes on.                                                        *)
LEMMA LinesKnown ==
  ASSUME NEW C, NEW t \in Seq(C)
  PROVE  LinesOf(t) \in Seq(Seq(C)) /\ LinesOf(t) # <<>> /\ NoLF(Last(LinesOf(t)))
BY LinesAre DEF LinesRight

LEMMA OneLine ==
  ASSUME NEW C, NEW t \in Seq(C), NoLF(t)
  PROVE  LinesOf(t) = <<t>>
<1>0. PICK Str : Str = Seq(C)
  OBVIOUS
<1>z. PICK z \in Seq(Str), e \in Str : z = <<>> /\ e = <<>>
  BY <1>0, EmptySeq
<1>a. \A s \in Str : <<s>> = Append(z, s)
  BY <1>z
<1> DEFINE T == {s \in Seq(C) : NoLF(s) => LinesOf(s) = Append(z, s)}
<1>1. <<>> \in T
  BY <1>z, <1>a, LinesNone, EmptySeq
<1>2. ASSUME NEW s \in Seq(C), NEW c \in C, s \in T
      PROVE  Append(s, c) \in T
  <2>1. SUFFICES ASSUME NoLF(Append(s, c))
                 PROVE  LinesOf(Append(s, c)) = Append(z, Append(s, c))
    BY AppendProperties
  <2>2. NoLF(s) /\ c # LF
    BY <2>1, NoLFAppend
  <2>3. LinesOf(s) = Append(z, s)
    BY <1>2, <2>2
  <2>4. PICK ls \in Seq(Str) : ls = LinesOf(s) /\ ls # <<>> /\ Front(ls) = z /\ Last(ls) = s
    BY <1>0, <2>3, AppendLast
  <2>5. LinesOf(Append(s, c)) = Append(Front(ls), Append(Last(ls), c))
    BY <1>0, <2>2, <2>4, LinesGrow
  <2>6. QED
    BY <2>4, <2>5
<1> HIDE DEF T
<1>3. t \in T
  BY <1>1, <1>2, ByLast
<1>4. QED
  BY <1>0, <1>3, <1>a DEF T

LEMMA LinesOn ==
  ASSUME NEW C, NEW u \in Seq(C), NEW v \in Seq(C)
  PROVE  LinesOf(u \o v) = Front(LinesOf(u)) \o LinesOf(Last(LinesOf(u)) \o v)
<1>0. PICK Str : Str = Seq(C)
  OBVIOUS
<1>1. PICK L \in Seq(Str) : L = LinesOf(u) /\ L # <<>> /\ NoLF(Last(L))
  BY <1>0, LinesKnown
<1>2. PICK P \in Seq(Str), y \in Str : P = Front(L) /\ y = Last(L) /\ L = Append(P, y) /\ NoLF(y)
  BY <1>1, FrontLast
<1>3. y \in Seq(C)
  BY <1>0
<1> DEFINE T == {s \in Seq(C) : LinesOf(u \o s) = P \o LinesOf(y \o s)}
<1>4. <<>> \in T
  <2>1. u \o <<>> = u /\ y \o <<>> = y
    BY <1>3, ConcatEmptySeq
  <2>2. LinesOf(y) = <<y>>
    BY <1>2, <1>3, OneLine
  <2>3. Append(P, y) = P \o <<y>>
    BY AppendIsConcat
  <2>4. QED
    BY <1>1, <1>2, <2>1, <2>2, <2>3, EmptySeq
<1>5. ASSUME NEW s \in Seq(C), NEW x \in C, s \in T
      PROVE  Append(s, x) \in T
  <2>1. PICK us \in Seq(C), ys \in Seq(C) : /\ us = u \o s /\ ys = y \o s
             /\ u \o Append(s, x) = Append(us, x) /\ y \o Append(s, x) = Append(ys, x)
    <3>1. u \o s \in Seq(C) /\ y \o s \in Seq(C)
      BY <1>3, ConcatProperties
    <3>2. u \o Append(s, x) = Append(u \o s, x)
      BY ConcatAppend
    <3>3. y \o Append(s, x) = Append(y \o s, x)
      BY <1>3, ConcatAppend
    <3>4. QED
      BY <3>1, <3>2, <3>3
  <2>2. PICK M \in Seq(Str) : M = LinesOf(ys) /\ M # <<>>
    BY <1>0, LinesKnown
  <2>3. PICK f \in Seq(Str), l \in Str : f = Front(M) /\ l = Last(M) /\ M = Append(f, l)
    BY <2>2, FrontLast
  <2>4. PICK K \in Seq(Str) : K = LinesOf(us) /\ K # <<>>
    BY <1>0, LinesKnown
  <2>5. K = P \o M
    BY <1>5, <2>1, <2>2, <2>4
  <2>6. PICK Pf \in Seq(Str) : Pf = P \o f /\ K = Append(Pf, l)
    <3>1. P \o f \in Seq(Str)
      BY ConcatProperties
    <3>2. P \o Append(f, l) = Append(P \o f, l)
      BY ConcatAppend
    <3>3. QED
      BY <2>3, <2>5, <3>1, <3>2
  <2>7. Front(K) = Pf /\ Last(K) = l
    BY <2>6, AppendLast
  <2>8. CASE x = LF
    <3>1. PICK e \in Str : e = <<>>
      BY <1>0, EmptySeq
    <3>2. LinesOf(Append(us, x)) = Append(K, e) /\ LinesOf(Append(ys, x)) = Append(M, e)
      BY <1>0, <2>2, <2>4, <2>8, <3>1, LinesGrow
    <3>3. P \o Append(M, e) = Append(P \o M, e)
      BY ConcatAppend
    <3>4. QED
      BY <2>1, <2>5, <3>2, <3>3, AppendProperties
  <2>9. CASE x # LF
    <3>1. PICK m \in Str : m = Append(l, x)
      BY <1>0, AppendProperties
    <3>2. LinesOf(Append(us, x)) = Append(Pf, m) /\ LinesOf(Append(ys, x)) = Append(f, m)
      <4>1. LinesOf(us) \in Seq(Seq(C)) /\ LinesOf(us) # <<>>
        BY <1>0, <2>4
      <4>2. LinesOf(Append(us, x)) = Append(Front(LinesOf(us)), Append(Last(LinesOf(us)), x))
        BY <2>9, <4>1, LinesGrow
      <4>3. LinesOf(ys) \in Seq(Seq(C)) /\ LinesOf(ys) # <<>>
        BY <1>0, <2>2
      <4>4. LinesOf(Append(ys, x)) = Append(Front(LinesOf(ys)), Append(Last(LinesOf(ys)), x))
        BY <2>9, <4>3, LinesGrow
      <4>5. QED
        BY <2>2, <2>3, <2>4, <2>7, <3>1, <4>2, <4>4
    <3>3. P \o Append(f, m) = Append(P \o f, m)
      BY ConcatAppend
    <3>4. QED
      BY <2>1, <2>6, <3>2, <3>3, AppendProperties
  <2>10. QED
    BY <2>8, <2>9
<1> HIDE DEF T
<1>6. v \in T
  BY <1>4, <1>5, ByLast
<1>7. QED
  BY <1>1, <1>2, <1>6 DEF T

(* A line that is begun is in the text as a line of at least its length.    *)
Holding(ls, n) == \E j \in 1..Len(ls) : Len(ls[j]) \in Nat /\ Len(ls[j]) >= n

LEMMA HoldingOn ==
  ASSUME NEW C, NEW u \in Seq(C), NEW v \in Seq(C)
  PROVE  Holding(LinesOf(u \o v), Len(Last(LinesOf(u))))
<1>0. PICK Str : Str = Seq(C)
  OBVIOUS
<1>1. PICK y \in Str, n \in Nat : y = Last(LinesOf(u)) /\ n = Len(y)
  BY <1>0, LinesKnown, FrontLast, LenProperties
<1> DEFINE T == {s \in Seq(C) : Holding(LinesOf(u \o s), n)}
<1>2. ASSUME NEW p \in Seq(Str), NEW l \in Str
      PROVE  /\ Len(l) >= n => Holding(Append(p, l), n)
             /\ Holding(p, n) => Holding(Append(p, l), n)
             /\ Holding(Append(p, l), n) => Holding(p, n) \/ Len(l) >= n
  <2>1. PICK q \in Seq(Str) : q = Append(p, l) /\ OneMore(q, p, l)
    BY AppendIs
  <2>2. PICK m \in Nat : m = Len(p) /\ Len(q) = m + 1 /\ q[m+1] = l /\ \A k \in 1..m : q[k] = p[k]
    BY <2>1 DEF OneMore
  <2>3. Len(l) \in Nat
    BY <1>0, LenProperties
  <2>4. Holding(q, n) <=> Holding(p, n) \/ Len(l) >= n
    <3>1. \A k \in 1..m+1 : k \in 1..m \/ k = m + 1
      OBVIOUS
    <3>2. m + 1 \in 1..m+1 /\ \A k \in 1..m : k \in 1..m+1
      OBVIOUS
    <3>3. QED
      BY <2>2, <2>3, <3>1, <3>2 DEF Holding
  <2>5. QED
    BY <2>1, <2>4
<1>3. <<>> \in T
  <2>1. u \o <<>> = u
    BY ConcatEmptySeq
  <2>2. PICK p \in Seq(Str), l \in Str : l = y /\ LinesOf(u) = Append(p, l)
    BY <1>0, <1>1, LinesKnown, FrontLast
  <2>3. Len(l) >= n
    BY <1>1, <2>2
  <2>4. QED
    BY <1>2, <2>1, <2>2, <2>3, EmptySeq
<1>4. ASSUME NEW s \in Seq(C), NEW x \in C, s \in T
      PROVE  Append(s, x) \in T
  <2>1. PICK us \in Seq(C) : us = u \o s /\ u \o Append(s, x) = Append(us, x)
    <3>1. u \o s \in Seq(C)
      BY ConcatProperties
    <3>2. u \o Append(s, x) = Append(u \o s, x)
      BY ConcatAppend
    <3>3. QED
      BY <3>1, <3>2
  <2>2. PICK K \in Seq(Str) : K = LinesOf(us) /\ K # <<>> /\ Holding(K, n)
    BY <1>0, <1>4, <2>1, LinesKnown
  <2>3. PICK p \in Seq(Str), l \in Str : p = Front(K) /\ l = Last(K) /\ K = Append(p, l)
    BY <2>2, FrontLast
  <2>4. CASE x = LF
    <3>1. PICK e \in Str : e = <<>>
      BY <1>0, EmptySeq
    <3>2. LinesOf(Append(us, x)) = Append(K, e)
      BY <1>0, <2>2, <2>4, <3>1, LinesGrow
    <3>3. Holding(Append(K, e), n)
      BY <1>2, <2>2
    <3>4. QED
      BY <2>1, <3>2, <3>3, AppendProperties
  <2>5. CASE x # LF
    <3>1. PICK m \in Str : m = Append(l, x) /\ Len(l) \in Nat /\ Len(m) = Len(l) + 1
      BY <1>0, AppendProperties, LenProperties
    <3>2. LinesOf(Append(us, x)) = Append(p, m)
      BY <1>0, <2>2, <2>3, <2>5, <3>1, LinesGrow
    <3>3. Holding(p, n) \/ Len(l) >= n
      BY <1>2, <2>2, <2>3
    <3>4. Len(l) >= n => Len(m) >= n
      BY <3>1
    <3>5. Holding(Append(p, m), n)
      BY <1>2, <3>3, <3>4
    <3>6. QED
      BY <2>1, <3>2, <3>5, AppendProperties
  <2>6. QED
    BY <2>4, <2>5
<1> HIDE DEF T
<1>5. v \in T
  BY <1>3, <1>4, ByLast
<1>6. QED
  BY <1>1, <1>5 DEF T

LEMMA ConcatLast ==
  ASSUME NEW S, NEW p \in Seq(S), NEW q \in Seq(S), q # <<>>
  PROVE  Front(p \o q) = p \o Front(q) /\ Last(p \o q) = Last(q)
<1>1. PICK f \in Seq(S), l \in S : f = Front(q) /\ l = Last(q) /\ q = Append(f, l)
  BY FrontLast
<1>2. PICK pf \in Seq(S) : pf = p \o f
  BY ConcatProperties
<1>3. p \o Append(f, l) = Append(p \o f, l)
  BY ConcatAppend
<1>4. Front(Append(pf, l)) = pf /\ Last(Append(pf, l)) = l
  BY AppendLast
<1>5. QED
  BY <1>1, <1>2, <1>3, <1>4

(* A text that has one line only is that line.                              *)
LEMMA SingleLine ==
  ASSUME NEW C, NEW t \in Seq(C), Len(LinesOf(t)) = 1
  PROVE  Last(LinesOf(t)) = t
<1>0. PICK Str : Str = Seq(C)
  OBVIOUS
<1> DEFINE T == {s \in Seq(C) : Len(LinesOf(s)) = 1 => Last(LinesOf(s)) = s}
<1>1. <<>> \in T
  <2>1. Last(<<<<>>>>) = <<>>
    BY DEF Last
  <2>2. QED
    BY <2>1, LinesNone, EmptySeq
<1>2. ASSUME NEW s \in Seq(C), NEW c \in C, s \in T
      PROVE  Append(s, c) \in T
  <2>1. SUFFICES ASSUME Len(LinesOf(Append(s, c))) = 1
                 PROVE  Last(LinesOf(Append(s, c))) = Append(s, c)
    BY AppendProperties
  <2>2. PICK K \in Seq(Str) : K = LinesOf(s) /\ K # <<>>
    BY <1>0, LinesKnown
  <2>3. PICK f \in Seq(Str), l \in Str : f = Front(K) /\ l = Last(K) /\ K = Append(f, l)
    BY <2>2, FrontLast
  <2>4. Len(K) = Len(f) + 1 /\ Len(f) \in Nat
    BY <2>3, AppendProperties, LenProperties
  <2>5. c # LF
    <3>1. SUFFICES ASSUME c = LF
                   PROVE  FALSE
      OBVIOUS
    <3>2. PICK e \in Str : e = <<>>
      BY <1>0, EmptySeq
    <3>3. LinesOf(Append(s, c)) = Append(K, e)
      BY <1>0, <2>2, <3>1, <3>2, LinesGrow
    <3>4. Len(Append(K, e)) = Len(K) + 1
      BY AppendProperties
    <3>5. QED
      BY <2>1, <2>4, <3>3, <3>4
  <2>6. PICK m \in Str : m = Append(l, c)
    BY <1>0, AppendProperties
  <2>7. LinesOf(Append(s, c)) = Append(f, m)
    BY <1>0, <2>2, <2>3, <2>5, <2>6, LinesGrow
  <2>8. Len(Append(f, m)) = Len(f) + 1 /\ Last(Append(f, m)) = m
    BY AppendProperties, AppendLast
  <2>9. l = s
    BY <1>2, <2>1, <2>2, <2>3, <2>4, <2>7, <2>8
  <2>10. QED
    BY <2>6, <2>7, <2>8, <2>9
<1> HIDE DEF T
<1>3. t \in T
  BY <1>1, <1>2, ByLast
<1>4. QED
  BY <1>3 DEF T

(* Behind an LF lines begin anew.                                           *)
LEMMA BehindLF ==
  ASSUME NEW C, LF \in C, NEW u \in Seq(C), NEW w \in Seq(C)
  PROVE  LinesOf(Append(u, LF) \o w) = LinesOf(u) \o LinesOf(w)
<1>0. PICK Str : Str = Seq(C)
  OBVIOUS
<1>1. PICK v \in Seq(C) : v = Append(u, LF)
  BY AppendProperties
<1>2. PICK L \in Seq(Str) : L = LinesOf(u) /\ L # <<>>
  BY <1>0, LinesKnown
<1>3. PICK e \in Str : e = <<>>
  BY <1>0, EmptySeq
<1>4. LinesOf(v) = Append(L, e)
  BY <1>0, <1>1, <1>2, <1>3, LinesGrow
<1>5. Front(Append(L, e)) = L /\ Last(Append(L, e)) = e
  BY AppendLast
<1>6. e \o w = w
  BY <1>3, ConcatEmptySeq
<1>7. LinesOf(v \o w) = Front(LinesOf(v)) \o LinesOf(Last(LinesOf(v)) \o w)
  BY LinesOn
<1>8. QED
  BY <1>1, <1>2, <1>4, <1>5, <1>6, <1>7

(* The parts of a text.                                                     *)
LEMMA TextOn ==
  ASSUME NEW C, NEW t \in Seq(C), NEW k \in Nat, NEW r \in Nat, k + r <= Len(t)
  PROVE  /\ SubSeq(t, 1, k) \in Seq(C) /\ SubSeq(t, k + 1, k + r) \in Seq(C)
         /\ SubSeq(t, 1, k) \o SubSeq(t, k + 1, k + r) = SubSeq(t, 1, k + r)
         /\ r > 0 => SubSeq(t, k + 1, k + r) = <<t[k+1]>> \o SubSeq(t, k + 2, k + r)
         /\ SubSeq(t, k + 2, k + r) \in Seq(C)
<1>1. SubSeq(t, 1, k) \in Seq(C) /\ SubSeq(t, k + 1, k + r) \in Seq(C)
  BY ReadOnPlain
<1>2. SubSeq(t, 1, k) \o SubSeq(t, k + 1, k + r) = SubSeq(t, 1, k + r)
  <2>1. 1 \in 1..Len(t)+1 /\ k \in 1-1..Len(t) /\ k + r \in k..Len(t)
    BY LenProperties
  <2>2. QED
    BY <2>1, ConcatAdjacentSubSeq
<1>3. SubSeq(t, k + 2, k + r) \in Seq(C)
  <2>1. \A b \in k+2..k+r : t[b] \in C
    BY LenProperties
  <2>2. k + 2 \in Int /\ k + r \in Int
    OBVIOUS
  <2>3. QED
    BY <2>1, <2>2, SubSeqProperties
<1>4. ASSUME r > 0
      PROVE  SubSeq(t, k + 1, k + r) = <<t[k+1]>> \o SubSeq(t, k + 2, k + r)
  <2>1. /\ k + 1 \in 1..Len(t)+1 /\ k + 1 \in (k + 1) - 1..Len(t) /\ k + r \in k+1..Len(t)
        /\ (k + 1) + 1 = k + 2
    BY <1>4, LenProperties
  <2>2. SubSeq(t, k + 1, k + 1) \o SubSeq(t, (k + 1) + 1, k + r) = SubSeq(t, k + 1, k + r)
    BY <2>1, ConcatAdjacentSubSeq
  <2>3. PICK c \in C : c = t[k + 1]
    BY <1>4, LenProperties
  <2>4. SubSeq(t, k + 1, k + 1) = <<t[k + 1]>>
    <3>1. 1 \in Nat /\ k + 1 <= Len(t)
      BY <1>4, LenProperties
    <3>2. /\ SubSeq(t, k + 1, k + 1) \in Seq(C) /\ Len(SubSeq(t, k + 1, k + 1)) = 1
          /\ \A b \in 1..1 : SubSeq(t, k + 1, k + 1)[b] = t[k + b]
      BY <3>1, Cutting
    <3>3. PICK s : s = SubSeq(t, k + 1, k + 1)
      OBVIOUS
    <3>4. s \in Seq(C) /\ Len(s) = 1 /\ s[1] = c
      BY <2>3, <3>2, <3>3
    <3>5. PICK w : w = <<c>>
      OBVIOUS
    <3>6. w \in Seq(C) /\ Len(w) = 1 /\ w[1] = c
      BY <3>5
    <3>7. s = w
      BY <3>4, <3>6, SeqEqual
    <3>8. QED
      BY <2>3, <3>3, <3>5, <3>7
  <2>5. QED
    BY <2>1, <2>2, <2>4
<1>5. QED
  BY <1>1, <1>2, <1>3, <1>4

-----------------------------------------------------------------------------
(* What grep has found is what is in the lines it has read to their end; the *)
(* one it is in is carried over, or has been searched and ends here.        *)
InStep(sn, left, t, k) ==
  LET ls == LinesOf(SubSeq(t, 1, k))
  IN  \/ Hits(sn) = Hits(Front(ls)) /\ left = Last(ls)
      \/ /\ Hits(sn) = Hits(ls) /\ left = <<>>
         /\ k < Len(t) => t[k+1] = LF

(* The lines of what is searched are those by which the text read grows.    *)
Grows(sn, C, K, m, P, q) ==
  /\ P \in Seq(Seq(C)) /\ q \in Seq(Seq(C)) /\ q # <<>>
  /\ K = P \o q /\ Hits(sn) = Hits(P)
  /\ m = q \/ m = <<<<>>>> \o q

LEMMA LinesRead ==
  ASSUME NEW C, NEW t \in Seq(C), NEW k \in Nat, NEW ret \in Nat, k + ret <= Len(t),
         NEW sn \in Seq(Seq(C)), NEW left \in Seq(C), InStep(sn, left, t, k),
         k = Len(t) => left # <<>> \/ ~ (Hits(sn) = Hits(LinesOf(SubSeq(t, 1, k)))),
         ret = 0 => k = Len(t)
  PROVE  \E P, q : Grows(sn, C, LinesOf(SubSeq(t, 1, k + ret)),
                         LinesOf(left \o SubSeq(t, k + 1, k + ret)), P, q)
<1>0. PICK Str : Str = Seq(C)
  OBVIOUS
<1>1. PICK u \in Seq(C), n \in Seq(C), v \in Seq(C) :
        /\ u = SubSeq(t, 1, k) /\ n = SubSeq(t, k + 1, k + ret)
        /\ v = SubSeq(t, 1, k + ret) /\ v = u \o n
  <2>1. /\ SubSeq(t, 1, k) \in Seq(C) /\ SubSeq(t, k + 1, k + ret) \in Seq(C)
        /\ SubSeq(t, 1, k) \o SubSeq(t, k + 1, k + ret) = SubSeq(t, 1, k + ret)
    BY TextOn
  <2>2. SubSeq(t, 1, k) \o SubSeq(t, k + 1, k + ret) \in Seq(C)
    BY <2>1, ConcatProperties
  <2>3. QED
    BY <2>1, <2>2
<1>2. PICK L \in Seq(Str) : L = LinesOf(u) /\ L # <<>> /\ Front(L) \in Seq(Str)
  BY <1>0, LinesKnown, FrontLast
<1>3. SUFFICES \E P, q : Grows(sn, C, LinesOf(v), LinesOf(left \o n), P, q)
  BY <1>1
<1>4. CASE Hits(sn) = Hits(Front(L)) /\ left = Last(L)
  <2>1. LinesOf(v) = Front(L) \o LinesOf(left \o n)
    BY <1>1, <1>2, <1>4, LinesOn
  <2>2. PICK q \in Seq(Str) : q = LinesOf(left \o n) /\ q # <<>>
    <3>1. left \o n \in Seq(C)
      BY ConcatProperties
    <3>2. QED
      BY <1>0, <3>1, LinesKnown
  <2>3. Grows(sn, C, LinesOf(v), LinesOf(left \o n), Front(L), q)
    BY <1>0, <1>2, <1>4, <2>1, <2>2 DEF Grows
  <2>4. QED
    BY <2>3
<1>5. CASE Hits(sn) = Hits(L) /\ left = <<>> /\ (k < Len(t) => t[k+1] = LF)
  <2>1. k < Len(t) /\ t[k+1] = LF /\ ret > 0 /\ LF \in C
    <3>1. k # Len(t)
      BY <1>1, <1>2, <1>5
    <3>2. k < Len(t) /\ ret # 0 /\ k + 1 \in 1..Len(t)
      BY <3>1, LenProperties
    <3>3. t[k+1] \in C
      BY <3>2, LenProperties
    <3>4. QED
      BY <1>5, <3>2, <3>3
  <2>2. PICK w \in Seq(C) : n = <<LF>> \o w
    <3>1. SubSeq(t, k + 2, k + ret) \in Seq(C)
      BY TextOn
    <3>2. ret > 0 => SubSeq(t, k + 1, k + ret) = <<t[k+1]>> \o SubSeq(t, k + 2, k + ret)
      BY TextOn
    <3>3. n = <<LF>> \o SubSeq(t, k + 2, k + ret)
      BY <1>1, <2>1, <3>2
    <3>4. QED
      BY <3>1, <3>3
  <2>3. PICK q \in Seq(Str) : q = LinesOf(w) /\ q # <<>>
    BY <1>0, LinesKnown
  <2>4. PICK e \in Seq(C) : e = <<>>
    BY EmptySeq
  <2>5. PICK lf \in Seq(C) : lf = <<LF>> /\ lf = Append(e, LF)
    <3>1. Append(e, LF) \in Seq(C)
      BY <2>1, AppendProperties
    <3>2. <<LF>> = Append(e, LF)
      BY <2>4
    <3>3. QED
      BY <3>1, <3>2
  <2>6. v = Append(u, LF) \o w
    <3>1. Append(u, LF) = u \o lf
      BY <2>1, <2>5, AppendIsConcat
    <3>2. Regroups(u, lf, w)
      BY Associative
    <3>3. QED
      BY <1>1, <2>2, <2>5, <3>1, <3>2 DEF Regroups
  <2>7. LinesOf(v) = L \o q
    BY <1>2, <2>1, <2>3, <2>6, BehindLF
  <2>8. left \o n = n /\ n = Append(e, LF) \o w
    BY <1>5, <2>2, <2>5, ConcatEmptySeq
  <2>9. LinesOf(n) = <<<<>>>> \o q
    BY <2>1, <2>3, <2>4, <2>8, BehindLF, LinesNone
  <2>10. Grows(sn, C, LinesOf(v), LinesOf(left \o n), L, q)
    BY <1>0, <1>2, <1>5, <2>3, <2>7, <2>8, <2>9 DEF Grows
  <2>11. QED
    BY <2>10
<1>6. QED
  BY <1>1, <1>2, <1>4, <1>5 DEF InStep

(* A line goes on with a character that is no LF.                           *)
LEMMA LongerLine ==
  ASSUME NEW C, NEW t \in Seq(C), NEW j \in Nat, j < Len(t), t[j+1] # LF
  PROVE  Holding(LinesOf(t), Len(Last(LinesOf(SubSeq(t, 1, j)))) + 1)
<1>0. PICK Str : Str = Seq(C)
  OBVIOUS
<1>1. PICK c \in C : c = t[j+1] /\ c # LF
  BY LenProperties
<1>2. PICK N \in Nat : N = Len(t) /\ j + 1 <= N
  BY LenProperties
<1>3. PICK u \in Seq(C) : u = SubSeq(t, 1, j)
  <2>1. j + 0 <= Len(t) /\ 0 \in Nat
    BY LenProperties
  <2>2. SubSeq(t, 1, j) \in Seq(C)
    BY <2>1, TextOn
  <2>3. QED
    BY <2>2
<1>4. SubSeq(t, 1, j + 1) = Append(u, c)
  <2>1. j + 1 <= Len(t) /\ 1 \in Nat
    BY <1>2
  <2>2. /\ SubSeq(t, 1, j) \o SubSeq(t, j + 1, j + 1) = SubSeq(t, 1, j + 1)
        /\ SubSeq(t, j + 1, j + 1) = <<t[j+1]>> \o SubSeq(t, j + 2, j + 1)
    BY <2>1, TextOn
  <2>3. SubSeq(t, j + 2, j + 1) = <<>>
    BY SubSeqEmpty
  <2>4. <<c>> \in Seq(C)
    OBVIOUS
  <2>5. <<c>> \o <<>> = <<c>>
    BY <2>4, ConcatEmptySeq
  <2>6. Append(u, c) = u \o <<c>>
    BY AppendIsConcat
  <2>7. QED
    BY <1>1, <1>3, <2>2, <2>3, <2>5, <2>6
<1>5. PICK v \in Seq(C), x \in Seq(C) : v = Append(u, c) /\ t = v \o x
  <2>1. PICK r \in Nat : r = N - (j + 1) /\ (j + 1) + r = N /\ j + 1 \in Nat
    BY <1>2
  <2>2. (j + 1) + r <= Len(t)
    BY <1>2, <2>1
  <2>3. /\ SubSeq(t, (j + 1) + 1, (j + 1) + r) \in Seq(C)
        /\ SubSeq(t, 1, j + 1) \o SubSeq(t, (j + 1) + 1, (j + 1) + r) = SubSeq(t, 1, (j + 1) + r)
    BY <2>1, <2>2, TextOn
  <2>4. SubSeq(t, 1, (j + 1) + r) = t
    BY <1>2, <2>1, SubSeqFull
  <2>5. Append(u, c) \in Seq(C)
    BY AppendProperties
  <2>6. QED
    BY <1>4, <2>3, <2>4, <2>5
<1>6. PICK K \in Seq(Str) : K = LinesOf(u) /\ K # <<>>
  BY <1>0, LinesKnown
<1>7. PICK f \in Seq(Str), l \in Str : f = Front(K) /\ l = Last(K)
  BY <1>6, FrontLast
<1>8. PICK m \in Str : m = Append(l, c) /\ Len(m) = Len(l) + 1
  BY <1>0, AppendProperties
<1>9. LinesOf(v) = Append(f, m)
  BY <1>0, <1>1, <1>5, <1>6, <1>7, <1>8, LinesGrow
<1>10. Last(LinesOf(v)) = m
  BY <1>9, AppendLast
<1>11. Holding(LinesOf(v \o x), Len(Last(LinesOf(v))))
  BY HoldingOn
<1>12. QED
  BY <1>3, <1>5, <1>6, <1>7, <1>8, <1>10, <1>11

(* do_one_file: the lines that are searched of p, which were left and read  *)
(* on.                                                                      *)
LEMMA SearchOn ==
  ASSUME NEW C, NEW t \in Seq(C), NEW k \in Nat, NEW ret \in Nat, k + ret <= Len(t),
         NEW sn \in Seq(Seq(C)), NEW left \in Seq(C), InStep(sn, left, t, k),
         NEW d, NEW n \in Nat, SubSeq(d, 1, n) = left \o SubSeq(t, k + 1, k + ret),
         Len(left) + ret = n,
         ret = 0 => k = Len(t),
         ~ Holding(LinesOf(t), BUFSIZE + 1),
         k + ret < Len(t) => n = BUFSIZE /\ d[n+1] # LF
  PROVE  InStep(sn \o Lines(d, n, ret # 0).found, Lines(d, n, ret # 0).left, t, k + ret)
<1>0. PICK Str : Str = Seq(C)
  OBVIOUS
<1>1. PICK r : r = Lines(d, n, ret # 0)
  OBVIOUS
<1>2. PICK p \in Seq(C) : p = left \o SubSeq(t, k + 1, k + ret) /\ Len(p) = n
  <2>1. SubSeq(t, k + 1, k + ret) \in Seq(C) /\ Len(SubSeq(t, k + 1, k + ret)) = ret
    BY Cutting
  <2>2. /\ left \o SubSeq(t, k + 1, k + ret) \in Seq(C)
        /\ Len(left \o SubSeq(t, k + 1, k + ret)) = Len(left) + Len(SubSeq(t, k + 1, k + ret))
    BY <2>1, ConcatProperties
  <2>3. QED
    BY <2>1, <2>2
<1>3. PICK m \in Seq(Str) : m = LinesOf(p) /\ m # <<>> /\ Len(m) \in Nat
  BY <1>0, LinesKnown, LenProperties
<1>4. PICK f \in Seq(Str), l \in Str : f = Front(m) /\ l = Last(m)
  BY <1>3, FrontLast
<1>5. PICK s \in Seq(Str) : s = sn
  BY <1>0
<1>6. PICK v \in Seq(C), K \in Seq(Str) : v = SubSeq(t, 1, k + ret) /\ K = LinesOf(v) /\ K # <<>>
  <2>1. SubSeq(t, 1, k + ret) \in Seq(C)
    BY TextOn, ConcatProperties
  <2>2. QED
    BY <1>0, <2>1, LinesKnown
<1> DEFINE Two == Len(m) > 1 /\ (l = <<>> \/ (ret # 0 /\ d[n + 1] # LF))
<1>7. /\ Two => r.found = f /\ r.left = l
      /\ ~ Two => r.found = m /\ r.left = <<>>
  <2>1. CASE Two
    <3>1. r = [found |-> f, left |-> l]
      BY <1>1, <1>2, <1>3, <1>4, <2>1 DEF Lines
    <3>2. QED
      BY <2>1, <3>1
  <2>2. CASE ~ Two
    <3>1. r = [found |-> m, left |-> <<>>]
      BY <1>1, <1>2, <1>3, <1>4, <2>2 DEF Lines
    <3>2. QED
      BY <2>2, <3>1
  <2>3. QED
    BY <2>1, <2>2
<1> SUFFICES \/ Hits(s \o r.found) = Hits(Front(K)) /\ r.left = Last(K)
             \/ /\ Hits(s \o r.found) = Hits(K) /\ r.left = <<>>
                /\ k + ret < Len(t) => t[k + ret + 1] = LF
  BY <1>1, <1>5, <1>6 DEF InStep
<1>8. CASE k = Len(t) /\ left = <<>> /\ Hits(sn) = Hits(LinesOf(SubSeq(t, 1, k)))
  <2>1. ret = 0 /\ k + ret = k
    BY <1>8, LenProperties
  <2>2. p = <<>>
    <3>1. Len(left) = 0
      BY <1>8
    <3>2. QED
      BY <1>2, <2>1, <3>1, EmptySeq
  <2>3. PICK z \in Seq(Str), e \in Str : z = <<>> /\ e = <<>> /\ Append(z, e) = <<<<>>>>
    <3>1. <<>> \in Seq(Str) /\ <<>> \in Str
      BY <1>0, EmptySeq
    <3>2. Append(<<>>, <<>>) = <<<<>>>>
      OBVIOUS
    <3>3. QED
      BY <3>1, <3>2
  <2>4. m = Append(z, e) /\ Len(m) = 1
    <3>1. m = <<<<>>>>
      BY <1>3, <2>2, LinesNone
    <3>2. Len(Append(z, e)) = Len(z) + 1 /\ Len(z) = 0
      BY <2>3, AppendProperties
    <3>3. QED
      BY <2>3, <3>1, <3>2
  <2>5. r.found = m /\ r.left = <<>>
    BY <1>7, <2>4
  <2>6. Hits(s \o m) = Hits(K)
    <3>1. Hits(s \o m) = Hits(s) \o Hits(m)
      BY <1>0, HitsConcat
    <3>2. Hits(m) = <<>>
      BY <2>3, <2>4, HitsNone
    <3>3. PICK h \in Seq(Str) : h = Hits(s)
      BY <1>0, HitsAre
    <3>4. h \o <<>> = h
      BY ConcatEmptySeq
    <3>5. Hits(s) = Hits(K)
      BY <1>5, <1>6, <1>8, <2>1
    <3>6. QED
      BY <3>1, <3>2, <3>3, <3>4, <3>5
  <2>7. QED
    BY <1>8, <2>1, <2>5, <2>6
<1>9. CASE k = Len(t) => left # <<>> \/ ~ (Hits(sn) = Hits(LinesOf(SubSeq(t, 1, k))))
  <2>1. PICK P \in Seq(Str), q \in Seq(Str) :
             /\ q # <<>> /\ K = P \o q /\ Hits(s) = Hits(P)
             /\ m = q \/ m = <<<<>>>> \o q
    <3>1. \E P, q : Grows(sn, C, LinesOf(SubSeq(t, 1, k + ret)),
                          LinesOf(left \o SubSeq(t, k + 1, k + ret)), P, q)
      BY <1>9, LinesRead
    <3>2. PICK P, q : Grows(s, C, K, m, P, q)
      BY <1>2, <1>3, <1>5, <1>6, <3>1
    <3>3. QED
      BY <1>0, <3>2 DEF Grows
  <2>2. PICK fq \in Seq(Str), lq \in Str : fq = Front(q) /\ lq = Last(q)
    BY <2>1, FrontLast
  <2>3. Front(K) = P \o fq /\ Last(K) = lq
    BY <2>1, <2>2, ConcatLast
  <2>4. PICK z \in Seq(Str) : z = <<<<>>>> /\ Len(z) = 1
    <3>1. PICK e \in Str : e = <<>>
      BY <1>0, EmptySeq
    <3>2. <<e>> \in Seq(Str) /\ Len(<<e>>) = 1
      OBVIOUS
    <3>3. QED
      BY <3>1, <3>2
  <2>5. \A a \in Seq(Str) : Hits(z \o a) = Hits(a)
    BY <1>0, <2>4, HitsNone
  <2>6. CASE Two
    <3>1. r.found = f /\ r.left = l
      BY <1>7, <2>6
    <3>2. l = lq /\ (f = fq \/ f = z \o fq)
      <4>1. Front(z \o q) = z \o fq /\ Last(z \o q) = lq
        BY <2>1, <2>2, ConcatLast
      <4>2. QED
        BY <1>4, <2>1, <2>2, <2>4, <4>1
    <3>3. Hits(f) = Hits(fq)
      BY <2>5, <3>2
    <3>4. Hits(s \o f) = Hits(s) \o Hits(f) /\ Hits(P \o fq) = Hits(P) \o Hits(fq)
      BY <1>0, HitsConcat
    <3>5. QED
      BY <2>1, <2>3, <3>1, <3>2, <3>3, <3>4
  <2>7. CASE ~ Two
    <3>1. r.found = m /\ r.left = <<>>
      BY <1>7, <2>7
    <3>2. Hits(m) = Hits(q)
      BY <2>1, <2>4, <2>5
    <3>3. Hits(s \o m) = Hits(s) \o Hits(m) /\ Hits(P \o q) = Hits(P) \o Hits(q)
      BY <1>0, HitsConcat
    <3>4. ASSUME k + ret < Len(t), t[k + ret + 1] # LF
          PROVE  FALSE
      <4>1. ret # 0 /\ n = BUFSIZE /\ d[n + 1] # LF
        BY <3>4, LenProperties
      <4>2. Len(m) = 1
        <5>1. Len(m) # 0
          BY <1>3, EmptySeq
        <5>2. ~ (Len(m) > 1)
          BY <2>7, <4>1, Zenon
        <5>3. PICK j \in Nat : j = Len(m)
          BY <1>3
        <5>4. j # 0 /\ ~ (j > 1)
          BY <5>1, <5>2, <5>3, Zenon
        <5>5. j = 1
          BY <5>4
        <5>6. QED
          BY <5>3, <5>5
      <4>3. l = p
        BY <1>3, <1>4, <4>2, SingleLine
      <4>4. m = q
        <5>1. Len(z \o q) = Len(z) + Len(q) /\ Len(q) \in Nat /\ Len(q) # 0
          BY <2>1, ConcatProperties, LenProperties, EmptySeq
        <5>2. Len(z \o q) # 1
          BY <2>4, <5>1
        <5>3. QED
          BY <2>1, <2>4, <4>2, <5>2
      <4>5. Last(K) = p
        BY <1>4, <2>2, <2>3, <4>3, <4>4
      <4>6. Holding(LinesOf(t), Len(Last(LinesOf(SubSeq(t, 1, k + ret)))) + 1)
        <5>1. PICK j \in Nat : j = k + ret
          OBVIOUS
        <5>2. j < Len(t) /\ t[j + 1] # LF
          BY <3>4, <5>1
        <5>3. QED
          BY <5>1, <5>2, LongerLine
      <4>7. QED
        BY <1>2, <1>6, <4>1, <4>5, <4>6
    <3>5. QED
      BY <2>1, <3>1, <3>2, <3>3, <3>4
  <2>8. QED
    BY <2>6, <2>7
<1>10. QED
  BY <1>8, <1>9

-----------------------------------------------------------------------------
(* What grep has written of a file.                                         *)
FoundIn(o, f) == Kept(o, {e \in Range(o) : e[1] = f})

LEMMA KeptAll ==
  ASSUME NEW C, NEW t \in Seq(C), NEW R
  PROVE  /\ (\A k \in 1..Len(t) : t[k] \in R) => Kept(t, R) = t
         /\ (\A k \in 1..Len(t) : t[k] \notin R) => Kept(t, R) = <<>>
<1> DEFINE T == {s \in Seq(C) : Kept(s, C) = s /\ Kept(s, {}) = <<>>}
<1>1. <<>> \in T
  BY KeptIs, EmptySeq
<1>2. ASSUME NEW s \in Seq(C), NEW c \in C, s \in T
      PROVE  Append(s, c) \in T
  <2>1. Kept(Append(s, c), C) = Append(Kept(s, C), c)
    BY KeptAppend
  <2>2. Kept(Append(s, c), {}) = Kept(s, {})
    BY KeptAppend
  <2>3. QED
    BY <1>2, <2>1, <2>2, AppendProperties
<1> HIDE DEF T
<1>3. t \in T
  BY <1>1, <1>2, ByLast
<1>4. Kept(t, C) = t /\ Kept(t, {}) = <<>>
  BY <1>3 DEF T
<1>5. \A k \in 1..Len(t) : t[k] \in C
  BY LenProperties
<1>6. ASSUME \A k \in 1..Len(t) : t[k] \in R
      PROVE  Kept(t, R) = t
  <2>1. \A k \in 1..Len(t) : t[k] \in R <=> t[k] \in C
    BY <1>5, <1>6
  <2>2. QED
    BY <1>4, <2>1, KeptAlike
<1>7. ASSUME \A k \in 1..Len(t) : t[k] \notin R
      PROVE  Kept(t, R) = <<>>
  <2>1. \A k \in 1..Len(t) : t[k] \in R <=> t[k] \in {}
    BY <1>7
  <2>2. QED
    BY <1>4, <2>1, KeptAlike
<1>8. QED
  BY <1>6, <1>7

(* The lines of a file with its name.                                       *)
Marks(v, f, a) ==
  Len(a) \in Nat /\ Len(v) = Len(a) /\ \A k \in 1..Len(a) : v[k] = <<f, a[k]>>

LEMMA NamedIs ==
  ASSUME NEW f, NEW S, NEW a \in Seq(S)
  PROVE  Named(f, a) \in Seq({f} \X S) /\ Marks(Named(f, a), f, a)
<1>1. PICK n \in Nat : n = Len(a)
  BY LenProperties
<1>2. \A k \in 1..n : a[k] \in S
  BY <1>1, LenProperties
<1>3. PICK N : N = [k \in 1..n |-> <<f, a[k]>>]
  OBVIOUS
<1>4. N \in [1..n -> {f} \X S]
  BY <1>2, <1>3
<1>5. N \in Seq({f} \X S) /\ Len(N) = n
  BY <1>4, Tabled
<1>6. \A k \in 1..n : N[k] = <<f, a[k]>>
  BY <1>3
<1>7. Named(f, a) = N
  BY <1>1, <1>3 DEF Named
<1>8. Marks(N, f, a)
  BY <1>1, <1>5, <1>6 DEF Marks
<1>9. QED
  BY <1>5, <1>7, <1>8

LEMMA NamedConcat ==
  ASSUME NEW f, NEW S, NEW a \in Seq(S), NEW b \in Seq(S)
  PROVE  Named(f, a \o b) = Named(f, a) \o Named(f, b)
<1>1. PICK c \in Seq(S) : c = a \o b /\ Joins(c, a, b)
  BY ConcatIs
<1>2. PICK m \in Nat, n \in Nat : m = Len(a) /\ n = Len(b)
  BY LenProperties
<1>3. /\ Len(c) = m + n
      /\ \A k \in 1..m+n : c[k] = IF k <= m THEN a[k] ELSE b[k - m]
  BY <1>1, <1>2 DEF Joins
<1>4. PICK P : P = {f} \X S
  OBVIOUS
<1>5. PICK u \in Seq(P) : u = Named(f, a) /\ Marks(u, f, a)
  BY <1>4, NamedIs
<1>6. PICK v \in Seq(P) : v = Named(f, b) /\ Marks(v, f, b)
  BY <1>4, NamedIs
<1>7. PICK w \in Seq(P) : w = Named(f, c) /\ Marks(w, f, c)
  BY <1>4, NamedIs
<1>8. PICK x \in Seq(P) : x = u \o v /\ Joins(x, u, v)
  BY ConcatIs
<1>9. /\ Len(u) = m /\ \A k \in 1..m : u[k] = <<f, a[k]>>
      /\ Len(v) = n /\ \A k \in 1..n : v[k] = <<f, b[k]>>
      /\ Len(w) = m + n /\ \A k \in 1..m+n : w[k] = <<f, c[k]>>
  BY <1>2, <1>3, <1>5, <1>6, <1>7 DEF Marks
<1>10. /\ Len(x) = m + n
       /\ \A k \in 1..m+n : x[k] = IF k <= m THEN u[k] ELSE v[k - m]
  BY <1>8, <1>9 DEF Joins
<1>11. ASSUME NEW k \in 1..m+n
      PROVE  w[k] = x[k]
  <2>1. CASE k <= m
    <3>1. k \in 1..m
      BY <2>1
    <3>2. c[k] = a[k] /\ x[k] = u[k]
      BY <1>3, <1>10, <2>1
    <3>3. w[k] = <<f, c[k]>> /\ u[k] = <<f, a[k]>>
      BY <1>9, <3>1
    <3>4. QED
      BY <3>2, <3>3
  <2>2. CASE ~ (k <= m)
    <3>1. k - m \in 1..n
      BY <2>2
    <3>2. c[k] = b[k - m] /\ x[k] = v[k - m]
      BY <1>3, <1>10, <2>2
    <3>3. w[k] = <<f, c[k]>> /\ v[k - m] = <<f, b[k - m]>>
      BY <1>9, <3>1
    <3>4. QED
      BY <3>2, <3>3
  <2>3. QED
    BY <2>1, <2>2
<1>12. w = x
  BY <1>9, <1>10, <1>11, SeqEqual
<1>13. QED
  BY <1>1, <1>5, <1>6, <1>7, <1>8, <1>12

LEMMA FoundAre ==
  ASSUME NEW O, NEW o \in Seq(O), NEW f
  PROVE  FoundIn(o, f) = Kept(o, {e \in O : e[1] = f})
<1>1. \A k \in 1..Len(o) : o[k] \in O /\ o[k] \in Range(o)
  BY LenProperties DEF Range
<1>2. PICK R, S : R = {e \in Range(o) : e[1] = f} /\ S = {e \in O : e[1] = f}
  OBVIOUS
<1>3. \A k \in 1..Len(o) : o[k] \in R <=> o[k] \in S
  BY <1>1, <1>2
<1>4. Kept(o, R) = Kept(o, S)
  BY <1>3, KeptAlike
<1>5. QED
  BY <1>2, <1>4 DEF FoundIn

LEMMA FoundMore ==
  ASSUME NEW O, NEW o \in Seq(O), NEW f, NEW S, NEW a \in Seq(S)
  PROVE  FoundIn(o \o Named(f, a), f) = FoundIn(o, f) \o Named(f, a)
<1>1. PICK Q : O \subseteq Q /\ {f} \X S \subseteq Q
  <2>1. O \subseteq O \cup ({f} \X S) /\ {f} \X S \subseteq O \cup ({f} \X S)
    OBVIOUS
  <2>2. QED
    BY <2>1
<1>2. PICK p \in Seq(Q) : p = o
  BY <1>1
<1>3. PICK v \in Seq(Q) : v = Named(f, a) /\ \A k \in 1..Len(v) : v[k][1] = f
  <2>1. PICK P : P = {f} \X S
    OBVIOUS
  <2>2. PICK w \in Seq(P) : w = Named(f, a)
    BY <2>1, NamedIs
  <2>3. w \in Seq(Q)
    BY <1>1, <2>1, <2>2
  <2>4. \A k \in 1..Len(w) : w[k] \in P
    BY LenProperties
  <2>5. \A e \in P : e[1] = f
    BY <2>1
  <2>6. QED
    BY <2>2, <2>3, <2>4, <2>5
<1>4. PICK R : R = {e \in Q : e[1] = f}
  OBVIOUS
<1>5. FoundIn(p, f) = Kept(p, R)
  BY <1>4, FoundAre
<1>6. p \o v \in Seq(Q)
  BY ConcatProperties
<1>7. FoundIn(p \o v, f) = Kept(p \o v, R)
  <2>1. PICK x \in Seq(Q) : x = p \o v
    BY <1>6
  <2>2. FoundIn(x, f) = Kept(x, R)
    BY <1>4, FoundAre
  <2>3. QED
    BY <2>1, <2>2
<1>8. Kept(p \o v, R) = Kept(p, R) \o Kept(v, R)
  BY KeptConcat
<1>9. Kept(v, R) = v
  <2>1. \A k \in 1..Len(v) : v[k] \in R
    BY <1>3, <1>4, LenProperties
  <2>2. QED
    BY <2>1, KeptAll
<1>10. QED
  BY <1>2, <1>3, <1>5, <1>7, <1>8, <1>9

LEMMA FoundNone ==
  ASSUME NEW O, NEW o \in Seq(O), NEW f, \A p \in 1..Len(o) : o[p][1] # f
  PROVE  FoundIn(o, f) = <<>>
<1>1. PICK R : R = {e \in O : e[1] = f}
  OBVIOUS
<1>2. \A k \in 1..Len(o) : o[k] \notin R
  BY <1>1
<1>3. Kept(o, R) = <<>>
  BY <1>2, KeptAll
<1>4. QED
  BY <1>1, <1>3, FoundAre

-----------------------------------------------------------------------------
LEMMA EndedIs ==
  ASSUME NEW U, NEW d \in Seq(U), Len(d) = BUFSIZE + 1, NEW n
  PROVE  /\ Ended(d, n) \in Seq(U \cup {NUL}) /\ Len(Ended(d, n)) = BUFSIZE + 1
         /\ Ended(d, n)[BUFSIZE + 1] \in {d[BUFSIZE + 1], NUL}
<1>1. PICK B \in Nat : B = BUFSIZE + 1 /\ B >= 1
  BY Settings
<1>2. \A b \in 1..B : d[b] \in U
  BY <1>1, LenProperties
<1>3. PICK e : e = Ended(d, n) /\ e = [b \in 1..B |-> e[b]] /\ \A b \in 1..B : e[b] \in {d[b], NUL}
  <2>1. PICK e : e = [b \in 1..B |-> IF \/ b <= n /\ d[b] = LF
                                        \/ b = n + 1 /\ (n = 0 \/ d[n] # LF)
                                       THEN NUL ELSE d[b]]
    OBVIOUS
  <2>2. e = Ended(d, n)
    BY <1>1, <2>1 DEF Ended
  <2>3. e = [b \in 1..B |-> e[b]] /\ \A b \in 1..B : e[b] \in {d[b], NUL}
    BY <2>1
  <2>4. QED
    BY <2>2, <2>3
<1>4. PICK V : V = U \cup {NUL}
  OBVIOUS
<1>5. e \in [1..B -> V]
  <2>1. \A b \in 1..B : e[b] \in V
    BY <1>2, <1>3, <1>4
  <2>2. QED
    BY <1>3, <2>1
<1>6. e \in Seq(V) /\ Len(e) = B
  BY <1>5, Tabled
<1>7. B \in 1..B
  BY <1>1
<1>8. QED
  BY <1>1, <1>3, <1>4, <1>6, <1>7

(* What is left is copied to the beginning of the buffer: the buffer stays   *)
(* full.                                                                    *)
LEMMA CopiedDown ==
  ASSUME NEW C, NEW left \in Seq(C), Len(left) < BUFSIZE, NEW d, Kin(d), Full(data, junk),
         NEW n, NEW new,
         new = IF left = <<>> THEN Ended(d, n)
               ELSE left \o <<NUL>> \o SubSeq(Ended(d, n), Len(left) + 2, BUFSIZE + 1)
  PROVE  Full(new, junk)
<1>1. PICK B \in Nat, l \in Nat : B = BUFSIZE /\ l = Len(left) /\ l < B
  BY Settings, LenProperties
<1>2. PICK S : d \in Seq(S) /\ Len(d) = B + 1 /\ d[B + 1] \in {junk, NUL}
  BY <1>1 DEF Kin, Full
<1>3. PICK U : C \subseteq U /\ S \subseteq U /\ NUL \in U
  <2>1. C \subseteq C \cup S \cup {NUL} /\ S \subseteq C \cup S \cup {NUL} /\ NUL \in C \cup S \cup {NUL}
    OBVIOUS
  <2>2. QED
    BY <2>1
<1>4. PICK e \in Seq(U) : e = Ended(d, n) /\ Len(e) = B + 1 /\ e[B + 1] \in {junk, NUL}
  <2>1. S \cup {NUL} \subseteq U
    BY <1>3
  <2>2. /\ Ended(d, n) \in Seq(S \cup {NUL}) /\ Len(Ended(d, n)) = B + 1
        /\ Ended(d, n)[B + 1] \in {d[B + 1], NUL}
    BY <1>1, <1>2, EndedIs
  <2>3. QED
    BY <1>2, <2>1, <2>2
<1>5. CASE left = <<>>
  <2>1. new = e
    BY <1>4, <1>5
  <2>2. e \in Seq(Range(e))
    BY OwnRange
  <2>3. QED
    BY <1>1, <1>4, <2>1, <2>2 DEF Full
<1>6. CASE left # <<>>
  <2>1. PICK a \in Seq(U), b \in Seq(U) : a = left /\ b = <<NUL>> /\ Len(b) = 1
    <3>1. left \in Seq(U) /\ <<NUL>> \in Seq(U) /\ Len(<<NUL>>) = 1
      BY <1>3
    <3>2. QED
      BY <3>1
  <2>2. PICK u \in Nat, j \in Nat : u = l + 1 /\ u + j = B + 1 /\ j = B - l /\ j > 0 /\ u + 1 = l + 2
    BY <1>1
  <2>3. u + j <= Len(e)
    BY <1>4, <2>2
  <2>4. /\ SubSeq(e, u + 1, u + j) \in Seq(U) /\ Len(SubSeq(e, u + 1, u + j)) = j
        /\ \A k \in 1..j : SubSeq(e, u + 1, u + j)[k] = e[u + k]
    BY <2>3, Cutting
  <2>5. PICK c \in Seq(U) : c = SubSeq(e, l + 2, B + 1) /\ Len(c) = j /\ c[j] = e[B + 1]
    <3>1. j \in 1..j
      BY <2>2
    <3>2. SubSeq(e, l + 2, B + 1) = SubSeq(e, u + 1, u + j)
      BY <2>2
    <3>3. QED
      BY <2>2, <2>4, <3>1, <3>2
  <2>6. new = (a \o b) \o c
    BY <1>1, <1>4, <1>6, <2>1, <2>5
  <2>7. new \in Seq(U) /\ Ends(new, a, b, c)
    <3>1. (a \o b) \o c \in Seq(U) /\ Ends((a \o b) \o c, a, b, c)
      BY ThreeParts
    <3>2. QED
      BY <2>6, <3>1, Zenon
  <2>8. Len(new) = B + 1 /\ new[B + 1] = e[B + 1]
    <3>1. Len(a) + Len(b) + Len(c) = B + 1
      BY <1>1, <2>1, <2>2, <2>5
    <3>2. QED
      BY <2>2, <2>5, <2>7, <3>1 DEF Ends
  <2>9. new \in Seq(Range(new))
    BY <2>7, OwnRange
  <2>10. QED
    BY <1>1, <1>4, <2>8, <2>9 DEF Full
<1>7. QED
  BY <1>5, <1>6

(* What has been written is from the files of before, or the one it is in.  *)
Written(o, p, f) == \A k \in 1..Len(o) : o[k][1] = f \/ \E b \in 1..Len(p) : o[k][1] = p[b][1]

LEMMA WritesOn ==
  ASSUME NEW o, o \in Seq(Range(o)), NEW f, NEW S, NEW a \in Seq(S)
  PROVE  /\ o \o Named(f, a) \in Seq(Range(o \o Named(f, a)))
         /\ Written(o \o Named(f, a), o, f)
<1>1. PICK Q : Range(o) \subseteq Q /\ {f} \X S \subseteq Q
  <2>1. Range(o) \subseteq Range(o) \cup ({f} \X S) /\ {f} \X S \subseteq Range(o) \cup ({f} \X S)
    OBVIOUS
  <2>2. QED
    BY <2>1
<1>2. PICK P : P = {f} \X S
  OBVIOUS
<1>3. PICK v \in Seq(P) : v = Named(f, a)
  BY <1>2, NamedIs
<1>4. PICK p \in Seq(Q), w \in Seq(Q) : p = o /\ w = v
  BY <1>1, <1>2, <1>3
<1>5. PICK x \in Seq(Q) : x = p \o w /\ Joins(x, p, w)
  BY ConcatIs
<1>6. PICK m \in Nat, n \in Nat : m = Len(p) /\ n = Len(w)
  BY LenProperties
<1>7. /\ Len(x) = m + n
      /\ \A k \in 1..m+n : x[k] = IF k <= m THEN p[k] ELSE w[k - m]
  BY <1>5, <1>6 DEF Joins
<1>8. \A k \in 1..n : w[k][1] = f
  <2>1. \A k \in 1..n : w[k] \in P
    BY <1>3, <1>4, <1>6, LenProperties
  <2>2. \A e \in P : e[1] = f
    BY <1>2
  <2>3. QED
    BY <2>1, <2>2
<1>9. ASSUME NEW k \in 1..m+n
      PROVE  x[k][1] = f \/ \E b \in 1..m : x[k][1] = p[b][1]
  <2>1. CASE k <= m
    <3>1. k \in 1..m /\ x[k] = p[k]
      BY <1>7, <2>1
    <3>2. QED
      BY <3>1
  <2>2. CASE ~ (k <= m)
    <3>1. PICK j \in 1..n : j = k - m /\ x[k] = w[k - m]
      BY <1>7, <2>2
    <3>2. QED
      BY <1>8, <3>1
  <2>3. QED
    BY <2>1, <2>2
<1>10. Written(x, p, f)
  BY <1>6, <1>7, <1>9 DEF Written
<1>11. x \in Seq(Range(x))
  BY OwnRange
<1>12. QED
  BY <1>3, <1>4, <1>5, <1>10, <1>11

(* do_one_file: what is written is what is found, and nothing is missed.    *)
Unbroken(t, k, ret) ==
  /\ junk # LF /\ ~ Holding(LinesOf(t), BUFSIZE + 1)
  /\ k + ret < Len(t) => last + ret = BUFSIZE

LEMMA SearchFinds ==
  ASSUME NEW C, NEW t \in Seq(C), NEW k \in Nat, NEW ret \in Nat, k + ret <= Len(t),
         last \in Nat, NEW read, Len(read) \in Nat, ret <= Len(read),
         last + Len(read) <= BUFSIZE,
         \A b \in 1..ret : Char(read[b]) = t[k + b],
         Carries(seen, SubSeq(data, 1, last), C, t, k), Searched(read, ret),
         Full(data, junk), last' < BUFSIZE, ret = 0 => k = Len(t),
         out \in Seq(Range(out)), FoundIn(out, name) = Named(name, Hits(seen))
  PROVE  /\ Full(data', junk)
         /\ out' \in Seq(Range(out')) /\ Written(out', out, name)
         /\ FoundIn(out', name) = Named(name, Hits(seen'))
         /\ InStep(seen, SubSeq(data, 1, last), t, k) /\ Unbroken(t, k, ret)
              => InStep(seen', SubSeq(data', 1, last'), t, k + ret)
<1>0. PICK Str : Str = Seq(C)
  OBVIOUS
<1>1. PICK left \in Seq(C), sn \in Seq(Str) : left = SubSeq(data, 1, last) /\ sn = seen
  BY <1>0 DEF Carries
<1>2. Len(left) = last
  <2>1. 1 \in Int /\ last \in Int
    OBVIOUS
  <2>2. Len(left) = IF 1 <= last THEN last - 1 + 1 ELSE 0
    BY <1>1, <2>1, PartOf DEF Part
  <2>3. QED
    BY <2>2
<1>3. PICK d, r : Looks(d, r, C, t, k, ret) /\ Kin(d)
  <2>1. \E d, r : /\ Looks(d, r, C, t, k, ret)
                  /\ Full(data, junk) /\ last + Len(read) <= BUFSIZE => Kin(d)
    BY <1>1, SearchIs
  <2>2. QED
    BY <2>1
<1>4. /\ r = Lines(d, last + ret, ret # 0)
      /\ SubSeq(d, 1, last + ret) = left \o SubSeq(t, k + 1, k + ret)
      /\ Splits(r, C, left \o SubSeq(t, k + 1, k + ret))
      /\ last' = Len(r.left) /\ SubSeq(data', 1, last') = r.left
      /\ seen' = sn \o r.found /\ out' = out \o Named(name, Hits(r.found))
      /\ data' = IF r.left = <<>> THEN Ended(d, last + ret)
                 ELSE r.left \o <<NUL>>
                        \o SubSeq(Ended(d, last + ret), Len(r.left) + 2, BUFSIZE + 1)
  BY <1>1, <1>3 DEF Looks
<1>5. PICK l \in Seq(C), f \in Seq(Str) : l = r.left /\ f = r.found
  BY <1>0, <1>4 DEF Splits
<1>6. Full(data', junk)
  BY <1>3, <1>4, <1>5, CopiedDown
<1>7. PICK h \in Seq(Str) : h = Hits(f)
  BY <1>0, HitsAre
<1>8. out' \in Seq(Range(out')) /\ Written(out', out, name)
  <2>1. /\ out \o Named(name, h) \in Seq(Range(out \o Named(name, h)))
        /\ Written(out \o Named(name, h), out, name)
    BY WritesOn
  <2>2. QED
    BY <1>4, <1>5, <1>7, <2>1
<1>9. FoundIn(out', name) = Named(name, Hits(seen'))
  <2>1. FoundIn(out \o Named(name, h), name) = FoundIn(out, name) \o Named(name, h)
    BY FoundMore
  <2>2. PICK g \in Seq(Str) : g = Hits(sn)
    BY <1>0, HitsAre
  <2>3. Hits(sn \o f) = g \o h
    BY <1>0, <1>7, <2>2, HitsConcat
  <2>4. Named(name, g \o h) = Named(name, g) \o Named(name, h)
    BY NamedConcat
  <2>5. QED
    BY <1>1, <1>4, <1>5, <1>7, <2>1, <2>2, <2>3, <2>4
<1>10. ASSUME InStep(seen, SubSeq(data, 1, last), t, k), Unbroken(t, k, ret)
       PROVE  InStep(seen', SubSeq(data', 1, last'), t, k + ret)
  <2>1. PICK n \in Nat : n = last + ret
    OBVIOUS
  <2>2. InStep(sn, left, t, k) /\ sn \in Seq(Seq(C))
    BY <1>0, <1>1, <1>10
  <2>3. SubSeq(d, 1, n) = left \o SubSeq(t, k + 1, k + ret) /\ Len(left) + ret = n
    BY <1>2, <1>4, <2>1
  <2>4. ~ Holding(LinesOf(t), BUFSIZE + 1)
    BY <1>10 DEF Unbroken
  <2>5. k + ret < Len(t) => n = BUFSIZE /\ d[n+1] # LF
    <3>1. d[BUFSIZE + 1] \in {junk, NUL}
      BY <1>3 DEF Kin, Full
    <3>2. d[BUFSIZE + 1] # LF
      BY <1>10, <3>1, ProgramsAssumption DEF Unbroken
    <3>3. QED
      BY <1>10, <2>1, <3>2 DEF Unbroken
  <2>6. InStep(sn \o Lines(d, n, ret # 0).found, Lines(d, n, ret # 0).left, t, k + ret)
    BY <2>2, <2>3, <2>4, <2>5, SearchOn
  <2>7. Lines(d, n, ret # 0) = r
    BY <1>4, <2>1
  <2>8. QED
    BY <1>4, <2>6, <2>7
<1>11. QED
  BY <1>6, <1>8, <1>9, <1>10

-----------------------------------------------------------------------------
(* What a call on one descriptor leaves of what was got through others.     *)
LEMMA GotElse ==
  ASSUME ProgInv, NEW fd \in Fd, NEW e, NEW n,
         SysOpen(e, fd) \/ SysClose(fd) \/ SysReadData(fd, n)
  PROVE  cur' = cur /\ \A h \in Fd : h # fd => got'[cur][h] = got[cur][h]
<1>1. proc_cnt' = proc_cnt /\ \E g : got' = [got EXCEPT ![cur][fd] = g]
  <2>1. CASE SysOpen(e, fd)
    BY <2>1 DEF SysOpen
  <2>2. CASE SysClose(fd)
    BY <2>2 DEF SysClose
  <2>3. CASE SysReadData(fd, n)
    BY <2>3 DEF SysReadData
  <2>4. QED
    BY <2>1, <2>2, <2>3
<1>2. PICK g : got' = [got EXCEPT ![cur][fd] = g]
  BY <1>1
<1>3. cur \in Pid /\ got \in [Pid -> [Fd -> Seq(Data)]]
  BY CurType DEF ProgInv, FollowInv, OwnInv
<1>4. QED
  BY <1>1, <1>2, <1>3 DEF cur

-----------------------------------------------------------------------------
(* The hits of a constant sequence stay while grep's pattern does.          *)
LEMMA HitsStay ==
  ASSUME arg' = arg, NEW ls
  PROVE  Hits(ls)' = Hits(ls)
<1>1. \A l : Has(l)' <=> Has(l)
  BY DEF Has
<1>2. {l \in Range(ls) : Has(l)'} = {l \in Range(ls) : Has(l)}
  BY <1>1
<1>3. QED
  BY <1>2 DEF Hits

(* Of the names in the directory up to n: what grep has written is from     *)
(* these files.                                                             *)
From(o, n) == \A p \in 1..Len(o) : \E b \in 1..n : o[p][1] = Names[b]
Entries    == Len(got[cur][dir])

OutAt ==
  /\ out \in Seq(Range(out))
  /\ at \in {"start", "opendir"} => out = <<>>
  /\ at = "next" => From(out, Entries)
  /\ at = "open" => Entries > 0 /\ name = Names[Entries] /\ From(out, Entries - 1)
  /\ at \in {"read", "close"} => Entries > 0 /\ name = Names[Entries] /\ From(out, Entries)

(* The lines of the file fit into the buffer, and it into a block.          *)
Tame == Length[name] <= Block /\ junk # LF /\ ~ Holding(LinesOf(text[name]), BUFSIZE + 1)

GrepFinds ==
  /\ Full(data, junk)
  /\ FoundIn(out, name) = Named(name, Hits(seen))
  /\ Tame => InStep(seen, SubSeq(data, 1, last), text[name], Len(got[cur][file]))

FindInv == /\ GrepInv
           /\ prog = "grep" => OutAt
           /\ InFile => GrepFinds

(* The same, of the state after a step that leaves grep's pattern.          *)
LEMMA FindsNow ==
  ASSUME arg' = arg, NEW t, t = text'[name'], NEW k, k = Len(got'[cur'][file']),
         Full(data', junk'),
         FoundIn(out', name') = Named(name', Hits(seen')),
         Length[name'] <= Block /\ junk' # LF /\ ~ Holding(LinesOf(t), BUFSIZE + 1)
           => InStep(seen', SubSeq(data', 1, last'), t, k)
  PROVE  GrepFinds'
<1>1. PICK s, l : s = seen' /\ l = SubSeq(data', 1, last')
  OBVIOUS
<1>2. Hits(s)' = Hits(s)
  BY HitsStay
<1>3. Hits(seen)' = Hits(s)
  BY <1>1, <1>2
<1>4. InStep(s, l, t, k)' <=> InStep(s, l, t, k)
  <2>1. PICK ls : ls = LinesOf(SubSeq(t, 1, k))
    OBVIOUS
  <2>2. /\ Hits(s)' = Hits(s) /\ Hits(ls)' = Hits(ls)
        /\ Hits(Front(ls))' = Hits(Front(ls))
    BY HitsStay
  <2>3. QED
    BY <2>1, <2>2 DEF InStep
<1>5. QED
  BY <1>1, <1>2, <1>3, <1>4 DEF GrepFinds, Tame

LEMMA FindStays ==
  ASSUME FindInv, GrepInv', text' = text,
         UNCHANGED <<prog, at, arg, name, data, last, junk, dir, file, out, seen>>,
         UNCHANGED got, cur' = cur
  PROVE  FindInv'
<1>1. (InFile' <=> InFile) /\ Entries' = Entries
  BY DEF InFile, Entries
<1>2. OutAt => OutAt'
  BY <1>1 DEF OutAt
<1>3. ASSUME GrepFinds
      PROVE  GrepFinds'
  <2>1. PICK t, k : t = text'[name'] /\ k = Len(got'[cur'][file'])
    OBVIOUS
  <2>2. t = text[name] /\ k = Len(got[cur][file])
    BY <2>1
  <2>3. /\ Full(data', junk') /\ FoundIn(out', name') = Named(name', Hits(seen'))
        /\ Length[name'] <= Block /\ junk' # LF /\ ~ Holding(LinesOf(t), BUFSIZE + 1)
             => InStep(seen', SubSeq(data', 1, last'), t, k)
    BY <1>3, <2>2 DEF GrepFinds, Tame
  <2>4. QED
    BY <2>1, <2>3, FindsNow
<1>4. QED
  BY <1>1, <1>2, <1>3 DEF FindInv

(* A step after which grep is not in a file, and nothing is written.        *)
LEMMA FindNothing ==
  ASSUME FindInv, GrepInv', at' \notin {"read", "close"}, out' = out,
         prog' = "grep" => /\ prog = "grep"
                           /\ at' \in {"start", "opendir"} => out = <<>>
                           /\ at' = "next" => From(out, Entries')
                           /\ at' = "open" => /\ Entries' > 0 /\ name' = Names[Entries']
                                              /\ From(out, Entries' - 1)
  PROVE  FindInv'
<1>1. ~ InFile'
  BY DEF InFile
<1>2. prog' = "grep" => OutAt'
  BY DEF OutAt, FindInv
<1>3. QED
  BY <1>1, <1>2 DEF FindInv

LEMMA FindFresh ==
  ASSUME GrepInv', NEW p, Fresh(p)
  PROVE  FindInv'
<1>1. at' = "start" /\ out' = <<>>
  BY DEF Fresh
<1>2. <<>> \in Seq(Range(<<>>))
  BY EmptySeq
<1>3. OutAt'
  BY <1>1, <1>2 DEF OutAt
<1>4. ~ InFile'
  BY <1>1 DEF InFile
<1>5. QED
  BY <1>3, <1>4 DEF FindInv

(* The directory.                                                           *)
LEMMA FindDir ==
  ASSUME FindInv, GrepInv', (\E fd \in Fd : OpensDir(fd)) \/ NextEntry
  PROVE  FindInv'
<1>0. ProgInv
  BY DEF FindInv, GrepInv
<1>1. ASSUME NEW fd \in Fd, OpensDir(fd)
      PROVE  FindInv'
  <2>1. /\ at' = "next" /\ UNCHANGED <<prog, out>>
        /\ prog = "grep" => at = "opendir"
    BY <1>1 DEF OpensDir, Runs
  <2>2. prog = "grep" => out = <<>>
    BY <2>1 DEF FindInv, OutAt
  <2>3. \A n : From(<<>>, n)
    BY DEF From
  <2>4. prog = "grep" => From(out, Entries')
    BY <2>2, <2>3
  <2>5. QED
    BY <2>1, <2>4, FindNothing
<1>2. CASE NextEntry
  <2>1. at = "next" /\ waiting = 0 /\ UNCHANGED <<prog, dir>>
    BY <1>2 DEF NextEntry
  <2>2. prog = "ls" \/ (prog = "grep" /\ Opens(dir, "dir"))
    BY <1>0, <2>1 DEF ProgInv, Starts, CatAt, LsAt, GrepAt, TestsAt
  <2>3. CASE prog = "ls"
    <3>1. prog' # "grep" /\ ~ InFile'
      BY <2>1, <2>3 DEF InFile
    <3>2. QED
      BY <3>1 DEF FindInv
  <2>4. CASE prog = "grep" /\ ~ (SysRead(dir, 32).ret > 0)
    <3>1. at' = "done" /\ out' = out
      BY <1>2, <2>4 DEF NextEntry, Done
    <3>2. QED
      BY <2>1, <2>4, <3>1, FindNothing
  <2>5. CASE prog = "grep" /\ SysRead(dir, 32).ret > 0
    <3>1. PICK e \in Range(Names) : SysRead(dir, 32) = [ret |-> 1, data |-> <<e>>]
      BY <1>0, <2>2, <2>5, EntryRead
    <3>2. SysRead(dir, 32).ret = 1 /\ SysRead(dir, 32).data = <<e>>
      BY <3>1
    <3>3. /\ SysReadData(dir, 32) /\ out' = out /\ name' = <<e>>[1]
          /\ at' = IF <<e>>[1] = "dir" THEN "next" ELSE "open"
      BY <1>2, <2>5, <3>2 DEF NextEntry
    <3>4. name' = e /\ at' \in {"next", "open"}
      BY <3>3
    <3>5. dir \in Fd /\ mine[cur][dir] = "dir" /\ mine[cur][dir] \notin {None, "rtc"} /\ FollowInv
      BY <1>0, <2>2, <2>5, Settings DEF Opens, None, ProgInv
    <3>6. PICK g \in Seq(Data) : g = got[cur][dir]
      BY <3>5, CurType DEF FollowInv, OwnInv
    <3>7. PICK n \in Nat : n = Len(g) /\ Entries = n
      BY <3>6, LenProperties DEF Entries
    <3>8. 32 \in Nat \ {0}
      OBVIOUS
    <3>9. cur' = cur /\ got'[cur][dir] = g \o SubSeq(SysRead(dir, 32).data, 1, SysRead(dir, 32).ret)
      BY <1>0, <3>3, <3>5, <3>6, <3>8, ReadCall
    <3>10. Entries' = n + 1
      <4>1. 1 \in Nat
        OBVIOUS
      <4>2. Len(g \o SubSeq(<<e>>, 1, 1)) = Len(g) + 1
        BY <4>1, GotLonger
      <4>3. QED
        BY <2>1, <3>2, <3>7, <3>9, <4>2 DEF Entries
    <3>11. e = Names[n + 1]
      <4>1. MayRead(dir, 32)
        BY <3>3 DEF SysReadData
      <4>2. \A b \in 1..SysRead(dir, 32).ret :
              SysRead(dir, 32).data[b] = Whole("dir")[Len(g) + b]
        BY <3>5, <3>6, <3>8, <4>1, ReadsRight
      <4>3. <<e>>[1] = Whole("dir")[n + 1]
        BY <3>2, <3>7, <4>2
      <4>4. Whole("dir") = Names
        BY Settings, WholeOf
      <4>5. QED
        BY <4>3, <4>4
    <3>12. From(out, n)
      BY <2>1, <2>5, <3>7 DEF FindInv, OutAt
    <3>13. From(out, n + 1) /\ n + 1 > 0 /\ n + 1 - 1 = n
      BY <3>12 DEF From
    <3>14. /\ at' = "next" => From(out, Entries')
           /\ at' = "open" => Entries' > 0 /\ name' = Names[Entries'] /\ From(out, Entries' - 1)
      BY <3>4, <3>10, <3>11, <3>12, <3>13
    <3>15. QED
      BY <2>1, <2>5, <3>3, <3>4, <3>14, FindNothing
  <2>6. QED
    BY <2>2, <2>3, <2>4, <2>5
<1>3. QED
  BY <1>1, <1>2

(* It closes a file.                                                        *)
LEMMA FindClose ==
  ASSUME FindInv, GrepInv', GrepCloses
  PROVE  FindInv'
<1>0. ProgInv
  BY DEF FindInv, GrepInv
<1>1. /\ prog = "grep" /\ at = "close" /\ SysClose(file) /\ at' = "next"
      /\ UNCHANGED <<prog, dir, out>>
  BY DEF GrepCloses, Runs, inGrep
<1>2. file \in Fd /\ dir \in Fd /\ file # dir
  BY <1>0, <1>1 DEF ProgInv, Starts, CatAt, LsAt, GrepAt, TestsAt, Opens
<1>3. cur' = cur /\ got'[cur][dir] = got[cur][dir]
  BY <1>0, <1>1, <1>2, GotElse
<1>4. Entries' = Entries
  BY <1>1, <1>3 DEF Entries
<1>5. From(out, Entries)
  BY <1>1 DEF FindInv, OutAt
<1>6. QED
  BY <1>1, <1>4, <1>5, FindNothing

(* No name is in the directory twice.                                       *)
Distinct == \A b, c \in 1..Len(Names) : Names[b] = Names[c] => b = c

LEMMA FromOn ==
  ASSUME NEW x, NEW o, NEW n \in Nat, n > 0, From(o, n), Written(x, o, Names[n])
  PROVE  From(x, n)
<1>1. ASSUME NEW k \in 1..Len(x)
      PROVE  \E b \in 1..n : x[k][1] = Names[b]
  <2>1. CASE x[k][1] = Names[n]
    <3>1. n \in 1..n
      OBVIOUS
    <3>2. QED
      BY <2>1, <3>1
  <2>2. CASE \E b \in 1..Len(o) : x[k][1] = o[b][1]
    BY <2>2 DEF From
  <2>3. QED
    BY <2>1, <2>2 DEF Written
<1>2. QED
  BY <1>1 DEF From

(* It opens one: nothing has been written of it yet.                        *)
LEMMA FindBegins ==
  ASSUME Distinct, FindInv, GrepInv', NEW fd \in Fd, GrepOpens(fd)
  PROVE  FindInv'
<1>0. ProgInv
  BY DEF FindInv, GrepInv
<1>1. /\ prog = "grep" /\ at = "open" /\ SysOpen(name, fd) /\ file' = fd /\ last' = 0
      /\ seen' = <<>> /\ at' = "read" /\ UNCHANGED <<text, name, prog, arg, dir, out>>
      /\ junk' \in {NUL, LF} /\ data' = [b \in 1..BUFSIZE+1 |-> junk']
  BY DEF GrepOpens, Runs
<1>2. name \in Range(Names) /\ Opens(dir, "dir")
  BY <1>0, <1>1 DEF ProgInv, Starts, CatAt, LsAt, GrepAt, TestsAt
<1>3. got'[cur'][file'] = <<>> /\ mine[cur][fd] = None /\ cur' = cur
  BY <1>0, <1>1, <1>2, OpenCall
<1>4. Entries' = Entries
  <2>1. dir # fd /\ dir \in Fd
    BY <1>2, <1>3, Settings DEF Opens, None
  <2>2. got'[cur][dir] = got[cur][dir]
    BY <1>0, <1>1, <2>1, GotElse
  <2>3. QED
    BY <1>1, <1>3, <2>2 DEF Entries
<1>5. PICK n : n = Entries
  OBVIOUS
<1>6. n \in Nat /\ n <= Len(Names)
  <2>1. PICK g \in Seq(Data) : g = got[cur][dir]
    BY <1>0, <1>2, CurType DEF ProgInv, FollowInv, OwnInv, Opens
  <2>2. Follows(D(dir), "dir", g)
    BY <1>0, <1>2, <2>1, CurType DEF ProgInv, FollowInv, OwnInv, Opens, D
  <2>3. Len(g) <= Len(Whole("dir")) /\ Whole("dir") = Names
    BY <2>2, Settings, WholeOf DEF Follows, None
  <2>4. QED
    BY <1>5, <2>1, <2>3, LenProperties DEF Entries
<1>7. n > 0 /\ name = Names[n] /\ From(out, n - 1) /\ out \in Seq(Range(out))
  BY <1>1, <1>5 DEF FindInv, OutAt
<1>8. From(out, n)
  <2>1. \A b \in 1..n-1 : b \in 1..n
    BY <1>6
  <2>2. QED
    BY <1>7, <2>1 DEF From
<1>9. OutAt'
  BY <1>1, <1>4, <1>5, <1>7, <1>8 DEF OutAt
<1>10. FoundIn(out, name) = <<>>
  <2>1. ASSUME NEW p \in 1..Len(out)
        PROVE  out[p][1] # name
    <3>1. PICK b \in 1..n-1 : out[p][1] = Names[b]
      BY <1>7 DEF From
    <3>2. b \in 1..Len(Names) /\ n \in 1..Len(Names) /\ b # n
      BY <1>6, <1>7, LenProperties, FilesAssumption
    <3>3. QED
      BY <1>7, <3>1, <3>2 DEF Distinct
  <2>2. QED
    BY <1>7, <2>1, FoundNone
<1>11. Full(data', junk')
  <2>1. PICK B \in Nat : B = BUFSIZE + 1 /\ B >= 1
    BY Settings
  <2>2. data' \in [1..B -> {junk'}] /\ data'[B] = junk'
    BY <1>1, <2>1
  <2>3. data' \in Seq({junk'}) /\ Len(data') = B
    BY <2>1, <2>2, Tabled
  <2>4. data' \in Seq(Range(data'))
    BY <2>3, OwnRange
  <2>5. QED
    BY <2>1, <2>2, <2>3, <2>4 DEF Full
<1>12. SUFFICES ASSUME InFile'
                PROVE  GrepFinds'
  BY <1>9 DEF FindInv
<1>13. PICK t, S : t = text'[name'] /\ S = Range(t)
  OBVIOUS
<1>14. t \in Seq(S)
  <2>1. name \in Regular /\ GrepInv
    BY <1>1, <1>12 DEF InFile, FindInv
  <2>2. QED
    BY <1>1, <1>13, <2>1, TextIs
<1>15. SubSeq(data', 1, last') = <<>>
  <2>1. PICK z : z = SubSeq(data', 1, 0)
    OBVIOUS
  <2>2. Len(z) = 0 /\ z \in Seq({data'[b] : b \in 1..0})
    BY <2>1, PartOf DEF Part
  <2>3. z = <<>>
    BY <2>2, EmptySeq
  <2>4. QED
    BY <1>1, <2>1, <2>3
<1>16. Hits(<<>>) = <<>>
  BY HitsNone
<1>17. InStep(<<>>, <<>>, t, 0)
  <2>1. PICK Str : Str = Seq(S)
    OBVIOUS
  <2>2. <<>> \in Seq(Str) /\ <<>> \in Str /\ Append(<<>>, <<>>) = <<<<>>>>
    BY <2>1, EmptySeq
  <2>3. Front(<<<<>>>>) = <<>> /\ Last(<<<<>>>>) = <<>>
    BY <2>2, AppendLast
  <2>4. SubSeq(t, 1, 0) = <<>>
    BY <1>14, SubSeqEmpty
  <2>5. LinesOf(SubSeq(t, 1, 0)) = <<<<>>>>
    BY <2>4, LinesNone
  <2>6. QED
    BY <2>3, <2>5 DEF InStep
<1>18. Len(got'[cur'][file']) = 0
  BY <1>3
<1>19. Named(name, <<>>) = <<>>
  <2>1. <<>> \in Seq({}) /\ Len(<<>>) = 0
    BY EmptySeq
  <2>2. Named(name, <<>>) \in Seq({name} \X {}) /\ Marks(Named(name, <<>>), name, <<>>)
    BY <2>1, NamedIs
  <2>3. QED
    BY <2>1, <2>2, EmptySeq DEF Marks
<1>20. FoundIn(out', name') = Named(name', Hits(seen'))
  BY <1>1, <1>10, <1>16, <1>19
<1>21. InStep(seen', SubSeq(data', 1, last'), t, 0)
  BY <1>1, <1>15, <1>17
<1>22. QED
  BY <1>1, <1>11, <1>13, <1>18, <1>20, <1>21, FindsNow

(* Whatever is searched, what is written bears the name of the file.        *)
LEMMA SearchWrites ==
  ASSUME NEW read, NEW ret \in Int, last \in Int, Searched(read, ret), out \in Seq(Range(out))
  PROVE  /\ out' \in Seq(Range(out')) /\ Written(out', out, name)
         /\ at' = IF ret = 0 THEN "close" ELSE "read"
<1>1. PICK d, r : /\ r = Lines(d, last + ret, ret # 0) /\ out' = out \o Named(name, Hits(r.found))
                  /\ at' = IF ret = 0 THEN "close" ELSE "read"
  BY DEF Searched
<1>2. PICK n \in Int : n = last + ret
  OBVIOUS
<1>3. PICK more : more = (ret # 0)
  OBVIOUS
<1>4. PICK C : C = {d[b] : b \in 1..n}
  OBVIOUS
<1>5. SubSeq(d, 1, n) \in Seq(C)
  BY <1>4, PartOf DEF Part
<1>6. PICK p \in Seq(C) : p = SubSeq(d, 1, n)
  BY <1>5
<1>7. Splits(Lines(d, n, more), C, p)
  BY <1>6, LinesSplit
<1>8. PICK f \in Seq(Seq(C)) : f = r.found
  BY <1>1, <1>2, <1>3, <1>7 DEF Splits
<1>9. PICK h \in Seq(Seq(C)) : h = Hits(f)
  BY HitsAre
<1>10. PICK o : o = out /\ o \in Seq(Range(o))
  OBVIOUS
<1>11. /\ o \o Named(name, h) \in Seq(Range(o \o Named(name, h)))
       /\ Written(o \o Named(name, h), o, name)
  BY <1>10, WritesOn
<1>12. out' = o \o Named(name, h)
  BY <1>1, <1>8, <1>9, <1>10
<1>13. QED
  BY <1>1, <1>10, <1>11, <1>12

(* Where grep is in the directory while it searches a file.                 *)
LEMMA StaysInDir ==
  ASSUME FindInv, prog = "grep", at = "read", Entries' = Entries, at' \in {"read", "close"},
         name' = name, out' \in Seq(Range(out')), Written(out', out, name)
  PROVE  OutAt'
<1>0. ProgInv
  BY DEF FindInv, GrepInv
<1>1. Opens(dir, "dir")
  BY <1>0 DEF ProgInv, Starts, CatAt, LsAt, GrepAt, TestsAt
<1>2. PICK g \in Seq(Data) : g = got[cur][dir]
  BY <1>0, <1>1, CurType DEF ProgInv, FollowInv, OwnInv, Opens
<1>3. Entries \in Nat
  BY <1>2, LenProperties DEF Entries
<1>4. PICK m, o, x : /\ m \in Nat /\ m = Entries /\ o = out /\ x = out'
                     /\ m > 0 /\ name = Names[m] /\ From(o, m)
  BY <1>3 DEF FindInv, OutAt
<1>5. Written(x, o, Names[m])
  BY <1>4
<1>6. From(x, m)
  BY <1>4, <1>5, FromOn
<1>7. QED
  BY <1>4, <1>6 DEF OutAt

(* The clock, in which it finds nothing, has answered.                      *)
LEMMA FindTold ==
  ASSUME FindInv, GrepInv', GrepTold
  PROVE  FindInv'
<1>0. ProgInv
  BY DEF FindInv, GrepInv
<1>1. /\ prog = "grep" /\ waiting # 0 /\ Searched(<<>>, 0) /\ UNCHANGED <<got, proc_cnt>>
      /\ UNCHANGED <<prog, name, dir>>
  BY DEF GrepTold, RtcReadReturn
<1>2. at = "read" /\ waiting = file /\ mine[cur][file] = "rtc"
  BY <1>0, <1>1 DEF ProgInv, FollowInv
<1>3. name = "rtc" /\ last \in 0..BUFSIZE-1
  BY <1>0, <1>1, <1>2 DEF ProgInv, Starts, CatAt, LsAt, GrepAt, TestsAt, Opens
<1>4. ~ InFile'
  BY <1>1, <1>3, Constants DEF InFile
<1>5. last \in Int /\ 0 \in Int
  BY <1>3, Settings
<1>6. out \in Seq(Range(out))
  BY <1>1 DEF FindInv, OutAt
<1>7. /\ out' \in Seq(Range(out')) /\ Written(out', out, name)
      /\ at' = IF 0 = 0 THEN "close" ELSE "read"
  BY <1>1, <1>5, <1>6, SearchWrites
<1>8. Entries' = Entries
  BY <1>1 DEF Entries, cur
<1>9. OutAt'
  BY <1>1, <1>2, <1>7, <1>8, StaysInDir
<1>10. QED
  BY <1>4, <1>9 DEF FindInv

(* It reads on.                                                             *)
LEMMA FindGoesOn ==
  ASSUME FindInv, GrepInv', ProgInv', GrepReads
  PROVE  FindInv'
<1>1. /\ prog = "grep" /\ at = "read" /\ waiting = 0 /\ D(file).ops # "rtc"
      /\ UNCHANGED <<text, prog, arg, file, dir, name, junk>>
  BY DEF GrepReads, Runs
<1>2. GrepInv /\ ProgInv /\ FollowInv
  BY DEF FindInv, GrepInv, ProgInv
<1>3. PICK e \in Range(Names) : e = name
  BY <1>1, <1>2 DEF ProgInv, Starts, CatAt, LsAt, GrepAt, TestsAt
<1>4. /\ file \in Fd /\ mine[cur][file] = e /\ dir \in Fd /\ file # dir
      /\ last \in 0..BUFSIZE-1
  BY <1>1, <1>2, <1>3 DEF ProgInv, Starts, CatAt, LsAt, GrepAt, TestsAt, Opens
<1>5. mine[cur][file] \notin {None, "rtc"}
  BY <1>1, <1>2, <1>4, NotClock
<1>6. PICK n \in Nat \ {0} : n = BUFSIZE - last
  BY <1>4, Settings
<1>7. PICK r : r = SysRead(file, n)
  OBVIOUS
<1>8. /\ r.ret > 0 => SysReadData(file, n)
      /\ ~ (r.ret > 0) => UNCHANGED vars
      /\ r.ret # -1 => Searched(r.data, r.ret)
  BY <1>6, <1>7 DEF GrepReads
<1>9. PICK g \in Seq(Data), k \in Nat : g = got[cur][file] /\ k = Len(g)
  BY <1>2, <1>4, CurType, LenProperties DEF FollowInv, OwnInv
<1>10. PICK ret \in Nat : /\ ret = r.ret /\ ret <= n /\ cur' = cur /\ Entries' = Entries
                          /\ ret > 0 => SysReadData(file, n)
                          /\ ret = 0 => got' = got /\ k = Len(Whole(e))
                          /\ Len(got'[cur'][file']) = k + ret
  <2>1. CASE r.ret > 0
    <3>1. SysReadData(file, n)
      BY <1>8, <2>1
    <3>2. /\ r.ret \in 1..n /\ cur' = cur
          /\ got'[cur][file] = g \o SubSeq(r.data, 1, r.ret)
      BY <1>2, <1>4, <1>7, <1>9, <3>1, ReadCall
    <3>3. PICK ret \in Nat : ret = r.ret /\ ret <= n /\ ret # 0
      BY <3>2
    <3>4. Len(g \o SubSeq(r.data, 1, ret)) = Len(g) + ret
      BY GotLonger
    <3>5. Len(got'[cur'][file']) = k + ret
      BY <1>1, <1>9, <3>2, <3>3, <3>4
    <3>6. got'[cur][dir] = got[cur][dir]
      BY <1>2, <1>4, <3>1, GotElse
    <3>7. Entries' = Entries
      BY <1>1, <3>2, <3>6 DEF Entries
    <3>8. QED
      BY <3>1, <3>2, <3>3, <3>5, <3>7
  <2>2. CASE ~ (r.ret > 0)
    <3>1. r.ret = 0 /\ k = Len(Whole(e))
      BY <1>2, <1>4, <1>5, <1>7, <1>9, <2>2, ReadEnds
    <3>2. cur' = cur /\ got' = got
      BY <1>2, <1>8, <2>2, NoCall
    <3>3. Len(got'[cur'][file']) = k + 0 /\ Entries' = Entries
      BY <1>1, <1>9, <3>2 DEF Entries
    <3>4. PICK ret \in Nat : ret = 0
      OBVIOUS
    <3>5. QED
      BY <3>1, <3>2, <3>3, <3>4
  <2>3. QED
    BY <2>1, <2>2
<1>11. Searched(r.data, ret)
  BY <1>8, <1>10
<1>12. out \in Seq(Range(out))
  BY <1>1 DEF FindInv, OutAt
<1>13. /\ out' \in Seq(Range(out')) /\ Written(out', out, name)
       /\ at' = IF ret = 0 THEN "close" ELSE "read"
  <2>1. PICK read : read = r.data
    OBVIOUS
  <2>2. ret \in Int /\ last \in Int
    BY <1>4, Settings
  <2>3. QED
    BY <1>11, <1>12, <2>1, <2>2, SearchWrites
<1>14. OutAt'
  BY <1>1, <1>10, <1>13, StaysInDir
<1>15. SUFFICES ASSUME e \in Regular
                PROVE  GrepFinds'
  BY <1>1, <1>3, <1>14 DEF FindInv, InFile
<1>16. PICK t, C : t = text[e] /\ C = Range(t)
  OBVIOUS
<1>17. t \in Seq(C) /\ Len(t) = Length[e] /\ Length[e] \in Nat
  BY <1>2, <1>15, <1>16, TextIs
<1>18. /\ Len(Whole(e)) = Length[e]
       /\ \A b \in 1..Length[e] : Whole(e)[b] = <<e, b - 1>>
  BY <1>4, <1>5, <1>15, WholeOf
<1>19. InFile /\ GrepSearches /\ GrepFinds
  BY <1>1, <1>2, <1>3, <1>15 DEF InFile, GrepInv, FindInv
<1>20. Carries(seen, SubSeq(data, 1, last), C, t, k)
  BY <1>3, <1>9, <1>16, <1>19 DEF GrepSearches
<1>21. k + ret <= Length[e] /\ \A b \in 1..ret : r.data[b] = <<e, k + b - 1>>
  <2>1. CASE ret > 0
    <3>1. MayRead(file, n)
      BY <1>10, <2>1 DEF SysReadData
    <3>2. /\ k + ret <= Len(Whole(e))
          /\ \A b \in 1..ret : r.data[b] = Whole(e)[k + b]
      BY <1>2, <1>4, <1>5, <1>7, <1>9, <1>10, <3>1, ReadsRight
    <3>3. ASSUME NEW b \in 1..ret
          PROVE  r.data[b] = <<e, k + b - 1>>
      <4>1. k + b \in 1..Length[e]
        BY <1>17, <1>18, <3>2
      <4>2. Whole(e)[k + b] = <<e, k + b - 1>>
        BY <1>18, <4>1
      <4>3. QED
        BY <3>2, <4>2
    <3>4. QED
      BY <1>18, <3>2, <3>3
  <2>2. CASE ~ (ret > 0)
    <3>1. ret = 0
      BY <2>2
    <3>2. \A b \in 1..0 : r.data[b] = <<e, k + b - 1>>
      OBVIOUS
    <3>3. QED
      BY <1>10, <1>17, <1>18, <3>1, <3>2
  <2>3. QED
    BY <2>1, <2>2
<1>22. /\ Len(r.data) \in Nat /\ Len(r.data) <= n /\ ret <= Len(r.data)
       /\ Length[e] <= Block => ret = n \/ k + ret >= Length[e]
  <2>1. SysRead(file, n).ret \in 0..n
    BY <1>7, <1>10
  <2>2. QED
    BY <1>2, <1>4, <1>7, <1>9, <1>10, <1>15, <2>1, Fetched
<1>23. \A b \in 1..ret : Char(r.data[b]) = t[k + b]
  <2>1. ASSUME NEW b \in 1..ret
        PROVE  Char(r.data[b]) = t[k + b]
    <3>1. k + b - 1 + 1 = k + b
      OBVIOUS
    <3>2. r.data[b] = <<e, k + b - 1>>
      BY <1>21
    <3>3. Char(r.data[b]) = t[k + b - 1 + 1]
      BY <1>16, <3>2 DEF Char
    <3>4. QED
      BY <3>1, <3>3
  <2>2. QED
    BY <2>1
<1>24. last' < BUFSIZE
  <2>1. Carries(seen', SubSeq(data', 1, last'), C, t, k + ret)
        /\ (ret = 0 => last' = 0)
    <3>1. last \in Nat /\ k + ret <= Len(t)
      BY <1>4, <1>17, <1>21, Settings
    <3>2. QED
      BY <1>11, <1>17, <1>20, <1>22, <1>23, <3>1, SearchCarries
  <2>2. GrepAt'
    BY <1>1, <1>13 DEF ProgInv, Starts, CatAt, LsAt, GrepAt, TestsAt
  <2>3. last' \in 0..BUFSIZE-1
    BY <1>13, <2>2 DEF GrepAt
  <2>4. QED
    BY <2>3, Settings
<1>25. PICK full : full = (Length[e] <= Block)
  OBVIOUS
<1>26. /\ Full(data', junk)
       /\ FoundIn(out', name) = Named(name, Hits(seen'))
       /\ InStep(seen, SubSeq(data, 1, last), t, k) /\ Unbroken(t, k, ret)
            => InStep(seen', SubSeq(data', 1, last'), t, k + ret)
  <2>1. PICK read : read = r.data
    OBVIOUS
  <2>2. /\ last \in Nat /\ k + ret <= Len(t) /\ last + Len(read) <= BUFSIZE
        /\ Len(read) \in Nat /\ ret <= Len(read) /\ (ret = 0 => k = Len(t))
    BY <1>4, <1>6, <1>10, <1>17, <1>18, <1>21, <1>22, <2>1, Settings
  <2>3. \A b \in 1..ret : Char(read[b]) = t[k + b]
    BY <1>23, <2>1
  <2>4. Searched(read, ret)
    BY <1>11, <2>1
  <2>5. Full(data, junk) /\ FoundIn(out, name) = Named(name, Hits(seen))
    BY <1>19 DEF GrepFinds
  <2>6. QED
    BY <1>12, <1>17, <1>20, <1>24, <2>2, <2>3, <2>4, <2>5, SearchFinds
<1>27. ASSUME Length[e] <= Block, junk # LF, ~ Holding(LinesOf(t), BUFSIZE + 1)
       PROVE  InStep(seen', SubSeq(data', 1, last'), t, k + ret)
  <2>1. Tame
    BY <1>3, <1>16, <1>27 DEF Tame
  <2>2. InStep(seen, SubSeq(data, 1, last), t, k)
    BY <1>3, <1>9, <1>16, <1>19, <2>1 DEF GrepFinds
  <2>3. k + ret < Len(t) => last + ret = BUFSIZE
    <3>1. ret = n \/ k + ret >= Len(t)
      BY <1>17, <1>22, <1>27
    <3>2. BUFSIZE \in Nat /\ last \in Nat /\ last + n = BUFSIZE
      BY <1>4, <1>6, Settings
    <3>3. QED
      BY <1>17, <3>1, <3>2
  <2>4. Unbroken(t, k, ret)
    BY <1>27, <2>3 DEF Unbroken
  <2>5. QED
    BY <1>26, <2>2, <2>4
<1>28. PICK m : m = k + ret
  OBVIOUS
<1>29. t = text'[name'] /\ m = Len(got'[cur'][file'])
  BY <1>1, <1>3, <1>10, <1>16, <1>28
<1>30. /\ Full(data', junk') /\ FoundIn(out', name') = Named(name', Hits(seen'))
       /\ Length[name'] <= Block /\ junk' # LF /\ ~ Holding(LinesOf(t), BUFSIZE + 1)
            => InStep(seen', SubSeq(data', 1, last'), t, m)
  BY <1>1, <1>3, <1>26, <1>27, <1>28
<1>31. QED
  BY <1>1, <1>29, <1>30, FindsNow

LEMMA FindStarts == ProgramsInit => FindInv
<1> SUFFICES ASSUME ProgramsInit
             PROVE  FindInv
  OBVIOUS
<1>1. prog = "shell"
  BY DEF ProgramsInit
<1>2. QED
  BY <1>1, GrepStarts DEF FindInv, InFile

LEMMA FindStep ==
  ASSUME Distinct
  PROVE  FindInv /\ GrepInv' /\ ProgInv' /\ [ProgramsNext]_all => FindInv'
<1> SUFFICES ASSUME FindInv, GrepInv', ProgInv', [ProgramsNext]_all
             PROVE  FindInv'
  OBVIOUS
<1>1. ASSUME prog' # "grep"
      PROVE  FindInv'
  BY <1>1 DEF FindInv, InFile
<1>2. ASSUME NEW p, Fresh(p)
      PROVE  FindInv'
  BY <1>2, FindFresh
<1>3. CASE ProgramStep \/ UserSelects
  <2>1. ASSUME NEW fd \in Fd, CatOpens(fd)
        PROVE  FindInv'
    <3>1. prog' = "cat"
      BY <2>1 DEF CatOpens, Runs
    <3>2. QED
      BY <1>1, <3>1
  <2>2. ASSUME NEW fd \in Fd, OpensDir(fd) \/ GrepOpens(fd)
        PROVE  FindInv'
    BY <2>2, FindDir, FindBegins
  <2>3. CASE NextEntry \/ GrepReads \/ GrepTold \/ GrepCloses
    BY <2>3, FindDir, FindGoesOn, FindTold, FindClose
  <2>4. CASE ReadsClock
    <3>1. /\ UNCHANGED <<text, prog, at, arg, name, data, last, junk, dir, file, out, seen>>
          /\ UNCHANGED got /\ cur' = cur
      BY <2>4 DEF ReadsClock, RtcRead, user, inGrep, cur
    <3>2. QED
      BY <3>1, FindStays
  <2>5. CASE GetArgs("cat", "open") \/ OpenFails \/ CatWrites \/ CatTold
    <3>1. prog' = "cat"
      <4>1. CASE GetArgs("cat", "open")
        BY <4>1 DEF GetArgs, Runs
      <4>2. CASE OpenFails
        BY <4>2 DEF OpenFails, Runs
      <4>3. CASE CatWrites
        BY <4>3 DEF CatWrites, Runs
      <4>4. CASE CatTold
        BY <4>4 DEF CatTold
      <4>5. QED
        BY <2>5, <4>1, <4>2, <4>3, <4>4
    <3>2. QED
      BY <1>1, <3>1
  <2>6. CASE GetArgs("grep", "opendir")
    <3>1. /\ prog = "grep" /\ prog' = prog /\ at = "start" /\ out' = out
          /\ at' \in {"opendir", "done"}
      BY <2>6 DEF GetArgs, Runs, Done
    <3>2. out = <<>>
      BY <3>1 DEF FindInv, OutAt
    <3>3. QED
      BY <3>1, <3>2, FindNothing
  <2>7. ASSUME NEW select \in 0..9, Selects(select)
        PROVE  FindInv'
    <3>1. prog' = "syserr"
      BY <2>7 DEF Selects, Runs
    <3>2. QED
      BY <1>1, <3>1
  <2>8. CASE Test \/ OpensLots \/ ClosesLots \/ TestsDone
    <3>1. prog' = "syserr"
      BY <2>8 DEF Test, OpensLots, ClosesLots, TestsDone, Runs
    <3>2. QED
      BY <1>1, <3>1
  <2>9. CASE ProgramEnds
    BY <1>2, <2>9 DEF ProgramEnds
  <2>10. QED
    BY <1>3, <2>1, <2>2, <2>3, <2>4, <2>5, <2>6, <2>7, <2>8, <2>9 DEF ProgramStep, UserSelects
<1>4. ASSUME NEW p \in Programs, NEW a \in Arguments, ShellExecutes(p, a)
      PROVE  FindInv'
  BY <1>2, <1>4 DEF ShellExecutes
<1>5. CASE ShellExits \/ ProgramKilled
  BY <1>2, <1>5 DEF ShellExits, ProgramKilled
<1>6. CASE Tick \/ (\E a \in Arguments : OtherTerminal(a)) \/ UNCHANGED all
  <2>1. UNCHANGED text /\ UNCHANGED user /\ UNCHANGED got /\ UNCHANGED proc_cnt
    BY <1>6 DEF Tick, RtcHandler, OtherTerminal, all, vars
  <2>2. /\ UNCHANGED <<text, prog, at, arg, name, data, last, junk, dir, file, out, seen>>
        /\ UNCHANGED got /\ cur' = cur
    BY <2>1 DEF user, inGrep, cur
  <2>3. QED
    BY <2>2, FindStays
<1>7. QED
  BY <1>3, <1>4, <1>5, <1>6 DEF ProgramsNext

(* ece391grep.c: of a file of one block with lines that fit into its buffer *)
(* grep writes exactly the lines that hold the pattern, each once and in    *)
(* order, wherever the buffer cut them; for every text, pattern and size of *)
(* buffer, if no name is in the directory twice.                            *)
THEOREM FindsEveryLine ==
  ASSUME Distinct
  PROVE  ProgramsSpec => []FindsLines
<1>1. FindInv => FindsLines
  <2> SUFFICES ASSUME FindInv, at = "close", name \in Regular, Length[name] <= Block, junk # LF,
                      \A line \in Range(LinesOf(text[name])) : Len(line) <= BUFSIZE
               PROVE  FoundIn(out, name) = Named(name, Hits(LinesOf(text[name])))
    BY DEF FindsLines, InText, FoundIn
  <2>1. prog = "grep" /\ GrepInv
    BY DEF FindInv, GrepInv, ProgInv, Starts, CatAt, LsAt, GrepAt, TestsAt
  <2>2. InFile /\ GrepSearches /\ GrepFinds
    BY <2>1 DEF InFile, GrepInv, FindInv
  <2>3. PICK t, S : t = text[name] /\ S = Range(t)
    OBVIOUS
  <2>4. t \in Seq(S) /\ Len(t) = Length[name]
    BY <2>1, <2>3, TextIs
  <2>5. PICK Str : Str = Seq(S)
    OBVIOUS
  <2>6. PICK ls \in Seq(Str) : ls = LinesOf(t) /\ ls # <<>>
    BY <2>4, <2>5, LinesKnown
  <2>7. ~ Holding(ls, BUFSIZE + 1)
    <3>1. \A j \in 1..Len(ls) : ls[j] \in Range(ls)
      BY <2>6, LenProperties DEF Range
    <3>2. ASSUME NEW j \in 1..Len(ls), Len(ls[j]) \in Nat, Len(ls[j]) >= BUFSIZE + 1
          PROVE  FALSE
      <4>1. Len(ls[j]) <= BUFSIZE
        BY <2>3, <2>6, <3>1
      <4>2. QED
        BY <3>2, <4>1, Settings
    <3>3. QED
      BY <3>2 DEF Holding
  <2>8. Tame
    BY <2>3, <2>6, <2>7 DEF Tame
  <2>9. InStep(seen, SubSeq(data, 1, 0), t, Len(t))
    BY <2>2, <2>3, <2>4, <2>8 DEF GrepFinds, GrepSearches
  <2>10. SubSeq(data, 1, 0) = <<>>
    <3>1. PICK z : z = SubSeq(data, 1, 0)
      OBVIOUS
    <3>2. Len(z) = 0 /\ z \in Seq({data[b] : b \in 1..0})
      BY <3>1, PartOf DEF Part
    <3>3. QED
      BY <3>1, <3>2, EmptySeq
  <2>11. SubSeq(t, 1, Len(t)) = t
    BY <2>4, SubSeqFull
  <2>12. Hits(seen) = Hits(ls)
    <3>1. CASE Hits(seen) = Hits(Front(ls)) /\ Last(ls) = <<>>
      <4>1. PICK f \in Seq(Str), l \in Str : f = Front(ls) /\ l = Last(ls) /\ ls = Append(f, l)
        BY <2>6, FrontLast
      <4>2. Hits(Append(f, <<>>)) = Hits(f)
        BY <2>5, HitsAppend
      <4>3. QED
        BY <3>1, <4>1, <4>2
    <3>2. PICK v : v = SubSeq(t, 1, Len(t)) /\ LinesOf(v) = ls
      BY <2>6, <2>11
    <3>3. PICK z : z = SubSeq(data, 1, 0) /\ z = <<>>
      BY <2>10
    <3>4. InStep(seen, z, t, Len(t))
      BY <2>9, <3>3
    <3>5. \/ Hits(seen) = Hits(Front(LinesOf(v))) /\ z = Last(LinesOf(v))
          \/ Hits(seen) = Hits(LinesOf(v))
      BY <3>2, <3>4, Zenon DEF InStep
    <3>6. QED
      BY <3>1, <3>2, <3>3, <3>5
  <2>13. QED
    BY <2>2, <2>3, <2>6, <2>12 DEF GrepFinds
<1>2. QED
  BY <1>1, FindStarts, FindStep, GrepStarts, GrepStep, ProgAlways, PTL DEF ProgramsSpec
===============================================================================
