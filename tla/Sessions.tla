------------------------------ MODULE Sessions ------------------------------
(***************************************************************************)
(* What the kernel promises its user about terminals and programs: every   *)
(* terminal is a stack of programs, one terminal is on the screen, a       *)
(* program is started on top of the stack on the screen under a process    *)
(* number no running program has, and the program that ends is the one on  *)
(* top of that stack.  Processes.tla is the kernel that should do this.    *)
(***************************************************************************)
EXTENDS Naturals, Sequences, SequencesExt

CONSTANTS Term,   (* the terminals       *)
          Pid     (* the process numbers *)

VARIABLES stack,  (* the running programs of each terminal, oldest first *)
          screen  (* the terminal on the screen                          *)

vars == <<stack, screen>>

Running == UNION {ToSet(stack[t]) : t \in Term}

Init == /\ stack = [t \in Term |-> <<>>]
        /\ screen \in Term

(* A program starts in terminal t, which is or comes on the screen. *)
Start(t) == \E p \in Pid \ Running :
              /\ stack' = [stack EXCEPT ![t] = Append(@, p)]
              /\ screen' = t

(* The first program of a terminal starts, whichever terminal is on the screen. *)
Open(t) == stack[t] = <<>> /\ Start(t)

Execute == Start(screen)

(* The program in front of the user ends. *)
Halt == /\ stack[screen] # <<>>
        /\ stack' = [stack EXCEPT ![screen] = Front(@)]
        /\ UNCHANGED screen

Switch(t) == screen' = t /\ UNCHANGED stack

Next == \/ Execute
        \/ Halt
        \/ \E t \in Term : Open(t) \/ Switch(t)

Spec == Init /\ [][Next]_vars
=============================================================================
