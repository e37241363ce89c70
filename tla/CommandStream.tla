---------------------------- MODULE CommandStream ----------------------------
(***************************************************************************)
(* What the command socket promises its hart: GO takes a snapshot of the   *)
(* staged command, commands execute one at a time in program order, a poll *)
(* says idle only when every issued command is complete, and GO traps only *)
(* for a full queue or an operation this build lacks.                      *)
(***************************************************************************)
EXTENDS Integers, Sequences

CONSTANTS
  Commands,
  NoCommand,
  QDEPTH

VARIABLES
  executable,  \* the commands whose operation the build has
  staged,
  owed,      \* commands issued and not complete, oldest first
  finished,  \* the command that completed last
  reply      \* what the hart's last instruction saw: "none", "trap",
             \* "idle" or "busy"

vars == <<executable, staged, owed, finished, reply>>

Init ==
  /\ executable \subseteq Commands
  /\ staged \in Commands
  /\ owed = <<>>
  /\ finished = NoCommand
  /\ reply = "none"

Complete == owed # <<>> /\ finished' = Head(owed)

Stage(c) == staged' = c /\ reply' = "none"

Go == staged' = staged /\ staged \in executable /\ Len(owed) <= QDEPTH /\ reply' = "none"

Trap == staged' = staged /\ reply' = "trap" /\ (staged \in executable => Len(owed) >= QDEPTH)

Poll == staged' = staged /\ reply' \in (IF owed = <<>> THEN {"idle", "busy"} ELSE {"busy"})

\* The hart and the engines move in the same step.
Step(go, complete) ==
  LET kept == IF complete THEN Tail(owed) ELSE owed
  IN  /\ IF complete THEN Complete ELSE finished' = finished
      /\ IF go THEN Go
         ELSE Trap \/ Poll \/ (\E c \in Commands : Stage(c)) \/ (UNCHANGED <<staged, reply>>)
      /\ UNCHANGED executable
      /\ owed' = IF go THEN Append(kept, staged) ELSE kept

Next == \E go, complete \in BOOLEAN : Step(go, complete)

Spec == Init /\ [][Next]_vars
=============================================================================
