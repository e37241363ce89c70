------------------------------ MODULE MemoryFace ------------------------------
(***************************************************************************)
(* What a credit face promises its issuer (docs/HARDWARE_ARCHITECTURE.md   *)
(* section 1b; the slave every bench of the repository mirrors in python): *)
(* a flat memory in which every beat takes effect in request order, and    *)
(* one response pulse per beat, strictly in request order, a read's with   *)
(* the value the memory had when the beat was requested.                   *)
(*                                                                         *)
(* A step is a clock edge.  The issuer pulses at most one beat, and only   *)
(* with a credit in hand; the face puts at most one response on its wires, *)
(* at the earliest in the cycle after the request.                         *)
(***************************************************************************)
EXTENDS Integers, Sequences

CONSTANTS
  Addrs,    \* word addresses
  Values,   \* word values
  Initial,  \* the value of every word at power-up
  CRED,     \* credits of the face
  Ack,      \* a write's response, which carries no data
  NoAnswer, \* no response on the wires
  NoBeat    \* no request on the wires

VARIABLES
  mem,      \* the flat memory, every requested beat applied
  owed,     \* responses owed, oldest first
  answer    \* the response on the wires, or NoAnswer

faceVars == <<mem, owed, answer>>

Read(a) == [we |-> FALSE, addr |-> a]
Write(a, d) == [we |-> TRUE, addr |-> a, data |-> d]
Beats == {Read(a) : a \in Addrs} \union {Write(a, d) : a \in Addrs, d \in Values}

\* One pulse on the wires still holds its credit until the next edge.
Outstanding == Len(owed) + (IF answer = NoAnswer THEN 0 ELSE 1)

MayRequest == Outstanding < CRED

Apply(m, b) == IF b.we THEN [m EXCEPT ![b.addr] = b.data] ELSE m
Result(m, b) == IF b.we THEN Ack ELSE m[b.addr]

Edge(b, respond) ==
  LET due == IF b = NoBeat THEN owed ELSE Append(owed, Result(mem, b))
  IN  /\ b # NoBeat => MayRequest
      /\ respond => due # <<>>
      /\ mem' = IF b = NoBeat THEN mem ELSE Apply(mem, b)
      /\ answer' = IF respond THEN Head(due) ELSE NoAnswer
      /\ owed' = IF respond THEN Tail(due) ELSE due

Init ==
  /\ mem = [a \in Addrs |-> Initial]
  /\ owed = <<>>
  /\ answer = NoAnswer

Next == \E b \in Beats \union {NoBeat}, respond \in BOOLEAN : Edge(b, respond)

Spec == Init /\ [][Next]_faceVars
===============================================================================
