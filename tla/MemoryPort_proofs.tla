-------------------------- MODULE MemoryPort_proofs --------------------------
(***************************************************************************)
(* Two parts that spend credits on a memory port, for every value of their *)
(* constants.  The arbiter: its FIFOs never overrun and every answer       *)
(* reaches its owner in order.  The cluster's face: no beat leaves without *)
(* a credit, nothing ends with a beat unanswered, and an image is read to  *)
(* its last word and no further.                                           *)
(***************************************************************************)
EXTENDS PortArbiter, SCluster, RingTheorems

(***************************************************************************)
(* The arbiter                                                             *)
(***************************************************************************)

-----------------------------------------------------------------------------
(* Sequences used as FIFOs *)

\* A FIFO after a pop.
LEMMA TailFacts ==
  ASSUME NEW S, NEW s \in Seq(S), s # <<>>
  PROVE  /\ Len(s) \in Nat /\ Len(s) > 0
         /\ Head(s) = s[1] /\ s[1] \in S
         /\ Tail(s) \in Seq(S)
         /\ Len(Tail(s)) = Len(s) - 1
         /\ \A i \in 1 .. Len(s) - 1 : Tail(s)[i] = s[i + 1]
  OBVIOUS

\* A FIFO after a push.
LEMMA AppendFacts ==
  ASSUME NEW S, NEW s \in Seq(S), NEW x \in S
  PROVE  /\ Append(s, x) \in Seq(S)
         /\ Len(Append(s, x)) = Len(s) + 1
         /\ Len(s) \in Nat
         /\ \A i \in 1 .. Len(s) : Append(s, x)[i] = s[i]
         /\ Append(s, x)[Len(s) + 1] = x
         /\ Append(s, x) # <<>>
  OBVIOUS

-----------------------------------------------------------------------------
(* Windows of a flight: what a pop and a push do to the beats of one port *)

\* A beat of another port leaves a port's window alone.
LEMMA PushOther ==
  ASSUME NEW f \in Seq(Beat), NEW x \in Beat, NEW p, x.port # p,
         NEW lo \in Nat, NEW hi \in Nat, Window(f, p, lo, hi)
  PROVE  Window(Append(f, x), p, lo, hi)
<1>1. PositionsOf(Append(f, x), p) = PositionsOf(f, p)
  BY AppendFacts DEF PositionsOf
<1>2. \A i \in PositionsOf(f, p) : Append(f, x)[i] = f[i]
  BY AppendFacts DEF PositionsOf
<1>. QED BY <1>1, <1>2 DEF Window

\* A port's own next beat widens its window by one.
LEMMA PushOwn ==
  ASSUME NEW f \in Seq(Beat), NEW x \in Beat, NEW p, x.port = p,
         NEW lo \in Nat, NEW hi \in Nat, x.n = hi, lo <= hi,
         Window(f, p, lo, hi)
  PROVE  Window(Append(f, x), p, lo, hi + 1)
<1>1. PICK h \in Seq(Beat), last \in Nat :
         /\ h = Append(f, x)
         /\ PositionsOf(h, p) = PositionsOf(f, p) \union {last}
         /\ \A i \in PositionsOf(f, p) : h[i] = f[i] /\ i \in Int /\ i < last
         /\ h[last].n = hi
  <2>1. /\ Append(f, x) \in Seq(Beat)
        /\ Len(f) + 1 \in Nat
        /\ PositionsOf(Append(f, x), p) = PositionsOf(f, p) \union {Len(f) + 1}
        /\ \A i \in PositionsOf(f, p) :
             Append(f, x)[i] = f[i] /\ i \in Int /\ i < Len(f) + 1
        /\ Append(f, x)[Len(f) + 1].n = hi
    BY AppendFacts DEF PositionsOf
  <2>. QED BY <2>1
<1>2. \A i \in PositionsOf(f, p) : f[i].n \in lo .. hi - 1
  BY DEF Window
<1>3. \A i \in PositionsOf(f, p) : f[i].n \in Int /\ f[i].n < hi
  BY <1>2
<1>4. ASSUME NEW i \in PositionsOf(h, p), NEW j \in PositionsOf(h, p), i < j
      PROVE  h[i].n < h[j].n
  <2>1. i \in PositionsOf(f, p)
    BY <1>1, <1>4
  <2>2. CASE j = last
    BY <1>1, <1>3, <2>1, <2>2
  <2>3. CASE j \in PositionsOf(f, p)
    BY <1>1, <1>4, <2>1, <2>3 DEF Window
  <2>. QED BY <1>1, <2>2, <2>3
<1>5. ASSUME NEW i \in PositionsOf(h, p)
      PROVE  h[i].n \in lo .. (hi + 1) - 1
  <2>0. i = last \/ i \in PositionsOf(f, p)
    BY <1>1
  <2>1. hi \in lo .. (hi + 1) - 1
    OBVIOUS
  <2>2. CASE i = last
    BY <1>1, <2>1, <2>2, Zenon
  <2>3. CASE i \in PositionsOf(f, p)
    <3>1. h[i].n = f[i].n
      BY <1>1, <2>3
    <3>2. f[i].n \in lo .. hi - 1
      BY <1>2, <2>3
    <3>. QED BY <3>1, <3>2
  <2>. QED BY <2>0, <2>2, <2>3
<1>6. ASSUME NEW n \in lo .. (hi + 1) - 1
      PROVE  \E i \in PositionsOf(h, p) : h[i].n = n
  <2>1. CASE n = hi
    BY <1>1, <2>1
  <2>2. CASE n \in lo .. hi - 1
    <3>1. PICK i \in PositionsOf(f, p) : f[i].n = n
      BY <2>2 DEF Window
    <3>. QED BY <1>1, <3>1
  <2>. QED BY <2>1, <2>2
<1>7. Window(h, p, lo, hi + 1)
  BY <1>4, <1>5, <1>6 DEF Window
<1>. QED BY <1>1, <1>7

\* The positions of the shorter flight are those of the longer one, less one.
LEMMA PopPositions ==
  ASSUME NEW f \in Seq(Beat), f # <<>>, NEW p
  PROVE  \E h \in Seq(Beat) :
           /\ h = Tail(f)
           /\ \A i \in PositionsOf(h, p) :
                /\ i \in Nat /\ i >= 1
                /\ i + 1 \in PositionsOf(f, p)
                /\ h[i] = f[i + 1]
           /\ \A i \in PositionsOf(f, p) :
                /\ i \in Nat /\ i >= 1
                /\ i # 1 => i - 1 \in PositionsOf(h, p) /\ h[i - 1] = f[i]
           /\ Head(f).port = p <=> 1 \in PositionsOf(f, p)
           /\ Head(f) = f[1]
<1>1. /\ Tail(f) \in Seq(Beat)
      /\ \A i \in PositionsOf(Tail(f), p) :
           /\ i \in Nat /\ i >= 1
           /\ i + 1 \in PositionsOf(f, p)
           /\ Tail(f)[i] = f[i + 1]
      /\ Head(f).port = p <=> 1 \in PositionsOf(f, p)
      /\ Head(f) = f[1]
  BY TailFacts DEF PositionsOf
<1>2. ASSUME NEW i \in PositionsOf(f, p)
      PROVE  /\ i \in Nat /\ i >= 1
             /\ i # 1 => i - 1 \in PositionsOf(Tail(f), p) /\ Tail(f)[i - 1] = f[i]
  <2>1. i \in 1 .. Len(f) /\ f[i].port = p /\ Len(f) \in Nat
    BY TailFacts DEF PositionsOf
  <2>2. ASSUME i # 1
        PROVE  i - 1 \in PositionsOf(Tail(f), p) /\ Tail(f)[i - 1] = f[i]
    <3>1. i - 1 \in 1 .. Len(f) - 1 /\ (i - 1) + 1 = i
      BY <2>1, <2>2
    <3>2. Tail(f)[i - 1] = f[i] /\ Len(Tail(f)) = Len(f) - 1
      BY <3>1, TailFacts
    <3>. QED BY <2>1, <3>1, <3>2 DEF PositionsOf
  <2>. QED BY <2>1, <2>2
<1>. QED BY <1>1, <1>2

\* Answering another port's beat leaves a window alone.
LEMMA PopOther ==
  ASSUME NEW f \in Seq(Beat), f # <<>>, NEW p, Head(f).port # p,
         NEW lo \in Nat, NEW hi \in Nat, Window(f, p, lo, hi)
  PROVE  Window(Tail(f), p, lo, hi)
<1>0. PICK h \in Seq(Beat) :
           /\ h = Tail(f)
           /\ \A i \in PositionsOf(h, p) :
                /\ i \in Nat /\ i >= 1
                /\ i + 1 \in PositionsOf(f, p)
                /\ h[i] = f[i + 1]
           /\ \A i \in PositionsOf(f, p) :
                /\ i \in Nat /\ i >= 1
                /\ i # 1 => i - 1 \in PositionsOf(h, p) /\ h[i - 1] = f[i]
           /\ 1 \notin PositionsOf(f, p)
  BY PopPositions
<1>1. ASSUME NEW i \in PositionsOf(h, p), NEW j \in PositionsOf(h, p), i < j
      PROVE  h[i].n < h[j].n
  <2>1. i + 1 \in PositionsOf(f, p) /\ j + 1 \in PositionsOf(f, p) /\ i + 1 < j + 1
    BY <1>0, <1>1
  <2>2. f[i + 1].n < f[j + 1].n
    BY <2>1 DEF Window
  <2>. QED BY <1>0, <2>2
<1>2. ASSUME NEW i \in PositionsOf(h, p)
      PROVE  h[i].n \in lo .. hi - 1
  BY <1>0 DEF Window
<1>3. ASSUME NEW n \in lo .. hi - 1
      PROVE  \E i \in PositionsOf(h, p) : h[i].n = n
  <2>1. PICK i \in PositionsOf(f, p) : f[i].n = n
    BY DEF Window
  <2>. QED BY <1>0, <2>1
<1>4. Window(h, p, lo, hi)
  BY <1>1, <1>2, <1>3 DEF Window
<1>. QED BY <1>0, <1>4

\* Answering a port's oldest beat narrows its window from below.
LEMMA PopOwn ==
  ASSUME NEW f \in Seq(Beat), f # <<>>, NEW p, Head(f).port = p,
         NEW lo \in Nat, NEW hi \in Nat, Window(f, p, lo, hi)
  PROVE  /\ Head(f).n = lo /\ lo < hi
         /\ Window(Tail(f), p, lo + 1, hi)
<1>0. PICK h \in Seq(Beat) :
           /\ h = Tail(f)
           /\ \A i \in PositionsOf(h, p) :
                /\ i \in Nat /\ i >= 1
                /\ i + 1 \in PositionsOf(f, p)
                /\ h[i] = f[i + 1]
           /\ \A i \in PositionsOf(f, p) :
                /\ i \in Nat /\ i >= 1
                /\ i # 1 => i - 1 \in PositionsOf(h, p) /\ h[i - 1] = f[i]
           /\ 1 \in PositionsOf(f, p)
           /\ Head(f) = f[1]
  BY PopPositions
<1>1. \A i \in PositionsOf(f, p) : f[i].n \in lo .. hi - 1
  BY DEF Window
<1>2. \A i \in PositionsOf(f, p) : i # 1 => f[1].n < f[i].n
  BY <1>0 DEF Window
<1>3. f[1].n = lo /\ lo < hi
  <2>1. f[1].n \in lo .. hi - 1 /\ lo \in lo .. hi - 1
    BY <1>0, <1>1
  <2>2. PICK i \in PositionsOf(f, p) : f[i].n = lo
    BY <2>1 DEF Window
  <2>. QED BY <1>2, <2>1, <2>2
<1>4. ASSUME NEW i \in PositionsOf(h, p), NEW j \in PositionsOf(h, p), i < j
      PROVE  h[i].n < h[j].n
  <2>1. i + 1 \in PositionsOf(f, p) /\ j + 1 \in PositionsOf(f, p) /\ i + 1 < j + 1
    BY <1>0, <1>4
  <2>2. f[i + 1].n < f[j + 1].n
    BY <2>1 DEF Window
  <2>. QED BY <1>0, <2>2
<1>5. ASSUME NEW i \in PositionsOf(h, p)
      PROVE  h[i].n \in lo + 1 .. hi - 1
  <2>1. i \in Nat /\ i >= 1 /\ i + 1 \in PositionsOf(f, p) /\ h[i] = f[i + 1]
    BY <1>0
  <2>2. i + 1 # 1
    BY <2>1
  <2>. QED BY <1>1, <1>2, <1>3, <2>1, <2>2
<1>6. ASSUME NEW n \in lo + 1 .. hi - 1
      PROVE  \E i \in PositionsOf(h, p) : h[i].n = n
  <2>0. n \in lo .. hi - 1 /\ n # lo
    OBVIOUS
  <2>1. PICK i \in PositionsOf(f, p) : f[i].n = n
    BY <2>0 DEF Window
  <2>2. i # 1
    BY <1>3, <2>0, <2>1
  <2>. QED BY <1>0, <2>1, <2>2
<1>7. Window(h, p, lo + 1, hi)
  BY <1>4, <1>5, <1>6 DEF Window
<1>. QED BY <1>0, <1>3, <1>7

\* An empty window says only that the port has no beat in f.
LEMMA EmptyWindow ==
  ASSUME NEW f \in Seq(Beat), NEW p, NEW a \in Nat, NEW b \in Nat,
         Window(f, p, a, a)
  PROVE  Window(f, p, b, b)
<1>1. PositionsOf(f, p) = {}
  BY DEF Window
<1>2. b .. b - 1 = {}
  OBVIOUS
<1>. QED BY <1>1, <1>2 DEF Window

-----------------------------------------------------------------------------
(* One edge, from a state of the invariant *)

\* The cursors as numbers, and what the type invariant gives of them.
LEMMA CursorFacts ==
  ASSUME IInv, NEW p \in EnginePorts
  PROVE  /\ idx[p] \in Nat /\ rix[p] \in Nat /\ MaxPhase \in Nat
         /\ skid[p] \in Seq(Beat) /\ Len(skid[p]) \in Nat
         /\ Granted(p) \in Nat /\ Granted(p) <= idx[p]
         /\ rix[p] <= Granted(p)
         /\ CredOf(p) \in 1 .. 4 /\ idx[p] - rix[p] <= CredOf(p)
<1>1. MaxPhase \in Nat /\ CredOf(p) \in 1 .. 4
  BY PhaseAssumption, CredAssumption DEF CredOf, EnginePorts
<1>2. /\ idx[p] \in Nat /\ rix[p] \in Nat /\ skid[p] \in Seq(Beat)
  BY <1>1 DEF IInv, TypeOK
<1>3. rix[p] <= Granted(p) /\ idx[p] - rix[p] <= CredOf(p)
  BY DEF IInv, CursorsBounded
<1>4. Len(skid[p]) \in Nat
  BY <1>2
<1>5. Granted(p) \in Nat /\ Granted(p) <= idx[p]
  BY <1>2, <1>3, <1>4 DEF Granted
<1>. QED BY <1>1, <1>2, <1>3, <1>4, <1>5

\* The grant only picks a port that waits, and only with a credit.
LEMMA GrantFacts ==
  ASSUME NEW reqs \in SUBSET EnginePorts
  PROVE  /\ Grant(reqs) \in Ports \union {NoPort}
         /\ Grant(reqs) # NoPort => credits # 0
         /\ Grant(reqs) = "A" => APend
         /\ \A p \in EnginePorts : Grant(reqs) = p => Offered(p, reqs) # <<>>
  BY DEF Grant, Ports, EnginePorts, NoPort

\* Skid and live pulse together are the run of beats not yet granted.
LEMMA OfferedFacts ==
  ASSUME IInv, NEW reqs \in SUBSET EnginePorts, NEW p \in EnginePorts
  PROVE  /\ Offered(p, reqs) \in Seq(Beat)
         /\ Len(Offered(p, reqs)) = Len(skid[p]) + (IF p \in reqs THEN 1 ELSE 0)
         /\ RunFrom(Offered(p, reqs), p, Granted(p))
<1>1. /\ skid[p] \in Seq(Beat) /\ Len(skid[p]) \in Nat /\ idx[p] \in Nat
      /\ EBeat(p) \in Beat
  BY CursorFacts DEF EBeat, Beat, Ports
<1>2. RunFrom(skid[p], p, Granted(p))
  BY DEF IInv, InOrderExactlyOnce
<1>3. CASE p \notin reqs
  BY <1>1, <1>2, <1>3 DEF Offered
<1>4. CASE p \in reqs
  <2>1. Offered(p, reqs) = Append(skid[p], EBeat(p))
    BY <1>4 DEF Offered
  <2>2. EBeat(p) = [port |-> p, n |-> Granted(p) + (Len(skid[p]) + 1) - 1]
    BY <1>1 DEF EBeat, Granted
  <2>3. /\ Offered(p, reqs) \in Seq(Beat)
        /\ Len(Offered(p, reqs)) = Len(skid[p]) + 1
        /\ \A k \in 1 .. Len(skid[p]) : Offered(p, reqs)[k] = skid[p][k]
        /\ Offered(p, reqs)[Len(skid[p]) + 1] = EBeat(p)
    BY <1>1, <2>1, AppendFacts
  <2>4. ASSUME NEW k \in 1 .. Len(Offered(p, reqs))
        PROVE  Offered(p, reqs)[k] = [port |-> p, n |-> Granted(p) + k - 1]
    <3>1. CASE k = Len(skid[p]) + 1
      BY <2>2, <2>3, <3>1
    <3>2. CASE k \in 1 .. Len(skid[p])
      BY <1>2, <2>3, <3>2 DEF RunFrom
    <3>. QED BY <1>1, <2>3, <3>1, <3>2
  <2>. QED BY <1>4, <2>3, <2>4 DEF RunFrom
<1>. QED BY <1>3, <1>4

\* A FIFO after the answer of this cycle, if one came
Kept(s, rsp) == IF rsp THEN Tail(s) ELSE s

\* The answer alone: the tag names the port of the oldest beat, that beat is
\* the next one its port expects, and what remains is the rest of the windows.
LEMMA AfterAnswer ==
  ASSUME IInv, NEW rsp \in BOOLEAN, rsp => flight # <<>>
  PROVE  /\ Kept(flight, rsp) \in Seq(Beat)
         /\ Kept(tag_q, rsp) \in Seq(Ports)
         /\ Len(Kept(flight, rsp)) = Len(Kept(tag_q, rsp))
         /\ Len(Kept(tag_q, rsp)) = Len(tag_q) - (IF rsp THEN 1 ELSE 0)
         /\ \A i \in 1 .. Len(Kept(tag_q, rsp)) :
              Kept(tag_q, rsp)[i] = Kept(flight, rsp)[i].port
         /\ rsp => tag_q # <<>> /\ Head(flight).port = RTag /\ RTag \in Ports
         /\ rsp /\ RTag = "A" => a_infl
         /\ Window(Kept(flight, rsp), "A", 0,
                   IF a_infl /\ ~(rsp /\ RTag = "A") THEN 1 ELSE 0)
         /\ \A p \in EnginePorts :
              /\ rsp /\ RTag = p => rix[p] < Granted(p) /\ Head(flight).n = rix[p]
              /\ Window(Kept(flight, rsp), p,
                        IF rsp /\ RTag = p THEN rix[p] + 1 ELSE rix[p], Granted(p))
<1>1. /\ flight \in Seq(Beat) /\ tag_q \in Seq(Ports) /\ a_infl \in BOOLEAN
      /\ Len(flight) = Len(tag_q)
      /\ \A i \in 1 .. Len(tag_q) : tag_q[i] = flight[i].port
  BY DEF IInv, TypeOK, TagsMirrorFlight
<1>2. /\ Window(flight, "A", 0, IF a_infl THEN 1 ELSE 0)
      /\ \A p \in EnginePorts : Window(flight, p, rix[p], Granted(p))
  BY DEF IInv, InOrderExactlyOnce
<1>3. CASE ~rsp
  BY <1>1, <1>2, <1>3 DEF Kept
<1>4. CASE rsp
  <2>1. flight # <<>> /\ tag_q # <<>>
    BY <1>1, <1>4
  <2>2. /\ Kept(flight, rsp) = Tail(flight) /\ Kept(tag_q, rsp) = Tail(tag_q)
        /\ RTag = tag_q[1] /\ Head(flight) = flight[1] /\ RTag \in Ports
        /\ Len(tag_q) \in Nat /\ Len(tag_q) > 0
    BY <1>1, <1>4, <2>1, TailFacts DEF Kept, RTag
  <2>3. Head(flight).port = RTag
    BY <1>1, <2>2
  <2>4. /\ Tail(flight) \in Seq(Beat) /\ Len(Tail(flight)) = Len(flight) - 1
        /\ Tail(tag_q) \in Seq(Ports) /\ Len(Tail(tag_q)) = Len(tag_q) - 1
        /\ \A i \in 1 .. Len(tag_q) - 1 :
             Tail(tag_q)[i] = tag_q[i + 1] /\ Tail(flight)[i] = flight[i + 1]
    BY <1>1, <2>1, TailFacts
  <2>5. \A i \in 1 .. Len(Tail(tag_q)) : Tail(tag_q)[i] = Tail(flight)[i].port
    BY <1>1, <2>2, <2>4
  <2>6. /\ RTag = "A" => a_infl
        /\ Window(Tail(flight), "A", 0, IF a_infl /\ RTag # "A" THEN 1 ELSE 0)
    <3>1. CASE RTag = "A"
      <4>1. Window(Tail(flight), "A", 0 + 1, IF a_infl THEN 1 ELSE 0)
            /\ 0 < (IF a_infl THEN 1 ELSE 0)
        BY <1>1, <1>2, <2>1, <2>3, <3>1, PopOwn
      <4>2. a_infl /\ Window(Tail(flight), "A", 1, 1)
        BY <4>1
      <4>. QED BY <2>4, <3>1, <4>2, EmptyWindow
    <3>2. CASE RTag # "A"
      <4>1. Window(Tail(flight), "A", 0, IF a_infl THEN 1 ELSE 0)
        BY <1>1, <1>2, <2>1, <2>3, <3>2, PopOther
      <4>. QED BY <3>2, <4>1
    <3>. QED BY <3>1, <3>2
  <2>7. ASSUME NEW p \in EnginePorts
        PROVE  /\ RTag = p => rix[p] < Granted(p) /\ Head(flight).n = rix[p]
               /\ Window(Tail(flight), p,
                         IF RTag = p THEN rix[p] + 1 ELSE rix[p], Granted(p))
    <3>1. rix[p] \in Nat /\ Granted(p) \in Nat /\ Window(flight, p, rix[p], Granted(p))
      BY <1>2, CursorFacts
    <3>2. CASE RTag = p
      BY <1>1, <2>1, <2>3, <3>1, <3>2, PopOwn
    <3>3. CASE RTag # p
      BY <1>1, <2>1, <2>3, <3>1, <3>3, PopOther
    <3>. QED BY <3>2, <3>3
  <2>. QED BY <1>1, <1>4, <2>1, <2>2, <2>3, <2>4, <2>5, <2>6, <2>7
<1>. QED BY <1>3, <1>4

\* The grant after the answer: the flight grows by the granted port's next
\* beat and by nothing else.
LEMMA AfterGrant ==
  ASSUME IInv, NEW reqs \in SUBSET EnginePorts, NEW rsp \in BOOLEAN,
         rsp => MayAnswer,
         Memory(Grant(reqs), reqs, rsp), Tags(Grant(reqs), rsp)
  PROVE  /\ flight' \in Seq(Beat) /\ tag_q' \in Seq(Ports)
         /\ Len(flight') = Len(tag_q')
         /\ Len(tag_q') = Len(tag_q) - (IF rsp THEN 1 ELSE 0)
                          + (IF Grant(reqs) = NoPort THEN 0 ELSE 1)
         /\ \A i \in 1 .. Len(tag_q') : tag_q'[i] = flight'[i].port
         /\ Window(flight', "A", 0,
                   IF Grant(reqs) = "A" \/ (a_infl /\ ~(rsp /\ RTag = "A"))
                     THEN 1 ELSE 0)
         /\ \A p \in EnginePorts :
              Window(flight', p,
                     IF rsp /\ RTag = p THEN rix[p] + 1 ELSE rix[p],
                     IF Grant(reqs) = p THEN Granted(p) + 1 ELSE Granted(p))
<1> DEFINE w == Grant(reqs)
           kf == Kept(flight, rsp)
           kt == Kept(tag_q, rsp)
           beat == IF w = "A" THEN ABeat ELSE Head(Offered(w, reqs))
<1>0. rsp => flight # <<>>
  BY DEF MayAnswer, IInv, TypeOK
<1>1. /\ kf \in Seq(Beat) /\ kt \in Seq(Ports) /\ Len(kf) = Len(kt)
      /\ Len(kt) = Len(tag_q) - (IF rsp THEN 1 ELSE 0)
      /\ \A i \in 1 .. Len(kt) : kt[i] = kf[i].port
      /\ Window(kf, "A", 0, IF a_infl /\ ~(rsp /\ RTag = "A") THEN 1 ELSE 0)
      /\ \A p \in EnginePorts :
           /\ rsp /\ RTag = p => rix[p] < Granted(p)
           /\ Window(kf, p, IF rsp /\ RTag = p THEN rix[p] + 1 ELSE rix[p], Granted(p))
  BY <1>0, AfterAnswer
<1>2. /\ flight' = IF w = NoPort THEN kf ELSE Append(kf, beat)
      /\ tag_q' = IF w = NoPort THEN kt ELSE Append(kt, w)
  BY DEF Memory, Tags, Kept
<1>3. CASE w = NoPort
  BY <1>1, <1>2, <1>3 DEF NoPort, Ports, EnginePorts
<1>4. CASE w # NoPort
  <2>1. w \in Ports
    BY <1>4, GrantFacts
  <2>2. beat \in Beat /\ beat.port = w
    <3>1. CASE w = "A"
      BY <3>1 DEF ABeat, Beat, Ports
    <3>2. CASE w \in EnginePorts
      <4>1. Offered(w, reqs) # <<>> /\ Offered(w, reqs) \in Seq(Beat)
            /\ RunFrom(Offered(w, reqs), w, Granted(w))
        BY <3>2, GrantFacts, OfferedFacts
      <4>2. Head(Offered(w, reqs)) = Offered(w, reqs)[1]
            /\ 1 \in 1 .. Len(Offered(w, reqs)) /\ Offered(w, reqs)[1] \in Beat
        BY <4>1, TailFacts
      <4>3. Offered(w, reqs)[1] = [port |-> w, n |-> Granted(w) + 1 - 1]
        BY <4>1, <4>2 DEF RunFrom
      <4>4. w # "A"
        BY <3>2 DEF EnginePorts
      <4>. QED BY <4>2, <4>3, <4>4
    <3>. QED BY <2>1, <3>1, <3>2 DEF Ports
  <2>3. /\ flight' = Append(kf, beat) /\ tag_q' = Append(kt, w)
        /\ flight' \in Seq(Beat) /\ tag_q' \in Seq(Ports)
        /\ Len(flight') = Len(kf) + 1 /\ Len(tag_q') = Len(kt) + 1
        /\ \A i \in 1 .. Len(kf) : flight'[i] = kf[i]
        /\ \A i \in 1 .. Len(kt) : tag_q'[i] = kt[i]
        /\ flight'[Len(kf) + 1] = beat /\ tag_q'[Len(kt) + 1] = w
        /\ Len(kt) \in Nat
    BY <1>1, <1>2, <1>4, <2>1, <2>2, AppendFacts
  <2>4. \A i \in 1 .. Len(tag_q') : tag_q'[i] = flight'[i].port
    <3>. SUFFICES ASSUME NEW i \in 1 .. Len(tag_q')
                  PROVE  tag_q'[i] = flight'[i].port
      OBVIOUS
    <3>1. i \in 1 .. Len(kt) \/ i = Len(kt) + 1
      BY <2>3
    <3>. QED BY <1>1, <2>2, <2>3, <3>1
  <2>5. Window(flight', "A", 0,
               IF w = "A" \/ (a_infl /\ ~(rsp /\ RTag = "A")) THEN 1 ELSE 0)
    <3>1. CASE w = "A"
      <4>1. Window(kf, "A", 0, 0) /\ beat.n = 0
        BY <1>1, <3>1, GrantFacts DEF APend, ABeat
      <4>2. Window(Append(kf, beat), "A", 0, 0 + 1)
        BY <1>1, <2>2, <3>1, <4>1, PushOwn
      <4>. QED BY <2>3, <3>1, <4>2
    <3>2. CASE w # "A"
      BY <1>1, <2>2, <2>3, <3>2, PushOther
    <3>. QED BY <3>1, <3>2
  <2>6. ASSUME NEW p \in EnginePorts
        PROVE  Window(flight', p, IF rsp /\ RTag = p THEN rix[p] + 1 ELSE rix[p],
                      IF w = p THEN Granted(p) + 1 ELSE Granted(p))
    <3> DEFINE lo == IF rsp /\ RTag = p THEN rix[p] + 1 ELSE rix[p]
    <3>1. /\ lo \in Nat /\ Granted(p) \in Nat /\ lo <= Granted(p)
          /\ Window(kf, p, lo, Granted(p))
      BY <1>1, CursorFacts
    <3>2. CASE w = p
      <4>1. Offered(w, reqs) # <<>> /\ Offered(w, reqs) \in Seq(Beat)
            /\ RunFrom(Offered(w, reqs), w, Granted(w)) /\ w # "A"
        BY <3>2, GrantFacts, OfferedFacts DEF EnginePorts
      <4>2. Head(Offered(w, reqs)) = Offered(w, reqs)[1]
            /\ 1 \in 1 .. Len(Offered(w, reqs))
        BY <4>1, TailFacts
      <4>3. Offered(w, reqs)[1] = [port |-> w, n |-> Granted(w) + 1 - 1]
        BY <4>1, <4>2 DEF RunFrom
      <4>4. beat.n = Granted(p)
        BY <3>1, <3>2, <4>1, <4>2, <4>3
      <4>5. Window(Append(kf, beat), p, lo, Granted(p) + 1)
        BY <1>1, <2>2, <3>1, <3>2, <4>4, PushOwn
      <4>. QED BY <2>3, <3>2, <4>5
    <3>3. CASE w # p
      <4>1. Window(Append(kf, beat), p, lo, Granted(p))
        BY <1>1, <2>2, <3>1, <3>3, PushOther
      <4>. QED BY <2>3, <3>3, <4>1
    <3>. QED BY <3>2, <3>3
  <2>. QED BY <1>1, <1>4, <2>3, <2>4, <2>5, <2>6
<1>. QED BY <1>3, <1>4

\* The skids keep the beats that were not granted.
LEMMA SkidStep ==
  ASSUME IInv, NEW reqs \in SUBSET EnginePorts, NEW p \in EnginePorts,
         Issue(Grant(reqs), reqs)
  PROVE  /\ skid'[p] \in Seq(Beat)
         /\ Len(skid'[p]) = Len(skid[p]) + (IF p \in reqs THEN 1 ELSE 0)
                            - (IF Grant(reqs) = p THEN 1 ELSE 0)
         /\ RunFrom(skid'[p], p,
                    IF Grant(reqs) = p THEN Granted(p) + 1 ELSE Granted(p))
<1> DEFINE off == Offered(p, reqs)
<1>1. /\ off \in Seq(Beat)
      /\ Len(off) = Len(skid[p]) + (IF p \in reqs THEN 1 ELSE 0)
      /\ RunFrom(off, p, Granted(p))
  BY OfferedFacts
<1>2. skid'[p] = IF Grant(reqs) = p THEN Tail(off) ELSE off
  BY DEF Issue
<1>3. Len(skid[p]) \in Nat /\ Granted(p) \in Nat
  BY CursorFacts
<1>4. CASE Grant(reqs) # p
  <2>1. skid'[p] = off
    BY <1>2, <1>4
  <2>2. RunFrom(skid'[p], p, IF Grant(reqs) = p THEN Granted(p) + 1 ELSE Granted(p))
    BY <1>1, <1>4, <2>1, Zenon
  <2>3. Len(off) = Len(skid[p]) + (IF p \in reqs THEN 1 ELSE 0)
                   - (IF Grant(reqs) = p THEN 1 ELSE 0)
    BY <1>1, <1>3, <1>4
  <2>. QED BY <1>1, <2>1, <2>2, <2>3, Zenon
<1>5. CASE Grant(reqs) = p
  <2>1. off # <<>>
    BY <1>5, GrantFacts
  <2>2. /\ skid'[p] = Tail(off) /\ Tail(off) \in Seq(Beat)
        /\ Len(Tail(off)) = Len(off) - 1 /\ Len(off) \in Nat
        /\ \A k \in 1 .. Len(off) - 1 : Tail(off)[k] = off[k + 1]
    BY <1>1, <1>2, <1>5, <2>1, TailFacts
  <2>3. ASSUME NEW k \in 1 .. Len(Tail(off))
        PROVE  Tail(off)[k] = [port |-> p, n |-> (Granted(p) + 1) + k - 1]
    <3>1. k + 1 \in 1 .. Len(off) /\ Tail(off)[k] = off[k + 1] /\ k \in Nat
      BY <2>2
    <3>2. off[k + 1] = [port |-> p, n |-> Granted(p) + (k + 1) - 1]
      BY <1>1, <3>1 DEF RunFrom
    <3>3. Granted(p) + (k + 1) - 1 = (Granted(p) + 1) + k - 1
      BY <1>3, <3>1
    <3>. QED BY <3>1, <3>2, <3>3
  <2>4. RunFrom(skid'[p], p, Granted(p) + 1)
    BY <2>2, <2>3 DEF RunFrom
  <2>5. RunFrom(skid'[p], p, IF Grant(reqs) = p THEN Granted(p) + 1 ELSE Granted(p))
    BY <1>5, <2>4, Zenon
  <2>6. Len(Tail(off)) = Len(skid[p]) + (IF p \in reqs THEN 1 ELSE 0)
                         - (IF Grant(reqs) = p THEN 1 ELSE 0)
    <3>1. PICK r \in Int : r = IF p \in reqs THEN 1 ELSE 0
      OBVIOUS
    <3>2. Len(off) = Len(skid[p]) + r /\ Len(Tail(off)) = Len(off) - 1
      BY <1>1, <2>2, <3>1, Zenon
    <3>3. Len(Tail(off)) = Len(skid[p]) + r - 1
      BY <1>3, <3>2
    <3>. QED BY <1>5, <3>1, <3>3, Zenon
  <2>. QED BY <2>2, <2>5, <2>6, Zenon
<1>. QED BY <1>4, <1>5

-----------------------------------------------------------------------------
(* The invariant *)

\* The reset state: every FIFO empty, every credit in the pool.
LEMMA InitIInv == Init => IInv
<1> SUFFICES ASSUME Init PROVE IInv
  OBVIOUS
<1> USE CredAssumption, PhaseAssumption
<1>1. TypeOK
  <2>1. /\ [p \in EnginePorts |-> 0] \in [EnginePorts -> 0 .. MaxPhase]
        /\ [p \in EnginePorts |-> <<>>] \in [EnginePorts -> Seq(Beat)]
        /\ <<>> \in Seq(Ports) /\ <<>> \in Seq(Beat)
        /\ CRED \in 0 .. CRED
    OBVIOUS
  <2>. QED BY <2>1 DEF Init, TypeOK
<1>2. credits + Len(tag_q) = CRED /\ TagsMirrorFlight
  BY DEF Init, TagsMirrorFlight
<1>3. \A p : Window(flight, p, 0, 0)
  BY DEF Init, Window, PositionsOf
<1>4. \A p \in EnginePorts : Granted(p) = 0 /\ rix[p] = 0 /\ idx[p] = 0 /\ skid[p] = <<>>
  BY DEF Init, Granted
<1>5. CursorsBounded
  BY <1>4 DEF CursorsBounded, CredOf
<1>6. InOrderExactlyOnce
  BY <1>3, <1>4 DEF InOrderExactlyOnce, RunFrom, Init
<1>. QED BY <1>1, <1>2, <1>5, <1>6 DEF IInv

\* Every clock edge keeps the invariant.
LEMMA EdgeIInv ==
  ASSUME IInv, NEW reqs \in SUBSET EnginePorts, NEW rests \in SUBSET EnginePorts,
         NEW rsp \in BOOLEAN, NEW level \in BOOLEAN, Edge(reqs, rests, rsp, level)
  PROVE  IInv'
<1> DEFINE w == Grant(reqs)
           lo(p) == IF rsp /\ RTag = p THEN rix[p] + 1 ELSE rix[p]
           hi(p) == IF w = p THEN Granted(p) + 1 ELSE Granted(p)
<1>1. /\ Issue(w, reqs) /\ Tags(w, rsp) /\ Memory(w, reqs, rsp) /\ Credit(w, rsp)
      /\ CoreInFlight(w, rsp) /\ Turn(w, reqs, rsp)
      /\ Core(rsp, level) /\ Engines(reqs, rests, rsp)
      /\ rsp => MayAnswer
      /\ \A p \in reqs : MayPulse(p)
      /\ \A p \in rests : MayRest(p) /\ p \notin reqs
  BY DEF Edge
<1>2. /\ flight' \in Seq(Beat) /\ tag_q' \in Seq(Ports) /\ Len(flight') = Len(tag_q')
      /\ Len(tag_q') = Len(tag_q) - (IF rsp THEN 1 ELSE 0)
                       + (IF w = NoPort THEN 0 ELSE 1)
      /\ \A i \in 1 .. Len(tag_q') : tag_q'[i] = flight'[i].port
      /\ Window(flight', "A", 0,
                IF w = "A" \/ (a_infl /\ ~(rsp /\ RTag = "A")) THEN 1 ELSE 0)
      /\ \A p \in EnginePorts : Window(flight', p, lo(p), hi(p))
  BY <1>1, AfterGrant
<1>3. rsp => flight # <<>>
  BY <1>1 DEF MayAnswer, IInv, TypeOK
<1>4. /\ rsp => RTag \in Ports
      /\ rsp /\ RTag = "A" => a_infl
      /\ \A p \in EnginePorts : rsp /\ RTag = p => rix[p] < Granted(p)
  BY <1>3, AfterAnswer
<1>5. /\ w \in Ports \union {NoPort}
      /\ w # NoPort => credits # 0
      /\ w = "A" => a_valid /\ ~a_infl
      /\ \A p \in EnginePorts : w = p => Offered(p, reqs) # <<>>
  BY GrantFacts DEF APend
<1>6. ASSUME NEW p \in EnginePorts
      PROVE  /\ idx'[p] \in 0 .. MaxPhase /\ rix'[p] \in 0 .. MaxPhase
             /\ skid'[p] \in Seq(Beat)
             /\ rix'[p] <= idx'[p] - Len(skid'[p])
             /\ idx'[p] - rix'[p] <= CredOf(p)
             /\ Window(flight', p, rix'[p], idx'[p] - Len(skid'[p]))
             /\ RunFrom(skid'[p], p, idx'[p] - Len(skid'[p]))
  <2>1. /\ idx[p] \in Nat /\ rix[p] \in Nat /\ MaxPhase \in Nat
        /\ Len(skid[p]) \in Nat /\ Granted(p) \in Nat
        /\ rix[p] <= Granted(p) /\ Granted(p) <= idx[p]
        /\ CredOf(p) \in 1 .. 4 /\ idx[p] - rix[p] <= CredOf(p)
    BY CursorFacts
  <2>1a. Granted(p) = idx[p] - Len(skid[p])
    BY DEF Granted
  <2>0. idx[p] <= MaxPhase
    BY <2>1 DEF IInv, TypeOK
  <2>2. /\ skid'[p] \in Seq(Beat)
        /\ Len(skid'[p]) = Len(skid[p]) + (IF p \in reqs THEN 1 ELSE 0)
                           - (IF w = p THEN 1 ELSE 0)
        /\ RunFrom(skid'[p], p, hi(p))
    BY <1>1, SkidStep
  <2>3. /\ idx'[p] = IF p \in rests THEN 0 ELSE IF p \in reqs THEN idx[p] + 1 ELSE idx[p]
        /\ rix'[p] = IF p \in rests THEN 0 ELSE lo(p)
    BY <1>1 DEF Engines
  <2>4. Window(flight', p, lo(p), hi(p)) /\ (rsp /\ RTag = p => rix[p] < Granted(p))
    BY <1>2, <1>4
  <2>5. CASE p \in rests
    <3>0. p \notin reqs /\ idx[p] = rix[p]
      BY <1>1, <2>5 DEF MayRest
    <3>1. Len(skid[p]) = 0 /\ Granted(p) = rix[p]
      BY <2>1, <2>1a, <3>0
    <3>2. w # p
      <4>1. Offered(p, reqs) = skid[p] /\ skid[p] = <<>>
        BY <3>0, <3>1, CursorFacts DEF Offered
      <4>. QED BY <1>5, <4>1
    <3>3. ~(rsp /\ RTag = p)
      BY <2>1, <2>4, <3>1
    <3>4. Window(flight', p, rix[p], rix[p])
      BY <2>4, <3>1, <3>2, <3>3
    <3>5. Window(flight', p, 0, 0)
      BY <1>2, <2>1, <3>4, EmptyWindow
    <3>6. Len(skid'[p]) = 0
      BY <2>2, <3>0, <3>1, <3>2
    <3>7. idx'[p] = 0 /\ rix'[p] = 0
      BY <2>3, <2>5
    <3>8. RunFrom(skid'[p], p, 0)
      BY <3>6 DEF RunFrom
    <3>9. idx'[p] - Len(skid'[p]) = 0
      BY <3>6, <3>7
    <3>10. idx'[p] \in 0 .. MaxPhase /\ rix'[p] \in 0 .. MaxPhase
      BY <2>1, <3>7
    <3>11. rix'[p] <= idx'[p] - Len(skid'[p]) /\ idx'[p] - rix'[p] <= CredOf(p)
      BY <2>1, <3>7, <3>9
    <3>12. /\ Window(flight', p, rix'[p], idx'[p] - Len(skid'[p]))
           /\ RunFrom(skid'[p], p, idx'[p] - Len(skid'[p]))
      BY <3>5, <3>7, <3>8, <3>9, Zenon
    <3>. QED BY <2>2, <3>10, <3>11, <3>12
  <2>6. CASE p \notin rests
    <3>1. p \in reqs => idx[p] - rix[p] < CredOf(p) /\ idx[p] < MaxPhase
      BY <1>1 DEF MayPulse
    <3>2. rix'[p] = lo(p) /\ idx'[p] = IF p \in reqs THEN idx[p] + 1 ELSE idx[p]
      BY <2>3, <2>6, Zenon
    <3>3. idx'[p] - Len(skid'[p]) = hi(p)
      <4>1. Len(skid'[p]) = Len(skid[p]) + (IF p \in reqs THEN 1 ELSE 0)
                            - (IF w = p THEN 1 ELSE 0)
        BY <2>2
      <4>2. PICK r \in Int : r = IF p \in reqs THEN 1 ELSE 0
        OBVIOUS
      <4>3. PICK k \in Int : k = IF w = p THEN 1 ELSE 0
        OBVIOUS
      <4>4. Len(skid'[p]) = Len(skid[p]) + r - k
        BY <4>1, <4>2, <4>3, Zenon
      <4>5. idx'[p] = idx[p] + r
        BY <2>1, <3>2, <4>2
      <4>6. hi(p) = Granted(p) + k
        BY <2>1, <4>3
      <4>7. idx'[p] - Len(skid'[p]) = Granted(p) + k
        BY <2>1, <2>1a, <4>4, <4>5
      <4>. QED BY <4>6, <4>7, Zenon
    <3>4. /\ Window(flight', p, rix'[p], idx'[p] - Len(skid'[p]))
          /\ RunFrom(skid'[p], p, idx'[p] - Len(skid'[p]))
      BY <2>2, <2>4, <3>2, <3>3, Zenon
    <3>5. lo(p) \in Nat /\ rix[p] <= lo(p) /\ lo(p) <= Granted(p)
      BY <2>1, <2>4
    <3>6. hi(p) \in Nat /\ Granted(p) <= hi(p)
      BY <2>1
    <3>7. idx'[p] \in 0 .. MaxPhase /\ idx'[p] - rix[p] <= CredOf(p)
      BY <2>0, <2>1, <3>1, <3>2
    <3>8. rix'[p] <= idx'[p] - Len(skid'[p])
      BY <2>1, <3>2, <3>3, <3>5, <3>6
    <3>9. idx'[p] - rix'[p] <= CredOf(p) /\ rix'[p] \in 0 .. MaxPhase
      <4>1. idx'[p] \in Int /\ rix'[p] \in Nat /\ rix[p] <= rix'[p] /\ rix'[p] <= Granted(p)
        BY <3>2, <3>5, <3>7
      <4>. QED BY <2>0, <2>1, <3>7, <4>1
    <3>. QED BY <2>2, <3>4, <3>7, <3>8, <3>9, Zenon
  <2>. QED BY <2>5, <2>6
<1>7. credits' \in 0 .. CRED /\ credits' + Len(tag_q') = CRED
  <2>1. /\ credits \in 0 .. CRED /\ CRED \in Nat /\ credits + Len(tag_q) = CRED
        /\ Len(tag_q) \in Nat /\ Len(tag_q') \in Nat
    BY <1>2, CredAssumption DEF IInv, TypeOK
  <2>2. credits' = credits + (IF rsp THEN 1 ELSE 0) - (IF w = NoPort THEN 0 ELSE 1)
    BY <1>1 DEF Credit
  <2>3. Len(tag_q') = Len(tag_q) - (IF rsp THEN 1 ELSE 0)
                      + (IF w = NoPort THEN 0 ELSE 1)
    BY <1>2
  <2>4. w # NoPort => credits # 0
    BY <1>5
  <2>5. credits' + Len(tag_q') = CRED
    <3>1. PICK r \in Int : r = IF rsp THEN 1 ELSE 0
      OBVIOUS
    <3>2. PICK k \in Int : k = IF w = NoPort THEN 0 ELSE 1
      OBVIOUS
    <3>3. credits' = credits + r - k /\ Len(tag_q') = Len(tag_q) - r + k
      BY <2>2, <2>3, <3>1, <3>2, Zenon
    <3>. QED BY <2>1, <3>3
  <2>6. credits' >= 0
    BY <2>1, <2>2, <2>4
  <2>. QED BY <2>1, <2>2, <2>5, <2>6
<1>8. /\ a_infl' = (w = "A" \/ (a_infl /\ ~(rsp /\ RTag = "A")))
      /\ a_infl' \in BOOLEAN /\ a_valid' \in BOOLEAN
      /\ a_infl' => a_valid'
  <2>1. a_infl \in BOOLEAN /\ a_valid \in BOOLEAN /\ (a_infl => a_valid)
    BY DEF IInv, TypeOK, InOrderExactlyOnce
  <2>. QED BY <1>1, <1>4, <1>5, <2>1 DEF CoreInFlight, Core
<1>9. last_e' \in BOOLEAN /\ m_req' \in BOOLEAN
  <2>1. last_e \in BOOLEAN /\ a_valid \in BOOLEAN
    BY DEF IInv, TypeOK
  <2>. QED BY <1>1, <2>1 DEF Turn, Issue, EPend
<1>10. TypeOK'
  <2>1. /\ idx' = [p \in EnginePorts |-> idx'[p]]
        /\ rix' = [p \in EnginePorts |-> rix'[p]]
        /\ skid' = [p \in EnginePorts |-> skid'[p]]
    BY <1>1 DEF Engines, Issue
  <2>. QED BY <1>2, <1>6, <1>7, <1>8, <1>9, <2>1 DEF TypeOK
<1>11. TagsMirrorFlight'
  BY <1>2 DEF TagsMirrorFlight
<1>12. CursorsBounded'
  BY <1>6 DEF CursorsBounded, Granted, CredOf
<1>13. InOrderExactlyOnce'
  BY <1>2, <1>6, <1>8 DEF InOrderExactlyOnce, Granted
<1>. QED BY <1>7, <1>10, <1>11, <1>12, <1>13 DEF IInv

\* IInv holds at every clock edge.
THEOREM Inductive == Spec => []IInv
<1>1. IInv /\ [Next]_vars => IInv'
  <2> SUFFICES ASSUME IInv, [Next]_vars PROVE IInv'
    OBVIOUS
  <2>1. CASE Next
    BY <2>1, EdgeIInv DEF Next
  <2>2. CASE UNCHANGED vars
    <3>1. \A p : Granted(p)' = Granted(p)
      BY <2>2 DEF vars, Granted
    <3>2. TypeOK' /\ TagsMirrorFlight' /\ (credits + Len(tag_q) = CRED)'
      BY <2>2 DEF vars, IInv, TypeOK, TagsMirrorFlight
    <3>3. CursorsBounded'
      BY <2>2, <3>1 DEF vars, IInv, CursorsBounded, CredOf
    <3>4. InOrderExactlyOnce'
      BY <2>2, <3>1 DEF vars, IInv, InOrderExactlyOnce
    <3>. QED BY <3>2, <3>3, <3>4 DEF IInv
  <2>. QED BY <2>1, <2>2
<1>. QED BY <1>1, InitIInv, PTL DEF Spec

-----------------------------------------------------------------------------
(* What it gives *)

\* Every register keeps its range.
THEOREM TypeCorrect == Spec => []TypeOK
<1>1. IInv => TypeOK
  BY DEF IInv
<1>. QED BY <1>1, Inductive, PTL

\* Beats in flight and in the skids are the windows of the masters' cursors:
\* nothing is lost, duplicated or reordered within a port.
THEOREM OrderPreserved == Spec => []InOrderExactlyOnce
<1>1. IInv => InOrderExactlyOnce
  BY DEF IInv
<1>. QED BY <1>1, Inductive, PTL

\* Every answer is routed to the port of the oldest beat, and it is the one
\* that port counts as its next.
THEOREM RoutingCorrect == Spec => []AnswerRouted
<1>1. IInv => AnswerRouted
  <2> SUFFICES ASSUME IInv, MayAnswer PROVE AnswerRouted
    BY DEF AnswerRouted
  <2>1. flight # <<>>
    BY DEF MayAnswer, IInv, TypeOK
  <2>2. /\ tag_q # <<>> /\ Head(flight).port = RTag /\ RTag \in Ports
        /\ RTag = "A" => a_infl
        /\ \A p \in EnginePorts : RTag = p => rix[p] < Granted(p) /\ Head(flight).n = rix[p]
    BY <2>1, AfterAnswer
  <2>3. a_infl => a_valid
    BY DEF IInv, InOrderExactlyOnce
  <2>4. CASE RTag = "A"
    BY <2>2, <2>3, <2>4 DEF AnswerRouted
  <2>5. CASE RTag \in EnginePorts
    <3>1. Granted(RTag) <= idx[RTag] /\ Granted(RTag) \in Nat /\ idx[RTag] \in Nat
          /\ rix[RTag] \in Nat
      BY <2>5, CursorFacts
    <3>2. RTag # "A"
      BY <2>5 DEF EnginePorts
    <3>. QED BY <2>2, <2>5, <3>1, <3>2 DEF AnswerRouted
  <2>. QED BY <2>2, <2>4, <2>5 DEF Ports
<1>. QED BY <1>1, Inductive, PTL

\* No FIFO of the arbiter overruns and no credit is lost or minted.
THEOREM NoTripwire == Spec => []NoOverrun
<1>1. IInv => NoOverrun
  <2> SUFFICES ASSUME IInv PROVE NoOverrun
    OBVIOUS
  <2>1. ASSUME NEW p \in EnginePorts
        PROVE  Len(skid[p]) <= SkidDepth /\ (MayPulse(p) => Len(skid[p]) < CredOf(p))
    BY CursorFacts DEF Granted, MayPulse, SkidDepth
  <2>2. credits + Len(tag_q) = CRED /\ Len(flight) = Len(tag_q) /\ Len(tag_q) <= TagDepth
    BY CredAssumption DEF IInv, TypeOK, TagsMirrorFlight, TagDepth
  <2>. QED BY <2>1, <2>2 DEF NoOverrun
<1>. QED BY <1>1, Inductive, PTL

(***************************************************************************)
(* The cluster's face                                                      *)
(***************************************************************************)

-----------------------------------------------------------------------------
(* Lengths of sequences put together from others *)

\* s is a sequence of n things.
Long(s, n) == n \in Nat /\ \E S : s \in Seq(S) /\ Len(s) = n

\* A function on 1 .. n is a sequence of n values.
LEMMA LongFunction ==
  ASSUME NEW n \in Nat, NEW s, s = [k \in 1 .. n |-> s[k]]
  PROVE  Long(s, n)
<1> DEFINE S == {s[k] : k \in 1 .. n}
<1>1. s \in [1 .. n -> S]
  OBVIOUS
<1>2. s \in Seq(S) /\ Len(s) = n
  BY <1>1
<1> QED BY <1>2 DEF Long

\* u is the sequence t of n things behind the sequence s of m.
Behind(u, s, m, t, n) ==
  /\ Long(u, m + n)
  /\ \A k \in 1 .. m : u[k] = s[k]
  /\ \A k \in 1 .. n : u[m + k] = t[k]

\* A joint of two sequences is as long as both, and holds both.
LEMMA LongBehind ==
  ASSUME NEW m \in Nat, NEW n \in Nat, NEW s, NEW t, Long(s, m), Long(t, n)
  PROVE  Behind(s \o t, s, m, t, n)
<1>1. PICK S : s \in Seq(S) /\ Len(s) = m
  BY DEF Long
<1>2. PICK T : t \in Seq(T) /\ Len(t) = n
  BY DEF Long
<1> DEFINE U == S \union T
<1>3. s \in Seq(U) /\ t \in Seq(U)
  BY <1>1, <1>2
<1> HIDE DEF U
<1>4. s \o t \in Seq(U) /\ Len(s \o t) = m + n
  BY <1>1, <1>2, <1>3
<1>5. \A k \in 1 .. m : (s \o t)[k] = s[k]
  BY <1>1, <1>2, <1>3
<1>6. \A k \in 1 .. n : (s \o t)[m + k] = t[k]
  BY <1>1, <1>2, <1>3
<1> QED BY <1>4, <1>5, <1>6 DEF Long, Behind

\* f holds the first k joints of the sequences of seqs.
Joints(f, seqs, k) ==
  f = [i \in 1 .. k |-> IF i = 1 THEN seqs[i] ELSE f[i - 1] \o seqs[i]]

\* A joint is the one before it with one sequence more.
LEMMA JointAt ==
  ASSUME NEW n \in Nat, NEW seqs, NEW f, Joints(f, seqs, n), NEW i \in 1 .. n
  PROVE  f[i] = IF i = 1 THEN seqs[i] ELSE f[i - 1] \o seqs[i]
  BY DEF Joints

\* The joints that FlattenSeq chooses exist.
LEMMA JointsExist ==
  ASSUME NEW n \in Nat, NEW seqs
  PROVE  \E f : Joints(f, seqs, n)
<1> DEFINE P == {k \in 0 .. n : \E f : Joints(f, seqs, k)}
<1>1. 0 \in P
  <2>1. Joints([i \in 1 .. 0 |-> 0], seqs, 0)
    BY DEF Joints
  <2> QED BY <2>1
<1>2. ASSUME NEW k \in 0 .. n - 1, k \in P PROVE k + 1 \in P
  <2>1. PICK f : Joints(f, seqs, k)
    BY <1>2
  <2> DEFINE h == [i \in 1 .. k + 1 |->
                  IF i # k + 1 THEN f[i] ELSE IF i = 1 THEN seqs[i] ELSE f[k] \o seqs[i]]
  <2>2. ASSUME NEW i \in 1 .. k + 1
        PROVE  h[i] = IF i = 1 THEN seqs[i] ELSE h[i - 1] \o seqs[i]
    <3>1. CASE i = k + 1
      BY <3>1
    <3>2. CASE i # k + 1
      <4>1. i \in 1 .. k /\ h[i] = f[i]
        BY <3>2
      <4>2. f[i] = IF i = 1 THEN seqs[i] ELSE f[i - 1] \o seqs[i]
        BY <2>1, <4>1, JointAt
      <4>3. i # 1 => i - 1 \in 1 .. k /\ h[i - 1] = f[i - 1]
        BY <4>1
      <4> QED BY <4>1, <4>2, <4>3
    <3> QED BY <3>1, <3>2
  <2>3. h = [i \in 1 .. k + 1 |-> IF i = 1 THEN seqs[i] ELSE h[i - 1] \o seqs[i]]
    <3>1. h = [i \in 1 .. k + 1 |-> h[i]]
      OBVIOUS
    <3> HIDE DEF h
    <3> QED BY <2>2, <3>1
  <2>4. Joints(h, seqs, k + 1)
    BY <2>3 DEF Joints
  <2> QED BY <2>4
<1>3. \A k \in 0 .. n : k \in P
  <2> HIDE DEF P
  <2> QED BY <1>1, <1>2, Upto
<1> QED BY <1>3

\* n sequences of m things each, one behind the other.
LEMMA LongFlat ==
  ASSUME NEW n \in Nat, NEW m \in Nat, NEW seqs, Long(seqs, n), \A i \in 1 .. n : Long(seqs[i], m)
  PROVE  Long(FlattenSeq(seqs), n * m)
<1>1. Len(seqs) = n
  BY DEF Long
<1>2. CASE n = 0
  BY <1>1, <1>2 DEF FlattenSeq, Long
<1>3. CASE n # 0
  <2> DEFINE f == CHOOSE f : Joints(f, seqs, n)
  <2>1. Joints(f, seqs, n)
    BY JointsExist
  <2>2. FlattenSeq(seqs) = f[n]
    BY <1>1, <1>3 DEF FlattenSeq, Joints
  <2> HIDE DEF f
  <2> DEFINE P == {k \in 0 .. n : k = 0 \/ Long(f[k], k * m)}
  <2>3. 0 \in P
    OBVIOUS
  <2>4. ASSUME NEW k \in 0 .. n - 1, k \in P PROVE k + 1 \in P
    <3>1. f[k + 1] = IF k + 1 = 1 THEN seqs[k + 1] ELSE f[k] \o seqs[k + 1]
      <4>1. k + 1 \in 1 .. n /\ k + 1 - 1 = k
        OBVIOUS
      <4>2. f[k + 1] = IF k + 1 = 1 THEN seqs[k + 1] ELSE f[k + 1 - 1] \o seqs[k + 1]
        BY <2>1, <4>1, JointAt
      <4> QED BY <4>1, <4>2
    <3>2. Long(seqs[k + 1], m)
      OBVIOUS
    <3>3. CASE k = 0
      BY <3>1, <3>2, <3>3
    <3>4. CASE k # 0
      <4>1. Long(f[k], k * m)
        BY <2>4, <3>4
      <4>2. f[k + 1] = f[k] \o seqs[k + 1]
        <5>1. k + 1 # 1
          BY <3>4
        <5> QED BY <3>1, <5>1, Zenon
      <4>3. Long(f[k] \o seqs[k + 1], k * m + m)
        BY <3>2, <4>1, LongBehind DEF Behind
      <4>4. k * m + m = (k + 1) * m
        OBVIOUS
      <4>5. Long(f[k + 1], (k + 1) * m)
        BY <4>2, <4>3, <4>4
      <4>6. k + 1 \in 0 .. n
        OBVIOUS
      <4> QED BY <4>5, <4>6, Zenon
    <3> QED BY <3>3, <3>4
  <2>5. \A k \in 0 .. n : k \in P
    <3> HIDE DEF P
    <3> QED BY <2>3, <2>4, Upto
  <2> QED BY <1>3, <2>2, <2>5
<1> QED BY <1>2, <1>3

-----------------------------------------------------------------------------
(* The words of an image *)

\* Something takes at least one word.
LEMMA CeilDivPositive ==
  ASSUME NEW a \in Nat \ {0}, NEW b \in Nat \ {0}
  PROVE  CeilDiv(a, b) \in Nat \ {0}
<1>1. PICK x \in Int, r \in 0 .. b - 1 : x = (a + b - 1) \div b /\ a + b - 1 = b * x + r
  <2>1. a + b - 1 \in Int
    OBVIOUS
  <2> QED BY <2>1, Quotient
<1>2. x >= 1
  <2> SUFFICES ASSUME x <= 0 PROVE FALSE
    OBVIOUS
  <2>1. b * x <= 0
    OBVIOUS
  <2> QED BY <1>1, <2>1
<1> QED BY <1>1, <1>2 DEF CeilDiv

\* A section's words when the image flags it, none when it does not.
LEMMA WhenLong ==
  ASSUME NEW img, NEW s, NEW ws, NEW n,
         SectionWords(img, s) = IF s \in img.flags THEN n ELSE 0,
         s \in img.flags => Long(ws, n)
  PROVE  Long(When(s, img, ws), SectionWords(img, s))
<1>1. CASE s \in img.flags
  BY <1>1 DEF When
<1>2. CASE s \notin img.flags
  <2>1. Long(<<>>, 0)
    BY DEF Long
  <2> QED BY <1>2, <2>1 DEF When
<1> QED BY <1>1, <1>2

\* A site's words: its slots and its bias.
LEMMA SiteLong ==
  ASSUME NEW adj, NEW bw, NEW b \in Nat, Long(bw, b)
  PROVE  Long(SlotWords(adj) \o bw, DEG_MAX + b)
<1>1. DEG_MAX \in Nat
  BY SizesAssumption
<1>2. Long(SlotWords(adj), DEG_MAX)
  <2> DEFINE s == SlotWords(adj)
  <2>1. s = [k \in 1 .. DEG_MAX |-> s[k]]
    BY DEF SlotWords, Slots
  <2> QED BY <1>1, <2>1, LongFunction
<1> QED BY <1>1, <1>2, LongBehind DEF Behind

\* A site's bias row has the words that RowWords counts.
LEMMA BiasLong ==
  ASSUME NEW bw, NEW arity \in {4, 8}
  PROVE  Long(_bias_words(bw, arity), IF arity = 8 THEN 3 ELSE 1)
<1> DEFINE s == _bias_words(bw, arity)
           n == IF arity = 8 THEN 3 ELSE 1
<1>1. BiasWordCount(arity) = n
  <2>1. CASE arity = 4
    <3>1. (3 + 3 - 1) \div 3 = 1
      OBVIOUS
    <3> QED BY <2>1, <3>1 DEF BiasWordCount, CeilDiv, LANES_A_WORD
  <2>2. CASE arity = 8
    <3>1. (7 + 3 - 1) \div 3 = 3
      OBVIOUS
    <3> QED BY <2>2, <3>1 DEF BiasWordCount, CeilDiv, LANES_A_WORD
  <2> QED BY <2>1, <2>2
<1>2. s = [k \in 1 .. n |-> s[k]]
  BY <1>1 DEF _bias_words
<1>3. n \in Nat
  OBVIOUS
<1>4. Long(s, n)
  <2> HIDE DEF s, n
  <2> QED BY <1>2, <1>3, LongFunction
<1> QED BY <1>4

\* n values packed per to a word
LEMMA PackedLong ==
  ASSUME NEW f, NEW n \in Nat \ {0}, NEW per \in Nat \ {0}
  PROVE  Long(Packed(f, n, per), CeilDiv(n, per))
<1> DEFINE s == Packed(f, n, per)
           m == CeilDiv(n, per)
<1>1. s = [k \in 1 .. m |-> s[k]]
  BY DEF Packed
<1>2. m \in Nat
  BY CeilDivPositive
<1>3. Long(s, m)
  <2> HIDE DEF s, m
  <2> QED BY <1>1, <1>2, LongFunction
<1> QED BY <1>3

\* One word
LEMMA Single ==
  ASSUME NEW x
  PROVE  Long(<<x>>, 1) /\ <<x>>[1] = x
<1>1. <<x>> \in Seq({x}) /\ Len(<<x>>) = 1 /\ <<x>>[1] = x
  OBVIOUS
<1>2. \A s : s \in Seq({x}) /\ Len(s) = 1 => Long(s, 1)
  BY DEF Long
<1> QED BY <1>1, <1>2

\* The ORDER section starts with the order's length.
LEMMA OrderLong ==
  ASSUME NEW img, img.order \in Seq(ToSet(img.order))
  PROVE  /\ Long(OrderWords(img), 1 + COLORS_MAX + Len(img.order))
         /\ OrderWords(img)[1] = Len(img.order)
<1> DEFINE bounds == [k \in 1 .. COLORS_MAX |->
                        IF k <= Len(img.bounds) THEN img.bounds[k] ELSE [lo |-> 0, hi |-> 0]]
           size == << Len(img.order) >>
<1>1. Long(size, 1) /\ size[1] = Len(img.order)
  BY Single
<1>2. Long(bounds, COLORS_MAX)
  <2>1. bounds = [k \in 1 .. COLORS_MAX |-> bounds[k]]
    OBVIOUS
  <2>2. COLORS_MAX \in Nat
    BY SizesAssumption
  <2>3. \A b : b = [k \in 1 .. COLORS_MAX |-> b[k]] => Long(b, COLORS_MAX)
    BY <2>2, LongFunction
  <2> QED BY <2>1, <2>3
<1>3. Long(img.order, Len(img.order))
  BY DEF Long
<1>4. OrderWords(img) = size \o bounds \o img.order
  BY DEF OrderWords
<1> HIDE DEF size, bounds
<1>5. COLORS_MAX \in Nat
  BY SizesAssumption
<1>6. Behind(size \o bounds, size, 1, bounds, COLORS_MAX)
  BY <1>1, <1>2, <1>5, LongBehind
<1>7. PICK t : t = size \o bounds /\ Long(t, 1 + COLORS_MAX) /\ t[1] = Len(img.order)
  <2>1. \A t : Behind(t, size, 1, bounds, COLORS_MAX) => Long(t, 1 + COLORS_MAX) /\ t[1] = Len(img.order)
    BY <1>1 DEF Behind
  <2> QED BY <1>6, <2>1, Zenon
<1>8. Behind(t \o img.order, t, 1 + COLORS_MAX, img.order, Len(img.order))
  BY <1>3, <1>5, <1>7, LongBehind
<1>9. OrderWords(img) = t \o img.order
  BY <1>4, <1>7, Zenon
<1>10. Behind(OrderWords(img), t, 1 + COLORS_MAX, img.order, Len(img.order))
  BY <1>8, <1>9, Zenon
<1>11. 1 \in 1 .. 1 + COLORS_MAX /\ OrderWords(img)[1] = t[1]
  <2>1. 1 \in 1 .. 1 + COLORS_MAX
    BY <1>5
  <2> QED BY <1>10, <2>1 DEF Behind
<1>12. Long(OrderWords(img), 1 + COLORS_MAX + Len(img.order))
  BY <1>10 DEF Behind
<1> QED BY <1>7, <1>11, <1>12

\* SectionWords, section by section
LEMMA SectionLengths ==
  ASSUME NEW img, ProperImage(img)
  PROVE  /\ SectionWords(img, "ROWS") = IF "ROWS" \in img.flags
                                       THEN img.n * (DEG_MAX + (IF img.q = 8 THEN 3 ELSE 1)) ELSE 0
         /\ SectionWords(img, "ORDER") = IF "ORDER" \in img.flags
                                        THEN 1 + COLORS_MAX + Len(img.order) ELSE 0
         /\ SectionWords(img, "SCHED") = IF "SCHED" \in img.flags THEN Len(img.sched) ELSE 0
         /\ SectionWords(img, "SEEDS") = IF "SEEDS" \in img.flags THEN SEED_WORDS ELSE 0
         /\ SectionWords(img, "STATE") = IF "STATE" \in img.flags
                                        THEN CeilDiv(img.n, STATE_SITES(img.q)) ELSE 0
         /\ SectionWords(img, "RID") = IF "RID" \in img.flags THEN CeilDiv(img.n, RID_SITES) ELSE 0
         /\ \A k \in 1 .. 6 : SectionWords(img, SectionOrder[k]) \in Nat
<1>1. SectionWords(img, "ROWS") = IF "ROWS" \in img.flags
                                  THEN img.n * (DEG_MAX + (IF img.q = 8 THEN 3 ELSE 1)) ELSE 0
  BY DEF SectionWords
<1>2. SectionWords(img, "ORDER") = IF "ORDER" \in img.flags THEN 1 + COLORS_MAX + Len(img.order) ELSE 0
  BY DEF SectionWords
<1>3. SectionWords(img, "SCHED") = IF "SCHED" \in img.flags THEN Len(img.sched) ELSE 0
  BY DEF SectionWords
<1>4. SectionWords(img, "SEEDS") = IF "SEEDS" \in img.flags THEN SEED_WORDS ELSE 0
  BY DEF SectionWords
<1>5. SectionWords(img, "STATE") = IF "STATE" \in img.flags
                                   THEN CeilDiv(img.n, STATE_SITES(img.q)) ELSE 0
  BY DEF SectionWords
<1>6. SectionWords(img, "RID") = IF "RID" \in img.flags THEN CeilDiv(img.n, RID_SITES) ELSE 0
  BY DEF SectionWords
<1>7. SectionWords(img, "ROWS") \in Nat
  <2>1. img.n \in Nat /\ DEG_MAX + (IF img.q = 8 THEN 3 ELSE 1) \in Nat
    BY SizesAssumption DEF ProperImage
  <2>2. \A a, b \in Nat : a * b \in Nat
    OBVIOUS
  <2> QED BY <1>1, <2>1, <2>2
<1>8. SectionWords(img, "ORDER") \in Nat
  BY <1>2, SizesAssumption DEF ProperImage
<1>9. SectionWords(img, "SCHED") \in Nat
  BY <1>3 DEF ProperImage
<1>10. SectionWords(img, "SEEDS") \in Nat
  BY <1>4, SizesAssumption
<1>11. SectionWords(img, "STATE") \in Nat
  <2>1. STATE_SITES(img.q) \in Nat \ {0} /\ img.n \in Nat \ {0}
    BY SizesAssumption DEF ProperImage
  <2>2. CeilDiv(img.n, STATE_SITES(img.q)) \in Nat \ {0}
    BY <2>1, CeilDivPositive, Zenon
  <2> QED BY <1>5, <2>2
<1>12. SectionWords(img, "RID") \in Nat
  <2>1. RID_SITES \in Nat \ {0} /\ img.n \in Nat \ {0}
    BY SizesAssumption DEF ProperImage
  <2>2. CeilDiv(img.n, RID_SITES) \in Nat \ {0}
    BY <2>1, CeilDivPositive, Zenon
  <2> QED BY <1>6, <2>2
<1>13. \A k \in 1 .. 6 : SectionWords(img, SectionOrder[k]) \in Nat
  BY <1>7, <1>8, <1>9, <1>10, <1>11, <1>12 DEF SectionOrder
<1> QED BY <1>1, <1>2, <1>3, <1>4, <1>5, <1>6, <1>13

\* Where a section starts, and that the next one starts behind its words
LEMMA BeforeSteps ==
  ASSUME NEW img, ProperImage(img)
  PROVE  /\ Before(img, 1) = 3
         /\ \A k \in 1 .. 6 : Before(img, k + 1) = Before(img, k) + SectionWords(img, SectionOrder[k])
         /\ \A k \in 1 .. 7 : Before(img, k) \in Nat /\ Before(img, k) <= Before(img, 7)
<1> DEFINE w(i) == SectionWords(img, SectionOrder[i])
<1>1. w(1) \in Nat /\ w(2) \in Nat /\ w(3) \in Nat /\ w(4) \in Nat /\ w(5) \in Nat /\ w(6) \in Nat
  BY SectionLengths
<1>2. \A k \in 1 .. 7 :
        Before(img, k) = 3 + (IF 1 < k THEN w(1) ELSE 0) + (IF 2 < k THEN w(2) ELSE 0)
                           + (IF 3 < k THEN w(3) ELSE 0) + (IF 4 < k THEN w(4) ELSE 0)
                           + (IF 5 < k THEN w(5) ELSE 0) + (IF 6 < k THEN w(6) ELSE 0)
  BY DEF Before
<1> HIDE DEF w
<1>3. /\ Before(img, 1) = 3 /\ Before(img, 2) = 3 + w(1) /\ Before(img, 3) = 3 + w(1) + w(2)
      /\ Before(img, 4) = 3 + w(1) + w(2) + w(3) /\ Before(img, 5) = 3 + w(1) + w(2) + w(3) + w(4)
      /\ Before(img, 6) = 3 + w(1) + w(2) + w(3) + w(4) + w(5)
      /\ Before(img, 7) = 3 + w(1) + w(2) + w(3) + w(4) + w(5) + w(6)
  BY <1>1, <1>2
<1>4. \A k \in 1 .. 6 : Before(img, k + 1) = Before(img, k) + w(k)
  <2> TAKE k \in 1 .. 6
  <2>1. k = 1 \/ k = 2 \/ k = 3 \/ k = 4 \/ k = 5 \/ k = 6
    OBVIOUS
  <2> QED BY <1>1, <1>3, <2>1
<1>5. \A k \in 1 .. 7 : Before(img, k) \in Nat /\ Before(img, k) <= Before(img, 7)
  <2> TAKE k \in 1 .. 7
  <2>1. k = 1 \/ k = 2 \/ k = 3 \/ k = 4 \/ k = 5 \/ k = 6 \/ k = 7
    OBVIOUS
  <2> QED BY <1>1, <1>3, <2>1
<1> QED BY <1>3, <1>4, <1>5 DEF w

\* What both builders do: header h, and behind it the sections that the flags
\* name, r the rows' words
Built(img, h, r) ==
  /\ Long(h, 3) /\ h[2].n = img.n /\ h[3].q = img.q
  /\ "SCHED" \in img.flags => h[3].n_sched = Len(img.sched)
  /\ Long(r, img.n * (DEG_MAX + (IF img.q = 8 THEN 3 ELSE 1)))
  /\ Image(img) = h \o When("ROWS", img, r)
                    \o When("ORDER", img, OrderWords(img))
                    \o When("SCHED", img, img.sched)
                    \o When("SEEDS", img, [k \in 1 .. SEED_WORDS |-> k])
                    \o When("STATE", img, Packed(img.state, img.n, STATE_SITES(img.q)))
                    \o When("RID", img, Packed(img.rid, img.n, RID_SITES))

\* What the builder puts together: three header words, then each flagged
\* section at the place that Before gives it.
LEMMA Assembled ==
  ASSUME NEW img, ProperImage(img), NEW h, NEW r, Built(img, h, r), NEW all, all = Image(img)
  PROVE  /\ Long(all, Before(img, 7))
         /\ \A k \in 1 .. 3 : all[k] = h[k]
         /\ "ORDER" \in img.flags => all[Before(img, 2) + 1] = Len(img.order)
<1> DEFINE w(i) == SectionWords(img, SectionOrder[i])
           s1 == When("ROWS", img, r)
           s2 == When("ORDER", img, OrderWords(img))
           s3 == When("SCHED", img, img.sched)
           s4 == When("SEEDS", img, [k \in 1 .. SEED_WORDS |-> k])
           s5 == When("STATE", img, Packed(img.state, img.n, STATE_SITES(img.q)))
           s6 == When("RID", img, Packed(img.rid, img.n, RID_SITES))
<1>1. img.n \in Nat \ {0} /\ STATE_SITES(img.q) \in Nat \ {0} /\ RID_SITES \in Nat \ {0} /\ SEED_WORDS \in Nat
  BY SizesAssumption DEF ProperImage
<1>2. Long(s1, w(1))
  <2>1. Long(r, img.n * (DEG_MAX + (IF img.q = 8 THEN 3 ELSE 1)))
    BY DEF Built
  <2> QED BY <2>1, SectionLengths, WhenLong DEF SectionOrder
<1>3. Long(s2, w(2)) /\ ("ORDER" \in img.flags => s2[1] = Len(img.order) /\ w(2) > 0)
  <2>1. "ORDER" \in img.flags =>
          Long(OrderWords(img), 1 + COLORS_MAX + Len(img.order)) /\ OrderWords(img)[1] = Len(img.order)
    BY OrderLong DEF ProperImage
  <2>2. Long(s2, w(2))
    BY <2>1, SectionLengths, WhenLong DEF SectionOrder
  <2>3. "ORDER" \in img.flags => s2 = OrderWords(img)
    BY DEF When
  <2>4. "ORDER" \in img.flags => w(2) > 0
    <3>1. "ORDER" \in img.flags => w(2) = 1 + COLORS_MAX + Len(img.order) /\ Len(img.order) \in Nat
      BY SectionLengths DEF SectionOrder, ProperImage
    <3> HIDE DEF w
    <3> QED BY <3>1, SizesAssumption
  <2> QED BY <2>1, <2>2, <2>3, <2>4
<1>4. Long(s3, w(3))
  <2>1. "SCHED" \in img.flags => Long(img.sched, Len(img.sched))
    BY DEF ProperImage, Long
  <2> QED BY <2>1, SectionLengths, WhenLong DEF SectionOrder
<1>5. Long(s4, w(4))
  <2> DEFINE seeds == [k \in 1 .. SEED_WORDS |-> k]
  <2>1. seeds = [k \in 1 .. SEED_WORDS |-> seeds[k]]
    OBVIOUS
  <2>2. Long(seeds, SEED_WORDS)
    <3> HIDE DEF seeds
    <3> QED BY <1>1, <2>1, LongFunction
  <2> QED BY <2>2, SectionLengths, WhenLong DEF SectionOrder
<1>6. Long(s5, w(5))
  <2>1. Long(Packed(img.state, img.n, STATE_SITES(img.q)), CeilDiv(img.n, STATE_SITES(img.q)))
    BY <1>1, PackedLong
  <2> QED BY <2>1, SectionLengths, WhenLong DEF SectionOrder
<1>7. Long(s6, w(6))
  <2>1. Long(Packed(img.rid, img.n, RID_SITES), CeilDiv(img.n, RID_SITES))
    BY <1>1, PackedLong
  <2> QED BY <2>1, SectionLengths, WhenLong DEF SectionOrder
<1>8. all = h \o s1 \o s2 \o s3 \o s4 \o s5 \o s6
  BY Zenon DEF Built
<1>9. w(1) \in Nat /\ w(2) \in Nat /\ w(3) \in Nat /\ w(4) \in Nat /\ w(5) \in Nat /\ w(6) \in Nat
  BY SectionLengths
<1>10. /\ Before(img, 2) = 3 + w(1)
       /\ Before(img, 7) = 3 + w(1) + w(2) + w(3) + w(4) + w(5) + w(6)
  <2>1. \A k \in 1 .. 6 : Before(img, k + 1) = Before(img, k) + w(k)
    BY BeforeSteps
  <2> HIDE DEF w
  <2>2. /\ Before(img, 2) = 3 + w(1) /\ Before(img, 3) = Before(img, 2) + w(2)
        /\ Before(img, 4) = Before(img, 3) + w(3) /\ Before(img, 5) = Before(img, 4) + w(4)
        /\ Before(img, 6) = Before(img, 5) + w(5) /\ Before(img, 7) = Before(img, 6) + w(6)
    BY <2>1, BeforeSteps
  <2> QED BY <1>9, <2>2
<1> HIDE DEF w, s1, s2, s3, s4, s5, s6
<1> DEFINE t1 == h \o s1
           t2 == t1 \o s2
           t3 == t2 \o s3
           t4 == t3 \o s4
           t5 == t4 \o s5
<1>11. Behind(t1, h, 3, s1, w(1))
  <2>1. Long(h, 3)
    BY DEF Built
  <2> QED BY <1>2, <1>9, <2>1, LongBehind
<1> HIDE DEF t1
<1>12. Behind(t2, t1, 3 + w(1), s2, w(2))
  <2>1. Long(t1, 3 + w(1)) /\ 3 + w(1) \in Nat
    BY <1>9, <1>11 DEF Behind
  <2> QED BY <1>3, <1>9, <2>1, LongBehind
<1> HIDE DEF t2
<1>13. Behind(t3, t2, 3 + w(1) + w(2), s3, w(3))
  <2>1. Long(t2, 3 + w(1) + w(2)) /\ 3 + w(1) + w(2) \in Nat
    BY <1>9, <1>12 DEF Behind
  <2> QED BY <1>4, <1>9, <2>1, LongBehind
<1> HIDE DEF t3
<1>14. Behind(t4, t3, 3 + w(1) + w(2) + w(3), s4, w(4))
  <2>1. Long(t3, 3 + w(1) + w(2) + w(3)) /\ 3 + w(1) + w(2) + w(3) \in Nat
    BY <1>9, <1>13 DEF Behind
  <2> QED BY <1>5, <1>9, <2>1, LongBehind
<1> HIDE DEF t4
<1>15. Behind(t5, t4, 3 + w(1) + w(2) + w(3) + w(4), s5, w(5))
  <2>1. Long(t4, 3 + w(1) + w(2) + w(3) + w(4)) /\ 3 + w(1) + w(2) + w(3) + w(4) \in Nat
    BY <1>9, <1>14 DEF Behind
  <2> QED BY <1>6, <1>9, <2>1, LongBehind
<1> HIDE DEF t5
<1>16. Behind(t5 \o s6, t5, 3 + w(1) + w(2) + w(3) + w(4) + w(5), s6, w(6))
  <2>1. Long(t5, 3 + w(1) + w(2) + w(3) + w(4) + w(5)) /\ 3 + w(1) + w(2) + w(3) + w(4) + w(5) \in Nat
    BY <1>9, <1>15 DEF Behind
  <2> QED BY <1>7, <1>9, <2>1, LongBehind
<1>17. all = t5 \o s6
  BY <1>8, Zenon DEF t1, t2, t3, t4, t5
<1>18. Behind(all, t5, 3 + w(1) + w(2) + w(3) + w(4) + w(5), s6, w(6))
  BY <1>16, <1>17, Zenon
<1>19. /\ Long(all, 3 + w(1) + w(2) + w(3) + w(4) + w(5) + w(6))
       /\ \A k \in 1 .. 3 : all[k] = h[k]
       /\ w(2) > 0 => all[3 + w(1) + 1] = s2[1]
  <2>1. PICK n1, n2, n3, n4, n5, n6 \in Nat :
          n1 = w(1) /\ n2 = w(2) /\ n3 = w(3) /\ n4 = w(4) /\ n5 = w(5) /\ n6 = w(6)
    BY <1>9
  <2>2. /\ Behind(t1, h, 3, s1, n1) /\ Behind(t2, t1, 3 + n1, s2, n2)
        /\ Behind(t3, t2, 3 + n1 + n2, s3, n3) /\ Behind(t4, t3, 3 + n1 + n2 + n3, s4, n4)
        /\ Behind(t5, t4, 3 + n1 + n2 + n3 + n4, s5, n5)
        /\ Behind(all, t5, 3 + n1 + n2 + n3 + n4 + n5, s6, n6)
    BY <1>11, <1>12, <1>13, <1>14, <1>15, <1>18, <2>1, Zenon
  <2>3. \A k \in 1 .. 3 + n1 + n2 : all[k] = t2[k]
    <3> TAKE k \in 1 .. 3 + n1 + n2
    <3>1. all[k] = t5[k]
      BY <2>2 DEF Behind
    <3>2. t5[k] = t4[k]
      BY <2>2 DEF Behind
    <3>3. t4[k] = t3[k]
      BY <2>2 DEF Behind
    <3>4. t3[k] = t2[k]
      BY <2>2 DEF Behind
    <3> QED BY <3>1, <3>2, <3>3, <3>4
  <2>4. \A k \in 1 .. 3 : all[k] = h[k]
    <3> TAKE k \in 1 .. 3
    <3>1. all[k] = t2[k]
      BY <2>3
    <3>2. t2[k] = t1[k]
      BY <2>2 DEF Behind
    <3>3. t1[k] = h[k]
      BY <2>2 DEF Behind
    <3> QED BY <3>1, <3>2, <3>3
  <2>5. n2 > 0 => all[3 + n1 + 1] = s2[1]
    <3> HAVE n2 > 0
    <3>1. 1 \in 1 .. n2 /\ 3 + n1 + 1 \in 1 .. 3 + n1 + n2
      OBVIOUS
    <3>2. all[3 + n1 + 1] = t2[3 + n1 + 1]
      BY <2>3, <3>1
    <3>3. t2[3 + n1 + 1] = s2[1]
      BY <2>2, <3>1 DEF Behind
    <3> QED BY <3>2, <3>3
  <2>6. Long(all, 3 + n1 + n2 + n3 + n4 + n5 + n6)
    BY <2>2 DEF Behind
  <2> QED BY <2>1, <2>4, <2>5, <2>6, Zenon
<1> QED BY <1>3, <1>10, <1>19

\* The words of every image: the header tells the lengths, and the sections
\* the flags name follow in their order, to the last word.
LEMMA ImageLaid ==
  ASSUME NEW img, ProperImage(img)
  PROVE  /\ Len(Image(img)) = Before(img, 7)
         /\ Image(img)[2].n = img.n /\ Image(img)[3].q = img.q
         /\ "SCHED" \in img.flags => Image(img)[3].n_sched = Len(img.sched)
         /\ "ORDER" \in img.flags => Image(img)[Before(img, 2) + 1] = Len(img.order)
<1>1. \A n_replicas, bipolar_flag :
        LET h == Header(img, n_replicas, bipolar_flag)
        IN  /\ Long(h, 3) /\ h[2].n = img.n /\ h[3].q = img.q
            /\ "SCHED" \in img.flags => h[3].n_sched = Len(img.sched)
  <2> TAKE n_replicas, bipolar_flag
  <2> DEFINE h == Header(img, n_replicas, bipolar_flag)
  <2>1. h = [k \in 1 .. 3 |-> h[k]]
    BY DEF Header
  <2>2. h[2].n = img.n /\ h[3].q = img.q
    BY DEF Header
  <2>3. "SCHED" \in img.flags => h[3].n_sched = Len(img.sched)
    BY DEF Header
  <2>4. Long(h, 3)
    <3> HIDE DEF h
    <3> QED BY <2>1, LongFunction
  <2> QED BY <2>2, <2>3, <2>4
<1>2. img.n \in Nat /\ img.q \in {2, 4, 8} /\ DEG_MAX \in Nat
  BY SizesAssumption DEF ProperImage
<1>3. \E h, r : Built(img, h, r)
  <2>1. CASE img.q = 2
    <3> DEFINE h == Header(img, img.n_replicas, img.bipolar)
               row(i) == SlotWords(img.rows[i - 1].slots) \o << <<img.rows[i - 1].bias>> >>
               rows == [i \in 1 .. img.n |-> row(i)]
               r == FlattenSeq(rows)
    <3>1. \A i \in 1 .. img.n : Long(rows[i], DEG_MAX + 1)
      <4> TAKE i \in 1 .. img.n
      <4>1. Long(<< <<img.rows[i - 1].bias>> >>, 1)
        BY Single
      <4>2. Long(row(i), DEG_MAX + 1)
        BY <4>1, SiteLong
      <4>3. rows[i] = row(i)
        OBVIOUS
      <4> QED BY <4>2, <4>3, Zenon
    <3>2. rows = [i \in 1 .. img.n |-> rows[i]]
      OBVIOUS
    <3>3. Long(r, img.n * (DEG_MAX + 1))
      <4> HIDE DEF rows
      <4>1. Long(rows, img.n)
        BY <1>2, <3>2, LongFunction
      <4> QED BY <1>2, <3>1, <4>1, LongFlat
    <3>4. Image(img) = h \o When("ROWS", img, r)
                         \o When("ORDER", img, OrderWords(img))
                         \o When("SCHED", img, img.sched)
                         \o When("SEEDS", img, [k \in 1 .. SEED_WORDS |-> k])
                         \o When("STATE", img, Packed(img.state, img.n, STATE_SITES(img.q)))
                         \o When("RID", img, Packed(img.rid, img.n, RID_SITES))
      BY <2>1 DEF Image, build_image
    <3>5. /\ Long(h, 3) /\ h[2].n = img.n /\ h[3].q = img.q
          /\ "SCHED" \in img.flags => h[3].n_sched = Len(img.sched)
      BY <1>1
    <3>6. Long(r, img.n * (DEG_MAX + (IF img.q = 8 THEN 3 ELSE 1)))
      <4> HIDE DEF r
      <4> QED BY <2>1, <3>3
    <3> HIDE DEF h, r
    <3>7. Built(img, h, r)
      BY <3>4, <3>5, <3>6, Zenon DEF Built
    <3> QED BY <3>7, Zenon
  <2>2. CASE img.q # 2
    <3> DEFINE nrep == IF "RID" \in img.flags
                       THEN 1 + Max({img.rid[i] : i \in 0 .. img.n - 1}) ELSE 1
               h == Header(img, nrep, FALSE)
               b == IF img.q = 8 THEN 3 ELSE 1
               row(i) == SlotWords(img.rows[i - 1].slots) \o _bias_words(img.rows[i - 1].bias, img.q)
               rows == [i \in 1 .. img.n |-> row(i)]
               r == FlattenSeq(rows)
    <3>0. b \in Nat
      OBVIOUS
    <3>1. \A i \in 1 .. img.n : Long(rows[i], DEG_MAX + b)
      <4> TAKE i \in 1 .. img.n
      <4>0. img.q \in {4, 8}
        BY <1>2, <2>2
      <4>1. Long(_bias_words(img.rows[i - 1].bias, img.q), b)
        BY <4>0, BiasLong
      <4>2. Long(row(i), DEG_MAX + b)
        <5> HIDE DEF b
        <5> QED BY <3>0, <4>1, SiteLong
      <4>3. rows[i] = row(i)
        OBVIOUS
      <4> QED BY <4>2, <4>3, Zenon
    <3>2. rows = [i \in 1 .. img.n |-> rows[i]]
      OBVIOUS
    <3>3. Long(r, img.n * (DEG_MAX + b))
      <4> HIDE DEF rows, b
      <4>1. Long(rows, img.n)
        BY <1>2, <3>2, LongFunction
      <4>2. DEG_MAX + b \in Nat
        BY <1>2, <3>0
      <4> QED BY <1>2, <3>1, <4>1, <4>2, LongFlat
    <3>4. Image(img) = h \o When("ROWS", img, r)
                         \o When("ORDER", img, OrderWords(img))
                         \o When("SCHED", img, img.sched)
                         \o When("SEEDS", img, [k \in 1 .. SEED_WORDS |-> k])
                         \o When("STATE", img, Packed(img.state, img.n, STATE_SITES(img.q)))
                         \o When("RID", img, Packed(img.rid, img.n, RID_SITES))
      BY <2>2 DEF Image, qsite_image
    <3>5. /\ Long(h, 3) /\ h[2].n = img.n /\ h[3].q = img.q
          /\ "SCHED" \in img.flags => h[3].n_sched = Len(img.sched)
      <4> HIDE DEF nrep
      <4> QED BY <1>1
    <3> HIDE DEF h, r
    <3>6. Built(img, h, r)
      BY <3>3, <3>4, <3>5, Zenon DEF Built
    <3> QED BY <3>6, Zenon
  <2> QED BY <2>1, <2>2
<1>4. PICK h, r : Built(img, h, r)
  BY <1>3, Zenon
<1>5. /\ Long(Image(img), Before(img, 7))
      /\ \A k \in 1 .. 3 : Image(img)[k] = h[k]
      /\ "ORDER" \in img.flags => Image(img)[Before(img, 2) + 1] = Len(img.order)
  BY <1>4, Assembled, Zenon
<1>6. Len(Image(img)) = Before(img, 7)
  BY <1>5 DEF Long
<1>7. Image(img)[2] = h[2] /\ Image(img)[3] = h[3]
  BY <1>5
<1>8. h[2].n = img.n /\ h[3].q = img.q /\ ("SCHED" \in img.flags => h[3].n_sched = Len(img.sched))
  BY <1>4, Zenon DEF Built
<1> QED BY <1>5, <1>6, <1>7, <1>8, Zenon

-----------------------------------------------------------------------------
(* The face: credits, and the beats of a section *)

\* A cycle keeps the pool, and a beat leaves only with a credit behind it.
LEMMA PoolStep ==
  ASSUME PoolKept, NEW rsp \in BOOLEAN, Face(rsp)
  PROVE  /\ cred' \in Nat /\ infl' \in Nat /\ cred' + infl' = FACE_CRED
         /\ req' # "none" => cred' > 0
         /\ infl' = infl + One(req # "none") - One(rsp)
         /\ rsp => infl > 0
<1>1. /\ cred \in Nat /\ infl \in Nat /\ cred + infl = FACE_CRED
      /\ req # "none" => cred > 0
  BY DEF PoolKept
<1>2. /\ rsp => infl > 0
      /\ cred' = cred_nxt(rsp)
      /\ infl' = infl + One(req # "none") - One(rsp)
      /\ req' # "none" => cred_nxt(rsp) # 0
  BY DEF Face, IssueRead, Emit
<1>3. FACE_CRED \in Nat
  BY FaceCredAssumption
<1> QED BY <1>1, <1>2, <1>3 DEF One, cred_nxt

\* Outside streams and drains the face is idle, and stays so.
LEMMA IdleFace ==
  ASSUME PoolKept, NEW rsp \in BOOLEAN, Face(rsp), st \notin Streaming \union {"RUN"}
  PROVE  /\ ~rsp /\ infl' = 0 /\ req' = "none"
         /\ cred' \in Nat /\ infl' \in Nat /\ cred' + infl' = FACE_CRED
<1>1. infl = 0 /\ req = "none"
  BY DEF PoolKept
<1>2. ~rsp /\ infl' = 0
  BY <1>1, PoolStep DEF One
<1>3. req' = "none"
  BY DEF Face, IssueRead, Emit
<1> QED BY <1>2, <1>3, PoolStep

\* The record of the image cursors
CursorType ==
  [iss : Nat, tot : Nat, rsp : Nat, sect : Nat, site : Nat, slot : Nat, idx : Nat, nord : Nat]

\* What a cycle does to the cursors, field by field.
LEMMA MovedFacts ==
  ASSUME c \in CursorType, NEW rsp \in BOOLEAN
  PROVE  /\ Moved(rsp) \in CursorType
         /\ Moved(rsp).iss = c.iss + One(IssueRead(rsp))
         /\ Moved(rsp).rsp = c.rsp + One(rsp /\ st \in Streaming)
         /\ Moved(rsp).tot = c.tot /\ Moved(rsp).sect = c.sect /\ Moved(rsp).site = c.site
         /\ Moved(rsp).slot = c.slot /\ Moved(rsp).idx = c.idx /\ Moved(rsp).nord = c.nord
<1>1. c.iss + One(IssueRead(rsp)) \in Nat /\ c.rsp + One(rsp /\ st \in Streaming) \in Nat
  BY DEF CursorType, One
<1> QED BY <1>1 DEF Moved, CursorType

\* A cycle of a stream of which so many words are taken: what was taken, and what
\* is asked for and not answered, add up to the beats issued; behind its last word
\* nothing is on its way.
LEMMA StreamStep ==
  ASSUME PoolKept, c \in CursorType, st \in Streaming, NEW rsp \in BOOLEAN, Face(rsp),
         NEW taken \in Nat, taken + infl + One(req # "none") = c.iss, c.iss <= c.tot
  PROVE  /\ taken + One(rsp) + infl' + One(req' # "none") = Moved(rsp).iss
         /\ Moved(rsp).iss <= c.tot
         /\ taken + One(rsp) <= c.tot
         /\ rsp /\ taken + 1 = c.tot => infl' = 0 /\ req' = "none"
<1>1. c.iss \in Nat /\ c.tot \in Nat
  BY DEF CursorType
<1>2. infl \in Nat /\ infl' \in Nat /\ infl' = infl + One(req # "none") - One(rsp) /\ (rsp => infl > 0)
  BY PoolStep DEF PoolKept
<1>3. req' = IF IssueRead(rsp) THEN "rd" ELSE "none"
  BY DEF Face, Emit, Streaming
<1>4. IssueRead(rsp) => c.iss # c.tot
  BY DEF IssueRead
<1>5. Moved(rsp).iss = c.iss + One(IssueRead(rsp))
  BY MovedFacts
<1>6. One(req' # "none") = One(IssueRead(rsp))
  BY <1>3 DEF One
<1>7. One(req # "none") \in 0 .. 1 /\ One(IssueRead(rsp)) \in 0 .. 1 /\ One(rsp) \in 0 .. 1
  BY DEF One
<1>8. /\ rsp => One(rsp) = 1
      /\ ~rsp => One(rsp) = 0
      /\ ~IssueRead(rsp) => One(IssueRead(rsp)) = 0
  BY DEF One
<1>9. taken + One(rsp) + infl' + One(req' # "none") = Moved(rsp).iss
  BY <1>1, <1>2, <1>5, <1>6, <1>7
<1>10. Moved(rsp).iss <= c.tot
  BY <1>1, <1>4, <1>5, <1>7, <1>8
<1>11. taken + One(rsp) <= c.tot
  BY <1>1, <1>2, <1>7, <1>8
<1>12. ASSUME rsp, taken + 1 = c.tot PROVE infl' = 0 /\ req' = "none"
  <2>1. PICK n \in 0 .. 1 : n = One(req' # "none")
    BY <1>6, <1>7
  <2>2. taken + 1 + infl' + n <= taken + 1
    <3>1. taken + 1 + infl' + n = Moved(rsp).iss
      BY <1>8, <1>9, <1>12, <2>1
    <3> QED BY <1>10, <1>12, <3>1
  <2>3. infl' = 0 /\ One(req' # "none") = 0
    BY <1>2, <2>1, <2>2
  <2> QED BY <2>3 DEF One
<1> QED BY <1>9, <1>10, <1>11, <1>12

\* The place of a section is a number.
LEMMA BeforeInt ==
  ASSUME NEW k \in 1 .. 7, NEW img, ProperImage(img)
  PROVE  Before(img, k) \in Nat
  BY BeforeSteps

\* The word of a section that an answer brings, or the wait for it: what was
\* true of the words taken is true of one more.
LEMMA ReadingStep ==
  ASSUME PoolKept, c \in CursorType, st \in Streaming, NEW rsp \in BOOLEAN, Face(rsp),
         NEW k \in 1 .. 7, ProperImage(cmd.img), NEW skipped \in Nat, NEW total, NEW taken \in Nat,
         Reading(k, skipped, total, taken),
         c'.iss = Moved(rsp).iss, c'.rsp = Moved(rsp).rsp, c'.tot = Moved(rsp).tot, cmd' = cmd
  PROVE  /\ c.sect = k /\ Flagged(SectionOrder[k]) /\ total \in Nat
         /\ taken + One(rsp) <= total
         /\ c'.sect = k /\ taken + One(rsp) < total => Reading(k, skipped, total, taken + One(rsp))'
         /\ One(rsp) = 1 /\ taken + 1 = total =>
              /\ infl' = 0 /\ req' = "none"
              /\ c'.rsp = Before(cmd.img, k) + skipped + total
<1>1. /\ c.sect = k /\ Flagged(SectionOrder[k])
      /\ c.rsp = Before(cmd.img, k) + skipped + taken
      /\ c.tot = total /\ taken < total
      /\ taken + infl + One(req # "none") = c.iss /\ c.iss <= c.tot
  BY DEF Reading
<1>2. /\ taken + One(rsp) + infl' + One(req' # "none") = Moved(rsp).iss
      /\ Moved(rsp).iss <= c.tot
      /\ taken + One(rsp) <= c.tot
      /\ rsp /\ taken + 1 = c.tot => infl' = 0 /\ req' = "none"
  BY <1>1, StreamStep
<1>3. c.tot \in Nat /\ c.rsp \in Nat
  BY DEF CursorType
<1>4. Moved(rsp).rsp = c.rsp + One(rsp) /\ Moved(rsp).tot = c.tot
  BY MovedFacts
<1>5. c'.rsp = Before(cmd.img, k) + skipped + (taken + One(rsp))
  <2>1. One(rsp) \in 0 .. 1
    BY DEF One
  <2>2. PICK r, o \in Nat : r = c.rsp /\ o = One(rsp)
    BY <1>3, <2>1
  <2>3. PICK b : b = Before(cmd.img, k)
    OBVIOUS
  <2>4. r = b + skipped + taken
    BY <1>1, <2>2, <2>3
  <2>5. c'.rsp = r + o
    BY <1>4, <2>2
  <2>6. b \in Int
    BY <2>3, BeforeInt
  <2>7. c'.rsp = b + skipped + (taken + o)
    BY <2>2, <2>4, <2>5, <2>6
  <2> QED BY <2>2, <2>3, <2>7
<1>6. ASSUME c'.sect = k, taken + One(rsp) < total
      PROVE  Reading(k, skipped, total, taken + One(rsp))'
  <2>1. Flagged(SectionOrder[k])' /\ cmd'.img = cmd.img
    BY <1>1 DEF Flagged
  <2>2. c'.tot = total
    BY <1>1, <1>4
  <2>3. taken + One(rsp) + infl' + One(req' # "none") = c'.iss /\ c'.iss <= c'.tot
    BY <1>2, <1>4
  <2> QED BY <1>5, <1>6, <2>1, <2>2, <2>3 DEF Reading
<1>7. ASSUME One(rsp) = 1, taken + 1 = total
      PROVE  infl' = 0 /\ req' = "none" /\ c'.rsp = Before(cmd.img, k) + skipped + total
  <2>1. rsp
    BY <1>7 DEF One
  <2> QED BY <1>1, <1>2, <1>5, <1>7, <2>1
<1> QED BY <1>1, <1>2, <1>3, <1>6, <1>7

\* A step inside the sections of an image: the header's facts stay.
LEMMA SectionFrame ==
  ASSUME FaceInv, NEW rsp \in BOOLEAN, Face(rsp),
         st \in Configuring \ DOMAIN HeaderWords,
         st' \in (Configuring \ DOMAIN HeaderWords) \union {"IDLE"},
         UNCHANGED <<hdr, q, plan, cmd, words>>, c' \in CursorType,
         st' \notin Streaming => infl' = 0 /\ req' = "none",
         InSection', Between'
  PROVE  FaceInv'
<1>1. FaceType'
  <2>1. st' \in Configuring \union Sampling \union {"RUN", "IDLE"}
    BY DEF Configuring
  <2>2. st' \notin Sampling /\ st' # "RUN"
    BY DEF Configuring, Sampling, Streaming, HeaderWords
  <2>3. /\ DOMAIN hdr = {"n", "work_track", "n_sched", "n_replicas"} /\ plan \in Seq(ToSet(plan))
        /\ \A x \in ToSet(plan) : /\ x.op \in {"PCONFIG", "PSAMPLE", "PDRAIN"}
                                  /\ x.op = "PCONFIG" => ProperImage(x.img)
        /\ cmd.op = "PCONFIG" => ProperImage(cmd.img) /\ words = Image(cmd.img)
        /\ st \in Configuring => cmd.op = "PCONFIG"
    BY DEF FaceInv, FaceType
  <2>4. cmd.op = "PCONFIG"
    BY <2>3
  <2> QED BY <2>1, <2>2, <2>3, <2>4 DEF FaceType, CursorType
<1>2. PoolKept'
  <2>1. /\ cred' \in Nat /\ infl' \in Nat /\ cred' + infl' = FACE_CRED
        /\ req' # "none" => cred' > 0
    BY PoolStep DEF FaceInv
  <2> QED BY <2>1 DEF PoolKept
<1>3. HeaderKnown'
  <2>1. /\ hdr.n = cmd.img.n /\ q = cmd.img.q
        /\ Flagged("SCHED") => hdr.n_sched = Len(cmd.img.sched)
    BY DEF FaceInv, HeaderKnown, HeaderWords
  <2>2. Flagged("SCHED")' = Flagged("SCHED")
    BY DEF Flagged
  <2> QED BY <2>1, <2>2 DEF HeaderKnown
<1>4. InHeader'
  <2>1. st' \notin DOMAIN HeaderWords
    BY DEF HeaderWords
  <2> QED BY <2>1 DEF InHeader, HeaderWords
<1> QED BY <1>1, <1>2, <1>3, <1>4 DEF FaceInv

\* The next section, or the end, comes behind the last word of this one.
LEMMA Afterwards ==
  ASSUME st' \in {"SCAN", "COPY", "SECT"}, c'.sect \in 1 .. 7, c'.rsp = Before(cmd.img, c'.sect),
         cmd' = cmd
  PROVE  InSection' /\ Between'
<1>1. InSection'
  BY DEF InSection
<1>2. Between'
  BY DEF Between
<1> QED BY <1>1, <1>2

\* What the sections' states have in common
LEMMA ReadingFacts ==
  ASSUME FaceInv, st \in Streaming \ DOMAIN HeaderWords
  PROVE  /\ PoolKept /\ c \in CursorType /\ st \in Streaming /\ ProperImage(cmd.img)
         /\ hdr.n = cmd.img.n /\ q = cmd.img.q
         /\ Flagged("SCHED") => hdr.n_sched = Len(cmd.img.sched)
         /\ st \in Configuring \ DOMAIN HeaderWords
<1>1. st \in Configuring \ DOMAIN HeaderWords
  BY DEF Configuring
<1> QED BY <1>1 DEF FaceInv, FaceType, HeaderKnown, CursorType, HeaderWords

\* What a word does to the cursors: on to the next section,
LEMMA SectOn ==
  ASSUME NEW m \in CursorType, NEW n, n = [m EXCEPT !.sect = @ + 1]
  PROVE  /\ n \in CursorType /\ n.iss = m.iss /\ n.rsp = m.rsp /\ n.tot = m.tot
         /\ n.nord = m.nord /\ n.sect = m.sect + 1
  BY DEF CursorType

\* or one word further.
LEMMA IdxOn ==
  ASSUME NEW m \in CursorType, NEW n, n = [m EXCEPT !.idx = @ + 1]
  PROVE  /\ n \in CursorType /\ n.iss = m.iss /\ n.rsp = m.rsp /\ n.tot = m.tot
         /\ n.nord = m.nord /\ n.sect = m.sect /\ n.idx = m.idx + 1
  BY DEF CursorType

\* or one word of a site's row,
LEMMA SlotOn ==
  ASSUME NEW m \in CursorType, NEW n, n = [m EXCEPT !.slot = @ + 1]
  PROVE  /\ n \in CursorType /\ n.iss = m.iss /\ n.rsp = m.rsp /\ n.tot = m.tot
         /\ n.nord = m.nord /\ n.sect = m.sect /\ n.site = m.site /\ n.slot = m.slot + 1
  BY DEF CursorType

\* or on to the next site's row.
LEMMA SiteOn ==
  ASSUME NEW m \in CursorType, NEW n, n = [m EXCEPT !.slot = 0, !.site = @ + 1]
  PROVE  /\ n \in CursorType /\ n.iss = m.iss /\ n.rsp = m.rsp /\ n.tot = m.tot
         /\ n.nord = m.nord /\ n.sect = m.sect /\ n.site = m.site + 1 /\ n.slot = 0
<1>1. PICK o : o = [m EXCEPT !.slot = 0]
  OBVIOUS
<1>2. /\ o \in CursorType /\ o.iss = m.iss /\ o.rsp = m.rsp /\ o.tot = m.tot
      /\ o.nord = m.nord /\ o.sect = m.sect /\ o.site = m.site /\ o.slot = 0
  BY <1>1 DEF CursorType
<1>3. n = [o EXCEPT !.site = @ + 1]
  BY <1>1 DEF CursorType
<1> QED BY <1>2, <1>3 DEF CursorType

\* The last word of a section: nothing is on its way, and the cursors are behind it.
LEMMA LastWord ==
  ASSUME PoolKept, c \in CursorType, st \in Streaming, ProperImage(cmd.img),
         NEW rsp \in BOOLEAN, One(rsp) = 1, Face(rsp), cmd' = cmd,
         NEW k \in 1 .. 6, NEW skipped \in Nat, NEW taken \in Nat,
         Reading(k, skipped, taken + 1, taken),
         skipped + (taken + 1) = SectionWords(cmd.img, SectionOrder[k]),
         c'.iss = Moved(rsp).iss, c'.rsp = Moved(rsp).rsp, c'.tot = Moved(rsp).tot,
         c'.sect = Moved(rsp).sect + 1
  PROVE  /\ infl' = 0 /\ req' = "none"
         /\ c'.sect \in 1 .. 7 /\ c'.rsp = Before(cmd.img, c'.sect)
<1>1. c.sect = k
  BY DEF Reading
<1>2. c'.sect = k + 1
  BY <1>1, MovedFacts
<1>3. k \in 1 .. 7 /\ taken + 1 \in Nat
  OBVIOUS
<1>4. /\ infl' = 0 /\ req' = "none"
      /\ c'.rsp = Before(cmd.img, k) + skipped + (taken + 1)
  BY <1>3, ReadingStep
<1>5. /\ Before(cmd.img, k + 1) = Before(cmd.img, k) + SectionWords(cmd.img, SectionOrder[k])
      /\ Before(cmd.img, k) \in Nat
  BY <1>3, BeforeSteps, BeforeInt
<1>6. c'.rsp = Before(cmd.img, k + 1)
  <2>1. PICK b \in Nat : b = Before(cmd.img, k)
    BY <1>5
  <2>2. c'.rsp = b + skipped + (taken + 1)
    BY <1>4, <2>1
  <2>3. Before(cmd.img, k + 1) = b + (skipped + (taken + 1))
    BY <1>5, <2>1
  <2> QED BY <2>2, <2>3
<1> QED BY <1>2, <1>4, <1>6

\* A section that counts its words with idx: its last word.
LEMMA CountedLast ==
  ASSUME FaceInv, st \in Streaming \ DOMAIN HeaderWords,
         NEW rsp \in BOOLEAN, One(rsp) = 1, Face(rsp), cmd' = cmd,
         NEW k \in 1 .. 6, NEW skipped \in Nat, NEW total \in Nat,
         Reading(k, skipped, total, c.idx),
         skipped + total = SectionWords(cmd.img, SectionOrder[k]),
         c.idx + 1 = total,
         NEW n, n = [Moved(rsp) EXCEPT !.sect = @ + 1], c' = n
  PROVE  /\ c' \in CursorType
         /\ infl' = 0 /\ req' = "none"
         /\ c'.sect \in 1 .. 7 /\ c'.rsp = Before(cmd.img, c'.sect)
<1>1. /\ PoolKept /\ c \in CursorType /\ st \in Streaming /\ ProperImage(cmd.img)
  BY ReadingFacts
<1>2. PICK taken \in Nat : taken = c.idx
  BY <1>1 DEF CursorType
<1>3. total = taken + 1
  BY <1>2
<1>4. Reading(k, skipped, taken + 1, taken)
  BY <1>2, <1>3
<1>5. skipped + (taken + 1) = SectionWords(cmd.img, SectionOrder[k])
  BY <1>3
<1>6. Moved(rsp) \in CursorType
  BY <1>1, MovedFacts
<1>7. /\ n \in CursorType /\ n.iss = Moved(rsp).iss /\ n.rsp = Moved(rsp).rsp
      /\ n.tot = Moved(rsp).tot /\ n.sect = Moved(rsp).sect + 1
  BY <1>6, SectOn, Zenon
<1>8. /\ infl' = 0 /\ req' = "none"
      /\ c'.sect \in 1 .. 7 /\ c'.rsp = Before(cmd.img, c'.sect)
  <2>1. /\ c'.iss = Moved(rsp).iss /\ c'.rsp = Moved(rsp).rsp
        /\ c'.tot = Moved(rsp).tot /\ c'.sect = Moved(rsp).sect + 1
    BY <1>7, Zenon
  <2> QED BY <1>1, <1>2, <1>4, <1>5, <2>1, LastWord, Zenon
<1> QED BY <1>7, <1>8, Zenon

\* Any other word of it
LEMMA CountedOn ==
  ASSUME FaceInv, st \in Streaming \ DOMAIN HeaderWords,
         NEW rsp \in BOOLEAN, One(rsp) = 1, Face(rsp), cmd' = cmd,
         NEW k \in 1 .. 6, NEW skipped \in Nat, NEW total \in Nat,
         Reading(k, skipped, total, c.idx),
         c.idx + 1 # total,
         NEW n, n = [Moved(rsp) EXCEPT !.idx = @ + 1], c' = n
  PROVE  /\ c' \in CursorType /\ c'.nord = c.nord
         /\ Reading(k, skipped, total, c.idx)'
<1>1. /\ PoolKept /\ c \in CursorType /\ st \in Streaming /\ ProperImage(cmd.img)
  BY ReadingFacts
<1>2. PICK taken \in Nat : taken = c.idx
  BY <1>1 DEF CursorType
<1>3. Reading(k, skipped, total, taken) /\ c.sect = k /\ taken < total
  BY <1>2 DEF Reading
<1>4. /\ Moved(rsp) \in CursorType /\ Moved(rsp).sect = k /\ Moved(rsp).idx = taken
      /\ Moved(rsp).nord = c.nord
  BY <1>1, <1>2, <1>3, MovedFacts
<1>5. /\ n \in CursorType /\ n.iss = Moved(rsp).iss /\ n.rsp = Moved(rsp).rsp
      /\ n.tot = Moved(rsp).tot /\ n.nord = Moved(rsp).nord /\ n.sect = Moved(rsp).sect
      /\ n.idx = Moved(rsp).idx + 1
  BY <1>4, IdxOn, Zenon
<1>6. /\ c'.iss = Moved(rsp).iss /\ c'.rsp = Moved(rsp).rsp /\ c'.tot = Moved(rsp).tot
      /\ c'.nord = c.nord /\ c'.sect = k /\ c'.idx = taken + 1 /\ c' \in CursorType
  BY <1>4, <1>5, Zenon
<1>7. One(rsp) = 1 /\ taken + 1 < total /\ k \in 1 .. 7
  <2>1. taken + 1 < total
    BY <1>2, <1>3
  <2>2. k \in 1 .. 7
    OBVIOUS
  <2> QED BY <2>1, <2>2
<1>8. Reading(k, skipped, total, taken + One(rsp))'
  BY <1>1, <1>3, <1>6, <1>7, ReadingStep, Zenon
<1>9. Reading(k, skipped, total, c.idx)'
  BY <1>6, <1>7, <1>8 DEF Reading
<1> QED BY <1>6, <1>9

\* A cycle without an answer: the words taken are the same.
LEMMA ReadingWaits ==
  ASSUME PoolKept, c \in CursorType, st \in Streaming, ProperImage(cmd.img),
         NEW rsp \in BOOLEAN, One(rsp) = 0, Face(rsp), cmd' = cmd,
         NEW k \in 1 .. 6, NEW skipped \in Nat, NEW total, NEW taken \in Nat,
         Reading(k, skipped, total, taken), NEW n, n = Moved(rsp), c' = n
  PROVE  Reading(k, skipped, total, taken)'
<1>1. c.sect = k /\ taken < total
  BY DEF Reading
<1>2. n.iss = Moved(rsp).iss /\ n.rsp = Moved(rsp).rsp /\ n.tot = Moved(rsp).tot /\ n.sect = k
  BY <1>1, MovedFacts
<1>3. k \in 1 .. 7 /\ taken + One(rsp) = taken
  OBVIOUS
<1>4. taken + One(rsp) < total
  BY <1>1, <1>3
<1>5. /\ c'.iss = Moved(rsp).iss /\ c'.rsp = Moved(rsp).rsp /\ c'.tot = Moved(rsp).tot /\ c'.sect = k
  BY <1>2
<1>6. Reading(k, skipped, total, taken + One(rsp))'
  BY <1>3, <1>4, <1>5, ReadingStep
<1> QED BY <1>3, <1>6 DEF Reading

\* A cycle without an answer, in any section of an image
LEMMA WaitInSection ==
  ASSUME FaceInv, st \in Streaming \ DOMAIN HeaderWords, NEW rsp \in BOOLEAN, One(rsp) = 0, Face(rsp),
         st' = st, NEW n, n = Moved(rsp), c' = n, UNCHANGED <<hdr, q, plan, cmd, words>>
  PROVE  FaceInv'
<1>1. /\ PoolKept /\ c \in CursorType /\ st \in Streaming /\ ProperImage(cmd.img)
      /\ st \in Configuring \ DOMAIN HeaderWords
  BY ReadingFacts
<1>2. /\ n \in CursorType /\ n.site = c.site /\ n.slot = c.slot /\ n.idx = c.idx /\ n.nord = c.nord
  BY <1>1, MovedFacts
<1>3. /\ c.idx \in Nat /\ c.site \in Nat /\ c.slot \in Nat
  BY <1>1 DEF CursorType
<1>4. ASSUME NEW k \in 1 .. 6, NEW skipped \in Nat, NEW total, NEW taken \in Nat,
             Reading(k, skipped, total, taken)
      PROVE  Reading(k, skipped, total, taken)'
  <2>1. cmd' = cmd
    OBVIOUS
  <2> QED BY <1>1, <1>4, <2>1, ReadingWaits
<1>5. InSection
  BY DEF FaceInv
<1>6. /\ c'.site = c.site /\ c'.slot = c.slot /\ c'.idx = c.idx /\ c'.nord = c.nord
      /\ c' \in CursorType
  BY <1>2
<1>7. ASSUME st = "ROWS" PROVE InSection'
  <2>1. PICK total, taken : total = hdr.n * RowWords /\ taken = c.site * RowWords + c.slot
    OBVIOUS
  <2>2. Reading(1, 0, total, taken) /\ c.site < hdr.n /\ c.slot < RowWords
    BY <1>5, <1>7, <2>1 DEF InSection
  <2>3. taken \in Nat
    <3>1. RowWords \in Nat
      BY SizesAssumption DEF RowWords
    <3> QED BY <1>3, <2>1, <3>1
  <2>4. Reading(1, 0, total, taken)'
    BY <1>4, <2>2, <2>3
  <2>5. RowWords' = RowWords
    BY DEF RowWords
  <2>6. /\ Reading(1, 0, hdr.n * RowWords, c.site * RowWords + c.slot)'
        /\ c'.site < hdr'.n /\ c'.slot < RowWords'
    BY <1>6, <2>1, <2>2, <2>4, <2>5 DEF Reading
  <2> QED BY <1>7, <2>6 DEF InSection
<1>8. ASSUME st = "ORD_N" PROVE InSection'
  <2>1. Reading(2, 0, 1, 0)'
    BY <1>4, <1>5, <1>8 DEF InSection
  <2> QED BY <1>8, <2>1 DEF InSection
<1>9. PICK i \in Nat : i = c.idx
  BY <1>3
<1>10. ASSUME st = "ORD_CB" PROVE InSection'
  <2>1. Reading(2, 1, COLORS_MAX, i) /\ c.nord = Len(cmd.img.order)
    BY <1>5, <1>9, <1>10 DEF InSection
  <2>2. Reading(2, 1, COLORS_MAX, i)'
    BY <1>4, <2>1
  <2>3. Reading(2, 1, COLORS_MAX, c.idx)'
    BY <1>6, <1>9, <2>2 DEF Reading
  <2> QED BY <1>6, <1>10, <2>1, <2>3 DEF InSection
<1>11. ASSUME st = "ORD_IDX" PROVE InSection'
  <2>1. PICK total : total = c.nord
    OBVIOUS
  <2>2. Reading(2, 1 + COLORS_MAX, total, i) /\ c.nord = Len(cmd.img.order)
    BY <1>5, <1>9, <1>11, <2>1 DEF InSection
  <2>3. Reading(2, 1 + COLORS_MAX, total, i)'
    BY <1>4, <2>2, SizesAssumption
  <2>4. Reading(2, 1 + COLORS_MAX, c.nord, c.idx)'
    BY <1>6, <1>9, <2>1, <2>3 DEF Reading
  <2> QED BY <1>6, <1>11, <2>2, <2>4 DEF InSection
<1>12. ASSUME st = "SCHED" PROVE InSection'
  <2>1. PICK total : total = hdr.n_sched
    OBVIOUS
  <2>2. Reading(3, 0, total, i)
    BY <1>5, <1>9, <1>12, <2>1 DEF InSection
  <2>3. Reading(3, 0, total, i)'
    BY <1>4, <2>2
  <2>4. Reading(3, 0, hdr.n_sched, c.idx)'
    BY <1>6, <1>9, <2>1, <2>3 DEF Reading
  <2> QED BY <1>12, <2>4 DEF InSection
<1>13. ASSUME st = "SEEDS" PROVE InSection'
  <2>1. Reading(4, 0, SEED_WORDS, i)
    BY <1>5, <1>9, <1>13 DEF InSection
  <2>2. Reading(4, 0, SEED_WORDS, i)'
    BY <1>4, <2>1
  <2>3. Reading(4, 0, SEED_WORDS, c.idx)'
    BY <1>6, <1>9, <2>2 DEF Reading
  <2> QED BY <1>13, <2>3 DEF InSection
<1>14. ASSUME st = "STATE" PROVE InSection'
  <2>1. PICK total : total = CeilDiv(hdr.n, STATE_SITES(q))
    OBVIOUS
  <2>2. Reading(5, 0, total, i)
    BY <1>5, <1>9, <1>14, <2>1 DEF InSection
  <2>3. Reading(5, 0, total, i)'
    BY <1>4, <2>2
  <2>4. CeilDiv(hdr'.n, STATE_SITES(q')) = total
    BY <2>1
  <2>5. Reading(5, 0, CeilDiv(hdr.n, STATE_SITES(q)), c.idx)'
    BY <1>6, <1>9, <2>3, <2>4 DEF Reading
  <2> QED BY <1>14, <2>5 DEF InSection
<1>15. ASSUME st = "RID" PROVE InSection'
  <2>1. PICK total : total = CeilDiv(hdr.n, RID_SITES)
    OBVIOUS
  <2>2. Reading(6, 0, total, i)
    BY <1>5, <1>9, <1>15, <2>1 DEF InSection
  <2>3. Reading(6, 0, total, i)'
    BY <1>4, <2>2
  <2>4. CeilDiv(hdr'.n, RID_SITES) = total
    BY <2>1
  <2>5. Reading(6, 0, CeilDiv(hdr.n, RID_SITES), c.idx)'
    BY <1>6, <1>9, <2>3, <2>4 DEF Reading
  <2> QED BY <1>15, <2>5 DEF InSection
<1>16. InSection'
  BY <1>7, <1>8, <1>10, <1>11, <1>12, <1>13, <1>14, <1>15 DEF Streaming, HeaderWords
<1>17. Between'
  <2>1. st' \notin {"SCAN", "COPY", "SECT", "FIN", "IDLE"}
    BY DEF Streaming
  <2> QED BY <2>1 DEF Between
<1>18. st' \in (Configuring \ DOMAIN HeaderWords) \union {"IDLE"} /\ st' \in Streaming
  BY <1>1
<1> QED BY <1>1, <1>6, <1>16, <1>17, <1>18, SectionFrame

\* The header: its words are asked for and read like a section's.
LEMMA HeaderFacts ==
  ASSUME FaceInv, st \in DOMAIN HeaderWords, NEW rsp \in BOOLEAN, Face(rsp)
  PROVE  /\ c.rsp = HeaderWords[st] /\ c.tot = 3 /\ c \in CursorType /\ st \in Streaming
         /\ cmd.op = "PCONFIG" /\ ProperImage(cmd.img) /\ words = Image(cmd.img)
         /\ c.rsp + One(rsp) + infl' + One(req' # "none") = Moved(rsp).iss /\ Moved(rsp).iss <= 3
         /\ c.rsp + One(rsp) <= 3
         /\ rsp /\ c.rsp = 2 => infl' = 0 /\ req' = "none"
<1>1. st \in Streaming /\ st \in Configuring
  BY DEF HeaderWords, Streaming, Configuring
<1>2. /\ c \in CursorType /\ cmd.op = "PCONFIG" /\ ProperImage(cmd.img) /\ words = Image(cmd.img)
      /\ PoolKept
  BY <1>1 DEF FaceInv, FaceType, CursorType
<1>3. /\ c.rsp = HeaderWords[st] /\ c.tot = 3
      /\ c.rsp + infl + One(req # "none") = c.iss /\ c.iss <= c.tot
  BY DEF FaceInv, InHeader
<1>4. PICK taken \in Nat : taken = c.rsp
  BY <1>2 DEF CursorType
<1>5. taken + infl + One(req # "none") = c.iss /\ c.iss <= c.tot
  BY <1>3, <1>4
<1>6. /\ taken + One(rsp) + infl' + One(req' # "none") = Moved(rsp).iss
      /\ Moved(rsp).iss <= c.tot
      /\ taken + One(rsp) <= c.tot
      /\ rsp /\ taken + 1 = c.tot => infl' = 0 /\ req' = "none"
  BY <1>1, <1>2, <1>5, StreamStep
<1> QED BY <1>1, <1>2, <1>3, <1>4, <1>6

\* A cycle that stays in the header keeps the invariant.
LEMMA HeaderStep ==
  ASSUME FaceInv, st \in DOMAIN HeaderWords, st' \in DOMAIN HeaderWords,
         NEW rsp \in BOOLEAN, Face(rsp), HeaderWords[st'] = HeaderWords[st] + One(rsp),
         NEW n, n = Moved(rsp), c' = n, UNCHANGED <<plan, cmd, words>>,
         DOMAIN hdr' = DOMAIN hdr, st' = "HDR2" => hdr'.n = cmd.img.n
  PROVE  FaceInv'
<1>1. /\ c.rsp = HeaderWords[st] /\ c.tot = 3 /\ c \in CursorType /\ st \in Streaming
      /\ cmd.op = "PCONFIG" /\ ProperImage(cmd.img) /\ words = Image(cmd.img)
      /\ c.rsp + One(rsp) + infl' + One(req' # "none") = Moved(rsp).iss /\ Moved(rsp).iss <= 3
  BY HeaderFacts
<1>2. st' \in Streaming /\ st' \in Configuring /\ st' \notin Sampling
  BY DEF HeaderWords, Streaming, Configuring, Sampling
<1>3. /\ n \in CursorType /\ n.iss = Moved(rsp).iss /\ n.tot = 3
      /\ n.rsp = c.rsp + One(rsp)
  <2>1. /\ Moved(rsp) \in CursorType /\ Moved(rsp).tot = c.tot
        /\ Moved(rsp).rsp = c.rsp + One(rsp /\ st \in Streaming)
    BY <1>1, MovedFacts
  <2>2. One(rsp /\ st \in Streaming) = One(rsp)
    BY <1>1 DEF One
  <2> QED BY <1>1, <2>1, <2>2
<1>4. FaceType'
  <2>1. /\ DOMAIN hdr = {"n", "work_track", "n_sched", "n_replicas"} /\ plan \in Seq(ToSet(plan))
        /\ \A x \in ToSet(plan) : /\ x.op \in {"PCONFIG", "PSAMPLE", "PDRAIN"}
                                  /\ x.op = "PCONFIG" => ProperImage(x.img)
    BY DEF FaceInv, FaceType
  <2>2. st' # "RUN"
    BY DEF HeaderWords
  <2>3. c' \in CursorType
    BY <1>3
  <2> QED BY <1>1, <1>2, <2>1, <2>2, <2>3 DEF FaceType, CursorType
<1>5. PoolKept'
  <2>1. /\ cred' \in Nat /\ infl' \in Nat /\ cred' + infl' = FACE_CRED
        /\ req' # "none" => cred' > 0
    BY PoolStep DEF FaceInv
  <2> QED BY <1>2, <2>1 DEF PoolKept
<1>6. HeaderKnown'
  BY DEF HeaderKnown, HeaderWords
<1>7. InHeader'
  <2>1. c'.rsp = HeaderWords[st'] /\ c'.tot = 3 /\ c'.iss = Moved(rsp).iss /\ c'.rsp = c.rsp + One(rsp)
    BY <1>1, <1>3
  <2>2. c'.rsp + infl' + One(req' # "none") = c'.iss /\ c'.iss <= c'.tot
    BY <1>1, <2>1
  <2> QED BY <2>1, <2>2 DEF InHeader, HeaderWords
<1>8. InSection' /\ Between'
  <2>1. st' \in {"HDR0", "HDR1", "HDR2"}
    BY DEF HeaderWords
  <2> QED BY <2>1 DEF InSection, Between
<1> QED BY <1>4, <1>5, <1>6, <1>7, <1>8 DEF FaceInv

\* A wait in the header
LEMMA WaitInHeader ==
  ASSUME FaceInv, st \in DOMAIN HeaderWords, NEW rsp \in BOOLEAN, One(rsp) = 0, Face(rsp),
         st' = st, NEW n, n = Moved(rsp), c' = n, UNCHANGED <<hdr, q, plan, cmd, words>>
  PROVE  FaceInv'
<1>1. HeaderWords[st] \in Nat
  BY DEF HeaderWords
<1>2. st' \in DOMAIN HeaderWords /\ HeaderWords[st'] = HeaderWords[st] + One(rsp)
  BY <1>1
<1>3. st' = "HDR2" => hdr'.n = cmd.img.n
  <2>1. st' = "HDR2" => st \in Configuring \ {"HDR0", "HDR1"}
    BY DEF Configuring, Streaming
  <2> QED BY <2>1 DEF FaceInv, HeaderKnown
<1>4. DOMAIN hdr' = DOMAIN hdr /\ UNCHANGED <<plan, cmd, words>>
  OBVIOUS
<1> QED BY <1>2, <1>3, <1>4, HeaderStep

\* Every state that waits for a word
LEMMA Waits ==
  ASSUME FaceInv, st \in Streaming, NEW rsp \in BOOLEAN, ~rsp, Face(rsp),
         st' = st, NEW n, n = Moved(rsp), c' = n, UNCHANGED <<hdr, q, command>>
  PROVE  FaceInv'
<1>1. One(rsp) = 0
  BY Zenon DEF One
<1>2. UNCHANGED <<hdr, q, plan, cmd, words>>
  BY DEF command
<1>3. CASE st \in DOMAIN HeaderWords
  BY <1>1, <1>2, <1>3, WaitInHeader
<1>4. CASE st \notin DOMAIN HeaderWords
  BY <1>1, <1>2, <1>4, WaitInSection
<1> QED BY <1>3, <1>4

\* The header's three words
LEMMA Hdr0Step ==
  ASSUME FaceInv, NEW rsp \in BOOLEAN, Face(rsp), Hdr0(rsp)
  PROVE  FaceInv'
<1>1. st = "HDR0" /\ UNCHANGED command
  BY DEF Hdr0, Wait
<1>2. CASE ~rsp
  <2>1. st' = st /\ c' = Moved(rsp) /\ UNCHANGED <<hdr, q>>
    BY <1>2 DEF Hdr0, Wait
  <2> QED BY <1>1, <1>2, <2>1, Waits DEF Streaming
<1>3. CASE rsp
  <2>1. st' = "HDR1" /\ c' = Moved(rsp) /\ UNCHANGED <<hdr, q, plan, cmd, words>>
    BY <1>1, <1>3 DEF Hdr0, Wait, command
  <2>2. st \in DOMAIN HeaderWords /\ st' \in DOMAIN HeaderWords /\ HeaderWords[st'] = HeaderWords[st] + One(rsp)
    <3>1. One(rsp) = 1
      BY <1>3, Zenon DEF One
    <3> QED BY <1>1, <2>1, <3>1 DEF HeaderWords
  <2>3. DOMAIN hdr' = DOMAIN hdr /\ st' # "HDR2"
    BY <2>1
  <2> QED BY <2>1, <2>2, <2>3, HeaderStep
<1> QED BY <1>2, <1>3

\* The second word brings the number of sites.
LEMMA Hdr1Step ==
  ASSUME FaceInv, NEW rsp \in BOOLEAN, Face(rsp), Hdr1(rsp)
  PROVE  FaceInv'
<1>1. st = "HDR1" /\ UNCHANGED command
  BY DEF Hdr1, Wait
<1>2. CASE ~rsp
  <2>1. st' = st /\ c' = Moved(rsp) /\ UNCHANGED <<hdr, q>>
    BY <1>2 DEF Hdr1, Wait
  <2> QED BY <1>1, <1>2, <2>1, Waits DEF Streaming
<1>3. CASE rsp
  <2>1. /\ st' = "HDR2" /\ c' = Moved(rsp) /\ UNCHANGED <<plan, cmd, words>>
        /\ hdr' = [hdr EXCEPT !.n = Data.n, !.work_track = Data.work_track]
    BY <1>1, <1>3 DEF Hdr1, Wait, command
  <2>2. st \in DOMAIN HeaderWords /\ st' \in DOMAIN HeaderWords /\ HeaderWords[st'] = HeaderWords[st] + One(rsp)
    <3>1. One(rsp) = 1
      BY <1>3, Zenon DEF One
    <3> QED BY <1>1, <2>1, <3>1 DEF HeaderWords
  <2>3. DOMAIN hdr = {"n", "work_track", "n_sched", "n_replicas"}
    BY DEF FaceInv, FaceType
  <2>4. DOMAIN hdr' = DOMAIN hdr /\ hdr'.n = Data.n
    BY <2>1, <2>3
  <2>5. Data.n = cmd.img.n
    <3>1. c.rsp = 1 /\ words = Image(cmd.img) /\ ProperImage(cmd.img)
      BY <1>1, <2>2, HeaderFacts DEF HeaderWords
    <3>2. Data = Image(cmd.img)[2]
      BY <3>1 DEF Data
    <3> QED BY <3>1, <3>2, ImageLaid
  <2> QED BY <2>1, <2>2, <2>4, <2>5, HeaderStep
<1> QED BY <1>2, <1>3

\* The third brings the arity and the schedule's length, and the last of the
\* three answers ends the header.
LEMMA Hdr2Step ==
  ASSUME FaceInv, NEW rsp \in BOOLEAN, Face(rsp), Hdr2(rsp)
  PROVE  FaceInv'
<1>1. st = "HDR2" /\ UNCHANGED <<plan, cmd, words>>
  BY DEF Hdr2, Wait, command
<1>2. CASE ~rsp
  <2>1. st' = st /\ c' = Moved(rsp) /\ UNCHANGED <<hdr, q>> /\ UNCHANGED command
    BY <1>2 DEF Hdr2, Wait
  <2> QED BY <1>1, <1>2, <2>1, Waits DEF Streaming
<1>3. CASE rsp
  <2>1. /\ st' \in {"SCAN", "SECT"}
        /\ c' = [Moved(rsp) EXCEPT !.sect = 1, !.site = 0, !.slot = 0, !.idx = 0]
        /\ q' = Data.q
        /\ hdr' = [hdr EXCEPT !.n_sched = IF Flagged("SCHED") THEN Data.n_sched ELSE @,
                              !.n_replicas = IF Data.n_replicas = 0 THEN 1 ELSE Data.n_replicas]
    BY <1>3 DEF Hdr2, Wait
  <2>2. st \in DOMAIN HeaderWords /\ HeaderWords[st] = 2
    BY <1>1 DEF HeaderWords
  <2>3. /\ c.rsp = 2 /\ c \in CursorType /\ st \in Streaming
        /\ cmd.op = "PCONFIG" /\ ProperImage(cmd.img) /\ words = Image(cmd.img)
        /\ infl' = 0 /\ req' = "none"
    BY <1>3, <2>2, HeaderFacts
  <2>4. c' \in CursorType /\ c'.rsp = 3 /\ c'.sect = 1
    <3>1. Moved(rsp) \in CursorType /\ Moved(rsp).rsp = 3
      <4>1. One(rsp /\ st \in Streaming) = 1
        BY <1>3, <2>3, Zenon DEF One
      <4> QED BY <2>3, <4>1, MovedFacts
    <3>2. PICK m \in CursorType : m = Moved(rsp)
      BY <3>1
    <3>3. c' = [m EXCEPT !.sect = 1, !.site = 0, !.slot = 0, !.idx = 0] /\ m.rsp = 3
      BY <2>1, <3>1, <3>2
    <3> QED BY <3>3 DEF CursorType
  <2>5. DOMAIN hdr = {"n", "work_track", "n_sched", "n_replicas"} /\ hdr.n = cmd.img.n
    BY <1>1 DEF FaceInv, FaceType, HeaderKnown, Configuring, Streaming
  <2>6. /\ DOMAIN hdr' = DOMAIN hdr /\ hdr'.n = cmd.img.n
        /\ Flagged("SCHED") => hdr'.n_sched = Data.n_sched
    BY <2>1, <2>5
  <2>7. Data.q = cmd.img.q /\ (Flagged("SCHED") => Data.n_sched = Len(cmd.img.sched))
    <3>1. Data = Image(cmd.img)[3]
      BY <2>3 DEF Data
    <3> QED BY <2>3, <3>1, ImageLaid DEF Flagged
  <2>8. FaceType'
    <3>1. /\ plan \in Seq(ToSet(plan))
          /\ \A x \in ToSet(plan) : /\ x.op \in {"PCONFIG", "PSAMPLE", "PDRAIN"}
                                    /\ x.op = "PCONFIG" => ProperImage(x.img)
      BY DEF FaceInv, FaceType
    <3>2. st' \in Configuring /\ st' \notin Sampling /\ st' # "RUN"
      BY <2>1 DEF Configuring, Sampling
    <3> QED BY <1>1, <2>3, <2>4, <2>5, <2>6, <3>1, <3>2 DEF FaceType, CursorType
  <2>9. PoolKept'
    <3>1. /\ cred' \in Nat /\ infl' \in Nat /\ cred' + infl' = FACE_CRED
      BY PoolStep DEF FaceInv
    <3> QED BY <2>3, <3>1 DEF PoolKept
  <2>10. HeaderKnown'
    <3>1. Flagged("SCHED")' = Flagged("SCHED")
      BY <1>1 DEF Flagged
    <3> QED BY <1>1, <2>1, <2>6, <2>7, <3>1 DEF HeaderKnown
  <2>11. InHeader'
    BY <2>1 DEF InHeader, HeaderWords
  <2>12. InSection' /\ Between'
    <3>1. Before(cmd.img, 1) = 3
      BY <2>3, BeforeSteps
    <3> QED BY <1>1, <2>1, <2>4, <3>1, Afterwards
  <2> QED BY <2>8, <2>9, <2>10, <2>11, <2>12 DEF FaceInv
<1> QED BY <1>2, <1>3

\* Each flagged section of the image has as many beats as the builder gave it
\* words, and at least one; the order's first beat is one of its words.
LEMMA SectionBeat ==
  ASSUME FaceInv, st \in Configuring \ DOMAIN HeaderWords
  PROVE  /\ Flagged("ROWS") => SectionWords(cmd.img, "ROWS") = hdr.n * RowWords
         /\ Flagged("ORDER") => SectionWords(cmd.img, "ORDER") = 1 + COLORS_MAX + Len(cmd.img.order)
         /\ Flagged("SCHED") => SectionWords(cmd.img, "SCHED") = hdr.n_sched
         /\ Flagged("SEEDS") => SectionWords(cmd.img, "SEEDS") = SEED_WORDS
         /\ Flagged("STATE") => SectionWords(cmd.img, "STATE") = CeilDiv(hdr.n, STATE_SITES(q))
         /\ Flagged("RID") => SectionWords(cmd.img, "RID") = CeilDiv(hdr.n, RID_SITES)
         /\ hdr.n \in Nat \ {0} /\ RowWords \in Nat \ {0} /\ hdr.n * RowWords \in Nat \ {0}
         /\ Flagged("ORDER") => Len(cmd.img.order) \in Nat
         /\ Flagged("SCHED") => hdr.n_sched \in Nat \ {0}
         /\ CeilDiv(hdr.n, STATE_SITES(q)) \in Nat \ {0} /\ CeilDiv(hdr.n, RID_SITES) \in Nat \ {0}
         /\ ProperImage(cmd.img)
<1>1. cmd.op = "PCONFIG" /\ ProperImage(cmd.img)
  BY DEF FaceInv, FaceType
<1>2. /\ hdr.n = cmd.img.n /\ q = cmd.img.q
      /\ Flagged("SCHED") => hdr.n_sched = Len(cmd.img.sched)
  BY DEF FaceInv, HeaderKnown, HeaderWords
<1>3. hdr.n \in Nat \ {0} /\ q \in {2, 4, 8}
  BY <1>1, <1>2 DEF ProperImage
<1>4. RowWords = DEG_MAX + (IF cmd.img.q = 8 THEN 3 ELSE 1)
  BY <1>2 DEF RowWords
<1>5. RowWords \in Nat \ {0}
  BY SizesAssumption DEF RowWords
<1>6. hdr.n * RowWords \in Nat \ {0}
  <2>1. \A a, b \in Nat \ {0} : a * b \in Nat \ {0}
    <3> TAKE a, b \in Nat \ {0}
    <3>1. 1 * b <= a * b
      BY TimesGrows
    <3> QED BY <3>1
  <2> QED BY <1>3, <1>5, <2>1
<1>7. Flagged("SCHED") => Len(cmd.img.sched) \in Nat \ {0}
  <2> HAVE Flagged("SCHED")
  <2>1. cmd.img.sched \in Seq(ToSet(cmd.img.sched)) /\ cmd.img.sched # <<>>
    BY <1>1 DEF ProperImage, Flagged
  <2> QED BY <2>1
<1>8. STATE_SITES(q) \in Nat \ {0} /\ RID_SITES \in Nat \ {0}
  BY <1>3, SizesAssumption
<1>9. CeilDiv(hdr.n, STATE_SITES(q)) \in Nat \ {0} /\ CeilDiv(hdr.n, RID_SITES) \in Nat \ {0}
  BY <1>3, <1>8, CeilDivPositive, Zenon
<1>10. Flagged("ORDER") => Len(cmd.img.order) \in Nat
  BY <1>1 DEF ProperImage, Flagged
<1>11. \A s : Flagged(s) <=> s \in cmd.img.flags
  BY DEF Flagged
<1> QED BY <1>1, <1>2, <1>3, <1>4, <1>5, <1>6, <1>7, <1>9, <1>10, <1>11, SectionLengths

\* A section starts with none of its words taken.
LEMMA SectionStart ==
  ASSUME FaceInv, st = "SECT", NEW rsp \in BOOLEAN, Face(rsp), cmd' = cmd,
         NEW k \in 1 .. 6, c.sect = k, Flagged(SectionOrder[k]), NEW total \in Nat \ {0},
         c' = [c EXCEPT !.iss = 0, !.tot = total, !.site = 0, !.slot = 0, !.idx = 0]
  PROVE  /\ c' \in CursorType /\ c'.site = 0 /\ c'.slot = 0 /\ c'.idx = 0
         /\ Reading(k, 0, total, 0)'
<1>1. c \in CursorType
  BY DEF FaceInv, FaceType, CursorType
<1>2. /\ c' \in CursorType /\ c'.site = 0 /\ c'.slot = 0 /\ c'.idx = 0
      /\ c'.iss = 0 /\ c'.tot = total /\ c'.sect = c.sect /\ c'.rsp = c.rsp
  BY <1>1 DEF CursorType
<1>3. c.rsp = Before(cmd.img, c.sect)
  BY DEF FaceInv, Between
<1>4. infl' = 0 /\ One(req' # "none") = 0
  <2>1. st \notin Streaming \union {"RUN"}
    BY DEF Streaming
  <2>2. infl' = 0 /\ req' = "none"
    BY <2>1, IdleFace DEF FaceInv
  <2> QED BY <2>2 DEF One
<1>5. Reading(k, 0, total, 0)'
  <2>1. Flagged(SectionOrder[k])'
    BY DEF Flagged
  <2>2. c'.rsp = Before(cmd'.img, k) + 0 + 0
    <3>1. c'.rsp \in Nat /\ c'.rsp = Before(cmd'.img, k)
      BY <1>2, <1>3 DEF CursorType
    <3> QED BY <3>1
  <2> QED BY <1>2, <1>4, <2>1, <2>2 DEF Reading
<1> QED BY <1>2, <1>5

\* The walk over the flags: a section left out has no words, a section found
\* starts to be read, and behind the sixth the image is over.
LEMMA SectStep ==
  ASSUME FaceInv, NEW rsp \in BOOLEAN, Face(rsp), Sect
  PROVE  FaceInv'
<1>1. st = "SECT" /\ UNCHANGED <<hdr, q, plan, cmd, words>>
  BY DEF Sect, command
<1>2. st \in Configuring \ DOMAIN HeaderWords /\ st \notin Streaming \union {"RUN"}
  BY <1>1 DEF Configuring, HeaderWords, Streaming
<1>3. c \in CursorType /\ c.sect \in 1 .. 7 /\ c.rsp = Before(cmd.img, c.sect)
  BY <1>1 DEF FaceInv, FaceType, CursorType, Between
<1>4. infl' = 0 /\ req' = "none"
  BY <1>2, IdleFace DEF FaceInv
<1>5. Len(SectionOrder) = 6
  BY DEF SectionOrder
<1>6. ProperImage(cmd.img)
  BY <1>2, SectionBeat
<1>7. CASE c.sect > 6
  <2>1. st' = "FIN" /\ c' = c
    BY <1>5, <1>7 DEF Sect
  <2>2. c'.rsp = Before(cmd.img, 7)
    <3>1. c.sect = 7
      BY <1>3, <1>7
    <3> QED BY <1>3, <2>1, <3>1
  <2>3. InSection' /\ Between'
    BY <1>1, <2>1, <2>2 DEF InSection, Between
  <2>4. st' \in Configuring \ DOMAIN HeaderWords
    BY <2>1 DEF Configuring, HeaderWords
  <2> QED BY <1>1, <1>2, <1>3, <1>4, <2>1, <2>3, <2>4, SectionFrame
<1>8. CASE c.sect <= 6 /\ ~Flagged(SectionOrder[c.sect])
  <2>1. st' = st /\ c' = [c EXCEPT !.sect = @ + 1]
    BY <1>3, <1>5, <1>8 DEF Sect
  <2>2. c' \in CursorType /\ c'.rsp = c.rsp /\ c'.sect = c.sect + 1
    BY <1>3, <2>1, SectOn, MovedFacts DEF CursorType
  <2>3. PICK k \in 1 .. 6 : k = c.sect
    BY <1>3, <1>8
  <2>4. SectionWords(cmd.img, SectionOrder[k]) = 0
    BY <1>8, <2>3 DEF SectionWords, Flagged
  <2>5. Before(cmd.img, k + 1) = Before(cmd.img, k) + 0 /\ Before(cmd.img, k) \in Nat
    BY <1>6, <2>4, BeforeSteps
  <2>6. c'.sect \in 1 .. 7 /\ c'.rsp = Before(cmd.img, c'.sect)
    BY <1>3, <2>2, <2>3, <2>5
  <2>7. InSection' /\ Between'
    BY <1>1, <2>1, <2>6, Afterwards
  <2> QED BY <1>1, <1>2, <1>4, <2>1, <2>2, <2>7, SectionFrame
<1>9. CASE c.sect <= 6 /\ Flagged(SectionOrder[c.sect])
  <2>1. PICK k \in 1 .. 6 : k = c.sect
    BY <1>3, <1>9
  <2>2. /\ st' = IF SectionOrder[k] = "ORDER" THEN "ORD_N" ELSE SectionOrder[k]
        /\ c' = [c EXCEPT !.iss = 0, !.tot = SectionBeats(SectionOrder[k]),
                          !.site = 0, !.slot = 0, !.idx = 0]
    BY <1>5, <1>9, <2>1 DEF Sect
  <2>3. ASSUME NEW total \in Nat \ {0}, SectionBeats(SectionOrder[k]) = total
        PROVE  /\ c' \in CursorType /\ c'.site = 0 /\ c'.slot = 0 /\ c'.idx = 0
               /\ Reading(k, 0, total, 0)'
    <3>1. c' = [c EXCEPT !.iss = 0, !.tot = total, !.site = 0, !.slot = 0, !.idx = 0]
      BY <2>2, <2>3
    <3>2. c.sect = k /\ Flagged(SectionOrder[k]) /\ cmd' = cmd
      BY <1>1, <1>9, <2>1
    <3> QED BY <1>1, <3>1, <3>2, SectionStart
  <2>4. Flagged(SectionOrder[k])
    BY <1>9, <2>1
  <2>5. CASE k = 1
    <3>1. SectionOrder[k] = "ROWS" /\ Flagged("ROWS")
      BY <2>4, <2>5 DEF SectionOrder
    <3>2. PICK total \in Nat \ {0} : total = hdr.n * RowWords
      BY <1>2, SectionBeat
    <3>3. SectionBeats("ROWS") = total
      BY <3>2 DEF SectionBeats
    <3>4. /\ c' \in CursorType /\ c'.site = 0 /\ c'.slot = 0 /\ Reading(1, 0, total, 0)' /\ st' = "ROWS"
      BY <2>2, <2>3, <2>5, <3>1, <3>3 DEF Reading
    <3>5. /\ Reading(1, 0, hdr.n * RowWords, c.site * RowWords + c.slot)'
          /\ c'.site < hdr'.n /\ c'.slot < RowWords'
      <4>1. RowWords' = RowWords /\ hdr' = hdr
        BY <1>1 DEF RowWords
      <4>2. RowWords \in Nat \ {0} /\ hdr.n \in Nat \ {0}
        BY <1>2, SectionBeat
      <4>3. c'.site * RowWords' + c'.slot = 0 /\ hdr'.n * RowWords' = total
        BY <3>2, <3>4, <4>1, <4>2
      <4> QED BY <3>4, <4>1, <4>2, <4>3 DEF Reading
    <3>6. InSection' /\ Between'
      BY <3>4, <3>5 DEF InSection, Between
    <3>7. st' \in Streaming /\ st' \in Configuring \ DOMAIN HeaderWords
      BY <3>4 DEF Streaming, Configuring, HeaderWords
    <3> QED BY <1>1, <1>2, <3>4, <3>6, <3>7, SectionFrame
  <2>6. CASE k = 2
    <3>1. SectionOrder[k] = "ORDER" /\ st' = "ORD_N"
      BY <2>2, <2>6 DEF SectionOrder
    <3>2. SectionBeats("ORDER") = 1
      BY DEF SectionBeats
    <3>3. /\ c' \in CursorType /\ Reading(2, 0, 1, 0)'
      BY <2>3, <2>6, <3>1, <3>2 DEF Reading
    <3>4. InSection' /\ Between'
      BY <3>1, <3>3 DEF InSection, Between
    <3>5. st' \in Streaming /\ st' \in Configuring \ DOMAIN HeaderWords
      BY <3>1 DEF Streaming, Configuring, HeaderWords
    <3> QED BY <1>1, <1>2, <3>3, <3>4, <3>5, SectionFrame
  <2>7. CASE k = 3
    <3>1. SectionOrder[k] = "SCHED" /\ Flagged("SCHED") /\ st' = "SCHED"
      BY <2>2, <2>4, <2>7 DEF SectionOrder
    <3>2. PICK total \in Nat \ {0} : total = hdr.n_sched
      BY <1>2, <3>1, SectionBeat
    <3>3. SectionBeats("SCHED") = total
      BY <3>2 DEF SectionBeats
    <3>4. /\ c' \in CursorType /\ c'.idx = 0 /\ Reading(3, 0, total, 0)'
      BY <2>3, <2>7, <3>1, <3>3 DEF Reading
    <3>5. Reading(3, 0, hdr.n_sched, c.idx)'
      BY <1>1, <3>2, <3>4 DEF Reading
    <3>6. InSection' /\ Between'
      BY <3>1, <3>5 DEF InSection, Between
    <3>7. st' \in Streaming /\ st' \in Configuring \ DOMAIN HeaderWords
      BY <3>1 DEF Streaming, Configuring, HeaderWords
    <3> QED BY <1>1, <1>2, <3>4, <3>6, <3>7, SectionFrame
  <2>8. CASE k = 4
    <3>1. SectionOrder[k] = "SEEDS" /\ st' = "SEEDS"
      BY <2>2, <2>8 DEF SectionOrder
    <3>2. SectionBeats("SEEDS") = SEED_WORDS /\ SEED_WORDS \in Nat \ {0}
      BY SizesAssumption DEF SectionBeats
    <3>3. /\ c' \in CursorType /\ c'.idx = 0 /\ Reading(4, 0, SEED_WORDS, 0)'
      BY <2>3, <2>8, <3>1, <3>2 DEF Reading
    <3>4. Reading(4, 0, SEED_WORDS, c.idx)'
      BY <3>3 DEF Reading
    <3>5. InSection' /\ Between'
      BY <3>1, <3>4 DEF InSection, Between
    <3>6. st' \in Streaming /\ st' \in Configuring \ DOMAIN HeaderWords
      BY <3>1 DEF Streaming, Configuring, HeaderWords
    <3> QED BY <1>1, <1>2, <3>3, <3>5, <3>6, SectionFrame
  <2>9. CASE k = 5
    <3>1. SectionOrder[k] = "STATE" /\ st' = "STATE"
      BY <2>2, <2>9 DEF SectionOrder
    <3>2. PICK total \in Nat \ {0} : total = CeilDiv(hdr.n, STATE_SITES(q))
      BY <1>2, SectionBeat
    <3>3. SectionBeats("STATE") = total
      BY <3>2 DEF SectionBeats
    <3>4. /\ c' \in CursorType /\ c'.idx = 0 /\ Reading(5, 0, total, 0)'
      BY <2>3, <2>9, <3>1, <3>3 DEF Reading
    <3>5. Reading(5, 0, CeilDiv(hdr.n, STATE_SITES(q)), c.idx)'
      <4>1. CeilDiv(hdr'.n, STATE_SITES(q')) = total
        BY <1>1, <3>2
      <4> QED BY <3>4, <4>1 DEF Reading
    <3>6. InSection' /\ Between'
      BY <3>1, <3>5 DEF InSection, Between
    <3>7. st' \in Streaming /\ st' \in Configuring \ DOMAIN HeaderWords
      BY <3>1 DEF Streaming, Configuring, HeaderWords
    <3> QED BY <1>1, <1>2, <3>4, <3>6, <3>7, SectionFrame
  <2>10. CASE k = 6
    <3>1. SectionOrder[k] = "RID" /\ st' = "RID"
      BY <2>2, <2>10 DEF SectionOrder
    <3>2. PICK total \in Nat \ {0} : total = CeilDiv(hdr.n, RID_SITES)
      BY <1>2, SectionBeat
    <3>3. SectionBeats("RID") = total
      BY <3>2 DEF SectionBeats
    <3>4. /\ c' \in CursorType /\ c'.idx = 0 /\ Reading(6, 0, total, 0)'
      BY <2>3, <2>10, <3>1, <3>3 DEF Reading
    <3>5. Reading(6, 0, CeilDiv(hdr.n, RID_SITES), c.idx)'
      <4>1. CeilDiv(hdr'.n, RID_SITES) = total
        BY <1>1, <3>2
      <4> QED BY <3>4, <4>1 DEF Reading
    <3>6. InSection' /\ Between'
      BY <3>1, <3>5 DEF InSection, Between
    <3>7. st' \in Streaming /\ st' \in Configuring \ DOMAIN HeaderWords
      BY <3>1 DEF Streaming, Configuring, HeaderWords
    <3> QED BY <1>1, <1>2, <3>4, <3>6, <3>7, SectionFrame
  <2> QED BY <2>5, <2>6, <2>7, <2>8, <2>9, <2>10
<1> QED BY <1>3, <1>7, <1>8, <1>9

\* A word of a section that counts its words with idx
LEMMA CountedStep ==
  ASSUME FaceInv, st \in {"ORD_IDX", "SCHED", "SEEDS", "STATE", "RID"},
         NEW rsp \in BOOLEAN, One(rsp) = 1, Face(rsp), UNCHANGED <<hdr, q, plan, cmd, words>>,
         NEW k \in 1 .. 6, NEW skipped \in Nat, NEW total \in Nat,
         Reading(k, skipped, total, c.idx),
         skipped + total = SectionWords(cmd.img, SectionOrder[k]),
         c.idx + 1 = total => st' = "SECT" /\ c' = [Moved(rsp) EXCEPT !.sect = @ + 1],
         c.idx + 1 # total => st' = st /\ c' = [Moved(rsp) EXCEPT !.idx = @ + 1],
         st' = st /\ Reading(k, skipped, total, c.idx)' /\ c'.nord = c.nord => InSection'
  PROVE  FaceInv'
<1>1. st \in Streaming \ DOMAIN HeaderWords
  BY DEF Streaming, HeaderWords
<1>2. st \in Configuring \ DOMAIN HeaderWords
  BY <1>1 DEF Configuring
<1>3. CASE c.idx + 1 = total
  <2>1. PICK n : n = [Moved(rsp) EXCEPT !.sect = @ + 1]
    OBVIOUS
  <2>2. c' = n /\ st' = "SECT" /\ cmd' = cmd
    BY <1>3, <2>1
  <2>3. /\ c' \in CursorType /\ infl' = 0 /\ req' = "none"
        /\ c'.sect \in 1 .. 7 /\ c'.rsp = Before(cmd.img, c'.sect)
    BY <1>1, <1>3, <2>1, <2>2, CountedLast, Zenon
  <2>4. InSection' /\ Between'
    BY <2>2, <2>3, Afterwards
  <2>5. st' \in (Configuring \ DOMAIN HeaderWords) \union {"IDLE"}
    BY <2>2 DEF Configuring, HeaderWords
  <2> QED BY <1>2, <2>3, <2>4, <2>5, SectionFrame, Zenon
<1>4. CASE c.idx + 1 # total
  <2>1. PICK n : n = [Moved(rsp) EXCEPT !.idx = @ + 1]
    OBVIOUS
  <2>2. c' = n /\ st' = st /\ cmd' = cmd
    BY <1>4, <2>1
  <2>3. /\ c' \in CursorType /\ c'.nord = c.nord
        /\ Reading(k, skipped, total, c.idx)'
    BY <1>1, <1>4, <2>1, <2>2, CountedOn, Zenon
  <2>4. InSection'
    BY <2>2, <2>3, Zenon
  <2>5. Between'
    BY <2>2 DEF Between
  <2>6. st' \in (Configuring \ DOMAIN HeaderWords) \union {"IDLE"} /\ st' \in Streaming
    BY <1>1, <1>2, <2>2
  <2> QED BY <1>2, <2>3, <2>4, <2>5, <2>6, SectionFrame, Zenon
<1> QED BY <1>3, <1>4

\* The seeds' words,
LEMMA SeedsStep ==
  ASSUME FaceInv, NEW rsp \in BOOLEAN, Face(rsp), Seeds(rsp)
  PROVE  FaceInv'
<1>1. st = "SEEDS" /\ UNCHANGED command /\ UNCHANGED <<plan, cmd, words>>
  BY DEF Seeds, Simple, Wait, command
<1>2. CASE ~rsp
  <2>1. st' = st /\ c' = Moved(rsp) /\ UNCHANGED <<hdr, q>>
    BY <1>2 DEF Seeds, Simple, Wait
  <2> QED BY <1>1, <1>2, <2>1, Waits DEF Streaming
<1>3. CASE rsp
  <2>1. /\ st' = IF c.idx = SEED_WORDS - 1 THEN "SECT" ELSE st
        /\ c' = IF c.idx = SEED_WORDS - 1 THEN [Moved(rsp) EXCEPT !.sect = @ + 1]
                ELSE [Moved(rsp) EXCEPT !.idx = @ + 1]
        /\ UNCHANGED <<hdr, q>>
    BY <1>3 DEF Seeds, Simple, Wait, Word
  <2>2. One(rsp) = 1
    BY <1>3, Zenon DEF One
  <2>3. Reading(4, 0, SEED_WORDS, c.idx)
    BY <1>1 DEF FaceInv, InSection
  <2>4. c.idx \in Nat /\ SEED_WORDS \in Nat
    BY SizesAssumption DEF FaceInv, FaceType
  <2>5. c.idx + 1 = SEED_WORDS <=> c.idx = SEED_WORDS - 1
    BY <2>4
  <2>6. 0 + SEED_WORDS = SectionWords(cmd.img, SectionOrder[4])
    <3>1. SectionOrder[4] = "SEEDS"
      BY DEF SectionOrder
    <3>2. Flagged("SEEDS") /\ st \in Configuring \ DOMAIN HeaderWords
      BY <1>1, <2>3, <3>1 DEF Reading, Configuring, Streaming, HeaderWords
    <3>3. SectionWords(cmd.img, "SEEDS") = SEED_WORDS
      BY <3>2, SectionBeat
    <3> QED BY <2>4, <3>1, <3>3
  <2>7. st' = st /\ Reading(4, 0, SEED_WORDS, c.idx)' /\ c'.nord = c.nord => InSection'
    BY <1>1 DEF InSection
  <2>8. /\ c.idx + 1 = SEED_WORDS => st' = "SECT" /\ c' = [Moved(rsp) EXCEPT !.sect = @ + 1]
        /\ c.idx + 1 # SEED_WORDS => st' = st /\ c' = [Moved(rsp) EXCEPT !.idx = @ + 1]
    BY <2>1, <2>5
  <2>9. st \in {"ORD_IDX", "SCHED", "SEEDS", "STATE", "RID"} /\ 4 \in 1 .. 6 /\ 0 \in Nat
    BY <1>1
  <2> QED BY <1>1, <2>1, <2>2, <2>3, <2>4, <2>6, <2>7, <2>8, <2>9, CountedStep
<1> QED BY <1>2, <1>3

\* the schedule's words,
LEMMA SchedStep ==
  ASSUME FaceInv, NEW rsp \in BOOLEAN, Face(rsp), Sched(rsp)
  PROVE  FaceInv'
<1>1. st = "SCHED" /\ UNCHANGED command /\ UNCHANGED <<plan, cmd, words>>
  BY DEF Sched, Wait, command
<1>2. CASE ~rsp
  <2>1. st' = st /\ c' = Moved(rsp) /\ UNCHANGED <<hdr, q>>
    BY <1>2 DEF Sched, Wait
  <2> QED BY <1>1, <1>2, <2>1, Waits DEF Streaming
<1>3. CASE rsp
  <2>1. /\ st' = IF c.idx + 1 = hdr.n_sched THEN "SECT" ELSE st
        /\ c' = IF c.idx + 1 = hdr.n_sched THEN [Moved(rsp) EXCEPT !.sect = @ + 1]
                ELSE [Moved(rsp) EXCEPT !.idx = @ + 1]
        /\ UNCHANGED <<hdr, q>>
    BY <1>3 DEF Sched, Wait, Word
  <2>2. One(rsp) = 1
    BY <1>3, Zenon DEF One
  <2>3. Reading(3, 0, hdr.n_sched, c.idx)
    BY <1>1 DEF FaceInv, InSection
  <2>4. SectionOrder[3] = "SCHED"
    BY DEF SectionOrder
  <2>5. Flagged("SCHED") /\ st \in Configuring \ DOMAIN HeaderWords
    BY <1>1, <2>3, <2>4 DEF Reading, Configuring, Streaming, HeaderWords
  <2>6. PICK total \in Nat : total = hdr.n_sched
    BY <2>5, SectionBeat
  <2>7. 0 + total = SectionWords(cmd.img, SectionOrder[3])
    BY <2>4, <2>5, <2>6, SectionBeat
  <2>8. Reading(3, 0, total, c.idx)
    BY <2>3, <2>6
  <2>9. st' = st /\ Reading(3, 0, total, c.idx)' /\ c'.nord = c.nord => InSection'
    <3>1. hdr'.n_sched = total
      BY <2>1, <2>6
    <3>2. Reading(3, 0, total, c.idx)' => Reading(3, 0, hdr.n_sched, c.idx)'
      BY <3>1 DEF Reading
    <3> QED BY <1>1, <3>2 DEF InSection
  <2>10. /\ c.idx + 1 = total => st' = "SECT" /\ c' = [Moved(rsp) EXCEPT !.sect = @ + 1]
         /\ c.idx + 1 # total => st' = st /\ c' = [Moved(rsp) EXCEPT !.idx = @ + 1]
    BY <2>1, <2>6
  <2>11. st \in {"ORD_IDX", "SCHED", "SEEDS", "STATE", "RID"} /\ 3 \in 1 .. 6 /\ 0 \in Nat
    BY <1>1
  <2> QED BY <1>1, <2>1, <2>2, <2>7, <2>8, <2>9, <2>10, <2>11, CountedStep
<1> QED BY <1>2, <1>3

\* the state's words,
LEMMA StateStep ==
  ASSUME FaceInv, NEW rsp \in BOOLEAN, Face(rsp), State(rsp)
  PROVE  FaceInv'
<1> DEFINE beats == CeilDiv(hdr.n, STATE_SITES(q))
<1>1. st = "STATE" /\ UNCHANGED command /\ UNCHANGED <<plan, cmd, words>>
  BY DEF State, Simple, Wait, command
<1>2. CASE ~rsp
  <2>1. st' = st /\ c' = Moved(rsp) /\ UNCHANGED <<hdr, q>>
    BY <1>2 DEF State, Simple, Wait
  <2> QED BY <1>1, <1>2, <2>1, Waits DEF Streaming
<1>3. CASE rsp
  <2>1. /\ st' = IF c.idx + 1 >= beats THEN "SECT" ELSE st
        /\ c' = IF c.idx + 1 >= beats THEN [Moved(rsp) EXCEPT !.sect = @ + 1]
                ELSE [Moved(rsp) EXCEPT !.idx = @ + 1]
        /\ UNCHANGED <<hdr, q>>
    BY <1>3 DEF State, Simple, Wait, Word
  <2>2. One(rsp) = 1
    BY <1>3, Zenon DEF One
  <2>3. Reading(5, 0, beats, c.idx)
    BY <1>1 DEF FaceInv, InSection
  <2>4. SectionOrder[5] = "STATE"
    BY DEF SectionOrder
  <2>5. Flagged("STATE") /\ st \in Configuring \ DOMAIN HeaderWords
    BY <1>1, <2>3, <2>4 DEF Reading, Configuring, Streaming, HeaderWords
  <2>6. PICK total \in Nat : total = beats
    BY <2>5, SectionBeat
  <2>7. 0 + total = SectionWords(cmd.img, SectionOrder[5])
    BY <2>4, <2>5, <2>6, SectionBeat
  <2>8. Reading(5, 0, total, c.idx)
    BY <2>3, <2>6
  <2>9. st' = st /\ Reading(5, 0, total, c.idx)' /\ c'.nord = c.nord => InSection'
    <3>1. CeilDiv(hdr'.n, STATE_SITES(q')) = total
      BY <2>1, <2>6
    <3>2. Reading(5, 0, total, c.idx)' => Reading(5, 0, CeilDiv(hdr.n, STATE_SITES(q)), c.idx)'
      BY <3>1 DEF Reading
    <3> QED BY <1>1, <3>2 DEF InSection
  <2>10. /\ c.idx + 1 = total => st' = "SECT" /\ c' = [Moved(rsp) EXCEPT !.sect = @ + 1]
         /\ c.idx + 1 # total => st' = st /\ c' = [Moved(rsp) EXCEPT !.idx = @ + 1]
    <3>1. c.idx \in Nat /\ c.idx < total
      BY <2>8 DEF FaceInv, FaceType, Reading
    <3>2. c.idx + 1 >= beats <=> c.idx + 1 = total
      BY <2>6, <3>1
    <3> HIDE DEF beats
    <3> QED BY <2>1, <3>2
  <2>11. st \in {"ORD_IDX", "SCHED", "SEEDS", "STATE", "RID"} /\ 5 \in 1 .. 6 /\ 0 \in Nat
    BY <1>1
  <2> QED BY <1>1, <2>1, <2>2, <2>7, <2>8, <2>9, <2>10, <2>11, CountedStep
<1> QED BY <1>2, <1>3

\* the replicas' words
LEMMA RidStep ==
  ASSUME FaceInv, NEW rsp \in BOOLEAN, Face(rsp), Rid(rsp)
  PROVE  FaceInv'
<1> DEFINE beats == CeilDiv(hdr.n, RID_SITES)
<1>1. st = "RID" /\ UNCHANGED command /\ UNCHANGED <<plan, cmd, words>>
  BY DEF Rid, Simple, Wait, command
<1>2. CASE ~rsp
  <2>1. st' = st /\ c' = Moved(rsp) /\ UNCHANGED <<hdr, q>>
    BY <1>2 DEF Rid, Simple, Wait
  <2> QED BY <1>1, <1>2, <2>1, Waits DEF Streaming
<1>3. CASE rsp
  <2>1. /\ st' = IF c.idx + 1 >= beats THEN "SECT" ELSE st
        /\ c' = IF c.idx + 1 >= beats THEN [Moved(rsp) EXCEPT !.sect = @ + 1]
                ELSE [Moved(rsp) EXCEPT !.idx = @ + 1]
        /\ UNCHANGED <<hdr, q>>
    BY <1>3 DEF Rid, Simple, Wait, Word
  <2>2. One(rsp) = 1
    BY <1>3, Zenon DEF One
  <2>3. Reading(6, 0, beats, c.idx)
    BY <1>1 DEF FaceInv, InSection
  <2>4. SectionOrder[6] = "RID"
    BY DEF SectionOrder
  <2>5. Flagged("RID") /\ st \in Configuring \ DOMAIN HeaderWords
    BY <1>1, <2>3, <2>4 DEF Reading, Configuring, Streaming, HeaderWords
  <2>6. PICK total \in Nat : total = beats
    BY <2>5, SectionBeat
  <2>7. 0 + total = SectionWords(cmd.img, SectionOrder[6])
    BY <2>4, <2>5, <2>6, SectionBeat
  <2>8. Reading(6, 0, total, c.idx)
    BY <2>3, <2>6
  <2>9. st' = st /\ Reading(6, 0, total, c.idx)' /\ c'.nord = c.nord => InSection'
    <3>1. CeilDiv(hdr'.n, RID_SITES) = total
      BY <2>1, <2>6
    <3>2. Reading(6, 0, total, c.idx)' => Reading(6, 0, CeilDiv(hdr.n, RID_SITES), c.idx)'
      BY <3>1 DEF Reading
    <3> QED BY <1>1, <3>2 DEF InSection
  <2>10. /\ c.idx + 1 = total => st' = "SECT" /\ c' = [Moved(rsp) EXCEPT !.sect = @ + 1]
         /\ c.idx + 1 # total => st' = st /\ c' = [Moved(rsp) EXCEPT !.idx = @ + 1]
    <3>1. c.idx \in Nat /\ c.idx < total
      BY <2>8 DEF FaceInv, FaceType, Reading
    <3>2. c.idx + 1 >= beats <=> c.idx + 1 = total
      BY <2>6, <3>1
    <3> HIDE DEF beats
    <3> QED BY <2>1, <3>2
  <2>11. st \in {"ORD_IDX", "SCHED", "SEEDS", "STATE", "RID"} /\ 6 \in 1 .. 6 /\ 0 \in Nat
    BY <1>1
  <2> QED BY <1>1, <2>1, <2>2, <2>7, <2>8, <2>9, <2>10, <2>11, CountedStep
<1> QED BY <1>2, <1>3

\* and the sites of the order, as many as its first word said.
LEMMA OrdIdxStep ==
  ASSUME FaceInv, NEW rsp \in BOOLEAN, Face(rsp), OrdIdx(rsp)
  PROVE  FaceInv'
<1>1. st = "ORD_IDX" /\ UNCHANGED command /\ UNCHANGED <<plan, cmd, words>>
  BY DEF OrdIdx, Simple, Wait, command
<1>2. CASE ~rsp
  <2>1. st' = st /\ c' = Moved(rsp) /\ UNCHANGED <<hdr, q>>
    BY <1>2 DEF OrdIdx, Simple, Wait
  <2> QED BY <1>1, <1>2, <2>1, Waits DEF Streaming
<1>3. CASE rsp
  <2>1. /\ st' = IF c.idx + 1 = c.nord THEN "SECT" ELSE st
        /\ c' = IF c.idx + 1 = c.nord THEN [Moved(rsp) EXCEPT !.sect = @ + 1]
                ELSE [Moved(rsp) EXCEPT !.idx = @ + 1]
        /\ UNCHANGED <<hdr, q>>
    BY <1>3 DEF OrdIdx, Simple, Wait, Word
  <2>2. One(rsp) = 1
    BY <1>3, Zenon DEF One
  <2>3. Reading(2, 1 + COLORS_MAX, c.nord, c.idx) /\ c.nord = Len(cmd.img.order)
    BY <1>1 DEF FaceInv, InSection
  <2>4. SectionOrder[2] = "ORDER"
    BY DEF SectionOrder
  <2>5. Flagged("ORDER") /\ st \in Configuring \ DOMAIN HeaderWords
    BY <1>1, <2>3, <2>4 DEF Reading, Configuring, Streaming, HeaderWords
  <2>6. PICK total \in Nat : total = c.nord
    BY <2>3, <2>5, SectionBeat
  <2>7. 1 + COLORS_MAX + total = SectionWords(cmd.img, SectionOrder[2]) /\ 1 + COLORS_MAX \in Nat
    <3>1. COLORS_MAX \in Nat
      BY SizesAssumption
    <3>2. SectionWords(cmd.img, "ORDER") = 1 + COLORS_MAX + Len(cmd.img.order)
      BY <2>5, SectionBeat
    <3>3. Len(cmd.img.order) = total
      BY <2>3, <2>6
    <3>4. SectionWords(cmd.img, SectionOrder[2]) = 1 + COLORS_MAX + total
      BY <2>4, <3>2, <3>3, Zenon
    <3> QED BY <3>1, <3>4
  <2>8. Reading(2, 1 + COLORS_MAX, total, c.idx)
    BY <2>3, <2>6
  <2>9. st' = st /\ Reading(2, 1 + COLORS_MAX, total, c.idx)' /\ c'.nord = c.nord => InSection'
    <3>1. c'.nord = c.nord => c'.nord = total /\ c'.nord = Len(cmd'.img.order)
      BY <1>1, <2>3, <2>6
    <3>2. Reading(2, 1 + COLORS_MAX, total, c.idx)' /\ c'.nord = c.nord
            => Reading(2, 1 + COLORS_MAX, c.nord, c.idx)'
      BY <3>1 DEF Reading
    <3> QED BY <1>1, <3>1, <3>2 DEF InSection
  <2>10. /\ c.idx + 1 = total => st' = "SECT" /\ c' = [Moved(rsp) EXCEPT !.sect = @ + 1]
         /\ c.idx + 1 # total => st' = st /\ c' = [Moved(rsp) EXCEPT !.idx = @ + 1]
    BY <2>1, <2>6
  <2>11. st \in {"ORD_IDX", "SCHED", "SEEDS", "STATE", "RID"} /\ 2 \in 1 .. 6
    BY <1>1
  <2> QED BY <1>1, <2>1, <2>2, <2>7, <2>8, <2>9, <2>10, <2>11, CountedStep
<1> QED BY <1>2, <1>3

\* The last beat of a run of them: nothing is on its way, and another may start.
LEMMA LastBeat ==
  ASSUME FaceInv, st \in Streaming, NEW rsp \in BOOLEAN, One(rsp) = 1, Face(rsp),
         NEW k \in 1 .. 6, NEW skipped \in Nat, NEW total \in Nat, NEW taken \in Nat,
         Reading(k, skipped, total, taken), taken + 1 = total
  PROVE  /\ infl' = 0 /\ One(req' # "none") = 0 /\ req' = "none"
         /\ Moved(rsp) \in CursorType /\ Moved(rsp).sect = k /\ Moved(rsp).nord = c.nord
         /\ Moved(rsp).rsp = c.rsp + 1 /\ c.rsp = Before(cmd.img, k) + skipped + taken
<1>1. PoolKept /\ c \in CursorType
  BY DEF FaceInv, FaceType, CursorType
<1>2. /\ c.sect = k /\ c.tot = total /\ taken + infl + One(req # "none") = c.iss /\ c.iss <= c.tot
      /\ c.rsp = Before(cmd.img, k) + skipped + taken
  BY DEF Reading
<1>3. rsp /\ taken + 1 = c.tot => infl' = 0 /\ req' = "none"
  BY <1>1, <1>2, StreamStep
<1>4. rsp
  <2> SUFFICES ASSUME ~rsp PROVE FALSE
    OBVIOUS
  <2>1. One(rsp) = 0
    BY Zenon DEF One
  <2> QED BY <2>1
<1>5. infl' = 0 /\ req' = "none"
  BY <1>2, <1>3, <1>4
<1>6. Moved(rsp).rsp = c.rsp + 1
  <2>1. One(rsp /\ st \in Streaming) = 1
    BY <1>4, Zenon DEF One
  <2> QED BY <1>1, <2>1, MovedFacts
<1>7. Moved(rsp) \in CursorType /\ Moved(rsp).sect = k /\ Moved(rsp).nord = c.nord
  BY <1>1, <1>2, MovedFacts
<1>8. One(req' # "none") = 0
  BY <1>5, Zenon DEF One
<1> QED BY <1>2, <1>5, <1>6, <1>7, <1>8, Zenon

\* The order's length, behind which its colour bounds are asked for
LEMMA OrdNStep ==
  ASSUME FaceInv, NEW rsp \in BOOLEAN, Face(rsp), OrdN(rsp)
  PROVE  FaceInv'
<1>1. st = "ORD_N" /\ UNCHANGED command /\ UNCHANGED <<plan, cmd, words>>
  BY DEF OrdN, Wait, command
<1>2. CASE ~rsp
  <2>1. st' = st /\ c' = Moved(rsp) /\ UNCHANGED <<hdr, q>>
    BY <1>2 DEF OrdN, Wait
  <2> QED BY <1>1, <1>2, <2>1, Waits DEF Streaming
<1>3. CASE rsp
  <2>1. /\ st' = "ORD_CB" /\ UNCHANGED <<hdr, q>>
        /\ c' = [Moved(rsp) EXCEPT !.nord = Data, !.idx = 0, !.iss = 0, !.tot = COLORS_MAX]
    BY <1>3 DEF OrdN, Wait
  <2>2. One(rsp) = 1
    BY <1>3, Zenon DEF One
  <2>3. Reading(2, 0, 1, 0)
    BY <1>1 DEF FaceInv, InSection
  <2>4. st \in Streaming /\ st \in Configuring \ DOMAIN HeaderWords
    BY <1>1 DEF Streaming, Configuring, HeaderWords
  <2>5. /\ infl' = 0 /\ One(req' # "none") = 0 /\ req' = "none"
        /\ Moved(rsp) \in CursorType /\ Moved(rsp).sect = 2
        /\ Moved(rsp).rsp = c.rsp + 1 /\ c.rsp = Before(cmd.img, 2) + 0 + 0
    BY <2>2, <2>3, <2>4, LastBeat
  <2>6. Flagged("ORDER")
    BY <2>3 DEF Reading, SectionOrder
  <2>7. ProperImage(cmd.img) /\ words = Image(cmd.img)
    BY <2>4 DEF FaceInv, FaceType
  <2>8. PICK b \in Nat : b = Before(cmd.img, 2)
    BY <2>7, BeforeInt
  <2>9. Data = Len(cmd.img.order) /\ Data \in Nat
    <3>1. c.rsp + 1 = b + 1
      BY <2>5, <2>8
    <3>2. Data = Image(cmd.img)[b + 1]
      BY <2>7, <3>1 DEF Data
    <3>3. Image(cmd.img)[b + 1] = Len(cmd.img.order)
      BY <2>6, <2>7, <2>8, ImageLaid DEF Flagged
    <3> QED BY <2>4, <2>6, <3>2, <3>3, SectionBeat
  <2>10. COLORS_MAX \in Nat \ {0}
    BY SizesAssumption
  <2>11. /\ c' \in CursorType /\ c'.nord = Data /\ c'.idx = 0 /\ c'.iss = 0 /\ c'.tot = COLORS_MAX
         /\ c'.sect = 2 /\ c'.rsp = b + 1
    <3>1. PICK m \in CursorType : m = Moved(rsp)
      BY <2>5
    <3>2. PICK l \in Nat : l = Data
      BY <2>9
    <3>3. c' = [m EXCEPT !.nord = l, !.idx = 0, !.iss = 0, !.tot = COLORS_MAX]
      BY <2>1, <3>1, <3>2
    <3>4. m.sect = 2 /\ m.rsp = b + 1
      BY <2>5, <2>8, <3>1
    <3> QED BY <2>10, <3>2, <3>3, <3>4 DEF CursorType
  <2>12. Reading(2, 1, COLORS_MAX, c.idx)'
    <3>1. Flagged(SectionOrder[2])'
      BY <1>1, <2>3 DEF Reading, Flagged
    <3>2. c'.rsp = Before(cmd'.img, 2) + 1 + 0
      BY <1>1, <2>8, <2>11
    <3> QED BY <2>5, <2>10, <2>11, <3>1, <3>2 DEF Reading
  <2>13. c'.nord = Len(cmd'.img.order)
    BY <1>1, <2>9, <2>11
  <2>14. InSection' /\ Between'
    BY <2>1, <2>12, <2>13 DEF InSection, Between
  <2>15. st' \in (Configuring \ DOMAIN HeaderWords) \union {"IDLE"}
    BY <2>1 DEF Streaming, Configuring, HeaderWords
  <2> QED BY <1>1, <2>1, <2>4, <2>5, <2>11, <2>14, <2>15, SectionFrame
<1> QED BY <1>2, <1>3

\* A colour's bounds; behind the last of them the order itself is asked for,
\* unless it is empty.
LEMMA OrdCbStep ==
  ASSUME FaceInv, NEW rsp \in BOOLEAN, Face(rsp), OrdCb(rsp)
  PROVE  FaceInv'
<1>1. st = "ORD_CB" /\ UNCHANGED command /\ UNCHANGED <<plan, cmd, words>>
  BY DEF OrdCb, Wait, command
<1>2. CASE ~rsp
  <2>1. st' = st /\ c' = Moved(rsp) /\ UNCHANGED <<hdr, q>>
    BY <1>2 DEF OrdCb, Wait
  <2> QED BY <1>1, <1>2, <2>1, Waits DEF Streaming
<1>3. CASE rsp
  <2>1. /\ UNCHANGED <<hdr, q>>
        /\ st' = IF c.idx # COLORS_MAX - 1 THEN st ELSE IF c.nord = 0 THEN "SECT" ELSE "ORD_IDX"
        /\ c' = IF c.idx = COLORS_MAX - 1 /\ c.nord = 0 THEN [Moved(rsp) EXCEPT !.sect = @ + 1]
                ELSE IF c.idx = COLORS_MAX - 1
                THEN [Moved(rsp) EXCEPT !.idx = 0, !.iss = 0, !.tot = c.nord]
                ELSE [Moved(rsp) EXCEPT !.idx = @ + 1]
    BY <1>3 DEF OrdCb, Wait, Word
  <2>2. One(rsp) = 1
    BY <1>3, Zenon DEF One
  <2>3. Reading(2, 1, COLORS_MAX, c.idx) /\ c.nord = Len(cmd.img.order)
    BY <1>1 DEF FaceInv, InSection
  <2>4. st \in Streaming \ DOMAIN HeaderWords /\ st \in Configuring \ DOMAIN HeaderWords
    BY <1>1 DEF Streaming, Configuring, HeaderWords
  <2>5. SectionOrder[2] = "ORDER"
    BY DEF SectionOrder
  <2>6. Flagged("ORDER")
    BY <2>3, <2>5 DEF Reading
  <2>7. c.nord \in Nat /\ c.idx \in Nat /\ COLORS_MAX \in Nat \ {0}
    BY SizesAssumption DEF FaceInv, FaceType
  <2>8. SectionWords(cmd.img, SectionOrder[2]) = 1 + COLORS_MAX + c.nord
    BY <2>3, <2>4, <2>5, <2>6, SectionBeat
  <2>9. CASE c.idx # COLORS_MAX - 1
    <3>1. PICK n : n = [Moved(rsp) EXCEPT !.idx = @ + 1]
      OBVIOUS
    <3>2. c' = n /\ st' = st /\ c.idx + 1 # COLORS_MAX
      BY <2>1, <2>7, <2>9, <3>1
    <3>3. 2 \in 1 .. 6 /\ 1 \in Nat /\ COLORS_MAX \in Nat /\ cmd' = cmd
      BY <1>1, <2>7
    <3>4. /\ c' \in CursorType /\ c'.nord = c.nord
          /\ Reading(2, 1, COLORS_MAX, c.idx)'
      BY <2>2, <2>3, <2>4, <3>1, <3>2, <3>3, CountedOn, Zenon
    <3>5. InSection' /\ Between'
      BY <1>1, <2>3, <3>2, <3>4 DEF InSection, Between
    <3>6. st' \in (Configuring \ DOMAIN HeaderWords) \union {"IDLE"} /\ st' \in Streaming
      BY <2>4, <3>2
    <3> QED BY <1>1, <2>1, <2>4, <3>4, <3>5, <3>6, SectionFrame
  <2>10. CASE c.idx = COLORS_MAX - 1 /\ c.nord = 0
    <3>1. PICK n : n = [Moved(rsp) EXCEPT !.sect = @ + 1]
      OBVIOUS
    <3>2. c' = n /\ st' = "SECT" /\ c.idx + 1 = COLORS_MAX
      BY <2>1, <2>7, <2>10, <3>1
    <3>3. 2 \in 1 .. 6 /\ 1 \in Nat /\ COLORS_MAX \in Nat /\ cmd' = cmd
      BY <1>1, <2>7
    <3>4. 1 + COLORS_MAX = SectionWords(cmd.img, SectionOrder[2])
      BY <2>7, <2>8, <2>10
    <3>5. /\ c' \in CursorType /\ infl' = 0 /\ req' = "none"
          /\ c'.sect \in 1 .. 7 /\ c'.rsp = Before(cmd.img, c'.sect)
      BY <2>2, <2>3, <2>4, <3>1, <3>2, <3>3, <3>4, CountedLast, Zenon
    <3>6. InSection' /\ Between'
      BY <3>2, <3>3, <3>5, Afterwards
    <3>7. st' \in (Configuring \ DOMAIN HeaderWords) \union {"IDLE"}
      BY <3>2 DEF Configuring, HeaderWords
    <3> QED BY <1>1, <2>1, <2>4, <3>5, <3>6, <3>7, SectionFrame
  <2>11. CASE c.idx = COLORS_MAX - 1 /\ c.nord # 0
    <3>1. PICK t \in Nat : t = c.idx
      BY <2>7
    <3>2. Reading(2, 1, COLORS_MAX, t) /\ t + 1 = COLORS_MAX
      BY <2>3, <2>7, <2>11, <3>1
    <3>3. 2 \in 1 .. 6 /\ 1 \in Nat /\ COLORS_MAX \in Nat /\ st \in Streaming
      BY <2>4, <2>7
    <3>4. /\ infl' = 0 /\ One(req' # "none") = 0 /\ req' = "none"
          /\ Moved(rsp) \in CursorType /\ Moved(rsp).sect = 2 /\ Moved(rsp).nord = c.nord
          /\ Moved(rsp).rsp = c.rsp + 1 /\ c.rsp = Before(cmd.img, 2) + 1 + t
      BY <2>2, <3>2, <3>3, LastBeat
    <3>5. PICK b \in Nat : b = Before(cmd.img, 2)
      BY <2>4, SectionBeat, BeforeInt
    <3>6. PICK l \in Nat \ {0} : l = c.nord
      BY <2>7, <2>11
    <3>7. /\ c' \in CursorType /\ c'.idx = 0 /\ c'.iss = 0 /\ c'.tot = l /\ c'.nord = l
          /\ c'.sect = 2 /\ c'.rsp = b + (1 + COLORS_MAX)
      <4>1. PICK m \in CursorType : m = Moved(rsp)
        BY <3>4
      <4>2. c' = [m EXCEPT !.idx = 0, !.iss = 0, !.tot = l]
        BY <2>1, <2>11, <3>6, <4>1
      <4>3. m.sect = 2 /\ m.nord = l /\ m.rsp = b + (1 + COLORS_MAX)
        BY <3>2, <3>3, <3>4, <3>5, <3>6, <4>1
      <4> QED BY <3>6, <4>2, <4>3 DEF CursorType
    <3>8. Reading(2, 1 + COLORS_MAX, c.nord, c.idx)'
      <4>1. Flagged(SectionOrder[2])'
        BY <1>1, <2>3 DEF Reading, Flagged
      <4>2. c'.rsp = Before(cmd'.img, 2) + (1 + COLORS_MAX) + 0
        BY <1>1, <3>3, <3>5, <3>7
      <4> QED BY <3>4, <3>6, <3>7, <4>1, <4>2 DEF Reading
    <3>9. st' = "ORD_IDX" /\ c'.nord = Len(cmd'.img.order)
      BY <1>1, <2>1, <2>3, <2>11, <3>6, <3>7
    <3>10. InSection' /\ Between'
      BY <3>8, <3>9 DEF InSection, Between
    <3>11. st' \in (Configuring \ DOMAIN HeaderWords) \union {"IDLE"}
      BY <3>9 DEF Streaming, Configuring, HeaderWords
    <3> QED BY <1>1, <2>1, <2>4, <3>4, <3>7, <3>10, <3>11, SectionFrame
  <2> QED BY <2>9, <2>10, <2>11
<1> QED BY <1>2, <1>3

\* The words of a table of n rows of w words, read row by row
LEMMA RowPlaces ==
  ASSUME NEW n \in Nat, NEW w \in Nat \ {0}, NEW i \in Nat, NEW j \in Nat, i < n, j < w
  PROVE  /\ (i * w) + j \in Nat /\ n * w \in Nat
         /\ j + 1 = w => ((i + 1) * w) + 0 = (i * w) + j + 1
         /\ (i * w) + (j + 1) = (i * w) + j + 1
         /\ j + 1 = w /\ i + 1 = n <=> (i * w) + j + 1 = n * w
<1>1. PICK a \in Nat : a = i * w
  OBVIOUS
<1>2. (i + 1) * w = a + w
  BY <1>1
<1>3. (i + 1) * w <= n * w /\ n * w \in Nat
  BY TimesGrows
<1>4. i + 1 # n => (i + 2) * w <= n * w
  <2> HAVE i + 1 # n
  <2>1. i + 2 <= n /\ i + 2 \in Nat
    OBVIOUS
  <2> QED BY <2>1, TimesGrows
<1>5. (i + 2) * w = a + w + w
  BY <1>1
<1>6. PICK m \in Nat : m = n * w
  BY <1>3
<1>7. i + 1 = n => m = a + w
  BY <1>2, <1>6
<1>8. i + 1 # n => a + w + w <= m
  BY <1>4, <1>5, <1>6
<1>9. a + w <= m
  BY <1>2, <1>3, <1>6
<1>10. j + 1 = w /\ i + 1 = n <=> a + j + 1 = m
  BY <1>7, <1>8, <1>9
<1> QED BY <1>1, <1>2, <1>6, <1>10

\* A row's word: another of the row, the next row's first, or the section's last
LEMMA RowsStep ==
  ASSUME FaceInv, NEW rsp \in BOOLEAN, Face(rsp), Rows(rsp)
  PROVE  FaceInv'
<1>1. st = "ROWS" /\ UNCHANGED command /\ UNCHANGED <<plan, cmd, words>>
  BY DEF Rows, Wait, command
<1>2. CASE ~rsp
  <2>1. st' = st /\ c' = Moved(rsp) /\ UNCHANGED <<hdr, q>>
    BY <1>2 DEF Rows, Wait
  <2> QED BY <1>1, <1>2, <2>1, Waits DEF Streaming
<1>3. CASE rsp
  <2>1. /\ UNCHANGED <<hdr, q>>
        /\ c' = IF c.slot = RowWords - 1 /\ c.site + 1 = hdr.n THEN [Moved(rsp) EXCEPT !.sect = @ + 1]
                ELSE IF c.slot = RowWords - 1 THEN [Moved(rsp) EXCEPT !.slot = 0, !.site = @ + 1]
                ELSE [Moved(rsp) EXCEPT !.slot = @ + 1]
        /\ c.slot = RowWords - 1 /\ c.site + 1 = hdr.n => st' \in {"SCAN", "SECT"}
        /\ ~(c.slot = RowWords - 1 /\ c.site + 1 = hdr.n) => st' = st
    BY <1>3 DEF Rows, Wait, Word
  <2>2. One(rsp) = 1
    BY <1>3, Zenon DEF One
  <2>3. st \in Streaming \ DOMAIN HeaderWords /\ st \in Configuring \ DOMAIN HeaderWords
    BY <1>1 DEF Streaming, Configuring, HeaderWords
  <2>4. Reading(1, 0, hdr.n * RowWords, c.site * RowWords + c.slot) /\ c.site < hdr.n /\ c.slot < RowWords
    BY <1>1 DEF FaceInv, InSection
  <2>5. PoolKept /\ c \in CursorType /\ st \in Streaming /\ ProperImage(cmd.img)
    BY <2>3, ReadingFacts
  <2>6. PICK n, w \in Nat \ {0} : n = hdr.n /\ w = RowWords
    BY <2>3, SectionBeat
  <2>7. PICK i, j \in Nat : i = c.site /\ j = c.slot
    BY <2>5 DEF CursorType
  <2>8. i < n /\ j < w
    BY <2>4, <2>6, <2>7
  <2>9. /\ (i * w) + j \in Nat /\ n * w \in Nat
        /\ j + 1 = w => ((i + 1) * w) + 0 = (i * w) + j + 1
        /\ (i * w) + (j + 1) = (i * w) + j + 1
        /\ j + 1 = w /\ i + 1 = n <=> (i * w) + j + 1 = n * w
    BY <2>8, RowPlaces
  <2>10. PICK total, taken \in Nat : total = n * w /\ taken = (i * w) + j
    BY <2>9
  <2>11. Reading(1, 0, total, taken) /\ taken < total
    <3>1. Reading(1, 0, total, taken)
      BY <2>4, <2>6, <2>7, <2>10
    <3> QED BY <3>1 DEF Reading
  <2>12. Flagged("ROWS")
    BY <2>11 DEF Reading, SectionOrder
  <2>13. hdr' = hdr /\ RowWords' = RowWords
    BY <2>1 DEF RowWords
  <2>14. Moved(rsp) \in CursorType /\ Moved(rsp).site = i /\ Moved(rsp).slot = j /\ Moved(rsp).sect = 1
    <3>1. c.sect = 1
      BY <2>11 DEF Reading
    <3> QED BY <2>5, <2>7, <3>1, MovedFacts
  <2>15. PICK m \in CursorType : m = Moved(rsp)
    BY <2>14
  <2>16. j + 1 = w <=> c.slot = RowWords - 1
    BY <2>6, <2>7
  <2>17. CASE j + 1 = w /\ i + 1 = n
    <3>1. c' = [m EXCEPT !.sect = @ + 1] /\ st' \in {"SCAN", "SECT"}
      BY <2>1, <2>6, <2>7, <2>15, <2>16, <2>17
    <3>2. /\ c' \in CursorType /\ c'.iss = m.iss /\ c'.rsp = m.rsp /\ c'.tot = m.tot
          /\ c'.sect = m.sect + 1
      BY <3>1, SectOn
    <3>3. total = taken + 1
      BY <2>9, <2>10, <2>17
    <3>4. Reading(1, 0, taken + 1, taken)
      BY <2>11, <3>3
    <3>5. 0 + (taken + 1) = SectionWords(cmd.img, SectionOrder[1])
      <4>1. SectionOrder[1] = "ROWS"
        BY DEF SectionOrder
      <4>2. SectionWords(cmd.img, "ROWS") = total
        BY <2>3, <2>6, <2>10, <2>12, SectionBeat
      <4> QED BY <3>3, <4>1, <4>2
    <3>6. /\ infl' = 0 /\ req' = "none"
          /\ c'.sect \in 1 .. 7 /\ c'.rsp = Before(cmd.img, c'.sect)
      <4>1. /\ c'.iss = Moved(rsp).iss /\ c'.rsp = Moved(rsp).rsp /\ c'.tot = Moved(rsp).tot
            /\ c'.sect = Moved(rsp).sect + 1 /\ cmd' = cmd /\ 1 \in 1 .. 6 /\ 0 \in Nat
        BY <1>1, <2>15, <3>2
      <4> QED BY <2>2, <2>5, <3>4, <3>5, <4>1, LastWord, Zenon
    <3>7. InSection' /\ Between'
      BY <1>1, <3>1, <3>6, Afterwards
    <3>8. st' \in (Configuring \ DOMAIN HeaderWords) \union {"IDLE"}
      BY <3>1 DEF Configuring, HeaderWords
    <3> QED BY <1>1, <2>1, <2>3, <3>2, <3>6, <3>7, <3>8, SectionFrame
  <2>18. CASE ~(j + 1 = w /\ i + 1 = n)
    <3>1. st' = st
      BY <2>1, <2>6, <2>7, <2>16, <2>18
    <3>2. taken + 1 < total
      BY <2>9, <2>10, <2>11, <2>18
    <3>3. ASSUME c' \in CursorType, c'.iss = m.iss, c'.rsp = m.rsp, c'.tot = m.tot, c'.sect = m.sect,
                 c'.site * w + c'.slot = taken + 1, c'.site < n, c'.slot < w
          PROVE  FaceInv'
      <4>1. /\ c'.iss = Moved(rsp).iss /\ c'.rsp = Moved(rsp).rsp /\ c'.tot = Moved(rsp).tot
            /\ c'.sect = 1
        BY <2>14, <2>15, <3>3
      <4>2. taken + One(rsp) = taken + 1
        BY <2>2
      <4>3. 1 \in 1 .. 7 /\ 0 \in Nat /\ cmd' = cmd
        BY <1>1
      <4>4. taken + One(rsp) < total
        BY <3>2, <4>2
      <4>5. Reading(1, 0, total, taken + One(rsp))'
        BY <2>5, <2>11, <4>1, <4>3, <4>4, ReadingStep
      <4>6. Reading(1, 0, hdr.n * RowWords, c.site * RowWords + c.slot)'
        <5>1. hdr'.n * RowWords' = total
          BY <2>6, <2>10, <2>13
        <5>2. c'.site * RowWords' + c'.slot = taken + One(rsp)
          BY <2>6, <2>13, <3>3, <4>2
        <5> QED BY <4>5, <5>1, <5>2 DEF Reading
      <4>7. c'.site < hdr'.n /\ c'.slot < RowWords'
        BY <2>6, <2>13, <3>3
      <4>8. InSection' /\ Between'
        BY <1>1, <3>1, <4>6, <4>7 DEF InSection, Between
      <4>9. st' \in (Configuring \ DOMAIN HeaderWords) \union {"IDLE"} /\ st' \in Streaming
        BY <2>3, <3>1
      <4> QED BY <1>1, <2>1, <2>3, <3>3, <4>8, <4>9, SectionFrame
    <3>4. CASE j + 1 = w
      <4>1. c' = [m EXCEPT !.slot = 0, !.site = @ + 1]
        BY <2>1, <2>6, <2>7, <2>15, <2>16, <2>18, <3>4
      <4>2. /\ c' \in CursorType /\ c'.iss = m.iss /\ c'.rsp = m.rsp /\ c'.tot = m.tot
            /\ c'.sect = m.sect /\ c'.site = m.site + 1 /\ c'.slot = 0
        BY <4>1, SiteOn
      <4>3. c'.site = i + 1 /\ i + 1 < n
        BY <2>8, <2>14, <2>15, <2>18, <3>4, <4>2
      <4>4. c'.site * w + c'.slot = taken + 1
        <5>1. ((i + 1) * w) + 0 = taken + 1
          BY <2>9, <2>10, <3>4
        <5> QED BY <4>2, <4>3, <5>1
      <4> QED BY <3>3, <4>2, <4>3, <4>4
    <3>5. CASE j + 1 # w
      <4>1. c' = [m EXCEPT !.slot = @ + 1]
        BY <2>1, <2>15, <2>16, <3>5
      <4>2. /\ c' \in CursorType /\ c'.iss = m.iss /\ c'.rsp = m.rsp /\ c'.tot = m.tot
            /\ c'.sect = m.sect /\ c'.site = m.site /\ c'.slot = m.slot + 1
        BY <4>1, SlotOn
      <4>3. c'.site = i /\ c'.slot = j + 1 /\ j + 1 < w
        BY <2>8, <2>14, <2>15, <3>5, <4>2
      <4>4. c'.site * w + c'.slot = taken + 1
        <5>1. (i * w) + (j + 1) = taken + 1
          BY <2>9, <2>10
        <5> QED BY <4>3, <5>1
      <4> QED BY <2>8, <3>3, <4>2, <4>3, <4>4
    <3> QED BY <3>4, <3>5
  <2> QED BY <2>17, <2>18
<1> QED BY <1>2, <1>3

\* The energy scan and its copy keep the place in the image.
LEMMA ScanStep ==
  ASSUME FaceInv, NEW rsp \in BOOLEAN, Face(rsp), Scan \/ Copy
  PROVE  FaceInv'
<1>1. /\ st \in {"SCAN", "COPY"} /\ st' \in {"SCAN", "COPY", "SECT"}
      /\ UNCHANGED <<c, hdr, q, plan, cmd, words>>
  BY DEF Scan, Copy, command, loader
<1>2. st \in Configuring \ DOMAIN HeaderWords /\ st \notin Streaming \union {"RUN"}
  BY <1>1 DEF Configuring, HeaderWords, Streaming
<1>3. c \in CursorType /\ c.sect \in 1 .. 7 /\ c.rsp = Before(cmd.img, c.sect)
  BY <1>1 DEF FaceInv, FaceType, CursorType, Between
<1>4. infl' = 0 /\ req' = "none"
  BY <1>2, IdleFace DEF FaceInv
<1>5. InSection' /\ Between'
  BY <1>1, <1>3, Afterwards
<1>6. st' \in (Configuring \ DOMAIN HeaderWords) \union {"IDLE"}
  BY <1>1 DEF Configuring, HeaderWords
<1> QED BY <1>1, <1>2, <1>3, <1>4, <1>5, <1>6, SectionFrame

\* The end of an image: all of its words were read.
LEMMA FinStep ==
  ASSUME FaceInv, NEW rsp \in BOOLEAN, Face(rsp), Fin
  PROVE  FaceInv'
<1>1. st = "FIN" /\ st' = "IDLE" /\ UNCHANGED <<c, hdr, q, plan, cmd, words>>
  BY DEF Fin, command, loader
<1>2. st \in Configuring \ DOMAIN HeaderWords /\ st \notin Streaming \union {"RUN"}
  BY <1>1 DEF Configuring, HeaderWords, Streaming
<1>3. c \in CursorType /\ c.rsp = Before(cmd.img, 7)
  BY <1>1 DEF FaceInv, FaceType, CursorType, Between
<1>4. infl' = 0 /\ req' = "none"
  BY <1>2, IdleFace DEF FaceInv
<1>5. InSection' /\ Between'
  BY <1>1, <1>3 DEF InSection, Between
<1> QED BY <1>1, <1>2, <1>3, <1>4, <1>5, SectionFrame

\* Sampling leaves the face and the cursors alone.
LEMMA SamplingStep ==
  ASSUME FaceInv, NEW rsp \in BOOLEAN, Face(rsp),
         Zero \/ Entry \/ LoadSch \/ Start \/ WaitDone \/ Snap \/ NextSweep
  PROVE  FaceInv'
<1>1. st \in Sampling /\ st' \in Sampling \union {"IDLE"} /\ UNCHANGED <<c, hdr, q, plan, cmd, words>>
  <2>1. CASE Zero
    BY <2>1 DEF Zero, PStep, PFrame, loader, command, Sampling
  <2>2. CASE Entry
    BY <2>2 DEF Entry, PStep, PFrame, loader, command, Sampling, WalkGate
  <2>3. CASE LoadSch
    BY <2>3 DEF LoadSch, PStep, PFrame, loader, command, Sampling
  <2>4. CASE Start
    BY <2>4 DEF Start, PStep, PFrame, loader, command, Sampling
  <2>5. CASE WaitDone
    BY <2>5 DEF WaitDone, PStep, PFrame, loader, command, Sampling
  <2>6. CASE Snap
    BY <2>6 DEF Snap, PStep, PFrame, loader, command, Sampling
  <2>7. CASE NextSweep
    BY <2>7 DEF NextSweep, PStep, PFrame, loader, command, Sampling, WalkGate
  <2> QED BY <2>1, <2>2, <2>3, <2>4, <2>5, <2>6, <2>7
<1>2. st \notin Streaming \union {"RUN"} /\ st' \notin Configuring \union {"RUN"}
      /\ st' \notin Streaming
  BY <1>1 DEF Sampling, Configuring, Streaming
<1>3. infl' = 0 /\ req' = "none" /\ cred' \in Nat /\ infl' \in Nat /\ cred' + infl' = FACE_CRED
  BY <1>2, IdleFace DEF FaceInv
<1>4. cmd.op = "PSAMPLE"
  BY <1>1 DEF FaceInv, FaceType
<1>5. FaceType'
  BY <1>1, <1>2, <1>4 DEF FaceInv, FaceType
<1>6. PoolKept'
  BY <1>3 DEF PoolKept
<1>7. HeaderKnown'
  BY <1>2 DEF HeaderKnown
<1>8. InHeader' /\ InSection' /\ Between'
  <2>1. st' \notin DOMAIN HeaderWords
    BY <1>2 DEF HeaderWords, Streaming
  <2>2. InSection'
    BY <1>2 DEF InSection, Streaming
  <2>3. Between'
    BY <1>1, <1>2, <1>4 DEF Between, Configuring
  <2> QED BY <2>1, <2>2, <2>3 DEF InHeader
<1> QED BY <1>5, <1>6, <1>7, <1>8 DEF FaceInv

\* A drain ends with every credit back.
LEMMA EmittingStep ==
  ASSUME FaceInv, NEW rsp \in BOOLEAN, Face(rsp), Emitting(rsp)
  PROVE  FaceInv'
<1>1. st = "RUN" /\ st' \in {"RUN", "IDLE"} /\ UNCHANGED <<c, hdr, q, plan, cmd, words>>
  BY DEF Emitting, loader, command
<1>2. cmd.op = "PDRAIN"
  BY <1>1 DEF FaceInv, FaceType
<1>3. /\ cred' \in Nat /\ infl' \in Nat /\ cred' + infl' = FACE_CRED
      /\ req' # "none" => cred' > 0
  BY PoolStep DEF FaceInv
<1>4. ASSUME st' = "IDLE" PROVE infl' = 0 /\ req' = "none"
  <2>1. AllWritten /\ req = "none" /\ cred = FACE_CRED
    BY <1>1, <1>4 DEF Emitting
  <2>2. infl = 0
    <3>1. cred \in Nat /\ infl \in Nat /\ cred + infl = FACE_CRED
      BY DEF FaceInv, PoolKept
    <3> QED BY <2>1, <3>1
  <2>3. ~IssueRead(rsp) /\ ~Emit(rsp)
    BY <1>1, <2>1 DEF IssueRead, Emit, Streaming
  <2>4. req' = "none"
    BY <2>3 DEF Face
  <2>5. ~rsp /\ infl' = infl + One(req # "none") - One(rsp)
    BY <2>2, PoolStep DEF FaceInv
  <2>6. One(req # "none") = 0 /\ One(rsp) = 0
    BY <2>1, <2>5, Zenon DEF One
  <2> QED BY <2>2, <2>4, <2>5, <2>6
<1>5. st' \notin Configuring /\ st' \notin Sampling /\ st' \notin Streaming
  BY <1>1 DEF Configuring, Sampling, Streaming
<1>6. FaceType'
  BY <1>1, <1>2, <1>5 DEF FaceInv, FaceType
<1>7. PoolKept'
  BY <1>1, <1>3, <1>4 DEF PoolKept
<1>8. HeaderKnown'
  BY <1>5 DEF HeaderKnown
<1>9. InHeader' /\ InSection' /\ Between'
  <2>1. st' \notin DOMAIN HeaderWords
    BY <1>1 DEF HeaderWords
  <2>2. InSection' /\ Between'
    BY <1>1, <1>2 DEF InSection, Between
  <2> QED BY <2>1, <2>2 DEF InHeader
<1> QED BY <1>6, <1>7, <1>8, <1>9 DEF FaceInv

\* The rest of a plan is one.
LEMMA TailPlan ==
  ASSUME NEW p, p \in Seq(ToSet(p)), p # <<>>
  PROVE  /\ Head(p) \in ToSet(p)
         /\ Tail(p) \in Seq(ToSet(Tail(p))) /\ ToSet(Tail(p)) \subseteq ToSet(p)
<1>1. PICK T : T = ToSet(p)
  OBVIOUS
<1>2. p \in Seq(T)
  BY <1>1
<1>3. PICK t : t = Tail(p)
  OBVIOUS
<1>4. /\ t \in Seq(T) /\ Len(t) = Len(p) - 1 /\ Len(p) > 0
      /\ Head(p) = p[1] /\ Head(p) \in T
  BY <1>2, <1>3, TailOf
<1>5. Len(t) \in Nat /\ DOMAIN t = 1 .. Len(t) /\ t \in [1 .. Len(t) -> T]
  BY <1>4, LenProperties
<1>6. ToSet(t) = {t[k] : k \in 1 .. Len(t)}
  BY <1>5 DEF ToSet
<1>7. \A k \in 1 .. Len(t) : t[k] \in ToSet(t) /\ t[k] \in T
  BY <1>5, <1>6
<1>8. t \in [1 .. Len(t) -> ToSet(t)]
  BY <1>5, <1>7
<1>9. t \in Seq(ToSet(t))
  BY <1>5, <1>8
<1>10. ToSet(t) \subseteq T
  BY <1>6, <1>7
<1> QED BY <1>1, <1>3, <1>4, <1>9, <1>10

\* A command of the plan is taken; an image's words are asked for from its first.
LEMMA IdleStep ==
  ASSUME FaceInv, NEW rsp \in BOOLEAN, Face(rsp), Idle
  PROVE  FaceInv'
<1>1. st = "IDLE" /\ UNCHANGED <<hdr, q>>
  BY DEF Idle
<1>2. infl' = 0 /\ req' = "none" /\ cred' \in Nat /\ infl' \in Nat /\ cred' + infl' = FACE_CRED
  <2>1. st \notin Streaming \union {"RUN"}
    BY <1>1 DEF Streaming
  <2> QED BY <2>1, IdleFace DEF FaceInv
<1>3. PoolKept'
  BY <1>2 DEF PoolKept
<1>4. c \in CursorType
  BY DEF FaceInv, FaceType, CursorType
<1>5. CASE plan = <<>>
  <2>1. UNCHANGED <<st, c, plan, cmd, words>>
    BY <1>5 DEF Idle, command
  <2>2. FaceType'
    BY <1>1, <2>1 DEF FaceInv, FaceType
  <2>3. HeaderKnown'
    BY <1>1, <2>1 DEF HeaderKnown, Configuring, Streaming
  <2>4. InHeader' /\ InSection'
    <3>1. st' \notin DOMAIN HeaderWords
      BY <1>1, <2>1 DEF HeaderWords
    <3> QED BY <1>1, <2>1, <3>1 DEF InHeader, InSection
  <2>5. Between'
    BY <1>1, <2>1 DEF FaceInv, Between
  <2> QED BY <1>3, <2>2, <2>3, <2>4, <2>5 DEF FaceInv
<1>6. CASE plan # <<>>
  <2>1. PICK x : x = Head(plan)
    OBVIOUS
  <2>2. /\ cmd' = x /\ plan' = Tail(plan)
        /\ words' = IF x.op = "PCONFIG" THEN Image(x.img) ELSE <<>>
        /\ x.op = "PCONFIG" => st' = "HDR0" /\ c' = [c EXCEPT !.iss = 0, !.tot = 3, !.rsp = 0]
        /\ x.op = "PSAMPLE" => st' \in {"ZERO", "ENTRY"} /\ c' = c
        /\ x.op = "PDRAIN" => st' = "RUN" /\ c' = c
    BY <1>6, <2>1 DEF Idle
  <2>3. /\ plan \in Seq(ToSet(plan))
        /\ \A y \in ToSet(plan) : /\ y.op \in {"PCONFIG", "PSAMPLE", "PDRAIN"}
                                  /\ y.op = "PCONFIG" => ProperImage(y.img)
    BY DEF FaceInv, FaceType
  <2>4. x \in ToSet(plan) /\ plan' \in Seq(ToSet(plan')) /\ ToSet(plan') \subseteq ToSet(plan)
    <3>1. PICK p : p = plan
      OBVIOUS
    <3>2. /\ Head(p) \in ToSet(p)
          /\ Tail(p) \in Seq(ToSet(Tail(p))) /\ ToSet(Tail(p)) \subseteq ToSet(p)
      BY <1>6, <2>3, <3>1, TailPlan
    <3>3. x = Head(p) /\ plan' = Tail(p)
      BY <2>1, <2>2, <3>1
    <3> QED BY <3>1, <3>2, <3>3, Zenon
  <2>5. x.op \in {"PCONFIG", "PSAMPLE", "PDRAIN"} /\ (x.op = "PCONFIG" => ProperImage(x.img))
    <3>1. x.op \in {"PCONFIG", "PSAMPLE", "PDRAIN"}
      BY <2>3, <2>4
    <3>2. ASSUME x.op = "PCONFIG" PROVE ProperImage(x.img)
      BY <2>3, <2>4, <3>2
    <3> QED BY <3>1, <3>2
  <2>6. \A y \in ToSet(plan') : /\ y.op \in {"PCONFIG", "PSAMPLE", "PDRAIN"}
                                /\ y.op = "PCONFIG" => ProperImage(y.img)
    BY <2>3, <2>4
  <2>7. x.op = "PCONFIG" => /\ c' \in CursorType /\ c'.rsp = 0 /\ c'.tot = 3 /\ c'.iss = 0
    <3> HAVE x.op = "PCONFIG"
    <3>1. c' = [c EXCEPT !.iss = 0, !.tot = 3, !.rsp = 0]
      BY <2>2
    <3> QED BY <1>4, <3>1 DEF CursorType
  <2>8. c' \in CursorType
    BY <1>4, <2>2, <2>5, <2>7
  <2>9. /\ st' \in {"HDR0", "ZERO", "ENTRY", "RUN"}
        /\ st' = "HDR0" => cmd'.op = "PCONFIG"
        /\ st' \in {"ZERO", "ENTRY"} => cmd'.op = "PSAMPLE"
        /\ st' = "RUN" => cmd'.op = "PDRAIN"
        /\ cmd'.op = "PCONFIG" => ProperImage(cmd'.img) /\ words' = Image(cmd'.img)
    BY <2>2, <2>5
  <2>10. FaceType'
    <3>1. st' \in Configuring \union Sampling \union {"RUN", "IDLE"}
      BY <2>9 DEF Configuring, Streaming, Sampling
    <3>2. st' \in Configuring => st' = "HDR0"
      BY <2>9 DEF Configuring, Streaming
    <3>3. st' \in Sampling => st' \in {"ZERO", "ENTRY"}
      BY <2>9 DEF Sampling
    <3>4. DOMAIN hdr' = {"n", "work_track", "n_sched", "n_replicas"}
      BY <1>1 DEF FaceInv, FaceType
    <3> QED BY <2>4, <2>6, <2>8, <2>9, <3>1, <3>2, <3>3, <3>4 DEF FaceType, CursorType
  <2>11. HeaderKnown'
    BY <2>9 DEF HeaderKnown, Configuring, Streaming, HeaderWords
  <2>12. InHeader'
    <3>1. One(req' # "none") = 0
      BY <1>2, Zenon DEF One
    <3>2. st' \in DOMAIN HeaderWords => st' = "HDR0"
      BY <2>9 DEF HeaderWords
    <3>3. st' = "HDR0" => /\ c'.rsp = 0 /\ HeaderWords[st'] = 0 /\ c'.tot = 3
                          /\ c'.rsp + infl' + One(req' # "none") = c'.iss /\ c'.iss <= c'.tot
      BY <1>2, <2>2, <2>5, <2>7, <2>9, <3>1 DEF HeaderWords
    <3> QED BY <3>2, <3>3 DEF InHeader
  <2>13. InSection' /\ Between'
    BY <2>9 DEF InSection, Between
  <2> QED BY <1>3, <2>10, <2>11, <2>12, <2>13 DEF FaceInv
<1> QED BY <1>5, <1>6

\* A fresh cluster: no command, every credit in the pool.
LEMMA InitFace ==
  ASSUME ClusterInit
  PROVE  FaceInv
<1>1. /\ st = "IDLE" /\ cmd = Nothing /\ plan \in Plans
      /\ req = "none" /\ cred = FACE_CRED /\ infl = 0
      /\ c = [iss |-> 0, tot |-> 0, rsp |-> 0, sect |-> 1, site |-> 0, slot |-> 0, idx |-> 0,
              nord |-> 0]
      /\ hdr = [n |-> 0, work_track |-> FALSE, n_sched |-> 0, n_replicas |-> 1]
  BY Zenon DEF ClusterInit
<1>2. cmd.op = "NONE"
  BY <1>1 DEF Nothing
<1>3. st \notin Configuring /\ st \notin Sampling /\ st \notin Streaming /\ st \notin DOMAIN HeaderWords
  BY <1>1 DEF Configuring, Sampling, Streaming, HeaderWords
<1>4. FaceType
  <2>1. c \in [iss : Nat, tot : Nat, rsp : Nat, sect : Nat, site : Nat, slot : Nat, idx : Nat, nord : Nat]
    BY <1>1
  <2>2. DOMAIN hdr = {"n", "work_track", "n_sched", "n_replicas"}
    BY <1>1
  <2>3. /\ plan \in Seq(ToSet(plan))
        /\ \A x \in ToSet(plan) : /\ x.op \in {"PCONFIG", "PSAMPLE", "PDRAIN"}
                                  /\ x.op = "PCONFIG" => ProperImage(x.img)
    BY <1>1, PlansAssumption, Zenon
  <2> QED BY <1>1, <1>2, <1>3, <2>1, <2>2, <2>3 DEF FaceType
<1>5. PoolKept
  BY <1>1, FaceCredAssumption DEF PoolKept
<1>6. HeaderKnown /\ InHeader
  BY <1>3 DEF HeaderKnown, InHeader
<1>7. InSection
  BY <1>1 DEF InSection
<1>8. Between
  BY <1>1, <1>2 DEF Between
<1> QED BY <1>4, <1>5, <1>6, <1>7, <1>8 DEF FaceInv

\* Every cycle keeps it.
LEMMA StepFace ==
  ASSUME FaceInv, [ClusterNext]_cluster_vars
  PROVE  FaceInv'
<1>1. CASE ClusterNext
  <2>1. PICK rsp \in BOOLEAN : Face(rsp) /\ Command(rsp)
    BY <1>1, Zenon DEF ClusterNext
  <2>2. CASE Idle
    BY <2>1, <2>2, IdleStep, Zenon
  <2>3. CASE Emitting(rsp)
    BY <2>1, <2>3, EmittingStep, Zenon
  <2>4. CASE Sequencer(rsp)
    BY <2>1, <2>4, Zenon, Hdr0Step, Hdr1Step, Hdr2Step, SectStep, RowsStep, OrdNStep, OrdCbStep,
       OrdIdxStep, SchedStep, SeedsStep, StateStep, RidStep, ScanStep, FinStep, SamplingStep
       DEF Sequencer
  <2> QED BY <2>1, <2>2, <2>3, <2>4, Zenon DEF Command
<1>2. CASE UNCHANGED cluster_vars
  <2>1. UNCHANGED <<st, req, cred, infl, c, hdr, q, plan, cmd, words>>
    BY <1>2 DEF cluster_vars, face, loader, command, fabric_vars, config
  <2> QED BY <2>1 DEF FaceInv, FaceType, PoolKept, HeaderKnown, InHeader, InSection, Between,
                     Reading, RowWords, Flagged
<1> QED BY <1>1, <1>2, Zenon

\* The order's section holds a count, the colours and the order itself.
LEMMA OrderParts ==
  ASSUME NEW l \in Nat, NEW m \in Nat, NEW s, s = 1 + m + l
  PROVE  0 + 1 <= s /\ 1 + m <= s /\ (1 + m) + l <= s /\ 1 + m \in Nat
OBVIOUS

\* Beats asked for and not yet taken lie before the end of their section.
LEMMA InsideWords ==
  ASSUME NEW b \in Nat, NEW w \in Nat, NEW next \in Nat, next = b + w, NEW len \in Nat, next <= len,
         NEW skipped \in Nat, NEW total \in Nat, skipped + total <= w,
         NEW taken \in Nat, taken < total, NEW r, r = b + skipped + taken,
         NEW i \in Nat, NEW o \in Nat, NEW asked, taken + i + o = asked, asked <= total
  PROVE  r < len /\ r + i + o <= len
<1>1. r < b + w /\ r + i + o <= b + w
  OBVIOUS
<1> QED BY <1>1

\* A section's reading stays inside the image.
LEMMA ReadingInside ==
  ASSUME PoolKept, c \in CursorType, ProperImage(cmd.img), words = Image(cmd.img),
         NEW k \in 1 .. 6, NEW skipped \in Nat, NEW total \in Nat, NEW taken \in Nat,
         Reading(k, skipped, total, taken),
         skipped + total <= SectionWords(cmd.img, SectionOrder[k])
  PROVE  c.rsp < Len(words) /\ c.rsp + infl + One(req # "none") <= Len(words)
<1>1. Len(words) = Before(cmd.img, 7)
  BY ImageLaid
<1>2. PICK i \in Nat, o \in Nat : i = infl /\ o = One(req # "none")
  BY DEF PoolKept, One
<1>3. /\ Before(cmd.img, k) \in Nat /\ Before(cmd.img, 7) \in Nat
      /\ Before(cmd.img, k + 1) \in Nat /\ Before(cmd.img, k + 1) <= Before(cmd.img, 7)
      /\ Before(cmd.img, k + 1) = Before(cmd.img, k) + SectionWords(cmd.img, SectionOrder[k])
  <2>1. k \in 1 .. 7 /\ k + 1 \in 1 .. 7 /\ 7 \in 1 .. 7
    OBVIOUS
  <2> QED BY <2>1, BeforeSteps
<1>4. SectionWords(cmd.img, SectionOrder[k]) \in Nat
  BY SectionLengths
<1>5. infl \in Nat /\ One(req # "none") \in Nat /\ c.rsp \in Nat /\ c.iss \in Nat
  BY DEF PoolKept, One, CursorType
<1>6. /\ c.rsp = Before(cmd.img, k) + skipped + taken
      /\ c.tot = total /\ taken < total
      /\ taken + infl + One(req # "none") = c.iss /\ c.iss <= c.tot
  BY DEF Reading
<1>7. taken + i + o = c.iss /\ c.iss <= total /\ Len(words) \in Nat
  BY <1>1, <1>3, <1>6, <1>2
<1>8. c.rsp < Len(words) /\ c.rsp + i + o <= Len(words)
  <2>1. PICK b \in Nat, w \in Nat, n \in Nat, l \in Nat :
          /\ b = Before(cmd.img, k) /\ w = SectionWords(cmd.img, SectionOrder[k])
          /\ n = Before(cmd.img, k + 1) /\ l = Len(words)
    BY <1>3, <1>4, <1>7
  <2>2. n = b + w /\ n <= l /\ skipped + total <= w /\ c.rsp = b + skipped + taken
    BY <1>1, <1>3, <1>6, <2>1
  <2>3. c.rsp < l /\ c.rsp + i + o <= l
    BY <1>6, <1>7, <2>2, InsideWords
  <2> QED BY <2>1, <2>3
<1> QED BY <1>2, <1>8

\* So the face keeps its credits and an image is read to its end.
LEMMA FaceHolds ==
  ASSUME FaceInv
  PROVE  FaceCredits
<1>1. /\ cred \in Nat /\ infl \in Nat /\ cred + infl = FACE_CRED /\ FACE_CRED \in Nat
      /\ req # "none" => cred > 0
      /\ st \notin Streaming \union {"RUN"} => infl = 0 /\ req = "none"
  BY FaceCredAssumption DEF FaceInv, PoolKept
<1>2. cred \in 0 .. FACE_CRED /\ infl \in 0 .. FACE_CRED
  BY <1>1
<1>3. c \in CursorType
  BY DEF FaceInv, FaceType, CursorType
<1>4. ASSUME st \in Streaming
      PROVE  c.rsp < Len(words) /\ c.rsp + infl + One(req # "none") <= Len(words)
  <2>1. st \in Configuring
    BY <1>4 DEF Configuring
  <2>2. /\ ProperImage(cmd.img) /\ words = Image(cmd.img)
    BY <2>1 DEF FaceInv, FaceType
  <2>3. CASE st \in DOMAIN HeaderWords
    <3>1. /\ c.rsp = HeaderWords[st] /\ c.tot = 3
          /\ c.rsp + infl + One(req # "none") = c.iss /\ c.iss <= c.tot
      BY <2>3 DEF FaceInv, InHeader
    <3>2. HeaderWords[st] \in 0 .. 2
      BY <2>3 DEF HeaderWords
    <3>3. Len(words) = Before(cmd.img, 7)
      BY <2>2, ImageLaid
    <3>4. Before(cmd.img, 7) \in Nat /\ 3 <= Before(cmd.img, 7)
      <4>1. 1 \in 1 .. 7 /\ 7 \in 1 .. 7
        OBVIOUS
      <4> QED BY <2>2, <4>1, BeforeSteps
    <3>5. c.rsp \in Nat /\ infl \in Nat /\ One(req # "none") \in Nat
      BY <1>1, <1>3 DEF CursorType, One
    <3> QED BY <3>1, <3>2, <3>3, <3>4, <3>5
  <2>4. CASE st \notin DOMAIN HeaderWords
    <3>1. st \in Configuring \ DOMAIN HeaderWords /\ PoolKept
      BY <2>1, <2>4 DEF FaceInv
    <3>2. /\ c.site \in Nat /\ c.slot \in Nat /\ c.idx \in Nat
          /\ COLORS_MAX \in Nat /\ SEED_WORDS \in Nat
      BY <1>3, SizesAssumption DEF CursorType
    <3>3. CASE st = "ROWS"
      <4>1. Reading(1, 0, hdr.n * RowWords, c.site * RowWords + c.slot)
        BY <3>3 DEF FaceInv, InSection
      <4>2. Flagged("ROWS")
        BY <4>1 DEF Reading, SectionOrder
      <4>3. /\ RowWords \in Nat /\ hdr.n * RowWords \in Nat
            /\ SectionWords(cmd.img, SectionOrder[1]) = hdr.n * RowWords
        BY <3>1, <4>2, SectionBeat DEF SectionOrder
      <4>4. c.site * RowWords + c.slot \in Nat
        BY <3>2, <4>3
      <4> QED BY <1>3, <2>2, <3>1, <4>1, <4>3, <4>4, ReadingInside
    <3>4. CASE st = "ORD_N"
      <4>1. Reading(2, 0, 1, 0)
        BY <3>4 DEF FaceInv, InSection
      <4>2. Flagged("ORDER")
        BY <4>1 DEF Reading, SectionOrder
      <4>3. Len(cmd.img.order) \in Nat /\ SectionWords(cmd.img, SectionOrder[2]) = 1 + COLORS_MAX + Len(cmd.img.order)
        BY <3>1, <4>2, SectionBeat DEF SectionOrder
      <4>4. 0 + 1 <= SectionWords(cmd.img, SectionOrder[2])
        BY <4>3, <3>2, OrderParts
      <4> QED BY <1>3, <2>2, <3>1, <4>1, <4>4, ReadingInside
    <3>5. CASE st = "ORD_CB"
      <4>1. Reading(2, 1, COLORS_MAX, c.idx)
        BY <3>5 DEF FaceInv, InSection
      <4>2. Flagged("ORDER")
        BY <4>1 DEF Reading, SectionOrder
      <4>3. Len(cmd.img.order) \in Nat /\ SectionWords(cmd.img, SectionOrder[2]) = 1 + COLORS_MAX + Len(cmd.img.order)
        BY <3>1, <4>2, SectionBeat DEF SectionOrder
      <4>4. 1 + COLORS_MAX <= SectionWords(cmd.img, SectionOrder[2])
        BY <4>3, <3>2, OrderParts
      <4> QED BY <1>3, <2>2, <3>1, <3>2, <4>1, <4>4, ReadingInside
    <3>6. CASE st = "ORD_IDX"
      <4>1. Reading(2, 1 + COLORS_MAX, c.nord, c.idx) /\ c.nord = Len(cmd.img.order)
        BY <3>6 DEF FaceInv, InSection
      <4>2. Flagged("ORDER")
        BY <4>1 DEF Reading, SectionOrder
      <4>3. Len(cmd.img.order) \in Nat /\ SectionWords(cmd.img, SectionOrder[2]) = 1 + COLORS_MAX + Len(cmd.img.order)
        BY <3>1, <4>2, SectionBeat DEF SectionOrder
      <4>4. /\ (1 + COLORS_MAX) + c.nord <= SectionWords(cmd.img, SectionOrder[2])
            /\ 1 + COLORS_MAX \in Nat /\ c.nord \in Nat
        <5>1. c.nord \in Nat
          BY <4>1, <4>3
        <5> QED BY <5>1, <4>1, <4>3, <3>2, OrderParts
      <4>5. PICK m \in Nat : m = 1 + COLORS_MAX
        BY <4>4
      <4>6. Reading(2, m, c.nord, c.idx) /\ m + c.nord <= SectionWords(cmd.img, SectionOrder[2])
        BY <4>1, <4>4, <4>5, Zenon
      <4>7. c.nord \in Nat
        BY <4>4
      <4> QED BY <1>3, <2>2, <3>1, <3>2, <4>6, <4>7, ReadingInside
    <3>7. CASE st = "SCHED"
      <4>1. Reading(3, 0, hdr.n_sched, c.idx)
        BY <3>7 DEF FaceInv, InSection
      <4>2. Flagged("SCHED")
        BY <4>1 DEF Reading, SectionOrder
      <4>3. hdr.n_sched \in Nat /\ SectionWords(cmd.img, SectionOrder[3]) = hdr.n_sched
        BY <3>1, <4>2, SectionBeat DEF SectionOrder
      <4> QED BY <1>3, <2>2, <3>1, <3>2, <4>1, <4>3, ReadingInside
    <3>8. CASE st = "SEEDS"
      <4>1. Reading(4, 0, SEED_WORDS, c.idx)
        BY <3>8 DEF FaceInv, InSection
      <4>2. Flagged("SEEDS")
        BY <4>1 DEF Reading, SectionOrder
      <4>3. SectionWords(cmd.img, SectionOrder[4]) = SEED_WORDS
        BY <3>1, <4>2, SectionBeat DEF SectionOrder
      <4> QED BY <1>3, <2>2, <3>1, <3>2, <4>1, <4>3, ReadingInside
    <3>9. CASE st = "STATE"
      <4>1. Reading(5, 0, CeilDiv(hdr.n, STATE_SITES(q)), c.idx)
        BY <3>9 DEF FaceInv, InSection
      <4>2. Flagged("STATE")
        BY <4>1 DEF Reading, SectionOrder
      <4>3. /\ CeilDiv(hdr.n, STATE_SITES(q)) \in Nat
            /\ SectionWords(cmd.img, SectionOrder[5]) = CeilDiv(hdr.n, STATE_SITES(q))
        BY <3>1, <4>2, SectionBeat DEF SectionOrder
      <4> QED BY <1>3, <2>2, <3>1, <3>2, <4>1, <4>3, ReadingInside
    <3>10. CASE st = "RID"
      <4>1. Reading(6, 0, CeilDiv(hdr.n, RID_SITES), c.idx)
        BY <3>10 DEF FaceInv, InSection
      <4>2. Flagged("RID")
        BY <4>1 DEF Reading, SectionOrder
      <4>3. /\ CeilDiv(hdr.n, RID_SITES) \in Nat
            /\ SectionWords(cmd.img, SectionOrder[6]) = CeilDiv(hdr.n, RID_SITES)
        BY <3>1, <4>2, SectionBeat DEF SectionOrder
      <4> QED BY <1>3, <2>2, <3>1, <3>2, <4>1, <4>3, ReadingInside
    <3> QED BY <1>4, <2>4, <3>3, <3>4, <3>5, <3>6, <3>7, <3>8, <3>9, <3>10 DEF Streaming, HeaderWords
  <2> QED BY <2>3, <2>4
<1>5. ASSUME cmd.op = "PCONFIG", st = "IDLE" PROVE c.rsp = Len(words)
  <2>1. c.rsp = Before(cmd.img, 7)
    BY <1>5 DEF FaceInv, Between
  <2>2. ProperImage(cmd.img) /\ words = Image(cmd.img)
    BY <1>5 DEF FaceInv, FaceType
  <2> QED BY <2>1, <2>2, ImageLaid
<1> QED BY <1>1, <1>2, <1>4, <1>5 DEF FaceCredits

\* FaceInv is inductive: it holds in every state of the cluster, for all sizes,
\* credits and plan of proper images.
THEOREM FaceAlways == ClusterSpec => []FaceInv
<1>1. ClusterInit => FaceInv
  BY InitFace
<1>2. FaceInv /\ [ClusterNext]_cluster_vars => FaceInv'
  BY StepFace
<1> QED BY <1>1, <1>2, PTL DEF ClusterSpec

\* The cluster never outruns its credits, leaves no beat unanswered behind a
\* section, a drain or a command, and reads an image to its end and no further.
THEOREM FaceKeepsCredits == ClusterSpec => []FaceCredits
<1>1. FaceInv => FaceCredits
  BY FaceHolds
<1> QED BY <1>1, FaceAlways, PTL
=============================================================================
