--------------------------- MODULE BytePathProofs ---------------------------
(***************************************************************************)
(* Proofs about the path of a stream's bytes: the framed socket (Framing)  *)
(* and the copy loop behind it (Relay).                                    *)
(*                                                                         *)
(* Framing, for every limit, frame size, socket and backlog, and whatever  *)
(* stops, aborts or refuses meanwhile: neither side takes the other for    *)
(* one that breaks the protocol, the bytes arrive in order and once, and a *)
(* Completed result means that all of them have arrived.  The pieces of a  *)
(* direction are a legal continuation of what the reader has decoded       *)
(* (Chain): reading them one by one leads the reader's Cursor through      *)
(* legal steps to the Cursor of the writer, whose Sequence has accepted    *)
(* each frame before its first piece was written.  UpFlow and DnFlow say   *)
(* so of the two directions; m is the Cursor of a reader that has taken    *)
(* all there is in the socket, so that a write moves one step from the     *)
(* writer's chain to the socket's.                                         *)
(*                                                                         *)
(* Relay, for every limit, chunk size, idle time and lifetime that its     *)
(* assumption admits: what the loop keeps true between its steps is in     *)
(* five parts, the books of a direction (Books), where in a step a buffer  *)
(* may be empty or full (Phases), what the gate has seen of it (Records),  *)
(* how far its end has come (Ends), and the instants behind the deadlines  *)
(* (Clocks).                                                               *)
(***************************************************************************)
EXTENDS Framing, Relay, SequenceTheorems, TLAPS

-----------------------------------------------------------------------------
(* Types *)

Sides == {"agent", "daemon"}
Kinds == {"none", "opened", "data", "end", "terminal"}
States == {"none", "completed", "unknown", "failed", "answered", "rejected",
           "lost", "limit", "stopped"}
Results == [state : States, sent : Nat, received : Nat]
Heads == [kind : Kinds, len : Nat]
Values == Nat \cup Results
Pieces ==
    {Part} \cup {Header(k, n) : k \in Kinds, n \in Nat} \cup {Load(v) : v \in Values}
           \cup {[t |-> "request"], [t |-> "upgrade"], [t |-> "json"]}
Decoders == [part : BOOLEAN, head : Heads, body : Seq(Values)]
Tallies == [opened : BOOLEAN, term : BOOLEAN, ended : [Sides -> BOOLEAN],
               bytes : [Sides -> Nat], frames : [Sides -> Nat]]
Clients ==
    [pc : {"idle", "asked", "pending", "opened", "relay", "done"}, size : Nat, io : BOOLEAN,
     seq : Tallies, dec : Decoders, out : Seq(Pieces), sent : Nat, read : Nat,
     inn : Seq(Values), got : Seq(Values), sentEnd : BOOLEAN, recvEnd : BOOLEAN,
     result : Results]
Servers ==
    [pc : {"prelude", "connecting", "opening", "relay", "final", "done"}, io : BOOLEAN,
     seq : Tallies, dec : Decoders, pend : Seq(Values), out : Seq(Pieces),
     started : BOOLEAN, failed : {"no", "input", "lost", "limit"}, retired : BOOLEAN]
Engines ==
    [took : Seq(Values), gave : Nat, cut : Nat, endIn : BOOLEAN, endOut : BOOLEAN,
     aborted : BOOLEAN, term : Results]

TypeOK ==
    /\ up \in Seq(Pieces) /\ dn \in Seq(Pieces)
    /\ cl \in Clients /\ sv \in Servers /\ eng \in Engines

-----------------------------------------------------------------------------
(* Cursors and chains *)

\* What a reader of a direction knows of it: its half of the Sequence, the
\* terminal result, and how much of the frame under way its decoder holds.
Cursors ==
    [opened : BOOLEAN, ended : BOOLEAN, res : Results, bytes : Nat, frames : Nat,
     part : BOOLEAN, head : Heads, cnt : Nat]

\* The daemon reads nothing before it has sent OPENED.
CursorOf(s, who, d) ==
    [opened |-> who = "agent" \/ s.opened, ended |-> s.ended[who], res |-> NoTerminal,
     bytes |-> s.bytes[who], frames |-> s.frames[who],
     part |-> d.part, head |-> d.head, cnt |-> Len(d.body)]

Pos(q) == q.bytes + q.cnt
Boundary(q) == ~q.part /\ q.head = NoHead /\ q.cnt = 0
Fresh(q) == [q EXCEPT !.part = FALSE, !.head = NoHead, !.cnt = 0]

\* The header of a frame that q has room for.
MayHead(who, q, k, n) ==
    /\ k \in Kinds \ {"none"} /\ n \in Nat
    /\ who = "agent" => k \in {"data", "end"}
    /\ k = "opened" => ~q.opened
    /\ k \in {"data", "end"} => q.opened /\ ~q.ended
    /\ k = "data" => n > 0 /\ n <= MaxData /\ q.frames < MaxFrames /\ n <= Limit(who) - q.bytes
    /\ k = "end" => n = 0
    /\ k \in {"opened", "terminal"} => n = 1

\* The daemon's half of a result fits what the reader has had.
Closes(q, v) ==
    /\ v # NoTerminal /\ v.received <= q.bytes
    /\ v.state = "completed" => q.opened /\ q.ended /\ v.received = q.bytes
    /\ q.opened /\ v.state # "completed" => v.state = "unknown"

PartStep(who, q, p, r) ==
    /\ p = Part /\ Boundary(q) /\ (who = "agent" => ~q.ended)
    /\ r = [q EXCEPT !.part = TRUE]

EndStep(who, q, p, r) ==
    /\ p = Header("end", 0) /\ MayHead(who, q, "end", 0)
    /\ q.part /\ q.head = NoHead /\ q.cnt = 0
    /\ r = [Fresh(q) EXCEPT !.ended = TRUE]

HeadStep(who, q, p, r) ==
    \E k \in {"opened", "data", "terminal"} : \E n \in Nat :
       /\ p = Header(k, n) /\ MayHead(who, q, k, n)
       /\ q.part /\ q.head = NoHead /\ q.cnt = 0
       /\ r = [q EXCEPT !.head = [kind |-> k, len |-> n]]

DataStep(who, q, p, r) ==
    /\ p = Load(Pos(q) + 1) /\ MayHead(who, q, "data", q.head.len)
    /\ q.part /\ q.head.kind = "data" /\ q.cnt < q.head.len
    /\ r = IF q.cnt + 1 < q.head.len
             THEN [q EXCEPT !.cnt = @ + 1]
             ELSE [Fresh(q) EXCEPT !.bytes = @ + q.head.len, !.frames = @ + 1]

OpenedStep(who, q, p, r) ==
    /\ p = Load(0) /\ MayHead(who, q, "opened", 1)
    /\ q.part /\ q.head = [kind |-> "opened", len |-> 1] /\ q.cnt = 0
    /\ r = [Fresh(q) EXCEPT !.opened = TRUE]

TerminalStep(who, q, p, r) ==
    \E v \in Results :
       /\ p = Load(v) /\ MayHead(who, q, "terminal", 1) /\ Closes(q, v)
       /\ q.part /\ q.head = [kind |-> "terminal", len |-> 1] /\ q.cnt = 0
       /\ r = [Fresh(q) EXCEPT !.res = v]

\* Nothing follows a terminal result.
Step(who, q, p, r) ==
    /\ q.res = NoTerminal
    /\ \/ PartStep(who, q, p, r) \/ EndStep(who, q, p, r) \/ HeadStep(who, q, p, r)
       \/ DataStep(who, q, p, r) \/ OpenedStep(who, q, p, r) \/ TerminalStep(who, q, p, r)

\* The pieces w lead from q to r.
Leads(who, w, q, r, R) ==
    /\ R[0] = q /\ R[Len(w)] = r
    /\ \A i \in 1..Len(w) : Step(who, R[i - 1], w[i], R[i])
    /\ \A i, j \in 0..Len(w) : i <= j => Pos(R[i]) <= Pos(R[j])

Chain(who, w, q, r) == \E R \in [0..Len(w) -> Cursors] : Leads(who, w, q, r, R)

-----------------------------------------------------------------------------
(* The inductive invariant *)

Live    == cl.pc \in {"asked", "pending", "opened", "relay"}
Serving == sv.pc \in {"connecting", "opening", "relay", "final"}
Working == sv.pc \in {"connecting", "opening", "relay"}
Reading == Working /\ ~sv.retired /\ sv.failed = "no"

\* The run 1, 2, 3, ... from n on.
Run(s, n) == \A i \in DOMAIN s : s[i] = n + i

\* While the agent awaits its answer, that comes before the frames.
FramesAhead == IF cl.pc = "asked" /\ dn # << >> THEN Tail(dn) ELSE dn

AgentGoal  == CursorOf(cl.seq, "agent", NewDecoder)
DaemonGoal == [CursorOf(sv.seq, "daemon", NewDecoder)
                 EXCEPT !.opened = sv.seq.opened \/ sv.pc = "opening"]

UpThrough(m) ==
    /\ Live => Chain("agent", cl.out, m, AgentGoal) /\ Pos(m) = cl.sent
    /\ Reading => Chain("agent", up, CursorOf(sv.seq, "agent", sv.dec), m)

UpFlow == \E m \in Cursors : UpThrough(m)

DnThrough(m) ==
    /\ Working => Chain("daemon", sv.out, m, DaemonGoal) /\ Pos(m) = eng.gave
    /\ sv.pc = "final" => \E r \in Cursors : /\ Chain("daemon", sv.out, m, r)
                                             /\ r.res \in {NoTerminal, eng.term}
                                             /\ Pos(r) <= eng.gave
    /\ Live => Chain("daemon", FramesAhead, CursorOf(cl.seq, "daemon", cl.dec), m)
    /\ m.res \in {NoTerminal, eng.term} /\ Pos(m) <= eng.gave
    /\ sv.pc = "relay" => m.opened
    /\ sv.pc = "relay" /\ sv.out # << >> /\ ~sv.started => Boundary(m)

DnFlow == \E m \in Cursors : DnThrough(m)

\* Before the upgrade and before OPENED there is nothing on either side.
Untouched == eng.took = << >> /\ eng.gave = 0 /\ ~eng.endIn /\ ~eng.endOut

Opens ==
    /\ cl.pc = "idle" => cl = NewClient /\ sv = NewServer /\ eng = NewEngine
                       /\ up = << >> /\ dn = << >>
    /\ cl.pc = "asked" => cl.seq = NewSequence /\ cl.dec = NewDecoder
    /\ cl.pc \in {"asked", "pending", "opened"} =>
          /\ cl.out = << >> /\ cl.inn = << >> /\ cl.got = << >> /\ cl.read = 0 /\ ~cl.sentEnd
          /\ cl.seq.bytes["agent"] = 0 /\ cl.seq.frames["agent"] = 0 /\ ~cl.seq.ended["agent"]
    /\ Live => ~cl.seq.term /\ (cl.seq.opened <=> cl.pc \in {"opened", "relay"})
    /\ Live /\ Serving /\ cl.pc = "asked" => dn # << >>
    /\ sv.pc = "prelude" => cl.pc \in {"idle", "asked", "done"} /\ dn = << >>
    /\ sv.pc \in {"prelude", "connecting", "opening"} =>
          /\ sv.seq = NewSequence /\ sv.dec = NewDecoder /\ sv.pend = << >> /\ Untouched
    /\ sv.pc \in {"prelude", "connecting"} => sv.out = << >>
    /\ sv.pc = "relay" => sv.seq.opened /\ ~sv.seq.term

\* What the agent's application has given and taken.
AgentBooks ==
    /\ Run(cl.got, 0) /\ Len(cl.got) <= Len(eng.took)
    /\ Live =>
          /\ Run(cl.inn, Len(cl.got)) /\ Len(cl.got) + Len(cl.inn) = cl.seq.bytes["daemon"]
          /\ Run(cl.dec.body, cl.seq.bytes["daemon"])
          /\ cl.read = cl.seq.bytes["agent"] /\ cl.read <= cl.size
          /\ cl.seq.ended["agent"] => cl.read = cl.size
          /\ cl.sentEnd <=> cl.seq.ended["agent"] /\ cl.out = << >>
          /\ Len(eng.took) <= cl.sent

\* What the engine has taken and given, and when its directions end.
DaemonBooks ==
    /\ Run(eng.took, 0) /\ eng.gave <= Len(eng.took) /\ eng.gave <= eng.cut
    /\ sv.pc = "relay" =>
          /\ sv.seq.bytes["daemon"] <= Len(eng.took) /\ sv.seq.bytes["daemon"] <= eng.cut
          /\ sv.seq.ended["daemon"] => eng.gave = eng.cut
          /\ eng.endOut => sv.seq.ended["daemon"] /\ sv.out = << >>
    /\ sv.pc = "relay" /\ ~sv.retired =>
          /\ Run(sv.pend, Len(eng.took)) /\ Len(eng.took) + Len(sv.pend) = sv.seq.bytes["agent"]
          /\ Run(sv.dec.body, sv.seq.bytes["agent"])
    /\ eng.endIn /\ Live =>
          /\ cl.seq.ended["agent"] /\ cl.sentEnd /\ cl.out = << >>
          /\ Len(eng.took) = cl.seq.bytes["agent"]

\* What the engine reports.
Reports ==
    /\ sv.pc \in {"prelude", "connecting", "opening"} => eng.term = NoTerminal /\ ~sv.retired
    /\ sv.pc = "relay" /\ ~sv.retired => eng.term = NoTerminal
    /\ sv.pc = "relay" /\ sv.retired =>
          /\ eng.term.state \in {"completed", "unknown"} /\ eng.term.received = eng.gave
          /\ eng.term.state = "completed" => eng.endOut
    /\ eng.term.state # "rejected" /\ eng.term.sent <= Len(eng.took)
    /\ eng.term.state = "completed" =>
          /\ eng.endIn /\ eng.term.sent = Len(eng.took)
          /\ eng.term.received = eng.gave /\ eng.gave = eng.cut

\* What the agent believes.
Verdicts ==
    /\ NoFalseAlarm
    /\ cl.pc # "done" => cl.result = NoTerminal
    /\ cl.result.state = "completed" => eng.term.state = "completed"
    /\ CompletedMeansAll

Flow == UpFlow /\ DnFlow
IInv == TypeOK /\ Opens /\ Flow /\ AgentBooks /\ DaemonBooks /\ Reports /\ Verdicts

-----------------------------------------------------------------------------
(* Chains *)

\* A step leads from a cursor to a cursor, and never back.
LEMMA StepForward ==
    ASSUME NEW who, NEW q \in Cursors, NEW p, NEW r \in Cursors, Step(who, q, p, r)
    PROVE  Pos(q) <= Pos(r)
<1>1. CASE PartStep(who, q, p, r)
  BY <1>1 DEF PartStep, Pos, Cursors
<1>2. CASE EndStep(who, q, p, r)
  BY <1>2 DEF EndStep, Fresh, Pos, Cursors
<1>3. CASE HeadStep(who, q, p, r)
  BY <1>3 DEF HeadStep, Pos, Cursors
<1>4. CASE DataStep(who, q, p, r)
  BY <1>4 DEF DataStep, Fresh, Pos, Cursors, Heads
<1>5. CASE OpenedStep(who, q, p, r)
  BY <1>5 DEF OpenedStep, Fresh, Pos, Cursors
<1>6. CASE TerminalStep(who, q, p, r)
  BY <1>6 DEF TerminalStep, Fresh, Pos, Cursors
<1> QED
  BY <1>1, <1>2, <1>3, <1>4, <1>5, <1>6 DEF Step

\* No piece leads nowhere.
LEMMA ChainNone ==
    ASSUME NEW who, NEW q \in Cursors
    PROVE  /\ Chain(who, << >>, q, q)
           /\ \A r : Chain(who, << >>, q, r) => r = q
<1>1. Len(<< >>) = 0 /\ 0..0 = {0} /\ 1..0 = {}
  OBVIOUS
<1>2. Chain(who, << >>, q, q)
  <2> DEFINE R == [i \in 0..0 |-> q]
  <2>1. R \in [0..0 -> Cursors] /\ R[0] = q
    BY <1>1
  <2>2. Pos(q) <= Pos(q)
    BY DEF Pos, Cursors
  <2>3. Leads(who, << >>, q, q, R)
    BY <1>1, <2>1, <2>2 DEF Leads
  <2> QED
    BY <1>1, <2>1, <2>3 DEF Chain
<1>3. \A r : Chain(who, << >>, q, r) => r = q
  BY <1>1 DEF Chain, Leads
<1> QED
  BY <1>2, <1>3

\* The ends of a chain are cursors, the second not before the first.
LEMMA ChainEnds ==
    ASSUME NEW who, NEW w \in Seq(Pieces), NEW q, NEW r, Chain(who, w, q, r)
    PROVE  q \in Cursors /\ r \in Cursors /\ Pos(q) <= Pos(r)
<1>1. PICK R \in [0..Len(w) -> Cursors] : Leads(who, w, q, r, R)
  BY DEF Chain
<1>2. Len(w) \in Nat /\ 0 \in 0..Len(w) /\ Len(w) \in 0..Len(w)
  OBVIOUS
<1> QED
  BY <1>1, <1>2 DEF Leads

\* The first piece is one step, and the others lead on.
LEMMA ChainFirst ==
    ASSUME NEW who, NEW w \in Seq(Pieces), w # << >>, NEW q, NEW r, Chain(who, w, q, r)
    PROVE  \E s \in Cursors : Step(who, q, w[1], s) /\ Chain(who, Tail(w), s, r)
<1>1. PICK R \in [0..Len(w) -> Cursors] : Leads(who, w, q, r, R)
  BY DEF Chain
<1> DEFINE n == Len(w)
           T == [i \in 0..(n - 1) |-> R[i + 1]]
<1>2. n \in Nat \ {0}
  OBVIOUS
<1>3. Tail(w) \in Seq(Pieces) /\ Len(Tail(w)) = n - 1 /\ \A i \in 1..(n - 1) : Tail(w)[i] = w[i + 1]
  OBVIOUS
<1> HIDE DEF n
<1>4. T \in [0..Len(Tail(w)) -> Cursors]
  BY <1>1, <1>2, <1>3 DEF n
<1>5. R[1] \in Cursors /\ Step(who, q, w[1], R[1])
  BY <1>1, <1>2 DEF Leads, n
<1>6. Leads(who, Tail(w), R[1], r, T)
  <2>1. T[0] = R[1] /\ T[n - 1] = r
    BY <1>1, <1>2 DEF Leads, n
  <2>2. \A i \in 1..(n - 1) : Step(who, T[i - 1], Tail(w)[i], T[i])
    <3> SUFFICES ASSUME NEW i \in 1..(n - 1) PROVE Step(who, T[i - 1], Tail(w)[i], T[i])
      OBVIOUS
    <3>1. i + 1 \in 1..n /\ i - 1 \in 0..(n - 1) /\ i \in 0..(n - 1) /\ (i + 1) - 1 = i /\ (i - 1) + 1 = i
      BY <1>2
    <3>2. Step(who, R[(i + 1) - 1], w[i + 1], R[i + 1])
      BY <1>1, <3>1 DEF Leads, n
    <3>3. T[i - 1] = R[i] /\ T[i] = R[i + 1] /\ Tail(w)[i] = w[i + 1]
      BY <1>3, <3>1
    <3> QED
      BY <3>1, <3>2, <3>3
  <2>3. \A i, j \in 0..(n - 1) : i <= j => Pos(T[i]) <= Pos(T[j])
    <3> SUFFICES ASSUME NEW i \in 0..(n - 1), NEW j \in 0..(n - 1), i <= j
                 PROVE  Pos(T[i]) <= Pos(T[j])
      OBVIOUS
    <3>1. i + 1 \in 0..n /\ j + 1 \in 0..n /\ i + 1 <= j + 1
      BY <1>2
    <3>2. Pos(R[i + 1]) <= Pos(R[j + 1])
      BY <1>1, <3>1 DEF Leads, n
    <3> QED
      BY <3>2
  <2> QED
    BY <1>3, <2>1, <2>2, <2>3 DEF Leads
<1> QED
  BY <1>4, <1>5, <1>6 DEF Chain

\* A step more.
LEMMA ChainMore ==
    ASSUME NEW who, NEW w \in Seq(Pieces), NEW q, NEW r, Chain(who, w, q, r),
           NEW p \in Pieces, NEW s \in Cursors, Step(who, r, p, s)
    PROVE  Chain(who, Append(w, p), q, s)
<1>1. PICK R \in [0..Len(w) -> Cursors] : Leads(who, w, q, r, R)
  BY DEF Chain
<1> DEFINE n == Len(w)
           v == Append(w, p)
           T == [i \in 0..(n + 1) |-> IF i = n + 1 THEN s ELSE R[i]]
<1>2. n \in Nat /\ Len(v) = n + 1 /\ v[n + 1] = p /\ \A i \in 1..n : v[i] = w[i]
  OBVIOUS
<1> HIDE DEF n, v
<1>3. T \in [0..Len(v) -> Cursors]
  BY <1>1, <1>2 DEF n
<1>4. T[0] = q /\ T[n + 1] = s
  BY <1>1, <1>2 DEF Leads
<1>5. \A i \in 1..(n + 1) : Step(who, T[i - 1], v[i], T[i])
  <2> SUFFICES ASSUME NEW i \in 1..(n + 1) PROVE Step(who, T[i - 1], v[i], T[i])
    OBVIOUS
  <2>1. i - 1 \in 0..n /\ i - 1 # n + 1 /\ i \in 0..(n + 1)
    BY <1>2
  <2>2. CASE i = n + 1
    <3>1. T[i - 1] = r /\ v[i] = p /\ T[i] = s
      BY <1>1, <1>2, <2>1, <2>2 DEF Leads, n
    <3> QED
      BY <3>1
  <2>3. CASE i # n + 1
    <3>1. i \in 1..n /\ T[i - 1] = R[i - 1] /\ T[i] = R[i] /\ v[i] = w[i]
      BY <1>2, <2>1, <2>3
    <3> QED
      BY <1>1, <3>1 DEF Leads, n
  <2> QED
    BY <2>2, <2>3
<1>6. \A i, j \in 0..(n + 1) : i <= j => Pos(T[i]) <= Pos(T[j])
  <2> SUFFICES ASSUME NEW i \in 0..(n + 1), NEW j \in 0..(n + 1), i <= j
               PROVE  Pos(T[i]) <= Pos(T[j])
    OBVIOUS
  <2>0. r \in Cursors /\ \A k \in 0..n : Pos(R[k]) <= Pos(r) /\ R[k] \in Cursors
    BY <1>1, <1>2 DEF Leads, n
  <2>1. Pos(r) <= Pos(s) /\ \A c \in Cursors : Pos(c) \in Nat
    <3>1. \A c \in Cursors : Pos(c) \in Nat
      BY DEF Pos, Cursors
    <3> QED
      BY <2>0, <3>1, StepForward
  <2>2. CASE j = n + 1
    <3>1. T[j] = s
      BY <1>2, <2>2
    <3>2. CASE i = n + 1
      BY <2>1, <2>2, <3>1, <3>2
    <3>3. CASE i # n + 1
      <4>1. i \in 0..n /\ T[i] = R[i]
        BY <1>2, <3>3
      <4>2. Pos(R[i]) \in Nat /\ Pos(r) \in Nat /\ Pos(s) \in Nat
        BY <2>0, <2>1, <4>1
      <4> HIDE DEF T
      <4> QED
        BY <2>0, <2>1, <3>1, <4>1, <4>2
    <3> QED
      BY <3>2, <3>3
  <2>3. CASE j # n + 1
    <3>1. i \in 0..n /\ j \in 0..n /\ T[i] = R[i] /\ T[j] = R[j]
      BY <1>2, <2>3
    <3> QED
      BY <1>1, <3>1 DEF Leads, n
  <2> QED
    BY <2>2, <2>3
<1>7. Leads(who, v, q, s, T)
  <2> HIDE DEF T
  <2> QED
    BY <1>2, <1>4, <1>5, <1>6 DEF Leads
<1> QED
  BY <1>3, <1>7 DEF Chain, v

\* After a result nothing comes, and after its end nothing from the agent.
LEMMA ChainOver ==
    ASSUME NEW who, NEW w \in Seq(Pieces), NEW q, NEW r, Chain(who, w, q, r),
           q.res # NoTerminal \/ (who = "agent" /\ q.ended /\ Boundary(q))
    PROVE  w = << >> /\ r = q
<1>1. w = << >>
  <2> SUFFICES ASSUME w # << >> PROVE FALSE
    OBVIOUS
  <2>1. PICK s \in Cursors : Step(who, q, w[1], s)
    BY ChainFirst
  <2> QED
    BY <2>1 DEF Step, PartStep, EndStep, HeadStep, DataStep, OpenedStep,
         TerminalStep, MayHead, Boundary
<1> QED
  BY <1>1, ChainNone, ChainEnds

-----------------------------------------------------------------------------
(* Frames *)

\* Frame::encode, piece by piece.
LEMMA Encoded ==
    ASSUME NEW k \in Kinds, NEW body \in Seq(Values)
    PROVE  /\ encode(k, body) \in Seq(Pieces) /\ Len(encode(k, body)) = Len(body) + 2
           /\ encode(k, body)[1] = Part /\ encode(k, body)[2] = Header(k, Len(body))
           /\ \A i \in 1..Len(body) : encode(k, body)[i + 2] = Load(body[i])
<1> DEFINE a == <<Part, Header(k, Len(body))>>
           b == [i \in 1..Len(body) |-> Load(body[i])]
<1>1. Len(body) \in Nat /\ \A i \in 1..Len(body) : body[i] \in Values
  OBVIOUS
<1>2. a \in Seq(Pieces) /\ Len(a) = 2 /\ a[1] = Part /\ a[2] = Header(k, Len(body))
  <2>1. Part \in Pieces /\ Header(k, Len(body)) \in Pieces
    BY <1>1 DEF Pieces
  <2> QED
    BY <2>1
<1>3. b \in Seq(Pieces) /\ Len(b) = Len(body) /\ \A i \in 1..Len(body) : b[i] = Load(body[i])
  <2>1. \A i \in 1..Len(body) : Load(body[i]) \in Pieces
    BY <1>1 DEF Pieces
  <2>2. b \in [1..Len(body) -> Pieces]
    BY <2>1
  <2> QED
    BY <1>1, <2>2
<1>4. encode(k, body) = a \o b
  BY DEF encode
<1> HIDE DEF a, b
<1>5. /\ a \o b \in Seq(Pieces) /\ Len(a \o b) = Len(a) + Len(b)
      /\ \A i \in 1..(Len(a) + Len(b)) : (a \o b)[i] = IF i <= Len(a) THEN a[i] ELSE b[i - Len(a)]
  BY <1>2, <1>3, ConcatProperties
<1>6. (a \o b)[1] = a[1] /\ (a \o b)[2] = a[2]
  BY <1>1, <1>2, <1>3, <1>5
<1>7. \A i \in 1..Len(body) : (a \o b)[i + 2] = b[i]
  BY <1>1, <1>2, <1>3, <1>5
<1> QED
  BY <1>1, <1>2, <1>3, <1>4, <1>5, <1>6, <1>7

\* A frame of data leads past its bytes.
LEMMA DataChain ==
    ASSUME NEW who, NEW q \in Cursors, Boundary(q), q.res = NoTerminal,
           NEW body \in Seq(Values), MayHead(who, q, "data", Len(body)), Run(body, q.bytes)
    PROVE  Chain(who, encode("data", body), q,
                 [q EXCEPT !.bytes = @ + Len(body), !.frames = @ + 1])
<1> DEFINE n == Len(body)
           e == encode("data", body)
           r == [q EXCEPT !.bytes = @ + n, !.frames = @ + 1]
           mid(i) == [q EXCEPT !.part = TRUE, !.head = [kind |-> "data", len |-> n], !.cnt = i]
           c == [q EXCEPT !.part = TRUE]
           R == [i \in 0..(n + 2) |-> IF i = 0 THEN q ELSE IF i = 1 THEN c
                                      ELSE IF i = n + 2 THEN r ELSE mid(i - 2)]
<1>0. n \in Nat /\ n > 0 /\ \A i \in 1..n : body[i] = q.bytes + i
  BY DEF MayHead, Run
<1>1. e \in Seq(Pieces) /\ Len(e) = n + 2 /\ e[1] = Part /\ e[2] = Header("data", n)
      /\ \A i \in 1..n : e[i + 2] = Load(q.bytes + i)
  <2>1. "data" \in Kinds
    BY DEF Kinds
  <2> QED
    BY <1>0, <2>1, Encoded
<1> HIDE DEF n, e
<1>2. /\ r \in Cursors /\ c \in Cursors /\ q.bytes \in Nat
      /\ \A i \in 0..n : mid(i) \in Cursors
  <2>1. [kind |-> "data", len |-> n] \in Heads
    BY <1>0 DEF Heads, Kinds
  <2>2. n \in Nat /\ q.bytes + n \in Nat /\ q.frames + 1 \in Nat
    BY <1>0 DEF Cursors
  <2>3. r \in Cursors
    BY <2>2 DEF Cursors
  <2>4. ASSUME NEW i \in 0..n PROVE mid(i) \in Cursors
    <3>1. i \in Nat
      BY <2>2
    <3> QED
      BY <2>1, <3>1 DEF Cursors
  <2> QED
    BY <2>3, <2>4 DEF Cursors
<1>3. /\ Pos(q) = q.bytes /\ Pos(c) = q.bytes /\ Pos(r) = q.bytes + n
      /\ \A i \in 0..n : Pos(mid(i)) = q.bytes + i
  BY <1>0 DEF Pos, Boundary, Cursors
<1>4. Step(who, q, Part, c)
  BY DEF Step, PartStep, MayHead
<1>5. Step(who, c, Header("data", n), mid(0))
  <2>1. c.part /\ c.head = NoHead /\ c.cnt = 0 /\ c.res = NoTerminal
        /\ mid(0) = [c EXCEPT !.head = [kind |-> "data", len |-> n]]
    BY DEF Boundary, Cursors
  <2>2. MayHead(who, c, "data", n)
    BY DEF MayHead, Cursors, n
  <2> HIDE DEF c, mid
  <2>3. HeadStep(who, c, Header("data", n), mid(0))
    BY <1>0, <2>1, <2>2 DEF HeadStep
  <2> QED
    BY <2>1, <2>3 DEF Step
<1>6. \A j \in 0..(n - 1) :
         Step(who, mid(j), Load(q.bytes + (j + 1)), IF j + 1 < n THEN mid(j + 1) ELSE r)
  <2> SUFFICES ASSUME NEW j \in 0..(n - 1)
               PROVE  Step(who, mid(j), Load(q.bytes + (j + 1)), IF j + 1 < n THEN mid(j + 1) ELSE r)
    OBVIOUS
  <2> DEFINE d == mid(j)
  <2>1. /\ d.part /\ d.head.kind = "data" /\ d.head.len = n /\ d.cnt = j /\ d.res = NoTerminal
        /\ Pos(d) + 1 = q.bytes + (j + 1)
    BY <1>0 DEF Cursors, Pos
  <2>2. MayHead(who, d, "data", n)
    BY DEF MayHead, Cursors, n
  <2>3. /\ mid(j + 1) = [d EXCEPT !.cnt = @ + 1]
        /\ r = [Fresh(d) EXCEPT !.bytes = @ + n, !.frames = @ + 1]
    BY <1>0 DEF Fresh, Boundary, Cursors
  <2>4. j \in Int /\ j < n
    BY <1>0
  <2> HIDE DEF d, r, mid
  <2>5. DataStep(who, d, Load(q.bytes + (j + 1)), IF j + 1 < n THEN mid(j + 1) ELSE r)
    BY <2>1, <2>2, <2>3, <2>4 DEF DataStep
  <2> QED
    BY <2>1, <2>5 DEF Step, d
<1> HIDE DEF c, r, mid
<1>7. /\ R[0] = q /\ R[1] = c /\ R[n + 2] = r
      /\ \A i \in 2..(n + 1) : R[i] = mid(i - 2)
  BY <1>0
<1>8. R \in [0..Len(e) -> Cursors]
  <2>1. \A i \in 0..(n + 2) : R[i] \in Cursors
    BY <1>0, <1>2
  <2> QED
    BY <1>1, <2>1
<1> HIDE DEF R
<1>9. \A i \in 1..(n + 2) : Step(who, R[i - 1], e[i], R[i])
  <2> SUFFICES ASSUME NEW i \in 1..(n + 2) PROVE Step(who, R[i - 1], e[i], R[i])
    OBVIOUS
  <2>1. CASE i = 1
    BY <1>1, <1>4, <1>7, <2>1
  <2>2. CASE i = 2
    <3>1. R[2] = mid(0)
      BY <1>0, <1>7
    <3> QED
      BY <1>1, <1>5, <1>7, <2>2, <3>1
  <2>3. CASE i > 2
    <3> DEFINE j == i - 3
    <3>1. j \in 0..(n - 1) /\ i = (j + 1) + 2 /\ j + 1 \in 1..n /\ i - 1 \in 2..(n + 1)
          /\ (i - 1) - 2 = j /\ (j + 1 < n => i \in 2..(n + 1) /\ i - 2 = j + 1)
          /\ (~(j + 1 < n) => i = n + 2)
      BY <1>0, <2>3
    <3> HIDE DEF j
    <3>2. R[i - 1] = mid(j)
      BY <1>7, <3>1
    <3>3. e[i] = Load(q.bytes + (j + 1))
      BY <1>1, <3>1
    <3>4. R[i] = IF j + 1 < n THEN mid(j + 1) ELSE r
      BY <1>7, <3>1
    <3> QED
      BY <1>6, <3>1, <3>2, <3>3, <3>4
  <2> QED
    BY <2>1, <2>2, <2>3
<1>10. \A i, j \in 0..(n + 2) : i <= j => Pos(R[i]) <= Pos(R[j])
  <2>1. \A i \in 0..(n + 2) : Pos(R[i]) = q.bytes + (IF i < 3 THEN 0 ELSE i - 2)
    <3> SUFFICES ASSUME NEW i \in 0..(n + 2)
                 PROVE  Pos(R[i]) = q.bytes + (IF i < 3 THEN 0 ELSE i - 2)
      OBVIOUS
    <3>1. CASE i = n + 2
      BY <1>0, <1>2, <1>3, <1>7, <3>1
    <3>3. CASE i \in {0, 1}
      BY <1>2, <1>3, <1>7, <3>3
    <3>2. CASE i \in 2..(n + 1)
      <4>1. i - 2 \in 0..n /\ R[i] = mid(i - 2)
        BY <1>0, <1>7, <3>2
      <4>2. Pos(mid(i - 2)) = q.bytes + (i - 2)
        BY <1>3, <4>1
      <4> QED
        BY <1>2, <3>2, <4>1, <4>2
    <3> QED
      BY <1>0, <3>1, <3>2, <3>3
  <2> QED
    BY <1>0, <1>2, <2>1
<1>11. Leads(who, e, q, r, R)
  BY <1>1, <1>7, <1>9, <1>10 DEF Leads
<1> QED
  BY <1>8, <1>11 DEF Chain, e, r, n

\* END is a header.
LEMMA EndChain ==
    ASSUME NEW who, NEW q \in Cursors, Boundary(q), q.res = NoTerminal, MayHead(who, q, "end", 0)
    PROVE  Chain(who, encode("end", << >>), q, [q EXCEPT !.ended = TRUE])
<1> DEFINE e == encode("end", << >>)
           c == [q EXCEPT !.part = TRUE]
           r == [q EXCEPT !.ended = TRUE]
<1>1. << >> \in Seq(Values) /\ Len(<< >>) = 0 /\ "end" \in Kinds
  BY DEF Kinds
<1>2. e = Append(Append(<< >>, Part), Header("end", 0))
  BY DEF encode
<1>3. Part \in Pieces /\ Header("end", 0) \in Pieces
  BY <1>1 DEF Pieces
<1>4. c \in Cursors /\ r \in Cursors
  BY DEF Cursors
<1>5. Step(who, q, Part, c)
  BY DEF Step, PartStep, MayHead
<1>6. Step(who, c, Header("end", 0), r)
  <2>1. c.part /\ c.head = NoHead /\ c.cnt = 0 /\ c.res = NoTerminal
    BY DEF Boundary, Cursors
  <2>2. MayHead(who, c, "end", 0)
    BY DEF MayHead, Cursors
  <2>3. r = [Fresh(c) EXCEPT !.ended = TRUE]
    BY DEF Fresh, Boundary, Cursors
  <2> QED
    BY <2>1, <2>2, <2>3 DEF Step, EndStep
<1> HIDE DEF c, r
<1>7. << >> \in Seq(Pieces) /\ Append(<< >>, Part) \in Seq(Pieces)
  BY <1>3
<1>8. Chain(who, Append(<< >>, Part), q, c)
  BY <1>3, <1>4, <1>5, <1>7, ChainNone, ChainMore
<1>9. Chain(who, Append(Append(<< >>, Part), Header("end", 0)), q, r)
  BY <1>3, <1>4, <1>6, <1>7, <1>8, ChainMore
<1> QED
  BY <1>2, <1>9 DEF r

\* OPENED and the terminal result are frames of one value.
LEMMA ControlChain ==
    ASSUME NEW who, NEW q \in Cursors, Boundary(q), q.res = NoTerminal,
           NEW k \in {"opened", "terminal"}, MayHead(who, q, k, 1), NEW v \in Values,
           NEW r \in Cursors,
           \/ k = "opened" /\ v = 0 /\ r = [q EXCEPT !.opened = TRUE]
           \/ k = "terminal" /\ v \in Results /\ Closes(q, v) /\ r = [q EXCEPT !.res = v]
    PROVE  Chain(who, encode(k, <<v>>), q, r)
<1> DEFINE c == [q EXCEPT !.part = TRUE]
           d == [c EXCEPT !.head = [kind |-> k, len |-> 1]]
<1>1. encode(k, <<v>>) = Append(Append(Append(<< >>, Part), Header(k, 1)), Load(v))
  BY DEF encode
<1>2. Part \in Pieces /\ Header(k, 1) \in Pieces /\ Load(v) \in Pieces
  BY DEF Pieces, Kinds
<1>3. c \in Cursors /\ d \in Cursors
  BY DEF Cursors, Heads, Kinds
<1>4. Step(who, q, Part, c)
  BY DEF Step, PartStep, MayHead
<1>5. Step(who, c, Header(k, 1), d)
  <2>1. c.part /\ c.head = NoHead /\ c.cnt = 0 /\ c.res = NoTerminal
    BY DEF Boundary, Cursors
  <2>2. MayHead(who, c, k, 1)
    BY DEF MayHead, Cursors
  <2> HIDE DEF c
  <2>3. HeadStep(who, c, Header(k, 1), d)
    BY <2>1, <2>2 DEF HeadStep
  <2> QED
    BY <2>1, <2>3 DEF Step
<1>6. Step(who, d, Load(v), r)
  <2>1. d.part /\ d.head = [kind |-> k, len |-> 1] /\ d.cnt = 0 /\ d.res = NoTerminal
    BY DEF Boundary, Cursors
  <2>2. MayHead(who, d, k, 1)
    BY DEF MayHead, Cursors
  <2>3. CASE k = "opened"
    <3>1. r = [Fresh(d) EXCEPT !.opened = TRUE] /\ v = 0
      BY <2>3 DEF Fresh, Boundary, Cursors
    <3> HIDE DEF d
    <3> QED
      BY <2>1, <2>2, <2>3, <3>1 DEF Step, OpenedStep
  <2>4. CASE k = "terminal"
    <3>1. r = [Fresh(d) EXCEPT !.res = v] /\ Closes(d, v) /\ v \in Results
      BY <2>4 DEF Fresh, Boundary, Cursors, Closes
    <3> HIDE DEF d
    <3>2. TerminalStep(who, d, Load(v), r)
      BY <2>1, <2>2, <2>4, <3>1 DEF TerminalStep
    <3> QED
      BY <2>1, <3>2 DEF Step
  <2> QED
    BY <2>3, <2>4
<1> HIDE DEF c, d
<1>7. /\ << >> \in Seq(Pieces) /\ Append(<< >>, Part) \in Seq(Pieces)
      /\ Append(Append(<< >>, Part), Header(k, 1)) \in Seq(Pieces)
  BY <1>2
<1>8. Chain(who, Append(<< >>, Part), q, c)
  BY <1>2, <1>3, <1>4, <1>7, ChainNone, ChainMore
<1>9. Chain(who, Append(Append(<< >>, Part), Header(k, 1)), q, d)
  BY <1>2, <1>3, <1>5, <1>7, <1>8, ChainMore
<1>10. Chain(who, Append(Append(Append(<< >>, Part), Header(k, 1)), Load(v)), q, r)
  BY <1>2, <1>6, <1>7, <1>9, ChainMore
<1> QED
  BY <1>1, <1>10

-----------------------------------------------------------------------------
(* The Sequence and the Decoder *)

\* Both start empty.
LEMMA Beginnings ==
    /\ NewSequence \in Tallies /\ NewDecoder \in Decoders
    /\ ~NewSequence.opened /\ ~NewSequence.term
    /\ \A who \in Sides : /\ NewSequence.bytes[who] = 0 /\ NewSequence.frames[who] = 0
                          /\ ~NewSequence.ended[who]
    /\ ~NewDecoder.part /\ NewDecoder.head = NoHead /\ NewDecoder.body = << >>
    /\ NoTerminal \in Results /\ NoTerminal.state = "none" /\ NoTerminal.sent = 0
<1>1. NewSequence \in Tallies
  <2>1. \A b \in BOOLEAN : [agent |-> b, daemon |-> b] \in [Sides -> BOOLEAN]
    BY DEF Sides
  <2>2. [agent |-> FALSE, daemon |-> FALSE] \in [Sides -> BOOLEAN]
    BY <2>1
  <2>3. [agent |-> 0, daemon |-> 0] \in [Sides -> Nat]
    BY DEF Sides
  <2> QED
    BY <2>2, <2>3 DEF NewSequence, Tallies
<1>2. NewDecoder \in Decoders
  BY DEF NewDecoder, Decoders, NoHead, Heads, Kinds
<1>3. NoTerminal \in Results
  BY DEF NoTerminal, Results, States
<1> QED
  BY <1>1, <1>2, <1>3 DEF NewSequence, NewDecoder, Sides, NoTerminal

\* A cursor of a Sequence and a Decoder.
LEMMA CursorTypes ==
    ASSUME NEW s \in Tallies, NEW who \in Sides, NEW d \in Decoders
    PROVE  CursorOf(s, who, d) \in Cursors
<1>1. /\ s.ended[who] \in BOOLEAN /\ s.bytes[who] \in Nat /\ s.frames[who] \in Nat
      /\ s.opened \in BOOLEAN
  BY DEF Tallies
<1>2. d.part \in BOOLEAN /\ d.head \in Heads /\ Len(d.body) \in Nat
  BY DEF Decoders
<1> QED
  BY <1>1, <1>2, Beginnings DEF CursorOf, Cursors

\* A frame that is accepted changes the Sequence of its side only.
Accepted(s, who, f, t) ==
    /\ t \in Tallies
    /\ t.opened <=> s.opened \/ f.kind = "opened"
    /\ t.term <=> s.term \/ f.kind = "terminal"
    /\ \A x \in Sides :
          /\ t.ended[x] <=> s.ended[x] \/ (f.kind = "end" /\ x = who)
          /\ t.bytes[x] = s.bytes[x] + (IF f.kind = "data" /\ x = who THEN Len(f.body) ELSE 0)
          /\ t.frames[x] = s.frames[x] + (IF f.kind = "data" /\ x = who THEN 1 ELSE 0)

\* accept does that to a frame it lets pass, and nothing else.
LEMMA Accepts ==
    ASSUME NEW s \in Tallies, NEW who \in Sides, NEW f, f.kind \in Kinds \ {"none"},
           f.body \in Seq(Values)
    PROVE  Accepted(s, who, f, accept(s, who, f))
<1> DEFINE k == f.kind
           n == Len(f.body)
           t == accept(s, who, f)
<1>1. n \in Nat /\ k = f.kind
  OBVIOUS
<1>2. /\ s.opened \in BOOLEAN /\ s.term \in BOOLEAN
      /\ \A x \in Sides : s.ended[x] \in BOOLEAN /\ s.bytes[x] \in Nat /\ s.frames[x] \in Nat
  BY DEF Tallies
<1> HIDE DEF n, k
<1>3. CASE k = "opened"
  <2>1. t = [s EXCEPT !.opened = TRUE]
    BY <1>1, <1>3 DEF accept
  <2> HIDE DEF t
  <2>2. t \in Tallies
    BY <2>1 DEF Tallies
  <2>3. t.opened = TRUE /\ t.term = s.term /\ t.ended = s.ended /\ t.bytes = s.bytes /\ t.frames = s.frames
    BY <2>1 DEF Tallies
  <2> QED
    BY <1>1, <1>2, <1>3, <2>2, <2>3 DEF t, Accepted
<1>4. CASE k = "data"
  <2>1. t = [s EXCEPT !.bytes[who] = @ + n, !.frames[who] = @ + 1]
    BY <1>1, <1>4 DEF accept, n
  <2> HIDE DEF t
  <2>2. /\ t.bytes = [s.bytes EXCEPT ![who] = @ + n]
        /\ t.frames = [s.frames EXCEPT ![who] = @ + 1]
        /\ t.opened = s.opened /\ t.term = s.term /\ t.ended = s.ended
    BY <2>1 DEF Tallies
  <2>3. t.bytes \in [Sides -> Nat] /\ t.frames \in [Sides -> Nat]
    <3>1. s.bytes \in [Sides -> Nat] /\ s.frames \in [Sides -> Nat]
      BY DEF Tallies
    <3>2. t.bytes \in [Sides -> Nat]
      BY <1>1, <2>2, <3>1
    <3> QED
      BY <2>2, <3>1, <3>2
  <2>4. t \in Tallies
    BY <2>1, <2>2, <2>3 DEF Tallies
  <2>5. \A x \in Sides :
           /\ t.bytes[x] = s.bytes[x] + (IF x = who THEN n ELSE 0)
           /\ t.frames[x] = s.frames[x] + (IF x = who THEN 1 ELSE 0)
    BY <1>1, <1>2, <2>2 DEF Tallies
  <2> QED
    BY <1>1, <1>2, <1>4, <2>2, <2>4, <2>5 DEF n, t, Accepted
<1>5. CASE k = "end"
  <2>1. t = [s EXCEPT !.ended[who] = TRUE]
    BY <1>1, <1>5 DEF accept
  <2> HIDE DEF t
  <2>2. /\ t.ended = [s.ended EXCEPT ![who] = TRUE]
        /\ t.opened = s.opened /\ t.term = s.term /\ t.bytes = s.bytes /\ t.frames = s.frames
    BY <2>1 DEF Tallies
  <2>3. t.ended \in [Sides -> BOOLEAN]
    BY <1>2, <2>2 DEF Tallies
  <2>4. t \in Tallies
    BY <2>1, <2>2, <2>3 DEF Tallies
  <2>5. \A x \in Sides : t.ended[x] <=> s.ended[x] \/ x = who
    BY <1>2, <2>2 DEF Tallies
  <2> QED
    BY <1>1, <1>2, <1>5, <2>2, <2>4, <2>5 DEF t, Accepted
<1>6. CASE k = "terminal"
  <2>1. t = [s EXCEPT !.term = TRUE]
    BY <1>1, <1>6 DEF accept
  <2> HIDE DEF t
  <2>2. t \in Tallies
    BY <2>1 DEF Tallies
  <2>3. t.opened = s.opened /\ t.term = TRUE /\ t.ended = s.ended /\ t.bytes = s.bytes /\ t.frames = s.frames
    BY <2>1 DEF Tallies
  <2> QED
    BY <1>1, <1>2, <1>6, <2>2, <2>3 DEF t, Accepted
<1> QED
  BY <1>1, <1>3, <1>4, <1>5, <1>6 DEF Kinds

\* Cursors are equal when their fields are.
LEMMA CursorEqual ==
    ASSUME NEW a \in Cursors, NEW b \in Cursors, a.opened <=> b.opened, a.ended <=> b.ended,
           a.res = b.res, a.bytes = b.bytes, a.frames = b.frames, a.part <=> b.part,
           a.head = b.head, a.cnt = b.cnt
    PROVE  a = b
<1>1. a.opened = b.opened /\ a.ended = b.ended /\ a.part = b.part
  BY DEF Cursors
<1> QED
  BY <1>1 DEF Cursors

\* What a cursor has of its Sequence and Decoder.
LEMMA CursorFields ==
    ASSUME NEW s \in Tallies, NEW who \in Sides, NEW d \in Decoders, NEW q, q = CursorOf(s, who, d)
    PROVE  /\ q \in Cursors /\ (q.opened <=> who = "agent" \/ s.opened)
           /\ (q.ended <=> s.ended[who]) /\ q.res = NoTerminal
           /\ q.bytes = s.bytes[who] /\ q.frames = s.frames[who] /\ (q.part <=> d.part)
           /\ q.head = d.head /\ q.cnt = Len(d.body)
BY CursorTypes DEF CursorOf

\* check_header passes a header that the cursor has room for.
LEMMA HeaderPasses ==
    ASSUME NEW s \in Tallies, NEW who \in Sides, NEW d \in Decoders, ~s.term,
           who = "agent" => s.opened, NEW h, MayHead(who, CursorOf(s, who, d), h.kind, h.len)
    PROVE  check_header(s, who, h)
<1> DEFINE q == CursorOf(s, who, d)
<1>1. /\ q \in Cursors /\ (q.opened <=> who = "agent" \/ s.opened) /\ (q.ended <=> s.ended[who])
      /\ q.bytes = s.bytes[who] /\ q.frames = s.frames[who] /\ MayHead(who, q, h.kind, h.len)
  BY CursorFields
<1> HIDE DEF q
<1> QED
  BY <1>1 DEF check_header, MayHead

\* A whole frame f takes a reader with the Sequence s to r.
Whole(who, s, f, r) ==
    /\ f.kind \in Kinds \ {"none"} /\ f.body \in Seq(Values) /\ f = [kind |-> f.kind, body |-> f.body]
    /\ MayHead(who, CursorOf(s, who, NewDecoder), f.kind, Len(f.body))
    /\ f.kind = "data" => Run(f.body, s.bytes[who])
    /\ IF f.kind = "terminal"
         THEN /\ f.body[1] \in Results /\ Closes(CursorOf(s, who, NewDecoder), f.body[1])
              /\ r.res = f.body[1]
         ELSE r = CursorOf(accept(s, who, f), who, NewDecoder)

\* A piece p takes the reader to r, within a frame or at the end of one.
Taken(who, s, d, p, r) ==
    LET f == decode(d, s, who, p)
        e == Decoded(d, s, who, p)
    IN \/ /\ f = NoFrame /\ e \in Decoders
          /\ r = CursorOf(s, who, e) /\ Run(e.body, s.bytes[who])
       \/ /\ f # NoFrame /\ f # BadFrame /\ e = NewDecoder /\ Whole(who, s, f, r)

\* A result from the daemon fits what the agent has sent.
Fitting(s, v) ==
    /\ v.sent <= s.bytes["agent"]
    /\ v.state = "completed" => s.ended["agent"] /\ v.sent = s.bytes["agent"]

\* The first two pieces of a frame complete none, but for END.
LEMMA TakesHeader ==
    ASSUME NEW s \in Tallies, NEW who \in Sides, NEW d \in Decoders, ~s.term,
           who = "agent" => s.opened, Run(d.body, s.bytes[who]), NEW p, NEW r \in Cursors,
           LET q == CursorOf(s, who, d)
           IN PartStep(who, q, p, r) \/ HeadStep(who, q, p, r) \/ EndStep(who, q, p, r)
    PROVE  Taken(who, s, d, p, r)
<1> DEFINE q == CursorOf(s, who, d)
           f == decode(d, s, who, p)
           e == Decoded(d, s, who, p)
<1>1. /\ q \in Cursors /\ (q.opened <=> who = "agent" \/ s.opened) /\ (q.ended <=> s.ended[who])
      /\ q.res = NoTerminal /\ q.bytes = s.bytes[who] /\ q.frames = s.frames[who]
      /\ (q.part <=> d.part) /\ q.head = d.head /\ q.cnt = Len(d.body)
  BY CursorFields
<1>2. d.body \in Seq(Values) /\ d.head \in Heads /\ Len(d.body) \in Nat
  BY DEF Decoders
<1>3. CASE PartStep(who, q, p, r)
  <2>1. p = Part /\ ~d.part /\ r = [q EXCEPT !.part = TRUE]
    BY <1>1, <1>3 DEF PartStep, Boundary
  <2>2. p.t = "part"
    BY <2>1 DEF Part
  <2>3. Admits(d, s, who, p)
    BY <2>1, <2>2 DEF Admits
  <2>4. f = NoFrame
    BY <2>2, <2>3 DEF decode
  <2>5. e = [part |-> TRUE, head |-> d.head, body |-> d.body]
    BY <2>2, <2>4 DEF Decoded, HeadWith, BodyWith
  <2> HIDE DEF q, f, e
  <2>6. e \in Decoders /\ e.head = d.head /\ e.body = d.body /\ e.part
    BY <1>2, <2>5 DEF Decoders
  <2>7. r.part /\ r.opened = q.opened /\ r.ended = q.ended /\ r.res = q.res /\ r.bytes = q.bytes
        /\ r.frames = q.frames /\ r.head = q.head /\ r.cnt = q.cnt
    BY <1>1, <2>1 DEF Cursors
  <2>8. r = CursorOf(s, who, e)
    BY <1>1, <2>6, <2>7, CursorFields, CursorEqual
  <2> QED
    BY <2>4, <2>6, <2>8 DEF Taken, f, e
<1>4. CASE HeadStep(who, q, p, r)
  <2>1. PICK k \in {"opened", "data", "terminal"}, n \in Nat :
           /\ p = Header(k, n) /\ MayHead(who, q, k, n)
           /\ q.part /\ q.head = NoHead /\ q.cnt = 0
           /\ r = [q EXCEPT !.head = [kind |-> k, len |-> n]]
    BY <1>4 DEF HeadStep
  <2>2. p.t = "head" /\ p.kind = k /\ p.len = n
    BY <2>1 DEF Header
  <2>3. check_header(s, who, p) /\ n > 0
    <3>1. MayHead(who, CursorOf(s, who, d), p.kind, p.len)
      BY <2>1, <2>2
    <3> QED
      BY <2>1, <3>1, HeaderPasses DEF MayHead
  <2>4. Admits(d, s, who, p)
    BY <1>1, <2>1, <2>2, <2>3 DEF Admits
  <2>5. f = NoFrame
    BY <1>1, <2>1, <2>2, <2>3, <2>4 DEF decode, HeadWith, BodyWith
  <2>6. e = [part |-> TRUE, head |-> [kind |-> k, len |-> n], body |-> d.body]
    BY <2>2, <2>5 DEF Decoded, HeadWith, BodyWith
  <2> HIDE DEF q, f, e
  <2>7. e \in Decoders /\ e.head = [kind |-> k, len |-> n] /\ e.body = d.body /\ e.part
    BY <1>2, <2>6 DEF Decoders, Heads, Kinds
  <2>8. r.part = q.part /\ r.opened = q.opened /\ r.ended = q.ended /\ r.res = q.res
        /\ r.bytes = q.bytes /\ r.frames = q.frames /\ r.head = [kind |-> k, len |-> n] /\ r.cnt = q.cnt
    BY <1>1, <2>1 DEF Cursors
  <2>9. r = CursorOf(s, who, e)
    <3> DEFINE c == CursorOf(s, who, e)
    <3>1. /\ c \in Cursors /\ (c.opened <=> who = "agent" \/ s.opened) /\ (c.ended <=> s.ended[who])
          /\ c.res = NoTerminal /\ c.bytes = s.bytes[who] /\ c.frames = s.frames[who]
          /\ (c.part <=> e.part) /\ c.head = e.head /\ c.cnt = Len(e.body)
      BY <2>7, CursorFields
    <3> HIDE DEF c
    <3>2. (r.part <=> c.part) /\ (r.opened <=> c.opened) /\ (r.ended <=> c.ended)
      BY <1>1, <2>1, <2>7, <2>8, <3>1
    <3>3. /\ r.res = c.res /\ r.bytes = c.bytes /\ r.frames = c.frames
          /\ r.head = c.head /\ r.cnt = c.cnt
      BY <1>1, <2>7, <2>8, <3>1
    <3>4. r = c
      BY <3>1, <3>2, <3>3, CursorEqual
    <3> QED
      BY <3>4 DEF c
  <2> QED
    BY <2>5, <2>7, <2>9 DEF Taken, f, e
<1>5. CASE EndStep(who, q, p, r)
  <2> DEFINE g == [kind |-> "end", body |-> << >>]
             t == accept(s, who, g)
  <2>1. /\ p = Header("end", 0) /\ MayHead(who, q, "end", 0)
        /\ q.part /\ q.head = NoHead /\ q.cnt = 0 /\ r = [Fresh(q) EXCEPT !.ended = TRUE]
    BY <1>5 DEF EndStep
  <2>2. p.t = "head" /\ p.kind = "end" /\ p.len = 0
    BY <2>1 DEF Header
  <2>3. check_header(s, who, p) /\ check_header(s, who, [kind |-> "end", len |-> 0])
    <3>1. MayHead(who, CursorOf(s, who, d), p.kind, p.len)
      BY <2>1, <2>2
    <3> DEFINE h == [kind |-> "end", len |-> 0]
    <3>2. MayHead(who, CursorOf(s, who, d), h.kind, h.len)
      BY <2>1
    <3> HIDE DEF h
    <3>3. check_header(s, who, p) /\ check_header(s, who, h)
      BY <3>1, <3>2, HeaderPasses
    <3> QED
      BY <3>3 DEF h
  <2>4. Admits(d, s, who, p)
    BY <1>1, <2>1, <2>2, <2>3 DEF Admits
  <2>5. d.body = << >>
    <3>1. Len(d.body) = 0
      BY <1>1, <2>1
    <3> HIDE DEF q
    <3> QED
      BY <1>2, <3>1
  <2>6. Acceptable(s, who, g)
    BY <2>3 DEF Acceptable
  <2>7. f = g
    BY <2>2, <2>4, <2>5, <2>6 DEF decode, HeadWith, BodyWith
  <2>8. e = NewDecoder /\ f # NoFrame /\ f # BadFrame
    BY <2>7 DEF Decoded, NoFrame, BadFrame
  <2>9. << >> \in Seq(Values) /\ "end" \in Kinds \ {"none"}
    BY DEF Kinds
  <2>10. /\ t \in Tallies /\ (t.opened <=> s.opened)
         /\ \A x \in Sides : /\ t.ended[x] <=> s.ended[x] \/ x = who
                             /\ t.bytes[x] = s.bytes[x] /\ t.frames[x] = s.frames[x]
    <3>1. \A x \in Sides : s.bytes[x] \in Nat /\ s.frames[x] \in Nat
      BY DEF Tallies
    <3>2. t = accept(s, who, g) /\ g.kind = "end" /\ g.body = << >>
      OBVIOUS
    <3> HIDE DEF t, g
    <3>3. g.kind \in Kinds \ {"none"} /\ g.body \in Seq(Values)
      BY <2>9, <3>2
    <3>4. Accepted(s, who, g, t)
      BY <3>2, <3>3, Accepts
    <3> QED
      BY <3>1, <3>2, <3>4 DEF Accepted
  <2> HIDE DEF q, f, e, t
  <2>11. ~r.part /\ r.opened = q.opened /\ r.ended /\ r.res = q.res /\ r.bytes = q.bytes
         /\ r.frames = q.frames /\ r.head = NoHead /\ r.cnt = 0
    BY <1>1, <2>1 DEF Fresh, Cursors
  <2>12. r = CursorOf(t, who, NewDecoder)
    BY <1>1, <2>10, <2>11, Beginnings, CursorFields, CursorEqual
  <2>13. MayHead(who, CursorOf(s, who, NewDecoder), "end", 0)
    BY <1>1, <2>1, Beginnings, CursorFields DEF MayHead
  <2>14. Whole(who, s, g, r)
    BY <2>9, <2>12, <2>13 DEF Whole, t
  <2> QED
    BY <2>7, <2>8, <2>14 DEF Taken, f, e
<1> QED
  BY <1>3, <1>4, <1>5

\* A byte completes the frame of data or adds to it.
LEMMA TakesData ==
    ASSUME NEW s \in Tallies, NEW who \in Sides, NEW d \in Decoders, ~s.term,
           who = "agent" => s.opened, Run(d.body, s.bytes[who]), NEW p, NEW r \in Cursors,
           DataStep(who, CursorOf(s, who, d), p, r)
    PROVE  Taken(who, s, d, p, r)
<1> DEFINE q == CursorOf(s, who, d)
           f == decode(d, s, who, p)
           e == Decoded(d, s, who, p)
           v == s.bytes[who] + Len(d.body) + 1
           body == Append(d.body, v)
<1>1. /\ q \in Cursors /\ (q.opened <=> who = "agent" \/ s.opened) /\ (q.ended <=> s.ended[who])
      /\ q.res = NoTerminal /\ q.bytes = s.bytes[who] /\ q.frames = s.frames[who]
      /\ (q.part <=> d.part) /\ q.head = d.head /\ q.cnt = Len(d.body)
  BY CursorFields
<1>2. /\ d.body \in Seq(Values) /\ d.head \in Heads /\ Len(d.body) \in Nat /\ s.bytes[who] \in Nat
      /\ v \in Values /\ \A i \in 1..Len(d.body) : d.body[i] = s.bytes[who] + i
  BY DEF Decoders, Tallies, Values, Run
<1>3. /\ p = Load(v) /\ MayHead(who, q, "data", d.head.len)
      /\ d.part /\ d.head.kind = "data" /\ Len(d.body) < d.head.len
      /\ r = IF q.cnt + 1 < q.head.len
               THEN [q EXCEPT !.cnt = @ + 1]
               ELSE [Fresh(q) EXCEPT !.bytes = @ + q.head.len, !.frames = @ + 1]
  BY <1>1 DEF DataStep, Pos
<1>4. p.t = "load" /\ p.v = v
  BY <1>3 DEF Load
<1>5. check_header(s, who, d.head)
  BY <1>3, HeaderPasses
<1>6. Admits(d, s, who, p)
  <2>1. d.head # NoHead
    BY <1>3 DEF NoHead
  <2> QED
    BY <1>4, <1>5, <2>1 DEF Admits
<1>7. /\ body \in Seq(Values) /\ Len(body) = Len(d.body) + 1 /\ Run(body, s.bytes[who])
  <2>1. /\ body \in Seq(Values) /\ Len(body) = Len(d.body) + 1 /\ body[Len(d.body) + 1] = v
        /\ \A i \in 1..Len(d.body) : body[i] = d.body[i]
    BY <1>2, AppendProperties
  <2> HIDE DEF body
  <2>2. DOMAIN body = 1..(Len(d.body) + 1)
    BY <2>1
  <2>3. ASSUME NEW i \in 1..(Len(d.body) + 1) PROVE body[i] = s.bytes[who] + i
    <3>1. CASE i = Len(d.body) + 1
      <4>1. v = s.bytes[who] + (Len(d.body) + 1)
        BY <1>2
      <4> HIDE DEF v
      <4> QED
        BY <2>1, <3>1, <4>1
    <3>2. CASE i \in 1..Len(d.body)
      BY <1>2, <2>1, <3>2
    <3> QED
      BY <1>2, <3>1, <3>2
  <2> QED
    BY <2>1, <2>2, <2>3 DEF Run
<1>8. HeadWith(d, p) = d.head /\ BodyWith(d, p) = body
  BY <1>4 DEF HeadWith, BodyWith
<1> HIDE DEF q, f, e, body, v
<1>9. CASE Len(body) < d.head.len
  <2>1. f = NoFrame
    BY <1>6, <1>8, <1>9 DEF decode, f
  <2>2. e = [part |-> TRUE, head |-> d.head, body |-> body]
    BY <1>8, <2>1 DEF Decoded, f, e
  <2>3. e \in Decoders /\ e.part /\ e.head = d.head /\ e.body = body
    BY <1>2, <1>7, <2>2 DEF Decoders
  <2>4. r = CursorOf(s, who, e)
    <3> DEFINE c == CursorOf(s, who, e)
    <3>1. /\ c \in Cursors /\ (c.opened <=> who = "agent" \/ s.opened) /\ (c.ended <=> s.ended[who])
          /\ c.res = NoTerminal /\ c.bytes = s.bytes[who] /\ c.frames = s.frames[who]
          /\ (c.part <=> e.part) /\ c.head = e.head /\ c.cnt = Len(e.body)
      BY <2>3, CursorFields
    <3>2. r = [q EXCEPT !.cnt = @ + 1]
      BY <1>1, <1>2, <1>3, <1>7, <1>9
    <3>3. /\ r.res = q.res /\ r.bytes = q.bytes /\ r.frames = q.frames /\ r.head = q.head
          /\ r.cnt = q.cnt + 1 /\ r.part = q.part /\ r.opened = q.opened /\ r.ended = q.ended
      BY <1>1, <3>2 DEF Cursors
    <3> HIDE DEF c
    <3>4. /\ r.res = c.res /\ r.bytes = c.bytes /\ r.frames = c.frames
          /\ r.head = c.head /\ r.cnt = c.cnt
      BY <1>1, <1>7, <2>3, <3>1, <3>3
    <3>5. (r.part <=> c.part) /\ (r.opened <=> c.opened) /\ (r.ended <=> c.ended)
      BY <1>1, <1>3, <2>3, <3>1, <3>3
    <3>6. r = c
      BY <3>1, <3>4, <3>5, CursorEqual
    <3> QED
      BY <3>6 DEF c
  <2> QED
    BY <1>7, <2>1, <2>3, <2>4 DEF Taken, f, e
<1>10. CASE ~(Len(body) < d.head.len)
  <2> DEFINE g == [kind |-> "data", body |-> body]
             t == accept(s, who, g)
  <2>1. Len(body) = d.head.len
    BY <1>2, <1>3, <1>7, <1>10 DEF Heads
  <2>2. Acceptable(s, who, g)
    <3> DEFINE h == [kind |-> "data", len |-> Len(body)]
    <3>1. MayHead(who, CursorOf(s, who, d), h.kind, h.len)
      BY <1>3, <2>1 DEF q
    <3> HIDE DEF h
    <3>2. check_header(s, who, h)
      BY <3>1, HeaderPasses
    <3> QED
      BY <3>2 DEF Acceptable, h
  <2>3. f = g
    BY <1>3, <1>4, <1>6, <1>8, <1>10, <2>2 DEF decode, f
  <2>4. e = NewDecoder /\ f # NoFrame /\ f # BadFrame
    BY <2>3 DEF Decoded, NoFrame, BadFrame, e, f
  <2>5. g.kind = "data" /\ g.body = body /\ g.kind \in Kinds \ {"none"} /\ g = [kind |-> g.kind, body |-> g.body]
    BY DEF Kinds
  <2>6. r = CursorOf(t, who, NewDecoder)
    <3> DEFINE c == CursorOf(t, who, NewDecoder)
    <3> HIDE DEF g
    <3>1. Accepted(s, who, g, t)
      BY <1>7, <2>5, Accepts
    <3> HIDE DEF t
    <3>2. /\ t \in Tallies /\ (t.opened <=> s.opened) /\ (t.ended[who] <=> s.ended[who])
          /\ t.bytes[who] = s.bytes[who] + Len(body) /\ t.frames[who] = s.frames[who] + 1
      BY <2>5, <3>1 DEF Accepted
    <3>3. /\ c \in Cursors /\ (c.opened <=> who = "agent" \/ t.opened) /\ (c.ended <=> t.ended[who])
          /\ c.res = NoTerminal /\ c.bytes = t.bytes[who] /\ c.frames = t.frames[who]
          /\ (c.part <=> NewDecoder.part) /\ c.head = NewDecoder.head /\ c.cnt = Len(NewDecoder.body)
      BY <3>2, Beginnings, CursorFields
    <3>4. r = [Fresh(q) EXCEPT !.bytes = @ + q.head.len, !.frames = @ + 1]
      BY <1>1, <1>3, <1>7, <1>10
    <3>5. /\ r.res = q.res /\ r.bytes = q.bytes + q.head.len /\ r.frames = q.frames + 1
          /\ r.head = NoHead /\ r.cnt = 0 /\ ~r.part /\ r.opened = q.opened /\ r.ended = q.ended
      BY <1>1, <3>4 DEF Cursors, Fresh
    <3> HIDE DEF c
    <3>6. /\ r.res = c.res /\ r.bytes = c.bytes /\ r.frames = c.frames
          /\ r.head = c.head /\ r.cnt = c.cnt
      BY <1>1, <2>1, <3>2, <3>3, <3>5, Beginnings
    <3>7. (r.part <=> c.part) /\ (r.opened <=> c.opened) /\ (r.ended <=> c.ended)
      BY <1>1, <3>2, <3>3, <3>5, Beginnings
    <3>8. r = c
      BY <3>3, <3>6, <3>7, CursorEqual
    <3> QED
      BY <3>8 DEF c
  <2>7. MayHead(who, CursorOf(s, who, NewDecoder), "data", Len(body))
    <3> DEFINE c == CursorOf(s, who, NewDecoder)
    <3>1. /\ (c.opened <=> who = "agent" \/ s.opened) /\ (c.ended <=> s.ended[who])
          /\ c.bytes = s.bytes[who] /\ c.frames = s.frames[who]
      BY Beginnings, CursorFields
    <3> HIDE DEF c
    <3>2. MayHead(who, c, "data", Len(body))
      BY <1>1, <1>3, <2>1, <3>1 DEF MayHead
    <3> QED
      BY <3>2 DEF c
  <2> HIDE DEF g
  <2>8. Whole(who, s, g, r)
    BY <1>7, <2>5, <2>6, <2>7 DEF Whole
  <2> QED
    BY <2>3, <2>4, <2>8 DEF Taken, f, e
<1> QED
  BY <1>9, <1>10

\* The one value of OPENED or of a result completes its frame.
LEMMA TakesControl ==
    ASSUME NEW s \in Tallies, NEW who \in Sides, NEW d \in Decoders, ~s.term,
           who = "agent" => s.opened, NEW p, NEW r \in Cursors,
           LET q == CursorOf(s, who, d)
           IN OpenedStep(who, q, p, r) \/ TerminalStep(who, q, p, r),
           r.res # NoTerminal => Fitting(s, r.res)
    PROVE  Taken(who, s, d, p, r)
<1> DEFINE q == CursorOf(s, who, d)
           f == decode(d, s, who, p)
           e == Decoded(d, s, who, p)
           o == CursorOf(s, who, NewDecoder)
<1>1. /\ q \in Cursors /\ (q.opened <=> who = "agent" \/ s.opened) /\ (q.ended <=> s.ended[who])
      /\ q.res = NoTerminal /\ q.bytes = s.bytes[who] /\ q.frames = s.frames[who]
      /\ (q.part <=> d.part) /\ q.head = d.head /\ q.cnt = Len(d.body)
  BY CursorFields
<1>2. /\ o \in Cursors /\ (o.opened <=> who = "agent" \/ s.opened) /\ (o.ended <=> s.ended[who])
      /\ o.bytes = s.bytes[who] /\ o.frames = s.frames[who]
  BY Beginnings, CursorFields
<1>3. PICK k \in {"opened", "terminal"}, v \in Values :
         /\ p = Load(v) /\ MayHead(who, q, k, 1)
         /\ q.part /\ q.head = [kind |-> k, len |-> 1] /\ q.cnt = 0
         /\ k = "opened" => r = [Fresh(q) EXCEPT !.opened = TRUE]
         /\ k = "terminal" => v \in Results /\ Closes(q, v) /\ r = [Fresh(q) EXCEPT !.res = v]
  <2>1. CASE OpenedStep(who, q, p, r)
    <3>1. 0 \in Values
      BY DEF Values
    <3> HIDE DEF q
    <3> QED
      BY <2>1, <3>1 DEF OpenedStep
  <2>2. CASE TerminalStep(who, q, p, r)
    <3> HIDE DEF q
    <3>1. PICK v \in Results :
             /\ p = Load(v) /\ MayHead(who, q, "terminal", 1) /\ Closes(q, v)
             /\ q.part /\ q.head = [kind |-> "terminal", len |-> 1] /\ q.cnt = 0
             /\ r = [Fresh(q) EXCEPT !.res = v]
      BY <2>2 DEF TerminalStep
    <3>2. v \in Values
      BY DEF Values
    <3> QED
      BY <3>1, <3>2
  <2> QED
    BY <2>1, <2>2
<1> DEFINE body == <<v>>
           g == [kind |-> k, body |-> body]
           t == accept(s, who, g)
<1>4. p.t = "load" /\ p.v = v
  BY <1>3 DEF Load
<1>5. d.head = [kind |-> k, len |-> 1] /\ d.head.kind = k /\ d.head.len = 1 /\ d.head # NoHead
  <2>1. d.head = [kind |-> k, len |-> 1]
    BY <1>1, <1>3
  <2> QED
    BY <2>1 DEF NoHead
<1>6. check_header(s, who, d.head)
  <2>1. MayHead(who, CursorOf(s, who, d), d.head.kind, d.head.len)
    BY <1>3, <1>5
  <2> QED
    BY <2>1, HeaderPasses
<1>7. Admits(d, s, who, p)
  BY <1>4, <1>5, <1>6 DEF Admits
<1>8. d.body = << >>
  <2>1. d.body \in Seq(Values) /\ Len(d.body) = 0
    BY <1>1, <1>3 DEF Decoders
  <2> HIDE DEF q, f, e, o
  <2> QED
    BY <2>1
<1>9. HeadWith(d, p) = d.head /\ BodyWith(d, p) = body /\ Len(body) = 1 /\ body[1] = v
      /\ body \in Seq(Values)
  BY <1>4, <1>8 DEF HeadWith, BodyWith
<1>10. g.kind = k /\ g.body = body /\ g.kind \in Kinds \ {"none"} /\ g = [kind |-> g.kind, body |-> g.body]
  BY DEF Kinds
<1>11. r.res = IF k = "terminal" THEN v ELSE NoTerminal
  <2> HIDE DEF q
  <2>1. CASE k = "opened"
    BY <1>1, <1>3, <2>1 DEF Fresh, Cursors
  <2>2. CASE k = "terminal"
    BY <1>1, <1>3, <2>2 DEF Fresh, Cursors
  <2> QED
    BY <2>1, <2>2
<1> HIDE DEF q, f, e, o, body, g
<1>12. Acceptable(s, who, g)
  <2>1. check_header(s, who, [kind |-> g.kind, len |-> Len(g.body)])
    BY <1>5, <1>6, <1>9, <1>10
  <2>2. ASSUME k = "terminal" PROVE check_terminal(s, v)
    <3>1. Closes(q, v) /\ Fitting(s, v) /\ who = "daemon"
      BY <1>3, <1>11, <2>2 DEF Closes, MayHead, Sides
    <3> QED
      BY <1>1, <3>1 DEF Closes, Fitting, check_terminal
  <2> QED
    BY <1>9, <1>10, <2>1, <2>2 DEF Acceptable
<1>13. f = g
  BY <1>4, <1>5, <1>7, <1>9, <1>10, <1>12 DEF decode, f, g
<1>14. e = NewDecoder /\ f # NoFrame /\ f # BadFrame
  BY <1>10, <1>13 DEF Decoded, NoFrame, BadFrame, e, f
<1>15. MayHead(who, o, k, 1)
  BY <1>1, <1>2, <1>3 DEF MayHead
<1>16. CASE k = "terminal"
  <2>1. Closes(o, v) /\ v \in Results
    BY <1>1, <1>2, <1>3, <1>16 DEF Closes
  <2>2. Whole(who, s, g, r)
    BY <1>9, <1>10, <1>11, <1>15, <1>16, <2>1 DEF Whole, o
  <2> QED
    BY <1>13, <1>14, <2>2 DEF Taken, f, e
<1>17. CASE k = "opened"
  <2>1. r = CursorOf(t, who, NewDecoder)
    <3> DEFINE c == CursorOf(t, who, NewDecoder)
    <3>1. Accepted(s, who, g, t)
      BY <1>9, <1>10, Accepts
    <3> HIDE DEF t
    <3>2. /\ t \in Tallies /\ t.opened /\ (t.ended[who] <=> s.ended[who])
          /\ t.bytes[who] = s.bytes[who] /\ t.frames[who] = s.frames[who]
      <4>1. s.bytes[who] \in Nat /\ s.frames[who] \in Nat
        BY DEF Tallies
      <4> QED
        BY <1>10, <1>17, <3>1, <4>1 DEF Accepted
    <3>3. /\ c \in Cursors /\ (c.opened <=> who = "agent" \/ t.opened) /\ (c.ended <=> t.ended[who])
          /\ c.res = NoTerminal /\ c.bytes = t.bytes[who] /\ c.frames = t.frames[who]
          /\ (c.part <=> NewDecoder.part) /\ c.head = NewDecoder.head /\ c.cnt = Len(NewDecoder.body)
      BY <3>2, Beginnings, CursorFields
    <3>4. r = [Fresh(q) EXCEPT !.opened = TRUE]
      BY <1>3, <1>17
    <3>5. /\ r.res = q.res /\ r.bytes = q.bytes /\ r.frames = q.frames
          /\ r.head = NoHead /\ r.cnt = 0 /\ ~r.part /\ r.opened /\ r.ended = q.ended
      BY <1>1, <3>4 DEF Cursors, Fresh
    <3> HIDE DEF c
    <3>6. /\ r.res = c.res /\ r.bytes = c.bytes /\ r.frames = c.frames
          /\ r.head = c.head /\ r.cnt = c.cnt
      BY <1>1, <3>2, <3>3, <3>5, Beginnings
    <3>7. (r.part <=> c.part) /\ (r.opened <=> c.opened) /\ (r.ended <=> c.ended)
      BY <1>1, <3>2, <3>3, <3>5, Beginnings
    <3>8. r = c
      BY <3>3, <3>6, <3>7, CursorEqual
    <3> QED
      BY <3>8 DEF c
  <2>2. Whole(who, s, g, r)
    BY <1>9, <1>10, <1>15, <1>17, <2>1 DEF Whole, o
  <2> QED
    BY <1>13, <1>14, <2>2 DEF Taken, f, e
<1> QED
  BY <1>16, <1>17

\* Every legal piece is taken.
LEMMA Takes ==
    ASSUME NEW s \in Tallies, NEW who \in Sides, NEW d \in Decoders, ~s.term,
           who = "agent" => s.opened, Run(d.body, s.bytes[who]), NEW p, NEW r \in Cursors,
           Step(who, CursorOf(s, who, d), p, r), r.res # NoTerminal => Fitting(s, r.res)
    PROVE  Taken(who, s, d, p, r)
BY TakesHeader, TakesData, TakesControl DEF Step

-----------------------------------------------------------------------------
(* The ends of the two sides *)

\* The attachments and the engine start in their types.
LEMMA Newcomers == NewClient \in Clients /\ NewServer \in Servers /\ NewEngine \in Engines
<1>1. << >> \in Seq(Pieces) /\ << >> \in Seq(Values)
  OBVIOUS
<1>2. NewClient \in Clients
  BY <1>1, Beginnings DEF NewClient, Clients
<1>3. NewServer \in Servers
  BY <1>1, Beginnings DEF NewServer, Servers
<1>4. NewEngine \in Engines
  BY <1>1, Beginnings DEF NewEngine, Engines
<1> QED
  BY <1>2, <1>3, <1>4

\* What is left of an owner that was dropped.
LEMMA Dropped ==
    ASSUME TypeOK, NEW r \in Results
    PROVE  /\ ClientEnds(r) \in Clients /\ ClientEnds(r).pc = "done" /\ ClientEnds(r).result = r
           /\ ClientEnds(r).got = cl.got /\ ClientEnds(r).size = cl.size
           /\ ServerEnds \in Servers /\ ServerEnds.pc = "done" /\ ServerEnds.failed = sv.failed
<1>1. cl.got \in Seq(Values) /\ cl.size \in Nat /\ sv.failed \in {"no", "input", "lost", "limit"}
  BY DEF TypeOK, Clients, Servers
<1>2. /\ ClientEnds(r) \in Clients /\ ClientEnds(r).pc = "done" /\ ClientEnds(r).result = r
      /\ ClientEnds(r).got = cl.got /\ ClientEnds(r).size = cl.size
  BY <1>1, Newcomers DEF ClientEnds, Clients
<1>3. ServerEnds \in Servers /\ ServerEnds.pc = "done" /\ ServerEnds.failed = sv.failed
  BY <1>1, Newcomers DEF ServerEnds, Servers
<1> QED
  BY <1>2, <1>3

\* An error of the stream is a result of its state.
LEMMA ErrorTypes ==
    ASSUME NEW x \in States
    PROVE  Error(x) \in Results /\ Error(x).state = x
BY Beginnings DEF Error, Results

\* The agent's side ends with r.
LEMMA ClientGone ==
    ASSUME IInv, NEW r \in Results, cl' = ClientEnds(r), UNCHANGED <<up, sv, eng>>,
           dn' \in Seq(Pieces), sv.pc = "prelude" => dn' = << >>, r.state # "rejected",
           r.state = "completed" =>
              /\ eng.term.state = "completed"
              /\ Len(eng.took) = cl.size /\ r.sent = cl.size
              /\ Len(cl.got) = eng.cut /\ r.received = eng.cut
    PROVE  IInv'
<1>1. /\ cl' \in Clients /\ cl'.pc = "done" /\ cl'.result = r /\ cl'.got = cl.got
      /\ cl'.size = cl.size
  BY Dropped DEF IInv
<1>2. ~Live' /\ (Serving' <=> Serving) /\ (Working' <=> Working) /\ (Reading' <=> Reading)
  BY <1>1 DEF Live, Serving, Working, Reading
<1>3. TypeOK'
  BY <1>1 DEF IInv, TypeOK
<1>4. Opens'
  BY <1>1, <1>2 DEF IInv, Opens, Untouched
<1>5. UpFlow'
  <2>1. PICK m \in Cursors : UpThrough(m)
    BY DEF IInv, Flow, UpFlow
  <2>2. UpThrough(m)'
    BY <1>2, <2>1 DEF UpThrough
  <2> QED
    BY <2>2 DEF UpFlow
<1>6. DnFlow'
  <2>1. PICK m \in Cursors : DnThrough(m)
    BY DEF IInv, Flow, DnFlow
  <2>2. DnThrough(m)'
    BY <1>2, <2>1 DEF DnThrough, DaemonGoal
  <2> QED
    BY <2>2 DEF DnFlow
<1>7. AgentBooks'
  BY <1>1, <1>2 DEF IInv, AgentBooks
<1>8. DaemonBooks' /\ Reports'
  BY <1>2 DEF IInv, DaemonBooks, Reports
<1>9. Verdicts'
  BY <1>1 DEF IInv, Verdicts, NoFalseAlarm, CompletedMeansAll
<1> QED
  BY <1>3, <1>4, <1>5, <1>6, <1>7, <1>8, <1>9 DEF IInv, Flow

\* The engine but for its abort flag.
SameEngine ==
    /\ eng' \in Engines /\ eng'.took = eng.took /\ eng'.gave = eng.gave /\ eng'.cut = eng.cut
    /\ eng'.endIn = eng.endIn /\ eng'.endOut = eng.endOut /\ eng'.term = eng.term

\* The daemon's side ends; m has read what it has written.
LEMMA ServerGone ==
    ASSUME IInv, sv' = ServerEnds, UNCHANGED cl, SameEngine, sv.pc # "done", cl.pc # "idle",
           up' \in Seq(Pieces), dn' \in Seq(Pieces), NEW m \in Cursors,
           Live => Chain("daemon", FramesAhead', CursorOf(cl.seq, "daemon", cl.dec), m),
           m.res \in {NoTerminal, eng.term}, Pos(m) <= eng.gave
    PROVE  IInv'
<1>1. sv' \in Servers /\ sv'.pc = "done" /\ sv'.failed = sv.failed
  BY Dropped, Beginnings DEF IInv
<1>2. (Live' <=> Live) /\ ~Serving' /\ ~Working' /\ ~Reading'
  BY <1>1 DEF Live, Serving, Working, Reading
<1>3. TypeOK'
  BY <1>1 DEF IInv, TypeOK, SameEngine
<1>4. Opens'
  BY <1>1, <1>2 DEF IInv, Opens
<1>5. UpFlow'
  <2>1. PICK n \in Cursors : UpThrough(n)
    BY DEF IInv, Flow, UpFlow
  <2>2. UpThrough(n)'
    BY <1>2, <2>1 DEF UpThrough, AgentGoal
  <2> QED
    BY <2>2 DEF UpFlow
<1>6. DnFlow'
  <2>1. DnThrough(m)'
    BY <1>1, <1>2 DEF DnThrough, SameEngine
  <2> QED
    BY <2>1 DEF DnFlow
<1>7. AgentBooks'
  BY <1>2 DEF IInv, AgentBooks, SameEngine
<1>8. DaemonBooks' /\ Reports'
  BY <1>1, <1>2 DEF IInv, DaemonBooks, Reports, SameEngine
<1>9. Verdicts'
  BY <1>1 DEF IInv, Verdicts, NoFalseAlarm, CompletedMeansAll, SameEngine
<1> QED
  BY <1>3, <1>4, <1>5, <1>6, <1>7, <1>8, <1>9 DEF IInv, Flow

\* The attachment fails for a reason that is not the agent's.
LEMMA AttachmentFails ==
    ASSUME IInv, NEW error \in {"lost", "limit"}, sv.pc = "relay", sv' = Fail(sv, error),
           UNCHANGED <<up, dn, cl, eng>>
    PROVE  IInv'
<1>1. /\ sv' \in Servers /\ sv'.failed = error /\ sv'.pc = sv.pc /\ sv'.seq = sv.seq
      /\ sv'.dec = sv.dec /\ sv'.pend = sv.pend /\ sv'.out = sv.out
      /\ sv'.started = sv.started /\ sv'.retired = sv.retired
  BY DEF IInv, TypeOK, Servers, Fail
<1>2. (Live' <=> Live) /\ (Serving' <=> Serving) /\ (Working' <=> Working) /\ ~Reading'
  BY <1>1 DEF Live, Serving, Working, Reading
<1>3. TypeOK' /\ Opens'
  <2>1. cl.pc # "idle"
    BY DEF IInv, Opens, NewServer
  <2> QED
    BY <1>1, <1>2, <2>1 DEF IInv, TypeOK, Opens, Untouched
<1>4. UpFlow'
  <2>1. PICK m \in Cursors : UpThrough(m)
    BY DEF IInv, Flow, UpFlow
  <2>2. UpThrough(m)'
    BY <1>2, <2>1 DEF UpThrough, AgentGoal
  <2> QED
    BY <2>2 DEF UpFlow
<1>5. DnFlow'
  <2>1. PICK m \in Cursors : DnThrough(m)
    BY DEF IInv, Flow, DnFlow
  <2>2. DnThrough(m)'
    BY <1>1, <1>2, <2>1 DEF DnThrough, DaemonGoal, FramesAhead
  <2> QED
    BY <2>2 DEF DnFlow
<1>6. AgentBooks' /\ DaemonBooks' /\ Reports'
  BY <1>1, <1>2 DEF IInv, AgentBooks, DaemonBooks, Reports
<1>7. Verdicts'
  BY <1>1 DEF IInv, Verdicts, NoFalseAlarm, CompletedMeansAll
<1> QED
  BY <1>3, <1>4, <1>5, <1>6, <1>7 DEF IInv, Flow

-----------------------------------------------------------------------------
(* The agent's steps *)

\* A cursor depends on one half of the Sequence.
LEMMA SameHalf ==
    ASSUME NEW s \in Tallies, NEW t \in Tallies, NEW who \in Sides, NEW d \in Decoders,
           who = "daemon" => (t.opened <=> s.opened), t.ended[who] <=> s.ended[who],
           t.bytes[who] = s.bytes[who], t.frames[who] = s.frames[who]
    PROVE  CursorOf(t, who, d) = CursorOf(s, who, d)
<1> DEFINE a == CursorOf(t, who, d)
           b == CursorOf(s, who, d)
<1>1. /\ a \in Cursors /\ (a.opened <=> who = "agent" \/ t.opened) /\ (a.ended <=> t.ended[who])
      /\ a.res = NoTerminal /\ a.bytes = t.bytes[who] /\ a.frames = t.frames[who]
      /\ (a.part <=> d.part) /\ a.head = d.head /\ a.cnt = Len(d.body)
  BY CursorFields
<1>2. /\ b \in Cursors /\ (b.opened <=> who = "agent" \/ s.opened) /\ (b.ended <=> s.ended[who])
      /\ b.res = NoTerminal /\ b.bytes = s.bytes[who] /\ b.frames = s.frames[who]
      /\ (b.part <=> d.part) /\ b.head = d.head /\ b.cnt = Len(d.body)
  BY CursorFields
<1> HIDE DEF a, b
<1>3. (a.opened <=> b.opened) /\ (a.ended <=> b.ended) /\ (a.part <=> b.part)
  BY <1>1, <1>2 DEF Sides
<1>4. a = b
  BY <1>1, <1>2, <1>3, CursorEqual
<1> QED
  BY <1>4 DEF a, b

\* What a step adds to the position.
LEMMA StepPos ==
    ASSUME NEW who, NEW q \in Cursors, NEW p, NEW r \in Cursors, Step(who, q, p, r)
    PROVE  /\ DataStep(who, q, p, r) => p.t = "load" /\ Pos(r) = Pos(q) + 1
           /\ ~DataStep(who, q, p, r) => Pos(r) = Pos(q)
           /\ p.t = "load" => \/ DataStep(who, q, p, r) \/ OpenedStep(who, q, p, r)
                              \/ TerminalStep(who, q, p, r)
<1>1. CASE DataStep(who, q, p, r)
  BY <1>1 DEF DataStep, Fresh, Pos, Cursors, Heads, Load
<1>2. CASE PartStep(who, q, p, r)
  <2>1. p.t = "part"
    BY <1>2 DEF PartStep, Part
  <2>2. Pos(r) = Pos(q)
    BY <1>2 DEF PartStep, Pos, Cursors
  <2>3. ~DataStep(who, q, p, r)
    BY <2>1 DEF DataStep, Load
  <2> QED
    BY <2>1, <2>2, <2>3
<1>3. CASE EndStep(who, q, p, r)
  <2>1. p.t = "head"
    BY <1>3 DEF EndStep, Header
  <2>2. Pos(r) = Pos(q)
    BY <1>3 DEF EndStep, Pos, Fresh, Cursors
  <2>3. ~DataStep(who, q, p, r)
    BY <2>1 DEF DataStep, Load
  <2> QED
    BY <2>1, <2>2, <2>3
<1>4. CASE HeadStep(who, q, p, r)
  <2>1. p.t = "head"
    BY <1>4 DEF HeadStep, Header
  <2>2. Pos(r) = Pos(q)
    BY <1>4 DEF HeadStep, Pos, Cursors
  <2>3. ~DataStep(who, q, p, r)
    BY <2>1 DEF DataStep, Load
  <2> QED
    BY <2>1, <2>2, <2>3
<1>5. CASE OpenedStep(who, q, p, r)
  <2>1. Pos(r) = Pos(q)
    BY <1>5 DEF OpenedStep, Pos, Fresh, Cursors
  <2>2. ~DataStep(who, q, p, r)
    BY <1>5 DEF OpenedStep, DataStep
  <2> QED
    BY <1>5, <2>1, <2>2
<1>6. CASE TerminalStep(who, q, p, r)
  <2>1. Pos(r) = Pos(q)
    BY <1>6 DEF TerminalStep, Pos, Fresh, Cursors
  <2>2. ~DataStep(who, q, p, r)
    BY <1>6 DEF TerminalStep, DataStep
  <2> QED
    BY <1>6, <2>1, <2>2
<1> QED
  BY <1>1, <1>2, <1>3, <1>4, <1>5, <1>6 DEF Step

\* A step that completes a frame: END's header, or the last of a load.
LEMMA StepBoundary ==
    ASSUME NEW who, NEW q \in Cursors, NEW p, NEW r \in Cursors, Step(who, q, p, r), Boundary(r)
    PROVE  /\ EndStep(who, q, p, r) \/ DataStep(who, q, p, r)
                \/ OpenedStep(who, q, p, r) \/ TerminalStep(who, q, p, r)
           /\ EndStep(who, q, p, r) => p.t = "head" /\ r.ended
           /\ DataStep(who, q, p, r) => p.t = "load" /\ ~r.ended
           /\ OpenedStep(who, q, p, r) \/ TerminalStep(who, q, p, r) => p.t = "load"
<1>1. ~PartStep(who, q, p, r)
  BY DEF PartStep, Boundary, Cursors
<1>2. ~HeadStep(who, q, p, r)
  BY DEF HeadStep, Boundary, Cursors
<1>3. EndStep(who, q, p, r) => p.t = "head" /\ r.ended
  BY DEF EndStep, Header, Fresh, Cursors
<1>4. DataStep(who, q, p, r) => p.t = "load" /\ ~r.ended
  <2> SUFFICES ASSUME DataStep(who, q, p, r) PROVE p.t = "load" /\ ~r.ended
    OBVIOUS
  <2>1. p.t = "load" /\ ~q.ended
    BY DEF DataStep, MayHead, Load
  <2>2. r.ended = q.ended
    BY DEF DataStep, Fresh, Cursors
  <2> QED
    BY <2>1, <2>2
<1>5. OpenedStep(who, q, p, r) \/ TerminalStep(who, q, p, r) => p.t = "load"
  BY DEF OpenedStep, TerminalStep, Load
<1> QED
  BY <1>1, <1>2, <1>3, <1>4, <1>5 DEF Step

\* The goal of a writer lies between two frames.
LEMMA Goals ==
    ASSUME TypeOK
    PROVE  /\ AgentGoal \in Cursors /\ Boundary(AgentGoal) /\ AgentGoal.res = NoTerminal
           /\ AgentGoal.bytes = cl.seq.bytes["agent"] /\ AgentGoal.frames = cl.seq.frames["agent"]
           /\ AgentGoal.opened /\ (AgentGoal.ended <=> cl.seq.ended["agent"])
           /\ Pos(AgentGoal) = cl.seq.bytes["agent"]
           /\ DaemonGoal \in Cursors /\ Boundary(DaemonGoal) /\ DaemonGoal.res = NoTerminal
           /\ DaemonGoal.bytes = sv.seq.bytes["daemon"] /\ DaemonGoal.frames = sv.seq.frames["daemon"]
           /\ (DaemonGoal.opened <=> sv.seq.opened \/ sv.pc = "opening")
           /\ (DaemonGoal.ended <=> sv.seq.ended["daemon"])
           /\ Pos(DaemonGoal) = sv.seq.bytes["daemon"]
<1> DEFINE a == AgentGoal
           c == CursorOf(sv.seq, "daemon", NewDecoder)
           d == DaemonGoal
<1>1. /\ cl.seq \in Tallies /\ sv.seq \in Tallies /\ "agent" \in Sides /\ "daemon" \in Sides
      /\ cl.seq.bytes["agent"] \in Nat /\ sv.seq.bytes["daemon"] \in Nat
      /\ sv.seq.opened \in BOOLEAN
  BY DEF TypeOK, Clients, Servers, Sides, Tallies
<1>2. /\ a \in Cursors /\ a.opened /\ (a.ended <=> cl.seq.ended["agent"])
      /\ a.res = NoTerminal /\ a.bytes = cl.seq.bytes["agent"] /\ a.frames = cl.seq.frames["agent"]
      /\ ~a.part /\ a.head = NoHead /\ a.cnt = 0
  BY <1>1, Beginnings, CursorFields DEF AgentGoal
<1>3. /\ c \in Cursors /\ (c.opened <=> sv.seq.opened) /\ (c.ended <=> sv.seq.ended["daemon"])
      /\ c.res = NoTerminal /\ c.bytes = sv.seq.bytes["daemon"] /\ c.frames = sv.seq.frames["daemon"]
      /\ ~c.part /\ c.head = NoHead /\ c.cnt = 0
  BY <1>1, Beginnings, CursorFields
<1>4. d = [c EXCEPT !.opened = sv.seq.opened \/ sv.pc = "opening"]
  BY DEF DaemonGoal
<1>5. (sv.seq.opened \/ sv.pc = "opening") \in BOOLEAN
  BY <1>1
<1> HIDE DEF a, c, d
<1>6. /\ d \in Cursors /\ (d.opened <=> sv.seq.opened \/ sv.pc = "opening") /\ d.ended = c.ended
      /\ d.res = c.res /\ d.bytes = c.bytes /\ d.frames = c.frames /\ d.part = c.part
      /\ d.head = c.head /\ d.cnt = c.cnt
  BY <1>3, <1>4, <1>5 DEF Cursors
<1>7. Pos(a) = cl.seq.bytes["agent"] /\ Boundary(a)
  BY <1>1, <1>2 DEF Pos, Boundary
<1>8. Pos(d) = sv.seq.bytes["daemon"] /\ Boundary(d)
  BY <1>1, <1>3, <1>6 DEF Pos, Boundary
<1> QED
  BY <1>2, <1>3, <1>6, <1>7, <1>8 DEF a, d

\* Steps of the agent's side that leave the daemon's frames alone.
LEMMA AgentOnly ==
    ASSUME IInv, UNCHANGED <<dn, sv, eng>>, cl' \in Clients, up' \in Seq(Pieces),
           cl.pc \in {"opened", "relay"}, cl'.pc = "relay",
           cl'.seq = cl.seq
             \/ \E f : f.kind \in {"data", "end"} /\ Accepted(cl.seq, "agent", f, cl'.seq),
           cl'.dec = cl.dec, cl'.result = cl.result, cl'.size = cl.size,
           UpFlow', AgentBooks',
           eng.endIn => /\ cl'.out = cl.out /\ cl'.sentEnd = cl.sentEnd /\ cl'.seq = cl.seq
    PROVE  IInv'
<1>1. /\ cl'.seq \in Tallies /\ (cl'.seq.opened <=> cl.seq.opened) /\ (cl'.seq.term <=> cl.seq.term)
      /\ (cl'.seq.ended["daemon"] <=> cl.seq.ended["daemon"])
      /\ cl'.seq.bytes["daemon"] = cl.seq.bytes["daemon"]
      /\ cl'.seq.frames["daemon"] = cl.seq.frames["daemon"]
  <2>1. cl.seq \in Tallies /\ cl.seq.bytes["daemon"] \in Nat /\ cl.seq.frames["daemon"] \in Nat
    BY DEF IInv, TypeOK, Clients, Tallies, Sides
  <2> QED
    BY <2>1 DEF Accepted, Sides
<1>2. Live /\ Live' /\ (Serving' <=> Serving) /\ (Working' <=> Working) /\ (Reading' <=> Reading)
  BY DEF Live, Serving, Working, Reading
<1>3. TypeOK'
  BY DEF IInv, TypeOK
<1>4. Opens'
  BY <1>1, <1>2 DEF IInv, Opens, Untouched
<1>5. DnFlow'
  <2>1. PICK m \in Cursors : DnThrough(m)
    BY DEF IInv, Flow, DnFlow
  <2>2. CursorOf(cl'.seq, "daemon", cl'.dec) = CursorOf(cl.seq, "daemon", cl.dec)
    <3>1. cl.seq \in Tallies /\ cl.dec \in Decoders /\ "daemon" \in Sides
      BY DEF IInv, TypeOK, Clients, Sides
    <3> QED
      BY <1>1, <3>1, SameHalf
  <2>3. FramesAhead' = FramesAhead
    BY DEF FramesAhead
  <2>4. DnThrough(m)'
    BY <1>2, <2>1, <2>2, <2>3 DEF DnThrough, DaemonGoal
  <2> QED
    BY <2>4 DEF DnFlow
<1>6. DaemonBooks' /\ Reports'
  BY <1>1, <1>2 DEF IInv, DaemonBooks, Reports
<1>7. Verdicts'
  BY DEF IInv, Verdicts, NoFalseAlarm, CompletedMeansAll, NoTerminal
<1> QED
  BY <1>3, <1>4, <1>5, <1>6, <1>7 DEF IInv, Flow

\* ConnectedStream::relay, and what the application takes.
LEMMA DeliverKeeps ==
    ASSUME IInv, C_Attach \/ C_Deliver \/ C_DeliverEnd
    PROVE  IInv'
<1>0. cl \in Clients /\ cl.inn \in Seq(Values) /\ cl.got \in Seq(Values)
  BY DEF IInv, TypeOK, Clients
<1>1. UNCHANGED <<up, dn, sv, eng>> /\ cl.pc \in {"opened", "relay"} /\ Live
  BY DEF C_Attach, C_Deliver, C_DeliverEnd, Live
<1>2. /\ cl' \in Clients /\ cl'.pc = "relay" /\ cl'.seq = cl.seq /\ cl'.dec = cl.dec
      /\ cl'.out = cl.out /\ cl'.sent = cl.sent /\ cl'.read = cl.read /\ cl'.sentEnd = cl.sentEnd
      /\ cl'.result = cl.result /\ cl'.size = cl.size /\ cl'.got \in Seq(Values) /\ cl'.inn \in Seq(Values)
      /\ cl.pc = "opened" => cl'.inn = cl.inn /\ cl'.got = cl.got
      /\ \/ cl'.inn = cl.inn /\ cl'.got = cl.got
         \/ cl.inn # << >> /\ cl'.inn = Tail(cl.inn) /\ cl'.got = Append(cl.got, cl.inn[1])
  <2>1. CASE C_Attach
    BY <1>0, <2>1 DEF C_Attach, Clients
  <2>2. CASE C_Deliver
    <3>1. cl.inn # << >> => Tail(cl.inn) \in Seq(Values) /\ Append(cl.got, cl.inn[1]) \in Seq(Values)
      BY <1>0
    <3> QED
      BY <1>0, <2>2, <3>1 DEF C_Deliver, Clients
  <2>3. CASE C_DeliverEnd
    BY <1>0, <2>3 DEF C_DeliverEnd, Clients
  <2> QED
    BY <2>1, <2>2, <2>3
<1>3. Live' /\ (Reading' <=> Reading)
  BY <1>1, <1>2 DEF Live, Reading, Working
<1>4. UpFlow'
  <2>1. PICK m \in Cursors : UpThrough(m)
    BY DEF IInv, Flow, UpFlow
  <2>2. UpThrough(m)'
    BY <1>1, <1>2, <1>3, <2>1 DEF UpThrough, AgentGoal
  <2> QED
    BY <2>2 DEF UpFlow
<1>5. /\ Run(cl'.got, 0) /\ Run(cl'.inn, Len(cl'.got))
      /\ Len(cl'.got) + Len(cl'.inn) = Len(cl.got) + Len(cl.inn)
  <2>0. Run(cl.got, 0) /\ Run(cl.inn, Len(cl.got))
    BY <1>1 DEF IInv, AgentBooks
  <2>1. CASE cl'.inn = cl.inn /\ cl'.got = cl.got
    BY <2>0, <2>1
  <2>2. CASE cl.inn # << >> /\ cl'.inn = Tail(cl.inn) /\ cl'.got = Append(cl.got, cl.inn[1])
    <3> DEFINE n == Len(cl.got)
               k == Len(cl.inn)
    <3>1. n \in Nat /\ k \in Nat \ {0} /\ DOMAIN cl.got = 1..n /\ DOMAIN cl.inn = 1..k
      BY <1>0, <2>2
    <3>2. Len(cl'.got) = n + 1 /\ Len(cl'.inn) = k - 1
          /\ DOMAIN cl'.got = 1..(n + 1) /\ DOMAIN cl'.inn = 1..(k - 1)
      BY <1>0, <2>2
    <3>3. (\A i \in 1..n : cl'.got[i] = cl.got[i]) /\ cl'.got[n + 1] = cl.inn[1]
      BY <1>0, <2>2, AppendProperties
    <3>4. \A i \in 1..(k - 1) : cl'.inn[i] = cl.inn[i + 1]
      BY <1>0, <2>2
    <3> HIDE DEF n, k
    <3>5. (\A i \in 1..n : cl.got[i] = 0 + i) /\ \A i \in 1..k : cl.inn[i] = n + i
      BY <2>0, <3>1 DEF Run, n
    <3>6. ASSUME NEW i \in 1..(n + 1) PROVE cl'.got[i] = 0 + i
      <4>1. CASE i = n + 1
        <5>1. 1 \in 1..k /\ n + 1 = 0 + i
          BY <3>1, <4>1
        <5> QED
          BY <3>3, <3>5, <4>1, <5>1
      <4>2. CASE i # n + 1
        <5>1. i \in 1..n
          BY <3>1, <4>2
        <5> QED
          BY <3>3, <3>5, <5>1
      <4> QED
        BY <4>1, <4>2
    <3>7. \A i \in 1..(k - 1) : cl'.inn[i] = (n + 1) + i
      BY <3>1, <3>4, <3>5
    <3>8. Run(cl'.got, 0)
      BY <3>2, <3>6 DEF Run
    <3>9. Run(cl'.inn, Len(cl'.got))
      BY <3>2, <3>7 DEF Run
    <3>10. Len(cl'.got) + Len(cl'.inn) = n + k
      BY <3>1, <3>2
    <3> QED
      BY <3>8, <3>9, <3>10 DEF n, k
  <2> QED
    BY <1>2, <2>1, <2>2
<1>6. AgentBooks'
  <2>1. Len(cl'.got) <= Len(eng.took)
    <3>1. CASE cl'.got = cl.got
      BY <3>1 DEF IInv, AgentBooks
    <3>2. CASE cl.inn # << >> /\ cl'.inn = Tail(cl.inn) /\ cl'.got = Append(cl.got, cl.inn[1])
      <4>1. PICK m \in Cursors : DnThrough(m)
        BY DEF IInv, Flow, DnFlow
      <4> DEFINE q == CursorOf(cl.seq, "daemon", cl.dec)
      <4>2. /\ cl.seq \in Tallies /\ cl.dec \in Decoders /\ "daemon" \in Sides
            /\ cl.seq.bytes["daemon"] \in Nat /\ dn \in Seq(Pieces) /\ FramesAhead = dn
            /\ eng.gave \in Nat /\ Len(eng.took) \in Nat
        BY <1>1 DEF IInv, TypeOK, Clients, Engines, Tallies, Sides, FramesAhead
      <4>3. Chain("daemon", dn, q, m) /\ Pos(m) <= eng.gave
        BY <1>1, <4>1, <4>2 DEF DnThrough
      <4>4. q \in Cursors /\ q.bytes = cl.seq.bytes["daemon"] /\ Pos(q) <= Pos(m)
        BY <4>2, <4>3, CursorFields, ChainEnds
      <4> HIDE DEF q
      <4>5. cl.seq.bytes["daemon"] <= eng.gave
        BY <4>2, <4>3, <4>4 DEF Pos, Cursors
      <4>6. Len(cl'.got) <= cl.seq.bytes["daemon"]
        <5>1. Len(cl.got) + Len(cl.inn) = cl.seq.bytes["daemon"]
          BY <1>1 DEF IInv, AgentBooks
        <5>2. Len(cl'.got) \in Nat /\ Len(cl'.inn) \in Nat
          BY <1>2
        <5>3. Len(cl'.got) + Len(cl'.inn) = cl.seq.bytes["daemon"]
          BY <1>5, <5>1
        <5>4. cl.seq.bytes["daemon"] \in Nat
          BY <4>2
        <5>5. \A a, b, c \in Nat : a + b = c => a <= c
          OBVIOUS
        <5> QED
          BY <5>2, <5>3, <5>4, <5>5
      <4>7. eng.gave <= Len(eng.took)
        BY DEF IInv, DaemonBooks
      <4> QED
        BY <1>2, <4>2, <4>5, <4>6, <4>7
    <3> QED
      BY <1>2, <3>1, <3>2
  <2> QED
    BY <1>1, <1>2, <1>3, <1>5, <2>1 DEF IInv, AgentBooks
<1> QED
  BY <1>1, <1>2, <1>4, <1>6, AgentOnly DEF IInv, TypeOK

\* The agent's side ends of itself: end of input, lost socket, stop.
LEMMA LossKeeps ==
    ASSUME IInv, C_Eof \/ C_WriteFails \/ C_Stop
    PROVE  IInv'
<1>1. PICK x \in {"lost", "stopped"} : cl' = ClientEnds(Error(x)) /\ UNCHANGED <<up, dn, sv, eng>>
  BY DEF C_Eof, C_WriteFails, C_Stop
<1>2. Error(x) \in Results /\ Error(x).state = x
  BY ErrorTypes DEF States
<1>3. dn' \in Seq(Pieces) /\ (sv.pc = "prelude" => dn' = << >>)
  BY <1>1 DEF IInv, TypeOK, Opens
<1> DEFINE r == Error(x)
<1>4. r \in Results /\ r.state # "rejected" /\ r.state # "completed" /\ cl' = ClientEnds(r)
  BY <1>1, <1>2
<1> HIDE DEF r
<1> QED
  BY <1>1, <1>3, <1>4, ClientGone

\* open_once.
LEMMA AskKeeps ==
    ASSUME IInv, NEW n \in AppSizes, NEW k \in 0..n, C_Ask(n, k)
    PROVE  IInv'
<1>1. /\ cl = NewClient /\ sv = NewServer /\ eng = NewEngine /\ dn = << >> /\ n \in Nat /\ k \in Nat
  BY FramingAssumption DEF IInv, Opens, C_Ask
<1>2. /\ cl' \in Clients /\ cl'.pc = "asked" /\ cl'.seq = NewSequence /\ cl'.dec = NewDecoder
      /\ cl'.out = << >> /\ cl'.sent = 0 /\ cl'.read = 0 /\ cl'.inn = << >> /\ cl'.got = << >>
      /\ ~cl'.sentEnd /\ cl'.result = NoTerminal /\ cl'.size = n
  BY <1>1, Newcomers DEF C_Ask, NewClient, Clients
<1>3. /\ sv' \in Servers /\ sv'.pc = "prelude" /\ sv'.seq = NewSequence /\ sv'.dec = NewDecoder
      /\ sv'.pend = << >> /\ sv'.out = << >> /\ sv'.failed = "no" /\ ~sv'.retired
  BY <1>1, Newcomers DEF C_Ask, NewServer, Servers
<1>4. /\ eng' \in Engines /\ eng'.took = << >> /\ eng'.gave = 0 /\ eng'.cut = k /\ ~eng'.endIn
      /\ ~eng'.endOut /\ eng'.term = NoTerminal
  BY <1>1, Newcomers DEF C_Ask, NewEngine, Engines
<1>5. up' \in Seq(Pieces) /\ dn' = << >> /\ dn' \in Seq(Pieces)
  BY <1>1 DEF C_Ask, Pieces
<1>6. Live' /\ ~Serving' /\ ~Working' /\ ~Reading'
  BY <1>2, <1>3 DEF Live, Serving, Working, Reading
<1>7. TypeOK'
  BY <1>2, <1>3, <1>4, <1>5 DEF TypeOK
<1>8. Opens'
  BY <1>2, <1>3, <1>4, <1>5, <1>6, Beginnings DEF Opens, Untouched, Sides
<1>9. UpFlow'
  <2> DEFINE m == CursorOf(NewSequence, "agent", NewDecoder)
  <2>1. m \in Cursors /\ m.bytes = 0 /\ m.cnt = 0
    BY Beginnings, CursorFields DEF Sides
  <2> HIDE DEF m
  <2>2. AgentGoal' = m
    BY <1>2 DEF m, AgentGoal
  <2>3. Chain("agent", << >>, m, m) /\ Pos(m) = 0
    BY <2>1, ChainNone DEF Pos
  <2>4. UpThrough(m)'
    BY <1>2, <1>6, <2>2, <2>3 DEF UpThrough
  <2> QED
    BY <2>1, <2>4 DEF UpFlow
<1>10. DnFlow'
  <2> DEFINE m == CursorOf(NewSequence, "daemon", NewDecoder)
  <2>1. m \in Cursors /\ m.res = NoTerminal /\ m.bytes = 0 /\ m.cnt = 0
    BY Beginnings, CursorFields DEF Sides
  <2> HIDE DEF m
  <2>2. CursorOf(cl'.seq, "daemon", cl'.dec) = m /\ FramesAhead' = << >>
    BY <1>2, <1>5 DEF m, FramesAhead
  <2>3. Chain("daemon", << >>, m, m) /\ Pos(m) <= eng'.gave
    BY <1>4, <2>1, ChainNone DEF Pos
  <2>4. DnThrough(m)'
    BY <1>3, <1>6, <2>1, <2>2, <2>3 DEF DnThrough
  <2> QED
    BY <2>1, <2>4 DEF DnFlow
<1>11. AgentBooks'
  <2>1. Run(<< >>, 0) /\ Len(<< >>) = 0
    BY DEF Run
  <2>2. /\ NewSequence.bytes["agent"] = 0 /\ NewSequence.bytes["daemon"] = 0
        /\ ~NewSequence.ended["agent"] /\ NewDecoder.body = << >>
    BY Beginnings DEF Sides
  <2> QED
    BY <1>1, <1>2, <1>4, <2>1, <2>2 DEF AgentBooks
<1>12. DaemonBooks' /\ Reports'
  BY <1>1, <1>3, <1>4, Beginnings DEF DaemonBooks, Reports, Run, Sides
<1>13. Verdicts'
  BY <1>2, <1>3, Beginnings DEF Verdicts, NoFalseAlarm, CompletedMeansAll
<1> QED
  BY <1>7, <1>8, <1>9, <1>10, <1>11, <1>12, <1>13 DEF IInv, Flow

\* validate: the upgrade leaves the frames behind it, another answer ends the call.
LEMMA AnsweredKeeps ==
    ASSUME IInv, C_Answered
    PROVE  IInv'
<1>1. /\ cl.pc = "asked" /\ dn # << >> /\ dn' = Tail(dn) /\ UNCHANGED <<up, sv, eng>>
      /\ dn' \in Seq(Pieces) /\ sv.pc # "prelude"
  BY DEF C_Answered, IInv, TypeOK, Opens
<1>2. CASE dn[1].t # "upgrade"
  <2> DEFINE r == Error("answered")
  <2>1. r \in Results /\ r.state = "answered"
    BY ErrorTypes DEF States
  <2> HIDE DEF r
  <2>2. cl' = ClientEnds(r)
    BY <1>2 DEF C_Answered, r
  <2> QED
    BY <1>1, <2>1, <2>2, ClientGone
<1>3. CASE dn[1].t = "upgrade"
  <2>1. /\ cl' \in Clients /\ cl'.pc = "pending" /\ cl'.seq = cl.seq /\ cl'.dec = cl.dec
        /\ cl'.out = cl.out /\ cl'.sent = cl.sent /\ cl'.read = cl.read /\ cl'.inn = cl.inn
        /\ cl'.got = cl.got /\ cl'.sentEnd = cl.sentEnd /\ cl'.result = cl.result
        /\ cl'.size = cl.size
    BY <1>3 DEF C_Answered, IInv, TypeOK, Clients
  <2>2. Live /\ Live' /\ (Serving' <=> Serving) /\ (Working' <=> Working) /\ (Reading' <=> Reading)
    BY <1>1, <2>1 DEF Live, Serving, Working, Reading
  <2>3. FramesAhead' = FramesAhead
    BY <1>1, <2>1 DEF FramesAhead
  <2>4. TypeOK'
    BY <1>1, <2>1 DEF IInv, TypeOK
  <2>5. Opens'
    BY <1>1, <2>1, <2>2 DEF IInv, Opens, Untouched
  <2>6. UpFlow'
    <3>1. PICK m \in Cursors : UpThrough(m)
      BY DEF IInv, Flow, UpFlow
    <3>2. UpThrough(m)'
      BY <1>1, <2>1, <2>2, <3>1 DEF UpThrough, AgentGoal
    <3> QED
      BY <3>2 DEF UpFlow
  <2>7. DnFlow'
    <3>1. PICK m \in Cursors : DnThrough(m)
      BY DEF IInv, Flow, DnFlow
    <3>2. DnThrough(m)'
      BY <1>1, <2>1, <2>2, <2>3, <3>1 DEF DnThrough, DaemonGoal
    <3> QED
      BY <3>2 DEF DnFlow
  <2>8. AgentBooks' /\ DaemonBooks' /\ Reports'
    BY <1>1, <2>1, <2>2 DEF IInv, AgentBooks, DaemonBooks, Reports
  <2>9. Verdicts'
    BY <1>1, <2>1 DEF IInv, Verdicts, NoFalseAlarm, CompletedMeansAll, NoTerminal
  <2> QED
    BY <2>4, <2>5, <2>6, <2>7, <2>8, <2>9 DEF IInv, Flow
<1> QED
  BY <1>2, <1>3

\* The bytes that the application gives.
LEMMA Given ==
    ASSUME NEW n \in Nat, NEW b \in Nat
    PROVE  LET body == [i \in 1..n |-> b + i]
           IN /\ body \in Seq(Values) /\ Len(body) = n /\ Run(body, b)
              /\ n = 0 => body = << >>
<1> DEFINE body == [i \in 1..n |-> b + i]
<1>1. \A i \in 1..n : body[i] \in Values
  BY DEF Values
<1>2. body \in Seq(Values) /\ Len(body) = n
  BY <1>1
<1>3. Run(body, b)
  BY DEF Run
<1>4. n = 0 => body = << >>
  BY <1>2
<1> QED
  BY <1>2, <1>3, <1>4

\* The turn of output without a frame under way.
LEMMA TakeKeeps ==
    ASSUME IInv, NEW n \in 0..MaxData, C_Take(n)
    PROVE  IInv'
<1> DEFINE body == [i \in 1..n |-> cl.read + i]
           k == IF n = 0 THEN "end" ELSE "data"
           f == [kind |-> k, body |-> body]
           t == accept(cl.seq, "agent", f)
           g == AgentGoal
<1>0. /\ MaxData \in Nat \ {0} /\ MaxFrames \in Nat /\ SendLimit \in Nat \ {0} /\ n \in Nat
  BY FramingAssumption
<1>1. /\ cl \in Clients /\ cl.seq \in Tallies /\ cl.dec \in Decoders /\ "agent" \in Sides /\ "daemon" \in Sides
      /\ cl.read \in Nat /\ cl.size \in Nat /\ cl.sent \in Nat
      /\ cl.seq.bytes["agent"] \in Nat /\ cl.seq.frames["agent"] \in Nat
  BY DEF IInv, TypeOK, Clients, Tallies, Sides
<1>2. /\ cl.pc = "relay" /\ ~cl.sentEnd /\ cl.out = << >> /\ UNCHANGED <<up, dn, sv, eng>> /\ Live
  BY DEF C_Take, Live
<1>3. /\ cl.seq.opened /\ ~cl.seq.term /\ ~cl.seq.ended["agent"] /\ cl.read = cl.seq.bytes["agent"]
      /\ cl.read <= cl.size
  BY <1>2 DEF IInv, Opens, AgentBooks
<1>4. ~eng.endIn
  BY <1>2 DEF IInv, DaemonBooks
<1>5. n <= cl.size - cl.read /\ (n = 0 => cl.size = cl.read)
  <2> DEFINE have == Least(Room, cl.size - cl.read)
  <2>1. n <= have /\ (n = 0 => have = 0)
    BY DEF C_Take
  <2>2. Room \in Nat \ {0}
    BY <1>0, <1>1 DEF Room, Least
  <2>3. have <= cl.size - cl.read /\ (have = 0 => cl.size = cl.read) /\ have \in Int
    BY <1>1, <1>3, <2>2 DEF Least
  <2> HIDE DEF have
  <2> QED
    BY <1>0, <1>1, <2>1, <2>3
<1>6. body \in Seq(Values) /\ Len(body) = n /\ Run(body, cl.read) /\ (n = 0 => body = << >>)
  BY <1>0, <1>1, Given
<1>7. cl' = IF n > SendLimit - cl.read \/ ~Acceptable(cl.seq, "agent", f)
              THEN ClientEnds(Error("limit"))
              ELSE [cl EXCEPT !.read = @ + n, !.seq = accept(@, "agent", f),
                              !.out = encode(f.kind, f.body)]
  BY DEF C_Take
<1>8. k \in {"end", "data"} /\ f.kind = k /\ f.body = body
  OBVIOUS
<1> HIDE DEF body
<1>9. CASE n > SendLimit - cl.read \/ ~Acceptable(cl.seq, "agent", f)
  <2> DEFINE r == Error("limit")
  <2>1. r \in Results /\ r.state = "limit"
    BY ErrorTypes DEF States
  <2>2. dn' \in Seq(Pieces) /\ (sv.pc = "prelude" => dn' = << >>)
    BY <1>2 DEF IInv, TypeOK, Opens
  <2> HIDE DEF r
  <2>3. cl' = ClientEnds(r)
    BY <1>7, <1>9 DEF r
  <2> QED
    BY <1>2, <2>1, <2>2, <2>3, ClientGone
<1>10. CASE ~(n > SendLimit - cl.read) /\ Acceptable(cl.seq, "agent", f)
  <2>1. Accepted(cl.seq, "agent", f, t)
    BY <1>1, <1>6, <1>8, Accepts DEF Kinds
  <2>2. check_header(cl.seq, "agent", [kind |-> k, len |-> n])
    BY <1>6, <1>8, <1>10 DEF Acceptable
  <2>3. k = "data" => n <= MaxData /\ cl.seq.frames["agent"] < MaxFrames
                       /\ n <= SendLimit - cl.seq.bytes["agent"]
    BY <2>2 DEF check_header, Limit
  <2>4. /\ encode(k, body) \in Seq(Pieces) /\ Len(encode(k, body)) = n + 2
    BY <1>6, <1>8, Encoded DEF Kinds
  <2>5. /\ k = "end" <=> n = 0
        /\ k = "data" <=> n > 0
    BY <1>0
  <2>6. cl' = [cl EXCEPT !.read = @ + n, !.seq = t, !.out = encode(k, body)]
    BY <1>7, <1>8, <1>10
  <2> HIDE DEF k, f, t
  <2>7. /\ t \in Tallies /\ (t.opened <=> cl.seq.opened) /\ (t.term <=> cl.seq.term)
        /\ t.ended["agent"] <=> k = "end"
        /\ t.bytes["agent"] = cl.seq.bytes["agent"] + (IF k = "data" THEN n ELSE 0)
        /\ t.frames["agent"] = cl.seq.frames["agent"] + (IF k = "data" THEN 1 ELSE 0)
        /\ t.bytes["daemon"] = cl.seq.bytes["daemon"] + 0
    BY <1>1, <1>3, <1>6, <1>8, <2>1 DEF Accepted
  <2>8. /\ cl' \in Clients /\ cl'.pc = "relay" /\ cl'.seq = t /\ cl'.dec = cl.dec
        /\ cl'.out = encode(k, body) /\ cl'.sent = cl.sent /\ cl'.read = cl.read + n
        /\ cl'.inn = cl.inn /\ cl'.got = cl.got /\ cl'.sentEnd = cl.sentEnd
        /\ cl'.result = cl.result /\ cl'.size = cl.size
    <3> DEFINE e == encode(k, body)
               b == cl.read + n
    <3>1. b \in Nat /\ e \in Seq(Pieces) /\ t \in Tallies
      BY <1>0, <1>1, <2>4, <2>7
    <3>2. cl' = [cl EXCEPT !.read = b, !.seq = t, !.out = e]
      BY <2>6
    <3> HIDE DEF e, b
    <3>3. /\ cl' \in Clients /\ cl'.pc = "relay" /\ cl'.seq = t /\ cl'.dec = cl.dec
          /\ cl'.out = e /\ cl'.sent = cl.sent /\ cl'.read = b
          /\ cl'.inn = cl.inn /\ cl'.got = cl.got /\ cl'.sentEnd = cl.sentEnd
          /\ cl'.result = cl.result /\ cl'.size = cl.size
      BY <1>1, <1>2, <3>1, <3>2 DEF Clients
    <3> QED
      BY <3>3 DEF e, b
  <2>9. Live' /\ (Reading' <=> Reading)
    BY <1>2, <2>8 DEF Live, Reading, Working
  <2>10. /\ g \in Cursors /\ Boundary(g) /\ g.res = NoTerminal
         /\ g.bytes = cl.seq.bytes["agent"] /\ g.frames = cl.seq.frames["agent"]
         /\ g.opened /\ ~g.ended
    BY <1>3, Goals DEF IInv
  <2>11. /\ AgentGoal' \in Cursors /\ AgentGoal'.opened /\ (AgentGoal'.ended <=> t.ended["agent"])
         /\ AgentGoal'.res = NoTerminal /\ AgentGoal'.bytes = t.bytes["agent"]
         /\ AgentGoal'.frames = t.frames["agent"] /\ ~AgentGoal'.part
         /\ AgentGoal'.head = NoHead /\ AgentGoal'.cnt = 0
    <3> DEFINE a == CursorOf(t, "agent", NewDecoder)
    <3>1. /\ a \in Cursors /\ a.opened /\ (a.ended <=> t.ended["agent"])
          /\ a.res = NoTerminal /\ a.bytes = t.bytes["agent"] /\ a.frames = t.frames["agent"]
          /\ ~a.part /\ a.head = NoHead /\ a.cnt = 0
      BY <1>1, <2>7, Beginnings, CursorFields
    <3>2. AgentGoal' = a
      BY <2>8 DEF AgentGoal
    <3> QED
      BY <3>1, <3>2
  <2> HIDE DEF g
  <2>12. Chain("agent", encode(k, body), g, AgentGoal')
    <3>1. CASE n = 0
      <4> DEFINE r == [g EXCEPT !.ended = TRUE]
      <4>1. MayHead("agent", g, "end", 0)
        BY <2>10 DEF MayHead, Kinds
      <4>2. encode(k, body) = encode("end", << >>)
        BY <1>6, <2>5, <3>1
      <4>3. Chain("agent", encode(k, body), g, r)
        BY <2>10, <4>1, <4>2, EndChain
      <4>4. /\ r \in Cursors /\ r.opened = g.opened /\ r.ended /\ r.res = g.res /\ r.bytes = g.bytes
            /\ r.frames = g.frames /\ r.part = g.part /\ r.head = g.head /\ r.cnt = g.cnt
        BY <2>10 DEF Cursors
      <4> HIDE DEF r
      <4>5. AgentGoal' = r
        <5>1. /\ (AgentGoal'.opened <=> r.opened) /\ (AgentGoal'.ended <=> r.ended)
              /\ (AgentGoal'.part <=> r.part)
          BY <2>5, <2>7, <2>10, <2>11, <3>1, <4>4 DEF Boundary
        <5>2. AgentGoal'.bytes = r.bytes /\ AgentGoal'.frames = r.frames
          BY <1>1, <2>5, <2>7, <2>10, <2>11, <3>1, <4>4
        <5> QED
          BY <2>10, <2>11, <4>4, <5>1, <5>2, CursorEqual DEF Boundary
      <4> QED
        BY <4>3, <4>5
    <3>2. CASE n > 0
      <4> DEFINE r == [g EXCEPT !.bytes = @ + Len(body), !.frames = @ + 1]
      <4>1. MayHead("agent", g, "data", Len(body))
        BY <1>0, <1>6, <2>3, <2>5, <2>10, <3>2 DEF MayHead, Kinds, Limit
      <4>2. k = "data" /\ Run(body, g.bytes)
        BY <1>3, <1>6, <2>5, <2>10, <3>2
      <4>3. Chain("agent", encode(k, body), g, r)
        BY <1>6, <2>10, <4>1, <4>2, DataChain
      <4>4. /\ r \in Cursors /\ r.opened = g.opened /\ r.ended = g.ended /\ r.res = g.res
            /\ r.bytes = g.bytes + n /\ r.frames = g.frames + 1 /\ r.part = g.part
            /\ r.head = g.head /\ r.cnt = g.cnt
        <5>1. g.bytes \in Nat /\ g.frames \in Nat
          BY <2>10 DEF Cursors
        <5>2. r = [g EXCEPT !.bytes = g.bytes + n, !.frames = g.frames + 1]
          BY <1>6
        <5>3. g.bytes + n \in Nat /\ g.frames + 1 \in Nat
          BY <1>0, <5>1
        <5> HIDE DEF r
        <5> QED
          BY <2>10, <5>2, <5>3 DEF Cursors
      <4> HIDE DEF r
      <4>5. AgentGoal' = r
        <5>1. /\ (AgentGoal'.opened <=> r.opened) /\ (AgentGoal'.ended <=> r.ended)
              /\ (AgentGoal'.part <=> r.part)
          BY <2>7, <2>10, <2>11, <4>2, <4>4 DEF Boundary
        <5>2. AgentGoal'.bytes = r.bytes /\ AgentGoal'.frames = r.frames
          BY <2>7, <2>10, <2>11, <4>2, <4>4
        <5> QED
          BY <2>10, <2>11, <4>4, <5>1, <5>2, CursorEqual DEF Boundary
      <4> QED
        BY <4>3, <4>5
    <3> QED
      BY <1>0, <3>1, <3>2
  <2>13. UpFlow'
    <3>1. PICK m \in Cursors : UpThrough(m)
      BY DEF IInv, Flow, UpFlow
    <3>2. g = m
      <4>1. Chain("agent", << >>, m, g)
        BY <1>2, <3>1 DEF UpThrough, g
      <4> QED
        BY <4>1, ChainNone
    <3>3. UpThrough(m)'
      BY <1>2, <2>8, <2>9, <2>12, <3>1, <3>2 DEF UpThrough
    <3> QED
      BY <3>3 DEF UpFlow
  <2>14. AgentBooks'
    <3>1. /\ Run(cl.got, 0) /\ Len(cl.got) <= Len(eng.took)
          /\ Run(cl.inn, Len(cl.got)) /\ Len(cl.got) + Len(cl.inn) = cl.seq.bytes["daemon"]
          /\ Run(cl.dec.body, cl.seq.bytes["daemon"]) /\ Len(eng.took) <= cl.sent
      BY <1>2 DEF IInv, AgentBooks
    <3>2. t.bytes["daemon"] = cl.seq.bytes["daemon"]
      BY <1>1, <2>7 DEF Tallies
    <3>3. cl'.read = t.bytes["agent"] /\ cl'.read <= cl'.size
      BY <1>0, <1>1, <1>3, <1>5, <2>5, <2>7, <2>8
    <3>4. t.ended["agent"] => cl'.read = cl'.size
      BY <1>1, <1>5, <2>5, <2>7, <2>8
    <3>5. ~cl'.sentEnd /\ cl'.out # << >>
      BY <1>0, <1>2, <2>4, <2>8
    <3> QED
      BY <1>2, <2>8, <3>1, <3>2, <3>3, <3>4, <3>5 DEF AgentBooks
  <2>15. \E h : h.kind \in {"data", "end"} /\ Accepted(cl.seq, "agent", h, cl'.seq)
    BY <1>8, <2>1, <2>8 DEF k
  <2> QED
    BY <1>1, <1>2, <1>4, <2>8, <2>13, <2>14, <2>15, AgentOnly DEF IInv, TypeOK
<1> QED
  BY <1>9, <1>10

\* The turn of output with a frame under way.
LEMMA WriteKeeps ==
    ASSUME IInv, C_Write
    PROVE  IInv'
<1>1. /\ cl \in Clients /\ cl.out \in Seq(Pieces) /\ up \in Seq(Pieces) /\ cl.sent \in Nat
      /\ cl.sentEnd \in BOOLEAN /\ Len(eng.took) \in Nat
  BY DEF IInv, TypeOK, Clients, Engines
<1>2. /\ cl.pc = "relay" /\ cl.out # << >> /\ UNCHANGED <<dn, sv, eng>> /\ Live
      /\ up' = Append(up, cl.out[1]) /\ cl' = Written(cl)
  BY DEF C_Write, Live
<1>3. ~eng.endIn
  BY <1>2 DEF IInv, DaemonBooks
<1>4. PICK m \in Cursors : UpThrough(m)
  BY DEF IInv, Flow, UpFlow
<1>5. Chain("agent", cl.out, m, AgentGoal) /\ Pos(m) = cl.sent
  BY <1>2, <1>4 DEF UpThrough
<1>6. PICK s \in Cursors : Step("agent", m, cl.out[1], s) /\ Chain("agent", Tail(cl.out), s, AgentGoal)
  BY <1>1, <1>2, <1>5, ChainFirst
<1> DEFINE p == cl.out[1]
           w == Tail(cl.out)
           b == IF p.t = "load" THEN cl.sent + 1 ELSE cl.sent
           e == Len(cl.out) = 1 /\ p.t = "head"
<1>7. p \in Pieces /\ w \in Seq(Pieces) /\ (Len(cl.out) = 1 <=> w = << >>) /\ b \in Nat
  <2>1. cl.out[1] \in Pieces /\ Tail(cl.out) \in Seq(Pieces)
    BY <1>1, <1>2
  <2>2. Len(Tail(cl.out)) = Len(cl.out) - 1 /\ Len(cl.out) \in Nat
    BY <1>1, <1>2
  <2>3. Tail(cl.out) = << >> <=> Len(Tail(cl.out)) = 0
    BY <2>1, EmptySeq
  <2>4. b \in Nat
    BY <1>1
  <2> QED
    BY <2>1, <2>2, <2>3, <2>4
<1>8. cl' = [cl EXCEPT !.out = w, !.sent = b, !.sentEnd = e]
  BY <1>2 DEF Written
<1>9. up' = Append(up, p) /\ up' \in Seq(Pieces)
  BY <1>1, <1>2, <1>7
<1>10. e \in BOOLEAN
  OBVIOUS
<1>11. Step("agent", m, p, s) /\ Chain("agent", w, s, AgentGoal)
  BY <1>6
<1> HIDE DEF p, w, b, e
<1>12. /\ cl' \in Clients /\ cl'.pc = "relay" /\ cl'.seq = cl.seq /\ cl'.dec = cl.dec
       /\ cl'.out = w /\ cl'.sent = b /\ cl'.read = cl.read
       /\ cl'.inn = cl.inn /\ cl'.got = cl.got /\ (cl'.sentEnd <=> e)
       /\ cl'.result = cl.result /\ cl'.size = cl.size
  BY <1>1, <1>2, <1>7, <1>8, <1>10 DEF Clients
<1>13. ~OpenedStep("agent", m, p, s) /\ ~TerminalStep("agent", m, p, s)
  BY DEF OpenedStep, TerminalStep, MayHead
<1>14. Pos(s) = b
  <2>1. (p.t = "load" <=> DataStep("agent", m, p, s))
        /\ Pos(s) = (IF DataStep("agent", m, p, s) THEN Pos(m) + 1 ELSE Pos(m))
    BY <1>11, <1>13, StepPos
  <2> QED
    BY <1>5, <2>1 DEF b
<1>15. e <=> cl.seq.ended["agent"] /\ w = << >>
  <2>1. CASE w = << >>
    <3>1. s = AgentGoal
      BY <1>11, <2>1, ChainNone
    <3>2. Boundary(s) /\ (s.ended <=> cl.seq.ended["agent"])
      BY <3>1, Goals DEF IInv
    <3>3. p.t = "head" <=> s.ended
      BY <1>11, <1>13, <3>2, StepBoundary
    <3> QED
      BY <1>7, <2>1, <3>2, <3>3 DEF e
  <2>2. CASE w # << >>
    BY <1>7, <2>2 DEF e
  <2> QED
    BY <2>1, <2>2
<1>16. Live' /\ (Reading' <=> Reading)
  BY <1>2, <1>12 DEF Live, Reading, Working
<1>17. UpFlow'
  <2>1. AgentGoal' = AgentGoal
    BY <1>12 DEF AgentGoal
  <2>2. Reading => Chain("agent", up', CursorOf(sv.seq, "agent", sv.dec), s)
    <3>1. Reading => Chain("agent", up, CursorOf(sv.seq, "agent", sv.dec), m)
      BY <1>4 DEF UpThrough
    <3> QED
      BY <1>1, <1>7, <1>9, <1>11, <3>1, ChainMore
  <2>3. UpThrough(s)'
    BY <1>2, <1>11, <1>12, <1>14, <1>16, <2>1, <2>2 DEF UpThrough
  <2> QED
    BY <2>3 DEF UpFlow
<1>18. AgentBooks'
  <2>1. Len(eng.took) <= cl.sent
    BY <1>2 DEF IInv, AgentBooks
  <2>2. Len(eng.took) <= b
    BY <1>1, <2>1 DEF b
  <2> QED
    BY <1>2, <1>12, <1>15, <2>2 DEF IInv, AgentBooks
<1> QED
  BY <1>2, <1>3, <1>9, <1>12, <1>17, <1>18, AgentOnly

\* A piece read leaves the agent between frames or within one.
LEMMA AgentReads ==
    ASSUME IInv, UNCHANGED <<up, sv, eng>>, dn # << >>, dn' = Tail(dn),
           cl.pc \in {"pending", "relay"}, cl' \in Clients,
           cl'.pc \in {"pending", "opened", "relay"}, cl'.pc = "relay" <=> cl.pc = "relay",
           ~cl'.seq.term, cl'.seq.opened <=> cl'.pc \in {"opened", "relay"},
           cl'.seq.ended["agent"] <=> cl.seq.ended["agent"],
           cl'.seq.bytes["agent"] = cl.seq.bytes["agent"],
           cl'.seq.frames["agent"] = cl.seq.frames["agent"],
           cl'.out = cl.out, cl'.sent = cl.sent, cl'.read = cl.read, cl'.got = cl.got,
           cl'.sentEnd = cl.sentEnd, cl'.result = cl.result, cl'.size = cl.size,
           cl'.pc # "relay" => cl'.inn = << >>,
           Run(cl'.inn, Len(cl.got)), Len(cl.got) + Len(cl'.inn) = cl'.seq.bytes["daemon"],
           Run(cl'.dec.body, cl'.seq.bytes["daemon"]),
           NEW m \in Cursors, DnThrough(m),
           Chain("daemon", dn', CursorOf(cl'.seq, "daemon", cl'.dec), m)
    PROVE  IInv'
<1>1. dn' \in Seq(Pieces) /\ sv.pc # "prelude"
  BY DEF IInv, TypeOK, Opens
<1>2. Live /\ Live' /\ (Serving' <=> Serving) /\ (Working' <=> Working) /\ (Reading' <=> Reading)
  BY DEF Live, Serving, Working, Reading
<1>3. TypeOK'
  BY <1>1 DEF IInv, TypeOK
<1>4. Opens'
  BY <1>1, <1>2 DEF IInv, Opens, Untouched
<1>5. AgentGoal' = AgentGoal
  <2>1. cl.seq \in Tallies /\ cl'.seq \in Tallies /\ NewDecoder \in Decoders /\ "agent" \in Sides
    BY Beginnings DEF IInv, TypeOK, Clients, Sides
  <2>2. CursorOf(cl'.seq, "agent", NewDecoder) = CursorOf(cl.seq, "agent", NewDecoder)
    BY <2>1, SameHalf
  <2> QED
    BY <2>2 DEF AgentGoal
<1>6. UpFlow'
  <2>1. PICK n \in Cursors : UpThrough(n)
    BY DEF IInv, Flow, UpFlow
  <2>2. UpThrough(n)'
    BY <1>2, <1>5, <2>1 DEF UpThrough
  <2> QED
    BY <2>2 DEF UpFlow
<1>7. DnFlow'
  <2>1. FramesAhead' = dn'
    BY DEF FramesAhead
  <2>2. DnThrough(m)'
    BY <1>2, <2>1 DEF DnThrough, DaemonGoal
  <2> QED
    BY <2>2 DEF DnFlow
<1>8. AgentBooks'
  BY <1>2 DEF IInv, AgentBooks
<1>9. DaemonBooks' /\ Reports'
  BY <1>2 DEF IInv, DaemonBooks, Reports
<1>10. Verdicts'
  BY DEF IInv, Verdicts, NoFalseAlarm, CompletedMeansAll, NoTerminal
<1> QED
  BY <1>3, <1>4, <1>6, <1>7, <1>8, <1>9, <1>10 DEF IInv, Flow

\* What the engine reports fits what the agent has sent.
LEMMA ReportFits ==
    ASSUME IInv, Live
    PROVE  /\ Fitting(cl.seq, eng.term) /\ eng.term.sent <= cl.sent
           /\ eng.term.state = "completed" => /\ cl.sentEnd /\ cl.out = << >> /\ cl.seq.ended["agent"]
                                              /\ Len(eng.took) = cl.size /\ eng.term.sent = cl.size
                                              /\ eng.term.received = eng.cut
<1>1. /\ cl.out \in Seq(Pieces) /\ cl.sent \in Nat /\ cl.seq.bytes["agent"] \in Nat
      /\ eng.term.sent \in Nat /\ Len(eng.took) \in Nat
  BY DEF IInv, TypeOK, Clients, Engines, Results, Tallies, Sides
<1>2. cl.sent <= cl.seq.bytes["agent"]
  <2>1. PICK m \in Cursors : UpThrough(m)
    BY DEF IInv, Flow, UpFlow
  <2>2. Pos(m) = cl.sent /\ Pos(m) <= Pos(AgentGoal)
    BY <1>1, <2>1, ChainEnds DEF UpThrough
  <2>3. Pos(AgentGoal) = cl.seq.bytes["agent"]
    BY Goals DEF IInv
  <2> QED
    BY <2>2, <2>3
<1>3. eng.term.sent <= Len(eng.took) /\ Len(eng.took) <= cl.sent
  BY DEF IInv, Reports, AgentBooks
<1>4. eng.term.sent <= cl.sent /\ eng.term.sent <= cl.seq.bytes["agent"]
  BY <1>1, <1>2, <1>3
<1>5. ASSUME eng.term.state = "completed"
      PROVE  /\ cl.sentEnd /\ cl.out = << >> /\ cl.seq.ended["agent"]
             /\ Len(eng.took) = cl.size /\ eng.term.sent = cl.size /\ eng.term.received = eng.cut
             /\ eng.term.sent = cl.seq.bytes["agent"]
  <2>1. /\ eng.endIn /\ eng.term.sent = Len(eng.took) /\ eng.term.received = eng.cut
    BY <1>5 DEF IInv, Reports
  <2>2. /\ cl.sentEnd /\ cl.out = << >> /\ cl.seq.ended["agent"]
        /\ Len(eng.took) = cl.seq.bytes["agent"]
    BY <2>1 DEF IInv, DaemonBooks
  <2>3. cl.seq.bytes["agent"] = cl.size
    BY <2>2 DEF IInv, AgentBooks
  <2> QED
    BY <2>1, <2>2, <2>3
<1> QED
  BY <1>4, <1>5 DEF Fitting

\* What C_Read finds in the socket.
LEMMA NextPieceFound ==
    ASSUME IInv, Live, cl.pc # "asked", dn # << >>, NEW m \in Cursors, DnThrough(m)
    PROVE  \E s \in Cursors :
              /\ Step("daemon", CursorOf(cl.seq, "daemon", cl.dec), dn[1], s)
              /\ Taken("daemon", cl.seq, cl.dec, dn[1], s) /\ Chain("daemon", Tail(dn), s, m)
              /\ s.res # NoTerminal => Tail(dn) = << >> /\ s.res = eng.term
<1> DEFINE q == CursorOf(cl.seq, "daemon", cl.dec)
<1>1. /\ cl.seq \in Tallies /\ cl.dec \in Decoders /\ "daemon" \in Sides /\ dn \in Seq(Pieces)
      /\ FramesAhead = dn /\ Tail(dn) \in Seq(Pieces)
  BY DEF IInv, TypeOK, Clients, Sides, FramesAhead
<1>2. Chain("daemon", dn, q, m)
  BY <1>1 DEF DnThrough
<1>3. PICK s \in Cursors : Step("daemon", q, dn[1], s) /\ Chain("daemon", Tail(dn), s, m)
  BY <1>1, <1>2, ChainFirst
<1>4. s.res # NoTerminal => Tail(dn) = << >> /\ s.res = eng.term
  <2> SUFFICES ASSUME s.res # NoTerminal PROVE Tail(dn) = << >> /\ s.res = eng.term
    OBVIOUS
  <2>1. Tail(dn) = << >> /\ m = s
    BY <1>1, <1>3, ChainOver
  <2>2. m.res \in {NoTerminal, eng.term}
    BY DEF DnThrough
  <2> QED
    BY <2>1, <2>2
<1>5. s.res # NoTerminal => Fitting(cl.seq, s.res)
  BY <1>4, ReportFits
<1>6. ~cl.seq.term /\ Run(cl.dec.body, cl.seq.bytes["daemon"])
  BY DEF IInv, Opens, AgentBooks
<1>7. Taken("daemon", cl.seq, cl.dec, dn[1], s)
  BY <1>1, <1>3, <1>5, <1>6, Takes
<1> QED
  BY <1>3, <1>4, <1>7

\* Reader::next.
LEMMA ReadKeeps ==
    ASSUME IInv, C_Read
    PROVE  IInv'
<1> DEFINE p == dn[1]
           f == decode(cl.dec, cl.seq, "daemon", p)
           e == Decoded(cl.dec, cl.seq, "daemon", p)
           t == accept(cl.seq, "daemon", f)
           q == CursorOf(cl.seq, "daemon", NewDecoder)
           c == [cl EXCEPT !.dec = e, !.seq = t]
<1>1. /\ cl \in Clients /\ cl.seq \in Tallies /\ cl.dec \in Decoders /\ "daemon" \in Sides
      /\ "agent" \in Sides /\ cl.got \in Seq(Values) /\ cl.inn \in Seq(Values) /\ dn \in Seq(Pieces)
      /\ cl.seq.bytes["daemon"] \in Nat
  BY DEF IInv, TypeOK, Clients, Sides, Tallies
<1>2. /\ cl.pc \in {"pending", "relay"} /\ Live /\ dn # << >> /\ dn' = Tail(dn)
      /\ UNCHANGED <<up, sv, eng>>
      /\ cl.pc = "relay" /\ cl.seq.ended["daemon"] => cl.recvEnd
  BY DEF C_Read, Reads, Live
<1>3. /\ cl.inn = << >> /\ (cl.pc = "relay" <=> cl.seq.opened) /\ ~cl.seq.term
      /\ Run(cl.inn, Len(cl.got)) /\ Len(cl.got) + Len(cl.inn) = cl.seq.bytes["daemon"]
      /\ Len(cl.got) = cl.seq.bytes["daemon"]
  <2>1. cl.inn = << >>
    BY <1>2 DEF IInv, Opens, C_Read, Reads
  <2>2. Len(cl.got) + Len(cl.inn) = cl.seq.bytes["daemon"] /\ Run(cl.inn, Len(cl.got))
    BY <1>2 DEF IInv, AgentBooks
  <2>3. Len(cl.got) = cl.seq.bytes["daemon"]
    BY <1>1, <2>1, <2>2
  <2> QED
    BY <1>2, <2>1, <2>2, <2>3 DEF IInv, Opens
<1>4. PICK m \in Cursors : DnThrough(m)
  BY DEF IInv, Flow, DnFlow
<1>5. PICK s \in Cursors :
          /\ Taken("daemon", cl.seq, cl.dec, p, s) /\ Chain("daemon", Tail(dn), s, m)
          /\ s.res # NoTerminal => Tail(dn) = << >> /\ s.res = eng.term
  BY <1>2, <1>4, NextPieceFound
<1>6. cl' = CASE f = BadFrame -> ClientEnds(Error("rejected"))
              [] f = NoFrame -> [cl EXCEPT !.dec = e]
              [] OTHER -> Received(c, f)
  BY DEF C_Read
<1>7. \/ f = NoFrame /\ e \in Decoders /\ s = CursorOf(cl.seq, "daemon", e)
         /\ Run(e.body, cl.seq.bytes["daemon"])
      \/ f # NoFrame /\ f # BadFrame /\ e = NewDecoder /\ Whole("daemon", cl.seq, f, s)
  BY <1>5 DEF Taken
<1> HIDE DEF p, f, e, t, c
<1>8. CASE f = NoFrame
  <2>1. e \in Decoders /\ s = CursorOf(cl.seq, "daemon", e) /\ Run(e.body, cl.seq.bytes["daemon"])
    BY <1>7, <1>8
  <2>2. cl' = [cl EXCEPT !.dec = e]
    BY <1>6, <1>8 DEF NoFrame, BadFrame
  <2>3. /\ cl' \in Clients /\ cl'.pc = cl.pc /\ cl'.seq = cl.seq /\ cl'.dec = e
        /\ cl'.out = cl.out /\ cl'.sent = cl.sent /\ cl'.read = cl.read
        /\ cl'.inn = cl.inn /\ cl'.got = cl.got /\ cl'.sentEnd = cl.sentEnd
        /\ cl'.result = cl.result /\ cl'.size = cl.size
    BY <1>1, <2>1, <2>2 DEF Clients
  <2>4. Chain("daemon", dn', CursorOf(cl'.seq, "daemon", cl'.dec), m)
    BY <1>2, <1>5, <2>1, <2>3
  <2>5. Run(cl'.dec.body, cl'.seq.bytes["daemon"])
    BY <2>1, <2>3
  <2> QED
    BY <1>2, <1>3, <1>4, <2>3, <2>4, <2>5, AgentReads
<1>9. CASE f # NoFrame
  <2>1. /\ e = NewDecoder /\ cl' = Received(c, f) /\ f.kind \in Kinds \ {"none"}
        /\ f.body \in Seq(Values) /\ MayHead("daemon", q, f.kind, Len(f.body))
        /\ f.kind = "data" => Run(f.body, cl.seq.bytes["daemon"])
        /\ f.kind = "terminal" => /\ f.body[1] \in Results /\ Closes(q, f.body[1])
                                  /\ s.res = f.body[1]
        /\ f.kind # "terminal" => s = CursorOf(t, "daemon", NewDecoder)
    BY <1>6, <1>7, <1>9 DEF Whole, t
  <2>2. Accepted(cl.seq, "daemon", f, t)
    BY <1>1, <2>1, Accepts DEF t
  <2>3. /\ t \in Tallies /\ (t.opened <=> cl.seq.opened \/ f.kind = "opened")
        /\ (t.term <=> f.kind = "terminal") /\ (t.ended["agent"] <=> cl.seq.ended["agent"])
        /\ t.bytes["agent"] = cl.seq.bytes["agent"] + 0
        /\ t.frames["agent"] = cl.seq.frames["agent"] + 0
        /\ t.bytes["daemon"] = cl.seq.bytes["daemon"] + (IF f.kind = "data" THEN Len(f.body) ELSE 0)
    BY <1>1, <1>3, <2>2 DEF Accepted
  <2>4. t.bytes["agent"] = cl.seq.bytes["agent"] /\ t.frames["agent"] = cl.seq.frames["agent"]
    BY <1>1, <2>3 DEF Tallies
  <2>5. /\ c \in Clients /\ c.pc = cl.pc /\ c.seq = t /\ c.dec = NewDecoder
        /\ c.out = cl.out /\ c.sent = cl.sent /\ c.read = cl.read
        /\ c.inn = cl.inn /\ c.got = cl.got /\ c.sentEnd = cl.sentEnd /\ c.recvEnd = cl.recvEnd
        /\ c.result = cl.result /\ c.size = cl.size
    BY <1>1, <2>1, <2>3, Beginnings DEF c, Clients
  <2>6. (q.opened <=> cl.seq.opened) /\ (q.ended <=> cl.seq.ended["daemon"])
        /\ q.bytes = cl.seq.bytes["daemon"]
    BY <1>1, Beginnings, CursorFields
  <2>7. NewDecoder.body = << >> /\ Run(NewDecoder.body, t.bytes["daemon"])
    BY Beginnings DEF Run
  <2> HIDE DEF q
  <2>8. CASE f.kind = "opened"
    <3>1. ~cl.seq.opened /\ cl.pc = "pending"
      BY <1>2, <1>3, <2>1, <2>6, <2>8 DEF MayHead
    <3>2. cl' = [c EXCEPT !.pc = "opened"]
      BY <2>1, <2>8 DEF Received
    <3>3. /\ cl' \in Clients /\ cl'.pc = "opened" /\ cl'.seq = t /\ cl'.dec = NewDecoder
          /\ cl'.out = cl.out /\ cl'.sent = cl.sent /\ cl'.read = cl.read
          /\ cl'.inn = cl.inn /\ cl'.got = cl.got /\ cl'.sentEnd = cl.sentEnd
          /\ cl'.result = cl.result /\ cl'.size = cl.size
      BY <2>5, <3>2 DEF Clients
    <3>4. t.bytes["daemon"] = cl.seq.bytes["daemon"] /\ ~t.term /\ t.opened
      BY <1>1, <2>3, <2>8
    <3>5. Chain("daemon", dn', CursorOf(cl'.seq, "daemon", cl'.dec), m)
      BY <1>2, <1>5, <2>1, <2>8, <3>3
    <3> QED
      BY <1>2, <1>3, <1>4, <2>3, <2>4, <2>7, <3>1, <3>3, <3>4, <3>5, AgentReads
  <2>9. CASE f.kind = "data"
    <3>1. cl.seq.opened /\ cl.pc = "relay"
      BY <1>2, <1>3, <2>1, <2>6, <2>9 DEF MayHead
    <3>2. cl' = [c EXCEPT !.inn = f.body]
      BY <2>1, <2>9 DEF Received
    <3>3. /\ cl' \in Clients /\ cl'.pc = "relay" /\ cl'.seq = t /\ cl'.dec = NewDecoder
          /\ cl'.out = cl.out /\ cl'.sent = cl.sent /\ cl'.read = cl.read
          /\ cl'.inn = f.body /\ cl'.got = cl.got /\ cl'.sentEnd = cl.sentEnd
          /\ cl'.result = cl.result /\ cl'.size = cl.size
      BY <2>1, <2>5, <3>1, <3>2 DEF Clients
    <3>4. /\ Len(cl.got) + Len(f.body) = t.bytes["daemon"] /\ ~t.term /\ t.opened
          /\ Run(f.body, Len(cl.got))
      BY <1>3, <2>1, <2>3, <2>9, <3>1
    <3>5. Chain("daemon", dn', CursorOf(cl'.seq, "daemon", cl'.dec), m)
      BY <1>2, <1>5, <2>1, <2>9, <3>3
    <3> QED
      BY <1>2, <1>3, <1>4, <2>3, <2>4, <2>7, <3>1, <3>3, <3>4, <3>5, AgentReads
  <2>10. CASE f.kind = "end"
    <3>1. cl.seq.opened /\ cl.pc = "relay"
      BY <1>2, <1>3, <2>1, <2>6, <2>10 DEF MayHead
    <3>2. cl' = c
      BY <2>1, <2>10 DEF Received
    <3>3. t.bytes["daemon"] = cl.seq.bytes["daemon"] /\ ~t.term /\ t.opened
      BY <1>1, <2>3, <2>10, <3>1
    <3>4. Chain("daemon", dn', CursorOf(cl'.seq, "daemon", cl'.dec), m)
      BY <1>2, <1>5, <2>1, <2>5, <2>10, <3>2
    <3> QED
      BY <1>2, <1>3, <1>4, <2>3, <2>4, <2>5, <2>7, <3>1, <3>2, <3>3, <3>4,
           AgentReads
  <2>11. CASE f.kind = "terminal"
    <3> DEFINE v == f.body[1]
    <3>1. v \in Results /\ Closes(q, v) /\ v = s.res /\ v # NoTerminal
      BY <2>1, <2>11 DEF Closes
    <3>2. Tail(dn) = << >> /\ v = eng.term /\ Len(dn) = 1
      <4>1. Tail(dn) = << >> /\ v = eng.term
        BY <1>5, <3>1
      <4>2. Len(Tail(dn)) = Len(dn) - 1 /\ Len(dn) \in Nat
        BY <1>1, <1>2
      <4>3. Len(Tail(dn)) = 0
        <5>1. Tail(dn) \in Seq(Pieces)
          BY <1>1, <1>2
        <5> QED
          BY <4>1, <5>1, EmptySeq
      <4>4. Len(dn) = 1
        BY <4>2, <4>3
      <4> QED
        BY <4>1, <4>4
    <3> HIDE DEF v
    <3>3. /\ v.sent <= cl.sent
          /\ v.state = "completed" => /\ cl.sentEnd /\ cl.out = << >> /\ Len(eng.took) = cl.size
                                      /\ v.sent = cl.size /\ v.received = eng.cut
      BY <1>2, <3>2, ReportFits
    <3>4. v.state = "completed" => cl.recvEnd /\ Len(cl.got) = v.received
      BY <1>2, <1>3, <2>6, <3>1 DEF Closes
    <3>5. Believes(c, v)
      BY <2>5, <3>2, <3>3, <3>4 DEF Believes
    <3>6. cl' = ClientEnds(v)
      BY <2>1, <2>11, <3>5 DEF Received, v
    <3>7. v.state # "rejected"
      BY <3>2 DEF IInv, Reports
    <3>8. dn' \in Seq(Pieces) /\ (sv.pc = "prelude" => dn' = << >>)
      BY <1>1, <1>2 DEF IInv, Opens
    <3> QED
      BY <1>2, <3>1, <3>2, <3>3, <3>4, <3>6, <3>7, <3>8, ClientGone
  <2> QED
    BY <2>1, <2>8, <2>9, <2>10, <2>11 DEF Kinds
<1> QED
  BY <1>8, <1>9

-----------------------------------------------------------------------------
(* The daemon's steps *)

\* Steps of the daemon's side that leave the agent's alone.
LEMMA DaemonOnly ==
    ASSUME IInv, UNCHANGED cl, sv' \in Servers, eng' \in Engines, up' \in Seq(Pieces),
           dn' \in Seq(Pieces), sv.pc \in {"connecting", "opening", "relay", "final"},
           sv'.pc \in {"opening", "relay", "final"}, sv'.failed = sv.failed,
           dn # << >> => dn' # << >>,
           sv'.pc = "opening" => /\ sv'.seq = NewSequence /\ sv'.dec = NewDecoder
                                 /\ sv'.pend = << >> /\ Untouched',
           sv'.pc = "relay" => sv'.seq.opened /\ ~sv'.seq.term,
           UNCHANGED eng \/ eng.term = NoTerminal,
           Len(eng.took) <= Len(eng'.took), Live => Len(eng'.took) <= cl.sent,
           UpFlow', DnFlow', DaemonBooks', Reports'
    PROVE  IInv'
<1>1. cl.pc # "idle"
  BY DEF IInv, Opens, NewServer
<1>2. (Live' <=> Live) /\ Serving /\ Serving'
  BY DEF Live, Serving
<1>3. TypeOK'
  BY DEF IInv, TypeOK
<1>4. Opens'
  BY <1>1, <1>2 DEF IInv, Opens
<1>5. AgentBooks'
  <2>1. Len(cl.got) \in Nat /\ Len(eng.took) \in Nat /\ Len(eng'.took) \in Nat
    BY DEF IInv, TypeOK, Clients, Engines
  <2>2. Len(cl.got) <= Len(eng'.took)
    BY <2>1 DEF IInv, AgentBooks
  <2> QED
    BY <1>2, <2>2 DEF IInv, AgentBooks
<1>6. Verdicts'
  <2>1. cl.result.state = "completed" => UNCHANGED eng
    BY DEF IInv, Verdicts, NoTerminal
  <2> QED
    BY <2>1 DEF IInv, Verdicts, NoFalseAlarm, CompletedMeansAll
<1> QED
  BY <1>3, <1>4, <1>5, <1>6 DEF IInv, Flow

\* A piece written follows the frames ahead.
LEMMA WireGrows ==
    ASSUME IInv, UNCHANGED cl, Serving, NEW p \in Pieces, dn' = Append(dn, p)
    PROVE  /\ dn' \in Seq(Pieces) /\ dn' # << >> /\ FramesAhead \in Seq(Pieces)
           /\ FramesAhead' = Append(FramesAhead, p) \/ ~Live
<1>1. dn \in Seq(Pieces)
  BY DEF IInv, TypeOK
<1>2. dn' \in Seq(Pieces) /\ dn' # << >>
  BY <1>1
<1>3. FramesAhead \in Seq(Pieces)
  BY <1>1 DEF FramesAhead
<1>4. CASE cl.pc = "asked" /\ Live
  <2>1. dn # << >>
    BY <1>4 DEF IInv, Opens
  <2>2. Tail(Append(dn, p)) = Append(Tail(dn), p)
    BY <1>1, <2>1
  <2> QED
    BY <1>2, <1>3, <1>4, <2>1, <2>2 DEF FramesAhead
<1>5. CASE cl.pc # "asked"
  BY <1>2, <1>3, <1>5 DEF FramesAhead
<1> QED
  BY <1>2, <1>3, <1>4, <1>5

\* The agent's direction has no step after its END.
LEMMA AgentOver ==
    ASSUME NEW q \in Cursors, NEW p, NEW r, Step("agent", q, p, r)
    PROVE  ~q.ended
BY DEF Step, PartStep, EndStep, HeadStep, DataStep, OpenedStep, TerminalStep,
     MayHead

\* What the writer of frames without a result has under way has none.
LEMMA NoResultYet ==
    ASSUME NEW w \in Seq(Pieces), NEW q \in Cursors, NEW r, Chain("daemon", w, q, r),
           r.res = NoTerminal
    PROVE  q.res = NoTerminal
<1>1. SUFFICES ASSUME q.res # NoTerminal PROVE FALSE
  OBVIOUS
<1>2. r = q
  BY <1>1, ChainOver
<1> QED
  BY <1>1, <1>2

\* OPENED is never taken back.
LEMMA StaysOpened ==
    ASSUME NEW who, NEW q \in Cursors, NEW p, NEW r, Step(who, q, p, r), q.opened
    PROVE  r.opened
<1>1. CASE PartStep(who, q, p, r)
  BY <1>1 DEF PartStep, Cursors
<1>2. CASE EndStep(who, q, p, r)
  BY <1>2 DEF EndStep, Fresh, Cursors
<1>3. CASE HeadStep(who, q, p, r)
  BY <1>3 DEF HeadStep, Cursors
<1>4. CASE DataStep(who, q, p, r)
  BY <1>4 DEF DataStep, Fresh, Cursors
<1>5. CASE OpenedStep(who, q, p, r)
  BY <1>5 DEF OpenedStep, MayHead
<1>6. CASE TerminalStep(who, q, p, r)
  BY <1>6 DEF TerminalStep, Fresh, Cursors
<1> QED
  BY <1>1, <1>2, <1>3, <1>4, <1>5, <1>6 DEF Step

\* prepare and serve.
LEMMA AdmitKeeps ==
    ASSUME IInv, S_Admit
    PROVE  IInv'
<1> DEFINE a == CursorOf(NewSequence, "agent", NewDecoder)
           d == CursorOf(NewSequence, "daemon", NewDecoder)
<1>1. /\ sv.pc = "prelude" /\ up # << >> /\ up' = << >> /\ UNCHANGED <<cl, eng>>
      /\ up' \in Seq(Pieces) /\ SameEngine
  BY DEF S_Admit, SameEngine, IInv, TypeOK
<1>2. /\ cl.pc \in {"asked", "done"} /\ dn = << >> /\ sv.seq = NewSequence /\ sv.dec = NewDecoder
      /\ sv.pend = << >> /\ Untouched /\ sv.out = << >>
      /\ eng.took = << >> /\ eng.gave = 0
  BY <1>1 DEF IInv, Opens, Untouched
<1>3. /\ a \in Cursors /\ a.bytes = 0 /\ a.cnt = 0
      /\ d \in Cursors /\ ~d.opened /\ ~d.ended /\ d.res = NoTerminal /\ d.bytes = 0 /\ d.cnt = 0
      /\ d.frames = 0 /\ ~d.part /\ d.head = NoHead
  BY Beginnings, CursorFields DEF Sides
<1>4. Live => cl.pc = "asked" /\ cl.seq = NewSequence /\ cl.dec = NewDecoder /\ cl.out = << >>
  BY <1>2 DEF IInv, Opens, Live
<1>5. Live => CursorOf(cl.seq, "daemon", cl.dec) = d /\ AgentGoal = a
  BY <1>4 DEF AgentGoal
<1> HIDE DEF a, d
<1>6. Pos(d) = 0 /\ Pos(a) = 0 /\ Chain("daemon", << >>, d, d) /\ Chain("agent", << >>, a, a)
  BY <1>3, ChainNone DEF Pos
<1>7. CASE dn' \in {<< >>, <<[t |-> "json"]>>} /\ sv' = ServerEnds
  <2> DEFINE j == [t |-> "json"]
  <2>1. j \in Pieces
    BY DEF Pieces
  <2> HIDE DEF j
  <2>2. dn' = << >> \/ dn' = <<j>>
    BY <1>7 DEF j
  <2>3. dn' \in Seq(Pieces)
    <3>1. << >> \in Seq(Pieces) /\ <<j>> \in Seq(Pieces)
      BY <2>1
    <3> QED
      BY <2>2, <3>1
  <2>4. dn' = <<j>> => dn' # << >> /\ Tail(dn') = << >>
    BY <2>1
  <2>5. Live => FramesAhead' = << >>
    BY <1>1, <1>4, <2>2, <2>4 DEF FramesAhead
  <2>6. Live => Chain("daemon", FramesAhead', CursorOf(cl.seq, "daemon", cl.dec), d)
    BY <1>5, <1>6, <2>5
  <2>7. Pos(d) <= eng.gave /\ d.res \in {NoTerminal, eng.term}
    BY <1>2, <1>3, <1>6
  <2> QED
    BY <1>1, <1>2, <1>3, <1>7, <2>3, <2>6, <2>7, ServerGone
<1>8. CASE dn' = <<[t |-> "upgrade"]>> /\ sv' = [sv EXCEPT !.pc = "connecting"]
  <2>1. /\ sv' \in Servers /\ sv'.pc = "connecting" /\ sv'.seq = sv.seq /\ sv'.dec = sv.dec
        /\ sv'.pend = sv.pend /\ sv'.out = sv.out /\ sv'.failed = sv.failed
        /\ sv'.retired = sv.retired
    BY <1>8 DEF IInv, TypeOK, Servers
  <2>2. dn' \in Seq(Pieces) /\ dn' # << >>
    BY <1>8 DEF Pieces
  <2>3. (Live' <=> Live) /\ Serving' /\ Working'
    BY <1>1, <2>1 DEF Live, Serving, Working
  <2>4. TypeOK'
    BY <1>1, <2>1, <2>2 DEF IInv, TypeOK
  <2>5. Opens'
    BY <1>1, <1>2, <2>1, <2>2, <2>3 DEF IInv, Opens, Untouched
  <2>6. UpFlow'
    <3>1. CursorOf(sv'.seq, "agent", sv'.dec) = a
      BY <1>2, <2>1 DEF a
    <3>2. Live => cl.sent = 0 /\ AgentGoal' = a /\ cl.out = << >>
      <4>1. PICK m \in Cursors : UpThrough(m)
        BY DEF IInv, Flow, UpFlow
      <4>2. Live => Chain("agent", << >>, m, a) /\ Pos(m) = cl.sent
        BY <1>4, <1>5, <4>1 DEF UpThrough
      <4>3. Live => m = a
        BY <4>2, ChainNone
      <4>4. AgentGoal' = AgentGoal
        BY <1>1 DEF AgentGoal
      <4> QED
        BY <1>4, <1>5, <1>6, <4>2, <4>3, <4>4
    <3>3. UpThrough(a)'
      BY <1>1, <1>6, <2>3, <3>1, <3>2 DEF UpThrough
    <3> QED
      BY <1>3, <3>3 DEF UpFlow
  <2>7. DnFlow'
    <3>1. DaemonGoal' = d
      <4>1. DaemonGoal' = [d EXCEPT !.opened = NewSequence.opened \/ FALSE]
        BY <1>2, <2>1 DEF DaemonGoal, d
      <4>2. (NewSequence.opened \/ FALSE) = FALSE
        BY Beginnings
      <4>3. [d EXCEPT !.opened = FALSE] = d
        BY <1>3 DEF Cursors
      <4> QED
        BY <4>1, <4>2, <4>3
    <3>2. Live => FramesAhead' = << >>
      BY <1>1, <1>4, <1>8 DEF FramesAhead
    <3>3. DnThrough(d)'
      BY <1>1, <1>2, <1>3, <1>5, <1>6, <2>1, <2>3, <3>1, <3>2 DEF DnThrough
    <3> QED
      BY <1>3, <3>3 DEF DnFlow
  <2>8. AgentBooks' /\ DaemonBooks' /\ Reports'
    BY <1>1, <2>1, <2>3 DEF IInv, AgentBooks, DaemonBooks, Reports
  <2>9. Verdicts'
    BY <1>1, <2>1 DEF IInv, Verdicts, NoFalseAlarm, CompletedMeansAll
  <2> QED
    BY <2>4, <2>5, <2>6, <2>7, <2>8, <2>9 DEF IInv, Flow
<1> QED
  BY <1>2, <1>7, <1>8 DEF S_Admit

\* The daemon's side ends before the relay, or with its time.
LEMMA QuitKeeps ==
    ASSUME IInv, S_Forbidden \/ S_Terminated \/ S_Deadline
    PROVE  IInv'
<1>1. /\ sv.pc \in {"connecting", "opening", "relay", "final"} /\ UNCHANGED <<up, dn, cl>>
      /\ sv' \in {sv, ServerEnds} /\ SameEngine /\ (sv' = sv => sv.pc = "connecting")
  <2>1. CASE S_Forbidden
    <3>1. /\ SameEngine
      BY <2>1 DEF S_Forbidden, SameEngine, IInv, TypeOK, Engines
    <3> QED
      BY <2>1, <3>1, Dropped, Beginnings DEF S_Forbidden, IInv
  <2>2. CASE S_Terminated \/ S_Deadline
    BY <2>2, Dropped, Beginnings DEF S_Terminated, S_Deadline, SameEngine, IInv,
         TypeOK
  <2> QED
    BY <2>1, <2>2
<1>2. PICK m \in Cursors : DnThrough(m)
  BY DEF IInv, Flow, DnFlow
<1>3. cl.pc # "idle" /\ up' \in Seq(Pieces) /\ dn' \in Seq(Pieces) /\ FramesAhead' = FramesAhead
  BY <1>1 DEF IInv, Opens, NewServer, TypeOK, FramesAhead
<1>4. CASE sv' = ServerEnds
  <2>1. Live => Chain("daemon", FramesAhead', CursorOf(cl.seq, "daemon", cl.dec), m)
    BY <1>2, <1>3 DEF DnThrough
  <2>2. m.res \in {NoTerminal, eng.term} /\ Pos(m) <= eng.gave
    BY <1>2 DEF DnThrough
  <2> QED
    BY <1>1, <1>3, <1>4, <2>1, <2>2, ServerGone
<1>5. CASE sv' = sv
  <2>1. (Live' <=> Live) /\ (Serving' <=> Serving) /\ (Working' <=> Working) /\ (Reading' <=> Reading)
    BY <1>1, <1>5 DEF Live, Serving, Working, Reading
  <2>2. TypeOK' /\ Opens'
    BY <1>1, <1>3, <1>5, <2>1 DEF IInv, TypeOK, Opens, Untouched, SameEngine
  <2>3. UpFlow'
    <3>1. PICK n \in Cursors : UpThrough(n)
      BY DEF IInv, Flow, UpFlow
    <3>2. UpThrough(n)'
      BY <1>1, <1>5, <2>1, <3>1 DEF UpThrough, AgentGoal
    <3> QED
      BY <3>2 DEF UpFlow
  <2>4. DnFlow'
    <3>1. DnThrough(m)'
      BY <1>1, <1>2, <1>3, <1>5, <2>1 DEF DnThrough, DaemonGoal, SameEngine
    <3> QED
      BY <3>1 DEF DnFlow
  <2>5. AgentBooks' /\ DaemonBooks' /\ Reports'
    BY <1>1, <1>5, <2>1 DEF IInv, AgentBooks, DaemonBooks, Reports, SameEngine
  <2>6. Verdicts'
    BY <1>1, <1>5 DEF IInv, Verdicts, NoFalseAlarm, CompletedMeansAll, SameEngine
  <2> QED
    BY <2>2, <2>3, <2>4, <2>5, <2>6 DEF IInv, Flow
<1> QED
  BY <1>1, <1>4, <1>5

\* A daemon between frames, with the cursor of all that it has written.
LEMMA BetweenFrames ==
    ASSUME IInv, Working, sv.out = << >>, NEW m \in Cursors, DnThrough(m)
    PROVE  m = DaemonGoal /\ m.bytes = eng.gave /\ eng.gave = sv.seq.bytes["daemon"]
<1>1. Chain("daemon", << >>, m, DaemonGoal) /\ Pos(m) = eng.gave
  BY DEF DnThrough
<1>2. m = DaemonGoal
  BY <1>1, ChainNone
<1>3. m.bytes = sv.seq.bytes["daemon"] /\ Pos(m) = sv.seq.bytes["daemon"]
  BY <1>2, Goals DEF IInv
<1> QED
  BY <1>1, <1>2, <1>3

\* PendingStream::connect.
LEMMA ConnectKeeps ==
    ASSUME IInv, S_Connect
    PROVE  IInv'
<1>1. /\ sv.pc = "connecting" /\ UNCHANGED <<up, dn, cl>> /\ Working
      /\ up' \in Seq(Pieces) /\ dn' \in Seq(Pieces)
      /\ sv \in Servers /\ eng \in Engines
  BY DEF S_Connect, Working, IInv, TypeOK
<1>2. /\ sv.seq = NewSequence /\ sv.dec = NewDecoder /\ sv.pend = << >> /\ sv.out = << >> /\ Untouched
      /\ eng.took = << >> /\ eng.gave = 0 /\ eng.term = NoTerminal /\ ~sv.retired
  BY <1>1 DEF IInv, Opens, Untouched, Reports
<1>3. PICK m \in Cursors : DnThrough(m)
  BY DEF IInv, Flow, DnFlow
<1>4. /\ m = DaemonGoal /\ Boundary(m) /\ m.res = NoTerminal /\ m.bytes = 0 /\ Pos(m) = 0
      /\ ~m.opened /\ ~m.ended /\ m.frames = 0
  <2>1. m = DaemonGoal /\ m.bytes = eng.gave
    BY <1>1, <1>2, <1>3, BetweenFrames
  <2>2. /\ NewSequence.bytes["daemon"] = 0 /\ ~NewSequence.ended["daemon"] /\ ~NewSequence.opened
        /\ NewSequence.frames["daemon"] = 0
    BY Beginnings DEF Sides
  <2> QED
    BY <1>1, <1>2, <2>1, <2>2, Goals DEF IInv
<1>5. PICK n \in Cursors : UpThrough(n)
  BY DEF IInv, Flow, UpFlow
<1>6. (Live' <=> Live) /\ FramesAhead' = FramesAhead /\ AgentGoal' = AgentGoal
  BY <1>1 DEF Live, FramesAhead, AgentGoal
<1>7. Len(eng.took) <= Len(eng.took) /\ (Live => Len(eng.took) <= cl.sent)
  <2>1. Len(eng.took) \in Nat
    BY <1>1 DEF Engines
  <2>2. \A x \in Nat : x <= x
    OBVIOUS
  <2>3. Live => Len(eng.took) <= cl.sent
    BY DEF IInv, AgentBooks
  <2> QED
    BY <2>1, <2>2, <2>3
<1>8. CASE sv' = [sv EXCEPT !.pc = "opening", !.out = encode("opened", <<0>>)] /\ UNCHANGED eng
  <2> DEFINE e == encode("opened", <<0>>)
             r == [m EXCEPT !.opened = TRUE]
  <2>1. e \in Seq(Pieces)
    <3>1. "opened" \in Kinds /\ <<0>> \in Seq(Values)
      BY DEF Kinds, Values
    <3> QED
      BY <3>1, Encoded
  <2>2. Chain("daemon", e, m, r)
    <3>1. MayHead("daemon", m, "opened", 1)
      BY <1>4 DEF MayHead, Kinds
    <3>2. 0 \in Values /\ r \in Cursors
      BY DEF Values, Cursors
    <3> QED
      BY <1>4, <3>1, <3>2, ControlChain
  <2>3. sv' = [sv EXCEPT !.pc = "opening", !.out = e]
    BY <1>8
  <2> HIDE DEF e
  <2>4. /\ sv' \in Servers /\ sv'.pc = "opening" /\ sv'.seq = sv.seq /\ sv'.dec = sv.dec
        /\ sv'.pend = sv.pend /\ sv'.out = e /\ sv'.failed = sv.failed
        /\ sv'.retired = sv.retired
    BY <1>1, <2>1, <2>3 DEF Servers
  <2>5. Working' /\ (Reading' <=> Reading)
    BY <1>1, <2>4 DEF Working, Reading
  <2>6. UpFlow'
    <3>1. UpThrough(n)'
      BY <1>1, <1>5, <1>6, <2>4, <2>5 DEF UpThrough
    <3> QED
      BY <3>1 DEF UpFlow
  <2>7. DnFlow'
    <3>1. DaemonGoal' = r
      <4> DEFINE c == CursorOf(sv.seq, "daemon", NewDecoder)
      <4>1. DaemonGoal' = [c EXCEPT !.opened = sv.seq.opened \/ TRUE]
        BY <2>4 DEF DaemonGoal
      <4>2. m = [c EXCEPT !.opened = sv.seq.opened \/ FALSE]
        BY <1>1, <1>4 DEF DaemonGoal
      <4>3. (sv.seq.opened \/ TRUE) = TRUE
        OBVIOUS
      <4>4. c \in Cursors
        BY <1>2, Beginnings, CursorFields DEF Sides
      <4> HIDE DEF c
      <4>5. [[c EXCEPT !.opened = sv.seq.opened \/ FALSE] EXCEPT !.opened = TRUE] = [c EXCEPT !.opened = TRUE]
        BY <4>4 DEF Cursors
      <4> QED
        BY <4>1, <4>2, <4>3, <4>5
    <3>2. DnThrough(m)'
      BY <1>1, <1>2, <1>3, <1>4, <1>6, <1>8, <2>2, <2>4, <2>5, <3>1 DEF DnThrough
    <3> QED
      BY <3>2 DEF DnFlow
  <2>8. DaemonBooks' /\ Reports'
    BY <1>1, <1>2, <1>6, <1>8, <2>4 DEF IInv, DaemonBooks, Reports
  <2> QED
    BY <1>1, <1>2, <1>7, <1>8, <2>4, <2>6, <2>7, <2>8, DaemonOnly DEF Untouched
<1>9. CASE /\ eng' = [eng EXCEPT !.term = Error("failed")]
           /\ sv' = [sv EXCEPT !.pc = "final", !.out = encode("terminal", <<eng'.term>>)]
  <2> DEFINE v == Error("failed")
             e == encode("terminal", <<v>>)
             r == [m EXCEPT !.res = v]
  <2>1. v \in Results /\ v.state = "failed" /\ v # NoTerminal /\ v.sent = 0 /\ v.received = 0
    <3>1. v \in Results /\ v.state = "failed"
      BY ErrorTypes DEF States
    <3> QED
      BY <3>1 DEF Error, NoTerminal
  <2>2. /\ eng' \in Engines /\ eng'.term = v /\ eng'.took = eng.took /\ eng'.gave = eng.gave
        /\ eng'.cut = eng.cut /\ eng'.endIn = eng.endIn /\ eng'.endOut = eng.endOut
    BY <1>1, <1>9, <2>1 DEF Engines
  <2>3. sv' = [sv EXCEPT !.pc = "final", !.out = e]
    BY <1>9, <2>2
  <2> HIDE DEF v
  <2>4. e \in Seq(Pieces)
    <3>1. "terminal" \in Kinds /\ <<v>> \in Seq(Values)
      BY <2>1 DEF Kinds, Values
    <3> QED
      BY <3>1, Encoded
  <2>5. r \in Cursors /\ r.res = v /\ r.bytes = m.bytes /\ r.cnt = m.cnt
    BY <2>1 DEF Cursors
  <2>6. Chain("daemon", e, m, r)
    <3>1. MayHead("daemon", m, "terminal", 1)
      BY <1>4 DEF MayHead, Kinds
    <3>2. Closes(m, v)
      BY <1>4, <2>1 DEF Closes
    <3>3. v \in Values
      BY <2>1 DEF Values
    <3> QED
      BY <1>4, <2>1, <2>5, <3>1, <3>2, <3>3, ControlChain
  <2> HIDE DEF e, r
  <2>7. /\ sv' \in Servers /\ sv'.pc = "final" /\ sv'.out = e /\ sv'.failed = sv.failed
    BY <1>1, <2>3, <2>4 DEF Servers
  <2>8. ~Working' /\ ~Reading'
    BY <2>7 DEF Working, Reading
  <2>9. UpFlow'
    <3>1. UpThrough(n)'
      BY <1>1, <1>5, <1>6, <2>8 DEF UpThrough
    <3> QED
      BY <3>1 DEF UpFlow
  <2>10. DnFlow'
    <3>1. Pos(r) <= eng'.gave
      BY <1>2, <1>4, <2>2, <2>5 DEF Pos
    <3>2. Pos(m) <= eng'.gave
      BY <1>2, <1>4, <2>2
    <3>3. \E x \in Cursors : /\ Chain("daemon", sv'.out, m, x) /\ x.res \in {NoTerminal, eng'.term}
                             /\ Pos(x) <= eng'.gave
      BY <2>2, <2>5, <2>6, <2>7, <3>1
    <3>4. DnThrough(m)'
      BY <1>1, <1>3, <1>4, <1>6, <2>7, <2>8, <3>2, <3>3 DEF DnThrough
    <3> QED
      BY <3>4 DEF DnFlow
  <2>11. DaemonBooks' /\ Reports'
    BY <1>1, <1>2, <1>6, <2>1, <2>2, <2>7 DEF IInv, DaemonBooks, Reports
  <2> QED
    BY <1>1, <1>2, <1>7, <2>2, <2>7, <2>9, <2>10, <2>11, DaemonOnly
<1> QED
  BY <1>8, <1>9 DEF S_Connect

\* write_opened: the last piece opens the relay.
LEMMA WriteOpenedKeeps ==
    ASSUME IInv, S_WriteOpened
    PROVE  IInv'
<1> DEFINE p == sv.out[1]
           w == Tail(sv.out)
           g == DaemonGoal
<1>1. /\ sv.pc = "opening" /\ up = << >> /\ UNCHANGED <<up, cl, eng>> /\ sv.out # << >>
      /\ dn' = Append(dn, p) /\ Working /\ Serving
      /\ sv' = IF Len(sv.out) = 1
                 THEN [sv EXCEPT !.out = << >>, !.pc = "relay", !.seq.opened = TRUE]
                 ELSE [sv EXCEPT !.out = w]
  BY DEF S_WriteOpened, S_Writes, Working, Serving
<1>2. /\ sv \in Servers /\ eng \in Engines /\ sv.out \in Seq(Pieces) /\ p \in Pieces
      /\ w \in Seq(Pieces) /\ up' \in Seq(Pieces) /\ Len(eng.took) \in Nat
  BY <1>1 DEF IInv, TypeOK, Servers, Engines
<1>3. Len(sv.out) = 1 <=> w = << >>
  <2>1. Len(w) = Len(sv.out) - 1 /\ Len(sv.out) \in Nat
    BY <1>1, <1>2
  <2>2. w = << >> <=> Len(w) = 0
    BY <1>2, EmptySeq
  <2> QED
    BY <2>1, <2>2
<1>4. /\ sv.seq = NewSequence /\ sv.dec = NewDecoder /\ sv.pend = << >> /\ Untouched
      /\ eng.took = << >> /\ eng.gave = 0 /\ ~eng.endIn /\ ~eng.endOut
      /\ eng.term = NoTerminal /\ ~sv.retired
  BY <1>1 DEF IInv, Opens, Untouched, Reports
<1>5. /\ NewSequence \in Tallies /\ NewSequence.bytes["daemon"] = 0 /\ NewSequence.bytes["agent"] = 0
      /\ ~NewSequence.ended["daemon"] /\ ~NewSequence.term /\ NewDecoder.body = << >>
      /\ NewDecoder \in Decoders /\ "agent" \in Sides /\ "daemon" \in Sides
  BY Beginnings DEF Sides
<1>6. PICK m \in Cursors : DnThrough(m)
  BY DEF IInv, Flow, DnFlow
<1>7. Chain("daemon", sv.out, m, g) /\ Pos(m) = 0
  BY <1>1, <1>4, <1>6 DEF DnThrough
<1>8. PICK s \in Cursors : Step("daemon", m, p, s) /\ Chain("daemon", w, s, g)
  BY <1>1, <1>2, <1>7, ChainFirst
<1>9. g \in Cursors /\ g.opened /\ g.res = NoTerminal /\ Pos(g) = 0
  BY <1>1, <1>4, <1>5, Goals DEF IInv
<1>10. Pos(s) = 0 /\ s.res = NoTerminal
  <2>1. Pos(m) <= Pos(s) /\ Pos(s) <= Pos(g)
    BY <1>2, <1>8, StepForward, ChainEnds
  <2>2. Pos(s) \in Nat
    BY DEF Pos, Cursors
  <2>3. Pos(s) = 0
    BY <1>7, <1>9, <2>1, <2>2
  <2>4. s.res = NoTerminal
    BY <1>2, <1>8, <1>9, NoResultYet
  <2> QED
    BY <2>3, <2>4
<1>11. /\ dn' \in Seq(Pieces) /\ dn' # << >>
       /\ Live => Chain("daemon", FramesAhead', CursorOf(cl.seq, "daemon", cl.dec), s)
  <2>1. /\ dn' \in Seq(Pieces) /\ dn' # << >> /\ FramesAhead \in Seq(Pieces)
        /\ FramesAhead' = Append(FramesAhead, p) \/ ~Live
    BY <1>1, <1>2, WireGrows
  <2>2. Live => Chain("daemon", FramesAhead, CursorOf(cl.seq, "daemon", cl.dec), m)
    BY <1>6 DEF DnThrough
  <2> QED
    BY <1>2, <1>8, <2>1, <2>2, ChainMore
<1> HIDE DEF p, w, g
<1>12. DaemonGoal' = g
  <2> DEFINE c == CursorOf(NewSequence, "daemon", NewDecoder)
  <2>1. g = [c EXCEPT !.opened = TRUE]
    <3>1. (NewSequence.opened \/ TRUE) = TRUE
      OBVIOUS
    <3> QED
      BY <1>1, <1>4, <3>1 DEF g, DaemonGoal
  <2>2. CASE w # << >>
    BY <1>1, <1>2, <1>3, <2>2 DEF DaemonGoal, g, Servers
  <2>3. CASE w = << >>
    <3> DEFINE t == [NewSequence EXCEPT !.opened = TRUE]
    <3>1. sv'.seq = t /\ sv'.pc = "relay"
      BY <1>1, <1>2, <1>3, <1>4, <2>3 DEF Servers
    <3>2. /\ t \in Tallies /\ t.opened = TRUE /\ t.ended = NewSequence.ended
          /\ t.bytes = NewSequence.bytes /\ t.frames = NewSequence.frames
      BY <1>5 DEF Tallies
    <3> HIDE DEF t
    <3>3. DaemonGoal' = [CursorOf(t, "daemon", NewDecoder) EXCEPT !.opened = TRUE]
      <4>1. (t.opened \/ FALSE) = TRUE
        BY <3>2
      <4> QED
        BY <3>1, <4>1 DEF DaemonGoal
    <3>4. c \in Cursors
      BY <1>5, CursorFields
    <3>5. CursorOf(t, "daemon", NewDecoder) = [c EXCEPT !.opened = TRUE]
      <4> DEFINE x == CursorOf(t, "daemon", NewDecoder)
                 y == [c EXCEPT !.opened = TRUE]
      <4>1. /\ x \in Cursors /\ x.opened /\ (x.ended <=> t.ended["daemon"]) /\ x.res = NoTerminal
            /\ x.bytes = t.bytes["daemon"] /\ x.frames = t.frames["daemon"]
            /\ (x.part <=> NewDecoder.part) /\ x.head = NewDecoder.head
            /\ x.cnt = Len(NewDecoder.body)
        BY <1>5, <3>2, CursorFields
      <4>2. /\ (c.ended <=> NewSequence.ended["daemon"]) /\ c.res = NoTerminal
            /\ c.bytes = NewSequence.bytes["daemon"] /\ c.frames = NewSequence.frames["daemon"]
            /\ (c.part <=> NewDecoder.part) /\ c.head = NewDecoder.head
            /\ c.cnt = Len(NewDecoder.body)
        BY <1>5, CursorFields
      <4> HIDE DEF c, x
      <4>3. /\ y \in Cursors /\ y.opened /\ y.ended = c.ended /\ y.res = c.res /\ y.bytes = c.bytes
            /\ y.frames = c.frames /\ y.part = c.part /\ y.head = c.head /\ y.cnt = c.cnt
        BY <3>4 DEF Cursors
      <4> HIDE DEF y
      <4>4. x = y
        BY <3>2, <4>1, <4>2, <4>3, CursorEqual
      <4> QED
        BY <4>4 DEF x, y
    <3> HIDE DEF c
    <3>6. [[c EXCEPT !.opened = TRUE] EXCEPT !.opened = TRUE] = [c EXCEPT !.opened = TRUE]
      BY <3>4 DEF Cursors
    <3> QED
      BY <2>1, <3>3, <3>5, <3>6
  <2> QED
    BY <2>2, <2>3
<1>13. /\ sv' \in Servers /\ sv'.dec = sv.dec /\ sv'.pend = sv.pend /\ sv'.out = w
       /\ sv'.failed = sv.failed /\ sv'.retired = sv.retired /\ sv'.pc \in {"opening", "relay"}
       /\ sv'.pc = "relay" <=> w = << >>
       /\ sv'.pc = "opening" => sv'.seq = NewSequence
       /\ sv'.pc = "relay" => sv'.seq = [NewSequence EXCEPT !.opened = TRUE]
  <2> DEFINE t == [sv.seq EXCEPT !.opened = TRUE]
  <2>1. t \in Tallies /\ << >> \in Seq(Pieces)
    <3>1. sv.seq \in Tallies
      BY <1>4, <1>5
    <3>2. t \in Tallies
      BY <3>1 DEF Tallies
    <3> QED
      BY <3>2
  <2>2. CASE w = << >>
    <3>1. sv' = [sv EXCEPT !.out = << >>, !.pc = "relay", !.seq = t]
      BY <1>1, <1>2, <1>3, <2>2 DEF Servers
    <3>2. t = [NewSequence EXCEPT !.opened = TRUE]
      BY <1>4
    <3> HIDE DEF t
    <3> QED
      BY <1>2, <2>1, <2>2, <3>1, <3>2 DEF Servers
  <2>3. CASE w # << >>
    <3>1. sv' = [sv EXCEPT !.out = w]
      BY <1>1, <1>3, <2>3
    <3> QED
      BY <1>1, <1>2, <1>4, <2>3, <3>1 DEF Servers
  <2> QED
    BY <2>2, <2>3
<1>14. /\ sv'.seq \in Tallies /\ sv'.seq.bytes = NewSequence.bytes /\ sv'.seq.ended = NewSequence.ended
       /\ sv'.seq.frames = NewSequence.frames
       /\ sv'.pc = "relay" => sv'.seq.opened /\ ~sv'.seq.term
  BY <1>5, <1>13 DEF Tallies
<1>15. (Live' <=> Live) /\ Working' /\ (Reading' <=> Reading)
  BY <1>1, <1>13 DEF Live, Working, Reading
<1>16. UpFlow'
  <2>1. PICK n \in Cursors : UpThrough(n)
    BY DEF IInv, Flow, UpFlow
  <2>2. CursorOf(sv'.seq, "agent", sv'.dec) = CursorOf(sv.seq, "agent", sv.dec)
    BY <1>4, <1>13, <1>14 DEF CursorOf
  <2>3. UpThrough(n)'
    BY <1>1, <1>15, <2>1, <2>2 DEF UpThrough, AgentGoal
  <2> QED
    BY <2>3 DEF UpFlow
<1>17. DnFlow'
  <2>1. sv'.pc = "relay" => s.opened
    <3>1. w = << >> => s = g
      <4> SUFFICES ASSUME w = << >> PROVE s = g
        OBVIOUS
      <4>1. Chain("daemon", << >>, s, g)
        BY <1>8
      <4> QED
        BY <4>1, ChainNone
    <3> QED
      BY <1>9, <1>13, <3>1
  <2>2. DnThrough(s)'
    BY <1>1, <1>4, <1>8, <1>10, <1>11, <1>12, <1>13, <1>15, <2>1 DEF DnThrough
  <2> QED
    BY <2>2 DEF DnFlow
<1>18. DaemonBooks'
  <2>1. Run(<< >>, 0) /\ Len(<< >>) = 0
    BY DEF Run
  <2>2. eng.cut \in Nat
    BY <1>2 DEF Engines
  <2> QED
    BY <1>1, <1>4, <1>5, <1>13, <1>14, <2>1, <2>2 DEF DaemonBooks
<1>19. Reports'
  BY <1>1, <1>4, <1>13 DEF IInv, Reports
<1>20. Live => Len(eng.took) <= cl.sent
  BY DEF IInv, AgentBooks
<1> QED
  BY <1>1, <1>2, <1>4, <1>11, <1>13, <1>14, <1>16, <1>17, <1>18, <1>19, <1>20,
       DaemonOnly
     DEF Untouched

\* An attachment that still reads: what it has had of the agent's bytes.
LEMMA ReadingFacts ==
    ASSUME IInv, Attached, NEW m \in Cursors, UpThrough(m)
    PROVE  /\ sv.pc = "relay" /\ ~sv.retired /\ sv.failed = "no" /\ Reading /\ Working
           /\ up \in Seq(Pieces) /\ sv.seq \in Tallies /\ sv.dec \in Decoders
           /\ sv.seq.opened /\ ~sv.seq.term /\ eng.term = NoTerminal
           /\ Chain("agent", up, CursorOf(sv.seq, "agent", sv.dec), m)
           /\ CursorOf(sv.seq, "agent", sv.dec) \in Cursors
           /\ (CursorOf(sv.seq, "agent", sv.dec).ended <=> sv.seq.ended["agent"])
           /\ CursorOf(sv.seq, "agent", sv.dec).bytes = sv.seq.bytes["agent"]
           /\ sv.seq.bytes["agent"] <= Pos(m)
           /\ Len(eng.took) + Len(sv.pend) = sv.seq.bytes["agent"]
<1>1. sv.pc = "relay" /\ ~sv.retired /\ sv.failed = "no" /\ Reading /\ Working
  BY DEF Attached, Reading, Working
<1>2. up \in Seq(Pieces) /\ sv.seq \in Tallies /\ sv.dec \in Decoders /\ "agent" \in Sides
      /\ sv.seq.bytes["agent"] \in Nat
  BY DEF IInv, TypeOK, Servers, Sides, Tallies
<1>3. sv.seq.opened /\ ~sv.seq.term /\ eng.term = NoTerminal
      /\ Len(eng.took) + Len(sv.pend) = sv.seq.bytes["agent"]
  BY <1>1 DEF IInv, Opens, Reports, DaemonBooks
<1> DEFINE q == CursorOf(sv.seq, "agent", sv.dec)
<1>4. Chain("agent", up, q, m)
  BY <1>1 DEF UpThrough
<1>5. q \in Cursors /\ (q.ended <=> sv.seq.ended["agent"]) /\ q.bytes = sv.seq.bytes["agent"]
  BY <1>2, CursorFields
<1> HIDE DEF q
<1>6. q.bytes <= Pos(q) /\ Pos(q) <= Pos(m) /\ Pos(q) \in Nat /\ Pos(m) \in Nat
  <2>1. Pos(q) <= Pos(m)
    BY <1>2, <1>4, ChainEnds
  <2>2. q.bytes <= Pos(q) /\ Pos(q) \in Nat /\ Pos(m) \in Nat
    BY <1>5 DEF Pos, Cursors
  <2> QED
    BY <2>1, <2>2
<1>7. sv.seq.bytes["agent"] <= Pos(m)
  BY <1>2, <1>5, <1>6
<1> QED
  BY <1>1, <1>2, <1>3, <1>4, <1>5, <1>7 DEF q

\* watch_end and a lost socket: an honest agent sends nothing after its END.
LEMMA LostKeeps ==
    ASSUME IInv, S_WatchEnd \/ S_WriteFails
    PROVE  IInv'
<1>1. Attached /\ sv.pc = "relay" /\ UNCHANGED <<up, dn, cl, eng>>
  BY DEF S_WatchEnd, S_WriteFails, Attached
<1>2. S_WatchEnd => up = << >>
  <2> SUFFICES ASSUME S_WatchEnd, up # << >> PROVE FALSE
    OBVIOUS
  <2>1. PICK m \in Cursors : UpThrough(m)
    BY DEF IInv, Flow, UpFlow
  <2> DEFINE q == CursorOf(sv.seq, "agent", sv.dec)
  <2>2. up \in Seq(Pieces) /\ q \in Cursors /\ Chain("agent", up, q, m) /\ q.ended
    <3>1. sv.seq.ended["agent"]
      BY DEF S_WatchEnd
    <3> QED
      BY <1>1, <2>1, <3>1, ReadingFacts
  <2> HIDE DEF q
  <2>3. PICK s \in Cursors : Step("agent", q, up[1], s)
    BY <2>2, ChainFirst
  <2> QED
    BY <2>2, <2>3, AgentOver
<1>3. sv' = Fail(sv, "lost")
  BY <1>2 DEF S_WatchEnd, S_WriteFails
<1> QED
  BY <1>1, <1>3, AttachmentFails

\* read: the engine takes a byte that is pending.
LEMMA GiveKeeps ==
    ASSUME IInv, S_Give
    PROVE  IInv'
<1> DEFINE n == Len(eng.took)
           k == Len(sv.pend)
           x == sv.pend[1]
<1>1. /\ Attached /\ sv.pend # << >> /\ UNCHANGED <<up, dn, cl>>
      /\ eng' = [eng EXCEPT !.took = Append(@, x)] /\ sv' = [sv EXCEPT !.pend = Tail(@)]
  BY DEF S_Give
<1>2. /\ sv \in Servers /\ eng \in Engines /\ eng.took \in Seq(Values) /\ sv.pend \in Seq(Values)
      /\ up \in Seq(Pieces) /\ dn \in Seq(Pieces) /\ n \in Nat /\ k \in Nat \ {0} /\ x \in Values
      /\ eng.gave \in Nat /\ eng.cut \in Nat /\ sv.seq.bytes["daemon"] \in Nat
      /\ cl.out \in Seq(Pieces) /\ cl.seq.bytes["agent"] \in Nat /\ sv.seq.bytes["agent"] \in Nat
  <2>1. /\ sv \in Servers /\ eng \in Engines /\ eng.took \in Seq(Values) /\ sv.pend \in Seq(Values)
        /\ up \in Seq(Pieces) /\ dn \in Seq(Pieces) /\ eng.gave \in Nat /\ eng.cut \in Nat
        /\ cl.out \in Seq(Pieces)
    BY DEF IInv, TypeOK, Servers, Engines, Clients
  <2>2. /\ sv.seq.bytes["daemon"] \in Nat /\ cl.seq.bytes["agent"] \in Nat
        /\ sv.seq.bytes["agent"] \in Nat
    BY DEF IInv, TypeOK, Servers, Clients, Tallies, Sides
  <2> QED
    BY <1>1, <2>1, <2>2
<1>3. PICK m \in Cursors : UpThrough(m)
  BY DEF IInv, Flow, UpFlow
<1>4. /\ sv.pc = "relay" /\ ~sv.retired /\ sv.seq.opened /\ ~sv.seq.term /\ eng.term = NoTerminal
      /\ sv.seq.bytes["agent"] <= Pos(m) /\ n + k = sv.seq.bytes["agent"] /\ Working
  BY <1>1, <1>3, ReadingFacts
<1>5. /\ Append(eng.took, x) \in Seq(Values) /\ Len(Append(eng.took, x)) = n + 1
      /\ \A i \in 1..n : Append(eng.took, x)[i] = eng.took[i]
      /\ Append(eng.took, x)[n + 1] = x
  BY <1>2, AppendProperties
<1>6. /\ Tail(sv.pend) \in Seq(Values) /\ Len(Tail(sv.pend)) = k - 1
      /\ \A i \in 1..(k - 1) : Tail(sv.pend)[i] = sv.pend[i + 1]
  BY <1>1, <1>2
<1>7. /\ eng' \in Engines /\ eng'.took = Append(eng.took, x) /\ eng'.gave = eng.gave
      /\ eng'.cut = eng.cut /\ eng'.endIn = eng.endIn /\ eng'.endOut = eng.endOut
      /\ eng'.term = eng.term
  <2> DEFINE b == Append(eng.took, x)
  <2>1. eng' = [eng EXCEPT !.took = b] /\ b \in Seq(Values)
    BY <1>1, <1>5
  <2> HIDE DEF b
  <2>2. /\ eng' \in Engines /\ eng'.took = b /\ eng'.gave = eng.gave
        /\ eng'.cut = eng.cut /\ eng'.endIn = eng.endIn /\ eng'.endOut = eng.endOut
        /\ eng'.term = eng.term
    BY <1>2, <2>1 DEF Engines
  <2> QED
    BY <2>2 DEF b
<1>8. /\ sv' \in Servers /\ sv'.pend = Tail(sv.pend) /\ sv'.pc = sv.pc /\ sv'.seq = sv.seq
      /\ sv'.dec = sv.dec /\ sv'.out = sv.out /\ sv'.failed = sv.failed
      /\ sv'.retired = sv.retired /\ sv'.started = sv.started
  BY <1>1, <1>2, <1>6 DEF Servers
<1> HIDE DEF n, k, x
<1>9. (Live' <=> Live) /\ Working' /\ (Reading' <=> Reading)
  BY <1>1, <1>4, <1>8 DEF Live, Working, Reading
<1>10. UpFlow'
  <2>1. UpThrough(m)'
    BY <1>1, <1>3, <1>8, <1>9 DEF UpThrough, AgentGoal
  <2> QED
    BY <2>1 DEF UpFlow
<1>11. DnFlow'
  <2>1. PICK d \in Cursors : DnThrough(d)
    BY DEF IInv, Flow, DnFlow
  <2>2. DnThrough(d)'
    BY <1>1, <1>4, <1>7, <1>8, <1>9, <2>1 DEF DnThrough, DaemonGoal, FramesAhead
  <2> QED
    BY <2>2 DEF DnFlow
<1>12. Live => /\ n + 1 <= cl.sent /\ cl.sent <= cl.seq.bytes["agent"]
  <2> SUFFICES ASSUME Live PROVE n + 1 <= cl.sent /\ cl.sent <= cl.seq.bytes["agent"]
    OBVIOUS
  <2>1. Pos(m) = cl.sent /\ Pos(m) \in Nat
    BY <1>3 DEF UpThrough, Pos, Cursors
  <2>2. Pos(m) <= Pos(AgentGoal) /\ Pos(AgentGoal) = cl.seq.bytes["agent"]
    BY <1>2, <1>3, ChainEnds, Goals DEF UpThrough, IInv
  <2> QED
    BY <1>2, <1>4, <2>1, <2>2
<1>13. Live => ~eng.endIn
  <2> SUFFICES ASSUME Live, eng.endIn PROVE FALSE
    OBVIOUS
  <2>1. n = cl.seq.bytes["agent"]
    BY DEF IInv, DaemonBooks, n
  <2>2. cl.sent \in Nat
    BY DEF IInv, TypeOK, Clients
  <2> QED
    BY <1>2, <1>12, <2>1, <2>2
<1>14. DaemonBooks'
  <2>1. /\ Run(eng.took, 0) /\ eng.gave <= n /\ eng.gave <= eng.cut
        /\ sv.seq.bytes["daemon"] <= n /\ sv.seq.bytes["daemon"] <= eng.cut
        /\ sv.seq.ended["daemon"] => eng.gave = eng.cut
        /\ eng.endOut => sv.seq.ended["daemon"] /\ sv.out = << >>
        /\ Run(sv.pend, n) /\ Run(sv.dec.body, sv.seq.bytes["agent"])
    BY <1>4 DEF IInv, DaemonBooks, n
  <2>2. DOMAIN eng.took = 1..n /\ DOMAIN sv.pend = 1..k
    BY <1>2 DEF n, k
  <2>3. DOMAIN eng'.took = 1..(n + 1) /\ DOMAIN sv'.pend = 1..(k - 1) /\ Len(eng'.took) = n + 1
        /\ Len(sv'.pend) = k - 1
    BY <1>2, <1>5, <1>6, <1>7, <1>8
  <2>4. (\A i \in 1..n : eng.took[i] = 0 + i) /\ (\A i \in 1..k : sv.pend[i] = n + i)
    BY <2>1, <2>2 DEF Run
  <2>5. \A i \in 1..(n + 1) : eng'.took[i] = 0 + i
    <3>1. x = n + 1
      BY <1>2, <2>4 DEF x
    <3> QED
      BY <1>2, <1>5, <1>7, <2>4, <3>1
  <2>6. \A i \in 1..(k - 1) : sv'.pend[i] = (n + 1) + i
    <3> SUFFICES ASSUME NEW i \in 1..(k - 1) PROVE sv'.pend[i] = (n + 1) + i
      OBVIOUS
    <3>1. i + 1 \in 1..k /\ i \in Nat
      BY <1>2
    <3>2. sv'.pend[i] = sv.pend[i + 1] /\ sv.pend[i + 1] = n + (i + 1)
      BY <1>6, <1>8, <2>4, <3>1
    <3> QED
      BY <1>2, <3>1, <3>2
  <2>7. Run(eng'.took, 0) /\ Run(sv'.pend, Len(eng'.took))
    BY <2>3, <2>5, <2>6 DEF Run
  <2>8. /\ eng.gave <= n + 1 /\ sv.seq.bytes["daemon"] <= n + 1
        /\ (n + 1) + (k - 1) = sv.seq.bytes["agent"]
    BY <1>2, <1>4, <2>1
  <2> QED
    BY <1>1, <1>4, <1>7, <1>8, <1>9, <1>13, <2>1, <2>3, <2>7, <2>8 DEF DaemonBooks
<1>15. Reports'
  <2>1. NoTerminal.state = "none" /\ NoTerminal.sent = 0
    BY Beginnings
  <2>2. Len(eng'.took) \in Nat
    BY <1>2, <1>5, <1>7
  <2> QED
    BY <1>4, <1>7, <1>8, <2>1, <2>2 DEF Reports
<1>16. n <= Len(eng'.took) /\ (Live => Len(eng'.took) <= cl.sent)
  BY <1>2, <1>5, <1>7, <1>12
<1> QED
  BY <1>1, <1>2, <1>4, <1>7, <1>8, <1>10, <1>11, <1>14, <1>15, <1>16, DaemonOnly
       DEF n

\* read: the engine takes the end, once nothing of the agent's is ahead.
LEMMA GiveEndKeeps ==
    ASSUME IInv, S_GiveEnd
    PROVE  IInv'
<1>1. /\ Attached /\ sv.pend = << >> /\ sv.seq.ended["agent"] /\ up = << >>
      /\ UNCHANGED <<up, dn, cl, sv>> /\ eng' = [eng EXCEPT !.endIn = TRUE]
  BY DEF S_GiveEnd
<1>2. /\ sv \in Servers /\ eng \in Engines /\ up \in Seq(Pieces) /\ dn \in Seq(Pieces)
      /\ Len(eng.took) \in Nat /\ cl.out \in Seq(Pieces)
  BY DEF IInv, TypeOK, Engines, Clients
<1>3. /\ eng' \in Engines /\ eng'.took = eng.took /\ eng'.gave = eng.gave
      /\ eng'.cut = eng.cut /\ eng'.endIn /\ eng'.endOut = eng.endOut /\ eng'.term = eng.term
  BY <1>1, <1>2 DEF Engines
<1>4. PICK m \in Cursors : UpThrough(m)
  BY DEF IInv, Flow, UpFlow
<1> DEFINE q == CursorOf(sv.seq, "agent", sv.dec)
<1>5. /\ sv.pc = "relay" /\ ~sv.retired /\ sv.seq.opened /\ ~sv.seq.term /\ eng.term = NoTerminal
      /\ Chain("agent", up, q, m) /\ q \in Cursors /\ q.ended /\ q.bytes = sv.seq.bytes["agent"]
      /\ Len(eng.took) + Len(sv.pend) = sv.seq.bytes["agent"] /\ Working
  BY <1>1, <1>4, ReadingFacts
<1> HIDE DEF q
<1>6. q = m /\ Len(eng.took) = m.bytes
  <2>1. Chain("agent", << >>, q, m)
    BY <1>1, <1>5
  <2>2. q = m
    BY <1>5, <2>1, ChainNone
  <2>3. Len(sv.pend) = 0
    BY <1>1
  <2> QED
    BY <1>2, <1>5, <2>2, <2>3
<1>7. ASSUME Live
      PROVE  /\ cl.seq.ended["agent"] /\ cl.sentEnd /\ cl.out = << >>
             /\ Len(eng.took) = cl.seq.bytes["agent"]
  <2>1. Chain("agent", cl.out, m, AgentGoal)
    BY <1>4, <1>7 DEF UpThrough
  <2>2. cl.out = << >>
    <3>1. SUFFICES ASSUME cl.out # << >> PROVE FALSE
      OBVIOUS
    <3>2. PICK s \in Cursors : Step("agent", m, cl.out[1], s)
      BY <1>2, <2>1, <3>1, ChainFirst
    <3> QED
      BY <1>5, <1>6, <3>2, AgentOver
  <2>3. AgentGoal = m
    <3>1. Chain("agent", << >>, m, AgentGoal)
      BY <2>1, <2>2
    <3> QED
      BY <3>1, ChainNone
  <2>4. cl.seq.ended["agent"] /\ Len(eng.took) = cl.seq.bytes["agent"]
    BY <1>5, <1>6, <2>3, Goals DEF IInv
  <2>5. cl.sentEnd
    BY <1>7, <2>2, <2>4 DEF IInv, AgentBooks
  <2> QED
    BY <2>2, <2>4, <2>5
<1>8. (Live' <=> Live) /\ (Working' <=> Working) /\ (Reading' <=> Reading)
  BY <1>1 DEF Live, Working, Reading
<1>9. UpFlow'
  <2>1. UpThrough(m)'
    BY <1>1, <1>4, <1>8 DEF UpThrough, AgentGoal
  <2> QED
    BY <2>1 DEF UpFlow
<1>10. DnFlow'
  <2>1. PICK d \in Cursors : DnThrough(d)
    BY DEF IInv, Flow, DnFlow
  <2>2. DnThrough(d)'
    BY <1>1, <1>3, <1>8, <2>1 DEF DnThrough, DaemonGoal, FramesAhead
  <2> QED
    BY <2>2 DEF DnFlow
<1>11. DaemonBooks'
  BY <1>1, <1>3, <1>7, <1>8 DEF IInv, DaemonBooks
<1>12. Reports'
  BY <1>1, <1>3 DEF IInv, Reports
<1>13. Len(eng.took) <= Len(eng'.took) /\ (Live => Len(eng'.took) <= cl.sent)
  <2>1. Live => Len(eng.took) <= cl.sent
    BY DEF IInv, AgentBooks
  <2>2. \A n \in Nat : n <= n
    OBVIOUS
  <2> QED
    BY <1>2, <1>3, <2>1, <2>2
<1> QED
  BY <1>1, <1>2, <1>3, <1>5, <1>9, <1>10, <1>11, <1>12, <1>13, DaemonOnly

\* A piece read leaves the daemon between frames or within one.
LEMMA DaemonReads ==
    ASSUME IInv, Attached, UNCHANGED <<dn, cl, eng>>, up' \in Seq(Pieces), sv' \in Servers,
           sv'.pc = "relay", ~sv'.retired, sv'.failed = "no", sv'.out = sv.out,
           sv'.started = sv.started, sv'.seq.opened, ~sv'.seq.term,
           sv'.seq.ended["daemon"] <=> sv.seq.ended["daemon"],
           sv'.seq.bytes["daemon"] = sv.seq.bytes["daemon"],
           sv'.seq.frames["daemon"] = sv.seq.frames["daemon"],
           Run(sv'.pend, Len(eng.took)),
           Len(eng.took) + Len(sv'.pend) = sv'.seq.bytes["agent"],
           Run(sv'.dec.body, sv'.seq.bytes["agent"]),
           NEW m \in Cursors, UpThrough(m),
           Chain("agent", up', CursorOf(sv'.seq, "agent", sv'.dec), m)
    PROVE  IInv'
<1>1. /\ sv.pc = "relay" /\ ~sv.retired /\ sv.failed = "no" /\ Working /\ Reading /\ sv.seq.opened
      /\ eng.term = NoTerminal /\ sv.seq \in Tallies
  BY ReadingFacts
<1>2. (Live' <=> Live) /\ Working' /\ Reading'
  BY <1>1 DEF Live, Working, Reading
<1>3. UpFlow'
  <2>1. UpThrough(m)'
    BY <1>2 DEF UpThrough, AgentGoal
  <2> QED
    BY <2>1 DEF UpFlow
<1>4. DnFlow'
  <2>1. PICK d \in Cursors : DnThrough(d)
    BY DEF IInv, Flow, DnFlow
  <2>2. DaemonGoal' = DaemonGoal
    <3>1. sv'.seq \in Tallies /\ NewDecoder \in Decoders /\ "daemon" \in Sides
      BY Beginnings DEF Servers, Sides
    <3>2. CursorOf(sv'.seq, "daemon", NewDecoder) = CursorOf(sv.seq, "daemon", NewDecoder)
      BY <1>1, <3>1, SameHalf
    <3>3. (sv'.seq.opened \/ sv'.pc = "opening") = (sv.seq.opened \/ sv.pc = "opening")
      BY <1>1
    <3> QED
      BY <3>2, <3>3 DEF DaemonGoal
  <2>3. DnThrough(d)'
    BY <1>1, <1>2, <2>1, <2>2 DEF DnThrough, FramesAhead
  <2> QED
    BY <2>3 DEF DnFlow
<1>5. DaemonBooks'
  BY <1>1, <1>2 DEF IInv, DaemonBooks
<1>6. Reports'
  BY <1>1 DEF IInv, Reports
<1>7. Len(eng.took) <= Len(eng.took) /\ (Live => Len(eng.took) <= cl.sent)
  <2>1. Live => Len(eng.took) <= cl.sent
    BY DEF IInv, AgentBooks
  <2>2. Len(eng.took) \in Nat /\ \A n \in Nat : n <= n
    BY DEF IInv, TypeOK, Engines
  <2> QED
    BY <2>1, <2>2
<1>8. eng' \in Engines /\ dn' \in Seq(Pieces)
  BY DEF IInv, TypeOK
<1> QED
  BY <1>1, <1>3, <1>4, <1>5, <1>6, <1>7, <1>8, DaemonOnly

\* read: the next piece of the agent's frames, or the loss of the socket.
LEMMA ServerReadKeeps ==
    ASSUME IInv, S_Read
    PROVE  IInv'
<1> DEFINE p == up[1]
           f == decode(sv.dec, sv.seq, "agent", p)
           e == Decoded(sv.dec, sv.seq, "agent", p)
           t == accept(sv.seq, "agent", f)
           q == CursorOf(sv.seq, "agent", NewDecoder)
<1>1. Attached /\ sv.pend = << >> /\ UNCHANGED <<dn, cl, eng>>
  BY DEF S_Read, NextPiece
<1>2. PICK m \in Cursors : UpThrough(m)
  BY DEF IInv, Flow, UpFlow
<1>3. /\ sv.pc = "relay" /\ ~sv.retired /\ sv.failed = "no" /\ up \in Seq(Pieces)
      /\ sv.seq \in Tallies /\ sv.dec \in Decoders /\ sv.seq.opened /\ ~sv.seq.term
      /\ Chain("agent", up, CursorOf(sv.seq, "agent", sv.dec), m)
      /\ Len(eng.took) + Len(sv.pend) = sv.seq.bytes["agent"]
  BY <1>1, <1>2, ReadingFacts
<1>4. /\ sv \in Servers /\ "agent" \in Sides /\ "daemon" \in Sides /\ Len(eng.took) \in Nat
      /\ sv.seq.bytes["agent"] \in Nat /\ sv.seq.bytes["daemon"] \in Nat
      /\ sv.seq.frames["daemon"] \in Nat /\ Len(sv.pend) = 0
      /\ Run(sv.pend, Len(eng.took)) /\ Run(sv.dec.body, sv.seq.bytes["agent"])
  <2>1. /\ sv \in Servers /\ "agent" \in Sides /\ "daemon" \in Sides /\ Len(eng.took) \in Nat
        /\ Len(sv.pend) = 0
    BY <1>1 DEF IInv, TypeOK, Engines, Sides
  <2>2. /\ sv.seq.bytes["agent"] \in Nat /\ sv.seq.bytes["daemon"] \in Nat
        /\ sv.seq.frames["daemon"] \in Nat
    BY <1>3, <2>1 DEF Tallies
  <2>3. Run(sv.pend, Len(eng.took)) /\ Run(sv.dec.body, sv.seq.bytes["agent"])
    BY <1>3 DEF IInv, DaemonBooks
  <2> QED
    BY <2>1, <2>2, <2>3
<1>5. Len(eng.took) = sv.seq.bytes["agent"]
  BY <1>3, <1>4
<1>6. CASE up = << >>
  <2>1. sv' = Fail(sv, "lost") /\ UNCHANGED up
    BY <1>6 DEF S_Read
  <2> QED
    BY <1>1, <1>3, <2>1, AttachmentFails
<1>7. CASE up # << >>
  <2>1. /\ up' = Tail(up) /\ up' \in Seq(Pieces)
        /\ sv' = CASE f = BadFrame -> Fail(sv, "input")
                   [] f = NoFrame -> [sv EXCEPT !.dec = e]
                   [] OTHER -> [sv EXCEPT !.dec = e, !.pend = f.body, !.seq = t]
    BY <1>3, <1>7 DEF S_Read
  <2>2. PICK s \in Cursors : /\ Step("agent", CursorOf(sv.seq, "agent", sv.dec), p, s)
                             /\ Chain("agent", Tail(up), s, m)
    BY <1>3, <1>7, ChainFirst
  <2>3. s.res = NoTerminal
    <3> DEFINE b == CursorOf(sv.seq, "agent", sv.dec)
    <3>1. b \in Cursors /\ b.res = NoTerminal
      BY <1>3, <1>4, CursorFields
    <3> HIDE DEF b
    <3>2. Step("agent", b, p, s)
      BY <2>2 DEF b
    <3>3. ~TerminalStep("agent", b, p, s) /\ ~OpenedStep("agent", b, p, s)
      BY DEF TerminalStep, OpenedStep, MayHead
    <3>4. PartStep("agent", b, p, s) => s.res = NoTerminal
      BY <3>1 DEF PartStep, Cursors
    <3>5. EndStep("agent", b, p, s) => s.res = NoTerminal
      BY <3>1 DEF EndStep, Fresh, Cursors
    <3>6. HeadStep("agent", b, p, s) => s.res = NoTerminal
      BY <3>1 DEF HeadStep, Cursors
    <3>7. DataStep("agent", b, p, s) => s.res = NoTerminal
      BY <3>1 DEF DataStep, Fresh, Cursors
    <3> QED
      BY <3>2, <3>3, <3>4, <3>5, <3>6, <3>7 DEF Step
  <2>4. Taken("agent", sv.seq, sv.dec, p, s)
    BY <1>3, <1>4, <2>2, <2>3, Takes
  <2>5. \/ f = NoFrame /\ e \in Decoders /\ s = CursorOf(sv.seq, "agent", e)
           /\ Run(e.body, sv.seq.bytes["agent"])
        \/ f # NoFrame /\ f # BadFrame /\ e = NewDecoder /\ Whole("agent", sv.seq, f, s)
    BY <2>4 DEF Taken
  <2> HIDE DEF p, f, e, t
  <2>6. CASE f = NoFrame
    <3>1. e \in Decoders /\ s = CursorOf(sv.seq, "agent", e) /\ Run(e.body, sv.seq.bytes["agent"])
      BY <2>5, <2>6
    <3>2. sv' = [sv EXCEPT !.dec = e]
      BY <2>1, <2>6 DEF NoFrame, BadFrame
    <3>3. /\ sv' \in Servers /\ sv'.pc = sv.pc /\ sv'.retired = sv.retired /\ sv'.failed = sv.failed
          /\ sv'.out = sv.out /\ sv'.started = sv.started /\ sv'.seq = sv.seq
          /\ sv'.pend = sv.pend /\ sv'.dec = e
      BY <1>4, <3>1, <3>2 DEF Servers
    <3>4. Chain("agent", up', CursorOf(sv'.seq, "agent", sv'.dec), m)
      BY <2>1, <2>2, <3>1, <3>3
    <3>5. Run(sv'.dec.body, sv'.seq.bytes["agent"])
      BY <3>1, <3>3
    <3> QED
      BY <1>1, <1>2, <1>3, <1>4, <2>1, <3>3, <3>4, <3>5, DaemonReads
  <2>7. CASE f # NoFrame
    <3>1. /\ e = NewDecoder /\ sv' = [sv EXCEPT !.dec = e, !.pend = f.body, !.seq = t]
          /\ f.kind \in Kinds \ {"none"} /\ f.body \in Seq(Values)
          /\ MayHead("agent", q, f.kind, Len(f.body))
          /\ f.kind = "data" => Run(f.body, sv.seq.bytes["agent"])
          /\ f.kind # "terminal" => s = CursorOf(t, "agent", NewDecoder)
      BY <2>1, <2>5, <2>7 DEF Whole, t
    <3>2. f.kind \in {"data", "end"} /\ (f.kind = "end" => Len(f.body) = 0)
      BY <3>1 DEF MayHead
    <3>3. Accepted(sv.seq, "agent", f, t)
      BY <1>3, <1>4, <3>1, Accepts DEF t
    <3>4. /\ t \in Tallies /\ t.opened /\ ~t.term
          /\ (t.ended["daemon"] <=> sv.seq.ended["daemon"])
          /\ t.bytes["daemon"] = sv.seq.bytes["daemon"] + 0
          /\ t.frames["daemon"] = sv.seq.frames["daemon"] + 0
          /\ t.bytes["agent"] = sv.seq.bytes["agent"] + (IF f.kind = "data" THEN Len(f.body) ELSE 0)
      BY <1>3, <1>4, <3>2, <3>3 DEF Accepted
    <3>5. /\ t.bytes["daemon"] = sv.seq.bytes["daemon"] /\ t.frames["daemon"] = sv.seq.frames["daemon"]
          /\ Len(eng.took) + Len(f.body) = t.bytes["agent"]
      BY <1>4, <1>5, <3>2, <3>4
    <3>6. /\ sv' \in Servers /\ sv'.pc = sv.pc /\ sv'.retired = sv.retired /\ sv'.failed = sv.failed
          /\ sv'.out = sv.out /\ sv'.started = sv.started /\ sv'.seq = t
          /\ sv'.pend = f.body /\ sv'.dec = NewDecoder
      BY <1>4, <3>1, <3>4, Beginnings DEF Servers
    <3>7. Run(f.body, Len(eng.took)) /\ Run(NewDecoder.body, t.bytes["agent"])
      <4>1. f.kind = "end" => f.body = << >>
        BY <3>1, <3>2, EmptySeq
      <4>2. NewDecoder.body = << >> /\ Run(<< >>, t.bytes["agent"]) /\ Run(<< >>, Len(eng.took))
        BY Beginnings DEF Run
      <4> QED
        BY <1>5, <3>1, <3>2, <4>1, <4>2
    <3>8. Chain("agent", up', CursorOf(sv'.seq, "agent", sv'.dec), m)
      BY <2>1, <2>2, <3>1, <3>2, <3>6
    <3> QED
      BY <1>1, <1>2, <1>3, <2>1, <3>4, <3>5, <3>6, <3>7, <3>8, DaemonReads
  <2> QED
    BY <2>6, <2>7
<1> QED
  BY <1>6, <1>7

\* A frame of the daemon's begins.
LEMMA DaemonBegins ==
    ASSUME IInv, Attached, sv.out = << >>, UNCHANGED <<up, dn, cl, eng>>,
           NEW e \in Seq(Pieces), NEW t \in Tallies,
           sv' = [sv EXCEPT !.out = e, !.started = FALSE, !.seq = t],
           t.opened, ~t.term, t.ended["agent"] <=> sv.seq.ended["agent"],
           t.bytes["agent"] = sv.seq.bytes["agent"], t.frames["agent"] = sv.seq.frames["agent"],
           t.bytes["daemon"] <= Len(eng.took), t.bytes["daemon"] <= eng.cut,
           t.ended["daemon"] => eng.gave = eng.cut, ~eng.endOut,
           NEW m \in Cursors, DnThrough(m), NEW r, Chain("daemon", e, m, r),
           r = [CursorOf(t, "daemon", NewDecoder) EXCEPT !.opened = TRUE]
    PROVE  IInv'
<1>1. PICK n \in Cursors : UpThrough(n)
  BY DEF IInv, Flow, UpFlow
<1>2. /\ sv.pc = "relay" /\ ~sv.retired /\ sv.failed = "no" /\ Reading /\ Working
      /\ sv.seq \in Tallies /\ sv.dec \in Decoders /\ eng.term = NoTerminal
  BY <1>1, ReadingFacts
<1>3. /\ sv' \in Servers /\ sv'.pc = "relay" /\ sv'.retired = sv.retired /\ sv'.failed = sv.failed
      /\ sv'.out = e /\ sv'.started = FALSE /\ sv'.seq = t /\ sv'.pend = sv.pend
      /\ sv'.dec = sv.dec
  BY <1>2 DEF IInv, TypeOK, Servers
<1>4. (Live' <=> Live) /\ Working' /\ Reading'
  BY <1>2, <1>3 DEF Live, Working, Reading
<1>5. UpFlow'
  <2>1. CursorOf(sv'.seq, "agent", sv'.dec) = CursorOf(sv.seq, "agent", sv.dec)
    <3>1. "agent" \in Sides
      BY DEF Sides
    <3> QED
      BY <1>2, <1>3, <3>1, SameHalf
  <2>2. UpThrough(n)'
    BY <1>1, <1>2, <1>4, <2>1 DEF UpThrough, AgentGoal
  <2> QED
    BY <2>2 DEF UpFlow
<1>6. DnFlow'
  <2>1. DaemonGoal' = r
    <3>1. (t.opened \/ FALSE) = TRUE
      OBVIOUS
    <3> QED
      BY <1>3, <3>1 DEF DaemonGoal
  <2>2. Boundary(m) /\ m.opened /\ Pos(m) = eng.gave
    <3>1. m = DaemonGoal
      BY <1>2, BetweenFrames
    <3> QED
      BY <1>2, <3>1, Goals DEF IInv, DnThrough
  <2>3. DnThrough(m)'
    BY <1>3, <1>4, <2>1, <2>2 DEF DnThrough, FramesAhead
  <2> QED
    BY <2>3 DEF DnFlow
<1>7. DaemonBooks'
  BY <1>2, <1>3, <1>4 DEF IInv, DaemonBooks
<1>8. Reports'
  BY <1>2, <1>3 DEF IInv, Reports
<1>9. Len(eng.took) <= Len(eng.took) /\ (Live => Len(eng.took) <= cl.sent)
  <2>1. Live => Len(eng.took) <= cl.sent
    BY DEF IInv, AgentBooks
  <2>2. Len(eng.took) \in Nat /\ \A x \in Nat : x <= x
    BY DEF IInv, TypeOK, Engines
  <2> QED
    BY <2>1, <2>2
<1>10. eng' \in Engines /\ dn' \in Seq(Pieces) /\ up' \in Seq(Pieces)
  BY DEF IInv, TypeOK
<1> QED
  BY <1>2, <1>3, <1>5, <1>6, <1>7, <1>8, <1>9, <1>10, DaemonOnly

\* A goal in terms of the Sequence it comes from.
LEMMA NextGoal ==
    ASSUME IInv, sv.pc = "relay", NEW t \in Tallies, NEW r \in Cursors, r.opened,
           r.ended <=> t.ended["daemon"], r.res = NoTerminal, r.bytes = t.bytes["daemon"],
           r.frames = t.frames["daemon"], Boundary(r)
    PROVE  r = [CursorOf(t, "daemon", NewDecoder) EXCEPT !.opened = TRUE]
<1> DEFINE c == CursorOf(t, "daemon", NewDecoder)
           y == [c EXCEPT !.opened = TRUE]
<1>1. /\ c \in Cursors /\ (c.ended <=> t.ended["daemon"]) /\ c.res = NoTerminal
      /\ c.bytes = t.bytes["daemon"] /\ c.frames = t.frames["daemon"]
      /\ ~c.part /\ c.head = NoHead /\ c.cnt = 0
  BY Beginnings, CursorFields DEF Sides
<1> HIDE DEF c
<1>2. /\ y \in Cursors /\ y.opened /\ y.ended = c.ended /\ y.res = c.res /\ y.bytes = c.bytes
      /\ y.frames = c.frames /\ y.part = c.part /\ y.head = c.head /\ y.cnt = c.cnt
  BY <1>1 DEF Cursors
<1> HIDE DEF y
<1>3. r = y
  BY <1>1, <1>2, CursorEqual DEF Boundary
<1> QED
  BY <1>3 DEF y, c

\* end: the upstream has ended.
LEMMA BeginEndKeeps ==
    ASSUME IInv, S_BeginEnd
    PROVE  IInv'
<1> DEFINE f == [kind |-> "end", body |-> << >>]
           t == accept(sv.seq, "daemon", f)
           e == encode("end", << >>)
<1>1. /\ Attached /\ sv.out = << >> /\ eng.gave = eng.cut /\ ~sv.seq.ended["daemon"]
      /\ UNCHANGED <<up, dn, cl, eng>> /\ sv.pc = "relay" /\ Working
      /\ sv' = [sv EXCEPT !.out = e, !.started = FALSE, !.seq = t]
  BY DEF S_BeginEnd, Attached, Working
<1>2. /\ sv.seq \in Tallies /\ "agent" \in Sides /\ "daemon" \in Sides /\ sv.seq.opened /\ ~sv.seq.term
      /\ \A x \in Sides : sv.seq.bytes[x] \in Nat /\ sv.seq.frames[x] \in Nat
  BY <1>1 DEF IInv, TypeOK, Servers, Sides, Tallies, Opens
<1>3. f.kind = "end" /\ f.kind \in Kinds \ {"none"} /\ f.body \in Seq(Values)
  BY DEF Kinds
<1> HIDE DEF f
<1>4. Accepted(sv.seq, "daemon", f, t)
  BY <1>2, <1>3, Accepts
<1> HIDE DEF t
<1>5. /\ t \in Tallies /\ t.opened /\ ~t.term /\ t.ended["daemon"]
      /\ (t.ended["agent"] <=> sv.seq.ended["agent"])
      /\ \A x \in Sides : t.bytes[x] = sv.seq.bytes[x] + 0 /\ t.frames[x] = sv.seq.frames[x] + 0
  BY <1>2, <1>3, <1>4 DEF Accepted
<1>6. \A x \in Sides : t.bytes[x] = sv.seq.bytes[x] /\ t.frames[x] = sv.seq.frames[x]
  BY <1>2, <1>5
<1>7. PICK m \in Cursors : DnThrough(m)
  BY DEF IInv, Flow, DnFlow
<1>8. /\ Boundary(m) /\ m.res = NoTerminal /\ m.opened /\ ~m.ended
      /\ m.bytes = sv.seq.bytes["daemon"] /\ m.frames = sv.seq.frames["daemon"]
  <2>1. m = DaemonGoal
    BY <1>1, <1>7, BetweenFrames
  <2> QED
    BY <1>1, <1>2, <2>1, Goals DEF IInv
<1> DEFINE r == [m EXCEPT !.ended = TRUE]
<1>9. e \in Seq(Pieces) /\ Chain("daemon", e, m, r)
  <2>1. MayHead("daemon", m, "end", 0)
    BY <1>8 DEF MayHead, Kinds
  <2>2. "end" \in Kinds /\ << >> \in Seq(Values)
    BY DEF Kinds
  <2> QED
    BY <1>8, <2>1, <2>2, EndChain, Encoded
<1>10. /\ r \in Cursors /\ r.opened = m.opened /\ r.ended /\ r.res = m.res /\ r.bytes = m.bytes
       /\ r.frames = m.frames /\ r.part = m.part /\ r.head = m.head /\ r.cnt = m.cnt
  BY DEF Cursors
<1> HIDE DEF e, r
<1>11. r = [CursorOf(t, "daemon", NewDecoder) EXCEPT !.opened = TRUE]
  <2>1. Boundary(r) /\ r.opened /\ r.res = NoTerminal /\ r.bytes = t.bytes["daemon"]
        /\ r.frames = t.frames["daemon"]
    BY <1>2, <1>6, <1>8, <1>10 DEF Boundary
  <2> QED
    BY <1>1, <1>5, <1>10, <2>1, NextGoal
<1>12. ~eng.endOut /\ t.bytes["daemon"] <= Len(eng.took) /\ t.bytes["daemon"] <= eng.cut
  BY <1>1, <1>2, <1>6 DEF IInv, DaemonBooks
<1> QED
  BY <1>1, <1>2, <1>5, <1>6, <1>7, <1>9, <1>11, <1>12, DaemonBegins

\* write: a frame for what the engine offers, or the end of the attachment.
LEMMA BeginKeeps ==
    ASSUME IInv, NEW n \in 1..MaxData, S_Begin(n)
    PROVE  IInv'
<1> DEFINE body == SubSeq(eng.took, eng.gave + 1, eng.gave + n)
           f == [kind |-> "data", body |-> body]
           t == accept(sv.seq, "daemon", f)
           e == encode("data", body)
<1>1. /\ Attached /\ sv.out = << >> /\ n <= Echo /\ UNCHANGED <<up, dn, cl, eng>> /\ sv.pc = "relay"
      /\ sv' = IF Acceptable(sv.seq, "daemon", f)
                 THEN [sv EXCEPT !.out = e, !.started = FALSE, !.seq = t]
                 ELSE Fail(sv, "limit")
      /\ Working /\ n \in Nat \ {0} /\ MaxData \in Nat
  BY FramingAssumption DEF S_Begin, Attached, Working
<1>2. /\ sv.seq \in Tallies /\ "agent" \in Sides /\ "daemon" \in Sides /\ sv.seq.opened /\ ~sv.seq.term
      /\ \A x \in Sides : sv.seq.bytes[x] \in Nat /\ sv.seq.frames[x] \in Nat
  BY <1>1 DEF IInv, TypeOK, Servers, Sides, Tallies, Opens
<1>3. CASE ~Acceptable(sv.seq, "daemon", f)
  <2>1. sv' = Fail(sv, "limit")
    BY <1>1, <1>3
  <2> QED
    BY <1>1, <2>1, AttachmentFails
<1>4. CASE Acceptable(sv.seq, "daemon", f)
  <2>1. /\ eng.took \in Seq(Values) /\ Len(eng.took) \in Nat /\ eng.gave \in Nat /\ eng.cut \in Nat
    BY DEF IInv, TypeOK, Engines
  <2>2. eng.gave + n <= Len(eng.took) /\ eng.gave + n <= eng.cut
    BY <1>1, <2>1 DEF Echo, Least
  <2>3. body \in Seq(Values) /\ Len(body) = n /\ \A i \in 1..n : body[i] = eng.took[eng.gave + i]
    <3> DEFINE g == eng.gave
               x == Len(eng.took)
    <3>1. g \in Nat /\ x \in Nat /\ g + n <= x
      BY <2>1, <2>2
    <3> HIDE DEF g, x
    <3>2. /\ g + 1 \in Int /\ g + n \in Int /\ g + 1 <= g + n /\ (g + n) - (g + 1) + 1 = n
          /\ \A i \in (g + 1)..(g + n) : i \in 1..x
      BY <1>1, <3>1
    <3>3. /\ body \in Seq(Values) /\ Len(body) = n
          /\ \A i \in 1..n : body[i] = eng.took[(g + 1) + i - 1]
      <4>1. \A i \in (g + 1)..(g + n) : eng.took[i] \in Values
        BY <2>1, <3>2 DEF x
      <4>2. body = SubSeq(eng.took, g + 1, g + n)
        BY DEF g
      <4> HIDE DEF body
      <4>3. /\ body \in Seq(Values) /\ Len(body) = (IF g + 1 <= g + n THEN (g + n) - (g + 1) + 1 ELSE 0)
            /\ \A i \in 1..((g + n) - (g + 1) + 1) : body[i] = eng.took[(g + 1) + i - 1]
        BY <3>2, <4>1, <4>2, SubSeqProperties
      <4> QED
        BY <3>2, <4>3
    <3> HIDE DEF body
    <3>4. \A i \in 1..n : (g + 1) + i - 1 = g + i
      BY <1>1, <3>1
    <3>5. body \in Seq(Values) /\ Len(body) = n /\ \A i \in 1..n : body[i] = eng.took[g + i]
      BY <3>3, <3>4
    <3> QED
      BY <3>5 DEF g
  <2>4. f.kind = "data" /\ f.body = body /\ f.kind \in Kinds \ {"none"}
    BY DEF Kinds
  <2> HIDE DEF body
  <2>5. Run(body, eng.gave)
    <3>1. \A i \in 1..Len(eng.took) : eng.took[i] = 0 + i
      BY <2>1 DEF IInv, DaemonBooks, Run
    <3>2. \A i \in 1..n : body[i] = eng.gave + i
      <4> SUFFICES ASSUME NEW i \in 1..n PROVE body[i] = eng.gave + i
        OBVIOUS
      <4> DEFINE j == eng.gave + i
      <4>1. j \in 1..Len(eng.took) /\ 0 + j = j
        BY <1>1, <2>1, <2>2
      <4>2. body[i] = eng.took[j]
        BY <2>3
      <4> HIDE DEF j
      <4>3. body[i] = j
        BY <3>1, <4>1, <4>2
      <4> QED
        BY <4>3 DEF j
    <3>3. DOMAIN body = 1..n
      BY <2>3
    <3> QED
      BY <3>2, <3>3 DEF Run
  <2>6. check_header(sv.seq, "daemon", [kind |-> "data", len |-> n])
    BY <1>4, <2>3, <2>4 DEF Acceptable
  <2>7. /\ ~sv.seq.ended["daemon"] /\ sv.seq.frames["daemon"] < MaxFrames
        /\ n <= Limit("daemon") - sv.seq.bytes["daemon"] /\ n <= MaxData
    BY <2>6 DEF check_header
  <2>8. sv' = [sv EXCEPT !.out = e, !.started = FALSE, !.seq = t]
    BY <1>1, <1>4
  <2> HIDE DEF f
  <2>9. Accepted(sv.seq, "daemon", f, t)
    BY <1>2, <2>3, <2>4, Accepts
  <2> HIDE DEF t
  <2>10. /\ t \in Tallies /\ t.opened /\ ~t.term
         /\ \A x \in Sides : t.ended[x] <=> sv.seq.ended[x]
         /\ t.bytes["agent"] = sv.seq.bytes["agent"] + 0
         /\ t.frames["agent"] = sv.seq.frames["agent"] + 0
         /\ t.bytes["daemon"] = sv.seq.bytes["daemon"] + n
         /\ t.frames["daemon"] = sv.seq.frames["daemon"] + 1
    BY <1>2, <2>3, <2>4, <2>9 DEF Accepted
  <2>11. t.bytes["agent"] = sv.seq.bytes["agent"] /\ t.frames["agent"] = sv.seq.frames["agent"]
    BY <1>2, <2>10
  <2>12. PICK m \in Cursors : DnThrough(m)
    BY DEF IInv, Flow, DnFlow
  <2>13. /\ Boundary(m) /\ m.res = NoTerminal /\ m.opened /\ ~m.ended
         /\ m.bytes = sv.seq.bytes["daemon"] /\ m.frames = sv.seq.frames["daemon"]
         /\ m.bytes = eng.gave
    <3>1. m = DaemonGoal /\ m.bytes = eng.gave
      BY <1>1, <2>12, BetweenFrames
    <3> QED
      BY <1>1, <1>2, <2>7, <3>1, Goals DEF IInv
  <2> DEFINE r == [m EXCEPT !.bytes = @ + Len(body), !.frames = @ + 1]
  <2>14. e \in Seq(Pieces) /\ Chain("daemon", e, m, r)
    <3>1. MayHead("daemon", m, "data", Len(body))
      BY <1>1, <2>3, <2>7, <2>13 DEF MayHead, Kinds
    <3>2. "data" \in Kinds
      BY DEF Kinds
    <3> QED
      BY <2>3, <2>5, <2>13, <3>1, <3>2, DataChain, Encoded
  <2>15. /\ r \in Cursors /\ r.opened = m.opened /\ r.ended = m.ended /\ r.res = m.res
         /\ r.bytes = m.bytes + n /\ r.frames = m.frames + 1 /\ r.part = m.part
         /\ r.head = m.head /\ r.cnt = m.cnt
    <3>1. m.bytes \in Nat /\ m.frames \in Nat
      BY DEF Cursors
    <3>2. r = [m EXCEPT !.bytes = m.bytes + n, !.frames = m.frames + 1]
      BY <2>3
    <3>3. m.bytes + n \in Nat /\ m.frames + 1 \in Nat
      BY <1>1, <3>1
    <3> HIDE DEF r
    <3> QED
      BY <3>2, <3>3 DEF Cursors
  <2> HIDE DEF e, r
  <2>16. r = [CursorOf(t, "daemon", NewDecoder) EXCEPT !.opened = TRUE]
    <3>1. Boundary(r) /\ r.opened /\ r.res = NoTerminal /\ r.bytes = t.bytes["daemon"]
          /\ r.frames = t.frames["daemon"]
      BY <2>10, <2>13, <2>15 DEF Boundary
    <3>2. r.ended <=> t.ended["daemon"]
      BY <1>2, <2>7, <2>10, <2>13, <2>15
    <3> QED
      BY <1>1, <2>10, <2>15, <3>1, <3>2, NextGoal
  <2>17. /\ ~eng.endOut /\ t.bytes["daemon"] <= Len(eng.took) /\ t.bytes["daemon"] <= eng.cut
         /\ ~t.ended["daemon"]
    BY <1>1, <1>2, <2>2, <2>7, <2>10, <2>13 DEF IInv, DaemonBooks
  <2> QED
    BY <1>1, <1>2, <2>8, <2>10, <2>11, <2>12, <2>14, <2>16, <2>17, DaemonBegins
<1> QED
  BY <1>3, <1>4

\* A piece of the daemon's goes out: the cursors before and after it.
LEMMA DaemonWrites ==
    ASSUME IInv, UNCHANGED cl, Serving, S_Writes, NEW m \in Cursors, DnThrough(m), NEW r,
           Chain("daemon", sv.out, m, r)
    PROVE  /\ dn' \in Seq(Pieces) /\ dn' # << >> /\ Tail(sv.out) \in Seq(Pieces)
           /\ Len(sv.out) = 1 <=> Tail(sv.out) = << >>
           /\ \E s \in Cursors :
                 /\ Step("daemon", m, sv.out[1], s) /\ Chain("daemon", Tail(sv.out), s, r)
                 /\ Live => Chain("daemon", FramesAhead', CursorOf(cl.seq, "daemon", cl.dec), s)
                 /\ Pos(s) <= Pos(r) /\ (s.res # NoTerminal => r = s)
<1> DEFINE p == sv.out[1]
           w == Tail(sv.out)
<1>1. sv.out # << >> /\ dn' = Append(dn, p) /\ sv.out \in Seq(Pieces)
  BY DEF S_Writes, IInv, TypeOK, Servers
<1>2. p \in Pieces /\ w \in Seq(Pieces)
  BY <1>1
<1>3. Len(sv.out) = 1 <=> w = << >>
  <2>1. Len(w) = Len(sv.out) - 1 /\ Len(sv.out) \in Nat
    BY <1>1
  <2>2. w = << >> <=> Len(w) = 0
    BY <1>2, EmptySeq
  <2> QED
    BY <2>1, <2>2
<1>4. PICK s \in Cursors : Step("daemon", m, p, s) /\ Chain("daemon", w, s, r)
  BY <1>1, ChainFirst
<1>5. Pos(s) <= Pos(r) /\ (s.res # NoTerminal => r = s)
  BY <1>2, <1>4, ChainEnds, ChainOver
<1>6. /\ dn' \in Seq(Pieces) /\ dn' # << >> /\ FramesAhead \in Seq(Pieces)
      /\ FramesAhead' = Append(FramesAhead, p) \/ ~Live
  BY <1>1, <1>2, WireGrows
<1>7. Live => Chain("daemon", FramesAhead', CursorOf(cl.seq, "daemon", cl.dec), s)
  <2>1. Live => Chain("daemon", FramesAhead, CursorOf(cl.seq, "daemon", cl.dec), m)
    BY DEF DnThrough
  <2> QED
    BY <1>2, <1>4, <1>6, <2>1, ChainMore
<1> QED
  BY <1>2, <1>3, <1>4, <1>5, <1>6, <1>7

\* header and payload of the frame under way.
LEMMA ServerWriteKeeps ==
    ASSUME IInv, S_Write
    PROVE  IInv'
<1> DEFINE p == sv.out[1]
           w == Tail(sv.out)
           g == DaemonGoal
           b == IF p.t = "load" THEN eng.gave + 1 ELSE eng.gave
           o == eng.endOut \/ (Len(sv.out) = 1 /\ p.t = "head")
<1>1. /\ Attached /\ S_Writes /\ UNCHANGED <<up, cl>> /\ sv.out # << >>
      /\ eng' = [eng EXCEPT !.gave = b, !.endOut = o]
      /\ sv' = [sv EXCEPT !.out = w, !.started = TRUE]
  BY DEF S_Write, S_Writes
<1>2. PICK n \in Cursors : UpThrough(n)
  BY DEF IInv, Flow, UpFlow
<1>3. /\ sv.pc = "relay" /\ ~sv.retired /\ sv.failed = "no" /\ Reading /\ Working /\ Serving
      /\ sv.seq.opened /\ ~sv.seq.term /\ eng.term = NoTerminal
  BY <1>1, <1>2, ReadingFacts DEF Working, Serving
<1>4. /\ sv \in Servers /\ eng \in Engines /\ up \in Seq(Pieces) /\ eng.gave \in Nat /\ eng.cut \in Nat
      /\ Len(eng.took) \in Nat /\ sv.seq.bytes["daemon"] \in Nat
  BY DEF IInv, TypeOK, Servers, Engines, Tallies, Sides
<1>5. PICK m \in Cursors : DnThrough(m)
  BY DEF IInv, Flow, DnFlow
<1>6. Chain("daemon", sv.out, m, g) /\ Pos(m) = eng.gave /\ m.opened
  BY <1>3, <1>5 DEF DnThrough
<1>7. /\ g \in Cursors /\ Boundary(g) /\ g.res = NoTerminal /\ (g.ended <=> sv.seq.ended["daemon"])
      /\ Pos(g) = sv.seq.bytes["daemon"]
  BY Goals DEF IInv
<1>8. /\ dn' \in Seq(Pieces) /\ dn' # << >> /\ w \in Seq(Pieces) /\ (Len(sv.out) = 1 <=> w = << >>)
      /\ \E s \in Cursors :
                 /\ Step("daemon", m, p, s) /\ Chain("daemon", w, s, g)
                 /\ Live => Chain("daemon", FramesAhead', CursorOf(cl.seq, "daemon", cl.dec), s)
                 /\ Pos(s) <= Pos(g) /\ (s.res # NoTerminal => g = s)
  BY <1>1, <1>3, <1>5, <1>6, DaemonWrites
<1>9. PICK s \in Cursors :
                 /\ Step("daemon", m, p, s) /\ Chain("daemon", w, s, g)
                 /\ Live => Chain("daemon", FramesAhead', CursorOf(cl.seq, "daemon", cl.dec), s)
                 /\ Pos(s) <= Pos(g) /\ (s.res # NoTerminal => g = s)
  BY <1>8
<1> HIDE DEF p, w, g
<1>10. s.res = NoTerminal /\ s.opened
  BY <1>6, <1>7, <1>9, StaysOpened
<1>11. ~OpenedStep("daemon", m, p, s) /\ ~TerminalStep("daemon", m, p, s)
  <2>1. ~OpenedStep("daemon", m, p, s)
    BY <1>6 DEF OpenedStep, MayHead
  <2>2. ~TerminalStep("daemon", m, p, s)
    BY <1>10 DEF TerminalStep, Closes, Fresh, Cursors
  <2> QED
    BY <2>1, <2>2
<1>12. Pos(s) = b
  <2>1. (p.t = "load" <=> DataStep("daemon", m, p, s))
        /\ Pos(s) = (IF DataStep("daemon", m, p, s) THEN Pos(m) + 1 ELSE Pos(m))
    BY <1>9, <1>11, StepPos
  <2> QED
    BY <1>6, <2>1
<1>13. b \in Nat /\ eng.gave <= b /\ b <= sv.seq.bytes["daemon"]
  BY <1>4, <1>7, <1>9, <1>12
<1>14. o \in BOOLEAN
  BY <1>4 DEF Engines
<1>15. o => sv.seq.ended["daemon"] /\ w = << >>
  <2> SUFFICES ASSUME o PROVE sv.seq.ended["daemon"] /\ w = << >>
    OBVIOUS
  <2>1. ~eng.endOut
    BY <1>1, <1>3 DEF IInv, DaemonBooks
  <2>2. w = << >> /\ p.t = "head"
    BY <1>8, <2>1
  <2>3. s = g
    <3>1. Chain("daemon", << >>, s, g)
      BY <1>9, <2>2
    <3> QED
      BY <3>1, ChainNone
  <2>4. s.ended
    BY <1>7, <1>9, <1>11, <2>2, <2>3, StepBoundary
  <2> QED
    BY <1>7, <2>2, <2>3, <2>4
<1> HIDE DEF b, o
<1>16. /\ eng' \in Engines /\ eng'.took = eng.took /\ eng'.gave = b /\ eng'.cut = eng.cut
       /\ eng'.endIn = eng.endIn /\ (eng'.endOut <=> o) /\ eng'.term = eng.term
  BY <1>1, <1>4, <1>13, <1>14 DEF Engines
<1>17. /\ sv' \in Servers /\ sv'.pc = sv.pc /\ sv'.seq = sv.seq /\ sv'.dec = sv.dec
       /\ sv'.pend = sv.pend /\ sv'.out = w /\ sv'.started = TRUE /\ sv'.failed = sv.failed
       /\ sv'.retired = sv.retired
  BY <1>1, <1>4, <1>8 DEF Servers
<1>18. (Live' <=> Live) /\ Working' /\ Reading'
  BY <1>1, <1>3, <1>17 DEF Live, Working, Reading
<1>19. UpFlow'
  <2>1. UpThrough(n)'
    BY <1>1, <1>2, <1>3, <1>17, <1>18 DEF UpThrough, AgentGoal
  <2> QED
    BY <2>1 DEF UpFlow
<1>20. DnFlow'
  <2>1. DaemonGoal' = g
    BY <1>17 DEF g, DaemonGoal
  <2>2. Pos(s) <= eng'.gave
    BY <1>12, <1>13, <1>16
  <2>3. DnThrough(s)'
    BY <1>1, <1>3, <1>9, <1>10, <1>12, <1>16, <1>17, <1>18, <2>1, <2>2 DEF DnThrough
  <2> QED
    BY <2>3 DEF DnFlow
<1>21. DaemonBooks'
  <2>1. /\ sv.seq.bytes["daemon"] <= Len(eng.took) /\ sv.seq.bytes["daemon"] <= eng.cut
        /\ sv.seq.ended["daemon"] => eng.gave = eng.cut
    BY <1>3 DEF IInv, DaemonBooks
  <2>2. /\ b <= Len(eng.took) /\ b <= eng.cut
        /\ sv.seq.ended["daemon"] => b = eng.cut
    BY <1>4, <1>13, <2>1
  <2> QED
    BY <1>1, <1>3, <1>15, <1>16, <1>17, <1>18, <2>2 DEF IInv, DaemonBooks
<1>22. Reports'
  BY <1>3, <1>16, <1>17, Beginnings DEF IInv, Reports
<1>23. Len(eng.took) <= Len(eng'.took) /\ (Live => Len(eng'.took) <= cl.sent)
  <2>1. Live => Len(eng.took) <= cl.sent
    BY DEF IInv, AgentBooks
  <2>2. \A x \in Nat : x <= x
    OBVIOUS
  <2> QED
    BY <1>4, <1>16, <2>1, <2>2
<1> QED
  BY <1>1, <1>3, <1>4, <1>8, <1>16, <1>17, <1>19, <1>20, <1>21, <1>22, <1>23,
       DaemonOnly

-----------------------------------------------------------------------------
(* The end of the stream *)

\* The engine's result.
LEMMA EndedKeeps ==
    ASSUME IInv, E_Complete \/ \E k \in 0..Len(eng.took) : E_Abort(k)
    PROVE  IInv'
<1>1. /\ sv \in Servers /\ eng \in Engines /\ up \in Seq(Pieces) /\ dn \in Seq(Pieces)
      /\ Len(eng.took) \in Nat /\ eng.gave \in Nat
  BY DEF IInv, TypeOK, Engines
<1>2. PICK v \in Results :
         /\ Ended(v) /\ UNCHANGED <<up, dn, cl>> /\ sv.pc = "relay" /\ ~sv.retired
         /\ v.state \in {"completed", "unknown"} /\ v.received = eng.gave /\ v.sent <= Len(eng.took)
         /\ v.state = "completed" => eng.endIn /\ eng.endOut /\ v.sent = Len(eng.took)
  <2>1. CASE E_Complete
    <3> DEFINE v == [state |-> "completed", sent |-> Len(eng.took), received |-> eng.gave]
    <3>1. v \in Results /\ v.state = "completed" /\ v.received = eng.gave /\ v.sent = Len(eng.took)
      BY <1>1 DEF Results, States
    <3>2. Ended(v) /\ UNCHANGED <<up, dn, cl>> /\ Attached /\ eng.endIn /\ eng.endOut
      BY <2>1 DEF E_Complete
    <3> HIDE DEF v
    <3>3. v.sent <= Len(eng.took)
      BY <1>1, <3>1
    <3> QED
      BY <3>1, <3>2, <3>3 DEF Attached
  <2>2. CASE \E k \in 0..Len(eng.took) : E_Abort(k)
    <3>1. PICK k \in 0..Len(eng.took) : E_Abort(k)
      BY <2>2
    <3> DEFINE v == [state |-> "unknown", sent |-> k, received |-> eng.gave]
    <3>2. v \in Results /\ v.state = "unknown" /\ v.received = eng.gave /\ v.sent <= Len(eng.took)
      BY <1>1 DEF Results, States
    <3>3. Ended(v) /\ UNCHANGED <<up, dn, cl>> /\ sv.pc = "relay" /\ ~sv.retired
      BY <3>1 DEF E_Abort
    <3> HIDE DEF v
    <3> QED
      BY <3>2, <3>3
  <2> QED
    BY <2>1, <2>2
<1>3. /\ eng' \in Engines /\ eng'.took = eng.took /\ eng'.gave = eng.gave /\ eng'.cut = eng.cut
      /\ eng'.endIn = eng.endIn /\ eng'.endOut = eng.endOut /\ eng'.term = v
  BY <1>1, <1>2 DEF Ended, Engines
<1>4. /\ sv' \in Servers /\ sv'.pc = "relay" /\ sv'.retired /\ sv'.seq = sv.seq /\ sv'.out = sv.out
      /\ sv'.started = sv.started /\ sv'.failed = sv.failed
  <2>1. << >> \in Seq(Values) /\ NewDecoder \in Decoders
    BY Beginnings
  <2>2. sv' = [sv EXCEPT !.retired = TRUE, !.pend = << >>, !.dec = NewDecoder]
    BY <1>2 DEF Ended
  <2> QED
    BY <1>1, <1>2, <2>1, <2>2 DEF Servers
<1>5. eng.term = NoTerminal /\ sv.seq.opened /\ ~sv.seq.term
  BY <1>2 DEF IInv, Reports, Opens
<1>6. (Live' <=> Live) /\ Working /\ Working' /\ ~Reading'
  BY <1>2, <1>4 DEF Live, Working, Reading
<1>7. UpFlow'
  <2>1. PICK n \in Cursors : UpThrough(n)
    BY DEF IInv, Flow, UpFlow
  <2>2. UpThrough(n)'
    BY <1>2, <1>6, <2>1 DEF UpThrough, AgentGoal
  <2> QED
    BY <2>2 DEF UpFlow
<1>8. DnFlow'
  <2>1. PICK m \in Cursors : DnThrough(m)
    BY DEF IInv, Flow, DnFlow
  <2>2. m.res = NoTerminal
    BY <1>5, <2>1 DEF DnThrough
  <2>3. DnThrough(m)'
    BY <1>2, <1>3, <1>4, <1>6, <2>1, <2>2 DEF DnThrough, DaemonGoal, FramesAhead
  <2> QED
    BY <2>3 DEF DnFlow
<1>9. DaemonBooks'
  BY <1>2, <1>3, <1>4, <1>6 DEF IInv, DaemonBooks
<1>10. Reports'
  <2>1. eng.endOut => eng.gave = eng.cut
    BY <1>2 DEF IInv, DaemonBooks
  <2> QED
    BY <1>2, <1>3, <1>4, <2>1 DEF Reports
<1>11. Len(eng.took) <= Len(eng'.took) /\ (Live => Len(eng'.took) <= cl.sent)
  <2>1. Live => Len(eng.took) <= cl.sent
    BY DEF IInv, AgentBooks
  <2>2. \A x \in Nat : x <= x
    OBVIOUS
  <2> QED
    BY <1>1, <1>3, <2>1, <2>2
<1> QED
  BY <1>1, <1>2, <1>3, <1>4, <1>5, <1>7, <1>8, <1>9, <1>10, <1>11, DaemonOnly

\* The daemon's side ends and has written what m has read.
LEMMA ServerLeaves ==
    ASSUME IInv, Serving, sv' = ServerEnds, UNCHANGED <<up, dn, cl, eng>>
    PROVE  IInv'
<1>1. PICK m \in Cursors : DnThrough(m)
  BY DEF IInv, Flow, DnFlow
<1>2. /\ cl.pc # "idle" /\ sv.pc # "done" /\ up' \in Seq(Pieces) /\ dn' \in Seq(Pieces)
      /\ FramesAhead' = FramesAhead /\ SameEngine
  BY DEF IInv, Opens, NewServer, TypeOK, FramesAhead, Serving, SameEngine
<1>3. /\ Live => Chain("daemon", FramesAhead', CursorOf(cl.seq, "daemon", cl.dec), m)
      /\ m.res \in {NoTerminal, eng.term} /\ Pos(m) <= eng.gave
  BY <1>1, <1>2 DEF DnThrough
<1> QED
  BY <1>2, <1>3, ServerGone

\* Control::finish: the terminal result follows a whole frame or nothing.
LEMMA FinishKeeps ==
    ASSUME IInv, S_Finish
    PROVE  IInv'
<1> DEFINE f == [kind |-> "terminal", body |-> <<eng.term>>]
           t == accept(sv.seq, "daemon", f)
           e == encode("terminal", <<eng.term>>)
<1>1. /\ sv.pc = "relay" /\ sv.retired /\ UNCHANGED <<up, dn, cl, eng>> /\ Serving /\ Working
      /\ sv' = IF MayFinish /\ Acceptable(sv.seq, "daemon", f)
                 THEN [sv EXCEPT !.pc = "final", !.out = e, !.seq = t]
                 ELSE ServerEnds
  BY DEF S_Finish, Serving, Working
<1>2. CASE ~(MayFinish /\ Acceptable(sv.seq, "daemon", f))
  <2>1. sv' = ServerEnds
    BY <1>1, <1>2
  <2> QED
    BY <1>1, <2>1, ServerLeaves
<1>3. CASE MayFinish /\ Acceptable(sv.seq, "daemon", f)
  <2>1. /\ sv \in Servers /\ eng \in Engines /\ up \in Seq(Pieces) /\ dn \in Seq(Pieces)
        /\ eng.term \in Results /\ Len(eng.took) \in Nat /\ eng.gave \in Nat /\ sv.seq \in Tallies
        /\ "daemon" \in Sides /\ sv.out \in Seq(Pieces)
    BY DEF IInv, TypeOK, Engines, Servers, Sides
  <2>2. f.kind = "terminal" /\ f.kind \in Kinds \ {"none"} /\ f.body \in Seq(Values)
    <3>1. eng.term \in Values
      BY <2>1 DEF Values
    <3>2. <<eng.term>> \in Seq(Values)
      BY <3>1
    <3> QED
      BY <3>2 DEF Kinds
  <2>3. e \in Seq(Pieces)
    <3>1. "terminal" \in Kinds /\ <<eng.term>> \in Seq(Values)
      BY <2>2 DEF Kinds
    <3> QED
      BY <3>1, Encoded
  <2>4. sv' = [sv EXCEPT !.pc = "final", !.out = e, !.seq = t]
    BY <1>1, <1>3
  <2> HIDE DEF f
  <2>5. t \in Tallies
    <3>1. Accepted(sv.seq, "daemon", f, t)
      BY <2>1, <2>2, Accepts
    <3> QED
      BY <3>1 DEF Accepted
  <2> HIDE DEF t
  <2>6. PICK m \in Cursors : DnThrough(m)
    BY DEF IInv, Flow, DnFlow
  <2>7. /\ Chain("daemon", sv.out, m, DaemonGoal) /\ Pos(m) = eng.gave /\ m.opened
        /\ sv.out # << >> /\ ~sv.started => Boundary(m)
    BY <1>1, <2>6 DEF DnThrough
  <2>8. /\ DaemonGoal.res = NoTerminal /\ Boundary(DaemonGoal)
        /\ DaemonGoal.ended <=> sv.seq.ended["daemon"]
    BY Goals DEF IInv
  <2>9. m.res = NoTerminal
    BY <2>1, <2>7, <2>8, NoResultYet
  <2>10. sv.out = << >> => m = DaemonGoal
    BY <1>1, <2>6, BetweenFrames
  <2>11. Boundary(m)
    BY <1>3, <2>7, <2>8, <2>10 DEF MayFinish
  <2>12. m.bytes = eng.gave
    BY <2>7, <2>11 DEF Pos, Boundary, Cursors
  <2>13. /\ eng.term.state \in {"completed", "unknown"} /\ eng.term.received = eng.gave
         /\ eng.term.state = "completed" => eng.endOut
    BY <1>1 DEF IInv, Reports
  <2>14. eng.term.state = "completed" => m.ended
    <3> SUFFICES ASSUME eng.term.state = "completed" PROVE m.ended
      OBVIOUS
    <3>1. sv.out = << >>
      BY <1>3 DEF MayFinish
    <3>2. sv.seq.ended["daemon"]
      BY <1>1, <2>13 DEF IInv, DaemonBooks
    <3> QED
      BY <2>8, <2>10, <3>1, <3>2
  <2> DEFINE v == eng.term
             r == [m EXCEPT !.res = v]
  <2>15. v \in Results /\ r \in Cursors /\ r.res = v /\ r.bytes = m.bytes /\ r.cnt = m.cnt
    BY <2>1 DEF Cursors
  <2>16. Chain("daemon", e, m, r)
    <3>1. MayHead("daemon", m, "terminal", 1)
      BY DEF MayHead, Kinds
    <3>2. Closes(m, v)
      <4>1. v # NoTerminal
        BY <2>13, Beginnings
      <4>2. v.received <= m.bytes
        BY <2>1, <2>12, <2>13
      <4> QED
        BY <2>7, <2>12, <2>13, <2>14, <4>1, <4>2 DEF Closes
    <3>3. v \in Values
      BY <2>1 DEF Values
    <3> HIDE DEF v
    <3>4. Chain("daemon", encode("terminal", <<v>>), m, r)
      BY <2>9, <2>11, <2>15, <3>1, <3>2, <3>3, ControlChain
    <3> QED
      BY <3>4 DEF v
  <2> HIDE DEF e, r
  <2>17. /\ sv' \in Servers /\ sv'.pc = "final" /\ sv'.out = e /\ sv'.failed = sv.failed
    BY <2>1, <2>3, <2>4, <2>5 DEF Servers
  <2>18. (Live' <=> Live) /\ ~Working' /\ ~Reading'
    BY <1>1, <2>17 DEF Live, Working, Reading
  <2>19. UpFlow'
    <3>1. PICK n \in Cursors : UpThrough(n)
      BY DEF IInv, Flow, UpFlow
    <3>2. UpThrough(n)'
      BY <1>1, <2>18, <3>1 DEF UpThrough, AgentGoal
    <3> QED
      BY <3>2 DEF UpFlow
  <2>20. DnFlow'
    <3>1. Pos(r) <= eng.gave /\ Pos(m) <= eng.gave
      BY <2>1, <2>7, <2>15 DEF Pos
    <3>2. \E x \in Cursors : /\ Chain("daemon", sv'.out, m, x) /\ x.res \in {NoTerminal, eng'.term}
                             /\ Pos(x) <= eng'.gave
      BY <1>1, <2>15, <2>16, <2>17, <3>1
    <3>3. DnThrough(m)'
      BY <1>1, <2>6, <2>9, <2>17, <2>18, <3>1, <3>2 DEF DnThrough, FramesAhead
    <3> QED
      BY <3>3 DEF DnFlow
  <2>21. DaemonBooks' /\ Reports'
    BY <1>1, <2>17, <2>18 DEF IInv, DaemonBooks, Reports
  <2>22. Len(eng.took) <= Len(eng.took) /\ (Live => Len(eng.took) <= cl.sent)
    <3>1. Live => Len(eng.took) <= cl.sent
      BY DEF IInv, AgentBooks
    <3>2. \A x \in Nat : x <= x
      OBVIOUS
    <3> QED
      BY <2>1, <3>1, <3>2
  <2> QED
    BY <1>1, <2>1, <2>17, <2>19, <2>20, <2>21, <2>22, DaemonOnly
<1> QED
  BY <1>2, <1>3

\* The terminal result goes out, unless the agent is gone.
LEMMA WriteFinalKeeps ==
    ASSUME IInv, S_WriteFinal
    PROVE  IInv'
<1> DEFINE w == Tail(sv.out)
<1>1. /\ sv.pc = "final" /\ UNCHANGED <<up, cl, eng>> /\ Serving
      /\ \/ S_Writes /\ sv' = IF Len(sv.out) = 1 THEN ServerEnds ELSE [sv EXCEPT !.out = w]
         \/ sv' = ServerEnds /\ UNCHANGED dn
  BY DEF S_WriteFinal, Serving
<1>2. CASE sv' = ServerEnds /\ UNCHANGED dn
  BY <1>1, <1>2, ServerLeaves
<1>3. CASE S_Writes /\ sv' = IF Len(sv.out) = 1 THEN ServerEnds ELSE [sv EXCEPT !.out = w]
  <2>1. PICK m \in Cursors : DnThrough(m)
    BY DEF IInv, Flow, DnFlow
  <2>2. PICK r \in Cursors : /\ Chain("daemon", sv.out, m, r) /\ r.res \in {NoTerminal, eng.term}
                             /\ Pos(r) <= eng.gave
    BY <1>1, <2>1 DEF DnThrough
  <2>3. /\ dn' \in Seq(Pieces) /\ dn' # << >> /\ w \in Seq(Pieces)
        /\ \E s \in Cursors :
              /\ Chain("daemon", w, s, r)
              /\ Live => Chain("daemon", FramesAhead', CursorOf(cl.seq, "daemon", cl.dec), s)
              /\ Pos(s) <= Pos(r) /\ (s.res # NoTerminal => r = s)
    BY <1>1, <1>3, <2>1, <2>2, DaemonWrites
  <2>4. PICK s \in Cursors :
              /\ Chain("daemon", w, s, r)
              /\ Live => Chain("daemon", FramesAhead', CursorOf(cl.seq, "daemon", cl.dec), s)
              /\ Pos(s) <= Pos(r) /\ (s.res # NoTerminal => r = s)
    BY <2>3
  <2>5. /\ sv \in Servers /\ eng \in Engines /\ up \in Seq(Pieces) /\ cl.pc # "idle"
        /\ eng.gave \in Nat /\ Len(eng.took) \in Nat
    BY <1>1 DEF IInv, TypeOK, Engines, Opens, NewServer
  <2>6. s.res \in {NoTerminal, eng.term} /\ Pos(s) <= eng.gave
    <3>1. Pos(s) \in Nat /\ Pos(r) \in Nat
      BY DEF Pos, Cursors
    <3>2. Pos(s) <= eng.gave
      BY <2>2, <2>4, <2>5, <3>1
    <3> QED
      BY <2>2, <2>4, <3>2
  <2>7. CASE sv' = ServerEnds
    <3>1. SameEngine /\ up' \in Seq(Pieces)
      BY <1>1, <2>5 DEF SameEngine
    <3> QED
      BY <1>1, <2>3, <2>4, <2>5, <2>6, <2>7, <3>1, ServerGone
  <2>8. CASE sv' = [sv EXCEPT !.out = w]
    <3>1. /\ sv' \in Servers /\ sv'.pc = "final" /\ sv'.out = w /\ sv'.failed = sv.failed
      BY <1>1, <2>3, <2>5, <2>8 DEF Servers
    <3>2. (Live' <=> Live) /\ ~Working' /\ ~Reading'
      BY <1>1, <3>1 DEF Live, Working, Reading
    <3>3. UpFlow'
      <4>1. PICK n \in Cursors : UpThrough(n)
        BY DEF IInv, Flow, UpFlow
      <4>2. UpThrough(n)'
        BY <1>1, <3>2, <4>1 DEF UpThrough, AgentGoal
      <4> QED
        BY <4>2 DEF UpFlow
    <3>4. DnFlow'
      <4>1. \E x \in Cursors : /\ Chain("daemon", sv'.out, s, x) /\ x.res \in {NoTerminal, eng'.term}
                               /\ Pos(x) <= eng'.gave
        BY <1>1, <2>2, <2>4, <3>1
      <4>2. DnThrough(s)'
        BY <1>1, <2>4, <2>6, <3>1, <3>2, <4>1 DEF DnThrough
      <4> QED
        BY <4>2 DEF DnFlow
    <3>5. DaemonBooks' /\ Reports'
      BY <1>1, <3>1, <3>2 DEF IInv, DaemonBooks, Reports
    <3>6. Len(eng.took) <= Len(eng.took) /\ (Live => Len(eng.took) <= cl.sent)
      <4>1. Live => Len(eng.took) <= cl.sent
        BY DEF IInv, AgentBooks
      <4>2. \A x \in Nat : x <= x
        OBVIOUS
      <4> QED
        BY <2>5, <4>1, <4>2
    <3> QED
      BY <1>1, <2>3, <2>5, <3>1, <3>3, <3>4, <3>5, <3>6, DaemonOnly
  <2> QED
    BY <1>3, <2>7, <2>8
<1> QED
  BY <1>1, <1>2, <1>3

-----------------------------------------------------------------------------
(* The theorems *)

\* Nobody has sent or read anything.
LEMMA Beginning == Init => IInv
<1> SUFFICES ASSUME Init PROVE IInv
  OBVIOUS
<1>1. /\ up = << >> /\ dn = << >> /\ cl = NewClient /\ sv = NewServer /\ eng = NewEngine
  BY DEF Init
<1>2. TypeOK
  BY <1>1, Newcomers DEF TypeOK
<1>3. /\ cl.pc = "idle" /\ cl.got = << >> /\ cl.result = NoTerminal
      /\ sv.pc = "prelude" /\ sv.seq = NewSequence /\ sv.dec = NewDecoder /\ sv.pend = << >>
      /\ sv.out = << >> /\ sv.failed = "no" /\ ~sv.retired
      /\ eng.took = << >> /\ eng.gave = 0 /\ ~eng.endIn /\ ~eng.endOut /\ eng.term = NoTerminal
  BY <1>1 DEF NewClient, NewServer, NewEngine
<1>4. ~Live /\ ~Working /\ ~Reading /\ ~Serving
  BY <1>3 DEF Live, Working, Reading, Serving
<1>5. Opens
  BY <1>1, <1>3, <1>4 DEF Opens, Untouched
<1>6. Flow
  <2> DEFINE m == CursorOf(NewSequence, "daemon", NewDecoder)
  <2>1. m \in Cursors /\ m.res = NoTerminal /\ m.bytes = 0 /\ m.cnt = 0
    BY Beginnings, CursorFields DEF Sides
  <2> HIDE DEF m
  <2>2. UpThrough(m)
    BY <1>4 DEF UpThrough
  <2>3. Pos(m) <= eng.gave
    BY <1>3, <2>1 DEF Pos
  <2>4. DnThrough(m)
    BY <1>3, <1>4, <2>1, <2>3 DEF DnThrough
  <2> QED
    BY <2>1, <2>2, <2>4 DEF Flow, UpFlow, DnFlow
<1>7. AgentBooks /\ DaemonBooks
  <2>1. Run(<< >>, 0) /\ Len(<< >>) = 0
    BY DEF Run
  <2>2. eng.cut \in Nat
    BY <1>2 DEF TypeOK, Engines
  <2> QED
    BY <1>3, <1>4, <2>1, <2>2 DEF AgentBooks, DaemonBooks
<1>8. Reports
  BY <1>3, Beginnings DEF Reports
<1>9. Verdicts
  BY <1>3, Beginnings DEF Verdicts, NoFalseAlarm, CompletedMeansAll
<1> QED
  BY <1>2, <1>5, <1>6, <1>7, <1>8, <1>9 DEF IInv

\* Every step of the agent, the daemon and the engine keeps the invariant.
LEMMA StepKeeps == IInv /\ [Next]_vars => IInv'
<1> SUFFICES ASSUME IInv, [Next]_vars PROVE IInv'
  OBVIOUS
<1>1. CASE ClientInput
  BY <1>1, DeliverKeeps, ReadKeeps, LossKeeps DEF ClientInput
<1>2. CASE ClientOutput
  BY <1>2, WriteKeeps, LossKeeps, TakeKeeps DEF ClientOutput
<1>3. CASE Opening
  BY <1>3, AskKeeps, AdmitKeeps, AnsweredKeeps, ConnectKeeps, QuitKeeps,
       WriteOpenedKeeps
     DEF Opening
<1>4. CASE ServerInput
  BY <1>4, GiveKeeps, GiveEndKeeps, ServerReadKeeps, LostKeeps DEF ServerInput
<1>5. CASE ServerOutput
  BY <1>5, BeginEndKeeps, ServerWriteKeeps, LostKeeps, BeginKeeps DEF ServerOutput
<1>6. CASE Finishing
  BY <1>6, EndedKeeps, FinishKeeps, WriteFinalKeeps DEF Finishing
<1>7. CASE EngineAborts
  BY <1>7, EndedKeeps DEF EngineAborts
<1>8. CASE S_Deadline \/ C_Stop
  BY <1>8, QuitKeeps, LossKeeps
<1>9. CASE UNCHANGED vars
  <2>1. UNCHANGED <<up, dn, cl, sv, eng>>
    BY <1>9 DEF vars
  <2>2. TypeOK' /\ AgentBooks' /\ DaemonBooks' /\ Reports'
    BY <2>1 DEF IInv, TypeOK, AgentBooks, DaemonBooks, Reports, Live
  <2>3. Opens'
    BY <2>1 DEF IInv, Opens, Untouched, Live, Serving
  <2>4. Verdicts'
    BY <2>1 DEF IInv, Verdicts, NoFalseAlarm, CompletedMeansAll
  <2>5. Flow'
    BY <2>1 DEF IInv, Flow, UpFlow, UpThrough, DnFlow, DnThrough, AgentGoal,
         DaemonGoal,
                FramesAhead, Live, Working, Reading
  <2> QED
    BY <2>2, <2>3, <2>4, <2>5 DEF IInv
<1> QED
  BY <1>1, <1>2, <1>3, <1>4, <1>5, <1>6, <1>7, <1>8, <1>9 DEF Next

\* The invariant holds throughout: the pieces in the socket always lead the
\* reader's Sequence and decoder to the writer's, frame by frame.
THEOREM FlowAlways == Spec => []IInv
<1>1. Init => IInv
  BY Beginning
<1>2. IInv /\ [Next]_vars => IInv'
  BY StepKeeps
<1> QED
  BY <1>1, <1>2, PTL DEF Spec

\* The state of both attachments, of the socket and of the engine stays within
\* its types: aap-types/stream's Sequence and Decoder, aap-client/stream's and
\* aap-http/stream's state.
THEOREM FramingTypes == Spec => []TypeOK
<1>1. IInv => TypeOK
  BY DEF IInv
<1> QED
  BY <1>1, FlowAlways, PTL

\* Neither side refuses a frame of the other: Sequence and Decoder accept each
\* piece that an honest peer writes, watch_end never finds input after an END,
\* and the agent never disbelieves the daemon's terminal result.
THEOREM NoPeerAccused == Spec => []NoFalseAlarm
<1>1. IInv => NoFalseAlarm
  BY DEF IInv, Verdicts
<1> QED
  BY <1>1, FlowAlways, PTL

\* The bytes that the relay hands to the upstream are those of the agent's
\* application, in order and once, and those the application is given are what
\* the upstream had, however either side cut its frames.
THEOREM DeliveredInOrder == Spec => []BytesInOrder
<1>1. IInv => BytesInOrder
  <2> SUFFICES ASSUME IInv PROVE BytesInOrder
    OBVIOUS
  <2> DEFINE g == cl.got
             k == eng.took
             b == SubSeq(k, 1, Len(g))
  <2>1. g \in Seq(Values) /\ k \in Seq(Values) /\ Len(g) \in Nat /\ Len(k) \in Nat
    BY DEF IInv, TypeOK, Clients, Engines
  <2>2. Run(k, 0) /\ Run(g, 0) /\ Len(g) <= Len(k)
    BY DEF IInv, AgentBooks, DaemonBooks
  <2> HIDE DEF g, k
  <2>3. DOMAIN g = 1..Len(g) /\ DOMAIN k = 1..Len(k)
    BY <2>1
  <2>4. (\A i \in 1..Len(g) : g[i] = i) /\ \A i \in 1..Len(k) : k[i] = i
    BY <2>1, <2>2, <2>3 DEF Run
  <2>5. \A i \in 1..Len(g) : i \in 1..Len(k) /\ i \in Int /\ 1 + i - 1 = i
    BY <2>1, <2>2
  <2>6. g = b
    <3>1. \A i \in 1..Len(g) : k[i] \in Values
      BY <2>1, <2>5
    <3>2. /\ b \in Seq(Values) /\ Len(b) = (IF 1 <= Len(g) THEN Len(g) - 1 + 1 ELSE 0)
          /\ \A i \in 1..(Len(g) - 1 + 1) : b[i] = k[1 + i - 1]
      BY <2>1, <3>1, SubSeqProperties
    <3> HIDE DEF b
    <3>3. Len(g) - 1 + 1 = Len(g) /\ Len(b) = Len(g)
      BY <2>1, <3>2
    <3>4. \A i \in 1..Len(g) : b[i] = g[i]
      BY <2>4, <2>5, <3>2, <3>3
    <3> QED
      BY <2>1, <3>2, <3>3, <3>4, SeqEqual
  <2>7. Prefix(g, k)
    BY <2>2, <2>6 DEF Prefix
  <2> QED
    BY <2>3, <2>4, <2>7 DEF BytesInOrder, g, k
<1> QED
  BY <1>1, FlowAlways, PTL

\* A Completed result at the agent means that the upstream has all that the
\* application sent and the application all that the upstream sent, and that
\* the counts it carries are those.
THEOREM CompletedIsComplete == Spec => []CompletedMeansAll
<1>1. IInv => CompletedMeansAll
  BY DEF IInv, Verdicts
<1> QED
  BY <1>1, FlowAlways, PTL

-----------------------------------------------------------------------------
(* The relay *)

Books ==
    Running => \A d \in Directions :
        /\ written[d] <= filled[d] /\ filled[d] <= MaxChunk
        /\ admitted[d] = forwarded[d] + (filled[d] - written[d])

Phases ==
    /\ pc # "idle" => Running
    /\ pc = "read" => filled[turn] = 0 /\ written[turn] = 0
    /\ pc \in {"gate", "gated"} => filled[turn] = got /\ written[turn] = 0
    /\ pc = "wrote" => written[turn] > 0
    /\ Running => \A d \in Directions :
         written[d] = filled[d] => filled[d] = 0 \/ (pc = "wrote" /\ turn = d)

Records ==
    Running => \A d \in Directions :
        seen[d] = admitted[d] - (IF pc = "gate" /\ turn = d THEN got ELSE 0)

Ends ==
    /\ pc \in {"read", "gate", "gated"} => ~read_end[turn]
    /\ pc = "gated" /\ got = 0 => ended[turn]
    /\ pc = "shut" => read_end[turn]
    /\ \A d \in Directions :
         /\ write_end[d] => read_end[d]
         /\ read_end[d] => ended[d]
         /\ Running /\ read_end[d] => filled[d] = 0

Clocks ==
    /\ idleEnd = moved + Idle
    /\ Running => \A d \in Directions : Stuck(d) => since[d] + Idle \in stalled[d]

Loop == BytesBounded /\ ObservedFirst /\ OrderlyMeansDrained /\
        Books /\ Phases /\ Records /\ Ends

\* What Duplex::close leaves in the variables it writes.
LEMMA CloseTypes ==
    ASSUME RelayTypeOK, NEW why \in Causes, Close(why)
    PROVE  /\ outcome' \in [cause : Causes, sent : Nat, received : Nat]
           /\ filled' \in [Directions -> Nat] /\ written' \in [Directions -> Nat]
           /\ stalled' \in [Directions -> SUBSET Nat]
           /\ pc' = "idle" /\ awake' = FALSE
           /\ UNCHANGED <<admitted, forwarded, read_end, write_end, first, turn,
                          round, progress, got>>
<1>1. forwarded["out"] \in Nat /\ forwarded["in"] \in Nat
  BY DEF RelayTypeOK, Directions
<1>2. outcome' \in [cause : Causes, sent : Nat, received : Nat]
  BY <1>1 DEF Close
<1> QED
  BY <1>2 DEF Close

\* The causes the loop closes with are causes.
LEMMA CauseTypes ==
    /\ CheckCause \in Causes
    /\ \A d \in Directions : IoCauses(d) \subseteq Causes
    /\ \A why \in Causes : GateCause(why) \in Causes
BY DEF CheckCause, IoCauses, GateCause, Causes

\* Raising one flag of a family of flags.
LEMMA RaiseFlag ==
    ASSUME NEW D, NEW f \in [D -> BOOLEAN], NEW d \in D
    PROVE  [f EXCEPT ![d] = TRUE] \in [D -> BOOLEAN]
OBVIOUS

\* Every step keeps the variables in their types.
THEOREM RelayTypes == RelaySpec => []RelayTypeOK
<1> USE RelayAssumption DEF Directions
<1>1. RelayInit => RelayTypeOK
  <2> SUFFICES ASSUME RelayInit PROVE RelayTypeOK
    OBVIOUS
  <2>1. outcome \in [cause : Causes, sent : Nat, received : Nat]
    BY DEF RelayInit, Causes
  <2>2. timer \in SUBSET Nat /\ idleEnd \in Nat /\ round \in 1..MaxRounds /\ got \in 0..MaxChunk
    BY DEF RelayInit
  <2> QED
    BY <2>1, <2>2 DEF RelayInit, RelayTypeOK
<1>2. RelayTypeOK /\ [RelayNext]_relayVars => RelayTypeOK'
  <2> SUFFICES ASSUME RelayTypeOK, [RelayNext]_relayVars PROVE RelayTypeOK'
    OBVIOUS
  <2> USE DEF RelayTypeOK, NextTurn, Other, Rest, copyVars, loopVars,
              gateVars, historyVars
  <2>1. CASE Tick
    BY <2>1 DEF Tick
  <2>2. CASE Cancel
    BY <2>2 DEF Cancel
  <2>3. CASE IoReady
    BY <2>3 DEF IoReady
  <2>4. CASE Terminate
    <3>1. PICK why \in Causes : Close(why)
      <4>1. PICK why \in {"Timeout", "SessionEnded", "OrderlyEnd"} : Close(GateCause(why))
        BY <2>4 DEF Terminate
      <4>2. why \in Causes
        BY DEF Causes
      <4> QED
        BY <4>1, <4>2, CauseTypes
    <3> QED
      BY <2>4, <3>1, CloseTypes DEF Terminate
  <2>5. CASE PollStart
    <3>1. CASE Ok
      <4>1. /\ first' \in Directions /\ turn' \in Directions /\ round' \in 1..MaxRounds
            /\ progress' = FALSE /\ pc' = "step" /\ awake' = FALSE
            /\ UNCHANGED <<copyVars, outcome, got, now, token, Rest>>
        BY <2>5, <3>1 DEF PollStart
      <4> QED
        BY <4>1
    <3>2. CASE ~Ok
      BY <2>5, <3>2, CloseTypes, CauseTypes DEF PollStart
    <3> QED
      BY <3>1, <3>2
  <2>6. CASE StepStop
    BY <2>6, CloseTypes, CauseTypes DEF StepStop
  <2>7. CASE StepSkip
    BY <2>7 DEF StepSkip
  <2>8. CASE IoPending
    BY <2>8 DEF IoPending
  <2>9. CASE IoFails
    <3>1. PICK why \in Causes : Close(why)
      BY <2>9, CauseTypes DEF IoFails, Causes
    <3> QED
      BY <2>9, <3>1, CloseTypes DEF IoFails
  <2>10. CASE IoWrite
    BY <2>10 DEF IoWrite
  <2>11. CASE IoShutdown
    BY <2>11 DEF IoShutdown
  <2>12. CASE IoRead
    BY <2>12 DEF IoRead, ReadRoom, Remaining
  <2>13. CASE AfterWrite
    <3>1. CASE Ok
      BY <2>13, <3>1 DEF AfterWrite
    <3>2. CASE ~Ok
      BY <2>13, <3>2, CloseTypes, CauseTypes DEF AfterWrite
    <3> QED
      BY <3>1, <3>2
  <2>14. CASE AfterShutdown
    <3>1. CASE Ok
      <4>1. write_end' \in [Directions -> BOOLEAN]
        <5>1. write_end' = [write_end EXCEPT ![turn] = TRUE]
          BY <2>14, <3>1 DEF AfterShutdown
        <5> QED
          BY <5>1, RaiseFlag
      <4>3. stalled' \in [Directions -> SUBSET Nat]
        BY <2>14, <3>1 DEF AfterShutdown
      <4>4. turn' \in Directions /\ pc' \in {"step", "round"}
        BY <2>14, <3>1 DEF AfterShutdown
      <4>5. progress' \in BOOLEAN
        BY <2>14, <3>1 DEF AfterShutdown
      <4>2. UNCHANGED <<filled, written, admitted, forwarded, read_end, awake,
                        outcome, first, round, got, now, token, Rest>>
        BY <2>14, <3>1 DEF AfterShutdown
      <4> QED
        BY <4>1, <4>2, <4>3, <4>4, <4>5
    <3>2. CASE ~Ok
      BY <2>14, <3>2, CloseTypes, CauseTypes DEF AfterShutdown
    <3> QED
      BY <3>1, <3>2
  <2>15. CASE ReadStops
    BY <2>15, CloseTypes, CauseTypes DEF ReadStops, Causes
  <2>16. CASE ReadChunk
    BY <2>16 DEF ReadChunk
  <2>17. CASE ReadEnd
    BY <2>17 DEF ReadEnd
  <2>18. CASE GateAccepts
    BY <2>18 DEF GateAccepts
  <2>19. CASE GateRefuses
    <3>1. PICK why \in Causes : Close(why)
      BY <2>19, CauseTypes DEF GateRefuses
    <3> QED
      BY <2>19, <3>1, CloseTypes DEF GateRefuses
  <2>20. CASE AfterGate
    <3>1. CASE Ok
      <4>1. read_end' \in [Directions -> BOOLEAN]
        <5>1. CASE got > 0
          BY <2>20, <3>1, <5>1 DEF AfterGate
        <5>2. CASE ~(got > 0)
          <6>1. read_end' = [read_end EXCEPT ![turn] = TRUE]
            BY <2>20, <3>1, <5>2 DEF AfterGate
          <6> QED
            BY <6>1, RaiseFlag
        <5> QED
          BY <5>1, <5>2
      <4>4. stalled' \in [Directions -> SUBSET Nat] /\ since' \in [Directions -> Nat]
        BY <2>20, <3>1 DEF AfterGate
      <4>2. turn' \in Directions /\ progress' \in BOOLEAN /\ pc' \in {"step", "round"}
        BY <2>20, <3>1 DEF AfterGate
      <4>3. UNCHANGED <<filled, written, admitted, forwarded, write_end, awake,
                        outcome, first, round, got, now, token, idleEnd, timer,
                        gateVars, moved>>
        BY <2>20, <3>1 DEF AfterGate
      <4> QED
        BY <4>1, <4>2, <4>3, <4>4
    <3>2. CASE ~Ok
      BY <2>20, <3>2, CloseTypes, CauseTypes DEF AfterGate
    <3> QED
      BY <3>1, <3>2
  <2>21. CASE EndRound
    <3>1. Rearm \in SUBSET Nat
      BY DEF Rearm, Deadlines
    <3>2. \A why \in {"OrderlyEnd", "Timeout"} : why \in Causes
      BY DEF Causes
    <3>3. CASE Drained
      BY <2>21, <3>2, <3>3, CloseTypes DEF EndRound
    <3>4. CASE ~Drained /\ ~progress
      BY <2>21, <3>1, <3>2, <3>4, CloseTypes DEF EndRound
    <3>5. CASE ~Drained /\ progress
      <4>1. turn' \in Directions /\ round' \in 1..MaxRounds /\ pc' \in {"idle", "step"}
        <5>1. CASE Exhausted
          BY <2>21, <3>5, <5>1 DEF EndRound
        <5>2. CASE ~Exhausted
          BY <2>21, <3>5, <5>2 DEF EndRound, Exhausted
        <5> QED
          BY <5>1, <5>2
      <4>3. progress' \in BOOLEAN /\ awake' \in BOOLEAN
        <5>1. CASE Exhausted
          BY <2>21, <3>5, <5>1 DEF EndRound
        <5>2. CASE ~Exhausted
          BY <2>21, <3>5, <5>2 DEF EndRound
        <5> QED
          BY <5>1, <5>2
      <4>2. UNCHANGED <<copyVars, outcome, first, got, timer, now, token,
                        idleEnd, gateVars, historyVars>>
        BY <2>21, <3>5 DEF EndRound
      <4> QED
        BY <4>1, <4>2, <4>3
    <3> QED
      BY <3>3, <3>4, <3>5
  <2>22. CASE UNCHANGED relayVars
    BY <2>22 DEF relayVars
  <2> QED
    BY <2>1, <2>2, <2>3, <2>4, <2>5, <2>6, <2>7, <2>8, <2>9, <2>10, <2>11,
       <2>12, <2>13, <2>14, <2>15, <2>16, <2>17, <2>18, <2>19, <2>20, <2>21,
       <2>22 DEF RelayNext, Poll
<1> QED
  BY <1>1, <1>2, PTL DEF RelaySpec
-----------------------------------------------------------------------------
\* Closing keeps what the loop maintains: the counts stand, and only a loop
\* that has drained both directions may call its end orderly.
LEMMA CloseKeeps ==
    ASSUME RelayTypeOK, Loop, Running, NEW why \in Causes, Close(why), why # "None",
           why = "OrderlyEnd" => Drained /\ pc = "round", UNCHANGED gateVars
    PROVE  Loop'
<1> USE DEF Directions, RelayTypeOK
<1>1. ~Running' /\ outcome' = [cause |-> why, sent |-> forwarded["out"],
                              received |-> forwarded["in"]]
  BY DEF Close, Running
<1>2. pc' = "idle" /\ UNCHANGED <<admitted, forwarded, read_end, write_end, seen, ended>>
  BY DEF Close, gateVars
<1>3. BytesBounded' /\ ObservedFirst'
  BY <1>2 DEF Loop, BytesBounded, ObservedFirst
<1>4. OrderlyMeansDrained'
  <2> SUFFICES ASSUME why = "OrderlyEnd" PROVE OrderlyMeansDrained'
    BY <1>1 DEF OrderlyMeansDrained
  <2>1. Drained /\ pc = "round"
    OBVIOUS
  <2>2. \A d \in Directions : write_end[d] /\ read_end[d] /\ ended[d] /\ filled[d] = 0
    BY <2>1 DEF Loop, Ends, Drained
  <2>3. \A d \in Directions : forwarded[d] = admitted[d] /\ seen[d] = admitted[d]
    BY <2>1, <2>2 DEF Loop, Books, Records
  <2> QED
    BY <1>1, <1>2, <2>2, <2>3 DEF OrderlyMeansDrained
<1>5. Books' /\ Phases' /\ Records'
  BY <1>1, <1>2 DEF Books, Phases, Records
<1>6. Ends'
  BY <1>1, <1>2 DEF Loop, Ends
<1> QED
  BY <1>3, <1>4, <1>5, <1>6 DEF Loop

\* No cause of the loop's own checks and endpoints is an orderly end.
LEMMA Disorderly ==
    /\ CheckCause \in Causes /\ CheckCause \notin {"None", "OrderlyEnd"}
    /\ \A d \in Directions : \A why \in IoCauses(d) :
          why \in Causes /\ why \notin {"None", "OrderlyEnd"}
    /\ \A why \in Causes \ {"None"} :
          GateCause(why) \in Causes /\ GateCause(why) \notin {"None", "OrderlyEnd"}
    /\ {"LimitExceeded", "InternalError", "Timeout"} \subseteq Causes
BY DEF CheckCause, IoCauses, GateCause, Causes

\* The counts, the phases, the records and the ends of a relay hold together
\* at every step.
LEMMA LoopAlways == RelaySpec => []Loop
<1> USE RelayAssumption
<1>1. RelayInit => Loop
  BY DEF RelayInit, Loop, BytesBounded, ObservedFirst, OrderlyMeansDrained, Books,
         Phases, Records, Ends, Running, Directions
<1>2. RelayTypeOK /\ Loop /\ [RelayNext]_relayVars => Loop'
  <2> SUFFICES ASSUME RelayTypeOK, Loop, [RelayNext]_relayVars PROVE Loop'
    OBVIOUS
  <2> USE DEF Loop, RelayTypeOK, Running, Directions, NextTurn, Other, Rest, copyVars,
              loopVars, gateVars, historyVars
  <2>1. CASE Tick
    <3>1. BytesBounded' /\ Books'
      BY <2>1 DEF Tick, BytesBounded, Books
    <3>2. Phases'
      BY <2>1 DEF Tick, Phases, Books
    <3>3. ObservedFirst' /\ Records'
      BY <2>1 DEF Tick, ObservedFirst, Records, Phases, Books
    <3>4. Ends' /\ OrderlyMeansDrained'
      BY <2>1 DEF Tick, Ends, OrderlyMeansDrained, Phases
    <3> QED
      BY <3>1, <3>2, <3>3, <3>4
  <2>2. CASE Cancel
    <3>1. BytesBounded' /\ Books'
      BY <2>2 DEF Cancel, BytesBounded, Books
    <3>2. Phases'
      BY <2>2 DEF Cancel, Phases, Books
    <3>3. ObservedFirst' /\ Records'
      BY <2>2 DEF Cancel, ObservedFirst, Records, Phases, Books
    <3>4. Ends' /\ OrderlyMeansDrained'
      BY <2>2 DEF Cancel, Ends, OrderlyMeansDrained, Phases
    <3> QED
      BY <3>1, <3>2, <3>3, <3>4
  <2>3. CASE IoReady
    <3>1. BytesBounded' /\ Books'
      BY <2>3 DEF IoReady, BytesBounded, Books
    <3>2. Phases'
      BY <2>3 DEF IoReady, Phases, Books
    <3>3. ObservedFirst' /\ Records'
      BY <2>3 DEF IoReady, ObservedFirst, Records, Phases, Books
    <3>4. Ends' /\ OrderlyMeansDrained'
      BY <2>3 DEF IoReady, Ends, OrderlyMeansDrained, Phases
    <3> QED
      BY <3>1, <3>2, <3>3, <3>4
  <2>4. CASE Terminate
    <3>1. PICK why \in {"Timeout", "SessionEnded", "OrderlyEnd"} : Close(GateCause(why))
      BY <2>4 DEF Terminate
    <3>2. why \in Causes \ {"None"}
      BY DEF Causes
    <3> HIDE DEF Loop, RelayTypeOK
    <3> QED
      BY <2>4, <3>1, <3>2, CloseKeeps, Disorderly DEF Terminate
  <2>5. CASE PollStart
    <3>1. CASE Ok
      <4>1. BytesBounded' /\ Books'
        BY <2>5, <3>1 DEF PollStart, BytesBounded, Books, Phases
      <4>2. Phases'
        BY <2>5, <3>1 DEF PollStart, Phases, Books
      <4>3. ObservedFirst' /\ Records'
        BY <2>5, <3>1 DEF PollStart, ObservedFirst, Records, Phases, Books, Ends
      <4>4. Ends' /\ OrderlyMeansDrained'
        BY <2>5, <3>1 DEF PollStart, Ends, OrderlyMeansDrained, Phases, Books
      <4> QED
        BY <4>1, <4>2, <4>3, <4>4
    <3>2. CASE ~Ok
      BY <2>5, <3>2, CloseKeeps, Disorderly DEF PollStart, Rest, Phases
    <3> QED
      BY <3>1, <3>2
  <2>6. CASE StepStop
    BY <2>6, CloseKeeps, Disorderly DEF StepStop, Phases
  <2>7. CASE StepSkip
    <3>1. BytesBounded' /\ Books'
      BY <2>7 DEF StepSkip, BytesBounded, Books
    <3>2. Phases'
      BY <2>7 DEF StepSkip, Phases, Books
    <3>3. ObservedFirst' /\ Records'
      BY <2>7 DEF StepSkip, ObservedFirst, Records, Phases, Books
    <3>4. Ends' /\ OrderlyMeansDrained'
      BY <2>7 DEF StepSkip, Ends, OrderlyMeansDrained, Phases
    <3> QED
      BY <3>1, <3>2, <3>3, <3>4
  <2>8. CASE IoPending
    <3>1. BytesBounded' /\ Books'
      BY <2>8 DEF IoPending, BytesBounded, Books
    <3>2. Phases'
      BY <2>8 DEF IoPending, Phases, Books
    <3>3. ObservedFirst' /\ Records'
      BY <2>8 DEF IoPending, ObservedFirst, Records, Phases, Books
    <3>4. Ends' /\ OrderlyMeansDrained'
      BY <2>8 DEF IoPending, Ends, OrderlyMeansDrained, Phases
    <3> QED
      BY <3>1, <3>2, <3>3, <3>4
  <2>9. CASE IoFails
    <3>1. PICK why \in Causes : Close(why) /\ why \notin {"None", "OrderlyEnd"}
      BY <2>9, Disorderly DEF IoFails
    <3>2. Running
      BY <2>9 DEF IoFails, Phases
    <3> HIDE DEF Loop, RelayTypeOK
    <3> QED
      BY <2>9, <3>1, <3>2, CloseKeeps DEF IoFails
  <2>10. CASE IoWrite
    <3>1. BytesBounded' /\ Books'
      BY <2>10 DEF IoWrite, Buffered, BytesBounded, Books, Phases
    <3>2. Phases'
      BY <2>10 DEF IoWrite, Buffered, Ends, Phases, Books
    <3>3. ObservedFirst' /\ Records'
      BY <2>10 DEF IoWrite, Buffered, Ends, ObservedFirst, Records, Phases, Books
    <3>4. Ends' /\ OrderlyMeansDrained'
      BY <2>10 DEF IoWrite, Buffered, Ends, Ends, OrderlyMeansDrained, Phases
    <3> QED
      BY <3>1, <3>2, <3>3, <3>4
  <2>11. CASE IoShutdown
    <3>1. BytesBounded' /\ Books'
      BY <2>11 DEF IoShutdown, Buffered, BytesBounded, Books
    <3>2. Phases'
      BY <2>11 DEF IoShutdown, Buffered, Phases, Books
    <3>3. ObservedFirst' /\ Records'
      BY <2>11 DEF IoShutdown, Buffered, ObservedFirst, Records, Phases, Books
    <3>4. Ends' /\ OrderlyMeansDrained'
      BY <2>11 DEF IoShutdown, Buffered, Ends, OrderlyMeansDrained, Phases
    <3> QED
      BY <3>1, <3>2, <3>3, <3>4
  <2>12. CASE IoRead
    <3>1. BytesBounded' /\ Books'
      BY <2>12 DEF IoRead, Buffered, ReadRoom, Remaining, BytesBounded, Books
    <3>2. Phases'
      BY <2>12 DEF IoRead, Buffered, ReadRoom, Remaining, Phases, Books
    <3>3. ObservedFirst' /\ Records'
      BY <2>12 DEF IoRead, Buffered, ReadRoom, Remaining, ObservedFirst, Records, Phases, Books
    <3>4. Ends' /\ OrderlyMeansDrained'
      BY <2>12 DEF IoRead, Buffered, ReadRoom, Remaining, Ends, OrderlyMeansDrained, Phases
    <3> QED
      BY <3>1, <3>2, <3>3, <3>4
  <2>13. CASE AfterWrite
    <3>1. CASE Ok
      <4>1. BytesBounded' /\ Books'
        BY <2>13, <3>1 DEF AfterWrite, BytesBounded, Books, Phases
      <4>2. Phases'
        BY <2>13, <3>1 DEF AfterWrite, Phases, Books
      <4>3. ObservedFirst' /\ Records'
        BY <2>13, <3>1 DEF AfterWrite, ObservedFirst, Records, Phases, Books, Ends
      <4>4. Ends' /\ OrderlyMeansDrained'
        BY <2>13, <3>1 DEF AfterWrite, Ends, OrderlyMeansDrained, Phases, Books
      <4> QED
        BY <4>1, <4>2, <4>3, <4>4
    <3>2. CASE ~Ok
      BY <2>13, <3>2, CloseKeeps, Disorderly DEF AfterWrite, Rest, Phases
    <3> QED
      BY <3>1, <3>2
  <2>14. CASE AfterShutdown
    <3>1. CASE Ok
      <4>1. BytesBounded' /\ Books'
        BY <2>14, <3>1 DEF AfterShutdown, BytesBounded, Books, Phases
      <4>2. Phases'
        BY <2>14, <3>1 DEF AfterShutdown, Phases, Books
      <4>3. ObservedFirst' /\ Records'
        BY <2>14, <3>1 DEF AfterShutdown, ObservedFirst, Records, Phases, Books, Ends
      <4>4. Ends' /\ OrderlyMeansDrained'
        BY <2>14, <3>1 DEF AfterShutdown, Ends, OrderlyMeansDrained, Phases, Books
      <4> QED
        BY <4>1, <4>2, <4>3, <4>4
    <3>2. CASE ~Ok
      BY <2>14, <3>2, CloseKeeps, Disorderly DEF AfterShutdown, Rest, Phases
    <3> QED
      BY <3>1, <3>2
  <2>15. CASE ReadStops
    BY <2>15, CloseKeeps, Disorderly DEF ReadStops, Phases
  <2>16. CASE ReadChunk
    <3>1. BytesBounded' /\ Books'
      <4>1. /\ filled[turn] = 0 /\ written[turn] = 0 /\ admitted[turn] = forwarded[turn]
            /\ admitted[turn] + got <= ByteLimit[turn] /\ got <= MaxChunk
        BY <2>16 DEF ReadChunk, Excess, Remaining, Books, Phases
      <4>2. /\ filled' = [filled EXCEPT ![turn] = got]
            /\ admitted' = [admitted EXCEPT ![turn] = @ + got]
            /\ UNCHANGED <<written, forwarded, outcome>>
        BY <2>16 DEF ReadChunk
      <4>3. BytesBounded'
        BY <4>1, <4>2 DEF BytesBounded
      <4>4. Books'
        BY <4>1, <4>2 DEF Books
      <4> QED
        BY <4>3, <4>4
    <3>2. Phases'
      BY <2>16 DEF ReadChunk, Excess, Remaining, Phases, Books
    <3>3. ObservedFirst' /\ Records'
      BY <2>16 DEF ReadChunk, Excess, Remaining, ObservedFirst, Records, Phases, Books
    <3>4. Ends' /\ OrderlyMeansDrained'
      BY <2>16 DEF ReadChunk, Excess, Remaining, Ends, OrderlyMeansDrained, Phases
    <3> QED
      BY <3>1, <3>2, <3>3, <3>4
  <2>17. CASE ReadEnd
    <3>1. BytesBounded' /\ Books'
      BY <2>17 DEF ReadEnd, BytesBounded, Books
    <3>2. Phases'
      BY <2>17 DEF ReadEnd, Phases, Books
    <3>3. ObservedFirst' /\ Records'
      BY <2>17 DEF ReadEnd, ObservedFirst, Records, Phases, Books
    <3>4. Ends' /\ OrderlyMeansDrained'
      BY <2>17 DEF ReadEnd, Ends, OrderlyMeansDrained, Phases
    <3> QED
      BY <3>1, <3>2, <3>3, <3>4
  <2>18. CASE GateAccepts
    <3>1. BytesBounded' /\ Books'
      BY <2>18 DEF GateAccepts, BytesBounded, Books
    <3>2. Phases'
      BY <2>18 DEF GateAccepts, Phases, Books
    <3>3. ObservedFirst' /\ Records'
      BY <2>18 DEF GateAccepts, ObservedFirst, Records, Phases, Books
    <3>4. Ends' /\ OrderlyMeansDrained'
      BY <2>18 DEF GateAccepts, Ends, OrderlyMeansDrained, Phases
    <3> QED
      BY <3>1, <3>2, <3>3, <3>4
  <2>19. CASE GateRefuses
    <3>1. PICK why \in Causes : Close(why) /\ why \notin {"None", "OrderlyEnd"}
      BY <2>19, Disorderly DEF GateRefuses
    <3>2. Running
      BY <2>19 DEF GateRefuses, Phases
    <3> HIDE DEF Loop, RelayTypeOK
    <3> QED
      BY <2>19, <3>1, <3>2, CloseKeeps DEF GateRefuses
  <2>20. CASE AfterGate
    <3>1. CASE Ok
      <4>1. BytesBounded' /\ Books'
        BY <2>20, <3>1 DEF AfterGate, BytesBounded, Books, Phases
      <4>2. Phases'
        BY <2>20, <3>1 DEF AfterGate, Phases, Books
      <4>3. ObservedFirst' /\ Records'
        BY <2>20, <3>1 DEF AfterGate, ObservedFirst, Records, Phases, Books, Ends
      <4>4. Ends' /\ OrderlyMeansDrained'
        <5>1. CASE got > 0
          BY <2>20, <3>1, <5>1 DEF AfterGate, Ends, OrderlyMeansDrained, Phases
        <5>2. CASE got = 0
          <6>1. Ends'
            BY <2>20, <3>1, <5>2 DEF AfterGate, Ends, Phases
          <6>2. OrderlyMeansDrained'
            BY <2>20, <3>1, <5>2 DEF AfterGate, OrderlyMeansDrained, Phases
          <6> QED
            BY <6>1, <6>2
        <5> QED
          BY <5>1, <5>2
      <4> QED
        BY <4>1, <4>2, <4>3, <4>4
    <3>2. CASE ~Ok
      BY <2>20, <3>2, CloseKeeps, Disorderly DEF AfterGate, Rest, Phases
    <3> QED
      BY <3>1, <3>2
  <2>21. CASE EndRound
    <3>0. Running /\ {"OrderlyEnd", "Timeout"} \subseteq Causes
      BY <2>21 DEF EndRound, Phases, Causes
    <3>1. CASE Drained
      <4> HIDE DEF Loop, RelayTypeOK
      <4> QED
        BY <2>21, <3>0, <3>1, CloseKeeps DEF EndRound
    <3>2. CASE ~Drained /\ ~progress /\ Due(Rearm)
      <4> HIDE DEF Loop, RelayTypeOK
      <4> QED
        BY <2>21, <3>0, <3>2, CloseKeeps DEF EndRound
    <3>3. CASE ~Drained /\ (progress \/ ~Due(Rearm))
      <4>1. pc' \in {"idle", "step"} /\ UNCHANGED <<copyVars, outcome, got, gateVars>>
        BY <2>21, <3>3 DEF EndRound
      <4>2. BytesBounded' /\ Books'
        BY <4>1 DEF BytesBounded, Books
      <4>3. Phases'
        BY <2>21, <3>0, <4>1 DEF EndRound, Phases
      <4>4. ObservedFirst' /\ Records'
        BY <2>21, <4>1 DEF EndRound, ObservedFirst, Records
      <4>5. Ends' /\ OrderlyMeansDrained'
        BY <4>1 DEF Ends, OrderlyMeansDrained
      <4> QED
        BY <4>2, <4>3, <4>4, <4>5
    <3> QED
      BY <3>1, <3>2, <3>3
  <2>22. CASE UNCHANGED relayVars
    <3>1. BytesBounded' /\ Books' /\ Phases'
      BY <2>22 DEF relayVars, BytesBounded, Books, Phases
    <3>2. ObservedFirst' /\ Records' /\ Ends' /\ OrderlyMeansDrained'
      BY <2>22 DEF relayVars, ObservedFirst, Records, Ends, OrderlyMeansDrained
    <3> QED
      BY <3>1, <3>2
  <2> QED
    BY <2>1, <2>2, <2>3, <2>4, <2>5, <2>6, <2>7, <2>8, <2>9, <2>10, <2>11,
       <2>12, <2>13, <2>14, <2>15, <2>16, <2>17, <2>18, <2>19, <2>20,
       <2>21, <2>22 DEF RelayNext, Poll
<1> QED
  BY <1>1, <1>2, RelayTypes, PTL DEF RelaySpec

\* A direction forwards only what it admitted and admits no more than its
\* limit, for every limit and chunk size (step's room, probe and counts).
THEOREM WithinLimits == RelaySpec => []BytesBounded
BY LoopAlways, PTL DEF Loop

\* No byte and no end reaches a peer before the gate has accepted it.
THEOREM ObservedBeforeForwarded == RelaySpec => []ObservedFirst
BY LoopAlways, PTL DEF Loop

\* Only a drained, fully observed relay ends orderly, whatever the gate
\* refuses with and however the owner terminates it.
THEOREM OrderlyIsDrained == RelaySpec => []OrderlyMeansDrained
BY LoopAlways, PTL DEF Loop

\* Nothing moves after the end.
THEOREM OutcomeIsFinal == RelaySpec => OutcomeFinal
<1>1. RelayTypeOK /\ Loop /\ [RelayNext]_relayVars =>
        [~Running => outcome' = outcome /\ forwarded' = forwarded]_relayVars
  <2> SUFFICES ASSUME RelayTypeOK, Loop, [RelayNext]_relayVars, ~Running, ~UNCHANGED relayVars
      PROVE outcome' = outcome /\ forwarded' = forwarded
    OBVIOUS
  <2>1. pc = "idle"
    BY DEF Loop, Phases
  <2>2. Tick \/ Cancel \/ IoReady
    BY <2>1 DEF RelayNext, Poll, Terminate, PollStart, StepStop, StepSkip, IoPending,
       IoFails, IoWrite, IoShutdown, IoRead, AfterWrite, AfterShutdown, ReadStops,
       ReadChunk, ReadEnd, GateAccepts, GateRefuses, AfterGate, EndRound
  <2> QED
    BY <2>2 DEF Tick, Cancel, IoReady, copyVars
<1> QED
  BY <1>1, RelayTypes, LoopAlways, PTL DEF RelaySpec, OutcomeFinal
-----------------------------------------------------------------------------
\* The idle deadline and the stall of a direction that cannot move are the
\* instants of the last move plus the idle time.
LEMMA ClocksAlways == RelaySpec => []Clocks
<1> USE RelayAssumption
<1>1. RelayInit => Clocks
  BY DEF RelayInit, Clocks, Stuck, Buffered, Directions
<1>2. RelayTypeOK /\ Loop /\ Clocks /\ [RelayNext]_relayVars => Clocks'
  <2> SUFFICES ASSUME RelayTypeOK, Loop, Clocks, [RelayNext]_relayVars PROVE Clocks'
    OBVIOUS
  <2> USE DEF Clocks, Stuck, Buffered, Running, RelayTypeOK, Directions, NextTurn,
              Other, Rest, copyVars, loopVars, gateVars, historyVars
  <2>1. ASSUME NEW why \in Causes, Close(why), why # "None",
               UNCHANGED <<idleEnd, historyVars>>
        PROVE  Clocks'
    BY <2>1 DEF Close
  <2>2. CASE Tick
    BY <2>2 DEF Tick
  <2>3. CASE Cancel
    BY <2>3 DEF Cancel
  <2>4. CASE IoReady
    BY <2>4 DEF IoReady
  <2>5. CASE StepSkip
    BY <2>5 DEF StepSkip
  <2>6. CASE IoPending
    BY <2>6 DEF IoPending
  <2>7. CASE IoShutdown
    BY <2>7 DEF IoShutdown
  <2>8. CASE IoRead
    BY <2>8 DEF IoRead
  <2>9. CASE ReadEnd
    BY <2>9 DEF ReadEnd
  <2>10. CASE GateAccepts
    BY <2>10 DEF GateAccepts
  <2>11. CASE Terminate
    <3>1. PICK why \in {"Timeout", "SessionEnded", "OrderlyEnd"} : Close(GateCause(why))
      BY <2>11 DEF Terminate
    <3>2. why \in Causes \ {"None"}
      BY DEF Causes
    <3> QED
      BY <2>11, <2>1, <3>1, <3>2, Disorderly DEF Terminate
  <2>12. CASE PollStart
    <3>1. CASE Ok
      BY <2>12, <3>1 DEF PollStart
    <3>2. CASE ~Ok
      BY <2>12, <2>1, <3>2, Disorderly DEF PollStart
    <3> QED
      BY <3>1, <3>2
  <2>13. CASE StepStop
    BY <2>13, <2>1, Disorderly DEF StepStop
  <2>14. CASE ReadStops
    BY <2>14, <2>1, Disorderly DEF ReadStops
  <2>15. CASE IoFails
    <3>1. PICK why \in Causes : Close(why) /\ why # "None"
      BY <2>15, Disorderly DEF IoFails
    <3> QED
      BY <2>15, <2>1, <3>1 DEF IoFails
  <2>16. CASE GateRefuses
    <3>1. PICK why \in Causes : Close(why) /\ why # "None"
      BY <2>16, Disorderly DEF GateRefuses
    <3> QED
      BY <2>16, <2>1, <3>1 DEF GateRefuses
  <2>17. CASE IoWrite
    BY <2>17 DEF IoWrite, Loop, Phases, Ends
  <2>18. CASE ReadChunk
    BY <2>18 DEF ReadChunk, Loop, Phases, Ends
  <2>19. CASE AfterWrite
    <3>1. CASE Ok
      BY <2>19, <3>1 DEF AfterWrite, Loop, Phases, Ends, Books
    <3>2. CASE ~Ok
      BY <2>19, <2>1, <3>2, Disorderly DEF AfterWrite
    <3> QED
      BY <3>1, <3>2
  <2>20. CASE AfterShutdown
    <3>1. CASE Ok
      BY <2>20, <3>1 DEF AfterShutdown, Loop, Phases, Ends, Books
    <3>2. CASE ~Ok
      BY <2>20, <2>1, <3>2, Disorderly DEF AfterShutdown
    <3> QED
      BY <3>1, <3>2
  <2>21. CASE AfterGate
    <3>1. CASE Ok
      <4>1. CASE got > 0
        BY <2>21, <3>1, <4>1 DEF AfterGate
      <4>2. CASE got = 0
        <5>1. /\ read_end' = [read_end EXCEPT ![turn] = TRUE]
              /\ stalled' = [stalled EXCEPT ![turn] = {now + Idle}]
              /\ since' = [since EXCEPT ![turn] = now]
              /\ UNCHANGED <<filled, written, write_end, outcome, idleEnd, moved>>
          BY <2>21, <3>1, <4>2 DEF AfterGate
        <5>2. idleEnd' = moved' + Idle
          BY <5>1
        <5>3. ASSUME NEW d \in Directions, Running, Stuck(d)'
              PROVE  since'[d] + Idle \in stalled'[d]
          <6>1. CASE d = turn
            BY <5>1, <6>1
          <6>2. CASE d # turn
            BY <5>1, <5>3, <6>2
          <6> QED
            BY <6>1, <6>2
        <5> QED
          BY <5>1, <5>2, <5>3
      <4> QED
        BY <4>1, <4>2
    <3>2. CASE ~Ok
      BY <2>21, <2>1, <3>2, Disorderly DEF AfterGate
    <3> QED
      BY <3>1, <3>2
  <2>22. CASE EndRound
    <3>1. {"OrderlyEnd", "Timeout"} \subseteq Causes
      BY DEF Causes
    <3>2. CASE Drained
      BY <2>22, <2>1, <3>1, <3>2 DEF EndRound
    <3>4. CASE ~Drained /\ ~progress /\ Due(Rearm)
      BY <2>22, <2>1, <3>1, <3>4 DEF EndRound
    <3>3. CASE ~Drained /\ (progress \/ ~Due(Rearm))
      <4>1. UNCHANGED <<copyVars, outcome, idleEnd, historyVars>>
        BY <2>22, <3>3 DEF EndRound
      <4> QED
        BY <4>1
    <3> QED
      BY <3>2, <3>3, <3>4
  <2>23. CASE UNCHANGED relayVars
    BY <2>23 DEF relayVars
  <2> QED
    BY <2>2, <2>3, <2>4, <2>5, <2>6, <2>7, <2>8, <2>9, <2>10, <2>11, <2>12,
       <2>13, <2>14, <2>15, <2>16, <2>17, <2>18, <2>19, <2>20, <2>21,
       <2>22, <2>23 DEF RelayNext, Poll
<1> QED
  BY <1>1, <1>2, RelayTypes, LoopAlways, PTL DEF RelaySpec

\* A socket is called only in time: no token, within the lifetime, and no
\* direction stuck for the idle time, however busy the other one is.
THEOREM SocketsOnlyInTime == RelaySpec => IoOnlyInTime
<1> USE RelayAssumption
<1>1. RelayTypeOK /\ Loop /\ Clocks /\ [RelayNext]_relayVars =>
        [pc = "step" /\ pc' \in {"wrote", "shut", "read"} =>
          /\ ~token /\ now < Lifetime /\ now < moved + Idle
          /\ \A d \in Directions : Stuck(d) => now < since[d] + Idle]_relayVars
  <2> SUFFICES ASSUME RelayTypeOK, Loop, Clocks, [RelayNext]_relayVars, ~UNCHANGED relayVars,
                      pc = "step", pc' \in {"wrote", "shut", "read"}
      PROVE /\ ~token /\ now < Lifetime /\ now < moved + Idle
            /\ \A d \in Directions : Stuck(d) => now < since[d] + Idle
    OBVIOUS
  <2>1. IoWrite \/ IoShutdown \/ IoRead
    BY DEF RelayNext, Poll, Tick, Cancel, IoReady, Terminate, PollStart, StepStop,
       StepSkip, IoPending, IoFails, AfterWrite, AfterShutdown, ReadStops,
       ReadChunk, ReadEnd, GateAccepts, GateRefuses, AfterGate, EndRound, Close,
       NextTurn, loopVars
  <2>2. Ok /\ Running
    BY <2>1 DEF IoWrite, IoShutdown, IoRead, Loop, Phases
  <2>3. \A t \in Deadlines : now < t
    BY <2>2 DEF Ok, Due, Deadlines, RelayTypeOK, Directions
  <2>4. now < Lifetime /\ now < idleEnd
    BY <2>3 DEF Deadlines
  <2>5. \A d \in Directions : \A t \in stalled[d] : now < t
    BY <2>3 DEF Deadlines, Directions
  <2> QED
    BY <2>2, <2>4, <2>5 DEF Ok, Clocks
<1> QED
  BY <1>1, RelayTypes, LoopAlways, ClocksAlways, PTL DEF RelaySpec, IoOnlyInTime
=============================================================================
