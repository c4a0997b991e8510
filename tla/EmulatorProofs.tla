---------------------------- MODULE EmulatorProofs ----------------------------
(***************************************************************************)
(* Proofs about Emulator and the replay under it, for every capture,       *)
(* schedule, set of injected faults, request and browser script.           *)
(*                                                                         *)
(* The invariant has seven parts, each about some of the variables:        *)
(* RecordInv types the records, HandInv is the handshake of host and       *)
(* worker over the gate and the barrier, ObsInv the life of the observers, *)
(* StatusInv what a failure leaves behind, WireInv the stream of records,  *)
(* PaceInv the player's account of replay time, ChanInv the browser's      *)
(* bytes.  On top of these SchedInv is about the schedule: what was        *)
(* validated (ValidInv), and at which place in the order of the calls the  *)
(* host is, with which calls behind it (TraceInv).                         *)
(***************************************************************************)
EXTENDS Emulator, FiniteSetTheorems, WellFoundedInduction, TLAPS

\* Where run_replay() goes round, but for the wait.
Asking == {"loop", "admit", "admitEnd", "frames", "eof", "timeout", "drain", "poll",
           "sample", "tick"}
\* Where the emulator is outside of a pass, and where only the emulator is.
OutsidePass == {"load", "serverStart", "accept", "pass", "endSession", "exit"}
WebOnly == {"serverStart", "accept", "pass", "await", "restart", "finish", "endSession"}

-----------------------------------------------------------------------------
(* Records.                                                                *)
GatedRecords == [running : BOOLEAN, cancelled : BOOLEAN, pending : BOOLEAN,
                 grant : {"Timeout", "Receive"}, last : {"Timeout", "Frame"}]
BarRecords == [completed : Nat, released : Nat, cancelled : BOOLEAN]
CtlRecords == [state : {"Ready", "Starting", "Running", "Failed", "Stopped"},
               caller : {"run", "destructor"}, tries : 0..2, began : BOOLEAN]
ObsRecords == [injected : BOOLEAN, attached : BOOLEAN, opened : BOOLEAN, held : BOOLEAN,
               catalog : BOOLEAN, readings : BOOLEAN]
CadRecords == [due : Int, avail : Int, poll : Int, sample : Int, tick : Int, eos : BOOLEAN]
StageRecords == [mail : Mail, command : {"none", "on", "off"},
                 last : {"none", "black", "lit"}, faulted : BOOLEAN]
SinkRecords == [good : BOOLEAN, header : BOOLEAN]
StreamRecords == Pixels \cup Acks
                   \cup {"header", "pong", "rejected", "end", "restart", "close"}

PlanOk(p) ==
  /\ p.frames \in Seq(Int)
  /\ p.end \in Int /\ p.avail \in Int /\ p.poll \in Int /\ p.tick \in Int /\ p.sample \in Int

BarOk(b) == b \in BarRecords /\ b.released <= b.completed

RecordInv ==
  /\ mode \in {"render", "web"} /\ (pc \in WebOnly => mode = "web")
  /\ gated \in GatedRecords /\ BarOk(bar) /\ ctl \in CtlRecords /\ obs \in ObsRecords
  /\ cad \in CadRecords /\ next \in Nat \ {0} /\ clock \in Int /\ PlanOk(plan)

-----------------------------------------------------------------------------
(* The handshake.                                                          *)

\* The worker is parked, and stays so until the host grants something.
Parked ==
  /\ ~bar.cancelled /\ gated.running /\ ~gated.cancelled /\ ~gated.pending
  /\ worker = "waiting" \/ (worker = "held" /\ bar.released < bar.completed)

\* One grant is on its way through the worker, or its publication is there.
UnderWay ==
  /\ ~bar.cancelled /\ gated.running /\ ~gated.cancelled /\ step.epoch \in Nat
  /\ \/ gated.pending /\ bar.completed + 1 = step.epoch /\ worker \in {"waiting", "held"}
     \/ ~gated.pending /\ bar.completed + 1 = step.epoch
          /\ worker \in {"receiving", "publishing"}
     \/ ~gated.pending /\ bar.completed = step.epoch /\ bar.released < bar.completed
          /\ worker = "held"

HandInv ==
  /\ pc = "start" => gated = NewGated /\ bar = NewBarrier /\ worker = "none"
  /\ pc = "startDrain" => Parked
  /\ pc \in Asking => Parked /\ ctl.state = "Running"
  /\ pc = "wait" => UnderWay /\ ctl.state = "Running"

-----------------------------------------------------------------------------
(* The observers, and how a replay that fails is remembered.               *)
\* What the observers know, in a controller that has begun or not.
ObsOk(o, began) ==
  /\ o.held => o.injected
  /\ o.readings => o.catalog
  /\ o.catalog => o.injected /\ began
  /\ o.opened => began
  /\ began /\ o.injected => o.catalog

ObsInv ==
  /\ ObsOk(obs, ctl.began)
  /\ pc \in Asking \cup {"wait"} => ctl.began
  /\ cad.sample # None => obs.injected
  /\ pc \in {"start", "startDrain"} => (obs.injected <=> plan.sample # None)
  /\ pc \in (Asking \ {"loop", "admitEnd"}) \cup {"wait"} => cad.due # None

StatusInv ==
  /\ ctl.state = "Failed" \/ ctl.caller = "destructor" => status # "Ok"
  /\ pc \in (OutsidePass \ {"exit"}) \cup {"run", "await", "restart", "finish"}
       => ctl = NewController

-----------------------------------------------------------------------------
(* The stream.                                                             *)
Has(w, r) == \E i \in DOMAIN w : w[i] = r
HasPixel(w) == \E i \in DOMAIN w : w[i] \in Pixels
LastLit(w) == LastAmong(w, Len(w), Pixels, "lit")
LastPaused(w) == LastAmong(w, Len(w), Acks, "paused")

GrammarAt(w, good, i) ==
  /\ (w[i] = "header") <=> (i = 1)
  /\ w[i] = "lit" => /\ \E j \in 1..i - 1 : w[j] \in Pixels
                     /\ ~LastAmong(w, i - 1, Acks, "paused")
  /\ w[i] \in {"end", "restart", "close"} /\ good => ~LastAmong(w, i - 1, Pixels, "lit")
  /\ \A j \in 1..i - 1 : /\ w[j] # "close"
                         /\ w[i] \in Pixels => w[j] \notin {"end", "restart"}

Grammatical(w, good) == \A i \in DOMAIN w : GrammarAt(w, good, i)

\* A stream so far.
StreamOk(w, s) ==
  /\ s.header <=> w # << >>
  /\ Grammatical(w, s.good)

Ended == {"await", "restart", "finish", "endSession", "pass", "exit"}

WireInv ==
  /\ stage \in StageRecords /\ sink \in SinkRecords /\ wire \in Seq(StreamRecords)
  /\ StreamOk(wire, sink)
  /\ stage.last = "black" => ~LastLit(wire)
  /\ Has(wire, "close") => pc = "endSession"
  /\ Has(wire, "end") \/ Has(wire, "restart") => pc \in Ended
  /\ mode = "web" /\ pc \notin OutsidePass => sink.header
  /\ pc \in {"load", "serverStart", "accept", "run", "start"} => ~HasPixel(wire)
  /\ pc \in Asking \cup {"wait", "startDrain"} => HasPixel(wire)
  /\ LastPaused(wire) => mode = "web" /\ (pacer.paused \/ chan.closed)
  /\ pc \in (Asking \ {"admit", "admitEnd"}) \cup {"wait", "run", "start", "startDrain"}
       => ~LastPaused(wire)
  /\ StripDarkAtEnd

-----------------------------------------------------------------------------
(* Replay time, in quarters.                                               *)
Quarters(rate) == (4 * Rates[rate].num) \div Rates[rate].den

\* What the pacer counts from its anchor on has been paid.
PaceInv ==
  /\ wall \in Nat /\ credit \in Nat
  /\ pacer \in [paused : BOOLEAN, interruption : {"None", "Restart", "Stop"},
                rate : DOMAIN Rates, anchorWall : Nat, anchorReplay : Int]
  /\ chan = [closed |-> chan.closed, code |-> chan.code, buffer |-> chan.buffer]
  /\ chan.closed \in BOOLEAN
  /\ mode = "web" => 4 * clock <= credit
  /\ mode = "web" /\ pc \notin OutsidePass =>
       /\ pacer.anchorWall <= wall
       /\ 4 * pacer.anchorReplay
            + (IF pacer.paused THEN 0 ELSE Quarters(pacer.rate) * (wall - pacer.anchorWall))
            <= credit

-----------------------------------------------------------------------------
(* The browser's bytes.                                                    *)

IsSeq(s) == s \in Seq({s[i] : i \in DOMAIN s})

\* Pieces that came in pairs.
Paired(s) ==
  /\ Len(s) % 2 = 0
  /\ \A i \in DOMAIN s : s[i].part = IF i % 2 = 1 THEN "head" ELSE "body"

\* What was received ends in a whole frame or in a header; what follows completes it.
Whole(received, coming) ==
  \/ coming = <<[part |-> "fin"]>> /\ Paired(received)
  \/ Paired(received \o coming)

ChanInv ==
  /\ IsSeq(chan.buffer) /\ IsSeq(net) /\ IsSeq(owed)
  /\ ~chan.closed => WaitIn(owed, chan.buffer \o net) /\ Whole(chan.buffer, net)

EmuInv == RecordInv /\ HandInv /\ ObsInv /\ StatusInv /\ WireInv /\ PaceInv /\ ChanInv

-----------------------------------------------------------------------------
(* Sequences that a test selects.                                          *)

LEMMA LeastNatural ==
  ASSUME NEW T, T \subseteq Nat, T # {}
  PROVE  \E x \in T : \A y \in T : x <= y
<1> DEFINE R == {ss \in Nat \X Nat : ss[1] < ss[2]}
<1>1. IsWellFoundedOn(R, Nat)
  BY NatLessThanWellFounded DEF OpToRel
<1> HIDE DEF R
<1>2. PICK x \in T : \A y \in T : ~(<<y, x>> \in R)
  BY <1>1, WFMin
<1>3. \A y \in T : ~(y < x)
  <2> SUFFICES ASSUME NEW y \in T, y < x
               PROVE  FALSE
    OBVIOUS
  <2>1. <<y, x>> \in Nat \X Nat
    OBVIOUS
  <2>2. <<y, x>>[1] < <<y, x>>[2]
    OBVIOUS
  <2>3. <<y, x>> \in R
    BY <2>1, <2>2 DEF R
  <2> QED
    BY <1>2, <2>3
<1>4. \A y \in T : x <= y
  BY <1>3
<1> QED
  BY <1>4

\* An enumeration of S in ascending order.
IsAscending(f, S) ==
  /\ f \in [1..Cardinality(S) -> S]
  /\ \A i, j \in 1..Cardinality(S) : i < j => f[i] < f[j]

LEMMA AscendingExists ==
  ASSUME NEW n \in Nat
  PROVE  \A S \in SUBSET (1..n) : \E f : IsAscending(f, S)
<1> DEFINE Lacks(m) == \E S \in SUBSET (1..m) : ~\E f : IsAscending(f, S)
           T == {m \in Nat : Lacks(m)}
<1> SUFFICES T = {}
  OBVIOUS
<1> SUFFICES ASSUME T # {}
             PROVE  FALSE
  OBVIOUS
<1>1. PICK m \in T : \A k \in T : m <= k
  <2>1. T \subseteq Nat
    OBVIOUS
  <2> HIDE DEF T
  <2> QED
    BY <2>1, LeastNatural
<1>2. m \in Nat /\ Lacks(m)
  OBVIOUS
<1>3. PICK S \in SUBSET (1..m) : ~\E f : IsAscending(f, S)
  BY <1>2
<1>4. m # 0
  <2> SUFFICES ASSUME m = 0
               PROVE  FALSE
    OBVIOUS
  <2>1. S = {}
    OBVIOUS
  <2>2. Cardinality(S) = 0
    BY <2>1, FS_EmptySet
  <2>3. IsAscending([i \in 1..0 |-> 0], S)
    BY <2>2 DEF IsAscending
  <2> QED
    BY <1>3, <2>3
<1>5. m - 1 \in Nat /\ ~Lacks(m - 1)
  <2>1. m - 1 \in Nat /\ ~(m <= m - 1)
    BY <1>2, <1>4
  <2> HIDE DEF Lacks
  <2> QED
    BY <1>1, <2>1
<1>6. m \in S
  <2> SUFFICES ASSUME m \notin S
               PROVE  FALSE
    OBVIOUS
  <2>1. S \in SUBSET (1..(m - 1))
    BY <1>2
  <2> QED
    BY <1>3, <1>5, <2>1
<1> DEFINE S0 == S \ {m}
<1>7. S0 \in SUBSET (1..(m - 1))
  BY <1>2
<1>8. PICK f : IsAscending(f, S0)
  BY <1>5, <1>7
<1>9. IsFiniteSet(S)
  <2>1. IsFiniteSet(1..m)
    BY <1>2, FS_Interval
  <2> QED
    BY <2>1, FS_Subset
<1>10. /\ IsFiniteSet(S0) /\ Cardinality(S) \in Nat /\ Cardinality(S0) = Cardinality(S) - 1
       /\ Cardinality(S0) \in Nat
  BY <1>6, <1>9, FS_RemoveElement, FS_CardinalityType, FS_Subset
<1> DEFINE g == [i \in 1..Cardinality(S) |-> IF i = Cardinality(S) THEN m ELSE f[i]]
<1>11. \A i \in 1..Cardinality(S) : i # Cardinality(S) => /\ i \in 1..Cardinality(S0)
                                                          /\ f[i] \in S0 /\ f[i] < m
  <2> SUFFICES ASSUME NEW i \in 1..Cardinality(S), i # Cardinality(S)
               PROVE  i \in 1..Cardinality(S0) /\ f[i] \in S0 /\ f[i] < m
    OBVIOUS
  <2>1. i \in 1..Cardinality(S0)
    BY <1>10
  <2>2. f[i] \in S0
    BY <1>8, <2>1 DEF IsAscending
  <2>3. f[i] \in 1..(m - 1)
    BY <1>7, <2>2
  <2> QED
    BY <1>2, <2>1, <2>2, <2>3
<1>12. g \in [1..Cardinality(S) -> S]
  BY <1>6, <1>11
<1>13. \A i, j \in 1..Cardinality(S) : i < j => g[i] < g[j]
  <2> SUFFICES ASSUME NEW i \in 1..Cardinality(S), NEW j \in 1..Cardinality(S), i < j
               PROVE  g[i] < g[j]
    OBVIOUS
  <2>1. i # Cardinality(S) /\ g[i] = f[i]
    BY <1>10
  <2>2. CASE j = Cardinality(S)
    BY <1>11, <2>1, <2>2
  <2>3. CASE j # Cardinality(S)
    <3>1. g[j] = f[j]
      BY <2>3
    <3>2. i \in 1..Cardinality(S0) /\ j \in 1..Cardinality(S0)
      BY <1>11, <2>1, <2>3
    <3> QED
      BY <1>8, <2>1, <3>1, <3>2 DEF IsAscending
  <2> QED
    BY <2>2, <2>3
<1>14. IsAscending(g, S)
  BY <1>12, <1>13 DEF IsAscending
<1> QED
  BY <1>3, <1>14

LEMMA AscendingIsOne ==
  ASSUME NEW n \in Nat, NEW S \in SUBSET (1..n)
  PROVE  IsAscending(Ascending(S), S) /\ Cardinality(S) \in Nat
<1>1. PICK f : IsAscending(f, S)
  BY AscendingExists
<1>2. \E g \in [1..Cardinality(S) -> S] :
        \A i, j \in 1..Cardinality(S) : i < j => g[i] < g[j]
  BY <1>1 DEF IsAscending
<1>3. IsAscending(Ascending(S), S)
  BY <1>2 DEF Ascending, IsAscending
<1>4. IsFiniteSet(S)
  <2>1. IsFiniteSet(1..n)
    BY FS_Interval
  <2> QED
    BY <2>1, FS_Subset
<1> QED
  BY <1>3, <1>4, FS_CardinalityType

LEMMA SeqDomain ==
  ASSUME NEW X, NEW s \in Seq(X)
  PROVE  DOMAIN s = 1..Len(s) /\ Len(s) \in Nat
OBVIOUS

\* What loads: times in order, from zero.
FramesOk(f) ==
  /\ f \in Seq(Nat)
  /\ \A i, j \in DOMAIN f : i <= j => f[i] <= f[j]
  /\ f # << >> => f[1] = 0

\* Neighbours in order are all in order.
LEMMA Neighbours ==
  ASSUME NEW f \in Seq(Int), \A i \in 2..Len(f) : f[i - 1] <= f[i]
  PROVE  \A i, j \in DOMAIN f : i <= j => f[i] <= f[j]
<1>0. DOMAIN f = 1..Len(f) /\ Len(f) \in Nat /\ \A i \in 1..Len(f) : f[i] \in Int
  OBVIOUS
<1> DEFINE n == Len(f)
<1> SUFFICES ASSUME NEW i \in 1..n, NEW j \in 1..n, i <= j, ~(f[i] <= f[j])
             PROVE  FALSE
  BY <1>0
<1> HIDE DEF n
<1> DEFINE T == {k \in Nat : k \in i..n /\ ~(f[i] <= f[k])}
<1>1. n \in Nat /\ \A k \in 1..n : f[k] \in Int
  BY <1>0 DEF n
<1>2. T \subseteq Nat /\ T # {}
  <2>1. j \in T
    BY <1>1
  <2> QED
    BY <2>1
<1> HIDE DEF T
<1>3. PICK k \in T : \A y \in T : k <= y
  BY <1>2, LeastNatural
<1>4. k \in Nat /\ k \in i..n /\ ~(f[i] <= f[k])
  BY DEF T
<1>5. k # i
  BY <1>1, <1>4
<1>6. k - 1 \in Nat /\ k - 1 \in i..n /\ k \in 2..n /\ k - 1 \in 1..n /\ ~(k <= k - 1)
  BY <1>1, <1>4, <1>5
<1>7. f[i] <= f[k - 1]
  BY <1>3, <1>6 DEF T
<1>8. f[k - 1] <= f[k]
  BY <1>6 DEF n
<1>9. f[i] \in Int /\ f[k] \in Int /\ f[k - 1] \in Int
  BY <1>1, <1>4, <1>6
<1> QED
  BY <1>4, <1>7, <1>8, <1>9

\* A capture that loads is a sequence of times, in order and from zero.
LEMMA LoadedInOrder ==
  ASSUME NEW csv \in Captures, NEW bus, NEW readable
  PROVE  FramesOk(LoadFile(csv, bus, readable).frames)
<1> DEFINE parsed == ParseCsv(csv)
           n == Len(csv.rows)
<1>1. FramesOk(<< >>)
  BY DEF FramesOk
<1>2. CASE ~(readable /\ parsed.ok)
  BY <1>1, <1>2 DEF LoadFile
<1>3. CASE readable /\ parsed.ok
  <2>1. LoadFile(csv, bus, readable) = PrepareReplay(parsed.frames, bus)
    BY <1>3 DEF LoadFile
  <2>2. /\ DOMAIN csv.rows = 1..n /\ n \in Nat
        /\ \A i \in 1..n : csv.rows[i].time \in Nat
    <3>1. csv.rows \in Seq({csv.rows[i] : i \in DOMAIN csv.rows})
      BY CapturesAssumption
    <3>2. DOMAIN csv.rows = 1..n /\ n \in Nat
      BY <3>1, SeqDomain
    <3>3. \A i \in 1..n : csv.rows[i].time \in Nat \cup {Bad, Empty}
      BY <3>2, CapturesAssumption
    <3>4. \A i \in 1..n : RowParses(csv.header, csv.rows[i])
      BY <1>3, <3>2 DEF ParseCsv
    <3>5. \A i \in 1..n : csv.rows[i].time \notin {Bad, Empty}
      BY <3>4 DEF RowParses
    <3> QED
      BY <3>2, <3>3, <3>5
  <2>3. parsed.frames = [i \in DOMAIN csv.rows |->
                       [time |-> csv.rows[i].time, bus |-> csv.rows[i].bus,
                        dir |-> IF csv.header = "V2" THEN csv.rows[i].dir ELSE "Rx"]]
    BY <1>3 DEF ParseCsv
  <2> DEFINE fr == parsed.frames
             S == {i \in DOMAIN fr : fr[i].bus = bus /\ fr[i].dir = "Rx"}
             kept == Ascending(S)
             rows == [i \in DOMAIN kept |-> fr[kept[i]]]
             k == Cardinality(S)
  <2>4. DOMAIN fr = 1..n /\ \A i \in 1..n : fr[i].time \in Nat
    BY <2>2, <2>3
  <2> HIDE DEF fr
  <2>5. S \in SUBSET (1..n)
    BY <2>4
  <2> HIDE DEF S
  <2>6. IsAscending(kept, S) /\ k \in Nat
    BY <2>2, <2>5, AscendingIsOne
  <2> HIDE DEF kept
  <2>7. DOMAIN rows = 1..k /\ \A i \in 1..k : rows[i].time \in Nat
    BY <2>4, <2>5, <2>6 DEF IsAscending
  <2> DEFINE q == [i \in DOMAIN rows |-> rows[i].time - rows[1].time]
  <2>8. \/ PrepareReplay(fr, bus).frames = << >>
        \/ /\ PrepareReplay(fr, bus).frames = q
           /\ ~\E i \in 2..Len(rows) : rows[i].time < rows[i - 1].time
    BY DEF PrepareReplay, S, kept
  <2>9. rows \in Seq({rows[i] : i \in DOMAIN rows}) /\ Len(rows) = k
    <3> DEFINE T == {rows[i] : i \in DOMAIN rows}
    <3>1. rows \in [1..k -> T]
      BY <2>7
    <3> HIDE DEF T, rows, k
    <3>2. rows \in Seq(T) /\ Len(rows) = k
      BY <2>6, <3>1
    <3> QED
      BY <3>2 DEF T
  <2> HIDE DEF rows, k
  <2>10. ASSUME ~\E i \in 2..k : rows[i].time < rows[i - 1].time
         PROVE  FramesOk(q)
    <3> DEFINE w == [i \in 1..k |-> rows[i].time]
    <3>1. w \in Seq(Int) /\ Len(w) = k /\ \A i \in 1..k : w[i] = rows[i].time /\ w[i] \in Nat
      <4>1. w \in [1..k -> Int] /\ \A i \in 1..k : w[i] = rows[i].time /\ w[i] \in Nat
        BY <2>7
      <4> HIDE DEF w
      <4> QED
        BY <2>6, <4>1
    <3> HIDE DEF w
    <3>2. \A i \in 2..k : w[i - 1] <= w[i]
      <4> SUFFICES ASSUME NEW i \in 2..k PROVE w[i - 1] <= w[i]
        OBVIOUS
      <4>1. i \in 1..k /\ i - 1 \in 1..k
        BY <2>6
      <4>2. ~(rows[i].time < rows[i - 1].time)
        BY <2>10
      <4> QED
        BY <3>1, <4>1, <4>2
    <3>3. \A i, j \in 1..k : i <= j => w[i] <= w[j]
      <4>1. \A i \in 2..Len(w) : w[i - 1] <= w[i]
        BY <3>1, <3>2
      <4>2. DOMAIN w = 1..k
        BY <3>1, SeqDomain
      <4>3. \A i, j \in DOMAIN w : i <= j => w[i] <= w[j]
        BY <3>1, <4>1, Neighbours
      <4> QED
        BY <4>2, <4>3
    <3>4. \A i \in 1..k : 1 \in 1..k /\ 1 <= i
      BY <2>6
    <3>5. q = [i \in 1..k |-> w[i] - w[1]]
      <4>1. \A i \in 1..k : rows[i].time - rows[1].time = w[i] - w[1]
        BY <3>1, <3>4
      <4> QED
        BY <2>7, <4>1
    <3> HIDE DEF q
    <3>6. \A i \in 1..k : w[i] - w[1] \in Nat /\ w[1] \in Nat
      BY <3>1, <3>3, <3>4
    <3>7. q \in [1..k -> Nat] /\ \A i \in 1..k : q[i] = w[i] - w[1]
      BY <3>5, <3>6
    <3>8. q \in Seq(Nat) /\ DOMAIN q = 1..k /\ (q # << >> => 1 \in 1..k)
      BY <2>6, <3>7
    <3>9. \A i, j \in 1..k : i <= j => q[i] <= q[j]
      BY <3>1, <3>3, <3>6, <3>7
    <3>10. 1 \in 1..k => q[1] = 0
      BY <3>6, <3>7
    <3> QED
      BY <3>8, <3>9, <3>10 DEF FramesOk
  <2> HIDE DEF q
  <2> QED
    BY <1>1, <2>1, <2>8, <2>9, <2>10 DEF fr
<1> QED
  BY <1>2, <1>3

LEMMA LoadedFrames ==
  ASSUME NEW csv \in Captures, NEW bus, NEW readable
  PROVE  LoadFile(csv, bus, readable).frames \in Seq(Int)
<1> DEFINE f == LoadFile(csv, bus, readable).frames
<1>1. f \in Seq(Nat)
  BY LoadedInOrder DEF FramesOk
<1> HIDE DEF f
<1>2. f \in Seq(Int)
  BY <1>1
<1> QED
  BY <1>2 DEF f

-----------------------------------------------------------------------------
(* The stream, one record at a time.                                       *)

LEMMA AppendFacts ==
  ASSUME NEW w \in Seq(StreamRecords), NEW r \in StreamRecords
  PROVE  /\ Append(w, r) \in Seq(StreamRecords) /\ Len(w) \in Nat
         /\ DOMAIN w = 1..Len(w) /\ DOMAIN Append(w, r) = 1..(Len(w) + 1)
         /\ Len(Append(w, r)) = Len(w) + 1 /\ Append(w, r)[Len(w) + 1] = r
         /\ \A i \in 1..Len(w) : Append(w, r)[i] = w[i]
OBVIOUS

LEMMA Append1Cases ==
  ASSUME NEW w \in Seq(StreamRecords), NEW r \in StreamRecords
  PROVE  \/ Append1(w, r) = Append(w, r)
         \/ Append1(w, r) = w /\ Len(w) \in 1..Len(w) /\ w[Len(w)] = r
<1>1. CASE w # << >> /\ Last(w) = r
  <2>1. Len(w) \in 1..Len(w)
    BY <1>1
  <2> QED
    BY <1>1, <2>1 DEF Append1, Last
<1>2. CASE ~(w # << >> /\ Last(w) = r)
  BY <1>2 DEF Append1
<1> QED
  BY <1>1, <1>2

\* What a record adds.
Adds(v, w, r) ==
  /\ v \in Seq(StreamRecords) /\ v # << >>
  /\ \A x : Has(v, x) <=> Has(w, x) \/ x = r
  /\ HasPixel(v) <=> HasPixel(w) \/ r \in Pixels
  /\ \A kinds : \A x \in kinds :
       LastAmong(v, Len(v), kinds, x) <=>
         x = r \/ (r \notin kinds /\ LastAmong(w, Len(w), kinds, x))

LEMMA AppendEffect ==
  ASSUME NEW w \in Seq(StreamRecords), NEW r \in StreamRecords,
         NEW v \in {Append(w, r), Append1(w, r)}
  PROVE  Adds(v, w, r)
<1>1. CASE v = w /\ Len(w) \in 1..Len(w) /\ w[Len(w)] = r
  <2>1. DOMAIN w = 1..Len(w) /\ Len(w) \in Nat
    BY SeqDomain
  <2>2. v # << >>
    BY <1>1
  <2>3. ASSUME NEW kinds, NEW x \in kinds
        PROVE  LastAmong(w, Len(w), kinds, x) <=>
                 x = r \/ (r \notin kinds /\ LastAmong(w, Len(w), kinds, x))
    <3>1. CASE x = r
      <4>1. \A j \in Len(w) + 1..Len(w) : w[j] \notin kinds
        BY <2>1
      <4> QED
        BY <1>1, <3>1, <4>1 DEF LastAmong
    <3>2. CASE x # r /\ r \in kinds
      <4> SUFFICES ASSUME LastAmong(w, Len(w), kinds, x)
                   PROVE  FALSE
        BY <3>2
      <4>1. PICK i \in 1..Len(w) : w[i] = x /\ \A j \in i + 1..Len(w) : w[j] \notin kinds
        BY DEF LastAmong
      <4>2. i # Len(w)
        BY <1>1, <3>2, <4>1
      <4>3. Len(w) \in i + 1..Len(w)
        <5> DEFINE n == Len(w)
        <5>1. n \in Nat /\ i \in 1..n /\ i # n
          BY <2>1, <4>2
        <5> HIDE DEF n
        <5>2. n \in i + 1..n
          BY <5>1
        <5> QED
          BY <5>2, ZenonT(40) DEF n
      <4>4. \A j : j \in i + 1..Len(w) => w[j] \notin kinds
        BY <4>1
      <4>5. w[Len(w)] \notin kinds
        BY <4>3, <4>4, Zenon
      <4> QED
        BY <1>1, <3>2, <4>5
    <3> QED
      BY <3>1, <3>2
  <2> QED
    BY <1>1, <2>1, <2>2, <2>3 DEF Has, HasPixel, Adds
<1>2. CASE v = Append(w, r)
  <2> DEFINE n == Len(w)
  <2>1. /\ v \in Seq(StreamRecords) /\ n \in Nat /\ DOMAIN w = 1..n /\ DOMAIN v = 1..(n + 1)
        /\ Len(v) = n + 1 /\ v[n + 1] = r /\ \A i \in 1..n : v[i] = w[i]
    BY <1>2, AppendFacts
  <2>2. v # << >>
    BY <2>1
  <2> HIDE DEF n
  <2>3. \A i \in 1..(n + 1) : i = n + 1 \/ i \in 1..n
    BY <2>1
  <2>4. n + 1 \in 1..(n + 1) /\ \A i \in 1..n : i \in 1..(n + 1)
    BY <2>1
  <2>5. \A x : Has(v, x) <=> Has(w, x) \/ x = r
    BY <2>1, <2>3, <2>4 DEF Has
  <2>6. HasPixel(v) <=> HasPixel(w) \/ r \in Pixels
    BY <2>1, <2>3, <2>4 DEF HasPixel
  <2>7. ASSUME NEW kinds, NEW x \in kinds
        PROVE  LastAmong(v, n + 1, kinds, x) <=>
                 x = r \/ (r \notin kinds /\ LastAmong(w, n, kinds, x))
    <3>1. ASSUME LastAmong(v, n + 1, kinds, x)
          PROVE  x = r \/ (r \notin kinds /\ LastAmong(w, n, kinds, x))
      <4>1. PICK i \in 1..(n + 1) :
              v[i] = x /\ \A j \in i + 1..(n + 1) : v[j] \notin kinds
        BY <3>1 DEF LastAmong
      <4>2. CASE i = n + 1
        BY <2>1, <4>1, <4>2
      <4>3. CASE i # n + 1
        <5>1. i \in 1..n /\ n + 1 \in i + 1..(n + 1)
          BY <2>1, <4>3
        <5>2. r \notin kinds
          BY <2>1, <4>1, <5>1
        <5>3. \A j \in i + 1..n : w[j] \notin kinds
          <6> SUFFICES ASSUME NEW j \in i + 1..n
                       PROVE  w[j] \notin kinds
            OBVIOUS
          <6>1. j \in 1..n /\ j \in i + 1..(n + 1)
            BY <2>1, <5>1
          <6> QED
            BY <2>1, <4>1, <6>1
        <5> QED
          BY <2>1, <4>1, <5>1, <5>2, <5>3 DEF LastAmong
      <4> QED
        BY <4>2, <4>3
    <3>2. ASSUME x = r
          PROVE  LastAmong(v, n + 1, kinds, x)
      <4>1. \A j \in n + 1 + 1..(n + 1) : v[j] \notin kinds
        BY <2>1
      <4> QED
        BY <2>1, <2>4, <3>2, <4>1 DEF LastAmong
    <3>3. ASSUME r \notin kinds, LastAmong(w, n, kinds, x)
          PROVE  LastAmong(v, n + 1, kinds, x)
      <4>1. PICK i \in 1..n : w[i] = x /\ \A j \in i + 1..n : w[j] \notin kinds
        BY <3>3 DEF LastAmong
      <4>2. \A j \in i + 1..(n + 1) : v[j] \notin kinds
        <5> SUFFICES ASSUME NEW j \in i + 1..(n + 1)
                     PROVE  v[j] \notin kinds
          OBVIOUS
        <5>1. j = n + 1 \/ (j \in i + 1..n /\ j \in 1..n)
          BY <2>1
        <5> QED
          BY <2>1, <3>3, <4>1, <5>1
      <4> QED
        BY <2>1, <2>4, <4>1, <4>2 DEF LastAmong
    <3> QED
      BY <3>1, <3>2, <3>3
  <2> QED
    BY <2>1, <2>2, <2>5, <2>6, <2>7 DEF Adds
<1>3. \/ v = Append(w, r)
      \/ v = w /\ Len(w) \in 1..Len(w) /\ w[Len(w)] = r
  BY Append1Cases
<1> QED
  BY <1>1, <1>2, <1>3, ZenonT(40)

LEMMA AppendShows ==
  ASSUME NEW w \in Seq(StreamRecords), NEW r \in StreamRecords,
         NEW v \in {Append(w, r), Append1(w, r)}
  PROVE  /\ v \in Seq(StreamRecords) /\ v # << >>
         /\ \A x : Has(v, x) <=> Has(w, x) \/ x = r
         /\ HasPixel(v) <=> HasPixel(w) \/ r \in Pixels
         /\ LastLit(v) <=> r = "lit" \/ (r \notin Pixels /\ LastLit(w))
         /\ LastPaused(v) <=> r = "paused" \/ (r \notin Acks /\ LastPaused(w))
<1>1. Adds(v, w, r)
  BY AppendEffect
<1>2. "lit" \in Pixels /\ "paused" \in Acks
  BY DEF Pixels, Acks
<1>3. LastAmong(v, Len(v), Pixels, "lit") <=>
        "lit" = r \/ (r \notin Pixels /\ LastAmong(w, Len(w), Pixels, "lit"))
  BY <1>1, <1>2, Zenon DEF Adds
<1>4. LastAmong(v, Len(v), Acks, "paused") <=>
        "paused" = r \/ (r \notin Acks /\ LastAmong(w, Len(w), Acks, "paused"))
  BY <1>1, <1>2, Zenon DEF Adds
<1>5. LastLit(v) <=> r = "lit" \/ (r \notin Pixels /\ LastLit(w))
  BY <1>3 DEF LastLit
<1>6. LastPaused(v) <=> r = "paused" \/ (r \notin Acks /\ LastPaused(w))
  BY <1>4 DEF LastPaused
<1>7. /\ v \in Seq(StreamRecords) /\ v # << >>
      /\ \A x : Has(v, x) <=> Has(w, x) \/ x = r
      /\ HasPixel(v) <=> HasPixel(w) \/ r \in Pixels
  BY <1>1, Zenon DEF Adds
<1> QED
  BY <1>5, <1>6, <1>7, Zenon

\* What a record must meet.
MayFollow(w, good, r) ==
  /\ r = "header" <=> w = << >>
  /\ r = "lit" => HasPixel(w) /\ ~LastPaused(w)
  /\ r \in {"end", "restart", "close"} /\ good => ~LastLit(w)
  /\ ~Has(w, "close")
  /\ r \in Pixels => ~Has(w, "end") /\ ~Has(w, "restart")

LEMMA AppendGrammar ==
  ASSUME NEW w \in Seq(StreamRecords), NEW r \in StreamRecords, NEW good \in BOOLEAN,
         Grammatical(w, good), MayFollow(w, good, r),
         NEW v \in {Append(w, r), Append1(w, r)}
  PROVE  Grammatical(v, good)
<1>1. CASE v = w
  BY <1>1
<1>2. CASE v = Append(w, r)
  <2> DEFINE n == Len(w)
  <2>1. /\ v \in Seq(StreamRecords) /\ n \in Nat /\ DOMAIN w = 1..n /\ DOMAIN v = 1..(n + 1)
        /\ Len(v) = n + 1 /\ v[n + 1] = r /\ \A i \in 1..n : v[i] = w[i]
    BY <1>2, AppendFacts
  <2>2. w = << >> <=> n = 0
    OBVIOUS
  <2> HIDE DEF n
  <2>3. ASSUME NEW i \in 0..n, NEW kinds, NEW x
        PROVE  LastAmong(v, i, kinds, x) <=> LastAmong(w, i, kinds, x)
    <3>1. \A j \in 1..i : j \in 1..n
      BY <2>1
    <3>2. \A j \in 1..i : \A l \in j + 1..i : l \in 1..n
      BY <2>1
    <3> QED
      BY <2>1, <3>1, <3>2 DEF LastAmong
  <2>4. ASSUME NEW i \in 1..n
        PROVE  GrammarAt(v, good, i)
    <3>1. GrammarAt(w, good, i)
      BY <2>1 DEF Grammatical
    <3>2. i - 1 \in 0..n /\ \A j \in 1..i - 1 : v[j] = w[j]
      BY <2>1
    <3>3. v[i] = w[i]
      BY <2>1
    <3>4. \A kinds, x : LastAmong(v, i - 1, kinds, x) <=> LastAmong(w, i - 1, kinds, x)
      BY <2>3, <3>2
    <3> QED
      BY <3>1, <3>2, <3>3, <3>4 DEF GrammarAt
  <2>5. GrammarAt(v, good, n + 1)
    <3>1. n + 1 - 1 = n /\ n \in 0..n
      BY <2>1
    <3>2. \A kinds, x : LastAmong(v, n, kinds, x) <=> LastAmong(w, n, kinds, x)
      BY <2>3, <3>1
    <3>3. n + 1 = 1 <=> n = 0
      BY <2>1
    <3>4. \A j \in 1..n : v[j] # "close" /\ (r \in Pixels => v[j] \notin {"end", "restart"})
      BY <2>1 DEF MayFollow, Has
    <3>5. r = "lit" => /\ \E j \in 1..n : v[j] \in Pixels
                       /\ ~LastAmong(v, n, Acks, "paused")
      BY <2>1, <3>2 DEF MayFollow, HasPixel, LastPaused, n
    <3>6. r \in {"end", "restart", "close"} /\ good => ~LastAmong(v, n, Pixels, "lit")
      BY <3>2 DEF MayFollow, LastLit, n
    <3> QED
      BY <2>1, <2>2, <3>1, <3>3, <3>4, <3>5, <3>6 DEF GrammarAt, MayFollow
  <2> QED
    <3>1. \A i \in 1..(n + 1) : i = n + 1 \/ i \in 1..n
      BY <2>1
    <3> QED
      BY <2>1, <2>4, <2>5, <3>1 DEF Grammatical
<1> QED
  BY <1>1, <1>2, Append1Cases

-----------------------------------------------------------------------------
(* The output stage.                                                       *)
Outs == [stage : StageRecords, sink : SinkRecords, wire : Seq(StreamRecords), ok : BOOLEAN]

\* A stage in the middle of a replay, and its stream.
OutOk(o) ==
  /\ o \in Outs /\ StreamOk(o.wire, o.sink)
  /\ o.stage.last = "black" => ~LastLit(o.wire)
  /\ ~Has(o.wire, "close") /\ ~Has(o.wire, "end") /\ ~Has(o.wire, "restart")

\* What drawing keeps.
Extends(o, n) ==
  /\ LastPaused(n.wire) <=> LastPaused(o.wire)
  /\ HasPixel(o.wire) => HasPixel(n.wire)
  /\ o.sink.header => n.sink.header
  /\ n.sink.good => o.sink.good

\* What it does.
Wrote(x, s, w, r, ok) ==
  /\ x.sink \in SinkRecords /\ x.ok = (s.good /\ ok) /\ x.sink.good = x.ok
  /\ x.sink.header <=> (s.header \/ x.ok)
  /\ x.wire \in Seq(StreamRecords) /\ StreamOk(x.wire, x.sink)
  /\ ~x.ok => x.wire = w
  /\ x.ok => /\ \A y : Has(x.wire, y) <=> Has(w, y) \/ y = r
                                           \/ (y = "header" /\ w = << >>)
             /\ HasPixel(x.wire) <=> HasPixel(w) \/ r \in Pixels
             /\ LastLit(x.wire) <=> r = "lit" \/ (r \notin Pixels /\ LastLit(w))
             /\ LastPaused(x.wire) <=>
                  r = "paused" \/ (r \notin Acks /\ LastPaused(w))

\* A record written to the stream, after the header if that is missing.
LEMMA StreamWriteEffect ==
  ASSUME NEW s \in SinkRecords, NEW w \in Seq(StreamRecords), StreamOk(w, s),
         NEW r \in StreamRecords \ {"header"}, NEW ok \in BOOLEAN,
         s.good => MayFollow(w, TRUE, r) \/ (w = << >> /\ r # "lit"),
         NEW x, x = StreamWrite(s, w, r, ok)
  PROVE  Wrote(x, s, w, r, ok)
<1> DEFINE good == s.good /\ ok
           open == IF s.header THEN w ELSE Append1(w, "header")
<1>1. /\ x.sink = [s EXCEPT !.good = good, !.header = s.header \/ good]
      /\ x.wire = IF good THEN Append1(open, r) ELSE w
      /\ x.ok = good
  BY DEF StreamWrite
<1>2. /\ x.sink \in SinkRecords /\ x.sink.good = good
      /\ x.sink.header <=> (s.header \/ good)
  BY <1>1 DEF SinkRecords
<1>3. s.header <=> w # << >>
  BY DEF StreamOk
<1>4. CASE ~good
  <2>1. Grammatical(w, s.good) => Grammatical(w, FALSE)
    BY DEF Grammatical, GrammarAt
  <2>2. StreamOk(x.wire, x.sink)
    BY <1>1, <1>2, <1>3, <1>4, <2>1 DEF StreamOk
  <2> QED
    BY <1>1, <1>2, <1>4, <2>2 DEF Wrote
<1>5. CASE good
  <2>1. Grammatical(w, TRUE) /\ s.good = TRUE
    BY <1>5 DEF StreamOk
  <2>2. /\ open \in Seq(StreamRecords) /\ open # << >> /\ Grammatical(open, TRUE)
        /\ \A y : Has(open, y) <=> Has(w, y) \/ (y = "header" /\ w = << >>)
        /\ HasPixel(open) <=> HasPixel(w)
        /\ LastLit(open) <=> LastLit(w)
        /\ LastPaused(open) <=> LastPaused(w)
    <3>1. CASE s.header
      BY <1>3, <2>1, <3>1
    <3>2. CASE ~s.header
      <4>1. w = << >> /\ open = Append1(w, "header")
        BY <1>3, <3>2
      <4>2. MayFollow(w, TRUE, "header")
        BY <4>1 DEF MayFollow, Has, Pixels
      <4>3. "header" \in StreamRecords /\ "header" \notin Pixels /\ "header" \notin Acks
            /\ "lit" \in Pixels /\ "paused" \in Acks
        BY DEF StreamRecords, Pixels, Acks
      <4> HIDE DEF open
      <4>4. Grammatical(open, TRUE)
        BY <2>1, <4>1, <4>2, <4>3, AppendGrammar
      <4>5. /\ open \in Seq(StreamRecords) /\ open # << >>
            /\ \A y : Has(open, y) <=> Has(w, y) \/ y = "header"
            /\ HasPixel(open) <=> HasPixel(w) \/ "header" \in Pixels
            /\ LastLit(open) <=> "header" = "lit" \/ ("header" \notin Pixels /\ LastLit(w))
            /\ LastPaused(open) <=>
                 "header" = "paused" \/ ("header" \notin Acks /\ LastPaused(w))
        BY <4>1, <4>3, AppendShows
      <4> QED
        BY <4>1, <4>3, <4>4, <4>5
    <3> QED
      BY <3>1, <3>2
  <2> HIDE DEF open
  <2>3. MayFollow(open, TRUE, r)
    <3>1. CASE w = << >>
      <4>1. ~HasPixel(w) /\ ~LastLit(w) /\ ~LastPaused(w) /\ \A y : ~Has(w, y)
        <5>1. Len(w) = 0 /\ DOMAIN w = {} /\ 1..0 = {}
          BY <3>1
        <5> QED
          BY <5>1 DEF HasPixel, LastLit, LastPaused, LastAmong, Has
      <4>2. r # "lit"
        <5>1. MayFollow(w, TRUE, r) => r # "lit"
          BY <4>1 DEF MayFollow
        <5> QED
          BY <2>1, <5>1
      <4> QED
        BY <2>2, <4>1, <4>2 DEF MayFollow
    <3>2. CASE w # << >>
      <4>1. MayFollow(w, TRUE, r)
        BY <2>1, <3>2
      <4> QED
        BY <2>2, <3>2, <4>1 DEF MayFollow
    <3> QED
      BY <3>1, <3>2
  <2>4. x.wire = Append1(open, r)
    BY <1>1, <1>5
  <2>5. Grammatical(x.wire, TRUE)
    BY <2>2, <2>3, <2>4, AppendGrammar
  <2>7. /\ x.wire \in Seq(StreamRecords) /\ x.wire # << >>
        /\ \A y : Has(x.wire, y) <=> Has(open, y) \/ y = r
        /\ HasPixel(x.wire) <=> HasPixel(open) \/ r \in Pixels
        /\ LastLit(x.wire) <=> r = "lit" \/ (r \notin Pixels /\ LastLit(open))
        /\ LastPaused(x.wire) <=> r = "paused" \/ (r \notin Acks /\ LastPaused(open))
    BY <2>2, <2>4, AppendShows
  <2>10. StreamOk(x.wire, x.sink)
    BY <1>2, <1>5, <2>5, <2>7 DEF StreamOk
  <2> QED
    BY <1>1, <1>2, <1>5, <2>2, <2>7, <2>10 DEF Wrote
<1> QED
  BY <1>4, <1>5

\* A frame d was drawn, or the stream failed.
Drew(o, n, d) ==
  /\ OutOk(n) /\ Extends(o, n)
  /\ n.ok => n.stage.last = d
  /\ ~n.ok => ~n.sink.good

LEMMA EmptyStream ==
  ASSUME NEW w, w = << >>
  PROVE  ~HasPixel(w) /\ ~LastLit(w) /\ ~LastPaused(w) /\ \A y : ~Has(w, y)
<1>1. Len(w) = 0 /\ DOMAIN w = {} /\ 1..0 = {}
  OBVIOUS
<1> QED
  BY <1>1 DEF HasPixel, LastLit, LastPaused, LastAmong, Has

LEMMA OutFields ==
  ASSUME NEW o, OutOk(o)
  PROVE  /\ o.stage \in StageRecords /\ o.sink \in SinkRecords
         /\ o.sink.good \in BOOLEAN /\ o.sink.header \in BOOLEAN
         /\ o.wire \in Seq(StreamRecords) /\ o.ok \in BOOLEAN
         /\ o = [stage |-> o.stage, sink |-> o.sink, wire |-> o.wire, ok |-> o.ok]
<1>1. o \in Outs
  BY DEF OutOk
<1>2. o.sink \in SinkRecords
  BY <1>1 DEF Outs
<1> QED
  BY <1>1, <1>2 DEF Outs, SinkRecords

\* A stage that remembers the same pixels, or none.
LEMMA StageReplaced ==
  ASSUME NEW o, OutOk(o), NEW st \in StageRecords, st.last \in {o.stage.last, "none"},
         NEW n, n = [o EXCEPT !.stage = st]
  PROVE  OutOk(n) /\ Extends(o, n) /\ n.stage = st /\ n.sink = o.sink /\ n.wire = o.wire
<1>1. n = [stage |-> st, sink |-> o.sink, wire |-> o.wire, ok |-> o.ok]
  BY OutFields
<1>2. n \in Outs
  BY <1>1, OutFields DEF Outs
<1>3. n.stage = st /\ n.sink = o.sink /\ n.wire = o.wire
  BY <1>1
<1>4. n.stage.last = "black" => o.stage.last = "black"
  BY <1>3
<1> QED
  BY <1>2, <1>3, <1>4 DEF OutOk, Extends

LEMMA WriteDesiredDraws ==
  ASSUME NEW o, OutOk(o), NEW d \in Pixels, NEW ok \in BOOLEAN,
         d = "lit" => HasPixel(o.wire) /\ ~LastPaused(o.wire),
         NEW n, n = WriteDesired(o, d, ok)
  PROVE  Drew(o, n, d) /\ (n.ok /\ o.stage.last # d => HasPixel(n.wire))
<1>0. /\ o.stage \in StageRecords /\ o.sink \in SinkRecords
      /\ o.sink.good \in BOOLEAN /\ o.sink.header \in BOOLEAN
      /\ o.wire \in Seq(StreamRecords) /\ o.ok \in BOOLEAN
      /\ o = [stage |-> o.stage, sink |-> o.sink, wire |-> o.wire, ok |-> o.ok]
  BY OutFields
<1>1. CASE o.stage.last = d
  <2>1. n = [stage |-> o.stage, sink |-> o.sink, wire |-> o.wire, ok |-> TRUE]
    BY <1>0, <1>1 DEF WriteDesired
  <2>2. n \in Outs
    BY <1>0, <2>1 DEF Outs
  <2>3. n.stage = o.stage /\ n.sink = o.sink /\ n.wire = o.wire /\ n.ok = TRUE
    BY <2>1
  <2> QED
    BY <1>0, <1>1, <2>2, <2>3 DEF OutOk, Extends, Drew
<1>2. CASE o.stage.last # d
  <2> DEFINE x == StreamWrite(o.sink, o.wire, d, ok)
             st == [o.stage EXCEPT !.last = IF x.ok THEN d ELSE "none",
                                   !.faulted = o.stage.faulted \/ ~x.ok]
  <2>1. n = [stage |-> st, sink |-> x.sink, wire |-> x.wire, ok |-> x.ok]
    BY <1>2 DEF WriteDesired
  <2> HIDE DEF x
  <2>2. d \in StreamRecords \ {"header"} /\ d \notin Acks /\ d # "close" /\ d # "end" /\ d # "restart"
        /\ d # "header"
    BY DEF StreamRecords, Pixels, Acks
  <2>3. StreamOk(o.wire, o.sink)
    BY DEF OutOk
  <2>4. MayFollow(o.wire, TRUE, d) \/ (o.wire = << >> /\ d # "lit")
    <3>1. CASE o.wire = << >>
      BY <3>1, EmptyStream
    <3>2. CASE o.wire # << >>
      BY <2>2, <3>2 DEF MayFollow, OutOk
    <3> QED
      BY <3>1, <3>2
  <2>50. ok \in BOOLEAN /\ o.sink \in SinkRecords /\ o.wire \in Seq(StreamRecords)
    BY <1>0
  <2>51. Wrote(x, o.sink, o.wire, d, ok)
    BY <2>2, <2>3, <2>4, <2>50, StreamWriteEffect DEF x
  <2>5. /\ x.sink \in SinkRecords /\ x.ok = (o.sink.good /\ ok) /\ x.sink.good = x.ok
        /\ x.sink.header <=> (o.sink.header \/ x.ok)
        /\ x.wire \in Seq(StreamRecords) /\ StreamOk(x.wire, x.sink)
        /\ ~x.ok => x.wire = o.wire
        /\ x.ok => /\ \A y : Has(x.wire, y) <=> Has(o.wire, y) \/ y = d
                                                 \/ (y = "header" /\ o.wire = << >>)
                   /\ HasPixel(x.wire) <=> HasPixel(o.wire) \/ d \in Pixels
                   /\ LastLit(x.wire) <=> d = "lit" \/ (d \notin Pixels /\ LastLit(o.wire))
                   /\ LastPaused(x.wire) <=>
                        d = "paused" \/ (d \notin Acks /\ LastPaused(o.wire))
    BY <2>51 DEF Wrote
  <2>6. st \in StageRecords /\ st.last = IF x.ok THEN d ELSE "none"
    BY <1>0, <2>5 DEF StageRecords, Pixels
  <2> HIDE DEF st
  <2>7. n \in Outs /\ n.stage = st /\ n.sink = x.sink /\ n.wire = x.wire /\ n.ok = x.ok
    BY <1>0, <2>1, <2>5, <2>6 DEF Outs
  <2>8. ~Has(x.wire, "close") /\ ~Has(x.wire, "end") /\ ~Has(x.wire, "restart")
    BY <2>2, <2>5 DEF OutOk
  <2>9. st.last = "black" => ~LastLit(x.wire)
    BY <2>2, <2>5, <2>6 DEF Pixels
  <2>10. OutOk(n)
    BY <2>5, <2>7, <2>8, <2>9 DEF OutOk
  <2>11. /\ LastPaused(x.wire) <=> LastPaused(o.wire)
         /\ HasPixel(o.wire) => HasPixel(x.wire)
         /\ o.sink.header => x.sink.header
         /\ x.sink.good => o.sink.good
    BY <1>0, <2>2, <2>5 DEF Acks
  <2>12. Extends(o, n)
    BY <2>7, <2>11 DEF Extends
  <2>13. (n.ok => n.stage.last = d) /\ (~n.ok => ~n.sink.good)
    BY <2>5, <2>6, <2>7
  <2>14. n.ok => HasPixel(n.wire)
    BY <2>5, <2>7
  <2> QED
    BY <2>10, <2>12, <2>13, <2>14 DEF Drew
<1> QED
  BY <1>1, <1>2

LEMMA ExtendsOn ==
  ASSUME NEW o, NEW m, NEW n, Extends(o, m), NEW d, Drew(m, n, d)
  PROVE  Drew(o, n, d)
BY DEF Extends, Drew

LEMMA FailOffDraws ==
  ASSUME NEW o, OutOk(o), NEW ok \in BOOLEAN, NEW n, n = FailOff(o, ok)
  PROVE  Drew(o, n, "black")
<1> DEFINE st == Applied(o.stage, "off")
           m == [o EXCEPT !.stage = st]
<1>1. st \in StageRecords /\ st.last = o.stage.last
  BY OutFields DEF Applied, StageRecords, Mail
<1>2. n = WriteDesired(m, "black", ok)
  BY DEF FailOff
<1> HIDE DEF st
<1>3. OutOk(m) /\ Extends(o, m)
  BY <1>1, StageReplaced
<1> HIDE DEF m
<1>4. "black" \in Pixels
  BY DEF Pixels
<1>5. Drew(m, n, "black")
  BY <1>2, <1>3, <1>4, WriteDesiredDraws
<1> QED
  BY <1>3, <1>5, ExtendsOn

LEMMA StageStartDraws ==
  ASSUME NEW o, OutOk(o), NEW ok \in BOOLEAN, NEW n, n = StageStart(o, ok)
  PROVE  Drew(o, n, "black") /\ (n.ok => HasPixel(n.wire))
<1> DEFINE st == [o.stage EXCEPT !.last = "none", !.faulted = FALSE]
           m == [o EXCEPT !.stage = st]
<1>1. st \in StageRecords /\ st.last = "none"
  BY OutFields DEF StageRecords
<1>2. n = WriteDesired(m, "black", ok)
  <2>1. [o EXCEPT !.stage.last = "none", !.stage.faulted = FALSE] = m
    BY OutFields
  <2> QED
    BY <2>1 DEF StageStart
<1> HIDE DEF st
<1>3. OutOk(m) /\ Extends(o, m) /\ m.stage.last # "black"
  BY <1>1, StageReplaced
<1> HIDE DEF m
<1>4. "black" \in Pixels
  BY DEF Pixels
<1>5. Drew(m, n, "black") /\ (n.ok => HasPixel(n.wire))
  BY <1>2, <1>3, <1>4, WriteDesiredDraws
<1> QED
  BY <1>3, <1>5, ExtendsOn

LEMMA StageTickDraws ==
  ASSUME NEW o, OutOk(o), HasPixel(o.wire), ~LastPaused(o.wire), NEW ok \in BOOLEAN,
         NEW burns \in BOOLEAN, NEW n, n = StageTick(o, ok, burns)
  PROVE  OutOk(n) /\ Extends(o, n) /\ (~n.ok => ~n.sink.good)
<1> DEFINE st == IF o.stage.mail = "none" THEN o.stage ELSE Applied(o.stage, o.stage.mail)
           d == Drawn(st, burns)
           m == [o EXCEPT !.stage = st]
<1>1. st \in StageRecords /\ st.last = o.stage.last
  BY OutFields DEF Applied, StageRecords, Mail
<1>2. n = WriteDesired(m, d, ok)
  BY DEF StageTick
<1>3. d \in Pixels
  BY DEF Drawn, Pixels
<1> HIDE DEF d
<1> HIDE DEF st
<1>4. OutOk(m) /\ Extends(o, m) /\ m.wire = o.wire
  BY <1>1, StageReplaced
<1> HIDE DEF m
<1>5. Drew(m, n, d)
  BY <1>2, <1>3, <1>4, WriteDesiredDraws
<1>6. Drew(o, n, d)
  BY <1>4, <1>5, ExtendsOn
<1> QED
  BY <1>6 DEF Drew

LEMMA EngineRanKeeps ==
  ASSUME NEW o, OutOk(o), NEW m \in Mail, NEW n, n = EngineRan(o, m)
  PROVE  OutOk(n) /\ Extends(o, n) /\ n.wire = o.wire /\ n.sink = o.sink
<1>1. CASE m = "none"
  BY <1>1 DEF EngineRan, Extends
<1>2. CASE m # "none"
  <2> DEFINE st == [o.stage EXCEPT !.mail = m]
  <2>1. st \in StageRecords /\ st.last = o.stage.last
    BY OutFields DEF StageRecords
  <2>2. n = [o EXCEPT !.stage = st]
    BY <1>2, OutFields DEF EngineRan
  <2> HIDE DEF st
  <2> QED
    BY <2>1, <2>2, StageReplaced
<1> QED
  BY <1>1, <1>2

-----------------------------------------------------------------------------
(* The deadlines of run_replay().                                          *)

\* A set of integers with a least element, or none.
HasLeast(S) == S = {} \/ \E x \in S : \A y \in S : x \in Int /\ y \in Int /\ x <= y

LEMMA LeastOfUnion ==
  ASSUME NEW S, NEW T, HasLeast(S), HasLeast(T)
  PROVE  HasLeast(S \cup T)
<1>1. CASE S = {} \/ T = {}
  BY <1>1 DEF HasLeast
<1>2. CASE S # {} /\ T # {}
  <2>1. PICK x \in S : \A y \in S : x \in Int /\ y \in Int /\ x <= y
    BY <1>2 DEF HasLeast
  <2>2. PICK z \in T : \A y \in T : z \in Int /\ y \in Int /\ z <= y
    BY <1>2 DEF HasLeast
  <2>3. CASE x <= z
    <3>1. \A y \in S \cup T : x \in Int /\ y \in Int /\ x <= y
      BY <2>1, <2>2, <2>3
    <3> QED
      BY <3>1 DEF HasLeast
  <2>4. CASE ~(x <= z)
    <3>1. \A y \in S \cup T : z \in Int /\ y \in Int /\ z <= y
      BY <2>1, <2>2, <2>4
    <3> QED
      BY <3>1 DEF HasLeast
  <2> QED
    BY <2>3, <2>4
<1> QED
  BY <1>1, <1>2

LEMMA MinIsLeast ==
  ASSUME NEW S, HasLeast(S), S # {}
  PROVE  /\ Min(S) \in S /\ Min(S) \in Int
         /\ \A y \in S : y \in Int /\ Min(S) <= y
<1>1. \E x \in S : \A y \in S : x <= y
  BY DEF HasLeast
<1>2. Min(S) \in S /\ \A y \in S : Min(S) <= y
  BY <1>1 DEF Min
<1> QED
  BY <1>2 DEF HasLeast

LEMMA DeadlineIsTime ==
  ASSUME NEW current \in Int, NEW period \in Int, NEW end \in Int
  PROVE  NextDeadline(current, period, end) \in Int
BY DEF NextDeadline, None

\* What is due next, if anything is.
LEMMA DueIsTime ==
  ASSUME RecordInv
  PROVE  EarliestDue \in Int /\ NextFrameTime \in Int
<1>1. NextFrameTime \in Int
  <2>1. CASE next > Len(plan.frames)
    BY <2>1 DEF NextFrameTime, None
  <2>2. CASE ~(next > Len(plan.frames))
    <3> DEFINE f == plan.frames
    <3>1. f \in Seq(Int) /\ next \in Nat \ {0}
      BY DEF RecordInv, PlanOk
    <3> HIDE DEF f
    <3>2. Len(f) \in Nat /\ \A i \in 1..Len(f) : f[i] \in Int
      BY <3>1
    <3>3. next \in 1..Len(f)
      BY <2>2, <3>1, <3>2 DEF f
    <3>4. f[next] \in Int
      BY <3>2, <3>3
    <3> QED
      BY <2>2, <3>4 DEF NextFrameTime, f
  <2> QED
    BY <2>1, <2>2
<1> DEFINE One(x) == {x} \ {None}
           S == One(NextFrameTime) \cup One(cad.avail) \cup One(cad.poll)
                  \cup One(cad.sample) \cup One(cad.tick)
<1>2. ASSUME NEW x \in Int PROVE HasLeast(One(x))
  BY DEF HasLeast
<1>3. {cad.avail, cad.poll, cad.sample, cad.tick} \subseteq Int
  BY DEF RecordInv, CadRecords
<1>4. {NextFrameTime, cad.avail, cad.poll, cad.sample, cad.tick} \ {None} = S
  OBVIOUS
<1>5. /\ HasLeast(One(NextFrameTime)) /\ HasLeast(One(cad.avail)) /\ HasLeast(One(cad.poll))
      /\ HasLeast(One(cad.sample)) /\ HasLeast(One(cad.tick))
  BY <1>1, <1>2, <1>3
<1> HIDE DEF One
<1>6. HasLeast(S)
  BY <1>5, LeastOfUnion
<1> HIDE DEF S
<1>7. S # {} => Min(S) \in Int
  BY <1>6, MinIsLeast
<1>8. EarliestDue = IF S = {} THEN None ELSE Min(S)
  BY <1>4 DEF EarliestDue
<1>9. EarliestDue \in Int
  BY <1>7, <1>8 DEF None
<1> QED
  BY <1>1, <1>9

-----------------------------------------------------------------------------
(* The records of the replay keep their fields.                            *)

LEMMA ReplayMakesRecords ==
  ASSUME NEW p, NewReplay(p)
  PROVE  /\ gated' \in GatedRecords /\ BarOk(bar)' /\ ctl' \in CtlRecords
         /\ obs' \in ObsRecords /\ cad' \in CadRecords /\ next' \in Nat \ {0} /\ clock' \in Int
<1>1. gated' \in GatedRecords
  BY DEF NewReplay, NewGated, GatedRecords
<1>2. BarOk(bar)'
  BY DEF NewReplay, NewBarrier, BarRecords, BarOk
<1>3. ctl' \in CtlRecords
  BY DEF NewReplay, NewController, CtlRecords
<1>4. obs' \in ObsRecords
  BY DEF NewReplay, NewObservers, ObsRecords
<1>5. cad' \in CadRecords
  BY DEF NewReplay, NewCadences, CadRecords, None
<1>6. next' \in Nat \ {0} /\ clock' \in Int
  BY DEF NewReplay
<1> QED
  BY <1>1, <1>2, <1>3, <1>4, <1>5, <1>6

LEMMA RecordInit == ASSUME EmulatorInit PROVE RecordInv
<1> USE DEF EmulatorInit, Init
<1>1. gated \in GatedRecords /\ BarOk(bar)
  BY DEF NewGated, NewBarrier, GatedRecords, BarRecords, BarOk
<1>2. ctl \in CtlRecords /\ obs \in ObsRecords
  BY DEF NewController, NewObservers, CtlRecords, ObsRecords
<1>3. cad \in CadRecords /\ next \in Nat \ {0} /\ clock \in Int
  BY DEF NewCadences, CadRecords, None
<1>4. PlanOk(plan)
  BY DEF PlanOk, None
<1>5. mode \in {"render", "web"} /\ (pc \in WebOnly => mode = "web")
  BY DEF WebOnly
<1> QED
  BY <1>1, <1>2, <1>3, <1>4, <1>5 DEF RecordInv

\* What the observers may become.
LEMMA ObserverRecords ==
  ASSUME NEW o \in ObsRecords
  PROVE  /\ Saw(o) \in ObsRecords /\ Receive(o) \in ObsRecords
         /\ Open(o) \in ObsRecords /\ Detached(o) \in ObsRecords
         /\ [o EXCEPT !.attached = TRUE] \in ObsRecords
<1>1. Saw(o) \in ObsRecords /\ [o EXCEPT !.held = TRUE] \in ObsRecords
  BY DEF Saw, ObsRecords
<1>2. Receive(o) \in ObsRecords
  BY <1>1 DEF Receive
<1>3. Open(o) \in ObsRecords
  BY DEF Open, ObsRecords
<1>4. Detached(o) \in ObsRecords /\ [o EXCEPT !.attached = TRUE] \in ObsRecords
  BY DEF Detached, ObsRecords
<1> QED
  BY <1>1, <1>2, <1>3, <1>4

LEMMA LoadTypes == ASSUME RecordInv, Load PROVE RecordInv'
<1>1. PICK csv \in Captures, bus \in Buses, o \in Schedules, readable \in Outcome("load") :
        LET loaded == LoadFile(csv, bus, readable)
            last == IF loaded.frames = <<>> THEN 0 ELSE Last(loaded.frames)
        IN  IF loaded.ok
              THEN /\ plan' = [frames |-> loaded.frames, avail |-> o.avail, poll |-> o.poll,
                               tick |-> o.tick,
                               end |-> IF mode = "web" THEN last ELSE o.end,
                               sample |-> IF mode = "web" THEN None ELSE o.sample]
                   /\ pc' = IF mode = "web" THEN "serverStart" ELSE "run"
                   /\ UNCHANGED status
              ELSE status' = "LoadFailed" /\ pc' = "exit" /\ UNCHANGED plan
  BY DEF Load
<1> DEFINE f == LoadFile(csv, bus, readable).frames
<1>2. f \in Seq(Int)
  BY LoadedFrames
<1>3. f # << >> => Last(f) \in Int
  <2> HIDE DEF f
  <2>1. Len(f) \in Nat /\ \A i \in 1..Len(f) : f[i] \in Int
    BY <1>2
  <2>2. f # << >> => Len(f) \in 1..Len(f)
    BY <1>2, <2>1
  <2> QED
    BY <2>1, <2>2 DEF Last
<1>4. o.end \in Int /\ o.avail \in Int /\ o.poll \in Int /\ o.tick \in Int /\ o.sample \in Int
  BY SchedulesAssumption DEF None
<1>5. PlanOk(plan)'
  <2>1. CASE LoadFile(csv, bus, readable).ok
    <3> DEFINE last == IF f = << >> THEN 0 ELSE Last(f)
    <3>1. last \in Int
      BY <1>3
    <3>2. plan' = [frames |-> f, avail |-> o.avail, poll |-> o.poll, tick |-> o.tick,
                   end |-> IF mode = "web" THEN last ELSE o.end,
                   sample |-> IF mode = "web" THEN None ELSE o.sample]
      BY <1>1, <2>1
    <3> HIDE DEF last, f
    <3> QED
      BY <1>2, <1>4, <3>1, <3>2 DEF PlanOk, None
  <2>2. CASE ~LoadFile(csv, bus, readable).ok
    BY <1>1, <2>2 DEF RecordInv, PlanOk
  <2> QED
    BY <2>1, <2>2
<1> HIDE DEF f
<1>6. pc' \in WebOnly => mode = "web"
  BY <1>1 DEF WebOnly
<1> QED
  BY <1>5, <1>6 DEF Load, syncVars, ctlVars, RecordInv, WebOnly

\* An input step changes the gate, the barrier and the controller.
LEMMA InputTypes ==
  ASSUME RecordInv, NEW ask, ProcessInput(ask)
  PROVE  gated' \in GatedRecords /\ BarOk(bar)' /\ ctl' \in CtlRecords
<1>1. gated' \in GatedRecords
  BY DEF RecordInv, ProcessInput, GatedRecords
<1>2. BarOk(bar)'
  BY DEF RecordInv, ProcessInput, BarRecords, BarOk
<1>3. ctl' \in CtlRecords
  BY DEF RecordInv, ProcessInput, Fail, CtlRecords
<1> QED
  BY <1>1, <1>2, <1>3

LEMMA RecordStep == ASSUME RecordInv, Next PROVE RecordInv'
<1>0. /\ mode \in {"render", "web"} /\ (pc \in WebOnly => mode = "web")
      /\ gated \in GatedRecords /\ BarOk(bar) /\ ctl \in CtlRecords /\ obs \in ObsRecords
      /\ cad \in CadRecords /\ next \in Nat \ {0} /\ clock \in Int /\ PlanOk(plan)
  BY DEF RecordInv
<1> DEFINE Same == UNCHANGED <<mode, gated, bar, ctl, obs, cad, next, clock, plan>>
<1>1. ASSUME RunReplay PROVE RecordInv'
  <2>1. pc' \notin WebOnly /\ UNCHANGED <<mode, plan>> /\ NewReplay(plan)
    BY <1>1 DEF RunReplay, WebOnly
  <2> QED
    BY <1>0, <2>1, ReplayMakesRecords DEF RecordInv
<1>2. ASSUME PassEnds PROVE RecordInv'
  <2>1. mode = "web" /\ UNCHANGED <<mode, plan>> /\ NewReplay(plan)
    BY <1>2 DEF PassEnds
  <2> QED
    BY <1>0, <2>1, ReplayMakesRecords DEF RecordInv
<1>3. ASSUME Start PROVE RecordInv'
  <2>1. ctl' \in CtlRecords
    BY <1>0, <1>3 DEF Start, CtlRecords
  <2>2. BarOk(bar)'
    <3>1. bar' = bar \/ \E b \in BOOLEAN : bar' = [bar EXCEPT !.cancelled = b]
      <4> DEFINE Broke(fault) == fault \in {"observers", "telemetry"}
      <4>1. \A fault : Broke(fault) \in BOOLEAN
        OBVIOUS
      <4>2. UNCHANGED bar \/ \E fault : bar' = [bar EXCEPT !.cancelled = Broke(fault)]
        <5> HIDE DEF Broke
        <5>1. ASSUME NEW fault PROVE (fault \in {"observers", "telemetry"}) = Broke(fault)
          BY DEF Broke
        <5> QED
          BY <1>3, <5>1 DEF Start
      <4> HIDE DEF Broke
      <4> QED
        BY <4>1, <4>2
    <3> QED
      BY <1>0, <3>1 DEF BarRecords, BarOk
  <2>3. gated' \in GatedRecords
    BY <1>0, <1>3 DEF Start, GatedRecords
  <2>4. obs' \in ObsRecords
    BY <1>0, <1>3, ObserverRecords DEF Start
  <2>5. pc' \notin WebOnly /\ UNCHANGED <<mode, plan, clock, next, cad>>
    BY <1>3 DEF Start, WebOnly
  <2> QED
    BY <1>0, <2>1, <2>2, <2>3, <2>4, <2>5 DEF RecordInv
<1>4. ASSUME StartDrain PROVE RecordInv'
  <2> DEFINE d == NextDeadline(0, plan.avail, plan.end)
  <2>1. d \in Int
    <3>1. 0 \in Int /\ plan.avail \in Int /\ plan.end \in Int
      BY <1>0 DEF PlanOk
    <3> QED
      BY <3>1, DeadlineIsTime, Zenon
  <2> HIDE DEF d
  <2>2. obs' \in ObsRecords
    BY <1>0, <1>4, ObserverRecords DEF StartDrain
  <2>3. ctl' \in CtlRecords
    BY <1>0, <1>4 DEF StartDrain, CtlRecords
  <2>4. \/ UNCHANGED cad
        \/ cad' = [due |-> 0, poll |-> 0, tick |-> 0, eos |-> FALSE, avail |-> d,
                   sample |-> IF plan.sample = None THEN None ELSE 0]
    BY <1>4 DEF StartDrain, d
  <2>5. cad' \in CadRecords
    <3>1. CASE UNCHANGED cad
      BY <1>0, <3>1
    <3>2. CASE ~UNCHANGED cad
      <4>1. PICK x \in Int : cad' = [due |-> 0, poll |-> 0, tick |-> 0, eos |-> FALSE,
                                    avail |-> d, sample |-> x]
        BY <2>4, <3>2 DEF None
      <4> QED
        BY <2>1, <4>1 DEF CadRecords
    <3> QED
      BY <3>1, <3>2
  <2>6. pc' \notin WebOnly /\ UNCHANGED <<mode, plan, clock, next, gated, bar>>
    BY <1>4 DEF StartDrain, WebOnly, syncVars
  <2> QED
    BY <1>0, <2>2, <2>3, <2>5, <2>6 DEF RecordInv
<1>5. ASSUME Loop PROVE RecordInv'
  <2>1. cad' \in CadRecords
    BY <1>0, <1>5, DueIsTime DEF Loop, CadRecords, PlanOk
  <2>2. pc' \notin WebOnly /\ UNCHANGED <<mode, plan, clock, next, gated, bar, ctl, obs>>
    BY <1>5 DEF Loop, WebOnly, syncVars, ctlVars
  <2> QED
    BY <1>0, <2>1, <2>2 DEF RecordInv
<1>6. ASSUME Ungated \/ Release PROVE RecordInv'
  <2>1. clock' \in {clock, cad.due}
    BY <1>6 DEF Ungated, Release, AdvanceTo
  <2>2. clock' \in Int
    BY <1>0, <2>1 DEF CadRecords
  <2>3. pc' \notin WebOnly /\ UNCHANGED <<mode, plan, next, gated, bar, ctl, obs, cad>>
    BY <1>6 DEF Ungated, Release, AdvanceTo, WebOnly, syncVars, ctlVars
  <2> QED
    BY <1>0, <2>2, <2>3 DEF RecordInv
<1>7. ASSUME NEW ask, ProcessInput(ask) PROVE RecordInv'
  <2>1. pc' \notin WebOnly /\ UNCHANGED <<mode, plan, clock, next, obs, cad>>
    BY <1>7 DEF ProcessInput, Fail, WebOnly
  <2> QED
    BY <1>0, <1>7, <2>1, InputTypes DEF RecordInv
<1>8. ASSUME NEW to, Skip(to), to \notin WebOnly PROVE RecordInv'
  BY <1>0, <1>8 DEF Skip, syncVars, ctlVars, RecordInv
<1>9. ASSUME Frames \/ EndOfStream \/ Availability \/ PublicationSeen PROVE RecordInv'
  BY <1>7, <1>8, <1>9 DEF Frames, EndOfStream, Availability, PublicationSeen, WebOnly
<1>10. ASSUME SynchronizationTimeout PROVE RecordInv'
  <2>1. ctl' \in CtlRecords
    BY <1>0, <1>10 DEF SynchronizationTimeout, Fail, CtlRecords
  <2>2. pc' \notin WebOnly /\ UNCHANGED <<mode, plan, clock, next, gated, bar, obs, cad>>
    BY <1>10 DEF SynchronizationTimeout, Fail, WebOnly, syncVars
  <2> QED
    BY <1>0, <2>1, <2>2 DEF RecordInv
<1>11. ASSUME Drain PROVE RecordInv'
  <2> DEFINE d == NextDeadline(cad.due, plan.avail, plan.end)
  <2>1. d \in Int
    BY <1>0, DeadlineIsTime DEF PlanOk, CadRecords
  <2> HIDE DEF d
  <2>2. obs' \in ObsRecords
    BY <1>0, <1>11, ObserverRecords DEF Drain
  <2>3. ctl' \in {ctl, [ctl EXCEPT !.state = "Failed"]}
    BY <1>11 DEF Drain, Fail
  <2>4. ctl' \in CtlRecords
    BY <1>0, <2>3 DEF CtlRecords
  <2>5. \/ UNCHANGED cad
        \/ cad' = [cad EXCEPT !.eos = cad.eos \/ step.ask = "EndOfStream",
                              !.avail = IF step.ask = "Timeout" THEN d ELSE cad.avail]
    BY <1>11 DEF Drain, d
  <2>6. cad' \in CadRecords
    BY <1>0, <2>1, <2>5 DEF CadRecords
  <2>7. pc' \notin WebOnly /\ UNCHANGED <<mode, plan, clock, next, gated, bar>>
    <3>1. InputResult \in {"Frame", "EndOfStream", "Timeout"}
      BY DEF InputResult
    <3> QED
      BY <1>11, <3>1 DEF Drain, Fail, syncVars, WebOnly
  <2> QED
    BY <1>0, <2>2, <2>4, <2>6, <2>7 DEF RecordInv
<1>12. ASSUME NEW kind, NEW o, NEW newCad, NEW to, Did(kind, o, newCad, to)
       PROVE  cad' = newCad /\ pc' = to /\ UNCHANGED ctl
  BY <1>12 DEF Did
<1>13. ASSUME NEW o, NEW off, Failed(o, off)
       PROVE  ctl' \in CtlRecords /\ pc' \notin WebOnly /\ UNCHANGED cad
  <2>1. ctl' = [ctl EXCEPT !.state = "Failed"]
    BY <1>13 DEF Failed, Fail
  <2>2. ctl' \in CtlRecords
    BY <1>0, <2>1 DEF CtlRecords
  <2> QED
    BY <1>13, <2>2 DEF Failed, Fail, WebOnly
<1>14. ASSUME Poll \/ SampleSignals \/ TickOutput PROVE RecordInv'
  <2> DEFINE p == NextDeadline(cad.due, plan.poll, plan.end)
             s == NextDeadline(cad.due, plan.sample, plan.end)
             t == NextDeadline(cad.due, plan.tick, plan.end)
  <2>1. p \in Int /\ s \in Int /\ t \in Int
    <3>1. cad.due \in Int /\ plan.poll \in Int /\ plan.sample \in Int /\ plan.tick \in Int
          /\ plan.end \in Int
      BY <1>0 DEF PlanOk, CadRecords
    <3> QED
      BY <3>1, DeadlineIsTime, Zenon
  <2> HIDE DEF p, s, t
  <2>2. ASSUME NEW c, c \in {[cad EXCEPT !.poll = p], [cad EXCEPT !.sample = s],
                            [cad EXCEPT !.tick = t]}
        PROVE  c \in CadRecords
    BY <1>0, <2>1, <2>2 DEF CadRecords
  <2>3. /\ UNCHANGED <<mode, plan, clock, next, gated, bar>> /\ obs' \in {obs, Saw(obs)}
        /\ pc' \notin WebOnly
        /\ \/ UNCHANGED <<cad, ctl>>
           \/ UNCHANGED ctl /\ cad' \in {[cad EXCEPT !.poll = p], [cad EXCEPT !.sample = s],
                                        [cad EXCEPT !.tick = t]}
           \/ UNCHANGED cad /\ ctl' \in CtlRecords
    <3>1. CASE Poll
      BY <1>12, <1>13, <3>1 DEF Poll, Skip, syncVars, ctlVars, WebOnly, p
    <3>2. CASE SampleSignals
      BY <1>12, <1>13, <3>2 DEF SampleSignals, Skip, syncVars, ctlVars, WebOnly, s
    <3>3. CASE TickOutput
      BY <1>12, <1>13, <3>3 DEF TickOutput, Skip, syncVars, ctlVars, WebOnly, t
    <3> QED
      BY <1>14, <3>1, <3>2, <3>3
  <2>4. cad' \in CadRecords /\ ctl' \in CtlRecords /\ obs' \in ObsRecords
    BY <1>0, <2>2, <2>3, ObserverRecords
  <2> QED
    BY <1>0, <2>3, <2>4 DEF RecordInv
<1>15. ASSUME Cancel PROVE RecordInv'
  <2>1. BarOk(bar)'
    <3>1. bar' = [bar EXCEPT !.cancelled = TRUE, !.released = bar.completed]
      BY <1>15 DEF Cancel
    <3> DEFINE n == bar.completed
    <3>2. n \in Nat
      BY <1>0 DEF BarOk, BarRecords
    <3>3. bar' = [bar EXCEPT !.cancelled = TRUE, !.released = n]
      BY <3>1
    <3>4. bar'.completed = n
      BY <1>0, <3>1 DEF BarOk, BarRecords
    <3> HIDE DEF n
    <3>5. bar' \in BarRecords /\ bar'.released = n
      BY <1>0, <3>2, <3>3 DEF BarOk, BarRecords
    <3> QED
      BY <3>2, <3>4, <3>5 DEF BarOk
  <2>2. pc' \notin WebOnly /\ UNCHANGED <<mode, plan, clock, next, gated, ctl, obs, cad>>
    BY <1>15 DEF Cancel, WebOnly, ctlVars
  <2> QED
    BY <1>0, <2>1, <2>2 DEF RecordInv
<1>16. ASSUME StopTelemetry PROVE RecordInv'
  <2>1. gated' \in GatedRecords
    BY <1>0, <1>16 DEF StopTelemetry, GatedRecords
  <2>2. pc' \notin WebOnly /\ UNCHANGED <<mode, plan, clock, next, bar, ctl, obs, cad>>
    BY <1>16 DEF StopTelemetry, WebOnly
  <2> QED
    BY <1>0, <2>1, <2>2 DEF RecordInv
<1>17. ASSUME StopDone \/ StopTimesOut PROVE RecordInv'
  <2>1. /\ ctl' \in {[ctl EXCEPT !.state = "Stopped"], [ctl EXCEPT !.state = "Failed"]}
        /\ obs' \in {obs, Detached(obs)} /\ pc' = "destroy"
        /\ UNCHANGED <<mode, plan, clock, next, gated, bar, cad>>
    BY <1>17 DEF StopDone, StopTimesOut, FinishStop, syncVars
  <2>2. ctl' \in CtlRecords
    BY <1>0, <2>1 DEF CtlRecords
  <2>3. obs' \in ObsRecords
    BY <1>0, <2>1, ObserverRecords
  <2> QED
    BY <1>0, <2>1, <2>2, <2>3 DEF RecordInv, WebOnly
<1>18. ASSUME Destroy PROVE RecordInv'
  <2>1. ctl' \in CtlRecords
    <3>1. ctl' = ctl \/ (/\ ctl.tries > 0
                        /\ ctl' = [ctl EXCEPT !.caller = "destructor",
                                              !.tries = ctl.tries - 1])
      BY <1>18 DEF Destroy
    <3>2. ASSUME ctl.tries > 0
          PROVE  [ctl EXCEPT !.caller = "destructor", !.tries = ctl.tries - 1] \in CtlRecords
      <4>1. ctl.tries \in 0..2
        BY <1>0 DEF CtlRecords
      <4>2. ctl.tries - 1 \in 0..2
        BY <3>2, <4>1
      <4> DEFINE n == ctl.tries - 1
      <4> HIDE DEF n
      <4>3. n \in 0..2 => [ctl EXCEPT !.caller = "destructor", !.tries = n] \in CtlRecords
        BY <1>0 DEF CtlRecords
      <4> QED
        BY <4>2, <4>3 DEF n
    <3> QED
      BY <1>0, <3>1, <3>2
  <2>2. pc' \notin WebOnly /\ UNCHANGED <<mode, plan, clock, next, gated, bar, obs, cad>>
    BY <1>18 DEF Destroy, WebOnly, syncVars
  <2> QED
    BY <1>0, <2>1, <2>2 DEF RecordInv
<1>19. ASSUME RenderEnds PROVE RecordInv'
  BY <1>0, <1>19 DEF RenderEnds, syncVars, ctlVars, RecordInv, WebOnly
<1>20. ASSUME BeginPass PROVE RecordInv'
  <2>1. clock' = 0 /\ mode = "web"
    BY <1>0, <1>20 DEF BeginPass, WebOnly
  <2> QED
    BY <1>0, <1>20, <2>1 DEF BeginPass, syncVars, ctlVars, RecordInv
<1>21. ASSUME ServerStart \/ Accept \/ ServeEnds \/ SendRestart \/ Finish \/ EndSession
       PROVE  RecordInv'
  <2>1. mode = "web" /\ UNCHANGED replayVars
    BY <1>0, <1>21
       DEF ServerStart, Accept, ServeEnds, SendRestart, Finish, EndSession, WebOnly
  <2> QED
    BY <1>0, <2>1 DEF replayVars, syncVars, ctlVars, RecordInv
<1>22. ASSUME PollClosed \/ PollReceives \/ PollFrame PROVE RecordInv'
  <2>1. mode = "web" /\ UNCHANGED replayVars
    BY <1>0, <1>22 DEF PollClosed, PollReceives, PollFrame, Polling, Gating, WebOnly
  <2> QED
    BY <1>0, <2>1 DEF replayVars, syncVars, ctlVars, RecordInv
<1>23. ASSUME BrowserSends \/ BrowserLeaves \/ WallTick \/ RequestShutdown PROVE RecordInv'
  <2>1. UNCHANGED <<replayVars, pc>>
    BY <1>23 DEF BrowserSends, BrowserLeaves, WallTick, RequestShutdown
  <2> QED
    BY <1>0, <2>1 DEF replayVars, syncVars, ctlVars, RecordInv
<1>24. ASSUME Worker PROVE RecordInv'
  <2>1. gated' \in GatedRecords
    BY <1>0, <1>24 DEF Worker, WorkerWakes, WorkerReceives, PublicationCompleted,
                       WorkerReleased, GatedRecords
  <2>2. BarOk(bar)'
    BY <1>0, <1>24 DEF Worker, WorkerWakes, WorkerReceives, PublicationCompleted,
                       WorkerReleased, BarRecords, BarOk
  <2>3. next' \in Nat \ {0}
    BY <1>0, <1>24 DEF Worker, WorkerWakes, WorkerReceives, PublicationCompleted,
                       WorkerReleased
  <2>4. UNCHANGED <<mode, pc, plan, clock, ctl, obs, cad>>
    BY <1>24 DEF Worker, WorkerWakes, WorkerReceives, PublicationCompleted, WorkerReleased,
                 ctlVars
  <2> QED
    BY <1>0, <2>1, <2>2, <2>3, <2>4 DEF RecordInv
<1> QED
  <2>1. CASE Host
    BY <1>1, <1>3, <1>4, <1>5, <1>6, <1>9, <1>10, <1>11, <1>14, <1>15, <1>16, <1>17, <1>18,
       <1>19, <2>1, LoadTypes DEF Host, Controller
  <2>2. CASE Serving
    BY <1>2, <1>20, <1>21, <2>2 DEF Serving
  <2>3. CASE Player
    BY <1>6, <1>22, <2>3 DEF Player
  <2> QED
    BY <1>23, <1>24, <2>1, <2>2, <2>3 DEF Next, HostStep, WorkerStep

-----------------------------------------------------------------------------
(* The handshake.                                                          *)

\* Where a replay goes round.
Active == Asking \cup {"start", "startDrain", "wait"}

LEMMA AsksAreActive == Asking \subseteq Active /\ "wait" \notin Asking /\ "start" \notin Asking
                         /\ "startDrain" \notin Asking
BY DEF Active, Asking

\* What leaves or stays out of the loop.
Leaving ==
  \/ Load \/ SynchronizationTimeout \/ Cancel \/ StopTelemetry \/ StopDone \/ StopTimesOut
  \/ Destroy \/ RenderEnds \/ ServerStart \/ Accept \/ ServeEnds \/ BeginPass \/ PassEnds
  \/ SendRestart \/ Finish \/ EndSession \/ PollClosed

LEMMA LeavingLeaves == ASSUME Leaving PROVE pc' \notin Active
<1>1. ASSUME Load \/ SynchronizationTimeout \/ Cancel \/ StopTelemetry \/ Destroy \/ RenderEnds
      PROVE  pc' \notin Active
  BY <1>1 DEF Load, SynchronizationTimeout, Cancel, StopTelemetry, Destroy, RenderEnds, Fail,
              Active, Asking
<1>2. ASSUME StopDone \/ StopTimesOut PROVE pc' \notin Active
  BY <1>2 DEF StopDone, StopTimesOut, FinishStop, Active, Asking
<1>3. ASSUME ServerStart \/ Accept \/ ServeEnds \/ BeginPass PROVE pc' \notin Active
  BY <1>3 DEF ServerStart, Accept, ServeEnds, BeginPass, Active, Asking
<1>4. ASSUME PassEnds \/ SendRestart \/ Finish \/ EndSession \/ PollClosed PROVE pc' \notin Active
  BY <1>4 DEF PassEnds, SendRestart, Finish, EndSession, PollClosed, Interrupt, Active, Asking
<1> QED
  BY <1>1, <1>2, <1>3, <1>4 DEF Leaving

\* What the gate, the browser and the clock do leaves the host where it is, or ends the wait.
Watching == PollReceives \/ PollFrame \/ BrowserSends \/ BrowserLeaves \/ WallTick \/ RequestShutdown

LEMMA WatchingStays ==
  ASSUME Watching
  PROVE  /\ UNCHANGED replayVars
         /\ pc' = pc \/ pc' \notin Active
<1>1. UNCHANGED replayVars
  BY DEF Watching, PollReceives, PollFrame, BrowserSends, BrowserLeaves, WallTick,
         RequestShutdown
<1>2. ASSUME PollFrame PROVE pc' = pc \/ pc' \notin Active
  BY <1>2 DEF PollFrame, Interrupt, Active, Asking
<1> QED
  BY <1>1, <1>2 DEF Watching, PollReceives, BrowserSends, BrowserLeaves, WallTick,
                    RequestShutdown

\* What works between two grants.
Working == Loop \/ Ungated \/ Release \/ Drain \/ Poll \/ SampleSignals \/ TickOutput

LEMMA WorkingStays ==
  ASSUME Working
  PROVE  /\ UNCHANGED <<mode, plan, gated, bar, worker, next, step, tele, attached>>
         /\ pc \in Asking
         /\ pc' \in Active => pc' \in Asking /\ UNCHANGED ctl
<1>1. ASSUME Loop PROVE (pc' \in Asking /\ UNCHANGED ctl) \/ pc' \notin Active
  BY <1>1 DEF Loop, Active, Asking, ctlVars
<1>2. ASSUME Ungated \/ Release PROVE (pc' \in Asking /\ UNCHANGED ctl) \/ pc' \notin Active
  BY <1>2 DEF Ungated, Release, AdvanceTo, Active, Asking, ctlVars
<1>3. ASSUME Drain PROVE (pc' \in Asking /\ UNCHANGED ctl) \/ pc' \notin Active
  <2>1. InputResult \in {"Frame", "EndOfStream", "Timeout"}
    BY DEF InputResult
  <2> QED
    BY <1>3, <2>1 DEF Drain, Fail, Active, Asking
<1>4. ASSUME Poll \/ SampleSignals \/ TickOutput
      PROVE  (pc' \in Asking /\ UNCHANGED ctl) \/ pc' \notin Active
  <2>1. \A to : Skip(to) => pc' = to /\ UNCHANGED ctl
    BY DEF Skip, ctlVars
  <2>2. \A kind, o, c, to : Did(kind, o, c, to) => pc' = to /\ UNCHANGED ctl
    BY DEF Did
  <2>3. \A o, off : Failed(o, off) => pc' = "cancel"
    BY DEF Failed, Fail
  <2>4. "cancel" \notin Active /\ {"sample", "tick", "loop"} \subseteq Asking
    BY DEF Active, Asking
  <2> QED
    BY <1>4, <2>1, <2>2, <2>3, <2>4 DEF Poll, SampleSignals, TickOutput
<1>5. UNCHANGED <<mode, plan, gated, bar, worker, next, step, tele, attached>>
  <2>1. CASE Loop \/ Ungated \/ Release \/ Drain
    BY <2>1 DEF Loop, Ungated, Release, Drain, syncVars, ctlVars
  <2>2. CASE Poll \/ SampleSignals \/ TickOutput
    BY <2>2 DEF Poll, SampleSignals, TickOutput, Skip, syncVars, ctlVars
  <2> QED
    BY <2>1, <2>2 DEF Working
<1>6. pc \in Asking
  BY DEF Working, Loop, Ungated, Release, Gating, Drain, Poll, SampleSignals, TickOutput, Asking
<1> QED
  BY <1>1, <1>2, <1>3, <1>4, <1>5, <1>6 DEF Working

\* A grant, or the step over one that is not due.
Granting == Frames \/ EndOfStream \/ Availability

LEMMA GrantingCases ==
  ASSUME Granting
  PROVE  /\ pc \in {"frames", "eof", "timeout"}
         /\ \/ \E to \in {"eof", "timeout", "poll"} : Skip(to)
            \/ \E ask \in {"Frame", "EndOfStream", "Timeout"} : ProcessInput(ask)
BY DEF Granting, Frames, EndOfStream, Availability

LEMMA NextCases ==
  ASSUME Next
  PROVE  \/ RunReplay \/ Start \/ StartDrain \/ PublicationSeen \/ Working \/ Granting
         \/ Leaving \/ Watching \/ WorkerStep
BY DEF Next, HostStep, Host, Controller, Serving, Player, Working, Granting, Leaving, Watching

LEMMA HandInit == ASSUME EmulatorInit PROVE HandInv
BY DEF EmulatorInit, Init, HandInv, Asking

\* Parked means parked: no step of the worker is possible.
LEMMA ParkedStays == ASSUME Parked, Worker, BarOk(bar) PROVE FALSE
<1>1. bar.released \in Nat /\ bar.completed \in Nat
  BY DEF BarOk, BarRecords
<1> QED
  BY <1>1 DEF Parked, Worker, WorkerWakes, WorkerReceives, PublicationCompleted, WorkerReleased

LEMMA UnderWayStays ==
  ASSUME UnderWay, Worker, BarOk(bar), gated \in GatedRecords, UNCHANGED step
  PROVE  UnderWay'
<1>1. /\ bar.released \in Nat /\ bar.completed \in Nat /\ bar.released <= bar.completed
      /\ bar = [completed |-> bar.completed, released |-> bar.released,
                cancelled |-> bar.cancelled]
  BY DEF BarOk, BarRecords
<1>2. gated = [running |-> gated.running, cancelled |-> gated.cancelled,
               pending |-> gated.pending, grant |-> gated.grant, last |-> gated.last]
  BY DEF GatedRecords
<1>3. CASE WorkerWakes
  BY <1>1, <1>2, <1>3 DEF UnderWay, WorkerWakes
<1>4. CASE WorkerReceives
  BY <1>1, <1>2, <1>4 DEF UnderWay, WorkerReceives
<1>5. CASE PublicationCompleted
  BY <1>1, <1>2, <1>5 DEF UnderWay, PublicationCompleted
<1>6. CASE WorkerReleased
  BY <1>1, <1>2, <1>6 DEF UnderWay, WorkerReleased
<1> QED
  BY <1>3, <1>4, <1>5, <1>6 DEF Worker

LEMMA HandStep == ASSUME RecordInv, HandInv, Next PROVE HandInv'
<1>0. BarOk(bar) /\ gated \in GatedRecords /\ ctl \in CtlRecords
  BY DEF RecordInv
<1>1. ASSUME pc' \notin Active PROVE HandInv'
  BY <1>1 DEF HandInv, Active
<1>2. ASSUME UNCHANGED <<pc, gated, bar, worker, ctl, step>> PROVE HandInv'
  BY <1>2 DEF HandInv, Parked, UnderWay
<1>3. CASE RunReplay
  <2>1. gated' = NewGated /\ bar' = NewBarrier /\ worker' = "none" /\ pc' \in {"start", "over"}
    BY <1>3 DEF RunReplay, NewReplay
  <2> QED
    BY <2>1 DEF HandInv, Asking
<1>4. CASE Start
  <2>1. \/ pc' \in {"cancel", "destroy"}
        \/ /\ pc' = "startDrain" /\ worker' = "waiting"
           /\ gated' = [gated EXCEPT !.running = TRUE] /\ bar' = bar
    BY <1>4 DEF Start
  <2>2. gated = NewGated /\ bar = NewBarrier
    BY <1>4 DEF Start, HandInv
  <2>3. "cancel" \notin Active /\ "destroy" \notin Active
    BY DEF Active, Asking
  <2>4. CASE pc' = "startDrain"
    <3>1. Parked'
      BY <2>1, <2>2, <2>4 DEF Parked, NewGated, NewBarrier
    <3> QED
      BY <2>4, <3>1 DEF HandInv, Asking
  <2> QED
    BY <1>1, <2>1, <2>3, <2>4
<1>5. CASE StartDrain
  <2>1. /\ UNCHANGED <<gated, bar, worker>> /\ pc = "startDrain"
        /\ pc' = "cancel" \/ (pc' = "loop" /\ ctl' = [ctl EXCEPT !.state = "Running", !.began = TRUE])
    BY <1>5 DEF StartDrain, syncVars
  <2>2. Parked'
    BY <2>1 DEF HandInv, Parked
  <2>3. pc' = "loop" => ctl'.state = "Running"
    BY <1>0, <2>1 DEF CtlRecords
  <2> QED
    BY <2>1, <2>2, <2>3 DEF HandInv, Asking
<1>6. CASE PublicationSeen
  <2>1. pc = "wait" /\ pc' = "drain" /\ UNCHANGED <<gated, bar, worker, ctl, step>>
        /\ bar.completed >= step.epoch
    BY <1>6 DEF PublicationSeen, Skip, syncVars, ctlVars
  <2>2. bar.completed \in Nat
    BY <1>0 DEF BarOk, BarRecords
  <2>3. Parked /\ ctl.state = "Running"
    BY <2>1, <2>2 DEF HandInv, UnderWay, Parked
  <2> QED
    BY <2>1, <2>3 DEF HandInv, Parked, Asking
<1>7. CASE Working
  <2>1. CASE pc' \in Active
    <3>1. pc \in Asking /\ pc' \in Asking /\ UNCHANGED <<gated, bar, worker, ctl>>
      BY <1>7, <2>1, WorkingStays
    <3>2. Parked' /\ ctl'.state = "Running"
      BY <3>1 DEF HandInv, Parked
    <3> QED
      BY <3>1, <3>2, AsksAreActive DEF HandInv
  <2> QED
    BY <1>1, <2>1
<1>8. CASE Granting
  <2>1. pc \in Asking /\ Parked /\ ctl.state = "Running"
    BY <1>8, GrantingCases DEF HandInv, Asking
  <2>2. CASE \E to \in {"eof", "timeout", "poll"} : Skip(to)
    <3>1. pc' \in Asking /\ UNCHANGED <<gated, bar, worker, ctl>>
      BY <2>2 DEF Skip, syncVars, ctlVars, Asking
    <3>2. Parked' /\ ctl'.state = "Running"
      BY <2>1, <3>1 DEF Parked
    <3> QED
      BY <3>1, <3>2, AsksAreActive DEF HandInv
  <2>3. CASE \E ask \in {"Frame", "EndOfStream", "Timeout"} : ProcessInput(ask)
    <3>0. PICK ask \in {"Frame", "EndOfStream", "Timeout"} : ProcessInput(ask)
      BY <2>3
    <3> DEFINE g == IF ask = "Timeout" THEN "Timeout" ELSE "Receive"
    <3>1. /\ pc' = "wait" /\ bar' = [bar EXCEPT !.released = bar.completed]
          /\ step'.epoch = bar.completed + 1 /\ UNCHANGED <<worker, ctl>>
          /\ gated' = [gated EXCEPT !.pending = TRUE, !.grant = g]
      BY <2>1, <3>0 DEF Parked, ProcessInput, PrepareStep
    <3> HIDE DEF g
    <3>2. bar.completed \in Nat /\ bar'.completed = bar.completed /\ bar'.cancelled = bar.cancelled
      BY <1>0, <3>1 DEF BarOk, BarRecords
    <3>3. gated'.pending = TRUE /\ gated'.running = gated.running
          /\ gated'.cancelled = gated.cancelled
      BY <1>0, <3>1 DEF GatedRecords
    <3>4. UnderWay' /\ ctl'.state = "Running"
      BY <2>1, <3>1, <3>2, <3>3 DEF Parked, UnderWay
    <3> QED
      BY <3>1, <3>4, AsksAreActive DEF HandInv
  <2> QED
    BY <1>8, <2>2, <2>3, GrantingCases
<1>9. CASE Leaving
  BY <1>1, <1>9, LeavingLeaves
<1>10. CASE Watching
  <2>1. CASE pc' = pc
    BY <1>2, <1>10, <2>1, WatchingStays DEF replayVars, syncVars, ctlVars
  <2> QED
    BY <1>1, <1>10, <2>1, WatchingStays
<1>11. CASE WorkerStep
  <2>1. Worker /\ UNCHANGED <<pc, ctl, step>>
    BY <1>11 DEF WorkerStep, Worker, WorkerWakes, WorkerReceives, PublicationCompleted,
                 WorkerReleased, ctlVars
  <2>2. ~Parked
    BY <1>0, <2>1, ParkedStays
  <2>3. pc \notin Asking /\ pc # "startDrain"
    BY <2>2 DEF HandInv
  <2>4. pc # "start"
    BY <2>1 DEF HandInv, Worker, WorkerWakes, WorkerReceives, PublicationCompleted,
                WorkerReleased
  <2>5. CASE pc = "wait"
    <3>1. UnderWay' /\ ctl'.state = "Running"
      BY <1>0, <2>1, <2>5, UnderWayStays DEF HandInv
    <3> QED
      BY <2>1, <2>5, <3>1, AsksAreActive DEF HandInv
  <2>6. CASE pc # "wait"
    BY <1>1, <2>1, <2>3, <2>4, <2>6 DEF Active
  <2> QED
    BY <2>5, <2>6
<1> QED
  BY <1>3, <1>4, <1>5, <1>6, <1>7, <1>8, <1>9, <1>10, <1>11, NextCases

-----------------------------------------------------------------------------
(* The observers.                                                          *)

LEMMA ObsOkMoves ==
  ASSUME NEW o \in ObsRecords, NEW began \in BOOLEAN, ObsOk(o, began)
  PROVE  /\ ObsOk(Receive(o), began) /\ ObsOk(Detached(o), began)
         /\ ObsOk([o EXCEPT !.attached = TRUE], began)
         /\ began /\ o.injected => ObsOk(Saw(o), began)
         /\ ObsOk(Open(Receive(o)), TRUE)
         /\ \A n \in {Receive(o), Detached(o), [o EXCEPT !.attached = TRUE], Saw(o),
                      Open(Receive(o))} : n.injected = o.injected
<1> USE DEF ObsRecords
<1>1. ObsOk(Detached(o), began) /\ ObsOk([o EXCEPT !.attached = TRUE], began)
  BY DEF ObsOk, Detached
<1>2. began /\ o.injected => ObsOk(Saw(o), began)
  BY DEF ObsOk, Saw
<1>3. ObsOk(Receive(o), began)
  BY DEF ObsOk, Saw, Receive
<1>4. ASSUME NEW r \in ObsRecords, r.held => r.injected, r.readings => r.injected
      PROVE  ObsOk(Open(r), TRUE) /\ Open(r).injected = r.injected
  BY <1>4 DEF ObsOk, Open
<1>5. Receive(o) \in ObsRecords
  BY ObserverRecords
<1>6. ObsOk(Open(Receive(o)), TRUE) /\ Open(Receive(o)).injected = Receive(o).injected
  BY <1>3, <1>4, <1>5 DEF ObsOk
<1>7. /\ Receive(o).injected = o.injected /\ Detached(o).injected = o.injected
      /\ [o EXCEPT !.attached = TRUE].injected = o.injected /\ Saw(o).injected = o.injected
  BY DEF Receive, Saw, Detached
<1> QED
  BY <1>1, <1>2, <1>3, <1>6, <1>7

LEMMA ObsInit == ASSUME EmulatorInit PROVE ObsInv
BY DEF EmulatorInit, Init, ObsInv, ObsOk, NewController, NewObservers, NewCadences, None, Asking

LEMMA ObsStep == ASSUME RecordInv, HandInv, ObsInv, Next PROVE ObsInv'
<1>0. /\ obs \in ObsRecords /\ ctl \in CtlRecords /\ cad \in CadRecords
      /\ ctl.began \in BOOLEAN /\ ObsOk(obs, ctl.began)
  BY DEF RecordInv, CtlRecords, ObsInv
<1>1. ASSUME UNCHANGED <<ctl, obs, cad>>, pc' \notin Active PROVE ObsInv'
  BY <1>1 DEF ObsInv, Active
<1>2. ASSUME UNCHANGED <<ctl, obs, cad, plan, pc>> PROVE ObsInv'
  BY <1>2 DEF ObsInv
<1>3. ASSUME NewReplay(plan), UNCHANGED plan, pc' \notin Active \ {"start"} PROVE ObsInv'
  <2>1. /\ ctl' = NewController /\ cad' = NewCadences
        /\ obs' = NewObservers(plan.sample # None)
    BY <1>3 DEF NewReplay
  <2>2. (obs.injected)' <=> plan.sample # None
    BY <2>1 DEF NewObservers
  <2>3. ObsOk(obs', (ctl.began)')
    BY <2>1 DEF ObsOk, NewController, NewObservers
  <2>4. (cad.sample)' = None
    BY <2>1 DEF NewCadences
  <2> QED
    BY <1>3, <2>2, <2>3, <2>4 DEF ObsInv, Active, Asking
<1>4. CASE RunReplay
  <2>1. NewReplay(plan) /\ UNCHANGED plan /\ pc' \in {"start", "over"}
    BY <1>4 DEF RunReplay
  <2> QED
    BY <1>3, <2>1 DEF Active, Asking
<1>5. CASE PassEnds
  <2>1. NewReplay(plan) /\ UNCHANGED plan /\ pc' \notin Active
    BY <1>5, LeavingLeaves DEF PassEnds, Leaving
  <2> QED
    BY <1>3, <2>1
<1>6. CASE Start
  <2>1. /\ UNCHANGED <<plan, cad>> /\ pc = "start" /\ pc' \in {"startDrain", "cancel", "destroy"}
        /\ obs' \in {obs, [obs EXCEPT !.attached = TRUE]}
        /\ ctl' \in {[ctl EXCEPT !.state = "Stopped"], [ctl EXCEPT !.state = "Starting"]}
    BY <1>6 DEF Start
  <2>2. (ctl.began)' = ctl.began
    BY <1>0, <2>1 DEF CtlRecords
  <2>3. ObsOk(obs', (ctl.began)') /\ (obs.injected)' = obs.injected
    BY <1>0, <2>1, <2>2, ObsOkMoves
  <2> QED
    BY <2>1, <2>3 DEF ObsInv, Asking, ObsOk
<1>7. CASE StartDrain
  <2>1. /\ UNCHANGED plan /\ pc = "startDrain"
        /\ \/ /\ pc' = "cancel" /\ obs' = Receive(obs) /\ UNCHANGED <<ctl, cad>>
           \/ /\ pc' = "loop" /\ obs' = Open(Receive(obs))
              /\ ctl' = [ctl EXCEPT !.state = "Running", !.began = TRUE]
              /\ (cad.sample)' = IF plan.sample = None THEN None ELSE 0
    BY <1>7 DEF StartDrain
  <2>2. (obs.injected)' = obs.injected
    BY <1>0, <2>1, ObsOkMoves
  <2>3. CASE pc' = "cancel"
    <3>1. UNCHANGED <<ctl, cad>> /\ ObsOk(obs', ctl.began)
      BY <1>0, <2>1, <2>3, ObsOkMoves
    <3> QED
      BY <2>2, <2>3, <3>1 DEF ObsInv, Asking
  <2>4. CASE pc' = "loop"
    <3>1. (ctl.began)' = TRUE
      BY <1>0, <2>1, <2>4 DEF CtlRecords
    <3>2. ObsOk(obs', TRUE)
      BY <1>0, <2>1, <2>4, ObsOkMoves
    <3>3. (cad.sample)' # None => obs.injected
      BY <2>1, <2>4 DEF ObsInv
    <3> QED
      BY <2>2, <2>4, <3>1, <3>2, <3>3 DEF ObsInv
  <2> QED
    BY <2>1, <2>3, <2>4
<1>8. CASE PublicationSeen
  <2>1. pc = "wait" /\ pc' = "drain" /\ UNCHANGED <<obs, ctl, cad, plan>>
    BY <1>8 DEF PublicationSeen, Skip, ctlVars
  <2> QED
    BY <2>1 DEF ObsInv, Asking
<1>9. CASE Granting
  <2>1. /\ pc \in {"frames", "eof", "timeout"} /\ UNCHANGED <<obs, cad, plan>>
        /\ \/ pc' \in {"eof", "timeout", "poll"} /\ UNCHANGED ctl
           \/ pc' = "wait" /\ UNCHANGED ctl
           \/ pc' = "cancel" /\ ctl' = [ctl EXCEPT !.state = "Failed"]
    BY <1>9, GrantingCases DEF Skip, ProcessInput, Fail, ctlVars
  <2>2. (ctl.began)' = ctl.began
    BY <1>0, <2>1 DEF CtlRecords
  <2> QED
    BY <2>1, <2>2 DEF ObsInv, Asking
<1>10. CASE Loop
  <2>1. /\ pc = "loop" /\ pc' \in {"admit", "admitEnd", "cancel"} /\ UNCHANGED <<obs, ctl, plan>>
        /\ pc' = "admit" => (cad.due)' # None
        /\ (cad.sample)' = cad.sample
    BY <1>0, <1>10 DEF Loop, ctlVars, CadRecords
  <2> QED
    BY <2>1 DEF ObsInv, Asking
<1>11. CASE Ungated \/ Release
  <2>1. /\ UNCHANGED <<obs, ctl, cad, plan>>
        /\ (pc = "admit" /\ pc' = "frames") \/ pc' = "cancel"
    BY <1>11 DEF Ungated, Release, AdvanceTo, ctlVars
  <2> QED
    BY <2>1 DEF ObsInv, Asking
<1>12. CASE Drain
  <2>1. /\ pc = "drain" /\ UNCHANGED plan /\ pc' \in {"cancel", "frames", "timeout", "poll"}
        /\ obs' \in {obs, Receive(obs)}
        /\ ctl' \in {ctl, [ctl EXCEPT !.state = "Failed"]}
    <3>1. InputResult \in {"Frame", "EndOfStream", "Timeout"}
      BY DEF InputResult
    <3> QED
      BY <1>12, <3>1 DEF Drain, Fail
  <2> DEFINE e == cad.eos \/ step.ask = "EndOfStream"
             a == IF step.ask = "Timeout" THEN NextDeadline(cad.due, plan.avail, plan.end)
                                          ELSE cad.avail
  <2>2. UNCHANGED cad \/ cad' = [cad EXCEPT !.eos = e, !.avail = a]
    BY <1>12 DEF Drain
  <2> HIDE DEF e, a
  <2>3. (cad.due)' = cad.due /\ (cad.sample)' = cad.sample
    BY <1>0, <2>2 DEF CadRecords
  <2>4. (ctl.began)' = ctl.began
    BY <1>0, <2>1 DEF CtlRecords
  <2>5. ObsOk(obs', ctl.began) /\ (obs.injected)' = obs.injected
    BY <1>0, <2>1, ObsOkMoves
  <2>6. ctl.began /\ cad.due # None
    BY <2>1 DEF ObsInv, Asking
  <2> QED
    BY <2>1, <2>3, <2>4, <2>5, <2>6 DEF ObsInv
<1>13. CASE Poll \/ SampleSignals \/ TickOutput
  <2>1. pc \in {"poll", "sample", "tick"}
    BY <1>13 DEF Poll, SampleSignals, TickOutput
  <2>2. ctl.began /\ cad.due # None
    BY <2>1 DEF ObsInv, Asking
  <2>3. \A to : Skip(to) => pc' = to /\ UNCHANGED <<ctl, obs, cad, plan>>
    BY DEF Skip, ctlVars
  <2>4. \A kind, o, c, to : Did(kind, o, c, to) => pc' = to /\ cad' = c /\ UNCHANGED ctl
    BY DEF Did
  <2>5. \A o, off : Failed(o, off) =>
          pc' = "cancel" /\ ctl' = [ctl EXCEPT !.state = "Failed"] /\ UNCHANGED cad
    BY DEF Failed, Fail
  <2> DEFINE p == NextDeadline(cad.due, plan.poll, plan.end)
             s == NextDeadline(cad.due, plan.sample, plan.end)
             t == NextDeadline(cad.due, plan.tick, plan.end)
  <2>6. /\ UNCHANGED plan /\ pc' \in {"sample", "tick", "loop", "cancel"}
        /\ ctl' \in {ctl, [ctl EXCEPT !.state = "Failed"]}
        /\ UNCHANGED obs \/ (obs' = Saw(obs) /\ cad.sample = cad.due)
        /\ \/ cad' \in {cad, [cad EXCEPT !.poll = p], [cad EXCEPT !.tick = t]}
           \/ cad' = [cad EXCEPT !.sample = s] /\ cad.sample = cad.due
    <3>1. CASE Poll
      BY <2>3, <2>4, <2>5, <3>1 DEF Poll
    <3>2. CASE SampleSignals
      BY <2>3, <2>4, <2>5, <3>2 DEF SampleSignals
    <3>3. CASE TickOutput
      BY <2>3, <2>4, <2>5, <3>3 DEF TickOutput
    <3> QED
      BY <1>13, <3>1, <3>2, <3>3
  <2> HIDE DEF p, s, t
  <2>7. (cad.due)' = cad.due /\ ((cad.sample)' = cad.sample \/ cad.sample = cad.due)
    BY <1>0, <2>6 DEF CadRecords
  <2>8. cad.sample = cad.due => obs.injected
    BY <2>2 DEF ObsInv
  <2>9. (ctl.began)' = ctl.began
    BY <1>0, <2>6 DEF CtlRecords
  <2>10. ObsOk(obs', ctl.began) /\ (obs.injected)' = obs.injected
    BY <1>0, <2>2, <2>6, <2>8, ObsOkMoves
  <2>11. (cad.sample)' # None => obs.injected
    BY <2>7, <2>8 DEF ObsInv
  <2> QED
    BY <2>2, <2>6, <2>7, <2>9, <2>10, <2>11 DEF ObsInv
<1>14. CASE SynchronizationTimeout
  <2>1. UNCHANGED <<obs, cad, plan>> /\ ctl' = [ctl EXCEPT !.state = "Failed"] /\ pc' = "cancel"
    BY <1>14 DEF SynchronizationTimeout, Fail
  <2>2. (ctl.began)' = ctl.began
    BY <1>0, <2>1 DEF CtlRecords
  <2> QED
    BY <2>1, <2>2 DEF ObsInv, Asking
<1>15. CASE StopDone \/ StopTimesOut
  <2>1. /\ UNCHANGED <<cad, plan>> /\ pc' = "destroy" /\ obs' \in {obs, Detached(obs)}
        /\ ctl' \in {[ctl EXCEPT !.state = "Stopped"], [ctl EXCEPT !.state = "Failed"]}
    BY <1>15 DEF StopDone, StopTimesOut, FinishStop
  <2>2. (ctl.began)' = ctl.began
    BY <1>0, <2>1 DEF CtlRecords
  <2>3. ObsOk(obs', ctl.began) /\ (obs.injected)' = obs.injected
    BY <1>0, <2>1, ObsOkMoves
  <2> QED
    BY <2>1, <2>2, <2>3 DEF ObsInv, Asking
<1>16. CASE Destroy
  <2>1. /\ UNCHANGED <<obs, cad, plan>> /\ pc' \in {"cancel", "over"}
        /\ ctl' = ctl \/ ctl' = [ctl EXCEPT !.caller = "destructor", !.tries = ctl.tries - 1]
    BY <1>16 DEF Destroy
  <2>2. (ctl.began)' = ctl.began
    BY <1>0, <2>1 DEF CtlRecords
  <2> QED
    BY <2>1, <2>2 DEF ObsInv, Asking
<1>17. CASE \/ Load \/ Cancel \/ StopTelemetry \/ RenderEnds \/ ServerStart \/ Accept
            \/ ServeEnds \/ BeginPass \/ SendRestart \/ Finish \/ EndSession \/ PollClosed
  <2>1. UNCHANGED <<ctl, obs, cad>>
    BY <1>17 DEF Load, Cancel, StopTelemetry, RenderEnds, ServerStart, Accept, ServeEnds,
                 BeginPass, SendRestart, Finish, EndSession, PollClosed, replayVars, ctlVars
  <2> QED
    BY <1>1, <1>17, <2>1, LeavingLeaves DEF Leaving
<1>18. CASE Watching
  BY <1>1, <1>2, <1>18, WatchingStays DEF replayVars, ctlVars
<1>19. CASE WorkerStep
  <2>1. UNCHANGED <<ctl, obs, cad, plan, pc>>
    BY <1>19 DEF WorkerStep, Worker, WorkerWakes, WorkerReceives, PublicationCompleted,
                 WorkerReleased, ctlVars
  <2> QED
    BY <1>2, <2>1
<1> QED
  BY <1>4, <1>5, <1>6, <1>7, <1>8, <1>9, <1>10, <1>11, <1>12, <1>13, <1>14, <1>15, <1>16,
     <1>17, <1>18, <1>19, NextCases DEF Working, Leaving

-----------------------------------------------------------------------------
(* A replay that fails is remembered, and observers leave only at its end. *)

LEMMA StatusInit == ASSUME EmulatorInit PROVE StatusInv
BY DEF EmulatorInit, Init, StatusInv, NewController

LEMMA StatusStep == ASSUME RecordInv, StatusInv, Next PROVE StatusInv'
<1> DEFINE At == (OutsidePass \ {"exit"}) \cup {"run", "await", "restart", "finish"}
<1>0. /\ ctl \in CtlRecords
      /\ At = {"load", "serverStart", "accept", "pass", "endSession", "run", "await",
               "restart", "finish"}
      /\ At \cap Active = {}
  BY DEF RecordInv, OutsidePass, Active, Asking
<1>1. ASSUME UNCHANGED ctl, status' = status \/ status' # "Ok", pc' \in At => pc \in At
      PROVE  StatusInv'
  BY <1>1 DEF StatusInv
<1>2. ASSUME NEW st, ctl' = [ctl EXCEPT !.state = st], pc' \notin At,
             st = "Failed" => status' # "Ok", status' = status \/ status' # "Ok"
      PROVE  StatusInv'
  <2>1. (ctl.state)' = st /\ (ctl.caller)' = ctl.caller
    BY <1>0, <1>2 DEF CtlRecords
  <2> QED
    BY <1>2, <2>1 DEF StatusInv
<1>3. ASSUME NewReplay(plan) PROVE StatusInv'
  <2>1. ctl' = NewController
    BY <1>3 DEF NewReplay
  <2> QED
    BY <2>1 DEF StatusInv, NewController
<1>4. CASE RunReplay \/ PassEnds
  BY <1>3, <1>4 DEF RunReplay, PassEnds
<1>5. CASE Start
  <2>1. /\ ctl' \in {[ctl EXCEPT !.state = "Stopped"], [ctl EXCEPT !.state = "Starting"]}
        /\ status' \in {status, "ControllerFailure"}
        /\ pc' \in {"destroy", "cancel", "startDrain"}
    BY <1>5 DEF Start
  <2> QED
    BY <1>0, <1>2, <2>1
<1>6. CASE StartDrain
  <2>1. (ctl.state)' # "Failed" \/ UNCHANGED ctl
    BY <1>0, <1>6 DEF StartDrain, CtlRecords
  <2>2. (ctl.caller)' = ctl.caller
    BY <1>0, <1>6 DEF StartDrain, CtlRecords
  <2>3. status' \in {status, "ControllerFailure"} /\ pc' \in {"loop", "cancel"}
    BY <1>6 DEF StartDrain
  <2> QED
    BY <1>0, <2>1, <2>2, <2>3 DEF StatusInv
<1>7. ASSUME NEW o, NEW off, Fail(o, off) PROVE StatusInv'
  <2>1. ctl' = [ctl EXCEPT !.state = "Failed"] /\ status' = "ControllerFailure" /\ pc' = "cancel"
    BY <1>7 DEF Fail
  <2> QED
    BY <1>0, <1>2, <2>1
<1>8. ASSUME NEW to, Skip(to), to \in Active PROVE StatusInv'
  BY <1>0, <1>1, <1>8 DEF Skip, ctlVars
<1>9. CASE PublicationSeen
  BY <1>8, <1>9 DEF PublicationSeen, Active, Asking
<1>10. CASE Granting
  <2>1. ASSUME NEW ask, ProcessInput(ask) PROVE StatusInv'
    <3>1. \/ \E off \in Outcome("write") : Fail(Out, off)
          \/ UNCHANGED <<ctl, status>> /\ pc' = "wait"
      BY <2>1 DEF ProcessInput
    <3> QED
      BY <1>0, <1>1, <1>7, <3>1
  <2>2. {"eof", "timeout", "poll"} \subseteq Active
    BY DEF Active, Asking
  <2> QED
    BY <1>8, <1>10, <2>1, <2>2, GrantingCases
<1>11. CASE Loop \/ Ungated \/ Release
  <2>1. /\ UNCHANGED ctl /\ status' \in {status, "ClockFailure"}
        /\ pc' \in {"admit", "admitEnd", "cancel", "frames"}
    BY <1>11 DEF Loop, Ungated, Release, AdvanceTo, ctlVars
  <2> QED
    BY <1>0, <1>1, <2>1
<1>12. CASE Drain
  <2>1. InputResult \in {"Frame", "EndOfStream", "Timeout"}
    BY DEF InputResult
  <2>2. \/ \E o, off : Fail(o, off)
        \/ /\ UNCHANGED ctl /\ status' \in {status, "ControllerFailure"}
           /\ pc' \in {"cancel", "frames", "timeout", "poll"}
    BY <1>12, <2>1 DEF Drain
  <2> QED
    BY <1>0, <1>1, <1>7, <2>2
<1>13. CASE Poll \/ SampleSignals \/ TickOutput
  <2>1. ASSUME NEW kind, NEW o, NEW c, NEW to, Did(kind, o, c, to), to \in Active
        PROVE  StatusInv'
    BY <1>0, <1>1, <2>1 DEF Did
  <2>2. ASSUME NEW o, NEW off, Failed(o, off) PROVE StatusInv'
    BY <1>7, <2>2 DEF Failed
  <2>3. {"sample", "tick", "loop"} \subseteq Active
    BY DEF Active, Asking
  <2>4. CASE Poll
    BY <1>8, <2>1, <2>2, <2>3, <2>4 DEF Poll
  <2>5. CASE SampleSignals
    BY <1>8, <2>1, <2>2, <2>3, <2>5 DEF SampleSignals
  <2>6. CASE TickOutput
    BY <1>8, <2>1, <2>2, <2>3, <2>6 DEF TickOutput
  <2> QED
    BY <1>13, <2>4, <2>5, <2>6
<1>14. CASE SynchronizationTimeout
  BY <1>7, <1>14 DEF SynchronizationTimeout
<1>15. CASE StopDone \/ StopTimesOut
  <2>1. ASSUME NEW quiescent \in BOOLEAN, FinishStop(quiescent) PROVE StatusInv'
    <3>1. PICK off \in Outcome("write") :
            /\ ctl' = [ctl EXCEPT !.state = IF quiescent THEN "Stopped" ELSE "Failed"]
            /\ status' = IF status = "Ok" /\ ctl.caller = "run"
                              /\ ~(quiescent /\ FailOff(Out, off).ok)
                           THEN "ControllerFailure" ELSE status
            /\ pc' = "destroy"
      BY <2>1 DEF FinishStop
    <3>2. CASE quiescent
      <4>1. ctl' = [ctl EXCEPT !.state = "Stopped"] /\ (status' = status \/ status' # "Ok")
        BY <3>1, <3>2
      <4> QED
        BY <1>0, <1>2, <3>1, <4>1
    <3>3. CASE ~quiescent
      <4>1. ctl.caller \in {"run", "destructor"}
        BY <1>0 DEF CtlRecords
      <4>2. status' # "Ok"
        BY <3>1, <3>3, <4>1 DEF StatusInv
      <4>3. ctl' = [ctl EXCEPT !.state = "Failed"]
        BY <3>1, <3>3
      <4> QED
        BY <1>0, <1>2, <3>1, <4>2, <4>3
    <3> QED
      BY <3>2, <3>3
  <2> QED
    BY <1>15, <2>1 DEF StopDone, StopTimesOut
<1>16. CASE Destroy
  <2>1. /\ UNCHANGED status /\ pc' \in {"cancel", "over"}
        /\ ctl' = ctl \/ ctl.state = "Failed"
    BY <1>16 DEF Destroy
  <2> QED
    BY <1>0, <2>1 DEF StatusInv
<1>17. CASE Cancel \/ StopTelemetry \/ RenderEnds
  <2>1. UNCHANGED <<ctl, status>> /\ pc' \in {"stopTelemetry", "stopWait", "exit"}
    BY <1>17 DEF Cancel, StopTelemetry, RenderEnds, ctlVars
  <2> QED
    BY <1>0, <1>1, <2>1
<1>18. CASE Load \/ ServerStart \/ Accept \/ ServeEnds \/ BeginPass \/ SendRestart \/ Finish
  <2>1. UNCHANGED ctl /\ pc \in At
    BY <1>0, <1>18 DEF Load, ServerStart, Accept, ServeEnds, BeginPass, SendRestart, Finish,
                       replayVars, ctlVars
  <2>2. status' = status \/ status' # "Ok"
    BY <1>18 DEF Load, ServerStart, Accept, ServeEnds, BeginPass, SendRestart, Finish
  <2> QED
    BY <1>1, <2>1, <2>2
<1>19. CASE EndSession
  <2>1. ctl = NewController /\ UNCHANGED ctl
    BY <1>0, <1>19 DEF EndSession, replayVars, ctlVars, StatusInv
  <2> QED
    BY <2>1 DEF StatusInv, NewController
<1>20. CASE PollClosed \/ Watching
  <2>1. /\ UNCHANGED ctl /\ status' \in {status, "Interrupted"}
        /\ pc' = pc \/ pc = "await" \/ pc' = "cancel"
    <3>1. CASE PollClosed
      BY <3>1 DEF PollClosed, Interrupt, replayVars, ctlVars
    <3>2. CASE PollFrame
      BY <3>2 DEF PollFrame, Interrupt, replayVars, ctlVars
    <3>3. CASE Watching /\ ~PollFrame
      BY <3>3 DEF Watching, PollReceives, BrowserSends, BrowserLeaves, WallTick,
                  RequestShutdown, replayVars, ctlVars
    <3> QED
      BY <1>20, <3>1, <3>2, <3>3
  <2> QED
    BY <1>0, <1>1, <2>1
<1>21. CASE WorkerStep
  <2>1. UNCHANGED <<ctl, status, pc>>
    BY <1>21 DEF WorkerStep, Worker, WorkerWakes, WorkerReceives, PublicationCompleted,
                 WorkerReleased, ctlVars
  <2> QED
    BY <1>1, <2>1
<1> QED
  BY <1>4, <1>5, <1>6, <1>9, <1>10, <1>11, <1>12, <1>13, <1>14, <1>15, <1>16, <1>17, <1>18,
     <1>19, <1>20, <1>21, NextCases DEF Working, Leaving

\* Only a stop that has seen the worker end detaches, and a new replay has neither.
LEMMA DetachStep == ASSUME RecordInv, Next PROVE ConsumersLeaveQuietFacade
<1>0. obs \in ObsRecords
  BY DEF RecordInv
<1>1. ASSUME (attached => attached'), (obs.attached)' = obs.attached
      PROVE  ConsumersLeaveQuietFacade
  BY <1>1 DEF ConsumersLeaveQuietFacade
<1>2. CASE RunReplay \/ PassEnds
  BY <1>2 DEF RunReplay, PassEnds, NewReplay, ConsumersLeaveQuietFacade
<1>3. CASE StopDone
  BY <1>3 DEF StopDone, syncVars, ConsumersLeaveQuietFacade
<1>4. CASE StopTimesOut
  <2>1. attached' = (attached /\ ~FALSE) /\ UNCHANGED obs
    BY <1>4 DEF StopTimesOut, FinishStop
  <2> QED
    BY <1>1, <2>1
<1>5. CASE Start
  <2>1. \/ UNCHANGED <<attached, obs>>
        \/ attached' = TRUE /\ obs' = [obs EXCEPT !.attached = TRUE]
    BY <1>5 DEF Start
  <2>2. (obs.attached)' = obs.attached \/ (obs.attached)' = TRUE
    BY <1>0, <2>1 DEF ObsRecords
  <2> QED
    BY <2>1, <2>2 DEF ConsumersLeaveQuietFacade
<1>6. /\ (Receive(obs)).attached = obs.attached /\ (Open(Receive(obs))).attached = obs.attached
      /\ (Saw(obs)).attached = obs.attached
  <2>1. ASSUME NEW o \in ObsRecords PROVE Open(o).attached = o.attached
    BY DEF Open, ObsRecords
  <2>2. (Receive(obs)).attached = obs.attached /\ (Saw(obs)).attached = obs.attached
    BY <1>0 DEF Receive, Saw, ObsRecords
  <2> QED
    BY <1>0, <2>1, <2>2, ObserverRecords
<1>7. CASE StartDrain
  <2>1. UNCHANGED attached /\ obs' \in {Receive(obs), Open(Receive(obs))}
    BY <1>7 DEF StartDrain
  <2> QED
    BY <1>1, <1>6, <2>1
<1>8. CASE Working
  <2>1. obs' \in {obs, Receive(obs), Saw(obs)}
    BY <1>8 DEF Working, Loop, Ungated, Release, Drain, Poll, SampleSignals, TickOutput, Skip,
                ctlVars
  <2> QED
    BY <1>1, <1>6, <1>8, <2>1, WorkingStays
<1>9. CASE Granting \/ PublicationSeen
  <2>1. UNCHANGED <<attached, obs>>
    BY <1>9, GrantingCases DEF PublicationSeen, Skip, ProcessInput, ctlVars
  <2> QED
    BY <1>1, <2>1
<1>10. CASE \/ Load \/ SynchronizationTimeout \/ Cancel \/ StopTelemetry \/ Destroy
            \/ RenderEnds \/ ServerStart \/ Accept \/ ServeEnds \/ BeginPass \/ SendRestart
            \/ Finish \/ EndSession \/ PollClosed
  <2>1. UNCHANGED <<attached, obs>>
    BY <1>10 DEF Load, SynchronizationTimeout, Cancel, StopTelemetry, Destroy, RenderEnds,
                 ServerStart, Accept, ServeEnds, BeginPass, SendRestart, Finish, EndSession,
                 PollClosed, replayVars, ctlVars
  <2> QED
    BY <1>1, <2>1
<1>11. CASE Watching
  BY <1>1, <1>11, WatchingStays DEF replayVars, ctlVars
<1>12. CASE WorkerStep
  <2>1. UNCHANGED <<attached, obs>>
    BY <1>12 DEF WorkerStep, Worker, WorkerWakes, WorkerReceives, PublicationCompleted,
                 WorkerReleased, ctlVars
  <2> QED
    BY <1>1, <2>1
<1> QED
  BY <1>2, <1>3, <1>4, <1>5, <1>7, <1>8, <1>9, <1>10, <1>11, <1>12, NextCases DEF Leaving

-----------------------------------------------------------------------------
(* The stream through the steps of the host.                               *)

\* Where nothing is lit yet, where something was drawn, where a pause cannot be the last
\* word, and where the strip is dark.
Blank == {"load", "serverStart", "accept", "run", "start"}
Lit == Asking \cup {"wait", "startDrain"}
Unpaused == (Asking \ {"admit", "admitEnd"}) \cup {"wait", "run", "start", "startDrain"}
Dark == {"destroy", "over", "await", "restart", "finish"}

\* The invariant, with these names.
LEMMA WireParts ==
  WireInv <=>
    /\ stage \in StageRecords /\ sink \in SinkRecords /\ wire \in Seq(StreamRecords)
    /\ StreamOk(wire, sink)
    /\ stage.last = "black" => ~LastLit(wire)
    /\ Has(wire, "close") => pc = "endSession"
    /\ Has(wire, "end") \/ Has(wire, "restart") => pc \in Ended
    /\ mode = "web" /\ pc \notin OutsidePass => sink.header
    /\ pc \in Blank => ~HasPixel(wire)
    /\ pc \in Lit => HasPixel(wire)
    /\ LastPaused(wire) => mode = "web" /\ (pacer.paused \/ chan.closed)
    /\ pc \in Unpaused => ~LastPaused(wire)
    /\ pc \in Dark /\ LastLit(wire) => ~sink.good /\ status # "Ok"
BY DEF WireInv, StripDarkAtEnd, Blank, Lit, Unpaused, Dark, LastLit

LEMMA LitHasPixel ==
  ASSUME NEW w \in Seq(StreamRecords), LastLit(w)
  PROVE  HasPixel(w)
<1>1. DOMAIN w = 1..Len(w) /\ "lit" \in Pixels
  BY SeqDomain DEF Pixels
<1> QED
  BY <1>1 DEF LastLit, LastAmong, HasPixel

\* What is drawn on, or played on, is in the middle of a replay.
LEMMA OutNow ==
  ASSUME WireInv, pc \notin Ended
  PROVE  /\ OutOk(Out) /\ Out.stage = stage /\ Out.sink = sink /\ Out.wire = wire
         /\ Extends(Out, Out)
<1>1. /\ stage \in StageRecords /\ sink \in SinkRecords /\ wire \in Seq(StreamRecords)
      /\ StreamOk(wire, sink) /\ (stage.last = "black" => ~LastLit(wire))
      /\ ~Has(wire, "close") /\ ~Has(wire, "end") /\ ~Has(wire, "restart")
  <2>1. "endSession" \in Ended
    BY DEF Ended
  <2> QED
    BY <2>1 DEF WireInv
<1>2. Out \in Outs
  BY <1>1 DEF Out, Outs
<1>3. Out.stage = stage /\ Out.sink = sink /\ Out.wire = wire
  BY DEF Out
<1> QED
  BY <1>1, <1>2, <1>3 DEF OutOk, Extends

LEMMA ExtendsTwice ==
  ASSUME NEW o, NEW m, NEW n, Extends(o, m), Extends(m, n)
  PROVE  Extends(o, n)
BY DEF Extends

LEMMA WriteOutcome == ASSUME NEW ok \in Outcome("write") PROVE ok \in BOOLEAN
BY DEF Outcome

\* The stage draws.
LEMMA DrawStep ==
  ASSUME WireInv, NEW n, OutOk(n), Extends(Out, n), Commit(n),
         UNCHANGED <<mode, pacer, chan>>, pc \notin Ended, pc \notin OutsidePass,
         pc' \notin Blank, pc' \in Unpaused => pc \in Unpaused,
         pc' \in Lit => HasPixel(n.wire),
         pc' \in Dark /\ LastLit(n.wire) => ~n.sink.good /\ status' # "Ok"
  PROVE  WireInv'
<1>1. /\ stage' = n.stage /\ sink' = n.sink /\ wire' = n.wire
      /\ n.stage \in StageRecords /\ n.sink \in SinkRecords /\ n.wire \in Seq(StreamRecords)
      /\ StreamOk(n.wire, n.sink)
      /\ n.stage.last = "black" => ~LastLit(n.wire)
      /\ ~Has(n.wire, "close") /\ ~Has(n.wire, "end") /\ ~Has(n.wire, "restart")
  BY DEF Commit, OutOk, Outs
<1>2. (LastPaused(n.wire) <=> LastPaused(wire)) /\ (sink.header => n.sink.header)
  BY OutNow DEF Extends
<1>3. /\ mode = "web" => sink.header
      /\ LastPaused(wire) => mode = "web" /\ (pacer.paused \/ chan.closed)
      /\ pc \in Unpaused => ~LastPaused(wire)
  BY WireParts
<1>4. WireInv' <=>
    /\ stage' \in StageRecords /\ sink' \in SinkRecords /\ wire' \in Seq(StreamRecords)
    /\ StreamOk(wire', sink')
    /\ (stage.last)' = "black" => ~LastLit(wire')
    /\ Has(wire', "close") => pc' = "endSession"
    /\ Has(wire', "end") \/ Has(wire', "restart") => pc' \in Ended
    /\ mode' = "web" /\ pc' \notin OutsidePass => (sink.header)'
    /\ pc' \in Blank => ~HasPixel(wire')
    /\ pc' \in Lit => HasPixel(wire')
    /\ LastPaused(wire') => mode' = "web" /\ ((pacer.paused)' \/ (chan.closed)')
    /\ pc' \in Unpaused => ~LastPaused(wire')
    /\ pc' \in Dark /\ LastLit(wire') => ~(sink.good)' /\ status' # "Ok"
  BY DEF WireInv, StripDarkAtEnd, Blank, Lit, Unpaused, Dark, LastLit
<1> QED
  BY <1>1, <1>2, <1>3, <1>4

\* The stream stays what it is.
LEMMA StillStep ==
  ASSUME WireInv, UNCHANGED <<mode, sink, wire>>, stage' \in {stage, NewStage},
         pacer.paused \/ chan.closed => (pacer.paused)' \/ (chan.closed)',
         pc = "endSession" => pc' = "endSession",
         pc \in Ended => pc' \in Ended,
         mode = "web" /\ pc' \notin OutsidePass => pc \notin OutsidePass,
         pc' \in Blank => pc \in Blank,
         pc' \in Lit => pc \in Lit,
         pc' \in Unpaused => ~LastPaused(wire),
         pc' \in Dark /\ LastLit(wire) => ~sink.good /\ status' # "Ok"
  PROVE  WireInv'
<1>1. NewStage \in StageRecords /\ NewStage.last # "black"
  BY DEF NewStage, StageRecords, Mail
<1>2. WireInv' <=>
    /\ stage' \in StageRecords /\ sink' \in SinkRecords /\ wire' \in Seq(StreamRecords)
    /\ StreamOk(wire', sink')
    /\ (stage.last)' = "black" => ~LastLit(wire')
    /\ Has(wire', "close") => pc' = "endSession"
    /\ Has(wire', "end") \/ Has(wire', "restart") => pc' \in Ended
    /\ mode' = "web" /\ pc' \notin OutsidePass => (sink.header)'
    /\ pc' \in Blank => ~HasPixel(wire')
    /\ pc' \in Lit => HasPixel(wire')
    /\ LastPaused(wire') => mode' = "web" /\ ((pacer.paused)' \/ (chan.closed)')
    /\ pc' \in Unpaused => ~LastPaused(wire')
    /\ pc' \in Dark /\ LastLit(wire') => ~(sink.good)' /\ status' # "Ok"
  BY DEF WireInv, StripDarkAtEnd, Blank, Lit, Unpaused, Dark, LastLit
<1> QED
  BY <1>1, <1>2, WireParts

LEMMA FailStep ==
  ASSUME WireInv, pc \in Active, NEW o, OutOk(o), Extends(Out, o),
         NEW off \in Outcome("write"), Fail(o, off), UNCHANGED <<mode, webVars>>
  PROVE  WireInv'
<1> DEFINE n == FailOff(o, off)
<1>1. Commit(n) /\ pc' = "cancel"
  BY DEF Fail
<1>2. Drew(o, n, "black")
  BY FailOffDraws, WriteOutcome
<1> HIDE DEF n
<1>3. OutOk(n) /\ Extends(Out, n)
  BY <1>2, ExtendsTwice DEF Drew
<1>4. /\ pc \notin Ended /\ pc \notin OutsidePass /\ "cancel" \notin Blank
      /\ "cancel" \notin Unpaused /\ "cancel" \notin Lit /\ "cancel" \notin Dark
  BY DEF Active, Asking, Ended, OutsidePass, Blank, Unpaused, Lit, Dark
<1> QED
  BY <1>1, <1>3, <1>4, DrawStep DEF webVars

\* The host works on, with what was drawn.
LEMMA WorkStep ==
  ASSUME WireInv, pc \in Unpaused \cap Lit, NEW n, OutOk(n), Extends(Out, n), Commit(n),
         UNCHANGED <<mode, webVars>>, pc' \in (Asking \cup {"wait", "cancel"})
  PROVE  WireInv'
<1>1. pc \notin Ended /\ pc \notin OutsidePass /\ pc' \notin Blank /\ pc' \notin Dark
  BY DEF Asking, Ended, OutsidePass, Blank, Unpaused, Dark, Lit
<1>2. HasPixel(Out.wire)
  BY <1>1, OutNow, WireParts
<1>3. HasPixel(n.wire)
  BY <1>2 DEF Extends
<1> QED
  BY <1>1, <1>3, DrawStep DEF webVars

LEMMA WireInit == ASSUME EmulatorInit PROVE WireInv
<1>1. /\ stage = NewStage /\ sink = NewSink /\ wire = << >> /\ pc = "load"
  BY DEF EmulatorInit, Init
<1>2. stage \in StageRecords /\ sink \in SinkRecords /\ wire \in Seq(StreamRecords)
      /\ stage.last # "black" /\ sink.header = FALSE
  BY <1>1 DEF NewStage, NewSink, StageRecords, SinkRecords, Mail
<1>3. ~HasPixel(wire) /\ ~LastLit(wire) /\ ~LastPaused(wire) /\ \A y : ~Has(wire, y)
  BY <1>1, EmptyStream
<1>4. StreamOk(wire, sink)
  BY <1>1, <1>2 DEF StreamOk, Grammatical
<1>5. pc \notin Lit /\ pc \notin Dark /\ pc \in OutsidePass
  BY <1>1 DEF Lit, Dark, OutsidePass, Asking
<1> QED
  BY <1>2, <1>3, <1>4, <1>5, WireParts

LEMMA StartWires == ASSUME WireInv, Start, UNCHANGED webVars PROVE WireInv'
<1>0. /\ pc = "start" /\ pc \notin Ended /\ pc \notin OutsidePass /\ pc \in Unpaused
      /\ UNCHANGED mode
  BY DEF Start, Ended, OutsidePass, Unpaused
<1>1. PICK ok \in Outcome("write"), off \in Outcome("write"), fault \in StartFaults :
        LET o == StageStart(Out, ok)
        IN  IF ~o.ok \/ fault \notin {"none", "half"}
              THEN Commit(FailOff(o, off)) /\ status' = "ControllerFailure" /\ pc' = "destroy"
              ELSE Commit(o) /\ pc' \in {"cancel", "startDrain"}
  BY DEF Start
<1> DEFINE o == StageStart(Out, ok)
           n == FailOff(o, off)
<1>2. Drew(Out, o, "black") /\ (o.ok => HasPixel(o.wire))
  BY <1>0, OutNow, StageStartDraws, WriteOutcome
<1>3. OutOk(o) /\ Extends(Out, o)
  BY <1>2 DEF Drew
<1> HIDE DEF o
<1>4. CASE ~o.ok \/ fault \notin {"none", "half"}
  <2>1. Commit(n) /\ status' = "ControllerFailure" /\ pc' = "destroy"
    BY <1>1, <1>4 DEF o
  <2>2. Drew(o, n, "black")
    BY <1>3, FailOffDraws, WriteOutcome
  <2> HIDE DEF n
  <2>3. OutOk(n) /\ Extends(Out, n) /\ (n.ok => ~LastLit(n.wire)) /\ (~n.ok => ~n.sink.good)
    BY <1>3, <2>2, ExtendsTwice DEF Drew, OutOk
  <2>4. "destroy" \notin Blank /\ "destroy" \notin Unpaused /\ "destroy" \notin Lit
    BY DEF Blank, Unpaused, Lit, Asking
  <2> QED
    BY <1>0, <2>1, <2>3, <2>4, DrawStep DEF webVars
<1>5. CASE ~(~o.ok \/ fault \notin {"none", "half"})
  <2>1. Commit(o) /\ pc' \in {"cancel", "startDrain"} /\ HasPixel(o.wire)
    BY <1>1, <1>2, <1>5 DEF o
  <2>2. pc' \notin Blank /\ pc' \notin Dark
    BY <2>1 DEF Blank, Dark
  <2> QED
    BY <1>0, <1>3, <2>1, <2>2, DrawStep DEF webVars
<1> QED
  BY <1>4, <1>5

LEMMA StartDrainWires == ASSUME WireInv, StartDrain, UNCHANGED webVars PROVE WireInv'
<1>0. /\ pc = "startDrain" /\ pc \notin Ended /\ pc \in Unpaused /\ pc \in Lit /\ UNCHANGED mode
  BY DEF StartDrain, Ended, Unpaused, Lit
<1>1. PICK drained \in Outcome("drain"), ok \in Outcome("write"), burns \in BOOLEAN, m \in Mail :
        LET o == StageTick(EngineRan(Out, m), ok, burns)
        IN  IF drained /\ o.ok THEN Commit(o) /\ pc' = "loop"
            ELSE Commit(IF drained THEN o ELSE EngineRan(Out, m)) /\ pc' = "cancel"
  BY DEF StartDrain
<1> DEFINE e == EngineRan(Out, m)
           o == StageTick(e, ok, burns)
<1>2. OutOk(e) /\ Extends(Out, e) /\ e.wire = wire
  BY <1>0, OutNow, EngineRanKeeps
<1>3. HasPixel(wire) /\ ~LastPaused(wire)
  BY <1>0, WireParts
<1> HIDE DEF e
<1>4. OutOk(o) /\ Extends(e, o)
  BY <1>2, <1>3, StageTickDraws, WriteOutcome
<1> HIDE DEF o
<1>5. Extends(Out, o)
  BY <1>2, <1>4, ExtendsTwice
<1>6. (Commit(o) \/ Commit(e)) /\ pc' \in {"loop", "cancel"}
  BY <1>1 DEF e, o
<1>7. pc' \in (Asking \cup {"wait", "cancel"})
  BY <1>6 DEF Asking
<1> QED
  BY <1>0, <1>2, <1>4, <1>5, <1>6, <1>7, WorkStep

LEMMA StopWires ==
  ASSUME RecordInv, StatusInv, WireInv, StopDone \/ StopTimesOut, UNCHANGED webVars
  PROVE  WireInv'
<1>0. /\ pc = "stopWait" /\ pc \notin Ended /\ pc \notin OutsidePass /\ UNCHANGED mode
      /\ ctl.caller \in {"run", "destructor"}
  BY DEF StopDone, StopTimesOut, Ended, OutsidePass, RecordInv, CtlRecords
<1>1. PICK quiescent \in BOOLEAN : FinishStop(quiescent)
  BY DEF StopDone, StopTimesOut
<1>2. PICK off \in Outcome("write") :
        /\ Commit(FailOff(Out, off)) /\ pc' = "destroy"
        /\ status' = IF status = "Ok" /\ ctl.caller = "run"
                          /\ ~(quiescent /\ FailOff(Out, off).ok)
                       THEN "ControllerFailure" ELSE status
  BY <1>1 DEF FinishStop
<1> DEFINE n == FailOff(Out, off)
<1>3. Drew(Out, n, "black")
  BY <1>0, OutNow, FailOffDraws, WriteOutcome
<1>4. ~n.ok => status' # "Ok"
  BY <1>0, <1>2 DEF StatusInv
<1>5. Commit(n)
  BY <1>2
<1> HIDE DEF n
<1>6. OutOk(n) /\ Extends(Out, n) /\ (n.ok => ~LastLit(n.wire)) /\ (~n.ok => ~n.sink.good)
  BY <1>3 DEF Drew, OutOk
<1>7. "destroy" \notin Blank /\ "destroy" \notin Unpaused /\ "destroy" \notin Lit
  BY DEF Blank, Unpaused, Lit, Asking
<1> QED
  BY <1>0, <1>2, <1>4, <1>5, <1>6, <1>7, DrawStep DEF webVars

\* A grant, a skipped step, or a step of a cadence.
LEMMA GrantWires == ASSUME WireInv, Granting, UNCHANGED webVars PROVE WireInv'
<1>0. pc \in Active /\ pc \notin Ended /\ pc \in Unpaused \cap Lit /\ UNCHANGED mode
  BY GrantingCases DEF Active, Asking, Ended, Unpaused, Lit, Skip, ProcessInput
<1>1. CASE \E off \in Outcome("write") : Fail(Out, off)
  BY <1>0, <1>1, OutNow, FailStep
<1>2. CASE UNCHANGED <<stage, sink, wire>> /\ pc' \in {"eof", "timeout", "poll", "wait"}
  <2>1. Commit(Out) /\ pc' \in (Asking \cup {"wait", "cancel"})
    BY <1>0, <1>2, OutNow DEF Commit, Asking
  <2> QED
    BY <1>0, <2>1, OutNow, WorkStep
<1> QED
  BY <1>1, <1>2, GrantingCases DEF Skip, ProcessInput

LEMMA DrainWires == ASSUME WireInv, Drain, UNCHANGED webVars PROVE WireInv'
<1>0. pc = "drain" /\ pc \in Active /\ pc \notin Ended /\ pc \in Unpaused \cap Lit /\ UNCHANGED mode
  BY DEF Drain, Active, Asking, Ended, Unpaused, Lit
<1>1. InputResult \in {"Frame", "EndOfStream", "Timeout"}
  BY DEF InputResult
<1>2. PICK off \in Outcome("write"), m \in Mail :
        LET o == EngineRan(Out, m)
        IN  Fail(o, off) \/ (Commit(o) /\ pc' \in {"cancel", "frames", "timeout", "poll"})
  BY <1>1 DEF Drain
<1> DEFINE o == EngineRan(Out, m)
<1>3. OutOk(o) /\ Extends(Out, o)
  BY <1>0, OutNow, EngineRanKeeps
<1>4. Fail(o, off) \/ (Commit(o) /\ pc' \in {"cancel", "frames", "timeout", "poll"})
  BY <1>2
<1> HIDE DEF o
<1>5. CASE Fail(o, off)
  BY <1>0, <1>3, <1>5, FailStep
<1>6. CASE Commit(o) /\ pc' \in {"cancel", "frames", "timeout", "poll"}
  <2>1. pc' \in (Asking \cup {"wait", "cancel"})
    BY <1>6 DEF Asking
  <2> QED
    BY <1>0, <1>3, <1>6, <2>1, WorkStep
<1> QED
  BY <1>4, <1>5, <1>6

LEMMA CadenceWires ==
  ASSUME WireInv, Poll \/ SampleSignals \/ TickOutput, UNCHANGED webVars
  PROVE  WireInv'
<1>0. pc \in Active /\ pc \notin Ended /\ pc \in Unpaused \cap Lit /\ UNCHANGED mode
  BY DEF Poll, SampleSignals, TickOutput, Skip, Active, Asking, Ended, Unpaused, Lit
<1>1. ASSUME NEW to \in {"sample", "tick", "loop"}, Skip(to) PROVE WireInv'
  <2>1. Commit(Out) /\ pc' \in (Asking \cup {"wait", "cancel"})
    BY <1>0, <1>1, OutNow DEF Skip, Commit, Asking
  <2> QED
    BY <1>0, <2>1, OutNow, WorkStep
<1>2. ASSUME NEW o, OutOk(o), Extends(Out, o), NEW kind, NEW c,
             NEW to \in {"sample", "tick", "loop"}, Did(kind, o, c, to)
      PROVE  WireInv'
  <2>1. Commit(o) /\ pc' \in (Asking \cup {"wait", "cancel"})
    BY <1>2 DEF Did, Asking
  <2> QED
    BY <1>0, <1>2, <2>1, WorkStep
<1>3. ASSUME NEW o, OutOk(o), Extends(Out, o), NEW off \in Outcome("write"), Failed(o, off)
      PROVE  WireInv'
  BY <1>0, <1>3, FailStep DEF Failed
<1>4. OutOk(Out) /\ Extends(Out, Out) /\ HasPixel(Out.wire) /\ ~LastPaused(Out.wire)
  BY <1>0, OutNow, WireParts
<1>5. ASSUME NEW m \in Mail PROVE OutOk(EngineRan(Out, m)) /\ Extends(Out, EngineRan(Out, m))
  BY <1>4, EngineRanKeeps
<1>6. ASSUME NEW ok \in Outcome("write"), NEW burns \in BOOLEAN
      PROVE  OutOk(StageTick(Out, ok, burns)) /\ Extends(Out, StageTick(Out, ok, burns))
  BY <1>4, StageTickDraws, WriteOutcome
<1>7. CASE Poll
  BY <1>1, <1>2, <1>3, <1>5, <1>7 DEF Poll
<1>8. CASE SampleSignals
  BY <1>1, <1>2, <1>3, <1>4, <1>8 DEF SampleSignals
<1>9. CASE TickOutput
  BY <1>1, <1>2, <1>3, <1>6, <1>9 DEF TickOutput
<1> QED
  BY <1>7, <1>8, <1>9

\* Steps that write nothing.
LEMMA HostStillWires ==
  ASSUME WireInv, RecordInv, UNCHANGED webVars,
         Load \/ RunReplay \/ PublicationSeen \/ Loop \/ Ungated \/ Cancel \/ StopTelemetry
           \/ Destroy
  PROVE  WireInv'
<1>0. /\ UNCHANGED <<pacer, chan, sink, wire, mode>>
      /\ mode \in {"render", "web"} /\ (LastPaused(wire) => mode = "web")
      /\ wire \in Seq(StreamRecords)
  BY WireParts DEF webVars, RecordInv, Load, RunReplay, PublicationSeen, Loop, Ungated, Cancel,
                   StopTelemetry, Destroy, Skip
<1> USE DEF OutsidePass, Ended, Blank, Lit, Unpaused, Dark, Asking
<1>1. CASE Load
  <2>1. pc = "load" /\ UNCHANGED stage /\ (pc' \in {"serverStart", "exit"} \/ (pc' = "run" /\ mode = "render"))
    BY <1>0, <1>1 DEF Load
  <2> QED
    BY <1>0, <2>1, StillStep
<1>2. CASE RunReplay
  <2>1. pc = "run" /\ pc' \in {"start", "over"} /\ stage' = NewStage
    BY <1>2 DEF RunReplay, NewReplay
  <2>2. ~LastPaused(wire) /\ ~LastLit(wire)
    BY <1>0, <2>1, WireParts, LitHasPixel
  <2> QED
    BY <1>0, <2>1, <2>2, StillStep
<1>3. CASE PublicationSeen
  <2>1. pc = "wait" /\ pc' = "drain" /\ UNCHANGED stage
    BY <1>3 DEF PublicationSeen, Skip
  <2>2. ~LastPaused(wire)
    BY <2>1, WireParts
  <2> QED
    BY <1>0, <2>1, <2>2, StillStep
<1>4. CASE Loop
  <2>1. pc = "loop" /\ pc' \in {"admit", "admitEnd", "cancel"} /\ UNCHANGED stage
    BY <1>4 DEF Loop
  <2> QED
    BY <1>0, <2>1, StillStep
<1>5. CASE Ungated
  <2>1. /\ pc \in {"admit", "admitEnd"} /\ pc' \in {"frames", "cancel"} /\ UNCHANGED stage
        /\ mode = "render"
    BY <1>5 DEF Ungated, AdvanceTo
  <2> QED
    BY <1>0, <2>1, StillStep
<1>6. CASE Cancel \/ StopTelemetry
  <2>1. /\ pc \in {"cancel", "stopTelemetry"} /\ pc' \in {"stopTelemetry", "stopWait"}
        /\ UNCHANGED stage
    BY <1>6 DEF Cancel, StopTelemetry
  <2> QED
    BY <1>0, <2>1, StillStep
<1>7. CASE Destroy
  <2>1. pc = "destroy" /\ pc' \in {"cancel", "over"} /\ UNCHANGED <<stage, status>>
    BY <1>7 DEF Destroy
  <2>2. LastLit(wire) => ~sink.good /\ status # "Ok"
    BY <2>1, WireParts
  <2> QED
    BY <1>0, <2>1, <2>2, StillStep
<1> QED
  BY <1>1, <1>2, <1>3, <1>4, <1>5, <1>6, <1>7

LEMMA WebStillWires ==
  ASSUME WireInv, RecordInv, PaceInv,
         ServerStart \/ Accept \/ ServeEnds \/ PollClosed \/ Release \/ (Watching /\ ~PollFrame)
           \/ WorkerStep
  PROVE  WireInv'
<1>0. chan.closed \in BOOLEAN /\ pacer.paused \in BOOLEAN
  BY DEF PaceInv
<1>1. CASE ServerStart \/ Accept \/ ServeEnds
  <2>1. /\ UNCHANGED <<pacer, chan, sink, wire, mode, stage>>
        /\ pc \in {"serverStart", "accept"} /\ pc' \in {"accept", "exit", "pass"}
    BY <1>1 DEF ServerStart, Accept, ServeEnds, replayVars, webVars
  <2> QED
    BY <2>1, StillStep DEF OutsidePass, Ended, Blank, Lit, Unpaused, Dark, Asking
<1>2. CASE PollClosed
  <2>1. /\ UNCHANGED <<chan, sink, wire, mode, stage>>
        /\ pacer' = [pacer EXCEPT !.interruption = "Stop"]
        /\ \/ pc \in {"admit", "admitEnd"} /\ pc' = "cancel"
           \/ pc = "await" /\ pc' = "finish" /\ UNCHANGED status
    BY <1>2 DEF PollClosed, Polling, Gating, Interrupt, replayVars, sessionVars
  <2>2. (pacer.paused)' = pacer.paused
    BY <2>1 DEF PaceInv
  <2>3. pc = "await" /\ LastLit(wire) => ~sink.good /\ status # "Ok"
    BY WireParts DEF Dark
  <2> QED
    BY <2>1, <2>2, <2>3, StillStep DEF OutsidePass, Ended, Blank, Lit, Unpaused, Dark, Asking
<1>3. CASE Release
  <2>1. /\ UNCHANGED <<pacer, chan, sink, wire, mode, stage>> /\ ~pacer.paused /\ ~chan.closed
        /\ pc \in {"admit", "admitEnd"} /\ pc' \in {"frames", "cancel"}
    BY <1>3 DEF Release, Gating, AdvanceTo, webVars
  <2>2. ~LastPaused(wire)
    BY <2>1, WireParts
  <2> QED
    BY <2>1, <2>2, StillStep DEF OutsidePass, Ended, Blank, Lit, Unpaused, Dark, Asking
<1>4. ASSUME UNCHANGED <<pc, sink, wire, mode, stage, status>>, (pacer.paused)' = pacer.paused,
             chan.closed => (chan.closed)'
      PROVE  WireInv'
  <2>1. /\ pc \in Unpaused => ~LastPaused(wire)
        /\ pc \in Dark /\ LastLit(wire) => ~sink.good /\ status # "Ok"
    BY WireParts
  <2> QED
    BY <1>4, <2>1, StillStep
<1>5. CASE PollReceives
  <2>1. UNCHANGED <<pc, sink, wire, mode, stage, status, pacer>> /\ ~chan.closed
    BY <1>5 DEF PollReceives, ChannelOpen, replayVars
  <2> QED
    BY <1>4, <2>1
<1>6. CASE (Watching /\ ~PollFrame /\ ~PollReceives) \/ WorkerStep
  <2>1. UNCHANGED <<pc, sink, wire, mode, stage, status, pacer, chan>>
    BY <1>6 DEF Watching, BrowserSends, BrowserLeaves, WallTick, RequestShutdown, replayVars,
                sessionVars, WorkerStep, Worker, WorkerWakes, WorkerReceives,
                PublicationCompleted, WorkerReleased, webVars
  <2> QED
    BY <1>4, <2>1
<1> QED
  BY <1>1, <1>2, <1>3, <1>5, <1>6

\* The end record, after a replay that went well.
LEMMA EndMayFollow ==
  ASSUME WireInv, pc = "over", status = "Ok", NEW ok \in BOOLEAN,
         NEW x, x = StreamWrite(sink, wire, "end", ok)
  PROVE  /\ Wrote(x, sink, wire, "end", ok)
         /\ ~LastLit(wire) /\ ~Has(wire, "close") /\ ~Has(wire, "end") /\ ~Has(wire, "restart")
<1>1. ~LastLit(wire) /\ ~Has(wire, "close") /\ ~Has(wire, "end") /\ ~Has(wire, "restart")
  BY WireParts DEF Dark, Ended
<1>2. /\ "end" \in StreamRecords \ {"header"} /\ "end" \notin Pixels
  BY DEF StreamRecords, Pixels
<1>3. MayFollow(wire, TRUE, "end") \/ (wire = << >> /\ "end" # "lit")
  BY <1>1, <1>2 DEF MayFollow
<1>4. sink \in SinkRecords /\ wire \in Seq(StreamRecords) /\ StreamOk(wire, sink)
  BY WireParts
<1>5. Wrote(x, sink, wire, "end", ok)
  BY <1>2, <1>3, <1>4, StreamWriteEffect
<1> QED
  BY <1>1, <1>5

\* What the invariant says after a step, in these names.
LEMMA WirePartsNext ==
  WireInv' <=>
    /\ stage' \in StageRecords /\ sink' \in SinkRecords /\ wire' \in Seq(StreamRecords)
    /\ StreamOk(wire', sink')
    /\ (stage.last)' = "black" => ~LastLit(wire')
    /\ Has(wire', "close") => pc' = "endSession"
    /\ Has(wire', "end") \/ Has(wire', "restart") => pc' \in Ended
    /\ mode' = "web" /\ pc' \notin OutsidePass => (sink.header)'
    /\ pc' \in Blank => ~HasPixel(wire')
    /\ pc' \in Lit => HasPixel(wire')
    /\ LastPaused(wire') => mode' = "web" /\ ((pacer.paused)' \/ (chan.closed)')
    /\ pc' \in Unpaused => ~LastPaused(wire')
    /\ pc' \in Dark /\ LastLit(wire') => ~(sink.good)' /\ status' # "Ok"
BY DEF WireInv, StripDarkAtEnd, Blank, Lit, Unpaused, Dark, LastLit

LEMMA RenderEndsWires == ASSUME WireInv, RenderEnds, UNCHANGED webVars PROVE WireInv'
<1>0. /\ pc = "over" /\ pc' = "exit" /\ UNCHANGED <<mode, stage, pacer, chan>> /\ mode = "render"
  BY DEF RenderEnds, webVars
<1>1. "exit" \notin Blank /\ "exit" \notin Lit /\ "exit" \notin Unpaused /\ "exit" \notin Dark
      /\ "exit" \in Ended /\ "exit" \in OutsidePass /\ "over" \in Dark /\ "over" \notin OutsidePass
      /\ "over" # "endSession" /\ "over" \notin Ended
  BY DEF Blank, Lit, Unpaused, Dark, Ended, OutsidePass, Asking
<1>2. CASE UNCHANGED <<sink, wire>>
  BY <1>0, <1>1, <1>2, WireParts, StillStep
<1>3. CASE ~UNCHANGED <<sink, wire>>
  <2>1. status = "Ok" /\ \E ok \in Outcome("write") :
          sink' = StreamWrite(sink, wire, "end", ok).sink
            /\ wire' = StreamWrite(sink, wire, "end", ok).wire
    BY <1>3 DEF RenderEnds
  <2>2. PICK ok \in Outcome("write") : sink' = StreamWrite(sink, wire, "end", ok).sink
            /\ wire' = StreamWrite(sink, wire, "end", ok).wire
    BY <2>1
  <2> DEFINE x == StreamWrite(sink, wire, "end", ok)
  <2>3. sink' = x.sink /\ wire' = x.wire
    BY <2>2
  <2>4. /\ Wrote(x, sink, wire, "end", ok)
        /\ ~LastLit(wire) /\ ~Has(wire, "close") /\ ~Has(wire, "end") /\ ~Has(wire, "restart")
    BY <1>0, <2>1, EndMayFollow, WriteOutcome
  <2> HIDE DEF x
  <2>5. /\ x.sink \in SinkRecords /\ x.wire \in Seq(StreamRecords) /\ StreamOk(x.wire, x.sink)
        /\ ~Has(x.wire, "close")
        /\ ~LastLit(x.wire) /\ (LastPaused(x.wire) => LastPaused(wire))
    BY <2>4 DEF Wrote, Pixels, Acks
  <2>6. /\ stage \in StageRecords
        /\ LastPaused(wire) => mode = "web" /\ (pacer.paused \/ chan.closed)
    BY WireParts
  <2> QED
    BY <1>0, <1>1, <2>3, <2>5, <2>6, WirePartsNext
<1> QED
  BY <1>2, <1>3

LEMMA PassEndsWires == ASSUME WireInv, PassEnds PROVE WireInv'
<1>0. /\ pc = "over" /\ UNCHANGED <<mode, status, pacer, chan>> /\ mode = "web"
      /\ stage' = NewStage
  BY DEF PassEnds, NewReplay, webVars
<1>1. /\ "over" \notin Ended /\ "over" \notin OutsidePass /\ "over" # "endSession"
      /\ (LastLit(wire) => ~sink.good /\ status # "Ok") /\ sink.header
      /\ (LastPaused(wire) => pacer.paused \/ chan.closed)
  BY <1>0, WireParts DEF Ended, OutsidePass, Dark
<1>2. CASE UNCHANGED <<sink, wire>> /\ pc' \in {"restart", "finish", "endSession"}
  <2>1. pc' \in Ended /\ pc' \notin Blank /\ pc' \notin Lit /\ pc' \notin Unpaused
    BY <1>2 DEF Ended, Blank, Lit, Unpaused, Asking
  <2> QED
    BY <1>0, <1>1, <1>2, <2>1, StillStep
<1>3. CASE ~(UNCHANGED <<sink, wire>> /\ pc' \in {"restart", "finish", "endSession"})
  <2>1. PICK ok \in Outcome("write") :
          /\ status = "Ok" /\ sink' = StreamWrite(sink, wire, "end", ok).sink
          /\ wire' = StreamWrite(sink, wire, "end", ok).wire
          /\ pc' = IF StreamWrite(sink, wire, "end", ok).ok THEN "await" ELSE "endSession"
    BY <1>3 DEF PassEnds
  <2> DEFINE x == StreamWrite(sink, wire, "end", ok)
  <2>2. sink' = x.sink /\ wire' = x.wire /\ pc' \in {"await", "endSession"}
    BY <2>1
  <2>3. /\ Wrote(x, sink, wire, "end", ok)
        /\ ~LastLit(wire) /\ ~Has(wire, "close") /\ ~Has(wire, "end") /\ ~Has(wire, "restart")
    BY <1>0, <2>1, EndMayFollow, WriteOutcome
  <2> HIDE DEF x
  <2>4. /\ x.sink \in SinkRecords /\ x.wire \in Seq(StreamRecords) /\ StreamOk(x.wire, x.sink)
        /\ ~Has(x.wire, "close") /\ x.sink.header
        /\ ~LastLit(x.wire) /\ (LastPaused(x.wire) => LastPaused(wire))
    BY <1>1, <2>3 DEF Wrote, Pixels, Acks
  <2>5. NewStage \in StageRecords /\ NewStage.last # "black"
    BY DEF NewStage, StageRecords, Mail
  <2>6. pc' \in Ended /\ pc' \notin Blank /\ pc' \notin Lit /\ pc' \notin Unpaused
    BY <2>2 DEF Ended, Blank, Lit, Unpaused, Asking
  <2> QED
    BY <1>0, <1>1, <2>2, <2>4, <2>5, <2>6, WirePartsNext
<1> QED
  BY <1>2, <1>3

\* A pass begins with its header, and with the player's state.
LEMMA NewStream ==
  /\ <<"header">> \in Seq(StreamRecords) /\ Grammatical(<<"header">>, TRUE)
  /\ <<"header", "playing">> \in Seq(StreamRecords)
  /\ Grammatical(<<"header", "playing">>, TRUE)
  /\ \A w \in {<<"header">>, <<"header", "playing">>} :
       w # << >> /\ ~HasPixel(w) /\ ~LastLit(w) /\ ~LastPaused(w)
         /\ ~Has(w, "close") /\ ~Has(w, "end") /\ ~Has(w, "restart")
<1> DEFINE e == << >>
           h == <<"header">>
           p == <<"header", "playing">>
<1>1. e \in Seq(StreamRecords) /\ h = Append(e, "header") /\ p = Append(h, "playing")
  OBVIOUS
<1>2. /\ {"header", "playing"} \subseteq StreamRecords
      /\ {"header", "playing"} \cap Pixels = {} /\ "header" \notin Acks /\ "playing" \in Acks
  BY DEF StreamRecords, Pixels, Acks
<1>3. ~HasPixel(e) /\ ~LastLit(e) /\ ~LastPaused(e) /\ \A y : ~Has(e, y)
  BY EmptyStream
<1>4. Grammatical(e, TRUE) /\ MayFollow(e, TRUE, "header")
  BY <1>2, <1>3 DEF Grammatical, MayFollow
<1> HIDE DEF e, h, p
<1>5. /\ h \in Seq(StreamRecords) /\ h # << >>
      /\ \A x : Has(h, x) <=> Has(e, x) \/ x = "header"
      /\ HasPixel(h) <=> HasPixel(e) \/ "header" \in Pixels
      /\ LastLit(h) <=> "header" = "lit" \/ ("header" \notin Pixels /\ LastLit(e))
      /\ LastPaused(h) <=> "header" = "paused" \/ ("header" \notin Acks /\ LastPaused(e))
  BY <1>1, <1>2, AppendShows
<1>6. Grammatical(h, TRUE)
  BY <1>1, <1>2, <1>4, AppendGrammar
<1>7. MayFollow(h, TRUE, "playing")
  BY <1>2, <1>3, <1>5 DEF MayFollow
<1>8. /\ p \in Seq(StreamRecords) /\ p # << >>
      /\ \A x : Has(p, x) <=> Has(h, x) \/ x = "playing"
      /\ HasPixel(p) <=> HasPixel(h) \/ "playing" \in Pixels
      /\ LastLit(p) <=> "playing" = "lit" \/ ("playing" \notin Pixels /\ LastLit(h))
      /\ LastPaused(p) <=> "playing" = "paused" \/ ("playing" \notin Acks /\ LastPaused(h))
  BY <1>1, <1>2, <1>5, AppendShows
<1>9. Grammatical(p, TRUE)
  BY <1>1, <1>2, <1>5, <1>6, <1>7, AppendGrammar
<1>10. \A w \in {h, p} : w # << >> /\ ~HasPixel(w) /\ ~LastLit(w) /\ ~LastPaused(w)
         /\ ~Has(w, "close") /\ ~Has(w, "end") /\ ~Has(w, "restart")
  BY <1>2, <1>3, <1>5, <1>8
<1> QED
  BY <1>5, <1>6, <1>8, <1>9, <1>10 DEF h, p

LEMMA BeginPassWires == ASSUME WireInv, PaceInv, BeginPass PROVE WireInv'
<1>0. pc = "pass" /\ UNCHANGED <<mode, stage>> /\ stage \in StageRecords
  BY WireParts DEF BeginPass
<1>1. PICK header \in Outcome("write"), ok \in Outcome("write") :
        LET w == StreamWrite(NewSink, <<>>, "header", header)
            p == [pacer EXCEPT !.paused = FALSE, !.interruption = "None",
                               !.anchorWall = 0, !.anchorReplay = 0]
        IN  /\ sink' = w.sink
            /\ IF w.ok
                 THEN /\ pacer' = p /\ pc' = "run"
                      /\ wire' = IF ok /\ ChannelOpen THEN <<"header", PlaybackRecord(p)>>
                                                     ELSE <<"header">>
                 ELSE pc' = "endSession" /\ wire' = <<>>
  BY DEF BeginPass
<1>2. header \in BOOLEAN
  BY WriteOutcome
<1>3. /\ StreamWrite(NewSink, <<>>, "header", header).sink = [good |-> header, header |-> header]
      /\ StreamWrite(NewSink, <<>>, "header", header).ok = header
  BY <1>2 DEF StreamWrite, NewSink
<1>4. [pacer EXCEPT !.paused = FALSE, !.interruption = "None",
                    !.anchorWall = 0, !.anchorReplay = 0].paused = FALSE
  BY DEF PaceInv
<1>5. /\ sink' = [good |-> header, header |-> header] /\ sink' \in SinkRecords
      /\ (sink.good)' = header /\ (sink.header)' = header
  BY <1>1, <1>2, <1>3 DEF SinkRecords
<1>6. CASE header
  <2>1. pc' = "run" /\ wire' \in {<<"header">>, <<"header", "playing">>}
    BY <1>1, <1>3, <1>4, <1>6 DEF PlaybackRecord
  <2>2. /\ wire' \in Seq(StreamRecords) /\ Grammatical(wire', TRUE) /\ wire' # << >>
        /\ ~HasPixel(wire') /\ ~LastLit(wire') /\ ~LastPaused(wire')
        /\ ~Has(wire', "close") /\ ~Has(wire', "end") /\ ~Has(wire', "restart")
    BY <2>1, NewStream
  <2>3. StreamOk(wire', sink')
    BY <1>2, <1>5, <1>6, <2>2 DEF StreamOk
  <2>4. "run" \notin Lit /\ "run" \notin Dark
    BY DEF Lit, Dark, Asking
  <2> QED
    BY <1>0, <1>5, <1>6, <2>1, <2>2, <2>3, <2>4, WirePartsNext
<1>7. CASE ~header
  <2>1. pc' = "endSession" /\ wire' = << >>
    BY <1>1, <1>3, <1>7
  <2>2. ~HasPixel(wire') /\ ~LastLit(wire') /\ ~LastPaused(wire') /\ \A y : ~Has(wire', y)
    BY <2>1, EmptyStream
  <2>3. StreamOk(wire', sink') /\ wire' \in Seq(StreamRecords)
    BY <1>5, <1>7, <2>1 DEF StreamOk, Grammatical
  <2>4. "endSession" \notin Lit /\ "endSession" \notin Dark /\ "endSession" \in OutsidePass
    BY DEF Lit, Dark, OutsidePass, Asking
  <2> QED
    BY <1>0, <1>5, <2>1, <2>2, <2>3, <2>4, WirePartsNext
<1> QED
  BY <1>2, <1>6, <1>7

LEMMA EndSessionWires == ASSUME WireInv, EndSession PROVE WireInv'
<1>1. /\ pc' = "accept" /\ wire' = << >> /\ sink' = NewSink /\ UNCHANGED stage
      /\ stage \in StageRecords
  BY WireParts DEF EndSession, replayVars
<1>2. ~HasPixel(wire') /\ ~LastLit(wire') /\ ~LastPaused(wire') /\ \A y : ~Has(wire', y)
  BY <1>1, EmptyStream
<1>3. /\ sink' \in SinkRecords /\ StreamOk(wire', sink') /\ wire' \in Seq(StreamRecords)
  BY <1>1 DEF StreamOk, Grammatical, NewSink, SinkRecords
<1>4. "accept" \notin Lit /\ "accept" \notin Dark /\ "accept" \in OutsidePass
      /\ "accept" \notin Unpaused
  BY DEF Lit, Dark, OutsidePass, Unpaused, Asking
<1> QED
  BY <1>1, <1>2, <1>3, <1>4, WirePartsNext

\* After the replay, the stream ends in a restart or a close.
LEMMA LastWordWires ==
  ASSUME WireInv, RecordInv, PaceInv, SendRestart \/ Finish
  PROVE  WireInv'
<1>0. /\ pc \in {"restart", "finish"} /\ UNCHANGED <<mode, stage, sink, pacer, status>>
      /\ mode = "web" /\ pc' \in {"pass", "endSession"}
  BY DEF SendRestart, Finish, replayVars, webVars, RecordInv, WebOnly
<1>1. /\ stage \in StageRecords /\ sink \in SinkRecords /\ wire \in Seq(StreamRecords)
      /\ StreamOk(wire, sink) /\ sink.header /\ ~Has(wire, "close")
      /\ (stage.last = "black" => ~LastLit(wire)) /\ (LastLit(wire) => ~sink.good)
      /\ (LastPaused(wire) => pacer.paused \/ chan.closed)
  BY <1>0, WireParts DEF Dark, OutsidePass
<1>2. chan.closed => (chan.closed)'
  BY DEF SendRestart, Finish, SendText, webVars, PaceInv
<1>3. /\ pc' \in Ended /\ pc' \in OutsidePass /\ pc' \notin Blank /\ pc' \notin Lit
      /\ pc' \notin Unpaused /\ pc' \notin Dark
  BY <1>0 DEF Ended, OutsidePass, Blank, Lit, Unpaused, Dark, Asking
<1>4. CASE UNCHANGED wire
  BY <1>0, <1>1, <1>2, <1>3, <1>4, WirePartsNext
<1>5. ASSUME NEW r \in {"restart", "close"}, wire' \in {Append(wire, r), Append1(wire, r)},
             r = "close" => pc' = "endSession"
      PROVE  WireInv'
  <2>1. r \in StreamRecords /\ r \notin Pixels /\ r \notin Acks /\ r # "header"
    BY DEF StreamRecords, Pixels, Acks
  <2>2. wire # << >> /\ Grammatical(wire, sink.good) /\ sink.good \in BOOLEAN
    BY <1>1 DEF StreamOk, SinkRecords
  <2>3. MayFollow(wire, sink.good, r)
    BY <1>1, <2>1, <2>2 DEF MayFollow
  <2>4. Grammatical(wire', sink.good)
    BY <1>1, <1>5, <2>1, <2>2, <2>3, AppendGrammar
  <2>5. /\ wire' \in Seq(StreamRecords) /\ wire' # << >>
        /\ \A x : Has(wire', x) <=> Has(wire, x) \/ x = r
        /\ HasPixel(wire') <=> HasPixel(wire) \/ r \in Pixels
        /\ LastLit(wire') <=> r = "lit" \/ (r \notin Pixels /\ LastLit(wire))
        /\ LastPaused(wire') <=> r = "paused" \/ (r \notin Acks /\ LastPaused(wire))
    BY <1>1, <1>5, <2>1, AppendShows
  <2>6. StreamOk(wire', sink')
    BY <1>0, <1>1, <2>4, <2>5 DEF StreamOk
  <2>7. /\ LastLit(wire') => LastLit(wire)
        /\ LastPaused(wire') => LastPaused(wire)
        /\ Has(wire', "close") => pc' = "endSession"
    BY <1>1, <1>5, <2>1, <2>5
  <2> QED
    BY <1>0, <1>1, <1>2, <1>3, <2>5, <2>6, <2>7, WirePartsNext
<1>6. CASE SendRestart
  <2>1. UNCHANGED wire \/ wire' = Append1(wire, "restart")
    BY <1>6 DEF SendRestart, SendText
  <2> QED
    BY <1>4, <1>5, <2>1
<1>7. CASE Finish
  <2>1. (UNCHANGED wire \/ wire' = Append(wire, "close")) /\ pc' = "endSession"
    BY <1>7 DEF Finish
  <2> QED
    BY <1>4, <1>5, <2>1
<1> QED
  BY <1>6, <1>7

\* What the player says while it polls.
LEMMA TextStep ==
  ASSUME WireInv, pc \in {"admit", "admitEnd", "await"}, mode = "web",
         NEW r \in {"pong", "rejected", "paused", "playing"},
         wire' \in {wire, Append1(wire, r)}, UNCHANGED <<mode, stage, sink, pc, status>>,
         wire' = wire /\ LastPaused(wire) => (pacer.paused)' \/ (chan.closed)',
         r = "paused" => (pacer.paused)' \/ (chan.closed)',
         r \notin Acks /\ LastPaused(wire) => (pacer.paused)' \/ (chan.closed)'
  PROVE  WireInv'
<1>1. /\ stage \in StageRecords /\ sink \in SinkRecords /\ wire \in Seq(StreamRecords)
      /\ StreamOk(wire, sink) /\ sink.header /\ ~Has(wire, "close")
      /\ (stage.last = "black" => ~LastLit(wire))
      /\ (pc \in Lit => HasPixel(wire))
      /\ (Has(wire, "end") \/ Has(wire, "restart") => pc \in Ended)
      /\ (pc \in Dark /\ LastLit(wire) => ~sink.good /\ status # "Ok")
  BY WireParts DEF OutsidePass
<1>2. pc \notin Blank /\ pc \notin Unpaused
  BY DEF Blank, Unpaused, Asking
<1>3. CASE wire' = wire
  BY <1>1, <1>2, <1>3, WirePartsNext
<1>4. CASE wire' = Append1(wire, r)
  <2>1. r \in StreamRecords /\ r \notin Pixels
        /\ r \notin {"header", "lit", "close", "end", "restart"}
    BY DEF StreamRecords, Pixels, Acks
  <2>2. wire # << >> /\ Grammatical(wire, sink.good) /\ sink.good \in BOOLEAN
    BY <1>1 DEF StreamOk, SinkRecords
  <2>3. MayFollow(wire, sink.good, r)
    BY <1>1, <2>1, <2>2 DEF MayFollow
  <2>4. Grammatical(wire', sink.good)
    BY <1>1, <1>4, <2>1, <2>2, <2>3, AppendGrammar
  <2>5. /\ wire' \in Seq(StreamRecords) /\ wire' # << >>
        /\ \A x : Has(wire', x) <=> Has(wire, x) \/ x = r
        /\ HasPixel(wire') <=> HasPixel(wire) \/ r \in Pixels
        /\ LastLit(wire') <=> r = "lit" \/ (r \notin Pixels /\ LastLit(wire))
        /\ LastPaused(wire') <=> r = "paused" \/ (r \notin Acks /\ LastPaused(wire))
    BY <1>1, <1>4, <2>1, AppendShows
  <2>6. StreamOk(wire', sink')
    BY <1>1, <2>4, <2>5 DEF StreamOk
  <2>7. /\ LastLit(wire') <=> LastLit(wire)
        /\ LastPaused(wire') => (pacer.paused)' \/ (chan.closed)'
        /\ HasPixel(wire') <=> HasPixel(wire)
        /\ ~Has(wire', "close")
        /\ (Has(wire', "end") <=> Has(wire, "end"))
        /\ (Has(wire', "restart") <=> Has(wire, "restart"))
    BY <1>1, <2>1, <2>5
  <2> QED
    BY <1>1, <1>2, <2>5, <2>6, <2>7, WirePartsNext
<1> QED
  BY <1>3, <1>4

LEMMA WithBuffer ==
  ASSUME NEW ch, NEW o, NEW q, NEW r, NEW x, ch = [closed |-> o, code |-> q, buffer |-> r]
  PROVE  [ch EXCEPT !.buffer = x] = [closed |-> o, code |-> q, buffer |-> x]
<1>1. ch \in [closed : {o}, code : {q}, buffer : {r}]
  OBVIOUS
<1> QED
  BY <1>1

\* An answer to a frame of the browser, or its last.
LEMMA PollFrameWires == ASSUME WireInv, RecordInv, PaceInv, PollFrame PROVE WireInv'
<1> DEFINE d == Decoded(chan.buffer)
           c == [chan EXCEPT !.buffer = d.rest]
           command == ParsePlaybackCommand(Head(chan.buffer).frame.text)
<1>0. /\ pc \in {"admit", "admitEnd", "await"} /\ mode = "web"
      /\ UNCHANGED <<mode, stage, sink>> /\ ~chan.closed /\ ~shutdown
  BY DEF PollFrame, Polling, Gating, ChannelOpen, replayVars, RecordInv, WebOnly
<1> HIDE DEF d
<1> DEFINE b == d.rest
<1> HIDE DEF b
<1>1. c = [closed |-> FALSE, code |-> chan.code, buffer |-> b]
  <2>1. c = [chan EXCEPT !.buffer = b]
    BY DEF b
  <2>2. PICK o, q, r : chan = [closed |-> o, code |-> q, buffer |-> r]
    BY DEF PaceInv
  <2>3. o = FALSE /\ chan.code = q
    BY <1>0, <2>2 DEF PaceInv
  <2>4. [chan EXCEPT !.buffer = b] = [closed |-> o, code |-> q, buffer |-> b]
    BY <2>2, WithBuffer
  <2> HIDE DEF c
  <2> QED
    BY <2>1, <2>3, <2>4
<1>2. /\ LastPaused(wire) => pacer.paused
      /\ pc = "await" /\ LastLit(wire) => ~sink.good /\ status # "Ok"
  BY <1>0, WireParts DEF Dark
<1>3. ASSUME NEW how, Interrupt(how), UNCHANGED wire PROVE WireInv'
  <2>1. (pacer.paused)' = pacer.paused
    BY <1>3 DEF Interrupt, PaceInv
  <2>2. \/ pc # "await" /\ pc' = "cancel"
        \/ pc = "await" /\ pc' \in {"restart", "finish"} /\ UNCHANGED status
    BY <1>3 DEF Interrupt
  <2> QED
    BY <1>0, <1>2, <1>3, <2>1, <2>2, StillStep
       DEF OutsidePass, Ended, Blank, Lit, Unpaused, Dark, Asking
<1>4. ASSUME NEW r \in {"pong", "rejected", "paused", "playing"}, NEW ok, ok \in BOOLEAN,
             SendText(c, r, ok)
      PROVE  /\ wire' \in {wire, Append1(wire, r)}
             /\ ~ok => (chan.closed)'
             /\ ok => wire' = Append1(wire, r)
  <2> DEFINE closed == c.closed \/ ~ok
  <2>1. /\ wire' = IF ok /\ ChannelOpen THEN Append1(wire, r) ELSE wire
        /\ chan' = [c EXCEPT !.closed = closed]
    BY <1>4 DEF SendText
  <2>2. closed = ~ok
    BY <1>1, <1>4
  <2> HIDE DEF closed
  <2>3. (chan.closed)' = closed
    BY <1>1, <2>1
  <2> QED
    BY <1>0, <1>4, <2>1, <2>2, <2>3 DEF ChannelOpen
<1>5. ASSUME NEW r \in {"pong", "rejected"}, NEW ok \in Outcome("write"), SendText(c, r, ok),
             UNCHANGED <<pc, status, pacer>>
      PROVE  WireInv'
  <2>1. wire' \in {wire, Append1(wire, r)} /\ r \in {"pong", "rejected", "paused", "playing"}
    BY <1>4, <1>5, WriteOutcome
  <2>2. r # "paused"
    OBVIOUS
  <2> QED
    BY <1>0, <1>2, <1>5, <2>1, <2>2, TextStep
<1>6. ASSUME NEW ok \in Outcome("write"), SendText(c, PlaybackRecord(pacer'), ok),
             UNCHANGED <<pc, status>>
      PROVE  WireInv'
  <2> DEFINE r == PlaybackRecord(pacer')
  <2>1. r \in {"paused", "playing"} /\ (r = "paused" => (pacer.paused)') /\ r \in Acks
    BY DEF PlaybackRecord, Acks
  <2> HIDE DEF r
  <2>2. /\ wire' \in {wire, Append1(wire, r)} /\ (~ok => (chan.closed)')
        /\ (ok => wire' = Append1(wire, r))
    BY <1>4, <1>6, <2>1, WriteOutcome DEF r
  <2>3. CASE ~ok
    BY <1>0, <1>6, <2>1, <2>2, <2>3, TextStep
  <2>4. CASE wire' = Append1(wire, r) /\ wire' # wire
    BY <1>0, <1>6, <2>1, <2>4, TextStep
  <2>5. CASE wire' = Append1(wire, r) /\ wire' = wire
    <3>1. r = "playing" => ~LastPaused(wire)
      <4>1. wire \in Seq(StreamRecords) /\ r \in StreamRecords
        BY <2>1, WireParts DEF StreamRecords
      <4> DEFINE v == Append1(wire, r)
      <4>2. v \in {Append(wire, r), Append1(wire, r)} /\ v = wire
        BY <2>5
      <4> HIDE DEF v
      <4>3. LastPaused(v) <=> r = "paused" \/ (r \notin Acks /\ LastPaused(wire))
        BY <4>1, <4>2, AppendShows, ZenonT(40)
      <4> QED
        BY <2>1, <4>2, <4>3, ZenonT(40)
    <3>2. LastPaused(wire) => (pacer.paused)'
      BY <2>1, <3>1
    <3> QED
      BY <1>0, <1>6, <2>1, <2>5, <3>2, TextStep
  <2> QED
    BY <2>2, <2>3, <2>4, <2>5
<1>7. PICK x \in {1} :
        \/ /\ chan' = c /\ UNCHANGED <<pc, status, wire, pacer>>
        \/ /\ \E ok \in Outcome("write") : SendText(c, "pong", ok)
           /\ UNCHANGED <<pc, status, pacer>>
        \/ Interrupt("Stop") /\ UNCHANGED wire
        \/ /\ \E ok \in Outcome("write") : SendText(c, "rejected", ok)
           /\ UNCHANGED <<pc, status, pacer>>
        \/ Interrupt("Restart") /\ UNCHANGED wire
        \/ /\ \E ok \in Outcome("write") : SendText(c, PlaybackRecord(pacer'), ok)
           /\ UNCHANGED <<pc, status>>
  BY DEF PollFrame, d
<1>8. ASSUME chan' = c, UNCHANGED <<pc, status, wire, pacer>> PROVE WireInv'
  <2>1. /\ pc \in Unpaused => ~LastPaused(wire)
        /\ pc \in Dark /\ LastLit(wire) => ~sink.good /\ status # "Ok"
    BY WireParts
  <2> QED
    BY <1>0, <1>8, <2>1, StillStep
<1> QED
  BY <1>3, <1>5, <1>6, <1>7, <1>8

LEMMA WireStep ==
  ASSUME RecordInv, StatusInv, WireInv, PaceInv, Next
  PROVE  WireInv'
<1>1. CASE Host /\ UNCHANGED webVars
  <2>1. CASE Load \/ RunReplay \/ PublicationSeen \/ Loop \/ Ungated \/ Cancel
               \/ StopTelemetry \/ Destroy
    BY <1>1, <2>1, HostStillWires
  <2>2. CASE SynchronizationTimeout
    <3>1. pc \in Active /\ pc \notin Ended /\ UNCHANGED mode
      BY <2>2 DEF SynchronizationTimeout, Active, Ended
    <3> QED
      BY <1>1, <2>2, <3>1, OutNow, FailStep DEF SynchronizationTimeout
  <2>3. CASE Frames \/ EndOfStream \/ Availability
    BY <1>1, <2>3, GrantWires DEF Granting
  <2>4. CASE Poll \/ SampleSignals \/ TickOutput
    BY <1>1, <2>4, CadenceWires
  <2>5. CASE StopDone \/ StopTimesOut
    BY <1>1, <2>5, StopWires
  <2> QED
    BY <1>1, <2>1, <2>2, <2>3, <2>4, <2>5, StartWires, StartDrainWires, DrainWires,
       RenderEndsWires DEF Host, Controller
<1>2. CASE Serving
  BY <1>2, WebStillWires, BeginPassWires, PassEndsWires, LastWordWires, EndSessionWires
     DEF Serving
<1>3. CASE Player
  BY <1>3, WebStillWires, PollFrameWires DEF Player, Watching
<1>4. CASE WorkerStep \/ BrowserSends \/ BrowserLeaves \/ WallTick \/ RequestShutdown
  <2>1. ASSUME PollFrame PROVE WireInv'
    BY <2>1, PollFrameWires
  <2> QED
    BY <1>4, <2>1, WebStillWires DEF Watching
<1> QED
  BY <1>1, <1>2, <1>3, <1>4 DEF Next, HostStep

-----------------------------------------------------------------------------
(* Replay time.                                                            *)

Account(p, w, c) ==
  /\ p.anchorWall <= w
  /\ 4 * p.anchorReplay + (IF p.paused THEN 0 ELSE Quarters(p.rate) * (w - p.anchorWall)) <= c

PacerRecords == [paused : BOOLEAN, interruption : {"None", "Restart", "Stop"},
                 rate : DOMAIN Rates, anchorWall : Nat, anchorReplay : Int]

IsChannel(ch) == /\ ch = [closed |-> ch.closed, code |-> ch.code, buffer |-> ch.buffer]
                 /\ ch.closed \in BOOLEAN

LEMMA PaceParts ==
  PaceInv <=> /\ wall \in Nat /\ credit \in Nat /\ pacer \in PacerRecords /\ IsChannel(chan)
              /\ mode = "web" => 4 * clock <= credit
              /\ mode = "web" /\ pc \notin OutsidePass => Account(pacer, wall, credit)
BY DEF PaceInv, PacerRecords, IsChannel, Account

LEMMA PacePartsNext ==
  PaceInv' <=> /\ wall' \in Nat /\ credit' \in Nat /\ pacer' \in PacerRecords /\ IsChannel(chan')
               /\ mode' = "web" => 4 * clock' <= credit'
               /\ mode' = "web" /\ pc' \notin OutsidePass => Account(pacer', wall', credit')
BY DEF PaceInv, PacerRecords, IsChannel, Account

\* A channel whose fields change is one.
ClosedAs(ch, o) == [ch EXCEPT !.closed = o]
Holding(ch, b) == [ch EXCEPT !.buffer = b]
ClosedWith(ch, q) == [ch EXCEPT !.closed = TRUE, !.code = q]

LEMMA ChannelChanges ==
  ASSUME NEW ch, IsChannel(ch)
  PROVE  /\ \A o \in BOOLEAN : /\ IsChannel(ClosedAs(ch, o)) /\ ClosedAs(ch, o).closed = o
                               /\ ClosedAs(ch, o).buffer = ch.buffer
         /\ \A b : /\ IsChannel(Holding(ch, b)) /\ Holding(ch, b).buffer = b
                   /\ Holding(ch, b).closed = ch.closed
         /\ \A q : /\ IsChannel(ClosedWith(ch, q)) /\ ClosedWith(ch, q).closed
                   /\ ClosedWith(ch, q).buffer = ch.buffer
<1>1. PICK o1, q1, b1 : ch = [closed |-> o1, code |-> q1, buffer |-> b1]
  BY DEF IsChannel
<1>2. ch \in [closed : {o1}, code : {q1}, buffer : {b1}] /\ o1 \in BOOLEAN
  BY <1>1 DEF IsChannel
<1>3. ASSUME NEW d, NEW p \in BOOLEAN, NEW r, NEW s, d = [closed |-> p, code |-> r, buffer |-> s]
      PROVE  IsChannel(d) /\ d.closed = p /\ d.buffer = s
  BY <1>3 DEF IsChannel
<1>4. ch.closed = o1 /\ ch.buffer = b1
  BY <1>1
<1>5. ASSUME NEW o \in BOOLEAN
      PROVE  /\ IsChannel(ClosedAs(ch, o)) /\ ClosedAs(ch, o).closed = o
             /\ ClosedAs(ch, o).buffer = ch.buffer
  <2>1. ClosedAs(ch, o) = [closed |-> o, code |-> q1, buffer |-> b1]
    BY <1>2 DEF ClosedAs
  <2> QED
    BY <1>3, <1>4, <2>1
<1>6. ASSUME NEW b
      PROVE  /\ IsChannel(Holding(ch, b)) /\ Holding(ch, b).buffer = b
             /\ Holding(ch, b).closed = ch.closed
  <2>1. Holding(ch, b) = [closed |-> o1, code |-> q1, buffer |-> b]
    BY <1>2 DEF Holding
  <2> QED
    BY <1>2, <1>3, <1>4, <2>1
<1>7. ASSUME NEW q
      PROVE  /\ IsChannel(ClosedWith(ch, q)) /\ ClosedWith(ch, q).closed
             /\ ClosedWith(ch, q).buffer = ch.buffer
  <2> DEFINE d == [ch EXCEPT !.closed = TRUE, !.code = q]
  <2>1. d \in [closed : {TRUE}, code : {q}, buffer : {b1}]
    BY <1>2
  <2> HIDE DEF d
  <2>2. d = [closed |-> TRUE, code |-> q, buffer |-> b1]
    BY <2>1
  <2>3. ClosedWith(ch, q) = d
    BY DEF d, ClosedWith
  <2>4. IsChannel(d)
    BY <1>3, <2>2
  <2>5. d.closed /\ d.buffer = b1
    BY <2>2
  <2> QED
    BY <1>2, <2>3, <2>4, <2>5, ZenonT(40)
<1> QED
  BY <1>5, <1>6, <1>7

LEMMA RateNumbers ==
  ASSUME NEW r \in DOMAIN Rates
  PROVE  \/ Rates[r].num = 1 /\ Rates[r].den = 4 /\ Quarters(r) = 1
         \/ Rates[r].num = 1 /\ Rates[r].den = 2 /\ Quarters(r) = 2
         \/ Rates[r].num = 1 /\ Rates[r].den = 1 /\ Quarters(r) = 4
         \/ Rates[r].num = 2 /\ Rates[r].den = 1 /\ Quarters(r) = 8
         \/ Rates[r].num = 5 /\ Rates[r].den = 1 /\ Quarters(r) = 20
<1>1. r \in {"quarter", "half", "normal", "double", "fivefold"}
  BY DEF Rates
<1> QED
  BY <1>1 DEF Rates, Quarters

\* The player's arithmetic rounds in favour of the wall clock.
LEMMA SpansRound ==
  ASSUME NEW r \in DOMAIN Rates, NEW n \in Int
  PROVE  /\ ReplaySpan(r, n) \in Int
         /\ n >= 0 => 4 * ReplaySpan(r, n) <= Quarters(r) * n
         /\ n >= 0 => WallSpan(r, n) \in Nat /\ 4 * n <= Quarters(r) * WallSpan(r, n)
<1>1. CASE Rates[r].num = 1 /\ Rates[r].den = 4 /\ Quarters(r) = 1
  BY <1>1 DEF ReplaySpan, WallSpan, Scale
<1>2. CASE Rates[r].num = 1 /\ Rates[r].den = 2 /\ Quarters(r) = 2
  BY <1>2 DEF ReplaySpan, WallSpan, Scale
<1>3. CASE Rates[r].num = 1 /\ Rates[r].den = 1 /\ Quarters(r) = 4
  BY <1>3 DEF ReplaySpan, WallSpan, Scale
<1>4. CASE Rates[r].num = 2 /\ Rates[r].den = 1 /\ Quarters(r) = 8
  BY <1>4 DEF ReplaySpan, WallSpan, Scale
<1>5. CASE Rates[r].num = 5 /\ Rates[r].den = 1 /\ Quarters(r) = 20
  BY <1>5 DEF ReplaySpan, WallSpan, Scale
<1> QED
  BY <1>1, <1>2, <1>3, <1>4, <1>5, RateNumbers

\* What the wall clock has reached has been paid for.
LEMMA ReachedIsPaid ==
  ASSUME NEW p \in PacerRecords, NEW w \in Nat, NEW c \in Nat, NEW due \in Int,
         Account(p, w, c), ~p.paused, w >= WallTarget(p, due)
  PROVE  4 * due <= c
<1> DEFINE q == Quarters(p.rate)
           a == p.anchorWall
           z == p.anchorReplay
<1>1. a \in Nat /\ z \in Int /\ p.rate \in DOMAIN Rates
  BY DEF PacerRecords
<1>2. q \in {1, 2, 4, 8, 20}
  BY <1>1, RateNumbers
<1>3. a <= w /\ 4 * z + q * (w - a) <= c
  BY DEF Account
<1>4. CASE due <= z
  <2> HIDE DEF q, a, z
  <2> QED
    BY <1>1, <1>2, <1>3, <1>4
<1>5. CASE due > z
  <2> DEFINE s == WallSpan(p.rate, due - z)
  <2>1. s \in Nat /\ 4 * (due - z) <= q * s
    BY <1>1, <1>5, SpansRound
  <2>2. w >= a + s
    BY <1>1, <1>5 DEF WallTarget
  <2> HIDE DEF s, q, a, z
  <2>3. q * s <= q * (w - a)
    BY <1>1, <1>2, <2>1, <2>2
  <2> QED
    BY <1>1, <1>2, <1>3, <2>1, <2>3
<1> QED
  BY <1>1, <1>4, <1>5

LEMMA CommandRate ==
  ASSUME NEW text, ParsePlaybackCommand(text).kind = "SetRate"
  PROVE  ParsePlaybackCommand(text).rate \in DOMAIN Rates
BY DEF ParsePlaybackCommand, Rejected, SimpleCommand

\* A command keeps the account: the position it anchors at has been paid for.
LEMMA ReanchorKeepsAccount ==
  ASSUME NEW p \in PacerRecords, NEW due \in Int, NEW command, wall \in Nat, credit \in Nat,
         command.kind = "SetRate" => command.rate \in DOMAIN Rates,
         Account(p, wall, credit)
  PROVE  /\ Reanchored(p, command, due) \in PacerRecords
         /\ Account(Reanchored(p, command, due), wall, credit)
<1> DEFINE q == Quarters(p.rate)
           a == p.anchorWall
           z == p.anchorReplay
           n == ReplaySpan(p.rate, wall - a)
           S == {due, Position(p, wall)}
           at == IF p.paused THEN z ELSE Min(S)
           rate == IF command.kind = "SetRate" THEN command.rate ELSE p.rate
           paused == IF command.kind = "SetRate" THEN p.paused ELSE command.kind = "Pause"
<1>1. a \in Nat /\ z \in Int /\ p.rate \in DOMAIN Rates /\ p.paused \in BOOLEAN
  BY DEF PacerRecords
<1>2. /\ a <= wall
      /\ p.paused => 4 * z <= credit
      /\ ~p.paused => 4 * z + q * (wall - a) <= credit
  <2>1. q \in {1, 2, 4, 8, 20}
    BY <1>1, RateNumbers
  <2> QED
    BY <1>1, <2>1 DEF Account
<1>3. n \in Int /\ 4 * n <= q * (wall - a)
  BY <1>1, <1>2, SpansRound
<1>4. Position(p, wall) = z + n
  BY DEF Position
<1>5. at \in Int /\ 4 * at <= credit
  <2>1. CASE p.paused
    BY <1>1, <1>2, <2>1
  <2>2. CASE ~p.paused
    <3> HIDE DEF n
    <3>1. Position(p, wall) \in Int
      BY <1>1, <1>3, <1>4
    <3>2. HasLeast(S)
      BY <3>1 DEF HasLeast
    <3>3. S # {} /\ Position(p, wall) \in S
      OBVIOUS
    <3> HIDE DEF S
    <3>4. Min(S) \in Int /\ Min(S) <= Position(p, wall)
      BY <3>2, <3>3, MinIsLeast
    <3>5. q \in {1, 2, 4, 8, 20}
      BY <1>1, RateNumbers
    <3>6. at = Min(S)
      BY <2>2
    <3> HIDE DEF at, q, z, a
    <3> QED
      BY <1>1, <1>2, <1>3, <1>4, <2>2, <3>1, <3>4, <3>5, <3>6
  <2> QED
    BY <1>1, <2>1, <2>2
<1>6. rate \in DOMAIN Rates /\ paused \in BOOLEAN
  BY <1>1
<1> DEFINE r == [p EXCEPT !.paused = paused, !.rate = rate, !.anchorWall = wall,
                          !.anchorReplay = at]
<1>7. Reanchored(p, command, due) = r
  BY DEF Reanchored
<1> HIDE DEF at, rate, paused
<1>8. r \in PacerRecords /\ r.anchorWall = wall /\ r.anchorReplay = at /\ r.rate = rate
  BY <1>5, <1>6 DEF PacerRecords
<1> HIDE DEF r
<1>9. Quarters(r.rate) \in {1, 2, 4, 8, 20}
  BY <1>6, <1>8, RateNumbers
<1>10. Account(r, wall, credit)
  BY <1>5, <1>8, <1>9 DEF Account
<1> QED
  BY <1>7, <1>8, <1>10

\* Steps that leave the player and the wall clock alone.
LEMMA PaceStays ==
  ASSUME PaceInv, UNCHANGED <<wall, credit, mode>>, IsChannel(chan'),
         pacer' = pacer \/ (pacer' \in PacerRecords
                              /\ (mode = "web" /\ pc' \notin OutsidePass => Account(pacer', wall, credit))),
         mode = "web" => clock' = clock \/ clock' = 0 \/ 4 * clock' <= credit,
         mode = "web" /\ pc' \notin OutsidePass => pc \notin OutsidePass
  PROVE  PaceInv'
<1>1. /\ wall \in Nat /\ credit \in Nat /\ pacer \in PacerRecords
      /\ mode = "web" => 4 * clock <= credit
      /\ mode = "web" /\ pc \notin OutsidePass => Account(pacer, wall, credit)
  BY PaceParts
<1>2. mode' = "web" => 4 * clock' <= credit'
  BY <1>1
<1>3. mode' = "web" /\ pc' \notin OutsidePass => Account(pacer', wall', credit')
  BY <1>1
<1> QED
  BY <1>1, <1>2, <1>3, PacePartsNext

LEMMA PaceInit == ASSUME EmulatorInit PROVE PaceInv
<1>1. pacer = NewPacer /\ chan = NewChannel /\ wall = 0 /\ credit = 0 /\ pc = "load" /\ clock = 0
  BY DEF EmulatorInit, Init
<1>2. NewPacer \in PacerRecords /\ IsChannel(NewChannel)
  BY DEF NewPacer, NewChannel, PacerRecords, IsChannel, Rates
<1> QED
  BY <1>1, <1>2, PaceParts DEF OutsidePass

\* The host outside of the player.
LEMMA HostPaces == ASSUME RecordInv, PaceInv, Host, UNCHANGED webVars PROVE PaceInv'
<1>0. UNCHANGED <<wall, credit, pacer, chan>> /\ IsChannel(chan)
  BY PaceParts DEF webVars
<1>1. ASSUME UNCHANGED <<mode, clock>>, mode = "web" /\ pc' \notin OutsidePass => pc \notin OutsidePass
      PROVE  PaceInv'
  BY <1>0, <1>1, PaceStays
<1>2. CASE Load \/ RenderEnds
  BY <1>1, <1>2 DEF Load, RenderEnds, OutsidePass
<1>3. CASE RunReplay
  <2>1. clock' = 0 /\ UNCHANGED mode /\ pc = "run"
    BY <1>3 DEF RunReplay, NewReplay
  <2> QED
    BY <1>0, <2>1, PaceStays DEF OutsidePass
<1>4. CASE Ungated
  <2>1. UNCHANGED mode /\ mode = "render"
    BY <1>4 DEF Ungated
  <2> QED
    BY <1>0, <2>1, PaceStays
<1>5. CASE Controller
  <2>1. UNCHANGED <<mode, clock>>
    BY <1>5 DEF Controller, Start, StartDrain, Loop, Frames, EndOfStream, Availability,
                PublicationSeen, SynchronizationTimeout, Drain, Poll, SampleSignals, TickOutput,
                Cancel, StopTelemetry, StopDone, StopTimesOut, Destroy, Skip, ProcessInput
  <2>2. pc \notin OutsidePass
    BY <1>5 DEF Controller, Start, StartDrain, Loop, Frames, EndOfStream, Availability,
                PublicationSeen, SynchronizationTimeout, Drain, Poll, SampleSignals, TickOutput,
                Cancel, StopTelemetry, StopDone, StopTimesOut, Destroy, OutsidePass
  <2> QED
    BY <1>1, <2>1, <2>2
<1> QED
  BY <1>2, <1>3, <1>4, <1>5 DEF Host

LEMMA InterruptKeepsAccount ==
  ASSUME PaceInv, NEW how \in {"Stop", "Restart"}, Interrupt(how)
  PROVE  /\ pacer' \in PacerRecords
         /\ mode = "web" /\ pc \notin OutsidePass => Account(pacer', wall, credit)
<1>1. pacer' = [pacer EXCEPT !.interruption = how] /\ pacer \in PacerRecords
  BY PaceParts DEF Interrupt
<1>2. /\ pacer' \in PacerRecords /\ pacer'.paused = pacer.paused /\ pacer'.rate = pacer.rate
      /\ pacer'.anchorWall = pacer.anchorWall /\ pacer'.anchorReplay = pacer.anchorReplay
  BY <1>1 DEF PacerRecords
<1> QED
  BY <1>2, PaceParts DEF Account

AtZero(p) ==
  [p EXCEPT !.paused = FALSE, !.interruption = "None", !.anchorWall = 0, !.anchorReplay = 0]

LEMMA PacerAtZero ==
  ASSUME NEW p \in PacerRecords
  PROVE  AtZero(p) \in PacerRecords /\ AtZero(p).anchorWall = 0 /\ AtZero(p).anchorReplay = 0
<1>1. AtZero(p) \in PacerRecords
  <2> DEFINE i == "None"
             o == FALSE
             w == 0
             z == 0
  <2>1. i \in {"None", "Restart", "Stop"} /\ o \in BOOLEAN /\ w \in Nat /\ z \in Int
    OBVIOUS
  <2>2. AtZero(p) = [p EXCEPT !.paused = o, !.interruption = i, !.anchorWall = w, !.anchorReplay = z]
    BY DEF AtZero
  <2> HIDE DEF i, o, w, z
  <2> DEFINE n == [p EXCEPT !.paused = o, !.interruption = i, !.anchorWall = w, !.anchorReplay = z]
  <2>3. n \in PacerRecords
    BY <2>1 DEF PacerRecords
  <2> QED
    BY <2>2, <2>3
<1>2. AtZero(p).anchorWall = 0 /\ AtZero(p).anchorReplay = 0
  BY DEF PacerRecords, AtZero
<1> QED
  BY <1>1, <1>2

\* A new pass starts at zero on both clocks.
LEMMA BeginPassPaces == ASSUME PaceInv, BeginPass PROVE PaceInv'
<1>1. /\ UNCHANGED mode /\ wall' = 0 /\ credit' = 0 /\ clock' = 0
      /\ \/ \E ok \in BOOLEAN : chan' = ClosedAs(chan, ok)
         \/ chan' = chan
      /\ \/ pacer' = [pacer EXCEPT !.paused = FALSE, !.interruption = "None",
                                   !.anchorWall = 0, !.anchorReplay = 0]
         \/ pacer' = pacer /\ pc' = "endSession"
  <2>1. chan.closed \in BOOLEAN
    BY DEF PaceInv
  <2>2. ASSUME NEW ok \in Outcome("write") PROVE (chan.closed \/ ~ok) \in BOOLEAN
    BY <2>1
  <2> QED
    BY <2>2 DEF BeginPass, ClosedAs
<1>2. pacer \in PacerRecords /\ IsChannel(chan)
  BY PaceParts
<1>3. IsChannel(chan')
  BY <1>1, <1>2, ChannelChanges
<1>4. CASE pacer' = pacer /\ pc' = "endSession"
  BY <1>1, <1>2, <1>3, <1>4, PacePartsNext DEF OutsidePass
<1>5. CASE pacer' = [pacer EXCEPT !.paused = FALSE, !.interruption = "None",
                                  !.anchorWall = 0, !.anchorReplay = 0]
  <2>1. pacer' \in PacerRecords /\ pacer'.anchorWall = 0 /\ pacer'.anchorReplay = 0
    <3>1. pacer' = AtZero(pacer)
      BY <1>5 DEF AtZero
    <3> QED
      BY <1>2, <3>1, PacerAtZero
  <2>2. pacer'.rate \in DOMAIN Rates
    BY <2>1 DEF PacerRecords
  <2>3. Quarters(pacer'.rate) \in {1, 2, 4, 8, 20}
    BY <2>2, RateNumbers
  <2>4. Account(pacer', wall', credit')
    BY <1>1, <2>1, <2>3 DEF Account
  <2> QED
    BY <1>1, <1>3, <2>1, <2>4, PacePartsNext
<1> QED
  BY <1>1, <1>4, <1>5

LEMMA ServingPaces == ASSUME RecordInv, PaceInv, Serving PROVE PaceInv'
<1>0. pacer \in PacerRecords /\ IsChannel(chan) /\ chan.closed \in BOOLEAN
  BY PaceParts DEF IsChannel
<1>1. CASE ServerStart \/ Accept \/ ServeEnds
  <2>1. /\ UNCHANGED <<mode, clock, wall, credit, pacer, chan>> /\ pc' \in OutsidePass
    BY <1>1 DEF ServerStart, Accept, ServeEnds, replayVars, webVars, OutsidePass
  <2> QED
    BY <1>0, <2>1, PaceStays
<1>2. CASE PassEnds
  <2>1. UNCHANGED <<mode, wall, credit, pacer, chan>> /\ clock' = 0 /\ pc = "over"
    BY <1>2 DEF PassEnds, NewReplay, webVars
  <2> QED
    BY <1>0, <2>1, PaceStays DEF OutsidePass
<1>3. CASE SendRestart
  <2>1. UNCHANGED <<mode, clock, wall, credit, pacer>> /\ pc' \in OutsidePass
    BY <1>3 DEF SendRestart, replayVars, OutsidePass
  <2>2. \E ok \in BOOLEAN : chan' = ClosedAs(chan, ok)
    <3>1. PICK ok \in Outcome("write") : SendText(chan, "restart", ok)
      BY <1>3 DEF SendRestart
    <3>2. (chan.closed \/ ~ok) \in BOOLEAN
      BY <1>0
    <3> QED
      BY <3>1, <3>2 DEF SendText, ClosedAs
  <2>3. IsChannel(chan')
    BY <1>0, <2>2, ChannelChanges
  <2> QED
    BY <2>1, <2>3, PaceStays
<1>4. CASE Finish
  <2>1. UNCHANGED <<mode, clock, wall, credit, pacer, chan>> /\ pc' \in OutsidePass
    BY <1>4 DEF Finish, replayVars, webVars, OutsidePass
  <2> QED
    BY <1>0, <2>1, PaceStays
<1>5. CASE EndSession
  <2>1. /\ UNCHANGED <<mode, clock, wall, credit>> /\ pc' \in OutsidePass
        /\ pacer' = NewPacer /\ chan' = NewChannel
    BY <1>5 DEF EndSession, replayVars, OutsidePass
  <2>2. NewPacer \in PacerRecords /\ IsChannel(NewChannel)
    BY DEF NewPacer, NewChannel, PacerRecords, IsChannel, Rates
  <2> QED
    BY <2>1, <2>2, PaceStays
<1> QED
  BY <1>1, <1>2, <1>3, <1>4, <1>5, BeginPassPaces DEF Serving

\* A poll that finds a frame.
LEMMA PollFramePaces == ASSUME RecordInv, PaceInv, PollFrame PROVE PaceInv'
<1> DEFINE d == Decoded(chan.buffer)
           c == Holding(chan, d.rest)
           command == ParsePlaybackCommand(Head(chan.buffer).frame.text)
<1>0. /\ pacer \in PacerRecords /\ IsChannel(chan) /\ wall \in Nat /\ credit \in Nat
      /\ mode = "web" /\ pc \notin OutsidePass => Account(pacer, wall, credit)
  BY PaceParts
<1>1. UNCHANGED <<wall, credit, mode, clock>> /\ mode = "web" /\ pc \notin OutsidePass
  BY DEF PollFrame, replayVars, Polling, Gating, RecordInv, WebOnly, OutsidePass
<1>2. IsChannel(c) /\ c.closed \in BOOLEAN
  BY <1>0, ChannelChanges DEF IsChannel
<1>3. Due \in Int
  BY <1>0 DEF Due, RecordInv, CadRecords, PacerRecords
<1> HIDE DEF d, c
<1>4. ASSUME NEW r, NEW ok, SendText(c, r, ok) PROVE IsChannel(chan')
  <2>1. (c.closed \/ ~ok) \in BOOLEAN
    BY <1>2
  <2> QED
    BY <1>2, <1>4, <2>1, ChannelChanges DEF SendText, ClosedAs
<1>5. /\ \/ chan' = c
         \/ \E r, ok : SendText(c, r, ok)
         \/ \E code : chan' = ClosedWith(c, code)
      /\ \/ pacer' = pacer
         \/ \E how \in {"Stop", "Restart"} : Interrupt(how)
         \/ pacer' = Reanchored(pacer, command, Due)
  BY DEF PollFrame, c, d, Holding, ClosedWith
<1>6. IsChannel(chan')
  BY <1>2, <1>4, <1>5, ChannelChanges
<1>7. pacer' = pacer \/ (pacer' \in PacerRecords /\ Account(pacer', wall, credit))
  <2>1. CASE \E how \in {"Stop", "Restart"} : Interrupt(how)
    BY <1>1, <2>1, InterruptKeepsAccount
  <2>2. CASE pacer' = Reanchored(pacer, command, Due)
    <3>1. command.kind = "SetRate" => command.rate \in DOMAIN Rates
      BY CommandRate
    <3> HIDE DEF command
    <3> QED
      BY <1>0, <1>1, <1>3, <2>2, <3>1, ReanchorKeepsAccount
  <2> QED
    BY <1>5, <2>1, <2>2
<1> QED
  BY <1>1, <1>6, <1>7, PaceStays

LEMMA PlayerPaces == ASSUME RecordInv, PaceInv, Player PROVE PaceInv'
<1>0. /\ pacer \in PacerRecords /\ IsChannel(chan) /\ wall \in Nat /\ credit \in Nat
      /\ mode = "web" => 4 * clock <= credit
      /\ mode = "web" /\ pc \notin OutsidePass => Account(pacer, wall, credit)
  BY PaceParts
<1>1. CASE PollClosed
  <2>1. UNCHANGED <<mode, clock, wall, credit, chan>> /\ mode = "web" /\ pc \notin OutsidePass
    BY <1>1 DEF PollClosed, replayVars, sessionVars, Polling, Gating, RecordInv, WebOnly,
                OutsidePass
  <2>2. pacer' \in PacerRecords /\ Account(pacer', wall, credit)
    BY <1>1, <2>1, InterruptKeepsAccount DEF PollClosed
  <2> QED
    BY <1>0, <2>1, <2>2, PaceStays
<1>2. CASE PollReceives
  <2>1. UNCHANGED <<mode, clock, wall, credit, pacer, pc>>
    BY <1>2 DEF PollReceives, replayVars
  <2>2. \/ chan' = ClosedAs(chan, TRUE)
        \/ \E b : chan' = Holding(chan, b)
    BY <1>2 DEF PollReceives, ClosedAs, Holding
  <2>3. \A b : IsChannel(Holding(chan, b))
    BY <1>0, ChannelChanges
  <2>4. IsChannel(ClosedAs(chan, TRUE))
    BY <1>0, ChannelChanges
  <2>5. IsChannel(chan')
    BY <2>2, <2>3, <2>4
  <2> QED
    BY <2>1, <2>5, PaceStays
<1>3. CASE Release
  <2>1. /\ UNCHANGED <<mode, wall, credit, pacer, chan>> /\ mode = "web" /\ pc \notin OutsidePass
        /\ ~pacer.paused /\ wall >= WallTarget(pacer, cad.due)
        /\ clock' = cad.due \/ clock' = clock
    BY <1>3 DEF Release, Gating, AdvanceTo, webVars, OutsidePass
  <2>2. cad.due \in Int
    BY DEF RecordInv, CadRecords
  <2>3. 4 * cad.due <= credit
    BY <1>0, <2>1, <2>2, ReachedIsPaid
  <2> QED
    BY <1>0, <2>1, <2>3, PaceStays
<1> QED
  BY <1>1, <1>2, <1>3, PollFramePaces DEF Player

LEMMA WallTickPaces == ASSUME RecordInv, PaceInv, WallTick PROVE PaceInv'
<1>1. /\ wall' = wall + 1 /\ UNCHANGED <<mode, clock, pc, pacer, chan>>
      /\ mode = "web" /\ pc \notin OutsidePass
      /\ credit' = IF pacer.paused THEN credit ELSE credit + Quarters(pacer.rate)
  BY DEF WallTick, Gating, replayVars, sessionVars, OutsidePass, Quarters
<1>2. /\ pacer \in PacerRecords /\ IsChannel(chan) /\ wall \in Nat /\ credit \in Nat
      /\ 4 * clock <= credit /\ Account(pacer, wall, credit)
  BY <1>1, PaceParts
<1>3. pacer.rate \in DOMAIN Rates /\ pacer.anchorWall \in Nat /\ pacer.anchorReplay \in Int
  BY <1>2 DEF PacerRecords
<1>4. Quarters(pacer.rate) \in {1, 2, 4, 8, 20}
  BY <1>3, RateNumbers
<1>5. credit' \in Nat /\ wall' \in Nat /\ credit <= credit'
  BY <1>1, <1>2, <1>4
<1>6. Account(pacer, wall', credit')
  BY <1>1, <1>2, <1>3, <1>4 DEF Account
<1>7. 4 * clock' <= credit'
  <2>1. clock \in Int
    BY DEF RecordInv
  <2>2. CASE pacer.paused
    BY <1>1, <1>2, <2>1, <2>2
  <2>3. CASE ~pacer.paused
    BY <1>1, <1>2, <1>4, <2>1, <2>3
  <2> QED
    BY <2>2, <2>3
<1> QED
  BY <1>1, <1>2, <1>5, <1>6, <1>7, PacePartsNext

LEMMA PaceStep == ASSUME RecordInv, PaceInv, Next PROVE PaceInv'
<1>1. CASE WorkerStep \/ BrowserSends \/ BrowserLeaves \/ RequestShutdown
  <2>1. UNCHANGED <<mode, clock, wall, credit, pacer, chan, pc>>
    BY <1>1 DEF WorkerStep, Worker, WorkerWakes, WorkerReceives, PublicationCompleted,
                WorkerReleased, BrowserSends, BrowserLeaves, RequestShutdown, replayVars, webVars,
                sessionVars
  <2> QED
    BY <2>1, PaceStays, PaceParts
<1> QED
  BY <1>1, HostPaces, ServingPaces, PlayerPaces, WallTickPaces DEF Next, HostStep

-----------------------------------------------------------------------------
(* The browser's bytes.                                                    *)

LEMMA SequenceOf == ASSUME NEW S, NEW s \in Seq(S) PROVE IsSeq(s)
<1>1. DOMAIN s = 1..Len(s) /\ Len(s) \in Nat
  OBVIOUS
<1> DEFINE R == {s[i] : i \in DOMAIN s}
<1>2. \A i \in 1..Len(s) : s[i] \in R
  BY <1>1
<1> HIDE DEF R
<1>3. s \in Seq(R)
  BY <1>1, <1>2
<1> QED
  BY <1>3 DEF IsSeq, R

LEMMA NothingIsSeq == IsSeq(<< >>)
<1> DEFINE R == {<< >>[i] : i \in DOMAIN << >>}
<1>1. << >> \in Seq(R)
  <2> HIDE DEF R
  <2> QED
    OBVIOUS
<1> QED
  BY <1>1 DEF IsSeq

LEMMA SameSequence ==
  ASSUME NEW S, NEW v \in Seq(S), NEW s \in Seq(S), Len(v) = Len(s),
         \A i \in 1..Len(v) : v[i] = s[i]
  PROVE  v = s
<1>1. v \in [1..Len(v) -> S] /\ s \in [1..Len(v) -> S]
  OBVIOUS
<1> QED
  BY <1>1

LEMMA BothSeqs ==
  ASSUME NEW s, NEW t, IsSeq(s), IsSeq(t)
  PROVE  \E S : s \in Seq(S) /\ t \in Seq(S)
<1> DEFINE A == {s[i] : i \in DOMAIN s}
           B == {t[i] : i \in DOMAIN t}
<1>1. s \in Seq(A) /\ t \in Seq(B)
  BY DEF IsSeq
<1> HIDE DEF A, B
<1>2. s \in Seq(A \cup B) /\ t \in Seq(A \cup B)
  BY <1>1
<1> QED
  BY <1>2

\* v is s without its first n elements.
DropOf(v, s, n) ==
  /\ IsSeq(v) /\ Len(v) \in Nat /\ DOMAIN v = 1..Len(v) /\ Len(s) = Len(v) + n
  /\ \A i \in 1..Len(v) : v[i] = s[i + n]

\* v is s and what follows it.
GrowthOf(v, s) ==
  /\ IsSeq(v) /\ Len(v) \in Nat /\ DOMAIN v = 1..Len(v)
  /\ IsSeq(s) /\ Len(s) \in Nat /\ DOMAIN s = 1..Len(s) /\ Len(s) <= Len(v)
  /\ \A i \in 1..Len(s) : v[i] = s[i]

LEMMA SeqFacts ==
  ASSUME NEW s, IsSeq(s)
  PROVE  /\ DOMAIN s = 1..Len(s) /\ Len(s) \in Nat
         /\ s \o << >> = s /\ << >> \o s = s
<1>1. PICK S : s \in Seq(S)
  BY DEF IsSeq
<1>2. s \o << >> = s /\ << >> \o s = s
  <2>1. /\ s \o << >> \in Seq(S) /\ Len(s \o << >>) = Len(s)
        /\ \A i \in 1..Len(s) : (s \o << >>)[i] = s[i]
    BY <1>1
  <2>2. /\ << >> \o s \in Seq(S) /\ Len(<< >> \o s) = Len(s)
        /\ \A i \in 1..Len(s) : (<< >> \o s)[i] = s[i]
    BY <1>1
  <2> QED
    BY <1>1, <2>1, <2>2
<1> QED
  BY <1>1, <1>2

LEMMA ConcatFacts ==
  ASSUME NEW s, NEW t, IsSeq(s), IsSeq(t)
  PROVE  /\ GrowthOf(s \o t, s) /\ Len(s \o t) = Len(s) + Len(t) /\ Len(t) \in Nat
         /\ \A i \in 1..Len(t) : (s \o t)[Len(s) + i] = t[i]
<1>1. PICK S : s \in Seq(S) /\ t \in Seq(S)
  BY BothSeqs
<1>2. s \o t \in Seq(S)
  BY <1>1
<1>3. IsSeq(s \o t)
  BY <1>2, SequenceOf
<1>4. /\ Len(s \o t) = Len(s) + Len(t) /\ Len(s) \in Nat /\ Len(t) \in Nat
      /\ DOMAIN s = 1..Len(s) /\ DOMAIN (s \o t) = 1..Len(s \o t)
      /\ \A i \in 1..Len(s) : (s \o t)[i] = s[i]
      /\ \A i \in 1..Len(t) : (s \o t)[Len(s) + i] = t[i]
  BY <1>1
<1> QED
  BY <1>3, <1>4 DEF GrowthOf

LEMMA TailFacts ==
  ASSUME NEW s, IsSeq(s), s # << >>
  PROVE  DropOf(Tail(s), s, 1)
<1>1. PICK S : s \in Seq(S)
  BY DEF IsSeq
<1>2. Tail(s) \in Seq(S)
  BY <1>1
<1>3. IsSeq(Tail(s))
  BY <1>2, SequenceOf
<1> QED
  BY <1>1, <1>2, <1>3 DEF DropOf

\* A frame leaves the front of what was received.
LEMMA FrameDropped ==
  ASSUME NEW b, NEW n, IsSeq(b), IsSeq(n), Len(b) >= 2
  PROVE  IsSeq(Tail(Tail(b))) /\ DropOf(Tail(Tail(b)), b, 2) /\ DropOf(Tail(Tail(b)) \o n, b \o n, 2)
<1> DEFINE t == Tail(b)
           u == Tail(Tail(b))
<1>0. b # << >> /\ Len(b) \in Nat
  BY SeqFacts
<1>1. DropOf(t, b, 1)
  BY <1>0, TailFacts
<1>2. t # << >> /\ IsSeq(t)
  <2> HIDE DEF t
  <2>1. IsSeq(t) /\ Len(t) \in Nat /\ Len(b) = Len(t) + 1
    BY <1>1 DEF DropOf
  <2>2. Len(t) # 0
    BY <1>0, <2>1
  <2> QED
    BY <2>1, <2>2
<1>3. DropOf(u, t, 1)
  BY <1>2, TailFacts
<1> HIDE DEF t, u
<1>4. DropOf(u, b, 2)
  BY <1>1, <1>3 DEF DropOf
<1>5. IsSeq(u)
  BY <1>4 DEF DropOf
<1> DEFINE v == u \o n
           s == b \o n
<1>6. /\ GrowthOf(v, u) /\ Len(v) = Len(u) + Len(n) /\ Len(n) \in Nat
      /\ \A i \in 1..Len(n) : v[Len(u) + i] = n[i]
  BY <1>5, ConcatFacts
<1>7. /\ GrowthOf(s, b) /\ Len(s) = Len(b) + Len(n)
      /\ \A i \in 1..Len(n) : s[Len(b) + i] = n[i]
  BY ConcatFacts
<1> HIDE DEF v, s
<1>8. ASSUME NEW i \in 1..Len(v) PROVE v[i] = s[i + 2]
  <2>1. CASE i <= Len(u)
    BY <1>4, <1>6, <1>7, <2>1 DEF DropOf, GrowthOf
  <2>2. CASE i > Len(u)
    <3> DEFINE j == i - Len(u)
    <3>1. j \in 1..Len(n) /\ i = Len(u) + j /\ i + 2 = Len(b) + j
      BY <1>4, <1>6, <2>2 DEF DropOf, GrowthOf
    <3> HIDE DEF j
    <3>2. v[Len(u) + j] = n[j] /\ s[Len(b) + j] = n[j]
      BY <1>6, <1>7, <3>1
    <3> QED
      BY <3>1, <3>2
  <2> QED
    BY <1>4, <2>1, <2>2 DEF DropOf
<1>9. DropOf(v, s, 2)
  BY <1>4, <1>6, <1>7, <1>8 DEF DropOf, GrowthOf
<1> QED
  BY <1>4, <1>5, <1>9 DEF u, t, v, s

\* What is received is taken from what is coming.
LEMMA Received ==
  ASSUME NEW b, NEW n, IsSeq(b), IsSeq(n), NEW k \in 1..Len(n)
  PROVE  LET c == b \o SubSeq(n, 1, k)
             m == SubSeq(n, k + 1, Len(n))
         IN  IsSeq(c) /\ IsSeq(m) /\ c \o m = b \o n
<1>1. PICK S : b \in Seq(S) /\ n \in Seq(S)
  BY BothSeqs
<1> DEFINE p == SubSeq(n, 1, k)
           c == b \o p
           m == SubSeq(n, k + 1, Len(n))
<1>2. k \in Nat /\ k <= Len(n) /\ Len(n) \in Nat
  BY <1>1
<1>3. p \in Seq(S) /\ Len(p) = k /\ \A i \in 1..k : p[i] = n[i]
  BY <1>1, <1>2
<1>4. m \in Seq(S) /\ Len(m) = Len(n) - k /\ \A i \in 1..Len(n) - k : m[i] = n[k + i]
  BY <1>1, <1>2
<1> HIDE DEF p, m
<1>5. /\ c \in Seq(S) /\ Len(c) = Len(b) + k
      /\ \A i \in 1..Len(b) : c[i] = b[i]
      /\ \A i \in 1..k : c[Len(b) + i] = n[i]
  BY <1>1, <1>2, <1>3
<1> HIDE DEF c
<1> DEFINE v == c \o m
           s == b \o n
<1>6. /\ v \in Seq(S) /\ Len(v) = Len(b) + Len(n) /\ Len(b) \in Nat
      /\ \A i \in 1..Len(c) : v[i] = c[i]
      /\ \A i \in 1..Len(m) : v[Len(c) + i] = m[i]
  <2>1. c \in Seq(S) /\ m \in Seq(S)
    BY <1>4, <1>5
  <2>2. /\ v \in Seq(S) /\ Len(v) = Len(c) + Len(m)
        /\ \A i \in 1..Len(c) : v[i] = c[i]
        /\ \A i \in 1..Len(m) : v[Len(c) + i] = m[i]
    BY <2>1
  <2>3. Len(b) \in Nat
    BY <1>1
  <2>4. Len(c) + Len(m) = Len(b) + Len(n)
    BY <1>2, <1>4, <1>5, <2>3
  <2> QED
    BY <2>2, <2>3, <2>4
<1>7. /\ s \in Seq(S) /\ Len(s) = Len(b) + Len(n)
      /\ \A i \in 1..Len(b) : s[i] = b[i]
      /\ \A i \in 1..Len(n) : s[Len(b) + i] = n[i]
  BY <1>1
<1> HIDE DEF v, s
<1>8. ASSUME NEW i \in 1..Len(v) PROVE v[i] = s[i]
  <2>1. CASE i <= Len(b)
    <3>1. i \in 1..Len(b) /\ i \in 1..Len(c)
      BY <1>2, <1>5, <1>6, <2>1
    <3> QED
      BY <1>5, <1>6, <1>7, <3>1
  <2>2. CASE i > Len(b)
    <3> DEFINE j == i - Len(b)
    <3>1. j \in 1..Len(n) /\ i = Len(b) + j
      BY <1>2, <1>6, <2>2
    <3> HIDE DEF j
    <3>2. s[i] = n[j]
      BY <1>7, <3>1
    <3>3. CASE j <= k
      <4>1. j \in 1..k /\ i \in 1..Len(c)
        BY <1>2, <1>5, <1>6, <3>1, <3>3
      <4> QED
        BY <1>5, <1>6, <3>1, <3>2, <4>1
    <3>4. CASE j > k
      <4> DEFINE h == j - k
      <4>1. h \in 1..Len(m) /\ j = k + h /\ i = Len(c) + h
        BY <1>2, <1>4, <1>5, <3>1, <3>4
      <4> HIDE DEF h
      <4>2. h \in 1..Len(n) - k
        BY <1>4, <4>1
      <4> QED
        BY <1>4, <1>6, <3>2, <4>1, <4>2
    <3> QED
      BY <1>2, <3>1, <3>3, <3>4
  <2> QED
    BY <1>6, <2>1, <2>2
<1>9. v = s
  BY <1>6, <1>7, <1>8, SameSequence
<1>10. IsSeq(c) /\ IsSeq(m)
  BY <1>4, <1>5, SequenceOf
<1> QED
  BY <1>9, <1>10 DEF v, s, c, m, p

\* Where the commands wait.
WaitsAt(at, o, s) ==
  /\ at \in [DOMAIN o -> DOMAIN s]
  /\ \A i, j \in DOMAIN o : i < j => at[i] < at[j]
  /\ \A k \in DOMAIN s : IsCommand(s[k]) <=> \E i \in DOMAIN o : at[i] = k
  /\ \A i \in DOMAIN o : o[i] = ParsePlaybackCommand(s[at[i]].frame.text)

LEMMA WaitsSomewhere == ASSUME NEW o, NEW s PROVE WaitIn(o, s) <=> \E at : WaitsAt(at, o, s)
BY DEF WaitIn, WaitsAt

\* A frame that is not a command takes nothing from what is owed.
LEMMA OtherFrameTaken ==
  ASSUME NEW o, NEW s, NEW v, IsSeq(o), IsSeq(s), DropOf(v, s, 2), WaitIn(o, s),
         ~IsCommand(s[1]), ~IsCommand(s[2])
  PROVE  WaitIn(o, v)
<1>1. PICK at : WaitsAt(at, o, s)
  BY WaitsSomewhere
<1>2. /\ DOMAIN o = 1..Len(o) /\ Len(o) \in Nat /\ DOMAIN s = 1..Len(s) /\ DOMAIN v = 1..Len(v)
      /\ Len(v) \in Nat /\ Len(s) = Len(v) + 2 /\ \A i \in 1..Len(v) : v[i] = s[i + 2]
  BY SeqFacts DEF DropOf
<1> DEFINE to == [i \in DOMAIN o |-> at[i] - 2]
<1>3. ASSUME NEW i \in DOMAIN o
      PROVE  at[i] \in DOMAIN s /\ at[i] \in 3..Len(s) /\ at[i] - 2 \in DOMAIN v
             /\ v[at[i] - 2] = s[at[i]]
  <2>1. at[i] \in DOMAIN s /\ IsCommand(s[at[i]])
    BY <1>1, <1>3 DEF WaitsAt
  <2>2. at[i] # 1 /\ at[i] # 2
    BY <2>1
  <2> HIDE DEF to
  <2> DEFINE k == at[i]
  <2>3. k \in 1..Len(s) /\ k # 1 /\ k # 2
    BY <1>2, <2>1, <2>2
  <2> HIDE DEF k
  <2>4. k \in 3..Len(s) /\ k - 2 \in 1..Len(v) /\ (k - 2) + 2 = k
    BY <1>2, <2>3
  <2> QED
    BY <1>2, <2>1, <2>4 DEF k
<1>4. to \in [DOMAIN o -> DOMAIN v] /\ \A i \in DOMAIN o : to[i] = at[i] - 2
  BY <1>3
<1> HIDE DEF to
<1>5. \A i, j \in DOMAIN o : i < j => to[i] < to[j]
  BY <1>1, <1>3, <1>4 DEF WaitsAt
<1>6. ASSUME NEW k \in DOMAIN v
      PROVE  IsCommand(v[k]) <=> \E i \in DOMAIN o : to[i] = k
  <2>1. k + 2 \in DOMAIN s /\ v[k] = s[k + 2]
    BY <1>2
  <2>2. IsCommand(s[k + 2]) <=> \E i \in DOMAIN o : at[i] = k + 2
    BY <1>1, <2>1 DEF WaitsAt
  <2>3. \A i \in DOMAIN o : at[i] = k + 2 <=> to[i] = k
    BY <1>2, <1>3, <1>4
  <2> QED
    BY <2>1, <2>2, <2>3
<1>7. \A i \in DOMAIN o : o[i] = ParsePlaybackCommand(v[to[i]].frame.text)
  BY <1>1, <1>3, <1>4 DEF WaitsAt
<1>8. WaitsAt(to, o, v)
  BY <1>4, <1>5, <1>6, <1>7 DEF WaitsAt
<1> QED
  BY <1>8, WaitsSomewhere

\* A command is the first that is owed.
LEMMA CommandTaken ==
  ASSUME NEW o, NEW s, NEW v, IsSeq(o), IsSeq(s), DropOf(v, s, 2), WaitIn(o, s),
         IsCommand(s[1]), ~IsCommand(s[2])
  PROVE  o # << >> /\ IsSeq(Tail(o)) /\ WaitIn(Tail(o), v)
<1>1. PICK at : WaitsAt(at, o, s)
  BY WaitsSomewhere
<1>2. /\ DOMAIN o = 1..Len(o) /\ Len(o) \in Nat /\ DOMAIN s = 1..Len(s) /\ DOMAIN v = 1..Len(v)
      /\ Len(v) \in Nat /\ Len(s) = Len(v) + 2 /\ \A i \in 1..Len(v) : v[i] = s[i + 2]
  BY SeqFacts DEF DropOf
<1>3. 1 \in DOMAIN s
  BY <1>2
<1>4. PICK m \in DOMAIN o : at[m] = 1
  BY <1>1, <1>3 DEF WaitsAt
<1>5. \A i \in DOMAIN o : at[i] \in 1..Len(s)
  BY <1>1, <1>2 DEF WaitsAt
<1>6. m = 1
  <2>1. m \in 1..Len(o) /\ 1 \in DOMAIN o
    BY <1>2, <1>4
  <2>2. 1 < m => at[1] < at[m]
    BY <1>1, <2>1 DEF WaitsAt
  <2> QED
    BY <1>2, <1>4, <1>5, <2>1, <2>2
<1>7. o # << >>
  BY <1>2, <1>4
<1> DEFINE t == Tail(o)
<1>8. DropOf(t, o, 1)
  BY <1>7, TailFacts
<1> HIDE DEF t
<1>9. /\ IsSeq(t) /\ DOMAIN t = 1..Len(t) /\ Len(t) \in Nat /\ Len(o) = Len(t) + 1
      /\ \A i \in 1..Len(t) : t[i] = o[i + 1]
  BY <1>8 DEF DropOf
<1> DEFINE to == [i \in DOMAIN t |-> at[i + 1] - 2]
<1>10. ASSUME NEW i \in DOMAIN t
       PROVE  i + 1 \in DOMAIN o /\ at[i + 1] \in 3..Len(s) /\ at[i + 1] - 2 \in DOMAIN v
              /\ v[at[i + 1] - 2] = s[at[i + 1]]
  <2>1. i + 1 \in DOMAIN o /\ 1 \in DOMAIN o /\ 1 < i + 1
    BY <1>2, <1>9
  <2>2. at[1] < at[i + 1] /\ at[1] = 1
    BY <1>1, <1>4, <1>6, <2>1 DEF WaitsAt
  <2>3. at[i + 1] \in DOMAIN s /\ IsCommand(s[at[i + 1]])
    BY <1>1, <2>1 DEF WaitsAt
  <2>4. at[i + 1] # 2
    BY <2>3
  <2> DEFINE k == at[i + 1]
  <2>5. k \in 1..Len(s) /\ 1 < k /\ k # 2
    BY <1>2, <2>2, <2>3, <2>4
  <2> HIDE DEF k
  <2>6. k \in 3..Len(s) /\ k - 2 \in 1..Len(v) /\ (k - 2) + 2 = k
    BY <1>2, <2>5
  <2> QED
    BY <1>2, <2>1, <2>6 DEF k
<1>11. to \in [DOMAIN t -> DOMAIN v] /\ \A i \in DOMAIN t : to[i] = at[i + 1] - 2
  BY <1>10
<1> HIDE DEF to
<1>12. ASSUME NEW i \in DOMAIN t, NEW j \in DOMAIN t, i < j PROVE to[i] < to[j]
  <2>1. i + 1 \in DOMAIN o /\ j + 1 \in DOMAIN o /\ i + 1 < j + 1
    BY <1>9, <1>10, <1>12
  <2>2. at[i + 1] < at[j + 1]
    BY <1>1, <2>1 DEF WaitsAt
  <2> QED
    BY <1>10, <1>11, <2>2
<1>13. ASSUME NEW k \in DOMAIN v
       PROVE  IsCommand(v[k]) <=> \E i \in DOMAIN t : to[i] = k
  <2>1. k + 2 \in DOMAIN s /\ v[k] = s[k + 2] /\ k \in Nat /\ k > 0
    BY <1>2
  <2>2. IsCommand(s[k + 2]) <=> \E i \in DOMAIN o : at[i] = k + 2
    BY <1>1, <2>1 DEF WaitsAt
  <2>3. \A i \in DOMAIN t : i + 1 \in DOMAIN o /\ (at[i + 1] = k + 2 <=> to[i] = k)
    BY <1>10, <1>11, <2>1
  <2>4. ASSUME NEW i \in DOMAIN o, at[i] = k + 2 PROVE \E h \in DOMAIN t : to[h] = k
    <3>1. i # 1
      BY <1>4, <1>6, <2>1, <2>4
    <3>2. i - 1 \in DOMAIN t /\ (i - 1) + 1 = i
      BY <1>2, <1>9, <3>1
    <3> QED
      BY <2>3, <2>4, <3>2
  <2> QED
    BY <2>1, <2>2, <2>3, <2>4
<1>14. ASSUME NEW i \in DOMAIN t PROVE t[i] = ParsePlaybackCommand(v[to[i]].frame.text)
  <2>1. t[i] = o[i + 1] /\ i + 1 \in DOMAIN o
    BY <1>9, <1>10
  <2>2. o[i + 1] = ParsePlaybackCommand(s[at[i + 1]].frame.text)
    BY <1>1, <2>1 DEF WaitsAt
  <2> QED
    BY <1>10, <1>11, <2>1, <2>2
<1>15. WaitsAt(to, t, v)
  BY <1>11, <1>12, <1>13, <1>14 DEF WaitsAt
<1>16. WaitIn(t, v)
  BY <1>15, WaitsSomewhere
<1> QED
  BY <1>7, <1>9, <1>16 DEF t

\* A frame that is sent is owed if it is a command.
LEMMA FrameSent ==
  ASSUME NEW o, NEW s, NEW v, IsSeq(o), GrowthOf(v, s), Len(v) = Len(s) + 2, WaitIn(o, s),
         ~IsCommand(v[Len(s) + 2]),
         NEW p, p = IF IsCommand(v[Len(s) + 1])
                      THEN Append(o, ParsePlaybackCommand(v[Len(s) + 1].frame.text)) ELSE o
  PROVE  IsSeq(p) /\ WaitIn(p, v)
<1>1. PICK at : WaitsAt(at, o, s)
  BY WaitsSomewhere
<1>2. /\ DOMAIN o = 1..Len(o) /\ Len(o) \in Nat /\ DOMAIN s = 1..Len(s) /\ DOMAIN v = 1..Len(v)
      /\ Len(s) \in Nat /\ \A i \in 1..Len(s) : v[i] = s[i]
  BY SeqFacts DEF GrowthOf
<1> DEFINE n == Len(s)
<1>3. \A i \in DOMAIN o : at[i] \in 1..n /\ v[at[i]] = s[at[i]]
  BY <1>1, <1>2 DEF WaitsAt
<1>4. \A k \in DOMAIN v : k \in 1..n \/ k = n + 1 \/ k = n + 2
  BY <1>2
<1>5. CASE ~IsCommand(v[n + 1])
  <2>1. p = o
    BY <1>5
  <2>2. at \in [DOMAIN o -> DOMAIN v]
    BY <1>1, <1>2 DEF WaitsAt
  <2>3. ASSUME NEW k \in DOMAIN v
        PROVE  IsCommand(v[k]) <=> \E i \in DOMAIN o : at[i] = k
    <3>1. CASE k \in 1..n
      BY <1>1, <1>2, <3>1 DEF WaitsAt
    <3>2. CASE k \in {n + 1, n + 2}
      <4>1. ~IsCommand(v[k])
        BY <1>5, <3>2
      <4>2. \A i \in DOMAIN o : at[i] # k
        BY <1>2, <1>3, <3>2
      <4> QED
        BY <4>1, <4>2
    <3> QED
      BY <1>4, <3>1, <3>2
  <2>4. WaitsAt(at, o, v)
    BY <1>1, <1>3, <2>2, <2>3 DEF WaitsAt
  <2> QED
    BY <2>1, <2>4, WaitsSomewhere
<1>6. CASE IsCommand(v[n + 1])
  <2> DEFINE c == ParsePlaybackCommand(v[n + 1].frame.text)
             m == Len(o) + 1
  <2>1. p = Append(o, c)
    BY <1>6
  <2> HIDE DEF c
  <2>2. IsSeq(p) /\ DOMAIN p = 1..m /\ p[m] = c /\ \A i \in DOMAIN o : p[i] = o[i]
    <3> DEFINE S == {o[i] : i \in DOMAIN o}
    <3>1. o \in Seq(S)
      BY DEF IsSeq
    <3> HIDE DEF S
    <3>2. o \in Seq(S \cup {c}) /\ c \in S \cup {c}
      BY <3>1
    <3>3. p \in Seq(S \cup {c}) /\ DOMAIN p = 1..m /\ p[m] = c /\ \A i \in 1..Len(o) : p[i] = o[i]
      BY <2>1, <3>2
    <3> QED
      BY <1>2, <3>3, SequenceOf
  <2> DEFINE to == [i \in DOMAIN p |-> IF i = m THEN n + 1 ELSE at[i]]
  <2>3. \A i \in DOMAIN p : i = m \/ (i \in DOMAIN o /\ i # m)
    BY <1>2, <2>2
  <2>4. \A i \in DOMAIN o : i \in DOMAIN p /\ i # m /\ i < m
    BY <1>2, <2>2
  <2>5. m \in DOMAIN p /\ n + 1 \in DOMAIN v
    BY <1>2, <2>2
  <2>6. /\ to \in [DOMAIN p -> DOMAIN v] /\ to[m] = n + 1
        /\ \A i \in DOMAIN o : to[i] = at[i]
    <3>1. \A i \in DOMAIN o : at[i] \in DOMAIN v
      BY <1>2, <1>3
    <3> HIDE DEF m, n
    <3> QED
      BY <2>3, <2>4, <2>5, <3>1
  <2> HIDE DEF to
  <2>7. ASSUME NEW i \in DOMAIN p, NEW j \in DOMAIN p, i < j PROVE to[i] < to[j]
    <3>1. i \in DOMAIN o
      BY <1>2, <2>2, <2>3, <2>7
    <3>2. CASE j = m
      BY <1>2, <1>3, <2>6, <3>1, <3>2
    <3>3. CASE j \in DOMAIN o
      BY <1>1, <2>6, <2>7, <3>1, <3>3 DEF WaitsAt
    <3> QED
      BY <2>3, <3>2, <3>3
  <2>8. ASSUME NEW k \in DOMAIN v
        PROVE  IsCommand(v[k]) <=> \E i \in DOMAIN p : to[i] = k
    <3>1. CASE k \in 1..n
      <4>1. IsCommand(v[k]) <=> \E i \in DOMAIN o : at[i] = k
        BY <1>1, <1>2, <3>1 DEF WaitsAt
      <4>2. to[m] # k
        BY <1>2, <2>6, <3>1
      <4> HIDE DEF m, n
      <4> QED
        BY <2>3, <2>4, <2>6, <4>1, <4>2
    <3>2. CASE k = n + 1
      BY <1>6, <2>5, <2>6, <3>2
    <3>3. CASE k = n + 2
      <4>1. ~IsCommand(v[k])
        BY <3>3
      <4>2. \A i \in DOMAIN o : at[i] # k
        BY <1>2, <1>3, <3>3
      <4>3. to[m] # k
        BY <1>2, <2>6, <3>3
      <4> HIDE DEF m, n
      <4> QED
        BY <2>3, <2>6, <4>1, <4>2, <4>3
    <3> QED
      BY <1>4, <3>1, <3>2, <3>3
  <2>9. ASSUME NEW i \in DOMAIN p PROVE p[i] = ParsePlaybackCommand(v[to[i]].frame.text)
    <3>1. CASE i = m
      BY <2>2, <2>6, <3>1 DEF c
    <3>2. CASE i \in DOMAIN o
      <4>1. p[i] = o[i] /\ to[i] = at[i] /\ v[at[i]] = s[at[i]]
        BY <1>3, <2>2, <2>6, <3>2
      <4>2. o[i] = ParsePlaybackCommand(s[at[i]].frame.text)
        BY <1>1, <3>2 DEF WaitsAt
      <4> QED
        BY <4>1, <4>2
    <3> QED
      BY <2>3, <3>1, <3>2
  <2>10. WaitsAt(to, p, v)
    BY <2>6, <2>7, <2>8, <2>9 DEF WaitsAt
  <2> QED
    BY <2>2, <2>10, WaitsSomewhere
<1> QED
  BY <1>5, <1>6

LEMMA PairedDropped ==
  ASSUME NEW s, NEW v, IsSeq(s), Paired(s), DropOf(v, s, 2)
  PROVE  Paired(v)
<1>1. /\ DOMAIN s = 1..Len(s) /\ DOMAIN v = 1..Len(v) /\ Len(v) \in Nat /\ Len(s) = Len(v) + 2
      /\ \A i \in 1..Len(v) : v[i] = s[i + 2]
  BY SeqFacts DEF DropOf
<1>2. Len(v) % 2 = 0
  BY <1>1 DEF Paired
<1>3. ASSUME NEW i \in DOMAIN v PROVE v[i].part = IF i % 2 = 1 THEN "head" ELSE "body"
  <2>1. i + 2 \in DOMAIN s /\ v[i] = s[i + 2] /\ (i + 2) % 2 = i % 2
    BY <1>1
  <2> QED
    BY <2>1 DEF Paired
<1> QED
  BY <1>2, <1>3 DEF Paired

LEMMA PairedGrown ==
  ASSUME NEW s, NEW v, Paired(s), GrowthOf(v, s), Len(v) = Len(s) + 2,
         v[Len(s) + 1].part = "head", v[Len(s) + 2].part = "body"
  PROVE  Paired(v)
<1>1. /\ DOMAIN s = 1..Len(s) /\ DOMAIN v = 1..Len(v) /\ Len(s) \in Nat
      /\ \A i \in 1..Len(s) : v[i] = s[i]
  BY DEF GrowthOf
<1>2. Len(s) % 2 = 0 /\ Len(v) % 2 = 0
  BY <1>1 DEF Paired
<1>3. ASSUME NEW i \in DOMAIN v PROVE v[i].part = IF i % 2 = 1 THEN "head" ELSE "body"
  <2>1. CASE i \in DOMAIN s
    BY <1>1, <2>1 DEF Paired
  <2>2. CASE i = Len(s) + 1
    <3>1. i % 2 = 1
      BY <1>1, <1>2, <2>2
    <3> QED
      BY <2>2, <3>1
  <2>3. CASE i = Len(s) + 2
    <3>1. i % 2 # 1
      BY <1>1, <1>2, <2>3
    <3> QED
      BY <2>3, <3>1
  <2> QED
    BY <1>1, <2>1, <2>2, <2>3
<1> QED
  BY <1>2, <1>3 DEF Paired

\* Whatever is coming, the first frame that was received has its header first.
LEMMA FrontPaired ==
  ASSUME NEW b, NEW n, IsSeq(b), IsSeq(n), Len(b) >= 2, Whole(b, n)
  PROVE  /\ (b \o n)[1] = b[1] /\ (b \o n)[2] = b[2]
         /\ b[1].part = "head" /\ b[2].part = "body"
<1> DEFINE s == b \o n
<1>1. GrowthOf(s, b)
  BY ConcatFacts
<1> HIDE DEF s
<1>2. /\ DOMAIN b = 1..Len(b) /\ DOMAIN s = 1..Len(s) /\ Len(b) <= Len(s)
      /\ Len(b) \in Nat /\ Len(s) \in Nat /\ \A i \in 1..Len(b) : s[i] = b[i]
  BY <1>1 DEF GrowthOf
<1>3. 1 \in DOMAIN b /\ 2 \in DOMAIN b /\ 1 \in DOMAIN s /\ 2 \in DOMAIN s
  BY <1>2
<1>4. s[1] = b[1] /\ s[2] = b[2]
  BY <1>2, <1>3
<1>5. Paired(b) \/ Paired(s)
  BY DEF Whole, s
<1>6. 1 % 2 = 1 /\ 2 % 2 = 0
  OBVIOUS
<1>7. b[1].part = "head" /\ b[2].part = "body"
  BY <1>3, <1>4, <1>5, <1>6 DEF Paired
<1> QED
  BY <1>4, <1>7 DEF s

\* A frame that does not end the session is taken whole.
LEMMA DecodedFrame ==
  ASSUME NEW b, IsSeq(b), Decoded(b).kind # "none"
  PROVE  /\ IsSeq(Decoded(b).rest)
         /\ CloseCodeFor(Decoded(b).kind) = 0 =>
              /\ Len(b) >= 2 /\ Decoded(b).rest = Tail(Tail(b)) /\ Head(b) = b[1]
              /\ Decoded(b).kind = "Text" <=> b[1].frame.op = 1
<1> DEFINE f == Head(b).frame
           kind == HeaderKind(f)
           valid == ValidatedKind(kind, f)
<1>1. IsSeq(<< >>)
  BY NothingIsSeq
<1>2. b # << >> /\ Len(b) \in Nat
  BY SeqFacts DEF Decoded, NoFrame
<1>3. Head(b) = b[1]
  OBVIOUS
<1>4. CASE CloseCodeFor(kind) > 1000
  <2>1. Decoded(b) = [kind |-> kind, rest |-> << >>]
    BY <1>2, <1>4 DEF Decoded, Finished
  <2>2. CloseCodeFor(kind) # 0
    BY <1>4 DEF CloseCodeFor
  <2> HIDE DEF kind
  <2> QED
    BY <1>1, <2>1, <2>2
<1>5. CASE ~(CloseCodeFor(kind) > 1000)
  <2>1. Len(b) >= 2
    BY <1>2, <1>5 DEF Decoded, NoFrame
  <2>2. Decoded(b) = [kind |-> valid, rest |-> IF CloseCodeFor(valid) # 0 THEN << >> ELSE Tail(Tail(b))]
    BY <1>2, <1>5, <2>1 DEF Decoded
  <2>3. IsSeq(Tail(Tail(b)))
    BY <1>1, <2>1, FrameDropped
  <2>4. CloseCodeFor(valid) = 0 => (valid = "Text" <=> kind = "Text")
    BY DEF ValidatedKind, CloseCodeFor
  <2>5. kind = "Text" => f.op = 1
    BY DEF HeaderKind, KindFor
  <2>6. f.op = 1 => kind \in {"Text", "ProtocolError", "TooLarge"}
    BY DEF HeaderKind, KindFor
  <2>7. kind \notin {"ProtocolError", "TooLarge"}
    BY <1>5 DEF CloseCodeFor
  <2> HIDE DEF kind, valid
  <2> QED
    BY <1>1, <1>3, <2>1, <2>2, <2>3, <2>4, <2>5, <2>6, <2>7 DEF f
<1> QED
  BY <1>4, <1>5

LEMMA ChanPartsNext ==
  ChanInv' <=> /\ IsSeq(chan'.buffer) /\ IsSeq(net') /\ IsSeq(owed')
               /\ ~chan'.closed => /\ WaitIn(owed', chan'.buffer \o net')
                                   /\ Whole(chan'.buffer, net')
BY DEF ChanInv

LEMMA ChanStays ==
  ASSUME ChanInv, UNCHANGED <<net, owed>>, chan'.buffer = chan.buffer, chan.closed => chan'.closed
  PROVE  ChanInv'
<1>1. /\ IsSeq(chan.buffer) /\ IsSeq(net) /\ IsSeq(owed)
      /\ ~chan.closed => WaitIn(owed, chan.buffer \o net) /\ Whole(chan.buffer, net)
  BY DEF ChanInv
<1> DEFINE b == chan.buffer
           c == chan'.buffer
<1>2. c = b /\ net' = net /\ owed' = owed
  OBVIOUS
<1> HIDE DEF b, c
<1>3. ~chan.closed => WaitIn(owed', c \o net') /\ Whole(c, net')
  BY <1>1, <1>2 DEF b
<1>4. IsSeq(c) /\ IsSeq(net') /\ IsSeq(owed')
  BY <1>1, <1>2 DEF b
<1> QED
  BY <1>3, <1>4, ChanPartsNext DEF c

LEMMA NothingWaits ==
  IsSeq(<< >>) /\ WaitIn(<< >>, << >> \o << >>) /\ Whole(<< >>, << >>) /\ << >> \o << >> = << >>
<1>1. IsSeq(<< >>)
  BY NothingIsSeq
<1>2. << >> \o << >> = << >>
  BY <1>1, SeqFacts
<1>3. DOMAIN << >> = {} /\ Len(<< >>) = 0
  OBVIOUS
<1> DEFINE at == [i \in {} |-> 0]
<1>4. at \in [{} -> {}]
  OBVIOUS
<1>5. WaitsAt(at, << >>, << >>)
  BY <1>3, <1>4 DEF WaitsAt
<1>6. WaitIn(<< >>, << >>)
  BY <1>5, WaitsSomewhere
<1>7. Paired(<< >>)
  BY <1>3 DEF Paired
<1> QED
  BY <1>1, <1>2, <1>6, <1>7 DEF Whole

LEMMA ChanInit == ASSUME EmulatorInit PROVE ChanInv
<1>1. net = << >> /\ owed = << >> /\ chan = NewChannel
  BY DEF EmulatorInit
<1>2. chan.buffer = << >>
  BY <1>1 DEF NewChannel
<1> QED
  BY <1>1, <1>2, NothingWaits DEF ChanInv

LEMMA ReceiveKeeps == ASSUME ChanInv, PaceInv, PollReceives PROVE ChanInv'
<1>1. /\ IsSeq(chan.buffer) /\ IsSeq(net) /\ IsSeq(owed) /\ owed' = owed /\ net # << >>
      /\ WaitIn(owed, chan.buffer \o net) /\ Whole(chan.buffer, net) /\ ~chan.closed
  BY DEF ChanInv, PollReceives, ChannelOpen
<1>2. IsChannel(chan)
  BY PaceParts
<1>3. CASE chan' = ClosedAs(chan, TRUE) /\ net' = << >>
  <2>1. chan'.closed /\ chan'.buffer = chan.buffer
    BY <1>2, <1>3, ChannelChanges
  <2> QED
    BY <1>1, <1>3, <2>1, ChanPartsNext, NothingWaits
<1>4. ASSUME NEW k \in 1..Len(net), \A i \in 1..k : net[i].part # "fin",
             chan' = Holding(chan, chan.buffer \o SubSeq(net, 1, k)),
             net' = SubSeq(net, k + 1, Len(net))
      PROVE  ChanInv'
  <2> DEFINE c == chan.buffer \o SubSeq(net, 1, k)
             m == SubSeq(net, k + 1, Len(net))
  <2>1. IsSeq(c) /\ IsSeq(m) /\ c \o m = chan.buffer \o net
    BY <1>1, Received
  <2>2. net # <<[part |-> "fin"]>>
    <3> DEFINE fin == [part |-> "fin"]
    <3>1. fin.part = "fin"
      OBVIOUS
    <3>2. 1 \in 1..k
      BY <1>1, SeqFacts
    <3>3. net[1].part # "fin"
      BY <1>4, <3>2
    <3> HIDE DEF fin
    <3>4. <<fin>>[1] = fin
      OBVIOUS
    <3>5. net # <<fin>>
      BY <3>1, <3>3, <3>4
    <3> QED
      BY <3>5 DEF fin
  <2>3. Paired(chan.buffer \o net)
    BY <1>1, <2>2 DEF Whole
  <2> HIDE DEF c, m
  <2>4. chan' = Holding(chan, c) /\ net' = m
    BY <1>4 DEF c, m
  <2>5. chan'.buffer = c /\ chan'.closed = chan.closed
    BY <1>2, <2>4, ChannelChanges
  <2>6. WaitIn(owed, c \o m) /\ Whole(c, m)
    BY <1>1, <2>1, <2>3 DEF Whole
  <2> QED
    BY <1>1, <2>1, <2>4, <2>5, <2>6, ChanPartsNext
<1>5. \/ chan' = ClosedAs(chan, TRUE) /\ net' = << >>
      \/ \E k \in 1..Len(net) :
           /\ \A i \in 1..k : net[i].part # "fin"
           /\ chan' = Holding(chan, chan.buffer \o SubSeq(net, 1, k))
           /\ net' = SubSeq(net, k + 1, Len(net))
  BY DEF PollReceives, ClosedAs, Holding
<1> QED
  BY <1>3, <1>4, <1>5

\* Two pieces follow what is coming.
Sent(n, x, y) == n \o <<x, y>>
Grown(b, n, m, x, y) ==
  LET s == b \o n
      v == b \o m
  IN  /\ IsSeq(m) /\ GrowthOf(v, s) /\ Len(v) = Len(s) + 2
      /\ v[Len(s) + 1] = x /\ v[Len(s) + 2] = y

LEMMA TwoCome ==
  ASSUME NEW b, NEW n, IsSeq(b), IsSeq(n), NEW x, NEW y
  PROVE  Grown(b, n, Sent(n, x, y), x, y)
<1> DEFINE t == <<x, y>>
           m == n \o t
           s == b \o n
           v == b \o m
<1>1. t \in Seq({x, y}) /\ Len(t) = 2 /\ t[1] = x /\ t[2] = y
  OBVIOUS
<1> HIDE DEF t
<1>2. IsSeq(t)
  BY <1>1, SequenceOf
<1>3. /\ GrowthOf(m, n) /\ Len(m) = Len(n) + Len(t)
      /\ \A i \in 1..Len(t) : m[Len(n) + i] = t[i]
  BY <1>2, ConcatFacts
<1> HIDE DEF m
<1>4. IsSeq(m)
  BY <1>3 DEF GrowthOf
<1>5. /\ GrowthOf(v, b) /\ Len(v) = Len(b) + Len(m)
      /\ \A i \in 1..Len(m) : v[Len(b) + i] = m[i]
  BY <1>4, ConcatFacts
<1>6. /\ GrowthOf(s, b) /\ Len(s) = Len(b) + Len(n) /\ Len(n) \in Nat
      /\ \A i \in 1..Len(n) : s[Len(b) + i] = n[i]
  BY ConcatFacts
<1> HIDE DEF v, s
<1>7. Len(m) = Len(n) + 2 /\ m[Len(n) + 1] = x /\ m[Len(n) + 2] = y
      /\ \A i \in 1..Len(n) : m[i] = n[i]
  <2>1. 1 \in 1..Len(t) /\ 2 \in 1..Len(t)
    BY <1>1
  <2> QED
    BY <1>1, <1>3, <2>1 DEF GrowthOf
<1>8. Len(b) \in Nat /\ Len(s) \in Nat /\ Len(v) \in Nat /\ Len(v) = Len(s) + 2
  BY <1>5, <1>6, <1>7 DEF GrowthOf
<1>9. v[Len(s) + 1] = x /\ v[Len(s) + 2] = y
  <2>1. /\ Len(n) + 1 \in 1..Len(m) /\ Len(n) + 2 \in 1..Len(m)
        /\ Len(s) + 1 = Len(b) + (Len(n) + 1) /\ Len(s) + 2 = Len(b) + (Len(n) + 2)
    BY <1>6, <1>7, <1>8
  <2> QED
    BY <1>5, <1>7, <2>1
<1>10. ASSUME NEW i \in 1..Len(s) PROVE v[i] = s[i]
  <2>1. CASE i \in 1..Len(b)
    BY <1>5, <1>6, <2>1 DEF GrowthOf
  <2>2. CASE i \notin 1..Len(b)
    <3> DEFINE j == i - Len(b)
    <3>1. j \in 1..Len(n) /\ j \in 1..Len(m) /\ i = Len(b) + j
      BY <1>6, <1>7, <1>8, <2>2
    <3> HIDE DEF j
    <3> QED
      BY <1>5, <1>6, <1>7, <3>1
  <2> QED
    BY <2>1, <2>2
<1>11. GrowthOf(v, s)
  BY <1>5, <1>6, <1>8, <1>10 DEF GrowthOf
<1> QED
  BY <1>4, <1>8, <1>9, <1>11 DEF v, s, m, t, Grown, Sent

LEMMA SendKeeps == ASSUME ChanInv, BrowserSends PROVE ChanInv'
<1> DEFINE f == Head(script)
           x == Piece(f, "head")
           y == Piece(f, "body")
           b == chan.buffer
           m == net \o <<x, y>>
           s == b \o net
           v == b \o m
<1>1. /\ net' = m /\ chan' = chan
      /\ owed' = IF IsCommand(x) THEN Append(owed, ParsePlaybackCommand(x.frame.text)) ELSE owed
      /\ \A i \in DOMAIN net : net[i].part # "fin"
  BY DEF BrowserSends, Piece
<1>2. IsSeq(b) /\ IsSeq(net) /\ IsSeq(owed) /\ (~chan.closed => WaitIn(owed, s) /\ Whole(b, net))
  BY DEF ChanInv
<1>3. x.part = "head" /\ y.part = "body" /\ ~IsCommand(y)
  BY DEF Piece, IsCommand
<1> HIDE DEF x, y
<1>4. /\ IsSeq(m) /\ GrowthOf(v, s) /\ Len(v) = Len(s) + 2
      /\ v[Len(s) + 1] = x /\ v[Len(s) + 2] = y
  <2>1. IsSeq(b) /\ IsSeq(net) /\ m = Sent(net, x, y)
    BY <1>2 DEF Sent
  <2> HIDE DEF m, s, v, b
  <2>2. Grown(b, net, m, x, y)
    BY <2>1, TwoCome
  <2> QED
    BY <2>2 DEF Grown, v, s
<1>5. IsSeq(owed')
  <2>1. PICK S : owed \in Seq(S)
    BY <1>2 DEF IsSeq
  <2> DEFINE c == ParsePlaybackCommand(x.frame.text)
  <2>2. owed' \in {owed, Append(owed, c)}
    BY <1>1
  <2> HIDE DEF c
  <2>3. owed \in Seq(S \cup {c})
    BY <2>1
  <2>4. owed' \in Seq(S \cup {c})
    BY <2>2, <2>3
  <2> QED
    BY <2>4, SequenceOf
<1>6. ASSUME ~chan.closed PROVE WaitIn(owed', v) /\ Whole(b, m)
  <2>1. WaitIn(owed, s) /\ Whole(b, net)
    BY <1>2, <1>6
  <2>2. net # <<[part |-> "fin"]>>
    <3> DEFINE fin == [part |-> "fin"]
    <3>1. fin.part = "fin"
      OBVIOUS
    <3> HIDE DEF fin
    <3>2. <<fin>>[1] = fin /\ 1 \in DOMAIN <<fin>>
      OBVIOUS
    <3>3. net # <<fin>>
      BY <1>1, <3>1, <3>2
    <3> QED
      BY <3>3 DEF fin
  <2>3. Paired(s)
    BY <2>1, <2>2 DEF Whole
  <2> HIDE DEF s, v
  <2>4. Paired(v)
    BY <1>3, <1>4, <2>3, PairedGrown
  <2> DEFINE o == owed'
  <2>5. o = IF IsCommand(v[Len(s) + 1])
              THEN Append(owed, ParsePlaybackCommand(v[Len(s) + 1].frame.text)) ELSE owed
    BY <1>1, <1>4
  <2> HIDE DEF o
  <2>6. ~IsCommand(v[Len(s) + 2])
    BY <1>3, <1>4
  <2>7. WaitIn(o, v)
    BY <1>2, <1>4, <2>1, <2>5, <2>6, FrameSent DEF s
  <2> QED
    BY <2>4, <2>7 DEF Whole, o, v
<1> HIDE DEF m
<1>7. chan'.buffer = b /\ chan'.closed = chan.closed
  BY <1>1
<1> QED
  BY <1>1, <1>2, <1>4, <1>5, <1>6, <1>7, ChanPartsNext

LEMMA LeaveKeeps == ASSUME ChanInv, BrowserLeaves PROVE ChanInv'
<1> DEFINE fin == [part |-> "fin"]
           b == chan.buffer
           s == b \o << >>
           v == b \o <<fin>>
<1>1. net = << >> /\ net' = <<fin>> /\ owed' = owed /\ chan' = chan
  BY DEF BrowserLeaves
<1>2. IsSeq(b) /\ IsSeq(owed) /\ (~chan.closed => WaitIn(owed, s) /\ Whole(b, << >>))
  BY <1>1 DEF ChanInv
<1>3. s = b /\ DOMAIN b = 1..Len(b) /\ Len(b) \in Nat /\ DOMAIN owed = 1..Len(owed)
  BY <1>2, SeqFacts
<1>4. ~IsCommand(fin)
  BY DEF IsCommand
<1>5. ~chan.closed => Paired(b)
  <2>1. << >> # <<fin>>
    OBVIOUS
  <2> HIDE DEF fin
  <2> QED
    BY <1>2, <1>3, <2>1 DEF Whole, fin
<1> HIDE DEF fin
<1>6. IsSeq(<<fin>>) /\ Len(<<fin>>) = 1 /\ <<fin>>[1] = fin
  <2>1. <<fin>> \in Seq({fin}) /\ Len(<<fin>>) = 1 /\ <<fin>>[1] = fin
    OBVIOUS
  <2> QED
    BY <2>1, SequenceOf
<1>7. GrowthOf(v, b) /\ Len(v) = Len(b) + 1 /\ v[Len(b) + 1] = fin
  <2>1. 1 \in 1..Len(<<fin>>)
    BY <1>6
  <2>2. /\ GrowthOf(v, b) /\ Len(v) = Len(b) + Len(<<fin>>)
        /\ \A i \in 1..Len(<<fin>>) : v[Len(b) + i] = <<fin>>[i]
    BY <1>2, <1>6, ConcatFacts
  <2> HIDE DEF v
  <2> QED
    BY <1>6, <2>1, <2>2
<1> HIDE DEF v
<1>8. ASSUME ~chan.closed PROVE WaitIn(owed, v)
  <2>1. PICK at : WaitsAt(at, owed, b)
    BY <1>2, <1>3, <1>8, WaitsSomewhere
  <2>2. DOMAIN v = 1..Len(b) + 1 /\ \A i \in DOMAIN b : v[i] = b[i]
    BY <1>3, <1>7 DEF GrowthOf
  <2>3. \A i \in DOMAIN owed : at[i] \in DOMAIN b /\ at[i] \in DOMAIN v /\ v[at[i]] = b[at[i]]
    BY <1>3, <2>1, <2>2 DEF WaitsAt
  <2>4. at \in [DOMAIN owed -> DOMAIN v]
    BY <2>1, <2>3 DEF WaitsAt
  <2>5. ASSUME NEW k \in DOMAIN v
        PROVE  IsCommand(v[k]) <=> \E i \in DOMAIN owed : at[i] = k
    <3>1. CASE k \in DOMAIN b
      BY <2>1, <2>2, <3>1 DEF WaitsAt
    <3>2. CASE k \notin DOMAIN b
      <4>1. v[k] = fin
        BY <1>3, <1>7, <2>2, <3>2
      <4> QED
        BY <1>4, <2>3, <3>2, <4>1
    <3> QED
      BY <3>1, <3>2
  <2>6. WaitsAt(at, owed, v)
    BY <2>1, <2>3, <2>4, <2>5 DEF WaitsAt
  <2> QED
    BY <2>6, WaitsSomewhere
<1>9. ~chan.closed => Whole(b, <<fin>>)
  BY <1>5 DEF Whole, fin
<1>10. chan'.buffer = b /\ chan'.closed = chan.closed
  BY <1>1
<1> QED
  BY <1>1, <1>2, <1>6, <1>8, <1>9, <1>10, ChanPartsNext DEF v

\* The pacer takes a frame off the buffer, and its command off what is owed.
LEMMA TakeKeeps == ASSUME ChanInv, PaceInv, PollFrame PROVE ChanInv'
<1> DEFINE b == chan.buffer
           d == Decoded(b)
           c == Holding(chan, d.rest)
           command == ParsePlaybackCommand(Head(b).frame.text)
           v == d.rest \o net
           s == b \o net
<1>1. /\ IsSeq(b) /\ IsSeq(net) /\ IsSeq(owed) /\ WaitIn(owed, s) /\ Whole(b, net)
      /\ ~chan.closed /\ IsChannel(chan) /\ net' = net /\ d.kind # "none"
  BY PaceParts DEF ChanInv, PollFrame, ChannelOpen
<1>2. /\ IsSeq(d.rest)
      /\ CloseCodeFor(d.kind) = 0 =>
           /\ Len(b) >= 2 /\ d.rest = Tail(Tail(b)) /\ Head(b) = b[1]
           /\ d.kind = "Text" <=> b[1].frame.op = 1
  BY <1>1, DecodedFrame
<1>3. c.buffer = d.rest /\ ~c.closed /\ IsChannel(c)
  BY <1>1, ChannelChanges
<1>4. /\ CloseCodeFor("Pong") = 0 /\ CloseCodeFor("Ping") = 0 /\ CloseCodeFor("Text") = 0
  BY DEF CloseCodeFor
<1>5. \/ /\ d.kind \in {"Pong", "Ping"} \/ (d.kind = "Text" /\ command.kind = "rejected")
         /\ owed' = owed /\ (chan' = c \/ \E r, ok : SendText(c, r, ok))
      \/ /\ d.kind = "Text" /\ command.kind # "rejected"
         /\ owed' = Tail(owed) /\ (chan' = c \/ \E r, ok : SendText(c, r, ok))
      \/ /\ owed' = owed /\ \E code : chan' = ClosedWith(c, code)
  BY DEF PollFrame, Holding, ClosedWith
<1> HIDE DEF d, c
<1>6. /\ chan'.buffer = d.rest
      /\ chan' = c \/ (\E r, ok : SendText(c, r, ok)) \/ chan'.closed
  <2>1. ASSUME NEW r, NEW ok, SendText(c, r, ok) PROVE chan'.buffer = d.rest
    <3> DEFINE o == c.closed \/ ~ok
    <3>1. chan' = ClosedAs(c, o) /\ o \in BOOLEAN
      BY <2>1 DEF SendText, ClosedAs
    <3> HIDE DEF o
    <3> QED
      BY <1>3, <3>1, ChannelChanges
  <2>2. ASSUME NEW code, chan' = ClosedWith(c, code) PROVE chan'.buffer = d.rest /\ chan'.closed
    BY <1>3, <2>2, ChannelChanges
  <2>3. chan' = c => chan'.buffer = d.rest
    BY <1>3
  <2> QED
    BY <1>5, <2>1, <2>2, <2>3
<1> HIDE DEF b, command
<1>7. ASSUME d.kind \in {"Pong", "Ping", "Text"}
      PROVE  /\ DropOf(v, s, 2) /\ Whole(d.rest, net)
             /\ ~IsCommand(s[2])
             /\ IsCommand(s[1]) <=> d.kind = "Text" /\ command.kind # "rejected"
  <2>1. CloseCodeFor(d.kind) = 0
    BY <1>4, <1>7
  <2>2. /\ Len(b) >= 2 /\ d.rest = Tail(Tail(b)) /\ Head(b) = b[1]
        /\ d.kind = "Text" <=> b[1].frame.op = 1
    BY <1>2, <2>1
  <2>3. DropOf(v, s, 2) /\ DropOf(d.rest, b, 2)
    BY <1>1, <2>2, FrameDropped
  <2>4. s[1] = b[1] /\ s[2] = b[2] /\ b[1].part = "head" /\ b[2].part = "body"
    BY <1>1, <2>2, FrontPaired
  <2>5. ~IsCommand(s[2])
    BY <2>4 DEF IsCommand
  <2>6. IsCommand(s[1]) <=> d.kind = "Text" /\ command.kind # "rejected"
    BY <2>2, <2>4 DEF IsCommand, command
  <2>7. IsSeq(s)
    BY <1>1, ConcatFacts DEF GrowthOf
  <2> HIDE DEF s, v
  <2>8. Paired(s) => Paired(v)
    BY <2>3, <2>7, PairedDropped
  <2>9. Paired(b) => Paired(d.rest)
    BY <1>1, <2>3, PairedDropped
  <2>10. Whole(d.rest, net)
    BY <1>1, <2>8, <2>9 DEF Whole, s, v
  <2> QED
    BY <2>3, <2>5, <2>6, <2>10
<1>8. IsSeq(s)
  BY <1>1, ConcatFacts DEF GrowthOf
<1>9. CASE /\ d.kind \in {"Pong", "Ping"} \/ (d.kind = "Text" /\ command.kind = "rejected")
           /\ owed' = owed
  <2>1. d.kind \in {"Pong", "Ping", "Text"} /\ ~(d.kind = "Text" /\ command.kind # "rejected")
    BY <1>9
  <2>2. DropOf(v, s, 2) /\ Whole(d.rest, net) /\ ~IsCommand(s[2]) /\ ~IsCommand(s[1])
    BY <1>7, <2>1
  <2> HIDE DEF s
  <2> DEFINE u == v
  <2> HIDE DEF u
  <2>3. WaitIn(owed, u)
    BY <1>1, <1>8, <2>2, OtherFrameTaken DEF u
  <2> QED
    BY <1>1, <1>2, <1>6, <1>9, <2>2, <2>3, ChanPartsNext DEF u
<1>10. CASE d.kind = "Text" /\ command.kind # "rejected" /\ owed' = Tail(owed)
  <2>1. DropOf(v, s, 2) /\ Whole(d.rest, net) /\ ~IsCommand(s[2]) /\ IsCommand(s[1])
    BY <1>7, <1>10
  <2> HIDE DEF s
  <2> DEFINE u == v
  <2> HIDE DEF u
  <2>2. IsSeq(Tail(owed)) /\ WaitIn(Tail(owed), u)
    BY <1>1, <1>8, <2>1, CommandTaken DEF u
  <2> QED
    BY <1>1, <1>2, <1>6, <1>10, <2>1, <2>2, ChanPartsNext DEF u
<1>11. CASE owed' = owed /\ \E code : chan' = ClosedWith(c, code)
  <2>1. chan'.closed
    BY <1>3, <1>11, ChannelChanges
  <2> QED
    BY <1>1, <1>2, <1>6, <1>11, <2>1, ChanPartsNext
<1> QED
  BY <1>5, <1>9, <1>10, <1>11

LEMMA ChanStep == ASSUME RecordInv, ChanInv, PaceInv, Next PROVE ChanInv'
<1>0. IsChannel(chan) /\ chan.closed \in BOOLEAN
  BY PaceParts DEF IsChannel
<1>1. CASE UNCHANGED <<chan, net, owed>>
  BY <1>1, ChanStays
<1>2. ASSUME NEW r, NEW ok \in BOOLEAN, SendText(chan, r, ok), UNCHANGED <<net, owed>>
      PROVE  ChanInv'
  <2> DEFINE o == chan.closed \/ ~ok
  <2>1. chan' = ClosedAs(chan, o) /\ o \in BOOLEAN /\ (chan.closed => o)
    BY <1>0, <1>2 DEF SendText, ClosedAs
  <2> HIDE DEF o
  <2>2. chan'.closed = o /\ chan'.buffer = chan.buffer
    BY <1>0, <2>1, ChannelChanges
  <2> QED
    BY <1>2, <2>1, <2>2, ChanStays
<1>3. CASE BeginPass
  <2>1. /\ UNCHANGED <<net, owed>>
        /\ \/ UNCHANGED chan
           \/ \E ok \in Outcome("write") : chan' = ClosedAs(chan, chan.closed \/ ~ok)
    BY <1>3 DEF BeginPass, ClosedAs
  <2>2. ASSUME NEW ok \in Outcome("write"), chan' = ClosedAs(chan, chan.closed \/ ~ok)
        PROVE  chan'.buffer = chan.buffer /\ (chan.closed => chan'.closed)
    <3> DEFINE o == chan.closed \/ ~ok
    <3>1. chan' = ClosedAs(chan, o) /\ o \in BOOLEAN /\ (chan.closed => o)
      BY <1>0, <2>2
    <3> HIDE DEF o
    <3> QED
      BY <1>0, <3>1, ChannelChanges
  <2> QED
    BY <1>1, <2>1, <2>2, ChanStays
<1>4. CASE SendRestart
  <2>1. UNCHANGED <<net, owed>> /\ \E ok \in BOOLEAN : SendText(chan, "restart", ok)
    BY <1>4, WriteOutcome DEF SendRestart
  <2> QED
    BY <1>2, <2>1
<1>5. CASE EndSession
  <2>1. net' = << >> /\ owed' = << >> /\ chan' = NewChannel
    BY <1>5 DEF EndSession
  <2>2. chan'.buffer = << >> /\ ~chan'.closed
    BY <2>1 DEF NewChannel
  <2> QED
    BY <2>1, <2>2, NothingWaits, ChanPartsNext
<1>6. CASE \/ Host /\ UNCHANGED webVars
           \/ ServerStart \/ Accept \/ ServeEnds \/ PassEnds \/ Finish
           \/ PollClosed \/ Release \/ WorkerStep \/ WallTick \/ RequestShutdown
  <2>1. UNCHANGED <<chan, net, owed>>
    BY <1>6 DEF webVars, ServerStart, Accept, ServeEnds, PassEnds, Finish, PollClosed, Release,
                WorkerStep, WallTick, RequestShutdown, sessionVars
  <2> QED
    BY <1>1, <2>1
<1> QED
  BY <1>3, <1>4, <1>5, <1>6, ReceiveKeeps, TakeKeeps, SendKeeps, LeaveKeeps
     DEF Next, HostStep, Serving, Player

-----------------------------------------------------------------------------
(* The schedule.                                                           *)

\* A plan that loads.
PlanFine(p) ==
  /\ FramesOk(p.frames)
  /\ p.end \in Nat /\ p.avail \in Nat /\ p.poll \in Nat /\ p.tick \in Nat
  /\ p.sample \in Nat \cup {None}

\* What validate() lets through.
Runs(p) ==
  /\ PlanFine(p)
  /\ p.avail # 0 /\ p.poll # 0 /\ p.tick # 0 /\ p.sample # 0
  /\ \A i \in DOMAIN p.frames : p.frames[i] <= p.end

-----------------------------------------------------------------------------
(* Multiples.                                                              *)
LEMMA MultipleOf ==
  ASSUME NEW t \in Nat, NEW p \in Nat \ {0}
  PROVE  t % p = 0 <=> \E k \in Nat : t = k * p
<1>1. ASSUME t % p = 0 PROVE t = (t \div p) * p /\ t \div p \in Nat
  BY <1>1
<1>2. ASSUME NEW k \in Nat PROVE (k * p) % p = 0
  OBVIOUS
<1> QED
  BY <1>1, <1>2

LEMMA NextMultiple ==
  ASSUME NEW t \in Nat, NEW p \in Nat \ {0}, t % p = 0
  PROVE  /\ (t + p) % p = 0
         /\ \A s \in Nat : s % p = 0 /\ t < s => t + p <= s
<1>1. PICK k \in Nat : t = k * p
  BY MultipleOf
<1>2. (t + p) % p = 0
  <2>1. t + p = (k + 1) * p /\ k + 1 \in Nat /\ t + p \in Nat
    BY <1>1
  <2> QED
    BY <2>1, MultipleOf
<1>3. ASSUME NEW s \in Nat, s % p = 0, t < s PROVE t + p <= s
  <2>1. PICK j \in Nat : s = j * p
    BY <1>3, MultipleOf
  <2>2. k * p < j * p
    BY <1>1, <1>3, <2>1
  <2>3. k * p + p <= j * p
    BY <2>2
  <2> QED
    BY <1>1, <2>1, <2>3
<1> QED
  BY <1>2, <1>3

LEMMA NextAmong ==
  ASSUME NEW p \in Nat \ {0}, NEW end \in Nat, NEW t \in 0..end, NEW M \in SUBSET Nat,
         t + p \in M, \A s \in M : t < s => t + p <= s
  PROVE  LET d == NextDeadline(t, p, end)
         IN  /\ d # None => d \in M /\ d \in 1..end /\ t < d
             /\ \A s \in M : t < s /\ s <= end => d # None /\ d <= s
BY DEF NextDeadline, None

LEMMA DeadlineIsNext ==
  ASSUME NEW p \in Nat \ {0}, NEW end \in Nat, NEW t \in 0..end, t % p = 0
  PROVE  LET d == NextDeadline(t, p, end)
         IN  /\ d # None => d \in 1..end /\ d % p = 0 /\ t < d
             /\ \A s \in 0..end : s % p = 0 /\ t < s => d # None /\ d <= s
<1> DEFINE d == NextDeadline(t, p, end)
           M == {u \in Nat : u % p = 0}
<1>1. (t + p) % p = 0 /\ \A s \in Nat : s % p = 0 /\ t < s => t + p <= s
  BY NextMultiple
<1>2. M \in SUBSET Nat /\ t + p \in M /\ \A s \in M : t < s => t + p <= s
  BY <1>1
<1>3. \A s \in 0..end : s % p = 0 => s \in M /\ s <= end
  OBVIOUS
<1>4. \A s \in M : s % p = 0
  OBVIOUS
<1> HIDE DEF M
<1>5. /\ d # None => d \in M /\ d \in 1..end /\ t < d
      /\ \A s \in M : t < s /\ s <= end => d # None /\ d <= s
  BY <1>2, NextAmong
<1> HIDE DEF d
<1>6. d # None => d \in 1..end /\ d % p = 0 /\ t < d
  BY <1>4, <1>5, Zenon
<1>7. \A s \in 0..end : s % p = 0 /\ t < s => d # None /\ d <= s
  BY <1>3, <1>5, Zenon
<1> QED
  BY <1>6, <1>7 DEF d

-----------------------------------------------------------------------------
(* The calls of a schedule.                                                *)
LastCall(p) == Call(IF p.frames = <<>> THEN 0 ELSE Last(p.frames), 2, 0)

\* The cadences by rank: their periods, and where they begin.
Cadences == 3..6
Period(p, r) == IF r = 3 THEN p.avail ELSE IF r = 4 THEN p.poll
                ELSE IF r = 5 THEN p.sample ELSE p.tick
First(r) == IF r = 3 THEN 1 ELSE 0

LEMMA CallFields ==
  ASSUME NEW t, NEW r, NEW k
  PROVE  Call(t, r, k).time = t /\ Call(t, r, k).rank = r /\ Call(t, r, k).nth = k
BY DEF Call

LEMMA SameCall ==
  ASSUME NEW t, NEW r, NEW k, NEW u, NEW s, NEW j
  PROVE  Call(t, r, k) = Call(u, s, j) <=> t = u /\ r = s /\ k = j
BY CallFields

LEMMA FrameFacts ==
  ASSUME NEW p, PlanFine(p)
  PROVE  /\ DOMAIN p.frames = 1..Len(p.frames) /\ Len(p.frames) \in Nat
         /\ \A i \in DOMAIN p.frames : p.frames[i] \in Nat
         /\ \A i, j \in DOMAIN p.frames : i <= j => p.frames[i] <= p.frames[j]
         /\ p.frames = << >> <=> Len(p.frames) = 0
         /\ Last(p.frames) = p.frames[Len(p.frames)]
BY DEF PlanFine, FramesOk, Last

\* Which calls there are.
CallOf(p, c) ==
  \/ \E i \in DOMAIN p.frames : c = Call(p.frames[i], 1, i)
  \/ c = LastCall(p)
  \/ \E r \in Cadences, t \in Nat : /\ c = Call(t, r, 0) /\ Period(p, r) # None
                                    /\ t \in First(r)..p.end /\ t % Period(p, r) = 0

LEMMA CallsAre ==
  ASSUME NEW p, Runs(p), NEW c
  PROVE  c \in Calls(p) <=> CallOf(p, c)
<1>0. /\ p.end \in Nat /\ p.avail \in Nat /\ p.poll \in Nat /\ p.tick \in Nat
      /\ p.sample \in Nat \cup {None}
  BY DEF Runs, PlanFine
<1>1. Cadences = {3, 4, 5, 6}
  BY DEF Cadences
<1>2. ASSUME NEW r \in Cadences, NEW b
      PROVE  c \in EveryMultiple(r, b, First(r)..p.end)
               <=> \E t \in First(r)..p.end : t % b = 0 /\ c = Call(t, r, 0)
  BY DEF EveryMultiple
<1>3. \A r \in Cadences : First(r) \in Nat /\ \A t \in First(r)..p.end : t \in Nat
  BY <1>0 DEF First
<1>4. /\ Period(p, 3) = p.avail /\ Period(p, 4) = p.poll /\ Period(p, 5) = p.sample
      /\ Period(p, 6) = p.tick /\ First(3) = 1 /\ First(4) = 0 /\ First(5) = 0 /\ First(6) = 0
  BY DEF Period, First
<1>5. p.avail # None /\ p.poll # None /\ p.tick # None
  BY <1>0 DEF None
<1>6. c \in Calls(p) <=>
        \/ \E i \in DOMAIN p.frames : c = Call(p.frames[i], 1, i)
        \/ c = LastCall(p)
        \/ c \in EveryMultiple(3, Period(p, 3), First(3)..p.end)
        \/ c \in EveryMultiple(4, Period(p, 4), First(4)..p.end)
        \/ Period(p, 5) # None /\ c \in EveryMultiple(5, Period(p, 5), First(5)..p.end)
        \/ c \in EveryMultiple(6, Period(p, 6), First(6)..p.end)
  BY <1>4 DEF Calls, LastCall
<1> DEFINE Cad(r) == Period(p, r) # None /\ c \in EveryMultiple(r, Period(p, r), First(r)..p.end)
<1>7. \A r \in Cadences : Cad(r) <=> \E t \in Nat : /\ c = Call(t, r, 0) /\ Period(p, r) # None
                               /\ t \in First(r)..p.end /\ t % Period(p, r) = 0
  BY <1>2, <1>3
<1>8. c \in Calls(p) <=>
        \/ \E i \in DOMAIN p.frames : c = Call(p.frames[i], 1, i)
        \/ c = LastCall(p)
        \/ Cad(3) \/ Cad(4) \/ Cad(5) \/ Cad(6)
  BY <1>4, <1>5, <1>6
<1> HIDE DEF Cad
<1>9. c \in Calls(p) <=>
        \/ \E i \in DOMAIN p.frames : c = Call(p.frames[i], 1, i)
        \/ c = LastCall(p)
        \/ \E r \in Cadences : Cad(r)
  BY <1>1, <1>8
<1> QED
  BY <1>7, <1>9 DEF CallOf

\* What a call is, read off its rank.
LEMMA CallShape ==
  ASSUME NEW p, Runs(p), NEW c \in Calls(p)
  PROVE  /\ c.time \in Nat /\ c.rank \in 1..6 /\ c.nth \in Nat
         /\ c = Call(c.time, c.rank, c.nth)
         /\ c.rank = 1 => c.nth \in DOMAIN p.frames /\ c.time = p.frames[c.nth]
         /\ c.rank = 2 => c = LastCall(p)
         /\ c.rank # 1 => c.nth = 0
         /\ c.rank \in Cadences => /\ Period(p, c.rank) # None /\ c.time \in First(c.rank)..p.end
                                   /\ c.time % Period(p, c.rank) = 0
<1>0. PlanFine(p) /\ CallOf(p, c)
  BY CallsAre DEF Runs
<1>1. CASE \E i \in DOMAIN p.frames : c = Call(p.frames[i], 1, i)
  <2>1. PICK i \in DOMAIN p.frames : c = Call(p.frames[i], 1, i)
    BY <1>1
  <2>2. c.time = p.frames[i] /\ c.rank = 1 /\ c.nth = i
    BY <2>1, CallFields
  <2>3. i \in Nat /\ p.frames[i] \in Nat
    BY <1>0, FrameFacts
  <2> QED
    BY <2>1, <2>2, <2>3 DEF Cadences
<1>2. CASE c = LastCall(p)
  <2>1. c.rank = 2 /\ c.nth = 0 /\ c.time = IF p.frames = <<>> THEN 0 ELSE Last(p.frames)
    BY <1>2, CallFields DEF LastCall
  <2>2. c.time \in Nat
    <3>1. p.frames # << >> => Len(p.frames) \in DOMAIN p.frames
      BY <1>0, FrameFacts
    <3> QED
      BY <1>0, <2>1, <3>1, FrameFacts
  <2> QED
    BY <1>2, <2>1, <2>2, CallFields DEF Cadences, LastCall
<1>3. CASE \E r \in Cadences, t \in Nat :
             /\ c = Call(t, r, 0) /\ Period(p, r) # None
             /\ t \in First(r)..p.end /\ t % Period(p, r) = 0
  <2>1. PICK r \in Cadences, t \in Nat :
             /\ c = Call(t, r, 0) /\ Period(p, r) # None
             /\ t \in First(r)..p.end /\ t % Period(p, r) = 0
    BY <1>3
  <2>2. c.time = t /\ c.rank = r /\ c.nth = 0
    BY <2>1, CallFields
  <2>3. r \in 1..6 /\ r # 1 /\ r # 2
    BY DEF Cadences
  <2> QED
    BY <2>1, <2>2, <2>3
<1> QED
  BY <1>0, <1>1, <1>2, <1>3 DEF CallOf

LEMMA CadenceCalls ==
  ASSUME NEW p, Runs(p), NEW r \in Cadences, NEW t
  PROVE  Call(t, r, 0) \in Calls(p) <=> /\ Period(p, r) # None /\ t \in First(r)..p.end
                                        /\ t % Period(p, r) = 0
<1>1. ASSUME Call(t, r, 0) \in Calls(p)
      PROVE  Period(p, r) # None /\ t \in First(r)..p.end /\ t % Period(p, r) = 0
  BY <1>1, CallShape, CallFields
<1>2. ASSUME Period(p, r) # None, t \in First(r)..p.end, t % Period(p, r) = 0
      PROVE  Call(t, r, 0) \in Calls(p)
  <2>1. t \in Nat
    BY <1>2 DEF First, Runs, PlanFine
  <2>2. CallOf(p, Call(t, r, 0))
    BY <1>2, <2>1 DEF CallOf
  <2> QED
    BY <2>2, CallsAre
<1> QED
  BY <1>1, <1>2

LEMMA OtherCalls ==
  ASSUME NEW p, Runs(p)
  PROVE  /\ LastCall(p) \in Calls(p) /\ LastCall(p).rank = 2
         /\ \A i \in DOMAIN p.frames : Call(p.frames[i], 1, i) \in Calls(p)
         /\ \A t, i : Call(t, 1, i) \in Calls(p) <=> i \in DOMAIN p.frames /\ t = p.frames[i]
<1>1. LastCall(p) \in Calls(p) /\ \A i \in DOMAIN p.frames : Call(p.frames[i], 1, i) \in Calls(p)
  BY CallsAre DEF CallOf
<1>2. LastCall(p).rank = 2
  BY CallFields DEF LastCall
<1>3. ASSUME NEW t, NEW i, Call(t, 1, i) \in Calls(p)
      PROVE  i \in DOMAIN p.frames /\ t = p.frames[i]
  BY <1>3, CallShape, CallFields
<1> QED
  BY <1>1, <1>2, <1>3

-----------------------------------------------------------------------------
(* How many calls there are.                                               *)

LEMMA Quotient ==
  ASSUME NEW b \in Nat \ {0}, NEW e \in Nat
  PROVE  e \div b \in Nat /\ \A k \in Nat : k * b <= e <=> k <= e \div b
OBVIOUS

LEMMA MultipleCount ==
  ASSUME NEW r, NEW b \in Nat \ {0}, NEW e \in Nat, NEW a \in {0, 1}
  PROVE  LET S == EveryMultiple(r, b, a..e)
         IN  IsFiniteSet(S) /\ Cardinality(S) = (e \div b) + 1 - a
<1> DEFINE S == EveryMultiple(r, b, a..e)
           n == e \div b
           f == [k \in a..n |-> Call(k * b, r, 0)]
<1>1. n \in Nat /\ \A k \in Nat : k * b <= e <=> k <= n
  BY Quotient
<1>2. \A k \in Nat : k * b \in Nat /\ (a <= k => a <= k * b)
  OBVIOUS
<1> HIDE DEF n
<1>3. \A k \in a..n : k * b \in a..e /\ k \in Nat
  BY <1>1, <1>2
<1>4. \A k, j \in Nat : k * b = j * b => k = j
  OBVIOUS
<1>5. f \in [a..n -> S]
  <2> SUFFICES ASSUME NEW k \in a..n PROVE Call(k * b, r, 0) \in S
    OBVIOUS
  <2>1. k * b \in a..e /\ (k * b) % b = 0
    <3>1. k * b \in Nat
      BY <1>2, <1>3
    <3> QED
      BY <1>3, <3>1, MultipleOf
  <2> QED
    BY <2>1 DEF EveryMultiple
<1>6. \A k, j \in a..n : f[k] = f[j] => k = j
  <2> SUFFICES ASSUME NEW k \in a..n, NEW j \in a..n, f[k] = f[j] PROVE k = j
    OBVIOUS
  <2>1. Call(k * b, r, 0) = Call(j * b, r, 0)
    OBVIOUS
  <2>2. k * b = j * b
    BY <2>1, SameCall
  <2> QED
    BY <1>3, <1>4, <2>2
<1>7. \A s \in S : \E k \in a..n : f[k] = s
  <2> SUFFICES ASSUME NEW s \in S PROVE \E k \in a..n : f[k] = s
    OBVIOUS
  <2>1. PICK t \in a..e : t % b = 0 /\ s = Call(t, r, 0)
    BY DEF EveryMultiple
  <2>2. t \in Nat
    OBVIOUS
  <2>3. PICK k \in Nat : t = k * b
    BY <2>1, <2>2, MultipleOf
  <2>4. k * b <= e /\ a <= k * b
    BY <2>3
  <2>5. k <= n
    BY <1>1, <2>4
  <2>6. a <= k
    <3>1. CASE k = 0
      <4>1. k * b = 0
        BY <3>1
      <4> QED
        BY <2>4, <4>1, <3>1
    <3>2. CASE k # 0
      BY <3>2
    <3> QED
      BY <3>1, <3>2
  <2>7. k \in a..n
    BY <1>1, <2>5, <2>6
  <2> QED
    BY <2>1, <2>3, <2>7
<1> HIDE DEF f, S
<1>8. ExistsBijection(a..n, S)
  BY <1>5, <1>6, <1>7 DEF ExistsBijection, Bijection, Injection, Surjection, IsInjective
<1>9. IsFiniteSet(a..n) /\ Cardinality(a..n) = n + 1 - a
  BY <1>1, FS_Interval
<1>10. IsFiniteSet(S) /\ Cardinality(S) = n + 1 - a
  BY <1>8, <1>9, FS_Bijection
<1> QED
  BY <1>10 DEF S, n

\* The calls of one cadence, and their number.
CadenceSet(p, r) ==
  IF Period(p, r) = None THEN {} ELSE EveryMultiple(r, Period(p, r), First(r)..p.end)
Count(p, r) == IF Period(p, r) = None THEN 0 ELSE p.end \div Period(p, r) + 1 - First(r)

LEMMA CadenceCount ==
  ASSUME NEW p, Runs(p), NEW r \in Cadences
  PROVE  /\ IsFiniteSet(CadenceSet(p, r)) /\ Cardinality(CadenceSet(p, r)) = Count(p, r)
         /\ Count(p, r) \in Nat
         /\ \A c : c \in CadenceSet(p, r) <=> c \in Calls(p) /\ c.rank = r
<1> DEFINE b == Period(p, r)
<1>0. b = None \/ b \in Nat \ {0}
  BY DEF Runs, PlanFine, Period, None
<1>1. p.end \in Nat /\ First(r) \in {0, 1}
  BY DEF Runs, PlanFine, First
<1>2. ASSUME NEW c PROVE c \in CadenceSet(p, r) <=> c \in Calls(p) /\ c.rank = r
  <2>1. ASSUME c \in CadenceSet(p, r) PROVE c \in Calls(p) /\ c.rank = r
    <3>1. PICK t \in First(r)..p.end : b # None /\ t % b = 0 /\ c = Call(t, r, 0)
      BY <2>1 DEF CadenceSet, EveryMultiple
    <3> QED
      BY <3>1, CadenceCalls, CallFields
  <2>2. ASSUME c \in Calls(p), c.rank = r PROVE c \in CadenceSet(p, r)
    <3>1. c.rank # 1
      BY <2>2 DEF Cadences
    <3>2. c = Call(c.time, r, 0) /\ b # None /\ c.time \in First(r)..p.end /\ c.time % b = 0
      BY <2>2, <3>1, CallShape
    <3> QED
      BY <3>2 DEF CadenceSet, EveryMultiple
  <2> QED
    BY <2>1, <2>2
<1> HIDE DEF b
<1>3. CASE b = None
  <2>1. CadenceSet(p, r) = {} /\ Count(p, r) = 0
    BY <1>3 DEF CadenceSet, Count, b
  <2> QED
    BY <1>2, <2>1, FS_EmptySet
<1>4. CASE b \in Nat \ {0}
  <2>1. CadenceSet(p, r) = EveryMultiple(r, b, First(r)..p.end)
        /\ Count(p, r) = p.end \div b + 1 - First(r)
    BY <1>4 DEF CadenceSet, Count, b, None
  <2>2. p.end \div b \in Nat
    BY <1>1, <1>4, Quotient
  <2>3. Count(p, r) \in Nat
    <3>1. \A n \in Nat : n + 1 - First(r) \in Nat
      BY <1>1
    <3> QED
      BY <2>1, <2>2, <3>1
  <2>4. /\ IsFiniteSet(EveryMultiple(r, b, First(r)..p.end))
        /\ Cardinality(EveryMultiple(r, b, First(r)..p.end)) = p.end \div b + 1 - First(r)
    BY <1>1, <1>4, MultipleCount
  <2> QED
    BY <1>2, <2>1, <2>3, <2>4
<1> QED
  BY <1>0, <1>3, <1>4

\* Sets with nothing in common add up.
LEMMA Apart ==
  ASSUME NEW S, NEW T, IsFiniteSet(S), IsFiniteSet(T), S \cap T = {}
  PROVE  IsFiniteSet(S \cup T) /\ Cardinality(S \cup T) = Cardinality(S) + Cardinality(T)
<1>1. Cardinality(S \cap T) = 0 /\ Cardinality(S) \in Nat /\ Cardinality(T) \in Nat
  BY FS_EmptySet, FS_CardinalityType
<1>2. /\ IsFiniteSet(S \cup T)
      /\ Cardinality(S \cup T) = Cardinality(S) + Cardinality(T) - Cardinality(S \cap T)
  BY FS_Union
<1> QED
  BY <1>1, <1>2

\* Generated calls are those that are not frames.
Generated(p) == {c \in Calls(p) : Kinds[c.rank] # "Frame"}

LEMMA GeneratedCount ==
  ASSUME NEW p, Runs(p)
  PROVE  /\ IsFiniteSet(Generated(p))
         /\ Cardinality(Generated(p)) = 1 + Count(p, 3) + Count(p, 4) + Count(p, 5) + Count(p, 6)
<1> DEFINE L == {LastCall(p)}
           S(r) == CadenceSet(p, r)
<1>1. \A c \in Calls(p) : c.rank \in 1..6 /\ (Kinds[c.rank] # "Frame" <=> c.rank # 1)
  <2>1. \A r \in 1..6 : Kinds[r] # "Frame" <=> r # 1
    BY DEF Kinds
  <2> QED
    BY <2>1, CallShape
<1>2. \A c : c \in L <=> c \in Calls(p) /\ c.rank = 2
  BY OtherCalls, CallShape
<1>3. \A r \in Cadences : /\ IsFiniteSet(S(r)) /\ Cardinality(S(r)) = Count(p, r)
                          /\ Count(p, r) \in Nat
                          /\ \A c : c \in S(r) <=> c \in Calls(p) /\ c.rank = r
  BY CadenceCount
<1>4. IsFiniteSet(L) /\ Cardinality(L) = 1
  BY FS_Singleton
<1> HIDE DEF L, S
<1>5. 3 \in Cadences /\ 4 \in Cadences /\ 5 \in Cadences /\ 6 \in Cadences
  BY DEF Cadences
<1> DEFINE T3 == L \cup S(3)
           T4 == T3 \cup S(4)
           T5 == T4 \cup S(5)
           T6 == T5 \cup S(6)
<1>6. IsFiniteSet(T3) /\ Cardinality(T3) = 1 + Count(p, 3)
  <2>1. L \cap S(3) = {}
    BY <1>2, <1>3, <1>5
  <2> QED
    BY <1>3, <1>4, <1>5, <2>1, Apart
<1>7. IsFiniteSet(T4) /\ Cardinality(T4) = 1 + Count(p, 3) + Count(p, 4)
  <2>1. T3 \cap S(4) = {}
    BY <1>2, <1>3, <1>5
  <2> HIDE DEF T3
  <2>2. /\ IsFiniteSet(T3 \cup S(4))
        /\ Cardinality(T3 \cup S(4)) = Cardinality(T3) + Cardinality(S(4))
    BY <1>3, <1>5, <1>6, <2>1, Apart
  <2> QED
    BY <1>3, <1>5, <1>6, <2>2
<1>8. IsFiniteSet(T5) /\ Cardinality(T5) = 1 + Count(p, 3) + Count(p, 4) + Count(p, 5)
  <2>1. T4 \cap S(5) = {}
    BY <1>2, <1>3, <1>5
  <2> HIDE DEF T4
  <2>2. /\ IsFiniteSet(T4 \cup S(5))
        /\ Cardinality(T4 \cup S(5)) = Cardinality(T4) + Cardinality(S(5))
    BY <1>3, <1>5, <1>7, <2>1, Apart
  <2> QED
    BY <1>3, <1>5, <1>7, <2>2
<1>9. /\ IsFiniteSet(T6)
      /\ Cardinality(T6) = 1 + Count(p, 3) + Count(p, 4) + Count(p, 5) + Count(p, 6)
  <2>1. T5 \cap S(6) = {}
    BY <1>2, <1>3, <1>5
  <2> HIDE DEF T5
  <2>2. /\ IsFiniteSet(T5 \cup S(6))
        /\ Cardinality(T5 \cup S(6)) = Cardinality(T5) + Cardinality(S(6))
    BY <1>3, <1>5, <1>8, <2>1, Apart
  <2> QED
    BY <1>3, <1>5, <1>8, <2>2
<1>10. Generated(p) = T6
  <2>1. \A c : c \in T6 <=> c \in Calls(p) /\ c.rank \in {2, 3, 4, 5, 6}
    BY <1>2, <1>3, <1>5
  <2>2. \A r \in 1..6 : r # 1 <=> r \in {2, 3, 4, 5, 6}
    OBVIOUS
  <2> HIDE DEF T6
  <2> QED
    BY <1>1, <2>1, <2>2 DEF Generated
<1> HIDE DEF T6
<1> QED
  BY <1>9, <1>10

LEMMA CallsFinite == ASSUME NEW p, Runs(p) PROVE IsFiniteSet(Calls(p))
<1> DEFINE F == {Call(p.frames[i], 1, i) : i \in DOMAIN p.frames}
<1>1. IsFiniteSet(F)
  <2>1. DOMAIN p.frames = 1..Len(p.frames) /\ Len(p.frames) \in Nat
    BY FrameFacts DEF Runs
  <2>2. IsFiniteSet(DOMAIN p.frames)
    BY <2>1, FS_Interval
  <2> DEFINE g == [i \in DOMAIN p.frames |-> Call(p.frames[i], 1, i)]
  <2>3. g \in Surjection(DOMAIN p.frames, F)
    BY DEF Surjection
  <2> HIDE DEF g, F
  <2> QED
    BY <2>2, <2>3, FS_Surjection
<1>2. Calls(p) = F \cup Generated(p)
  <2>1. \A c : c \in F <=> c \in Calls(p) /\ c.rank = 1
    <3>1. \A c \in F : c \in Calls(p) /\ c.rank = 1
      BY OtherCalls, CallFields
    <3>2. \A c \in Calls(p) : c.rank = 1 => c \in F
      BY CallShape
    <3> QED
      BY <3>1, <3>2
  <2>2. \A r \in 1..6 : Kinds[r] # "Frame" <=> r # 1
    BY DEF Kinds
  <2> HIDE DEF F
  <2>3. \A c \in Calls(p) : c.rank \in 1..6
    BY CallShape
  <2> QED
    BY <2>1, <2>2, <2>3 DEF Generated
<1> HIDE DEF F
<1> QED
  BY <1>1, <1>2, GeneratedCount, FS_Union

\* The budget is exact: it is the number of generated calls.
LEMMA BudgetIsDemand ==
  ASSUME NEW p, Runs(p)
  PROVE  FitsEventBudget(p) <=> Cardinality(Generated(p)) <= MaxEvents
<1> DEFINE a == p.end \div p.avail
           t == p.end \div p.tick
           l == p.end \div p.poll
           s == p.end \div p.sample
           c == Count(p, 5)
<1>0. /\ p.end \in Nat /\ p.avail \in Nat \ {0} /\ p.poll \in Nat \ {0} /\ p.tick \in Nat \ {0}
      /\ p.sample \in (Nat \ {0}) \cup {None}
  BY DEF Runs, PlanFine, None
<1>1. a \in Nat /\ t \in Nat /\ l \in Nat /\ (p.sample # None => s \in Nat)
  BY <1>0, Quotient
<1>2. FitsEventBudget(p) <=>
        /\ MaxEvents - 1 - a >= 0 /\ t < MaxEvents - 1 - a /\ l < MaxEvents - 1 - a - (t + 1)
        /\ p.sample # None => s < MaxEvents - 1 - a - (t + 1) - (l + 1)
  BY DEF FitsEventBudget
<1>3. c = IF p.sample = None THEN 0 ELSE s + 1 - 0
  BY DEF Count, Period, First
<1>4. Count(p, 3) = a + 1 - 1 /\ Count(p, 4) = l + 1 - 0 /\ Count(p, 6) = t + 1 - 0
  BY <1>0 DEF Count, Period, First, None
<1>5. Cardinality(Generated(p)) = 1 + Count(p, 3) + Count(p, 4) + c + Count(p, 6)
  BY GeneratedCount
<1>6. MaxEvents \in Nat
  BY ReplayAssumption
<1> HIDE DEF a, t, l, s, c
<1>7. Cardinality(Generated(p)) = 1 + a + (l + 1) + c + (t + 1)
  BY <1>1, <1>4, <1>5
<1>8. CASE p.sample = None
  <2>1. c = 0
    BY <1>3, <1>8
  <2> QED
    BY <1>1, <1>2, <1>6, <1>7, <1>8, <2>1
<1>9. CASE p.sample # None
  <2>1. c = s + 1 /\ s \in Nat
    BY <1>1, <1>3, <1>9
  <2> QED
    BY <1>1, <1>2, <1>6, <1>7, <1>9, <2>1
<1> QED
  BY <1>8, <1>9

\* validate() for a capture that loaded.
LEMMA ValidatedPlan ==
  ASSUME NEW p, PlanFine(p)
  PROVE  /\ Validate(p) = "Ok" => Runs(p) /\ Cardinality(Generated(p)) <= MaxEvents
         /\ (/\ Validate(p) = "InvalidOptions" /\ 0 \notin {p.avail, p.poll, p.tick, p.sample}
             /\ \A i \in DOMAIN p.frames : p.frames[i] <= p.end)
            => Cardinality(Generated(p)) > MaxEvents
<1>0. p.end \in Nat /\ FramesOk(p.frames)
  BY DEF PlanFine
<1>1. p.frames # << >> => Len(p.frames) \in DOMAIN p.frames
  BY FrameFacts
<1>2. ASSUME Validate(p) = "Ok" PROVE Runs(p) /\ FitsEventBudget(p)
  <2>1. /\ 0 \notin {p.avail, p.tick, p.poll, p.sample} /\ FitsEventBudget(p)
        /\ ~(p.frames # <<>> /\ Last(p.frames) > p.end)
    BY <1>2 DEF Validate
  <2>2. ASSUME NEW i \in DOMAIN p.frames PROVE p.frames[i] <= p.end
    <3>1. p.frames # << >> /\ i <= Len(p.frames) /\ i \in Nat
      BY FrameFacts
    <3>2. p.frames[i] <= Last(p.frames) /\ p.frames[i] \in Nat /\ Last(p.frames) \in Nat
      BY <1>1, <3>1, FrameFacts
    <3> QED
      BY <1>0, <2>1, <3>1, <3>2
  <2> QED
    BY <2>1, <2>2 DEF Runs
<1>3. ASSUME Validate(p) = "InvalidOptions", 0 \notin {p.avail, p.poll, p.tick, p.sample},
             \A i \in DOMAIN p.frames : p.frames[i] <= p.end
      PROVE  Runs(p) /\ ~FitsEventBudget(p)
  <2>1. Runs(p)
    BY <1>3 DEF Runs
  <2>2. ~(p.frames # <<>> /\ Last(p.frames) > p.end)
    <3> SUFFICES ASSUME p.frames # << >> PROVE ~(Last(p.frames) > p.end)
      OBVIOUS
    <3>1. Last(p.frames) \in Nat /\ Last(p.frames) <= p.end
      BY <1>1, <1>3, FrameFacts
    <3> QED
      BY <1>0, <3>1
  <2>3. ~FitsEventBudget(p)
    BY <1>3, <2>2 DEF Validate
  <2> QED
    BY <2>1, <2>3
<1>4. MaxEvents \in Nat
  BY ReplayAssumption
<1>5. Runs(p) => Cardinality(Generated(p)) \in Nat
  BY GeneratedCount, FS_CardinalityType
<1> QED
  BY <1>2, <1>3, <1>4, <1>5, BudgetIsDemand

-----------------------------------------------------------------------------
(* A place in the schedule, and what run_replay() knows when it is there.  *)

LEMMA EarlierFields ==
  ASSUME NEW t, NEW r, NEW k, NEW u, NEW s, NEW j
  PROVE  Earlier(Call(t, r, k), Call(u, s, j)) <=>
           t < u \/ (t = u /\ (r < s \/ (r = s /\ k < j)))
BY CallFields DEF Earlier

\* A deadline v of cadence r is the next of its calls.
FirstDue(p, v, r, at) ==
  /\ v # None => Call(v, r, 0) \in Calls(p) /\ ~Earlier(Call(v, r, 0), at)
  /\ \A c \in Calls(p) : c.rank = r /\ ~Earlier(c, at) => v # None /\ v <= c.time

Deadline(cd, r) == IF r = 3 THEN cd.avail ELSE IF r = 4 THEN cd.poll
                   ELSE IF r = 5 THEN cd.sample ELSE cd.tick

\* n is the next frame.
FramesAt(p, n, at) == \A i \in DOMAIN p.frames : Earlier(Call(p.frames[i], 1, i), at) <=> i < n

EosAt(p, eos, at) == eos <=> Earlier(LastCall(p), at)

DueAt(p, cd, at) == \A r \in Cadences : FirstDue(p, Deadline(cd, r), r, at)

\* What is recorded are the calls before this place, and they are behind the cursors.
Stand(p, ev, cd, n, at) ==
  /\ Len(ev) = Cardinality(EarlierThan(at, Calls(p)))
  /\ FramesAt(p, n, at) /\ EosAt(p, cd.eos, at) /\ DueAt(p, cd, at)

Names == {Kinds[r] : r \in 1..6}

\* Each event is a call in its place.
Listed(p, ev) ==
  /\ ev \in Seq(Nat \X Names)
  /\ \A i \in DOMAIN ev :
       \E c \in Calls(p) : /\ ev[i] = <<c.time, Kinds[c.rank]>>
                           /\ Cardinality(EarlierThan(c, Calls(p))) = i - 1

\* Nothing happens between two places.
Same(p, at, to) == \A c \in Calls(p) : Earlier(c, to) <=> Earlier(c, at)

LEMMA StandStays ==
  ASSUME NEW p, Runs(p), NEW ev, NEW cd, NEW n, NEW at, NEW to,
         Stand(p, ev, cd, n, at), Same(p, at, to)
  PROVE  Stand(p, ev, cd, n, to)
<1>1. EarlierThan(to, Calls(p)) = EarlierThan(at, Calls(p))
  BY DEF Same, EarlierThan
<1>2. FramesAt(p, n, to) /\ EosAt(p, cd.eos, to)
  BY OtherCalls DEF Same, Stand, FramesAt, EosAt
<1>3. ASSUME NEW r \in Cadences PROVE FirstDue(p, Deadline(cd, r), r, to)
  <2> DEFINE v == Deadline(cd, r)
  <2>1. FirstDue(p, v, r, at)
    BY DEF Stand, DueAt
  <2> HIDE DEF v
  <2>2. FirstDue(p, v, r, to)
    BY <2>1 DEF FirstDue, Same
  <2> QED
    BY <2>2 DEF v
<1> QED
  BY <1>1, <1>2, <1>3 DEF Stand, DueAt

\* One call, and the place after it.
Follows(p, c0, to) == \A c \in Calls(p) : Earlier(c, to) <=> Earlier(c, c0) \/ c = c0

\* The call is recorded, and its own cursor moves past it.
LEMMA StandMoves ==
  ASSUME NEW p, Runs(p), NEW ev, NEW cd, NEW n, NEW c0 \in Calls(p), NEW to, NEW cd2, NEW n2,
         Stand(p, ev, cd, n, c0), Listed(p, ev), Follows(p, c0, to),
         IF c0.rank = 1 THEN FramesAt(p, n2, to) ELSE n2 = n,
         IF c0.rank = 2 THEN cd2.eos ELSE cd2.eos = cd.eos,
         \A r \in Cadences : IF c0.rank = r THEN FirstDue(p, Deadline(cd2, r), r, to)
                                            ELSE Deadline(cd2, r) = Deadline(cd, r)
  PROVE  LET ev2 == Append(ev, <<c0.time, Kinds[c0.rank]>>)
         IN  Listed(p, ev2) /\ Stand(p, ev2, cd2, n2, to)
<1> DEFINE e == <<c0.time, Kinds[c0.rank]>>
           ev2 == Append(ev, e)
           A == EarlierThan(c0, Calls(p))
           B == EarlierThan(to, Calls(p))
<1>1. c0.time \in Nat /\ c0.rank \in 1..6
  BY CallShape
<1>2. e \in Nat \X Names
  BY <1>1 DEF Names
<1>3. ~Earlier(c0, c0)
  <2>1. c0.time \in Nat /\ c0.rank \in Nat /\ c0.nth \in Nat
    BY CallShape
  <2> QED
    BY <2>1 DEF Earlier
<1>4. B = A \cup {c0} /\ c0 \notin A
  BY <1>3 DEF EarlierThan, Follows
<1>5. IsFiniteSet(A)
  <2>1. A \in SUBSET Calls(p)
    BY DEF EarlierThan
  <2> HIDE DEF A
  <2> QED
    BY <2>1, CallsFinite, FS_Subset
<1>6. Cardinality(A) \in Nat /\ Cardinality(B) = Cardinality(A) + 1
  <2> HIDE DEF A, B
  <2> QED
    BY <1>4, <1>5, FS_AddElement, FS_CardinalityType
<1>7. Len(ev) = Cardinality(A)
  BY DEF Stand
<1> HIDE DEF e, A, B
<1>8. /\ ev2 \in Seq(Nat \X Names) /\ DOMAIN ev2 = 1..(Len(ev) + 1) /\ DOMAIN ev = 1..Len(ev)
      /\ Len(ev) \in Nat /\ Len(ev2) = Len(ev) + 1 /\ ev2[Len(ev) + 1] = e
      /\ \A i \in DOMAIN ev : ev2[i] = ev[i]
  <2>1. ev \in Seq(Nat \X Names)
    BY DEF Listed
  <2> QED
    BY <1>2, <2>1
<1> HIDE DEF ev2
<1>9. Listed(p, ev2)
  <2> SUFFICES ASSUME NEW i \in DOMAIN ev2
               PROVE  \E c \in Calls(p) : /\ ev2[i] = <<c.time, Kinds[c.rank]>>
                                          /\ Cardinality(EarlierThan(c, Calls(p))) = i - 1
    BY <1>8 DEF Listed
  <2>1. CASE i \in DOMAIN ev
    BY <1>8, <2>1 DEF Listed
  <2>2. CASE i = Len(ev) + 1
    <3>1. ev2[i] = <<c0.time, Kinds[c0.rank]>>
      BY <1>8, <2>2 DEF e
    <3>2. Cardinality(EarlierThan(c0, Calls(p))) = i - 1
      BY <1>6, <1>7, <1>8, <2>2 DEF A
    <3> QED
      BY <3>1, <3>2
  <2> QED
    BY <1>8, <2>1, <2>2
<1>10. Len(ev2) = Cardinality(B)
  BY <1>6, <1>7, <1>8
<1>11. FramesAt(p, n2, to)
  <2>1. CASE c0.rank = 1
    BY <2>1
  <2>2. CASE c0.rank # 1
    <3>1. ASSUME NEW i \in DOMAIN p.frames
          PROVE  Earlier(Call(p.frames[i], 1, i), to) <=> i < n2
      <4>1. Call(p.frames[i], 1, i) \in Calls(p) /\ Call(p.frames[i], 1, i) # c0
        BY <2>2, OtherCalls, CallFields
      <4>2. n2 = n
        BY <2>2
      <4> QED
        BY <4>1, <4>2 DEF Follows, Stand, FramesAt
    <3> QED
      BY <3>1 DEF FramesAt
  <2> QED
    BY <2>1, <2>2
<1>12. EosAt(p, cd2.eos, to)
  <2>1. CASE c0.rank = 2
    <3>1. c0 = LastCall(p)
      BY <2>1, CallShape
    <3> QED
      BY <2>1, <3>1 DEF EosAt, Follows
  <2>2. CASE c0.rank # 2
    <3>1. LastCall(p) \in Calls(p) /\ LastCall(p) # c0
      BY <2>2, OtherCalls
    <3> QED
      BY <2>2, <3>1 DEF EosAt, Follows, Stand
  <2> QED
    BY <2>1, <2>2
<1>13. ASSUME NEW r \in Cadences PROVE FirstDue(p, Deadline(cd2, r), r, to)
  <2>1. CASE c0.rank = r
    BY <2>1
  <2>2. CASE c0.rank # r
    <3> DEFINE v == Deadline(cd, r)
    <3>1. Deadline(cd2, r) = v /\ FirstDue(p, v, r, c0)
      BY <2>2 DEF Stand, DueAt
    <3> HIDE DEF v
    <3>2. Call(v, r, 0) # c0 /\ \A c \in Calls(p) : c.rank = r => c # c0
      BY <2>2, CallFields
    <3>3. FirstDue(p, v, r, to)
      BY <3>1, <3>2 DEF FirstDue, Follows
    <3> QED
      BY <3>1, <3>3
  <2> QED
    BY <2>1, <2>2
<1>14. Stand(p, ev2, cd2, n2, to)
  BY <1>10, <1>11, <1>12, <1>13 DEF Stand, DueAt, B
<1> QED
  BY <1>9, <1>14 DEF ev2, e

-----------------------------------------------------------------------------
(* The places that run_replay() goes through, one after the other.         *)

\* After what rank r does at a time comes rank r + 1, after frame k frame k + 1.
LEMMA RanksFollow ==
  ASSUME NEW p, Runs(p), NEW t \in Nat, NEW r \in 2..6
  PROVE  Follows(p, Call(t, r, 0), Call(t, r + 1, 0))
<1> SUFFICES ASSUME NEW c \in Calls(p)
             PROVE  Earlier(c, Call(t, r + 1, 0)) <=> Earlier(c, Call(t, r, 0)) \/ c = Call(t, r, 0)
  BY DEF Follows
<1>1. c = Call(c.time, c.rank, c.nth) /\ c.time \in Nat /\ c.rank \in Nat /\ c.nth \in Nat
      /\ (c.rank # 1 => c.nth = 0)
  BY CallShape
<1>2. c = Call(t, r, 0) <=> c.time = t /\ c.rank = r /\ c.nth = 0
  BY <1>1, SameCall
<1>3. /\ Earlier(c, Call(t, r + 1, 0)) <=>
           c.time < t \/ (c.time = t /\ (c.rank < r + 1 \/ (c.rank = r + 1 /\ c.nth < 0)))
      /\ Earlier(c, Call(t, r, 0)) <=>
           c.time < t \/ (c.time = t /\ (c.rank < r \/ (c.rank = r /\ c.nth < 0)))
  BY <1>1, EarlierFields
<1> QED
  BY <1>1, <1>2, <1>3

LEMMA FramesFollow ==
  ASSUME NEW p, Runs(p), NEW t \in Nat, NEW k \in Nat
  PROVE  Follows(p, Call(t, 1, k), Call(t, 1, k + 1))
<1> SUFFICES ASSUME NEW c \in Calls(p)
             PROVE  Earlier(c, Call(t, 1, k + 1)) <=> Earlier(c, Call(t, 1, k)) \/ c = Call(t, 1, k)
  BY DEF Follows
<1>1. c = Call(c.time, c.rank, c.nth) /\ c.time \in Nat /\ c.rank \in Nat /\ c.nth \in Nat
  BY CallShape
<1>2. c = Call(t, 1, k) <=> c.time = t /\ c.rank = 1 /\ c.nth = k
  BY <1>1, SameCall
<1>3. /\ Earlier(c, Call(t, 1, k + 1)) <=>
           c.time < t \/ (c.time = t /\ (c.rank < 1 \/ (c.rank = 1 /\ c.nth < k + 1)))
      /\ Earlier(c, Call(t, 1, k)) <=>
           c.time < t \/ (c.time = t /\ (c.rank < 1 \/ (c.rank = 1 /\ c.nth < k)))
  BY <1>1, EarlierFields
<1> QED
  BY <1>1, <1>2, <1>3

\* Where there is no call, its place is the next one.
LEMMA NoCallHere ==
  ASSUME NEW p, NEW c0, NEW to, Follows(p, c0, to), c0 \notin Calls(p)
  PROVE  Same(p, c0, to)
BY DEF Follows, Same

\* A deadline that is due now is a call, and only then.
LEMMA DueNow ==
  ASSUME NEW p, Runs(p), NEW v \in Int, NEW r \in Cadences, NEW t \in Nat,
         FirstDue(p, v, r, Call(t, r, 0))
  PROVE  v = t <=> Call(t, r, 0) \in Calls(p)
<1>1. ASSUME v = t PROVE Call(t, r, 0) \in Calls(p)
  BY <1>1 DEF FirstDue, None
<1>2. ASSUME Call(t, r, 0) \in Calls(p) PROVE v = t
  <2>1. ~Earlier(Call(t, r, 0), Call(t, r, 0))
    BY EarlierFields DEF Cadences
  <2>2. Call(t, r, 0).rank = r /\ Call(t, r, 0).time = t
    BY CallFields
  <2>3. v # None /\ v <= t /\ ~Earlier(Call(v, r, 0), Call(t, r, 0))
    BY <1>2, <2>1, <2>2 DEF FirstDue
  <2>4. ~(v < t)
    BY <2>3, EarlierFields
  <2> QED
    BY <2>3, <2>4
<1> QED
  BY <1>1, <1>2

\* The next deadline of a cadence is right after one of its calls.
LEMMA DeadlineFollows ==
  ASSUME NEW p, Runs(p), NEW r \in Cadences, NEW t \in Nat, Call(t, r, 0) \in Calls(p),
         NEW to, Follows(p, Call(t, r, 0), to)
  PROVE  FirstDue(p, NextDeadline(t, Period(p, r), p.end), r, to)
<1> DEFINE b == Period(p, r)
           v == NextDeadline(t, b, p.end)
           c0 == Call(t, r, 0)
<1>1. b # None /\ t \in First(r)..p.end /\ t % b = 0
  BY CadenceCalls
<1>2. b \in Nat \ {0} /\ p.end \in Nat
  BY <1>1 DEF Period, Runs, PlanFine
<1>3. t \in 0..p.end /\ \A s \in 1..p.end : s \in First(r)..p.end
  BY <1>1, <1>2 DEF First
<1>4. \A s \in First(r)..p.end : s \in 0..p.end
  BY <1>2 DEF First
<1> HIDE DEF b
<1>5. /\ v # None => v \in 1..p.end /\ v % b = 0 /\ t < v
      /\ \A s \in 0..p.end : s % b = 0 /\ t < s => v # None /\ v <= s
  BY <1>1, <1>2, <1>3, DeadlineIsNext
<1> HIDE DEF v, c0
<1>6. ASSUME v # None PROVE Call(v, r, 0) \in Calls(p) /\ ~Earlier(Call(v, r, 0), to)
  <2>1. Call(v, r, 0) \in Calls(p)
    BY <1>1, <1>3, <1>5, <1>6, CadenceCalls DEF b
  <2>2. v \in Int /\ t < v
    BY <1>5, <1>6
  <2>3. ~Earlier(Call(v, r, 0), c0)
    BY <2>2, EarlierFields DEF c0
  <2>4. Call(v, r, 0) # c0
    BY <2>2, SameCall DEF c0
  <2> QED
    BY <2>1, <2>3, <2>4 DEF Follows, c0
<1>7. ASSUME NEW c \in Calls(p), c.rank = r, ~Earlier(c, to) PROVE v # None /\ v <= c.time
  <2>1. ~Earlier(c, c0) /\ c # c0
    BY <1>7 DEF Follows, c0
  <2>2. c = Call(c.time, r, 0) /\ c.time \in First(r)..p.end /\ c.time % b = 0
    <3>1. r # 1
      BY DEF Cadences
    <3> QED
      BY <1>7, <3>1, CallShape DEF b
  <2>3. ~(c.time < t) /\ c.time # t
    BY <2>1, <2>2, EarlierFields DEF c0
  <2>4. c.time \in 0..p.end
    BY <1>4, <2>2
  <2>5. t < c.time
    BY <2>3, <2>4
  <2> QED
    BY <1>5, <2>2, <2>4, <2>5
<1>8. FirstDue(p, v, r, to)
  BY <1>6, <1>7 DEF FirstDue
<1> QED
  BY <1>8 DEF v, b

\* The frames of this time are over when the next one is not of this time.
LEMMA FrameIsCall ==
  ASSUME NEW p, Runs(p), NEW t \in Nat, NEW n \in 1..(Len(p.frames) + 1)
  PROVE  Call(t, 1, n) \in Calls(p) <=> n <= Len(p.frames) /\ p.frames[n] = t
<1>1. DOMAIN p.frames = 1..Len(p.frames) /\ Len(p.frames) \in Nat
  BY FrameFacts DEF Runs
<1> QED
  BY <1>1, OtherCalls

LEMMA FramesOver ==
  ASSUME NEW p, Runs(p), NEW t \in Nat, NEW n \in 1..(Len(p.frames) + 1),
         FramesAt(p, n, Call(t, 1, n)), Call(t, 1, n) \notin Calls(p)
  PROVE  Same(p, Call(t, 1, n), Call(t, 2, 0))
<1> SUFFICES ASSUME NEW c \in Calls(p)
             PROVE  Earlier(c, Call(t, 2, 0)) <=> Earlier(c, Call(t, 1, n))
  BY DEF Same
<1>0. /\ DOMAIN p.frames = 1..Len(p.frames) /\ Len(p.frames) \in Nat
      /\ \A i \in DOMAIN p.frames : p.frames[i] \in Nat
      /\ \A i, j \in DOMAIN p.frames : i <= j => p.frames[i] <= p.frames[j]
  BY FrameFacts DEF Runs
<1>1. /\ c = Call(c.time, c.rank, c.nth) /\ c.time \in Nat /\ c.rank \in 1..6 /\ c.nth \in Nat
      /\ c.rank # 1 => c.nth = 0
  BY CallShape
<1>2. /\ Earlier(c, Call(t, 2, 0)) <=>
           c.time < t \/ (c.time = t /\ (c.rank < 2 \/ (c.rank = 2 /\ c.nth < 0)))
      /\ Earlier(c, Call(t, 1, n)) <=>
           c.time < t \/ (c.time = t /\ (c.rank < 1 \/ (c.rank = 1 /\ c.nth < n)))
  BY <1>1, EarlierFields
<1>3. ASSUME c.time = t, c.rank = 1 PROVE c.nth < n
  <2> DEFINE i == c.nth
  <2>1. i \in DOMAIN p.frames /\ p.frames[i] = t
    BY <1>3, CallShape
  <2> SUFFICES ASSUME ~(i < n) PROVE FALSE
    OBVIOUS
  <2> HIDE DEF i
  <2>2. n \in DOMAIN p.frames /\ n <= i
    BY <1>0, <2>1
  <2>3. p.frames[n] # t
    BY <1>0, <2>2, FrameIsCall
  <2>4. p.frames[n] <= t /\ p.frames[n] \in Nat
    BY <1>0, <2>1, <2>2
  <2>5. Earlier(Call(p.frames[n], 1, n), Call(t, 1, n))
    BY <2>3, <2>4, EarlierFields
  <2>6. n < n
    BY <2>2, <2>5 DEF FramesAt
  <2> QED
    BY <2>6
<1> QED
  BY <1>1, <1>2, <1>3

\* The frames before this time are behind.
LEMMA FramesBegin ==
  ASSUME NEW p, Runs(p), NEW t \in Nat, NEW n \in 1..(Len(p.frames) + 1),
         FramesAt(p, n, Call(t, 0, 0))
  PROVE  Same(p, Call(t, 0, 0), Call(t, 1, n))
<1> SUFFICES ASSUME NEW c \in Calls(p)
             PROVE  Earlier(c, Call(t, 1, n)) <=> Earlier(c, Call(t, 0, 0))
  BY DEF Same
<1>1. /\ c = Call(c.time, c.rank, c.nth) /\ c.time \in Nat /\ c.rank \in 1..6 /\ c.nth \in Nat
      /\ c.rank # 1 => c.nth = 0
  BY CallShape
<1>2. /\ Earlier(c, Call(t, 0, 0)) <=>
           c.time < t \/ (c.time = t /\ (c.rank < 0 \/ (c.rank = 0 /\ c.nth < 0)))
      /\ Earlier(c, Call(t, 1, n)) <=>
           c.time < t \/ (c.time = t /\ (c.rank < 1 \/ (c.rank = 1 /\ c.nth < n)))
  BY <1>1, EarlierFields
<1>3. ASSUME c.time = t, c.rank = 1 PROVE ~(c.nth < n)
  <2>1. c.nth \in DOMAIN p.frames /\ c = Call(p.frames[c.nth], 1, c.nth)
    BY <1>1, <1>3, CallShape
  <2>2. ~Earlier(c, Call(t, 0, 0))
    BY <1>1, <1>2, <1>3
  <2> QED
    BY <2>1, <2>2 DEF FramesAt
<1> QED
  BY <1>1, <1>2, <1>3

\* The end of the stream comes with the last frame.
LEMMA StreamEnds ==
  ASSUME NEW p, Runs(p), NEW t \in Nat, NEW n \in 1..(Len(p.frames) + 1), NEW eos \in BOOLEAN,
         FramesAt(p, n, Call(t, 2, 0)), EosAt(p, eos, Call(t, 2, 0))
  PROVE  ~eos /\ n > Len(p.frames) <=> Call(t, 2, 0) \in Calls(p)
<1> DEFINE last == IF p.frames = <<>> THEN 0 ELSE Last(p.frames)
           m == Len(p.frames)
<1>0. /\ DOMAIN p.frames = 1..m /\ m \in Nat /\ (p.frames = << >> <=> m = 0)
      /\ \A i \in DOMAIN p.frames : p.frames[i] \in Nat
      /\ \A i, j \in DOMAIN p.frames : i <= j => p.frames[i] <= p.frames[j]
      /\ Last(p.frames) = p.frames[m]
  BY FrameFacts DEF Runs
<1>1. LastCall(p) = Call(last, 2, 0) /\ LastCall(p) \in Calls(p)
  BY OtherCalls DEF LastCall
<1>2. last \in Nat /\ (m # 0 => last = p.frames[m])
  BY <1>0
<1> HIDE DEF last, m
<1>3. Call(t, 2, 0) \in Calls(p) <=> t = last
  <2>1. Call(t, 2, 0) \in Calls(p) => Call(t, 2, 0) = LastCall(p)
    BY CallShape, CallFields
  <2> QED
    BY <1>1, <2>1, SameCall
<1>4. eos <=> last < t
  <2>1. Earlier(Call(last, 2, 0), Call(t, 2, 0)) <=> last < t
    BY <1>2, EarlierFields
  <2> QED
    BY <1>1, <2>1 DEF EosAt
<1>5. ASSUME NEW i \in 1..m PROVE i < n <=> p.frames[i] <= t
  <2>1. p.frames[i] \in Nat
    BY <1>0
  <2>2. Earlier(Call(p.frames[i], 1, i), Call(t, 2, 0)) <=> p.frames[i] <= t
    BY <2>1, EarlierFields
  <2> QED
    BY <1>0, <2>2 DEF FramesAt
<1>6. n \in 1..(m + 1)
  BY DEF m
<1>7. CASE m = 0
  BY <1>2, <1>3, <1>4, <1>6, <1>7, <1>0 DEF m, last
<1>8. CASE m # 0
  <2>1. m \in 1..m
    BY <1>0, <1>8
  <2>2. m < n <=> last <= t
    BY <1>2, <1>5, <1>8, <2>1
  <2> QED
    BY <1>0, <1>2, <1>3, <1>4, <1>6, <2>2 DEF m
<1> QED
  BY <1>7, <1>8

\* e is the earliest of what is due next.
IsEarliest(p, cd, n, e) ==
  LET frame == IF n > Len(p.frames) THEN None ELSE p.frames[n]
  IN  /\ e \in Int
      /\ e # None => e = frame \/ \E r \in Cadences : e = Deadline(cd, r)
      /\ frame # None => e # None /\ e <= frame
      /\ \A r \in Cadences : Deadline(cd, r) # None => e # None /\ e <= Deadline(cd, r)

LEMMA EarliestFound == ASSUME RecordInv PROVE IsEarliest(plan, cad, next, EarliestDue)
<1> DEFINE One(x) == {x} \ {None}
           S == One(NextFrameTime) \cup One(cad.avail) \cup One(cad.poll)
                  \cup One(cad.sample) \cup One(cad.tick)
<1>2. ASSUME NEW x \in Int PROVE HasLeast(One(x))
  BY DEF HasLeast
<1>3. {NextFrameTime, cad.avail, cad.poll, cad.sample, cad.tick} \subseteq Int
  BY DueIsTime DEF RecordInv, CadRecords
<1>4. {NextFrameTime, cad.avail, cad.poll, cad.sample, cad.tick} \ {None} = S
  OBVIOUS
<1>5. /\ HasLeast(One(NextFrameTime)) /\ HasLeast(One(cad.avail)) /\ HasLeast(One(cad.poll))
      /\ HasLeast(One(cad.sample)) /\ HasLeast(One(cad.tick))
  BY <1>2, <1>3
<1> HIDE DEF One
<1>6. HasLeast(S)
  BY <1>5, LeastOfUnion
<1>7. \A x : x \in S <=> /\ x # None
                         /\ x \in {NextFrameTime, cad.avail, cad.poll, cad.sample, cad.tick}
  BY <1>4
<1> HIDE DEF S
<1> DEFINE e == EarliestDue
<1>8. e = IF S = {} THEN None ELSE Min(S)
  BY <1>4 DEF EarliestDue
<1>9. /\ S # {} => Min(S) \in S /\ \A y \in S : Min(S) <= y
      /\ e \in Int
  BY <1>6, MinIsLeast, DueIsTime
<1> HIDE DEF e
<1>10. \A y \in S : e # None /\ e <= y
  BY <1>7, <1>8, <1>9
<1>11. e # None => e \in S
  BY <1>8, <1>9
<1>12. /\ Deadline(cad, 3) = cad.avail /\ Deadline(cad, 4) = cad.poll
       /\ Deadline(cad, 5) = cad.sample /\ Deadline(cad, 6) = cad.tick
  BY DEF Deadline
<1>13. Cadences = {3, 4, 5, 6}
  BY DEF Cadences
<1>14. \A r \in Cadences : Deadline(cad, r) # None => e # None /\ e <= Deadline(cad, r)
  <2>1. \A r \in Cadences : Deadline(cad, r) # None => Deadline(cad, r) \in S
    BY <1>7, <1>12, <1>13
  <2> QED
    BY <1>10, <2>1
<1>15. NextFrameTime # None => e # None /\ e <= NextFrameTime
  BY <1>7, <1>10
<1>16. e # None => e = NextFrameTime \/ \E r \in Cadences : e = Deadline(cad, r)
  BY <1>7, <1>11, <1>12, <1>13
<1> QED
  BY <1>9, <1>14, <1>15, <1>16 DEF IsEarliest, NextFrameTime, e

\* Where the loop looks for the earliest: at the start, and when a time is done with.
LoopPlace(cd, at) == at = Call(0, 0, 0) \/ (cd.due \in Nat /\ at = Call(cd.due, 7, 0))

\* No call comes before the earliest.
LEMMA EarliestIsNext ==
  ASSUME NEW p, Runs(p), NEW ev, NEW cd, NEW n \in 1..(Len(p.frames) + 1), NEW at,
         LoopPlace(cd, at), Stand(p, ev, cd, n, at), NEW e, IsEarliest(p, cd, n, e)
  PROVE  \A d \in Calls(p) : ~Earlier(d, at) => e # None /\ e <= d.time
<1> SUFFICES ASSUME NEW d \in Calls(p), ~Earlier(d, at) PROVE e # None /\ e <= d.time
  OBVIOUS
<1> DEFINE m == Len(p.frames)
           frame == IF n > m THEN None ELSE p.frames[n]
           last == IF p.frames = <<>> THEN 0 ELSE Last(p.frames)
<1>0. /\ DOMAIN p.frames = 1..m /\ m \in Nat /\ (p.frames = << >> <=> m = 0)
      /\ \A i \in DOMAIN p.frames : p.frames[i] \in Nat
      /\ \A i, j \in DOMAIN p.frames : i <= j => p.frames[i] <= p.frames[j]
      /\ Last(p.frames) = p.frames[m]
  BY FrameFacts DEF Runs
<1>1. e \in Int /\ (frame # None => e # None /\ e <= frame)
  BY DEF IsEarliest
<1>2. /\ d = Call(d.time, d.rank, d.nth) /\ d.time \in Nat /\ d.rank \in 1..6 /\ d.nth \in Nat
      /\ d.rank = 1 => d.nth \in 1..m /\ d.time = p.frames[d.nth]
      /\ d.rank = 2 => d = Call(last, 2, 0)
  BY <1>0, CallShape DEF LastCall
<1>3. ASSUME n <= m PROVE frame \in Nat /\ frame = p.frames[n] /\ n \in 1..m /\ e # None /\ e <= frame
  <2>1. n \in 1..m /\ frame = p.frames[n] /\ p.frames[n] \in Nat
    BY <1>0, <1>3
  <2> HIDE DEF frame
  <2> QED
    BY <1>1, <2>1 DEF None
<1> HIDE DEF frame, m, last
<1>4. n \in 1..(m + 1)
  BY DEF m
<1>5. CASE d.rank = 1
  <2> DEFINE i == d.nth
  <2>1. i \in 1..m /\ d = Call(p.frames[i], 1, i) /\ d.time = p.frames[i]
    BY <1>2, <1>5
  <2> HIDE DEF i
  <2>2. ~(i < n)
    BY <1>0, <2>1 DEF Stand, FramesAt
  <2>3. n <= m /\ n <= i
    BY <1>0, <1>4, <2>1, <2>2
  <2>4. e # None /\ e <= p.frames[n] /\ n \in 1..m
    BY <1>3, <2>3
  <2>5. p.frames[n] <= p.frames[i] /\ p.frames[n] \in Nat /\ p.frames[i] \in Nat
    BY <1>0, <2>1, <2>3, <2>4
  <2> QED
    BY <1>1, <2>1, <2>4, <2>5
<1>6. CASE d.rank = 2
  <2>1. d.time = last /\ last \in Nat /\ d = Call(last, 2, 0)
    BY <1>2, <1>6, CallFields
  <2>2. CASE n <= m
    <3>1. last = p.frames[m] /\ m \in 1..m
      BY <1>0, <1>4, <2>2 DEF last
    <3>2. e # None /\ e <= p.frames[n] /\ n \in 1..m
      BY <1>3, <2>2
    <3>3. p.frames[n] <= p.frames[m] /\ p.frames[n] \in Nat /\ p.frames[m] \in Nat
      BY <1>0, <2>2, <3>1, <3>2
    <3> QED
      BY <1>1, <2>1, <3>1, <3>2, <3>3
  <2>3. CASE n > m
    <3>1. \A i \in 1..m : Earlier(Call(p.frames[i], 1, i), at)
      <4>1. \A i \in 1..m : i < n
        BY <1>0, <1>4, <2>3
      <4> QED
        BY <1>0, <4>1 DEF Stand, FramesAt
    <3>2. CASE at = Call(0, 0, 0)
      <4>1. Call(0, 4, 0) \in Calls(p)
        <5>1. 0 % p.poll = 0
          <6>1. p.poll \in Nat \ {0}
            BY DEF Runs, PlanFine
          <6> QED
            BY <6>1
        <5>2. Period(p, 4) = p.poll /\ First(4) = 0 /\ 4 \in Cadences /\ p.poll # None
              /\ 0 \in 0..p.end
          BY DEF Period, First, Cadences, Runs, PlanFine, None
        <5> QED
          BY <5>1, <5>2, CadenceCalls
      <4>2. ~Earlier(Call(0, 4, 0), at)
        BY <3>2, EarlierFields
      <4>3. Deadline(cd, 4) # None /\ Deadline(cd, 4) <= 0
        <5>1. FirstDue(p, Deadline(cd, 4), 4, at)
          BY DEF Stand, DueAt, Cadences
        <5>2. Call(0, 4, 0).rank = 4 /\ Call(0, 4, 0).time = 0
          BY CallFields
        <5> QED
          BY <4>1, <4>2, <5>1, <5>2 DEF FirstDue
      <4>4. e # None /\ e <= Deadline(cd, 4) /\ Deadline(cd, 4) \in Int
        <5>1. FirstDue(p, Deadline(cd, 4), 4, at) /\ 4 \in Cadences
          BY DEF Stand, DueAt, Cadences
        <5>2. Call(Deadline(cd, 4), 4, 0) \in Calls(p)
          BY <4>3, <5>1 DEF FirstDue
        <5>3. Deadline(cd, 4) \in Nat
          BY <5>2, CallShape, CallFields
        <5> QED
          BY <4>3, <5>1, <5>3 DEF IsEarliest
      <4> QED
        BY <1>1, <2>1, <4>3, <4>4
    <3>3. CASE cd.due \in Nat /\ at = Call(cd.due, 7, 0)
      <4>1. ~(last <= cd.due)
        <5>1. Earlier(Call(last, 2, 0), at) <=> last <= cd.due
          BY <2>1, <3>3, EarlierFields
        <5> QED
          BY <2>1, <5>1
      <4>2. CASE m = 0
        BY <1>0, <3>3, <4>1, <4>2 DEF last
      <4>3. CASE m # 0
        <5>1. m \in 1..m /\ last = p.frames[m]
          BY <1>0, <4>3 DEF last
        <5>2. Earlier(Call(last, 1, m), Call(cd.due, 7, 0))
          BY <3>1, <3>3, <5>1
        <5>3. last <= cd.due
          BY <2>1, <3>3, <5>2, EarlierFields
        <5> QED
          BY <4>1, <5>3
      <4> QED
        BY <4>2, <4>3
    <3> QED
      BY <3>2, <3>3 DEF LoopPlace
  <2> QED
    BY <1>0, <1>4, <2>2, <2>3
<1>7. CASE d.rank \in Cadences
  <2> DEFINE v == Deadline(cd, d.rank)
  <2>1. FirstDue(p, v, d.rank, at) /\ (v # None => e # None /\ e <= v)
    BY <1>7 DEF Stand, DueAt, IsEarliest
  <2> HIDE DEF v
  <2>2. v # None /\ v <= d.time /\ Call(v, d.rank, 0) \in Calls(p)
    BY <2>1 DEF FirstDue
  <2>3. v \in Nat
    BY <2>2, CallShape, CallFields
  <2> QED
    BY <1>1, <1>2, <2>1, <2>2, <2>3
<1> QED
  BY <1>2, <1>5, <1>6, <1>7 DEF Cadences

\* What is earliest is a call.
LEMMA EarliestIsCall ==
  ASSUME NEW p, Runs(p), NEW ev, NEW cd, NEW n \in 1..(Len(p.frames) + 1), NEW at,
         Stand(p, ev, cd, n, at), NEW e, IsEarliest(p, cd, n, e), e # None
  PROVE  \E x \in Calls(p) : x.time = e /\ ~Earlier(x, at)
<1>1. CASE \E r \in Cadences : e = Deadline(cd, r)
  <2>1. PICK r \in Cadences : e = Deadline(cd, r)
    BY <1>1
  <2>2. Call(e, r, 0) \in Calls(p) /\ ~Earlier(Call(e, r, 0), at)
    BY <2>1 DEF Stand, DueAt, FirstDue
  <2> QED
    BY <2>2, CallFields
<1>2. CASE n <= Len(p.frames) /\ e = p.frames[n]
  <2>1. n \in DOMAIN p.frames /\ ~(n < n)
    BY <1>2, FrameFacts DEF Runs
  <2>2. Call(e, 1, n) \in Calls(p) /\ ~Earlier(Call(e, 1, n), at)
    BY <1>2, <2>1, OtherCalls DEF Stand, FramesAt
  <2> QED
    BY <2>2, CallFields
<1>3. Len(p.frames) \in Nat
  BY FrameFacts DEF Runs
<1> QED
  BY <1>1, <1>2, <1>3 DEF IsEarliest

LEMMA LoopMoves ==
  ASSUME NEW p, Runs(p), NEW ev, NEW cd, NEW n \in 1..(Len(p.frames) + 1), NEW at,
         LoopPlace(cd, at), Stand(p, ev, cd, n, at), NEW e, IsEarliest(p, cd, n, e)
  PROVE  IF e = None THEN Len(ev) = Cardinality(Calls(p))
                     ELSE e \in Nat /\ Stand(p, ev, cd, n, Call(e, 0, 0))
<1>1. \A d \in Calls(p) : ~Earlier(d, at) => e # None /\ e <= d.time
  BY EarliestIsNext
<1>2. CASE e = None
  <2>1. EarlierThan(at, Calls(p)) = Calls(p)
    BY <1>1, <1>2 DEF EarlierThan
  <2> QED
    BY <1>2, <2>1 DEF Stand
<1>3. CASE e # None
  <2>1. PICK x \in Calls(p) : x.time = e /\ ~Earlier(x, at)
    BY <1>3, EarliestIsCall
  <2>2. /\ x = Call(e, x.rank, x.nth) /\ e \in Nat /\ x.rank \in 1..6 /\ x.nth \in Nat
    BY <2>1, CallShape
  <2>3. ASSUME NEW c \in Calls(p) PROVE Earlier(c, Call(e, 0, 0)) <=> Earlier(c, at)
    <3>1. c = Call(c.time, c.rank, c.nth) /\ c.time \in Nat /\ c.rank \in 1..6 /\ c.nth \in Nat
      BY CallShape
    <3>2. Earlier(c, Call(e, 0, 0)) <=> c.time < e
      <4>1. Earlier(c, Call(e, 0, 0)) <=>
              c.time < e \/ (c.time = e /\ (c.rank < 0 \/ (c.rank = 0 /\ c.nth < 0)))
        BY <3>1, EarlierFields
      <4> QED
        BY <3>1, <4>1
    <3>3. c.time < e => Earlier(c, at)
      BY <1>1, <2>2, <3>1
    <3>4. ASSUME Earlier(c, at) PROVE c.time < e
      <4>1. CASE at = Call(0, 0, 0)
        <5>1. Earlier(c, at) <=>
                c.time < 0 \/ (c.time = 0 /\ (c.rank < 0 \/ (c.rank = 0 /\ c.nth < 0)))
          BY <3>1, <4>1, EarlierFields
        <5> QED
          BY <3>1, <3>4, <5>1
      <4>2. CASE cd.due \in Nat /\ at = Call(cd.due, 7, 0)
        <5>1. /\ Earlier(c, at) <=> c.time < cd.due \/ (c.time = cd.due /\ (c.rank < 7
                                                          \/ (c.rank = 7 /\ c.nth < 0)))
              /\ Earlier(x, at) <=> e < cd.due \/ (e = cd.due /\ (x.rank < 7
                                                          \/ (x.rank = 7 /\ x.nth < 0)))
          BY <2>2, <3>1, <4>2, EarlierFields
        <5>2. c.time <= cd.due /\ cd.due < e
          BY <2>1, <2>2, <3>1, <3>4, <4>2, <5>1
        <5> QED
          BY <2>2, <3>1, <4>2, <5>2
      <4> QED
        BY <4>1, <4>2 DEF LoopPlace
    <3> QED
      BY <3>2, <3>3, <3>4
  <2>4. Stand(p, ev, cd, n, Call(e, 0, 0))
    BY <2>3, StandStays DEF Same
  <2> QED
    BY <1>3, <2>2, <2>4
<1> QED
  BY <1>2, <1>3

\* A replay begins before its first call.
LEMMA StandBegins ==
  ASSUME NEW p, Runs(p), NEW cd,
         cd = [due |-> 0, poll |-> 0, tick |-> 0, eos |-> FALSE,
               avail |-> NextDeadline(0, p.avail, p.end),
               sample |-> IF p.sample = None THEN None ELSE 0]
  PROVE  Stand(p, << >>, cd, 1, Call(0, 0, 0))
<1> DEFINE at == Call(0, 0, 0)
           v == NextDeadline(0, p.avail, p.end)
<1>0. /\ p.end \in Nat /\ p.avail \in Nat \ {0} /\ p.poll \in Nat \ {0} /\ p.tick \in Nat \ {0}
      /\ p.sample \in (Nat \ {0}) \cup {None}
  BY DEF Runs, PlanFine, None
<1>1. \A c \in Calls(p) : ~Earlier(c, at)
  <2> SUFFICES ASSUME NEW c \in Calls(p) PROVE ~Earlier(c, at)
    OBVIOUS
  <2>1. c = Call(c.time, c.rank, c.nth) /\ c.time \in Nat /\ c.rank \in 1..6 /\ c.nth \in Nat
    BY CallShape
  <2>2. Earlier(c, at) <=>
          c.time < 0 \/ (c.time = 0 /\ (c.rank < 0 \/ (c.rank = 0 /\ c.nth < 0)))
    BY <2>1, EarlierFields
  <2> QED
    BY <2>1, <2>2
<1>2. Len(<< >>) = Cardinality(EarlierThan(at, Calls(p)))
  <2>1. EarlierThan(at, Calls(p)) = {} /\ Len(<< >>) = 0
    BY <1>1 DEF EarlierThan
  <2> QED
    BY <2>1, FS_EmptySet
<1>3. FramesAt(p, 1, at)
  <2>1. \A i \in DOMAIN p.frames : ~(i < 1)
    BY FrameFacts DEF Runs
  <2> QED
    BY <1>1, <2>1, OtherCalls DEF FramesAt
<1>4. cd.eos = FALSE /\ EosAt(p, FALSE, at)
  BY <1>1, OtherCalls DEF EosAt
<1>5. /\ Deadline(cd, 3) = v /\ Deadline(cd, 4) = 0 /\ Deadline(cd, 6) = 0
      /\ Deadline(cd, 5) = IF p.sample = None THEN None ELSE 0
  BY DEF Deadline
<1>6. ASSUME NEW r \in {4, 5, 6}
      PROVE  FirstDue(p, IF Period(p, r) = None THEN None ELSE 0, r, at)
  <2>1. r \in Cadences /\ First(r) = 0
    BY DEF Cadences, First
  <2>2. Period(p, r) = None \/ Period(p, r) \in Nat \ {0}
    BY <1>0 DEF Period
  <2>3. CASE Period(p, r) = None
    <3>1. \A c \in Calls(p) : c.rank # r
      BY <2>1, <2>3, CallShape
    <3> QED
      BY <2>3, <3>1 DEF FirstDue
  <2>4. CASE Period(p, r) \in Nat \ {0}
    <3>1. Period(p, r) # None /\ 0 \in First(r)..p.end /\ 0 % Period(p, r) = 0
      BY <1>0, <2>1, <2>4 DEF None
    <3>2. Call(0, r, 0) \in Calls(p)
      BY <2>1, <3>1, CadenceCalls
    <3>3. \A c \in Calls(p) : 0 <= c.time
      BY CallShape
    <3> QED
      BY <1>1, <3>1, <3>2, <3>3 DEF FirstDue, None
  <2> QED
    BY <2>2, <2>3, <2>4
<1>7. Period(p, 4) = p.poll /\ Period(p, 5) = p.sample /\ Period(p, 6) = p.tick
      /\ Period(p, 3) = p.avail /\ First(3) = 1 /\ 3 \in Cadences
  BY DEF Period, First, Cadences
<1>8. FirstDue(p, v, 3, at)
  <2>1. 0 \in 0..p.end /\ 0 % p.avail = 0
    BY <1>0
  <2>2. /\ v # None => v \in 1..p.end /\ v % p.avail = 0 /\ 0 < v
        /\ \A s \in 0..p.end : s % p.avail = 0 /\ 0 < s => v # None /\ v <= s
    BY <1>0, <2>1, DeadlineIsNext
  <2> HIDE DEF v
  <2>3. p.avail # None
    BY <1>0 DEF None
  <2>4. v # None => Call(v, 3, 0) \in Calls(p)
    BY <1>7, <2>2, <2>3, CadenceCalls
  <2>5. \A c \in Calls(p) : c.rank = 3 => c.time \in 1..p.end /\ c.time % p.avail = 0
    BY <1>7, CallShape
  <2>6. \A s \in 1..p.end : s \in 0..p.end /\ 0 < s
    BY <1>0
  <2> QED
    BY <1>1, <2>2, <2>4, <2>5, <2>6 DEF FirstDue
<1> HIDE DEF v, at
<1>9. ASSUME NEW r \in Cadences PROVE FirstDue(p, Deadline(cd, r), r, at)
  <2>1. r = 3 \/ r \in {4, 5, 6}
    BY DEF Cadences
  <2>2. p.poll # None /\ p.tick # None
    BY <1>0 DEF None
  <2>3. CASE r = 3
    BY <1>5, <1>8, <2>3
  <2>4. CASE r \in {4, 5, 6}
    <3>1. Deadline(cd, r) = IF Period(p, r) = None THEN None ELSE 0
      BY <1>5, <1>7, <2>2, <2>4
    <3> QED
      BY <1>6, <2>4, <3>1
  <2> QED
    BY <2>1, <2>3, <2>4
<1> QED
  BY <1>2, <1>3, <1>4, <1>9 DEF Stand, DueAt, at

-----------------------------------------------------------------------------
(* What the replay's variables range over.                                 *)

Workers == {"none", "waiting", "receiving", "publishing", "held", "done"}

TypeInv ==
  /\ PlanFine(plan) /\ clock \in Nat /\ next \in 1..(Len(plan.frames) + 1)
  /\ worker \in Workers /\ tele \in {"Stopped", "Running", "Stopping"}
  /\ attached \in BOOLEAN /\ shutdown \in BOOLEAN
  /\ cad.due \in Nat /\ \A r \in Cadences : Deadline(cad, r) \in Times
  /\ pc = "load" => worker = "none" /\ status = "Ok"
  /\ pc \in {"load", "start", "startDrain"} => next = 1 /\ events = << >>

LEMMA PlanFacts ==
  ASSUME TypeInv
  PROVE  /\ plan.end \in Nat /\ plan.avail \in Nat /\ plan.poll \in Nat /\ plan.tick \in Nat
         /\ plan.sample \in Nat \cup {None} /\ Len(plan.frames) \in Nat
         /\ \A i \in 1..Len(plan.frames) : plan.frames[i] \in Nat
BY FrameFacts DEF TypeInv, PlanFine

LEMMA DeadlineInTimes ==
  ASSUME NEW t \in Nat, NEW b \in Nat \cup {None}, NEW e \in Nat
  PROVE  NextDeadline(t, b, e) \in Times
BY DEF NextDeadline, Times, None

\* The parts that most steps leave alone.
LEMMA TypesStay ==
  ASSUME TypeInv, UNCHANGED <<plan, clock, next, cad>>,
         worker' \in Workers, tele' \in {"Stopped", "Running", "Stopping"},
         attached' \in BOOLEAN, shutdown' \in BOOLEAN,
         pc' \in {"load", "start", "startDrain"} =>
           /\ UNCHANGED events /\ pc \in {"load", "start", "startDrain"}
           /\ pc' = "load" => pc = "load" /\ UNCHANGED <<worker, status>>
  PROVE  TypeInv'
BY DEF TypeInv, Deadline

LEMMA TypesRenew ==
  ASSUME TypeInv, NEW p, NewReplay(p), UNCHANGED plan, shutdown' \in BOOLEAN,
         pc' # "load"
  PROVE  TypeInv'
<1>1. /\ clock' = 0 /\ next' = 1 /\ worker' = "none" /\ tele' = "Stopped" /\ attached' = FALSE
      /\ events' = << >> /\ cad' = NewCadences
  BY DEF NewReplay
<1>2. cad'.due = 0 /\ \A r \in Cadences : Deadline(cad', r) = None
  BY <1>1 DEF NewCadences, Deadline
<1>3. 0 \in Nat /\ None \in Times /\ 1 \in 1..(Len(plan.frames) + 1)
  BY PlanFacts DEF Times
<1> QED
  BY <1>1, <1>2, <1>3 DEF TypeInv, Workers

LEMMA TypesInit == ASSUME EmulatorInit PROVE TypeInv
<1> USE DEF EmulatorInit, Init
<1>1. PlanFine(plan)
  BY DEF PlanFine, FramesOk, None
<1>2. next = 1 /\ plan.frames = << >> /\ Len(plan.frames) = 0 /\ 1 \in 1..(0 + 1)
  OBVIOUS
<1>3. cad.due \in Nat /\ \A r \in Cadences : Deadline(cad, r) \in Times
  BY DEF NewCadences, Deadline, Times
<1> QED
  BY <1>1, <1>2, <1>3 DEF TypeInv, Workers

LEMMA LoadKeepsTypes == ASSUME TypeInv, Load, shutdown' \in BOOLEAN PROVE TypeInv'
<1>1. PICK csv \in Captures, bus \in Buses, o \in Schedules, readable \in Outcome("load") :
        LET loaded == LoadFile(csv, bus, readable)
            last == IF loaded.frames = <<>> THEN 0 ELSE Last(loaded.frames)
        IN  IF loaded.ok
              THEN /\ plan' = [frames |-> loaded.frames, avail |-> o.avail, poll |-> o.poll,
                               tick |-> o.tick,
                               end |-> IF mode = "web" THEN last ELSE o.end,
                               sample |-> IF mode = "web" THEN None ELSE o.sample]
                   /\ pc' = IF mode = "web" THEN "serverStart" ELSE "run"
                   /\ UNCHANGED status
              ELSE status' = "LoadFailed" /\ pc' = "exit" /\ UNCHANGED plan
  BY DEF Load
<1> DEFINE f == LoadFile(csv, bus, readable).frames
           last == IF f = <<>> THEN 0 ELSE Last(f)
<1>2. FramesOk(f)
  BY LoadedInOrder
<1>3. last \in Nat /\ Len(f) \in Nat
  <2> HIDE DEF f
  <2>1. f \in Seq(Nat)
    BY <1>2 DEF FramesOk
  <2>2. Len(f) \in Nat /\ \A i \in 1..Len(f) : f[i] \in Nat
    BY <2>1
  <2>3. f # << >> => Len(f) \in 1..Len(f)
    BY <2>1, <2>2
  <2> QED
    BY <2>2, <2>3 DEF Last
<1>4. /\ o.end \in Nat /\ o.avail \in Nat /\ o.poll \in Nat /\ o.tick \in Nat
      /\ o.sample \in Nat \cup {None}
  BY SchedulesAssumption
<1>5. PlanFine(plan)' /\ Len(plan'.frames) \in Nat
  <2>1. CASE LoadFile(csv, bus, readable).ok
    <3>1. plan' = [frames |-> f, avail |-> o.avail, poll |-> o.poll, tick |-> o.tick,
                   end |-> IF mode = "web" THEN last ELSE o.end,
                   sample |-> IF mode = "web" THEN None ELSE o.sample]
      BY <1>1, <2>1
    <3> HIDE DEF last, f
    <3> QED
      BY <1>2, <1>3, <1>4, <3>1 DEF PlanFine
  <2>2. CASE ~LoadFile(csv, bus, readable).ok
    BY <1>1, <2>2, PlanFacts DEF TypeInv
  <2> QED
    BY <2>1, <2>2
<1> HIDE DEF f, last
<1>6. pc' \notin {"load", "start", "startDrain"}
  BY <1>1
<1>7. /\ UNCHANGED <<clock, next, worker, tele, attached, cad>> /\ next = 1
      /\ 1 \in 1..(Len(plan'.frames) + 1)
  BY <1>5 DEF Load, syncVars, ctlVars, TypeInv
<1> QED
  BY <1>5, <1>6, <1>7 DEF TypeInv, Deadline

\* A cadence or an input step moves one deadline; a round moves the due time.
LEMMA CadenceTypes ==
  ASSUME TypeInv, RecordInv, Working \/ StartDrain
  PROVE  cad'.due \in Nat /\ \A r \in Cadences : Deadline(cad', r) \in Times
<1> DEFINE Fine(c) == c.due \in Nat /\ \A r \in Cadences : Deadline(c, r) \in Times
<1>0. /\ cad \in CadRecords /\ cad.due \in Nat /\ cad.avail \in Times /\ cad.poll \in Times
      /\ cad.sample \in Times /\ cad.tick \in Times
  <2>1. 3 \in Cadences /\ 4 \in Cadences /\ 5 \in Cadences /\ 6 \in Cadences
    BY DEF Cadences
  <2> QED
    BY <2>1 DEF TypeInv, Deadline, RecordInv
<1>1. Fine(cad)
  BY DEF TypeInv
<1>2. ASSUME NEW c \in CadRecords, c.due \in Nat, c.avail \in Times, c.poll \in Times,
             c.sample \in Times, c.tick \in Times
      PROVE  Fine(c)
  BY <1>2 DEF Deadline
<1> HIDE DEF Fine
<1>3. CASE Loop
  <2> DEFINE e == EarliestDue
             d == IF e = None THEN plan.end ELSE e
  <2>1. IsEarliest(plan, cad, next, e)
    BY EarliestFound
  <2>2. e # None => e \in Nat
    <3> HIDE DEF e
    <3>1. \A r \in Cadences : Deadline(cad, r) # None => Deadline(cad, r) \in Nat
      BY DEF TypeInv, Times
    <3>2. next <= Len(plan.frames) => plan.frames[next] \in Nat
      BY PlanFacts DEF TypeInv
    <3>3. next \in Nat /\ Len(plan.frames) \in Nat
      BY PlanFacts DEF TypeInv
    <3> QED
      BY <2>1, <3>1, <3>2, <3>3 DEF IsEarliest
  <2>3. d \in Nat
    BY <2>2, PlanFacts
  <2>4. cad' = [cad EXCEPT !.due = d]
    BY <1>3 DEF Loop
  <2> HIDE DEF d
  <2>5. Fine(cad')
    BY <1>0, <1>2, <2>3, <2>4 DEF CadRecords
  <2> QED
    BY <2>5 DEF Fine
<1>4. CASE StartDrain
  <2> DEFINE d == NextDeadline(0, plan.avail, plan.end)
             s == IF plan.sample = None THEN None ELSE 0
  <2>1. \/ UNCHANGED cad
        \/ cad' = [due |-> 0, poll |-> 0, tick |-> 0, eos |-> FALSE, avail |-> d, sample |-> s]
    BY <1>4 DEF StartDrain
  <2>2. d \in Times /\ s \in Times /\ 0 \in Times
    BY PlanFacts, DeadlineInTimes DEF Times
  <2> HIDE DEF d, s
  <2>3. ~UNCHANGED cad => cad' \in CadRecords
    <3>1. d \in Int /\ s \in Int
      BY <2>2 DEF Times, None
    <3>2. [due |-> 0, poll |-> 0, tick |-> 0, eos |-> FALSE, avail |-> d, sample |-> s]
            \in CadRecords
      BY <3>1 DEF CadRecords
    <3> QED
      BY <2>1, <3>2
  <2>4. Fine(cad')
    <3>1. CASE UNCHANGED cad
      BY <1>1, <3>1
    <3>2. CASE ~UNCHANGED cad
      BY <1>2, <2>1, <2>2, <2>3, <3>2
    <3> QED
      BY <3>1, <3>2
  <2> QED
    BY <2>4 DEF Fine
<1>5. ASSUME NEW c, NEW a \in Times, NEW b \in Times, NEW s \in Times, NEW t \in Times,
             NEW eos \in BOOLEAN,
             c = [cad EXCEPT !.avail = a, !.poll = b, !.sample = s, !.tick = t, !.eos = eos]
      PROVE  Fine(c)
  <2>1. a \in Int /\ b \in Int /\ s \in Int /\ t \in Int
    BY DEF Times, None
  <2>2. c \in CadRecords
    BY <1>0, <1>5, <2>1 DEF CadRecords
  <2>3. c.due = cad.due /\ c.avail = a /\ c.poll = b /\ c.sample = s /\ c.tick = t
    BY <1>0, <1>5 DEF CadRecords
  <2> QED
    BY <1>0, <1>2, <2>2, <2>3
<1>6. CASE Drain \/ Poll \/ SampleSignals \/ TickOutput
  <2> DEFINE da == NextDeadline(cad.due, plan.avail, plan.end)
             dp == NextDeadline(cad.due, plan.poll, plan.end)
             ds == NextDeadline(cad.due, plan.sample, plan.end)
             dt == NextDeadline(cad.due, plan.tick, plan.end)
             a1 == IF step.ask = "Timeout" THEN da ELSE cad.avail
             e1 == cad.eos \/ step.ask = "EndOfStream"
  <2>1. da \in Times /\ dp \in Times /\ ds \in Times /\ dt \in Times
    BY <1>0, PlanFacts, DeadlineInTimes
  <2>2. \/ UNCHANGED cad
        \/ cad' = [cad EXCEPT !.eos = e1, !.avail = a1]
        \/ cad' = [cad EXCEPT !.poll = dp]
        \/ cad' = [cad EXCEPT !.sample = ds]
        \/ cad' = [cad EXCEPT !.tick = dt]
    BY <1>6 DEF Drain, Poll, SampleSignals, TickOutput, Skip, Did, Failed
  <2>3. a1 \in Times /\ e1 \in BOOLEAN /\ cad.eos \in BOOLEAN
    BY <1>0, <2>1 DEF CadRecords
  <2> HIDE DEF da, dp, ds, dt, a1, e1
  <2> DEFINE With(a, b, s, t, eos) ==
               [cad EXCEPT !.avail = a, !.poll = b, !.sample = s, !.tick = t, !.eos = eos]
  <2>4. \/ UNCHANGED cad
        \/ cad' = With(a1, cad.poll, cad.sample, cad.tick, e1)
        \/ cad' = With(cad.avail, dp, cad.sample, cad.tick, cad.eos)
        \/ cad' = With(cad.avail, cad.poll, ds, cad.tick, cad.eos)
        \/ cad' = With(cad.avail, cad.poll, cad.sample, dt, cad.eos)
    BY <1>0, <2>2 DEF CadRecords
  <2>5. Fine(cad')
    <3>1. CASE UNCHANGED cad
      BY <1>1, <3>1
    <3>2. CASE cad' = With(a1, cad.poll, cad.sample, cad.tick, e1)
      BY <1>0, <1>5, <2>3, <3>2
    <3>3. CASE cad' = With(cad.avail, dp, cad.sample, cad.tick, cad.eos)
      BY <1>0, <1>5, <2>1, <2>3, <3>3
    <3>4. CASE cad' = With(cad.avail, cad.poll, ds, cad.tick, cad.eos)
      BY <1>0, <1>5, <2>1, <2>3, <3>4
    <3>5. CASE cad' = With(cad.avail, cad.poll, cad.sample, dt, cad.eos)
      BY <1>0, <1>5, <2>1, <2>3, <3>5
    <3> HIDE DEF With
    <3> QED
      BY <2>4, <3>1, <3>2, <3>3, <3>4, <3>5
  <2> QED
    BY <2>5 DEF Fine
<1>7. CASE Ungated \/ Release
  <2>1. UNCHANGED cad
    BY <1>7 DEF Ungated, Release
  <2> QED
    BY <1>1, <2>1 DEF Fine
<1> QED
  BY <1>3, <1>4, <1>6, <1>7 DEF Working

\* Where work goes on from.
LEMMA WorkingNames ==
  ASSUME Working
  PROVE  pc' \in {"loop", "admit", "admitEnd", "frames", "timeout", "poll", "sample", "tick", "cancel"}
<1>1. ASSUME Loop \/ Ungated \/ Release
      PROVE  pc' \in {"admit", "admitEnd", "frames", "cancel"}
  BY <1>1 DEF Loop, Ungated, Release, AdvanceTo
<1>2. ASSUME Drain PROVE pc' \in {"cancel", "frames", "timeout", "poll"}
  <2>1. InputResult \in {"Frame", "EndOfStream", "Timeout"}
    BY DEF InputResult
  <2> QED
    BY <1>2, <2>1 DEF Drain, Fail
<1>3. ASSUME Poll \/ SampleSignals \/ TickOutput
      PROVE  pc' \in {"sample", "tick", "loop", "cancel"}
  <2>1. \A to : Skip(to) => pc' = to
    BY DEF Skip
  <2>2. \A kind, o, c, to : Did(kind, o, c, to) => pc' = to
    BY DEF Did
  <2>3. \A o, off : Failed(o, off) => pc' = "cancel"
    BY DEF Failed, Fail
  <2> QED
    BY <1>3, <2>1, <2>2, <2>3 DEF Poll, SampleSignals, TickOutput
<1> QED
  BY <1>1, <1>2, <1>3 DEF Working

LEMMA TypesStep == ASSUME TypeInv, RecordInv, HandInv, Next PROVE TypeInv'
<1>0. /\ worker \in Workers /\ tele \in {"Stopped", "Running", "Stopping"}
      /\ attached \in BOOLEAN /\ shutdown \in BOOLEAN /\ clock \in Nat /\ cad.due \in Nat
      /\ PlanFine(plan) /\ next \in 1..(Len(plan.frames) + 1)
      /\ \A r \in Cadences : Deadline(cad, r) \in Times
      /\ pc = "load" => worker = "none" /\ status = "Ok"
      /\ pc \in {"load", "start", "startDrain"} => next = 1 /\ events = << >>
  BY DEF TypeInv
<1> DEFINE Fresh == {"load", "start", "startDrain"}
<1>1. /\ "load" \notin Asking /\ "start" \notin Asking /\ "startDrain" \notin Asking
      /\ "start" \in Active /\ "startDrain" \in Active /\ "load" \notin Active
  BY DEF Asking, Active
<1>2. shutdown' \in BOOLEAN
  BY <1>0 DEF Next, HostStep, Serving, Player, WorkerStep, webVars, ServerStart, Accept, ServeEnds,
              BeginPass, PassEnds, SendRestart, Finish, EndSession, PollClosed, PollReceives,
              PollFrame, Release, BrowserSends, BrowserLeaves, WallTick, RequestShutdown
<1>3. CASE RunReplay
  <2>1. NewReplay(plan) /\ UNCHANGED plan /\ pc' # "load"
    BY <1>3 DEF RunReplay
  <2> QED
    BY <1>2, <2>1, TypesRenew
<1>4. CASE Start
  <2>1. /\ UNCHANGED <<plan, clock, next, cad, events>> /\ pc = "start" /\ pc' # "load"
        /\ worker' \in {worker, "waiting"} /\ tele' \in {tele, "Stopping", "Running"}
        /\ attached' \in {attached, TRUE}
    BY <1>4 DEF Start
  <2> QED
    BY <1>0, <1>2, <2>1, TypesStay DEF Workers
<1>5. CASE StartDrain \/ Working
  <2>1. /\ UNCHANGED <<plan, next, worker, tele, attached>> /\ pc' \notin Fresh
        /\ clock' \in {clock, cad.due}
    <3>1. CASE StartDrain
      BY <3>1 DEF StartDrain, syncVars
    <3>2. CASE Working
      <4>1. pc' \notin Fresh
        <5>1. pc' # "load"
          BY <3>2, WorkingNames
        <5> QED
          BY <1>1, <3>2, <5>1, WorkingStays
      <4>2. clock' \in {clock, cad.due}
        BY <3>2 DEF Working, Loop, Ungated, Release, AdvanceTo, Drain, Poll, SampleSignals,
                    TickOutput, Skip
      <4> QED
        BY <3>2, <4>1, <4>2, WorkingStays
    <3> QED
      BY <1>5, <3>1, <3>2
  <2>2. cad'.due \in Nat /\ \A r \in Cadences : Deadline(cad', r) \in Times
    BY <1>5, CadenceTypes
  <2>3. clock' \in Nat
    BY <1>0, <2>1
  <2> QED
    BY <1>0, <1>2, <2>1, <2>2, <2>3 DEF TypeInv
<1>6. CASE PublicationSeen \/ Granting
  <2>1. UNCHANGED <<plan, clock, next, cad, worker, tele, attached>>
    BY <1>6, GrantingCases DEF PublicationSeen, Skip, ProcessInput, syncVars, ctlVars
  <2>2. pc' \notin Fresh
    BY <1>6, GrantingCases DEF PublicationSeen, Skip, ProcessInput, Fail
  <2> QED
    BY <1>0, <1>2, <2>1, <2>2, TypesStay
<1>7. CASE Load
  BY <1>2, <1>7, LoadKeepsTypes
<1>8. CASE PassEnds
  <2>1. NewReplay(plan) /\ UNCHANGED plan /\ pc' # "load"
    BY <1>8 DEF PassEnds
  <2> QED
    BY <1>2, <2>1, TypesRenew
<1>9. CASE BeginPass
  <2>1. UNCHANGED <<plan, next, cad, worker, tele, attached>> /\ clock' = 0 /\ pc' \notin Fresh
    BY <1>9 DEF BeginPass, syncVars, ctlVars
  <2> QED
    BY <1>0, <1>2, <2>1 DEF TypeInv, Deadline
<1>10. CASE Leaving /\ ~(Load \/ PassEnds \/ BeginPass)
  <2>1. /\ UNCHANGED <<plan, clock, next, cad, worker>>
        /\ tele' \in {tele, "Stopping", "Stopped"} /\ attached' \in BOOLEAN
    BY <1>0, <1>10
       DEF Leaving, SynchronizationTimeout, Cancel, StopTelemetry, StopDone, StopTimesOut,
           FinishStop, Destroy, RenderEnds, ServerStart, Accept, ServeEnds, SendRestart, Finish,
           EndSession, PollClosed, replayVars, syncVars, ctlVars
  <2>2. pc' # "load"
    BY <1>10
       DEF Leaving, SynchronizationTimeout, Fail, Cancel, StopTelemetry, StopDone, StopTimesOut,
           FinishStop, Destroy, RenderEnds, ServerStart, Accept, ServeEnds, SendRestart, Finish,
           EndSession, PollClosed, Interrupt
  <2>3. pc' \notin Fresh
    BY <1>1, <1>10, <2>2, LeavingLeaves
  <2> QED
    BY <1>0, <1>2, <2>1, <2>3, TypesStay
<1>11. CASE Watching
  <2>1. UNCHANGED <<plan, clock, next, cad, worker, tele, attached, events>>
    BY <1>11, WatchingStays DEF replayVars, syncVars, ctlVars
  <2>2. pc' = pc \/ pc' \notin Fresh
    <3>1. pc' = pc \/ pc' # "load"
      BY <1>11 DEF Watching, PollReceives, PollFrame, Interrupt, BrowserSends, BrowserLeaves,
                   WallTick, RequestShutdown
    <3> QED
      BY <1>1, <1>11, <3>1, WatchingStays
  <2>3. pc = "load" => UNCHANGED status
    BY <1>11 DEF Watching, PollReceives, PollFrame, Polling, Gating, BrowserSends, BrowserLeaves,
                 WallTick, RequestShutdown
  <2> QED
    BY <1>0, <1>2, <2>1, <2>2, <2>3, TypesStay
<1>12. CASE WorkerStep
  <2>1. /\ UNCHANGED <<pc, plan, clock, cad, status, events, tele, attached>> /\ Worker
        /\ worker' \in Workers
    BY <1>12 DEF WorkerStep, Worker, WorkerWakes, WorkerReceives, PublicationCompleted,
                 WorkerReleased, ctlVars, Workers
  <2>2. worker # "none"
    BY <2>1 DEF Worker, WorkerWakes, WorkerReceives, PublicationCompleted, WorkerReleased
  <2>3. pc \notin Fresh
    BY <1>0, <2>1, <2>2, ParkedStays DEF HandInv, RecordInv
  <2>4. next' \in 1..(Len(plan.frames) + 1)
    <3> DEFINE m == Len(plan.frames)
    <3>1. m \in Nat /\ next \in 1..(m + 1)
      BY PlanFacts DEF TypeInv
    <3>2. UNCHANGED next \/ (next' = next + 1 /\ NextFrameTime # None)
      BY <2>1 DEF Worker, WorkerWakes, WorkerReceives, PublicationCompleted, WorkerReleased
    <3>3. NextFrameTime # None => ~(next > m)
      BY DEF NextFrameTime
    <3> HIDE DEF m
    <3>4. next' \in 1..(m + 1)
      BY <3>1, <3>2, <3>3
    <3> QED
      BY <3>4 DEF m
  <2> QED
    BY <1>0, <1>2, <2>1, <2>3, <2>4 DEF TypeInv, Deadline
<1> QED
  BY <1>3, <1>4, <1>5, <1>6, <1>7, <1>8, <1>9, <1>10, <1>11, <1>12, NextCases

-----------------------------------------------------------------------------
(* Where run_replay() is in its schedule.                                  *)

Stopping == {"cancel", "stopTelemetry", "stopWait", "destroy", "over"}

ValidInv ==
  /\ pc \in Active => Validate(plan) = "Ok"
  /\ status = "InvalidOptions" => Validate(plan) = "InvalidOptions"

Here(at) == Stand(plan, events, cad, next, at)

\* The worker's last receive gave the frame of this grant.
Got == ~gated.pending /\ worker # "receiving" /\ gated.last = "Frame"

\* What was asked for is a call, and comes next; the worker may have taken the frame.
AskedFrame ==
  \E k \in DOMAIN plan.frames :
    /\ plan.frames[k] = cad.due /\ Stand(plan, events, cad, k, Call(cad.due, 1, k))
    /\ next = IF Got THEN k + 1 ELSE k

AskedCall(r) == Here(Call(cad.due, r, 0)) /\ Call(cad.due, r, 0) \in Calls(plan)

Asked ==
  \/ step.ask = "Frame" /\ AskedFrame
  \/ step.ask = "EndOfStream" /\ AskedCall(2) /\ next > Len(plan.frames)
  \/ step.ask = "Timeout" /\ AskedCall(3) /\ gated.grant = "Timeout"

PlaceInv ==
  /\ pc = "loop" => \E at : LoopPlace(cad, at) /\ Here(at)
  /\ pc = "admit" => Here(Call(cad.due, 0, 0))
  /\ pc = "frames" => Here(Call(cad.due, 1, next))
  /\ pc = "eof" => Here(Call(cad.due, 2, 0))
  /\ pc = "timeout" => Here(Call(cad.due, 3, 0))
  /\ pc = "poll" => Here(Call(cad.due, 4, 0))
  /\ pc = "sample" => Here(Call(cad.due, 5, 0))
  /\ pc = "tick" => Here(Call(cad.due, 6, 0))
  /\ pc \in {"wait", "drain"} => Asked

\* The loop was left because nothing is due any more.
Done == pc = "admitEnd" \/ (pc \in Stopping /\ status = "Ok")

DoneInv == Done => Runs(plan) /\ Len(events) = Cardinality(Calls(plan))

TraceInv == Listed(plan, events) /\ PlaceInv /\ DoneInv

LEMMA ListedNothing == ASSUME NEW p PROVE Listed(p, << >>)
BY DEF Listed

LEMMA ActiveRuns == ASSUME TypeInv, ValidInv, pc \in Active PROVE Runs(plan)
BY ValidatedPlan DEF TypeInv, ValidInv

\* Steps that leave the loop, or that begin with nothing recorded.
LEMMA TraceLeaves ==
  ASSUME TraceInv, UNCHANGED <<plan, events>>, pc' \notin Active,
         pc' \in Stopping /\ status' = "Ok" => Done
  PROVE  TraceInv'
<1>1. pc' \notin {"loop", "admit", "admitEnd", "frames", "eof", "timeout", "poll", "sample", "tick",
                  "wait", "drain"}
  BY DEF Active, Asking
<1>2. PlaceInv' /\ (Done' => Done)
  BY <1>1 DEF PlaceInv, Done
<1> QED
  BY <1>2 DEF TraceInv, DoneInv

LEMMA TraceFresh ==
  ASSUME events' = << >>, pc' \notin Active \/ pc' \in {"start", "startDrain"},
         ~(pc' \in Stopping /\ status' = "Ok")
  PROVE  TraceInv'
<1>1. pc' \notin {"loop", "admit", "admitEnd", "frames", "eof", "timeout", "poll", "sample", "tick",
                  "wait", "drain"}
  BY DEF Active, Asking
<1>2. PlaceInv' /\ ~Done'
  BY <1>1 DEF PlaceInv, Done
<1>3. Listed(plan, events)'
  BY ListedNothing
<1> QED
  BY <1>2, <1>3 DEF TraceInv, DoneInv

\* The next place of the host is right.
LEMMA TraceGoes ==
  ASSUME Listed(plan', events'), PlaceInv', pc' \in Active \ {"admitEnd"}
  PROVE  TraceInv'
<1>1. Active \cap Stopping = {}
  BY DEF Active, Asking, Stopping
<1> QED
  BY <1>1 DEF TraceInv, DoneInv, Done

\* A cadence that is not due, and one that is.
LEMMA CadenceSkips ==
  ASSUME NEW p, Runs(p), NEW ev, NEW cd, NEW n, NEW r \in Cadences, NEW t \in Nat,
         Stand(p, ev, cd, n, Call(t, r, 0)), Deadline(cd, r) \in Int, Deadline(cd, r) # t
  PROVE  Stand(p, ev, cd, n, Call(t, r + 1, 0))
<1>1. FirstDue(p, Deadline(cd, r), r, Call(t, r, 0))
  BY DEF Stand, DueAt
<1>2. Call(t, r, 0) \notin Calls(p)
  BY <1>1, DueNow
<1>3. r \in 2..6
  BY DEF Cadences
<1>4. Follows(p, Call(t, r, 0), Call(t, r + 1, 0))
  BY <1>3, RanksFollow
<1> QED
  BY <1>2, <1>4, NoCallHere, StandStays

LEMMA CadenceDone ==
  ASSUME NEW p, Runs(p), NEW ev, NEW cd, NEW n, NEW r \in Cadences, NEW t \in Nat,
         Stand(p, ev, cd, n, Call(t, r, 0)), Listed(p, ev), Call(t, r, 0) \in Calls(p),
         NEW cd2, cd2.eos = cd.eos, Deadline(cd2, r) = NextDeadline(t, Period(p, r), p.end),
         \A s \in Cadences : s # r => Deadline(cd2, s) = Deadline(cd, s)
  PROVE  /\ Listed(p, Append(ev, <<t, Kinds[r]>>))
         /\ Stand(p, Append(ev, <<t, Kinds[r]>>), cd2, n, Call(t, r + 1, 0))
<1> DEFINE c0 == Call(t, r, 0)
           to == Call(t, r + 1, 0)
<1>1. c0.time = t /\ c0.rank = r /\ c0 \in Calls(p)
  BY CallFields
<1>2. r \in 2..6 /\ r # 1 /\ r # 2
  BY DEF Cadences
<1>3. Follows(p, c0, to)
  BY <1>2, RanksFollow
<1>4. FirstDue(p, Deadline(cd2, r), r, to)
  BY <1>3, DeadlineFollows
<1>5. Stand(p, ev, cd, n, c0)
  OBVIOUS
<1> HIDE DEF c0, to
<1>6. \A s \in Cadences : IF c0.rank = s THEN FirstDue(p, Deadline(cd2, s), s, to)
                                         ELSE Deadline(cd2, s) = Deadline(cd, s)
  BY <1>1, <1>4
<1>7. LET ev2 == Append(ev, <<c0.time, Kinds[c0.rank]>>)
      IN  Listed(p, ev2) /\ Stand(p, ev2, cd2, n, to)
  BY <1>1, <1>2, <1>3, <1>5, <1>6, StandMoves
<1> QED
  BY <1>1, <1>7 DEF to

LEMMA StreamDone ==
  ASSUME NEW p, Runs(p), NEW ev, NEW cd, NEW n, NEW t \in Nat,
         Stand(p, ev, cd, n, Call(t, 2, 0)), Listed(p, ev), Call(t, 2, 0) \in Calls(p),
         NEW cd2, cd2.eos, \A s \in Cadences : Deadline(cd2, s) = Deadline(cd, s)
  PROVE  /\ Listed(p, Append(ev, <<t, Kinds[2]>>))
         /\ Stand(p, Append(ev, <<t, Kinds[2]>>), cd2, n, Call(t, 3, 0))
<1> DEFINE c0 == Call(t, 2, 0)
           to == Call(t, 2 + 1, 0)
<1>1. c0.time = t /\ c0.rank = 2 /\ c0 \in Calls(p)
  BY CallFields
<1>2. Follows(p, c0, to)
  <2>1. 2 \in 2..6
    OBVIOUS
  <2> QED
    BY <2>1, RanksFollow
<1>3. Stand(p, ev, cd, n, c0) /\ to = Call(t, 3, 0)
  OBVIOUS
<1> HIDE DEF c0, to
<1>4. \A s \in Cadences : IF c0.rank = s THEN FirstDue(p, Deadline(cd2, s), s, to)
                                         ELSE Deadline(cd2, s) = Deadline(cd, s)
  <2>1. 2 \notin Cadences
    BY DEF Cadences
  <2> QED
    BY <1>1, <2>1
<1>5. LET ev2 == Append(ev, <<c0.time, Kinds[c0.rank]>>)
      IN  Listed(p, ev2) /\ Stand(p, ev2, cd2, n, to)
  BY <1>1, <1>2, <1>3, <1>4, StandMoves
<1> QED
  BY <1>1, <1>3, <1>5

LEMMA FrameDone ==
  ASSUME NEW p, Runs(p), NEW ev, NEW cd, NEW t \in Nat, NEW k \in DOMAIN p.frames,
         p.frames[k] = t, Stand(p, ev, cd, k, Call(t, 1, k)), Listed(p, ev)
  PROVE  /\ Listed(p, Append(ev, <<t, Kinds[1]>>))
         /\ Stand(p, Append(ev, <<t, Kinds[1]>>), cd, k + 1, Call(t, 1, k + 1))
<1> DEFINE c0 == Call(t, 1, k)
           to == Call(t, 1, k + 1)
<1>0. PlanFine(p) /\ DOMAIN p.frames \subseteq Nat
  BY FrameFacts DEF Runs
<1>1. c0.time = t /\ c0.rank = 1 /\ c0.rank # 2 /\ c0 \in Calls(p)
  BY CallFields, OtherCalls
<1>2. Follows(p, c0, to)
  BY <1>0, FramesFollow
<1>3. Stand(p, ev, cd, k, c0)
  OBVIOUS
<1>4. ASSUME NEW i \in DOMAIN p.frames
      PROVE  Earlier(Call(p.frames[i], 1, i), to) <=> i < k + 1
  <2>1. Call(p.frames[i], 1, i) \in Calls(p)
    BY OtherCalls
  <2>2. Call(p.frames[i], 1, i) = c0 <=> i = k
    BY SameCall
  <2>3. Earlier(Call(p.frames[i], 1, i), c0) <=> i < k
    BY <1>3 DEF Stand, FramesAt
  <2>4. i \in Nat /\ k \in Nat
    BY <1>0
  <2> HIDE DEF c0, to
  <2>5. Earlier(Call(p.frames[i], 1, i), to) <=> i < k \/ i = k
    BY <1>2, <2>1, <2>2, <2>3 DEF Follows
  <2> QED
    BY <2>4, <2>5
<1>5. FramesAt(p, k + 1, to)
  BY <1>4 DEF FramesAt
<1> HIDE DEF c0, to
<1>6. 1 \notin Cadences
  BY DEF Cadences
<1>7. \A s \in Cadences : IF c0.rank = s THEN FirstDue(p, Deadline(cd, s), s, to)
                                         ELSE Deadline(cd, s) = Deadline(cd, s)
  BY <1>1, <1>6
<1>8. IF c0.rank = 1 THEN FramesAt(p, k + 1, to) ELSE k + 1 = k
  BY <1>1, <1>5
<1>9. IF c0.rank = 2 THEN cd.eos ELSE cd.eos = cd.eos
  BY <1>1
<1> DEFINE m == k + 1
<1> HIDE DEF m
<1>10. LET ev2 == Append(ev, <<c0.time, Kinds[c0.rank]>>)
       IN  Listed(p, ev2) /\ Stand(p, ev2, cd, m, to)
  <2>1. IF c0.rank = 1 THEN FramesAt(p, m, to) ELSE m = k
    BY <1>8 DEF m
  <2> QED
    BY <1>1, <1>2, <1>3, <1>7, <1>9, <2>1, StandMoves
<1> QED
  BY <1>1, <1>10 DEF to, m

\* One deadline is set.
MovedTo(c, cd, r, v) ==
  /\ c.due = cd.due /\ c.eos = cd.eos /\ Deadline(c, r) = v
  /\ \A s \in Cadences : s # r => Deadline(c, s) = Deadline(cd, s)

LEMMA CadChanges ==
  ASSUME NEW cd \in CadRecords, NEW v
  PROVE  /\ [cd EXCEPT !.due = v].due = v /\ [cd EXCEPT !.due = v].eos = cd.eos
         /\ \A s \in Cadences : Deadline([cd EXCEPT !.due = v], s) = Deadline(cd, s)
         /\ MovedTo([cd EXCEPT !.poll = v], cd, 4, v)
         /\ MovedTo([cd EXCEPT !.sample = v], cd, 5, v)
         /\ MovedTo([cd EXCEPT !.tick = v], cd, 6, v)
<1> DEFINE a == cd.avail
           b == cd.poll
           s == cd.sample
           t == cd.tick
           e == cd.eos
           d == cd.due
<1>1. cd = [due |-> d, avail |-> a, poll |-> b, sample |-> s, tick |-> t, eos |-> e]
  BY DEF CadRecords
<1> HIDE DEF a, b, s, t, e, d
<1>2. [cd EXCEPT !.due = v] = [due |-> v, avail |-> a, poll |-> b, sample |-> s, tick |-> t, eos |-> e]
  BY <1>1
<1>3. [cd EXCEPT !.poll = v] = [due |-> d, avail |-> a, poll |-> v, sample |-> s, tick |-> t, eos |-> e]
  BY <1>1
<1>4. [cd EXCEPT !.sample = v] = [due |-> d, avail |-> a, poll |-> b, sample |-> v, tick |-> t, eos |-> e]
  BY <1>1
<1>5. [cd EXCEPT !.tick = v] = [due |-> d, avail |-> a, poll |-> b, sample |-> s, tick |-> v, eos |-> e]
  BY <1>1
<1>6. \A x \in Cadences : x = 3 \/ x = 4 \/ x = 5 \/ x = 6
  BY DEF Cadences
<1>7. [cd EXCEPT !.due = v].due = v /\ [cd EXCEPT !.due = v].eos = cd.eos
      /\ \A x \in Cadences : Deadline([cd EXCEPT !.due = v], x) = Deadline(cd, x)
  BY <1>1, <1>2 DEF Deadline
<1>8. MovedTo([cd EXCEPT !.poll = v], cd, 4, v)
  BY <1>1, <1>3, <1>6 DEF Deadline, MovedTo
<1>9. MovedTo([cd EXCEPT !.sample = v], cd, 5, v)
  BY <1>1, <1>4, <1>6 DEF Deadline, MovedTo
<1>10. MovedTo([cd EXCEPT !.tick = v], cd, 6, v)
  BY <1>1, <1>5, <1>6 DEF Deadline, MovedTo
<1> QED
  BY <1>7, <1>8, <1>9, <1>10

\* An input that was processed.
InputDone(cd, e, v) == [cd EXCEPT !.eos = e, !.avail = v]

LEMMA CadInputs ==
  ASSUME NEW cd \in CadRecords, NEW v, NEW e \in BOOLEAN, NEW c, c = InputDone(cd, e, v)
  PROVE  /\ c.due = cd.due /\ c.eos = e /\ Deadline(c, 3) = v
         /\ \A s \in Cadences : s # 3 => Deadline(c, s) = Deadline(cd, s)
<1> DEFINE a == cd.avail
           b == cd.poll
           s == cd.sample
           t == cd.tick
           o == cd.eos
           d == cd.due
<1>0. cd = [due |-> d, avail |-> a, poll |-> b, sample |-> s, tick |-> t, eos |-> o]
  BY DEF CadRecords
<1> HIDE DEF a, b, s, t, o, d
<1>1. [cd EXCEPT !.eos = e] =
        [due |-> d, avail |-> a, poll |-> b, sample |-> s, tick |-> t, eos |-> e]
  BY <1>0
<1>2. c = [[cd EXCEPT !.eos = e] EXCEPT !.avail = v]
  BY <1>0 DEF InputDone
<1>3. c = [due |-> d, avail |-> v, poll |-> b, sample |-> s, tick |-> t, eos |-> e]
  BY <1>1, <1>2
<1>4. \A x \in Cadences : x = 3 \/ x = 4 \/ x = 5 \/ x = 6
  BY DEF Cadences
<1> QED
  BY <1>0, <1>3, <1>4 DEF Deadline

\* A record that says the same stands at the same place.
LEMMA StandReads ==
  ASSUME NEW p, NEW ev, NEW cd, NEW n, NEW at, Stand(p, ev, cd, n, at), NEW c,
         c.eos = cd.eos, \A s \in Cadences : Deadline(c, s) = Deadline(cd, s)
  PROVE  Stand(p, ev, c, n, at)
BY DEF Stand, EosAt, DueAt

\* The loop: the earliest time is next, or there is nothing left.
LEMMA LoopTraces ==
  ASSUME RecordInv, TypeInv, ValidInv, TraceInv, Loop
  PROVE  TraceInv'
<1>1. pc = "loop" /\ pc \in Active /\ Runs(plan)
  BY ActiveRuns DEF Loop, Active, Asking
<1>2. PICK at : LoopPlace(cad, at) /\ Stand(plan, events, cad, next, at)
  BY <1>1 DEF TraceInv, PlaceInv, Here
<1>3. /\ UNCHANGED <<plan, events, next>>
      /\ cad' = [cad EXCEPT !.due = IF EarliestDue = None THEN plan.end ELSE EarliestDue]
      /\ pc' = IF EarliestDue # None THEN "admit" ELSE IF clock < plan.end THEN "admitEnd" ELSE "cancel"
  BY DEF Loop, syncVars
<1>4. IF EarliestDue = None THEN Len(events) = Cardinality(Calls(plan))
      ELSE EarliestDue \in Nat /\ Stand(plan, events, cad, next, Call(EarliestDue, 0, 0))
  <2>1. IsEarliest(plan, cad, next, EarliestDue)
    BY EarliestFound
  <2>2. next \in 1..(Len(plan.frames) + 1)
    BY DEF TypeInv
  <2> QED
    BY <1>1, <1>2, <2>1, <2>2, LoopMoves
<1>5. Listed(plan, events)
  BY DEF TraceInv
<1>6. CASE EarliestDue = None
  <2>1. pc' \in {"admitEnd", "cancel"}
    BY <1>3, <1>6
  <2>2. PlaceInv'
    BY <2>1 DEF PlaceInv
  <2>3. DoneInv'
    BY <1>1, <1>3, <1>4, <1>6 DEF DoneInv
  <2> QED
    BY <1>3, <1>5, <2>2, <2>3 DEF TraceInv
<1>7. CASE EarliestDue # None
  <2> DEFINE e == EarliestDue
  <2>1. pc' = "admit" /\ cad' = [cad EXCEPT !.due = e]
    BY <1>3, <1>7
  <2>2. Stand(plan, events, cad, next, Call(e, 0, 0))
    BY <1>4, <1>7
  <2> HIDE DEF e
  <2>3. cad'.due = e /\ cad'.eos = cad.eos /\ \A s \in Cadences : Deadline(cad', s) = Deadline(cad, s)
    BY <2>1, CadChanges DEF RecordInv
  <2>4. Stand(plan, events, cad', next, Call(e, 0, 0))
    BY <2>2, <2>3, StandReads
  <2>5. PlaceInv'
    BY <1>3, <2>1, <2>3, <2>4 DEF PlaceInv, Here
  <2>6. pc' \in Active \ {"admitEnd"}
    BY <2>1 DEF Active, Asking
  <2> QED
    BY <1>3, <1>5, <2>5, <2>6, TraceGoes
<1> QED
  BY <1>6, <1>7

\* The gate opens on the frames of its time, or after the end on nothing.
LEMMA ReleaseTraces ==
  ASSUME TypeInv, ValidInv, TraceInv, Ungated \/ Release
  PROVE  TraceInv'
<1>1. /\ UNCHANGED <<plan, events, cad, next>> /\ pc \in {"admit", "admitEnd"}
      /\ pc' = IF status' = "Ok" /\ pc = "admit" THEN "frames" ELSE "cancel"
  BY DEF Ungated, Release, Gating, AdvanceTo, syncVars
<1>2. pc \in Active /\ Runs(plan)
  BY <1>1, ActiveRuns DEF Active, Asking
<1>3. CASE pc' = "frames"
  <2>1. pc = "admit"
    BY <1>1, <1>3
  <2>2. Stand(plan, events, cad, next, Call(cad.due, 0, 0))
    BY <2>1 DEF TraceInv, PlaceInv, Here
  <2>3. cad.due \in Nat /\ next \in 1..(Len(plan.frames) + 1)
    BY DEF TypeInv
  <2>4. Same(plan, Call(cad.due, 0, 0), Call(cad.due, 1, next))
    BY <1>2, <2>2, <2>3, FramesBegin DEF Stand
  <2>5. Stand(plan, events, cad, next, Call(cad.due, 1, next))
    BY <1>2, <2>2, <2>4, StandStays
  <2>6. PlaceInv'
    BY <1>1, <1>3, <2>5 DEF PlaceInv, Here
  <2>7. pc' \in Active \ {"admitEnd"}
    BY <1>3 DEF Active, Asking
  <2> QED
    BY <1>1, <2>6, <2>7, TraceGoes DEF TraceInv
<1>4. CASE pc' = "cancel"
  <2>1. pc' \notin Active
    BY <1>4 DEF Active, Asking
  <2>2. status' = "Ok" => Done
    BY <1>1, <1>4 DEF Done
  <2> QED
    BY <1>1, <2>1, <2>2, TraceLeaves
<1> QED
  BY <1>1, <1>3, <1>4

\* The frame that comes next, if any.
LEMMA NextFrame ==
  ASSUME TypeInv
  PROVE  /\ NextFrameTime # None <=> next <= Len(plan.frames)
         /\ next <= Len(plan.frames) => /\ next \in DOMAIN plan.frames
                                        /\ NextFrameTime = plan.frames[next]
         /\ next \in 1..(Len(plan.frames) + 1) /\ Len(plan.frames) \in Nat
         /\ cad.due \in Nat /\ cad.due # None
<1>1. /\ next \in 1..(Len(plan.frames) + 1) /\ Len(plan.frames) \in Nat /\ cad.due \in Nat
      /\ \A i \in 1..Len(plan.frames) : plan.frames[i] \in Nat
  BY PlanFacts DEF TypeInv
<1>2. DOMAIN plan.frames = 1..Len(plan.frames)
  BY FrameFacts DEF TypeInv
<1> DEFINE m == Len(plan.frames)
<1>3. m \in Nat /\ next \in 1..(m + 1) /\ (next > m <=> ~(next <= m))
      /\ (next <= m => next \in 1..m)
  BY <1>1
<1>4. \A x \in Nat : x # None
  BY DEF None
<1>5. NextFrameTime = IF next > m THEN None ELSE plan.frames[next]
  BY DEF NextFrameTime
<1> HIDE DEF m
<1>6. next <= m => next \in DOMAIN plan.frames /\ plan.frames[next] \in Nat
  BY <1>1, <1>2, <1>3 DEF m
<1>7. /\ NextFrameTime # None <=> next <= m
      /\ next <= m => NextFrameTime = plan.frames[next]
  BY <1>3, <1>4, <1>5, <1>6
<1> QED
  BY <1>1, <1>4, <1>6, <1>7 DEF m

\* Steps over what is not due.
LEMMA SkipTraces ==
  ASSUME TraceInv, UNCHANGED <<plan, events, cad, next>>,
         pc' \in {"eof", "timeout", "poll", "sample", "tick", "loop"},
         LET r == IF pc' = "eof" THEN 2 ELSE IF pc' = "timeout" THEN 3 ELSE IF pc' = "poll" THEN 4
                  ELSE IF pc' = "sample" THEN 5 ELSE IF pc' = "tick" THEN 6 ELSE 7
         IN  Stand(plan, events, cad, next, Call(cad.due, r, 0)),
         cad.due \in Nat
  PROVE  TraceInv'
<1>1. pc' \in Active \ {"admitEnd"}
  BY DEF Active, Asking
<1>2. cad' = cad /\ cad'.due = cad.due /\ cad'.due \in Nat
  OBVIOUS
<1>3. pc' = "loop" => LoopPlace(cad', Call(cad.due, 7, 0))
  BY <1>2 DEF LoopPlace
<1>4. PlaceInv'
  BY <1>2, <1>3 DEF PlaceInv, Here
<1> QED
  BY <1>1, <1>4, TraceGoes DEF TraceInv

\* Granted: what was asked for is the next call.
LEMMA GrantTraces ==
  ASSUME TraceInv, UNCHANGED <<plan, events, cad, next>>, pc' = "wait", Asked'
  PROVE  TraceInv'
<1>1. pc' \in Active \ {"admitEnd"}
  BY DEF Active, Asking
<1>2. PlaceInv'
  BY DEF PlaceInv
<1> QED
  BY <1>1, <1>2, TraceGoes DEF TraceInv

LEMMA Granted ==
  ASSUME RecordInv, HandInv, pc \in Asking, NEW ask, ProcessInput(ask)
  PROVE  /\ UNCHANGED <<plan, events, cad, next, worker, status>> /\ pc' = "wait"
         /\ step'.ask = ask /\ gated'.pending = TRUE
         /\ ask = "Timeout" => gated'.grant = "Timeout"
<1>0. gated \in GatedRecords /\ Parked
  BY DEF RecordInv, HandInv
<1> DEFINE g == IF ask = "Timeout" THEN "Timeout" ELSE "Receive"
<1>1. /\ UNCHANGED <<plan, events, cad, next, worker, status>> /\ pc' = "wait"
      /\ step' = [ask |-> ask, epoch |-> PrepareStep]
      /\ gated' = [gated EXCEPT !.pending = TRUE, !.grant = g]
  BY <1>0 DEF Parked, ProcessInput
<1>2. ask = "Timeout" => g = "Timeout"
  OBVIOUS
<1> HIDE DEF g
<1> QED
  BY <1>0, <1>1, <1>2 DEF GatedRecords

LEMMA FramesTraces ==
  ASSUME RecordInv, HandInv, TypeInv, ValidInv, TraceInv, Frames
  PROVE  TraceInv'
<1>0. pc = "frames" /\ pc \in Asking /\ Runs(plan)
  BY ActiveRuns DEF Frames, Active, Asking
<1>1. Stand(plan, events, cad, next, Call(cad.due, 1, next))
  BY <1>0 DEF TraceInv, PlaceInv, Here
<1>2. /\ NextFrameTime = cad.due =>
           next \in DOMAIN plan.frames /\ plan.frames[next] = cad.due
      /\ NextFrameTime # cad.due => ~(next <= Len(plan.frames) /\ plan.frames[next] = cad.due)
      /\ cad.due \in Nat /\ next \in 1..(Len(plan.frames) + 1)
  BY NextFrame
<1>3. CASE NextFrameTime = cad.due
  <2>1. ProcessInput("Frame")
    BY <1>3 DEF Frames
  <2>2. /\ UNCHANGED <<plan, events, cad, next>> /\ pc' = "wait"
        /\ step'.ask = "Frame" /\ gated'.pending = TRUE
    BY <1>0, <2>1, Granted
  <2>3. ~Got'
    BY <2>2 DEF Got
  <2>4. AskedFrame'
    BY <1>1, <1>2, <1>3, <2>2, <2>3 DEF AskedFrame
  <2> QED
    BY <2>2, <2>4, GrantTraces DEF Asked
<1>4. CASE NextFrameTime # cad.due
  <2>1. UNCHANGED <<plan, events, cad, next>> /\ pc' = "eof"
    BY <1>4 DEF Frames, Skip, syncVars
  <2>2. Call(cad.due, 1, next) \notin Calls(plan)
    BY <1>0, <1>2, <1>4, FrameIsCall
  <2>3. Same(plan, Call(cad.due, 1, next), Call(cad.due, 2, 0))
    BY <1>0, <1>1, <1>2, <2>2, FramesOver DEF Stand
  <2>4. Stand(plan, events, cad, next, Call(cad.due, 2, 0))
    BY <1>0, <1>1, <2>3, StandStays
  <2> QED
    BY <1>2, <2>1, <2>4, SkipTraces
<1> QED
  BY <1>3, <1>4

LEMMA EndOfStreamTraces ==
  ASSUME RecordInv, HandInv, TypeInv, ValidInv, TraceInv, EndOfStream
  PROVE  TraceInv'
<1>0. pc = "eof" /\ pc \in Asking /\ Runs(plan)
  BY ActiveRuns DEF EndOfStream, Active, Asking
<1>1. Stand(plan, events, cad, next, Call(cad.due, 2, 0))
  BY <1>0 DEF TraceInv, PlaceInv, Here
<1>2. /\ NextFrameTime = None <=> next > Len(plan.frames)
      /\ cad.due \in Nat /\ next \in 1..(Len(plan.frames) + 1)
  <2>1. /\ NextFrameTime # None <=> next <= Len(plan.frames)
        /\ cad.due \in Nat /\ next \in 1..(Len(plan.frames) + 1) /\ Len(plan.frames) \in Nat
    BY NextFrame
  <2> QED
    BY <2>1
<1>3. ~cad.eos /\ next > Len(plan.frames) <=> Call(cad.due, 2, 0) \in Calls(plan)
  <2>1. cad.eos \in BOOLEAN
    BY DEF RecordInv, CadRecords
  <2> QED
    BY <1>0, <1>1, <1>2, <2>1, StreamEnds DEF Stand
<1>4. CASE ~cad.eos /\ NextFrameTime = None
  <2>1. ProcessInput("EndOfStream")
    BY <1>4 DEF EndOfStream
  <2>2. /\ UNCHANGED <<plan, events, cad, next>> /\ pc' = "wait" /\ step'.ask = "EndOfStream"
    BY <1>0, <2>1, Granted
  <2>3. AskedCall(2)' /\ (next > Len(plan.frames))'
    BY <1>1, <1>2, <1>3, <1>4, <2>2 DEF AskedCall, Here
  <2> QED
    BY <2>2, <2>3, GrantTraces DEF Asked
<1>5. CASE ~(~cad.eos /\ NextFrameTime = None)
  <2>1. UNCHANGED <<plan, events, cad, next>> /\ pc' = "timeout"
    BY <1>5 DEF EndOfStream, Skip, syncVars
  <2>2. Call(cad.due, 2, 0) \notin Calls(plan)
    BY <1>2, <1>3, <1>5
  <2>3. Follows(plan, Call(cad.due, 2, 0), Call(cad.due, 3, 0))
    <3>1. 2 \in 2..6 /\ 2 + 1 = 3
      OBVIOUS
    <3>2. Follows(plan, Call(cad.due, 2, 0), Call(cad.due, 2 + 1, 0))
      BY <1>0, <1>2, <3>1, RanksFollow
    <3> QED
      BY <3>1, <3>2
  <2>4. Stand(plan, events, cad, next, Call(cad.due, 3, 0))
    BY <1>0, <1>1, <2>2, <2>3, NoCallHere, StandStays
  <2> QED
    BY <1>2, <2>1, <2>4, SkipTraces
<1> QED
  BY <1>4, <1>5

\* The deadlines of the cadences.
LEMMA DeadlineIs ==
  ASSUME TypeInv
  PROVE  /\ 3 \in Cadences /\ 4 \in Cadences /\ 5 \in Cadences /\ 6 \in Cadences
         /\ Deadline(cad, 3) = cad.avail /\ Deadline(cad, 4) = cad.poll
         /\ Deadline(cad, 5) = cad.sample /\ Deadline(cad, 6) = cad.tick
         /\ \A r \in Cadences : Deadline(cad, r) \in Int
<1>1. \A r \in Cadences : Deadline(cad, r) \in Int
  BY DEF TypeInv, Times, None
<1> QED
  BY <1>1 DEF Cadences, Deadline

LEMMA AvailabilityTraces ==
  ASSUME RecordInv, HandInv, TypeInv, ValidInv, TraceInv, Availability
  PROVE  TraceInv'
<1>0. pc = "timeout" /\ pc \in Asking /\ Runs(plan) /\ cad.due \in Nat
  BY ActiveRuns DEF Availability, Active, Asking, TypeInv
<1>1. Stand(plan, events, cad, next, Call(cad.due, 3, 0))
  BY <1>0 DEF TraceInv, PlaceInv, Here
<1>2. CASE cad.avail = cad.due
  <2>1. ProcessInput("Timeout")
    BY <1>2 DEF Availability
  <2>2. /\ UNCHANGED <<plan, events, cad, next>> /\ pc' = "wait" /\ step'.ask = "Timeout"
        /\ gated'.grant = "Timeout"
    BY <1>0, <2>1, Granted
  <2>3. FirstDue(plan, cad.avail, 3, Call(cad.due, 3, 0)) /\ cad.avail \in Int /\ 3 \in Cadences
    BY <1>1, DeadlineIs DEF Stand, DueAt
  <2>4. Call(cad.due, 3, 0) \in Calls(plan)
    BY <1>0, <1>2, <2>3, DueNow
  <2>5. AskedCall(3)'
    BY <1>1, <2>2, <2>4 DEF AskedCall, Here
  <2> QED
    BY <2>2, <2>5, GrantTraces DEF Asked
<1>3. CASE cad.avail # cad.due
  <2>1. UNCHANGED <<plan, events, cad, next>> /\ pc' = "poll"
    BY <1>3 DEF Availability, Skip, syncVars
  <2>2. Stand(plan, events, cad, next, Call(cad.due, 3 + 1, 0))
    BY <1>0, <1>1, <1>3, DeadlineIs, CadenceSkips
  <2>3. 3 + 1 = 4
    OBVIOUS
  <2>4. Stand(plan, events, cad, next, Call(cad.due, 4, 0))
    BY <2>2, <2>3
  <2> QED
    BY <1>0, <2>1, <2>4, SkipTraces
<1> QED
  BY <1>2, <1>3

\* The result is drained: it is what was asked for, or the replay ends.
LEMMA DrainCases ==
  ASSUME Drain
  PROVE  /\ UNCHANGED <<plan, next, gated, worker, step>> /\ pc = "drain"
         /\ \/ pc' = "cancel" /\ status' = "ControllerFailure" /\ UNCHANGED events
            \/ /\ InputResult = step.ask /\ events' = Append(events, <<cad.due, step.ask>>)
               /\ cad' = [cad EXCEPT
                     !.eos = cad.eos \/ step.ask = "EndOfStream",
                     !.avail = IF step.ask = "Timeout"
                       THEN NextDeadline(cad.due, plan.avail, plan.end) ELSE cad.avail]
               /\ pc' = CASE step.ask = "Frame" -> "frames"
                          [] step.ask = "EndOfStream" -> "timeout"
                          [] step.ask = "Timeout" -> "poll"
<1>1. UNCHANGED <<plan, next, gated, worker, step>> /\ pc = "drain"
  BY DEF Drain, syncVars
<1>2. \A o, off : Fail(o, off) => pc' = "cancel" /\ status' = "ControllerFailure"
  BY DEF Fail
<1> QED
  BY <1>1, <1>2 DEF Drain, Record

LEMMA DrainTraces ==
  ASSUME RecordInv, HandInv, TypeInv, ValidInv, TraceInv, Drain
  PROVE  TraceInv'
<1>0. /\ pc = "drain" /\ pc \in Asking /\ Runs(plan) /\ cad.due \in Nat /\ cad \in CadRecords
      /\ cad.eos \in BOOLEAN
  BY ActiveRuns DEF Drain, Active, Asking, TypeInv, RecordInv, CadRecords
<1>1. Asked /\ Listed(plan, events)
  BY <1>0 DEF TraceInv, PlaceInv
<1>2. UNCHANGED <<plan, next, gated, worker, step>>
  BY DrainCases
<1>3. CASE pc' = "cancel" /\ status' = "ControllerFailure" /\ UNCHANGED events
  <2>1. pc' \notin Active
    BY <1>3 DEF Active, Asking
  <2> QED
    BY <1>2, <1>3, <2>1, TraceLeaves
<1> DEFINE a == IF step.ask = "Timeout" THEN NextDeadline(cad.due, plan.avail, plan.end)
                ELSE cad.avail
           e == cad.eos \/ step.ask = "EndOfStream"
           done == events' = Append(events, <<cad.due, step.ask>>)
<1>4. CASE /\ InputResult = step.ask /\ done
           /\ cad' = [cad EXCEPT !.eos = e, !.avail = a]
           /\ pc' = CASE step.ask = "Frame" -> "frames"
                      [] step.ask = "EndOfStream" -> "timeout"
                      [] step.ask = "Timeout" -> "poll"
  <2>1. e \in BOOLEAN
    BY <1>0
  <2> DEFINE same == \A s \in Cadences : s # 3 => Deadline(cad', s) = Deadline(cad, s)
  <2>2. cad'.due = cad.due /\ cad'.eos = e /\ Deadline(cad', 3) = a /\ same
    <3> HIDE DEF a, e
    <3>1. cad' = InputDone(cad, e, a)
      BY <1>4 DEF InputDone
    <3>2. cad \in CadRecords
      BY <1>0
    <3>3. /\ cad'.due = cad.due /\ cad'.eos = e /\ Deadline(cad', 3) = a
          /\ \A s \in Cadences : s # 3 => Deadline(cad', s) = Deadline(cad, s)
      BY <2>1, <3>1, <3>2, CadInputs
    <3> QED
      BY <3>3
  <2>3. Deadline(cad, 3) = cad.avail
    BY DEF Deadline
  <2>4. step.ask # "Timeout" => \A s \in Cadences : Deadline(cad', s) = Deadline(cad, s)
    BY <2>2, <2>3
  <2>5. CASE step.ask = "Frame"
    <3>0. pc' = "frames" /\ events' = Append(events, <<cad.due, "Frame">>) /\ cad'.eos = cad.eos
      BY <1>0, <1>4, <2>2, <2>5
    <3>1. AskedFrame
      BY <1>1, <2>5 DEF Asked
    <3>2. PICK k \in DOMAIN plan.frames :
            /\ plan.frames[k] = cad.due /\ Stand(plan, events, cad, k, Call(cad.due, 1, k))
            /\ next = IF Got THEN k + 1 ELSE k
      BY <3>1 DEF AskedFrame
    <3>3. Got
      <4>1. InputResult = "Frame"
        BY <1>4, <2>5
      <4>2. gated.last = "Frame"
        BY <4>1 DEF InputResult
      <4> QED
        BY <1>0, <4>2 DEF HandInv, Parked, Got
    <3>4. next = k + 1
      BY <3>2, <3>3
    <3> DEFINE ev == Append(events, <<cad.due, "Frame">>)
    <3>5. Listed(plan, ev) /\ Stand(plan, ev, cad, k + 1, Call(cad.due, 1, k + 1))
      <4>1. Kinds[1] = "Frame"
        BY DEF Kinds
      <4> QED
        BY <1>0, <1>1, <3>2, <4>1, FrameDone
    <3> HIDE DEF ev, a, e
    <3>6. Stand(plan, ev, cad', next, Call(cad'.due, 1, next))
      BY <2>2, <2>4, <2>5, <3>0, <3>4, <3>5, StandReads
    <3>7. PlaceInv'
      BY <1>2, <3>0, <3>6 DEF PlaceInv, Here, ev
    <3>8. pc' \in Active \ {"admitEnd"}
      BY <3>0 DEF Active, Asking
    <3>9. Listed(plan', events')
      BY <1>2, <3>0, <3>5 DEF ev
    <3> QED
      BY <3>7, <3>8, <3>9, TraceGoes
  <2>6. CASE step.ask = "EndOfStream"
    <3>0. pc' = "timeout" /\ events' = Append(events, <<cad.due, "EndOfStream">>) /\ cad'.eos = TRUE
      BY <1>0, <1>4, <2>2, <2>6
    <3>1. Stand(plan, events, cad, next, Call(cad.due, 2, 0)) /\ Call(cad.due, 2, 0) \in Calls(plan)
      BY <1>1, <2>6 DEF Asked, AskedCall, Here
    <3> DEFINE ev == Append(events, <<cad.due, "EndOfStream">>)
    <3>2. Listed(plan, ev) /\ Stand(plan, ev, cad', next, Call(cad.due, 3, 0))
      <4>1. Kinds[2] = "EndOfStream"
        BY DEF Kinds
      <4>2. \A s \in Cadences : Deadline(cad', s) = Deadline(cad, s)
        BY <2>4, <2>6
      <4> QED
        BY <1>0, <1>1, <3>0, <3>1, <4>1, <4>2, StreamDone
    <3> HIDE DEF ev, a, e
    <3>3. PlaceInv'
      BY <1>2, <2>2, <3>0, <3>2 DEF PlaceInv, Here, ev
    <3>4. pc' \in Active \ {"admitEnd"}
      BY <3>0 DEF Active, Asking
    <3>5. Listed(plan', events')
      BY <1>2, <3>0, <3>2 DEF ev
    <3> QED
      BY <3>3, <3>4, <3>5, TraceGoes
  <2>7. CASE step.ask = "Timeout"
    <3>0. /\ pc' = "poll" /\ events' = Append(events, <<cad.due, "Timeout">>)
          /\ cad'.eos = cad.eos
      BY <1>0, <1>4, <2>2, <2>7
    <3>1. Deadline(cad', 3) = NextDeadline(cad.due, plan.avail, plan.end)
      BY <2>2, <2>7
    <3>2. Stand(plan, events, cad, next, Call(cad.due, 3, 0)) /\ Call(cad.due, 3, 0) \in Calls(plan)
      BY <1>1, <2>7 DEF Asked, AskedCall, Here
    <3> DEFINE ev == Append(events, <<cad.due, "Timeout">>)
    <3>3. Listed(plan, ev) /\ Stand(plan, ev, cad', next, Call(cad.due, 4, 0))
      <4>1. Kinds[3] = "Timeout" /\ Period(plan, 3) = plan.avail /\ 3 + 1 = 4 /\ 3 \in Cadences
        BY DEF Kinds, Period, Cadences
      <4>2. Deadline(cad', 3) = NextDeadline(cad.due, Period(plan, 3), plan.end)
        BY <3>1, <4>1
      <4> HIDE DEF a, e
      <4>3. /\ Listed(plan, Append(events, <<cad.due, Kinds[3]>>))
            /\ Stand(plan, Append(events, <<cad.due, Kinds[3]>>), cad', next, Call(cad.due, 3 + 1, 0))
        BY <1>0, <1>1, <2>2, <3>0, <3>2, <4>1, <4>2, CadenceDone
      <4> QED
        BY <4>1, <4>3
    <3> HIDE DEF ev, a, e
    <3>4. PlaceInv'
      BY <1>2, <2>2, <3>0, <3>3 DEF PlaceInv, Here, ev
    <3>5. pc' \in Active \ {"admitEnd"}
      BY <3>0 DEF Active, Asking
    <3>6. Listed(plan', events')
      BY <1>2, <3>0, <3>3 DEF ev
    <3> QED
      BY <3>4, <3>5, <3>6, TraceGoes
  <2> QED
    BY <1>1, <2>5, <2>6, <2>7 DEF Asked
<1> QED
  BY <1>3, <1>4, DrainCases

\* A cadence step: it is not due, it is done and recorded, or it fails.
LEMMA CadenceTraces ==
  ASSUME TypeInv, RecordInv, ValidInv, TraceInv, pc \in Active, NEW r \in 4..6,
         Stand(plan, events, cad, next, Call(cad.due, r, 0)), UNCHANGED <<plan, next>>,
         pc' \in {"sample", "tick", "loop", "cancel"},
         pc' # "cancel" =>
           pc' = IF r = 4 THEN "sample" ELSE IF r = 5 THEN "tick" ELSE "loop",
         \/ Deadline(cad, r) # cad.due /\ UNCHANGED <<events, cad>> /\ pc' # "cancel"
         \/ /\ Deadline(cad, r) = cad.due /\ pc' # "cancel"
            /\ events' = Append(events, <<cad.due, Kinds[r]>>)
            /\ MovedTo(cad', cad, r, NextDeadline(cad.due, Period(plan, r), plan.end))
         \/ pc' = "cancel" /\ status' = "ControllerFailure" /\ UNCHANGED events
  PROVE  TraceInv'
<1>0. /\ Runs(plan) /\ cad.due \in Nat /\ r \in Cadences /\ Listed(plan, events)
      /\ Deadline(cad, r) \in Int
  BY ActiveRuns, DeadlineIs DEF TypeInv, Cadences, TraceInv
<1>1. CASE pc' = "cancel" /\ status' = "ControllerFailure" /\ UNCHANGED events
  <2>1. pc' \notin Active
    BY <1>1 DEF Active, Asking
  <2> QED
    BY <1>1, <2>1, TraceLeaves
<1>2. ASSUME Stand(plan, events', cad', next, Call(cad'.due, r + 1, 0)), cad'.due \in Nat,
             Listed(plan, events'), pc' # "cancel"
      PROVE  TraceInv'
  <2>1. pc' \in Active \ {"admitEnd"}
    BY <1>2 DEF Active, Asking
  <2>2. \/ pc' = "sample" /\ Here(Call(cad.due, 5, 0))'
        \/ pc' = "tick" /\ Here(Call(cad.due, 6, 0))'
        \/ pc' = "loop" /\ Here(Call(cad.due, 7, 0))'
    <3>1. r = 4 \/ r = 5 \/ r = 6
      OBVIOUS
    <3>2. r = 4 => r + 1 = 5 /\ pc' = "sample"
      BY <1>2
    <3>3. r = 5 => r + 1 = 6 /\ pc' = "tick"
      BY <1>2
    <3>4. r = 6 => r + 1 = 7 /\ pc' = "loop"
      BY <1>2
    <3> DEFINE q == r + 1
    <3>5. Stand(plan', events', cad', next', Call(cad'.due, q, 0))
      BY <1>2
    <3> HIDE DEF q
    <3>6. (r = 4 => q = 5) /\ (r = 5 => q = 6) /\ (r = 6 => q = 7)
      BY <3>2, <3>3, <3>4 DEF q
    <3> QED
      BY <3>1, <3>2, <3>3, <3>4, <3>5, <3>6 DEF Here
  <2>3. LoopPlace(cad', Call(cad'.due, 7, 0))
    BY <1>2 DEF LoopPlace
  <2>4. PlaceInv'
    BY <2>2, <2>3 DEF PlaceInv
  <2> QED
    BY <1>2, <2>1, <2>4, TraceGoes
<1>3. CASE Deadline(cad, r) # cad.due /\ UNCHANGED <<events, cad>> /\ pc' # "cancel"
  <2>1. Stand(plan, events, cad, next, Call(cad.due, r + 1, 0))
    BY <1>0, <1>3, CadenceSkips
  <2> QED
    BY <1>0, <1>2, <1>3, <2>1
<1>4. CASE /\ Deadline(cad, r) = cad.due /\ pc' # "cancel"
           /\ events' = Append(events, <<cad.due, Kinds[r]>>)
           /\ MovedTo(cad', cad, r, NextDeadline(cad.due, Period(plan, r), plan.end))
  <2>1. FirstDue(plan, Deadline(cad, r), r, Call(cad.due, r, 0))
    BY <1>0 DEF Stand, DueAt
  <2>2. Call(cad.due, r, 0) \in Calls(plan)
    BY <1>0, <1>4, <2>1, DueNow
  <2>3. /\ cad'.due = cad.due /\ cad'.eos = cad.eos
        /\ Deadline(cad', r) = NextDeadline(cad.due, Period(plan, r), plan.end)
        /\ \A s \in Cadences : s # r => Deadline(cad', s) = Deadline(cad, s)
    BY <1>4 DEF MovedTo
  <2>4. /\ Listed(plan, Append(events, <<cad.due, Kinds[r]>>))
        /\ Stand(plan, Append(events, <<cad.due, Kinds[r]>>), cad', next, Call(cad.due, r + 1, 0))
    BY <1>0, <2>2, <2>3, CadenceDone
  <2> QED
    BY <1>0, <1>2, <1>4, <2>3, <2>4
<1> QED
  BY <1>1, <1>3, <1>4

LEMMA PollTraces ==
  ASSUME RecordInv, TypeInv, ValidInv, TraceInv, Poll
  PROVE  TraceInv'
<1>0. pc = "poll" /\ pc \in Active /\ Stand(plan, events, cad, next, Call(cad.due, 4, 0))
  BY DEF Poll, Active, Asking, TraceInv, PlaceInv, Here
<1>1. UNCHANGED <<plan, next>>
  BY DEF Poll, Skip, syncVars
<1> DEFINE v == NextDeadline(cad.due, plan.poll, plan.end)
<1>2. \A o, off : Failed(o, off) => pc' = "cancel" /\ status' = "ControllerFailure" /\ UNCHANGED events
  BY DEF Failed, Fail
<1>3. \A o : Did("Poll", o, [cad EXCEPT !.poll = v], "sample") =>
               /\ events' = Append(events, <<cad.due, "Poll">>) /\ pc' = "sample"
               /\ cad' = [cad EXCEPT !.poll = v]
  BY DEF Did, Record
<1>4. Skip("sample") => pc' = "sample" /\ UNCHANGED <<events, cad>>
  BY DEF Skip
<1>5. \/ cad.poll # cad.due /\ UNCHANGED <<events, cad>> /\ pc' = "sample"
      \/ /\ cad.poll = cad.due /\ pc' = "sample" /\ events' = Append(events, <<cad.due, "Poll">>)
         /\ cad' = [cad EXCEPT !.poll = v]
      \/ pc' = "cancel" /\ status' = "ControllerFailure" /\ UNCHANGED events
  BY <1>2, <1>3, <1>4 DEF Poll
<1> HIDE DEF v
<1>6. cad' = [cad EXCEPT !.poll = v] => MovedTo(cad', cad, 4, v)
  BY CadChanges DEF RecordInv
<1>7. Kinds[4] = "Poll" /\ 4 \in 4..6 /\ v = NextDeadline(cad.due, Period(plan, 4), plan.end)
  BY DEF Kinds, Period, v
<1>8. Deadline(cad, 4) = cad.poll
  BY DEF Deadline
<1>9. /\ pc' \in {"sample", "cancel"}
      /\ \/ Deadline(cad, 4) # cad.due /\ UNCHANGED <<events, cad>> /\ pc' # "cancel"
         \/ /\ Deadline(cad, 4) = cad.due /\ pc' # "cancel"
            /\ events' = Append(events, <<cad.due, Kinds[4]>>)
            /\ MovedTo(cad', cad, 4, NextDeadline(cad.due, Period(plan, 4), plan.end))
         \/ pc' = "cancel" /\ status' = "ControllerFailure" /\ UNCHANGED events
  BY <1>5, <1>6, <1>7, <1>8
<1> QED
  BY <1>0, <1>1, <1>7, <1>9, CadenceTraces

LEMMA SampleTraces ==
  ASSUME RecordInv, TypeInv, ValidInv, TraceInv, SampleSignals
  PROVE  TraceInv'
<1>0. pc = "sample" /\ pc \in Active /\ Stand(plan, events, cad, next, Call(cad.due, 5, 0))
  BY DEF SampleSignals, Active, Asking, TraceInv, PlaceInv, Here
<1>1. UNCHANGED <<plan, next>>
  BY DEF SampleSignals, Skip, syncVars
<1> DEFINE v == NextDeadline(cad.due, plan.sample, plan.end)
<1>2. \A o, off : Failed(o, off) => pc' = "cancel" /\ status' = "ControllerFailure" /\ UNCHANGED events
  BY DEF Failed, Fail
<1>3. \A o : Did("SignalSample", o, [cad EXCEPT !.sample = v], "tick") =>
               /\ events' = Append(events, <<cad.due, "SignalSample">>) /\ pc' = "tick"
               /\ cad' = [cad EXCEPT !.sample = v]
  BY DEF Did, Record
<1>4. Skip("tick") => pc' = "tick" /\ UNCHANGED <<events, cad>>
  BY DEF Skip
<1>5. \/ cad.sample # cad.due /\ UNCHANGED <<events, cad>> /\ pc' = "tick"
      \/ /\ cad.sample = cad.due /\ pc' = "tick" /\ events' = Append(events, <<cad.due, "SignalSample">>)
         /\ cad' = [cad EXCEPT !.sample = v]
      \/ pc' = "cancel" /\ status' = "ControllerFailure" /\ UNCHANGED events
  BY <1>2, <1>3, <1>4 DEF SampleSignals
<1> HIDE DEF v
<1>6. cad' = [cad EXCEPT !.sample = v] => MovedTo(cad', cad, 5, v)
  BY CadChanges DEF RecordInv
<1>7. Kinds[5] = "SignalSample" /\ 5 \in 4..6 /\ v = NextDeadline(cad.due, Period(plan, 5), plan.end)
  BY DEF Kinds, Period, v
<1>8. Deadline(cad, 5) = cad.sample
  BY DEF Deadline
<1>9. /\ pc' \in {"tick", "cancel"}
      /\ \/ Deadline(cad, 5) # cad.due /\ UNCHANGED <<events, cad>> /\ pc' # "cancel"
         \/ /\ Deadline(cad, 5) = cad.due /\ pc' # "cancel"
            /\ events' = Append(events, <<cad.due, Kinds[5]>>)
            /\ MovedTo(cad', cad, 5, NextDeadline(cad.due, Period(plan, 5), plan.end))
         \/ pc' = "cancel" /\ status' = "ControllerFailure" /\ UNCHANGED events
  BY <1>5, <1>6, <1>7, <1>8
<1> QED
  BY <1>0, <1>1, <1>7, <1>9, CadenceTraces

LEMMA TickTraces ==
  ASSUME RecordInv, TypeInv, ValidInv, TraceInv, TickOutput
  PROVE  TraceInv'
<1>0. pc = "tick" /\ pc \in Active /\ Stand(plan, events, cad, next, Call(cad.due, 6, 0))
  BY DEF TickOutput, Active, Asking, TraceInv, PlaceInv, Here
<1>1. UNCHANGED <<plan, next>>
  BY DEF TickOutput, Skip, syncVars
<1> DEFINE v == NextDeadline(cad.due, plan.tick, plan.end)
<1>2. \A o, off : Failed(o, off) => pc' = "cancel" /\ status' = "ControllerFailure" /\ UNCHANGED events
  BY DEF Failed, Fail
<1>3. \A o : Did("OutputTick", o, [cad EXCEPT !.tick = v], "loop") =>
               /\ events' = Append(events, <<cad.due, "OutputTick">>) /\ pc' = "loop"
               /\ cad' = [cad EXCEPT !.tick = v]
  BY DEF Did, Record
<1>4. Skip("loop") => pc' = "loop" /\ UNCHANGED <<events, cad>>
  BY DEF Skip
<1>5. \/ cad.tick # cad.due /\ UNCHANGED <<events, cad>> /\ pc' = "loop"
      \/ /\ cad.tick = cad.due /\ pc' = "loop" /\ events' = Append(events, <<cad.due, "OutputTick">>)
         /\ cad' = [cad EXCEPT !.tick = v]
      \/ pc' = "cancel" /\ status' = "ControllerFailure" /\ UNCHANGED events
  BY <1>2, <1>3, <1>4 DEF TickOutput
<1> HIDE DEF v
<1>6. cad' = [cad EXCEPT !.tick = v] => MovedTo(cad', cad, 6, v)
  BY CadChanges DEF RecordInv
<1>7. Kinds[6] = "OutputTick" /\ 6 \in 4..6 /\ v = NextDeadline(cad.due, Period(plan, 6), plan.end)
  BY DEF Kinds, Period, v
<1>8. Deadline(cad, 6) = cad.tick
  BY DEF Deadline
<1>9. /\ pc' \in {"loop", "cancel"}
      /\ \/ Deadline(cad, 6) # cad.due /\ UNCHANGED <<events, cad>> /\ pc' # "cancel"
         \/ /\ Deadline(cad, 6) = cad.due /\ pc' # "cancel"
            /\ events' = Append(events, <<cad.due, Kinds[6]>>)
            /\ MovedTo(cad', cad, 6, NextDeadline(cad.due, Period(plan, 6), plan.end))
         \/ pc' = "cancel" /\ status' = "ControllerFailure" /\ UNCHANGED events
  BY <1>5, <1>6, <1>7, <1>8
<1> QED
  BY <1>0, <1>1, <1>7, <1>9, CadenceTraces

\* The start is over: nothing is recorded, and every cadence begins.
LEMMA StartDrainTraces ==
  ASSUME RecordInv, TypeInv, ValidInv, TraceInv, StartDrain
  PROVE  TraceInv'
<1>0. /\ pc = "startDrain" /\ Runs(plan) /\ next = 1 /\ events = << >>
  <2>1. pc = "startDrain" /\ pc \in Active
    BY DEF StartDrain, Active
  <2> QED
    BY <2>1, ActiveRuns DEF TypeInv
<1>1. UNCHANGED <<plan, events, next>>
  BY DEF StartDrain, syncVars
<1>2. CASE pc' = "cancel" /\ status' = "ControllerFailure"
  <2>1. pc' \notin Active
    BY <1>2 DEF Active, Asking
  <2> QED
    BY <1>1, <1>2, <2>1, TraceLeaves
<1>3. CASE /\ pc' = "loop"
           /\ cad' = [due |-> 0, poll |-> 0, tick |-> 0, eos |-> FALSE,
                      avail |-> NextDeadline(0, plan.avail, plan.end),
                      sample |-> IF plan.sample = None THEN None ELSE 0]
  <2>1. Stand(plan, << >>, cad', 1, Call(0, 0, 0))
    BY <1>0, <1>3, StandBegins
  <2>2. LoopPlace(cad', Call(0, 0, 0))
    BY DEF LoopPlace
  <2>3. \E at : LoopPlace(cad', at) /\ Stand(plan', events', cad', next', at)
    BY <1>0, <1>1, <2>1, <2>2
  <2>4. PlaceInv'
    BY <1>3, <2>3 DEF PlaceInv, Here
  <2>5. pc' \in Active \ {"admitEnd"}
    BY <1>3 DEF Active, Asking
  <2> QED
    BY <1>1, <2>4, <2>5, TraceGoes DEF TraceInv
<1> QED
  BY <1>2, <1>3 DEF StartDrain

\* The publication is there: what was asked for stays so.
LEMMA SeenTraces == ASSUME TraceInv, PublicationSeen PROVE TraceInv'
<1>1. /\ UNCHANGED <<plan, events, cad, next, gated, worker, step>> /\ pc = "wait" /\ pc' = "drain"
  BY DEF PublicationSeen, Skip, syncVars
<1>2. Asked
  BY <1>1 DEF TraceInv, PlaceInv
<1>3. Asked'
  BY <1>1, <1>2 DEF Asked, AskedCall, AskedFrame, Here, Got
<1>4. PlaceInv'
  BY <1>1, <1>3 DEF PlaceInv
<1>5. pc' \in Active \ {"admitEnd"}
  BY <1>1 DEF Active, Asking
<1> QED
  BY <1>1, <1>4, <1>5, TraceGoes DEF TraceInv

\* The worker takes what was granted, and nothing else.
LEMMA WorkerTraces ==
  ASSUME RecordInv, HandInv, TypeInv, TraceInv, WorkerStep
  PROVE  TraceInv'
<1>0. Worker /\ UNCHANGED <<pc, plan, cad, events, step, status>> /\ gated \in GatedRecords
  BY DEF WorkerStep, Worker, WorkerWakes, WorkerReceives, PublicationCompleted, WorkerReleased,
         RecordInv
<1>1. ASSUME Asked, UnderWay PROVE Asked'
  <2> DEFINE frame == gated.grant = "Receive" /\ NextFrameTime # None /\ NextFrameTime <= clock
  <2>1. CASE WorkerWakes
    <3>1. /\ gated.pending /\ worker' = "receiving" /\ gated' = [gated EXCEPT !.pending = FALSE]
          /\ UNCHANGED next
      BY <1>1, <2>1 DEF UnderWay, WorkerWakes
    <3>2. ~Got /\ ~Got' /\ (gated.grant)' = gated.grant
      BY <1>0, <3>1 DEF Got, GatedRecords
    <3>3. AskedFrame => AskedFrame'
      BY <1>0, <3>1, <3>2 DEF AskedFrame
    <3>4. \A r \in {2, 3} : AskedCall(r) => AskedCall(r)'
      BY <1>0, <3>1 DEF AskedCall, Here
    <3> QED
      BY <1>0, <1>1, <3>1, <3>2, <3>3, <3>4 DEF Asked
  <2>2. CASE WorkerReceives
    <3>1. /\ worker = "receiving" /\ worker' = "publishing" /\ ~gated.pending
          /\ gated' = [gated EXCEPT !.last = IF frame THEN "Frame" ELSE "Timeout"]
          /\ next' = IF frame THEN next + 1 ELSE next
      BY <1>1, <2>2 DEF UnderWay, WorkerReceives
    <3>2. ~Got /\ (gated.grant)' = gated.grant /\ (Got' <=> frame)
      <4> DEFINE l == IF frame THEN "Frame" ELSE "Timeout"
      <4>1. l = "Frame" <=> frame
        OBVIOUS
      <4>2. gated' = [gated EXCEPT !.last = l]
        BY <3>1
      <4> HIDE DEF l, frame
      <4>3. /\ (gated.grant)' = gated.grant /\ (gated.pending)' = gated.pending
            /\ (gated.last)' = l
        BY <1>0, <4>2 DEF GatedRecords
      <4> QED
        BY <3>1, <4>1, <4>3 DEF Got
    <3>3. AskedFrame => AskedFrame'
      <4> HIDE DEF frame
      <4> SUFFICES ASSUME AskedFrame PROVE AskedFrame'
        OBVIOUS
      <4>1. PICK k \in DOMAIN plan.frames :
              /\ plan.frames[k] = cad.due /\ Stand(plan, events, cad, k, Call(cad.due, 1, k))
              /\ next = IF Got THEN k + 1 ELSE k
        BY DEF AskedFrame
      <4>2. next = k
        BY <3>2, <4>1
      <4>3. next' = IF Got' THEN k + 1 ELSE k
        BY <3>1, <3>2, <4>2
      <4> QED
        BY <1>0, <4>1, <4>3 DEF AskedFrame
    <3>4. AskedCall(2) /\ next > Len(plan.frames) => (AskedCall(2) /\ next > Len(plan.frames))'
      <4>1. next > Len(plan.frames) => NextFrameTime = None
        BY DEF NextFrameTime
      <4>2. NextFrameTime = None => next' = next
        BY <3>1
      <4> HIDE DEF frame
      <4> QED
        BY <1>0, <4>1, <4>2 DEF AskedCall, Here
    <3>5. AskedCall(3) /\ gated.grant = "Timeout" => (AskedCall(3) /\ gated.grant = "Timeout")'
      <4>1. gated.grant = "Timeout" => next' = next
        BY <3>1
      <4> HIDE DEF frame
      <4> QED
        BY <1>0, <3>2, <4>1 DEF AskedCall, Here
    <3> HIDE DEF frame
    <3> QED
      BY <1>0, <1>1, <3>3, <3>4, <3>5 DEF Asked
  <2>3. CASE PublicationCompleted \/ WorkerReleased
    <3>1. UNCHANGED <<gated, next>> /\ worker # "receiving" /\ worker' # "receiving"
      BY <2>3 DEF PublicationCompleted, WorkerReleased
    <3>2. Got' <=> Got
      BY <3>1 DEF Got
    <3>3. AskedFrame => AskedFrame'
      BY <1>0, <3>1, <3>2 DEF AskedFrame
    <3>4. \A r \in {2, 3} : AskedCall(r) => AskedCall(r)'
      BY <1>0, <3>1 DEF AskedCall, Here
    <3> QED
      BY <1>0, <1>1, <3>1, <3>3, <3>4 DEF Asked
  <2> HIDE DEF frame
  <2> QED
    BY <1>0, <2>1, <2>2, <2>3 DEF Worker
<1>2. ~Parked
  BY <1>0, ParkedStays DEF RecordInv
<1>3. pc \notin Asking
  BY <1>2 DEF HandInv
<1>4. pc' \notin {"loop", "admit", "admitEnd", "frames", "eof", "timeout", "poll", "sample", "tick",
                  "drain"}
  BY <1>0, <1>3 DEF Asking
<1>5. pc' = "wait" => Asked'
  BY <1>0, <1>1 DEF TraceInv, PlaceInv, HandInv
<1>6. PlaceInv'
  BY <1>4, <1>5 DEF PlaceInv
<1>7. DoneInv'
  BY <1>0 DEF TraceInv, DoneInv, Done
<1> QED
  BY <1>0, <1>6, <1>7 DEF TraceInv

\* A replay that is set up, starts or fails to start has recorded nothing.
LEMMA BeginTraces ==
  ASSUME TypeInv, TraceInv, RunReplay \/ Start \/ Load \/ PassEnds
  PROVE  TraceInv'
<1>0. pc \in {"load", "start", "startDrain"} => events = << >>
  BY DEF TypeInv
<1>1. CASE RunReplay
  <2>1. events' = << >> /\ pc' = IF status' = "Ok" THEN "start" ELSE "over"
    BY <1>1 DEF RunReplay, NewReplay
  <2> QED
    BY <2>1, TraceFresh DEF Active, Asking, Stopping
<1>2. CASE Start
  <2>1. events' = << >>
    BY <1>0, <1>2 DEF Start
  <2>2. \/ pc' \in {"destroy", "cancel"} /\ status' = "ControllerFailure"
        \/ pc' = "startDrain"
    BY <1>2 DEF Start
  <2> QED
    BY <2>1, <2>2, TraceFresh DEF Active, Asking, Stopping
<1>3. CASE Load
  <2>1. events' = << >> /\ pc' \in {"serverStart", "run", "exit"}
    BY <1>0, <1>3 DEF Load
  <2> QED
    BY <2>1, TraceFresh DEF Active, Asking, Stopping
<1>4. CASE PassEnds
  <2>1. events' = << >> /\ pc' \in {"restart", "finish", "endSession", "await"}
    BY <1>4 DEF PassEnds, NewReplay
  <2> QED
    BY <2>1, TraceFresh DEF Active, Asking, Stopping
<1> QED
  BY <1>1, <1>2, <1>3, <1>4

\* What follows the loop keeps the record.
LEMMA LeavingTraces ==
  ASSUME TraceInv, Leaving, ~Load, ~PassEnds
  PROVE  TraceInv'
<1>1. pc' \notin Active
  BY LeavingLeaves
<1>2. UNCHANGED <<plan, events>>
  BY DEF Leaving, SynchronizationTimeout, Cancel, StopTelemetry, StopDone, StopTimesOut, Destroy,
         RenderEnds, ServerStart, Accept, ServeEnds, BeginPass, SendRestart, Finish, EndSession,
         PollClosed, replayVars
<1>3. pc' \in Stopping /\ status' = "Ok" => pc \in Stopping /\ status = "Ok"
  <2>1. CASE SynchronizationTimeout \/ PollClosed
    BY <2>1 DEF SynchronizationTimeout, Fail, PollClosed, Polling, Gating, Interrupt, Stopping
  <2>2. CASE Cancel \/ StopTelemetry \/ Destroy
    BY <2>2 DEF Cancel, StopTelemetry, Destroy, Stopping
  <2>3. CASE StopDone \/ StopTimesOut
    <3>1. pc = "stopWait" /\ (\E q \in BOOLEAN : FinishStop(q))
      BY <2>3 DEF StopDone, StopTimesOut
    <3>2. status' = status \/ status' = "ControllerFailure"
      BY <3>1 DEF FinishStop
    <3> QED
      BY <3>1, <3>2 DEF Stopping
  <2>4. CASE RenderEnds \/ ServerStart \/ Accept \/ ServeEnds \/ BeginPass
    BY <2>4 DEF RenderEnds, ServerStart, Accept, ServeEnds, BeginPass, Stopping
  <2>5. CASE SendRestart \/ Finish \/ EndSession
    BY <2>5 DEF SendRestart, Finish, EndSession, Stopping
  <2> QED
    BY <2>1, <2>2, <2>3, <2>4, <2>5 DEF Leaving
<1>4. pc' \in Stopping /\ status' = "Ok" => Done
  BY <1>3 DEF Done
<1> QED
  BY <1>1, <1>2, <1>4, TraceLeaves

\* The browser and the clock leave it, or interrupt the replay.
LEMMA WatchingTraces == ASSUME TraceInv, Watching PROVE TraceInv'
<1>1. UNCHANGED <<plan, events, cad, next, gated, worker, step>>
  BY WatchingStays DEF replayVars, syncVars, ctlVars
<1>2. \/ pc' = pc /\ status' = status
      \/ pc' \in {"cancel", "restart", "finish"} /\ (pc' = "cancel" => status' # "Ok")
  BY DEF Watching, PollReceives, PollFrame, Interrupt, BrowserSends, BrowserLeaves, WallTick,
         RequestShutdown
<1>3. CASE pc' = pc /\ status' = status
  <2>1. Asked => Asked'
    BY <1>1 DEF Asked, AskedCall, AskedFrame, Here, Got
  <2>2. PlaceInv'
    BY <1>1, <1>3, <2>1 DEF TraceInv, PlaceInv, Here
  <2>3. DoneInv'
    BY <1>1, <1>3 DEF TraceInv, DoneInv, Done
  <2> QED
    BY <1>1, <2>2, <2>3 DEF TraceInv
<1>4. CASE pc' \in {"cancel", "restart", "finish"} /\ (pc' = "cancel" => status' # "Ok")
  <2>1. pc' \notin Active /\ ~(pc' \in Stopping /\ status' = "Ok")
    BY <1>4 DEF Active, Asking, Stopping
  <2> QED
    BY <1>1, <2>1, TraceLeaves
<1> QED
  BY <1>2, <1>3, <1>4

\* What runs has been validated, and what was refused stays refused.
LEMMA ValidStep == ASSUME TypeInv, ValidInv, Next PROVE ValidInv'
<1>0. ASSUME UNCHANGED plan, pc' \in Active => pc \in Active,
             status' = "InvalidOptions" => status = "InvalidOptions"
      PROVE  ValidInv'
  BY <1>0 DEF ValidInv
<1>1. CASE RunReplay
  <2>1. /\ UNCHANGED plan /\ status' = Validate(plan)
        /\ pc' = IF status' = "Ok" THEN "start" ELSE "over"
    BY <1>1 DEF RunReplay
  <2>2. "over" \notin Active
    BY DEF Active, Asking
  <2>3. Validate(plan)' = Validate(plan)
    BY <2>1 DEF Validate, FitsEventBudget
  <2> HIDE DEF Validate
  <2>4. /\ pc' \in Active => Validate(plan)' = "Ok"
        /\ status' = "InvalidOptions" => Validate(plan)' = "InvalidOptions"
    BY <2>1, <2>2, <2>3
  <2> QED
    BY <2>4 DEF ValidInv
<1>2. CASE Start \/ StartDrain
  <2>1. UNCHANGED plan /\ pc \in Active /\ (status' = status \/ status' = "ControllerFailure")
    BY <1>2 DEF Start, StartDrain, Active
  <2> QED
    BY <1>0, <2>1
<1>3. CASE Working
  <2>1. UNCHANGED plan /\ pc \in Active
    BY <1>3, WorkingStays, AsksAreActive
  <2>2. status' \in {status, "ControllerFailure", "ClockFailure"}
    <3>1. \A to : Skip(to) => status' = status
      BY DEF Skip
    <3>2. \A kind, o, c, to : Did(kind, o, c, to) => status' = status
      BY DEF Did
    <3>3. \A o, off : Fail(o, off) => status' = "ControllerFailure"
      BY DEF Fail
    <3>4. \A o, off : Failed(o, off) => status' = "ControllerFailure"
      BY <3>3 DEF Failed
    <3>5. CASE Loop \/ Ungated \/ Release
      BY <3>5 DEF Loop, Ungated, Release, AdvanceTo
    <3>6. CASE Drain
      BY <3>3, <3>6 DEF Drain
    <3>7. CASE Poll \/ SampleSignals \/ TickOutput
      BY <3>1, <3>2, <3>4, <3>7 DEF Poll, SampleSignals, TickOutput
    <3> QED
      BY <1>3, <3>5, <3>6, <3>7 DEF Working
  <2> QED
    BY <1>0, <2>1, <2>2
<1>4. CASE Granting \/ PublicationSeen
  <2>1. /\ UNCHANGED plan /\ pc \in Active
        /\ status' = status \/ status' = "ControllerFailure"
    BY <1>4, GrantingCases DEF PublicationSeen, Skip, ProcessInput, Fail, Active, Asking
  <2> QED
    BY <1>0, <2>1
<1>5. CASE Load
  <2>1. pc' \notin Active /\ (status' = status \/ status' = "LoadFailed") /\ pc = "load"
    BY <1>5, LeavingLeaves DEF Leaving, Load
  <2>2. status = "Ok"
    BY <2>1 DEF TypeInv
  <2> QED
    BY <2>1, <2>2 DEF ValidInv
<1>6. CASE Leaving /\ ~Load
  <2>1. pc' \notin Active
    BY <1>6, LeavingLeaves
  <2>2. UNCHANGED plan
    BY <1>6 DEF Leaving, SynchronizationTimeout, Cancel, StopTelemetry, StopDone, StopTimesOut,
                Destroy, RenderEnds, ServerStart, Accept, ServeEnds, BeginPass, PassEnds,
                SendRestart, Finish, EndSession, PollClosed, replayVars
  <2>3. status' = "InvalidOptions" => status = "InvalidOptions"
    BY <1>6 DEF Leaving, SynchronizationTimeout, Fail, Cancel, StopTelemetry, StopDone,
                StopTimesOut, FinishStop, Destroy, RenderEnds, ServerStart, Accept, ServeEnds,
                BeginPass, PassEnds, SendRestart, Finish, EndSession, PollClosed, Interrupt
  <2> QED
    BY <1>0, <2>1, <2>2, <2>3
<1>7. CASE Watching
  <2>1. UNCHANGED plan /\ (pc' \in Active => pc \in Active)
    BY <1>7, WatchingStays DEF replayVars
  <2>2. status' \in {status, "Interrupted"}
    BY <1>7 DEF Watching, PollReceives, PollFrame, Interrupt, BrowserSends, BrowserLeaves, WallTick,
                RequestShutdown
  <2> QED
    BY <1>0, <2>1, <2>2
<1>8. CASE WorkerStep
  <2>1. UNCHANGED <<plan, pc, status>>
    BY <1>8 DEF WorkerStep, Worker, WorkerWakes, WorkerReceives, PublicationCompleted,
                WorkerReleased
  <2> QED
    BY <1>0, <2>1
<1> QED
  BY <1>1, <1>2, <1>3, <1>4, <1>5, <1>6, <1>7, <1>8, NextCases

LEMMA TraceStep ==
  ASSUME RecordInv, HandInv, TypeInv, ValidInv, TraceInv, Next
  PROVE  TraceInv'
<1>1. CASE RunReplay \/ Start \/ Load \/ PassEnds
  BY <1>1, BeginTraces
<1>2. CASE StartDrain
  BY <1>2, StartDrainTraces
<1>3. CASE PublicationSeen
  BY <1>3, SeenTraces
<1>4. CASE Working
  BY <1>4, LoopTraces, ReleaseTraces, DrainTraces, PollTraces, SampleTraces, TickTraces DEF Working
<1>5. CASE Granting
  BY <1>5, FramesTraces, EndOfStreamTraces, AvailabilityTraces DEF Granting
<1>6. CASE Leaving /\ ~Load /\ ~PassEnds
  BY <1>6, LeavingTraces
<1>7. CASE Watching
  BY <1>7, WatchingTraces
<1>8. CASE WorkerStep
  BY <1>8, WorkerTraces
<1> QED
  BY <1>1, <1>2, <1>3, <1>4, <1>5, <1>6, <1>7, <1>8, NextCases

SchedInv == TypeInv /\ ValidInv /\ TraceInv

LEMMA SchedInit == ASSUME EmulatorInit PROVE SchedInv
<1>1. TypeInv
  BY TypesInit
<1>2. pc = "load" /\ status = "Ok" /\ events = << >>
  BY DEF EmulatorInit, Init
<1>3. ValidInv
  BY <1>2 DEF ValidInv, Active, Asking
<1>4. TraceInv
  BY <1>2, ListedNothing DEF TraceInv, PlaceInv, DoneInv, Done, Stopping
<1> QED
  BY <1>1, <1>3, <1>4 DEF SchedInv

LEMMA SchedStep == ASSUME EmuInv, SchedInv, [Next]_allVars PROVE SchedInv'
<1>1. CASE Next
  BY <1>1, TypesStep, ValidStep, TraceStep DEF EmuInv, SchedInv
<1>2. CASE UNCHANGED allVars
  <2>1. UNCHANGED vars /\ UNCHANGED shutdown
    BY <1>2 DEF allVars, webVars
  <2>2. UNCHANGED <<pc, plan, clock, next, gated, worker, tele, step, cad, status, events, attached,
                    shutdown>>
    BY <2>1 DEF vars, syncVars, ctlVars
  <2>3. TypeInv'
    BY <2>2 DEF SchedInv, TypeInv
  <2>4. ValidInv'
    BY <2>2 DEF SchedInv, ValidInv
  <2>5. TraceInv'
    <3>1. Asked => Asked'
      BY <2>2 DEF Asked, AskedCall, AskedFrame, Here, Got
    <3> QED
      BY <2>2, <3>1 DEF SchedInv, TraceInv, PlaceInv, DoneInv, Done, Here
  <2> QED
    BY <2>3, <2>4, <2>5 DEF SchedInv
<1> QED
  BY <1>1, <1>2

-----------------------------------------------------------------------------
(* The theorems.                                                           *)

\* The invariant holds at the start, and no step of the host, the worker, the browser or the
\* clock leaves it.
LEMMA EmuStart == ASSUME EmulatorInit PROVE EmuInv
BY RecordInit, HandInit, ObsInit, StatusInit, WireInit, PaceInit, ChanInit DEF EmuInv

LEMMA EmuIdle == ASSUME EmuInv, UNCHANGED allVars PROVE EmuInv'
<1>1. UNCHANGED vars /\ UNCHANGED webVars
  BY DEF allVars
<1>2. RecordInv' /\ HandInv' /\ ObsInv' /\ StatusInv'
  BY <1>1 DEF vars, webVars, EmuInv, RecordInv, HandInv, Parked, UnderWay, ObsInv, StatusInv
<1>3. UNCHANGED <<mode, pc, clock, wall, credit, pacer, chan, net, owed>>
  BY <1>1 DEF vars, webVars
<1>4. PaceInv'
  BY <1>3, PacePartsNext, PaceParts DEF EmuInv
<1>5. ChanInv'
  BY <1>3, ChanStays DEF EmuInv
<1>6. WireInv'
  BY <1>1 DEF vars, webVars, EmuInv, WireInv, StripDarkAtEnd
<1> QED
  BY <1>2, <1>4, <1>5, <1>6 DEF EmuInv

LEMMA EmuStep == ASSUME EmuInv, [Next]_allVars PROVE EmuInv'
<1>1. CASE Next
  BY <1>1, RecordStep, HandStep, ObsStep, StatusStep, WireStep, PaceStep, ChanStep DEF EmuInv
<1>2. CASE UNCHANGED allVars
  BY <1>2, EmuIdle
<1> QED
  BY <1>1, <1>2

\* Every part of the invariant, for replays that are rendered and replays that are served:
\* GatedReplaySource and PublicationBarrier, the observers, the output stream, the pacer's
\* account and the channel's bytes (lib/replay).
THEOREM EmulatorHolds == Spec => []EmuInv
<1>1. EmulatorInit => EmuInv
  BY EmuStart
<1>2. EmuInv /\ [Next]_allVars => EmuInv'
  BY EmuStep
<1> QED
  BY <1>1, <1>2, PTL DEF Spec

LEMMA QuiescentNext == ASSUME HandInv' PROVE HostReadsQuiescent'
<1>1. pc' \in {"drain", "poll", "sample", "tick", "admit"} => pc' \in Asking
  BY DEF Asking
<1>2. pc' \in Asking => Parked'
  BY DEF HandInv
<1>3. Parked' => worker' \in {"waiting", "held"} /\ ~(gated.pending)'
  BY DEF Parked
<1> QED
  BY <1>1, <1>2, <1>3 DEF HostReadsQuiescent

\* While the host drains, samples, ticks or waits at the gate, the worker is parked with
\* nothing granted, and the engine and the observers are detached only from telemetry that
\* has stopped (ReplayController's step barrier and stop()).
THEOREM HostAndWorkerStayApart == Spec => HostAndWorkerApart
<1>1. EmuInv /\ [Next]_allVars => [HostReadsQuiescent' /\ ConsumersLeaveQuietFacade]_vars
  <2>1. ASSUME EmuInv, Next PROVE HostReadsQuiescent' /\ ConsumersLeaveQuietFacade
    <3>1. EmuInv'
      BY <2>1, EmuStep
    <3>2. HandInv'
      BY <3>1 DEF EmuInv
    <3> QED
      BY <2>1, <3>2, QuiescentNext, DetachStep DEF EmuInv
  <2>2. UNCHANGED allVars => UNCHANGED vars
    BY DEF allVars
  <2> QED
    BY <2>1, <2>2
<1> QED
  BY <1>1, EmulatorHolds, PTL DEF Spec, HostAndWorkerApart

\* Observers hear of a replay only once its start has succeeded, the stream of pixel records
\* keeps its grammar, and a replay that ends, however it ends, leaves the strip dark
\* (SignalObserverFanOut, JsonlPixelFrameSink, LocalArgbOutputStage::fail_off()).
THEOREM ConsumersAlwaysSeeOneReplay == Spec => []ConsumersSeeOneReplay
<1>1. EmuInv => ConsumersSeeOneReplay
  <2> SUFFICES ASSUME EmuInv PROVE ConsumersSeeOneReplay
    OBVIOUS
  <2>1. ObserversSeeStartedReplay
    BY DEF EmuInv, ObsInv, ObsOk, ObserversSeeStartedReplay
  <2>2. StreamGrammar
    <3>1. Grammatical(wire, sink.good)
      BY DEF EmuInv, WireInv, StreamOk
    <3> QED
      BY <3>1 DEF Grammatical, GrammarAt, StreamGrammar
  <2>3. StripDarkAtEnd
    BY DEF EmuInv, WireInv
  <2> QED
    BY <2>1, <2>2, <2>3 DEF ConsumersSeeOneReplay
<1> QED
  BY <1>1, EmulatorHolds, PTL

\* What is played of a growing span only grows, and nothing is played of none.
LEMMA SpanGrows ==
  ASSUME NEW r \in DOMAIN Rates, NEW n \in Nat
  PROVE  ReplaySpan(r, 0) = 0 /\ ReplaySpan(r, n) <= ReplaySpan(r, n + 1)
<1>1. CASE Rates[r].num = 1 /\ Rates[r].den = 4
  BY <1>1 DEF ReplaySpan, Scale
<1>2. CASE Rates[r].num = 1 /\ Rates[r].den = 2
  BY <1>2 DEF ReplaySpan, Scale
<1>3. CASE Rates[r].den = 1 /\ Rates[r].num \in {1, 2, 5}
  BY <1>3 DEF ReplaySpan, Scale
<1> QED
  BY <1>1, <1>2, <1>3, RateNumbers

\* A command leaves the player where it stood, or at the due time that it had passed.
LEMMA ReanchorKeepsPlace ==
  ASSUME NEW p \in PacerRecords, NEW due \in Int, NEW command, wall \in Nat,
         command.kind = "SetRate" => command.rate \in DOMAIN Rates
  PROVE  LET before == Shown(p, wall) after == Shown(Reanchored(p, command, due), wall)
         IN  after = before \/ (after = due /\ after < before)
<1> DEFINE z == p.anchorReplay
           here == Position(p, wall)
           S == {due, here}
           at == IF p.paused THEN z ELSE Min(S)
           rate == IF command.kind = "SetRate" THEN command.rate ELSE p.rate
           paused == IF command.kind = "SetRate" THEN p.paused ELSE command.kind = "Pause"
           r == [p EXCEPT !.paused = paused, !.rate = rate, !.anchorWall = wall,
                          !.anchorReplay = at]
<1>1. p.anchorWall \in Nat /\ z \in Int /\ p.rate \in DOMAIN Rates /\ p.paused \in BOOLEAN
  BY DEF PacerRecords
<1>2. here \in Int
  <2>1. wall - p.anchorWall \in Int
    BY <1>1
  <2>2. ReplaySpan(p.rate, wall - p.anchorWall) \in Int
    BY <1>1, <2>1, SpansRound
  <2> QED
    BY <1>1, <2>2 DEF Position
<1>3. Reanchored(p, command, due) = r
  BY DEF Reanchored
<1>4. rate \in DOMAIN Rates /\ paused \in BOOLEAN
  BY <1>1
<1>5. at \in Int /\ (at = Shown(p, wall) \/ (at = due /\ at < Shown(p, wall)))
  <2>1. CASE p.paused
    BY <1>1, <2>1 DEF Shown
  <2>2. CASE ~p.paused
    <3> HIDE DEF here
    <3>1. HasLeast(S) /\ S # {} /\ here \in S
      BY <1>2 DEF HasLeast
    <3>2. \A m \in S : m = due \/ m = here
      OBVIOUS
    <3> HIDE DEF S
    <3>3. Min(S) \in S /\ Min(S) \in Int /\ Min(S) <= here
      BY <3>1, MinIsLeast
    <3>4. Min(S) = here \/ (Min(S) = due /\ Min(S) < here)
      BY <1>2, <3>2, <3>3
    <3>5. at = Min(S) /\ Shown(p, wall) = here
      BY <2>2 DEF Shown, here
    <3> HIDE DEF at
    <3> QED
      BY <3>3, <3>4, <3>5
  <2> QED
    BY <1>1, <2>1, <2>2
<1> HIDE DEF at, rate, paused
<1>6. /\ r.anchorWall = wall /\ r.anchorReplay = at /\ r.rate = rate
      /\ r.paused \in BOOLEAN
  BY <1>4, <1>5 DEF PacerRecords
<1> HIDE DEF r
<1>7. Shown(r, wall) = at
  <2>1. ReplaySpan(rate, 0) = 0 /\ wall - wall = 0
    BY <1>4, SpanGrows
  <2>2. Position(r, wall) = at
    BY <1>5, <1>6, <2>1 DEF Position
  <2> QED
    BY <1>6, <2>2 DEF Shown
<1> QED
  BY <1>3, <1>5, <1>7

\* Only the wall clock moves the player.
LEMMA TimelineStep == ASSUME EmuInv, Next PROVE TimelineKept
<1> SUFFICES ASSUME Gating, Gating' PROVE
      \/ Shown(pacer', wall') = Shown(pacer, wall)
      \/ wall' > wall /\ ~pacer.paused /\ Shown(pacer', wall') > Shown(pacer, wall)
      \/ wall' = wall /\ Shown(pacer', wall') = cad.due /\ Shown(pacer', wall') < Shown(pacer, wall)
  BY DEF TimelineKept
<1>0. /\ pacer \in PacerRecords /\ wall \in Nat /\ mode = "web" /\ pc \in {"admit", "admitEnd"}
      /\ pc' \in {"admit", "admitEnd"} /\ pacer.anchorWall <= wall
  BY DEF EmuInv, PaceInv, Gating, PacerRecords, OutsidePass
<1>1. CASE UNCHANGED <<pacer, wall>>
  BY <1>1
<1>2. CASE WallTick
  <2>1. wall' = wall + 1 /\ pacer' = pacer
    BY <1>2 DEF WallTick
  <2>2. CASE pacer.paused
    BY <2>1, <2>2 DEF Shown
  <2>3. CASE ~pacer.paused
    <3> DEFINE n == wall - pacer.anchorWall
               here == ReplaySpan(pacer.rate, n)
               there == ReplaySpan(pacer.rate, n + 1)
    <3>1. /\ pacer.rate \in DOMAIN Rates /\ pacer.anchorReplay \in Int /\ n \in Nat
          /\ wall' - pacer.anchorWall = n + 1
      BY <1>0, <2>1 DEF PacerRecords
    <3> HIDE DEF n
    <3>2. here \in Int /\ there \in Int /\ here <= there
      BY <3>1, SpansRound, SpanGrows
    <3>3. Shown(pacer, wall) = pacer.anchorReplay + here
      BY <2>3 DEF Shown, Position, n
    <3>4. Shown(pacer', wall') = pacer.anchorReplay + there
      BY <2>1, <2>3, <3>1 DEF Shown, Position
    <3> HIDE DEF here, there
    <3> QED
      BY <1>0, <2>1, <2>3, <3>1, <3>2, <3>3, <3>4
  <2> QED
    BY <2>2, <2>3
<1>3. CASE PollFrame
  <2> DEFINE command == ParsePlaybackCommand(Head(chan.buffer).frame.text)
  <2>1. pacer' = pacer \/ (\E how : Interrupt(how)) \/ pacer' = Reanchored(pacer, command, Due)
    BY <1>3 DEF PollFrame
  <2>2. ~ \E how : Interrupt(how)
    BY <1>0 DEF Interrupt
  <2>3. wall' = wall /\ Due = cad.due /\ cad.due \in Int
    BY <1>0, <1>3 DEF PollFrame, Due, EmuInv, RecordInv, CadRecords
  <2>4. command.kind = "SetRate" => command.rate \in DOMAIN Rates
    BY CommandRate
  <2> HIDE DEF command
  <2> QED
    BY <1>0, <2>1, <2>2, <2>3, <2>4, ReanchorKeepsPlace
<1>4. CASE Host /\ UNCHANGED webVars
  BY <1>1, <1>4 DEF webVars
<1>5. CASE Serving
  BY <1>0, <1>5 DEF Serving, ServerStart, Accept, ServeEnds, BeginPass, PassEnds, SendRestart,
                    Finish, EndSession
<1>6. CASE PollClosed
  BY <1>0, <1>6 DEF PollClosed, Interrupt
<1>7. CASE PollReceives \/ Release \/ WorkerStep \/ BrowserSends \/ BrowserLeaves \/ RequestShutdown
  <2>1. UNCHANGED <<pacer, wall>>
    BY <1>7 DEF PollReceives, Release, WorkerStep, BrowserSends, BrowserLeaves, RequestShutdown,
                webVars
  <2> QED
    BY <1>1, <2>1
<1> QED
  BY <1>2, <1>3, <1>4, <1>5, <1>6, <1>7 DEF Next, HostStep, Player

\* The pacer never releases replay time that the wall clock has not paid for, whatever the
\* order of commands, pauses and rates; no command moves the player on or back; and none of
\* the browser's commands is lost or taken out of turn (PlaybackPacer::apply(),
\* WebSocketPlaybackChannel).
THEOREM PlayerStaysFaithful == Spec => PlayerFaithful
<1>1. EmuInv /\ [Next]_allVars => [NeverEarly' /\ CommandsKept' /\ TimelineKept]_allVars
  <2>1. ASSUME EmuInv, Next PROVE NeverEarly' /\ CommandsKept' /\ TimelineKept
    <3>1. EmuInv'
      BY <2>1, EmuStep
    <3>2. PaceInv' /\ ChanInv'
      BY <3>1 DEF EmuInv
    <3>3. NeverEarly'
      BY <3>2 DEF PaceInv, NeverEarly, InSession
    <3>4. CommandsKept'
      BY <3>2 DEF ChanInv, CommandsKept
    <3> QED
      BY <2>1, <3>3, <3>4, TimelineStep
  <2> QED
    BY <2>1
<1> QED
  BY <1>1, EmulatorHolds, PTL DEF Spec, PlayerFaithful

\* Every replay, rendered or played at any rate with any pauses, records the calls of its
\* schedule, each at its time and in its place; one that ends well has recorded all of them,
\* and the budget admits exactly what fits it (run_replay(), validate(), ReplayAcquisitionSource).
THEOREM ReplayFollowsSchedule == Spec => []ReplayIsTheSchedule
<1>1. EmulatorInit => EmuInv /\ SchedInv
  BY EmuStart, SchedInit
<1>2. EmuInv /\ SchedInv /\ [Next]_allVars => (EmuInv /\ SchedInv)'
  BY EmuStep, SchedStep
<1>3. EmuInv /\ SchedInv => ReplayIsTheSchedule
  <2> SUFFICES ASSUME EmuInv, SchedInv PROVE ReplayIsTheSchedule
    OBVIOUS
  <2>0. PlanFine(plan)
    BY DEF SchedInv, TypeInv
  <2>1. TypeOK
    <3>1. ctl.state \in {"Ready", "Starting", "Running", "Failed", "Stopped"} /\ ctl.tries \in 0..2
      BY DEF EmuInv, RecordInv, CtlRecords
    <3>2. bar.released <= bar.completed /\ mode \in {"render", "web"}
      BY DEF EmuInv, RecordInv, BarOk
    <3>3. {cad.due, cad.avail, cad.poll, cad.sample, cad.tick} \subseteq Times
      <4>1. \A r \in Cadences : Deadline(cad, r) \in Times
        BY DEF SchedInv, TypeInv
      <4>2. cad.avail \in Times /\ cad.poll \in Times /\ cad.sample \in Times /\ cad.tick \in Times
        BY <4>1, DeadlineIs DEF SchedInv
      <4>3. cad.due \in Times
        BY DEF SchedInv, TypeInv, Times
      <4> QED
        BY <4>2, <4>3
    <3>4. \A i \in DOMAIN plan.frames : plan.frames[i] \in Nat
      BY <2>0, FrameFacts
    <3>5. stage.mail \in Mail /\ stage.last \in {"none", "black", "lit"}
      BY DEF EmuInv, WireInv, StageRecords
    <3>6. pacer.rate \in DOMAIN Rates /\ pacer.interruption \in {"None", "Restart", "Stop"}
      BY DEF EmuInv, PaceInv
    <3>7. /\ clock \in Nat /\ next \in 1..(Len(plan.frames) + 1) /\ worker \in Workers
          /\ tele \in {"Stopped", "Running", "Stopping"} /\ attached \in BOOLEAN
          /\ shutdown \in BOOLEAN
      BY DEF SchedInv, TypeInv
    <3> QED
      BY <3>1, <3>2, <3>3, <3>4, <3>5, <3>6, <3>7 DEF TypeOK, Workers
  <2>2. ScheduleFollowed
    <3>1. Listed(plan, events) /\ DoneInv
      BY DEF SchedInv, TraceInv
    <3>2. (pc = "over" /\ status = "Ok") => Len(events) = Cardinality(Calls(plan))
      BY <3>1 DEF DoneInv, Done, Stopping
    <3> QED
      BY <3>1, <3>2 DEF ScheduleFollowed, Listed
  <2>3. BudgetExact
    <3>1. ValidInv
      BY DEF SchedInv
    <3>2. pc = "start" => Cardinality(Generated(plan)) <= MaxEvents
      BY <2>0, <3>1, ValidatedPlan DEF ValidInv, Active
    <3>3. (/\ pc = "over" /\ status = "InvalidOptions"
           /\ 0 \notin {plan.avail, plan.poll, plan.tick, plan.sample}
           /\ \A i \in DOMAIN plan.frames : plan.frames[i] <= plan.end)
            => Cardinality(Generated(plan)) > MaxEvents
      BY <2>0, <3>1, ValidatedPlan DEF ValidInv
    <3> QED
      BY <3>2, <3>3 DEF BudgetExact, Generated
  <2> QED
    BY <2>1, <2>2, <2>3 DEF ReplayIsTheSchedule
<1> QED
  BY <1>1, <1>2, <1>3, PTL DEF Spec

=============================================================================
