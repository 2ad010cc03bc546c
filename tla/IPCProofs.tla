------------------------------- MODULE IPCProofs -------------------------------
(****************************************************************************)
(* inet256ipc: the watchdog is right for every interval, timeout and delay  *)
(* with Interval + Delay < Timeout (KeepAlive), and messages pass through   *)
(* the stream of frames (F) as they were sent, for any messages, readers    *)
(* and buffers.                                                             *)
(****************************************************************************)
EXTENDS MCStream, SequenceTheorems, TLAPS

----------------------------------------------------------------------------
(* KeepAlive.                                                              *)

\* The time within which the next frame arrives while the client is alive.
NextArrival == IF flight # <<>> THEN flight[1] ELSE ticker + Delay

\* The types; frames in flight are lost when the connection is cut.
Types ==
  /\ ticker \in 0 .. Interval
  /\ flight \in Seq(0 .. Delay) /\ (~ alive => flight = <<>>)
  /\ alive \in BOOLEAN /\ gotOne \in BOOLEAN /\ watching \in BOOLEAN
  /\ timer \in 0 .. Timeout
  /\ silent \in Nat

\* Until a frame has come in the present window, one is due before its end.
FrameDue == alive /\ ~ gotOne => NextArrival < timer

\* The silence is not older than the window in which the last frame came.
Silence ==
  watching => silent <= (IF gotOne THEN Timeout ELSE 2 * Timeout) - timer

\* The inductive invariant.
KeepAliveInv == Types /\ FrameDue /\ Silence /\ NoFalseAlarm

\* The invariant holds when the connection is made.
LEMMA InitInv == Init => KeepAliveInv
<1> SUFFICES ASSUME Init PROVE KeepAliveInv
  BY Zenon
<1> USE KeepAliveAssumption DEF Init
<1>1. alive /\ watching /\ ~ gotOne
  BY Zenon
<1>2. /\ ticker = Interval /\ timer = Timeout /\ silent = 0
      /\ flight = <<>>
  BY Zenon
<1>3. Types
  <2>1. alive \in BOOLEAN /\ gotOne \in BOOLEAN /\ watching \in BOOLEAN
    BY Zenon
  <2>2. ticker \in 0 .. Interval /\ timer \in 0 .. Timeout /\ silent \in Nat
    BY <1>2
  <2>3. flight \in Seq(0 .. Delay)
    BY <1>2
  <2> QED BY <2>1, <2>2, <2>3, <1>2, Zenon DEF Types
<1>4. FrameDue
  BY <1>2, Zenon DEF FrameDue, NextArrival
<1>5. Silence
  BY <1>1, <1>2 DEF Silence
<1> QED BY <1>1, <1>3, <1>4, <1>5, Zenon DEF KeepAliveInv, NoFalseAlarm

\* The first frame on its way is due within Delay.
LEMMA ArrivalRange ==
  ASSUME Types
  PROVE  NextArrival \in 0 .. Interval + Delay
<1>1. CASE flight = <<>>
  BY <1>1, KeepAliveAssumption DEF Types, NextArrival
<1>2. CASE flight # <<>>
  <2>1. flight \in Seq(0 .. Delay)
    BY Zenon DEF Types
  <2>2. Len(flight) \in Nat /\ DOMAIN flight = 1 .. Len(flight) /\ Len(flight) # 0
    BY <1>2, <2>1
  <2>3. 1 \in 1 .. Len(flight)
    BY <2>2
  <2>4. flight[1] \in 0 .. Delay
    BY <2>1, <2>3, ElementOfSeq, Zenon
  <2> QED BY <1>2, <2>4, KeepAliveAssumption DEF NextArrival
<1> QED BY <1>1, <1>2, Zenon

\* Tick, by which every deadline comes nearer.
LEMMA TickInv == KeepAliveInv /\ Tick => KeepAliveInv'
<1> SUFFICES ASSUME Types, FrameDue, Silence, NoFalseAlarm, Tick PROVE KeepAliveInv'
  BY Zenon DEF KeepAliveInv
<1> USE KeepAliveAssumption
<1>1. alive' = alive /\ gotOne' = gotOne /\ watching' = watching
  BY Zenon DEF Tick
<1>2. /\ timer \in Nat /\ timer' = timer - 1 /\ timer' \in 0 .. Timeout
      /\ silent \in Nat /\ silent' = silent + 1 /\ silent' \in Nat
  BY DEF Tick, Types
<1>3. ticker' \in 0 .. Interval
  BY DEF Tick, Types
<1>4. flight' \in Seq(0 .. Delay) /\ (~ alive => flight' = <<>>)
  <2>1. CASE alive
    <3>1. /\ flight \in Seq(0 .. Delay)
          /\ \A i \in DOMAIN flight : flight[i] > 0
          /\ flight' = [i \in DOMAIN flight |-> flight[i] - 1]
      BY <2>1, Zenon DEF Tick, Types
    <3>2. Len(flight) \in Nat /\ DOMAIN flight = 1 .. Len(flight)
      BY <3>1
    <3>3. \A i \in 1 .. Len(flight) : flight[i] - 1 \in 0 .. Delay
      BY <3>1
    <3> QED BY <2>1, <3>1, <3>2, <3>3
  <2>2. CASE ~ alive
    BY <2>2 DEF Tick, Types
  <2> QED BY <2>1, <2>2, Zenon
<1>5. Types'
  <2>1. alive' \in BOOLEAN /\ gotOne' \in BOOLEAN /\ watching' \in BOOLEAN
    BY <1>1, Zenon DEF Types
  <2> QED BY <2>1, <1>1, <1>2, <1>3, <1>4, Zenon DEF Types
<1>6. FrameDue'
  <2> SUFFICES ASSUME alive, ~ gotOne PROVE NextArrival' < timer'
    BY <1>1, Zenon DEF FrameDue
  <2>1. NextArrival < timer
    BY Zenon DEF FrameDue
  <2>2. NextArrival' = NextArrival - 1
    <3>1. CASE flight = <<>>
      BY <3>1 DEF NextArrival, Tick, Types
    <3>2. CASE flight # <<>>
      <4>1. 1 \in DOMAIN flight /\ flight' = [i \in DOMAIN flight |-> flight[i] - 1]
        BY <3>2 DEF Tick, Types
      <4>2. flight'[1] = flight[1] - 1 /\ flight' # <<>>
        BY <4>1
      <4> QED BY <3>2, <4>2, Zenon DEF NextArrival
    <3> QED BY <3>1, <3>2, Zenon
  <2> QED BY <2>1, <2>2, <1>2, ArrivalRange
<1>7. Silence'
  BY <1>1, <1>2 DEF Silence
<1> QED BY <1>1, <1>5, <1>6, <1>7, Zenon DEF KeepAliveInv, NoFalseAlarm

\* ClientTick sends a frame that is due when the ticker had promised it.
LEMMA ClientTickInv == KeepAliveInv /\ ClientTick => KeepAliveInv'
<1> SUFFICES ASSUME Types, FrameDue, Silence, NoFalseAlarm, ClientTick PROVE KeepAliveInv'
  BY Zenon DEF KeepAliveInv
<1> USE KeepAliveAssumption
<1>1. /\ alive' = alive /\ gotOne' = gotOne /\ watching' = watching
      /\ timer' = timer /\ silent' = silent /\ alive
  BY Zenon DEF ClientTick
<1>2. flight' \in Seq(0 .. Delay) /\ ticker' \in 0 .. Interval
  BY DEF ClientTick, Types
<1>3. Types'
  BY <1>1, <1>2, Zenon DEF Types
<1>4. NextArrival' = NextArrival
  <2>1. CASE flight = <<>>
    BY <2>1 DEF NextArrival, ClientTick, Types
  <2>2. CASE flight # <<>>
    BY <2>2 DEF NextArrival, ClientTick, Types
  <2> QED BY <2>1, <2>2, Zenon
<1>5. FrameDue' /\ Silence' /\ NoFalseAlarm'
  BY <1>1, <1>4, Zenon DEF FrameDue, Silence, NoFalseAlarm
<1> QED BY <1>3, <1>5, Zenon DEF KeepAliveInv

\* Arrive ends the silence.
LEMMA ArriveInv == KeepAliveInv /\ Arrive => KeepAliveInv'
<1> SUFFICES ASSUME Types, FrameDue, Silence, NoFalseAlarm, Arrive PROVE KeepAliveInv'
  BY Zenon DEF KeepAliveInv
<1> USE KeepAliveAssumption
<1>1. /\ alive' = alive /\ gotOne' /\ gotOne' = TRUE /\ watching' = watching
      /\ timer' = timer /\ silent' = 0 /\ ticker' = ticker
  BY Zenon DEF Arrive
<1>2. flight' \in Seq(0 .. Delay) /\ alive
  BY DEF Arrive, Types
<1>3. Types'
  <2>1. silent' \in Nat
    BY <1>1, Zenon
  <2> QED BY <1>1, <1>2, <2>1, Zenon DEF Types
<1>4. FrameDue' /\ NoFalseAlarm'
  BY <1>1, Zenon DEF FrameDue, NoFalseAlarm
<1>5. Silence'
  BY <1>1 DEF Silence, Types
<1> QED BY <1>3, <1>4, <1>5, Zenon DEF KeepAliveInv

\* When the watchdog looks, a client that is alive has been heard.
LEMMA WatchdogInv == KeepAliveInv /\ Watchdog => KeepAliveInv'
<1> SUFFICES ASSUME Types, FrameDue, Silence, NoFalseAlarm, Watchdog PROVE KeepAliveInv'
  BY Zenon DEF KeepAliveInv
<1> USE KeepAliveAssumption
<1>1. /\ alive' = alive /\ flight' = flight /\ ticker' = ticker /\ silent' = silent
      /\ watching /\ timer = 0
  BY Zenon DEF Watchdog
<1>2. alive => gotOne
  <2>1. alive /\ ~ gotOne => NextArrival < 0
    BY <1>1, Zenon DEF FrameDue
  <2> QED BY <2>1, ArrivalRange
<1>3. CASE gotOne
  <2>1. gotOne' = FALSE /\ ~ gotOne' /\ timer' = Timeout /\ watching' = watching
    BY <1>3, Zenon DEF Watchdog
  <2>2. Types'
    <3>1. timer' \in 0 .. Timeout
      BY <2>1
    <3>2. gotOne' \in BOOLEAN
      BY <2>1, Zenon
    <3> QED BY <1>1, <2>1, <3>1, <3>2, Zenon DEF Types
  <2>3. FrameDue'
    <3>1. NextArrival' = NextArrival
      BY <1>1, Zenon DEF NextArrival
    <3>2. NextArrival < Timeout
      BY ArrivalRange
    <3> QED BY <2>1, <3>1, <3>2, Zenon DEF FrameDue
  <2>4. Silence'
    <3>1. silent <= Timeout
      BY <1>1, <1>3 DEF Silence, Types
    <3>2. silent \in Nat
      BY Zenon DEF Types
    <3> QED BY <1>1, <2>1, <3>1, <3>2 DEF Silence
  <2>5. NoFalseAlarm'
    BY <1>1, <2>1, Zenon DEF NoFalseAlarm
  <2> QED BY <2>2, <2>3, <2>4, <2>5, Zenon DEF KeepAliveInv
<1>4. CASE ~ gotOne
  <2>1. watching' = FALSE /\ ~ watching' /\ gotOne' = gotOne /\ timer' = timer /\ ~ alive
    BY <1>2, <1>4, Zenon DEF Watchdog
  <2>2. Types'
    BY <1>1, <2>1, Zenon DEF Types
  <2>3. FrameDue' /\ Silence' /\ NoFalseAlarm'
    BY <1>1, <2>1, Zenon DEF FrameDue, Silence, NoFalseAlarm
  <2> QED BY <2>2, <2>3, Zenon DEF KeepAliveInv
<1> QED BY <1>3, <1>4, Zenon

\* A client that is cut off sends nothing more.
LEMMA CutInv == KeepAliveInv /\ Cut => KeepAliveInv'
<1> SUFFICES ASSUME Types, FrameDue, Silence, NoFalseAlarm, Cut PROVE KeepAliveInv'
  BY Zenon DEF KeepAliveInv
<1>1. /\ alive' = FALSE /\ ~ alive' /\ flight' = <<>>
      /\ gotOne' = gotOne /\ watching' = watching
      /\ timer' = timer /\ silent' = silent /\ ticker' = ticker
  BY Zenon DEF Cut
<1>2. Types'
  <2>1. flight' \in Seq(0 .. Delay)
    BY <1>1
  <2> QED BY <1>1, <2>1, Zenon DEF Types
<1>3. FrameDue' /\ Silence' /\ NoFalseAlarm'
  BY <1>1, Zenon DEF FrameDue, Silence, NoFalseAlarm
<1> QED BY <1>2, <1>3, Zenon DEF KeepAliveInv

\* Every step preserves the invariant.
LEMMA NextInv == KeepAliveInv /\ [Next]_vars => KeepAliveInv'
<1>1. KeepAliveInv /\ UNCHANGED vars => KeepAliveInv'
  <2> SUFFICES ASSUME KeepAliveInv, UNCHANGED vars PROVE KeepAliveInv'
    BY Zenon
  <2>1. Types' /\ FrameDue' /\ Silence' /\ NoFalseAlarm'
    BY Zenon DEF KeepAliveInv, vars, Types, FrameDue, NextArrival, Silence, NoFalseAlarm
  <2> QED BY <2>1, Zenon DEF KeepAliveInv
<1> QED BY <1>1, TickInv, ClientTickInv, ArriveInv, WatchdogInv, CutInv, Zenon DEF Next

\* The watchdog never gives up on a client that sends its keepalives, for every
\* interval, timeout and delay that leave room for one in each window.
THEOREM NoClientIsGivenUp == Spec => []NoFalseAlarm
<1>1. KeepAliveInv => NoFalseAlarm
  BY Zenon DEF KeepAliveInv
<1> QED BY <1>1, InitInv, NextInv, PTL DEF Spec

\* A client that has gone silent is given up within two windows.
THEOREM SilenceIsNoticed == Spec => []SilenceNoticed
<1>1. KeepAliveInv => SilenceNoticed
  BY KeepAliveAssumption DEF KeepAliveInv, Silence, SilenceNoticed, Types
<1> QED BY <1>1, InitInv, NextInv, PTL DEF Spec

----------------------------------------------------------------------------
(* Sequences, and the frames that a stream is made of.                      *)

\* The elements of a concatenation are those of its two parts.
LEMMA Joined ==
  ASSUME NEW s \in Seq(Nat), NEW t \in Seq(Nat)
  PROVE  /\ s \o t \in Seq(Nat) /\ Len(s \o t) = Len(s) + Len(t)
         /\ Len(s) \in Nat /\ Len(t) \in Nat
         /\ \A i \in 1 .. Len(s) : (s \o t)[i] = s[i]
         /\ \A i \in 1 .. Len(t) : (s \o t)[Len(s) + i] = t[i]
<1>1. Len(s) \in Nat /\ Len(t) \in Nat
  OBVIOUS
<1>2. /\ s \o t \in Seq(Nat) /\ Len(s \o t) = Len(s) + Len(t)
      /\ \A i \in 1 .. Len(s) + Len(t) : (s \o t)[i] = IF i <= Len(s) THEN s[i] ELSE t[i - Len(s)]
  BY ConcatProperties, Zenon
<1>3. \A i \in 1 .. Len(s) : (s \o t)[i] = s[i]
  BY <1>1, <1>2
<1>4. ASSUME NEW i \in 1 .. Len(t) PROVE (s \o t)[Len(s) + i] = t[i]
  <2>1. Len(s) + i \in 1 .. Len(s) + Len(t) /\ ~(Len(s) + i <= Len(s)) /\ (Len(s) + i) - Len(s) = i
    BY <1>1
  <2> QED  BY <1>2, <2>1, Zenon
<1> QED  BY <1>1, <1>2, <1>3, <1>4, Zenon

\* A part of a sequence that follows k others is cut out of it.
LEMMA CutOut ==
  ASSUME NEW e \in Seq(Nat), NEW d \in Seq(Nat), NEW k \in Nat, NEW f \in Nat, NEW n \in Nat,
         f = k + 1, n = k + Len(d), n <= Len(e), \A i \in 1 .. Len(d) : e[k + i] = d[i]
  PROVE  SubSeq(e, f, n) = d
<1>1. Len(e) \in Nat /\ Len(d) \in Nat
  OBVIOUS
<1>2. \A i \in k + 1 .. n : i \in 1 .. Len(e)
  BY <1>1
<1>3. \A i \in k + 1 .. n : e[i] \in Nat
  BY <1>2
<1>4. k + 1 \in Int /\ n \in Int
  OBVIOUS
<1> DEFINE c == SubSeq(e, k + 1, n)
<1>5. /\ c \in Seq(Nat) /\ Len(c) = (IF k + 1 <= n THEN n - (k + 1) + 1 ELSE 0)
      /\ \A i \in 1 .. n - (k + 1) + 1 : c[i] = e[(k + 1) + i - 1]
  BY <1>3, <1>4, SubSeqProperties
<1> HIDE DEF c
<1>6. Len(c) = Len(d)
  BY <1>1, <1>5
<1>7. ASSUME NEW i \in 1 .. Len(c) PROVE c[i] = d[i]
  <2>1. i \in 1 .. n - (k + 1) + 1 /\ (k + 1) + i - 1 = k + i /\ i \in 1 .. Len(d)
    BY <1>1, <1>6
  <2> QED  BY <1>5, <2>1, Zenon
<1>8. c = d
  BY <1>5, <1>6, <1>7, SeqEqual, Zenon
<1> QED  BY <1>8, Zenon DEF c

\* A type, an address and a payload can be told apart in the encoding e.
Apart(e, t, a, d) ==
  Len(e) >= 3 /\ e[1] = t /\ SubSeq(e, 2, 3) = a /\ SubSeq(e, 4, Len(e)) = d

\* A message of a head of one byte, two more and a rest comes apart again.
LEMMA ThreeParts ==
  ASSUME NEW t \in Nat, NEW a \in Seq(Nat), Len(a) = 2, NEW d \in Seq(Nat)
  PROVE  <<t>> \o a \o d \in Seq(Nat) /\ Apart(<<t>> \o a \o d, t, a, d)
<1>0. <<t>> \in Seq(Nat)
  OBVIOUS
<1>1. PICK o \in Seq(Nat) : o = <<t>>
  BY <1>0, Zenon
<1>2. Len(o) = 1 /\ o[1] = t
  BY <1>1, Zenon
<1>3. PICK h \in Seq(Nat) : h = o \o a
  BY Joined, Zenon
<1>4. Len(h) = 3 /\ h[1] = t /\ \A i \in 1 .. 2 : h[1 + i] = a[i]
  <2>1. /\ Len(o \o a) = Len(o) + Len(a) /\ \A i \in 1 .. Len(o) : (o \o a)[i] = o[i]
        /\ \A i \in 1 .. Len(a) : (o \o a)[Len(o) + i] = a[i]
    BY Joined, Zenon
  <2>2. Len(o) = 1 /\ Len(a) = 2 /\ 1 + 2 = 3 /\ 1 \in 1 .. 1
    BY <1>2
  <2>3. Len(h) = 3 /\ h[1] = o[1] /\ \A i \in 1 .. 2 : h[1 + i] = a[i]
    BY <1>3, <2>1, <2>2, Zenon
  <2> QED  BY <1>2, <2>3, Zenon
<1>5. PICK e \in Seq(Nat) : e = h \o d
  BY Joined, Zenon
<1>6. /\ e \in Seq(Nat) /\ Len(e) = 3 + Len(d) /\ Len(d) \in Nat
      /\ \A i \in 1 .. 3 : e[i] = h[i]
      /\ \A i \in 1 .. Len(d) : e[3 + i] = d[i]
  <2>1. /\ h \o d \in Seq(Nat) /\ Len(h \o d) = Len(h) + Len(d) /\ Len(d) \in Nat
        /\ \A i \in 1 .. Len(h) : (h \o d)[i] = h[i]
        /\ \A i \in 1 .. Len(d) : (h \o d)[Len(h) + i] = d[i]
    BY Joined, Zenon
  <2> QED  BY <1>4, <1>5, <2>1, Zenon
<1>7. SubSeq(e, 2, 3) = a
  <2>1. \A i \in 1 .. Len(a) : e[1 + i] = a[i]
    BY <1>4, <1>6
  <2>2. 2 = 1 + 1 /\ 3 = 1 + Len(a) /\ 3 <= Len(e) /\ {1, 2, 3} \subseteq Nat
    BY <1>6
  <2> QED  BY <1>6, <2>1, <2>2, CutOut
<1>8. SubSeq(e, 4, Len(e)) = d
  <2>0. Len(e) \in Nat
    BY <1>6
  <2>1. PICK k \in Nat, f \in Nat, n \in Nat : k = 3 /\ f = 4 /\ n = Len(e)
    BY <2>0, Zenon
  <2>2. f = k + 1 /\ n = k + Len(d) /\ n <= Len(e) /\ \A i \in 1 .. Len(d) : e[k + i] = d[i]
    BY <1>6, <2>1
  <2>3. SubSeq(e, f, n) = d
    BY <1>6, <2>2, CutOut
  <2> QED  BY <2>1, <2>3, Zenon
<1>9. e[1] = t
  BY <1>4, <1>6
<1>10. e = <<t>> \o a \o d
  BY <1>1, <1>3, <1>5, Zenon
<1>11. Len(e) >= 3
  BY <1>6
<1>12. Apart(e, t, a, d)
  BY <1>7, <1>8, <1>9, <1>11, Zenon DEF Apart
<1> QED  BY <1>6, <1>10, <1>12, Zenon

----------------------------------------------------------------------------
(* Frames.  enc[x] stands for the bytes of the message x.                   *)

\* The bytes w are the frames of the messages q, one after the other; the i-th
\* frame is what follows the first pos[i] bytes.
FramesAt(w, q, enc, pos) ==
  /\ pos \in [1 .. Len(q) + 1 -> Nat]
  /\ pos[1] = 0 /\ pos[Len(q) + 1] = Len(w)
  /\ \A i, j \in 1 .. Len(q) + 1 : i <= j => pos[i] <= pos[j]
  /\ \A i \in 1 .. Len(q) :
       /\ pos[i + 1] = pos[i] + 1 + Len(enc[q[i]])
       /\ w[pos[i] + 1] = Len(enc[q[i]])
       /\ \A j \in 1 .. Len(enc[q[i]]) : w[pos[i] + 1 + j] = enc[q[i]][j]

\* The stream w is the frames of the messages q, one after the other.
Framed(w, q, enc) == \E pos \in [1 .. Len(q) + 1 -> Nat] : FramesAt(w, q, enc, pos)

\* An empty stream holds no frames.
LEMMA NoFrames ==
  ASSUME NEW enc
  PROVE  Framed(<<>>, <<>>, enc)
<1>0. Len(<<>>) + 1 = 1 /\ [i \in 1 .. 1 |-> 0] \in [1 .. 1 -> Nat]
  OBVIOUS
<1>1. PICK pos \in [1 .. Len(<<>>) + 1 -> Nat] : pos = [i \in 1 .. 1 |-> 0]
  BY <1>0, Zenon
<1>2. FramesAt(<<>>, <<>>, enc, pos)
  BY <1>1 DEF FramesAt
<1> QED  BY <1>2, Zenon DEF Framed

\* What the writer adds is a frame more.
LEMMA FrameAdded ==
  ASSUME NEW S, NEW enc \in [S -> Seq(Nat)], NEW x \in S, NEW q \in Seq(S),
         NEW w \in Seq(Nat), Framed(w, q, enc),
         NEW v \in Seq(Nat), Len(v) = Len(w) + 1 + Len(enc[x]),
         \A i \in 1 .. Len(w) : v[i] = w[i],
         v[Len(w) + 1] = Len(enc[x]),
         \A j \in 1 .. Len(enc[x]) : v[Len(w) + 1 + j] = enc[x][j]
  PROVE  Framed(v, Append(q, x), enc)
<1>1. PICK pos \in [1 .. Len(q) + 1 -> Nat] : FramesAt(w, q, enc, pos)
  BY Zenon DEF Framed
<1>a. Len(q) \in Nat /\ Len(w) \in Nat /\ Len(enc[x]) \in Nat /\ Append(q, x) \in Seq(S)
  OBVIOUS
<1>2. PICK n \in Nat, k \in Nat, l \in Nat : n = Len(q) /\ k = Len(w) /\ l = Len(enc[x])
  BY <1>a, Zenon
<1>3. PICK r \in Seq(S) : r = Append(q, x)
  BY <1>a, Zenon
<1>b. pos \in [1 .. n + 1 -> Nat]
  BY <1>1, <1>2, Zenon
<1>4. Len(r) = n + 1 /\ r[n + 1] = x /\ \A i \in 1 .. n : r[i] = q[i]
  BY <1>2, <1>3
<1>5. PICK to \in [1 .. n + 2 -> Nat] : to = [i \in 1 .. n + 2 |-> IF i <= n + 1 THEN pos[i] ELSE k + 1 + l]
  <2>1. \A i \in 1 .. n + 2 : i <= n + 1 => i \in 1 .. n + 1
    OBVIOUS
  <2>2. k + 1 + l \in Nat
    OBVIOUS
  <2>3. \A i \in 1 .. n + 2 : (IF i <= n + 1 THEN pos[i] ELSE k + 1 + l) \in Nat
    BY <1>b, <2>1, <2>2, Zenon
  <2> QED  BY <2>3, Zenon
<1>6. to[n + 2] = k + 1 + l /\ \A i \in 1 .. n + 1 : to[i] = pos[i]
  <2>1. n + 2 \in 1 .. n + 2 /\ ~(n + 2 <= n + 1)
    OBVIOUS
  <2>2. \A i \in 1 .. n + 1 : i \in 1 .. n + 2 /\ i <= n + 1
    OBVIOUS
  <2> QED  BY <1>5, <2>1, <2>2, Zenon
<1>7. /\ pos[1] = 0 /\ pos[n + 1] = k
      /\ \A i, j \in 1 .. n + 1 : i <= j => pos[i] <= pos[j]
      /\ \A i \in 1 .. n :
           /\ pos[i + 1] = pos[i] + 1 + Len(enc[q[i]])
           /\ w[pos[i] + 1] = Len(enc[q[i]])
           /\ \A j \in 1 .. Len(enc[q[i]]) : w[pos[i] + 1 + j] = enc[q[i]][j]
  BY <1>1, <1>2, Zenon DEF FramesAt
<1>8. to[1] = 0 /\ to[n + 2] = Len(v)
  BY <1>2, <1>6, <1>7
<1>9. ASSUME NEW i \in 1 .. n + 2, NEW j \in 1 .. n + 2, i <= j PROVE to[i] <= to[j]
  <2>1. CASE j <= n + 1
    <3>1. i \in 1 .. n + 1 /\ j \in 1 .. n + 1
      BY <1>9, <2>1
    <3> QED  BY <1>6, <1>7, <1>9, <3>1, Zenon
  <2>2. CASE j = n + 2 /\ i <= n + 1
    <3>1. i \in 1 .. n + 1 /\ n + 1 \in 1 .. n + 1 /\ i <= n + 1
      BY <2>2
    <3>2. pos[i] <= k /\ to[i] = pos[i] /\ pos[i] \in Nat
      BY <1>b, <1>6, <1>7, <3>1, Zenon
    <3>3. k <= k + 1 + l /\ k \in Nat /\ k + 1 + l \in Nat
      BY <1>2
    <3>4. to[j] = k + 1 + l
      BY <1>6, <2>2, Zenon
    <3>5. \A a, b, c \in Nat : a <= b /\ b <= c => a <= c
      OBVIOUS
    <3> QED  BY <3>2, <3>3, <3>4, <3>5, Zenon
  <2>3. CASE i = n + 2 /\ j = n + 2
    BY <1>6, <2>3
  <2>4. j <= n + 1 \/ (j = n + 2 /\ i <= n + 1) \/ (i = n + 2 /\ j = n + 2)
    BY <1>2, <1>9
  <2> QED  BY <2>1, <2>2, <2>3, <2>4, Zenon
<1>10. ASSUME NEW i \in 1 .. n + 1
       PROVE  /\ to[i + 1] = to[i] + 1 + Len(enc[r[i]])
              /\ v[to[i] + 1] = Len(enc[r[i]])
              /\ \A j \in 1 .. Len(enc[r[i]]) : v[to[i] + 1 + j] = enc[r[i]][j]
  <2>1. CASE i \in 1 .. n
    <3>0. r[i] = q[i]
      BY <1>4, <2>1, Zenon
    <3>b. i \in 1 .. Len(q)
      BY <1>2, <2>1, Zenon
    <3>c. q[i] \in S
      BY <3>b
    <3>1. q[i] \in S /\ r[i] = q[i]
      BY <3>0, <3>c, Zenon
    <3>2. PICK b \in Seq(Nat) : b = enc[q[i]]
      BY <3>1, Zenon
    <3>a. b \in Seq(Nat)
      BY <3>2, Zenon
    <3>3. Len(b) \in Nat
      BY <3>a
    <3>4. to[i] = pos[i] /\ to[i + 1] = pos[i + 1] /\ pos[i] \in Nat /\ pos[i + 1] \in Nat
      <4>1. i \in 1 .. n + 1 /\ i + 1 \in 1 .. n + 1
        BY <1>2, <2>1
      <4> QED  BY <1>b, <1>6, <4>1, Zenon
    <3>5. /\ pos[i + 1] = pos[i] + 1 + Len(b) /\ w[pos[i] + 1] = Len(b)
          /\ \A j \in 1 .. Len(b) : w[pos[i] + 1 + j] = b[j]
      BY <1>7, <2>1, <3>2, Zenon
    <3>6. pos[i + 1] <= k
      <4>1. i + 1 \in 1 .. n + 1 /\ n + 1 \in 1 .. n + 1 /\ i + 1 <= n + 1
        BY <2>1
      <4> QED  BY <1>7, <4>1, Zenon
    <3>7. pos[i] + 1 \in 1 .. k /\ \A j \in 1 .. Len(b) : pos[i] + 1 + j \in 1 .. k
      <4>1. \A a, c, d \in Nat : a + 1 + c <= d =>
              a + 1 \in 1 .. d /\ \A j \in 1 .. c : a + 1 + j \in 1 .. d
        OBVIOUS
      <4>2. pos[i] + 1 + Len(b) <= k
        BY <3>5, <3>6, Zenon
      <4> QED  BY <1>2, <3>3, <3>4, <4>1, <4>2, Zenon
    <3>8. v[pos[i] + 1] = Len(b) /\ \A j \in 1 .. Len(b) : v[pos[i] + 1 + j] = b[j]
      BY <1>2, <3>5, <3>7, Zenon
    <3> QED  BY <3>1, <3>2, <3>4, <3>5, <3>8, Zenon
  <2>2. CASE i = n + 1
    <3>1. to[i] = k /\ to[i + 1] = k + 1 + l /\ r[i] = x
      <4>1. n + 1 \in 1 .. n + 1 /\ (n + 1) + 1 = n + 2
        OBVIOUS
      <4> QED  BY <1>4, <1>6, <1>7, <2>2, <4>1, Zenon
    <3> QED  BY <1>2, <3>1, Zenon
  <2> QED  BY <2>1, <2>2
<1>12. Len(r) + 1 = n + 2 /\ to \in [1 .. Len(r) + 1 -> Nat]
  BY <1>2, <1>4, <1>5
<1>11. FramesAt(v, r, enc, to)
  <2>1. \A i, j \in 1 .. Len(r) + 1 : i <= j => to[i] <= to[j]
    BY <1>9, <1>12, Zenon
  <2>2. to[1] = 0 /\ to[Len(r) + 1] = Len(v)
    BY <1>8, <1>12, Zenon
  <2>3. \A i \in 1 .. Len(r) :
          /\ to[i + 1] = to[i] + 1 + Len(enc[r[i]])
          /\ v[to[i] + 1] = Len(enc[r[i]])
          /\ \A j \in 1 .. Len(enc[r[i]]) : v[to[i] + 1 + j] = enc[r[i]][j]
    BY <1>4, <1>10, Zenon
  <2> QED  BY <1>12, <2>1, <2>2, <2>3, Zenon DEF FramesAt
<1> QED  BY <1>3, <1>11, <1>12, Zenon DEF Framed

\* The stream w starts with the length of e and then e.
StartsWith(w, e) ==
  /\ Len(w) >= 1 + Len(e) /\ w[1] = Len(e)
  /\ \A j \in 1 .. Len(e) : w[1 + j] = e[j]

\* A stream that is not empty starts with the frame of the first message.
LEMMA FirstFrame ==
  ASSUME NEW S, NEW enc \in [S -> Seq(Nat)], NEW q \in Seq(S),
         NEW w \in Seq(Nat), Framed(w, q, enc), w # <<>>
  PROVE  q # <<>> /\ q[1] \in S /\ StartsWith(w, enc[q[1]])
<1>1. PICK pos \in [1 .. Len(q) + 1 -> Nat] : FramesAt(w, q, enc, pos)
  BY Zenon DEF Framed
<1>2. pos[1] = 0 /\ pos[Len(q) + 1] = Len(w)
  BY <1>1, Zenon DEF FramesAt
<1>3. Len(w) \in Nat /\ Len(w) # 0 /\ Len(q) \in Nat
  OBVIOUS
<1>4. Len(q) # 0
  BY <1>2, <1>3
<1>5. q # <<>> /\ q[1] \in S /\ 1 \in 1 .. Len(q)
  BY <1>3, <1>4
<1>6. PICK b \in Seq(Nat) : b = enc[q[1]]
  BY <1>5, Zenon
<1>7. Len(b) \in Nat
  BY <1>6
<1>8. /\ pos[1 + 1] = pos[1] + 1 + Len(b) /\ w[pos[1] + 1] = Len(b)
      /\ \A j \in 1 .. Len(b) : w[pos[1] + 1 + j] = b[j]
  BY <1>1, <1>5, <1>6, Zenon DEF FramesAt
<1>9. /\ pos[2] = 1 + Len(b) /\ w[1] = Len(b)
      /\ \A j \in 1 .. Len(b) : w[1 + j] = b[j]
  BY <1>2, <1>7, <1>8
<1>10. pos[2] <= pos[Len(q) + 1]
  <2>1. 2 \in 1 .. Len(q) + 1 /\ Len(q) + 1 \in 1 .. Len(q) + 1 /\ 2 <= Len(q) + 1
    BY <1>3, <1>4
  <2> QED  BY <1>1, <2>1, Zenon DEF FramesAt
<1>11. Len(w) >= 1 + Len(b)
  BY <1>2, <1>3, <1>7, <1>9, <1>10, Zenon
<1>12. StartsWith(w, b)
  BY <1>9, <1>11, Zenon DEF StartsWith
<1> QED  BY <1>5, <1>6, <1>12, Zenon

\* Without its first frame the stream is the frames of the other messages.
LEMMA FrameTaken ==
  ASSUME NEW S, NEW enc \in [S -> Seq(Nat)], NEW q \in Seq(S),
         NEW w \in Seq(Nat), NEW v \in Seq(Nat)
  PROVE  /\ Framed(w, q, enc) /\ w # <<>>
         /\ Len(w) = Len(v) + 1 + Len(enc[q[1]])
         /\ \A i \in 1 .. Len(v) : v[i] = w[1 + Len(enc[q[1]]) + i]
         => Framed(v, Tail(q), enc)
<1>0. SUFFICES ASSUME Framed(w, q, enc), w # <<>>,
                      Len(w) = Len(v) + 1 + Len(enc[q[1]]),
                      \A i \in 1 .. Len(v) : v[i] = w[1 + Len(enc[q[1]]) + i]
               PROVE  Framed(v, Tail(q), enc)
  BY Zenon
<1>1. PICK pos \in [1 .. Len(q) + 1 -> Nat] : FramesAt(w, q, enc, pos)
  BY <1>0, Zenon DEF Framed
<1>2. q # <<>> /\ q[1] \in S
  BY <1>0, FirstFrame, Zenon
<1>a. Len(q) \in Nat \ {0} /\ Len(v) \in Nat /\ Tail(q) \in Seq(S) /\ Len(enc[q[1]]) \in Nat
  BY <1>2
<1>3. PICK n \in Nat, k \in Nat, d \in Nat : Len(q) = n + 1 /\ k = Len(v) /\ d = 1 + Len(enc[q[1]])
  <2>1. Len(q) - 1 \in Nat /\ Len(q) = (Len(q) - 1) + 1 /\ 1 + Len(enc[q[1]]) \in Nat
    BY <1>a
  <2> QED  BY <1>a, <2>1, Zenon
<1>b. pos \in [1 .. n + 2 -> Nat] /\ n \in Nat /\ k \in Nat /\ d \in Nat
  BY <1>1, <1>3
<1>4. PICK r \in Seq(S) : r = Tail(q)
  BY <1>a, Zenon
<1>5. Len(r) = n /\ \A i \in 1 .. n : r[i] = q[i + 1]
  BY <1>2, <1>3, <1>4
<1>6. /\ pos[1] = 0 /\ pos[n + 2] = Len(w)
      /\ \A i, j \in 1 .. n + 2 : i <= j => pos[i] <= pos[j]
      /\ \A i \in 1 .. n + 1 :
           /\ pos[i + 1] = pos[i] + 1 + Len(enc[q[i]])
           /\ w[pos[i] + 1] = Len(enc[q[i]])
           /\ \A j \in 1 .. Len(enc[q[i]]) : w[pos[i] + 1 + j] = enc[q[i]][j]
  <2>1. Len(q) + 1 = n + 2
    BY <1>3
  <2> QED  BY <1>1, <1>3, <2>1, Zenon DEF FramesAt
<1>7. pos[2] = d
  <2>1. 1 \in 1 .. n + 1
    BY <1>b
  <2>2. pos[1 + 1] = pos[1] + 1 + Len(enc[q[1]])
    BY <1>6, <2>1, Zenon
  <2> QED  BY <1>3, <1>6, <1>a, <2>2
<1>8. \A i \in 2 .. n + 2 : d <= pos[i] /\ pos[i] - d \in Nat
  <2>1. \A i \in 2 .. n + 2 : i \in 1 .. n + 2 /\ 2 \in 1 .. n + 2 /\ 2 <= i
    BY <1>b
  <2>2. \A i \in 2 .. n + 2 : d <= pos[i] /\ pos[i] \in Nat
    BY <1>b, <1>6, <1>7, <2>1, Zenon
  <2>3. \A x, y \in Nat : x <= y => y - x \in Nat
    OBVIOUS
  <2> QED  BY <1>b, <2>2, <2>3, Zenon
<1>9. PICK to \in [1 .. n + 1 -> Nat] : to = [i \in 1 .. n + 1 |-> pos[i + 1] - d]
  <2>1. \A i \in 1 .. n + 1 : i + 1 \in 2 .. n + 2
    BY <1>b
  <2>2. \A i \in 1 .. n + 1 : pos[i + 1] - d \in Nat
    BY <1>8, <2>1, Zenon
  <2> QED  BY <2>2, Zenon
<1>10. \A i \in 1 .. n + 1 : to[i] = pos[i + 1] - d
  BY <1>9, Zenon
<1>11. to[1] = 0 /\ to[n + 1] = k
  <2>1. 1 \in 1 .. n + 1 /\ n + 1 \in 1 .. n + 1 /\ 1 + 1 = 2 /\ (n + 1) + 1 = n + 2
    BY <1>b
  <2>a. pos[n + 2] = Len(w)
    BY <1>6, Zenon
  <2>2. to[1] = d - d /\ to[n + 1] = Len(w) - d
    <3>1. to[1] = pos[1 + 1] - d /\ to[n + 1] = pos[(n + 1) + 1] - d
      BY <1>10, <2>1, Zenon
    <3> QED  BY <1>7, <2>1, <2>a, <3>1, Zenon
  <2>3. Len(w) = k + d
    <3>1. Len(w) = Len(v) + 1 + Len(enc[q[1]]) /\ Len(v) = k /\ d = 1 + Len(enc[q[1]])
      BY <1>0, <1>3, Zenon
    <3>2. \A x, y \in Nat : x + 1 + y = x + (1 + y)
      OBVIOUS
    <3> QED  BY <1>b, <1>a, <3>1, <3>2, Zenon
  <2> QED  BY <1>b, <2>2, <2>3
<1>12. ASSUME NEW i \in 1 .. n + 1, NEW j \in 1 .. n + 1, i <= j PROVE to[i] <= to[j]
  <2>1. /\ i + 1 \in 1 .. n + 2 /\ j + 1 \in 1 .. n + 2 /\ i + 1 <= j + 1
    BY <1>b, <1>12
  <2>2. pos[i + 1] <= pos[j + 1] /\ pos[i + 1] \in Nat /\ pos[j + 1] \in Nat
    BY <1>b, <1>6, <2>1, Zenon
  <2>3. \A a, b, c \in Nat : a <= b => a - c <= b - c
    OBVIOUS
  <2>4. pos[i + 1] - d <= pos[j + 1] - d
    BY <1>b, <2>2, <2>3, Zenon
  <2> QED  BY <1>10, <2>4, Zenon
<1>13. ASSUME NEW i \in 1 .. n
       PROVE  /\ to[i + 1] = to[i] + 1 + Len(enc[r[i]])
              /\ v[to[i] + 1] = Len(enc[r[i]])
              /\ \A j \in 1 .. Len(enc[r[i]]) : v[to[i] + 1 + j] = enc[r[i]][j]
  <2>1. i + 1 \in 1 .. Len(q) /\ i + 1 \in 1 .. n + 1 /\ i \in 1 .. n + 1 /\ i + 1 \in 2 .. n + 2
        /\ i + 1 \in 1 .. n + 2 /\ (i + 1) + 1 \in 1 .. n + 2
    BY <1>b, <1>3
  <2>2. q[i + 1] \in S /\ r[i] = q[i + 1]
    <3>1. r[i] = q[i + 1]
      BY <1>5, Zenon
    <3>2. q[i + 1] \in S
      BY <2>1
    <3> QED  BY <3>1, <3>2, Zenon
  <2>3. PICK b \in Seq(Nat) : b = enc[r[i]]
    BY <2>2, Zenon
  <2>4. Len(b) \in Nat
    <3>1. b \in Seq(Nat)
      BY <2>3, Zenon
    <3> QED  BY <3>1
  <2>5. PICK a \in Nat, c \in Nat : a = to[i] /\ c = Len(b)
    <3>1. to[i] \in Nat
      BY <1>9, <2>1, Zenon
    <3> QED  BY <2>4, <3>1, Zenon
  <2>6. pos[i + 1] = a + d /\ pos[i + 1] \in Nat /\ pos[(i + 1) + 1] \in Nat
    <3>1. pos[i + 1] \in Nat /\ pos[(i + 1) + 1] \in Nat
      BY <1>b, <2>1, Zenon
    <3>2. a = pos[i + 1] - d
      BY <1>10, <2>1, <2>5, Zenon
    <3>3. \A x, y, z \in Nat : x = y - z => y = x + z
      OBVIOUS
    <3>4. a \in Nat
      BY <2>5, Zenon
    <3> QED  BY <1>b, <3>1, <3>2, <3>3, <3>4, Zenon
  <2>7. /\ pos[(i + 1) + 1] = (a + d) + 1 + c
        /\ w[(a + d) + 1] = c
        /\ \A j \in 1 .. c : w[(a + d) + 1 + j] = b[j]
    <3>1. /\ pos[(i + 1) + 1] = pos[i + 1] + 1 + Len(enc[q[i + 1]])
          /\ w[pos[i + 1] + 1] = Len(enc[q[i + 1]])
          /\ \A j \in 1 .. Len(enc[q[i + 1]]) : w[pos[i + 1] + 1 + j] = enc[q[i + 1]][j]
      BY <1>6, <2>1, Zenon
    <3>2. enc[q[i + 1]] = b
      BY <2>2, <2>3, Zenon
    <3>3. /\ pos[(i + 1) + 1] = pos[i + 1] + 1 + Len(b)
          /\ w[pos[i + 1] + 1] = Len(b)
          /\ \A j \in 1 .. Len(b) : w[pos[i + 1] + 1 + j] = b[j]
      BY <3>1, <3>2, Zenon
    <3>4. pos[i + 1] = a + d /\ Len(b) = c
      BY <2>5, <2>6, Zenon
    <3> QED  BY <3>3, <3>4, Zenon
  <2>8. to[i + 1] = a + 1 + c
    <3>1. to[i + 1] = ((a + d) + 1 + c) - d
      BY <1>10, <2>1, <2>7, Zenon
    <3>2. \A x, y, z \in Nat : ((x + y) + 1 + z) - y = x + 1 + z
      OBVIOUS
    <3>3. a \in Nat /\ c \in Nat
      BY <2>5, Zenon
    <3> QED  BY <1>b, <3>1, <3>2, <3>3, Zenon
  <2>9. a + 1 + c <= k
    <3>1. to[i + 1] <= to[n + 1]
      <4>1. n + 1 \in 1 .. n + 1 /\ i + 1 <= n + 1
        BY <1>b
      <4> QED  BY <1>12, <2>1, <4>1, Zenon
    <3> QED  BY <1>11, <2>8, <3>1, Zenon
  <2>10. a + 1 \in 1 .. k /\ \A j \in 1 .. c : a + 1 + j \in 1 .. k
    <3>1. \A x, y, z \in Nat : x + 1 + y <= z =>
            x + 1 \in 1 .. z /\ \A j \in 1 .. y : x + 1 + j \in 1 .. z
      OBVIOUS
    <3>2. a \in Nat /\ c \in Nat
      BY <2>5, Zenon
    <3> QED  BY <1>b, <2>9, <3>1, <3>2, Zenon
  <2>11. \A p \in 1 .. k : v[p] = w[d + p]
    BY <1>0, <1>3, Zenon
  <2>12. v[a + 1] = c /\ \A j \in 1 .. c : v[a + 1 + j] = b[j]
    <3>1. d + (a + 1) = (a + d) + 1 /\ \A j \in 1 .. c : d + (a + 1 + j) = (a + d) + 1 + j
      <4>1. \A x, y, z \in Nat : /\ x + (y + 1) = (y + x) + 1
                                 /\ \A j \in 1 .. z : x + (y + 1 + j) = (y + x) + 1 + j
        OBVIOUS
      <4>2. a \in Nat /\ c \in Nat
        BY <2>5, Zenon
      <4> QED  BY <1>b, <4>1, <4>2, ZenonT(40)
    <3>2. v[a + 1] = c
      <4>1. v[a + 1] = w[d + (a + 1)]
        BY <2>10, <2>11, Zenon
      <4> QED  BY <2>7, <3>1, <4>1, Zenon
    <3>3. ASSUME NEW j \in 1 .. c PROVE v[a + 1 + j] = b[j]
      <4>1. v[a + 1 + j] = w[d + (a + 1 + j)]
        BY <2>10, <2>11, Zenon
      <4>2. w[(a + d) + 1 + j] = b[j]
        BY <2>7, Zenon
      <4>3. d + (a + 1 + j) = (a + d) + 1 + j
        BY <3>1, Zenon
      <4> QED  BY <4>1, <4>2, <4>3, Zenon
    <3> QED  BY <3>2, <3>3, Zenon
  <2> QED  BY <2>3, <2>5, <2>8, <2>12, Zenon
<1>14. to \in [1 .. Len(r) + 1 -> Nat]
  BY <1>5, <1>9, Zenon
<1>15. FramesAt(v, r, enc, to)
  <2>1. \A i, j \in 1 .. Len(r) + 1 : i <= j => to[i] <= to[j]
    BY <1>5, <1>12, Zenon
  <2>2. to[1] = 0 /\ to[Len(r) + 1] = Len(v)
    BY <1>3, <1>5, <1>11, Zenon
  <2>3. \A i \in 1 .. Len(r) :
          /\ to[i + 1] = to[i] + 1 + Len(enc[r[i]])
          /\ v[to[i] + 1] = Len(enc[r[i]])
          /\ \A j \in 1 .. Len(enc[r[i]]) : v[to[i] + 1 + j] = enc[r[i]][j]
    BY <1>5, <1>13, Zenon
  <2> QED  BY <1>14, <2>1, <2>2, <2>3, Zenon DEF FramesAt
<1> QED  BY <1>4, <1>14, <1>15, Zenon DEF Framed

\* Three sequences of bytes.
Bytes(s, t, u) == s \in Seq(Nat) /\ t \in Seq(Nat) /\ u \in Seq(Nat)

\* What the concatenation of two sequences is, element by element.
JoinOf(v, s, t) ==
  /\ v \in Seq(Nat) /\ Len(v) = Len(s) + Len(t) /\ Len(s) \in Nat /\ Len(t) \in Nat
  /\ \A i \in 1 .. Len(s) : v[i] = s[i]
  /\ \A i \in 1 .. Len(t) : v[Len(s) + i] = t[i]

\* The elements of a concatenation, under a name.
LEMMA JoinedAs ==
  ASSUME NEW s, NEW t, Bytes(s, t, t)
  PROVE  JoinOf(s \o t, s, t)
<1>1. s \in Seq(Nat) /\ t \in Seq(Nat)
  BY Zenon DEF Bytes
<1>2. Len(s) \in Nat /\ Len(t) \in Nat
  BY <1>1
<1> QED  BY <1>1, <1>2, Joined, Zenon DEF JoinOf

\* The length and the bytes of a message, put behind a stream, are its frame.
LEMMA FrameWritten ==
  ASSUME NEW S, NEW enc \in [S -> Seq(Nat)], NEW x \in S, NEW q \in Seq(S),
         NEW w \in Seq(Nat), Framed(w, q, enc)
  PROVE  Framed(w \o (<<Len(enc[x])>> \o enc[x]), Append(q, x), enc)
<1>0. enc[x] \in Seq(Nat) /\ <<Len(enc[x])>> \in Seq(Nat)
  OBVIOUS
<1>1. PICK e \in Seq(Nat), o \in Seq(Nat) : e = enc[x] /\ o = <<Len(enc[x])>>
  BY <1>0, Zenon
<1>2. Len(e) \in Nat /\ Len(o) = 1 /\ o[1] = Len(e)
  BY <1>1
<1>3. PICK f \in Seq(Nat) : f = o \o e
  BY <1>1, Joined, Zenon
<1>4. Len(f) = 1 + Len(e) /\ f[1] = Len(e) /\ \A j \in 1 .. Len(e) : f[1 + j] = e[j]
  <2>1. /\ Len(o \o e) = Len(o) + Len(e) /\ \A i \in 1 .. Len(o) : (o \o e)[i] = o[i]
        /\ \A i \in 1 .. Len(e) : (o \o e)[Len(o) + i] = e[i]
    <3>1. o \in Seq(Nat) /\ e \in Seq(Nat)
      BY <1>1, Zenon
    <3> QED  BY <3>1, Joined, Zenon
  <2> QED  BY <1>2, <1>3, <2>1
<1>5. PICK v \in Seq(Nat) : v = w \o f
  BY <1>3, Joined, Zenon
<1>6. /\ Len(v) = Len(w) + Len(f) /\ Len(w) \in Nat
      /\ \A i \in 1 .. Len(w) : v[i] = w[i]
      /\ \A i \in 1 .. Len(f) : v[Len(w) + i] = f[i]
  <2>1. Bytes(w, f, f)
    BY Zenon DEF Bytes
  <2>2. JoinOf(w \o f, w, f)
    BY <2>1, JoinedAs, Zenon
  <2> QED  BY <1>5, <2>2, Zenon DEF JoinOf
<1>7. v[Len(w) + 1] = Len(e)
  <2>1. 1 \in 1 .. Len(f)
    BY <1>2, <1>4
  <2> QED  BY <1>4, <1>6, <2>1, Zenon
<1>8. ASSUME NEW j \in 1 .. Len(e) PROVE v[Len(w) + 1 + j] = e[j]
  <2>1. PICK a \in Nat, b \in Nat, c \in Nat : a = Len(w) /\ b = Len(e) /\ c = Len(f)
    BY <1>2, <1>4, <1>6
  <2>2. c = 1 + b /\ j \in 1 .. b
    BY <1>4, <2>1, Zenon
  <2>3. 1 + j \in 1 .. c /\ a + (1 + j) = a + 1 + j
    BY ONLY <2>2, a \in Nat, b \in Nat
  <2>4. 1 + j \in 1 .. Len(f) /\ Len(w) + (1 + j) = Len(w) + 1 + j
    BY <2>1, <2>3, Zenon
  <2> QED  BY <1>4, <1>6, <2>4, Zenon
<1>9. Len(v) = Len(w) + 1 + Len(e)
  BY <1>2, <1>4, <1>6
<1>10. v \in Seq(Nat) /\ e = enc[x] /\ v = w \o (<<Len(enc[x])>> \o enc[x])
  BY <1>1, <1>3, <1>5, Zenon
<1>11. Framed(v, Append(q, x), enc)
  BY <1>6, <1>7, <1>8, <1>9, <1>10, FrameAdded, Zenon
<1> QED  BY <1>10, <1>11, Zenon

\* What is read as a message is the first one, and the others are still there.
LEMMA FrameRead ==
  ASSUME NEW S, NEW enc \in [S -> Seq(Nat)], NEW q \in Seq(S),
         NEW b \in Seq(Nat), NEW rest \in Seq(Nat),
         Framed((<<Len(b)>> \o b) \o rest, q, enc)
  PROVE  /\ q # <<>> /\ q[1] \in S /\ b = enc[q[1]]
         /\ Framed(rest, Tail(q), enc)
<1>0. <<Len(b)>> \in Seq(Nat)
  OBVIOUS
<1>1. PICK o \in Seq(Nat) : o = <<Len(b)>>
  BY <1>0, Zenon
<1>2. Len(b) \in Nat /\ Len(rest) \in Nat /\ Len(o) = 1 /\ o[1] = Len(b)
  BY <1>1
<1>3. PICK f \in Seq(Nat) : f = o \o b
  BY <1>1, Joined, Zenon
<1>4. Len(f) = 1 + Len(b) /\ f[1] = Len(b) /\ \A j \in 1 .. Len(b) : f[1 + j] = b[j]
  <2>1. /\ Len(o \o b) = Len(o) + Len(b) /\ \A i \in 1 .. Len(o) : (o \o b)[i] = o[i]
        /\ \A i \in 1 .. Len(b) : (o \o b)[Len(o) + i] = b[i]
    BY <1>1, Joined, Zenon
  <2> QED  BY <1>2, <1>3, <2>1
<1>5. PICK w \in Seq(Nat) : w = f \o rest
  BY <1>3, Joined, Zenon
<1>6. /\ Len(w) = Len(f) + Len(rest)
      /\ \A i \in 1 .. Len(f) : w[i] = f[i]
      /\ \A i \in 1 .. Len(rest) : w[Len(f) + i] = rest[i]
  BY <1>3, <1>5, Joined
<1>7. w \in Seq(Nat) /\ Framed(w, q, enc)
  BY <1>1, <1>3, <1>5, Zenon
<1>8. w # <<>>
  <2>1. Len(w) # 0
    BY <1>2, <1>4, <1>6
  <2> QED  BY <1>7, <2>1
<1>9. q # <<>> /\ q[1] \in S /\ StartsWith(w, enc[q[1]])
  BY <1>7, <1>8, FirstFrame, Zenon
<1>a. PICK e \in Seq(Nat) : e = enc[q[1]]
  BY <1>9, Zenon
<1>10. w[1] = Len(e) /\ e \in Seq(Nat) /\ \A j \in 1 .. Len(e) : w[1 + j] = e[j]
  <2>1. StartsWith(w, e) /\ e \in Seq(Nat)
    BY <1>9, <1>a, Zenon
  <2> QED  BY <2>1, Zenon DEF StartsWith
<1>11. Len(e) = Len(b)
  <2>1. 1 \in 1 .. Len(f)
    BY <1>2, <1>4
  <2> QED  BY <1>4, <1>6, <1>10, <2>1, Zenon
<1>12. ASSUME NEW j \in 1 .. Len(b) PROVE b[j] = e[j]
  <2>1. 1 + j \in 1 .. Len(f) /\ j \in 1 .. Len(e)
    BY <1>2, <1>4, <1>11
  <2> QED  BY <1>4, <1>6, <1>10, <2>1, Zenon
<1>13. b = e
  BY <1>10, <1>11, <1>12, SeqEqual, Zenon
<1>14. Len(w) = Len(rest) + 1 + Len(e)
  BY <1>2, <1>4, <1>6, <1>11
<1>15. \A i \in 1 .. Len(rest) : rest[i] = w[1 + Len(e) + i]
  BY <1>4, <1>6, <1>11, Zenon
<1>16. Framed(rest, Tail(q), enc)
  BY <1>7, <1>8, <1>a, <1>14, <1>15, FrameTaken, Zenon
<1> QED  BY <1>9, <1>a, <1>13, <1>16, Zenon

\* Concatenation is associative.
LEMMA Associative ==
  ASSUME NEW s \in Seq(Nat), NEW t \in Seq(Nat), NEW u \in Seq(Nat)
  PROVE  (s \o t) \o u = s \o (t \o u)
<1>1. PICK a \in Seq(Nat), b \in Seq(Nat) : a = s \o t /\ b = t \o u
  BY Joined, Zenon
<1>2. PICK k \in Nat, l \in Nat, n \in Nat : k = Len(s) /\ l = Len(t) /\ n = Len(u)
  BY Joined, Zenon
<1>3. /\ Len(a) = k + l /\ \A i \in 1 .. k : a[i] = s[i]
      /\ \A i \in 1 .. l : a[k + i] = t[i]
  BY <1>1, <1>2, Joined
<1>4. /\ Len(b) = l + n /\ \A i \in 1 .. l : b[i] = t[i]
      /\ \A i \in 1 .. n : b[l + i] = u[i]
  BY <1>1, <1>2, Joined
<1>5. PICK c \in Seq(Nat), d \in Seq(Nat) : c = a \o u /\ d = s \o b
  BY <1>1, Joined, Zenon
<1>6. /\ Len(c) = (k + l) + n /\ \A i \in 1 .. k + l : c[i] = a[i]
      /\ \A i \in 1 .. n : c[(k + l) + i] = u[i]
  BY <1>1, <1>2, <1>3, <1>5, Joined
<1>7. /\ Len(d) = k + (l + n) /\ \A i \in 1 .. k : d[i] = s[i]
      /\ \A i \in 1 .. l + n : d[k + i] = b[i]
  BY <1>1, <1>2, <1>4, <1>5, Joined
<1>8. ASSUME NEW i \in 1 .. (k + l) + n PROVE c[i] = d[i]
  <2>1. CASE i \in 1 .. k
    <3>1. i \in 1 .. k + l
      BY <1>2, <2>1
    <3> QED  BY <1>3, <1>6, <1>7, <2>1, <3>1, Zenon
  <2>2. CASE i \in k + 1 .. k + l
    <3>1. PICK j \in 1 .. l : i = k + j
      <4>1. i - k \in 1 .. l /\ i = k + (i - k)
        BY <1>2, <2>2
      <4> QED  BY <4>1, Zenon
    <3>2. j \in 1 .. l + n /\ k + j \in 1 .. k + l
      BY <1>2, <3>1
    <3>3. c[k + j] = a[k + j] /\ a[k + j] = t[j] /\ d[k + j] = b[j] /\ b[j] = t[j]
      BY <1>3, <1>4, <1>6, <1>7, <3>1, <3>2, Zenon
    <3> QED  BY <3>1, <3>3, Zenon
  <2>3. CASE i \in (k + l) + 1 .. (k + l) + n
    <3>1. PICK j \in 1 .. n : i = (k + l) + j
      <4>1. i - (k + l) \in 1 .. n /\ i = (k + l) + (i - (k + l))
        BY <1>2, <2>3
      <4> QED  BY <4>1, Zenon
    <3>2. l + j \in 1 .. l + n /\ (k + l) + j = k + (l + j)
      BY <1>2, <3>1
    <3>3. c[(k + l) + j] = u[j] /\ d[k + (l + j)] = b[l + j] /\ b[l + j] = u[j]
      BY <1>4, <1>6, <1>7, <3>1, <3>2, Zenon
    <3> QED  BY <3>1, <3>2, <3>3, Zenon
  <2>4. i \in 1 .. k \/ i \in k + 1 .. k + l \/ i \in (k + l) + 1 .. (k + l) + n
    BY <1>2
  <2> QED  BY <2>1, <2>2, <2>3, <2>4, Zenon
<1>9. Len(c) = (k + l) + n /\ Len(d) = Len(c) /\ c \in Seq(Nat) /\ d \in Seq(Nat)
  BY <1>2, <1>5, <1>6, <1>7
<1>10. c = d
  <2>1. \A i \in 1 .. Len(c) : c[i] = d[i]
    BY <1>8, <1>9, Zenon
  <2> QED  BY <1>9, <2>1, SeqEqual, Zenon
<1> QED  BY <1>1, <1>5, <1>10, Zenon

\* That they can be concatenated in either order.
Regroups(s, t, u) == (s \o t) \o u = s \o (t \o u)

\* The same under a name, for where many sequences are about.
LEMMA Regrouped ==
  ASSUME NEW s, NEW t, NEW u, Bytes(s, t, u)
  PROVE  Regroups(s, t, u)
BY Associative, Zenon DEF Bytes, Regroups

\* A byte that moves from the head of one sequence to the end of another.
LEMMA ByteMoved ==
  ASSUME NEW s \in Seq(Nat), NEW t \in Seq(Nat), t # <<>>
  PROVE  /\ Append(s, Head(t)) \o Tail(t) = s \o t
         /\ Append(s, Head(t)) \in Seq(Nat) /\ Tail(t) \in Seq(Nat) /\ Head(t) \in Nat
<1>0. Head(t) \in Nat /\ Tail(t) \in Seq(Nat) /\ <<Head(t)>> \in Seq(Nat)
  OBVIOUS
<1>1. PICK h \in Nat, u \in Seq(Nat) : h = Head(t) /\ u = Tail(t)
  BY <1>0, Zenon
<1>2. PICK o \in Seq(Nat) : o = <<h>>
  BY <1>0, <1>1, Zenon
<1>3. Append(s, h) = s \o o
  BY <1>1, <1>2, AppendIsConcat, Zenon
<1>4. t = o \o u
  BY <1>1, <1>2
<1>5. (s \o o) \o u = s \o (o \o u)
  <2>1. Bytes(s, o, u)
    BY <1>1, <1>2, Zenon DEF Bytes
  <2>2. Regroups(s, o, u)
    BY <2>1, Regrouped, Zenon
  <2> QED  BY <2>2, Zenon DEF Regroups
<1>6. Append(s, h) \o u = s \o t
  BY <1>3, <1>4, <1>5, Zenon
<1>7. Append(s, h) \in Seq(Nat)
  BY <1>1
<1> QED  BY <1>0, <1>1, <1>6, <1>7, Zenon

\* That the head of the second of three sequences can move to the first.
MovesOn(s, t, u) == Append(s, Head(t)) \o (Tail(t) \o u) = s \o (t \o u)

\* The same with a third sequence behind.
LEMMA ByteMovedOn ==
  ASSUME NEW s, NEW t, NEW u, Bytes(s, t, u), t # <<>>
  PROVE  MovesOn(s, t, u)
<1>0. s \in Seq(Nat) /\ t \in Seq(Nat) /\ u \in Seq(Nat)
  BY Zenon DEF Bytes
<1>1. PICK a \in Seq(Nat), b \in Seq(Nat) : a = Append(s, Head(t)) /\ b = Tail(t)
  BY <1>0, ByteMoved, Zenon
<1>2. a \o (b \o u) = (a \o b) \o u
  <2>1. Bytes(a, b, u)
    BY <1>0, Zenon DEF Bytes
  <2>2. Regroups(a, b, u)
    BY <2>1, Regrouped, Zenon
  <2> QED  BY <2>2, Zenon DEF Regroups
<1>3. a \o b = s \o t
  BY <1>0, <1>1, ByteMoved, Zenon
<1>4. (s \o t) \o u = s \o (t \o u)
  BY Regrouped DEF Regroups
<1> QED  BY <1>1, <1>2, <1>3, <1>4, Zenon DEF MovesOn

\* That a number appended to a concatenation is appended to its second part.
AppendsOver(s, t, h) == Append(s \o t, h) = s \o Append(t, h)

\* Appending to a concatenation appends to its second part.
LEMMA AppendOver ==
  ASSUME NEW s, NEW t, NEW h \in Nat, Bytes(s, t, t)
  PROVE  AppendsOver(s, t, h)
<1>0. s \in Seq(Nat) /\ t \in Seq(Nat)
  BY Zenon DEF Bytes
<1>1. PICK a \in Seq(Nat) : a = s \o t
  BY <1>0, Joined, Zenon
<1>2. <<h>> \in Seq(Nat)
  OBVIOUS
<1>3. Append(a, h) = a \o <<h>> /\ Append(t, h) = t \o <<h>>
  BY <1>0, AppendIsConcat, Zenon
<1>4. (s \o t) \o <<h>> = s \o (t \o <<h>>)
  <2>1. Bytes(s, t, <<h>>)
    BY <1>0, <1>2, Zenon DEF Bytes
  <2>2. Regroups(s, t, <<h>>)
    BY <2>1, Regrouped, Zenon
  <2> QED  BY <2>2, Zenon DEF Regroups
<1> QED  BY <1>1, <1>3, <1>4, Zenon DEF AppendsOver

----------------------------------------------------------------------------
(* StreamFramer: messages and their encodings.                              *)

\* A message comes out of its encoding as it was.
LEMMA DecodeEncode ==
  ASSUME NEW x \in F!Message
  PROVE  /\ F!Encode(x) \in Seq(Nat) /\ Len(F!Encode(x)) >= 1
         /\ F!AsMessage(F!Encode(x)) /\ F!Decode(F!Encode(x)) = x
<1>1. CASE x \in [type : {F!MT_Data}, addr : {a \in Seq(Nat) : Len(a) = F!AddrLen}, data : Seq(Nat)]
  <2>1. x.type = 101 /\ x.addr \in Seq(Nat) /\ Len(x.addr) = 2 /\ x.data \in Seq(Nat)
    BY <1>1, Zenon DEF F!MT_Data, F!AddrLen
  <2>2. x = [type |-> x.type, addr |-> x.addr, data |-> x.data]
    BY <1>1, Zenon
  <2>3. PICK a \in Seq(Nat), d \in Seq(Nat) : a = x.addr /\ d = x.data
    BY <2>1, ZenonT(40)
  <2>4. F!Encode(x) = <<101>> \o a \o d
    <3>1. F!Encode(x) = F!WriteDataMessage(x.addr, x.data)
      <4>1. x.type = 101
        BY <2>1, Zenon
      <4> QED  BY <4>1 DEF F!Encode, F!MT_Data, F!MT_KeepAlive
    <3> QED  BY <2>3, <3>1, Zenon DEF F!WriteDataMessage, F!MT_Data
  <2>5. PICK e \in Seq(Nat) : e = <<101>> \o a \o d /\ Apart(e, 101, a, d)
    <3>1. Len(a) = 2 /\ 101 \in Nat /\ a \in Seq(Nat) /\ d \in Seq(Nat)
      BY <2>1, <2>3, Zenon
    <3>2. <<101>> \o a \o d \in Seq(Nat) /\ Apart(<<101>> \o a \o d, 101, a, d)
      BY <3>1, ThreeParts, Zenon
    <3> QED  BY <3>2, Zenon
  <2>a. e \in Seq(Nat) /\ Len(e) \in Nat /\ Len(e) >= 3 /\ e[1] = 101
    BY <2>5 DEF Apart
  <2>6. F!AsMessage(e)
    BY <2>a DEF F!AsMessage, F!MT_Data, F!MinDataMsgLen, F!AddrLen
  <2>7. F!Decode(e) = F!DataMsg(e)
    BY <2>a, <2>6 DEF F!Decode, F!MT_Data, F!MT_KeepAlive
  <2>8. F!DataMsg(e) = [type |-> 101, addr |-> a, data |-> d]
    <3>1. 1 + F!AddrLen = 3 /\ 2 + F!AddrLen = 4
      BY DEF F!AddrLen
    <3>2. SubSeq(e, 2, 3) = a /\ SubSeq(e, 4, Len(e)) = d
      BY <2>5, Zenon DEF Apart
    <3> QED  BY <3>1, <3>2, Zenon DEF F!DataMsg, F!MT_Data
  <2>9. e = F!Encode(x) /\ e \in Seq(Nat) /\ Len(e) >= 1
    BY <2>4, <2>5
  <2>10. [type |-> 101, addr |-> a, data |-> d] = x
    BY <2>1, <2>2, <2>3, Zenon
  <2> QED  BY <2>6, <2>7, <2>8, <2>9, <2>10, Zenon
<1>2. CASE x \in [type : {F!MT_KeepAlive}]
  <2>1. x = [type |-> 102]
    BY <1>2, Zenon DEF F!MT_KeepAlive
  <2>2. PICK e \in Seq(Nat) : e = <<102>>
    <3>1. <<102>> \in Seq(Nat)
      OBVIOUS
    <3> QED  BY <3>1, Zenon
  <2>3. F!Encode(x) = <<102>>
    BY <2>1 DEF F!Encode, F!WriteKeepAlive, F!MT_KeepAlive, F!MT_Data
  <2>4. Len(e) = 1 /\ e[1] = 102 /\ e \in Seq(Nat)
    BY <2>2, Zenon
  <2>5. F!AsMessage(e) /\ F!Decode(e) = [type |-> 102]
    BY <2>4 DEF F!AsMessage, F!Decode, F!MT_KeepAlive, F!MT_Data
  <2>6. Len(e) >= 1
    BY <2>4
  <2> QED  BY <2>1, <2>2, <2>3, <2>4, <2>5, <2>6, Zenon
<1>3. CASE x \in [type : {F!MT_FindAddr, F!MT_PublicKey}, id : Nat, body : Nat]
  <2>1. x.type \in {103, 104} /\ x.id \in Nat /\ x.body \in Nat
    BY <1>3, Zenon DEF F!MT_FindAddr, F!MT_PublicKey
  <2>2. x = [type |-> x.type, id |-> x.id, body |-> x.body]
    BY <1>3, Zenon
  <2>3. PICK t \in Nat, i \in Nat, b \in Nat : t = x.type /\ i = x.id /\ b = x.body
    BY <2>1
  <2>4. F!Encode(x) = <<t, i, b>>
    BY <2>1, <2>3 DEF F!Encode, F!WriteAskMessage, F!MT_KeepAlive, F!MT_Data
  <2>5. PICK e \in Seq(Nat) : e = <<t, i, b>>
    <3>1. <<t, i, b>> \in Seq(Nat)
      BY <2>3
    <3> QED  BY <3>1, Zenon
  <2>6. Len(e) = 3 /\ e[1] = t /\ e[2] = i /\ e[3] = b /\ e \in Seq(Nat)
    BY <2>5, Zenon
  <2>7. t \in {103, 104}
    BY <2>1, <2>3, Zenon
  <2>8. F!AsMessage(e)
    BY <2>6, <2>7 DEF F!AsMessage, F!MT_KeepAlive, F!MT_Data, F!MT_FindAddr, F!MT_PublicKey,
                      F!MinAskMsgLen, F!ReqIDLen
  <2>9. F!Decode(e) = [type |-> e[1], id |-> e[2], body |-> e[3]]
    BY <2>6, <2>7, <2>8 DEF F!Decode, F!MT_KeepAlive, F!MT_Data
  <2>10. [type |-> t, id |-> i, body |-> b] = x
    BY <2>2, <2>3, Zenon
  <2>11. F!Decode(e) = x
    BY <2>6, <2>9, <2>10, Zenon
  <2>12. Len(e) >= 1
    BY <2>6
  <2> QED  BY <2>4, <2>5, <2>6, <2>8, <2>11, <2>12, Zenon
<1> QED  BY <1>1, <1>2, <1>3, Zenon DEF F!Message

\* Where messages are: q on the stream, in buffers H of the memory me for those
\* who act on them, td not sent; h counts those acted on.  Each is in one place.
Accounts(q, td, h, H, me) ==
  /\ \A i \in 1 .. Len(q) : q[i] \in Msg \ td /\ h[q[i]] = 0
  /\ \A i, j \in 1 .. Len(q) : q[i] = q[j] => i = j
  /\ \A b \in H : \E x \in Msg \ td : /\ me[b] = F!Encode(x) /\ h[x] = 0
                                      /\ \A i \in 1 .. Len(q) : q[i] # x
  /\ \A b, c \in H : me[b] = me[c] => b = c
  /\ h[None] = 0
  /\ \A x \in Msg : h[x] <= (IF x \in td THEN 0 ELSE 1)

\* Different messages have different encodings.
LEMMA EncodeInjective ==
  ASSUME F!WellFormed, NEW x \in Msg, NEW y \in Msg, F!Encode(x) = F!Encode(y)
  PROVE  x = y
BY DecodeEncode, Zenon DEF F!WellFormed

\* Only the buffers of H matter.
LEMMA AccountsOf ==
  ASSUME NEW q, NEW td, NEW h, NEW H, NEW me, NEW me2,
         Accounts(q, td, h, H, me), \A b \in H : me2[b] = me[b]
  PROVE  Accounts(q, td, h, H, me2)
BY DEF Accounts

\* A message that cannot be sent is gone.
LEMMA AccountsLost ==
  ASSUME NEW q, NEW td, NEW h \in [Msg \cup {None} -> Nat], NEW H, NEW me, NEW x \in Msg,
         Accounts(q, td, h, H, me)
  PROVE  Accounts(q, td \ {x}, h, H, me)
<1>1. \A i \in 1 .. Len(q) : q[i] \in Msg \ (td \ {x}) /\ h[q[i]] = 0
  BY Zenon DEF Accounts
<1>2. \A b \in H : \E y \in Msg \ (td \ {x}) : /\ me[b] = F!Encode(y) /\ h[y] = 0
                                               /\ \A i \in 1 .. Len(q) : q[i] # y
  <2> SUFFICES ASSUME NEW b \in H
               PROVE  \E y \in Msg \ (td \ {x}) : /\ me[b] = F!Encode(y) /\ h[y] = 0
                                                  /\ \A i \in 1 .. Len(q) : q[i] # y
    BY Zenon
  <2>1. PICK y \in Msg \ td : /\ me[b] = F!Encode(y) /\ h[y] = 0
                              /\ \A i \in 1 .. Len(q) : q[i] # y
    BY Zenon DEF Accounts
  <2>2. y \in Msg \ (td \ {x})
    BY <2>1, Zenon
  <2> QED  BY <2>1, <2>2, Zenon
<1>3. \A y \in Msg : h[y] <= (IF y \in td \ {x} THEN 0 ELSE 1)
  <2> TAKE y \in Msg
  <2>1. h[y] \in Nat /\ h[y] <= (IF y \in td THEN 0 ELSE 1)
    BY Zenon DEF Accounts
  <2> QED  BY <2>1
<1> QED  BY <1>1, <1>2, <1>3, Zenon DEF Accounts

\* A message that is sent goes to the end of the stream.
LEMMA AccountsSent ==
  ASSUME NEW q \in Seq(Msg), NEW td, NEW h \in [Msg \cup {None} -> Nat], NEW H, NEW me,
         NEW x \in Msg, x \in td, Accounts(q, td, h, H, me)
  PROVE  Accounts(Append(q, x), td \ {x}, h, H, me)
<1>0. Append(q, x) \in Seq(Msg)
  OBVIOUS
<1>1. PICK r \in Seq(Msg) : r = Append(q, x)
  BY <1>0, Zenon
<1>2. Len(q) \in Nat /\ Len(r) = Len(q) + 1 /\ r[Len(q) + 1] = x /\ \A i \in 1 .. Len(q) : r[i] = q[i]
  BY <1>1
<1>3. \A i \in 1 .. Len(r) : i \in 1 .. Len(q) \/ i = Len(q) + 1
  BY <1>2
<1>4. h[x] = 0
  <2>1. h[x] \in Nat /\ h[x] <= 0
    BY Zenon DEF Accounts
  <2> QED  BY <2>1
<1>5. \A i \in 1 .. Len(q) : q[i] \in Msg \ td /\ h[q[i]] = 0 /\ q[i] # x
  BY Zenon DEF Accounts
<1>6. \A i \in 1 .. Len(r) : r[i] \in Msg \ (td \ {x}) /\ h[r[i]] = 0
  BY <1>2, <1>3, <1>4, <1>5, Zenon
<1>7. \A i, j \in 1 .. Len(r) : r[i] = r[j] => i = j
  <2>1. \A i, j \in 1 .. Len(q) : q[i] = q[j] => i = j
    BY Zenon DEF Accounts
  <2> SUFFICES ASSUME NEW i \in 1 .. Len(r), NEW j \in 1 .. Len(r), r[i] = r[j] PROVE i = j
    BY Zenon
  <2>2. CASE i \in 1 .. Len(q) /\ j \in 1 .. Len(q)
    BY <1>2, <2>1, <2>2, Zenon
  <2>3. CASE i \in 1 .. Len(q) /\ j = Len(q) + 1
    BY <1>2, <1>5, <2>3, Zenon
  <2>4. CASE i = Len(q) + 1 /\ j \in 1 .. Len(q)
    BY <1>2, <1>5, <2>4, Zenon
  <2> QED  BY <1>3, <2>2, <2>3, <2>4, Zenon
<1>8. \A b \in H : \E y \in Msg \ (td \ {x}) : /\ me[b] = F!Encode(y) /\ h[y] = 0
                                               /\ \A i \in 1 .. Len(r) : r[i] # y
  <2> TAKE b \in H
  <2>1. PICK y \in Msg \ td : /\ me[b] = F!Encode(y) /\ h[y] = 0
                              /\ \A i \in 1 .. Len(q) : q[i] # y
    BY Zenon DEF Accounts
  <2>2. \A i \in 1 .. Len(r) : r[i] # y
    BY <1>2, <1>3, <2>1, Zenon
  <2> QED  BY <2>1, <2>2, Zenon
<1>9. \A y \in Msg : h[y] <= (IF y \in td \ {x} THEN 0 ELSE 1)
  <2> TAKE y \in Msg
  <2>1. h[y] \in Nat /\ h[y] <= (IF y \in td THEN 0 ELSE 1)
    BY Zenon DEF Accounts
  <2> QED  BY <2>1
<1>10. Accounts(r, td \ {x}, h, H, me)
  BY <1>6, <1>7, <1>8, <1>9, Zenon DEF Accounts
<1> QED  BY <1>1, <1>10, Zenon

\* The first message of the stream is read into a buffer.
LEMMA AccountsRead ==
  ASSUME F!WellFormed, NEW q \in Seq(Msg), q # <<>>, NEW td, NEW h, NEW H, NEW me, NEW me2, NEW b,
         Accounts(q, td, h, H, me), \A c \in H : me2[c] = me[c],
         b \notin H, me2[b] = F!Encode(q[1])
  PROVE  Accounts(Tail(q), td, h, H \cup {b}, me2)
<1>0. Tail(q) \in Seq(Msg)
  OBVIOUS
<1>1. PICK r \in Seq(Msg) : r = Tail(q)
  BY <1>0, Zenon
<1>2. Len(q) \in Nat \ {0} /\ Len(r) = Len(q) - 1 /\ \A i \in 1 .. Len(r) : r[i] = q[i + 1]
  BY <1>1
<1>3. 1 \in 1 .. Len(q) /\ \A i \in 1 .. Len(r) : i + 1 \in 1 .. Len(q) /\ i + 1 # 1
  BY <1>2
<1>4. /\ \A i \in 1 .. Len(q) : q[i] \in Msg \ td /\ h[q[i]] = 0
      /\ \A i, j \in 1 .. Len(q) : q[i] = q[j] => i = j
  BY Zenon DEF Accounts
<1>5. \A i \in 1 .. Len(r) : r[i] \in Msg \ td /\ h[r[i]] = 0 /\ r[i] # q[1]
  <2> TAKE i \in 1 .. Len(r)
  <2>1. r[i] = q[i + 1] /\ i + 1 \in 1 .. Len(q) /\ i + 1 # 1
    BY <1>2, <1>3, Zenon
  <2>2. q[i + 1] # q[1]
    BY <1>3, <1>4, <2>1, Zenon
  <2> QED  BY <1>4, <2>1, <2>2, Zenon
<1>6. \A i, j \in 1 .. Len(r) : r[i] = r[j] => i = j
  <2> TAKE i, j \in 1 .. Len(r)
  <2>1. r[i] = r[j] => i + 1 = j + 1
    BY <1>2, <1>3, <1>4
  <2> QED  BY <1>2, <2>1
<1>7. ASSUME NEW c \in H
      PROVE  \E x \in Msg \ td : /\ me2[c] = F!Encode(x) /\ h[x] = 0 /\ x # q[1]
                                 /\ \A i \in 1 .. Len(r) : r[i] # x
  <2>1. PICK x \in Msg \ td : /\ me[c] = F!Encode(x) /\ h[x] = 0
                              /\ \A i \in 1 .. Len(q) : q[i] # x
    BY Zenon DEF Accounts
  <2>2. x # q[1] /\ \A i \in 1 .. Len(r) : r[i] # x
    BY <1>2, <1>3, <2>1
  <2> QED  BY <2>1, <2>2, Zenon
<1>8. \A c \in H \cup {b} : \E x \in Msg \ td : /\ me2[c] = F!Encode(x) /\ h[x] = 0
                                                /\ \A i \in 1 .. Len(r) : r[i] # x
  BY <1>3, <1>4, <1>5, <1>7, Zenon
<1>9. \A c \in H : me2[c] # me2[b]
  BY <1>3, <1>4, <1>7, EncodeInjective
<1>10. \A c, d \in H \cup {b} : me2[c] = me2[d] => c = d
  <2>1. \A c, d \in H : me2[c] = me2[d] => c = d
    BY Zenon DEF Accounts
  <2> QED  BY <1>9, <2>1, Zenon
<1>11. h[None] = 0 /\ \A x \in Msg : h[x] <= (IF x \in td THEN 0 ELSE 1)
  BY Zenon DEF Accounts
<1>12. Accounts(r, td, h, H \cup {b}, me2)
  BY <1>5, <1>6, <1>8, <1>10, <1>11, Zenon DEF Accounts
<1> QED  BY <1>1, <1>12, Zenon

\* A message is copied to another buffer, and the first one given up.
LEMMA AccountsCopied ==
  ASSUME NEW q, NEW td, NEW h, NEW H, NEW me, NEW me2, NEW b \in H, NEW c,
         Accounts(q, td, h, H, me), \A d \in H : me2[d] = me[d],
         c \notin H, me2[c] = me[b]
  PROVE  Accounts(q, td, h, (H \ {b}) \cup {c}, me2)
<1> DEFINE G == (H \ {b}) \cup {c}
<1>1. \A d \in G : \E x \in Msg \ td : /\ me2[d] = F!Encode(x) /\ h[x] = 0
                                       /\ \A i \in 1 .. Len(q) : q[i] # x
  <2>1. \A d \in H : \E x \in Msg \ td : /\ me[d] = F!Encode(x) /\ h[x] = 0
                                         /\ \A i \in 1 .. Len(q) : q[i] # x
    BY Zenon DEF Accounts
  <2>2. \A d \in G : \E e \in H : me2[d] = me[e]
    BY Zenon
  <2> HIDE DEF G
  <2> TAKE d \in G
  <2>3. PICK e \in H : me2[d] = me[e]
    BY <2>2, Zenon
  <2>4. PICK x \in Msg \ td : /\ me[e] = F!Encode(x) /\ h[x] = 0
                              /\ \A i \in 1 .. Len(q) : q[i] # x
    BY <2>1, <2>3, Zenon
  <2> QED  BY <2>3, <2>4, Zenon
<1>2. \A d, e \in G : me2[d] = me2[e] => d = e
  BY DEF Accounts
<1> HIDE DEF G
<1>3. Accounts(q, td, h, G, me2)
  BY <1>1, <1>2, Zenon DEF Accounts
<1> QED  BY <1>3, Zenon DEF G

\* What is in a buffer is acted on as it was sent, and the buffer given up.
LEMMA AccountsActed ==
  ASSUME F!WellFormed, NEW q, NEW td, NEW h \in [Msg \cup {None} -> Nat], NEW H, NEW me, NEW b \in H,
         Accounts(q, td, h, H, me)
  PROVE  \E x \in Msg :
           /\ me[b] = F!Encode(x) /\ F!AsMessage(me[b]) /\ F!Decode(me[b]) = x
           /\ Accounts(q, td, [h EXCEPT ![x] = @ + 1], H \ {b}, me)
<1>1. PICK x \in Msg \ td : /\ me[b] = F!Encode(x) /\ h[x] = 0
                            /\ \A i \in 1 .. Len(q) : q[i] # x
  BY Zenon DEF Accounts
<1>2. x \in Msg /\ x \in F!Message /\ x # None /\ x \notin td
  BY <1>1, Zenon DEF F!WellFormed
<1>3. F!AsMessage(me[b]) /\ F!Decode(me[b]) = x
  BY <1>1, <1>2, DecodeEncode, Zenon
<1>a. [h EXCEPT ![x] = @ + 1] \in [Msg \cup {None} -> Nat]
  BY <1>2
<1>4. PICK k \in [Msg \cup {None} -> Nat] : k = [h EXCEPT ![x] = @ + 1]
  BY <1>a, Zenon
<1>5. k[x] = 1 /\ \A y \in Msg \cup {None} : y # x => k[y] = h[y]
  BY <1>1, <1>2, <1>4
<1>6. \A i \in 1 .. Len(q) : q[i] \in Msg \ td /\ k[q[i]] = 0
  BY <1>1, <1>5, Zenon DEF Accounts
<1>7. ASSUME NEW c \in H \ {b}
      PROVE  \E y \in Msg \ td : /\ me[c] = F!Encode(y) /\ k[y] = 0
                                 /\ \A i \in 1 .. Len(q) : q[i] # y
  <2>1. PICK y \in Msg \ td : /\ me[c] = F!Encode(y) /\ h[y] = 0
                              /\ \A i \in 1 .. Len(q) : q[i] # y
    BY Zenon DEF Accounts
  <2>2. me[c] # me[b]
    BY Zenon DEF Accounts
  <2>3. y # x
    BY <1>1, <2>1, <2>2, Zenon
  <2> QED  BY <1>5, <2>1, <2>3, Zenon
<1>8. k[None] = 0
  BY <1>2, <1>5, Zenon DEF Accounts
<1>9. \A y \in Msg : k[y] <= (IF y \in td THEN 0 ELSE 1)
  <2> TAKE y \in Msg
  <2>1. CASE y = x
    BY <1>2, <1>5, <2>1
  <2>2. CASE y # x
    <3>1. k[y] = h[y] /\ h[y] <= (IF y \in td THEN 0 ELSE 1)
      BY <1>5, <2>2, Zenon DEF Accounts
    <3> QED  BY <3>1, Zenon
  <2> QED  BY <2>1, <2>2, Zenon
<1>10. /\ \A i, j \in 1 .. Len(q) : q[i] = q[j] => i = j
       /\ \A c, d \in H \ {b} : me[c] = me[d] => c = d
  BY Zenon DEF Accounts
<1>11. Accounts(q, td, k, H \ {b}, me)
  BY <1>6, <1>7, <1>8, <1>9, <1>10, Zenon DEF Accounts
<1> QED  BY <1>1, <1>2, <1>3, <1>4, <1>11, Zenon

----------------------------------------------------------------------------
(* StreamFramer: writers, readers and buffers.                              *)

\* What a reader is doing, the buffer it has and the bytes it still waits for.
RdRec == [phase : {"idle", "lock", "read", "handle"}, buf : Buf \cup {None}, missing : Nat]

\* Where the lock wmu and the variables are.
StreamTypes ==
  /\ todo \subseteq Msg
  /\ left \in Seq(Nat) /\ stream \in Seq(Nat)
  /\ (wmu = None) <=> (left = <<>>)
  /\ mem \in [Buf -> Seq(Nat)]
  /\ pool \subseteq Buf /\ tasks \subseteq Buf
  /\ rd \in [Loop -> RdRec]
  /\ rmu \in Loop \cup {None}
  /\ handled \in [Msg \cup {None} -> Nat]

\* The lock rmu is with the reader that reads, and a buffer with one owner.
Owners ==
  /\ pool \cap tasks = {}
  /\ \A r \in Loop : (rmu = r) <=> (rd[r].phase = "read")
  /\ \A r \in Loop : rd[r].phase # "idle" => rd[r].buf \in Buf \ (pool \cup tasks)
  /\ \A r, p \in Loop : rd[r].phase # "idle" /\ rd[p].phase # "idle" /\ rd[r].buf = rd[p].buf => r = p
  /\ \A r \in Loop : rd[r].phase = "read" => rd[r].missing > 0

\* Buffers with a whole message that was not acted on yet.
Held == {b \in Buf : b \in tasks \/ \E r \in Loop : rd[r].phase = "handle" /\ rd[r].buf = b}

\* The frame at the front of the stream as far as a reader has taken it off.
Before == IF rmu = None THEN <<>>
          ELSE <<Len(mem[rd[rmu].buf]) + rd[rmu].missing>> \o mem[rd[rmu].buf]

\* The stream as the writers fill it: with that frame whole, and the rest of the last.
Whole == Before \o (stream \o left)

\* The bytes of every message.
Enc == [x \in Msg |-> F!Encode(x)]

\* The inductive invariant: what is on its way, with what a reader has already
\* taken from it, is the sequence of frames of some messages q.
StreamInv ==
  /\ StreamTypes /\ Owners
  /\ \E q \in Seq(Msg) : Framed(Whole, q, Enc) /\ Accounts(q, todo, handled, Held, mem)

\* The encodings are sequences of bytes, none of them empty.
LEMMA EncType ==
  ASSUME F!WellFormed
  PROVE  Enc \in [Msg -> Seq(Nat)] /\ \A x \in Msg : Enc[x] = F!Encode(x) /\ Len(Enc[x]) >= 1
BY DecodeEncode, Zenon DEF F!WellFormed, Enc

\* What the reader with rmu has of a frame is a sequence of bytes.
LEMMA BeforeType ==
  ASSUME F!WellFormed, StreamTypes, Owners
  PROVE  Before \in Seq(Nat)
<1>1. CASE rmu = None
  BY <1>1 DEF Before
<1>2. CASE rmu # None
  <2>1. rmu \in Loop /\ rd[rmu].phase = "read"
    BY <1>2, Zenon DEF StreamTypes, Owners
  <2>2. rd[rmu].buf \in Buf /\ rd[rmu].missing \in Nat
    BY <2>1, Zenon DEF StreamTypes, Owners, RdRec
  <2>3. PICK a \in Seq(Nat) : a = mem[rd[rmu].buf]
    BY <2>2, Zenon DEF StreamTypes
  <2>4. <<Len(a) + rd[rmu].missing>> \in Seq(Nat)
    BY <2>2, <2>3
  <2>5. PICK o \in Seq(Nat) : o = <<Len(a) + rd[rmu].missing>>
    BY <2>4, Zenon
  <2>6. o \o a \in Seq(Nat)
    BY <2>3, <2>5, Joined, Zenon
  <2> QED  BY <1>2, <2>3, <2>5, <2>6, Zenon DEF Before
<1> QED  BY <1>1, <1>2, Zenon

\* The invariant holds before anything was sent.
LEMMA StreamInit ==
  ASSUME F!WellFormed, F!Init
  PROVE  StreamInv
<1>1. StreamTypes
  BY DEF F!WellFormed, F!Init, F!Idle, StreamTypes, RdRec
<1>2. Owners
  BY Zenon DEF F!WellFormed, F!Init, F!Idle, Owners
<1>3. Held = {}
  BY Zenon DEF F!Init, F!Idle, Held
<1>4. Whole = <<>>
  BY DEF F!Init, Whole, Before
<1>5. Framed(<<>>, <<>>, Enc)
  BY NoFrames, Zenon
<1>6. Accounts(<<>>, todo, handled, {}, mem)
  <2>1. Len(<<>>) = 0 /\ handled[None] = 0 /\ todo = Msg /\ \A x \in Msg : handled[x] = 0
    BY Zenon DEF F!Init
  <2>2. \A x \in Msg : handled[x] <= (IF x \in todo THEN 0 ELSE 1)
    BY <2>1
  <2>3. 1 .. Len(<<>>) = {}
    BY <2>1
  <2> QED  BY <2>1, <2>2, <2>3, Zenon DEF Accounts
<1>7. <<>> \in Seq(Msg)
  OBVIOUS
<1> QED  BY <1>1, <1>2, <1>3, <1>4, <1>5, <1>6, <1>7, Zenon DEF StreamInv

\* A length n and the bytes e that follow it lengthen what b and s are together.
Lengthens(b, s, e, n) == b \o (Append(s, n) \o e) = (b \o (s \o <<>>)) \o (<<n>> \o e)

\* Behind whole frames, a frame more.
LEMMA Written ==
  ASSUME NEW b \in Seq(Nat), NEW s \in Seq(Nat), NEW e \in Seq(Nat), NEW n \in Nat
  PROVE  Lengthens(b, s, e, n)
<1>1. <<n>> \in Seq(Nat) /\ Append(s, n) = s \o <<n>> /\ s \o <<>> = s
  <2>1. <<n>> \in Seq(Nat)
    OBVIOUS
  <2>2. Append(s, n) = s \o <<n>>
    BY AppendIsConcat, Zenon
  <2>3. s \o <<>> = s
    BY ConcatEmptySeq, Zenon
  <2> QED  BY <2>1, <2>2, <2>3, Zenon
<1>2. PICK o \in Seq(Nat) : o = <<n>>
  BY <1>1, Zenon
<1>3. PICK f \in Seq(Nat) : f = o \o e
  BY <1>2, Joined, Zenon
<1>4. (s \o o) \o e = s \o f
  <2>1. (s \o o) \o e = s \o (o \o e)
    <3>1. Bytes(s, o, e)
      BY Zenon DEF Bytes
    <3>2. Regroups(s, o, e)
      BY <3>1, Regrouped, Zenon
    <3> QED  BY <3>2, Zenon DEF Regroups
  <2> QED  BY <1>3, <2>1, Zenon
<1>5. b \o (s \o f) = (b \o s) \o f
  <2>1. Bytes(b, s, f)
    BY Zenon DEF Bytes
  <2>2. Regroups(b, s, f)
    BY <2>1, Regrouped, Zenon
  <2> QED  BY <2>2, Zenon DEF Regroups
<1> QED  BY <1>1, <1>2, <1>3, <1>4, <1>5, Zenon DEF Lengthens

\* A writer begins.
LEMMA StreamBegins ==
  ASSUME F!WellFormed, StreamInv, NEW x \in Msg, F!SendBegin(x)
  PROVE  StreamInv'
<1>1. PICK q \in Seq(Msg) : Framed(Whole, q, Enc) /\ Accounts(q, todo, handled, Held, mem)
  BY Zenon DEF StreamInv
<1>2. /\ x \in todo /\ todo' = todo \ {x}
      /\ UNCHANGED <<rmu, rd, mem, pool, tasks, handled>>
  BY Zenon DEF F!SendBegin
<1>3. Owners' /\ Held' = Held /\ Before' = Before
  BY <1>2, Zenon DEF StreamInv, Owners, Held, Before
<1>4. StreamTypes /\ Before \in Seq(Nat)
  BY BeforeType, Zenon DEF StreamInv
<1>5. CASE Len(F!Encode(x)) > F!MaxMessageLen
  <2>1. UNCHANGED <<wmu, left, stream>>
    BY <1>5, Zenon DEF F!SendBegin
  <2>2. StreamTypes'
    BY <1>2, <1>4, <2>1, Zenon DEF StreamTypes
  <2>3. Whole' = Whole
    BY <1>3, <2>1, Zenon DEF Whole
  <2>4. Accounts(q, todo', handled', Held', mem')
    BY <1>1, <1>2, <1>3, <1>4, AccountsLost, Zenon DEF StreamTypes
  <2> QED  BY <1>1, <1>3, <2>2, <2>3, <2>4, Zenon DEF StreamInv
<1>6. CASE ~(Len(F!Encode(x)) > F!MaxMessageLen)
  <2>1. PICK e \in Seq(Nat) : e = F!Encode(x) /\ e = Enc[x]
    BY EncType, Zenon
  <2>2. Len(e) \in Nat /\ Len(e) >= 1 /\ e # <<>>
    BY <2>1, EncType
  <2>3. /\ wmu = None /\ wmu' = x /\ left' = e /\ stream' = Append(stream, Len(e))
    BY <1>6, <2>1, Zenon DEF F!SendBegin
  <2>4. left = <<>>
    BY <1>4, <2>3, Zenon DEF StreamTypes
  <2>5. StreamTypes'
    <3>1. wmu' # None /\ left' # <<>> /\ left' \in Seq(Nat)
      BY <2>1, <2>2, <2>3, Zenon DEF F!WellFormed
    <3>2. stream' \in Seq(Nat)
      BY <1>4, <2>2, <2>3 DEF StreamTypes
    <3> QED  BY <1>2, <1>4, <3>1, <3>2, Zenon DEF StreamTypes
  <2>6. Whole' = Whole \o (<<Len(e)>> \o e)
    <3>1. PICK b \in Seq(Nat), s \in Seq(Nat) : b = Before /\ s = stream
      BY <1>4, Zenon DEF StreamTypes
    <3>2. b \o (Append(s, Len(e)) \o e) = (b \o (s \o <<>>)) \o (<<Len(e)>> \o e)
      <4>1. PICK n \in Nat : n = Len(e)
        BY <2>2, Zenon
      <4>2. b \o (Append(s, n) \o e) = (b \o (s \o <<>>)) \o (<<n>> \o e)
        <5>1. b \in Seq(Nat) /\ s \in Seq(Nat) /\ e \in Seq(Nat) /\ n \in Nat
          BY <2>1, <3>1, <4>1, Zenon
        <5>2. Lengthens(b, s, e, n)
          BY <5>1, Written, Zenon
        <5> QED  BY <5>2, Zenon DEF Lengthens
      <4> QED  BY <4>1, <4>2, Zenon
    <3>3. Whole' = b \o (Append(s, Len(e)) \o e) /\ Whole = b \o (s \o <<>>)
      BY <1>3, <2>3, <2>4, <3>1, Zenon DEF Whole
    <3> QED  BY <3>2, <3>3, Zenon
  <2>7. Whole \in Seq(Nat)
    <3>1. PICK w \in Seq(Nat) : w = stream \o left
      BY <1>4, Joined, Zenon DEF StreamTypes
    <3> QED  BY <1>4, <3>1, Joined, Zenon DEF Whole
  <2>8. Framed(Whole', Append(q, x), Enc)
    <3>1. PICK w \in Seq(Nat), enc \in [Msg -> Seq(Nat)] : w = Whole /\ enc = Enc
      BY <2>7, EncType, Zenon
    <3>2. Framed(w, q, enc) /\ q \in Seq(Msg)
      BY <1>1, <3>1, Zenon
    <3>3. Framed(w \o (<<Len(enc[x])>> \o enc[x]), Append(q, x), enc)
      BY <3>1, <3>2, FrameWritten, Zenon
    <3> QED  BY <2>1, <2>6, <3>1, <3>3, Zenon
  <2>9. Accounts(Append(q, x), todo', handled', Held', mem')
    BY <1>1, <1>2, <1>3, <1>4, AccountsSent, Zenon DEF StreamTypes
  <2>10. Append(q, x) \in Seq(Msg)
    BY <1>1
  <2> QED  BY <1>3, <2>5, <2>8, <2>9, <2>10, Zenon DEF StreamInv
<1> QED  BY <1>5, <1>6, Zenon

\* A byte is written.
LEMMA StreamWrites ==
  ASSUME F!WellFormed, StreamInv, F!SendByte
  PROVE  StreamInv'
<1>1. PICK q \in Seq(Msg) : Framed(Whole, q, Enc) /\ Accounts(q, todo, handled, Held, mem)
  BY Zenon DEF StreamInv
<1>2. /\ left # <<>> /\ stream' = Append(stream, Head(left)) /\ left' = Tail(left)
      /\ wmu' = (IF Len(left) = 1 THEN None ELSE wmu)
      /\ UNCHANGED <<todo, rmu, rd, mem, pool, tasks, handled>>
  BY Zenon DEF F!SendByte
<1>3. StreamTypes /\ Before \in Seq(Nat)
  BY BeforeType, Zenon DEF StreamInv
<1>4. Owners' /\ Held' = Held /\ Before' = Before
  BY <1>2, Zenon DEF StreamInv, Owners, Held, Before
<1>5. PICK s \in Seq(Nat), t \in Seq(Nat) : s = stream /\ t = left
  BY <1>3, Zenon DEF StreamTypes
<1>6. Append(s, Head(t)) \o Tail(t) = s \o t /\ Append(s, Head(t)) \in Seq(Nat) /\ Tail(t) \in Seq(Nat)
  BY <1>2, <1>5, ByteMoved, Zenon
<1>7. Whole' = Whole
  BY <1>2, <1>4, <1>5, <1>6, Zenon DEF Whole
<1>8. StreamTypes'
  <2>1. (Len(t) = 1) <=> (Tail(t) = <<>>)
    <3>1. t # <<>> /\ t \in Seq(Nat)
      BY <1>2, <1>5, Zenon
    <3>2. Len(t) \in Nat /\ Len(Tail(t)) = Len(t) - 1
      BY <3>1
    <3>3. PICK u \in Seq(Nat) : u = Tail(t)
      BY <1>6, Zenon
    <3>4. (u = <<>>) <=> (Len(u) = 0)
      <4>1. u \in Seq(Nat)
        BY <3>3, Zenon
      <4> QED  BY <4>1, EmptySeq, Zenon
    <3>5. Len(u) = Len(t) - 1
      BY <3>2, <3>3, Zenon
    <3>6. (Len(t) = 1) <=> (Len(u) = 0)
      BY <3>2, <3>5
    <3> QED  BY <3>3, <3>4, <3>6, Zenon
  <2>2. (wmu' = None) <=> (left' = <<>>)
    <3>1. wmu # None
      BY <1>2, <1>3, Zenon DEF StreamTypes
    <3>2. (wmu' = None) <=> (Len(t) = 1)
      BY <1>2, <1>5, <3>1, Zenon
    <3> QED  BY <1>2, <1>5, <2>1, <3>2, Zenon
  <2>3. left' \in Seq(Nat) /\ stream' \in Seq(Nat)
    BY <1>2, <1>5, <1>6, Zenon
  <2> QED  BY <1>2, <1>3, <2>2, <2>3, Zenon DEF StreamTypes
<1> QED  BY <1>1, <1>2, <1>4, <1>7, <1>8, Zenon DEF StreamInv

\* A reader takes a buffer.
LEMMA StreamAcquires ==
  ASSUME F!WellFormed, StreamInv, NEW r \in Loop, F!Acquire(r)
  PROVE  StreamInv'
<1>1. PICK q \in Seq(Msg) : Framed(Whole, q, Enc) /\ Accounts(q, todo, handled, Held, mem)
  BY Zenon DEF StreamInv
<1>2. StreamTypes /\ Owners
  BY Zenon DEF StreamInv
<1>3. PICK b \in pool : /\ pool' = pool \ {b}
                         /\ rd' = [rd EXCEPT ![r] = [phase |-> "lock", buf |-> b, missing |-> 0]]
  BY Zenon DEF F!Acquire
<1>4. rd[r].phase = "idle" /\ UNCHANGED <<todo, wmu, left, stream, rmu, mem, tasks, handled>>
  BY Zenon DEF F!Acquire
<1>5. /\ rd' \in [Loop -> RdRec] /\ rd'[r] = [phase |-> "lock", buf |-> b, missing |-> 0]
      /\ \A p \in Loop : p # r => rd'[p] = rd[p]
      /\ b \in Buf /\ b \in pool /\ b \notin tasks
  BY <1>2, <1>3, Zenon DEF StreamTypes, Owners, RdRec
<1>6. rmu # r
  BY <1>2, <1>4, Zenon DEF Owners
<1>7. StreamTypes'
  BY <1>2, <1>3, <1>4, <1>5, Zenon DEF StreamTypes
<1>8. Owners'
  <2>1. pool' \cap tasks' = {}
    BY <1>2, <1>3, <1>4, Zenon DEF Owners
  <2>2. \A p \in Loop : (rmu' = p) <=> (rd'[p].phase = "read")
    BY <1>2, <1>4, <1>5, <1>6 DEF Owners
  <2>3. \A p \in Loop : rd'[p].phase # "idle" => rd'[p].buf \in Buf \ (pool' \cup tasks')
    BY <1>2, <1>3, <1>4, <1>5, Zenon DEF Owners
  <2>4. \A p \in Loop : p # r /\ rd[p].phase # "idle" => rd[p].buf # b
    BY <1>2, <1>5, Zenon DEF Owners
  <2>5. \A p, o \in Loop : rd'[p].phase # "idle" /\ rd'[o].phase # "idle" /\ rd'[p].buf = rd'[o].buf => p = o
    BY <1>2, <1>5, <2>4 DEF Owners
  <2>6. \A p \in Loop : rd'[p].phase = "read" => rd'[p].missing > 0
    BY <1>2, <1>5 DEF Owners
  <2> QED  BY <2>1, <2>2, <2>3, <2>5, <2>6, Zenon DEF Owners
<1>9. Held' = Held
  BY <1>4, <1>5 DEF Held
<1>10. Whole' = Whole
  <2>1. rmu # None => rmu \in Loop /\ rd'[rmu] = rd[rmu]
    BY <1>2, <1>5, <1>6, Zenon DEF StreamTypes
  <2> QED  BY <1>4, <2>1, Zenon DEF Whole, Before
<1> QED  BY <1>1, <1>4, <1>7, <1>8, <1>9, <1>10, Zenon DEF StreamInv

\* A reader gets rmu and reads the length.
LEMMA StreamReadsLength ==
  ASSUME F!WellFormed, StreamInv, NEW r \in Loop, F!ReadLen(r)
  PROVE  StreamInv'
<1>1. PICK q \in Seq(Msg) : Framed(Whole, q, Enc) /\ Accounts(q, todo, handled, Held, mem)
  BY Zenon DEF StreamInv
<1>2. StreamTypes /\ Owners
  BY Zenon DEF StreamInv
<1>3. /\ rd[r].phase = "lock" /\ rmu = None /\ stream # <<>> /\ rmu' = r /\ stream' = Tail(stream)
      /\ mem' = [mem EXCEPT ![rd[r].buf] = <<>>]
      /\ rd' = [rd EXCEPT ![r].phase = "read", ![r].missing = Head(stream)]
      /\ UNCHANGED <<todo, wmu, left, pool, tasks, handled>>
  BY Zenon DEF F!ReadLen
<1>4. PICK b \in Buf, s \in Seq(Nat), t \in Seq(Nat) : b = rd[r].buf /\ s = stream /\ t = left
  BY <1>2, <1>3, Zenon DEF StreamTypes, Owners
<1>5. Head(s) \in Nat /\ Tail(s) \in Seq(Nat) /\ s # <<>>
  BY <1>3, <1>4
<1>6. rd' \in [Loop -> RdRec] /\ rd'[r] = [phase |-> "read", buf |-> b, missing |-> Head(s)]
  BY <1>2, <1>3, <1>4, <1>5, Zenon DEF StreamTypes, RdRec
<1>7. \A p \in Loop : p # r => rd'[p] = rd[p]
  BY <1>2, <1>3, Zenon DEF StreamTypes
<1>8. mem' \in [Buf -> Seq(Nat)] /\ mem'[b] = <<>> /\ \A c \in Buf : c # b => mem'[c] = mem[c]
  BY <1>2, <1>3, <1>4 DEF StreamTypes
<1>9. r # None
  BY Zenon DEF F!WellFormed
<1>10. Whole = s \o t
  <2>1. s \o t \in Seq(Nat)
    BY <1>4, Joined, Zenon
  <2>2. <<>> \o (s \o t) = s \o t
    BY <2>1, ConcatEmptySeq, Zenon
  <2> QED  BY <1>3, <1>4, <2>2, Zenon DEF Whole, Before
<1>11. Head(s) > 0
  <2>1. PICK w \in Seq(Nat), enc \in [Msg -> Seq(Nat)] : w = s \o t /\ enc = Enc
    BY <1>4, Joined, EncType, Zenon
  <2>2. 1 \in 1 .. Len(s) /\ s[1] = Head(s)
    BY <1>4, <1>5
  <2>3. w[1] = Head(s)
    BY <1>4, <2>1, <2>2, Joined
  <2>4. w # <<>>
    <3>1. Len(w) = Len(s) + Len(t) /\ Len(s) \in Nat /\ Len(t) \in Nat
      BY <1>4, <2>1, Joined, Zenon
    <3> QED  BY <2>1, <2>2, <3>1
  <2>5. w \in Seq(Nat) /\ Framed(w, q, enc) /\ q \in Seq(Msg)
    BY <1>1, <1>10, <2>1, Zenon
  <2>6. q[1] \in Msg /\ StartsWith(w, enc[q[1]])
    BY <2>1, <2>4, <2>5, FirstFrame, Zenon
  <2>7. w[1] = Len(enc[q[1]])
    BY <2>6, Zenon DEF StartsWith
  <2>8. Len(enc[q[1]]) >= 1 /\ Len(enc[q[1]]) \in Nat
    BY <2>1, <2>6, EncType
  <2>9. PICK n \in Nat : n = Len(enc[q[1]])
    BY <2>8, Zenon
  <2>10. n >= 1 /\ n = Head(s) /\ n \in Nat
    BY <2>3, <2>7, <2>8, <2>9, Zenon
  <2> QED  BY <2>10
<1>12. StreamTypes'
  <2>1. stream' \in Seq(Nat)
    BY <1>3, <1>4, <1>5, Zenon
  <2> QED  BY <1>2, <1>3, <1>6, <1>8, <2>1, Zenon DEF StreamTypes
<1>13. Owners'
  <2>1. \A p \in Loop : (rmu' = p) <=> (rd'[p].phase = "read")
    BY <1>2, <1>3, <1>6, <1>7, <1>9 DEF F!WellFormed, Owners
  <2>2. \A p \in Loop : rd'[p].phase # "idle" => rd'[p].buf \in Buf \ (pool' \cup tasks')
    BY <1>2, <1>3, <1>4, <1>6, <1>7 DEF Owners
  <2>a. \A p \in Loop : rd'[p].buf = rd[p].buf /\ (rd'[p].phase # "idle" => rd[p].phase # "idle")
    BY <1>3, <1>4, <1>6, <1>7
  <2>3. \A p, o \in Loop : rd'[p].phase # "idle" /\ rd'[o].phase # "idle" /\ rd'[p].buf = rd'[o].buf => p = o
    BY <1>2, <2>a, Zenon DEF Owners
  <2>b. rd'[r].missing > 0
    BY <1>6, <1>11
  <2>4. \A p \in Loop : rd'[p].phase = "read" => rd'[p].missing > 0
    BY <1>2, <1>7, <2>b, Zenon DEF Owners
  <2> QED  BY <1>2, <1>3, <2>1, <2>2, <2>3, <2>4, Zenon DEF Owners
<1>14. Held' = Held /\ b \notin Held
  <2>1. tasks' = tasks /\ b \notin tasks
    BY <1>2, <1>3, <1>4, Zenon DEF Owners
  <2>2. \A p \in Loop : rd'[p].buf = rd[p].buf
    BY <1>3, <1>4, <1>6, <1>7
  <2>3. \A p \in Loop : rd'[p].phase = "handle" <=> rd[p].phase = "handle"
    BY <1>3, <1>4, <1>6, <1>7
  <2>4. \A p \in Loop : rd[p].phase = "handle" => rd[p].buf # b
    BY <1>2, <1>3, <1>4, Zenon DEF Owners
  <2>5. Held' = Held
    BY <2>1, <2>2, <2>3, Zenon DEF Held
  <2>6. b \notin Held
    BY <2>1, <2>4, Zenon DEF Held
  <2> QED  BY <2>5, <2>6, Zenon
<1>15. Whole' = Whole
  <2>1. Before' = <<Len(mem'[b]) + Head(s)>> \o mem'[b]
    BY <1>3, <1>6, <1>9, Zenon DEF Before
  <2>2. PICK e \in Seq(Nat) : e = <<>>
    BY EmptySeq, Zenon
  <2>3. Append(e, Head(s)) = <<Len(e) + Head(s)>> \o e
    BY <1>5, <2>2
  <2>4. Append(e, Head(s)) \o (Tail(s) \o t) = e \o (s \o t)
    <3>1. Bytes(e, s, t) /\ s # <<>>
      BY <1>4, <1>5, <2>2, Zenon DEF Bytes
    <3>2. MovesOn(e, s, t)
      BY <3>1, ByteMovedOn, Zenon
    <3> QED  BY <3>2, Zenon DEF MovesOn
  <2>5. e \o (s \o t) = Whole
    BY <1>3, <1>4, <2>2, Zenon DEF Whole, Before
  <2>6. Whole' = Append(e, Head(s)) \o (Tail(s) \o t)
    BY <1>3, <1>4, <1>8, <2>1, <2>2, <2>3, Zenon DEF Whole
  <2> QED  BY <2>4, <2>5, <2>6, Zenon
<1>16. Accounts(q, todo', handled', Held', mem')
  <2>1. \A c \in Held : mem'[c] = mem[c]
    BY <1>8, <1>14, Zenon DEF Held
  <2> QED  BY <1>1, <1>3, <1>14, <2>1, AccountsOf, Zenon
<1> QED  BY <1>1, <1>12, <1>13, <1>15, <1>16, Zenon DEF StreamInv

\* A reader reads a byte of its message.
LEMMA StreamReads ==
  ASSUME F!WellFormed, StreamInv, NEW r \in Loop, F!ReadByte(r)
  PROVE  StreamInv'
<1>1. PICK q \in Seq(Msg) : Framed(Whole, q, Enc) /\ Accounts(q, todo, handled, Held, mem)
  BY Zenon DEF StreamInv
<1>2. StreamTypes /\ Owners
  BY Zenon DEF StreamInv
<1>3. /\ rd[r].phase = "read" /\ stream # <<>> /\ stream' = Tail(stream)
      /\ mem' = [mem EXCEPT ![rd[r].buf] = Append(@, Head(stream))]
      /\ rd' = [rd EXCEPT ![r].phase = IF rd[r].missing = 1 THEN "handle" ELSE "read",
                          ![r].missing = @ - 1]
      /\ rmu' = (IF rd[r].missing = 1 THEN None ELSE rmu)
      /\ UNCHANGED <<todo, wmu, left, pool, tasks, handled>>
  BY Zenon DEF F!ReadByte
<1>4. PICK b \in Buf, s \in Seq(Nat), t \in Seq(Nat), n \in Nat :
        b = rd[r].buf /\ s = stream /\ t = left /\ n = rd[r].missing
  BY <1>2, <1>3, Zenon DEF StreamTypes, Owners, RdRec
<1>5. n > 0 /\ n - 1 \in Nat /\ rmu = r /\ r # None
  BY <1>2, <1>3, <1>4 DEF F!WellFormed, Owners
<1>6. PICK g \in Seq(Nat) : g = mem[b]
  BY <1>2, <1>4, Zenon DEF StreamTypes
<1>7. Head(s) \in Nat /\ Tail(s) \in Seq(Nat) /\ s # <<>> /\ Append(g, Head(s)) \in Seq(Nat)
  BY <1>3, <1>4, <1>6
<1>8. /\ rd' \in [Loop -> RdRec]
      /\ rd'[r] = [phase |-> IF n = 1 THEN "handle" ELSE "read", buf |-> b, missing |-> n - 1]
  BY <1>2, <1>3, <1>4, <1>5, Zenon DEF StreamTypes, RdRec
<1>9. \A p \in Loop : p # r => rd'[p] = rd[p]
  BY <1>2, <1>3, Zenon DEF StreamTypes
<1>10. mem' \in [Buf -> Seq(Nat)] /\ mem'[b] = Append(g, Head(s)) /\ \A c \in Buf : c # b => mem'[c] = mem[c]
  BY <1>2, <1>3, <1>4, <1>6, <1>7, Zenon DEF StreamTypes
<1>11. StreamTypes'
  <2>1. stream' \in Seq(Nat) /\ rmu' \in Loop \cup {None}
    BY <1>2, <1>3, <1>4, <1>7, Zenon DEF StreamTypes
  <2> QED  BY <1>2, <1>3, <1>8, <1>10, <2>1, Zenon DEF StreamTypes
<1>12. \A p \in Loop : rd'[p].buf = rd[p].buf /\ (rd'[p].phase # "idle" => rd[p].phase # "idle")
  BY <1>3, <1>4, <1>8, <1>9
<1>13. Owners'
  <2>1. \A p \in Loop : (rmu' = p) <=> (rd'[p].phase = "read")
    <3>1. CASE n = 1
      BY <1>2, <1>3, <1>4, <1>5, <1>8, <1>9, <3>1 DEF F!WellFormed, Owners
    <3>2. CASE n # 1
      BY <1>2, <1>3, <1>4, <1>5, <1>8, <1>9, <3>2 DEF Owners
    <3> QED  BY <3>1, <3>2, Zenon
  <2>2. \A p \in Loop : rd'[p].phase # "idle" => rd'[p].buf \in Buf \ (pool' \cup tasks')
    BY <1>2, <1>3, <1>12, Zenon DEF Owners
  <2>3. \A p, o \in Loop : rd'[p].phase # "idle" /\ rd'[o].phase # "idle" /\ rd'[p].buf = rd'[o].buf => p = o
    BY <1>2, <1>12, Zenon DEF Owners
  <2>4. rd'[r].phase = "read" => rd'[r].missing > 0
    <3>1. n # 1 => n - 1 > 0
      BY <1>4, <1>5
    <3> QED  BY <1>8, <3>1
  <2>5. \A p \in Loop : rd'[p].phase = "read" => rd'[p].missing > 0
    BY <1>2, <1>9, <2>4, Zenon DEF Owners
  <2> QED  BY <1>2, <1>3, <2>1, <2>2, <2>3, <2>5, Zenon DEF Owners
<1>14. b \notin Held
  BY <1>2, <1>3, <1>4, Zenon DEF Held, Owners
<1>15. \A c \in Held : mem'[c] = mem[c]
  BY <1>10, <1>14, Zenon DEF Held
<1>16. PICK o \in Seq(Nat), e \in Seq(Nat) : o = <<Len(g) + n>> /\ e = o \o g
  <2>1. <<Len(g) + n>> \in Seq(Nat)
    BY <1>4, <1>6
  <2>2. PICK o \in Seq(Nat) : o = <<Len(g) + n>>
    BY <2>1, Zenon
  <2>3. o \o g \in Seq(Nat)
    BY <1>6, <2>2, Joined, Zenon
  <2> QED  BY <2>2, <2>3, Zenon
<1>17. Before = e /\ Whole = e \o (s \o t)
  BY <1>4, <1>5, <1>6, <1>16, Zenon DEF Whole, Before
<1>18. PICK a \in Seq(Nat), u \in Seq(Nat) : a = Append(g, Head(s)) /\ u = Tail(s) \o t
  BY <1>4, <1>7, Joined, Zenon
<1>19. Len(a) = Len(g) + 1 /\ Len(g) \in Nat
  BY <1>6, <1>7, <1>18
<1>20. Append(e, Head(s)) = o \o a
  <2>1. PICK h \in Nat : h = Head(s)
    BY <1>7, Zenon
  <2>2. Bytes(o, g, g)
    BY Zenon DEF Bytes
  <2>3. AppendsOver(o, g, h)
    BY <2>2, AppendOver, Zenon
  <2>4. Append(o \o g, h) = o \o Append(g, h)
    BY <2>3, Zenon DEF AppendsOver
  <2> QED  BY <1>16, <1>18, <2>1, <2>4, Zenon
<1>21. Whole = (o \o a) \o u
  <2>1. Append(e, Head(s)) \o (Tail(s) \o t) = e \o (s \o t)
    <3>1. Bytes(e, s, t) /\ s # <<>>
      BY <1>4, <1>7, <1>16, Zenon DEF Bytes
    <3>2. MovesOn(e, s, t)
      BY <3>1, ByteMovedOn, Zenon
    <3> QED  BY <3>2, Zenon DEF MovesOn
  <2> QED  BY <1>17, <1>18, <1>20, <2>1, Zenon
<1>22. CASE n # 1
  <2>0. rd'[r].phase = "read" /\ rd'[r].buf = b /\ rd'[r].missing = n - 1 /\ rmu' = r /\ tasks' = tasks
    BY <1>3, <1>4, <1>5, <1>8, <1>22
  <2>1. Held' = Held
    <3>1. rd[r].phase = "read"
      BY <1>3, Zenon
    <3> QED  BY <1>9, <2>0, <3>1, Zenon DEF Held
  <2>2. Before' = <<Len(a) + (n - 1)>> \o a
    <3>1. mem'[b] = a /\ r # None
      BY <1>5, <1>10, <1>18, Zenon
    <3> QED  BY <2>0, <3>1, Zenon DEF Before
  <2>3. Len(a) + (n - 1) = Len(g) + n
    <3>1. n \in Nat
      BY <1>4, Zenon
    <3> QED  BY <1>19, <3>1
  <2>4. Before' = o \o a
    BY <1>16, <2>2, <2>3, Zenon
  <2>5. Whole' = Whole
    BY <1>3, <1>4, <1>18, <1>21, <2>4, Zenon DEF Whole
  <2>6. Accounts(q, todo', handled', Held', mem')
    BY <1>1, <1>3, <1>15, <2>1, AccountsOf, Zenon
  <2> QED  BY <1>1, <1>11, <1>13, <2>5, <2>6, Zenon DEF StreamInv
<1>23. CASE n = 1
  <2>1. Held' = Held \cup {b}
    <3>1. rd[r].phase = "read" /\ rd'[r].phase = "handle" /\ rd'[r].buf = b /\ b \in Buf /\ tasks' = tasks
      BY <1>3, <1>4, <1>8, <1>23
    <3> QED  BY <1>9, <3>1, Zenon DEF Held
  <2>2. Before' = <<>>
    BY <1>3, <1>4, <1>23, Zenon DEF Before
  <2>3. Whole' = u
    <3>1. <<>> \o u = u
      BY <1>18, ConcatEmptySeq, Zenon
    <3>2. Whole' = <<>> \o (Tail(s) \o t)
      BY <1>3, <1>4, <2>2, Zenon DEF Whole
    <3> QED  BY <1>18, <3>1, <3>2, Zenon
  <2>4. o = <<Len(a)>>
    BY <1>16, <1>19, <1>23, Zenon
  <2>5. PICK enc \in [Msg -> Seq(Nat)] : enc = Enc
    BY EncType, Zenon
  <2>6. Framed((<<Len(a)>> \o a) \o u, q, enc)
    BY <1>1, <1>21, <2>4, <2>5, Zenon
  <2>7. q # <<>> /\ q[1] \in Msg /\ a = enc[q[1]] /\ Framed(u, Tail(q), enc)
    <3>1. q \in Seq(Msg) /\ a \in Seq(Nat) /\ u \in Seq(Nat) /\ enc \in [Msg -> Seq(Nat)]
      BY <1>1, <1>18, <2>5, Zenon
    <3> QED  BY <2>6, <3>1, FrameRead, Zenon
  <2>8. mem'[b] = F!Encode(q[1])
    BY <1>10, <1>18, <2>5, <2>7, EncType, Zenon
  <2>9. Accounts(Tail(q), todo, handled, Held \cup {b}, mem')
    BY <1>1, <1>14, <1>15, <2>7, <2>8, AccountsRead, Zenon
  <2>10. Tail(q) \in Seq(Msg)
    BY <1>1, <2>7
  <2>11. Framed(Whole', Tail(q), Enc) /\ Accounts(Tail(q), todo', handled', Held', mem')
    BY <1>3, <2>1, <2>3, <2>5, <2>7, <2>9, Zenon
  <2> QED  BY <1>11, <1>13, <2>10, <2>11, Zenon DEF StreamInv
<1> QED  BY <1>22, <1>23, Zenon

\* A reader acts on a message, or copies it for another goroutine.
LEMMA StreamHandles ==
  ASSUME F!WellFormed, StreamInv, NEW r \in Loop, F!Handle(r)
  PROVE  StreamInv'
<1>1. PICK q \in Seq(Msg) : Framed(Whole, q, Enc) /\ Accounts(q, todo, handled, Held, mem)
  BY Zenon DEF StreamInv
<1>2. StreamTypes /\ Owners
  BY Zenon DEF StreamInv
<1>3. /\ rd[r].phase = "handle" /\ rd' = [rd EXCEPT ![r] = F!Idle]
      /\ UNCHANGED <<todo, wmu, left, stream, rmu>>
  BY Zenon DEF F!Handle
<1>4. PICK b \in Buf : b = rd[r].buf
  BY <1>2, <1>3, Zenon DEF Owners
<1>5. rd' \in [Loop -> RdRec] /\ rd'[r].phase = "idle" /\ \A p \in Loop : p # r => rd'[p] = rd[p]
  BY <1>2, <1>3, Zenon DEF StreamTypes, RdRec, F!Idle
<1>6. /\ b \in Held /\ b \notin pool /\ b \notin tasks
      /\ \A p \in Loop : p # r /\ rd[p].phase # "idle" => rd[p].buf # b
  BY <1>2, <1>3, <1>4, Zenon DEF Held, Owners
<1>7. rmu # r
  BY <1>2, <1>3, Zenon DEF Owners
<1>8. rmu # None => /\ rmu \in Loop /\ rd'[rmu] = rd[rmu] /\ rd[rmu].buf # b
                    /\ rd[rmu].buf \in Buf \ pool
  <2> HAVE rmu # None
  <2>1. rmu \in Loop /\ rmu # r
    BY <1>2, <1>7, Zenon DEF StreamTypes
  <2>2. rd[rmu].phase = "read"
    BY <1>2, <2>1, Zenon DEF Owners
  <2> QED  BY <1>2, <1>5, <1>6, <2>1, <2>2, Zenon DEF Owners
<1>9. PICK x \in Msg :
        /\ mem[b] = F!Encode(x) /\ F!AsMessage(mem[b]) /\ F!Decode(mem[b]) = x
        /\ Accounts(q, todo, [handled EXCEPT ![x] = @ + 1], Held \ {b}, mem)
  <2>1. handled \in [Msg \cup {None} -> Nat] /\ b \in Held
    BY <1>2, <1>6, Zenon DEF StreamTypes
  <2> QED  BY <1>1, <2>1, AccountsActed, Zenon
<1>10. CASE F!IsTell(mem[b])
  <2>1. handled' = F!Acted(mem[b]) /\ pool' = pool \cup {b} /\ UNCHANGED <<mem, tasks>>
    BY <1>4, <1>9, <1>10, Zenon DEF F!Handle
  <2>2. handled' = [handled EXCEPT ![x] = @ + 1]
    BY <1>9, <2>1, Zenon DEF F!Acted
  <2>3. handled' \in [Msg \cup {None} -> Nat]
    BY <1>2, <1>9, <2>2 DEF StreamTypes
  <2>4. StreamTypes'
    BY <1>2, <1>3, <1>4, <1>5, <2>1, <2>3, Zenon DEF StreamTypes
  <2>5. Owners'
    <3>1. pool' \cap tasks' = {}
      BY <1>2, <1>6, <2>1, Zenon DEF Owners
    <3>2. \A p \in Loop : (rmu' = p) <=> (rd'[p].phase = "read")
      BY <1>2, <1>3, <1>5, <1>7, Zenon DEF Owners
    <3>3. \A p \in Loop : rd'[p].phase # "idle" => rd'[p].buf \in Buf \ (pool' \cup tasks')
      <4> SUFFICES ASSUME NEW p \in Loop, rd'[p].phase # "idle"
                   PROVE  rd'[p].buf \in Buf \ (pool' \cup tasks')
        BY Zenon
      <4>1. p # r /\ rd'[p] = rd[p]
        BY <1>5, Zenon
      <4>2. rd[p].buf \in Buf \ (pool \cup tasks) /\ rd[p].buf # b
        BY <1>2, <1>6, <4>1, Zenon DEF Owners
      <4> QED  BY <2>1, <4>1, <4>2, Zenon
    <3>4. \A p, o \in Loop : rd'[p].phase # "idle" /\ rd'[o].phase # "idle" /\ rd'[p].buf = rd'[o].buf => p = o
      BY <1>2, <1>5 DEF Owners
    <3>5. \A p \in Loop : rd'[p].phase = "read" => rd'[p].missing > 0
      BY <1>2, <1>5, Zenon DEF Owners
    <3> QED  BY <3>1, <3>2, <3>3, <3>4, <3>5, Zenon DEF Owners
  <2>6. Held' = Held \ {b}
    BY <1>3, <1>4, <1>5, <1>6, <2>1, Zenon DEF Held
  <2>7. Whole' = Whole
    <3>1. rmu' = rmu /\ stream' = stream /\ left' = left /\ mem' = mem
      BY <1>3, <2>1, Zenon
    <3>2. Before' = Before
      <4>1. CASE rmu = None
        BY <3>1, <4>1, Zenon DEF Before
      <4>2. CASE rmu # None
        <5>1. rd'[rmu'] = rd[rmu]
          BY <1>8, <3>1, <4>2, Zenon
        <5> QED  BY <3>1, <4>2, <5>1, Zenon DEF Before
      <4> QED  BY <4>1, <4>2, Zenon
    <3> QED  BY <3>1, <3>2, Zenon DEF Whole
  <2>8. Accounts(q, todo', handled', Held', mem')
    BY <1>3, <1>9, <2>1, <2>2, <2>6, Zenon
  <2> QED  BY <1>1, <2>4, <2>5, <2>7, <2>8, Zenon DEF StreamInv
<1>11. CASE ~F!IsTell(mem[b])
  <2>1. PICK c \in pool : /\ mem' = [mem EXCEPT ![c] = mem[b]] /\ tasks' = tasks \cup {c}
                           /\ pool' = (pool \ {c}) \cup {b}
    BY <1>4, <1>9, <1>11, Zenon DEF F!Handle
  <2>2. handled' = handled
    BY <1>4, <1>9, <1>11, Zenon DEF F!Handle
  <2>3. c \in Buf /\ c \in pool /\ c \notin tasks /\ c # b
        /\ \A p \in Loop : rd[p].phase # "idle" => rd[p].buf # c
    BY <1>2, <1>6, <2>1, Zenon DEF StreamTypes, Owners
  <2>4. mem' \in [Buf -> Seq(Nat)] /\ mem'[c] = mem[b] /\ \A d \in Buf : d # c => mem'[d] = mem[d]
    BY <1>2, <1>4, <2>1, <2>3, Zenon DEF StreamTypes
  <2>5. StreamTypes'
    BY <1>2, <1>3, <1>4, <1>5, <2>1, <2>2, <2>3, <2>4, Zenon DEF StreamTypes
  <2>6. Owners'
    <3>1. pool' \cap tasks' = {}
      BY <1>2, <1>6, <2>1, <2>3, Zenon DEF Owners
    <3>2. \A p \in Loop : (rmu' = p) <=> (rd'[p].phase = "read")
      BY <1>2, <1>3, <1>5, <1>7, Zenon DEF Owners
    <3>3. \A p \in Loop : rd'[p].phase # "idle" => rd'[p].buf \in Buf \ (pool' \cup tasks')
      <4> SUFFICES ASSUME NEW p \in Loop, rd'[p].phase # "idle"
                   PROVE  rd'[p].buf \in Buf \ (pool' \cup tasks')
        BY Zenon
      <4>1. p # r /\ rd'[p] = rd[p]
        BY <1>5, Zenon
      <4>2. rd[p].buf \in Buf \ (pool \cup tasks) /\ rd[p].buf # b
        BY <1>2, <1>6, <4>1, Zenon DEF Owners
      <4> QED  BY <2>1, <2>3, <4>1, <4>2, Zenon
    <3>4. \A p, o \in Loop : rd'[p].phase # "idle" /\ rd'[o].phase # "idle" /\ rd'[p].buf = rd'[o].buf => p = o
      BY <1>2, <1>5 DEF Owners
    <3>5. \A p \in Loop : rd'[p].phase = "read" => rd'[p].missing > 0
      BY <1>2, <1>5, Zenon DEF Owners
    <3> QED  BY <3>1, <3>2, <3>3, <3>4, <3>5, Zenon DEF Owners
  <2>7. Held' = (Held \ {b}) \cup {c} /\ c \notin Held
    BY <1>3, <1>4, <1>5, <1>6, <2>1, <2>3, ZenonT(40) DEF Held
  <2>8. Whole' = Whole
    <3>1. rmu # None => rd[rmu].buf \in Buf /\ rd[rmu].buf # c
      BY <1>8, <2>3, Zenon
    <3>2. rmu # None => mem'[rd[rmu].buf] = mem[rd[rmu].buf]
      BY <2>4, <3>1, Zenon
    <3>3. rmu' = rmu /\ stream' = stream /\ left' = left
      BY <1>3, Zenon
    <3>4. Before' = Before
      <4>1. CASE rmu = None
        BY <3>3, <4>1, Zenon DEF Before
      <4>2. CASE rmu # None
        <5>1. rd'[rmu'] = rd[rmu] /\ mem'[rd[rmu].buf] = mem[rd[rmu].buf]
          BY <1>8, <3>2, <3>3, <4>2, Zenon
        <5> QED  BY <3>3, <4>2, <5>1, Zenon DEF Before
      <4> QED  BY <4>1, <4>2, Zenon
    <3> QED  BY <3>3, <3>4, Zenon DEF Whole
  <2>9. \A d \in Held : mem'[d] = mem[d]
    BY <2>4, <2>7, Zenon DEF Held
  <2>10. Accounts(q, todo, handled, (Held \ {b}) \cup {c}, mem')
    BY <1>1, <1>6, <2>4, <2>7, <2>9, AccountsCopied, Zenon
  <2>11. Accounts(q, todo', handled', Held', mem')
    BY <1>3, <2>2, <2>7, <2>10, Zenon
  <2> QED  BY <1>1, <2>5, <2>6, <2>8, <2>11, Zenon DEF StreamInv
<1> QED  BY <1>10, <1>11, Zenon

\* The goroutine of a request acts on its copy.
LEMMA StreamWorks ==
  ASSUME F!WellFormed, StreamInv, NEW b \in Buf, F!Work(b)
  PROVE  StreamInv'
<1>1. PICK q \in Seq(Msg) : Framed(Whole, q, Enc) /\ Accounts(q, todo, handled, Held, mem)
  BY Zenon DEF StreamInv
<1>2. StreamTypes /\ Owners
  BY Zenon DEF StreamInv
<1>3. /\ b \in tasks /\ handled' = F!Acted(mem[b]) /\ tasks' = tasks \ {b} /\ pool' = pool \cup {b}
      /\ UNCHANGED <<todo, wmu, left, stream, rmu, rd, mem>>
  BY Zenon DEF F!Work
<1>4. b \in Held /\ \A p \in Loop : rd[p].phase # "idle" => rd[p].buf # b
  BY <1>2, <1>3, Zenon DEF Held, Owners
<1>5. PICK x \in Msg :
        /\ F!Decode(mem[b]) = x
        /\ Accounts(q, todo, [handled EXCEPT ![x] = @ + 1], Held \ {b}, mem)
  <2>1. handled \in [Msg \cup {None} -> Nat] /\ b \in Held
    BY <1>2, <1>4, Zenon DEF StreamTypes
  <2> QED  BY <1>1, <2>1, AccountsActed, Zenon
<1>6. handled' = [handled EXCEPT ![x] = @ + 1]
  BY <1>3, <1>5, Zenon DEF F!Acted
<1>7. handled' \in [Msg \cup {None} -> Nat]
  BY <1>2, <1>5, <1>6 DEF StreamTypes
<1>8. StreamTypes'
  BY <1>2, <1>3, <1>7, Zenon DEF StreamTypes
<1>9. Owners'
  BY <1>2, <1>3, <1>4, Zenon DEF Owners
<1>10. Held' = Held \ {b}
  BY <1>3, <1>4, Zenon DEF Held
<1>11. Whole' = Whole
  BY <1>3, Zenon DEF Whole, Before
<1>12. Accounts(q, todo', handled', Held', mem')
  BY <1>3, <1>5, <1>6, <1>10, Zenon
<1> QED  BY <1>1, <1>8, <1>9, <1>11, <1>12, Zenon DEF StreamInv

\* Intact: what is acted on is what was sent, each message as it was and at most
\* once, however writers, readers and the goroutines of requests interleave, and
\* although the buffers of the pool are used again.
THEOREM SentIsActedOn == F!Spec => []Intact
<1> DEFINE Inv == F!WellFormed /\ StreamInv
<1>1. F!Init => Inv
  BY StreamInit, StreamAssumption, Zenon
<1>2. Inv /\ [F!Next]_F!vars => Inv'
  <2> SUFFICES ASSUME F!WellFormed, StreamInv, [F!Next]_F!vars PROVE F!WellFormed' /\ StreamInv'
    BY Zenon
  <2>1. F!WellFormed'
    BY Zenon DEF F!WellFormed
  <2>2. CASE F!Next
    <3>1. ASSUME NEW x \in Msg, F!SendBegin(x) PROVE StreamInv'
      BY <3>1, StreamBegins, Zenon
    <3>2. CASE F!SendByte
      BY <3>2, StreamWrites, Zenon
    <3>3. ASSUME NEW r \in Loop, F!Acquire(r) PROVE StreamInv'
      BY <3>3, StreamAcquires, Zenon
    <3>4. ASSUME NEW r \in Loop, F!ReadLen(r) PROVE StreamInv'
      BY <3>4, StreamReadsLength, Zenon
    <3>5. ASSUME NEW r \in Loop, F!ReadByte(r) PROVE StreamInv'
      BY <3>5, StreamReads, Zenon
    <3>6. ASSUME NEW r \in Loop, F!Handle(r) PROVE StreamInv'
      BY <3>6, StreamHandles, Zenon
    <3>7. ASSUME NEW b \in Buf, F!Work(b) PROVE StreamInv'
      BY <3>7, StreamWorks, Zenon
    <3> QED  BY <2>2, <3>1, <3>2, <3>3, <3>4, <3>5, <3>6, <3>7, Zenon DEF F!Next
  <2>3. CASE UNCHANGED F!vars
    <3>1. /\ todo' = todo /\ wmu' = wmu /\ left' = left /\ stream' = stream /\ rmu' = rmu
          /\ rd' = rd /\ mem' = mem /\ pool' = pool /\ tasks' = tasks /\ handled' = handled
      BY <2>3, Zenon DEF F!vars
    <3>2. StreamTypes'
      BY <3>1, Zenon DEF StreamInv, StreamTypes
    <3>3. Owners'
      BY <3>1, Zenon DEF StreamInv, Owners
    <3>4. Held' = Held
      BY <3>1, Zenon DEF Held
    <3>5. Before' = Before
      BY <3>1, Zenon DEF Before
    <3>6. Whole' = Whole
      BY <3>1, <3>5, Zenon DEF Whole
    <3> QED  BY <3>1, <3>2, <3>3, <3>4, <3>6, Zenon DEF StreamInv
  <2> QED  BY <2>1, <2>2, <2>3, Zenon
<1>3. Inv => Intact
  BY Zenon DEF StreamInv, Accounts, F!Intact, Intact
<1> QED  BY <1>1, <1>2, <1>3, PTL DEF F!Spec

================================================================================
