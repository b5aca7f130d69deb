----------------------------- MODULE StreamsProofs -----------------------------
(***************************************************************************)
(* Tunnel implements Streams: what is written on a direction of a          *)
(* connection arrives in order, once, and complete before its end, as long *)
(* as no channel id was given out twice.  First what the proof is about:   *)
(* where the chunks of a direction are.                                    *)
(***************************************************************************)
EXTENDS RoutingProofs, SequenceTheorems, FiniteSetTheorems, WellFoundedInduction

IsConnect(f, c) == f.conn = c /\ f.cmd = "CONNECT"
IsData(f, c) == f.conn = c /\ f.cmd = "DATA"
IsEnd(f, c) == f.conn = c /\ f.cmd \in {"EOF", "STOP"}

\* No frame of c is in q.
Absent(q, c) == \A k \in DOMAIN q : q[k].conn # c

HasConnect(q, c) == \E k \in DOMAIN q : IsConnect(q[k], c)
HasEnd(q, c) == \E k \in DOMAIN q : IsEnd(q[k], c)

\* The chunks in q continue a stream of which base were there before.
Numbered(q, base) == \A k \in DOMAIN q : q[k].n = base + k

\* The data of c in q are the chunks after lo up to hi, in order.
Spans(q, c, lo, hi) ==
    /\ \A k \in DOMAIN q : IsData(q[k], c) => q[k].n \in lo + 1 .. hi
    /\ \A n \in lo + 1 .. hi : \E k \in DOMAIN q : IsData(q[k], c) /\ q[k].n = n
    /\ \A j, k \in DOMAIN q :
         j < k /\ IsData(q[j], c) /\ IsData(q[k], c) => q[j].n < q[k].n

\* What says that the stream is over comes after its data.
EndsLast(q, c) == \A j, k \in DOMAIN q : j < k /\ IsEnd(q[j], c) => ~ IsData(q[k], c)

(***************************************************************************)
(* The way of a direction of c from its sender to its receiver's queue:    *)
(* base chunks have arrived, the next are in hand (h), then on the pipe    *)
(* (p), then, as long as the link (l) is up, in the sender's queue (o),    *)
(* until top.  Only when the sender (s) is done does an end follow.        *)
(***************************************************************************)
Carried(c, h, p, o, l, base, top, s) ==
    \E x \in base .. top : \E y \in x .. top :
        /\ Spans(h, c, base, x)
        /\ Spans(p, c, x, y)
        /\ EndsLast(p, c)
        /\ HasEnd(p, c) => y = top /\ s = "over"
        /\ l = "up" => Spans(o, c, y, top) /\ EndsLast(o, c) /\ (HasEnd(o, c) => s = "over")
-----------------------------------------------------------------------------
(* From the client to the target *)

\* The target's side has yet to be connected, or is writing to it.
UpLive(c) == task_pc[c] \in {"none", "connecting"} \/ w_task[c] = "run"
UpSender(c) == IF a_task[c] \in {"eof", "done"} THEN "over" ELSE "open"
UpBase(c) == Len(tgt_got[c]) + Len(inbound[c])

UpWay(c) == Carried(c, loop_held, c2s, out_tx, link, UpBase(c), app_sent[c], UpSender(c))

UpFlow(c) ==
    /\ Numbered(tgt_got[c], 0)
    /\ UpLive(c) => Numbered(inbound[c], Len(tgt_got[c])) /\ UpWay(c)

\* A channel that was taken from the map has had its end, and all before it.
UpDone(c) ==
    UpLive(c) /\ task_pc[c] # "none" /\ tcp_chans[ids[c]] # c
        => UpBase(c) = app_sent[c] /\ UpSender(c) = "over"

(* From the target to the application *)

DownLive(c) == conn_pc[c] \in {"new", "opening"} \/ b_task[c] = "run"
DownSender(c) ==
    IF r_task[c] \in {"eof", "done"} \/ task_pc[c] \in {"failed", "removing", "done"}
    THEN "over" ELSE "open"
DownBase(c) == Len(app_got[c]) + Len(in_rx[c])

DownWay(c) == Carried(c, demux_held, s2c, srv_out, link, DownBase(c), tgt_sent[c], DownSender(c))

DownFlow(c) ==
    /\ Numbered(app_got[c], 0)
    /\ DownLive(c) => Numbered(in_rx[c], Len(app_got[c])) /\ DownWay(c)

DownDone(c) ==
    b_task[c] = "run" /\ channels[ids[c]] # c
        => DownBase(c) = tgt_sent[c] /\ DownSender(c) = "over"
-----------------------------------------------------------------------------
(* The lives of a connection on both sides *)

\* Each accept loop numbers connections of its own, which nobody works for yet.
AcceptorsApart ==
    /\ \A l \in Loops : acceptor[l] # NoConn => conn_pc[acceptor[l]] = "new"
    /\ \A l, m \in Loops : acceptor[l] # NoConn /\ acceptor[l] = acceptor[m] => l = m

\* Until CONNECT is queued the server has heard nothing of a connection.
ConnLife(c) ==
    /\ conn_pc[c] \in {"new", "opening", "failed"} =>
         /\ a_task[c] = "idle" /\ b_task[c] = "idle"
         /\ Absent(out_tx, c) /\ Absent(c2s, c)
         /\ task_pc[c] = "none"
    /\ conn_pc[c] = "opening" => channels[ids[c]] = c
    /\ b_task[c] = "run" => conn_pc[c] = "open"
    /\ DownLive(c) => ~ app_eof[c]

\* Until CONNECT is handled the client has heard nothing from the server.
TaskLife(c) ==
    /\ task_pc[c] = "none" =>
         /\ Absent(srv_out, c) /\ Absent(s2c, c) /\ Absent(demux_held, c)
         /\ \A i \in 0 .. MaxId : tcp_chans[i] # c
    /\ task_pc[c] \in {"none", "connecting"} => w_task[c] = "idle" /\ r_task[c] = "idle"
    /\ w_task[c] = "run" => task_pc[c] = "relay"
    /\ r_task[c] = "run" => task_pc[c] = "relay"
    /\ UpLive(c) /\ Running => ~ tgt_eof[c]

\* CONNECT is sent once and is the first of a connection's frames.
ConnectFirst(q, c) == \A j, k \in DOMAIN q : j < k /\ q[j].conn = c => ~ IsConnect(q[k], c)

ConnectLeads(q, c) ==
    \A k \in DOMAIN q : q[k].conn = c => \E j \in 1 .. k : IsConnect(q[j], c)

Announced(c) ==
    /\ HasConnect(out_tx, c) => Absent(c2s, c) /\ task_pc[c] = "none"
    /\ HasConnect(c2s, c) => task_pc[c] = "none"
    /\ ConnectFirst(c2s, c) /\ ConnectFirst(out_tx, c)
    /\ task_pc[c] = "none" =>
         /\ ConnectLeads(c2s, c)
         /\ link = "up" => HasConnect(c2s, c) \/ ConnectLeads(out_tx, c)
         /\ link = "up" /\ conn_pc[c] \in {"open", "done"} =>
              HasConnect(c2s, c) \/ HasConnect(out_tx, c)

\* A frame in hand is for a channel in the map, which is locked.
HeldIsOpen ==
    /\ loop_held # <<>> => tcp_chans[Head(loop_held).channel] # NoConn
    /\ demux_held # <<>> => channels[Head(demux_held).channel] # NoConn

\* A writer task ends only when the link is gone.
DeadWriters == writer = "dead" \/ srv_writer = "dead" => link = "down"

LifeInv ==
    /\ DeadWriters
    /\ AcceptorsApart
    /\ HeldIsOpen
    /\ \A c \in Conns : ConnLife(c) /\ TaskLife(c) /\ Announced(c)

FlowInv == \A c \in Conns : UpFlow(c) /\ UpDone(c) /\ DownFlow(c) /\ DownDone(c)

StreamsInv == IdsDistinct => LifeInv /\ FlowInv
-----------------------------------------------------------------------------
(* Sequences, element by element *)

LEMMA AppendFacts ==
    ASSUME NEW S, NEW q \in Seq(S), NEW f \in S
    PROVE  /\ DOMAIN Append(q, f) = 1 .. Len(q) + 1
           /\ \A k \in DOMAIN q : Append(q, f)[k] = q[k]
           /\ Append(q, f)[Len(q) + 1] = f
           /\ DOMAIN q = 1 .. Len(q) /\ Len(q) \in Nat
  OBVIOUS

LEMMA TailFacts ==
    ASSUME NEW S, NEW q \in Seq(S), q # <<>>
    PROVE  /\ DOMAIN Tail(q) = 1 .. Len(q) - 1
           /\ \A k \in DOMAIN Tail(q) : Tail(q)[k] = q[k + 1]
           /\ Head(q) = q[1]
           /\ DOMAIN q = 1 .. Len(q) /\ Len(q) \in Nat /\ Len(q) >= 1
  OBVIOUS

LEMMA CutFacts ==
    ASSUME NEW S, NEW q \in Seq(S), NEW m \in 0 .. Len(q)
    PROVE  /\ DOMAIN SubSeq(q, 1, m) = 1 .. m
           /\ \A k \in DOMAIN SubSeq(q, 1, m) : SubSeq(q, 1, m)[k] = q[k]
           /\ DOMAIN q = 1 .. Len(q) /\ Len(q) \in Nat
  OBVIOUS

LEMMA HeadLemma ==
    ASSUME NEW S, NEW q \in Seq(S), q # <<>>
    PROVE  Head(q) \in S
  OBVIOUS

\* A set of numbers has a least one.
LEMMA LeastOne ==
    ASSUME NEW T, T \subseteq Nat, T # {}
    PROVE  \E x \in T : \A y \in T : x <= y
  <1>. DEFINE F == {0 .. n : n \in T}
              R == StrictSubsetOrdering(Nat)
  <1>1. \A n \in T : 0 .. n \subseteq Nat /\ IsFiniteSet(0 .. n)
    BY FS_Interval
  <1>2. F \subseteq FiniteSubsetsOf(Nat) /\ F # {}
    BY <1>1 DEF FiniteSubsetsOf
  <1>3. IsWellFoundedOn(R, FiniteSubsetsOf(Nat))
    BY FS_StrictSubsetOrderingWellFounded
  <1>4. \E U \in F : \A V \in F : <<V, U>> \notin R
    <2>. HIDE DEF F, R
    <2>. QED
      BY ONLY <1>2, <1>3, WFMin
  <1>5. PICK x \in T : \A y \in T : <<0 .. y, 0 .. x>> \notin R
    BY <1>4
  <1>6. ASSUME NEW y \in T, y < x PROVE FALSE
    <2>1. 0 .. y \in SUBSET Nat /\ 0 .. x \in SUBSET Nat
      BY <1>1
    <2>2. 0 .. y \subseteq 0 .. x /\ 0 .. y # 0 .. x
      BY <1>6
    <2>3. <<0 .. y, 0 .. x>> \in R
      BY <2>1, <2>2 DEF StrictSubsetOrdering
    <2>. QED
      BY <1>5, <2>3
  <1>. QED
    BY <1>6
-----------------------------------------------------------------------------
(* Chunks in a queue *)

LEMMA SpansNone ==
    ASSUME NEW c, NEW lo \in Nat
    PROVE  Spans(<<>>, c, lo, lo)
  BY DEF Spans

LEMMA SpansAppendOther ==
    ASSUME NEW S, NEW q \in Seq(S), NEW f \in S, NEW c, NEW lo \in Nat, NEW hi \in Nat,
           Spans(q, c, lo, hi), ~ IsData(f, c)
    PROVE  Spans(Append(q, f), c, lo, hi)
  <1>. DEFINE r == Append(q, f)
  <1>1. /\ DOMAIN r = 1 .. Len(q) + 1
        /\ \A k \in DOMAIN q : r[k] = q[k]
        /\ r[Len(q) + 1] = f
        /\ DOMAIN q = 1 .. Len(q) /\ Len(q) \in Nat
    BY AppendFacts
  <1>. HIDE DEF r
  <1>2. \A k \in DOMAIN r : IsData(r[k], c) => k \in DOMAIN q /\ r[k] = q[k]
    BY <1>1
  <1>3. \A k \in DOMAIN q : k \in DOMAIN r /\ r[k] = q[k]
    BY <1>1
  <1>4. Spans(r, c, lo, hi)
    BY ONLY <1>2, <1>3, Spans(q, c, lo, hi) DEF Spans
  <1>. QED
    BY <1>4 DEF r

LEMMA SpansAppendData ==
    ASSUME NEW S, NEW q \in Seq(S), NEW f \in S, NEW c, NEW lo \in Nat, NEW hi \in Nat,
           Spans(q, c, lo, hi), lo <= hi, IsData(f, c), f.n = hi + 1
    PROVE  Spans(Append(q, f), c, lo, hi + 1)
  <1>. DEFINE r == Append(q, f)
  <1>1. /\ DOMAIN r = 1 .. Len(q) + 1
        /\ \A k \in DOMAIN q : r[k] = q[k]
        /\ r[Len(q) + 1] = f
        /\ DOMAIN q = 1 .. Len(q) /\ Len(q) \in Nat
    BY AppendFacts
  <1>. HIDE DEF r
  <1>2. \A k \in DOMAIN r :
           \/ k \in DOMAIN q /\ r[k] = q[k]
           \/ k = Len(q) + 1 /\ r[k] = f
    BY <1>1
  <1>3. ASSUME NEW k \in DOMAIN r, IsData(r[k], c)
        PROVE  /\ r[k].n \in lo + 1 .. hi + 1
               /\ k \in DOMAIN q => r[k].n \in lo + 1 .. hi
    BY <1>2, <1>3, <1>1 DEF Spans
  <1>4. ASSUME NEW n \in lo + 1 .. hi + 1
        PROVE  \E k \in DOMAIN r : IsData(r[k], c) /\ r[k].n = n
    <2>1. CASE n = hi + 1
      BY <1>1, <2>1
    <2>2. CASE n \in lo + 1 .. hi
      BY <1>1, <2>2 DEF Spans
    <2>. QED
      BY <2>1, <2>2
  <1>5. ASSUME NEW j \in DOMAIN r, NEW k \in DOMAIN r,
               j < k, IsData(r[j], c), IsData(r[k], c)
        PROVE  r[j].n < r[k].n
    <2>1. j \in DOMAIN q /\ r[j] = q[j]
      BY <1>1, <1>5
    <2>2. CASE k \in DOMAIN q
      BY <1>1, <1>5, <2>1, <2>2 DEF Spans
    <2>3. CASE k = Len(q) + 1
      BY <1>1, <1>3, <1>5, <2>1, <2>3
    <2>. QED
      BY <1>2, <2>2, <2>3
  <1>6. Spans(r, c, lo, hi + 1)
    BY <1>3, <1>4, <1>5 DEF Spans
  <1>. QED
    BY <1>6 DEF r

LEMMA SpansTailOther ==
    ASSUME NEW S, NEW q \in Seq(S), q # <<>>, NEW c, NEW lo \in Nat, NEW hi \in Nat,
           Spans(q, c, lo, hi), ~ IsData(Head(q), c)
    PROVE  Spans(Tail(q), c, lo, hi)
  <1>. DEFINE r == Tail(q)
  <1>1. /\ DOMAIN r = 1 .. Len(q) - 1
        /\ \A k \in DOMAIN r : r[k] = q[k + 1]
        /\ Head(q) = q[1]
        /\ DOMAIN q = 1 .. Len(q) /\ Len(q) \in Nat /\ Len(q) >= 1
    BY TailFacts
  <1>. HIDE DEF r
  <1>2. \A k \in DOMAIN q : IsData(q[k], c) => k - 1 \in DOMAIN r /\ r[k - 1] = q[k]
    BY <1>1
  <1>3. \A k \in DOMAIN r : k \in Int /\ k + 1 \in DOMAIN q /\ r[k] = q[k + 1]
    BY <1>1
  <1>4. \A k \in DOMAIN r : IsData(r[k], c) => r[k].n \in lo + 1 .. hi
    BY <1>3 DEF Spans
  <1>5. \A n \in lo + 1 .. hi : \E k \in DOMAIN r : IsData(r[k], c) /\ r[k].n = n
    BY <1>2 DEF Spans
  <1>6. \A j, k \in DOMAIN r : j < k /\ IsData(r[j], c) /\ IsData(r[k], c) => r[j].n < r[k].n
    BY <1>3 DEF Spans
  <1>7. Spans(r, c, lo, hi)
    BY <1>4, <1>5, <1>6 DEF Spans
  <1>. QED
    BY <1>7 DEF r

LEMMA SpansTailData ==
    ASSUME NEW S, NEW q \in Seq(S), q # <<>>, NEW c, NEW lo \in Nat, NEW hi \in Nat,
           Spans(q, c, lo, hi), IsData(Head(q), c)
    PROVE  /\ Head(q).n = lo + 1
           /\ lo < hi
           /\ Spans(Tail(q), c, lo + 1, hi)
  <1>. DEFINE r == Tail(q)
  <1>1. /\ DOMAIN r = 1 .. Len(q) - 1
        /\ \A k \in DOMAIN r : r[k] = q[k + 1]
        /\ Head(q) = q[1]
        /\ DOMAIN q = 1 .. Len(q) /\ Len(q) \in Nat /\ Len(q) >= 1
    BY TailFacts
  <1>. HIDE DEF r
  <1>2. q[1].n = lo + 1 /\ lo < hi
    <2>1. 1 \in DOMAIN q /\ IsData(q[1], c)
      BY <1>1
    <2>2. q[1].n \in lo + 1 .. hi
      BY <2>1 DEF Spans
    <2>3. PICK k \in DOMAIN q : IsData(q[k], c) /\ q[k].n = lo + 1
      BY <2>2 DEF Spans
    <2>4. k # 1 => q[1].n < q[k].n
      BY <1>1, <2>1, <2>3 DEF Spans
    <2>. QED
      BY <2>2, <2>3, <2>4
  <1>3. \A k \in DOMAIN r : k \in Int /\ k + 1 \in DOMAIN q /\ r[k] = q[k + 1] /\ 1 < k + 1
    BY <1>1
  <1>4. \A k \in DOMAIN r : IsData(r[k], c) => r[k].n \in lo + 2 .. hi
    <2>1. \A k \in DOMAIN r : IsData(r[k], c) => r[k].n \in lo + 1 .. hi /\ q[1].n < r[k].n
      BY <1>1, <1>3 DEF Spans
    <2>. QED
      BY <1>2, <2>1
  <1>5. ASSUME NEW n \in lo + 2 .. hi
        PROVE  \E k \in DOMAIN r : IsData(r[k], c) /\ r[k].n = n
    <2>1. PICK k \in DOMAIN q : IsData(q[k], c) /\ q[k].n = n
      BY DEF Spans
    <2>2. k # 1
      BY <1>2, <2>1
    <2>3. k - 1 \in DOMAIN r /\ r[k - 1] = q[k]
      BY <1>1, <2>2
    <2>. QED
      BY <2>1, <2>3
  <1>6. \A j, k \in DOMAIN r : j < k /\ IsData(r[j], c) /\ IsData(r[k], c) => r[j].n < r[k].n
    BY <1>3 DEF Spans
  <1>7. Spans(r, c, lo + 1, hi)
    <2>1. lo + 1 + 1 = lo + 2
      OBVIOUS
    <2>. QED
      BY <1>4, <1>5, <1>6, <2>1 DEF Spans
  <1>. QED
    BY <1>1, <1>2, <1>7 DEF r

\* What is left of a queue that was cut off are its first chunks.
LEMMA SpansCut ==
    ASSUME NEW S, NEW q \in Seq(S), NEW m \in 0 .. Len(q), NEW c, NEW lo \in Nat, NEW hi \in Nat,
           Spans(q, c, lo, hi), lo <= hi
    PROVE  \E x \in lo .. hi :
              /\ Spans(SubSeq(q, 1, m), c, lo, x)
              /\ (\A k \in DOMAIN q : IsData(q[k], c) => k <= m) => x = hi
  <1>. DEFINE r == SubSeq(q, 1, m)
              T == {n \in lo + 1 .. hi + 1 : \A k \in DOMAIN r : IsData(r[k], c) => r[k].n # n}
  <1>1. /\ DOMAIN r = 1 .. m
        /\ \A k \in DOMAIN r : r[k] = q[k]
        /\ DOMAIN q = 1 .. Len(q) /\ Len(q) \in Nat
    BY CutFacts
  <1>. HIDE DEF r
  <1>2. T \subseteq Nat /\ hi + 1 \in T
    BY <1>1 DEF Spans
  <1>3. PICK x \in T : \A y \in T : x <= y
    BY <1>2, LeastOne, Zenon
  <1>4. x \in lo + 1 .. hi + 1 /\ \A n \in lo + 1 .. x - 1 : n \notin T
    BY <1>3
  <1>5. ASSUME NEW k \in DOMAIN r, IsData(r[k], c) PROVE r[k].n \in lo + 1 .. x - 1
    <2>1. k \in DOMAIN q /\ IsData(q[k], c) /\ q[k].n \in lo + 1 .. hi /\ q[k].n = r[k].n
      BY <1>1, <1>5 DEF Spans
    <2>2. q[k].n # x
      BY <1>3, <1>5, <2>1
    <2>3. ASSUME q[k].n > x PROVE FALSE
      <3>1. PICK j \in DOMAIN q : IsData(q[j], c) /\ q[j].n = x
        BY <1>4, <2>1, <2>3 DEF Spans
      <3>2. j < k
        BY <1>1, <2>1, <2>3, <3>1 DEF Spans
      <3>3. j \in DOMAIN r /\ r[j] = q[j]
        BY <1>1, <3>1, <3>2
      <3>. QED
        BY <1>3, <3>1, <3>3
    <2>. QED
      BY <1>4, <2>1, <2>2, <2>3
  <1>6. Spans(r, c, lo, x - 1)
    <2>1. \A n \in lo + 1 .. x - 1 : \E k \in DOMAIN r : IsData(r[k], c) /\ r[k].n = n
      BY <1>4
    <2>2. \A j, k \in DOMAIN r :
             j < k /\ IsData(r[j], c) /\ IsData(r[k], c) => r[j].n < r[k].n
      BY <1>1 DEF Spans
    <2>. QED
      BY <1>5, <2>1, <2>2 DEF Spans
  <1>7. ASSUME \A k \in DOMAIN q : IsData(q[k], c) => k <= m PROVE x - 1 = hi
    <2>1. ASSUME x <= hi PROVE FALSE
      <3>1. PICK k \in DOMAIN q : IsData(q[k], c) /\ q[k].n = x
        BY <1>4, <2>1 DEF Spans
      <3>2. k \in DOMAIN r /\ r[k] = q[k]
        BY <1>1, <1>7, <3>1
      <3>. QED
        BY <1>3, <3>1, <3>2
    <2>. QED
      BY <1>4, <2>1
  <1>. QED
    BY <1>4, <1>6, <1>7 DEF r
-----------------------------------------------------------------------------
(* The end of a stream in a queue *)

LEMMA EndIsNoData ==
    ASSUME NEW f, NEW c, IsEnd(f, c)
    PROVE  ~ IsData(f, c)
  BY DEF IsEnd, IsData

LEMMA EndsNone ==
    ASSUME NEW c
    PROVE  EndsLast(<<>>, c) /\ ~ HasEnd(<<>>, c)
  BY DEF EndsLast, HasEnd

LEMMA EndsAppend ==
    ASSUME NEW S, NEW q \in Seq(S), NEW f \in S, NEW c, EndsLast(q, c)
    PROVE  /\ ~ IsData(f, c) \/ ~ HasEnd(q, c) => EndsLast(Append(q, f), c)
           /\ HasEnd(Append(q, f), c) => HasEnd(q, c) \/ IsEnd(f, c)
  <1>. DEFINE r == Append(q, f)
  <1>1. /\ DOMAIN r = 1 .. Len(q) + 1
        /\ \A k \in DOMAIN q : r[k] = q[k]
        /\ r[Len(q) + 1] = f
        /\ DOMAIN q = 1 .. Len(q) /\ Len(q) \in Nat
    BY AppendFacts
  <1>. HIDE DEF r
  <1>2. \A k \in DOMAIN r :
           \/ k \in DOMAIN q /\ r[k] = q[k]
           \/ k = Len(q) + 1 /\ r[k] = f
    BY <1>1
  <1>3. HasEnd(r, c) => HasEnd(q, c) \/ IsEnd(f, c)
    BY <1>2 DEF HasEnd
  <1>4. ASSUME ~ IsData(f, c) \/ ~ HasEnd(q, c) PROVE EndsLast(r, c)
    <2>1. \A j, k \in DOMAIN r : j < k => j \in DOMAIN q /\ r[j] = q[j]
      BY <1>1
    <2>2. \A j \in DOMAIN q : IsEnd(q[j], c) => ~ IsData(f, c)
      BY <1>4 DEF HasEnd
    <2>. QED
      BY ONLY <1>2, <2>1, <2>2, EndsLast(q, c) DEF EndsLast
  <1>. QED
    BY <1>3, <1>4 DEF r

LEMMA EndsTail ==
    ASSUME NEW S, NEW q \in Seq(S), q # <<>>, NEW c, EndsLast(q, c)
    PROVE  /\ EndsLast(Tail(q), c)
           /\ HasEnd(Tail(q), c) => HasEnd(q, c)
           /\ IsEnd(Head(q), c) => HasEnd(q, c) /\ \A k \in DOMAIN q : ~ IsData(q[k], c)
  <1>. DEFINE r == Tail(q)
  <1>1. /\ DOMAIN r = 1 .. Len(q) - 1
        /\ \A k \in DOMAIN r : r[k] = q[k + 1]
        /\ Head(q) = q[1]
        /\ DOMAIN q = 1 .. Len(q) /\ Len(q) \in Nat /\ Len(q) >= 1
    BY TailFacts
  <1>. HIDE DEF r
  <1>2. \A k \in DOMAIN r : k \in Int /\ k + 1 \in DOMAIN q /\ r[k] = q[k + 1]
    BY <1>1
  <1>3. EndsLast(r, c)
    BY <1>2 DEF EndsLast
  <1>4. HasEnd(r, c) => HasEnd(q, c)
    BY <1>2 DEF HasEnd
  <1>5. ASSUME IsEnd(q[1], c)
        PROVE  HasEnd(q, c) /\ \A k \in DOMAIN q : ~ IsData(q[k], c)
    <2>1. HasEnd(q, c)
      BY <1>1, <1>5 DEF HasEnd
    <2>2. ~ IsData(q[1], c)
      BY <1>5, EndIsNoData
    <2>3. \A k \in DOMAIN q : k = 1 \/ 1 < k
      BY <1>1
    <2>. QED
      BY <1>1, <1>5, <2>1, <2>2, <2>3 DEF EndsLast
  <1>. QED
    BY <1>1, <1>3, <1>4, <1>5 DEF r

LEMMA EndsCut ==
    ASSUME NEW S, NEW q \in Seq(S), NEW m \in 0 .. Len(q), NEW c, EndsLast(q, c)
    PROVE  /\ EndsLast(SubSeq(q, 1, m), c)
           /\ HasEnd(SubSeq(q, 1, m), c) =>
                HasEnd(q, c) /\ \A k \in DOMAIN q : IsData(q[k], c) => k <= m
  <1>. DEFINE r == SubSeq(q, 1, m)
  <1>1. /\ DOMAIN r = 1 .. m
        /\ \A k \in DOMAIN r : r[k] = q[k]
        /\ DOMAIN q = 1 .. Len(q) /\ Len(q) \in Nat
    BY CutFacts
  <1>. HIDE DEF r
  <1>2. \A k \in DOMAIN r : k \in DOMAIN q /\ r[k] = q[k]
    BY <1>1
  <1>3. EndsLast(r, c)
    BY <1>2 DEF EndsLast
  <1>4. ASSUME HasEnd(r, c)
        PROVE  HasEnd(q, c) /\ \A k \in DOMAIN q : IsData(q[k], c) => k <= m
    <2>1. PICK j \in DOMAIN r : IsEnd(r[j], c)
      BY <1>4 DEF HasEnd
    <2>2. j \in DOMAIN q /\ IsEnd(q[j], c) /\ j <= m
      BY <1>1, <1>2, <2>1
    <2>3. HasEnd(q, c)
      BY <2>2 DEF HasEnd
    <2>4. \A k \in DOMAIN q : k > m => j < k
      BY <1>1, <2>2
    <2>5. \A k \in DOMAIN q : IsData(q[k], c) => ~ (k > m)
      BY <2>2, <2>4 DEF EndsLast
    <2>. QED
      BY <1>1, <2>3, <2>5
  <1>. QED
    BY <1>3, <1>4 DEF r

\* No chunk of c is in q if none is missing.
LEMMA SpansNoData ==
    ASSUME NEW q, NEW c, NEW lo \in Nat, NEW hi \in Nat, Spans(q, c, lo, hi), lo <= hi,
           \A k \in DOMAIN q : ~ IsData(q[k], c)
    PROVE  lo = hi
  BY DEF Spans

LEMMA SpansSame ==
    ASSUME NEW q, NEW c, NEW lo \in Nat, NEW k \in DOMAIN q, Spans(q, c, lo, lo)
    PROVE  ~ IsData(q[k], c)
  BY DEF Spans

\* A frame in hand is the next chunk, or another connection's.
LEMMA SpansOne ==
    ASSUME NEW f, NEW c, NEW lo \in Nat, NEW hi \in Nat, lo <= hi
    PROVE  /\ IsData(f, c) /\ f.n = lo + 1 => Spans(<<f>>, c, lo, lo + 1)
           /\ ~ IsData(f, c) => Spans(<<f>>, c, lo, lo)
           /\ Spans(<<f>>, c, lo, hi) /\ IsData(f, c) => f.n = lo + 1 /\ hi = lo + 1
           /\ Spans(<<f>>, c, lo, hi) /\ ~ IsData(f, c) => hi = lo
  <1>. DEFINE q == <<f>>
  <1>1. DOMAIN q = {1} /\ q[1] = f
    OBVIOUS
  <1>. HIDE DEF q
  <1>2. IsData(f, c) /\ f.n = lo + 1 => Spans(q, c, lo, lo + 1)
    BY <1>1 DEF Spans
  <1>3. ~ IsData(f, c) => Spans(q, c, lo, lo)
    BY <1>1 DEF Spans
  <1>4. Spans(q, c, lo, hi) /\ IsData(f, c) => f.n = lo + 1 /\ hi = lo + 1
    <2>. SUFFICES ASSUME Spans(q, c, lo, hi), IsData(f, c) PROVE f.n = lo + 1 /\ hi = lo + 1
      OBVIOUS
    <2>1. f.n \in lo + 1 .. hi
      BY <1>1 DEF Spans
    <2>2. \A n \in lo + 1 .. hi : f.n = n
      BY <1>1 DEF Spans
    <2>3. lo + 1 \in lo + 1 .. hi /\ hi \in lo + 1 .. hi
      BY <2>1
    <2>. QED
      BY <2>2, <2>3
  <1>5. Spans(q, c, lo, hi) /\ ~ IsData(f, c) => hi = lo
    BY <1>1 DEF Spans
  <1>. QED
    BY <1>2, <1>3, <1>4, <1>5 DEF q
-----------------------------------------------------------------------------
(* The way of a stream *)

\* What follows from the definition, with the meeting points named.
LEMMA CarriedPoints ==
    ASSUME NEW c, NEW h, NEW p, NEW o, NEW l, NEW base \in Nat, NEW top \in Nat, NEW s,
           Carried(c, h, p, o, l, base, top, s)
    PROVE  \E x, y \in Nat :
              /\ base <= x /\ x <= y /\ y <= top
              /\ Spans(h, c, base, x)
              /\ Spans(p, c, x, y)
              /\ EndsLast(p, c)
              /\ HasEnd(p, c) => y = top /\ s = "over"
              /\ l = "up" => Spans(o, c, y, top) /\ EndsLast(o, c) /\ (HasEnd(o, c) => s = "over")
  BY DEF Carried

LEMMA CarriedIf ==
    ASSUME NEW c, NEW h, NEW p, NEW o, NEW l, NEW base \in Nat, NEW top \in Nat, NEW s,
           NEW x \in Nat, NEW y \in Nat, base <= x, x <= y, y <= top,
           Spans(h, c, base, x), Spans(p, c, x, y), EndsLast(p, c),
           HasEnd(p, c) => y = top /\ s = "over",
           l = "up" => Spans(o, c, y, top) /\ EndsLast(o, c) /\ (HasEnd(o, c) => s = "over")
    PROVE  Carried(c, h, p, o, l, base, top, s)
  <1>1. x \in base .. top /\ y \in x .. top
    OBVIOUS
  <1>. QED
    BY <1>1 DEF Carried

LEMMA CarriedBounds ==
    ASSUME NEW c, NEW h, NEW p, NEW o, NEW l, NEW base \in Nat, NEW top \in Nat, NEW s,
           Carried(c, h, p, o, l, base, top, s)
    PROVE  base <= top
  BY CarriedPoints

\* Nothing but the past: an empty way.
LEMMA CarriedNone ==
    ASSUME NEW S, NEW o \in Seq(S), NEW c, NEW l, NEW s,
           \A k \in DOMAIN o : ~ IsData(o[k], c) /\ ~ IsEnd(o[k], c)
    PROVE  Carried(c, <<>>, <<>>, o, l, 0, 0, s)
  <1>1. Spans(o, c, 0, 0) /\ EndsLast(o, c) /\ ~ HasEnd(o, c)
    BY DEF Spans, EndsLast, HasEnd
  <1>. QED
    BY <1>1, SpansNone, EndsNone, CarriedIf

\* The sender queues a frame of another connection, or one that says nothing of
\* the stream.
LEMMA CarriedSendOther ==
    ASSUME NEW S, NEW o \in Seq(S), NEW f \in S,
           NEW c, NEW h, NEW p, NEW l, NEW base \in Nat, NEW top \in Nat, NEW s,
           Carried(c, h, p, o, l, base, top, s), ~ IsData(f, c), ~ IsEnd(f, c)
    PROVE  Carried(c, h, p, Append(o, f), l, base, top, s)
  <1>1. PICK x, y \in Nat :
          /\ base <= x /\ x <= y /\ y <= top
          /\ Spans(h, c, base, x)
          /\ Spans(p, c, x, y)
          /\ EndsLast(p, c)
          /\ HasEnd(p, c) => y = top /\ s = "over"
          /\ l = "up" => Spans(o, c, y, top) /\ EndsLast(o, c) /\ (HasEnd(o, c) => s = "over")
    BY CarriedPoints
  <1>2. ASSUME l = "up"
        PROVE  /\ Spans(Append(o, f), c, y, top)
               /\ EndsLast(Append(o, f), c)
               /\ HasEnd(Append(o, f), c) => s = "over"
    BY <1>1, <1>2, SpansAppendOther, EndsAppend
  <1>. QED
    BY <1>1, <1>2, CarriedIf

\* The sender queues the next chunk.
LEMMA CarriedSendData ==
    ASSUME NEW S, NEW o \in Seq(S), NEW f \in S,
           NEW c, NEW h, NEW p, NEW l, NEW base \in Nat, NEW top \in Nat, NEW s,
           Carried(c, h, p, o, l, base, top, s), s # "over", IsData(f, c), f.n = top + 1
    PROVE  Carried(c, h, p, Append(o, f), l, base, top + 1, s)
  <1>1. PICK x, y \in Nat :
          /\ base <= x /\ x <= y /\ y <= top
          /\ Spans(h, c, base, x)
          /\ Spans(p, c, x, y)
          /\ EndsLast(p, c)
          /\ HasEnd(p, c) => y = top /\ s = "over"
          /\ l = "up" => Spans(o, c, y, top) /\ EndsLast(o, c) /\ (HasEnd(o, c) => s = "over")
    BY CarriedPoints
  <1>2. ASSUME l = "up"
        PROVE  /\ Spans(Append(o, f), c, y, top + 1)
               /\ EndsLast(Append(o, f), c)
               /\ ~ HasEnd(Append(o, f), c)
    <2>1. ~ IsEnd(f, c)
      BY EndIsNoData
    <2>. QED
      BY <1>1, <1>2, <2>1, SpansAppendData, EndsAppend
  <1>3. ~ HasEnd(p, c) /\ y <= top + 1 /\ top + 1 \in Nat
    BY <1>1
  <1>. QED
    BY <1>1, <1>2, <1>3, CarriedIf

\* The sender says that the stream is over.
LEMMA CarriedSendEnd ==
    ASSUME NEW S, NEW o \in Seq(S), NEW f \in S,
           NEW c, NEW h, NEW p, NEW l, NEW base \in Nat, NEW top \in Nat, NEW s,
           Carried(c, h, p, o, l, base, top, s), s = "over", IsEnd(f, c)
    PROVE  Carried(c, h, p, Append(o, f), l, base, top, s)
  <1>1. PICK x, y \in Nat :
          /\ base <= x /\ x <= y /\ y <= top
          /\ Spans(h, c, base, x)
          /\ Spans(p, c, x, y)
          /\ EndsLast(p, c)
          /\ HasEnd(p, c) => y = top /\ s = "over"
          /\ l = "up" => Spans(o, c, y, top) /\ EndsLast(o, c) /\ (HasEnd(o, c) => s = "over")
    BY CarriedPoints
  <1>2. ASSUME l = "up"
        PROVE  Spans(Append(o, f), c, y, top) /\ EndsLast(Append(o, f), c)
    BY <1>1, <1>2, EndIsNoData, SpansAppendOther, EndsAppend
  <1>. QED
    BY <1>1, <1>2, CarriedIf

\* With the link down it does not matter what the sender queues, drops or keeps,
\* and a chunk more is lost as long as no end was on its way.
LEMMA CarriedDown ==
    ASSUME NEW c, NEW h, NEW p, NEW o, NEW q, NEW l, NEW base \in Nat, NEW top \in Nat, NEW s,
           l # "up", Carried(c, h, p, o, l, base, top, s)
    PROVE  /\ Carried(c, h, p, q, l, base, top, s)
           /\ s # "over" => Carried(c, h, p, q, l, base, top + 1, "over")
  <1>1. PICK x, y \in Nat :
          /\ base <= x /\ x <= y /\ y <= top
          /\ Spans(h, c, base, x)
          /\ Spans(p, c, x, y)
          /\ EndsLast(p, c)
          /\ HasEnd(p, c) => y = top /\ s = "over"
    BY CarriedPoints
  <1>2. Carried(c, h, p, q, l, base, top, s)
    BY <1>1, CarriedIf
  <1>3. ASSUME s # "over" PROVE Carried(c, h, p, q, l, base, top + 1, "over")
    <2>1. ~ HasEnd(p, c) /\ y <= top + 1 /\ top + 1 \in Nat
      BY <1>1, <1>3
    <2>. QED
      BY <1>1, <2>1, CarriedIf
  <1>. QED
    BY <1>2, <1>3

\* The sender is done.
LEMMA CarriedOver ==
    ASSUME NEW c, NEW h, NEW p, NEW o, NEW l, NEW base \in Nat, NEW top \in Nat, NEW s,
           Carried(c, h, p, o, l, base, top, s)
    PROVE  Carried(c, h, p, o, l, base, top, "over")
  BY DEF Carried

\* The writer task moves a frame from the queue to the pipe.
LEMMA CarriedMove ==
    ASSUME NEW S, NEW p \in Seq(S), NEW o \in Seq(S), o # <<>>,
           NEW c, NEW h, NEW l, NEW base \in Nat, NEW top \in Nat, NEW s,
           l = "up", Carried(c, h, p, o, l, base, top, s)
    PROVE  Carried(c, h, Append(p, Head(o)), Tail(o), l, base, top, s)
  <1>1. PICK x, y \in Nat :
          /\ base <= x /\ x <= y /\ y <= top
          /\ Spans(h, c, base, x)
          /\ Spans(p, c, x, y)
          /\ EndsLast(p, c)
          /\ HasEnd(p, c) => y = top /\ s = "over"
          /\ Spans(o, c, y, top) /\ EndsLast(o, c) /\ (HasEnd(o, c) => s = "over")
    BY CarriedPoints
  <1>. DEFINE f == Head(o)
              r == Tail(o)
              t == Append(p, f)
  <1>2. f \in S
    OBVIOUS
  <1>3. EndsLast(r, c) /\ (HasEnd(r, c) => s = "over")
    BY <1>1, EndsTail
  <1>4. IsEnd(f, c) => s = "over" /\ y = top
    <2>1. IsEnd(f, c) => HasEnd(o, c) /\ \A k \in DOMAIN o : ~ IsData(o[k], c)
      BY <1>1, EndsTail
    <2>. QED
      BY <1>1, <2>1, SpansNoData
  <1>5. HasEnd(t, c) => HasEnd(p, c) \/ IsEnd(f, c)
    BY <1>1, <1>2, EndsAppend
  <1>6. CASE IsData(f, c)
    <2>1. f.n = y + 1 /\ y < top /\ Spans(r, c, y + 1, top)
      BY <1>1, <1>6, SpansTailData
    <2>2. ~ HasEnd(p, c) /\ ~ IsEnd(f, c)
      BY <1>1, <1>6, <2>1, EndIsNoData
    <2>3. EndsLast(t, c)
      BY <1>1, <1>2, <2>2, EndsAppend
    <2>4. Spans(t, c, x, y + 1)
      BY <1>1, <1>2, <1>6, <2>1, SpansAppendData
    <2>5. y + 1 \in Nat /\ x <= y + 1 /\ y + 1 <= top
      BY <1>1, <2>1
    <2>6. Carried(c, h, t, r, l, base, top, s)
      <3>. HIDE DEF f, r, t
      <3>. QED
          BY <1>1, <1>3, <1>5, <2>1, <2>2, <2>3, <2>4, <2>5, CarriedIf
    <2>. QED
      BY <2>6
  <1>7. CASE ~ IsData(f, c)
    <2>1. Spans(r, c, y, top)
      BY <1>1, <1>7, SpansTailOther
    <2>2. EndsLast(t, c)
      BY <1>1, <1>2, <1>7, EndsAppend
    <2>3. Spans(t, c, x, y)
      BY <1>1, <1>2, <1>7, SpansAppendOther
    <2>4. HasEnd(t, c) => y = top /\ s = "over"
      BY <1>1, <1>4, <1>5
    <2>6. Carried(c, h, t, r, l, base, top, s)
      <3>. HIDE DEF f, r, t
      <3>. QED
          BY <1>1, <1>3, <2>1, <2>2, <2>3, <2>4, CarriedIf
    <2>. QED
      BY <2>6
  <1>. QED
    BY <1>6, <1>7

\* The link dies: the pipe is cut off somewhere.
LEMMA CarriedCut ==
    ASSUME NEW S, NEW p \in Seq(S), NEW m \in 0 .. Len(p), NEW c, NEW h, NEW o, NEW l, NEW k,
           NEW base \in Nat, NEW top \in Nat, NEW s,
           k # "up", Carried(c, h, p, o, l, base, top, s)
    PROVE  Carried(c, h, SubSeq(p, 1, m), o, k, base, top, s)
  <1>1. PICK x, y \in Nat :
          /\ base <= x /\ x <= y /\ y <= top
          /\ Spans(h, c, base, x)
          /\ Spans(p, c, x, y)
          /\ EndsLast(p, c)
          /\ HasEnd(p, c) => y = top /\ s = "over"
    BY CarriedPoints
  <1>. DEFINE r == SubSeq(p, 1, m)
  <1>2. PICK z \in x .. y :
          /\ Spans(r, c, x, z)
          /\ (\A i \in DOMAIN p : IsData(p[i], c) => i <= m) => z = y
    BY <1>1, SpansCut
  <1>3. EndsLast(r, c) /\ (HasEnd(r, c) => z = top /\ s = "over")
    BY <1>1, <1>2, EndsCut
  <1>4. z \in Nat /\ x <= z /\ z <= top
    BY <1>1, <1>2
  <1>5. Carried(c, h, r, o, k, base, top, s)
    <2>. HIDE DEF r
    <2>. QED
      BY <1>1, <1>2, <1>3, <1>4, CarriedIf
  <1>. QED
    BY <1>5

\* The reader takes a frame off the pipe and keeps it in hand.
LEMMA CarriedHold ==
    ASSUME NEW S, NEW p \in Seq(S), p # <<>>, NEW c, NEW h, NEW o, NEW l,
           NEW base \in Nat, NEW top \in Nat, NEW s,
           h = <<>>, Carried(c, h, p, o, l, base, top, s)
    PROVE  Carried(c, <<Head(p)>>, Tail(p), o, l, base, top, s)
  <1>1. PICK x, y \in Nat :
          /\ base <= x /\ x <= y /\ y <= top
          /\ Spans(h, c, base, x)
          /\ Spans(p, c, x, y)
          /\ EndsLast(p, c)
          /\ HasEnd(p, c) => y = top /\ s = "over"
          /\ l = "up" => Spans(o, c, y, top) /\ EndsLast(o, c) /\ (HasEnd(o, c) => s = "over")
    BY CarriedPoints
  <1>2. x = base
    BY <1>1, SpansNoData
  <1>. DEFINE r == Tail(p)
              g == <<Head(p)>>
  <1>3. EndsLast(r, c) /\ (HasEnd(r, c) => y = top /\ s = "over")
    BY <1>1, EndsTail
  <1>4. CASE IsData(Head(p), c)
    <2>1. Head(p).n = x + 1 /\ x < y /\ Spans(r, c, x + 1, y)
      BY <1>1, <1>4, SpansTailData
    <2>2. Spans(g, c, base, x + 1)
      BY <1>1, <1>2, <1>4, <2>1, SpansOne
    <2>3. x + 1 \in Nat /\ base <= x + 1 /\ x + 1 <= y
      BY <1>1, <2>1
    <2>4. Carried(c, g, r, o, l, base, top, s)
      <3>. HIDE DEF r, g
      <3>. QED
        BY <1>1, <1>3, <2>1, <2>2, <2>3, CarriedIf
    <2>. QED
      BY <2>4
  <1>5. CASE ~ IsData(Head(p), c)
    <2>1. Spans(r, c, x, y)
      BY <1>1, <1>5, SpansTailOther
    <2>2. Spans(g, c, base, x)
      BY <1>1, <1>2, <1>5, SpansOne
    <2>3. Carried(c, g, r, o, l, base, top, s)
      <3>. HIDE DEF r, g
      <3>. QED
        BY <1>1, <1>3, <2>1, <2>2, CarriedIf
    <2>. QED
      BY <2>3
  <1>. QED
    BY <1>4, <1>5

\* The reader takes a frame off the pipe that is no chunk of c.
LEMMA CarriedSkip ==
    ASSUME NEW S, NEW p \in Seq(S), p # <<>>, NEW c, NEW h, NEW o, NEW l,
           NEW base \in Nat, NEW top \in Nat, NEW s,
           ~ IsData(Head(p), c), Carried(c, h, p, o, l, base, top, s)
    PROVE  Carried(c, h, Tail(p), o, l, base, top, s)
  <1>1. PICK x, y \in Nat :
          /\ base <= x /\ x <= y /\ y <= top
          /\ Spans(h, c, base, x)
          /\ Spans(p, c, x, y)
          /\ EndsLast(p, c)
          /\ HasEnd(p, c) => y = top /\ s = "over"
          /\ l = "up" => Spans(o, c, y, top) /\ EndsLast(o, c) /\ (HasEnd(o, c) => s = "over")
    BY CarriedPoints
  <1>. DEFINE r == Tail(p)
  <1>2. Spans(r, c, x, y)
    BY <1>1, SpansTailOther
  <1>3. EndsLast(r, c) /\ (HasEnd(r, c) => y = top /\ s = "over")
    BY <1>1, EndsTail
  <1>4. Carried(c, h, r, o, l, base, top, s)
    <2>. HIDE DEF r
    <2>. QED
      BY <1>1, <1>2, <1>3, CarriedIf
  <1>. QED
    BY <1>4

\* What the reader may conclude from the frame it takes off the pipe: from an end,
\* that everything has arrived, from a chunk, that something was missing.
LEMMA CarriedRead ==
    ASSUME NEW S, NEW p \in Seq(S), p # <<>>, NEW c, NEW h, NEW o, NEW l,
           NEW base \in Nat, NEW top \in Nat, NEW s,
           h = <<>>, Carried(c, h, p, o, l, base, top, s)
    PROVE  /\ IsEnd(Head(p), c) => base = top /\ s = "over"
           /\ IsData(Head(p), c) => base < top
  <1>1. PICK x, y \in Nat :
          /\ base <= x /\ x <= y /\ y <= top
          /\ Spans(h, c, base, x)
          /\ Spans(p, c, x, y)
          /\ EndsLast(p, c)
          /\ HasEnd(p, c) => y = top /\ s = "over"
    BY CarriedPoints
  <1>2. x = base
    BY <1>1, SpansNoData
  <1>3. ASSUME IsEnd(Head(p), c) PROVE base = top /\ s = "over"
    <2>1. HasEnd(p, c) /\ \A k \in DOMAIN p : ~ IsData(p[k], c)
      BY <1>1, <1>3, EndsTail
    <2>2. x = y
      BY <1>1, <2>1, SpansNoData
    <2>. QED
      BY <1>1, <1>2, <2>1, <2>2
  <1>4. ASSUME IsData(Head(p), c) PROVE base < top
    <2>1. x < y
      BY <1>1, <1>4, SpansTailData
    <2>. QED
      BY <1>1, <2>1
  <1>. QED
    BY <1>3, <1>4

\* The frame in hand is delivered, or belongs to another connection.
LEMMA CarriedDeliver ==
    ASSUME NEW c, NEW f, NEW p, NEW o, NEW l, NEW base \in Nat, NEW top \in Nat, NEW s,
           Carried(c, <<f>>, p, o, l, base, top, s)
    PROVE  /\ IsData(f, c) => /\ f.n = base + 1
                              /\ base < top
                              /\ Carried(c, <<>>, p, o, l, base + 1, top, s)
           /\ ~ IsData(f, c) => Carried(c, <<>>, p, o, l, base, top, s)
  <1>. DEFINE g == <<f>>
  <1>. HIDE DEF g
  <1>0. Carried(c, g, p, o, l, base, top, s)
    BY DEF g
  <1>1. PICK x, y \in Nat :
          /\ base <= x /\ x <= y /\ y <= top
          /\ Spans(g, c, base, x)
          /\ Spans(p, c, x, y)
          /\ EndsLast(p, c)
          /\ HasEnd(p, c) => y = top /\ s = "over"
          /\ l = "up" => Spans(o, c, y, top) /\ EndsLast(o, c) /\ (HasEnd(o, c) => s = "over")
    BY <1>0, CarriedPoints
  <1>2. CASE IsData(f, c)
    <2>1. f.n = base + 1 /\ x = base + 1
      BY <1>1, <1>2, SpansOne DEF g
    <2>2. Spans(<<>>, c, x, x)
      BY <1>1, SpansNone
    <2>3. Carried(c, <<>>, p, o, l, x, top, s)
      BY <1>1, <2>2, CarriedIf
    <2>. QED
      BY <1>1, <1>2, <2>1, <2>3
  <1>3. CASE ~ IsData(f, c)
    <2>1. x = base
      BY <1>1, <1>3, SpansOne DEF g
    <2>2. Spans(<<>>, c, x, x)
      BY <1>1, SpansNone
    <2>3. Carried(c, <<>>, p, o, l, x, top, s)
      BY <1>1, <2>2, CarriedIf
    <2>. QED
      BY <1>3, <2>1, <2>3
  <1>. QED
    BY <1>2, <1>3
-----------------------------------------------------------------------------
(* The chunks in a receiver's queue *)

LEMMA NumberedAppend ==
    ASSUME NEW S, NEW q \in Seq(S), NEW f \in S, NEW base \in Nat, Numbered(q, base),
           f.n = base + Len(q) + 1
    PROVE  Numbered(Append(q, f), base) /\ Len(Append(q, f)) = Len(q) + 1
  <1>. DEFINE r == Append(q, f)
  <1>1. /\ DOMAIN r = 1 .. Len(q) + 1
        /\ \A k \in DOMAIN q : r[k] = q[k]
        /\ r[Len(q) + 1] = f
        /\ DOMAIN q = 1 .. Len(q) /\ Len(q) \in Nat
    BY AppendFacts
  <1>2. Len(r) = Len(q) + 1
    BY QueueLemma DEF QueueOps
  <1>. HIDE DEF r
  <1>3. \A k \in DOMAIN r : k \in DOMAIN q \/ k = Len(q) + 1
    BY <1>1
  <1>4. \A m, n \in Nat : m + n + 1 = m + (n + 1)
    OBVIOUS
  <1>5. r[Len(q) + 1].n = base + (Len(q) + 1)
    BY <1>1, <1>4
  <1>6. \A k \in DOMAIN q : r[k].n = base + k
    BY <1>1 DEF Numbered
  <1>7. Numbered(r, base)
    BY ONLY <1>3, <1>5, <1>6 DEF Numbered
  <1>. QED
    BY <1>2, <1>7 DEF r

\* The receiver takes the first chunk of its queue.
LEMMA NumberedTake ==
    ASSUME NEW S, NEW g \in Seq(S), NEW q \in Seq(S), q # <<>>,
           Numbered(g, 0), Numbered(q, Len(g))
    PROVE  /\ Head(q).n = Len(g) + 1
           /\ Numbered(Append(g, Head(q)), 0)
           /\ Numbered(Tail(q), Len(Append(g, Head(q))))
           /\ Len(Append(g, Head(q))) + Len(Tail(q)) = Len(g) + Len(q)
  <1>. DEFINE e == Head(q)
              g2 == Append(g, e)
              q2 == Tail(q)
  <1>1. /\ DOMAIN q2 = 1 .. Len(q) - 1
        /\ \A k \in DOMAIN q2 : q2[k] = q[k + 1]
        /\ e = q[1]
        /\ DOMAIN q = 1 .. Len(q) /\ Len(q) \in Nat /\ Len(q) >= 1
    BY TailFacts
  <1>2. e \in S /\ Len(g) \in Nat /\ Len(g2) = Len(g) + 1 /\ Len(q2) = Len(q) - 1
    BY QueueLemma, HeadLemma DEF QueueOps
  <1>. HIDE DEF q2, e
  <1>3. e.n = Len(g) + 1
    <2>1. 1 \in DOMAIN q
      BY <1>1
    <2>. QED
      BY <1>1, <2>1 DEF Numbered
  <1>4. Numbered(g2, 0)
    BY <1>2, <1>3, NumberedAppend
  <1>. HIDE DEF g2
  <1>5. Numbered(q2, Len(g2))
    <2>1. \A k \in DOMAIN q2 : k \in Int /\ k + 1 \in DOMAIN q
      BY <1>1
    <2>2. \A k \in DOMAIN q2 : q2[k].n = Len(g) + (k + 1)
      BY <1>1, <2>1 DEF Numbered
    <2>3. \A m \in Nat, k \in Int : m + (k + 1) = (m + 1) + k
      OBVIOUS
    <2>. QED
      BY ONLY <1>2, <2>1, <2>2, <2>3 DEF Numbered
  <1>6. Len(g2) + Len(q2) = Len(g) + Len(q)
    <2>1. \A m, n \in Nat : (m + 1) + (n - 1) = m + n
      OBVIOUS
    <2>. QED
      BY ONLY <1>1, <1>2, <2>1
  <1>. QED
    BY <1>3, <1>4, <1>5, <1>6 DEF g2, q2, e
-----------------------------------------------------------------------------
(* Frames of a connection in a queue, and its CONNECT among them *)

LEMMA NothingAbsent ==
    ASSUME NEW c
    PROVE  /\ Absent(<<>>, c)
           /\ ~ HasConnect(<<>>, c)
           /\ ConnectFirst(<<>>, c)
           /\ ConnectLeads(<<>>, c)
  BY DEF Absent, HasConnect, ConnectFirst, ConnectLeads

LEMMA AbsentMeans ==
    ASSUME NEW q, NEW c, Absent(q, c)
    PROVE  \A k \in DOMAIN q : ~ IsConnect(q[k], c) /\ ~ IsData(q[k], c) /\ ~ IsEnd(q[k], c)
  BY DEF Absent, IsConnect, IsData, IsEnd

LEMMA AppendFrame ==
    ASSUME NEW S, NEW q \in Seq(S), NEW f \in S, NEW c
    PROVE  /\ Absent(q, c) /\ f.conn # c => Absent(Append(q, f), c)
           /\ HasConnect(Append(q, f), c) <=> HasConnect(q, c) \/ IsConnect(f, c)
           /\ ConnectFirst(q, c) /\ (IsConnect(f, c) => Absent(q, c))
                => ConnectFirst(Append(q, f), c)
           /\ ConnectLeads(q, c) /\ (f.conn = c => IsConnect(f, c) \/ HasConnect(q, c))
                => ConnectLeads(Append(q, f), c)
  <1>. DEFINE r == Append(q, f)
  <1>1. /\ DOMAIN r = 1 .. Len(q) + 1
        /\ \A k \in DOMAIN q : r[k] = q[k]
        /\ r[Len(q) + 1] = f
        /\ DOMAIN q = 1 .. Len(q) /\ Len(q) \in Nat
    BY AppendFacts
  <1>. HIDE DEF r
  <1>2. \A k \in DOMAIN r :
           \/ k \in DOMAIN q /\ r[k] = q[k]
           \/ k = Len(q) + 1 /\ r[k] = f
    BY <1>1
  <1>3. \A k \in DOMAIN q : k \in DOMAIN r /\ r[k] = q[k]
    BY <1>1
  <1>4. Absent(q, c) /\ f.conn # c => Absent(r, c)
    BY <1>2 DEF Absent
  <1>5. HasConnect(r, c) <=> HasConnect(q, c) \/ IsConnect(f, c)
    <2>1. Len(q) + 1 \in DOMAIN r
      BY <1>1
    <2>. QED
      BY <1>1, <1>2, <1>3, <2>1 DEF HasConnect
  <1>6. ASSUME ConnectFirst(q, c), IsConnect(f, c) => Absent(q, c)
        PROVE  ConnectFirst(r, c)
    <2>1. \A j, k \in DOMAIN r : j < k => j \in DOMAIN q /\ r[j] = q[j]
      BY <1>1
    <2>. QED
      BY <1>2, <1>6, <2>1 DEF ConnectFirst, Absent
  <1>7. ASSUME ConnectLeads(q, c), f.conn = c => IsConnect(f, c) \/ HasConnect(q, c)
        PROVE  ConnectLeads(r, c)
    <2>. SUFFICES ASSUME NEW k \in DOMAIN r, r[k].conn = c
                  PROVE  \E j \in 1 .. k : IsConnect(r[j], c)
      BY DEF ConnectLeads
    <2>1. CASE k \in DOMAIN q
      <3>1. PICK j \in 1 .. k : IsConnect(q[j], c)
        BY <1>3, <1>7, <2>1 DEF ConnectLeads
      <3>2. j \in DOMAIN q
        BY <1>1, <2>1, <3>1
      <3>. QED
        BY <1>3, <3>1, <3>2
    <2>2. CASE k = Len(q) + 1
      <3>1. r[k] = f
        BY <1>1, <2>2
      <3>2. CASE IsConnect(f, c)
        <4>1. k \in 1 .. k
          BY <1>1
        <4>. QED
          BY <3>1, <3>2, <4>1
      <3>3. CASE HasConnect(q, c)
        <4>1. PICK j \in DOMAIN q : IsConnect(q[j], c)
          BY <3>3 DEF HasConnect
        <4>2. j \in 1 .. k
          BY <1>1, <2>2
        <4>. QED
          BY <1>3, <4>1, <4>2
      <3>. QED
        BY <1>7, <3>1, <3>2, <3>3
    <2>. QED
      BY <1>2, <2>1, <2>2
  <1>. QED
    BY <1>4, <1>5, <1>6, <1>7 DEF r

LEMMA TailFrame ==
    ASSUME NEW S, NEW q \in Seq(S), q # <<>>, NEW c
    PROVE  /\ Absent(q, c) => Head(q).conn # c /\ Absent(Tail(q), c)
           /\ HasConnect(q, c) <=> IsConnect(Head(q), c) \/ HasConnect(Tail(q), c)
           /\ ConnectFirst(q, c) => ConnectFirst(Tail(q), c)
           /\ ConnectFirst(q, c) /\ Head(q).conn = c => ~ HasConnect(Tail(q), c)
           /\ ConnectLeads(q, c) /\ Head(q).conn = c => IsConnect(Head(q), c)
           /\ ConnectLeads(q, c) /\ Head(q).conn # c => ConnectLeads(Tail(q), c)
  <1>. DEFINE r == Tail(q)
  <1>1. /\ DOMAIN r = 1 .. Len(q) - 1
        /\ \A k \in DOMAIN r : r[k] = q[k + 1]
        /\ Head(q) = q[1]
        /\ DOMAIN q = 1 .. Len(q) /\ Len(q) \in Nat /\ Len(q) >= 1
    BY TailFacts
  <1>. HIDE DEF r
  <1>2. \A k \in DOMAIN r : k \in Int /\ k + 1 \in DOMAIN q /\ r[k] = q[k + 1] /\ 1 < k + 1
    BY <1>1
  <1>3. \A k \in DOMAIN q : k = 1 \/ (k - 1 \in DOMAIN r /\ r[k - 1] = q[k])
    BY <1>1
  <1>4. 1 \in DOMAIN q
    BY <1>1
  <1>5. Absent(q, c) => q[1].conn # c /\ Absent(r, c)
    BY <1>2, <1>4 DEF Absent
  <1>6. HasConnect(q, c) <=> IsConnect(q[1], c) \/ HasConnect(r, c)
    BY <1>2, <1>3, <1>4 DEF HasConnect
  <1>7. ConnectFirst(q, c) => ConnectFirst(r, c)
    BY <1>2 DEF ConnectFirst
  <1>8. ConnectFirst(q, c) /\ q[1].conn = c => ~ HasConnect(r, c)
    BY <1>2, <1>4 DEF ConnectFirst, HasConnect
  <1>9. ConnectLeads(q, c) /\ q[1].conn = c => IsConnect(q[1], c)
    <2>1. \A j \in 1 .. 1 : j = 1
      OBVIOUS
    <2>. QED
      BY <1>4, <2>1 DEF ConnectLeads
  <1>10. ASSUME ConnectLeads(q, c), q[1].conn # c PROVE ConnectLeads(r, c)
    <2>. SUFFICES ASSUME NEW k \in DOMAIN r, r[k].conn = c
                  PROVE  \E j \in 1 .. k : IsConnect(r[j], c)
      BY DEF ConnectLeads
    <2>1. PICK j \in 1 .. k + 1 : IsConnect(q[j], c)
      BY <1>2, <1>10 DEF ConnectLeads
    <2>2. j # 1
      BY <1>10, <2>1 DEF IsConnect
    <2>3. j - 1 \in 1 .. k /\ j - 1 \in DOMAIN r
      BY <1>1, <2>1, <2>2
    <2>4. r[j - 1] = q[j]
      BY <1>1, <2>3
    <2>. QED
      BY <2>1, <2>3, <2>4
  <1>. QED
    BY <1>1, <1>5, <1>6, <1>7, <1>8, <1>9, <1>10 DEF r

LEMMA CutFrame ==
    ASSUME NEW S, NEW q \in Seq(S), NEW m \in 0 .. Len(q), NEW c
    PROVE  /\ Absent(q, c) => Absent(SubSeq(q, 1, m), c)
           /\ HasConnect(SubSeq(q, 1, m), c) => HasConnect(q, c)
           /\ ConnectFirst(q, c) => ConnectFirst(SubSeq(q, 1, m), c)
           /\ ConnectLeads(q, c) => ConnectLeads(SubSeq(q, 1, m), c)
  <1>. DEFINE r == SubSeq(q, 1, m)
  <1>1. /\ DOMAIN r = 1 .. m
        /\ \A k \in DOMAIN r : r[k] = q[k]
        /\ DOMAIN q = 1 .. Len(q) /\ Len(q) \in Nat
    BY CutFacts
  <1>. HIDE DEF r
  <1>2. \A k \in DOMAIN r : k \in DOMAIN q /\ r[k] = q[k] /\ 1 .. k \subseteq DOMAIN r
    BY <1>1
  <1>3. Absent(q, c) => Absent(r, c)
    BY <1>2 DEF Absent
  <1>4. HasConnect(r, c) => HasConnect(q, c)
    BY <1>2 DEF HasConnect
  <1>5. ConnectFirst(q, c) => ConnectFirst(r, c)
    BY <1>2 DEF ConnectFirst
  <1>6. ConnectLeads(q, c) => ConnectLeads(r, c)
    BY <1>2 DEF ConnectLeads
  <1>. QED
    BY <1>3, <1>4, <1>5, <1>6 DEF r
-----------------------------------------------------------------------------
(* Frames, maps and ids *)

LEMMA FrameOf ==
    ASSUME RoutingInv, NEW f \in RightFrame
    PROVE  /\ f.cmd \in TcpCmds => /\ f.conn \in Conns
                                   /\ ids[f.conn] # 0
                                   /\ f.channel = ids[f.conn]
                                   /\ f.channel \in 0 .. MaxId
           /\ f.cmd \in CtlCmds => \A c \in Conns : f.conn # c
  <1>1. f \in Frame
    BY DEF RightFrame
  <1>2. f.channel \in 0 .. MaxId
    BY <1>1, FrameLemma
  <1>3. f.cmd \in CtlCmds => f.conn = NoConn
    BY <1>1 DEF Frame, TcpCmds, CtlCmds
  <1>4. f.cmd \in TcpCmds => f.conn \in Conns /\ ids[f.conn] # 0 /\ f.channel = ids[f.conn]
    <2>1. ids \in [Conns -> 0 .. MaxId]
      BY DEF RoutingInv, TypeOK, ClientTypeOK
    <2>. QED
      BY <2>1, RightFrameLemma DEF RoutingInv
  <1>. QED
    BY <1>2, <1>3, <1>4, SsnetAssumption

\* A frame says something of its own connection only.
LEMMA OtherFrame ==
    ASSUME NEW f, NEW c, f.conn # c
    PROVE  ~ IsConnect(f, c) /\ ~ IsData(f, c) /\ ~ IsEnd(f, c)
  BY DEF IsConnect, IsData, IsEnd

LEMMA OwnFrame ==
    ASSUME NEW f, NEW c
    PROVE  /\ f.cmd = "CONNECT" => ~ IsData(f, c) /\ ~ IsEnd(f, c)
           /\ f.cmd = "DATA" => ~ IsConnect(f, c) /\ ~ IsEnd(f, c)
           /\ f.cmd \in {"EOF", "STOP"} => ~ IsConnect(f, c) /\ ~ IsData(f, c)
           /\ f.conn = c /\ f.cmd = "CONNECT" => IsConnect(f, c)
           /\ f.conn = c /\ f.cmd = "DATA" => IsData(f, c)
           /\ f.conn = c /\ f.cmd \in {"EOF", "STOP"} => IsEnd(f, c)
  BY DEF IsConnect, IsData, IsEnd

\* The frames a task of c sends.
LEMMA SentFrame ==
    ASSUME NEW i, NEW cmd, NEW d, NEW n
    PROVE  /\ TcpFrame(i, cmd, d, n).conn = d
           /\ TcpFrame(i, cmd, d, n).cmd = cmd
           /\ TcpFrame(i, cmd, d, n).n = n
           /\ TcpFrame(i, cmd, d, n).channel = i
  BY DEF TcpFrame

\* As long as ids are distinct, a channel is its own connection's or nobody's.
LEMMA MapsOwn ==
    ASSUME RoutingInv, IdsDistinct, NEW c \in Conns
    PROVE  /\ \A d \in Conns : ids[c] # 0 /\ ids[c] = ids[d] => c = d
           /\ ids[c] \in 0 .. MaxId
           /\ ids[c] # 0 => tcp_chans[ids[c]] \in {c, NoConn} /\ channels[ids[c]] \in {c, NoConn}
           /\ \A i \in 0 .. MaxId : tcp_chans[i] = c \/ channels[i] = c => i = ids[c] /\ i # 0
           /\ c # NoConn
  <1>1. ids[c] \in 0 .. MaxId
    BY DEF RoutingInv, TypeOK, ClientTypeOK
  <1>2. tcp_chans[ids[c]] \in ConnOrNone /\ channels[ids[c]] \in ConnOrNone
    BY <1>1 DEF RoutingInv, TypeOK, ClientTypeOK, ServerTypeOK
  <1>3. c # NoConn
    BY SsnetAssumption
  <1>4. \A i \in 0 .. MaxId : tcp_chans[i] = c \/ channels[i] = c => i = ids[c] /\ i # 0
    BY <1>3 DEF RoutingInv, RightMaps
  <1>5. ids[c] # 0 => tcp_chans[ids[c]] \in {c, NoConn} /\ channels[ids[c]] \in {c, NoConn}
    BY <1>1, <1>2 DEF RoutingInv, RightMaps, IdsDistinct, ConnOrNone
  <1>. QED
    BY <1>1, <1>3, <1>4, <1>5 DEF IdsDistinct

\* An id never changes once it is given, so ids that are distinct have been so.
LEMMA IdsStay ==
    ASSUME RoutingInv, [Next]_vars
    PROVE  /\ \A c \in Conns : ids[c] # 0 => ids'[c] = ids[c]
           /\ IdsDistinct' => IdsDistinct
  <1>1. ASSUME NEW l \in Loops, NEW d \in Conns, AcceptConn(l, d)
        PROVE  \A c \in Conns : ids[c] # 0 => ids'[c] = ids[c]
    BY <1>1 DEF AcceptConn, RoutingInv, TypeOK, ClientTypeOK
  <1>2. ASSUME ~ \E l \in Loops, d \in Conns : AcceptConn(l, d)
        PROVE  UNCHANGED ids
    <2>1. CASE ClientOnly(ClientLocal)
      BY <1>2, <2>1
      DEF ClientOnly, ClientLocal, InsertChannel, DnsTakesId, SendConnect, ConnectNotSent, AReadData,
          AReadEnd, ASendEof, BWrite, BWriteFail, BEnd, RemoveChannel, allocVars
    <2>2. CASE ClientWithPipe(ClientPipe)
      BY <2>2
      DEF ClientWithPipe, ClientPipe, DemuxStep, ClientWriter, ClientWriterFail, DemuxPing,
          DemuxData, DemuxDeliver, DemuxClose, DemuxIgnore, DemuxEof, allocVars
    <2>3. CASE ServerOnly(ServerLocal) \/ ServerWithPipe(ServerPipe) \/ LoseLink \/ UNCHANGED vars
      BY <2>3 DEF ServerOnly, ServerWithPipe, LoseLink, vars, clientVars, allocVars
    <2>. QED
      BY <2>1, <2>2, <2>3 DEF Next
  <1>3. \A c \in Conns : ids[c] # 0 => ids'[c] = ids[c]
    BY <1>1, <1>2
  <1>4. IdsDistinct' => IdsDistinct
    BY <1>3 DEF IdsDistinct
  <1>. QED
    BY <1>3, <1>4
-----------------------------------------------------------------------------
(* Steps: what both sides of the tunnel share *)

LEMMA WritersStep ==
    ASSUME RoutingInv, LifeInv, [Next]_vars
    PROVE  DeadWriters'
  <1>. USE DEF LifeInv, DeadWriters
  <1>1. CASE ClientOnly(ClientLocal)
    <2>1. link' = link /\ writer' = writer /\ srv_writer' = srv_writer
      BY <1>1
      DEF ClientOnly, linkVars, serverVars, srvOutVars, ClientLocal, AcceptConn, DnsTakesId, InsertChannel,
          SendConnect, ConnectNotSent, AReadData, AReadEnd, ASendEof, BWrite, BWriteFail, BEnd,
          RemoveChannel, SendOut, SendOutFails, outVars
    <2>. QED
      BY <2>1
  <1>2. CASE ClientWithPipe(ClientPipe)
    <2>1. link' = link /\ srv_writer' = srv_writer /\ (writer' = writer \/ link = "down")
      BY <1>2
      DEF ClientWithPipe, linkVars, serverVars, srvOutVars, ClientPipe, DemuxStep, ClientWriter,
          ClientWriterFail, DemuxPing, DemuxData, DemuxDeliver, DemuxClose, DemuxIgnore, DemuxEof,
          DemuxReads, SendOut, SendOutFails, outVars
    <2>. QED
      BY <2>1
  <1>3. CASE ServerOnly(ServerLocal)
    <2>1. link' = link /\ writer' = writer /\ srv_writer' = srv_writer
      BY <1>3
      DEF ServerOnly, linkVars, clientVars, outVars, ServerLocal, ConnectOk, ConnectFails, SendStop,
          FailRemove, WWrite, WFail, WEnd, RReadData, RReadEnd, RSendEof, TaskRemove, SrvSend,
          SrvSendFails, srvOutVars
    <2>. QED
      BY <2>1
  <1>4. CASE ServerWithPipe(ServerPipe)
    <2>1. link' = link /\ writer' = writer /\ (srv_writer' = srv_writer \/ link = "down")
      BY <1>4
      DEF ServerWithPipe, linkVars, clientVars, outVars, ServerPipe, LoopStep, SConnect, SData,
          SDeliver, SClose, SPong, SStdinEof, SExit, LoopReads, ServerWriter, ServerWriterFail,
          srvOutVars
    <2>. QED
      BY <2>1
  <1>5. CASE LoseLink \/ UNCHANGED vars
    BY <1>5 DEF LoseLink, LinkDown, vars, linkVars, clientVars, serverVars, outVars, srvOutVars
  <1>. QED
    BY <1>1, <1>2, <1>3, <1>4, <1>5 DEF Next

LEMMA AcceptorsStep ==
    ASSUME RoutingInv, LifeInv, [Next]_vars
    PROVE  AcceptorsApart'
  <1>. USE SsnetAssumption
       DEF LifeInv, AcceptorsApart, RoutingInv, TypeOK, ClientTypeOK, ConnOrNone
  <1>1. ASSUME UNCHANGED <<acceptor, conn_pc>> PROVE AcceptorsApart'
    BY <1>1
  <1>2. ASSUME NEW l \in Loops, NEW c \in Conns, AcceptConn(l, c) PROVE AcceptorsApart'
    <2>1. conn_pc[c] = "new" /\ \A m \in Loops : acceptor[m] # c
      BY <1>2 DEF AcceptConn, RightTasks
    <2>. QED
      BY <1>2, <2>1 DEF AcceptConn
  <1>3. ASSUME NEW l \in Loops, InsertChannel(l) PROVE AcceptorsApart'
    BY <1>3 DEF InsertChannel
  <1>4. ASSUME NEW c \in Conns, SendConnect(c) \/ ConnectNotSent(c) \/ RemoveChannel(c)
        PROVE  AcceptorsApart'
    <2>1. acceptor' = acceptor /\ conn_pc[c] # "new" /\ \A d \in Conns : d # c => conn_pc'[d] = conn_pc[d]
      BY <1>4 DEF SendConnect, ConnectNotSent, RemoveChannel, allocVars
    <2>. QED
      BY <2>1
  <1>5. CASE ClientOnly(ClientLocal)
    <2>1. \/ UNCHANGED <<acceptor, conn_pc>>
          \/ \E l \in Loops, c \in Conns : AcceptConn(l, c)
          \/ \E l \in Loops : InsertChannel(l)
          \/ \E c \in Conns : SendConnect(c) \/ ConnectNotSent(c) \/ RemoveChannel(c)
      BY ONLY <1>5
      DEF ClientOnly, ClientLocal, DnsTakesId, AReadData, AReadEnd, ASendEof, BWrite, BWriteFail,
          BEnd, allocVars
    <2>. QED
      BY <2>1, <1>1, <1>2, <1>3, <1>4
  <1>6. CASE ClientWithPipe(ClientPipe)
    <2>1. UNCHANGED <<acceptor, conn_pc>>
      BY ONLY <1>6
      DEF ClientWithPipe, ClientPipe, DemuxStep, ClientWriter, ClientWriterFail, DemuxPing,
          DemuxData, DemuxDeliver, DemuxClose, DemuxIgnore, DemuxEof, allocVars
    <2>. QED
      BY <2>1, <1>1
  <1>7. CASE ServerOnly(ServerLocal) \/ ServerWithPipe(ServerPipe) \/ LoseLink \/ UNCHANGED vars
    <2>1. UNCHANGED <<acceptor, conn_pc>>
      BY ONLY <1>7 DEF ServerOnly, ServerWithPipe, LoseLink, vars, clientVars, allocVars
    <2>. QED
      BY <2>1, <1>1
  <1>. QED
    BY <1>5, <1>6, <1>7 DEF Next

LEMMA HeldStep ==
    ASSUME RoutingInv, LifeInv, [Next]_vars
    PROVE  HeldIsOpen'
  <1>. USE DEF LifeInv, HeldIsOpen
  <1>1. CASE ClientOnly(ClientLocal)
    <2>1. UNCHANGED <<loop_held, tcp_chans, demux_held>>
      BY ONLY <1>1
      DEF ClientOnly, serverVars, loopVars, ClientLocal, AcceptConn, DnsTakesId, InsertChannel, SendConnect,
          ConnectNotSent, AReadData, AReadEnd, ASendEof, BWrite, BWriteFail, BEnd, RemoveChannel,
          demuxVars
    <2>2. channels' = channels \/ demux_held = <<>>
      BY ONLY <1>1
      DEF ClientOnly, ClientLocal, AcceptConn, DnsTakesId, InsertChannel, SendConnect, ConnectNotSent,
          AReadData, AReadEnd, ASendEof, BWrite, BWriteFail, BEnd, RemoveChannel, ChannelsUnlocked
    <2>. QED
      BY <2>1, <2>2
  <1>2. CASE ClientWithPipe(ClientPipe)
    <2>1. UNCHANGED <<loop_held, tcp_chans>>
      BY ONLY <1>2 DEF ClientWithPipe, serverVars, loopVars
    <2>2. \/ UNCHANGED <<demux_held, channels>>
          \/ demux_held' = <<>>
          \/ UNCHANGED channels /\ \E f \in {Head(s2c)} : demux_held' = <<f>> /\ channels[f.channel] # NoConn
      BY ONLY <1>2
      DEF ClientWithPipe, ClientPipe, DemuxStep, ClientWriter, ClientWriterFail, DemuxPing,
          DemuxData, DemuxDeliver, DemuxClose, DemuxIgnore, DemuxEof, DemuxReads, demuxVars
    <2>. QED
      BY <2>1, <2>2
  <1>3. CASE ServerOnly(ServerLocal)
    <2>1. UNCHANGED <<demux_held, channels, loop_held>>
      BY ONLY <1>3
      DEF ServerOnly, clientVars, demuxVars, ServerLocal, ConnectOk, ConnectFails, SendStop,
          FailRemove, WWrite, WFail, WEnd, RReadData, RReadEnd, RSendEof, TaskRemove, loopVars
    <2>2. tcp_chans' = tcp_chans \/ loop_held = <<>>
      BY ONLY <1>3
      DEF ServerOnly, ServerLocal, ConnectOk, ConnectFails, SendStop, FailRemove, WWrite, WFail,
          WEnd, RReadData, RReadEnd, RSendEof, TaskRemove, TcpChansUnlocked
    <2>. QED
      BY <2>1, <2>2
  <1>4. CASE ServerWithPipe(ServerPipe)
    <2>1. UNCHANGED <<demux_held, channels>>
      BY ONLY <1>4 DEF ServerWithPipe, clientVars, demuxVars
    <2>2. \/ UNCHANGED <<loop_held, tcp_chans>>
          \/ loop_held' = <<>>
          \/ UNCHANGED tcp_chans /\ \E f \in {Head(c2s)} : loop_held' = <<f>> /\ tcp_chans[f.channel] # NoConn
      BY ONLY <1>4
      DEF ServerWithPipe, ServerPipe, LoopStep, SConnect, SData, SDeliver, SClose, SPong, SStdinEof,
          SExit, LoopReads, ServerWriter, ServerWriterFail, loopVars
    <2>. QED
      BY <2>1, <2>2
  <1>5. CASE LoseLink \/ UNCHANGED vars
    BY <1>5 DEF LoseLink, vars, clientVars, serverVars, loopVars, demuxVars
  <1>. QED
    BY <1>1, <1>2, <1>3, <1>4, <1>5 DEF Next
-----------------------------------------------------------------------------
(* Steps: the life of a connection on the client *)

LEMMA ClientTypes ==
    ASSUME RoutingInv
    PROVE  /\ ids \in [Conns -> 0 .. MaxId]
           /\ channels \in [0 .. MaxId -> ConnOrNone]
           /\ acceptor \in [Loops -> ConnOrNone]
           /\ conn_pc \in [Conns -> {"new", "opening", "open", "done", "failed"}]
           /\ a_task \in [Conns -> {"idle", "run", "eof", "done"}]
           /\ b_task \in [Conns -> {"idle", "run", "done"}]
           /\ app_eof \in [Conns -> BOOLEAN]
  BY DEF RoutingInv, TypeOK, ClientTypeOK

LEMMA ServerTypes ==
    ASSUME RoutingInv
    PROVE  /\ tcp_chans \in [0 .. MaxId -> ConnOrNone]
           /\ task_pc \in [Conns -> {"none", "connecting", "failed", "removing", "relay", "done"}]
           /\ w_task \in [Conns -> {"idle", "run", "done"}]
           /\ r_task \in [Conns -> {"idle", "run", "eof", "done"}]
           /\ tgt_eof \in [Conns -> BOOLEAN]
           /\ \A c \in Conns : task_pc[c] # "none" => task_ch[c] = ids[c] /\ ids[c] # 0
  BY DEF RoutingInv, TypeOK, ServerTypeOK, RightTasks

LEMMA QueueTypes ==
    ASSUME RoutingInv
    PROVE  /\ out_tx \in Seq(RightFrame) /\ c2s \in Seq(RightFrame) /\ loop_held \in Seq(RightFrame)
           /\ srv_out \in Seq(RightFrame) /\ s2c \in Seq(RightFrame) /\ demux_held \in Seq(RightFrame)
  BY DEF RoutingInv, RightFrames

\* A send by another connection leaves the queue without frames of c.
LEMMA SendAbsent ==
    ASSUME RoutingInv, NEW f \in RightFrame, SendOut(f) \/ SendOutFails,
           NEW c, f.conn # c, Absent(out_tx, c)
    PROVE  Absent(out_tx', c)
  <1>1. CASE out_tx' = Append(out_tx, f)
    <2>1. Absent(Append(out_tx, f), c)
      BY QueueTypes, AppendFrame
    <2>. QED
      BY <1>1, <2>1
  <1>2. CASE out_tx' = out_tx
    BY <1>2
  <1>. QED
    BY <1>1, <1>2 DEF SendOut, SendOutFails, outVars

\* The frames that the client's tasks build.
LEMMA ClientFrames ==
    ASSUME RoutingInv, NEW d \in Conns, ids[d] # 0
    PROVE  /\ TcpFrame(ChannelOf(d), "CONNECT", d, 0) \in RightFrame
           /\ TcpFrame(ChannelOf(d), "EOF", d, 0) \in RightFrame
           /\ TcpFrame(ChannelOf(d), "DATA", d, app_sent[d] + 1) \in RightFrame
  <1>1. app_sent[d] + 1 \in Nat /\ 0 \in Nat
    BY TunnelAssumption DEF RoutingInv, TypeOK, ClientTypeOK
  <1>2. {"CONNECT", "EOF", "DATA"} \subseteq TcpCmds
    BY DEF TcpCmds
  <1>. QED
    BY <1>1, <1>2, RightFrameLemma DEF RoutingInv, ChannelOf

LEMMA ServerFrames ==
    ASSUME RoutingInv, NEW d \in Conns, task_pc[d] # "none"
    PROVE  /\ TcpFrame(task_ch[d], "STOP", d, 0) \in RightFrame
           /\ TcpFrame(task_ch[d], "EOF", d, 0) \in RightFrame
           /\ TcpFrame(task_ch[d], "DATA", d, tgt_sent[d] + 1) \in RightFrame
  <1>1. tgt_sent[d] + 1 \in Nat /\ 0 \in Nat
    BY TunnelAssumption DEF RoutingInv, TypeOK, ServerTypeOK
  <1>2. {"STOP", "EOF", "DATA"} \subseteq TcpCmds
    BY DEF TcpCmds
  <1>. QED
    BY <1>1, <1>2, ServerTypes, RightFrameLemma DEF RoutingInv

LEMMA ConnLifeClient ==
    ASSUME RoutingInv, IdsDistinct, LifeInv, ClientOnly(ClientLocal), NEW c \in Conns
    PROVE  ConnLife(c)'
  <1>0. ConnLife(c) /\ AcceptorsApart
    BY DEF LifeInv
  <1>a. UNCHANGED <<c2s, task_pc>>
    BY DEF ClientOnly, linkVars, serverVars, taskVars
  <1>b. Absent(c2s, c) => Absent(c2s, c)'
    BY <1>a DEF Absent
  <1>c. \A d \in Conns : ids[d] # 0 /\ ids[c] = ids[d] => c = d
    BY MapsOwn
  <1>1. ASSUME NEW l \in Loops, NEW d \in Conns, AcceptConn(l, d) PROVE ConnLife(c)'
    <2>1. UNCHANGED <<channels, conn_pc, a_task, b_task, out_tx, app_eof>>
      BY <1>1 DEF AcceptConn, outVars, appVars
    <2>2. conn_pc[c] = "opening" => ids'[c] = ids[c]
      BY <1>1, ClientTypes DEF AcceptConn, RoutingInv, RightTasks
    <2>. QED
      BY <1>0, <1>a, <2>1, <2>2 DEF ConnLife, Absent, DownLive
  <1>2. ASSUME NEW l \in Loops, InsertChannel(l) PROVE ConnLife(c)'
    <2>. DEFINE d == acceptor[l]
    <2>1. d \in Conns /\ conn_pc[d] = "new" /\ ids[d] # 0
      BY <1>0, <1>2, ClientTypes DEF InsertChannel, AcceptorsApart, RoutingInv, RightTasks, ConnOrNone
    <2>2. UNCHANGED <<ids, a_task, b_task, out_tx, app_eof>>
      BY <1>2 DEF InsertChannel, outVars, appVars
    <2>3. /\ channels' = [channels EXCEPT ![ids[d]] = d]
          /\ conn_pc' = [conn_pc EXCEPT ![d] = "opening"]
      BY <1>2 DEF InsertChannel
    <2>4. channels'[ids[d]] = d /\ (c # d => channels'[ids[c]] = channels[ids[c]])
      BY <1>c, <2>1, <2>3, ClientTypes
    <2>5. conn_pc'[d] = "opening" /\ (c # d => conn_pc'[c] = conn_pc[c])
      BY <2>1, <2>3, ClientTypes
    <2>6. CASE c = d
      <3>. HIDE DEF d
      <3>. QED
        BY <1>0, <1>a, <2>1, <2>2, <2>4, <2>5, <2>6 DEF ConnLife, Absent, DownLive
    <2>7. CASE c # d
      <3>. HIDE DEF d
      <3>. QED
        BY <1>0, <1>a, <2>2, <2>4, <2>5, <2>7 DEF ConnLife, Absent, DownLive
    <2>. QED
      BY <2>6, <2>7
  <1>3. ASSUME NEW d \in Conns, SendConnect(d) PROVE ConnLife(c)'
    <2>1. ids[d] # 0 /\ conn_pc[d] = "opening"
      BY <1>3 DEF SendConnect, RoutingInv, RightTasks
    <2>2. /\ conn_pc' = [conn_pc EXCEPT ![d] = "open"]
          /\ a_task' = [a_task EXCEPT ![d] = "run"]
          /\ b_task' = [b_task EXCEPT ![d] = "run"]
          /\ UNCHANGED <<ids, channels, app_eof>>
      BY <1>3 DEF SendConnect, allocVars, appVars
    <2>3. CASE c = d
      <3>1. conn_pc'[c] = "open"
        BY <2>2, <2>3, ClientTypes
      <3>. QED
        BY <1>0, <2>1, <2>2, <2>3, <3>1 DEF ConnLife, DownLive
    <2>4. CASE c # d
      <3>1. Absent(out_tx, c) => Absent(out_tx', c)
        BY <1>3, <2>1, <2>4, ClientFrames, SentFrame, SendAbsent DEF SendConnect
      <3>2. conn_pc'[c] = conn_pc[c] /\ a_task'[c] = a_task[c] /\ b_task'[c] = b_task[c]
        BY <2>2, <2>4, ClientTypes
      <3>. QED
        BY <1>0, <1>a, <2>2, <3>1, <3>2 DEF ConnLife, DownLive, Absent
    <2>. QED
      BY <2>3, <2>4
  <1>4. ASSUME NEW d \in Conns, ConnectNotSent(d) PROVE ConnLife(c)'
    <2>1. conn_pc[d] = "opening"
      BY <1>4 DEF ConnectNotSent
    <2>2. /\ conn_pc' = [conn_pc EXCEPT ![d] = "failed"]
          /\ app_eof' = [app_eof EXCEPT ![d] = TRUE]
          /\ UNCHANGED <<ids, channels, a_task, b_task, out_tx>>
      BY <1>4 DEF ConnectNotSent, allocVars, SendOutFails, outVars
    <2>3. c # d => conn_pc'[c] = conn_pc[c] /\ app_eof'[c] = app_eof[c]
      BY <2>2, ClientTypes
    <2>4. c = d => conn_pc'[c] = "failed"
      BY <2>2, ClientTypes
    <2>. QED
      BY <1>0, <1>a, <2>1, <2>2, <2>3, <2>4 DEF ConnLife, DownLive, Absent
  <1>5. ASSUME NEW d \in Conns, AReadData(d) \/ AReadEnd(d) \/ ASendEof(d) PROVE ConnLife(c)'
    <2>1. a_task[d] # "idle"
      BY <1>5 DEF AReadData, AReadEnd, ASendEof
    <2>2. ids[d] # 0
      BY <2>1 DEF RoutingInv, RightTasks
    <2>3. UNCHANGED <<ids, channels, conn_pc, b_task, app_eof>>
      BY <1>5 DEF AReadData, AReadEnd, ASendEof, allocVars, appVars
    <2>4. c # d => a_task'[c] = a_task[c]
      BY <1>5, ClientTypes DEF AReadData, AReadEnd, ASendEof
    <2>5. CASE c # d
      <3>1. Absent(out_tx, c) => Absent(out_tx', c)
        <4>1. CASE AReadData(d)
          BY <4>1, <2>2, <2>5, ClientFrames, SentFrame, SendAbsent DEF AReadData
        <4>2. CASE AReadEnd(d)
          BY <4>2 DEF AReadEnd, outVars
        <4>3. CASE ASendEof(d)
          BY <4>3, <2>2, <2>5, ClientFrames, SentFrame, SendAbsent DEF ASendEof
        <4>. QED
          BY <1>5, <4>1, <4>2, <4>3
      <3>. QED
        BY <1>0, <1>a, <2>3, <2>4, <2>5, <3>1 DEF ConnLife, DownLive, Absent
    <2>6. CASE c = d
      BY <1>0, <2>1, <2>3, <2>6 DEF ConnLife, DownLive
    <2>. QED
      BY <2>5, <2>6
  <1>6. ASSUME NEW d \in Conns, BWrite(d) PROVE ConnLife(c)'
    <2>1. UNCHANGED <<ids, channels, conn_pc, a_task, b_task, out_tx, app_eof>>
      BY <1>6 DEF BWrite, allocVars, outVars
    <2>. QED
      BY <1>0, <1>a, <2>1 DEF ConnLife, DownLive, Absent
  <1>7. ASSUME NEW d \in Conns, BWriteFail(d) \/ BEnd(d) PROVE ConnLife(c)'
    <2>1. UNCHANGED <<ids, channels, conn_pc, a_task, out_tx>> /\ b_task[d] = "run"
      BY <1>7 DEF BWriteFail, BEnd, allocVars, outVars
    <2>2. b_task' = [b_task EXCEPT ![d] = "done"]
      BY <1>7 DEF BWriteFail, BEnd
    <2>3. c # d => app_eof'[c] = app_eof[c] /\ b_task'[c] = b_task[c]
      BY <1>7, <2>2, ClientTypes DEF BWriteFail, BEnd, appVars
    <2>4. c = d => b_task'[c] = "done"
      BY <2>2, ClientTypes
    <2>. QED
      BY <1>0, <1>a, <2>1, <2>3, <2>4 DEF ConnLife, DownLive, Absent
  <1>8. ASSUME NEW d \in Conns, RemoveChannel(d) PROVE ConnLife(c)'
    <2>1. conn_pc[d] = "open" /\ b_task[d] = "done" /\ ids[d] # 0
      BY <1>8 DEF RemoveChannel, RoutingInv, RightTasks
    <2>2. /\ channels' = [channels EXCEPT ![ids[d]] = NoConn]
          /\ conn_pc' = [conn_pc EXCEPT ![d] = "done"]
          /\ UNCHANGED <<ids, a_task, b_task, out_tx, app_eof>>
      BY <1>8 DEF RemoveChannel, allocVars, outVars, appVars
    <2>3. c # d => channels'[ids[c]] = channels[ids[c]] /\ conn_pc'[c] = conn_pc[c]
      BY <1>c, <2>1, <2>2, ClientTypes
    <2>4. c = d => conn_pc'[c] = "done"
      BY <2>2, ClientTypes
    <2>. QED
      BY <1>0, <1>a, <2>1, <2>2, <2>3, <2>4 DEF ConnLife, DownLive, Absent
  <1>9. ASSUME DnsTakesId PROVE ConnLife(c)'
    <2>1. UNCHANGED <<ids, channels, conn_pc, a_task, b_task, out_tx, app_eof>>
      BY <1>9 DEF DnsTakesId, outVars, appVars
    <2>. QED
      BY <1>0, <1>a, <2>1 DEF ConnLife, Absent, DownLive
  <1>. QED
    BY <1>1, <1>2, <1>3, <1>4, <1>5, <1>6, <1>7, <1>8, <1>9 DEF ClientOnly, ClientLocal

\* What a PING is answered with is no frame of a connection.
LEMMA PongFrame ==
    ASSUME RoutingInv, s2c # <<>>, Head(s2c).cmd \in {"PING"}
    PROVE  /\ [Head(s2c) EXCEPT !.cmd = "PONG"] \in RightFrame
           /\ \A c \in Conns : [Head(s2c) EXCEPT !.cmd = "PONG"].conn # c
  <1>1. Head(s2c) \in RightFrame
    BY QueueTypes, HeadLemma
  <1>2. [Head(s2c) EXCEPT !.cmd = "PONG"] \in RightFrame
    BY <1>1, RightFrameLemma DEF RoutingInv
  <1>3. [Head(s2c) EXCEPT !.cmd = "PONG"].cmd = "PONG"
    BY <1>1 DEF RightFrame, Frame
  <1>. QED
    BY <1>2, <1>3, FrameOf DEF CtlCmds

LEMMA ConnLifeClientPipe ==
    ASSUME RoutingInv, IdsDistinct, LifeInv, ClientWithPipe(ClientPipe), NEW c \in Conns
    PROVE  ConnLife(c)'
  <1>0. ConnLife(c) /\ TaskLife(c)
    BY DEF LifeInv
  <1>a. UNCHANGED <<task_pc, ids, conn_pc, a_task, b_task, app_eof>>
    BY DEF ClientWithPipe, serverVars, taskVars, allocVars, appVars, ClientPipe, DemuxStep,
           ClientWriter, ClientWriterFail, DemuxPing, DemuxData, DemuxDeliver, DemuxClose,
           DemuxIgnore, DemuxEof
  <1>1. ASSUME UNCHANGED channels,
               Absent(out_tx, c) /\ Absent(c2s, c) => Absent(out_tx', c) /\ Absent(c2s', c)
        PROVE  ConnLife(c)'
    BY <1>0, <1>1, <1>a DEF ConnLife, DownLive, Absent
  <1>2. CASE ClientWriter
    <2>1. out_tx \in Seq(RightFrame) /\ c2s \in Seq(RightFrame) /\ Head(out_tx) \in RightFrame
      BY <1>2, QueueTypes, HeadLemma DEF ClientWriter
    <2>2. Absent(out_tx, c) => Head(out_tx).conn # c /\ Absent(Tail(out_tx), c)
      BY <1>2, <2>1, TailFrame DEF ClientWriter
    <2>3. Absent(c2s, c) /\ Head(out_tx).conn # c => Absent(Append(c2s, Head(out_tx)), c)
      BY <2>1, AppendFrame
    <2>. QED
      BY <1>1, <1>2, <2>2, <2>3 DEF ClientWriter
  <1>3. CASE ClientWriterFail
    BY <1>1, <1>3, NothingAbsent DEF ClientWriterFail, linkVars
  <1>4. CASE DemuxPing
    <2>1. Absent(out_tx, c) => Absent(out_tx', c)
      BY <1>4, PongFrame, SendAbsent DEF DemuxPing, DemuxReads
    <2>. QED
      BY <1>1, <1>4, <2>1 DEF DemuxPing, DemuxReads
  <1>5. CASE DemuxClose
    <2>. DEFINE f == Head(s2c)
    <2>1. f \in RightFrame /\ f.cmd \in {"EOF", "STOP"} /\ s2c # <<>>
      BY <1>5, QueueTypes, HeadLemma DEF DemuxClose, DemuxReads
    <2>2. f.conn \in Conns /\ ids[f.conn] # 0 /\ f.channel = ids[f.conn]
      BY <2>1, FrameOf DEF TcpCmds
    <2>3. conn_pc[c] = "opening" => f.conn # c
      BY <1>0, <2>1, QueueTypes, TailFrame DEF ConnLife, TaskLife
    <2>4. channels' = [channels EXCEPT ![f.channel] = NoConn]
      BY <1>5 DEF DemuxClose
    <2>5. UNCHANGED <<c2s, out_tx>>
      BY <1>5 DEF DemuxClose, DemuxReads, outVars
    <2>6. conn_pc[c] = "opening" => channels'[ids[c]] = channels[ids[c]]
      BY <2>2, <2>3, <2>4, MapsOwn, ClientTypes
    <2>. HIDE DEF f
    <2>. QED
      BY <1>0, <1>a, <2>5, <2>6 DEF ConnLife, DownLive, Absent
  <1>6. CASE DemuxData \/ DemuxDeliver \/ DemuxIgnore \/ DemuxEof
    <2>1. UNCHANGED <<channels, c2s, out_tx>>
      BY <1>6 DEF DemuxData, DemuxDeliver, DemuxIgnore, DemuxEof, DemuxReads, outVars, linkVars
    <2>. QED
      BY <1>1, <2>1
  <1>. QED
    BY <1>2, <1>3, <1>4, <1>5, <1>6 DEF ClientWithPipe, ClientPipe, DemuxStep

\* A task of the server, once started, is not forgotten.
LEMMA TasksStay ==
    ASSUME RoutingInv, ServerOnly(ServerLocal) \/ ServerWithPipe(ServerPipe), NEW c \in Conns
    PROVE  /\ task_pc[c] # "none" => task_pc'[c] # "none"
           /\ task_pc[c] = "none" /\ task_pc'[c] # "none" => SConnect /\ Head(c2s).conn = c
           /\ task_pc[c] = "none" /\ ServerOnly(ServerLocal) => task_pc'[c] = "none"
  <1>1. CASE ServerOnly(ServerLocal)
    <2>1. PICK d \in Conns :
             \/ ConnectOk(d) \/ ConnectFails(d) \/ SendStop(d) \/ FailRemove(d)
             \/ WWrite(d) \/ WFail(d) \/ WEnd(d)
             \/ RReadData(d) \/ RReadEnd(d) \/ RSendEof(d)
             \/ TaskRemove(d)
      BY <1>1 DEF ServerOnly, ServerLocal
    <2>2. \/ UNCHANGED task_pc
          \/ /\ task_pc[d] # "none"
             /\ \E p \in {"failed", "removing", "relay", "done"} :
                  task_pc' = [task_pc EXCEPT ![d] = p]
      BY ONLY <2>1
      DEF ConnectOk, ConnectFails, SendStop, FailRemove, WWrite, WFail, WEnd, RReadData, RReadEnd,
          RSendEof, TaskRemove, taskVars
    <2>. QED
      BY <2>2, ServerTypes
  <1>2. CASE ServerWithPipe(ServerPipe) /\ ~ ServerOnly(ServerLocal)
    <2>1. \/ UNCHANGED task_pc
          \/ SConnect /\ task_pc' = [task_pc EXCEPT ![Head(c2s).conn] = "connecting"]
      BY ONLY <1>2
      DEF ServerWithPipe, ServerPipe, LoopStep, SConnect, SData, SDeliver, SClose, SPong, SStdinEof,
          SExit, ServerWriter, ServerWriterFail, taskVars
    <2>. QED
      BY <1>2, <2>1, ServerTypes
  <1>. QED
    BY <1>1, <1>2

LEMMA ConnLifeServer ==
    ASSUME RoutingInv, LifeInv, NEW c \in Conns,
           ServerOnly(ServerLocal) \/ ServerWithPipe(ServerPipe)
    PROVE  ConnLife(c)'
  <1>0. ConnLife(c)
    BY DEF LifeInv
  <1>1. UNCHANGED <<ids, conn_pc, a_task, b_task, app_eof, channels, out_tx>>
    BY DEF ServerOnly, ServerWithPipe, clientVars, allocVars, appVars, outVars
  <1>2. c2s' = c2s \/ (c2s # <<>> /\ c2s' = Tail(c2s))
    BY DEF ServerOnly, linkVars, ServerWithPipe, ServerPipe, LoopStep, SConnect, SData, SDeliver,
           SClose, SPong, SStdinEof, SExit, LoopReads, ServerWriter, ServerWriterFail
  <1>3. Absent(c2s, c) => Absent(c2s', c) /\ (c2s # <<>> => Head(c2s).conn # c)
    <2>1. c2s \in Seq(RightFrame)
      BY QueueTypes
    <2>2. c2s # <<>> /\ Absent(c2s, c) => Head(c2s).conn # c /\ Absent(Tail(c2s), c)
      BY <2>1, TailFrame
    <2>3. CASE c2s' = c2s
      BY <2>2, <2>3 DEF Absent
    <2>4. CASE c2s # <<>> /\ c2s' = Tail(c2s)
      BY <2>2, <2>4
    <2>. QED
      BY <1>2, <2>3, <2>4
  <1>4. Absent(c2s, c) /\ task_pc[c] = "none" => task_pc'[c] = "none"
    BY <1>3, TasksStay DEF SConnect, LoopReads
  <1>. QED
    BY <1>0, <1>1, <1>3, <1>4 DEF ConnLife, DownLive, Absent

LEMMA ConnLifeStep ==
    ASSUME RoutingInv, IdsDistinct, LifeInv, [Next]_vars, NEW c \in Conns
    PROVE  ConnLife(c)'
  <1>1. CASE LoseLink
    <2>1. UNCHANGED <<ids, conn_pc, a_task, b_task, app_eof, channels, out_tx, task_pc>>
      BY <1>1 DEF LoseLink, clientVars, serverVars, allocVars, appVars, outVars, taskVars
    <2>2. Absent(c2s, c) => Absent(c2s', c)
      BY <1>1, QueueTypes, CutFrame DEF LoseLink, LinkDown
    <2>. QED
      BY <2>1, <2>2 DEF LifeInv, ConnLife, DownLive, Absent
  <1>2. CASE UNCHANGED vars
    BY <1>2
    DEF LifeInv, ConnLife, DownLive, Absent, vars, linkVars, clientVars, serverVars, allocVars,
        appVars, outVars, taskVars
  <1>. QED
    BY <1>1, <1>2, ConnLifeClient, ConnLifeClientPipe, ConnLifeServer DEF Next
-----------------------------------------------------------------------------
(* Steps: the life of a connection on the server *)

LEMMA SrvSendAbsent ==
    ASSUME RoutingInv, NEW f \in RightFrame, SrvSend(f) \/ SrvSendFails,
           NEW c, f.conn # c, Absent(srv_out, c)
    PROVE  Absent(srv_out', c)
  <1>1. CASE srv_out' = Append(srv_out, f)
    <2>1. Absent(Append(srv_out, f), c)
      BY QueueTypes, AppendFrame
    <2>. QED
      BY <1>1, <2>1
  <1>2. CASE srv_out' = srv_out
    BY <1>2
  <1>. QED
    BY <1>1, <1>2 DEF SrvSend, SrvSendFails, srvOutVars

LEMMA TaskLifeClient ==
    ASSUME RoutingInv, LifeInv, NEW c \in Conns,
           ClientOnly(ClientLocal) \/ ClientWithPipe(ClientPipe)
    PROVE  TaskLife(c)'
  <1>0. TaskLife(c)
    BY DEF LifeInv
  <1>1. UNCHANGED <<task_pc, srv_out, tcp_chans, w_task, r_task, srv_loop, tgt_eof>>
    BY DEF ClientOnly, ClientWithPipe, serverVars, taskVars, srvOutVars, loopVars, tgtVars
  <1>2. \/ UNCHANGED <<s2c, demux_held>>
        \/ s2c # <<>> /\ s2c' = Tail(s2c) /\ demux_held' \in {demux_held, <<>>, <<Head(s2c)>>}
        \/ UNCHANGED s2c /\ demux_held' = <<>>
    <2>1. CASE ClientOnly(ClientLocal)
      BY ONLY <2>1
      DEF ClientOnly, linkVars, ClientLocal, AcceptConn, DnsTakesId, InsertChannel, SendConnect,
          ConnectNotSent, AReadData, AReadEnd, ASendEof, BWrite, BWriteFail, BEnd, RemoveChannel,
          demuxVars
    <2>2. CASE ClientWithPipe(ClientPipe)
      BY ONLY <2>2
      DEF ClientWithPipe, ClientPipe, DemuxStep, ClientWriter, ClientWriterFail, DemuxPing,
          DemuxData, DemuxDeliver, DemuxClose, DemuxIgnore, DemuxEof, DemuxReads, demuxVars, linkVars
    <2>. QED
      BY <2>1, <2>2
  <1>3. Absent(s2c, c) /\ Absent(demux_held, c) => Absent(s2c', c) /\ Absent(demux_held', c)
    <2>1. s2c \in Seq(RightFrame)
      BY QueueTypes
    <2>2. s2c # <<>> /\ Absent(s2c, c) => Head(s2c).conn # c /\ Absent(Tail(s2c), c)
      BY <2>1, TailFrame
    <2>3. Absent(<<>>, c) /\ (Head(s2c).conn # c => Absent(<<Head(s2c)>>, c))
      BY DEF Absent
    <2>. QED
      BY <1>2, <2>2, <2>3
  <1>. QED
    BY <1>0, <1>1, <1>3 DEF TaskLife, UpLive, Running, Absent

\* What the steps of d's own task change.
LEMMA TaskLifeLocal ==
    ASSUME RoutingInv, LifeInv, ServerOnly(ServerLocal), NEW c \in Conns
    PROVE  TaskLife(c)'
  <1>0. TaskLife(c) /\ \A d \in Conns : TaskLife(d)
    BY DEF LifeInv
  <1>1. PICK d \in Conns :
           \/ ConnectOk(d) \/ ConnectFails(d) \/ SendStop(d) \/ FailRemove(d)
           \/ WWrite(d) \/ WFail(d) \/ WEnd(d)
           \/ RReadData(d) \/ RReadEnd(d) \/ RSendEof(d)
           \/ TaskRemove(d)
    BY DEF ServerOnly, ServerLocal
  <1>2. UNCHANGED <<s2c, demux_held, srv_loop>>
    BY <1>1
    DEF ServerOnly, linkVars, clientVars, demuxVars, loopVars, ConnectOk, ConnectFails, SendStop,
        FailRemove, WWrite, WFail, WEnd, RReadData, RReadEnd, RSendEof, TaskRemove
  <1>3. task_pc[d] # "none"
    BY <1>1
    DEF ConnectOk, ConnectFails, SendStop, FailRemove, WWrite, WFail, WEnd, RReadData, RReadEnd,
        RSendEof, TaskRemove, RoutingInv, RightTasks
  <1>4. task_pc'[c] = "none" => task_pc[c] = "none" /\ c # d
    BY <1>3, TasksStay
  <1>5. c # d /\ Absent(srv_out, c) => Absent(srv_out', c)
    <2>1. ASSUME UNCHANGED srv_out PROVE Absent(srv_out, c) => Absent(srv_out', c)
      BY <2>1 DEF Absent
    <2>2. CASE SendStop(d)
      BY <2>2, <1>3, ServerFrames, SentFrame, SrvSendAbsent DEF SendStop
    <2>3. CASE RReadData(d)
      BY <2>3, <1>3, ServerFrames, SentFrame, SrvSendAbsent DEF RReadData
    <2>4. CASE RSendEof(d)
      BY <2>4, <1>3, ServerFrames, SentFrame, SrvSendAbsent DEF RSendEof
    <2>. QED
      BY <1>1, <2>1, <2>2, <2>3, <2>4
      DEF ConnectOk, ConnectFails, FailRemove, WWrite, WFail, WEnd, RReadEnd, TaskRemove, srvOutVars
  <1>6. \A i \in 0 .. MaxId : tcp_chans[i] # c => tcp_chans'[i] # c
    <2>1. tcp_chans' = tcp_chans \/ tcp_chans' = [tcp_chans EXCEPT ![task_ch[d]] = NoConn]
      BY ONLY <1>1
      DEF ConnectOk, ConnectFails, SendStop, FailRemove, WWrite, WFail, WEnd, RReadData, RReadEnd,
          RSendEof, TaskRemove
    <2>. QED
      BY <2>1, ServerTypes, SsnetAssumption
  <1>7. /\ c # d => /\ task_pc'[c] = task_pc[c] /\ w_task'[c] = w_task[c]
                    /\ r_task'[c] = r_task[c] /\ tgt_eof'[c] = tgt_eof[c]
    BY <1>1, ServerTypes
    DEF ConnectOk, ConnectFails, SendStop, FailRemove, WWrite, WFail, WEnd, RReadData, RReadEnd,
        RSendEof, TaskRemove, taskVars, tgtVars
  <1>8. CASE c # d
    BY <1>0, <1>2, <1>4, <1>5, <1>6, <1>7, <1>8 DEF TaskLife, UpLive, Running, Absent
  <1>9. CASE c = d
    <2>1. ASSUME task_pc'[c] # "none",
                 task_pc'[c] = "connecting" => w_task'[c] = "idle" /\ r_task'[c] = "idle",
                 w_task'[c] = "run" => task_pc'[c] = "relay",
                 r_task'[c] = "run" => task_pc'[c] = "relay",
                 task_pc'[c] = "connecting" \/ w_task'[c] = "run" => UpLive(c) /\ tgt_eof'[c] = tgt_eof[c]
          PROVE  TaskLife(c)'
      BY <1>0, <1>2, <2>1 DEF TaskLife, UpLive, Running
    <2>2. CASE ConnectOk(d)
      <3>1. /\ task_pc[c] = "connecting" /\ task_pc'[c] = "relay" /\ tgt_eof' = tgt_eof
            /\ w_task'[c] = "run" /\ r_task'[c] = "run"
        BY <1>9, <2>2, ServerTypes DEF ConnectOk, tgtVars
      <3>. QED
        BY <2>1, <3>1 DEF UpLive
    <2>3. CASE ConnectFails(d)
      <3>1. /\ task_pc[c] = "connecting" /\ task_pc'[c] = "failed"
            /\ w_task' = w_task /\ r_task' = r_task
        BY <1>9, <2>3, ServerTypes DEF ConnectFails
      <3>. QED
        BY <1>0, <2>1, <3>1 DEF TaskLife
    <2>4. CASE SendStop(d)
      <3>1. /\ task_pc[c] = "failed" /\ task_pc'[c] = "removing"
            /\ w_task' = w_task /\ r_task' = r_task
        BY <1>9, <2>4, ServerTypes DEF SendStop
      <3>. QED
        BY <1>0, <2>1, <3>1 DEF TaskLife
    <2>5. CASE FailRemove(d)
      <3>1. /\ task_pc[c] = "removing" /\ task_pc'[c] = "done"
            /\ w_task' = w_task /\ r_task' = r_task
        BY <1>9, <2>5, ServerTypes DEF FailRemove
      <3>. QED
        BY <1>0, <2>1, <3>1 DEF TaskLife
    <2>6. CASE WWrite(d)
      <3>1. UNCHANGED <<task_pc, w_task, r_task, tgt_eof>>
        BY <2>6 DEF WWrite, taskVars
      <3>. QED
        BY <1>0, <1>3, <1>9, <2>1, <3>1 DEF TaskLife, UpLive
    <2>7. CASE WFail(d) \/ WEnd(d)
      <3>1. UNCHANGED <<task_pc, r_task>> /\ w_task[c] = "run" /\ w_task'[c] = "done"
        BY <1>9, <2>7, ServerTypes DEF WFail, WEnd, taskVars
      <3>. QED
        BY <1>0, <1>3, <1>9, <2>1, <3>1 DEF TaskLife, UpLive
    <2>8. CASE RReadData(d) \/ RReadEnd(d) \/ RSendEof(d)
      <3>1. UNCHANGED <<task_pc, w_task, tgt_eof>>
        BY <2>8 DEF RReadData, RReadEnd, RSendEof, taskVars, tgtVars
      <3>2. (r_task'[c] = r_task[c] \/ r_task'[c] # "run") /\ r_task[c] # "idle"
        BY <1>9, <2>8, ServerTypes DEF RReadData, RReadEnd, RSendEof
      <3>. QED
        BY <1>0, <1>3, <1>9, <2>1, <3>1, <3>2 DEF TaskLife, UpLive
    <2>9. CASE TaskRemove(d)
      <3>1. /\ UNCHANGED <<w_task, r_task>> /\ w_task[c] = "done" /\ r_task[c] = "done"
            /\ task_pc'[c] = "done"
        BY <1>9, <2>9, ServerTypes DEF TaskRemove
      <3>. QED
        BY <2>1, <3>1
    <2>. QED
      BY <1>1, <2>2, <2>3, <2>4, <2>5, <2>6, <2>7, <2>8, <2>9
  <1>. QED
    BY <1>8, <1>9

\* The CONNECT that is read is the first the server hears of its connection.
LEMMA ConnectIsNew ==
    ASSUME RoutingInv, LifeInv, SConnect
    PROVE  /\ Head(c2s) \in RightFrame
           /\ Head(c2s).conn \in Conns
           /\ Head(c2s).channel = ids[Head(c2s).conn]
           /\ ids[Head(c2s).conn] # 0
           /\ task_pc[Head(c2s).conn] = "none"
           /\ IsConnect(Head(c2s), Head(c2s).conn)
           /\ c2s' = Tail(c2s)
           /\ c2s # <<>>
  <1>1. c2s # <<>> /\ c2s \in Seq(RightFrame) /\ Head(c2s) \in RightFrame
    BY QueueTypes, HeadLemma DEF SConnect, LoopReads
  <1>2. Head(c2s).cmd = "CONNECT" /\ c2s' = Tail(c2s)
    BY DEF SConnect, LoopReads
  <1>. DEFINE f == Head(c2s)
  <1>3. f.conn \in Conns /\ f.channel = ids[f.conn] /\ ids[f.conn] # 0 /\ IsConnect(f, f.conn)
    BY <1>1, <1>2, FrameOf DEF TcpCmds, IsConnect
  <1>4. HasConnect(c2s, f.conn)
    BY <1>1, <1>3, TailFrame
  <1>5. task_pc[f.conn] = "none"
    BY <1>3, <1>4 DEF LifeInv, Announced
  <1>. QED
    BY <1>1, <1>2, <1>3, <1>5

LEMMA TaskLifePipe ==
    ASSUME RoutingInv, LifeInv, ServerWithPipe(ServerPipe), NEW c \in Conns
    PROVE  TaskLife(c)'
  <1>0. TaskLife(c)
    BY DEF LifeInv
  <1>1. UNCHANGED <<demux_held, w_task, r_task>>
    BY DEF ServerWithPipe, clientVars, demuxVars, ServerPipe, LoopStep, SConnect, SData, SDeliver,
           SClose, SPong, SStdinEof, SExit, ServerWriter, ServerWriterFail
  <1>2. ASSUME UNCHANGED <<task_pc, tcp_chans, tgt_eof>>, Running' => Running,
               Absent(srv_out, c) /\ Absent(s2c, c) => Absent(srv_out', c) /\ Absent(s2c', c)
        PROVE  TaskLife(c)'
    BY <1>0, <1>1, <1>2 DEF TaskLife, UpLive, Absent
  <1>3. CASE SConnect
    <2>. DEFINE d == Head(c2s).conn
    <2>1. d \in Conns /\ task_pc[d] = "none" /\ ids[d] # 0 /\ Head(c2s).channel = ids[d]
      BY <1>3, ConnectIsNew
    <2>2. UNCHANGED <<s2c, srv_out, srv_loop, tgt_eof>>
      BY <1>3 DEF SConnect, LoopReads, srvOutVars, tgtVars
    <2>3. /\ tcp_chans' = [tcp_chans EXCEPT ![ids[d]] = d]
          /\ task_pc' = [task_pc EXCEPT ![d] = "connecting"]
      BY <1>3, <2>1 DEF SConnect
    <2>4. c = d => task_pc'[c] = "connecting"
      BY <2>1, <2>3, ServerTypes
    <2>5. c # d => task_pc'[c] = task_pc[c] /\ \A i \in 0 .. MaxId : tcp_chans[i] # c => tcp_chans'[i] # c
      BY <2>1, <2>3, ServerTypes
    <2>. HIDE DEF d
    <2>6. CASE c = d
      BY <1>0, <1>1, <2>1, <2>2, <2>4, <2>6 DEF TaskLife, UpLive, Running
    <2>7. CASE c # d
      BY <1>0, <1>1, <2>2, <2>5, <2>7 DEF TaskLife, UpLive, Running, Absent
    <2>. QED
      BY <2>6, <2>7
  <1>4. CASE SClose
    <2>1. UNCHANGED <<s2c, srv_out, srv_loop, tgt_eof, task_pc>>
      BY <1>4 DEF SClose, LoopReads, srvOutVars, tgtVars, taskVars
    <2>2. \A i \in 0 .. MaxId : tcp_chans[i] # c => tcp_chans'[i] # c
      BY <1>4, ServerTypes, SsnetAssumption DEF SClose
    <2>. QED
      BY <1>0, <1>1, <2>1, <2>2 DEF TaskLife, UpLive, Running, Absent
  <1>5. CASE SExit
    <2>1. UNCHANGED <<s2c, srv_out, task_pc, tcp_chans>> /\ ~ Running'
      BY <1>5 DEF SExit, linkVars, srvOutVars, taskVars, Running
    <2>. QED
      BY <1>0, <1>1, <2>1 DEF TaskLife, UpLive, Absent
  <1>6. CASE SData \/ SDeliver \/ SPong \/ SStdinEof
    <2>1. UNCHANGED <<s2c, srv_out, task_pc, tcp_chans, tgt_eof>> /\ (Running' => Running)
      BY <1>6 DEF SData, SDeliver, SPong, SStdinEof, LoopReads, linkVars, srvOutVars, taskVars,
                  tgtVars, Running
    <2>. QED
      BY <1>2, <2>1 DEF Absent
  <1>7. CASE ServerWriter
    <2>1. srv_out \in Seq(RightFrame) /\ s2c \in Seq(RightFrame) /\ Head(srv_out) \in RightFrame
      BY <1>7, QueueTypes, HeadLemma DEF ServerWriter
    <2>2. Absent(srv_out, c) => Head(srv_out).conn # c /\ Absent(Tail(srv_out), c)
      BY <1>7, <2>1, TailFrame DEF ServerWriter
    <2>3. Absent(s2c, c) /\ Head(srv_out).conn # c => Absent(Append(s2c, Head(srv_out)), c)
      BY <2>1, AppendFrame
    <2>. QED
      BY <1>2, <1>7, <2>2, <2>3 DEF ServerWriter, taskVars, loopVars, tgtVars, Running
  <1>8. CASE ServerWriterFail
    BY <1>2, <1>8, NothingAbsent DEF ServerWriterFail, linkVars, taskVars, loopVars, tgtVars, Running
  <1>. QED
    BY <1>3, <1>4, <1>5, <1>6, <1>7, <1>8 DEF ServerWithPipe, ServerPipe, LoopStep

LEMMA TaskLifeStep ==
    ASSUME RoutingInv, LifeInv, [Next]_vars, NEW c \in Conns
    PROVE  TaskLife(c)'
  <1>1. CASE LoseLink
    <2>1. UNCHANGED <<task_pc, srv_out, demux_held, tcp_chans, w_task, r_task, srv_loop, tgt_eof>>
      BY <1>1 DEF LoseLink, clientVars, serverVars, demuxVars, srvOutVars, loopVars, tgtVars, taskVars
    <2>2. Absent(s2c, c) => Absent(s2c', c)
      BY <1>1, QueueTypes, CutFrame DEF LoseLink, LinkDown
    <2>. QED
      BY <2>1, <2>2 DEF LifeInv, TaskLife, UpLive, Running, Absent
  <1>2. CASE UNCHANGED vars
    BY <1>2
    DEF LifeInv, TaskLife, UpLive, Running, Absent, vars, linkVars, clientVars, serverVars,
        demuxVars, srvOutVars, loopVars, tgtVars, taskVars
  <1>. QED
    BY <1>1, <1>2, TaskLifeClient, TaskLifeLocal, TaskLifePipe DEF Next
-----------------------------------------------------------------------------
(* Steps: CONNECT on its way *)

LEMMA AnnouncedKept ==
    ASSUME NEW c, Announced(c),
           UNCHANGED <<out_tx, c2s, link>>, task_pc'[c] = "none" <=> task_pc[c] = "none",
           conn_pc'[c] \in {"open", "done"} => conn_pc[c] \in {"open", "done"}
    PROVE  Announced(c)'
  BY DEF Announced, HasConnect, ConnectFirst, ConnectLeads, Absent

\* A frame of a connection that is open, or of another, is queued.
LEMMA AnnouncedSend ==
    ASSUME RoutingInv, NEW c, NEW f \in RightFrame, Announced(c), out_tx' = Append(out_tx, f),
           UNCHANGED <<c2s, link, task_pc>>, ~ IsConnect(f, c),
           conn_pc'[c] \in {"open", "done"} => conn_pc[c] \in {"open", "done"},
           f.conn = c => conn_pc[c] \in {"open", "done"}
    PROVE  Announced(c)'
  <1>. DEFINE r == Append(out_tx, f)
  <1>1. /\ HasConnect(r, c) <=> HasConnect(out_tx, c)
        /\ ConnectFirst(out_tx, c) => ConnectFirst(r, c)
        /\ ConnectLeads(out_tx, c) /\ (f.conn = c => HasConnect(out_tx, c)) => ConnectLeads(r, c)
    BY QueueTypes, AppendFrame
  <1>. HIDE DEF r
  <1>2. out_tx' = r
    BY DEF r
  <1>3. task_pc[c] = "none" /\ link = "up" => HasConnect(c2s, c) \/ ConnectLeads(r, c)
    BY <1>1 DEF Announced
  <1>4. /\ HasConnect(r, c) => Absent(c2s, c) /\ task_pc[c] = "none"
        /\ HasConnect(c2s, c) => task_pc[c] = "none"
        /\ ConnectFirst(c2s, c) /\ ConnectFirst(r, c)
        /\ task_pc[c] = "none" =>
             /\ ConnectLeads(c2s, c)
             /\ link = "up" /\ conn_pc'[c] \in {"open", "done"} =>
                  HasConnect(c2s, c) \/ HasConnect(r, c)
    BY <1>1 DEF Announced
  <1>. QED
    BY <1>2, <1>3, <1>4 DEF Announced

LEMMA AbsentLeads ==
    ASSUME NEW q, NEW c, Absent(q, c)
    PROVE  ConnectLeads(q, c) /\ ~ HasConnect(q, c)
  BY DEF Absent, ConnectLeads, HasConnect, IsConnect

LEMMA AnnouncedClient ==
    ASSUME RoutingInv, LifeInv, ClientOnly(ClientLocal), NEW c \in Conns
    PROVE  Announced(c)'
  <1>0. Announced(c) /\ ConnLife(c)
    BY DEF LifeInv
  <1>a. UNCHANGED <<c2s, link, task_pc>>
    BY DEF ClientOnly, linkVars, serverVars, taskVars
  <1>1. ASSUME NEW d \in Conns, SendConnect(d) PROVE Announced(c)'
    <2>. DEFINE f == TcpFrame(ChannelOf(d), "CONNECT", d, 0)
    <2>1. f \in RightFrame /\ out_tx' = Append(out_tx, f) /\ f.conn = d /\ IsConnect(f, d)
      BY <1>1, ClientFrames, SentFrame DEF SendConnect, SendOut, RoutingInv, RightTasks, IsConnect
    <2>2. conn_pc[d] = "opening" /\ conn_pc' = [conn_pc EXCEPT ![d] = "open"]
      BY <1>1 DEF SendConnect
    <2>. HIDE DEF f
    <2>3. CASE c # d
      <3>1. ~ IsConnect(f, c) /\ conn_pc'[c] = conn_pc[c]
        BY <2>1, <2>2, <2>3, OtherFrame, ClientTypes
      <3>. QED
        BY <1>0, <1>a, <2>1, <2>3, <3>1, AnnouncedSend
    <2>4. CASE c = d
      <3>. DEFINE r == Append(out_tx, f)
      <3>1. Absent(out_tx, c) /\ Absent(c2s, c) /\ task_pc[c] = "none"
        BY <1>0, <2>2, <2>4 DEF ConnLife
      <3>2. HasConnect(r, c) /\ ConnectFirst(r, c) /\ ConnectLeads(r, c)
        BY <1>0, <2>1, <2>4, <3>1, AbsentLeads, QueueTypes, AppendFrame DEF Announced
      <3>3. out_tx' = r
        BY <2>1
      <3>. HIDE DEF r
      <3>. QED
        BY <1>0, <1>a, <3>1, <3>2, <3>3 DEF Announced
    <2>. QED
      BY <2>3, <2>4
  <1>2. ASSUME NEW d \in Conns, AReadData(d) \/ ASendEof(d) PROVE Announced(c)'
    <2>1. a_task[d] # "idle" /\ conn_pc' = conn_pc /\ ids[d] # 0
      BY <1>2 DEF AReadData, ASendEof, RoutingInv, RightTasks
    <2>2. conn_pc[d] \in {"open", "done"}
      BY <2>1, ClientTypes DEF LifeInv, ConnLife
    <2>3. CASE UNCHANGED out_tx
      BY <1>0, <1>a, <2>1, <2>3, AnnouncedKept
    <2>4. ASSUME NEW f \in RightFrame, f.conn = d, f.cmd # "CONNECT", out_tx' = Append(out_tx, f)
          PROVE  Announced(c)'
      <3>1. ~ IsConnect(f, c)
        BY <2>4 DEF IsConnect
      <3>. QED
        BY <1>0, <1>a, <2>1, <2>2, <2>4, <3>1, AnnouncedSend
    <2>5. CASE AReadData(d)
      BY <2>1, <2>3, <2>4, <2>5, ClientFrames, SentFrame DEF AReadData, SendOut, SendOutFails, outVars
    <2>6. CASE ASendEof(d)
      BY <2>1, <2>3, <2>4, <2>6, ClientFrames, SentFrame DEF ASendEof, SendOut, SendOutFails, outVars
    <2>. QED
      BY <1>2, <2>5, <2>6
  <1>3. ASSUME UNCHANGED out_tx,
               conn_pc'[c] \in {"open", "done"} => conn_pc[c] \in {"open", "done"}
        PROVE  Announced(c)'
    BY <1>0, <1>a, <1>3, AnnouncedKept
  <1>4. ASSUME NEW l \in Loops, NEW d \in Conns, AcceptConn(l, d) PROVE Announced(c)'
    BY <1>3, <1>4 DEF AcceptConn, outVars
  <1>5. ASSUME NEW l \in Loops, InsertChannel(l) PROVE Announced(c)'
    <2>1. conn_pc' = [conn_pc EXCEPT ![acceptor[l]] = "opening"] /\ UNCHANGED out_tx
      BY <1>5 DEF InsertChannel, outVars
    <2>. QED
      BY <1>3, <2>1, ClientTypes
  <1>6. ASSUME NEW d \in Conns, ConnectNotSent(d) PROVE Announced(c)'
    <2>1. conn_pc' = [conn_pc EXCEPT ![d] = "failed"] /\ UNCHANGED out_tx
      BY <1>6 DEF ConnectNotSent, SendOutFails, outVars
    <2>. QED
      BY <1>3, <2>1, ClientTypes
  <1>7. ASSUME NEW d \in Conns, RemoveChannel(d) PROVE Announced(c)'
    <2>1. /\ conn_pc' = [conn_pc EXCEPT ![d] = "done"] /\ UNCHANGED out_tx
          /\ conn_pc[d] = "open"
      BY <1>7 DEF RemoveChannel, outVars
    <2>. QED
      BY <1>3, <2>1, ClientTypes
  <1>8. ASSUME NEW d \in Conns, AReadEnd(d) \/ BWrite(d) \/ BWriteFail(d) \/ BEnd(d)
        PROVE  Announced(c)'
    BY <1>3, <1>8 DEF AReadEnd, BWrite, BWriteFail, BEnd, outVars
  <1>9. ASSUME DnsTakesId PROVE Announced(c)'
    BY <1>3, <1>9 DEF DnsTakesId, outVars
  <1>. QED
    BY <1>1, <1>2, <1>4, <1>5, <1>6, <1>7, <1>8, <1>9 DEF ClientOnly, ClientLocal

\* The writer task passes frames on in order, so that CONNECT stays the first.
LEMMA AnnouncedWriter ==
    ASSUME RoutingInv, LifeInv, ClientWriter, UNCHANGED task_pc, NEW c \in Conns
    PROVE  Announced(c)'
  <1>. DEFINE f == Head(out_tx)
              r == Tail(out_tx)
              p == Append(c2s, f)
  <1>0. Announced(c)
    BY DEF LifeInv
  <1>1. /\ out_tx # <<>> /\ link = "up" /\ link' = link /\ conn_pc' = conn_pc
        /\ out_tx' = r /\ c2s' = p
    BY DEF ClientWriter
  <1>2. f \in RightFrame /\ out_tx \in Seq(RightFrame) /\ c2s \in Seq(RightFrame)
    BY <1>1, QueueTypes, HeadLemma
  <1>3. /\ HasConnect(out_tx, c) <=> IsConnect(f, c) \/ HasConnect(r, c)
        /\ ConnectFirst(out_tx, c) => ConnectFirst(r, c)
        /\ ConnectFirst(out_tx, c) /\ f.conn = c => ~ HasConnect(r, c)
        /\ ConnectLeads(out_tx, c) /\ f.conn = c => IsConnect(f, c)
        /\ ConnectLeads(out_tx, c) /\ f.conn # c => ConnectLeads(r, c)
    BY <1>1, <1>2, TailFrame
  <1>4. /\ Absent(c2s, c) /\ f.conn # c => Absent(p, c)
        /\ HasConnect(p, c) <=> HasConnect(c2s, c) \/ IsConnect(f, c)
        /\ ConnectFirst(c2s, c) /\ (IsConnect(f, c) => Absent(c2s, c)) => ConnectFirst(p, c)
        /\ ConnectLeads(c2s, c) /\ (f.conn = c => IsConnect(f, c) \/ HasConnect(c2s, c))
             => ConnectLeads(p, c)
    BY <1>2, AppendFrame
  <1>5. IsConnect(f, c) => f.conn = c
    BY DEF IsConnect
  <1>. HIDE DEF f, r, p
  <1>6. /\ HasConnect(r, c) => Absent(p, c) /\ task_pc[c] = "none"
        /\ HasConnect(p, c) => task_pc[c] = "none"
        /\ ConnectFirst(p, c) /\ ConnectFirst(r, c)
    BY <1>0, <1>3, <1>4, <1>5 DEF Announced
  <1>7. task_pc[c] = "none" => /\ ConnectLeads(p, c)
                               /\ HasConnect(p, c) \/ ConnectLeads(r, c)
                               /\ conn_pc[c] \in {"open", "done"} => HasConnect(p, c) \/ HasConnect(r, c)
    BY <1>0, <1>1, <1>3, <1>4, <1>5 DEF Announced
  <1>. QED
    BY <1>1, <1>6, <1>7 DEF Announced

LEMMA AnnouncedClientPipe ==
    ASSUME RoutingInv, LifeInv, ClientWithPipe(ClientPipe), NEW c \in Conns
    PROVE  Announced(c)'
  <1>0. Announced(c)
    BY DEF LifeInv
  <1>a. UNCHANGED task_pc
    BY DEF ClientWithPipe, serverVars, taskVars
  <1>1. CASE ClientWriter
    BY <1>a, <1>1, AnnouncedWriter
  <1>2. CASE ClientWriterFail
    BY <1>0, <1>a, <1>2, NothingAbsent DEF ClientWriterFail, linkVars, Announced
  <1>3. CASE DemuxPing
    <2>. DEFINE f == [Head(s2c) EXCEPT !.cmd = "PONG"]
    <2>1. f \in RightFrame /\ f.conn # c /\ (out_tx' = Append(out_tx, f) \/ out_tx' = out_tx)
      BY <1>3, PongFrame DEF DemuxPing, DemuxReads, SendOut, SendOutFails, outVars
    <2>2. UNCHANGED <<c2s, link, conn_pc>>
      BY <1>3 DEF DemuxPing, DemuxReads
    <2>. HIDE DEF f
    <2>3. ~ IsConnect(f, c)
      BY <2>1, OtherFrame
    <2>. QED
      BY <1>0, <1>a, <2>1, <2>2, <2>3, AnnouncedSend, AnnouncedKept
  <1>4. CASE DemuxData \/ DemuxDeliver \/ DemuxClose \/ DemuxIgnore \/ DemuxEof
    <2>1. UNCHANGED <<out_tx, c2s, link, conn_pc>>
      BY <1>4 DEF DemuxData, DemuxDeliver, DemuxClose, DemuxIgnore, DemuxEof, DemuxReads, outVars,
                  linkVars
    <2>. QED
      BY <1>0, <1>a, <2>1, AnnouncedKept
  <1>. QED
    BY <1>1, <1>2, <1>3, <1>4 DEF ClientWithPipe, ClientPipe, DemuxStep

\* The server takes a frame off the pipe: a CONNECT, or one of a connection that
\* has had its CONNECT read.
LEMMA AnnouncedRead ==
    ASSUME RoutingInv, LifeInv, NEW c \in Conns, c2s # <<>>, c2s' = Tail(c2s),
           UNCHANGED <<out_tx, link, conn_pc>>,
           Head(c2s).conn # c => (task_pc'[c] = "none" <=> task_pc[c] = "none"),
           IsConnect(Head(c2s), c) => task_pc'[c] # "none",
           task_pc[c] # "none" => task_pc'[c] # "none"
    PROVE  Announced(c)'
  <1>. DEFINE f == Head(c2s)
              r == Tail(c2s)
  <1>0. Announced(c)
    BY DEF LifeInv
  <1>1. c2s \in Seq(RightFrame)
    BY QueueTypes
  <1>2. /\ Absent(c2s, c) => f.conn # c /\ Absent(r, c)
        /\ HasConnect(c2s, c) <=> IsConnect(f, c) \/ HasConnect(r, c)
        /\ ConnectFirst(c2s, c) => ConnectFirst(r, c)
        /\ ConnectFirst(c2s, c) /\ f.conn = c => ~ HasConnect(r, c)
        /\ ConnectLeads(c2s, c) /\ f.conn = c => IsConnect(f, c)
        /\ ConnectLeads(c2s, c) /\ f.conn # c => ConnectLeads(r, c)
    BY <1>1, TailFrame
  <1>3. c2s' = r
    OBVIOUS
  <1>4. /\ f.conn # c => (task_pc'[c] = "none" <=> task_pc[c] = "none")
        /\ IsConnect(f, c) => task_pc'[c] # "none"
        /\ IsConnect(f, c) => f.conn = c
    BY DEF IsConnect
  <1>. HIDE DEF f, r
  <1>5. CASE f.conn = c
    <2>1. ~ HasConnect(out_tx, c) /\ ~ HasConnect(r, c) /\ ConnectFirst(r, c)
      BY <1>0, <1>2, <1>5 DEF Announced
    <2>2. task_pc'[c] # "none"
      BY <1>0, <1>2, <1>4, <1>5 DEF Announced
    <2>. QED
      BY <1>0, <1>3, <2>1, <2>2 DEF Announced
  <1>6. CASE f.conn # c
    <2>1. /\ HasConnect(r, c) <=> HasConnect(c2s, c)
          /\ Absent(c2s, c) => Absent(r, c)
          /\ ConnectFirst(r, c)
          /\ ConnectLeads(c2s, c) => ConnectLeads(r, c)
      BY <1>0, <1>2, <1>4, <1>6 DEF Announced
    <2>2. task_pc'[c] = "none" <=> task_pc[c] = "none"
      BY <1>4, <1>6
    <2>. QED
      BY <1>0, <1>3, <2>1, <2>2 DEF Announced
  <1>. QED
    BY <1>5, <1>6

LEMMA AnnouncedServer ==
    ASSUME RoutingInv, LifeInv, NEW c \in Conns,
           ServerOnly(ServerLocal) \/ ServerWithPipe(ServerPipe)
    PROVE  Announced(c)'
  <1>0. Announced(c)
    BY DEF LifeInv
  <1>1. UNCHANGED <<out_tx, conn_pc>>
    BY DEF ServerOnly, ServerWithPipe, clientVars, outVars
  <1>2. CASE ServerOnly(ServerLocal)
    <2>1. UNCHANGED <<c2s, link>>
      BY <1>2 DEF ServerOnly, linkVars
    <2>. QED
      BY <1>0, <1>1, <1>2, <2>1, TasksStay, AnnouncedKept
  <1>3. CASE SConnect
    <2>1. c2s # <<>> /\ c2s' = Tail(c2s) /\ link' = link
      BY <1>3 DEF SConnect, LoopReads
    <2>2. Head(c2s).conn \in Conns /\ task_pc' = [task_pc EXCEPT ![Head(c2s).conn] = "connecting"]
      BY <1>3, ConnectIsNew DEF SConnect
    <2>3. /\ Head(c2s).conn # c => task_pc'[c] = task_pc[c]
          /\ Head(c2s).conn = c => task_pc'[c] # "none"
      BY <2>2, ServerTypes
    <2>4. IsConnect(Head(c2s), c) => task_pc'[c] # "none"
      BY <2>3 DEF IsConnect
    <2>. QED
      BY <1>1, <2>1, <2>3, <2>4, AnnouncedRead
  <1>4. CASE SData \/ SClose \/ SPong
    <2>1. /\ c2s # <<>> /\ c2s' = Tail(c2s) /\ link' = link /\ task_pc' = task_pc
          /\ Head(c2s).cmd # "CONNECT"
      BY <1>4 DEF SData, SClose, SPong, LoopReads, taskVars
    <2>2. ~ IsConnect(Head(c2s), c)
      BY <2>1 DEF IsConnect
    <2>. QED
      BY <1>1, <2>1, <2>2, AnnouncedRead
  <1>5. CASE SDeliver \/ SStdinEof \/ SExit \/ ServerWriter \/ ServerWriterFail
    <2>1. UNCHANGED <<c2s, link, task_pc>>
      BY <1>5 DEF SDeliver, SStdinEof, SExit, ServerWriter, ServerWriterFail, taskVars, linkVars
    <2>. QED
      BY <1>0, <1>1, <2>1, AnnouncedKept
  <1>. QED
    BY <1>2, <1>3, <1>4, <1>5 DEF ServerWithPipe, ServerPipe, LoopStep

LEMMA AnnouncedStep ==
    ASSUME RoutingInv, LifeInv, [Next]_vars, NEW c \in Conns
    PROVE  Announced(c)'
  <1>0. Announced(c)
    BY DEF LifeInv
  <1>1. CASE LoseLink
    <2>1. UNCHANGED <<out_tx, conn_pc, task_pc>> /\ link' = "down"
      BY <1>1 DEF LoseLink, LinkDown, clientVars, serverVars, outVars, taskVars
    <2>2. /\ Absent(c2s, c) => Absent(c2s', c)
          /\ HasConnect(c2s', c) => HasConnect(c2s, c)
          /\ ConnectFirst(c2s, c) => ConnectFirst(c2s', c)
          /\ ConnectLeads(c2s, c) => ConnectLeads(c2s', c)
      BY <1>1, QueueTypes, CutFrame DEF LoseLink, LinkDown
    <2>. QED
      BY <1>0, <2>1, <2>2 DEF Announced
  <1>2. CASE UNCHANGED vars
    BY <1>0, <1>2, AnnouncedKept
    DEF vars, linkVars, clientVars, serverVars, outVars, taskVars
  <1>. QED
    BY <1>1, <1>2, AnnouncedClient, AnnouncedClientPipe, AnnouncedServer DEF Next

\* Every step of the tunnel keeps the lives of its connections in order.
LEMMA LifeStep ==
    ASSUME RoutingInv, IdsDistinct, LifeInv, [Next]_vars
    PROVE  LifeInv'
  <1>1. \A c \in Conns : ConnLife(c)' /\ TaskLife(c)' /\ Announced(c)'
    BY ConnLifeStep, TaskLifeStep, AnnouncedStep
  <1>. QED
    BY <1>1, WritersStep, AcceptorsStep, HeldStep DEF LifeInv
-----------------------------------------------------------------------------
(* Steps: from the client to the target *)

LEMMA FlowTypes ==
    ASSUME RoutingInv, IdsDistinct, NEW c \in Conns
    PROVE  /\ app_sent[c] \in Nat /\ tgt_sent[c] \in Nat
           /\ UpBase(c) \in Nat /\ DownBase(c) \in Nat
           /\ inbound[c] \in Seq(ChunkFor(c)) /\ tgt_got[c] \in Seq(ChunkFor(c))
           /\ in_rx[c] \in Seq(ChunkFor(c)) /\ app_got[c] \in Seq(ChunkFor(c))
           /\ Len(inbound[c]) \in Nat /\ Len(tgt_got[c]) \in Nat
           /\ Len(in_rx[c]) \in Nat /\ Len(app_got[c]) \in Nat
  <1>1. app_sent[c] \in Nat /\ tgt_sent[c] \in Nat
    BY TunnelAssumption DEF RoutingInv, TypeOK, ClientTypeOK, ServerTypeOK
  <1>2. /\ inbound[c] \in Seq(ChunkFor(c)) /\ tgt_got[c] \in Seq(ChunkFor(c))
        /\ in_rx[c] \in Seq(ChunkFor(c)) /\ app_got[c] \in Seq(ChunkFor(c))
    BY DEF RoutingInv, RightQueues
  <1>3. /\ Len(inbound[c]) \in Nat /\ Len(tgt_got[c]) \in Nat
        /\ Len(in_rx[c]) \in Nat /\ Len(app_got[c]) \in Nat
    BY <1>2, QueueLemma DEF QueueOps
  <1>4. \A m, n \in Nat : m + n \in Nat
    OBVIOUS
  <1>5. UpBase(c) \in Nat
    BY ONLY <1>3, <1>4 DEF UpBase
  <1>6. DownBase(c) \in Nat
    BY ONLY <1>3, <1>4 DEF DownBase
  <1>. QED
    BY <1>1, <1>2, <1>3, <1>5, <1>6

LEMMA FunctionTypes ==
    ASSUME RoutingInv
    PROVE  /\ app_sent \in [Conns -> 0 .. MaxUp] /\ tgt_sent \in [Conns -> 0 .. MaxDown]
           /\ inbound \in [Conns -> Seq(Chunk)] /\ tgt_got \in [Conns -> Seq(Chunk)]
           /\ in_rx \in [Conns -> Seq(Chunk)] /\ app_got \in [Conns -> Seq(Chunk)]
  BY DEF RoutingInv, TypeOK, ClientTypeOK, ServerTypeOK

\* A step that neither moves nor ends what flows up on c, but for the frames on
\* their way.
UpStill(c) ==
    /\ tgt_got'[c] = tgt_got[c] /\ inbound'[c] = inbound[c] /\ app_sent'[c] = app_sent[c]
    /\ UpSender(c)' = UpSender(c)
    /\ UpLive(c)' =>
         /\ UpLive(c)
         /\ task_pc'[c] # "none" /\ tcp_chans'[ids'[c]] # c =>
              task_pc[c] # "none" /\ tcp_chans[ids[c]] # c

LEMMA UpStillLemma ==
    ASSUME NEW c \in Conns, UpFlow(c), UpDone(c), UpStill(c),
           UpLive(c) /\ UpWay(c) /\ UpLive(c)' =>
             Carried(c, loop_held', c2s', out_tx', link', UpBase(c), app_sent[c], UpSender(c))
    PROVE  UpFlow(c)' /\ UpDone(c)'
  <1>1. UpBase(c)' = UpBase(c) /\ UpSender(c)' = UpSender(c) /\ app_sent'[c] = app_sent[c]
    BY DEF UpStill, UpBase
  <1>2. UpLive(c)' => UpWay(c)'
    <2>. SUFFICES ASSUME UpLive(c)' PROVE UpWay(c)'
      OBVIOUS
    <2>1. Carried(c, loop_held', c2s', out_tx', link', UpBase(c), app_sent[c], UpSender(c))
      BY DEF UpStill, UpFlow
    <2>2. Carried(c, loop_held', c2s', out_tx', link', UpBase(c)', app_sent'[c], UpSender(c)')
      BY ONLY <1>1, <2>1
    <2>. QED
      BY <2>2 DEF UpWay
  <1>3. UpFlow(c)'
    BY <1>2 DEF UpFlow, UpStill, Numbered
  <1>4. UpDone(c)'
    BY <1>1 DEF UpDone, UpStill
  <1>. QED
    BY <1>3, <1>4

LEMMA UpStillClient ==
    ASSUME RoutingInv, [Next]_vars, UNCHANGED serverVars, NEW c \in Conns,
           app_sent'[c] = app_sent[c], UpSender(c)' = UpSender(c)
    PROVE  UpStill(c)
  <1>1. UNCHANGED <<tgt_got, inbound, task_pc, w_task, tcp_chans>>
    BY DEF serverVars, taskVars, tgtVars
  <1>2. task_pc[c] # "none" => ids'[c] = ids[c]
    BY ServerTypes, IdsStay
  <1>. QED
    BY <1>1, <1>2 DEF UpStill, UpLive

LEMMA UpClient ==
    ASSUME RoutingInv, IdsDistinct, LifeInv, FlowInv, [Next]_vars, ClientOnly(ClientLocal),
           NEW c \in Conns
    PROVE  UpFlow(c)' /\ UpDone(c)'
  <1>0. UpFlow(c) /\ UpDone(c)
    BY DEF FlowInv
  <1>a. UNCHANGED <<loop_held, c2s, link>> /\ UNCHANGED serverVars
    BY DEF ClientOnly, linkVars, serverVars, loopVars
  <1>b. out_tx \in Seq(RightFrame)
    BY QueueTypes
  <1>c. UpBase(c) \in Nat /\ app_sent[c] \in Nat
    BY FlowTypes
  <1>1. ASSUME UNCHANGED out_tx, app_sent'[c] = app_sent[c], UpSender(c)' = UpSender(c)
        PROVE  UpFlow(c)' /\ UpDone(c)'
    <2>1. UpStill(c)
      BY <1>a, <1>1, UpStillClient
    <2>2. UpWay(c) => Carried(c, loop_held', c2s', out_tx', link', UpBase(c), app_sent[c], UpSender(c))
      BY <1>a, <1>1 DEF UpWay
    <2>. QED
      BY <1>0, <2>1, <2>2, UpStillLemma
  <1>2. ASSUME NEW f \in RightFrame, out_tx' = Append(out_tx, f),
               app_sent'[c] = app_sent[c], UpSender(c)' = UpSender(c),
               ~ IsData(f, c), IsEnd(f, c) => UpSender(c) = "over"
        PROVE  UpFlow(c)' /\ UpDone(c)'
    <2>1. UpStill(c)
      BY <1>a, <1>2, UpStillClient
    <2>2. UpWay(c) => Carried(c, loop_held, c2s, Append(out_tx, f), link, UpBase(c), app_sent[c], UpSender(c))
      BY <1>b, <1>c, <1>2, CarriedSendOther, CarriedSendEnd DEF UpWay
    <2>3. UpWay(c) => Carried(c, loop_held', c2s', out_tx', link', UpBase(c), app_sent[c], UpSender(c))
      BY <1>a, <1>2, <2>2
    <2>. QED
      BY <1>0, <2>1, <2>3, UpStillLemma
  <1>3. ASSUME NEW d \in Conns, AReadData(d) PROVE UpFlow(c)' /\ UpDone(c)'
    <2>. DEFINE f == TcpFrame(ChannelOf(d), "DATA", d, app_sent[d] + 1)
    <2>1. /\ f \in RightFrame /\ f.conn = d /\ f.n = app_sent[d] + 1 /\ IsData(f, d)
          /\ a_task[d] = "run" /\ app_sent' = [app_sent EXCEPT ![d] = @ + 1]
      BY <1>3, ClientFrames, SentFrame DEF AReadData, RoutingInv, RightTasks, IsData
    <2>2. \/ out_tx' = Append(out_tx, f) /\ a_task' = a_task
          \/ out_tx' = out_tx /\ a_task' = [a_task EXCEPT ![d] = "done"] /\ writer = "dead"
      BY <1>3 DEF AReadData, SendOut, SendOutFails, outVars
    <2>3. CASE c # d
      <3>1. app_sent'[c] = app_sent[c] /\ a_task'[c] = a_task[c]
        BY <2>1, <2>2, <2>3, ClientTypes, FunctionTypes
      <3>2. UpSender(c)' = UpSender(c)
        BY <3>1 DEF UpSender
      <3>3. ~ IsData(f, c) /\ ~ IsEnd(f, c)
        BY <2>1, <2>3, OtherFrame
      <3>. HIDE DEF f
      <3>. QED
        BY <1>1, <1>2, <2>1, <2>2, <3>1, <3>2, <3>3
    <2>4. CASE c = d
      <3>1. /\ UpSender(c) = "open" /\ app_sent'[c] = app_sent[c] + 1
        BY <2>1, <2>4, FunctionTypes DEF UpSender
      <3>2. /\ UNCHANGED <<tgt_got, inbound, task_pc, w_task, tcp_chans>>
        BY <1>a DEF serverVars, taskVars, tgtVars
      <3>3. ids' = ids
        BY <1>3 DEF AReadData, allocVars
      <3>4. UpLive(c)' = UpLive(c) /\ UpBase(c)' = UpBase(c)
        BY <3>2 DEF UpLive, UpBase
      <3>5. UpDone(c)'
        <4>1. ~ (UpLive(c) /\ task_pc[c] # "none" /\ tcp_chans[ids[c]] # c)
          BY <1>0, <3>1 DEF UpDone
        <4>. QED
          BY <3>2, <3>3, <3>4, <4>1 DEF UpDone
      <3>6. ASSUME UpWay(c) PROVE UpWay(c)'
        <4>1. Carried(c, loop_held, c2s, out_tx, link, UpBase(c), app_sent[c], "open")
          BY <3>1, <3>6 DEF UpWay
        <4>2. CASE out_tx' = Append(out_tx, f) /\ a_task' = a_task
          <5>1. Carried(c, loop_held, c2s, Append(out_tx, f), link, UpBase(c), app_sent[c] + 1, "open")
            BY <1>b, <1>c, <2>1, <2>4, <4>1, CarriedSendData
          <5>2. UpSender(c)' = "open"
            BY <3>1, <4>2 DEF UpSender
          <5>3. Carried(c, loop_held', c2s', out_tx', link', UpBase(c)', app_sent'[c], UpSender(c)')
            BY ONLY <1>a, <3>1, <3>4, <4>2, <5>1, <5>2
          <5>. QED
            BY <5>3 DEF UpWay
        <4>3. CASE out_tx' = out_tx /\ a_task' = [a_task EXCEPT ![d] = "done"] /\ writer = "dead"
          <5>1. link # "up"
            BY <4>3 DEF LifeInv, DeadWriters
          <5>2. Carried(c, loop_held, c2s, out_tx, link, UpBase(c), app_sent[c] + 1, "over")
            BY <1>c, <4>1, <5>1, CarriedDown
          <5>3. UpSender(c)' = "over"
            BY <2>4, <4>3, ClientTypes DEF UpSender
          <5>4. Carried(c, loop_held', c2s', out_tx', link', UpBase(c)', app_sent'[c], UpSender(c)')
            BY ONLY <1>a, <3>1, <3>4, <4>3, <5>2, <5>3
          <5>. QED
            BY <5>4 DEF UpWay
        <4>. QED
          BY <2>2, <4>2, <4>3
      <3>7. UpFlow(c)'
        BY <1>0, <3>2, <3>4, <3>6 DEF UpFlow, Numbered
      <3>. QED
        BY <3>5, <3>7
    <2>. QED
      BY <2>3, <2>4
  <1>4. ASSUME NEW d \in Conns, AReadEnd(d) PROVE UpFlow(c)' /\ UpDone(c)'
    <2>1. /\ UNCHANGED <<out_tx, app_sent, ids>> /\ a_task[d] = "run"
          /\ a_task' = [a_task EXCEPT ![d] = "eof"]
      BY <1>4 DEF AReadEnd, outVars, appVars, allocVars
    <2>2. CASE c # d
      <3>1. UpSender(c)' = UpSender(c)
        BY <2>1, <2>2, ClientTypes DEF UpSender
      <3>. QED
        BY <1>1, <2>1, <3>1
    <2>3. CASE c = d
      <3>1. UpSender(c) = "open" /\ UpSender(c)' = "over"
        BY <2>1, <2>3, ClientTypes DEF UpSender
      <3>2. UNCHANGED <<tgt_got, inbound, task_pc, w_task, tcp_chans>>
        BY <1>a DEF serverVars, taskVars, tgtVars
      <3>3. UpLive(c)' = UpLive(c) /\ UpBase(c)' = UpBase(c)
        BY <3>2 DEF UpLive, UpBase
      <3>4. UpDone(c)'
        <4>1. ~ (UpLive(c) /\ task_pc[c] # "none" /\ tcp_chans[ids[c]] # c)
          BY <1>0, <3>1 DEF UpDone
        <4>. QED
          BY <2>1, <3>2, <3>3, <4>1 DEF UpDone
      <3>5. ASSUME UpWay(c) PROVE UpWay(c)'
        <4>1. Carried(c, loop_held, c2s, out_tx, link, UpBase(c), app_sent[c], "over")
          BY <1>c, <3>5, CarriedOver DEF UpWay
        <4>2. Carried(c, loop_held', c2s', out_tx', link', UpBase(c)', app_sent'[c], UpSender(c)')
          BY ONLY <1>a, <2>1, <3>1, <3>3, <4>1
        <4>. QED
          BY <4>2 DEF UpWay
      <3>6. UpFlow(c)'
        BY <1>0, <3>2, <3>3, <3>5 DEF UpFlow, Numbered
      <3>. QED
        BY <3>4, <3>6
    <2>. QED
      BY <2>2, <2>3
  <1>5. ASSUME NEW d \in Conns, ASendEof(d) PROVE UpFlow(c)' /\ UpDone(c)'
    <2>. DEFINE f == TcpFrame(ChannelOf(d), "EOF", d, 0)
    <2>1. /\ f \in RightFrame /\ f.conn = d /\ f.cmd = "EOF"
          /\ a_task[d] = "eof" /\ a_task' = [a_task EXCEPT ![d] = "done"] /\ UNCHANGED app_sent
          /\ out_tx' = Append(out_tx, f) \/ out_tx' = out_tx
      BY <1>5, ClientFrames, SentFrame
      DEF ASendEof, SendOut, SendOutFails, outVars, appVars, RoutingInv, RightTasks
    <2>2. UpSender(c)' = UpSender(c) /\ (c = d => UpSender(c) = "over")
      BY <2>1, ClientTypes DEF UpSender
    <2>3. ~ IsData(f, c) /\ (IsEnd(f, c) => c = d)
      BY <2>1 DEF IsData, IsEnd
    <2>. HIDE DEF f
    <2>. QED
      BY <1>1, <1>2, <2>1, <2>2, <2>3
  <1>6. ASSUME NEW d \in Conns, SendConnect(d) PROVE UpFlow(c)' /\ UpDone(c)'
    <2>. DEFINE f == TcpFrame(ChannelOf(d), "CONNECT", d, 0)
    <2>1. /\ f \in RightFrame /\ f.cmd = "CONNECT" /\ out_tx' = Append(out_tx, f)
          /\ a_task' = [a_task EXCEPT ![d] = "run"] /\ conn_pc[d] = "opening"
          /\ UNCHANGED app_sent
      BY <1>6, ClientFrames, SentFrame DEF SendConnect, SendOut, appVars, RoutingInv, RightTasks
    <2>2. a_task[d] = "idle"
      BY <2>1 DEF LifeInv, ConnLife
    <2>3. UpSender(c)' = UpSender(c)
      BY <2>1, <2>2, ClientTypes DEF UpSender
    <2>4. ~ IsData(f, c) /\ ~ IsEnd(f, c)
      BY <2>1, OwnFrame
    <2>. HIDE DEF f
    <2>. QED
      BY <1>2, <2>1, <2>3, <2>4
  <1>7. ASSUME UNCHANGED <<out_tx, app_sent, a_task>> PROVE UpFlow(c)' /\ UpDone(c)'
    BY <1>1, <1>7 DEF UpSender
  <1>8. \/ UNCHANGED <<out_tx, app_sent, a_task>>
        \/ \E d \in Conns : AReadData(d) \/ AReadEnd(d) \/ ASendEof(d) \/ SendConnect(d)
    BY DEF ClientOnly, ClientLocal, AcceptConn, DnsTakesId, InsertChannel, ConnectNotSent, BWrite, BWriteFail,
           BEnd, RemoveChannel, outVars, appVars, SendOutFails
  <1>. QED
    BY <1>3, <1>4, <1>5, <1>6, <1>7, <1>8

LEMMA UpClientPipe ==
    ASSUME RoutingInv, IdsDistinct, LifeInv, FlowInv, [Next]_vars, ClientWithPipe(ClientPipe),
           NEW c \in Conns
    PROVE  UpFlow(c)' /\ UpDone(c)'
  <1>0. UpFlow(c) /\ UpDone(c)
    BY DEF FlowInv
  <1>1. UNCHANGED <<loop_held, app_sent, a_task>> /\ UNCHANGED serverVars
    BY DEF ClientWithPipe, serverVars, loopVars, ClientPipe, DemuxStep, ClientWriter,
           ClientWriterFail, DemuxPing, DemuxData, DemuxDeliver, DemuxClose, DemuxIgnore, DemuxEof,
           appVars
  <1>2. UpStill(c)
    BY <1>1, UpStillClient DEF UpSender
  <1>3. UpBase(c) \in Nat /\ app_sent[c] \in Nat
    BY FlowTypes
  <1>4. ASSUME UpWay(c)
        PROVE  Carried(c, loop_held, c2s', out_tx', link', UpBase(c), app_sent[c], UpSender(c))
    <2>0. Carried(c, loop_held, c2s, out_tx, link, UpBase(c), app_sent[c], UpSender(c))
      BY <1>4 DEF UpWay
    <2>1. CASE ClientWriter
      <3>1. /\ out_tx # <<>> /\ link = "up" /\ link' = link
            /\ c2s' = Append(c2s, Head(out_tx)) /\ out_tx' = Tail(out_tx)
        BY <2>1 DEF ClientWriter
      <3>2. Carried(c, loop_held, Append(c2s, Head(out_tx)), Tail(out_tx), link, UpBase(c),
                    app_sent[c], UpSender(c))
        BY <1>3, <2>0, <3>1, QueueTypes, CarriedMove
      <3>. QED
        BY <3>1, <3>2
    <2>2. CASE ClientWriterFail
      <3>1. link # "up" /\ UNCHANGED <<link, c2s>>
        BY <2>2 DEF ClientWriterFail, linkVars
      <3>. QED
        BY <1>3, <2>0, <3>1, CarriedDown
    <2>3. CASE DemuxPing
      <3>. DEFINE f == [Head(s2c) EXCEPT !.cmd = "PONG"]
      <3>1. f \in RightFrame /\ f.conn # c /\ (out_tx' = Append(out_tx, f) \/ out_tx' = out_tx)
        BY <2>3, PongFrame DEF DemuxPing, DemuxReads, SendOut, SendOutFails, outVars
      <3>2. UNCHANGED <<link, c2s>>
        BY <2>3 DEF DemuxPing, DemuxReads
      <3>. HIDE DEF f
      <3>3. ~ IsData(f, c) /\ ~ IsEnd(f, c)
        BY <3>1, OtherFrame
      <3>4. Carried(c, loop_held, c2s, Append(out_tx, f), link, UpBase(c), app_sent[c], UpSender(c))
        BY <1>3, <2>0, <3>1, <3>3, QueueTypes, CarriedSendOther
      <3>. QED
        BY <2>0, <3>1, <3>2, <3>4
    <2>4. CASE DemuxData \/ DemuxDeliver \/ DemuxClose \/ DemuxIgnore \/ DemuxEof
      <3>1. UNCHANGED <<out_tx, c2s, link>>
        BY <2>4 DEF DemuxData, DemuxDeliver, DemuxClose, DemuxIgnore, DemuxEof, DemuxReads, outVars,
                    linkVars
      <3>. QED
        BY <2>0, <3>1
    <2>. QED
      BY <2>1, <2>2, <2>3, <2>4 DEF ClientWithPipe, ClientPipe, DemuxStep
  <1>. QED
    BY <1>0, <1>1, <1>2, <1>4, UpStillLemma

\* An entry that a task of the server takes from its map is its own.
LEMMA TcpChansOf ==
    ASSUME RoutingInv, IdsDistinct, NEW c \in Conns, NEW d \in Conns, c # d, task_pc[d] # "none"
    PROVE  [tcp_chans EXCEPT ![task_ch[d]] = NoConn][ids[c]] = tcp_chans[ids[c]]
  <1>1. task_ch[d] = ids[d] /\ ids[d] # 0 /\ ids[c] # ids[d] /\ ids[c] \in 0 .. MaxId
    BY ServerTypes, MapsOwn
  <1>. QED
    BY <1>1, ServerTypes

LEMMA UpServerLocal ==
    ASSUME RoutingInv, IdsDistinct, LifeInv, FlowInv, [Next]_vars, ServerOnly(ServerLocal),
           NEW c \in Conns
    PROVE  UpFlow(c)' /\ UpDone(c)'
  <1>0. UpFlow(c) /\ UpDone(c) /\ TaskLife(c)
    BY DEF FlowInv, LifeInv
  <1>1. /\ UNCHANGED <<c2s, out_tx, link, app_sent, a_task, ids>>
    BY DEF ServerOnly, linkVars, clientVars, outVars, appVars, allocVars
  <1>2. PICK d \in Conns :
           \/ ConnectOk(d) \/ ConnectFails(d) \/ SendStop(d) \/ FailRemove(d)
           \/ WWrite(d) \/ WFail(d) \/ WEnd(d)
           \/ RReadData(d) \/ RReadEnd(d) \/ RSendEof(d)
           \/ TaskRemove(d)
    BY DEF ServerOnly, ServerLocal
  <1>3. loop_held' = loop_held
    BY <1>2
    DEF loopVars, ConnectOk, ConnectFails, SendStop, FailRemove, WWrite, WFail, WEnd, RReadData,
        RReadEnd, RSendEof, TaskRemove
  <1>4. UpSender(c)' = UpSender(c)
    BY <1>1 DEF UpSender
  <1>5. UpWay(c) => Carried(c, loop_held', c2s', out_tx', link', UpBase(c), app_sent[c], UpSender(c))
    BY <1>1, <1>3 DEF UpWay
  <1>6. task_pc[d] # "none"
    BY <1>2
    DEF ConnectOk, ConnectFails, SendStop, FailRemove, WWrite, WFail, WEnd, RReadData, RReadEnd,
        RSendEof, TaskRemove, RoutingInv, RightTasks
  <1>7. task_pc[c] = "none" => task_pc'[c] = "none"
    BY TasksStay
  <1>8. CASE c # d
    <2>1. UNCHANGED tcp_chans \/ tcp_chans' = [tcp_chans EXCEPT ![task_ch[d]] = NoConn]
      BY ONLY <1>2
      DEF ConnectOk, ConnectFails, SendStop, FailRemove, WWrite, WFail, WEnd, RReadData, RReadEnd,
          RSendEof, TaskRemove
    <2>2. tcp_chans'[ids[c]] = tcp_chans[ids[c]]
      BY <1>6, <1>8, <2>1, TcpChansOf
    <2>3. task_pc'[c] = task_pc[c] /\ w_task'[c] = w_task[c]
      BY <1>2, <1>8, ServerTypes
      DEF ConnectOk, ConnectFails, SendStop, FailRemove, WWrite, WFail, WEnd, RReadData, RReadEnd,
          RSendEof, TaskRemove, taskVars
    <2>4. tgt_got'[c] = tgt_got[c] /\ inbound'[c] = inbound[c]
      BY <1>2, <1>8, FunctionTypes
      DEF ConnectOk, ConnectFails, SendStop, FailRemove, WWrite, WFail, WEnd, RReadData, RReadEnd,
          RSendEof, TaskRemove, tgtVars
    <2>5. UpStill(c)
      BY <1>1, <1>4, <2>2, <2>3, <2>4 DEF UpStill, UpLive
    <2>. QED
      BY <1>0, <1>5, <2>5, UpStillLemma
  <1>9. CASE c = d
    <2>1. ASSUME ~ UpLive(c)', tgt_got' = tgt_got
          PROVE  UpFlow(c)' /\ UpDone(c)'
      BY <1>0, <2>1 DEF UpFlow, UpDone
    <2>2. ASSUME UNCHANGED <<tgt_got, inbound, tcp_chans>>, UpLive(c)' => UpLive(c)
          PROVE  UpFlow(c)' /\ UpDone(c)'
      <3>1. UpStill(c)
        BY <1>1, <1>4, <1>6, <1>9, <2>2 DEF UpStill
      <3>. QED
        BY <1>0, <1>5, <3>1, UpStillLemma
    <2>3. CASE ConnectOk(d)
      <3>1. UNCHANGED <<tgt_got, inbound, tcp_chans>> /\ task_pc[c] = "connecting"
        BY <1>9, <2>3 DEF ConnectOk, tgtVars
      <3>. QED
        BY <2>2, <3>1 DEF UpLive
    <2>4. CASE ConnectFails(d) \/ SendStop(d)
      <3>1. UNCHANGED <<tgt_got, inbound, tcp_chans, w_task>> /\ task_pc'[c] \in {"failed", "removing"}
        BY <1>9, <2>4, ServerTypes DEF ConnectFails, SendStop, tgtVars
      <3>. QED
        BY <2>2, <3>1 DEF UpLive
    <2>5. CASE FailRemove(d)
      <3>1. task_pc[c] = "removing" /\ task_pc'[c] = "done" /\ UNCHANGED <<w_task, tgt_got>>
        BY <1>9, <2>5, ServerTypes DEF FailRemove, tgtVars
      <3>2. ~ UpLive(c)'
        BY <1>0, <3>1 DEF TaskLife, UpLive
      <3>. QED
        BY <2>1, <3>1, <3>2
    <2>6. CASE WWrite(d)
      <3>1. /\ inbound[c] # <<>>
            /\ tgt_got'[c] = Append(tgt_got[c], Head(inbound[c]))
            /\ inbound'[c] = Tail(inbound[c])
            /\ UNCHANGED <<tcp_chans, task_pc, w_task>>
            /\ w_task[c] = "run"
        BY <1>9, <2>6, FunctionTypes DEF WWrite, taskVars
      <3>2. inbound[c] \in Seq(ChunkFor(c)) /\ tgt_got[c] \in Seq(ChunkFor(c))
        BY FlowTypes
      <3>3. Numbered(tgt_got[c], 0) /\ Numbered(inbound[c], Len(tgt_got[c]))
        BY <1>0, <3>1 DEF UpFlow, UpLive
      <3>4. /\ Numbered(tgt_got'[c], 0)
            /\ Numbered(inbound'[c], Len(tgt_got'[c]))
            /\ Len(tgt_got'[c]) + Len(inbound'[c]) = Len(tgt_got[c]) + Len(inbound[c])
        <4>. DEFINE g == Append(tgt_got[c], Head(inbound[c]))
                    q == Tail(inbound[c])
        <4>1. inbound[c] # <<>>
          BY <3>1, <3>2
        <4>2. Numbered(g, 0) /\ Numbered(q, Len(g)) /\ Len(g) + Len(q) = Len(tgt_got[c]) + Len(inbound[c])
          BY ONLY <4>1, <3>2, <3>3, NumberedTake
        <4>3. tgt_got'[c] = g /\ inbound'[c] = q
          BY ONLY <3>1
        <4>. HIDE DEF g, q
        <4>. QED
          BY ONLY <4>2, <4>3
      <3>5. UpBase(c)' = UpBase(c)
        BY <3>4 DEF UpBase
      <3>6. UpLive(c)' = UpLive(c) /\ UpLive(c)
        BY <3>1 DEF UpLive
      <3>7. UpWay(c)'
        <4>1. Carried(c, loop_held', c2s', out_tx', link', UpBase(c)', app_sent'[c], UpSender(c)')
          BY <1>0, <1>1, <1>4, <1>5, <3>5, <3>6 DEF UpFlow
        <4>. QED
          BY <4>1 DEF UpWay
      <3>8. UpFlow(c)'
        BY <3>4, <3>7 DEF UpFlow
      <3>9. UpDone(c)'
        BY <1>0, <1>1, <1>4, <3>1, <3>5, <3>6 DEF UpDone
      <3>. QED
        BY <3>8, <3>9
    <2>7. CASE WFail(d) \/ WEnd(d)
      <3>1. /\ UNCHANGED <<tgt_got, task_pc>> /\ w_task[c] = "run" /\ w_task'[c] = "done"
        BY <1>9, <2>7, ServerTypes DEF WFail, WEnd, taskVars, tgtVars
      <3>2. ~ UpLive(c)'
        BY <1>0, <3>1 DEF TaskLife, UpLive
      <3>. QED
        BY <2>1, <3>1, <3>2
    <2>8. CASE RReadData(d) \/ RReadEnd(d) \/ RSendEof(d)
      <3>1. UNCHANGED <<tgt_got, inbound, tcp_chans, task_pc, w_task>>
        BY <2>8 DEF RReadData, RReadEnd, RSendEof, taskVars, tgtVars
      <3>. QED
        BY <2>2, <3>1 DEF UpLive
    <2>9. CASE TaskRemove(d)
      <3>1. /\ UNCHANGED <<tgt_got, w_task>> /\ w_task[c] = "done" /\ task_pc'[c] = "done"
        BY <1>9, <2>9, ServerTypes DEF TaskRemove, tgtVars
      <3>2. ~ UpLive(c)'
        BY <3>1 DEF UpLive
      <3>. QED
        BY <2>1, <3>1, <3>2
    <2>. QED
      BY <1>2, <2>3, <2>4, <2>5, <2>6, <2>7, <2>8, <2>9
  <1>. QED
    BY <1>8, <1>9

LEMMA UpSkip ==
    ASSUME RoutingInv, IdsDistinct, NEW c \in Conns, c2s # <<>>, ~ IsData(Head(c2s), c),
           c2s' = Tail(c2s), UNCHANGED <<loop_held, out_tx, link>>, UpWay(c)
    PROVE  Carried(c, loop_held', c2s', out_tx', link', UpBase(c), app_sent[c], UpSender(c))
  <1>1. Carried(c, loop_held, Tail(c2s), out_tx, link, UpBase(c), app_sent[c], UpSender(c))
    BY FlowTypes, QueueTypes, CarriedSkip DEF UpWay
  <1>. QED
    BY <1>1

LEMMA HeldLemma ==
    ASSUME NEW S, NEW q \in Seq(S), Len(q) <= 1, q # <<>>
    PROVE  q = <<Head(q)>> /\ Head(q) \in S
  <1>1. /\ Len(q) \in Nat /\ Len(q) # 0
        /\ DOMAIN q = 1 .. Len(q)
        /\ Head(q) = q[1] /\ Head(q) \in S
    OBVIOUS
  <1>2. Len(q) = 1
    BY <1>1
  <1>3. <<Head(q)>> \in Seq(S) /\ Len(<<Head(q)>>) = 1 /\ <<Head(q)>>[1] = Head(q)
    BY <1>1
  <1>4. \A k \in 1 .. Len(q) : q[k] = <<Head(q)>>[k]
    BY <1>1, <1>2, <1>3
  <1>. QED
    BY <1>1, <1>2, <1>3, <1>4, SeqEqual

\* The frame in the server's hands goes to the queue of its own connection.
LEMMA LoopHolds ==
    ASSUME RoutingInv, IdsDistinct, LifeInv, loop_held # <<>>
    PROVE  /\ loop_held = <<Head(loop_held)>>
           /\ Head(loop_held).conn \in Conns
           /\ IsData(Head(loop_held), Head(loop_held).conn)
           /\ Head(loop_held).n \in Nat
           /\ tcp_chans[Head(loop_held).channel] = Head(loop_held).conn
           /\ task_pc[Head(loop_held).conn] # "none"
  <1>. DEFINE f == Head(loop_held)
  <1>1. loop_held \in Seq(DataFrame) /\ Len(loop_held) <= 1 /\ f \in RightFrame
    BY QueueTypes, HeadLemma DEF RoutingInv, TypeOK, ServerTypeOK
  <1>2. f \in DataFrame /\ loop_held = <<f>>
    BY ONLY <1>1, loop_held # <<>>, HeldLemma
  <1>3. f.cmd = "DATA" /\ f.n \in Nat
    BY <1>2 DEF DataFrame
  <1>4. /\ f.conn \in Conns /\ ids[f.conn] # 0 /\ f.channel = ids[f.conn]
    BY <1>1, <1>3, FrameOf DEF TcpCmds
  <1>5. tcp_chans[f.channel] # NoConn
    BY DEF LifeInv, HeldIsOpen
  <1>6. tcp_chans[f.channel] = f.conn /\ ids[f.conn] \in 0 .. MaxId
    BY <1>4, <1>5, MapsOwn
  <1>7. task_pc[f.conn] # "none"
    BY <1>4, <1>6 DEF LifeInv, TaskLife
  <1>8. IsData(f, f.conn)
    BY <1>3 DEF IsData
  <1>. QED
    BY <1>2, <1>3, <1>4, <1>6, <1>7, <1>8

LEMMA UpDeliver ==
    ASSUME RoutingInv, IdsDistinct, LifeInv, FlowInv, SDeliver, UNCHANGED clientVars,
           NEW c \in Conns
    PROVE  UpFlow(c)' /\ UpDone(c)'
  <1>0. UpFlow(c) /\ UpDone(c)
    BY DEF FlowInv
  <1>1. /\ UNCHANGED <<c2s, out_tx, link, app_sent, a_task, ids, tgt_got, task_pc, w_task, tcp_chans>>
        /\ loop_held # <<>> /\ loop_held' = <<>>
    BY DEF SDeliver, linkVars, clientVars, outVars, appVars, allocVars, taskVars, tgtVars
  <1>. DEFINE f == Head(loop_held)
              d == f.conn
  <1>2. /\ loop_held = <<f>> /\ d \in Conns /\ IsData(f, d) /\ f.n \in Nat
        /\ tcp_chans[f.channel] = d /\ task_pc[d] # "none"
    BY <1>1, LoopHolds
  <1>3. \/ InboundAlive(d) /\ inbound' = [inbound EXCEPT ![d] = Append(@, ChunkOf(f))]
        \/ ~ InboundAlive(d) /\ inbound' = inbound
    BY <1>2 DEF SDeliver
  <1>4. UpSender(c)' = UpSender(c) /\ UpLive(c)' = UpLive(c)
    BY <1>1 DEF UpSender, UpLive
  <1>5. UpBase(c) \in Nat /\ app_sent[c] \in Nat
    BY FlowTypes
  <1>6. UpWay(c) =>
          /\ IsData(f, c) =>
               /\ f.n = UpBase(c) + 1
               /\ UpBase(c) < app_sent[c]
               /\ Carried(c, <<>>, c2s, out_tx, link, UpBase(c) + 1, app_sent[c], UpSender(c))
          /\ ~ IsData(f, c) =>
               Carried(c, <<>>, c2s, out_tx, link, UpBase(c), app_sent[c], UpSender(c))
    <2>1. UpWay(c) => Carried(c, <<f>>, c2s, out_tx, link, UpBase(c), app_sent[c], UpSender(c))
      BY <1>2 DEF UpWay
    <2>. HIDE DEF f
    <2>. QED
      BY <1>5, <2>1, CarriedDeliver
  <1>7. CASE c # d
    <2>1. inbound'[c] = inbound[c]
      BY <1>2, <1>3, <1>7, FunctionTypes
    <2>2. ~ IsData(f, c)
      BY <1>7, OtherFrame
    <2>3. UpStill(c)
      BY <1>1, <1>4, <2>1 DEF UpStill
    <2>4. UpWay(c) => Carried(c, loop_held', c2s', out_tx', link', UpBase(c), app_sent[c], UpSender(c))
      BY <1>1, <1>6, <2>2
    <2>. QED
      BY <1>0, <2>3, <2>4, UpStillLemma
  <1>8. CASE c = d /\ ~ UpLive(c)
    BY <1>0, <1>1, <1>4, <1>8 DEF UpFlow, UpDone
  <1>9. CASE c = d /\ UpLive(c)
    <2>1. InboundAlive(d)
      BY <1>2, <1>9 DEF UpLive, InboundAlive
    <2>. DEFINE q == inbound[c]
                e == ChunkOf(f)
    <2>2. inbound'[c] = Append(q, e)
      BY <1>2, <1>3, <1>9, <2>1, FunctionTypes
    <2>3. UpWay(c) /\ Numbered(q, Len(tgt_got[c]))
      BY <1>0, <1>9 DEF UpFlow
    <2>4. f.n = UpBase(c) + 1 /\ UpBase(c) < app_sent[c]
      BY <1>2, <1>6, <1>9, <2>3
    <2>5. Carried(c, <<>>, c2s, out_tx, link, UpBase(c) + 1, app_sent[c], UpSender(c))
      BY <1>2, <1>6, <1>9, <2>3
    <2>6. q \in Seq(ChunkFor(c)) /\ Len(tgt_got[c]) \in Nat /\ Len(q) \in Nat
      BY FlowTypes
    <2>7. e \in ChunkFor(c) /\ e.n = Len(tgt_got[c]) + Len(q) + 1
      BY <1>2, <1>9, <2>4 DEF ChunkOf, ChunkFor, UpBase
    <2>. HIDE DEF e
    <2>8. Numbered(Append(q, e), Len(tgt_got[c])) /\ Len(Append(q, e)) = Len(q) + 1
      BY <2>3, <2>6, <2>7, NumberedAppend
    <2>9. UpBase(c)' = UpBase(c) + 1
      <3>1. \A m, n \in Nat : m + (n + 1) = m + n + 1
        OBVIOUS
      <3>2. Len(tgt_got[c]) + (Len(q) + 1) = Len(tgt_got[c]) + Len(q) + 1
        BY <2>6, <3>1
      <3>. QED
        BY <1>1, <2>2, <2>8, <3>2 DEF UpBase
    <2>10. UpWay(c)'
      <3>1. Carried(c, loop_held', c2s', out_tx', link', UpBase(c)', app_sent'[c], UpSender(c)')
        BY <1>1, <1>4, <2>5, <2>9
      <3>. QED
        BY <3>1 DEF UpWay
    <2>11. UpFlow(c)'
      BY <1>0, <1>1, <2>2, <2>8, <2>10 DEF UpFlow
    <2>12. UpDone(c)'
      <3>1. UpBase(c) # app_sent[c]
        BY <1>5, <2>4
      <3>. QED
        BY <1>0, <1>1, <1>4, <3>1 DEF UpDone
    <2>. QED
      BY <2>11, <2>12
  <1>. QED
    BY <1>7, <1>8, <1>9

LEMMA UpData ==
    ASSUME RoutingInv, IdsDistinct, LifeInv, FlowInv, SData, UNCHANGED clientVars, NEW c \in Conns
    PROVE  UpFlow(c)' /\ UpDone(c)'
  <1>0. UpFlow(c) /\ UpDone(c) /\ Announced(c)
    BY DEF FlowInv, LifeInv
  <1>. DEFINE f == Head(c2s)
  <1>1. /\ UNCHANGED <<out_tx, link, app_sent, a_task, ids, tgt_got, inbound, task_pc, w_task,
                       tcp_chans>>
        /\ loop_held = <<>> /\ c2s # <<>> /\ c2s' = Tail(c2s) /\ f.cmd = "DATA"
        /\ \/ loop_held' = <<f>>
           \/ loop_held' = <<>> /\ tcp_chans[f.channel] = NoConn
    BY DEF SData, LoopReads, clientVars, outVars, appVars, allocVars, taskVars, tgtVars
  <1>2. UpStill(c)
    BY <1>1 DEF UpStill, UpSender, UpLive
  <1>3. UpBase(c) \in Nat /\ app_sent[c] \in Nat /\ c2s \in Seq(RightFrame) /\ f \in RightFrame
    BY <1>1, FlowTypes, QueueTypes, HeadLemma
  <1>4. ASSUME UpLive(c), UpWay(c)
        PROVE  Carried(c, loop_held', c2s', out_tx', link', UpBase(c), app_sent[c], UpSender(c))
    <2>0. Carried(c, loop_held, c2s, out_tx, link, UpBase(c), app_sent[c], UpSender(c))
      BY <1>4 DEF UpWay
    <2>1. CASE loop_held' = <<f>>
      <3>1. Carried(c, <<f>>, Tail(c2s), out_tx, link, UpBase(c), app_sent[c], UpSender(c))
        BY <1>1, <1>3, <2>0, CarriedHold
      <3>. QED
        BY <1>1, <2>1, <3>1
    <2>2. CASE loop_held' = <<>> /\ tcp_chans[f.channel] = NoConn
      <3>1. ~ IsData(f, c)
        <4>. SUFFICES ASSUME IsData(f, c) PROVE FALSE
          OBVIOUS
        <4>1. f.conn = c
          BY DEF IsData
        <4>2. f.channel = ids[c] /\ c # NoConn
          BY <1>1, <1>3, <4>1, FrameOf, MapsOwn DEF TcpCmds
        <4>3. task_pc[c] # "none"
          <5>1. ~ IsConnect(f, c)
            BY <1>1 DEF IsConnect
          <5>2. ~ ConnectLeads(c2s, c)
            BY <1>1, <1>3, <4>1, <5>1, TailFrame
          <5>. QED
            BY <1>0, <5>2 DEF Announced
        <4>4. UpBase(c) = app_sent[c]
          BY <1>0, <1>4, <2>2, <4>2, <4>3 DEF UpDone
        <4>5. UpBase(c) < app_sent[c]
          BY <1>1, <1>3, <2>0, CarriedRead
        <4>. QED
          BY <1>3, <4>4, <4>5
      <3>. QED
        BY <1>1, <1>4, <2>2, <3>1, UpSkip
    <2>. QED
      BY <1>1, <2>1, <2>2
  <1>. QED
    BY <1>0, <1>2, <1>4, UpStillLemma

LEMMA UpClose ==
    ASSUME RoutingInv, IdsDistinct, LifeInv, FlowInv, SClose, UNCHANGED clientVars, NEW c \in Conns
    PROVE  UpFlow(c)' /\ UpDone(c)'
  <1>0. UpFlow(c) /\ UpDone(c)
    BY DEF FlowInv
  <1>. DEFINE f == Head(c2s)
  <1>1. /\ UNCHANGED <<out_tx, link, app_sent, a_task, ids, tgt_got, inbound, task_pc, w_task,
                       loop_held>>
        /\ loop_held = <<>> /\ c2s # <<>> /\ c2s' = Tail(c2s) /\ f.cmd \in {"EOF", "STOP"}
        /\ tcp_chans' = [tcp_chans EXCEPT ![f.channel] = NoConn]
    BY DEF SClose, LoopReads, clientVars, outVars, appVars, allocVars, taskVars, tgtVars
  <1>2. c2s \in Seq(RightFrame) /\ f \in RightFrame
    BY <1>1, QueueTypes, HeadLemma
  <1>3. f.conn \in Conns /\ ids[f.conn] # 0 /\ f.channel = ids[f.conn] /\ f.channel \in 0 .. MaxId
    BY <1>1, <1>2, FrameOf DEF TcpCmds
  <1>4. ~ IsData(f, c)
    BY <1>1, OwnFrame
  <1>5. UpSender(c)' = UpSender(c) /\ UpLive(c)' = UpLive(c) /\ UpBase(c)' = UpBase(c)
    BY <1>1 DEF UpSender, UpLive, UpBase
  <1>6. UpWay(c) => Carried(c, loop_held', c2s', out_tx', link', UpBase(c), app_sent[c], UpSender(c))
    BY <1>1, <1>4, UpSkip
  <1>7. CASE f.conn # c
    <2>1. tcp_chans'[ids[c]] = tcp_chans[ids[c]]
      BY <1>1, <1>3, <1>7, MapsOwn, ServerTypes
    <2>2. UpStill(c)
      BY <1>1, <1>5, <2>1 DEF UpStill
    <2>. QED
      BY <1>0, <1>6, <2>2, UpStillLemma
  <1>8. CASE f.conn = c
    <2>1. IsEnd(f, c)
      BY <1>1, <1>8, OwnFrame
    <2>2. UpWay(c) => UpBase(c) = app_sent[c] /\ UpSender(c) = "over"
      BY <1>1, <1>2, <2>1, FlowTypes, CarriedRead DEF UpWay
    <2>3. UpWay(c) => UpWay(c)'
      <3>1. UpWay(c) => Carried(c, loop_held', c2s', out_tx', link', UpBase(c)', app_sent'[c], UpSender(c)')
        BY <1>1, <1>5, <1>6
      <3>. QED
        BY <3>1 DEF UpWay
    <2>4. UpFlow(c)'
      BY <1>0, <1>1, <1>5, <2>3 DEF UpFlow
    <2>5. UpDone(c)'
      BY <1>0, <1>1, <1>5, <2>2 DEF UpFlow, UpDone
    <2>. QED
      BY <2>4, <2>5
  <1>. QED
    BY <1>7, <1>8

LEMMA UpServerPipe ==
    ASSUME RoutingInv, IdsDistinct, LifeInv, FlowInv, ServerWithPipe(ServerPipe), NEW c \in Conns
    PROVE  UpFlow(c)' /\ UpDone(c)'
  <1>0. UpFlow(c) /\ UpDone(c)
    BY DEF FlowInv
  <1>a. UNCHANGED clientVars /\ UNCHANGED <<out_tx, app_sent, a_task, ids>>
    BY DEF ServerWithPipe, clientVars, outVars, appVars, allocVars
  <1>b. UpSender(c)' = UpSender(c)
    BY <1>a DEF UpSender
  <1>1. CASE SConnect
    <2>. DEFINE d == Head(c2s).conn
    <2>1. d \in Conns /\ task_pc[d] = "none" /\ ids[d] # 0 /\ Head(c2s).channel = ids[d]
      BY <1>1, ConnectIsNew
    <2>2. /\ UNCHANGED <<tgt_got, inbound, w_task, loop_held, link>>
          /\ c2s # <<>> /\ c2s' = Tail(c2s) /\ Head(c2s).cmd = "CONNECT"
          /\ tcp_chans' = [tcp_chans EXCEPT ![ids[d]] = d]
          /\ task_pc' = [task_pc EXCEPT ![d] = "connecting"]
      BY <1>1, <2>1 DEF SConnect, LoopReads, tgtVars
    <2>3. ~ IsData(Head(c2s), c)
      BY <2>2, OwnFrame
    <2>4. UpWay(c) => Carried(c, loop_held', c2s', out_tx', link', UpBase(c), app_sent[c], UpSender(c))
      BY <1>a, <2>2, <2>3, UpSkip
    <2>. HIDE DEF d
    <2>5. CASE c = d
      <3>1. tcp_chans'[ids[c]] = c /\ UpLive(c)
        BY <2>1, <2>2, <2>5, MapsOwn, ServerTypes DEF UpLive
      <3>2. UpStill(c)
        BY <1>a, <1>b, <2>2, <3>1 DEF UpStill
      <3>. QED
        BY <1>0, <2>4, <3>2, UpStillLemma
    <2>6. CASE c # d
      <3>1. tcp_chans'[ids[c]] = tcp_chans[ids[c]]
        BY <2>1, <2>2, <2>6, MapsOwn, ServerTypes
      <3>2. task_pc'[c] = task_pc[c]
        BY <2>1, <2>2, <2>6, ServerTypes
      <3>3. UpStill(c)
        BY <1>a, <1>b, <2>2, <3>1, <3>2 DEF UpStill, UpLive
      <3>. QED
        BY <1>0, <2>4, <3>3, UpStillLemma
    <2>. QED
      BY <2>5, <2>6
  <1>2. CASE SPong
    <2>1. /\ UNCHANGED <<tgt_got, inbound, task_pc, w_task, tcp_chans, loop_held, link>>
          /\ c2s # <<>> /\ c2s' = Tail(c2s) /\ Head(c2s).cmd = "PONG"
      BY <1>2 DEF SPong, LoopReads, tgtVars, taskVars
    <2>2. ~ IsData(Head(c2s), c)
      BY <2>1 DEF IsData
    <2>3. UpStill(c)
      BY <1>a, <1>b, <2>1 DEF UpStill, UpLive
    <2>. QED
      BY <1>0, <1>a, <2>1, <2>2, <2>3, UpSkip, UpStillLemma
  <1>3. CASE SStdinEof \/ SExit \/ ServerWriter \/ ServerWriterFail
    <2>1. UNCHANGED <<tgt_got, inbound, task_pc, w_task, tcp_chans, loop_held, link, c2s>>
      BY <1>3 DEF SStdinEof, SExit, ServerWriter, ServerWriterFail, tgtVars, taskVars, linkVars, loopVars
    <2>2. UpStill(c)
      BY <1>a, <1>b, <2>1 DEF UpStill, UpLive
    <2>3. UpWay(c) => Carried(c, loop_held', c2s', out_tx', link', UpBase(c), app_sent[c], UpSender(c))
      BY <1>a, <2>1 DEF UpWay
    <2>. QED
      BY <1>0, <2>2, <2>3, UpStillLemma
  <1>. QED
    BY <1>a, <1>1, <1>2, <1>3, UpData, UpDeliver, UpClose DEF ServerWithPipe, ServerPipe, LoopStep

\* Every step of the tunnel keeps in order what flows from a client to a target.
LEMMA UpStep ==
    ASSUME RoutingInv, IdsDistinct, LifeInv, FlowInv, [Next]_vars, NEW c \in Conns
    PROVE  UpFlow(c)' /\ UpDone(c)'
  <1>0. UpFlow(c) /\ UpDone(c)
    BY DEF FlowInv
  <1>1. CASE LoseLink
    <2>1. /\ UNCHANGED <<out_tx, app_sent, a_task, ids, loop_held, tgt_got, inbound, task_pc, w_task,
                         tcp_chans>>
          /\ link' # "up" /\ \E m \in 0 .. Len(c2s) : c2s' = SubSeq(c2s, 1, m)
      BY <1>1 DEF LoseLink, LinkDown, clientVars, serverVars, outVars, appVars, allocVars, loopVars,
                  tgtVars, taskVars
    <2>2. UpStill(c)
      BY <2>1 DEF UpStill, UpSender, UpLive
    <2>3. ASSUME UpWay(c)
          PROVE  Carried(c, loop_held', c2s', out_tx', link', UpBase(c), app_sent[c], UpSender(c))
      <3>1. PICK m \in 0 .. Len(c2s) : c2s' = SubSeq(c2s, 1, m)
        BY <2>1
      <3>2. Carried(c, loop_held, SubSeq(c2s, 1, m), out_tx, link', UpBase(c), app_sent[c], UpSender(c))
        BY <2>1, <2>3, FlowTypes, QueueTypes, CarriedCut DEF UpWay
      <3>. QED
        BY <2>1, <3>1, <3>2
    <2>. QED
      BY <1>0, <2>2, <2>3, UpStillLemma
  <1>2. CASE UNCHANGED vars
    <2>1. UNCHANGED <<out_tx, app_sent, a_task, ids, loop_held, tgt_got, inbound, task_pc, w_task,
                      tcp_chans, c2s, link>>
      BY <1>2 DEF vars, linkVars, clientVars, serverVars, outVars, appVars, allocVars, loopVars,
                  tgtVars, taskVars
    <2>2. UpStill(c)
      BY <2>1 DEF UpStill, UpSender, UpLive
    <2>3. UpWay(c) => Carried(c, loop_held', c2s', out_tx', link', UpBase(c), app_sent[c], UpSender(c))
      BY <2>1 DEF UpWay
    <2>. QED
      BY <1>0, <2>2, <2>3, UpStillLemma
  <1>. QED
    BY <1>1, <1>2, UpClient, UpClientPipe, UpServerLocal, UpServerPipe DEF Next
-----------------------------------------------------------------------------
(* Steps: from the target to the application *)

\* A step that neither moves nor ends what flows down on c, but for the frames on
\* their way.
DownStill(c) ==
    /\ app_got'[c] = app_got[c] /\ in_rx'[c] = in_rx[c] /\ tgt_sent'[c] = tgt_sent[c]
    /\ DownSender(c)' = DownSender(c)
    /\ DownLive(c)' => DownLive(c)
    /\ b_task'[c] = "run" /\ channels'[ids'[c]] # c => b_task[c] = "run" /\ channels[ids[c]] # c

LEMMA DownStillLemma ==
    ASSUME NEW c \in Conns, DownFlow(c), DownDone(c), DownStill(c),
           DownLive(c) /\ DownWay(c) /\ DownLive(c)' =>
             Carried(c, demux_held', s2c', srv_out', link', DownBase(c), tgt_sent[c], DownSender(c))
    PROVE  DownFlow(c)' /\ DownDone(c)'
  <1>1. DownBase(c)' = DownBase(c) /\ DownSender(c)' = DownSender(c) /\ tgt_sent'[c] = tgt_sent[c]
    BY DEF DownStill, DownBase
  <1>2. DownLive(c)' => DownWay(c)'
    <2>. SUFFICES ASSUME DownLive(c)' PROVE DownWay(c)'
      OBVIOUS
    <2>1. Carried(c, demux_held', s2c', srv_out', link', DownBase(c), tgt_sent[c], DownSender(c))
      BY DEF DownStill, DownFlow
    <2>2. Carried(c, demux_held', s2c', srv_out', link', DownBase(c)', tgt_sent'[c], DownSender(c)')
      BY ONLY <1>1, <2>1
    <2>. QED
      BY <2>2 DEF DownWay
  <1>3. DownFlow(c)'
    BY <1>2 DEF DownFlow, DownStill, Numbered
  <1>4. DownDone(c)'
    BY <1>1 DEF DownDone, DownStill
  <1>. QED
    BY <1>3, <1>4

LEMMA DownStillServer ==
    ASSUME UNCHANGED clientVars, NEW c \in Conns,
           tgt_sent'[c] = tgt_sent[c], DownSender(c)' = DownSender(c)
    PROVE  DownStill(c)
  <1>1. UNCHANGED <<app_got, in_rx, conn_pc, b_task, channels, ids>>
    BY DEF clientVars, allocVars, appVars
  <1>. QED
    BY <1>1 DEF DownStill, DownLive

\* The sender of c is done without a frame, or with a chunk that is lost.
LEMMA DownOver ==
    ASSUME RoutingInv, IdsDistinct, FlowInv, UNCHANGED <<clientVars, linkVars>>, NEW c \in Conns,
           srv_out' = srv_out, DownSender(c)' = "over",
           \/ tgt_sent'[c] = tgt_sent[c]
           \/ tgt_sent'[c] = tgt_sent[c] + 1 /\ DownSender(c) # "over" /\ link # "up"
    PROVE  DownFlow(c)' /\ DownDone(c)'
  <1>0. DownFlow(c) /\ DownDone(c)
    BY DEF FlowInv
  <1>1. UNCHANGED <<app_got, in_rx, conn_pc, b_task, channels, ids, demux_held, s2c, link>>
    BY DEF clientVars, allocVars, appVars, demuxVars, linkVars
  <1>2. DownLive(c)' = DownLive(c) /\ DownBase(c)' = DownBase(c)
    BY <1>1 DEF DownLive, DownBase
  <1>3. DownBase(c) \in Nat /\ tgt_sent[c] \in Nat
    BY FlowTypes
  <1>4. DownWay(c) => DownWay(c)'
    <2>. SUFFICES ASSUME DownWay(c) PROVE DownWay(c)'
      OBVIOUS
    <2>0. Carried(c, demux_held, s2c, srv_out, link, DownBase(c), tgt_sent[c], DownSender(c))
      BY DEF DownWay
    <2>1. Carried(c, demux_held, s2c, srv_out, link, DownBase(c), tgt_sent'[c], "over")
      BY <1>3, <2>0, CarriedOver, CarriedDown
    <2>2. Carried(c, demux_held', s2c', srv_out', link', DownBase(c)', tgt_sent'[c], DownSender(c)')
      BY <1>1, <1>2, <2>1
    <2>. QED
      BY <2>2 DEF DownWay
  <1>5. DownFlow(c)'
    BY <1>0, <1>1, <1>2, <1>4 DEF DownFlow, Numbered
  <1>6. DownDone(c)'
    BY <1>0, <1>1, <1>2 DEF DownDone
  <1>. QED
    BY <1>5, <1>6

LEMMA DownServerLocal ==
    ASSUME RoutingInv, IdsDistinct, LifeInv, FlowInv, ServerOnly(ServerLocal), NEW c \in Conns
    PROVE  DownFlow(c)' /\ DownDone(c)'
  <1>0. DownFlow(c) /\ DownDone(c) /\ TaskLife(c)
    BY DEF FlowInv, LifeInv
  <1>a. /\ UNCHANGED <<clientVars, linkVars>> /\ UNCHANGED clientVars
        /\ UNCHANGED <<demux_held, s2c, link, app_got, in_rx, conn_pc, b_task, channels, ids>>
    BY DEF ServerOnly, linkVars, clientVars, demuxVars, allocVars, appVars
  <1>b. srv_out \in Seq(RightFrame) /\ DownBase(c) \in Nat /\ tgt_sent[c] \in Nat
    BY FlowTypes, QueueTypes
  <1>1. ASSUME UNCHANGED srv_out, tgt_sent'[c] = tgt_sent[c], DownSender(c)' = DownSender(c)
        PROVE  DownFlow(c)' /\ DownDone(c)'
    <2>1. DownStill(c)
      BY <1>a, <1>1, DownStillServer
    <2>2. DownWay(c) =>
            Carried(c, demux_held', s2c', srv_out', link', DownBase(c), tgt_sent[c], DownSender(c))
      BY <1>a, <1>1 DEF DownWay
    <2>. QED
      BY <1>0, <2>1, <2>2, DownStillLemma
  <1>2. ASSUME NEW f \in RightFrame, srv_out' = Append(srv_out, f),
               tgt_sent'[c] = tgt_sent[c], DownSender(c)' = DownSender(c),
               ~ IsData(f, c), IsEnd(f, c) => DownSender(c) = "over"
        PROVE  DownFlow(c)' /\ DownDone(c)'
    <2>1. DownStill(c)
      BY <1>a, <1>2, DownStillServer
    <2>2. DownWay(c) => Carried(c, demux_held, s2c, Append(srv_out, f), link, DownBase(c),
                                tgt_sent[c], DownSender(c))
      BY <1>b, <1>2, CarriedSendOther, CarriedSendEnd DEF DownWay
    <2>3. DownWay(c) =>
            Carried(c, demux_held', s2c', srv_out', link', DownBase(c), tgt_sent[c], DownSender(c))
      BY <1>a, <1>2, <2>2
    <2>. QED
      BY <1>0, <2>1, <2>3, DownStillLemma
  <1>3. ASSUME NEW d \in Conns, RReadData(d) PROVE DownFlow(c)' /\ DownDone(c)'
    <2>. DEFINE f == TcpFrame(task_ch[d], "DATA", d, tgt_sent[d] + 1)
    <2>0. task_pc[d] = "relay" /\ r_task[d] = "run"
      BY <1>3 DEF RReadData, LifeInv, TaskLife
    <2>1. /\ f \in RightFrame /\ f.conn = d /\ f.n = tgt_sent[d] + 1 /\ IsData(f, d)
          /\ tgt_sent' = [tgt_sent EXCEPT ![d] = @ + 1] /\ UNCHANGED task_pc
      BY <1>3, <2>0, ServerFrames, SentFrame DEF RReadData, IsData, taskVars
    <2>2. \/ srv_out' = Append(srv_out, f) /\ r_task' = r_task
          \/ srv_out' = srv_out /\ r_task' = [r_task EXCEPT ![d] = "eof"] /\ srv_writer = "dead"
      BY <1>3 DEF RReadData, SrvSend, SrvSendFails, srvOutVars
    <2>3. CASE c # d
      <3>1. tgt_sent'[c] = tgt_sent[c] /\ r_task'[c] = r_task[c]
        BY <2>1, <2>2, <2>3, ServerTypes, FunctionTypes
      <3>2. DownSender(c)' = DownSender(c)
        BY <2>1, <3>1 DEF DownSender
      <3>3. ~ IsData(f, c) /\ ~ IsEnd(f, c)
        BY <2>1, <2>3, OtherFrame
      <3>. HIDE DEF f
      <3>. QED
        BY <1>1, <1>2, <2>1, <2>2, <3>1, <3>2, <3>3
    <2>4. CASE c = d
      <3>1. /\ DownSender(c) = "open" /\ tgt_sent'[c] = tgt_sent[c] + 1
        BY <2>0, <2>1, <2>4, FunctionTypes DEF DownSender
      <3>2. CASE srv_out' = Append(srv_out, f) /\ r_task' = r_task
        <4>1. DownSender(c)' = "open"
          BY <2>1, <3>1, <3>2 DEF DownSender
        <4>2. DownLive(c)' = DownLive(c) /\ DownBase(c)' = DownBase(c)
          BY <1>a DEF DownLive, DownBase
        <4>3. ASSUME DownWay(c) PROVE DownWay(c)'
          <5>1. Carried(c, demux_held, s2c, srv_out, link, DownBase(c), tgt_sent[c], "open")
            BY <3>1, <4>3 DEF DownWay
          <5>2. Carried(c, demux_held, s2c, Append(srv_out, f), link, DownBase(c), tgt_sent[c] + 1,
                        "open")
            BY <1>b, <2>1, <2>4, <5>1, CarriedSendData
          <5>3. Carried(c, demux_held', s2c', srv_out', link', DownBase(c)', tgt_sent'[c],
                        DownSender(c)')
            BY ONLY <1>a, <3>1, <3>2, <4>1, <4>2, <5>2
          <5>. QED
            BY <5>3 DEF DownWay
        <4>4. DownFlow(c)'
          BY <1>0, <1>a, <4>2, <4>3 DEF DownFlow, Numbered
        <4>5. DownDone(c)'
          <5>1. ~ (b_task[c] = "run" /\ channels[ids[c]] # c)
            BY <1>0, <3>1 DEF DownDone
          <5>. QED
            BY <1>a, <5>1 DEF DownDone
        <4>. QED
          BY <4>4, <4>5
      <3>3. CASE srv_out' = srv_out /\ r_task' = [r_task EXCEPT ![d] = "eof"] /\ srv_writer = "dead"
        <4>1. link # "up"
          BY <3>3 DEF LifeInv, DeadWriters
        <4>2. DownSender(c)' = "over"
          BY <2>4, <3>3, ServerTypes DEF DownSender
        <4>. QED
          BY <1>a, <3>1, <3>3, <4>1, <4>2, DownOver
      <3>. QED
        BY <2>2, <3>2, <3>3
    <2>. QED
      BY <2>3, <2>4
  <1>4. ASSUME NEW d \in Conns, RReadEnd(d) \/ ConnectFails(d) PROVE DownFlow(c)' /\ DownDone(c)'
    <2>1. UNCHANGED <<srv_out, tgt_sent>>
      BY <1>4 DEF RReadEnd, ConnectFails, srvOutVars, tgtVars
    <2>2. CASE c # d
      <3>1. r_task'[c] = r_task[c] /\ task_pc'[c] = task_pc[c]
        BY <1>4, <2>2, ServerTypes DEF RReadEnd, ConnectFails, taskVars
      <3>2. DownSender(c)' = DownSender(c)
        BY <3>1 DEF DownSender
      <3>. QED
        BY <1>1, <2>1, <3>2
    <2>3. CASE c = d
      <3>1. r_task'[c] = "eof" \/ task_pc'[c] = "failed"
        BY <1>4, <2>3, ServerTypes DEF RReadEnd, ConnectFails
      <3>2. DownSender(c)' = "over"
        BY <3>1 DEF DownSender
      <3>. QED
        BY <1>a, <2>1, <3>2, DownOver
    <2>. QED
      BY <2>2, <2>3
  <1>5. ASSUME NEW d \in Conns, NEW f \in RightFrame, f.conn = d, f.cmd \in {"EOF", "STOP"},
               srv_out' = Append(srv_out, f) \/ srv_out' = srv_out,
               tgt_sent' = tgt_sent, DownSender(c)' = DownSender(c), c = d => DownSender(c) = "over"
        PROVE  DownFlow(c)' /\ DownDone(c)'
    <2>1. ~ IsData(f, c) /\ (IsEnd(f, c) => c = d)
      BY <1>5 DEF IsData, IsEnd
    <2>. QED
      BY <1>1, <1>2, <1>5, <2>1
  <1>6. ASSUME NEW d \in Conns, SendStop(d) PROVE DownFlow(c)' /\ DownDone(c)'
    <2>. DEFINE f == TcpFrame(task_ch[d], "STOP", d, 0)
    <2>1. /\ task_pc[d] = "failed" /\ task_pc' = [task_pc EXCEPT ![d] = "removing"]
          /\ UNCHANGED <<tgt_sent, r_task>>
          /\ srv_out' = Append(srv_out, f) \/ srv_out' = srv_out
      BY <1>6 DEF SendStop, SrvSend, SrvSendFails, srvOutVars, tgtVars
    <2>2. f \in RightFrame /\ f.conn = d /\ f.cmd \in {"EOF", "STOP"}
      BY <2>1, ServerFrames, SentFrame
    <2>3. DownSender(c)' = DownSender(c) /\ (c = d => DownSender(c) = "over")
      BY <2>1, ServerTypes DEF DownSender
    <2>. HIDE DEF f
    <2>. QED
      BY <1>5, <2>1, <2>2, <2>3
  <1>7. ASSUME NEW d \in Conns, RSendEof(d) PROVE DownFlow(c)' /\ DownDone(c)'
    <2>. DEFINE f == TcpFrame(task_ch[d], "EOF", d, 0)
    <2>1. /\ r_task[d] = "eof" /\ r_task' = [r_task EXCEPT ![d] = "done"]
          /\ UNCHANGED <<tgt_sent, task_pc>>
          /\ srv_out' = Append(srv_out, f) \/ srv_out' = srv_out
      BY <1>7 DEF RSendEof, SrvSend, SrvSendFails, srvOutVars, tgtVars, taskVars
    <2>2. f \in RightFrame /\ f.conn = d /\ f.cmd \in {"EOF", "STOP"}
      BY <2>1, ServerFrames, SentFrame DEF RoutingInv, RightTasks
    <2>3. DownSender(c)' = DownSender(c) /\ (c = d => DownSender(c) = "over")
      BY <2>1, ServerTypes DEF DownSender
    <2>. HIDE DEF f
    <2>. QED
      BY <1>5, <2>1, <2>2, <2>3
  <1>8. ASSUME NEW d \in Conns, ConnectOk(d) PROVE DownFlow(c)' /\ DownDone(c)'
    <2>1. /\ task_pc[d] = "connecting" /\ r_task[d] = "idle" /\ UNCHANGED <<srv_out, tgt_sent>>
          /\ task_pc' = [task_pc EXCEPT ![d] = "relay"] /\ r_task' = [r_task EXCEPT ![d] = "run"]
      BY <1>8 DEF ConnectOk, srvOutVars, tgtVars, LifeInv, TaskLife
    <2>2. DownSender(c)' = DownSender(c)
      BY <2>1, ServerTypes DEF DownSender
    <2>. QED
      BY <1>1, <2>1, <2>2
  <1>9. ASSUME NEW d \in Conns, FailRemove(d) \/ TaskRemove(d) PROVE DownFlow(c)' /\ DownDone(c)'
    <2>1. /\ task_pc[d] = "removing" \/ r_task[d] = "done"
          /\ UNCHANGED <<srv_out, tgt_sent, r_task>>
          /\ task_pc' = [task_pc EXCEPT ![d] = "done"]
      BY <1>9 DEF FailRemove, TaskRemove, srvOutVars, tgtVars
    <2>2. DownSender(c)' = DownSender(c)
      BY <2>1, ServerTypes DEF DownSender
    <2>. QED
      BY <1>1, <2>1, <2>2
  <1>10. ASSUME NEW d \in Conns, WWrite(d) \/ WFail(d) \/ WEnd(d) PROVE DownFlow(c)' /\ DownDone(c)'
    <2>1. UNCHANGED <<srv_out, tgt_sent, r_task, task_pc>>
      BY <1>10 DEF WWrite, WFail, WEnd, srvOutVars, tgtVars, taskVars
    <2>2. DownSender(c)' = DownSender(c)
      BY <2>1 DEF DownSender
    <2>. QED
      BY <1>1, <2>1, <2>2
  <1>. QED
    BY <1>3, <1>4, <1>6, <1>7, <1>8, <1>9, <1>10 DEF ServerOnly, ServerLocal

LEMMA DownServerPipe ==
    ASSUME RoutingInv, IdsDistinct, LifeInv, FlowInv, ServerWithPipe(ServerPipe), NEW c \in Conns
    PROVE  DownFlow(c)' /\ DownDone(c)'
  <1>0. DownFlow(c) /\ DownDone(c)
    BY DEF FlowInv
  <1>1. UNCHANGED clientVars /\ UNCHANGED <<demux_held, tgt_sent, r_task>>
    BY DEF ServerWithPipe, clientVars, demuxVars, ServerPipe, LoopStep, SConnect, SData, SDeliver,
           SClose, SPong, SStdinEof, SExit, ServerWriter, ServerWriterFail, tgtVars
  <1>2. DownSender(c)' = DownSender(c)
    <2>1. CASE SConnect
      <3>1. /\ Head(c2s).conn \in Conns /\ task_pc[Head(c2s).conn] = "none"
            /\ task_pc' = [task_pc EXCEPT ![Head(c2s).conn] = "connecting"]
        BY <2>1, ConnectIsNew DEF SConnect
      <3>. QED
        BY <1>1, <3>1, ServerTypes DEF DownSender
    <2>2. CASE ~ SConnect
      <3>1. UNCHANGED task_pc
        BY <2>2 DEF ServerWithPipe, ServerPipe, LoopStep, SData, SDeliver, SClose, SPong, SStdinEof,
                    SExit, ServerWriter, ServerWriterFail, taskVars
      <3>. QED
        BY <1>1, <3>1 DEF DownSender
    <2>. QED
      BY <2>1, <2>2
  <1>3. DownStill(c)
    BY <1>1, <1>2, DownStillServer
  <1>4. DownBase(c) \in Nat /\ tgt_sent[c] \in Nat
    BY FlowTypes
  <1>5. ASSUME DownWay(c)
        PROVE  Carried(c, demux_held, s2c', srv_out', link', DownBase(c), tgt_sent[c], DownSender(c))
    <2>0. Carried(c, demux_held, s2c, srv_out, link, DownBase(c), tgt_sent[c], DownSender(c))
      BY <1>5 DEF DownWay
    <2>1. CASE ServerWriter
      <3>1. /\ srv_out # <<>> /\ link = "up" /\ link' = link
            /\ s2c' = Append(s2c, Head(srv_out)) /\ srv_out' = Tail(srv_out)
        BY <2>1 DEF ServerWriter
      <3>2. Carried(c, demux_held, Append(s2c, Head(srv_out)), Tail(srv_out), link, DownBase(c),
                    tgt_sent[c], DownSender(c))
        BY <1>4, <2>0, <3>1, QueueTypes, CarriedMove
      <3>. QED
        BY <3>1, <3>2
    <2>2. CASE ServerWriterFail
      <3>1. link # "up" /\ UNCHANGED <<link, s2c>>
        BY <2>2 DEF ServerWriterFail, linkVars
      <3>. QED
        BY <1>4, <2>0, <3>1, CarriedDown
    <2>3. CASE LoopStep
      <3>1. UNCHANGED <<srv_out, s2c, link>>
        BY <2>3 DEF LoopStep, SConnect, SData, SDeliver, SClose, SPong, SStdinEof, SExit, LoopReads,
                    srvOutVars, linkVars
      <3>. QED
        BY <2>0, <3>1
    <2>. QED
      BY <2>1, <2>2, <2>3 DEF ServerWithPipe, ServerPipe
  <1>. QED
    BY <1>0, <1>1, <1>3, <1>5, DownStillLemma

\* An entry that a task of the client takes from its map, or the demux task from
\* an end of d, is d's own.
LEMMA ChannelsOf ==
    ASSUME RoutingInv, IdsDistinct, NEW c \in Conns, NEW d \in Conns, c # d, ids[d] # 0, NEW e
    PROVE  [channels EXCEPT ![ids[d]] = e][ids[c]] = channels[ids[c]]
  <1>1. ids[c] # ids[d] /\ ids[c] \in 0 .. MaxId
    BY MapsOwn
  <1>. QED
    BY <1>1, ClientTypes

LEMMA DownClient ==
    ASSUME RoutingInv, IdsDistinct, LifeInv, FlowInv, [Next]_vars, ClientOnly(ClientLocal),
           NEW c \in Conns
    PROVE  DownFlow(c)' /\ DownDone(c)'
  <1>0. DownFlow(c) /\ DownDone(c) /\ ConnLife(c)
    BY DEF FlowInv, LifeInv
  <1>1. UNCHANGED <<s2c, srv_out, link, tgt_sent, r_task, task_pc>>
    BY DEF ClientOnly, linkVars, serverVars, srvOutVars, tgtVars, taskVars
  <1>2. DownSender(c)' = DownSender(c)
    BY <1>1 DEF DownSender
  <1>3. demux_held' = demux_held
    BY DEF ClientOnly, ClientLocal, AcceptConn, DnsTakesId, InsertChannel, SendConnect, ConnectNotSent,
           AReadData, AReadEnd, ASendEof, BWrite, BWriteFail, BEnd, RemoveChannel, demuxVars
  <1>4. DownWay(c) =>
          Carried(c, demux_held', s2c', srv_out', link', DownBase(c), tgt_sent[c], DownSender(c))
    BY <1>1, <1>3 DEF DownWay
  <1>5. ASSUME app_got'[c] = app_got[c], in_rx'[c] = in_rx[c], DownLive(c)' => DownLive(c),
               b_task'[c] = "run" /\ channels'[ids'[c]] # c =>
                 b_task[c] = "run" /\ channels[ids[c]] # c
        PROVE  DownFlow(c)' /\ DownDone(c)'
    <2>1. DownStill(c)
      BY <1>1, <1>2, <1>5 DEF DownStill
    <2>. QED
      BY <1>0, <1>4, <2>1, DownStillLemma
  <1>6. ASSUME ~ DownLive(c)', app_got' = app_got PROVE DownFlow(c)' /\ DownDone(c)'
    BY <1>0, <1>6 DEF DownFlow, DownDone, DownLive
  <1>7. ASSUME UNCHANGED <<app_got, in_rx, conn_pc, b_task, channels>>
        PROVE  DownFlow(c)' /\ DownDone(c)'
    <2>1. b_task[c] = "run" => ids'[c] = ids[c]
      BY IdsStay, ClientTypes DEF RoutingInv, RightTasks
    <2>. QED
      BY <1>5, <1>7, <2>1 DEF DownLive
  <1>8. ASSUME NEW l \in Loops, InsertChannel(l) PROVE DownFlow(c)' /\ DownDone(c)'
    <2>. DEFINE d == acceptor[l]
    <2>1. d \in Conns /\ conn_pc[d] = "new" /\ ids[d] # 0
      BY <1>8, ClientTypes DEF InsertChannel, LifeInv, AcceptorsApart, RoutingInv, RightTasks, ConnOrNone
    <2>2. /\ channels' = [channels EXCEPT ![ids[d]] = d]
          /\ conn_pc' = [conn_pc EXCEPT ![d] = "opening"]
          /\ UNCHANGED <<app_got, in_rx, b_task, ids>>
      BY <1>8 DEF InsertChannel, appVars
    <2>. HIDE DEF d
    <2>3. CASE c # d
      <3>1. channels'[ids[c]] = channels[ids[c]] /\ conn_pc'[c] = conn_pc[c]
        BY <2>1, <2>2, <2>3, ChannelsOf, ClientTypes
      <3>. QED
        BY <1>5, <2>2, <3>1 DEF DownLive
    <2>4. CASE c = d
      <3>1. channels'[ids[c]] = c /\ DownLive(c)
        BY <2>1, <2>2, <2>4, MapsOwn, ClientTypes DEF DownLive
      <3>. QED
        BY <1>5, <2>2, <3>1
    <2>. QED
      BY <2>3, <2>4
  <1>9. ASSUME NEW d \in Conns, SendConnect(d) PROVE DownFlow(c)' /\ DownDone(c)'
    <2>1. /\ conn_pc[d] = "opening"
          /\ conn_pc' = [conn_pc EXCEPT ![d] = "open"]
          /\ b_task' = [b_task EXCEPT ![d] = "run"]
          /\ UNCHANGED <<app_got, in_rx, channels, ids>>
      BY <1>9 DEF SendConnect, allocVars, appVars
    <2>2. CASE c # d
      <3>1. b_task'[c] = b_task[c] /\ conn_pc'[c] = conn_pc[c]
        BY <2>1, <2>2, ClientTypes
      <3>. QED
        BY <1>5, <2>1, <3>1 DEF DownLive
    <2>3. CASE c = d
      <3>1. channels'[ids'[c]] = c /\ DownLive(c)
        BY <1>0, <2>1, <2>3 DEF ConnLife, DownLive
      <3>. QED
        BY <1>5, <2>1, <3>1
    <2>. QED
      BY <2>2, <2>3
  <1>10. ASSUME NEW d \in Conns, ConnectNotSent(d) PROVE DownFlow(c)' /\ DownDone(c)'
    <2>1. /\ conn_pc[d] = "opening"
          /\ conn_pc' = [conn_pc EXCEPT ![d] = "failed"]
          /\ in_rx' = [in_rx EXCEPT ![d] = <<>>]
          /\ UNCHANGED <<app_got, b_task, channels, ids>>
      BY <1>10 DEF ConnectNotSent, allocVars
    <2>2. CASE c # d
      <3>1. in_rx'[c] = in_rx[c] /\ conn_pc'[c] = conn_pc[c]
        BY <2>1, <2>2, ClientTypes, FunctionTypes
      <3>. QED
        BY <1>5, <2>1, <3>1 DEF DownLive
    <2>3. CASE c = d
      <3>1. conn_pc'[c] = "failed" /\ b_task'[c] = "idle"
        BY <1>0, <2>1, <2>3, ClientTypes DEF ConnLife
      <3>2. ~ DownLive(c)'
        BY <3>1 DEF DownLive
      <3>. QED
        BY <1>6, <2>1, <3>2
    <2>. QED
      BY <2>2, <2>3
  <1>11. ASSUME NEW d \in Conns, BWrite(d) PROVE DownFlow(c)' /\ DownDone(c)'
    <2>1. /\ b_task[d] = "run" /\ in_rx[d] # <<>>
          /\ app_got' = [app_got EXCEPT ![d] = Append(@, Head(in_rx[d]))]
          /\ in_rx' = [in_rx EXCEPT ![d] = Tail(@)]
          /\ UNCHANGED <<conn_pc, b_task, channels, ids>>
      BY <1>11 DEF BWrite, allocVars
    <2>2. CASE c # d
      <3>1. in_rx'[c] = in_rx[c] /\ app_got'[c] = app_got[c]
        BY <2>1, <2>2, FunctionTypes
      <3>. QED
        BY <1>5, <2>1, <3>1 DEF DownLive
    <2>3. CASE c = d
      <3>1. app_got'[c] = Append(app_got[c], Head(in_rx[c])) /\ in_rx'[c] = Tail(in_rx[c])
        BY <2>1, <2>3, FunctionTypes
      <3>2. in_rx[c] \in Seq(ChunkFor(c)) /\ app_got[c] \in Seq(ChunkFor(c)) /\ in_rx[c] # <<>>
        BY <2>1, <2>3, FlowTypes
      <3>3. DownLive(c)' = DownLive(c) /\ DownLive(c)
        BY <2>1, <2>3 DEF DownLive
      <3>4. Numbered(app_got[c], 0) /\ Numbered(in_rx[c], Len(app_got[c]))
        BY <1>0, <3>3 DEF DownFlow
      <3>5. /\ Numbered(app_got'[c], 0)
            /\ Numbered(in_rx'[c], Len(app_got'[c]))
            /\ Len(app_got'[c]) + Len(in_rx'[c]) = Len(app_got[c]) + Len(in_rx[c])
        <4>. DEFINE g == Append(app_got[c], Head(in_rx[c]))
                    q == Tail(in_rx[c])
        <4>1. in_rx[c] # <<>>
          BY <3>1, <3>2
        <4>2. Numbered(g, 0) /\ Numbered(q, Len(g)) /\ Len(g) + Len(q) = Len(app_got[c]) + Len(in_rx[c])
          BY ONLY <4>1, <3>2, <3>4, NumberedTake
        <4>3. app_got'[c] = g /\ in_rx'[c] = q
          BY ONLY <3>1
        <4>. HIDE DEF g, q
        <4>. QED
          BY ONLY <4>2, <4>3
      <3>6. DownBase(c)' = DownBase(c)
        BY <3>5 DEF DownBase
      <3>7. DownWay(c)'
        <4>1. Carried(c, demux_held', s2c', srv_out', link', DownBase(c)', tgt_sent'[c], DownSender(c)')
          BY <1>0, <1>1, <1>2, <1>4, <3>3, <3>6 DEF DownFlow
        <4>. QED
          BY <4>1 DEF DownWay
      <3>8. DownFlow(c)'
        BY <3>5, <3>7 DEF DownFlow
      <3>9. DownDone(c)'
        BY <1>0, <1>1, <1>2, <2>1, <3>6 DEF DownDone
      <3>. QED
        BY <3>8, <3>9
    <2>. QED
      BY <2>2, <2>3
  <1>12. ASSUME NEW d \in Conns, BWriteFail(d) \/ BEnd(d) PROVE DownFlow(c)' /\ DownDone(c)'
    <2>1. /\ b_task[d] = "run" /\ b_task' = [b_task EXCEPT ![d] = "done"]
          /\ UNCHANGED <<app_got, conn_pc, channels, ids>>
      BY <1>12 DEF BWriteFail, BEnd, allocVars, appVars
    <2>2. CASE c # d
      <3>1. in_rx'[c] = in_rx[c] /\ b_task'[c] = b_task[c]
        BY <1>12, <2>1, <2>2, ClientTypes, FunctionTypes DEF BWriteFail, BEnd
      <3>. QED
        BY <1>5, <2>1, <3>1 DEF DownLive
    <2>3. CASE c = d
      <3>1. conn_pc'[c] = "open" /\ b_task'[c] = "done"
        BY <1>0, <2>1, <2>3, ClientTypes DEF ConnLife
      <3>2. ~ DownLive(c)'
        BY <3>1 DEF DownLive
      <3>. QED
        BY <1>6, <2>1, <3>2
    <2>. QED
      BY <2>2, <2>3
  <1>13. ASSUME NEW d \in Conns, RemoveChannel(d) PROVE DownFlow(c)' /\ DownDone(c)'
    <2>1. /\ conn_pc[d] = "open" /\ b_task[d] = "done" /\ ids[d] # 0
          /\ channels' = [channels EXCEPT ![ids[d]] = NoConn]
          /\ conn_pc' = [conn_pc EXCEPT ![d] = "done"]
          /\ UNCHANGED <<app_got, in_rx, b_task, ids>>
      BY <1>13 DEF RemoveChannel, allocVars, appVars, RoutingInv, RightTasks
    <2>2. CASE c # d
      <3>1. channels'[ids[c]] = channels[ids[c]] /\ conn_pc'[c] = conn_pc[c]
        BY <2>1, <2>2, ChannelsOf, ClientTypes
      <3>. QED
        BY <1>5, <2>1, <3>1 DEF DownLive
    <2>3. CASE c = d
      <3>1. conn_pc'[c] = "done" /\ b_task'[c] = "done"
        BY <2>1, <2>3, ClientTypes
      <3>2. ~ DownLive(c)'
        BY <3>1 DEF DownLive
      <3>. QED
        BY <1>6, <2>1, <3>2
    <2>. QED
      BY <2>2, <2>3
  <1>14. \/ UNCHANGED <<app_got, in_rx, conn_pc, b_task, channels>>
         \/ \E l \in Loops : InsertChannel(l)
         \/ \E d \in Conns :
              \/ SendConnect(d) \/ ConnectNotSent(d) \/ BWrite(d) \/ BWriteFail(d) \/ BEnd(d)
              \/ RemoveChannel(d)
    BY DEF ClientOnly, ClientLocal, AcceptConn, DnsTakesId, AReadData, AReadEnd, ASendEof, appVars
  <1>. QED
    BY <1>7, <1>8, <1>9, <1>10, <1>11, <1>12, <1>13, <1>14

LEMMA DownSkip ==
    ASSUME RoutingInv, IdsDistinct, NEW c \in Conns, s2c # <<>>, ~ IsData(Head(s2c), c),
           s2c' = Tail(s2c), UNCHANGED <<demux_held, srv_out, link>>, DownWay(c)
    PROVE  Carried(c, demux_held', s2c', srv_out', link', DownBase(c), tgt_sent[c], DownSender(c))
  <1>1. Carried(c, demux_held, Tail(s2c), srv_out, link, DownBase(c), tgt_sent[c], DownSender(c))
    BY FlowTypes, QueueTypes, CarriedSkip DEF DownWay
  <1>. QED
    BY <1>1

\* The frame in the client's hands goes to the queue of its own connection.
LEMMA DemuxHolds ==
    ASSUME RoutingInv, IdsDistinct, LifeInv, demux_held # <<>>
    PROVE  /\ demux_held = <<Head(demux_held)>>
           /\ Head(demux_held).conn \in Conns
           /\ IsData(Head(demux_held), Head(demux_held).conn)
           /\ Head(demux_held).n \in Nat
           /\ channels[Head(demux_held).channel] = Head(demux_held).conn
           /\ conn_pc[Head(demux_held).conn] \notin {"new", "opening"}
  <1>. DEFINE f == Head(demux_held)
  <1>1. demux_held \in Seq(DataFrame) /\ Len(demux_held) <= 1 /\ f \in RightFrame
    BY QueueTypes, HeadLemma DEF RoutingInv, TypeOK, ClientTypeOK
  <1>2. f \in DataFrame /\ demux_held = <<f>>
    BY ONLY <1>1, demux_held # <<>>, HeldLemma
  <1>3. f.cmd = "DATA" /\ f.n \in Nat
    BY <1>2 DEF DataFrame
  <1>4. /\ f.conn \in Conns /\ ids[f.conn] # 0 /\ f.channel = ids[f.conn]
    BY <1>1, <1>3, FrameOf DEF TcpCmds
  <1>5. channels[f.channel] # NoConn
    BY DEF LifeInv, HeldIsOpen
  <1>6. channels[f.channel] = f.conn
    BY <1>4, <1>5, MapsOwn
  <1>7. ~ Absent(demux_held, f.conn)
    <2>1. DOMAIN demux_held = {1} /\ demux_held[1] = f
      BY <1>2
    <2>. QED
      BY <2>1 DEF Absent
  <1>8. conn_pc[f.conn] \notin {"new", "opening"}
    BY <1>4, <1>7 DEF LifeInv, TaskLife, ConnLife
  <1>9. IsData(f, f.conn)
    BY <1>3 DEF IsData
  <1>. QED
    BY <1>2, <1>3, <1>4, <1>6, <1>8, <1>9

LEMMA DownDeliver ==
    ASSUME RoutingInv, IdsDistinct, LifeInv, FlowInv, DemuxDeliver, UNCHANGED serverVars,
           NEW c \in Conns
    PROVE  DownFlow(c)' /\ DownDone(c)'
  <1>0. DownFlow(c) /\ DownDone(c)
    BY DEF FlowInv
  <1>1. /\ UNCHANGED <<s2c, srv_out, link, tgt_sent, r_task, task_pc, ids, app_got, conn_pc, b_task,
                       channels>>
        /\ demux_held # <<>> /\ demux_held' = <<>>
    BY DEF DemuxDeliver, linkVars, serverVars, srvOutVars, tgtVars, taskVars, allocVars, appVars
  <1>. DEFINE f == Head(demux_held)
              d == f.conn
  <1>2. /\ demux_held = <<f>> /\ d \in Conns /\ IsData(f, d) /\ f.n \in Nat
        /\ channels[f.channel] = d /\ conn_pc[d] \notin {"new", "opening"}
    BY <1>1, DemuxHolds
  <1>3. \/ InRxAlive(d) /\ in_rx' = [in_rx EXCEPT ![d] = Append(@, ChunkOf(f))]
        \/ ~ InRxAlive(d) /\ in_rx' = in_rx
    BY <1>2 DEF DemuxDeliver
  <1>4. DownSender(c)' = DownSender(c) /\ DownLive(c)' = DownLive(c)
    BY <1>1 DEF DownSender, DownLive
  <1>5. DownBase(c) \in Nat /\ tgt_sent[c] \in Nat
    BY FlowTypes
  <1>6. DownWay(c) =>
          /\ IsData(f, c) =>
               /\ f.n = DownBase(c) + 1
               /\ DownBase(c) < tgt_sent[c]
               /\ Carried(c, <<>>, s2c, srv_out, link, DownBase(c) + 1, tgt_sent[c], DownSender(c))
          /\ ~ IsData(f, c) =>
               Carried(c, <<>>, s2c, srv_out, link, DownBase(c), tgt_sent[c], DownSender(c))
    <2>1. DownWay(c) => Carried(c, <<f>>, s2c, srv_out, link, DownBase(c), tgt_sent[c], DownSender(c))
      BY <1>2 DEF DownWay
    <2>. HIDE DEF f
    <2>. QED
      BY <1>5, <2>1, CarriedDeliver
  <1>7. CASE c # d
    <2>1. in_rx'[c] = in_rx[c]
      BY <1>2, <1>3, <1>7, FunctionTypes
    <2>2. ~ IsData(f, c)
      BY <1>7, OtherFrame
    <2>3. DownStill(c)
      BY <1>1, <1>4, <2>1 DEF DownStill
    <2>4. DownWay(c) =>
            Carried(c, demux_held', s2c', srv_out', link', DownBase(c), tgt_sent[c], DownSender(c))
      BY <1>1, <1>6, <2>2
    <2>. QED
      BY <1>0, <2>3, <2>4, DownStillLemma
  <1>8. CASE c = d /\ ~ DownLive(c)
    BY <1>0, <1>1, <1>4, <1>8 DEF DownFlow, DownDone, DownLive
  <1>9. CASE c = d /\ DownLive(c)
    <2>1. InRxAlive(d)
      BY <1>2, <1>9 DEF DownLive, InRxAlive
    <2>. DEFINE q == in_rx[c]
                e == ChunkOf(f)
    <2>2. in_rx'[c] = Append(q, e)
      BY <1>2, <1>3, <1>9, <2>1, FunctionTypes
    <2>3. DownWay(c) /\ Numbered(q, Len(app_got[c]))
      BY <1>0, <1>9 DEF DownFlow
    <2>4. f.n = DownBase(c) + 1 /\ DownBase(c) < tgt_sent[c]
      BY <1>2, <1>6, <1>9, <2>3
    <2>5. Carried(c, <<>>, s2c, srv_out, link, DownBase(c) + 1, tgt_sent[c], DownSender(c))
      BY <1>2, <1>6, <1>9, <2>3
    <2>6. q \in Seq(ChunkFor(c)) /\ Len(app_got[c]) \in Nat /\ Len(q) \in Nat
      BY FlowTypes
    <2>7. e \in ChunkFor(c) /\ e.n = Len(app_got[c]) + Len(q) + 1
      BY <1>2, <1>9, <2>4 DEF ChunkOf, ChunkFor, DownBase
    <2>. HIDE DEF e
    <2>8. Numbered(Append(q, e), Len(app_got[c])) /\ Len(Append(q, e)) = Len(q) + 1
      BY <2>3, <2>6, <2>7, NumberedAppend
    <2>9. DownBase(c)' = DownBase(c) + 1
      <3>1. \A m, n \in Nat : m + (n + 1) = m + n + 1
        OBVIOUS
      <3>2. Len(app_got[c]) + (Len(q) + 1) = Len(app_got[c]) + Len(q) + 1
        BY <2>6, <3>1
      <3>. QED
        BY <1>1, <2>2, <2>8, <3>2 DEF DownBase
    <2>10. DownWay(c)'
      <3>1. Carried(c, demux_held', s2c', srv_out', link', DownBase(c)', tgt_sent'[c], DownSender(c)')
        BY <1>1, <1>4, <2>5, <2>9
      <3>. QED
        BY <3>1 DEF DownWay
    <2>11. DownFlow(c)'
      BY <1>0, <1>1, <2>2, <2>8, <2>10 DEF DownFlow
    <2>12. DownDone(c)'
      <3>1. DownBase(c) # tgt_sent[c]
        BY <1>5, <2>4
      <3>. QED
        BY <1>0, <1>1, <1>4, <3>1 DEF DownDone
    <2>. QED
      BY <2>11, <2>12
  <1>. QED
    BY <1>7, <1>8, <1>9

LEMMA DownData ==
    ASSUME RoutingInv, IdsDistinct, LifeInv, FlowInv, DemuxData, UNCHANGED serverVars, NEW c \in Conns
    PROVE  DownFlow(c)' /\ DownDone(c)'
  <1>0. DownFlow(c) /\ DownDone(c) /\ ConnLife(c) /\ TaskLife(c)
    BY DEF FlowInv, LifeInv
  <1>. DEFINE f == Head(s2c)
  <1>1. /\ UNCHANGED <<srv_out, link, tgt_sent, r_task, task_pc, ids, app_got, in_rx, conn_pc, b_task,
                       channels>>
        /\ demux_held = <<>> /\ s2c # <<>> /\ s2c' = Tail(s2c) /\ f.cmd = "DATA"
        /\ \/ demux_held' = <<f>>
           \/ demux_held' = <<>> /\ channels[f.channel] = NoConn
    BY DEF DemuxData, DemuxReads, serverVars, srvOutVars, tgtVars, taskVars, allocVars, appVars
  <1>2. DownStill(c)
    BY <1>1 DEF DownStill, DownSender, DownLive
  <1>3. DownBase(c) \in Nat /\ tgt_sent[c] \in Nat /\ s2c \in Seq(RightFrame) /\ f \in RightFrame
    BY <1>1, FlowTypes, QueueTypes, HeadLemma
  <1>4. ASSUME DownLive(c), DownWay(c)
        PROVE  Carried(c, demux_held', s2c', srv_out', link', DownBase(c), tgt_sent[c], DownSender(c))
    <2>0. Carried(c, demux_held, s2c, srv_out, link, DownBase(c), tgt_sent[c], DownSender(c))
      BY <1>4 DEF DownWay
    <2>1. CASE demux_held' = <<f>>
      <3>1. Carried(c, <<f>>, Tail(s2c), srv_out, link, DownBase(c), tgt_sent[c], DownSender(c))
        BY <1>1, <1>3, <2>0, CarriedHold
      <3>. QED
        BY <1>1, <2>1, <3>1
    <2>2. CASE demux_held' = <<>> /\ channels[f.channel] = NoConn
      <3>1. ~ IsData(f, c)
        <4>. SUFFICES ASSUME IsData(f, c) PROVE FALSE
          OBVIOUS
        <4>1. f.conn = c
          BY DEF IsData
        <4>2. f.channel = ids[c] /\ c # NoConn
          BY <1>1, <1>3, <4>1, FrameOf, MapsOwn DEF TcpCmds
        <4>3. b_task[c] = "run"
          <5>1. ~ Absent(s2c, c)
            BY <1>1, <1>3, <4>1, TailFrame
          <5>. QED
            BY <1>0, <1>4, <5>1 DEF ConnLife, TaskLife, DownLive
        <4>4. DownBase(c) = tgt_sent[c]
          BY <1>0, <2>2, <4>2, <4>3 DEF DownDone
        <4>5. DownBase(c) < tgt_sent[c]
          BY <1>1, <1>3, <2>0, CarriedRead
        <4>. QED
          BY <1>3, <4>4, <4>5
      <3>. QED
        BY <1>1, <1>4, <2>2, <3>1, DownSkip
    <2>. QED
      BY <1>1, <2>1, <2>2
  <1>. QED
    BY <1>0, <1>2, <1>4, DownStillLemma

LEMMA DownClose ==
    ASSUME RoutingInv, IdsDistinct, LifeInv, FlowInv, DemuxClose, UNCHANGED serverVars,
           NEW c \in Conns
    PROVE  DownFlow(c)' /\ DownDone(c)'
  <1>0. DownFlow(c) /\ DownDone(c)
    BY DEF FlowInv
  <1>. DEFINE f == Head(s2c)
  <1>1. /\ UNCHANGED <<srv_out, link, tgt_sent, r_task, task_pc, ids, app_got, in_rx, conn_pc, b_task,
                       demux_held>>
        /\ demux_held = <<>> /\ s2c # <<>> /\ s2c' = Tail(s2c) /\ f.cmd \in {"EOF", "STOP"}
        /\ channels' = [channels EXCEPT ![f.channel] = NoConn]
    BY DEF DemuxClose, DemuxReads, serverVars, srvOutVars, tgtVars, taskVars, allocVars, appVars
  <1>2. s2c \in Seq(RightFrame) /\ f \in RightFrame
    BY <1>1, QueueTypes, HeadLemma
  <1>3. f.conn \in Conns /\ ids[f.conn] # 0 /\ f.channel = ids[f.conn]
    BY <1>1, <1>2, FrameOf DEF TcpCmds
  <1>4. ~ IsData(f, c)
    BY <1>1, OwnFrame
  <1>5. DownSender(c)' = DownSender(c) /\ DownLive(c)' = DownLive(c) /\ DownBase(c)' = DownBase(c)
    BY <1>1 DEF DownSender, DownLive, DownBase
  <1>6. DownWay(c) =>
          Carried(c, demux_held', s2c', srv_out', link', DownBase(c), tgt_sent[c], DownSender(c))
    BY <1>1, <1>4, DownSkip
  <1>7. CASE f.conn # c
    <2>0. channels' = [channels EXCEPT ![ids[f.conn]] = NoConn]
      BY <1>1, <1>3
    <2>1. channels'[ids[c]] = channels[ids[c]]
      BY ONLY RoutingInv, IdsDistinct, c \in Conns, <1>3, <1>7, <2>0, ChannelsOf
    <2>2. DownStill(c)
      BY <1>1, <1>5, <2>1 DEF DownStill
    <2>. QED
      BY <1>0, <1>6, <2>2, DownStillLemma
  <1>8. CASE f.conn = c
    <2>1. IsEnd(f, c)
      BY <1>1, <1>8, OwnFrame
    <2>2. DownWay(c) => DownBase(c) = tgt_sent[c] /\ DownSender(c) = "over"
      BY <1>1, <1>2, <2>1, FlowTypes, CarriedRead DEF DownWay
    <2>3. DownWay(c) => DownWay(c)'
      <3>1. DownWay(c) => Carried(c, demux_held', s2c', srv_out', link', DownBase(c)', tgt_sent'[c],
                                  DownSender(c)')
        BY <1>1, <1>5, <1>6
      <3>. QED
        BY <3>1 DEF DownWay
    <2>4. DownFlow(c)'
      BY <1>0, <1>1, <1>5, <2>3 DEF DownFlow
    <2>5. DownDone(c)'
      <3>1. b_task[c] = "run" => DownLive(c)
        BY DEF DownLive
      <3>. QED
        BY <1>0, <1>1, <1>5, <2>2, <3>1 DEF DownFlow, DownDone
    <2>. QED
      BY <2>4, <2>5
  <1>. QED
    BY <1>7, <1>8

LEMMA DownClientPipe ==
    ASSUME RoutingInv, IdsDistinct, LifeInv, FlowInv, ClientWithPipe(ClientPipe), NEW c \in Conns
    PROVE  DownFlow(c)' /\ DownDone(c)'
  <1>0. DownFlow(c) /\ DownDone(c)
    BY DEF FlowInv
  <1>1. UNCHANGED serverVars /\ UNCHANGED <<srv_out, tgt_sent, r_task, task_pc>>
    BY DEF ClientWithPipe, serverVars, srvOutVars, tgtVars, taskVars
  <1>2. CASE DemuxPing \/ DemuxIgnore
    <2>1. /\ UNCHANGED <<link, ids, app_got, in_rx, conn_pc, b_task, channels, demux_held>>
          /\ s2c # <<>> /\ s2c' = Tail(s2c) /\ Head(s2c).cmd # "DATA"
      BY <1>2 DEF DemuxPing, DemuxIgnore, DemuxReads, allocVars, appVars
    <2>2. ~ IsData(Head(s2c), c)
      BY <2>1 DEF IsData
    <2>3. DownStill(c)
      BY <1>1, <2>1 DEF DownStill, DownSender, DownLive
    <2>. QED
      BY <1>0, <1>1, <2>1, <2>2, <2>3, DownSkip, DownStillLemma
  <1>3. CASE ClientWriter \/ ClientWriterFail \/ DemuxEof
    <2>1. UNCHANGED <<link, ids, app_got, in_rx, conn_pc, b_task, channels, demux_held, s2c>>
      BY <1>3 DEF ClientWriter, ClientWriterFail, DemuxEof, allocVars, appVars, linkVars, demuxVars
    <2>2. DownStill(c)
      BY <1>1, <2>1 DEF DownStill, DownSender, DownLive
    <2>3. DownWay(c) =>
            Carried(c, demux_held', s2c', srv_out', link', DownBase(c), tgt_sent[c], DownSender(c))
      BY <1>1, <2>1 DEF DownWay
    <2>. QED
      BY <1>0, <2>2, <2>3, DownStillLemma
  <1>. QED
    BY <1>1, <1>2, <1>3, DownData, DownDeliver, DownClose DEF ClientWithPipe, ClientPipe, DemuxStep

\* Every step of the tunnel keeps in order what flows from a target to a client.
LEMMA DownStep ==
    ASSUME RoutingInv, IdsDistinct, LifeInv, FlowInv, [Next]_vars, NEW c \in Conns
    PROVE  DownFlow(c)' /\ DownDone(c)'
  <1>0. DownFlow(c) /\ DownDone(c)
    BY DEF FlowInv
  <1>1. CASE LoseLink
    <2>1. /\ UNCHANGED <<srv_out, tgt_sent, r_task, task_pc, ids, demux_held, app_got, in_rx, conn_pc,
                         b_task, channels>>
          /\ link' # "up" /\ \E m \in 0 .. Len(s2c) : s2c' = SubSeq(s2c, 1, m)
      BY <1>1 DEF LoseLink, LinkDown, clientVars, serverVars, srvOutVars, tgtVars, taskVars, allocVars,
                  demuxVars, appVars
    <2>2. DownStill(c)
      BY <2>1 DEF DownStill, DownSender, DownLive
    <2>3. ASSUME DownWay(c)
          PROVE  Carried(c, demux_held', s2c', srv_out', link', DownBase(c), tgt_sent[c], DownSender(c))
      <3>1. PICK m \in 0 .. Len(s2c) : s2c' = SubSeq(s2c, 1, m)
        BY <2>1
      <3>2. Carried(c, demux_held, SubSeq(s2c, 1, m), srv_out, link', DownBase(c), tgt_sent[c],
                    DownSender(c))
        BY <2>1, <2>3, FlowTypes, QueueTypes, CarriedCut DEF DownWay
      <3>. QED
        BY <2>1, <3>1, <3>2
    <2>. QED
      BY <1>0, <2>2, <2>3, DownStillLemma
  <1>2. CASE UNCHANGED vars
    <2>1. UNCHANGED <<srv_out, tgt_sent, r_task, task_pc, ids, demux_held, app_got, in_rx, conn_pc,
                      b_task, channels, s2c, link>>
      BY <1>2 DEF vars, linkVars, clientVars, serverVars, srvOutVars, tgtVars, taskVars, allocVars,
                  demuxVars, appVars
    <2>2. DownStill(c)
      BY <2>1 DEF DownStill, DownSender, DownLive
    <2>3. DownWay(c) =>
            Carried(c, demux_held', s2c', srv_out', link', DownBase(c), tgt_sent[c], DownSender(c))
      BY <2>1 DEF DownWay
    <2>. QED
      BY <1>0, <2>2, <2>3, DownStillLemma
  <1>. QED
    BY <1>1, <1>2, DownClient, DownClientPipe, DownServerLocal, DownServerPipe DEF Next
-----------------------------------------------------------------------------
(* The invariant *)

\* Before the first step nothing was sent but the two frames of the server's start.
LEMMA StreamsInit == Init => LifeInv /\ FlowInv
  <1>. SUFFICES ASSUME Init PROVE LifeInv /\ FlowInv
    OBVIOUS
  <1>1. /\ c2s = <<>> /\ s2c = <<>> /\ out_tx = <<>> /\ loop_held = <<>> /\ demux_held = <<>>
        /\ writer = "run" /\ srv_writer = "run" /\ srv_loop = "run"
    BY DEF Init, LinkInit, ClientInit, ServerInit
  <1>2. ASSUME NEW c \in Conns
        PROVE  /\ ids[c] = 0 /\ conn_pc[c] = "new" /\ a_task[c] = "idle" /\ b_task[c] = "idle"
               /\ in_rx[c] = <<>> /\ app_sent[c] = 0 /\ app_got[c] = <<>> /\ app_eof[c] = FALSE
               /\ task_pc[c] = "none" /\ w_task[c] = "idle" /\ r_task[c] = "idle"
               /\ inbound[c] = <<>> /\ tgt_sent[c] = 0 /\ tgt_got[c] = <<>> /\ tgt_eof[c] = FALSE
    BY DEF Init, ClientInit, ServerInit
  <1>3. RoutingInv
    BY RoutingInit
  <1>4. ASSUME NEW c \in Conns PROVE c # NoConn
    BY SsnetAssumption
  <1>5. ASSUME NEW c \in Conns PROVE Absent(srv_out, c)
    <2>1. CASE LinkProbed
      <3>1. srv_out = <<>>
        BY <2>1 DEF Init, ServerInit
      <3>. QED
        BY <3>1, NothingAbsent
    <2>2. CASE ~ LinkProbed
      <3>1. srv_out = <<CtlFrame("PING"), CtlFrame("ROUTES")>>
        BY <2>2 DEF Init, ServerInit
      <3>2. CtlFrame("PING").conn = NoConn /\ CtlFrame("ROUTES").conn = NoConn
        BY DEF CtlFrame
      <3>3. \A k \in DOMAIN srv_out : srv_out[k] \in {CtlFrame("PING"), CtlFrame("ROUTES")}
        BY <3>1
      <3>. QED
        BY <1>4, <3>2, <3>3 DEF Absent
    <2>. QED
      BY <2>1, <2>2
  <1>6. LifeInv
    <2>1. DeadWriters
      BY <1>1 DEF DeadWriters
    <2>2. AcceptorsApart
      BY DEF Init, ClientInit, AcceptorsApart
    <2>3. HeldIsOpen
      BY <1>1 DEF HeldIsOpen
    <2>4. ASSUME NEW c \in Conns PROVE ConnLife(c)
      BY <1>1, <1>2, NothingAbsent DEF ConnLife
    <2>5. ASSUME NEW c \in Conns PROVE TaskLife(c)
      <3>1. \A i \in 0 .. MaxId : tcp_chans[i] # c
        BY <1>4 DEF Init, ServerInit
      <3>. QED
        BY <1>1, <1>2, <1>5, <3>1, NothingAbsent DEF TaskLife
    <2>6. ASSUME NEW c \in Conns PROVE Announced(c)
      BY <1>1, <1>2, NothingAbsent DEF Announced
    <2>. QED
      BY <2>1, <2>2, <2>3, <2>4, <2>5, <2>6 DEF LifeInv
  <1>7. Len(<<>>) = 0 /\ 0 + 0 = 0 /\ Numbered(<<>>, 0)
    BY DEF Numbered
  <1>8. ASSUME NEW c \in Conns PROVE UpFlow(c) /\ UpDone(c)
    <2>0. inbound[c] = <<>> /\ tgt_got[c] = <<>> /\ app_sent[c] = 0 /\ task_pc[c] = "none"
      BY <1>2
    <2>1. UpBase(c) = 0
      BY ONLY <1>7, <2>0 DEF UpBase
    <2>2. Carried(c, <<>>, <<>>, out_tx, link, 0, 0, UpSender(c))
      <3>1. out_tx \in Seq(RightFrame)
        BY <1>3, QueueTypes
      <3>2. \A k \in DOMAIN out_tx : ~ IsData(out_tx[k], c) /\ ~ IsEnd(out_tx[k], c)
        BY <1>1
      <3>. QED
        BY <3>1, <3>2, CarriedNone
    <2>3. UpWay(c)
      BY <1>1, <1>2, <2>1, <2>2 DEF UpWay
    <2>. QED
      BY ONLY <1>7, <2>0, <2>3 DEF UpFlow, UpDone
  <1>9. ASSUME NEW c \in Conns PROVE DownFlow(c) /\ DownDone(c)
    <2>0. in_rx[c] = <<>> /\ app_got[c] = <<>> /\ tgt_sent[c] = 0 /\ b_task[c] = "idle"
      BY <1>2
    <2>1. DownBase(c) = 0
      BY ONLY <1>7, <2>0 DEF DownBase
    <2>2. Carried(c, <<>>, <<>>, srv_out, link, 0, 0, DownSender(c))
      <3>1. srv_out \in Seq(RightFrame)
        BY <1>3, QueueTypes
      <3>2. \A k \in DOMAIN srv_out : ~ IsData(srv_out[k], c) /\ ~ IsEnd(srv_out[k], c)
        BY <1>5, AbsentMeans
      <3>. QED
        BY <3>1, <3>2, CarriedNone
    <2>3. DownWay(c)
      BY <1>1, <1>2, <2>1, <2>2 DEF DownWay
    <2>. QED
      BY ONLY <1>7, <2>0, <2>3 DEF DownFlow, DownDone
  <1>. QED
    BY <1>6, <1>8, <1>9 DEF FlowInv

\* Every step of the tunnel keeps StreamsInv.
LEMMA StreamsStep ==
    ASSUME RoutingInv, StreamsInv, [Next]_vars
    PROVE  StreamsInv'
  <1>. SUFFICES ASSUME IdsDistinct' PROVE LifeInv' /\ FlowInv'
    BY DEF StreamsInv
  <1>1. IdsDistinct
    BY IdsStay
  <1>2. LifeInv /\ FlowInv
    BY <1>1 DEF StreamsInv
  <1>3. LifeInv'
    BY <1>1, <1>2, LifeStep
  <1>4. ASSUME NEW c \in Conns PROVE (UpFlow(c) /\ UpDone(c))' /\ (DownFlow(c) /\ DownDone(c))'
    BY <1>1, <1>2, UpStep, DownStep
  <1>5. FlowInv'
    BY <1>4 DEF FlowInv
  <1>. QED
    BY <1>3, <1>5

\* As long as no channel id was given out twice, the chunks of each direction of
\* each connection that have not arrived are on their way, in order and without a
\* gap, and the end that follows them was sent by a sender that is done.
THEOREM StreamsInvariant == Spec => []StreamsInv
  <1>1. Init => StreamsInv
    BY StreamsInit DEF StreamsInv
  <1>2. RoutingInv /\ StreamsInv /\ [Next]_vars => StreamsInv'
    BY StreamsStep
  <1>. QED
    BY <1>1, <1>2, RoutingInvariant, PTL DEF Spec
-----------------------------------------------------------------------------
(* What Promise says of the two streams of each connection *)

Streams == Direction \X Conns

Written == [s \in Streams |-> IF s[1] = "up" THEN app_sent[s[2]] ELSE tgt_sent[s[2]]]
Closed == [s \in Streams |->
             IF s[1] = "up"
             THEN a_task[s[2]] \in {"eof", "done"}
             ELSE \/ r_task[s[2]] \in {"eof", "done"}
                  \/ task_pc[s[2]] \in {"failed", "removing", "done"}]
Got == [s \in Streams |->
          IF s[1] = "up" THEN Position(s[2], tgt_got[s[2]]) ELSE Position(s[2], app_got[s[2]])]
Ended == [s \in Streams |-> IF s[1] = "up" THEN tgt_eof[s[2]] ELSE app_eof[s[2]]]
CutOff == [s \in Streams |-> IF s[1] = "up" THEN srv_loop = "exited" ELSE conn_pc[s[2]] = "failed"]

LEMMA PromiseStarts ==
    Promise!Init <=> /\ Written = [s \in Streams |-> 0]
                     /\ Closed = [s \in Streams |-> FALSE]
                     /\ Got = [s \in Streams |-> <<>>]
                     /\ Ended = [s \in Streams |-> FALSE]
                     /\ CutOff = [s \in Streams |-> FALSE]
  BY Zenon DEF Promise!Init, Written, Closed, Got, Ended, CutOff, Streams

\* A chunk is written, perhaps as the last one.
LEMMA PromiseWrites ==
    ASSUME NEW s \in Streams, ~ Closed[s], Written' = [Written EXCEPT ![s] = @ + 1],
           \E b \in BOOLEAN : Closed' = [Closed EXCEPT ![s] = b],
           Got' = Got, Ended' = Ended, CutOff' = CutOff
    PROVE  Promise!Next
  BY Zenon DEF Promise!Next, Promise!Write, Written, Closed, Got, Ended, CutOff, Streams

LEMMA PromiseCloses ==
    ASSUME NEW s \in Streams, Closed' = [Closed EXCEPT ![s] = TRUE],
           Written' = Written, Got' = Got, Ended' = Ended, CutOff' = CutOff
    PROVE  Promise!Next
  BY Zenon DEF Promise!Next, Promise!Close, Written, Closed, Got, Ended, CutOff, Streams

LEMMA PromiseDelivers ==
    ASSUME NEW s \in Streams, ~ Ended[s], Len(Got[s]) < Written[s],
           Got' = [Got EXCEPT ![s] = Append(@, Len(@) + 1)],
           Written' = Written, Closed' = Closed, Ended' = Ended, CutOff' = CutOff
    PROVE  Promise!Next
  BY Zenon DEF Promise!Next, Promise!Deliver, Written, Closed, Got, Ended, CutOff, Streams

LEMMA PromiseEnds ==
    ASSUME NEW s \in Streams, Closed[s], Len(Got[s]) = Written[s],
           Ended' = [Ended EXCEPT ![s] = TRUE],
           Written' = Written, Closed' = Closed, Got' = Got, CutOff' = CutOff
    PROVE  Promise!Next
  BY Zenon DEF Promise!Next, Promise!End, Written, Closed, Got, Ended, CutOff, Streams

LEMMA PromiseCuts ==
    ASSUME CutOff' \in [Streams -> BOOLEAN], \A s \in Streams : CutOff[s] => CutOff'[s],
           Ended' \in [Streams -> BOOLEAN],
           \A s \in Streams : Ended'[s] = Ended[s] \/ (CutOff'[s] /\ Ended'[s]),
           Written' = Written, Closed' = Closed, Got' = Got
    PROVE  Promise!Next
  BY Zenon DEF Promise!Next, Promise!Cut, Written, Closed, Got, Ended, CutOff, Streams

LEMMA PromiseStays ==
    ASSUME Written' = Written, Closed' = Closed, Got' = Got, Ended' = Ended, CutOff' = CutOff
    PROVE  UNCHANGED Promise!svars
  BY Zenon DEF Promise!svars, Written, Closed, Got, Ended, CutOff, Streams

\* What leaves a part of the streams alone.
LEMMA PartsStay ==
    /\ UNCHANGED <<app_sent, tgt_sent>> => Written' = Written
    /\ (\A c \in Conns : UpSender(c)' = UpSender(c) /\ DownSender(c)' = DownSender(c))
         => Closed' = Closed
    /\ UNCHANGED <<app_got, tgt_got>> => Got' = Got
    /\ UNCHANGED <<app_eof, tgt_eof>> => Ended' = Ended
    /\ (/\ srv_loop' = "exited" <=> srv_loop = "exited"
        /\ \A c \in Conns : conn_pc'[c] = "failed" <=> conn_pc[c] = "failed")
         => CutOff' = CutOff
  <1>1. UNCHANGED <<app_sent, tgt_sent>> => Written' = Written
    BY DEF Written
  <1>2. ASSUME \A c \in Conns : UpSender(c)' = UpSender(c) /\ DownSender(c)' = DownSender(c)
        PROVE  Closed' = Closed
    <2>1. ASSUME NEW c \in Conns
          PROVE  /\ (a_task[c] \in {"eof", "done"})' = (a_task[c] \in {"eof", "done"})
                 /\ (r_task[c] \in {"eof", "done"} \/ task_pc[c] \in {"failed", "removing", "done"})'
                    = (r_task[c] \in {"eof", "done"} \/ task_pc[c] \in {"failed", "removing", "done"})
      BY <1>2 DEF UpSender, DownSender
    <2>. QED
      BY <2>1 DEF Closed, Streams
  <1>3. UNCHANGED <<app_got, tgt_got>> => Got' = Got
    BY DEF Got, Position
  <1>4. UNCHANGED <<app_eof, tgt_eof>> => Ended' = Ended
    BY DEF Ended
  <1>5. ASSUME srv_loop' = "exited" <=> srv_loop = "exited",
               \A c \in Conns : conn_pc'[c] = "failed" <=> conn_pc[c] = "failed"
        PROVE  CutOff' = CutOff
    BY <1>5 DEF CutOff, Streams
  <1>. QED
    BY <1>1, <1>2, <1>3, <1>4, <1>5

\* A part of one stream changes.
LEMMA OneStream ==
    ASSUME NEW F, NEW G, NEW s \in Streams, NEW v,
           F = [t \in Streams |-> F[t]], G = [t \in Streams |-> G[t]],
           G[s] = v, \A t \in Streams : t # s => G[t] = F[t]
    PROVE  G = [F EXCEPT ![s] = v]
  OBVIOUS

\* The streams of c, before and after a step.
LEMMA TheStreams ==
    ASSUME NEW c \in Conns
    PROVE  <<"up", c>> \in Streams /\ <<"down", c>> \in Streams
  BY DEF Streams, Direction

LEMMA WrittenPoints ==
    ASSUME NEW c \in Conns
    PROVE  /\ Written[<<"up", c>>] = app_sent[c] /\ Written[<<"down", c>>] = tgt_sent[c]
           /\ Written'[<<"up", c>>] = app_sent'[c] /\ Written'[<<"down", c>>] = tgt_sent'[c]
  BY TheStreams DEF Written

LEMMA ClosedPoints ==
    ASSUME NEW c \in Conns
    PROVE  /\ Closed[<<"up", c>>] = (UpSender(c) = "over")
           /\ Closed[<<"down", c>>] = (DownSender(c) = "over")
           /\ Closed'[<<"up", c>>] = (UpSender(c)' = "over")
           /\ Closed'[<<"down", c>>] = (DownSender(c)' = "over")
  <1>. DEFINE over(r, p) == r \in {"eof", "done"} \/ p \in {"failed", "removing", "done"}
  <1>1. /\ (UpSender(c) = "over") = (a_task[c] \in {"eof", "done"})
        /\ (UpSender(c)' = "over") = (a_task'[c] \in {"eof", "done"})
    BY DEF UpSender
  <1>2. /\ (DownSender(c) = "over") = over(r_task[c], task_pc[c])
        /\ (DownSender(c)' = "over") = over(r_task'[c], task_pc'[c])
    BY DEF DownSender
  <1>3. /\ Closed[<<"up", c>>] = (a_task[c] \in {"eof", "done"})
        /\ Closed'[<<"up", c>>] = (a_task'[c] \in {"eof", "done"})
    BY TheStreams DEF Closed
  <1>4. Closed[<<"down", c>>] = over(r_task[c], task_pc[c])
    BY TheStreams DEF Closed
  <1>5. Closed'[<<"down", c>>] = over(r_task'[c], task_pc'[c])
    BY TheStreams DEF Closed
  <1>. QED
    BY <1>1, <1>2, <1>3, <1>4, <1>5

LEMMA GotPoints ==
    ASSUME NEW c \in Conns
    PROVE  /\ Got[<<"up", c>>] = Position(c, tgt_got[c])
           /\ Got[<<"down", c>>] = Position(c, app_got[c])
           /\ Got'[<<"up", c>>] = Position(c, tgt_got'[c])
           /\ Got'[<<"down", c>>] = Position(c, app_got'[c])
  BY TheStreams DEF Got, Position

LEMMA EndedPoints ==
    ASSUME NEW c \in Conns
    PROVE  /\ Ended[<<"up", c>>] = tgt_eof[c] /\ Ended[<<"down", c>>] = app_eof[c]
           /\ Ended'[<<"up", c>>] = tgt_eof'[c] /\ Ended'[<<"down", c>>] = app_eof'[c]
  BY TheStreams DEF Ended

LEMMA StreamShape ==
    ASSUME NEW t \in Streams
    PROVE  \E c \in Conns : t = <<"up", c>> \/ t = <<"down", c>>
  BY DEF Streams, Direction

LEMMA StreamFunctions ==
    /\ Written = [t \in Streams |-> Written[t]] /\ Written' = [t \in Streams |-> Written'[t]]
    /\ Closed = [t \in Streams |-> Closed[t]] /\ Closed' = [t \in Streams |-> Closed'[t]]
    /\ Got = [t \in Streams |-> Got[t]] /\ Got' = [t \in Streams |-> Got'[t]]
    /\ Ended = [t \in Streams |-> Ended[t]] /\ Ended' = [t \in Streams |-> Ended'[t]]
  BY DEF Written, Closed, Got, Ended

\* Where a change on c is seen: in one of its two streams.
LEMMA WrittenUp ==
    ASSUME RoutingInv, NEW c \in Conns, app_sent' = [app_sent EXCEPT ![c] = @ + 1],
           UNCHANGED tgt_sent
    PROVE  Written' = [Written EXCEPT ![<<"up", c>>] = @ + 1]
  <1>1. Written'[<<"up", c>>] = Written[<<"up", c>>] + 1
    BY WrittenPoints, FunctionTypes
  <1>2. ASSUME NEW t \in Streams, t # <<"up", c>> PROVE Written'[t] = Written[t]
    <2>1. PICK d \in Conns : t = <<"up", d>> \/ t = <<"down", d>>
      BY StreamShape
    <2>2. CASE t = <<"up", d>>
      <3>1. app_sent'[d] = app_sent[d]
        BY <1>2, FunctionTypes, <2>2
      <3>. QED
        BY <2>2, <3>1, WrittenPoints
    <2>3. CASE t # <<"up", d>>
      <3>1. t = <<"down", d>>
        BY <2>1, <2>3
      <3>2. Written[<<"down", d>>] = tgt_sent[d] /\ Written'[<<"down", d>>] = tgt_sent'[d]
        BY WrittenPoints
      <3>. QED
        BY <3>1, <3>2
    <2>. QED
      BY <2>2, <2>3
  <1>. QED
    BY <1>1, <1>2, TheStreams, StreamFunctions, OneStream

LEMMA WrittenDown ==
    ASSUME RoutingInv, NEW c \in Conns, tgt_sent' = [tgt_sent EXCEPT ![c] = @ + 1],
           UNCHANGED app_sent
    PROVE  Written' = [Written EXCEPT ![<<"down", c>>] = @ + 1]
  <1>1. Written'[<<"down", c>>] = Written[<<"down", c>>] + 1
    BY WrittenPoints, FunctionTypes
  <1>2. ASSUME NEW t \in Streams, t # <<"down", c>> PROVE Written'[t] = Written[t]
    <2>1. PICK d \in Conns : t = <<"up", d>> \/ t = <<"down", d>>
      BY StreamShape
    <2>2. CASE t = <<"down", d>>
      <3>1. tgt_sent'[d] = tgt_sent[d]
        BY <1>2, FunctionTypes, <2>2
      <3>. QED
        BY <2>2, <3>1, WrittenPoints
    <2>3. CASE t # <<"down", d>>
      <3>1. t = <<"up", d>>
        BY <2>1, <2>3
      <3>2. Written[<<"up", d>>] = app_sent[d] /\ Written'[<<"up", d>>] = app_sent'[d]
        BY WrittenPoints
      <3>. QED
        BY <3>1, <3>2
    <2>. QED
      BY <2>2, <2>3
  <1>. QED
    BY <1>1, <1>2, TheStreams, StreamFunctions, OneStream

LEMMA EndedUp ==
    ASSUME RoutingInv, NEW c \in Conns, tgt_eof' = [tgt_eof EXCEPT ![c] = TRUE], UNCHANGED app_eof
    PROVE  Ended' = [Ended EXCEPT ![<<"up", c>>] = TRUE]
  <1>1. Ended'[<<"up", c>>] = TRUE
    BY EndedPoints, ServerTypes
  <1>2. ASSUME NEW t \in Streams, t # <<"up", c>> PROVE Ended'[t] = Ended[t]
    <2>1. PICK d \in Conns : t = <<"up", d>> \/ t = <<"down", d>>
      BY StreamShape
    <2>2. CASE t = <<"up", d>>
      <3>1. tgt_eof'[d] = tgt_eof[d]
        BY <1>2, ServerTypes, <2>2
      <3>. QED
        BY <2>2, <3>1, EndedPoints
    <2>3. CASE t # <<"up", d>>
      <3>1. t = <<"down", d>>
        BY <2>1, <2>3
      <3>2. Ended[<<"down", d>>] = app_eof[d] /\ Ended'[<<"down", d>>] = app_eof'[d]
        BY EndedPoints
      <3>. QED
        BY <3>1, <3>2
    <2>. QED
      BY <2>2, <2>3
  <1>. QED
    BY <1>1, <1>2, TheStreams, StreamFunctions, OneStream

LEMMA EndedDown ==
    ASSUME RoutingInv, NEW c \in Conns, app_eof' = [app_eof EXCEPT ![c] = TRUE], UNCHANGED tgt_eof
    PROVE  Ended' = [Ended EXCEPT ![<<"down", c>>] = TRUE]
  <1>1. Ended'[<<"down", c>>] = TRUE
    BY EndedPoints, ClientTypes
  <1>2. ASSUME NEW t \in Streams, t # <<"down", c>> PROVE Ended'[t] = Ended[t]
    <2>1. PICK d \in Conns : t = <<"up", d>> \/ t = <<"down", d>>
      BY StreamShape
    <2>2. CASE t = <<"down", d>>
      <3>1. app_eof'[d] = app_eof[d]
        BY <1>2, ClientTypes, <2>2
      <3>. QED
        BY <2>2, <3>1, EndedPoints
    <2>3. CASE t # <<"down", d>>
      <3>1. t = <<"up", d>>
        BY <2>1, <2>3
      <3>2. Ended[<<"up", d>>] = tgt_eof[d] /\ Ended'[<<"up", d>>] = tgt_eof'[d]
        BY EndedPoints
      <3>. QED
        BY <3>1, <3>2
    <2>. QED
      BY <2>2, <2>3
  <1>. QED
    BY <1>1, <1>2, TheStreams, StreamFunctions, OneStream

LEMMA ClosedUp ==
    ASSUME NEW c \in Conns, UpSender(c)' = "over",
           \A d \in Conns : /\ d # c => UpSender(d)' = UpSender(d)
                            /\ DownSender(d)' = DownSender(d)
    PROVE  Closed' = [Closed EXCEPT ![<<"up", c>>] = TRUE]
  <1>1. Closed'[<<"up", c>>] = TRUE
    BY ClosedPoints
  <1>2. ASSUME NEW t \in Streams, t # <<"up", c>> PROVE Closed'[t] = Closed[t]
    <2>1. PICK d \in Conns : t = <<"up", d>> \/ t = <<"down", d>>
      BY StreamShape
    <2>2. CASE t = <<"up", d>>
      <3>1. d # c
        BY <1>2, <2>2
      <3>. QED
        BY <2>2, <3>1, ClosedPoints
    <2>3. CASE t # <<"up", d>>
      <3>1. t = <<"down", d>>
        BY <2>1, <2>3
      <3>2. /\ Closed[<<"down", d>>] = (DownSender(d) = "over")
            /\ Closed'[<<"down", d>>] = (DownSender(d)' = "over")
        BY ClosedPoints
      <3>. QED
        BY <3>1, <3>2
    <2>. QED
      BY <2>2, <2>3
  <1>. QED
    BY <1>1, <1>2, TheStreams, StreamFunctions, OneStream

LEMMA ClosedDown ==
    ASSUME NEW c \in Conns, DownSender(c)' = "over",
           \A d \in Conns : /\ d # c => DownSender(d)' = DownSender(d)
                            /\ UpSender(d)' = UpSender(d)
    PROVE  Closed' = [Closed EXCEPT ![<<"down", c>>] = TRUE]
  <1>1. Closed'[<<"down", c>>] = TRUE
    BY ClosedPoints
  <1>2. ASSUME NEW t \in Streams, t # <<"down", c>> PROVE Closed'[t] = Closed[t]
    <2>1. PICK d \in Conns : t = <<"up", d>> \/ t = <<"down", d>>
      BY StreamShape
    <2>2. CASE t = <<"down", d>>
      <3>1. d # c
        BY <1>2, <2>2
      <3>. QED
        BY <2>2, <3>1, ClosedPoints
    <2>3. CASE t # <<"down", d>>
      <3>1. t = <<"up", d>>
        BY <2>1, <2>3
      <3>2. Closed[<<"up", d>>] = (UpSender(d) = "over") /\ Closed'[<<"up", d>>] = (UpSender(d)' = "over")
        BY ClosedPoints
      <3>. QED
        BY <3>1, <3>2
    <2>. QED
      BY <2>2, <2>3
  <1>. QED
    BY <1>1, <1>2, TheStreams, StreamFunctions, OneStream

\* An open stream that stays open is as if closed were assigned FALSE.
LEMMA ClosedSame ==
    ASSUME NEW s \in Streams, ~ Closed[s], Closed' = Closed
    PROVE  Closed' = [Closed EXCEPT ![s] = FALSE]
  <1>1. Closed'[s] = FALSE
    <2>1. PICK d \in Conns : s = <<"up", d>> \/ s = <<"down", d>>
      BY StreamShape
    <2>. QED
      BY <2>1, ClosedPoints
  <1>. QED
    BY <1>1, StreamFunctions, OneStream

\* The next chunk of a stream extends its positions by the next number.
LEMMA PositionAppend ==
    ASSUME NEW c, NEW g \in Seq(ChunkFor(c)), NEW f \in ChunkFor(c), f.n = Len(g) + 1
    PROVE  /\ Position(c, g) \in Seq(Nat) /\ Len(Position(c, g)) = Len(g)
           /\ Position(c, Append(g, f)) = Append(Position(c, g), Len(Position(c, g)) + 1)
  <1>1. \A k \in DOMAIN g : g[k] \in ChunkFor(c)
    OBVIOUS
  <1>2. Position(c, g) \in Seq(Nat) /\ Len(Position(c, g)) = Len(g)
    BY <1>1 DEF Position, ChunkFor
  <1>3. Position(c, Append(g, f)) \in Seq(Nat) /\ Len(Position(c, Append(g, f))) = Len(g) + 1
    <2>1. Append(g, f) \in Seq(ChunkFor(c)) /\ Len(Append(g, f)) = Len(g) + 1
      OBVIOUS
    <2>2. \A k \in DOMAIN Append(g, f) : Append(g, f)[k] \in ChunkFor(c)
      BY <2>1
    <2>. QED
      BY <2>1, <2>2 DEF Position, ChunkFor
  <1>4. \A k \in 1 .. Len(g) + 1 :
          Position(c, Append(g, f))[k] = Append(Position(c, g), Len(Position(c, g)) + 1)[k]
    BY <1>1, <1>2 DEF Position, ChunkFor
  <1>. QED
    BY <1>2, <1>3, <1>4, SeqEqual

LEMMA GotUp ==
    ASSUME RoutingInv, IdsDistinct, NEW c \in Conns, NEW f \in ChunkFor(c),
           f.n = Len(tgt_got[c]) + 1, tgt_got' = [tgt_got EXCEPT ![c] = Append(@, f)],
           UNCHANGED app_got
    PROVE  /\ Len(Got[<<"up", c>>]) = Len(tgt_got[c])
           /\ Got' = [Got EXCEPT ![<<"up", c>>] = Append(@, Len(@) + 1)]
  <1>1. tgt_got[c] \in Seq(ChunkFor(c)) /\ tgt_got'[c] = Append(tgt_got[c], f)
    BY FlowTypes, FunctionTypes
  <1>2. Got[<<"up", c>>] = Position(c, tgt_got[c]) /\ Got'[<<"up", c>>] = Position(c, tgt_got'[c])
    BY GotPoints
  <1>3. /\ Len(Got[<<"up", c>>]) = Len(tgt_got[c])
        /\ Got'[<<"up", c>>] = Append(Got[<<"up", c>>], Len(Got[<<"up", c>>]) + 1)
    BY ONLY <1>1, <1>2, f \in ChunkFor(c), f.n = Len(tgt_got[c]) + 1, PositionAppend
  <1>4. ASSUME NEW t \in Streams, t # <<"up", c>> PROVE Got'[t] = Got[t]
    <2>1. PICK d \in Conns : t = <<"up", d>> \/ t = <<"down", d>>
      BY StreamShape
    <2>2. CASE t = <<"up", d>>
      <3>1. tgt_got'[d] = tgt_got[d]
        BY <1>4, FunctionTypes, <2>2
      <3>. QED
        BY <2>2, <3>1, GotPoints
    <2>3. CASE t # <<"up", d>>
      <3>1. t = <<"down", d>>
        BY <2>1, <2>3
      <3>2. Got[<<"down", d>>] = Position(d, app_got[d]) /\ Got'[<<"down", d>>] = Position(d, app_got'[d])
        BY GotPoints
      <3>. QED
        BY <3>1, <3>2
    <2>. QED
      BY <2>2, <2>3
  <1>. QED
    BY <1>3, <1>4, TheStreams, StreamFunctions, OneStream

LEMMA GotDown ==
    ASSUME RoutingInv, IdsDistinct, NEW c \in Conns, NEW f \in ChunkFor(c),
           f.n = Len(app_got[c]) + 1, app_got' = [app_got EXCEPT ![c] = Append(@, f)],
           UNCHANGED tgt_got
    PROVE  /\ Len(Got[<<"down", c>>]) = Len(app_got[c])
           /\ Got' = [Got EXCEPT ![<<"down", c>>] = Append(@, Len(@) + 1)]
  <1>1. app_got[c] \in Seq(ChunkFor(c)) /\ app_got'[c] = Append(app_got[c], f)
    BY FlowTypes, FunctionTypes
  <1>2. Got[<<"down", c>>] = Position(c, app_got[c]) /\ Got'[<<"down", c>>] = Position(c, app_got'[c])
    BY GotPoints
  <1>3. /\ Len(Got[<<"down", c>>]) = Len(app_got[c])
        /\ Got'[<<"down", c>>] = Append(Got[<<"down", c>>], Len(Got[<<"down", c>>]) + 1)
    BY ONLY <1>1, <1>2, f \in ChunkFor(c), f.n = Len(app_got[c]) + 1, PositionAppend
  <1>4. ASSUME NEW t \in Streams, t # <<"down", c>> PROVE Got'[t] = Got[t]
    <2>1. PICK d \in Conns : t = <<"up", d>> \/ t = <<"down", d>>
      BY StreamShape
    <2>2. CASE t = <<"down", d>>
      <3>1. app_got'[d] = app_got[d]
        BY <1>4, FunctionTypes, <2>2
      <3>. QED
        BY <2>2, <3>1, GotPoints
    <2>3. CASE t # <<"down", d>>
      <3>1. t = <<"up", d>>
        BY <2>1, <2>3
      <3>2. Got[<<"up", d>>] = Position(d, tgt_got[d]) /\ Got'[<<"up", d>>] = Position(d, tgt_got'[d])
        BY GotPoints
      <3>. QED
        BY <3>1, <3>2
    <2>. QED
      BY <2>2, <2>3
  <1>. QED
    BY <1>3, <1>4, TheStreams, StreamFunctions, OneStream
-----------------------------------------------------------------------------
(* Every step is one of Promise's, or none *)

\* A step that ends no sender and cuts nothing, by its variables.
LEMMA StillStep ==
    ASSUME UNCHANGED <<app_sent, tgt_sent, app_got, tgt_got, app_eof, tgt_eof>>,
           \A c \in Conns : UpSender(c)' = UpSender(c) /\ DownSender(c)' = DownSender(c),
           srv_loop' = "exited" <=> srv_loop = "exited",
           \A c \in Conns : conn_pc'[c] = "failed" <=> conn_pc[c] = "failed"
    PROVE  UNCHANGED Promise!svars
  BY PartsStay, PromiseStays

LEMMA ClientLocalPromise ==
    ASSUME RoutingInv, IdsDistinct, LifeInv, FlowInv, ClientOnly(ClientLocal)
    PROVE  Promise!Next \/ UNCHANGED Promise!svars
  <1>1. UNCHANGED <<tgt_sent, tgt_got, tgt_eof, srv_loop, task_pc, r_task>>
    BY DEF ClientOnly, serverVars, tgtVars, loopVars, taskVars
  <1>2. ASSUME NEW c \in Conns PROVE DownSender(c)' = DownSender(c)
    BY <1>1 DEF DownSender
  <1>3. UNCHANGED a_task => \A c \in Conns : UpSender(c)' = UpSender(c)
    BY DEF UpSender
  <1>4. ASSUME NEW l \in Loops, NEW c \in Conns, AcceptConn(l, c) PROVE UNCHANGED Promise!svars
    BY <1>1, <1>2, <1>3, <1>4, StillStep DEF AcceptConn, appVars
  <1>5. ASSUME NEW l \in Loops, InsertChannel(l) PROVE UNCHANGED Promise!svars
    <2>. DEFINE d == acceptor[l]
    <2>1. d \in Conns /\ conn_pc[d] = "new"
      BY <1>5, ClientTypes DEF InsertChannel, LifeInv, AcceptorsApart, ConnOrNone
    <2>2. conn_pc' = [conn_pc EXCEPT ![d] = "opening"] /\ UNCHANGED <<a_task, appVars>>
      BY <1>5 DEF InsertChannel
    <2>. HIDE DEF d
    <2>3. \A c \in Conns : conn_pc'[c] = "failed" <=> conn_pc[c] = "failed"
      BY <2>1, <2>2, ClientTypes
    <2>. QED
      BY <1>1, <1>2, <1>3, <2>2, <2>3, StillStep DEF appVars
  <1>6. ASSUME NEW d \in Conns, SendConnect(d) PROVE UNCHANGED Promise!svars
    <2>1. /\ conn_pc[d] = "opening" /\ conn_pc' = [conn_pc EXCEPT ![d] = "open"]
          /\ a_task' = [a_task EXCEPT ![d] = "run"] /\ UNCHANGED appVars
      BY <1>6 DEF SendConnect
    <2>2. a_task[d] = "idle"
      BY <2>1 DEF LifeInv, ConnLife
    <2>3. \A c \in Conns : conn_pc'[c] = "failed" <=> conn_pc[c] = "failed"
      BY <2>1, ClientTypes
    <2>4. \A c \in Conns : UpSender(c)' = UpSender(c)
      BY <2>1, <2>2, ClientTypes DEF UpSender
    <2>. QED
      BY <1>1, <1>2, <2>1, <2>3, <2>4, StillStep DEF appVars
  <1>7. ASSUME NEW d \in Conns, ConnectNotSent(d) PROVE Promise!Next
    <2>1. /\ conn_pc' = [conn_pc EXCEPT ![d] = "failed"]
          /\ app_eof' = [app_eof EXCEPT ![d] = TRUE]
          /\ UNCHANGED <<a_task, app_sent, app_got>>
      BY <1>7 DEF ConnectNotSent
    <2>2. Written' = Written /\ Closed' = Closed /\ Got' = Got
      BY <1>1, <1>2, <1>3, <2>1, PartsStay
    <2>3. CutOff' \in [Streams -> BOOLEAN] /\ Ended' \in [Streams -> BOOLEAN]
      BY <1>1, <2>1, ClientTypes, ServerTypes DEF CutOff, Ended, Streams, Direction
    <2>4. \A s \in Streams : CutOff[s] => CutOff'[s]
      BY <1>1, <2>1, ClientTypes DEF CutOff, Streams, Direction
    <2>5. ASSUME NEW s \in Streams PROVE Ended'[s] = Ended[s] \/ (CutOff'[s] /\ Ended'[s])
      BY <1>1, <2>1, ClientTypes DEF CutOff, Ended, Streams, Direction
    <2>. QED
      BY <2>2, <2>3, <2>4, <2>5, PromiseCuts
  <1>8. ASSUME NEW d \in Conns, AReadData(d) PROVE Promise!Next
    <2>1. /\ a_task[d] = "run" /\ app_sent' = [app_sent EXCEPT ![d] = @ + 1]
          /\ UNCHANGED <<conn_pc, app_got, app_eof>>
      BY <1>8 DEF AReadData
    <2>2. a_task' = a_task \/ a_task' = [a_task EXCEPT ![d] = "done"]
      BY <1>8 DEF AReadData
    <2>3. Written' = [Written EXCEPT ![<<"up", d>>] = @ + 1]
      BY <1>1, <2>1, WrittenUp
    <2>4. Got' = Got /\ Ended' = Ended /\ CutOff' = CutOff
      BY <1>1, <2>1, PartsStay
    <2>5. <<"up", d>> \in Streams /\ ~ Closed[<<"up", d>>]
      BY <2>1, TheStreams, ClosedPoints DEF UpSender
    <2>6. \E b \in BOOLEAN : Closed' = [Closed EXCEPT ![<<"up", d>>] = b]
      <3>1. CASE a_task' = a_task
        <4>1. Closed' = Closed
          BY <1>2, <1>3, <3>1, PartsStay
        <4>. QED
          BY <2>5, <4>1, ClosedSame
      <3>2. CASE a_task' = [a_task EXCEPT ![d] = "done"]
        <4>1. UpSender(d)' = "over" /\ \A c \in Conns : c # d => UpSender(c)' = UpSender(c)
          BY <3>2, ClientTypes DEF UpSender
        <4>. QED
          BY <1>2, <4>1, ClosedUp
      <3>. QED
        BY <2>2, <3>1, <3>2
    <2>. QED
      BY <2>3, <2>4, <2>5, <2>6, PromiseWrites
  <1>9. ASSUME NEW d \in Conns, AReadEnd(d) PROVE Promise!Next
    <2>1. /\ a_task' = [a_task EXCEPT ![d] = "eof"] /\ UNCHANGED <<conn_pc, appVars>>
      BY <1>9 DEF AReadEnd
    <2>2. UpSender(d)' = "over" /\ \A c \in Conns : c # d => UpSender(c)' = UpSender(c)
      BY <2>1, ClientTypes DEF UpSender
    <2>3. Closed' = [Closed EXCEPT ![<<"up", d>>] = TRUE]
      BY <1>2, <2>2, ClosedUp
    <2>4. Written' = Written /\ Got' = Got /\ Ended' = Ended /\ CutOff' = CutOff
      BY <1>1, <2>1, PartsStay DEF appVars
    <2>. QED
      BY <2>3, <2>4, TheStreams, PromiseCloses
  <1>10. ASSUME NEW d \in Conns, ASendEof(d) PROVE UNCHANGED Promise!svars
    <2>1. a_task[d] = "eof" /\ a_task' = [a_task EXCEPT ![d] = "done"] /\ UNCHANGED <<conn_pc, appVars>>
      BY <1>10 DEF ASendEof
    <2>2. \A c \in Conns : UpSender(c)' = UpSender(c)
      BY <2>1, ClientTypes DEF UpSender
    <2>. QED
      BY <1>1, <1>2, <2>1, <2>2, StillStep DEF appVars
  <1>11. ASSUME NEW d \in Conns, BWrite(d) PROVE Promise!Next
    <2>1. /\ b_task[d] = "run" /\ in_rx[d] # <<>>
          /\ app_got' = [app_got EXCEPT ![d] = Append(@, Head(in_rx[d]))]
          /\ UNCHANGED <<conn_pc, a_task, app_sent, app_eof>>
      BY <1>11 DEF BWrite
    <2>2. DownLive(d) /\ ~ app_eof[d]
      BY <2>1 DEF DownLive, LifeInv, ConnLife
    <2>3. Numbered(app_got[d], 0) /\ Numbered(in_rx[d], Len(app_got[d])) /\ DownWay(d)
      BY <2>2 DEF FlowInv, DownFlow
    <2>4. in_rx[d] \in Seq(ChunkFor(d)) /\ app_got[d] \in Seq(ChunkFor(d)) /\ tgt_sent[d] \in Nat
          /\ DownBase(d) \in Nat
      BY FlowTypes
    <2>5. Head(in_rx[d]) \in ChunkFor(d) /\ Head(in_rx[d]).n = Len(app_got[d]) + 1
      BY ONLY <2>1, <2>3, <2>4, HeadLemma, NumberedTake
    <2>6. /\ Len(Got[<<"down", d>>]) = Len(app_got[d])
          /\ Got' = [Got EXCEPT ![<<"down", d>>] = Append(@, Len(@) + 1)]
      BY <1>1, <2>1, <2>5, GotDown
    <2>7. Len(app_got[d]) < tgt_sent[d]
      <3>1. DownBase(d) <= tgt_sent[d]
        BY <2>3, <2>4, CarriedBounds DEF DownWay
      <3>2. Len(in_rx[d]) \in Nat \ {0} /\ Len(app_got[d]) \in Nat
        BY ONLY <2>1, <2>4
      <3>3. DownBase(d) = Len(app_got[d]) + Len(in_rx[d])
        BY DEF DownBase
      <3>4. \A k, n, m \in Nat : n # 0 /\ k + n <= m => k < m
        OBVIOUS
      <3>. QED
        BY ONLY <2>4, <3>1, <3>2, <3>3, <3>4
    <2>8. Written' = Written /\ Closed' = Closed /\ Ended' = Ended /\ CutOff' = CutOff
      BY <1>1, <1>2, <1>3, <2>1, PartsStay
    <2>. QED
      BY <2>2, <2>6, <2>7, <2>8, TheStreams, WrittenPoints, EndedPoints, PromiseDelivers
  <1>12. ASSUME NEW d \in Conns, BWriteFail(d) PROVE UNCHANGED Promise!svars
    BY <1>1, <1>2, <1>3, <1>12, StillStep DEF BWriteFail, appVars
  <1>13. ASSUME NEW d \in Conns, BEnd(d) PROVE Promise!Next
    <2>1. /\ b_task[d] = "run" /\ in_rx[d] = <<>> /\ channels[ids[d]] # d
          /\ app_eof' = [app_eof EXCEPT ![d] = TRUE]
          /\ UNCHANGED <<conn_pc, a_task, app_sent, app_got>>
      BY <1>13 DEF BEnd
    <2>2. DownBase(d) = tgt_sent[d] /\ DownSender(d) = "over"
      BY <2>1 DEF FlowInv, DownDone
    <2>3. app_got[d] \in Seq(ChunkFor(d)) /\ Len(app_got[d]) = tgt_sent[d]
      <3>1. DownBase(d) = Len(app_got[d]) + Len(in_rx[d]) /\ in_rx[d] = <<>>
        BY <2>1 DEF DownBase
      <3>2. app_got[d] \in Seq(ChunkFor(d)) /\ Len(app_got[d]) \in Nat
        BY FlowTypes
      <3>. QED
        BY ONLY <2>2, <3>1, <3>2
    <2>4. Len(Got[<<"down", d>>]) = Written[<<"down", d>>] /\ Closed[<<"down", d>>]
      <3>1. Len(Position(d, app_got[d])) = Len(app_got[d])
        BY <2>3 DEF Position, ChunkFor
      <3>. QED
        BY <2>2, <2>3, <3>1, WrittenPoints, ClosedPoints, GotPoints
    <2>5. Ended' = [Ended EXCEPT ![<<"down", d>>] = TRUE]
      BY <1>1, <2>1, EndedDown
    <2>6. Written' = Written /\ Closed' = Closed /\ Got' = Got /\ CutOff' = CutOff
      BY <1>1, <1>2, <1>3, <2>1, PartsStay
    <2>. QED
      BY <2>4, <2>5, <2>6, TheStreams, PromiseEnds
  <1>14. ASSUME NEW d \in Conns, RemoveChannel(d) PROVE UNCHANGED Promise!svars
    <2>1. conn_pc[d] = "open" /\ conn_pc' = [conn_pc EXCEPT ![d] = "done"] /\ UNCHANGED <<a_task, appVars>>
      BY <1>14 DEF RemoveChannel
    <2>2. \A c \in Conns : conn_pc'[c] = "failed" <=> conn_pc[c] = "failed"
      BY <2>1, ClientTypes
    <2>. QED
      BY <1>1, <1>2, <1>3, <2>1, <2>2, StillStep DEF appVars
  <1>15. ASSUME DnsTakesId PROVE UNCHANGED Promise!svars
    BY <1>1, <1>2, <1>3, <1>15, StillStep DEF DnsTakesId, appVars
  <1>. QED
    BY <1>4, <1>5, <1>6, <1>7, <1>8, <1>9, <1>10, <1>11, <1>12, <1>13, <1>14, <1>15
    DEF ClientOnly, ClientLocal

\* Neither task of the client's pipe touches what the streams are read off.
LEMMA ClientPipePromise ==
    ASSUME ClientWithPipe(ClientPipe)
    PROVE  UNCHANGED Promise!svars
  <1>1. UNCHANGED <<conn_pc, a_task, app_sent, app_got, app_eof>>
    BY DEF ClientWithPipe, ClientPipe, ClientWriter, ClientWriterFail, DemuxStep, DemuxPing,
           DemuxData, DemuxDeliver, DemuxClose, DemuxIgnore, DemuxEof, appVars
  <1>2. UNCHANGED <<tgt_sent, tgt_got, tgt_eof, srv_loop, task_pc, r_task>>
    BY DEF ClientWithPipe, serverVars, tgtVars, loopVars, taskVars
  <1>3. \A c \in Conns : UpSender(c)' = UpSender(c) /\ DownSender(c)' = DownSender(c)
    BY <1>1, <1>2 DEF UpSender, DownSender
  <1>. QED
    BY <1>1, <1>2, <1>3, StillStep

LEMMA ServerLocalPromise ==
    ASSUME RoutingInv, IdsDistinct, LifeInv, FlowInv, ServerOnly(ServerLocal)
    PROVE  Promise!Next \/ UNCHANGED Promise!svars
  <1>1. UNCHANGED <<app_sent, app_got, app_eof, conn_pc, a_task>>
    BY DEF ServerOnly, clientVars, appVars
  <1>2. ASSUME NEW c \in Conns PROVE UpSender(c)' = UpSender(c)
    BY <1>1 DEF UpSender
  <1>3. UNCHANGED <<task_pc, r_task>> => \A c \in Conns : DownSender(c)' = DownSender(c)
    BY DEF DownSender
  <1>4. ASSUME UNCHANGED <<srv_loop, tgtVars>>,
               \A c \in Conns : DownSender(c)' = DownSender(c)
        PROVE  UNCHANGED Promise!svars
    BY <1>1, <1>2, <1>4, StillStep DEF tgtVars
  <1>5. ASSUME NEW d \in Conns, ConnectOk(d) PROVE UNCHANGED Promise!svars
    <2>1. /\ task_pc[d] = "connecting" /\ task_pc' = [task_pc EXCEPT ![d] = "relay"]
          /\ r_task' = [r_task EXCEPT ![d] = "run"] /\ UNCHANGED <<loopVars, tgtVars>>
      BY <1>5 DEF ConnectOk
    <2>2. r_task[d] = "idle"
      BY <2>1 DEF LifeInv, TaskLife
    <2>3. \A c \in Conns : DownSender(c)' = DownSender(c)
      BY <2>1, <2>2, ServerTypes DEF DownSender
    <2>. QED
      BY <1>4, <2>1, <2>3 DEF loopVars
  <1>6. ASSUME NEW d \in Conns, ConnectFails(d) PROVE Promise!Next
    <2>1. /\ task_pc' = [task_pc EXCEPT ![d] = "failed"] /\ UNCHANGED <<r_task, loopVars, tgtVars>>
      BY <1>6 DEF ConnectFails
    <2>2. DownSender(d)' = "over" /\ \A c \in Conns : c # d => DownSender(c)' = DownSender(c)
      BY <2>1, ServerTypes DEF DownSender
    <2>3. Closed' = [Closed EXCEPT ![<<"down", d>>] = TRUE]
      BY <1>2, <2>2, ClosedDown
    <2>4. Written' = Written /\ Got' = Got /\ Ended' = Ended /\ CutOff' = CutOff
      BY <1>1, <2>1, PartsStay DEF loopVars, tgtVars
    <2>. QED
      BY <2>3, <2>4, TheStreams, PromiseCloses
  <1>7. ASSUME NEW d \in Conns, SendStop(d) PROVE UNCHANGED Promise!svars
    <2>1. /\ task_pc[d] = "failed" /\ task_pc' = [task_pc EXCEPT ![d] = "removing"]
          /\ UNCHANGED <<r_task, loopVars, tgtVars>>
      BY <1>7 DEF SendStop
    <2>2. \A c \in Conns : DownSender(c)' = DownSender(c)
      BY <2>1, ServerTypes DEF DownSender
    <2>. QED
      BY <1>4, <2>1, <2>2 DEF loopVars
  <1>8. ASSUME NEW d \in Conns, FailRemove(d) PROVE UNCHANGED Promise!svars
    <2>1. /\ task_pc[d] = "removing" /\ task_pc' = [task_pc EXCEPT ![d] = "done"]
          /\ UNCHANGED <<r_task, loopVars, tgtVars>>
      BY <1>8 DEF FailRemove
    <2>2. \A c \in Conns : DownSender(c)' = DownSender(c)
      BY <2>1, ServerTypes DEF DownSender
    <2>. QED
      BY <1>4, <2>1, <2>2 DEF loopVars
  <1>9. ASSUME NEW d \in Conns, WWrite(d) PROVE Promise!Next
    <2>1. /\ Running /\ w_task[d] = "run" /\ inbound[d] # <<>>
          /\ tgt_got' = [tgt_got EXCEPT ![d] = Append(@, Head(inbound[d]))]
          /\ UNCHANGED <<srv_loop, task_pc, r_task, tgt_sent, tgt_eof>>
      BY <1>9 DEF WWrite, loopVars, taskVars
    <2>2. UpLive(d) /\ ~ tgt_eof[d]
      BY <2>1 DEF UpLive, LifeInv, TaskLife
    <2>3. Numbered(tgt_got[d], 0) /\ Numbered(inbound[d], Len(tgt_got[d])) /\ UpWay(d)
      BY <2>2 DEF FlowInv, UpFlow
    <2>4. inbound[d] \in Seq(ChunkFor(d)) /\ tgt_got[d] \in Seq(ChunkFor(d)) /\ app_sent[d] \in Nat
          /\ UpBase(d) \in Nat
      BY FlowTypes
    <2>5. Head(inbound[d]) \in ChunkFor(d) /\ Head(inbound[d]).n = Len(tgt_got[d]) + 1
      BY ONLY <2>1, <2>3, <2>4, HeadLemma, NumberedTake
    <2>6. /\ Len(Got[<<"up", d>>]) = Len(tgt_got[d])
          /\ Got' = [Got EXCEPT ![<<"up", d>>] = Append(@, Len(@) + 1)]
      BY <1>1, <2>1, <2>5, GotUp
    <2>7. Len(tgt_got[d]) < app_sent[d]
      <3>1. UpBase(d) <= app_sent[d]
        BY <2>3, <2>4, CarriedBounds DEF UpWay
      <3>2. Len(inbound[d]) \in Nat \ {0} /\ Len(tgt_got[d]) \in Nat
        BY ONLY <2>1, <2>4
      <3>3. UpBase(d) = Len(tgt_got[d]) + Len(inbound[d])
        BY DEF UpBase
      <3>4. \A k, n, m \in Nat : n # 0 /\ k + n <= m => k < m
        OBVIOUS
      <3>. QED
        BY ONLY <2>4, <3>1, <3>2, <3>3, <3>4
    <2>8. Written' = Written /\ Closed' = Closed /\ Ended' = Ended /\ CutOff' = CutOff
      BY <1>1, <1>2, <1>3, <2>1, PartsStay
    <2>. QED
      BY <2>2, <2>6, <2>7, <2>8, TheStreams, WrittenPoints, EndedPoints, PromiseDelivers
  <1>10. ASSUME NEW d \in Conns, WFail(d) PROVE UNCHANGED Promise!svars
    BY <1>3, <1>4, <1>10 DEF WFail, taskVars, loopVars
  <1>11. ASSUME NEW d \in Conns, WEnd(d) PROVE Promise!Next
    <2>1. /\ w_task[d] = "run" /\ inbound[d] = <<>> /\ tcp_chans[task_ch[d]] # d
          /\ tgt_eof' = [tgt_eof EXCEPT ![d] = TRUE]
          /\ UNCHANGED <<srv_loop, task_pc, r_task, tgt_sent, tgt_got>>
      BY <1>11 DEF WEnd, loopVars, taskVars
    <2>2. task_pc[d] = "relay" /\ task_ch[d] = ids[d]
      BY <2>1, ServerTypes DEF LifeInv, TaskLife
    <2>3. UpBase(d) = app_sent[d] /\ UpSender(d) = "over"
      BY <2>1, <2>2 DEF FlowInv, UpDone, UpLive
    <2>4. tgt_got[d] \in Seq(ChunkFor(d)) /\ Len(tgt_got[d]) = app_sent[d]
      <3>1. UpBase(d) = Len(tgt_got[d]) + Len(inbound[d]) /\ inbound[d] = <<>>
        BY <2>1 DEF UpBase
      <3>2. tgt_got[d] \in Seq(ChunkFor(d)) /\ Len(tgt_got[d]) \in Nat
        BY FlowTypes
      <3>. QED
        BY ONLY <2>3, <3>1, <3>2
    <2>5. Len(Got[<<"up", d>>]) = Written[<<"up", d>>] /\ Closed[<<"up", d>>]
      <3>1. Len(Position(d, tgt_got[d])) = Len(tgt_got[d])
        BY <2>4 DEF Position, ChunkFor
      <3>. QED
        BY <2>3, <2>4, <3>1, WrittenPoints, ClosedPoints, GotPoints
    <2>6. Ended' = [Ended EXCEPT ![<<"up", d>>] = TRUE]
      BY <1>1, <2>1, EndedUp
    <2>7. Written' = Written /\ Closed' = Closed /\ Got' = Got /\ CutOff' = CutOff
      BY <1>1, <1>2, <1>3, <2>1, PartsStay
    <2>. QED
      BY <2>5, <2>6, <2>7, TheStreams, PromiseEnds
  <1>12. ASSUME NEW d \in Conns, RReadData(d) PROVE Promise!Next
    <2>1. /\ r_task[d] = "run" /\ tgt_sent' = [tgt_sent EXCEPT ![d] = @ + 1]
          /\ UNCHANGED <<srv_loop, task_pc, tgt_got, tgt_eof>>
      BY <1>12 DEF RReadData, loopVars, taskVars
    <2>2. r_task' = r_task \/ r_task' = [r_task EXCEPT ![d] = "eof"]
      BY <1>12 DEF RReadData
    <2>3. Written' = [Written EXCEPT ![<<"down", d>>] = @ + 1]
      BY <1>1, <2>1, WrittenDown
    <2>4. Got' = Got /\ Ended' = Ended /\ CutOff' = CutOff
      BY <1>1, <2>1, PartsStay
    <2>5. <<"down", d>> \in Streams /\ ~ Closed[<<"down", d>>]
      <3>1. task_pc[d] = "relay"
        BY <2>1 DEF LifeInv, TaskLife
      <3>. QED
        BY <2>1, <3>1, TheStreams, ClosedPoints DEF DownSender
    <2>6. \E b \in BOOLEAN : Closed' = [Closed EXCEPT ![<<"down", d>>] = b]
      <3>1. CASE r_task' = r_task
        <4>1. Closed' = Closed
          BY <1>2, <1>3, <2>1, <3>1, PartsStay
        <4>. QED
          BY <2>5, <4>1, ClosedSame
      <3>2. CASE r_task' = [r_task EXCEPT ![d] = "eof"]
        <4>1. DownSender(d)' = "over" /\ \A c \in Conns : c # d => DownSender(c)' = DownSender(c)
          BY <2>1, <3>2, ServerTypes DEF DownSender
        <4>. QED
          BY <1>2, <4>1, ClosedDown
      <3>. QED
        BY <2>2, <3>1, <3>2
    <2>. QED
      BY <2>3, <2>4, <2>5, <2>6, PromiseWrites
  <1>13. ASSUME NEW d \in Conns, RReadEnd(d) PROVE Promise!Next
    <2>1. /\ r_task' = [r_task EXCEPT ![d] = "eof"] /\ UNCHANGED <<task_pc, loopVars, tgtVars>>
      BY <1>13 DEF RReadEnd, taskVars
    <2>2. DownSender(d)' = "over" /\ \A c \in Conns : c # d => DownSender(c)' = DownSender(c)
      BY <2>1, ServerTypes DEF DownSender
    <2>3. Closed' = [Closed EXCEPT ![<<"down", d>>] = TRUE]
      BY <1>2, <2>2, ClosedDown
    <2>4. Written' = Written /\ Got' = Got /\ Ended' = Ended /\ CutOff' = CutOff
      BY <1>1, <2>1, PartsStay DEF loopVars, tgtVars
    <2>. QED
      BY <2>3, <2>4, TheStreams, PromiseCloses
  <1>14. ASSUME NEW d \in Conns, RSendEof(d) PROVE UNCHANGED Promise!svars
    <2>1. /\ r_task[d] = "eof" /\ r_task' = [r_task EXCEPT ![d] = "done"]
          /\ UNCHANGED <<task_pc, loopVars, tgtVars>>
      BY <1>14 DEF RSendEof, taskVars
    <2>2. \A c \in Conns : DownSender(c)' = DownSender(c)
      BY <2>1, ServerTypes DEF DownSender
    <2>. QED
      BY <1>4, <2>1, <2>2 DEF loopVars
  <1>15. ASSUME NEW d \in Conns, TaskRemove(d) PROVE UNCHANGED Promise!svars
    <2>1. /\ r_task[d] = "done" /\ task_pc' = [task_pc EXCEPT ![d] = "done"]
          /\ UNCHANGED <<r_task, loopVars, tgtVars>>
      BY <1>15 DEF TaskRemove
    <2>2. \A c \in Conns : DownSender(c)' = DownSender(c)
      BY <2>1, ServerTypes DEF DownSender
    <2>. QED
      BY <1>4, <2>1, <2>2 DEF loopVars
  <1>. QED
    BY <1>5, <1>6, <1>7, <1>8, <1>9, <1>10, <1>11, <1>12, <1>13, <1>14, <1>15
    DEF ServerOnly, ServerLocal

LEMMA ServerPipePromise ==
    ASSUME RoutingInv, LifeInv, ServerWithPipe(ServerPipe)
    PROVE  Promise!Next \/ UNCHANGED Promise!svars
  <1>1. UNCHANGED <<app_sent, app_got, app_eof, conn_pc, a_task>>
    BY DEF ServerWithPipe, clientVars, appVars
  <1>2. ASSUME NEW c \in Conns PROVE UpSender(c)' = UpSender(c)
    BY <1>1 DEF UpSender
  <1>3. ASSUME UNCHANGED <<task_pc, r_task, tgtVars>>,
               srv_loop' = "exited" <=> srv_loop = "exited"
        PROVE  UNCHANGED Promise!svars
    <2>1. \A c \in Conns : DownSender(c)' = DownSender(c)
      BY <1>3 DEF DownSender
    <2>. QED
      BY <1>1, <1>2, <1>3, <2>1, StillStep DEF tgtVars
  <1>4. CASE SConnect
    <2>. DEFINE d == Head(c2s).conn
    <2>1. d \in Conns /\ task_pc[d] = "none"
      BY <1>4, ConnectIsNew
    <2>2. /\ task_pc' = [task_pc EXCEPT ![d] = "connecting"]
          /\ UNCHANGED <<r_task, srv_loop, tgtVars>>
      BY <1>4 DEF SConnect, LoopReads
    <2>. HIDE DEF d
    <2>3. \A c \in Conns : DownSender(c)' = DownSender(c)
      BY <2>1, <2>2, ServerTypes DEF DownSender
    <2>. QED
      BY <1>1, <1>2, <2>2, <2>3, StillStep DEF tgtVars
  <1>5. CASE SExit
    <2>1. /\ srv_loop' = "exited" /\ tgt_eof' = [c \in Conns |-> tgt_eof[c] \/ w_task[c] = "run"]
          /\ UNCHANGED <<task_pc, r_task, tgt_sent, tgt_got>>
      BY <1>5 DEF SExit, taskVars
    <2>2. \A c \in Conns : DownSender(c)' = DownSender(c)
      BY <2>1 DEF DownSender
    <2>3. Written' = Written /\ Closed' = Closed /\ Got' = Got
      BY <1>1, <1>2, <2>1, <2>2, PartsStay
    <2>4. tgt_eof' \in [Conns -> BOOLEAN]
      BY <2>1
    <2>5. CutOff' \in [Streams -> BOOLEAN] /\ Ended' \in [Streams -> BOOLEAN]
      BY <1>1, <2>4, ClientTypes DEF CutOff, Ended, Streams, Direction
    <2>6. \A s \in Streams : CutOff[s] => CutOff'[s]
      BY <1>1, <2>1 DEF CutOff, Streams, Direction
    <2>7. ASSUME NEW s \in Streams PROVE Ended'[s] = Ended[s] \/ (CutOff'[s] /\ Ended'[s])
      <3>1. CASE s[1] = "up"
        <4>1. CutOff'[s] /\ Ended'[s] = tgt_eof'[s[2]] /\ Ended[s] = tgt_eof[s[2]] /\ s[2] \in Conns
          BY <2>1, <3>1 DEF CutOff, Ended, Streams, Direction
        <4>2. tgt_eof[s[2]] => tgt_eof'[s[2]]
          BY <2>1, <4>1
        <4>3. tgt_eof[s[2]] \in BOOLEAN /\ tgt_eof'[s[2]] \in BOOLEAN
          BY <2>4, <4>1, ServerTypes
        <4>. QED
          BY <4>1, <4>2, <4>3
      <3>2. CASE s[1] # "up"
        BY <1>1, <3>2 DEF Ended, Streams, Direction
      <3>. QED
        BY <3>1, <3>2
    <2>. QED
      BY <2>3, <2>5, <2>6, <2>7, PromiseCuts
  <1>6. CASE SStdinEof
    BY <1>3, <1>6 DEF SStdinEof, taskVars
  <1>7. CASE SData \/ SClose \/ SPong
    BY <1>3, <1>7 DEF SData, SClose, SPong, LoopReads, taskVars
  <1>8. CASE SDeliver
    BY <1>3, <1>8 DEF SDeliver, taskVars
  <1>9. CASE ServerWriter \/ ServerWriterFail
    BY <1>3, <1>9 DEF ServerWriter, ServerWriterFail, taskVars, loopVars
  <1>. QED
    BY <1>4, <1>5, <1>6, <1>7, <1>8, <1>9 DEF ServerWithPipe, ServerPipe, LoopStep

\* Every step of the tunnel writes, closes, delivers or ends one stream, cuts
\* some, or leaves all of them alone.
LEMMA PromiseStep ==
    ASSUME RoutingInv, IdsDistinct, StreamsInv, [Next]_vars
    PROVE  Promise!Next \/ UNCHANGED Promise!svars
  <1>1. LifeInv /\ FlowInv
    BY DEF StreamsInv
  <1>2. CASE LoseLink \/ UNCHANGED vars
    <2>1. UNCHANGED <<app_sent, tgt_sent, app_got, tgt_got, app_eof, tgt_eof, srv_loop, conn_pc,
                      a_task, r_task, task_pc>>
      BY <1>2 DEF LoseLink, vars, clientVars, serverVars, appVars, tgtVars, loopVars, taskVars
    <2>2. \A c \in Conns : UpSender(c)' = UpSender(c) /\ DownSender(c)' = DownSender(c)
      BY <2>1 DEF UpSender, DownSender
    <2>. QED
      BY <2>1, <2>2, StillStep
  <1>. QED
    BY <1>1, <1>2, ClientLocalPromise, ClientPipePromise, ServerLocalPromise, ServerPipePromise
    DEF Next

LEMMA PromiseInit == Init => Promise!Init
  <1>. SUFFICES ASSUME Init PROVE Promise!Init
    OBVIOUS
  <1>1. ASSUME NEW c \in Conns
        PROVE  /\ app_sent[c] = 0 /\ tgt_sent[c] = 0 /\ a_task[c] = "idle" /\ r_task[c] = "idle"
               /\ task_pc[c] = "none" /\ tgt_got[c] = <<>> /\ app_got[c] = <<>>
               /\ tgt_eof[c] = FALSE /\ app_eof[c] = FALSE /\ conn_pc[c] = "new"
    BY DEF Init, ClientInit, ServerInit
  <1>2. srv_loop = "run"
    BY DEF Init, ServerInit
  <1>3. \A c \in Conns : Position(c, <<>>) = <<>>
    BY DEF Position
  <1>4. Written = [s \in Streams |-> 0]
    BY <1>1 DEF Written, Streams
  <1>5. Closed = [s \in Streams |-> FALSE]
    <2>1. ASSUME NEW c \in Conns PROVE UpSender(c) # "over" /\ DownSender(c) # "over"
      BY <1>1 DEF UpSender, DownSender
    <2>2. ASSUME NEW s \in Streams PROVE Closed[s] = FALSE
      BY <2>1, StreamShape, ClosedPoints
    <2>. QED
      BY <2>2, StreamFunctions
  <1>6. Got = [s \in Streams |-> <<>>]
    <2>1. ASSUME NEW c \in Conns PROVE Got[<<"up", c>>] = <<>> /\ Got[<<"down", c>>] = <<>>
      <3>1. tgt_got[c] = <<>> /\ app_got[c] = <<>>
        BY <1>1
      <3>2. Got[<<"up", c>>] = Position(c, tgt_got[c]) /\ Got[<<"down", c>>] = Position(c, app_got[c])
        BY GotPoints
      <3>. QED
        BY ONLY <1>3, <3>1, <3>2, c \in Conns
    <2>2. ASSUME NEW s \in Streams PROVE Got[s] = <<>>
      BY <2>1, StreamShape
    <2>. QED
      BY <2>2, StreamFunctions
  <1>7. Ended = [s \in Streams |-> FALSE]
    BY <1>1 DEF Ended, Streams
  <1>8. CutOff = [s \in Streams |-> FALSE]
    BY <1>1, <1>2 DEF CutOff, Streams
  <1>. QED
    BY <1>4, <1>5, <1>6, <1>7, <1>8, PromiseStarts
-----------------------------------------------------------------------------
(* The promise *)

\* The tunnel implements Streams as long as no channel id is given out twice: on
\* both directions of every connection the chunks arrive in order, once, none of
\* another connection, and complete before the end of the stream.
THEOREM TunnelKeepsPromise == Spec /\ []IdsDistinct => StreamsPromise
  <1>1. Init => Promise!Init
    BY PromiseInit
  <1>2. RoutingInv /\ IdsDistinct /\ StreamsInv /\ [Next]_vars
          => Promise!Next \/ UNCHANGED Promise!svars
    BY PromiseStep
  <1>. QED
    BY <1>1, <1>2, RoutingInvariant, StreamsInvariant, PTL DEF Spec, StreamsPromise, Promise!Spec

\* The connections that were accepted.
Given == {c \in Conns : ids[c] # 0}

\* Ids are given out from 1 up, to connections and to DNS queries; the allocator
\* wraps when every connection has one.
AllocInv ==
    /\ IdsDistinct
    /\ \/ Given = Conns
       \/ /\ next_id = Cardinality(Given) + dns_ids + 1
          /\ \A c \in Given : ids[c] < next_id

LEMMA AllocInit == Init => AllocInv
  <1>. SUFFICES ASSUME Init PROVE AllocInv
    OBVIOUS
  <1>1. Given = {} /\ next_id = 1 /\ dns_ids = 0 /\ IdsDistinct
    BY DEF Init, ClientInit, Given, IdsDistinct
  <1>. QED
    BY <1>1, FS_EmptySet DEF AllocInv

\* When the last id is taken, every connection has one.
LEMMA LastIdTaken ==
    ASSUME IsFiniteSet(Conns), Cardinality(Conns) + MaxQueries <= MaxId,
           NEW S \in SUBSET Conns, NEW k \in 0 .. MaxQueries, Cardinality(S) + k = MaxId
    PROVE  S = Conns
  <1>1. Cardinality(S) <= Cardinality(Conns) /\ Cardinality(Conns) \in Nat /\ Cardinality(S) \in Nat
    BY FS_Subset, FS_CardinalityType
  <1>2. Cardinality(S) = Cardinality(Conns)
    BY <1>1, MaxIdAssumption, TunnelAssumption
  <1>. QED
    BY <1>2, FS_Subset

LEMMA AcceptAlloc ==
    ASSUME IsFiniteSet(Conns), Cardinality(Conns) + MaxQueries <= MaxId, TypeOK, AllocInv,
           NEW l \in Loops, NEW d \in Conns, AcceptConn(l, d)
    PROVE  AllocInv'
  <1>. DEFINE n == Cardinality(Given)
  <1>1. /\ ids[d] = 0 /\ ids' = [ids EXCEPT ![d] = next_id]
        /\ next_id' = NextId(next_id) /\ dns_ids' = dns_ids
    BY DEF AcceptConn
  <1>2. /\ ids \in [Conns -> 0 .. MaxId] /\ next_id \in 1 .. MaxId /\ MaxId \in Nat \ {0}
        /\ dns_ids \in 0 .. MaxQueries /\ MaxQueries \in Nat
    BY MaxIdAssumption, TunnelAssumption DEF TypeOK, ClientTypeOK
  <1>3. d \notin Given /\ next_id = n + dns_ids + 1 /\ \A c \in Given : ids[c] < next_id
    BY <1>1 DEF Given, AllocInv
  <1>4. Given' = Given \cup {d}
    BY <1>1, <1>2 DEF Given
  <1>5. IsFiniteSet(Given) /\ n \in Nat
    BY FS_Subset, FS_CardinalityType DEF Given
  <1>6. IsFiniteSet(Given') /\ Cardinality(Given') = n + 1
    BY <1>3, <1>4, <1>5, FS_AddElement
  <1>7. IdsDistinct'
    <2>1. ASSUME NEW a \in Conns, NEW b \in Conns, ids'[a] # 0, ids'[a] = ids'[b] PROVE a = b
      <3>1. ASSUME NEW c \in Conns, c # d, ids[c] # 0 PROVE ids'[c] # next_id
        BY <1>1, <1>2, <1>3, <3>1 DEF Given
      <3>2. CASE a = d \/ b = d
        BY <1>1, <1>2, <2>1, <3>1, <3>2
      <3>3. CASE a # d /\ b # d
        BY <1>1, <1>2, <2>1, <3>3 DEF AllocInv, IdsDistinct
      <3>. QED
        BY <3>2, <3>3
    <2>. QED
      BY <2>1 DEF IdsDistinct
  <1>8. CASE next_id < MaxId
    <2>1. next_id' = next_id + 1
      BY <1>1, <1>2, <1>8 DEF NextId
    <2>2. \A c \in Given' : ids'[c] < next_id'
      BY <1>1, <1>2, <1>3, <1>4, <2>1 DEF Given
    <2>3. next_id' = Cardinality(Given') + dns_ids' + 1
      BY <1>1, <1>2, <1>3, <1>5, <1>6, <2>1
    <2>. QED
      BY <1>7, <2>2, <2>3 DEF AllocInv
  <1>9. CASE next_id = MaxId
    <2>1. Given' \in SUBSET Conns
      BY DEF Given
    <2>2. Cardinality(Given') + dns_ids = MaxId
      BY <1>2, <1>3, <1>5, <1>6, <1>9
    <2>3. Given' = Conns
      BY <1>2, <2>1, <2>2, LastIdTaken
    <2>. QED
      BY <1>7, <2>3 DEF AllocInv
  <1>. QED
    BY <1>2, <1>8, <1>9

LEMMA QueryAlloc ==
    ASSUME IsFiniteSet(Conns), Cardinality(Conns) + MaxQueries <= MaxId, TypeOK, AllocInv,
           DnsTakesId
    PROVE  AllocInv'
  <1>1. /\ ids' = ids /\ Given' = Given /\ next_id' = NextId(next_id)
        /\ dns_ids' = dns_ids + 1 /\ dns_ids < MaxQueries
    BY DEF DnsTakesId, Given
  <1>2. /\ ids \in [Conns -> 0 .. MaxId] /\ next_id \in 1 .. MaxId /\ MaxId \in Nat \ {0}
        /\ dns_ids \in 0 .. MaxQueries /\ MaxQueries \in Nat
    BY MaxIdAssumption, TunnelAssumption DEF TypeOK, ClientTypeOK
  <1>3. IdsDistinct' /\ Given \in SUBSET Conns /\ Cardinality(Given) \in Nat
    BY <1>1, FS_Subset, FS_CardinalityType DEF AllocInv, IdsDistinct, Given
  <1>4. CASE Given = Conns
    BY <1>1, <1>3, <1>4 DEF AllocInv
  <1>5. ASSUME next_id = Cardinality(Given) + dns_ids + 1, \A c \in Given : ids[c] < next_id
        PROVE  AllocInv'
    <2>1. CASE next_id < MaxId
      <3>1. next_id' = next_id + 1
        BY <1>1, <1>2, <2>1 DEF NextId
      <3>2. \A c \in Given' : ids'[c] < next_id'
        BY <1>1, <1>2, <1>5, <3>1 DEF Given
      <3>3. next_id' = Cardinality(Given') + dns_ids' + 1
        BY <1>1, <1>2, <1>3, <1>5, <3>1
      <3>. QED
        BY <1>3, <3>2, <3>3 DEF AllocInv
    <2>2. CASE next_id = MaxId
      <3>1. Cardinality(Given) + (dns_ids + 1) = MaxId /\ dns_ids + 1 \in 0 .. MaxQueries
        BY <1>1, <1>2, <1>3, <1>5, <2>2
      <3>2. Given = Conns
        BY <1>3, <3>1, LastIdTaken
      <3>. QED
        BY <1>1, <1>3, <3>2 DEF AllocInv
    <2>. QED
      BY <1>2, <2>1, <2>2
  <1>. QED
    BY <1>4, <1>5 DEF AllocInv

LEMMA AllocStep ==
    ASSUME IsFiniteSet(Conns), Cardinality(Conns) + MaxQueries <= MaxId, TypeOK, AllocInv,
           [Next]_vars
    PROVE  AllocInv'
  <1>1. CASE UNCHANGED <<ids, next_id, dns_ids>>
    BY <1>1 DEF AllocInv, Given, IdsDistinct
  <1>2. \/ UNCHANGED <<ids, next_id, dns_ids>>
        \/ \E l \in Loops, d \in Conns : AcceptConn(l, d)
        \/ DnsTakesId
    <2>1. CASE ClientOnly(ClientLocal)
      BY <2>1 DEF ClientOnly, ClientLocal, InsertChannel, SendConnect, ConnectNotSent, AReadData,
                  AReadEnd, ASendEof, BWrite, BWriteFail, BEnd, RemoveChannel, allocVars
    <2>2. CASE ClientWithPipe(ClientPipe)
      BY <2>2 DEF ClientWithPipe, ClientPipe, ClientWriter, ClientWriterFail, DemuxStep, DemuxPing,
                  DemuxData, DemuxDeliver, DemuxClose, DemuxIgnore, DemuxEof, allocVars
    <2>3. CASE ServerOnly(ServerLocal) \/ ServerWithPipe(ServerPipe) \/ LoseLink \/ UNCHANGED vars
      BY <2>3 DEF ServerOnly, ServerWithPipe, LoseLink, vars, clientVars, allocVars
    <2>. QED
      BY <2>1, <2>2, <2>3 DEF Next
  <1>. QED
    BY <1>1, <1>2, AcceptAlloc, QueryAlloc

\* No channel id is given out twice as long as connections and DNS queries, which
\* take theirs from the same allocator, are no more than there are ids: the
\* allocator wraps only when every connection has one.
THEOREM IdsStayDistinct ==
    ASSUME IsFiniteSet(Conns), Cardinality(Conns) + MaxQueries <= MaxId
    PROVE  Spec => []IdsDistinct
  <1>1. Init => AllocInv
    BY AllocInit
  <1>2. TypeOK /\ AllocInv /\ [Next]_vars => AllocInv'
    BY AllocStep
  <1>3. AllocInv => IdsDistinct
    BY DEF AllocInv
  <1>. QED
    BY <1>1, <1>2, <1>3, TypeCorrect, PTL DEF Spec

\* So a session with no more connections and DNS queries than there are ids
\* implements Streams.
COROLLARY TunnelImplementsStreams ==
    ASSUME IsFiniteSet(Conns), Cardinality(Conns) + MaxQueries <= MaxId
    PROVE  Spec => StreamsPromise
  BY IdsStayDistinct, TunnelKeepsPromise, PTL
=============================================================================
