---------------------------- MODULE TunnelProofs ----------------------------
(* Theorems about Tunnel, for every value of its constants. *)
EXTENDS Tunnel, TLAPS

(***************************************************************************)
(* What the queue operations preserve.  The provers need this apart from   *)
(* the state: inside a step of the tunnel they would have to rediscover it *)
(* for every queue.                                                        *)
(***************************************************************************)
QueueOps(S) ==
    /\ <<>> \in Seq(S) /\ Len(<<>>) = 0
    /\ \A e \in S : <<e>> \in Seq(S) /\ Len(<<e>>) = 1 /\ Head(<<e>>) = e
    /\ \A q \in Seq(S) :
         /\ Len(q) \in Nat
         /\ \A e \in S : Append(q, e) \in Seq(S) /\ Len(Append(q, e)) = Len(q) + 1
         /\ q # <<>> => Head(q) \in S /\ Tail(q) \in Seq(S) /\ Len(Tail(q)) = Len(q) - 1
         /\ \A m \in 0 .. Len(q) : SubSeq(q, 1, m) \in Seq(S) /\ Len(SubSeq(q, 1, m)) = m

LEMMA QueueLemma ==
    ASSUME NEW S
    PROVE  QueueOps(S)
  BY DEF QueueOps

\* Only a TCP frame has a connection; its payload position is a chunk.
LEMMA FrameLemma ==
    /\ \A c \in Conns, i \in 0 .. MaxId, cmd \in TcpCmds, n \in Nat :
          TcpFrame(i, cmd, c, n) \in Frame
    /\ \A cmd \in CtlCmds : CtlFrame(cmd) \in Frame
    /\ \A f \in Frame :
         /\ f.channel \in 0 .. MaxId
         /\ f.conn \in ConnOrNone
         /\ f.cmd \in {"DATA"} => f \in DataFrame
         /\ f.cmd \in {"PING"} => [f EXCEPT !.cmd = "PONG"] \in Frame
         /\ f.cmd \in TcpCmds => f.conn \in Conns
    /\ \A f \in DataFrame : f \in Frame /\ f.channel \in 0 .. MaxId /\ ChunkOf(f) \in Chunk
  BY SsnetAssumption, MaxIdAssumption
  DEF TcpFrame, CtlFrame, Frame, DataFrame, ConnOrNone, ChunkOf, Chunk, TcpCmds, CtlCmds

LEMMA DataFrameLemma ==
    ASSUME NEW c \in Conns, NEW i \in 0 .. MaxId, NEW k \in Nat
    PROVE  TcpFrame(i, "DATA", c, k + 1) \in Frame
  <1>1. k + 1 \in Nat /\ "DATA" \in TcpCmds
    BY DEF TcpCmds
  <1>. QED
    BY <1>1, FrameLemma

\* What a send leaves in the outbound queue, whether it succeeds or fails.
LEMMA SendOutLemma ==
    ASSUME NEW S, NEW f \in S, out_tx \in Seq(S), SendOut(f) \/ SendOutFails
    PROVE  /\ out_tx' \in Seq(S) /\ writer' = writer
           /\ Len(out_tx) <= OutCap => Len(out_tx') <= OutCap
  <1>1. out_tx' \in Seq(S) /\ writer' = writer
    BY QueueLemma DEF QueueOps, SendOut, SendOutFails, outVars
  <1>2. out_tx' = out_tx \/ (Len(out_tx) < OutCap /\ Len(out_tx') = Len(out_tx) + 1)
    BY QueueLemma DEF QueueOps, SendOut, SendOutFails, outVars, HasRoom
  <1>3. Len(out_tx) \in Nat /\ OutCap \in Nat
    BY QueueLemma, SsnetAssumption DEF QueueOps
  <1>. QED
    BY ONLY <1>1, <1>2, <1>3

LEMMA SrvSendLemma ==
    ASSUME NEW S, NEW f \in S, srv_out \in Seq(S), SrvSend(f) \/ SrvSendFails
    PROVE  /\ srv_out' \in Seq(S) /\ srv_writer' = srv_writer
           /\ Len(srv_out) <= OutCap => Len(srv_out') <= OutCap
  <1>1. srv_out' \in Seq(S) /\ srv_writer' = srv_writer
    BY QueueLemma DEF QueueOps, SrvSend, SrvSendFails, srvOutVars
  <1>2. srv_out' = srv_out \/ (Len(srv_out) < OutCap /\ Len(srv_out') = Len(srv_out) + 1)
    BY QueueLemma DEF QueueOps, SrvSend, SrvSendFails, srvOutVars, HasRoom
  <1>3. Len(srv_out) \in Nat /\ OutCap \in Nat
    BY QueueLemma, SsnetAssumption DEF QueueOps
  <1>. QED
    BY ONLY <1>1, <1>2, <1>3

\* Replacing one of the inbound queues.
LEMMA InboundLemma ==
    ASSUME NEW q, q \in [Conns -> Seq(Chunk)], \A d \in Conns : Len(q[d]) <= InCap,
           NEW r, NEW c, NEW v,
           r = [q EXCEPT ![c] = v], c \in Conns => v \in Seq(Chunk) /\ Len(v) <= InCap
    PROVE  r \in [Conns -> Seq(Chunk)] /\ \A d \in Conns : Len(r[d]) <= InCap
  OBVIOUS

LEMMA NextIdType ==
    ASSUME NEW i \in 1 .. MaxId
    PROVE  NextId(i) \in 1 .. MaxId
  BY SsnetAssumption, MaxIdAssumption DEF NextId
-----------------------------------------------------------------------------
(* Type correctness *)

LEMMA TypeInit == Init => TypeOK
  <1>1. QueueOps(Frame) /\ QueueOps(DataFrame) /\ QueueOps(Chunk)
    BY QueueLemma
  <1>2. CtlFrame("PING") \in Frame /\ CtlFrame("ROUTES") \in Frame
    BY FrameLemma DEF CtlCmds
  <1>3. <<CtlFrame("PING"), CtlFrame("ROUTES")>> \in Seq(Frame)
    BY <1>2
  <1>. QED
    BY <1>1, <1>3, SsnetAssumption, MaxIdAssumption, TunnelAssumption
    DEF Init, LinkInit, ClientInit, ServerInit, TypeOK, LinkTypeOK, ClientTypeOK, ServerTypeOK,
        ConnOrNone, QueueOps

LEMMA ClientLocalType ==
    ASSUME TypeOK, ClientLocal, UNCHANGED linkVars
    PROVE  ClientTypeOK'
  <1>a. QueueOps(Frame) /\ QueueOps(DataFrame) /\ QueueOps(Chunk)
    BY QueueLemma
  <1>. USE <1>a, FrameLemma, SsnetAssumption, MaxIdAssumption, TunnelAssumption
       DEF QueueOps, TypeOK, LinkTypeOK, ClientTypeOK, ConnOrNone, allocVars, outVars, demuxVars, appVars
  <1>1. ASSUME NEW l \in Loops, NEW c \in Conns, AcceptConn(l, c) PROVE ClientTypeOK'
    <2>1. next_id' \in 1 .. MaxId
      BY ONLY <1>1, TypeOK, MaxIdAssumption DEF AcceptConn, NextId, TypeOK, ClientTypeOK
    <2>2. ids' \in [Conns -> 0 .. MaxId] /\ acceptor' \in [Loops -> ConnOrNone]
      BY ONLY <1>1, TypeOK, MaxIdAssumption DEF AcceptConn, TypeOK, ClientTypeOK, ConnOrNone
    <2>. QED
      BY ONLY <1>1, <2>1, <2>2, TypeOK
      DEF AcceptConn, TypeOK, ClientTypeOK, outVars, demuxVars, appVars
  <1>2. ASSUME NEW l \in Loops, InsertChannel(l) PROVE ClientTypeOK'
    BY <1>2 DEF InsertChannel
  <1>3. ASSUME NEW c \in Conns, SendConnect(c) PROVE ClientTypeOK'
    <2>1. TcpFrame(ChannelOf(c), "CONNECT", c, 0) \in Frame
      BY <1>3 DEF TcpCmds, ChannelOf
    <2>2. out_tx' \in Seq(Frame) /\ writer' = writer /\ Len(out_tx') <= OutCap
      BY <1>3, <2>1, SendOutLemma DEF SendConnect
    <2>. QED
      BY <1>3, <2>2 DEF SendConnect
  <1>4. ASSUME NEW c \in Conns, ConnectNotSent(c) PROVE ClientTypeOK'
    <2>1. in_rx' \in [Conns -> Seq(Chunk)] /\ \A d \in Conns : Len(in_rx'[d]) <= InCap
      BY <1>4, InboundLemma DEF ConnectNotSent
    <2>. QED
      BY <1>4, <2>1 DEF ConnectNotSent, SendOutFails
  <1>5. ASSUME NEW c \in Conns, AReadData(c) PROVE ClientTypeOK'
    <2>0. ChannelOf(c) \in 0 .. MaxId /\ app_sent[c] \in Nat
      BY <1>5 DEF ChannelOf
    <2>1. TcpFrame(ChannelOf(c), "DATA", c, app_sent[c] + 1) \in Frame
      BY ONLY <2>0, DataFrameLemma
    <2>2. out_tx' \in Seq(Frame) /\ writer' = writer /\ Len(out_tx') <= OutCap
      BY <1>5, <2>1, SendOutLemma DEF AReadData
    <2>3. app_sent' \in [Conns -> 0 .. MaxUp]
      BY ONLY <1>5, TypeOK, TunnelAssumption DEF AReadData, TypeOK, ClientTypeOK
    <2>4. a_task' = a_task \/ a_task' = [a_task EXCEPT ![c] = "done"]
      BY <1>5, Zenon DEF AReadData
    <2>5. a_task' \in [Conns -> {"idle", "run", "eof", "done"}]
      BY <2>4
    <2>. QED
      BY <1>5, <2>2, <2>3, <2>5 DEF AReadData
  <1>6. ASSUME NEW c \in Conns, AReadEnd(c) PROVE ClientTypeOK'
    BY <1>6 DEF AReadEnd
  <1>7. ASSUME NEW c \in Conns, ASendEof(c) PROVE ClientTypeOK'
    <2>1. TcpFrame(ChannelOf(c), "EOF", c, 0) \in Frame
      BY <1>7 DEF TcpCmds, ChannelOf
    <2>2. out_tx' \in Seq(Frame) /\ writer' = writer /\ Len(out_tx') <= OutCap
      BY <1>7, <2>1, SendOutLemma DEF ASendEof
    <2>. QED
      BY <1>7, <2>2 DEF ASendEof
  <1>8. ASSUME NEW c \in Conns, BWrite(c) PROVE ClientTypeOK'
    <2>1. Tail(in_rx[c]) \in Seq(Chunk) /\ Len(Tail(in_rx[c])) <= InCap /\ Head(in_rx[c]) \in Chunk
      BY <1>8 DEF BWrite
    <2>2. in_rx' \in [Conns -> Seq(Chunk)] /\ \A d \in Conns : Len(in_rx'[d]) <= InCap
      BY <1>8, <2>1, InboundLemma DEF BWrite
    <2>. QED
      BY <1>8, <2>1, <2>2 DEF BWrite
  <1>9. ASSUME NEW c \in Conns, BWriteFail(c) PROVE ClientTypeOK'
    <2>1. in_rx' \in [Conns -> Seq(Chunk)] /\ \A d \in Conns : Len(in_rx'[d]) <= InCap
      BY <1>9, InboundLemma DEF BWriteFail
    <2>. QED
      BY <1>9, <2>1 DEF BWriteFail
  <1>10. ASSUME NEW c \in Conns, BEnd(c) PROVE ClientTypeOK'
    BY <1>10 DEF BEnd
  <1>11. ASSUME NEW c \in Conns, RemoveChannel(c) PROVE ClientTypeOK'
    BY <1>11 DEF RemoveChannel
  <1>12. ASSUME DnsTakesId PROVE ClientTypeOK'
    <2>1. next_id' \in 1 .. MaxId
      BY ONLY <1>12, TypeOK, MaxIdAssumption DEF DnsTakesId, NextId, TypeOK, ClientTypeOK
    <2>2. dns_ids' \in 0 .. MaxQueries
      BY ONLY <1>12, TypeOK, TunnelAssumption DEF DnsTakesId, TypeOK, ClientTypeOK
    <2>. QED
      BY ONLY <1>12, <2>1, <2>2, TypeOK
      DEF DnsTakesId, TypeOK, ClientTypeOK, outVars, demuxVars, appVars
  <1>. QED
    BY <1>1, <1>2, <1>3, <1>4, <1>5, <1>6, <1>7, <1>8, <1>9, <1>10, <1>11, <1>12 DEF ClientLocal

LEMMA ClientPipeType ==
    ASSUME TypeOK, ClientPipe
    PROVE  LinkTypeOK' /\ ClientTypeOK'
  <1>a. QueueOps(Frame) /\ QueueOps(DataFrame) /\ QueueOps(Chunk)
    BY QueueLemma
  <1>. USE <1>a, FrameLemma, SsnetAssumption, MaxIdAssumption, TunnelAssumption
       DEF QueueOps, TypeOK, LinkTypeOK, ClientTypeOK, ConnOrNone, linkVars, allocVars, outVars, demuxVars, appVars
  <1>1. ASSUME ClientWriter PROVE LinkTypeOK' /\ ClientTypeOK'
    <2>1. Head(out_tx) \in Frame /\ out_tx' \in Seq(Frame) /\ Len(out_tx') <= OutCap
      BY ONLY <1>1, <1>a, TypeOK, SsnetAssumption DEF ClientWriter, QueueOps, TypeOK, ClientTypeOK
    <2>2. c2s' \in Seq(Frame) /\ Len(c2s') <= PipeCap
      BY ONLY <1>1, <2>1, <1>a, TypeOK, SsnetAssumption
      DEF ClientWriter, HasRoom, QueueOps, TypeOK, LinkTypeOK
    <2>. QED
      BY ONLY <1>1, <2>1, <2>2, TypeOK
      DEF ClientWriter, TypeOK, LinkTypeOK, ClientTypeOK, allocVars, demuxVars, appVars
  <1>2. ASSUME ClientWriterFail PROVE LinkTypeOK' /\ ClientTypeOK'
    BY <1>2 DEF ClientWriterFail
  <1>3. ASSUME DemuxPing PROVE LinkTypeOK' /\ ClientTypeOK'
    <2>1. [Head(s2c) EXCEPT !.cmd = "PONG"] \in Frame
      BY <1>3 DEF DemuxPing, DemuxReads
    <2>2. out_tx' \in Seq(Frame) /\ writer' = writer /\ Len(out_tx') <= OutCap
      BY <1>3, <2>1, SendOutLemma DEF DemuxPing
    <2>. QED
      BY <1>3, <2>2 DEF DemuxPing, DemuxReads
  <1>4. ASSUME DemuxData PROVE LinkTypeOK' /\ ClientTypeOK'
    <2>1. Head(s2c) \in DataFrame
      BY <1>4 DEF DemuxData, DemuxReads
    <2>2. demux_held' \in Seq(DataFrame) /\ Len(demux_held') <= 1
      BY <1>4, <2>1 DEF DemuxData
    <2>3. s2c' \in Seq(Frame) /\ Len(s2c') <= PipeCap
      BY <1>4 DEF DemuxData, DemuxReads
    <2>4. LinkTypeOK'
      BY <1>4, <2>3 DEF DemuxData, DemuxReads
    <2>5. ClientTypeOK'
      BY <1>4, <2>2 DEF DemuxData, DemuxReads
    <2>. QED
      BY <2>4, <2>5
  <1>5. ASSUME DemuxDeliver PROVE LinkTypeOK' /\ ClientTypeOK'
    <2>. DEFINE f == Head(demux_held)
                c == channels[f.channel]
    <2>1. ChunkOf(f) \in Chunk
      BY <1>5 DEF DemuxDeliver
    <2>2. \/ in_rx' = [in_rx EXCEPT ![c] = Append(@, ChunkOf(f))] /\ Len(in_rx[c]) < InCap
          \/ in_rx' = in_rx
      BY <1>5 DEF DemuxDeliver, HasRoom
    <2>3. in_rx' \in [Conns -> Seq(Chunk)] /\ \A d \in Conns : Len(in_rx'[d]) <= InCap
      <3>1. in_rx \in [Conns -> Seq(Chunk)] /\ \A d \in Conns : Len(in_rx[d]) <= InCap
        OBVIOUS
      <3>2. c \in Conns => /\ Append(in_rx[c], ChunkOf(f)) \in Seq(Chunk)
                           /\ Len(Append(in_rx[c], ChunkOf(f))) = Len(in_rx[c]) + 1
        BY <3>1, <2>1
      <3>3. \A d \in Conns : Len(in_rx[d]) \in Nat
        OBVIOUS
      <3>4. InCap \in Nat
        BY SsnetAssumption
      <3>. HIDE DEF f, c
      <3>5. CASE in_rx' = [in_rx EXCEPT ![c] = Append(@, ChunkOf(f))] /\ Len(in_rx[c]) < InCap
        <4>1. c \in Conns => /\ Append(in_rx[c], ChunkOf(f)) \in Seq(Chunk)
                             /\ Len(Append(in_rx[c], ChunkOf(f))) <= InCap
          BY ONLY <3>2, <3>3, <3>4, <3>5
        <4>2. in_rx' = [in_rx EXCEPT ![c] = Append(in_rx[c], ChunkOf(f))]
          BY ONLY <3>5
        <4>. QED
          BY ONLY <3>1, <4>1, <4>2, InboundLemma
      <3>. QED
        BY ONLY <2>2, <3>1, <3>5
    <2>4. UNCHANGED <<c2s, s2c, link, next_id, ids, acceptor, dns_ids, channels, conn_pc, a_task, b_task,
                      out_tx, writer, demux, app_sent, app_got, app_eof>>
      BY ONLY <1>5 DEF DemuxDeliver, linkVars, allocVars, outVars, appVars
    <2>5. demux_held' \in Seq(DataFrame) /\ Len(demux_held') <= 1
      BY ONLY <1>5, <1>a DEF DemuxDeliver, QueueOps
    <2>. QED
      BY ONLY <2>3, <2>4, <2>5, TypeOK DEF TypeOK, LinkTypeOK, ClientTypeOK
  <1>6. ASSUME DemuxClose PROVE LinkTypeOK' /\ ClientTypeOK'
    <2>1. LinkTypeOK'
      BY <1>6 DEF DemuxClose, DemuxReads
    <2>2. channels' \in [0 .. MaxId -> Conns \cup {NoConn}]
      BY <1>6 DEF DemuxClose, DemuxReads
    <2>3. ClientTypeOK'
      BY <1>6, <2>2 DEF DemuxClose, DemuxReads
    <2>. QED
      BY <2>1, <2>3
  <1>7. ASSUME DemuxIgnore PROVE LinkTypeOK' /\ ClientTypeOK'
    BY <1>7 DEF DemuxIgnore, DemuxReads
  <1>8. ASSUME DemuxEof PROVE LinkTypeOK' /\ ClientTypeOK'
    BY <1>8 DEF DemuxEof
  <1>. QED
    BY <1>1, <1>2, <1>3, <1>4, <1>5, <1>6, <1>7, <1>8 DEF ClientPipe, DemuxStep

LEMMA ServerLocalType ==
    ASSUME TypeOK, ServerLocal, UNCHANGED linkVars
    PROVE  ServerTypeOK'
  <1>a. QueueOps(Frame) /\ QueueOps(DataFrame) /\ QueueOps(Chunk)
    BY QueueLemma
  <1>. USE <1>a, FrameLemma, SsnetAssumption, MaxIdAssumption, TunnelAssumption
       DEF QueueOps, TypeOK, LinkTypeOK, ServerTypeOK, ConnOrNone, taskVars, srvOutVars, loopVars, tgtVars
  <1>1. ASSUME NEW c \in Conns, ConnectOk(c) PROVE ServerTypeOK'
    BY <1>1 DEF ConnectOk
  <1>2. ASSUME NEW c \in Conns, ConnectFails(c) PROVE ServerTypeOK'
    BY <1>2 DEF ConnectFails
  <1>3. ASSUME NEW c \in Conns, SendStop(c) PROVE ServerTypeOK'
    <2>1. TcpFrame(task_ch[c], "STOP", c, 0) \in Frame
      BY <1>3 DEF TcpCmds
    <2>2. srv_out' \in Seq(Frame) /\ srv_writer' = srv_writer /\ Len(srv_out') <= OutCap
      BY <1>3, <2>1, SrvSendLemma DEF SendStop
    <2>. QED
      BY <1>3, <2>2 DEF SendStop
  <1>4. ASSUME NEW c \in Conns, FailRemove(c) PROVE ServerTypeOK'
    <2>1. inbound' \in [Conns -> Seq(Chunk)] /\ \A d \in Conns : Len(inbound'[d]) <= InCap
      BY <1>4, InboundLemma DEF FailRemove
    <2>. QED
      BY <1>4, <2>1 DEF FailRemove
  <1>5. ASSUME NEW c \in Conns, WWrite(c) PROVE ServerTypeOK'
    <2>1. Tail(inbound[c]) \in Seq(Chunk) /\ Len(Tail(inbound[c])) <= InCap /\ Head(inbound[c]) \in Chunk
      BY <1>5 DEF WWrite
    <2>2. inbound' \in [Conns -> Seq(Chunk)] /\ \A d \in Conns : Len(inbound'[d]) <= InCap
      BY <1>5, <2>1, InboundLemma DEF WWrite
    <2>. QED
      BY <1>5, <2>1, <2>2 DEF WWrite
  <1>6. ASSUME NEW c \in Conns, WFail(c) PROVE ServerTypeOK'
    <2>1. inbound' \in [Conns -> Seq(Chunk)] /\ \A d \in Conns : Len(inbound'[d]) <= InCap
      BY <1>6, InboundLemma DEF WFail
    <2>. QED
      BY <1>6, <2>1 DEF WFail
  <1>7. ASSUME NEW c \in Conns, WEnd(c) PROVE ServerTypeOK'
    BY <1>7 DEF WEnd
  <1>8. ASSUME NEW c \in Conns, RReadData(c) PROVE ServerTypeOK'
    <2>0. task_ch[c] \in 0 .. MaxId /\ tgt_sent[c] \in Nat
      BY <1>8
    <2>1. TcpFrame(task_ch[c], "DATA", c, tgt_sent[c] + 1) \in Frame
      BY ONLY <2>0, DataFrameLemma
    <2>2. srv_out' \in Seq(Frame) /\ srv_writer' = srv_writer /\ Len(srv_out') <= OutCap
      BY <1>8, <2>1, SrvSendLemma DEF RReadData
    <2>3. tgt_sent' \in [Conns -> 0 .. MaxDown]
      BY ONLY <1>8, TypeOK, TunnelAssumption DEF RReadData, TypeOK, ServerTypeOK
    <2>4. r_task' = r_task \/ r_task' = [r_task EXCEPT ![c] = "eof"]
      BY <1>8, Zenon DEF RReadData
    <2>5. r_task' \in [Conns -> {"idle", "run", "eof", "done"}]
      BY <2>4
    <2>. QED
      BY <1>8, <2>2, <2>3, <2>5 DEF RReadData
  <1>9. ASSUME NEW c \in Conns, RReadEnd(c) PROVE ServerTypeOK'
    BY <1>9 DEF RReadEnd
  <1>10. ASSUME NEW c \in Conns, RSendEof(c) PROVE ServerTypeOK'
    <2>1. TcpFrame(task_ch[c], "EOF", c, 0) \in Frame
      BY <1>10 DEF TcpCmds
    <2>2. srv_out' \in Seq(Frame) /\ srv_writer' = srv_writer /\ Len(srv_out') <= OutCap
      BY <1>10, <2>1, SrvSendLemma DEF RSendEof
    <2>. QED
      BY <1>10, <2>2 DEF RSendEof
  <1>11. ASSUME NEW c \in Conns, TaskRemove(c) PROVE ServerTypeOK'
    BY <1>11 DEF TaskRemove
  <1>. QED
    BY <1>1, <1>2, <1>3, <1>4, <1>5, <1>6, <1>7, <1>8, <1>9, <1>10, <1>11 DEF ServerLocal

\* The frame the server's loop takes off the pipe.
LEMMA LoopReadsLemma ==
    ASSUME NEW cmds, TypeOK, LoopReads(cmds)
    PROVE  /\ LinkTypeOK'
           /\ srv_loop' = srv_loop
           /\ Head(c2s) \in Frame
           /\ Head(c2s).cmd \in cmds
  <1>1. QueueOps(Frame)
    BY QueueLemma
  <1>2. /\ c2s \in Seq(Frame) /\ Len(c2s) <= PipeCap
        /\ c2s # <<>> /\ c2s' = Tail(c2s)
    BY DEF TypeOK, LinkTypeOK, LoopReads
  <1>3. Head(c2s) \in Frame /\ c2s' \in Seq(Frame) /\ Len(c2s) \in Nat /\ Len(c2s') = Len(c2s) - 1
    BY ONLY <1>1, <1>2 DEF QueueOps
  <1>4. Len(c2s') <= PipeCap
    BY ONLY <1>2, <1>3, SsnetAssumption
  <1>5. LinkTypeOK'
    BY <1>3, <1>4 DEF TypeOK, LinkTypeOK, LoopReads
  <1>. QED
    BY <1>3, <1>5 DEF LoopReads

LEMMA ServerPipeType ==
    ASSUME TypeOK, ServerPipe
    PROVE  LinkTypeOK' /\ ServerTypeOK'
  <1>a. QueueOps(Frame) /\ QueueOps(DataFrame) /\ QueueOps(Chunk)
    BY QueueLemma
  <1>. USE <1>a, FrameLemma, SsnetAssumption, MaxIdAssumption, TunnelAssumption
       DEF QueueOps, TypeOK, LinkTypeOK, ServerTypeOK, ConnOrNone, linkVars, taskVars, srvOutVars, loopVars, tgtVars
  <1>1. ASSUME SConnect PROVE LinkTypeOK' /\ ServerTypeOK'
    <2>1. LoopReads({"CONNECT"})
      BY <1>1 DEF SConnect
    <2>2. LinkTypeOK' /\ srv_loop' = srv_loop
      BY ONLY <2>1, TypeOK, LoopReadsLemma
    <2>3. Head(c2s) \in Frame /\ Head(c2s).cmd \in {"CONNECT"}
      BY ONLY <2>1, TypeOK, LoopReadsLemma
    <2>4. Head(c2s).channel \in 0 .. MaxId /\ Head(c2s).conn \in Conns
      BY ONLY <2>3, FrameLemma DEF TcpCmds
    <2>5. tcp_chans' \in [0 .. MaxId -> ConnOrNone]
      BY ONLY <2>4, <1>1, TypeOK DEF SConnect, TypeOK, ServerTypeOK, ConnOrNone
    <2>6. /\ task_pc' \in [Conns -> {"none", "connecting", "failed", "removing", "relay", "done"}]
          /\ task_ch' \in [Conns -> 0 .. MaxId]
      BY ONLY <2>4, <1>1, TypeOK DEF SConnect, TypeOK, ServerTypeOK
    <2>7. UNCHANGED <<loop_held, w_task, r_task, inbound, srv_out, srv_writer,
                      tgt_sent, tgt_got, tgt_eof>>
      BY ONLY <1>1 DEF SConnect, srvOutVars, tgtVars
    <2>. QED
      BY ONLY <2>2, <2>5, <2>6, <2>7, TypeOK DEF TypeOK, ServerTypeOK
  <1>2. ASSUME SData PROVE LinkTypeOK' /\ ServerTypeOK'
    <2>1. LoopReads({"DATA"})
      BY <1>2 DEF SData
    <2>2. LinkTypeOK' /\ srv_loop' = srv_loop
      BY ONLY <2>1, TypeOK, LoopReadsLemma
    <2>3. Head(c2s) \in Frame /\ Head(c2s).cmd \in {"DATA"}
      BY ONLY <2>1, TypeOK, LoopReadsLemma
    <2>4. Head(c2s) \in DataFrame
      BY ONLY <2>3, FrameLemma
    <2>5. loop_held' \in Seq(DataFrame) /\ Len(loop_held') <= 1
      BY <1>2, <2>4 DEF SData
    <2>6. UNCHANGED <<tcp_chans, task_pc, task_ch, w_task, r_task, inbound, srv_out, srv_writer,
                      tgt_sent, tgt_got, tgt_eof>>
      BY ONLY <1>2 DEF SData, taskVars, srvOutVars, tgtVars
    <2>. QED
      BY ONLY <2>2, <2>5, <2>6, TypeOK DEF TypeOK, ServerTypeOK
  <1>3. ASSUME SDeliver PROVE LinkTypeOK' /\ ServerTypeOK'
    <2>. DEFINE f == Head(loop_held)
                c == tcp_chans[f.channel]
    <2>1. ChunkOf(f) \in Chunk
      BY <1>3 DEF SDeliver
    <2>2. \/ inbound' = [inbound EXCEPT ![c] = Append(@, ChunkOf(f))] /\ Len(inbound[c]) < InCap
          \/ inbound' = inbound
      BY <1>3 DEF SDeliver, HasRoom
    <2>3. inbound' \in [Conns -> Seq(Chunk)] /\ \A d \in Conns : Len(inbound'[d]) <= InCap
      <3>1. inbound \in [Conns -> Seq(Chunk)] /\ \A d \in Conns : Len(inbound[d]) <= InCap
        OBVIOUS
      <3>2. c \in Conns => /\ Append(inbound[c], ChunkOf(f)) \in Seq(Chunk)
                           /\ Len(Append(inbound[c], ChunkOf(f))) = Len(inbound[c]) + 1
        BY <3>1, <2>1
      <3>3. \A d \in Conns : Len(inbound[d]) \in Nat
        OBVIOUS
      <3>4. InCap \in Nat
        BY SsnetAssumption
      <3>. HIDE DEF f, c
      <3>5. CASE inbound' = [inbound EXCEPT ![c] = Append(@, ChunkOf(f))] /\ Len(inbound[c]) < InCap
        <4>1. c \in Conns => /\ Append(inbound[c], ChunkOf(f)) \in Seq(Chunk)
                             /\ Len(Append(inbound[c], ChunkOf(f))) <= InCap
          BY ONLY <3>2, <3>3, <3>4, <3>5
        <4>2. inbound' = [inbound EXCEPT ![c] = Append(inbound[c], ChunkOf(f))]
          BY ONLY <3>5
        <4>. QED
          BY ONLY <3>1, <4>1, <4>2, InboundLemma
      <3>. QED
        BY ONLY <2>2, <3>1, <3>5
    <2>4. UNCHANGED <<tcp_chans, task_pc, task_ch, w_task, r_task, srv_out, srv_writer, srv_loop,
                      tgt_sent, tgt_got, tgt_eof, c2s, s2c, link>>
      BY ONLY <1>3 DEF SDeliver, linkVars, taskVars, srvOutVars, tgtVars
    <2>5. loop_held' \in Seq(DataFrame) /\ Len(loop_held') <= 1
      BY ONLY <1>3, <1>a DEF SDeliver, QueueOps
    <2>. QED
      BY ONLY <2>3, <2>4, <2>5, TypeOK DEF TypeOK, LinkTypeOK, ServerTypeOK
  <1>4. ASSUME SClose PROVE LinkTypeOK' /\ ServerTypeOK'
    <2>1. LoopReads({"EOF", "STOP"})
      BY <1>4 DEF SClose
    <2>2. LinkTypeOK' /\ srv_loop' = srv_loop
      BY ONLY <2>1, TypeOK, LoopReadsLemma
    <2>3. tcp_chans' \in [0 .. MaxId -> ConnOrNone]
      BY ONLY <1>4, TypeOK DEF SClose, TypeOK, ServerTypeOK, ConnOrNone
    <2>4. UNCHANGED <<loop_held, task_pc, task_ch, w_task, r_task, inbound, srv_out, srv_writer,
                      tgt_sent, tgt_got, tgt_eof>>
      BY ONLY <1>4 DEF SClose, taskVars, srvOutVars, tgtVars
    <2>. QED
      BY ONLY <2>2, <2>3, <2>4, TypeOK DEF TypeOK, ServerTypeOK
  <1>5. ASSUME SPong PROVE LinkTypeOK' /\ ServerTypeOK'
    BY <1>5 DEF SPong, LoopReads
  <1>6. ASSUME SStdinEof PROVE LinkTypeOK' /\ ServerTypeOK'
    BY <1>6 DEF SStdinEof
  <1>7. ASSUME SExit PROVE LinkTypeOK' /\ ServerTypeOK'
    BY <1>7 DEF SExit
  <1>8. ASSUME ServerWriter PROVE LinkTypeOK' /\ ServerTypeOK'
    <2>1. Head(srv_out) \in Frame /\ srv_out' \in Seq(Frame) /\ Len(srv_out') <= OutCap
      BY ONLY <1>8, <1>a, TypeOK, SsnetAssumption DEF ServerWriter, QueueOps, TypeOK, ServerTypeOK
    <2>2. s2c' \in Seq(Frame) /\ Len(s2c') <= PipeCap
      BY ONLY <1>8, <2>1, <1>a, TypeOK, SsnetAssumption
      DEF ServerWriter, HasRoom, QueueOps, TypeOK, LinkTypeOK
    <2>. QED
      BY ONLY <1>8, <2>1, <2>2, TypeOK
      DEF ServerWriter, TypeOK, LinkTypeOK, ServerTypeOK, taskVars, loopVars, tgtVars
  <1>9. ASSUME ServerWriterFail PROVE LinkTypeOK' /\ ServerTypeOK'
    BY <1>9 DEF ServerWriterFail
  <1>. QED
    BY <1>1, <1>2, <1>3, <1>4, <1>5, <1>6, <1>7, <1>8, <1>9 DEF ServerPipe, LoopStep

LEMMA LinkDownType ==
    ASSUME TypeOK, LinkDown
    PROVE  LinkTypeOK'
  <1>. QueueOps(Frame)
    BY QueueLemma
  <1>. QED
    BY SsnetAssumption, MaxIdAssumption DEF TypeOK, LinkTypeOK, LinkDown, QueueOps

\* Every step of the tunnel keeps every variable of the link, of the client and
\* of the server in its type.
LEMMA TypeStep ==
    ASSUME TypeOK, [Next]_vars
    PROVE  TypeOK'
  <1>1. CASE ClientOnly(ClientLocal)
    BY <1>1, ClientLocalType
    DEF ClientOnly, TypeOK, LinkTypeOK, ServerTypeOK, linkVars, serverVars, taskVars, srvOutVars,
        loopVars, tgtVars
  <1>2. CASE ClientWithPipe(ClientPipe)
    BY <1>2, ClientPipeType
    DEF ClientWithPipe, TypeOK, ServerTypeOK, serverVars, taskVars, srvOutVars, loopVars, tgtVars
  <1>3. CASE ServerOnly(ServerLocal)
    BY <1>3, ServerLocalType
    DEF ServerOnly, TypeOK, LinkTypeOK, ClientTypeOK, linkVars, clientVars, allocVars, outVars,
        demuxVars, appVars
  <1>4. CASE ServerWithPipe(ServerPipe)
    BY <1>4, ServerPipeType
    DEF ServerWithPipe, TypeOK, ClientTypeOK, clientVars, allocVars, outVars, demuxVars, appVars
  <1>5. CASE LoseLink
    BY <1>5, LinkDownType
    DEF LoseLink, TypeOK, ClientTypeOK, ServerTypeOK, clientVars, allocVars, outVars, demuxVars,
        appVars, serverVars, taskVars, srvOutVars, loopVars, tgtVars
  <1>6. CASE UNCHANGED vars
    BY <1>6
    DEF vars, TypeOK, LinkTypeOK, ClientTypeOK, ServerTypeOK, linkVars, clientVars, allocVars,
        outVars, demuxVars, appVars, serverVars, taskVars, srvOutVars, loopVars, tgtVars
  <1>. QED
    BY <1>1, <1>2, <1>3, <1>4, <1>5, <1>6 DEF Next

\* The tunnel is type correct: queues hold frames or chunks, channel maps hold
\* connections, no queue and no pipe exceeds its capacity, the allocator stays in
\* 1 .. MaxId, and each lock protects one frame in delivery at most.
THEOREM TypeCorrect == Spec => []TypeOK
  <1>1. Init => TypeOK
    BY TypeInit
  <1>2. TypeOK /\ [Next]_vars => TypeOK'
    BY TypeStep
  <1>. QED
    BY <1>1, <1>2, PTL DEF Spec
=============================================================================
