--------------------------- MODULE RoutingProofs ---------------------------
(***************************************************************************)
(* Routing on channel ids is right: the invariant RoutingInv of Tunnel is  *)
(* inductive, and it implies NoCrosstalk.                                  *)
(***************************************************************************)
EXTENDS TunnelProofs

(* What a step keeps when it leaves the variables of a conjunct alone *)

LEMMA RightFrameSame ==
    ASSUME UNCHANGED ids
    PROVE  RightFrame' = RightFrame
  BY DEF RightFrame

LEMMA FramesKept ==
    ASSUME RightFrames, UNCHANGED <<ids, out_tx, c2s, loop_held, srv_out, s2c, demux_held>>
    PROVE  RightFrames'
  BY RightFrameSame DEF RightFrames

LEMMA MapsKept ==
    ASSUME RightMaps, UNCHANGED <<ids, channels, tcp_chans>>
    PROVE  RightMaps'
  BY DEF RightMaps

LEMMA TasksKept ==
    ASSUME RightTasks,
           UNCHANGED <<ids, acceptor, conn_pc, a_task, b_task, task_pc, task_ch, r_task, w_task>>
    PROVE  RightTasks'
  BY DEF RightTasks

LEMMA QueuesKept ==
    ASSUME RightQueues, UNCHANGED <<ids, in_rx, app_got, inbound, tgt_got>>
    PROVE  RightQueues'
  BY DEF RightQueues, IdsDistinct

\* The frames that are built from an allocated id are right.
LEMMA RightFrameLemma ==
    ASSUME TypeOK
    PROVE  /\ \A c \in Conns, cmd \in TcpCmds, n \in Nat :
                 ids[c] # 0 => TcpFrame(ids[c], cmd, c, n) \in RightFrame
           /\ \A f \in RightFrame :
                 /\ f \in Frame
                 /\ f.cmd \in {"PING"} => [f EXCEPT !.cmd = "PONG"] \in RightFrame
                 /\ f.cmd \in TcpCmds => /\ f.conn \in Conns
                                        /\ ids[f.conn] # 0
                                        /\ f.channel = ids[f.conn]
  <1>1. ASSUME NEW c \in Conns, NEW cmd \in TcpCmds, NEW n \in Nat, ids[c] # 0
        PROVE  TcpFrame(ids[c], cmd, c, n) \in RightFrame
    <2>1. TcpFrame(ids[c], cmd, c, n) \in Frame
      BY FrameLemma DEF TypeOK, ClientTypeOK
    <2>. QED
      BY <1>1, <2>1 DEF RightFrame, TcpFrame
  <1>2. ASSUME NEW f \in RightFrame, f.cmd \in {"PING"}
        PROVE  [f EXCEPT !.cmd = "PONG"] \in RightFrame
    <2>1. f \in Frame /\ [f EXCEPT !.cmd = "PONG"] \in Frame
      BY <1>2, FrameLemma DEF RightFrame
    <2>2. f.conn = NoConn
      BY <1>2, <2>1 DEF Frame, TcpCmds
    <2>3. [f EXCEPT !.cmd = "PONG"].conn = NoConn
      BY <2>1, <2>2 DEF Frame
    <2>. QED
      BY <2>1, <2>3 DEF RightFrame
  <1>3. ASSUME NEW f \in RightFrame, f.cmd \in TcpCmds
        PROVE  f.conn \in Conns /\ ids[f.conn] # 0 /\ f.channel = ids[f.conn]
    <2>1. f \in Frame
      BY DEF RightFrame
    <2>2. f.conn \in Conns
      BY <1>3, <2>1, FrameLemma
    <2>. QED
      BY <2>2, SsnetAssumption, MaxIdAssumption DEF RightFrame
  <1>. QED
    BY <1>1, <1>2, <1>3 DEF RightFrame
-----------------------------------------------------------------------------
(* Initially *)

LEMMA RoutingInit == Init => RoutingInv
  <1>. SUFFICES ASSUME Init PROVE RoutingInv
    OBVIOUS
  <1>1. TypeOK
    BY TypeInit
  <1>2. QueueOps(RightFrame)
    BY QueueLemma
  <1>3. RightFrames
    <2>1. \A cmd \in CtlCmds : CtlFrame(cmd) \in RightFrame
      BY FrameLemma DEF RightFrame, CtlFrame
    <2>2. CtlFrame("PING") \in RightFrame /\ CtlFrame("ROUTES") \in RightFrame
      BY <2>1 DEF CtlCmds
    <2>3. <<CtlFrame("PING"), CtlFrame("ROUTES")>> \in Seq(RightFrame)
      BY <2>2
    <2>. QED
      BY <1>2, <2>3 DEF Init, LinkInit, ClientInit, ServerInit, RightFrames, QueueOps
  <1>4. RightMaps
    BY DEF Init, ClientInit, ServerInit, RightMaps
  <1>5. RightTasks
    BY DEF Init, ClientInit, ServerInit, RightTasks
  <1>6. RightQueues
    <2>1. \A c \in Conns : QueueOps(ChunkFor(c))
      BY QueueLemma
    <2>. QED
      BY <2>1 DEF Init, ClientInit, ServerInit, RightQueues, QueueOps
  <1>. QED
    BY <1>1, <1>3, <1>4, <1>5, <1>6 DEF RoutingInv
-----------------------------------------------------------------------------
(* Steps *)

\* What is left to show of a step, once TypeOK' is known.
RightNext == RightFrames' /\ RightMaps' /\ RightTasks' /\ RightQueues'

\* Steps of the accept loops and handle_conn.
\* Giving a connection its id makes no frame wrong: no frame, channel or task
\* is there for a connection that has no id yet.
LEMMA AcceptRouting ==
    ASSUME RoutingInv, UNCHANGED <<linkVars, serverVars>>,
           NEW l \in Loops, NEW c \in Conns, AcceptConn(l, c)
    PROVE  RightNext
  <1>. USE DEF RoutingInv, RightNext, AcceptConn, linkVars, serverVars, taskVars, srvOutVars,
       loopVars, tgtVars, outVars, demuxVars, appVars
  <1>1. /\ ids[c] = 0
        /\ ids'[c] # 0
        /\ \A d \in Conns : d # c => ids'[d] = ids[d]
        /\ \A d \in Conns : ids[d] # 0 => ids'[d] = ids[d]
    BY DEF TypeOK, ClientTypeOK
  <1>2. RightFrame \subseteq RightFrame'
    <2>1. \A f \in Frame : f.conn \in ConnOrNone
      BY FrameLemma
    <2>. QED
      BY <1>1, <2>1 DEF RightFrame, ConnOrNone
  <1>3. RightFrames'
    BY <1>2 DEF RightFrames
  <1>4. RightMaps'
    BY <1>1 DEF RightMaps, TypeOK, ClientTypeOK, ServerTypeOK, ConnOrNone
  <1>5. RightTasks'
    <2>1. \A k \in Loops : acceptor'[k] # NoConn => ids'[acceptor'[k]] # 0
      BY <1>1 DEF RightTasks, TypeOK, ClientTypeOK, ConnOrNone
    <2>. QED
      BY ONLY <1>1, <2>1, RoutingInv, AcceptConn(l, c), UNCHANGED <<linkVars, serverVars>>
      DEF RightTasks, RoutingInv, AcceptConn, serverVars, taskVars
  <1>6. RightQueues'
    <2>1. IdsDistinct' => IdsDistinct
      BY <1>1 DEF IdsDistinct
    <2>. QED
      BY <2>1 DEF RightQueues
  <1>. QED
    BY <1>3, <1>4, <1>5, <1>6

LEMMA ClientLocalRouting ==
    ASSUME RoutingInv, ClientLocal, UNCHANGED <<linkVars, serverVars>>
    PROVE  RightNext
  <1>a. QueueOps(RightFrame)
    BY QueueLemma
  <1>b. \A c \in Conns : QueueOps(ChunkFor(c))
    BY QueueLemma
  <1>. USE DEF RoutingInv, RightNext,
       serverVars, taskVars, srvOutVars, loopVars, tgtVars, linkVars,
       allocVars, outVars, demuxVars, appVars
  <1>1. ASSUME NEW l \in Loops, NEW c \in Conns, AcceptConn(l, c) PROVE RightNext
    BY <1>1, AcceptRouting
  <1>2. ASSUME NEW l \in Loops, InsertChannel(l) PROVE RightNext
    <2>1. RightFrames'
      BY <1>2, FramesKept DEF InsertChannel
    <2>2. RightMaps'
      BY <1>2, SsnetAssumption, MaxIdAssumption DEF InsertChannel, RightTasks, RightMaps, TypeOK, ClientTypeOK, ConnOrNone
    <2>3. RightTasks'
      BY <1>2, SsnetAssumption, MaxIdAssumption DEF InsertChannel, RightTasks, TypeOK, ClientTypeOK, ConnOrNone
    <2>4. RightQueues'
      BY <1>2, QueuesKept DEF InsertChannel
    <2>. QED
      BY <2>1, <2>2, <2>3, <2>4
  <1>3. ASSUME NEW c \in Conns, SendConnect(c) PROVE RightNext
    <2>1. RightFrames'
      <3>1. TcpFrame(ChannelOf(c), "CONNECT", c, 0) \in RightFrame
        BY <1>3, RightFrameLemma DEF SendConnect, RightTasks, TcpCmds, TypeOK, ClientTypeOK, ChannelOf
      <3>2. out_tx' \in Seq(RightFrame)
        BY <1>3, <3>1, SendOutLemma DEF SendConnect, RightFrames
      <3>. QED
        BY <1>3, <3>2, RightFrameSame DEF SendConnect, RightFrames
    <2>2. RightMaps'
      BY <1>3, MapsKept DEF SendConnect, SendOut
    <2>3. RightTasks'
      BY <1>3, SsnetAssumption, MaxIdAssumption DEF SendConnect, SendOut, RightTasks, TypeOK, ClientTypeOK, ConnOrNone
    <2>4. RightQueues'
      BY <1>3, QueuesKept DEF SendConnect, SendOut
    <2>. QED
      BY <2>1, <2>2, <2>3, <2>4
  <1>4. ASSUME NEW c \in Conns, ConnectNotSent(c) PROVE RightNext
    <2>1. RightFrames'
      BY <1>4, FramesKept DEF ConnectNotSent, SendOutFails
    <2>2. RightMaps'
      BY <1>4, MapsKept DEF ConnectNotSent, SendOutFails
    <2>3. RightTasks'
      BY <1>4, SsnetAssumption, MaxIdAssumption DEF ConnectNotSent, SendOutFails, RightTasks, TypeOK, ClientTypeOK, ConnOrNone
    <2>4. RightQueues'
      BY <1>4, <1>b DEF ConnectNotSent, SendOutFails, RightQueues, IdsDistinct, QueueOps, TypeOK, ClientTypeOK,
         serverVars, taskVars, srvOutVars, loopVars, tgtVars, linkVars, allocVars, outVars, demuxVars, appVars, linkVars
    <2>. QED
      BY <2>1, <2>2, <2>3, <2>4
  <1>5. ASSUME NEW c \in Conns, AReadData(c) PROVE RightNext
    <2>1. RightFrames'
      <3>1. app_sent[c] + 1 \in Nat /\ ids[c] # 0 /\ ChannelOf(c) = ids[c]
        BY <1>5, TunnelAssumption DEF AReadData, RightTasks, TypeOK, ClientTypeOK, ChannelOf
      <3>2. TcpFrame(ChannelOf(c), "DATA", c, app_sent[c] + 1) \in RightFrame
        BY <3>1, RightFrameLemma DEF TcpCmds
      <3>3. out_tx' \in Seq(RightFrame)
        BY <1>5, <3>2, SendOutLemma DEF AReadData, RightFrames
      <3>. QED
        BY <1>5, <3>3, RightFrameSame DEF AReadData, RightFrames
    <2>2. RightMaps'
      BY <1>5, MapsKept DEF AReadData, SendOut, SendOutFails
    <2>3. RightTasks'
      BY <1>5, SsnetAssumption, MaxIdAssumption DEF AReadData, SendOut, SendOutFails, RightTasks, TypeOK, ClientTypeOK, ConnOrNone
    <2>4. RightQueues'
      BY <1>5, QueuesKept DEF AReadData, SendOut, SendOutFails
    <2>. QED
      BY <2>1, <2>2, <2>3, <2>4
  <1>6. ASSUME NEW c \in Conns, AReadEnd(c) PROVE RightNext
    <2>1. RightFrames'
      BY <1>6, FramesKept DEF AReadEnd
    <2>2. RightMaps'
      BY <1>6, MapsKept DEF AReadEnd
    <2>3. RightTasks'
      BY <1>6, SsnetAssumption, MaxIdAssumption DEF AReadEnd, RightTasks, TypeOK, ClientTypeOK, ConnOrNone
    <2>4. RightQueues'
      BY <1>6, QueuesKept DEF AReadEnd
    <2>. QED
      BY <2>1, <2>2, <2>3, <2>4
  <1>7. ASSUME NEW c \in Conns, ASendEof(c) PROVE RightNext
    <2>1. RightFrames'
      <3>1. TcpFrame(ChannelOf(c), "EOF", c, 0) \in RightFrame
        BY <1>7, RightFrameLemma DEF ASendEof, RightTasks, TcpCmds, TypeOK, ClientTypeOK, ChannelOf
      <3>2. out_tx' \in Seq(RightFrame)
        BY <1>7, <3>1, SendOutLemma DEF ASendEof, RightFrames
      <3>. QED
        BY <1>7, <3>2, RightFrameSame DEF ASendEof, RightFrames
    <2>2. RightMaps'
      BY <1>7, MapsKept DEF ASendEof, SendOut, SendOutFails
    <2>3. RightTasks'
      BY <1>7, SsnetAssumption, MaxIdAssumption DEF ASendEof, SendOut, SendOutFails, RightTasks, TypeOK, ClientTypeOK, ConnOrNone
    <2>4. RightQueues'
      BY <1>7, QueuesKept DEF ASendEof, SendOut, SendOutFails
    <2>. QED
      BY <2>1, <2>2, <2>3, <2>4
  <1>8. ASSUME NEW c \in Conns, BWrite(c) PROVE RightNext
    <2>1. RightFrames'
      BY <1>8, FramesKept DEF BWrite
    <2>2. RightMaps'
      BY <1>8, MapsKept DEF BWrite
    <2>3. RightTasks'
      BY <1>8, TasksKept DEF BWrite
    <2>4. RightQueues'
      BY <1>8, <1>b DEF BWrite, RightQueues, IdsDistinct, QueueOps, TypeOK, ClientTypeOK,
         serverVars, taskVars, srvOutVars, loopVars, tgtVars, linkVars, allocVars, outVars, demuxVars, appVars, linkVars
    <2>. QED
      BY <2>1, <2>2, <2>3, <2>4
  <1>9. ASSUME NEW c \in Conns, BWriteFail(c) PROVE RightNext
    <2>1. RightFrames'
      BY <1>9, FramesKept DEF BWriteFail
    <2>2. RightMaps'
      BY <1>9, MapsKept DEF BWriteFail
    <2>3. RightTasks'
      BY <1>9, SsnetAssumption, MaxIdAssumption DEF BWriteFail, RightTasks, TypeOK, ClientTypeOK, ConnOrNone
    <2>4. RightQueues'
      BY <1>9, <1>b DEF BWriteFail, RightQueues, IdsDistinct, QueueOps, TypeOK, ClientTypeOK,
         serverVars, taskVars, srvOutVars, loopVars, tgtVars, linkVars, allocVars, outVars, demuxVars, appVars, linkVars
    <2>. QED
      BY <2>1, <2>2, <2>3, <2>4
  <1>10. ASSUME NEW c \in Conns, BEnd(c) PROVE RightNext
    <2>1. RightFrames'
      BY <1>10, FramesKept DEF BEnd
    <2>2. RightMaps'
      BY <1>10, MapsKept DEF BEnd
    <2>3. RightTasks'
      BY <1>10, SsnetAssumption, MaxIdAssumption DEF BEnd, RightTasks, TypeOK, ClientTypeOK, ConnOrNone
    <2>4. RightQueues'
      BY <1>10, QueuesKept DEF BEnd
    <2>. QED
      BY <2>1, <2>2, <2>3, <2>4
  <1>11. ASSUME NEW c \in Conns, RemoveChannel(c) PROVE RightNext
    <2>1. RightFrames'
      BY <1>11, FramesKept DEF RemoveChannel
    <2>2. RightMaps'
      BY <1>11, SsnetAssumption, MaxIdAssumption DEF RemoveChannel, RightTasks, RightMaps, TypeOK, ClientTypeOK, ConnOrNone
    <2>3. RightTasks'
      BY <1>11, SsnetAssumption, MaxIdAssumption DEF RemoveChannel, RightTasks, TypeOK, ClientTypeOK, ConnOrNone
    <2>4. RightQueues'
      BY <1>11, QueuesKept DEF RemoveChannel
    <2>. QED
      BY <2>1, <2>2, <2>3, <2>4
  <1>12. ASSUME DnsTakesId PROVE RightNext
    <2>1. RightFrames'
      BY <1>12, FramesKept DEF DnsTakesId
    <2>2. RightMaps'
      BY <1>12, MapsKept DEF DnsTakesId
    <2>3. RightTasks'
      BY <1>12, TasksKept DEF DnsTakesId
    <2>4. RightQueues'
      BY <1>12, QueuesKept DEF DnsTakesId
    <2>. QED
      BY <2>1, <2>2, <2>3, <2>4
  <1>. QED
    BY <1>1, <1>2, <1>3, <1>4, <1>5, <1>6, <1>7, <1>8, <1>9, <1>10, <1>11, <1>12 DEF ClientLocal

\* Steps of the writer and demux tasks of the client.
LEMMA ClientPipeRouting ==
    ASSUME RoutingInv, ClientPipe, UNCHANGED serverVars
    PROVE  RightNext
  <1>a. QueueOps(RightFrame)
    BY QueueLemma
  <1>b. \A c \in Conns : QueueOps(ChunkFor(c))
    BY QueueLemma
  <1>. USE DEF RoutingInv, RightNext,
       serverVars, taskVars, srvOutVars, loopVars, tgtVars, linkVars,
       allocVars, outVars, demuxVars, appVars
  <1>1. ASSUME ClientWriter PROVE RightNext
    <2>1. RightFrames'
      BY <1>1, <1>a, RightFrameSame DEF ClientWriter, RightFrames, QueueOps
    <2>2. RightMaps'
      BY <1>1, MapsKept DEF ClientWriter
    <2>3. RightTasks'
      BY <1>1, TasksKept DEF ClientWriter
    <2>4. RightQueues'
      BY <1>1, QueuesKept DEF ClientWriter
    <2>. QED
      BY <2>1, <2>2, <2>3, <2>4
  <1>2. ASSUME ClientWriterFail PROVE RightNext
    <2>1. RightFrames'
      BY <1>2, <1>a, RightFrameSame DEF ClientWriterFail, RightFrames, QueueOps
    <2>2. RightMaps'
      BY <1>2, MapsKept DEF ClientWriterFail
    <2>3. RightTasks'
      BY <1>2, TasksKept DEF ClientWriterFail
    <2>4. RightQueues'
      BY <1>2, QueuesKept DEF ClientWriterFail
    <2>. QED
      BY <2>1, <2>2, <2>3, <2>4
  <1>3. ASSUME DemuxPing PROVE RightNext
    <2>1. RightFrames'
      <3>1. [Head(s2c) EXCEPT !.cmd = "PONG"] \in RightFrame
        BY <1>3, <1>a, RightFrameLemma DEF DemuxPing, DemuxReads, RightFrames, QueueOps
      <3>2. out_tx' \in Seq(RightFrame)
        BY <1>3, <3>1, SendOutLemma DEF DemuxPing, RightFrames
      <3>. QED
        BY <1>3, <1>a, <3>2, RightFrameSame DEF DemuxPing, DemuxReads, RightFrames, QueueOps
    <2>2. RightMaps'
      BY <1>3, MapsKept DEF DemuxPing, DemuxReads, SendOut, SendOutFails
    <2>3. RightTasks'
      BY <1>3, TasksKept DEF DemuxPing, DemuxReads, SendOut, SendOutFails
    <2>4. RightQueues'
      BY <1>3, QueuesKept DEF DemuxPing, DemuxReads, SendOut, SendOutFails
    <2>. QED
      BY <2>1, <2>2, <2>3, <2>4
  <1>4. ASSUME DemuxData PROVE RightNext
    <2>1. RightFrames'
      BY <1>4, <1>a, RightFrameSame DEF DemuxData, DemuxReads, RightFrames, QueueOps
    <2>2. RightMaps'
      BY <1>4, MapsKept DEF DemuxData, DemuxReads
    <2>3. RightTasks'
      BY <1>4, TasksKept DEF DemuxData, DemuxReads
    <2>4. RightQueues'
      BY <1>4, QueuesKept DEF DemuxData, DemuxReads
    <2>. QED
      BY <2>1, <2>2, <2>3, <2>4
  <1>5. ASSUME DemuxDeliver PROVE RightNext
    <2>1. RightFrames'
      BY <1>5, <1>a, RightFrameSame DEF DemuxDeliver, RightFrames, QueueOps
    <2>2. RightMaps'
      BY <1>5, MapsKept DEF DemuxDeliver
    <2>3. RightTasks'
      BY <1>5, TasksKept DEF DemuxDeliver
    <2>4. RightQueues'
      <3>. SUFFICES ASSUME IdsDistinct' PROVE RightQueues'
        BY DEF RightQueues
      <3>. DEFINE f == Head(demux_held)
                  d == channels[f.channel]
      <3>1. IdsDistinct
        BY <1>5 DEF DemuxDeliver, IdsDistinct, allocVars, clientVars
      <3>2. /\ f \in DataFrame
            /\ f.conn \in Conns
            /\ ids[f.conn] # 0
            /\ f.channel = ids[f.conn]
            /\ f.channel \in 0 .. MaxId
            /\ d \in ConnOrNone
        <4>1. f \in RightFrame
          BY <1>5, <1>a DEF DemuxDeliver, RightFrames, QueueOps
        <4>2. f \in DataFrame
          <5>1. QueueOps(DataFrame)
            BY QueueLemma
          <5>. QED
            BY <1>5, <5>1 DEF DemuxDeliver, QueueOps, TypeOK, ClientTypeOK
        <4>3. f.cmd \in TcpCmds /\ f.channel \in 0 .. MaxId
          BY <4>2 DEF DataFrame, TcpCmds
        <4>. QED
          BY <4>1, <4>2, <4>3, RightFrameLemma DEF TypeOK, ClientTypeOK
      <3>3. d \in Conns => d = f.conn
        BY <3>1, <3>2, SsnetAssumption, MaxIdAssumption DEF RightMaps, IdsDistinct
      <3>4. d \in Conns => ChunkOf(f) \in ChunkFor(d)
        BY <3>2, <3>3 DEF ChunkOf, ChunkFor, DataFrame
      <3>5. \/ in_rx' = [in_rx EXCEPT ![d] = Append(@, ChunkOf(f))]
            \/ in_rx' = in_rx
        BY <1>5 DEF DemuxDeliver
      <3>6. ASSUME NEW e \in Conns PROVE in_rx'[e] \in Seq(ChunkFor(e))
        <4>1. QueueOps(ChunkFor(e)) /\ in_rx[e] \in Seq(ChunkFor(e))
          BY <3>1, QueueLemma DEF RightQueues
        <4>2. d = e => Append(in_rx[e], ChunkOf(f)) \in Seq(ChunkFor(e))
          BY <3>4, <4>1 DEF QueueOps
        <4>. HIDE DEF d, f
        <4>. QED
          BY <3>5, <4>1, <4>2 DEF TypeOK, ClientTypeOK
      <3>. QED
        BY <1>5, <3>1, <3>6 DEF DemuxDeliver, RightQueues, allocVars, appVars, tgtVars, serverVars
    <2>. QED
      BY <2>1, <2>2, <2>3, <2>4
  <1>6. ASSUME DemuxClose PROVE RightNext
    <2>1. RightFrames'
      BY <1>6, <1>a, RightFrameSame DEF DemuxClose, DemuxReads, RightFrames, QueueOps
    <2>2. RightMaps'
      BY <1>6, <1>a, RightFrameLemma, SsnetAssumption, MaxIdAssumption DEF DemuxClose, DemuxReads, RightFrames, QueueOps, TcpCmds, RightTasks, RightMaps, TypeOK, ClientTypeOK, ConnOrNone
    <2>3. RightTasks'
      BY <1>6, TasksKept DEF DemuxClose, DemuxReads
    <2>4. RightQueues'
      BY <1>6, QueuesKept DEF DemuxClose, DemuxReads
    <2>. QED
      BY <2>1, <2>2, <2>3, <2>4
  <1>7. ASSUME DemuxIgnore PROVE RightNext
    <2>1. RightFrames'
      BY <1>7, <1>a, RightFrameSame DEF DemuxIgnore, DemuxReads, RightFrames, QueueOps
    <2>2. RightMaps'
      BY <1>7, MapsKept DEF DemuxIgnore, DemuxReads
    <2>3. RightTasks'
      BY <1>7, TasksKept DEF DemuxIgnore, DemuxReads
    <2>4. RightQueues'
      BY <1>7, QueuesKept DEF DemuxIgnore, DemuxReads
    <2>. QED
      BY <2>1, <2>2, <2>3, <2>4
  <1>8. ASSUME DemuxEof PROVE RightNext
    <2>1. RightFrames'
      BY <1>8, FramesKept DEF DemuxEof
    <2>2. RightMaps'
      BY <1>8, MapsKept DEF DemuxEof
    <2>3. RightTasks'
      BY <1>8, TasksKept DEF DemuxEof
    <2>4. RightQueues'
      BY <1>8, QueuesKept DEF DemuxEof
    <2>. QED
      BY <2>1, <2>2, <2>3, <2>4
  <1>. QED
    BY <1>1, <1>2, <1>3, <1>4, <1>5, <1>6, <1>7, <1>8 DEF ClientPipe, DemuxStep

\* Steps of the connection tasks of the server.
LEMMA ServerLocalRouting ==
    ASSUME RoutingInv, ServerLocal, UNCHANGED <<linkVars, clientVars>>
    PROVE  RightNext
  <1>a. QueueOps(RightFrame)
    BY QueueLemma
  <1>b. \A c \in Conns : QueueOps(ChunkFor(c))
    BY QueueLemma
  <1>. USE DEF RoutingInv, RightNext,
       clientVars, allocVars, outVars, demuxVars, appVars, linkVars,
       taskVars, srvOutVars, loopVars, tgtVars
  <1>1. ASSUME NEW c \in Conns, ConnectOk(c) PROVE RightNext
    <2>1. RightFrames'
      BY <1>1, FramesKept DEF ConnectOk
    <2>2. RightMaps'
      BY <1>1, MapsKept DEF ConnectOk
    <2>3. RightTasks'
      BY <1>1, SsnetAssumption, MaxIdAssumption DEF ConnectOk, RightTasks, TypeOK, ServerTypeOK, ConnOrNone
    <2>4. RightQueues'
      BY <1>1, QueuesKept DEF ConnectOk
    <2>. QED
      BY <2>1, <2>2, <2>3, <2>4
  <1>2. ASSUME NEW c \in Conns, ConnectFails(c) PROVE RightNext
    <2>1. RightFrames'
      BY <1>2, FramesKept DEF ConnectFails
    <2>2. RightMaps'
      BY <1>2, MapsKept DEF ConnectFails
    <2>3. RightTasks'
      BY <1>2, SsnetAssumption, MaxIdAssumption DEF ConnectFails, RightTasks, TypeOK, ServerTypeOK, ConnOrNone
    <2>4. RightQueues'
      BY <1>2, QueuesKept DEF ConnectFails
    <2>. QED
      BY <2>1, <2>2, <2>3, <2>4
  <1>3. ASSUME NEW c \in Conns, SendStop(c) PROVE RightNext
    <2>1. RightFrames'
      <3>1. TcpFrame(task_ch[c], "STOP", c, 0) \in RightFrame
        BY <1>3, RightFrameLemma DEF SendStop, RightTasks, TcpCmds, TypeOK, ServerTypeOK
      <3>2. srv_out' \in Seq(RightFrame)
        BY <1>3, <3>1, SrvSendLemma DEF SendStop, RightFrames
      <3>. QED
        BY <1>3, <3>2, RightFrameSame DEF SendStop, RightFrames
    <2>2. RightMaps'
      BY <1>3, MapsKept DEF SendStop, SrvSend, SrvSendFails
    <2>3. RightTasks'
      BY <1>3, SsnetAssumption, MaxIdAssumption DEF SendStop, SrvSend, SrvSendFails, RightTasks, TypeOK, ServerTypeOK, ConnOrNone
    <2>4. RightQueues'
      BY <1>3, QueuesKept DEF SendStop, SrvSend, SrvSendFails
    <2>. QED
      BY <2>1, <2>2, <2>3, <2>4
  <1>4. ASSUME NEW c \in Conns, FailRemove(c) PROVE RightNext
    <2>1. RightFrames'
      BY <1>4, FramesKept DEF FailRemove
    <2>2. RightMaps'
      BY <1>4, SsnetAssumption, MaxIdAssumption DEF FailRemove, RightTasks, RightMaps, TypeOK, ServerTypeOK, ConnOrNone
    <2>3. RightTasks'
      BY <1>4, SsnetAssumption, MaxIdAssumption DEF FailRemove, RightTasks, TypeOK, ServerTypeOK, ConnOrNone
    <2>4. RightQueues'
      BY <1>4, <1>b DEF FailRemove, RightQueues, IdsDistinct, QueueOps, TypeOK, ServerTypeOK,
         clientVars, allocVars, outVars, demuxVars, appVars, linkVars, taskVars, srvOutVars, loopVars, tgtVars, linkVars
    <2>. QED
      BY <2>1, <2>2, <2>3, <2>4
  <1>5. ASSUME NEW c \in Conns, WWrite(c) PROVE RightNext
    <2>1. RightFrames'
      BY <1>5, FramesKept DEF WWrite
    <2>2. RightMaps'
      BY <1>5, MapsKept DEF WWrite
    <2>3. RightTasks'
      BY <1>5, TasksKept DEF WWrite
    <2>4. RightQueues'
      BY <1>5, <1>b DEF WWrite, RightQueues, IdsDistinct, QueueOps, TypeOK, ServerTypeOK,
         clientVars, allocVars, outVars, demuxVars, appVars, linkVars, taskVars, srvOutVars, loopVars, tgtVars, linkVars
    <2>. QED
      BY <2>1, <2>2, <2>3, <2>4
  <1>6. ASSUME NEW c \in Conns, WFail(c) PROVE RightNext
    <2>1. RightFrames'
      BY <1>6, FramesKept DEF WFail
    <2>2. RightMaps'
      BY <1>6, MapsKept DEF WFail
    <2>3. RightTasks'
      BY <1>6, SsnetAssumption, MaxIdAssumption DEF WFail, RightTasks, TypeOK, ServerTypeOK, ConnOrNone
    <2>4. RightQueues'
      BY <1>6, <1>b DEF WFail, RightQueues, IdsDistinct, QueueOps, TypeOK, ServerTypeOK,
         clientVars, allocVars, outVars, demuxVars, appVars, linkVars, taskVars, srvOutVars, loopVars, tgtVars, linkVars
    <2>. QED
      BY <2>1, <2>2, <2>3, <2>4
  <1>7. ASSUME NEW c \in Conns, WEnd(c) PROVE RightNext
    <2>1. RightFrames'
      BY <1>7, FramesKept DEF WEnd
    <2>2. RightMaps'
      BY <1>7, MapsKept DEF WEnd
    <2>3. RightTasks'
      BY <1>7, SsnetAssumption, MaxIdAssumption DEF WEnd, RightTasks, TypeOK, ServerTypeOK, ConnOrNone
    <2>4. RightQueues'
      BY <1>7, QueuesKept DEF WEnd
    <2>. QED
      BY <2>1, <2>2, <2>3, <2>4
  <1>8. ASSUME NEW c \in Conns, RReadData(c) PROVE RightNext
    <2>1. RightFrames'
      <3>1. tgt_sent[c] + 1 \in Nat /\ ids[c] # 0 /\ task_ch[c] = ids[c]
        BY <1>8, TunnelAssumption DEF RReadData, RightTasks, TypeOK, ServerTypeOK
      <3>2. TcpFrame(task_ch[c], "DATA", c, tgt_sent[c] + 1) \in RightFrame
        BY <3>1, RightFrameLemma DEF TcpCmds
      <3>3. srv_out' \in Seq(RightFrame)
        BY <1>8, <3>2, SrvSendLemma DEF RReadData, RightFrames
      <3>. QED
        BY <1>8, <3>3, RightFrameSame DEF RReadData, RightFrames
    <2>2. RightMaps'
      BY <1>8, MapsKept DEF RReadData, SrvSend, SrvSendFails
    <2>3. RightTasks'
      BY <1>8, SsnetAssumption, MaxIdAssumption DEF RReadData, SrvSend, SrvSendFails, RightTasks, TypeOK, ServerTypeOK, ConnOrNone
    <2>4. RightQueues'
      BY <1>8, QueuesKept DEF RReadData, SrvSend, SrvSendFails
    <2>. QED
      BY <2>1, <2>2, <2>3, <2>4
  <1>9. ASSUME NEW c \in Conns, RReadEnd(c) PROVE RightNext
    <2>1. RightFrames'
      BY <1>9, FramesKept DEF RReadEnd
    <2>2. RightMaps'
      BY <1>9, MapsKept DEF RReadEnd
    <2>3. RightTasks'
      BY <1>9, SsnetAssumption, MaxIdAssumption DEF RReadEnd, RightTasks, TypeOK, ServerTypeOK, ConnOrNone
    <2>4. RightQueues'
      BY <1>9, QueuesKept DEF RReadEnd
    <2>. QED
      BY <2>1, <2>2, <2>3, <2>4
  <1>10. ASSUME NEW c \in Conns, RSendEof(c) PROVE RightNext
    <2>1. RightFrames'
      <3>1. TcpFrame(task_ch[c], "EOF", c, 0) \in RightFrame
        BY <1>10, RightFrameLemma DEF RSendEof, RightTasks, TcpCmds, TypeOK, ServerTypeOK
      <3>2. srv_out' \in Seq(RightFrame)
        BY <1>10, <3>1, SrvSendLemma DEF RSendEof, RightFrames
      <3>. QED
        BY <1>10, <3>2, RightFrameSame DEF RSendEof, RightFrames
    <2>2. RightMaps'
      BY <1>10, MapsKept DEF RSendEof, SrvSend, SrvSendFails
    <2>3. RightTasks'
      BY <1>10, SsnetAssumption, MaxIdAssumption DEF RSendEof, SrvSend, SrvSendFails, RightTasks, TypeOK, ServerTypeOK, ConnOrNone
    <2>4. RightQueues'
      BY <1>10, QueuesKept DEF RSendEof, SrvSend, SrvSendFails
    <2>. QED
      BY <2>1, <2>2, <2>3, <2>4
  <1>11. ASSUME NEW c \in Conns, TaskRemove(c) PROVE RightNext
    <2>1. RightFrames'
      BY <1>11, FramesKept DEF TaskRemove
    <2>2. RightMaps'
      BY <1>11, SsnetAssumption, MaxIdAssumption DEF TaskRemove, RightTasks, RightMaps, TypeOK, ServerTypeOK, ConnOrNone
    <2>3. RightTasks'
      BY <1>11, SsnetAssumption, MaxIdAssumption DEF TaskRemove, RightTasks, TypeOK, ServerTypeOK, ConnOrNone
    <2>4. RightQueues'
      BY <1>11, QueuesKept DEF TaskRemove
    <2>. QED
      BY <2>1, <2>2, <2>3, <2>4
  <1>. QED
    BY <1>1, <1>2, <1>3, <1>4, <1>5, <1>6, <1>7, <1>8, <1>9, <1>10, <1>11 DEF ServerLocal

\* Steps of the frame loop and the writer task of the server.
LEMMA ServerPipeRouting ==
    ASSUME RoutingInv, ServerPipe, UNCHANGED clientVars
    PROVE  RightNext
  <1>a. QueueOps(RightFrame)
    BY QueueLemma
  <1>b. \A c \in Conns : QueueOps(ChunkFor(c))
    BY QueueLemma
  <1>. USE DEF RoutingInv, RightNext,
       clientVars, allocVars, outVars, demuxVars, appVars, linkVars,
       taskVars, srvOutVars, loopVars, tgtVars
  <1>1. ASSUME SConnect PROVE RightNext
    <2>a. /\ Head(c2s) \in RightFrame
          /\ Head(c2s).cmd \in TcpCmds
      BY <1>1, <1>a DEF SConnect, LoopReads, RightFrames, QueueOps, TcpCmds
    <2>b. /\ Head(c2s).conn \in Conns
          /\ ids[Head(c2s).conn] # 0
          /\ Head(c2s).channel = ids[Head(c2s).conn]
      BY <2>a, RightFrameLemma
    <2>1. RightFrames'
      BY <1>1, <1>a, RightFrameSame DEF SConnect, LoopReads, RightFrames, QueueOps
    <2>2. RightMaps'
      <3>1. /\ tcp_chans' = [tcp_chans EXCEPT ![Head(c2s).channel] = Head(c2s).conn]
            /\ UNCHANGED <<channels, ids>>
        BY <1>1 DEF SConnect
      <3>2. /\ tcp_chans \in [0 .. MaxId -> ConnOrNone]
            /\ RightMaps
        BY DEF TypeOK, ServerTypeOK
      <3>. QED
        BY ONLY <3>1, <3>2, <2>b DEF RightMaps
    <2>3. RightTasks'
      BY <1>1, <2>b, SsnetAssumption, MaxIdAssumption DEF SConnect, LoopReads, RightTasks, TypeOK, ClientTypeOK, ServerTypeOK, ConnOrNone
    <2>4. RightQueues'
      BY <1>1, QueuesKept DEF SConnect, LoopReads
    <2>. QED
      BY <2>1, <2>2, <2>3, <2>4
  <1>2. ASSUME SData PROVE RightNext
    <2>1. RightFrames'
      BY <1>2, <1>a, RightFrameSame DEF SData, LoopReads, RightFrames, QueueOps
    <2>2. RightMaps'
      BY <1>2, MapsKept DEF SData, LoopReads
    <2>3. RightTasks'
      BY <1>2, TasksKept DEF SData, LoopReads
    <2>4. RightQueues'
      BY <1>2, QueuesKept DEF SData, LoopReads
    <2>. QED
      BY <2>1, <2>2, <2>3, <2>4
  <1>3. ASSUME SDeliver PROVE RightNext
    <2>1. RightFrames'
      BY <1>3, <1>a, RightFrameSame DEF SDeliver, RightFrames, QueueOps
    <2>2. RightMaps'
      BY <1>3, MapsKept DEF SDeliver
    <2>3. RightTasks'
      BY <1>3, TasksKept DEF SDeliver
    <2>4. RightQueues'
      <3>. SUFFICES ASSUME IdsDistinct' PROVE RightQueues'
        BY DEF RightQueues
      <3>. DEFINE f == Head(loop_held)
                  d == tcp_chans[f.channel]
      <3>1. IdsDistinct
        BY <1>3 DEF SDeliver, IdsDistinct, allocVars, clientVars
      <3>2. /\ f \in DataFrame
            /\ f.conn \in Conns
            /\ ids[f.conn] # 0
            /\ f.channel = ids[f.conn]
            /\ f.channel \in 0 .. MaxId
            /\ d \in ConnOrNone
        <4>1. f \in RightFrame
          BY <1>3, <1>a DEF SDeliver, RightFrames, QueueOps
        <4>2. f \in DataFrame
          <5>1. QueueOps(DataFrame)
            BY QueueLemma
          <5>. QED
            BY <1>3, <5>1 DEF SDeliver, QueueOps, TypeOK, ServerTypeOK
        <4>3. f.cmd \in TcpCmds /\ f.channel \in 0 .. MaxId
          BY <4>2 DEF DataFrame, TcpCmds
        <4>. QED
          BY <4>1, <4>2, <4>3, RightFrameLemma DEF TypeOK, ServerTypeOK
      <3>3. d \in Conns => d = f.conn
        BY <3>1, <3>2, SsnetAssumption, MaxIdAssumption DEF RightMaps, IdsDistinct
      <3>4. d \in Conns => ChunkOf(f) \in ChunkFor(d)
        BY <3>2, <3>3 DEF ChunkOf, ChunkFor, DataFrame
      <3>5. \/ inbound' = [inbound EXCEPT ![d] = Append(@, ChunkOf(f))]
            \/ inbound' = inbound
        BY <1>3 DEF SDeliver
      <3>6. ASSUME NEW e \in Conns PROVE inbound'[e] \in Seq(ChunkFor(e))
        <4>1. QueueOps(ChunkFor(e)) /\ inbound[e] \in Seq(ChunkFor(e))
          BY <3>1, QueueLemma DEF RightQueues
        <4>2. d = e => Append(inbound[e], ChunkOf(f)) \in Seq(ChunkFor(e))
          BY <3>4, <4>1 DEF QueueOps
        <4>. HIDE DEF d, f
        <4>. QED
          BY <3>5, <4>1, <4>2 DEF TypeOK, ServerTypeOK
      <3>. QED
        BY <1>3, <3>1, <3>6 DEF SDeliver, RightQueues, tgtVars, clientVars, allocVars, appVars
    <2>. QED
      BY <2>1, <2>2, <2>3, <2>4
  <1>4. ASSUME SClose PROVE RightNext
    <2>1. RightFrames'
      BY <1>4, <1>a, RightFrameSame DEF SClose, LoopReads, RightFrames, QueueOps
    <2>2. RightMaps'
      BY <1>4, <1>a, RightFrameLemma, SsnetAssumption, MaxIdAssumption DEF SClose, LoopReads, RightFrames, QueueOps, TcpCmds, RightTasks, RightMaps, TypeOK, ServerTypeOK, ConnOrNone
    <2>3. RightTasks'
      BY <1>4, TasksKept DEF SClose, LoopReads
    <2>4. RightQueues'
      BY <1>4, QueuesKept DEF SClose, LoopReads
    <2>. QED
      BY <2>1, <2>2, <2>3, <2>4
  <1>5. ASSUME SPong PROVE RightNext
    <2>1. RightFrames'
      BY <1>5, <1>a, RightFrameSame DEF SPong, LoopReads, RightFrames, QueueOps
    <2>2. RightMaps'
      BY <1>5, MapsKept DEF SPong, LoopReads
    <2>3. RightTasks'
      BY <1>5, TasksKept DEF SPong, LoopReads
    <2>4. RightQueues'
      BY <1>5, QueuesKept DEF SPong, LoopReads
    <2>. QED
      BY <2>1, <2>2, <2>3, <2>4
  <1>6. ASSUME SStdinEof PROVE RightNext
    <2>1. RightFrames'
      BY <1>6, FramesKept DEF SStdinEof
    <2>2. RightMaps'
      BY <1>6, MapsKept DEF SStdinEof
    <2>3. RightTasks'
      BY <1>6, TasksKept DEF SStdinEof
    <2>4. RightQueues'
      BY <1>6, QueuesKept DEF SStdinEof
    <2>. QED
      BY <2>1, <2>2, <2>3, <2>4
  <1>7. ASSUME SExit PROVE RightNext
    <2>1. RightFrames'
      BY <1>7, FramesKept DEF SExit
    <2>2. RightMaps'
      BY <1>7, MapsKept DEF SExit
    <2>3. RightTasks'
      BY <1>7, TasksKept DEF SExit
    <2>4. RightQueues'
      BY <1>7, QueuesKept DEF SExit
    <2>. QED
      BY <2>1, <2>2, <2>3, <2>4
  <1>8. ASSUME ServerWriter PROVE RightNext
    <2>1. RightFrames'
      BY <1>8, <1>a, RightFrameSame DEF ServerWriter, RightFrames, QueueOps
    <2>2. RightMaps'
      BY <1>8, MapsKept DEF ServerWriter
    <2>3. RightTasks'
      BY <1>8, TasksKept DEF ServerWriter
    <2>4. RightQueues'
      BY <1>8, QueuesKept DEF ServerWriter
    <2>. QED
      BY <2>1, <2>2, <2>3, <2>4
  <1>9. ASSUME ServerWriterFail PROVE RightNext
    <2>1. RightFrames'
      BY <1>9, <1>a, RightFrameSame DEF ServerWriterFail, RightFrames, QueueOps
    <2>2. RightMaps'
      BY <1>9, MapsKept DEF ServerWriterFail
    <2>3. RightTasks'
      BY <1>9, TasksKept DEF ServerWriterFail
    <2>4. RightQueues'
      BY <1>9, QueuesKept DEF ServerWriterFail
    <2>. QED
      BY <2>1, <2>2, <2>3, <2>4
  <1>. QED
    BY <1>1, <1>2, <1>3, <1>4, <1>5, <1>6, <1>7, <1>8, <1>9 DEF ServerPipe, LoopStep

LEMMA LinkDownRouting ==
    ASSUME RoutingInv, LinkDown, UNCHANGED <<clientVars, serverVars>>
    PROVE  RightNext
  <1>. USE DEF RoutingInv, RightNext, LinkDown, clientVars, serverVars, allocVars, outVars,
       demuxVars, appVars, taskVars, srvOutVars, loopVars, tgtVars
  <1>1. QueueOps(RightFrame)
    BY QueueLemma
  <1>2. RightFrames'
    BY <1>1, RightFrameSame DEF RightFrames, QueueOps
  <1>. QED
    BY <1>2, MapsKept, TasksKept, QueuesKept

LEMMA StutterRouting ==
    ASSUME RoutingInv, UNCHANGED vars
    PROVE  RightNext
  BY FramesKept, MapsKept, TasksKept, QueuesKept
  DEF RoutingInv, RightNext, vars, clientVars, serverVars, allocVars, outVars, demuxVars, appVars,
      taskVars, srvOutVars, loopVars, tgtVars, linkVars

\* Every step of the tunnel keeps RoutingInv.
LEMMA RoutingStep ==
    ASSUME RoutingInv, [Next]_vars
    PROVE  RoutingInv'
  <1>1. TypeOK'
    BY TypeStep DEF RoutingInv
  <1>2. RightNext
    BY ClientLocalRouting, ClientPipeRouting, ServerLocalRouting, ServerPipeRouting,
       LinkDownRouting, StutterRouting
    DEF Next, ClientOnly, ClientWithPipe, ServerOnly, ServerWithPipe, LoseLink
  <1>. QED
    BY <1>1, <1>2 DEF RoutingInv, RightNext

\* In every reachable state each TCP frame carries the id of its connection,
\* each channel map holds a connection under its own id only, and, while no id
\* was given out twice, each queue and each socket holds its own chunks only.
THEOREM RoutingInvariant == Spec => []RoutingInv
  <1>1. Init => RoutingInv
    BY RoutingInit
  <1>2. RoutingInv /\ [Next]_vars => RoutingInv'
    BY RoutingStep
  <1>. QED
    BY <1>1, <1>2, PTL DEF Spec

\* No application and no target ever receives a chunk of another connection,
\* unless the allocator wrapped and gave an id out twice.
THEOREM RoutingIsRight == Spec => []NoCrosstalk
  <1>1. RoutingInv => NoCrosstalk
    <2>. SUFFICES ASSUME RoutingInv, IdsDistinct, NEW c \in Conns
                  PROVE  /\ \A k \in DOMAIN app_got[c] : app_got[c][k].conn = c
                         /\ \A k \in DOMAIN tgt_got[c] : tgt_got[c][k].conn = c
      BY DEF NoCrosstalk
    <2>1. \A q \in Seq(ChunkFor(c)) : \A k \in DOMAIN q : q[k].conn = c
      <3>. SUFFICES ASSUME NEW q \in Seq(ChunkFor(c)), NEW k \in DOMAIN q PROVE q[k].conn = c
        OBVIOUS
      <3>1. q[k] \in ChunkFor(c)
        OBVIOUS
      <3>. QED
        BY <3>1 DEF ChunkFor
    <2>. QED
      BY <2>1 DEF RoutingInv, RightQueues
  <1>. QED
    BY <1>1, RoutingInvariant, PTL
-----------------------------------------------------------------------------
(* Who takes a channel out of a map *)

LEMMA ChannelsKeptStep ==
    ASSUME RoutingInv, [Next]_vars
    PROVE  ChannelsKept
  <1>. SUFFICES ASSUME IdsDistinct'
                PROVE  OwnAct(channels, conn_pc, s2c) /\ OwnAct(tcp_chans, task_pc, c2s)
    BY DEF ChannelsKept
  <1>a. QueueOps(RightFrame)
    BY QueueLemma
  <1>. USE SsnetAssumption, MaxIdAssumption
       DEF RoutingInv, TypeOK, ClientTypeOK, ServerTypeOK, ConnOrNone, RightMaps, RightTasks,
           IdsDistinct
  \* The steps that leave both maps alone.
  <1>1. ASSUME UNCHANGED <<channels, tcp_chans>>
        PROVE  OwnAct(channels, conn_pc, s2c) /\ OwnAct(tcp_chans, task_pc, c2s)
    BY <1>1 DEF OwnAct
  \* The steps that change one map.
  <1>2. ASSUME NEW l \in Loops, InsertChannel(l), UNCHANGED tcp_chans
        PROVE  OwnAct(channels, conn_pc, s2c) /\ OwnAct(tcp_chans, task_pc, c2s)
    BY <1>2 DEF InsertChannel, OwnAct
  <1>3. ASSUME NEW c \in Conns, RemoveChannel(c), UNCHANGED tcp_chans
        PROVE  OwnAct(channels, conn_pc, s2c) /\ OwnAct(tcp_chans, task_pc, c2s)
    <2>1. OwnAct(tcp_chans, task_pc, c2s)
      BY ONLY <1>3 DEF OwnAct
    <2>2. /\ channels' = [channels EXCEPT ![ids[c]] = NoConn]
          /\ conn_pc'[c] # conn_pc[c]
      BY <1>3 DEF RemoveChannel
    <2>3. channels[ids[c]] # NoConn => channels[ids[c]] = c
      BY <1>3 DEF RemoveChannel, allocVars
    <2>4. OwnAct(channels, conn_pc, s2c)
      BY <2>2, <2>3 DEF OwnAct
    <2>. QED
      BY ONLY <2>1, <2>4
  <1>4. ASSUME DemuxClose, UNCHANGED tcp_chans
        PROVE  OwnAct(channels, conn_pc, s2c) /\ OwnAct(tcp_chans, task_pc, c2s)
    <2>1. /\ Head(s2c) \in RightFrame
          /\ Head(s2c).cmd \in TcpCmds
          /\ s2c' # s2c
      BY <1>4, <1>a DEF DemuxClose, DemuxReads, RightFrames, QueueOps, TcpCmds
    <2>2. /\ Head(s2c).conn \in Conns
          /\ ids[Head(s2c).conn] # 0
          /\ Head(s2c).channel = ids[Head(s2c).conn]
      BY <2>1, RightFrameLemma
    <2>3. \A d \in Conns : ids[d] = ids[Head(s2c).conn] => d = Head(s2c).conn
      BY <2>2, <1>4 DEF DemuxClose, DemuxReads, allocVars
    <2>4. channels' = [channels EXCEPT ![Head(s2c).channel] = NoConn]
      BY <1>4 DEF DemuxClose
    <2>5. channels[Head(s2c).channel] # NoConn => channels[Head(s2c).channel] = Head(s2c).conn
      BY <2>2, <2>3
    <2>6. OwnAct(channels, conn_pc, s2c)
      BY <2>1, <2>4, <2>5 DEF OwnAct
    <2>. QED
      BY <1>4, <2>6 DEF OwnAct
  <1>5. ASSUME SConnect, UNCHANGED <<channels, ids>>
        PROVE  OwnAct(channels, conn_pc, s2c) /\ OwnAct(tcp_chans, task_pc, c2s)
    <2>1. Head(c2s) \in RightFrame /\ Head(c2s).cmd \in TcpCmds
      BY <1>5, <1>a DEF SConnect, LoopReads, RightFrames, QueueOps, TcpCmds
    <2>2. /\ Head(c2s).conn \in Conns
          /\ ids[Head(c2s).conn] # 0
          /\ Head(c2s).channel = ids[Head(c2s).conn]
      BY <2>1, RightFrameLemma
    <2>3. OwnAct(channels, conn_pc, s2c)
      BY ONLY <1>5 DEF OwnAct
    <2>4. tcp_chans' = [tcp_chans EXCEPT ![Head(c2s).channel] = Head(c2s).conn]
      BY ONLY <1>5 DEF SConnect
    <2>a. \A d \in Conns : ids[d] = ids[Head(c2s).conn] => d = Head(c2s).conn
      BY <2>2, <1>5
    <2>5. tcp_chans[Head(c2s).channel] # NoConn => tcp_chans[Head(c2s).channel] = Head(c2s).conn
      BY <2>2, <2>a
    <2>6. tcp_chans \in [0 .. MaxId -> ConnOrNone]
      OBVIOUS
    <2>7. \A i \in 0 .. MaxId : tcp_chans[i] # NoConn => tcp_chans'[i] = tcp_chans[i]
      BY ONLY <2>4, <2>5, <2>6
    <2>8. OwnAct(tcp_chans, task_pc, c2s)
      BY ONLY <2>7 DEF OwnAct
    <2>. QED
      BY ONLY <2>3, <2>8
  <1>6. ASSUME SClose, UNCHANGED <<channels, ids>>
        PROVE  OwnAct(channels, conn_pc, s2c) /\ OwnAct(tcp_chans, task_pc, c2s)
    <2>1. /\ Head(c2s) \in RightFrame
          /\ Head(c2s).cmd \in TcpCmds
          /\ c2s' # c2s
      BY <1>6, <1>a DEF SClose, LoopReads, RightFrames, QueueOps, TcpCmds
    <2>2. /\ Head(c2s).conn \in Conns
          /\ ids[Head(c2s).conn] # 0
          /\ Head(c2s).channel = ids[Head(c2s).conn]
      BY <2>1, RightFrameLemma
    <2>3. \A d \in Conns : ids[d] = ids[Head(c2s).conn] => d = Head(c2s).conn
      BY <2>2, <1>6 DEF SClose, LoopReads, allocVars
    <2>4. tcp_chans' = [tcp_chans EXCEPT ![Head(c2s).channel] = NoConn]
      BY <1>6 DEF SClose
    <2>5. tcp_chans[Head(c2s).channel] # NoConn => tcp_chans[Head(c2s).channel] = Head(c2s).conn
      BY <2>2, <2>3
    <2>6. OwnAct(tcp_chans, task_pc, c2s)
      BY <2>1, <2>4, <2>5 DEF OwnAct
    <2>. QED
      BY <1>6, <2>6 DEF OwnAct
  <1>7. ASSUME NEW c \in Conns, FailRemove(c) \/ TaskRemove(c), UNCHANGED <<channels, ids>>
        PROVE  OwnAct(channels, conn_pc, s2c) /\ OwnAct(tcp_chans, task_pc, c2s)
    <2>1. task_ch[c] = ids[c] /\ ids[c] # 0
      BY <1>7 DEF FailRemove, TaskRemove
    <2>2. tcp_chans' = [tcp_chans EXCEPT ![ids[c]] = NoConn] /\ task_pc'[c] # task_pc[c]
      BY <1>7, <2>1 DEF FailRemove, TaskRemove
    <2>3. tcp_chans[ids[c]] # NoConn => tcp_chans[ids[c]] = c
      BY <1>7, <2>1
    <2>4. OwnAct(tcp_chans, task_pc, c2s)
      BY <2>2, <2>3 DEF OwnAct
    <2>. QED
      BY <1>7, <2>4 DEF OwnAct
  <1>8. CASE ClientOnly(ClientLocal)
    <2>1. UNCHANGED tcp_chans
      BY <1>8 DEF ClientOnly, serverVars
    <2>2. CASE \/ \E l \in Loops : InsertChannel(l)
               \/ \E c \in Conns : RemoveChannel(c)
      BY <2>1, <2>2, <1>2, <1>3
    <2>3. CASE ~ \/ \E l \in Loops : InsertChannel(l)
                 \/ \E c \in Conns : RemoveChannel(c)
      <3>1. UNCHANGED channels
        BY <1>8, <2>3
        DEF ClientOnly, ClientLocal, AcceptConn, DnsTakesId, SendConnect, ConnectNotSent, AReadData, AReadEnd,
            ASendEof, BWrite, BWriteFail, BEnd
      <3>. QED
        BY <2>1, <3>1, <1>1
    <2>. QED
      BY <2>2, <2>3
  <1>9. CASE ClientWithPipe(ClientPipe)
    <2>1. UNCHANGED tcp_chans
      BY <1>9 DEF ClientWithPipe, serverVars
    <2>2. CASE DemuxClose
      BY <2>1, <2>2, <1>4
    <2>3. CASE ~DemuxClose
      <3>1. UNCHANGED channels
        BY <1>9, <2>3
        DEF ClientWithPipe, ClientPipe, DemuxStep, ClientWriter, ClientWriterFail, DemuxPing,
            DemuxData, DemuxDeliver, DemuxIgnore, DemuxEof
      <3>. QED
        BY <2>1, <3>1, <1>1
    <2>. QED
      BY <2>2, <2>3
  <1>10. CASE ServerOnly(ServerLocal)
    <2>1. UNCHANGED <<channels, ids>>
      BY <1>10 DEF ServerOnly, clientVars, allocVars
    <2>2. CASE \E c \in Conns : FailRemove(c) \/ TaskRemove(c)
      BY <2>1, <2>2, <1>7
    <2>3. CASE ~ \E c \in Conns : FailRemove(c) \/ TaskRemove(c)
      <3>1. UNCHANGED tcp_chans
        BY <1>10, <2>3
        DEF ServerOnly, ServerLocal, ConnectOk, ConnectFails, SendStop, WWrite, WFail, WEnd,
            RReadData, RReadEnd, RSendEof
      <3>. QED
        BY <2>1, <3>1, <1>1
    <2>. QED
      BY <2>2, <2>3
  <1>11. CASE ServerWithPipe(ServerPipe)
    <2>1. UNCHANGED <<channels, ids>>
      BY <1>11 DEF ServerWithPipe, clientVars, allocVars
    <2>2. CASE SConnect \/ SClose
      BY <2>1, <2>2, <1>5, <1>6
    <2>3. CASE ~(SConnect \/ SClose)
      <3>1. UNCHANGED tcp_chans
        BY <1>11, <2>3
        DEF ServerWithPipe, ServerPipe, LoopStep, SData, SDeliver, SPong, SStdinEof, SExit,
            ServerWriter, ServerWriterFail
      <3>. QED
        BY <2>1, <3>1, <1>1
    <2>. QED
      BY <2>2, <2>3
  <1>12. CASE LoseLink \/ UNCHANGED vars
    BY <1>12, <1>1 DEF LoseLink, vars, clientVars, serverVars
  <1>. QED
    BY <1>8, <1>9, <1>10, <1>11, <1>12 DEF Next

\* A channel leaves a channel map only by the act of its own connection, and is
\* never replaced there, unless the allocator gave an id out twice.
THEOREM ChannelsAreOwned == Spec => ChannelsNeverStolen
  <1>1. RoutingInv /\ [Next]_vars => [ChannelsKept]_vars
    BY ChannelsKeptStep
  <1>. QED
    BY <1>1, RoutingInvariant, PTL DEF Spec, ChannelsNeverStolen
=============================================================================
