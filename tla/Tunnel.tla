------------------------------- MODULE Tunnel -------------------------------
(***************************************************************************)
(* A rushtle client and a rushtle server joined by one kubectl-exec pipe,  *)
(* carrying the TCP connections in Conns.                                  *)
(***************************************************************************)
EXTENDS RushtleClient, RushtleServer, FiniteSets

CONSTANT MayLoseLink    \* BOOLEAN: the kubectl-exec session may die

ASSUME TunnelAssumption ==
    /\ MaxUp \in Nat
    /\ MaxQueries \in Nat
    /\ MaxDown \in Nat
    /\ MayReset \subseteq Conns
    /\ Refusing \subseteq Conns
    /\ Asking \subseteq Conns
    /\ Answering \subseteq Conns
    /\ MayBreak \subseteq Conns
    /\ MayLoseLink \in BOOLEAN
    /\ LinkProbed \in BOOLEAN
    /\ LinkProbed \/ OutCap >= 2

vars == <<linkVars, clientVars, serverVars>>

Init == LinkInit /\ ClientInit /\ ServerInit

LoseLink ==
    /\ MayLoseLink
    /\ LinkDown
    /\ UNCHANGED <<clientVars, serverVars>>

\* Which component steps, and what its step leaves alone.
ClientOnly(A) == A /\ UNCHANGED <<linkVars, serverVars>>
ClientWithPipe(A) == A /\ UNCHANGED serverVars
ServerOnly(A) == A /\ UNCHANGED <<linkVars, clientVars>>
ServerWithPipe(A) == A /\ UNCHANGED clientVars

Next ==
    \/ ClientOnly(ClientLocal)
    \/ ClientWithPipe(ClientPipe)
    \/ ServerOnly(ServerLocal)
    \/ ServerWithPipe(ServerPipe)
    \/ LoseLink

Spec == Init /\ [][Next]_vars

(***************************************************************************)
(* Fairness.  The tokio runtime runs every task that can proceed, queues   *)
(* and locks are first come first served, and a connect is answered or     *)
(* times out.  The peers read what they are sent; PeersClose adds that     *)
(* they close their side in the end, which nothing in the code enforces.   *)
(***************************************************************************)
ClientFair ==
    /\ \A l \in Loops : WF_vars(ClientOnly(InsertChannel(l)))
    /\ \A c \in Conns :
         /\ WF_vars(ClientOnly(SendConnect(c) \/ ConnectNotSent(c)))
         /\ WF_vars(ClientOnly(ASendEof(c)))
         /\ WF_vars(ClientOnly(BWrite(c) \/ BEnd(c)))
         /\ WF_vars(ClientOnly(RemoveChannel(c)))
    /\ WF_vars(ClientWithPipe(ClientWriter \/ ClientWriterFail))
    /\ WF_vars(ClientWithPipe(DemuxStep))

ServerFair ==
    /\ \A c \in Conns :
         /\ WF_vars(ServerOnly(ConnectOk(c) \/ SendStop(c) \/ FailRemove(c) \/ TaskRemove(c)))
         /\ WF_vars(ServerOnly(WWrite(c) \/ WEnd(c)))
         /\ WF_vars(ServerOnly(RSendEof(c)))
    /\ WF_vars(ServerWithPipe(LoopStep))
    /\ WF_vars(ServerWithPipe(ServerWriter \/ ServerWriterFail))

PeersClose ==
    \A c \in Conns :
       /\ WF_vars(ClientOnly(AReadEnd(c)))
       /\ WF_vars(ServerOnly(RReadEnd(c)))

TaskFairSpec == Spec /\ ClientFair /\ ServerFair

FairSpec == TaskFairSpec /\ PeersClose
-----------------------------------------------------------------------------
(* Type correctness *)

\* Every variable of the link, the client and the server has its type; each
\* queue stays within its capacity.
TypeOK ==
    /\ LinkTypeOK
    /\ ClientTypeOK
    /\ ServerTypeOK
-----------------------------------------------------------------------------
(* Safety *)

\* No two connections were given the same channel id: true until the 16-bit
\* allocator has wrapped around.
IdsDistinct ==
    \A c, d \in Conns : ids[c] # 0 /\ ids[c] = ids[d] => c = d

\* Routing on the channel id alone never hands one connection's payload to
\* another: neither the application nor the target of c ever receives a chunk
\* that was not sent on c, as long as no channel id was given out twice.
NoCrosstalk ==
    IdsDistinct =>
        \A c \in Conns :
            /\ \A k \in DOMAIN app_got[c] : app_got[c][k].conn = c
            /\ \A k \in DOMAIN tgt_got[c] : tgt_got[c][k].conn = c

\* The connection registered under i in a map is gone after the step: the step
\* is its own, or reads its EOF or STOP frame from the pipe, and nothing has
\* taken its place.
OwnAct(map, pc, pipe) ==
    \A i \in 0 .. MaxId :
        LET c == map[i] IN
        c # NoConn /\ map'[i] # c =>
            /\ map'[i] = NoConn
            /\ \/ pc'[c] # pc[c]
               \/ pipe' # pipe /\ Head(pipe).conn = c

ChannelsKept ==
    IdsDistinct' =>
        /\ OwnAct(channels, conn_pc, s2c)
        /\ OwnAct(tcp_chans, task_pc, c2s)

\* A registered channel leaves a channel map, or is replaced in it, only by the
\* act of its own connection: the cleanup of its own task, or its own EOF or
\* STOP frame.  No late cleanup of another connection ever takes it away, as
\* long as no channel id was given out twice.
ChannelsNeverStolen == [][ChannelsKept]_vars

\* "TCP fully supported", "TCP backpressure end-to-end": a target that refuses
\* its connection slows down its own connection at most.
\* The frame loop never waits for room in the queue of a connection whose
\* connect failed: that task is itself waiting for the lock the loop holds.
RefusedConnectNeverWedgesServer ==
    \A f \in ToSet(loop_held) :
        LET c == tcp_chans[f.channel] IN
        ~(task_pc[c] = "removing" /\ Len(inbound[c]) = InCap)
-----------------------------------------------------------------------------
(* Why routing on ids is right: the inductive invariant behind NoCrosstalk *)

\* Every TCP frame carries the id that was allocated to its connection.
RightFrame ==
    {f \in Frame : f.conn # NoConn => ids[f.conn] # 0 /\ f.channel = ids[f.conn]}

RightFrames ==
    /\ out_tx \in Seq(RightFrame)
    /\ c2s \in Seq(RightFrame)
    /\ loop_held \in Seq(RightFrame)
    /\ srv_out \in Seq(RightFrame)
    /\ s2c \in Seq(RightFrame)
    /\ demux_held \in Seq(RightFrame)

\* A channel map holds a connection under its own id only.
RightMaps ==
    \A i \in 0 .. MaxId :
        /\ channels[i] # NoConn => i # 0 /\ ids[channels[i]] = i
        /\ tcp_chans[i] # NoConn => i # 0 /\ ids[tcp_chans[i]] = i

\* Whoever works for a connection was started with its id.
RightTasks ==
    /\ \A l \in Loops : acceptor[l] # NoConn => ids[acceptor[l]] # 0
    /\ \A c \in Conns :
         /\ conn_pc[c] # "new" => ids[c] # 0
         /\ a_task[c] # "idle" => ids[c] # 0
         /\ b_task[c] # "idle" => ids[c] # 0
         /\ task_pc[c] # "none" => ids[c] # 0 /\ task_ch[c] = ids[c]
         /\ r_task[c] # "idle" => task_pc[c] # "none"
         /\ w_task[c] # "idle" => task_pc[c] # "none"

ChunkFor(c) == [conn : {c}, n : Nat]

RightQueues ==
    IdsDistinct =>
        \A c \in Conns :
            /\ in_rx[c] \in Seq(ChunkFor(c))
            /\ app_got[c] \in Seq(ChunkFor(c))
            /\ inbound[c] \in Seq(ChunkFor(c))
            /\ tgt_got[c] \in Seq(ChunkFor(c))

(* What routing rests on, as one inductive statement: every frame, on whichever
   queue or pipe, carries the data of the connection that was given its id; the
   maps on both sides hand an id only to that connection's own queues; and each
   task sends on the id it was started with (client.rs:279-284, server.rs:129-147).
   It holds whether or not ids have been handed out a second time. *)
RoutingInv ==
    /\ TypeOK
    /\ RightFrames
    /\ RightMaps
    /\ RightTasks
    /\ RightQueues
-----------------------------------------------------------------------------
(* Refinement: each direction of each connection is a stream *)

Direction == {"up", "down"}

Position(c, chunks) ==
    [k \in DOMAIN chunks |-> IF chunks[k].conn = c THEN chunks[k].n ELSE 0]

Promise == INSTANCE Streams WITH
    Stream  <- Direction \X Conns,
    written <- [s \in Direction \X Conns |->
                  IF s[1] = "up" THEN app_sent[s[2]] ELSE tgt_sent[s[2]]],
    closed  <- [s \in Direction \X Conns |->
                  IF s[1] = "up"
                  THEN a_task[s[2]] \in {"eof", "done"}
                  ELSE \/ r_task[s[2]] \in {"eof", "done"}
                       \/ task_pc[s[2]] \in {"failed", "removing", "done"}],
    got     <- [s \in Direction \X Conns |->
                  IF s[1] = "up" THEN Position(s[2], tgt_got[s[2]])
                                 ELSE Position(s[2], app_got[s[2]])],
    ended   <- [s \in Direction \X Conns |->
                  IF s[1] = "up" THEN tgt_eof[s[2]] ELSE app_eof[s[2]]],
    cut     <- [s \in Direction \X Conns |->
                  IF s[1] = "up" THEN srv_loop = "exited"
                                 ELSE conn_pc[s[2]] = "failed"]

\* The tunnel implements Streams: on both directions of every connection the
\* chunks arrive in order, once, complete before the end of stream, and a loss
\* of the kubectl-exec session never looks like the end of a stream, except to
\* a target when the server process goes away and to an application whose
\* CONNECT could not be sent.
StreamsPromise == Promise!Spec
-----------------------------------------------------------------------------
(* Liveness *)

\* Every accepted connection is torn down once both of its peers have closed, if
\* the link lives: its two halves end, its channel is removed, and handle_conn
\* returns, whatever queue is full and whichever peer stopped accepting data.
FlowsFinish ==
    \A c \in Conns : ids[c] # 0 ~> conn_pc[c] = "done" \/ link = "down"

\* The same on the server, for every connection it was asked to open.
TasksFinish ==
    \A c \in Conns : task_pc[c] # "none" ~> task_pc[c] = "done" \/ link = "down"

\* stdin EOF, server shutting down: the server process ends.
ServerShutsDown == srv_loop = "draining" ~> srv_loop = "exited"
=============================================================================
