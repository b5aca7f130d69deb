--------------------------- MODULE RushtleServer ---------------------------
(***************************************************************************)
(* The rushtle server's TCP path (server.rs): the frame loop that reads    *)
(* stdin, one connection task per CONNECT with its writer half (w: tunnel  *)
(* to target) and its reader half (r: target to tunnel), and the writer    *)
(* task that owns stdout.  The targets are the environment.                *)
(***************************************************************************)
EXTENDS Ssnet

CONSTANTS
    MaxDown,    \* bound: chunks a target writes on one connection
    Answering,  \* connections whose target writes anything
    Refusing,   \* connections whose target may refuse, or never answer the connect
    LinkProbed, \* BOOLEAN: the client runs its link probe (probe_fallback_us > 0)
    MayBreak    \* connections whose target may stop accepting data

VARIABLES
    tcp_chans,  \* tcp_chans[i]: whose inbound_tx the map holds under id i
    task_pc,    \* the task spawned by spawn_tcp_connect
    task_ch,    \* the channel that task was given
    w_task,     \* its writer half
    r_task,     \* its reader half: "eof" is its last send
    inbound,    \* inbound[c]: chunks queued for the target
    srv_out,    \* the queue of the writer task
    srv_writer, \* the writer task
    srv_loop,   \* the frame loop, then the drain, then the process is gone
    loop_held,  \* the DATA frame the loop is delivering, with tcp_chans locked
    tgt_sent,   \* chunks the target wrote that r has read
    tgt_got,    \* chunks the target has received
    tgt_eof     \* the target's socket was shut down for writing

taskVars   == <<task_pc, task_ch>>
srvOutVars == <<srv_out, srv_writer>>
loopVars   == <<srv_loop, loop_held>>
tgtVars    == <<tgt_sent, tgt_got, tgt_eof>>
serverVars ==
    <<tcp_chans, taskVars, w_task, r_task, inbound, srvOutVars, loopVars, tgtVars>>

\* Two frames are queued before the loop starts; when the client runs its link
\* probe, the probe has read them by the time the client's tasks start.
ServerInit ==
    /\ tcp_chans = [i \in 0 .. MaxId |-> NoConn]
    /\ task_pc = [c \in Conns |-> "none"]
    /\ task_ch = [c \in Conns |-> 0]
    /\ w_task = [c \in Conns |-> "idle"]
    /\ r_task = [c \in Conns |-> "idle"]
    /\ inbound = [c \in Conns |-> <<>>]
    /\ srv_out = IF LinkProbed THEN <<>> ELSE <<CtlFrame("PING"), CtlFrame("ROUTES")>>
    /\ srv_writer = "run"
    /\ srv_loop = "run"
    /\ loop_held = <<>>
    /\ tgt_sent = [c \in Conns |-> 0]
    /\ tgt_got = [c \in Conns |-> <<>>]
    /\ tgt_eof = [c \in Conns |-> FALSE]

Running == srv_loop # "exited"

\* inbound_rx lives in the connection task until its writer half takes it.
InboundAlive(c) ==
    task_pc[c] \in {"connecting", "failed", "removing"} \/ w_task[c] = "run"

TcpChansUnlocked == loop_held = <<>>

SrvSend(f) ==
    /\ srv_writer = "run"
    /\ HasRoom(srv_out, OutCap)
    /\ srv_out' = Append(srv_out, f)
    /\ UNCHANGED srv_writer

SrvSendFails == srv_writer = "dead" /\ UNCHANGED srvOutVars
-----------------------------------------------------------------------------
(* Frame loop *)

LoopReads(cmds) ==
    /\ srv_loop = "run"
    /\ loop_held = <<>>
    /\ c2s # <<>>
    /\ Head(c2s).cmd \in cmds
    /\ c2s' = Tail(c2s)
    /\ UNCHANGED <<s2c, link, srv_loop>>

\* spawn_tcp_connect: registers the channel, then spawns the connection task.
SConnect ==
    /\ LoopReads({"CONNECT"})
    /\ LET f == Head(c2s) IN
       /\ tcp_chans' = [tcp_chans EXCEPT ![f.channel] = f.conn]
       /\ task_pc' = [task_pc EXCEPT ![f.conn] = "connecting"]
       /\ task_ch' = [task_ch EXCEPT ![f.conn] = f.channel]
    /\ UNCHANGED <<loop_held, w_task, r_task, inbound, srvOutVars, tgtVars>>

\* The lock on tcp_chans is taken here and kept until the frame is delivered.
SData ==
    /\ LoopReads({"DATA"})
    /\ loop_held' =
         IF tcp_chans[Head(c2s).channel] # NoConn THEN <<Head(c2s)>> ELSE <<>>
    /\ UNCHANGED <<tcp_chans, taskVars, w_task, r_task, inbound, srvOutVars, tgtVars>>

\* A variant with try_send: what does not fit is dropped.
SDeliverOrDrop ==
    /\ Running
    /\ loop_held # <<>>
    /\ LET f == Head(loop_held)
           c == tcp_chans[f.channel]
       IN  inbound' = IF InboundAlive(c) /\ HasRoom(inbound[c], InCap)
                      THEN [inbound EXCEPT ![c] = Append(@, ChunkOf(f))]
                      ELSE inbound
    /\ loop_held' = <<>>
    /\ UNCHANGED <<linkVars, srv_loop, tcp_chans, taskVars, w_task, r_task, srvOutVars, tgtVars>>

\* inbound_tx.send(data).await: waits while full, fails if the receiver is gone.
SDeliver ==
    /\ Running
    /\ loop_held # <<>>
    /\ LET f == Head(loop_held)
           c == tcp_chans[f.channel]
       IN  \/ /\ InboundAlive(c)
              /\ HasRoom(inbound[c], InCap)
              /\ inbound' = [inbound EXCEPT ![c] = Append(@, ChunkOf(f))]
           \/ /\ ~InboundAlive(c)
              /\ UNCHANGED inbound
    /\ loop_held' = <<>>
    /\ UNCHANGED <<linkVars, srv_loop, tcp_chans, taskVars, w_task, r_task, srvOutVars, tgtVars>>

SClose ==
    /\ LoopReads({"EOF", "STOP"})
    /\ tcp_chans' = [tcp_chans EXCEPT ![Head(c2s).channel] = NoConn]
    /\ UNCHANGED <<loop_held, taskVars, w_task, r_task, inbound, srvOutVars, tgtVars>>

SPong ==
    /\ LoopReads({"PONG"})
    /\ UNCHANGED <<loop_held, tcp_chans, taskVars, w_task, r_task, inbound, srvOutVars, tgtVars>>

\* End of stdin: leave the loop, drop out_tx, wait for the writer task.
SStdinEof ==
    /\ srv_loop = "run"
    /\ loop_held = <<>>
    /\ c2s = <<>>
    /\ link = "down"
    /\ srv_loop' = "draining"
    /\ UNCHANGED <<linkVars, loop_held, tcp_chans, taskVars, w_task, r_task, inbound,
                   srvOutVars, tgtVars>>

\* The writer task ends when a write failed, or when no task holds out_tx any
\* more and the queue is empty.  Then run returns and the process ends; the
\* kernel closes the target sockets that are still open.
SExit ==
    /\ srv_loop = "draining"
    /\ \/ srv_writer = "dead"
       \/ /\ srv_out = <<>>
          /\ \A c \in Conns : task_pc[c] \in {"none", "done"}
    /\ srv_loop' = "exited"
    /\ tgt_eof' = [c \in Conns |-> tgt_eof[c] \/ w_task[c] = "run"]
    /\ UNCHANGED <<linkVars, loop_held, tcp_chans, taskVars, w_task, r_task, inbound,
                   srvOutVars, tgt_sent, tgt_got>>
-----------------------------------------------------------------------------
(* Connection task *)

ConnectOk(c) ==
    /\ Running
    /\ task_pc[c] = "connecting"
    /\ task_pc' = [task_pc EXCEPT ![c] = "relay"]
    /\ w_task' = [w_task EXCEPT ![c] = "run"]
    /\ r_task' = [r_task EXCEPT ![c] = "run"]
    /\ UNCHANGED <<tcp_chans, task_ch, inbound, srvOutVars, loopVars, tgtVars>>

ConnectFails(c) ==
    /\ Running
    /\ task_pc[c] = "connecting"
    /\ c \in Refusing
    /\ task_pc' = [task_pc EXCEPT ![c] = "failed"]
    /\ UNCHANGED <<tcp_chans, task_ch, w_task, r_task, inbound, srvOutVars, loopVars,
                   tgtVars>>

\* A variant that drops a refused connection without a word.
RefuseSilently(c) ==
    /\ Running
    /\ task_pc[c] = "failed"
    /\ task_pc' = [task_pc EXCEPT ![c] = "removing"]
    /\ UNCHANGED <<tcp_chans, task_ch, w_task, r_task, inbound, srvOutVars, loopVars,
                   tgtVars>>

SendStop(c) ==
    /\ Running
    /\ task_pc[c] = "failed"
    /\ SrvSend(TcpFrame(task_ch[c], "STOP", c, 0)) \/ SrvSendFails
    /\ task_pc' = [task_pc EXCEPT ![c] = "removing"]
    /\ UNCHANGED <<tcp_chans, task_ch, w_task, r_task, inbound, loopVars, tgtVars>>

\* The failing task still owns inbound_rx while it waits for the lock.
FailRemove(c) ==
    /\ Running
    /\ task_pc[c] = "removing"
    /\ TcpChansUnlocked
    /\ tcp_chans' = [tcp_chans EXCEPT ![task_ch[c]] = NoConn]
    /\ task_pc' = [task_pc EXCEPT ![c] = "done"]
    /\ inbound' = [inbound EXCEPT ![c] = <<>>]
    /\ UNCHANGED <<task_ch, w_task, r_task, srvOutVars, loopVars, tgtVars>>

WWrite(c) ==
    /\ Running
    /\ w_task[c] = "run"
    /\ inbound[c] # <<>>
    /\ tgt_got' = [tgt_got EXCEPT ![c] = Append(@, Head(inbound[c]))]
    /\ inbound' = [inbound EXCEPT ![c] = Tail(@)]
    /\ UNCHANGED <<tcp_chans, taskVars, w_task, r_task, srvOutVars, loopVars,
                   tgt_sent, tgt_eof>>

WFail(c) ==
    /\ Running
    /\ w_task[c] = "run"
    /\ c \in MayBreak
    /\ inbound[c] # <<>>
    /\ inbound' = [inbound EXCEPT ![c] = <<>>]
    /\ w_task' = [w_task EXCEPT ![c] = "done"]
    /\ UNCHANGED <<tcp_chans, taskVars, r_task, srvOutVars, loopVars, tgtVars>>

\* A variant that stops as soon as the sender is gone, whatever is queued.
WEndUndrained(c) ==
    /\ Running
    /\ w_task[c] = "run"
    /\ tcp_chans[task_ch[c]] # c
    /\ w_task' = [w_task EXCEPT ![c] = "done"]
    /\ tgt_eof' = [tgt_eof EXCEPT ![c] = TRUE]
    /\ UNCHANGED <<tcp_chans, taskVars, r_task, inbound, srvOutVars, loopVars,
                   tgt_sent, tgt_got>>

\* recv returns None: the queue is empty and its only sender is gone.
WEnd(c) ==
    /\ Running
    /\ w_task[c] = "run"
    /\ inbound[c] = <<>>
    /\ tcp_chans[task_ch[c]] # c
    /\ w_task' = [w_task EXCEPT ![c] = "done"]
    /\ tgt_eof' = [tgt_eof EXCEPT ![c] = TRUE]
    /\ UNCHANGED <<tcp_chans, taskVars, r_task, inbound, srvOutVars, loopVars,
                   tgt_sent, tgt_got>>

\* A failed send ends the loop too, and falls through to the EOF frame.
RReadData(c) ==
    /\ Running
    /\ r_task[c] = "run"
    /\ c \in Answering
    /\ tgt_sent[c] < MaxDown
    /\ tgt_sent' = [tgt_sent EXCEPT ![c] = @ + 1]
    /\ \/ /\ SrvSend(TcpFrame(task_ch[c], "DATA", c, tgt_sent[c] + 1))
          /\ UNCHANGED r_task
       \/ /\ SrvSendFails
          /\ r_task' = [r_task EXCEPT ![c] = "eof"]
    /\ UNCHANGED <<tcp_chans, taskVars, w_task, inbound, loopVars, tgt_got, tgt_eof>>

RReadEnd(c) ==
    /\ Running
    /\ r_task[c] = "run"
    /\ r_task' = [r_task EXCEPT ![c] = "eof"]
    /\ UNCHANGED <<tcp_chans, taskVars, w_task, inbound, srvOutVars, loopVars, tgtVars>>

\* A variant that returns at once when the target closes, without an EOF frame.
REndSilently(c) ==
    /\ Running
    /\ r_task[c] = "eof"
    /\ r_task' = [r_task EXCEPT ![c] = "done"]
    /\ UNCHANGED <<tcp_chans, taskVars, w_task, inbound, srvOutVars, loopVars, tgtVars>>

RSendEof(c) ==
    /\ Running
    /\ r_task[c] = "eof"
    /\ SrvSend(TcpFrame(task_ch[c], "EOF", c, 0)) \/ SrvSendFails
    /\ r_task' = [r_task EXCEPT ![c] = "done"]
    /\ UNCHANGED <<tcp_chans, taskVars, w_task, inbound, loopVars, tgtVars>>

\* After the join: removes whatever is registered under the id by now.
TaskRemove(c) ==
    /\ Running
    /\ task_pc[c] = "relay"
    /\ w_task[c] = "done"
    /\ r_task[c] = "done"
    /\ TcpChansUnlocked
    /\ tcp_chans' = [tcp_chans EXCEPT ![task_ch[c]] = NoConn]
    /\ task_pc' = [task_pc EXCEPT ![c] = "done"]
    /\ UNCHANGED <<task_ch, w_task, r_task, inbound, srvOutVars, loopVars, tgtVars>>
-----------------------------------------------------------------------------
(* Writer task *)

ServerWriter ==
    /\ Running
    /\ srv_writer = "run"
    /\ srv_out # <<>>
    /\ link = "up"
    /\ HasRoom(s2c, PipeCap)
    /\ s2c' = Append(s2c, Head(srv_out))
    /\ srv_out' = Tail(srv_out)
    /\ UNCHANGED <<c2s, link, srv_writer, tcp_chans, taskVars, w_task, r_task, inbound,
                   loopVars, tgtVars>>

ServerWriterFail ==
    /\ Running
    /\ srv_writer = "run"
    /\ srv_out # <<>>
    /\ link = "down"
    /\ srv_writer' = "dead"
    /\ srv_out' = <<>>
    /\ UNCHANGED <<linkVars, tcp_chans, taskVars, w_task, r_task, inbound, loopVars, tgtVars>>
-----------------------------------------------------------------------------
LoopStep == SConnect \/ SData \/ SDeliver \/ SClose \/ SPong \/ SStdinEof \/ SExit

\* Steps that read or write the pipe, and steps that leave it alone.
ServerPipe == LoopStep \/ ServerWriter \/ ServerWriterFail

ServerLocal ==
    \E c \in Conns :
       \/ ConnectOk(c) \/ ConnectFails(c) \/ SendStop(c) \/ FailRemove(c)
       \/ WWrite(c) \/ WFail(c) \/ WEnd(c)
       \/ RReadData(c) \/ RReadEnd(c) \/ RSendEof(c)
       \/ TaskRemove(c)

ServerTypeOK ==
    /\ tcp_chans \in [0 .. MaxId -> ConnOrNone]
    /\ task_pc \in [Conns -> {"none", "connecting", "failed", "removing", "relay", "done"}]
    /\ task_ch \in [Conns -> 0 .. MaxId]
    /\ w_task \in [Conns -> {"idle", "run", "done"}]
    /\ r_task \in [Conns -> {"idle", "run", "eof", "done"}]
    /\ inbound \in [Conns -> Seq(Chunk)]
    /\ srv_out \in Seq(Frame)
    /\ srv_writer \in {"run", "dead"}
    /\ srv_loop \in {"run", "draining", "exited"}
    /\ loop_held \in Seq(DataFrame)
    /\ Len(loop_held) <= 1
    /\ tgt_sent \in [Conns -> 0 .. MaxDown]
    /\ tgt_got \in [Conns -> Seq(Chunk)]
    /\ tgt_eof \in [Conns -> BOOLEAN]
    /\ Len(srv_out) <= OutCap
    /\ \A c \in Conns : Len(inbound[c]) <= InCap
=============================================================================
