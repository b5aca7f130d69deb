--------------------------- MODULE RushtleClient ---------------------------
(***************************************************************************)
(* The rushtle client's TCP path (client.rs): accept loops that allocate a *)
(* channel id and register the channel, handle_conn with its two halves    *)
(* (a: socket to tunnel, b: tunnel to socket), the writer task that owns   *)
(* the server's stdin and the demux task that owns the server's stdout.    *)
(* The applications behind the intercepted sockets are the environment.    *)
(***************************************************************************)
EXTENDS Ssnet

CONSTANTS
    MaxUp,      \* bound: chunks an application writes on one connection
    Asking,     \* connections whose application writes anything
    MaxQueries, \* bound: DNS queries of the session (none without --dns)
    MayReset    \* connections whose two peers may stop accepting data

VARIABLES
    next_id,    \* the shared channel id allocator
    ids,        \* ids[c]: the id allocated to c, 0 before it is accepted
    acceptor,   \* acceptor[l]: the connection l has numbered, not yet registered
    dns_ids,    \* ids the DNS task has taken from the same allocator
    channels,   \* channels[i]: whose in_tx the ChanMap holds under id i
    conn_pc,    \* progress of handle_conn
    a_task,     \* the half that reads the socket: "eof" is its last send
    b_task,     \* the half that writes the socket
    in_rx,      \* in_rx[c]: chunks queued for b
    out_tx,     \* the queue of the writer task
    writer,     \* the writer task
    demux,      \* the demux task
    demux_held, \* the DATA frame demux is delivering, with channels locked
    app_sent,   \* chunks the application wrote that a has read
    app_got,    \* chunks the application has received
    app_eof     \* the application's socket was shut down for writing

allocVars == <<next_id, ids, acceptor, dns_ids>>
outVars   == <<out_tx, writer>>
demuxVars == <<demux, demux_held>>
appVars   == <<app_sent, app_got, app_eof>>
clientVars ==
    <<allocVars, channels, conn_pc, a_task, b_task, in_rx, outVars, demuxVars, appVars>>

ClientInit ==
    /\ next_id = 1
    /\ ids = [c \in Conns |-> 0]
    /\ acceptor = [l \in Loops |-> NoConn]
    /\ dns_ids = 0
    /\ channels = [i \in 0 .. MaxId |-> NoConn]
    /\ conn_pc = [c \in Conns |-> "new"]
    /\ a_task = [c \in Conns |-> "idle"]
    /\ b_task = [c \in Conns |-> "idle"]
    /\ in_rx = [c \in Conns |-> <<>>]
    /\ out_tx = <<>>
    /\ writer = "run"
    /\ demux = "run"
    /\ demux_held = <<>>
    /\ app_sent = [c \in Conns |-> 0]
    /\ app_got = [c \in Conns |-> <<>>]
    /\ app_eof = [c \in Conns |-> FALSE]

\* A variant that reads the shared allocator again instead of keeping the id.
ChannelReread(c) == next_id - 1

\* The id that was moved into handle_conn and its tasks.
ChannelOf(c) == ids[c]

\* The receiver of in_rx[c] is owned by handle_conn, then by b.
InRxAlive(c) == conn_pc[c] = "opening" \/ b_task[c] = "run"

ChannelsUnlocked == demux_held = <<>>

\* A variant with an unbounded queue, which never waits for room.
SendOutUnbounded(f) ==
    /\ writer = "run"
    /\ out_tx' = Append(out_tx, f)
    /\ UNCHANGED writer

\* out_tx.send(f).await succeeds: the writer lives and the queue has room.
SendOut(f) ==
    /\ writer = "run"
    /\ HasRoom(out_tx, OutCap)
    /\ out_tx' = Append(out_tx, f)
    /\ UNCHANGED writer

\* out_tx.send(f).await fails: the writer dropped its receiver.
SendOutFails == writer = "dead" /\ UNCHANGED outVars
-----------------------------------------------------------------------------
(* Accept loops, and the other task that takes channel ids *)

AcceptConn(l, c) ==
    /\ acceptor[l] = NoConn
    /\ ids[c] = 0
    /\ ids' = [ids EXCEPT ![c] = next_id]
    /\ next_id' = NextId(next_id)
    /\ acceptor' = [acceptor EXCEPT ![l] = c]
    /\ UNCHANGED <<dns_ids, channels, conn_pc, a_task, b_task, in_rx, outVars, demuxVars,
                   appVars>>

\* insert replaces, and thereby drops, whatever sender was there under this id.
InsertChannel(l) ==
    LET c == acceptor[l] IN
    /\ c # NoConn
    /\ ChannelsUnlocked
    /\ channels' = [channels EXCEPT ![ids[c]] = c]
    /\ conn_pc' = [conn_pc EXCEPT ![c] = "opening"]
    /\ acceptor' = [acceptor EXCEPT ![l] = NoConn]
    /\ UNCHANGED <<next_id, ids, dns_ids, a_task, b_task, in_rx, outVars, demuxVars, appVars>>

(* The DNS task numbers a query.  Its frames and its table of askers are the
   subject of module Dns; here it only takes an id away from the connections. *)
DnsTakesId ==
    /\ dns_ids < MaxQueries
    /\ dns_ids' = dns_ids + 1
    /\ next_id' = NextId(next_id)
    /\ UNCHANGED <<ids, acceptor, channels, conn_pc, a_task, b_task, in_rx, outVars,
                   demuxVars, appVars>>
-----------------------------------------------------------------------------
(* handle_conn *)

SendConnect(c) ==
    /\ conn_pc[c] = "opening"
    /\ SendOut(TcpFrame(ChannelOf(c), "CONNECT", c, 0))
    /\ conn_pc' = [conn_pc EXCEPT ![c] = "open"]
    /\ a_task' = [a_task EXCEPT ![c] = "run"]
    /\ b_task' = [b_task EXCEPT ![c] = "run"]
    /\ UNCHANGED <<allocVars, channels, in_rx, demuxVars, appVars>>

\* The early return: the socket is closed, the channel stays registered.
ConnectNotSent(c) ==
    /\ conn_pc[c] = "opening"
    /\ SendOutFails
    /\ conn_pc' = [conn_pc EXCEPT ![c] = "failed"]
    /\ in_rx' = [in_rx EXCEPT ![c] = <<>>]
    /\ app_eof' = [app_eof EXCEPT ![c] = TRUE]
    /\ UNCHANGED <<allocVars, channels, a_task, b_task, demuxVars, app_sent, app_got>>

AReadData(c) ==
    /\ a_task[c] = "run"
    /\ c \in Asking
    /\ app_sent[c] < MaxUp
    /\ app_sent' = [app_sent EXCEPT ![c] = @ + 1]
    /\ \/ /\ SendOut(TcpFrame(ChannelOf(c), "DATA", c, app_sent[c] + 1))
          /\ UNCHANGED a_task
       \/ /\ SendOutFails
          /\ a_task' = [a_task EXCEPT ![c] = "done"]
    /\ UNCHANGED <<allocVars, channels, conn_pc, b_task, in_rx, demuxVars, app_got, app_eof>>

\* read returns 0 or an error: both end the loop, both are reported as EOF.
AReadEnd(c) ==
    /\ a_task[c] = "run"
    /\ a_task' = [a_task EXCEPT ![c] = "eof"]
    /\ UNCHANGED <<allocVars, channels, conn_pc, b_task, in_rx, outVars, demuxVars, appVars>>

\* A variant that ends without telling the server.
AEndSilently(c) ==
    /\ a_task[c] = "eof"
    /\ a_task' = [a_task EXCEPT ![c] = "done"]
    /\ UNCHANGED <<allocVars, channels, conn_pc, b_task, in_rx, outVars, demuxVars, appVars>>

ASendEof(c) ==
    /\ a_task[c] = "eof"
    /\ SendOut(TcpFrame(ChannelOf(c), "EOF", c, 0)) \/ SendOutFails
    /\ a_task' = [a_task EXCEPT ![c] = "done"]
    /\ UNCHANGED <<allocVars, channels, conn_pc, b_task, in_rx, demuxVars, appVars>>

BWrite(c) ==
    /\ b_task[c] = "run"
    /\ in_rx[c] # <<>>
    /\ app_got' = [app_got EXCEPT ![c] = Append(@, Head(in_rx[c]))]
    /\ in_rx' = [in_rx EXCEPT ![c] = Tail(@)]
    /\ UNCHANGED <<allocVars, channels, conn_pc, a_task, b_task, outVars, demuxVars,
                   app_sent, app_eof>>

\* write_all fails: b returns and drops the receiver with what it holds.
BWriteFail(c) ==
    /\ b_task[c] = "run"
    /\ c \in MayReset
    /\ in_rx[c] # <<>>
    /\ in_rx' = [in_rx EXCEPT ![c] = <<>>]
    /\ b_task' = [b_task EXCEPT ![c] = "done"]
    /\ UNCHANGED <<allocVars, channels, conn_pc, a_task, outVars, demuxVars, appVars>>

\* A variant that stops as soon as the sender is gone, whatever is queued.
BEndUndrained(c) ==
    /\ b_task[c] = "run"
    /\ channels[ids[c]] # c
    /\ b_task' = [b_task EXCEPT ![c] = "done"]
    /\ app_eof' = [app_eof EXCEPT ![c] = TRUE]
    /\ UNCHANGED <<allocVars, channels, conn_pc, a_task, in_rx, outVars, demuxVars,
                   app_sent, app_got>>

\* recv returns None: the queue is empty and its only sender is gone.
BEnd(c) ==
    /\ b_task[c] = "run"
    /\ in_rx[c] = <<>>
    /\ channels[ids[c]] # c
    /\ b_task' = [b_task EXCEPT ![c] = "done"]
    /\ app_eof' = [app_eof EXCEPT ![c] = TRUE]
    /\ UNCHANGED <<allocVars, channels, conn_pc, a_task, in_rx, outVars, demuxVars,
                   app_sent, app_got>>

\* After the join: removes whatever is registered under the id by now.
RemoveChannel(c) ==
    /\ conn_pc[c] = "open"
    /\ a_task[c] = "done"
    /\ b_task[c] = "done"
    /\ ChannelsUnlocked
    /\ channels' = [channels EXCEPT ![ids[c]] = NoConn]
    /\ conn_pc' = [conn_pc EXCEPT ![c] = "done"]
    /\ UNCHANGED <<allocVars, a_task, b_task, in_rx, outVars, demuxVars, appVars>>
-----------------------------------------------------------------------------
(* Writer task *)

ClientWriter ==
    /\ writer = "run"
    /\ out_tx # <<>>
    /\ link = "up"
    /\ HasRoom(c2s, PipeCap)
    /\ c2s' = Append(c2s, Head(out_tx))
    /\ out_tx' = Tail(out_tx)
    /\ UNCHANGED <<writer, s2c, link, allocVars, channels, conn_pc, a_task, b_task, in_rx,
                   demuxVars, appVars>>

\* The write fails: the task ends and its queue is dropped.
ClientWriterFail ==
    /\ writer = "run"
    /\ out_tx # <<>>
    /\ link = "down"
    /\ writer' = "dead"
    /\ out_tx' = <<>>
    /\ UNCHANGED <<linkVars, allocVars, channels, conn_pc, a_task, b_task, in_rx, demuxVars,
                   appVars>>
-----------------------------------------------------------------------------
(* Demux task *)

\* read_frame returns f, the next frame from the server.
DemuxReads(cmds) ==
    /\ demux = "run"
    /\ demux_held = <<>>
    /\ s2c # <<>>
    /\ Head(s2c).cmd \in cmds
    /\ s2c' = Tail(s2c)
    /\ UNCHANGED <<c2s, link, demux>>

DemuxPing ==
    /\ DemuxReads({"PING"})
    /\ SendOut([Head(s2c) EXCEPT !.cmd = "PONG"]) \/ SendOutFails
    /\ UNCHANGED <<demux_held, allocVars, channels, conn_pc, a_task, b_task, in_rx, appVars>>

\* The lock on channels is taken here and kept until the frame is delivered.
DemuxData ==
    /\ DemuxReads({"DATA"})
    /\ demux_held' =
         IF channels[Head(s2c).channel] # NoConn THEN <<Head(s2c)>> ELSE <<>>
    /\ UNCHANGED <<allocVars, channels, conn_pc, a_task, b_task, in_rx, outVars, appVars>>

\* tx.send(data).await: waits while the queue is full, fails if b is gone.
DemuxDeliver ==
    /\ demux_held # <<>>
    /\ LET f == Head(demux_held)
           c == channels[f.channel]
       IN  \/ /\ InRxAlive(c)
              /\ HasRoom(in_rx[c], InCap)
              /\ in_rx' = [in_rx EXCEPT ![c] = Append(@, ChunkOf(f))]
           \/ /\ ~InRxAlive(c)
              /\ UNCHANGED in_rx
    /\ demux_held' = <<>>
    /\ UNCHANGED <<linkVars, allocVars, channels, conn_pc, a_task, b_task, outVars, demux,
                   appVars>>

DemuxClose ==
    /\ DemuxReads({"EOF", "STOP"})
    /\ channels' = [channels EXCEPT ![Head(s2c).channel] = NoConn]
    /\ UNCHANGED <<demux_held, allocVars, conn_pc, a_task, b_task, in_rx, outVars, appVars>>

DemuxIgnore ==
    /\ DemuxReads({"PONG", "ROUTES"})
    /\ UNCHANGED <<demux_held, allocVars, channels, conn_pc, a_task, b_task, in_rx, outVars,
                   appVars>>

\* End of stream: the task ends, nobody is told, every channel stays.
DemuxEof ==
    /\ demux = "run"
    /\ demux_held = <<>>
    /\ s2c = <<>>
    /\ link = "down"
    /\ demux' = "done"
    /\ UNCHANGED <<linkVars, demux_held, allocVars, channels, conn_pc, a_task, b_task, in_rx,
                   outVars, appVars>>
-----------------------------------------------------------------------------
DemuxStep ==
    \/ DemuxPing \/ DemuxData \/ DemuxDeliver \/ DemuxClose \/ DemuxIgnore \/ DemuxEof

\* Steps that leave the pipe alone, and steps that read or write it.
ClientLocal ==
    \/ \E l \in Loops, c \in Conns : AcceptConn(l, c)
    \/ \E l \in Loops : InsertChannel(l)
    \/ DnsTakesId
    \/ \E c \in Conns :
         \/ SendConnect(c) \/ ConnectNotSent(c)
         \/ AReadData(c) \/ AReadEnd(c) \/ ASendEof(c)
         \/ BWrite(c) \/ BWriteFail(c) \/ BEnd(c)
         \/ RemoveChannel(c)

ClientPipe == ClientWriter \/ ClientWriterFail \/ DemuxStep

ClientTypeOK ==
    /\ next_id \in 1 .. MaxId
    /\ ids \in [Conns -> 0 .. MaxId]
    /\ acceptor \in [Loops -> ConnOrNone]
    /\ dns_ids \in 0 .. MaxQueries
    /\ channels \in [0 .. MaxId -> ConnOrNone]
    /\ conn_pc \in [Conns -> {"new", "opening", "open", "done", "failed"}]
    /\ a_task \in [Conns -> {"idle", "run", "eof", "done"}]
    /\ b_task \in [Conns -> {"idle", "run", "done"}]
    /\ in_rx \in [Conns -> Seq(Chunk)]
    /\ out_tx \in Seq(Frame)
    /\ writer \in {"run", "dead"}
    /\ demux \in {"run", "done"}
    /\ demux_held \in Seq(DataFrame)
    /\ Len(demux_held) <= 1
    /\ app_sent \in [Conns -> 0 .. MaxUp]
    /\ app_got \in [Conns -> Seq(Chunk)]
    /\ app_eof \in [Conns -> BOOLEAN]
    /\ Len(out_tx) <= OutCap
    /\ \A c \in Conns : Len(in_rx[c]) <= InCap
=============================================================================
