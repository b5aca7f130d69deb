------------------------------- MODULE Ssnet -------------------------------
(***************************************************************************)
(* The ssnet link between a rushtle client and a rushtle server: the       *)
(* frames, the channel ids and the two directions of the kubectl-exec      *)
(* stdio pipe.  A frame's payload is abstracted to the flow it belongs to  *)
(* (conn) and its position in that flow (n); both are ghosts, which the    *)
(* program never sees: it routes on the channel alone.                     *)
(***************************************************************************)
EXTENDS Naturals, Sequences, SequencesExt, ChannelIds

CONSTANTS
    Conns,      \* intercepted TCP connections (flows)
    NoConn,     \* "no connection"
    Loops,      \* the accept loops of the client: IPv4 and, with v6 subnets, IPv6
    OutCap,     \* capacity of an outbound frame queue (1024 in the code)
    InCap,      \* capacity of a per-channel inbound queue (64 in the code)
    PipeCap     \* frames the OS pipe, kubectl and the apiserver can hold

ASSUME SsnetAssumption ==
    /\ NoConn \notin Conns
    /\ OutCap \in Nat \ {0}
    /\ InCap \in Nat \ {0}
    /\ PipeCap \in Nat \ {0}

VARIABLES
    c2s,        \* frames written to the server's stdin, not yet read
    s2c,        \* frames written to the server's stdout, not yet read
    link        \* "up", or "down" once the kubectl-exec session is gone

linkVars == <<c2s, s2c, link>>

ConnOrNone == Conns \cup {NoConn}

TcpCmds == {"CONNECT", "DATA", "EOF", "STOP"}
CtlCmds == {"PING", "PONG", "ROUTES"}

Frame == [channel : 0 .. MaxId, cmd : TcpCmds, conn : Conns, n : Nat]
         \cup [channel : {0}, cmd : CtlCmds, conn : {NoConn}, n : {0}]

DataFrame == [channel : 0 .. MaxId, cmd : {"DATA"}, conn : Conns, n : Nat]

\* One chunk of the payload of a flow, as it travels through the queues.
Chunk == [conn : Conns, n : Nat]

TcpFrame(i, cmd, c, n) == [channel |-> i, cmd |-> cmd, conn |-> c, n |-> n]

CtlFrame(cmd) == [channel |-> 0, cmd |-> cmd, conn |-> NoConn, n |-> 0]

ChunkOf(f) == [conn |-> f.conn, n |-> f.n]

HasRoom(q, cap) == Len(q) < cap

LinkInit ==
    /\ c2s = <<>>
    /\ s2c = <<>>
    /\ link = "up"

(***************************************************************************)
(* The kubectl-exec session dies.  What was in flight in each direction is *)
(* cut off anywhere; a cut inside a frame ends the reader just like a cut  *)
(* between two (read_frame returns an error instead of None).              *)
(***************************************************************************)
LinkDown ==
    /\ link = "up"
    /\ link' = "down"
    /\ \E m \in 0 .. Len(c2s) : c2s' = SubSeq(c2s, 1, m)
    /\ \E m \in 0 .. Len(s2c) : s2c' = SubSeq(s2c, 1, m)

LinkTypeOK ==
    /\ c2s \in Seq(Frame)
    /\ s2c \in Seq(Frame)
    /\ link \in {"up", "down"}
    /\ Len(c2s) <= PipeCap
    /\ Len(s2c) <= PipeCap
=============================================================================
