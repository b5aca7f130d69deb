-------------------------------- MODULE Udp --------------------------------
(***************************************************************************)
(* General UDP on the server (server.rs run and spawn_udp_open).  A stock  *)
(* sshuttle client opens a channel, sends datagrams on it and closes it;   *)
(* each open binds a socket and starts two tasks, one that sends what the  *)
(* client sent and one that returns what the socket receives.  The rushtle *)
(* client never uses these frames.  A datagram is its number and whether   *)
(* its target reads as an address.                                         *)
(***************************************************************************)
EXTENDS Naturals, Sequences, SequencesExt, FiniteSets

CONSTANTS
    Chans,      \* channel ids the client uses for UDP
    Socks,      \* sockets, one for each UDP_OPEN
    None,       \* no socket, no channel
    Cap,        \* capacity of a channel's inbound queue (64 in the code)
    OutCap,     \* capacity of the outbound frame queue (1024 in the code)
    MaxData,    \* bound: datagrams the client sends
    MaxReplies, \* bound: datagrams the sockets receive
    MayReopen   \* BOOLEAN: the client may open a channel id a second time

ASSUME UdpAssumption ==
    /\ None \notin Socks \cup Chans
    /\ Cap \in Nat \ {0}
    /\ OutCap \in Nat \ {0}
    /\ {MaxData, MaxReplies} \subseteq Nat
    /\ MayReopen \in BOOLEAN

VARIABLES
    loop,       \* the frame loop: "run", "draining" after EOF, "exited"
    held,       \* the channel and datagram it is delivering, with udp_chans locked
    udp_chans,  \* the channel map
    chan,       \* the channel each socket was opened for
    inbound,    \* the queue of each socket
    sender,     \* task client -> target: "none", "run" or "done"
    receiver,   \* task target -> client: "none", "recv", "send", "check" or "done"
    out,        \* the outbound frame queue
    writer,     \* writer_task: "run", or "failed" after a write error
    data,       \* datagrams the client has sent so far
    replies,    \* datagrams the sockets have received so far
    sent,       \* the datagrams each socket has sent to their targets
    refused,    \* those for which send_to failed
    stale       \* frames each socket queued while not registered (ghost)

taskVars == <<inbound, sender, receiver>>
sentVars == <<sent, refused>>
vars == <<loop, held, udp_chans, chan, taskVars, out, writer, data, replies, sentVars, stale>>

(* The sender task reads "ip:port" as a socket address.  A name is none, nor is an
   IPv6 address, for want of brackets. *)
Datagram == [n : 1 .. MaxData, target : {"ipv4", "unreadable"}]

Init ==
    /\ loop = "run"
    /\ held = <<>>
    /\ udp_chans = [i \in Chans |-> None]
    /\ chan = [s \in Socks |-> None]
    /\ inbound = [s \in Socks |-> <<>>]
    /\ sender = [s \in Socks |-> "none"]
    /\ receiver = [s \in Socks |-> "none"]
    /\ out = <<>>
    /\ writer = "run"
    /\ data = 0
    /\ replies = 0
    /\ sent = [s \in Socks |-> {}]
    /\ refused = [s \in Socks |-> {}]
    /\ stale = [s \in Socks |-> 0]

Registered(s) == \E i \in Chans : udp_chans[i] = s

\* The map is locked while the loop waits for room in a queue.
Unlocked == held = <<>>

Ready == loop = "run" /\ Unlocked
-----------------------------------------------------------------------------
(* The frame loop *)

\* UDP_OPEN: an entry of the same channel is replaced, its tasks go on.  When
\* the socket cannot be bound nothing changes.
Open(i, s) ==
    /\ Ready
    /\ chan[s] = None
    /\ MayReopen \/ \A r \in Socks : chan[r] # i
    /\ chan' = [chan EXCEPT ![s] = i]
    /\ udp_chans' = [udp_chans EXCEPT ![i] = s]
    /\ sender' = [sender EXCEPT ![s] = "run"]
    /\ receiver' = [receiver EXCEPT ![s] = "recv"]
    /\ UNCHANGED <<loop, held, inbound, out, writer, data, replies, sentVars, stale>>

\* UDP_DATA: dropped when the channel is not open.
Data(i) ==
    /\ Ready
    /\ data < MaxData
    /\ data' = data + 1
    /\ \E d \in Datagram :
         /\ d.n = data'
         /\ held' = IF udp_chans[i] # None THEN <<i, d>> ELSE <<>>
    /\ UNCHANGED <<loop, udp_chans, chan, taskVars, out, writer, replies, sentVars, stale>>

\* A variant whose queue has no capacity.
DeliverUnbounded ==
    /\ held # <<>>
    /\ inbound' = [inbound EXCEPT ![udp_chans[held[1]]] = Append(@, held[2])]
    /\ held' = <<>>
    /\ UNCHANGED <<loop, udp_chans, chan, sender, receiver, out, writer, data, replies, sentVars, stale>>

Deliver ==
    /\ held # <<>>
    /\ LET s == udp_chans[held[1]] IN
       /\ Len(inbound[s]) < Cap
       /\ inbound' = [inbound EXCEPT ![s] = Append(@, held[2])]
    /\ held' = <<>>
    /\ UNCHANGED <<loop, udp_chans, chan, sender, receiver, out, writer, data, replies, sentVars, stale>>

\* UDP_CLOSE
Close(i) ==
    /\ Ready
    /\ udp_chans[i] # None
    /\ udp_chans' = [udp_chans EXCEPT ![i] = None]
    /\ UNCHANGED <<loop, held, chan, taskVars, out, writer, data, replies, sentVars, stale>>

StdinEof ==
    /\ Ready
    /\ loop' = "draining"
    /\ UNCHANGED <<held, udp_chans, chan, taskVars, out, writer, data, replies, sentVars, stale>>

\* run waits for writer_task, which ends after a write error, or once the queue
\* is empty and every task has dropped its out_tx.
Exit ==
    /\ loop = "draining"
    /\ \/ writer = "failed"
       \/ out = <<>> /\ \A s \in Socks : receiver[s] \in {"none", "done"}
    /\ loop' = "exited"
    /\ UNCHANGED <<held, udp_chans, chan, taskVars, out, writer, data, replies, sentVars, stale>>

Writer ==
    /\ writer = "run"
    /\ out # <<>>
    /\ out' = Tail(out)
    /\ UNCHANGED <<loop, held, udp_chans, chan, taskVars, writer, data, replies, sentVars, stale>>

WriterFails ==
    /\ writer = "run"
    /\ out # <<>>
    /\ writer' = "failed"
    /\ out' = <<>>
    /\ UNCHANGED <<loop, held, udp_chans, chan, taskVars, data, replies, sentVars, stale>>
-----------------------------------------------------------------------------
(* The two tasks of a socket *)

\* What becomes of d: a target that does not read as a socket address is skipped,
\* and so is a datagram send_to fails for; the task goes on with the next.
HandOver(s, d) ==
    \/ d.target = "unreadable" /\ UNCHANGED sentVars
    \/ d.target = "ipv4" /\ sent' = [sent EXCEPT ![s] = @ \cup {d.n}] /\ UNCHANGED refused
    \/ d.target = "ipv4" /\ refused' = [refused EXCEPT ![s] = @ \cup {d.n}] /\ UNCHANGED sent

\* A variant that looks its channel up in the map before it sends.
SendToTargetLocked(s) ==
    /\ sender[s] = "run" /\ loop # "exited"
    /\ Unlocked
    /\ inbound[s] # <<>>
    /\ HandOver(s, Head(inbound[s]))
    /\ inbound' = [inbound EXCEPT ![s] = Tail(@)]
    /\ UNCHANGED <<loop, held, udp_chans, chan, sender, receiver, out, writer, data, replies, stale>>

SendToTarget(s) ==
    /\ sender[s] = "run" /\ loop # "exited"
    /\ inbound[s] # <<>>
    /\ HandOver(s, Head(inbound[s]))
    /\ inbound' = [inbound EXCEPT ![s] = Tail(@)]
    /\ UNCHANGED <<loop, held, udp_chans, chan, sender, receiver, out, writer, data, replies, stale>>

\* A variant that ends as soon as its channel is closed.
SenderEndUndrained(s) ==
    /\ sender[s] = "run"
    /\ ~Registered(s)
    /\ sender' = [sender EXCEPT ![s] = "done"]
    /\ UNCHANGED <<loop, held, udp_chans, chan, inbound, receiver, out, writer, data, replies, sentVars, stale>>

\* recv() returns None once the queue is empty and its sender was dropped.
SenderEnd(s) ==
    /\ sender[s] = "run"
    /\ inbound[s] = <<>>
    /\ ~Registered(s)
    /\ sender' = [sender EXCEPT ![s] = "done"]
    /\ UNCHANGED <<loop, held, udp_chans, chan, inbound, receiver, out, writer, data, replies, sentVars, stale>>

Receive(s) ==
    /\ receiver[s] = "recv"
    /\ replies < MaxReplies
    /\ replies' = replies + 1
    /\ receiver' = [receiver EXCEPT ![s] = "send"]
    /\ UNCHANGED <<loop, held, udp_chans, chan, inbound, sender, out, writer, data, sentVars, stale>>

ReceiveFails(s) ==
    /\ receiver[s] = "recv"
    /\ receiver' = [receiver EXCEPT ![s] = "done"]
    /\ UNCHANGED <<loop, held, udp_chans, chan, inbound, sender, out, writer, data, replies, sentVars, stale>>

ReturnToClient(s) ==
    /\ receiver[s] = "send"
    /\ writer = "run" /\ Len(out) < OutCap
    /\ out' = Append(out, chan[s])
    /\ receiver' = [receiver EXCEPT ![s] = "check"]
    /\ stale' = [stale EXCEPT ![s] = IF Registered(s) THEN @ ELSE @ + 1]
    /\ UNCHANGED <<loop, held, udp_chans, chan, inbound, sender, writer, data, replies, sentVars>>

\* out_tx.send fails once writer_task has gone.
ReturnFails(s) ==
    /\ receiver[s] = "send"
    /\ writer = "failed"
    /\ receiver' = [receiver EXCEPT ![s] = "done"]
    /\ UNCHANGED <<loop, held, udp_chans, chan, inbound, sender, out, writer, data, replies, sentVars, stale>>

\* A variant that never looks whether its channel is still open.
NoCheck(s) ==
    /\ receiver[s] = "check"
    /\ receiver' = [receiver EXCEPT ![s] = "recv"]
    /\ UNCHANGED <<loop, held, udp_chans, chan, inbound, sender, out, writer, data, replies, sentVars, stale>>

\* contains_key(&channel): some socket is registered under the channel.
Check(s) ==
    /\ receiver[s] = "check"
    /\ Unlocked
    /\ receiver' = [receiver EXCEPT ![s] = IF udp_chans[chan[s]] # None THEN "recv" ELSE "done"]
    /\ UNCHANGED <<loop, held, udp_chans, chan, inbound, sender, out, writer, data, replies, sentVars, stale>>
-----------------------------------------------------------------------------
Next ==
    \/ \E i \in Chans, s \in Socks : Open(i, s)
    \/ \E i \in Chans : Data(i) \/ Close(i)
    \/ Deliver \/ StdinEof \/ Exit \/ Writer \/ WriterFails
    \/ \E s \in Socks :
         \/ SendToTarget(s) \/ SenderEnd(s)
         \/ Receive(s) \/ ReceiveFails(s) \/ ReturnToClient(s) \/ ReturnFails(s) \/ Check(s)

Spec == Init /\ [][Next]_vars

\* Every task that can go on does; nobody has to send a datagram.
FairSpec ==
    /\ Spec
    /\ WF_vars(Deliver)
    /\ WF_vars(Exit)
    /\ WF_vars(Writer \/ WriterFails)
    /\ \A s \in Socks :
         /\ WF_vars(SendToTarget(s) \/ SenderEnd(s))
         /\ WF_vars(ReturnToClient(s) \/ ReturnFails(s) \/ Check(s))
-----------------------------------------------------------------------------
\* Every variable has its type; each queue stays within its capacity.
UdpTypeOK ==
    /\ loop \in {"run", "draining", "exited"}
    /\ held = <<>> \/ held \in Chans \X Datagram
    /\ udp_chans \in [Chans -> Socks \cup {None}]
    /\ chan \in [Socks -> Chans \cup {None}]
    /\ inbound \in [Socks -> Seq(Datagram)]
    /\ \A s \in Socks : Len(inbound[s]) <= Cap
    /\ sender \in [Socks -> {"none", "run", "done"}]
    /\ receiver \in [Socks -> {"none", "recv", "send", "check", "done"}]
    /\ out \in Seq(Chans) /\ Len(out) <= OutCap
    /\ writer \in {"run", "failed"}
    /\ data \in 0 .. MaxData
    /\ replies \in 0 .. MaxReplies
    /\ {sent, refused} \subseteq [Socks -> SUBSET (1 .. MaxData)]
    /\ stale \in [Socks -> Nat]

\* "inbound: target -> client" looks for its channel only after a datagram: a
\* socket whose channel was closed returns at most one more datagram to the
\* client, as long as no channel is opened twice.
ClosedFallsSilent ==
    (\A r, s \in Socks : chan[r] # None /\ chan[r] = chan[s] => r = s)
        => \A s \in Socks : stale[s] <= 1

\* The frame loop keeps udp_chans locked while it waits for room in a queue;
\* that wait always ends, whatever the other tasks are doing.
LoopNeverStuck == held # <<>> ~> held = <<>>

\* What was queued before UDP_CLOSE, or before the channel was opened again, is
\* still sent to its target, unless the server process ends first, its target does
\* not read as an address or send_to fails for this very datagram: that an earlier
\* one could not be sent costs it nothing.
QueuedIsSent ==
    \A s \in Socks, n \in 1 .. MaxData :
        [n |-> n, target |-> "ipv4"] \in ToSet(inbound[s])
            ~> n \in sent[s] \cup refused[s] \/ loop = "exited"
=============================================================================
