------------------------------- MODULE UdpProofs -------------------------------
(* Theorems about Udp, for every value of its constants. *)
EXTENDS Udp, SequenceTheorems, TLAPS

(***************************************************************************)
(* The invariant.  Neither the types nor the silence of a closed channel   *)
(* is inductive: they rest on what the map, the sockets and the frame that *)
(* is being delivered say of each other.                                   *)
(***************************************************************************)
\* The datagram in hand is for a socket that is registered: udp_chans is locked.
HeldHasSocket == held # <<>> => udp_chans[held[1]] \in Socks

\* A socket with a task has a channel, and is registered under no other one.
OwnChannel ==
    /\ \A s \in Socks : receiver[s] # "none" => chan[s] # None
    /\ \A i \in Chans : udp_chans[i] \in Socks => chan[udp_chans[i]] = i

\* No two sockets were opened for one channel.
OpenedOnce == \A r, s \in Socks : chan[r] # None /\ chan[r] = chan[s] => r = s

\* A socket that has sent a frame too many has yet to look for its channel, which
\* is not there and will not be again, or has ended.
SpokeLast(s) ==
    /\ stale[s] = 1
    /\ chan[s] # None
    /\ ~Registered(s)
    /\ receiver[s] \in {"check", "done"}

SilenceInv == OpenedOnce => \A s \in Socks : stale[s] = 0 \/ SpokeLast(s)

UdpInv == UdpTypeOK /\ HeldHasSocket /\ OwnChannel /\ SilenceInv
-----------------------------------------------------------------------------
(***************************************************************************)
(* Types                                                                   *)
(***************************************************************************)
\* What the queue operations do to a typed queue.
LEMMA QueueLemma ==
    ASSUME NEW S, NEW q \in Seq(S)
    PROVE  /\ Len(q) \in Nat
           /\ \A e \in S : Append(q, e) \in Seq(S) /\ Len(Append(q, e)) = Len(q) + 1
           /\ q # <<>> => Head(q) \in S /\ Tail(q) \in Seq(S) /\ Len(Tail(q)) = Len(q) - 1
  OBVIOUS

\* What SendToTarget hands over has a number in range.
LEMMA HandOverType ==
    ASSUME UdpTypeOK, NEW s \in Socks, NEW d \in Datagram, HandOver(s, d)
    PROVE  {sent', refused'} \subseteq [Socks -> SUBSET (1 .. MaxData)]
  <1>1. d.n \in 1 .. MaxData
    BY DEF Datagram
  <1>2. sent \in [Socks -> SUBSET (1 .. MaxData)] /\ refused \in [Socks -> SUBSET (1 .. MaxData)]
    BY DEF UdpTypeOK
  <1>3. sent' = sent \/ sent' = [sent EXCEPT ![s] = @ \cup {d.n}]
    BY DEF HandOver, sentVars
  <1>4. refused' = refused \/ refused' = [refused EXCEPT ![s] = @ \cup {d.n}]
    BY DEF HandOver, sentVars
  <1>5. sent' \in [Socks -> SUBSET (1 .. MaxData)]
    BY ONLY <1>1, <1>2, <1>3
  <1>6. refused' \in [Socks -> SUBSET (1 .. MaxData)]
    BY ONLY <1>1, <1>2, <1>4
  <1>. QED
    BY <1>5, <1>6

\* The datagram in hand and the socket it is for.
LEMMA HeldLemma ==
    ASSUME UdpTypeOK, HeldHasSocket, held # <<>>
    PROVE  held[1] \in Chans /\ held[2] \in Datagram /\ udp_chans[held[1]] \in Socks
  BY DEF UdpTypeOK, HeldHasSocket

\* The first state has the types and the invariant.
LEMMA UdpInit ==
    Init => UdpInv
  <1>. SUFFICES ASSUME Init PROVE UdpInv
    OBVIOUS
  <1>1. UdpTypeOK
    BY UdpAssumption DEF Init, UdpTypeOK
  <1>. QED
    BY <1>1, UdpAssumption DEF Init, UdpInv, HeldHasSocket, OwnChannel, SilenceInv

\* One step of the loop or of a socket's tasks keeps the types.
LEMMA UdpTypeStep ==
    UdpTypeOK /\ HeldHasSocket /\ OwnChannel /\ [Next]_vars => UdpTypeOK'
  <1>. SUFFICES ASSUME UdpTypeOK, HeldHasSocket, OwnChannel, [Next]_vars PROVE UdpTypeOK'
    OBVIOUS
  <1>1. CASE UNCHANGED vars
    BY <1>1 DEF UdpTypeOK, vars, taskVars, sentVars
  <1>2. ASSUME NEW i \in Chans, NEW s \in Socks, Open(i, s) PROVE UdpTypeOK'
    BY <1>2 DEF Open, UdpTypeOK, sentVars
  <1>3. ASSUME NEW i \in Chans, Data(i) PROVE UdpTypeOK'
    <2>1. data' \in 0 .. MaxData /\ data' \in 1 .. MaxData
      BY <1>3, UdpAssumption DEF Data, UdpTypeOK
    <2>2. held' = <<>> \/ held' \in Chans \X Datagram
      BY <1>3, <2>1 DEF Data, Datagram
    <2>. QED
      BY <1>3, <2>1, <2>2 DEF Data, UdpTypeOK, taskVars, sentVars
  <1>4. ASSUME NEW i \in Chans, Close(i) PROVE UdpTypeOK'
    BY <1>4 DEF Close, UdpTypeOK, taskVars, sentVars
  <1>5. CASE Deliver
    <2>. DEFINE s == udp_chans[held[1]]
    <2>1. s \in Socks /\ held[2] \in Datagram
      BY <1>5, HeldLemma DEF Deliver
    <2>. HIDE DEF s
    <2>2. inbound' = [inbound EXCEPT ![s] = Append(inbound[s], held[2])] /\ Len(inbound[s]) < Cap
      BY <1>5 DEF Deliver, s
    <2>3. inbound \in [Socks -> Seq(Datagram)] /\ \A r \in Socks : Len(inbound[r]) <= Cap
      BY DEF UdpTypeOK
    <2>4. /\ Append(inbound[s], held[2]) \in Seq(Datagram)
          /\ Len(Append(inbound[s], held[2])) = Len(inbound[s]) + 1
          /\ Len(inbound[s]) \in Nat
      BY <2>1, <2>3, QueueLemma
    <2>5. inbound' \in [Socks -> Seq(Datagram)] /\ \A r \in Socks : Len(inbound'[r]) <= Cap
      BY <2>1, <2>2, <2>3, <2>4, UdpAssumption
    <2>. QED
      BY <1>5, <2>5 DEF Deliver, UdpTypeOK, sentVars
  <1>6. CASE StdinEof \/ Exit
    BY <1>6 DEF StdinEof, Exit, UdpTypeOK, taskVars, sentVars
  <1>7. CASE Writer \/ WriterFails
    <2>1. out \in Seq(Chans) /\ out # <<>> /\ Len(out) <= OutCap
      BY <1>7 DEF Writer, WriterFails, UdpTypeOK
    <2>2. Tail(out) \in Seq(Chans) /\ Len(Tail(out)) <= OutCap
      BY <2>1, QueueLemma, UdpAssumption
    <2>3. <<>> \in Seq(Chans) /\ Len(<<>>) <= OutCap
      BY UdpAssumption
    <2>4. out' \in Seq(Chans) /\ Len(out') <= OutCap /\ writer' \in {"run", "failed"}
      BY <1>7, <2>2, <2>3 DEF Writer, WriterFails, UdpTypeOK
    <2>. QED
      BY <1>7, <2>4 DEF Writer, WriterFails, UdpTypeOK, taskVars, sentVars
  <1>8. ASSUME NEW s \in Socks, SendToTarget(s) PROVE UdpTypeOK'
    <2>0. Head(inbound[s]) \in Datagram
      <3>1. inbound[s] \in Seq(Datagram) /\ inbound[s] # <<>>
        BY <1>8 DEF SendToTarget, UdpTypeOK
      <3>. QED
        BY <3>1, QueueLemma
    <2>1. {sent', refused'} \subseteq [Socks -> SUBSET (1 .. MaxData)]
      BY <1>8, <2>0, HandOverType DEF SendToTarget
    <2>2. Tail(inbound[s]) \in Seq(Datagram) /\ Len(Tail(inbound[s])) <= Cap
      <3>1. inbound[s] \in Seq(Datagram) /\ inbound[s] # <<>> /\ Len(inbound[s]) <= Cap
        BY <1>8 DEF SendToTarget, UdpTypeOK
      <3>. QED
        BY <3>1, QueueLemma, UdpAssumption
    <2>3. inbound' \in [Socks -> Seq(Datagram)] /\ \A r \in Socks : Len(inbound'[r]) <= Cap
      BY <1>8, <2>2 DEF SendToTarget, UdpTypeOK
    <2>. QED
      BY <1>8, <2>1, <2>3 DEF SendToTarget, UdpTypeOK
  <1>9. ASSUME NEW s \in Socks, SenderEnd(s) \/ Receive(s) \/ ReceiveFails(s) \/ ReturnFails(s) \/ Check(s)
        PROVE  UdpTypeOK'
    <2>1. CASE SenderEnd(s)
      BY <2>1 DEF SenderEnd, UdpTypeOK, sentVars
    <2>2. CASE Receive(s)
      BY <2>2, UdpAssumption DEF Receive, UdpTypeOK, sentVars
    <2>3. CASE ReceiveFails(s)
      BY <2>3 DEF ReceiveFails, UdpTypeOK, sentVars
    <2>4. CASE ReturnFails(s)
      BY <2>4 DEF ReturnFails, UdpTypeOK, sentVars
    <2>5. CASE Check(s)
      BY <2>5 DEF Check, UdpTypeOK, sentVars
    <2>. QED
      BY <1>9, <2>1, <2>2, <2>3, <2>4, <2>5
  <1>10. ASSUME NEW s \in Socks, ReturnToClient(s) PROVE UdpTypeOK'
    <2>1. chan[s] \in Chans
      BY <1>10 DEF ReturnToClient, OwnChannel, UdpTypeOK
    <2>2. out \in Seq(Chans) /\ Len(out) < OutCap /\ out' = Append(out, chan[s])
      BY <1>10 DEF ReturnToClient, UdpTypeOK, sentVars
    <2>3. out' \in Seq(Chans) /\ Len(out') <= OutCap
      BY <2>1, <2>2, QueueLemma, UdpAssumption
    <2>4. stale' \in [Socks -> Nat]
      BY <1>10 DEF ReturnToClient, UdpTypeOK, sentVars
    <2>. QED
      BY <1>10, <2>3, <2>4 DEF ReturnToClient, UdpTypeOK, sentVars
  <1>. QED
    BY <1>1, <1>2, <1>3, <1>4, <1>5, <1>6, <1>7, <1>8, <1>9, <1>10 DEF Next
-----------------------------------------------------------------------------
(***************************************************************************)
(* The map, the sockets and the datagram in hand                           *)
(***************************************************************************)
\* The steps that leave the map, the channels and the datagram in hand alone.
LEMMA MapUnchanged ==
    ASSUME NEW s \in Socks,
           \/ StdinEof \/ Exit \/ Writer \/ WriterFails
           \/ SendToTarget(s) \/ SenderEnd(s) \/ Receive(s) \/ ReceiveFails(s)
           \/ ReturnToClient(s) \/ ReturnFails(s) \/ Check(s)
    PROVE  UNCHANGED <<held, udp_chans, chan>>
  BY DEF StdinEof, Exit, Writer, WriterFails, SendToTarget, SenderEnd, Receive, ReceiveFails,
         ReturnToClient, ReturnFails, Check

\* No step of the tasks makes or unmakes a receiver.
LEMMA ReceiverStays ==
    ASSUME UdpTypeOK, NEW s \in Socks,
           \/ Deliver \/ StdinEof \/ Exit \/ Writer \/ WriterFails
           \/ SendToTarget(s) \/ SenderEnd(s) \/ Receive(s) \/ ReceiveFails(s)
           \/ ReturnToClient(s) \/ ReturnFails(s) \/ Check(s)
    PROVE  \A r \in Socks : receiver'[r] # "none" => receiver[r] # "none"
  BY DEF UdpTypeOK, Deliver, StdinEof, Exit, Writer, WriterFails, SendToTarget, SenderEnd, Receive,
         ReceiveFails, ReturnToClient, ReturnFails, Check, taskVars

\* A step that leaves the map alone keeps what it says of the sockets.
LEMMA MapKept ==
    ASSUME OwnChannel, UNCHANGED <<udp_chans, chan>>,
           \A r \in Socks : receiver'[r] # "none" => receiver[r] # "none"
    PROVE  OwnChannel'
  BY DEF OwnChannel

\* Each step keeps the datagram in hand deliverable and the map right.
LEMMA UdpMapStep ==
    UdpTypeOK /\ HeldHasSocket /\ OwnChannel /\ [Next]_vars => HeldHasSocket' /\ OwnChannel'
  <1>. SUFFICES ASSUME UdpTypeOK, HeldHasSocket, OwnChannel, [Next]_vars
                PROVE  HeldHasSocket' /\ OwnChannel'
    OBVIOUS
  <1>1. CASE UNCHANGED vars
    BY <1>1 DEF HeldHasSocket, OwnChannel, vars, taskVars
  <1>2. ASSUME NEW i \in Chans, NEW s \in Socks, Open(i, s) PROVE HeldHasSocket' /\ OwnChannel'
    <2>1. held' = <<>>
      BY <1>2 DEF Open, Ready, Unlocked
    <2>2. \A r \in Socks : receiver'[r] # "none" => chan'[r] # None
      BY <1>2, UdpAssumption DEF Open, UdpTypeOK, OwnChannel
    <2>3. ASSUME NEW j \in Chans, udp_chans'[j] \in Socks PROVE chan'[udp_chans'[j]] = j
      <3>1. CASE j = i
        BY <1>2, <3>1 DEF Open, UdpTypeOK
      <3>2. CASE j # i
        <4>1. udp_chans'[j] = udp_chans[j] /\ chan[udp_chans[j]] = j
          BY <1>2, <2>3, <3>2 DEF Open, UdpTypeOK, OwnChannel
        <4>2. udp_chans[j] # s
          BY <1>2, <4>1, UdpAssumption DEF Open
        <4>. QED
          BY <1>2, <4>1, <4>2 DEF Open, UdpTypeOK
      <3>. QED
        BY <3>1, <3>2
    <2>. QED
      BY <2>1, <2>2, <2>3 DEF HeldHasSocket, OwnChannel
  <1>3. ASSUME NEW i \in Chans, Data(i) PROVE HeldHasSocket' /\ OwnChannel'
    <2>1. held' # <<>> => held'[1] = i /\ udp_chans[i] # None
      BY <1>3 DEF Data
    <2>2. UNCHANGED <<udp_chans, chan, receiver>>
      BY <1>3 DEF Data, taskVars
    <2>. QED
      BY <2>1, <2>2 DEF HeldHasSocket, OwnChannel, UdpTypeOK
  <1>4. ASSUME NEW i \in Chans, Close(i) PROVE HeldHasSocket' /\ OwnChannel'
    <2>1. held' = <<>> /\ UNCHANGED <<chan, receiver>>
      BY <1>4 DEF Close, Ready, Unlocked, taskVars
    <2>2. \A j \in Chans : udp_chans'[j] \in Socks => udp_chans'[j] = udp_chans[j]
      BY <1>4, UdpAssumption DEF Close, UdpTypeOK
    <2>. QED
      BY <2>1, <2>2 DEF HeldHasSocket, OwnChannel
  <1>5. CASE Deliver
    <2>1. held' = <<>> /\ UNCHANGED <<udp_chans, chan, receiver>>
      BY <1>5 DEF Deliver
    <2>. QED
      BY <2>1 DEF HeldHasSocket, OwnChannel
  <1>6. CASE StdinEof \/ Exit \/ Writer \/ WriterFails
    <2>1. UNCHANGED <<held, udp_chans, chan, receiver>>
      BY <1>6 DEF StdinEof, Exit, Writer, WriterFails, taskVars
    <2>. QED
      BY <2>1 DEF HeldHasSocket, OwnChannel
  <1>7. ASSUME NEW s \in Socks,
               \/ SendToTarget(s) \/ SenderEnd(s) \/ Receive(s) \/ ReceiveFails(s)
               \/ ReturnToClient(s) \/ ReturnFails(s) \/ Check(s)
        PROVE  HeldHasSocket' /\ OwnChannel'
    <2>1. UNCHANGED <<held, udp_chans, chan>>
      BY <1>7, MapUnchanged
    <2>2. OwnChannel'
      BY <1>7, <2>1, ReceiverStays, MapKept
    <2>. QED
      BY <2>1, <2>2 DEF HeldHasSocket
  <1>. QED
    BY <1>1, <1>2, <1>3, <1>4, <1>5, <1>6, <1>7 DEF Next
-----------------------------------------------------------------------------
(***************************************************************************)
(* Silence                                                                 *)
(***************************************************************************)
\* A channel, once given to a socket, stays with it.
LEMMA ChannelsAreKept ==
    ASSUME UdpTypeOK, [Next]_vars
    PROVE  \A s \in Socks : chan[s] # None => chan'[s] = chan[s]
  <1>1. CASE \E i \in Chans, s \in Socks : Open(i, s)
    BY <1>1 DEF Open, UdpTypeOK
  <1>2. CASE UNCHANGED chan
    BY <1>2
  <1>. QED
    BY <1>1, <1>2 DEF Next, vars, Data, Close, Deliver, StdinEof, Exit, Writer, WriterFails,
       SendToTarget, SenderEnd, Receive, ReceiveFails, ReturnToClient, ReturnFails, Check

\* Two sockets that share a channel share it for ever.
LEMMA SharingStays ==
    ASSUME UdpTypeOK, [Next]_vars, OpenedOnce'
    PROVE  OpenedOnce
  BY ChannelsAreKept DEF OpenedOnce

\* A socket that has a channel and is not registered will not be registered again.
LEMMA NeverRegisteredAgain ==
    ASSUME UdpTypeOK, [Next]_vars, NEW s \in Socks, chan[s] # None, ~ Registered(s)
    PROVE  ~ Registered(s)'
  <1>1. ASSUME NEW i \in Chans, NEW r \in Socks, Open(i, r) PROVE ~ Registered(s)'
    <2>1. r # s
      BY <1>1 DEF Open
    <2>2. \A j \in Chans : udp_chans'[j] \in {udp_chans[j], r}
      BY <1>1 DEF Open, UdpTypeOK
    <2>. QED
      BY <2>1, <2>2 DEF Registered
  <1>2. ASSUME NEW i \in Chans, Close(i) PROVE ~ Registered(s)'
    <2>1. \A j \in Chans : udp_chans'[j] \in {udp_chans[j], None}
      BY <1>2 DEF Close, UdpTypeOK
    <2>. QED
      BY <2>1, UdpAssumption DEF Registered
  <1>3. CASE UNCHANGED udp_chans
    BY <1>3 DEF Registered
  <1>. QED
    BY <1>1, <1>2, <1>3 DEF Next, vars, Data, Deliver, StdinEof, Exit, Writer, WriterFails,
       SendToTarget, SenderEnd, Receive, ReceiveFails, ReturnToClient, ReturnFails, Check

\* Only a socket's own steps, and its opening, touch its receiver and its count.
LEMMA OthersAlone ==
    ASSUME UdpTypeOK, [Next]_vars, NEW s \in Socks,
           ~ \E i \in Chans : Open(i, s),
           ~ (Receive(s) \/ ReceiveFails(s) \/ ReturnToClient(s) \/ ReturnFails(s) \/ Check(s))
    PROVE  receiver'[s] = receiver[s] /\ stale'[s] = stale[s]
  <1>1. ASSUME NEW i \in Chans, NEW r \in Socks, Open(i, r)
        PROVE  receiver'[s] = receiver[s] /\ stale'[s] = stale[s]
    BY <1>1 DEF Open, UdpTypeOK
  <1>2. ASSUME NEW r \in Socks,
               Receive(r) \/ ReceiveFails(r) \/ ReturnToClient(r) \/ ReturnFails(r) \/ Check(r)
        PROVE  receiver'[s] = receiver[s] /\ stale'[s] = stale[s]
    <2>1. r # s
      BY <1>2
    <2>. QED
      BY <1>2, <2>1 DEF Receive, ReceiveFails, ReturnToClient, ReturnFails, Check, UdpTypeOK
  <1>3. CASE UNCHANGED <<receiver, stale>>
    BY <1>3
  <1>. QED
    BY <1>1, <1>2, <1>3 DEF Next, vars, taskVars, Data, Close, Deliver, StdinEof, Exit, Writer,
       WriterFails, SendToTarget, SenderEnd

\* Each step keeps closed channels silent.
LEMMA SilenceStep ==
    UdpInv /\ [Next]_vars => SilenceInv'
  <1>. SUFFICES ASSUME UdpInv, [Next]_vars, OpenedOnce', NEW s \in Socks
                PROVE  stale'[s] = 0 \/ SpokeLast(s)'
    BY DEF SilenceInv
  <1>. USE DEF UdpInv
  <1>1. OpenedOnce /\ (stale[s] = 0 \/ SpokeLast(s))
    BY SharingStays DEF SilenceInv
  <1>2. chan[s] # None => chan'[s] = chan[s]
    BY ChannelsAreKept
  <1>3. ASSUME NEW i \in Chans, Open(i, s) PROVE stale'[s] = 0
    <2>1. stale'[s] = stale[s] /\ chan[s] = None
      BY <1>3 DEF Open
    <2>. QED
      BY <1>1, <2>1 DEF SpokeLast
  <1>4. CASE Receive(s) \/ ReceiveFails(s) \/ ReturnFails(s)
    <2>1. receiver[s] \in {"recv", "send"} /\ stale'[s] = stale[s]
      BY <1>4 DEF Receive, ReceiveFails, ReturnFails
    <2>. QED
      BY <1>1, <2>1 DEF SpokeLast
  <1>5. CASE ReturnToClient(s)
    <2>1. receiver[s] = "send" /\ chan[s] # None
      BY <1>5 DEF ReturnToClient, OwnChannel
    <2>2. stale[s] = 0
      BY <1>1, <2>1 DEF SpokeLast
    <2>3. receiver'[s] = "check"
      BY <1>5 DEF ReturnToClient, UdpTypeOK
    <2>4. CASE Registered(s)
      <3>1. stale'[s] = stale[s]
        BY <1>5, <2>4 DEF ReturnToClient, UdpTypeOK
      <3>. QED
        BY <2>2, <3>1
    <2>5. CASE ~ Registered(s)
      <3>1. stale'[s] = stale[s] + 1
        BY <1>5, <2>5 DEF ReturnToClient, UdpTypeOK
      <3>2. ~ Registered(s)'
        BY <2>1, <2>5, NeverRegisteredAgain
      <3>3. chan'[s] # None
        BY <1>2, <2>1
      <3>. QED
        BY <2>2, <2>3, <3>1, <3>2, <3>3 DEF SpokeLast
    <2>. QED
      BY <2>4, <2>5
  <1>6. CASE Check(s)
    <2>1. stale'[s] = stale[s]
      BY <1>6 DEF Check
    <2>2. CASE stale[s] = 0
      BY <2>1, <2>2
    <2>3. CASE SpokeLast(s)
      <3>1. chan[s] \in Chans
        BY <2>3 DEF SpokeLast, UdpTypeOK
      <3>2. udp_chans[chan[s]] = None
        <4>1. SUFFICES ASSUME udp_chans[chan[s]] # None PROVE FALSE
          OBVIOUS
        <4>. DEFINE r == udp_chans[chan[s]]
        <4>2. r \in Socks
          BY <3>1, <4>1 DEF UdpTypeOK
        <4>3. chan[r] = chan[s]
          BY <3>1, <4>2 DEF OwnChannel
        <4>4. r = s
          BY <1>1, <2>3, <4>2, <4>3 DEF OpenedOnce, SpokeLast
        <4>. QED
          BY <2>3, <3>1, <4>4 DEF SpokeLast, Registered
      <3>3. receiver'[s] = "done"
        BY <1>6, <3>2 DEF Check, UdpTypeOK
      <3>4. ~ Registered(s)'
        BY <2>3, NeverRegisteredAgain DEF SpokeLast
      <3>. QED
        BY <1>2, <2>1, <2>3, <3>3, <3>4 DEF SpokeLast
    <2>. QED
      BY <1>1, <2>2, <2>3
  <1>7. CASE /\ ~ \E i \in Chans : Open(i, s)
             /\ ~ (Receive(s) \/ ReceiveFails(s) \/ ReturnToClient(s) \/ ReturnFails(s) \/ Check(s))
    <2>1. receiver'[s] = receiver[s] /\ stale'[s] = stale[s]
      BY <1>7, OthersAlone
    <2>2. SpokeLast(s) => ~ Registered(s)' /\ chan'[s] # None
      BY <1>2, NeverRegisteredAgain DEF SpokeLast
    <2>. QED
      BY <1>1, <2>1, <2>2 DEF SpokeLast
  <1>. QED
    BY <1>3, <1>4, <1>5, <1>6, <1>7
-----------------------------------------------------------------------------
\* The invariant is inductive.
LEMMA UdpInvStep ==
    UdpInv /\ [Next]_vars => UdpInv'
  BY UdpTypeStep, UdpMapStep, SilenceStep DEF UdpInv

\* Every variable of the UDP service always has its type, and no queue outgrows
\* its capacity, whatever channels the client opens, reopens and closes.
THEOREM UdpTypeCorrect ==
    Spec => []UdpTypeOK
  BY UdpInit, UdpInvStep, PTL DEF Spec, UdpInv

\* A socket returns at most one datagram after its channel was closed, as long as
\* no channel is opened twice: in general one is on its way when the entry goes,
\* and the look at the map that follows it is the last.
THEOREM ClosedChannelsFallSilent ==
    Spec => []ClosedFallsSilent
  <1>1. UdpInv => ClosedFallsSilent
    BY DEF UdpInv, SilenceInv, OpenedOnce, SpokeLast, ClosedFallsSilent
  <1>. QED
    BY <1>1, UdpInit, UdpInvStep, PTL DEF Spec
===============================================================================
