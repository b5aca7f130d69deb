------------------------------ MODULE DnsProofs ------------------------------
(* Theorems about Dns, for every value of its constants. *)
EXTENDS Dns, TLAPS

(***************************************************************************)
(* What the queue operations do to a sequence, element by element.         *)
(***************************************************************************)
SeqOps(S) ==
    /\ <<>> \in Seq(S) /\ Len(<<>>) = 0
    /\ \A s \in Seq(S) :
         /\ Len(s) \in Nat /\ DOMAIN s = 1 .. Len(s)
         /\ \A k \in 1 .. Len(s) : s[k] \in S
         /\ \A e \in S :
              /\ Append(s, e) \in Seq(S) /\ Len(Append(s, e)) = Len(s) + 1
              /\ \A k \in 1 .. Len(s) : Append(s, e)[k] = s[k]
              /\ Append(s, e)[Len(s) + 1] = e
         /\ s # <<>> =>
              /\ Len(s) >= 1 /\ Head(s) = s[1]
              /\ Tail(s) \in Seq(S) /\ Len(Tail(s)) = Len(s) - 1
              /\ \A k \in 1 .. Len(s) - 1 : Tail(s)[k] = s[k + 1]
         /\ \A m \in 0 .. Len(s) :
              /\ SubSeq(s, 1, m) \in Seq(S) /\ Len(SubSeq(s, 1, m)) = m
              /\ \A k \in 1 .. m : SubSeq(s, 1, m)[k] = s[k]

\* Every set of frames has these operations.
LEMMA SeqLemma ==
    ASSUME NEW S
    PROVE  SeqOps(S)
  BY DEF SeqOps

\* The allocator gives ids from 1 to MaxId.
LEMMA NextIdType ==
    ASSUME NEW i \in 1 .. MaxId
    PROVE  NextId(i) \in 1 .. MaxId
  BY MaxIdAssumption DEF NextId

\* The record of a server task, field by field.
LEMMA TaskLemma ==
    ASSUME NEW t \in SrvTask
    PROVE  /\ t = [pc |-> t.pc, channel |-> t.channel, ns |-> t.ns, reply |-> t.reply]
           /\ t.pc \in {"none", "asking", "replying", "done"}
           /\ t.channel \in 0 .. MaxId /\ t.ns \in Nat /\ t.reply \in QueryOrNone
  BY DEF SrvTask

\* What an EXCEPT leaves of the record of a server task.
LEMMA TaskExcept ==
    ASSUME NEW t \in SrvTask, NEW x
    PROVE  /\ [t EXCEPT !.pc = x] = [pc |-> x, channel |-> t.channel, ns |-> t.ns, reply |-> t.reply]
           /\ [t EXCEPT !.ns = x] = [pc |-> t.pc, channel |-> t.channel, ns |-> x, reply |-> t.reply]
           /\ [t EXCEPT !.reply = x] = [pc |-> t.pc, channel |-> t.channel, ns |-> t.ns, reply |-> x]
  <1>1. \A a, b, c, d :
          /\ [[pc |-> a, channel |-> b, ns |-> c, reply |-> d] EXCEPT !.pc = x]
               = [pc |-> x, channel |-> b, ns |-> c, reply |-> d]
          /\ [[pc |-> a, channel |-> b, ns |-> c, reply |-> d] EXCEPT !.ns = x]
               = [pc |-> a, channel |-> b, ns |-> x, reply |-> d]
          /\ [[pc |-> a, channel |-> b, ns |-> c, reply |-> d] EXCEPT !.reply = x]
               = [pc |-> a, channel |-> b, ns |-> c, reply |-> x]
    OBVIOUS
  <1>2. t = [pc |-> t.pc, channel |-> t.channel, ns |-> t.ns, reply |-> t.reply]
    BY TaskLemma
  <1>. DEFINE a == t.pc  b == t.channel  c == t.ns  d == t.reply
  <1>3. t = [pc |-> a, channel |-> b, ns |-> c, reply |-> d]
    BY <1>2
  <1>. HIDE DEF a, b, c, d
  <1>4. /\ [t EXCEPT !.pc = x] = [pc |-> x, channel |-> b, ns |-> c, reply |-> d]
        /\ [t EXCEPT !.ns = x] = [pc |-> a, channel |-> b, ns |-> x, reply |-> d]
        /\ [t EXCEPT !.reply = x] = [pc |-> a, channel |-> b, ns |-> c, reply |-> x]
    BY <1>1, <1>3
  <1>. QED
    BY <1>4 DEF a, b, c, d

\* A step of a server task leaves the other tasks alone, and of its own record
\* everything the step does not name.
Becomes(q, t) ==
    /\ t \in SrvTask
    /\ srv' \in [Queries -> SrvTask]
    /\ srv'[q] = t
    /\ \A r \in Queries \ {q} : srv'[r] = srv[r]

\* An answered task: its reply answers its own query.
LEMMA AnswerLemma ==
    ASSUME srv \in [Queries -> SrvTask], NEW q \in Queries, ResolverAnswers(q)
    PROVE  Becomes(q, [pc |-> "replying", channel |-> srv[q].channel,
                       ns |-> srv[q].ns, reply |-> q])
  <1>. DEFINE t == srv[q]
              u == [t EXCEPT !.reply = q]
              v == [u EXCEPT !.pc = "replying"]
  <1>1. t \in SrvTask
    OBVIOUS
  <1>2. u = [pc |-> t.pc, channel |-> t.channel, ns |-> t.ns, reply |-> q]
    BY <1>1, TaskExcept
  <1>3. u \in SrvTask
    BY <1>1, <1>2, TaskLemma DEF SrvTask, QueryOrNone
  <1>4. v = [pc |-> "replying", channel |-> u.channel, ns |-> u.ns, reply |-> u.reply]
    BY <1>3, TaskExcept
  <1>5. srv' = [srv EXCEPT ![q] = v]
    BY DEF ResolverAnswers
  <1>6. v = [pc |-> "replying", channel |-> t.channel, ns |-> t.ns, reply |-> q]
    <2>. HIDE DEF t, u, v
    <2>. QED
      BY <1>2, <1>4
  <1>7. v \in SrvTask
    <2>. HIDE DEF t, u, v
    <2>. QED
      BY <1>1, <1>6, TaskLemma DEF SrvTask, QueryOrNone
  <1>8. Becomes(q, v)
    <2>. HIDE DEF v
    <2>. QED
      BY <1>5, <1>7 DEF Becomes
  <1>. QED
    <2>. HIDE DEF v
    <2>. QED
      BY <1>6, <1>8

\* A task whose resolver failed asks the next one, or replies with what it has.
LEMMA FailLemma ==
    ASSUME srv \in [Queries -> SrvTask], NEW q \in Queries, ResolverFails(q),
           srv[q].ns <= Resolvers, Resolvers \in Nat
    PROVE  \E p \in {"asking", "replying"}, n \in Nat :
             /\ n <= Resolvers
             /\ Becomes(q, [pc |-> p, channel |-> srv[q].channel, ns |-> n, reply |-> srv[q].reply])
  <1>. DEFINE t == srv[q]
              a == [t EXCEPT !.ns = t.ns + 1]
              b == [t EXCEPT !.pc = "replying"]
  <1>1. t \in SrvTask /\ t.ns \in Nat
    BY TaskLemma
  <1>2. CASE t.ns < Resolvers
    <2>1. a = [pc |-> t.pc, channel |-> t.channel, ns |-> t.ns + 1, reply |-> t.reply]
      BY <1>1, TaskExcept
    <2>2. srv' = [srv EXCEPT ![q] = a] /\ t.pc = "asking"
      BY <1>2 DEF ResolverFails
    <2>3. a \in SrvTask
      <3>. HIDE DEF t, a
      <3>. QED
        BY <1>1, <2>1, TaskLemma DEF SrvTask
    <2>4. Becomes(q, a)
      <3>. HIDE DEF a
      <3>. QED
        BY <2>2, <2>3 DEF Becomes
    <2>5. t.ns + 1 \in Nat /\ t.ns + 1 <= Resolvers
      BY <1>1, <1>2
    <2>. QED
      <3>. HIDE DEF a
      <3>. QED
        BY <2>1, <2>2, <2>4, <2>5
  <1>3. CASE ~ (t.ns < Resolvers)
    <2>1. b = [pc |-> "replying", channel |-> t.channel, ns |-> t.ns, reply |-> t.reply]
      BY <1>1, TaskExcept
    <2>2. srv' = [srv EXCEPT ![q] = b]
      BY <1>3 DEF ResolverFails
    <2>3. b \in SrvTask
      <3>. HIDE DEF t, b
      <3>. QED
        BY <1>1, <2>1, TaskLemma DEF SrvTask
    <2>4. Becomes(q, b)
      <3>. HIDE DEF b
      <3>. QED
        BY <2>2, <2>3 DEF Becomes
    <2>. QED
      <3>. HIDE DEF b
      <3>. QED
        BY <1>1, <2>1, <2>4
  <1>. QED
    BY <1>2, <1>3

\* A task that has sent its response is done.
LEMMA RespondLemma ==
    ASSUME srv \in [Queries -> SrvTask], NEW q \in Queries, Respond(q)
    PROVE  Becomes(q, [pc |-> "done", channel |-> srv[q].channel,
                       ns |-> srv[q].ns, reply |-> srv[q].reply])
  <1>. DEFINE t == srv[q]
              b == [t EXCEPT !.pc = "done"]
  <1>1. t \in SrvTask
    OBVIOUS
  <1>2. b = [pc |-> "done", channel |-> t.channel, ns |-> t.ns, reply |-> t.reply]
    BY <1>1, TaskExcept
  <1>3. srv' = [srv EXCEPT ![q] = b]
    BY DEF Respond
  <1>4. b \in SrvTask
    <2>. HIDE DEF t, b
    <2>. QED
      BY <1>1, <1>2, TaskLemma DEF SrvTask
  <1>5. Becomes(q, b)
    <2>. HIDE DEF b
    <2>. QED
      BY <1>3, <1>4 DEF Becomes
  <1>. QED
    <2>. HIDE DEF b
    <2>. QED
      BY <1>2, <1>5

\* The task of the first request on its way up, on that request's channel.
LEMMA SpawnLemma ==
    ASSUME srv \in [Queries -> SrvTask], up \in Seq(Request), SpawnDns
    PROVE  /\ up # <<>> /\ Head(up) \in Request
           /\ Becomes(Head(up).query, [pc |-> "asking", channel |-> Head(up).channel,
                                       ns |-> 1, reply |-> None])
  <1>. DEFINE t == [pc |-> "asking", channel |-> Head(up).channel, ns |-> 1, reply |-> None]
  <1>1. up # <<>> /\ Head(up) \in Request
    BY SeqLemma DEF SeqOps, SpawnDns
  <1>2. Head(up).query \in Queries /\ Head(up).channel \in 0 .. MaxId
    BY <1>1, MaxIdAssumption DEF Request
  <1>3. t \in SrvTask
    BY <1>2 DEF SrvTask, QueryOrNone
  <1>4. srv' = [srv EXCEPT ![Head(up).query] = t]
    BY DEF SpawnDns
  <1>. HIDE DEF t
  <1>5. Becomes(Head(up).query, t)
    BY <1>2, <1>3, <1>4 DEF Becomes
  <1>. QED
    BY <1>1, <1>5 DEF t
-----------------------------------------------------------------------------
(* Type correctness *)

\* Initially every variable has its type.
LEMMA TypeInit == Init => DnsTypeOK
  BY SeqLemma, MaxIdAssumption, DnsAssumption
  DEF SeqOps, Init, DnsTypeOK, QueryOrNone, SrvTask, Resolvers

\* The part of the types that is about the server tasks.
TasksOK ==
    /\ srv \in [Queries -> SrvTask]
    /\ \A q \in Queries : srv[q].ns <= Resolvers /\ (srv[q].pc # "none" => srv[q].channel # 0)

\* A step of a server task keeps the type of all of them.
LEMMA TasksType ==
    ASSUME DnsTypeOK, NEW q \in Queries, NEW t, Becomes(q, t), t.ns \in Nat, t.ns <= Resolvers,
           t.channel # 0, UNCHANGED listed
    PROVE  TasksOK'
  BY DEF DnsTypeOK, Becomes, Resolvers, TasksOK

\* The response a task queues.
LEMMA PushLemma ==
    ASSUME DnsTypeOK, NEW q \in Queries, Respond(q)
    PROVE  /\ [channel |-> srv[q].channel, reply |-> srv[q].reply, query |-> q] \in Response
           /\ down' \in Seq(Response)
  <1>1. srv[q] \in SrvTask /\ srv[q].channel \in 1 .. MaxId
    BY TaskLemma DEF DnsTypeOK, Respond
  <1>2. [channel |-> srv[q].channel, reply |-> srv[q].reply, query |-> q] \in Response
    BY <1>1, TaskLemma DEF Response
  <1>. QED
    BY <1>2, SeqLemma DEF Respond, SeqOps, DnsTypeOK

\* Every step keeps the types.
LEMMA TypeStep ==
    ASSUME DnsTypeOK, [Next]_vars
    PROVE  DnsTypeOK'
  <1>a. Resolvers \in Nat /\ 1 <= Resolvers /\ None \in QueryOrNone /\ Queries \subseteq QueryOrNone
    BY DnsAssumption DEF DnsTypeOK, Resolvers, QueryOrNone
  <1>b. UNCHANGED listed => Resolvers' = Resolvers
    BY DEF Resolvers
  <1>. USE MaxIdAssumption DEF DnsTypeOK
  <1>1. ASSUME NEW q \in Queries, Recv(q) PROVE DnsTypeOK'
    <2>1. next_id' \in 1 .. MaxId /\ next_id # 0
      BY <1>1, NextIdType DEF Recv
    <2>2. ids' \in [Queries -> 0 .. MaxId] /\ ids'[q] # 0 /\ cur' = q
      BY <1>1, <2>1 DEF Recv
    <2>. QED
      BY <1>1, <1>a, <1>b, <2>1, <2>2 DEF Recv
  <1>2. CASE OtherFlowTakesId
    BY <1>2, <1>b, NextIdType, DnsAssumption DEF OtherFlowTakesId
  <1>3. CASE Insert
    BY <1>3, <1>a, <1>b DEF Insert
  <1>4. CASE Send
    <2>1. [channel |-> ids[cur], query |-> cur] \in Request
      BY <1>4 DEF Send, Request
    <2>2. up' \in Seq(Request)
      BY <1>4, <2>1, SeqLemma DEF Send, SeqOps
    <2>. QED
      BY <1>4, <1>b, <2>2 DEF Send
  <1>5. CASE SendOnDeadLink
    BY <1>5, <1>b DEF SendOnDeadLink
  <1>6. CASE Demux
    <2>. DEFINE f == Head(down)
                peer == inflight[f.channel]
    <2>1. f \in Response /\ down' \in Seq(Response)
      BY <1>6, SeqLemma DEF Demux, SeqOps
    <2>2. f.channel \in 1 .. MaxId /\ f.reply \in QueryOrNone
      BY <2>1 DEF Response
    <2>3. inflight' \in [1 .. MaxId -> QueryOrNone]
      BY <1>6, <1>a, <2>2 DEF Demux
    <2>4. got' \in [Queries -> Seq(Queries)]
      <3>1. CASE /\ peer # None /\ f.reply # None
                 /\ got' = [got EXCEPT ![peer] = Append(@, f.reply)]
        <4>1. peer \in Queries /\ f.reply \in Queries
          BY <2>2, <3>1 DEF QueryOrNone
        <4>2. Append(got[peer], f.reply) \in Seq(Queries)
          BY <4>1, SeqLemma DEF SeqOps
        <4>. QED
          BY <3>1, <4>1, <4>2
      <3>2. CASE got' = got
        BY <3>2
      <3>. QED
        BY <1>6, <3>1, <3>2 DEF Demux
    <2>. QED
      BY <1>6, <1>b, <2>1, <2>3, <2>4 DEF Demux
  <1>7. CASE SpawnDns
    <2>1. up' \in Seq(Request)
      BY <1>7, SeqLemma DEF SpawnDns, SeqOps
    <2>2. Head(up).query \in Queries
      BY <1>7, SpawnLemma DEF Request
    <2>3. TasksOK'
      <3>. DEFINE t == [pc |-> "asking", channel |-> Head(up).channel, ns |-> 1, reply |-> None]
      <3>1. t.ns \in Nat /\ t.ns <= Resolvers /\ t.channel # 0
        BY <1>7, <1>a, SpawnLemma DEF Request
      <3>2. Becomes(Head(up).query, t)
        BY <1>7, SpawnLemma
      <3>3. UNCHANGED listed
        BY <1>7 DEF SpawnDns
      <3>. HIDE DEF t
      <3>. QED
        BY <2>2, <3>1, <3>2, <3>3, TasksType
    <2>. QED
      BY <1>7, <2>1, <2>3 DEF SpawnDns, TasksOK
  <1>8. ASSUME NEW q \in Queries, ResolverAnswers(q) PROVE DnsTypeOK'
    <2>. DEFINE t == [pc |-> "replying", channel |-> srv[q].channel, ns |-> srv[q].ns, reply |-> q]
    <2>1. t.ns \in Nat /\ t.ns <= Resolvers /\ t.channel # 0
      BY <1>8, TaskLemma DEF ResolverAnswers
    <2>2. Becomes(q, t)
      BY <1>8, AnswerLemma
    <2>3. UNCHANGED listed
      BY <1>8 DEF ResolverAnswers
    <2>. HIDE DEF t
    <2>4. TasksOK'
      BY <2>1, <2>2, <2>3, TasksType
    <2>. QED
      BY <1>8, <2>4 DEF ResolverAnswers, TasksOK
  <1>9. ASSUME NEW q \in Queries, ResolverFails(q) PROVE DnsTypeOK'
    <2>1. PICK p \in {"asking", "replying"}, n \in Nat :
            /\ n <= Resolvers
            /\ Becomes(q, [pc |-> p, channel |-> srv[q].channel, ns |-> n, reply |-> srv[q].reply])
      BY <1>9, <1>a, FailLemma
    <2>. DEFINE t == [pc |-> p, channel |-> srv[q].channel, ns |-> n, reply |-> srv[q].reply]
    <2>2. t.ns \in Nat /\ t.ns <= Resolvers /\ t.channel # 0 /\ Becomes(q, t)
      BY <1>9, <2>1 DEF ResolverFails
    <2>3. UNCHANGED listed
      BY <1>9 DEF ResolverFails
    <2>. HIDE DEF t
    <2>4. TasksOK'
      BY <2>2, <2>3, TasksType
    <2>. QED
      BY <1>9, <2>4 DEF ResolverFails, TasksOK
  <1>10. ASSUME NEW q \in Queries, Respond(q) PROVE DnsTypeOK'
    <2>. DEFINE t == [pc |-> "done", channel |-> srv[q].channel, ns |-> srv[q].ns,
                      reply |-> srv[q].reply]
    <2>1. t.ns \in Nat /\ t.ns <= Resolvers /\ t.channel # 0
      BY <1>10, TaskLemma DEF Respond
    <2>2. Becomes(q, t)
      BY <1>10, RespondLemma
    <2>3. UNCHANGED listed
      BY <1>10 DEF Respond
    <2>4. TasksOK'
      <3>. HIDE DEF t
      <3>. QED
        BY <2>1, <2>2, <2>3, TasksType
    <2>5. down' \in Seq(Response)
      BY <1>10, PushLemma
    <2>. QED
      BY <1>10, <2>4, <2>5 DEF Respond, TasksOK
  <1>11. CASE LoseLink
    <2>1. up' \in Seq(Request) /\ down' \in Seq(Response)
      BY <1>11, SeqLemma DEF LoseLink, SeqOps
    <2>. QED
      BY <1>11, <1>b, <2>1 DEF LoseLink
  <1>12. CASE UNCHANGED vars
    BY <1>12, <1>b DEF vars
  <1>. QED
    BY <1>1, <1>2, <1>3, <1>4, <1>5, <1>6, <1>7, <1>8, <1>9, <1>10, <1>11, <1>12 DEF Next

\* Every variable of the DNS path keeps its type.
THEOREM DnsTypeCorrect == Spec => []DnsTypeOK
  BY TypeInit, TypeStep, PTL DEF Spec
-----------------------------------------------------------------------------
(* The inductive invariant *)

\* The queues and the answers, index by index.
LEMMA Queues ==
    ASSUME DnsTypeOK
    PROVE  /\ Len(up) \in Nat /\ DOMAIN up = 1 .. Len(up)
           /\ \A k \in 1 .. Len(up) : up[k].query \in Queries /\ up[k].channel \in 1 .. MaxId
           /\ Len(down) \in Nat /\ DOMAIN down = 1 .. Len(down)
           /\ \A k \in 1 .. Len(down) : /\ down[k].query \in Queries
                                        /\ down[k].channel \in 1 .. MaxId
                                        /\ down[k].reply \in QueryOrNone
           /\ \A q \in Queries : /\ Len(got[q]) \in Nat
                                 /\ DOMAIN got[q] = 1 .. Len(got[q])
                                 /\ \A k \in 1 .. Len(got[q]) : got[q][k] \in Queries
  <1>1. SeqOps(Request) /\ SeqOps(Response) /\ SeqOps(Queries)
    BY SeqLemma
  <1>2. \A f \in Request : f.query \in Queries /\ f.channel \in 1 .. MaxId
    BY DEF Request
  <1>3. \A f \in Response : f.query \in Queries /\ f.channel \in 1 .. MaxId /\ f.reply \in QueryOrNone
    BY DEF Response
  <1>4. \A q \in Queries : got[q] \in Seq(Queries)
    BY DEF DnsTypeOK
  <1>. QED
    BY <1>1, <1>2, <1>3, <1>4 DEF SeqOps, DnsTypeOK

\* A socket without answers.
LEMMA SeqEmpty ==
    ASSUME DnsTypeOK, NEW q \in Queries, DOMAIN got[q] = {}
    PROVE  got[q] = <<>>
  <1>. SUFFICES ASSUME got[q] # <<>> PROVE 1 \in DOMAIN got[q]
    OBVIOUS
  <1>1. got[q] \in Seq(Queries)
    BY DEF DnsTypeOK
  <1>. QED
    BY <1>1, Queues, SeqLemma DEF SeqOps

\* Initially no query is anywhere.
LEMMA InitInv == Init => DnsInv
  <1>. SUFFICES ASSUME Init PROVE DnsInv
    OBVIOUS
  <1>1. DOMAIN up = {} /\ DOMAIN down = {} /\ \A q \in Queries : DOMAIN got[q] = {}
    BY DEF Init
  <1>2. \A q \in Queries : srv[q].pc = "none" /\ srv[q].reply = None /\ got[q] = <<>>
    BY DEF Init
  <1>. QED
    BY <1>1, <1>2, DnsAssumption
    DEF Init, DnsInv, OwnIds, OwnReplies, OnePlace, EntriesStay, AnswersAreOwn, Outstanding,
        Working, InDown

\* A query that is somewhere has an id.
LEMMA OutstandingHasId ==
    ASSUME DnsTypeOK, DnsInv, NEW q \in Queries, Outstanding(q)
    PROVE  ids[q] # 0
  <1>1. ASSUME NEW k \in DOMAIN up, up[k].query = q PROVE ids[q] # 0
    <2>1. up[k].channel \in 1 .. MaxId /\ up[k].channel = ids[q]
      BY <1>1, Queues DEF DnsInv, OwnIds
    <2>. QED
      BY <2>1, MaxIdAssumption
  <1>2. ASSUME NEW k \in DOMAIN down, down[k].query = q PROVE ids[q] # 0
    <2>1. down[k].channel \in 1 .. MaxId /\ down[k].channel = ids[q]
      BY <1>2, Queues DEF DnsInv, OwnIds
    <2>. QED
      BY <2>1, MaxIdAssumption
  <1>3. CASE srv[q].pc \in {"asking", "replying"}
    BY <1>3 DEF DnsInv, OwnIds
  <1>. QED
    BY <1>1, <1>2, <1>3 DEF Outstanding

\* A new id goes to a query that is nowhere yet.
LEMMA RecvInv ==
    ASSUME DnsTypeOK, DnsTypeOK', DnsInv, NEW q \in Queries, Recv(q)
    PROVE  DnsInv'
  <1>. USE DEF Recv
  <1>1. /\ ids[q] = 0 /\ ids'[q] # 0
        /\ \A r \in Queries \ {q} : ids'[r] = ids[r]
        /\ \A r \in Queries \ {q} : ids[r] # 0 /\ Unshared(r)' => Unshared(r)
    <2>1. ids[q] = 0 /\ ids' = [ids EXCEPT ![q] = next_id] /\ next_id # 0
      BY MaxIdAssumption DEF DnsTypeOK
    <2>2. ids'[q] # 0 /\ \A r \in Queries \ {q} : ids'[r] = ids[r]
      BY <2>1 DEF DnsTypeOK
    <2>3. ASSUME NEW r \in Queries \ {q}, ids[r] # 0, Unshared(r)' PROVE Unshared(r)
      <3>1. ASSUME NEW p \in Queries \ {r} PROVE ids[p] # ids[r]
        <4>1. CASE p = q
          BY <2>1, <2>3, <4>1
        <4>2. CASE p # q
          BY <2>2, <2>3, <4>2 DEF Unshared
        <4>. QED
          BY <4>1, <4>2
      <3>. QED
        BY <3>1 DEF Unshared
    <2>. QED
      BY <2>1, <2>2, <2>3
  <1>2. /\ \A k \in DOMAIN up : up[k].query # q
        /\ \A k \in DOMAIN down : down[k].query # q
    BY <1>1, Queues DEF DnsInv, OwnIds
  <1>3. srv[q].pc = "none" /\ \A i \in 1 .. MaxId : inflight[i] # q
    BY <1>1, DnsAssumption DEF DnsInv, OwnIds
  <1>4. got[q] = <<>> /\ \A r \in Queries : \A k \in DOMAIN got[r] : got[r][k] # q
    <2>1. \A r \in Queries : \A k \in DOMAIN got[r] : got[r][k] # q
      BY <1>1 DEF DnsInv, OwnIds
    <2>2. DOMAIN got[q] = {}
      BY <1>1 DEF DnsInv, OwnIds
    <2>3. Len(got[q]) = 0
      BY <2>2, Queues
    <2>. QED
      BY <2>1, <2>3 DEF DnsTypeOK
  <1>5. OwnIds'
    BY <1>1, <1>2, <1>3, <1>4, Queues DEF DnsInv, OwnIds, DnsTypeOK, QueryOrNone
  <1>6. OwnReplies'
    BY DEF DnsInv, OwnReplies
  <1>7. OnePlace'
    BY <1>2, <1>3, <1>4 DEF DnsInv, OnePlace, Working, InDown
  <1>8. EntriesStay'
    <2>1. SUFFICES ASSUME NEW r \in Queries, Unshared(r)', Outstanding(r)' PROVE inflight[ids'[r]] = r
      BY DEF EntriesStay
    <2>2. Outstanding(r) /\ r # q
      BY <2>1, <1>2, <1>3 DEF Outstanding
    <2>3. ids[r] # 0
      BY <2>2, OutstandingHasId
    <2>. QED
      BY <1>1, <2>1, <2>2, <2>3 DEF DnsInv, EntriesStay
  <1>9. AnswersAreOwn'
    <2>1. ASSUME NEW r \in Queries
          PROVE  /\ \A k \in DOMAIN got[r] : ids'[got[r][k]] = ids'[r]
                 /\ Unshared(r)' => got[r] \in {<<>>, <<r>>}
      <3>1. CASE r = q
        BY <1>4, <3>1, Queues
      <3>2. CASE got[r] = <<>>
        BY <3>2
      <3>3. CASE r # q /\ got[r] # <<>>
        <4>1. DOMAIN got[r] # {}
          BY <3>3, Queues, SeqEmpty
        <4>2. ids[r] # 0
          BY <4>1 DEF DnsInv, OwnIds
        <4>. QED
          BY <1>1, <1>4, <3>3, <4>2, Queues DEF DnsInv, AnswersAreOwn
      <3>. QED
        BY <3>1, <3>2, <3>3
    <2>. QED
      BY <2>1 DEF AnswersAreOwn
  <1>. QED
    BY <1>5, <1>6, <1>7, <1>8, <1>9 DEF DnsInv

\* Remembering an asker overwrites nobody who has an id of his own.
LEMMA InsertInv ==
    ASSUME DnsTypeOK, DnsTypeOK', DnsInv, Insert
    PROVE  DnsInv'
  <1>. USE DEF Insert
  <1>1. cur \in Queries /\ ids[cur] \in 1 .. MaxId
    BY DEF DnsTypeOK
  <1>2. \A q \in Queries : Unshared(q)' = Unshared(q)
    BY DEF Unshared
  <1>3. OwnIds'
    BY <1>1 DEF DnsInv, OwnIds, DnsTypeOK
  <1>4. OwnReplies'
    BY DEF DnsInv, OwnReplies
  <1>5. OnePlace'
    BY DEF DnsInv, OnePlace, Working, InDown
  <1>6. EntriesStay'
    <2>1. SUFFICES ASSUME NEW q \in Queries, Unshared(q), Outstanding(q) \/ cur = q
                   PROVE  inflight'[ids[q]] = q
      BY <1>2 DEF EntriesStay, Outstanding
    <2>2. inflight' = [inflight EXCEPT ![ids[cur]] = cur]
      OBVIOUS
    <2>3. CASE cur = q
      BY <1>1, <2>2, <2>3 DEF DnsTypeOK
    <2>4. CASE cur # q
      BY <1>1, <2>1, <2>2, <2>4 DEF DnsInv, EntriesStay, Unshared, DnsTypeOK
    <2>. QED
      BY <2>3, <2>4
  <1>7. AnswersAreOwn'
    BY <1>2 DEF DnsInv, AnswersAreOwn
  <1>. QED
    BY <1>3, <1>4, <1>5, <1>6, <1>7 DEF DnsInv

\* A query leaves the DNS task with its entry in place.
LEMMA SendInv ==
    ASSUME DnsTypeOK, DnsTypeOK', DnsInv, Send
    PROVE  DnsInv'
  <1>. USE DEF Send
  <1>1. cur \in Queries /\ ids[cur] \in 1 .. MaxId
    BY DEF DnsTypeOK
  <1>2. \A q \in Queries : Unshared(q)' = Unshared(q)
    BY DEF Unshared
  <1>3. /\ Len(up') = Len(up) + 1
        /\ up'[Len(up) + 1].channel = ids[cur] /\ up'[Len(up) + 1].query = cur
        /\ \A k \in 1 .. Len(up) : up'[k] = up[k]
    <2>1. [channel |-> ids[cur], query |-> cur] \in Request
      BY <1>1 DEF Request
    <2>2. up' = Append(up, [channel |-> ids[cur], query |-> cur]) /\ up \in Seq(Request)
      BY DEF DnsTypeOK
    <2>. QED
      BY <2>1, <2>2, SeqLemma DEF SeqOps
  <1>4. DOMAIN up' = 1 .. Len(up) + 1 /\ DOMAIN up = 1 .. Len(up) /\ Len(up) \in Nat
    BY <1>3, Queues, SeqLemma DEF SeqOps, DnsTypeOK
  <1>5. OwnIds'
    BY <1>1, <1>3, <1>4 DEF DnsInv, OwnIds, DnsTypeOK
  <1>6. OwnReplies'
    BY DEF DnsInv, OwnReplies
  <1>7. OnePlace'
    BY <1>1, <1>3, <1>4 DEF DnsInv, OnePlace, Working, InDown
  <1>8. EntriesStay'
    BY <1>1, <1>2, <1>3, <1>4 DEF DnsInv, EntriesStay, Outstanding
  <1>9. AnswersAreOwn'
    BY <1>2 DEF DnsInv, AnswersAreOwn
  <1>. QED
    BY <1>5, <1>6, <1>7, <1>8, <1>9 DEF DnsInv

\* Ids of TCP connections and sends on a dead link touch no query.
LEMMA DeadLinkInv ==
    ASSUME DnsTypeOK, DnsInv, OtherFlowTakesId \/ SendOnDeadLink \/ UNCHANGED vars
    PROVE  DnsInv'
  <1>1. /\ UNCHANGED <<ids, cur, inflight, up, down, srv, got>>
        /\ dns_task' = dns_task \/ dns_task' \in {"recv", "ended"}
    BY DEF OtherFlowTakesId, SendOnDeadLink, vars
  <1>. QED
    BY <1>1 DEF DnsInv, OwnIds, OwnReplies, OnePlace, EntriesStay, AnswersAreOwn, Outstanding,
        Working, InDown, Unshared

\* A resolver that answers or fails: the query stays with its task.
LEMMA TaskInv ==
    ASSUME DnsTypeOK, DnsInv, NEW q \in Queries, NEW t, Becomes(q, t), srv[q].pc = "asking",
           t.pc \in {"asking", "replying"}, t.channel = srv[q].channel,
           t.reply \in {srv[q].reply, q},
           UNCHANGED <<next_id, others, ids, dns_task, cur, inflight, up, down, link, listed, got>>
    PROVE  DnsInv'
  <1>1. srv'[q] = t /\ \A r \in Queries \ {q} : srv'[r] = srv[r]
    BY DEF Becomes
  <1>2. \A r \in Queries : Unshared(r)' = Unshared(r)
    BY DEF Unshared
  <1>3. OwnIds'
    BY <1>1 DEF DnsInv, OwnIds
  <1>4. OwnReplies'
    BY <1>1 DEF DnsInv, OwnReplies
  <1>5. OnePlace'
    BY <1>1, Queues DEF DnsInv, OnePlace, Working, InDown
  <1>6. EntriesStay'
    BY <1>1, <1>2 DEF DnsInv, EntriesStay, Outstanding
  <1>7. AnswersAreOwn'
    BY <1>2 DEF DnsInv, AnswersAreOwn
  <1>. QED
    BY <1>3, <1>4, <1>5, <1>6, <1>7 DEF DnsInv

\* A query passes from the link to its server task.
LEMMA SpawnInv ==
    ASSUME DnsTypeOK, DnsTypeOK', DnsInv, SpawnDns
    PROVE  DnsInv'
  <1>. DEFINE q == up[1].query
  <1>0. UNCHANGED <<ids, dns_task, cur, inflight, down, got>>
    BY DEF SpawnDns
  <1>1. /\ Len(up) >= 1 /\ Head(up) = up[1]
        /\ Len(up') = Len(up) - 1
        /\ \A k \in 1 .. Len(up) - 1 : up'[k] = up[k + 1]
    BY SeqLemma DEF SpawnDns, SeqOps, DnsTypeOK
  <1>2. q \in Queries /\ up[1].channel = ids[q] /\ ids[q] # 0
    BY <1>1, Queues DEF DnsInv, OwnIds
  <1>3. /\ srv'[q].pc = "asking" /\ srv'[q].channel = ids[q] /\ srv'[q].reply = None
        /\ \A r \in Queries \ {q} : srv'[r] = srv[r]
    BY <1>1, <1>2, SpawnLemma DEF Becomes, DnsTypeOK
  <1>4. DOMAIN up' = 1 .. Len(up) - 1 /\ DOMAIN up = 1 .. Len(up) /\ Len(up) \in Nat
    BY <1>1, Queues, SeqLemma DEF SeqOps, DnsTypeOK
  <1>5. /\ srv[q].pc = "none" /\ ~Working(q)
        /\ \A k \in DOMAIN up' : up'[k].query # q
        /\ \A k \in DOMAIN down : down[k].query # q
    <2>1. 1 \in DOMAIN up
      BY <1>1, <1>4
    <2>2. srv[q].pc = "none" /\ ~Working(q)
      BY <2>1 DEF DnsInv, OnePlace
    <2>3. ASSUME NEW k \in DOMAIN up' PROVE up'[k].query # q
      <3>1. k \in 1 .. Len(up) - 1 /\ k + 1 \in DOMAIN up /\ k + 1 # 1
        BY <1>4
      <3>2. up[k + 1].query # up[1].query
        BY <2>1, <3>1 DEF DnsInv, OnePlace
      <3>. QED
        BY <1>1, <3>1, <3>2
    <2>4. \A k \in DOMAIN down : down[k].query # q
      BY <2>2 DEF DnsInv, OnePlace
    <2>. QED
      BY <2>2, <2>3, <2>4
  <1>6. \A r \in Queries : Unshared(r)' = Unshared(r)
    BY <1>0 DEF Unshared
  <1>u. \A k \in DOMAIN up' : k + 1 \in DOMAIN up /\ up'[k] = up[k + 1]
    BY <1>1, <1>4
  <1>. HIDE DEF q
  <1>7. OwnIds'
    <2>1. \A k \in DOMAIN up' : up'[k].channel = ids'[up'[k].query]
      BY <1>0, <1>u DEF DnsInv, OwnIds
    <2>2. \A r \in Queries : srv'[r].pc # "none" => ids'[r] # 0 /\ srv'[r].channel = ids'[r]
      BY <1>0, <1>2, <1>3 DEF DnsInv, OwnIds
    <2>. QED
      BY <1>0, <2>1, <2>2 DEF DnsInv, OwnIds
  <1>8. OwnReplies'
    BY <1>0, <1>3 DEF DnsInv, OwnReplies
  <1>9. OnePlace'
    <2>1. \A r \in Queries : Working(r)' = Working(r) /\ InDown(r)' = InDown(r)
      BY <1>0 DEF Working, InDown
    <2>2. \A r \in Queries : Working(r)' => srv'[r].pc = "none"
      BY <1>3, <1>5, <2>1 DEF DnsInv, OnePlace
    <2>3. ASSUME NEW k \in DOMAIN up' PROVE (srv[up[k].query].pc = "none" /\ ~Working(up[k].query))'
      <3>1. PICK r \in Queries : r # q /\ k + 1 \in DOMAIN up /\ up[k + 1].query = r /\ up'[k].query = r
        BY <1>5, <1>u, Queues
      <3>2. srv[r].pc = "none" /\ ~Working(r)
        BY <3>1 DEF DnsInv, OnePlace
      <3>3. srv'[r].pc = "none"
        BY <1>3, <3>1, <3>2
      <3>4. ~Working(r)'
        BY <2>1, <3>1, <3>2
      <3>. QED
        BY <3>1, <3>3, <3>4 DEF Working
    <2>4. \A k \in DOMAIN down' : srv'[down'[k].query].pc = "done"
      BY <1>0, <1>3, <1>5, Queues DEF DnsInv, OnePlace
    <2>5. \A j, k \in DOMAIN up' : up'[j].query = up'[k].query => j = k
      <3>. SUFFICES ASSUME NEW j \in DOMAIN up', NEW k \in DOMAIN up', up'[j].query = up'[k].query
                    PROVE  j = k
        OBVIOUS
      <3>1. j + 1 = k + 1
        BY <1>u DEF DnsInv, OnePlace
      <3>. QED
        BY <1>4, <3>1
    <2>6. \A r \in Queries : srv'[r].pc # "done" \/ InDown(r)' => \A k \in DOMAIN got'[r] : got'[r][k] # r
      BY <1>0, <1>2, <1>3, <1>5, <2>1 DEF DnsInv, OnePlace
    <2>7. \A j, k \in DOMAIN down' : down'[j].query = down'[k].query => j = k
      BY <1>0 DEF DnsInv, OnePlace
    <2>. QED
      BY <2>2, <2>3, <2>4, <2>5, <2>6, <2>7 DEF OnePlace
  <1>10. EntriesStay'
    <2>1. \A r \in Queries : Outstanding(r)' => Outstanding(r)
      <3>1. Outstanding(q)
        BY <1>1, <1>4 DEF Outstanding, q
      <3>2. ASSUME NEW r \in Queries \ {q}, Outstanding(r)' PROVE Outstanding(r)
        BY <1>0, <1>3, <1>u, <3>2 DEF Outstanding
      <3>. QED
        BY <3>1, <3>2
    <2>. QED
      BY <1>0, <1>6, <2>1 DEF DnsInv, EntriesStay
  <1>11. AnswersAreOwn'
    BY <1>0, <1>6 DEF DnsInv, AnswersAreOwn
  <1>. QED
    BY <1>7, <1>8, <1>9, <1>10, <1>11 DEF DnsInv

\* A query passes from its server task to the link, or is lost with it.
LEMMA RespondInv ==
    ASSUME DnsTypeOK, DnsTypeOK', DnsInv, NEW q \in Queries, Respond(q)
    PROVE  DnsInv'
  <1>0. UNCHANGED <<ids, dns_task, cur, inflight, up, got>> /\ srv[q].pc = "replying"
    BY DEF Respond
  <1>1. /\ srv'[q].pc = "done" /\ srv'[q].channel = srv[q].channel /\ srv'[q].reply = srv[q].reply
        /\ \A r \in Queries \ {q} : srv'[r] = srv[r]
    <2>1. Becomes(q, [pc |-> "done", channel |-> srv[q].channel,
                      ns |-> srv[q].ns, reply |-> srv[q].reply])
      BY RespondLemma DEF DnsTypeOK
    <2>. QED
      BY <2>1 DEF Becomes
  <1>2. \A r \in Queries : Unshared(r)' = Unshared(r)
    BY <1>0 DEF Unshared
  <1>3. /\ \A k \in DOMAIN up : up[k].query # q
        /\ \A k \in DOMAIN down : down[k].query # q
        /\ ~Working(q)
        /\ \A k \in DOMAIN got[q] : got[q][k] # q
    BY <1>0 DEF DnsInv, OnePlace
  <1>4. \/ UNCHANGED down
        \/ /\ Len(down') = Len(down) + 1
           /\ DOMAIN down' = 1 .. Len(down) + 1 /\ DOMAIN down = 1 .. Len(down) /\ Len(down) \in Nat
           /\ \A k \in 1 .. Len(down) : down'[k] = down[k]
           /\ down'[Len(down) + 1].channel = srv[q].channel
           /\ down'[Len(down) + 1].reply = srv[q].reply
           /\ down'[Len(down) + 1].query = q
    <2>. DEFINE f == [channel |-> srv[q].channel, reply |-> srv[q].reply, query |-> q]
    <2>1. f \in Response /\ down \in Seq(Response)
      BY PushLemma DEF DnsTypeOK
    <2>2. UNCHANGED down \/ down' = Append(down, f)
      BY DEF Respond
    <2>3. f.channel = srv[q].channel /\ f.reply = srv[q].reply /\ f.query = q
      OBVIOUS
    <2>. HIDE DEF f
    <2>. QED
      BY <2>1, <2>2, <2>3, SeqLemma DEF SeqOps
  <1>5. OwnIds'
    BY <1>0, <1>1, <1>4 DEF DnsInv, OwnIds
  <1>6. OwnReplies'
    BY <1>0, <1>1, <1>4 DEF DnsInv, OwnReplies
  <1>7. OnePlace'
    <2>1. \A k \in DOMAIN down' : down'[k].query = q \/ (k \in DOMAIN down /\ down'[k] = down[k])
      BY <1>4
    <2>2. \A j, k \in DOMAIN down' : down'[j].query = down'[k].query => j = k
      BY <1>3, <1>4 DEF DnsInv, OnePlace
    <2>3. \A r \in Queries \ {q} : InDown(r)' => InDown(r)
      BY <2>1 DEF InDown
    <2>4. \A k \in DOMAIN down' : srv'[down'[k].query].pc = "done"
      BY <1>1, <2>1, Queues DEF DnsInv, OnePlace
    <2>5. /\ \A r \in Queries : Working(r)' = Working(r)
          /\ \A k \in DOMAIN up : up[k].query \in Queries
      BY <1>0, Queues DEF Working
    <2>. QED
      BY <1>0, <1>1, <1>3, <2>2, <2>3, <2>4, <2>5 DEF DnsInv, OnePlace
  <1>8. EntriesStay'
    <2>1. \A r \in Queries : Outstanding(r)' => Outstanding(r)
      BY <1>0, <1>1, <1>4 DEF Outstanding
    <2>. QED
      BY <1>0, <1>2, <2>1 DEF DnsInv, EntriesStay
  <1>9. AnswersAreOwn'
    BY <1>0, <1>2 DEF DnsInv, AnswersAreOwn
  <1>. QED
    BY <1>5, <1>6, <1>7, <1>8, <1>9 DEF DnsInv

\* The end of the link only takes frames away.
LEMMA LoseLinkInv ==
    ASSUME DnsTypeOK, DnsTypeOK', DnsInv, LoseLink
    PROVE  DnsInv'
  <1>0. UNCHANGED <<ids, dns_task, cur, inflight, srv, got>>
    BY DEF LoseLink
  <1>1. /\ DOMAIN up' \subseteq DOMAIN up /\ \A k \in DOMAIN up' : up'[k] = up[k]
        /\ DOMAIN down' \subseteq DOMAIN down /\ \A k \in DOMAIN down' : down'[k] = down[k]
    <2>1. PICK m \in 0 .. Len(up) : up' = SubSeq(up, 1, m)
      BY DEF LoseLink
    <2>2. PICK n \in 0 .. Len(down) : down' = SubSeq(down, 1, n)
      BY DEF LoseLink
    <2>. QED
      BY <2>1, <2>2, SeqLemma DEF SeqOps, DnsTypeOK
  <1>2. \A r \in Queries : /\ Unshared(r)' = Unshared(r)
                           /\ Outstanding(r)' => Outstanding(r)
                           /\ InDown(r)' => InDown(r)
                           /\ Working(r)' = Working(r)
    BY <1>0, <1>1 DEF Unshared, Outstanding, InDown, Working
  <1>3. OwnIds'
    BY <1>0, <1>1 DEF DnsInv, OwnIds
  <1>4. OwnReplies'
    BY <1>0, <1>1 DEF DnsInv, OwnReplies
  <1>5. OnePlace'
    BY <1>0, <1>1, <1>2, Queues DEF DnsInv, OnePlace
  <1>6. EntriesStay'
    BY <1>0, <1>2 DEF DnsInv, EntriesStay
  <1>7. AnswersAreOwn'
    BY <1>0, <1>2 DEF DnsInv, AnswersAreOwn
  <1>. QED
    BY <1>3, <1>4, <1>5, <1>6, <1>7 DEF DnsInv

\* The demux task: the answer goes to the asker remembered under its channel.
LEMMA DemuxInv ==
    ASSUME DnsTypeOK, DnsTypeOK', DnsInv, Demux
    PROVE  DnsInv'
  <1>. DEFINE f == down[1]
              peer == inflight[down[1].channel]
  <1>0. UNCHANGED <<ids, dns_task, cur, up, srv>>
    BY DEF Demux
  <1>1. /\ Len(down) >= 1 /\ Head(down) = f
        /\ Len(down') = Len(down) - 1
        /\ \A k \in 1 .. Len(down) - 1 : down'[k] = down[k + 1]
    BY SeqLemma DEF Demux, SeqOps, DnsTypeOK
  <1>2. DOMAIN down' = 1 .. Len(down) - 1 /\ DOMAIN down = 1 .. Len(down) /\ Len(down) \in Nat
    BY <1>1, Queues, SeqLemma DEF SeqOps, DnsTypeOK
  <1>3. 1 \in DOMAIN down /\ \A k \in DOMAIN down' : k + 1 \in DOMAIN down /\ down'[k] = down[k + 1]
    BY <1>1, <1>2
  <1>q. PICK q \in Queries : q = down[1].query
    BY <1>3, Queues
  <1>4. /\ f.query = q /\ f.channel = ids[q] /\ ids[q] \in 1 .. MaxId
        /\ f.reply \in {None, q}
    BY <1>q, <1>3, Queues DEF DnsInv, OwnIds, OwnReplies
  <1>5. /\ srv[q].pc = "done"
        /\ \A k \in DOMAIN up : up[k].query # q
        /\ ~Working(q)
    BY <1>q, <1>3 DEF DnsInv, OnePlace
  <1>6. ASSUME NEW k \in DOMAIN down' PROVE down'[k].query # q
    <2>1. k + 1 # 1
      BY <1>2
    <2>. QED
      BY <1>q, <1>3, <2>1 DEF DnsInv, OnePlace
  <1>7. \A r \in Queries : /\ Unshared(r)' = Unshared(r)
                           /\ Working(r)' = Working(r)
                           /\ InDown(r)' => InDown(r)
                           /\ Outstanding(r)' => Outstanding(r)
    BY <1>0, <1>3 DEF Unshared, Working, InDown, Outstanding
  <1>8. /\ inflight'[ids[q]] = None
        /\ \A i \in (1 .. MaxId) \ {ids[q]} : inflight'[i] = inflight[i]
    BY <1>1, <1>4 DEF Demux, DnsTypeOK
  <1>9. peer # None => peer \in Queries /\ ids[peer] = ids[q]
    BY <1>4 DEF DnsInv, OwnIds, DnsTypeOK, QueryOrNone
  \* What is delivered: nothing, or the answer to q, to its asker.
  <1>10. \/ UNCHANGED got
         \/ /\ peer # None
            /\ \A r \in Queries \ {peer} : got'[r] = got[r]
            /\ got'[peer] = Append(got[peer], q)
    <2>1. got' = got \/ (/\ peer # None /\ f.reply # None
                         /\ got' = [got EXCEPT ![peer] = Append(got[peer], f.reply)])
      BY <1>1 DEF Demux
    <2>2. got \in [Queries -> Seq(Queries)]
      BY DEF DnsTypeOK
    <2>. HIDE DEF f, peer
    <2>. QED
      BY ONLY <1>4, <1>9, <2>1, <2>2
  <1>11. ASSUME NEW r \in Queries, NEW k \in DOMAIN got'[r]
         PROVE  \/ k \in DOMAIN got[r] /\ got'[r][k] = got[r][k]
                \/ r = peer /\ peer # None /\ got'[r][k] = q
    <2>1. CASE UNCHANGED got
      BY <2>1
    <2>2. CASE r # peer /\ got'[r] = got[r]
      BY <2>2
    <2>3. CASE r = peer /\ peer # None /\ got'[r] = Append(got[r], q)
      <3>1. got[r] \in Seq(Queries) /\ SeqOps(Queries)
        BY SeqLemma DEF DnsTypeOK
      <3>2. /\ Len(Append(got[r], q)) = Len(got[r]) + 1 /\ Append(got[r], q)[Len(got[r]) + 1] = q
            /\ \A j \in 1 .. Len(got[r]) : Append(got[r], q)[j] = got[r][j]
            /\ DOMAIN Append(got[r], q) = 1 .. Len(got[r]) + 1
            /\ DOMAIN got[r] = 1 .. Len(got[r]) /\ Len(got[r]) \in Nat
        BY <1>4, <3>1 DEF SeqOps
      <3>. QED
        BY <2>3, <3>2
    <2>. QED
      BY <1>10, <2>1, <2>2, <2>3
  <1>. HIDE DEF f, peer
  <1>12. OwnIds'
    <2>1. \A k \in DOMAIN down' : down'[k].channel = ids'[down'[k].query]
      BY <1>0, <1>3 DEF DnsInv, OwnIds
    <2>2. \A i \in 1 .. MaxId : inflight'[i] # None => ids'[inflight'[i]] = i
      BY <1>0, <1>4, <1>8 DEF DnsInv, OwnIds
    <2>3. ASSUME NEW r \in Queries, NEW k \in DOMAIN got'[r]
          PROVE  ids'[r] # 0 /\ ids'[got'[r][k]] = ids'[r]
      BY <1>0, <1>4, <1>9, <1>11 DEF DnsInv, OwnIds
    <2>. QED
      BY <1>0, <2>1, <2>2, <2>3 DEF DnsInv, OwnIds
  <1>13. OwnReplies'
    BY <1>0, <1>3 DEF DnsInv, OwnReplies
  <1>14. OnePlace'
    <2>1. \A j, k \in DOMAIN down' : down'[j].query = down'[k].query => j = k
      <3>. SUFFICES ASSUME NEW j \in DOMAIN down', NEW k \in DOMAIN down',
                           down'[j].query = down'[k].query
                    PROVE  j = k
        OBVIOUS
      <3>1. j + 1 = k + 1
        BY <1>3 DEF DnsInv, OnePlace
      <3>. QED
        BY <1>2, <3>1
    <2>2. \A k \in DOMAIN down' : srv'[down'[k].query].pc = "done"
      BY <1>0, <1>3 DEF DnsInv, OnePlace
    <2>3. ~ InDown(q)' /\ srv'[q].pc = "done"
      BY <1>0, <1>5, <1>6 DEF InDown
    <2>4. ASSUME NEW r \in Queries, srv'[r].pc # "done" \/ InDown(r)', NEW k \in DOMAIN got'[r]
          PROVE  got'[r][k] # r
      <3>1. r # q /\ (srv[r].pc # "done" \/ InDown(r))
        BY <1>0, <1>7, <2>3, <2>4
      <3>. QED
        BY <1>11, <3>1 DEF DnsInv, OnePlace
    <2>5. /\ \A r \in Queries : Working(r)' => srv'[r].pc = "none"
          /\ \A k \in DOMAIN up' : (srv[up[k].query].pc = "none" /\ ~Working(up[k].query))'
          /\ \A j, k \in DOMAIN up' : up'[j].query = up'[k].query => j = k
      BY <1>0 DEF DnsInv, OnePlace, Working
    <2>. QED
      BY <2>1, <2>2, <2>4, <2>5 DEF OnePlace
  <1>15. EntriesStay'
    <2>. SUFFICES ASSUME NEW r \in Queries, Unshared(r)',
                         Outstanding(r)' \/ (dns_task' = "send" /\ cur' = r)
                  PROVE  inflight'[ids'[r]] = r
      BY DEF EntriesStay
    <2>1. inflight[ids[r]] = r
      BY <1>0, <1>7 DEF DnsInv, EntriesStay
    <2>2. r # q
      BY <1>0, <1>5, <1>6 DEF Outstanding, Working
    <2>3. ids[r] # ids[q] /\ ids[r] # 0 /\ ids[r] \in 0 .. MaxId
      <3>1. ids[r] # ids[q] /\ ids[r] \in 0 .. MaxId
        BY <1>4, <1>7, <2>2 DEF Unshared, DnsTypeOK
      <3>2. Outstanding(r) \/ (dns_task = "send" /\ cur = r)
        BY <1>0, <1>7
      <3>3. CASE Outstanding(r)
        BY <3>1, <3>3, OutstandingHasId
      <3>4. CASE dns_task = "send" /\ cur = r
        BY <3>1, <3>4 DEF DnsTypeOK
      <3>. QED
        BY <3>1, <3>2, <3>3, <3>4
    <2>4. ids[r] \in (1 .. MaxId) \ {ids[q]}
      BY <2>3, MaxIdAssumption
    <2>. QED
      BY <1>0, <1>8, <2>1, <2>4
  <1>16. AnswersAreOwn'
    <2>1. \A r \in Queries : \A k \in DOMAIN got'[r] : ids'[got'[r][k]] = ids'[r]
      BY <1>12 DEF OwnIds
    <2>2. ASSUME NEW r \in Queries, Unshared(r)' PROVE got'[r] \in {<<>>, <<r>>}
      <3>1. CASE got'[r] = got[r]
        BY <1>7, <2>2, <3>1 DEF DnsInv, AnswersAreOwn
      <3>2. CASE r = peer /\ peer # None /\ got'[r] = Append(got[r], q)
        <4>1. r = q
          BY <1>4, <1>7, <1>9, <2>2, <3>2 DEF Unshared
        <4>2. InDown(q) /\ got[q] \in {<<>>, <<q>>}
          BY <1>3, <1>4, <1>7, <2>2, <4>1 DEF InDown, DnsInv, AnswersAreOwn, f
        <4>3. got[q] # <<q>>
          <5>1. DOMAIN <<q>> = {1} /\ <<q>>[1] = q
            OBVIOUS
          <5>. QED
            BY <1>4, <4>2, <5>1 DEF DnsInv, OnePlace
        <4>4. got[q] = <<>> /\ Append(<<>>, q) = <<q>>
          BY <4>2, <4>3
        <4>. QED
          BY <3>2, <4>1, <4>4
      <3>. QED
        BY <1>10, <3>1, <3>2
    <2>. QED
      BY <2>1, <2>2 DEF AnswersAreOwn
  <1>. QED
    BY <1>12, <1>13, <1>14, <1>15, <1>16 DEF DnsInv

\* Every step keeps the invariant.
LEMMA StepInv ==
    ASSUME DnsTypeOK, DnsTypeOK', DnsInv, [Next]_vars
    PROVE  DnsInv'
  <1>1. ASSUME NEW q \in Queries, Recv(q) PROVE DnsInv'
    BY <1>1, RecvInv
  <1>2. CASE OtherFlowTakesId \/ SendOnDeadLink \/ UNCHANGED vars
    BY <1>2, DeadLinkInv
  <1>3. CASE Insert
    BY <1>3, InsertInv
  <1>4. CASE Send
    BY <1>4, SendInv
  <1>5. CASE Demux
    BY <1>5, DemuxInv
  <1>6. CASE SpawnDns
    BY <1>6, SpawnInv
  <1>7. ASSUME NEW q \in Queries, ResolverAnswers(q) PROVE DnsInv'
    <2>. DEFINE t == [pc |-> "replying", channel |-> srv[q].channel, ns |-> srv[q].ns, reply |-> q]
    <2>1. t.pc = "replying" /\ t.channel = srv[q].channel /\ t.reply = q
      OBVIOUS
    <2>2. Becomes(q, t)
      BY <1>7, AnswerLemma DEF DnsTypeOK
    <2>. HIDE DEF t
    <2>. QED
      BY <1>7, <2>1, <2>2, TaskInv DEF ResolverAnswers
  <1>8. ASSUME NEW q \in Queries, ResolverFails(q) PROVE DnsInv'
    <2>1. Resolvers \in Nat /\ srv[q].ns <= Resolvers
      BY DnsAssumption DEF DnsTypeOK, Resolvers
    <2>2. PICK p \in {"asking", "replying"}, n \in Nat :
            Becomes(q, [pc |-> p, channel |-> srv[q].channel, ns |-> n, reply |-> srv[q].reply])
      BY <1>8, <2>1, FailLemma DEF DnsTypeOK
    <2>. DEFINE t == [pc |-> p, channel |-> srv[q].channel, ns |-> n, reply |-> srv[q].reply]
    <2>3. t.pc = p /\ t.channel = srv[q].channel /\ t.reply = srv[q].reply /\ Becomes(q, t)
      BY <2>2
    <2>. HIDE DEF t
    <2>. QED
      BY <1>8, <2>3, TaskInv DEF ResolverFails
  <1>9. ASSUME NEW q \in Queries, Respond(q) PROVE DnsInv'
    BY <1>9, RespondInv
  <1>10. CASE LoseLink
    BY <1>10, LoseLinkInv
  <1>. QED
    BY <1>1, <1>2, <1>3, <1>4, <1>5, <1>6, <1>7, <1>8, <1>9, <1>10 DEF Next

\* Whatever order requests, answers and deliveries take: every id on the way is
\* its query's own, a query is in one place, and its entry stays until its
\* response is delivered.
THEOREM DnsInvariant == Spec => []DnsInv
  <1>1. DnsTypeOK /\ DnsTypeOK' /\ DnsInv /\ [Next]_vars => DnsInv'
    BY StepInv
  <1>. QED
    BY <1>1, InitInv, DnsTypeCorrect, PTL DEF Spec

\* A socket is sent answers under its own id only, and its own answer at most
\* once when no other query has its id.
THEOREM AnswersCorrect == Spec => []AnswersAreOwn
  <1>1. DnsInv => AnswersAreOwn
    BY DEF DnsInv
  <1>. QED
    BY <1>1, DnsInvariant, PTL

\* While a response may still come back its asker is remembered.
THEOREM AskersCorrect == Spec => []AskerIsRemembered
  <1>1. DnsInv => AskerIsRemembered
    BY DEF DnsInv, EntriesStay, AskerIsRemembered
  <1>. QED
    BY <1>1, DnsInvariant, PTL
=============================================================================
