-------------------------------- MODULE Dns --------------------------------
(***************************************************************************)
(* DNS over the tunnel.  The client's DNS task numbers each query with an  *)
(* id of the allocator it shares with the TCP connections, remembers who   *)
(* asked, and sends the query; the server asks its resolvers one after the *)
(* other in a task per query, so answers return in any order; the demux    *)
(* task of the client gives an answer to whoever is remembered under its   *)
(* channel.  A query stands for the socket that asked it; what an answer   *)
(* says is the query it answers (a ghost) or None for an empty response.   *)
(* The bounded queues and the pipe of a direction are one bounded queue.   *)
(***************************************************************************)
EXTENDS Naturals, Sequences, SequencesExt, ChannelIds

CONSTANTS
    Queries,        \* DNS queries, each from a socket of its own
    None,           \* no query, or an empty response
    MaxListed,      \* bound: nameservers the server's resolv.conf lists
    OtherFlows,     \* how many ids TCP connections take meanwhile
    Cap,            \* frames a direction of the link holds
    MayLoseLink     \* BOOLEAN: the kubectl-exec session may die

ASSUME DnsAssumption ==
    /\ None \notin Queries
    /\ MaxListed \in Nat
    /\ OtherFlows \in Nat
    /\ Cap \in Nat \ {0}
    /\ MayLoseLink \in BOOLEAN

VARIABLES
    next_id,        \* the shared allocator
    others,         \* ids taken by TCP connections so far
    ids,            \* the id given to each query, 0 before
    dns_task,       \* the client's DNS task: "recv", "insert", "send" or "ended"
    cur,            \* the query it works on
    inflight,       \* dns_inflight: who waits under each id
    up,             \* requests on their way to the server
    down,           \* responses on their way to the client
    link,           \* "up" or "down"
    listed,         \* nameservers in the server's resolv.conf
    srv,            \* the server's task of each query
    got             \* what each query's socket was sent

vars == <<next_id, others, ids, dns_task, cur, inflight, up, down, link, listed, srv, got>>

QueryOrNone == Queries \cup {None}

\* resolvers: read once; 1.1.1.1 when the file lists none or cannot be read.
Resolvers == IF listed = 0 THEN 1 ELSE listed

Request == [channel : 1 .. MaxId, query : Queries]
Response == [channel : 1 .. MaxId, reply : QueryOrNone, query : Queries]

\* A task of the server: its step, its channel, the resolver it asks, its reply.
SrvTask == [pc : {"none", "asking", "replying", "done"}, channel : 0 .. MaxId,
            ns : Nat, reply : QueryOrNone]

Init ==
    /\ next_id = 1
    /\ others = 0
    /\ ids = [q \in Queries |-> 0]
    /\ dns_task = "recv"
    /\ cur = None
    /\ inflight = [i \in 1 .. MaxId |-> None]
    /\ up = <<>>
    /\ down = <<>>
    /\ link = "up"
    /\ listed \in 0 .. MaxListed
    /\ srv = [q \in Queries |-> [pc |-> "none", channel |-> 0, ns |-> 0, reply |-> None]]
    /\ got = [q \in Queries |-> <<>>]
-----------------------------------------------------------------------------
(* The client's DNS task, and the accept loops that share its allocator *)

\* recv_from, then an id from the allocator, under its lock.
Recv(q) ==
    /\ dns_task = "recv"
    /\ ids[q] = 0
    /\ cur' = q
    /\ ids' = [ids EXCEPT ![q] = next_id]
    /\ next_id' = NextId(next_id)
    /\ dns_task' = "insert"
    /\ UNCHANGED <<others, inflight, up, down, link, listed, srv, got>>

OtherFlowTakesId ==
    /\ others < OtherFlows
    /\ others' = others + 1
    /\ next_id' = NextId(next_id)
    /\ UNCHANGED <<ids, dns_task, cur, inflight, up, down, link, listed, srv, got>>

\* A variant that reads the shared allocator again instead of keeping its id.
InsertReread ==
    /\ dns_task = "insert"
    /\ inflight' = [inflight EXCEPT ![IF next_id = 1 THEN MaxId ELSE next_id - 1] = cur]
    /\ dns_task' = "send"
    /\ UNCHANGED <<next_id, others, ids, cur, up, down, link, listed, srv, got>>

Insert ==
    /\ dns_task = "insert"
    /\ inflight' = [inflight EXCEPT ![ids[cur]] = cur]
    /\ dns_task' = "send"
    /\ UNCHANGED <<next_id, others, ids, cur, up, down, link, listed, srv, got>>

Send ==
    /\ dns_task = "send"
    /\ link = "up" /\ Len(up) < Cap
    /\ up' = Append(up, [channel |-> ids[cur], query |-> cur])
    /\ dns_task' = "recv"
    /\ UNCHANGED <<next_id, others, ids, cur, inflight, down, link, listed, srv, got>>

\* A dead link shows when the writer task fails to write; until then its queue
\* still takes frames, afterwards the DNS task ends.
SendOnDeadLink ==
    /\ dns_task = "send"
    /\ link = "down"
    /\ dns_task' \in {"recv", "ended"}
    /\ UNCHANGED <<next_id, others, ids, cur, inflight, up, down, link, listed, srv, got>>

\* The demux task takes whoever is remembered, whatever the response says, and
\* hands a response on unless it is empty; send_to may fail, which is only logged.
Demux ==
    /\ down # <<>>
    /\ down' = Tail(down)
    /\ LET f == Head(down)
           peer == inflight[f.channel]
       IN
       /\ inflight' = [inflight EXCEPT ![f.channel] = None]
       /\ \/ /\ peer # None /\ f.reply # None
             /\ got' = [got EXCEPT ![peer] = Append(@, f.reply)]
          \/ UNCHANGED got
    /\ UNCHANGED <<next_id, others, ids, dns_task, cur, up, link, listed, srv>>
-----------------------------------------------------------------------------
(* The server: a task per query *)

SpawnDns ==
    /\ up # <<>>
    /\ up' = Tail(up)
    /\ LET f == Head(up) IN
       srv' = [srv EXCEPT ![f.query] =
                 [pc |-> "asking", channel |-> f.channel, ns |-> 1, reply |-> None]]
    /\ UNCHANGED <<next_id, others, ids, dns_task, cur, inflight, down, link, listed, got>>

\* A variant in which all queries share one socket: a resolver's late answer to
\* another query is taken for this one's.
AnswerOnSharedSocket(q) ==
    /\ srv[q].pc = "asking"
    /\ \E r \in Queries :
         /\ srv[r].pc # "none"
         /\ srv' = [srv EXCEPT ![q].reply = r, ![q].pc = "replying"]
    /\ UNCHANGED <<next_id, others, ids, dns_task, cur, inflight, up, down, link, listed, got>>

\* dns_query_one: a socket of its own for each attempt, so what arrives answers
\* this query.
ResolverAnswers(q) ==
    /\ srv[q].pc = "asking"
    /\ srv' = [srv EXCEPT ![q].reply = q, ![q].pc = "replying"]
    /\ UNCHANGED <<next_id, others, ids, dns_task, cur, inflight, up, down, link, listed, got>>

\* A variant that sends nothing when all resolvers have failed.
ResolverFailsSilently(q) ==
    /\ srv[q].pc = "asking"
    /\ srv' = IF srv[q].ns < Resolvers
              THEN [srv EXCEPT ![q].ns = @ + 1]
              ELSE [srv EXCEPT ![q].pc = "done"]
    /\ UNCHANGED <<next_id, others, ids, dns_task, cur, inflight, up, down, link, listed, got>>

\* A send error or DNS_TIMEOUT: on to the next resolver, and after the last one
\* an empty response.
ResolverFails(q) ==
    /\ srv[q].pc = "asking"
    /\ srv' = IF srv[q].ns < Resolvers
              THEN [srv EXCEPT ![q].ns = @ + 1]
              ELSE [srv EXCEPT ![q].pc = "replying"]
    /\ UNCHANGED <<next_id, others, ids, dns_task, cur, inflight, up, down, link, listed, got>>

Respond(q) ==
    /\ srv[q].pc = "replying"
    /\ link = "up" => Len(down) < Cap
    /\ srv' = [srv EXCEPT ![q].pc = "done"]
    /\ down' = IF link = "up"
               THEN Append(down, [channel |-> srv[q].channel, reply |-> srv[q].reply, query |-> q])
               ELSE down
    /\ UNCHANGED <<next_id, others, ids, dns_task, cur, inflight, up, link, listed, got>>

LoseLink ==
    /\ MayLoseLink
    /\ link = "up"
    /\ link' = "down"
    /\ \E m \in 0 .. Len(up) : up' = SubSeq(up, 1, m)
    /\ \E m \in 0 .. Len(down) : down' = SubSeq(down, 1, m)
    /\ UNCHANGED <<next_id, others, ids, dns_task, cur, inflight, listed, srv, got>>
-----------------------------------------------------------------------------
Next ==
    \/ \E q \in Queries : Recv(q)
    \/ OtherFlowTakesId
    \/ Insert \/ Send \/ SendOnDeadLink \/ Demux
    \/ SpawnDns
    \/ \E q \in Queries : ResolverAnswers(q) \/ ResolverFails(q) \/ Respond(q)
    \/ LoseLink

Spec == Init /\ [][Next]_vars

\* Every task that can go on does; a resolver answers or its timeout fires.
FairSpec ==
    /\ Spec
    /\ WF_vars(Insert \/ Send)
    /\ WF_vars(Demux)
    /\ WF_vars(SpawnDns)
    /\ \A q \in Queries :
         /\ WF_vars(ResolverAnswers(q) \/ ResolverFails(q))
         /\ WF_vars(Respond(q))
-----------------------------------------------------------------------------
\* Every variable has its type, and what the DNS task works on has an id.
DnsTypeOK ==
    /\ next_id \in 1 .. MaxId
    /\ others \in 0 .. OtherFlows
    /\ ids \in [Queries -> 0 .. MaxId]
    /\ dns_task \in {"recv", "insert", "send", "ended"}
    /\ cur \in QueryOrNone
    /\ dns_task \in {"insert", "send"} => cur \in Queries /\ ids[cur] # 0
    /\ inflight \in [1 .. MaxId -> QueryOrNone]
    /\ up \in Seq(Request)
    /\ down \in Seq(Response)
    /\ link \in {"up", "down"}
    /\ listed \in 0 .. MaxListed
    /\ srv \in [Queries -> SrvTask]
    /\ \A q \in Queries : srv[q].ns <= Resolvers /\ (srv[q].pc # "none" => srv[q].channel # 0)
    /\ got \in [Queries -> Seq(Queries)]

\* No other query was given the id of q.
Unshared(q) == \A r \in Queries \ {q} : ids[r] # ids[q]

\* However the answers overtake each other, a socket is sent answers to queries
\* with its own id only; when nobody shares its id, that is the answer to its own
\* query, and no more than once.
AnswersAreOwn ==
    \A q \in Queries :
        /\ \A k \in DOMAIN got[q] : ids[got[q][k]] = ids[q]
        /\ Unshared(q) => got[q] \in {<<>>, <<q>>}

\* The query is with the server, or its response is on its way back.
Outstanding(q) ==
    \/ \E k \in DOMAIN up : up[k].query = q
    \/ srv[q].pc \in {"asking", "replying"}
    \/ \E k \in DOMAIN down : down[k].query = q

\* Whenever a response may still come back, its asker is remembered under the
\* channel it will carry, whatever other queries share among them: no answer is
\* ever dropped for want of an asker, unless another query has the same id.
AskerIsRemembered ==
    \A q \in Queries : Unshared(q) /\ Outstanding(q) => inflight[ids[q]] = q

\* dns_inflight does not leak: while the link lives, an entry is removed in the
\* end even when every resolver fails, also after ids were reused.
NoEntryLeaks ==
    \A i \in 1 .. MaxId : inflight[i] # None ~> inflight[i] = None \/ link = "down"
-----------------------------------------------------------------------------
(* Why the answers find their askers: an inductive invariant.  It says where a  *)
(* query can be, and that whatever belongs to it carries its id.                *)

\* The DNS task has given q its id and has not sent it yet.
Working(q) == dns_task \in {"insert", "send"} /\ cur = q

InDown(q) == \E k \in DOMAIN down : down[k].query = q

\* Requests, tasks, responses, entries and answers carry the ids of their queries.
OwnIds ==
    /\ \A k \in DOMAIN up : up[k].channel = ids[up[k].query]
    /\ \A k \in DOMAIN down : down[k].channel = ids[down[k].query]
    /\ \A q \in Queries : srv[q].pc # "none" => ids[q] # 0 /\ srv[q].channel = ids[q]
    /\ \A i \in 1 .. MaxId : inflight[i] # None => ids[inflight[i]] = i
    /\ \A q \in Queries : \A k \in DOMAIN got[q] : ids[q] # 0 /\ ids[got[q][k]] = ids[q]

\* A task or a response that says something says the answer to its own query.
OwnReplies ==
    /\ \A q \in Queries : srv[q].reply \in {None, q}
    /\ \A k \in DOMAIN down : down[k].reply \in {None, down[k].query}

\* A query is in one place: with the DNS task, then on its way up, then with its
\* server task, then on its way down; only then is there an answer.
OnePlace ==
    /\ \A q \in Queries : Working(q) => srv[q].pc = "none"
    /\ \A k \in DOMAIN up : srv[up[k].query].pc = "none" /\ ~Working(up[k].query)
    /\ \A k \in DOMAIN down : srv[down[k].query].pc = "done"
    /\ \A j, k \in DOMAIN up : up[j].query = up[k].query => j = k
    /\ \A j, k \in DOMAIN down : down[j].query = down[k].query => j = k
    /\ \A q \in Queries : srv[q].pc # "done" \/ InDown(q) => \A k \in DOMAIN got[q] : got[q][k] # q

\* From the moment it is inserted until its response is delivered an entry stays.
EntriesStay ==
    \A q \in Queries :
        Unshared(q) /\ (Outstanding(q) \/ (dns_task = "send" /\ cur = q))
            => inflight[ids[q]] = q

\* The inductive invariant: whatever order requests, answers and deliveries take,
\* ids, places and entries of the queries agree.
DnsInv == OwnIds /\ OwnReplies /\ OnePlace /\ EntriesStay /\ AnswersAreOwn
=============================================================================
