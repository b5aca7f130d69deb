# A TLA+ model of kubectl-sshuttle / rushtle

This directory holds TLA+ modules for the parts of the repository whose
correctness depends on the order of concurrent events, the TLC configurations
that check them on small instances, and TLAPS proofs of theorems about them.
Paths such as `client.rs:137` are relative to `rushtle/src/`.

## 1. The system

`kubectl sshuttle` is a kubectl plugin (Go, `cmd/`, `proxy/`) that gives a laptop
a route into a cluster. `create` deploys a proxy pod; `connect` runs either
stock sshuttle over `kubectl exec`, or `rushtle`, a Rust port of sshuttle's
protocol that runs at both ends (`rushtle/src/`). The rushtle client redirects
outgoing TCP connections and DNS queries to itself with iptables or pf,
and multiplexes them as frames over one `kubectl exec` session, whose stdin and
stdout are the two directions of the link. The rushtle server in the pod opens
the real connections.

| part | state it keeps | operations | interacts with |
|------|----------------|------------|----------------|
| frame codec (`ssnet.rs`) | frame delay | read and write a frame, sync header, payload codecs | both ends |
| client TCP path (`client.rs` `run`, `accept_loop`, `handle_conn`) | id allocator, map of channels, bounded queues, tasks | accept, connect, relay in two halves, clean up; writer and demux tasks | link, firewall |
| client link set-up (`link_setup`, `ensure_link`, `probe_once`) | child process, frame delay | spawn, sync, probe, retry with a delay, respawn | link |
| client DNS (`client.rs` `run`) | map from id to waiting peer | forward a query, deliver the answer | link, the same id allocator |
| server frame loop and TCP path (`server.rs` `run`, `spawn_tcp_connect`) | map of channels, queues, tasks | dispatch a frame, connect, relay, clean up, shut down | link |
| server DNS (`spawn_dns`) | one task per query | ask resolvers in turn with a timeout, answer | link, resolvers |
| server UDP (`spawn_udp_open`) | map of UDP channels, a queue and two tasks per socket | open, relay, close | link; used by stock sshuttle clients |
| server start and host list (`server.rs` `run`) | the `BufReader` of stdin, the writer task's queue | greet, answer PING and HOST_REQ, exit | link |
| bootstrap eater (`consume_sshuttle_bootstrap`) | position in stdin | skip the assembler protocol | stock sshuttle client |
| firewall, Linux (`firewall/linux.rs`) and signals (`client.rs:159-199`) | the kernel's nat tables | install, remove, original destination | client start, signals |
| firewall, macOS (`firewall/macos.rs`) | pf anchor, token of `pfctl -E`, `STATE` | install, remove, original destination | client start, signals |
| firewall, other systems (`firewall/stub.rs`) | none | refuse | client start |
| SSH shim (`cmd/sshproxy.go`) | none, or a pump of chunks between two pipes and a cancellable child | parse ssh arguments, exec kubectl or pump | stock sshuttle |
| plugin commands (`cmd/`, `proxy/deployment.go`) | cluster objects | create, connect, status, delete | kubectl |

### What is hard here

- **Locks held across waits.** The demux task and the server's frame loop keep
  the channel map locked while they wait for room in one channel's queue
  (`client.rs:135-138`, `server.rs:143-146`, `server.rs:171-174`), and every
  cleanup needs that lock.
- **Ids without identity.** Everything is routed on a 16-bit id that is allocated
  under one lock, registered under another and removed by whoever finishes;
  after 65535 connections and DNS queries it wraps.
- **Ends of streams.** EOF drops a sender while chunks are queued; a dead session
  ends the demux task silently; neither may lose data and look like a close.
- **A network that harms bursts.** The probe must tell, from PONGs, timeouts and
  the text of errors, whether to pace frames or to start a new session.
- **State outside the process.** iptables rules and pf anchors survive the client;
  signals, kills and failing commands come between any two of them, and `STATE`
  (`macos.rs:93`), which says what there is to undo, does not survive.
- **A byte stream with two languages.** A stock sshuttle sends a python program
  and then frames, through a pump that cuts anywhere, over a session that may end
  anywhere; one `BufReader` serves both readers.
- **Processes in a row.** sshuttle, ssh-proxy, kubectl and the server end in any
  order, and each end has to reach the others with the right verdict.

The full list of hazards, each at its line with the properties that cover it, is
under `hazards` in `PROJECT.json`.

## 2. Modules

| module | models | builds on |
|--------|--------|-----------|
| `ChannelIds` | the allocator of channel ids (`client.rs:269-274`) | |
| `Ssnet` | frames and the two directions of the kubectl-exec pipe, with its death | `ChannelIds` |
| `RushtleClient` | the client's TCP path | `Ssnet` |
| `RushtleServer` | the server's frame loop and TCP path | `Ssnet` |
| `Tunnel` | client and server joined by the link: the specification, its properties and the refinement to `Streams` | the two above |
| `Streams` | what a TCP tunnel promises, without queues, ids or tasks | |
| `TunnelProofs`, `RoutingProofs` | theorems about `Tunnel` | `Tunnel`, `TLAPS` |
| `StreamsProofs` | theorems about `Tunnel`: its refinement of `Streams` | `RoutingProofs` |
| `LinkProbe` | `link_setup`, `ensure_link`, `probe_once` and `is_dead_pipe_err` | |
| `LinkProbeProofs` | theorems about `LinkProbe` | `LinkProbe`, `TLAPS` |
| `Dns` | the DNS path of both ends | `ChannelIds` |
| `DnsProofs` | theorems about `Dns` | `Dns`, `TLAPS` |
| `Udp` | the server's UDP channels | |
| `UdpProofs` | theorems about `Udp` | `Udp`, `TLAPS` |
| `Pf` | pf on macOS: anchors, tokens, and `STATE` | |
| `Firewall` | install and remove on Linux, macOS and elsewhere, the client's signal task, leftovers of earlier clients | `Pf` |
| `FirewallProofs` | theorems about `Firewall` | `Firewall`, `TLAPS` |
| `SshProxy` | the chunk pump of ssh-proxy and its child | |
| `ServerStdio` | the server's start, bootstrap eater, and the frames answered at once | |
| `StockSession` | sshuttle, ssh-proxy, kubectl and server in a row, and the refinement of their byte stream to `Streams` | the two above, `Streams` |
| `StockSessionProofs` | theorems about `StockSession` | `StockSession`, `TLAPS` |

There are no separate MC modules: TLC instantiates the specifications directly,
with model values for connections, queries, sockets and pids.

The operators whose comment says "A variant ..." are plausible bugs. No
specification uses them; each one, put in the place of the operator that follows
it, must make TLC find the property violated that `mutants` names in
`PROJECT.json`. They show that the property depends on that piece of code.

### Tunnel: state and actions

A *connection* `c` stands for an intercepted socket. The program never sees `c`;
it sees `ids[c]`. A frame carries its channel id and command, as in the code, and
two ghosts: the connection whose data it is and the position of the chunk.

- `next_id`, `acceptor`, `channels`: the allocator, the connection an accept loop
  has numbered but not yet registered, and the `ChanMap`. The DNS task takes ids from
  the same allocator: `DnsTakesId`, up to `MaxQueries` times, which `dns_ids` counts;
  what becomes of its queries is in `Dns`. `AcceptConn` is
  `accept` plus the allocation, `InsertChannel` the registration and the spawn of
  `handle_conn`: other tasks run between the two locks.
- `conn_pc`, `a_task`, `b_task`: `handle_conn` before and after CONNECT is
  queued, and its halves. `SendConnect`, `ConnectNotSent` (the early return),
  `AReadData`, `AReadEnd`, `ASendEof`, `BWrite`, `BWriteFail`, `BEnd`,
  `RemoveChannel`.
- `out_tx`, `writer`, `demux`, `demux_held`: the bounded queue, the writer task
  and the demux task; `demux_held` is the frame that is being delivered while the
  map is locked. One action per arm of the `match`.
- The server mirrors this: `tcp_chans`, `loop_held` and `srv_loop` are the loop's
  map, its held frame and its state ("run", "draining" after stdin ended,
  "exited"); `task_pc`, `w_task`, `r_task` are `spawn_tcp_connect`.
- The environment: applications and targets write, close, stop reading
  (`MayReset`, `MayBreak`) or refuse (`Refusing`); `LoseLink` kills the session
  and cuts each direction off anywhere.

### The other modules

- `LinkProbe`: `pc` follows the set-up; `up` and `down` are the frames under way,
  each with the burst it belongs to (a ghost) and whether a delay followed it.
  `net` is the network, chosen at the start: *bursty* harms frames written back
  to back, *hostile* harms paced ones too, *slow* also delivers in pieces and
  after the timeout. `ProbeError` is what the two `match`es make of an error;
  `partial` and `skewed` follow a `read_exact` that the timeout cancels.
- `Dns`: a query is the socket that asked it. The DNS task takes an id, then
  remembers the asker, then sends: three steps (`Recv`, `Insert`, `Send`). Each
  query has a server task that goes through the resolvers.
- `Udp`: a socket per UDP_OPEN with its two tasks; `held` is the datagram the loop
  delivers while `udp_chans` is locked. `HandOver` is what the sender task does with a
  datagram: the kernel sends it (`sent`) or `send_to` fails (`refused`), or, when its
  target does not parse, nothing.
- `Firewall`: one step per iptables or pfctl command. `os` is the system the client
  was built for; `Install` is its sequence of commands. On Linux the removal is
  `Drain`, `FlushStep`, `Delete`, `DeleteAgain` on both tables; on macOS
  `RemoveAnchor` and `ReleaseToken`, if `STATE` says so (`NothingToRemove` if not).
  `pid` names the chain or anchor, so a later process may find a leftover of its
  own name; `Process` tells processes with one pid apart.
- `SshProxy`: bytes are the positions in what sshuttle writes. `os_stdin`, `buf` and
  `kstdin` are the pipe from sshuttle, the pump's buffer and kubectl's pipe; `pump`
  is the goroutine, `ctx_done` the context, `shim` what `cmd.Wait` leads to. kubectl
  may turn `deaf`: it lives on but rejects its stdin.
- `ServerStdio`: `inbuf` is the `BufReader`, `taken` what was consumed, `stage` the
  read the server is in. `Fill` is a read from stdin, `TakeName`, `TakeCount`,
  `TakeBody`, `TakeHeader`, ... consume one byte. `session` fixes the bytes that
  sshuttle will write: a program (or none) and frames, a frame's header being one
  byte. `out`, `writer` and `stdout` are the writer task, `stage = "draining"` the
  wait for it. A CONNECT that parses sets `open`: a flow holds a sender of `out`, and
  the writer task cannot end by itself before `FlowsEnd`. The greeting may fail
  (`GreetFails`) once kubectl has gone.

## 3. What the runs check

All runs set `CHECK_DEADLOCK FALSE`: the workloads are finite, and a client on
which nobody opens a connection has nothing to do.

| run | instance | shows |
|-----|----------|-------|
| `two_flows` | 2 connections, 2 ids, both accept loops, every queue and the pipe of size 1; one connection asks, the other is answered, the first may be refused | `TypeOK`: types, and the capacity of every queue; `NoCrosstalk`: nobody receives another connection's data; `RoutingInv`: why; `ChannelsNeverStolen`: no late cleanup removes another connection's channel; `StreamsPromise`: the tunnel implements `Streams`; `FlowsFinish`, `TasksFinish`: two flows in each other's way are torn down, also through STOP |
| `one_flow` | 1 connection and 1 DNS query that share the only id, 2 chunks each way against inbound queues of 1, peers that stop reading, greeting frames, link loss | `StreamsPromise` under loss and full queues; `FlowsFinish`, `TasksFinish`: back pressure on locks and queues never blocks the tear-down while the link lives |
| `link_probe` | bursts of 3, all three networks | `RetriesArePaced`, `GoodMeansNothingLost`, `LinkComesUp`, `SetupDecides` |
| `dns_queries` | 3 queries, 1 other flow, 3 ids, 0 to 2 nameservers listed, link of 1 frame each way, link loss | `AnswersAreOwn`: an answer reaches its own asker, and once, unless an id is shared; `AskerIsRemembered`: nor is one dropped; `DnsInv`: why; `NoEntryLeaks` |
| `udp_channels` | 2 sockets, 2 channels, reopening, queues of 1, 2 datagrams each way, targets that parse and targets that do not, sends that fail | `ClosedFallsSilent`, `LoopNeverStuck`; `QueuedIsSent`: each queued datagram for an IPv4 target is sent, or refused by the kernel, unless the loop exits first |
| `fw_pids` | all three systems, 2 pids used twice each, both tables, 2 kills, 1 failing command, early signals | `CleanupIsComplete`, `FailedCleanupIsHarmless`, `RedirectIsOwn`, `HookedIsWhole`; `FirewallInv`: why; `CleanupEnds` |
| `stock_session` | pipes, chunks and writer queue of 2; no program with up to 2 commands, among them a CONNECT whose flow may stay open, an empty program or one module behind a byte of assembler with at most one bad CONNECT after it, an oversized host list; kubectl dies or turns deaf, signals, read errors | `StdinPromise`: the server's input is sshuttle's output (refines `Streams`); `EaterInStep`: program and frames are told apart exactly; `RepliesInOrder`; `SuccessIsTrue`: exit code 0 means that the server ended by itself; `SessionInv`: why; `SessionEnds`, `ServerEnds`: a signal or the end of kubectl ends the session in any case, a hang-up when no flow stays open, and then the server ends, too |

Bounds. Queues of one or two frames reach every case that depends on a queue being
empty, partly filled or full; the code's 64 and 1024 only make the full case
rarer. Two connections are what a mix-up takes. Three ids for four takers in
`dns_queries`, and one id for two in `one_flow`, make the allocator wrap; in
`two_flows` no id comes twice, and what holds of connections that share one is
the theorem `RoutingInvariant`. In `one_flow` `MaxUp` and `MaxDown` exceed `InCap`, so that
the lock holders do wait. `Asking` and `Answering` say which connections carry data in
which direction: in `two_flows` one each, which keeps both directions busy at a
fraction of the states. Three frames in a burst allow losing some, answering some
and keeping the rest. `DrainLimit` is 1 where the code has 16: with two processes per
pid the loop just reaches its limit. Pipes and chunks of two bytes cut a
module's record and a frame at every place. The module's body is an
empty line and a digit, so that it could be taken for a name or a count.
`MaxQueries`, `OtherFlows`, `MaxListed`, `MaxData`, `MaxReplies`, `MaxRuns`, `MaxKills`,
`MaxFails`, `MaxFrames` and `MaxAfter` bound the environment, never the code.

### Disagreements

Five runs are expected to find their property violated. Each property states what
the repository says of the program; the counterexample is what the code does.

| run | what happens |
|-----|--------------|
| `refused_connect` | The target refuses while the client keeps sending. The inbound queue fills, the frame loop waits for room with `tcp_chans` locked, and the task that would drop the queue waits for `tcp_chans` (`server.rs:145`, `:271`). Neither goes on, and every other flow stops. `two_flows` stays below this on purpose: its refused connection sends at most one chunk, which its queue holds. |
| `server_shutdown` | stdin ends while a connection is open. The loop breaks, but nothing removes the sender from `tcp_chans`, so the connection's task, and with it the writer task that `run` awaits, never ends (`server.rs:193`). |
| `probe_dead` | The session dies inside a payload of the second burst; the error reads "early eof", which `is_dead_pipe_err` does not know (`client.rs:378`), and no second session is started. |
| `fw_signal` | A signal during `install`, or before the signal task is first polled, has its default action and leaves the chain hooked (`client.rs:160-178`). |
| `pf_install_fails` | `pfctl -E` fails after the anchor was loaded (`macos.rs:184`); `STATE` is not set yet, so the removal that `run` calls (`client.rs:162`) undoes nothing and the rules stay loaded. |

More observations, which have no run of their own:

- The allocator wraps to 1 and hands out ids that are still in use
  (`client.rs:272`). Properties about data are therefore stated for ids that are
  distinct (`IdsDistinct`, `Unshared`).
- On a *slow* network late PONGs of the first burst count for the second, so
  `GoodMeansNothingLost` excludes it.
- A UDP socket that receives nothing keeps the server alive after stdin has ended,
  in the same way as `server_shutdown`.
- A stock sshuttle that hangs up with a flow open leaves ssh-proxy and kubectl
  waiting for that server, for the same reason; a signal ends them. Hence the premise
  `NoFlowStays` of `SessionEnds` and `ServerEnds`, without which TLC refutes both.
- A datagram for an IPv6 target is never sent: `ip:port` without brackets does not
  parse (`server.rs:425`). `QueuedIsSent` is stated for IPv4, and allows for a
  `send_to` that fails, which the code logs and forgets (`server.rs:432-434`).
- A host list above 65535 bytes ends the writer task (`ssnet.rs:158`,
  `server.rs:76-78`); the server then reads on and answers nothing.
- When kubectl rejects its stdin and stays up, ssh-proxy notices at its next write
  only: if sshuttle says nothing more, it waits on, even after a hang-up
  (`SessionEnds` says so).
- A killed client's chain stays hooked and keeps redirecting, which
  `README.md:257-259` calls dead rules.

### Fairness

`FairSpec` of each module gives weak fairness to each task that can proceed: the
tokio runtime runs ready tasks, and its queues and locks are first come first
served. The actions of one task share one condition, because a task takes one of
them at a time. What the environment does is fair only where the code has a
bound of its own, or where a property is about what follows: a resolver answers
or `DNS_TIMEOUT` fires; the probe's timer fires; iptables returns (`-w 5`);
connects are answered or fail; the peers of a connection close in the end
(`PeersClose`, kept apart, since no code enforces it); a cancelled kubectl is
killed, and kubectl returns when the remote command has ended. Nobody has to
open a connection, refuse one, lose the link, send a datagram or a signal, write
to ssh-proxy or hang up. That
a live session greets (`ServerBoot`) is an assumption: the wait for the sync
header has no limit (`client.rs:405`).

## 4. What is proved

For all values of the constants that satisfy the named assumptions of the modules:

| theorem | module | statement |
|---------|--------|-----------|
| `TypeCorrect` | `TunnelProofs` | `Spec => []TypeOK` |
| `RoutingInvariant` | `RoutingProofs` | `Spec => []RoutingInv` |
| `RoutingIsRight` | `RoutingProofs` | `Spec => []NoCrosstalk` |
| `ChannelsAreOwned` | `RoutingProofs` | `Spec => ChannelsNeverStolen` |
| `StreamsInvariant` | `StreamsProofs` | `Spec => []StreamsInv` |
| `TunnelKeepsPromise` | `StreamsProofs` | `Spec /\ []IdsDistinct => StreamsPromise` |
| `IdsStayDistinct` | `StreamsProofs` | `Spec => []IdsDistinct`, if `Cardinality(Conns) + MaxQueries <= MaxId` |
| `TunnelImplementsStreams` | `StreamsProofs` | `Spec => StreamsPromise`, likewise |
| `DnsTypeCorrect` | `DnsProofs` | `Spec => []DnsTypeOK` |
| `DnsInvariant` | `DnsProofs` | `Spec => []DnsInv` |
| `AnswersCorrect` | `DnsProofs` | `Spec => []AnswersAreOwn` |
| `AskersCorrect` | `DnsProofs` | `Spec => []AskerIsRemembered` |
| `FirewallTypeCorrect` | `FirewallProofs` | `Spec => []FirewallTypeOK` |
| `ServesItsOwnRedirect` | `FirewallProofs` | `Spec => []RedirectIsOwn` |
| `HookedChainsAreWhole` | `FirewallProofs` | `Spec => []HookedIsWhole` |
| `CleanupLeavesNothing` | `FirewallProofs` | `Spec => []CleanupIsComplete`, if `MaxRuns <= DrainLimit + 1` |
| `OneFailureRedirectsNothing` | `FirewallProofs` | `Spec => []FailedCleanupIsHarmless`, likewise |
| `FirewallInvariant` | `FirewallProofs` | `Spec => []FirewallInv`, likewise |
| `SessionTypeCorrect` | `StockSessionProofs` | `Spec => []SessionTypeOK` |
| `SessionInvariant` | `StockSessionProofs` | `Spec => []SessionInv` |
| `SuccessIsTrustworthy` | `StockSessionProofs` | `Spec => []SuccessIsTrue` |
| `EaterStaysInStep` | `StockSessionProofs` | `Spec => []EaterInStep` |
| `RepliesStayInOrder` | `StockSessionProofs` | `Spec => []RepliesInOrder` |
| `StdinIsKept` | `StockSessionProofs` | `Spec => StdinPromise` |
| `UdpTypeCorrect` | `UdpProofs` | `Spec => []UdpTypeOK` |
| `ClosedChannelsFallSilent` | `UdpProofs` | `Spec => []ClosedFallsSilent` |
| `ProbeTypeCorrect` | `LinkProbeProofs` | `Spec => []ProbeTypeOK` |
| `LaterBurstsArePaced` | `LinkProbeProofs` | `Spec => []RetriesArePaced` |
| `GoodLinksLoseNothing` | `LinkProbeProofs` | `Spec => []GoodMeansNothingLost` |

The assumptions say what the constants are: queues, pipes and chunks of at least
one element (`SsnetAssumption`, `TunnelAssumption`, `UdpAssumption`, `DnsAssumption`,
`SshProxyAssumption`, `ServerStdioAssumption`), at least one id (`MaxIdAssumption`), bursts
of at least one frame (`ProbeAssumption`), known systems and networks
(`FirewallAssumption`), commands that have a payload (`SessionAssumption`). Each is
evaluated by TLC in some run. The condition of the three theorems about the
cleanup is no assumption of the module: `remove_one` gives up after `DrainLimit + 1`
jumps (`linux.rs:261-266`), so the theorems bound by it how many processes may have
been given one pid. `fw_pids` checks the case of equality. Nor is it one that
connections and DNS queries together are no more than the ids: the allocator they share
wraps and does not look whether an id is in use (`client.rs:272`), so that beyond 65535
of them `IdsDistinct` is not true of every behaviour. `TunnelKeepsPromise` says what holds of those in which it is.

**Routing.** `NoCrosstalk` is about what sockets received and is not inductive. `RoutingInv`
adds, from the end of the path to its start: `RightQueues`, each inbound queue
holds its own connection's chunks; `RightMaps`, a map holds a connection under its
own id only; `RightFrames`, every frame in any queue or pipe carries the id of
its connection; `RightTasks`, who works for a connection was started with its id.
`RightFrames` and `RightMaps` hold without assuming distinct ids, since an id is
never changed once it is given; distinctness is used in one place, where a frame
is delivered to whoever is in the map. `ChannelsNeverStolen` follows from
`RoutingInv`: whoever removes an entry does so under its own id, or under that of a frame
of the connection that is there.

**The stream promise.** `StreamsInv` is defined where it is proved, and has two parts.
`LifeInv` says in which order a connection lives: CONNECT is the first of its frames on
the link (`Announced`), neither end hears of it before (`ConnLife`, `TaskLife`), the frame in
the hand of a lock holder is for a channel in the map (`HeldIsOpen`), a writer task dies
only with the link (`DeadWriters`). `FlowInv` says for each direction where its chunks are
(`Carried`): so many have arrived; the next ones are in the receiver's hand, then on the
pipe, then, while the link is up, in the sender's queue; what says that the
stream is over comes behind all of them, and only when the sender is done. `UpDone` and
`DownDone` add that a channel taken from the map has had everything. Ids enter in the
places where a frame is delivered or an entry is removed: with distinct ids it is the
connection's own. The step lemmas go through the queues first (appending, taking
the head, losing a tail) and then through the actions. Each action then is a `Write`,
`Close`, `Deliver`, `End` or `Cut` of `Streams` or a stutter. That ids are distinct follows
from the allocator's counter, which is one more than the number of connections
and queries that have an id until all of them have one. TLC checked `StreamsInv` with the constants of
`two_flows`, `one_flow`, `server_shutdown` and `refused_connect` before it was proved.

**DNS.** Neither property of `Dns` is inductive: that the entry under an id is still the
asker's when its answer arrives depends on where the query has been. `DnsInv` adds
`OwnIds`, requests, tasks, responses, entries and answers carry the ids of their
queries; `OwnReplies`, what a task or a response says answers its own query;
`OnePlace`, a query is with the DNS task, on its way up, with its server task or on
its way down, never in two places and never answered before; `EntriesStay`, the entry
is there from `Insert` to `Demux`. Two answers to one query are impossible since it
is in one place; an entry cannot be taken early since another response with its
channel would be of a query with the same id.

**Firewall.** `FirewallInv` counts. `InstallGoesOn` says how much of the sequence of
commands is in the kernel while `Install` runs; `JumpsAreCounted`, that OUTPUT never has
more jumps to a chain than processes had its pid; `RemoveGoesOn`, what the finished
steps of a removal have taken away, and that at most one command of them failed. A
chain is deleted only after its jumps were drained, and the count bounds the
jumps: this is where the condition on `DrainLimit` enters. That a serving client's chain
is hooked says at least once: installing does not drain what an earlier process with
its pid has left, so there may be a jump more.

**A stock session.** The refinement of `Streams` rests on `InOrder`: `taken`, `inbuf`,
`stdin`, `kstdin`, `buf` and `os_stdin`, one after the other, are consecutive positions,
which end at `sent` as long as nothing was cut; `EndsInOrder`, an end of input is seen
only after the end before it and an empty pipe; `EaterInv` and `LoopInv`, how the
server's place in the eater or the loop follows from how much it has taken, so that
a count is read where a count was written; `EndInv`, what each exit code is due to.
Every action then maps to a step of `Streams` or to a stutter.

`EaterInStep` and `RepliesInOrder` are about flattened sequences, which is induction over
data. The library's induction theorems take an operator as a parameter, which the provers
cannot instantiate; `Induction` takes a set instead and follows from `WFMin`. With it
`FlattenLemma` shows that the function inside `FlattenSeq` exists and that one part more
comes at the end of the result. `ConsumedInv` then says for each stage of the reader what it
has consumed: what was served, and of the frame in hand the header, or all of it. The theorem is
about the two programs that `Programs` names, and any number of frames after either. `WrittenInv`:
what is written begins the replies, and the queue holds exactly the rest as long as
the writer task lives. Both were checked by TLC with the constants of `stock_session` first.

**UDP and the probe.** `UdpInv` and `ProbeInv` are defined where they are proved. `UdpInv`:
the map and the sockets agree on the channel, and a socket that spoke once after its
entry went is unregistered for good. `ProbeInv`: bursts are numbered in the order they
are written, every frame under way belongs to one of them and frames keep the
order of the bursts, and a frame of the current burst that was lost stays missing,
so that a full count of answers means that none was. TLC checked both with the constants of
`udp_channels` and `link_probe` before they were proved.

The step lemmas follow the structure of each `Next`: component, then one step per action,
then one per conjunct it disturbs. `QueueLemma` and its kin state once what
`Append` and `Tail` do to a typed queue.

Every safety property that a passing run checks, invariant, action property or refinement,
is thus proved. Model-checked only: all liveness, `NoEntryLeaks`, `SessionEnds` and
`CleanupEnds` among it (fairness and ENABLED are beyond the prover), and the five
disagreements, which are counterexamples.

## 5. Abstractions

- A socket read and the `send` of what was read are one step (`AReadData`,
  `RReadData`): what a task has in hand while it waits for room is
  not a state of its own. The frame a writer task has in hand counts as queued.
- `LoseLink` ends both directions at once, each at a point of its own. The link of
  `Dns` merges each direction's queue and pipe into one bounded queue.
- `Tunnel` leaves out what rushtle's client never sends: a CONNECT that does not
  parse, EXIT and HOST_REQ are in `ServerStdio`. The empty chunk at which halves
  would break never occurs, since a read of 0 bytes is reported as EOF. A
  connection whose original destination cannot be found is dropped before it has
  an id: it is one that is never accepted.
- In `LinkProbe` a frame cut short on its way up counts as a killed session: the
  server cannot parse on and stops. Payload mismatches are not modelled.
- In `Udp` a datagram is its number and the family of its target; a frame that
  does not parse is skipped by the loop and changes no state.
- In `Dns` an answer that the client cannot hand to its asker is lost (`client.rs:149`).
- In `Firewall` the rules of all nameservers, and of all subnets, are one rule
  each. A command is atomic. `pfctl -E` that succeeds prints its token. A second
  signal while the first is being handled changes nothing; a signal while a failed
  installation is undone is covered by `Kill`.
- In `StockSession` a frame's header is one byte and a count has one digit. sshuttle
  reads its stdin all the time; the harm that middleware does to unchunked writes,
  and hence the delay between chunks, is the subject of `LinkProbe`. The frames of
  TCP, UDP and DNS flows are the subject of `Tunnel`, `Udp` and `Dns`: here a flow is only
  that it is open, `open` stands for all that are, and what flows write between the
  replies is left out. A write of the
  pump moves its whole chunk at once.

Not modelled, and why:

- `original_dst` on each system and the reading of nameservers on the client: system
  calls and parsers that read state and keep none.
- Payload codecs (`ssnet.rs:205-281`), the text of the host list: pure formatting.
- Argument parsing of rushtle and of the plugin; the plugin commands, each of
  which assembles arguments and runs a program once.
- ssh-proxy without chunking: the process becomes kubectl.
- Build, packaging and smoke tests.
- `Dns` and `Tunnel` over one link: they share the allocator (`OtherFlows` in the one,
  `DnsTakesId` in the other) and the demux task, whose waits are in `one_flow`; a composition with enough of either to
  matter is beyond what TLC explores in minutes.

## 6. Plan

Done: the tunnel with its abstract specification and proofs, the link set-up, DNS with
its proofs, UDP, the firewall on every system, the session of a stock sshuttle.

Proved since: type correctness and every safety property the passing runs check, the
refinements of `Streams` included. Left: the lemmas that `StreamsProofs`, `RoutingProofs` and
`StockSessionProofs` each state for themselves (on sequences and on least numbers) could
be stated once. Liveness stays with TLC.

## 7. Running

    tlc -workers 2 -config two_flows.cfg Tunnel.tla
    tlc -workers 2 -config stock_session.cfg StockSession.tla
    tlapm TunnelProofs.tla
    tlapm RoutingProofs.tla
    tlapm StreamsProofs.tla
    tlapm DnsProofs.tla
    tlapm FirewallProofs.tla
    tlapm StockSessionProofs.tla
    tlapm UdpProofs.tla
    tlapm LinkProbeProofs.tla

`PROJECT.json` names the module of each configuration. The longest runs take
about three minutes, the longest proof (`StreamsProofs`) about five.
