---------------------------- MODULE StockSession ----------------------------
(***************************************************************************)
(* A session of a stock sshuttle with a rushtle server in the pod: the     *)
(* sshuttle process, ssh-proxy, its kubectl and the server, in a row.      *)
(***************************************************************************)
EXTENDS SshProxy, ServerStdio, FiniteSets

CONSTANTS
    Commands,   \* the commands that may be sent
    AfterBoot,  \* those that may be sent after a bootstrap
    MaxFrames,  \* bound: how many, when there is no bootstrap
    MaxAfter,   \* bound: how many after one
    MayDie,     \* BOOLEAN: kubectl may lose its connection
    MayCancel   \* BOOLEAN: signals, and errors of reading sshuttle's pipe

ASSUME SessionAssumption ==
    /\ Commands \cup AfterBoot \subseteq DOMAIN Payload
    /\ {MaxFrames, MaxAfter} \subseteq Nat
    /\ {MayDie, MayCancel} \subseteq BOOLEAN

vars == <<proxyVars, serverVars>>

\* A module's name, its size and its bytes, which may look like anything.
Module == <<"m", "nl", "2", "nl", "nl", "1">>

\* What comes before the frames: nothing, or the bytes of a program and its
\* modules, up to an empty name.
NoProgram == [compat |-> FALSE, assembler |-> 0, program |-> <<>>]

Programs ==
    {[compat |-> TRUE, assembler |-> 0, program |-> <<"nl">>],
     [compat |-> TRUE, assembler |-> 1, program |-> <<"nl">> \o Module \o <<"nl">>]}

\* After m bytes of f a frame begins, or f ends.
Starts(f, m) == m <= Len(f) /\ (m < Len(f) => f[m + 1] # "x")

\* Each header is followed by the payload it announces, and then by the next one.
WellFramed(f) ==
    /\ Starts(f, 0)
    /\ \A k \in DOMAIN f : f[k] # "x" =>
         LET end == k + Payload[f[k]] IN
         Starts(f, end) /\ \A j \in k + 1 .. end : f[j] = "x"

FramesOf(cmds, max) ==
    {f \in BoundedSeq(cmds \cup {"x"}, 2 * max) :
        WellFramed(f) /\ Cardinality({k \in DOMAIN f : f[k] # "x"}) <= max}

Session(p, f, m) ==
    [program |-> p.program, compat |-> p.compat, assembler |-> p.assembler,
     frames |-> f, manyhosts |-> m]

After(p, cmds, max) == {Session(p, f, FALSE) : f \in FramesOf(cmds, max)}

Sessions ==
    After(NoProgram, Commands, MaxFrames)
    \cup {Session(NoProgram, <<"HOST_REQ", "PING", "x">>, TRUE)}
    \cup UNION {After(p, AfterBoot, MaxAfter) : p \in Programs}

Init == ProxyInit /\ ServerInit(Sessions)
-----------------------------------------------------------------------------
(* kubectl, which joins the pipe of ssh-proxy with the stdin of the server *)

Carry ==
    /\ kubectl = "run"
    /\ kstdin # <<>>
    /\ Len(stdin) + Len(kstdin) <= PipeCap
    /\ stdin' = stdin \o kstdin
    /\ kstdin' = <<>>
    /\ UNCHANGED <<localVars, buf, pump, kstdin_closed, ctx_done, kubectl, shim>>
    /\ UNCHANGED <<session, stdin_eof, inbuf, taken, stage, need, blank, frame, handled, outVars>>

CarryEof ==
    /\ kubectl = "run"
    /\ kstdin = <<>> /\ kstdin_closed
    /\ ~stdin_eof
    /\ stdin_eof' = TRUE
    /\ UNCHANGED <<proxyVars, session, stdin, inbuf, taken, stage, need, blank, frame, handled,
                   outVars>>

\* kubectl stays up but has done with its stdin.
KubectlGoesDeaf ==
    /\ MayDie /\ kubectl = "run"
    /\ kubectl' = "deaf"
    /\ UNCHANGED <<localVars, pumpVars, shim, serverVars>>

\* The session is gone, with any part of what was on the way.
KubectlEnds(how) ==
    /\ kubectl \in {"run", "deaf"}
    /\ kubectl' = how
    /\ stdin_eof' = TRUE
    /\ \E n \in 0 .. Len(stdin) : stdin' = SubSeq(stdin, 1, n)
    /\ UNCHANGED <<localVars, pumpVars, shim>>
    /\ UNCHANGED <<session, inbuf, taken, stage, need, blank, frame, handled, outVars>>

KubectlDies == MayDie /\ KubectlEnds("error")

KubectlKilled == ctx_done /\ KubectlEnds("killed")

\* kubectl exec ends as the remote command does.
KubectlReturns ==
    \/ stage = "exited" /\ KubectlEnds("ok")
    \/ stage = "failed" /\ KubectlEnds("error")
-----------------------------------------------------------------------------
Proxy(A) == A /\ UNCHANGED serverVars
Server(A) == A /\ UNCHANGED proxyVars

PumpStep == PumpReads \/ PumpWrites \/ PumpWriteFails \/ PumpEof

Read ==
    \/ Fill \/ TakeAssembler \/ TakeName \/ TakeCount \/ TakeBody
    \/ TakeHeader \/ TakePayload \/ AtEof

ServerStep ==
    \/ Read \/ Greet \/ Handle \/ ServerExits
    \/ GreetFails /\ kubectl \in Ends

HostListTooLong == Head(out) = "HOST_LIST" /\ session.manyhosts

Write ==
    \/ WriterWrites
    \/ WriterBreaks /\ (kubectl \in Ends \/ HostListTooLong)

Next ==
    \/ Proxy(SshuttleWrites(Len(session.program) + Len(session.frames)) \/ Hangup)
    \/ Proxy(PumpStep)
    \/ MayCancel /\ Proxy(PumpReadFails \/ Signal)
    \/ Proxy(WaitReturns)
    \/ Carry \/ CarryEof \/ KubectlGoesDeaf \/ KubectlDies \/ KubectlKilled \/ KubectlReturns
    \/ Server(ServerStep)
    \/ Server(Write)
    \/ Server(FlowsEnd)

Spec == Init /\ [][Next]_vars

\* Every process runs; nothing obliges sshuttle to write or to end, or a flow to end.
FairSpec ==
    /\ Spec
    /\ WF_vars(Proxy(PumpStep))
    /\ WF_vars(Proxy(WaitReturns))
    /\ WF_vars(Carry) /\ WF_vars(CarryEof)
    /\ WF_vars(KubectlKilled) /\ WF_vars(KubectlReturns)
    /\ WF_vars(Server(ServerStep))
    /\ WF_vars(Server(Write))
-----------------------------------------------------------------------------
Frames == {"PING", "ROUTES", "PONG", "HOST_LIST", "STOP"}

\* Every variable has its type, and every pipe and queue its capacity.
SessionTypeOK ==
    /\ ProxyTypeOK
    /\ {stdin, inbuf, taken} \subseteq Seq(1 .. sent)
    /\ Len(stdin) <= PipeCap /\ Len(inbuf) <= PipeCap
    /\ {stdin_eof, blank, open} \subseteq BOOLEAN
    /\ stage \in BootstrapStages \cup
         {"greet", "header", "payload", "handle", "draining", "exited", "failed"}
    /\ need \in Nat
    /\ frame \in DOMAIN Payload
    /\ handled \in Seq(DOMAIN Payload)
    /\ out \in Seq(Frames) /\ Len(out) <= OutCap
    /\ writer \in {"run", "done"}
    /\ stdout \in Seq(Frames \cup {"SYNC"})

\* The bytes of sshuttle's pipe reach the server in order, once and complete
\* before the end of its input, wherever chunks begin and end and whatever the
\* BufReader holds when the bootstrap is over; only an end of kubectl, or a
\* cancelled command, may cut them short.
Promise == INSTANCE Streams WITH
    Stream <- {"stdin"},
    written <- [s \in {"stdin"} |-> sent],
    closed <- [s \in {"stdin"} |-> hangup],
    got <- [s \in {"stdin"} |-> taken],
    ended <- [s \in {"stdin"} |->
                /\ stdin_eof /\ stdin = <<>> /\ inbuf = <<>>
                /\ stage \in {"draining", "exited", "failed"}],
    cut <- [s \in {"stdin"} |-> ctx_done \/ kubectl \in Ends]

StdinPromise == Promise!Spec

EncodeFrame(cmd) == <<cmd>> \o [k \in 1 .. Payload[cmd] |-> "x"]
Encode(cmds) == FlattenSeq([k \in DOMAIN cmds |-> EncodeFrame(cmds[k])])

\* What the server has consumed when it comes to the next header is the program,
\* exactly, and the frames it has served: the eater never takes a byte of the
\* frames for the program, or the other way round.
EaterInStep ==
    stage = "header" =>
        [k \in DOMAIN taken |-> ByteAt(taken[k])] = session.program \o Encode(handled)

\* What is written, the frames of flows apart, is the greeting and the replies to the
\* commands served, in their order; all of it has been written when the server exits, unless its
\* writer task had to end before.
RepliesInOrder ==
    LET replies == FlattenSeq([k \in DOMAIN handled |-> Reply(handled[k])])
        all == <<"SYNC", "PING", "ROUTES">> \o replies IN
    /\ IsPrefix(stdout, all)
    /\ stage = "exited" /\ writer = "run" => stdout = all

-----------------------------------------------------------------------------
(* Why the input arrives in order and the exit code is true: an inductive       *)
(* invariant.                                                                    *)

\* A part of the stream that begins after position n.
Run(s, n) == \A k \in DOMAIN s : s[k] = n + k

\* The parts of the stream, from the server back to sshuttle, fit together: as far
\* as kubectl's end, which cuts them off there, or all the way.
InOrder ==
    LET a == Len(taken)
        b == a + Len(inbuf)
        c == b + Len(stdin)
        d == c + Len(kstdin)
        e == d + Len(buf)
    IN  /\ Run(taken, 0) /\ Run(inbuf, a) /\ Run(stdin, b) /\ c <= sent
        /\ kubectl \notin Ends =>
             Run(kstdin, c) /\ Run(buf, d) /\ Run(os_stdin, e) /\ e + Len(os_stdin) = sent
        /\ sent <= Len(session.program) + Len(session.frames)

\* An end of input has come the whole way from sshuttle, with nothing behind it,
\* as long as nothing was cancelled.
EndsInOrder ==
    /\ kstdin_closed => pump = "done"
    /\ kubectl \notin Ends /\ stdin_eof => kstdin_closed /\ kstdin = <<>>
    /\ ~ctx_done /\ kstdin_closed => hangup /\ buf = <<>> /\ os_stdin = <<>>

\* How far the eater is into the program, and what it expects there.
At(s, n) == stage = s /\ Len(taken) = n

EaterInv ==
    stage \in BootstrapStages =>
        /\ session.compat
        /\ \/ session.assembler = 0 /\ At("name", 0) /\ blank
           \/ /\ session.assembler = 1
              /\ \/ At("assembler", 0) /\ need = 1 /\ blank
                 \/ (At("name", 1) \/ At("name", 7)) /\ blank
                 \/ At("name", 2) /\ ~blank
                 \/ At("count", 3) /\ need = 0 /\ blank
                 \/ At("count", 4) /\ need = 2 /\ ~blank
                 \/ At("body", 5) /\ need = 2 /\ blank
                 \/ At("body", 6) /\ need = 1 /\ blank

\* How far the frame loop is into the frames: it reads a header where one is.
LoopInv ==
    LET m == Len(taken) - Len(session.program) IN
    /\ stage \notin BootstrapStages \cup {"failed"} => m >= 0
    /\ stage = "greet" => m = 0
    /\ stage \in {"header", "handle"} => Starts(session.frames, m)
    /\ stage = "payload" =>
         /\ need > 0
         /\ Starts(session.frames, m + need)
         /\ \A j \in m + 1 .. m + need : session.frames[j] = "x"

\* Why the server has left its loop, and what the ends of the others mean.
EndInv ==
    /\ stage \in {"draining", "exited"} =>
         \/ hangup /\ Len(taken) = sent
         \/ ctx_done \/ kubectl \in {"error", "killed"} \/ "EXIT" \in Range(handled)
    /\ kubectl = "ok" => stage = "exited"
    /\ shim = "ok" => kubectl = "ok"

\* The inductive invariant: every byte is in one place, at its own position, the
\* server is in step with what it reads, and each end has its cause.
SessionInv == InOrder /\ EndsInOrder /\ EaterInv /\ LoopInv /\ EndInv
-----------------------------------------------------------------------------
\* ssh-proxy reports success only for a server that got past the bootstrap and
\* ended by itself: at the end of its input, or when asked to.  If ssh-proxy had
\* been cancelled (a signal, or an error of reading sshuttle's pipe), that end of
\* input may have come early.
SuccessIsTrue ==
    shim = "ok" =>
        /\ stage = "exited" /\ Len(taken) >= Len(session.program)
        /\ \/ hangup /\ Len(taken) = sent
           \/ ctx_done \/ "EXIT" \in Range(handled)

\* kubectl has ended or must end, since it was cancelled, or since it rejects what
\* the pump has for it.
Over == ctx_done \/ kubectl \in Ends \/ (kubectl = "deaf" /\ buf # <<>>)

\* No flow stays open for ever.
NoFlowStays == <>[]~open

\* The session ends on this side when a signal comes or kubectl ends or rejects its
\* input, whatever flows are open; and when sshuttle hangs up, unless a flow stays
\* open, for then the server waits for it and everyone waits for the server.  This
\* is so in whichever order these come and whatever is in the pipes; a kubectl that
\* rejects its input is noticed when there is some.
SessionEnds ==
    /\ Over ~> shim # "wait"
    /\ NoFlowStays => (hangup ~> shim # "wait" \/ kubectl = "deaf")

\* The server ends once its input has, in a session in which no flow stays open:
\* the writer task it waits for ends when the last sender of frames is gone.
ServerEnds == NoFlowStays => (stdin_eof ~> Ended)
=============================================================================
