------------------------------ MODULE SshProxy ------------------------------
(***************************************************************************)
(* The ssh-proxy command with chunking (cmd/sshproxy.go): it takes the     *)
(* place of ssh for a stock sshuttle, runs kubectl as a child and pumps    *)
(* its own stdin into kubectl's.  A byte is known by its position in what  *)
(* sshuttle writes.  (Without chunking the process becomes kubectl.)       *)
(***************************************************************************)
EXTENDS Naturals, Sequences, SequencesExt

CONSTANTS
    PipeCap,    \* bytes a pipe holds
    Chunk       \* bytes the pump moves at a time

ASSUME SshProxyAssumption == PipeCap \in Nat /\ Chunk \in 1 .. PipeCap

VARIABLES
    sent,       \* bytes sshuttle has written
    hangup,     \* sshuttle has closed its end, or is gone
    os_stdin,   \* the pipe from sshuttle
    buf,        \* what the pump has read and not yet written
    pump,       \* the goroutine
    kstdin,     \* kubectl's stdin, a pipe
    kstdin_closed,
    ctx_done,   \* the context of the command has been cancelled
    kubectl,    \* "run", "deaf" once it rejects its stdin, or how it ended
    shim        \* "wait" in cmd.Wait, or what the process exits with

localVars == <<sent, hangup, os_stdin>>
pumpVars == <<buf, pump, kstdin, kstdin_closed, ctx_done>>
proxyVars == <<localVars, pumpVars, kubectl, shim>>

\* How a process ends: with 0, with an error, by a signal.
Ends == {"ok", "error", "killed"}

ProxyInit ==
    /\ sent = 0
    /\ hangup = FALSE
    /\ os_stdin = <<>>
    /\ buf = <<>>
    /\ pump = "run"
    /\ kstdin = <<>>
    /\ kstdin_closed = FALSE
    /\ ctx_done = FALSE
    /\ kubectl = "run"
    /\ shim = "wait"

ProxyTypeOK ==
    /\ sent \in Nat
    /\ {hangup, kstdin_closed, ctx_done} \subseteq BOOLEAN
    /\ {os_stdin, kstdin, buf} \subseteq Seq(1 .. sent)
    /\ Len(os_stdin) <= PipeCap /\ Len(kstdin) <= PipeCap /\ Len(buf) <= Chunk
    /\ pump \in {"run", "done"}
    /\ kubectl \in {"run", "deaf"} \cup Ends
    /\ shim \in {"wait"} \cup Ends
-----------------------------------------------------------------------------
(* sshuttle, the environment *)

SshuttleWrites(max) ==
    /\ ~hangup /\ shim = "wait"
    /\ sent < max
    /\ Len(os_stdin) < PipeCap
    /\ sent' = sent + 1
    /\ os_stdin' = Append(os_stdin, sent + 1)
    /\ UNCHANGED <<hangup, pumpVars, kubectl, shim>>

Hangup ==
    /\ ~hangup
    /\ hangup' = TRUE
    /\ UNCHANGED <<sent, os_stdin, pumpVars, kubectl, shim>>
-----------------------------------------------------------------------------
(* The pump *)

Pumping == shim = "wait" /\ pump = "run"

PumpReads ==
    /\ Pumping
    /\ buf = <<>> /\ os_stdin # <<>>
    /\ LET n == IF Len(os_stdin) < Chunk THEN Len(os_stdin) ELSE Chunk IN
       /\ buf' = SubSeq(os_stdin, 1, n)
       /\ os_stdin' = SubSeq(os_stdin, n + 1, Len(os_stdin))
    /\ UNCHANGED <<sent, hangup, pump, kstdin, kstdin_closed, ctx_done, kubectl, shim>>

PumpWrites ==
    /\ Pumping
    /\ buf # <<>> /\ kubectl = "run"
    /\ Len(kstdin) + Len(buf) <= PipeCap
    /\ kstdin' = kstdin \o buf
    /\ buf' = <<>>
    /\ UNCHANGED <<localVars, pump, kstdin_closed, ctx_done, kubectl, shim>>

\* The pump returns and closes kubectl's stdin, cancelling the command or not.
PumpReturns(cancel) ==
    /\ pump' = "done"
    /\ kstdin_closed' = TRUE
    /\ ctx_done' = (ctx_done \/ cancel)
    /\ UNCHANGED <<localVars, buf, kstdin, kubectl, shim>>

PumpEof ==
    Pumping /\ buf = <<>> /\ os_stdin = <<>> /\ hangup /\ PumpReturns(FALSE)

\* A variant that returns without a word when kubectl does not read any more.
PumpWriteFailsSilently == Pumping /\ buf # <<>> /\ kubectl # "run" /\ PumpReturns(FALSE)

PumpWriteFails == Pumping /\ buf # <<>> /\ kubectl # "run" /\ PumpReturns(TRUE)

PumpReadFails == Pumping /\ buf = <<>> /\ PumpReturns(TRUE)
-----------------------------------------------------------------------------
(* The command *)

\* SIGINT or SIGTERM
Signal ==
    /\ shim = "wait"
    /\ ctx_done' = TRUE
    /\ UNCHANGED <<localVars, buf, pump, kstdin, kstdin_closed, kubectl, shim>>

\* Wait returns kubectl's exit code.  When kubectl ended well just as the context
\* was cancelled it may return the context's error.
WaitReturns ==
    /\ shim = "wait" /\ kubectl \in Ends
    /\ \/ shim' = kubectl
       \/ kubectl = "ok" /\ ctx_done /\ shim' = "error"
    /\ UNCHANGED <<localVars, pumpVars, kubectl>>
=============================================================================
