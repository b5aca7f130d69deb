----------------------------- MODULE LinkProbe -----------------------------
(***************************************************************************)
(* The client sets up its link (client.rs link_setup, ensure_link and      *)
(* probe_once): start kubectl exec, wait for the sync header, send a burst *)
(* of PINGs and wait for their PONGs; after a failure send a second burst  *)
(* with a delay between frames, and when the session died start a second   *)
(* session.  What lies between the two ends may lose frames of a burst, or *)
(* kill the session during one.  A frame cut short on its way up makes the *)
(* server stop and so counts as a killed session.                          *)
(***************************************************************************)
EXTENDS Naturals, Sequences, SequencesExt, FiniteSetsExt

CONSTANTS
    N,          \* frames of a burst (PROBE_BURST_FRAMES, 16 in the code)
    Fallback,   \* probe_fallback_us: 0 disables the probe
    EnvDelay,   \* RUSHTLE_FRAME_DELAY_US
    Networks    \* the networks that may lie between, of those below

ASSUME ProbeAssumption ==
    /\ N \in Nat \ {0}
    /\ Fallback \in Nat
    /\ EnvDelay \in Nat
    /\ Networks \subseteq {"bursty", "hostile", "slow"}

\* A "bursty" network harms only frames that are written back to back; in a
\* "hostile" one a delay between frames protects nothing, and a session may end
\* before its greeting; in a "slow" one, besides, frames arrive in pieces and a
\* PONG may be under way when the timer fires.

VARIABLES
    net,        \* the network there is, one of Networks
    pc,         \* "sync", "burst", "collect", then "ok" or "failed"
    session,    \* which kubectl-exec child, 1 or 2
    attempt,    \* which probe of this session, 1 or 2
    burst,      \* bursts begun so far, numbers the frames (ghost)
    delay,      \* FRAME_DELAY_US
    sent,       \* frames of the burst already written
    seen,       \* frames of the burst whose PONG has been counted
    lost,       \* the bursts that lost a frame (ghost)
    up,         \* frames on their way to the server
    down,       \* frames on their way to the client
    alive,      \* the session is alive
    torn,       \* the stream to the client ends inside a frame
    partial,    \* the client has read a part of the next frame
    skewed,     \* a part of a frame was dropped: the stream is out of step
    booted      \* the server of this session has started

vars == <<net, pc, session, attempt, burst, delay, sent, seen, lost, up, down, alive, torn,
          partial, skewed, booted>>

\* A frame of burst b; spaced tells that the writer pauses after each frame.
Ping(b, i, d) == [cmd |-> "PING", burst |-> b, idx |-> i, spaced |-> d > 0]
PongOf(f) == [f EXCEPT !.cmd = "PONG"]
Note(cmd) == [cmd |-> cmd, burst |-> 0, idx |-> 0, spaced |-> FALSE]

Init ==
    /\ net \in Networks
    /\ pc = "sync"
    /\ session = 1
    /\ attempt = 1
    /\ burst = 0
    /\ delay = EnvDelay
    /\ sent = 0
    /\ seen = {}
    /\ lost = {}
    /\ up = <<>>
    /\ down = <<>>
    /\ alive = TRUE
    /\ torn = FALSE
    /\ partial = FALSE
    /\ skewed = FALSE
    /\ booted = FALSE

pipeVars == <<up, down, alive, torn, booted>>
-----------------------------------------------------------------------------
(* The server: header and greeting first, then a PONG for each PING *)

ServerBoot ==
    /\ alive /\ ~booted
    /\ booted' = TRUE
    /\ down' = <<Note("SYNC"), Note("PING"), Note("ROUTES")>>
    /\ UNCHANGED <<net, pc, session, attempt, burst, delay, sent, seen, lost, up, alive, torn,
                   partial, skewed>>

ServerPong ==
    /\ alive /\ booted
    /\ up # <<>>
    /\ up' = Tail(up)
    /\ down' = Append(down, PongOf(Head(up)))
    /\ UNCHANGED <<net, pc, session, attempt, burst, delay, sent, seen, lost, alive, torn, partial,
                   skewed, booted>>
-----------------------------------------------------------------------------
(* What lies between: it harms frames that are written back to back *)

InBurst == Len(up) >= 2 /\ (net # "bursty" \/ \A k \in DOMAIN up : ~up[k].spaced)

LoseFrames ==
    /\ alive /\ InBurst
    /\ \E k \in DOMAIN up :
         /\ up' = RemoveAt(up, k)
         /\ lost' = lost \cup {up[k].burst}
    /\ UNCHANGED <<net, pc, session, attempt, burst, delay, sent, seen, down, alive, torn,
                   partial, skewed, booted>>

KillSession ==
    /\ alive /\ InBurst
    /\ alive' = FALSE
    /\ \E m \in 0 .. Len(down) :
         /\ down' = SubSeq(down, 1, m)
         /\ torn' \in {FALSE, m < Len(down) \/ up # <<>>}
    /\ up' = <<>>
    /\ UNCHANGED <<net, pc, session, attempt, burst, delay, sent, seen, lost, partial, skewed, booted>>

ChildFails ==
    /\ net # "bursty"
    /\ alive /\ ~booted
    /\ alive' = FALSE
    /\ UNCHANGED <<net, pc, session, attempt, burst, delay, sent, seen, lost, up, down, torn,
                   partial, skewed, booted>>
-----------------------------------------------------------------------------
(* link_setup and ensure_link: what a failed probe leads to *)

\* A variant that knows a dead session by the end of its output only.
IsDeadPipeEofOnly(e) == e = "EOF on remote stdout"

\* is_dead_pipe_err, on the text of the error.
IsDeadPipe(e) == e \in {"Broken pipe", "EOF on remote stdout"}

BeginBurst ==
    /\ pc' = "burst"
    /\ burst' = burst + 1
    /\ sent' = 0
    /\ seen' = {}
    /\ UNCHANGED lost

\* A variant that retries without switching on the delay.
RetryUnpaced ==
    /\ attempt = 1
    /\ attempt' = 2
    /\ BeginBurst
    /\ UNCHANGED <<net, session, delay, pipeVars>>

\* ensure_link: one more burst on the same pipe, paced.
Retry ==
    /\ attempt = 1
    /\ attempt' = 2
    /\ delay' = Fallback
    /\ BeginBurst
    /\ UNCHANGED <<net, session, pipeVars>>

\* link_setup: kill the child, start another one, wait for its header.
Respawn(e) ==
    /\ attempt = 2
    /\ session = 1 /\ IsDeadPipe(e)
    /\ session' = 2
    /\ attempt' = 1
    /\ delay' = Fallback
    /\ pc' = "sync"
    /\ up' = <<>> /\ down' = <<>>
    /\ alive' = TRUE /\ torn' = FALSE /\ booted' = FALSE
    /\ UNCHANGED <<net, burst, sent, seen, lost>>

GiveUp(e) ==
    /\ attempt = 2
    /\ ~(session = 1 /\ IsDeadPipe(e))
    /\ pc' = "failed"
    /\ UNCHANGED <<net, session, attempt, burst, delay, sent, seen, lost, pipeVars>>

ProbeError(e) == Retry \/ Respawn(e) \/ GiveUp(e)

\* What becomes of the reader's position in the stream.
InStep == partial' = FALSE /\ skewed' = FALSE
-----------------------------------------------------------------------------
(* read_sync_header, then the probe unless it is disabled *)

ReadSync ==
    /\ pc = "sync"
    /\ down # <<>>
    /\ down' = Tail(down)
    /\ IF Fallback = 0
       THEN pc' = "ok" /\ UNCHANGED <<burst, sent, seen, lost>>
       ELSE BeginBurst
    /\ UNCHANGED <<net, session, attempt, delay, up, alive, torn, partial, skewed, booted>>

ReadSyncFails ==
    /\ pc = "sync"
    /\ ~alive /\ down = <<>>
    /\ pc' = "failed"
    /\ UNCHANGED <<net, session, attempt, burst, delay, sent, seen, lost, partial, skewed, pipeVars>>

\* A variant that sends one frame too many.
SendPingOneMore ==
    /\ pc = "burst"
    /\ alive
    /\ IF sent <= N
       THEN /\ up' = Append(up, Ping(burst, sent + 1, delay))
            /\ sent' = sent + 1
            /\ UNCHANGED pc
       ELSE pc' = "collect" /\ UNCHANGED <<up, sent>>
    /\ UNCHANGED <<net, session, attempt, burst, delay, seen, lost, down, alive, torn, partial,
                   skewed, booted>>

\* probe_once, first part: write the burst.
SendPing ==
    /\ pc = "burst"
    /\ alive
    /\ IF sent < N
       THEN /\ up' = Append(up, Ping(burst, sent + 1, delay))
            /\ sent' = sent + 1
            /\ UNCHANGED pc
       ELSE pc' = "collect" /\ UNCHANGED <<up, sent>>
    /\ UNCHANGED <<net, session, attempt, burst, delay, seen, lost, down, alive, torn, partial,
                   skewed, booted>>

SendFails ==
    /\ pc = "burst"
    /\ ~alive
    /\ ProbeError("Broken pipe")
    /\ IF session' = session THEN UNCHANGED <<partial, skewed>> ELSE InStep

\* A variant that takes the server's first frames for answers.
ReadAnyFrame ==
    /\ pc = "collect"
    /\ ~skewed
    /\ down # <<>>
    /\ down' = Tail(down)
    /\ seen' = seen \cup {IF Head(down).cmd = "PONG" THEN Head(down).idx ELSE Min(1 .. N \ seen)}
    /\ pc' = IF seen' = 1 .. N THEN "ok" ELSE "collect"
    /\ partial' = FALSE
    /\ UNCHANGED <<net, session, attempt, burst, delay, sent, lost, up, alive, torn, skewed, booted>>

\* probe_once, second part: count PONGs, skip everything else.  A PONG is known
\* by its index alone: the payloads of the two bursts are the same.
ReadPong ==
    /\ pc = "collect"
    /\ ~skewed
    /\ down # <<>>
    /\ down' = Tail(down)
    /\ seen' = seen \cup {f.idx : f \in {g \in {Head(down)} : g.cmd = "PONG"}}
    /\ pc' = IF seen' = 1 .. N THEN "ok" ELSE "collect"
    /\ partial' = FALSE
    /\ UNCHANGED <<net, session, attempt, burst, delay, sent, lost, up, alive, torn, skewed, booted>>

\* A frame arrives in pieces; read_exact keeps what it has in a local buffer.
ReadPart ==
    /\ net = "slow"
    /\ pc = "collect"
    /\ ~skewed /\ ~partial
    /\ down # <<>>
    /\ partial' = TRUE
    /\ UNCHANGED <<net, pc, session, attempt, burst, delay, sent, seen, lost, skewed, pipeVars>>

\* Out of step, the next eight bytes are no header: bad magic.
ReadGarbage ==
    /\ pc = "collect"
    /\ skewed
    /\ down # <<>>
    /\ ProbeError("bad magic")
    /\ UNCHANGED <<partial, skewed>>

\* The end of the stream inside a frame is reported as "early eof".
ReadEof ==
    /\ pc = "collect"
    /\ ~alive /\ down = <<>>
    /\ ProbeError(IF torn THEN "early eof" ELSE "EOF on remote stdout")
    /\ IF session' = session THEN UNCHANGED <<partial, skewed>> ELSE InStep

\* A variant whose second probe waits without a limit.
TimeoutOnlyFirst ==
    /\ pc = "collect"
    /\ attempt = 1
    /\ alive
    /\ net = "slow" \/ (up = <<>> /\ down = <<>>)
    /\ ProbeError("probe timeout")
    /\ skewed' = (skewed \/ partial)
    /\ partial' = FALSE

\* PROBE_TIMEOUT: the pending read is dropped, with the piece it has read.
Timeout ==
    /\ pc = "collect"
    /\ alive
    /\ net = "slow" \/ (up = <<>> /\ down = <<>>)
    /\ ProbeError("probe timeout")
    /\ skewed' = (skewed \/ partial)
    /\ partial' = FALSE
-----------------------------------------------------------------------------
Next ==
    \/ ServerBoot \/ ServerPong
    \/ LoseFrames \/ KillSession \/ ChildFails
    \/ ReadSync \/ ReadSyncFails \/ SendPing \/ SendFails
    \/ ReadPong \/ ReadPart \/ ReadGarbage \/ ReadEof \/ Timeout

Spec == Init /\ [][Next]_vars

\* Server and client run on; nothing obliges the network to do harm.
FairSpec ==
    /\ Spec
    /\ WF_vars(ServerBoot)
    /\ WF_vars(ServerPong)
    /\ WF_vars(ReadSync \/ ReadSyncFails \/ SendPing \/ SendFails)
    /\ WF_vars(ReadPong \/ ReadGarbage \/ ReadEof)
    /\ WF_vars(Timeout)
-----------------------------------------------------------------------------
Messages == [cmd : {"PING", "PONG", "SYNC", "ROUTES"}, burst : 0 .. 4, idx : 0 .. N,
             spaced : BOOLEAN]

\* Every variable has its type; at most two sessions with two bursts each.
ProbeTypeOK ==
    /\ net \in Networks
    /\ pc \in {"sync", "burst", "collect", "ok", "failed"}
    /\ session \in 1 .. 2
    /\ attempt \in 1 .. 2
    /\ burst \in 0 .. 4
    /\ delay \in Nat
    /\ sent \in 0 .. N
    /\ seen \subseteq 1 .. N
    /\ lost \subseteq 1 .. 4
    /\ up \in Seq(Messages)
    /\ down \in Seq(Messages)
    /\ {alive, torn, partial, skewed, booted} \subseteq BOOLEAN

\* Every burst but the very first is paced, also on a second session: what
\* killed the first session or lost its frames is not tried again.
RetriesArePaced ==
    \A k \in DOMAIN up : up[k].burst > 1 => up[k].spaced

\* "Verify the kubectl-exec stdio path can carry a burst of small frames
\* without losing any": a link is declared good only when the burst that was
\* sent last lost nothing.  Not so when answers are later than the probe waits:
\* those of the first burst are counted for the second.
GoodMeansNothingLost == pc = "ok" /\ net # "slow" => burst \notin lost

\* "On any other failure ... the inner retry already engaged chunking" and "On
\* dead-pipe failure ... respawn": when only bursts without a delay are harmed,
\* setting up the link succeeds in the end, whatever harm they come to.
LinkComesUp == net = "bursty" ~> pc = "ok"

\* However the bursts fare, on whichever network, the set-up comes to a
\* decision: no wait of the probe, on either session, lasts for ever.
SetupDecides == <>(pc \in {"ok", "failed"})

\* "On dead-pipe failure (websocket killed during probe burst): kill the old
\* child ... respawn": the set-up never gives up on a first session that died
\* under its probe.
DeadSessionIsReplaced == pc = "failed" /\ burst > 0 => alive \/ session = 2
=============================================================================
