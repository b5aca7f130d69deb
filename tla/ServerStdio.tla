---------------------------- MODULE ServerStdio ----------------------------
(***************************************************************************)
(* What the rushtle server makes of its stdin when a stock sshuttle has    *)
(* started it (server.rs run): it skips the python program that sshuttle   *)
(* sends first, greets, and serves the frames that are answered at once.   *)
(* The input is a sequence of bytes in which a frame's header is one.      *)
(* Of a flow the server opens only the sender of frames that it holds is   *)
(* kept here; its own frames are left out (Tunnel has them).               *)
(***************************************************************************)
EXTENDS Naturals, Sequences, SequencesExt

CONSTANT OutCap     \* capacity of the writer task's queue

ASSUME ServerStdioAssumption == OutCap \in Nat /\ OutCap >= 2

VARIABLES
    session,    \* what the other end says, and how the server was started
    stdin,      \* positions of the bytes that have arrived
    stdin_eof,
    inbuf,      \* those in the BufReader
    taken,      \* those the server has consumed
    stage,      \* what the server reads next, or how it ends
    need,       \* the count read so far, or bytes left to read
    blank,      \* the line of the name or the count is empty so far
    frame,      \* the command of the frame being read
    handled,    \* the commands served, in order
    out,        \* the writer task's queue
    writer,
    open,       \* some flow holds a sender of that queue
    stdout      \* what has been written, in order

inVars == <<stdin, stdin_eof, inbuf, taken>>
outVars == <<out, writer, open, stdout>>
serverVars == <<session, inVars, stage, need, blank, frame, handled, outVars>>

\* The commands, and the bytes of payload they come with here.  The target of a
\* BAD_CONNECT cannot be parsed.
Payload ==
    [PING |-> 1, CONNECT |-> 1, BAD_CONNECT |-> 1, HOST_REQ |-> 0, PONG |-> 0, EXIT |-> 0]

Digit == [k \in {"0", "1", "2"} |-> IF k = "0" THEN 0 ELSE IF k = "1" THEN 1 ELSE 2]

\* What is answered at once: a CONNECT only when it is refused without an attempt.
Reply(cmd) ==
    CASE cmd = "PING" -> <<"PONG">>
      [] cmd = "HOST_REQ" -> <<"HOST_LIST">>
      [] cmd = "BAD_CONNECT" -> <<"STOP">>
      [] OTHER -> <<>>

BootstrapStages == {"assembler", "name", "count", "body"}
Ended == stage \in {"exited", "failed"}

\* A variant that does not find the size of the assembler in the script.
FirstStageUnsized(s) == IF s.compat THEN "name" ELSE "greet"

\* Started as python -c, or with --compat-bootstrap, or plainly.
FirstStage(s) ==
    IF ~s.compat THEN "greet" ELSE IF s.assembler > 0 THEN "assembler" ELSE "name"

ServerInit(sessions) ==
    /\ session \in sessions
    /\ stdin = <<>> /\ stdin_eof = FALSE
    /\ inbuf = <<>> /\ taken = <<>>
    /\ stage = FirstStage(session)
    /\ need = session.assembler
    /\ blank = TRUE
    /\ frame = "PONG"
    /\ handled = <<>>
    /\ out = <<>> /\ writer = "run" /\ open = FALSE /\ stdout = <<>>
-----------------------------------------------------------------------------
(* Reading *)

Fill ==
    /\ stage \in BootstrapStages \cup {"header", "payload"}
    /\ inbuf = <<>> /\ stdin # <<>>
    /\ inbuf' = stdin
    /\ stdin' = <<>>
    /\ UNCHANGED <<session, stdin_eof, taken, stage, need, blank, frame, handled, outVars>>

\* The other end sends a program, or nothing, and then frames.
ByteAt(n) ==
    LET m == Len(session.program) IN
    IF n <= m THEN session.program[n] ELSE session.frames[n - m]

Byte == ByteAt(Head(inbuf))

Takes(s) ==
    /\ stage = s
    /\ inbuf # <<>>
    /\ inbuf' = Tail(inbuf)
    /\ taken' = Append(taken, Head(inbuf))
    /\ UNCHANGED <<session, stdin, stdin_eof, handled, outVars>>

\* read_exact of what is left, then on to the next stage.
TakesOneOf(s, next) ==
    /\ Takes(s)
    /\ need' = need - 1
    /\ stage' = IF need' = 0 THEN next ELSE s
    /\ UNCHANGED <<blank, frame>>

TakeAssembler == TakesOneOf("assembler", "name")

\* read_line: an empty name ends the bootstrap.
TakeName ==
    /\ Takes("name")
    /\ stage' = IF Byte # "nl" THEN "name" ELSE IF blank THEN "greet" ELSE "count"
    /\ blank' = (Byte = "nl")
    /\ need' = 0
    /\ UNCHANGED frame

\* A line without a number, or with anything else in it, is an error.
TakeCount ==
    /\ Takes("count")
    /\ \/ /\ Byte = "nl" /\ ~blank
          /\ stage' = IF need = 0 THEN "name" ELSE "body"
          /\ blank' = TRUE
          /\ UNCHANGED need
       \/ /\ Byte \in DOMAIN Digit
          /\ need' = 10 * need + Digit[Byte]
          /\ blank' = FALSE
          /\ UNCHANGED stage
       \/ /\ Byte \notin DOMAIN Digit /\ (Byte = "nl" => blank)
          /\ stage' = "failed"
          /\ UNCHANGED <<need, blank>>
    /\ UNCHANGED frame

TakeBody == TakesOneOf("body", "name")

\* What is no header ends the loop (bad magic).
TakeHeader ==
    /\ Takes("header")
    /\ IF Byte \in DOMAIN Payload
       THEN /\ frame' = Byte
            /\ need' = Payload[Byte]
            /\ stage' = IF need' = 0 THEN "handle" ELSE "payload"
       ELSE stage' = "draining" /\ UNCHANGED <<frame, need>>
    /\ UNCHANGED blank

TakePayload == TakesOneOf("payload", "handle")

\* A variant that takes no name at the end of input for the empty name.
AtEofLenient ==
    /\ stdin = <<>> /\ inbuf = <<>> /\ stdin_eof
    /\ \/ stage = "name" /\ blank /\ stage' = "greet"
       \/ stage \in BootstrapStages /\ (stage # "name" \/ ~blank) /\ stage' = "failed"
       \/ stage \in {"header", "payload"} /\ stage' = "draining"
    /\ UNCHANGED <<session, inVars, need, blank, frame, handled, outVars>>

\* A variant that expects the end of input between frames only.
AtEofBetweenFrames ==
    /\ stdin = <<>> /\ inbuf = <<>> /\ stdin_eof
    /\ \/ stage \in BootstrapStages /\ stage' = "failed"
       \/ stage = "header" /\ stage' = "draining"
    /\ UNCHANGED <<session, inVars, need, blank, frame, handled, outVars>>

\* The end of input is an error in the bootstrap, and the end of the frame loop
\* wherever it comes there.
AtEof ==
    /\ stdin = <<>> /\ inbuf = <<>> /\ stdin_eof
    /\ \/ stage \in BootstrapStages /\ stage' = "failed"
       \/ stage \in {"header", "payload"} /\ stage' = "draining"
    /\ UNCHANGED <<session, inVars, need, blank, frame, handled, outVars>>
-----------------------------------------------------------------------------
(* Serving *)

\* A variant that starts to read the frames with a reader of its own.
GreetWithNewReader ==
    /\ stage = "greet"
    /\ stdout' = <<"SYNC">>
    /\ out' = <<"PING", "ROUTES">>
    /\ stage' = "header"
    /\ inbuf' = <<>>
    /\ UNCHANGED <<session, stdin, stdin_eof, taken, need, blank, frame, handled, writer, open>>

Greet ==
    /\ stage = "greet"
    /\ stdout' = <<"SYNC">>
    /\ out' = <<"PING", "ROUTES">>
    /\ stage' = "header"
    /\ UNCHANGED <<session, inVars, need, blank, frame, handled, writer, open>>

\* stdout is gone.
GreetFails ==
    /\ stage = "greet"
    /\ stage' = "failed"
    /\ UNCHANGED <<session, inVars, need, blank, frame, handled, outVars>>

\* A variant that does not wait for room.
HandleUnbounded ==
    /\ stage = "handle"
    /\ out' = out \o Reply(frame)
    /\ open' = (open \/ frame = "CONNECT")
    /\ handled' = Append(handled, frame)
    /\ stage' = IF frame = "EXIT" THEN "draining" ELSE "header"
    /\ UNCHANGED <<session, inVars, need, blank, frame, writer, stdout>>

\* A reply waits for room; it is lost, unnoticed, once the writer task has ended.
Handle ==
    /\ stage = "handle"
    /\ \/ writer = "run" /\ Len(out) < OutCap /\ out' = out \o Reply(frame)
       \/ (writer = "done" \/ Reply(frame) = <<>>) /\ UNCHANGED out
    /\ open' = (open \/ frame = "CONNECT")
    /\ handled' = Append(handled, frame)
    /\ stage' = IF frame = "EXIT" THEN "draining" ELSE "header"
    /\ UNCHANGED <<session, inVars, need, blank, frame, writer, stdout>>

\* The connections were refused, or both sides of each have closed.
FlowsEnd ==
    /\ open /\ ~Ended
    /\ open' = FALSE
    /\ UNCHANGED <<session, inVars, stage, need, blank, frame, handled, out, writer, stdout>>

WriterWrites ==
    /\ writer = "run" /\ ~Ended
    /\ out # <<>> /\ ~(Head(out) = "HOST_LIST" /\ session.manyhosts)
    /\ stdout' = Append(stdout, Head(out))
    /\ out' = Tail(out)
    /\ UNCHANGED <<session, inVars, stage, need, blank, frame, handled, writer, open>>

\* stdout is gone, or a host list is larger than a frame: the task ends.
WriterBreaks ==
    /\ writer = "run" /\ ~Ended
    /\ out # <<>>
    /\ writer' = "done"
    /\ out' = <<>>
    /\ UNCHANGED <<session, inVars, stage, need, blank, frame, handled, open, stdout>>

\* A variant that does not wait for the writer task.
ExitAtOnce ==
    /\ stage = "draining"
    /\ stage' = "exited"
    /\ UNCHANGED <<session, inVars, need, blank, frame, handled, outVars>>

\* out_tx is dropped, and run waits for the writer task, which ends by itself when
\* it has written what is queued and no flow can send any more.
ServerExits ==
    /\ stage = "draining"
    /\ writer = "done" \/ (out = <<>> /\ ~open)
    /\ stage' = "exited"
    /\ UNCHANGED <<session, inVars, need, blank, frame, handled, outVars>>
=============================================================================
