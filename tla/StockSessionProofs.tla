------------------------- MODULE StockSessionProofs -------------------------
(* Theorems about StockSession, for every value of its constants. *)
EXTENDS StockSession, SequenceTheorems, WellFoundedInduction, TLAPS

(***************************************************************************)
(* Sequences                                                               *)
(***************************************************************************)
\* What the operations of a pipe or a queue do to a sequence.
LEMMA SeqLemma ==
    ASSUME NEW S, NEW s \in Seq(S)
    PROVE  /\ Len(s) \in Nat /\ DOMAIN s = 1 .. Len(s) /\ (s = <<>> <=> Len(s) = 0)
           /\ <<>> \in Seq(S) /\ Len(<<>>) = 0
           /\ \A k \in 1 .. Len(s) : s[k] \in S
           /\ \A e \in S : Append(s, e) \in Seq(S) /\ Len(Append(s, e)) = Len(s) + 1
           /\ s # <<>> => /\ Len(s) >= 1 /\ Head(s) = s[1] /\ Head(s) \in S
                          /\ Tail(s) \in Seq(S) /\ Len(Tail(s)) = Len(s) - 1
  OBVIOUS

\* Two sequences one after the other.
LEMMA ConcatLemma ==
    ASSUME NEW S, NEW s \in Seq(S), NEW t \in Seq(S)
    PROVE  s \o t \in Seq(S) /\ Len(s \o t) = Len(s) + Len(t)
  BY ConcatProperties

\* A sequence cut in two.
LEMMA CutLemma ==
    ASSUME NEW S, NEW s \in Seq(S), NEW k \in 0 .. Len(s)
    PROVE  /\ SubSeq(s, 1, k) \in Seq(S) /\ Len(SubSeq(s, 1, k)) = k
           /\ SubSeq(s, k + 1, Len(s)) \in Seq(S) /\ Len(SubSeq(s, k + 1, Len(s))) = Len(s) - k
           /\ \A i \in 1 .. k : SubSeq(s, 1, k)[i] = s[i]
           /\ \A i \in 1 .. Len(s) - k : SubSeq(s, k + 1, Len(s))[i] = s[k + i]
  <1>1. Len(s) \in Nat /\ k \in Int /\ Len(s) \in Int /\ 1 \in Int /\ k + 1 \in Int
    OBVIOUS
  <1>2. \A i \in 1 .. k : s[i] \in S
    BY <1>1
  <1>3. /\ SubSeq(s, 1, k) \in Seq(S) /\ Len(SubSeq(s, 1, k)) = IF 1 <= k THEN k - 1 + 1 ELSE 0
        /\ \A i \in 1 .. k - 1 + 1 : SubSeq(s, 1, k)[i] = s[1 + i - 1]
    BY <1>1, <1>2, SubSeqProperties
  <1>4. \A i \in k + 1 .. Len(s) : s[i] \in S
    BY <1>1
  <1>5. /\ SubSeq(s, k + 1, Len(s)) \in Seq(S)
        /\ Len(SubSeq(s, k + 1, Len(s))) = IF k + 1 <= Len(s) THEN Len(s) - (k + 1) + 1 ELSE 0
        /\ \A i \in 1 .. Len(s) - (k + 1) + 1 : SubSeq(s, k + 1, Len(s))[i] = s[k + 1 + i - 1]
    BY <1>1, <1>4, SubSeqProperties
  <1>6. \A i \in 1 .. k : i \in 1 .. k - 1 + 1 /\ 1 + i - 1 = i
    BY <1>1
  <1>7. \A i \in 1 .. Len(s) - k : i \in 1 .. Len(s) - (k + 1) + 1 /\ k + 1 + i - 1 = k + i
    BY <1>1
  <1>8. \A i \in 1 .. k : SubSeq(s, 1, k)[i] = s[i]
    BY <1>3, <1>6
  <1>9. \A i \in 1 .. Len(s) - k : SubSeq(s, k + 1, Len(s))[i] = s[k + i]
    BY <1>5, <1>7
  <1>10. Len(SubSeq(s, 1, k)) = k
    BY <1>1, <1>3
  <1>11. Len(SubSeq(s, k + 1, Len(s))) = Len(s) - k
    BY <1>1, <1>5
  <1>. QED
    BY <1>3, <1>5, <1>8, <1>9, <1>10, <1>11

\* s is the part of the stream after position n, up to m.
Part(s, n, m) ==
    /\ s \in Seq(Nat) /\ n \in Nat /\ m \in Nat
    /\ n + Len(s) = m
    /\ \A k \in 1 .. Len(s) : s[k] = n + k

\* A sequence that runs on from a position is a part of the stream.
LEMMA PartLemma ==
    ASSUME NEW s \in Seq(Nat), NEW n \in Nat
    PROVE  Run(s, n) <=> Part(s, n, n + Len(s))
  BY DEF Run, Part

\* Nothing is the part between a position and itself.
LEMMA PartEmpty ==
    ASSUME NEW s, NEW n, NEW m, Part(s, n, m)
    PROVE  /\ n <= m /\ Len(s) = m - n /\ (s = <<>> <=> n = m)
           /\ Part(<<>>, n, n) /\ Part(<<>>, m, m)
  BY DEF Part

\* The positions of a part.
LEMMA PartType ==
    ASSUME NEW s, NEW n, NEW m, Part(s, n, m), NEW c \in Nat, m <= c
    PROVE  s \in Seq(1 .. c)
  <1>1. DOMAIN s = 1 .. Len(s) /\ Len(s) \in Nat /\ s = [k \in 1 .. Len(s) |-> s[k]]
    BY DEF Part
  <1>2. \A k \in 1 .. Len(s) : s[k] \in 1 .. c
    BY DEF Part
  <1>. QED
    BY <1>1, <1>2

\* The stream goes on with the next position.
LEMMA PartAppend ==
    ASSUME NEW s, NEW n, NEW m, Part(s, n, m)
    PROVE  Part(Append(s, m + 1), n, m + 1)
  BY DEF Part

\* The first position of a part, and the rest.
LEMMA PartTail ==
    ASSUME NEW s, NEW n, NEW m, Part(s, n, m), s # <<>>
    PROVE  Head(s) = n + 1 /\ n + 1 <= m /\ Part(Tail(s), n + 1, m)
  <1>1. /\ s \in Seq(Nat) /\ n \in Nat /\ m \in Nat /\ Len(s) \in Nat /\ Len(s) >= 1
        /\ Head(s) = s[1] /\ n + Len(s) = m
        /\ Tail(s) \in Seq(Nat) /\ Len(Tail(s)) = Len(s) - 1
    BY DEF Part
  <1>2. \A k \in 1 .. Len(s) - 1 : Tail(s)[k] = s[k + 1]
    BY <1>1
  <1>3. s[1] = n + 1
    BY <1>1 DEF Part
  <1>4. \A k \in 1 .. Len(s) - 1 : s[k + 1] = (n + 1) + k
    BY <1>1 DEF Part
  <1>. QED
    BY <1>1, <1>2, <1>3, <1>4 DEF Part

\* A part, and the one after it.
LEMMA PartConcat ==
    ASSUME NEW s, NEW t, NEW n, NEW m, NEW l, Part(s, n, m), Part(t, m, l)
    PROVE  Part(s \o t, n, l)
  <1>1. s \in Seq(Nat) /\ t \in Seq(Nat)
    BY DEF Part
  <1>2. /\ s \o t \in Seq(Nat) /\ Len(s \o t) = Len(s) + Len(t)
        /\ \A i \in 1 .. Len(s) + Len(t) : (s \o t)[i] = IF i <= Len(s) THEN s[i] ELSE t[i - Len(s)]
    BY <1>1, ConcatProperties
  <1>3. Len(s) \in Nat /\ Len(t) \in Nat /\ n \in Nat /\ m = n + Len(s) /\ l = m + Len(t)
    BY <1>1 DEF Part
  <1>4. ASSUME NEW i \in 1 .. Len(s) + Len(t) PROVE (s \o t)[i] = n + i
    <2>1. CASE i <= Len(s)
      <3>1. s[i] = n + i
        BY <1>3, <2>1 DEF Part
      <3>. QED
        BY <1>2, <2>1, <3>1
    <2>2. CASE ~ (i <= Len(s))
      <3>1. i - Len(s) \in 1 .. Len(t)
        BY <1>3, <2>2
      <3>2. t[i - Len(s)] = m + (i - Len(s))
        BY <3>1 DEF Part
      <3>3. m + (i - Len(s)) = n + i
        BY <1>3
      <3>. QED
        BY <1>2, <2>2, <3>2, <3>3
    <2>. QED
      BY <2>1, <2>2
  <1>5. n + (Len(s) + Len(t)) = l /\ l \in Nat
    BY <1>3
  <1>. QED
    BY <1>2, <1>3, <1>4, <1>5 DEF Part

\* A part that is cut in two.
LEMMA PartCut ==
    ASSUME NEW s, NEW n, NEW m, Part(s, n, m), NEW k \in 0 .. Len(s)
    PROVE  Part(SubSeq(s, 1, k), n, n + k) /\ Part(SubSeq(s, k + 1, Len(s)), n + k, m)
  <1>1. s \in Seq(Nat) /\ n \in Nat /\ m \in Nat /\ Len(s) \in Nat /\ m = n + Len(s)
    BY DEF Part
  <1>2. /\ SubSeq(s, 1, k) \in Seq(Nat) /\ Len(SubSeq(s, 1, k)) = k
        /\ SubSeq(s, k + 1, Len(s)) \in Seq(Nat) /\ Len(SubSeq(s, k + 1, Len(s))) = Len(s) - k
        /\ \A i \in 1 .. k : SubSeq(s, 1, k)[i] = s[i]
        /\ \A i \in 1 .. Len(s) - k : SubSeq(s, k + 1, Len(s))[i] = s[k + i]
    BY <1>1, CutLemma
  <1>3. \A i \in 1 .. k : s[i] = n + i
    BY <1>1 DEF Part
  <1>4. \A i \in 1 .. Len(s) - k : s[k + i] = (n + k) + i
    BY <1>1 DEF Part
  <1>5. n + k \in Nat /\ (n + k) + (Len(s) - k) = m
    BY <1>1
  <1>. QED
    BY <1>1, <1>2, <1>3, <1>4, <1>5 DEF Part

\* More positions do no harm.
LEMMA SeqGrows ==
    ASSUME NEW n \in Nat, NEW s \in Seq(1 .. n)
    PROVE  s \in Seq(1 .. n + 1) /\ s \in Seq(Nat)
  OBVIOUS

(***************************************************************************)
(* What the other end sends                                                *)
(***************************************************************************)
Letters == DOMAIN Payload \cup {"x"}

\* The program of a module and its record, byte by byte.
OneModule(p) ==
    /\ Len(p) = 8
    /\ p[1] = "nl" /\ p[2] = "m" /\ p[3] = "nl" /\ p[4] = "2"
    /\ p[5] = "nl" /\ p[6] = "nl" /\ p[7] = "1" /\ p[8] = "nl"

\* A session: one of the three starts of the server, and well-framed frames.
SessionOK(s) ==
    /\ s.frames \in Seq(Letters) /\ WellFramed(s.frames)
    /\ s.compat \in BOOLEAN
    /\ \/ ~ s.compat /\ s.assembler = 0 /\ Len(s.program) = 0
       \/ s.compat /\ s.assembler = 0 /\ Len(s.program) = 1 /\ s.program[1] = "nl"
       \/ s.compat /\ s.assembler = 1 /\ OneModule(s.program)

\* The commands and their payloads.
LEMMA PayloadLemma ==
    /\ DOMAIN Payload = {"PING", "CONNECT", "BAD_CONNECT", "HOST_REQ", "PONG", "EXIT"}
    /\ \A c \in DOMAIN Payload : Payload[c] \in {0, 1}
    /\ "x" \notin DOMAIN Payload
    /\ Payload["PING"] = 1 /\ Payload["HOST_REQ"] = 0
  BY DEF Payload

\* The digits and their values.
LEMMA DigitLemma ==
    /\ DOMAIN Digit = {"0", "1", "2"}
    /\ Digit["0"] = 0 /\ Digit["1"] = 1 /\ Digit["2"] = 2
    /\ \A d \in DOMAIN Digit : Digit[d] \in Nat
  BY DEF Digit

\* The record of a session, field by field.
LEMMA SessionFields ==
    ASSUME NEW p, NEW f, NEW m
    PROVE  /\ Session(p, f, m).program = p.program /\ Session(p, f, m).compat = p.compat
           /\ Session(p, f, m).assembler = p.assembler /\ Session(p, f, m).frames = f
           /\ Session(p, f, m).manyhosts = m
  BY DEF Session

\* The starts of the server, byte by byte.
LEMMA ProgramsLemma ==
    /\ NoProgram.compat = FALSE /\ NoProgram.assembler = 0 /\ Len(NoProgram.program) = 0
    /\ \A p \in Programs :
         \/ p.compat = TRUE /\ p.assembler = 0 /\ Len(p.program) = 1 /\ p.program[1] = "nl"
         \/ p.compat = TRUE /\ p.assembler = 1 /\ OneModule(p.program)
  <1>1. NoProgram.compat = FALSE /\ NoProgram.assembler = 0 /\ Len(NoProgram.program) = 0
    BY DEF NoProgram
  <1>. DEFINE B == {"nl", "m", "2", "1"}
              s == <<"nl">>
              t == Module
              st == s \o t
              u == st \o s
  <1>2. s \in Seq(B) /\ Len(s) = 1 /\ s[1] = "nl"
    OBVIOUS
  <1>3. t \in Seq(B) /\ Len(t) = 6 /\ t[1] = "m" /\ t[2] = "nl" /\ t[3] = "2" /\ t[4] = "nl"
        /\ t[5] = "nl" /\ t[6] = "1"
    BY DEF Module
  <1>. HIDE DEF s, t, B
  <1>4. st \in Seq(B) /\ Len(st) = Len(s) + Len(t)
        /\ \A i \in 1 .. Len(s) + Len(t) : st[i] = IF i <= Len(s) THEN s[i] ELSE t[i - Len(s)]
    BY <1>2, <1>3, ConcatProperties
  <1>5. Len(st) = 7
    BY <1>2, <1>3, <1>4
  <1>6. st[1] = "nl" /\ st[2] = "m" /\ st[3] = "nl" /\ st[4] = "2" /\ st[5] = "nl" /\ st[6] = "nl"
        /\ st[7] = "1"
    BY <1>2, <1>3, <1>4
  <1>. HIDE DEF st
  <1>7. st \in Seq(B) /\ s \in Seq(B) /\ u = st \o s
    BY <1>2, <1>4
  <1>12. u \in Seq(B) /\ Len(u) = Len(st) + Len(s)
        /\ \A i \in 1 .. Len(st) + Len(s) : u[i] = IF i <= Len(st) THEN st[i] ELSE s[i - Len(st)]
    BY <1>7, ConcatProperties
  <1>8. OneModule(u)
    BY <1>2, <1>5, <1>6, <1>12 DEF OneModule
  <1>. HIDE DEF u
  <1>9. Programs = {[compat |-> TRUE, assembler |-> 0, program |-> s],
                    [compat |-> TRUE, assembler |-> 1, program |-> u]}
    BY DEF Programs, s, t, st, u
  <1>. QED
    BY <1>1, <1>2, <1>8, <1>9

\* The frames to choose from are well framed.
LEMMA FramesLemma ==
    ASSUME NEW cmds \in SUBSET DOMAIN Payload, NEW max \in Nat, NEW f \in FramesOf(cmds, max)
    PROVE  f \in Seq(Letters) /\ WellFramed(f)
  <1>1. f \in BoundedSeq(cmds \cup {"x"}, 2 * max) /\ WellFramed(f)
    BY DEF FramesOf
  <1>2. PICK m \in 0 .. 2 * max : f \in [1 .. m -> cmds \cup {"x"}]
    BY <1>1 DEF BoundedSeq, SeqOf
  <1>3. f \in [1 .. m -> Letters] /\ m \in Nat
    BY <1>2 DEF Letters
  <1>. QED
    BY <1>1, <1>3

\* The frames of the session with the long host list.
LEMMA HostFramesLemma ==
    <<"HOST_REQ", "PING", "x">> \in Seq(Letters) /\ WellFramed(<<"HOST_REQ", "PING", "x">>)
  <1>. DEFINE f == <<"HOST_REQ", "PING", "x">>
  <1>1. Len(f) = 3 /\ DOMAIN f = 1 .. 3 /\ f[1] = "HOST_REQ" /\ f[2] = "PING" /\ f[3] = "x"
    OBVIOUS
  <1>2. f \in Seq(Letters)
    BY PayloadLemma DEF Letters
  <1>. HIDE DEF f
  <1>3. Starts(f, 0) /\ Starts(f, 1) /\ Starts(f, 3)
    BY <1>1 DEF Starts
  <1>4. ASSUME NEW k \in DOMAIN f, f[k] # "x"
        PROVE  /\ Starts(f, k + Payload[f[k]])
               /\ \A j \in k + 1 .. k + Payload[f[k]] : f[j] = "x"
    <2>1. k \in {1, 2}
      BY <1>1, <1>4
    <2>2. CASE k = 1
      BY <1>1, <1>3, <2>2, PayloadLemma
    <2>3. CASE k = 2
      BY <1>1, <1>3, <2>3, PayloadLemma
    <2>. QED
      BY <2>1, <2>2, <2>3
  <1>. QED
    BY <1>2, <1>3, <1>4 DEF WellFramed, f

\* Every session is what the server may be told.
LEMMA SessionsLemma ==
    ASSUME NEW s \in Sessions
    PROVE  SessionOK(s)
  <1>1. ASSUME NEW p, NEW f \in Seq(Letters), NEW m, WellFramed(f), p = NoProgram \/ p \in Programs,
               s = Session(p, f, m)
        PROVE  SessionOK(s)
    <2>1. /\ s.program = p.program /\ s.compat = p.compat /\ s.assembler = p.assembler
          /\ s.frames = f
      BY <1>1, SessionFields
    <2>2. CASE p = NoProgram
      BY <1>1, <2>1, <2>2, ProgramsLemma DEF SessionOK
    <2>3. CASE p \in Programs
      <3>1. \/ p.compat = TRUE /\ p.assembler = 0 /\ Len(p.program) = 1 /\ p.program[1] = "nl"
            \/ p.compat = TRUE /\ p.assembler = 1 /\ OneModule(p.program)
        BY <2>3, ProgramsLemma
      <3>. QED
        BY <1>1, <2>1, <3>1 DEF SessionOK
    <2>. QED
      BY <1>1, <2>2, <2>3
  <1>2. /\ Commands \in SUBSET DOMAIN Payload /\ AfterBoot \in SUBSET DOMAIN Payload
        /\ MaxFrames \in Nat /\ MaxAfter \in Nat
    BY SessionAssumption
  <1>3. ASSUME NEW p, NEW cmds \in SUBSET DOMAIN Payload, NEW max \in Nat, p = NoProgram \/ p \in Programs,
               s \in After(p, cmds, max)
        PROVE  SessionOK(s)
    <2>1. PICK f \in FramesOf(cmds, max) : s = Session(p, f, FALSE)
      BY <1>3 DEF After
    <2>2. f \in Seq(Letters) /\ WellFramed(f)
      BY FramesLemma
    <2>. QED
      BY <1>1, <1>3, <2>1, <2>2
  <1>4. CASE s = Session(NoProgram, <<"HOST_REQ", "PING", "x">>, TRUE)
    BY <1>1, <1>4, HostFramesLemma
  <1>5. \/ s \in After(NoProgram, Commands, MaxFrames)
        \/ s = Session(NoProgram, <<"HOST_REQ", "PING", "x">>, TRUE)
        \/ \E p \in Programs : s \in After(p, AfterBoot, MaxAfter)
    BY DEF Sessions
  <1>. QED
    BY <1>2, <1>3, <1>4, <1>5

\* The lengths of program and frames.
LEMMA LengthsLemma ==
    ASSUME NEW s, SessionOK(s)
    PROVE  Len(s.program) \in {0, 1, 8} /\ Len(s.program) \in Nat /\ Len(s.frames) \in Nat
  <1>1. Len(s.program) \in {0, 1, 8}
    BY DEF SessionOK, OneModule
  <1>2. s.frames \in Seq(Letters)
    BY DEF SessionOK
  <1>. QED
    BY <1>1, <1>2

(***************************************************************************)
(* The invariant                                                           *)
(***************************************************************************)
Stages == BootstrapStages \cup
    {"greet", "header", "payload", "handle", "draining", "exited", "failed"}

\* What the reader of the server knows, and how far it is.
ParseInv ==
    /\ stage \in Stages
    /\ need \in Nat
    /\ blank \in BOOLEAN
    /\ frame \in DOMAIN Payload
    /\ EaterInv
    /\ LoopInv

\* The sequences of positions, on this side of kubectl and on the other.
SeqTypeOK ==
    /\ sent \in Nat
    /\ stdin \in Seq(1 .. sent) /\ inbuf \in Seq(1 .. sent) /\ taken \in Seq(1 .. sent)
    /\ os_stdin \in Seq(1 .. sent) /\ kstdin \in Seq(1 .. sent) /\ buf \in Seq(1 .. sent)
    /\ Len(os_stdin) <= PipeCap /\ Len(kstdin) <= PipeCap /\ Len(buf) <= Chunk
    /\ Len(stdin) <= PipeCap /\ Len(inbuf) <= PipeCap

\* The state of the processes.
ProcTypeOK ==
    /\ hangup \in BOOLEAN /\ kstdin_closed \in BOOLEAN /\ ctx_done \in BOOLEAN
    /\ stdin_eof \in BOOLEAN
    /\ pump \in {"run", "done"}
    /\ kubectl \in {"run", "deaf"} \cup Ends
    /\ shim \in {"wait"} \cup Ends

\* The replies.
OutTypeOK ==
    /\ handled \in Seq(DOMAIN Payload)
    /\ out \in Seq(Frames) /\ Len(out) <= OutCap
    /\ writer \in {"run", "done"} /\ open \in BOOLEAN
    /\ stdout \in Seq(Frames \cup {"SYNC"})

\* The inductive invariant, with what it needs to know of the session.
IInv ==
    /\ SessionOK(session)
    /\ SeqTypeOK /\ ProcTypeOK /\ OutTypeOK
    /\ InOrder /\ EndsInOrder /\ ParseInv /\ EndInv

\* It is the type invariant and the invariant of the runs.
LEMMA IInvMeans ==
    IInv <=> SessionOK(session) /\ SessionTypeOK /\ SessionInv
  <1>1. SessionTypeOK <=> /\ SeqTypeOK /\ ProcTypeOK /\ OutTypeOK
                          /\ stage \in Stages /\ need \in Nat /\ blank \in BOOLEAN
                          /\ frame \in DOMAIN Payload
    BY DEF SessionTypeOK, ProxyTypeOK, SeqTypeOK, ProcTypeOK, OutTypeOK, Stages
  <1>. QED
    BY <1>1 DEF IInv, SessionInv, ParseInv

\* What the assumptions on the constants say.
LEMMA Constants ==
    /\ PipeCap \in Nat /\ Chunk \in Nat /\ Chunk >= 1 /\ Chunk <= PipeCap
    /\ OutCap \in Nat /\ OutCap >= 2
  BY SshProxyAssumption, ServerStdioAssumption

\* The steps, one by one.
ProxyStep ==
    /\ UNCHANGED serverVars
    /\ \/ SshuttleWrites(Len(session.program) + Len(session.frames)) \/ Hangup
       \/ PumpReads \/ PumpWrites \/ PumpWriteFails \/ PumpEof \/ PumpReadFails
       \/ Signal \/ WaitReturns

KubectlStep ==
    \/ Carry \/ CarryEof \/ KubectlGoesDeaf
    \/ \E how \in Ends : /\ KubectlEnds(how)
                         /\ how = "killed" => ctx_done
                         /\ how = "ok" => stage = "exited"

TakeStep ==
    /\ UNCHANGED proxyVars
    /\ TakeAssembler \/ TakeName \/ TakeCount \/ TakeBody \/ TakeHeader \/ TakePayload

ServeStep ==
    /\ UNCHANGED proxyVars
    /\ \/ Fill \/ AtEof \/ Greet \/ Handle \/ ServerExits \/ WriterWrites \/ WriterBreaks
       \/ FlowsEnd
       \/ GreetFails /\ kubectl \in Ends

LEMMA NextLemma ==
    ASSUME Next
    PROVE  ProxyStep \/ KubectlStep \/ TakeStep \/ ServeStep
  <1>1. Proxy(SshuttleWrites(Len(session.program) + Len(session.frames)) \/ Hangup) => ProxyStep
    BY DEF Proxy, ProxyStep
  <1>2. Proxy(PumpStep) \/ (MayCancel /\ Proxy(PumpReadFails \/ Signal)) \/ Proxy(WaitReturns) => ProxyStep
    BY DEF Proxy, ProxyStep, PumpStep
  <1>3. Carry \/ CarryEof \/ KubectlGoesDeaf \/ KubectlDies \/ KubectlKilled \/ KubectlReturns => KubectlStep
    BY DEF KubectlStep, KubectlDies, KubectlKilled, KubectlReturns, Ends
  <1>4. Server(ServerStep) => TakeStep \/ ServeStep
    BY DEF Server, ServerStep, Read, TakeStep, ServeStep
  <1>5. Server(Write) => ServeStep
    BY DEF Server, Write, ServeStep
  <1>6. Server(FlowsEnd) => ServeStep
    BY DEF Server, ServeStep
  <1>. QED
    BY <1>1, <1>2, <1>3, <1>4, <1>5, <1>6 DEF Next

\* The positions of the parts of the stream, however they are named.
Placed(t, i, s, kubectl_is, k, f, o, n) ==
    \E a, b, c \in Nat :
        /\ Part(t, 0, a) /\ Part(i, a, b) /\ Part(s, b, c) /\ c <= n
        /\ kubectl_is \notin Ends =>
             \E d, e \in Nat : Part(k, c, d) /\ Part(f, d, e) /\ Part(o, e, n)

\* The invariant of the positions in those terms.
LEMMA InOrderLemma ==
    SeqTypeOK =>
        (InOrder <=>
             /\ Placed(taken, inbuf, stdin, kubectl, kstdin, buf, os_stdin, sent)
             /\ sent <= Len(session.program) + Len(session.frames))
  <1>. SUFFICES ASSUME SeqTypeOK
                PROVE  InOrder <=>
                         /\ Placed(taken, inbuf, stdin, kubectl, kstdin, buf, os_stdin, sent)
                         /\ sent <= Len(session.program) + Len(session.frames)
    OBVIOUS
  <1>. DEFINE a == Len(taken)
              b == a + Len(inbuf)
              c == b + Len(stdin)
              d == c + Len(kstdin)
              e == d + Len(buf)
  <1>1. /\ taken \in Seq(Nat) /\ inbuf \in Seq(Nat) /\ stdin \in Seq(Nat)
        /\ kstdin \in Seq(Nat) /\ buf \in Seq(Nat) /\ os_stdin \in Seq(Nat) /\ sent \in Nat
    BY SeqGrows DEF SeqTypeOK
  <1>2. /\ Len(taken) \in Nat /\ Len(inbuf) \in Nat /\ Len(stdin) \in Nat
        /\ Len(kstdin) \in Nat /\ Len(buf) \in Nat /\ Len(os_stdin) \in Nat
    BY <1>1
  <1>3. a \in Nat /\ b \in Nat /\ c \in Nat /\ d \in Nat /\ e \in Nat /\ 0 \in Nat /\ a = 0 + Len(taken)
    BY <1>2
  <1>4. /\ Run(taken, 0) <=> Part(taken, 0, a)
        /\ Run(inbuf, a) <=> Part(inbuf, a, b)
        /\ Run(stdin, b) <=> Part(stdin, b, c)
        /\ Run(kstdin, c) <=> Part(kstdin, c, d)
        /\ Run(buf, d) <=> Part(buf, d, e)
        /\ Run(os_stdin, e) <=> Part(os_stdin, e, e + Len(os_stdin))
    BY <1>1, <1>3, PartLemma
  <1>5. \A s, n, m : Part(s, n, m) => n + Len(s) = m
    BY DEF Part
  <1>6. InOrder <=>
          /\ Part(taken, 0, a) /\ Part(inbuf, a, b) /\ Part(stdin, b, c) /\ c <= sent
          /\ kubectl \notin Ends =>
               Part(kstdin, c, d) /\ Part(buf, d, e) /\ Part(os_stdin, e, sent)
          /\ sent <= Len(session.program) + Len(session.frames)
    <2>. HIDE DEF a, b, c, d, e
    <2>1. Run(os_stdin, e) /\ e + Len(os_stdin) = sent <=> Part(os_stdin, e, sent)
      BY <1>4, <1>5
    <2>. QED
      BY <1>4, <2>1 DEF InOrder, a, b, c, d, e
  <1>7. ASSUME Placed(taken, inbuf, stdin, kubectl, kstdin, buf, os_stdin, sent)
        PROVE  /\ Part(taken, 0, a) /\ Part(inbuf, a, b) /\ Part(stdin, b, c) /\ c <= sent
               /\ kubectl \notin Ends =>
                    Part(kstdin, c, d) /\ Part(buf, d, e) /\ Part(os_stdin, e, sent)
    <2>1. PICK a1, b1, c1 \in Nat :
            /\ Part(taken, 0, a1) /\ Part(inbuf, a1, b1) /\ Part(stdin, b1, c1) /\ c1 <= sent
            /\ kubectl \notin Ends =>
                 \E d1, e1 \in Nat : Part(kstdin, c1, d1) /\ Part(buf, d1, e1) /\ Part(os_stdin, e1, sent)
      BY <1>7 DEF Placed
    <2>2. a1 = a /\ b1 = b /\ c1 = c
      BY <1>2, <1>5, <2>1
    <2>3. ASSUME kubectl \notin Ends
          PROVE  Part(kstdin, c, d) /\ Part(buf, d, e) /\ Part(os_stdin, e, sent)
      <3>1. PICK d1, e1 \in Nat : Part(kstdin, c1, d1) /\ Part(buf, d1, e1) /\ Part(os_stdin, e1, sent)
        BY <2>1, <2>3
      <3>2. d1 = d /\ e1 = e
        BY <1>5, <2>2, <3>1
      <3>. QED
        BY <2>2, <3>1, <3>2
    <2>. QED
      BY <2>1, <2>2, <2>3
  <1>. HIDE DEF a, b, c, d, e
  <1>8. ASSUME /\ Part(taken, 0, a) /\ Part(inbuf, a, b) /\ Part(stdin, b, c) /\ c <= sent
               /\ kubectl \notin Ends =>
                    Part(kstdin, c, d) /\ Part(buf, d, e) /\ Part(os_stdin, e, sent)
        PROVE  Placed(taken, inbuf, stdin, kubectl, kstdin, buf, os_stdin, sent)
    BY <1>3, <1>8 DEF Placed
  <1>. QED
    BY <1>6, <1>7, <1>8

(***************************************************************************)
(* The bytes keep their places                                             *)
(***************************************************************************)
\* The same after a step.
LEMMA InOrderAfter ==
    SeqTypeOK' =>
        (InOrder' <=>
             /\ Placed(taken', inbuf', stdin', kubectl', kstdin', buf', os_stdin', sent')
             /\ sent' <= Len(session'.program) + Len(session'.frames))
  <1>1. (SeqTypeOK =>
            (InOrder <=>
                 /\ Placed(taken, inbuf, stdin, kubectl, kstdin, buf, os_stdin, sent)
                 /\ sent <= Len(session.program) + Len(session.frames)))'
    BY InOrderLemma, PTL
  <1>. QED
    BY <1>1

\* Nothing moves.
BytesStay == UNCHANGED <<taken, inbuf, stdin, kstdin, buf, os_stdin, sent, session>>

\* Bytes that stay where they are stay in order.
LEMMA BytesStayLemma ==
    ASSUME IInv, BytesStay, kubectl' \in Ends <=> kubectl \in Ends
    PROVE  SeqTypeOK' /\ InOrder'
  <1>1. SeqTypeOK'
    BY DEF IInv, BytesStay, SeqTypeOK
  <1>2. /\ Placed(taken, inbuf, stdin, kubectl, kstdin, buf, os_stdin, sent)
        /\ sent <= Len(session.program) + Len(session.frames)
    BY InOrderLemma DEF IInv
  <1>3. Placed(taken', inbuf', stdin', kubectl', kstdin', buf', os_stdin', sent')
    BY <1>2 DEF BytesStay, Placed
  <1>. QED
    BY <1>1, <1>2, <1>3, InOrderAfter DEF BytesStay

\* sshuttle and ssh-proxy move bytes forward.
LEMMA ProxyBytes ==
    ASSUME IInv, ProxyStep
    PROVE  SeqTypeOK' /\ InOrder'
  <1>. DEFINE max == Len(session.program) + Len(session.frames)
  <1>1. /\ SeqTypeOK
        /\ Placed(taken, inbuf, stdin, kubectl, kstdin, buf, os_stdin, sent)
        /\ sent <= max
    BY InOrderLemma DEF IInv
  <1>2. PICK a, b, c \in Nat :
          /\ Part(taken, 0, a) /\ Part(inbuf, a, b) /\ Part(stdin, b, c) /\ c <= sent
          /\ kubectl \notin Ends =>
               \E d, e \in Nat : Part(kstdin, c, d) /\ Part(buf, d, e) /\ Part(os_stdin, e, sent)
    BY <1>1 DEF Placed
  <1>3. UNCHANGED <<taken, inbuf, stdin, session>>
    BY DEF ProxyStep, serverVars, inVars
  <1>4. sent \in Nat /\ PipeCap \in Nat /\ Chunk \in Nat /\ Chunk >= 1
    BY <1>1, Constants DEF SeqTypeOK
  <1>5. CASE SshuttleWrites(max)
    <2>1. /\ sent' = sent + 1 /\ os_stdin' = Append(os_stdin, sent + 1) /\ sent < max
          /\ Len(os_stdin) < PipeCap /\ UNCHANGED <<kstdin, buf, kubectl>>
      BY <1>5 DEF SshuttleWrites, pumpVars
    <2>2. sent + 1 \in 1 .. sent + 1 /\ sent + 1 \in Nat
      BY <1>4
    <2>3. /\ taken \in Seq(1 .. sent + 1) /\ inbuf \in Seq(1 .. sent + 1) /\ stdin \in Seq(1 .. sent + 1)
          /\ kstdin \in Seq(1 .. sent + 1) /\ buf \in Seq(1 .. sent + 1) /\ os_stdin \in Seq(1 .. sent + 1)
      BY <1>1, <1>4, SeqGrows DEF SeqTypeOK
    <2>4. os_stdin' \in Seq(1 .. sent + 1) /\ Len(os_stdin') = Len(os_stdin) + 1 /\ Len(os_stdin) \in Nat
      BY <2>1, <2>2, <2>3, SeqLemma
    <2>5. SeqTypeOK'
      BY <1>1, <1>3, <1>4, <2>1, <2>2, <2>3, <2>4 DEF SeqTypeOK
    <2>6. ASSUME kubectl' \notin Ends
          PROVE  \E d, e \in Nat : Part(kstdin', c, d) /\ Part(buf', d, e) /\ Part(os_stdin', e, sent')
      <3>1. PICK d, e \in Nat : Part(kstdin, c, d) /\ Part(buf, d, e) /\ Part(os_stdin, e, sent)
        BY <1>2, <2>1, <2>6
      <3>2. Part(os_stdin', e, sent')
        BY <2>1, <3>1, PartAppend
      <3>. QED
        BY <2>1, <3>1, <3>2
    <2>7. Placed(taken', inbuf', stdin', kubectl', kstdin', buf', os_stdin', sent')
      BY <1>2, <1>3, <1>4, <2>1, <2>6 DEF Placed
    <2>8. Len(session.program) \in Nat /\ Len(session.frames) \in Nat
      BY LengthsLemma DEF IInv
    <2>9. sent' <= Len(session'.program) + Len(session'.frames)
      <3>1. \A p, f \in Nat : sent < p + f => sent + 1 <= p + f
        BY <1>4
      <3>2. sent + 1 <= max
        BY <2>1, <2>8, <3>1
      <3>3. session' = session
        BY <1>3
      <3>. QED
        BY <2>1, <3>2, <3>3
    <2>. QED
      BY <2>5, <2>7, <2>9, InOrderAfter
  <1>6. CASE PumpReads
    <2>. DEFINE n == IF Len(os_stdin) < Chunk THEN Len(os_stdin) ELSE Chunk
    <2>1. /\ buf = <<>> /\ os_stdin # <<>>
          /\ buf' = SubSeq(os_stdin, 1, n) /\ os_stdin' = SubSeq(os_stdin, n + 1, Len(os_stdin))
          /\ UNCHANGED <<sent, kstdin, kubectl>>
      BY <1>6 DEF PumpReads
    <2>2. os_stdin \in Seq(1 .. sent) /\ Len(os_stdin) \in Nat
      BY <1>1 DEF SeqTypeOK
    <2>3. n \in 0 .. Len(os_stdin) /\ n <= Chunk
      BY <1>4, <2>2
    <2>. HIDE DEF n
    <2>4. /\ buf' \in Seq(1 .. sent) /\ Len(buf') = n
          /\ os_stdin' \in Seq(1 .. sent) /\ Len(os_stdin') = Len(os_stdin) - n
      BY <2>1, <2>2, <2>3, CutLemma
    <2>5. SeqTypeOK'
      BY <1>1, <1>3, <1>4, <2>1, <2>2, <2>3, <2>4 DEF SeqTypeOK
    <2>6. ASSUME kubectl' \notin Ends
          PROVE  \E d, e \in Nat : Part(kstdin', c, d) /\ Part(buf', d, e) /\ Part(os_stdin', e, sent')
      <3>1. PICK d, e \in Nat : Part(kstdin, c, d) /\ Part(buf, d, e) /\ Part(os_stdin, e, sent)
        BY <1>2, <2>1, <2>6
      <3>2. d = e
        BY <2>1, <3>1, PartEmpty
      <3>3. Part(buf', e, e + n) /\ Part(os_stdin', e + n, sent')
        BY <2>1, <2>3, <3>1, PartCut
      <3>4. e + n \in Nat
        BY <2>2, <2>3
      <3>. QED
        BY <2>1, <3>1, <3>2, <3>3, <3>4
    <2>7. Placed(taken', inbuf', stdin', kubectl', kstdin', buf', os_stdin', sent')
      BY <1>2, <1>3, <2>1, <2>6 DEF Placed
    <2>. QED
      BY <1>1, <1>3, <2>1, <2>5, <2>7, InOrderAfter
  <1>7. CASE PumpWrites
    <2>1. /\ kubectl = "run" /\ Len(kstdin) + Len(buf) <= PipeCap
          /\ kstdin' = kstdin \o buf /\ buf' = <<>> /\ UNCHANGED <<sent, os_stdin, kubectl>>
      BY <1>7 DEF PumpWrites, localVars
    <2>2. kstdin \in Seq(1 .. sent) /\ buf \in Seq(1 .. sent)
      BY <1>1 DEF SeqTypeOK
    <2>3. kstdin' \in Seq(1 .. sent) /\ Len(kstdin') = Len(kstdin) + Len(buf)
      BY <2>1, <2>2, ConcatLemma
    <2>4. buf' \in Seq(1 .. sent) /\ Len(buf') = 0
      BY <2>1
    <2>5. SeqTypeOK'
      BY <1>1, <1>3, <1>4, <2>1, <2>3, <2>4 DEF SeqTypeOK
    <2>6. PICK d, e \in Nat : Part(kstdin, c, d) /\ Part(buf, d, e) /\ Part(os_stdin, e, sent)
      BY <1>2, <2>1 DEF Ends
    <2>7. Part(kstdin', c, e)
      BY <2>1, <2>6, PartConcat
    <2>8. Part(buf', e, e) /\ Part(os_stdin', e, sent')
      BY <2>1, <2>6, PartEmpty
    <2>9. Placed(taken', inbuf', stdin', kubectl', kstdin', buf', os_stdin', sent')
      BY <1>2, <1>3, <2>1, <2>6, <2>7, <2>8 DEF Placed
    <2>. QED
      BY <1>1, <1>3, <2>1, <2>5, <2>9, InOrderAfter
  <1>8. CASE Hangup \/ PumpWriteFails \/ PumpEof \/ PumpReadFails \/ Signal \/ WaitReturns
    <2>1. BytesStay /\ kubectl' = kubectl
      BY <1>3, <1>8 DEF Hangup, PumpWriteFails, PumpEof, PumpReadFails, PumpReturns, Signal,
                        WaitReturns, localVars, pumpVars, BytesStay
    <2>. QED
      BY <2>1, BytesStayLemma
  <1>. QED
    BY <1>5, <1>6, <1>7, <1>8 DEF ProxyStep

\* kubectl carries bytes over, or cuts them off.
LEMMA KubectlBytes ==
    ASSUME IInv, KubectlStep
    PROVE  SeqTypeOK' /\ InOrder'
  <1>1. /\ SeqTypeOK
        /\ Placed(taken, inbuf, stdin, kubectl, kstdin, buf, os_stdin, sent)
        /\ sent <= Len(session.program) + Len(session.frames)
    BY InOrderLemma DEF IInv
  <1>2. PICK a, b, c \in Nat :
          /\ Part(taken, 0, a) /\ Part(inbuf, a, b) /\ Part(stdin, b, c) /\ c <= sent
          /\ kubectl \notin Ends =>
               \E d, e \in Nat : Part(kstdin, c, d) /\ Part(buf, d, e) /\ Part(os_stdin, e, sent)
    BY <1>1 DEF Placed
  <1>3. sent \in Nat /\ PipeCap \in Nat
    BY <1>1, Constants DEF SeqTypeOK
  <1>4. CASE Carry
    <2>1. /\ kubectl = "run" /\ Len(stdin) + Len(kstdin) <= PipeCap
          /\ stdin' = stdin \o kstdin /\ kstdin' = <<>>
          /\ UNCHANGED <<taken, inbuf, session, buf, os_stdin, sent, kubectl>>
      BY <1>4 DEF Carry, localVars
    <2>2. stdin \in Seq(1 .. sent) /\ kstdin \in Seq(1 .. sent)
      BY <1>1 DEF SeqTypeOK
    <2>3. stdin' \in Seq(1 .. sent) /\ Len(stdin') = Len(stdin) + Len(kstdin)
      BY <2>1, <2>2, ConcatLemma
    <2>4. kstdin' \in Seq(1 .. sent) /\ Len(kstdin') = 0
      BY <2>1
    <2>5. SeqTypeOK'
      BY <1>1, <1>3, <2>1, <2>3, <2>4 DEF SeqTypeOK
    <2>6. PICK d, e \in Nat : Part(kstdin, c, d) /\ Part(buf, d, e) /\ Part(os_stdin, e, sent)
      BY <1>2, <2>1 DEF Ends
    <2>7. Part(stdin', b, d)
      BY <1>2, <2>1, <2>6, PartConcat
    <2>8. Part(kstdin', d, d) /\ d <= e /\ e <= sent
      BY <2>1, <2>6, PartEmpty
    <2>9. Placed(taken', inbuf', stdin', kubectl', kstdin', buf', os_stdin', sent')
      BY <1>2, <1>3, <2>1, <2>6, <2>7, <2>8 DEF Placed
    <2>. QED
      BY <1>1, <2>1, <2>5, <2>9, InOrderAfter
  <1>5. ASSUME NEW how \in Ends, KubectlEnds(how)
        PROVE  SeqTypeOK' /\ InOrder'
    <2>1. PICK n \in 0 .. Len(stdin) : stdin' = SubSeq(stdin, 1, n)
      BY <1>5 DEF KubectlEnds
    <2>2. /\ kubectl' \in Ends
          /\ UNCHANGED <<taken, inbuf, session, kstdin, buf, os_stdin, sent>>
      BY <1>5 DEF KubectlEnds, localVars, pumpVars
    <2>3. stdin \in Seq(1 .. sent) /\ Len(stdin) \in Nat
      BY <1>1 DEF SeqTypeOK
    <2>4. stdin' \in Seq(1 .. sent) /\ Len(stdin') <= Len(stdin) /\ Len(stdin') \in Nat
      <3>1. SubSeq(stdin, 1, n) \in Seq(1 .. sent) /\ Len(SubSeq(stdin, 1, n)) = n
        BY <2>3, CutLemma
      <3>. QED
        BY <2>1, <2>3, <3>1
    <2>5. SeqTypeOK'
      BY <1>1, <1>3, <2>2, <2>3, <2>4 DEF SeqTypeOK
    <2>6. Part(stdin', b, b + n)
      BY <1>2, <2>1, PartCut
    <2>7. b + n \in Nat /\ b + n <= sent
      <3>1. b + Len(stdin) = c
        BY <1>2 DEF Part
      <3>. QED
        BY <1>2, <1>3, <2>1, <2>3, <3>1
    <2>8. Placed(taken', inbuf', stdin', kubectl', kstdin', buf', os_stdin', sent')
      BY <1>2, <2>2, <2>6, <2>7 DEF Placed
    <2>. QED
      BY <1>1, <2>2, <2>5, <2>8, InOrderAfter
  <1>6. CASE CarryEof
    <2>1. BytesStay /\ kubectl' = kubectl
      BY <1>6 DEF CarryEof, proxyVars, localVars, pumpVars, BytesStay
    <2>. QED
      BY <2>1, BytesStayLemma
  <1>7. CASE KubectlGoesDeaf
    <2>1. BytesStay /\ kubectl = "run" /\ kubectl' = "deaf"
      BY <1>7 DEF KubectlGoesDeaf, serverVars, inVars, localVars, pumpVars, BytesStay
    <2>. QED
      BY <2>1, BytesStayLemma DEF Ends
  <1>. QED
    BY <1>4, <1>5, <1>6, <1>7 DEF KubectlStep

\* The server takes the next byte there is.
LEMMA TakesLemma ==
    ASSUME IInv, UNCHANGED proxyVars, NEW st, Takes(st)
    PROVE  /\ SeqTypeOK' /\ InOrder'
           /\ Len(taken) \in Nat /\ Len(taken') = Len(taken) + 1
           /\ taken' = Append(taken, Len(taken) + 1)
           /\ Byte = ByteAt(Len(taken) + 1)
           /\ Len(taken) + 1 <= sent
           /\ Len(taken) + 1 <= Len(session.program) + Len(session.frames)
  <1>1. /\ SeqTypeOK
        /\ Placed(taken, inbuf, stdin, kubectl, kstdin, buf, os_stdin, sent)
        /\ sent <= Len(session.program) + Len(session.frames)
    BY InOrderLemma DEF IInv
  <1>2. PICK a, b, c \in Nat :
          /\ Part(taken, 0, a) /\ Part(inbuf, a, b) /\ Part(stdin, b, c) /\ c <= sent
          /\ kubectl \notin Ends =>
               \E d, e \in Nat : Part(kstdin, c, d) /\ Part(buf, d, e) /\ Part(os_stdin, e, sent)
    BY <1>1 DEF Placed
  <1>3. sent \in Nat /\ PipeCap \in Nat
    BY <1>1, Constants DEF SeqTypeOK
  <1>4. /\ inbuf # <<>> /\ inbuf' = Tail(inbuf) /\ taken' = Append(taken, Head(inbuf))
        /\ UNCHANGED <<session, stdin, kstdin, buf, os_stdin, sent, kubectl>>
    BY DEF Takes, proxyVars, localVars, pumpVars
  <1>5. /\ inbuf \in Seq(1 .. sent) /\ taken \in Seq(1 .. sent)
        /\ Len(inbuf) \in Nat /\ Len(taken) \in Nat
    BY <1>1 DEF SeqTypeOK
  <1>6. /\ inbuf' \in Seq(1 .. sent) /\ Len(inbuf') = Len(inbuf) - 1 /\ Head(inbuf) \in 1 .. sent
        /\ taken' \in Seq(1 .. sent) /\ Len(taken') = Len(taken) + 1
    <2>1. /\ Head(inbuf) \in 1 .. sent
          /\ Tail(inbuf) \in Seq(1 .. sent) /\ Len(Tail(inbuf)) = Len(inbuf) - 1
      BY <1>4, <1>5, SeqLemma
    <2>2. Append(taken, Head(inbuf)) \in Seq(1 .. sent) /\ Len(Append(taken, Head(inbuf))) = Len(taken) + 1
      BY <1>5, <2>1, SeqLemma
    <2>. QED
      BY <1>4, <2>1, <2>2
  <1>7. SeqTypeOK'
    BY <1>1, <1>3, <1>4, <1>5, <1>6 DEF SeqTypeOK
  <1>8. Head(inbuf) = a + 1 /\ a + 1 <= b /\ Part(inbuf', a + 1, b) /\ a + 1 \in Nat
    <2>1. Head(inbuf) = a + 1 /\ a + 1 <= b /\ Part(Tail(inbuf), a + 1, b)
      BY <1>2, <1>4, PartTail
    <2>. QED
      BY <1>2, <1>4, <2>1
  <1>9. Part(taken', 0, a + 1) /\ a = Len(taken)
    <2>1. Part(Append(taken, a + 1), 0, a + 1)
      BY <1>2, PartAppend
    <2>2. 0 <= a /\ Len(taken) = a - 0
      BY <1>2, PartEmpty
    <2>. QED
      BY <1>4, <1>8, <2>1, <2>2
  <1>10. Placed(taken', inbuf', stdin', kubectl', kstdin', buf', os_stdin', sent')
    BY <1>2, <1>4, <1>8, <1>9 DEF Placed
  <1>11. b <= c
    BY <1>2, PartEmpty
  <1>12. InOrder'
    BY <1>1, <1>4, <1>7, <1>10, InOrderAfter
  <1>13. Len(taken) + 1 <= sent /\ Len(taken) + 1 <= Len(session.program) + Len(session.frames)
    <2>1. Len(session.program) \in Nat /\ Len(session.frames) \in Nat
      BY LengthsLemma DEF IInv
    <2>. QED
      <3>1. Len(taken) + 1 <= sent
        <4>1. b \in Nat /\ c \in Nat /\ c <= sent
          BY <1>2
        <4>. QED
          BY <1>3, <1>8, <1>9, <1>11, <4>1
      <3>2. \A p, f \in Nat : sent <= p + f => Len(taken) + 1 <= p + f
        BY <1>3, <1>5, <3>1
      <3>. QED
        BY <1>1, <2>1, <3>1, <3>2
  <1>14. Byte = ByteAt(Len(taken) + 1)
    BY <1>8, <1>9 DEF Byte
  <1>. QED
    BY <1>4, <1>5, <1>6, <1>7, <1>8, <1>9, <1>12, <1>13, <1>14

\* What the server does with its input otherwise leaves it in order.
LEMMA ServeBytes ==
    ASSUME IInv, ServeStep
    PROVE  SeqTypeOK' /\ InOrder'
  <1>1. /\ SeqTypeOK
        /\ Placed(taken, inbuf, stdin, kubectl, kstdin, buf, os_stdin, sent)
        /\ sent <= Len(session.program) + Len(session.frames)
    BY InOrderLemma DEF IInv
  <1>2. UNCHANGED <<kstdin, buf, os_stdin, sent, kubectl>>
    BY DEF ServeStep, proxyVars, localVars, pumpVars
  <1>3. CASE Fill
    <2>1. inbuf = <<>> /\ inbuf' = stdin /\ stdin' = <<>> /\ UNCHANGED <<taken, session>>
      BY <1>3 DEF Fill
    <2>2. stdin' \in Seq(1 .. sent) /\ Len(stdin') = 0
      BY <2>1
    <2>3. SeqTypeOK'
      BY <1>1, <1>2, <2>1, <2>2, Constants DEF SeqTypeOK
    <2>4. PICK a, b, c \in Nat :
            /\ Part(taken, 0, a) /\ Part(inbuf, a, b) /\ Part(stdin, b, c) /\ c <= sent
            /\ kubectl \notin Ends =>
                 \E d, e \in Nat : Part(kstdin, c, d) /\ Part(buf, d, e) /\ Part(os_stdin, e, sent)
      BY <1>1 DEF Placed
    <2>5. a = b
      BY <2>1, <2>4, PartEmpty
    <2>6. Part(inbuf', a, c) /\ Part(stdin', c, c)
      BY <2>1, <2>4, <2>5, PartEmpty
    <2>7. Placed(taken', inbuf', stdin', kubectl', kstdin', buf', os_stdin', sent')
      BY <1>2, <2>1, <2>4, <2>6 DEF Placed
    <2>. QED
      BY <1>1, <1>2, <2>1, <2>3, <2>7, InOrderAfter
  <1>4. CASE AtEof \/ Greet \/ Handle \/ ServerExits \/ WriterWrites \/ WriterBreaks \/ FlowsEnd \/ GreetFails
    <2>1. UNCHANGED <<session, inVars>>
      BY <1>4 DEF AtEof, Greet, Handle, ServerExits, WriterWrites, WriterBreaks, FlowsEnd, GreetFails
    <2>2. BytesStay
      BY <1>2, <2>1 DEF BytesStay, inVars
    <2>. QED
      BY <1>2, <2>2, BytesStayLemma
  <1>. QED
    BY <1>3, <1>4 DEF ServeStep

(***************************************************************************)
(* The server stays in step with what it reads                             *)
(***************************************************************************)
\* A server that reads nothing and decides nothing is where it was.
LEMMA ParseStays ==
    ASSUME ParseInv, UNCHANGED <<session, taken, stage, need, blank, frame>>
    PROVE  ParseInv'
  BY DEF ParseInv, EaterInv, LoopInv, At

\* Where the eater is, by stage.
LEMMA EaterPlaces ==
    ASSUME IInv, stage \in BootstrapStages
    PROVE  /\ session.compat
           /\ session.assembler = 0 => /\ stage = "name" /\ Len(taken) = 0 /\ blank
                                       /\ Len(session.program) = 1 /\ session.program[1] = "nl"
           /\ session.assembler # 0 => session.assembler = 1 /\ OneModule(session.program)
           /\ stage = "assembler" => session.assembler = 1 /\ Len(taken) = 0 /\ need = 1 /\ blank
           /\ stage = "name" /\ session.assembler = 1 =>
                \/ Len(taken) \in {1, 7} /\ blank
                \/ Len(taken) = 2 /\ ~ blank
           /\ stage = "count" =>
                /\ session.assembler = 1
                /\ \/ Len(taken) = 3 /\ need = 0 /\ blank
                   \/ Len(taken) = 4 /\ need = 2 /\ ~ blank
           /\ stage = "body" =>
                /\ session.assembler = 1 /\ blank
                /\ \/ Len(taken) = 5 /\ need = 2
                   \/ Len(taken) = 6 /\ need = 1
  <1>1. EaterInv /\ SessionOK(session)
    BY DEF IInv, ParseInv
  <1>2. /\ session.compat
        /\ session.assembler = 0 => Len(session.program) = 1 /\ session.program[1] = "nl"
        /\ session.assembler # 0 => session.assembler = 1 /\ OneModule(session.program)
    BY <1>1 DEF SessionOK, EaterInv
  <1>3. session.assembler = 0 => stage = "name" /\ Len(taken) = 0 /\ blank
    BY <1>1 DEF EaterInv, At
  <1>4. /\ stage = "assembler" => session.assembler = 1 /\ Len(taken) = 0 /\ need = 1 /\ blank
        /\ stage = "name" /\ session.assembler = 1 =>
                \/ Len(taken) \in {1, 7} /\ blank
                \/ Len(taken) = 2 /\ ~ blank
        /\ stage = "count" =>
                /\ session.assembler = 1
                /\ \/ Len(taken) = 3 /\ need = 0 /\ blank
                   \/ Len(taken) = 4 /\ need = 2 /\ ~ blank
        /\ stage = "body" =>
                /\ session.assembler = 1 /\ blank
                /\ \/ Len(taken) = 5 /\ need = 2
                   \/ Len(taken) = 6 /\ need = 1
    BY <1>1 DEF EaterInv, At
  <1>. QED
    BY <1>2, <1>3, <1>4

\* The eater at a place in the program after a step.
LEMMA EaterAfter ==
    ASSUME stage' \in BootstrapStages, session'.compat, session'.assembler = 1,
           need' \in Nat, frame' \in DOMAIN Payload, blank' \in BOOLEAN,
           \/ stage' = "name" /\ Len(taken') = 1 /\ blank'
           \/ stage' = "name" /\ Len(taken') = 7 /\ blank'
           \/ stage' = "name" /\ Len(taken') = 2 /\ ~ blank'
           \/ stage' = "count" /\ Len(taken') = 3 /\ need' = 0 /\ blank'
           \/ stage' = "count" /\ Len(taken') = 4 /\ need' = 2 /\ ~ blank'
           \/ stage' = "body" /\ Len(taken') = 5 /\ need' = 2 /\ blank'
           \/ stage' = "body" /\ Len(taken') = 6 /\ need' = 1 /\ blank'
    PROVE  ParseInv'
  <1>1. EaterInv'
    BY DEF EaterInv, At
  <1>2. LoopInv'
    BY DEF LoopInv, BootstrapStages
  <1>3. stage' \in Stages
    BY DEF Stages
  <1>. QED
    BY <1>1, <1>2, <1>3 DEF ParseInv

\* The eater has come to the end of the program.
LEMMA GreetAfter ==
    ASSUME stage' = "greet", Len(taken') = Len(session'.program), Len(taken') \in Nat,
           need' \in Nat, frame' \in DOMAIN Payload, blank' \in BOOLEAN
    PROVE  ParseInv'
  BY DEF ParseInv, EaterInv, LoopInv, BootstrapStages, Stages

\* The assembler's source is discarded.
LEMMA AssemblerStep ==
    ASSUME IInv, UNCHANGED proxyVars, TakeAssembler
    PROVE  ParseInv' /\ stage' \in BootstrapStages
  <1>1. Takes("assembler") /\ stage = "assembler"
    BY DEF TakeAssembler, TakesOneOf, Takes
  <1>2. /\ need' = need - 1 /\ stage' = IF need' = 0 THEN "name" ELSE "assembler"
        /\ UNCHANGED <<blank, frame, session>>
    BY DEF TakeAssembler, TakesOneOf, Takes
  <1>3. session.compat /\ session.assembler = 1 /\ Len(taken) = 0 /\ need = 1 /\ blank
    BY <1>1, EaterPlaces DEF BootstrapStages
  <1>4. Len(taken') = 1
    <2>1. Len(taken') = Len(taken) + 1
      BY <1>1, TakesLemma
    <2>2. Len(taken) = 0
      BY <1>3
    <2>. QED
      BY <2>1, <2>2
  <1>5. frame \in DOMAIN Payload /\ blank \in BOOLEAN
    BY DEF IInv, ParseInv
  <1>6. need' = 0 /\ stage' = "name" /\ stage' \in BootstrapStages
    BY <1>2, <1>3 DEF BootstrapStages
  <1>. QED
    BY <1>2, <1>3, <1>4, <1>5, <1>6, EaterAfter

\* A name is read to its end, or ends the bootstrap.
LEMMA NameStep ==
    ASSUME IInv, UNCHANGED proxyVars, TakeName
    PROVE  ParseInv' /\ stage' \in BootstrapStages \cup {"greet"}
  <1>1. Takes("name") /\ stage = "name"
    BY DEF TakeName, Takes
  <1>2. /\ stage' = IF Byte # "nl" THEN "name" ELSE IF blank THEN "greet" ELSE "count"
        /\ blank' = (Byte = "nl") /\ need' = 0 /\ UNCHANGED <<frame, session>>
    BY DEF TakeName, Takes
  <1>3. Len(taken) \in Nat /\ Len(taken') = Len(taken) + 1 /\ Byte = ByteAt(Len(taken) + 1)
    BY <1>1, TakesLemma
  <1>4. frame \in DOMAIN Payload /\ 0 \in Nat /\ blank' \in BOOLEAN
    BY <1>2 DEF IInv, ParseInv
  <1>5. CASE session.assembler = 0
    <2>1. Len(taken) = 0 /\ blank /\ Len(session.program) = 1 /\ session.program[1] = "nl"
      BY <1>1, <1>5, EaterPlaces DEF BootstrapStages
    <2>2. Byte = "nl"
      BY <1>3, <2>1 DEF ByteAt
    <2>3. stage' = "greet" /\ Len(taken') = 1 /\ Len(taken') = Len(session'.program)
      BY <1>2, <1>3, <2>1, <2>2
    <2>. QED
      BY <1>2, <1>4, <2>3, GreetAfter
  <1>6. CASE session.assembler # 0
    <2>1. /\ session.compat /\ session.assembler = 1 /\ OneModule(session.program)
          /\ \/ Len(taken) \in {1, 7} /\ blank
             \/ Len(taken) = 2 /\ ~ blank
      BY <1>1, <1>6, EaterPlaces DEF BootstrapStages
    <2>2. CASE Len(taken) = 1
      <3>1. Byte = "m"
        BY <1>3, <2>1, <2>2 DEF ByteAt, OneModule
      <3>2. stage' = "name" /\ ~ blank' /\ Len(taken') = 2 /\ stage' \in BootstrapStages
        <4>1. Len(taken') = 2
          BY <1>3, <2>2
        <4>. QED
          BY <1>2, <3>1, <4>1 DEF BootstrapStages
      <3>. QED
        BY <1>2, <1>4, <2>1, <3>2, EaterAfter
    <2>3. CASE Len(taken) = 7
      <3>1. Byte = "nl" /\ Len(session.program) = 8
        BY <1>3, <2>1, <2>3 DEF ByteAt, OneModule
      <3>2. stage' = "greet" /\ Len(taken') = 8
        BY <1>2, <1>3, <2>1, <2>3, <3>1
      <3>. QED
        BY <1>2, <1>4, <3>1, <3>2, GreetAfter
    <2>4. CASE Len(taken) = 2
      <3>1. Byte = "nl"
        BY <1>3, <2>1, <2>4 DEF ByteAt, OneModule
      <3>2. stage' = "count" /\ blank' /\ Len(taken') = 3 /\ stage' \in BootstrapStages
        <4>1. Len(taken') = 3 /\ ~ blank
          BY <1>3, <2>1, <2>4
        <4>. QED
          BY <1>2, <3>1, <4>1 DEF BootstrapStages
      <3>. QED
        BY <1>2, <1>4, <2>1, <3>2, EaterAfter
    <2>. QED
      BY <2>1, <2>2, <2>3, <2>4
  <1>. QED
    BY <1>5, <1>6

\* The count is a digit, and its line ends.
LEMMA CountStep ==
    ASSUME IInv, UNCHANGED proxyVars, TakeCount
    PROVE  ParseInv' /\ stage' \in BootstrapStages
  <1>1. Takes("count") /\ stage = "count"
    BY DEF TakeCount, Takes
  <1>2. Len(taken) \in Nat /\ Len(taken') = Len(taken) + 1 /\ Byte = ByteAt(Len(taken) + 1)
    BY <1>1, TakesLemma
  <1>3. /\ session.compat /\ session.assembler = 1 /\ OneModule(session.program)
        /\ \/ Len(taken) = 3 /\ need = 0 /\ blank
           \/ Len(taken) = 4 /\ need = 2 /\ ~ blank
    BY <1>1, EaterPlaces DEF BootstrapStages
  <1>4. frame \in DOMAIN Payload /\ UNCHANGED <<frame, session>>
    BY DEF IInv, ParseInv, TakeCount, Takes
  <1>5. CASE Len(taken) = 3
    <2>1. Byte = "2" /\ need = 0
      BY <1>2, <1>3, <1>5 DEF ByteAt, OneModule
    <2>2. need' = 10 * need + Digit["2"] /\ stage' = stage /\ blank' = FALSE
      BY <2>1, DigitLemma DEF TakeCount
    <2>3. need' = 2 /\ stage' = "count" /\ Len(taken') = 4 /\ stage' \in BootstrapStages
      BY <1>1, <1>2, <1>5, <2>1, <2>2, DigitLemma DEF BootstrapStages
    <2>4. blank' \in BOOLEAN /\ ~ blank'
      BY <2>2
    <2>5. session'.compat /\ session'.assembler = 1 /\ frame' \in DOMAIN Payload /\ need' \in Nat
      BY <1>3, <1>4, <2>3
    <2>. QED
      BY <2>3, <2>4, <2>5, EaterAfter
  <1>6. CASE Len(taken) = 4
    <2>1. Byte = "nl" /\ need = 2
      BY <1>2, <1>3, <1>6 DEF ByteAt, OneModule
    <2>2. need' = 2 /\ stage' = "body" /\ blank' = TRUE
      BY <1>3, <1>6, <2>1, DigitLemma DEF TakeCount
    <2>3. Len(taken') = 5 /\ stage' \in BootstrapStages
      BY <1>2, <1>6, <2>2 DEF BootstrapStages
    <2>. QED
      BY <1>3, <1>4, <2>2, <2>3, EaterAfter
  <1>. QED
    BY <1>3, <1>5, <1>6

\* As many bytes as the count says are the module.
LEMMA BodyStep ==
    ASSUME IInv, UNCHANGED proxyVars, TakeBody
    PROVE  ParseInv' /\ stage' \in BootstrapStages
  <1>1. Takes("body") /\ stage = "body"
    BY DEF TakeBody, TakesOneOf, Takes
  <1>2. /\ need' = need - 1 /\ stage' = IF need' = 0 THEN "name" ELSE "body"
        /\ UNCHANGED <<blank, frame, session>>
    BY DEF TakeBody, TakesOneOf, Takes
  <1>3. /\ session.compat /\ session.assembler = 1 /\ blank
        /\ \/ Len(taken) = 5 /\ need = 2
           \/ Len(taken) = 6 /\ need = 1
    BY <1>1, EaterPlaces DEF BootstrapStages
  <1>4. Len(taken') = Len(taken) + 1
    BY <1>1, TakesLemma
  <1>5. frame \in DOMAIN Payload /\ blank \in BOOLEAN
    BY DEF IInv, ParseInv
  <1>6. \/ Len(taken') = 6 /\ need' = 1 /\ stage' = "body"
        \/ Len(taken') = 7 /\ need' = 0 /\ stage' = "name"
    <2>1. CASE Len(taken) = 5 /\ need = 2
      <3>1. Len(taken') = 6 /\ need' = 1
        BY <1>2, <1>4, <2>1
      <3>. QED
        BY <1>2, <3>1
    <2>2. CASE Len(taken) = 6 /\ need = 1
      <3>1. Len(taken') = 7 /\ need' = 0
        BY <1>2, <1>4, <2>2
      <3>. QED
        BY <1>2, <3>1
    <2>. QED
      BY <1>3, <2>1, <2>2
  <1>7. need' \in Nat /\ stage' \in BootstrapStages
    BY <1>6 DEF BootstrapStages
  <1>. QED
    BY <1>2, <1>3, <1>5, <1>6, <1>7, EaterAfter

\* A frame is read to its end.
LEMMA LoopAfter ==
    ASSUME NEW m \in Nat, Len(taken') = Len(session'.program) + m,
           Len(session'.program) \in Nat,
           need' \in Nat, frame' \in DOMAIN Payload, blank' \in BOOLEAN,
           \/ stage' \in {"header", "handle"} /\ Starts(session'.frames, m)
           \/ /\ stage' = "payload" /\ need' > 0 /\ Starts(session'.frames, m + need')
              /\ \A j \in m + 1 .. m + need' : session'.frames[j] = "x"
    PROVE  ParseInv'
  <1>1. Len(taken') - Len(session'.program) = m
    OBVIOUS
  <1>2. EaterInv'
    BY DEF EaterInv, BootstrapStages
  <1>3. LoopInv'
    <2>. DEFINE k == Len(taken') - Len(session'.program)
    <2>1. k = m /\ k >= 0
      BY <1>1
    <2>. HIDE DEF k
    <2>2. stage' # "greet"
      OBVIOUS
    <2>3. stage' \in {"header", "handle"} => Starts(session'.frames, k)
      BY <2>1
    <2>4. stage' = "payload" =>
            /\ need' > 0 /\ Starts(session'.frames, k + need')
            /\ \A j \in k + 1 .. k + need' : session'.frames[j] = "x"
      BY <2>1
    <2>. QED
      BY <2>1, <2>2, <2>3, <2>4 DEF LoopInv, k
  <1>4. stage' \in Stages
    BY DEF Stages
  <1>. QED
    BY <1>2, <1>3, <1>4 DEF ParseInv

\* Where the loop is, by stage.
LEMMA LoopPlaces ==
    ASSUME IInv, stage \in {"header", "payload", "handle"}
    PROVE  /\ Len(session.program) \in Nat /\ Len(session.frames) \in Nat
           /\ \E m \in Nat :
                /\ Len(taken) = Len(session.program) + m
                /\ stage \in {"header", "handle"} => Starts(session.frames, m)
                /\ stage = "payload" =>
                     /\ need > 0 /\ Starts(session.frames, m + need)
                     /\ \A j \in m + 1 .. m + need : session.frames[j] = "x"
  <1>. DEFINE m == Len(taken) - Len(session.program)
  <1>1. Len(session.program) \in Nat /\ Len(session.frames) \in Nat /\ Len(taken) \in Nat
    <2>1. taken \in Seq(1 .. sent)
      BY DEF IInv, SeqTypeOK
    <2>. QED
      BY <2>1, LengthsLemma DEF IInv
  <1>2. m >= 0
    BY DEF IInv, ParseInv, LoopInv, BootstrapStages
  <1>3. m \in Nat /\ Len(taken) = Len(session.program) + m
    BY <1>1, <1>2
  <1>4. /\ stage \in {"header", "handle"} => Starts(session.frames, m)
        /\ stage = "payload" =>
             /\ need > 0 /\ Starts(session.frames, m + need)
             /\ \A j \in m + 1 .. m + need : session.frames[j] = "x"
    BY DEF IInv, ParseInv, LoopInv
  <1>. QED
    BY <1>1, <1>3, <1>4

\* The frame loop finds a header where it looks for one.
LEMMA HeaderStep ==
    ASSUME IInv, UNCHANGED proxyVars, TakeHeader
    PROVE  ParseInv' /\ stage' \in {"handle", "payload"}
  <1>1. Takes("header") /\ stage = "header"
    BY DEF TakeHeader, Takes
  <1>2. /\ Len(taken) \in Nat /\ Len(taken') = Len(taken) + 1 /\ Byte = ByteAt(Len(taken) + 1)
        /\ Len(taken) + 1 <= Len(session.program) + Len(session.frames)
    BY <1>1, TakesLemma
  <1>3. PICK m \in Nat : Len(taken) = Len(session.program) + m /\ Starts(session.frames, m)
    BY <1>1, LoopPlaces
  <1>4. Len(session.program) \in Nat /\ Len(session.frames) \in Nat
    BY <1>1, LoopPlaces
  <1>5. m + 1 \in 1 .. Len(session.frames) /\ m < Len(session.frames) /\ m + 1 \in Nat
    <2>1. \A t, p, f \in Nat : t = p + m /\ t + 1 <= p + f => m + 1 \in 1 .. f /\ m < f
      OBVIOUS
    <2>2. m + 1 \in 1 .. Len(session.frames) /\ m < Len(session.frames)
      BY <1>2, <1>3, <1>4, <2>1
    <2>. QED
      BY <2>2
  <1>6. Byte = session.frames[m + 1]
    <2>1. ~ (Len(taken) + 1 <= Len(session.program)) /\ (Len(taken) + 1) - Len(session.program) = m + 1
      <3>1. \A t, p \in Nat : t = p + m => ~ (t + 1 <= p) /\ (t + 1) - p = m + 1
        OBVIOUS
      <3>. QED
        BY <1>2, <1>3, <1>4, <3>1
    <2>. QED
      BY <1>2, <2>1 DEF ByteAt
  <1>7. session.frames \in Seq(Letters) /\ WellFramed(session.frames)
    BY DEF IInv, SessionOK
  <1>8. Byte # "x" /\ Byte \in DOMAIN Payload /\ Payload[Byte] \in {0, 1}
    <2>1. session.frames[m + 1] # "x"
      BY <1>3, <1>5 DEF Starts
    <2>2. session.frames[m + 1] \in Letters
      BY <1>5, <1>7
    <2>. QED
      BY <1>6, <2>1, <2>2, PayloadLemma DEF Letters
  <1>. DEFINE n == Payload[Byte]
  <1>9. /\ Starts(session.frames, m + 1 + n)
        /\ \A j \in m + 1 + 1 .. m + 1 + n : session.frames[j] = "x"
    <2>1. m + 1 \in DOMAIN session.frames
      BY <1>5, <1>7
    <2>. QED
      BY <1>6, <1>7, <1>8, <2>1 DEF WellFramed
  <1>10. /\ frame' = Byte /\ need' = n /\ stage' = IF need' = 0 THEN "handle" ELSE "payload"
         /\ UNCHANGED <<blank, session>>
    BY <1>8 DEF TakeHeader, Takes
  <1>11. blank \in BOOLEAN
    BY DEF IInv, ParseInv
  <1>12. Len(taken') = Len(session'.program) + (m + 1)
    <2>1. session' = session
      BY <1>10
    <2>2. \A t, p \in Nat : t = p + m => t + 1 = p + (m + 1)
      OBVIOUS
    <2>. QED
      BY <1>2, <1>3, <1>4, <2>1, <2>2
  <1>13. CASE n = 0
    <2>1. Starts(session'.frames, m + 1) /\ stage' = "handle" /\ need' \in Nat
      BY <1>5, <1>9, <1>10, <1>13
    <2>. QED
      BY <1>4, <1>5, <1>8, <1>10, <1>11, <1>12, <2>1, LoopAfter
  <1>14. CASE n = 1
    <2>1. /\ stage' = "payload" /\ need' \in Nat /\ need' > 0 /\ Starts(session'.frames, (m + 1) + need')
          /\ \A j \in (m + 1) + 1 .. (m + 1) + need' : session'.frames[j] = "x"
      BY <1>5, <1>9, <1>10, <1>14
    <2>. QED
      BY <1>4, <1>5, <1>8, <1>10, <1>11, <1>12, <2>1, LoopAfter
  <1>. QED
    BY <1>8, <1>13, <1>14

\* A payload is as long as its header says.
LEMMA PayloadStep ==
    ASSUME IInv, UNCHANGED proxyVars, TakePayload
    PROVE  ParseInv' /\ stage' \in {"handle", "payload"}
  <1>1. Takes("payload") /\ stage = "payload"
    BY DEF TakePayload, TakesOneOf, Takes
  <1>2. /\ need' = need - 1 /\ stage' = IF need' = 0 THEN "handle" ELSE "payload"
        /\ UNCHANGED <<blank, frame, session>>
    BY DEF TakePayload, TakesOneOf, Takes
  <1>3. Len(taken) \in Nat /\ Len(taken') = Len(taken) + 1
    BY <1>1, TakesLemma
  <1>4. PICK m \in Nat :
          /\ Len(taken) = Len(session.program) + m
          /\ need > 0 /\ Starts(session.frames, m + need)
          /\ \A j \in m + 1 .. m + need : session.frames[j] = "x"
    BY <1>1, LoopPlaces
  <1>5. Len(session.program) \in Nat /\ need \in Nat
    BY <1>1, LoopPlaces DEF IInv, ParseInv
  <1>6. frame \in DOMAIN Payload /\ blank \in BOOLEAN
    BY DEF IInv, ParseInv
  <1>7. Len(taken') = Len(session'.program) + (m + 1) /\ m + 1 \in Nat /\ need' \in Nat
        /\ Len(session'.program) \in Nat
    <2>1. session' = session /\ need' \in Nat
      BY <1>2, <1>4, <1>5
    <2>2. \A t, p \in Nat : t = p + m => t + 1 = p + (m + 1)
      OBVIOUS
    <2>. QED
      <3>1. Len(taken') = Len(session.program) + (m + 1)
        BY <1>3, <1>4, <1>5, <2>2
      <3>2. m + 1 \in Nat
        OBVIOUS
      <3>. QED
        BY <1>5, <2>1, <3>1, <3>2
  <1>8. (m + 1) + need' = m + need
    BY <1>2, <1>4, <1>5
  <1>9. /\ Starts(session'.frames, (m + 1) + need')
        /\ \A j \in (m + 1) + 1 .. (m + 1) + need' : session'.frames[j] = "x"
    <2>1. session' = session
      BY <1>2
    <2>2. \A j \in (m + 1) + 1 .. m + need : j \in m + 1 .. m + need
      BY <1>4, <1>5
    <2>. QED
      BY <1>4, <1>8, <2>1, <2>2
  <1>10. CASE need' = 0
    <2>1. Starts(session'.frames, m + 1) /\ stage' = "handle"
      <3>1. (m + 1) + need' = m + 1
        BY <1>10
      <3>. QED
        BY <1>2, <1>9, <1>10, <3>1
    <2>. QED
      BY <1>2, <1>6, <1>7, <2>1, LoopAfter
  <1>11. CASE need' # 0
    <2>1. stage' = "payload" /\ need' > 0
      <3>1. need' > 0
        BY <1>7, <1>11
      <3>. QED
        BY <1>2, <1>11, <3>1
    <2>. QED
      BY <1>2, <1>6, <1>7, <1>9, <2>1, LoopAfter
  <1>. QED
    BY <1>10, <1>11

\* The server reads what is there, and nothing it reads ends it.
LEMMA TakeParse ==
    ASSUME IInv, TakeStep
    PROVE  ParseInv' /\ stage' \notin {"draining", "exited", "failed"}
  BY AssemblerStep, NameStep, CountStep, BodyStep, HeaderStep, PayloadStep DEF TakeStep, BootstrapStages

\* What it decides between reads keeps it in step.
LEMMA ServeParse ==
    ASSUME IInv, ServeStep
    PROVE  ParseInv'
  <1>1. ParseInv
    BY DEF IInv
  <1>2. CASE Fill \/ WriterWrites \/ WriterBreaks \/ FlowsEnd
    BY <1>1, <1>2, ParseStays DEF Fill, WriterWrites, WriterBreaks, FlowsEnd, inVars
  <1>3. CASE AtEof \/ GreetFails
    <2>1. UNCHANGED <<session, taken, need, blank, frame>>
      BY <1>3 DEF AtEof, GreetFails, inVars
    <2>2. CASE stage' = "failed"
      BY <1>1, <2>1, <2>2 DEF ParseInv, EaterInv, LoopInv, BootstrapStages, Stages
    <2>3. CASE stage \in {"header", "payload"} /\ stage' = "draining"
      BY <1>1, <2>1, <2>3 DEF ParseInv, EaterInv, LoopInv, BootstrapStages, Stages
    <2>. QED
      BY <1>3, <2>2, <2>3 DEF AtEof, GreetFails
  <1>4. CASE Greet
    <2>1. stage = "greet" /\ stage' = "header" /\ UNCHANGED <<session, taken, need, blank, frame>>
      BY <1>4 DEF Greet, inVars
    <2>2. Len(taken) - Len(session.program) = 0 /\ Starts(session.frames, 0)
      BY <1>1, <2>1 DEF ParseInv, LoopInv, IInv, SessionOK, WellFramed
    <2>. QED
      BY <1>1, <2>1, <2>2 DEF ParseInv, EaterInv, LoopInv, BootstrapStages, Stages
  <1>5. CASE Handle
    <2>1. /\ stage = "handle" /\ stage' \in {"draining", "header"}
          /\ UNCHANGED <<session, taken, need, blank, frame>>
      BY <1>5 DEF Handle, inVars
    <2>. QED
      BY <1>1, <2>1 DEF ParseInv, EaterInv, LoopInv, BootstrapStages, Stages
  <1>6. CASE ServerExits
    <2>1. stage = "draining" /\ stage' = "exited" /\ UNCHANGED <<session, taken, need, blank, frame>>
      BY <1>6 DEF ServerExits, inVars
    <2>. QED
      BY <1>1, <2>1 DEF ParseInv, EaterInv, LoopInv, BootstrapStages, Stages
  <1>. QED
    BY <1>2, <1>3, <1>4, <1>5, <1>6 DEF ServeStep

(***************************************************************************)
(* Ends have causes                                                        *)
(***************************************************************************)
\* The end of the server's input is that of sshuttle's output, unless something
\* was cut.
LEMMA EndOfInput ==
    IInv /\ stdin = <<>> /\ inbuf = <<>> /\ stdin_eof =>
        \/ kubectl \in Ends \/ ctx_done
        \/ hangup /\ Len(taken) = sent
  <1>. SUFFICES ASSUME IInv, stdin = <<>>, inbuf = <<>>, stdin_eof, kubectl \notin Ends, ~ ctx_done
                PROVE  hangup /\ Len(taken) = sent
    OBVIOUS
  <1>1. kstdin = <<>> /\ hangup /\ buf = <<>> /\ os_stdin = <<>>
    BY DEF IInv, EndsInOrder
  <1>2. PICK a, b, c \in Nat :
          /\ Part(taken, 0, a) /\ Part(inbuf, a, b) /\ Part(stdin, b, c)
          /\ \E d, e \in Nat : Part(kstdin, c, d) /\ Part(buf, d, e) /\ Part(os_stdin, e, sent)
    BY InOrderLemma DEF IInv, Placed
  <1>3. PICK d, e \in Nat : Part(kstdin, c, d) /\ Part(buf, d, e) /\ Part(os_stdin, e, sent)
    BY <1>2
  <1>4. a = b /\ b = c /\ c = d /\ d = e /\ e = sent
    BY <1>1, <1>2, <1>3, PartEmpty
  <1>5. Len(taken) = a - 0
    BY <1>2, PartEmpty
  <1>. QED
    BY <1>1, <1>2, <1>4, <1>5

\* The steps of sshuttle and ssh-proxy.
LEMMA ProxyEnds ==
    ASSUME IInv, ProxyStep
    PROVE  ProcTypeOK' /\ OutTypeOK' /\ EndsInOrder' /\ EndInv'
  <1>1. /\ UNCHANGED <<session, stdin, stdin_eof, inbuf, taken, stage, handled, out, writer, open, stdout>>
    BY DEF ProxyStep, serverVars, inVars, outVars
  <1>2. OutTypeOK'
    BY <1>1 DEF OutTypeOK, IInv
  <1>3. ProcTypeOK /\ EndsInOrder /\ EndInv
    BY DEF IInv
  <1>4. CASE SshuttleWrites(Len(session.program) + Len(session.frames))
    <2>1. ~ hangup /\ UNCHANGED <<hangup, buf, pump, kstdin, kstdin_closed, ctx_done, kubectl, shim>>
      BY <1>4 DEF SshuttleWrites, pumpVars
    <2>. QED
      BY <1>1, <1>2, <1>3, <2>1 DEF ProcTypeOK, EndsInOrder, EndInv
  <1>5. CASE Hangup
    <2>1. hangup' = TRUE
          /\ UNCHANGED <<sent, os_stdin, buf, pump, kstdin, kstdin_closed, ctx_done, kubectl, shim>>
      BY <1>5 DEF Hangup, pumpVars
    <2>. QED
      BY <1>1, <1>2, <1>3, <2>1 DEF ProcTypeOK, EndsInOrder, EndInv
  <1>6. CASE PumpReads \/ PumpWrites
    <2>1. /\ pump = "run"
          /\ UNCHANGED <<sent, hangup, pump, kstdin_closed, ctx_done, kubectl, shim>>
      BY <1>6 DEF PumpReads, PumpWrites, Pumping, localVars
    <2>2. ~ kstdin_closed
      BY <1>3, <2>1 DEF EndsInOrder
    <2>. QED
      BY <1>1, <1>2, <1>3, <2>1, <2>2 DEF ProcTypeOK, EndsInOrder, EndInv
  <1>7. CASE PumpWriteFails \/ PumpReadFails
    <2>1. /\ pump = "run" /\ pump' = "done" /\ kstdin_closed' = TRUE /\ ctx_done' = TRUE
          /\ UNCHANGED <<sent, hangup, os_stdin, buf, kstdin, kubectl, shim>>
      BY <1>3, <1>7 DEF PumpWriteFails, PumpReadFails, PumpReturns, Pumping, localVars, ProcTypeOK
    <2>. QED
      BY <1>1, <1>2, <1>3, <2>1 DEF ProcTypeOK, EndsInOrder, EndInv
  <1>8. CASE PumpEof
    <2>1. /\ buf = <<>> /\ os_stdin = <<>> /\ hangup
          /\ pump = "run" /\ pump' = "done" /\ kstdin_closed' = TRUE /\ ctx_done' = ctx_done
          /\ UNCHANGED <<sent, hangup, os_stdin, buf, kstdin, kubectl, shim>>
      BY <1>3, <1>8 DEF PumpEof, PumpReturns, Pumping, localVars, ProcTypeOK
    <2>. QED
      BY <1>1, <1>2, <1>3, <2>1 DEF ProcTypeOK, EndsInOrder, EndInv
  <1>9. CASE Signal
    <2>1. /\ ctx_done' = TRUE
          /\ UNCHANGED <<sent, hangup, os_stdin, buf, pump, kstdin, kstdin_closed, kubectl, shim>>
      BY <1>9 DEF Signal, localVars
    <2>. QED
      BY <1>1, <1>2, <1>3, <2>1 DEF ProcTypeOK, EndsInOrder, EndInv
  <1>10. CASE WaitReturns
    <2>1. /\ kubectl \in Ends /\ (shim' = kubectl \/ shim' = "error")
          /\ UNCHANGED <<sent, hangup, os_stdin, buf, pump, kstdin, kstdin_closed, ctx_done, kubectl>>
      BY <1>10 DEF WaitReturns, localVars, pumpVars
    <2>2. ProcTypeOK' /\ EndsInOrder'
      BY <1>1, <1>3, <2>1 DEF ProcTypeOK, EndsInOrder, Ends
    <2>3. EndInv'
      BY <1>1, <1>3, <2>1 DEF EndInv
    <2>. QED
      BY <1>2, <2>2, <2>3
  <1>. QED
    BY <1>4, <1>5, <1>6, <1>7, <1>8, <1>9, <1>10 DEF ProxyStep

\* The steps of kubectl.
LEMMA KubectlEndsLemma ==
    ASSUME IInv, KubectlStep
    PROVE  ProcTypeOK' /\ OutTypeOK' /\ EndsInOrder' /\ EndInv'
  <1>1. /\ UNCHANGED <<session, inbuf, taken, stage, handled, out, writer, open, stdout>>
        /\ UNCHANGED <<sent, hangup, os_stdin, buf, pump, kstdin_closed, ctx_done, shim>>
    BY DEF KubectlStep, Carry, CarryEof, KubectlGoesDeaf, KubectlEnds, serverVars, inVars, outVars,
           proxyVars, localVars, pumpVars
  <1>2. OutTypeOK'
    BY <1>1 DEF OutTypeOK, IInv
  <1>3. ProcTypeOK /\ EndsInOrder /\ EndInv
    BY DEF IInv
  <1>4. CASE Carry
    <2>1. kstdin' = <<>> /\ UNCHANGED <<stdin_eof, kubectl>>
      BY <1>4 DEF Carry
    <2>. QED
      BY <1>1, <1>2, <1>3, <2>1 DEF ProcTypeOK, EndsInOrder, EndInv
  <1>5. CASE CarryEof
    <2>1. kstdin = <<>> /\ kstdin_closed /\ stdin_eof' = TRUE /\ UNCHANGED <<kstdin, kubectl>>
      BY <1>5 DEF CarryEof, proxyVars, pumpVars
    <2>. QED
      BY <1>1, <1>2, <1>3, <2>1 DEF ProcTypeOK, EndsInOrder, EndInv
  <1>6. CASE KubectlGoesDeaf
    <2>1. kubectl = "run" /\ kubectl' = "deaf" /\ UNCHANGED <<kstdin, stdin_eof>>
      BY <1>6 DEF KubectlGoesDeaf, serverVars, inVars, pumpVars
    <2>. QED
      BY <1>1, <1>2, <1>3, <2>1 DEF ProcTypeOK, EndsInOrder, EndInv, Ends
  <1>7. ASSUME NEW how \in Ends, KubectlEnds(how), how = "ok" => stage = "exited"
        PROVE  ProcTypeOK' /\ OutTypeOK' /\ EndsInOrder' /\ EndInv'
    <2>1. kubectl \in {"run", "deaf"} /\ kubectl' = how /\ stdin_eof' = TRUE /\ UNCHANGED kstdin
      BY <1>7 DEF KubectlEnds, pumpVars
    <2>2. ProcTypeOK' /\ EndsInOrder'
      BY <1>1, <1>3, <1>7, <2>1 DEF ProcTypeOK, EndsInOrder
    <2>3. EndInv'
      BY <1>1, <1>3, <1>7, <2>1 DEF EndInv, Ends
    <2>. QED
      BY <1>2, <2>2, <2>3
  <1>. QED
    BY <1>4, <1>5, <1>6, <1>7 DEF KubectlStep

\* The steps of the server do nothing to the others.
LEMMA ServerLeavesProxy ==
    ASSUME IInv, UNCHANGED proxyVars, stdin_eof' = stdin_eof
    PROVE  /\ ProcTypeOK' /\ EndsInOrder'
           /\ UNCHANGED <<sent, hangup, ctx_done, kubectl, shim>>
  BY DEF IInv, ProcTypeOK, EndsInOrder, proxyVars, localVars, pumpVars

\* Reading on.
LEMMA TakeEnds ==
    ASSUME IInv, TakeStep
    PROVE  ProcTypeOK' /\ OutTypeOK' /\ EndsInOrder' /\ EndInv'
  <1>1. PICK st \in BootstrapStages \cup {"header", "payload"} : Takes(st)
    BY DEF TakeStep, TakeAssembler, TakeName, TakeCount, TakeBody, TakeHeader, TakePayload,
           TakesOneOf, BootstrapStages
  <1>2. stage # "exited" /\ UNCHANGED <<stdin_eof, handled, out, writer, open, stdout>>
    BY <1>1 DEF Takes, BootstrapStages, outVars
  <1>3. /\ ProcTypeOK' /\ EndsInOrder'
        /\ UNCHANGED <<sent, hangup, ctx_done, kubectl, shim>>
    BY <1>2, ServerLeavesProxy DEF TakeStep
  <1>4. OutTypeOK'
    BY <1>2 DEF IInv, OutTypeOK
  <1>5. stage' \notin {"draining", "exited"}
    BY TakeParse
  <1>6. EndInv'
    BY <1>2, <1>3, <1>5 DEF IInv, EndInv
  <1>. QED
    BY <1>3, <1>4, <1>6

\* What is still to be written is written, or not.
LEMMA WriterTypes ==
    ASSUME IInv, ServeStep
    PROVE  OutTypeOK'
  <1>1. OutTypeOK /\ OutCap \in Nat /\ OutCap >= 2
    BY Constants DEF IInv
  <1>2. CASE Fill \/ AtEof \/ ServerExits \/ GreetFails
    <2>1. UNCHANGED <<handled, out, writer, open, stdout>>
      BY <1>2 DEF Fill, AtEof, ServerExits, GreetFails, outVars
    <2>. QED
      BY <1>1, <2>1 DEF OutTypeOK
  <1>3. CASE Greet
    <2>1. stdout' = <<"SYNC">> /\ out' = <<"PING", "ROUTES">> /\ UNCHANGED <<handled, writer, open>>
      BY <1>3 DEF Greet
    <2>2. stdout' \in Seq(Frames \cup {"SYNC"}) /\ out' \in Seq(Frames) /\ Len(out') = 2
      BY <2>1 DEF Frames
    <2>. QED
      BY <1>1, <2>1, <2>2 DEF OutTypeOK
  <1>4. CASE Handle
    <2>1. /\ handled' = Append(handled, frame) /\ UNCHANGED <<writer, stdout>>
          /\ open' = (open \/ frame = "CONNECT")
      BY <1>4 DEF Handle
    <2>2. handled' \in Seq(DOMAIN Payload)
      <3>1. frame \in DOMAIN Payload /\ handled \in Seq(DOMAIN Payload)
        BY <1>1 DEF IInv, ParseInv, OutTypeOK
      <3>. QED
        BY <2>1, <3>1, SeqLemma
    <2>3. out' \in Seq(Frames) /\ Len(out') <= OutCap
      <3>1. CASE UNCHANGED out
        BY <1>1, <3>1 DEF OutTypeOK
      <3>2. CASE Len(out) < OutCap /\ out' = out \o Reply(frame)
        <4>1. Reply(frame) \in Seq(Frames) /\ Len(Reply(frame)) \in {0, 1}
          <5>1. Reply(frame) \in {<<"PONG">>, <<"HOST_LIST">>, <<"STOP">>, <<>>}
            BY DEF Reply
          <5>2. {<<"PONG">>, <<"HOST_LIST">>, <<"STOP">>, <<>>} \subseteq Seq(Frames)
            BY DEF Frames
          <5>3. Len(<<"PONG">>) = 1 /\ Len(<<"HOST_LIST">>) = 1 /\ Len(<<"STOP">>) = 1 /\ Len(<<>>) = 0
            OBVIOUS
          <5>. QED
            BY <5>1, <5>2, <5>3
        <4>2. out \in Seq(Frames) /\ Len(out) \in Nat
          BY <1>1 DEF OutTypeOK
        <4>3. out' \in Seq(Frames) /\ Len(out') = Len(out) + Len(Reply(frame))
          BY <3>2, <4>1, <4>2, ConcatLemma
        <4>. QED
          BY <1>1, <3>2, <4>1, <4>2, <4>3
      <3>. QED
        BY <1>4, <3>1, <3>2 DEF Handle
    <2>4. open' \in BOOLEAN
      BY <2>1
    <2>. QED
      BY <1>1, <2>1, <2>2, <2>3, <2>4 DEF OutTypeOK
  <1>5. CASE WriterWrites
    <2>1. /\ out # <<>> /\ stdout' = Append(stdout, Head(out)) /\ out' = Tail(out)
          /\ UNCHANGED <<handled, writer, open>>
      BY <1>5 DEF WriterWrites
    <2>2. out \in Seq(Frames) /\ stdout \in Seq(Frames \cup {"SYNC"}) /\ Len(out) \in Nat
      BY <1>1 DEF OutTypeOK
    <2>3. Head(out) \in Frames /\ out' \in Seq(Frames) /\ Len(out') = Len(out) - 1
      BY <2>1, <2>2, SeqLemma
    <2>4. stdout' \in Seq(Frames \cup {"SYNC"})
      BY <2>1, <2>2, <2>3
    <2>. QED
      BY <1>1, <2>1, <2>2, <2>3, <2>4 DEF OutTypeOK
  <1>6. CASE WriterBreaks
    <2>1. writer' = "done" /\ out' = <<>> /\ UNCHANGED <<handled, open, stdout>>
      BY <1>6 DEF WriterBreaks
    <2>2. out' \in Seq(Frames) /\ Len(out') = 0
      BY <2>1
    <2>. QED
      BY <1>1, <2>1, <2>2 DEF OutTypeOK
  <1>7. CASE FlowsEnd
    BY <1>1, <1>7 DEF FlowsEnd, OutTypeOK
  <1>. QED
    BY <1>2, <1>3, <1>4, <1>5, <1>6, <1>7 DEF ServeStep

\* Serving on, and leaving the loop.
LEMMA ServeEnds ==
    ASSUME IInv, ServeStep
    PROVE  ProcTypeOK' /\ OutTypeOK' /\ EndsInOrder' /\ EndInv'
  <1>1. stdin_eof' = stdin_eof /\ UNCHANGED proxyVars
    BY DEF ServeStep, Fill, AtEof, Greet, Handle, ServerExits, WriterWrites, WriterBreaks,
       FlowsEnd, GreetFails, inVars
  <1>2. /\ ProcTypeOK' /\ EndsInOrder'
        /\ UNCHANGED <<sent, hangup, ctx_done, kubectl, shim>>
    BY <1>1, ServerLeavesProxy
  <1>3. OutTypeOK'
    BY WriterTypes
  <1>4. EndInv
    BY DEF IInv
  <1>5. CASE Fill \/ WriterWrites \/ WriterBreaks \/ FlowsEnd
    <2>1. UNCHANGED <<taken, stage, handled>>
      BY <1>5 DEF Fill, WriterWrites, WriterBreaks, FlowsEnd, inVars
    <2>. QED
      BY <1>2, <1>3, <1>4, <2>1 DEF EndInv
  <1>6. CASE AtEof
    <2>1. /\ stdin = <<>> /\ inbuf = <<>> /\ stdin_eof /\ UNCHANGED <<taken, handled>>
          /\ stage # "exited" /\ stage' \in {"failed", "draining"}
      BY <1>6 DEF AtEof, BootstrapStages, inVars
    <2>2. kubectl # "ok"
      BY <1>4, <2>1 DEF EndInv
    <2>3. \/ kubectl \in {"error", "killed"} \/ ctx_done
          \/ hangup /\ Len(taken) = sent
      BY <2>1, <2>2, EndOfInput DEF Ends
    <2>. QED
      BY <1>2, <1>3, <1>4, <2>1, <2>2, <2>3 DEF EndInv
  <1>7. CASE Greet
    <2>1. stage = "greet" /\ stage' = "header"
      BY <1>7 DEF Greet
    <2>. QED
      BY <1>2, <1>3, <1>4, <2>1 DEF EndInv
  <1>8. CASE Handle
    <2>1. /\ stage = "handle" /\ handled' = Append(handled, frame)
          /\ stage' = IF frame = "EXIT" THEN "draining" ELSE "header"
      BY <1>8 DEF Handle
    <2>2. frame = "EXIT" => "EXIT" \in Range(handled')
      <3>. SUFFICES ASSUME frame = "EXIT" PROVE "EXIT" \in Range(handled')
        OBVIOUS
      <3>1. handled \in Seq(DOMAIN Payload) /\ "EXIT" \in DOMAIN Payload
        BY PayloadLemma DEF IInv, OutTypeOK
      <3>. DEFINE n == Len(handled) + 1
      <3>2. n \in 1 .. n /\ n = Len(Append(handled, "EXIT")) /\ Append(handled, "EXIT") \in Seq(DOMAIN Payload)
            /\ Append(handled, "EXIT")[n] = "EXIT"
        BY <3>1
      <3>3. n \in DOMAIN handled' /\ handled'[n] = "EXIT"
        BY <2>1, <3>2
      <3>. QED
        BY <3>3 DEF Range
    <2>. QED
      BY <1>2, <1>3, <1>4, <2>1, <2>2 DEF EndInv
  <1>9. CASE ServerExits
    <2>1. stage = "draining" /\ stage' = "exited" /\ UNCHANGED <<taken, handled>>
      BY <1>9 DEF ServerExits, inVars
    <2>. QED
      BY <1>2, <1>3, <1>4, <2>1 DEF EndInv
  <1>10. CASE GreetFails
    <2>1. stage = "greet" /\ stage' = "failed" /\ UNCHANGED <<taken, handled>>
      BY <1>10 DEF GreetFails, inVars
    <2>. QED
      BY <1>2, <1>3, <1>4, <2>1 DEF EndInv
  <1>. QED
    BY <1>5, <1>6, <1>7, <1>8, <1>9, <1>10 DEF ServeStep

(***************************************************************************)
(* The theorems                                                            *)
(***************************************************************************)
\* It all begins with empty pipes.
LEMMA InitLemma ==
    ASSUME Init
    PROVE  IInv
  <1>1. ProxyInit /\ ServerInit(Sessions)
    BY DEF Init
  <1>2. SessionOK(session)
    BY <1>1, SessionsLemma DEF ServerInit
  <1>3. /\ sent = 0 /\ os_stdin = <<>> /\ buf = <<>> /\ kstdin = <<>>
        /\ stdin = <<>> /\ inbuf = <<>> /\ taken = <<>> /\ Len(<<>>) = 0
    BY <1>1 DEF ProxyInit, ServerInit
  <1>4. SeqTypeOK
    <2>1. <<>> \in Seq(1 .. 0)
      OBVIOUS
    <2>. QED
      BY <1>3, <2>1, Constants DEF SeqTypeOK
  <1>5. /\ hangup = FALSE /\ pump = "run" /\ kstdin_closed = FALSE /\ ctx_done = FALSE
        /\ kubectl = "run" /\ shim = "wait" /\ stdin_eof = FALSE
    BY <1>1 DEF ProxyInit, ServerInit
  <1>6. ProcTypeOK
    BY <1>5 DEF ProcTypeOK
  <1>7. OutTypeOK
    <2>1. handled = <<>> /\ out = <<>> /\ writer = "run" /\ open = FALSE /\ stdout = <<>>
      BY <1>1 DEF ServerInit
    <2>2. /\ <<>> \in Seq(DOMAIN Payload) /\ <<>> \in Seq(Frames) /\ <<>> \in Seq(Frames \cup {"SYNC"})
      OBVIOUS
    <2>3. out \in Seq(Frames) /\ Len(out) <= OutCap
      BY <1>3, <2>1, <2>2, Constants
    <2>4. /\ handled \in Seq(DOMAIN Payload) /\ stdout \in Seq(Frames \cup {"SYNC"})
          /\ writer \in {"run", "done"} /\ open \in BOOLEAN
      BY <2>1, <2>2
    <2>. QED
      BY <2>3, <2>4 DEF OutTypeOK
  <1>8. Len(session.program) \in Nat /\ Len(session.frames) \in Nat
    BY <1>2, LengthsLemma
  <1>9. InOrder
    <2>1. Part(<<>>, 0, 0) /\ 0 \in Nat
      BY DEF Part
    <2>2. Placed(taken, inbuf, stdin, kubectl, kstdin, buf, os_stdin, sent)
      BY <1>3, <2>1 DEF Placed
    <2>3. \A p, f \in Nat : 0 <= p + f
      OBVIOUS
    <2>. QED
      BY <1>3, <1>4, <1>8, <2>2, <2>3, InOrderLemma
  <1>10. EndsInOrder
    BY <1>5 DEF EndsInOrder
  <1>11. /\ stage = FirstStage(session) /\ need = session.assembler /\ blank = TRUE /\ frame = "PONG"
    BY <1>1 DEF ServerInit
  <1>12. frame \in DOMAIN Payload
    BY <1>11, PayloadLemma
  <1>13. CASE ~ session.compat
    <2>1. stage = "greet" /\ need = 0 /\ Len(session.program) = 0
      BY <1>2, <1>11, <1>13 DEF FirstStage, SessionOK
    <2>2. ParseInv
      BY <1>3, <1>11, <1>12, <2>1 DEF ParseInv, EaterInv, LoopInv, BootstrapStages, Stages
    <2>3. EndInv
      BY <1>5, <2>1 DEF EndInv
    <2>. QED
      BY <1>2, <1>4, <1>6, <1>7, <1>9, <1>10, <2>2, <2>3 DEF IInv
  <1>14. CASE session.compat
    <2>1. \/ session.assembler = 0 /\ stage = "name" /\ need = 0
          \/ session.assembler = 1 /\ stage = "assembler" /\ need = 1
      BY <1>2, <1>11, <1>14 DEF FirstStage, SessionOK
    <2>2. EaterInv
      BY <1>3, <1>11, <1>14, <2>1 DEF EaterInv, At
    <2>3. LoopInv /\ stage \in Stages /\ need \in Nat
      BY <2>1 DEF LoopInv, BootstrapStages, Stages
    <2>4. EndInv
      BY <1>5, <2>1 DEF EndInv
    <2>. QED
      BY <1>2, <1>4, <1>6, <1>7, <1>9, <1>10, <1>11, <1>12, <2>2, <2>3, <2>4 DEF IInv, ParseInv
  <1>. QED
    BY <1>2, <1>13, <1>14 DEF SessionOK

\* Every step keeps the invariant.
LEMMA StepLemma ==
    ASSUME IInv, Next
    PROVE  IInv'
  <1>1. session' = session
    BY NextLemma DEF ProxyStep, KubectlStep, TakeStep, ServeStep, serverVars, Carry, CarryEof,
       KubectlGoesDeaf, KubectlEnds, TakeAssembler, TakeName, TakeCount, TakeBody, TakeHeader, TakePayload,
       TakesOneOf, Takes, Fill, AtEof, Greet, Handle, ServerExits, WriterWrites, WriterBreaks, FlowsEnd,
       GreetFails
  <1>2. SessionOK(session')
    BY <1>1 DEF IInv
  <1>3. CASE ProxyStep
    <2>1. SeqTypeOK' /\ InOrder' /\ ProcTypeOK' /\ OutTypeOK' /\ EndsInOrder' /\ EndInv'
      BY <1>3, ProxyBytes, ProxyEnds
    <2>2. ParseInv'
      BY <1>3, ParseStays DEF IInv, ProxyStep, serverVars, inVars
    <2>. QED
      BY <1>2, <2>1, <2>2 DEF IInv
  <1>4. CASE KubectlStep
    <2>1. SeqTypeOK' /\ InOrder' /\ ProcTypeOK' /\ OutTypeOK' /\ EndsInOrder' /\ EndInv'
      BY <1>4, KubectlBytes, KubectlEndsLemma
    <2>2. ParseInv'
      BY <1>4, ParseStays DEF IInv, KubectlStep, Carry, CarryEof, KubectlGoesDeaf, KubectlEnds,
         serverVars, inVars
    <2>. QED
      BY <1>2, <2>1, <2>2 DEF IInv
  <1>5. CASE TakeStep
    <2>1. SeqTypeOK' /\ InOrder'
      BY <1>5, TakesLemma DEF TakeStep, TakeAssembler, TakeName, TakeCount, TakeBody, TakeHeader,
         TakePayload, TakesOneOf
    <2>. QED
      BY <1>2, <1>5, <2>1, TakeParse, TakeEnds DEF IInv
  <1>6. CASE ServeStep
    BY <1>2, <1>6, ServeBytes, ServeParse, ServeEnds DEF IInv
  <1>. QED
    BY <1>3, <1>4, <1>5, <1>6, NextLemma

\* A step in which nothing happens keeps it, too.
LEMMA StutterLemma ==
    ASSUME IInv, UNCHANGED vars
    PROVE  IInv'
  <1>1. /\ UNCHANGED <<session, stdin, stdin_eof, inbuf, taken, stage, need, blank, frame, handled>>
        /\ UNCHANGED <<out, writer, open, stdout>>
        /\ UNCHANGED <<sent, hangup, os_stdin, buf, pump, kstdin, kstdin_closed, ctx_done, kubectl, shim>>
    BY DEF vars, proxyVars, serverVars, localVars, pumpVars, inVars, outVars
  <1>2. SeqTypeOK' /\ InOrder'
    BY <1>1, BytesStayLemma DEF BytesStay
  <1>3. ParseInv'
    BY <1>1, ParseStays DEF IInv
  <1>4. ProcTypeOK' /\ OutTypeOK' /\ EndsInOrder' /\ EndInv'
    BY <1>1 DEF IInv, ProcTypeOK, OutTypeOK, EndsInOrder, EndInv
  <1>5. SessionOK(session')
    BY <1>1 DEF IInv
  <1>. QED
    BY <1>2, <1>3, <1>4, <1>5 DEF IInv

\* The inductive invariant holds in every state.
LEMMA IInvHolds == Spec => []IInv
  <1>1. Init => IInv
    BY InitLemma
  <1>2. IInv /\ [Next]_vars => IInv'
    BY StepLemma, StutterLemma
  <1>. QED
    BY <1>1, <1>2, PTL DEF Spec

\* Every variable of the session has its type: in ssh-proxy, kubectl and the server.
THEOREM SessionTypeCorrect == Spec => []SessionTypeOK
  <1>1. IInv => SessionTypeOK
    BY IInvMeans
  <1>. QED
    BY <1>1, IInvHolds, PTL

\* Every byte is in one place, at its own position, the server is in step with what
\* it reads, and each end has its cause (SessionInv).
THEOREM SessionInvariant == Spec => []SessionInv
  <1>1. IInv => SessionInv
    BY IInvMeans
  <1>. QED
    BY <1>1, IInvHolds, PTL

\* The exit code 0 of ssh-proxy means that the server got past the bootstrap and
\* came to the end of its input, unless it was asked to end.
THEOREM SuccessIsTrustworthy == Spec => []SuccessIsTrue
  <1>1. IInv => SuccessIsTrue
    <2>. SUFFICES ASSUME IInv, shim = "ok" PROVE SuccessIsTrue
      BY DEF SuccessIsTrue
    <2>1. kubectl = "ok" /\ stage = "exited"
      BY DEF IInv, EndInv
    <2>2. \/ hangup /\ Len(taken) = sent
          \/ ctx_done \/ "EXIT" \in Range(handled)
      BY <2>1 DEF IInv, EndInv
    <2>3. Len(taken) >= Len(session.program)
      <3>1. Len(taken) - Len(session.program) >= 0
        BY <2>1 DEF IInv, ParseInv, LoopInv, BootstrapStages
      <3>2. Len(taken) \in Nat /\ Len(session.program) \in Nat
        <4>1. taken \in Seq(1 .. sent)
          BY DEF IInv, SeqTypeOK
        <4>. QED
          BY <4>1, LengthsLemma DEF IInv
      <3>. QED
        BY <3>1, <3>2
    <2>. QED
      BY <2>1, <2>2, <2>3 DEF SuccessIsTrue
  <1>. QED
    BY <1>1, IInvHolds, PTL

(***************************************************************************)
(* The server's input is sshuttle's output                                 *)
(***************************************************************************)
\* The receiver has seen the end of the stream.
SeesEnd ==
    /\ stdin_eof /\ stdin = <<>> /\ inbuf = <<>>
    /\ stage \in {"draining", "exited", "failed"}

\* The stream was cut.
IsCut == ctx_done \/ kubectl \in Ends

\* What becomes of a function of the one stream there is.
LEMMA OneLemma ==
    ASSUME NEW v, NEW w
    PROVE  /\ [s \in {"stdin"} |-> v]["stdin"] = v
           /\ [[s \in {"stdin"} |-> v] EXCEPT !["stdin"] = w] = [s \in {"stdin"} |-> w]
  OBVIOUS

\* The sender writes a byte.
LEMMA WriteMaps ==
    ASSUME hangup = FALSE, sent' = sent + 1, UNCHANGED <<hangup, taken>>,
           SeesEnd' = SeesEnd, IsCut' = IsCut
    PROVE  Promise!Next
  <1>1. ~ [s \in {"stdin"} |-> hangup]["stdin"]
    OBVIOUS
  <1>2. [s \in {"stdin"} |-> sent'] =
          [[s \in {"stdin"} |-> sent] EXCEPT !["stdin"] = [s \in {"stdin"} |-> sent]["stdin"] + 1]
    OBVIOUS
  <1>3. [s \in {"stdin"} |-> hangup'] = [[s \in {"stdin"} |-> hangup] EXCEPT !["stdin"] = FALSE]
    OBVIOUS
  <1>4. Promise!Write("stdin")
    BY <1>1, <1>2, <1>3 DEF Promise!Write, SeesEnd, IsCut
  <1>. QED
    BY <1>4 DEF Promise!Next

\* The sender hangs up.
LEMMA CloseMaps ==
    ASSUME hangup' = TRUE, UNCHANGED <<sent, taken>>, SeesEnd' = SeesEnd, IsCut' = IsCut
    PROVE  Promise!Next
  <1>1. [s \in {"stdin"} |-> hangup'] = [[s \in {"stdin"} |-> hangup] EXCEPT !["stdin"] = TRUE]
    OBVIOUS
  <1>2. Promise!Close("stdin")
    BY <1>1 DEF Promise!Close, SeesEnd, IsCut
  <1>. QED
    BY <1>2 DEF Promise!Next

\* The receiver gets the next byte.
LEMMA DeliverMaps ==
    ASSUME ~ SeesEnd, ~ SeesEnd', IsCut' = IsCut, UNCHANGED <<sent, hangup>>,
           Len(taken) < sent, taken' = Append(taken, Len(taken) + 1)
    PROVE  Promise!Next
  <1>1. ~ [s \in {"stdin"} |-> SeesEnd]["stdin"]
    OBVIOUS
  <1>2. Len([s \in {"stdin"} |-> taken]["stdin"]) < [s \in {"stdin"} |-> sent]["stdin"]
    OBVIOUS
  <1>3. [s \in {"stdin"} |-> taken'] =
          [[s \in {"stdin"} |-> taken] EXCEPT !["stdin"] =
             Append([s \in {"stdin"} |-> taken]["stdin"], Len([s \in {"stdin"} |-> taken]["stdin"]) + 1)]
    OBVIOUS
  <1>4. SeesEnd' = SeesEnd
    BY DEF SeesEnd
  <1>5. Promise!Deliver("stdin")
    BY <1>1, <1>2, <1>3, <1>4 DEF Promise!Deliver, SeesEnd, IsCut
  <1>. QED
    BY <1>5 DEF Promise!Next

\* The receiver sees the end.
LEMMA EndMaps ==
    ASSUME hangup, Len(taken) = sent, SeesEnd', IsCut' = IsCut, UNCHANGED <<sent, hangup, taken>>
    PROVE  Promise!Next
  <1>1. [s \in {"stdin"} |-> hangup]["stdin"]
    OBVIOUS
  <1>2. Len([s \in {"stdin"} |-> taken]["stdin"]) = [s \in {"stdin"} |-> sent]["stdin"]
    OBVIOUS
  <1>3. [s \in {"stdin"} |-> SeesEnd'] = [[s \in {"stdin"} |-> SeesEnd] EXCEPT !["stdin"] = TRUE]
    <2>1. SeesEnd' = TRUE
      BY DEF SeesEnd
    <2>. QED
      BY <2>1
  <1>4. Promise!End("stdin")
    BY <1>1, <1>2, <1>3 DEF Promise!End, SeesEnd, IsCut
  <1>. QED
    BY <1>4 DEF Promise!Next

\* The stream is cut, or nothing happens to it.
LEMMA CutMaps ==
    ASSUME IsCut => IsCut', SeesEnd' = SeesEnd \/ (IsCut' /\ SeesEnd'), UNCHANGED <<sent, hangup, taken>>
    PROVE  Promise!Next
  <1>1. [s \in {"stdin"} |-> IsCut'] \in [{"stdin"} -> BOOLEAN]
    BY DEF IsCut
  <1>2. [s \in {"stdin"} |-> SeesEnd'] \in [{"stdin"} -> BOOLEAN]
    BY DEF SeesEnd
  <1>3. \A s \in {"stdin"} : [t \in {"stdin"} |-> IsCut][s] => [t \in {"stdin"} |-> IsCut'][s]
    OBVIOUS
  <1>4. \A s \in {"stdin"} :
          \/ [t \in {"stdin"} |-> SeesEnd'][s] = [t \in {"stdin"} |-> SeesEnd][s]
          \/ [t \in {"stdin"} |-> IsCut'][s] /\ [t \in {"stdin"} |-> SeesEnd'][s]
    OBVIOUS
  <1>5. Promise!Cut
    BY <1>1, <1>2, <1>3, <1>4 DEF Promise!Cut, SeesEnd, IsCut
  <1>. QED
    BY <1>5 DEF Promise!Next

\* The end of input after a step.
LEMMA EndOfInputAfter ==
    IInv' /\ SeesEnd' => IsCut' \/ (hangup' /\ Len(taken') = sent')
  <1>1. IInv /\ SeesEnd => IsCut \/ (hangup /\ Len(taken) = sent)
    BY EndOfInput DEF SeesEnd, IsCut
  <1>2. (IInv /\ SeesEnd => IsCut \/ (hangup /\ Len(taken) = sent))'
    BY <1>1, PTL
  <1>. QED
    BY <1>2

\* A step in which nothing is sent or received.
LEMMA QuietMaps ==
    ASSUME IInv', UNCHANGED <<sent, hangup, taken>>, IsCut => IsCut', SeesEnd => SeesEnd'
    PROVE  Promise!Next
  <1>1. SeesEnd \in BOOLEAN /\ SeesEnd' \in BOOLEAN /\ IsCut \in BOOLEAN /\ IsCut' \in BOOLEAN
    BY DEF SeesEnd, IsCut
  <1>2. CASE SeesEnd' = SeesEnd \/ IsCut'
    <2>1. SeesEnd' = SeesEnd \/ (IsCut' /\ SeesEnd')
      BY <1>1, <1>2
    <2>. QED
      BY <2>1, CutMaps
  <1>3. CASE SeesEnd' # SeesEnd /\ ~ IsCut'
    <2>1. SeesEnd' /\ IsCut' = IsCut
      BY <1>1, <1>3
    <2>2. hangup /\ Len(taken) = sent
      BY <1>3, <2>1, EndOfInputAfter
    <2>. QED
      BY <2>1, <2>2, EndMaps
  <1>. QED
    BY <1>2, <1>3

\* Every step is one of the promised ones.
LEMMA StepMaps ==
    ASSUME IInv, IInv', Next
    PROVE  Promise!Next
  <1>1. CASE ProxyStep
    <2>1. UNCHANGED <<stdin_eof, stdin, inbuf, stage, taken>>
      BY <1>1 DEF ProxyStep, serverVars, inVars
    <2>2. SeesEnd' = SeesEnd
      BY <2>1 DEF SeesEnd
    <2>3. hangup \in BOOLEAN
      BY DEF IInv, ProcTypeOK
    <2>4. CASE SshuttleWrites(Len(session.program) + Len(session.frames))
      <3>1. hangup = FALSE /\ sent' = sent + 1 /\ UNCHANGED <<hangup, ctx_done, kubectl>>
        BY <2>3, <2>4 DEF SshuttleWrites, pumpVars
      <3>2. IsCut' = IsCut
        BY <3>1 DEF IsCut
      <3>. QED
        BY <2>1, <2>2, <3>1, <3>2, WriteMaps
    <2>5. CASE Hangup
      <3>1. hangup' = TRUE /\ UNCHANGED <<sent, ctx_done, kubectl>>
        BY <2>5 DEF Hangup, pumpVars
      <3>2. IsCut' = IsCut
        BY <3>1 DEF IsCut
      <3>. QED
        BY <2>1, <2>2, <3>1, <3>2, CloseMaps
    <2>6. CASE PumpReads \/ PumpWrites \/ PumpWriteFails \/ PumpEof \/ PumpReadFails \/ Signal \/ WaitReturns
      <3>1. UNCHANGED <<sent, hangup, kubectl>> /\ (ctx_done => ctx_done')
        <4>1. CASE PumpReads \/ PumpWrites \/ WaitReturns
          BY <4>1 DEF PumpReads, PumpWrites, WaitReturns, localVars, pumpVars
        <4>2. CASE Signal
          BY <4>2 DEF Signal, localVars
        <4>3. ASSUME NEW cancel, PumpReturns(cancel)
              PROVE  UNCHANGED <<sent, hangup, kubectl>> /\ (ctx_done => ctx_done')
          BY <4>3 DEF PumpReturns, localVars
        <4>. QED
          BY <2>6, <4>1, <4>2, <4>3 DEF PumpWriteFails, PumpEof, PumpReadFails
      <3>2. IsCut => IsCut'
        BY <3>1 DEF IsCut
      <3>. QED
        BY <2>1, <2>2, <3>1, <3>2, QuietMaps
    <2>. QED
      BY <1>1, <2>4, <2>5, <2>6 DEF ProxyStep
  <1>2. CASE KubectlStep
    <2>1. UNCHANGED <<sent, hangup, taken, inbuf, stage, ctx_done>>
      BY <1>2 DEF KubectlStep, Carry, CarryEof, KubectlGoesDeaf, KubectlEnds, serverVars, inVars,
                  proxyVars, localVars, pumpVars
    <2>2. (kubectl \in Ends => kubectl' \in Ends) /\ (stdin_eof => stdin_eof')
      BY <1>2 DEF KubectlStep, Carry, CarryEof, KubectlGoesDeaf, KubectlEnds, Ends, proxyVars, serverVars, inVars
    <2>3. IsCut => IsCut'
      BY <2>1, <2>2 DEF IsCut
    <2>4. ASSUME SeesEnd PROVE stdin' = <<>>
      <3>1. CASE Carry
        <4>1. kubectl = "run" /\ kstdin # <<>>
          BY <3>1 DEF Carry
        <4>2. kstdin = <<>>
          BY <2>4, <4>1 DEF IInv, EndsInOrder, SeesEnd, Ends
        <4>. QED
          BY <4>1, <4>2
      <3>2. CASE CarryEof \/ KubectlGoesDeaf
        BY <2>4, <3>2 DEF SeesEnd, CarryEof, KubectlGoesDeaf, serverVars, inVars
      <3>3. ASSUME NEW how, KubectlEnds(how) PROVE stdin' = <<>>
        <4>1. PICK n \in 0 .. Len(stdin) : stdin' = SubSeq(stdin, 1, n)
          BY <3>3 DEF KubectlEnds
        <4>2. stdin = <<>> /\ n = 0
          BY <2>4, <4>1 DEF SeesEnd
        <4>3. SubSeq(stdin, 1, 0) = <<>>
          BY SubSeqEmpty
        <4>. QED
          BY <4>1, <4>2, <4>3
      <3>. QED
        BY <1>2, <3>1, <3>2, <3>3 DEF KubectlStep
    <2>5. SeesEnd => SeesEnd'
      BY <2>1, <2>2, <2>4 DEF SeesEnd
    <2>. QED
      BY <2>1, <2>3, <2>5, QuietMaps
  <1>3. CASE TakeStep
    <2>1. PICK st \in BootstrapStages \cup {"header", "payload"} : Takes(st)
      BY <1>3 DEF TakeStep, TakeAssembler, TakeName, TakeCount, TakeBody, TakeHeader, TakePayload,
             TakesOneOf, BootstrapStages
    <2>2. UNCHANGED proxyVars
      BY <1>3 DEF TakeStep
    <2>3. UNCHANGED <<sent, hangup, ctx_done, kubectl>>
      BY <2>2 DEF proxyVars, localVars, pumpVars
    <2>4. IsCut' = IsCut
      BY <2>3 DEF IsCut
    <2>5. ~ SeesEnd
      BY <2>1 DEF SeesEnd, Takes
    <2>6. ~ SeesEnd'
      BY <1>3, TakeParse DEF SeesEnd
    <2>7. taken' = Append(taken, Len(taken) + 1) /\ Len(taken) + 1 <= sent /\ Len(taken) \in Nat
      BY <2>1, <2>2, TakesLemma
    <2>8. Len(taken) < sent
      BY <2>7 DEF IInv, SeqTypeOK
    <2>. QED
      BY <2>3, <2>4, <2>5, <2>6, <2>7, <2>8, DeliverMaps
  <1>4. CASE ServeStep
    <2>1. UNCHANGED proxyVars
      BY <1>4 DEF ServeStep
    <2>2. UNCHANGED <<sent, hangup, ctx_done, kubectl>>
      BY <2>1 DEF proxyVars, localVars, pumpVars
    <2>3. UNCHANGED taken
      BY <1>4 DEF ServeStep, Fill, AtEof, Greet, Handle, ServerExits, WriterWrites, WriterBreaks,
       FlowsEnd, GreetFails, inVars
    <2>4. IsCut => IsCut'
      BY <2>2 DEF IsCut
    <2>5. SeesEnd => SeesEnd'
      BY <1>4 DEF ServeStep, Fill, AtEof, Greet, Handle, ServerExits, WriterWrites, WriterBreaks,
       FlowsEnd, GreetFails, inVars, SeesEnd, BootstrapStages
    <2>. QED
      BY <2>2, <2>3, <2>4, <2>5, QuietMaps
  <1>. QED
    BY <1>1, <1>2, <1>3, <1>4, NextLemma

\* A step in which nothing happens is none of the promise's.
LEMMA StutterMaps ==
    ASSUME UNCHANGED vars
    PROVE  UNCHANGED Promise!svars
  <1>1. UNCHANGED <<sent, hangup, taken, stdin_eof, stdin, inbuf, stage, ctx_done, kubectl>>
    BY DEF vars, proxyVars, serverVars, localVars, pumpVars, inVars
  <1>. QED
    BY <1>1 DEF Promise!svars

\* It begins with nothing sent.
LEMMA InitMaps ==
    ASSUME Init
    PROVE  Promise!Init
  <1>1. /\ sent = 0 /\ hangup = FALSE /\ taken = <<>> /\ stdin_eof = FALSE
        /\ ctx_done = FALSE /\ kubectl = "run"
    BY DEF Init, ProxyInit, ServerInit
  <1>2. SeesEnd = FALSE /\ IsCut = FALSE
    BY <1>1 DEF SeesEnd, IsCut, Ends
  <1>. QED
    BY <1>1, <1>2 DEF Promise!Init, SeesEnd, IsCut

\* The bytes sshuttle writes reach the server in order, once and complete before the
\* end of its input, unless the session is cut: StockSession implements Streams.
THEOREM StdinIsKept == Spec => StdinPromise
  <1>1. Init => Promise!Init
    BY InitMaps
  <1>2. IInv /\ IInv' /\ [Next]_vars => [Promise!Next]_Promise!svars
    BY StepMaps, StutterMaps
  <1>. QED
    BY <1>1, <1>2, IInvHolds, PTL DEF Spec, StdinPromise, Promise!Spec

(***************************************************************************)
(* Flattening.  The library's induction theorems take an operator; this    *)
(* one takes a set, and what FlattenSeq computes is proved with it.        *)
(***************************************************************************)
\* A set with 0 and every successor holds all numbers.
LEMMA Induction ==
    ASSUME NEW T, 0 \in T, \A n \in Nat : n \in T => n + 1 \in T
    PROVE  Nat \subseteq T
  <1>. SUFFICES ASSUME NEW m \in Nat \ T PROVE FALSE
    OBVIOUS
  <1>. DEFINE D == Nat \ T
              R == OpToRel(<, Nat)
  <1>1. IsWellFoundedOn(R, Nat)
    BY NatLessThanWellFounded
  <1>2. \A x, y \in Nat : x < y => <<x, y>> \in R
    BY DEF OpToRel
  <1>. HIDE DEF R
  <1>3. D \subseteq Nat /\ D # {}
    OBVIOUS
  <1>. HIDE DEF D
  <1>4. PICK x \in D : \A y \in D : ~ (<<y, x>> \in R)
    BY <1>1, <1>3, WFMin
  <1>5. x \in Nat /\ x # 0 /\ x - 1 \in Nat /\ x - 1 < x /\ (x - 1) + 1 = x
    BY <1>3, <1>4 DEF D
  <1>6. x - 1 \in D
    BY <1>4, <1>5 DEF D
  <1>. QED
    BY <1>2, <1>3, <1>4, <1>5, <1>6

\* The flattened parts of ss, one after the other, up to n.
Flattens(g, ss, n) ==
    g = [i \in 1 .. n |-> IF i = 1 THEN ss[i] ELSE g[i - 1] \o ss[i]]

\* What FlattenSeq computes.
LEMMA FlattenMeans ==
    ASSUME NEW ss, Len(ss) # 0
    PROVE  FlattenSeq(ss) = (CHOOSE g : Flattens(g, ss, Len(ss)))[Len(ss)]
  BY DEF FlattenSeq, Flattens


\* The parts up to i are those up to i - 1 and one more.
LEMMA FlattenedPart ==
    ASSUME NEW g, NEW ss, NEW n, Flattens(g, ss, n), NEW i \in 1 .. n
    PROVE  g[i] = IF i = 1 THEN ss[i] ELSE g[i - 1] \o ss[i]
  BY DEF Flattens

\* There is such a function for every n.
LEMMA FlattenExists ==
    ASSUME NEW ss, NEW n \in Nat
    PROVE  \E g : Flattens(g, ss, n)
  <1>. DEFINE T == {m \in Nat : \E g : Flattens(g, ss, m)}
  <1>1. 0 \in T
    <2>1. Flattens([i \in 1 .. 0 |-> <<>>], ss, 0)
      BY DEF Flattens
    <2>. QED
      BY <2>1
  <1>2. ASSUME NEW m \in Nat, m \in T PROVE m + 1 \in T
    <2>1. PICK g : Flattens(g, ss, m)
      BY <1>2
    <2>. DEFINE h == [i \in 1 .. m + 1 |->
                        IF i = 1 THEN ss[i] ELSE IF i = m + 1 THEN g[m] \o ss[i] ELSE g[i - 1] \o ss[i]]
    <2>2. ASSUME NEW i \in 1 .. m + 1, i # 1 PROVE i - 1 \in 1 .. m /\ h[i - 1] = g[i - 1]
      <3>1. i - 1 \in 1 .. m /\ i - 1 \in 1 .. m + 1 /\ i - 1 # m + 1
        BY <2>2
      <3>2. g[i - 1] = IF i - 1 = 1 THEN ss[i - 1] ELSE g[(i - 1) - 1] \o ss[i - 1]
        BY <2>1, <3>1 DEF Flattens
      <3>3. h[i - 1] = IF i - 1 = 1 THEN ss[i - 1] ELSE g[(i - 1) - 1] \o ss[i - 1]
        BY <3>1
      <3>. QED
        BY <3>1, <3>2, <3>3
    <2>3. ASSUME NEW i \in 1 .. m + 1
          PROVE  h[i] = IF i = 1 THEN ss[i] ELSE h[i - 1] \o ss[i]
      <3>1. CASE i = 1
        BY <3>1
      <3>2. CASE i # 1
        <4>1. h[i] = g[i - 1] \o ss[i]
          <5>1. i = m + 1 => i - 1 = m
            OBVIOUS
          <5>. QED
            BY <3>2, <5>1
        <4>. QED
          BY <2>2, <3>2, <4>1
      <3>. QED
        BY <3>1, <3>2
    <2>4. h = [i \in 1 .. m + 1 |-> h[i]]
      OBVIOUS
    <2>. HIDE DEF h
    <2>5. Flattens(h, ss, m + 1)
      BY <2>3, <2>4 DEF Flattens
    <2>. QED
      BY <2>5
  <1>. HIDE DEF T
  <1>3. n \in T
    BY <1>1, <1>2, Induction
  <1>. QED
    BY <1>3 DEF T

\* It depends on the first n parts only.
LEMMA FlattenAgrees ==
    ASSUME NEW ss, NEW ts, NEW n \in Nat, NEW m \in Nat, n <= m,
           \A i \in 1 .. n : ss[i] = ts[i],
           NEW g, NEW h, Flattens(g, ss, n), Flattens(h, ts, m)
    PROVE  \A i \in 1 .. n : g[i] = h[i]
  <1>. DEFINE T == {i \in Nat : i \in 1 .. n => g[i] = h[i]}
  <1>1. 0 \in T
    OBVIOUS
  <1>2. ASSUME NEW i \in Nat, i \in T PROVE i + 1 \in T
    <2>. SUFFICES ASSUME i + 1 \in 1 .. n PROVE g[i + 1] = h[i + 1]
      OBVIOUS
    <2>1. /\ g[i + 1] = IF i + 1 = 1 THEN ss[i + 1] ELSE g[(i + 1) - 1] \o ss[i + 1]
          /\ h[i + 1] = IF i + 1 = 1 THEN ts[i + 1] ELSE h[(i + 1) - 1] \o ts[i + 1]
      <3>1. i + 1 \in 1 .. m
        OBVIOUS
      <3>2. \A k \in 1 .. n : g[k] = IF k = 1 THEN ss[k] ELSE g[k - 1] \o ss[k]
        BY FlattenedPart
      <3>3. \A k \in 1 .. m : h[k] = IF k = 1 THEN ts[k] ELSE h[k - 1] \o ts[k]
        BY FlattenedPart
      <3>. QED
        BY <3>1, <3>2, <3>3
    <2>2. i + 1 # 1 => i \in 1 .. n /\ (i + 1) - 1 = i
      OBVIOUS
    <2>3. i + 1 # 1 => g[i] = h[i]
      BY <1>2, <2>2
    <2>. QED
      BY <2>1, <2>2, <2>3
  <1>. HIDE DEF T
  <1>3. Nat \subseteq T
    BY <1>1, <1>2, Induction
  <1>. QED
    BY <1>3 DEF T

\* It is made of sequences if the parts are.
LEMMA FlattenTyped ==
    ASSUME NEW S, NEW ss \in Seq(Seq(S)), NEW g, Flattens(g, ss, Len(ss))
    PROVE  \A i \in 1 .. Len(ss) : g[i] \in Seq(S)
  <1>. DEFINE T == {i \in Nat : i \in 1 .. Len(ss) => g[i] \in Seq(S)}
  <1>0. Len(ss) \in Nat /\ \A i \in 1 .. Len(ss) : ss[i] \in Seq(S)
    OBVIOUS
  <1>1. 0 \in T
    OBVIOUS
  <1>2. ASSUME NEW i \in Nat, i \in T PROVE i + 1 \in T
    <2>. SUFFICES ASSUME i + 1 \in 1 .. Len(ss) PROVE g[i + 1] \in Seq(S)
      OBVIOUS
    <2>1. g[i + 1] = IF i + 1 = 1 THEN ss[i + 1] ELSE g[(i + 1) - 1] \o ss[i + 1]
      BY DEF Flattens
    <2>2. ss[i + 1] \in Seq(S)
      BY <1>0
    <2>3. CASE i = 0
      BY <2>1, <2>2, <2>3
    <2>4. CASE i # 0
      <3>1. g[i] \in Seq(S) /\ (i + 1) - 1 = i /\ i + 1 # 1
        BY <1>0, <1>2, <2>4
      <3>2. g[i] \o ss[i + 1] \in Seq(S)
        BY <2>2, <3>1, ConcatProperties
      <3>. QED
        BY <2>1, <3>1, <3>2
    <2>. QED
      BY <2>3, <2>4
  <1>. HIDE DEF T
  <1>3. Nat \subseteq T
    BY <1>1, <1>2, Induction
  <1>. QED
    BY <1>0, <1>3 DEF T

\* Nothing flattens to nothing, and one part more comes at the end.
LEMMA FlattenLemma ==
    ASSUME NEW S, NEW ss \in Seq(Seq(S)), NEW s \in Seq(S)
    PROVE  /\ FlattenSeq(<<>>) = <<>>
           /\ FlattenSeq(ss) \in Seq(S)
           /\ FlattenSeq(Append(ss, s)) = FlattenSeq(ss) \o s
  <1>. DEFINE n == Len(ss)
              ts == Append(ss, s)
              g == CHOOSE f : Flattens(f, ss, n)
              h == CHOOSE f : Flattens(f, ts, n + 1)
  <1>1. n \in Nat /\ ts \in Seq(Seq(S)) /\ Len(ts) = n + 1 /\ ts[n + 1] = s
        /\ \A i \in 1 .. n : ts[i] = ss[i]
    OBVIOUS
  <1>2. FlattenSeq(<<>>) = <<>>
    BY DEF FlattenSeq
  <1>3. Flattens(g, ss, n) /\ Flattens(h, ts, n + 1)
    <2>. HIDE DEF ts, n
    <2>1. n \in Nat /\ n + 1 \in Nat
      BY <1>1
    <2>2. \E f : Flattens(f, ss, n)
      BY <2>1, FlattenExists
    <2>3. \E f : Flattens(f, ts, n + 1)
      BY <2>1, FlattenExists
    <2>. QED
      BY <2>2, <2>3
  <1>4. FlattenSeq(ts) = h[n + 1]
    <2>. HIDE DEF ts, n
    <2>1. Len(ts) # 0
      BY <1>1
    <2>. QED
      BY <1>1, <2>1, FlattenMeans
  <1>5. n # 0 => FlattenSeq(ss) = g[n]
    BY FlattenMeans
  <1>6. n = 0 => FlattenSeq(ss) = <<>>
    BY <1>2
  <1>. HIDE DEF g, h
  <1>7. FlattenSeq(ss) \in Seq(S)
    <2>1. CASE n # 0
      BY <1>1, <1>3, <1>5, <2>1, FlattenTyped
    <2>2. CASE n = 0
      BY <1>6, <2>2
    <2>. QED
      BY <2>1, <2>2
  <1>. HIDE DEF ts
  <1>8. h[n + 1] = IF n + 1 = 1 THEN ts[n + 1] ELSE h[(n + 1) - 1] \o ts[n + 1]
    <2>. HIDE DEF n
    <2>1. n + 1 \in 1 .. n + 1
      BY <1>1
    <2>2. \A i \in 1 .. n + 1 : h[i] = IF i = 1 THEN ts[i] ELSE h[i - 1] \o ts[i]
      BY <1>3, FlattenedPart
    <2>. QED
      BY <2>1, <2>2
  <1>9. \A i \in 1 .. n : g[i] = h[i]
    <2>. HIDE DEF n
    <2>1. n \in Nat /\ n + 1 \in Nat /\ n <= n + 1
      BY <1>1
    <2>2. \A i \in 1 .. n : ss[i] = ts[i]
      BY <1>1
    <2>. QED
      BY ONLY <1>3, <2>1, <2>2, FlattenAgrees
  <1>10. CASE n = 0
    <2>1. h[n + 1] = s
      BY <1>1, <1>8, <1>10
    <2>2. <<>> \o s = s
      OBVIOUS
    <2>3. FlattenSeq(ss) \o s = s
      BY <1>6, <1>10, <2>2
    <2>. QED
      BY <1>2, <1>4, <1>7, <2>1, <2>3 DEF ts
  <1>11. CASE n # 0
    <2>1. n \in 1 .. n /\ (n + 1) - 1 = n /\ n + 1 # 1
      BY <1>1, <1>11
    <2>2. h[n + 1] = g[n] \o s
      BY <1>1, <1>8, <1>9, <2>1
    <2>. QED
      BY <1>2, <1>4, <1>5, <1>7, <1>11, <2>2 DEF ts
  <1>. QED
    BY <1>10, <1>11

(***************************************************************************)
(* The bytes consumed and the replies written                              *)
(***************************************************************************)
Bytes == Letters \cup {"nl", "m", "1", "2"}

\* The bytes the server has consumed.
Consumed == [k \in DOMAIN taken |-> ByteAt(taken[k])]

\* The program and the frames that were served.
Served == session.program \o Encode(handled)

\* What has been consumed is that, and the frame in hand as far as it was read.
ConsumedInv ==
    /\ session.program \in Seq(Bytes)
    /\ stage \in BootstrapStages \cup {"greet", "failed"} => handled = <<>>
    /\ stage = "header" => Consumed = Served
    /\ stage = "payload" =>
         need = 1 /\ Payload[frame] = 1 /\ Consumed = Append(Served, frame)
    /\ stage = "handle" => Consumed = Served \o EncodeFrame(frame)

\* The replies to the commands in h.
RepliesTo(h) == FlattenSeq([k \in DOMAIN h |-> Reply(h[k])])
Greeting == <<"SYNC", "PING", "ROUTES">>

\* What has been written begins the replies to what was served; the rest of them is
\* queued, unless the writer task has ended.
WrittenInv ==
    /\ stage \in BootstrapStages \cup {"greet", "failed"} =>
         stdout = <<>> /\ out = <<>> /\ writer = "run" /\ handled = <<>>
    /\ stage \notin BootstrapStages \cup {"greet", "failed"} =>
         /\ IsPrefix(stdout, Greeting \o RepliesTo(handled))
         /\ writer = "run" => stdout \o out = Greeting \o RepliesTo(handled)
    /\ stage = "exited" \/ writer = "done" => out = <<>>

\* A sequence with an element more, element by element.
LEMMA AppendLemma ==
    ASSUME NEW S, NEW s \in Seq(S), NEW e \in S
    PROVE  Append(s, e) = [k \in 1 .. Len(s) + 1 |-> IF k = Len(s) + 1 THEN e ELSE s[k]]
  <1>. DEFINE n == Len(s)
              r == Append(s, e)
  <1>1. n \in Nat /\ r \in Seq(S) /\ Len(r) = n + 1 /\ r[n + 1] = e
        /\ \A k \in 1 .. n : r[k] = s[k]
    OBVIOUS
  <1>. HIDE DEF n, r
  <1>2. r \in [1 .. n + 1 -> S]
    BY <1>1
  <1>3. \A k \in 1 .. n + 1 : r[k] = IF k = n + 1 THEN e ELSE s[k]
    BY <1>1
  <1>4. r = [k \in 1 .. n + 1 |-> IF k = n + 1 THEN e ELSE s[k]]
    BY <1>2, <1>3
  <1>. QED
    BY <1>4 DEF n, r

\* One element after another.
LEMMA TwoLemma ==
    ASSUME NEW S, NEW a \in S, NEW b \in S
    PROVE  <<a>> \in Seq(S) /\ <<a>> \o <<b>> = <<a, b>>
  <1>1. <<a>> \in Seq(S) /\ <<a, b>> = Append(<<a>>, b)
    OBVIOUS
  <1>2. Append(<<a>>, b) = <<a>> \o <<b>>
    BY <1>1, AppendIsConcat
  <1>. QED
    BY <1>1, <1>2

\* Two elements after a sequence.
LEMMA PairLemma ==
    ASSUME NEW S, NEW s \in Seq(S), NEW a \in S, NEW b \in S
    PROVE  /\ s \o <<a>> = Append(s, a)
           /\ s \o <<a, b>> = Append(Append(s, a), b)
           /\ Append(s, a) \in Seq(S) /\ <<a>> \in Seq(S) /\ <<a, b>> \in Seq(S)
  <1>1. <<a>> \in Seq(S) /\ <<b>> \in Seq(S) /\ <<a, b>> \in Seq(S) /\ Append(s, a) \in Seq(S)
    OBVIOUS
  <1>2. <<a, b>> = Append(<<a>>, b)
    OBVIOUS
  <1>3. Append(<<a>>, b) = <<a>> \o <<b>>
    BY <1>1, AppendIsConcat
  <1>4. s \o (<<a>> \o <<b>>) = (s \o <<a>>) \o <<b>>
    BY <1>1, ConcatAssociative
  <1>5. s \o <<a>> = Append(s, a)
    BY AppendIsConcat
  <1>6. Append(s, a) \o <<b>> = Append(Append(s, a), b)
    BY <1>1, AppendIsConcat
  <1>. QED
    BY <1>1, <1>2, <1>3, <1>4, <1>5, <1>6

\* An encoded frame is its header and its payload.
LEMMA EncodeFrameLemma ==
    ASSUME NEW c \in DOMAIN Payload
    PROVE  /\ EncodeFrame(c) \in Seq(Bytes)
           /\ Payload[c] = 0 => EncodeFrame(c) = <<c>>
           /\ Payload[c] = 1 => EncodeFrame(c) = <<c, "x">>
  <1>. DEFINE xs == [k \in 1 .. Payload[c] |-> "x"]
  <1>1. c \in Bytes /\ "x" \in Bytes
    BY DEF Bytes, Letters
  <1>2. Payload[c] = 0 => xs = <<>>
    OBVIOUS
  <1>3. Payload[c] = 1 => xs = <<"x">>
    OBVIOUS
  <1>. HIDE DEF xs
  <1>4. EncodeFrame(c) = <<c>> \o xs
    BY DEF EncodeFrame, xs
  <1>5. Payload[c] = 0 => EncodeFrame(c) = <<c>>
    BY <1>2, <1>4
  <1>6. Payload[c] = 1 => EncodeFrame(c) = <<c, "x">>
    <2>1. <<c>> \o <<"x">> = <<c, "x">>
      BY <1>1, TwoLemma
    <2>. QED
      BY <1>3, <1>4, <2>1
  <1>7. <<c>> \in Seq(Bytes) /\ <<c, "x">> \in Seq(Bytes)
    BY <1>1
  <1>. QED
    BY <1>5, <1>6, <1>7, PayloadLemma

\* One more command is encoded at the end.
LEMMA EncodeLemma ==
    ASSUME NEW h \in Seq(DOMAIN Payload), NEW c \in DOMAIN Payload
    PROVE  /\ Encode(<<>>) = <<>>
           /\ Encode(h) \in Seq(Bytes)
           /\ Encode(Append(h, c)) = Encode(h) \o EncodeFrame(c)
  <1>. DEFINE ss == [k \in DOMAIN h |-> EncodeFrame(h[k])]
              ts == [k \in DOMAIN Append(h, c) |-> EncodeFrame(Append(h, c)[k])]
              n == Len(h)
  <1>1. n \in Nat /\ DOMAIN h = 1 .. n /\ DOMAIN Append(h, c) = 1 .. n + 1
        /\ \A k \in 1 .. n : h[k] \in DOMAIN Payload /\ Append(h, c)[k] = h[k]
        /\ Append(h, c)[n + 1] = c
    OBVIOUS
  <1>. HIDE DEF n
  <1>2. \A k \in 1 .. n : EncodeFrame(h[k]) \in Seq(Bytes)
    BY <1>1, EncodeFrameLemma
  <1>3. ss \in Seq(Seq(Bytes)) /\ Len(ss) = n
    BY <1>1, <1>2
  <1>4. EncodeFrame(c) \in Seq(Bytes)
    BY EncodeFrameLemma
  <1>5. ts = Append(ss, EncodeFrame(c))
    <2>1. ts = [k \in 1 .. n + 1 |-> IF k = n + 1 THEN EncodeFrame(c) ELSE EncodeFrame(h[k])]
      BY <1>1
    <2>2. \A k \in 1 .. n : ss[k] = EncodeFrame(h[k])
      BY <1>1
    <2>. HIDE DEF ss, ts
    <2>3. Append(ss, EncodeFrame(c)) = [k \in 1 .. n + 1 |-> IF k = n + 1 THEN EncodeFrame(c) ELSE ss[k]]
      BY <1>3, <1>4, AppendLemma
    <2>. QED
      BY <1>1, <2>1, <2>2, <2>3
  <1>6. Encode(<<>>) = <<>>
    <2>1. [k \in DOMAIN <<>> |-> EncodeFrame(<<>>[k])] = <<>>
      OBVIOUS
    <2>. QED
      BY <1>3, <1>4, <2>1, FlattenLemma DEF Encode
  <1>7. Encode(h) = FlattenSeq(ss) /\ Encode(Append(h, c)) = FlattenSeq(ts)
    BY DEF Encode
  <1>. HIDE DEF ss, ts
  <1>. QED
    BY <1>3, <1>4, <1>5, <1>6, <1>7, FlattenLemma

\* A reply is made of frames.
LEMMA ReplyLemma ==
    ASSUME NEW c
    PROVE  Reply(c) \in Seq(Frames)
  <1>1. Reply(c) \in {<<"PONG">>, <<"HOST_LIST">>, <<"STOP">>, <<>>}
    BY DEF Reply
  <1>2. {<<"PONG">>, <<"HOST_LIST">>, <<"STOP">>, <<>>} \subseteq Seq(Frames)
    BY DEF Frames
  <1>. QED
    BY <1>1, <1>2

\* One more command is answered at the end.
LEMMA RepliesLemma ==
    ASSUME NEW h \in Seq(DOMAIN Payload), NEW c \in DOMAIN Payload
    PROVE  /\ RepliesTo(<<>>) = <<>>
           /\ RepliesTo(h) \in Seq(Frames)
           /\ RepliesTo(Append(h, c)) = RepliesTo(h) \o Reply(c)
  <1>. DEFINE ss == [k \in DOMAIN h |-> Reply(h[k])]
              ts == [k \in DOMAIN Append(h, c) |-> Reply(Append(h, c)[k])]
              n == Len(h)
  <1>1. n \in Nat /\ DOMAIN h = 1 .. n /\ DOMAIN Append(h, c) = 1 .. n + 1
        /\ \A k \in 1 .. n : h[k] \in DOMAIN Payload /\ Append(h, c)[k] = h[k]
        /\ Append(h, c)[n + 1] = c
    OBVIOUS
  <1>. HIDE DEF n
  <1>2. \A k \in 1 .. n : Reply(h[k]) \in Seq(Frames)
    BY ReplyLemma
  <1>3. ss \in Seq(Seq(Frames)) /\ Len(ss) = n
    BY <1>1, <1>2
  <1>4. Reply(c) \in Seq(Frames)
    BY ReplyLemma
  <1>5. ts = Append(ss, Reply(c))
    <2>1. ts = [k \in 1 .. n + 1 |-> IF k = n + 1 THEN Reply(c) ELSE Reply(h[k])]
      BY <1>1
    <2>2. \A k \in 1 .. n : ss[k] = Reply(h[k])
      BY <1>1
    <2>. HIDE DEF ss, ts
    <2>3. Append(ss, Reply(c)) = [k \in 1 .. n + 1 |-> IF k = n + 1 THEN Reply(c) ELSE ss[k]]
      BY <1>3, <1>4, AppendLemma
    <2>. QED
      BY <1>1, <2>1, <2>2, <2>3
  <1>6. RepliesTo(<<>>) = <<>>
    <2>1. [k \in DOMAIN <<>> |-> Reply(<<>>[k])] = <<>>
      OBVIOUS
    <2>. QED
      BY <1>3, <1>4, <2>1, FlattenLemma DEF RepliesTo
  <1>7. RepliesTo(h) = FlattenSeq(ss) /\ RepliesTo(Append(h, c)) = FlattenSeq(ts)
    BY DEF RepliesTo
  <1>. HIDE DEF ss, ts
  <1>. QED
    BY <1>3, <1>4, <1>5, <1>6, <1>7, FlattenLemma

\* Two elements after one.
LEMMA ThreeLemma ==
    ASSUME NEW S, NEW a \in S, NEW b \in S, NEW c \in S
    PROVE  /\ <<a>> \in Seq(S) /\ <<b, c>> \in Seq(S)
           /\ <<a>> \o <<b, c>> = <<a, b, c>>
  <1>1. <<a>> \in Seq(S) /\ <<b, c>> \in Seq(S)
    OBVIOUS
  <1>2. <<a>> \o <<b, c>> = Append(Append(<<a>>, b), c)
    BY <1>1, PairLemma
  <1>3. <<a, b>> = Append(<<a>>, b) /\ <<a, b, c>> = Append(<<a, b>>, c)
    OBVIOUS
  <1>. QED
    BY <1>1, <1>2, <1>3

\* What is a beginning stays one.
LEMMA PrefixLemma ==
    ASSUME NEW S, NEW s \in Seq(S), NEW r \in Seq(S), NEW t \in Seq(S)
    PROVE  /\ IsPrefix(s, s \o r)
           /\ IsPrefix(s, t) => IsPrefix(s, t \o r)
  <1>1. ASSUME NEW u \in Seq(S), Len(s) <= Len(u)
        PROVE  /\ Len(s) <= Len(u \o r)
               /\ SubSeq(u \o r, 1, Len(s)) = SubSeq(u, 1, Len(s))
    <2>1. Len(u \o r) = Len(u) + Len(r) /\ u \o r \in Seq(S)
      BY ConcatProperties
    <2>2. Len(s) \in Nat /\ Len(u) \in Nat /\ Len(r) \in Nat
      OBVIOUS
    <2>3. CASE Len(s) = 0
      <3>1. SubSeq(u \o r, 1, 0) = <<>> /\ SubSeq(u, 1, 0) = <<>>
        BY <2>1
      <3>. QED
        BY <2>1, <2>2, <2>3, <3>1
    <2>4. CASE Len(s) # 0
      <3>1. 1 \in 1 .. Len(u) /\ Len(s) \in 1 .. Len(u)
        BY <1>1, <2>2, <2>4
      <3>2. SubSeq(u \o r, 1, Len(s)) = SubSeq(u, 1, Len(s))
        BY <3>1, SubSeqOfConcat1
      <3>. QED
        BY <1>1, <2>1, <2>2, <3>2
    <2>. QED
      BY <2>3, <2>4
  <1>2. IsPrefix(s, s \o r)
    <2>1. Len(s) <= Len(s)
      OBVIOUS
    <2>. QED
      BY <1>1, <2>1 DEF IsPrefix
  <1>3. ASSUME IsPrefix(s, t) PROVE IsPrefix(s, t \o r)
    BY <1>1, <1>3 DEF IsPrefix
  <1>. QED
    BY <1>2, <1>3

\* A program is made of bytes.
LEMMA ProgramTyped ==
    ASSUME NEW s \in Sessions
    PROVE  s.program \in Seq(Bytes)
  <1>. DEFINE one == <<"nl">>
              u == (one \o Module) \o one
  <1>1. one \in Seq(Bytes) /\ Module \in Seq(Bytes) /\ <<>> \in Seq(Bytes)
    BY DEF Bytes, Module
  <1>2. u \in Seq(Bytes)
    <2>. HIDE DEF one
    <2>1. one \o Module \in Seq(Bytes)
      BY <1>1, ConcatLemma
    <2>. QED
      BY <1>1, <2>1, ConcatLemma
  <1>. HIDE DEF one, u
  <1>3. Programs = {[compat |-> TRUE, assembler |-> 0, program |-> one],
                    [compat |-> TRUE, assembler |-> 1, program |-> u]}
    BY DEF Programs, one, u
  <1>4. \A p \in Programs : p.program \in Seq(Bytes)
    BY <1>1, <1>2, <1>3
  <1>5. NoProgram.program \in Seq(Bytes)
    BY <1>1 DEF NoProgram
  <1>6. \E p \in Programs \cup {NoProgram} : \E f, m : s = Session(p, f, m)
    BY DEF Sessions, After
  <1>. QED
    BY <1>4, <1>5, <1>6, SessionFields

\* The frame loop reads the bytes of the frames.
LEMMA LoopByte ==
    ASSUME IInv, UNCHANGED proxyVars, NEW st \in {"header", "payload"}, Takes(st),
           NEW m \in Nat, Len(taken) = Len(session.program) + m
    PROVE  Byte = session.frames[m + 1]
  <1>1. stage = st
    BY DEF Takes
  <1>2. Len(taken) \in Nat /\ Byte = ByteAt(Len(taken) + 1)
    BY TakesLemma
  <1>3. Len(session.program) \in Nat
    BY <1>1, LoopPlaces
  <1>4. ~ (Len(taken) + 1 <= Len(session.program)) /\ (Len(taken) + 1) - Len(session.program) = m + 1
    <2>1. \A t, p \in Nat : t = p + m => ~ (t + 1 <= p) /\ (t + 1) - p = m + 1
      OBVIOUS
    <2>. QED
      BY <1>2, <1>3, <2>1
  <1>. QED
    BY <1>2, <1>4 DEF ByteAt

\* A byte that is taken is consumed.
LEMMA ConsumedGrows ==
    ASSUME IInv, UNCHANGED proxyVars, NEW st, Takes(st), NEW S, Consumed \in Seq(S), Byte \in S
    PROVE  Consumed' = Append(Consumed, Byte)
  <1>. DEFINE n == Len(taken)
  <1>1. n \in Nat /\ taken' = Append(taken, n + 1) /\ Byte = ByteAt(n + 1)
    BY TakesLemma
  <1>2. session' = session
    BY DEF Takes
  <1>3. taken \in Seq(1 .. sent) /\ sent \in Nat
    BY DEF IInv, SeqTypeOK
  <1>4. taken \in Seq(Nat) /\ DOMAIN taken = 1 .. n
    BY <1>3, SeqGrows
  <1>. HIDE DEF n
  <1>5. /\ DOMAIN taken' = 1 .. n + 1 /\ taken'[n + 1] = n + 1
        /\ \A k \in 1 .. n : taken'[k] = taken[k]
    <2>1. Append(taken, n + 1) = [k \in 1 .. Len(taken) + 1 |-> IF k = Len(taken) + 1 THEN n + 1 ELSE taken[k]]
      BY <1>1, <1>4, AppendLemma
    <2>2. Len(taken) = n
      BY DEF n
    <2>. QED
      BY <1>1, <2>1, <2>2
  <1>6. Consumed' = [k \in 1 .. n + 1 |-> ByteAt(taken'[k])]
    BY <1>2, <1>5 DEF Consumed, ByteAt
  <1>7. Consumed = [k \in 1 .. n |-> ByteAt(taken[k])]
    BY <1>4 DEF Consumed
  <1>8. Len(Consumed) = n
    BY <1>1, <1>7
  <1>9. Append(Consumed, Byte) = [k \in 1 .. n + 1 |-> IF k = n + 1 THEN Byte ELSE Consumed[k]]
    BY <1>8, AppendLemma
  <1>10. \A k \in 1 .. n + 1 : ByteAt(taken'[k]) = IF k = n + 1 THEN Byte ELSE Consumed[k]
    BY <1>1, <1>5, <1>7
  <1>. QED
    BY <1>6, <1>9, <1>10

\* What was served is made of bytes.
LEMMA ServedTyped ==
    ASSUME IInv, ConsumedInv
    PROVE  /\ Served \in Seq(Bytes) /\ handled \in Seq(DOMAIN Payload) /\ frame \in DOMAIN Payload
           /\ DOMAIN Payload \subseteq Bytes /\ "x" \in Bytes
  <1>1. handled \in Seq(DOMAIN Payload) /\ frame \in DOMAIN Payload
    BY DEF IInv, OutTypeOK, ParseInv
  <1>2. Encode(handled) \in Seq(Bytes)
    BY <1>1, EncodeLemma
  <1>3. Served \in Seq(Bytes)
    BY <1>2, ConcatLemma DEF Served, ConsumedInv
  <1>. QED
    BY <1>1, <1>3 DEF Bytes, Letters

\* The bytes that the server takes are what its stage says.
LEMMA TakeConsumed ==
    ASSUME IInv, ConsumedInv, TakeStep
    PROVE  ConsumedInv'
  <1>1. UNCHANGED proxyVars /\ session' = session /\ handled' = handled
    BY DEF TakeStep, TakeAssembler, TakeName, TakeCount, TakeBody, TakeHeader, TakePayload, TakesOneOf,
       Takes
  <1>2. Served' = Served /\ session'.program \in Seq(Bytes)
    BY <1>1 DEF Served, ConsumedInv, Encode, EncodeFrame
  <1>3. /\ Served \in Seq(Bytes) /\ handled \in Seq(DOMAIN Payload) /\ frame \in DOMAIN Payload
        /\ DOMAIN Payload \subseteq Bytes /\ "x" \in Bytes
    BY ServedTyped
  <1>4. CASE TakeAssembler \/ TakeName \/ TakeCount \/ TakeBody
    <2>1. stage \in BootstrapStages /\ stage' \in BootstrapStages \cup {"greet"}
      <3>1. stage' # "failed"
        BY TakeParse
      <3>. QED
        BY <1>4, <3>1 DEF TakeAssembler, TakeName, TakeCount, TakeBody, TakesOneOf, Takes, BootstrapStages
    <2>. QED
      BY <1>1, <1>2, <2>1 DEF ConsumedInv, BootstrapStages
  <1>5. CASE TakeHeader
    <2>1. Takes("header") /\ stage = "header" /\ stage' \in {"handle", "payload"}
      BY <1>1, <1>5, HeaderStep DEF TakeHeader, Takes
    <2>2. /\ Byte \in DOMAIN Payload /\ frame' = Byte /\ need' = Payload[Byte]
          /\ stage' = IF need' = 0 THEN "handle" ELSE "payload"
      BY <1>5, <2>1 DEF TakeHeader
    <2>3. Consumed = Served
      BY <2>1 DEF ConsumedInv
    <2>4. Consumed' = Append(Served, Byte)
      BY <1>1, <1>3, <2>1, <2>2, <2>3, ConsumedGrows
    <2>5. CASE Payload[Byte] = 0
      <3>1. EncodeFrame(Byte) = <<Byte>>
        BY <2>2, <2>5, EncodeFrameLemma
      <3>2. Served \o <<Byte>> = Append(Served, Byte)
        BY <1>3, <2>2, PairLemma
      <3>3. Consumed' = Served' \o EncodeFrame(Byte) /\ stage' = "handle"
        BY <1>2, <2>2, <2>4, <2>5, <3>1, <3>2
      <3>4. EncodeFrame(frame)' = EncodeFrame(Byte)
        BY <2>2 DEF EncodeFrame
      <3>. QED
        BY <1>1, <1>2, <3>3, <3>4 DEF ConsumedInv, BootstrapStages
    <2>6. CASE Payload[Byte] = 1
      BY <1>1, <1>2, <2>2, <2>4, <2>6 DEF ConsumedInv, BootstrapStages
    <2>. QED
      BY <2>2, <2>5, <2>6, PayloadLemma
  <1>6. CASE TakePayload
    <2>1. /\ Takes("payload") /\ stage = "payload" /\ need' = need - 1 /\ frame' = frame
          /\ stage' = IF need' = 0 THEN "handle" ELSE "payload"
      BY <1>6 DEF TakePayload, TakesOneOf, Takes
    <2>2. need = 1 /\ Payload[frame] = 1 /\ Consumed = Append(Served, frame)
      BY <2>1 DEF ConsumedInv
    <2>3. PICK m \in Nat : /\ Len(taken) = Len(session.program) + m
                           /\ \A j \in m + 1 .. m + need : session.frames[j] = "x"
      BY <2>1, LoopPlaces
    <2>4. Byte = "x"
      <3>1. Byte = session.frames[m + 1]
        BY <1>1, <2>1, <2>3, LoopByte
      <3>2. m + 1 \in m + 1 .. m + need
        BY <2>2
      <3>. QED
        BY <2>3, <3>1, <3>2
    <2>5. frame \in Bytes
      BY <1>3
    <2>6. Consumed' = Append(Append(Served, frame), "x")
      <3>1. Append(Served, frame) \in Seq(Bytes)
        BY <1>3, <2>5, PairLemma
      <3>. QED
        BY <1>1, <1>3, <2>1, <2>2, <2>4, <3>1, ConsumedGrows
    <2>7. Served \o <<frame, "x">> = Append(Append(Served, frame), "x")
      BY <1>3, <2>5, PairLemma
    <2>8. EncodeFrame(frame) = <<frame, "x">> /\ EncodeFrame(frame)' = EncodeFrame(frame)
      BY <1>3, <2>1, <2>2, EncodeFrameLemma DEF EncodeFrame
    <2>9. Consumed' = Served' \o EncodeFrame(frame)' /\ stage' = "handle"
      BY <1>2, <2>1, <2>2, <2>6, <2>7, <2>8
    <2>. QED
      BY <1>1, <1>2, <2>9 DEF ConsumedInv, BootstrapStages
  <1>. QED
    BY <1>4, <1>5, <1>6 DEF TakeStep

\* What it does between reads leaves them so.
LEMMA ServeConsumed ==
    ASSUME IInv, ConsumedInv, ServeStep
    PROVE  ConsumedInv'
  <1>1. UNCHANGED <<session, taken, need, frame>>
    BY DEF ServeStep, Fill, AtEof, Greet, Handle, ServerExits, WriterWrites, WriterBreaks,
       FlowsEnd, GreetFails, inVars
  <1>2. Consumed' = Consumed /\ EncodeFrame(frame)' = EncodeFrame(frame) /\ session'.program \in Seq(Bytes)
    BY <1>1 DEF Consumed, ByteAt, EncodeFrame, ConsumedInv
  <1>3. /\ Served \in Seq(Bytes) /\ handled \in Seq(DOMAIN Payload) /\ frame \in DOMAIN Payload
    BY ServedTyped
  <1>4. CASE Fill \/ WriterWrites \/ WriterBreaks \/ FlowsEnd
    <2>1. stage' = stage /\ handled' = handled
      BY <1>4 DEF Fill, WriterWrites, WriterBreaks, FlowsEnd
    <2>2. Served' = Served
      BY <1>1, <2>1 DEF Served, Encode, EncodeFrame
    <2>. QED
      BY <1>1, <1>2, <2>1, <2>2 DEF ConsumedInv
  <1>5. CASE AtEof \/ ServerExits \/ GreetFails
    <2>1. /\ handled' = handled
          /\ \/ stage \in BootstrapStages \cup {"greet"} /\ stage' = "failed"
             \/ stage' \in {"draining", "exited"}
      BY <1>5 DEF AtEof, ServerExits, GreetFails
    <2>. QED
      BY <1>2, <2>1 DEF ConsumedInv, BootstrapStages
  <1>6. CASE Greet
    <2>1. stage = "greet" /\ stage' = "header" /\ handled' = handled
      BY <1>6 DEF Greet
    <2>2. handled' = <<>>
      BY <2>1 DEF ConsumedInv
    <2>3. Served' = session.program
      <3>1. Encode(handled)' = <<>>
        BY <1>3, <2>2, EncodeLemma DEF Encode, EncodeFrame
      <3>2. session.program \o <<>> = session.program
        BY ConcatEmptySeq DEF ConsumedInv
      <3>. QED
        BY <1>1, <3>1, <3>2 DEF Served
    <2>4. Consumed = session.program
      <3>. DEFINE n == Len(taken)
      <3>1. n - Len(session.program) = 0 /\ Run(taken, 0)
        BY <2>1 DEF IInv, ParseInv, LoopInv, InOrder
      <3>2. taken \in Seq(1 .. sent) /\ session.program \in Seq(Bytes)
        BY DEF IInv, SeqTypeOK, ConsumedInv
      <3>3. n \in Nat /\ n = Len(session.program) /\ DOMAIN taken = 1 .. n
        BY <3>1, <3>2
      <3>4. \A k \in 1 .. n : taken[k] = k
        BY <3>1, <3>3 DEF Run
      <3>5. Consumed = [k \in 1 .. n |-> session.program[k]]
        BY <3>3, <3>4 DEF Consumed, ByteAt
      <3>6. session.program = [k \in 1 .. n |-> session.program[k]]
        BY <3>2, <3>3
      <3>. QED
        BY <3>5, <3>6
    <2>. QED
      BY <1>2, <2>1, <2>3, <2>4 DEF ConsumedInv, BootstrapStages
  <1>7. CASE Handle
    <2>1. stage = "handle" /\ stage' \in {"draining", "header"} /\ handled' = Append(handled, frame)
      BY <1>7 DEF Handle
    <2>2. Consumed = Served \o EncodeFrame(frame)
      BY <2>1 DEF ConsumedInv
    <2>3. Encode(handled)' = Encode(handled) \o EncodeFrame(frame)
      <3>1. Encode(handled)' = Encode(Append(handled, frame))
        BY <2>1 DEF Encode, EncodeFrame
      <3>. QED
        BY <1>3, <3>1, EncodeLemma
    <2>4. /\ session.program \in Seq(Bytes) /\ Encode(handled) \in Seq(Bytes)
          /\ EncodeFrame(frame) \in Seq(Bytes)
      BY <1>3, EncodeLemma, EncodeFrameLemma DEF ConsumedInv
    <2>5. Served' = Served \o EncodeFrame(frame)
      <3>1. (session.program \o Encode(handled)) \o EncodeFrame(frame)
              = session.program \o (Encode(handled) \o EncodeFrame(frame))
        <4>. DEFINE p == session.program
                    e == Encode(handled)
                    f == EncodeFrame(frame)
        <4>1. p \in Seq(Bytes) /\ e \in Seq(Bytes) /\ f \in Seq(Bytes)
          BY <2>4
        <4>. HIDE DEF p, e, f
        <4>2. (p \o e) \o f = p \o (e \o f)
          BY <4>1, ConcatAssociative
        <4>. QED
          BY <4>2 DEF p, e, f
      <3>. QED
        BY <1>1, <2>3, <3>1 DEF Served
    <2>. QED
      BY <1>2, <2>1, <2>2, <2>5 DEF ConsumedInv, BootstrapStages
  <1>. QED
    BY <1>4, <1>5, <1>6, <1>7 DEF ServeStep

\* A byte that is taken is not answered yet.
LEMMA TakeWritten ==
    ASSUME IInv, WrittenInv, TakeStep
    PROVE  WrittenInv'
  <1>1. UNCHANGED <<handled, out, writer, stdout>>
    BY DEF TakeStep, TakeAssembler, TakeName, TakeCount, TakeBody, TakeHeader, TakePayload, TakesOneOf,
       Takes, outVars
  <1>2. stage' \notin {"draining", "exited", "failed"}
    BY TakeParse
  <1>3. \/ stage \in BootstrapStages /\ stage' \in BootstrapStages \cup {"greet"}
        \/ stage \in {"header", "payload"} /\ stage' \in {"payload", "handle"}
    BY <1>2 DEF TakeStep, TakeAssembler, TakeName, TakeCount, TakeBody, TakeHeader, TakePayload, TakesOneOf,
       Takes, BootstrapStages
  <1>. QED
    BY <1>1, <1>3 DEF WrittenInv, BootstrapStages

\* Replies are queued and written in order.
LEMMA ServeWritten ==
    ASSUME IInv, WrittenInv, ServeStep
    PROVE  WrittenInv'
  <1>. DEFINE S == Frames \cup {"SYNC"}
              all == Greeting \o RepliesTo(handled)
  <1>1. /\ handled \in Seq(DOMAIN Payload) /\ frame \in DOMAIN Payload
        /\ out \in Seq(S) /\ stdout \in Seq(S)
        /\ writer \in {"run", "done"}
    <2>1. out \in Seq(Frames)
      BY DEF IInv, OutTypeOK
    <2>2. out \in Seq(S)
      BY <2>1
    <2>. QED
      BY <2>2 DEF IInv, OutTypeOK, ParseInv
  <1>2. Greeting \in Seq(S) /\ RepliesTo(handled) \in Seq(S) /\ all \in Seq(S)
    <2>1. Greeting \in Seq(S)
      BY DEF Greeting, Frames
    <2>2. RepliesTo(handled) \in Seq(Frames)
      BY <1>1, RepliesLemma
    <2>3. RepliesTo(handled) \in Seq(S)
      BY <2>2
    <2>. HIDE DEF S
    <2>. QED
      BY <2>1, <2>3, ConcatLemma
  <1>. HIDE DEF S
  <1>3. ASSUME handled' = handled PROVE RepliesTo(handled)' = RepliesTo(handled)
    BY <1>3 DEF RepliesTo, Reply
  <1>4. CASE Fill \/ FlowsEnd
    BY <1>3, <1>4 DEF Fill, FlowsEnd, outVars, WrittenInv
  <1>5. CASE AtEof
    <2>1. UNCHANGED <<handled, out, writer, stdout>>
      BY <1>5 DEF AtEof, outVars
    <2>2. \/ stage \in BootstrapStages /\ stage' = "failed"
          \/ stage \in {"header", "payload"} /\ stage' = "draining"
      BY <1>5 DEF AtEof
    <2>. QED
      BY <1>3, <2>1, <2>2 DEF WrittenInv, BootstrapStages
  <1>6. CASE ServerExits
    BY <1>3, <1>6 DEF ServerExits, outVars, WrittenInv, BootstrapStages
  <1>7. CASE Greet
    <2>1. /\ stage = "greet" /\ stage' = "header" /\ stdout' = <<"SYNC">> /\ out' = <<"PING", "ROUTES">>
          /\ handled' = handled
      BY <1>7 DEF Greet
    <2>2. handled' = <<>>
      BY <2>1 DEF WrittenInv
    <2>3. RepliesTo(handled)' = <<>>
      <3>1. RepliesTo(<<>>) = <<>>
        BY <1>1, RepliesLemma
      <3>. QED
        BY <2>2, <3>1 DEF RepliesTo, Reply
    <2>4. Greeting \o <<>> = Greeting
      BY <1>2, ConcatEmptySeq
    <2>5. /\ <<"SYNC">> \in Seq(S) /\ <<"PING", "ROUTES">> \in Seq(S)
          /\ <<"SYNC">> \o <<"PING", "ROUTES">> = Greeting
      <3>1. "SYNC" \in S /\ "PING" \in S /\ "ROUTES" \in S
        BY DEF S, Frames
      <3>. HIDE DEF S
      <3>. QED
        BY <3>1, ThreeLemma DEF Greeting
    <2>6. IsPrefix(<<"SYNC">>, Greeting)
      <3>1. IsPrefix(<<"SYNC">>, <<"SYNC">> \o <<"PING", "ROUTES">>)
        BY <2>5, PrefixLemma
      <3>. QED
        BY <2>5, <3>1
    <2>7. writer' = "run"
      BY <1>7, <2>1 DEF WrittenInv, Greet
    <2>. QED
      BY <2>1, <2>3, <2>4, <2>5, <2>6, <2>7 DEF WrittenInv, BootstrapStages
  <1>8. CASE Handle
    <2>1. /\ stage = "handle" /\ stage' \in {"draining", "header"} /\ handled' = Append(handled, frame)
          /\ UNCHANGED <<writer, stdout>>
          /\ \/ writer = "run" /\ out' = out \o Reply(frame)
             \/ (writer = "done" \/ Reply(frame) = <<>>) /\ out' = out
      BY <1>1, <1>8 DEF Handle
    <2>2. IsPrefix(stdout, all) /\ (writer = "run" => stdout \o out = all)
      BY <2>1 DEF WrittenInv, BootstrapStages
    <2>3. Reply(frame) \in Seq(S)
      <3>1. Reply(frame) \in Seq(Frames)
        BY ReplyLemma
      <3>. QED
        BY <3>1 DEF S
    <2>4. RepliesTo(handled)' = RepliesTo(handled) \o Reply(frame)
      <3>1. RepliesTo(handled)' = RepliesTo(Append(handled, frame))
        BY <2>1 DEF RepliesTo, Reply
      <3>. QED
        BY <1>1, <3>1, RepliesLemma
    <2>5. Greeting \o RepliesTo(handled)' = all \o Reply(frame)
      BY <1>2, <2>3, <2>4, ConcatAssociative
    <2>6. IsPrefix(stdout, all \o Reply(frame))
      <3>. HIDE DEF all
      <3>. QED
        BY <1>1, <1>2, <2>2, <2>3, PrefixLemma
    <2>7. writer = "run" => stdout \o out' = all \o Reply(frame)
      <3>1. stdout \o (out \o Reply(frame)) = (stdout \o out) \o Reply(frame)
        BY <1>1, <2>3, ConcatAssociative
      <3>2. Reply(frame) = <<>> => out \o Reply(frame) = out
        BY <1>1, ConcatEmptySeq
      <3>3. writer = "run" => out' = out \o Reply(frame)
        BY <2>1, <3>2
      <3>. QED
        BY <2>2, <3>1, <3>3
    <2>8. writer' = "done" => out' = <<>>
      BY <2>1 DEF WrittenInv
    <2>. QED
      BY <2>1, <2>5, <2>6, <2>7, <2>8 DEF WrittenInv, BootstrapStages, Greeting
  <1>9. CASE WriterWrites
    <2>1. /\ writer = "run" /\ out # <<>> /\ stdout' = Append(stdout, Head(out)) /\ out' = Tail(out)
          /\ UNCHANGED <<stage, handled, writer>> /\ stage # "exited"
      BY <1>9 DEF WriterWrites, Ended
    <2>2. stage \notin BootstrapStages \cup {"greet", "failed"} /\ stdout \o out = all
      BY <2>1 DEF WrittenInv
    <2>3. Head(out) \in S /\ Tail(out) \in Seq(S) /\ <<Head(out)>> \in Seq(S)
      BY <1>1, <2>1, SeqLemma
    <2>4. /\ Append(stdout, Head(out)) = stdout \o <<Head(out)>>
          /\ Append(stdout, Head(out)) \in Seq(S)
      BY <1>1, <2>3, PairLemma
    <2>5. <<Head(out)>> \o Tail(out) = out
      BY <1>1, <2>1
    <2>6. (stdout \o <<Head(out)>>) \o Tail(out) = stdout \o (<<Head(out)>> \o Tail(out))
      BY <1>1, <2>3, ConcatAssociative
    <2>7. stdout' \o out' = all
      BY <2>1, <2>2, <2>4, <2>5, <2>6
    <2>8. IsPrefix(stdout', all)
      <3>1. IsPrefix(stdout', stdout' \o out')
        BY <2>1, <2>3, <2>4, PrefixLemma
      <3>. QED
        BY <2>7, <3>1
    <2>. QED
      BY <1>3, <2>1, <2>2, <2>7, <2>8 DEF WrittenInv, Greeting
  <1>10. CASE WriterBreaks
    <2>1. /\ writer = "run" /\ out # <<>> /\ writer' = "done" /\ out' = <<>>
          /\ UNCHANGED <<stage, handled, stdout>>
      BY <1>10 DEF WriterBreaks
    <2>2. stage \notin BootstrapStages \cup {"greet", "failed"}
      BY <2>1 DEF WrittenInv
    <2>. QED
      BY <1>3, <2>1, <2>2 DEF WrittenInv, Greeting
  <1>11. CASE GreetFails
    <2>1. UNCHANGED <<handled, out, writer, stdout>> /\ stage = "greet" /\ stage' = "failed"
      BY <1>11 DEF GreetFails, outVars
    <2>. QED
      BY <1>3, <2>1 DEF WrittenInv
  <1>. QED
    BY <1>4, <1>5, <1>6, <1>7, <1>8, <1>9, <1>10, <1>11 DEF ServeStep

\* Steps that are not the server's touch neither.
LEMMA StdioStays ==
    ASSUME ConsumedInv, WrittenInv,
           UNCHANGED <<session, taken, stage, need, frame, handled, out, writer, stdout>>
    PROVE  ConsumedInv' /\ WrittenInv'
  BY DEF ConsumedInv, WrittenInv, Consumed, Served, ByteAt, Encode, EncodeFrame, Greeting, RepliesTo, Reply

\* Nothing is consumed or written at first.
LEMMA StdioInit ==
    ASSUME Init
    PROVE  ConsumedInv /\ WrittenInv
  <1>1. /\ session \in Sessions /\ handled = <<>> /\ stdout = <<>> /\ out = <<>> /\ writer = "run"
        /\ stage \in {"greet", "assembler", "name"}
    BY DEF Init, ServerInit, FirstStage
  <1>2. session.program \in Seq(Bytes)
    BY <1>1, ProgramTyped
  <1>. QED
    BY <1>1, <1>2 DEF ConsumedInv, WrittenInv, BootstrapStages

\* So both hold in every state.
LEMMA StdioHolds == Spec => [](ConsumedInv /\ WrittenInv)
  <1>1. Init => ConsumedInv /\ WrittenInv
    BY StdioInit
  <1>2. IInv /\ (ConsumedInv /\ WrittenInv) /\ [Next]_vars => (ConsumedInv /\ WrittenInv)'
    <2>. SUFFICES ASSUME IInv, ConsumedInv, WrittenInv, [Next]_vars PROVE ConsumedInv' /\ WrittenInv'
      OBVIOUS
    <2>1. CASE ProxyStep \/ KubectlStep \/ UNCHANGED vars
      BY <2>1, StdioStays DEF ProxyStep, KubectlStep, Carry, CarryEof, KubectlGoesDeaf, KubectlEnds,
         vars, serverVars, inVars, outVars
    <2>2. CASE TakeStep
      BY <2>2, TakeConsumed, TakeWritten
    <2>3. CASE ServeStep
      BY <2>3, ServeConsumed, ServeWritten
    <2>. QED
      BY <2>1, <2>2, <2>3, NextLemma
  <1>. QED
    BY <1>1, <1>2, IInvHolds, PTL DEF Spec

\* Between two frames, what the server has consumed is the program (one of the two
\* modelled, or none) and the frames it has served, exactly.
THEOREM EaterStaysInStep == Spec => []EaterInStep
  <1>1. ConsumedInv => EaterInStep
    BY DEF ConsumedInv, EaterInStep, Consumed, Served
  <1>. QED
    BY <1>1, StdioHolds, PTL

\* What the server writes is the greeting and the replies to the commands it has
\* served, in their order, and all of them unless its writer task ended early.
THEOREM RepliesStayInOrder == Spec => []RepliesInOrder
  <1>1. IInv /\ WrittenInv => RepliesInOrder
    <2>. SUFFICES ASSUME IInv, WrittenInv PROVE RepliesInOrder
      OBVIOUS
    <2>. DEFINE all == Greeting \o RepliesTo(handled)
                S == Frames \cup {"SYNC"}
    <2>1. stdout \in Seq(S)
      BY DEF IInv, OutTypeOK
    <2>2. all \in Seq(S)
      <3>1. RepliesTo(handled) \in Seq(Frames)
        BY RepliesLemma, PayloadLemma DEF IInv, OutTypeOK
      <3>2. RepliesTo(handled) \in Seq(S) /\ Greeting \in Seq(S)
        BY <3>1 DEF Greeting, Frames
      <3>. QED
        BY <3>2, ConcatLemma
    <2>3. IsPrefix(stdout, all)
      <3>1. CASE stdout = <<>>
        <4>1. <<>> \in Seq(S) /\ <<>> \o all = all
          BY <2>2, ConcatEmptySeq
        <4>. HIDE DEF all, S
        <4>2. IsPrefix(<<>>, <<>> \o all)
          BY <2>2, <4>1, PrefixLemma
        <4>. QED
          BY <3>1, <4>1, <4>2
      <3>2. CASE stdout # <<>>
        BY <3>2 DEF WrittenInv
      <3>. QED
        BY <3>1, <3>2
    <2>4. ASSUME stage = "exited", writer = "run" PROVE stdout = all
      <3>1. stdout \o <<>> = all
        BY <2>4 DEF WrittenInv, BootstrapStages
      <3>. QED
        BY <2>1, <3>1, ConcatEmptySeq
    <2>. QED
      BY <2>3, <2>4 DEF RepliesInOrder, RepliesTo, Greeting
  <1>. QED
    BY <1>1, IInvHolds, StdioHolds, PTL
=============================================================================
