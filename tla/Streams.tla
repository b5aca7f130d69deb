------------------------------ MODULE Streams ------------------------------
(***************************************************************************)
(* What a TCP tunnel promises: a set of independent one-way byte streams.  *)
(* The receiver of a stream gets the chunks that were written, in order,   *)
(* each once, none of another stream; it sees the end of the stream only   *)
(* after the writer closed and every chunk arrived.  A stream may be cut:  *)
(* then it carries nothing more, and its end means nothing.                *)
(***************************************************************************)
EXTENDS Naturals, Sequences

CONSTANT Stream

VARIABLES
    written,    \* written[s]: chunks 1 .. written[s] were written
    closed,     \* closed[s]: the writer is done
    got,        \* got[s]: the chunks received so far
    ended,      \* ended[s]: the receiver saw the end of the stream
    cut         \* cut[s]: the stream was broken off

svars == <<written, closed, got, ended, cut>>

Init ==
    /\ written = [s \in Stream |-> 0]
    /\ closed = [s \in Stream |-> FALSE]
    /\ got = [s \in Stream |-> <<>>]
    /\ ended = [s \in Stream |-> FALSE]
    /\ cut = [s \in Stream |-> FALSE]

\* The last write of a stream may be its end as well.
Write(s) ==
    /\ ~closed[s]
    /\ written' = [written EXCEPT ![s] = @ + 1]
    /\ \E b \in BOOLEAN : closed' = [closed EXCEPT ![s] = b]
    /\ UNCHANGED <<got, ended, cut>>

Close(s) ==
    /\ closed' = [closed EXCEPT ![s] = TRUE]
    /\ UNCHANGED <<written, got, ended, cut>>

Deliver(s) ==
    /\ ~ended[s]
    /\ Len(got[s]) < written[s]
    /\ got' = [got EXCEPT ![s] = Append(@, Len(@) + 1)]
    /\ UNCHANGED <<written, closed, ended, cut>>

End(s) ==
    /\ closed[s]
    /\ Len(got[s]) = written[s]
    /\ ended' = [ended EXCEPT ![s] = TRUE]
    /\ UNCHANGED <<written, closed, got, cut>>

\* Some streams are cut together; their receivers may take that for the end.
Cut ==
    /\ cut' \in [Stream -> BOOLEAN]
    /\ \A s \in Stream : cut[s] => cut'[s]
    /\ ended' \in [Stream -> BOOLEAN]
    /\ \A s \in Stream : \/ ended'[s] = ended[s]
                         \/ cut'[s] /\ ended'[s]
    /\ UNCHANGED <<written, closed, got>>

Next == Cut \/ \E s \in Stream : Write(s) \/ Close(s) \/ Deliver(s) \/ End(s)

Spec == Init /\ [][Next]_svars
=============================================================================
