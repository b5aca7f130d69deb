---------------------------- MODULE LinkProbeProofs ----------------------------
(* Theorems about LinkProbe, for every value of its constants. *)
EXTENDS LinkProbe, SequenceTheorems, TLAPS

(***************************************************************************)
(* The invariant                                                           *)
(***************************************************************************)
\* A burst that is under way has a number: two for each session.  There is no
\* second session unless the first was probed.
BurstsAreNumbered ==
    /\ session = 2 => Fallback > 0
    /\ pc = "sync" => attempt = 1 /\ burst = 2 * (session - 1)
    /\ pc \in {"burst", "collect"} => Fallback > 0 /\ burst = 2 * (session - 1) + attempt

\* The delay is switched on before any burst but the first.
DelayIsOn == (burst > 1 \/ session = 2) /\ pc # "ok" => delay = Fallback

\* On their way up are PINGs of bursts that were begun; PONGs repeat them.
FramesAreKnown ==
    /\ lost \subseteq 1 .. burst
    /\ \A k \in DOMAIN up : up[k].burst \in 1 .. burst /\ up[k].idx \in 1 .. N
    /\ \A k \in DOMAIN down : down[k].cmd = "PONG" => down[k].idx \in 1 .. N

\* A read is cut in two on a slow network only.
WholeReads == net # "slow" => ~ partial /\ ~ skewed

\* A session that is to greet has carried no frame of the probe yet.
Unused == pc = "sync" => up = <<>> /\ \A k \in DOMAIN down : down[k].cmd # "PONG"

\* Frames arrive in the order in which they were written: first those whose PONG
\* has been counted, then those whose PONG is under way, then the others.
IsPong(k) == down[k].cmd = "PONG"

UpInOrder == \A j, k \in DOMAIN up : j < k => up[j].idx < up[k].idx
DownInOrder ==
    \A j, k \in DOMAIN down : j < k /\ IsPong(j) /\ IsPong(k) => down[j].idx < down[k].idx
DownBeforeUp ==
    \A j \in DOMAIN down, k \in DOMAIN up : IsPong(j) => down[j].idx < up[k].idx
SeenBeforeDown == \A i \in seen, k \in DOMAIN down : IsPong(k) => i < down[k].idx
SeenBeforeUp == \A i \in seen, k \in DOMAIN up : i < up[k].idx

\* A frame that the burst has lost is not on its way and was not counted.
Missing(i) ==
    /\ i \in 1 .. sent
    /\ i \notin seen
    /\ \A k \in DOMAIN up : up[k].idx # i
    /\ \A k \in DOMAIN down : IsPong(k) => down[k].idx # i

\* Everything under way, and everything counted, is of the burst that was sent last.
Ordered ==
    /\ \A k \in DOMAIN up : up[k].burst = burst /\ up[k].idx <= sent
    /\ \A k \in DOMAIN down : IsPong(k) => down[k].idx <= sent
    /\ \A i \in seen : i <= sent
    /\ UpInOrder /\ DownInOrder /\ DownBeforeUp /\ SeenBeforeDown /\ SeenBeforeUp

OneBurst == Ordered /\ (burst \in lost => \E i \in 1 .. N : Missing(i))

\* On a network that is not slow, a burst is only begun on a session that has
\* nothing of an earlier one left, unless the session is dead.
BurstsAreApart ==
    net # "slow" /\ pc \in {"burst", "collect"}
        => OneBurst \/ (pc = "burst" /\ ~ alive)

\* After a good burst nothing is under way that could still be lost.
GoodMeansDone == net # "slow" /\ pc = "ok" => burst \notin lost /\ up = <<>>

ProbeInv ==
    /\ ProbeTypeOK /\ BurstsAreNumbered /\ DelayIsOn /\ FramesAreKnown /\ RetriesArePaced
    /\ WholeReads /\ Unused /\ BurstsAreApart /\ GoodMeansDone
-----------------------------------------------------------------------------
(***************************************************************************)
(* Sequences of frames                                                     *)
(***************************************************************************)
\* A sequence t is what is left of s when some of its elements are taken out.
Thinned(t, s) ==
    \E e \in [DOMAIN t -> DOMAIN s] :
        /\ \A k \in DOMAIN t : t[k] = s[e[k]]
        /\ \A j, k \in DOMAIN t : j < k => e[j] < e[k]

\* The element at k, for one, is taken out.
Without(t, s, k) ==
    \E e \in [DOMAIN t -> DOMAIN s \ {k}] :
        /\ \A i \in DOMAIN t : t[i] = s[e[i]]
        /\ \A i, j \in DOMAIN t : i < j => e[i] < e[j]

\* To be without an element is to be thinned.
LEMMA WithoutThins ==
    ASSUME NEW s, NEW t, NEW k, Without(t, s, k)
    PROVE  Thinned(t, s)
  <1>1. PICK e \in [DOMAIN t -> DOMAIN s \ {k}] :
          /\ \A i \in DOMAIN t : t[i] = s[e[i]]
          /\ \A i, j \in DOMAIN t : i < j => e[i] < e[j]
    BY DEF Without
  <1>2. e \in [DOMAIN t -> DOMAIN s]
    OBVIOUS
  <1>. QED
    BY <1>1, <1>2 DEF Thinned

\* Reading the first frame takes it out.
LEMMA TailThins ==
    ASSUME NEW S, NEW s \in Seq(S), s # <<>>
    PROVE  /\ Tail(s) \in Seq(S) /\ Without(Tail(s), s, 1)
           /\ 1 \in DOMAIN s /\ Head(s) = s[1] /\ Head(s) \in S
  <1>1. /\ Tail(s) \in Seq(S) /\ Len(Tail(s)) = Len(s) - 1 /\ Len(s) \in Nat \ {0}
        /\ \A k \in 1 .. Len(s) - 1 : Tail(s)[k] = s[k + 1]
        /\ DOMAIN s = 1 .. Len(s) /\ DOMAIN Tail(s) = 1 .. Len(s) - 1
        /\ Head(s) = s[1] /\ Head(s) \in S
    OBVIOUS
  <1>. DEFINE n == Len(s) - 1
              e == [k \in 1 .. n |-> k + 1]
  <1>2. e \in [1 .. n -> DOMAIN s \ {1}] /\ DOMAIN Tail(s) = 1 .. n
    BY <1>1
  <1>3. /\ \A k \in 1 .. n : Tail(s)[k] = s[e[k]]
        /\ \A j, k \in 1 .. n : j < k => e[j] < e[k]
    BY <1>1
  <1>4. Without(Tail(s), s, 1)
    <2>. HIDE DEF e, n
    <2>. QED
      BY <1>2, <1>3 DEF Without
  <1>. QED
    BY <1>1, <1>4

\* Cutting a direction off thins it.
LEMMA CutThins ==
    ASSUME NEW S, NEW s \in Seq(S), NEW m \in 0 .. Len(s)
    PROVE  SubSeq(s, 1, m) \in Seq(S) /\ Thinned(SubSeq(s, 1, m), s)
  <1>1. /\ SubSeq(s, 1, m) \in Seq(S) /\ Len(SubSeq(s, 1, m)) = m
        /\ \A k \in 1 .. m : SubSeq(s, 1, m)[k] = s[k]
        /\ DOMAIN SubSeq(s, 1, m) = 1 .. m /\ DOMAIN s = 1 .. Len(s) /\ Len(s) \in Nat
    OBVIOUS
  <1>. DEFINE e == [k \in 1 .. m |-> k]
  <1>2. e \in [1 .. m -> DOMAIN s]
    BY <1>1
  <1>3. /\ \A k \in 1 .. m : SubSeq(s, 1, m)[k] = s[e[k]]
        /\ \A j, k \in 1 .. m : j < k => e[j] < e[k]
    BY <1>1
  <1>. QED
    BY <1>1, <1>2, <1>3 DEF Thinned

\* Losing a frame takes it out.
LEMMA RemoveThins ==
    ASSUME NEW S, NEW s \in Seq(S), NEW k \in DOMAIN s
    PROVE  RemoveAt(s, k) \in Seq(S) /\ Without(RemoveAt(s, k), s, k)
  <1>. DEFINE n == Len(s)
              a == SubSeq(s, 1, k - 1)
              b == SubSeq(s, k + 1, Len(s))
              r == a \o b
  <1>1. n \in Nat /\ k \in 1 .. n /\ DOMAIN s = 1 .. n
    OBVIOUS
  <1>2. a \in Seq(S) /\ Len(a) = k - 1 /\ \A i \in 1 .. k - 1 : a[i] = s[i]
    BY <1>1
  <1>3. b \in Seq(S) /\ Len(b) = n - k /\ \A i \in 1 .. n - k : b[i] = s[k + i]
    <2>1. \A i \in k + 1 .. n : s[i] \in S
      BY <1>1
    <2>. QED
      BY <1>1, <2>1, SubSeqProperties
  <1>4. /\ r \in Seq(S) /\ Len(r) = Len(a) + Len(b)
        /\ \A i \in 1 .. Len(a) + Len(b) : r[i] = IF i <= Len(a) THEN a[i] ELSE b[i - Len(a)]
    BY <1>2, <1>3, ConcatProperties
  <1>. HIDE DEF a, b, r, n
  <1>5. Len(r) = n - 1 /\ DOMAIN r = 1 .. n - 1
    BY <1>1, <1>2, <1>3, <1>4
  <1>11. /\ \A i \in 1 .. n - 1 : i <= k - 1 => r[i] = a[i]
         /\ \A i \in 1 .. n - 1 : ~ (i <= k - 1) => r[i] = b[i - (k - 1)]
    <2>1. 1 .. n - 1 = 1 .. (k - 1) + (n - k)
      BY <1>1
    <2>2. \A i \in 1 .. (k - 1) + (n - k) : r[i] = IF i <= k - 1 THEN a[i] ELSE b[i - (k - 1)]
      BY <1>2, <1>3, <1>4
    <2>. QED
      BY <2>1, <2>2
  <1>. DEFINE e == [i \in 1 .. n - 1 |-> IF i < k THEN i ELSE i + 1]
  <1>6. e \in [1 .. n - 1 -> 1 .. n \ {k}]
    BY <1>1
  <1>7. ASSUME NEW i \in 1 .. n - 1 PROVE r[i] = s[e[i]]
    <2>1. CASE i < k
      <3>1. i \in 1 .. k - 1 /\ i <= k - 1
        BY <1>1, <2>1
      <3>2. r[i] = a[i] /\ a[i] = s[i]
        BY <1>2, <1>11, <3>1
      <3>. QED
        BY <2>1, <3>2
    <2>2. CASE ~ (i < k)
      <3>1. i - (k - 1) \in 1 .. n - k /\ k + (i - (k - 1)) = i + 1 /\ ~ (i <= k - 1)
        BY <1>1, <2>2
      <3>2. r[i] = b[i - (k - 1)]
        BY <1>11, <3>1
      <3>3. b[i - (k - 1)] = s[i + 1]
        BY <1>3, <3>1
      <3>. QED
        BY <2>2, <3>2, <3>3
    <2>. QED
      BY <2>1, <2>2
  <1>8. \A i, j \in 1 .. n - 1 : i < j => e[i] < e[j]
    BY <1>1
  <1>9. RemoveAt(s, k) = r
    BY DEF RemoveAt, r, a, b
  <1>10. Without(r, s, k)
    <2>. HIDE DEF e
    <2>. QED
      BY <1>1, <1>5, <1>6, <1>7, <1>8 DEF Without
  <1>. QED
    BY <1>4, <1>9, <1>10

\* Writing a frame adds it at the end.
LEMMA AppendLemma ==
    ASSUME NEW S, NEW s \in Seq(S), NEW x \in S
    PROVE  /\ Append(s, x) \in Seq(S)
           /\ DOMAIN s = 1 .. Len(s) /\ Len(s) \in Nat
           /\ DOMAIN Append(s, x) = 1 .. Len(s) + 1
           /\ \A k \in DOMAIN s : Append(s, x)[k] = s[k]
           /\ Append(s, x)[Len(s) + 1] = x
  OBVIOUS

\* A sequence is a thinning of itself.
LEMMA SameThins ==
    ASSUME NEW S, NEW s \in Seq(S)
    PROVE  Thinned(s, s)
  <1>1. SubSeq(s, 1, Len(s)) = s /\ Len(s) \in 0 .. Len(s)
    OBVIOUS
  <1>. QED
    BY <1>1, CutThins

\* The empty sequence is a thinning of every sequence.
LEMMA EmptyThins ==
    ASSUME NEW S, NEW s \in Seq(S)
    PROVE  <<>> \in Seq(S) /\ Thinned(<<>>, s)
  <1>1. SubSeq(s, 1, 0) = <<>> /\ 0 \in 0 .. Len(s)
    OBVIOUS
  <1>. QED
    BY <1>1, CutThins
-----------------------------------------------------------------------------
(***************************************************************************)
(* Frames                                                                  *)
(***************************************************************************)
\* The frames of the probe and those of the server's start.
LEMMA MessageTypes ==
    /\ \A b \in 0 .. 4, i \in 1 .. N, d \in Nat : Ping(b, i, d) \in Messages
    /\ \A f \in Messages :
         /\ PongOf(f) \in Messages
         /\ PongOf(f).cmd = "PONG" /\ PongOf(f).idx = f.idx /\ PongOf(f).burst = f.burst
    /\ \A c \in {"PING", "SYNC", "ROUTES"} : Note(c) \in Messages /\ Note(c).cmd # "PONG"
  <1>1. \A b \in 0 .. 4, i \in 1 .. N, d \in Nat : Ping(b, i, d) \in Messages
    BY ProbeAssumption DEF Ping, Messages
  <1>2. ASSUME NEW f \in Messages
        PROVE  /\ PongOf(f) \in Messages
               /\ PongOf(f).cmd = "PONG" /\ PongOf(f).idx = f.idx /\ PongOf(f).burst = f.burst
    BY DEF PongOf, Messages
  <1>3. \A c \in {"PING", "SYNC", "ROUTES"} : Note(c) \in Messages /\ Note(c).cmd # "PONG"
    BY ProbeAssumption DEF Note, Messages
  <1>. QED
    BY <1>1, <1>2, <1>3

\* What the server says when it starts answers no PING.
LEMMA GreetingLemma ==
    ASSUME NEW d, d = <<Note("SYNC"), Note("PING"), Note("ROUTES")>>
    PROVE  d \in Seq(Messages) /\ \A k \in DOMAIN d : d[k].cmd # "PONG"
  <1>1. \A a, b, c \in Messages :
          /\ <<a, b, c>> \in Seq(Messages)
          /\ \A k \in DOMAIN <<a, b, c>> : <<a, b, c>>[k] \in {a, b, c}
    OBVIOUS
  <1>. QED
    BY <1>1, MessageTypes
-----------------------------------------------------------------------------
(***************************************************************************)
(* What survives when frames are taken out                                 *)
(***************************************************************************)
\* The frames that are left are as known and as paced as before.
LEMMA ThinKnown ==
    ASSUME FramesAreKnown, RetriesArePaced, Thinned(up', up), Thinned(down', down),
           UNCHANGED <<burst, lost>>
    PROVE  FramesAreKnown' /\ RetriesArePaced'
  BY DEF Thinned, FramesAreKnown, RetriesArePaced

\* They are in order.
LEMMA ThinOrdered ==
    ASSUME Ordered, Thinned(up', up), Thinned(down', down), UNCHANGED <<burst, sent, seen>>
    PROVE  Ordered'
  <1>1. PICK e \in [DOMAIN up' -> DOMAIN up] :
          /\ \A k \in DOMAIN up' : up'[k] = up[e[k]]
          /\ \A j, k \in DOMAIN up' : j < k => e[j] < e[k]
    BY DEF Thinned
  <1>2. PICK g \in [DOMAIN down' -> DOMAIN down] :
          /\ \A k \in DOMAIN down' : down'[k] = down[g[k]]
          /\ \A j, k \in DOMAIN down' : j < k => g[j] < g[k]
    BY DEF Thinned
  <1>3. \A k \in DOMAIN up' : up'[k].burst = burst' /\ up'[k].idx <= sent'
    BY <1>1 DEF Ordered
  <1>4. \A k \in DOMAIN down' : down'[k].cmd = "PONG" => down'[k].idx <= sent'
    BY <1>2 DEF Ordered, IsPong
  <1>5. UpInOrder'
    BY <1>1 DEF Ordered, UpInOrder
  <1>6. DownInOrder'
    BY <1>2 DEF Ordered, DownInOrder, IsPong
  <1>7. DownBeforeUp'
    BY <1>1, <1>2 DEF Ordered, DownBeforeUp, IsPong
  <1>8. SeenBeforeDown' /\ SeenBeforeUp'
    BY <1>1, <1>2 DEF Ordered, SeenBeforeDown, SeenBeforeUp, IsPong
  <1>. QED
    BY <1>3, <1>4, <1>5, <1>6, <1>7, <1>8 DEF Ordered, IsPong

\* What was missing stays missing.
LEMMA ThinMissing ==
    ASSUME Thinned(up', up), Thinned(down', down), UNCHANGED <<sent, seen>>, NEW i, Missing(i)
    PROVE  Missing(i)'
  BY DEF Thinned, Missing, IsPong

\* A burst stays one.
LEMMA ThinOneBurst ==
    ASSUME OneBurst, Thinned(up', up), Thinned(down', down), UNCHANGED <<burst, sent, seen, lost>>
    PROVE  OneBurst'
  BY ThinOrdered, ThinMissing DEF OneBurst
-----------------------------------------------------------------------------
(***************************************************************************)
(* The server and the network                                              *)
(***************************************************************************)
\* The invariant says the same of a state in which nothing it looks at changed.
LEMMA NothingMoves ==
    ASSUME ProbeInv, UNCHANGED vars
    PROVE  ProbeInv'
  BY DEF ProbeInv, ProbeTypeOK, BurstsAreNumbered, DelayIsOn, FramesAreKnown, RetriesArePaced,
         WholeReads, Unused, BurstsAreApart, GoodMeansDone, OneBurst, Ordered, UpInOrder,
         DownInOrder, DownBeforeUp, SeenBeforeDown, SeenBeforeUp, Missing, IsPong, vars

\* The first state satisfies the invariant.
LEMMA ProbeInit ==
    Init => ProbeInv
  <1>. SUFFICES ASSUME Init PROVE ProbeInv
    OBVIOUS
  <1>1. up = <<>> /\ down = <<>> /\ DOMAIN up = {} /\ DOMAIN down = {}
    BY DEF Init
  <1>2. up \in Seq(Messages) /\ down \in Seq(Messages)
    BY <1>1
  <1>3. {alive, torn, partial, skewed, booted} \subseteq BOOLEAN
    BY DEF Init
  <1>4. /\ sent \in 0 .. N /\ seen \subseteq 1 .. N /\ lost \subseteq 1 .. 4 /\ burst \in 0 .. 4
        /\ session \in 1 .. 2 /\ attempt \in 1 .. 2 /\ delay \in Nat
    BY ProbeAssumption DEF Init
  <1>5. ProbeTypeOK
    BY <1>2, <1>3, <1>4 DEF Init, ProbeTypeOK
  <1>. QED
    BY <1>1, <1>5, ProbeAssumption DEF Init, ProbeInv, BurstsAreNumbered, DelayIsOn, FramesAreKnown,
       RetriesArePaced, WholeReads, Unused, BurstsAreApart, GoodMeansDone

\* A greeting brings no PONG.
LEMMA ServerBootInv ==
    ASSUME ProbeInv, ServerBoot
    PROVE  ProbeInv'
  <1>. USE DEF ProbeInv
  <1>1. down' \in Seq(Messages) /\ \A k \in DOMAIN down' : down'[k].cmd # "PONG"
    BY GreetingLemma DEF ServerBoot
  <1>2. UNCHANGED <<net, pc, session, attempt, burst, delay, sent, seen, lost, up, alive, torn,
                    partial, skewed>> /\ booted' = TRUE
    BY DEF ServerBoot
  <1>3. ProbeTypeOK'
    BY <1>1, <1>2 DEF ProbeTypeOK
  <1>4. BurstsAreNumbered' /\ DelayIsOn' /\ FramesAreKnown' /\ RetriesArePaced' /\ WholeReads' /\ Unused'
    BY <1>1, <1>2 DEF BurstsAreNumbered, DelayIsOn, FramesAreKnown, RetriesArePaced, WholeReads, Unused
  <1>5. OneBurst => OneBurst'
    BY <1>1, <1>2 DEF OneBurst, Ordered, UpInOrder, DownInOrder, DownBeforeUp, SeenBeforeDown,
       SeenBeforeUp, Missing, IsPong
  <1>6. BurstsAreApart' /\ GoodMeansDone'
    BY <1>2, <1>5 DEF BurstsAreApart, GoodMeansDone
  <1>. QED
    BY <1>3, <1>4, <1>6

\* The set-up does not look at these steps of the network: a session that dies,
\* one that never greets.
LEMMA KillSessionInv ==
    ASSUME ProbeInv, KillSession
    PROVE  ProbeInv'
  <1>. USE DEF ProbeInv
  <1>1. up \in Seq(Messages) /\ down \in Seq(Messages)
    BY DEF ProbeTypeOK
  <1>2. up' \in Seq(Messages) /\ Thinned(up', up) /\ up' = <<>>
    BY <1>1, EmptyThins DEF KillSession
  <1>3. down' \in Seq(Messages) /\ Thinned(down', down)
    BY <1>1, CutThins DEF KillSession
  <1>4. UNCHANGED <<net, pc, session, attempt, burst, delay, sent, seen, lost, partial, skewed, booted>>
    BY DEF KillSession
  <1>5. alive' \in BOOLEAN /\ torn' \in BOOLEAN
    BY DEF KillSession
  <1>6. ProbeTypeOK'
    BY <1>2, <1>3, <1>4, <1>5 DEF ProbeTypeOK
  <1>7. FramesAreKnown' /\ RetriesArePaced'
    BY <1>2, <1>3, <1>4, ThinKnown
  <1>8. BurstsAreNumbered' /\ DelayIsOn' /\ WholeReads'
    BY <1>4 DEF BurstsAreNumbered, DelayIsOn, WholeReads
  <1>9. Unused' /\ GoodMeansDone'
    BY <1>2, <1>3, <1>4 DEF Unused, GoodMeansDone, Thinned
  <1>10. BurstsAreApart'
    BY <1>2, <1>3, <1>4, ThinOneBurst DEF BurstsAreApart, KillSession
  <1>. QED
    BY <1>6, <1>7, <1>8, <1>9, <1>10

\* A child that fails before it greets takes nothing away.
LEMMA ChildFailsInv ==
    ASSUME ProbeInv, ChildFails
    PROVE  ProbeInv'
  <1>. USE DEF ProbeInv
  <1>1. UNCHANGED <<net, pc, session, attempt, burst, delay, sent, seen, lost, up, down, torn,
                    partial, skewed, booted>> /\ alive' = FALSE
    BY DEF ChildFails
  <1>2. ProbeTypeOK'
    BY <1>1 DEF ProbeTypeOK
  <1>3. /\ BurstsAreNumbered' /\ DelayIsOn' /\ FramesAreKnown' /\ RetriesArePaced' /\ WholeReads'
        /\ Unused' /\ GoodMeansDone'
    BY <1>1 DEF BurstsAreNumbered, DelayIsOn, FramesAreKnown, RetriesArePaced, WholeReads, Unused,
       GoodMeansDone
  <1>4. OneBurst => OneBurst'
    BY <1>1 DEF OneBurst, Ordered, UpInOrder, DownInOrder, DownBeforeUp, SeenBeforeDown,
       SeenBeforeUp, Missing, IsPong
  <1>5. BurstsAreApart'
    BY <1>1, <1>4 DEF BurstsAreApart
  <1>. QED
    BY <1>2, <1>3, <1>5

\* A lost frame is missing from then on.
LEMMA LoseFramesInv ==
    ASSUME ProbeInv, LoseFrames
    PROVE  ProbeInv'
  <1>. USE DEF ProbeInv
  <1>1. PICK k \in DOMAIN up : up' = RemoveAt(up, k) /\ lost' = lost \cup {up[k].burst}
    BY DEF LoseFrames
  <1>2. UNCHANGED <<net, pc, session, attempt, burst, delay, sent, seen, down, alive, torn,
                    partial, skewed, booted>>
    BY DEF LoseFrames
  <1>3. up \in Seq(Messages) /\ down \in Seq(Messages) /\ up # <<>>
    BY <1>1 DEF ProbeTypeOK
  <1>4. up' \in Seq(Messages) /\ Without(up', up, k)
    <2>1. RemoveAt(up, k) \in Seq(Messages) /\ Without(RemoveAt(up, k), up, k)
      BY <1>3, RemoveThins
    <2>. QED
      BY <1>1, <2>1
  <1>5. Thinned(up', up)
    BY <1>4, WithoutThins
  <1>6. Thinned(down', down)
    BY <1>2, <1>3, SameThins
  <1>7. up[k].burst \in 1 .. burst /\ up[k].idx \in 1 .. N /\ burst \in 0 .. 4
    BY DEF FramesAreKnown, ProbeTypeOK
  <1>8. ProbeTypeOK'
    <2>1. up[k].burst \in 1 .. 4
      BY <1>7
    <2>2. lost \subseteq 1 .. 4
      BY DEF ProbeTypeOK
    <2>3. lost' \subseteq 1 .. 4
      BY <1>1, <2>1, <2>2
    <2>. QED
      BY <1>2, <1>4, <2>3 DEF ProbeTypeOK
  <1>9. FramesAreKnown' /\ RetriesArePaced'
    <2>1. lost' \subseteq 1 .. burst'
      BY <1>1, <1>2, <1>7 DEF FramesAreKnown
    <2>. QED
      BY <1>2, <1>5, <2>1 DEF FramesAreKnown, RetriesArePaced, Thinned
  <1>10. BurstsAreNumbered' /\ DelayIsOn' /\ WholeReads'
    BY <1>2 DEF BurstsAreNumbered, DelayIsOn, WholeReads
  <1>11. Unused' /\ GoodMeansDone'
    BY <1>2, <1>3 DEF Unused, GoodMeansDone
  <1>12. ASSUME OneBurst PROVE OneBurst'
    <2>1. Ordered'
      BY <1>2, <1>5, <1>6, <1>12, ThinOrdered DEF OneBurst
    <2>2. PICK n \in 1 .. N : n = up[k].idx
      BY <1>7
    <2>3. n \in 1 .. sent /\ n \notin seen
      BY <1>7, <1>12, <2>2 DEF OneBurst, Ordered, SeenBeforeUp, ProbeTypeOK
    <2>4. \A i \in DOMAIN up' : up'[i].idx # n
      <3>1. \A i \in DOMAIN up : i \in Nat /\ up[i].idx \in Nat
        BY <1>3 DEF FramesAreKnown
      <3>2. \A i \in DOMAIN up \ {k} : i < k \/ k < i
        BY <3>1
      <3>3. \A i \in DOMAIN up \ {k} : up[i].idx # n
        BY <1>12, <2>2, <3>1, <3>2 DEF OneBurst, Ordered, UpInOrder
      <3>. QED
        BY <1>4, <3>3 DEF Without
    <2>5. \A i \in DOMAIN down : IsPong(i) => down[i].idx # n
      BY <1>7, <1>12, <2>2 DEF OneBurst, Ordered, DownBeforeUp, FramesAreKnown, IsPong
    <2>6. Missing(n)'
      BY <1>2, <2>3, <2>4, <2>5 DEF Missing, IsPong
    <2>. QED
      BY <2>1, <2>6 DEF OneBurst
  <1>13. BurstsAreApart'
    BY <1>2, <1>12 DEF BurstsAreApart
  <1>. QED
    BY <1>8, <1>9, <1>10, <1>11, <1>13

\* The PONG of the first frame on its way up follows all those on their way down.
LEMMA ServerPongInv ==
    ASSUME ProbeInv, ServerPong
    PROVE  ProbeInv'
  <1>. USE DEF ProbeInv
  <1>. DEFINE n == Len(down) + 1
  <1>1. up \in Seq(Messages) /\ down \in Seq(Messages) /\ up # <<>>
    BY DEF ServerPong, ProbeTypeOK
  <1>2. UNCHANGED <<net, pc, session, attempt, burst, delay, sent, seen, lost, alive, torn, partial,
                    skewed, booted>>
    BY DEF ServerPong
  <1>3. /\ up' \in Seq(Messages) /\ Without(up', up, 1)
        /\ Head(up) = up[1] /\ 1 \in DOMAIN up /\ Head(up) \in Messages
    <2>1. /\ Tail(up) \in Seq(Messages) /\ Without(Tail(up), up, 1)
          /\ Head(up) = up[1] /\ 1 \in DOMAIN up /\ Head(up) \in Messages
      BY <1>1, TailThins
    <2>. QED
      BY <2>1 DEF ServerPong
  <1>4. PICK f \in Messages : f = PongOf(Head(up)) /\ f.cmd = "PONG" /\ f.idx = up[1].idx
    BY <1>3, MessageTypes
  <1>5. /\ down' \in Seq(Messages)
        /\ DOMAIN down = 1 .. Len(down) /\ Len(down) \in Nat /\ DOMAIN down' = 1 .. n
        /\ \A k \in DOMAIN down : down'[k] = down[k]
        /\ down'[n] = f
    <2>1. down' = Append(down, f)
      BY <1>4 DEF ServerPong
    <2>2. /\ Append(down, f) \in Seq(Messages)
          /\ DOMAIN down = 1 .. Len(down) /\ Len(down) \in Nat
          /\ DOMAIN Append(down, f) = 1 .. Len(down) + 1
          /\ \A k \in DOMAIN down : Append(down, f)[k] = down[k]
          /\ Append(down, f)[Len(down) + 1] = f
      BY <1>1, AppendLemma
    <2>. QED
      BY <2>1, <2>2
  <1>6. \A k \in DOMAIN down' : (k \in DOMAIN down /\ down'[k] = down[k]) \/ (k = n /\ down'[k] = f)
    BY <1>5
  <1>7. ProbeTypeOK'
    BY <1>2, <1>3, <1>5 DEF ProbeTypeOK
  <1>. HIDE DEF n
  <1>8. FramesAreKnown' /\ RetriesArePaced'
    BY <1>2, <1>3, <1>4, <1>6 DEF FramesAreKnown, RetriesArePaced, Without
  <1>9. BurstsAreNumbered' /\ DelayIsOn' /\ WholeReads'
    BY <1>2 DEF BurstsAreNumbered, DelayIsOn, WholeReads
  <1>10. Unused' /\ GoodMeansDone'
    BY <1>1, <1>2 DEF Unused, GoodMeansDone
  <1>11. ASSUME OneBurst PROVE OneBurst'
    <2>1. PICK e \in [DOMAIN up' -> DOMAIN up \ {1}] :
            /\ \A k \in DOMAIN up' : up'[k] = up[e[k]]
            /\ \A j, k \in DOMAIN up' : j < k => e[j] < e[k]
      BY <1>3 DEF Without
    <2>2. \A k \in DOMAIN up' : f.idx < up'[k].idx
      <3>1. \A i \in DOMAIN up \ {1} : 1 < i
        BY <1>1
      <3>. QED
        BY <1>3, <1>4, <1>11, <2>1, <3>1 DEF OneBurst, Ordered, UpInOrder
    <2>3. /\ \A k \in DOMAIN down : IsPong(k) => down[k].idx < f.idx
          /\ \A i \in seen : i < f.idx
          /\ f.idx <= sent
      BY <1>3, <1>4, <1>11 DEF OneBurst, Ordered, DownBeforeUp, SeenBeforeUp
    <2>4. UpInOrder' /\ SeenBeforeUp' /\ \A k \in DOMAIN up' : up'[k].burst = burst' /\ up'[k].idx <= sent'
      BY <1>2, <1>11, <2>1 DEF OneBurst, Ordered, UpInOrder, SeenBeforeUp
    <2>5. DownBeforeUp'
      BY <1>6, <1>11, <2>1, <2>2 DEF OneBurst, Ordered, DownBeforeUp, IsPong
    <2>6. DownInOrder'
      <3>. SUFFICES ASSUME NEW j \in DOMAIN down', NEW k \in DOMAIN down', j < k,
                           down'[j].cmd = "PONG", down'[k].cmd = "PONG"
                    PROVE  down'[j].idx < down'[k].idx
        BY DEF DownInOrder, IsPong
      <3>1. j \in DOMAIN down /\ down'[j] = down[j]
        BY <1>5 DEF n
      <3>2. CASE k \in DOMAIN down
        BY <1>5, <1>11, <3>1, <3>2 DEF OneBurst, Ordered, DownInOrder, IsPong
      <3>3. CASE k = n /\ down'[k] = f
        BY <1>4, <2>3, <3>1, <3>3 DEF IsPong
      <3>. QED
        BY <1>6, <3>2, <3>3
    <2>7. /\ SeenBeforeDown' /\ (\A i \in seen' : i <= sent')
          /\ \A k \in DOMAIN down' : down'[k].cmd = "PONG" => down'[k].idx <= sent'
      BY <1>2, <1>4, <1>6, <1>11, <2>3 DEF OneBurst, Ordered, SeenBeforeDown, IsPong
    <2>8. ASSUME NEW i, Missing(i) PROVE Missing(i)'
      <3>1. f.idx # i
        BY <1>3, <1>4, <2>8 DEF Missing
      <3>. QED
        BY <1>2, <1>4, <1>6, <2>1, <2>8, <3>1 DEF Missing, IsPong
    <2>. QED
      BY <1>2, <1>11, <2>4, <2>5, <2>6, <2>7, <2>8 DEF OneBurst, Ordered, IsPong
  <1>12. BurstsAreApart'
    BY <1>2, <1>11 DEF BurstsAreApart
  <1>. QED
    BY <1>7, <1>8, <1>9, <1>10, <1>12
-----------------------------------------------------------------------------
(***************************************************************************)
(* The client                                                              *)
(***************************************************************************)
\* The first frame counts as the header; with it the first burst of the session
\* begins, unless the probe is disabled.
LEMMA ReadSyncInv ==
    ASSUME ProbeInv, ReadSync
    PROVE  ProbeInv'
  <1>. USE DEF ProbeInv
  <1>1. UNCHANGED <<net, session, attempt, delay, up, alive, torn, partial, skewed, booted>>
    BY DEF ReadSync
  <1>2. pc = "sync" /\ up = <<>> /\ attempt = 1 /\ burst = 2 * (session - 1)
    BY DEF ReadSync, Unused, BurstsAreNumbered
  <1>3. up \in Seq(Messages) /\ down \in Seq(Messages) /\ session \in 1 .. 2 /\ burst \in 0 .. 4
        /\ lost \subseteq 1 .. 4
    BY DEF ProbeTypeOK
  <1>4. down' \in Seq(Messages) /\ Thinned(down', down)
    <2>1. Tail(down) \in Seq(Messages) /\ Without(Tail(down), down, 1)
      BY <1>3, TailThins DEF ReadSync
    <2>. QED
      BY <2>1, WithoutThins DEF ReadSync
  <1>5. DOMAIN up = {} /\ \A k \in DOMAIN down' : down'[k].cmd # "PONG"
    BY <1>2, <1>4 DEF Thinned, Unused
  <1>6. CASE Fallback = 0
    <2>1. pc' = "ok" /\ UNCHANGED <<burst, sent, seen, lost>>
      BY <1>6 DEF ReadSync
    <2>2. burst \notin lost
      <3>1. session = 1
        BY <1>3, <1>6 DEF BurstsAreNumbered
      <3>. QED
        BY <1>2, <1>3, <3>1 DEF FramesAreKnown
    <2>3. ProbeTypeOK'
      BY <1>1, <1>4, <2>1 DEF ProbeTypeOK
    <2>4. FramesAreKnown' /\ RetriesArePaced'
      BY <1>1, <1>5, <2>1 DEF FramesAreKnown, RetriesArePaced
    <2>5. BurstsAreNumbered' /\ DelayIsOn' /\ WholeReads' /\ Unused'
      BY <1>1, <2>1 DEF BurstsAreNumbered, DelayIsOn, WholeReads, Unused
    <2>6. BurstsAreApart' /\ GoodMeansDone'
      BY <1>1, <1>2, <2>1, <2>2 DEF BurstsAreApart, GoodMeansDone
    <2>. QED
      BY <2>3, <2>4, <2>5, <2>6
  <1>7. CASE Fallback # 0
    <2>1. pc' = "burst" /\ burst' = burst + 1 /\ sent' = 0 /\ seen' = {} /\ UNCHANGED lost
      BY <1>7 DEF ReadSync, BeginBurst
    <2>2. burst' \in 0 .. 4 /\ burst' = 2 * (session - 1) + attempt
      BY <1>2, <1>3, <2>1
    <2>3. ProbeTypeOK'
      BY <1>1, <1>4, <2>1, <2>2, ProbeAssumption DEF ProbeTypeOK
    <2>4. FramesAreKnown' /\ RetriesArePaced'
      BY <1>1, <1>3, <1>5, <2>1 DEF FramesAreKnown, RetriesArePaced
    <2>5. BurstsAreNumbered' /\ WholeReads' /\ Unused' /\ GoodMeansDone'
      BY <1>1, <1>7, <2>1, <2>2, ProbeAssumption DEF BurstsAreNumbered, WholeReads, Unused, GoodMeansDone
    <2>6. DelayIsOn'
      <3>1. burst' > 1 => session = 2
        BY <1>2, <1>3, <2>1
      <3>. QED
        BY <1>1, <1>2, <2>1, <3>1 DEF DelayIsOn
    <2>7. burst' \notin lost'
      BY <1>3, <2>1 DEF FramesAreKnown
    <2>8. BurstsAreApart'
      BY <1>1, <1>5, <2>1, <2>7 DEF BurstsAreApart, OneBurst, Ordered, UpInOrder, DownInOrder,
         DownBeforeUp, SeenBeforeDown, SeenBeforeUp, IsPong
    <2>. QED
      BY <2>3, <2>4, <2>5, <2>6, <2>7, <2>8
  <1>. QED
    BY <1>6, <1>7

\* A session that ends before its greeting ends the set-up.
LEMMA ReadSyncFailsInv ==
    ASSUME ProbeInv, ReadSyncFails
    PROVE  ProbeInv'
  <1>. USE DEF ProbeInv
  <1>1. /\ UNCHANGED <<net, session, attempt, burst, delay, sent, seen, lost, up, down, alive, torn,
                       partial, skewed, booted>>
        /\ pc' = "failed" /\ pc = "sync"
    BY DEF ReadSyncFails, pipeVars
  <1>2. ProbeTypeOK'
    BY <1>1 DEF ProbeTypeOK
  <1>. QED
    BY <1>1, <1>2 DEF BurstsAreNumbered, DelayIsOn, FramesAreKnown, RetriesArePaced, WholeReads,
       Unused, BurstsAreApart, GoodMeansDone

\* The next frame of the burst follows those before it, and is paced if the burst
\* is not the first.
LEMMA SendPingInv ==
    ASSUME ProbeInv, SendPing
    PROVE  ProbeInv'
  <1>. USE DEF ProbeInv
  <1>1. /\ UNCHANGED <<net, session, attempt, burst, delay, seen, lost, down, alive, torn, partial,
                       skewed, booted>>
        /\ pc = "burst" /\ alive
    BY DEF SendPing
  <1>2. /\ up \in Seq(Messages) /\ burst \in 0 .. 4 /\ delay \in Nat /\ sent \in 0 .. N
        /\ session \in 1 .. 2 /\ attempt \in 1 .. 2 /\ seen \subseteq 1 .. N
    BY DEF ProbeTypeOK
  <1>3. Fallback > 0 /\ burst = 2 * (session - 1) + attempt
    BY <1>1 DEF BurstsAreNumbered
  <1>4. WholeReads' /\ DelayIsOn'
    BY <1>1 DEF WholeReads, DelayIsOn, SendPing
  <1>5. CASE sent < N
    <2>. DEFINE n == Len(up) + 1
    <2>1. sent' = sent + 1 /\ sent' \in 1 .. N /\ pc' = pc
      BY <1>2, <1>5, ProbeAssumption DEF SendPing
    <2>2. PICK f \in Messages :
            /\ f = Ping(burst, sent', delay)
            /\ f.burst = burst /\ f.idx = sent' /\ f.spaced = (delay > 0)
      <3>1. Ping(burst, sent', delay) \in Messages
        BY <1>2, <2>1, MessageTypes
      <3>. QED
        BY <3>1 DEF Ping
    <2>3. /\ up' \in Seq(Messages)
          /\ DOMAIN up = 1 .. Len(up) /\ Len(up) \in Nat /\ DOMAIN up' = 1 .. n
          /\ \A k \in DOMAIN up : up'[k] = up[k]
          /\ up'[n] = f
      <3>1. up' = Append(up, f)
        BY <1>5, <2>1, <2>2 DEF SendPing
      <3>2. /\ Append(up, f) \in Seq(Messages)
            /\ DOMAIN up = 1 .. Len(up) /\ Len(up) \in Nat
            /\ DOMAIN Append(up, f) = 1 .. Len(up) + 1
            /\ \A k \in DOMAIN up : Append(up, f)[k] = up[k]
            /\ Append(up, f)[Len(up) + 1] = f
        BY <1>2, AppendLemma
      <3>. QED
        BY <3>1, <3>2
    <2>4. \A k \in DOMAIN up' : (k \in DOMAIN up /\ up'[k] = up[k]) \/ (k = n /\ up'[k] = f)
      BY <2>3
    <2>5. n \in Nat /\ \A k \in DOMAIN up : k < n
      BY <2>3
    <2>. HIDE DEF n
    <2>6. ProbeTypeOK'
      BY <1>1, <2>1, <2>3 DEF ProbeTypeOK
    <2>7. FramesAreKnown'
      <3>1. burst \in 1 .. burst
        BY <1>2, <1>3
      <3>. QED
        BY <1>1, <2>1, <2>2, <2>4, <3>1 DEF FramesAreKnown
    <2>8. RetriesArePaced'
      <3>1. burst > 1 => delay > 0
        BY <1>1, <1>3 DEF DelayIsOn
      <3>. QED
        BY <2>2, <2>4, <3>1 DEF RetriesArePaced
    <2>9. BurstsAreNumbered' /\ Unused' /\ GoodMeansDone'
      BY <1>1, <2>1 DEF BurstsAreNumbered, Unused, GoodMeansDone
    <2>10. ASSUME OneBurst PROVE OneBurst'
      <3>1. /\ \A k \in DOMAIN up : up[k].burst = burst /\ up[k].idx <= sent /\ up[k].idx \in 1 .. N
            /\ \A k \in DOMAIN down : IsPong(k) => down[k].idx <= sent /\ down[k].idx \in 1 .. N
            /\ \A i \in seen : i <= sent /\ i \in 1 .. N
        BY <1>2, <2>10 DEF OneBurst, Ordered, FramesAreKnown, IsPong
      <3>2. \A i \in 1 .. N : i <= sent => i < sent' /\ i <= sent' /\ i # sent'
        BY <1>2, <2>1
      <3>3. UpInOrder'
        <4>. SUFFICES ASSUME NEW j \in DOMAIN up', NEW k \in DOMAIN up', j < k
                      PROVE  up'[j].idx < up'[k].idx
          BY DEF UpInOrder
        <4>1. j \in DOMAIN up /\ up'[j] = up[j]
          BY <2>3 DEF n
        <4>2. CASE k \in DOMAIN up
          BY <2>3, <2>10, <4>1, <4>2 DEF OneBurst, Ordered, UpInOrder
        <4>3. CASE k = n /\ up'[k] = f
          BY <2>2, <3>1, <3>2, <4>1, <4>3
        <4>. QED
          BY <2>4, <4>2, <4>3
      <3>4. DownBeforeUp' /\ SeenBeforeUp'
        BY <1>1, <2>2, <2>4, <2>10, <3>1, <3>2 DEF OneBurst, Ordered, DownBeforeUp, SeenBeforeUp, IsPong
      <3>5. DownInOrder' /\ SeenBeforeDown'
        BY <1>1, <2>10 DEF OneBurst, Ordered, DownInOrder, SeenBeforeDown, IsPong
      <3>6. \A k \in DOMAIN up' : up'[k].burst = burst' /\ up'[k].idx <= sent'
        <4>1. sent' <= sent'
          BY <2>1
        <4>. QED
          BY <1>1, <2>2, <2>4, <3>1, <3>2, <4>1
      <3>7. /\ \A k \in DOMAIN down' : down'[k].cmd = "PONG" => down'[k].idx <= sent'
            /\ \A i \in seen' : i <= sent'
        BY <1>1, <3>1, <3>2 DEF IsPong
      <3>8. ASSUME NEW i \in 1 .. N, Missing(i) PROVE Missing(i)'
        <4>1. i \in 1 .. sent' /\ i # sent'
          BY <1>2, <2>1, <3>8 DEF Missing
        <4>. QED
          BY <1>1, <2>2, <2>4, <3>8, <4>1 DEF Missing, IsPong
      <3>. QED
        BY <1>1, <2>10, <3>3, <3>4, <3>5, <3>6, <3>7, <3>8 DEF OneBurst, Ordered, IsPong
    <2>11. BurstsAreApart'
      BY <1>1, <2>1, <2>10 DEF BurstsAreApart
    <2>. QED
      BY <1>4, <2>6, <2>7, <2>8, <2>9, <2>11
  <1>6. CASE ~ (sent < N)
    <2>1. pc' = "collect" /\ UNCHANGED <<up, sent>>
      BY <1>6 DEF SendPing
    <2>2. ProbeTypeOK'
      BY <1>1, <2>1 DEF ProbeTypeOK
    <2>3. /\ FramesAreKnown' /\ RetriesArePaced' /\ BurstsAreNumbered' /\ Unused' /\ GoodMeansDone'
      BY <1>1, <2>1 DEF FramesAreKnown, RetriesArePaced, BurstsAreNumbered, Unused, GoodMeansDone
    <2>4. OneBurst => OneBurst'
      BY <1>1, <2>1 DEF OneBurst, Ordered, UpInOrder, DownInOrder, DownBeforeUp, SeenBeforeDown,
         SeenBeforeUp, Missing, IsPong
    <2>5. BurstsAreApart'
      BY <1>1, <2>1, <2>4 DEF BurstsAreApart
    <2>. QED
      BY <1>4, <2>2, <2>3, <2>5
  <1>. QED
    BY <1>5, <1>6

\* What is counted when the first frame on its way down is read.
LEMMA CountLemma ==
    ASSUME ProbeInv, ReadPong
    PROVE  /\ Head(down) = down[1] /\ 1 \in DOMAIN down
           /\ down[1].cmd # "PONG" => seen' = seen
           /\ down[1].cmd = "PONG" => seen' = seen \cup {down[1].idx} /\ down[1].idx \in 1 .. N
           /\ seen' \subseteq 1 .. N
  <1>1. down \in Seq(Messages) /\ down # <<>> /\ seen \subseteq 1 .. N
    BY DEF ProbeInv, ProbeTypeOK, ReadPong
  <1>2. Head(down) = down[1] /\ 1 \in DOMAIN down
    BY <1>1
  <1>3. seen' = seen \cup {f.idx : f \in {g \in {down[1]} : g.cmd = "PONG"}}
    BY <1>2 DEF ReadPong
  <1>4. down[1].cmd # "PONG" => seen' = seen
    BY <1>3
  <1>5. down[1].cmd = "PONG" => seen' = seen \cup {down[1].idx} /\ down[1].idx \in 1 .. N
    BY <1>2, <1>3 DEF ProbeInv, FramesAreKnown
  <1>. QED
    BY <1>1, <1>2, <1>4, <1>5

\* Counting a PONG keeps the order: it is the first of those to be counted.
LEMMA CountOrdered ==
    ASSUME ProbeInv, ReadPong, Ordered
    PROVE  Ordered' /\ \A i : Missing(i) => Missing(i)'
  <1>1. /\ UNCHANGED <<burst, sent, up>>
        /\ down \in Seq(Messages) /\ down # <<>> /\ down' = Tail(down)
    BY DEF ReadPong, ProbeInv, ProbeTypeOK
  <1>2. Without(down', down, 1) /\ Thinned(down', down) /\ Thinned(up', up)
    <2>1. Without(Tail(down), down, 1)
      BY <1>1, TailThins
    <2>2. up \in Seq(Messages)
      BY DEF ProbeInv, ProbeTypeOK
    <2>. QED
      BY <1>1, <2>1, <2>2, WithoutThins, SameThins
  <1>3. PICK e \in [DOMAIN down' -> DOMAIN down \ {1}] :
          /\ \A k \in DOMAIN down' : down'[k] = down[e[k]]
          /\ \A j, k \in DOMAIN down' : j < k => e[j] < e[k]
    BY <1>2 DEF Without
  <1>4. \A k \in DOMAIN down' : e[k] \in DOMAIN down /\ 1 < e[k]
    BY <1>1, <1>3
  <1>5. 1 \in DOMAIN down /\ seen' \in {seen, seen \cup {down[1].idx}} /\ (seen' # seen => IsPong(1))
    BY CountLemma DEF IsPong
  <1>6. /\ \A k \in DOMAIN up : up'[k].burst = burst' /\ up'[k].idx <= sent'
        /\ \A k \in DOMAIN down' : down'[k].cmd = "PONG" => down'[k].idx <= sent'
        /\ \A i \in seen' : i <= sent'
    BY <1>1, <1>3, <1>4, <1>5 DEF Ordered, IsPong
  <1>7. UpInOrder' /\ DownInOrder' /\ DownBeforeUp'
    BY <1>1, <1>3, <1>4 DEF Ordered, UpInOrder, DownInOrder, DownBeforeUp, IsPong
  <1>8. SeenBeforeDown'
    <2>. SUFFICES ASSUME NEW i \in seen', NEW k \in DOMAIN down', down'[k].cmd = "PONG"
                  PROVE  i < down'[k].idx
      BY DEF SeenBeforeDown, IsPong
    <2>1. CASE i \in seen
      BY <1>3, <1>4, <2>1 DEF Ordered, SeenBeforeDown, IsPong
    <2>2. CASE i = down[1].idx /\ IsPong(1)
      BY <1>3, <1>4, <1>5, <2>2 DEF Ordered, DownInOrder, IsPong
    <2>. QED
      BY <1>5, <2>1, <2>2
  <1>9. SeenBeforeUp'
    BY <1>1, <1>5 DEF Ordered, SeenBeforeUp, DownBeforeUp
  <1>10. ASSUME NEW i, Missing(i) PROVE Missing(i)'
    <2>1. i \notin seen'
      BY <1>5, <1>10 DEF Missing
    <2>. QED
      BY <1>1, <1>3, <1>4, <1>10, <2>1 DEF Missing, IsPong
  <1>. QED
    BY <1>1, <1>6, <1>7, <1>8, <1>9, <1>10 DEF Ordered, IsPong

\* When the PONG was the last of its burst, nothing of the burst is on its way any
\* more and nothing of it was lost.
LEMMA ReadPongInv ==
    ASSUME ProbeInv, ReadPong
    PROVE  ProbeInv'
  <1>. USE DEF ProbeInv
  <1>1. /\ UNCHANGED <<net, session, attempt, burst, delay, sent, lost, up, alive, torn, skewed, booted>>
        /\ pc = "collect" /\ partial' = FALSE
        /\ pc' = IF seen' = 1 .. N THEN "ok" ELSE "collect"
    BY DEF ReadPong
  <1>2. /\ up \in Seq(Messages) /\ down \in Seq(Messages) /\ down # <<>>
    BY DEF ProbeTypeOK, ReadPong
  <1>3. down' \in Seq(Messages) /\ Thinned(down', down) /\ Thinned(up', up)
    <2>1. Tail(down) \in Seq(Messages) /\ Without(Tail(down), down, 1)
      BY <1>2, TailThins
    <2>. QED
      BY <1>1, <1>2, <2>1, WithoutThins, SameThins DEF ReadPong
  <1>4. seen' \subseteq 1 .. N
    BY CountLemma
  <1>5. ProbeTypeOK'
    BY <1>1, <1>3, <1>4 DEF ProbeTypeOK
  <1>6. FramesAreKnown' /\ RetriesArePaced'
    BY <1>1, <1>3, ThinKnown
  <1>7. BurstsAreNumbered' /\ DelayIsOn' /\ WholeReads' /\ Unused'
    BY <1>1 DEF BurstsAreNumbered, DelayIsOn, WholeReads, Unused
  <1>8. ASSUME OneBurst PROVE OneBurst'
    BY <1>1, <1>8, CountOrdered DEF OneBurst
  <1>9. BurstsAreApart'
    BY <1>1, <1>8 DEF BurstsAreApart
  <1>10. ASSUME net # "slow", seen' = 1 .. N PROVE burst \notin lost /\ up = <<>>
    <2>1. OneBurst'
      BY <1>1, <1>8, <1>10 DEF BurstsAreApart
    <2>2. burst \notin lost
      BY <1>1, <1>10, <2>1 DEF OneBurst, Missing
    <2>3. \A k \in DOMAIN up : FALSE
      BY <1>1, <1>10, <2>1 DEF OneBurst, Ordered, SeenBeforeUp, FramesAreKnown
    <2>4. up # <<>> => 1 \in DOMAIN up
      BY <1>2
    <2>. QED
      BY <2>2, <2>3, <2>4
  <1>11. GoodMeansDone'
    BY <1>1, <1>10 DEF GoodMeansDone
  <1>. QED
    BY <1>5, <1>6, <1>7, <1>9, <1>11

\* A part of a frame is read on a slow network only.
LEMMA ReadPartInv ==
    ASSUME ProbeInv, ReadPart
    PROVE  ProbeInv'
  <1>. USE DEF ProbeInv
  <1>1. /\ UNCHANGED <<net, pc, session, attempt, burst, delay, sent, seen, lost, up, down, alive, torn,
                       skewed, booted>>
        /\ partial' = TRUE /\ net = "slow"
    BY DEF ReadPart, pipeVars
  <1>2. ProbeTypeOK'
    BY <1>1 DEF ProbeTypeOK
  <1>. QED
    BY <1>1, <1>2 DEF BurstsAreNumbered, DelayIsOn, FramesAreKnown, RetriesArePaced, WholeReads,
       Unused, BurstsAreApart, GoodMeansDone
-----------------------------------------------------------------------------
(***************************************************************************)
(* What an error leads to                                                  *)
(***************************************************************************)
\* An error of the probe that leaves the reader in step, unless the network is
\* slow, and is only reported when the session is dead or silent.
ErrorState ==
    /\ pc \in {"burst", "collect"}
    /\ UNCHANGED net
    /\ partial' \in BOOLEAN /\ skewed' \in BOOLEAN
    /\ net # "slow" => ~ partial' /\ ~ skewed'
    /\ net # "slow" => ~ alive \/ (up = <<>> /\ down = <<>>)

\* A second burst on the same session is numbered and paced.
LEMMA RetryInv ==
    ASSUME ProbeInv, ErrorState, Retry
    PROVE  ProbeInv'
  <1>. USE DEF ProbeInv
  <1>1. /\ UNCHANGED <<net, session, up, down, alive, torn, booted, lost>>
        /\ attempt = 1 /\ attempt' = 2 /\ delay' = Fallback
        /\ pc' = "burst" /\ burst' = burst + 1 /\ sent' = 0 /\ seen' = {}
    BY DEF Retry, BeginBurst, pipeVars
  <1>2. burst \in 0 .. 4 /\ session \in 1 .. 2 /\ lost \subseteq 1 .. burst
    BY DEF ProbeTypeOK, FramesAreKnown
  <1>3. Fallback > 0 /\ burst = 2 * (session - 1) + attempt
    BY DEF ErrorState, BurstsAreNumbered
  <1>4. burst' \in 1 .. 4 /\ burst' = 2 * (session - 1) + 2 /\ burst' \notin lost
    BY <1>1, <1>2, <1>3
  <1>5. ProbeTypeOK'
    BY <1>1, <1>4, ProbeAssumption DEF ProbeTypeOK, ErrorState
  <1>6. BurstsAreNumbered' /\ DelayIsOn' /\ WholeReads' /\ Unused' /\ GoodMeansDone'
    BY <1>1, <1>3, <1>4 DEF BurstsAreNumbered, DelayIsOn, WholeReads, Unused, GoodMeansDone, ErrorState
  <1>7. FramesAreKnown' /\ RetriesArePaced'
    <2>1. \A x : x \in 1 .. burst => x \in 1 .. burst'
      BY <1>1, <1>2
    <2>. QED
      BY <1>1, <2>1 DEF FramesAreKnown, RetriesArePaced
  <1>8. ASSUME up = <<>>, down = <<>> PROVE OneBurst'
    BY <1>1, <1>4, <1>8 DEF OneBurst, Ordered, UpInOrder, DownInOrder, DownBeforeUp, SeenBeforeDown,
       SeenBeforeUp, IsPong
  <1>9. BurstsAreApart'
    BY <1>1, <1>8 DEF BurstsAreApart, ErrorState
  <1>. QED
    BY <1>5, <1>6, <1>7, <1>9

\* A second session starts with nothing on its way.
LEMMA RespawnInv ==
    ASSUME ProbeInv, ErrorState, NEW e, Respawn(e)
    PROVE  ProbeInv'
  <1>. USE DEF ProbeInv
  <1>1. /\ UNCHANGED <<net, burst, sent, seen, lost>>
        /\ attempt = 2 /\ attempt' = 1 /\ session = 1 /\ session' = 2
        /\ delay' = Fallback /\ pc' = "sync" /\ up' = <<>> /\ down' = <<>>
        /\ alive' = TRUE /\ torn' = FALSE /\ booted' = FALSE
    BY DEF Respawn
  <1>2. Fallback > 0 /\ burst = 2 * (session - 1) + attempt
    BY DEF ErrorState, BurstsAreNumbered
  <1>3. up' \in Seq(Messages) /\ down' \in Seq(Messages) /\ DOMAIN up' = {} /\ DOMAIN down' = {}
    BY <1>1
  <1>4. ProbeTypeOK'
    BY <1>1, <1>3, ProbeAssumption DEF ProbeTypeOK, ErrorState
  <1>5. BurstsAreNumbered' /\ DelayIsOn' /\ WholeReads' /\ GoodMeansDone' /\ BurstsAreApart'
    BY <1>1, <1>2 DEF BurstsAreNumbered, DelayIsOn, WholeReads, GoodMeansDone, BurstsAreApart, ErrorState
  <1>6. FramesAreKnown' /\ RetriesArePaced' /\ Unused'
    BY <1>1, <1>3 DEF FramesAreKnown, RetriesArePaced, Unused
  <1>. QED
    BY <1>4, <1>5, <1>6

\* Nothing is asked of a set-up that gave up.
LEMMA GiveUpInv ==
    ASSUME ProbeInv, ErrorState, NEW e, GiveUp(e)
    PROVE  ProbeInv'
  <1>. USE DEF ProbeInv
  <1>1. /\ UNCHANGED <<net, session, attempt, burst, delay, sent, seen, lost, up, down, alive, torn, booted>>
        /\ pc' = "failed" /\ pc # "ok"
    BY DEF GiveUp, pipeVars, ErrorState
  <1>2. ProbeTypeOK'
    BY <1>1 DEF ProbeTypeOK, ErrorState
  <1>. QED
    BY <1>1, <1>2 DEF BurstsAreNumbered, DelayIsOn, FramesAreKnown, RetriesArePaced, WholeReads,
       Unused, BurstsAreApart, GoodMeansDone, ErrorState

\* Every error of the probe leads to one of the three.
LEMMA ProbeErrorInv ==
    ASSUME ProbeInv, SendFails \/ ReadGarbage \/ ReadEof \/ Timeout
    PROVE  ProbeInv'
  <1>1. ErrorState /\ \E e : ProbeError(e)
    <2>1. /\ pc \in {"burst", "collect"}
          /\ \E e : ProbeError(e)
      BY DEF SendFails, ReadGarbage, ReadEof, Timeout
    <2>2. UNCHANGED net
      BY <2>1 DEF ProbeError, Retry, Respawn, GiveUp
    <2>3. partial \in BOOLEAN /\ skewed \in BOOLEAN /\ (net # "slow" => ~ partial /\ ~ skewed)
      BY DEF ProbeInv, ProbeTypeOK, WholeReads
    <2>4. CASE SendFails \/ ReadEof
      <3>1. (partial' = partial /\ skewed' = skewed) \/ (partial' = FALSE /\ skewed' = FALSE)
        BY <2>4 DEF SendFails, ReadEof, InStep
      <3>2. ~ alive
        BY <2>4 DEF SendFails, ReadEof
      <3>3. partial' \in BOOLEAN /\ skewed' \in BOOLEAN /\ (net # "slow" => ~ partial' /\ ~ skewed')
        <4>1. CASE partial' = partial /\ skewed' = skewed
          BY <2>3, <4>1
        <4>2. CASE partial' = FALSE /\ skewed' = FALSE
          BY <4>2
        <4>. QED
          BY <3>1, <4>1, <4>2
      <3>. QED
        BY <2>1, <2>2, <3>2, <3>3 DEF ErrorState
    <2>5. CASE ReadGarbage
      <3>1. partial' = partial /\ skewed' = skewed /\ net = "slow"
        BY <2>3, <2>5 DEF ReadGarbage
      <3>. QED
        BY <2>1, <2>2, <2>3, <3>1 DEF ErrorState
    <2>6. CASE Timeout
      <3>1. partial' = FALSE /\ skewed' = (skewed \/ partial)
        BY <2>6 DEF Timeout
      <3>2. net # "slow" => up = <<>> /\ down = <<>>
        BY <2>6 DEF Timeout
      <3>3. skewed' \in BOOLEAN /\ (net # "slow" => ~ skewed')
        BY <2>3, <3>1
      <3>. QED
        BY <2>1, <2>2, <3>1, <3>2, <3>3 DEF ErrorState
    <2>. QED
      BY <2>4, <2>5, <2>6
  <1>2. PICK e : Retry \/ Respawn(e) \/ GiveUp(e)
    BY <1>1 DEF ProbeError
  <1>. QED
    BY <1>1, <1>2, RetryInv, RespawnInv, GiveUpInv
-----------------------------------------------------------------------------
\* The invariant is inductive.
LEMMA ProbeInvStep ==
    ProbeInv /\ [Next]_vars => ProbeInv'
  <1>. SUFFICES ASSUME ProbeInv, [Next]_vars PROVE ProbeInv'
    OBVIOUS
  <1>1. CASE UNCHANGED vars
    BY <1>1, NothingMoves
  <1>2. CASE ServerBoot \/ ServerPong \/ LoseFrames \/ KillSession \/ ChildFails
    BY <1>2, ServerBootInv, ServerPongInv, LoseFramesInv, KillSessionInv, ChildFailsInv
  <1>3. CASE ReadSync \/ ReadSyncFails \/ SendPing \/ ReadPong \/ ReadPart
    BY <1>3, ReadSyncInv, ReadSyncFailsInv, SendPingInv, ReadPongInv, ReadPartInv
  <1>4. CASE SendFails \/ ReadGarbage \/ ReadEof \/ Timeout
    BY <1>4, ProbeErrorInv
  <1>. QED
    BY <1>1, <1>2, <1>3, <1>4 DEF Next

\* However long the bursts and on every network, the variables of the link set-up
\* have their types: there are at most two sessions and four bursts.
THEOREM ProbeTypeCorrect ==
    Spec => []ProbeTypeOK
  BY ProbeInit, ProbeInvStep, PTL DEF Spec, ProbeInv

\* Whatever harm a burst came to, each later burst is written with a delay.
THEOREM LaterBurstsArePaced ==
    Spec => []RetriesArePaced
  BY ProbeInit, ProbeInvStep, PTL DEF Spec, ProbeInv

\* A link that is declared good has carried every frame of its last burst, unless
\* the network is slower than the probe waits.
THEOREM GoodLinksLoseNothing ==
    Spec => []GoodMeansNothingLost
  <1>1. ProbeInv => GoodMeansNothingLost
    BY DEF ProbeInv, GoodMeansDone, GoodMeansNothingLost
  <1>. QED
    BY <1>1, ProbeInit, ProbeInvStep, PTL DEF Spec
===============================================================================
