---------------------------- MODULE FirewallProofs ----------------------------
(* Theorems about Firewall, for every value of its constants. *)
EXTENDS Firewall, SequenceTheorems, TLAPS

(***************************************************************************)
(* The commands of install                                                 *)
(***************************************************************************)
\* What a concatenation holds, element by element.
LEMMA Concat ==
    ASSUME NEW S, NEW s \in Seq(S), NEW t \in Seq(S)
    PROVE  /\ s \o t \in Seq(S)
           /\ Len(s \o t) = Len(s) + Len(t)
           /\ \A i \in 1 .. Len(s) : (s \o t)[i] = s[i]
           /\ \A i \in 1 .. Len(t) : (s \o t)[Len(s) + i] = t[i]
  <1>1. /\ s \o t \in Seq(S) /\ Len(s \o t) = Len(s) + Len(t)
        /\ \A i \in 1 .. Len(s) + Len(t) : (s \o t)[i] = IF i <= Len(s) THEN s[i] ELSE t[i - Len(s)]
    BY ConcatProperties
  <1>2. Len(s) \in Nat /\ Len(t) \in Nat
    OBVIOUS
  <1>3. \A i \in 1 .. Len(s) : (s \o t)[i] = s[i]
    BY <1>1, <1>2
  <1>4. \A i \in 1 .. Len(t) : (s \o t)[Len(s) + i] = t[i]
    <2>. SUFFICES ASSUME NEW i \in 1 .. Len(t) PROVE (s \o t)[Len(s) + i] = t[i]
      OBVIOUS
    <2>1. Len(s) + i \in 1 .. Len(s) + Len(t) /\ ~ (Len(s) + i <= Len(s)) /\ (Len(s) + i) - Len(s) = i
      BY <1>2
    <2>. QED
      BY <1>1, <2>1
  <1>. QED
    BY <1>1, <1>3, <1>4

\* The tables, by name.
LEMMA BinsLemma ==
    /\ "iptables" \in Bins
    /\ ~ HasV6 => Bins = {"iptables"}
    /\ HasV6 => Bins = {"iptables", "ip6tables"}
  <1>1. HasV6 => Bins = {"iptables", "ip6tables"}
    BY DEF Bins
  <1>2. ~ HasV6 => Bins = {"iptables"}
    BY DEF Bins
  <1>. QED
    BY <1>1, <1>2

\* A chain has at least the redirect of the subnets and the local escape.
LEMMA ChainLemma ==
    ASSUME NEW b
    PROVE  Chain(b) \in Seq(RuleKinds) /\ Len(Chain(b)) \in Nat /\ Len(Chain(b)) >= 2
  <1>1. <<"tcp", "local">> \in Seq(RuleKinds) /\ <<"local", "tcp">> \in Seq(RuleKinds)
        /\ <<"dns">> \in Seq(RuleKinds) /\ <<>> \in Seq(RuleKinds)
    BY DEF RuleKinds
  <1>2. Len(<<"tcp", "local">>) = 2 /\ Len(<<"local", "tcp">>) = 2 /\ Len(<<"dns">>) = 1 /\ Len(<<>>) = 0
    OBVIOUS
  <1>3. <<"dns">> \o <<"tcp", "local">> \in Seq(RuleKinds) /\ Len(<<"dns">> \o <<"tcp", "local">>) = 3
    BY <1>1, <1>2, Concat
  <1>4. <<>> \o <<"tcp", "local">> \in Seq(RuleKinds) /\ Len(<<>> \o <<"tcp", "local">>) = 2
    BY <1>1, <1>2, Concat
  <1>. QED
    BY <1>1, <1>2, <1>3, <1>4 DEF Chain

Commands == [bin : Bins \cup {"pfctl"},
             op : {"create", "flush", "append", "hook", "load", "enable"},
             rule : RuleKinds \cup {""}]

\* The rules of a chain, appended one by one.
LEMMA AppendsLemma ==
    ASSUME NEW b \in Bins
    PROVE  /\ Appends(b) \in Seq(Commands)
           /\ Len(Appends(b)) = Len(Chain(b))
           /\ \A k \in 1 .. Len(Chain(b)) : Appends(b)[k] = Cmd(b, "append", Chain(b)[k])
  <1>1. /\ Len(Chain(b)) \in Nat /\ DOMAIN Chain(b) = 1 .. Len(Chain(b))
        /\ \A k \in 1 .. Len(Chain(b)) : Chain(b)[k] \in RuleKinds
    BY ChainLemma
  <1>2. \A r \in RuleKinds : Cmd(b, "append", r) \in Commands
    BY DEF Cmd, Commands
  <1>3. Appends(b) \in [1 .. Len(Chain(b)) -> Commands]
    BY <1>1, <1>2 DEF Appends
  <1>. QED
    BY <1>1, <1>3 DEF Appends

\* The command at place i among those on table b.
Place(c, b, i) ==
    /\ c.bin = b
    /\ i = 0 => c.op = "create"
    /\ i = 1 => c.op = "flush"
    /\ i \in 2 .. Len(Chain(b)) + 1 => c.op = "append" /\ c.rule = Chain(b)[i - 1]
    /\ i = Len(Chain(b)) + 2 => c.op = "hook"

\* The commands on one table, by their place.
LEMMA InstallOneLemma ==
    ASSUME NEW b \in Bins
    PROVE  /\ InstallOne(b) \in Seq(Commands)
           /\ Len(InstallOne(b)) = Len(Chain(b)) + 3
           /\ \A i \in 0 .. Len(Chain(b)) + 2 : Place(InstallOne(b)[i + 1], b, i)
  <1>. DEFINE s1 == <<Cmd(b, "create", ""), Cmd(b, "flush", "")>>
              s2 == Appends(b)
              s3 == <<Cmd(b, "hook", "")>>
              n == Len(Chain(b))
              s12 == s1 \o s2
              s == InstallOne(b)
  <1>1. n \in Nat /\ n >= 2 /\ 1 \in Nat /\ 2 \in Nat /\ 2 + n \in Nat
    BY ChainLemma
  <1>2. s1 \in Seq(Commands) /\ Len(s1) = 2 /\ s1[1] = Cmd(b, "create", "") /\ s1[2] = Cmd(b, "flush", "")
    BY DEF Cmd, Commands
  <1>3. s3 \in Seq(Commands) /\ Len(s3) = 1 /\ s3[1] = Cmd(b, "hook", "")
    BY DEF Cmd, Commands
  <1>4. s2 \in Seq(Commands) /\ Len(s2) = n /\ \A k \in 1 .. n : s2[k] = Cmd(b, "append", Chain(b)[k])
    BY AppendsLemma
  <1>5. s = s12 \o s3
    BY DEF InstallOne
  <1>6. /\ s12 \in Seq(Commands) /\ Len(s12) = 2 + n
        /\ \A i \in 1 .. 2 : s12[i] = s1[i]
        /\ \A i \in 1 .. n : s12[2 + i] = s2[i]
    <2>1. s1 \in Seq(Commands) /\ s2 \in Seq(Commands)
      BY <1>2, <1>4
    <2>. HIDE DEF s1, s2, n
    <2>2. /\ s1 \o s2 \in Seq(Commands) /\ Len(s1 \o s2) = Len(s1) + Len(s2)
          /\ \A i \in 1 .. Len(s1) : (s1 \o s2)[i] = s1[i]
          /\ \A i \in 1 .. Len(s2) : (s1 \o s2)[Len(s1) + i] = s2[i]
      BY <2>1, Concat
    <2>. QED
      BY <1>2, <1>4, <2>2
  <1>7. /\ s \in Seq(Commands) /\ Len(s) = n + 3
        /\ \A i \in 1 .. n + 2 : s[i] = s12[i]
        /\ s[n + 3] = s3[1]
    <2>1. s3 \in Seq(Commands) /\ s12 \in Seq(Commands) /\ s = s12 \o s3
      BY <1>3, <1>5, <1>6
    <2>. HIDE DEF s1, s2, s3, n, s, s12
    <2>2. /\ s \in Seq(Commands) /\ Len(s) = Len(s12) + Len(s3)
          /\ \A i \in 1 .. Len(s12) : s[i] = s12[i]
          /\ \A i \in 1 .. Len(s3) : s[Len(s12) + i] = s3[i]
      BY <2>1, Concat
    <2>3. Len(s3) = 1 /\ Len(s12) = n + 2
      <3>1. Len(s12) = 2 + n
        BY <1>6
      <3>2. 2 + n = n + 2
        BY <1>1
      <3>. QED
        BY <1>3, <3>1, <3>2
    <2>4. 1 \in 1 .. Len(s3) /\ Len(s12) + 1 = n + 3
      BY <1>1, <2>3
    <2>5. s[n + 3] = s3[1]
      BY <2>2, <2>4
    <2>. QED
      BY <1>1, <2>2, <2>3, <2>5
  <1>8. s[1] = Cmd(b, "create", "") /\ s[2] = Cmd(b, "flush", "") /\ s[n + 3] = Cmd(b, "hook", "")
    <2>. HIDE DEF s1, s2, s3, n, s, s12
    <2>1. 1 \in 1 .. 2 /\ 2 \in 1 .. 2 /\ 1 \in 1 .. n + 2 /\ 2 \in 1 .. n + 2
      BY <1>1
    <2>2. s[1] = s1[1] /\ s[2] = s1[2]
      BY <1>6, <1>7, <2>1
    <2>. QED
      BY <1>2, <1>3, <1>7, <2>2
  <1>9. \A k \in 1 .. n : s[k + 2] = Cmd(b, "append", Chain(b)[k])
    <2>. HIDE DEF s1, s2, s3, n, s, s12
    <2>1. \A k \in 1 .. n : k + 2 \in 1 .. n + 2 /\ k + 2 = 2 + k
      BY <1>1
    <2>. QED
      BY <1>4, <1>6, <1>7, <2>1
  <1>10. \A i \in 0 .. n + 2 : Place(s[i + 1], b, i)
    <2>. HIDE DEF s
    <2>. SUFFICES ASSUME NEW i \in 0 .. n + 2, NEW c, c = s[i + 1]
                  PROVE  Place(c, b, i)
      OBVIOUS
    <2>1. CASE i = 0
      <3>1. c = Cmd(b, "create", "")
        <4>1. i + 1 = 1
          BY <2>1
        <4>. QED
          BY <1>8, <4>1
      <3>2. c.bin = b /\ c.op = "create"
        <4>1. Cmd(b, "create", "").bin = b /\ Cmd(b, "create", "").op = "create"
          BY DEF Cmd
        <4>. QED
          BY <3>1, <4>1
      <3>. QED
        BY <2>1, <3>2, <1>1 DEF Place
    <2>2. CASE i = 1
      <3>1. c = Cmd(b, "flush", "")
        <4>1. i + 1 = 2
          BY <2>2
        <4>. QED
          BY <1>8, <4>1
      <3>2. c.bin = b /\ c.op = "flush"
        <4>1. Cmd(b, "flush", "").bin = b /\ Cmd(b, "flush", "").op = "flush"
          BY DEF Cmd
        <4>. QED
          BY <3>1, <4>1
      <3>. QED
        BY <2>2, <3>2, <1>1 DEF Place
    <2>3. CASE i \in 2 .. n + 1
      <3>. HIDE DEF n
      <3>1. i - 1 \in 1 .. n /\ (i - 1) + 2 = i + 1
        BY <1>1, <2>3
      <3>2. c = Cmd(b, "append", Chain(b)[i - 1])
        BY <1>9, <3>1
      <3>3. c.bin = b /\ c.op = "append" /\ c.rule = Chain(b)[i - 1]
        BY <3>2 DEF Cmd
      <3>4. i # 0 /\ i # 1 /\ i # n + 2
        BY <1>1, <2>3
      <3>. QED
        BY <3>3, <3>4 DEF Place, n
    <2>4. CASE i = n + 2
      <3>. HIDE DEF n
      <3>1. i + 1 = n + 3 /\ i # 0 /\ i # 1 /\ i \notin 2 .. n + 1
        BY <1>1, <2>4
      <3>2. c = Cmd(b, "hook", "")
        BY <1>8, <3>1
      <3>3. c.bin = b /\ c.op = "hook"
        <4>1. Cmd(b, "hook", "").bin = b /\ Cmd(b, "hook", "").op = "hook"
          BY DEF Cmd
        <4>. QED
          BY <3>2, <4>1
      <3>. QED
        BY <3>1, <3>3 DEF Place, n
    <2>5. i = 0 \/ i = 1 \/ i \in 2 .. n + 1 \/ i = n + 2
      <3>. HIDE DEF n
      <3>. QED
        BY <1>1
    <2>. QED
      BY <2>1, <2>2, <2>3, <2>4, <2>5
  <1>. QED
    BY <1>7, <1>10

\* The tables have their commands one after the other.
LEMMA PlacesLemma ==
    /\ First("iptables") = 1
    /\ First("ip6tables") = Hook("iptables") + 1
    /\ Hook("iptables") = Len(InstallOne("iptables"))
    /\ \A b \in Bins : /\ First(b) \in Nat /\ First(b) >= 1
                       /\ Hook(b) \in Nat /\ Hook(b) = First(b) + Len(Chain(b)) + 2
                       /\ Len(Chain(b)) \in Nat /\ Len(Chain(b)) >= 2
    /\ \A b, c \in Bins : b # c => Hook(b) < First(c) \/ Hook(c) < First(b)
  <1>1. /\ Len(Chain("iptables")) \in Nat /\ Len(Chain("iptables")) >= 2
        /\ Len(InstallOne("iptables")) = Len(Chain("iptables")) + 3
    BY ChainLemma, InstallOneLemma, BinsLemma
  <1>2. First("iptables") = 1 /\ Hook("iptables") = Len(Chain("iptables")) + 3
    BY <1>1 DEF First, Hook
  <1>3. First("ip6tables") = Hook("iptables") + 1
    BY <1>1, <1>2 DEF First
  <1>4. \A b : b \in Bins => b = "iptables" \/ b = "ip6tables"
    BY BinsLemma
  <1>5. \A b : Len(Chain(b)) \in Nat /\ Len(Chain(b)) >= 2
    BY ChainLemma
  <1>6. \A b : Hook(b) = First(b) + Len(Chain(b)) + 2
    BY DEF Hook
  <1>. QED
    BY <1>1, <1>2, <1>3, <1>4, <1>5, <1>6

\* Each command of install is the one of its place on one of the tables.
LEMMA InstallLemma ==
    ASSUME os = "linux", HasV6 \in BOOLEAN
    PROVE  /\ Len(Install) \in Nat /\ Len(Install) >= 1
           /\ \A b \in Bins : Hook(b) <= Len(Install)
           /\ \A s \in 1 .. Len(Install) : \E b \in Bins :
                s \in First(b) .. Hook(b) /\ Place(Install[s], b, s - First(b))
  <1>. DEFINE s4 == InstallOne("iptables")
              s6 == InstallOne("ip6tables")
              n == Len(Chain("iptables"))
              m == Len(Chain("ip6tables"))
  <1>1. Install = InstallChains
    BY DEF Install
  <1>2. /\ s4 \in Seq(Commands) /\ Len(s4) = n + 3 /\ n \in Nat /\ n >= 2
        /\ First("iptables") = 1 /\ Hook("iptables") = n + 3
        /\ \A i \in 0 .. n + 2 : Place(s4[i + 1], "iptables", i)
    <2>1. "iptables" \in Bins
      BY BinsLemma
    <2>. QED
      BY <2>1, InstallOneLemma, ChainLemma, PlacesLemma
  <1>3. ASSUME \A s \in 1 .. n + 3 : Install[s] = s4[s]
        PROVE  \A s \in 1 .. n + 3 : Place(Install[s], "iptables", s - First("iptables"))
    <2>. HIDE DEF s4, n
    <2>. SUFFICES ASSUME NEW s \in 1 .. n + 3
                  PROVE  Place(Install[s], "iptables", s - First("iptables"))
      OBVIOUS
    <2>1. s - 1 \in 0 .. n + 2 /\ (s - 1) + 1 = s
      BY <1>2
    <2>. QED
      BY <1>2, <1>3, <2>1
  <1>4. CASE ~ HasV6
    <2>1. <<>> \in Seq(Commands) /\ Len(<<>>) = 0 /\ 0 \in Nat /\ n + 3 \in Nat
      BY <1>2
    <2>2. InstallChains = s4 \o <<>>
      BY <1>4 DEF InstallChains
    <2>3. Len(Install) = (n + 3) + 0 /\ \A s \in 1 .. n + 3 : Install[s] = s4[s]
      <3>. HIDE DEF s4, n
      <3>1. Len(Install) = Len(s4) + Len(<<>>) /\ \A s \in 1 .. Len(s4) : Install[s] = s4[s]
        <4>1. s4 \in Seq(Commands) /\ <<>> \in Seq(Commands) /\ Install = s4 \o <<>>
          BY <1>1, <1>2, <2>1, <2>2
        <4>. QED
          BY <4>1, Concat
      <3>. QED
        BY <1>2, <2>1, <3>1
    <2>4. Len(Install) = n + 3
      <3>. HIDE DEF s4, n
      <3>. QED
        BY <1>2, <2>3
    <2>5. \A s \in 1 .. n + 3 : Place(Install[s], "iptables", s - First("iptables"))
      BY <1>3, <2>3
    <2>6. Bins = {"iptables"}
      BY <1>4, BinsLemma
    <2>. HIDE DEF s4, n
    <2>. QED
      BY <1>2, <2>4, <2>5, <2>6
  <1>5. CASE HasV6
    <2>1. /\ s6 \in Seq(Commands) /\ Len(s6) = m + 3 /\ m \in Nat /\ m >= 2
          /\ First("ip6tables") = n + 4 /\ Hook("ip6tables") = n + m + 6
          /\ \A i \in 0 .. m + 2 : Place(s6[i + 1], "ip6tables", i)
      <3>1. "ip6tables" \in Bins
        BY <1>5, BinsLemma
      <3>2. /\ s6 \in Seq(Commands) /\ Len(s6) = m + 3 /\ m \in Nat /\ m >= 2
            /\ \A i \in 0 .. m + 2 : Place(s6[i + 1], "ip6tables", i)
        BY <3>1, InstallOneLemma, ChainLemma
      <3>3. First("ip6tables") = (n + 3) + 1 /\ Hook("ip6tables") = First("ip6tables") + m + 2
        BY <1>2, <3>1, PlacesLemma
      <3>. HIDE DEF s4, s6, n, m
      <3>. QED
        BY <1>2, <3>2, <3>3
    <2>2. InstallChains = s4 \o s6
      BY <1>5 DEF InstallChains
    <2>3. /\ Len(Install) = (n + 3) + (m + 3)
          /\ \A s \in 1 .. n + 3 : Install[s] = s4[s]
          /\ \A s \in 1 .. m + 3 : Install[(n + 3) + s] = s6[s]
      <3>1. n + 3 \in Nat /\ m + 3 \in Nat
        BY <1>2, <2>1
      <3>. HIDE DEF s4, s6, n, m
      <3>2. /\ Len(Install) = Len(s4) + Len(s6)
            /\ \A s \in 1 .. Len(s4) : Install[s] = s4[s]
            /\ \A s \in 1 .. Len(s6) : Install[Len(s4) + s] = s6[s]
        <4>1. s4 \in Seq(Commands) /\ s6 \in Seq(Commands) /\ Install = s4 \o s6
          BY <1>1, <1>2, <2>1, <2>2
        <4>. QED
          BY <4>1, Concat
      <3>. QED
        BY <1>2, <2>1, <3>1, <3>2
    <2>4. Len(Install) = n + m + 6
      <3>. HIDE DEF s4, s6, n, m
      <3>. QED
        BY <1>2, <2>1, <2>3
    <2>5. \A s \in 1 .. n + 3 : Place(Install[s], "iptables", s - First("iptables"))
      BY <1>3, <2>3
    <2>6. \A s \in n + 4 .. n + m + 6 : Place(Install[s], "ip6tables", s - First("ip6tables"))
      <3>. HIDE DEF s4, s6, n, m
      <3>. SUFFICES ASSUME NEW s \in n + 4 .. n + m + 6
                    PROVE  Place(Install[s], "ip6tables", s - First("ip6tables"))
        OBVIOUS
      <3>1. /\ s - (n + 4) \in 0 .. m + 2
            /\ (s - (n + 4)) + 1 \in 1 .. m + 3
            /\ (n + 3) + ((s - (n + 4)) + 1) = s
        BY <1>2, <2>1
      <3>2. Install[s] = s6[(s - (n + 4)) + 1]
        BY <2>3, <3>1
      <3>. QED
        BY <2>1, <3>1, <3>2
    <2>7. Bins = {"iptables", "ip6tables"}
      BY <1>5, BinsLemma
    <2>. HIDE DEF s4, s6, n, m
    <2>. QED
      <3>1. Hook("iptables") <= Len(Install) /\ Hook("ip6tables") <= Len(Install)
        BY <1>2, <2>1, <2>4
      <3>2. /\ \A s \in 1 .. n + 3 : s \in First("iptables") .. Hook("iptables")
            /\ \A s \in n + 4 .. n + m + 6 : s \in First("ip6tables") .. Hook("ip6tables")
        BY <1>2, <2>1
      <3>3. \A s \in 1 .. Len(Install) : s \in 1 .. n + 3 \/ s \in n + 4 .. n + m + 6
        BY <1>2, <2>1, <2>4
      <3>4. Len(Install) \in Nat /\ Len(Install) >= 1
        BY <1>2, <2>1, <2>4
      <3>. QED
        BY <2>5, <2>6, <2>7, <3>1, <3>2, <3>3, <3>4
  <1>. QED
    BY <1>4, <1>5

\* On macOS install loads the anchor and enables pf; elsewhere it has no command.
LEMMA AnchorLemma ==
    /\ os = "macos" => Len(Install) = 2 /\ Install[1].op = "load" /\ Install[2].op = "enable"
    /\ os = "other" => Len(Install) = 0
  <1>1. os = "macos" => Install = InstallAnchor
    BY DEF Install
  <1>2. Len(InstallAnchor) = 2 /\ InstallAnchor[1].op = "load" /\ InstallAnchor[2].op = "enable"
    BY DEF InstallAnchor, Cmd
  <1>3. os = "other" => Install = <<>>
    BY DEF Install
  <1>. QED
    BY <1>1, <1>2, <1>3
-----------------------------------------------------------------------------
(***************************************************************************)
(* What the commands do to the tables of the kernel                        *)
(***************************************************************************)
\* An update of one entry of a table of tables.
LEMMA EntryLemma ==
    ASSUME NEW A, NEW B, NEW C, NEW f \in [A -> [B -> C]], NEW a \in A, NEW b \in B, NEW c \in C
    PROVE  /\ [f EXCEPT ![a][b] = c] \in [A -> [B -> C]]
           /\ [f EXCEPT ![a][b] = c][a][b] = c
           /\ \A x \in A, y \in B : x # a \/ y # b => [f EXCEPT ![a][b] = c][x][y] = f[x][y]
  OBVIOUS

\* Chain b of this process is there, or is gone.
ExistsBecomes(b, there) ==
    /\ exists' \in [Bins -> SUBSET Pids]
    /\ (pid \in exists'[b]) <=> there
    /\ \A c \in Bins, p \in Pids : c # b \/ p # pid => (p \in exists'[c] <=> p \in exists[c])
    /\ UNCHANGED <<rules, jumps>>

\* Chain b of this process holds the rules r.
RulesBecome(b, r) ==
    /\ rules' \in [Bins -> [Pids -> Seq(RuleKinds)]]
    /\ rules'[b][pid] = r
    /\ \A c \in Bins, p \in Pids : c # b \/ p # pid => rules'[c][p] = rules[c][p]
    /\ UNCHANGED <<exists, jumps>>

\* OUTPUT jumps n times to chain b of this process.
JumpsBecome(b, n) ==
    /\ jumps' \in [Bins -> [Pids -> Nat]]
    /\ jumps'[b][pid] = n
    /\ \A c \in Bins, p \in Pids : c # b \/ p # pid => jumps'[c][p] = jumps[c][p]
    /\ UNCHANGED <<exists, rules>>

\* -N and -X.
LEMMA ExistsLemma ==
    ASSUME FirewallTypeOK, NEW b \in Bins, UNCHANGED <<rules, jumps>>
    PROVE  /\ exists' = [exists EXCEPT ![b] = @ \cup {pid}] => ExistsBecomes(b, TRUE)
           /\ exists' = [exists EXCEPT ![b] = @ \ {pid}] => ExistsBecomes(b, FALSE)
  <1>1. exists \in [Bins -> SUBSET Pids] /\ pid \in Pids
    BY DEF FirewallTypeOK
  <1>2. ASSUME exists' = [exists EXCEPT ![b] = @ \cup {pid}]
        PROVE  ExistsBecomes(b, TRUE)
    BY <1>1, <1>2 DEF ExistsBecomes
  <1>3. ASSUME exists' = [exists EXCEPT ![b] = @ \ {pid}]
        PROVE  ExistsBecomes(b, FALSE)
    BY <1>1, <1>3 DEF ExistsBecomes
  <1>. QED
    BY <1>2, <1>3

\* -F and -A.
LEMMA RulesLemma ==
    ASSUME FirewallTypeOK, NEW b \in Bins, NEW r \in Seq(RuleKinds), UNCHANGED <<exists, jumps>>,
           rules' = [rules EXCEPT ![b][pid] = r]
    PROVE  RulesBecome(b, r)
  <1>1. rules \in [Bins -> [Pids -> Seq(RuleKinds)]] /\ pid \in Pids
    BY DEF FirewallTypeOK
  <1>. QED
    BY <1>1, EntryLemma DEF RulesBecome

\* -I and -D.
LEMMA JumpsLemma ==
    ASSUME FirewallTypeOK, NEW b \in Bins, NEW n \in Nat, UNCHANGED <<exists, rules>>,
           jumps' = [jumps EXCEPT ![b][pid] = n]
    PROVE  JumpsBecome(b, n)
  <1>1. jumps \in [Bins -> [Pids -> Nat]] /\ pid \in Pids
    BY DEF FirewallTypeOK
  <1>. QED
    BY <1>1, EntryLemma DEF JumpsBecome

\* A command of install on Linux is one of four, each at its place.
InstallEffect(b) ==
    /\ step \in First(b) .. Hook(b)
    /\ UNCHANGED pfVars
    /\ \/ step = First(b) /\ ExistsBecomes(b, TRUE)
       \/ step = First(b) + 1 /\ RulesBecome(b, <<>>)
       \/ /\ step \in First(b) + 2 .. Hook(b) - 1
          /\ RulesBecome(b, Append(rules[b][pid], Chain(b)[step - First(b) - 1]))
       \/ step = Hook(b) /\ JumpsBecome(b, jumps[b][pid] + 1)

\* Every command of install on Linux has one of these effects, on one table.
LEMMA InstallEffectLemma ==
    ASSUME FirewallTypeOK, StepsAreThere, HasV6 \in BOOLEAN, InstallCmd, os = "linux"
    PROVE  \E b \in Bins : InstallEffect(b)
  <1>. DEFINE c == Install[step]
  <1>1. step \in 1 .. Len(Install) /\ Execute(c)
    BY DEF InstallCmd, StepsAreThere
  <1>2. PICK b \in Bins : step \in First(b) .. Hook(b) /\ Place(c, b, step - First(b))
    BY <1>1, InstallLemma
  <1>. HIDE DEF c
  <1>3. /\ First(b) \in Nat /\ Hook(b) \in Nat /\ Hook(b) = First(b) + Len(Chain(b)) + 2
        /\ Len(Chain(b)) \in Nat /\ Chain(b) \in Seq(RuleKinds)
    BY PlacesLemma, ChainLemma
  <1>4. /\ c.bin = b
        /\ step = First(b) => c.op = "create"
        /\ step = First(b) + 1 => c.op = "flush"
        /\ step \in First(b) + 2 .. Hook(b) - 1 =>
             c.op = "append" /\ c.rule = Chain(b)[step - First(b) - 1]
        /\ step = Hook(b) => c.op = "hook"
    BY <1>2, <1>3 DEF Place
  <1>5. /\ rules[b][pid] \in Seq(RuleKinds) /\ jumps[b][pid] \in Nat
        /\ <<>> \in Seq(RuleKinds)
    BY DEF FirewallTypeOK
  <1>6. CASE step = First(b)
    <2>1. Create(b) /\ UNCHANGED pfVars
      BY <1>1, <1>4, <1>6 DEF Execute, Iptables
    <2>. QED
      BY <1>2, <1>6, <2>1, ExistsLemma DEF Create, InstallEffect
  <1>7. CASE step = First(b) + 1
    <2>1. Flush(b) /\ UNCHANGED pfVars
      BY <1>1, <1>4, <1>7 DEF Execute, Iptables
    <2>. QED
      BY <1>2, <1>5, <1>7, <2>1, RulesLemma DEF Flush, InstallEffect
  <1>8. CASE step \in First(b) + 2 .. Hook(b) - 1
    <2>1. Chain(b)[step - First(b) - 1] \in RuleKinds
      BY <1>3, <1>8
    <2>2. Append(rules[b][pid], Chain(b)[step - First(b) - 1]) \in Seq(RuleKinds)
      BY <1>5, <2>1
    <2>3. /\ rules' = [rules EXCEPT ![b][pid] = Append(rules[b][pid], Chain(b)[step - First(b) - 1])]
          /\ UNCHANGED <<exists, jumps>> /\ UNCHANGED pfVars
      BY <1>1, <1>4, <1>8 DEF Execute, Iptables
    <2>. QED
      BY <1>2, <1>8, <2>2, <2>3, RulesLemma DEF InstallEffect
  <1>9. CASE step = Hook(b)
    <2>1. /\ jumps' = [jumps EXCEPT ![b][pid] = jumps[b][pid] + 1]
          /\ UNCHANGED <<exists, rules>> /\ UNCHANGED pfVars
      BY <1>1, <1>4, <1>9 DEF Execute, Iptables
    <2>2. jumps[b][pid] + 1 \in Nat
      BY <1>5
    <2>3. JumpsBecome(b, jumps[b][pid] + 1)
      BY <2>1, <2>2, JumpsLemma
    <2>. QED
      BY <1>2, <1>9, <2>1, <2>3 DEF InstallEffect
  <1>. QED
    BY <1>2, <1>3, <1>6, <1>7, <1>8, <1>9

\* The commands of install on macOS.
LEMMA AnchorEffectLemma ==
    ASSUME StepsAreThere, InstallCmd, os = "macos"
    PROVE  /\ step \in {1, 2} /\ UNCHANGED natVars
           /\ step = 1 => Load(Self) /\ step' = 2 /\ proc' = "installing"
           /\ step = 2 => Enable(Self) /\ proc' = "installed"
  <1>1. step \in 1 .. 2 /\ Len(Install) = 2 /\ Install[1].op = "load" /\ Install[2].op = "enable"
    BY AnchorLemma DEF InstallCmd, StepsAreThere, Unsupported
  <1>2. step \in {1, 2}
    BY <1>1
  <1>3. CASE step = 1
    BY <1>1, <1>3 DEF InstallCmd, Execute, Iptables
  <1>4. CASE step = 2
    BY <1>1, <1>4 DEF InstallCmd, Execute, Iptables
  <1>. QED
    BY <1>2, <1>3, <1>4
-----------------------------------------------------------------------------
(***************************************************************************)
(* Type correctness                                                        *)
(***************************************************************************)
TypeInv == FirewallTypeOK /\ StepsAreThere

\* The constants, one by one.
LEMMA Constants ==
    /\ Systems \subseteq {"linux", "macos", "other"}
    /\ Dns \in BOOLEAN /\ HasV6 \in BOOLEAN /\ EarlySignals \in BOOLEAN
    /\ DrainLimit \in Nat /\ MaxRuns \in Nat /\ MaxKills \in Nat /\ MaxFails \in Nat
  BY FirewallAssumption

\* Initially every variable has its type.
LEMMA TypeInit == Init => TypeInv
  <1>. SUFFICES ASSUME Init PROVE TypeInv
    OBVIOUS
  <1>1. "iptables" \in Bins /\ <<>> \in Seq(RuleKinds)
    BY BinsLemma
  <1>2. FirewallTypeOK
    BY <1>1, Constants DEF Init, PfInit, PfTypeOK, FirewallTypeOK
  <1>3. StepsAreThere
    BY <1>2 DEF Init, PfInit, StepsAreThere, FirewallTypeOK
  <1>. QED
    BY <1>2, <1>3 DEF TypeInv

\* A process starts with the first command of install, if there is one.
LEMMA StartType ==
    ASSUME TypeInv, NEW p \in Pids, Start(p)
    PROVE  TypeInv'
  <1>1. runs' \in [Pids -> 0 .. MaxRuns] /\ runs'[p] > 0
    BY Constants DEF TypeInv, FirewallTypeOK, Start
  <1>2. FirewallTypeOK'
    BY <1>1 DEF TypeInv, FirewallTypeOK, PfTypeOK, Start, natVars, failVars
  <1>3. ~ Unsupported => Len(Install) \in Nat /\ Len(Install) >= 1
    BY Constants, InstallLemma, AnchorLemma DEF Unsupported, TypeInv, FirewallTypeOK
  <1>4. UNCHANGED os => Install' = Install /\ Unsupported' = Unsupported
    BY DEF Install, Unsupported
  <1>5. StepsAreThere'
    BY <1>1, <1>3, <1>4 DEF TypeInv, StepsAreThere, FirewallTypeOK, Start, natVars, Unsupported
  <1>. QED
    BY <1>2, <1>5 DEF TypeInv

\* A process is one of those that were started with its pid.
LEMMA SelfLemma ==
    ASSUME TypeInv, proc # "none"
    PROVE  runs[pid] \in 1 .. MaxRuns /\ Self \in Process /\ pid \in Pids
  BY Constants DEF TypeInv, StepsAreThere, FirewallTypeOK, Self, Process

\* What of the state a change of the tables leaves alone.
TablesOK == /\ exists' \in [Bins -> SUBSET Pids]
            /\ rules' \in [Bins -> [Pids -> Seq(RuleKinds)]]
            /\ jumps' \in [Bins -> [Pids -> Nat]]

\* Changes of one chain keep the type of the tables.
LEMMA TablesType ==
    ASSUME FirewallTypeOK, NEW b \in Bins, NEW r, NEW n, NEW there,
           ExistsBecomes(b, there) \/ RulesBecome(b, r) \/ JumpsBecome(b, n)
    PROVE  TablesOK
  BY DEF FirewallTypeOK, ExistsBecomes, RulesBecome, JumpsBecome, TablesOK

\* A command of install keeps the types, and leads to the next one.
LEMMA InstallCmdType ==
    ASSUME TypeInv, InstallCmd
    PROVE  TypeInv'
  <1>1. /\ step \in 1 .. Len(Install) /\ Len(Install) \in Nat /\ os \in {"linux", "macos"}
        /\ proc = "installing" /\ UNCHANGED <<os, pid, bin, drained, boundVars>>
        /\ IF step = Len(Install) THEN proc' = "installed" /\ UNCHANGED step
                                  ELSE step' = step + 1 /\ UNCHANGED proc
    BY Constants, InstallLemma, AnchorLemma
    DEF TypeInv, StepsAreThere, InstallCmd, Unsupported, FirewallTypeOK
  <1>2. /\ step' \in 1 .. Len(Install) /\ proc' \in {"installing", "installed"}
        /\ Install' = Install
    BY <1>1 DEF Install
  <1>3. CASE os = "linux"
    <2>1. PICK b \in Bins : InstallEffect(b)
      BY <1>3, Constants, InstallEffectLemma DEF TypeInv
    <2>2. TablesOK /\ UNCHANGED pfVars
      BY <2>1, TablesType DEF InstallEffect, TypeInv
    <2>3. FirewallTypeOK'
      <3>1. PfTypeOK'
        BY <2>2 DEF TypeInv, FirewallTypeOK, PfTypeOK, pfVars
      <3>2. UNCHANGED <<os, pid, bin, drained, runs, kills, install_fails, remove_fails, end>>
        BY <1>1 DEF boundVars, failVars
      <3>3. step' \in Nat
        BY <1>1, <1>2
      <3>. QED
        BY <1>2, <2>2, <3>1, <3>2, <3>3 DEF TypeInv, FirewallTypeOK, TablesOK
    <2>4. StepsAreThere'
      BY <1>1, <1>2, <1>3, <2>2 DEF TypeInv, StepsAreThere, pfVars, boundVars, Unsupported
    <2>. QED
      BY <2>3, <2>4 DEF TypeInv
  <1>4. CASE os = "macos"
    <2>1. UNCHANGED natVars /\ (Load(Self) \/ Enable(Self))
      BY <1>4, AnchorEffectLemma DEF TypeInv
    <2>2. Self \in Process /\ pid \in Pids /\ runs[pid] \in 0 .. MaxRuns /\ Self[1] = pid /\ Self[2] = runs[pid]
      BY <1>1, SelfLemma, Constants DEF Self
    <2>3. PfTypeOK'
      BY <2>1, <2>2 DEF TypeInv, FirewallTypeOK, PfTypeOK, Load, Enable
    <2>4. FirewallTypeOK'
      BY <1>1, <1>2, <2>1, <2>3 DEF TypeInv, FirewallTypeOK, natVars, boundVars, failVars
    <2>5. StepsAreThere'
      BY <1>1, <1>2, <1>4, <2>1 DEF TypeInv, StepsAreThere, natVars, boundVars, Unsupported
    <2>. QED
      BY <2>4, <2>5 DEF TypeInv
  <1>. QED
    BY <1>1, <1>3, <1>4

\* The steps of the process that run no command.
IdleStep == InstallFails \/ HandleSignals \/ Signal \/ EarlySignal \/ Kill

\* They keep the types.
LEMMA IdleType ==
    ASSUME TypeInv, IdleStep
    PROVE  TypeInv'
  <1>1. "iptables" \in Bins /\ pid \in Pids
    BY BinsLemma DEF TypeInv, FirewallTypeOK
  <1>2. CASE InstallFails \/ Signal
    <2>1. BeginRemove /\ UNCHANGED kernelVars /\ UNCHANGED <<runs, kills, remove_fails, end>>
          /\ ((install_fails' = install_fails + 1 /\ MayFail) \/ UNCHANGED install_fails)
          /\ proc # "none"
      BY <1>2 DEF InstallFails, Signal, boundVars, failVars
    <2>2. FirewallTypeOK'
      BY <1>1, <2>1, Constants
      DEF TypeInv, FirewallTypeOK, PfTypeOK, BeginRemove, kernelVars, natVars, pfVars, MayFail
    <2>3. StepsAreThere'
      BY <2>1 DEF TypeInv, StepsAreThere, BeginRemove, kernelVars, natVars, pfVars, Drain, DeleteAgain
    <2>. QED
      BY <2>2, <2>3 DEF TypeInv
  <1>3. CASE HandleSignals
    <2>1. FirewallTypeOK'
      BY <1>1, <1>3 DEF TypeInv, FirewallTypeOK, PfTypeOK, HandleSignals, kernelVars, natVars, pfVars,
                        boundVars, failVars
    <2>2. StepsAreThere'
      BY <1>3 DEF TypeInv, StepsAreThere, HandleSignals, kernelVars, natVars, pfVars, boundVars
    <2>. QED
      BY <2>1, <2>2 DEF TypeInv
  <1>4. CASE EarlySignal \/ Kill
    <2>1. /\ UNCHANGED kernelVars /\ UNCHANGED <<pid, step, bin, drained, runs, failVars>>
          /\ proc' = "none" /\ kills' \in 0 .. MaxKills
          /\ end' = [end EXCEPT ![pid] = "signal"] \/ end' = [end EXCEPT ![pid] = "killed"]
      BY <1>4, Constants DEF EarlySignal, Kill, Exit, TypeInv, FirewallTypeOK
    <2>2. FirewallTypeOK'
      BY <1>1, <2>1 DEF TypeInv, FirewallTypeOK, PfTypeOK, kernelVars, natVars, pfVars, failVars
    <2>3. StepsAreThere'
      BY <2>1 DEF TypeInv, StepsAreThere, kernelVars, natVars, pfVars
    <2>. QED
      BY <2>2, <2>3 DEF TypeInv
  <1>. QED
    BY <1>2, <1>3, <1>4 DEF IdleStep

\* On to the other table, or out: both keep the types.
LEMMA NextTableType ==
    ASSUME TypeInv, NextTable
    PROVE  /\ proc' \in {proc, "none"} /\ bin' \in Bins /\ step' \in {step, Drain} /\ drained' \in Nat
           /\ end' \in [Pids -> {"never", "signal", "killed", "cleaned"}]
  <1>1. HasV6 => "ip6tables" \in Bins
    BY BinsLemma
  <1>2. CASE HasV6 /\ bin = "iptables"
    BY <1>1, <1>2 DEF TypeInv, FirewallTypeOK, NextTable
  <1>3. CASE ~ (HasV6 /\ bin = "iptables")
    BY <1>3 DEF TypeInv, FirewallTypeOK, NextTable, Exit
  <1>. QED
    BY <1>2, <1>3

\* What a command of a removal that fails changes of the bounds.
LEMMA FailureType ==
    ASSUME TypeInv, RemoveCmdFailure
    PROVE  /\ UNCHANGED <<kernelVars, pid, runs, kills, install_fails>>
           /\ remove_fails' = remove_fails + 1 /\ proc = "removing"
           /\ install_fails + remove_fails' \in 0 .. MaxFails
           /\ {install_fails, remove_fails'} \subseteq Nat
  BY Constants DEF TypeInv, FirewallTypeOK, RemoveCmdFailure, MayFail

\* The commands of a removal on one table.
RemoveStep ==
    DrainJump \/ Drained \/ RemoveFlush \/ DeleteChain \/ DeleteRefused \/ RemoveCmdFails

\* What they do to the tables.
LEMMA RemoveEffect ==
    ASSUME TypeInv
    PROVE  /\ DrainJump => JumpsBecome(bin, jumps[bin][pid] - 1)
           /\ RemoveFlush /\ pid \in exists[bin] => RulesBecome(bin, <<>>)
           /\ DeleteChain => ExistsBecomes(bin, FALSE)
  <1>1. bin \in Bins /\ pid \in Pids /\ jumps[bin][pid] \in Nat /\ <<>> \in Seq(RuleKinds)
    BY DEF TypeInv, FirewallTypeOK
  <1>2. ASSUME DrainJump
        PROVE  JumpsBecome(bin, jumps[bin][pid] - 1)
    <2>1. jumps[bin][pid] - 1 \in Nat
      BY <1>1, <1>2 DEF DrainJump
    <2>2. /\ jumps' = [jumps EXCEPT ![bin][pid] = jumps[bin][pid] - 1]
          /\ UNCHANGED <<exists, rules>>
      BY <1>2 DEF DrainJump
    <2>. QED
      BY <1>1, <2>1, <2>2, JumpsLemma DEF TypeInv
  <1>3. ASSUME RemoveFlush, pid \in exists[bin]
        PROVE  RulesBecome(bin, <<>>)
    <2>1. rules' = [rules EXCEPT ![bin][pid] = <<>>] /\ UNCHANGED <<exists, jumps>>
      BY <1>3 DEF RemoveFlush, Flush
    <2>. QED
      BY <1>1, <2>1, RulesLemma DEF TypeInv
  <1>4. ASSUME DeleteChain
        PROVE  ExistsBecomes(bin, FALSE)
    <2>1. exists' = [exists EXCEPT ![bin] = @ \ {pid}] /\ UNCHANGED <<rules, jumps>>
      BY <1>4 DEF DeleteChain
    <2>. QED
      BY <1>1, <2>1, ExistsLemma DEF TypeInv
  <1>. QED
    BY <1>2, <1>3, <1>4

\* The removal keeps the types.
LEMMA RemoveType ==
    ASSUME TypeInv, RemoveStep
    PROVE  TypeInv'
  <1>1. /\ os = "linux" /\ proc = "removing" /\ step \in 1 .. 4 /\ bin \in Bins /\ pid \in Pids
        /\ UNCHANGED <<os, pfVars, pid, runs, kills, install_fails>>
    BY DEF RemoveStep, DrainJump, Drained, RemoveFlush, DeleteChain, DeleteRefused, RemoveCmdFails,
           Removing, RemoveCmdFailure, TypeInv, StepsAreThere, FirewallTypeOK, Drain, DeleteAgain,
           Delete, FlushStep, kernelVars, boundVars, failVars
  <1>2. /\ proc' \in {"removing", "none"} /\ bin' \in Bins /\ step' \in 1 .. 4 /\ drained' \in Nat
        /\ end' \in [Pids -> {"never", "signal", "killed", "cleaned"}]
    <2>1. CASE NextTable
      BY <1>1, <2>1, NextTableType DEF Drain
    <2>2. CASE ~ NextTable
      BY <1>1, <2>2
      DEF RemoveStep, DrainJump, Drained, RemoveFlush, DeleteChain, DeleteRefused, RemoveCmdFails,
          Removing, boundVars, TypeInv, FirewallTypeOK, Drain, FlushStep, Delete, DeleteAgain
    <2>. QED
      BY <2>1, <2>2
  <1>3. TablesOK
    <2>1. CASE DrainJump
      BY <1>1, <2>1, RemoveEffect, TablesType DEF TypeInv
    <2>2. CASE RemoveFlush /\ pid \in exists[bin]
      BY <1>1, <2>2, RemoveEffect, TablesType DEF TypeInv
    <2>3. CASE DeleteChain
      BY <1>1, <2>3, RemoveEffect, TablesType DEF TypeInv
    <2>4. CASE UNCHANGED natVars
      BY <2>4 DEF TypeInv, FirewallTypeOK, natVars, TablesOK
    <2>5. Drained \/ DeleteRefused \/ RemoveCmdFails \/ (RemoveFlush /\ pid \notin exists[bin])
            => UNCHANGED natVars
      BY DEF Drained, DeleteRefused, RemoveCmdFails, RemoveCmdFailure, RemoveFlush, kernelVars
    <2>6. Drained \/ DeleteRefused \/ RemoveCmdFails \/ RemoveFlush \/ DrainJump \/ DeleteChain
      BY DEF RemoveStep
    <2>. QED
      BY <2>1, <2>2, <2>3, <2>4, <2>5, <2>6
  <1>4. /\ install_fails + remove_fails' \in 0 .. MaxFails
        /\ {install_fails, remove_fails'} \subseteq Nat
    <2>1. CASE RemoveCmdFails
      BY <2>1, FailureType DEF RemoveCmdFails
    <2>2. CASE ~ RemoveCmdFails
      BY <2>2 DEF RemoveStep, DrainJump, Drained, RemoveFlush, DeleteChain, DeleteRefused,
                  boundVars, failVars, TypeInv, FirewallTypeOK
    <2>. QED
      BY <2>1, <2>2
  <1>5. FirewallTypeOK'
    <2>1. PfTypeOK'
      BY <1>1 DEF TypeInv, FirewallTypeOK, PfTypeOK, pfVars
    <2>2. (install_fails + remove_fails \in 0 .. MaxFails /\ {install_fails, remove_fails} \subseteq Nat)'
      BY <1>1, <1>4
    <2>3. step' \in Nat /\ proc' \in {"none", "installing", "installed", "running", "removing"}
      BY <1>2
    <2>. QED
      BY <1>1, <1>2, <1>3, <2>1, <2>2, <2>3 DEF TypeInv, FirewallTypeOK, TablesOK
  <1>6. StepsAreThere'
    BY <1>1, <1>2 DEF TypeInv, StepsAreThere, pfVars, Drain, DeleteAgain
  <1>. QED
    BY <1>5, <1>6 DEF TypeInv

\* The removal on macOS, and that which finds nothing.
RemoveAnchorStep == NothingToRemove \/ RemoveAnchor \/ ReleaseToken

\* It keeps the types.
LEMMA RemoveAnchorType ==
    ASSUME TypeInv, RemoveAnchorStep
    PROVE  TypeInv'
  <1>1. /\ os # "linux" /\ proc = "removing" /\ pid \in Pids
        /\ UNCHANGED <<os, natVars, pid, bin, drained, runs, kills, install_fails>>
        /\ step' \in {step, 2} /\ proc' \in {"removing", "none"}
        /\ end' \in [Pids -> {"never", "signal", "killed", "cleaned"}]
    BY DEF RemoveAnchorStep, NothingToRemove, RemoveAnchor, ReleaseToken, RemoveCmdFailure, Exit,
           TypeInv, FirewallTypeOK, kernelVars, failVars
  <1>2. /\ install_fails + remove_fails' \in 0 .. MaxFails
        /\ {install_fails, remove_fails'} \subseteq Nat
    <2>1. CASE RemoveCmdFailure
      BY <2>1, FailureType
    <2>2. CASE ~ RemoveCmdFailure
      BY <2>2 DEF RemoveAnchorStep, NothingToRemove, RemoveAnchor, ReleaseToken, failVars,
                  TypeInv, FirewallTypeOK
    <2>. QED
      BY <2>1, <2>2
  <1>3. UNCHANGED pfVars \/ (os = "macos" /\ (FlushAnchor(Self) \/ Disable(Self)))
    <2>1. NothingToRemove => UNCHANGED pfVars
      BY DEF NothingToRemove, kernelVars
    <2>2. RemoveAnchor => os = "macos" /\ (FlushAnchor(Self) \/ UNCHANGED pfVars)
      BY DEF RemoveAnchor, RemoveCmdFailure, kernelVars
    <2>3. ReleaseToken => os = "macos" /\ (Disable(Self) \/ UNCHANGED pfVars)
      BY DEF ReleaseToken, RemoveCmdFailure, kernelVars
    <2>. QED
      BY <2>1, <2>2, <2>3 DEF RemoveAnchorStep
  <1>4. /\ PfTypeOK'
        /\ os # "macos" => UNCHANGED pfVars
    <2>1. 0 \in 0 .. MaxRuns
      BY Constants
    <2>. QED
      <3>1. PfTypeOK
        BY DEF TypeInv, FirewallTypeOK
      <3>2. CASE UNCHANGED pfVars
        BY <3>1, <3>2 DEF PfTypeOK, pfVars
      <3>3. CASE os = "macos" /\ FlushAnchor(Self)
        BY <2>1, <3>1, <3>3 DEF PfTypeOK, FlushAnchor
      <3>4. CASE os = "macos" /\ Disable(Self)
        BY <3>1, <3>4 DEF PfTypeOK, Disable
      <3>. QED
        BY <1>3, <3>2, <3>3, <3>4
  <1>5. FirewallTypeOK'
    BY <1>1, <1>2, <1>4 DEF TypeInv, FirewallTypeOK, natVars
  <1>6. StepsAreThere'
    BY <1>1, <1>4 DEF TypeInv, StepsAreThere, natVars, pfVars
  <1>. QED
    BY <1>5, <1>6 DEF TypeInv

\* The steps, by what they do.
LEMMA NextLemma ==
    Next => (\E p \in Pids : Start(p)) \/ InstallCmd \/ IdleStep \/ RemoveStep \/ RemoveAnchorStep
  BY DEF Next, IdleStep, RemoveStep, RemoveAnchorStep

\* Every step keeps the types.
LEMMA TypeStep ==
    ASSUME TypeInv, [Next]_vars
    PROVE  TypeInv'
  <1>1. CASE UNCHANGED vars
    <2>1. Install' = Install /\ Unsupported' = Unsupported
      BY <1>1 DEF vars, kernelVars, Install, Unsupported
    <2>2. FirewallTypeOK'
      BY <1>1 DEF vars, kernelVars, natVars, pfVars, procVars, boundVars, failVars, TypeInv, FirewallTypeOK,
                  PfTypeOK
    <2>3. StepsAreThere'
      BY <1>1, <2>1 DEF vars, kernelVars, natVars, pfVars, procVars, boundVars, TypeInv, StepsAreThere
    <2>. QED
      BY <2>2, <2>3 DEF TypeInv
  <1>2. CASE Next
    BY <1>2, NextLemma, StartType, InstallCmdType, IdleType, RemoveType, RemoveAnchorType
  <1>. QED
    BY <1>1, <1>2

\* Every variable always has its type, and a process only works on commands
\* there are, on the tables of its own system.
THEOREM FirewallTypeCorrect == Spec => []FirewallTypeOK
  <1>1. TypeInv => FirewallTypeOK
    BY DEF TypeInv
  <1>. QED
    BY <1>1, TypeInit, TypeStep, PTL DEF Spec
-----------------------------------------------------------------------------
(***************************************************************************)
(* What install builds                                                     *)
(***************************************************************************)
\* The inductive invariant without the part that is in TypeInv.
Inv == TypeInv /\ InstallGoesOn /\ JumpsAreCounted /\ HookedIsWhole

\* Initially there is no chain, no jump and no process.
LEMMA InstallInit == Init => Inv
  <1>. SUFFICES ASSUME Init PROVE Inv
    OBVIOUS
  <1>1. TypeInv
    BY TypeInit
  <1>. QED
    BY <1>1 DEF Inv, InstallGoesOn, JumpsAreCounted, HookedIsWhole, Init

\* Chains are sequences of as many rules, each its own.
LEMMA ChainEqual ==
    ASSUME NEW b, NEW r \in Seq(RuleKinds), Len(r) = Len(Chain(b)),
           \A k \in DOMAIN r : r[k] = Chain(b)[k]
    PROVE  r = Chain(b)
  <1>1. Chain(b) \in Seq(RuleKinds) /\ DOMAIN r = 1 .. Len(r)
    BY ChainLemma
  <1>. QED
    BY <1>1, SeqEqual

\* A process that starts has hooked nothing up, and its pid has one jump at most
\* for each process before.
LEMMA StartInv ==
    ASSUME Inv, NEW q \in Pids, Start(q)
    PROVE  (InstallGoesOn /\ JumpsAreCounted /\ HookedIsWhole)'
  <1>0. TypeInv /\ TypeInv'
    BY StartType DEF Inv
  <1>1. /\ UNCHANGED <<os, natVars, anchor, tokens>> /\ proc = "none" /\ proc' = "installing"
        /\ pid' = q /\ step' = 1 /\ state' = {}
        /\ runs'[q] = runs[q] + 1 /\ \A p \in Pids \ {q} : runs'[p] = runs[p]
        /\ \A p \in Pids : runs[p] \in Nat /\ runs'[p] \in Nat
    BY <1>0, Constants DEF Start, TypeInv, FirewallTypeOK
  <1>2. At' = 1
    BY <1>1 DEF At
  <1>3. InstallGoesOn'
    <2>1. \A b \in Bins : ~ (1 > First(b)) /\ ~ (1 > First(b) + 1) /\ ~ (1 > Hook(b))
      BY PlacesLemma
    <2>2. \A b \in Bins : Built(b)'
      BY <1>2, <2>1 DEF Built
    <2>. QED
      BY <1>1, <1>2, <2>2 DEF InstallGoesOn
  <1>4. \A b \in Bins, p \in Pids : jumps[b][p] \in Nat /\ jumps[b][p] <= runs[p]
    BY <1>0 DEF Inv, JumpsAreCounted, TypeInv, FirewallTypeOK
  <1>5. JumpsAreCounted'
    BY <1>1, <1>4 DEF Inv, JumpsAreCounted, natVars
  <1>6. HookedIsWhole'
    BY <1>1, <1>4 DEF Inv, HookedIsWhole, natVars
  <1>. QED
    BY <1>3, <1>5, <1>6

\* A step that leaves the tables alone and goes on with the same process at most.
LEMMA QuietInv ==
    ASSUME Inv, UNCHANGED <<kernelVars, pid, runs>>, proc' # "installing",
           proc' \in {"installed", "running"} => proc \in {"installed", "running"}
    PROVE  (InstallGoesOn /\ JumpsAreCounted /\ HookedIsWhole)'
  <1>1. UNCHANGED <<os, exists, rules, jumps, anchor, tokens, state, pid, runs>>
    BY DEF kernelVars, natVars, pfVars
  <1>2. proc' \in {"installed", "running"} => At' = At /\ Install' = Install
    BY <1>1 DEF At, Install
  <1>3. ASSUME proc' \in {"installed", "running"}
        PROVE  \A b \in Bins : Built(b) => Built(b)'
    BY <1>1, <1>2, <1>3 DEF Built
  <1>4. InstallGoesOn'
    BY <1>1, <1>2, <1>3 DEF Inv, InstallGoesOn, Self
  <1>5. JumpsAreCounted'
    BY <1>1 DEF Inv, JumpsAreCounted
  <1>6. HookedIsWhole'
    BY <1>1 DEF Inv, HookedIsWhole
  <1>. QED
    BY <1>4, <1>5, <1>6

\* The steps that run no command are such steps.
LEMMA IdleInv ==
    ASSUME Inv, IdleStep
    PROVE  (InstallGoesOn /\ JumpsAreCounted /\ HookedIsWhole)'
  <1>1. UNCHANGED <<kernelVars, pid, runs>>
    BY DEF IdleStep, InstallFails, HandleSignals, Signal, EarlySignal, Kill, BeginRemove, boundVars
  <1>2. \/ proc' \in {"removing", "none"}
        \/ proc' = "running" /\ proc = "installed"
    BY DEF IdleStep, InstallFails, HandleSignals, Signal, EarlySignal, Kill, BeginRemove, Exit
  <1>. QED
    BY <1>1, <1>2, QuietInv

\* The two commands on macOS.
LEMMA AnchorInv ==
    ASSUME Inv, InstallCmd, os = "macos"
    PROVE  (InstallGoesOn /\ JumpsAreCounted /\ HookedIsWhole)'
  <1>1. /\ step \in {1, 2} /\ UNCHANGED <<os, exists, rules, jumps, pid, runs>> /\ proc = "installing"
        /\ step = 1 => Load(Self) /\ step' = 2 /\ proc' = "installing"
        /\ step = 2 => Enable(Self) /\ proc' = "installed"
    BY AnchorEffectLemma DEF Inv, TypeInv, InstallCmd, natVars, boundVars
  <1>2. /\ Self[1] = pid /\ Self[2] = runs[pid] /\ Self' = Self /\ pid \in Pids
        /\ Len(Install) = 2 /\ Install' = Install
        /\ anchor \in [Pids -> 0 .. MaxRuns] /\ runs[pid] \in 0 .. MaxRuns
    BY <1>1, AnchorLemma DEF Self, Install, Inv, TypeInv, FirewallTypeOK, PfTypeOK
  <1>3. InstallGoesOn'
    <2>1. CASE step = 1
      <3>1. At = 1 /\ At' = 2
        BY <1>1, <2>1 DEF At
      <3>2. state = {}
        BY <1>1, <3>1 DEF Inv, InstallGoesOn
      <3>3. anchor'[pid] = runs[pid] /\ state' = {}
        BY <1>1, <1>2, <2>1, <3>2 DEF Load
      <3>. QED
        BY <1>1, <3>1, <3>3 DEF InstallGoesOn
    <2>2. CASE step = 2
      <3>1. At = 2 /\ At' = 3
        <4>1. At = step
          BY <1>1 DEF At
        <4>2. At' = Len(Install) + 1
          BY <1>1, <1>2, <2>2 DEF At
        <4>. QED
          BY <1>2, <2>2, <4>1, <4>2
      <3>2. anchor[pid] = runs[pid]
        BY <1>1, <3>1 DEF Inv, InstallGoesOn
      <3>3. anchor'[pid] = runs[pid] /\ state' = {Self} /\ Self \in tokens'
        BY <1>1, <2>2, <3>2 DEF Enable
      <3>. QED
        BY <1>1, <1>2, <3>1, <3>3 DEF InstallGoesOn
    <2>. QED
      BY <1>1, <2>1, <2>2
  <1>4. \A b \in Bins, p \in Pids : p \notin exists[b] /\ jumps[b][p] = 0
    BY DEF Inv, JumpsAreCounted, TypeInv, StepsAreThere
  <1>5. JumpsAreCounted'
    <2>1. runs[pid] > 0
      BY <1>1 DEF Inv, TypeInv, StepsAreThere
    <2>. QED
      BY <1>1, <1>4, <2>1 DEF Inv, JumpsAreCounted
  <1>6. HookedIsWhole'
    BY <1>1 DEF Inv, HookedIsWhole
  <1>. QED
    BY <1>3, <1>5, <1>6

\* The command that was next has been run, and the next one comes after it.
LEMMA AtLemma ==
    ASSUME Inv, InstallCmd, os = "linux"
    PROVE  /\ At = step /\ At' = step + 1 /\ step \in Nat
           /\ UNCHANGED <<os, pid, runs>> /\ pid \in Pids /\ proc = "installing"
           /\ proc' \in {"installing", "installed"}
           /\ proc' = "installing" => step' = step + 1
  <1>1. /\ proc = "installing" /\ UNCHANGED <<os, pid, runs>>
        /\ IF step = Len(Install) THEN proc' = "installed" /\ UNCHANGED step
                                  ELSE step' = step + 1 /\ UNCHANGED proc
        /\ step \in Nat /\ pid \in Pids
    BY DEF InstallCmd, boundVars, Inv, TypeInv, FirewallTypeOK
  <1>2. Install' = Install
    BY <1>1 DEF Install
  <1>3. CASE step = Len(Install)
    <2>1. At' = Len(Install) + 1
      BY <1>1, <1>2, <1>3 DEF At
    <2>. QED
      BY <1>1, <1>3, <2>1 DEF At
  <1>4. CASE step # Len(Install)
    BY <1>1, <1>4 DEF At
  <1>. QED
    BY <1>3, <1>4

\* What the commands so far have made of the chain at hand.
LEMMA BuiltLemma ==
    ASSUME Inv, InstallCmd, os = "linux", NEW b \in Bins, InstallEffect(b)
    PROVE  /\ step > First(b) => pid \in exists[b]
           /\ step > First(b) + 1 =>
                /\ Len(rules[b][pid]) = step - First(b) - 2
                /\ \A k \in DOMAIN rules[b][pid] : rules[b][pid][k] = Chain(b)[k]
           /\ step <= Hook(b)
           /\ jumps[b][pid] < runs[pid]
           /\ rules[b][pid] \in Seq(RuleKinds) /\ jumps[b][pid] \in Nat
           /\ First(b) \in Nat /\ Len(Chain(b)) \in Nat
           /\ Hook(b) = First(b) + Len(Chain(b)) + 2 /\ step \in Nat
  <1>1. /\ At = step /\ proc = "installing" /\ step \in First(b) .. Hook(b) /\ pid \in Pids
        /\ Built(b)
        /\ rules[b][pid] \in Seq(RuleKinds) /\ jumps[b][pid] \in Nat
    BY AtLemma DEF Inv, InstallGoesOn, InstallEffect, TypeInv, FirewallTypeOK
  <1>2. /\ First(b) \in Nat /\ Len(Chain(b)) \in Nat /\ Hook(b) \in Nat
        /\ Hook(b) = First(b) + Len(Chain(b)) + 2
    BY PlacesLemma
  <1>3. step <= Hook(b) /\ step \in Nat
    BY <1>1, <1>2
  <1>4. jumps[b][pid] < runs[pid]
    BY <1>1, <1>3 DEF Inv, JumpsAreCounted
  <1>. QED
    BY <1>1, <1>2, <1>3, <1>4 DEF Built

\* Each command does its part on the table at hand.
LEMMA BuiltHere ==
    ASSUME Inv, InstallCmd, os = "linux", NEW b \in Bins, InstallEffect(b)
    PROVE  Built(b)'
  <1>1. At' = step + 1 /\ UNCHANGED pid
    BY AtLemma
  <1>. DEFINE r == rules[b][pid]
              n == step - First(b) - 2
  <1>2. /\ step > First(b) => pid \in exists[b]
        /\ step > First(b) + 1 => Len(r) = n /\ \A k \in DOMAIN r : r[k] = Chain(b)[k]
        /\ r \in Seq(RuleKinds) /\ First(b) \in Nat /\ step \in Nat /\ step <= Hook(b)
        /\ Hook(b) = First(b) + Len(Chain(b)) + 2 /\ Len(Chain(b)) \in Nat /\ jumps[b][pid] \in Nat
    BY BuiltLemma
  <1>. SUFFICES /\ step + 1 > First(b) => pid \in exists'[b]
                /\ step + 1 > First(b) + 1 =>
                     /\ Len(rules'[b][pid]) = IF step + 1 <= Hook(b) THEN (step + 1) - First(b) - 2
                                                                    ELSE Len(Chain(b))
                     /\ \A k \in DOMAIN rules'[b][pid] : rules'[b][pid][k] = Chain(b)[k]
                /\ step + 1 > Hook(b) => jumps'[b][pid] > 0
    BY <1>1 DEF Built
  <1>3. CASE step = First(b) /\ ExistsBecomes(b, TRUE)
    BY <1>2, <1>3 DEF ExistsBecomes
  <1>4. CASE step = First(b) + 1 /\ RulesBecome(b, <<>>)
    BY <1>2, <1>4 DEF RulesBecome
  <1>5. CASE /\ step \in First(b) + 2 .. Hook(b) - 1
             /\ RulesBecome(b, Append(r, Chain(b)[step - First(b) - 1]))
    <2>. DEFINE e == Chain(b)[step - First(b) - 1]
    <2>1. step > First(b) /\ step > First(b) + 1 /\ step + 1 <= Hook(b)
          /\ n \in Nat /\ n + 1 = step - First(b) - 1 /\ n + 1 \in 1 .. Len(Chain(b))
      BY <1>2, <1>5
    <2>2. Len(r) = n /\ DOMAIN r = 1 .. n /\ \A k \in 1 .. n : r[k] = Chain(b)[k]
      <3>1. r \in Seq(RuleKinds) /\ Len(r) = n /\ \A k \in DOMAIN r : r[k] = Chain(b)[k]
        BY <1>2, <2>1
      <3>. HIDE DEF r, n
      <3>. QED
        BY <3>1
    <2>3. e \in RuleKinds /\ e = Chain(b)[n + 1]
      BY <2>1, ChainLemma
    <2>. HIDE DEF e, r, n
    <2>4. /\ Len(Append(r, e)) = n + 1 /\ DOMAIN Append(r, e) = 1 .. n + 1
          /\ \A k \in 1 .. n : Append(r, e)[k] = r[k]
          /\ Append(r, e)[n + 1] = e
      BY <1>2, <2>1, <2>2, <2>3
    <2>5. \A k \in 1 .. n + 1 : Append(r, e)[k] = Chain(b)[k]
      BY <2>1, <2>2, <2>3, <2>4
    <2>6. rules'[b][pid] = Append(r, e) /\ pid \in exists'[b]
      BY <1>2, <1>5, <2>1 DEF RulesBecome, r, e
    <2>7. (step + 1) - First(b) - 2 = n + 1
      BY <1>2 DEF n
    <2>8. ~ (step + 1 > Hook(b))
      BY <1>2, <2>1
    <2>. QED
      BY <2>1, <2>4, <2>5, <2>6, <2>7, <2>8
  <1>6. CASE step = Hook(b) /\ JumpsBecome(b, jumps[b][pid] + 1)
    <2>1. step > First(b) /\ step > First(b) + 1 /\ ~ (step + 1 <= Hook(b)) /\ n = Len(Chain(b))
      BY <1>2, <1>6
    <2>2. jumps'[b][pid] > 0 /\ rules' = rules /\ exists' = exists
      BY <1>2, <1>6 DEF JumpsBecome
    <2>. QED
      BY <1>2, <2>1, <2>2
  <1>. QED
    BY <1>3, <1>4, <1>5, <1>6 DEF InstallEffect

\* What a command on chain b of this process leaves alone.
LEMMA OthersKept ==
    ASSUME NEW b \in Bins, NEW r, NEW n, NEW there,
           ExistsBecomes(b, there) \/ RulesBecome(b, r) \/ JumpsBecome(b, n)
    PROVE  \A c \in Bins, p \in Pids : c # b \/ p # pid =>
             (p \in exists'[c] <=> p \in exists[c]) /\ rules'[c][p] = rules[c][p] /\ jumps'[c][p] = jumps[c][p]
  BY DEF ExistsBecomes, RulesBecome, JumpsBecome

\* The other table is done already, or has not been begun.
LEMMA BuiltElsewhere ==
    ASSUME Inv, InstallCmd, os = "linux", NEW b \in Bins, InstallEffect(b), NEW c \in Bins, c # b
    PROVE  Built(c)'
  <1>1. /\ At = step /\ At' = step + 1 /\ step \in Nat /\ UNCHANGED pid /\ pid \in Pids
        /\ step \in First(b) .. Hook(b) /\ Built(c)
    BY AtLemma DEF Inv, InstallGoesOn, InstallEffect
  <1>2. /\ First(b) \in Nat /\ Hook(b) \in Nat /\ First(c) \in Nat /\ Hook(c) \in Nat
        /\ Hook(c) >= First(c) + 2
        /\ Hook(c) < First(b) \/ Hook(b) < First(c)
    BY PlacesLemma
  <1>3. /\ (pid \in exists'[c] <=> pid \in exists[c])
        /\ rules'[c][pid] = rules[c][pid] /\ jumps'[c][pid] = jumps[c][pid]
    BY <1>1, OthersKept DEF InstallEffect
  <1>4. CASE Hook(b) < First(c)
    <2>1. ~ (step + 1 > First(c)) /\ ~ (step + 1 > First(c) + 1) /\ ~ (step + 1 > Hook(c))
      BY <1>1, <1>2, <1>4
    <2>. QED
      BY <1>1, <2>1 DEF Built
  <1>5. CASE Hook(c) < First(b)
    <2>1. /\ step > First(c) /\ step > First(c) + 1 /\ step > Hook(c) /\ ~ (step <= Hook(c))
          /\ ~ (step + 1 <= Hook(c))
      BY <1>1, <1>2, <1>5
    <2>2. /\ pid \in exists[c] /\ jumps[c][pid] > 0
          /\ Len(rules[c][pid]) = Len(Chain(c))
          /\ \A k \in DOMAIN rules[c][pid] : rules[c][pid][k] = Chain(c)[k]
      BY <1>1, <2>1 DEF Built
    <2>3. /\ pid \in exists'[c] /\ jumps'[c][pid] > 0
          /\ Len(rules'[c][pid]) = Len(Chain(c))
          /\ \A k \in DOMAIN rules'[c][pid] : rules'[c][pid][k] = Chain(c)[k]
      BY <1>3, <2>2
    <2>. QED
      BY <1>1, <2>1, <2>3 DEF Built
  <1>. QED
    BY <1>2, <1>4, <1>5

\* A command of install on Linux.
LEMMA InstallCmdInv ==
    ASSUME Inv, InstallCmd, os = "linux"
    PROVE  (InstallGoesOn /\ JumpsAreCounted /\ HookedIsWhole)'
  <1>1. PICK b \in Bins : InstallEffect(b)
    BY Constants, InstallEffectLemma DEF Inv, TypeInv
  <1>2. /\ step > First(b) => pid \in exists[b]
        /\ step > First(b) + 1 =>
             /\ Len(rules[b][pid]) = step - First(b) - 2
             /\ \A k \in DOMAIN rules[b][pid] : rules[b][pid][k] = Chain(b)[k]
        /\ jumps[b][pid] < runs[pid] /\ jumps[b][pid] \in Nat /\ rules[b][pid] \in Seq(RuleKinds)
        /\ First(b) \in Nat /\ Hook(b) = First(b) + Len(Chain(b)) + 2 /\ Len(Chain(b)) \in Nat
    BY <1>1, BuiltLemma
  <1>3. /\ step \in Nat /\ UNCHANGED <<os, pid, runs>> /\ pid \in Pids /\ proc = "installing"
        /\ proc' \in {"installing", "installed"}
        /\ proc' = "installing" => step' = step + 1
    BY AtLemma
  <1>4. \A c \in Bins, p \in Pids : c # b \/ p # pid =>
          (p \in exists'[c] <=> p \in exists[c]) /\ rules'[c][p] = rules[c][p] /\ jumps'[c][p] = jumps[c][p]
    BY <1>1, OthersKept DEF InstallEffect
  <1>5. InstallGoesOn'
    <2>1. \A c \in Bins : Built(c)'
      BY <1>1, BuiltHere, BuiltElsewhere
    <2>. QED
      BY <1>3, <2>1 DEF InstallGoesOn
  <1>6. \A c \in Bins, p \in Pids :
          /\ jumps[c][p] <= runs[p] /\ jumps[c][p] \in Nat /\ runs[p] \in Nat
          /\ p = pid /\ step <= Hook(c) => jumps[c][p] < runs[p]
          /\ p \notin exists[c] => jumps[c][p] = 0 /\ rules[c][p] = <<>>
          /\ runs[p] = 1 /\ jumps[c][p] > 0 => rules[c][p] \in {Chain(c), <<>>}
    <2>1. jumps \in [Bins -> [Pids -> Nat]] /\ runs \in [Pids -> 0 .. MaxRuns] /\ MaxRuns \in Nat
      BY Constants DEF Inv, TypeInv, FirewallTypeOK
    <2>2. JumpsAreCounted /\ HookedIsWhole
      BY DEF Inv
    <2>. QED
      BY <1>3, <2>1, <2>2 DEF JumpsAreCounted, HookedIsWhole
  <1>7. \A c \in Bins : Hook(c) \in Nat
    BY PlacesLemma
  <1>8. ASSUME NEW c \in Bins, NEW p \in Pids, c # b \/ p # pid
        PROVE  /\ jumps'[c][p] <= runs'[p]
               /\ proc' = "installing" /\ pid' = p /\ step' <= Hook(c) => jumps'[c][p] < runs'[p]
               /\ p \notin exists'[c] => jumps'[c][p] = 0 /\ rules'[c][p] = <<>>
               /\ runs'[p] = 1 /\ jumps'[c][p] > 0 => rules'[c][p] \in {Chain(c), <<>>}
    BY <1>3, <1>4, <1>6, <1>7, <1>8
  <1>9. /\ jumps'[b][pid] <= runs[pid]
        /\ step + 1 <= Hook(b) => jumps'[b][pid] < runs[pid]
        /\ pid \notin exists'[b] => jumps'[b][pid] = 0 /\ rules'[b][pid] = <<>>
        /\ runs[pid] = 1 /\ jumps'[b][pid] > 0 => rules'[b][pid] \in {Chain(b), <<>>}
    <2>1. CASE step = First(b) /\ ExistsBecomes(b, TRUE)
      BY <1>2, <1>3, <1>6, <2>1 DEF ExistsBecomes
    <2>2. CASE step = First(b) + 1 /\ RulesBecome(b, <<>>)
      BY <1>2, <1>3, <1>6, <2>2 DEF RulesBecome
    <2>3. CASE /\ step \in First(b) + 2 .. Hook(b) - 1
               /\ RulesBecome(b, Append(rules[b][pid], Chain(b)[step - First(b) - 1]))
      <3>1. step > First(b)
        BY <1>2, <1>3, <2>3
      <3>2. jumps' = jumps /\ exists' = exists
        BY <2>3 DEF RulesBecome
      <3>3. runs[pid] = 1 => jumps[b][pid] = 0
        BY <1>2, <1>6, <1>3
      <3>. QED
        <4>1. jumps'[b][pid] = jumps[b][pid] /\ pid \in exists'[b]
          BY <1>2, <3>1, <3>2
        <4>2. jumps[b][pid] <= runs[pid] /\ jumps[b][pid] < runs[pid]
          BY <1>2, <1>3, <1>6
        <4>3. ~ (runs[pid] = 1 /\ jumps'[b][pid] > 0)
          BY <3>3, <4>1
        <4>. QED
          BY <4>1, <4>2, <4>3
    <2>4. CASE step = Hook(b) /\ JumpsBecome(b, jumps[b][pid] + 1)
      <3>1. step > First(b) /\ step > First(b) + 1 /\ step - First(b) - 2 = Len(Chain(b)) /\ ~ (step + 1 <= Hook(b))
        BY <1>2, <2>4
      <3>2. rules[b][pid] = Chain(b)
        BY <1>2, <3>1, ChainEqual
      <3>3. jumps'[b][pid] = jumps[b][pid] + 1 /\ exists' = exists /\ rules' = rules
        BY <2>4 DEF JumpsBecome
      <3>4. jumps[b][pid] + 1 <= runs[pid]
        BY <1>2, <1>3, <1>6
      <3>. QED
        BY <1>2, <3>1, <3>2, <3>3, <3>4
    <2>. QED
      BY <1>1, <2>1, <2>2, <2>3, <2>4 DEF InstallEffect
  <1>10. JumpsAreCounted'
    <2>. SUFFICES ASSUME NEW c \in Bins, NEW p \in Pids
                  PROVE  /\ jumps'[c][p] <= runs'[p]
                         /\ proc' = "installing" /\ pid' = p /\ step' <= Hook(c) => jumps'[c][p] < runs'[p]
                         /\ p \notin exists'[c] => jumps'[c][p] = 0 /\ rules'[c][p] = <<>>
      BY DEF JumpsAreCounted
    <2>1. CASE c = b /\ p = pid
      BY <1>3, <1>9, <2>1
    <2>. QED
      BY <1>8, <2>1
  <1>11. HookedIsWhole'
    <2>. SUFFICES ASSUME NEW c \in Bins, NEW p \in Pids, runs'[p] = 1, jumps'[c][p] > 0
                  PROVE  rules'[c][p] \in {Chain(c), <<>>}
      BY DEF HookedIsWhole
    <2>1. CASE c = b /\ p = pid
      BY <1>3, <1>9, <2>1
    <2>. QED
      BY <1>8, <2>1
  <1>. QED
    BY <1>5, <1>10, <1>11

\* The removal empties chains, unhooks them and deletes those it has unhooked.
LEMMA RemoveInstallInv ==
    ASSUME Inv, RemoveStep
    PROVE  (InstallGoesOn /\ JumpsAreCounted /\ HookedIsWhole)'
  <1>1. /\ proc' \in {"removing", "none"} /\ UNCHANGED <<pid, runs>> /\ bin \in Bins /\ pid \in Pids
    BY DEF RemoveStep, DrainJump, Drained, RemoveFlush, DeleteChain, DeleteRefused, RemoveCmdFails,
           Removing, RemoveCmdFailure, NextTable, Exit, boundVars, Inv, TypeInv, FirewallTypeOK
  <1>2. \A b \in Bins, p \in Pids :
          /\ jumps[b][p] <= runs[p] /\ jumps[b][p] \in Nat /\ runs[p] \in Nat
          /\ p \notin exists[b] => jumps[b][p] = 0 /\ rules[b][p] = <<>>
          /\ runs[p] = 1 /\ jumps[b][p] > 0 => rules[b][p] \in {Chain(b), <<>>}
    BY Constants DEF Inv, JumpsAreCounted, HookedIsWhole, TypeInv, FirewallTypeOK
  <1>3. ASSUME NEW b \in Bins, NEW p \in Pids
        PROVE  /\ jumps'[b][p] <= runs[p] /\ jumps'[b][p] \in Nat
               /\ p \notin exists'[b] => jumps'[b][p] = 0 /\ rules'[b][p] = <<>>
               /\ runs[p] = 1 /\ jumps'[b][p] > 0 => rules'[b][p] \in {Chain(b), <<>>}
    <2>1. CASE DrainJump
      <3>1. jumps[bin][pid] > 0 /\ JumpsBecome(bin, jumps[bin][pid] - 1)
        BY <2>1, RemoveEffect DEF DrainJump, Inv
      <3>2. exists' = exists /\ rules' = rules
        BY <3>1 DEF JumpsBecome
      <3>3. CASE b = bin /\ p = pid
        <4>1. jumps'[b][p] = jumps[b][p] - 1 /\ jumps[b][p] > 0
          BY <3>1, <3>3 DEF JumpsBecome
        <4>. QED
          BY <1>2, <3>2, <4>1
      <3>4. CASE ~ (b = bin /\ p = pid)
        <4>1. jumps'[b][p] = jumps[b][p]
          BY <3>1, <3>4 DEF JumpsBecome
        <4>. QED
          BY <1>2, <3>2, <4>1
      <3>. QED
        BY <3>3, <3>4
    <2>2. CASE RemoveFlush /\ pid \in exists[bin]
      <3>1. RulesBecome(bin, <<>>)
        BY <2>2, RemoveEffect DEF Inv
      <3>2. /\ exists' = exists /\ jumps' = jumps
            /\ rules'[b][p] \in {<<>>, rules[b][p]}
        BY <3>1 DEF RulesBecome
      <3>. QED
        BY <1>2, <3>2
    <2>3. CASE DeleteChain
      <3>1. ExistsBecomes(bin, FALSE) /\ Deletable(bin)
        BY <2>3, RemoveEffect DEF Inv, DeleteChain
      <3>2. rules' = rules /\ jumps' = jumps
        BY <3>1 DEF ExistsBecomes
      <3>3. p \notin exists'[b] => p \notin exists[b] \/ (rules[b][p] = <<>> /\ jumps[b][p] = 0)
        BY <3>1 DEF ExistsBecomes, Deletable
      <3>. QED
        BY <1>2, <3>2, <3>3
    <2>4. CASE UNCHANGED natVars
      BY <1>2, <2>4 DEF natVars
    <2>5. Drained \/ DeleteRefused \/ RemoveCmdFails \/ (RemoveFlush /\ pid \notin exists[bin])
            => UNCHANGED natVars
      BY DEF Drained, DeleteRefused, RemoveCmdFails, RemoveCmdFailure, RemoveFlush, kernelVars
    <2>6. Drained \/ DeleteRefused \/ RemoveCmdFails \/ RemoveFlush \/ DrainJump \/ DeleteChain
      BY DEF RemoveStep
    <2>. QED
      BY <2>1, <2>2, <2>3, <2>4, <2>5, <2>6
  <1>. QED
    BY <1>1, <1>3 DEF InstallGoesOn, JumpsAreCounted, HookedIsWhole

\* The removal on macOS leaves no process installing or serving.
LEMMA RemoveAnchorInv ==
    ASSUME Inv, RemoveAnchorStep
    PROVE  (InstallGoesOn /\ JumpsAreCounted /\ HookedIsWhole)'
  <1>1. UNCHANGED <<exists, rules, jumps, pid, runs>> /\ proc' \in {"removing", "none"}
    BY DEF RemoveAnchorStep, NothingToRemove, RemoveAnchor, ReleaseToken, RemoveCmdFailure, Exit,
           kernelVars, natVars
  <1>. QED
    BY <1>1 DEF Inv, InstallGoesOn, JumpsAreCounted, HookedIsWhole

\* Every step keeps the invariant.
LEMMA InvStep ==
    ASSUME Inv, [Next]_vars
    PROVE  Inv'
  <1>1. TypeInv'
    BY TypeStep DEF Inv
  <1>2. (InstallGoesOn /\ JumpsAreCounted /\ HookedIsWhole)'
    <2>1. CASE UNCHANGED vars
      <3>1. UNCHANGED <<exists, rules, jumps, anchor, tokens, state, proc, pid, step, runs, os>>
        BY <2>1 DEF vars, kernelVars, natVars, pfVars, procVars, boundVars
      <3>2. Install' = Install
        BY <3>1 DEF Install
      <3>3. At' = At /\ Self' = Self
        BY <3>1, <3>2 DEF At, Self
      <3>4. \A b \in Bins : Built(b) => Built(b)'
        BY <3>1, <3>3 DEF Built
      <3>. QED
        BY <3>1, <3>3, <3>4 DEF Inv, InstallGoesOn, JumpsAreCounted, HookedIsWhole
    <2>2. CASE InstallCmd
      <3>1. os = "linux" \/ os = "macos"
        BY <2>2, Constants DEF InstallCmd, Unsupported, Inv, TypeInv, FirewallTypeOK
      <3>. QED
        BY <2>2, <3>1, InstallCmdInv, AnchorInv
    <2>. QED
      BY <2>1, <2>2, NextLemma, StartInv, IdleInv, RemoveInstallInv, RemoveAnchorInv
  <1>. QED
    BY <1>1, <1>2 DEF Inv

\* The invariant holds in every state.
LEMMA InvCorrect == Spec => []Inv
  BY InstallInit, InvStep, PTL DEF Spec

\* What install has done when it is through: its redirect is in force, and whole.
LEMMA InvMeansOwn == Inv => RedirectIsOwn
  <1>. SUFFICES ASSUME Inv, proc \in {"installed", "running"} PROVE RedirectIsOwn
    BY DEF RedirectIsOwn
  <1>1. At = Len(Install) + 1 /\ os \in {"linux", "macos", "other"} /\ HasV6 \in BOOLEAN /\ pid \in Pids
    BY Constants DEF At, Inv, TypeInv, FirewallTypeOK
  <1>2. CASE os = "linux"
    <2>1. ASSUME NEW b \in Bins
          PROVE  jumps[b][pid] > 0 /\ rules[b][pid] = Chain(b)
      <3>1. Hook(b) <= Len(Install) /\ Len(Install) \in Nat /\ Hook(b) \in Nat /\ First(b) \in Nat
            /\ Hook(b) >= First(b) + 2
        BY <1>1, <1>2, InstallLemma, PlacesLemma
      <3>2. At > Hook(b) /\ At > First(b) + 1 /\ ~ (At <= Hook(b))
        BY <1>1, <3>1
      <3>3. Built(b) /\ rules[b][pid] \in Seq(RuleKinds)
        BY <1>1, <1>2 DEF Inv, InstallGoesOn, TypeInv, FirewallTypeOK
      <3>. QED
        BY <3>2, <3>3, ChainEqual DEF Built
    <2>. QED
      BY <1>2, <2>1 DEF RedirectIsOwn
  <1>3. CASE os = "macos"
    <2>1. At = 3
      <3>1. Len(Install) = 2
        BY <1>3, AnchorLemma
      <3>. QED
        BY <1>1, <3>1
    <2>. QED
      BY <1>3, <2>1 DEF Inv, InstallGoesOn, RedirectIsOwn
  <1>4. CASE os = "other"
    BY <1>4 DEF Inv, InstallGoesOn
  <1>. QED
    BY <1>1, <1>2, <1>3, <1>4

\* A client that serves has its own redirect in force, whatever earlier processes
\* with its pid have left: chains that are hooked up at least once and hold the rules
\* once, or its own anchor.
THEOREM ServesItsOwnRedirect == Spec => []RedirectIsOwn
  BY InvCorrect, InvMeansOwn, PTL

\* No packet meets a chain that is half filled, as long as no pid is used twice.
THEOREM HookedChainsAreWhole == Spec => []HookedIsWhole
  <1>1. Inv => HookedIsWhole
    BY DEF Inv
  <1>. QED
    BY <1>1, InvCorrect, PTL
-----------------------------------------------------------------------------
(***************************************************************************)
(* What remove takes back                                                  *)
(***************************************************************************)
\* What is promised of a process that has removed its redirect and exited.
CleanedWell(p) ==
    Cleaned(p) =>
        /\ remove_fails = 0 /\ (os = "macos" => install_fails = 0) => Untouched(p)
        /\ remove_fails <= 1 => \A b \in Bins : Harmless(b, p)

AllCleanedWell == \A p \in Pids : CleanedWell(p)

\* The inductive invariant.
RInv == Inv /\ RemoveGoesOn /\ AllCleanedWell

\* It says of all processes what the checked invariants say.
LEMMA CleanedWellLemma ==
    ASSUME TypeInv
    PROVE  /\ AllCleanedWell => CleanupIsComplete /\ OneFailureIsHarmless /\ FailedCleanupIsHarmless
           /\ CleanupIsComplete /\ OneFailureIsHarmless => AllCleanedWell
  <1>1. CleanupIsComplete /\ OneFailureIsHarmless => AllCleanedWell
    BY DEF AllCleanedWell, CleanedWell, CleanupIsComplete, CleanedUp, OneFailureIsHarmless
  <1>2. AllCleanedWell => CleanupIsComplete /\ OneFailureIsHarmless
    BY DEF AllCleanedWell, CleanedWell, CleanupIsComplete, CleanedUp, OneFailureIsHarmless
  <1>3. ASSUME OneFailureIsHarmless, install_fails + remove_fails <= 1, NEW p \in Pids, Cleaned(p)
        PROVE  ~ Redirects(p)
    <2>1. remove_fails <= 1
      BY <1>3 DEF TypeInv, FirewallTypeOK
    <2>2. \A b \in Bins : jumps[b][p] = 0 \/ rules[b][p] = <<>>
      BY <1>3, <2>1 DEF OneFailureIsHarmless, Harmless
    <2>3. DOMAIN <<>> = {}
      OBVIOUS
    <2>. QED
      BY <2>2, <2>3 DEF Redirects
  <1>. QED
    BY <1>1, <1>2, <1>3 DEF FailedCleanupIsHarmless

\* Initially no process has exited.
LEMMA RemoveInit == Init => RInv
  <1>. SUFFICES ASSUME Init PROVE RInv
    OBVIOUS
  <1>1. Inv
    BY InstallInit
  <1>2. RemoveGoesOn /\ AllCleanedWell
    BY DEF RemoveGoesOn, AllCleanedWell, CleanedWell, Cleaned, Init
  <1>. QED
    BY <1>1, <1>2 DEF RInv

\* What every step but a start leaves alone.
Frame ==
    /\ UNCHANGED <<os, pid, runs>>
    /\ remove_fails' \in Nat /\ install_fails' \in Nat
    /\ remove_fails' >= remove_fails /\ install_fails' >= install_fails
    /\ tokens' \subseteq tokens \cup {Self}
    /\ \A p \in Pids \ {pid} :
         /\ end'[p] = end[p] /\ anchor'[p] = anchor[p]
         /\ \A b \in Bins : /\ p \in exists'[b] <=> p \in exists[b]
                            /\ rules'[b][p] = rules[b][p] /\ jumps'[b][p] = jumps[b][p]

\* The bounds only grow, and only a failure makes them grow.
LEMMA FailsGrow ==
    ASSUME TypeInv, [Next]_vars
    PROVE  /\ remove_fails' \in Nat /\ install_fails' \in Nat
           /\ remove_fails' >= remove_fails /\ install_fails' >= install_fails
  <1>1. {remove_fails', install_fails'} \subseteq Nat /\ {remove_fails, install_fails} \subseteq Nat
    BY TypeStep DEF TypeInv, FirewallTypeOK
  <1>2. /\ remove_fails' \in {remove_fails, remove_fails + 1}
        /\ install_fails' \in {install_fails, install_fails + 1}
    <2>1. CASE Next
      <3>1. ASSUME NEW p \in Pids, Start(p)
            PROVE  UNCHANGED failVars
        BY <3>1 DEF Start
      <3>2. InstallCmd \/ IdleStep =>
              UNCHANGED remove_fails /\ (UNCHANGED install_fails \/ install_fails' = install_fails + 1)
        BY DEF InstallCmd, IdleStep, InstallFails, HandleSignals, Signal, EarlySignal, Kill, boundVars, failVars
      <3>3. RemoveCmdFailure => remove_fails' = remove_fails + 1 /\ UNCHANGED install_fails
        BY DEF RemoveCmdFailure
      <3>4. RemoveStep => UNCHANGED failVars \/ RemoveCmdFailure
        BY DEF RemoveStep, DrainJump, Drained, RemoveFlush, DeleteChain, DeleteRefused, RemoveCmdFails, boundVars
      <3>5. RemoveAnchorStep => UNCHANGED failVars \/ RemoveCmdFailure
        BY DEF RemoveAnchorStep, NothingToRemove, RemoveAnchor, ReleaseToken
      <3>. QED
        BY <2>1, <3>1, <3>2, <3>3, <3>4, <3>5, NextLemma DEF failVars
    <2>2. CASE UNCHANGED vars
      BY <2>2 DEF vars, boundVars, failVars
    <2>. QED
      BY <2>1, <2>2
  <1>. QED
    BY <1>1, <1>2

\* Only the process that is there changes anything, and only what is its own.
LEMMA FrameLemma ==
    ASSUME TypeInv, InstallCmd \/ IdleStep \/ RemoveStep \/ RemoveAnchorStep
    PROVE  Frame
  <1>0. Next
    BY DEF Next, IdleStep, RemoveStep, RemoveAnchorStep
  <1>1. /\ pid \in Pids /\ bin \in Bins /\ end \in [Pids -> {"never", "signal", "killed", "cleaned"}]
        /\ anchor \in [Pids -> 0 .. MaxRuns]
        /\ os \in {"linux", "macos", "other"} /\ HasV6 \in BOOLEAN
    BY Constants DEF TypeInv, FirewallTypeOK, PfTypeOK
  <1>2. UNCHANGED <<os, pid, runs>>
    BY DEF InstallCmd, IdleStep, InstallFails, HandleSignals, Signal, EarlySignal, Kill, BeginRemove,
           RemoveStep, DrainJump, Drained, RemoveFlush, DeleteChain, DeleteRefused, RemoveCmdFails,
           RemoveAnchorStep, NothingToRemove, RemoveAnchor, ReleaseToken, RemoveCmdFailure,
           kernelVars, boundVars
  <1>3. \A p \in Pids \ {pid} : end'[p] = end[p]
    <2>1. \A how : Exit(how) => \A p \in Pids \ {pid} : end'[p] = end[p]
      BY <1>1 DEF Exit
    <2>2. NextTable => UNCHANGED end \/ Exit("cleaned")
      BY DEF NextTable
    <2>3. InstallCmd \/ IdleStep => UNCHANGED end \/ Exit("signal") \/ Exit("killed")
      BY DEF InstallCmd, IdleStep, InstallFails, HandleSignals, Signal, EarlySignal, Kill, boundVars
    <2>4. RemoveStep => UNCHANGED end \/ NextTable
      BY DEF RemoveStep, DrainJump, Drained, RemoveFlush, DeleteChain, DeleteRefused, RemoveCmdFails, boundVars
    <2>5. RemoveAnchorStep => UNCHANGED end \/ Exit("cleaned")
      BY DEF RemoveAnchorStep, NothingToRemove, RemoveAnchor, ReleaseToken
    <2>. QED
      BY <2>1, <2>2, <2>3, <2>4, <2>5
  <1>4. \/ UNCHANGED pfVars
        \/ Load(Self) \/ Enable(Self) \/ FlushAnchor(Self) \/ Disable(Self)
    BY DEF InstallCmd, Execute, IdleStep, InstallFails, HandleSignals, Signal, EarlySignal, Kill,
           RemoveStep, DrainJump, Drained, RemoveFlush, DeleteChain, DeleteRefused, RemoveCmdFails,
           RemoveAnchorStep, NothingToRemove, RemoveAnchor, ReleaseToken, RemoveCmdFailure, kernelVars
  <1>5. /\ tokens' \subseteq tokens \cup {Self}
        /\ \A p \in Pids \ {pid} : anchor'[p] = anchor[p]
    <2>1. Self[1] = pid
      BY DEF Self
    <2>. QED
      BY <1>1, <1>4, <2>1 DEF pfVars, Load, Enable, FlushAnchor, Disable
  <1>6. \A p \in Pids \ {pid}, b \in Bins :
          (p \in exists'[b] <=> p \in exists[b]) /\ rules'[b][p] = rules[b][p] /\ jumps'[b][p] = jumps[b][p]
    <2>1. CASE UNCHANGED natVars
      BY <2>1 DEF natVars
    <2>2. CASE InstallCmd
      <3>1. CASE os = "linux"
        <4>1. PICK b \in Bins : InstallEffect(b)
          BY <1>1, <2>2, <3>1, InstallEffectLemma DEF TypeInv
        <4>. QED
          BY <4>1, OthersKept DEF InstallEffect
      <3>2. CASE os = "macos"
        BY <2>1, <2>2, <3>2, AnchorEffectLemma DEF TypeInv
      <3>. QED
        BY <1>1, <2>2, <3>1, <3>2 DEF InstallCmd, Unsupported
    <2>3. CASE DrainJump \/ DeleteChain \/ (RemoveFlush /\ pid \in exists[bin])
      BY <1>1, <2>3, RemoveEffect, OthersKept
    <2>4. RemoveStep => DrainJump \/ DeleteChain \/ (RemoveFlush /\ pid \in exists[bin]) \/ UNCHANGED natVars
      BY DEF RemoveStep, Drained, DeleteRefused, RemoveCmdFails, RemoveCmdFailure, RemoveFlush, kernelVars
    <2>5. IdleStep \/ RemoveAnchorStep => UNCHANGED natVars
      BY DEF IdleStep, InstallFails, HandleSignals, Signal, EarlySignal, Kill, kernelVars,
             RemoveAnchorStep, NothingToRemove, RemoveAnchor, ReleaseToken, RemoveCmdFailure
    <2>. QED
      BY <2>1, <2>2, <2>3, <2>4, <2>5
  <1>. QED
    BY <1>0, <1>2, <1>3, <1>5, <1>6, FailsGrow DEF Frame

\* What is promised of the others stays true.
LEMMA OthersStayClean ==
    ASSUME RInv, Frame, NEW p \in Pids \ {pid}
    PROVE  CleanedWell(p)'
  <1>. SUFFICES ASSUME (Cleaned(p))'
                PROVE  /\ remove_fails' = 0 /\ (os' = "macos" => install_fails' = 0) => (Untouched(p))'
                       /\ remove_fails' <= 1 => \A b \in Bins : (Harmless(b, p))'
    BY DEF CleanedWell
  <1>1. Cleaned(p) /\ CleanedWell(p) /\ {remove_fails, install_fails} \subseteq Nat
    BY DEF RInv, AllCleanedWell, Cleaned, Frame, Inv, TypeInv, FirewallTypeOK
  <1>2. \A b \in Bins : Harmless(b, p) => (Harmless(b, p))'
    BY DEF Harmless, Frame
  <1>3. Untouched(p) => (Untouched(p))'
    <2>1. <<p, runs[p]>> # Self
      BY DEF Self
    <2>. QED
      BY <2>1 DEF Untouched, Frame
  <1>4. remove_fails' <= 1 => remove_fails <= 1
    BY <1>1 DEF Frame
  <1>5. remove_fails' = 0 => remove_fails = 0
    BY <1>1 DEF Frame
  <1>6. install_fails' = 0 => install_fails = 0
    BY <1>1 DEF Frame
  <1>7. os' = os
    BY DEF Frame
  <1>. QED
    BY <1>1, <1>2, <1>3, <1>4, <1>5, <1>6, <1>7 DEF CleanedWell

\* A new process leaves what is promised of the ended ones as it is.
LEMMA StartCleaned ==
    ASSUME RInv, NEW q \in Pids, Start(q)
    PROVE  RemoveGoesOn' /\ AllCleanedWell'
  <1>1. /\ UNCHANGED <<os, natVars, anchor, tokens, failVars, end>>
        /\ proc = "none" /\ proc' = "installing" /\ pid' = q
        /\ \A p \in Pids \ {q} : runs'[p] = runs[p]
    BY DEF Start, RInv, Inv, TypeInv, FirewallTypeOK
  <1>2. RemoveGoesOn'
    BY <1>1 DEF RemoveGoesOn
  <1>3. ASSUME NEW p \in Pids
        PROVE  CleanedWell(p)'
    <2>. SUFFICES ASSUME (Cleaned(p))'
                  PROVE  CleanedWell(p)'
      BY DEF CleanedWell
    <2>1. p # q /\ Cleaned(p)
      BY <1>1 DEF Cleaned
    <2>2. CleanedWell(p)
      BY DEF RInv, AllCleanedWell
    <2>. QED
      BY <1>1, <2>1, <2>2 DEF CleanedWell, Untouched, Harmless, natVars, failVars
  <1>. QED
    BY <1>2, <1>3 DEF AllCleanedWell

\* A process that is there, or that was killed, has promised nothing yet.
LEMMA NotCleaned ==
    ASSUME UNCHANGED pid, proc' # "none" \/ end'[pid] # "cleaned"
    PROVE  CleanedWell(pid)'
  BY DEF CleanedWell, Cleaned

\* Neither installing nor the steps without a command end a removal.
LEMMA BeforeRemove ==
    ASSUME RInv, InstallCmd \/ IdleStep
    PROVE  RemoveGoesOn' /\ CleanedWell(pid)'
  <1>1. /\ UNCHANGED <<pid, os>> /\ TypeInv
        /\ proc' # "none" \/ end' = [end EXCEPT ![pid] = "signal"] \/ end' = [end EXCEPT ![pid] = "killed"]
    BY DEF InstallCmd, IdleStep, InstallFails, HandleSignals, Signal, EarlySignal, Kill, BeginRemove, Exit,
           kernelVars, RInv, Inv
  <1>2. pid \in Pids /\ end \in [Pids -> {"never", "signal", "killed", "cleaned"}] /\ "iptables" \in Bins
    BY <1>1, BinsLemma DEF TypeInv, FirewallTypeOK
  <1>3. CleanedWell(pid)'
    BY <1>1, <1>2, NotCleaned
  <1>4. RemoveGoesOn'
    <2>1. CASE InstallFails \/ Signal
      <3>1. /\ UNCHANGED <<os, exists, rules, jumps, anchor, tokens, state, pid, runs, remove_fails>>
            /\ proc' = "removing" /\ bin' = "iptables" /\ step' = 1 /\ drained' = 0
        BY <2>1 DEF InstallFails, Signal, BeginRemove, kernelVars, natVars, pfVars, boundVars, failVars
      <3>2. jumps[bin'][pid] + 0 <= runs[pid]
        BY <1>1, <1>2, <3>1, Constants DEF RInv, Inv, JumpsAreCounted, TypeInv, FirewallTypeOK
      <3>3. os = "macos" /\ install_fails' = 0 => state = {Self}
        <4>1. CASE Signal
          BY <4>1, InvMeansOwn DEF Signal, RInv, RedirectIsOwn
        <4>2. CASE InstallFails
          BY <4>2 DEF InstallFails, Unsupported, RInv, Inv, TypeInv, FirewallTypeOK
        <4>. QED
          BY <2>1, <4>1, <4>2
      <3>4. Self' = Self /\ os' = os
        BY <3>1 DEF Self
      <3>5. (os = "linux")' =>
              /\ step' = Drain => jumps'[bin'][pid'] + drained' <= runs'[pid']
              /\ step' # FlushStep /\ ~ (step' > FlushStep) /\ bin' # "ip6tables"
        BY <3>1, <3>2 DEF Drain, FlushStep
      <3>. QED
        BY <3>1, <3>3, <3>4, <3>5 DEF RemoveGoesOn
    <2>2. CASE InstallCmd \/ HandleSignals \/ EarlySignal \/ Kill
      BY <2>2 DEF InstallCmd, HandleSignals, EarlySignal, Kill, Exit, RemoveGoesOn
    <2>. QED
      BY <2>1, <2>2 DEF IdleStep
  <1>. QED
    BY <1>3, <1>4

\* A table is clean when its chain is gone, and harmless when what is left of it
\* redirects nothing.
TableDone(b) ==
    /\ remove_fails = 0 => pid \notin exists[b]
    /\ remove_fails <= 1 => Harmless(b, pid)

\* When a table is done the other one is next, and when both are the process exits.
LEMMA NextTableInv ==
    ASSUME RInv, NextTable, Frame, TypeInv', JumpsAreCounted', os = "linux", proc = "removing",
           NEW c \in Bins, bin = c, TableDone(c)', c = "ip6tables" => TableDone("iptables")'
    PROVE  RemoveGoesOn' /\ CleanedWell(pid)'
  <1>1. UNCHANGED <<os, pid, runs>> /\ pid \in Pids /\ bin \in Bins /\ HasV6 \in BOOLEAN
        /\ runs[pid] \in Nat
    BY Constants DEF Frame, RInv, Inv, TypeInv, FirewallTypeOK
  <1>2. CASE HasV6 /\ bin = "iptables"
    <2>1. bin' = "ip6tables" /\ step' = 1 /\ drained' = 0 /\ UNCHANGED <<proc, end>>
      BY <1>2 DEF NextTable, Drain
    <2>2. jumps'["ip6tables"][pid] <= runs[pid] /\ jumps'["ip6tables"][pid] \in Nat
      BY <1>1, <1>2, BinsLemma DEF JumpsAreCounted, TypeInv, FirewallTypeOK
    <2>3. jumps'["ip6tables"][pid] + 0 <= runs[pid]
      BY <2>2
    <2>4. CleanedWell(pid)'
      BY <1>1, <2>1, NotCleaned
    <2>5. RemoveGoesOn'
      <3>1. TableDone("iptables")'
        BY <1>2
      <3>2. /\ remove_fails' = 0 => pid \notin exists'["iptables"]
            /\ remove_fails' <= 1 => (Harmless("iptables", pid))'
        BY <1>1, <3>1 DEF TableDone
      <3>. QED
        BY <1>1, <2>1, <2>3, <3>2 DEF RemoveGoesOn, Drain, FlushStep
    <2>. QED
      BY <2>4, <2>5
  <1>3. CASE ~ (HasV6 /\ bin = "iptables")
    <2>1. proc' = "none"
      BY <1>3 DEF NextTable, Exit
    <2>2. \A b \in Bins : TableDone(b)'
      <3>1. CASE HasV6
        <4>1. c = "ip6tables" /\ Bins = {"iptables", "ip6tables"}
          BY <1>1, <1>3, <3>1, BinsLemma
        <4>. QED
          BY <4>1
      <3>2. CASE ~ HasV6
        <4>1. Bins = {c}
          BY <1>1, <3>2, BinsLemma
        <4>. QED
          BY <4>1
      <3>. QED
        BY <3>1, <3>2
    <2>3. remove_fails' = 0 => (Untouched(pid))'
      <3>1. anchor'[pid] = 0 /\ tokens' = {}
        BY <1>1 DEF TypeInv, StepsAreThere
      <3>2. \A b \in Bins : remove_fails' = 0 => pid \notin exists'[b]
        BY <1>1, <2>2 DEF TableDone
      <3>3. \A b \in Bins : remove_fails' = 0 => jumps'[b][pid] = 0
        BY <1>1, <3>2 DEF JumpsAreCounted
      <3>. QED
        BY <1>1, <3>1, <3>2, <3>3 DEF Untouched
    <2>4. remove_fails' <= 1 => \A b \in Bins : (Harmless(b, pid))'
      BY <2>2 DEF TableDone
    <2>5. CleanedWell(pid)'
      BY <1>1, <2>3, <2>4 DEF CleanedWell
    <2>. QED
      BY <2>1, <2>5 DEF RemoveGoesOn
  <1>. QED
    BY <1>2, <1>3

\* Each command of the removal does its part on the table at hand.
LEMMA RemoveStepInv ==
    ASSUME RInv, RemoveStep, MaxRuns <= DrainLimit + 1
    PROVE  RemoveGoesOn' /\ CleanedWell(pid)'
  <1>0. Next /\ Frame /\ Inv' /\ TypeInv /\ TypeInv' /\ JumpsAreCounted'
    <2>1. Next
      BY DEF Next, RemoveStep
    <2>. QED
      BY <2>1, FrameLemma, InvStep DEF RInv, Inv
  <1>1. /\ os = "linux" /\ os' = os /\ proc = "removing" /\ pid \in Pids /\ bin \in Bins /\ step \in 1 .. 4
        /\ UNCHANGED <<pid, runs>> /\ runs[pid] \in 0 .. MaxRuns /\ drained \in Nat
        /\ jumps[bin][pid] \in Nat /\ remove_fails \in Nat /\ remove_fails' \in Nat /\ remove_fails' >= remove_fails
    <2>1. os = "linux" /\ proc = "removing"
      BY DEF RemoveStep, DrainJump, Drained, RemoveFlush, DeleteChain, DeleteRefused, RemoveCmdFails,
             Removing, RemoveCmdFailure
    <2>2. step \in 1 .. 4
      BY <1>0, <2>1 DEF TypeInv, StepsAreThere, Drain, DeleteAgain
    <2>3. /\ pid \in Pids /\ bin \in Bins /\ runs[pid] \in 0 .. MaxRuns /\ drained \in Nat
          /\ jumps[bin][pid] \in Nat /\ remove_fails \in Nat
      BY <1>0 DEF TypeInv, FirewallTypeOK
    <2>. QED
      BY <1>0, <2>1, <2>2, <2>3 DEF Frame
  <1>2. PICK c \in Bins : c = bin
    BY <1>1
  <1>3. /\ step = 1 => jumps[c][pid] + drained <= runs[pid]
        /\ step = 2 => jumps[c][pid] = 0 \/ remove_fails > 0
        /\ step > 2 /\ remove_fails = 0 => jumps[c][pid] = 0 /\ rules[c][pid] = <<>>
        /\ step > 2 /\ remove_fails <= 1 => Harmless(c, pid)
        /\ c = "ip6tables" => TableDone("iptables")
    BY <1>1, <1>2 DEF RInv, RemoveGoesOn, Drain, FlushStep, TableDone
  <1>4. UNCHANGED natVars => \A b : TableDone(b) => TableDone(b)'
    BY <1>1 DEF TableDone, Harmless, natVars
  <1>5. CASE DrainJump
    <2>1. /\ step = 1 /\ jumps[c][pid] > 0 /\ drained' = drained + 1 /\ UNCHANGED <<proc, bin, remove_fails>>
          /\ step' = IF drained' > DrainLimit THEN 2 ELSE 1
          /\ JumpsBecome(c, jumps[c][pid] - 1)
      BY <1>0, <1>2, <1>5, RemoveEffect DEF DrainJump, Removing, Drain, FlushStep, boundVars, failVars
    <2>2. /\ jumps'[c][pid] = jumps[c][pid] - 1 /\ exists' = exists /\ rules' = rules
          /\ c # "iptables" => ("iptables" \in Bins => jumps'["iptables"][pid] = jumps["iptables"][pid])
      BY <1>1, <2>1 DEF JumpsBecome
    <2>3. jumps'[c][pid] + drained' <= runs[pid]
      BY <1>1, <1>2, <1>3, <2>1, <2>2
    <2>4. step' = 2 => jumps'[c][pid] = 0
      <3>1. jumps'[c][pid] \in Nat /\ drained' \in Nat
        BY <1>1, <1>2, <2>1, <2>2
      <3>. QED
        BY <1>1, <2>1, <2>3, <3>1, Constants
    <2>5. c = "ip6tables" => TableDone("iptables")'
      BY <1>1, <1>3, <2>1, <2>2, BinsLemma DEF TableDone, Harmless
    <2>6. step' \in {1, 2}
      BY <2>1
    <2>7. RemoveGoesOn'
      BY <1>1, <1>2, <2>1, <2>3, <2>4, <2>5, <2>6 DEF RemoveGoesOn, Drain, FlushStep, TableDone
    <2>. QED
      BY <1>1, <2>1, <2>7, NotCleaned
  <1>6. CASE Drained
    <2>1. /\ jumps[c][pid] = 0 /\ step' = 2 /\ UNCHANGED <<proc, bin, remove_fails>> /\ UNCHANGED natVars
      BY <1>2, <1>6 DEF Drained, Removing, Drain, FlushStep, kernelVars, boundVars, failVars
    <2>2. RemoveGoesOn'
      <3>1. jumps'[c][pid] = 0
        BY <2>1 DEF natVars
      <3>2. c = "ip6tables" => TableDone("iptables")'
        BY <1>3, <1>4, <2>1
      <3>. QED
        BY <1>1, <1>2, <2>1, <3>1, <3>2 DEF RemoveGoesOn, Drain, FlushStep, TableDone
    <2>. QED
      BY <1>1, <2>1, <2>2, NotCleaned
  <1>7. CASE RemoveFlush
    <2>1. step = 2 /\ step' = 3 /\ UNCHANGED <<proc, bin, remove_fails>>
      BY <1>7 DEF RemoveFlush, Removing, FlushStep, Delete, boundVars, failVars
    <2>2. /\ rules'[c][pid] = <<>> /\ jumps'[c][pid] = jumps[c][pid]
          /\ c = "ip6tables" => TableDone("iptables")'
      <3>1. CASE pid \in exists[bin]
        <4>1. RulesBecome(c, <<>>)
          BY <1>0, <1>2, <1>7, <3>1, RemoveEffect
        <4>. QED
          BY <1>1, <1>2, <1>3, <2>1, <4>1, BinsLemma DEF RulesBecome, TableDone, Harmless
      <3>2. CASE pid \notin exists[bin]
        <4>1. UNCHANGED natVars
          BY <1>7, <3>2 DEF RemoveFlush
        <4>2. rules[c][pid] = <<>>
          BY <1>1, <1>2, <3>2 DEF RInv, Inv, JumpsAreCounted
        <4>. QED
          BY <1>3, <1>4, <4>1, <4>2 DEF natVars
      <3>. QED
        BY <3>1, <3>2
    <2>3. RemoveGoesOn'
      BY <1>1, <1>2, <1>3, <2>1, <2>2 DEF RemoveGoesOn, Drain, FlushStep, TableDone, Harmless
    <2>. QED
      BY <1>1, <2>1, <2>3, NotCleaned
  <1>8. CASE DeleteChain
    <2>1. /\ NextTable /\ UNCHANGED remove_fails /\ ExistsBecomes(c, FALSE) /\ Deletable(c)
      BY <1>0, <1>2, <1>8, RemoveEffect DEF DeleteChain, failVars
    <2>2. TableDone(c)'
      BY <1>1, <2>1 DEF ExistsBecomes, Deletable, TableDone, Harmless
    <2>3. c = "ip6tables" => TableDone("iptables")'
      BY <1>1, <1>3, <2>1, BinsLemma DEF ExistsBecomes, TableDone, Harmless
    <2>. QED
      BY <1>0, <1>1, <1>2, <2>1, <2>2, <2>3, NextTableInv
  <1>9. CASE DeleteRefused
    <2>1. /\ ~ Deletable(c) /\ UNCHANGED remove_fails /\ UNCHANGED natVars
          /\ step \in {3, 4}
          /\ IF step = 3 THEN step' = 4 /\ UNCHANGED <<proc, bin>> ELSE NextTable
      BY <1>2, <1>9 DEF DeleteRefused, Removing, Delete, DeleteAgain, kernelVars, failVars
    <2>2. c = "ip6tables" => TableDone("iptables")'
      BY <1>3, <1>4, <2>1
    <2>3. CASE step = 3
      <3>1. RemoveGoesOn'
        BY <1>1, <1>2, <1>3, <2>1, <2>2, <2>3 DEF RemoveGoesOn, Drain, FlushStep, TableDone, Harmless, natVars
      <3>. QED
        BY <1>1, <2>1, <2>3, <3>1, NotCleaned
    <2>4. CASE step = 4
      <3>1. TableDone(c)
        BY <1>3, <2>1, <2>4 DEF TableDone, Deletable
      <3>2. TableDone(c)'
        BY <1>4, <2>1, <3>1
      <3>. QED
        BY <1>0, <1>1, <1>2, <2>1, <2>2, <2>4, <3>2, NextTableInv
    <2>. QED
      BY <2>1, <2>3, <2>4
  <1>10. CASE RemoveCmdFails
    <2>1. /\ remove_fails' = remove_fails + 1 /\ UNCHANGED natVars
          /\ IF step = 4 THEN NextTable ELSE step' = step + 1 /\ UNCHANGED <<proc, bin>>
      BY <1>0, <1>10, FailureType DEF RemoveCmdFails, DeleteAgain, kernelVars
    <2>2. remove_fails' > 0 /\ (remove_fails' <= 1 => remove_fails = 0 /\ remove_fails <= 1)
      BY <1>1, <2>1
    <2>3. c = "ip6tables" => TableDone("iptables")'
      BY <1>3, <1>4, <2>1
    <2>4. step > 1 /\ remove_fails' <= 1 => (Harmless(c, pid))'
      <3>1. step > 1 /\ remove_fails' <= 1 => jumps[c][pid] = 0
        BY <1>1, <1>3, <2>2
      <3>. QED
        BY <1>1, <2>1, <3>1 DEF Harmless, natVars
    <2>5. CASE step # 4
      <3>1. step' \in {2, 3, 4} /\ (step' > 2 => step > 1)
        BY <1>1, <2>1, <2>5
      <3>2. RemoveGoesOn'
        BY <1>1, <1>2, <2>1, <2>2, <2>3, <2>4, <2>5, <3>1 DEF RemoveGoesOn, Drain, FlushStep, TableDone
      <3>. QED
        BY <1>1, <2>1, <2>5, <3>2, NotCleaned
    <2>6. CASE step = 4
      <3>1. TableDone(c)'
        BY <1>1, <2>2, <2>4, <2>6 DEF TableDone
      <3>. QED
        BY <1>0, <1>1, <1>2, <2>1, <2>3, <2>6, <3>1, NextTableInv
    <2>. QED
      BY <2>5, <2>6
  <1>. QED
    BY <1>5, <1>6, <1>7, <1>8, <1>9, <1>10 DEF RemoveStep

\* remove on macOS undoes what STATE remembers; elsewhere there is nothing to undo.
LEMMA RemoveAnchorCleaned ==
    ASSUME RInv, RemoveAnchorStep
    PROVE  RemoveGoesOn' /\ CleanedWell(pid)'
  <1>0. Frame /\ TypeInv /\ TypeInv' /\ Inv'
    <2>1. Next
      BY DEF Next, RemoveAnchorStep
    <2>. QED
      BY <2>1, FrameLemma, InvStep DEF RInv, Inv
  <1>1. /\ os # "linux" /\ proc = "removing" /\ UNCHANGED <<os, pid, runs, natVars>> /\ Self' = Self /\ pid \in Pids
        /\ remove_fails \in Nat /\ remove_fails' \in Nat /\ remove_fails' >= remove_fails
        /\ install_fails \in Nat /\ install_fails' \in Nat /\ install_fails' >= install_fails
    BY <1>0 DEF RemoveAnchorStep, NothingToRemove, RemoveAnchor, ReleaseToken, RemoveCmdFailure, kernelVars,
                Frame, Self, TypeInv, FirewallTypeOK
  <1>2. \A b \in Bins, p \in Pids : p \notin exists'[b] /\ jumps'[b][p] = 0
    BY <1>0, <1>1 DEF Inv, TypeInv, StepsAreThere, JumpsAreCounted
  <1>3. \A b \in Bins : (Harmless(b, pid))'
    BY <1>1, <1>2 DEF Harmless
  <1>4. /\ remove_fails' = 0 => remove_fails = 0
        /\ install_fails' = 0 => install_fails = 0
    BY <1>1
  <1>5. os = "macos" /\ install_fails = 0 /\ remove_fails = 0 => state = {Self} /\ (step # 1 => anchor[pid] = 0)
    BY <1>1 DEF RInv, RemoveGoesOn
  <1>6. anchor'[pid] = 0 /\ Self \notin tokens' => (Untouched(pid))'
    BY <1>1, <1>2 DEF Untouched, Self
  <1>7. CASE NothingToRemove
    <2>1. proc' = "none" /\ state = {}
      BY <1>7 DEF NothingToRemove, Exit
    <2>2. os = "macos" => ~ (remove_fails' = 0 /\ install_fails' = 0)
      BY <1>4, <1>5, <2>1
    <2>3. os # "macos" => anchor'[pid] = 0 /\ tokens' = {}
      BY <1>0, <1>1 DEF TypeInv, StepsAreThere
    <2>4. CleanedWell(pid)'
      BY <1>1, <1>3, <1>6, <2>2, <2>3 DEF CleanedWell
    <2>. QED
      BY <2>1, <2>4 DEF RemoveGoesOn
  <1>8. CASE RemoveAnchor
    <2>1. /\ step = 1 /\ step' = 2 /\ os = "macos" /\ UNCHANGED proc
          /\ FlushAnchor(Self) \/ remove_fails' = remove_fails + 1
      BY <1>8 DEF RemoveAnchor, RemoveCmdFailure
    <2>2. FlushAnchor(Self) => anchor'[pid] = 0 /\ UNCHANGED state
      BY <1>0, <1>1 DEF FlushAnchor, Self, TypeInv, FirewallTypeOK, PfTypeOK
    <2>3. RemoveGoesOn'
      BY <1>1, <1>4, <1>5, <2>1, <2>2 DEF RemoveGoesOn
    <2>. QED
      BY <1>1, <2>1, <2>3, NotCleaned
  <1>9. CASE ReleaseToken
    <2>1. /\ step = 2 /\ proc' = "none" /\ os = "macos"
          /\ Disable(Self) \/ remove_fails' = remove_fails + 1
      BY <1>9 DEF ReleaseToken, RemoveCmdFailure, Exit
    <2>2. remove_fails' = 0 /\ install_fails' = 0 => (Untouched(pid))'
      BY <1>1, <1>4, <1>5, <1>6, <2>1 DEF Disable
    <2>3. CleanedWell(pid)'
      BY <1>1, <1>3, <2>1, <2>2 DEF CleanedWell
    <2>. QED
      BY <2>1, <2>3 DEF RemoveGoesOn
  <1>. QED
    BY <1>7, <1>8, <1>9 DEF RemoveAnchorStep

\* Every step keeps the invariant.
LEMMA RemoveInvStep ==
    ASSUME RInv, [Next]_vars, MaxRuns <= DrainLimit + 1
    PROVE  RInv'
  <1>1. Inv'
    BY InvStep DEF RInv
  <1>2. RemoveGoesOn' /\ AllCleanedWell'
    <2>1. CASE UNCHANGED vars
      BY <2>1 DEF vars, kernelVars, natVars, pfVars, procVars, boundVars, failVars, RInv, RemoveGoesOn,
                  AllCleanedWell, CleanedWell, Cleaned, Untouched, Harmless, Self
    <2>2. CASE InstallCmd \/ IdleStep \/ RemoveStep \/ RemoveAnchorStep
      <3>1. Frame
        BY <2>2, FrameLemma DEF RInv, Inv
      <3>2. RemoveGoesOn' /\ CleanedWell(pid)'
        BY <2>2, BeforeRemove, RemoveStepInv, RemoveAnchorCleaned
      <3>3. \A p \in Pids \ {pid} : CleanedWell(p)'
        BY <3>1, OthersStayClean
      <3>. QED
        BY <3>1, <3>2, <3>3 DEF AllCleanedWell, Frame
    <2>. QED
      BY <2>1, <2>2, NextLemma, StartCleaned
  <1>. QED
    BY <1>1, <1>2 DEF RInv

\* As long as the same pid is not given to more processes than remove_one drains
\* jumps, a cleanup none of whose commands fails leaves nothing on the host.
THEOREM CleanupLeavesNothing ==
    ASSUME MaxRuns <= DrainLimit + 1
    PROVE  Spec => []CleanupIsComplete
  <1>1. RInv => CleanupIsComplete
    BY CleanedWellLemma DEF RInv, Inv
  <1>. QED
    BY <1>1, RemoveInit, RemoveInvStep, PTL DEF Spec

\* On the same condition one command that fails, in the installation or in the
\* removal, never leaves traffic redirected to a client that has gone.
THEOREM OneFailureRedirectsNothing ==
    ASSUME MaxRuns <= DrainLimit + 1
    PROVE  Spec => []FailedCleanupIsHarmless
  <1>1. RInv => FailedCleanupIsHarmless
    BY CleanedWellLemma DEF RInv, Inv
  <1>. QED
    BY <1>1, RemoveInit, RemoveInvStep, PTL DEF Spec

\* The invariant the proofs rest on is the one the model is checked with.
THEOREM FirewallInvariant ==
    ASSUME MaxRuns <= DrainLimit + 1
    PROVE  Spec => []FirewallInv
  <1>1. RInv => FirewallInv
    BY CleanedWellLemma DEF RInv, Inv, TypeInv, FirewallInv, InstallInv, RemoveInv
  <1>. QED
    BY <1>1, RemoveInit, RemoveInvStep, PTL DEF Spec
===============================================================================
