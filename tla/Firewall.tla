------------------------------ MODULE Firewall ------------------------------
(***************************************************************************)
(* The redirect of the client (firewall/) and the part of the client's     *)
(* life around it (client.rs run): install the chain or the anchor of this *)
(* process, then start to handle signals, run, and on a signal remove it   *)
(* and exit.  Each iptables or pfctl command is one step on the kernel's   *)
(* tables, may fail, and finds whatever earlier processes left: a process  *)
(* can be killed between any two commands and a later one can be given its *)
(* pid, hence its chain.                                                   *)
(***************************************************************************)
EXTENDS Pf, Sequences, FiniteSets

CONSTANTS
    Systems,    \* what the client may be built for: "linux", "macos" or "other"
    Dns,        \* BOOLEAN: --dns
    HasV6,      \* BOOLEAN: there are IPv6 subnets
    DrainLimit, \* jumps remove_one drains before it gives up (16 in the code)
    MaxKills,   \* bound: processes that are killed with SIGKILL
    MaxFails,   \* bound: commands that fail for reasons of their own
    EarlySignals    \* BOOLEAN: a signal may come before the handler is set up

ASSUME FirewallAssumption ==
    /\ Systems \subseteq {"linux", "macos", "other"}
    /\ {Dns, HasV6, EarlySignals} \subseteq BOOLEAN
    /\ {DrainLimit, MaxRuns, MaxKills, MaxFails} \subseteq Nat

VARIABLES
    os,         \* the system this host runs, and the client was built for
    \* The kernel's nat tables, one of iptables and one of ip6tables
    exists,     \* the chains there are
    rules,      \* the rules of each chain, in order
    jumps,      \* how often OUTPUT jumps to each chain
    \* The client process
    proc,       \* "none", "installing", "installed", "running" or "removing"
    pid,        \* its pid, or that of the last process
    step,       \* next command of install, or of removing a chain
    bin,        \* the table that is being cleaned
    drained,    \* jumps deleted from it
    \* Bounds and history
    runs,       \* processes started with each pid
    kills,
    install_fails, remove_fails,
    end         \* how the last process with this pid ended (ghost)

natVars == <<exists, rules, jumps>>
kernelVars == <<os, natVars, pfVars>>
procVars == <<proc, pid, step, bin, drained>>
failVars == <<install_fails, remove_fails>>
boundVars == <<runs, kills, failVars, end>>
vars == <<kernelVars, procVars, boundVars>>

Bins == IF HasV6 THEN {"iptables", "ip6tables"} ELSE {"iptables"}

\* The finished chain: the redirects of nameservers, then of subnets, then the
\* escape for local traffic; for IPv6 the escape for ::1 comes first.
Chain(b) ==
    IF b = "iptables"
    THEN (IF Dns THEN <<"dns">> ELSE <<>>) \o <<"tcp", "local">>
    ELSE <<"local", "tcp">>

Cmd(b, op, rule) == [bin |-> b, op |-> op, rule |-> rule]

Appends(b) == [k \in DOMAIN Chain(b) |-> Cmd(b, "append", Chain(b)[k])]

\* A variant that hooks the chain up before it is filled.
InstallHookFirst(b) ==
    <<Cmd(b, "create", ""), Cmd(b, "flush", ""), Cmd(b, "hook", "")>> \o Appends(b)

InstallOne(b) ==
    <<Cmd(b, "create", ""), Cmd(b, "flush", "")>> \o Appends(b) \o <<Cmd(b, "hook", "")>>

InstallChains ==
    InstallOne("iptables") \o (IF HasV6 THEN InstallOne("ip6tables") ELSE <<>>)

InstallAnchor == <<Cmd("pfctl", "load", ""), Cmd("pfctl", "enable", "")>>

\* The stub for other systems refuses to install and has nothing to remove.
Unsupported == os = "other"

\* install: the commands in order, IPv4 first.
Install ==
    [linux |-> InstallChains, macos |-> InstallAnchor, other |-> <<>>][os]

Init ==
    /\ os \in Systems
    /\ PfInit
    /\ exists = [b \in Bins |-> {}]
    /\ rules = [b \in Bins |-> [p \in Pids |-> <<>>]]
    /\ jumps = [b \in Bins |-> [p \in Pids |-> 0]]
    /\ proc = "none"
    /\ pid \in Pids
    /\ step = 1
    /\ bin = "iptables"
    /\ drained = 0
    /\ runs = [p \in Pids |-> 0]
    /\ kills = 0
    /\ install_fails = 0
    /\ remove_fails = 0
    /\ end = [p \in Pids |-> "never"]
-----------------------------------------------------------------------------
(* Commands on the chain, or the anchor, of this process *)

Self == <<pid, runs[pid]>>

\* -N, where a chain that exists already is reused as it is.
Create(b) ==
    /\ exists' = [exists EXCEPT ![b] = @ \cup {pid}]
    /\ UNCHANGED <<rules, jumps>>

Flush(b) ==
    /\ rules' = [rules EXCEPT ![b][pid] = <<>>]
    /\ UNCHANGED <<exists, jumps>>

Iptables(c) ==
    \/ c.op = "create" /\ Create(c.bin)
    \/ c.op = "flush" /\ Flush(c.bin)
    \/ /\ c.op = "append"
       /\ rules' = [rules EXCEPT ![c.bin][pid] = Append(@, c.rule)]
       /\ UNCHANGED <<exists, jumps>>
    \/ /\ c.op = "hook"
       /\ jumps' = [jumps EXCEPT ![c.bin][pid] = @ + 1]
       /\ UNCHANGED <<exists, rules>>

Execute(c) ==
    \/ Iptables(c) /\ UNCHANGED pfVars
    \/ c.op = "load" /\ Load(Self) /\ UNCHANGED natVars
    \/ c.op = "enable" /\ Enable(Self) /\ UNCHANGED natVars

\* -X refuses a chain that is not there, not empty, or jumped to.
Deletable(b) == pid \in exists[b] /\ rules[b][pid] = <<>> /\ jumps[b][pid] = 0
-----------------------------------------------------------------------------
(* install *)

Start(p) ==
    /\ proc = "none"
    /\ runs[p] < MaxRuns
    /\ runs' = [runs EXCEPT ![p] = @ + 1]
    /\ proc' = "installing"
    /\ pid' = p
    /\ step' = 1
    /\ state' = {}
    /\ UNCHANGED <<os, natVars, anchor, tokens, bin, drained, kills, failVars, end>>

InstallCmd ==
    /\ proc = "installing"
    /\ ~Unsupported
    /\ Execute(Install[step])
    /\ IF step = Len(Install)
       THEN proc' = "installed" /\ UNCHANGED step
       ELSE step' = step + 1 /\ UNCHANGED proc
    /\ UNCHANGED <<os, pid, bin, drained, boundVars>>

\* remove, on one table after the other.
BeginRemove ==
    /\ proc' = "removing"
    /\ bin' = "iptables"
    /\ step' = 1
    /\ drained' = 0
    /\ UNCHANGED pid

MayFail == install_fails + remove_fails < MaxFails

\* run removes what install has done when one of its commands fails.
InstallFails ==
    /\ proc = "installing"
    /\ \/ MayFail /\ install_fails' = install_fails + 1
       \/ Unsupported /\ UNCHANGED install_fails
    /\ BeginRemove
    /\ UNCHANGED <<kernelVars, runs, kills, remove_fails, end>>
-----------------------------------------------------------------------------
(* Signals *)

Exit(how) == proc' = "none" /\ end' = [end EXCEPT ![pid] = how]

\* The task that catches SIGINT and SIGTERM has been spawned and polled.
HandleSignals ==
    /\ proc = "installed"
    /\ proc' = "running"
    /\ UNCHANGED <<kernelVars, pid, step, bin, drained, boundVars>>

Signal ==
    /\ proc = "running"
    /\ BeginRemove
    /\ UNCHANGED <<kernelVars, boundVars>>

\* Before the handler is set up a signal has its default action.
EarlySignal ==
    /\ EarlySignals
    /\ proc \in {"installing", "installed"}
    /\ Exit("signal")
    /\ UNCHANGED <<kernelVars, pid, step, bin, drained, runs, kills, failVars>>

Kill ==
    /\ proc # "none"
    /\ kills < MaxKills
    /\ kills' = kills + 1
    /\ Exit("killed")
    /\ UNCHANGED <<kernelVars, pid, step, bin, drained, runs, failVars>>
-----------------------------------------------------------------------------
(* remove_one: drain the jumps, flush, delete, delete once more *)

Drain == 1
FlushStep == 2
Delete == 3
DeleteAgain == 4

Removing(s) == os = "linux" /\ proc = "removing" /\ step = s

\* On to the other table, or exit.
NextTable ==
    IF HasV6 /\ bin = "iptables"
    THEN /\ bin' = "ip6tables"
         /\ step' = Drain
         /\ drained' = 0
         /\ UNCHANGED <<proc, end>>
    ELSE /\ Exit("cleaned")
         /\ UNCHANGED <<bin, step, drained>>

\* A variant that deletes one jump only.
DrainJumpOnce ==
    /\ Removing(Drain)
    /\ jumps[bin][pid] > 0
    /\ jumps' = [jumps EXCEPT ![bin][pid] = @ - 1]
    /\ step' = FlushStep
    /\ UNCHANGED <<os, pfVars, exists, rules, proc, pid, bin, drained, boundVars>>

\* A variant that counts on a jump being there.
DrainJumpUnchecked ==
    /\ Removing(Drain)
    /\ drained = 0
    /\ jumps' = [jumps EXCEPT ![bin][pid] = @ - 1]
    /\ drained' = 1
    /\ UNCHANGED <<os, pfVars, exists, rules, proc, pid, step, bin, boundVars>>

DrainJump ==
    /\ Removing(Drain)
    /\ jumps[bin][pid] > 0
    /\ jumps' = [jumps EXCEPT ![bin][pid] = @ - 1]
    /\ drained' = drained + 1
    /\ step' = IF drained' > DrainLimit THEN FlushStep ELSE Drain
    /\ UNCHANGED <<os, pfVars, exists, rules, proc, pid, bin, boundVars>>

\* -D finds no jump.
Drained ==
    /\ Removing(Drain)
    /\ jumps[bin][pid] = 0
    /\ step' = FlushStep
    /\ UNCHANGED <<kernelVars, proc, pid, bin, drained, boundVars>>

RemoveFlush ==
    /\ Removing(FlushStep)
    /\ IF pid \in exists[bin] THEN Flush(bin) ELSE UNCHANGED natVars
    /\ step' = Delete
    /\ UNCHANGED <<os, pfVars, proc, pid, bin, drained, boundVars>>

DeleteChain ==
    /\ Removing(Delete) \/ Removing(DeleteAgain)
    /\ Deletable(bin)
    /\ exists' = [exists EXCEPT ![bin] = @ \ {pid}]
    /\ NextTable
    /\ UNCHANGED <<os, pfVars, rules, jumps, pid, runs, kills, failVars>>

\* A variant that tries again until the chain is gone.
DeleteUntilGone ==
    /\ Removing(Delete) \/ Removing(DeleteAgain)
    /\ ~Deletable(bin)
    /\ step' = Delete
    /\ UNCHANGED <<kernelVars, proc, pid, bin, drained, boundVars>>

DeleteRefused ==
    /\ Removing(Delete) \/ Removing(DeleteAgain)
    /\ ~Deletable(bin)
    /\ IF step = Delete
       THEN step' = DeleteAgain /\ UNCHANGED <<proc, bin, drained, end>>
       ELSE NextTable
    /\ UNCHANGED <<kernelVars, pid, runs, kills, failVars>>

\* One command of the removal fails for a reason of its own.
RemoveCmdFailure ==
    /\ proc = "removing"
    /\ MayFail
    /\ remove_fails' = remove_fails + 1
    /\ UNCHANGED <<kernelVars, pid, runs, kills, install_fails>>

\* A variant that stops cleaning a table at the first command that fails.
RemoveStopsOnFailure ==
    /\ os = "linux"
    /\ RemoveCmdFailure
    /\ NextTable

\* Lock contention, or -X racing with the kernel's collection of flushed rules:
\* each failure is taken for the one that is expected there.
RemoveCmdFails ==
    /\ os = "linux"
    /\ RemoveCmdFailure
    /\ IF step = DeleteAgain
       THEN NextTable
       ELSE step' = step + 1 /\ UNCHANGED <<proc, bin, drained, end>>
-----------------------------------------------------------------------------
(* remove on macOS: what STATE remembers, or nothing.  The result of pfctl is   *)
(* ignored.                                                                     *)

\* remove finds no STATE; on other systems it does nothing at all.
NothingToRemove ==
    /\ os # "linux"
    /\ proc = "removing"
    /\ state = {}
    /\ Exit("cleaned")
    /\ UNCHANGED <<kernelVars, pid, step, bin, drained, runs, kills, failVars>>

RemoveAnchor ==
    /\ os = "macos"
    /\ proc = "removing"
    /\ state # {} /\ step = 1
    /\ step' = 2
    /\ \/ /\ FlushAnchor(Self)
          /\ UNCHANGED <<os, natVars, pid, runs, kills, failVars>>
       \/ RemoveCmdFailure
    /\ UNCHANGED <<proc, bin, drained, end>>

ReleaseToken ==
    /\ os = "macos"
    /\ proc = "removing"
    /\ state # {} /\ step = 2
    /\ Exit("cleaned")
    /\ \/ /\ Disable(Self)
          /\ UNCHANGED <<os, natVars, pid, runs, kills, failVars>>
       \/ RemoveCmdFailure
    /\ UNCHANGED <<step, bin, drained>>
-----------------------------------------------------------------------------
Next ==
    \/ \E p \in Pids : Start(p)
    \/ InstallCmd \/ InstallFails
    \/ HandleSignals \/ Signal \/ EarlySignal \/ Kill
    \/ DrainJump \/ Drained \/ RemoveFlush \/ DeleteChain \/ DeleteRefused
    \/ RemoveCmdFails
    \/ NothingToRemove \/ RemoveAnchor \/ ReleaseToken

Spec == Init /\ [][Next]_vars

\* Commands come back (-w 5 bounds the wait for the lock); nothing obliges
\* anyone to start a client or to send it a signal.
FairSpec ==
    /\ Spec
    /\ WF_vars(InstallCmd)
    /\ WF_vars(DrainJump \/ Drained \/ RemoveFlush \/ DeleteChain \/ DeleteRefused)
    /\ WF_vars(NothingToRemove \/ RemoveAnchor \/ ReleaseToken)
-----------------------------------------------------------------------------
RuleKinds == {"dns", "tcp", "local"}

\* Every variable has its type.
FirewallTypeOK ==
    /\ os \in Systems
    /\ PfTypeOK
    /\ exists \in [Bins -> SUBSET Pids]
    /\ rules \in [Bins -> [Pids -> Seq(RuleKinds)]]
    /\ jumps \in [Bins -> [Pids -> Nat]]
    /\ proc \in {"none", "installing", "installed", "running", "removing"}
    /\ pid \in Pids
    /\ step \in Nat
    /\ bin \in Bins
    /\ drained \in Nat
    /\ runs \in [Pids -> 0 .. MaxRuns]
    /\ kills \in 0 .. MaxKills
    /\ install_fails + remove_fails \in 0 .. MaxFails
    /\ {install_fails, remove_fails} \subseteq Nat
    /\ end \in [Pids -> {"never", "signal", "killed", "cleaned"}]

\* Traffic to the tunnelled subnets, or DNS, is sent to the port of process p.
Redirects(p) ==
    \E b \in Bins :
        /\ jumps[b][p] > 0
        /\ \E k \in DOMAIN rules[b][p] : rules[b][p][k] # "local"

\* Nothing of the last process with pid p is in force on the host: neither its
\* chain and jumps, nor its anchor and the token that keeps pf enabled.
Untouched(p) ==
    /\ \A b \in Bins : p \notin exists[b] /\ jumps[b][p] = 0
    /\ anchor[p] = 0 /\ <<p, runs[p]>> \notin tokens

\* The last process with pid p has removed its redirect and exited.
Cleaned(p) == end[p] = "cleaned" /\ ~(proc # "none" /\ pid = p)

CleanedUp == remove_fails = 0 => \A p \in Pids : Cleaned(p) => Untouched(p)

\* "Drain every -A OUTPUT -j chain jump": when no command of the cleanup fails,
\* it leaves neither the chain nor a jump to it, wherever the installation got
\* stuck and whatever earlier processes with the same pid left behind.  On macOS
\* it leaves neither anchor nor token once the installation has succeeded.
CleanupIsComplete == os # "macos" \/ install_fails = 0 => CleanedUp

\* "State recorded by `install` so `remove` can undo cleanly": an installation
\* that fails half way is undone, on every system.
FailedInstallIsUndone == install_fails > 0 => CleanedUp

\* On Linux one command that fails, wherever it is, does not leave traffic
\* redirected to a client that has gone: the chain is unhooked or it is empty.
FailedCleanupIsHarmless ==
    install_fails + remove_fails <= 1 => \A p \in Pids : Cleaned(p) => ~Redirects(p)

\* A client that serves has its own redirect in force, whatever it found under
\* its name: each chain is hooked up, at least once, and holds its rules once and
\* in order, or its anchor holds its rules and not those of an earlier process,
\* with pf held enabled.  (A leftover jump of an earlier process with its pid is
\* not drained by install, and counts, too.)
RedirectIsOwn ==
    proc \in {"installed", "running"} =>
        CASE os = "linux" ->
               \A b \in Bins : jumps[b][pid] > 0 /\ rules[b][pid] = Chain(b)
          [] os = "macos" ->
               anchor[pid] = runs[pid] /\ Self \in tokens /\ state = {Self}
          [] OTHER -> FALSE

\* No packet ever meets a chain that is half filled (redirects without the
\* escape for local traffic): what OUTPUT jumps to is a whole chain or, in the
\* course of removing it, an empty one, as long as no pid is used twice.
HookedIsWhole ==
    \A b \in Bins, p \in Pids :
        runs[p] = 1 /\ jumps[b][p] > 0 => rules[b][p] \in {Chain(b), <<>>}

\* "Catch BOTH SIGINT and SIGTERM": a signal never leaves the redirect on the host.
SignalLeavesNoChain == \A p \in Pids : end[p] = "signal" /\ proc = "none" => Untouched(p)

\* A cleanup that was begun comes to its end, whatever the tables hold.
CleanupEnds == proc = "removing" ~> proc = "none"
-----------------------------------------------------------------------------
(* Why the redirect is whole and the cleanup complete: inductive invariants.    *)

\* The commands that create a table's chain, and that hook it up, in install.
First(b) == IF b = "iptables" THEN 1 ELSE Len(InstallOne("iptables")) + 1
Hook(b) == First(b) + Len(Chain(b)) + 2

\* The command that comes next in install, one past the last when it is done.
At == IF proc = "installing" THEN step ELSE Len(Install) + 1

\* What the commands so far have made of the chain of a table.
Built(b) ==
    /\ At > First(b) => pid \in exists[b]
    /\ At > First(b) + 1 =>
         /\ Len(rules[b][pid]) = IF At <= Hook(b) THEN At - First(b) - 2 ELSE Len(Chain(b))
         /\ \A k \in DOMAIN rules[b][pid] : rules[b][pid][k] = Chain(b)[k]
    /\ At > Hook(b) => jumps[b][pid] > 0

\* The commands before that one have left what they should.
InstallGoesOn ==
    proc \in {"installing", "installed", "running"} =>
        /\ os = "linux" => \A b \in Bins : Built(b)
        /\ os = "macos" =>
             /\ At > 1 => anchor[pid] = runs[pid]
             /\ IF At > 2 THEN Self \in tokens /\ state = {Self} ELSE state = {}
        /\ os = "other" => proc = "installing"

\* A process works on commands there are, and on the tables of its own system.
StepsAreThere ==
    /\ proc # "none" => runs[pid] > 0
    /\ proc = "installing" /\ ~Unsupported => step \in 1 .. Len(Install)
    /\ os = "linux" /\ proc = "removing" => step \in Drain .. DeleteAgain
    /\ os # "linux" => \A b \in Bins, p \in Pids : p \notin exists[b]
    /\ os # "macos" => tokens = {} /\ \A p \in Pids : anchor[p] = 0

\* Each process hooks its chain up at most once; where there is no chain there
\* is nothing to hook up.
JumpsAreCounted ==
    \A b \in Bins, p \in Pids :
        /\ jumps[b][p] <= runs[p]
        /\ proc = "installing" /\ pid = p /\ step <= Hook(b) => jumps[b][p] < runs[p]
        /\ p \notin exists[b] => jumps[b][p] = 0 /\ rules[b][p] = <<>>

\* What holds of an installation at every step, and of what it has hooked up.
InstallInv == StepsAreThere /\ InstallGoesOn /\ JumpsAreCounted /\ HookedIsWhole

\* A chain of p, hooked up or not, that redirects nothing.
Harmless(b, p) == jumps[b][p] = 0 \/ rules[b][p] = <<>>

\* The commands of the removal so far have left what they should, unless some
\* command of a removal has failed; when only one has, no redirect.
RemoveGoesOn ==
    proc = "removing" =>
        /\ os = "linux" =>
             /\ step = Drain => jumps[bin][pid] + drained <= runs[pid]
             /\ step = FlushStep => jumps[bin][pid] = 0 \/ remove_fails > 0
             /\ step > FlushStep /\ remove_fails = 0 => jumps[bin][pid] = 0 /\ rules[bin][pid] = <<>>
             /\ step > FlushStep /\ remove_fails <= 1 => Harmless(bin, pid)
             /\ bin = "ip6tables" =>
                  /\ remove_fails = 0 => pid \notin exists["iptables"]
                  /\ remove_fails <= 1 => Harmless("iptables", pid)
        /\ os = "macos" /\ install_fails = 0 /\ remove_fails = 0 =>
             state = {Self} /\ (step # 1 => anchor[pid] = 0)

\* One failure of a removal leaves no redirect, however often installing failed.
OneFailureIsHarmless ==
    remove_fails <= 1 => \A b \in Bins, p \in Pids : Cleaned(p) => Harmless(b, p)

\* What holds of a removal at every step, and of what it leaves behind.
RemoveInv == RemoveGoesOn /\ CleanupIsComplete /\ OneFailureIsHarmless

\* The inductive invariant: what each command of install and remove finds and leaves
\* in the chains, anchors and tokens of its own process and of those before.
FirewallInv == InstallInv /\ RemoveInv
=============================================================================
