--------------------------------- MODULE Pf ---------------------------------
(***************************************************************************)
(* The macOS redirect (firewall/macos.rs): one anchor of pf rules for each *)
(* pid, which pfctl loads as a whole, and a token that keeps pf enabled.   *)
(* Anchors and tokens are the kernel's and outlive the client; STATE, from *)
(* which remove learns what there is to undo, is the client's own.         *)
(***************************************************************************)
EXTENDS Naturals

CONSTANTS
    Pids,       \* process ids, which name the anchors com.rushtle/RUSHTLE_<pid>
    MaxRuns     \* bound: processes that are given the same pid, one after the other

\* A process is told from the others with its pid by its number among them.
Process == Pids \X (1 .. MaxRuns)

VARIABLES
    anchor,     \* whose rules the anchor of a pid holds, 0 when it holds none
    tokens,     \* the processes whose pfctl -E has not been undone
    state       \* STATE: the process itself once its install is done, or nothing

pfVars == <<anchor, tokens, state>>

PfInit ==
    /\ anchor = [p \in Pids |-> 0]
    /\ tokens = {}
    /\ state = {}

PfTypeOK ==
    /\ anchor \in [Pids -> 0 .. MaxRuns]
    /\ tokens \subseteq Process
    /\ state \in {{}} \cup {{p} : p \in Process}
-----------------------------------------------------------------------------
\* A variant that keeps the rules it finds under its name.
LoadUnlessLoaded(p) ==
    /\ anchor' = [anchor EXCEPT ![p[1]] = IF @ = 0 THEN p[2] ELSE @]
    /\ UNCHANGED <<tokens, state>>

\* pfctl -f: the rules of p replace whatever the anchor of its pid held.
Load(p) ==
    /\ anchor' = [anchor EXCEPT ![p[1]] = p[2]]
    /\ UNCHANGED <<tokens, state>>

\* pfctl -E, whose token and whose anchor are then remembered.
Enable(p) ==
    /\ tokens' = tokens \cup {p}
    /\ state' = {p}
    /\ UNCHANGED anchor

\* pfctl -F all
FlushAnchor(p) ==
    /\ anchor' = [anchor EXCEPT ![p[1]] = 0]
    /\ UNCHANGED <<tokens, state>>

\* pfctl -X: pf stays enabled for as long as another token is out.
Disable(p) ==
    /\ tokens' = tokens \ {p}
    /\ UNCHANGED <<anchor, state>>
=============================================================================
