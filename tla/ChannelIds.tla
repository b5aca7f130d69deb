----------------------------- MODULE ChannelIds -----------------------------
(***************************************************************************)
(* The allocator of channel ids.  The accept loops and the DNS task of the *)
(* client share one, behind a lock.                                        *)
(***************************************************************************)
EXTENDS Naturals

CONSTANT MaxId      \* largest channel id (65535 in the code)

ASSUME MaxIdAssumption == MaxId \in Nat \ {0}

\* A variant of the allocator that never wraps.
NextIdUnwrapped(i) == i + 1

\* checked_add(1).unwrap_or(1): the allocator wraps to 1, never to 0.
NextId(i) == IF i = MaxId THEN 1 ELSE i + 1
=============================================================================
