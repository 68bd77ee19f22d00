---------------------------- MODULE VersionedSave ----------------------------
(***************************************************************************)
(* What the save commit journal promises its callers: one SAV with a       *)
(* revision, which each request changes at most once, and only from the    *)
(* revision it expected.  A request that finds its own bytes already there *)
(* as the result of that revision is counted as applied to it.             *)
(***************************************************************************)
EXTENDS Naturals

CONSTANTS Keys, Bodies, InitialBody

VARIABLES
    rev,        \* current revision
    value,      \* bytes of that revision
    appliedAt   \* applied request -> the revision it produced

vars == <<rev, value, appliedAt>>

Init ==
    /\ rev = 1
    /\ value = InitialBody
    /\ appliedAt = [k \in {} |-> 0]

Record(k) ==
    /\ k \notin DOMAIN appliedAt
    /\ appliedAt' = [j \in DOMAIN appliedAt \cup {k} |->
                       IF j = k THEN rev' ELSE appliedAt[j]]

\* The request's bytes become the next revision.
Apply(k, b) ==
    /\ rev' = rev + 1
    /\ value' = b
    /\ Record(k)

\* Another request put the same bytes on the same revision first.
Coalesce(k) ==
    /\ rev > 1
    /\ UNCHANGED <<rev, value>>
    /\ Record(k)

Next == \E k \in Keys : Coalesce(k) \/ \E b \in Bodies : Apply(k, b)

Spec == Init /\ [][Next]_vars
=============================================================================
