----------------------------- MODULE MCStorage -----------------------------
(***************************************************************************)
(* Small instances of the two halves of publish(): Retention, what a       *)
(* client keeps, and GenericBuffer, how much of it and for how long.  The  *)
(* subject is chosen at the start and the other system rests, so that      *)
(* their state spaces add up instead of multiplying.  Lazy is the native   *)
(* backend, whose classification is one more step between the reads.       *)
(***************************************************************************)
EXTENDS GenericBuffer, Retention, TLC

VARIABLE subject

MCInit == Init /\ RetentionInit /\ subject \in {"buffer", "retention"}

BufferStep == subject = "buffer" /\ Next /\ UNCHANGED <<subject, retentionVars>>
RetentionStep == subject = "retention" /\ RetentionNext /\ UNCHANGED <<subject, vars>>

MCSpec == MCInit /\ [][BufferStep \/ RetentionStep]_<<subject, vars, retentionVars>>

\* Event types are interchangeable.
Symmetry == Permutations(Types)

-----------------------------------------------------------------------------
(***************************************************************************)
(* The properties of both, in the terms of the modules that state them.    *)
(***************************************************************************)

\* The states are well-formed; the count of pending tickets, the capacity and
\* the bound on the metadata hold, whatever the worker and the owner race on.
Bounded ==
    TypeOK /\ RetentionTypeOK /\ PendingExact /\ CapacityHolds /\ MetadataBounded

\* A client keeps what it is to keep and no more: what a consumer present at the
\* start of a receive, or a handler interest held since, is entitled to is neither
\* filtered nor dropped, and a forgotten client keeps unsolicited updates only for a
\* close under way.
Kept == SnapshotKept /\ SelectedKept /\ OrphanKeepsNothing
=============================================================================
