------------------------- MODULE DependentRequests -------------------------
(***************************************************************************)
(* The requests of the send queue that depend on another request to be     *)
(* sent first (client-base/src/store/send_queue.rs), and what remains of   *)
(* them when those that others make pointless are taken away.              *)
(***************************************************************************)
EXTENDS Integers

NoTxn == 0

\* DependentQueuedRequestKind; sent: is there a parent_key?
DependentKind == {"edit", "redact", "react", "reply", "file", "finish"}
Dependent == [own : Nat, parent : Nat, row : Nat, kind : DependentKind,
              about : Nat, body : Nat, sent : BOOLEAN]
NewDependent(own, parent, row, kind, about, body) ==
    [own |-> own, parent |-> parent, row |-> row, kind |-> kind,
     about |-> about, body |-> body, sent |-> FALSE]

IsRedact(d) == d.kind = "redact"

\* Mutant: only the first edit counts.
CanonicalFirstEdit(D) ==
    {d \in D :
        LET siblings == {e \in D : e.parent = d.parent} IN
        IF \E e \in siblings : IsRedact(e)
        THEN IsRedact(d) /\ \A e \in siblings : IsRedact(e) => d.row <= e.row
        ELSE d.kind = "edit" => \A e \in siblings : e.kind = "edit" => d.row <= e.row}

\* canonicalize_dependent_requests: a redaction makes all else about the event
\* pointless, and only the last edit counts.
Canonical(D) ==
    {d \in D :
        LET siblings == {e \in D : e.parent = d.parent} IN
        IF \E e \in siblings : IsRedact(e)
        THEN IsRedact(d) /\ \A e \in siblings : IsRedact(e) => d.row <= e.row
        ELSE d.kind = "edit" => \A e \in siblings : e.kind = "edit" => e.row <= d.row}

\* Of two canonical dependents of the same event: an edit comes first, the others
\* in the order in which they were stored.
AppliedBefore(d, e) == d.kind = "edit" \/ (e.kind # "edit" /\ d.row < e.row)

=============================================================================
