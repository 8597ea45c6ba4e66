------------------------ MODULE CanonicalDependents ------------------------
(***************************************************************************)
(* canonicalize_dependent_requests of send_queue/mod.rs as it is written,  *)
(* a loop over the stored dependents that builds one list per parent,      *)
(* against what SendQueue takes from DependentRequests for it, in terms of *)
(* sets.                                                                   *)
(***************************************************************************)
EXTENDS SendQueue, SequencesExt

\* load_dependent_queued_requests: ORDER BY ROWID.
InRowOrder(s) == \A i, j \in DOMAIN s : i < j => s[i].row < s[j].row
Stored(D) == CHOOSE s \in [1 .. Cardinality(D) -> D] : InRowOrder(s)

\* Mutant: a redaction is added to what else there is.
StepKeepsAll(prevs, d) ==
    LET edit == SelectInSeq(prevs, LAMBDA p : p.kind = "edit") IN
    IF \E i \in DOMAIN prevs : IsRedact(prevs[i]) THEN prevs
    ELSE IF d.kind # "edit" THEN Append(prevs, d)
    ELSE IF edit # 0 THEN [prevs EXCEPT ![edit] = d] ELSE <<d>> \o prevs

\* The body of the loop: prevs is the list of the parent of d.
CanonicalizeStep(prevs, d) ==
    LET edit == SelectInSeq(prevs, LAMBDA p : p.kind = "edit") IN
    IF \E i \in DOMAIN prevs : IsRedact(prevs[i]) THEN prevs
    ELSE IF IsRedact(d) THEN <<d>>
    ELSE IF d.kind # "edit" THEN Append(prevs, d)
    ELSE IF edit # 0 THEN [prevs EXCEPT ![edit] = d] ELSE <<d>> \o prevs

Canonicalize(D, parent) ==
    FoldLeft(CanonicalizeStep, <<>>, Stored({d \in D : d.parent = parent}))

-----------------------------------------------------------------------------
Parents == {d.parent : d \in deps}

\* The loop keeps exactly the dependents that Canonical describes, whatever edits, reactions,
\* replies and redactions have been stored (canonicalize_dependent_requests), and lists each
\* of them once, in the order in which SendQueue applies them: an edit before the reactions
\* and replies that came before it.
KeepsTheCanonical ==
    /\ UNION {ToSet(Canonicalize(deps, p)) : p \in Parents} = Canonical(deps)
    /\ \A p \in Parents : LET list == Canonicalize(deps, p) IN
          \A i, j \in DOMAIN list : i < j => list[i] # list[j] /\ AppliedBefore(list[i], list[j])

=============================================================================
