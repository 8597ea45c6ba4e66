---------------------------- MODULE MCSendQueue ----------------------------
(* Instances of SendQueue for TLC: which operations and failures are mixed.  *)
EXTENDS CanonicalDependents

=============================================================================
