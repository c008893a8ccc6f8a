------------------------------- MODULE Fixture -------------------------------
(***************************************************************************)
(* Normalized v1 fixtures: which records FixtureSource accepts, in         *)
(* analysis/src/aegis_analysis/sources.py.                                 *)
(*                                                                         *)
(* A record is what JSON gives for one trace.  Unusable stands for a value *)
(* that its field may not have: one of the wrong type, an empty identity,  *)
(* a nested or infinite attribute.                                         *)
(***************************************************************************)
EXTENDS Naturals

CONSTANTS
    None,           \* null
    Unusable,
    Misfit          \* a span that is no object, or has not the fields of one

FixtureKinds ==
    {"unknown", "internal", "client", "server", "producer", "consumer"}
FixtureStatuses == {"unset", "ok", "error"}

FixtureTime(value) == value = None \/ value \in Nat

Owned(t, s) == s.trace = t /\ s.id # Unusable

ValidSpan(t, s) ==
    /\ Owned(t, s)
    /\ s.parent # Unusable /\ s.service # Unusable
    /\ s.kind \in FixtureKinds
    /\ s.status \in FixtureStatuses
    /\ s.operation # Unusable
    /\ \A k \in DOMAIN s.attributes : s.attributes[k] # Unusable
    /\ FixtureTime(s.start) /\ FixtureTime(s.duration)

ValidRecord(r) ==
    /\ r.trace # Unusable
    /\ \A s \in r.spans : s # Misfit /\ ValidSpan(r.trace, s)
=============================================================================
