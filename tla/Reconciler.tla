----------------------------- MODULE Reconciler -----------------------------
(***************************************************************************)
(* What the KVScheduler promises when nothing fails ("state                *)
(* reconciliation", kv_scheduler_api.go): after every transaction SB holds *)
(* exactly the values whose dependencies can be satisfied, whatever the    *)
(* order in which values, dependencies and descriptors appeared.           *)
(***************************************************************************)
CONSTANTS BaseKeys, DerivedKeys, Nil, Owner(_), Dependencies(_, _)

VARIABLES want,        \* values NB asked for: base key -> value
          external,    \* values SB created by itself: base key -> value
          implemented, \* keys with a registered descriptor
          have         \* values in SB: key -> value

Keys == BaseKeys \cup DerivedKeys

\* the value a key would have if its dependencies were met
Candidate(k) ==
    LET base(b) == IF external[b] # Nil THEN external[b]
                   ELSE IF b \in implemented THEN want[b] ELSE Nil
        b == IF k \in BaseKeys THEN k ELSE Owner(k)
    IN IF k \in BaseKeys \/ base(b) = Nil THEN base(b)
       ELSE IF k \in DOMAIN base(b).der THEN base(b).der[k] ELSE Nil

\* every value of X has its base and one alternative of each dependency in X;
\* values reported by SB are there whatever they depend on
Closed(X) ==
    \A k \in X :
        /\ Candidate(k) # Nil
        /\ k \in DerivedKeys => Owner(k) \in X
        /\ (k \in implemented /\ ~(k \in BaseKeys /\ external[k] # Nil)) =>
              \A label \in Dependencies(k, Candidate(k)) : label \cap X # {}

\* the largest closed set: values that depend on each other in a cycle come
\* together
Resolved == UNION {X \in SUBSET Keys : Closed(X)}

\* a base value as SB shows it, with the derived values that are there
Shown(k) ==
    LET v == Candidate(k) IN
    IF k \in BaseKeys THEN [v EXCEPT !.der = [d \in (DOMAIN v.der) \cap Resolved |-> v.der[d]]]
    ELSE v

\* what SB holds: values of keys without a descriptor exist in the graph only
InPlace ==
    have = [k \in Keys |->
              IF k \in Resolved /\ (k \in implemented \/ (k \in BaseKeys /\ external[k] # Nil))
              THEN Shown(k) ELSE Nil]

Init == want = [k \in BaseKeys |-> Nil] /\ external = want /\ InPlace
Reconcile == InPlace'

vars == <<want, external, implemented, have>>
Spec == Init /\ [][Reconcile]_vars
=============================================================================
