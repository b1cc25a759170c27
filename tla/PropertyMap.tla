---------------------------- MODULE PropertyMap ----------------------------
(***************************************************************************)
(* What the property map of a record promises: a partial function from     *)
(* names to values.  SlipMap implements it.                                *)
(***************************************************************************)
EXTENDS Integers

CONSTANTS Keys, Values, NoValue

VARIABLES props, result

NoProps == [k \in {} |-> NoValue]

Without(f, k) == [x \in DOMAIN f \ {k} |-> f[x]]

With(f, k, v) == [x \in DOMAIN f \cup {k} |-> IF x = k THEN v ELSE f[x]]

\* The last call and what it returned.
Init == props = NoProps /\ result = <<"new", 0>>

Clear == props' = NoProps /\ result' \in {<<"new", 0>>, <<"free", 0>>}

\* A replacement that is refused stores nothing, but may lose the old value.
Replace(k, v) ==
    \/ props' = With(props, k, v) /\ result' = <<"replace", 0>>
    \/ props' \in {props, Without(props, k)} /\ result' = <<"replace", -1>>

Remove(k) ==
    /\ props' = Without(props, k)
    /\ result' = <<"remove", IF k \in DOMAIN props THEN 1 ELSE 0>>

Find(k) ==
    /\ result' = <<"find", IF k \in DOMAIN props THEN props[k] ELSE NoValue>>
    /\ UNCHANGED props

Enumerate ==
    /\ result' = <<"foreach", {<<k, props[k]>> : k \in DOMAIN props}>>
    /\ UNCHANGED props

Next ==
    \/ Clear
    \/ Enumerate
    \/ \E k \in Keys : Remove(k) \/ Find(k) \/ \E v \in Values : Replace(k, v)

Spec == Init /\ [][Next]_<<props, result>>
=============================================================================
