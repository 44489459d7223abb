--------------------------- MODULE MetadataValues ---------------------------
(***************************************************************************)
(* What the metadata suites promise a plugin: the metadata of a buffer is  *)
(* a value that never changes once the buffer has it, and the builder of   *)
(* an output is a value of its own, which starts as a copy of an input's   *)
(* metadata and changes by one edit at a time.                             *)
(***************************************************************************)
EXTENDS Naturals, FiniteSets, Sequences

CONSTANTS
    Buffers, Keys, Fields, Values,  \* Values: contents of fields, blobs, steps and CFAs
    Nothing                         \* no such blob, no CFA
EmptyBlock == [cfa |-> Nothing, table |-> Nothing, white |-> Nothing, matrices |-> Nothing]

VARIABLES
    value,      \* [cal, plain, steps, blobs, keys, fixed] of the buffers that have metadata
    draft       \* that of the builder; cal is a set of at most one block
\* steps is the list of applied steps, keys says how often each blob is listed, and fixed has the
\* keys of the blobs that the host keeps.

vars == <<value, draft>>

WithCfa(cal, cfa) ==
    IF cal = {} /\ cfa # Nothing THEN {[EmptyBlock EXCEPT !.cfa = cfa]} ELSE {[block EXCEPT !.cfa = cfa] : block \in cal}

\* r is q without s: the elements that are not s, each at its rank among them.
Rank(q, s, k) == Cardinality({i \in 1..k : q[i] # s})
IsWithout(r, q, s) ==
    /\ DOMAIN r = 1..Rank(q, s, Len(q))
    /\ \A k \in DOMAIN q : q[k] # s => r[Rank(q, s, k)] = q[k]

Edit ==
    \/ \E f \in Fields, x \in Values : draft' = [draft EXCEPT !.plain[f] = x]
    \/ \E s \in Values : draft' = [draft EXCEPT !.steps = Append(@, s)]
    \/ \E s \in Values : IsWithout(draft'.steps, draft.steps, s) /\ draft' = [draft EXCEPT !.steps = draft'.steps]
    \/ \E k \in Keys \ draft.fixed, x \in Values : draft' = [draft EXCEPT !.blobs[k] = x, !.keys[k] = 1]
    \/ \E k \in Keys \ draft.fixed : draft' = [draft EXCEPT !.blobs[k] = Nothing, !.keys[k] = 0]
    \/ \E k \in draft.fixed, listed \in 1..2 : draft' = [draft EXCEPT !.keys[k] = listed]
    \/ \E c \in Values \cup {Nothing} : draft' = [draft EXCEPT !.cal = WithCfa(@, c)]
    \/ \E b \in DOMAIN value : draft' = [draft EXCEPT !.cal = value[b].cal]
    \/ draft' = [draft EXCEPT !.cal = {}]

With(b, m) == [c \in DOMAIN value \cup {b} |-> IF c = b THEN m ELSE value[c]]

Next ==
    \/ Edit /\ UNCHANGED value
    \/ (\E b \in DOMAIN value : draft' = value[b]) /\ UNCHANGED value
    \/ \E b \in Buffers \ DOMAIN value : value' = With(b, draft) /\ UNCHANGED draft
    \* The source of a pipeline brings metadata of its own.
    \/ \E b \in Buffers \ DOMAIN value : (\A c \in DOMAIN value : value'[c] = value[c]) /\ DOMAIN value' = DOMAIN value \cup {b} /\ UNCHANGED draft
Spec == [][Next]_vars
=============================================================================
