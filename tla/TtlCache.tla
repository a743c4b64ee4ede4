------------------------------ MODULE TtlCache ------------------------------
(***************************************************************************)
(* cache.Cache (lib/cache.py): a dict with a second dict of expiry times,   *)
(* both in the order of the last set of each key.  Here it is one sequence  *)
(* of entries in that order.  Expiry is lazy: nothing leaves the cache      *)
(* until the next set, which looks at the first entry only.                 *)
(***************************************************************************)
EXTENDS Integers, Sequences, SequencesExt

Entry(Key, Value) == [key : Key, value : Value, until : Int]

Keys(c) == {c[i].key : i \in DOMAIN c}

\* A dict has one entry per key.
IsCache(c, Key, Value) ==
    /\ c \in Seq(Entry(Key, Value))
    /\ \A i, j \in DOMAIN c : c[i].key = c[j].key => i = j

Position(c, k) == CHOOSE i \in DOMAIN c : c[i].key = k

\* get: what has expired but was not cleaned yet is still found.
Lookup(c, k, default) == IF k \in Keys(c) THEN c[Position(c, k)].value ELSE default

Popped(c, k) == IF k \in Keys(c) THEN RemoveAt(c, Position(c, k)) ELSE c

\* Seeded bug: the first entry goes whether or not its time has passed.
CleanedUnasked(c, now) == IF c # <<>> THEN Tail(c) ELSE c

\* clean: the loop over the expiry times ends after the first of them.
Cleaned(c, now) == IF c # <<>> /\ now > c[1].until THEN Tail(c) ELSE c

\* set: a key set again moves to the end.
Stored(c, k, v, now, ttl) ==
    Append(Popped(Cleaned(c, now), k), [key |-> k, value |-> v, until |-> now + ttl])
=============================================================================
