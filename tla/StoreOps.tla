------------------------------ MODULE StoreOps ------------------------------
(***************************************************************************)
(* The data of KeyValueStore::kv_store_ as a partial function from keys to *)
(* non-empty lists of values, and what Put, Get, Remove and                *)
(* LoadAllEntries do to it.  Keys and values are opaque.                   *)
(***************************************************************************)
EXTENDS Naturals, Sequences

\* A store: every key that is present maps to a list of at least one value.
IsStore(f, Keys, Values) ==
  /\ DOMAIN f \subseteq Keys
  /\ f \in [DOMAIN f -> Seq(Values) \ {<<>>}]

\* The set of all stores; TLC can evaluate IsStore where it cannot search this.
Stores(Keys, Values) ==
  UNION {[D -> Seq(Values) \ {<<>>}] : D \in SUBSET Keys}

EmptyStore == [k \in {} |-> <<>>]

\* Get: the value list, empty when the key is absent.
Lookup(store, k) == IF k \in DOMAIN store THEN store[k] ELSE <<>>

\* Put: push_back on an existing list, or a new list of one value.
PutInto(store, k, v) ==
  [x \in DOMAIN store \cup {k} |->
     IF x = k THEN Append(Lookup(store, k), v) ELSE store[x]]

\* Remove: erase the key with its whole list.
EraseFrom(store, k) == [x \in DOMAIN store \ {k} |-> store[x]]

\* LoadAllEntries: every loaded pair replaces what the key held.
LoadInto(store, pairs) ==
  [x \in DOMAIN store \cup DOMAIN pairs |->
     IF x \in DOMAIN pairs THEN pairs[x] ELSE store[x]]
=============================================================================
