--------------------------------- MODULE Kv ---------------------------------
(* The key-value databases under the state, the census database and the no-    *)
(* state store (package db): pebble, leveldb and mongo behind one interface,   *)
(* and the prefixed views that let several users share one database. A key is  *)
(* a sequence of bytes; write transactions of several users are open at once   *)
(* and read the database as it is, their own writes first.                     *)
EXTENDS Naturals, Sequences, FiniteSets, SequencesExt, FiniteSetsExt

CONSTANTS
    MaxByte,        \* the largest byte (255 in the code)
    Views,          \* the prefixes of the views, <<>> for the database itself
    LocalKeys,      \* the keys the users of a view write
    KvValues,
    KvTxs,          \* the write transactions
    MaxOps          \* bound on the writes

VARIABLES
    backend,        \* "pebble", "leveldb" or "mongodb": the type given to metadb.New
    store,          \* the committed pairs: a set of <<key, value>>
    tx,             \* the write transactions: prefix, batch, in-memory pairs, open
    ops             \* the writes made (bound)

kvVars == <<backend, store, tx, ops>>

KeysOf(pairs) == {kv[1] : kv \in pairs}

(* pairs with k bound to v.                                                    *)
Put(pairs, k, v) == {kv \in pairs : kv[1] # k} \cup {<<k, v>>}

Del(pairs, k) == {kv \in pairs : kv[1] # k}

ApplyOp(pairs, op) == IF op.type = "set" THEN Put(pairs, op.key, op.value) ELSE Del(pairs, op.key)

ApplyOps(pairs, batch) == FoldLeft(ApplyOp, pairs, batch)

-----------------------------------------------------------------------------
(* Bytes.                                                                      *)

Less(a, b) ==
    \/ IsStrictPrefix(a, b)
    \/ \E i \in DOMAIN a \cap DOMAIN b : a[i] < b[i] /\ \A j \in 1 .. i - 1 : a[j] = b[j]

NoBound == <<MaxByte + 1>>

(* The next byte string of the same length, without the carry.                 *)
keyUpperBound_NoCarry(b) ==
    IF b = <<>> THEN NoBound ELSE [b EXCEPT ![Len(b)] = (@ + 1) % (MaxByte + 1)]

(* The smallest key above all keys with the prefix b: the last byte that can   *)
(* be incremented is, and what follows it is cut.                              *)
keyUpperBound(b) ==
    LET up == {i \in DOMAIN b : b[i] # MaxByte}
    IN  IF up = {} THEN NoBound
        ELSE [SubSeq(b, 1, Max(up)) EXCEPT ![Max(up)] = @ + 1]

InRange(k, lower, upper) == ~Less(k, lower) /\ (upper = NoBound \/ Less(k, upper))

prefixSlice(prefix, k) == prefix \o k

TrimPrefix(k, prefix) == IF IsPrefix(prefix, k) THEN SubSeq(k, Len(prefix) + 1, Len(k)) ELSE k

-----------------------------------------------------------------------------
(* pebble: an indexed batch read over the database; iterate cuts the prefix.   *)

pebbleGet(pairs, k) == {kv[2] : kv \in {p \in pairs : p[1] = k}}

pebbleIterate(pairs, prefix) ==
    {<<SubSeq(kv[1], Len(prefix) + 1, Len(kv[1])), kv[2]>> :
        kv \in {p \in pairs : InRange(p[1], prefix, keyUpperBound(prefix))}}

IndexedBatch(t) == ApplyOps(store, tx[t].batch)

-----------------------------------------------------------------------------
(* leveldb: the pairs set by the transaction, then those of the database.      *)

BytesPrefix(k, prefix) == InRange(k, prefix, keyUpperBound(prefix))

levelIterate(pairs, prefix) == {kv \in pairs : BytesPrefix(kv[1], prefix)}

levelTxGet(t, k) ==
    IF k \in KeysOf(tx[t].mem) THEN {kv[2] : kv \in {p \in tx[t].mem : p[1] = k}}
    ELSE {kv[2] : kv \in {p \in store : p[1] = k}}

levelTxIterate(t, prefix) ==
    LET own == {kv \in tx[t].mem : IsPrefix(prefix, kv[1])}
    IN  own \cup {kv \in store : BytesPrefix(kv[1], prefix) /\ kv[1] \notin KeysOf(own)}

-----------------------------------------------------------------------------
(* mongo: the same overlay; the database selects by the regular expression ^prefix. *)

mongoTxGet(t, k) ==
    IF k \in KeysOf(tx[t].mem) THEN {kv[2] : kv \in {p \in tx[t].mem : p[1] = k}}
    ELSE {kv[2] : kv \in {p \in store : p[1] = k}}

mongoTxIterate(t, prefix) ==
    {kv \in tx[t].mem : IsPrefix(prefix, kv[1])}
        \cup {kv \in store : IsPrefix(prefix, kv[1]) /\ kv[1] \notin KeysOf(tx[t].mem)}

-----------------------------------------------------------------------------
(* The interface: the value of a key (none or one), and the pairs an iteration *)
(* calls back with, for the database and for a transaction.                    *)

Get(k) == {kv[2] : kv \in {p \in store : p[1] = k}}

Iterate(prefix) ==
    CASE backend = "pebble"  -> pebbleIterate(store, prefix)
      [] backend = "leveldb" -> levelIterate(store, prefix)
      [] backend = "mongodb" -> {kv \in store : IsPrefix(prefix, kv[1])}

TxGet(t, k) ==
    CASE backend = "pebble"  -> pebbleGet(IndexedBatch(t), k)
      [] backend = "leveldb" -> levelTxGet(t, k)
      [] backend = "mongodb" -> mongoTxGet(t, k)

TxIterate(t, prefix) ==
    CASE backend = "pebble"  -> pebbleIterate(IndexedBatch(t), prefix)
      [] backend = "leveldb" -> levelTxIterate(t, prefix)
      [] backend = "mongodb" -> mongoTxIterate(t, prefix)

(* A view of the database, or of a transaction, under a prefix.                *)
PrefixedGet(view, k) == Get(prefixSlice(view, k))

PrefixedIterate(view, prefix) ==
    {<<TrimPrefix(kv[1], view), kv[2]>> : kv \in Iterate(prefixSlice(view, prefix))}

PrefixedTxGet(t, k) == TxGet(t, prefixSlice(tx[t].prefix, k))

PrefixedTxIterate(t, prefix) ==
    {<<TrimPrefix(kv[1], tx[t].prefix), kv[2]>> : kv \in TxIterate(t, prefixSlice(tx[t].prefix, prefix))}

-----------------------------------------------------------------------------
(* Write transactions.                                                         *)

Closed == [prefix |-> <<>>, batch |-> <<>>, mem |-> {}, open |-> FALSE]

(* A view of a view: the prefixes are joined.                                  *)
NewPrefixedDatabase(outer, prefix) == prefixSlice(outer, prefix)

Opened(view) == [prefix |-> view, batch |-> <<>>, mem |-> {}, open |-> TRUE]

WriteTx(t) ==
    /\ ~tx[t].open
    /\ ops < MaxOps
    /\ \E outer, inner \in Views :
        /\ NewPrefixedDatabase(outer, inner) \in Views
        /\ tx' = [tx EXCEPT ![t] = Opened(NewPrefixedDatabase(outer, inner))]
    /\ UNCHANGED <<backend, store, ops>>

WithSet(w, k, v) ==
    [w EXCEPT !.batch = Append(@, [type |-> "set", key |-> k, value |-> v]),
              !.mem = Put(@, k, v)]

WithDelete(w, k) ==
    [w EXCEPT !.batch = Append(@, [type |-> "delete", key |-> k]),
              !.mem = Del(@, k)]

Set(t) ==
    /\ tx[t].open /\ ops < MaxOps
    /\ \E k \in LocalKeys, v \in KvValues :
        tx' = [tx EXCEPT ![t] = WithSet(@, prefixSlice(@.prefix, k), v)]
    /\ ops' = ops + 1
    /\ UNCHANGED <<backend, store>>

Delete(t) ==
    /\ tx[t].open /\ ops < MaxOps
    /\ \E k \in LocalKeys :
        tx' = [tx EXCEPT ![t] = WithDelete(@, prefixSlice(@.prefix, k))]
    /\ ops' = ops + 1
    /\ UNCHANGED <<backend, store>>

(* pebble appends the operations of the other batch.                           *)
pebbleApply(w, other) == [w EXCEPT !.batch = @ \o tx[other].batch]

(* leveldb and mongo set every pair the other transaction iterates over: its   *)
(* own pairs and those of the database.                                        *)
iterateApply(w, other) ==
    FoldLeft(LAMBDA x, kv : WithSet(x, kv[1], kv[2]), w, SetToSeq(TxIterate(other, <<>>)))

Apply(t, other) ==
    /\ t # other /\ tx[t].open /\ tx[other].open /\ ops < MaxOps
    /\ tx' = [tx EXCEPT ![t] = IF backend = "pebble" THEN pebbleApply(@, other)
                                                     ELSE iterateApply(@, other)]
    /\ ops' = ops + 1
    /\ UNCHANGED <<backend, store>>

Commit(t) ==
    /\ tx[t].open
    /\ store' = ApplyOps(store, tx[t].batch)
    /\ tx' = [tx EXCEPT ![t] = Closed]
    /\ UNCHANGED <<backend, ops>>

Discard(t) ==
    /\ tx[t].open
    /\ tx' = [tx EXCEPT ![t] = Closed]
    /\ UNCHANGED <<backend, store, ops>>

KvInit ==
    /\ backend \in {"pebble", "leveldb", "mongodb"}
    /\ store = {}
    /\ tx = [t \in KvTxs |-> Closed]
    /\ ops = 0

KvNext ==
    \E t \in KvTxs :
        \/ WriteTx(t)
        \/ Set(t)
        \/ Delete(t)
        \/ \E other \in KvTxs : Apply(t, other)
        \/ Commit(t)
        \/ Discard(t)

KvSpec == KvInit /\ [][KvNext]_kvVars

-----------------------------------------------------------------------------
(* The pairs of a view as Get finds them: a key that starts with the prefix,   *)
(* named as the backend names it, without the prefix (pebble) or whole.        *)
YieldedKey(prefix, rest) == IF backend = "pebble" THEN rest ELSE prefix \o rest

Rests(view, prefix, pairs) ==
    {TrimPrefix(k, view \o prefix) : k \in {k \in KeysOf(pairs) : IsPrefix(view \o prefix, k)}}

(* Trimming a key that pebble has already cut is harmless only when what is    *)
(* left of it does not begin with the prefix of the view once more.            *)
Unambiguous(view, rests) == \A r \in rests : view = <<>> \/ backend # "pebble" \/ ~IsPrefix(view, r)

(* What an iteration of a view, or of a transaction on it, calls back with is  *)
(* what Get answers for the same keys of the same view, no more and no less:   *)
(* at every prefix, up to the largest byte, whatever other views and open      *)
(* transactions have written, and with the writes of the transaction itself.   *)
(* (Reader.Iterate: all pairs whose key starts with prefix.)                   *)
IterateAgreesWithGet ==
    /\ \A view \in Views, prefix \in Views :
        LET rests == Rests(view, prefix, store)
        IN  Unambiguous(view, rests) =>
              PrefixedIterate(view, prefix) =
                UNION {{<<YieldedKey(prefix, r), v>> : v \in PrefixedGet(view, prefix \o r)} : r \in rests}
    /\ \A t \in KvTxs, prefix \in Views :
        LET rests == Rests(tx[t].prefix, prefix, store \cup tx[t].mem \cup IndexedBatch(t))
        IN  tx[t].open /\ Unambiguous(tx[t].prefix, rests) =>
              PrefixedTxIterate(t, prefix) =
                UNION {{<<YieldedKey(prefix, r), v>> : v \in PrefixedTxGet(t, prefix \o r)} : r \in rests}

=============================================================================
