----------------------------- MODULE YamlStorage -----------------------------
(***************************************************************************)
(* yaml_to_storage, and the yaml-redis-loader that runs it on Redis.  A    *)
(* load is a list of storage calls made one after the other: the loader    *)
(* may be killed or lose its connection between any two of them, and the   *)
(* StorageActor of a running MUD may write in between.                     *)
(*                                                                         *)
(* A path is the sequence of its parts after the prefix: "pmud:a:b" is     *)
(* <<"a", "b">>.  A map's key is the sequence of what "_" separates in it. *)
(***************************************************************************)
EXTENDS Storage, SequencesExt

CONSTANTS
  Documents,  \* the YAML documents that are loaded
  MaxLoads,   \* bound: loads started
  MaxWrites   \* bound: writes of the StorageActor

ASSUME BoundsAssumption == MaxLoads \in Nat /\ MaxWrites \in Nat

VARIABLES
  doc,      \* the document being loaded, or the last one that was
  calls,    \* the calls the loader has still to make
  loading,  \* "idle", "loading" or "loaded"
  loads, writes,
  alone,    \* history: the load has had the database to itself
  base      \* history: the database at the start of a load that repeats the last

loaderVars == <<doc, calls, loading, loads, writes, alone, base>>
vars == <<storageVars, loaderVars>>

\* The prefix.
Root == <<>>

\* The nodes of a document.
NoNode == [type |-> "Undefined"]
Null == [type |-> "Null"]
Scalar(v) == [type |-> "Scalar", value |-> v]
Sequence(items) == [type |-> "Sequence", items |-> items]
Map(entries) == [type |-> "Map", entries |-> entries]
Entry(first, second) == [first |-> first, second |-> second]

IsScalar(node) == node.type = "Scalar"
-----------------------------------------------------------------------------
(***************************************************************************)
(* yaml_to_storage                                                         *)
(***************************************************************************)
RECURSIVE yaml_to_storage(_, _)

SequenceEntry(path, entry) ==
  IF IsScalar(entry) THEN <<[op |-> "set_store", key |-> path, value |-> entry.value]>>
  ELSE yaml_to_storage(path, entry)

\* Mutant of MapEntry: as if virgin were reset by the first entry.
MapEntryFirst(path, entries, i) ==
  LET entry == entries[i]
      new_path == path \o entry.first
      virgin == \A j \in 1..(i - 1) : IsScalar(entries[j].second)
  IN  IF IsScalar(entry.second)
        THEN <<[op |-> "map_store", key |-> path, field |-> entry.first,
                value |-> entry.second.value]>>
        ELSE (IF virgin THEN <<[op |-> "del_key", key |-> new_path]>> ELSE <<>>)
               \o yaml_to_storage(new_path, entry.second)

\* idempotence is always true (the recursive calls do not pass it on) and virgin
\* is never reset: the old value is deleted before every entry that is no scalar.
MapEntry(path, entries, i) ==
  LET entry == entries[i]
      new_path == path \o entry.first
  IN  IF IsScalar(entry.second)
        THEN <<[op |-> "map_store", key |-> path, field |-> entry.first,
                value |-> entry.second.value]>>
        ELSE <<[op |-> "del_key", key |-> new_path]>>
               \o yaml_to_storage(new_path, entry.second)

\* The calls of the storage that loading node at path makes, in order.
yaml_to_storage(path, node) ==
  CASE node.type \in {"Null", "Undefined"} -> <<>>
    [] IsScalar(node) -> <<[op |-> "value_store", key |-> path, value |-> node.value]>>
    [] node.type = "Sequence" ->
         FlattenSeq([i \in DOMAIN node.items |-> SequenceEntry(path, node.items[i])])
    [] node.type = "Map" ->
         FlattenSeq([i \in DOMAIN node.entries |-> MapEntry(path, node.entries, i)])
-----------------------------------------------------------------------------
Init ==
  /\ StorageInit
  /\ doc = NoNode /\ calls = <<>> /\ loading = "idle"
  /\ loads = 0 /\ writes = 0
  /\ alone = TRUE /\ base = EmptyMap

\* main of yaml-redis-loader, up to yaml_to_storage.  (RedisStorage::init also
\* stores the time under a key of its own, which nothing here reads.)
LoadStarts(d) ==
  /\ loading \in {"idle", "loaded"}
  /\ loads < MaxLoads
  /\ doc' = d
  /\ calls' = yaml_to_storage(Root, d)
  /\ loading' = "loading"
  /\ loads' = loads + 1
  /\ alone' = TRUE
  /\ base' = IF loading = "loaded" /\ alone /\ doc = d THEN db ELSE EmptyMap
  /\ UNCHANGED <<storageVars, writes>>

Perform(call) ==
  CASE call.op = "value_store" -> value_store(call.key, call.value)
    [] call.op = "map_store" -> map_store(call.key, call.field, call.value)
    [] call.op = "set_store" -> set_store(call.key, call.value)
    [] call.op = "list_store" -> list_store(call.key, call.value)
    [] call.op = "del_key" -> del_key(call.key)

LoadStep ==
  /\ loading = "loading"
  /\ calls # <<>>
  /\ Perform(Head(calls))
  /\ calls' = Tail(calls)
  /\ UNCHANGED <<doc, loading, loads, writes, alone, base>>

LoadEnds ==
  /\ loading = "loading"
  /\ calls = <<>>
  /\ loading' = "loaded"
  /\ UNCHANGED <<storageVars, doc, calls, loads, writes, alone, base>>

\* The loader is killed, or its context fails: every further call returns false
\* without being sent, which yaml_to_storage ignores.
LoadBreaks ==
  /\ loading = "loading"
  /\ loading' = "idle"
  /\ calls' = <<>>
  /\ UNCHANGED <<storageVars, doc, loads, writes, alone, base>>

\* The MUD writes to the same database.
MudWrites ==
  /\ writes < MaxWrites
  /\ StorageActor
  /\ writes' = writes + 1
  /\ alone' = FALSE
  /\ UNCHANGED <<doc, calls, loading, loads, base>>

Next ==
  \/ \E d \in Documents : LoadStarts(d)
  \/ LoadStep \/ LoadEnds \/ LoadBreaks
  \/ MudWrites

Spec == Init /\ [][Next]_vars
-----------------------------------------------------------------------------
Maps == UNION {[F -> Values] : F \in SUBSET Fields}

\* Every variable has its type: Redis never holds an empty container, and no
\* storage call of a load or of the MUD mixes up keys, fields and values.
TypeOK ==
  /\ \A k \in Keys :
       \/ db[k] = nullopt
       \/ db[k].kind = "string" /\ db[k].val \in Values
       \/ db[k].kind = "hash" /\ db[k].val \in Maps \ {EmptyMap}
       \/ db[k].kind = "list" /\ db[k].val \in Seq(Values) \ {<<>>}
       \/ db[k].kind = "set" /\ db[k].val \in SUBSET Values \ {{}}
  /\ DOMAIN db = Keys
  /\ \A i \in 1..4 : DOMAIN mockVars[i] \subseteq Keys
  /\ loading \in {"idle", "loading", "loaded"}
  /\ loads \in 0..MaxLoads /\ writes \in 0..MaxWrites
  /\ mixed \in BOOLEAN /\ alone \in BOOLEAN

\* The database after a load of d into an empty one.
Loaded(d) ==
  LET Apply(state, call) ==
        CASE call.op = "value_store" -> RedisValueStore(state, call.key, call.value)
          [] call.op = "map_store" -> RedisMapStore(state, call.key, call.field, call.value)
          [] call.op = "set_store" -> RedisSetStore(state, call.key, call.value)
          [] call.op = "list_store" -> RedisListStore(state, call.key, call.value)
          [] call.op = "del_key" -> RedisDel(state, call.key)
  IN  FoldLeft(Apply, [k \in Keys |-> nullopt], yaml_to_storage(Root, d))

\* The paths below the prefix that document d writes to.
Named(d) == {call.key : call \in ToSet(yaml_to_storage(Root, d))} \ {Root}

\* A load that nobody interferes with leaves what its document says under every
\* path the document names, whatever was there: other documents, values of
\* another type, and the remains of loads that were cut off (yaml_to_storage
\* deletes a path before it writes to it).
LoadRepairs ==
  loading = "loaded" /\ alone => \A path \in Named(doc) : db[path] = Loaded(doc)[path]
=============================================================================
