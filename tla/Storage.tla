------------------------------- MODULE Storage -------------------------------
(***************************************************************************)
(* The Storage interface and its two implementations: RedisStorage, which  *)
(* the MUD runs on, and MockStorage, which its unit tests run on.  Each    *)
(* operation is performed on both, so that they can be compared.           *)
(* (event_store is in module Events; streams are not modelled.)            *)
(*                                                                         *)
(* External: Redis keeps one value of one type under a key; SET replaces   *)
(* it whatever it is, HSET, RPUSH and SADD refuse a key of another type    *)
(* with an error reply, DEL of a key that is not there is no error.        *)
(***************************************************************************)
EXTENDS Naturals, Sequences

CONSTANTS
  Keys,    \* the keys, and the names of containers
  Fields,  \* the keys inside a map
  Values

VARIABLES
  db,                           \* what Redis holds under each key
  m_kv, m_map, m_list, m_set,   \* MockStorage
  mixed                         \* history: a key has been used for two types

mockVars == <<m_kv, m_map, m_list, m_set>>
storageVars == <<db, mockVars, mixed>>

nullopt == [kind |-> "none"]

\* What a getter returns.
String(v) == [kind |-> "string", val |-> v]
Hash(m) == [kind |-> "hash", val |-> m]
List(s) == [kind |-> "list", val |-> s]
Set(s) == [kind |-> "set", val |-> s]

EmptyMap == [f \in {} |-> {}]
Empty(kind) ==
  CASE kind = "hash" -> Hash(EmptyMap) [] kind = "list" -> List(<<>>) [] kind = "set" -> Set({})

\* The map m with field f set to v, and without it.
With(m, f, v) == [g \in DOMAIN m \cup {f} |-> IF g = f THEN v ELSE m[g]]
Without(m, f) == [g \in DOMAIN m \ {f} |-> m[g]]

\* The container of that name, created on first use.
In(m, name, empty) == IF name \in DOMAIN m THEN m[name] ELSE empty
-----------------------------------------------------------------------------
(***************************************************************************)
(* RedisStorage: what each operation makes of the database d.  An error    *)
(* reply is a reply, and the operation returns true.                       *)
(***************************************************************************)
Accepts(d, key, kind) == d[key].kind \in {"none", kind}

\* The container under key if the command is accepted.
Held(d, key, kind) == IF d[key] = nullopt THEN Empty(kind).val ELSE d[key].val

\* Mutant of RedisMapStore: key and value of HSET exchanged.
RedisMapStoreSwapped(d, key, field, value) ==
  IF Accepts(d, key, "hash")
    THEN [d EXCEPT ![key] = Hash(With(Held(d, key, "hash"), value, field))] ELSE d

RedisValueStore(d, key, value) == [d EXCEPT ![key] = String(value)]
RedisMapStore(d, key, field, value) ==
  IF Accepts(d, key, "hash")
    THEN [d EXCEPT ![key] = Hash(With(Held(d, key, "hash"), field, value))] ELSE d
RedisListStore(d, key, value) ==
  IF Accepts(d, key, "list")
    THEN [d EXCEPT ![key] = List(Append(Held(d, key, "list"), value))] ELSE d
RedisSetStore(d, key, value) ==
  IF Accepts(d, key, "set")
    THEN [d EXCEPT ![key] = Set(Held(d, key, "set") \cup {value})] ELSE d
RedisDel(d, key) == [d EXCEPT ![key] = nullopt]

\* GET, HGETALL, LRANGE and SMEMBERS of a key of another type are answered
\* with an error, of a missing key with nil or with an empty array.
RedisGet(key, kind) ==
  CASE db[key].kind = kind -> db[key]
    [] db[key] = nullopt /\ kind # "string" -> Empty(kind)
    [] OTHER -> nullopt
-----------------------------------------------------------------------------
(***************************************************************************)
(* MockStorage: a table of its own for each kind.                          *)
(***************************************************************************)
MockValueStore(key, value) == m_kv' = With(m_kv, key, value) /\ UNCHANGED <<m_map, m_list, m_set>>
MockMapStore(key, field, value) ==
  /\ m_map' = With(m_map, key, With(In(m_map, key, EmptyMap), field, value))
  /\ UNCHANGED <<m_kv, m_list, m_set>>
MockListStore(key, value) ==
  /\ m_list' = With(m_list, key, Append(In(m_list, key, <<>>), value))
  /\ UNCHANGED <<m_kv, m_map, m_set>>
MockSetStore(key, value) ==
  /\ m_set' = With(m_set, key, In(m_set, key, {}) \cup {value})
  /\ UNCHANGED <<m_kv, m_map, m_list>>

\* Mutant of MockDel: forgets the sets.
MockDelNoSets(key) ==
  /\ m_kv' = Without(m_kv, key)
  /\ m_map' = Without(m_map, key)
  /\ m_list' = Without(m_list, key)
  /\ UNCHANGED m_set

\* Only the first table that has the key loses it.
MockDel(key) ==
  IF key \in DOMAIN m_kv
    THEN m_kv' = Without(m_kv, key) /\ UNCHANGED <<m_map, m_list, m_set>>
  ELSE IF key \in DOMAIN m_map
    THEN m_map' = Without(m_map, key) /\ UNCHANGED <<m_kv, m_list, m_set>>
  ELSE IF key \in DOMAIN m_list
    THEN m_list' = Without(m_list, key) /\ UNCHANGED <<m_kv, m_map, m_set>>
  ELSE m_set' = Without(m_set, key) /\ UNCHANGED <<m_kv, m_map, m_list>>

MockGet(key, kind) ==
  CASE kind = "string" /\ key \in DOMAIN m_kv -> String(m_kv[key])
    [] kind = "hash" /\ key \in DOMAIN m_map -> Hash(m_map[key])
    [] kind = "list" /\ key \in DOMAIN m_list -> List(m_list[key])
    [] kind = "set" /\ key \in DOMAIN m_set -> Set(m_set[key])
    [] OTHER -> nullopt
-----------------------------------------------------------------------------
(***************************************************************************)
(* The operations of the interface, on both implementations.               *)
(***************************************************************************)
Uses(key, kind) == mixed' = (mixed \/ ~Accepts(db, key, kind))

value_store(key, value) ==
  /\ db' = RedisValueStore(db, key, value)
  /\ MockValueStore(key, value)
  /\ Uses(key, "string")

map_store(key, field, value) ==
  /\ db' = RedisMapStore(db, key, field, value)
  /\ MockMapStore(key, field, value)
  /\ Uses(key, "hash")

list_store(key, value) ==
  /\ db' = RedisListStore(db, key, value)
  /\ MockListStore(key, value)
  /\ Uses(key, "list")

set_store(key, value) ==
  /\ db' = RedisSetStore(db, key, value)
  /\ MockSetStore(key, value)
  /\ Uses(key, "set")

del_key(key) ==
  /\ db' = RedisDel(db, key)
  /\ MockDel(key)
  /\ UNCHANGED mixed

\* The messages of the StorageActor that change what is stored; it ignores what
\* the operation returns.  (StorageNoop and the Get messages change nothing.)
StorageActor ==
  \E key \in Keys, value \in Values :
    \/ value_store(key, value)
    \/ \E field \in Fields : map_store(key, field, value)
    \/ list_store(key, value)
    \/ set_store(key, value)

StorageInit ==
  /\ db = [k \in Keys |-> nullopt]
  /\ m_kv = EmptyMap /\ m_map = EmptyMap /\ m_list = EmptyMap /\ m_set = EmptyMap
  /\ mixed = FALSE

\* Any call of the interface that changes what is stored.
StorageCall == StorageActor \/ \E key \in Keys : del_key(key)

\* Any sequence of calls, whoever makes them: the MUD, a loader or a test.
StorageSpec == StorageInit /\ [][StorageCall]_storageVars
-----------------------------------------------------------------------------
\* A missing container: MockStorage says nullopt where Redis has an empty reply.
Missing(reply) == reply = nullopt \/ reply \in {Empty("hash"), Empty("list"), Empty("set")}

\* What a test finds in MockStorage is what RedisStorage would return, after any
\* calls and loads in which no key is used for two types (mock_storage.h keeps
\* the types apart, Redis does not), but for the form of a missing container.
MockFaithful ==
  ~mixed => \A k \in Keys, kind \in {"string", "hash", "list", "set"} :
    \/ RedisGet(k, kind) = MockGet(k, kind)
    \/ Missing(RedisGet(k, kind)) /\ Missing(MockGet(k, kind))
=============================================================================
