------------------------------- MODULE LruCache -------------------------------
(***************************************************************************)
(* App::Common::LruCache: a list of entries, the last one used first, and  *)
(* a hash map from keys to iterators into that list.  Every method holds   *)
(* the mutex and is one action.  An iterator is modelled by the list node  *)
(* it points to, so that one that outlives its node is told apart from one *)
(* that does not.  The values (always true in this program) are left out.  *)
(***************************************************************************)
EXTENDS Naturals, Sequences, FiniteSets, SequencesExt

CONSTANTS
    NoNode,    \* no node
    Key,
    Node,      \* the nodes of the list: heap cells
    MaxSize,   \* _max_size
    MaxUses    \* bound on the puts and gets, for model checking

ASSUME CacheAssumption ==
    /\ NoNode \notin Node
    /\ MaxSize \in Nat \ {0}
    /\ MaxUses \in Nat
    /\ IsFiniteSet(Node) /\ Cardinality(Node) >= MaxSize + 2

VARIABLES
    list,      \* _cache_items_list: its nodes, from front to back
    key,       \* the key in each node
    map,       \* _cache_items_map: the node of each key
    uses,      \* history: how many puts and gets there were
    lastUse    \* history: when each key was last used since clear, 0 if not

cacheVars == <<list, key, map, uses, lastUse>>

NodesOf(s) == {s[i] : i \in DOMAIN s}

\* At most MaxSize nodes are left when a method returns.
CacheTypeOK ==
    /\ list \in Seq(Node) /\ Len(list) <= MaxSize
    /\ key \in [Node -> Key]
    /\ map \in [Key -> Node \union {NoNode}]
    /\ uses \in 0..MaxUses
    /\ lastUse \in [Key -> 0..MaxUses]

CacheInit ==
    /\ list = <<>>
    /\ key \in [Node -> Key]
    /\ map = [k \in Key |-> NoNode]
    /\ uses = 0
    /\ lastUse = [k \in Key |-> 0]

-----------------------------------------------------------------------------

Mapped(m) == {k \in Key : m[k] # NoNode}

Unlinked(s, n) == RemoveFirst(s, n)

Touch(k) ==
    /\ uses < MaxUses
    /\ uses' = uses + 1
    /\ lastUse' = [lastUse EXCEPT ![k] = uses + 1]

\* Over the limit, the last node of the list s goes, and its key in the map m.
\* The limit is tested on the map and the node taken from the list.
Evict(s, m) ==
    IF Cardinality(Mapped(m)) > MaxSize
      THEN /\ list' = SubSeq(s, 1, Len(s) - 1)
           /\ map' = [m EXCEPT ![key'[s[Len(s)]]] = NoNode]
      ELSE list' = s /\ map' = m

\* Mutant: put leaves the old node of a key it holds in the list.
PutTwice(k) ==
    \E n \in Node \ NodesOf(list) :
        /\ key' = [key EXCEPT ![n] = k]
        /\ Evict(<<n>> \o list, [map EXCEPT ![k] = n])
        /\ Touch(k)

\* put: the new node is pushed to the front before the old one is erased
\* through its iterator.
Put(k) ==
    \E n \in Node \ NodesOf(list) :
        /\ key' = [key EXCEPT ![n] = k]
        /\ Evict(<<n>> \o Unlinked(list, map[k]), [map EXCEPT ![k] = n])
        /\ Touch(k)

\* get: the node is spliced to the front.
Get(k) ==
    /\ map[k] # NoNode
    /\ list' = <<map[k]>> \o Unlinked(list, map[k])
    /\ Touch(k)
    /\ UNCHANGED <<key, map>>

\* A get of a key that is not cached throws, and exists leaves the order.
GetMissing(k) == map[k] = NoNode /\ UNCHANGED cacheVars

Exists(k) == map[k] # NoNode

\* Mutant: the map keeps its iterators.
ClearList ==
    /\ list' = <<>>
    /\ lastUse' = [k \in Key |-> 0]
    /\ UNCHANGED <<key, map, uses>>

Clear ==
    /\ list' = <<>>
    /\ map' = [k \in Key |-> NoNode]
    /\ lastUse' = [k \in Key |-> 0]
    /\ UNCHANGED <<key, uses>>

CacheNext ==
    \/ \E k \in Key : Put(k) \/ Get(k) \/ GetMissing(k)
    \/ Clear

CacheSpec == CacheInit /\ [][CacheNext]_cacheVars

-----------------------------------------------------------------------------
(* Properties.                                                             *)

\* The list and the map describe the same cache: no iterator dangles, no node
\* is linked twice, and each linked node is the one its key is mapped to (put,
\* get, eviction and clear change the two structures separately).
IndexExact ==
    /\ \A i, j \in DOMAIN list : list[i] = list[j] => i = j
    /\ \A i \in DOMAIN list : map[key[list[i]]] = list[i]
    /\ \A k \in Key : Exists(k) =>
          map[k] \in NodesOf(list) /\ key[map[k]] = k

\* Nothing is forgotten but the key that was not used for the longest time,
\* and that only when the cache is full: every key cached was used after every
\* key that is not.
MostRecentKept ==
    \A j \in Key : lastUse[j] > 0 /\ ~Exists(j) =>
        /\ Cardinality(Mapped(map)) = MaxSize
        /\ \A k \in Mapped(map) : lastUse[k] > lastUse[j]

\* The cache is well typed, its list and its map agree, and it holds the keys
\* that were used last.
CacheInv == CacheTypeOK /\ IndexExact /\ MostRecentKept

Recency == INSTANCE RecencyList
             WITH recent <- [i \in DOMAIN list |-> key[list[i]]]

\* The cache behaves as a list of the keys that were last used.
ImplementsRecency == Recency!RecencySpec
=============================================================================
