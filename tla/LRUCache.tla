------------------------------ MODULE LRUCache ------------------------------
(***************************************************************************)
(* The LRUCache of internal/cache/cache.go: a Go map of items chained into *)
(* a doubly linked list between two sentinels, head.next being the most    *)
(* recently used.  Each method runs under the cache's mutex, so an action  *)
(* is a whole method.  An item lives only while the map holds it, so it is *)
(* named by its key; Front and Back are the sentinels.                      *)
(***************************************************************************)
EXTENDS Naturals, FiniteSets, Functions

CONSTANTS Keys, Values, Capacity, NoValue, Front, Back, Nil

ASSUME CacheAssumption == /\ Capacity \in Nat \ {0}
                          /\ NoValue \notin Values
                          /\ {Front, Back, Nil} \cap Keys = {}
                          /\ Cardinality({Front, Back, Nil}) = 3

Nodes == Keys \cup {Front, Back}

VARIABLES items,    \* the keys of the map
          value,    \* the Value of each item
          expired,  \* the items whose Expiration is not in the future
          links,    \* the next and prev pointer of each node
          answer    \* what the last Get returned

vars == <<items, value, expired, links, answer>>

-----------------------------------------------------------------------------
(* Pointer surgery: each operator maps the links before to the links after. *)

NewLinks == [next |-> [n \in Nodes |-> IF n = Front THEN Back ELSE Nil],
             prev |-> [n \in Nodes |-> IF n = Back THEN Front ELSE Nil]]

AddToFront(l, n) ==
  LET first == l.next[Front]
  IN  [next |-> [l.next EXCEPT ![n] = first, ![Front] = n],
       prev |-> [l.prev EXCEPT ![n] = Front, ![first] = n]]

\* Mutated form: the neighbour's back pointer is forgotten.
Remove_OneWay(l, n) ==
  [next |-> [l.next EXCEPT ![l.prev[n]] = l.next[n], ![n] = Nil],
   prev |-> [l.prev EXCEPT ![n] = Nil]]

Remove(l, n) ==
  [next |-> [l.next EXCEPT ![l.prev[n]] = l.next[n], ![n] = Nil],
   prev |-> [l.prev EXCEPT ![l.next[n]] = l.prev[n], ![n] = Nil]]

\* Mutated form: a used item stays where it is.
MoveToFront_Stays(l, n) == l

MoveToFront(l, n) == AddToFront(Remove(l, n), n)

\* The loop of cleanupExpired, which removes the nodes in the order of s.
RemoveAll(l, s) ==
  LET after[i \in 0 .. Cardinality(DOMAIN s)] ==
        IF i = 0 THEN l ELSE Remove(after[i - 1], s[i])
  IN  after[Cardinality(DOMAIN s)]

\* The item evict would take: the one before the tail, if any.
Oldest(l) == l.prev[Back]

-----------------------------------------------------------------------------
Init == /\ items = {}
        /\ value = [k \in Keys |-> NoValue]
        /\ expired = {}
        /\ links = NewLinks
        /\ answer = NoValue

\* delete(c.items, key) for each key.
Forget(ks) == /\ items' = items \ ks
              /\ value' = [k \in Keys |-> IF k \in ks THEN NoValue ELSE value[k]]
              /\ expired' = expired \ ks

\* A non-positive duration gives an Expiration that is already past.
Freshness(ks, k, positive) == IF positive THEN ks \ {k} ELSE ks \cup {k}

SetExisting(k, v, positive) ==
  /\ k \in items
  /\ value' = [value EXCEPT ![k] = v]
  /\ expired' = Freshness(expired, k, positive)
  /\ links' = MoveToFront(links, k)
  /\ UNCHANGED <<items, answer>>

\* The new item is linked and counted before the oldest is evicted.
SetNew(k, v, positive) ==
  LET added == AddToFront(links, k)
      full == Cardinality(items \cup {k}) > Capacity
      victims == IF full THEN {Oldest(added)} ELSE {}
  IN  /\ k \notin items
      /\ items' = (items \cup {k}) \ victims
      /\ value' = [j \in Keys |-> IF j \in victims THEN NoValue
                                  ELSE IF j = k THEN v ELSE value[j]]
      /\ expired' = Freshness(expired, k, positive) \ victims
      /\ links' = IF full THEN Remove(added, Oldest(added)) ELSE added
      /\ UNCHANGED answer

GetMiss(k) == /\ k \notin items
              /\ answer' = NoValue
              /\ UNCHANGED <<items, value, expired, links>>

GetExpired(k) == /\ k \in items \cap expired
                 /\ answer' = NoValue
                 /\ links' = Remove(links, k)
                 /\ Forget({k})

GetHit(k) == /\ k \in items \ expired
             /\ answer' = value[k]
             /\ links' = MoveToFront(links, k)
             /\ UNCHANGED <<items, value, expired>>

Delete(k) == /\ links' = IF k \in items THEN Remove(links, k) ELSE links
             /\ Forget({k} \cap items)
             /\ UNCHANGED answer

\* A range over a Go map meets its keys in any order.
CleanupExpired ==
  /\ \E order \in Bijection(1 .. Cardinality(expired), expired) :
       links' = RemoveAll(links, order)
  /\ Forget(expired)
  /\ UNCHANGED answer

Clear == /\ items' = {}
         /\ value' = [k \in Keys |-> NoValue]
         /\ expired' = {}
         /\ links' = NewLinks
         /\ UNCHANGED answer

\* The clock reaches an item's Expiration.
Expire(k) == /\ k \in items \ expired
             /\ expired' = expired \cup {k}
             /\ UNCHANGED <<items, value, links, answer>>

Next ==
  \/ \E k \in Keys : \/ GetMiss(k) \/ GetExpired(k) \/ GetHit(k)
                     \/ Delete(k) \/ Expire(k)
                     \/ \E v \in Values, positive \in BOOLEAN :
                          SetExisting(k, v, positive) \/ SetNew(k, v, positive)
  \/ CleanupExpired \/ Clear

Spec == Init /\ [][Next]_vars

-----------------------------------------------------------------------------
(* Properties.                                                             *)

TypeOK == /\ items \subseteq Keys
          /\ value \in [Keys -> Values \cup {NoValue}]
          /\ expired \subseteq items
          /\ \A k \in Keys : k \in items <=> value[k] # NoValue
          /\ links \in [next : [Nodes -> Nodes \cup {Nil}],
                        prev : [Nodes -> Nodes \cup {Nil}]]
          /\ answer \in Values \cup {NoValue}

\* The nodes that following the pointers of step from n meets: the least set
\* that has the next node and, with a node, the one that follows it.
After(step, n) ==
  LET closed == {S \in SUBSET Nodes : \A p \in S \cup {n} : step[p] \in S \cup {Nil}}
  IN  {m \in Nodes : \A S \in closed : m \in S}

\* The list and the map hold the same items, no item is met twice, the list
\* reads the same from both ends, and the capacity is respected, after every
\* method: pointer surgery in remove, addToFront and evict never strands or
\* doubles an item.
WellFormed ==
  /\ TypeOK
  /\ After(links.next, Front) = items \cup {Back}
  /\ After(links.prev, Back) = items \cup {Front}
  /\ \A n \in items \cup {Front, Back} :
       /\ n \notin After(links.next, n)
       /\ \A m \in items \cup {Front, Back} :
            m \in After(links.next, n) <=> n \in After(links.prev, m)
  /\ Cardinality(items) <= Capacity

\* The linked list implements the abstract store: the values a Get returns and
\* the entries an overflow forgets are those of a least-recently-used map.
Newer == UNION {{k} \X (items \cap After(links.next, k)) : k \in items}
Store == INSTANCE LRUStore WITH newer <- Newer, stale <- expired
StoreSpec == Store!Spec
=============================================================================
