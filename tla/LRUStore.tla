------------------------------ MODULE LRUStore ------------------------------
(***************************************************************************)
(* What the LRU cache of internal/cache promises: a map from keys to       *)
(* values that holds at most Capacity entries, forgets the least recently  *)
(* used one to make room, and never answers with an entry whose TTL is     *)
(* over.  Which of two entries was used last is a relation; LRUCache       *)
(* implements it with a doubly linked list.                                *)
(***************************************************************************)
EXTENDS Naturals, FiniteSets

CONSTANTS Keys, Values,
          Capacity,   \* the number of entries kept, at least one
          NoValue     \* not a value

VARIABLES newer,     \* <<k, j>>: both are cached, and k was used after j
          value,     \* the value of each cached key
          stale,     \* the cached keys whose TTL is over
          answer     \* what the last Get returned

storeVars == <<newer, value, stale, answer>>

Cached == {k \in Keys : value[k] # NoValue}
Among(order, keys) == order \cap (keys \X keys)

\* The recency of the keys after a use of k, which may be a new one.
Used(k) == Among(newer, Cached \ {k}) \cup ({k} \X (Cached \ {k}))

Init == /\ newer = {}
        /\ value = [k \in Keys |-> NoValue]
        /\ stale = {}
        /\ answer = NoValue

\* What stays when k is set: the others and k, but if this is one too many, not
\* the one that every other is newer than.
Kept(k) ==
  LET all == Cached \cup {k}
      used == Used(k)
  IN  IF Cardinality(all) <= Capacity THEN all
      ELSE {j \in all : \E i \in all : <<j, i>> \in used}

\* The entry becomes the most recent.  A TTL that is not positive is over at once.
Set(k, v, positive) ==
  /\ UNCHANGED answer
  /\ newer' = Among(Used(k), Kept(k))
  /\ value' = [j \in Keys |-> IF j \notin Kept(k) THEN NoValue
                              ELSE IF j = k THEN v ELSE value[j]]
  /\ stale' = {j \in Kept(k) : IF j = k THEN ~positive ELSE j \in stale}

Drop(keys) == /\ newer' = Among(newer, Cached \ keys)
              /\ value' = [k \in Keys |-> IF k \in keys THEN NoValue ELSE value[k]]
              /\ stale' = stale \ keys

\* A hit makes the entry the most recent; a stale entry is dropped instead.
Get(k) == \/ /\ k \in Cached \ stale
             /\ answer' = value[k]
             /\ newer' = Used(k)
             /\ UNCHANGED <<value, stale>>
          \/ /\ k \notin Cached \ stale
             /\ answer' = NoValue
             /\ Drop({k})

Delete(k) == UNCHANGED answer /\ Drop({k})
CleanupExpired == UNCHANGED answer /\ Drop(stale)
Clear == UNCHANGED answer /\ Drop(Keys)

\* The TTL of an entry runs out.
Expire(k) == /\ k \in Cached \ stale
             /\ stale' = stale \cup {k}
             /\ UNCHANGED <<newer, value, answer>>

Next == \/ \E k \in Keys : \/ Get(k) \/ Delete(k) \/ Expire(k)
                           \/ \E v \in Values, positive \in BOOLEAN : Set(k, v, positive)
        \/ CleanupExpired \/ Clear

Spec == Init /\ [][Next]_storeVars
=============================================================================
