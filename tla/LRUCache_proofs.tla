-------------------------- MODULE LRUCache_proofs --------------------------
(***************************************************************************)
(* Proofs for LRUCache.  Pointers are reasoned about one direction at a    *)
(* time: Steps(step, N, order, last) says that following step from a node  *)
(* of N meets exactly the nodes that the strict total order puts behind    *)
(* it, up to last.  The list is linked when its next pointers step along   *)
(* an order and its prev pointers along the inverse one.                   *)
(***************************************************************************)
EXTENDS LRUCache, FiniteSetTheorems, TLAPS

Orders(R, N) ==
  /\ R \subseteq N \X N
  /\ \A n \in N : <<n, n>> \notin R
  /\ \A n, m \in N : n # m => <<n, m>> \in R \/ <<m, n>> \in R
  /\ \A n, m, p \in N : <<n, m>> \in R /\ <<m, p>> \in R => <<n, p>> \in R

Steps(step, N, R, last) ==
  /\ step \in [Nodes -> Nodes \cup {Nil}]
  /\ N \subseteq Nodes /\ last \in N
  /\ Orders(R, N)
  /\ step[last] = Nil
  /\ \A n \in N \ {last} :
       /\ <<n, last>> \in R
       /\ step[n] \in N /\ <<n, step[n]>> \in R
       /\ \A m \in N : <<n, m>> \in R => m = step[n] \/ <<step[n], m>> \in R

Turned(R) == {<<p[2], p[1]>> : p \in R}

-----------------------------------------------------------------------------
(* Finite sets.                                                            *)

\* Induction over the naturals, as a fact about sets of them.
LEMMA Induction ==
  ASSUME NEW P \in SUBSET Nat, 0 \in P, \A n \in P : n + 1 \in P
  PROVE  \A n \in Nat : n \in P
<1> SUFFICES ASSUME NEW N \in Nat, N \notin P PROVE FALSE
  OBVIOUS
<1> DEFINE Q == (0 .. N) \cap P
<1> DEFINE R == Q \ {0}
<1> DEFINE f == [x \in Q |-> x + 1]
<1>1. IsFiniteSet(Q)
  <2>1. IsFiniteSet(0 .. N)  BY FS_Interval
  <2>2. Q \subseteq 0 .. N   OBVIOUS
  <2> HIDE DEF Q
  <2> QED BY <2>1, <2>2, FS_Subset
<1>2. f \in Injection(Q, R)
  BY DEF Injection, IsInjective
<1>3. 0 \in Q
  OBVIOUS
<1> HIDE DEF Q
<1>4. IsFiniteSet(R) /\ Cardinality(R) = Cardinality(Q) - 1 /\ Cardinality(Q) \in Nat
  BY <1>1, <1>3, FS_RemoveElement, FS_CardinalityType
<1> HIDE DEF R, f
<1>5. Cardinality(Q) <= Cardinality(R)
  BY <1>2, <1>4, FS_Injection
<1> QED BY <1>4, <1>5

\* A nonempty finite part of an ordered set has a first element.
LEMMA HasFirst ==
  ASSUME NEW N, NEW R, Orders(R, N), NEW B \in SUBSET N, IsFiniteSet(B), B # {}
  PROVE  \E b \in B : \A c \in B : <<c, b>> \notin R
<1> DEFINE First(C) == \E b \in C : \A c \in C : <<c, b>> \notin R
<1> DEFINE P == {n \in Nat : \A C \in SUBSET B : Cardinality(C) = n + 1 => First(C)}
<1>1. 0 \in P
  <2> SUFFICES ASSUME NEW C \in SUBSET B, Cardinality(C) = 1 PROVE First(C)
    OBVIOUS
  <2>1. IsFiniteSet(C)  BY FS_Subset
  <2>2. PICK x : C = {x}  BY <2>1, FS_Singleton
  <2> QED BY <2>2 DEF Orders
<1>2. ASSUME NEW n \in P PROVE n + 1 \in P
  <2> SUFFICES ASSUME NEW C \in SUBSET B, Cardinality(C) = n + 1 + 1 PROVE First(C)
    OBVIOUS
  <2>1. IsFiniteSet(C)  BY FS_Subset
  <2>2. n \in Nat /\ C # {}
    <3>1. Cardinality({}) = 0  BY FS_EmptySet
    <3> QED BY <3>1
  <2>3. PICK x : x \in C  BY <2>2
  <2>4. C \ {x} \in SUBSET B /\ Cardinality(C \ {x}) = n + 1
    <3>1. Cardinality(C \ {x}) = Cardinality(C) - 1
      BY <2>1, <2>3, FS_RemoveElement
    <3> QED BY <2>2, <3>1
  <2>5. First(C \ {x})  BY <2>4
  <2>6. PICK b \in C \ {x} : \A c \in C \ {x} : <<c, b>> \notin R  BY <2>5
  <2>7. x \in N /\ b \in N /\ C \subseteq N  BY <2>3, <2>6
  <2>8. CASE <<x, b>> \in R
    <3>1. \A c \in C \ {x} : <<c, x>> \notin R  BY <2>6, <2>7, <2>8 DEF Orders
    <3> QED BY <2>3, <2>7, <3>1 DEF Orders
  <2>9. CASE <<x, b>> \notin R
    BY <2>6, <2>9
  <2> QED BY <2>8, <2>9
<1> HIDE DEF First
<1>3. \A n \in Nat : n \in P
  <2>1. P \in SUBSET Nat /\ \A n \in P : n + 1 \in P  BY <1>2
  <2> HIDE DEF P
  <2> QED BY <1>1, <2>1, Induction
<1>4. Cardinality(B) \in Nat \ {0}
  BY FS_CardinalityType, FS_EmptySet
<1>5. Cardinality(B) - 1 \in P /\ Cardinality(B) = Cardinality(B) - 1 + 1
  BY <1>3, <1>4
<1>6. First(B)
  BY <1>5
<1> QED BY <1>6 DEF First

LEMMA TurnedOrders ==
  ASSUME NEW N, NEW R, Orders(R, N)
  PROVE  /\ Orders(Turned(R), N)
         /\ \A n, m : <<n, m>> \in Turned(R) <=> <<m, n>> \in R
<1>1. ASSUME NEW n, NEW m PROVE <<n, m>> \in Turned(R) <=> <<m, n>> \in R
  <2>1. ASSUME <<m, n>> \in R PROVE <<n, m>> \in Turned(R)
    <3>1. <<m, n>>[1] = m /\ <<m, n>>[2] = n  OBVIOUS
    <3> QED BY <2>1, <3>1 DEF Turned
  <2>2. ASSUME <<n, m>> \in Turned(R) PROVE <<m, n>> \in R
    <3>1. PICK p \in R : <<n, m>> = <<p[2], p[1]>>  BY <2>2 DEF Turned
    <3>2. p \in N \X N  BY DEF Orders
    <3>3. n = p[2] /\ m = p[1]  BY <3>1
    <3>4. p = <<m, n>>  BY <3>2, <3>3
    <3> QED BY <3>4
  <2> QED BY <2>1, <2>2
<1>2. Turned(R) \subseteq N \X N
  BY DEF Turned, Orders
<1> QED BY <1>1, <1>2 DEF Orders

-----------------------------------------------------------------------------
(* Following pointers.                                                     *)

\* What follows a node is what the order puts behind it.
LEMMA Following ==
  ASSUME NEW step, NEW N, NEW R, NEW last, Steps(step, N, R, last), IsFiniteSet(N),
         Nil \notin Nodes, NEW n \in N
  PROVE  After(step, n) = {m \in N : <<n, m>> \in R}
<1> DEFINE T == {m \in N : <<n, m>> \in R}
<1>1. T \in SUBSET Nodes
  BY DEF Steps
<1>2. \A p \in T \cup {n} : step[p] \in T \cup {Nil}
  BY DEF Steps, Orders
<1>3. After(step, n) \subseteq T
  BY <1>1, <1>2 DEF After
<1>4. ASSUME NEW S \in SUBSET Nodes, \A p \in S \cup {n} : step[p] \in S \cup {Nil}
      PROVE  T \subseteq S
  <2> SUFFICES ASSUME T \ S # {} PROVE FALSE
    OBVIOUS
  <2>1. IsFiniteSet(T \ S) /\ T \ S \in SUBSET N
    <3>1. T \ S \subseteq N  OBVIOUS
    <3> HIDE DEF T
    <3> QED BY <3>1, FS_Subset
  <2>2. Orders(R, N)  BY DEF Steps
  <2>3. PICK b \in T \ S : \A c \in T \ S : <<c, b>> \notin R
    <3> HIDE DEF T
    <3> QED BY <2>1, <2>2, HasFirst
  <2> DEFINE Q == {p \in T \cup {n} : <<p, b>> \in R}
  <2>4. Q \in SUBSET N /\ Q # {} /\ IsFiniteSet(Q)
    <3>1. Q \subseteq N /\ n \in Q  OBVIOUS
    <3> HIDE DEF Q
    <3> QED BY <3>1, FS_Subset
  <2>5. PICK p \in Q : \A q \in Q : <<p, q>> \notin R
    <3>1. Orders(Turned(R), N) /\ \A x, y : <<x, y>> \in Turned(R) <=> <<y, x>> \in R
      BY <2>2, TurnedOrders
    <3> HIDE DEF Q
    <3>2. \E p \in Q : \A q \in Q : <<q, p>> \notin Turned(R)
      <4> DEFINE U == Turned(R)
      <4>1. Orders(U, N)  BY <3>1
      <4> HIDE DEF U
      <4>2. \E p \in Q : \A q \in Q : <<q, p>> \notin U  BY <2>4, <4>1, HasFirst
      <4> QED BY <4>2 DEF U
    <3> QED BY <3>1, <3>2
  <2>6. /\ p \in T \cup {n} /\ p \in N /\ <<p, b>> \in R
        /\ b \in N /\ <<n, b>> \in R /\ b \notin S
    BY <2>3, <2>5
  <2>7. p \in S \cup {n}
    BY <2>3, <2>6
  <2>8. p # last
    BY <2>2, <2>6 DEF Steps, Orders
  <2>9. step[p] \in N /\ <<p, step[p]>> \in R /\ (b = step[p] \/ <<step[p], b>> \in R)
    BY <2>6, <2>8 DEF Steps
  <2>10. step[p] \in S
    <3>1. step[p] # Nil  BY <2>9 DEF Steps
    <3> QED BY <1>4, <2>7, <3>1
  <2>11. step[p] \in T
    BY <2>2, <2>6, <2>9 DEF Orders
  <2> QED BY <2>5, <2>6, <2>9, <2>10, <2>11
<1> QED BY <1>1, <1>3, <1>4 DEF After

\* What follows the node before a node is that node.
LEMMA Neighbours ==
  ASSUME NEW step, NEW back, NEW N, NEW R, NEW Q, NEW first, NEW last,
         Steps(step, N, R, last), Steps(back, N, Q, first),
         \A n, m \in N : <<n, m>> \in Q <=> <<m, n>> \in R,
         NEW k \in N \ {first}
  PROVE  back[k] \in N \ {last} /\ step[back[k]] = k
<1>1. back[k] \in N /\ <<back[k], k>> \in R
  BY DEF Steps
<1>2. Orders(R, N) /\ last \in N
  BY DEF Steps
<1>3. back[k] # last
  <2>1. k # last => <<k, last>> \in R  BY DEF Steps
  <2> QED BY <1>1, <1>2, <2>1 DEF Orders
<1>4. /\ step[back[k]] \in N /\ <<back[k], step[back[k]]>> \in R
      /\ k = step[back[k]] \/ <<step[back[k]], k>> \in R
  BY <1>1, <1>3 DEF Steps
<1>5. ASSUME <<step[back[k]], k>> \in R PROVE FALSE
  <2>1. <<k, step[back[k]]>> \in Q  BY <1>4, <1>5
  <2>2. step[back[k]] = back[k] \/ <<back[k], step[back[k]]>> \in Q
    BY <1>4, <2>1 DEF Steps
  <2> QED BY <1>1, <1>2, <1>4, <2>2 DEF Orders
<1> QED BY <1>1, <1>3, <1>4, <1>5

\* A node is taken out: the node before it gets its successor.
LEMMA Unlinked ==
  ASSUME NEW step, NEW N, NEW R, NEW last, Steps(step, N, R, last),
         NEW k \in N \ {last}, NEW q \in N \ {last}, step[q] = k,
         NEW R2, R2 \subseteq (N \ {k}) \X (N \ {k}),
         \A n, m \in N \ {k} : <<n, m>> \in R2 <=> <<n, m>> \in R
  PROVE  Steps([step EXCEPT ![q] = step[k], ![k] = Nil], N \ {k}, R2, last)
<1> DEFINE st == [step EXCEPT ![q] = step[k], ![k] = Nil]
<1>1. Orders(R, N) /\ step \in [Nodes -> Nodes \cup {Nil}] /\ N \subseteq Nodes
  BY DEF Steps
<1>2. Orders(R2, N \ {k})
  BY <1>1 DEF Orders
<1>3. q # k
  BY <1>1 DEF Steps, Orders
<1>4. st \in [Nodes -> Nodes \cup {Nil}]
  BY <1>1
<1>5. \A n \in Nodes \ {k} : st[n] = IF n = q THEN step[k] ELSE step[n]
  BY <1>1
<1> HIDE DEF st
<1>6. ASSUME NEW n \in N \ {last}, n # k
      PROVE  /\ <<n, last>> \in R2
             /\ st[n] \in N \ {k} /\ <<n, st[n]>> \in R2
             /\ \A m \in N \ {k} : <<n, m>> \in R2 => m = st[n] \/ <<st[n], m>> \in R2
  <2>1. /\ step[n] \in N /\ <<n, last>> \in R /\ <<n, step[n]>> \in R
        /\ \A m \in N : <<n, m>> \in R => m = step[n] \/ <<step[n], m>> \in R
        /\ last \in N
    BY DEF Steps
  <2>2. /\ step[k] \in N /\ <<k, step[k]>> \in R
        /\ \A m \in N : <<k, m>> \in R => m = step[k] \/ <<step[k], m>> \in R
    BY DEF Steps
  <2>3. CASE n = q
    <3>1. st[n] = step[k] /\ step[k] # k /\ <<n, k>> \in R
      BY <1>1, <1>5, <2>1, <2>2, <2>3 DEF Orders
    <3>2. <<n, step[k]>> \in R
      BY <1>1, <2>2, <3>1 DEF Orders
    <3>3. \A m \in N \ {k} : <<n, m>> \in R => m = st[n] \/ <<st[n], m>> \in R
      BY <2>1, <2>2, <2>3, <3>1
    <3> QED BY <2>1, <2>2, <3>1, <3>2, <3>3, <1>6
  <2>4. CASE n # q
    <3>1. step[n] # k
      <4>1. ASSUME step[n] = k PROVE FALSE
        <5>1. /\ <<n, k>> \in R /\ <<q, k>> \in R
              /\ \A m \in N : <<q, m>> \in R => m = k \/ <<k, m>> \in R
              /\ \A m \in N : <<n, m>> \in R => m = k \/ <<k, m>> \in R
          BY <2>1, <4>1 DEF Steps
        <5>2. <<n, q>> \in R \/ <<q, n>> \in R  BY <1>1, <2>4 DEF Orders
        <5>3. <<k, q>> \in R \/ <<k, n>> \in R  BY <1>3, <1>6, <5>1, <5>2
        <5> QED BY <1>1, <5>1, <5>3 DEF Orders
      <4> QED BY <4>1
    <3>2. st[n] = step[n]  BY <1>1, <1>5, <1>6, <2>4
    <3> QED BY <2>1, <3>1, <3>2, <1>6
  <2> QED BY <2>3, <2>4
<1>7. st[last] = Nil /\ last \in N \ {k} /\ N \ {k} \subseteq Nodes
  BY <1>1, <1>5 DEF Steps
<1>8. Steps(st, N \ {k}, R2, last)
  BY <1>2, <1>4, <1>6, <1>7 DEF Steps
<1> QED BY <1>8 DEF st

\* A node is put in after q.
LEMMA Linked ==
  ASSUME NEW step, NEW N, NEW R, NEW last, Steps(step, N, R, last),
         NEW k \in Nodes \ N, NEW q \in N \ {last},
         NEW R2, R2 \subseteq (N \cup {k}) \X (N \cup {k}), <<k, k>> \notin R2,
         \A n, m \in N : <<n, m>> \in R2 <=> <<n, m>> \in R,
         \A m \in N : <<k, m>> \in R2 <=> <<q, m>> \in R,
         \A m \in N : <<m, k>> \in R2 <=> m = q \/ <<m, q>> \in R
  PROVE  Steps([step EXCEPT ![k] = step[q], ![q] = k], N \cup {k}, R2, last)
<1> DEFINE st == [step EXCEPT ![k] = step[q], ![q] = k]
<1>1. /\ Orders(R, N) /\ step \in [Nodes -> Nodes \cup {Nil}] /\ N \subseteq Nodes
      /\ last \in N /\ q # k /\ k # last
  BY DEF Steps
<1>2. Orders(R2, N \cup {k})
  <2>1. \A n, m \in N \cup {k} : n # m => <<n, m>> \in R2 \/ <<m, n>> \in R2
    BY <1>1 DEF Orders
  <2>2. \A n \in N \cup {k} : <<n, n>> \notin R2
    BY <1>1 DEF Orders
  <2>3. ASSUME NEW n \in N \cup {k}, NEW m \in N \cup {k}, NEW p \in N \cup {k},
               <<n, m>> \in R2, <<m, p>> \in R2
        PROVE  <<n, p>> \in R2
    <3>1. CASE n = k  BY <1>1, <2>3, <3>1 DEF Orders
    <3>2. CASE n # k /\ m = k  BY <1>1, <2>3, <3>2 DEF Orders
    <3>3. CASE n # k /\ m # k /\ p = k  BY <1>1, <2>3, <3>3 DEF Orders
    <3>4. CASE n # k /\ m # k /\ p # k  BY <1>1, <2>3, <3>4 DEF Orders
    <3> QED BY <3>1, <3>2, <3>3, <3>4
  <2> QED BY <2>1, <2>2, <2>3 DEF Orders
<1>3. st \in [Nodes -> Nodes \cup {Nil}]
  BY <1>1
<1>4. \A n \in Nodes : st[n] = IF n = q THEN k ELSE IF n = k THEN step[q] ELSE step[n]
  BY <1>1
<1> HIDE DEF st
<1>5. /\ step[q] \in N /\ <<q, step[q]>> \in R /\ <<q, last>> \in R
      /\ \A m \in N : <<q, m>> \in R => m = step[q] \/ <<step[q], m>> \in R
  BY DEF Steps
<1>6. ASSUME NEW n \in (N \cup {k}) \ {last}
      PROVE  /\ <<n, last>> \in R2
             /\ st[n] \in N \cup {k} /\ <<n, st[n]>> \in R2
             /\ \A m \in N \cup {k} : <<n, m>> \in R2 => m = st[n] \/ <<st[n], m>> \in R2
  <2>1. CASE n = k
    BY <1>1, <1>4, <1>5, <2>1
  <2>2. CASE n = q
    <3>1. st[n] = k  BY <1>1, <1>4, <2>2
    <3> QED BY <1>1, <1>5, <2>2, <3>1
  <2>3. CASE n \notin {k, q}
    <3>1. /\ step[n] \in N /\ <<n, last>> \in R /\ <<n, step[n]>> \in R /\ n \in N
          /\ \A m \in N : <<n, m>> \in R => m = step[n] \/ <<step[n], m>> \in R
      BY <2>3 DEF Steps
    <3>2. st[n] = step[n]  BY <1>1, <1>4, <2>3
    <3>3. <<n, k>> \in R2 => <<step[n], k>> \in R2
      BY <2>3, <3>1
    <3> QED BY <1>1, <3>1, <3>2, <3>3
  <2> QED BY <2>1, <2>2, <2>3
<1>7. st[last] = Nil /\ N \cup {k} \subseteq Nodes
  BY <1>1, <1>4 DEF Steps
<1>8. Steps(st, N \cup {k}, R2, last)
  BY <1>1, <1>2, <1>3, <1>6, <1>7 DEF Steps
<1> QED BY <1>8 DEF st

-----------------------------------------------------------------------------
(* The linked list.                                                        *)

Ends == {Front, Back}

\* The list of the items I, in the order R from the front.
Chain(l, I, R) ==
  /\ l \in [next : [Nodes -> Nodes \cup {Nil}], prev : [Nodes -> Nodes \cup {Nil}]]
  /\ I \subseteq Keys
  /\ Steps(l.next, I \cup Ends, R, Back)
  /\ Steps(l.prev, I \cup Ends, Turned(R), Front)

\* The order in which the next pointers meet the nodes, and the order after k
\* has come to the front.
ListOrder(l, I) == {p \in (I \cup Ends) \X (I \cup Ends) : p[2] \in After(l.next, p[1])}
Led(R, I, k) == R \cup ({k} \X (I \cup {Back})) \cup {<<Front, k>>}

\* The part of an order that a set of items keeps.
Kept(R, I) == R \cap ((I \cup Ends) \X (I \cup Ends))

LEMMA Distinct ==
  /\ Nil \notin Nodes /\ Front \in Nodes /\ Back \in Nodes /\ Front # Back
  /\ Front \notin Keys /\ Back \notin Keys /\ Keys \subseteq Nodes
<1>1. Front # Back /\ Front # Nil /\ Back # Nil
  <2>1. ASSUME NEW x, NEW y PROVE Cardinality({x, y}) # 3
    <3>1. CASE x = y
      <4>1. {x, y} = {x} /\ Cardinality({x}) = 1  BY <3>1, FS_Singleton
      <4> QED BY <4>1
    <3>2. CASE x # y
      <4>1. IsFiniteSet({x}) /\ Cardinality({x}) = 1  BY FS_Singleton
      <4>2. Cardinality({x} \cup {y}) = 2  BY <3>2, <4>1, FS_AddElement
      <4>3. {x} \cup {y} = {x, y}  OBVIOUS
      <4> QED BY <4>2, <4>3
    <3> QED BY <3>1, <3>2
  <2>2. Front = Back => {Front, Back, Nil} = {Front, Nil}  OBVIOUS
  <2>3. Front = Nil => {Front, Back, Nil} = {Front, Back}  OBVIOUS
  <2>4. Back = Nil => {Front, Back, Nil} = {Front, Back}  OBVIOUS
  <2> QED BY <2>1, <2>2, <2>3, <2>4, CacheAssumption
<1> QED BY <1>1, CacheAssumption DEF Nodes

\* The order of a list is the one its next pointers say.
LEMMA OneOrder ==
  ASSUME NEW l, NEW I, NEW R, Chain(l, I, R), IsFiniteSet(I)
  PROVE  /\ R = ListOrder(l, I)
         /\ \A n \in I \cup Ends : After(l.next, n) = {m \in I \cup Ends : <<n, m>> \in R}
         /\ \A n \in I \cup Ends : After(l.prev, n) = {m \in I \cup Ends : <<m, n>> \in R}
<1> DEFINE N == I \cup Ends
<1>1. IsFiniteSet(N)
  <2>1. IsFiniteSet({Front} \cup {Back}) /\ Ends = {Front} \cup {Back}
    <3>1. IsFiniteSet({Front})  BY FS_Singleton
    <3> QED BY <3>1, FS_AddElement DEF Ends
  <2> QED BY <2>1, FS_Union
<1>2. Steps(l.next, N, R, Back) /\ Steps(l.prev, N, Turned(R), Front)
  BY DEF Chain
<1>3. Orders(R, N) /\ R \subseteq N \X N
  BY <1>2 DEF Steps, Orders
<1> HIDE DEF N
<1>4. \A n \in N : After(l.next, n) = {m \in N : <<n, m>> \in R}
  BY <1>1, <1>2, Distinct, Following
<1>5. ASSUME NEW n \in N PROVE After(l.prev, n) = {m \in N : <<m, n>> \in R}
  <2> DEFINE U == Turned(R)
  <2>1. Steps(l.prev, N, U, Front)  BY <1>2
  <2>2. \A x, y : <<x, y>> \in U <=> <<y, x>> \in R  BY <1>3, TurnedOrders
  <2> HIDE DEF U
  <2>3. After(l.prev, n) = {m \in N : <<n, m>> \in U}
    BY <1>1, <2>1, Distinct, Following
  <2> QED BY <2>2, <2>3
<1>6. R = {p \in N \X N : p[2] \in After(l.next, p[1])}
  BY <1>3, <1>4
<1> QED BY <1>4, <1>5, <1>6 DEF N, ListOrder

LEMMA EmptyChain == Chain(NewLinks, {}, {<<Front, Back>>})
<1>1. Ends = {} \cup Ends  OBVIOUS
<1>2. Steps(NewLinks.next, Ends, {<<Front, Back>>}, Back)
  BY Distinct DEF Steps, Orders, NewLinks, Ends
<1>3. Turned({<<Front, Back>>}) = {<<Back, Front>>}
  BY DEF Turned
<1>4. Steps(NewLinks.prev, Ends, {<<Back, Front>>}, Front)
  BY Distinct DEF Steps, Orders, NewLinks, Ends
<1>5. NewLinks \in [next : [Nodes -> Nodes \cup {Nil}], prev : [Nodes -> Nodes \cup {Nil}]]
  BY Distinct DEF NewLinks
<1> QED BY <1>1, <1>2, <1>3, <1>4, <1>5 DEF Chain

\* remove keeps the order of the other items.
LEMMA RemoveChain ==
  ASSUME NEW l, NEW I, NEW R, Chain(l, I, R), NEW k \in I
  PROVE  Chain(Remove(l, k), I \ {k}, Kept(R, I \ {k}))
<1> DEFINE N == I \cup Ends
<1> DEFINE M == (I \ {k}) \cup Ends
<1> DEFINE R2 == R \cap (M \X M)
<1>1. /\ Steps(l.next, N, R, Back) /\ Steps(l.prev, N, Turned(R), Front)
      /\ l \in [next : [Nodes -> Nodes \cup {Nil}], prev : [Nodes -> Nodes \cup {Nil}]]
      /\ I \subseteq Keys
  BY DEF Chain
<1>2. /\ k \in N \ {Front} /\ k \in N \ {Back} /\ M = N \ {k} /\ k \in Nodes
      /\ N \subseteq Nodes
  BY <1>1, Distinct DEF Ends
<1>3. Orders(R, N) /\ \A n, m : <<n, m>> \in Turned(R) <=> <<m, n>> \in R
  BY <1>1, TurnedOrders DEF Steps
<1>4. Orders(R2, M) /\ \A n, m : <<n, m>> \in Turned(R2) <=> <<m, n>> \in R2
  <2>1. Orders(R2, M)  BY <1>2, <1>3 DEF Orders
  <2> HIDE DEF R2, M
  <2> QED BY <2>1, TurnedOrders
<1>5. Turned(R2) \subseteq M \X M
  <2>1. R2 \subseteq M \X M  OBVIOUS
  <2> HIDE DEF R2, M
  <2> QED BY <2>1 DEF Turned
<1>6. l.prev[k] \in N \ {Back} /\ l.next[l.prev[k]] = k
  <2> HIDE DEF N
  <2> QED BY <1>1, <1>2, <1>3, Neighbours
<1>7. l.next[k] \in N \ {Front} /\ l.prev[l.next[k]] = k
  <2> HIDE DEF N
  <2> QED BY <1>1, <1>2, <1>3, Neighbours
<1>8. Steps([l.next EXCEPT ![l.prev[k]] = l.next[k], ![k] = Nil], M, R2, Back)
  <2>1. R2 \subseteq (N \ {k}) \X (N \ {k})  BY <1>2
  <2>2. \A n, m \in N \ {k} : <<n, m>> \in R2 <=> <<n, m>> \in R  BY <1>2
  <2> HIDE DEF N, M, R2
  <2> QED BY <1>1, <1>2, <1>6, <2>1, <2>2, Unlinked
<1>9. Steps([l.prev EXCEPT ![l.next[k]] = l.prev[k], ![k] = Nil], M, Turned(R2), Front)
  <2> DEFINE U == Turned(R)
  <2> DEFINE U2 == Turned(R2)
  <2>1. U2 \subseteq (N \ {k}) \X (N \ {k})  BY <1>2, <1>5
  <2>2. \A n, m \in N \ {k} : <<n, m>> \in U2 <=> <<n, m>> \in U
    <3>1. \A n, m \in N \ {k} : <<m, n>> \in R2 <=> <<m, n>> \in R  BY <1>2
    <3> HIDE DEF N, M, R2
    <3> QED BY <1>3, <1>4, <3>1
  <2>3. Steps(l.prev, N, U, Front)  BY <1>1
  <2> HIDE DEF N, M, R2, U, U2
  <2>4. Steps([l.prev EXCEPT ![l.next[k]] = l.prev[k], ![k] = Nil], M, U2, Front)
    BY <1>2, <1>7, <2>1, <2>2, <2>3, Unlinked
  <2> QED BY <2>4 DEF U2
<1>10. Remove(l, k).next = [l.next EXCEPT ![l.prev[k]] = l.next[k], ![k] = Nil]
  BY DEF Remove
<1>11. Remove(l, k).prev = [l.prev EXCEPT ![l.next[k]] = l.prev[k], ![k] = Nil]
  BY DEF Remove
<1>12. Remove(l, k) \in [next : [Nodes -> Nodes \cup {Nil}], prev : [Nodes -> Nodes \cup {Nil}]]
  <2>1. /\ [l.next EXCEPT ![l.prev[k]] = l.next[k], ![k] = Nil] \in [Nodes -> Nodes \cup {Nil}]
        /\ [l.prev EXCEPT ![l.next[k]] = l.prev[k], ![k] = Nil] \in [Nodes -> Nodes \cup {Nil}]
    BY <1>8, <1>9 DEF Steps
  <2> QED BY <2>1 DEF Remove
<1> QED BY <1>1, <1>8, <1>9, <1>10, <1>11, <1>12 DEF Chain, Kept

\* addToFront puts the item before all others.
LEMMA AddChain ==
  ASSUME NEW l, NEW I, NEW R, Chain(l, I, R), NEW k \in Keys \ I
  PROVE  Chain(AddToFront(l, k), I \cup {k}, Led(R, I, k))
<1> DEFINE N == I \cup Ends
<1> DEFINE M == I \cup {k} \cup Ends
<1> DEFINE R2 == Led(R, I, k)
<1> DEFINE first == l.next[Front]
<1>1. /\ Steps(l.next, N, R, Back) /\ Steps(l.prev, N, Turned(R), Front)
      /\ l \in [next : [Nodes -> Nodes \cup {Nil}], prev : [Nodes -> Nodes \cup {Nil}]]
      /\ I \subseteq Keys
  BY DEF Chain
<1>2. /\ Front \in N /\ Back \in N /\ Front # Back /\ k \in Nodes \ N /\ M = N \cup {k}
      /\ I \cup {Back} = N \ {Front}
  BY <1>1, Distinct DEF Ends
<1>3. Orders(R, N) /\ \A n, m : <<n, m>> \in Turned(R) <=> <<m, n>> \in R
  BY <1>1, TurnedOrders DEF Steps
<1>4. /\ \A m \in N \ {Front} : <<Front, m>> \in R
      /\ \A m \in N : <<m, Front>> \notin R
  <2>1. \A m \in N \ {Front} : <<m, Front>> \in Turned(R)  BY <1>1 DEF Steps
  <2> QED BY <1>2, <1>3, <2>1 DEF Orders
<1>5. /\ R2 \subseteq M \X M /\ <<k, k>> \notin R2
      /\ \A n, m \in N : <<n, m>> \in R2 <=> <<n, m>> \in R
      /\ \A m \in N : <<k, m>> \in R2 <=> m # Front
      /\ \A m \in N : <<m, k>> \in R2 <=> m = Front
  <2>1. R \subseteq N \X N  BY <1>3 DEF Orders
  <2>2. R2 = R \cup ({k} \X (N \ {Front})) \cup {<<Front, k>>}  BY <1>2 DEF Led
  <2> HIDE DEF R2
  <2>3. \A n, m : <<n, m>> \in R2 <=> \/ <<n, m>> \in R
                                      \/ n = k /\ m \in N \ {Front}
                                      \/ n = Front /\ m = k
    BY <2>2
  <2>4. R2 \subseteq M \X M  BY <1>2, <2>1, <2>2
  <2> QED BY <1>2, <2>1, <2>3, <2>4
<1>6. /\ first \in N \ {Front} /\ <<Front, first>> \in R
      /\ \A m \in N : <<first, m>> \in R <=> m # Front /\ m # first
      /\ \A m \in N : <<m, first>> \in R <=> m = Front
      /\ l.prev[first] = Front
  <2>1. /\ first \in N /\ <<Front, first>> \in R
        /\ \A m \in N : <<Front, m>> \in R => m = first \/ <<first, m>> \in R
    BY <1>1, <1>2 DEF Steps
  <2>2. first # Front  BY <1>3, <2>1 DEF Orders
  <2>3. \A m \in N : <<first, m>> \in R <=> m # Front /\ m # first
    BY <1>3, <1>4, <2>1 DEF Orders
  <2>4. /\ l.prev[first] \in N /\ <<l.prev[first], first>> \in R
        /\ \A m \in N : <<m, first>> \in R => m = l.prev[first] \/ <<m, l.prev[first]>> \in R
    BY <1>1, <1>3, <2>1, <2>2 DEF Steps
  <2>5. \A m \in N : <<m, first>> \in R <=> m = Front
    BY <1>2, <1>3, <1>4, <2>1, <2>3 DEF Orders
  <2>6. l.prev[first] = Front
    BY <2>4, <2>5
  <2> QED BY <2>1, <2>2, <2>3, <2>5, <2>6
<1>7. Steps([l.next EXCEPT ![k] = first, ![Front] = k], M, R2, Back)
  <2>1. \A m \in N : <<k, m>> \in R2 <=> <<Front, m>> \in R  
    BY <1>2, <1>3, <1>4, <1>5 DEF Orders
  <2>2. \A m \in N : <<m, k>> \in R2 <=> m = Front \/ <<m, Front>> \in R
    BY <1>4, <1>5
  <2>3. Front \in N \ {Back}  BY <1>2
  <2>4. R2 \subseteq (N \cup {k}) \X (N \cup {k})  BY <1>2, <1>5
  <2> HIDE DEF N, M, R2
  <2> QED BY <1>1, <1>2, <1>5, <2>1, <2>2, <2>3, <2>4, Linked
<1>8. Steps([l.prev EXCEPT ![k] = Front, ![first] = k], M, Turned(R2), Front)
  <2> DEFINE U == Turned(R)
  <2> DEFINE U2 == Turned(R2)
  <2>1. \A n, m : <<n, m>> \in U2 <=> <<m, n>> \in R2
    <3>1. ASSUME NEW n, NEW m PROVE <<n, m>> \in U2 <=> <<m, n>> \in R2
      <4> HIDE DEF R2
      <4>1. ASSUME <<m, n>> \in R2 PROVE <<n, m>> \in U2
        <5>1. <<m, n>>[1] = m /\ <<m, n>>[2] = n  OBVIOUS
        <5> QED BY <4>1, <5>1 DEF Turned
      <4>2. ASSUME <<n, m>> \in U2 PROVE <<m, n>> \in R2
        <5>1. PICK p \in R2 : <<n, m>> = <<p[2], p[1]>>  BY <4>2 DEF Turned
        <5>2. p \in M \X M  BY <1>5
        <5>3. n = p[2] /\ m = p[1]  BY <5>1
        <5>4. p = <<m, n>>  BY <5>2, <5>3
        <5> QED BY <5>4
      <4> QED BY <4>1, <4>2
    <3> QED BY <3>1
  <2>2. U2 \subseteq (N \cup {k}) \X (N \cup {k})
    <3>1. R2 \subseteq (N \cup {k}) \X (N \cup {k})  BY <1>2, <1>5
    <3> HIDE DEF R2, N
    <3> QED BY <3>1 DEF Turned
  <2>3. \A n, m \in N : <<n, m>> \in U2 <=> <<n, m>> \in U
    BY <1>3, <1>5, <2>1
  <2>4. \A m \in N : <<k, m>> \in U2 <=> <<first, m>> \in U
    BY <1>3, <1>4, <1>5, <1>6, <2>1
  <2>5. \A m \in N : <<m, k>> \in U2 <=> m = first \/ <<m, first>> \in U
    BY <1>3, <1>5, <1>6, <2>1
  <2>6. <<k, k>> \notin U2  BY <1>5, <2>1
  <2>7. Steps(l.prev, N, U, Front)  BY <1>1
  <2> HIDE DEF N, M, R2, U, U2, first
  <2>8. Steps([l.prev EXCEPT ![k] = l.prev[first], ![first] = k], N \cup {k}, U2, Front)
    BY <1>2, <1>6, <2>2, <2>3, <2>4, <2>5, <2>6, <2>7, Linked
  <2> QED BY <1>2, <1>6, <2>8 DEF U2
<1>9. AddToFront(l, k).next = [l.next EXCEPT ![k] = first, ![Front] = k]
  BY DEF AddToFront
<1>10. AddToFront(l, k).prev = [l.prev EXCEPT ![k] = Front, ![first] = k]
  BY DEF AddToFront
<1>11. AddToFront(l, k) \in [next : [Nodes -> Nodes \cup {Nil}], prev : [Nodes -> Nodes \cup {Nil}]]
  <2>1. /\ [l.next EXCEPT ![k] = first, ![Front] = k] \in [Nodes -> Nodes \cup {Nil}]
        /\ [l.prev EXCEPT ![k] = Front, ![first] = k] \in [Nodes -> Nodes \cup {Nil}]
    BY <1>7, <1>8 DEF Steps
  <2> QED BY <2>1 DEF AddToFront
<1> QED BY <1>1, <1>7, <1>8, <1>9, <1>10, <1>11 DEF Chain

\* The loop of cleanupExpired is well defined, and every round of it removes
\* the next item.
LEMMA RoundByRound ==
  ASSUME NEW l, NEW n \in Nat, NEW s, DOMAIN s = 1 .. n
  PROVE  \E f : /\ f[0] = l
                /\ \A i \in 1 .. n : f[i] = Remove(f[i - 1], s[i])
                /\ RemoveAll(l, s) = f[n]
<1> DEFINE F(g, m) == [i \in 0 .. m |-> IF i = 0 THEN l ELSE Remove(g[i - 1], s[i])]
<1> DEFINE P == {m \in Nat : \E g : g = F(g, m)}
<1>1. 0 \in P
  <2> DEFINE g == [i \in 0 .. 0 |-> l]
  <2>1. g = F(g, 0)
    <3>1. \A i \in 0 .. 0 : i = 0  OBVIOUS
    <3> QED BY <3>1
  <2> QED BY <2>1
<1>2. ASSUME NEW m \in P PROVE m + 1 \in P
  <2>1. PICK g : g = F(g, m)  OBVIOUS
  <2> DEFINE h == [i \in 0 .. m + 1 |-> IF i = m + 1 THEN Remove(g[m], s[m + 1]) ELSE g[i]]
  <2>2. m \in Nat  OBVIOUS
  <2>3. \A i \in 0 .. m : h[i] = g[i]
    <3>1. \A i \in 0 .. m : i \in 0 .. m + 1 /\ i # m + 1  BY <2>2
    <3> QED BY <3>1
  <2>4. h[m + 1] = Remove(g[m], s[m + 1])
    <3>1. m + 1 \in 0 .. m + 1  BY <2>2
    <3> QED BY <3>1
  <2>5. h = [i \in 0 .. m + 1 |-> h[i]]
    OBVIOUS
  <2> HIDE DEF h
  <2>6. ASSUME NEW i \in 0 .. m + 1
        PROVE  h[i] = IF i = 0 THEN l ELSE Remove(h[i - 1], s[i])
    <3>1. CASE i = m + 1
      <4>1. i # 0 /\ i - 1 = m /\ m \in 0 .. m  BY <2>2, <3>1
      <4> QED BY <2>3, <2>4, <3>1, <4>1
    <3>2. CASE i # m + 1
      <4>1. i \in 0 .. m  BY <2>2, <3>2
      <4>2. g[i] = IF i = 0 THEN l ELSE Remove(g[i - 1], s[i])  BY <2>1, <4>1
      <4>3. i # 0 => i - 1 \in 0 .. m  BY <2>2, <4>1
      <4> QED BY <2>3, <4>1, <4>2, <4>3
    <3> QED BY <3>1, <3>2
  <2>7. h = F(h, m + 1)
    BY <2>5, <2>6
  <2> QED BY <2>2, <2>7
<1>3. n \in P
  <2>1. P \in SUBSET Nat /\ \A m \in P : m + 1 \in P  BY <1>2
  <2> HIDE DEF P
  <2>2. \A m \in Nat : m \in P  BY <1>1, <2>1, Induction
  <2> QED BY <2>2
<1>4. Cardinality(DOMAIN s) = n
  BY FS_Interval
<1> DEFINE after == CHOOSE g : g = F(g, Cardinality(DOMAIN s))
<1>5. after = F(after, n)
  BY <1>3, <1>4
<1>6. RemoveAll(l, s) = after[n]
  BY <1>4 DEF RemoveAll
<1> HIDE DEF after
<1>7. after[0] = l /\ \A i \in 1 .. n : after[i] = Remove(after[i - 1], s[i])
  <2>1. \A i \in 0 .. n : after[i] = IF i = 0 THEN l ELSE Remove(after[i - 1], s[i])
    <3> DEFINE body(i) == IF i = 0 THEN l ELSE Remove(after[i - 1], s[i])
    <3>1. after = [i \in 0 .. n |-> body(i)]  BY <1>5
    <3> HIDE DEF body
    <3>2. \A i \in 0 .. n : after[i] = body(i)  BY <3>1
    <3> QED BY <3>2 DEF body
  <2>2. 0 \in 0 .. n /\ \A i \in 1 .. n : i \in 0 .. n /\ i # 0  OBVIOUS
  <2> QED BY <2>1, <2>2
<1> QED BY <1>6, <1>7

\* The loop keeps the order of the items that are not removed.
LEMMA RemoveAllChain ==
  ASSUME NEW l, NEW I, NEW R, Chain(l, I, R), NEW E \in SUBSET I, IsFiniteSet(E),
         NEW s \in Bijection(1 .. Cardinality(E), E)
  PROVE  Chain(RemoveAll(l, s), I \ E, Kept(R, I \ E))
<1> DEFINE n == Cardinality(E)
<1> DEFINE Gone(m) == {s[i] : i \in 1 .. m}
<1>1. /\ n \in Nat /\ DOMAIN s = 1 .. n /\ s \in [1 .. n -> E]
      /\ \A i, j \in 1 .. n : s[i] = s[j] => i = j
      /\ Gone(n) = E
  <2>1. n \in Nat  BY FS_CardinalityType
  <2> HIDE DEF n
  <2>2. s \in Bijection(1 .. n, E)  BY DEF n
  <2>3. /\ s \in [1 .. n -> E]
        /\ \A i, j \in 1 .. n : s[i] = s[j] => i = j
        /\ \A e \in E : \E i \in 1 .. n : s[i] = e
    BY <2>2 DEF Bijection, Injection, Surjection, IsInjective
  <2> QED BY <2>1, <2>3
<1> HIDE DEF n
<1>2. PICK f : /\ f[0] = l
               /\ \A i \in 1 .. n : f[i] = Remove(f[i - 1], s[i])
               /\ RemoveAll(l, s) = f[n]
  BY <1>1, RoundByRound
<1> DEFINE P == {m \in Nat : m <= n => Chain(f[m], I \ Gone(m), Kept(R, I \ Gone(m)))}
<1>3. 0 \in P
  <2>1. Gone(0) = {}  OBVIOUS
  <2>2. R \subseteq (I \cup Ends) \X (I \cup Ends)  BY DEF Chain, Steps, Orders
  <2>3. I \ Gone(0) = I /\ Kept(R, I) = R  BY <2>1, <2>2 DEF Kept
  <2> HIDE DEF Gone
  <2> QED BY <1>2, <2>3
<1>4. ASSUME NEW m \in P PROVE m + 1 \in P
  <2> SUFFICES ASSUME m + 1 <= n
               PROVE  Chain(f[m + 1], I \ Gone(m + 1), Kept(R, I \ Gone(m + 1)))
    OBVIOUS
  <2> DEFINE J == I \ Gone(m)
  <2> DEFINE k == s[m + 1]
  <2>1. m \in Nat /\ m <= n /\ m + 1 \in 1 .. n /\ m + 1 - 1 = m  BY <1>1
  <2>2. Chain(f[m], J, Kept(R, J))  BY <2>1
  <2>3. k \in J
    <3>1. \A i \in 1 .. m : i \in 1 .. n /\ i # m + 1  BY <1>1, <2>1
    <3>2. \A i \in 1 .. m : s[i] # k  BY <1>1, <2>1, <3>1
    <3> QED BY <1>1, <2>1, <3>2
  <2>4. I \ Gone(m + 1) = J \ {k}
    <3>1. 1 .. m + 1 = (1 .. m) \cup {m + 1}  BY <2>1
    <3>2. Gone(m + 1) = Gone(m) \cup {k}  BY <3>1
    <3> QED BY <3>2
  <2>5. f[m + 1] = Remove(f[m], k)  BY <1>2, <2>1
  <2> HIDE DEF J, k, Gone, P
  <2>6. Chain(Remove(f[m], k), J \ {k}, Kept(Kept(R, J), J \ {k}))
    BY <2>2, <2>3, RemoveChain
  <2>7. Kept(Kept(R, J), J \ {k}) = Kept(R, J \ {k})
    BY DEF Kept
  <2> QED BY <2>4, <2>5, <2>6, <2>7
<1>5. n \in P
  <2>1. P \in SUBSET Nat /\ \A m \in P : m + 1 \in P  BY <1>4
  <2> HIDE DEF P
  <2>2. \A m \in Nat : m \in P  BY <1>3, <2>1, Induction
  <2> QED BY <1>1, <2>2
<1>6. Chain(f[n], I \ Gone(n), Kept(R, I \ Gone(n)))
  BY <1>1, <1>5
<1> QED BY <1>1, <1>2, <1>6

-----------------------------------------------------------------------------
(* The inductive invariant.                                                *)

\* The list is linked in one order, the one its next pointers say.
Chained == Chain(links, items, ListOrder(links, items))
FewItems == IsFiniteSet(items) /\ Cardinality(items) <= Capacity
CacheInv == TypeOK /\ FewItems /\ Chained

\* What a list says of recency.
LEMMA NewerInList ==
  ASSUME NEW l, NEW I, NEW R, Chain(l, I, R), IsFiniteSet(I)
  PROVE  UNION {{k} \X (I \cap After(l.next, k)) : k \in I} = R \cap (I \X I)
<1>1. \A n \in I : After(l.next, n) = {m \in I \cup Ends : <<n, m>> \in R}
  BY OneOrder
<1>2. \A k \in I : I \cap After(l.next, k) = {m \in I : <<k, m>> \in R}
  BY <1>1
<1>3. UNION {{k} \X (I \cap After(l.next, k)) : k \in I}
        = UNION {{k} \X {m \in I : <<k, m>> \in R} : k \in I}
  BY <1>2
<1>4. ASSUME NEW p \in UNION {{k} \X {m \in I : <<k, m>> \in R} : k \in I}
      PROVE  p \in R \cap (I \X I)
  <2>1. PICK k \in I : p \in {k} \X {m \in I : <<k, m>> \in R}  OBVIOUS
  <2>2. PICK m \in {j \in I : <<k, j>> \in R} : p = <<k, m>>  BY <2>1
  <2> QED BY <2>2
<1>5. ASSUME NEW p \in R \cap (I \X I)
      PROVE  p \in UNION {{k} \X {m \in I : <<k, m>> \in R} : k \in I}
  <2>1. PICK k \in I, m \in I : p = <<k, m>>  OBVIOUS
  <2>2. p \in {k} \X {j \in I : <<k, j>> \in R}  BY <2>1
  <2> QED BY <2>1, <2>2
<1> QED BY <1>3, <1>4, <1>5

\* The store counts as the cache does.
LEMMA SameCount ==
  ASSUME NEW S
  PROVE  Store!Cardinality(S) = Cardinality(S)
  BY DEF Store!Cardinality, Cardinality

LEMMA CacheFacts ==
  ASSUME CacheInv
  PROVE  /\ Newer = ListOrder(links, items) \cap (items \X items)
         /\ Store!Cached = items
  BY NewerInList DEF CacheInv, Chained, FewItems, Newer, Store!Cached, TypeOK

\* A list in some order is a list in the order it says.
LEMMA Relinked ==
  ASSUME NEW R, Chain(links', items', R), IsFiniteSet(items')
  PROVE  Chained' /\ Newer' = R \cap (items' \X items')
<1>1. R = ListOrder(links', items')
  BY OneOrder
<1>2. Newer' = R \cap (items' \X items')
  BY NewerInList DEF Newer
<1> QED BY <1>1, <1>2 DEF Chained, ListOrder

LEMMA InitInv == Init => CacheInv /\ Store!Init
<1> SUFFICES ASSUME Init PROVE CacheInv /\ Store!Init
  OBVIOUS
<1>1. TypeOK
  BY EmptyChain, CacheAssumption DEF Init, TypeOK, Chain
<1>2. FewItems
  BY FS_EmptySet, CacheAssumption DEF Init, FewItems
<1>3. Chained
  <2>1. Chain(links, items, {<<Front, Back>>})  BY EmptyChain DEF Init
  <2> QED BY <1>2, <2>1, OneOrder DEF Chained, FewItems
<1>4. Newer = {}
  BY DEF Init, Newer
<1> QED BY <1>1, <1>2, <1>3, <1>4 DEF CacheInv, Init, Store!Init

\* delete(c.items, key) for some keys, once their nodes are taken out.
LEMMA Forgetting ==
  ASSUME CacheInv, NEW xs \in SUBSET Keys, Forget(xs \cap items),
         Chain(links', items \ xs, Kept(ListOrder(links, items), items \ xs)),
         answer' \in Values \cup {NoValue}
  PROVE  CacheInv' /\ Store!Drop(xs)
<1>1. /\ items' = items \ xs
      /\ expired' = expired \ xs
      /\ value' = [k \in Keys |-> IF k \in xs THEN NoValue ELSE value[k]]
  <2>1. items \ (xs \cap items) = items \ xs  OBVIOUS
  <2>2. expired \ (xs \cap items) = expired \ xs  BY DEF CacheInv, TypeOK
  <2>3. \A k \in Keys : (IF k \in xs \cap items THEN NoValue ELSE value[k])
                        = IF k \in xs THEN NoValue ELSE value[k]
    BY DEF CacheInv, TypeOK
  <2> QED BY <2>1, <2>2, <2>3 DEF Forget
<1>2. IsFiniteSet(items') /\ Cardinality(items') <= Cardinality(items)
      /\ Cardinality(items) \in Nat /\ Cardinality(items') \in Nat
  <2>1. IsFiniteSet(items) /\ items' \subseteq items  BY <1>1 DEF CacheInv, FewItems
  <2> QED BY <2>1, FS_Subset, FS_CardinalityType
<1>3. FewItems'
  BY <1>2, CacheAssumption DEF CacheInv, FewItems
<1>4. Chained' /\ Newer' = Kept(ListOrder(links, items), items \ xs) \cap (items' \X items')
  <2>1. Chain(links', items', Kept(ListOrder(links, items), items \ xs))  BY <1>1
  <2> QED BY <1>2, <2>1, Relinked
<1>5. TypeOK'
  <2>1. links' \in [next : [Nodes -> Nodes \cup {Nil}], prev : [Nodes -> Nodes \cup {Nil}]]
    BY DEF Chain
  <2>2. value' \in [Keys -> Values \cup {NoValue}]
    BY <1>1 DEF CacheInv, TypeOK
  <2>3. \A k \in Keys : k \in items' <=> value'[k] # NoValue
    BY <1>1 DEF CacheInv, TypeOK
  <2>4. items' \subseteq Keys /\ expired' \subseteq items'
    BY <1>1 DEF CacheInv, TypeOK
  <2> QED BY <2>1, <2>2, <2>3, <2>4 DEF TypeOK
<1>6. Newer' = Store!Among(Newer, Store!Cached \ xs)
  <2>1. Newer' = ListOrder(links, items) \cap ((items \ xs) \X (items \ xs))
    BY <1>1, <1>4 DEF Kept
  <2> QED BY <2>1, CacheFacts DEF Store!Among
<1> QED BY <1>1, <1>3, <1>4, <1>5, <1>6 DEF CacheInv, Store!Drop

\* moveToFront makes the item the most recent.
LEMMA Moving ==
  ASSUME CacheInv, NEW k \in items, links' = MoveToFront(links, k), items' = items
  PROVE  /\ Chained' /\ Newer' = Store!Used(k)
         /\ links' \in [next : [Nodes -> Nodes \cup {Nil}], prev : [Nodes -> Nodes \cup {Nil}]]
<1> DEFINE R == ListOrder(links, items)
<1> DEFINE J == items \ {k}
<1> DEFINE R2 == Led(Kept(R, J), J, k)
<1>1. Chain(links, items, R) /\ k \in Keys /\ items \subseteq Keys
      /\ Front \notin items /\ Back \notin items
  BY Distinct DEF CacheInv, Chained, TypeOK
<1>2. J \cup {k} = items
  OBVIOUS
<1> HIDE DEF R
<1>3. Chain(Remove(links, k), J, Kept(R, J))
  BY <1>1, RemoveChain
<1>4. Chain(AddToFront(Remove(links, k), k), J \cup {k}, R2)
  <2> DEFINE l == Remove(links, k)
  <2> DEFINE R1 == Kept(R, J)
  <2>1. Chain(l, J, R1) /\ k \in Keys \ J  BY <1>1, <1>3
  <2> HIDE DEF l, R1, J
  <2>2. Chain(AddToFront(l, k), J \cup {k}, Led(R1, J, k))  BY <2>1, AddChain
  <2> QED BY <2>2 DEF l, R1
<1>5. Chain(links', items', R2) /\ IsFiniteSet(items')
  BY <1>2, <1>4 DEF MoveToFront, CacheInv, FewItems
<1> HIDE DEF R2
<1>6. Chained' /\ Newer' = R2 \cap (items \X items)
  BY <1>5, Relinked
<1>7. R2 \cap (items \X items) = ((R \cap (items \X items)) \cap (J \X J)) \cup ({k} \X J)
  BY <1>1 DEF R2, Led, Kept, Ends
<1>8. Newer' = Store!Used(k)
  BY <1>6, <1>7, CacheFacts DEF R, Store!Used, Store!Among
<1> QED BY <1>5, <1>6, <1>8 DEF Chain

\* The last item of a list, the one every other is newer than.
LEMMA OldestIsLast ==
  ASSUME NEW l, NEW I, NEW R, Chain(l, I, R), I # {}
  PROVE  /\ Oldest(l) \in I
         /\ \A m \in I : m # Oldest(l) => <<m, Oldest(l)>> \in R
         /\ \A m \in I : <<Oldest(l), m>> \notin R
<1> DEFINE N == I \cup Ends
<1> DEFINE o == l.prev[Back]
<1>1. /\ Steps(l.next, N, R, Back) /\ Steps(l.prev, N, Turned(R), Front) /\ I \subseteq Keys
      /\ Back \in N \ {Front} /\ Front \in N
  BY Distinct DEF Chain, Ends
<1>2. Orders(R, N) /\ \A n, m : <<n, m>> \in Turned(R) <=> <<m, n>> \in R
  BY <1>1, TurnedOrders DEF Steps
<1>3. /\ o \in N /\ <<o, Back>> \in R
      /\ \A m \in N : <<m, Back>> \in R => m = o \/ <<m, o>> \in R
  BY <1>1, <1>2 DEF Steps
<1>4. \A m \in I : <<m, Back>> \in R /\ <<Front, m>> \in R /\ m # Front
  <2>1. \A m \in I : m \in N \ {Back} /\ m \in N \ {Front}  BY <1>1, Distinct
  <2>2. \A m \in I : <<m, Back>> \in R  BY <1>1, <2>1 DEF Steps
  <2>3. \A m \in I : <<m, Front>> \in Turned(R)  BY <1>1, <2>1 DEF Steps
  <2> QED BY <1>2, <2>1, <2>2, <2>3
<1>5. \A m \in I : m = o \/ <<m, o>> \in R
  BY <1>3, <1>4
<1>6. o \in I
  <2>1. PICK m : m \in I  OBVIOUS
  <2>2. o # Front  BY <1>1, <1>2, <1>4, <1>5, <2>1 DEF Orders
  <2>3. o # Back  BY <1>1, <1>2, <1>3 DEF Orders
  <2> QED BY <1>3, <2>2, <2>3 DEF Ends
<1>7. \A m \in I : <<o, m>> \notin R
  BY <1>2, <1>5, <1>6 DEF Orders
<1> QED BY <1>5, <1>6, <1>7 DEF Oldest

LEMMA SetExistingStep ==
  ASSUME CacheInv, NEW k \in Keys, NEW v \in Values, NEW positive \in BOOLEAN,
         SetExisting(k, v, positive)
  PROVE  CacheInv' /\ Store!Set(k, v, positive)
<1>1. /\ k \in items /\ items' = items /\ answer' = answer
      /\ value' = [value EXCEPT ![k] = v]
      /\ expired' = IF positive THEN expired \ {k} ELSE expired \cup {k}
      /\ links' = MoveToFront(links, k)
  BY DEF SetExisting, Freshness
<1>2. /\ Chained' /\ Newer' = Store!Used(k)
      /\ links' \in [next : [Nodes -> Nodes \cup {Nil}], prev : [Nodes -> Nodes \cup {Nil}]]
  BY <1>1, Moving
<1>3. TypeOK'
  BY <1>1, <1>2, CacheAssumption DEF CacheInv, TypeOK
<1>4. FewItems'
  BY <1>1 DEF CacheInv, FewItems
<1>5. Store!Cached = items /\ items \cup {k} = items /\ Cardinality(items) <= Capacity
  BY <1>1, CacheFacts DEF CacheInv, FewItems
<1>6. Newer' = Store!Among(Store!Used(k), items)
  BY <1>1, <1>2, <1>5 DEF Store!Used, Store!Among
<1>7. value' = [j \in Keys |-> IF j \notin items THEN NoValue ELSE IF j = k THEN v ELSE value[j]]
  BY <1>1 DEF CacheInv, TypeOK
<1>8. expired' = {j \in items : IF j = k THEN ~positive ELSE j \in expired}
  BY <1>1 DEF CacheInv, TypeOK
<1>9. Store!Set(k, v, positive)
  <2>1. Store!Kept(k) = items  BY <1>5, SameCount DEF Store!Kept
  <2> QED BY <1>1, <1>6, <1>7, <1>8, <2>1 DEF Store!Set
<1> QED BY <1>2, <1>3, <1>4, <1>9 DEF CacheInv

LEMMA SetNewStep ==
  ASSUME CacheInv, NEW k \in Keys, NEW v \in Values, NEW positive \in BOOLEAN,
         SetNew(k, v, positive)
  PROVE  CacheInv' /\ Store!Set(k, v, positive)
<1> DEFINE R == ListOrder(links, items)
<1> DEFINE I == items \cup {k}
<1> DEFINE R1 == Led(R, items, k)
<1> DEFINE added == AddToFront(links, k)
<1> DEFINE o == Oldest(added)
<1> DEFINE full == Cardinality(I) > Capacity
<1> DEFINE kept == IF Cardinality(I) <= Capacity THEN I ELSE I \ {o}
<1>1. /\ k \notin items /\ items \subseteq Keys /\ expired \subseteq items
      /\ IsFiniteSet(items) /\ Cardinality(items) <= Capacity
      /\ Chain(links, items, R)
  BY DEF SetNew, CacheInv, TypeOK, FewItems, Chained
<1>2. /\ IsFiniteSet(I) /\ Cardinality(I) = Cardinality(items) + 1
      /\ Cardinality(items) \in Nat /\ Cardinality(I) \in Nat
  BY <1>1, FS_AddElement, FS_CardinalityType
<1>3. full <=> ~(Cardinality(I) <= Capacity)
  <2> HIDE DEF I
  <2> QED BY <1>2, CacheAssumption
<1>4. /\ items' = kept /\ answer' = answer
      /\ value' = [j \in Keys |-> IF j \notin kept THEN NoValue
                                  ELSE IF j = k THEN v ELSE value[j]]
      /\ expired' = {j \in kept : IF j = k THEN ~positive ELSE j \in expired}
      /\ links' = IF full THEN Remove(added, o) ELSE added
  <2> DEFINE victims == IF full THEN {o} ELSE {}
  <2>1. I \ victims = kept  BY <1>3
  <2>2. /\ items' = I \ victims /\ answer' = answer
        /\ value' = [j \in Keys |-> IF j \in victims THEN NoValue
                                    ELSE IF j = k THEN v ELSE value[j]]
        /\ expired' = Freshness(expired, k, positive) \ victims
        /\ links' = IF full THEN Remove(added, o) ELSE added
    BY DEF SetNew
  <2>3. \A j \in Keys : (IF j \in victims THEN NoValue ELSE IF j = k THEN v ELSE value[j])
                        = IF j \notin I \ victims THEN NoValue ELSE IF j = k THEN v ELSE value[j]
    <3> HIDE DEF victims
    <3> QED BY DEF CacheInv, TypeOK
  <2>4. Freshness(expired, k, positive) \ victims
          = {j \in I \ victims : IF j = k THEN ~positive ELSE j \in expired}
    <3> HIDE DEF victims
    <3> QED BY <1>1 DEF Freshness
  <2> HIDE DEF victims, I, o, added, full, kept
  <2> QED BY <2>1, <2>2, <2>3, <2>4
<1>5. Chain(added, I, R1)
  <2>1. k \in Keys \ items  BY <1>1
  <2> HIDE DEF R
  <2> QED BY <1>1, <2>1, AddChain
<1>6. /\ o \in I
      /\ \A m \in I : m # o => <<m, o>> \in R1
      /\ \A m \in I : <<o, m>> \notin R1
  <2>1. I # {}  OBVIOUS
  <2> HIDE DEF added, I, R1
  <2> QED BY <1>5, <2>1, OldestIsLast
<1>7. Store!Used(k) = R1 \cap (I \X I) /\ Store!Cached = items
  <2>1. Store!Cached = items /\ Newer = R \cap (items \X items)  BY CacheFacts
  <2>2. R1 \cap (I \X I) = (R \cap (items \X items)) \cup ({k} \X items)
    <3>1. R \subseteq (items \cup Ends) \X (items \cup Ends)
      BY DEF ListOrder
    <3> HIDE DEF R
    <3> QED BY <1>1, <3>1, Distinct DEF Led, Ends
  <2> HIDE DEF R, R1
  <2> QED BY <1>1, <2>1, <2>2 DEF Store!Used, Store!Among
<1>8. \E S : Chain(links', items', S) /\ S \cap (kept \X kept) = R1 \cap (kept \X kept)
  <2>1. CASE full
    <3> HIDE DEF added, o, I, R1
    <3>1. Chain(Remove(added, o), I \ {o}, Kept(R1, I \ {o}))  BY <1>5, <1>6, RemoveChain
    <3>2. kept = I \ {o} /\ links' = Remove(added, o)  BY <1>3, <1>4, <2>1
    <3>3. Kept(R1, I \ {o}) \cap (kept \X kept) = R1 \cap (kept \X kept)  BY <3>2 DEF Kept
    <3> QED BY <1>4, <3>1, <3>2, <3>3
  <2>2. CASE ~full
    BY <1>3, <1>4, <1>5, <2>2
  <2> QED BY <2>1, <2>2
<1> HIDE DEF R1, o, added, R
<1>9. kept \subseteq I /\ IsFiniteSet(kept) /\ Cardinality(kept) <= Capacity
  <2>1. CASE full
    <3>1. kept = I \ {o}  BY <1>3, <2>1
    <3>2. IsFiniteSet(I \ {o}) /\ Cardinality(I \ {o}) = Cardinality(I) - 1
      <4> HIDE DEF I
      <4> QED BY <1>2, <1>6, FS_RemoveElement
    <3>3. Cardinality(I \ {o}) = Cardinality(items)
      <4> HIDE DEF I
      <4> QED BY <1>2, <3>2
    <3> QED BY <1>1, <3>1, <3>2, <3>3
  <2>2. CASE ~full
    BY <1>2, <1>3, <2>2
  <2> QED BY <2>1, <2>2
<1>10. Chained' /\ Newer' = R1 \cap (kept \X kept)
  <2>1. PICK S : Chain(links', items', S) /\ S \cap (kept \X kept) = R1 \cap (kept \X kept)
    BY <1>8
  <2> HIDE DEF kept
  <2>2. IsFiniteSet(items')  BY <1>4, <1>9
  <2> QED BY <1>4, <2>1, <2>2, Relinked
<1>11. links' \in [next : [Nodes -> Nodes \cup {Nil}], prev : [Nodes -> Nodes \cup {Nil}]]
  BY <1>8 DEF Chain
<1>12. FewItems'
  <2> HIDE DEF kept
  <2> QED BY <1>4, <1>9 DEF FewItems
<1>13. TypeOK'
  <2>1. kept \subseteq Keys  BY <1>1, <1>9
  <2>2. \A j \in kept : j = k \/ j \in items  BY <1>9
  <2> HIDE DEF kept, full
  <2>3. items' \subseteq Keys /\ expired' \subseteq items'  BY <1>4, <2>1
  <2>4. value' \in [Keys -> Values \cup {NoValue}]  BY <1>4 DEF CacheInv, TypeOK
  <2>5. \A j \in Keys : j \in items' <=> value'[j] # NoValue
    BY <1>4, <2>2, CacheAssumption DEF CacheInv, TypeOK
  <2> QED BY <1>4, <1>11, <2>3, <2>4, <2>5 DEF CacheInv, TypeOK
<1>14. Store!Set(k, v, positive)
  <2>1. kept = IF Cardinality(I) <= Capacity THEN I
               ELSE {j \in I : \E i \in I : <<j, i>> \in Store!Used(k)}
    <3>1. I \ {o} = {j \in I : \E i \in I : <<j, i>> \in Store!Used(k)}
      BY <1>6, <1>7
    <3> QED BY <3>1
  <2>2. Newer' = Store!Among(Store!Used(k), kept)
    <3>1. (R1 \cap (I \X I)) \cap (kept \X kept) = R1 \cap (kept \X kept)
      <4> HIDE DEF kept
      <4> QED BY <1>9
    <3> QED BY <1>7, <1>10, <3>1 DEF Store!Among
  <2>3. Store!Kept(k) = kept  BY <1>7, <2>1, SameCount DEF Store!Kept
  <2> HIDE DEF kept
  <2> QED BY <1>4, <2>2, <2>3 DEF Store!Set
<1> QED BY <1>10, <1>12, <1>13, <1>14 DEF CacheInv

LEMMA StepInv ==
  ASSUME CacheInv, Next
  PROVE  CacheInv' /\ Store!Next
<1>1. ASSUME NEW k \in Keys, GetMiss(k) PROVE CacheInv' /\ Store!Get(k)
  <2>1. /\ k \notin items /\ k \notin expired /\ answer' = NoValue /\ value[k] = NoValue
        /\ items' = items /\ expired' = expired /\ value' = value /\ links' = links
    BY <1>1 DEF GetMiss, CacheInv, TypeOK
  <2>2. CacheInv'
    BY <2>1 DEF CacheInv, TypeOK, FewItems, Chained, ListOrder
  <2>3. Newer' = Newer /\ Newer = Store!Among(Newer, Store!Cached \ {k})
    BY <2>1, CacheFacts DEF Newer, Store!Among
  <2>4. value' = [j \in Keys |-> IF j \in {k} THEN NoValue ELSE value[j]]
    BY <2>1 DEF CacheInv, TypeOK
  <2>5. k \notin Store!Cached \ expired  BY <2>1, CacheFacts
  <2> QED BY <2>1, <2>2, <2>3, <2>4, <2>5 DEF Store!Get, Store!Drop
<1>2. ASSUME NEW k \in Keys, GetExpired(k) PROVE CacheInv' /\ Store!Get(k)
  <2>1. /\ k \in items /\ k \in expired /\ answer' = NoValue /\ {k} \cap items = {k}
        /\ links' = Remove(links, k) /\ Forget({k})
    BY <1>2 DEF GetExpired
  <2>2. Chain(links', items \ {k}, Kept(ListOrder(links, items), items \ {k}))
    BY <2>1, RemoveChain DEF CacheInv, Chained
  <2>3. Forget({k} \cap items) /\ {k} \in SUBSET Keys /\ answer' \in Values \cup {NoValue}
    BY <2>1
  <2>4. CacheInv' /\ Store!Drop({k})
    BY <2>2, <2>3, Forgetting
  <2>5. k \notin Store!Cached \ expired  BY <2>1
  <2> QED BY <2>1, <2>4, <2>5 DEF Store!Get
<1>3. ASSUME NEW k \in Keys, GetHit(k) PROVE CacheInv' /\ Store!Get(k)
  <2>1. /\ k \in items /\ k \notin expired /\ answer' = value[k] /\ links' = MoveToFront(links, k)
        /\ items' = items /\ expired' = expired /\ value' = value
    BY <1>3 DEF GetHit
  <2>2. /\ Chained' /\ Newer' = Store!Used(k)
        /\ links' \in [next : [Nodes -> Nodes \cup {Nil}], prev : [Nodes -> Nodes \cup {Nil}]]
    BY <2>1, Moving
  <2>3. TypeOK' /\ FewItems'
    BY <2>1, <2>2 DEF CacheInv, TypeOK, FewItems
  <2>4. k \in Store!Cached \ expired  BY <2>1, CacheFacts
  <2> QED BY <2>1, <2>2, <2>3, <2>4 DEF CacheInv, Store!Get
<1>4. ASSUME NEW k \in Keys, Delete(k) PROVE CacheInv' /\ Store!Delete(k)
  <2>1. /\ links' = IF k \in items THEN Remove(links, k) ELSE links
        /\ Forget({k} \cap items) /\ answer' = answer
    BY <1>4 DEF Delete
  <2>2. Chain(links, items, ListOrder(links, items))
    BY DEF CacheInv, Chained
  <2>3. Chain(links', items \ {k}, Kept(ListOrder(links, items), items \ {k}))
    <3>1. CASE k \in items  BY <2>1, <2>2, <3>1, RemoveChain
    <3>2. CASE k \notin items
      <4>1. items \ {k} = items /\ links' = links  BY <2>1, <3>2
      <4>2. Kept(ListOrder(links, items), items) = ListOrder(links, items)
        BY DEF Kept, ListOrder
      <4> QED BY <2>2, <4>1, <4>2
    <3> QED BY <3>1, <3>2
  <2>4. {k} \in SUBSET Keys /\ answer' \in Values \cup {NoValue}
    BY <2>1 DEF CacheInv, TypeOK
  <2>5. CacheInv' /\ Store!Drop({k})
    BY <2>1, <2>3, <2>4, Forgetting
  <2> QED BY <2>1, <2>5 DEF Store!Delete
<1>5. ASSUME NEW k \in Keys, Expire(k) PROVE CacheInv' /\ Store!Expire(k)
  <2>1. /\ k \in items /\ k \notin expired /\ answer' = answer /\ expired' = expired \cup {k}
        /\ items' = items /\ value' = value /\ links' = links
    BY <1>5 DEF Expire
  <2>2. CacheInv'
    BY <2>1 DEF CacheInv, TypeOK, FewItems, Chained, ListOrder
  <2>3. Newer' = Newer  BY <2>1 DEF Newer
  <2>4. k \in Store!Cached \ expired  BY <2>1, CacheFacts
  <2> QED BY <2>1, <2>2, <2>3, <2>4 DEF Store!Expire
<1>6. ASSUME CleanupExpired PROVE CacheInv' /\ Store!CleanupExpired
  <2>1. PICK order \in Bijection(1 .. Cardinality(expired), expired) :
          links' = RemoveAll(links, order)
    BY <1>6 DEF CleanupExpired
  <2>2. Forget(expired) /\ answer' = answer
    BY <1>6 DEF CleanupExpired
  <2>3. /\ expired \in SUBSET items /\ expired \in SUBSET Keys /\ expired \cap items = expired
        /\ answer' \in Values \cup {NoValue}
    BY <2>2 DEF CacheInv, TypeOK
  <2>4. IsFiniteSet(expired)
    BY <2>3, FS_Subset DEF CacheInv, FewItems
  <2>5. Chain(links', items \ expired, Kept(ListOrder(links, items), items \ expired))
    BY <2>1, <2>3, <2>4, RemoveAllChain DEF CacheInv, Chained
  <2>6. CacheInv' /\ Store!Drop(expired)
    BY <2>2, <2>3, <2>5, Forgetting
  <2> QED BY <2>2, <2>6 DEF Store!CleanupExpired
<1>7. ASSUME Clear PROVE CacheInv' /\ Store!Clear
  <2>1. /\ items' = {} /\ value' = [j \in Keys |-> NoValue] /\ expired' = {}
        /\ links' = NewLinks /\ answer' = answer
    BY <1>7 DEF Clear
  <2>2. FewItems' /\ IsFiniteSet(items')
    BY <2>1, FS_EmptySet, CacheAssumption DEF FewItems
  <2>3. Chain(links', items', {<<Front, Back>>})
    BY <2>1, EmptyChain
  <2>4. Chained' /\ Newer' = {}
    BY <2>1, <2>2, <2>3, Relinked
  <2>5. TypeOK'
    BY <2>1, <2>3 DEF CacheInv, TypeOK, Chain
  <2>6. /\ Newer' = Store!Among(Newer, Store!Cached \ Keys)
        /\ expired' = expired \ Keys
        /\ value' = [j \in Keys |-> IF j \in Keys THEN NoValue ELSE value[j]]
    BY <2>1, <2>4 DEF CacheInv, TypeOK, Store!Among, Store!Cached
  <2> QED BY <2>1, <2>2, <2>4, <2>5, <2>6 DEF CacheInv, Store!Clear, Store!Drop
<1>8. CASE \E k \in Keys : \/ GetMiss(k) \/ GetExpired(k) \/ GetHit(k)
                           \/ Delete(k) \/ Expire(k)
  BY <1>1, <1>2, <1>3, <1>4, <1>5, <1>8 DEF Store!Next
<1>9. CASE \E k \in Keys, v \in Values, positive \in BOOLEAN :
             SetExisting(k, v, positive) \/ SetNew(k, v, positive)
  <2>1. PICK k \in Keys, v \in Values, positive \in BOOLEAN :
          SetExisting(k, v, positive) \/ SetNew(k, v, positive)
    BY <1>9
  <2>2. CacheInv' /\ Store!Set(k, v, positive)
    BY <2>1, SetExistingStep, SetNewStep
  <2> QED BY <2>2 DEF Store!Next
<1>10. CASE CleanupExpired
  BY <1>6, <1>10 DEF Store!Next
<1>11. CASE Clear
  BY <1>7, <1>11 DEF Store!Next
<1> QED BY <1>8, <1>9, <1>10, <1>11 DEF Next

LEMMA StutterInv ==
  ASSUME CacheInv, UNCHANGED vars
  PROVE  CacheInv' /\ UNCHANGED Store!storeVars
<1>1. /\ items' = items /\ expired' = expired /\ value' = value
      /\ links' = links /\ answer' = answer
  BY DEF vars
<1>2. Newer' = Newer
  BY <1>1 DEF Newer
<1>3. CacheInv'
  BY <1>1 DEF CacheInv, TypeOK, FewItems, Chained, ListOrder
<1> QED BY <1>1, <1>2, <1>3 DEF Store!storeVars

LEMMA InvIsWellFormed == CacheInv => WellFormed
<1> SUFFICES ASSUME CacheInv PROVE WellFormed
  OBVIOUS
<1> DEFINE R == ListOrder(links, items)
<1> DEFINE N == items \cup Ends
<1>1. /\ TypeOK /\ IsFiniteSet(items) /\ Cardinality(items) <= Capacity
      /\ Chain(links, items, R)
  BY DEF CacheInv, FewItems, Chained
<1>2. /\ \A n \in N : After(links.next, n) = {m \in N : <<n, m>> \in R}
      /\ \A n \in N : After(links.prev, n) = {m \in N : <<m, n>> \in R}
  <2> HIDE DEF R
  <2> QED BY <1>1, OneOrder
<1>3. /\ Steps(links.next, N, R, Back) /\ Steps(links.prev, N, Turned(R), Front)
      /\ Front # Back /\ Front \notin items /\ Back \notin items
  BY <1>1, Distinct DEF Chain
<1> HIDE DEF R
<1>4. Orders(R, N) /\ \A n, m : <<n, m>> \in Turned(R) <=> <<m, n>> \in R
  BY <1>3, TurnedOrders DEF Steps
<1>5. \A n \in N \ {Back} : <<n, Back>> \in R
  BY <1>3 DEF Steps
<1>6. \A n \in N \ {Front} : <<Front, n>> \in R
  <2>1. \A n \in N \ {Front} : <<n, Front>> \in Turned(R)  BY <1>3 DEF Steps
  <2> QED BY <1>4, <2>1
<1>7. Front \in N /\ Back \in N /\ N = items \cup {Front, Back}
  BY DEF Ends
<1>8. After(links.next, Front) = items \cup {Back}
  <2>1. {m \in N : <<Front, m>> \in R} = N \ {Front}  BY <1>4, <1>6, <1>7 DEF Orders
  <2> QED BY <1>2, <1>3, <1>7, <2>1
<1>9. After(links.prev, Back) = items \cup {Front}
  <2>1. {m \in N : <<m, Back>> \in R} = N \ {Back}  BY <1>4, <1>5, <1>7 DEF Orders
  <2> QED BY <1>2, <1>3, <1>7, <2>1
<1>10. \A n \in N : n \notin After(links.next, n)
  BY <1>2, <1>4 DEF Orders
<1>11. \A n, m \in N : m \in After(links.next, n) <=> n \in After(links.prev, m)
  BY <1>2
<1> QED BY <1>1, <1>7, <1>8, <1>9, <1>10, <1>11 DEF WellFormed

-----------------------------------------------------------------------------
(* The theorems.                                                           *)

\* The map and the list of the cache agree in every reachable state, whatever
\* the keys and the capacity: NewCache makes it so, and every method keeps it,
\* the eviction in Set and the loop of cleanupExpired included.
THEOREM CacheInvariant == Spec => []CacheInv
<1>1. Init => CacheInv  BY InitInv
<1>2. CacheInv /\ [Next]_vars => CacheInv'  BY StepInv, StutterInv
<1> QED BY <1>1, <1>2, PTL DEF Spec

\* The pointer surgery of remove, addToFront, moveToFront and evict never strands
\* or doubles an item, the list reads the same from both ends, and the capacity is
\* kept.
THEOREM ListAndMapAgree == Spec => []WellFormed
<1>1. Spec => []CacheInv  BY CacheInvariant
<1>2. CacheInv => WellFormed  BY InvIsWellFormed
<1> QED BY <1>1, <1>2, PTL

\* The linked list of cache.go implements a least-recently-used map: every method
\* is the step of that map with the same name, with the same answer of Get and the
\* same entries forgotten.
THEOREM CacheImplementsStore == Spec => StoreSpec
<1>1. Init => Store!Init  BY InitInv
<1>2. CacheInv /\ [Next]_vars => [Store!Next]_(Store!storeVars)  BY StepInv, StutterInv
<1>3. Spec => []CacheInv  BY CacheInvariant
<1> QED BY <1>1, <1>2, <1>3, PTL DEF Spec, StoreSpec, Store!Spec
=============================================================================
