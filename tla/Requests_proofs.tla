--------------------------- MODULE Requests_proofs ---------------------------
(***************************************************************************)
(* The conversion of requests, for any conversations and tools and any     *)
(* number of handlers, converters and cached entries. Messages: every      *)
(* result names the tool of its own conversation, and a payload says what  *)
(* its conversation says. Tools: what is sent can be used, keeps what is   *)
(* simple, and has the same form each time.                                *)
(*                                                                         *)
(* An invariant says that what a handler or the cache holds depends only   *)
(* on the conversation or the tools it is for (MessageInv, ToolInv); what  *)
(* that is, the other lemmas say of the operators. The loops that append   *)
(* are lists of lists (Expanded), and facts about them are proved by       *)
(* induction over lists (ListInduction), which needs no operator as a      *)
(* parameter: the set of the lists with the fact takes its place.          *)
(***************************************************************************)
EXTENDS Converters, SequenceTheorems, FiniteSetTheorems, TLAPS

-----------------------------------------------------------------------------
(* Lists.                                                                  *)

\* Induction over the naturals, as a fact about sets of them.
LEMMA Induction ==
  ASSUME NEW P \in SUBSET Nat, 0 \in P, \A n \in P : n + 1 \in P
  PROVE  \A n \in Nat : n \in P
<1> SUFFICES ASSUME NEW N \in Nat, N \notin P PROVE FALSE
  OBVIOUS
<1> DEFINE Q == (0 .. N) \cap P
<1> DEFINE R == Q \ {0}
<1> DEFINE f == [x \in Q |-> x + 1]
<1>1. IsFiniteSet(Q)
  <2>1. IsFiniteSet(0 .. N)  BY FS_Interval
  <2>2. Q \subseteq 0 .. N   OBVIOUS
  <2> HIDE DEF Q
  <2> QED BY <2>1, <2>2, FS_Subset
<1>2. f \in Injection(Q, R)
  BY DEF Injection, IsInjective
<1>3. 0 \in Q
  OBVIOUS
<1> HIDE DEF Q
<1>4. IsFiniteSet(R) /\ Cardinality(R) = Cardinality(Q) - 1 /\ Cardinality(Q) \in Nat
  BY <1>1, <1>3, FS_RemoveElement, FS_CardinalityType
<1> HIDE DEF R, f
<1>5. Cardinality(Q) <= Cardinality(R)
  BY <1>2, <1>4, FS_Injection
<1> QED BY <1>4, <1>5


\* A list is empty, or a list with one more element.
LEMMA ListInduction ==
  ASSUME NEW S, NEW P \in SUBSET Seq(S), <<>> \in P,
         \A s \in P, x \in S : Append(s, x) \in P
  PROVE  \A s \in Seq(S) : s \in P
<1> DEFINE N == {n \in Nat : \A s \in Seq(S) : Len(s) = n => s \in P}
<1>1. 0 \in N
  BY EmptySeq
<1>2. ASSUME NEW n \in N PROVE n + 1 \in N
  <2> SUFFICES ASSUME NEW s \in Seq(S), Len(s) = n + 1 PROVE s \in P
    OBVIOUS
  <2>1. n \in Nat  OBVIOUS
  <2>2. s # <<>>  BY <2>1
  <2>3. PICK t \in Seq(S), x \in S : s = Append(t, x)
    BY <2>2, SequenceEmptyOrAppend
  <2>4. Len(t) = n  BY <2>1, <2>3, AppendProperties
  <2> QED BY <2>3, <2>4
<1>3. \A n \in Nat : n \in N
  <2>1. N \in SUBSET Nat  OBVIOUS
  <2> HIDE DEF N
  <2> QED BY <1>1, <1>2, <2>1, Induction
<1> QED BY <1>3

\* The recursion of FlattenSeq is well defined.
LEMMA FlatByStep ==
  ASSUME NEW S, NEW q \in Seq(Seq(S)), q # <<>>
  PROVE  \E f : /\ f[1] = q[1]
                /\ \A i \in 2 .. Len(q) : f[i] = f[i - 1] \o q[i]
                /\ FlattenSeq(q) = f[Len(q)]
<1> DEFINE F(g, m) == [i \in 1 .. m |-> IF i = 1 THEN q[i] ELSE g[i - 1] \o q[i]]
<1> DEFINE P == {m \in Nat : \E g : g = F(g, m)}
<1>1. 0 \in P
  <2>1. <<>> = F(<<>>, 0)  OBVIOUS
  <2> QED BY <2>1
<1>2. ASSUME NEW m \in P PROVE m + 1 \in P
  <2>1. PICK g : g = F(g, m)  OBVIOUS
  <2>2. m \in Nat  OBVIOUS
  <2> DEFINE last == IF m = 0 THEN q[1] ELSE g[m] \o q[m + 1]
  <2> DEFINE h == [i \in 1 .. m + 1 |-> IF i = m + 1 THEN last ELSE g[i]]
  <2>3. \A i \in 1 .. m : h[i] = g[i]
    <3>1. \A i \in 1 .. m : i \in 1 .. m + 1 /\ i # m + 1  BY <2>2
    <3> QED BY <3>1
  <2>4. h[m + 1] = last
    <3>1. m + 1 \in 1 .. m + 1  BY <2>2
    <3> QED BY <3>1
  <2>5. \A i \in 1 .. m : g[i] = IF i = 1 THEN q[i] ELSE g[i - 1] \o q[i]
    <3> DEFINE body(i) == IF i = 1 THEN q[i] ELSE g[i - 1] \o q[i]
    <3>1. g = [i \in 1 .. m |-> body(i)]  BY <2>1
    <3> HIDE DEF body
    <3>2. \A i \in 1 .. m : g[i] = body(i)  BY <3>1
    <3> QED BY <3>2 DEF body
  <2> HIDE DEF h
  <2>6. \A i \in 1 .. m + 1 : h[i] = IF i = 1 THEN q[i] ELSE h[i - 1] \o q[i]
    <3> TAKE i \in 1 .. m + 1
    <3>1. CASE i = m + 1
      <4>1. CASE m = 0  BY <2>4, <3>1, <4>1
      <4>2. CASE m # 0
        <5>1. m \in 1 .. m /\ i - 1 = m /\ i # 1  BY <2>2, <3>1, <4>2
        <5> QED BY <2>3, <2>4, <3>1, <4>2, <5>1
      <4> QED BY <4>1, <4>2
    <3>2. CASE i # m + 1
      <4>1. i \in 1 .. m /\ (i # 1 => i - 1 \in 1 .. m)  BY <2>2, <3>2
      <4> QED BY <2>3, <2>5, <4>1
    <3> QED BY <3>1, <3>2
  <2>7. h = F(h, m + 1)
    <3> DEFINE body(i) == IF i = 1 THEN q[i] ELSE h[i - 1] \o q[i]
    <3> HIDE DEF body
    <3>1. h = [i \in 1 .. m + 1 |-> h[i]]  BY DEF h
    <3>2. \A i \in 1 .. m + 1 : h[i] = body(i)  BY <2>6 DEF body
    <3>3. h = [i \in 1 .. m + 1 |-> body(i)]  BY <3>1, <3>2
    <3> QED BY <3>3 DEF body
  <2>8. m + 1 \in Nat  BY <2>2
  <2> HIDE DEF F
  <2> QED BY <2>7, <2>8
<1>3. Len(q) \in P /\ Len(q) \in Nat /\ Len(q) # 0
  <2>1. P \in SUBSET Nat /\ \A m \in P : m + 1 \in P  BY <1>2
  <2> HIDE DEF P
  <2>2. \A m \in Nat : m \in P  BY <1>1, <2>1, Induction
  <2> QED BY <2>2, EmptySeq
<1> DEFINE flatten == CHOOSE g : g = F(g, Len(q))
<1>4. flatten = F(flatten, Len(q))
  BY <1>3
<1>5. FlattenSeq(q) = flatten[Len(q)]
  BY <1>3 DEF FlattenSeq
<1> HIDE DEF flatten
<1>6. \A i \in 1 .. Len(q) : flatten[i] = IF i = 1 THEN q[i] ELSE flatten[i - 1] \o q[i]
  <2> DEFINE body(i) == IF i = 1 THEN q[i] ELSE flatten[i - 1] \o q[i]
  <2>1. flatten = [i \in 1 .. Len(q) |-> body(i)]  BY <1>4
  <2> HIDE DEF body
  <2>2. \A i \in 1 .. Len(q) : flatten[i] = body(i)  BY <2>1
  <2> QED BY <2>2 DEF body
<1>7. 1 \in 1 .. Len(q) /\ \A i \in 2 .. Len(q) : i \in 1 .. Len(q) /\ i # 1
  BY <1>3
<1> QED BY <1>5, <1>6, <1>7

\* FlattenSeq, one list at a time.
LEMMA FlatOfNone == FlattenSeq(<<>>) = <<>>
  BY DEF FlattenSeq

\* The last list goes to the end, if what comes before it is a list.
LEMMA FlatAppend ==
  ASSUME NEW S, NEW q \in Seq(Seq(S)), NEW s \in Seq(S), FlattenSeq(q) \in Seq(S)
  PROVE  FlattenSeq(Append(q, s)) = FlattenSeq(q) \o s
<1> DEFINE p == Append(q, s)
<1>1. /\ p \in Seq(Seq(S)) /\ p # <<>> /\ Len(p) = Len(q) + 1 /\ Len(q) \in Nat
      /\ \A i \in 1 .. Len(q) : p[i] = q[i]
      /\ p[Len(q) + 1] = s
  BY AppendProperties
<1> HIDE DEF p
<1>2. PICK f : /\ f[1] = p[1]
               /\ \A i \in 2 .. Len(p) : f[i] = f[i - 1] \o p[i]
               /\ FlattenSeq(p) = f[Len(p)]
  BY <1>1, FlatByStep
<1>3. CASE q = <<>>
  BY <1>1, <1>2, <1>3, FlatOfNone DEF p
<1>4. CASE q # <<>>
  <2>1. PICK g : /\ g[1] = q[1]
                 /\ \A i \in 2 .. Len(q) : g[i] = g[i - 1] \o q[i]
                 /\ FlattenSeq(q) = g[Len(q)]
    BY <1>4, FlatByStep
  <2>2. ASSUME NEW k \in 2 .. Len(q), f[k - 1] = g[k - 1] PROVE f[k] = g[k]
    <3>1. k \in 2 .. Len(p) /\ k \in 1 .. Len(q)  BY <1>1
    <3> QED BY <1>1, <1>2, <2>1, <2>2, <3>1
  <2> DEFINE P == {m \in Nat : m + 1 <= Len(q) => f[m + 1] = g[m + 1]}
  <2>3. 0 \in P /\ \A m \in P : m + 1 \in P
    <3>1. 0 \in P  BY <1>1, <1>2, <2>1, <1>4
    <3>2. ASSUME NEW m \in P PROVE m + 1 \in P
      <4>1. m \in Nat /\ m + 1 + 1 - 1 = m + 1  OBVIOUS
      <4>2. m + 1 + 1 <= Len(q) => m + 1 + 1 \in 2 .. Len(q) /\ m + 1 <= Len(q)  BY <1>1, <4>1
      <4> QED BY <2>2, <4>1, <4>2
    <3> QED BY <3>1, <3>2
  <2>4. \A m \in Nat : m \in P
    <3>1. P \in SUBSET Nat  OBVIOUS
    <3> HIDE DEF P
    <3> QED BY <2>3, <3>1, Induction
  <2>5. Len(q) - 1 \in Nat /\ Len(q) - 1 + 1 = Len(q) /\ Len(p) \in 2 .. Len(p) /\ Len(p) - 1 = Len(q)
    BY <1>1, <1>4, EmptySeq
  <2>6. f[Len(q)] = g[Len(q)]
    <3>1. Len(q) - 1 \in P  BY <2>4, <2>5
    <3>2. Len(q) - 1 + 1 <= Len(q) => f[Len(q) - 1 + 1] = g[Len(q) - 1 + 1]  BY <3>1
    <3> QED BY <2>5, <3>2
  <2> QED BY <1>1, <1>2, <2>1, <2>5, <2>6 DEF p
<1> QED BY <1>3, <1>4

\* What FlattenSeq returns is a list, and grows at its end.
LEMMA FlatList ==
  ASSUME NEW S, NEW q \in Seq(Seq(S)) PROVE FlattenSeq(q) \in Seq(S)
<1> DEFINE P == {r \in Seq(Seq(S)) : FlattenSeq(r) \in Seq(S)}
<1>1. <<>> \in P  BY FlatOfNone, EmptySeq
<1>2. ASSUME NEW r \in P, NEW s \in Seq(S) PROVE Append(r, s) \in P
  <2>1. FlattenSeq(Append(r, s)) = FlattenSeq(r) \o s  BY FlatAppend
  <2>2. Append(r, s) \in Seq(Seq(S))  BY AppendProperties
  <2> QED BY <2>1, <2>2, ConcatProperties
<1>3. \A r \in Seq(Seq(S)) : r \in P
  <2>1. P \in SUBSET Seq(Seq(S))  OBVIOUS
  <2> HIDE DEF P
  <2> QED BY <1>1, <1>2, <2>1, ListInduction
<1> QED BY <1>3

\* It is one, so the last list always does.
LEMMA FlatGrows ==
  ASSUME NEW S, NEW q \in Seq(Seq(S)), NEW s \in Seq(S)
  PROVE  FlattenSeq(Append(q, s)) = FlattenSeq(q) \o s
  BY FlatList, FlatAppend

\* The images of a list's elements, and the lists they are expanded to.
Mapped(h, s) == [i \in DOMAIN s |-> h[s[i]]]
Expanded(h, s) == FlattenSeq(Mapped(h, s))

\* Functions, as facts that are cited by name.
Maps(h, S, T) == \A x \in S : h[x] \in T

\* Mapping keeps the length; it goes one element at a time.
LEMMA MappedList ==
  ASSUME NEW S, NEW T, NEW h, Maps(h, S, T), NEW s \in Seq(S)
  PROVE  Mapped(h, s) \in Seq(T) /\ Len(Mapped(h, s)) = Len(s)
<1>1. DOMAIN s = 1 .. Len(s) /\ Len(s) \in Nat /\ \A i \in 1 .. Len(s) : s[i] \in S
  BY LenProperties, ElementOfSeq
<1>2. Mapped(h, s) = [i \in 1 .. Len(s) |-> h[s[i]]]  BY <1>1 DEF Mapped
<1>3. \A i \in 1 .. Len(s) : h[s[i]] \in T  BY <1>1 DEF Maps
<1> QED BY <1>1, <1>2, <1>3

LEMMA MappedNone == ASSUME NEW h PROVE Mapped(h, <<>>) = <<>>
  BY DEF Mapped

LEMMA MappedAppend ==
  ASSUME NEW S, NEW T, NEW h, Maps(h, S, T), NEW s \in Seq(S), NEW x \in S
  PROVE  Mapped(h, Append(s, x)) = Append(Mapped(h, s), h[x])
<1> DEFINE t == Append(s, x)
<1>1. /\ t \in Seq(S) /\ Len(t) = Len(s) + 1 /\ Len(s) \in Nat /\ DOMAIN s = 1 .. Len(s)
      /\ DOMAIN t = 1 .. Len(t) /\ t[Len(s) + 1] = x /\ \A i \in 1 .. Len(s) : t[i] = s[i]
  BY AppendProperties, LenProperties
<1> HIDE DEF t
<1> DEFINE left == Mapped(h, t)
<1> DEFINE before == Mapped(h, s)
<1> DEFINE right == Append(before, h[x])
<1>2. before \in Seq(T) /\ left \in Seq(T) /\ Len(left) = Len(s) + 1 /\ Len(before) = Len(s)
  <2>1. before \in Seq(T) /\ Len(before) = Len(s)  BY MappedList
  <2>2. left \in Seq(T) /\ Len(left) = Len(t)  BY <1>1, MappedList
  <2> QED BY <1>1, <2>1, <2>2
<1>3. \A i \in 1 .. Len(t) : left[i] = h[t[i]]  BY <1>1 DEF Mapped
<1>4. \A i \in 1 .. Len(s) : before[i] = h[s[i]]  BY <1>1 DEF Mapped
<1>5. h[x] \in T  BY DEF Maps
<1> HIDE DEF left, before
<1>6. /\ right \in Seq(T) /\ Len(right) = Len(s) + 1 /\ right[Len(s) + 1] = h[x]
      /\ \A i \in 1 .. Len(s) : right[i] = before[i]
  BY <1>2, <1>5, AppendProperties
<1> HIDE DEF right
<1>7. ASSUME NEW i \in 1 .. Len(s) + 1 PROVE left[i] = right[i]
  <2>1. CASE i = Len(s) + 1  BY <1>1, <1>3, <1>6, <2>1
  <2>2. CASE i # Len(s) + 1
    <3>1. i \in 1 .. Len(s) /\ i \in 1 .. Len(t)  BY <1>1, <2>2
    <3> QED BY <1>1, <1>3, <1>4, <1>6, <3>1
  <2> QED BY <2>1, <2>2
<1>8. left = right  BY <1>1, <1>2, <1>6, <1>7, SeqEqual
<1> QED BY <1>8 DEF left, right, before, t

\* So does expansion, element after element.
LEMMA ExpandedList ==
  ASSUME NEW S, NEW T, NEW h, Maps(h, S, Seq(T)), NEW s \in Seq(S)
  PROVE  Expanded(h, s) \in Seq(T)
<1>1. Mapped(h, s) \in Seq(Seq(T))  BY MappedList
<1> QED BY <1>1, FlatList DEF Expanded

LEMMA ExpandedNone == ASSUME NEW h PROVE Expanded(h, <<>>) = <<>>
  BY MappedNone, FlatOfNone DEF Expanded

LEMMA ExpandedAppend ==
  ASSUME NEW S, NEW T, NEW h, Maps(h, S, Seq(T)), NEW s \in Seq(S), NEW x \in S
  PROVE  Expanded(h, Append(s, x)) = Expanded(h, s) \o h[x]
<1>1. Mapped(h, s) \in Seq(Seq(T)) /\ h[x] \in Seq(T)  BY MappedList DEF Maps
<1>2. Mapped(h, Append(s, x)) = Append(Mapped(h, s), h[x])  BY MappedAppend
<1> QED BY <1>1, <1>2, FlatGrows DEF Expanded

LEMMA ExpandedOne ==
  ASSUME NEW S, NEW T, NEW h, Maps(h, S, Seq(T)), NEW x \in S
  PROVE  Expanded(h, <<x>>) = h[x]
<1>1. <<x>> = Append(<<>>, x) /\ <<>> \in Seq(S) /\ h[x] \in Seq(T)  BY DEF Maps
<1>2. Expanded(h, Append(<<>>, x)) = Expanded(h, <<>>) \o h[x]  BY <1>1, ExpandedAppend
<1> QED BY <1>1, <1>2, ExpandedNone, ConcatEmptySeq

\* Two lists are expanded one after the other.
LEMMA ExpandedConcat ==
  ASSUME NEW S, NEW T, NEW h, Maps(h, S, Seq(T)), NEW s \in Seq(S), NEW t \in Seq(S)
  PROVE  Expanded(h, s \o t) = Expanded(h, s) \o Expanded(h, t)
<1> DEFINE P == {r \in Seq(S) : Expanded(h, s \o r) = Expanded(h, s) \o Expanded(h, r)}
<1>1. <<>> \in P
  <2>1. s \o <<>> = s /\ Expanded(h, s) \o <<>> = Expanded(h, s)
    BY ExpandedList, ConcatEmptySeq
  <2> QED BY <2>1, ExpandedNone, EmptySeq
<1>2. ASSUME NEW r \in P, NEW x \in S PROVE Append(r, x) \in P
  <2>1. r \in Seq(S) /\ Expanded(h, s \o r) = Expanded(h, s) \o Expanded(h, r)  OBVIOUS
  <2>2. Append(r, x) \in Seq(S)  BY <2>1, AppendProperties
  <2>3. s \o Append(r, x) = Append(s \o r, x) /\ s \o r \in Seq(S)  BY <2>1
  <2> HIDE DEF P
  <2>4. Expanded(h, s \o Append(r, x)) = (Expanded(h, s) \o Expanded(h, r)) \o h[x]
    <3> DEFINE u == s \o r
    <3>1. u \in Seq(S) /\ s \o Append(r, x) = Append(u, x)  BY <2>3
    <3>2. Expanded(h, u) = Expanded(h, s) \o Expanded(h, r)  BY <2>1
    <3> HIDE DEF u
    <3>3. Expanded(h, Append(u, x)) = Expanded(h, u) \o h[x]  BY <3>1, ExpandedAppend
    <3> QED BY <3>1, <3>2, <3>3
  <2>5. Expanded(h, Append(r, x)) = Expanded(h, r) \o h[x]  BY <2>1, ExpandedAppend
  <2>6. Expanded(h, s) \in Seq(T) /\ Expanded(h, r) \in Seq(T) /\ h[x] \in Seq(T)
    BY <2>1, ExpandedList DEF Maps
  <2>7. (Expanded(h, s) \o Expanded(h, r)) \o h[x] = Expanded(h, s) \o (Expanded(h, r) \o h[x])
    <3> DEFINE a == Expanded(h, s)
    <3> DEFINE b == Expanded(h, r)
    <3> DEFINE c == h[x]
    <3>1. a \in Seq(T) /\ b \in Seq(T) /\ c \in Seq(T)  BY <2>6
    <3> HIDE DEF a, b, c
    <3>2. (a \o b) \o c = a \o (b \o c)  BY <3>1, ConcatAssociative
    <3> QED BY <3>2 DEF a, b, c
  <2> QED BY <2>2, <2>4, <2>5, <2>7 DEF P
<1>3. \A r \in Seq(S) : r \in P
  <2>1. P \in SUBSET Seq(S)  OBVIOUS
  <2> HIDE DEF P
  <2> QED BY <1>1, <1>2, <2>1, ListInduction
<1> QED BY <1>3

\* Two rounds of expansion are one.
LEMMA ExpandedAgain ==
  ASSUME NEW S, NEW T, NEW U, NEW h, Maps(h, S, Seq(T)), NEW g, Maps(g, T, Seq(U)),
         NEW s \in Seq(S)
  PROVE  Expanded(g, Expanded(h, s)) = Expanded([x \in S |-> Expanded(g, h[x])], s)
<1> DEFINE both == [x \in S |-> Expanded(g, h[x])]
<1>1. Maps(both, S, Seq(U)) /\ \A x \in S : both[x] = Expanded(g, h[x])
  <2>1. \A x \in S : h[x] \in Seq(T)  BY DEF Maps
  <2>2. \A x \in S : Expanded(g, h[x]) \in Seq(U)  BY <2>1, ExpandedList
  <2> QED BY <2>2 DEF Maps
<1> HIDE DEF both
<1> DEFINE P == {r \in Seq(S) : Expanded(g, Expanded(h, r)) = Expanded(both, r)}
<1>2. <<>> \in P
  BY ExpandedNone, EmptySeq
<1>3. ASSUME NEW r \in P, NEW x \in S PROVE Append(r, x) \in P
  <2>1. r \in Seq(S) /\ Expanded(g, Expanded(h, r)) = Expanded(both, r)  OBVIOUS
  <2>2. Append(r, x) \in Seq(S)  BY <2>1, AppendProperties
  <2> HIDE DEF P
  <2>3. Expanded(h, Append(r, x)) = Expanded(h, r) \o h[x]  BY <2>1, ExpandedAppend
  <2>4. Expanded(h, r) \in Seq(T) /\ h[x] \in Seq(T)  BY <2>1, ExpandedList DEF Maps
  <2>5. Expanded(g, Expanded(h, r) \o h[x]) = Expanded(both, r) \o both[x]
    <3>1. Expanded(g, Expanded(h, r) \o h[x]) = Expanded(g, Expanded(h, r)) \o Expanded(g, h[x])
      BY <2>4, ExpandedConcat
    <3> QED BY <1>1, <2>1, <3>1
  <2>6. Expanded(both, Append(r, x)) = Expanded(both, r) \o both[x]
    BY <1>1, <2>1, ExpandedAppend
  <2> QED BY <2>2, <2>3, <2>5, <2>6 DEF P
<1>4. \A r \in Seq(S) : r \in P
  <2>1. P \in SUBSET Seq(S)  OBVIOUS
  <2> HIDE DEF P
  <2> QED BY <1>2, <1>3, <2>1, ListInduction
<1> QED BY <1>4 DEF both

\* Expansion to single elements is a mapping.
LEMMA ExpandedSingles ==
  ASSUME NEW S, NEW T, NEW f, Maps(f, S, T), NEW h, Maps(h, S, Seq(T)),
         \A x \in S : h[x] = <<f[x]>>, NEW s \in Seq(S)
  PROVE  Expanded(h, s) = Mapped(f, s)
<1> DEFINE P == {r \in Seq(S) : Expanded(h, r) = Mapped(f, r)}
<1>1. <<>> \in P
  BY ExpandedNone, MappedNone, EmptySeq
<1>2. ASSUME NEW r \in P, NEW x \in S PROVE Append(r, x) \in P
  <2>1. r \in Seq(S) /\ Expanded(h, r) = Mapped(f, r)  OBVIOUS
  <2>2. Append(r, x) \in Seq(S)  BY <2>1, AppendProperties
  <2> HIDE DEF P
  <2>3. Expanded(h, Append(r, x)) = Mapped(f, r) \o <<f[x]>>  BY <2>1, ExpandedAppend
  <2>4. Mapped(f, Append(r, x)) = Append(Mapped(f, r), f[x])  BY <2>1, MappedAppend
  <2>5. Mapped(f, r) \in Seq(T) /\ f[x] \in T  BY <2>1, MappedList DEF Maps
  <2> QED BY <2>2, <2>3, <2>4, <2>5, AppendIsConcat DEF P
<1>3. \A r \in Seq(S) : r \in P
  <2>1. P \in SUBSET Seq(S)  OBVIOUS
  <2> HIDE DEF P
  <2> QED BY <1>1, <1>2, <2>1, ListInduction
<1> QED BY <1>3

\* What is in a list that is put together.
LEMMA ConcatMembers ==
  ASSUME NEW S, NEW s \in Seq(S), NEW t \in Seq(S)
  PROVE  ToSet(s \o t) = ToSet(s) \cup ToSet(t)
<1>1. /\ DOMAIN s = 1 .. Len(s) /\ DOMAIN t = 1 .. Len(t) /\ Len(s) \in Nat /\ Len(t) \in Nat
      /\ DOMAIN (s \o t) = 1 .. Len(s) + Len(t)
      /\ \A i \in 1 .. Len(s) + Len(t) :
           (s \o t)[i] = IF i <= Len(s) THEN s[i] ELSE t[i - Len(s)]
  BY LenProperties, ConcatProperties
<1> DEFINE u == s \o t
<1> HIDE DEF u
<1>2. ASSUME NEW i \in DOMAIN u PROVE u[i] \in ToSet(s) \cup ToSet(t)
  <2>1. CASE i <= Len(s)  BY <1>1, <2>1 DEF u, ToSet
  <2>2. CASE ~(i <= Len(s))
    <3>1. i - Len(s) \in DOMAIN t /\ u[i] = t[i - Len(s)]  BY <1>1, <2>2 DEF u
    <3> QED BY <3>1 DEF ToSet
  <2> QED BY <2>1, <2>2
<1>3. ASSUME NEW i \in DOMAIN s PROVE s[i] \in ToSet(u)
  <2>1. i \in DOMAIN u /\ u[i] = s[i]  BY <1>1 DEF u
  <2> QED BY <2>1 DEF ToSet
<1>4. ASSUME NEW i \in DOMAIN t PROVE t[i] \in ToSet(u)
  <2>1. i + Len(s) \in DOMAIN u /\ ~(i + Len(s) <= Len(s)) /\ i + Len(s) - Len(s) = i
    BY <1>1 DEF u
  <2>2. u[i + Len(s)] = t[i + Len(s) - Len(s)]  BY <1>1, <2>1 DEF u
  <2> QED BY <2>1, <2>2 DEF ToSet
<1>5. ToSet(u) \subseteq ToSet(s) \cup ToSet(t)  BY <1>2 DEF ToSet
<1>6. ToSet(s) \cup ToSet(t) \subseteq ToSet(u)
  <2>1. ToSet(s) \subseteq ToSet(u)
    <3> SUFFICES ASSUME NEW x \in ToSet(s) PROVE x \in ToSet(u)  OBVIOUS
    <3>1. PICK i \in DOMAIN s : x = s[i]  BY DEF ToSet
    <3> QED BY <1>3, <3>1
  <2>2. ToSet(t) \subseteq ToSet(u)
    <3> SUFFICES ASSUME NEW x \in ToSet(t) PROVE x \in ToSet(u)  OBVIOUS
    <3>1. PICK i \in DOMAIN t : x = t[i]  BY DEF ToSet
    <3> QED BY <1>4, <3>1
  <2> QED BY <2>1, <2>2
<1> QED BY <1>5, <1>6 DEF u

LEMMA AppendMembers ==
  ASSUME NEW S, NEW s \in Seq(S), NEW x \in S
  PROVE  ToSet(Append(s, x)) = ToSet(s) \cup {x}
<1>1. Append(s, x) = s \o <<x>> /\ <<x>> \in Seq(S)  BY AppendIsConcat
<1>2. ToSet(<<x>>) = {x}  BY DEF ToSet
<1>3. ToSet(s \o <<x>>) = ToSet(s) \cup ToSet(<<x>>)  BY <1>1, ConcatMembers
<1> QED BY <1>1, <1>2, <1>3

\* What an expansion holds.
LEMMA ExpandedMembers ==
  ASSUME NEW S, NEW T, NEW h, Maps(h, S, Seq(T)), NEW s \in Seq(S)
  PROVE  \A y : y \in ToSet(Expanded(h, s)) <=> \E x \in ToSet(s) : y \in ToSet(h[x])
<1> DEFINE P == {r \in Seq(S) : \A y : y \in ToSet(Expanded(h, r))
                                       <=> \E x \in ToSet(r) : y \in ToSet(h[x])}
<1>1. <<>> \in P
  BY ExpandedNone, EmptySeq DEF ToSet
<1>2. ASSUME NEW r \in P, NEW z \in S PROVE Append(r, z) \in P
  <2>1. r \in Seq(S) /\ \A y : y \in ToSet(Expanded(h, r)) <=> \E x \in ToSet(r) : y \in ToSet(h[x])
    OBVIOUS
  <2>2. Append(r, z) \in Seq(S)  BY <2>1, AppendProperties
  <2> HIDE DEF P
  <2>3. Expanded(h, Append(r, z)) = Expanded(h, r) \o h[z]  BY <2>1, ExpandedAppend
  <2>4. Expanded(h, r) \in Seq(T) /\ h[z] \in Seq(T)  BY <2>1, ExpandedList DEF Maps
  <2>5. ToSet(Expanded(h, r) \o h[z]) = ToSet(Expanded(h, r)) \cup ToSet(h[z])
    BY <2>4, ConcatMembers
  <2>6. ToSet(Append(r, z)) = ToSet(r) \cup {z}  BY <2>1, AppendMembers
  <2> QED BY <2>1, <2>2, <2>3, <2>5, <2>6 DEF P
<1>3. \A r \in Seq(S) : r \in P
  <2>1. P \in SUBSET Seq(S)  OBVIOUS
  <2> HIDE DEF P
  <2> QED BY <1>1, <1>2, <2>1, ListInduction
<1> QED BY <1>3

\* Two rounds of mapping are one.
LEMMA MappedTwice ==
  ASSUME NEW S, NEW T, NEW f, Maps(f, S, T), NEW g, NEW h,
         \A x \in S : h[x] = g[f[x]], NEW s \in Seq(S)
  PROVE  Mapped(g, Mapped(f, s)) = Mapped(h, s)
<1>1. DOMAIN Mapped(f, s) = DOMAIN s /\ \A i \in DOMAIN s : Mapped(f, s)[i] = f[s[i]]
  BY DEF Mapped
<1>2. \A i \in DOMAIN s : g[Mapped(f, s)[i]] = h[s[i]]
  <2>1. \A i \in DOMAIN s : s[i] \in S  BY LenProperties, ElementOfSeq
  <2> QED BY <1>1, <2>1
<1> QED BY <1>1, <1>2 DEF Mapped

\* The elements of a set that a list is reduced to.
Keep(S, K) == [x \in S |-> IF x \in K THEN <<x>> ELSE <<>>]

\* A list of some is a list of more.
LEMMA Wider ==
  ASSUME NEW S, NEW T, S \subseteq T, NEW s \in Seq(S)
  PROVE  s \in Seq(T)
<1>1. Len(s) \in Nat /\ s \in [1 .. Len(s) -> S]  BY LenProperties, ElementOfSeq
<1>2. s \in [1 .. Len(s) -> T]  BY <1>1
<1> QED BY <1>1, <1>2

\* What Keep does with one element.
LEMMA KeepMaps ==
  ASSUME NEW S, NEW K
  PROVE  /\ Maps(Keep(S, K), S, Seq(S \cap K)) /\ Maps(Keep(S, K), S, Seq(S))
         /\ \A x \in S : Keep(S, K)[x] = IF x \in K THEN <<x>> ELSE <<>>
<1> DEFINE h == Keep(S, K)
<1>1. \A x \in S : h[x] = IF x \in K THEN <<x>> ELSE <<>>  BY DEF Keep
<1> HIDE DEF h
<1>2. Maps(h, S, Seq(S \cap K))
  <2> SUFFICES ASSUME NEW x \in S PROVE h[x] \in Seq(S \cap K)  BY DEF Maps
  <2>1. CASE x \in K
    <3>1. h[x] = <<x>> /\ x \in S \cap K  BY <1>1, <2>1
    <3> QED BY <3>1
  <2>2. CASE x \notin K
    <3>1. h[x] = <<>>  BY <1>1, <2>2
    <3> QED BY <3>1, EmptySeq
  <2> QED BY <2>1, <2>2
<1>3. Maps(h, S, Seq(S))
  <2>1. \A x \in S : h[x] \in Seq(S \cap K)  BY <1>2 DEF Maps
  <2>2. S \cap K \subseteq S  OBVIOUS
  <2>3. \A x \in S : h[x] \in Seq(S)  BY <2>1, <2>2, Wider
  <2> QED BY <2>3 DEF Maps
<1> QED BY <1>1, <1>2, <1>3 DEF h

\* What is kept of a list: the elements in K, all of them if they are.
LEMMA Kept ==
  ASSUME NEW S, NEW K, NEW s \in Seq(S)
  PROVE  /\ Expanded(Keep(S, K), s) \in Seq(S \cap K)
         /\ ToSet(Expanded(Keep(S, K), s)) = ToSet(s) \cap K
         /\ s \in Seq(K) => Expanded(Keep(S, K), s) = s
<1> DEFINE h == Keep(S, K)
<1>1. \A x \in S : h[x] = IF x \in K THEN <<x>> ELSE <<>>  BY KeepMaps
<1>2. Maps(h, S, Seq(S \cap K))  BY KeepMaps
<1> HIDE DEF h
<1>3. Expanded(h, s) \in Seq(S \cap K)  BY <1>2, ExpandedList
<1>4. ToSet(Expanded(h, s)) = ToSet(s) \cap K
  <2>1. \A y : y \in ToSet(Expanded(h, s)) <=> \E x \in ToSet(s) : y \in ToSet(h[x])
    BY <1>2, ExpandedMembers
  <2>2. \A x \in ToSet(s) : x \in S  BY LenProperties, ElementOfSeq DEF ToSet
  <2>3. \A x \in S : ToSet(h[x]) = IF x \in K THEN {x} ELSE {}
    <3>1. \A x \in S : ToSet(<<x>>) = {x}  BY DEF ToSet
    <3>2. ToSet(<<>>) = {}  BY DEF ToSet
    <3> QED BY <1>1, <3>1, <3>2
  <2> DEFINE left == ToSet(Expanded(h, s))
  <2> DEFINE right == ToSet(s)
  <2>4. ASSUME NEW y \in left PROVE y \in right \cap K
    <3>1. PICK x \in right : y \in ToSet(h[x])  BY <2>1
    <3>2. ToSet(h[x]) = IF x \in K THEN {x} ELSE {}  BY <2>2, <2>3
    <3> QED BY <3>1, <3>2
  <2>5. ASSUME NEW y \in right \cap K PROVE y \in left
    <3>1. ToSet(h[y]) = {y}  BY <2>2, <2>3
    <3> QED BY <2>1, <3>1
  <2> HIDE DEF left, right
  <2>6. left = right \cap K  BY <2>4, <2>5
  <2> QED BY <2>6 DEF left, right
<1>5. s \in Seq(K) => Expanded(h, s) = s
  <2> HAVE s \in Seq(K)
  <2> DEFINE L == S \cap K
  <2> DEFINE same == [x \in L |-> x]
  <2>1. s \in Seq(L)
    <3>1. DOMAIN s = 1 .. Len(s) /\ Len(s) \in Nat /\ \A i \in 1 .. Len(s) : s[i] \in L
      BY LenProperties, ElementOfSeq
    <3> QED BY <3>1
  <2>2. Maps(same, L, L) /\ Maps(h, L, Seq(L)) /\ \A x \in L : h[x] = <<same[x]>>
    BY <1>1, <1>2 DEF Maps
  <2>3. Mapped(same, s) = s
    <3>1. DOMAIN s = 1 .. Len(s) /\ \A i \in 1 .. Len(s) : s[i] \in L
      BY <2>1, LenProperties, ElementOfSeq
    <3>2. \A i \in DOMAIN s : same[s[i]] = s[i]  BY <3>1
    <3>3. s = [i \in DOMAIN s |-> s[i]]  OBVIOUS
    <3> HIDE DEF same
    <3> QED BY <3>2, <3>3 DEF Mapped
  <2> HIDE DEF L, same
  <2> QED BY <2>1, <2>2, <2>3, ExpandedSingles
<1> QED BY <1>3, <1>4, <1>5 DEF h

\* The same helpers, as the modules of Converters see them.
LEMMA SameFlat ==
  ASSUME NEW q PROVE Messages!FlattenSeq(q) = FlattenSeq(q) /\ Tools!FlattenSeq(q) = FlattenSeq(q)
  BY DEF FlattenSeq, Messages!FlattenSeq, Tools!FlattenSeq

-----------------------------------------------------------------------------
(* The helpers of RequestMessages.                                         *)

\* A set of numbers up to N has a largest one: the last name given to an id.
LEMMA Largest ==
  ASSUME NEW N \in Nat, NEW I \in SUBSET (1 .. N), I # {}
  PROVE  Messages!Max(I) \in I /\ \A i \in I : Messages!Max(I) >= i
<1> DEFINE P == {n \in Nat : \A J \in SUBSET (1 .. n) : J # {} => \E x \in J : \A y \in J : x >= y}
<1>1. 0 \in P
  <2>1. 1 .. 0 = {}  OBVIOUS
  <2> QED BY <2>1
<1>2. ASSUME NEW n \in P PROVE n + 1 \in P
  <2> SUFFICES ASSUME NEW J \in SUBSET (1 .. n + 1), J # {} PROVE \E x \in J : \A y \in J : x >= y
    OBVIOUS
  <2>1. CASE n + 1 \in J
    BY <2>1
  <2>2. CASE n + 1 \notin J
    <3>1. J \in SUBSET (1 .. n)  BY <2>2
    <3> QED BY <3>1
  <2> QED BY <2>1, <2>2
<1>3. \A n \in Nat : n \in P
  <2>1. P \in SUBSET Nat  OBVIOUS
  <2> HIDE DEF P
  <2> QED BY <1>1, <1>2, <2>1, Induction
<1>4. \E x \in I : \A y \in I : x >= y
  BY <1>3
<1> HIDE DEF P
<1> QED BY <1>4 DEF Messages!Max

\* The name that an id is given is that of a call with the id, if there is one.
LEMMA NameOfLast ==
  ASSUME NEW C, NEW calls \in Seq(C), NEW id, NEW otherwise
  PROVE  \/ \E c \in ToSet(calls) : c.id = id /\ Messages!NameIn(calls, id, otherwise) = c.name
         \/ /\ \A c \in ToSet(calls) : c.id # id
            /\ Messages!NameIn(calls, id, otherwise) = otherwise
<1> DEFINE I == {i \in 1 .. Len(calls) : calls[i].id = id}
<1>1. Messages!NameIn(calls, id, otherwise) =
        LET last == IF I # {} THEN Messages!Max(I) ELSE 0
        IN IF last = 0 THEN otherwise ELSE calls[last].name
  BY DEF Messages!NameIn, Messages!SelectLastInSeq
<1>2. DOMAIN calls = 1 .. Len(calls) /\ Len(calls) \in Nat
  BY LenProperties
<1>3. CASE I = {}
  <2>1. \A c \in ToSet(calls) : c.id # id  BY <1>2, <1>3 DEF ToSet
  <2> QED BY <1>1, <1>3, <2>1
<1>4. CASE I # {}
  <2>1. I \in SUBSET (1 .. Len(calls))  OBVIOUS
  <2> HIDE DEF I
  <2>2. Messages!Max(I) \in I  BY <1>2, <1>4, <2>1, Largest
  <2>3. Messages!Max(I) # 0  BY <1>2, <2>1, <2>2
  <2>4. Messages!NameIn(calls, id, otherwise) = calls[Messages!Max(I)].name
    BY <1>1, <1>4, <2>3
  <2>5. calls[Messages!Max(I)] \in ToSet(calls) /\ calls[Messages!Max(I)].id = id
    BY <1>2, <2>1, <2>2 DEF ToSet, I
  <2> QED BY <2>4, <2>5
<1> QED BY <1>3, <1>4

\* The blocks of a type are what is kept of all blocks.
LEMMA BlocksKept ==
  ASSUME NEW B, NEW s \in Seq(B), NEW type
  PROVE  Messages!Where(s, LAMBDA b : b.type = type) = Expanded(Keep(B, {b \in B : b.type = type}), s)
<1> DEFINE K == {b \in B : b.type = type}
<1>1. DOMAIN s = 1 .. Len(s) /\ \A i \in 1 .. Len(s) : s[i] \in B
  BY LenProperties, ElementOfSeq
<1>2. [i \in DOMAIN s |-> IF s[i].type = type THEN <<s[i]>> ELSE <<>>] = Mapped(Keep(B, K), s)
  BY <1>1 DEF Mapped, Keep
<1>3. Messages!Where(s, LAMBDA b : b.type = type)
      = Messages!FlattenSeq([i \in DOMAIN s |-> IF s[i].type = type THEN <<s[i]>> ELSE <<>>])
  BY DEF Messages!Where, Messages!Each
<1> QED BY <1>2, <1>3, SameFlat DEF Expanded

LEMMA BlocksOfType ==
  ASSUME NEW B, NEW c \in Messages!Content(B), NEW type
  PROVE  /\ Messages!Blocks(c, type) \in Seq({b \in B : b.type = type})
         /\ ToSet(Messages!Blocks(c, type)) = {b \in ToSet(c.blocks) : b.type = type}
<1> DEFINE K == {b \in B : b.type = type}
<1>1. c.blocks \in Seq(B)  BY DEF Messages!Content
<1>2. Messages!Blocks(c, type) = Expanded(Keep(B, K), c.blocks)
  BY <1>1, BlocksKept DEF Messages!Blocks
<1>3. B \cap K = K /\ ToSet(c.blocks) \cap K = {b \in ToSet(c.blocks) : b.type = type}
  <2>1. \A b \in ToSet(c.blocks) : b \in B  BY <1>1, LenProperties, ElementOfSeq DEF ToSet
  <2> QED BY <2>1
<1> HIDE DEF K
<1>4. Messages!Blocks(c, type) \in Seq(K) /\ ToSet(Messages!Blocks(c, type)) = ToSet(c.blocks) \cap K
  BY <1>1, <1>2, <1>3, Kept
<1> QED BY <1>3, <1>4 DEF K

LEMMA PartsOfType ==
  ASSUME NEW B, NEW V, NEW c \in Messages!Content(B), NEW type,
         \A b \in B : b.type = type => b.value \in V
  PROVE  Messages!PartsOf(c, type) \in Seq(V)
<1> DEFINE K == {b \in B : b.type = type}
<1> DEFINE blocks == Messages!Blocks(c, type)
<1>1. blocks \in Seq(K)  BY BlocksOfType
<1>2. Messages!PartsOf(c, type) = [i \in DOMAIN blocks |-> blocks[i].value]
  BY DEF Messages!PartsOf, Messages!Blocks
<1>3. \A b \in K : b.value \in V  OBVIOUS
<1> HIDE DEF blocks, K
<1>4. DOMAIN blocks = 1 .. Len(blocks) /\ Len(blocks) \in Nat /\ \A i \in 1 .. Len(blocks) : blocks[i] \in K
  BY <1>1, LenProperties, ElementOfSeq
<1> QED BY <1>2, <1>3, <1>4

Says == Strings \ {""}

\* The strings that say something are what is kept of all strings.
LEMMA NonEmptyKept ==
  ASSUME NEW s \in Seq(Strings)
  PROVE  Messages!NonEmpty(s) = Expanded(Keep(Strings, Says), s)
<1>1. DOMAIN s = 1 .. Len(s) /\ \A i \in 1 .. Len(s) : s[i] \in Strings
  BY LenProperties, ElementOfSeq
<1>2. [i \in DOMAIN s |-> IF s[i] # "" THEN <<s[i]>> ELSE <<>>] = Mapped(Keep(Strings, Says), s)
  BY <1>1 DEF Mapped, Keep, Says
<1>3. Messages!NonEmpty(s)
      = Messages!FlattenSeq([i \in DOMAIN s |-> IF s[i] # "" THEN <<s[i]>> ELSE <<>>])
  BY DEF Messages!NonEmpty, Messages!Where, Messages!Each
<1> QED BY <1>2, <1>3, SameFlat DEF Expanded

\* Dropping the empty strings twice is dropping them once.
LEMMA NonEmptyOnce ==
  ASSUME NEW s \in Seq(Strings)
  PROVE  /\ Messages!NonEmpty(s) \in Seq(Says) /\ Messages!NonEmpty(s) \in Seq(Strings)
         /\ s \in Seq(Says) => Messages!NonEmpty(s) = s
         /\ Messages!NonEmpty(Messages!NonEmpty(s)) = Messages!NonEmpty(s)
         /\ Messages!IsEmpty(s) => Messages!NonEmpty(s) = <<>>
<1>1. /\ Messages!NonEmpty(s) \in Seq(Strings \cap Says)
      /\ s \in Seq(Says) => Messages!NonEmpty(s) = s
  <2> DEFINE t == Expanded(Keep(Strings, Says), s)
  <2>1. Messages!NonEmpty(s) = t  BY NonEmptyKept
  <2>2. t \in Seq(Strings \cap Says) /\ (s \in Seq(Says) => t = s)  BY Kept
  <2> QED BY <2>1, <2>2
<1>2. Strings \cap Says = Says  BY DEF Says
<1>3. Messages!NonEmpty(s) \in Seq(Says)  BY <1>1, <1>2
<1> DEFINE t == Messages!NonEmpty(s)
<1>4. t \in Seq(Strings)
  <2>1. t \in Seq(Says) /\ Says \subseteq Strings  BY <1>3 DEF Says
  <2> HIDE DEF t
  <2> QED BY <2>1, Wider
<1>5. Messages!NonEmpty(t) = t
  <2>1. t \in Seq(Says)  BY <1>3
  <2> HIDE DEF t
  <2> QED BY <1>4, <2>1, NonEmptyKept, Kept
<1>6. ASSUME Messages!IsEmpty(s) PROVE t = <<>>
  <2>1. CASE s = <<>>
    <3>1. t = Expanded(Keep(Strings, Says), s)  BY NonEmptyKept
    <3> QED BY <2>1, <3>1, ExpandedNone
  <2>2. CASE s = <<"">>
    <3> DEFINE h == Keep(Strings, Says)
    <3>1. "" \in Strings /\ h[""] = <<>>  BY ClientsAssumption DEF Keep, Says
    <3>2. Maps(h, Strings, Seq(Strings))  BY KeepMaps
    <3>3. t = Expanded(h, <<"">>)  BY <2>2, NonEmptyKept
    <3> HIDE DEF h, t
    <3>4. Expanded(h, <<"">>) = h[""]  BY <3>1, <3>2, ExpandedOne
    <3> QED BY <3>1, <3>3, <3>4
  <2> QED BY <1>6, <2>1, <2>2 DEF Messages!IsEmpty
<1> QED BY <1>1, <1>3, <1>4, <1>5, <1>6

\* JetBrains messages, and what they tell.
Sent ==
  {m \in [type : {"system_message", "user_message", "media_message", "assistant_message",
                  "assistant_message_text", "assistant_message_tool", "tool_message"},
          id : Strings, name : Strings \cup {"unknown_tool", "Unknown"}, parts : Seq(Strings)] :
     m.type = "assistant_message_tool" => m.parts # <<>>}

\* Those that give no result and are not the system's.
Spoken == {m \in Sent : m.type \notin {"tool_message", "system_message"}}

Item == ({"text", "image"} \X Strings) \cup ({"result"} \X Strings)
        \cup ({"call"} \X Strings \X (Strings \cup {"unknown_tool", "Unknown"}) \X Strings)

Tag(kind) == [v \in Strings |-> <<kind, v>>]

\* The items of texts and images.
LEMMA ItemsAre ==
  ASSUME NEW kind \in {"text", "image"}, NEW s \in Seq(Strings)
  PROVE  Messages!Items(kind, s) \in Seq(Item) /\ Messages!Items(kind, s) = Mapped(Tag(kind), s)
<1>1. Len(s) \in Nat /\ DOMAIN s = 1 .. Len(s) /\ \A i \in 1 .. Len(s) : s[i] \in Strings
  BY LenProperties, ElementOfSeq
<1>2. \A v \in Strings : Tag(kind)[v] = <<kind, v>> /\ <<kind, v>> \in Item
  BY DEF Tag, Item
<1>3. Messages!Items(kind, s) = Mapped(Tag(kind), s)
  BY <1>1, <1>2 DEF Messages!Items, Mapped
<1>4. Maps(Tag(kind), Strings, Item)  BY <1>2 DEF Maps
<1> QED BY <1>3, <1>4, MappedList

\* Messages of one plain type, and the items they tell.
LEMMA PlainSent ==
  ASSUME NEW type \in {"system_message", "user_message", "media_message", "assistant_message",
                       "assistant_message_text"},
         NEW parts \in Seq(Strings)
  PROVE  /\ Messages!Plain(type, parts) \in Sent
         /\ Messages!Plain(type, parts).type = type /\ Messages!Plain(type, parts).parts = parts
  BY ClientsAssumption DEF Messages!Plain, Messages!JetbrainsMessage, Sent

LEMMA ToldOfPlain ==
  ASSUME NEW type \in {"system_message", "user_message", "assistant_message",
                       "assistant_message_text"},
         NEW parts \in Seq(Strings)
  PROVE  Messages!Told(Messages!Plain(type, parts))
           = Messages!Items("text", Messages!NonEmpty(parts))
<1>1. Messages!Plain(type, parts).type = type /\ Messages!Plain(type, parts).parts = parts
  BY PlainSent
<1> QED BY <1>1 DEF Messages!Told

\* What a message tells is a list of items.
LEMMA ToldIsList ==
  ASSUME NEW m \in Sent
  PROVE  Messages!Told(m) \in Seq(Item)
<1>1. m.parts \in Seq(Strings) /\ m.id \in Strings /\ m.name \in Strings \cup {"unknown_tool", "Unknown"}
  BY DEF Sent
<1>2. Messages!NonEmpty(m.parts) \in Seq(Strings)  BY <1>1, NonEmptyOnce
<1>3. CASE m.type = "media_message"
  <2>1. Messages!Told(m) = Messages!Items("image", m.parts)  BY <1>3 DEF Messages!Told
  <2> QED BY <1>1, <2>1, ItemsAre
<1>4. CASE m.type = "assistant_message_tool"
  <2>1. Messages!Told(m) = <<<<"call", m.id, m.name, m.parts[1]>>>>  BY <1>4 DEF Messages!Told
  <2>2. m.parts # <<>>  BY <1>4 DEF Sent
  <2>3. m.parts[1] \in Strings  BY <1>1, <2>2
  <2>4. <<"call", m.id, m.name, m.parts[1]>> \in Item  BY <1>1, <2>3 DEF Item
  <2> QED BY <2>1, <2>4
<1>5. CASE m.type = "tool_message"
  <2>1. Messages!Told(m) = <<<<"result", m.id>>>> \o Messages!Items("text", Messages!NonEmpty(m.parts))
    BY <1>5 DEF Messages!Told
  <2>2. <<"result", m.id>> \in Item  BY <1>1 DEF Item
  <2>3. Messages!Items("text", Messages!NonEmpty(m.parts)) \in Seq(Item)  BY <1>2, ItemsAre
  <2> DEFINE rest == Messages!Items("text", Messages!NonEmpty(m.parts))
  <2> HIDE DEF rest
  <2>4. <<<<"result", m.id>>>> \in Seq(Item)  BY <2>2
  <2> QED BY <2>1, <2>3, <2>4, ConcatProperties DEF rest
<1>6. CASE m.type \notin {"media_message", "assistant_message_tool", "tool_message"}
  <2>1. Messages!Told(m) = Messages!Items("text", Messages!NonEmpty(m.parts))
    BY <1>6 DEF Messages!Told
  <2> QED BY <1>2, <2>1, ItemsAre
<1> QED BY <1>3, <1>4, <1>5, <1>6

Telling == [m \in Sent |-> Messages!Told(m)]

\* Telling, as a function from messages to lists of items.
LEMMA TellingMaps ==
  Maps(Telling, Sent, Seq(Item)) /\ \A m \in Sent : Telling[m] = Messages!Told(m)
  BY ToldIsList DEF Telling, Maps

LEMMA TellingOf ==
  ASSUME NEW s \in Seq(Sent)
  PROVE  Messages!Each(Messages!Told, s) = Expanded(Telling, s)
<1>1. DOMAIN s = 1 .. Len(s) /\ \A i \in 1 .. Len(s) : s[i] \in Sent
  BY LenProperties, ElementOfSeq
<1>2. [i \in DOMAIN s |-> Messages!Told(s[i])] = Mapped(Telling, s)
  BY <1>1, TellingMaps DEF Mapped
<1>3. Messages!Each(Messages!Told, s) = Messages!FlattenSeq([i \in DOMAIN s |-> Messages!Told(s[i])])
  BY DEF Messages!Each
<1> QED BY <1>2, <1>3, SameFlat DEF Expanded

\* Messages that tell one item each.
LEMMA ToldMapped ==
  ASSUME NEW S, NEW f, Maps(f, S, Sent), NEW k, Maps(k, S, Item),
         \A x \in S : Telling[f[x]] = <<k[x]>>, NEW s \in Seq(S)
  PROVE  Expanded(Telling, Mapped(f, s)) = Mapped(k, s)
<1> DEFINE h == [x \in S |-> Telling[f[x]]]
<1>1. \A x \in S : h[x] = Telling[f[x]] /\ h[x] = <<k[x]>>  OBVIOUS
<1>2. Maps(h, S, Seq(Item))
  <2>1. \A x \in S : Telling[f[x]] \in Seq(Item)  BY TellingMaps DEF Maps
  <2> QED BY <2>1 DEF Maps
<1> HIDE DEF h
<1>3. Mapped(Telling, Mapped(f, s)) = Mapped(h, s)  BY <1>1, MappedTwice
<1>4. Expanded(h, s) = Mapped(k, s)  BY <1>1, <1>2, ExpandedSingles
<1> QED BY <1>3, <1>4 DEF Expanded

\* One message alone, and messages after messages.
LEMMA ToldAlone ==
  ASSUME NEW m \in Sent
  PROVE  <<m>> \in Seq(Sent) /\ Expanded(Telling, <<m>>) = Messages!Told(m)
<1>1. Expanded(Telling, <<m>>) = Telling[m]  BY TellingMaps, ExpandedOne
<1> QED BY <1>1, TellingMaps

LEMMA ToldInTurn ==
  ASSUME NEW s \in Seq(Sent), NEW t \in Seq(Sent)
  PROVE  /\ s \o t \in Seq(Sent)
         /\ Expanded(Telling, s \o t) = Expanded(Telling, s) \o Expanded(Telling, t)
<1>1. s \o t \in Seq(Sent)  BY ConcatProperties
<1> QED BY <1>1, TellingMaps, ExpandedConcat

\* The messages of calls tell the calls.
LEMMA ToldOfCalls ==
  ASSUME NEW C, \A c \in C : c.id \in Strings /\ c.name \in Strings /\ c.args \in Strings,
         NEW calls \in Seq(C)
  PROVE  /\ Messages!ToolUses(calls) \in Seq(Sent) /\ Messages!ToolUses(calls) \in Seq(Spoken)
         /\ Expanded(Telling, Messages!ToolUses(calls)) = Messages!CallItems(calls)
         /\ Messages!CallItems(calls) \in Seq(Item)
<1> DEFINE f == [c \in C |-> Messages!ToolUse(c)]
<1> DEFINE k == [c \in C |-> <<"call", c.id, c.name, Reencoded[c.args]>>]
<1>1. DOMAIN calls = 1 .. Len(calls) /\ \A i \in 1 .. Len(calls) : calls[i] \in C
  BY LenProperties, ElementOfSeq
<1>2. Messages!ToolUses(calls) = Mapped(f, calls)
  BY <1>1 DEF Messages!ToolUses, Mapped
<1>3. Messages!CallItems(calls) = Mapped(k, calls)
  BY <1>1 DEF Messages!CallItems, Mapped
<1>4. ASSUME NEW c \in C
      PROVE  f[c] \in Spoken /\ f[c] \in Sent /\ k[c] \in Item /\ Messages!Told(f[c]) = <<k[c]>>
  <2>1. f[c] = [type |-> "assistant_message_tool", id |-> c.id, name |-> c.name,
                parts |-> <<Reencoded[c.args]>>]
    BY DEF Messages!ToolUse, Messages!JetbrainsMessage
  <2>2. /\ Reencoded[c.args] \in Strings
        /\ <<Reencoded[c.args]>> \in Seq(Strings) /\ <<Reencoded[c.args]>> # <<>>
        /\ <<Reencoded[c.args]>>[1] = Reencoded[c.args]
    <3>1. c.args \in Strings
      OBVIOUS
    <3>2. Reencoded \in [Strings -> Strings]
      BY ClientsAssumption, Zenon
    <3> QED
      BY <3>1, <3>2
  <2>3. f[c] \in Sent
    <3>1. c.id \in Strings /\ c.name \in Strings \cup {"unknown_tool", "Unknown"}
      OBVIOUS
    <3> DEFINE parts == <<Reencoded[c.args]>>
    <3>2. parts \in Seq(Strings) /\ parts # <<>>  BY <2>2
    <3> DEFINE m == [type |-> "assistant_message_tool", id |-> c.id, name |-> c.name,
                     parts |-> parts]
    <3> HIDE DEF parts
    <3>3. m \in Sent  BY <3>1, <3>2 DEF Sent
    <3> QED BY <2>1, <3>3 DEF parts
  <2>4. k[c] = <<"call", c.id, c.name, Reencoded[c.args]>> /\ k[c] \in Item  BY <2>2 DEF Item
  <2>5. Messages!Told(f[c]) = <<<<"call", c.id, c.name, Reencoded[c.args]>>>>
    BY <2>1, <2>2 DEF Messages!Told
  <2>6. f[c] \in Spoken  BY <2>1, <2>3 DEF Spoken
  <2> QED BY <2>3, <2>4, <2>5, <2>6
<1>5. Maps(f, C, Sent) /\ Maps(f, C, Spoken) /\ Maps(k, C, Item)  BY <1>4 DEF Maps
<1>6. \A c \in C : Telling[f[c]] = <<k[c]>>  BY <1>4, TellingMaps
<1> HIDE DEF f, k
<1>7. /\ Mapped(f, calls) \in Seq(Sent) /\ Mapped(f, calls) \in Seq(Spoken)
      /\ Mapped(k, calls) \in Seq(Item)
  BY <1>5, MappedList
<1>8. Expanded(Telling, Mapped(f, calls)) = Mapped(k, calls)
  <2>1. Maps(Telling, Sent, Seq(Item))  BY TellingMaps
  <2>2. calls \in Seq(C)  OBVIOUS
  <2>3. \A x \in C : Telling[f[x]] = <<k[x]>>  BY <1>6
  <2>4. Maps(f, C, Sent)  BY <1>5
  <2>5. Maps(k, C, Item)  BY <1>5
  <2> QED BY <2>1, <2>2, <2>3, <2>4, <2>5, ToldMapped
<1> QED BY <1>2, <1>3, <1>7, <1>8

\* The texts of an array, each in a message of its own.
LEMMA ToldOneByOne ==
  ASSUME NEW texts \in Seq(Says)
  PROVE  LET each == [i \in DOMAIN texts |-> Messages!Plain("user_message", <<texts[i]>>)]
         IN /\ each \in Seq(Sent) /\ each \in Seq(Spoken)
            /\ Expanded(Telling, each) = Messages!Items("text", texts)
<1> DEFINE f == [t \in Says |-> Messages!Plain("user_message", <<t>>)]
<1> DEFINE k == Tag("text")
<1> DEFINE each == [i \in DOMAIN texts |-> Messages!Plain("user_message", <<texts[i]>>)]
<1>1. DOMAIN texts = 1 .. Len(texts) /\ \A i \in 1 .. Len(texts) : texts[i] \in Says
  BY LenProperties, ElementOfSeq
<1>2. each = Mapped(f, texts)  BY <1>1 DEF Mapped
<1>3. ASSUME NEW t \in Says
      PROVE  f[t] \in Spoken /\ f[t] \in Sent /\ k[t] \in Item /\ Messages!Told(f[t]) = <<k[t]>>
  <2>1. t \in Strings /\ <<t>> \in Seq(Strings) /\ <<t>> \in Seq(Says)
    <3>1. t \in Strings  BY DEF Says
    <3> QED BY <3>1
  <2>2. f[t] = Messages!Plain("user_message", <<t>>)  OBVIOUS
  <2>3. f[t] \in Sent /\ f[t] \in Spoken  BY <2>1, <2>2, PlainSent DEF Spoken
  <2>4. k[t] = <<"text", t>> /\ k[t] \in Item  BY <2>1 DEF Tag, Item
  <2>5. Messages!NonEmpty(<<t>>) = <<t>>  BY <2>1, NonEmptyOnce
  <2>6. Messages!Told(f[t]) = Messages!Items("text", <<t>>)  BY <2>1, <2>2, <2>5, ToldOfPlain
  <2>7. Messages!Items("text", <<t>>) = <<<<"text", t>>>>  BY DEF Messages!Items
  <2> QED BY <2>3, <2>4, <2>6, <2>7
<1>4. Maps(f, Says, Sent) /\ Maps(f, Says, Spoken) /\ Maps(k, Says, Item)  BY <1>3 DEF Maps
<1>5. \A t \in Says : Telling[f[t]] = <<k[t]>>  BY <1>3, TellingMaps
<1>6. Messages!Items("text", texts) = Mapped(k, texts)
  <2>1. Says \subseteq Strings  BY DEF Says
  <2>2. texts \in Seq(Strings)  BY <2>1, Wider
  <2> QED BY <2>2, ItemsAre
<1> HIDE DEF f, k
<1>7. Mapped(f, texts) \in Seq(Sent) /\ Mapped(f, texts) \in Seq(Spoken)  BY <1>4, MappedList
<1>8. Expanded(Telling, Mapped(f, texts)) = Mapped(k, texts)
  BY <1>4, <1>5, ToldMapped
<1> QED BY <1>2, <1>6, <1>7, <1>8

\* The texts and images of a content.
LEMMA TextsAre ==
  ASSUME NEW B, NEW c \in Messages!Content(B),
         \A b \in B : b.type \in {"text", "image"} => b.value \in Strings
  PROVE  /\ Messages!PartsOf(c, "text") \in Seq(Strings)
         /\ Messages!PartsOf(c, "image") \in Seq(Strings)
         /\ Messages!TextItems(c) \in Seq(Item)
<1>1. Messages!PartsOf(c, "text") \in Seq(Strings)
  <2>1. \A b \in B : b.type = "text" => b.value \in Strings  OBVIOUS
  <2> QED BY <2>1, PartsOfType
<1>2. Messages!PartsOf(c, "image") \in Seq(Strings)
  <2>1. \A b \in B : b.type = "image" => b.value \in Strings  OBVIOUS
  <2> QED BY <2>1, PartsOfType
<1>3. Messages!NonEmpty(Messages!PartsOf(c, "text")) \in Seq(Strings)
  BY <1>1, NonEmptyOnce
<1>4. Messages!TextItems(c) = Messages!Items("text", Messages!NonEmpty(Messages!PartsOf(c, "text")))
  BY DEF Messages!TextItems
<1> QED BY <1>1, <1>2, <1>3, <1>4, ItemsAre

\* A single message of the texts.
LEMMA ToldOfTexts ==
  ASSUME NEW type \in {"system_message", "user_message", "assistant_message",
                       "assistant_message_text"},
         NEW texts \in Seq(Strings)
  PROVE  /\ <<Messages!Plain(type, texts)>> \in Seq(Sent)
         /\ type # "system_message" => <<Messages!Plain(type, texts)>> \in Seq(Spoken)
         /\ Expanded(Telling, <<Messages!Plain(type, texts)>>)
              = Messages!Items("text", Messages!NonEmpty(texts))
<1>1. Messages!Plain(type, texts) \in Sent  BY PlainSent
<1>2. Messages!Told(Messages!Plain(type, texts)) = Messages!Items("text", Messages!NonEmpty(texts))
  BY ToldOfPlain
<1>3. ASSUME type # "system_message" PROVE <<Messages!Plain(type, texts)>> \in Seq(Spoken)
  <2>1. Messages!Plain(type, texts) \in Spoken  BY <1>3, PlainSent DEF Spoken
  <2> QED BY <2>1
<1> QED BY <1>1, <1>2, <1>3, ToldAlone

\* No texts, no items.
LEMMA NoItems == Messages!Items("text", <<>>) = <<>>
  BY DEF Messages!Items

\* The messages made of a user's message tell its texts and images.
LEMMA ToldOfUser ==
  ASSUME NEW c \in Messages!Content(Messages!Block)
  PROVE  LET images == Messages!PartsOf(c, "image")
             shown == IF images # <<>> /\ Head(images) \in ValidImages
                      THEN <<<<"image", Head(images)>>>> ELSE <<>>
         IN /\ Messages!UserMessages(c) \in Seq(Sent) /\ Messages!UserMessages(c) \in Seq(Spoken)
            /\ Expanded(Telling, Messages!UserMessages(c)) = shown \o Messages!TextItems(c)
<1> DEFINE texts == Messages!PartsOf(c, "text")
<1> DEFINE images == Messages!PartsOf(c, "image")
<1> DEFINE joined == Messages!Plain("user_message", texts)
<1> DEFINE items == Messages!TextItems(c)
<1> DEFINE shown == IF images # <<>> /\ Head(images) \in ValidImages
                    THEN <<<<"image", Head(images)>>>> ELSE <<>>
<1>1. texts \in Seq(Strings) /\ images \in Seq(Strings) /\ items \in Seq(Item)
  <2>1. \A b \in Messages!Block : b.type \in {"text", "image"} => b.value \in Strings
    BY DEF Messages!Block
  <2> QED BY <2>1, TextsAre
<1>2. items = Messages!Items("text", Messages!NonEmpty(texts))
  BY DEF Messages!TextItems
<1>3. <<joined>> \in Seq(Sent) /\ <<joined>> \in Seq(Spoken) /\ Expanded(Telling, <<joined>>) = items
  BY <1>1, <1>2, ToldOfTexts
<1>4. <<>> \o items = items  BY <1>1, ConcatEmptySeq
<1>5. CASE images # <<>> /\ Head(images) \notin ValidImages
  <2>1. Messages!UserMessages(c) = <<joined>>  BY <1>5 DEF Messages!UserMessages
  <2>2. shown = <<>>  BY <1>5
  <2> QED BY <1>3, <1>4, <2>1, <2>2
<1>6. CASE images # <<>> /\ Head(images) \in ValidImages
  <2> DEFINE media == Messages!Plain("media_message", <<Head(images)>>)
  <2> DEFINE rest == IF Messages!IsEmpty(texts) THEN <<>> ELSE <<joined>>
  <2>1. Messages!UserMessages(c) = <<media>> \o rest
    BY <1>6 DEF Messages!UserMessages
  <2>2. Head(images) \in Strings /\ <<Head(images)>> \in Seq(Strings)
    <3>1. Head(images) \in Strings  BY <1>1, <1>6, HeadTailProperties
    <3> QED BY <3>1
  <2>3. media \in Sent /\ media.type = "media_message" /\ media.parts = <<Head(images)>>
    BY <2>2, PlainSent
  <2>4. Messages!Told(media) = <<<<"image", Head(images)>>>>
    <3>1. Messages!Told(media) = Messages!Items("image", <<Head(images)>>)
      BY <2>3 DEF Messages!Told
    <3> QED BY <3>1 DEF Messages!Items
  <2>5. <<media>> \in Seq(Sent) /\ <<media>> \in Seq(Spoken) /\ Expanded(Telling, <<media>>) = shown
    <3>1. shown = <<<<"image", Head(images)>>>>  BY <1>6
    <3>2. media \in Spoken  BY <2>3 DEF Spoken
    <3> HIDE DEF media
    <3>3. <<media>> \in Seq(Spoken)  BY <3>2
    <3> QED BY <2>3, <2>4, <3>1, <3>3, ToldAlone
  <2>6. rest \in Seq(Sent) /\ rest \in Seq(Spoken) /\ Expanded(Telling, rest) = items
    <3>1. CASE Messages!IsEmpty(texts)
      <4>1. rest = <<>>  BY <3>1
      <4>2. Messages!NonEmpty(texts) = <<>>  BY <1>1, <3>1, NonEmptyOnce
      <4>3. items = <<>>  BY <1>2, <4>2, NoItems
      <4> QED BY <4>1, <4>3, ExpandedNone, EmptySeq
    <3>2. CASE ~Messages!IsEmpty(texts)
      BY <1>3, <3>2
    <3> QED BY <3>1, <3>2
  <2> HIDE DEF media, rest, shown, items
  <2>7. <<media>> \o rest \in Seq(Spoken)  BY <2>5, <2>6, ConcatProperties
  <2> QED BY <2>1, <2>5, <2>6, <2>7, ToldInTurn DEF shown, items
<1>7. CASE images = <<>> /\ c.array
  <2> DEFINE said == Messages!NonEmpty(texts)
  <2> DEFINE each == [i \in DOMAIN said |-> Messages!Plain("user_message", <<said[i]>>)]
  <2>1. Messages!UserMessages(c) = each  BY <1>7 DEF Messages!UserMessages
  <2>2. said \in Seq(Says)  BY <1>1, NonEmptyOnce
  <2>3. each \in Seq(Sent) /\ each \in Seq(Spoken) /\ Expanded(Telling, each) = Messages!Items("text", said)
    <3> HIDE DEF said
    <3> QED BY <2>2, ToldOneByOne
  <2>4. shown = <<>>  BY <1>7
  <2> QED BY <1>2, <1>4, <2>1, <2>3, <2>4
<1>8. CASE images = <<>> /\ ~c.array
  <2>1. Messages!UserMessages(c) = <<joined>>  BY <1>8 DEF Messages!UserMessages
  <2>2. shown = <<>>  BY <1>8
  <2> QED BY <1>3, <1>4, <2>1, <2>2
<1> QED BY <1>5, <1>6, <1>7, <1>8

\* Those made of an assistant's message tell its texts and calls.
LEMMA ToldOfAssistant ==
  ASSUME NEW m \in Messages!ChatMessage, m.role = "assistant"
  PROVE  /\ Messages!AssistantMessages(m) \in Seq(Sent)
         /\ Messages!AssistantMessages(m) \in Seq(Spoken)
         /\ Expanded(Telling, Messages!AssistantMessages(m))
              = Messages!TextItems(m.content) \o Messages!CallItems(m.calls)
<1> DEFINE texts == Messages!PartsOf(m.content, "text")
<1> DEFINE said == IF m.calls # <<>> /\ Messages!IsEmpty(texts) THEN <<>>
                   ELSE <<Messages!Plain("assistant_message_text", texts)>>
<1> DEFINE uses == Messages!ToolUses(m.calls)
<1>1. m.content \in Messages!Content(Messages!Block) /\ m.calls \in Seq(Messages!Call)
  BY EmptySeq DEF Messages!ChatMessage
<1>2. texts \in Seq(Strings)
  <2>1. \A b \in Messages!Block : b.type \in {"text", "image"} => b.value \in Strings
    BY DEF Messages!Block
  <2> QED BY <1>1, <2>1, TextsAre
<1>3. Messages!TextItems(m.content) = Messages!Items("text", Messages!NonEmpty(texts))
  BY DEF Messages!TextItems
<1>4. said \in Seq(Sent) /\ said \in Seq(Spoken) /\ Expanded(Telling, said) = Messages!TextItems(m.content)
  <2>1. CASE m.calls # <<>> /\ Messages!IsEmpty(texts)
    <3>1. said = <<>>  BY <2>1
    <3>2. Messages!NonEmpty(texts) = <<>>  BY <1>2, <2>1, NonEmptyOnce
    <3>3. Messages!TextItems(m.content) = <<>>  BY <1>3, <3>2, NoItems
    <3> QED BY <3>1, <3>3, ExpandedNone, EmptySeq
  <2>2. CASE ~(m.calls # <<>> /\ Messages!IsEmpty(texts))
    BY <1>2, <1>3, <2>2, ToldOfTexts
  <2> QED BY <2>1, <2>2
<1>5. uses \in Seq(Sent) /\ uses \in Seq(Spoken) /\ Expanded(Telling, uses) = Messages!CallItems(m.calls)
  <2>1. \A c \in Messages!Call : c.id \in Strings /\ c.name \in Strings /\ c.args \in Strings
    BY DEF Messages!Call
  <2> QED BY <1>1, <2>1, ToldOfCalls
<1>6. Messages!AssistantMessages(m) = said \o uses
  BY DEF Messages!AssistantMessages
<1> HIDE DEF said, uses
<1>7. said \o uses \in Seq(Spoken)  BY <1>4, <1>5, ConcatProperties
<1> QED BY <1>4, <1>5, <1>6, <1>7, ToldInTurn

Tables == [Ids \cup {""} -> Strings]

\* The message made of a tool's message tells its result.
LEMMA ToldOfResult ==
  ASSUME NEW m \in Messages!ChatMessage, NEW table \in Tables
  PROVE  /\ Messages!ToolResult(m, table) \in Sent
         /\ Messages!Told(Messages!ToolResult(m, table))
              = <<<<"result", m.callId>>>> \o Messages!TextItems(m.content)
<1> DEFINE texts == Messages!PartsOf(m.content, "text")
<1> DEFINE name == IF table[m.callId] = "" THEN "unknown_tool" ELSE table[m.callId]
<1> DEFINE outcome == [type |-> "tool_message", id |-> m.callId, name |-> name, parts |-> texts]
<1>1. Messages!ToolResult(m, table) = outcome
  BY DEF Messages!ToolResult, Messages!JetbrainsMessage
<1>2. m.content \in Messages!Content(Messages!Block) /\ m.callId \in Ids \cup {""}
  BY DEF Messages!ChatMessage
<1>3. texts \in Seq(Strings)
  <2>1. \A b \in Messages!Block : b.type \in {"text", "image"} => b.value \in Strings
    BY DEF Messages!Block
  <2> QED BY <1>2, <2>1, TextsAre
<1>4. name \in Strings \cup {"unknown_tool", "Unknown"} /\ m.callId \in Strings
  BY <1>2, ClientsAssumption DEF Tables
<1> HIDE DEF name, texts
<1>5. outcome \in Sent  BY <1>3, <1>4 DEF Sent
<1>6. Messages!Told(outcome) = <<<<"result", m.callId>>>> \o Messages!Items("text", Messages!NonEmpty(texts))
  BY DEF Messages!Told
<1> QED BY <1>1, <1>5, <1>6 DEF Messages!TextItems, texts

\* A message is told by the messages it is converted to.
LEMMA ConvertedTold ==
  ASSUME NEW m \in Messages!ChatMessage, NEW table \in Tables
  PROVE  /\ Messages!ConvertMessage(m, table) \in Seq(Sent)
         /\ Expanded(Telling, Messages!ConvertMessage(m, table)) = Messages!SaidInChat(m)
         /\ Messages!SaidInChat(m) \in Seq(Item)
<1> DEFINE images == Messages!PartsOf(m.content, "image")
<1> DEFINE shown == IF m.role = "user" /\ images # <<>> /\ Head(images) \in ValidImages
                    THEN <<<<"image", Head(images)>>>> ELSE <<>>
<1> DEFINE answered == IF m.role = "tool" THEN <<<<"result", m.callId>>>> ELSE <<>>
<1> DEFINE texts == Messages!TextItems(m.content)
<1> DEFINE calls == Messages!CallItems(m.calls)
<1> DEFINE converted == Messages!ConvertMessage(m, table)
<1>1. Messages!SaidInChat(m) = ((shown \o answered) \o texts) \o calls
  BY DEF Messages!SaidInChat
<1>2. /\ m.content \in Messages!Content(Messages!Block)
      /\ m.calls \in Seq(Messages!Call) /\ (m.role # "assistant" => m.calls = <<>>)
  BY EmptySeq DEF Messages!ChatMessage
<1>3. texts \in Seq(Item) /\ Messages!PartsOf(m.content, "text") \in Seq(Strings)
  <2>1. \A b \in Messages!Block : b.type \in {"text", "image"} => b.value \in Strings
    BY DEF Messages!Block
  <2> QED BY <1>2, <2>1, TextsAre
<1>4. calls \in Seq(Item) /\ (m.role # "assistant" => calls = <<>>)
  <2>1. \A c \in Messages!Call : c.id \in Strings /\ c.name \in Strings /\ c.args \in Strings
    BY DEF Messages!Call
  <2>2. calls \in Seq(Item)  BY <1>2, <2>1, ToldOfCalls
  <2>3. m.calls = <<>> => calls = <<>>  BY DEF Messages!CallItems
  <2> QED BY <1>2, <2>2, <2>3
<1>5. \A s \in Seq(Item) : s \o <<>> = s /\ <<>> \o s = s  BY ConcatEmptySeq
<1>6. <<>> \o <<>> = <<>>  BY <1>5, EmptySeq
<1>7. ASSUME NEW type \in {"system_message", "user_message"},
             converted = <<Messages!Plain(type, Messages!PartsOf(m.content, "text"))>>
      PROVE  converted \in Seq(Sent) /\ Expanded(Telling, converted) = texts
  BY <1>3, <1>7, ToldOfTexts DEF Messages!TextItems
<1>8. CASE m.role = "user"
  <2>1. converted = Messages!UserMessages(m.content)  BY <1>8 DEF Messages!ConvertMessage
  <2>2. answered = <<>>  BY <1>8
  <2>3. converted \in Seq(Sent) /\ Expanded(Telling, converted) = shown \o texts
    BY <1>2, <1>8, <2>1, ToldOfUser
  <2>4. shown \o answered = shown
    <3>1. CASE shown = <<>>  BY <1>6, <2>2, <3>1
    <3>2. CASE shown = <<<<"image", Head(images)>>>>
      <4> DEFINE x == <<"image", Head(images)>>
      <4>1. shown = <<x>>  BY <3>2
      <4> HIDE DEF x, shown, answered
      <4>2. <<x>> \o <<>> = <<x>>  OBVIOUS
      <4> QED BY <2>2, <4>1, <4>2
    <3> QED BY <3>1, <3>2
  <2>5. shown \o texts \in Seq(Item)
    <3>1. Expanded(Telling, converted) \in Seq(Item)  BY <2>3, TellingMaps, ExpandedList
    <3> QED BY <2>3, <3>1
  <2> HIDE DEF shown, answered, texts, calls
  <2>6. Messages!SaidInChat(m) = shown \o texts  BY <1>1, <1>4, <1>5, <1>8, <2>4, <2>5
  <2> QED BY <2>3, <2>5, <2>6
<1>9. CASE m.role = "assistant"
  <2>1. converted = Messages!AssistantMessages(m)  BY <1>9 DEF Messages!ConvertMessage
  <2>2. answered = <<>> /\ shown = <<>>  BY <1>9
  <2>3. converted \in Seq(Sent) /\ Expanded(Telling, converted) = texts \o calls
    BY <1>9, <2>1, ToldOfAssistant
  <2> HIDE DEF shown, answered, texts, calls
  <2>4. Messages!SaidInChat(m) = texts \o calls  BY <1>1, <1>3, <1>5, <1>6, <2>2
  <2>5. texts \o calls \in Seq(Item)  BY <1>3, <1>4, ConcatProperties
  <2> QED BY <2>3, <2>4, <2>5
<1>10. CASE m.role = "tool"
  <2> DEFINE outcome == Messages!ToolResult(m, table)
  <2>1. converted = <<outcome>>  BY <1>10 DEF Messages!ConvertMessage
  <2>2. shown = <<>> /\ answered = <<<<"result", m.callId>>>>  BY <1>10
  <2>3. outcome \in Sent /\ Messages!Told(outcome) = answered \o texts  BY <2>2, ToldOfResult
  <2>4. Messages!Told(outcome) \in Seq(Item)  BY <2>3, ToldIsList
  <2>5. <<>> \o answered = answered  BY <2>2
  <2>6. calls = <<>>  BY <1>4, <1>10
  <2>7. <<outcome>> \in Seq(Sent) /\ Expanded(Telling, <<outcome>>) = Messages!Told(outcome)
    BY <2>3, ToldAlone
  <2> HIDE DEF shown, answered, texts, calls, outcome
  <2>8. Messages!SaidInChat(m) = answered \o texts  BY <1>1, <1>5, <2>2, <2>3, <2>4, <2>5, <2>6
  <2> QED BY <2>1, <2>3, <2>4, <2>7, <2>8
<1>11. CASE m.role \notin {"user", "assistant", "tool"}
  <2>1. converted \in Seq(Sent) /\ Expanded(Telling, converted) = texts
    <3>1. CASE m.role = "system"
      BY <1>7, <3>1 DEF Messages!ConvertMessage
    <3>2. CASE m.role # "system"
      BY <1>7, <1>11, <3>2 DEF Messages!ConvertMessage
    <3> QED BY <3>1, <3>2
  <2>2. answered = <<>> /\ shown = <<>> /\ calls = <<>>  BY <1>4, <1>11
  <2> HIDE DEF shown, answered, texts, calls
  <2>3. Messages!SaidInChat(m) = texts  BY <1>1, <1>3, <1>5, <1>6, <2>2
  <2> QED BY <1>3, <2>1, <2>3
<1> QED BY <1>8, <1>9, <1>10, <1>11

\* Only a tool's message becomes the result of a tool.
LEMMA ResultsOfTools ==
  ASSUME NEW m \in Messages!ChatMessage, NEW table \in Tables,
         NEW r \in ToSet(Messages!ConvertMessage(m, table)), r.type = "tool_message"
  PROVE  m.role = "tool" /\ r = Messages!ToolResult(m, table)
<1> DEFINE converted == Messages!ConvertMessage(m, table)
<1> DEFINE texts == Messages!PartsOf(m.content, "text")
<1>1. ASSUME converted \in Seq(Spoken) PROVE FALSE
  <2> HIDE DEF converted
  <2>1. \A x \in ToSet(converted) : x \in Spoken
    BY <1>1, LenProperties, ElementOfSeq DEF ToSet
  <2> QED BY <2>1 DEF Spoken, converted
<1>2. m.content \in Messages!Content(Messages!Block)
  BY DEF Messages!ChatMessage
<1>3. CASE m.role = "user"
  <2>1. converted = Messages!UserMessages(m.content)  BY <1>3 DEF Messages!ConvertMessage
  <2> QED BY <1>1, <1>2, <2>1, ToldOfUser
<1>4. CASE m.role = "assistant"
  <2>1. converted = Messages!AssistantMessages(m)  BY <1>4 DEF Messages!ConvertMessage
  <2> QED BY <1>1, <1>4, <2>1, ToldOfAssistant
<1>5. CASE m.role = "tool"
  <2>1. converted = <<Messages!ToolResult(m, table)>>  BY <1>5 DEF Messages!ConvertMessage
  <2> QED BY <1>5, <2>1 DEF ToSet
<1>6. CASE m.role \notin {"user", "assistant", "tool"}
  <2>1. PICK type \in {"system_message", "user_message"} : converted = <<Messages!Plain(type, texts)>>
    BY <1>6 DEF Messages!ConvertMessage
  <2>2. r = Messages!Plain(type, texts)  BY <2>1 DEF ToSet
  <2> QED BY <2>2 DEF Messages!Plain, Messages!JetbrainsMessage
<1> QED BY <1>3, <1>4, <1>5, <1>6

Converting(table) == [m \in Messages!ChatMessage |-> Messages!ConvertMessage(m, table)]

Conversion(c) ==
  Messages!Each(LAMBDA m : Messages!ConvertMessage(m, Messages!Extended(Messages!NoNames, c)), c)

\* So is a conversation, message by message.
LEMMA ChatTold ==
  ASSUME NEW c \in Seq(Messages!ChatMessage), NEW table \in Tables
  PROVE  LET converted == Messages!Each(LAMBDA m : Messages!ConvertMessage(m, table), c)
         IN /\ converted = Expanded(Converting(table), c) /\ converted \in Seq(Sent)
            /\ Messages!Each(Messages!Told, converted) = Messages!Each(Messages!SaidInChat, c)
<1> DEFINE h == Converting(table)
<1> DEFINE said == [m \in Messages!ChatMessage |-> Messages!SaidInChat(m)]
<1> DEFINE told == [m \in Messages!ChatMessage |-> Expanded(Telling, h[m])]
<1>1. DOMAIN c = 1 .. Len(c) /\ \A i \in 1 .. Len(c) : c[i] \in Messages!ChatMessage
  BY LenProperties, ElementOfSeq
<1>2. Messages!Each(LAMBDA m : Messages!ConvertMessage(m, table), c) = Expanded(h, c)
  <2>1. [i \in DOMAIN c |-> Messages!ConvertMessage(c[i], table)] = Mapped(h, c)
    BY <1>1 DEF Mapped, Converting
  <2>2. Messages!Each(LAMBDA m : Messages!ConvertMessage(m, table), c)
        = Messages!FlattenSeq([i \in DOMAIN c |-> Messages!ConvertMessage(c[i], table)])
    BY DEF Messages!Each
  <2> QED BY <2>1, <2>2, SameFlat DEF Expanded
<1>3. Messages!Each(Messages!SaidInChat, c) = Expanded(said, c)
  <2>1. [i \in DOMAIN c |-> Messages!SaidInChat(c[i])] = Mapped(said, c)
    BY <1>1 DEF Mapped
  <2>2. Messages!Each(Messages!SaidInChat, c)
        = Messages!FlattenSeq([i \in DOMAIN c |-> Messages!SaidInChat(c[i])])
    BY DEF Messages!Each
  <2> QED BY <2>1, <2>2, SameFlat DEF Expanded
<1>4. \A m \in Messages!ChatMessage : h[m] \in Seq(Sent) /\ told[m] = said[m]
  BY ConvertedTold DEF Converting
<1>5. told = said  BY <1>4
<1>6. Maps(h, Messages!ChatMessage, Seq(Sent))  BY <1>4 DEF Maps
<1> HIDE DEF h
<1>7. Expanded(h, c) \in Seq(Sent)  BY <1>6, ExpandedList
<1>8. Expanded(Telling, Expanded(h, c)) = Expanded(told, c)
  BY <1>6, TellingMaps, ExpandedAgain
<1>9. Messages!Each(Messages!Told, Expanded(h, c)) = Expanded(Telling, Expanded(h, c))
  BY <1>7, TellingOf
<1> QED BY <1>2, <1>3, <1>5, <1>7, <1>8, <1>9 DEF h

\* The calls that a conversation makes, as ResultsNamed looks for them.
CallsWithId(c, id) ==
  {k \in ToSet(Messages!AnyCalls(c)) : k.id = id /\ k.id # "" /\ k.name # ""}

CallsIn == [m \in Messages!ChatMessage |-> IF m.role = "assistant" THEN m.calls ELSE <<>>]

\* The calls of a conversation are those of its assistants' messages.
LEMMA CallsOfChat ==
  ASSUME NEW c \in Seq(Messages!ChatMessage)
  PROVE  /\ Messages!CallsOf(c) \in Seq(Messages!Call)
         /\ Messages!AnyCalls(c) = Messages!CallsOf(c)
<1>1. DOMAIN c = 1 .. Len(c) /\ \A i \in 1 .. Len(c) : c[i] \in Messages!ChatMessage
  BY LenProperties, ElementOfSeq
<1>2. Messages!CallsOf(c) = Expanded(CallsIn, c)
  <2>1. [i \in DOMAIN c |-> IF c[i].role = "assistant" THEN c[i].calls ELSE <<>>] = Mapped(CallsIn, c)
    BY <1>1 DEF Mapped, CallsIn
  <2>2. Messages!CallsOf(c) = Messages!FlattenSeq(
          [i \in DOMAIN c |-> IF c[i].role = "assistant" THEN c[i].calls ELSE <<>>])
    BY DEF Messages!CallsOf, Messages!Each
  <2> QED BY <2>1, <2>2, SameFlat DEF Expanded
<1>3. Messages!AnyCalls(c) = Expanded(CallsIn, c)
  <2> DEFINE any(m) == IF m.role # "assistant" THEN <<>>
                       ELSE IF "calls" \in DOMAIN m THEN m.calls
                       ELSE Messages!Blocks(m.content, "tool_use")
  <2>1. \A m \in Messages!ChatMessage : any(m) = CallsIn[m]
    <3>1. \A m \in Messages!ChatMessage : "calls" \in DOMAIN m  BY DEF Messages!ChatMessage
    <3> QED BY <3>1 DEF CallsIn
  <2>2. Messages!AnyCalls(c) = Messages!FlattenSeq([i \in DOMAIN c |-> any(c[i])])
    BY DEF Messages!AnyCalls, Messages!Each
  <2> HIDE DEF any
  <2>3. [i \in DOMAIN c |-> any(c[i])] = Mapped(CallsIn, c)
    BY <1>1, <2>1 DEF Mapped
  <2> QED BY <2>2, <2>3, SameFlat DEF Expanded
<1>4. Maps(CallsIn, Messages!ChatMessage, Seq(Messages!Call))
  BY EmptySeq DEF Maps, CallsIn, Messages!ChatMessage
<1> QED BY <1>2, <1>3, <1>4, ExpandedList

\* The table that is built from a conversation names its calls.
LEMMA TableOfChat ==
  ASSUME NEW c \in Seq(Messages!ChatMessage)
  PROVE  /\ Messages!Extended(Messages!NoNames, c) \in Tables
         /\ \A id \in Ids \cup {""} :
              LET name == Messages!Extended(Messages!NoNames, c)[id]
              IN \/ \E k \in CallsWithId(c, id) : name = k.name
                 \/ CallsWithId(c, id) = {} /\ name = ""
<1> DEFINE table == Messages!Extended(Messages!NoNames, c)
<1> DEFINE all == Messages!CallsOf(c)
<1> DEFINE Named == {k \in Messages!Call : k.id # "" /\ k.name # ""}
<1> DEFINE named == Messages!Where(all, LAMBDA k : k.id # "" /\ k.name # "")
<1>1. all \in Seq(Messages!Call) /\ Messages!AnyCalls(c) = all  BY CallsOfChat
<1>2. named = Expanded(Keep(Messages!Call, Named), all)
  <2>1. DOMAIN all = 1 .. Len(all) /\ \A i \in 1 .. Len(all) : all[i] \in Messages!Call
    BY <1>1, LenProperties, ElementOfSeq
  <2>2. named = Messages!FlattenSeq([i \in DOMAIN all |->
                  IF all[i].id # "" /\ all[i].name # "" THEN <<all[i]>> ELSE <<>>])
    BY DEF Messages!Where, Messages!Each
  <2> HIDE DEF all
  <2>3. [i \in DOMAIN all |-> IF all[i].id # "" /\ all[i].name # "" THEN <<all[i]>> ELSE <<>>]
        = Mapped(Keep(Messages!Call, Named), all)
    BY <2>1 DEF Mapped, Keep
  <2> QED BY <2>2, <2>3, SameFlat DEF Expanded
<1>3. table = [i \in Ids \cup {""} |-> Messages!NameIn(named, i, "")]
  BY DEF Messages!Extended, Messages!NoNames
<1> HIDE DEF all
<1>4. named \in Seq(Messages!Call) /\ ToSet(named) = ToSet(all) \cap Named
  <2> HIDE DEF named, Named
  <2>1. named \in Seq(Messages!Call \cap Named) /\ ToSet(named) = ToSet(all) \cap Named
    BY <1>1, <1>2, Kept
  <2>2. Messages!Call \cap Named \subseteq Messages!Call  OBVIOUS
  <2> QED BY <2>1, <2>2, Wider
<1>5. \A k \in ToSet(all) : k \in Messages!Call
  BY <1>1, LenProperties, ElementOfSeq DEF ToSet
<1> HIDE DEF named
<1>6. ASSUME NEW id \in Ids \cup {""}
      PROVE  \/ \E k \in CallsWithId(c, id) : table[id] = k.name
             \/ CallsWithId(c, id) = {} /\ table[id] = ""
  <2>1. table[id] = Messages!NameIn(named, id, "")  BY <1>3
  <2>2. \A k \in ToSet(named) : k.id = id => k \in CallsWithId(c, id)
    BY <1>1, <1>4 DEF CallsWithId
  <2>3. \A k \in CallsWithId(c, id) : k \in ToSet(named) /\ k.id = id
    BY <1>1, <1>4, <1>5 DEF CallsWithId
  <2>4. \/ \E k \in ToSet(named) : k.id = id /\ Messages!NameIn(named, id, "") = k.name
        \/ (\A k \in ToSet(named) : k.id # id) /\ Messages!NameIn(named, id, "") = ""
    BY <1>4, NameOfLast
  <2> QED BY <2>1, <2>2, <2>3, <2>4
<1>7. \A id \in Ids \cup {""} : table[id] \in Strings
  <2>1. \A id : \A k \in CallsWithId(c, id) : k.name \in Strings
    BY <1>1, <1>5 DEF CallsWithId, Messages!Call
  <2> QED BY <1>6, <2>1, ClientsAssumption
<1>8. table \in Tables
  <2> DEFINE name(i) == Messages!NameIn(named, i, "")
  <2>1. \A i \in Ids \cup {""} : name(i) \in Strings  BY <1>3, <1>7
  <2> HIDE DEF name
  <2>2. [i \in Ids \cup {""} |-> name(i)] \in Tables  BY <2>1 DEF Tables
  <2> QED BY <1>3, <2>2 DEF name
<1> QED BY <1>6, <1>8

\* A result among the messages of a payload has the name that ResultsNamed asks for.
NamedIn(r, c) ==
  r.type = "tool_message" =>
    IF CallsWithId(c, r.id) = {} THEN r.name \in {"unknown_tool", "Unknown"}
    ELSE \E k \in CallsWithId(c, r.id) : r.name = k.name

\* The results of a converted conversation name the tools it calls.
LEMMA ChatNamed ==
  ASSUME NEW c \in Seq(Messages!ChatMessage),
         NEW r \in ToSet(Conversion(c))
  PROVE  NamedIn(r, c)
<1> DEFINE table == Messages!Extended(Messages!NoNames, c)
<1>1. table \in Tables  BY TableOfChat
<1>2. Conversion(c) = Expanded(Converting(table), c)
  <2>1. Conversion(c) = Messages!Each(LAMBDA m : Messages!ConvertMessage(m, table), c)
    BY DEF Conversion
  <2> HIDE DEF table
  <2> QED BY <1>1, <2>1, ChatTold
<1> HIDE DEF table
<1>3. Maps(Converting(table), Messages!ChatMessage, Seq(Sent))
  BY <1>1, ConvertedTold DEF Maps, Converting
<1>4. PICK m \in ToSet(c) : r \in ToSet(Converting(table)[m])
  BY <1>2, <1>3, ExpandedMembers
<1>5. m \in Messages!ChatMessage  BY LenProperties, ElementOfSeq DEF ToSet
<1>6. r \in ToSet(Messages!ConvertMessage(m, table))  BY <1>4, <1>5 DEF Converting
<1> SUFFICES ASSUME r.type = "tool_message"
             PROVE  IF CallsWithId(c, r.id) = {} THEN r.name \in {"unknown_tool", "Unknown"}
                    ELSE \E k \in CallsWithId(c, r.id) : r.name = k.name
  BY DEF NamedIn
<1>7. r = Messages!ToolResult(m, table)  BY <1>1, <1>5, <1>6, ResultsOfTools
<1>8. /\ r.id = m.callId /\ m.callId \in Ids \cup {""}
      /\ r.name = IF table[r.id] = "" THEN "unknown_tool" ELSE table[r.id]
  BY <1>5, <1>7 DEF Messages!ToolResult, Messages!JetbrainsMessage, Messages!ChatMessage
<1>9. \/ \E k \in CallsWithId(c, r.id) : table[r.id] = k.name
      \/ CallsWithId(c, r.id) = {} /\ table[r.id] = ""
  BY <1>8, TableOfChat DEF table
<1>10. \A k \in CallsWithId(c, r.id) : k.name # ""  BY DEF CallsWithId
<1> QED BY <1>8, <1>9, <1>10

UsesIn ==
  [m \in Messages!AnthropicMessage |->
     IF m.role = "assistant" THEN Messages!Blocks(m.content, "tool_use") ELSE <<>>]

Blocks(m) == IF m.role = "user" THEN Messages!Block \cup Messages!ResultBlock
             ELSE Messages!Block \cup Messages!UseBlock

\* The blocks of an Anthropic message, and their values.
LEMMA BlocksOfTurn ==
  ASSUME NEW m \in Messages!AnthropicMessage
  PROVE  /\ m.role \in {"user", "assistant"} /\ m.content \in Messages!Content(Blocks(m))
         /\ \A b \in Blocks(m) : b.type \in {"text", "image"} => b.value \in Strings
         /\ Messages!Blocks(m.content, "tool_use") \in Seq(Messages!UseBlock)
         /\ m.role = "user" => Messages!Blocks(m.content, "tool_use") = <<>>
         /\ Messages!Blocks(m.content, "tool_result") \in Seq(Messages!ResultBlock)
         /\ m.role = "assistant" => Messages!Blocks(m.content, "tool_result") = <<>>
<1> DEFINE Typed(type) == {b \in Blocks(m) : b.type = type}
<1>1. m.role \in {"user", "assistant"} /\ m.content \in Messages!Content(Blocks(m))
  BY DEF Messages!AnthropicMessage, Blocks
<1>2. \A b \in Blocks(m) : b.type \in {"text", "image"} => b.value \in Strings
  BY DEF Blocks, Messages!Block, Messages!ResultBlock, Messages!UseBlock
<1>3. \A type : Messages!Blocks(m.content, type) \in Seq(Typed(type))
  BY <1>1, BlocksOfType
<1>4. Typed("tool_use") \subseteq Messages!UseBlock /\ (m.role = "user" => Typed("tool_use") = {})
  BY DEF Blocks, Messages!Block, Messages!ResultBlock, Messages!UseBlock
<1>5. /\ Typed("tool_result") \subseteq Messages!ResultBlock
      /\ m.role = "assistant" => Typed("tool_result") = {}
  BY DEF Blocks, Messages!Block, Messages!ResultBlock, Messages!UseBlock
<1> HIDE DEF Typed
<1>6. \A s \in Seq({}) : s = <<>>
  <2> SUFFICES ASSUME NEW s \in Seq({}) PROVE s = <<>>  OBVIOUS
  <2>1. Len(s) \in Nat /\ \A i \in 1 .. Len(s) : s[i] \in {}  BY LenProperties, ElementOfSeq
  <2>2. Len(s) = 0
    <3>1. CASE 1 \in 1 .. Len(s)  BY <2>1, <3>1
    <3>2. CASE 1 \notin 1 .. Len(s)  BY <2>1, <3>2
    <3> QED BY <3>1, <3>2
  <2> QED BY <2>2, EmptySeq
<1>7. Messages!Blocks(m.content, "tool_use") \in Seq(Messages!UseBlock)
  BY <1>3, <1>4, Wider
<1>8. Messages!Blocks(m.content, "tool_result") \in Seq(Messages!ResultBlock)
  BY <1>3, <1>5, Wider
<1>9. m.role = "user" => Messages!Blocks(m.content, "tool_use") = <<>>
  <2> HAVE m.role = "user"
  <2>1. Messages!Blocks(m.content, "tool_use") \in Seq({})  BY <1>3, <1>4
  <2> QED BY <1>6, <2>1
<1>10. m.role = "assistant" => Messages!Blocks(m.content, "tool_result") = <<>>
  <2> HAVE m.role = "assistant"
  <2>1. Messages!Blocks(m.content, "tool_result") \in Seq({})  BY <1>3, <1>5
  <2> QED BY <1>6, <2>1
<1> QED BY <1>1, <1>2, <1>7, <1>8, <1>9, <1>10

\* The tools that a dialog uses are those of its assistants' messages.
LEMMA UsesOfDialog ==
  ASSUME NEW c \in Seq(Messages!AnthropicMessage)
  PROVE  /\ Messages!UsesOf(c) \in Seq(Messages!UseBlock)
         /\ Messages!AnyCalls(c) = Messages!UsesOf(c)
<1>1. DOMAIN c = 1 .. Len(c) /\ \A i \in 1 .. Len(c) : c[i] \in Messages!AnthropicMessage
  BY LenProperties, ElementOfSeq
<1>2. Messages!UsesOf(c) = Expanded(UsesIn, c)
  <2>1. [i \in DOMAIN c |-> IF c[i].role = "assistant" THEN Messages!Blocks(c[i].content, "tool_use")
                            ELSE <<>>] = Mapped(UsesIn, c)
    BY <1>1 DEF Mapped, UsesIn
  <2>2. Messages!UsesOf(c) = Messages!FlattenSeq(
          [i \in DOMAIN c |-> IF c[i].role = "assistant" THEN Messages!Blocks(c[i].content, "tool_use")
                              ELSE <<>>])
    BY DEF Messages!UsesOf, Messages!Each
  <2> QED BY <2>1, <2>2, SameFlat DEF Expanded
<1>3. Messages!AnyCalls(c) = Expanded(UsesIn, c)
  <2> DEFINE any(m) == IF m.role # "assistant" THEN <<>>
                       ELSE IF "calls" \in DOMAIN m THEN m.calls
                       ELSE Messages!Blocks(m.content, "tool_use")
  <2>1. \A m \in Messages!AnthropicMessage : any(m) = UsesIn[m]
    <3>1. \A m \in Messages!AnthropicMessage : "calls" \notin DOMAIN m
      BY DEF Messages!AnthropicMessage
    <3> QED BY <3>1 DEF UsesIn
  <2>2. Messages!AnyCalls(c) = Messages!FlattenSeq([i \in DOMAIN c |-> any(c[i])])
    BY DEF Messages!AnyCalls, Messages!Each
  <2> HIDE DEF any
  <2>3. [i \in DOMAIN c |-> any(c[i])] = Mapped(UsesIn, c)
    BY <1>1, <2>1 DEF Mapped
  <2> QED BY <2>2, <2>3, SameFlat DEF Expanded
<1>4. Maps(UsesIn, Messages!AnthropicMessage, Seq(Messages!UseBlock))
  BY BlocksOfTurn, EmptySeq DEF Maps, UsesIn
<1> QED BY <1>2, <1>3, <1>4, ExpandedList

\* A text is left out if it says nothing.
LEMMA ToldUnlessEmpty ==
  ASSUME NEW type \in {"user_message", "assistant_message_text"}, NEW texts \in Seq(Strings)
  PROVE  /\ Messages!TextUnlessEmpty(type, texts) \in Seq(Sent)
         /\ Messages!TextUnlessEmpty(type, texts) \in Seq(Spoken)
         /\ Expanded(Telling, Messages!TextUnlessEmpty(type, texts))
              = Messages!Items("text", Messages!NonEmpty(texts))
<1>1. CASE Messages!IsEmpty(texts)
  <2>1. Messages!TextUnlessEmpty(type, texts) = <<>>  BY <1>1 DEF Messages!TextUnlessEmpty
  <2>2. Messages!Items("text", Messages!NonEmpty(texts)) = <<>>  BY <1>1, NonEmptyOnce, NoItems
  <2> QED BY <2>1, <2>2, ExpandedNone, EmptySeq
<1>2. CASE ~Messages!IsEmpty(texts)
  <2>1. Messages!TextUnlessEmpty(type, texts) = <<Messages!Plain(type, texts)>>
    BY <1>2 DEF Messages!TextUnlessEmpty
  <2> QED BY <2>1, ToldOfTexts
<1> QED BY <1>1, <1>2

Answers == {r \in Sent : r.type = "tool_message"}

ResultOf(c) ==
  [b \in Messages!ResultBlock |->
     Messages!JetbrainsMessage("tool_message", b.id,
       Messages!NameIn(Messages!UsesOf(c), b.id, "Unknown"), b.value)]

\* A result in a dialog has the name that ResultsNamed asks for.
LEMMA ResultNamed ==
  ASSUME NEW c \in Seq(Messages!AnthropicMessage), NEW b \in Messages!ResultBlock
  PROVE  /\ ResultOf(c)[b] \in Answers /\ NamedIn(ResultOf(c)[b], c)
         /\ Messages!Told(ResultOf(c)[b])
              = <<<<"result", b.id>>>> \o Messages!Items("text", Messages!NonEmpty(b.value))
<1> DEFINE uses == Messages!UsesOf(c)
<1> DEFINE name == Messages!NameIn(uses, b.id, "Unknown")
<1> DEFINE r == [type |-> "tool_message", id |-> b.id, name |-> name, parts |-> b.value]
<1>1. ResultOf(c)[b] = r
  BY DEF ResultOf, Messages!JetbrainsMessage
<1>2. uses \in Seq(Messages!UseBlock) /\ Messages!AnyCalls(c) = uses  BY UsesOfDialog
<1> HIDE DEF uses
<1>3. \/ \E u \in ToSet(uses) : u.id = b.id /\ name = u.name
      \/ (\A u \in ToSet(uses) : u.id # b.id) /\ name = "Unknown"
  BY <1>2, NameOfLast
<1>4. \A u \in ToSet(uses) : u \in Messages!UseBlock
  BY <1>2, LenProperties, ElementOfSeq DEF ToSet
<1>5. CallsWithId(c, b.id) = {u \in ToSet(uses) : u.id = b.id}
  BY <1>2, <1>4 DEF CallsWithId, Messages!UseBlock
<1>6. name \in Strings \cup {"unknown_tool", "Unknown"}
  BY <1>3, <1>4 DEF Messages!UseBlock
<1> HIDE DEF name
<1>7. r \in Answers
  BY <1>6 DEF Answers, Sent, Messages!ResultBlock
<1>8. NamedIn(r, c)
  BY <1>3, <1>5 DEF NamedIn
<1>9. Messages!Told(r) = <<<<"result", b.id>>>> \o Messages!Items("text", Messages!NonEmpty(b.value))
  BY DEF Messages!Told
<1> QED BY <1>1, <1>7, <1>8, <1>9

\* The messages made of tool results tell the results.
LEMMA ResultsTold ==
  ASSUME NEW c \in Seq(Messages!AnthropicMessage), NEW m \in Messages!AnthropicMessage
  PROVE  LET results == Messages!Results(m.content, c)
             items == Messages!Each(LAMBDA b : <<<<"result", b.id>>>>
                                               \o Messages!Items("text", Messages!NonEmpty(b.value)),
                                    Messages!Blocks(m.content, "tool_result"))
         IN /\ results \in Seq(Answers) /\ results \in Seq(Sent)
            /\ \A r \in ToSet(results) : NamedIn(r, c)
            /\ items \in Seq(Item) /\ Expanded(Telling, results) = items
<1> DEFINE blocks == Messages!Blocks(m.content, "tool_result")
<1> DEFINE f == ResultOf(c)
<1> DEFINE item(b) == <<<<"result", b.id>>>> \o Messages!Items("text", Messages!NonEmpty(b.value))
<1> DEFINE k == [b \in Messages!ResultBlock |-> Telling[f[b]]]
<1> DEFINE items == Messages!Each(item, blocks)
<1>1. blocks \in Seq(Messages!ResultBlock)  BY BlocksOfTurn
<1>2. Messages!Results(m.content, c)
      = [i \in DOMAIN blocks |->
           Messages!JetbrainsMessage("tool_message", blocks[i].id,
             Messages!NameIn(Messages!UsesOf(c), blocks[i].id, "Unknown"), blocks[i].value)]
  BY DEF Messages!Results
<1> HIDE DEF blocks
<1>3. DOMAIN blocks = 1 .. Len(blocks) /\ \A i \in 1 .. Len(blocks) : blocks[i] \in Messages!ResultBlock
  BY <1>1, LenProperties, ElementOfSeq
<1>4. Messages!Results(m.content, c) = Mapped(f, blocks)
  BY <1>2, <1>3 DEF Mapped, ResultOf
<1>5. \A b \in Messages!ResultBlock : f[b] \in Answers /\ f[b] \in Sent /\ Telling[f[b]] = item(b)
  BY ResultNamed, TellingMaps DEF Answers
<1>6. Maps(f, Messages!ResultBlock, Answers) /\ Maps(f, Messages!ResultBlock, Sent)
  BY <1>5 DEF Maps
<1>7. Maps(k, Messages!ResultBlock, Seq(Item))
  BY <1>5, TellingMaps DEF Maps
<1>8. items = Expanded(k, blocks)
  <2>1. items = Messages!FlattenSeq([i \in DOMAIN blocks |-> item(blocks[i])])
    BY DEF Messages!Each
  <2> HIDE DEF item
  <2>2. [i \in DOMAIN blocks |-> item(blocks[i])] = Mapped(k, blocks)
    BY <1>3, <1>5 DEF Mapped
  <2> QED BY <2>1, <2>2, SameFlat DEF Expanded
<1>9. Mapped(Telling, Mapped(f, blocks)) = Mapped(k, blocks)
  <2>1. \A b \in Messages!ResultBlock : k[b] = Telling[f[b]]  OBVIOUS
  <2> HIDE DEF k, f
  <2> QED BY <1>1, <1>6, <2>1, MappedTwice
<1>10. Mapped(f, blocks) \in Seq(Answers) /\ Mapped(f, blocks) \in Seq(Sent)
  <2> HIDE DEF f
  <2> QED BY <1>1, <1>6, MappedList
<1>11. \A r \in ToSet(Mapped(f, blocks)) : NamedIn(r, c)
  <2> SUFFICES ASSUME NEW i \in DOMAIN Mapped(f, blocks) PROVE NamedIn(Mapped(f, blocks)[i], c)
    BY DEF ToSet
  <2>1. i \in DOMAIN blocks /\ Mapped(f, blocks)[i] = f[blocks[i]]  BY DEF Mapped
  <2> QED BY <1>3, <2>1, ResultNamed
<1>12. items \in Seq(Item)
  <2> HIDE DEF k
  <2>1. Expanded(k, blocks) \in Seq(Item)  BY <1>1, <1>7, ExpandedList
  <2> QED BY <1>8, <2>1
<1> QED BY <1>4, <1>8, <1>9, <1>10, <1>11, <1>12 DEF Expanded, blocks

\* Not the system's: what a dialog is converted to, after the system prompt.
InTurn == {r \in Sent : r.type # "system_message"}

\* A message of a dialog is told by the messages it is converted to.
LEMMA TurnTold ==
  ASSUME NEW c \in Seq(Messages!AnthropicMessage), NEW m \in Messages!AnthropicMessage
  PROVE  LET converted == Messages!ConvertTurn(m, c)
         IN /\ converted \in Seq(Sent) /\ converted \in Seq(InTurn)
            /\ \A r \in ToSet(converted) : NamedIn(r, c)
            /\ Expanded(Telling, converted) = Messages!SaidInDialog(m)
<1> DEFINE converted == Messages!ConvertTurn(m, c)
<1> DEFINE texts == Messages!NonEmpty(Messages!PartsOf(m.content, "text"))
<1> DEFINE said == Messages!TextItems(m.content)
<1> DEFINE results == Messages!Results(m.content, c)
<1> DEFINE given == Messages!Blocks(m.content, "tool_result")
<1> DEFINE made == Messages!Blocks(m.content, "tool_use")
<1> DEFINE answered == Messages!Each(LAMBDA b : <<<<"result", b.id>>>>
                                       \o Messages!Items("text", Messages!NonEmpty(b.value)), given)
<1> DEFINE called == Messages!CallItems(made)
<1> DEFINE uses == Messages!ToolUses(made)
<1>1. Messages!SaidInDialog(m) = (answered \o said) \o called
  BY DEF Messages!SaidInDialog
<1>2. /\ m.role \in {"user", "assistant"} /\ m.content \in Messages!Content(Blocks(m))
      /\ made \in Seq(Messages!UseBlock) /\ (m.role = "user" => made = <<>>)
      /\ given \in Seq(Messages!ResultBlock) /\ (m.role = "assistant" => given = <<>>)
  BY BlocksOfTurn
<1>3. /\ Messages!PartsOf(m.content, "text") \in Seq(Strings) /\ said \in Seq(Item)
      /\ said = Messages!Items("text", texts)
  <2>1. \A b \in Blocks(m) : b.type \in {"text", "image"} => b.value \in Strings
    BY BlocksOfTurn
  <2> QED BY <1>2, <2>1, TextsAre DEF Messages!TextItems
<1>4. texts \in Seq(Strings) /\ Messages!NonEmpty(texts) = texts
  BY <1>3, NonEmptyOnce
<1>5. called \in Seq(Item) /\ (made = <<>> => called = <<>>)
  <2>1. \A b \in Messages!UseBlock : b.id \in Strings /\ b.name \in Strings /\ b.args \in Strings
    BY DEF Messages!UseBlock
  <2>2. called \in Seq(Item)  BY <1>2, <2>1, ToldOfCalls
  <2> QED BY <2>2 DEF Messages!CallItems
<1>6. uses \in Seq(Sent) /\ uses \in Seq(Spoken) /\ Expanded(Telling, uses) = called
  <2>1. \A b \in Messages!UseBlock : b.id \in Strings /\ b.name \in Strings /\ b.args \in Strings
    BY DEF Messages!UseBlock
  <2> QED BY <1>2, <2>1, ToldOfCalls
<1>7. /\ results \in Seq(Answers) /\ results \in Seq(Sent)
      /\ \A r \in ToSet(results) : NamedIn(r, c)
      /\ answered \in Seq(Item) /\ Expanded(Telling, results) = answered
  BY ResultsTold
<1>8. given = <<>> => answered = <<>>
  <2> HAVE given = <<>>
  <2>1. answered = Messages!FlattenSeq(<<>>)  BY DEF Messages!Each
  <2> QED BY <2>1, SameFlat, FlatOfNone
<1>9. ASSUME NEW s \in Seq(Spoken)
      PROVE  s \in Seq(InTurn) /\ \A r \in ToSet(s) : NamedIn(r, c)
  <2>1. Spoken \subseteq InTurn  BY DEF Spoken, InTurn
  <2>2. \A r \in ToSet(s) : r \in Spoken  BY LenProperties, ElementOfSeq DEF ToSet
  <2> QED BY <2>1, <2>2, Wider DEF Spoken, NamedIn
<1>10. \A s \in Seq(Item) : s \o <<>> = s /\ <<>> \o s = s  BY ConcatEmptySeq
<1>11. \A type \in {"user_message", "assistant_message"} :
         /\ <<Messages!Plain(type, texts)>> \in Seq(Sent)
         /\ <<Messages!Plain(type, texts)>> \in Seq(Spoken)
         /\ Expanded(Telling, <<Messages!Plain(type, texts)>>) = said
  BY <1>3, <1>4, ToldOfTexts
<1>12. \A type \in {"user_message", "assistant_message_text"} :
         /\ Messages!TextUnlessEmpty(type, texts) \in Seq(Sent)
         /\ Messages!TextUnlessEmpty(type, texts) \in Seq(Spoken)
         /\ Expanded(Telling, Messages!TextUnlessEmpty(type, texts)) = said
  BY <1>3, <1>4, ToldUnlessEmpty
<1>13. CASE m.role = "user" /\ given # <<>>
  <2> DEFINE rest == Messages!TextUnlessEmpty("user_message", texts)
  <2>1. converted = results \o rest  BY <1>13 DEF Messages!ConvertTurn
  <2>2. rest \in Seq(Sent) /\ rest \in Seq(Spoken) /\ Expanded(Telling, rest) = said  BY <1>12
  <2>3. rest \in Seq(InTurn) /\ \A r \in ToSet(rest) : NamedIn(r, c)  BY <1>9, <2>2
  <2>4. called = <<>>  BY <1>2, <1>5, <1>13
  <2> HIDE DEF converted, results, rest, said, answered, called
  <2>5. converted \in Seq(Sent) /\ Expanded(Telling, converted) = answered \o said
    BY <1>7, <2>1, <2>2, ToldInTurn
  <2>6. ToSet(converted) = ToSet(results) \cup ToSet(rest)
    BY <1>7, <2>1, <2>2, ConcatMembers
  <2>7. results \in Seq(InTurn)
    <3>1. Answers \subseteq InTurn  BY DEF Answers, InTurn
    <3> QED BY <1>7, <3>1, Wider
  <2>8. converted \in Seq(InTurn)  BY <2>1, <2>3, <2>7, ConcatProperties
  <2>9. answered \o said \in Seq(Item)  BY <1>3, <1>7, ConcatProperties
  <2>10. Messages!SaidInDialog(m) = answered \o said  BY <1>1, <1>10, <2>4, <2>9
  <2> QED BY <1>7, <2>3, <2>5, <2>6, <2>8, <2>10 DEF converted
<1>14. CASE m.role = "assistant" /\ made # <<>>
  <2> DEFINE begin == Messages!TextUnlessEmpty("assistant_message_text", texts)
  <2>1. converted = begin \o uses  BY <1>14 DEF Messages!ConvertTurn
  <2>2. begin \in Seq(Sent) /\ begin \in Seq(Spoken) /\ Expanded(Telling, begin) = said  BY <1>12
  <2>3. answered = <<>>  BY <1>2, <1>8, <1>14
  <2> HIDE DEF converted, uses, begin, said, answered, called
  <2>4. converted \in Seq(Sent) /\ Expanded(Telling, converted) = said \o called
    BY <1>6, <2>1, <2>2, ToldInTurn
  <2>5. converted \in Seq(Spoken)  BY <1>6, <2>1, <2>2, ConcatProperties
  <2>6. Messages!SaidInDialog(m) = said \o called  BY <1>1, <1>3, <1>10, <2>3
  <2> QED BY <1>9, <2>4, <2>5, <2>6 DEF converted
<1>15. CASE (m.role = "user" /\ given = <<>>) \/ (m.role = "assistant" /\ made = <<>>)
  <2>1. PICK type \in {"user_message", "assistant_message"} :
          converted = <<Messages!Plain(type, texts)>>
    BY <1>15 DEF Messages!ConvertTurn
  <2>2. answered = <<>> /\ called = <<>>  BY <1>2, <1>5, <1>8, <1>15
  <2>3. converted \in Seq(Sent) /\ converted \in Seq(Spoken) /\ Expanded(Telling, converted) = said
    BY <1>11, <2>1
  <2> HIDE DEF converted, said, answered, called
  <2>4. Messages!SaidInDialog(m) = said  BY <1>1, <1>3, <1>10, <2>2
  <2> QED BY <1>9, <2>3, <2>4 DEF converted
<1> QED BY <1>2, <1>13, <1>14, <1>15

Turning(c) == [m \in Messages!AnthropicMessage |-> Messages!ConvertTurn(m, c)]

\* So is a dialog, message by message.
LEMMA DialogTold ==
  ASSUME NEW c \in Seq(Messages!AnthropicMessage)
  PROVE  LET converted == Messages!Each(LAMBDA m : Messages!ConvertTurn(m, c), c)
         IN /\ converted \in Seq(Sent) /\ converted \in Seq(InTurn)
            /\ \A r \in ToSet(converted) : NamedIn(r, c)
            /\ Messages!Each(Messages!Told, converted) = Messages!Each(Messages!SaidInDialog, c)
<1> DEFINE h == Turning(c)
<1> DEFINE said == [m \in Messages!AnthropicMessage |-> Messages!SaidInDialog(m)]
<1> DEFINE told == [m \in Messages!AnthropicMessage |-> Expanded(Telling, h[m])]
<1>1. DOMAIN c = 1 .. Len(c) /\ \A i \in 1 .. Len(c) : c[i] \in Messages!AnthropicMessage
  BY LenProperties, ElementOfSeq
<1>2. Messages!Each(LAMBDA m : Messages!ConvertTurn(m, c), c) = Expanded(h, c)
  <2>1. [i \in DOMAIN c |-> Messages!ConvertTurn(c[i], c)] = Mapped(h, c)
    BY <1>1 DEF Mapped, Turning
  <2>2. Messages!Each(LAMBDA m : Messages!ConvertTurn(m, c), c)
        = Messages!FlattenSeq([i \in DOMAIN c |-> Messages!ConvertTurn(c[i], c)])
    BY DEF Messages!Each
  <2> QED BY <2>1, <2>2, SameFlat DEF Expanded
<1>3. Messages!Each(Messages!SaidInDialog, c) = Expanded(said, c)
  <2>1. [i \in DOMAIN c |-> Messages!SaidInDialog(c[i])] = Mapped(said, c)
    BY <1>1 DEF Mapped
  <2>2. Messages!Each(Messages!SaidInDialog, c)
        = Messages!FlattenSeq([i \in DOMAIN c |-> Messages!SaidInDialog(c[i])])
    BY DEF Messages!Each
  <2> QED BY <2>1, <2>2, SameFlat DEF Expanded
<1>4. \A m \in Messages!AnthropicMessage :
        /\ h[m] \in Seq(Sent) /\ h[m] \in Seq(InTurn) /\ told[m] = said[m]
        /\ \A r \in ToSet(h[m]) : NamedIn(r, c)
  BY TurnTold DEF Turning
<1>5. told = said  BY <1>4
<1>6. /\ Maps(h, Messages!AnthropicMessage, Seq(Sent))
      /\ Maps(h, Messages!AnthropicMessage, Seq(InTurn))
  BY <1>4 DEF Maps
<1> HIDE DEF h
<1>7. Expanded(h, c) \in Seq(Sent) /\ Expanded(h, c) \in Seq(InTurn)  BY <1>6, ExpandedList
<1>8. Expanded(Telling, Expanded(h, c)) = Expanded(told, c)
  BY <1>6, TellingMaps, ExpandedAgain
<1>9. Messages!Each(Messages!Told, Expanded(h, c)) = Expanded(Telling, Expanded(h, c))
  BY <1>7, TellingOf
<1>10. ASSUME NEW r \in ToSet(Expanded(h, c)) PROVE NamedIn(r, c)
  <2>1. PICK m \in ToSet(c) : r \in ToSet(h[m])  BY <1>6, ExpandedMembers
  <2>2. m \in Messages!AnthropicMessage  BY LenProperties, ElementOfSeq DEF ToSet
  <2> QED BY <1>4, <2>1, <2>2
<1> QED BY <1>2, <1>3, <1>5, <1>7, <1>8, <1>9, <1>10 DEF h

\* The system prompt stands in front and is not looked for in the conversation.
LEMMA WithSystem ==
  ASSUME NEW d \in Messages!Dialog
  PROVE  LET converted == Messages!Each(LAMBDA m : Messages!ConvertTurn(m, d.messages), d.messages)
             whole == (IF d.system = "" THEN <<>> ELSE <<Messages!Plain("system_message", <<d.system>>)>>)
                     \o converted
         IN /\ d.messages \in Seq(Messages!AnthropicMessage)
            /\ \A r \in ToSet(whole) : NamedIn(r, d.messages)
            /\ Messages!WithoutSystem(whole) = converted
<1> DEFINE converted == Messages!Each(LAMBDA m : Messages!ConvertTurn(m, d.messages), d.messages)
<1> DEFINE prompt == Messages!Plain("system_message", <<d.system>>)
<1>1. d.messages \in Seq(Messages!AnthropicMessage) /\ d.system \in Strings
  BY DEF Messages!Dialog
<1>2. /\ converted \in Seq(Sent) /\ converted \in Seq(InTurn)
      /\ \A r \in ToSet(converted) : NamedIn(r, d.messages)
  BY <1>1, DialogTold
<1>3. prompt \in Sent /\ prompt.type = "system_message"
  <2>1. <<d.system>> \in Seq(Strings)  BY <1>1
  <2> QED BY <2>1, PlainSent
<1> HIDE DEF converted, prompt
<1>4. CASE d.system = ""
  <2>1. <<>> \o converted = converted  BY <1>2, ConcatEmptySeq
  <2>2. converted # <<>> => converted[1] \in InTurn
    BY <1>2, LenProperties, ElementOfSeq, EmptySeq
  <2>3. Messages!WithoutSystem(converted) = converted
    BY <2>2 DEF InTurn, Messages!WithoutSystem
  <2> QED BY <1>1, <1>2, <1>4, <2>1, <2>3 DEF converted
<1>5. CASE d.system # ""
  <2> DEFINE whole == <<prompt>> \o converted
  <2>1. <<prompt>> \in Seq(Sent) /\ ToSet(<<prompt>>) = {prompt}  BY <1>3 DEF ToSet
  <2>2. whole # <<>> /\ whole[1] = prompt /\ Tail(whole) = converted
    BY <1>2, <1>3
  <2>3. ToSet(whole) = ToSet(<<prompt>>) \cup ToSet(converted)
    <3> DEFINE front == <<prompt>>
    <3>1. front \in Seq(Sent)  BY <2>1
    <3> HIDE DEF front
    <3>2. ToSet(front \o converted) = ToSet(front) \cup ToSet(converted)
      BY <1>2, <3>1, ConcatMembers
    <3> QED BY <3>2 DEF front
  <2>4. NamedIn(prompt, d.messages)  BY <1>3 DEF NamedIn
  <2> HIDE DEF whole
  <2>5. Messages!WithoutSystem(whole) = converted  BY <1>3, <2>2 DEF Messages!WithoutSystem
  <2> QED BY <1>1, <1>2, <1>5, <2>1, <2>3, <2>4, <2>5 DEF whole, converted, prompt
<1> QED BY <1>4, <1>5

-----------------------------------------------------------------------------
(* The conversations of the OpenAI handler.                                *)

MessageTypes ==
  /\ pc \in [Handlers -> {"idle", "lookup", "convert", "store", "send", "send dialog"}]
  /\ using \in [Handlers -> ConverterPool \cup {NoConverter}]
  /\ chat = [h \in Handlers |-> chat[h]]
  /\ payload = [h \in Handlers |-> payload[h]]
  /\ names = [c \in ConverterPool |-> names[c]]

\* A converter is in one handler's hands while that handler converts, with the
\* names of its conversation; a converter in the pool has none.
Lent ==
  /\ \A h \in Handlers :
       /\ pc[h] = "convert" <=> using[h] # NoConverter
       /\ pc[h] = "convert" => names[using[h]] = Messages!Extended(Messages!NoNames, chat[h])
       /\ \A g \in Handlers : using[g] = using[h] /\ pc[h] = "convert" => g = h
  /\ \A c \in ConverterPool : (\A h \in Handlers : using[h] # c) => names[c] = Messages!NoNames

\* A prompt and a cached entry depend on nothing but their own conversation.
OwnPrompt ==
  /\ \A h \in Handlers : pc[h] \in {"store", "send"} => payload[h] = Conversion(chat[h])
  /\ \A e \in cache : e.messages = Conversion(e.key)

\* The payload of an Anthropic request.
DialogPayload(d) ==
  (IF d.system = "" THEN <<>> ELSE <<Messages!Plain("system_message", <<d.system>>)>>)
  \o Messages!Each(LAMBDA m : Messages!ConvertTurn(m, d.messages), d.messages)

\* Handlers serve what clients send, and hold a payload only once they have made it.
Served == \A h \in Handlers :
  /\ pc[h] \in {"lookup", "convert", "store", "send"} => chat[h] \in Chats
  /\ pc[h] \in {"idle", "lookup", "convert"} => payload[h] = <<>>
  /\ pc[h] = "send dialog" =>
       \E d \in Dialogs : chat[h] = d.messages /\ payload[h] = DialogPayload(d)

MessageInv == MessageTypes /\ Lent /\ OwnPrompt /\ Served

\* Nothing is converted at first.
LEMMA MessagesBegin == Messages!Init => MessageInv
  BY ConvertersAssumption DEF Messages!Init, MessageInv, MessageTypes, Lent, OwnPrompt, Served

\* One step of a handler keeps every other handler's converter and prompt.
LEMMA MessageStep ==
  ASSUME MessageInv, Messages!Next
  PROVE  MessageInv'
<1> USE DEF MessageInv
<1>1. ASSUME NEW h \in Handlers, Messages!ReceiveChat(h) PROVE MessageInv'
  <2>1. MessageTypes'  BY <1>1 DEF Messages!ReceiveChat, MessageTypes
  <2>2. /\ \A g \in Handlers \ {h} : pc'[g] = pc[g] /\ chat'[g] = chat[g]
        /\ pc[h] = "idle" /\ pc'[h] = "lookup"
        /\ chat'[h] \in Chats
        /\ using' = using /\ names' = names /\ payload' = payload /\ cache' = cache
    BY <1>1 DEF Messages!ReceiveChat, MessageTypes
  <2>3. Lent'  BY <2>2 DEF Lent
  <2>4. OwnPrompt'  BY <2>2 DEF OwnPrompt
  <2>5. Served'  BY <2>2 DEF Served
  <2> QED BY <2>1, <2>3, <2>4, <2>5
<1>2. ASSUME NEW h \in Handlers, Messages!CacheHit(h) PROVE MessageInv'
  <2>1. MessageTypes'  BY <1>2 DEF Messages!CacheHit, MessageTypes
  <2>2. /\ \A g \in Handlers \ {h} : pc'[g] = pc[g] /\ payload'[g] = payload[g]
        /\ pc[h] = "lookup" /\ pc'[h] = "send"
        /\ \E e \in cache : e.key = chat[h] /\ payload'[h] = e.messages
        /\ using' = using /\ names' = names /\ chat' = chat /\ cache' = cache
    BY <1>2 DEF Messages!CacheHit, Messages!Key, MessageTypes
  <2>3. Lent'  BY <2>2 DEF Lent
  <2>4. OwnPrompt'  BY <2>2 DEF OwnPrompt
  <2>5. Served'  BY <2>2 DEF Served
  <2> QED BY <2>1, <2>3, <2>4, <2>5
<1>3. ASSUME NEW h \in Handlers, Messages!TakeConverter(h) PROVE MessageInv'
  <2>1. PICK c \in ConverterPool :
          /\ \A g \in Handlers : using[g] # c
          /\ using' = [using EXCEPT ![h] = c]
          /\ names' = [names EXCEPT ![c] = Messages!Extended(@, chat[h])]
    BY <1>3 DEF Messages!TakeConverter
  <2>2. MessageTypes'  BY <1>3, <2>1 DEF Messages!TakeConverter, MessageTypes
  <2>3. /\ \A g \in Handlers \ {h} : pc'[g] = pc[g] /\ using'[g] = using[g]
        /\ pc[h] = "lookup" /\ pc'[h] = "convert" /\ using'[h] = c
        /\ \A d \in ConverterPool \ {c} : names'[d] = names[d]
        /\ names'[c] = Messages!Extended(names[c], chat[h])
        /\ payload' = payload /\ chat' = chat /\ cache' = cache
    BY <1>3, <2>1 DEF Messages!TakeConverter, MessageTypes
  <2>4. names[c] = Messages!NoNames  BY <2>1 DEF Lent
  <2>5. Lent'
    <3>1. \A g \in Handlers : using[g] \in ConverterPool \cup {NoConverter}  BY DEF MessageTypes
    <3>2. c # NoConverter /\ using[h] = NoConverter
      BY <2>3, ConvertersAssumption DEF Lent
    <3>3. ASSUME NEW g \in Handlers
          PROVE  /\ pc'[g] = "convert" <=> using'[g] # NoConverter
                 /\ pc'[g] = "convert" =>
                      names'[using'[g]] = Messages!Extended(Messages!NoNames, chat'[g])
      <4>1. CASE g = h  BY <2>3, <2>4, <3>2, <4>1
      <4>2. CASE g # h
        <5>1. pc'[g] = pc[g] /\ using'[g] = using[g] /\ using[g] # c  BY <2>1, <2>3, <4>2
        <5>2. pc[g] = "convert" => using[g] \in ConverterPool \ {c}
          BY <3>1, <5>1 DEF Lent
        <5> QED BY <2>3, <5>1, <5>2 DEF Lent
      <4> QED BY <4>1, <4>2
    <3>4. \A g, k \in Handlers : using'[k] = using'[g] /\ pc'[g] = "convert" => k = g
      BY <2>1, <2>3 DEF Lent
    <3>5. ASSUME NEW d \in ConverterPool, \A g \in Handlers : using'[g] # d
          PROVE  names'[d] = Messages!NoNames
      <4>1. d # c  BY <2>3, <3>5
      <4>2. \A g \in Handlers : using[g] # d  BY <2>3, <3>2, <3>5, ConvertersAssumption
      <4> QED BY <2>3, <4>1, <4>2 DEF Lent
    <3> QED BY <3>3, <3>4, <3>5 DEF Lent
  <2>6. OwnPrompt'  BY <2>3 DEF OwnPrompt
  <2>7. Served'  BY <2>3 DEF Served
  <2> QED BY <2>2, <2>5, <2>6, <2>7
<1>4. ASSUME NEW h \in Handlers, Messages!Convert(h) PROVE MessageInv'
  <2>1. MessageTypes'  BY <1>4 DEF Messages!Convert, MessageTypes
  <2> DEFINE table == names[using[h]]
  <2>2. /\ \A g \in Handlers \ {h} : /\ pc'[g] = pc[g] /\ payload'[g] = payload[g]
                                     /\ using'[g] = using[g]
        /\ pc[h] = "convert" /\ pc'[h] = "store" /\ using'[h] = NoConverter
        /\ payload'[h] = Messages!Each(LAMBDA m : Messages!ConvertMessage(m, table), chat[h])
        /\ \A d \in ConverterPool \ {using[h]} : names'[d] = names[d]
        /\ names'[using[h]] = Messages!NoNames
        /\ chat' = chat /\ cache' = cache
    <3>1. using[h] \in ConverterPool  BY <1>4 DEF Messages!Convert, MessageTypes, Lent
    <3> QED BY <1>4, <3>1 DEF Messages!Convert, MessageTypes
  <2>3. payload'[h] = Conversion(chat[h])
    <3>1. table = Messages!Extended(Messages!NoNames, chat[h])  BY <2>2 DEF Lent
    <3>2. payload'[h] = Messages!Each(LAMBDA m : Messages!ConvertMessage(m, table), chat[h])
      BY <2>2
    <3> QED BY <3>1, <3>2 DEF Conversion, Messages!Each
  <2>4. Lent'
    <3>1. using[h] \in ConverterPool /\ using[h] # NoConverter
      BY <2>2, ConvertersAssumption DEF Lent, MessageTypes
    <3>2. ASSUME NEW g \in Handlers
          PROVE  /\ pc'[g] = "convert" <=> using'[g] # NoConverter
                 /\ pc'[g] = "convert" =>
                      names'[using'[g]] = Messages!Extended(Messages!NoNames, chat'[g])
      <4>1. CASE g = h  BY <2>2, <4>1
      <4>2. CASE g # h
        <5>1. pc'[g] = pc[g] /\ using'[g] = using[g]  BY <2>2, <4>2
        <5>2. pc[g] = "convert" => using[g] \in ConverterPool \ {using[h]}
          <6>1. using[g] \in ConverterPool \cup {NoConverter}  BY DEF MessageTypes
          <6>2. pc[g] = "convert" => using[g] # NoConverter  BY DEF Lent
          <6>3. using[g] # using[h]  BY <2>2, <4>2 DEF Lent
          <6> QED BY <6>1, <6>2, <6>3
        <5> QED BY <2>2, <5>1, <5>2 DEF Lent
      <4> QED BY <4>1, <4>2
    <3>3. \A g, k \in Handlers : using'[k] = using'[g] /\ pc'[g] = "convert" => k = g
      BY <2>2 DEF Lent
    <3>4. ASSUME NEW d \in ConverterPool, \A g \in Handlers : using'[g] # d
          PROVE  names'[d] = Messages!NoNames
      <4>1. CASE d = using[h]  BY <2>2, <4>1
      <4>2. CASE d # using[h]
        <5>1. \A g \in Handlers : using[g] # d  BY <2>2, <3>4, <4>2
        <5> QED BY <2>2, <4>2, <5>1 DEF Lent
      <4> QED BY <4>1, <4>2
    <3> QED BY <3>2, <3>3, <3>4 DEF Lent
  <2>5. OwnPrompt'  BY <2>2, <2>3 DEF OwnPrompt
  <2>6. Served'  BY <2>2 DEF Served
  <2> QED BY <2>1, <2>4, <2>5, <2>6
<1>5. ASSUME NEW h \in Handlers, Messages!Store(h) PROVE MessageInv'
  <2>1. MessageTypes'  BY <1>5 DEF Messages!Store, MessageTypes
  <2>2. /\ \A g \in Handlers \ {h} : pc'[g] = pc[g]
        /\ pc[h] = "store" /\ pc'[h] = "send"
        /\ \A e \in cache' : e \in cache \/ e = [key |-> chat[h], messages |-> payload[h]]
        /\ using' = using /\ names' = names /\ chat' = chat /\ payload' = payload
    BY <1>5 DEF Messages!Store, Messages!Key, MessageTypes
  <2>3. Lent'  BY <2>2 DEF Lent
  <2>4. OwnPrompt'  BY <2>2 DEF OwnPrompt
  <2>5. Served'  BY <2>2 DEF Served
  <2> QED BY <2>1, <2>3, <2>4, <2>5
<1>6. ASSUME NEW h \in Handlers, Messages!ReceiveDialog(h) \/ Messages!Send(h) PROVE MessageInv'
  <2>1. MessageTypes'  BY <1>6 DEF Messages!ReceiveDialog, Messages!Send, MessageTypes
  <2>2. /\ \A g \in Handlers \ {h} : /\ pc'[g] = pc[g] /\ chat'[g] = chat[g]
                                     /\ payload'[g] = payload[g]
        /\ pc[h] # "convert" /\ pc'[h] \in {"idle", "send dialog"}
        /\ pc'[h] = "idle" => payload'[h] = <<>>
        /\ pc'[h] = "send dialog" =>
             \E d \in Dialogs : chat'[h] = d.messages /\ payload'[h] = DialogPayload(d)
        /\ using' = using /\ names' = names /\ cache' = cache
    BY <1>6 DEF Messages!ReceiveDialog, Messages!Send, MessageTypes, DialogPayload
  <2>3. Lent'  BY <2>2 DEF Lent
  <2>4. OwnPrompt'  BY <2>2 DEF OwnPrompt
  <2>5. Served'  BY <2>2 DEF Served
  <2> QED BY <2>1, <2>3, <2>4, <2>5
<1>7. ASSUME Messages!Drop PROVE MessageInv'
  BY <1>7 DEF Messages!Drop, MessageTypes, Lent, OwnPrompt, Served
<1> QED BY <1>1, <1>2, <1>3, <1>4, <1>5, <1>6, <1>7 DEF Messages!Next

\* No two handlers convert with the same converter, and what they convert with it
\* holds the names of their own conversation only: the clearing of the table in
\* ProcessMessages' deferred function (openai.go:33) makes a used converter a new
\* one.  What is sent, converted or found in the cache (processor.go:49), depends
\* on nothing but the conversation of the request.
THEOREM PromptsAreOwn == Spec => []MessageInv
<1>1. Init => MessageInv
  BY MessagesBegin DEF Init
<1>2. MessageInv /\ [Next]_vars => MessageInv'
  <2> SUFFICES ASSUME MessageInv, [Next]_vars PROVE MessageInv'
    OBVIOUS
  <2>1. CASE ConvertMessages
    BY <2>1, MessageStep DEF ConvertMessages
  <2>2. CASE UNCHANGED messages
    BY <2>2 DEF messages, MessageInv, MessageTypes, Lent, OwnPrompt, Served
  <2>3. UNCHANGED messages \/ ConvertMessages
    BY DEF Next, vars, ConvertTools, HandleAnthropicStreaming, HandleAnthropicNonStreaming,
           HandleOpenAI
  <2> QED BY <2>1, <2>2, <2>3
<1> QED BY <1>1, <1>2, PTL DEF Spec

\* Every result in a payload names a tool that its own conversation calls with
\* its id, and none if there is no such call, for any conversations, any number of
\* requests, and whatever the converters served before (openai.go:33) or the cache
\* holds (processor.go:49).
THEOREM ResultsAreNamed == Spec => []ResultsNamed
<1>1. MessageInv => ResultsNamed
  <2> SUFFICES ASSUME MessageInv, NEW h \in Handlers, NEW i \in DOMAIN payload[h]
               PROVE  NamedIn(payload[h][i], chat[h])
    <3>1. \A s : Messages!ToSet(s) = ToSet(s)  BY DEF ToSet, Messages!ToSet
    <3> QED BY <3>1 DEF ResultsNamed, Messages!ResultsNamed, NamedIn, CallsWithId
  <2> DEFINE r == payload[h][i]
  <2>1. r \in ToSet(payload[h])  BY DEF ToSet
  <2>2. payload[h] # <<>>  OBVIOUS
  <2>3. pc[h] \in {"store", "send", "send dialog"}
    BY <2>2 DEF MessageInv, MessageTypes, Served
  <2>4. CASE pc[h] \in {"store", "send"}
    <3>1. payload[h] = Conversion(chat[h]) /\ chat[h] \in Seq(Messages!ChatMessage)
      BY <2>4, ClientsAssumption DEF MessageInv, OwnPrompt, Served
    <3> HIDE DEF r
    <3> QED BY <2>1, <3>1, ChatNamed DEF r
  <2>5. CASE pc[h] = "send dialog"
    <3>1. PICK d \in Dialogs : chat[h] = d.messages /\ payload[h] = DialogPayload(d)
      BY <2>5 DEF MessageInv, Served
    <3>2. d \in Messages!Dialog  BY ClientsAssumption
    <3>3. \A x \in ToSet(DialogPayload(d)) : NamedIn(x, d.messages)
      BY <3>2, WithSystem DEF DialogPayload
    <3> QED BY <2>1, <3>1, <3>3
  <2> QED BY <2>3, <2>4, <2>5
<1> QED BY <1>1, PromptsAreOwn, PTL

\* Every payload that is sent has each non-empty text, valid first image, call
\* and result of its own conversation, none lost, doubled or added, through
\* either handler, converted or found in the cache (openai.go:164,
\* anthropic.go:53).  Messages and the items of one kind in a message keep their
\* order; between the kinds it is a fixed one, so that a text before a tool
\* result moves behind it; the arguments of calls are those encoded again.
THEOREM PromptsAreComplete == Spec => []PromptComplete
<1>1. MessageInv => PromptComplete
  <2> SUFFICES ASSUME MessageInv, NEW h \in Handlers
               PROVE  /\ pc[h] = "send" => Messages!Each(Messages!Told, payload[h])
                                             = Messages!Each(Messages!SaidInChat, chat[h])
                      /\ pc[h] = "send dialog" =>
                           Messages!Each(Messages!Told, Messages!WithoutSystem(payload[h]))
                             = Messages!Each(Messages!SaidInDialog, chat[h])
    BY DEF PromptComplete, Messages!PromptComplete
  <2>1. ASSUME pc[h] = "send"
        PROVE  Messages!Each(Messages!Told, payload[h]) = Messages!Each(Messages!SaidInChat, chat[h])
    <3> DEFINE c == chat[h]
    <3> DEFINE table == Messages!Extended(Messages!NoNames, c)
    <3>1. payload[h] = Conversion(c) /\ c \in Seq(Messages!ChatMessage)
      BY <2>1, ClientsAssumption DEF MessageInv, OwnPrompt, Served
    <3> HIDE DEF c
    <3>2. table \in Tables  BY <3>1, TableOfChat
    <3>3. Conversion(c) = Messages!Each(LAMBDA m : Messages!ConvertMessage(m, table), c)
      BY DEF Conversion
    <3> HIDE DEF table
    <3>4. Messages!Each(Messages!Told, Conversion(c)) = Messages!Each(Messages!SaidInChat, c)
      BY <3>1, <3>2, <3>3, ChatTold
    <3> QED BY <3>1, <3>4 DEF c
  <2>2. ASSUME pc[h] = "send dialog"
        PROVE  Messages!Each(Messages!Told, Messages!WithoutSystem(payload[h]))
                 = Messages!Each(Messages!SaidInDialog, chat[h])
    <3>1. PICK d \in Dialogs : chat[h] = d.messages /\ payload[h] = DialogPayload(d)
      BY <2>2 DEF MessageInv, Served
    <3>2. d \in Messages!Dialog  BY ClientsAssumption
    <3> DEFINE converted ==
          Messages!Each(LAMBDA m : Messages!ConvertTurn(m, d.messages), d.messages)
    <3>3. Messages!WithoutSystem(DialogPayload(d)) = converted
          /\ d.messages \in Seq(Messages!AnthropicMessage)
      BY <3>2, WithSystem DEF DialogPayload
    <3>4. Messages!Each(Messages!Told, converted) = Messages!Each(Messages!SaidInDialog, d.messages)
      BY <3>3, DialogTold
    <3> QED BY <3>1, <3>3, <3>4
  <2> QED BY <2>1, <2>2
<1> QED BY <1>1, PromptsAreOwn, PTL

-----------------------------------------------------------------------------
(* Paths and names.                                                        *)

PropNames == ToSet(Sorted)
Paths == Seq(PropNames)

\* ToSet, as ToolSchemas sees it.
LEMMA SameSet ==
  /\ \A s : Tools!ToSet(s) = ToSet(s)
  /\ Tools!ToSet(Sorted) = PropNames
  BY DEF ToSet, Tools!ToSet, PropNames

\* A cleaned name is valid, and a valid one is clean.
LEMMA CleanNames ==
  /\ \A n \in PropNames : Tools!Clean(n) \in PropNames /\ Tools!Valid(Tools!Clean(n))
  /\ \A n : Tools!Valid(n) => Tools!Clean(n) = n
  /\ "data" \in PropNames /\ Tools!Valid("data")
<1>1. /\ DOMAIN Transformed \subseteq PropNames
      /\ {"data"} \cup {Transformed[n] : n \in DOMAIN Transformed} \subseteq PropNames \ DOMAIN Transformed
  BY ConvertersAssumption DEF PropNames
<1> QED BY <1>1 DEF Tools!Clean, Tools!Valid

\* A path and the name at its end.
LEMMA PathEnd ==
  ASSUME NEW p \in Paths, NEW n \in PropNames
  PROVE  /\ Append(p, n) \in Paths /\ Append(p, n) # <<>> /\ Len(Append(p, n)) = Len(p) + 1
         /\ Tools!Parent(Append(p, n)) = p /\ Tools!Last(Append(p, n)) = n
         /\ Len(p) \in Nat
<1> DEFINE q == Append(p, n)
<1>1. p \in Seq(PropNames)  BY DEF Paths
<1>2. /\ q \in Seq(PropNames) /\ q # <<>> /\ Len(q) = Len(p) + 1 /\ Len(p) \in Nat
      /\ q[Len(p) + 1] = n
  BY <1>1, AppendProperties
<1>3. SubSeq(q, 1, Len(p)) = p
  <2> DEFINE r == SubSeq(q, 1, Len(p))
  <2>1. \A i \in 1 .. Len(p) : q[i] \in PropNames /\ q[i] = p[i]
    BY <1>1, AppendProperties, ElementOfSeq
  <2>2. /\ r \in Seq(PropNames) /\ Len(r) = Len(p) /\ \A i \in 1 .. Len(p) : r[i] = q[i]
    <3> HIDE DEF q
    <3>1. 1 \in Int /\ Len(p) \in Int /\ Len(p) - 1 + 1 = Len(p)  BY <1>2
    <3>2. /\ r \in Seq(PropNames) /\ Len(r) = IF 1 <= Len(p) THEN Len(p) - 1 + 1 ELSE 0
          /\ \A i \in 1 .. Len(p) - 1 + 1 : r[i] = q[1 + i - 1]
      BY <2>1, <3>1, SubSeqProperties
    <3>3. \A i \in 1 .. Len(p) : 1 + i - 1 = i  BY <1>2
    <3> QED BY <1>2, <3>1, <3>2, <3>3
  <2> HIDE DEF r
  <2> QED BY <1>1, <2>1, <2>2, SeqEqual DEF r
<1> HIDE DEF q
<1>4. Tools!Parent(q) = p
  <2>1. Len(q) - 1 = Len(p)  BY <1>2
  <2> QED BY <1>3, <2>1 DEF Tools!Parent, Tools!Front
<1>5. Tools!Last(q) = n
  BY <1>2 DEF Tools!Last
<1> QED BY <1>2, <1>4, <1>5 DEF q, Paths

LEMMA PathSplit ==
  ASSUME NEW q \in Paths, q # <<>>
  PROVE  \E p \in Paths, n \in PropNames : q = Append(p, n)
  BY SequenceEmptyOrAppend DEF Paths

\* The beginnings of a path.
LEMMA PathBegin ==
  ASSUME NEW p \in Paths, NEW n \in PropNames
  PROVE  /\ \A i \in 0 .. Len(p) : SubSeq(Append(p, n), 1, i) = SubSeq(p, 1, i)
         /\ SubSeq(Append(p, n), 1, Len(p) + 1) = Append(p, n)
         /\ SubSeq(p, 1, Len(p)) = p /\ SubSeq(p, 1, 0) = <<>>
<1> DEFINE q == Append(p, n)
<1>1. p \in Seq(PropNames)  BY DEF Paths
<1>2. /\ q \in Seq(PropNames) /\ Len(q) = Len(p) + 1 /\ Len(p) \in Nat
      /\ \A i \in 1 .. Len(p) : q[i] = p[i] /\ p[i] \in PropNames
  BY <1>1, AppendProperties, ElementOfSeq
<1> HIDE DEF q
<1>3. SubSeq(q, 1, Len(p) + 1) = q  BY <1>2, SubSeqFull
<1>4. SubSeq(p, 1, Len(p)) = p  BY <1>1, SubSeqFull
<1>5. ASSUME NEW i \in 0 .. Len(p) PROVE SubSeq(q, 1, i) = SubSeq(p, 1, i)
  <2> DEFINE l == SubSeq(q, 1, i)
  <2> DEFINE r == SubSeq(p, 1, i)
  <2>1. i \in Int /\ 1 \in Int /\ i - 1 + 1 = i /\ i \in Nat  BY <1>2
  <2>2. \A j \in 1 .. i : q[j] = p[j] /\ p[j] \in PropNames  BY <1>2
  <2>3. /\ l \in Seq(PropNames) /\ Len(l) = IF 1 <= i THEN i - 1 + 1 ELSE 0
        /\ \A j \in 1 .. i - 1 + 1 : l[j] = q[1 + j - 1]
    BY <2>1, <2>2, SubSeqProperties
  <2>4. /\ r \in Seq(PropNames) /\ Len(r) = IF 1 <= i THEN i - 1 + 1 ELSE 0
        /\ \A j \in 1 .. i - 1 + 1 : r[j] = p[1 + j - 1]
    BY <2>1, <2>2, SubSeqProperties
  <2> HIDE DEF l, r
  <2>5. Len(l) = i /\ Len(r) = i  BY <2>1, <2>3, <2>4
  <2>6. \A j \in 1 .. i : l[j] = r[j]
    <3>1. \A j \in 1 .. i : 1 + j - 1 = j  BY <2>1
    <3> QED BY <2>1, <2>2, <2>3, <2>4, <3>1
  <2>7. l = r  BY <2>3, <2>4, <2>5, <2>6, SeqEqual
  <2> QED BY <2>7 DEF l, r
<1>6. SubSeq(p, 1, 0) = <<>>  BY SubSeqEmpty
<1> QED BY <1>3, <1>4, <1>5, <1>6, <1>2 DEF q

\* A path is cleaned name by name.
LEMMA CleanPaths ==
  /\ Tools!CleanPath(<<>>) = <<>>
  /\ \A p \in Paths : Tools!CleanPath(p) \in Paths /\ Len(Tools!CleanPath(p)) = Len(p)
  /\ \A p \in Paths, n \in PropNames :
       Tools!CleanPath(Append(p, n)) = Append(Tools!CleanPath(p), Tools!Clean(n))
<1> DEFINE h == [n \in PropNames |-> Tools!Clean(n)]
<1>1. Maps(h, PropNames, PropNames)  BY CleanNames DEF Maps
<1>2. \A p \in Paths : Tools!CleanPath(p) = Mapped(h, p)
  <2> SUFFICES ASSUME NEW p \in Paths PROVE Tools!CleanPath(p) = Mapped(h, p)  OBVIOUS
  <2>1. \A i \in DOMAIN p : p[i] \in PropNames  BY LenProperties, ElementOfSeq DEF Paths
  <2> QED BY <2>1 DEF Mapped, Tools!CleanPath
<1>3. \A n \in PropNames : h[n] = Tools!Clean(n)  OBVIOUS
<1> HIDE DEF h
<1>4. Tools!CleanPath(<<>>) = <<>>
  <2>1. <<>> \in Paths  BY EmptySeq DEF Paths
  <2> QED BY <1>2, <2>1, MappedNone
<1>5. ASSUME NEW p \in Paths
      PROVE  Tools!CleanPath(p) \in Paths /\ Len(Tools!CleanPath(p)) = Len(p)
  <2>1. Mapped(h, p) \in Seq(PropNames) /\ Len(Mapped(h, p)) = Len(p)
    BY <1>1, MappedList DEF Paths
  <2> QED BY <1>2, <2>1 DEF Paths
<1>6. ASSUME NEW p \in Paths, NEW n \in PropNames
      PROVE  Tools!CleanPath(Append(p, n)) = Append(Tools!CleanPath(p), Tools!Clean(n))
  <2>1. Mapped(h, Append(p, n)) = Append(Mapped(h, p), h[n])
    BY <1>1, MappedAppend DEF Paths
  <2>2. Append(p, n) \in Paths  BY PathEnd
  <2> QED BY <1>2, <1>3, <2>1, <2>2
<1> QED BY <1>4, <1>5, <1>6

-----------------------------------------------------------------------------
(* The names of a schema, and how many there may be.                       *)

\* Cardinality, as ToolSchemas sees it.
LEMMA SameCount == \A S : Tools!Cardinality(S) = Cardinality(S)
  BY DEF Cardinality, Tools!Cardinality

\* Images are no more than what they are images of.
LEMMA ImageCount ==
  ASSUME NEW S, IsFiniteSet(S), NEW h
  PROVE  /\ IsFiniteSet({h[x] : x \in S}) /\ Cardinality({h[x] : x \in S}) <= Cardinality(S)
         /\ Cardinality({h[x] : x \in S}) \in Nat /\ Cardinality(S) \in Nat
<1> DEFINE T == {h[x] : x \in S}
<1> DEFINE f == [x \in S |-> h[x]]
<1>1. f \in Surjection(S, T)  BY DEF Surjection
<1> HIDE DEF f, T
<1>2. IsFiniteSet(T) /\ Cardinality(T) <= Cardinality(S)  BY <1>1, FS_Surjection
<1>3. Cardinality(T) \in Nat /\ Cardinality(S) \in Nat  BY <1>2, FS_CardinalityType
<1> QED BY <1>2, <1>3 DEF T

\* A list has no more elements than places.
LEMMA ListCount ==
  ASSUME NEW S, NEW s \in Seq(S)
  PROVE  /\ IsFiniteSet(ToSet(s)) /\ Cardinality(ToSet(s)) <= Len(s)
         /\ Cardinality(ToSet(s)) \in Nat /\ Len(s) \in Nat
<1>1. DOMAIN s = 1 .. Len(s) /\ Len(s) \in Nat  BY LenProperties
<1>2. IsFiniteSet(1 .. Len(s)) /\ Cardinality(1 .. Len(s)) = Len(s)
  <2>1. 1 \in Int /\ Len(s) \in Int /\ Len(s) - 1 + 1 = Len(s)  BY <1>1
  <2>2. IsFiniteSet(1 .. Len(s))
        /\ Cardinality(1 .. Len(s)) = IF 1 > Len(s) THEN 0 ELSE Len(s) - 1 + 1
    BY <2>1, FS_Interval
  <2> QED BY <1>1, <2>1, <2>2
<1> DEFINE T == {s[i] : i \in 1 .. Len(s)}
<1>3. ToSet(s) = T  BY <1>1 DEF ToSet
<1>4. IsFiniteSet(T) /\ Cardinality(T) <= Cardinality(1 .. Len(s)) /\ Cardinality(T) \in Nat
  BY <1>2, ImageCount
<1> HIDE DEF T
<1> QED BY <1>1, <1>2, <1>3, <1>4

\* There are finitely many property names, so an object has finitely many.
LEMMA NamesFinite ==
  ASSUME NEW schema, NEW path
  PROVE  /\ Tools!Names(schema, path) = {n \in PropNames : Append(path, n) \in DOMAIN schema}
         /\ IsFiniteSet(Tools!Names(schema, path))
         /\ Cardinality(Tools!Names(schema, path)) \in Nat
<1>1. Tools!Names(schema, path) = {n \in PropNames : Append(path, n) \in DOMAIN schema}
  BY SameSet DEF Tools!Names
<1>2. IsFiniteSet(PropNames)  BY ListCount, ConvertersAssumption DEF PropNames
<1>3. Tools!Names(schema, path) \subseteq PropNames  BY <1>1
<1>4. IsFiniteSet(Tools!Names(schema, path))  BY <1>2, <1>3, FS_Subset
<1> QED BY <1>1, <1>4, FS_CardinalityType

\* What is preserved at the root: all its names, or not too many of them.
LEMMA PreservedNames ==
  ASSUME NEW schema
  PROVE  /\ ToSet(Tools!Preserved(schema)) \subseteq Tools!Names(schema, <<>>)
         /\ ~Tools!Simplified(schema)
            => ToSet(Tools!Preserved(schema)) = Tools!Names(schema, <<>>)
         /\ Tools!Simplified(schema) => Cardinality(ToSet(Tools!Preserved(schema))) <= MaxPreserved
         /\ IsFiniteSet(ToSet(Tools!Preserved(schema)))
<1> DEFINE K == Tools!Names(schema, <<>>)
<1> DEFINE sorted == Tools!Where(Sorted, LAMBDA n : n \in Tools!Names(schema, <<>>))
<1>1. Sorted \in Seq(PropNames) /\ K \subseteq PropNames
  BY ConvertersAssumption, NamesFinite DEF PropNames
<1>2. sorted = Expanded(Keep(PropNames, K), Sorted)
  <2>1. \A i \in DOMAIN Sorted : Sorted[i] \in PropNames  BY <1>1, LenProperties, ElementOfSeq
  <2>2. sorted = Tools!FlattenSeq([i \in DOMAIN Sorted |-> IF Sorted[i] \in K THEN <<Sorted[i]>> ELSE <<>>])
    BY DEF Tools!Where, Tools!Each
  <2> HIDE DEF K
  <2>3. [i \in DOMAIN Sorted |-> IF Sorted[i] \in K THEN <<Sorted[i]>> ELSE <<>>]
        = Mapped(Keep(PropNames, K), Sorted)
    BY <2>1 DEF Mapped, Keep
  <2> QED BY <2>2, <2>3, SameFlat DEF Expanded
<1>3. Tools!Preserved(schema)
      = IF Tools!Simplified(schema) THEN SubSeq(sorted, 1, MaxPreserved) ELSE sorted
  BY DEF Tools!Preserved
<1>4. Tools!Simplified(schema) <=> Cardinality(K) > MaxProps
  BY SameCount DEF Tools!Simplified
<1>5. Cardinality(K) \in Nat /\ IsFiniteSet(K)  BY NamesFinite
<1> HIDE DEF sorted, K
<1>6. sorted \in Seq(PropNames \cap K) /\ ToSet(sorted) = K
  <2> DEFINE t == Expanded(Keep(PropNames, K), Sorted)
  <2>1. t \in Seq(PropNames \cap K) /\ ToSet(t) = ToSet(Sorted) \cap K  BY <1>1, Kept
  <2>2. sorted = t  BY <1>2
  <2> HIDE DEF t
  <2> QED BY <1>1, <2>1, <2>2 DEF PropNames
<1>7. CASE ~Tools!Simplified(schema)
  BY <1>3, <1>5, <1>6, <1>7 DEF K
<1>8. CASE Tools!Simplified(schema)
  <2> DEFINE few == SubSeq(sorted, 1, MaxPreserved)
  <2>1. Cardinality(K) <= Len(sorted) /\ Len(sorted) \in Nat
    BY <1>6, ListCount
  <2>2. MaxPreserved \in Nat /\ MaxPreserved <= Len(sorted) /\ MaxPreserved - 1 + 1 = MaxPreserved
    <3>1. MaxPreserved \in Nat /\ MaxProps \in Nat /\ MaxPreserved < MaxProps
      BY ConvertersAssumption
    <3>2. Cardinality(K) > MaxProps  BY <1>4, <1>8
    <3> QED BY <1>5, <2>1, <3>1, <3>2
  <2>3. \A i \in 1 .. MaxPreserved : sorted[i] \in K
    <3>1. \A i \in 1 .. MaxPreserved : i \in 1 .. Len(sorted)  BY <2>1, <2>2
    <3> QED BY <1>6, <3>1, ElementOfSeq
  <2>4. /\ few \in Seq(K) /\ Len(few) = IF 1 <= MaxPreserved THEN MaxPreserved - 1 + 1 ELSE 0
    <3>1. 1 \in Int /\ MaxPreserved \in Int  BY <2>2
    <3> QED BY <2>3, <3>1, SubSeqProperties
  <2> HIDE DEF few
  <2>5. Len(few) = MaxPreserved  BY <2>2, <2>4
  <2>6. ToSet(few) \subseteq K  BY <2>4, LenProperties, ElementOfSeq DEF ToSet
  <2>7. IsFiniteSet(ToSet(few)) /\ Cardinality(ToSet(few)) <= MaxPreserved
    BY <2>4, <2>5, ListCount
  <2>8. Tools!Preserved(schema) = few  BY <1>3, <1>8 DEF few
  <2> QED BY <1>8, <2>6, <2>7, <2>8 DEF K
<1> QED BY <1>7, <1>8

-----------------------------------------------------------------------------
(* The properties that transformParameters keeps.                          *)

\* The schemas that have a root.
Rooted(schema) == Tools!IsSchema(schema) /\ schema # <<>>

\* The facts about a client's schema, one by one.
LEMMA RootedSchema ==
  ASSUME NEW schema, Rooted(schema)
  PROVE  /\ DOMAIN schema \subseteq Paths /\ <<>> \in DOMAIN schema
         /\ \A p \in DOMAIN schema : schema[p] \in Tools!Nodes
         /\ schema[<<>>].type \notin {"union", "odd"}
         /\ \A p \in DOMAIN schema \ {<<>>} :
              Tools!Parent(p) \in DOMAIN schema /\ schema[Tools!Parent(p)].props
<1>1. /\ schema \in [DOMAIN schema -> Tools!Nodes] /\ DOMAIN schema \subseteq Seq(Tools!ToSet(Sorted))
      /\ <<>> \in DOMAIN schema /\ schema[<<>>].type \notin {"union", "odd"}
      /\ \A p \in DOMAIN schema \ {<<>>} :
           Tools!Parent(p) \in DOMAIN schema /\ schema[Tools!Parent(p)].props
  BY DEF Rooted, Tools!IsSchema
<1> QED BY <1>1, SameSet DEF Paths

Tried(schema) ==
  {p \in DOMAIN schema : Len(p) = 1 => p[1] \in ToSet(Tools!Preserved(schema))}

KeptPaths(schema, last) ==
  {p \in last : \A i \in 1 .. Len(p) :
     SubSeq(p, 1, i) \in last /\ Tools!Opened(schema, SubSeq(p, 1, i - 1))}

\* The properties of an object that are kept, and the names they are sent with.
KeptNames(schema, path) ==
  IF path = <<>> THEN ToSet(Tools!Preserved(schema)) ELSE Tools!Names(schema, path)

SentNames(schema, path) ==
  {Tools!Clean(n) : n \in KeptNames(schema, path)}
    \cup (IF path = <<>> /\ Tools!Simplified(schema) THEN {"data"} ELSE {})

\* Of properties that get the same name exactly one is written last.
LEMMA LastAre ==
  ASSUME NEW schema, Rooted(schema), NEW last \in Tools!LastWritten(schema)
  PROVE  /\ last \subseteq Tried(schema) /\ last \subseteq Paths /\ <<>> \in last
         /\ \A p \in Tried(schema) : \E q \in last : q = p \/ Tools!Rivals(p, q)
         /\ \A p, q \in last : Tools!Rivals(p, q) => p = q
<1>1. /\ last \subseteq Tried(schema)
      /\ \A p \in Tried(schema) : \E q \in last : q = p \/ Tools!Rivals(p, q)
      /\ \A p, q \in last : Tools!Rivals(p, q) => p = q
  <2> DEFINE tried == {p \in DOMAIN schema :
                         Len(p) = 1 => p[1] \in Tools!ToSet(Tools!Preserved(schema))}
  <2>1. tried = Tried(schema)  BY SameSet DEF Tried
  <2>2. /\ last \in SUBSET tried
        /\ \A p \in tried : \E q \in last : q = p \/ Tools!Rivals(p, q)
        /\ \A p, q \in last : Tools!Rivals(p, q) => p = q
    BY DEF Tools!LastWritten
  <2> HIDE DEF tried
  <2> QED BY <2>1, <2>2
<1>2. <<>> \in last
  <2>1. <<>> \in Tried(schema)  BY RootedSchema DEF Tried
  <2> QED BY <1>1, <2>1 DEF Tools!Rivals
<1>3. last \subseteq Paths
  BY <1>1, RootedSchema DEF Tried
<1> QED BY <1>1, <1>2, <1>3

\* A path is kept if its beginning is, and opens to it.
LEMMA KeptStep ==
  ASSUME NEW schema, Rooted(schema), NEW last \in Tools!LastWritten(schema)
  PROVE  /\ <<>> \in KeptPaths(schema, last) /\ KeptPaths(schema, last) \subseteq last
         /\ \A p \in Paths, n \in PropNames :
              Append(p, n) \in KeptPaths(schema, last)
              <=> /\ p \in KeptPaths(schema, last) /\ Append(p, n) \in last
                  /\ Tools!Opened(schema, p)
<1>1. <<>> \in KeptPaths(schema, last)
  <2>1. <<>> \in last /\ 1 .. Len(<<>>) = {}  BY LastAre
  <2> QED BY <2>1 DEF KeptPaths
<1>2. KeptPaths(schema, last) \subseteq last
  BY DEF KeptPaths
<1>3. ASSUME NEW p \in Paths, NEW n \in PropNames
      PROVE  Append(p, n) \in KeptPaths(schema, last)
             <=> /\ p \in KeptPaths(schema, last) /\ Append(p, n) \in last
                 /\ Tools!Opened(schema, p)
  <2> DEFINE q == Append(p, n)
  <2>1. /\ Len(p) \in Nat /\ Len(q) = Len(p) + 1
        /\ \A i \in 0 .. Len(p) : SubSeq(q, 1, i) = SubSeq(p, 1, i)
        /\ SubSeq(q, 1, Len(p) + 1) = q /\ SubSeq(p, 1, Len(p)) = p /\ SubSeq(p, 1, 0) = <<>>
    BY PathEnd, PathBegin
  <2> HIDE DEF q
  <2> DEFINE good(r, i) == SubSeq(r, 1, i) \in last /\ Tools!Opened(schema, SubSeq(r, 1, i - 1))
  <2>2. \A i \in 1 .. Len(p) : good(q, i) <=> good(p, i)
    <3> TAKE i \in 1 .. Len(p)
    <3>1. i \in 0 .. Len(p) /\ i - 1 \in 0 .. Len(p)  BY <2>1
    <3> DEFINE j == i - 1
    <3>2. SubSeq(q, 1, i) = SubSeq(p, 1, i)  BY <2>1, <3>1
    <3>3. j \in 0 .. Len(p)  BY <3>1
    <3> HIDE DEF j
    <3>4. SubSeq(q, 1, j) = SubSeq(p, 1, j)  BY <2>1, <3>3
    <3> QED BY <3>2, <3>4 DEF j
  <2>3. good(q, Len(p) + 1) <=> q \in last /\ Tools!Opened(schema, p)
    <3> DEFINE j == Len(p) + 1 - 1
    <3>1. Len(p) \in 0 .. Len(p) /\ j = Len(p)  BY <2>1
    <3> HIDE DEF j
    <3>2. SubSeq(q, 1, j) = p  BY <2>1, <3>1
    <3>3. good(q, Len(p) + 1)
          <=> SubSeq(q, 1, Len(p) + 1) \in last /\ Tools!Opened(schema, SubSeq(q, 1, j))
      BY DEF j
    <3> HIDE DEF good
    <3>4. SubSeq(q, 1, Len(p) + 1) = q  BY <2>1
    <3> QED BY <3>2, <3>3, <3>4
  <2>4. (\A i \in 1 .. Len(p) : good(p, i)) => p \in last
    <3>1. CASE Len(p) = 0
      <4>1. p = <<>>  BY <3>1, EmptySeq DEF Paths
      <4> QED BY <4>1, LastAre
    <3>2. CASE Len(p) # 0
      <4>1. Len(p) \in 1 .. Len(p)  BY <2>1, <3>2
      <4> QED BY <2>1, <4>1
    <3> QED BY <3>1, <3>2
  <2>5. q \in KeptPaths(schema, last) <=> q \in last /\ \A i \in 1 .. Len(p) + 1 : good(q, i)
    BY <2>1 DEF KeptPaths
  <2>6. p \in KeptPaths(schema, last) <=> p \in last /\ \A i \in 1 .. Len(p) : good(p, i)
    BY DEF KeptPaths
  <2> HIDE DEF good
  <2>7. 1 .. Len(p) + 1 = 1 .. Len(p) \cup {Len(p) + 1}  BY <2>1
  <2> QED BY <2>2, <2>3, <2>4, <2>5, <2>6, <2>7 DEF q
<1> QED BY <1>1, <1>2, <1>3

\* No two kept paths are sent with the same names.
LEMMA KeptApart ==
  ASSUME NEW schema, Rooted(schema), NEW last \in Tools!LastWritten(schema)
  PROVE  \A p, q \in KeptPaths(schema, last) :
           Tools!CleanPath(p) = Tools!CleanPath(q) => p = q
<1> DEFINE kept == KeptPaths(schema, last)
<1>1. kept \subseteq Paths  BY KeptStep, LastAre
<1>2. /\ <<>> \in kept /\ kept \subseteq last
      /\ \A p \in Paths, n \in PropNames : Append(p, n) \in kept => p \in kept /\ Append(p, n) \in last
  BY KeptStep
<1> HIDE DEF kept
<1> DEFINE P == {p \in Paths : \A q \in kept :
                   p \in kept /\ Tools!CleanPath(p) = Tools!CleanPath(q) => p = q}
<1>3. <<>> \in P
  <2>1. <<>> \in Paths /\ Tools!CleanPath(<<>>) = <<>>  BY EmptySeq, CleanPaths DEF Paths
  <2>2. ASSUME NEW q \in kept, Tools!CleanPath(q) = <<>> PROVE q = <<>>
    <3>1. q \in Paths /\ Len(q) = 0  BY <1>1, <2>2, CleanPaths
    <3> QED BY <3>1, EmptySeq DEF Paths
  <2> QED BY <2>1, <2>2
<1>4. ASSUME NEW p \in P, NEW n \in PropNames PROVE Append(p, n) \in P
  <2>1. p \in Paths /\ \A q \in kept :
          p \in kept /\ Tools!CleanPath(p) = Tools!CleanPath(q) => p = q
    OBVIOUS
  <2> HIDE DEF P
  <2>2. ASSUME NEW q \in kept, Append(p, n) \in kept,
               Tools!CleanPath(Append(p, n)) = Tools!CleanPath(q)
        PROVE  Append(p, n) = q
    <3>1. q \in Paths  BY <1>1
    <3> DEFINE start == Tools!CleanPath(p)
    <3> DEFINE end == Tools!Clean(n)
    <3>2. /\ start \in Paths /\ end \in PropNames
          /\ Tools!CleanPath(Append(p, n)) = Append(start, end)
      BY <2>1, CleanPaths, CleanNames
    <3>3. q # <<>>
      BY <2>2, <3>2, CleanPaths, PathEnd
    <3>4. PICK r \in Paths, m \in PropNames : q = Append(r, m)
      BY <3>1, <3>3, PathSplit
    <3>5. /\ Tools!CleanPath(r) \in Paths /\ Tools!Clean(m) \in PropNames
          /\ Tools!CleanPath(q) = Append(Tools!CleanPath(r), Tools!Clean(m))
      BY <3>4, CleanPaths, CleanNames
    <3>6. Tools!CleanPath(r) = start /\ Tools!Clean(m) = end
      <4>1. Append(start, end) = Append(Tools!CleanPath(r), Tools!Clean(m))
        BY <2>2, <3>2, <3>5
      <4> HIDE DEF start, end
      <4>2. /\ Tools!Parent(Append(start, end)) = start
            /\ Tools!Last(Append(start, end)) = end
        BY <3>2, PathEnd
      <4>3. /\ Tools!Parent(Append(Tools!CleanPath(r), Tools!Clean(m))) = Tools!CleanPath(r)
            /\ Tools!Last(Append(Tools!CleanPath(r), Tools!Clean(m))) = Tools!Clean(m)
        BY <3>5, PathEnd
      <4> QED BY <4>1, <4>2, <4>3
    <3>7. p \in kept /\ r \in kept /\ Append(p, n) \in last /\ q \in last
      BY <1>2, <2>1, <2>2, <3>4
    <3>8. p = r
      BY <2>1, <3>6, <3>7
    <3>9. Tools!Rivals(Append(p, n), q)
      <4>1. /\ Append(p, n) # <<>> /\ Tools!Parent(Append(p, n)) = p /\ Tools!Last(Append(p, n)) = n
        BY <2>1, PathEnd
      <4>2. q # <<>> /\ Tools!Parent(q) = p /\ Tools!Last(q) = m
        BY <3>4, <3>8, PathEnd
      <4> QED BY <3>6, <4>1, <4>2 DEF Tools!Rivals
    <3> QED BY <3>7, <3>9, LastAre
  <2>3. Append(p, n) \in Paths  BY <2>1, PathEnd
  <2> QED BY <2>2, <2>3 DEF P
<1>5. \A p \in Paths : p \in P
  <2>1. P \in SUBSET Seq(PropNames)  BY DEF Paths
  <2>2. <<>> \in P /\ \A p \in P, n \in PropNames : Append(p, n) \in P  BY <1>3, <1>4
  <2> HIDE DEF P
  <2>3. \A p \in Seq(PropNames) : p \in P  BY <2>1, <2>2, ListInduction
  <2> QED BY <2>3 DEF Paths
<1> QED BY <1>1, <1>5 DEF kept

\* The paths that are made.
SentPaths(schema, last) == {Tools!CleanPath(p) : p \in KeptPaths(schema, last)}

Added(schema) == IF Tools!Simplified(schema) THEN {<<"data">>} ELSE {}

\* Every kept property is sent where its cleaned path says, and data if it is added.
LEMMA SentNode ==
  ASSUME NEW schema, Rooted(schema), NEW last \in Tools!LastWritten(schema)
  PROVE  /\ DOMAIN Tools!TransformParameters(schema, last)
              = SentPaths(schema, last) \cup Added(schema)
         /\ \A p \in KeptPaths(schema, last) :
              Tools!TransformParameters(schema, last)[Tools!CleanPath(p)]
                = Tools!Transform(schema, p)
         /\ \A w \in Added(schema) \ SentPaths(schema, last) :
              Tools!TransformParameters(schema, last)[w] = Tools!AString
<1> DEFINE kept == KeptPaths(schema, last)
<1> DEFINE paths == SentPaths(schema, last)
<1> DEFINE data == Added(schema)
<1>1. schema # <<>>  BY DEF Rooted
<1>2. Tools!TransformParameters(schema, last)
      = [q \in paths \cup data |->
           IF q \in paths
           THEN Tools!Transform(schema, CHOOSE p \in kept : Tools!CleanPath(p) = q)
           ELSE Tools!AString]
  BY <1>1 DEF Tools!TransformParameters, KeptPaths, SentPaths, Added
<1> DEFINE made == Tools!TransformParameters(schema, last)
<1>3. \A p, q \in kept : Tools!CleanPath(p) = Tools!CleanPath(q) => p = q
  BY KeptApart
<1>4. \A q : q \in paths <=> \E p \in kept : q = Tools!CleanPath(p)  BY DEF SentPaths
<1> HIDE DEF kept, paths, data, made
<1>5. DOMAIN made = paths \cup data  BY <1>2 DEF made
<1>6. ASSUME NEW p \in kept PROVE made[Tools!CleanPath(p)] = Tools!Transform(schema, p)
  <2> DEFINE w == Tools!CleanPath(p)
  <2> DEFINE origin == CHOOSE q \in kept : Tools!CleanPath(q) = w
  <2>1. origin = p
    <3>1. origin \in kept /\ Tools!CleanPath(origin) = w  OBVIOUS
    <3> HIDE DEF origin
    <3> QED BY <1>3, <3>1
  <2>2. w \in paths  BY <1>4
  <2> HIDE DEF w
  <2>3. made[w] = Tools!Transform(schema, origin)  BY <1>2, <2>2 DEF made
  <2> HIDE DEF origin
  <2> QED BY <2>1, <2>3 DEF w
<1>7. ASSUME NEW w \in data \ paths PROVE made[w] = Tools!AString
  BY <1>2 DEF made
<1> QED BY <1>5, <1>6, <1>7 DEF kept, paths, data, made

\* An object that is opened is sent with the cleaned names of its properties, all
\* of them; nothing else has properties.
LEMMA SentNamesAre ==
  ASSUME NEW schema, Rooted(schema), NEW last \in Tools!LastWritten(schema)
  PROVE  /\ \A p \in KeptPaths(schema, last) :
              Tools!Names(Tools!TransformParameters(schema, last), Tools!CleanPath(p))
                = IF Tools!Opened(schema, p) THEN SentNames(schema, p) ELSE {}
         /\ \A w \in Added(schema) \ SentPaths(schema, last) :
              Tools!Names(Tools!TransformParameters(schema, last), w) = {}
<1> DEFINE kept == KeptPaths(schema, last)
<1> DEFINE paths == SentPaths(schema, last)
<1> DEFINE data == Added(schema)
<1> DEFINE made == Tools!TransformParameters(schema, last)
<1>1. DOMAIN made = paths \cup data  BY SentNode
<1>2. \A q : q \in paths <=> \E p \in kept : q = Tools!CleanPath(p)  BY DEF SentPaths
<1>3. /\ <<>> \in kept /\ kept \subseteq last /\ kept \subseteq Paths
      /\ \A p \in Paths, n \in PropNames :
           Append(p, n) \in kept
           <=> p \in kept /\ Append(p, n) \in last /\ Tools!Opened(schema, p)
  BY KeptStep, LastAre
<1>4. \A p, q \in kept : Tools!CleanPath(p) = Tools!CleanPath(q) => p = q
  BY KeptApart
<1>5. /\ last \subseteq Tried(schema)
      /\ \A p \in Tried(schema) : \E q \in last : q = p \/ Tools!Rivals(p, q)
  BY LastAre
<1>6. ASSUME NEW p \in kept, NEW n \in PropNames, Tools!Opened(schema, p)
      PROVE  n \in KeptNames(schema, p) <=> Append(p, n) \in Tried(schema)
  <2>1. p \in Paths  BY <1>3
  <2> DEFINE q == Append(p, n)
  <2>2. Len(p) \in Nat /\ Len(q) = Len(p) + 1  BY <2>1, PathEnd
  <2>3. Tools!Names(schema, p) = {m \in PropNames : Append(p, m) \in DOMAIN schema}
    BY NamesFinite
  <2>4. CASE p = <<>>
    <3>1. Len(q) = 1 /\ q[1] = n  BY <2>4
    <3>2. ToSet(Tools!Preserved(schema)) \subseteq Tools!Names(schema, p)  BY <2>4, PreservedNames
    <3> HIDE DEF q
    <3>3. q \in Tried(schema) <=> q \in DOMAIN schema /\ n \in ToSet(Tools!Preserved(schema))
      BY <3>1 DEF Tried
    <3>4. n \in KeptNames(schema, p) <=> n \in ToSet(Tools!Preserved(schema))
      BY <2>4 DEF KeptNames
    <3>5. n \in ToSet(Tools!Preserved(schema)) => q \in DOMAIN schema
      BY <2>3, <3>2 DEF q
    <3> QED BY <3>3, <3>4, <3>5 DEF q
  <2>5. CASE p # <<>>
    <3>1. Len(q) # 1
      <4>1. Len(p) # 0  BY <2>1, <2>5, EmptySeq DEF Paths
      <4> QED BY <2>2, <4>1
    <3> HIDE DEF q
    <3>2. q \in Tried(schema) <=> q \in DOMAIN schema  BY <3>1 DEF Tried
    <3>3. n \in KeptNames(schema, p) <=> q \in DOMAIN schema
      BY <2>3, <2>5 DEF KeptNames, q
    <3> QED BY <3>2, <3>3 DEF q
  <2> QED BY <2>4, <2>5
<1>7. \A p \in kept : KeptNames(schema, p) \subseteq PropNames
  BY NamesFinite, PreservedNames DEF KeptNames
<1> HIDE DEF kept, paths, data, made
\* A name that was written last stands for every name that becomes the same.
<1>8. ASSUME NEW p \in kept, Tools!Opened(schema, p), NEW n \in KeptNames(schema, p)
      PROVE  Append(Tools!CleanPath(p), Tools!Clean(n)) \in paths
  <2>1. p \in Paths /\ n \in PropNames  BY <1>3, <1>7
  <2>2. Append(p, n) \in Tried(schema)  BY <1>6, <1>8, <2>1
  <2>3. PICK q \in last : q = Append(p, n) \/ Tools!Rivals(Append(p, n), q)
    BY <1>5, <2>2
  <2>4. \E m \in PropNames : q = Append(p, m) /\ Tools!Clean(m) = Tools!Clean(n)
    <3>1. CASE q = Append(p, n)  BY <2>1, <3>1
    <3>2. CASE Tools!Rivals(Append(p, n), q)
      <4>1. q \in Paths /\ q # <<>>  BY <3>2, LastAre DEF Tools!Rivals
      <4>2. PICK r \in Paths, m \in PropNames : q = Append(r, m)  BY <4>1, PathSplit
      <4>3. Tools!Parent(q) = r /\ Tools!Last(q) = m  BY <4>2, PathEnd
      <4>4. Tools!Parent(Append(p, n)) = p /\ Tools!Last(Append(p, n)) = n  BY <2>1, PathEnd
      <4> QED BY <3>2, <4>2, <4>3, <4>4 DEF Tools!Rivals
    <3> QED BY <2>3, <3>1, <3>2
  <2>5. PICK m \in PropNames : q = Append(p, m) /\ Tools!Clean(m) = Tools!Clean(n)
    BY <2>4
  <2>6. q \in kept  BY <1>3, <1>8, <2>1, <2>5
  <2>7. Tools!CleanPath(q) = Append(Tools!CleanPath(p), Tools!Clean(n))
    BY <2>1, <2>5, CleanPaths
  <2> QED BY <1>2, <2>6, <2>7
<1>9. ASSUME NEW p \in kept, NEW m \in PropNames, Append(Tools!CleanPath(p), m) \in paths
      PROVE  Tools!Opened(schema, p) /\ \E n \in KeptNames(schema, p) : m = Tools!Clean(n)
  <2>1. PICK q \in kept : Tools!CleanPath(q) = Append(Tools!CleanPath(p), m)  BY <1>2, <1>9
  <2>2. p \in Paths /\ q \in Paths /\ Tools!CleanPath(p) \in Paths  BY <1>3, CleanPaths
  <2>3. q # <<>>  BY <2>1, <2>2, CleanPaths, PathEnd
  <2>4. PICK r \in Paths, n \in PropNames : q = Append(r, n)  BY <2>2, <2>3, PathSplit
  <2>5. /\ Tools!CleanPath(q) = Append(Tools!CleanPath(r), Tools!Clean(n))
        /\ Tools!CleanPath(r) \in Paths /\ Tools!Clean(n) \in PropNames
    BY <2>4, CleanPaths, CleanNames
  <2>6. Tools!CleanPath(r) = Tools!CleanPath(p) /\ Tools!Clean(n) = m
    <3>1. Append(Tools!CleanPath(p), m) = Append(Tools!CleanPath(r), Tools!Clean(n))
      BY <2>1, <2>5
    <3>2. /\ Tools!Parent(Append(Tools!CleanPath(p), m)) = Tools!CleanPath(p)
          /\ Tools!Last(Append(Tools!CleanPath(p), m)) = m
      BY <2>2, PathEnd
    <3>3. /\ Tools!Parent(Append(Tools!CleanPath(r), Tools!Clean(n))) = Tools!CleanPath(r)
          /\ Tools!Last(Append(Tools!CleanPath(r), Tools!Clean(n))) = Tools!Clean(n)
      BY <2>5, PathEnd
    <3> QED BY <3>1, <3>2, <3>3
  <2>7. r \in kept /\ q \in last /\ Tools!Opened(schema, r)  BY <1>3, <2>4
  <2>8. r = p  BY <1>4, <2>6, <2>7
  <2>9. n \in KeptNames(schema, p)
    <3>1. Append(p, n) \in Tried(schema)  BY <1>5, <2>4, <2>7, <2>8
    <3> QED BY <1>6, <2>7, <2>8, <3>1
  <2> QED BY <2>6, <2>7, <2>8, <2>9
<1>10. ASSUME NEW p \in kept
       PROVE  Tools!Names(made, Tools!CleanPath(p))
                = IF Tools!Opened(schema, p) THEN SentNames(schema, p) ELSE {}
  <2> DEFINE w == Tools!CleanPath(p)
  <2>1. p \in Paths /\ w \in Paths /\ (w = <<>> <=> p = <<>>)
    <3>1. p \in Paths /\ w \in Paths /\ Len(w) = Len(p)  BY <1>3, CleanPaths
    <3> QED BY <3>1, EmptySeq DEF Paths
  <2>2. Tools!Names(made, w) = {m \in PropNames : Append(w, m) \in paths \cup data}
    BY <1>1, NamesFinite
  <2>3. Tools!Opened(schema, <<>>)  BY DEF Tools!Opened
  <2>4. \A m \in PropNames :
          Append(w, m) \in data <=> w = <<>> /\ Tools!Simplified(schema) /\ m = "data"
    <3> SUFFICES ASSUME NEW m \in PropNames
                 PROVE  Append(w, m) = <<"data">> <=> w = <<>> /\ m = "data"
      BY DEF data, Added
    <3>1. <<"data">> = Append(<<>>, "data") /\ <<>> \in Paths /\ "data" \in PropNames
      BY CleanNames DEF Paths
    <3>2. Tools!Parent(Append(w, m)) = w /\ Tools!Last(Append(w, m)) = m
      BY <2>1, PathEnd
    <3>3. /\ Tools!Parent(Append(<<>>, "data")) = <<>>
          /\ Tools!Last(Append(<<>>, "data")) = "data"
      BY <3>1, PathEnd
    <3> QED BY <3>1, <3>2, <3>3
  <2>5. \A m \in PropNames :
          Append(w, m) \in paths
          <=> Tools!Opened(schema, p) /\ \E n \in KeptNames(schema, p) : m = Tools!Clean(n)
    BY <1>8, <1>9
  <2>6. \A n \in KeptNames(schema, p) : Tools!Clean(n) \in PropNames
    BY <1>7, CleanNames
  <2>7. "data" \in PropNames  BY CleanNames
  <2> HIDE DEF w
  <2>8. CASE Tools!Opened(schema, p)
    <3> DEFINE own == {Tools!Clean(n) : n \in KeptNames(schema, p)}
    <3> DEFINE more == IF p = <<>> /\ Tools!Simplified(schema) THEN {"data"} ELSE {}
    <3>1. \A m \in PropNames : Append(w, m) \in paths <=> m \in own
      BY <2>5, <2>8
    <3>2. \A m \in PropNames : Append(w, m) \in data <=> m \in more
      BY <2>1, <2>4
    <3>3. own \subseteq PropNames /\ more \subseteq PropNames  BY <2>6, <2>7
    <3>4. SentNames(schema, p) = own \cup more  BY DEF SentNames
    <3> HIDE DEF own, more
    <3>5. Tools!Names(made, w) = own \cup more  BY <2>2, <3>1, <3>2, <3>3
    <3> QED BY <2>8, <3>4, <3>5 DEF w
  <2>9. CASE ~Tools!Opened(schema, p)
    <3>1. p # <<>>  BY <2>3, <2>9
    <3>2. \A m \in PropNames : Append(w, m) \notin data  BY <2>1, <2>4, <3>1
    <3>3. \A m \in PropNames : Append(w, m) \notin paths  BY <2>5, <2>9
    <3>4. Tools!Names(made, w) = {}  BY <2>2, <3>2, <3>3
    <3> QED BY <2>9, <3>4 DEF w
  <2> QED BY <2>8, <2>9 DEF w
<1>11. ASSUME NEW w \in data \ paths PROVE Tools!Names(made, w) = {}
  <2>1. w = Append(<<>>, "data") /\ <<>> \in Paths /\ "data" \in PropNames
    BY CleanNames DEF data, Added, Paths
  <2>2. w \in Paths /\ w # <<>>  BY <2>1, PathEnd
  <2>3. Tools!Names(made, w) = {m \in PropNames : Append(w, m) \in paths \cup data}
    BY <1>1, NamesFinite
  <2>4. ASSUME NEW m \in PropNames PROVE Append(w, m) \notin paths \cup data
    <3>1. Append(w, m) \notin data
      <4>1. Tools!Parent(Append(w, m)) = w  BY <2>2, PathEnd
      <4>2. Tools!Parent(w) = <<>>  BY <2>1, PathEnd
      <4>3. \A d \in data : d = w  BY DEF data, Added
      <4> QED BY <2>2, <4>1, <4>2, <4>3
    <3>2. ASSUME Append(w, m) \in paths PROVE FALSE
      <4>1. PICK q \in kept : Tools!CleanPath(q) = Append(w, m)  BY <1>2, <3>2
      <4>2. q \in Paths  BY <1>3
      <4>3. q # <<>>  BY <2>2, <4>1, CleanPaths, PathEnd
      <4>4. PICK r \in Paths, n \in PropNames : q = Append(r, n)  BY <4>2, <4>3, PathSplit
      <4>5. /\ Tools!CleanPath(q) = Append(Tools!CleanPath(r), Tools!Clean(n))
            /\ Tools!CleanPath(r) \in Paths /\ Tools!Clean(n) \in PropNames
        BY <4>4, CleanPaths, CleanNames
      <4>6. Tools!CleanPath(r) = w
        <5>1. Tools!Parent(Append(w, m)) = w  BY <2>2, PathEnd
        <5>2. Tools!Parent(Append(Tools!CleanPath(r), Tools!Clean(n))) = Tools!CleanPath(r)
          BY <4>5, PathEnd
        <5> QED BY <4>1, <4>5, <5>1, <5>2
      <4>7. r \in kept  BY <1>3, <4>4
      <4> QED BY <1>2, <4>6, <4>7
    <3> QED BY <3>1, <3>2
  <2> QED BY <2>3, <2>4
<1> QED BY <1>10, <1>11 DEF kept, paths, data, made

\* What is required is cleaned like the properties, and must be one of them.
LEMMA RequiredAre ==
  ASSUME NEW r \in Seq(PropNames), NEW K
  PROVE  ToSet(Tools!ValidRequired(r, K)) = {Tools!Clean(n) : n \in ToSet(r)} \cap K
<1> DEFINE h == [n \in PropNames |-> Tools!Clean(n)]
<1> DEFINE t == [i \in DOMAIN r |-> Tools!Clean(r[i])]
<1>1. DOMAIN r = 1 .. Len(r) /\ \A i \in DOMAIN r : r[i] \in PropNames
  BY LenProperties, ElementOfSeq
<1>2. Maps(h, PropNames, PropNames)  BY CleanNames DEF Maps
<1>3. t = Mapped(h, r)  BY <1>1 DEF Mapped
<1>4. t \in Seq(PropNames)
  <2> HIDE DEF h, t
  <2> QED BY <1>2, <1>3, MappedList
<1>5. ToSet(t) = {Tools!Clean(n) : n \in ToSet(r)}
  BY DEF ToSet
<1>6. Tools!ValidRequired(r, K) = Tools!Where(t, LAMBDA n : n \in K)
  BY DEF Tools!ValidRequired
<1> HIDE DEF h, t
<1>7. Tools!Where(t, LAMBDA n : n \in K) = Expanded(Keep(PropNames, K), t)
  <2>1. \A i \in DOMAIN t : t[i] \in PropNames  BY <1>4, LenProperties, ElementOfSeq
  <2>2. Tools!Where(t, LAMBDA n : n \in K)
        = Tools!FlattenSeq([i \in DOMAIN t |-> IF t[i] \in K THEN <<t[i]>> ELSE <<>>])
    BY DEF Tools!Where, Tools!Each
  <2>3. [i \in DOMAIN t |-> IF t[i] \in K THEN <<t[i]>> ELSE <<>>] = Mapped(Keep(PropNames, K), t)
    BY <2>1 DEF Mapped, Keep
  <2> QED BY <2>2, <2>3, SameFlat DEF Expanded
<1>8. ToSet(Expanded(Keep(PropNames, K), t)) = ToSet(t) \cap K
  <2> DEFINE u == Expanded(Keep(PropNames, K), t)
  <2>1. u \in Seq(PropNames \cap K) /\ ToSet(u) = ToSet(t) \cap K  BY <1>4, Kept
  <2> QED BY <2>1
<1> QED BY <1>5, <1>6, <1>7, <1>8

\* What a property that is kept is sent as.
LEMMA TransformIs ==
  ASSUME NEW schema, NEW p
  PROVE  LET object == Tools!Node("object", TRUE,
                         Tools!ValidRequired(schema[p].required, SentNames(schema, p)))
             node == schema[p]
             made == Tools!Transform(schema, p)
         IN /\ p = <<>> => made = [object EXCEPT !.type = node.type, !.props = node.props]
            /\ p # <<>> /\ Tools!Opened(schema, p) => made = object
            /\ p # <<>> /\ ~Tools!Opened(schema, p) =>
                 \/ /\ node.type = "array"
                    /\ made = [Tools!Node("array", FALSE, <<>>) EXCEPT
                                 !.items = IF node.items = "" THEN "string" ELSE node.items]
                 \/ /\ node.type \notin {"object", "array", "union", "odd", ""}
                    /\ made = [Tools!Node(node.type, FALSE, <<>>) EXCEPT
                                 !.constraints = node.constraints \cap Copied]
                 \/ /\ node.type = ""
                    /\ made = [Tools!AString EXCEPT !.constraints = node.constraints \cap Copied]
                 \/ /\ Tools!TooDeep(p) \/ node.type \in {"object", "union", "odd"}
                    /\ made = Tools!AString
<1> DEFINE object == Tools!Node("object", TRUE,
                       Tools!ValidRequired(schema[p].required, SentNames(schema, p)))
<1> DEFINE node == schema[p]
<1> DEFINE made == Tools!Transform(schema, p)
<1> DEFINE kept == IF p = <<>> THEN Tools!ToSet(Tools!Preserved(schema)) ELSE Tools!Names(schema, p)
<1> DEFINE all == {Tools!Clean(n) : n \in kept} \cup (IF p = <<>> /\ Tools!Simplified(schema)
                                                      THEN {"data"} ELSE {})
<1>1. all = SentNames(schema, p)
  <2>1. kept = KeptNames(schema, p)  BY SameSet DEF KeptNames
  <2> HIDE DEF kept
  <2> QED BY <2>1 DEF SentNames
<1> DEFINE whole == Tools!Node("object", TRUE, Tools!ValidRequired(node.required, all))
<1>2. made =
        CASE p = <<>> -> [whole EXCEPT !.type = node.type, !.props = node.props]
          [] p # <<>> /\ Tools!Opened(schema, p) -> whole
          [] p # <<>> /\ ~Tools!TooDeep(p) /\ node.type = "array" ->
               [Tools!Node("array", FALSE, <<>>) EXCEPT
                  !.items = IF node.items = "" THEN "string" ELSE node.items]
          [] p # <<>> /\ ~Tools!TooDeep(p)
             /\ node.type \notin {"object", "array", "union", "odd", ""} ->
               [Tools!Node(node.type, FALSE, <<>>) EXCEPT !.constraints = node.constraints \cap Copied]
          [] p # <<>> /\ ~Tools!TooDeep(p) /\ node.type = "" ->
               [Tools!AString EXCEPT !.constraints = node.constraints \cap Copied]
          [] OTHER -> Tools!AString
  BY DEF Tools!Transform
<1>3. whole = object  BY <1>1
<1>4. Tools!Opened(schema, p) /\ p # <<>> => node.type = "object" /\ ~Tools!TooDeep(p)
  BY DEF Tools!Opened
<1> DEFINE rootly == [whole EXCEPT !.type = node.type, !.props = node.props]
<1> DEFINE arrayly == [Tools!Node("array", FALSE, <<>>) EXCEPT
                         !.items = IF node.items = "" THEN "string" ELSE node.items]
<1> DEFINE plainly == [Tools!Node(node.type, FALSE, <<>>) EXCEPT
                         !.constraints = node.constraints \cap Copied]
<1> DEFINE barely == [Tools!AString EXCEPT !.constraints = node.constraints \cap Copied]
<1> DEFINE opened == Tools!Opened(schema, p)
<1> DEFINE type == node.type
<1> DEFINE deep == Tools!TooDeep(p)
<1>5. made = CASE p = <<>> -> rootly
               [] p # <<>> /\ opened -> whole
               [] p # <<>> /\ ~deep /\ type = "array" -> arrayly
               [] p # <<>> /\ ~deep /\ type \notin {"object", "array", "union", "odd", ""} -> plainly
               [] p # <<>> /\ ~deep /\ type = "" -> barely
               [] OTHER -> Tools!AString
  BY <1>2
<1>6. opened /\ p # <<>> => type = "object" /\ ~deep  BY <1>4
<1> HIDE DEF made, rootly, whole, arrayly, plainly, barely, opened, type, deep, object
<1>7. p = <<>> => made = rootly  BY <1>5
<1>8. p # <<>> /\ opened => made = whole  BY <1>5, <1>6
<1>9. p # <<>> /\ ~opened =>
        \/ type = "array" /\ made = arrayly
        \/ type \notin {"object", "array", "union", "odd", ""} /\ made = plainly
        \/ type = "" /\ made = barely
        \/ (deep \/ type \in {"object", "union", "odd"}) /\ made = Tools!AString
  BY <1>5
<1> QED
  BY <1>3, <1>7, <1>8, <1>9
     DEF made, rootly, arrayly, plainly, barely, opened, type, deep, object

\* Not too many properties are sent of an object.
LEMMA SentCount ==
  ASSUME NEW schema, NEW p, Tools!Opened(schema, p)
  PROVE  /\ IsFiniteSet(SentNames(schema, p))
         /\ Cardinality(SentNames(schema, p)) <= MaxProps
<1> DEFINE K == KeptNames(schema, p)
<1> DEFINE h == [n \in K |-> Tools!Clean(n)]
<1> DEFINE image == {h[n] : n \in K}
<1> DEFINE simplified == p = <<>> /\ Tools!Simplified(schema)
<1>1. SentNames(schema, p) = image \cup (IF simplified THEN {"data"} ELSE {})
  BY DEF SentNames
<1>2. MaxProps \in Nat /\ MaxPreserved \in Nat /\ MaxPreserved < MaxProps
  BY ConvertersAssumption
<1>3. /\ IsFiniteSet(K)
      /\ Cardinality(K) <= IF simplified THEN MaxPreserved ELSE MaxProps
  <2>1. CASE p = <<>>
    <3>1. /\ Tools!Simplified(schema) <=> Cardinality(Tools!Names(schema, <<>>)) > MaxProps
          /\ Cardinality(Tools!Names(schema, <<>>)) \in Nat
      BY NamesFinite, SameCount DEF Tools!Simplified
    <3>2. K = ToSet(Tools!Preserved(schema))  BY <2>1 DEF KeptNames
    <3> HIDE DEF K
    <3>3. CASE Tools!Simplified(schema)
      BY <2>1, <3>2, <3>3, PreservedNames
    <3>4. CASE ~Tools!Simplified(schema)
      <4>1. K = Tools!Names(schema, <<>>)  BY <3>2, <3>4, PreservedNames
      <4>2. IsFiniteSet(Tools!Names(schema, <<>>))  BY NamesFinite
      <4>3. Cardinality(Tools!Names(schema, <<>>)) <= MaxProps  BY <1>2, <3>1, <3>4
      <4>4. ~simplified  BY <3>4
      <4> HIDE DEF simplified
      <4> QED BY <4>1, <4>2, <4>3, <4>4
    <3> QED BY <3>3, <3>4
  <2>2. CASE p # <<>>
    <3>1. K = Tools!Names(schema, p)  BY <2>2 DEF KeptNames
    <3>2. Tools!Cardinality(Tools!Names(schema, p)) <= MaxProps  BY <2>2 DEF Tools!Opened
    <3>3. Cardinality(Tools!Names(schema, p)) <= MaxProps  BY <3>2, SameCount
    <3>4. IsFiniteSet(Tools!Names(schema, p))  BY NamesFinite
    <3>5. ~simplified  BY <2>2
    <3> HIDE DEF simplified, K
    <3> QED BY <3>1, <3>3, <3>4, <3>5
  <2> QED BY <2>1, <2>2
<1> HIDE DEF K
<1>4. /\ IsFiniteSet(image) /\ Cardinality(image) <= Cardinality(K)
      /\ Cardinality(image) \in Nat /\ Cardinality(K) \in Nat
  BY <1>3, ImageCount
<1> HIDE DEF image, simplified
<1>5. CASE simplified
  <2>1. /\ IsFiniteSet(image \cup {"data"})
        /\ \/ Cardinality(image \cup {"data"}) = Cardinality(image)
           \/ Cardinality(image \cup {"data"}) = Cardinality(image) + 1
    BY <1>4, FS_AddElement
  <2>2. SentNames(schema, p) = image \cup {"data"}  BY <1>1, <1>5
  <2>3. Cardinality(K) <= MaxPreserved  BY <1>3, <1>5
  <2> QED BY <1>2, <1>4, <2>1, <2>2, <2>3
<1>6. CASE ~simplified
  <2>1. SentNames(schema, p) = image  BY <1>1, <1>6
  <2>2. Cardinality(K) <= MaxProps  BY <1>3, <1>6
  <2> QED BY <1>2, <1>4, <2>1, <2>2
<1> QED BY <1>5, <1>6

\* A path that is kept is not too long.
LEMMA KeptLength ==
  ASSUME NEW schema, Rooted(schema), NEW last \in Tools!LastWritten(schema),
         NEW p \in KeptPaths(schema, last)
  PROVE  Len(p) \in Nat /\ Len(p) <= MaxNesting + 2
<1>1. p \in Paths /\ MaxNesting \in Nat  BY KeptStep, LastAre, ConvertersAssumption
<1>2. CASE p = <<>>
  BY <1>1, <1>2
<1>3. CASE p # <<>>
  <2>1. PICK q \in Paths, n \in PropNames : p = Append(q, n)  BY <1>1, <1>3, PathSplit
  <2>2. Tools!Opened(schema, q)  BY <2>1, KeptStep
  <2>3. Len(p) = Len(q) + 1 /\ Len(q) \in Nat  BY <2>1, PathEnd
  <2>4. CASE q = <<>>  BY <1>1, <2>1, <2>4
  <2>5. CASE q # <<>>
    <3>1. ~(Len(q) - 1 > MaxNesting)  BY <2>2, <2>5 DEF Tools!Opened, Tools!TooDeep
    <3> QED BY <1>1, <2>3, <3>1
  <2> QED BY <2>4, <2>5
<1> QED BY <1>2, <1>3

\* The fields of what is sent.
LEMMA TransformFields ==
  ASSUME NEW schema, NEW p
  PROVE  /\ Tools!Transform(schema, p).meta = {}
         /\ p = <<>> =>
              Tools!Transform(schema, p).type = schema[p].type /\ Tools!Transform(schema, p).props = schema[p].props
         /\ p # <<>> /\ Tools!Opened(schema, p) =>
              Tools!Transform(schema, p).type = "object" /\ Tools!Transform(schema, p).props = TRUE
         /\ p = <<>> \/ Tools!Opened(schema, p) =>
              Tools!Transform(schema, p).required
                = Tools!ValidRequired(schema[p].required, SentNames(schema, p))
         /\ p # <<>> /\ ~Tools!Opened(schema, p) =>
              /\ Tools!Transform(schema, p).required = <<>>
              /\ Tools!Transform(schema, p).type \notin {"union", "odd"}
         /\ p # <<>> /\ ~Tools!Opened(schema, p) /\ ~Tools!TooDeep(p)
            /\ schema[p].type \notin {"object", "union", "odd", ""} =>
              /\ Tools!Transform(schema, p).type = schema[p].type
              /\ schema[p].type = "array" =>
                   Tools!Transform(schema, p).items
                     = IF schema[p].items = "" THEN "string" ELSE schema[p].items
              /\ schema[p].type # "array" =>
                   Tools!Transform(schema, p).constraints = schema[p].constraints \cap Copied
<1> DEFINE made == Tools!Transform(schema, p)
<1> DEFINE node == schema[p]
<1> DEFINE required == Tools!ValidRequired(node.required, SentNames(schema, p))
<1> DEFINE object == Tools!Node("object", TRUE, required)
<1> DEFINE opened == Tools!Opened(schema, p)
<1> DEFINE deep == Tools!TooDeep(p)
<1>1. /\ p = <<>> => made = [object EXCEPT !.type = node.type, !.props = node.props]
      /\ p # <<>> /\ opened => made = object
      /\ p # <<>> /\ ~opened =>
           \/ /\ node.type = "array"
              /\ made = [Tools!Node("array", FALSE, <<>>) EXCEPT
                           !.items = IF node.items = "" THEN "string" ELSE node.items]
           \/ /\ node.type \notin {"object", "array", "union", "odd", ""}
              /\ made = [Tools!Node(node.type, FALSE, <<>>) EXCEPT
                           !.constraints = node.constraints \cap Copied]
           \/ /\ node.type = ""
              /\ made = [Tools!AString EXCEPT !.constraints = node.constraints \cap Copied]
           \/ /\ deep \/ node.type \in {"object", "union", "odd"}
              /\ made = Tools!AString
  BY TransformIs
<1> HIDE DEF made, node, required, opened, deep
<1> USE DEF Tools!Node, Tools!AString
<1>2. CASE p = <<>>
  <2>1. made = [object EXCEPT !.type = node.type, !.props = node.props]  BY <1>1, <1>2
  <2>2. object = [type |-> "object", props |-> TRUE, required |-> required, items |-> "",
                  constraints |-> {}, meta |-> {}]
    OBVIOUS
  <2> HIDE DEF object
  <2>3. made = [type |-> node.type, props |-> node.props, required |-> required, items |-> "",
                constraints |-> {}, meta |-> {}]
    BY <2>1, <2>2
  <2>4. made.meta = {} /\ made.type = node.type /\ made.required = required
    BY <2>3
  <2>5. made.props = node.props
    BY <2>3
  <2> QED BY <1>2, <2>4, <2>5 DEF made, node, required
<1>3. CASE p # <<>> /\ opened
  <2>1. made = object  BY <1>1, <1>3
  <2>2. /\ made.meta = {} /\ made.type = "object" /\ made.props = TRUE
        /\ made.required = required
    BY <2>1
  <2> QED BY <1>3, <2>2 DEF made, node, required, opened
<1>4. CASE p # <<>> /\ ~opened
  <2> DEFINE Good ==
        /\ made.meta = {} /\ made.required = <<>> /\ made.type \notin {"union", "odd"}
        /\ ~deep /\ node.type \notin {"object", "union", "odd", ""} =>
             /\ made.type = node.type
             /\ node.type = "array" =>
                  made.items = IF node.items = "" THEN "string" ELSE node.items
             /\ node.type # "array" => made.constraints = node.constraints \cap Copied
  <2>1. CASE /\ node.type = "array"
             /\ made = [Tools!Node("array", FALSE, <<>>) EXCEPT
                          !.items = IF node.items = "" THEN "string" ELSE node.items]
    <3> Good  BY <2>1
    <3> QED BY <1>4 DEF made, node, opened, deep
  <2>2. CASE /\ node.type \notin {"object", "array", "union", "odd", ""}
             /\ made = [Tools!Node(node.type, FALSE, <<>>) EXCEPT
                          !.constraints = node.constraints \cap Copied]
    <3> Good  BY <2>2
    <3> QED BY <1>4 DEF made, node, opened, deep
  <2>3. CASE /\ node.type = ""
             /\ made = [Tools!AString EXCEPT !.constraints = node.constraints \cap Copied]
    <3> Good  BY <2>3
    <3> QED BY <1>4 DEF made, node, opened, deep
  <2>4. CASE (deep \/ node.type \in {"object", "union", "odd"}) /\ made = Tools!AString
    <3>1. made.meta = {} /\ made.required = <<>> /\ made.type = "string"  BY <2>4
    <3>2. ~(~deep /\ node.type \notin {"object", "union", "odd", ""})  BY <2>4
    <3> Good  BY <3>1, <3>2
    <3> QED BY <1>4 DEF made, node, opened, deep
  <2> QED BY <1>1, <1>4, <2>1, <2>2, <2>3, <2>4
<1> QED BY <1>2, <1>3, <1>4 DEF made, opened

\* The node at path w of a schema that upstream can use.
UsableAt(made, w) ==
  /\ w # <<>> => Tools!Parent(w) \in DOMAIN made /\ made[Tools!Parent(w)].props
  /\ \A j \in DOMAIN w : Tools!Valid(w[j])
  /\ Tools!ToSet(made[w].required) \subseteq Tools!Names(made, w)
  /\ Tools!Cardinality(Tools!Names(made, w)) <= MaxProps /\ Len(w) <= MaxNesting + 2
  /\ made[w].type \notin {"union", "odd"} /\ made[w].meta = {}

\* The fields of a client's node.
LEMMA NodeIs ==
  ASSUME NEW node \in Tools!Nodes
  PROVE  node.required \in Seq(PropNames) /\ node.props \in BOOLEAN
  BY SameSet DEF Tools!Nodes

\* Paths are sent with valid names.
LEMMA CleanValid ==
  \A p \in Paths : \A j \in DOMAIN Tools!CleanPath(p) : Tools!Valid(Tools!CleanPath(p)[j])
<1> SUFFICES ASSUME NEW p \in Paths, NEW j \in DOMAIN Tools!CleanPath(p)
             PROVE  Tools!Valid(Tools!CleanPath(p)[j])
  OBVIOUS
<1>1. j \in DOMAIN p /\ Tools!CleanPath(p)[j] = Tools!Clean(p[j])  BY DEF Tools!CleanPath
<1>2. p[j] \in PropNames  BY <1>1, LenProperties, ElementOfSeq DEF Paths
<1> QED BY <1>1, <1>2, CleanNames

\* Of each property that is kept.
LEMMA KeptUsable ==
  ASSUME NEW schema, Rooted(schema), NEW last \in Tools!LastWritten(schema),
         NEW p \in KeptPaths(schema, last)
  PROVE  UsableAt(Tools!TransformParameters(schema, last), Tools!CleanPath(p))
<1> DEFINE made == Tools!TransformParameters(schema, last)
<1> DEFINE w == Tools!CleanPath(p)
<1> DEFINE node == schema[p]
<1>1. /\ p \in Paths /\ p \in DOMAIN schema /\ node \in Tools!Nodes
      /\ p = <<>> => node.type \notin {"union", "odd"}
  BY KeptStep, LastAre, RootedSchema DEF Tried
<1>2. w \in Paths /\ Len(w) = Len(p)  BY <1>1, CleanPaths
<1>3. made[w] = Tools!Transform(schema, p)  BY SentNode
<1>4. Tools!Names(made, w) = IF Tools!Opened(schema, p) THEN SentNames(schema, p) ELSE {}
  BY SentNamesAre
<1>5. p = <<>> => Tools!Opened(schema, p)  BY DEF Tools!Opened
<1>6. node.required \in Seq(PropNames)  BY <1>1, NodeIs
<1>7. w # <<>> => Tools!Parent(w) \in DOMAIN made /\ made[Tools!Parent(w)].props
  <2> HAVE w # <<>>
  <2>1. p # <<>>  BY CleanPaths
  <2>2. PICK q \in Paths, n \in PropNames : p = Append(q, n)  BY <1>1, <2>1, PathSplit
  <2>3. q \in KeptPaths(schema, last) /\ Tools!Opened(schema, q)  BY <2>2, KeptStep
  <2>4. Tools!Parent(w) = Tools!CleanPath(q)
    <3>1. /\ w = Append(Tools!CleanPath(q), Tools!Clean(n))
          /\ Tools!CleanPath(q) \in Paths /\ Tools!Clean(n) \in PropNames
      BY <2>2, CleanPaths, CleanNames
    <3> HIDE DEF w
    <3> QED BY <3>1, PathEnd
  <2>5. Tools!Parent(p) = q  BY <2>2, PathEnd
  <2>6. schema[q].props  BY <1>1, <2>1, <2>5, RootedSchema
  <2>7. Tools!Transform(schema, q).props
    BY <2>3, <2>6, TransformFields
  <2>8. made[Tools!CleanPath(q)] = Tools!Transform(schema, q)  BY <2>3, SentNode
  <2>9. Tools!CleanPath(q) \in DOMAIN made  BY <2>3, SentNode DEF SentPaths
  <2> QED BY <2>4, <2>7, <2>8, <2>9
<1>8. Tools!Transform(schema, p).type \notin {"union", "odd"}
  BY <1>1, <1>5, TransformFields
<1>9. Tools!Transform(schema, p).meta = {}
  BY <1>5, TransformFields
<1>10. Tools!ToSet(Tools!Transform(schema, p).required) \subseteq Tools!Names(made, w)
  <2>1. CASE Tools!Opened(schema, p)
    <3>1. Tools!Transform(schema, p).required
            = Tools!ValidRequired(node.required, SentNames(schema, p))
      BY <2>1, TransformFields
    <3>2. ToSet(Tools!ValidRequired(node.required, SentNames(schema, p)))
            \subseteq SentNames(schema, p)
      <4> HIDE DEF node
      <4> QED BY <1>6, RequiredAre
    <3> QED BY <1>4, <2>1, <3>1, <3>2, SameSet
  <2>2. CASE ~Tools!Opened(schema, p)
    <3>1. Tools!Transform(schema, p).required = <<>>
      BY <1>5, <2>2, TransformFields
    <3>2. ToSet(<<>>) = {}  BY DEF ToSet
    <3> QED BY <3>1, <3>2, SameSet
  <2> QED BY <2>1, <2>2
<1>11. Cardinality(Tools!Names(made, w)) <= MaxProps
  <2>1. CASE Tools!Opened(schema, p)
    BY <1>4, <2>1, SentCount
  <2>2. CASE ~Tools!Opened(schema, p)
    <3>1. Tools!Names(made, w) = {}  BY <1>4, <2>2
    <3>2. Cardinality({}) = 0 /\ MaxProps \in Nat  BY FS_EmptySet, ConvertersAssumption
    <3> QED BY <3>1, <3>2
  <2> QED BY <2>1, <2>2
<1>12. Len(w) <= MaxNesting + 2  BY <1>2, KeptLength
<1>13. \A j \in DOMAIN w : Tools!Valid(w[j])  BY <1>1, CleanValid
<1> HIDE DEF made, w
<1>14. UsableAt(made, w)
  BY <1>3, <1>7, <1>8, <1>9, <1>10, <1>11, <1>12, <1>13, SameCount DEF UsableAt
<1> QED BY <1>14 DEF made, w

\* Of the property that simplification adds.
LEMMA AddedUsable ==
  ASSUME NEW schema, Rooted(schema), NEW last \in Tools!LastWritten(schema),
         NEW w \in Added(schema) \ SentPaths(schema, last)
  PROVE  UsableAt(Tools!TransformParameters(schema, last), w)
<1> DEFINE made == Tools!TransformParameters(schema, last)
<1>1. w = <<"data">> /\ Tools!Simplified(schema)  BY DEF Added
<1>2. w = Append(<<>>, "data") /\ <<>> \in Paths /\ "data" \in PropNames /\ Tools!Valid("data")
  BY <1>1, CleanNames DEF Paths
<1>3. made[w] = Tools!AString /\ Tools!Names(made, w) = {}  BY SentNode, SentNamesAre
<1>4. Tools!Parent(w) = <<>> /\ Len(w) = 1
  <2>1. Tools!Parent(Append(<<>>, "data")) = <<>>  BY <1>2, PathEnd
  <2> QED BY <1>1, <1>2, <2>1
<1>5. <<>> \in KeptPaths(schema, last) /\ Tools!CleanPath(<<>>) = <<>>
  BY KeptStep, CleanPaths
<1>6. <<>> \in DOMAIN made /\ made[<<>>] = Tools!Transform(schema, <<>>)
  <2>1. made[Tools!CleanPath(<<>>)] = Tools!Transform(schema, <<>>)  BY <1>5, SentNode
  <2>2. Tools!CleanPath(<<>>) \in DOMAIN made  BY <1>5, SentNode DEF SentPaths
  <2> HIDE DEF made
  <2> QED BY <1>5, <2>1, <2>2
<1>7. schema[<<>>].props
  <2>1. Tools!Names(schema, <<>>) # {}
    <3>1. Tools!Cardinality(Tools!Names(schema, <<>>)) > MaxProps /\ MaxProps \in Nat
      BY <1>1, ConvertersAssumption DEF Tools!Simplified
    <3>2. Cardinality(Tools!Names(schema, <<>>)) > MaxProps  BY <3>1, SameCount
    <3> QED BY <3>1, <3>2, FS_EmptySet
  <2>2. PICK n \in PropNames : Append(<<>>, n) \in DOMAIN schema  BY <2>1, NamesFinite
  <2>3. Tools!Parent(Append(<<>>, n)) = <<>> /\ Append(<<>>, n) # <<>>  BY <1>2, PathEnd
  <2> QED BY <2>2, <2>3, RootedSchema
<1>8. made[<<>>].props
  <2>1. Tools!Transform(schema, <<>>).props = schema[<<>>].props
    BY TransformFields
  <2> QED BY <1>6, <1>7, <2>1
<1>9. \A j \in DOMAIN w : Tools!Valid(w[j])
  BY <1>1, <1>2
<1>10. Tools!ToSet(made[w].required) = {} /\ made[w].type = "string" /\ made[w].meta = {}
  <2>1. Tools!AString.required = <<>> /\ Tools!AString.type = "string" /\ Tools!AString.meta = {}
    BY DEF Tools!AString, Tools!Node
  <2>2. ToSet(<<>>) = {}  BY DEF ToSet
  <2> QED BY <1>3, <2>1, <2>2, SameSet
<1>11. Cardinality({}) <= MaxProps /\ 1 <= MaxNesting + 2
  <2>1. Cardinality({}) = 0 /\ MaxProps \in Nat /\ MaxNesting \in Nat
    BY FS_EmptySet, ConvertersAssumption
  <2> QED BY <2>1
<1> HIDE DEF made
<1>12. UsableAt(made, w)
  BY <1>3, <1>4, <1>6, <1>8, <1>9, <1>10, <1>11, SameCount DEF UsableAt
<1> QED BY <1>12 DEF made

\* Upstream can use what a schema becomes.
LEMMA SchemaUsable ==
  ASSUME NEW schema, Tools!IsSchema(schema), NEW last \in Tools!LastWritten(schema)
  PROVE  /\ <<>> \in DOMAIN Tools!TransformParameters(schema, last)
         /\ \A w \in DOMAIN Tools!TransformParameters(schema, last) :
              UsableAt(Tools!TransformParameters(schema, last), w)
<1> DEFINE made == Tools!TransformParameters(schema, last)
<1>1. CASE schema = <<>>
  <2>1. made = [root \in {<<>>} |-> Tools!Node("object", TRUE, <<>>)]
    BY <1>1 DEF Tools!TransformParameters
  <2>2. DOMAIN made = {<<>>} /\ made[<<>>] = Tools!Node("object", TRUE, <<>>)  BY <2>1
  <2>3. Tools!Names(made, <<>>) = {}
    <3>1. Tools!Names(made, <<>>) = {n \in PropNames : Append(<<>>, n) \in DOMAIN made}
      BY NamesFinite
    <3>2. \A n \in PropNames : Append(<<>>, n) # <<>>
      <4>1. <<>> \in Paths  BY DEF Paths
      <4> QED BY <4>1, PathEnd
    <3> QED BY <2>2, <3>1, <3>2
  <2>4. /\ Tools!ToSet(made[<<>>].required) = {} /\ made[<<>>].type = "object"
        /\ made[<<>>].meta = {}
    <3>1. ToSet(<<>>) = {}  BY DEF ToSet
    <3>2. Tools!ToSet(<<>>) = {}  BY <3>1, SameSet
    <3> DEFINE root == Tools!Node("object", TRUE, <<>>)
    <3>3. root.required = <<>> /\ root.type = "object" /\ root.meta = {}  BY DEF Tools!Node
    <3> HIDE DEF root, made
    <3>4. made[<<>>] = root  BY <2>2 DEF root
    <3> QED BY <3>2, <3>3, <3>4
  <2>5. Cardinality({}) <= MaxProps /\ 0 <= MaxNesting + 2
    <3>1. Cardinality({}) = 0 /\ MaxProps \in Nat /\ MaxNesting \in Nat
      BY FS_EmptySet, ConvertersAssumption
    <3> QED BY <3>1
  <2> HIDE DEF made
  <2>6. UsableAt(made, <<>>)
    <3> DEFINE w == <<>>
    <3>1. w = <<>> /\ Len(w) = 0 /\ DOMAIN w = {}  OBVIOUS
    <3> HIDE DEF w
    <3>2. Tools!Cardinality(Tools!Names(made, w)) <= MaxProps
      BY <2>3, <2>5, <3>1, SameCount
    <3>3. UsableAt(made, w)  BY <2>3, <2>4, <2>5, <3>1, <3>2 DEF UsableAt
    <3> QED BY <3>1, <3>3
  <2> QED BY <2>2, <2>6 DEF made
<1>2. CASE schema # <<>>
  <2>1. Rooted(schema)  BY <1>2 DEF Rooted
  <2>2. DOMAIN made = SentPaths(schema, last) \cup Added(schema)  BY <2>1, SentNode
  <2>3. \A w \in SentPaths(schema, last) : UsableAt(made, w)
    BY <2>1, KeptUsable DEF SentPaths
  <2>4. \A w \in Added(schema) \ SentPaths(schema, last) : UsableAt(made, w)
    BY <2>1, AddedUsable
  <2>5. <<>> \in SentPaths(schema, last)
    BY <2>1, KeptStep, CleanPaths DEF SentPaths
  <2> HIDE DEF made
  <2> QED BY <2>2, <2>3, <2>4, <2>5 DEF made
<1> QED BY <1>1, <1>2

-----------------------------------------------------------------------------
(* The tools of a request.                                                 *)

\* The tools that have a valid name.
Named(list) == Tools!Where(list, LAMBDA t : Tools!Valid(t.name))

\* They are tools of the list.
LEMMA NamedTools ==
  ASSUME NEW list, Tools!AreTools(list)
  PROVE  /\ DOMAIN Named(list) = 1 .. Len(Named(list)) /\ Len(Named(list)) \in Nat
         /\ \A i \in DOMAIN Named(list) :
              /\ Named(list)[i] \in ToSet(list) /\ Tools!Valid(Named(list)[i].name)
              /\ Tools!IsSchema(Named(list)[i].schema)
<1> DEFINE S == ToSet(list)
<1> DEFINE K == {t \in S : Tools!Valid(t.name)}
<1>1. list \in Seq(S) /\ \A t \in S : Tools!IsSchema(t.schema)
  BY SameSet DEF Tools!AreTools
<1>2. \A t \in K : t \in S /\ Tools!Valid(t.name)  OBVIOUS
<1>3. Named(list) = Expanded(Keep(S, K), list)
  <2>1. \A i \in DOMAIN list : list[i] \in S  BY DEF ToSet
  <2>2. Named(list) = Tools!FlattenSeq([i \in DOMAIN list |->
                                          IF Tools!Valid(list[i].name) THEN <<list[i]>> ELSE <<>>])
    BY DEF Named, Tools!Where, Tools!Each
  <2>3. [i \in DOMAIN list |-> IF Tools!Valid(list[i].name) THEN <<list[i]>> ELSE <<>>]
        = Mapped(Keep(S, K), list)
    BY <2>1 DEF Mapped, Keep
  <2> QED BY <2>2, <2>3, SameFlat DEF Expanded
<1> HIDE DEF S, K
<1> DEFINE named == Expanded(Keep(S, K), list)
<1>4. named \in Seq(S \cap K)  BY <1>1, Kept
<1> HIDE DEF named
<1>5. DOMAIN named = 1 .. Len(named) /\ Len(named) \in Nat /\ \A i \in DOMAIN named : named[i] \in S \cap K
  BY <1>4, LenProperties, ElementOfSeq
<1>6. \A i \in DOMAIN named : named[i] \in S /\ Tools!Valid(named[i].name) /\ Tools!IsSchema(named[i].schema)
  BY <1>1, <1>2, <1>5
<1> QED BY <1>3, <1>5, <1>6 DEF named, S

\* Each tool is transformed on its own.
LEMMA Validated ==
  ASSUME NEW list, NEW s \in Tools!ValidateAndTransformTools(list)
  PROVE  /\ DOMAIN s = DOMAIN Named(list) /\ s = [i \in DOMAIN Named(list) |-> s[i]]
         /\ \A i \in DOMAIN s : \E last \in Tools!LastWritten(Named(list)[i].schema) :
              s[i] = [name |-> Named(list)[i].name,
                      schema |-> Tools!TransformParameters(Named(list)[i].schema, last)]
<1> DEFINE results(t) ==
      {[name |-> t.name, schema |-> Tools!TransformParameters(t.schema, last)] :
         last \in Tools!LastWritten(t.schema)}
<1>1. /\ s \in [DOMAIN Named(list) -> UNION {results(Named(list)[i]) : i \in DOMAIN Named(list)}]
      /\ \A i \in DOMAIN Named(list) : s[i] \in results(Named(list)[i])
  BY DEF Tools!ValidateAndTransformTools, Named
<1> QED BY <1>1

\* No tools become no tools.
LEMMA NothingValidated == <<>> \in Tools!ValidateAndTransformTools(<<>>)
<1>1. Named(<<>>) = <<>>
  <2>1. [i \in DOMAIN <<>> |-> IF Tools!Valid(<<>>[i].name) THEN <<<<>>[i]>> ELSE <<>>] = <<>>
    OBVIOUS
  <2>2. Named(<<>>) = Tools!FlattenSeq([i \in DOMAIN <<>> |->
                        IF Tools!Valid(<<>>[i].name) THEN <<<<>>[i]>> ELSE <<>>])
    BY DEF Named, Tools!Where, Tools!Each
  <2> QED BY <2>1, <2>2, SameFlat, FlatOfNone
<1> DEFINE results(t) ==
      {[name |-> t.name, schema |-> Tools!TransformParameters(t.schema, last)] :
         last \in Tools!LastWritten(t.schema)}
<1>2. Tools!ValidateAndTransformTools(<<>>)
      = {s \in [DOMAIN Named(<<>>) -> UNION {results(Named(<<>>)[i]) : i \in DOMAIN Named(<<>>)}] :
           \A i \in DOMAIN Named(<<>>) : s[i] \in results(Named(<<>>)[i])}
  BY DEF Tools!ValidateAndTransformTools, Named
<1> HIDE DEF results
<1>3. \A R : <<>> \in [DOMAIN <<>> -> R]
  OBVIOUS
<1>4. \A i \in DOMAIN <<>> : FALSE
  OBVIOUS
<1> QED BY <1>1, <1>2, <1>3, <1>4

-----------------------------------------------------------------------------
(* The handlers of tools.                                                  *)

\* What an Anthropic request sends.
Stripped(list) ==
  [i \in DOMAIN list |->
     [list[i] EXCEPT !.schema = Tools!StripUnsupportedSchemaFields(@)]]

ToolTypes ==
  /\ toolPc \in [Handlers -> {"idle", "lookup", "store", "send", "send anthropic"}]
  /\ tools = [h \in Handlers |-> tools[h]]
  /\ key = [h \in Handlers |-> key[h]]
  /\ definitions = [h \in Handlers |-> definitions[h]]

\* The key is that of the request's own tools.
OwnKey == \A h \in Handlers : toolPc[h] \in {"lookup", "store"} =>
  \E encoding \in Encodings : key[h] = Tools!Key(tools[h], encoding)

\* What is sent is the request's own, converted or found in the cache.
OwnTools == \A h \in Handlers :
  /\ toolPc[h] \in {"lookup", "store", "send"} => tools[h] \in OpenAITools
  /\ toolPc[h] \in {"store", "send"} =>
       definitions[h] \in Tools!ValidateAndTransformTools(tools[h])
  /\ toolPc[h] = "send anthropic" => \E list \in AnthropicTools : definitions[h] = Stripped(list)
  /\ toolPc[h] \in {"idle", "lookup"} => definitions[h] = <<>>

\* So is what the cache holds.
OwnEntries == \A e \in toolCache : \E list \in OpenAITools, encoding \in Encodings :
  /\ e.key = Tools!Key(list, encoding)
  /\ e.tools \in Tools!ValidateAndTransformTools(list)

ToolInv == ToolTypes /\ OwnKey /\ OwnTools /\ OwnEntries

\* Nothing is sent or cached at first.
LEMMA ToolsBegin == Tools!Init => ToolInv
  BY DEF Tools!Init, ToolInv, ToolTypes, OwnKey, OwnTools, OwnEntries

\* One step keeps every request's tools its own.
LEMMA ToolStep ==
  ASSUME ToolInv, Tools!Next
  PROVE  ToolInv'
<1> USE DEF ToolInv
<1>1. ASSUME NEW h \in Handlers, Tools!ReceiveOpenAI(h) PROVE ToolInv'
  <2>1. ToolTypes'  BY <1>1 DEF Tools!ReceiveOpenAI, ToolTypes
  <2>2. PICK list \in OpenAITools, encoding \in Encodings :
          /\ tools' = [tools EXCEPT ![h] = list]
          /\ key' = [key EXCEPT ![h] = Tools!Key(list, encoding)]
          /\ toolPc' = [toolPc EXCEPT ![h] = IF list = <<>> THEN "send" ELSE "lookup"]
    BY <1>1 DEF Tools!ReceiveOpenAI
  <2>3. /\ \A g \in Handlers \ {h} : toolPc'[g] = toolPc[g] /\ tools'[g] = tools[g] /\ key'[g] = key[g]
        /\ toolPc[h] = "idle" /\ tools'[h] = list /\ key'[h] = Tools!Key(list, encoding)
        /\ toolPc'[h] = IF list = <<>> THEN "send" ELSE "lookup"
        /\ definitions' = definitions /\ toolCache' = toolCache
    BY <1>1, <2>2 DEF Tools!ReceiveOpenAI, ToolTypes
  <2>4. OwnKey'  BY <2>3 DEF OwnKey
  <2>5. OwnTools'
    <3>1. ASSUME NEW g \in Handlers, g # h
          PROVE  /\ toolPc'[g] \in {"lookup", "store", "send"} => tools'[g] \in OpenAITools
                 /\ toolPc'[g] \in {"store", "send"} =>
                      definitions'[g] \in Tools!ValidateAndTransformTools(tools'[g])
                 /\ toolPc'[g] = "send anthropic" =>
                      \E l \in AnthropicTools : definitions'[g] = Stripped(l)
                 /\ toolPc'[g] \in {"idle", "lookup"} => definitions'[g] = <<>>
      BY <2>3, <3>1 DEF OwnTools
    <3>2. definitions'[h] = <<>> /\ toolPc'[h] \in {"lookup", "send"}  BY <2>3 DEF OwnTools
    <3>3. toolPc'[h] = "send" => tools'[h] = <<>>  BY <2>3
    <3>4. toolPc'[h] = "send" => definitions'[h] \in Tools!ValidateAndTransformTools(tools'[h])
      BY <3>2, <3>3, NothingValidated
    <3> QED BY <2>3, <3>1, <3>2, <3>4 DEF OwnTools
  <2>6. OwnEntries'  BY <2>3 DEF OwnEntries
  <2> QED BY <2>1, <2>4, <2>5, <2>6
<1>2. ASSUME NEW h \in Handlers, Tools!CacheHit(h) PROVE ToolInv'
  <2>1. ToolTypes'  BY <1>2 DEF Tools!CacheHit, ToolTypes
  <2>2. PICK e \in toolCache : e.key = key[h] /\ definitions' = [definitions EXCEPT ![h] = e.tools]
    BY <1>2 DEF Tools!CacheHit
  <2>3. /\ \A g \in Handlers \ {h} : toolPc'[g] = toolPc[g] /\ definitions'[g] = definitions[g]
        /\ toolPc[h] = "lookup" /\ toolPc'[h] = "send" /\ definitions'[h] = e.tools
        /\ tools' = tools /\ key' = key /\ toolCache' = toolCache
    BY <1>2, <2>2 DEF Tools!CacheHit, ToolTypes
  <2>4. e.tools \in Tools!ValidateAndTransformTools(tools[h])
    <3>1. PICK list \in OpenAITools, encoding \in Encodings :
            /\ e.key = Tools!Key(list, encoding)
            /\ e.tools \in Tools!ValidateAndTransformTools(list)
      BY DEF OwnEntries
    <3>2. PICK other \in Encodings : key[h] = Tools!Key(tools[h], other)
      BY <2>3 DEF OwnKey
    <3>3. list = tools[h]
      <4>1. \A l, any : Tools!Key(l, any)[1] = l  BY DEF Tools!Key
      <4> QED BY <2>2, <3>1, <3>2, <4>1
    <3> QED BY <3>1, <3>3
  <2>5. OwnKey'  BY <2>3 DEF OwnKey
  <2>6. OwnTools'  BY <2>3, <2>4 DEF OwnTools
  <2>7. OwnEntries'  BY <2>3 DEF OwnEntries
  <2> QED BY <2>1, <2>5, <2>6, <2>7
<1>3. ASSUME NEW h \in Handlers, Tools!Validate(h) PROVE ToolInv'
  <2>1. ToolTypes'  BY <1>3 DEF Tools!Validate, ToolTypes
  <2>2. /\ \A g \in Handlers \ {h} : toolPc'[g] = toolPc[g] /\ definitions'[g] = definitions[g]
        /\ toolPc[h] = "lookup" /\ toolPc'[h] = "store"
        /\ definitions'[h] \in Tools!ValidateAndTransformTools(tools[h])
        /\ tools' = tools /\ key' = key /\ toolCache' = toolCache
    BY <1>3 DEF Tools!Validate, ToolTypes
  <2>3. OwnKey'  BY <2>2 DEF OwnKey
  <2>4. OwnTools'  BY <2>2 DEF OwnTools
  <2>5. OwnEntries'  BY <2>2 DEF OwnEntries
  <2> QED BY <2>1, <2>3, <2>4, <2>5
<1>4. ASSUME NEW h \in Handlers, Tools!Store(h) PROVE ToolInv'
  <2>1. ToolTypes'  BY <1>4 DEF Tools!Store, ToolTypes
  <2>2. /\ \A g \in Handlers \ {h} : toolPc'[g] = toolPc[g]
        /\ toolPc[h] = "store" /\ toolPc'[h] = "send"
        /\ \A e \in toolCache' : e \in toolCache \/ e = [key |-> key[h], tools |-> definitions[h]]
        /\ tools' = tools /\ key' = key /\ definitions' = definitions
    BY <1>4 DEF Tools!Store, ToolTypes
  <2>3. OwnKey'  BY <2>2 DEF OwnKey
  <2>4. OwnTools'  BY <2>2 DEF OwnTools
  <2>5. OwnEntries'
    <3> SUFFICES ASSUME NEW e \in toolCache'
                 PROVE  \E list \in OpenAITools, encoding \in Encodings :
                          /\ e.key = Tools!Key(list, encoding)
                          /\ e.tools \in Tools!ValidateAndTransformTools(list)
      BY DEF OwnEntries
    <3>1. CASE e \in toolCache  BY <3>1 DEF OwnEntries
    <3>2. CASE e = [key |-> key[h], tools |-> definitions[h]]
      <4>1. e.key = key[h] /\ e.tools = definitions[h]  BY <3>2
      <4>2. tools[h] \in OpenAITools /\ definitions[h] \in Tools!ValidateAndTransformTools(tools[h])
        BY <2>2 DEF OwnTools
      <4>3. \E encoding \in Encodings : key[h] = Tools!Key(tools[h], encoding)
        BY <2>2 DEF OwnKey
      <4> QED BY <4>1, <4>2, <4>3
    <3> QED BY <2>2, <3>1, <3>2
  <2> QED BY <2>1, <2>3, <2>4, <2>5
<1>5. ASSUME NEW h \in Handlers, Tools!ReceiveAnthropic(h) PROVE ToolInv'
  <2>1. ToolTypes'  BY <1>5 DEF Tools!ReceiveAnthropic, ToolTypes
  <2>2. PICK list \in AnthropicTools : /\ tools' = [tools EXCEPT ![h] = list]
                                       /\ definitions' = [definitions EXCEPT ![h] = Stripped(list)]
    BY <1>5 DEF Tools!ReceiveAnthropic, Stripped
  <2>3. /\ \A g \in Handlers \ {h} : /\ toolPc'[g] = toolPc[g] /\ tools'[g] = tools[g]
                                     /\ definitions'[g] = definitions[g]
        /\ toolPc'[h] = "send anthropic" /\ definitions'[h] = Stripped(list)
        /\ key' = key /\ toolCache' = toolCache
    BY <1>5, <2>2 DEF Tools!ReceiveAnthropic, ToolTypes
  <2>4. OwnKey'  BY <2>3 DEF OwnKey
  <2>5. OwnTools'  BY <2>3 DEF OwnTools
  <2>6. OwnEntries'  BY <2>3 DEF OwnEntries
  <2> QED BY <2>1, <2>4, <2>5, <2>6
<1>6. ASSUME NEW h \in Handlers, Tools!Send(h) PROVE ToolInv'
  <2>1. ToolTypes'  BY <1>6 DEF Tools!Send, ToolTypes
  <2>2. /\ \A g \in Handlers \ {h} : /\ toolPc'[g] = toolPc[g] /\ tools'[g] = tools[g]
                                     /\ key'[g] = key[g] /\ definitions'[g] = definitions[g]
        /\ toolPc'[h] = "idle" /\ definitions'[h] = <<>> /\ toolCache' = toolCache
    BY <1>6 DEF Tools!Send, ToolTypes
  <2>3. OwnKey'  BY <2>2 DEF OwnKey
  <2>4. OwnTools'  BY <2>2 DEF OwnTools
  <2>5. OwnEntries'  BY <2>2 DEF OwnEntries
  <2> QED BY <2>1, <2>3, <2>4, <2>5
<1>7. ASSUME Tools!Drop PROVE ToolInv'
  BY <1>7 DEF Tools!Drop, ToolTypes, OwnKey, OwnTools, OwnEntries
<1> QED BY <1>1, <1>2, <1>3, <1>4, <1>5, <1>6, <1>7 DEF Tools!Next

\* The tools that a request sends are its own, whatever the cache holds and
\* whatever other requests do (processor.go:88).
THEOREM ToolsAreOwn == Spec => []ToolInv
<1>1. Init => ToolInv
  BY ToolsBegin DEF Init
<1>2. ToolInv /\ [Next]_vars => ToolInv'
  <2> SUFFICES ASSUME ToolInv, [Next]_vars PROVE ToolInv'
    OBVIOUS
  <2>1. CASE ConvertTools
    BY <2>1, ToolStep DEF ConvertTools
  <2>2. CASE UNCHANGED schemas
    BY <2>2 DEF schemas, ToolInv, ToolTypes, OwnKey, OwnTools, OwnEntries
  <2>3. UNCHANGED schemas \/ ConvertTools
    BY DEF Next, vars, ConvertMessages, HandleAnthropicStreaming, HandleAnthropicNonStreaming,
           HandleOpenAI
  <2> QED BY <2>1, <2>2, <2>3
<1> QED BY <1>1, <1>2, PTL DEF Spec

\* What is sent for any tools is a schema that upstream can use (tools.go:60,
\* anthropic.go:120).
THEOREM ToolsAreUsable == Spec => []ToolsUsable
<1>1. ToolInv => ToolsUsable
  <2> SUFFICES ASSUME ToolInv, NEW h \in Handlers, NEW i \in DOMAIN definitions[h]
               PROVE  LET sending == definitions[h][i]
                          schema == sending.schema
                      IN /\ toolPc[h] = "send" =>
                              /\ Tools!Valid(sending.name) /\ <<>> \in DOMAIN schema
                              /\ \A p \in DOMAIN schema : UsableAt(schema, p)
                         /\ toolPc[h] = "send anthropic" =>
                              \A p \in DOMAIN schema : "own" \notin schema[p].meta
    BY DEF ToolsUsable, Tools!ToolsUsable, UsableAt
  <2> DEFINE sending == definitions[h][i]
  <2> DEFINE schema == sending.schema
  <2>1. ASSUME toolPc[h] = "send"
        PROVE  /\ Tools!Valid(sending.name) /\ <<>> \in DOMAIN schema
               /\ \A p \in DOMAIN schema : UsableAt(schema, p)
    <3> DEFINE list == tools[h]
    <3>1. list \in OpenAITools /\ definitions[h] \in Tools!ValidateAndTransformTools(list)
      BY <2>1 DEF ToolInv, OwnTools
    <3>2. Tools!AreTools(list)  BY <3>1, ClientsAssumption
    <3> DEFINE t == Named(list)[i]
    <3>3. i \in DOMAIN Named(list) /\ \E last \in Tools!LastWritten(t.schema) :
            sending = [name |-> t.name, schema |-> Tools!TransformParameters(t.schema, last)]
      BY <3>1, Validated
    <3>4. Tools!Valid(t.name) /\ Tools!IsSchema(t.schema)  BY <3>2, <3>3, NamedTools
    <3> HIDE DEF t, sending
    <3>5. PICK last \in Tools!LastWritten(t.schema) :
            sending = [name |-> t.name, schema |-> Tools!TransformParameters(t.schema, last)]
      BY <3>3
    <3>6. sending.name = t.name /\ schema = Tools!TransformParameters(t.schema, last)  BY <3>5
    <3> HIDE DEF schema
    <3> QED BY <3>4, <3>6, SchemaUsable
  <2>2. ASSUME toolPc[h] = "send anthropic"
        PROVE  \A p \in DOMAIN schema : "own" \notin schema[p].meta
    <3>1. PICK list \in AnthropicTools : definitions[h] = Stripped(list)
      BY <2>2 DEF ToolInv, OwnTools
    <3> DEFINE t == list[i]
    <3>2. i \in DOMAIN list /\ sending = [t EXCEPT !.schema = Tools!StripUnsupportedSchemaFields(@)]
      BY <3>1 DEF Stripped
    <3>3. t = [name |-> t.name, schema |-> t.schema] /\ Tools!IsSchema(t.schema)
      BY <3>2, ClientsAssumption DEF Tools!AreTools, Tools!ToSet
    <3> HIDE DEF t, sending
    <3>4. schema = Tools!StripUnsupportedSchemaFields(t.schema)  BY <3>2, <3>3
    <3> DEFINE old == t.schema
    <3>5. \A p \in DOMAIN old : old[p] \in Tools!Nodes  BY <3>3 DEF Tools!IsSchema
    <3>6. schema = [p \in DOMAIN old |-> [old[p] EXCEPT !.meta = @ \ {"own"}]]
      BY <3>4 DEF Tools!StripUnsupportedSchemaFields
    <3> HIDE DEF schema, old
    <3>7. \A node \in Tools!Nodes : "own" \notin [node EXCEPT !.meta = @ \ {"own"}].meta
      BY DEF Tools!Nodes
    <3> QED BY <3>5, <3>6, <3>7
  <2> QED BY <2>1, <2>2
<1> QED BY <1>1, ToolsAreOwn, PTL

-----------------------------------------------------------------------------
(* What need not be simplified.                                            *)

\* What Simple asks of the property at, the i-th on a path.
Plain(schema, at, name, i, inner) ==
  /\ i <= MaxNesting + 1 /\ Tools!Valid(name)
  /\ \A q \in DOMAIN schema : Tools!Rivals(at, q) => q = at
  /\ Tools!Cardinality(Tools!Names(schema, Tools!Parent(at))) <= MaxProps
  /\ schema[at].type \in {"string", "integer", "array", "object"}
  /\ inner => schema[at].type = "object"
  /\ schema[at].type = "object" =>
       schema[at].props /\ Tools!Cardinality(Tools!Names(schema, at)) <= MaxProps

\* A path is simple if its beginning is, and its last property is plain.
LEMMA SimpleStep ==
  ASSUME NEW schema, NEW p \in Paths, NEW n \in PropNames,
         Tools!Simple(schema, Append(p, n))
  PROVE  /\ Tools!Simple(schema, p)
         /\ Plain(schema, Append(p, n), n, Len(p) + 1, FALSE)
         /\ p # <<>> => Plain(schema, p, p[Len(p)], Len(p), TRUE)
<1> DEFINE q == Append(p, n)
<1> DEFINE at(r, i, inner) == Plain(schema, SubSeq(r, 1, i), r[i], i, inner)
<1>1. /\ Len(p) \in Nat /\ Len(q) = Len(p) + 1
      /\ \A i \in 0 .. Len(p) : SubSeq(q, 1, i) = SubSeq(p, 1, i)
      /\ SubSeq(q, 1, Len(p) + 1) = q /\ SubSeq(p, 1, Len(p)) = p
      /\ q[Len(p) + 1] = n /\ \A i \in 1 .. Len(p) : q[i] = p[i]
  BY PathEnd, PathBegin, AppendProperties DEF Paths
<1>2. \A i \in 1 .. Len(q) : at(q, i, i < Len(q))
  BY DEF Tools!Simple, Plain
<1>3. (\A i \in 1 .. Len(p) : at(p, i, i < Len(p))) => Tools!Simple(schema, p)
  BY DEF Tools!Simple, Plain
<1> HIDE DEF q
<1>4. ASSUME NEW i \in 1 .. Len(p) PROVE at(p, i, TRUE)
  <2>1. i \in 1 .. Len(q) /\ i < Len(q) /\ i \in 0 .. Len(p)  BY <1>1
  <2>2. at(q, i, i < Len(q))  BY <1>2, <2>1
  <2>3. SubSeq(q, 1, i) = SubSeq(p, 1, i) /\ q[i] = p[i]  BY <1>1, <2>1
  <2>4. Plain(schema, SubSeq(p, 1, i), p[i], i, i < Len(q))  BY <2>2, <2>3
  <2> QED BY <2>1, <2>4 DEF Plain
<1>5. \A i \in 1 .. Len(p) : at(p, i, i < Len(p))
  BY <1>4 DEF Plain
<1>6. Plain(schema, q, n, Len(p) + 1, FALSE)
  <2>1. Len(p) + 1 \in 1 .. Len(q)  BY <1>1
  <2>2. at(q, Len(p) + 1, Len(p) + 1 < Len(q))  BY <1>2, <2>1
  <2>3. Plain(schema, q, n, Len(p) + 1, Len(p) + 1 < Len(q))  BY <1>1, <2>2
  <2> QED BY <2>3 DEF Plain
<1>7. p # <<>> => Plain(schema, p, p[Len(p)], Len(p), TRUE)
  <2> HAVE p # <<>>
  <2>1. Len(p) \in 1 .. Len(p)
    <3>1. Len(p) # 0  BY EmptySeq DEF Paths
    <3> QED BY <1>1, <3>1
  <2>2. at(p, Len(p), TRUE)  BY <1>4, <2>1
  <2> QED BY <1>1, <2>2
<1> QED BY <1>3, <1>5, <1>6, <1>7 DEF q

\* A simple property is kept, and so are the objects around it.
LEMMA SimpleIsKept ==
  ASSUME NEW schema, Rooted(schema), NEW last \in Tools!LastWritten(schema)
  PROVE  \A p \in Paths : p \in DOMAIN schema /\ Tools!Simple(schema, p) =>
           /\ p \in KeptPaths(schema, last) /\ Tools!CleanPath(p) = p
           /\ p # <<>> => Tools!Opened(schema, Tools!Parent(p))
<1> DEFINE kept == KeptPaths(schema, last)
<1> DEFINE P == {p \in Paths : p \in DOMAIN schema /\ Tools!Simple(schema, p) =>
                   /\ p \in kept /\ Tools!CleanPath(p) = p
                   /\ p # <<>> => Tools!Opened(schema, Tools!Parent(p))}
<1>1. /\ <<>> \in kept
      /\ \A p \in Paths, n \in PropNames :
           Append(p, n) \in kept
           <=> p \in kept /\ Append(p, n) \in last /\ Tools!Opened(schema, p)
  BY KeptStep
<1> HIDE DEF kept
<1>2. <<>> \in P
  <2>1. <<>> \in Paths  BY DEF Paths
  <2> QED BY <1>1, <2>1, CleanPaths
<1>3. ASSUME NEW p \in P, NEW n \in PropNames PROVE Append(p, n) \in P
  <2> DEFINE q == Append(p, n)
  <2>1. p \in Paths /\ (p \in DOMAIN schema /\ Tools!Simple(schema, p) =>
                          p \in kept /\ Tools!CleanPath(p) = p)
    OBVIOUS
  <2> HIDE DEF P
  <2>2. q \in Paths /\ q # <<>> /\ Len(q) = Len(p) + 1 /\ Tools!Parent(q) = p /\ Len(p) \in Nat
    BY <2>1, PathEnd
  <2>3. ASSUME q \in DOMAIN schema, Tools!Simple(schema, q)
        PROVE  q \in kept /\ Tools!CleanPath(q) = q /\ Tools!Opened(schema, p)
    <3>1. /\ Tools!Simple(schema, p)
          /\ Plain(schema, q, n, Len(p) + 1, FALSE)
          /\ p # <<>> => Plain(schema, p, p[Len(p)], Len(p), TRUE)
      BY <2>1, <2>3, SimpleStep
    <3>2. p \in DOMAIN schema  BY <2>2, <2>3, RootedSchema
    <3>3. p \in kept /\ Tools!CleanPath(p) = p  BY <2>1, <3>1, <3>2
    <3>4. Tools!Opened(schema, p)
      <4>1. CASE p = <<>>  BY <4>1 DEF Tools!Opened
      <4>2. CASE p # <<>>
        <5>1. Plain(schema, p, p[Len(p)], Len(p), TRUE)  BY <3>1, <4>2
        <5>2. /\ Len(p) <= MaxNesting + 1 /\ schema[p].type = "object" /\ schema[p].props
              /\ Tools!Cardinality(Tools!Names(schema, p)) <= MaxProps
          BY <5>1 DEF Plain
        <5>3. ~Tools!TooDeep(p)
          <6>1. MaxNesting \in Nat  BY ConvertersAssumption
          <6> QED BY <2>2, <5>2, <6>1 DEF Tools!TooDeep
        <5> QED BY <5>2, <5>3 DEF Tools!Opened
      <4> QED BY <4>1, <4>2
    <3>5. /\ Tools!Valid(n) /\ \A r \in DOMAIN schema : Tools!Rivals(q, r) => r = q
          /\ Tools!Cardinality(Tools!Names(schema, p)) <= MaxProps
      BY <2>2, <3>1 DEF Plain
    <3>6. q \in Tried(schema)
      <4>1. CASE p # <<>>
        <5>1. Len(q) # 1
          <6>1. Len(p) # 0  BY <2>1, <4>1, EmptySeq DEF Paths
          <6> QED BY <2>2, <6>1
        <5> HIDE DEF q
        <5> QED BY <2>3, <5>1 DEF Tried
      <4>2. CASE p = <<>>
        <5>1. ~Tools!Simplified(schema)
          <6>1. Cardinality(Tools!Names(schema, <<>>)) <= MaxProps  BY <3>5, <4>2, SameCount
          <6>2. MaxProps \in Nat /\ Cardinality(Tools!Names(schema, <<>>)) \in Nat
            BY NamesFinite, ConvertersAssumption
          <6>3. Tools!Simplified(schema) <=> Cardinality(Tools!Names(schema, <<>>)) > MaxProps
            BY SameCount DEF Tools!Simplified
          <6> QED BY <6>1, <6>2, <6>3
        <5>2. n \in Tools!Names(schema, <<>>)  BY <2>3, <4>2, NamesFinite
        <5>3. n \in ToSet(Tools!Preserved(schema))  BY <5>1, <5>2, PreservedNames
        <5>4. q[1] = n  BY <4>2
        <5> HIDE DEF q
        <5> QED BY <2>3, <5>3, <5>4 DEF Tried
      <4> QED BY <4>1, <4>2
    <3>7. q \in last
      <4>1. PICK r \in last : r = q \/ Tools!Rivals(q, r)  BY <3>6, LastAre
      <4>2. r \in DOMAIN schema  BY LastAre DEF Tried
      <4> QED BY <3>5, <4>1, <4>2
    <3>8. q \in kept  BY <1>1, <2>1, <3>3, <3>4, <3>7
    <3>9. Tools!CleanPath(q) = Append(Tools!CleanPath(p), Tools!Clean(n)) /\ Tools!Clean(n) = n
      BY <2>1, <3>5, CleanPaths, CleanNames
    <3> QED BY <3>3, <3>4, <3>8, <3>9
  <2> HIDE DEF q
  <2> QED BY <2>2, <2>3 DEF P, q
<1>4. \A p \in Paths : p \in P
  <2>1. P \in SUBSET Seq(PropNames)  BY DEF Paths
  <2>2. <<>> \in P /\ \A p \in P, n \in PropNames : Append(p, n) \in P  BY <1>2, <1>3
  <2> HIDE DEF P
  <2>3. \A p \in Seq(PropNames) : p \in P  BY <2>1, <2>2, ListInduction
  <2> QED BY <2>3 DEF Paths
<1> QED BY <1>4 DEF kept

\* The property at path p is sent as it is.
AsItIs(schema, made, p) ==
  /\ p \in DOMAIN made
  /\ Tools!Last(p) \in Tools!ToSet(schema[Tools!Parent(p)].required)
     => Tools!Last(p) \in Tools!ToSet(made[Tools!Parent(p)].required)
  /\ made[p].type = schema[p].type
  /\ schema[p].type = "array" => schema[p].items \in {"", made[p].items}
  /\ \/ schema[p].type \in {"array", "object"}
     \/ made[p].constraints = schema[p].constraints \cap Copied

\* So is every simple property.
LEMMA SimpleIsSent ==
  ASSUME NEW schema, Rooted(schema), NEW last \in Tools!LastWritten(schema),
         NEW p \in DOMAIN schema \ {<<>>}, Tools!Simple(schema, p)
  PROVE  AsItIs(schema, Tools!TransformParameters(schema, last), p)
<1> DEFINE made == Tools!TransformParameters(schema, last)
<1>1. p \in Paths /\ p # <<>>  BY RootedSchema
<1>2. PICK q \in Paths, n \in PropNames : p = Append(q, n)  BY <1>1, PathSplit
<1>3. Tools!Parent(p) = q /\ Tools!Last(p) = n /\ Len(p) = Len(q) + 1 /\ Len(q) \in Nat
  BY <1>2, PathEnd
<1>4. /\ p \in KeptPaths(schema, last) /\ Tools!CleanPath(p) = p
      /\ Tools!Opened(schema, q)
  BY <1>1, <1>3, SimpleIsKept
<1>5. Tools!Simple(schema, q) /\ Plain(schema, p, n, Len(q) + 1, FALSE)
  BY <1>2, SimpleStep
<1>6. q \in DOMAIN schema  BY <1>1, <1>3, RootedSchema
<1>7. q \in KeptPaths(schema, last) /\ Tools!CleanPath(q) = q
  BY <1>5, <1>6, SimpleIsKept
<1>8. made[p] = Tools!Transform(schema, p) /\ made[q] = Tools!Transform(schema, q)
  BY <1>4, <1>7, SentNode
<1>9. p \in DOMAIN made
  BY <1>4, SentNode DEF SentPaths
<1>10. ASSUME n \in Tools!ToSet(schema[q].required) PROVE n \in Tools!ToSet(made[q].required)
  <2>1. made[q].required = Tools!ValidRequired(schema[q].required, SentNames(schema, q))
    <3>1. Tools!Transform(schema, q).required
            = Tools!ValidRequired(schema[q].required, SentNames(schema, q))
      BY <1>4, TransformFields
    <3> QED BY <1>8, <3>1
  <2>2. Tools!Clean(n) = n  BY <1>5, CleanNames DEF Plain
  <2>3. n \in SentNames(schema, q)
    <3>1. Append(q, n) \in Tried(schema)  BY <1>2, <1>4, KeptStep, LastAre
    <3>2. n \in KeptNames(schema, q)
      <4>1. n \in Tools!Names(schema, q)  BY <1>2, NamesFinite
      <4>2. CASE q = <<>>
        <5>1. Append(q, n)[1] = n /\ Len(Append(q, n)) = 1  BY <4>2
        <5> DEFINE r == Append(q, n)
        <5> HIDE DEF r
        <5>2. r[1] \in ToSet(Tools!Preserved(schema))  BY <3>1, <5>1 DEF Tried, r
        <5> QED BY <4>2, <5>1, <5>2 DEF KeptNames, r
      <4>3. CASE q # <<>>  BY <4>1, <4>3 DEF KeptNames
      <4> QED BY <4>2, <4>3
    <3> QED BY <2>2, <3>2 DEF SentNames
  <2>4. schema[q].required \in Seq(PropNames)  BY <1>6, RootedSchema, NodeIs
  <2> DEFINE required == schema[q].required
  <2>5. n \in ToSet(required)  BY <1>10, SameSet
  <2> HIDE DEF required
  <2>6. ToSet(Tools!ValidRequired(required, SentNames(schema, q)))
        = {Tools!Clean(m) : m \in ToSet(required)} \cap SentNames(schema, q)
    BY <2>4, RequiredAre DEF required
  <2>7. n \in ToSet(made[q].required)  BY <2>1, <2>2, <2>3, <2>5, <2>6 DEF required
  <2> QED BY <2>7, SameSet
<1>11. ~Tools!TooDeep(p)
  <2>1. Len(q) + 1 <= MaxNesting + 1 /\ MaxNesting \in Nat  BY <1>5, ConvertersAssumption DEF Plain
  <2> QED BY <1>3, <2>1 DEF Tools!TooDeep
<1>12. /\ schema[p].type \in {"string", "integer", "array", "object"}
       /\ schema[p].type = "object" =>
            schema[p].props /\ Tools!Cardinality(Tools!Names(schema, p)) <= MaxProps
  BY <1>5 DEF Plain
<1> DEFINE new == Tools!Transform(schema, p)
<1>13. /\ new.type = schema[p].type
       /\ \/ schema[p].type \in {"array", "object"}
          \/ new.constraints = schema[p].constraints \cap Copied
       /\ schema[p].type = "array" => schema[p].items \in {"", new.items}
  <2>1. CASE schema[p].type = "object"
    <3>1. Tools!Opened(schema, p)  BY <1>11, <1>12, <2>1 DEF Tools!Opened
    <3> QED BY <1>1, <2>1, <3>1, TransformFields
  <2>2. CASE schema[p].type # "object"
    <3>1. ~Tools!Opened(schema, p)  BY <1>1, <2>2 DEF Tools!Opened
    <3>2. schema[p].type \notin {"object", "union", "odd", ""}  BY <1>12, <2>2
    <3>3. new.type = schema[p].type  BY <1>1, <1>11, <3>1, <3>2, TransformFields
    <3>4. schema[p].type = "array" =>
            new.items = IF schema[p].items = "" THEN "string" ELSE schema[p].items
      BY <1>1, <1>11, <3>1, <3>2, TransformFields
    <3>5. schema[p].type # "array" => new.constraints = schema[p].constraints \cap Copied
      BY <1>1, <1>11, <3>1, <3>2, TransformFields
    <3> HIDE DEF new
    <3> QED BY <1>12, <2>2, <3>3, <3>4, <3>5
  <2> QED BY <2>1, <2>2
<1> HIDE DEF new, made
<1>14. AsItIs(schema, made, p)
  BY <1>3, <1>8, <1>9, <1>10, <1>13 DEF new, AsItIs
<1> QED BY <1>14 DEF made

\* Whatever the order of the maps, the root gets the same names, and without
\* rivals nothing depends on the order.
LEMMA OneForm ==
  ASSUME NEW schema, Tools!IsSchema(schema),
         NEW one \in Tools!LastWritten(schema), NEW other \in Tools!LastWritten(schema)
  PROVE  /\ Tools!Names(Tools!TransformParameters(schema, one), <<>>)
              = Tools!Names(Tools!TransformParameters(schema, other), <<>>)
         /\ (\A p, q \in DOMAIN schema : Tools!Rivals(p, q) => p = q)
            => Tools!TransformParameters(schema, one) = Tools!TransformParameters(schema, other)
<1>1. CASE schema = <<>>
  BY <1>1 DEF Tools!TransformParameters
<1>2. CASE schema # <<>>
  <2>1. Rooted(schema)  BY <1>2 DEF Rooted
  <2>2. ASSUME NEW last \in Tools!LastWritten(schema)
        PROVE  Tools!Names(Tools!TransformParameters(schema, last), <<>>) = SentNames(schema, <<>>)
    <3> DEFINE made == Tools!TransformParameters(schema, last)
    <3>1. <<>> \in KeptPaths(schema, last) /\ Tools!CleanPath(<<>>) = <<>>
      BY <2>1, KeptStep, CleanPaths
    <3>2. Tools!Opened(schema, <<>>)  BY DEF Tools!Opened
    <3>3. Tools!Names(made, Tools!CleanPath(<<>>)) = SentNames(schema, <<>>)
      BY <2>1, <3>1, <3>2, SentNamesAre
    <3> HIDE DEF made
    <3> QED BY <3>1, <3>3 DEF made
  <2>3. ASSUME \A p, q \in DOMAIN schema : Tools!Rivals(p, q) => p = q,
               NEW last \in Tools!LastWritten(schema)
        PROVE  last = Tried(schema)
    <3>1. /\ last \subseteq Tried(schema)
          /\ \A p \in Tried(schema) : \E q \in last : q = p \/ Tools!Rivals(p, q)
      BY <2>1, LastAre
    <3>2. Tried(schema) \subseteq DOMAIN schema  BY DEF Tried
    <3> QED BY <2>3, <3>1, <3>2
  <2>4. (\A p, q \in DOMAIN schema : Tools!Rivals(p, q) => p = q) => one = other
    BY <2>3
  <2> QED BY <2>2, <2>4
<1> QED BY <1>1, <1>2

\* What is sent of the i-th tool of a list.
LEMMA ToolSent ==
  ASSUME ToolInv, NEW h \in Handlers, toolPc[h] = "send", NEW i \in DOMAIN definitions[h]
  PROVE  LET t == Named(tools[h])[i]
         IN /\ i \in DOMAIN Named(tools[h]) /\ t \in ToSet(tools[h]) /\ Tools!IsSchema(t.schema)
            /\ \E last \in Tools!LastWritten(t.schema) :
                 definitions[h][i] = [name |-> t.name,
                                      schema |-> Tools!TransformParameters(t.schema, last)]
<1>1. tools[h] \in OpenAITools /\ definitions[h] \in Tools!ValidateAndTransformTools(tools[h])
  BY DEF ToolInv, OwnTools
<1>2. Tools!AreTools(tools[h])  BY <1>1, ClientsAssumption
<1>3. /\ i \in DOMAIN Named(tools[h])
      /\ \E last \in Tools!LastWritten(Named(tools[h])[i].schema) :
           definitions[h][i]
             = [name |-> Named(tools[h])[i].name,
                schema |-> Tools!TransformParameters(Named(tools[h])[i].schema, last)]
  BY <1>1, Validated
<1> QED BY <1>2, <1>3, NamedTools

\* Of any tools, what need not be simplified is sent as it is, from the cache or
\* not (tools.go:77, tools.go:159, tools.go:213).
THEOREM SimpleIsAlwaysKept == Spec => []SimpleKept
<1>1. ToolInv => SimpleKept
  <2> SUFFICES ASSUME ToolInv, NEW h \in Handlers, toolPc[h] = "send",
                      NEW i \in DOMAIN definitions[h]
               PROVE  \E t \in Tools!ToSet(tools[h]) :
                        /\ t.name = definitions[h][i].name
                        /\ \A p \in DOMAIN t.schema \ {<<>>} : Tools!Simple(t.schema, p) =>
                             LET made == definitions[h][i].schema
                                 needed(schema) ==
                                   Tools!Last(p) \in Tools!ToSet(schema[Tools!Parent(p)].required)
                             IN /\ p \in DOMAIN made /\ (needed(t.schema) => needed(made))
                                /\ made[p].type = t.schema[p].type
                                /\ t.schema[p].type = "array" =>
                                     t.schema[p].items \in {"", made[p].items}
                                /\ t.schema[p].type \in {"array", "object"}
                                   \/ made[p].constraints = t.schema[p].constraints \cap Copied
    BY DEF SimpleKept, Tools!SimpleKept
  <2> DEFINE t == Named(tools[h])[i]
  <2>1. t \in ToSet(tools[h]) /\ Tools!IsSchema(t.schema)  BY ToolSent
  <2>2. \E last \in Tools!LastWritten(t.schema) :
          definitions[h][i] = [name |-> t.name,
                               schema |-> Tools!TransformParameters(t.schema, last)]
    BY ToolSent
  <2> HIDE DEF t
  <2>3. PICK last \in Tools!LastWritten(t.schema) :
          definitions[h][i] = [name |-> t.name,
                               schema |-> Tools!TransformParameters(t.schema, last)]
    BY <2>2
  <2> DEFINE made == definitions[h][i].schema
  <2>4. definitions[h][i].name = t.name /\ made = Tools!TransformParameters(t.schema, last)
    BY <2>3
  <2>5. t \in Tools!ToSet(tools[h])  BY <2>1, SameSet
  <2> DEFINE schema == t.schema
  <2>6. Tools!IsSchema(schema)  BY <2>1
  <2> HIDE DEF made, schema
  <2>7. ASSUME NEW p \in DOMAIN schema \ {<<>>}, Tools!Simple(schema, p)
        PROVE  AsItIs(schema, made, p)
    <3>1. schema # <<>>  OBVIOUS
    <3>2. Rooted(schema)  BY <2>6, <3>1 DEF Rooted
    <3>3. last \in Tools!LastWritten(schema) /\ made = Tools!TransformParameters(schema, last)
      BY <2>4 DEF schema
    <3> QED BY <2>7, <3>2, <3>3, SimpleIsSent
  <2>8. /\ t.name = definitions[h][i].name
        /\ \A p \in DOMAIN t.schema \ {<<>>} : Tools!Simple(t.schema, p) =>
             AsItIs(t.schema, definitions[h][i].schema, p)
    BY <2>4, <2>7 DEF made, schema
  <2> HIDE DEF t
  <2> QED BY <2>5, <2>8 DEF AsItIs
<1> QED BY <1>1, ToolsAreOwn, PTL

\* Of any tools, the same ones are sent with the same names at their roots, and,
\* unless two names collapse into one, in the same form (tools.go:109,
\* processor.go:88).
THEOREM FormIsAlwaysSame == Spec => []SameForm
<1>1. ToolInv => SameForm
  <2> SUFFICES ASSUME ToolInv, NEW h \in Handlers, NEW k \in Handlers,
                      toolPc[h] = "send", toolPc[k] = "send", tools[h] = tools[k]
               PROVE  /\ \A i \in DOMAIN definitions[h] :
                           Tools!Names(definitions[h][i].schema, <<>>)
                             = Tools!Names(definitions[k][i].schema, <<>>)
                      /\ Tools!Collapsing(tools[h]) \/ definitions[h] = definitions[k]
    BY DEF SameForm, Tools!SameForm
  <2> DEFINE list == tools[h]
  <2>1. /\ DOMAIN definitions[h] = DOMAIN Named(list) /\ DOMAIN definitions[k] = DOMAIN Named(list)
        /\ definitions[h] = [i \in DOMAIN Named(list) |-> definitions[h][i]]
        /\ definitions[k] = [i \in DOMAIN Named(list) |-> definitions[k][i]]
    <3>1. /\ definitions[h] \in Tools!ValidateAndTransformTools(list)
          /\ definitions[k] \in Tools!ValidateAndTransformTools(list)
      BY DEF ToolInv, OwnTools
    <3> HIDE DEF list
    <3> QED BY <3>1, Validated
  <2>2. ASSUME NEW i \in DOMAIN Named(list)
        PROVE  /\ Tools!Names(definitions[h][i].schema, <<>>)
                    = Tools!Names(definitions[k][i].schema, <<>>)
               /\ Tools!Collapsing(list) \/ definitions[h][i] = definitions[k][i]
    <3> DEFINE t == Named(list)[i]
    <3>1. /\ t \in ToSet(list) /\ Tools!IsSchema(t.schema)
          /\ \E last \in Tools!LastWritten(t.schema) :
               definitions[h][i] = [name |-> t.name,
                                    schema |-> Tools!TransformParameters(t.schema, last)]
      BY <2>1, ToolSent
    <3>2. \E last \in Tools!LastWritten(t.schema) :
            definitions[k][i] = [name |-> t.name,
                                 schema |-> Tools!TransformParameters(t.schema, last)]
      BY <2>1, ToolSent
    <3> HIDE DEF t, list
    <3>3. PICK one \in Tools!LastWritten(t.schema) :
            definitions[h][i] = [name |-> t.name,
                                 schema |-> Tools!TransformParameters(t.schema, one)]
      BY <3>1
    <3>4. PICK other \in Tools!LastWritten(t.schema) :
            definitions[k][i] = [name |-> t.name,
                                 schema |-> Tools!TransformParameters(t.schema, other)]
      BY <3>2
    <3>5. /\ Tools!Names(Tools!TransformParameters(t.schema, one), <<>>)
               = Tools!Names(Tools!TransformParameters(t.schema, other), <<>>)
          /\ (\A p, q \in DOMAIN t.schema : Tools!Rivals(p, q) => p = q)
             => Tools!TransformParameters(t.schema, one) = Tools!TransformParameters(t.schema, other)
      BY <3>1, OneForm
    <3>6. \/ Tools!Collapsing(list)
          \/ \A p, q \in DOMAIN t.schema : Tools!Rivals(p, q) => p = q
      BY <3>1, SameSet DEF Tools!Collapsing
    <3>7. /\ definitions[h][i].schema = Tools!TransformParameters(t.schema, one)
          /\ definitions[k][i].schema = Tools!TransformParameters(t.schema, other)
      BY <3>3, <3>4
    <3> QED BY <3>3, <3>4, <3>5, <3>6, <3>7
  <2>3. (\A i \in DOMAIN Named(list) : definitions[h][i] = definitions[k][i])
        => definitions[h] = definitions[k]
    BY <2>1
  <2>4. Tools!Collapsing(list) \/ definitions[h] = definitions[k]
    BY <2>2, <2>3
  <2> QED BY <2>1, <2>2, <2>4
<1> QED BY <1>1, ToolsAreOwn, PTL
=============================================================================
