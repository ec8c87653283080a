----------------------- MODULE ServerLifecycle_proofs -----------------------
(***************************************************************************)
(* The request history of a process that is closed, killed and started     *)
(* again at any point: no record is doubled or lost, the buffer and the    *)
(* history stay within their bounds, statistics never list more requests   *)
(* than they count, and a closing save with no request in progress saves   *)
(* the count of all of them, and their records too if flushLoop does not   *)
(* flush meanwhile.  For any handlers, sizes, records and restarts.        *)
(*                                                                         *)
(* None of these is inductive.  The invariant below adds the records that  *)
(* handlers have timed and not yet appended (Pending), the copies on their *)
(* way to the storage (Sound, Counted), the handlers about to flush        *)
(* (Flushing) and the path of Close (Closing, Settled).                    *)
(***************************************************************************)
EXTENDS ServerLifecycle, FiniteSetTheorems, TLAPS

-----------------------------------------------------------------------------
(* The invariant.                                                          *)

Snapshots == [total : Nat, history : Seq(Records)]

\* Where flushBuffer returns to.
ReturnTo == {"idle", "debounce", "snapshot", "copyHistory"}

\* The record of a handler is timed and not yet in the buffer.
Pending(h) == pc[h] \in {"count", "buffer"}

Types ==
  /\ total \in Nat /\ made \in 0 .. MaxRecords /\ base \in 0 .. made
  /\ restarts \in 0 .. MaxRestarts /\ recent \in BOOLEAN /\ closed \in BOOLEAN
  /\ buffer \in Seq(Records) /\ history \in Seq(Records) /\ stored \in Snapshots
  /\ pc \in [Goroutines -> Places] /\ ret \in [Goroutines -> ReturnTo]
  /\ batch \in [Goroutines -> Seq(Records)] /\ copied \in [Goroutines -> Snapshots]
  /\ record \in [Handlers -> 0 .. MaxRecords]
  /\ \A g \in Goroutines : batch[g] # <<>> <=> pc[g] = "merge"
  /\ \A h \in Handlers : Pending(h) => record[h] \in 1 .. made

LifeTypes == /\ stage \in Stages /\ busy \in [Handlers -> BOOLEAN]
             /\ quiet \in BOOLEAN /\ still \in BOOLEAN

\* The records the service holds.
Held == ToSet(buffer) \cup ToSet(history) \cup Carried

\* A history that can be loaded: no record twice, none to come.
Sound(s) == IsInjective(s) /\ ToSet(s) \subseteq 1 .. made

Distinct ==
  /\ NeverDoubled
  /\ Held \subseteq 1 .. made
  /\ \A h \in Handlers : Pending(h) => record[h] \notin Held
  /\ \A h, k \in Handlers : Pending(h) /\ Pending(k) /\ record[h] = record[k] => h = k
  /\ Sound(stored.history) /\ \A g \in Goroutines : Sound(copied[g].history)

\* The handlers about to take the buffer.
Flushing == {h \in Handlers : pc[h] = "flush"}

Sizes ==
  /\ Len(history) <= HistorySize /\ Len(stored.history) <= HistorySize
  /\ \A g \in Goroutines : Len(copied[g].history) <= HistorySize
  /\ Len(buffer) < BatchSize + Cardinality(Flushing)

\* The handlers whose request is timed and not yet counted.
Timing == {h \in Handlers : pc[h] = "count"}

Totals ==
  /\ total + Cardinality(Timing) <= made
  /\ stored.total <= made /\ \A g \in Goroutines : copied[g].total <= made

\* The records that were counted and not given up.
Listed == Held \cup {record[h] : h \in {k \in Handlers : pc[k] = "buffer"}}

Counted ==
  /\ Cardinality(Listed) <= total
  /\ Len(stored.history) <= stored.total
  /\ \A g \in Goroutines :
       /\ pc[g] = "copyTotal" => Len(copied[g].history) <= total
       /\ pc[g] = "save" => Len(copied[g].history) <= copied[g].total

\* flushLoop flushes and does nothing else.
FlushLoop == pc[Ticker] \in {"idle", "flush", "merge", "ended"} /\ ret[Ticker] = "idle"

\* The path of a Close with no request in progress: the counter stays as it is,
\* and the first flush empties the buffer for good.
Closing == quiet =>
  /\ stage \in {"closing", "exited"} /\ closed
  /\ \A h \in Handlers : ~busy[h] /\ pc[h] = "idle"
  /\ pc[Closer] \in {"stop", "flush", "merge", "snapshot", "copyHistory", "copyTotal", "save",
                     "saved", "failed"}
  /\ pc[Closer] \in {"flush", "merge"} => ret[Closer] \in {"snapshot", "copyHistory"}
  /\ pc[Closer] # "stop" /\ ~(pc[Closer] = "flush" /\ ret[Closer] = "snapshot") => buffer = <<>>
  /\ pc[Closer] = "save" => copied[Closer].total = total
  /\ pc[Closer] = "saved" => stored.total = total

\* With flushLoop waiting or ended as well, nothing is left for the second flush
\* of Close, and what it copies stays as it is.
Settled == quiet /\ still =>
  /\ pc[Ticker] \in {"idle", "ended"}
  /\ pc[Closer] = "merge" => ret[Closer] = "snapshot"
  /\ pc[Closer] \in {"copyTotal", "save"} => copied[Closer].history = history
  /\ pc[Closer] = "saved" => stored.history = history

IInv == /\ Types /\ LifeTypes /\ Distinct /\ NeverLost /\ Sizes /\ Totals /\ Counted
        /\ FlushLoop /\ Closing /\ Settled

-----------------------------------------------------------------------------
(* Sequences of records.                                                   *)

\* What a sequence has as its elements.
LEMMA SetOf ==
  ASSUME NEW S, NEW s \in Seq(S)
  PROVE  /\ ToSet(s) \subseteq S
         /\ \A i \in 1 .. Len(s) : s[i] \in ToSet(s)
         /\ \A e \in ToSet(s) : \E i \in 1 .. Len(s) : e = s[i]
         /\ s = <<>> <=> ToSet(s) = {}
         /\ IsInjective(s) <=> \A i, k \in 1 .. Len(s) : s[i] = s[k] => i = k
<1>1. DOMAIN s = 1 .. Len(s) /\ Len(s) \in Nat /\ \A i \in 1 .. Len(s) : s[i] \in S
  OBVIOUS
<1>2. ToSet(s) = {s[i] : i \in 1 .. Len(s)}
  BY <1>1, Zenon DEF ToSet
<1>3. s = <<>> <=> Len(s) = 0
  OBVIOUS
<1>4. s = <<>> <=> ToSet(s) = {}
  BY <1>1, <1>2, <1>3
<1>5. IsInjective(s) <=> \A i, k \in 1 .. Len(s) : s[i] = s[k] => i = k
  BY <1>1, Zenon DEF IsInjective
<1> QED
  BY <1>1, <1>2, <1>4, <1>5

\* A new element appended to a sequence without repetitions.
LEMMA AppendedOnce ==
  ASSUME NEW S, NEW s \in Seq(S), NEW e \in S
  PROVE  /\ Append(s, e) \in Seq(S) /\ Len(Append(s, e)) = Len(s) + 1
         /\ ToSet(Append(s, e)) = ToSet(s) \cup {e}
         /\ IsInjective(s) /\ e \notin ToSet(s) => IsInjective(Append(s, e))
<1> DEFINE t == Append(s, e)
<1>1. /\ t \in Seq(S) /\ Len(t) = Len(s) + 1 /\ Len(s) \in Nat
      /\ \A i \in 1 .. Len(s) : t[i] = s[i]
      /\ t[Len(s) + 1] = e
  OBVIOUS
<1> HIDE DEF t
<1>2. ToSet(t) = ToSet(s) \cup {e}
  <2>1. ASSUME NEW x \in ToSet(t) PROVE x \in ToSet(s) \cup {e}
    BY <1>1, SetOf
  <2>2. ASSUME NEW x \in ToSet(s) \cup {e} PROVE x \in ToSet(t)
    BY <1>1, SetOf
  <2> QED
    BY <2>1, <2>2
<1>3. ASSUME IsInjective(s), e \notin ToSet(s) PROVE IsInjective(t)
  BY <1>1, <1>3, SetOf
<1> QED
  BY <1>1, <1>2, <1>3 DEF t

\* Two sequences without repetitions that have no element in common.
LEMMA JoinedOnce ==
  ASSUME NEW S, NEW s \in Seq(S), NEW t \in Seq(S)
  PROVE  /\ s \o t \in Seq(S) /\ Len(s \o t) = Len(s) + Len(t)
         /\ ToSet(s \o t) = ToSet(s) \cup ToSet(t)
         /\ IsInjective(s) /\ IsInjective(t) /\ ToSet(s) \cap ToSet(t) = {} => IsInjective(s \o t)
<1> DEFINE j == s \o t
<1>1. /\ j \in Seq(S) /\ Len(j) = Len(s) + Len(t) /\ Len(s) \in Nat /\ Len(t) \in Nat
      /\ \A i \in 1 .. Len(s) : j[i] = s[i]
      /\ \A i \in 1 .. Len(j) : i > Len(s) => j[i] = t[i - Len(s)]
      /\ \A i \in 1 .. Len(t) : j[Len(s) + i] = t[i]
  OBVIOUS
<1> HIDE DEF j
<1>2. ToSet(j) = ToSet(s) \cup ToSet(t)
  <2>1. ASSUME NEW x \in ToSet(j) PROVE x \in ToSet(s) \cup ToSet(t)
    <3>1. PICK i \in 1 .. Len(j) : x = j[i]
      BY <1>1, SetOf
    <3>2. CASE i > Len(s)
      <4>1. i - Len(s) \in 1 .. Len(t)
        BY <1>1, <3>2
      <4>2. x = t[i - Len(s)]
        BY <1>1, <3>1, <3>2
      <4>3. t[i - Len(s)] \in ToSet(t)
        BY <4>1, SetOf
      <4> QED
        BY <4>2, <4>3
    <3>3. CASE i <= Len(s)
      <4>1. i \in 1 .. Len(s)
        BY <1>1, <3>3
      <4> QED
        BY <1>1, <3>1, <4>1, SetOf
    <3> QED
      BY <1>1, <3>2, <3>3
  <2>2. ASSUME NEW x \in ToSet(s) PROVE x \in ToSet(j)
    <3>1. PICK i \in 1 .. Len(s) : x = s[i]
      BY SetOf
    <3>2. i \in 1 .. Len(j) /\ x = j[i]
      BY <1>1, <3>1
    <3> QED
      BY <1>1, <3>2, SetOf
  <2>3. ASSUME NEW x \in ToSet(t) PROVE x \in ToSet(j)
    <3>1. PICK i \in 1 .. Len(t) : x = t[i]
      BY SetOf
    <3>2. Len(s) + i \in 1 .. Len(j) /\ x = j[Len(s) + i]
      BY <1>1, <3>1
    <3> QED
      BY <1>1, <3>2, SetOf
  <2> QED
    BY <2>1, <2>2, <2>3
<1>3. ASSUME IsInjective(s), IsInjective(t), ToSet(s) \cap ToSet(t) = {} PROVE IsInjective(j)
  <2>1. ASSUME NEW i \in 1 .. Len(j), NEW k \in 1 .. Len(j), j[i] = j[k], i < k PROVE FALSE
    <3>1. CASE k <= Len(s)
      <4>1. i \in 1 .. Len(s) /\ k \in 1 .. Len(s) /\ s[i] = s[k]
        BY <1>1, <2>1, <3>1
      <4> QED
        BY <1>3, <2>1, <4>1, SetOf
    <3>2. CASE i > Len(s)
      <4>1. /\ i - Len(s) \in 1 .. Len(t) /\ k - Len(s) \in 1 .. Len(t)
            /\ t[i - Len(s)] = t[k - Len(s)] /\ i - Len(s) # k - Len(s)
        BY <1>1, <2>1, <3>2
      <4> QED
        BY <1>3, <4>1, SetOf
    <3>3. CASE i <= Len(s) /\ k > Len(s)
      <4>1. i \in 1 .. Len(s) /\ k - Len(s) \in 1 .. Len(t) /\ s[i] = t[k - Len(s)]
        BY <1>1, <2>1, <3>3
      <4>2. s[i] \in ToSet(s) /\ t[k - Len(s)] \in ToSet(t)
        BY <4>1, SetOf
      <4> QED
        BY <1>3, <4>1, <4>2
    <3> QED
      BY <1>1, <2>1, <3>1, <3>2, <3>3
  <2>2. \A i, k \in 1 .. Len(j) : j[i] = j[k] => i = k
    <3> SUFFICES ASSUME NEW i \in 1 .. Len(j), NEW k \in 1 .. Len(j), j[i] = j[k], i # k
                 PROVE  FALSE
      OBVIOUS
    <3>1. i < k \/ k < i
      OBVIOUS
    <3> QED
      BY <2>1, <3>1
  <2> QED
    BY <1>1, <2>2, SetOf
<1> QED
  BY <1>1, <1>2, <1>3 DEF j

\* The newest elements of a sequence.
LEMMA NewestKept ==
  ASSUME NEW S, NEW s \in Seq(S), NEW n \in Nat \ {0}
  PROVE  /\ Newest(n, s) \in Seq(S)
         /\ Len(Newest(n, s)) = IF Len(s) > n THEN n ELSE Len(s)
         /\ Len(s) <= n => Newest(n, s) = s
         /\ ToSet(Newest(n, s)) \subseteq ToSet(s)
         /\ IsInjective(s) => IsInjective(Newest(n, s))
<1>1. CASE Len(s) <= n
  BY <1>1 DEF Newest
<1>2. CASE Len(s) > n
  <2> DEFINE d == Len(s) - n
             t == SubSeq(s, d + 1, Len(s))
  <2>1. d \in Nat /\ Len(s) \in Nat /\ d + n = Len(s)
    BY <1>2
  <2>2. t \in Seq(S) /\ Len(t) = n /\ \A i \in 1 .. n : t[i] = s[d + i]
    BY <1>2
  <2>3. \A i \in 1 .. n : d + i \in 1 .. Len(s)
    BY <2>1
  <2>4. Newest(n, s) = t
    BY <1>2 DEF Newest
  <2> HIDE DEF d, t
  <2>5. ToSet(t) \subseteq ToSet(s)
    <3> SUFFICES ASSUME NEW x \in ToSet(t) PROVE x \in ToSet(s)
      OBVIOUS
    <3>1. PICK i \in 1 .. n : x = s[d + i]
      BY <2>2, SetOf
    <3> QED
      BY <2>3, <3>1, SetOf
  <2>6. ASSUME IsInjective(s) PROVE IsInjective(t)
    <3> SUFFICES ASSUME NEW i \in 1 .. n, NEW k \in 1 .. n, t[i] = t[k] PROVE i = k
      BY <2>2, SetOf
    <3>1. s[d + i] = s[d + k] /\ d + i \in 1 .. Len(s) /\ d + k \in 1 .. Len(s)
      BY <2>2, <2>3
    <3>2. d + i = d + k
      BY <2>6, <3>1, SetOf
    <3> QED
      BY <2>1, <3>2
  <2> QED
    BY <1>2, <2>1, <2>2, <2>4, <2>5, <2>6
<1> QED
  BY <1>1, <1>2

\* Without repetitions the length is the number of elements.
LEMMA LengthCounts ==
  ASSUME NEW S, NEW s \in Seq(S)
  PROVE  /\ IsFiniteSet(ToSet(s)) /\ Cardinality(ToSet(s)) <= Len(s)
         /\ IsInjective(s) => Cardinality(ToSet(s)) = Len(s)
<1>1. s \in Surjection(1 .. Len(s), ToSet(s))
  <2>1. s \in [1 .. Len(s) -> ToSet(s)]
    BY SetOf
  <2> QED
    BY <2>1, SetOf DEF Surjection
<1>2. IsFiniteSet(1 .. Len(s)) /\ Cardinality(1 .. Len(s)) = Len(s)
  <2>1. Len(s) \in Nat
    OBVIOUS
  <2>2. IsFiniteSet(1 .. Len(s)) /\ Cardinality(1 .. Len(s)) = IF 1 > Len(s) THEN 0 ELSE Len(s) - 1 + 1
    BY <2>1, FS_Interval
  <2> QED
    BY <2>1, <2>2
<1>3. IsInjective(s) => s \in Injection(1 .. Len(s), ToSet(s))
  BY <1>1 DEF Surjection, Injection
<1> QED
  BY <1>1, <1>2, <1>3, FS_Surjection
-----------------------------------------------------------------------------
(* Steps and types.                                                        *)

\* A goroutine calls flushBuffer, stops or ends, or something happens besides
\* the history.
Calls ==
  /\ UNCHANGED <<total, buffer, history, stored, batch, copied, record, ghosts>>
  /\ recent' \in BOOLEAN /\ closed' \in BOOLEAN
  /\ \/ UNCHANGED <<pc, ret>>
     \/ \E g \in Goroutines, place \in {"flush", "stop", "ended"} :
          /\ pc[g] \in {"idle", "stop", "snapshot"} /\ Goto(g, place)
          /\ ret' \in [Goroutines -> ReturnTo]

\* What a step of the process is to the history.
LEMMA Steps ==
  ASSUME Types, [LifeNext]_lifeVars
  PROVE  \/ Calls \/ Restart
         \/ \E h \in Handlers : Time(h) \/ Count(h) \/ AppendRecord(h) \/ Debounce(h)
         \/ \E g \in Goroutines : Flush(g)
<1>1. recent \in BOOLEAN /\ closed \in BOOLEAN
  BY DEF Types
<1>2. \A g \in Goroutines, place \in ReturnTo :
        [ret EXCEPT ![g] = place] \in [Goroutines -> ReturnTo]
  BY DEF Types
<1>3. {"idle", "snapshot", "copyHistory"} \subseteq ReturnTo /\ ret \in [Goroutines -> ReturnTo]
  BY DEF ReturnTo, Types
<1>4. ASSUME NEW h \in Handlers, Accept(h) PROVE Calls
  BY <1>1, <1>4 DEF Accept, Calls, vars, service, calls, ghosts
<1>5. ASSUME NEW h \in Handlers, Serve(h) PROVE Calls \/ Time(h)
  <2>1. h \in Goroutines
    BY DEF Goroutines
  <2> QED
    BY <1>1, <1>2, <1>3, <1>5, <2>1 DEF Serve, Show, Calls, CallFlush, service, ghosts
<1>6. ASSUME NEW h \in Handlers, RunOn(Record(h))
      PROVE  Count(h) \/ AppendRecord(h) \/ Debounce(h)
  BY <1>6 DEF RunOn, Record
<1>7. ASSUME NEW g \in Goroutines, RunOn(Flush(g)) PROVE Flush(g)
  BY <1>7 DEF RunOn
<1>8. Ticker \in Goroutines /\ Closer \in Goroutines
  BY DEF Goroutines
<1>9. CASE FlushOnTick
  BY <1>1, <1>2, <1>3, <1>8, <1>9 DEF FlushOnTick, Tick, Calls, CallFlush, service, ghosts
<1>10. CASE RunOn(FlushLoopEnds)
  BY <1>1, <1>3, <1>8, <1>10 DEF RunOn, FlushLoopEnds, Calls, service, ghosts
<1>11. CASE RunOn(IntervalEnds)
  BY <1>1, <1>11 DEF RunOn, IntervalEnds, Calls, calls, ghosts
<1>12. CASE RunOn(StopTimer)
  BY <1>1, <1>2, <1>3, <1>8, <1>12 DEF RunOn, StopTimer, Calls, CallFlush, service, ghosts
<1>13. CASE RunOn(CloseSnapshot)
  BY <1>1, <1>2, <1>3, <1>8, <1>13 DEF RunOn, CloseSnapshot, Calls, CallFlush, service, ghosts
<1>14. CASE Signalled \/ StopListening \/ Exit
  BY <1>1, <1>14 DEF Signalled, StopListening, Exit, Calls, vars, service, calls, ghosts
<1>15. CASE CloseServer
  BY <1>1, <1>3, <1>8, <1>15 DEF CloseServer, BeginClose, Calls, ghosts
<1>16. CASE StartAgain
  BY <1>16 DEF StartAgain
<1>17. CASE UNCHANGED lifeVars
  BY <1>1, <1>17 DEF lifeVars, Calls, vars, service, calls, ghosts
<1> QED
  BY <1>4, <1>5, <1>6, <1>7, <1>9, <1>10, <1>11, <1>12, <1>13, <1>14, <1>15, <1>16, <1>17
  DEF LifeNext

LEMMA LifeTypesKept ==
  ASSUME LifeTypes, [LifeNext]_lifeVars
  PROVE  LifeTypes'
BY DEF LifeTypes, LifeNext, Accept, Serve, RunOn, FlushOnTick, InProgress, Signalled, StopListening, CloseServer, Exit,
       StartAgain, lifeVars, Stages

LEMMA FlushIsTyped ==
  ASSUME Types, NEW g \in Goroutines, TakeBatch(g) \/ MergeBatch(g)
  PROVE  Types'
<1> USE MetricsAssumption DEF Types
<1>1. <<>> \in Seq(Records) /\ ReturnTo \subseteq Places /\ "idle" \in ReturnTo /\ "merge" \in Places
  BY DEF ReturnTo, Places
<1>2. CASE TakeBatch(g)
  <2>1. /\ UNCHANGED <<total, history, recent, closed, stored, copied, record, made, base, restarts>>
        /\ batch' = [batch EXCEPT ![g] = buffer] /\ buffer' = <<>>
    BY <1>2 DEF TakeBatch, ghosts
  <2>2. CASE buffer = <<>>
    <3>1. pc' = [pc EXCEPT ![g] = ret[g]] /\ ret' = [ret EXCEPT ![g] = "idle"]
      BY <1>2, <2>2 DEF TakeBatch, ReturnFromFlush, Goto
    <3>2. ret[g] \notin {"merge", "count", "buffer"} /\ ret[g] \in Places /\ ret[g] \in ReturnTo
      BY <1>1 DEF ReturnTo
    <3> QED
      BY <1>1, <2>1, <2>2, <3>1, <3>2 DEF Pending
  <2>3. CASE buffer # <<>>
    <3>1. pc' = [pc EXCEPT ![g] = "merge"] /\ ret' = ret
      BY <1>2, <2>3 DEF TakeBatch, Goto
    <3> QED
      BY <1>1, <2>1, <2>3, <3>1 DEF Pending
  <2> QED
    BY <2>2, <2>3
<1>3. CASE MergeBatch(g)
  <2>1. /\ UNCHANGED <<total, buffer, recent, closed, stored, copied, record, made, base, restarts>>
        /\ batch' = [batch EXCEPT ![g] = <<>>] /\ history' = Merged(history, batch[g])
        /\ pc' = [pc EXCEPT ![g] = ret[g]] /\ ret' = [ret EXCEPT ![g] = "idle"]
    BY <1>3 DEF MergeBatch, ghosts, ReturnFromFlush, Goto
  <2>2. ret[g] \notin {"merge", "count", "buffer"} /\ ret[g] \in Places /\ ret[g] \in ReturnTo
    BY <1>1 DEF ReturnTo
  <2>3. history' \in Seq(Records)
    <3>1. batch[g] \in Seq(Records)
      OBVIOUS
    <3>2. history \o batch[g] \in Seq(Records)
      BY <3>1, JoinedOnce
    <3> QED
      BY <2>1, <3>2, NewestKept DEF Merged
  <2> QED
    BY <1>1, <2>1, <2>2, <2>3 DEF Pending
<1> QED
  BY <1>2, <1>3

\* Every variable of the metrics service has its type.
LEMMA TypesKept ==
  ASSUME Types, [LifeNext]_lifeVars
  PROVE  Types'
<1> USE MetricsAssumption DEF Types
<1>1. Handlers \subseteq Goroutines
  BY DEF Goroutines
<1>2. CASE Calls
  <2>1. CASE UNCHANGED <<pc, ret>>
    BY <1>2, <2>1 DEF Calls, ghosts, Pending
  <2>2. ASSUME NEW g \in Goroutines, NEW place \in {"flush", "stop", "ended"},
               pc[g] \in {"idle", "stop", "snapshot"}, Goto(g, place),
               ret' \in [Goroutines -> ReturnTo]
        PROVE  Types'
    BY <1>2, <2>2 DEF Calls, ghosts, Goto, Places, Pending
  <2> QED
    BY <1>2, <2>1, <2>2 DEF Calls
<1>3. ASSUME NEW h \in Handlers, Time(h) PROVE Types'
  BY <1>1, <1>3 DEF Time, service, Goto, Places, Pending
<1>4. ASSUME NEW h \in Handlers, Count(h) PROVE Types'
  BY <1>1, <1>4 DEF Count, ghosts, Goto, Places, Pending
<1>5. ASSUME NEW h \in Handlers, AppendRecord(h) PROVE Types'
  <2>1. buffer' \in Seq(Records)
    <3>1. record[h] \in Records
      BY <1>5 DEF AppendRecord, Pending, Records
    <3> QED
      BY <1>5, <3>1, AppendedOnce DEF AppendRecord
  <2>2. CASE Len(buffer') >= BatchSize
    BY <1>1, <1>5, <2>1, <2>2 DEF AppendRecord, CallFlush, ghosts, Goto, Places, Pending, ReturnTo
  <2>3. CASE ~(Len(buffer') >= BatchSize)
    BY <1>1, <1>5, <2>1, <2>3 DEF AppendRecord, ghosts, Goto, Places, Pending
  <2> QED
    BY <2>2, <2>3
<1>6. ASSUME NEW h \in Handlers, Debounce(h) PROVE Types'
  <2>1. CASE recent
    <3>1. /\ UNCHANGED <<total, buffer, history, closed, stored, ret, batch, copied, made, base,
                         restarts>>
          /\ recent' = TRUE /\ pc' = [pc EXCEPT ![h] = "idle"]
          /\ record' = [record EXCEPT ![h] = 0]
      BY <1>6, <2>1 DEF Debounce, ghosts, Goto
    <3> QED
      BY <1>1, <1>6, <3>1 DEF Debounce, Places, Pending
  <2>2. CASE ~recent
    BY <1>1, <1>6, <2>2 DEF Debounce, CallFlush, ghosts, Goto, Places, Pending, ReturnTo
  <2> QED
    BY <2>1, <2>2
<1>7. ASSUME NEW g \in Goroutines, CopyHistory(g) PROVE Types'
  BY <1>7 DEF CopyHistory, service, ghosts, Goto, Places, Pending, Snapshots
<1>8. ASSUME NEW g \in Goroutines, CopyTotal(g) PROVE Types'
  <2>1. copied' \in [Goroutines -> Snapshots]
    <3>1. [copied[g] EXCEPT !.total = total] \in Snapshots
      BY DEF Snapshots
    <3> QED
      BY <1>8, <3>1 DEF CopyTotal
  <2> QED
    BY <1>8, <2>1 DEF CopyTotal, service, ghosts, Goto, Places, Pending
<1>9. ASSUME NEW g \in Goroutines, Save(g) PROVE Types'
  <2>1. /\ UNCHANGED <<total, buffer, history, recent, closed, ret, batch, made, base, restarts>>
        /\ copied' = [copied EXCEPT ![g] = NoStats]
        /\ stored' \in Snapshots
        /\ record' = [h \in Handlers |-> IF h = g THEN 0 ELSE record[h]]
    BY <1>9 DEF Save, service, ghosts
  <2>2. PICK place \in {"idle", "saved", "failed"} : pc' = [pc EXCEPT ![g] = place]
    BY <1>9 DEF Save, Goto
  <2>3. NoStats \in Snapshots
    BY DEF NoStats, Snapshots
  <2> QED
    BY <1>9, <2>1, <2>2, <2>3 DEF Save, Places, Pending
<1>10. CASE Restart
  <2>1. NoStats \in Snapshots /\ <<>> \in Seq(Records)
    BY DEF NoStats, Snapshots
  <2>2. total' \in Nat /\ history' \in Seq(Records) /\ restarts' \in 0 .. MaxRestarts
    BY <1>10 DEF Restart, Loaded, Snapshots
  <2>3. /\ UNCHANGED <<stored, made>> /\ base' = made
        /\ buffer' = <<>> /\ recent' = FALSE /\ closed' = FALSE
        /\ pc' = [g \in Goroutines |-> "idle"] /\ ret' = [g \in Goroutines |-> "idle"]
        /\ batch' = [g \in Goroutines |-> <<>>]
        /\ copied' = [g \in Goroutines |-> NoStats]
        /\ record' = [h \in Handlers |-> 0]
    BY <1>10 DEF Restart
  <2>4. /\ pc' \in [Goroutines -> Places] /\ ret' \in [Goroutines -> ReturnTo]
        /\ batch' \in [Goroutines -> Seq(Records)] /\ copied' \in [Goroutines -> Snapshots]
        /\ record' \in [Handlers -> 0 .. MaxRecords]
    BY <2>1, <2>3 DEF Places, ReturnTo
  <2>5. /\ \A g \in Goroutines : batch'[g] # <<>> <=> pc'[g] = "merge"
        /\ \A h \in Handlers : Pending(h)' => record'[h] \in 1 .. made'
    BY <1>1, <2>3 DEF Pending
  <2>6. made' \in 0 .. MaxRecords /\ base' \in 0 .. made'
    BY <2>3
  <2>7. recent' \in BOOLEAN /\ closed' \in BOOLEAN
    BY <2>3
  <2>8. buffer' \in Seq(Records)
    BY <2>1, <2>3
  <2>9. stored' \in Snapshots
    BY <2>3
  <2> QED
    BY <2>2, <2>4, <2>5, <2>6, <2>7, <2>8, <2>9
<1> QED
  BY <1>2, <1>3, <1>4, <1>5, <1>6, <1>7, <1>8, <1>9, <1>10, Steps, FlushIsTyped DEF Flush

-----------------------------------------------------------------------------
(* No record is doubled.                                                   *)

\* What is carried, batch by batch.
LEMMA CarriedByOne ==
  ASSUME NEW b
  PROVE  \A i : i \in UNION {ToSet(b[g]) : g \in Goroutines}
                  <=> \E g \in Goroutines : i \in ToSet(b[g])
OBVIOUS

LEMMA EmptyOnce == IsInjective(<<>>) /\ ToSet(<<>>) = {}
BY DEF IsInjective, ToSet

\* Nothing is doubled by a step that leaves the records where they are.
LEMMA DistinctStays ==
  ASSUME Distinct, UNCHANGED <<buffer, history, batch, made, stored>>,
         \A g \in Goroutines : copied'[g].history = copied[g].history,
         \A h \in Handlers : Pending(h)' => Pending(h) /\ record'[h] = record[h]
  PROVE  Distinct'
BY DEF Distinct, NeverDoubled, Held, Carried, Sound

\* A batch moves from the buffer to its carrier.
LEMMA TakeMoves ==
  ASSUME Types, NEW g \in Goroutines, TakeBatch(g)
  PROVE  /\ batch' = [batch EXCEPT ![g] = buffer] /\ buffer' = <<>>
         /\ ToSet(buffer') = {} /\ ToSet(batch[g]) = {}
         /\ Carried' = Carried \cup ToSet(buffer)
         /\ UNCHANGED <<history, stored, copied, record, made, base, total>>
         /\ Held' = Held
<1>1. /\ batch' = [batch EXCEPT ![g] = buffer] /\ buffer' = <<>>
      /\ UNCHANGED <<history, stored, copied, record, made, base, total>>
  BY DEF TakeBatch, ghosts
<1>2. ToSet(buffer') = {} /\ ToSet(batch[g]) = {}
  BY <1>1, EmptyOnce DEF Types, TakeBatch
<1>3. \A k \in Goroutines : batch'[k] = IF k = g THEN buffer ELSE batch[k]
  BY <1>1 DEF Types
<1>4. \A i : i \in Carried <=> \E k \in Goroutines : i \in ToSet(batch[k])
  BY CarriedByOne DEF Carried
<1>5. \A i : i \in Carried' <=> \E k \in Goroutines : i \in ToSet(batch'[k])
  BY CarriedByOne DEF Carried
<1>6. Carried' = Carried \cup ToSet(buffer)
  BY <1>2, <1>3, <1>4, <1>5
<1> QED
  BY <1>1, <1>2, <1>6 DEF Held

\* A batch moves from its carrier to the history, which loses its oldest.
LEMMA MergeMoves ==
  ASSUME Types, NeverDoubled, NEW g \in Goroutines, MergeBatch(g)
  PROVE  /\ batch' = [batch EXCEPT ![g] = <<>>] /\ history' = Merged(history, batch[g])
         /\ history \o batch[g] \in Seq(Records)
         /\ Len(history \o batch[g]) = Len(history) + Len(batch[g])
         /\ ToSet(history \o batch[g]) = ToSet(history) \cup ToSet(batch[g])
         /\ ToSet(history') \subseteq ToSet(history) \cup ToSet(batch[g])
         /\ IsInjective(history')
         /\ Carried' = Carried \ ToSet(batch[g]) /\ ToSet(batch[g]) \subseteq Carried
         /\ UNCHANGED <<buffer, stored, copied, record, made, base, total>>
         /\ Held' \subseteq Held
<1>1. /\ batch' = [batch EXCEPT ![g] = <<>>] /\ history' = Merged(history, batch[g])
      /\ UNCHANGED <<buffer, stored, copied, record, made, base, total>>
  BY DEF MergeBatch, ghosts
<1>2. history \in Seq(Records) /\ batch[g] \in Seq(Records)
  BY DEF Types
<1>3. \A k \in Goroutines : batch'[k] = IF k = g THEN <<>> ELSE batch[k]
  BY <1>1 DEF Types
<1>4. \A i : i \in Carried <=> \E k \in Goroutines : i \in ToSet(batch[k])
  BY CarriedByOne DEF Carried
<1>5. \A i : i \in Carried' <=> \E k \in Goroutines : i \in ToSet(batch'[k])
  BY CarriedByOne DEF Carried
<1>6. \A k, m \in Goroutines : k # m => ToSet(batch[k]) \cap ToSet(batch[m]) = {}
  BY DEF NeverDoubled
<1>7. Carried' = Carried \ ToSet(batch[g]) /\ ToSet(batch[g]) \subseteq Carried
  BY <1>3, <1>4, <1>5, <1>6, EmptyOnce
<1>8. ToSet(history) \cap ToSet(batch[g]) = {} /\ IsInjective(history) /\ IsInjective(batch[g])
  BY <1>7 DEF NeverDoubled
<1>9. /\ history \o batch[g] \in Seq(Records)
      /\ Len(history \o batch[g]) = Len(history) + Len(batch[g])
      /\ ToSet(history \o batch[g]) = ToSet(history) \cup ToSet(batch[g])
      /\ IsInjective(history \o batch[g])
  BY <1>2, <1>8, JoinedOnce
<1>10. ToSet(history') \subseteq ToSet(history) \cup ToSet(batch[g]) /\ IsInjective(history')
  BY <1>1, <1>9, NewestKept, MetricsAssumption DEF Merged
<1>11. Held' \subseteq Held
  BY <1>1, <1>7, <1>10 DEF Held
<1> QED
  BY <1>1, <1>7, <1>9, <1>10, <1>11

\* No goroutine begins to make a record in flushBuffer.
LEMMA FlushPends ==
  ASSUME Types, NEW g \in Goroutines, Flush(g), NEW h \in Handlers, Pending(h)'
  PROVE  Pending(h) /\ record'[h] = record[h]
<1>1. h \in Goroutines
  BY DEF Goroutines
<1>2. CASE TakeBatch(g) \/ MergeBatch(g)
  BY <1>1, <1>2 DEF Types, TakeBatch, MergeBatch, ReturnFromFlush, Goto, ReturnTo, Pending
<1>3. CASE CopyHistory(g) \/ CopyTotal(g)
  BY <1>1, <1>3 DEF Types, CopyHistory, CopyTotal, Goto, Pending
<1>4. CASE Save(g)
  BY <1>1, <1>4 DEF Types, Save, Goto, Pending
<1> QED
  BY <1>2, <1>3, <1>4 DEF Flush

LEMMA FlushDoublesNothing ==
  ASSUME Types, Distinct, NEW g \in Goroutines, Flush(g)
  PROVE  Distinct'
<1>1. \A h \in Handlers : Pending(h)' => Pending(h) /\ record'[h] = record[h]
  BY FlushPends
<1>2. CASE TakeBatch(g)
  <2>1. NeverDoubled'
    <3>1. \A k \in Goroutines : batch'[k] = IF k = g THEN buffer ELSE batch[k]
      BY <1>2, TakeMoves DEF Types
    <3>2. \A k \in Goroutines : ToSet(batch[k]) \cap ToSet(buffer) = {}
      BY CarriedByOne DEF Distinct, NeverDoubled, Carried
    <3>3. /\ IsInjective(buffer') /\ IsInjective(history')
          /\ \A k \in Goroutines : IsInjective(batch'[k])
      BY <1>2, <3>1, TakeMoves, EmptyOnce DEF Distinct, NeverDoubled
    <3>4. \A k, m \in Goroutines : k # m => ToSet(batch'[k]) \cap ToSet(batch'[m]) = {}
      BY <3>1, <3>2 DEF Distinct, NeverDoubled
    <3>5. /\ ToSet(buffer') \cap ToSet(history') = {}
          /\ Carried' \cap (ToSet(buffer') \cup ToSet(history')) = {}
      BY <1>2, TakeMoves DEF Distinct, NeverDoubled
    <3> QED
      BY <3>3, <3>4, <3>5 DEF NeverDoubled
  <2> QED
    BY <1>1, <1>2, <2>1, TakeMoves DEF Distinct, Sound
<1>3. CASE MergeBatch(g)
  <2>1. NeverDoubled'
    <3>1. NeverDoubled
      BY DEF Distinct
    <3>2. \A k \in Goroutines : batch'[k] = IF k = g THEN <<>> ELSE batch[k]
      BY <1>3, <3>1, MergeMoves DEF Types
    <3>3. /\ IsInjective(buffer') /\ IsInjective(history')
          /\ \A k \in Goroutines : IsInjective(batch'[k])
      BY <1>3, <3>1, <3>2, MergeMoves, EmptyOnce DEF NeverDoubled
    <3>4. \A k, m \in Goroutines : k # m => ToSet(batch'[k]) \cap ToSet(batch'[m]) = {}
      BY <3>1, <3>2, EmptyOnce DEF NeverDoubled
    <3>5. /\ ToSet(buffer') \cap ToSet(history') = {}
          /\ Carried' \cap (ToSet(buffer') \cup ToSet(history')) = {}
      <4>1. /\ UNCHANGED buffer
            /\ ToSet(history') \subseteq ToSet(history) \cup ToSet(batch[g])
            /\ Carried' = Carried \ ToSet(batch[g]) /\ ToSet(batch[g]) \subseteq Carried
        BY <1>3, <3>1, MergeMoves
      <4>2. /\ ToSet(buffer) \cap ToSet(history) = {}
            /\ Carried \cap (ToSet(buffer) \cup ToSet(history)) = {}
        BY <3>1 DEF NeverDoubled
      <4> QED
        BY <4>1, <4>2
    <3> QED
      BY <3>3, <3>4, <3>5 DEF NeverDoubled
  <2>2. UNCHANGED <<stored, copied, made>> /\ Held' \subseteq Held
    BY <1>3, MergeMoves DEF Distinct
  <2> QED
    BY <1>1, <2>1, <2>2 DEF Distinct, Sound
<1>4. CASE CopyHistory(g)
  <2>1. UNCHANGED <<buffer, history, batch, made, stored>>
    BY <1>4 DEF CopyHistory, service, ghosts
  <2>2. \A k \in Goroutines : copied'[k].history = IF k = g THEN history ELSE copied[k].history
    BY <1>4 DEF CopyHistory, Types
  <2>3. NeverDoubled' /\ Held' = Held
    BY <2>1 DEF Distinct, NeverDoubled, Held, Carried
  <2>4. Sound(history)
    BY DEF Distinct, NeverDoubled, Held, Sound
  <2> QED
    BY <1>1, <2>1, <2>2, <2>3, <2>4 DEF Distinct, Sound
<1>5. CASE CopyTotal(g)
  <2>1. UNCHANGED <<buffer, history, batch, made, stored>>
    BY <1>5 DEF CopyTotal, service, ghosts
  <2>2. \A k \in Goroutines : copied'[k].history = copied[k].history
    BY <1>5 DEF CopyTotal, Types, Snapshots
  <2> QED
    BY <1>1, <2>1, <2>2, DistinctStays
<1>6. CASE Save(g)
  <2>1. UNCHANGED <<buffer, history, batch, made>>
    BY <1>6 DEF Save, service, ghosts
  <2>2. NeverDoubled' /\ Held' = Held
    BY <2>1 DEF Distinct, NeverDoubled, Held, Carried
  <2>3. Sound(<<>>)
    BY EmptyOnce DEF Sound
  <2>4. Sound(stored'.history)
    BY <1>6 DEF Save, Distinct
  <2>5. \A k \in Goroutines : copied'[k].history = IF k = g THEN <<>> ELSE copied[k].history
    BY <1>6 DEF Save, Types, NoStats
  <2> QED
    BY <1>1, <2>1, <2>2, <2>3, <2>4, <2>5 DEF Distinct, Sound
<1> QED
  BY <1>2, <1>3, <1>4, <1>5, <1>6 DEF Flush

LEMMA HandlersDoubleNothing ==
  ASSUME Types, Distinct, NEW h \in Handlers,
         Time(h) \/ Count(h) \/ AppendRecord(h) \/ Debounce(h)
  PROVE  Distinct'
<1>1. h \in Goroutines
  BY DEF Goroutines
<1>2. CASE Time(h)
  <2>1. /\ UNCHANGED <<buffer, history, batch, stored, copied>> /\ made' = made + 1
        /\ \A k \in Handlers : record'[k] = IF k = h THEN made' ELSE record[k]
        /\ \A k \in Handlers : Pending(k)' <=> Pending(k) \/ k = h
    BY <1>1, <1>2 DEF Time, service, Types, Goto, Pending, Goroutines
  <2>2. made \in Nat /\ 1 .. made \subseteq 1 .. made' /\ made' \notin 1 .. made
    BY <2>1 DEF Types
  <2>3. NeverDoubled' /\ Held' = Held
    BY <2>1 DEF Distinct, NeverDoubled, Held, Carried
  <2>4. \A k \in Handlers : Pending(k)' => record'[k] \notin Held
    BY <2>1, <2>2 DEF Distinct
  <2>5. \A k, m \in Handlers : Pending(k)' /\ Pending(m)' /\ record'[k] = record'[m] => k = m
    BY <2>1, <2>2 DEF Distinct, Types
  <2>6. /\ Sound(stored.history)' /\ \A g \in Goroutines : Sound(copied[g].history)'
    BY <2>1, <2>2 DEF Distinct, Sound
  <2> QED
    BY <2>2, <2>3, <2>4, <2>5, <2>6 DEF Distinct
<1>3. CASE Count(h)
  <2>1. UNCHANGED <<buffer, history, batch, stored, copied, made, record>>
    BY <1>3 DEF Count, ghosts
  <2>2. \A k \in Handlers : Pending(k)' => Pending(k)
    BY <1>1, <1>3 DEF Count, Types, Goto, Pending, Goroutines
  <2> QED
    BY <2>1, <2>2, DistinctStays
<1>4. CASE AppendRecord(h)
  <2>1. /\ buffer' = Append(buffer, record[h])
        /\ UNCHANGED <<history, batch, stored, copied, made, record>>
    BY <1>4 DEF AppendRecord, ghosts
  <2>2. \A k \in Handlers : Pending(k)' <=> Pending(k) /\ k # h
    BY <1>1, <1>4 DEF AppendRecord, CallFlush, Types, Goto, Pending, Goroutines
  <2>3. Pending(h)
    BY <1>4 DEF AppendRecord, Pending
  <2>4. record[h] \in 1 .. made /\ record[h] \in Records /\ record[h] \notin Held
    BY <2>3 DEF Types, Distinct, Records
  <2>5. /\ ToSet(buffer') = ToSet(buffer) \cup {record[h]}
        /\ IsInjective(buffer) /\ record[h] \notin ToSet(buffer) => IsInjective(buffer')
    BY <2>1, <2>4, AppendedOnce DEF Types
  <2>6. Carried' = Carried
    BY <2>1 DEF Carried
  <2>7. NeverDoubled'
    BY <2>1, <2>4, <2>5, <2>6 DEF Distinct, NeverDoubled, Held
  <2>8. Held' = Held \cup {record[h]}
    BY <2>1, <2>5, <2>6 DEF Held
  <2> QED
    BY <2>1, <2>2, <2>3, <2>4, <2>7, <2>8 DEF Distinct, Sound
<1>5. CASE Debounce(h)
  <2>1. UNCHANGED <<buffer, history, batch, stored, copied, made>>
    BY <1>5 DEF Debounce, ghosts
  <2>2. \A k \in Handlers : Pending(k)' => Pending(k) /\ record'[k] = record[k]
    BY <1>1, <1>5 DEF Debounce, CallFlush, Types, Goto, Pending, Goroutines
  <2> QED
    BY <2>1, <2>2, DistinctStays
<1> QED
  BY <1>2, <1>3, <1>4, <1>5

LEMMA RestartDoublesNothing ==
  ASSUME Types, Distinct, Restart
  PROVE  Distinct'
<1>1. /\ history' = stored.history /\ buffer' = <<>> /\ UNCHANGED <<stored, made>>
      /\ pc' = [g \in Goroutines |-> "idle"] /\ batch' = [g \in Goroutines |-> <<>>]
      /\ copied' = [g \in Goroutines |-> NoStats]
  BY DEF Restart, Loaded
<1>2. Carried' = {}
  BY <1>1, EmptyOnce DEF Carried
<1>3. \A h \in Handlers : ~Pending(h)'
  BY <1>1 DEF Pending, Goroutines
<1>4. Sound(stored.history)
  BY DEF Distinct
<1>5. NeverDoubled' /\ Held' \subseteq 1 .. made'
  BY <1>1, <1>2, <1>4, EmptyOnce DEF NeverDoubled, Sound, Held
<1>6. Sound(<<>>)'
  BY EmptyOnce DEF Sound
<1>7. \A g \in Goroutines : Sound(copied[g].history)'
  BY <1>1, <1>6 DEF NoStats, Sound
<1> QED
  BY <1>1, <1>3, <1>4, <1>5, <1>7 DEF Distinct, Sound

LEMMA DistinctKept ==
  ASSUME Types, Distinct, [LifeNext]_lifeVars
  PROVE  Distinct'
<1>1. CASE Calls
  <2>1. UNCHANGED <<buffer, history, batch, stored, copied, made, record>>
    BY <1>1 DEF Calls, ghosts
  <2>2. \A h \in Handlers : Pending(h)' => Pending(h)
    BY <1>1 DEF Calls, Goto, Types, Pending, Goroutines
  <2> QED
    BY <2>1, <2>2, DistinctStays
<1> QED
  BY <1>1, Steps, HandlersDoubleNothing, FlushDoublesNothing, RestartDoublesNothing

-----------------------------------------------------------------------------
(* No record is lost.                                                      *)

\* Nothing is lost by a step that appends nothing and gives nothing up.
LEMMA LostStays ==
  ASSUME NeverLost, Held' = Held, UNCHANGED <<history, base, made>>,
         \A h \in Handlers : /\ Pending(h) => Pending(h)' /\ record'[h] = record[h]
                             /\ ~Pending(h) => ~Pending(h)'
  PROVE  NeverLost'
<1>1. Appended' \subseteq Appended
  BY DEF Appended, Pending
<1> QED
  BY <1>1 DEF NeverLost, Held

LEMMA LostKept ==
  ASSUME Types, Distinct, NeverLost, [LifeNext]_lifeVars
  PROVE  NeverLost'
<1> USE DEF Goroutines
<1>1. CASE Calls
  <2>1. UNCHANGED <<buffer, history, batch, record, base, made>>
    BY <1>1 DEF Calls, ghosts
  <2>2. \A h \in Handlers : Pending(h)' <=> Pending(h)
    BY <1>1 DEF Calls, Goto, Types, Pending
  <2>3. Held' = Held
    BY <2>1 DEF Held, Carried
  <2> QED
    BY <2>1, <2>2, <2>3, LostStays
<1>2. CASE Restart
  <2>1. base' = made /\ made' = made
    BY <1>2 DEF Restart
  <2>2. Appended' = {}
    BY <2>1 DEF Appended, Types
  <2> QED
    BY <2>2 DEF NeverLost
<1>3. ASSUME NEW h \in Handlers, Time(h) PROVE NeverLost'
  <2>1. /\ UNCHANGED <<buffer, history, batch, base>> /\ made' = made + 1
        /\ pc[h] = "idle" /\ pc' = [pc EXCEPT ![h] = "count"]
        /\ record' = [record EXCEPT ![h] = made + 1]
    BY <1>3 DEF Time, service, Goto
  <2>2. Held' = Held
    BY <2>1 DEF Held, Carried
  <2>3. ASSUME NEW i \in Appended' PROVE i \in Appended
    <3>1. /\ i \in (base + 1) .. made'
          /\ \A k \in Handlers : record'[k] = i => pc'[k] \notin {"count", "buffer"}
      BY <2>1 DEF Appended
    <3>2. record'[h] = made + 1 /\ pc'[h] = "count"
      BY <2>1 DEF Types
    <3>3. i \in (base + 1) .. made
      BY <2>1, <3>1, <3>2 DEF Types
    <3>4. \A k \in Handlers : record[k] = i => pc[k] \notin {"count", "buffer"}
      BY <2>1, <3>1 DEF Types
    <3> QED
      BY <3>3, <3>4 DEF Appended
  <2> QED
    BY <2>1, <2>2, <2>3 DEF NeverLost, Held
<1>4. ASSUME NEW h \in Handlers, Count(h) PROVE NeverLost'
  <2>1. UNCHANGED <<buffer, history, batch, record, base, made>>
    BY <1>4 DEF Count, ghosts
  <2>2. \A k \in Handlers : Pending(k)' <=> Pending(k)
    BY <1>4 DEF Count, Goto, Types, Pending
  <2>3. Held' = Held
    BY <2>1 DEF Held, Carried
  <2> QED
    BY <2>1, <2>2, <2>3, LostStays
<1>5. ASSUME NEW h \in Handlers, AppendRecord(h) PROVE NeverLost'
  <2>1. /\ UNCHANGED <<history, batch, record, base, made>>
        /\ buffer' = Append(buffer, record[h])
    BY <1>5 DEF AppendRecord, ghosts
  <2>2. Pending(h) /\ \A k \in Handlers : Pending(k) /\ k # h => Pending(k)'
    BY <1>5 DEF AppendRecord, CallFlush, Goto, Types, Pending
  <2>3. ToSet(buffer') = ToSet(buffer) \cup {record[h]}
    <3>1. record[h] \in Records /\ buffer \in Seq(Records)
      BY <2>2 DEF Types, Records
    <3> QED
      BY <2>1, <3>1, AppendedOnce
  <2>4. Appended' \subseteq Appended \cup {record[h]}
    BY <2>1, <2>2 DEF Appended, Pending
  <2>5. Carried' = Carried
    BY <2>1 DEF Carried
  <2> QED
    BY <2>1, <2>3, <2>4, <2>5 DEF NeverLost
<1>6. ASSUME NEW h \in Handlers, Debounce(h) PROVE NeverLost'
  <2>1. UNCHANGED <<buffer, history, batch, base, made>>
    BY <1>6 DEF Debounce, ghosts
  <2>2. \A k \in Handlers : /\ Pending(k) => Pending(k)' /\ record'[k] = record[k]
                            /\ ~Pending(k) => ~Pending(k)'
    BY <1>6 DEF Debounce, CallFlush, Goto, Types, Pending
  <2>3. Held' = Held
    BY <2>1 DEF Held, Carried
  <2> QED
    BY <2>1, <2>2, <2>3, LostStays
<1>7. ASSUME NEW g \in Goroutines, TakeBatch(g) PROVE NeverLost'
  <2>1. /\ Held' = Held /\ UNCHANGED <<history, record, made, base>>
    BY <1>7, TakeMoves
  <2>2. \A k \in Handlers : Pending(k)' <=> Pending(k)
    BY <1>7 DEF TakeBatch, ReturnFromFlush, Goto, Types, ReturnTo, Pending
  <2> QED
    BY <2>1, <2>2, LostStays
<1>8. ASSUME NEW g \in Goroutines, MergeBatch(g) PROVE NeverLost'
  <2>1. NeverDoubled
    BY DEF Distinct
  <2>2. /\ UNCHANGED <<buffer, record, made, base>>
        /\ history' = Merged(history, batch[g])
        /\ history \o batch[g] \in Seq(Records)
        /\ Len(history \o batch[g]) = Len(history) + Len(batch[g])
        /\ ToSet(history \o batch[g]) = ToSet(history) \cup ToSet(batch[g])
        /\ Carried' = Carried \ ToSet(batch[g])
    BY <1>8, <2>1, MergeMoves
  <2>3. \A k \in Handlers : Pending(k)' <=> Pending(k)
    BY <1>8 DEF MergeBatch, ReturnFromFlush, Goto, Types, ReturnTo, Pending
  <2>4. Appended' = Appended
    BY <2>2, <2>3 DEF Appended, Pending
  <2>5. ASSUME Len(history') < HistorySize PROVE Appended' \subseteq Held'
    <3>1. Len(history) \in Nat /\ Len(batch[g]) \in Nat /\ HistorySize \in Nat \ {0}
      BY MetricsAssumption DEF Types
    <3>2. history' = history \o batch[g] /\ Len(history) < HistorySize
      <4> DEFINE s == history \o batch[g]
      <4>1. /\ Len(history') = IF Len(s) > HistorySize THEN HistorySize ELSE Len(s)
            /\ Len(s) <= HistorySize => history' = s
        BY <2>2, <3>1, NewestKept DEF Merged
      <4>2. Len(s) = Len(history) + Len(batch[g])
        BY <2>2
      <4> QED
        BY <2>5, <3>1, <4>1, <4>2
    <3>3. Held \subseteq Held'
      BY <2>2, <3>2 DEF Held
    <3> QED
      BY <2>4, <3>2, <3>3 DEF NeverLost, Held
  <2> QED
    BY <2>5 DEF NeverLost, Held
<1>9. ASSUME NEW g \in Goroutines, CopyHistory(g) \/ CopyTotal(g) \/ Save(g) PROVE NeverLost'
  <2>1. UNCHANGED <<buffer, history, batch, base, made>>
    BY <1>9 DEF CopyHistory, CopyTotal, Save, service, ghosts
  <2>2. \A k \in Handlers : /\ Pending(k) => Pending(k)' /\ record'[k] = record[k]
                            /\ ~Pending(k) => ~Pending(k)'
    BY <1>9 DEF CopyHistory, CopyTotal, Save, Goto, Types, Pending
  <2>3. Held' = Held
    BY <2>1 DEF Held, Carried
  <2> QED
    BY <2>1, <2>2, <2>3, LostStays
<1> QED
  BY <1>1, <1>2, <1>3, <1>4, <1>5, <1>6, <1>7, <1>8, <1>9, Steps DEF Flush

-----------------------------------------------------------------------------
(* The buffer and the history stay within their bounds.                    *)

LEMMA HandlersAreFinite ==
  ASSUME NEW T \in SUBSET Handlers, NEW S \in SUBSET T
  PROVE  /\ IsFiniteSet(T) /\ IsFiniteSet(S)
         /\ Cardinality(S) \in Nat /\ Cardinality(T) \in Nat
         /\ Cardinality(S) <= Cardinality(T)
<1>1. IsFiniteSet(T)
  BY MetricsAssumption, FS_Subset
<1> QED
  BY <1>1, FS_Subset, FS_CardinalityType

LEMMA LengthsAreNatural ==
  ASSUME Types
  PROVE  /\ Len(buffer) \in Nat /\ Len(history) \in Nat /\ Len(stored.history) \in Nat
         /\ \A g \in Goroutines : Len(copied[g].history) \in Nat /\ Len(batch[g]) \in Nat
         /\ BatchSize \in Nat \ {0} /\ HistorySize \in Nat \ {0}
         /\ Len(<<>>) = 0
BY MetricsAssumption DEF Types, Snapshots

LEMMA SizesStay ==
  ASSUME Types, Sizes, UNCHANGED <<buffer, history, stored>>,
         \A g \in Goroutines : copied'[g].history = copied[g].history,
         \A h \in Handlers : pc[h] = "flush" => pc'[h] = "flush"
  PROVE  Sizes'
<1>1. Flushing' \subseteq Handlers /\ Flushing \subseteq Flushing'
  BY DEF Flushing
<1>2. /\ Cardinality(Flushing) \in Nat /\ Cardinality(Flushing') \in Nat
      /\ Cardinality(Flushing) <= Cardinality(Flushing')
  BY <1>1, HandlersAreFinite
<1>3. Len(buffer') < BatchSize + Cardinality(Flushing')
  BY <1>2, LengthsAreNatural DEF Sizes
<1> QED
  BY <1>3 DEF Sizes

LEMMA SizesKept ==
  ASSUME Types, Sizes, [LifeNext]_lifeVars
  PROVE  Sizes'
<1> USE DEF Goroutines
<1>1. CASE Calls
  <2>1. UNCHANGED <<buffer, history, stored, copied>>
    BY <1>1 DEF Calls
  <2>2. \A h \in Handlers : pc[h] = "flush" => pc'[h] = "flush"
    BY <1>1 DEF Calls, Goto, Types
  <2> QED
    BY <2>1, <2>2, SizesStay
<1>2. CASE Restart
  <2>1. /\ history' = stored.history /\ buffer' = <<>> /\ stored' = stored
        /\ copied' = [g \in Goroutines |-> NoStats]
    BY <1>2 DEF Restart, Loaded
  <2>2. Cardinality(Flushing') \in Nat
    BY HandlersAreFinite DEF Flushing
  <2> QED
    BY <2>1, <2>2, LengthsAreNatural DEF Sizes, NoStats
<1>3. ASSUME NEW h \in Handlers, Time(h) \/ Count(h) \/ Debounce(h) PROVE Sizes'
  <2>1. UNCHANGED <<buffer, history, stored, copied>>
    BY <1>3 DEF Time, Count, Debounce, service
  <2>2. \A k \in Handlers : pc[k] = "flush" => pc'[k] = "flush"
    BY <1>3 DEF Time, Count, Debounce, CallFlush, Goto, Types
  <2> QED
    BY <2>1, <2>2, SizesStay
<1>4. ASSUME NEW h \in Handlers, AppendRecord(h) PROVE Sizes'
  <2>1. /\ UNCHANGED <<history, stored, copied>>
        /\ buffer' = Append(buffer, record[h]) /\ pc[h] = "buffer"
        /\ Len(buffer') >= BatchSize => pc' = [pc EXCEPT ![h] = "flush"]
    BY <1>4 DEF AppendRecord, CallFlush, Goto
  <2>2. Len(buffer') = Len(buffer) + 1
    BY <2>1 DEF Types
  <2>3. /\ Flushing \in SUBSET Handlers /\ Flushing' \in SUBSET Handlers
        /\ IsFiniteSet(Flushing)
        /\ Cardinality(Flushing) \in Nat /\ Cardinality(Flushing') \in Nat
    BY HandlersAreFinite DEF Flushing
  <2>4. CASE Len(buffer') >= BatchSize
    <3>1. Flushing' = Flushing \cup {h} /\ h \notin Flushing
      BY <2>1, <2>4 DEF Flushing, Types
    <3>2. Cardinality(Flushing') = Cardinality(Flushing) + 1
      BY <2>3, <3>1, FS_AddElement
    <3>3. Len(buffer') < BatchSize + Cardinality(Flushing')
      BY <2>2, <2>3, <3>2, LengthsAreNatural DEF Sizes
    <3> QED
      BY <2>1, <3>3 DEF Sizes
  <2>5. CASE ~(Len(buffer') >= BatchSize)
    <3>1. Len(buffer') < BatchSize + Cardinality(Flushing')
      BY <2>2, <2>3, <2>5, LengthsAreNatural
    <3> QED
      BY <2>1, <3>1 DEF Sizes
  <2> QED
    BY <2>4, <2>5
<1>5. ASSUME NEW g \in Goroutines, TakeBatch(g) PROVE Sizes'
  <2>1. buffer' = <<>> /\ UNCHANGED <<history, stored, copied>>
    BY <1>5 DEF TakeBatch
  <2>2. Cardinality(Flushing') \in Nat
    BY HandlersAreFinite DEF Flushing
  <2> QED
    BY <2>1, <2>2, LengthsAreNatural DEF Sizes
<1>6. ASSUME NEW g \in Goroutines, MergeBatch(g) PROVE Sizes'
  <2>1. /\ history' = Merged(history, batch[g]) /\ UNCHANGED <<buffer, stored, copied>>
        /\ pc[g] = "merge" /\ pc' = [pc EXCEPT ![g] = ret[g]]
    BY <1>6 DEF MergeBatch, ReturnFromFlush, Goto
  <2>2. history \in Seq(Records) /\ batch[g] \in Seq(Records)
    BY DEF Types
  <2>3. history \o batch[g] \in Seq(Records)
    BY <2>2, JoinedOnce
  <2>4. Len(history') <= HistorySize
    <3>1. Len(history \o batch[g]) \in Nat
      BY <2>3
    <3>2. Len(history') = IF Len(history \o batch[g]) > HistorySize
                          THEN HistorySize ELSE Len(history \o batch[g])
      BY <2>1, <2>3, NewestKept, MetricsAssumption DEF Merged
    <3> QED
      BY <3>1, <3>2, LengthsAreNatural
  <2>5. Flushing' \in SUBSET Handlers /\ Flushing \in SUBSET Flushing'
    BY <2>1 DEF Flushing, Types
  <2>6. /\ Cardinality(Flushing) \in Nat /\ Cardinality(Flushing') \in Nat
        /\ Cardinality(Flushing) <= Cardinality(Flushing')
    BY <2>5, HandlersAreFinite
  <2>7. Len(buffer') < BatchSize + Cardinality(Flushing')
    BY <2>1, <2>6, LengthsAreNatural DEF Sizes
  <2> QED
    BY <2>1, <2>4, <2>7 DEF Sizes
<1>7. ASSUME NEW g \in Goroutines, CopyHistory(g) \/ CopyTotal(g) \/ Save(g) PROVE Sizes'
  <2>1. UNCHANGED <<buffer, history>>
    BY <1>7 DEF CopyHistory, CopyTotal, Save, service
  <2>2. \A h \in Handlers : pc[h] = "flush" => pc'[h] = "flush"
    BY <1>7 DEF CopyHistory, CopyTotal, Save, Goto, Types
  <2>3. Flushing' \in SUBSET Handlers /\ Flushing \in SUBSET Flushing'
    BY <2>2 DEF Flushing
  <2>4. /\ Cardinality(Flushing) \in Nat /\ Cardinality(Flushing') \in Nat
        /\ Cardinality(Flushing) <= Cardinality(Flushing')
    BY <2>3, HandlersAreFinite
  <2>5. Len(buffer') < BatchSize + Cardinality(Flushing')
    BY <2>1, <2>4, LengthsAreNatural DEF Sizes
  <2>6. /\ Len(stored'.history) <= HistorySize
        /\ \A k \in Goroutines : Len(copied'[k].history) <= HistorySize
    <3>1. CASE CopyHistory(g)
      BY <3>1 DEF CopyHistory, Types, Sizes
    <3>2. CASE CopyTotal(g)
      BY <3>2 DEF CopyTotal, Types, Snapshots, Sizes
    <3>3. CASE Save(g)
      BY <3>3, LengthsAreNatural DEF Save, Types, Sizes, NoStats
    <3> QED
      BY <1>7, <3>1, <3>2, <3>3
  <2> QED
    BY <2>1, <2>5, <2>6 DEF Sizes
<1> QED
  BY <1>1, <1>2, <1>3, <1>4, <1>5, <1>6, <1>7, Steps DEF Flush

-----------------------------------------------------------------------------
(* No more requests are counted than were made.                            *)

LEMMA TotalsKept ==
  ASSUME Types, Totals, [LifeNext]_lifeVars
  PROVE  Totals'
<1> USE DEF Goroutines
<1>1. /\ IsFiniteSet(Timing) /\ Cardinality(Timing) \in Nat
      /\ total \in Nat /\ made \in Nat /\ stored.total \in Nat
      /\ \A g \in Goroutines : copied[g].total \in Nat
  <2>1. Timing \in SUBSET Handlers
    BY DEF Timing
  <2>2. IsFiniteSet(Timing) /\ Cardinality(Timing) \in Nat
    BY <2>1, HandlersAreFinite
  <2> QED
    BY <2>2 DEF Types, Snapshots
<1>2. ASSUME UNCHANGED <<total, made>>, stored'.total <= made,
             \A g \in Goroutines : copied'[g].total <= made,
             \A h \in Handlers : pc'[h] = "count" => pc[h] = "count"
      PROVE  Totals'
  <2>1. Timing' \in SUBSET Timing /\ Timing \in SUBSET Handlers
    BY <1>2 DEF Timing
  <2>2. Cardinality(Timing') \in Nat /\ Cardinality(Timing') <= Cardinality(Timing)
    BY <2>1, HandlersAreFinite
  <2>3. total + Cardinality(Timing') <= made
    BY <1>1, <2>2 DEF Totals
  <2> QED
    BY <1>2, <2>3 DEF Totals
<1>3. CASE Calls
  <2>1. UNCHANGED <<total, stored, copied, made>>
    BY <1>3 DEF Calls, ghosts
  <2>2. \A h \in Handlers : pc'[h] = "count" => pc[h] = "count"
    BY <1>3 DEF Calls, Goto, Types
  <2> QED
    BY <1>2, <2>1, <2>2 DEF Totals
<1>4. CASE Restart
  <2>1. /\ total' = stored.total /\ UNCHANGED <<stored, made>>
        /\ pc' = [g \in Goroutines |-> "idle"] /\ copied' = [g \in Goroutines |-> NoStats]
    BY <1>4 DEF Restart, Loaded
  <2>2. Cardinality(Timing') = 0
    BY <2>1, FS_EmptySet DEF Timing
  <2> QED
    BY <1>1, <2>1, <2>2 DEF Totals, NoStats
<1>5. ASSUME NEW h \in Handlers, Time(h) PROVE Totals'
  <2>1. /\ UNCHANGED <<total, stored, copied>> /\ made' = made + 1
        /\ pc[h] = "idle" /\ pc' = [pc EXCEPT ![h] = "count"]
    BY <1>5 DEF Time, service, Goto
  <2>2. Timing' = Timing \cup {h} /\ h \notin Timing
    BY <2>1 DEF Timing, Types
  <2>3. Cardinality(Timing') = Cardinality(Timing) + 1
    BY <1>1, <2>2, FS_AddElement
  <2> QED
    BY <1>1, <2>1, <2>3 DEF Totals
<1>6. ASSUME NEW h \in Handlers, Count(h) PROVE Totals'
  <2>1. /\ total' = total + 1 /\ UNCHANGED <<stored, copied, made>>
        /\ pc[h] = "count" /\ pc' = [pc EXCEPT ![h] = "buffer"]
    BY <1>6 DEF Count, ghosts, Goto
  <2>2. Timing' = Timing \ {h} /\ h \in Timing
    BY <2>1 DEF Timing, Types
  <2>3. Cardinality(Timing') = Cardinality(Timing) - 1
    BY <1>1, <2>2, FS_RemoveElement
  <2> QED
    BY <1>1, <2>1, <2>3 DEF Totals
<1>7. ASSUME NEW h \in Handlers, AppendRecord(h) \/ Debounce(h) PROVE Totals'
  <2>1. UNCHANGED <<total, stored, copied, made>>
    BY <1>7 DEF AppendRecord, Debounce, ghosts
  <2>2. \A k \in Handlers : pc'[k] = "count" => pc[k] = "count"
    BY <1>7 DEF AppendRecord, Debounce, CallFlush, Goto, Types
  <2> QED
    BY <1>2, <2>1, <2>2 DEF Totals
<1>8. ASSUME NEW g \in Goroutines, Flush(g) PROVE Totals'
  <2>1. UNCHANGED <<total, made>>
    BY <1>8 DEF Flush, TakeBatch, MergeBatch, CopyHistory, CopyTotal, Save, service, ghosts
  <2>2. \A h \in Handlers : pc'[h] = "count" => pc[h] = "count"
    <3>1. CASE TakeBatch(g) \/ MergeBatch(g)
      BY <3>1 DEF TakeBatch, MergeBatch, ReturnFromFlush, Goto, Types, ReturnTo
    <3>2. CASE CopyHistory(g) \/ CopyTotal(g) \/ Save(g)
      BY <3>2 DEF CopyHistory, CopyTotal, Save, Goto, Types
    <3> QED
      BY <1>8, <3>1, <3>2 DEF Flush
  <2>3. total <= made
    BY <1>1 DEF Totals
  <2>4. /\ stored'.total <= made
        /\ \A k \in Goroutines : copied'[k].total <= made
    <3>1. CASE TakeBatch(g) \/ MergeBatch(g)
      BY <3>1 DEF TakeBatch, MergeBatch, Totals
    <3>2. CASE CopyHistory(g)
      BY <1>1, <3>2 DEF CopyHistory, Types, Totals
    <3>3. CASE CopyTotal(g)
      BY <2>3, <3>3 DEF CopyTotal, Types, Snapshots, Totals
    <3>4. CASE Save(g)
      BY <1>1, <3>4 DEF Save, Types, NoStats, Totals
    <3> QED
      BY <1>8, <3>1, <3>2, <3>3, <3>4 DEF Flush
  <2> QED
    BY <1>2, <2>1, <2>2, <2>4
<1> QED
  BY <1>3, <1>4, <1>5, <1>6, <1>7, <1>8, Steps

-----------------------------------------------------------------------------
(* No more requests are listed than are counted.                           *)

LEMMA ListedIsFinite ==
  ASSUME Types, Distinct
  PROVE  IsFiniteSet(Listed) /\ Cardinality(Listed) \in Nat
<1>1. Listed \in SUBSET (1 .. made)
  BY DEF Listed, Distinct, Types, Pending
<1>2. IsFiniteSet(1 .. made)
  BY FS_Interval DEF Types
<1> QED
  BY <1>1, <1>2, FS_Subset, FS_CardinalityType

LEMMA ListedShrinks ==
  ASSUME Types, Distinct, Counted, UNCHANGED total, Listed' \subseteq Listed
  PROVE  Cardinality(Listed') <= total'
<1>1. Cardinality(Listed') \in Nat /\ Cardinality(Listed') <= Cardinality(Listed)
  BY ListedIsFinite, FS_Subset, FS_CardinalityType
<1> QED
  BY <1>1, ListedIsFinite DEF Counted, Types

\* The history lists no more than was counted.
LEMMA HistoryIsCounted ==
  ASSUME Types, Distinct, Counted
  PROVE  Len(history) <= total
<1>1. Cardinality(ToSet(history)) = Len(history)
  BY LengthCounts DEF Types, Distinct, NeverDoubled
<1>2. ToSet(history) \in SUBSET Listed
  BY DEF Listed, Held
<1>3. Cardinality(ToSet(history)) <= Cardinality(Listed)
  BY <1>2, ListedIsFinite, FS_Subset
<1> QED
  BY <1>1, <1>3, ListedIsFinite, LengthsAreNatural DEF Counted, Types

LEMMA HandlersAreCounted ==
  ASSUME Types, Distinct, Counted, NEW h \in Handlers,
         Time(h) \/ Count(h) \/ AppendRecord(h) \/ Debounce(h)
  PROVE  Counted'
<1> USE DEF Goroutines
<1>1. ASSUME UNCHANGED <<stored, copied>>, total' = total \/ total' = total + 1,
             \A g \in Goroutines : pc'[g] \in {"copyTotal", "save"} => pc'[g] = pc[g],
             Cardinality(Listed') <= total'
      PROVE  Counted'
  <2>1. total \in Nat /\ total <= total'
    BY <1>1 DEF Types
  <2>2. ASSUME NEW g \in Goroutines, pc'[g] = "copyTotal" PROVE Len(copied'[g].history) <= total'
    <3>1. Len(copied[g].history) <= total /\ copied' = copied
      BY <1>1, <2>2 DEF Counted
    <3> QED
      BY <1>1, <2>1, <3>1, LengthsAreNatural
  <2>3. ASSUME NEW g \in Goroutines, pc'[g] = "save"
        PROVE  Len(copied'[g].history) <= copied'[g].total
    BY <1>1, <2>3 DEF Counted
  <2> QED
    BY <1>1, <2>2, <2>3 DEF Counted
<1>2. CASE Time(h)
  <2>1. /\ UNCHANGED <<total, buffer, history, batch, stored, copied>>
        /\ record' = [record EXCEPT ![h] = made + 1]
        /\ pc' = [pc EXCEPT ![h] = "count"]
    BY <1>2 DEF Time, service, Goto
  <2>2. Held' = Held
    BY <2>1 DEF Held, Carried
  <2>3. Listed' \subseteq Listed
    BY <2>1, <2>2 DEF Listed, Types
  <2>4. \A g \in Goroutines : pc'[g] \in {"copyTotal", "save"} => pc'[g] = pc[g]
    BY <2>1 DEF Types
  <2> QED
    BY <1>1, <2>1, <2>3, <2>4, ListedShrinks
<1>3. CASE Count(h)
  <2>1. /\ UNCHANGED <<buffer, history, batch, stored, copied, record>>
        /\ total' = total + 1 /\ pc' = [pc EXCEPT ![h] = "buffer"]
    BY <1>3 DEF Count, Goto
  <2>2. Held' = Held
    BY <2>1 DEF Held, Carried
  <2>3. Listed' = Listed \cup {record[h]}
    BY <2>1, <2>2 DEF Listed, Types
  <2>4. Cardinality(Listed') <= Cardinality(Listed) + 1 /\ Cardinality(Listed') \in Nat
    BY <2>3, ListedIsFinite, FS_AddElement
  <2>5. Cardinality(Listed') <= total'
    BY <2>1, <2>4, ListedIsFinite DEF Counted, Types
  <2>6. \A g \in Goroutines : pc'[g] \in {"copyTotal", "save"} => pc'[g] = pc[g]
    BY <2>1 DEF Types
  <2> QED
    BY <1>1, <2>1, <2>5, <2>6
<1>4. CASE AppendRecord(h)
  <2>1. /\ UNCHANGED <<total, history, batch, stored, copied, record>>
        /\ buffer' = Append(buffer, record[h]) /\ pc[h] = "buffer"
        /\ \E place \in {"flush", "debounce"} : pc' = [pc EXCEPT ![h] = place]
    BY <1>4 DEF AppendRecord, CallFlush, Goto
  <2>2. record[h] \in Records /\ buffer \in Seq(Records)
    BY <2>1 DEF Types, Pending, Records
  <2>3. ToSet(buffer') = ToSet(buffer) \cup {record[h]}
    BY <2>1, <2>2, AppendedOnce
  <2>4. Carried' = Carried
    BY <2>1 DEF Carried
  <2>5. Listed' \subseteq Listed
    BY <2>1, <2>3, <2>4 DEF Listed, Held, Types
  <2>6. \A g \in Goroutines : pc'[g] \in {"copyTotal", "save"} => pc'[g] = pc[g]
    BY <2>1 DEF Types
  <2> QED
    BY <1>1, <2>1, <2>5, <2>6, ListedShrinks
<1>5. CASE Debounce(h)
  <2>1. /\ UNCHANGED <<total, buffer, history, batch, stored, copied>>
        /\ record' = record \/ record' = [record EXCEPT ![h] = 0]
        /\ pc[h] = "debounce"
        /\ \E place \in {"flush", "idle"} : pc' = [pc EXCEPT ![h] = place]
    BY <1>5 DEF Debounce, CallFlush, Goto
  <2>2. Held' = Held
    BY <2>1 DEF Held, Carried
  <2>3. Listed' \subseteq Listed
    BY <2>1, <2>2 DEF Listed, Types
  <2>4. \A g \in Goroutines : pc'[g] \in {"copyTotal", "save"} => pc'[g] = pc[g]
    BY <2>1 DEF Types
  <2> QED
    BY <1>1, <2>1, <2>3, <2>4, ListedShrinks
<1> QED
  BY <1>2, <1>3, <1>4, <1>5

LEMMA FlushIsCounted ==
  ASSUME Types, Distinct, Counted, NEW g \in Goroutines, Flush(g)
  PROVE  Counted'
<1> USE DEF Goroutines
<1>1. Held' \subseteq Held /\ UNCHANGED total
  <2>1. CASE TakeBatch(g)
    BY <2>1, TakeMoves
  <2>2. CASE MergeBatch(g)
    BY <2>2, MergeMoves DEF Distinct
  <2>3. CASE CopyHistory(g) \/ CopyTotal(g) \/ Save(g)
    BY <2>3 DEF CopyHistory, CopyTotal, Save, service, Held, Carried
  <2> QED
    BY <2>1, <2>2, <2>3 DEF Flush
<1>2. \A h \in Handlers : pc'[h] = "buffer" => pc[h] = "buffer" /\ record'[h] = record[h]
  <2>1. CASE TakeBatch(g) \/ MergeBatch(g)
    BY <2>1 DEF TakeBatch, MergeBatch, ReturnFromFlush, Goto, Types, ReturnTo
  <2>2. CASE CopyHistory(g) \/ CopyTotal(g) \/ Save(g)
    BY <2>2 DEF CopyHistory, CopyTotal, Save, Goto, Types
  <2> QED
    BY <1>1, <2>1, <2>2, FlushPends DEF Flush, Pending
<1>3. Cardinality(Listed') <= total'
  BY <1>1, <1>2, ListedShrinks DEF Listed
<1>4. CASE TakeBatch(g) \/ MergeBatch(g)
  <2>1. UNCHANGED <<stored, copied>>
    BY <1>4 DEF TakeBatch, MergeBatch
  <2>2. \A k \in Goroutines : pc'[k] \in {"copyTotal", "save"} => pc'[k] = pc[k]
    BY <1>4 DEF TakeBatch, MergeBatch, ReturnFromFlush, Goto, Types, ReturnTo
  <2> QED
    BY <1>1, <1>3, <2>1, <2>2 DEF Counted
<1>5. CASE CopyHistory(g)
  <2>1. /\ copied' = [copied EXCEPT ![g] = [total |-> 0, history |-> history]]
        /\ pc' = [pc EXCEPT ![g] = "copyTotal"] /\ UNCHANGED stored
    BY <1>5 DEF CopyHistory, Goto
  <2> QED
    BY <1>1, <1>3, <2>1, HistoryIsCounted DEF Counted, Types
<1>6. CASE CopyTotal(g)
  <2>1. /\ copied' = [copied EXCEPT ![g].total = total] /\ pc[g] = "copyTotal"
        /\ pc' = [pc EXCEPT ![g] = "save"] /\ UNCHANGED stored
    BY <1>6 DEF CopyTotal, Goto
  <2>2. copied'[g].history = copied[g].history /\ copied'[g].total = total
    BY <2>1 DEF Types, Snapshots
  <2>3. \A k \in Goroutines : k # g => copied'[k] = copied[k] /\ pc'[k] = pc[k]
    BY <2>1 DEF Types
  <2> QED
    BY <1>1, <1>3, <2>1, <2>2, <2>3 DEF Counted, Types
<1>7. CASE Save(g)
  <2>1. /\ stored' = copied[g] \/ stored' = stored
        /\ pc[g] = "save" /\ \E place \in {"idle", "saved", "failed"} : pc' = [pc EXCEPT ![g] = place]
        /\ copied' = [copied EXCEPT ![g] = NoStats]
    BY <1>7 DEF Save, Goto
  <2> QED
    BY <1>1, <1>3, <2>1 DEF Counted, Types
<1> QED
  BY <1>4, <1>5, <1>6, <1>7 DEF Flush

LEMMA CountedKept ==
  ASSUME Types, Distinct, Counted, [LifeNext]_lifeVars
  PROVE  Counted'
<1> USE DEF Goroutines
<1>1. CASE Calls
  <2>1. UNCHANGED <<total, buffer, history, stored, batch, copied, record>>
    BY <1>1 DEF Calls
  <2>2. \A g \in Goroutines : pc'[g] # pc[g] => pc'[g] \in {"flush", "stop", "ended"}
    BY <1>1 DEF Calls, Goto, Types
  <2>3. Held' = Held
    BY <2>1 DEF Held, Carried
  <2>4. Listed' \subseteq Listed
    BY <2>1, <2>2, <2>3 DEF Listed
  <2> QED
    BY <2>1, <2>2, <2>4, ListedShrinks DEF Counted
<1>2. CASE Restart
  <2>1. /\ total' = stored.total /\ history' = stored.history /\ buffer' = <<>>
        /\ pc' = [g \in Goroutines |-> "idle"] /\ batch' = [g \in Goroutines |-> <<>>]
        /\ UNCHANGED stored
    BY <1>2 DEF Restart, Loaded
  <2>2. Listed' = ToSet(stored.history)
    <3>1. Carried' = {}
      BY <2>1, EmptyOnce DEF Carried
    <3> QED
      BY <2>1, <3>1, EmptyOnce DEF Listed, Held
  <2>3. /\ Cardinality(ToSet(stored.history)) <= Len(stored.history)
        /\ Cardinality(ToSet(stored.history)) \in Nat
    BY LengthCounts, FS_CardinalityType DEF Types, Snapshots
  <2>4. Cardinality(Listed') <= total'
    BY <2>1, <2>2, <2>3, LengthsAreNatural DEF Counted, Types, Snapshots
  <2> QED
    BY <2>1, <2>4 DEF Counted
<1> QED
  BY <1>1, <1>2, Steps, HandlersAreCounted, FlushIsCounted

-----------------------------------------------------------------------------
(* What a Close with no request in progress saves.                         *)

LEMMA Roles ==
  /\ Closer \in Goroutines /\ Ticker \in Goroutines /\ Handlers \subseteq Goroutines
  /\ Closer \notin Handlers /\ Ticker \notin Handlers /\ Ticker # Closer
  /\ \A g \in Goroutines : g \in Handlers \/ g = Ticker \/ g = Closer
BY MetricsAssumption DEF Goroutines

\* A flush moves its own goroutine only.
LEMMA FlushIsOwn ==
  ASSUME Types, NEW g \in Goroutines, Flush(g)
  PROVE  /\ UNCHANGED <<total, closed>>
         /\ \A k \in Goroutines \ {g} : UNCHANGED <<pc[k], ret[k], copied[k]>>
<1>1. CASE TakeBatch(g) \/ MergeBatch(g)
  BY <1>1 DEF TakeBatch, MergeBatch, ReturnFromFlush, Goto, Types
<1>2. CASE CopyHistory(g) \/ CopyTotal(g) \/ Save(g)
  BY <1>2 DEF CopyHistory, CopyTotal, Save, service, Goto, Types
<1> QED
  BY <1>1, <1>2 DEF Flush

\* flushLoop, where it moves on at all, is in one of the two halves of a flush.
LEMMA TickerFlushes ==
  ASSUME FlushLoop, Flush(Ticker)
  PROVE  (TakeBatch(Ticker) \/ MergeBatch(Ticker)) /\ pc[Ticker] \in {"flush", "merge"}
BY DEF FlushLoop, Flush, TakeBatch, MergeBatch, CopyHistory, CopyTotal, Save

LEMMA FlushLoopKept ==
  ASSUME Types, FlushLoop, [LifeNext]_lifeVars
  PROVE  FlushLoop'
<1>1. \A h \in Handlers : h # Ticker /\ h \in Goroutines
  BY Roles
<1>2. ASSUME NEW h \in Handlers, Accept(h) \/ Serve(h) \/ RunOn(Record(h)) PROVE FlushLoop'
  <2>1. UNCHANGED <<pc[Ticker], ret[Ticker]>>
    BY <1>1, <1>2, Roles DEF Accept, Serve, RunOn, Record, Time, Show, Count, AppendRecord, Debounce,
       CallFlush, Goto, vars, calls, Types
  <2> QED
    BY <2>1 DEF FlushLoop
<1>3. ASSUME NEW g \in Goroutines, RunOn(Flush(g)) PROVE FlushLoop'
  <2>1. CASE g # Ticker
    BY <1>3, <2>1, Roles, FlushIsOwn DEF RunOn, FlushLoop
  <2>2. CASE g = Ticker
    BY <1>3, <2>2, Roles, TickerFlushes
    DEF RunOn, TakeBatch, MergeBatch, ReturnFromFlush, Goto, FlushLoop, Types
  <2> QED
    BY <2>1, <2>2
<1>4. CASE FlushOnTick \/ RunOn(FlushLoopEnds)
  BY <1>4, Roles DEF FlushOnTick, RunOn, Tick, FlushLoopEnds, CallFlush, Goto, FlushLoop, Types
<1>5. CASE RunOn(StopTimer) \/ RunOn(CloseSnapshot) \/ CloseServer
  BY <1>5, Roles DEF RunOn, StopTimer, CloseSnapshot, CloseServer, BeginClose, CallFlush, Goto,
     FlushLoop, Types
<1>6. CASE RunOn(IntervalEnds) \/ Signalled \/ StopListening \/ Exit \/ UNCHANGED lifeVars
  BY <1>6 DEF RunOn, IntervalEnds, Signalled, StopListening, Exit, lifeVars, vars, calls, FlushLoop
<1>7. CASE StartAgain
  BY <1>7, Roles DEF StartAgain, Restart, FlushLoop
<1> QED
  BY <1>2, <1>3, <1>4, <1>5, <1>6, <1>7 DEF LifeNext

\* What Close does on its path with no request in progress.
LEMMA CloserFlush ==
  ASSUME Types, Closing, quiet, UNCHANGED <<stage, busy, quiet>>, Flush(Closer)
  PROVE  Closing'
<1>1. \A h \in Handlers : ~busy'[h] /\ pc'[h] = "idle"
  BY Roles, FlushIsOwn DEF Closing
<1>2. CASE TakeBatch(Closer)
  BY <1>1, <1>2, Roles DEF TakeBatch, ReturnFromFlush, Goto, Closing, Types
<1>3. CASE MergeBatch(Closer)
  BY <1>1, <1>3, Roles DEF MergeBatch, ReturnFromFlush, Goto, Closing, Types
<1>4. CASE CopyHistory(Closer)
  BY <1>1, <1>4, Roles DEF CopyHistory, service, Goto, Closing, Types
<1>5. CASE CopyTotal(Closer)
  <2>1. copied'[Closer].total = total
    BY <1>5, Roles DEF CopyTotal, Types, Snapshots
  <2> QED
    BY <1>1, <1>5, <2>1, Roles DEF CopyTotal, service, Goto, Closing, Types
<1>6. CASE Save(Closer)
  BY <1>1, <1>6, Roles DEF Save, service, Goto, Closing, Types
<1> QED
  BY <1>2, <1>3, <1>4, <1>5, <1>6 DEF Flush

LEMMA ClosingKept ==
  ASSUME Types, LifeTypes, FlushLoop, Closing, [LifeNext]_lifeVars
  PROVE  Closing'
<1> SUFFICES ASSUME quiet' PROVE Closing'
  BY DEF Closing
<1>1. CASE CloseServer
  <2>1. \A h \in Handlers : ~busy'[h] /\ pc'[h] = "idle"
    BY <1>1, Roles DEF CloseServer, BeginClose, InProgress, Goto, Types
  <2> QED
    BY <1>1, <2>1, Roles DEF CloseServer, BeginClose, Goto, Closing, Types
<1>2. CASE ~CloseServer
  <2>1. quiet /\ ~StartAgain /\ \A h \in Handlers : ~Accept(h)
    BY <1>2 DEF LifeNext, Accept, Serve, RunOn, FlushOnTick, Signalled, StopListening, Exit,
       StartAgain, lifeVars
  <2>2. /\ ~Signalled /\ ~StopListening
        /\ \A h \in Handlers : ~Serve(h) /\ ~RunOn(Record(h))
    BY <2>1 DEF Closing, Signalled, StopListening, Serve, RunOn, Record, Count, AppendRecord, Debounce
  <2>3. ASSUME NEW g \in Goroutines, RunOn(Flush(g)) PROVE Closing'
    <3>1. CASE g = Closer
      BY <2>1, <2>3, <3>1, CloserFlush DEF RunOn
    <3>2. CASE g = Ticker
      <4>1. UNCHANGED <<stage, busy, quiet, stored, total, closed>>
        BY <2>3, <3>2, TickerFlushes DEF RunOn, TakeBatch, MergeBatch
      <4>2. \A k \in Goroutines \ {Ticker} : UNCHANGED <<pc[k], ret[k], copied[k]>>
        BY <2>3, <3>2, FlushIsOwn DEF RunOn
      <4>3. buffer' \in {<<>>, buffer}
        BY <2>3, <3>2, TickerFlushes DEF RunOn, TakeBatch, MergeBatch
      <4> QED
        BY <2>1, <4>1, <4>2, <4>3, Roles DEF Closing
    <3>3. CASE g \in Handlers
      BY <2>1, <2>3, <3>3
      DEF RunOn, Flush, TakeBatch, MergeBatch, CopyHistory, CopyTotal, Save, Closing
    <3> QED
      BY <3>1, <3>2, <3>3, Roles
  <2>4. CASE FlushOnTick \/ RunOn(FlushLoopEnds)
    BY <2>1, <2>4, Roles DEF FlushOnTick, RunOn, Tick, FlushLoopEnds, CallFlush, Goto, service,
       Closing, Types
  <2>5. CASE RunOn(StopTimer) \/ RunOn(CloseSnapshot)
    BY <2>1, <2>5, Roles DEF RunOn, StopTimer, CloseSnapshot, CallFlush, Goto, service, Closing, Types
  <2>6. CASE RunOn(IntervalEnds) \/ Exit \/ UNCHANGED lifeVars
    BY <2>1, <2>6 DEF RunOn, IntervalEnds, Exit, lifeVars, vars, service, calls, Closing
  <2> QED
    BY <1>2, <2>1, <2>2, <2>3, <2>4, <2>5, <2>6 DEF LifeNext
<1> QED
  BY <1>1, <1>2

\* What Close does while flushLoop waits or has ended.
LEMMA SettledFlush ==
  ASSUME Types, Closing, Settled, quiet, still, UNCHANGED <<quiet, still>>, Flush(Closer)
  PROVE  Settled'
<1>1. pc'[Ticker] \in {"idle", "ended"}
  BY Roles, FlushIsOwn DEF Settled
<1>2. CASE TakeBatch(Closer)
  BY <1>1, <1>2, Roles DEF TakeBatch, ReturnFromFlush, Goto, Closing, Settled, Types
<1>3. CASE MergeBatch(Closer)
  BY <1>1, <1>3, Roles DEF MergeBatch, ReturnFromFlush, Goto, Closing, Settled, Types
<1>4. CASE CopyHistory(Closer)
  <2>1. copied'[Closer].history = history
    BY <1>4, Roles DEF CopyHistory, Types
  <2> QED
    BY <1>1, <1>4, <2>1, Roles DEF CopyHistory, service, Goto, Settled, Types
<1>5. CASE CopyTotal(Closer)
  <2>1. copied'[Closer].history = copied[Closer].history
    BY <1>5, Roles DEF CopyTotal, Types, Snapshots
  <2> QED
    BY <1>1, <1>5, <2>1, Roles DEF CopyTotal, service, Goto, Settled, Types
<1>6. CASE Save(Closer)
  BY <1>1, <1>6, Roles DEF Save, service, Goto, Settled, Types
<1> QED
  BY <1>2, <1>3, <1>4, <1>5, <1>6 DEF Flush

LEMMA SettledKept ==
  ASSUME Types, LifeTypes, FlushLoop, Closing, Settled, [LifeNext]_lifeVars
  PROVE  Settled'
<1> SUFFICES ASSUME quiet', still' PROVE Settled'
  BY DEF Settled
<1>1. CASE CloseServer
  BY <1>1, Roles DEF CloseServer, BeginClose, Goto, Settled, Types
<1>2. CASE ~CloseServer
  <2>1. quiet /\ still /\ ~StartAgain /\ ~FlushOnTick /\ \A h \in Handlers : ~Accept(h)
    BY <1>2 DEF LifeNext, Accept, Serve, RunOn, FlushOnTick, Signalled, StopListening, Exit,
       StartAgain, lifeVars
  <2>2. /\ ~Signalled /\ ~StopListening
        /\ \A h \in Handlers : ~Serve(h) /\ ~RunOn(Record(h))
    BY <2>1 DEF Closing, Signalled, StopListening, Serve, RunOn, Record, Count, AppendRecord, Debounce
  <2>3. ASSUME NEW g \in Goroutines, RunOn(Flush(g)) PROVE Settled'
    <3>1. g = Closer
      BY <2>1, <2>3, Roles
      DEF RunOn, Flush, TakeBatch, MergeBatch, CopyHistory, CopyTotal, Save, Closing, Settled
    <3> QED
      BY <2>1, <2>3, <3>1, SettledFlush DEF RunOn
  <2>4. CASE RunOn(FlushLoopEnds)
    BY <2>1, <2>4, Roles DEF RunOn, FlushLoopEnds, Goto, service, Settled, Types
  <2>5. CASE RunOn(StopTimer) \/ RunOn(CloseSnapshot)
    BY <2>1, <2>5, Roles DEF RunOn, StopTimer, CloseSnapshot, CallFlush, Goto, service, Settled, Types
  <2>6. CASE RunOn(IntervalEnds) \/ Exit \/ UNCHANGED lifeVars
    BY <2>1, <2>6 DEF RunOn, IntervalEnds, Exit, lifeVars, vars, service, calls, Settled
  <2> QED
    BY <1>2, <2>1, <2>2, <2>3, <2>4, <2>5, <2>6 DEF LifeNext
<1> QED
  BY <1>1, <1>2

-----------------------------------------------------------------------------
(* The invariant holds, and with it the properties.                        *)

LEMMA InitHolds == LifeInit => IInv
<1> SUFFICES ASSUME LifeInit PROVE IInv
  OBVIOUS
<1> USE DEF LifeInit, Init
<1>1. Types
  <2>1. NoStats \in Snapshots /\ <<>> \in Seq(Records)
    BY DEF NoStats, Snapshots
  <2>2. /\ total \in Nat /\ made \in 0 .. MaxRecords /\ base \in 0 .. made
        /\ restarts \in 0 .. MaxRestarts
    BY MetricsAssumption
  <2>3. /\ pc \in [Goroutines -> Places] /\ ret \in [Goroutines -> ReturnTo]
        /\ batch \in [Goroutines -> Seq(Records)] /\ copied \in [Goroutines -> Snapshots]
    BY <2>1 DEF Places, ReturnTo
  <2>4. record \in [Handlers -> 0 .. MaxRecords]
    BY MetricsAssumption
  <2>5. /\ \A g \in Goroutines : batch[g] # <<>> <=> pc[g] = "merge"
        /\ \A h \in Handlers : Pending(h) => record[h] \in 1 .. made
    BY DEF Goroutines, Pending
  <2> QED
    BY <2>1, <2>2, <2>3, <2>4, <2>5 DEF Types
<1>2. LifeTypes
  BY DEF LifeTypes, Stages
<1>3. Held = {}
  BY EmptyOnce DEF Held, Carried
<1>4. \A h \in Handlers : pc[h] = "idle"
  BY DEF Goroutines
<1>5. Distinct
  <2>1. NeverDoubled
    BY EmptyOnce DEF NeverDoubled, Carried
  <2> QED
    BY <1>3, <1>4, <2>1, EmptyOnce DEF Distinct, Pending, Sound, NoStats
<1>6. Appended = {}
  BY DEF Appended
<1>7. Listed = {} /\ Timing = {} /\ Cardinality({}) = 0 /\ Cardinality(Flushing) \in Nat
  BY <1>3, <1>4, FS_EmptySet, HandlersAreFinite DEF Listed, Timing, Flushing
<1>8. Sizes /\ Totals /\ Counted
  BY <1>1, <1>7, LengthsAreNatural DEF Sizes, Totals, Counted, NoStats
<1>9. FlushLoop
  BY DEF FlushLoop, Goroutines
<1> QED
  BY <1>1, <1>2, <1>5, <1>6, <1>8, <1>9 DEF IInv, NeverLost, Closing, Settled

LEMMA InvariantHolds == LifeSpec => []IInv
<1>1. IInv /\ [LifeNext]_lifeVars => IInv'
  BY TypesKept, LifeTypesKept, DistinctKept, LostKept, SizesKept, TotalsKept, CountedKept,
     FlushLoopKept, ClosingKept, SettledKept DEF IInv
<1> QED
  BY <1>1, InitHolds, PTL DEF LifeSpec

\* Every variable keeps its type through closing, kills and starts.
THEOREM TypesAreKept == LifeSpec => []LifeTypeOK
<1>1. IInv => LifeTypeOK
  <2> SUFFICES ASSUME IInv PROVE LifeTypeOK
    OBVIOUS
  <2>1. total \in 0 .. MaxRecords /\ stored.total \in 0 .. MaxRecords
    <3>1. Timing \in SUBSET Handlers
      BY DEF Timing
    <3>2. Cardinality(Timing) \in Nat
      BY <3>1, HandlersAreFinite
    <3> QED
      BY <3>2, MetricsAssumption DEF IInv, Types, Totals, Snapshots
  <2>2. \A g \in Goroutines : /\ copied[g].total \in 0 .. MaxRecords
                              /\ copied[g].history \in Seq(Records)
    BY MetricsAssumption DEF IInv, Types, Totals, Snapshots
  <2>3. stored.history \in Seq(Records) /\ ret \in [Goroutines -> Places]
    BY DEF IInv, Types, Snapshots, ReturnTo, Places
  <2> QED
    BY <2>1, <2>2, <2>3 DEF IInv, Types, LifeTypes, LifeTypeOK, TypeOK
<1> QED
  BY <1>1, InvariantHolds, PTL

\* No record is ever in two places or twice in one, with any number of
\* handlers flushing at once and through any number of kills and starts.
THEOREM NothingIsDoubled == LifeSpec => []NeverDoubled
<1>1. IInv => NeverDoubled
  BY DEF IInv, Distinct
<1> QED
  BY <1>1, InvariantHolds, PTL

\* A record is only given up by a history that is full.
THEOREM NothingIsLost == LifeSpec => []NeverLost
<1>1. IInv => NeverLost
  BY DEF IInv
<1> QED
  BY <1>1, InvariantHolds, PTL

\* The history stays within HistorySize, and the buffer grows past a batch by
\* the records of the handlers that are about to flush it.
THEOREM SizesAreBounded == LifeSpec => []Bounded
<1>1. IInv => Bounded
  <2> SUFFICES ASSUME IInv PROVE Bounded
    OBVIOUS
  <2>1. Flushing \in SUBSET Handlers
    BY DEF Flushing
  <2>2. /\ Cardinality(Flushing) \in Nat /\ Cardinality(Handlers) \in Nat
        /\ Cardinality(Flushing) <= Cardinality(Handlers)
    BY <2>1, HandlersAreFinite
  <2> QED
    BY <2>2, LengthsAreNatural DEF IInv, Sizes, Bounded
<1> QED
  BY <1>1, InvariantHolds, PTL

\* Neither the service nor the storage ever lists more requests than it counts.
THEOREM ListedIsCounted == LifeSpec => []CountedBeforeListed
<1>1. IInv => CountedBeforeListed
  BY HistoryIsCounted DEF IInv, Counted, CountedBeforeListed
<1> QED
  BY <1>1, InvariantHolds, PTL

\* A Close that begins with no request in progress, after which none begins,
\* and whose save works has saved the count of all requests and left no record
\* in the buffer, whatever flushLoop does; and it has saved all records the
\* history keeps, if flushLoop carried no batch when done was closed and took no
\* tick after it.
THEOREM QuietCloseLosesNothing == LifeSpec => []QuietCloseSaves
<1>1. IInv => QuietCloseSaves
  <2> SUFFICES ASSUME IInv, quiet, pc[Closer] = "saved"
               PROVE  /\ stored.total = total /\ buffer = <<>>
                      /\ still => stored.history = history /\ Carried = {}
    BY DEF QuietCloseSaves
  <2>1. stored.total = total /\ buffer = <<>>
    BY DEF IInv, Closing
  <2>2. ASSUME still PROVE stored.history = history /\ Carried = {}
    <3>1. stored.history = history
      BY <2>2 DEF IInv, Settled
    <3>2. \A g \in Goroutines : batch[g] = <<>>
      BY <2>2, Roles DEF IInv, Closing, Settled, Types
    <3> QED
      BY <3>1, <3>2, EmptyOnce DEF Carried
  <2> QED
    BY <2>1, <2>2
<1> QED
  BY <1>1, InvariantHolds, PTL
=============================================================================
