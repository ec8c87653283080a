--------------------------- MODULE MetricsHistory ---------------------------
(***************************************************************************)
(* The request history of internal/metrics: handlers count their requests  *)
(* and append a record to a buffer; the ticker, full buffers and every     *)
(* snapshot flush the buffer into the bounded history, in two steps under  *)
(* two different locks; snapshots are saved at most once per               *)
(* minSaveInterval and when the service is closed, and loaded again when   *)
(* the process starts anew.                                                *)
(*                                                                         *)
(* A record is a number, in the order its request was timed.  Of the       *)
(* atomic counters TotalRequests is modelled; the others move with it.     *)
(***************************************************************************)
EXTENDS Naturals, Sequences, FiniteSets, SequencesExt

CONSTANTS Handlers,     \* the goroutines that serve requests
          Ticker,       \* the goroutine of flushLoop
          Closer,       \* the main goroutine, which calls Close
          BatchSize,    \* core.HistoryBatchSize
          HistorySize,  \* MetricsConfig.HistorySize
          MaxRecords,   \* bound: how many requests are served
          MaxRestarts   \* bound: how often the process is started anew

ASSUME MetricsAssumption ==
  /\ BatchSize \in Nat \ {0} /\ HistorySize \in Nat \ {0}
  /\ MaxRecords \in Nat /\ MaxRestarts \in Nat
  /\ IsFiniteSet(Handlers)
  /\ Ticker \notin Handlers /\ Closer \notin Handlers /\ Ticker # Closer

Goroutines == Handlers \cup {Ticker, Closer}
Records == 1 .. MaxRecords

\* Nothing has been stored: storage.LoadStats answers with empty statistics.
NoStats == [total |-> 0, history |-> <<>>]

VARIABLES total,    \* TotalRequests
          buffer,   \* historyBuffer
          history,  \* requestHistory
          recent,   \* the last save was less than minSaveInterval ago
          stored,   \* the statistics in the storage
          closed,   \* done is closed
          pc,       \* where each goroutine is
          ret,      \* where each goroutine goes on after flushBuffer
          batch,    \* the batch each goroutine carries in flushBuffer
          copied,   \* the statistics each goroutine copied in GetRequestStats
          record,   \* the record each handler is making, 0 for none
          made,     \* history variable: records begun so far
          base,     \* history variable: records begun before the last start
          restarts  \* history variable: starts after the first

service == <<total, buffer, history, recent, closed>>
calls == <<pc, ret, batch, copied, record>>
ghosts == <<made, base, restarts>>
vars == <<service, stored, calls, ghosts>>

Init == /\ total = 0 /\ buffer = <<>> /\ history = <<>> /\ recent = FALSE
        /\ stored = NoStats /\ closed = FALSE
        /\ pc = [g \in Goroutines |-> "idle"]
        /\ ret = [g \in Goroutines |-> "idle"]
        /\ batch = [g \in Goroutines |-> <<>>]
        /\ copied = [g \in Goroutines |-> NoStats]
        /\ record = [h \in Handlers |-> 0]
        /\ made = 0 /\ base = 0 /\ restarts = 0

Goto(g, place) == pc' = [pc EXCEPT ![g] = place]

\* Call flushBuffer and go on at place.
CallFlush(g, place) == Goto(g, "flush") /\ ret' = [ret EXCEPT ![g] = place]
ReturnFromFlush(g) == Goto(g, ret[g]) /\ ret' = [ret EXCEPT ![g] = "idle"]

-----------------------------------------------------------------------------
(* RecordRequest.                                                          *)

Time(h) == /\ pc[h] = "idle" /\ made < MaxRecords
           /\ made' = made + 1
           /\ record' = [record EXCEPT ![h] = made + 1]
           /\ Goto(h, "count")
           /\ UNCHANGED <<service, stored, ret, batch, copied, base, restarts>>

Count(h) == /\ pc[h] = "count"
            /\ total' = total + 1
            /\ Goto(h, "buffer")
            /\ UNCHANGED <<buffer, history, recent, closed, stored, ret, batch, copied,
                           record, ghosts>>

\* Under bufferMu: append, and see whether the batch is full.
AppendRecord(h) ==
  /\ pc[h] = "buffer"
  /\ buffer' = Append(buffer, record[h])
  /\ IF Len(buffer') >= BatchSize THEN CallFlush(h, "debounce")
                                  ELSE Goto(h, "debounce") /\ UNCHANGED ret
  /\ UNCHANGED <<total, history, recent, closed, stored, batch, copied, record, ghosts>>

-----------------------------------------------------------------------------
(* flushBuffer.                                                            *)

\* Mutated form: the buffer is read without being replaced.
TakeBatch_Kept(g) ==
  /\ pc[g] = "flush"
  /\ batch' = [batch EXCEPT ![g] = buffer]
  /\ IF buffer = <<>> THEN ReturnFromFlush(g) ELSE Goto(g, "merge") /\ UNCHANGED ret
  /\ UNCHANGED <<service, stored, copied, record, ghosts>>

\* Mutated form: an empty buffer is carried on like any other.
TakeBatch_Empty(g) ==
  /\ pc[g] = "flush"
  /\ batch' = [batch EXCEPT ![g] = buffer]
  /\ buffer' = <<>>
  /\ Goto(g, "merge")
  /\ UNCHANGED <<total, history, recent, closed, stored, ret, copied, record, ghosts>>

\* Under bufferMu: an empty buffer ends the call, any other is taken whole.
TakeBatch(g) ==
  /\ pc[g] = "flush"
  /\ batch' = [batch EXCEPT ![g] = buffer]
  /\ buffer' = <<>>
  /\ IF buffer = <<>> THEN ReturnFromFlush(g) ELSE Goto(g, "merge") /\ UNCHANGED ret
  /\ UNCHANGED <<total, history, recent, closed, stored, copied, record, ghosts>>

Newest(n, s) == IF Len(s) > n THEN SubSeq(s, Len(s) - n + 1, Len(s)) ELSE s

\* Mutated form: the history is not cut.
Merged_Uncut(old, new) == old \o new

\* Mutated form: a batch that does not fit replaces the history.
Merged_Replaced(old, new) == IF Len(old \o new) > HistorySize THEN new ELSE old \o new

\* Only the newest HistorySize records are kept.
Merged(old, new) == Newest(HistorySize, old \o new)

\* Under historyMu: append the batch, keep the history at its size.
MergeBatch(g) ==
  /\ pc[g] = "merge"
  /\ history' = Merged(history, batch[g])
  /\ batch' = [batch EXCEPT ![g] = <<>>]
  /\ ReturnFromFlush(g)
  /\ UNCHANGED <<total, buffer, recent, closed, stored, copied, record, ghosts>>

\* A tick can be received until the timer has been stopped, which Close does
\* after it has closed done.
Ticking == ~closed \/ pc[Closer] = "stop"

\* Mutated form: the tick flushes full batches only.
Tick_FullOnly == /\ pc[Ticker] = "idle" /\ Ticking /\ Len(buffer) >= BatchSize
                 /\ CallFlush(Ticker, "idle")
                 /\ UNCHANGED <<service, stored, batch, copied, record, ghosts>>

\* flushLoop: the select receives a tick.  With done closed as well it takes
\* either of the two.
Tick == /\ pc[Ticker] = "idle" /\ Ticking
        /\ CallFlush(Ticker, "idle")
        /\ UNCHANGED <<service, stored, batch, copied, record, ghosts>>

\* flushLoop: the select sees that done is closed, and the goroutine ends.
FlushLoopEnds == /\ pc[Ticker] = "idle" /\ closed
                 /\ Goto(Ticker, "ended")
                 /\ UNCHANGED <<service, stored, ret, batch, copied, record, ghosts>>

-----------------------------------------------------------------------------
(* GetRequestStats, SaveStatsDebounced and LoadStats.                      *)

\* The statistics page asks for a snapshot: only its flush changes anything.
Show(h) == /\ pc[h] = "idle"
           /\ CallFlush(h, "idle")
           /\ UNCHANGED <<service, stored, batch, copied, record, ghosts>>

\* Under historyMu: a save less than minSaveInterval ago ends the call, any
\* other claims the interval and goes on to GetRequestStats, which flushes.
Debounce(h) ==
  /\ pc[h] = "debounce"
  /\ recent' = TRUE
  /\ IF recent THEN /\ Goto(h, "idle") /\ UNCHANGED ret
                    /\ record' = [record EXCEPT ![h] = 0]
               ELSE CallFlush(h, "copyHistory") /\ UNCHANGED record
  /\ UNCHANGED <<total, buffer, history, closed, stored, batch, copied, ghosts>>

\* minSaveInterval has passed since the last save.
IntervalEnds == /\ recent
                /\ recent' = FALSE
                /\ UNCHANGED <<total, buffer, history, closed, stored, calls, ghosts>>

\* Under the read lock of historyMu: the history is copied.
CopyHistory(g) ==
  /\ pc[g] = "copyHistory"
  /\ copied' = [copied EXCEPT ![g] = [total |-> 0, history |-> history]]
  /\ Goto(g, "copyTotal")
  /\ UNCHANGED <<service, stored, ret, batch, record, ghosts>>

\* Then the counters are loaded, which no lock keeps still.
CopyTotal(g) ==
  /\ pc[g] = "copyTotal"
  /\ copied' = [copied EXCEPT ![g].total = total]
  /\ Goto(g, "save")
  /\ UNCHANGED <<service, stored, ret, batch, record, ghosts>>

\* The storage saves the copy as a whole (AtomicStore), or reports an error,
\* which RecordRequest logs and Close returns.
Save(g) ==
  /\ pc[g] = "save"
  /\ copied' = [copied EXCEPT ![g] = NoStats]
  /\ \/ stored' = copied[g] /\ Goto(g, IF g = Closer THEN "saved" ELSE "idle")
     \/ UNCHANGED stored /\ Goto(g, IF g = Closer THEN "failed" ELSE "idle")
  /\ record' = [h \in Handlers |-> IF h = g THEN 0 ELSE record[h]]
  /\ UNCHANGED <<service, ret, batch, ghosts>>

\* Mutated form: the counters are not loaded, only the history is.
Loaded_NoCounter(s) == [s EXCEPT !.total = 0]

\* What LoadStats takes over from the storage.
Loaded(s) == s

\* The process dies at any moment, or has ended, and is started again:
\* NewMetricsService, then LoadStats.
Restart ==
  /\ restarts < MaxRestarts
  /\ restarts' = restarts + 1
  /\ total' = Loaded(stored).total /\ history' = Loaded(stored).history
  /\ buffer' = <<>> /\ recent' = FALSE /\ closed' = FALSE
  /\ pc' = [g \in Goroutines |-> "idle"] /\ ret' = [g \in Goroutines |-> "idle"]
  /\ batch' = [g \in Goroutines |-> <<>>]
  /\ copied' = [g \in Goroutines |-> NoStats]
  /\ record' = [h \in Handlers |-> 0]
  /\ base' = made
  /\ UNCHANGED <<stored, made>>

-----------------------------------------------------------------------------
(* Close.                                                                  *)

\* done is closed.
BeginClose == /\ pc[Closer] = "idle"
              /\ closed' = TRUE
              /\ Goto(Closer, "stop")
              /\ UNCHANGED <<total, buffer, history, recent, stored, ret, batch, copied,
                             record, ghosts>>

\* The timer is stopped and the buffer flushed, whether flushLoop has ended
\* or carries a batch.
StopTimer == /\ pc[Closer] = "stop"
             /\ CallFlush(Closer, "snapshot")
             /\ UNCHANGED <<service, stored, batch, copied, record, ghosts>>

\* Mutated form: Close goes through SaveStatsDebounced.
CloseSnapshot_Debounced ==
  /\ pc[Closer] = "snapshot"
  /\ recent' = TRUE
  /\ IF recent THEN Goto(Closer, "saved") /\ UNCHANGED ret
               ELSE CallFlush(Closer, "copyHistory")
  /\ UNCHANGED <<total, buffer, history, closed, stored, batch, copied, record, ghosts>>

\* GetRequestStats flushes once more.
CloseSnapshot == /\ pc[Closer] = "snapshot"
                 /\ CallFlush(Closer, "copyHistory")
                 /\ UNCHANGED <<service, stored, batch, copied, record, ghosts>>

-----------------------------------------------------------------------------
(* Properties.                                                             *)

Places == {"idle", "count", "buffer", "flush", "merge", "debounce", "copyHistory",
           "copyTotal", "save", "stop", "snapshot", "saved", "failed", "ended"}

\* Every variable has its type, and a goroutine carries a batch between the
\* two halves of flushBuffer only.
TypeOK ==
  /\ total \in 0 .. MaxRecords /\ made \in 0 .. MaxRecords /\ base \in 0 .. made
  /\ restarts \in 0 .. MaxRestarts /\ recent \in BOOLEAN /\ closed \in BOOLEAN
  /\ buffer \in Seq(Records) /\ history \in Seq(Records)
  /\ stored.total \in 0 .. MaxRecords /\ stored.history \in Seq(Records)
  /\ pc \in [Goroutines -> Places] /\ ret \in [Goroutines -> Places]
  /\ \A g \in Goroutines :
       /\ copied[g].total \in 0 .. MaxRecords /\ copied[g].history \in Seq(Records)
       /\ batch[g] \in Seq(Records) /\ (batch[g] # <<>> <=> pc[g] = "merge")
  /\ record \in [Handlers -> 0 .. MaxRecords]

Carried == UNION {ToSet(batch[g]) : g \in Goroutines}

\* Records of this process that have been appended to the buffer.
Appended == {i \in (base + 1) .. made : \A h \in Handlers :
                          record[h] = i => pc[h] \notin {"count", "buffer"}}

\* A record is never doubled, however the two-step flushes of the ticker, the
\* handlers, the statistics page and Close overlap (metrics.go:92), and also
\* not by a restart that loads what was saved.
NeverDoubled ==
  /\ IsInjective(buffer) /\ IsInjective(history)
  /\ \A g \in Goroutines : IsInjective(batch[g])
  /\ \A g, k \in Goroutines : g # k => ToSet(batch[g]) \cap ToSet(batch[k]) = {}
  /\ ToSet(buffer) \cap ToSet(history) = {}
  /\ Carried \cap (ToSet(buffer) \cup ToSet(history)) = {}

\* A record is only given up to keep the history at its size: as long as the
\* history has room, everything appended since the process started is in the
\* buffer, in flight between the two locks, or in the history.
NeverLost ==
  Len(history) < HistorySize =>
    Appended \subseteq ToSet(buffer) \cup ToSet(history) \cup Carried

\* The history never exceeds HistorySize, and the buffer exceeds a batch by
\* no more than the records of handlers that are about to flush it.
Bounded ==
  /\ Len(history) <= HistorySize
  /\ Len(buffer) < BatchSize + Cardinality(Handlers)

\* Statistics, shown, saved or loaded, never list more requests than they
\* count, though no common lock guards the counter and the history
\* (metrics.go:209) and a restart restores them one by one.
CountedBeforeListed == /\ Len(history) <= total
                       /\ Len(stored.history) <= stored.total

\* A record does not stay in the buffer: the ticker moves it on, unless the
\* service is closed.
BufferDrains == \A i \in Records : i \in ToSet(buffer) ~> (i \notin ToSet(buffer) \/ closed)
=============================================================================
