--------------------------- MODULE ServerLifecycle --------------------------
(***************************************************************************)
(* The life of the process (cmd/server/main.go, Run and Close of           *)
(* internal/server/server.go) around the metrics service: requests come in *)
(* while it listens; SIGINT or SIGTERM cancels shutdownCtx; a goroutine    *)
(* then calls srv.Shutdown, which closes the listeners at once and waits   *)
(* for the requests in progress; but ListenAndServe returns when the       *)
(* listeners are closed, so that main goes on to Close and ends the        *)
(* process.                                                                *)
(*                                                                         *)
(* The goroutines take turns in that order, which makes stage one          *)
(* variable.  What Close does besides the metrics service changes no state *)
(* of this module.                                                         *)
(***************************************************************************)
EXTENDS MetricsHistory

VARIABLES stage,  \* how far the process is
          busy,   \* a request is being served by each handler's goroutine
          quiet,  \* history variable: no request since Close began
          still   \* history variable: flushLoop has not flushed since then

Stages == {"serving", "cancelled", "refusing", "closing", "exited"}

lifeVars == <<vars, stage, busy, quiet, still>>

InProgress(h) == busy[h] \/ pc[h] # "idle"
Alive == stage # "exited"

LifeInit == /\ Init
            /\ stage = "serving"
            /\ busy = [h \in Handlers |-> FALSE]
            /\ quiet = FALSE /\ still = FALSE

-----------------------------------------------------------------------------
(* Requests.                                                               *)

\* A request begins at any time: once the listeners are closed it may still
\* come on a connection that was accepted before.
Accept(h) == /\ Alive /\ ~InProgress(h)
             /\ busy' = [busy EXCEPT ![h] = TRUE]
             /\ quiet' = FALSE
             /\ UNCHANGED <<vars, stage, still>>

\* The work of the request is done: a chat request is recorded, the
\* statistics page takes its snapshot.
Serve(h) == /\ Alive /\ busy[h]
            /\ Time(h) \/ Show(h)
            /\ busy' = [busy EXCEPT ![h] = FALSE]
            /\ UNCHANGED <<stage, quiet, still>>

\* The goroutines of the metrics service run on until the process ends.
Record(h) == Count(h) \/ AppendRecord(h) \/ Debounce(h)
Flush(g) == TakeBatch(g) \/ MergeBatch(g) \/ CopyHistory(g) \/ CopyTotal(g) \/ Save(g)
RunOn(A) == Alive /\ A /\ UNCHANGED <<stage, busy, quiet, still>>
FlushOnTick == Alive /\ Tick /\ still' = FALSE /\ UNCHANGED <<stage, busy, quiet>>

-----------------------------------------------------------------------------
(* The shutdown.                                                           *)

\* The signal goroutine receives SIGINT or SIGTERM and calls shutdownCancel.
Signalled == /\ stage = "serving"
             /\ stage' = "cancelled"
             /\ UNCHANGED <<vars, busy, quiet, still>>

\* Mutated form: Run waits for the requests in progress, without a limit.
StopListening_Drained == /\ stage = "cancelled"
                         /\ \A h \in Handlers : ~InProgress(h)
                         /\ stage' = "refusing"
                         /\ UNCHANGED <<vars, busy, quiet, still>>

\* Shutdown closes the listeners, ListenAndServe and Run return.
StopListening == /\ stage = "cancelled"
                 /\ stage' = "refusing"
                 /\ UNCHANGED <<vars, busy, quiet, still>>

\* The deferred Close of main; it comes to the metrics service.
CloseServer == /\ stage = "refusing"
               /\ BeginClose
               /\ stage' = "closing"
               /\ quiet' = \A h \in Handlers : ~InProgress(h)
               /\ still' = (pc[Ticker] = "idle")
               /\ UNCHANGED busy

\* The storage and the logger are closed and main returns, whatever the
\* other goroutines are doing.
Exit == /\ stage = "closing" /\ pc[Closer] \in {"saved", "failed"}
        /\ stage' = "exited"
        /\ UNCHANGED <<vars, busy, quiet, still>>

\* The process is killed, or has ended, and is started again.
StartAgain == /\ Restart
              /\ stage' = "serving"
              /\ busy' = [h \in Handlers |-> FALSE]
              /\ quiet' = FALSE /\ still' = FALSE

LifeNext ==
  \/ \E h \in Handlers : Accept(h) \/ Serve(h) \/ RunOn(Record(h))
  \/ \E g \in Goroutines : RunOn(Flush(g))
  \/ FlushOnTick \/ RunOn(FlushLoopEnds) \/ RunOn(IntervalEnds)
  \/ RunOn(StopTimer) \/ RunOn(CloseSnapshot)
  \/ Signalled \/ StopListening \/ CloseServer \/ Exit \/ StartAgain

\* A goroutine inside a call of the metrics service runs on, the ticker ticks,
\* and the goroutines of the shutdown run.  Nothing makes a request end:
\* upstream may take its time.
LifeFairness ==
  /\ \A h \in Handlers : WF_lifeVars(RunOn(Record(h)))
  /\ \A g \in Goroutines : WF_lifeVars(RunOn(Flush(g)))
  /\ WF_lifeVars(FlushOnTick)
  /\ WF_lifeVars(RunOn(StopTimer)) /\ WF_lifeVars(RunOn(CloseSnapshot))
  /\ WF_lifeVars(StopListening) /\ WF_lifeVars(CloseServer) /\ WF_lifeVars(Exit)

LifeSpec == LifeInit /\ [][LifeNext]_lifeVars

LifeFairSpec == LifeSpec /\ LifeFairness

-----------------------------------------------------------------------------
(* Properties.                                                             *)

\* Every variable has its type, those of the metrics service included.
LifeTypeOK == /\ TypeOK
              /\ stage \in Stages
              /\ busy \in [Handlers -> BOOLEAN]
              /\ quiet \in BOOLEAN /\ still \in BOOLEAN

\* Once the signal has come the process ends, whatever the requests in
\* progress, the ticker and the locks of the metrics service are up to.
SignalEnds == stage = "cancelled" ~> stage \in {"exited", "serving"}

\* metrics.go:314: if no request is in progress when Close begins and none
\* begins after it, a closing save that worked, whether or not one was made
\* less than minSaveInterval ago, has saved the count of all requests and left
\* no record in the buffer; and it has saved all records the history keeps, if
\* flushLoop was not in the middle of a flush when done was closed and took no
\* tick after it.  A batch that flushLoop carries meanwhile may be missed.
QuietCloseSaves ==
  quiet /\ pc[Closer] = "saved" =>
    /\ stored.total = total /\ buffer = <<>>
    /\ still => stored.history = history /\ Carried = {}

\* server.go:196, "Shutdown signal received, shutting down gracefully...",
\* and the 30 seconds that Shutdown is given: a request that was accepted is
\* served and recorded before the process ends.
GracefulShutdown == stage = "exited" => \A h \in Handlers : ~InProgress(h)
=============================================================================
