--------------------------- MODULE OpenAIResponse ---------------------------
(***************************************************************************)
(* The two OpenAI converters of server/response_openai.go.  Both read the  *)
(* same upstream events: one writes chunks while it reads and sends the    *)
(* tool calls at the end, the other collects one message.  Here they read  *)
(* one stream side by side, so that their answers can be compared.         *)
(*                                                                         *)
(* A FunctionCall with a name carries the first piece of its arguments,    *)
(* which the position of that event stands for.                            *)
(***************************************************************************)
EXTENDS Upstream

CONSTANT MaxEvents  \* bound: how many upstream events arrive

VARIABLES got,        \* the upstream events read so far
          ended,     \* "open", "complete" or "cut"
          \* handleStreamingResponseWithMetrics
          firstChunkSent,
          currentTool,   \* the call being collected, id 0 for nil
          toolCalls,     \* the calls collected
          chunks,        \* the chunks the client was sent
          \* handleNonStreamingResponseWithMetrics
          text,          \* contentBuilder
          messageCalls,  \* toolCalls
          legacy,        \* currentFuncName and currentFuncArgs, id 0 for no name
          upstreamFinishReason,
          message,       \* the answer, NoMessage before there is one
          recorded       \* what each handler recorded: TRUE for a success

streaming == <<firstChunkSent, currentTool, toolCalls, chunks>>
collecting == <<text, messageCalls, legacy, upstreamFinishReason, message>>
vars == <<got, ended, streaming, collecting, recorded>>

Call(id, args) == [id |-> id, args |-> args]
NoCall == Call(0, <<>>)
NoMessage == [text |-> <<>>, calls |-> <<>>, finish |-> "none"]

Init == /\ got = <<>> /\ ended = "open" /\ recorded = <<>>
        /\ firstChunkSent = FALSE /\ currentTool = NoCall
        /\ toolCalls = <<>> /\ chunks = <<>>
        /\ text = <<>> /\ messageCalls = <<>> /\ legacy = NoCall
        /\ upstreamFinishReason = "none" /\ message = NoMessage

\* MapJetbrainsToOpenAIFinishReason.
Mapped(reason) == CASE reason = "tool_call" -> "tool_calls"
                    [] reason = "length" -> "length"
                    [] OTHER -> "stop"

-----------------------------------------------------------------------------
(* Chunks.                                                                 *)

TextChunk(p) == [type |-> "text", role |-> ~firstChunkSent, payload |-> p]
CallsChunk(calls) == [type |-> "calls", role |-> ~firstChunkSent, payload |-> calls]
FinishChunk(reason) == [type |-> "finish", role |-> FALSE, payload |-> reason]
DoneChunk == [type |-> "done", role |-> FALSE, payload |-> "none"]

\* finalizeCurrentTool.
Finalized == IF currentTool.id = 0 THEN toolCalls ELSE Append(toolCalls, currentTool)

\* sendToolCallsAndFinish: errors of the writes are ignored.
SendToolCallsAndFinish(reason) ==
  chunks' = chunks \o (IF Finalized = <<>> THEN <<>> ELSE <<CallsChunk(Finalized)>>)
                   \o <<FinishChunk(reason), DoneChunk>>

-----------------------------------------------------------------------------
(* What each converter makes of an event.                                  *)

\* Start collecting a call, or drop what is being collected.
StartTool(id) == /\ toolCalls' = Finalized
                 /\ currentTool' = Call(id, <<>>)
                 /\ UNCHANGED <<firstChunkSent, chunks>>

AddToTool(p) == /\ currentTool' = IF currentTool.id = 0 THEN currentTool
                                  ELSE [currentTool EXCEPT !.args = Append(@, p)]
                /\ UNCHANGED <<firstChunkSent, toolCalls, chunks>>

Stream(e, p) ==
  CASE e.kind = "text" -> /\ chunks' = Append(chunks, TextChunk(p))
                          /\ firstChunkSent' = TRUE
                          /\ UNCHANGED <<currentTool, toolCalls>>
    [] e.kind = "blank" -> UNCHANGED streaming
    [] e.kind \in {"tool", "function"} -> StartTool(p)
    [] e.kind = "nameless" -> StartTool(0)
    [] e.kind \in {"args", "functionArgs"} -> AddToTool(p)

\* finalizeLegacyFunctionCall.
LegacyFinalized == IF legacy.id = 0 THEN messageCalls ELSE Append(messageCalls, legacy)
\* currentFuncArgs is kept when there is no name to finalize.
LegacyCleared == IF legacy.id = 0 THEN legacy ELSE NoCall

\* Mutated form: the function call in progress is not finalized first.
StartCall_Reordered(p) == /\ messageCalls' = Append(messageCalls, Call(p, <<>>))
                          /\ UNCHANGED legacy

\* A ToolCall with a name is listed at once, after a function call in progress.
StartCall(p) == /\ messageCalls' = Append(LegacyFinalized, Call(p, <<>>))
                /\ legacy' = LegacyCleared

\* Mutated form: a piece goes to the first call listed.
AddToCall_First(p) ==
  IF messageCalls # <<>>
  THEN /\ messageCalls' = [messageCalls EXCEPT ![1].args = Append(@, p)]
       /\ UNCHANGED legacy
  ELSE /\ legacy' = [legacy EXCEPT !.args = Append(@, p)]
       /\ UNCHANGED messageCalls

\* A piece of a ToolCall goes to the last call listed, whichever it is.
AddToCall(p) ==
  IF messageCalls # <<>>
  THEN /\ messageCalls' = [messageCalls EXCEPT ![Len(messageCalls)].args = Append(@, p)]
       /\ UNCHANGED legacy
  ELSE /\ legacy' = [legacy EXCEPT !.args = Append(@, p)]
       /\ UNCHANGED messageCalls

\* A FunctionCall with a name starts anew, with the piece it carries.
StartLegacy(p) == messageCalls' = LegacyFinalized /\ legacy' = Call(p, <<p>>)

AddToLegacy(p) == /\ legacy' = IF legacy.id = 0 THEN legacy
                               ELSE [legacy EXCEPT !.args = Append(@, p)]
                  /\ UNCHANGED messageCalls

Collect(e, p) ==
  /\ CASE e.kind \in {"text", "blank"} -> UNCHANGED <<messageCalls, legacy>>
       [] e.kind = "tool" -> StartCall(p)
       [] e.kind = "nameless" -> messageCalls' = LegacyFinalized /\ legacy' = LegacyCleared
       [] e.kind = "args" -> AddToCall(p)
       [] e.kind = "function" -> StartLegacy(p)
       [] e.kind = "functionArgs" -> AddToLegacy(p)
  /\ text' = IF e.kind = "text" THEN Append(text, p) ELSE text
  /\ UNCHANGED <<upstreamFinishReason, message>>

-----------------------------------------------------------------------------
(* The handlers.                                                           *)

\* An event other than FinishMetadata.
Receive(e) == /\ ended = "open" /\ Len(got) < MaxEvents /\ e.kind # "finish"
              /\ got' = Append(got, e)
              /\ Stream(e, Len(got'))
              /\ Collect(e, Len(got'))
              /\ UNCHANGED <<ended, recorded>>

\* The reason sent to the client, given upstream's and the calls.
FinishReason(reason, calls) == IF reason # "none" THEN Mapped(reason)
                               ELSE IF calls # <<>> THEN "tool_calls" ELSE "stop"

\* The message that is returned with status 200, whatever ended the stream.
Answer(reason) ==
  /\ messageCalls' = LegacyFinalized /\ legacy' = LegacyCleared
  /\ upstreamFinishReason' = reason
  /\ message' = [text |-> text, calls |-> LegacyFinalized,
                 finish |-> FinishReason(reason, LegacyFinalized)]
  /\ UNCHANGED text

\* The stream ends well: with FinishMetadata, after which nothing is read, or
\* with the end marker or the end of the body.
Complete(e) ==
  /\ ended = "open" /\ e.kind = "finish" /\ ended' = "complete"
  /\ SendToolCallsAndFinish(FinishReason(e.reason, Finalized))
  /\ firstChunkSent' = (firstChunkSent \/ Finalized # <<>>)
  /\ toolCalls' = Finalized /\ currentTool' = NoCall
  /\ Answer(e.reason)
  /\ recorded' = <<TRUE, TRUE>>
  /\ UNCHANGED got

\* Mutated form: the streaming handler ends the stream like any other.
Cut_Finished == /\ ended = "open" /\ ended' = "cut"
                /\ SendToolCallsAndFinish("stop")
                /\ Answer("none")
                /\ recorded' = <<FALSE, FALSE>>
                /\ UNCHANGED <<got, firstChunkSent, currentTool, toolCalls>>

\* Upstream fails or the client is gone.  The streaming handler leaves the
\* stream without an end, the other one answers with what it has.
Cut == /\ ended = "open" /\ ended' = "cut"
       /\ Answer("none")
       /\ recorded' = <<FALSE, FALSE>>
       /\ UNCHANGED <<got, streaming>>

Next == Cut \/ \E e \in Event : Receive(e) \/ Complete(e)

Spec == Init /\ [][Next]_vars

-----------------------------------------------------------------------------
(* Properties.                                                             *)

ChunksOf(type) == {n \in DOMAIN chunks : chunks[n].type = type}
CallIds(calls) == [i \in DOMAIN calls |-> calls[i].id]

\* The client sees the role once, on the first chunk that carries anything,
\* whether the answer begins with text or consists of calls only
\* (response_openai.go:139); a stream that was cut never looks finished to it,
\* and a stream that ended well is finished once, as the last thing
\* (response_openai.go:332).
DoneMeansComplete ==
  /\ \A n \in DOMAIN chunks :
       chunks[n].type \in {"text", "calls"} => (chunks[n].role <=> n = 1)
  /\ ended # "complete" => ChunksOf("finish") = {} /\ ChunksOf("done") = {}
  /\ ended = "complete" => /\ ChunksOf("finish") = {Len(chunks) - 1}
                            /\ ChunksOf("done") = {Len(chunks)}

\* Streamed and collected, an answer has the same texts and the same calls in
\* the same order, namely those of the stream, however ToolCall and the older
\* FunctionCall events are mixed, and the same finish reason, which is
\* upstream's if it gave one (response_openai.go:400).
SameAnswer ==
  ended = "complete" =>
    LET calls == Calls(got, {"tool", "function"})
    IN /\ \A n \in ChunksOf("finish") : chunks[n].payload = message.finish
       /\ upstreamFinishReason # "none" => message.finish = Mapped(upstreamFinishReason)
       /\ {chunks[n].payload : n \in ChunksOf("text")} = Texts(got)
       /\ \A i, k \in ChunksOf("text") : i < k => chunks[i].payload < chunks[k].payload
       /\ Lists(message.text, Texts(got))
       /\ calls = {} <=> ChunksOf("calls") = {}
       /\ \A i, k \in ChunksOf("calls") : i = k
       /\ \A n \in ChunksOf("calls") : Lists(CallIds(chunks[n].payload), calls)
       /\ Lists(CallIds(message.calls), calls)

\* Every call gets its own pieces, when a stream has one kind of call only.
\* The piece that comes with the name of a FunctionCall is kept by the
\* collecting converter and ignored by the streaming one.
ArgsComplete ==
  LET Only(kinds) == \A i \in DOMAIN got : got[i].kind \in {"text", "blank"} \cup kinds
      Newer(id) == Pieces(got, id, {"tool"}, {"args"})
      Older(id) == Pieces(got, id, {"function"}, {"functionArgs"})
      Streamed == {chunks[n].payload : n \in ChunksOf("calls")}
  IN ended = "complete" =>
       /\ Only({"tool", "args"}) =>
            \A calls \in Streamed \cup {message.calls} : \A i \in DOMAIN calls :
              Lists(calls[i].args, Newer(calls[i].id))
       /\ Only({"function", "functionArgs"}) =>
            /\ \A calls \in Streamed : \A i \in DOMAIN calls :
                 Lists(calls[i].args, Older(calls[i].id))
            /\ \A i \in DOMAIN message.calls :
                 Lists(message.calls[i].args,
                       {message.calls[i].id} \cup Older(message.calls[i].id))
=============================================================================
