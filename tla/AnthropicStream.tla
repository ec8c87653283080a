--------------------------- MODULE AnthropicStream --------------------------
(***************************************************************************)
(* The streaming converter of server/response_anthropic.go: for each       *)
(* upstream event anthropicStreamWriter writes some server-sent events.    *)
(* It keeps at most one text block open and at most one tool call pending; *)
(* the arguments of a call are held back until the call is flushed.  Every *)
(* write may fail, which ends the handler.                                 *)
(***************************************************************************)
EXTENDS Upstream

CONSTANT MaxEvents  \* bound: how many upstream events arrive

VARIABLES got,        \* the upstream events read so far
          textOpen,   \* textBlockOpen
          textIndex,  \* textBlockIndex
          nextIndex,  \* nextBlockIndex
          tool,       \* the tool struct; id 0 for the empty id
          stopReason, \* stopReason, "none" for the empty one
          hasContent, \* hasContent
          sent,       \* the server-sent events the client was sent
          ending,     \* how the upstream stream ended: "open", "complete", "cut"
          result      \* what was recorded: "none", "success", "failure"

writer == <<textOpen, textIndex, nextIndex, tool, stopReason, hasContent>>
vars == <<got, writer, sent, ending, result>>

NoTool == [id |-> 0, index |-> 0, args |-> <<>>, started |-> FALSE, stopped |-> FALSE]

Init == /\ got = <<>> /\ sent = <<>> /\ ending = "open" /\ result = "none"
        /\ textOpen = FALSE /\ textIndex = 0 /\ nextIndex = 0 /\ tool = NoTool
        /\ stopReason = "none" /\ hasContent = FALSE

-----------------------------------------------------------------------------
(* The events the client is sent.                                          *)

MessageStart == [type |-> "message_start"]
MessageDelta(r) == [type |-> "message_delta", stop |-> r]
MessageStop == [type |-> "message_stop"]
BlockStart(i, id) == [type |-> "block_start", index |-> i, id |-> id]
TextDelta(i, text) == [type |-> "text_delta", index |-> i, payload |-> text]
InputDelta(i, args) == [type |-> "input_json_delta", index |-> i, payload |-> args]
BlockStop(i) == [type |-> "block_stop", index |-> i]

\* Write the events one after the other; a write that fails is the last one,
\* and the handler records a failure and returns (its writer is not used again).
Write(events) ==
  \/ sent' = sent \o events /\ UNCHANGED result
  \/ /\ \E n \in 0 .. Len(events) - 1 : sent' = sent \o SubSeq(events, 1, n)
     /\ result' = "failure"

\* Mutated form: the open text block is left open.
CloseText_Open == <<>>

\* closeTextBlock.
CloseText == IF textOpen THEN <<BlockStop(textIndex)>> ELSE <<>>

\* flushCurrentTool: close the text, then startToolBlock, sendToolInputDelta
\* and stopToolBlock.
FlushTool ==
  IF tool.id = 0 THEN <<>>
  ELSE CloseText \o (IF tool.started THEN <<>> ELSE <<BlockStart(tool.index, tool.id)>>)
       \o <<InputDelta(tool.index, tool.args)>>
       \o (IF tool.stopped THEN <<>> ELSE <<BlockStop(tool.index)>>)

Flushed == IF tool.id = 0 THEN tool
           ELSE [tool EXCEPT !.id = 0, !.started = TRUE, !.stopped = TRUE]
TextStaysOpen == textOpen /\ tool.id = 0
ToolPending == tool.id # 0 /\ ~tool.stopped

-----------------------------------------------------------------------------
(* The handler.                                                            *)

Begin == /\ sent = <<>> /\ result = "none"
         /\ Write(<<MessageStart>>)
         /\ UNCHANGED <<got, writer, ending>>

\* The scanner delivers the next event to the callback.
Receive(e) == /\ sent # <<>> /\ result = "none" /\ ending = "open"
              /\ Len(got) < MaxEvents
              /\ got' = Append(got, e)
              /\ UNCHANGED ending

\* Content without text flushes a pending call and is otherwise ignored.
Blank(e) ==
  /\ Receive(e) /\ e.kind = "blank"
  /\ Write(FlushTool)
  /\ textOpen' = TextStaysOpen /\ tool' = Flushed
  /\ UNCHANGED <<textIndex, nextIndex, stopReason, hasContent>>

\* Content with text: flush the pending call, startTextBlock, write the delta.
Text(e) ==
  /\ Receive(e) /\ e.kind = "text"
  /\ IF TextStaysOpen
     THEN /\ Write(<<TextDelta(textIndex, Len(got'))>>)
          /\ UNCHANGED <<textIndex, nextIndex>>
     ELSE /\ textIndex' = nextIndex /\ nextIndex' = nextIndex + 1
          /\ Write(FlushTool \o <<BlockStart(nextIndex, 0), TextDelta(nextIndex, Len(got'))>>)
  /\ textOpen' = TRUE /\ tool' = Flushed /\ hasContent' = TRUE
  /\ UNCHANGED stopReason

\* Mutated form: the pending call is replaced without being sent.
ToolCall_Replaced(e) ==
  /\ Receive(e) /\ e.kind = "tool"
  /\ tool' = [NoTool EXCEPT !.id = Len(got'), !.index = nextIndex]
  /\ nextIndex' = nextIndex + 1
  /\ UNCHANGED <<sent, result, textOpen, textIndex, stopReason, hasContent>>

\* Mutated form: the arguments of the call before are kept.
ToolCall_ArgsKept(e) ==
  /\ Receive(e) /\ e.kind = "tool"
  /\ Write(FlushTool)
  /\ tool' = [NoTool EXCEPT !.id = Len(got'), !.index = nextIndex, !.args = tool.args]
  /\ nextIndex' = nextIndex + 1
  /\ textOpen' = TextStaysOpen
  /\ UNCHANGED <<textIndex, stopReason, hasContent>>

\* A ToolCall with id and name: flush the call before it, then resetTool.
ToolCall(e) ==
  /\ Receive(e) /\ e.kind = "tool"
  /\ Write(FlushTool)
  /\ tool' = [NoTool EXCEPT !.id = Len(got'), !.index = nextIndex]
  /\ nextIndex' = nextIndex + 1
  /\ textOpen' = TextStaysOpen
  /\ UNCHANGED <<textIndex, stopReason, hasContent>>

\* appendToolArgs, whether or not a call is pending.
ToolArgs(e) ==
  /\ Receive(e) /\ e.kind = "args"
  /\ tool' = [tool EXCEPT !.args = Append(@, Len(got'))]
  /\ UNCHANGED <<textOpen, textIndex, nextIndex, stopReason, hasContent, sent, result>>

\* A ToolCall without a name, and FunctionCall, have no effect.
Ignored(e) ==
  /\ Receive(e) /\ e.kind \in {"nameless", "function", "functionArgs"}
  /\ UNCHANGED <<writer, sent, result>>

\* MapJetbrainsFinishReason.
Mapped(reason) == CASE reason = "tool_call" -> "tool_use"
                    [] reason = "length" -> "max_tokens"
                    [] OTHER -> "end_turn"

\* FinishMetadata: the stream is read on after it.
Finish(e) ==
  /\ Receive(e) /\ e.kind = "finish"
  /\ stopReason' = IF e.reason = "none" THEN stopReason ELSE Mapped(e.reason)
  /\ Write(FlushTool)
  /\ textOpen' = TextStaysOpen /\ tool' = Flushed
  /\ UNCHANGED <<textIndex, nextIndex, hasContent>>

\* Mutated form: without a reason the message always ends the turn.
Inferred_EndTurn == IF stopReason # "none" THEN stopReason ELSE "end_turn"

\* The reason inferred when upstream gave none.
Inferred == IF stopReason # "none" THEN stopReason
            ELSE IF Flushed.started THEN "tool_use" ELSE "end_turn"

\* The stream ends: with the end marker, or because it is cut (upstream fails,
\* or the client is gone); the code goes on alike.  The pending call is
\* flushed, the text closed and the message ended.
End ==
  /\ sent # <<>> /\ result = "none" /\ ending = "open"
  /\ ending' \in {"complete", "cut"}
  /\ LET events == FlushTool
                   \o (IF TextStaysOpen THEN CloseText ELSE <<>>)
                   \o <<MessageDelta(Inferred), MessageStop>>
     IN \/ /\ sent' = sent \o events
           /\ result' = IF hasContent \/ Flushed.started THEN "success" ELSE "failure"
        \/ /\ \E n \in 0 .. Len(events) - 1 : sent' = sent \o SubSeq(events, 1, n)
           /\ result' = "failure"
  /\ tool' = Flushed /\ textOpen' = FALSE /\ stopReason' = Inferred
  /\ UNCHANGED <<got, textIndex, nextIndex, hasContent>>

Next == \/ Begin \/ End
        \/ \E e \in Event : \/ Blank(e) \/ Text(e) \/ ToolCall(e) \/ ToolArgs(e)
                            \/ Ignored(e) \/ Finish(e)

Spec == Init /\ [][Next]_vars

-----------------------------------------------------------------------------
(* Properties.                                                             *)

\* What may follow what in the Anthropic streaming protocol: message_start,
\* then blocks one after the other with consecutive indices, each with a start,
\* deltas of its kind and a stop, then message_delta and message_stop.
MayFollow(last, e) ==
  CASE e.type = "message_start" -> FALSE
    [] e.type = "block_start" ->
         \/ last.type = "message_start" /\ e.index = 0
         \/ last.type = "block_stop" /\ e.index = last.index + 1
    [] e.type = "text_delta" ->
         /\ \/ last.type = "block_start" /\ last.id = 0
            \/ last.type = "text_delta"
         /\ e.index = last.index
    [] e.type = "input_json_delta" ->
         /\ last.type = "block_start" /\ last.id # 0
         /\ e.index = last.index
    [] e.type = "block_stop" ->
         /\ last.type \in {"text_delta", "input_json_delta"}
         /\ e.index = last.index
    [] e.type = "message_delta" -> last.type \in {"message_start", "block_stop"}
    [] e.type = "message_stop" -> last.type = "message_delta"

\* However texts, calls and finishes are interleaved upstream, and wherever a
\* write fails, the client never sees a block inside another block, an index
\* twice, a text in the block of a call, or a block that is not closed before
\* the message ends (response_anthropic.go:155).
ProtocolKept == \A n \in DOMAIN sent : IF n = 1 THEN sent[n] = MessageStart
                                       ELSE MayFollow(sent[n - 1], sent[n])

\* The upstream event that a sent event brings to the client first, 0 for none.
Place(e) == CASE e.type = "block_start" -> e.id
              [] e.type = "text_delta" -> e.payload
              [] OTHER -> 0

\* What of the upstream events has been sent.
SentTexts == {Place(sent[n]) : n \in {k \in DOMAIN sent : sent[k].type = "text_delta"}}
SentCalls == {Place(sent[n]) : n \in {k \in DOMAIN sent : sent[k].type = "block_start"}} \ {0}

\* A request is counted as a success only if every text and every named call
\* of the upstream stream reached the client; and at any time the texts and
\* calls that did are there once, in the order in which upstream produced them,
\* also while a call is held back until its arguments are complete
\* (response_anthropic.go:175).
ContentKept ==
  /\ result = "success" => SentTexts = Texts(got) /\ SentCalls = Calls(got, {"tool"})
  /\ \A i, k \in DOMAIN sent : i < k /\ Place(sent[i]) # 0 /\ Place(sent[k]) # 0 =>
                              Place(sent[i]) < Place(sent[k])

\* The arguments of a call are the pieces that followed it until it was
\* flushed by a text, by a finish or by the next call: never a piece of another
\* call, and no piece less (response_anthropic.go:155).
ArgsExact == \A n \in DOMAIN sent :
  sent[n].type = "input_json_delta" =>
    \E k \in DOMAIN sent :
      /\ sent[k].type = "block_start" /\ sent[k].index = sent[n].index
      /\ Lists(sent[n].payload,
               Pieces(got, sent[k].id, {"text", "blank", "tool", "finish"}, {"args"}))

\* The client is told to run tools exactly if upstream said so, or said
\* nothing and there are calls to run.
StopReasonRight ==
  LET given == {i \in DOMAIN got : got[i].reason # "none"}
  IN \A n \in DOMAIN sent : sent[n].type = "message_delta" =>
       IF given = {}
       THEN sent[n].stop = IF SentCalls = {} THEN "end_turn" ELSE "tool_use"
       ELSE \E i \in given : /\ \A k \in given : k <= i
                             /\ sent[n].stop = Mapped(got[i].reason)
=============================================================================
