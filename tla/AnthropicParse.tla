--------------------------- MODULE AnthropicParse ---------------------------
(***************************************************************************)
(* The converter behind Anthropic answers that are not streamed:           *)
(* ParseJetbrainsStreamToAnthropic of convert/jetbrains.go makes one       *)
(* message of the whole event stream, which its handler has read before.   *)
(* A call is put into the message only when FinishMetadata follows it.     *)
(*                                                                         *)
(* A body that is one JSON object and not an event stream is left out.     *)
(***************************************************************************)
EXTENDS Upstream

CONSTANT MaxEvents  \* bound: how many upstream events arrive

VARIABLES got,              \* the upstream events read so far
          textParts,        \* textParts
          currentToolCall,  \* the call being read, id 0 for nil
          content,          \* the tool_use blocks of the message
          finishReason,     \* finishReason
          answer            \* the message, <<>> before it is returned

vars == <<got, textParts, currentToolCall, content, finishReason, answer>>

Call(id, args) == [id |-> id, args |-> args]
NoCall == Call(0, <<>>)

Init == /\ got = <<>> /\ textParts = <<>> /\ content = <<>>
        /\ currentToolCall = NoCall
        /\ finishReason = "end_turn" /\ answer = <<>>

Read(e) == /\ answer = <<>> /\ Len(got) < MaxEvents
           /\ got' = Append(got, e)
           /\ UNCHANGED answer

Text(e) == /\ Read(e) /\ e.kind = "text"
           /\ textParts' = Append(textParts, Len(got'))
           /\ UNCHANGED <<currentToolCall, content, finishReason>>

\* A named call takes the place of the one being read.
ToolCall(e) == /\ Read(e) /\ e.kind = "tool"
               /\ currentToolCall' = Call(Len(got'), <<>>)
               /\ UNCHANGED <<textParts, content, finishReason>>

ToolArgs(e) ==
  /\ Read(e) /\ e.kind = "args"
  /\ currentToolCall' = IF currentToolCall.id = 0 THEN currentToolCall
                        ELSE [currentToolCall EXCEPT !.args = Append(@, Len(got'))]
  /\ UNCHANGED <<textParts, content, finishReason>>

\* Content without text, a call without a name and the older events add nothing.
Ignored(e) == /\ Read(e) /\ e.kind \in {"blank", "nameless", "function", "functionArgs"}
              /\ UNCHANGED <<textParts, currentToolCall, content, finishReason>>

\* MapJetbrainsFinishReason.
Mapped(reason) == CASE reason = "tool_call" -> "tool_use"
                    [] reason = "length" -> "max_tokens"
                    [] OTHER -> "end_turn"

\* Mutated form: the call stays current after it was put into the message.
Finish_Kept(e) ==
  /\ Read(e) /\ e.kind = "finish"
  /\ finishReason' = IF e.reason = "none" THEN finishReason ELSE Mapped(e.reason)
  /\ content' = IF currentToolCall.id = 0 THEN content ELSE Append(content, currentToolCall)
  /\ UNCHANGED <<textParts, currentToolCall>>

\* FinishMetadata: take over the reason, if any, and the call, if any.
Finish(e) ==
  /\ Read(e) /\ e.kind = "finish"
  /\ finishReason' = IF e.reason = "none" THEN finishReason ELSE Mapped(e.reason)
  /\ content' = IF currentToolCall.id = 0 THEN content ELSE Append(content, currentToolCall)
  /\ currentToolCall' = NoCall
  /\ UNCHANGED textParts

\* The end of the body: the texts, joined, come first.
Return == /\ answer = <<>>
          /\ answer' = <<[texts |-> textParts, calls |-> content, stop |-> finishReason]>>
          /\ UNCHANGED <<got, textParts, currentToolCall, content, finishReason>>

Next == Return \/ \E e \in Event : Text(e) \/ ToolCall(e) \/ ToolArgs(e) \/ Ignored(e) \/ Finish(e)

Spec == Init /\ [][Next]_vars

-----------------------------------------------------------------------------
(* Properties.                                                             *)

CallIds(calls) == [i \in DOMAIN calls |-> calls[i].id]

\* No call is in the message twice, and none has a piece of another: each has
\* the pieces that followed it, before the FinishMetadata that closed it.
CallsOwn ==
  /\ IsInjective(CallIds(content))
  /\ \A i \in DOMAIN content :
       Lists(content[i].args, Pieces(got, content[i].id, {"tool", "finish"}, {"args"}))

\* README.md:10 promises complete support for batch answers too: every call of
\* a stream that was finished is in the message.
AllCallsReturned ==
  answer # <<>> /\ got # <<>> /\ Last(got).kind = "finish" =>
    Lists(CallIds(answer[1].calls), Calls(got, {"tool"}))
=============================================================================
