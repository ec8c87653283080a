----------------------------- MODULE Converters -----------------------------
(***************************************************************************)
(* The conversions of the two chat handlers.  Before upstream is called,   *)
(* messages and tools become a JetBrains payload; once it has answered     *)
(* with status 200, the endpoint and the stream flag of the request decide *)
(* which converter reads the event stream.  Requests meet only in the      *)
(* caches and converters of the first half, and what upstream answers is   *)
(* arbitrary, so each behaviour follows one conversion; the two OpenAI     *)
(* response converters run side by side, so that their answers can be      *)
(* compared.                                                               *)
(***************************************************************************)
EXTENDS Upstream, FiniteSets

CONSTANTS MaxEvents,  \* bound: how many upstream events arrive
          Handlers, CacheSize,
          \* RequestMessages
          ConverterPool, NoConverter, Chats, Dialogs, Strings, Ids, ValidImages,
          Reencoded,
          \* ToolSchemas
          OpenAITools, AnthropicTools, Sorted, Transformed, Types, Constraints,
          Copied, MaxProps, MaxPreserved, MaxNesting, Encodings

\* There is always a converter to take: the pool makes new ones.  Names that
\* transformParamName returns are valid, and "data" is.  What is preserved of
\* a simplified schema is not too much itself (5 + 1 <= 15).
ASSUME ConvertersAssumption ==
  /\ MaxEvents \in Nat /\ CacheSize \in Nat
  /\ "" \notin Ids /\ NoConverter \notin ConverterPool
  /\ Cardinality(Handlers) <= Cardinality(ConverterPool)
  /\ Sorted \in Seq(ToSet(Sorted)) /\ DOMAIN Transformed \subseteq ToSet(Sorted)
  /\ {"data"} \cup {Transformed[n] : n \in DOMAIN Transformed}
       \subseteq ToSet(Sorted) \ DOMAIN Transformed
  /\ MaxProps \in Nat /\ MaxNesting \in Nat
  /\ MaxPreserved \in Nat /\ MaxPreserved < MaxProps

VARIABLES api,  \* which conversion the behaviour follows
          got,  \* the upstream events read so far
          \* AnthropicStream
          textOpen, textIndex, nextIndex, tool, stopReason, hasContent, sent,
          ending, result,
          \* AnthropicParse
          textParts, currentToolCall, content, finishReason, answer,
          \* OpenAIResponse
          ended, firstChunkSent, currentTool, toolCalls, chunks, text,
          messageCalls, legacy, upstreamFinishReason, message, recorded,
          \* RequestMessages
          pc, chat, using, names, payload, cache,
          \* ToolSchemas
          toolPc, tools, key, definitions, toolCache

writer == <<textOpen, textIndex, nextIndex, tool, stopReason, hasContent, sent,
            ending, result>>
reader == <<textParts, currentToolCall, content, finishReason, answer>>
openai == <<ended, firstChunkSent, currentTool, toolCalls, chunks, text,
            messageCalls, legacy, upstreamFinishReason, message, recorded>>
responses == <<got, writer, reader, openai>>
messages == <<pc, chat, using, names, payload, cache>>
schemas == <<toolPc, tools, key, definitions, toolCache>>
vars == <<api, responses, messages, schemas>>

AnthropicWriter == INSTANCE AnthropicStream
AnthropicReader == INSTANCE AnthropicParse
OpenAI == INSTANCE OpenAIResponse
Messages == INSTANCE RequestMessages WITH Converters <- ConverterPool
Tools == INSTANCE ToolSchemas WITH pc <- toolPc, cache <- toolCache

\* Clients keep to the API that they use.
ASSUME ClientsAssumption ==
  /\ "" \in Strings /\ Ids \subseteq Strings /\ Reencoded \in [Strings -> Strings]
  /\ Chats \subseteq Seq(Messages!ChatMessage)
  /\ Dialogs \subseteq Messages!Dialog
  /\ \A list \in OpenAITools \cup AnthropicTools : Tools!AreTools(list)

Init == /\ api \in {"messages", "tools", "anthropic stream", "anthropic", "openai"}
        /\ AnthropicWriter!Init /\ AnthropicReader!Init /\ OpenAI!Init
        /\ Messages!Init /\ Tools!Init

\* Phase 1 of the handlers: ProcessMessages, or AnthropicToJetbrainsMessages.
ConvertMessages ==
  /\ api = "messages" /\ Messages!Next
  /\ UNCHANGED <<api, responses, schemas>>

\* Phase 1, too: ProcessTools, or AnthropicToJetbrainsTools.
ConvertTools ==
  /\ api = "tools" /\ Tools!Next
  /\ UNCHANGED <<api, responses, messages>>

\* Phase 3: the response.
HandleAnthropicStreaming ==
  /\ api = "anthropic stream" /\ AnthropicWriter!Next
  /\ UNCHANGED <<api, reader, openai, messages, schemas>>

HandleAnthropicNonStreaming ==
  /\ api = "anthropic" /\ AnthropicReader!Next
  /\ UNCHANGED <<api, writer, openai, messages, schemas>>

HandleOpenAI ==
  /\ api = "openai" /\ OpenAI!Next
  /\ UNCHANGED <<api, writer, reader, messages, schemas>>

Next == \/ ConvertMessages \/ ConvertTools
        \/ HandleAnthropicStreaming \/ HandleAnthropicNonStreaming \/ HandleOpenAI

Spec == Init /\ [][Next]_vars

-----------------------------------------------------------------------------
(* Properties: those of the converters, stated in their modules.           *)

\* Tool results name the tools of their own conversation (openai.go:33).
ResultsNamed == Messages!ResultsNamed

\* A payload says what its conversation says, no more and no less
\* (processor.go:49).
PromptComplete == Messages!PromptComplete

\* Tool schemas can be used upstream (validate/tools.go:60).
ToolsUsable == Tools!ToolsUsable

\* What need not be simplified in a tool schema is kept (tools.go:153).
SimpleKept == Tools!SimpleKept

\* The same tools are sent in the same form each time (tools.go:109).
SameForm == Tools!SameForm

\* Anthropic, streamed: the event protocol is kept (response_anthropic.go:155).
ProtocolKept == AnthropicWriter!ProtocolKept

\* Anthropic, streamed: nothing is dropped unnoticed or changes its place.
ContentKept == AnthropicWriter!ContentKept

\* Anthropic, streamed: calls get exactly the pieces up to their flush.
ArgsExact == AnthropicWriter!ArgsExact

\* Anthropic, streamed: the stop reason is upstream's, or follows the calls.
StopReasonRight == AnthropicWriter!StopReasonRight

\* Anthropic, collected: no call twice, none with another one's arguments.
CallsOwn == AnthropicReader!CallsOwn

\* OpenAI, streamed: the role comes once and first, and a stream that was cut
\* never looks finished.
DoneMeansComplete == OpenAI!DoneMeansComplete

\* OpenAI: both converters return the texts, the calls and the finish reason of
\* the stream.
SameAnswer == OpenAI!SameAnswer

\* OpenAI: both converters give every call its own arguments.
ArgsComplete == OpenAI!ArgsComplete

\* Anthropic, collected: README.md:10 promises complete support for batch
\* answers; every call of a finished stream is returned.
AllCallsReturned == AnthropicReader!AllCallsReturned
=============================================================================
