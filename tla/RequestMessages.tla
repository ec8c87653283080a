-------------------------- MODULE RequestMessages --------------------------
(***************************************************************************)
(* The request side of the two chat handlers: a conversation in the form   *)
(* of the OpenAI or of the Anthropic API becomes the message list of a     *)
(* JetBrains payload (internal/convert/openai.go, anthropic.go and         *)
(* ProcessMessages in internal/process).  OpenAI conversations go through  *)
(* a cache and through MessageConverter objects that requests take from a  *)
(* sync.Pool, with the name table of the last conversation cleared.        *)
(*                                                                         *)
(* Texts, images, ids, names and arguments are strings, "" if absent; a    *)
(* joined text is the sequence of its parts.                               *)
(***************************************************************************)
EXTENDS Naturals, Sequences, FiniteSets, Lists

CONSTANTS Handlers,      \* the goroutines that serve requests
          Converters,    \* the objects of converterPool
          NoConverter,   \* "no converter in use"
          Chats,         \* the OpenAI conversations that clients send
          Dialogs,       \* the Anthropic requests that clients send
          Strings,       \* the strings in them, the empty one too
          Ids,           \* the tool call ids in them
          ValidImages,   \* the images that ValidateImageData accepts
          Reencoded,     \* what each string is as arguments, decoded to a map
                         \* and encoded again
          CacheSize      \* bound: conversations that stay in the cache

VARIABLES pc,       \* where each handler is
          chat,     \* the conversation each handler serves
          using,    \* the converter each handler has taken from the pool
          names,    \* toolIDToFuncNameMap of each converter, "" for no entry
          payload,  \* the messages each handler has converted
          cache     \* the cached conversions: a set of [key, messages]

vars == <<pc, chat, using, names, payload, cache>>

NoNames == [i \in Ids \cup {""} |-> ""]

Init == /\ pc = [h \in Handlers |-> "idle"]
        /\ chat = [h \in Handlers |-> <<>>]
        /\ using = [h \in Handlers |-> NoConverter]
        /\ names = [c \in Converters |-> NoNames]
        /\ payload = [h \in Handlers |-> <<>>]
        /\ cache = {}

-----------------------------------------------------------------------------
(* What clients send, as the two APIs have it: calls are the assistant's,  *)
(* results of tools answer by id, and in Anthropic's they are the user's.  *)

Block == [type : {"text", "image"}, value : Strings]
UseBlock ==
  [type : {"tool_use"}, id : Strings \ {""}, name : Strings \ {""}, args : Strings]
ResultBlock == [type : {"tool_result"}, id : Strings, value : Seq(Strings)]

Content(blocks) == [array : BOOLEAN, blocks : Seq(blocks)]
Call == [id : Strings, name : Strings, args : Strings]

ChatMessage ==
  [role : {"assistant"}, content : Content(Block), calls : Seq(Call), callId : Ids \cup {""}]
  \cup [role : Strings \ {"assistant"}, content : Content(Block), calls : {<<>>},
        callId : Ids \cup {""}]

AnthropicMessage ==
  [role : {"user"}, content : Content(Block \cup ResultBlock)]
  \cup [role : {"assistant"}, content : Content(Block \cup UseBlock)]

Dialog == [system : Strings, messages : Seq(AnthropicMessage)]

-----------------------------------------------------------------------------
(* JetBrains messages, and the parts of contents.                          *)

JetbrainsMessage(type, id, name, parts) ==
  [type |-> type, id |-> id, name |-> name, parts |-> parts]

Plain(type, parts) == JetbrainsMessage(type, "", "", parts)

\* A content is a string or an array of blocks.
PartsOf(content, type) ==
  LET blocks == Where(content.blocks, LAMBDA b : b.type = type)
  IN [i \in DOMAIN blocks |-> blocks[i].value]

Blocks(content, type) == Where(content.blocks, LAMBDA b : b.type = type)

\* The join of no texts and of one empty text is empty.
IsEmpty(parts) == parts \in {<<>>, <<"">>}
NonEmpty(parts) == Where(parts, LAMBDA t : t # "")

\* The name of the last call with the id, and otherwise the given one.
NameIn(calls, id, otherwise) ==
  LET last == SelectLastInSeq(calls, LAMBDA c : c.id = id)
  IN IF last = 0 THEN otherwise ELSE calls[last].name

-----------------------------------------------------------------------------
(* MessageConverter (OpenAI).  A message has a role, a content, tool calls *)
(* and the id of the call it answers.                                      *)

CallsOf(conversation) == Each(LAMBDA m : IF m.role = "assistant" THEN m.calls ELSE <<>>,
                              conversation)

\* buildToolIDMap, on top of what the converter's table holds.
Extended(table, conversation) ==
  LET calls == Where(CallsOf(conversation), LAMBDA c : c.id # "" /\ c.name # "")
  IN [i \in DOMAIN table |-> NameIn(calls, i, table[i])]

\* convertUserMessage: the first image, if there is one, and the joined
\* text; without an image, every text of an array for itself.
UserMessages(content) ==
  LET texts == PartsOf(content, "text")
      images == PartsOf(content, "image")
      joined == Plain("user_message", texts)
  IN IF images # <<>>
     THEN IF Head(images) \notin ValidImages THEN <<joined>>
          ELSE <<Plain("media_message", <<Head(images)>>)>>
               \o (IF IsEmpty(texts) THEN <<>> ELSE <<joined>>)
     ELSE IF content.array
          THEN [i \in DOMAIN NonEmpty(texts) |-> Plain("user_message", <<NonEmpty(texts)[i]>>)]
          ELSE <<joined>>

\* The arguments, an object, are decoded to a map[string]any and encoded again:
\* a large integer becomes the nearest float64 and a repeated key is left once.
\* Other text of an OpenAI call is left alone, and so is the empty one.
ToolUse(call) ==
  JetbrainsMessage("assistant_message_tool", call.id, call.name, <<Reencoded[call.args]>>)
ToolUses(calls) == [i \in DOMAIN calls |-> ToolUse(calls[i])]

AssistantMessages(m) ==
  LET texts == PartsOf(m.content, "text")
  IN (IF m.calls # <<>> /\ IsEmpty(texts) THEN <<>>
      ELSE <<Plain("assistant_message_text", texts)>>) \o ToolUses(m.calls)

\* convertToolMessage; a table without an entry answers "".
ToolResult(m, table) ==
  LET name == table[m.callId]
  IN JetbrainsMessage("tool_message", m.callId, IF name = "" THEN "unknown_tool" ELSE name,
                      PartsOf(m.content, "text"))

ConvertMessage(m, table) ==
  LET texts == PartsOf(m.content, "text")
  IN CASE m.role = "user" -> UserMessages(m.content)
       [] m.role = "system" -> <<Plain("system_message", texts)>>
       [] m.role = "assistant" -> AssistantMessages(m)
       [] m.role = "tool" -> <<ToolResult(m, table)>>
       [] OTHER -> <<Plain("user_message", texts)>>

-----------------------------------------------------------------------------
(* The OpenAI handler: ProcessMessages.                                    *)

\* Mutated form: the calls do not go into the hash.
Key_NoCalls(conversation) ==
  [i \in DOMAIN conversation |-> [conversation[i] EXCEPT !.calls = <<>>]]

\* GenerateMessagesCacheKey hashes all of every message.
Key(conversation) == conversation

ReceiveChat(h) ==
  /\ pc[h] = "idle"
  /\ \E c \in Chats : chat' = [chat EXCEPT ![h] = c]
  /\ pc' = [pc EXCEPT ![h] = "lookup"]
  /\ UNCHANGED <<using, names, payload, cache>>

CacheHit(h) ==
  /\ pc[h] = "lookup"
  /\ \E entry \in cache :
       /\ entry.key = Key(chat[h])
       /\ payload' = [payload EXCEPT ![h] = entry.messages]
  /\ pc' = [pc EXCEPT ![h] = "send"]
  /\ UNCHANGED <<chat, using, names, cache>>

\* A miss: the handler takes a converter and builds its name table.
TakeConverter(h) ==
  /\ pc[h] = "lookup"
  /\ \A entry \in cache : entry.key # Key(chat[h])
  /\ \E c \in Converters :
       /\ \A other \in Handlers : using[other] # c
       /\ using' = [using EXCEPT ![h] = c]
       /\ names' = [names EXCEPT ![c] = Extended(@, chat[h])]
  /\ pc' = [pc EXCEPT ![h] = "convert"]
  /\ UNCHANGED <<chat, payload, cache>>

\* Mutated form: the table is not cleared before the converter goes back.
Convert_Uncleared(h) ==
  /\ pc[h] = "convert"
  /\ payload' = [payload EXCEPT ![h] =
                   Each(LAMBDA m : ConvertMessage(m, names[using[h]]), chat[h])]
  /\ using' = [using EXCEPT ![h] = NoConverter]
  /\ pc' = [pc EXCEPT ![h] = "store"]
  /\ UNCHANGED <<chat, names, cache>>

\* The messages are converted; the deferred function clears the table and
\* puts the converter back.
Convert(h) ==
  /\ pc[h] = "convert"
  /\ payload' = [payload EXCEPT ![h] =
                   Each(LAMBDA m : ConvertMessage(m, names[using[h]]), chat[h])]
  /\ names' = [names EXCEPT ![using[h]] = NoNames]
  /\ using' = [using EXCEPT ![h] = NoConverter]
  /\ pc' = [pc EXCEPT ![h] = "store"]
  /\ UNCHANGED <<chat, cache>>

\* cache.Set, which replaces the entry of the key; others may be evicted.
Store(h) ==
  /\ pc[h] = "store"
  /\ \E kept \in SUBSET {e \in cache : e.key # Key(chat[h])} :
       /\ Cardinality(kept) < CacheSize
       /\ cache' = kept \cup {[key |-> Key(chat[h]), messages |-> payload[h]]}
  /\ pc' = [pc EXCEPT ![h] = "send"]
  /\ UNCHANGED <<chat, using, names, payload>>

\* An entry expires or is evicted.
Drop == /\ \E entry \in cache : cache' = cache \ {entry}
        /\ UNCHANGED <<pc, chat, using, names, payload>>

-----------------------------------------------------------------------------
(* The Anthropic handler.  A content block is a text, a tool use with id,  *)
(* name and arguments, or a tool result with the id of its call and texts. *)

\* ExtractAllToolUse, and the first pass over the assistant's messages.
UsesOf(conversation) ==
  Each(LAMBDA m : IF m.role = "assistant" THEN Blocks(m.content, "tool_use") ELSE <<>>,
       conversation)

\* extractMixedContent: the tool results of a content.
Results(content, conversation) ==
  LET results == Blocks(content, "tool_result")
  IN [i \in DOMAIN results |->
        JetbrainsMessage("tool_message", results[i].id,
          NameIn(UsesOf(conversation), results[i].id, "Unknown"), results[i].value)]

\* A message of the text, unless it is empty.
TextUnlessEmpty(type, texts) == IF IsEmpty(texts) THEN <<>> ELSE <<Plain(type, texts)>>

\* ExtractToolInfo: the first tool block of a "tool" message.
ToolMessage(content) ==
  LET tools == Where(content.blocks, LAMBDA b : b.type \in {"tool_use", "tool_result"})
  IN IF tools = <<>> THEN <<Plain("tool_message", NonEmpty(PartsOf(content, "text")))>>
     ELSE <<JetbrainsMessage("tool_message", Head(tools).id,
              IF Head(tools).type = "tool_use" THEN Head(tools).name ELSE "",
              IF Head(tools).type = "tool_use" THEN <<>> ELSE Head(tools).value)>>

ConvertTurn(m, conversation) ==
  LET texts == NonEmpty(PartsOf(m.content, "text"))
      has(type) == Blocks(m.content, type) # <<>>
  IN CASE m.role = "user" /\ has("tool_result") ->
            Results(m.content, conversation) \o TextUnlessEmpty("user_message", texts)
       [] m.role = "assistant" /\ has("tool_use") ->
            TextUnlessEmpty("assistant_message_text", texts)
            \o ToolUses(Blocks(m.content, "tool_use"))
       [] m.role = "assistant" /\ ~has("tool_use") -> <<Plain("assistant_message", texts)>>
       [] m.role = "tool" -> ToolMessage(m.content)
       [] OTHER -> <<Plain("user_message", texts)>>

\* AnthropicToJetbrainsMessages, and the system prompt in front.
ReceiveDialog(h) ==
  /\ pc[h] = "idle"
  /\ \E d \in Dialogs :
       /\ chat' = [chat EXCEPT ![h] = d.messages]
       /\ payload' = [payload EXCEPT ![h] =
            (IF d.system = "" THEN <<>> ELSE <<Plain("system_message", <<d.system>>)>>)
            \o Each(LAMBDA m : ConvertTurn(m, d.messages), d.messages)]
  /\ pc' = [pc EXCEPT ![h] = "send dialog"]
  /\ UNCHANGED <<using, names, cache>>

\* The payload is sent and the request ends.
Send(h) == /\ pc[h] \in {"send", "send dialog"}
           /\ pc' = [pc EXCEPT ![h] = "idle"]
           /\ chat' = [chat EXCEPT ![h] = <<>>]
           /\ payload' = [payload EXCEPT ![h] = <<>>]
           /\ UNCHANGED <<using, names, cache>>

Next == \/ \E h \in Handlers : \/ ReceiveChat(h) \/ CacheHit(h) \/ TakeConverter(h)
                               \/ Convert(h) \/ Store(h) \/ ReceiveDialog(h) \/ Send(h)
        \/ Drop

Spec == Init /\ [][Next]_vars

-----------------------------------------------------------------------------
(* Properties.                                                             *)

AnyCalls(conversation) ==
  Each(LAMBDA m : IF m.role # "assistant" THEN <<>>
                  ELSE IF "calls" \in DOMAIN m THEN m.calls ELSE Blocks(m.content, "tool_use"),
       conversation)

\* A tool result names the tool of a call with its id in its own conversation,
\* wherever the call stands, and no tool if there is none: no name comes from
\* another conversation, through a converter used before (openai.go:33) or
\* through the cache (processor.go:49).
ResultsNamed == \A h \in Handlers : \A i \in DOMAIN payload[h] :
  payload[h][i].type = "tool_message" =>
    LET called == {c \in ToSet(AnyCalls(chat[h])) :
                     c.id = payload[h][i].id /\ c.id # "" /\ c.name # ""}
    IN IF called = {} THEN payload[h][i].name \in {"unknown_tool", "Unknown"}
       ELSE \E c \in called : payload[h][i].name = c.name

\* What a conversation says, in either form: texts, the first image that is
\* valid, calls, with their arguments encoded again, and results.  Within a
\* message the order is that of the kinds: the image, the results, the texts and
\* the calls, wherever the client had put them.
Items(kind, values) == [i \in DOMAIN values |-> <<kind, values[i]>>]
CallItems(calls) ==
  [i \in DOMAIN calls |-> <<"call", calls[i].id, calls[i].name, Reencoded[calls[i].args]>>]
TextItems(content) == Items("text", NonEmpty(PartsOf(content, "text")))

SaidInChat(m) ==
  LET images == PartsOf(m.content, "image")
      seen == m.role = "user" /\ images # <<>> /\ Head(images) \in ValidImages
  IN (IF seen THEN <<<<"image", Head(images)>>>> ELSE <<>>)
     \o (IF m.role = "tool" THEN <<<<"result", m.callId>>>> ELSE <<>>)
     \o TextItems(m.content) \o CallItems(m.calls)

SaidInDialog(m) ==
  Each(LAMBDA b : <<<<"result", b.id>>>> \o Items("text", NonEmpty(b.value)),
       Blocks(m.content, "tool_result"))
  \o TextItems(m.content) \o CallItems(Blocks(m.content, "tool_use"))

Told(message) ==
  CASE message.type = "media_message" -> Items("image", message.parts)
    [] message.type = "assistant_message_tool" ->
         <<<<"call", message.id, message.name, message.parts[1]>>>>
    [] message.type = "tool_message" ->
         <<<<"result", message.id>>>> \o Items("text", NonEmpty(message.parts))
    [] OTHER -> Items("text", NonEmpty(message.parts))

WithoutSystem(messages) ==
  IF messages # <<>> /\ messages[1].type = "system_message" THEN Tail(messages) ELSE messages

\* The payload that is sent has every non-empty text, call and result of the
\* request's own conversation, and the first image of an OpenAI user message if
\* it is valid: none is lost, doubled or added, whether it was converted or
\* found in the cache (openai.go:164, anthropic.go:53 "preserve both").  The
\* messages keep their order, and so do the items of one kind in a message; but
\* a text before a tool result moves behind it, and one after a call before it.
\* The arguments of a call are those that survive being decoded and encoded.
PromptComplete == \A h \in Handlers :
  /\ pc[h] = "send" => Each(Told, payload[h]) = Each(SaidInChat, chat[h])
  /\ pc[h] = "send dialog" =>
       Each(Told, WithoutSystem(payload[h])) = Each(SaidInDialog, chat[h])
=============================================================================
