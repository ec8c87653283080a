SPECIFICATION Spec
CONSTANTS
  MaxEvents = 3
  Handlers = {h1, h2}
  CacheSize = 1
  ConverterPool = {k1, k2}
  NoConverter = none
  Chats <- MCChats
  Dialogs <- MCDialogs
  Strings <- MCStrings
  Reencoded <- MCReencoded
  Ids = {"c1", "c2"}
  ValidImages = {"png"}
  OpenAITools <- MCOpenAITools
  AnthropicTools <- MCAnthropicTools
  Sorted <- MCSorted
  Transformed <- MCTransformed
  Types = {"string", "integer", "array", "object"}
  Constraints = {"enum", "default"}
  Copied = {"enum"}
  MaxProps = 3
  MaxPreserved = 2
  MaxNesting = 1
  Encodings = {1, 2}
INVARIANT AllCallsReturned
CHECK_DEADLOCK FALSE
