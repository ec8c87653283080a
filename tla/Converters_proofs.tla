-------------------------- MODULE Converters_proofs --------------------------
(***************************************************************************)
(* Proofs about the response converters.                                   *)
(***************************************************************************)
EXTENDS Converters, SequenceTheorems, TLAPS

(***************************************************************************)
(* Lists of positions, for all the converters.                             *)
(***************************************************************************)

\* The definitions of the model, for any converter.
InOrder(s, positions) ==
  /\ {s[i] : i \in DOMAIN s} = positions
  /\ \A i, k \in DOMAIN s : i < k => s[i] < s[k]

\* The pieces a call at position p has in g, which events of the kinds ends end.
PiecesIn(g, p, ends, pieces) ==
  {i \in (p + 1) .. Len(g) :
     g[i].kind \in pieces /\ \A k \in (p + 1) .. i : g[k].kind \notin ends}
Closed(g, p, ends) == \E c \in (p + 1) .. Len(g) : g[c].kind \in ends

LEMMA Grown ==
  ASSUME NEW E, NEW g \in Seq(E), NEW e \in E, NEW p \in Nat, p <= Len(g),
         NEW ends, NEW pieces, ends \cap pieces = {}
  PROVE  LET h == Append(g, e)
             before == PiecesIn(g, p, ends, pieces)
             after == PiecesIn(h, p, ends, pieces)
         IN /\ Closed(g, p, ends) \/ e.kind \in ends => Closed(h, p, ends) /\ after = before
            /\ ~Closed(g, p, ends) /\ e.kind \notin ends =>
                 /\ ~Closed(h, p, ends)
                 /\ after = before \cup (IF e.kind \in pieces THEN {Len(g) + 1} ELSE {})
            /\ ~Closed(h, Len(h), ends) /\ PiecesIn(h, Len(h), ends, pieces) = {}
<1> DEFINE h == Append(g, e)
<1> DEFINE before == PiecesIn(g, p, ends, pieces)
<1> DEFINE after == PiecesIn(h, p, ends, pieces)
<1>1. /\ Len(g) \in Nat /\ Len(h) = Len(g) + 1 /\ h[Len(g) + 1] = e
      /\ \A i \in 1 .. Len(g) : h[i] = g[i]
  OBVIOUS
<1> HIDE DEF h, before, after
<1>2. \A i \in (p + 1) .. Len(h) : i \in (p + 1) .. Len(g) \/ i = Len(g) + 1
  BY <1>1
<1>3. (p + 1) .. Len(g) \subseteq (p + 1) .. Len(h) /\ (p + 1) .. Len(g) \subseteq 1 .. Len(g)
      /\ Len(g) + 1 \in (p + 1) .. Len(h)
  BY <1>1
<1>4. \A i \in (p + 1) .. Len(g) : (p + 1) .. i \subseteq (p + 1) .. Len(g)
  BY <1>1
<1>5. Closed(g, p, ends) => Closed(h, p, ends)  BY <1>1, <1>3 DEF Closed
<1>6. e.kind \in ends => Closed(h, p, ends)  BY <1>1, <1>3 DEF Closed
<1>7. ASSUME NEW i \in (p + 1) .. Len(g) PROVE i \in after <=> i \in before
  <2>1. \A k \in (p + 1) .. i : h[k] = g[k]  BY <1>1, <1>3, <1>4
  <2>2. h[i] = g[i]  BY <1>1, <1>3
  <2> QED BY <1>3, <2>1, <2>2 DEF PiecesIn, before, after
<1>8. before \subseteq (p + 1) .. Len(g) /\ after \subseteq (p + 1) .. Len(h)
  BY DEF PiecesIn, before, after
<1>9. Closed(g, p, ends) \/ e.kind \in ends => Len(g) + 1 \notin after
  <2>1. CASE Closed(g, p, ends)
    <3>1. PICK c \in (p + 1) .. Len(g) : g[c].kind \in ends  BY <2>1 DEF Closed
    <3>2. c \in (p + 1) .. (Len(g) + 1) /\ h[c].kind \in ends  BY <1>1, <1>3, <3>1
    <3> QED BY <3>2 DEF PiecesIn, before, after
  <2>2. CASE e.kind \in ends
    BY <1>1, <2>2 DEF PiecesIn, before, after
  <2> QED BY <2>1, <2>2
<1>10. ASSUME ~Closed(g, p, ends), e.kind \notin ends
       PROVE  ~Closed(h, p, ends) /\ (Len(g) + 1 \in after <=> e.kind \in pieces)
  <2>1. \A k \in (p + 1) .. Len(h) : h[k].kind \notin ends
    BY <1>1, <1>2, <1>3, <1>10 DEF Closed
  <2>2. \A k \in (p + 1) .. (Len(g) + 1) : h[k].kind \notin ends  BY <1>1, <2>1
  <2> QED BY <1>1, <1>3, <2>1, <2>2 DEF Closed, PiecesIn, after
<1>11. ~Closed(h, Len(h), ends) /\ PiecesIn(h, Len(h), ends, pieces) = {}
  BY <1>1 DEF Closed, PiecesIn
<1>12. Closed(g, p, ends) \/ e.kind \in ends => after = before
  BY <1>2, <1>7, <1>8, <1>9
<1>13. ~Closed(g, p, ends) /\ e.kind \notin ends =>
         after = before \cup (IF e.kind \in pieces THEN {Len(g) + 1} ELSE {})
  <2> HAVE ~Closed(g, p, ends) /\ e.kind \notin ends
  <2>1. Len(g) + 1 \in after <=> e.kind \in pieces  BY <1>10
  <2> QED BY <1>2, <1>7, <1>8, <2>1
<1> QED BY <1>5, <1>6, <1>10, <1>11, <1>12, <1>13 DEF h, before, after

LEMMA Listed ==
  ASSUME NEW s \in Seq(Nat), NEW S \in SUBSET Nat, NEW y \in Nat, \A x \in S : x < y,
         InOrder(s, S)
  PROVE  InOrder(Append(s, y), S \cup {y})
<1> DEFINE u == Append(s, y)
<1>1. /\ DOMAIN u = 1 .. Len(s) + 1 /\ DOMAIN s = 1 .. Len(s) /\ Len(s) \in Nat
      /\ u[Len(s) + 1] = y /\ \A i \in 1 .. Len(s) : u[i] = s[i]
  OBVIOUS
<1> HIDE DEF u
<1>2. {s[i] : i \in DOMAIN s} = S /\ \A i, k \in DOMAIN s : i < k => s[i] < s[k]
  BY DEF InOrder
<1>3. \A i \in DOMAIN u : i \in DOMAIN s \/ i = Len(s) + 1  BY <1>1
<1>4. {u[i] : i \in DOMAIN u} = S \cup {y}  BY <1>1, <1>2, <1>3
<1>5. ASSUME NEW i \in DOMAIN u, NEW k \in DOMAIN u, i < k PROVE u[i] < u[k]
  <2>1. i \in DOMAIN s  BY <1>1, <1>5
  <2>2. CASE k \in DOMAIN s  BY <1>1, <1>2, <1>5, <2>1, <2>2
  <2>3. CASE k = Len(s) + 1  BY <1>1, <1>2, <2>1, <2>3
  <2> QED BY <1>3, <2>2, <2>3
<1> QED BY <1>4, <1>5 DEF InOrder, u

(***************************************************************************)
(* The streaming Anthropic converter.                                      *)
(***************************************************************************)

Stops == {"none", "tool_use", "max_tokens", "end_turn"}

ServerEvent ==
  {AnthropicWriter!MessageStart, AnthropicWriter!MessageStop}
  \cup [type : {"message_delta"}, stop : Stops]
  \cup [type : {"block_start"}, index : Nat, id : Nat]
  \cup [type : {"text_delta"}, index : Nat, payload : Nat]
  \cup [type : {"input_json_delta"}, index : Nat, payload : Seq(Nat)]
  \cup [type : {"block_stop"}, index : Nat]

WriterTypes ==
  /\ got \in Seq(AnthropicWriter!Event)
  /\ textOpen \in BOOLEAN /\ textIndex \in Nat /\ nextIndex \in Nat
  /\ tool \in [id : Nat, index : Nat, args : Seq(Nat), started : BOOLEAN, stopped : BOOLEAN]
  /\ stopReason \in Stops
  /\ sent \in Seq(ServerEvent)
  /\ result \in {"none", "success", "failure"}
  /\ result = "none" => ending = "open"

\* A stream of server-sent events that follows the protocol.
Kept(s) == \A n \in DOMAIN s : IF n = 1 THEN s[n] = AnthropicWriter!MessageStart
                               ELSE AnthropicWriter!MayFollow(s[n - 1], s[n])

\* A block with index i may start after the event e.
MayStart(e, i) == \/ e.type = "message_start" /\ i = 0
                  \/ e.type = "block_stop" /\ i = e.index + 1

NextBlock == IF tool.id = 0 THEN nextIndex ELSE tool.index

Placed ==
  /\ Kept(sent)
  /\ tool.id # 0 => ~tool.started /\ ~tool.stopped /\ nextIndex = tool.index + 1
  /\ result = "none" /\ sent = <<>> => ~textOpen /\ NextBlock = 0
  /\ result = "none" /\ sent # <<>> =>
       LET last == sent[Len(sent)]
       IN IF textOpen
          THEN last.type = "text_delta" /\ last.index = textIndex /\ NextBlock = textIndex + 1
          ELSE MayStart(last, NextBlock)

-----------------------------------------------------------------------------

LEMMA Tuples ==
  /\ \A a : <<>> \o <<a>> = <<a>>
  /\ \A a, b : <<a>> \o <<b>> = <<a, b>>
  /\ \A a, b, c : <<a, b>> \o <<c>> = <<a, b, c>>
  /\ \A a, b, c, d : <<a, b, c>> \o <<d>> = <<a, b, c, d>>
<1>1. ASSUME NEW a PROVE <<>> \o <<a>> = <<a>>
  <2>1. <<a>> \in Seq({a})  OBVIOUS
  <2> QED BY <2>1, ConcatEmptySeq
<1>2. ASSUME NEW a, NEW b PROVE <<a>> \o <<b>> = <<a, b>>
  <2>1. /\ <<a>> \o <<b>> \in Seq({a, b}) /\ <<a, b>> \in Seq({a, b})
        /\ Len(<<a>> \o <<b>>) = 2
        /\ \A i \in 1 .. 2 : (<<a>> \o <<b>>)[i] = <<a, b>>[i]
    OBVIOUS
  <2> QED BY <2>1, SeqEqual
<1>3. ASSUME NEW a, NEW b, NEW c PROVE <<a, b>> \o <<c>> = <<a, b, c>>
  <2>1. /\ <<a, b>> \o <<c>> \in Seq({a, b, c}) /\ <<a, b, c>> \in Seq({a, b, c})
        /\ Len(<<a, b>> \o <<c>>) = 3
        /\ \A i \in 1 .. 3 : (<<a, b>> \o <<c>>)[i] = <<a, b, c>>[i]
    OBVIOUS
  <2> QED BY <2>1, SeqEqual
<1>4. ASSUME NEW a, NEW b, NEW c, NEW d PROVE <<a, b, c>> \o <<d>> = <<a, b, c, d>>
  <2>1. /\ <<a, b, c>> \o <<d>> \in Seq({a, b, c, d}) /\ <<a, b, c, d>> \in Seq({a, b, c, d})
        /\ Len(<<a, b, c>> \o <<d>>) = 4
        /\ \A i \in 1 .. 4 : (<<a, b, c>> \o <<d>>)[i] = <<a, b, c, d>>[i]
    OBVIOUS
  <2> QED BY <2>1, SeqEqual
<1> QED BY <1>1, <1>2, <1>3, <1>4

LEMMA FlushShape ==
  ASSUME WriterTypes, Placed
  PROVE  AnthropicWriter!FlushTool =
           IF tool.id = 0 THEN <<>>
           ELSE IF textOpen
           THEN <<AnthropicWriter!BlockStop(textIndex),
                  AnthropicWriter!BlockStart(tool.index, tool.id),
                  AnthropicWriter!InputDelta(tool.index, tool.args),
                  AnthropicWriter!BlockStop(tool.index)>>
           ELSE <<AnthropicWriter!BlockStart(tool.index, tool.id),
                  AnthropicWriter!InputDelta(tool.index, tool.args),
                  AnthropicWriter!BlockStop(tool.index)>>
<1>1. CASE tool.id = 0  BY <1>1 DEF AnthropicWriter!FlushTool
<1>2. CASE tool.id # 0
  <2>1. ~tool.started /\ ~tool.stopped  BY <1>2 DEF Placed
  <2> DEFINE a == AnthropicWriter!BlockStop(textIndex)
  <2> DEFINE b == AnthropicWriter!BlockStart(tool.index, tool.id)
  <2> DEFINE c == AnthropicWriter!InputDelta(tool.index, tool.args)
  <2> DEFINE d == AnthropicWriter!BlockStop(tool.index)
  <2>2. AnthropicWriter!FlushTool
          = (((IF textOpen THEN <<a>> ELSE <<>>) \o <<b>>) \o <<c>>) \o <<d>>
    BY <1>2, <2>1 DEF AnthropicWriter!FlushTool, AnthropicWriter!CloseText
  <2> HIDE DEF a, b, c, d
  <2>3. (<<a>> \o <<b>>) \o <<c>> = <<a, b, c>> /\ <<a, b, c>> \o <<d>> = <<a, b, c, d>>
        /\ (<<>> \o <<b>>) \o <<c>> = <<b, c>> /\ <<b, c>> \o <<d>> = <<b, c, d>>
    <3>1. <<a>> \o <<b>> = <<a, b>>  BY Tuples, Zenon
    <3>2. <<>> \o <<b>> = <<b>>  BY Tuples, Zenon
    <3>3. <<b>> \o <<c>> = <<b, c>>  BY Tuples, Zenon
    <3>4. <<a, b>> \o <<c>> = <<a, b, c>>  BY Tuples, Zenon
    <3>5. <<b, c>> \o <<d>> = <<b, c, d>>  BY Tuples, Zenon
    <3>6. <<a, b, c>> \o <<d>> = <<a, b, c, d>>  BY Tuples, Zenon
    <3> QED BY <3>1, <3>2, <3>3, <3>4, <3>5, <3>6
  <2>4. AnthropicWriter!FlushTool = IF textOpen THEN <<a, b, c, d>> ELSE <<b, c, d>>
    BY <2>2, <2>3
  <2> QED BY <1>2, <2>4 DEF a, b, c, d
<1> QED BY <1>1, <1>2

LEMMA Joined ==
  ASSUME NEW s \in Seq(ServerEvent), NEW t \in Seq(ServerEvent), Kept(s), s # <<>>,
         \A n \in DOMAIN t :
           AnthropicWriter!MayFollow(IF n = 1 THEN s[Len(s)] ELSE t[n - 1], t[n])
  PROVE  Kept(s \o t)
<1> DEFINE u == s \o t
<1>1. /\ DOMAIN u = 1 .. Len(s) + Len(t) /\ Len(s) \in Nat \ {0} /\ Len(t) \in Nat
      /\ \A i \in 1 .. Len(s) : u[i] = s[i]
      /\ \A i \in 1 .. Len(t) : u[Len(s) + i] = t[i]
      /\ DOMAIN s = 1 .. Len(s) /\ DOMAIN t = 1 .. Len(t)
  OBVIOUS
<1> HIDE DEF u
<1> SUFFICES ASSUME NEW n \in 1 .. Len(s) + Len(t)
             PROVE  IF n = 1 THEN u[n] = AnthropicWriter!MessageStart
                    ELSE AnthropicWriter!MayFollow(u[n - 1], u[n])
  BY <1>1 DEF Kept, u
<1>2. CASE n <= Len(s)
  <2>1. n \in 1 .. Len(s) /\ u[n] = s[n] /\ (n # 1 => u[n - 1] = s[n - 1])
    BY <1>1, <1>2
  <2> QED BY <1>1, <2>1 DEF Kept
<1>3. CASE n > Len(s)
  <2>1. PICK m \in 1 .. Len(t) : n = Len(s) + m
    <3>1. n - Len(s) \in 1 .. Len(t) /\ n = Len(s) + (n - Len(s))  BY <1>1, <1>3
    <3> QED BY <3>1
  <2>2. u[n] = t[m] /\ n # 1 /\ m \in DOMAIN t  BY <1>1, <2>1
  <2>3. CASE m = 1
    <3>1. u[n - 1] = s[Len(s)]  BY <1>1, <2>1, <2>3
    <3> QED BY <2>2, <2>3, <3>1
  <2>4. CASE m # 1
    <3>1. u[n - 1] = t[m - 1]
      <4>1. m - 1 \in 1 .. Len(t) /\ n - 1 = Len(s) + (m - 1)  BY <1>1, <2>1, <2>4
      <4> QED BY <1>1, <4>1
    <3> QED BY <2>2, <2>4, <3>1
  <2> QED BY <2>3, <2>4
<1> QED BY <1>1, <1>2, <1>3

LEMMA PrefixKept ==
  ASSUME NEW s \in Seq(ServerEvent), Kept(s), NEW n \in 0 .. Len(s)
  PROVE  Kept(SubSeq(s, 1, n))
BY DEF Kept

\* What has been sent once the pending call is flushed.
Flow == sent \o AnthropicWriter!FlushTool

LEMMA FlushKept ==
  ASSUME WriterTypes, Placed, sent # <<>>, result = "none"
  PROVE  /\ AnthropicWriter!FlushTool \in Seq(ServerEvent)
         /\ Flow \in Seq(ServerEvent) /\ Flow # <<>> /\ Kept(Flow)
         /\ IF AnthropicWriter!TextStaysOpen THEN Flow = sent
            ELSE MayStart(Flow[Len(Flow)], nextIndex)
<1>1. sent \in Seq(ServerEvent)  BY DEF WriterTypes
<1>2. CASE tool.id = 0
  <2>1. AnthropicWriter!FlushTool = <<>>  BY <1>2, FlushShape
  <2>2. Flow = sent  BY <1>1, <2>1, ConcatEmptySeq DEF Flow
  <2> QED BY <1>1, <1>2, <2>1, <2>2 DEF Placed, NextBlock, AnthropicWriter!TextStaysOpen
<1>3. CASE tool.id # 0
  <2> DEFINE a == AnthropicWriter!BlockStop(textIndex)
  <2> DEFINE b == AnthropicWriter!BlockStart(tool.index, tool.id)
  <2> DEFINE c == AnthropicWriter!InputDelta(tool.index, tool.args)
  <2> DEFINE d == AnthropicWriter!BlockStop(tool.index)
  <2> DEFINE last == sent[Len(sent)]
  <2> DEFINE t == IF textOpen THEN <<a, b, c, d>> ELSE <<b, c, d>>
  <2>1. AnthropicWriter!FlushTool = t  BY <1>3, FlushShape
  <2>2. a \in ServerEvent /\ b \in ServerEvent /\ c \in ServerEvent /\ d \in ServerEvent
    BY DEF ServerEvent, WriterTypes, AnthropicWriter!BlockStop, AnthropicWriter!BlockStart,
           AnthropicWriter!InputDelta
  <2>3. /\ AnthropicWriter!MayFollow(b, c) /\ AnthropicWriter!MayFollow(c, d)
        /\ textOpen => AnthropicWriter!MayFollow(last, a) /\ AnthropicWriter!MayFollow(a, b)
        /\ ~textOpen => AnthropicWriter!MayFollow(last, b)
        /\ d.type = "block_stop" /\ nextIndex = d.index + 1
    <3>1. /\ textOpen => last.type = "text_delta" /\ last.index = textIndex
                         /\ tool.index = textIndex + 1
          /\ ~textOpen => MayStart(last, tool.index)
          /\ nextIndex = tool.index + 1
      BY <1>3 DEF Placed, NextBlock
    <3>2. /\ a.type = "block_stop" /\ a.index = textIndex
          /\ b.type = "block_start" /\ b.index = tool.index /\ b.id = tool.id
          /\ c.type = "input_json_delta" /\ c.index = tool.index
          /\ d.type = "block_stop" /\ d.index = tool.index
      BY DEF AnthropicWriter!BlockStop, AnthropicWriter!BlockStart, AnthropicWriter!InputDelta
    <3> HIDE DEF a, b, c, d, last
    <3> QED BY <1>3, <3>1, <3>2 DEF MayStart, AnthropicWriter!MayFollow
  <2> HIDE DEF a, b, c, d, last
  <2>4. t \in Seq(ServerEvent) /\ t # <<>> /\ t[Len(t)] = d
        /\ \A n \in DOMAIN t :
             AnthropicWriter!MayFollow(IF n = 1 THEN last ELSE t[n - 1], t[n])
    BY <2>2, <2>3
  <2> HIDE DEF t
  <2>5. Kept(sent \o t)
    BY <1>1, <2>4, Joined DEF Placed, last
  <2>6. sent \o t \in Seq(ServerEvent) /\ sent \o t # <<>> /\ (sent \o t)[Len(sent \o t)] = d
    BY <1>1, <2>4
  <2>7. ~AnthropicWriter!TextStaysOpen  BY <1>3 DEF AnthropicWriter!TextStaysOpen
  <2> QED BY <2>1, <2>3, <2>4, <2>5, <2>6, <2>7 DEF Flow, MayStart
<1> QED BY <1>2, <1>3

\* The flushed events follow those that were sent: perhaps the end of a text,
\* then the pending call.
LEMMA FlowShape ==
  ASSUME WriterTypes, Placed, sent # <<>>, result = "none"
  PROVE  /\ DOMAIN sent \subseteq DOMAIN Flow
         /\ \A n \in DOMAIN sent : Flow[n] = sent[n]
         /\ \E m \in Nat : \A n \in DOMAIN Flow \ DOMAIN sent :
              /\ n \in Nat /\ n > Len(sent) /\ tool.id # 0 /\ m + 1 \in DOMAIN Flow \ DOMAIN sent
              /\ Flow[m + 1] = AnthropicWriter!BlockStart(tool.index, tool.id)
              /\ \/ n = m + 1
                 \/ n = m + 2 /\ Flow[n] = AnthropicWriter!InputDelta(tool.index, tool.args)
                 \/ Flow[n].type = "block_stop"
         /\ tool.id # 0 => \E n \in DOMAIN Flow :
              Flow[n] = AnthropicWriter!BlockStart(tool.index, tool.id)
<1>1. sent \in Seq(ServerEvent)  BY DEF WriterTypes
<1>2. CASE tool.id = 0
  <2>1. AnthropicWriter!FlushTool = <<>>  BY <1>2, FlushShape
  <2>2. Flow = sent  BY <1>1, <2>1, ConcatEmptySeq DEF Flow
  <2> QED BY <1>1, <1>2, <2>2
<1>3. CASE tool.id # 0
  <2> DEFINE a == AnthropicWriter!BlockStop(textIndex)
  <2> DEFINE b == AnthropicWriter!BlockStart(tool.index, tool.id)
  <2> DEFINE c == AnthropicWriter!InputDelta(tool.index, tool.args)
  <2> DEFINE d == AnthropicWriter!BlockStop(tool.index)
  <2> DEFINE l == Len(sent)
  <2>1. AnthropicWriter!FlushTool \in Seq(ServerEvent)  BY FlushKept
  <2>2. a.type = "block_stop" /\ d.type = "block_stop"
    BY DEF AnthropicWriter!BlockStop
  <2>3. l \in Nat /\ DOMAIN sent = 1 .. l  BY <1>1
  <2>4. CASE textOpen
    <3>1. AnthropicWriter!FlushTool = <<a, b, c, d>>  BY <1>3, <2>4, FlushShape
    <3> HIDE DEF a, b, c, d
    <3>2. /\ DOMAIN Flow = 1 .. l + 4 /\ \A n \in 1 .. l : Flow[n] = sent[n]
          /\ Flow[l + 1] = a /\ Flow[l + 2] = b /\ Flow[l + 3] = c /\ Flow[l + 4] = d
      BY <1>1, <2>1, <3>1 DEF Flow
    <3> HIDE DEF l
    <3>3. \A n \in DOMAIN Flow \ DOMAIN sent :
            n = l + 1 \/ n = l + 2 \/ n = l + 3 \/ n = l + 4
      BY <2>3, <3>2
    <3>4. l + 1 \in Nat /\ (l + 1) + 1 = l + 2 /\ (l + 1) + 2 = l + 3
          /\ l + 2 \in DOMAIN Flow \ DOMAIN sent /\ DOMAIN sent \subseteq DOMAIN Flow
          /\ l < l + 1 /\ l < l + 2 /\ l < l + 3 /\ l < l + 4
          /\ l + 2 \in Nat /\ l + 3 \in Nat /\ l + 4 \in Nat
      BY <2>3, <3>2
    <3>5. \A n \in DOMAIN Flow \ DOMAIN sent :
            /\ n \in Nat /\ n > l
            /\ n = (l + 1) + 1 \/ (n = (l + 1) + 2 /\ Flow[n] = c) \/ Flow[n].type = "block_stop"
      BY <2>2, <3>2, <3>3, <3>4
    <3> QED BY <1>3, <2>3, <3>2, <3>4, <3>5 DEF b, c, l
  <2>5. CASE ~textOpen
    <3>1. AnthropicWriter!FlushTool = <<b, c, d>>  BY <1>3, <2>5, FlushShape
    <3> HIDE DEF a, b, c, d
    <3>2. /\ DOMAIN Flow = 1 .. l + 3 /\ \A n \in 1 .. l : Flow[n] = sent[n]
          /\ Flow[l + 1] = b /\ Flow[l + 2] = c /\ Flow[l + 3] = d
      BY <1>1, <2>1, <3>1 DEF Flow
    <3> HIDE DEF l
    <3>3. \A n \in DOMAIN Flow \ DOMAIN sent : n = l + 1 \/ n = l + 2 \/ n = l + 3
      BY <2>3, <3>2
    <3>4. /\ l + 1 \in DOMAIN Flow \ DOMAIN sent /\ DOMAIN sent \subseteq DOMAIN Flow
          /\ l < l + 1 /\ l < l + 2 /\ l < l + 3
          /\ l + 1 \in Nat /\ l + 2 \in Nat /\ l + 3 \in Nat
      BY <2>3, <3>2
    <3>5. \A n \in DOMAIN Flow \ DOMAIN sent :
            /\ n \in Nat /\ n > l
            /\ n = l + 1 \/ (n = l + 2 /\ Flow[n] = c) \/ Flow[n].type = "block_stop"
      BY <2>2, <3>2, <3>3, <3>4
    <3> QED BY <1>3, <2>3, <3>2, <3>4, <3>5 DEF b, c, l
  <2> QED BY <2>4, <2>5
<1> QED BY <1>2, <1>3

-----------------------------------------------------------------------------

\* What a stream of server-sent events has carried of the upstream events.
TextsOf(s) == {AnthropicWriter!Place(s[n]) : n \in {k \in DOMAIN s : s[k].type = "text_delta"}}
CallsOf(s) == {AnthropicWriter!Place(s[n]) : n \in {k \in DOMAIN s : s[k].type = "block_start"}}
              \ {0}
Ordered(s) == \A i, k \in DOMAIN s :
  i < k /\ AnthropicWriter!Place(s[i]) # 0 /\ AnthropicWriter!Place(s[k]) # 0 =>
    AnthropicWriter!Place(s[i]) < AnthropicWriter!Place(s[k])
UpTo(s, m) == \A n \in DOMAIN s : AnthropicWriter!Place(s[n]) <= m

Carried ==
  /\ Ordered(sent)
  /\ result = "none" =>
       /\ UpTo(sent, Len(got))
       /\ sent = <<>> => got = <<>> /\ tool.id = 0
       /\ tool.id # 0 => tool.id <= Len(got) /\ UpTo(sent, tool.id - 1)
       /\ TextsOf(sent) = AnthropicWriter!Texts(got)
       /\ CallsOf(sent) \cup ({tool.id} \ {0}) = AnthropicWriter!Calls(got, {"tool"})
  /\ result = "success" =>
       /\ TextsOf(sent) = AnthropicWriter!Texts(got)
       /\ CallsOf(sent) = AnthropicWriter!Calls(got, {"tool"})

LEMMA PlaceNat ==
  ASSUME NEW e \in ServerEvent
  PROVE  AnthropicWriter!Place(e) \in Nat
BY DEF ServerEvent, AnthropicWriter!Place, AnthropicWriter!MessageStart,
       AnthropicWriter!MessageStop

LEMMA FlowContent ==
  ASSUME WriterTypes, Placed, Carried, sent # <<>>, result = "none"
  PROVE  /\ Ordered(Flow) /\ UpTo(Flow, Len(got))
         /\ TextsOf(Flow) = AnthropicWriter!Texts(got)
         /\ CallsOf(Flow) = AnthropicWriter!Calls(got, {"tool"})
         /\ CallsOf(Flow) = CallsOf(sent) \cup ({tool.id} \ {0})
<1> DEFINE P(s, n) == AnthropicWriter!Place(s[n])
<1> DEFINE start == AnthropicWriter!BlockStart(tool.index, tool.id)
<1> DEFINE input == AnthropicWriter!InputDelta(tool.index, tool.args)
<1>1. PICK m \in Nat : \A n \in DOMAIN Flow \ DOMAIN sent :
        /\ n \in Nat /\ n > Len(sent) /\ tool.id # 0 /\ m + 1 \in DOMAIN Flow \ DOMAIN sent
        /\ Flow[m + 1] = start
        /\ \/ n = m + 1
           \/ n = m + 2 /\ Flow[n] = input
           \/ Flow[n].type = "block_stop"
  BY FlowShape
<1>2. /\ DOMAIN sent \subseteq DOMAIN Flow
      /\ \A n \in DOMAIN sent : Flow[n] = sent[n]
      /\ tool.id # 0 => \E n \in DOMAIN Flow : Flow[n] = start
  BY FlowShape
<1>3. /\ start.type = "block_start" /\ AnthropicWriter!Place(start) = tool.id
      /\ input.type = "input_json_delta" /\ AnthropicWriter!Place(input) = 0
      /\ \A n \in DOMAIN Flow : Flow[n].type = "block_stop" => P(Flow, n) = 0
  BY DEF AnthropicWriter!BlockStart, AnthropicWriter!InputDelta, AnthropicWriter!Place
<1>4. /\ tool.id \in Nat /\ Len(got) \in Nat /\ Len(sent) \in Nat /\ DOMAIN sent = 1 .. Len(sent)
      /\ \A n \in DOMAIN sent : P(sent, n) \in Nat
  BY PlaceNat DEF WriterTypes
<1> HIDE DEF start, input
<1>5. \A n \in DOMAIN Flow \ DOMAIN sent :
        /\ n > Len(sent) /\ tool.id # 0
        /\ Flow[n].type # "text_delta"
        /\ Flow[n].type = "block_start" => Flow[n] = start
        /\ P(Flow, n) # 0 => n = m + 1 /\ P(Flow, n) = tool.id
  <2>1. ASSUME NEW n \in DOMAIN Flow \ DOMAIN sent
        PROVE  /\ Flow[n].type # "text_delta"
               /\ Flow[n].type = "block_start" => Flow[n] = start
               /\ P(Flow, n) # 0 => n = m + 1 /\ P(Flow, n) = tool.id
    <3>1. CASE n = m + 1  BY <1>1, <1>3, <3>1
    <3>2. CASE n = m + 2 /\ Flow[n] = input  BY <1>3, <3>2
    <3>3. CASE Flow[n].type = "block_stop"  BY <1>3, <3>3
    <3> QED BY <1>1, <3>1, <3>2, <3>3
  <2> QED BY <1>1, <2>1
<1>6. /\ UpTo(sent, Len(got)) /\ Ordered(sent)
      /\ tool.id # 0 => tool.id <= Len(got) /\ UpTo(sent, tool.id - 1)
      /\ TextsOf(sent) = AnthropicWriter!Texts(got)
      /\ CallsOf(sent) \cup ({tool.id} \ {0}) = AnthropicWriter!Calls(got, {"tool"})
  BY DEF Carried
<1>7. UpTo(Flow, Len(got))
  <2>1. ASSUME NEW n \in DOMAIN Flow PROVE P(Flow, n) <= Len(got)
    <3>1. CASE n \in DOMAIN sent  BY <1>2, <1>6, <3>1 DEF UpTo
    <3>2. CASE n \notin DOMAIN sent  BY <1>4, <1>5, <1>6, <3>2
    <3> QED BY <3>1, <3>2
  <2> QED BY <2>1 DEF UpTo
<1>8. Ordered(Flow)
  <2>1. ASSUME NEW i \in DOMAIN Flow, NEW k \in DOMAIN Flow, i < k, P(Flow, i) # 0, P(Flow, k) # 0
        PROVE  P(Flow, i) < P(Flow, k)
    <3>1. CASE k \in DOMAIN sent
      <4>1. i \in DOMAIN sent
        <5>1. i \notin DOMAIN sent => i > Len(sent)  BY <1>5
        <5>2. k <= Len(sent) /\ k \in Nat /\ i \in Int
          BY <1>4, <3>1, FlushKept
        <5> QED BY <1>4, <2>1, <5>1, <5>2
      <4> QED BY <1>2, <1>6, <2>1, <3>1, <4>1 DEF Ordered
    <3>2. CASE k \notin DOMAIN sent
      <4>1. k = m + 1 /\ P(Flow, k) = tool.id /\ tool.id # 0  BY <1>5, <2>1, <3>2
      <4>2. i \in DOMAIN sent  BY <1>5, <2>1, <4>1
      <4>3. P(Flow, i) <= tool.id - 1 /\ P(Flow, i) \in Nat
        BY <1>2, <1>4, <1>6, <4>1, <4>2 DEF UpTo
      <4> QED BY <1>4, <4>1, <4>3
    <3> QED BY <3>1, <3>2
  <2> QED BY <2>1 DEF Ordered
<1>9. TextsOf(Flow) = TextsOf(sent)
  <2>1. {k \in DOMAIN Flow : Flow[k].type = "text_delta"}
          = {k \in DOMAIN sent : sent[k].type = "text_delta"}
    BY <1>2, <1>5
  <2> QED BY <1>2, <2>1 DEF TextsOf
<1>10. CallsOf(Flow) = CallsOf(sent) \cup ({tool.id} \ {0})
  <2>1. ASSUME NEW x PROVE x \in CallsOf(Flow) => x \in CallsOf(sent) \cup ({tool.id} \ {0})
    BY <1>2, <1>3, <1>5 DEF CallsOf
  <2>2. CallsOf(sent) \subseteq CallsOf(Flow)  BY <1>2 DEF CallsOf
  <2>3. {tool.id} \ {0} \subseteq CallsOf(Flow)  BY <1>2, <1>3 DEF CallsOf
  <2> QED BY <2>1, <2>2, <2>3
<1> QED BY <1>6, <1>7, <1>8, <1>9, <1>10

-----------------------------------------------------------------------------

\* The events that end the arguments of a call.
Ends == {"text", "blank", "tool", "finish"}
PiecesOf(g, id) == PiecesIn(g, id, Ends, {"args"})

\* Every call that was sent has the pieces g has for it; if more of g may
\* come, its arguments have ended.
Owned(s, g, over) ==
  \A n \in DOMAIN s : s[n].type = "input_json_delta" =>
    \E k \in DOMAIN s :
      /\ k < n /\ s[k].type = "block_start" /\ s[k].index = s[n].index
      /\ InOrder(s[n].payload, PiecesOf(g, s[k].id))
      /\ over \/ Closed(g, s[k].id, Ends)

Collected ==
  /\ Owned(sent, got, result # "none")
  /\ result = "none" /\ tool.id # 0 =>
       ~Closed(got, tool.id, Ends) /\ InOrder(tool.args, PiecesOf(got, tool.id))

LEMMA FlowOwned ==
  ASSUME WriterTypes, Placed, Collected, sent # <<>>, result = "none"
  PROVE  Owned(Flow, got, TRUE)
<1> DEFINE start == AnthropicWriter!BlockStart(tool.index, tool.id)
<1> DEFINE input == AnthropicWriter!InputDelta(tool.index, tool.args)
<1>1. PICK m \in Nat : \A n \in DOMAIN Flow \ DOMAIN sent :
        /\ n \in Nat /\ n > Len(sent) /\ tool.id # 0 /\ m + 1 \in DOMAIN Flow \ DOMAIN sent
        /\ Flow[m + 1] = start
        /\ \/ n = m + 1
           \/ n = m + 2 /\ Flow[n] = input
           \/ Flow[n].type = "block_stop"
  BY FlowShape
<1>2. DOMAIN sent \subseteq DOMAIN Flow /\ \A n \in DOMAIN sent : Flow[n] = sent[n]
  BY FlowShape
<1>3. /\ start.type = "block_start" /\ start.index = tool.index /\ start.id = tool.id
      /\ input.index = tool.index /\ input.payload = tool.args
  BY DEF AnthropicWriter!BlockStart, AnthropicWriter!InputDelta
<1> HIDE DEF start, input
<1> SUFFICES ASSUME NEW n \in DOMAIN Flow, Flow[n].type = "input_json_delta"
             PROVE  \E k \in DOMAIN Flow :
                      /\ k < n /\ Flow[k].type = "block_start" /\ Flow[k].index = Flow[n].index
                      /\ InOrder(Flow[n].payload, PiecesOf(got, Flow[k].id))
  BY DEF Owned
<1>4. CASE n \in DOMAIN sent
  <2>1. PICK k \in DOMAIN sent :
          /\ k < n /\ sent[k].type = "block_start" /\ sent[k].index = sent[n].index
          /\ InOrder(sent[n].payload, PiecesOf(got, sent[k].id))
    BY <1>2, <1>4 DEF Collected, Owned
  <2> QED BY <1>2, <1>4, <2>1
<1>5. CASE n \notin DOMAIN sent
  <2>1. n = m + 2 /\ Flow[n] = input /\ Flow[m + 1] = start /\ m + 1 \in DOMAIN Flow /\ tool.id # 0
    BY <1>1, <1>3, <1>5
  <2>2. InOrder(tool.args, PiecesOf(got, tool.id))  BY <2>1 DEF Collected
  <2> QED BY <1>3, <2>1, <2>2
<1> QED BY <1>4, <1>5

-----------------------------------------------------------------------------

\* The stream has not ended.
NoEnd(s) == \A n \in DOMAIN s : s[n].type \notin {"message_delta", "message_stop"}

\* The reason r is the last one in g.
ReasonOf(g, r) ==
  LET given == {i \in DOMAIN g : g[i].reason # "none"}
  IN IF given = {} THEN r = "none"
     ELSE \E i \in given : (\A k \in given : k <= i) /\ r = AnthropicWriter!Mapped(g[i].reason)

\* The stop reason is the last one in g, or follows the calls in s.
Right(s, g) ==
  \A n \in DOMAIN s : s[n].type = "message_delta" =>
    IF {i \in DOMAIN g : g[i].reason # "none"} = {}
    THEN s[n].stop = IF CallsOf(s) = {} THEN "end_turn" ELSE "tool_use"
    ELSE ReasonOf(g, s[n].stop)

Told ==
  /\ Right(sent, got)
  /\ result = "none" =>
       /\ NoEnd(sent)
       /\ ReasonOf(got, stopReason)
       /\ tool.id = 0 => (tool.started <=> CallsOf(sent) # {})

WriterInv == WriterTypes /\ Placed /\ Carried /\ Collected /\ Told

LEMMA FlowGoesOn ==
  ASSUME WriterTypes, Placed, Told, sent # <<>>, result = "none"
  PROVE  NoEnd(Flow)
<1>1. /\ AnthropicWriter!BlockStart(tool.index, tool.id).type = "block_start"
      /\ AnthropicWriter!InputDelta(tool.index, tool.args).type = "input_json_delta"
  BY DEF AnthropicWriter!BlockStart, AnthropicWriter!InputDelta
<1>2. \A n \in DOMAIN sent : Flow[n] = sent[n] /\ sent[n].type \notin {"message_delta", "message_stop"}
  BY FlowShape DEF Told, NoEnd
<1>3. \A n \in DOMAIN Flow \ DOMAIN sent :
        Flow[n].type \in {"block_start", "input_json_delta", "block_stop"}
  <2>1. PICK m \in Nat : \A n \in DOMAIN Flow \ DOMAIN sent :
          /\ Flow[m + 1] = AnthropicWriter!BlockStart(tool.index, tool.id)
          /\ \/ n = m + 1
             \/ n = m + 2 /\ Flow[n] = AnthropicWriter!InputDelta(tool.index, tool.args)
             \/ Flow[n].type = "block_stop"
    BY FlowShape
  <2> QED BY <1>1, <2>1
<1> QED BY <1>2, <1>3 DEF NoEnd

LEMMA Lengthened ==
  ASSUME NEW s \in Seq(ServerEvent), NEW t \in Seq(ServerEvent), NEW p \in Nat,
         p # 0 => UpTo(s, p - 1), Ordered(s),
         \A n \in DOMAIN t :
           /\ t[n].type # "input_json_delta"
           /\ AnthropicWriter!Place(t[n]) = IF n = Len(t) THEN p ELSE 0
           /\ t[n].type = "text_delta" <=> p # 0 /\ n = Len(t),
         p # 0 => t # <<>>
  PROVE  /\ Ordered(s \o t)
         /\ TextsOf(s \o t) = TextsOf(s) \cup ({p} \ {0})
         /\ CallsOf(s \o t) = CallsOf(s)
         /\ \A m \in Nat : UpTo(s, m) /\ p <= m => UpTo(s \o t, m)
         /\ \A g, over : Owned(s, g, over) => Owned(s \o t, g, over)
<1> DEFINE u == s \o t
<1> DEFINE l == Len(s)
<1> DEFINE P(e) == AnthropicWriter!Place(e)
<1>1. /\ l \in Nat /\ Len(t) \in Nat /\ DOMAIN s = 1 .. l /\ DOMAIN t = 1 .. Len(t)
      /\ DOMAIN u = 1 .. l + Len(t)
      /\ \A n \in 1 .. l : u[n] = s[n]
      /\ \A n \in 1 .. Len(t) : u[l + n] = t[n]
  OBVIOUS
<1>2. \A n \in DOMAIN s : P(s[n]) \in Nat
  BY PlaceNat
<1> HIDE DEF u, l
<1>3. DOMAIN s \subseteq DOMAIN u /\ \A n \in DOMAIN s : u[n] = s[n]  BY <1>1
<1>4. ASSUME NEW n \in DOMAIN u \ DOMAIN s
      PROVE  /\ n > l /\ u[n].type # "input_json_delta"
             /\ P(u[n]) = IF n = l + Len(t) THEN p ELSE 0
             /\ u[n].type = "text_delta" <=> p # 0 /\ n = l + Len(t)
  <2>1. n - l \in 1 .. Len(t) /\ n > l /\ l + (n - l) = n  BY <1>1
  <2>2. u[n] = t[n - l]  BY <1>1, <2>1
  <2>3. n - l = Len(t) <=> n = l + Len(t)  BY <1>1, <2>1
  <2> QED BY <1>1, <2>1, <2>2, <2>3
<1>5. p # 0 => l + Len(t) \in DOMAIN u \ DOMAIN s
  <2>1. p # 0 => Len(t) # 0  OBVIOUS
  <2> QED BY <1>1, <2>1
<1>6. Ordered(u)
  <2> SUFFICES ASSUME NEW i \in DOMAIN u, NEW k \in DOMAIN u, i < k, P(u[i]) # 0, P(u[k]) # 0
               PROVE  P(u[i]) < P(u[k])
    BY DEF Ordered
  <2>1. CASE k \in DOMAIN s
    <3>1. i \in DOMAIN s  BY <1>1, <2>1
    <3> QED BY <1>3, <2>1, <3>1 DEF Ordered
  <2>2. CASE k \notin DOMAIN s
    <3>1. k = l + Len(t) /\ P(u[k]) = p /\ p # 0  BY <1>4, <2>2
    <3>2. i \in DOMAIN s
      <4>1. i \notin DOMAIN s => i = l + Len(t)  BY <1>4
      <4> QED BY <1>1, <3>1, <4>1
    <3>3. P(u[i]) <= p - 1 /\ P(u[i]) \in Nat  BY <1>2, <1>3, <3>1, <3>2 DEF UpTo
    <3> QED BY <3>1, <3>3
  <2> QED BY <2>1, <2>2
<1>7. TextsOf(u) = TextsOf(s) \cup ({p} \ {0})
  <2>1. ASSUME NEW x \in TextsOf(u) PROVE x \in TextsOf(s) \cup ({p} \ {0})
    <3>1. PICK n \in DOMAIN u : u[n].type = "text_delta" /\ x = P(u[n])  BY DEF TextsOf
    <3>2. CASE n \in DOMAIN s  BY <1>3, <3>1, <3>2 DEF TextsOf
    <3>3. CASE n \notin DOMAIN s  BY <1>4, <3>1, <3>3
    <3> QED BY <3>2, <3>3
  <2>2. TextsOf(s) \subseteq TextsOf(u)  BY <1>3 DEF TextsOf
  <2>3. p # 0 => p \in TextsOf(u)
    <3> HAVE p # 0
    <3>1. u[l + Len(t)].type = "text_delta" /\ P(u[l + Len(t)]) = p  BY <1>4, <1>5
    <3> QED BY <1>5, <3>1 DEF TextsOf
  <2> QED BY <2>1, <2>2, <2>3
<1>8. CallsOf(u) = CallsOf(s)
  <2>1. ASSUME NEW x \in CallsOf(u) PROVE x \in CallsOf(s)
    <3>1. PICK n \in DOMAIN u : u[n].type = "block_start" /\ x = P(u[n]) /\ x # 0
      BY DEF CallsOf
    <3>2. n \in DOMAIN s  BY <1>4, <3>1
    <3> QED BY <1>3, <3>1, <3>2 DEF CallsOf
  <2>2. CallsOf(s) \subseteq CallsOf(u)  BY <1>3 DEF CallsOf
  <2> QED BY <2>1, <2>2
<1>9. ASSUME NEW m \in Nat, UpTo(s, m), p <= m PROVE UpTo(u, m)
  <2>1. ASSUME NEW n \in DOMAIN u PROVE P(u[n]) <= m
    BY <1>3, <1>4, <1>9 DEF UpTo
  <2> QED BY <2>1 DEF UpTo
<1>10. ASSUME NEW g, NEW over, Owned(s, g, over) PROVE Owned(u, g, over)
  <2> SUFFICES ASSUME NEW n \in DOMAIN u, u[n].type = "input_json_delta"
               PROVE  \E k \in DOMAIN u :
                        /\ k < n /\ u[k].type = "block_start" /\ u[k].index = u[n].index
                        /\ InOrder(u[n].payload, PiecesOf(g, u[k].id))
                        /\ over \/ Closed(g, u[k].id, Ends)
    BY DEF Owned
  <2>1. n \in DOMAIN s  BY <1>4
  <2>2. PICK k \in DOMAIN s :
          /\ k < n /\ s[k].type = "block_start" /\ s[k].index = s[n].index
          /\ InOrder(s[n].payload, PiecesOf(g, s[k].id))
          /\ over \/ Closed(g, s[k].id, Ends)
    BY <1>3, <1>10, <2>1 DEF Owned
  <2> QED BY <1>3, <2>1, <2>2
<1> QED BY <1>6, <1>7, <1>8, <1>9, <1>10 DEF u

-----------------------------------------------------------------------------

LEMMA Cut ==
  ASSUME NEW s \in Seq(ServerEvent), NEW n \in 0 .. Len(s)
  PROVE  LET u == SubSeq(s, 1, n)
         IN /\ u \in Seq(ServerEvent)
            /\ Kept(s) => Kept(u)
            /\ Ordered(s) => Ordered(u)
            /\ NoEnd(s) => NoEnd(u)
            /\ \A g, over : Owned(s, g, over) => Owned(u, g, over)
<1> DEFINE u == SubSeq(s, 1, n)
<1>1. u \in Seq(ServerEvent) /\ DOMAIN u = 1 .. n /\ DOMAIN s = 1 .. Len(s) /\ Len(s) \in Nat
      /\ \A i \in 1 .. n : u[i] = s[i]
  OBVIOUS
<1>2. Kept(s) => Kept(u)  BY PrefixKept
<1> HIDE DEF u
<1>3. DOMAIN u \subseteq DOMAIN s /\ \A i \in DOMAIN u : u[i] = s[i]  BY <1>1
<1>4. Ordered(s) => Ordered(u)  BY <1>3 DEF Ordered
<1>5. NoEnd(s) => NoEnd(u)  BY <1>3 DEF NoEnd
<1>6. ASSUME NEW g, NEW over, Owned(s, g, over) PROVE Owned(u, g, over)
  <2> SUFFICES ASSUME NEW i \in DOMAIN u, u[i].type = "input_json_delta"
               PROVE  \E k \in DOMAIN u :
                        /\ k < i /\ u[k].type = "block_start" /\ u[k].index = u[i].index
                        /\ InOrder(u[i].payload, PiecesOf(g, u[k].id))
                        /\ over \/ Closed(g, u[k].id, Ends)
    BY DEF Owned
  <2>1. PICK k \in DOMAIN s :
          /\ k < i /\ s[k].type = "block_start" /\ s[k].index = s[i].index
          /\ InOrder(s[i].payload, PiecesOf(g, s[k].id))
          /\ over \/ Closed(g, s[k].id, Ends)
    BY <1>3, <1>6 DEF Owned
  <2>2. k \in DOMAIN u  BY <1>1, <2>1
  <2> QED BY <1>3, <2>1, <2>2
<1> QED BY <1>1, <1>2, <1>4, <1>5, <1>6 DEF u

\* What was sent when a write failed is a prefix of what was to be sent.
LEMMA Failing ==
  ASSUME NEW s \in Seq(ServerEvent), NEW events \in Seq(ServerEvent),
         NEW n \in 0 .. Len(events) - 1
  PROVE  /\ Len(s) + n \in 0 .. Len(s \o events)
         /\ s \o SubSeq(events, 1, n) = SubSeq(s \o events, 1, Len(s) + n)
<1>1. /\ Len(s \o events) = Len(s) + Len(events)
      /\ Len(s) \in Nat /\ Len(events) \in Nat /\ s \o events \in Seq(ServerEvent)
  OBVIOUS
<1>2. /\ SubSeq(s \o events, 1, Len(s) + n) \in Seq(ServerEvent)
      /\ s \o SubSeq(events, 1, n) \in Seq(ServerEvent)
      /\ Len(SubSeq(s \o events, 1, Len(s) + n)) = Len(s) + n
      /\ Len(s \o SubSeq(events, 1, n)) = Len(s) + n
  BY <1>1
<1>3. ASSUME NEW i \in 1 .. Len(s) + n
      PROVE  (s \o SubSeq(events, 1, n))[i] = SubSeq(s \o events, 1, Len(s) + n)[i]
  <2>1. SubSeq(s \o events, 1, Len(s) + n)[i] = (s \o events)[i]
    BY <1>1
  <2>2. CASE i \in 1 .. Len(s)
    <3>1. (s \o events)[i] = s[i]
      BY <2>2
    <3>2. (s \o SubSeq(events, 1, n))[i] = s[i]
      BY <2>2
    <3> QED BY <2>1, <3>1, <3>2
  <2>3. CASE i \notin 1 .. Len(s)
    <3>1. (s \o events)[i] = events[i - Len(s)]
      BY <1>1, <2>3
    <3>2. /\ SubSeq(events, 1, n) \in Seq(ServerEvent)
          /\ Len(SubSeq(events, 1, n)) = n
          /\ SubSeq(events, 1, n)[i - Len(s)] = events[i - Len(s)]
      BY <1>1, <2>3
    <3>3. (s \o SubSeq(events, 1, n))[i] = SubSeq(events, 1, n)[i - Len(s)]
      BY <1>1, <2>3, <3>2
    <3> QED BY <2>1, <3>1, <3>2, <3>3
  <2> QED BY <2>2, <2>3
<1>4. Len(s) + n \in 0 .. Len(s \o events)
  BY <1>1
<1>5. s \o SubSeq(events, 1, n) = SubSeq(s \o events, 1, Len(s) + n)
  <2> DEFINE a == s \o SubSeq(events, 1, n)
  <2> DEFINE b == SubSeq(s \o events, 1, Len(s) + n)
  <2>1. /\ a \in Seq(ServerEvent) /\ b \in Seq(ServerEvent)
        /\ Len(a) = Len(s) + n /\ Len(b) = Len(s) + n
    BY <1>2
  <2>2. \A i \in 1 .. Len(s) + n : a[i] = b[i]
    BY <1>3
  <2> HIDE DEF a, b
  <2>3. a = b
    BY <2>1, <2>2, SeqEqual
  <2> QED BY <2>3 DEF a, b
<1> QED BY <1>4, <1>5

LEMMA Written ==
  ASSUME NEW events \in Seq(ServerEvent), sent \in Seq(ServerEvent), result = "none",
         AnthropicWriter!Write(events)
  PROVE  /\ result' \in {"none", "failure"}
         /\ \E n \in 0 .. Len(sent \o events) : sent' = SubSeq(sent \o events, 1, n)
         /\ result' = "none" => sent' = sent \o events
<1> DEFINE full == sent \o events
<1>1. CASE sent' = full /\ UNCHANGED result
  <2>1. full \in Seq(ServerEvent)  OBVIOUS
  <2>2. full = SubSeq(full, 1, Len(full)) /\ Len(full) \in 0 .. Len(full)  BY <2>1, SubSeqFull
  <2> QED BY <1>1, <2>2
<1>2. CASE /\ \E n \in 0 .. Len(events) - 1 : sent' = sent \o SubSeq(events, 1, n)
           /\ result' = "failure"
  <2>1. PICK n \in 0 .. Len(events) - 1 : sent' = sent \o SubSeq(events, 1, n)  BY <1>2
  <2>2. Len(sent) + n \in 0 .. Len(full) /\ sent' = SubSeq(full, 1, Len(sent) + n)
    BY <2>1, Failing
  <2> QED BY <1>2, <2>2
<1> QED BY <1>1, <1>2 DEF AnthropicWriter!Write

LEMMA Received ==
  ASSUME NEW g \in Seq(AnthropicWriter!Event), NEW e \in AnthropicWriter!Event
  PROVE  LET h == Append(g, e)
             AddedIf(c) == IF c THEN {Len(h)} ELSE {}
         IN /\ h \in Seq(AnthropicWriter!Event) /\ Len(h) = Len(g) + 1 /\ Len(g) \in Nat
            /\ AnthropicWriter!Texts(h) = AnthropicWriter!Texts(g) \cup AddedIf(e.kind = "text")
            /\ AnthropicWriter!Calls(h, {"tool"}) =
                 AnthropicWriter!Calls(g, {"tool"}) \cup AddedIf(e.kind = "tool")
            /\ \A r : ReasonOf(g, r) => ReasonOf(h, IF e.reason = "none" THEN r
                                                    ELSE AnthropicWriter!Mapped(e.reason))
<1> DEFINE h == Append(g, e)
<1>1. /\ h \in Seq(AnthropicWriter!Event) /\ Len(h) = Len(g) + 1 /\ Len(g) \in Nat
      /\ DOMAIN g = 1 .. Len(g) /\ DOMAIN h = 1 .. Len(h)
      /\ h[Len(g) + 1] = e /\ \A i \in 1 .. Len(g) : h[i] = g[i]
  OBVIOUS
<1> HIDE DEF h
<1>2. \A i \in DOMAIN h : i \in DOMAIN g \/ i = Len(h)  BY <1>1
<1>3. DOMAIN g \subseteq DOMAIN h /\ Len(h) \in DOMAIN h /\ h[Len(h)] = e
      /\ (\A i \in DOMAIN g : h[i] = g[i] /\ i < Len(h) /\ i \in Nat) /\ Len(h) \in Nat
  BY <1>1
<1>4. AnthropicWriter!Texts(h)
        = AnthropicWriter!Texts(g) \cup (IF e.kind = "text" THEN {Len(h)} ELSE {})
  BY <1>2, <1>3 DEF AnthropicWriter!Texts, AnthropicWriter!PositionsOf
<1>5. AnthropicWriter!Calls(h, {"tool"})
        = AnthropicWriter!Calls(g, {"tool"}) \cup (IF e.kind = "tool" THEN {Len(h)} ELSE {})
  BY <1>2, <1>3 DEF AnthropicWriter!Calls, AnthropicWriter!PositionsOf
<1>6. ASSUME NEW r, ReasonOf(g, r)
      PROVE  ReasonOf(h, IF e.reason = "none" THEN r ELSE AnthropicWriter!Mapped(e.reason))
  <2> DEFINE G == {i \in DOMAIN g : g[i].reason # "none"}
  <2> DEFINE H == {i \in DOMAIN h : h[i].reason # "none"}
  <2>1. CASE e.reason = "none"
    <3>1. H = G  BY <1>2, <1>3, <2>1
    <3>2. \A i \in G : h[i] = g[i]  BY <1>3
    <3>3. IF G = {} THEN r = "none"
          ELSE \E i \in G : (\A k \in G : k <= i) /\ r = AnthropicWriter!Mapped(g[i].reason)
      BY <1>6 DEF ReasonOf
    <3> HIDE DEF G
    <3>4. IF H = {} THEN r = "none"
          ELSE \E i \in H : (\A k \in H : k <= i) /\ r = AnthropicWriter!Mapped(h[i].reason)
      BY <3>1, <3>2, <3>3
    <3> QED BY <2>1, <3>4 DEF ReasonOf
  <2>2. CASE e.reason # "none"
    <3>1. Len(h) \in H /\ \A k \in H : k <= Len(h)
      BY <1>2, <1>3, <2>2
    <3> QED BY <1>3, <2>2, <3>1 DEF ReasonOf
  <2> QED BY <2>1, <2>2
<1> QED BY <1>1, <1>4, <1>5, <1>6 DEF h

-----------------------------------------------------------------------------

LEMMA OwnedGrows ==
  ASSUME NEW g \in Seq(AnthropicWriter!Event), NEW e \in AnthropicWriter!Event,
         NEW s \in Seq(ServerEvent), UpTo(s, Len(g)),
         Owned(s, g, FALSE) \/ (Owned(s, g, TRUE) /\ e.kind \in Ends)
  PROVE  Owned(s, Append(g, e), FALSE)
<1> DEFINE h == Append(g, e)
<1> SUFFICES ASSUME NEW n \in DOMAIN s, s[n].type = "input_json_delta"
             PROVE  \E k \in DOMAIN s :
                      /\ k < n /\ s[k].type = "block_start" /\ s[k].index = s[n].index
                      /\ InOrder(s[n].payload, PiecesOf(h, s[k].id))
                      /\ Closed(h, s[k].id, Ends)
  BY DEF Owned
<1>1. PICK k \in DOMAIN s :
        /\ k < n /\ s[k].type = "block_start" /\ s[k].index = s[n].index
        /\ InOrder(s[n].payload, PiecesOf(g, s[k].id))
        /\ Closed(g, s[k].id, Ends) \/ e.kind \in Ends
  BY DEF Owned
<1>2. s[k].id \in Nat /\ s[k].id <= Len(g)
  <2>1. AnthropicWriter!Place(s[k]) = s[k].id  BY <1>1 DEF AnthropicWriter!Place
  <2> QED BY <2>1, PlaceNat DEF UpTo
<1>3. Ends \cap {"args"} = {}  BY DEF Ends
<1>4. Closed(h, s[k].id, Ends) /\ PiecesOf(h, s[k].id) = PiecesOf(g, s[k].id)
  BY <1>1, <1>2, <1>3, Grown DEF PiecesOf
<1> QED BY <1>1, <1>4

\* What a step that flushes the pending call has sent, whether or not a write
\* failed: the flushed stream, then perhaps the text of the event.
LEMMA Flushing ==
  ASSUME WriterInv, sent # <<>>, result = "none",
         NEW e \in AnthropicWriter!Event, e.kind \in Ends, got' = Append(got, e),
         NEW extra \in Seq(ServerEvent), Kept(Flow \o extra), NoEnd(extra),
         \A n \in DOMAIN extra :
           /\ extra[n].type # "input_json_delta"
           /\ AnthropicWriter!Place(extra[n])
                = IF n = Len(extra) /\ e.kind = "text" THEN Len(got') ELSE 0
           /\ extra[n].type = "text_delta" <=> e.kind = "text" /\ n = Len(extra),
         e.kind = "text" => extra # <<>>,
         \E n \in 0 .. Len(Flow \o extra) : sent' = SubSeq(Flow \o extra, 1, n),
         result' \in {"none", "failure"},
         result' = "none" => sent' = Flow \o extra
  PROVE  /\ sent' \in Seq(ServerEvent) /\ Kept(sent') /\ Ordered(sent')
         /\ Owned(sent', got', result' # "none") /\ Right(sent', got')
         /\ result' = "none" =>
              /\ NoEnd(sent') /\ UpTo(sent', Len(got'))
              /\ e.kind # "text" => UpTo(sent', Len(got))
              /\ TextsOf(sent') = AnthropicWriter!Texts(got')
              /\ CallsOf(sent') = AnthropicWriter!Calls(got, {"tool"})
              /\ CallsOf(sent') = CallsOf(sent) \cup ({tool.id} \ {0})
<1> DEFINE full == Flow \o extra
<1> DEFINE p == IF e.kind = "text" THEN Len(got') ELSE 0
<1>1. WriterTypes /\ Placed /\ Carried /\ Collected /\ Told  BY DEF WriterInv
<1>2. got \in Seq(AnthropicWriter!Event) /\ Len(got) \in Nat /\ Len(got') = Len(got) + 1
      /\ AnthropicWriter!Texts(got') = AnthropicWriter!Texts(got) \cup ({p} \ {0})
  BY <1>1, Received DEF WriterTypes
<1>3. Flow \in Seq(ServerEvent) /\ full \in Seq(ServerEvent)  BY <1>1, FlushKept
<1>4. /\ Ordered(Flow) /\ UpTo(Flow, Len(got))
      /\ TextsOf(Flow) = AnthropicWriter!Texts(got)
      /\ CallsOf(Flow) = AnthropicWriter!Calls(got, {"tool"})
      /\ CallsOf(Flow) = CallsOf(sent) \cup ({tool.id} \ {0})
  BY <1>1, FlowContent
<1>5. Owned(Flow, got', FALSE)
  <2>1. Owned(Flow, got, TRUE)  BY <1>1, FlowOwned
  <2> QED BY <1>2, <1>3, <1>4, <2>1, OwnedGrows
<1>6. p \in Nat /\ (p # 0 <=> e.kind = "text") /\ p <= Len(got') /\ (p # 0 => p - 1 = Len(got))
  BY <1>2
<1>7. /\ Ordered(full)
      /\ TextsOf(full) = TextsOf(Flow) \cup ({p} \ {0})
      /\ CallsOf(full) = CallsOf(Flow)
      /\ \A m \in Nat : UpTo(Flow, m) /\ p <= m => UpTo(full, m)
      /\ Owned(full, got', FALSE)
  <2>1. p # 0 => UpTo(Flow, p - 1)  BY <1>4, <1>6
  <2>2. \A n \in DOMAIN extra :
           /\ extra[n].type # "input_json_delta"
           /\ AnthropicWriter!Place(extra[n]) = IF n = Len(extra) THEN p ELSE 0
           /\ extra[n].type = "text_delta" <=> p # 0 /\ n = Len(extra)
    BY <1>6
  <2>3. p # 0 => extra # <<>>  BY <1>6
  <2>4. p \in Nat /\ Ordered(Flow)  BY <1>4, <1>6
  <2> HIDE DEF p
  <2>5. /\ Ordered(Flow \o extra)
        /\ TextsOf(Flow \o extra) = TextsOf(Flow) \cup ({p} \ {0})
        /\ CallsOf(Flow \o extra) = CallsOf(Flow)
        /\ \A m \in Nat : UpTo(Flow, m) /\ p <= m => UpTo(Flow \o extra, m)
        /\ \A g, over : Owned(Flow, g, over) => Owned(Flow \o extra, g, over)
    BY <1>3, <2>1, <2>2, <2>3, <2>4, Lengthened
  <2> QED BY <1>5, <2>5
<1>8. NoEnd(full)
  <2>1. NoEnd(Flow)  BY <1>1, FlowGoesOn
  <2>2. \A n \in DOMAIN full : \/ n \in DOMAIN Flow /\ full[n] = Flow[n]
                               \/ \E i \in DOMAIN extra : full[n] = extra[i]
    <3>1. ASSUME NEW n \in DOMAIN full, n \notin DOMAIN Flow
          PROVE n - Len(Flow) \in DOMAIN extra /\ full[n] = extra[n - Len(Flow)]
      BY <1>3, <3>1
    <3>2. \A n \in DOMAIN Flow : n \in DOMAIN full => full[n] = Flow[n]  BY <1>3
    <3> QED BY <3>1, <3>2
  <2> QED BY <2>1, <2>2 DEF NoEnd
<1>9. PICK n \in 0 .. Len(full) : sent' = SubSeq(full, 1, n)  OBVIOUS
<1>10. Kept(full)  OBVIOUS
<1> HIDE DEF full
<1>11. /\ sent' \in Seq(ServerEvent) /\ Kept(sent') /\ Ordered(sent') /\ NoEnd(sent')
       /\ Owned(sent', got', FALSE)
  BY <1>3, <1>7, <1>8, <1>9, <1>10, Cut
<1>12. Owned(sent', got', result' # "none")  BY <1>11 DEF Owned
<1>13. Right(sent', got')  BY <1>11 DEF Right, NoEnd
<1>14. UpTo(Flow, Len(got'))  BY <1>2, <1>4, <1>3, PlaceNat, ElementOfSeq DEF UpTo
<1>15. UpTo(full, Len(got')) /\ (e.kind # "text" => UpTo(full, Len(got)))
  BY <1>2, <1>4, <1>6, <1>7, <1>14
<1>16. result' = "none" => sent' = full  BY DEF full
<1> QED BY <1>2, <1>4, <1>7, <1>11, <1>12, <1>13, <1>15, <1>16

-----------------------------------------------------------------------------
(* The steps of the handler.                                               *)

LEMMA FlushedAlone ==
  ASSUME WriterInv, sent # <<>>, result = "none",
         NEW e \in AnthropicWriter!Event, e.kind \in Ends, e.kind # "text",
         got' = Append(got, e), AnthropicWriter!Write(AnthropicWriter!FlushTool)
  PROVE  /\ sent' \in Seq(ServerEvent) /\ Kept(sent') /\ Ordered(sent')
         /\ Owned(sent', got', result' # "none") /\ Right(sent', got')
         /\ result' \in {"none", "failure"}
         /\ result' = "none" =>
              /\ sent' = Flow
              /\ NoEnd(sent') /\ UpTo(sent', Len(got)) /\ UpTo(sent', Len(got'))
              /\ TextsOf(sent') = AnthropicWriter!Texts(got')
              /\ CallsOf(sent') = AnthropicWriter!Calls(got, {"tool"})
              /\ CallsOf(sent') = CallsOf(sent) \cup ({tool.id} \ {0})
<1>1. WriterTypes /\ Placed /\ sent \in Seq(ServerEvent)  BY DEF WriterInv, WriterTypes
<1>2. /\ AnthropicWriter!FlushTool \in Seq(ServerEvent)
      /\ Flow \in Seq(ServerEvent) /\ Kept(Flow)
  BY <1>1, FlushKept
<1>3. /\ result' \in {"none", "failure"}
      /\ \E n \in 0 .. Len(Flow) : sent' = SubSeq(Flow, 1, n)
      /\ result' = "none" => sent' = Flow
  BY <1>1, <1>2, Written DEF Flow
<1>4. Flow \o <<>> = Flow /\ <<>> \in Seq(ServerEvent) /\ NoEnd(<<>>) /\ DOMAIN <<>> = {}
  BY <1>2, ConcatEmptySeq DEF NoEnd
<1>5. /\ Kept(Flow \o <<>>)
      /\ \E n \in 0 .. Len(Flow \o <<>>) : sent' = SubSeq(Flow \o <<>>, 1, n)
      /\ result' = "none" => sent' = Flow \o <<>>
  BY <1>2, <1>3, <1>4
<1>6. \A n \in DOMAIN <<>> :
        /\ <<>>[n].type # "input_json_delta"
        /\ AnthropicWriter!Place(<<>>[n])
             = IF n = Len(<<>>) /\ e.kind = "text" THEN Len(got') ELSE 0
        /\ <<>>[n].type = "text_delta" <=> e.kind = "text" /\ n = Len(<<>>)
  BY <1>4
<1> QED BY <1>3, <1>4, <1>5, <1>6, Flushing

LEMMA FlushedStep ==
  ASSUME WriterInv, sent # <<>>, result = "none",
         NEW e \in AnthropicWriter!Event, e.kind \in {"blank", "finish"},
         got' = Append(got, e), AnthropicWriter!Write(AnthropicWriter!FlushTool),
         tool' = AnthropicWriter!Flushed, textOpen' = AnthropicWriter!TextStaysOpen,
         stopReason' = IF e.reason = "none" THEN stopReason ELSE AnthropicWriter!Mapped(e.reason),
         UNCHANGED <<textIndex, nextIndex, ending>>
  PROVE  WriterInv'
<1>1. WriterTypes /\ Placed /\ Carried /\ Collected /\ Told  BY DEF WriterInv
<1>2. e.kind \in Ends /\ e.kind # "text" /\ e.kind # "tool"  BY DEF Ends
<1>3. /\ sent' \in Seq(ServerEvent) /\ Kept(sent') /\ Ordered(sent')
      /\ Owned(sent', got', result' # "none") /\ Right(sent', got')
      /\ result' \in {"none", "failure"}
      /\ result' = "none" =>
           /\ sent' = Flow
           /\ NoEnd(sent') /\ UpTo(sent', Len(got)) /\ UpTo(sent', Len(got'))
           /\ TextsOf(sent') = AnthropicWriter!Texts(got')
           /\ CallsOf(sent') = AnthropicWriter!Calls(got, {"tool"})
           /\ CallsOf(sent') = CallsOf(sent) \cup ({tool.id} \ {0})
  BY <1>2, FlushedAlone
<1>4. /\ got \in Seq(AnthropicWriter!Event) /\ got' \in Seq(AnthropicWriter!Event)
      /\ AnthropicWriter!Calls(got', {"tool"}) = AnthropicWriter!Calls(got, {"tool"})
      /\ ReasonOf(got', stopReason')
  <2>1. got \in Seq(AnthropicWriter!Event) /\ ReasonOf(got, stopReason)
    BY <1>1 DEF WriterTypes, Told
  <2> QED BY <1>2, <2>1, Received
<1>5. /\ tool'.id = 0
      /\ tool' \in [id : Nat, index : Nat, args : Seq(Nat), started : BOOLEAN, stopped : BOOLEAN]
      /\ tool'.started <=> tool.started \/ tool.id # 0
  BY <1>1 DEF WriterTypes, AnthropicWriter!Flushed
<1>6. stopReason' \in Stops
  BY <1>1 DEF WriterTypes, AnthropicWriter!Mapped, Stops
<1>7. textOpen' \in BOOLEAN
  BY <1>1 DEF WriterTypes, AnthropicWriter!TextStaysOpen
<1>8. WriterTypes'
  BY <1>1, <1>3, <1>4, <1>5, <1>6, <1>7 DEF WriterTypes
<1>9. Placed'
  <2>1. NextBlock' = nextIndex  BY <1>5 DEF NextBlock
  <2>2. /\ Flow # <<>>
        /\ IF AnthropicWriter!TextStaysOpen THEN Flow = sent ELSE MayStart(Flow[Len(Flow)], nextIndex)
    BY <1>1, FlushKept
  <2>3. AnthropicWriter!TextStaysOpen =>
          /\ sent[Len(sent)].type = "text_delta" /\ sent[Len(sent)].index = textIndex
          /\ nextIndex = textIndex + 1
    BY <1>1 DEF Placed, NextBlock, AnthropicWriter!TextStaysOpen
  <2> QED BY <1>3, <1>5, <2>1, <2>2, <2>3 DEF Placed
<1>10. Carried'
  <2>1. result' = "none" => sent' # <<>>  BY <1>1, <1>3, FlushKept
  <2>2. {tool'.id} \ {0} = {}  BY <1>5
  <2> QED BY <1>3, <1>4, <1>5, <2>1, <2>2 DEF Carried
<1>11. Collected'  BY <1>3, <1>5 DEF Collected
<1>12. Told'
  <2>1. result' = "none" => (tool'.started <=> CallsOf(sent') # {})
    <3>1. tool.id = 0 => (tool.started <=> CallsOf(sent) # {})  BY <1>1 DEF Told
    <3> QED BY <1>3, <1>5, <3>1
  <2> QED BY <1>3, <1>4, <2>1 DEF Told
<1> QED BY <1>8, <1>9, <1>10, <1>11, <1>12 DEF WriterInv

LEMMA ToolCallStep ==
  ASSUME WriterInv, NEW e \in AnthropicWriter!Event, AnthropicWriter!ToolCall(e)
  PROVE  WriterInv'
<1>1. WriterTypes /\ Placed /\ Carried /\ Collected /\ Told  BY DEF WriterInv
<1>2. /\ sent # <<>> /\ result = "none" /\ e.kind = "tool" /\ got' = Append(got, e)
      /\ AnthropicWriter!Write(AnthropicWriter!FlushTool)
      /\ tool' = [AnthropicWriter!NoTool EXCEPT !.id = Len(got'), !.index = nextIndex]
      /\ nextIndex' = nextIndex + 1
      /\ textOpen' = AnthropicWriter!TextStaysOpen
      /\ UNCHANGED <<textIndex, stopReason, ending>>
  BY DEF AnthropicWriter!ToolCall, AnthropicWriter!Receive
<1>3. /\ sent' \in Seq(ServerEvent) /\ Kept(sent') /\ Ordered(sent')
      /\ Owned(sent', got', result' # "none") /\ Right(sent', got')
      /\ result' \in {"none", "failure"}
      /\ result' = "none" =>
           /\ sent' = Flow
           /\ NoEnd(sent') /\ UpTo(sent', Len(got)) /\ UpTo(sent', Len(got'))
           /\ TextsOf(sent') = AnthropicWriter!Texts(got')
           /\ CallsOf(sent') = AnthropicWriter!Calls(got, {"tool"})
  <2>1. e.kind \in Ends /\ e.kind # "text"  BY <1>2 DEF Ends
  <2> QED BY <1>2, <2>1, FlushedAlone
<1>4. /\ got \in Seq(AnthropicWriter!Event) /\ got' \in Seq(AnthropicWriter!Event)
      /\ Len(got) \in Nat /\ Len(got') = Len(got) + 1
      /\ AnthropicWriter!Calls(got', {"tool"}) = AnthropicWriter!Calls(got, {"tool"}) \cup {Len(got')}
      /\ ReasonOf(got', stopReason)
  <2>1. got \in Seq(AnthropicWriter!Event) /\ ReasonOf(got, stopReason)
    BY <1>1, <1>2 DEF WriterTypes, Told
  <2>2. e.reason = "none"  BY <1>2 DEF AnthropicWriter!Event
  <2> QED BY <1>2, <2>1, <2>2, Received
<1>5. /\ tool' \in [id : Nat, index : Nat, args : Seq(Nat), started : BOOLEAN, stopped : BOOLEAN]
      /\ tool'.id = Len(got') /\ tool'.index = nextIndex /\ tool'.args = <<>>
      /\ ~tool'.started /\ ~tool'.stopped /\ tool'.id # 0
  <2>1. tool' = [id |-> Len(got'), index |-> nextIndex, args |-> <<>>,
                 started |-> FALSE, stopped |-> FALSE]
    BY <1>2 DEF AnthropicWriter!NoTool
  <2>2. Len(got') \in Nat \ {0} /\ nextIndex \in Nat /\ <<>> \in Seq(Nat)
    BY <1>1, <1>4 DEF WriterTypes
  <2> QED BY <2>1, <2>2
<1>6. WriterTypes'
  BY <1>1, <1>2, <1>3, <1>4, <1>5 DEF WriterTypes, AnthropicWriter!TextStaysOpen
<1>7. Placed'
  <2>1. NextBlock' = nextIndex  BY <1>5 DEF NextBlock
  <2>2. /\ Flow # <<>>
        /\ IF AnthropicWriter!TextStaysOpen THEN Flow = sent ELSE MayStart(Flow[Len(Flow)], nextIndex)
    BY <1>1, <1>2, FlushKept
  <2>3. AnthropicWriter!TextStaysOpen =>
          /\ sent[Len(sent)].type = "text_delta" /\ sent[Len(sent)].index = textIndex
          /\ nextIndex = textIndex + 1
    BY <1>1, <1>2 DEF Placed, NextBlock, AnthropicWriter!TextStaysOpen
  <2> QED BY <1>2, <1>3, <1>5, <2>1, <2>2, <2>3 DEF Placed
<1>8. Carried'
  <2>1. result' = "none" => sent' # <<>>  BY <1>1, <1>2, <1>3, FlushKept
  <2>2. {tool'.id} \ {0} = {Len(got')} /\ tool'.id - 1 = Len(got) /\ tool'.id <= Len(got')
    BY <1>4, <1>5
  <2> QED BY <1>3, <1>4, <2>1, <2>2 DEF Carried
<1>9. Collected'
  <2>1. ~Closed(got', Len(got'), Ends) /\ PiecesOf(got', Len(got')) = {}
    <3>1. Ends \cap {"args"} = {} /\ 0 \in Nat /\ 0 <= Len(got)  BY <1>4 DEF Ends
    <3> QED BY <1>2, <1>4, <3>1, Grown DEF PiecesOf
  <2>2. InOrder(<<>>, {})  BY DEF InOrder
  <2> QED BY <1>3, <1>5, <2>1, <2>2 DEF Collected
<1>10. Told'  BY <1>2, <1>3, <1>4, <1>5 DEF Told
<1> QED BY <1>6, <1>7, <1>8, <1>9, <1>10 DEF WriterInv

LEMMA TextStep ==
  ASSUME WriterInv, NEW e \in AnthropicWriter!Event, AnthropicWriter!Text(e)
  PROVE  WriterInv'
<1> DEFINE piece == AnthropicWriter!TextDelta(textIndex', Len(got'))
<1> DEFINE start == AnthropicWriter!BlockStart(nextIndex, 0)
<1> DEFINE extra == IF AnthropicWriter!TextStaysOpen THEN <<piece>> ELSE <<start, piece>>
<1>1. WriterTypes /\ Placed /\ Carried /\ Collected /\ Told /\ sent \in Seq(ServerEvent)
  BY DEF WriterInv, WriterTypes
<1>2. /\ sent # <<>> /\ result = "none" /\ e.kind = "text" /\ got' = Append(got, e)
      /\ tool' = AnthropicWriter!Flushed /\ textOpen' = TRUE
      /\ IF AnthropicWriter!TextStaysOpen
         THEN AnthropicWriter!Write(<<piece>>) /\ UNCHANGED <<textIndex, nextIndex>>
         ELSE /\ textIndex' = nextIndex /\ nextIndex' = nextIndex + 1
              /\ AnthropicWriter!Write(AnthropicWriter!FlushTool \o <<start, piece>>)
      /\ UNCHANGED <<stopReason, ending>>
  BY DEF AnthropicWriter!Text, AnthropicWriter!Receive
<1>3. /\ got \in Seq(AnthropicWriter!Event) /\ got' \in Seq(AnthropicWriter!Event)
      /\ Len(got) \in Nat /\ Len(got') = Len(got) + 1
      /\ AnthropicWriter!Calls(got', {"tool"}) = AnthropicWriter!Calls(got, {"tool"})
      /\ ReasonOf(got', stopReason)
  <2>1. got \in Seq(AnthropicWriter!Event) /\ ReasonOf(got, stopReason)
    BY <1>1, <1>2 DEF WriterTypes, Told
  <2>2. e.reason = "none"  BY <1>2 DEF AnthropicWriter!Event
  <2> QED BY <1>2, <2>1, <2>2, Received
<1>4. /\ textIndex' \in Nat /\ nextIndex' \in Nat
      /\ nextIndex' = textIndex' + 1
  BY <1>1, <1>2 DEF WriterTypes, Placed, NextBlock, AnthropicWriter!TextStaysOpen
<1>5. /\ piece \in ServerEvent /\ piece.type = "text_delta" /\ piece.index = textIndex'
      /\ AnthropicWriter!Place(piece) = Len(got')
      /\ start \in ServerEvent /\ start.type = "block_start" /\ start.index = nextIndex
      /\ start.id = 0 /\ AnthropicWriter!Place(start) = 0
  <2>1. nextIndex \in Nat  BY <1>1 DEF WriterTypes
  <2> QED BY <1>3, <1>4, <2>1
      DEF ServerEvent, AnthropicWriter!TextDelta, AnthropicWriter!BlockStart, AnthropicWriter!Place
<1> HIDE DEF piece, start
<1>6. /\ AnthropicWriter!FlushTool \in Seq(ServerEvent)
      /\ Flow \in Seq(ServerEvent) /\ Flow # <<>> /\ Kept(Flow)
      /\ IF AnthropicWriter!TextStaysOpen THEN Flow = sent
         ELSE MayStart(Flow[Len(Flow)], nextIndex)
  BY <1>1, <1>2, FlushKept
<1>7. /\ extra \in Seq(ServerEvent) /\ NoEnd(extra) /\ extra # <<>> /\ extra[Len(extra)] = piece
      /\ \A n \in DOMAIN extra :
           /\ extra[n].type # "input_json_delta"
           /\ AnthropicWriter!Place(extra[n])
                = IF n = Len(extra) /\ e.kind = "text" THEN Len(got') ELSE 0
           /\ extra[n].type = "text_delta" <=> e.kind = "text" /\ n = Len(extra)
  BY <1>2, <1>5 DEF NoEnd
<1>8. \A n \in DOMAIN extra :
        AnthropicWriter!MayFollow(IF n = 1 THEN Flow[Len(Flow)] ELSE extra[n - 1], extra[n])
  <2>1. CASE AnthropicWriter!TextStaysOpen
    <3>1. Flow[Len(Flow)].type = "text_delta" /\ Flow[Len(Flow)].index = textIndex
      BY <1>1, <1>2, <1>6, <2>1 DEF Placed, AnthropicWriter!TextStaysOpen
    <3>2. AnthropicWriter!MayFollow(Flow[Len(Flow)], piece)
      BY <1>2, <1>5, <2>1, <3>1 DEF AnthropicWriter!MayFollow
    <3> QED BY <2>1, <3>2
  <2>2. CASE ~AnthropicWriter!TextStaysOpen
    <3>1. AnthropicWriter!MayFollow(Flow[Len(Flow)], start)
      BY <1>5, <1>6, <2>2 DEF AnthropicWriter!MayFollow, MayStart
    <3>2. AnthropicWriter!MayFollow(start, piece)
      BY <1>2, <1>5, <2>2 DEF AnthropicWriter!MayFollow
    <3> QED BY <2>2, <3>1, <3>2
  <2> QED BY <2>1, <2>2
<1>9. /\ result' \in {"none", "failure"}
      /\ \E n \in 0 .. Len(Flow \o extra) : sent' = SubSeq(Flow \o extra, 1, n)
      /\ result' = "none" => sent' = Flow \o extra
  <2>1. CASE AnthropicWriter!TextStaysOpen
    <3>1. Flow \o extra = sent \o <<piece>> /\ AnthropicWriter!Write(<<piece>>)
          /\ <<piece>> \in Seq(ServerEvent)
      BY <1>2, <1>6, <1>7, <2>1
    <3> QED BY <1>1, <1>2, <3>1, Written
  <2>2. CASE ~AnthropicWriter!TextStaysOpen
    <3> DEFINE events == AnthropicWriter!FlushTool \o extra
    <3>1. AnthropicWriter!Write(events)  BY <1>2, <2>2
    <3> HIDE DEF extra
    <3>2. events \in Seq(ServerEvent)  BY <1>6, <1>7
    <3>3. Flow \o extra = sent \o events
      <4>1. (sent \o AnthropicWriter!FlushTool) \o extra
              = sent \o (AnthropicWriter!FlushTool \o extra)
        <5>1. sent \in Seq(ServerEvent)  BY <1>1
        <5>2. AnthropicWriter!FlushTool \in Seq(ServerEvent)  BY <1>6
        <5>3. extra \in Seq(ServerEvent)  BY <1>7
        <5> QED BY <5>1, <5>2, <5>3, ConcatAssociative
      <4> QED BY <4>1 DEF Flow
    <3> HIDE DEF events
    <3> QED BY <1>1, <1>2, <3>1, <3>2, <3>3, Written
  <2> QED BY <2>1, <2>2
<1> HIDE DEF extra
<1>10. /\ sent' \in Seq(ServerEvent) /\ Kept(sent') /\ Ordered(sent')
       /\ Owned(sent', got', result' # "none") /\ Right(sent', got')
       /\ result' = "none" =>
            /\ NoEnd(sent') /\ UpTo(sent', Len(got'))
            /\ TextsOf(sent') = AnthropicWriter!Texts(got')
            /\ CallsOf(sent') = AnthropicWriter!Calls(got, {"tool"})
            /\ CallsOf(sent') = CallsOf(sent) \cup ({tool.id} \ {0})
  <2>1. Kept(Flow \o extra)  BY <1>6, <1>7, <1>8, Joined
  <2>2. e.kind \in Ends  BY <1>2 DEF Ends
  <2> QED BY <1>2, <1>7, <1>9, <2>1, <2>2, Flushing
<1>11. /\ tool'.id = 0
       /\ tool' \in [id : Nat, index : Nat, args : Seq(Nat), started : BOOLEAN, stopped : BOOLEAN]
       /\ tool'.started <=> tool.started \/ tool.id # 0
  BY <1>1, <1>2 DEF WriterTypes, AnthropicWriter!Flushed
<1>12. WriterTypes'
  BY <1>1, <1>2, <1>3, <1>4, <1>9, <1>10, <1>11 DEF WriterTypes
<1>13. result' = "none" => sent' # <<>> /\ sent'[Len(sent')] = piece
  <2>1. Len(Flow \o extra) = Len(Flow) + Len(extra) /\ Len(extra) \in Nat \ {0} /\ Len(Flow) \in Nat
    BY <1>6, <1>7
  <2>2. (Flow \o extra)[Len(Flow) + Len(extra)] = extra[Len(extra)]  BY <1>6, <1>7, <2>1
  <2> QED BY <1>7, <1>9, <2>1, <2>2
<1>14. Placed'
  <2>1. NextBlock' = textIndex' + 1  BY <1>4, <1>11 DEF NextBlock
  <2> QED BY <1>2, <1>5, <1>10, <1>11, <1>13, <2>1 DEF Placed
<1>15. Carried'
  <2>1. {tool'.id} \ {0} = {}  BY <1>11
  <2> QED BY <1>3, <1>9, <1>10, <1>11, <1>13, <2>1 DEF Carried
<1>16. Collected'  BY <1>10, <1>11 DEF Collected
<1>17. Told'
  <2>1. result' = "none" => (tool'.started <=> CallsOf(sent') # {})
    <3>1. tool.id = 0 => (tool.started <=> CallsOf(sent) # {})  BY <1>1, <1>2 DEF Told
    <3> QED BY <1>10, <1>11, <3>1
  <2> QED BY <1>2, <1>3, <1>10, <2>1 DEF Told
<1> QED BY <1>12, <1>14, <1>15, <1>16, <1>17 DEF WriterInv

LEMMA ToolArgsStep ==
  ASSUME WriterInv, NEW e \in AnthropicWriter!Event, AnthropicWriter!ToolArgs(e)
  PROVE  WriterInv'
<1>1. WriterTypes /\ Placed /\ Carried /\ Collected /\ Told  BY DEF WriterInv
<1>2. /\ sent # <<>> /\ result = "none" /\ e.kind = "args" /\ got' = Append(got, e)
      /\ tool' = [tool EXCEPT !.args = Append(@, Len(got'))]
      /\ UNCHANGED <<textOpen, textIndex, nextIndex, stopReason, sent, result, ending>>
  BY DEF AnthropicWriter!ToolArgs, AnthropicWriter!Receive
<1>3. /\ got \in Seq(AnthropicWriter!Event) /\ got' \in Seq(AnthropicWriter!Event)
      /\ Len(got) \in Nat /\ Len(got') = Len(got) + 1
      /\ AnthropicWriter!Texts(got') = AnthropicWriter!Texts(got)
      /\ AnthropicWriter!Calls(got', {"tool"}) = AnthropicWriter!Calls(got, {"tool"})
      /\ ReasonOf(got', stopReason)
  <2>1. got \in Seq(AnthropicWriter!Event) /\ ReasonOf(got, stopReason)
    BY <1>1, <1>2 DEF WriterTypes, Told
  <2>2. e.reason = "none"  BY <1>2 DEF AnthropicWriter!Event
  <2> QED BY <1>2, <2>1, <2>2, Received
<1>4. /\ tool' \in [id : Nat, index : Nat, args : Seq(Nat), started : BOOLEAN, stopped : BOOLEAN]
      /\ tool'.id = tool.id /\ tool'.index = tool.index /\ tool'.args = Append(tool.args, Len(got'))
      /\ tool'.started = tool.started /\ tool'.stopped = tool.stopped
      /\ tool.id \in Nat /\ tool.args \in Seq(Nat)
  <2>1. tool \in [id : Nat, index : Nat, args : Seq(Nat), started : BOOLEAN, stopped : BOOLEAN]
        /\ Append(tool.args, Len(got')) \in Seq(Nat)
    BY <1>1, <1>3 DEF WriterTypes
  <2> QED BY <1>2, <2>1
<1>5. WriterTypes'  BY <1>1, <1>2, <1>3, <1>4 DEF WriterTypes
<1>6. Placed'
  <2>1. NextBlock' = NextBlock  BY <1>2, <1>4 DEF NextBlock
  <2> QED BY <1>1, <1>2, <1>4, <2>1 DEF Placed
<1>7. \A m \in Nat : UpTo(sent, m) => UpTo(sent, m + 1)
  BY <1>1, PlaceNat DEF UpTo, WriterTypes
<1>8. Carried'
  <2>1. /\ Ordered(sent) /\ UpTo(sent, Len(got))
        /\ tool.id # 0 => tool.id <= Len(got) /\ UpTo(sent, tool.id - 1)
        /\ TextsOf(sent) = AnthropicWriter!Texts(got)
        /\ CallsOf(sent) \cup ({tool.id} \ {0}) = AnthropicWriter!Calls(got, {"tool"})
    BY <1>1, <1>2 DEF Carried
  <2>2. UpTo(sent, Len(got')) /\ (tool.id # 0 => tool.id <= Len(got'))
    BY <1>3, <1>4, <1>7, <2>1
  <2> QED BY <1>2, <1>3, <1>4, <2>1, <2>2 DEF Carried
<1>9. Collected'
  <2>1. Ends \cap {"args"} = {} /\ "args" \notin Ends  BY DEF Ends
  <2>2. Owned(sent, got', FALSE)
    <3>1. Owned(sent, got, FALSE)  BY <1>1, <1>2 DEF Collected, Owned
    <3>2. sent \in Seq(ServerEvent) /\ UpTo(sent, Len(got))
      BY <1>1, <1>2 DEF WriterTypes, Carried
    <3> QED BY <1>2, <1>3, <3>1, <3>2, OwnedGrows
  <2>3. ASSUME tool.id # 0
        PROVE  ~Closed(got', tool.id, Ends) /\ InOrder(tool'.args, PiecesOf(got', tool.id))
    <3>1. /\ tool.id <= Len(got) /\ ~Closed(got, tool.id, Ends)
          /\ InOrder(tool.args, PiecesOf(got, tool.id))
      BY <1>1, <1>2, <2>3 DEF Carried, Collected
    <3>2. /\ ~Closed(got', tool.id, Ends)
          /\ PiecesOf(got', tool.id) = PiecesOf(got, tool.id) \cup {Len(got')}
      <4>1. got \in Seq(AnthropicWriter!Event) /\ tool.id \in Nat /\ tool.id <= Len(got)
        BY <1>3, <1>4, <3>1
      <4>2. /\ ~Closed(Append(got, e), tool.id, Ends)
            /\ PiecesIn(Append(got, e), tool.id, Ends, {"args"})
                 = PiecesIn(got, tool.id, Ends, {"args"})
                     \cup (IF e.kind \in {"args"} THEN {Len(got) + 1} ELSE {})
        BY <1>2, <2>1, <3>1, <4>1, Grown
      <4> QED BY <1>2, <1>3, <4>2 DEF PiecesOf
    <3>3. PiecesOf(got, tool.id) \in SUBSET Nat /\ \A x \in PiecesOf(got, tool.id) : x < Len(got')
      BY <1>3, <1>4 DEF PiecesOf, PiecesIn
    <3>4. Len(got') \in Nat  BY <1>3
    <3>5. InOrder(Append(tool.args, Len(got')), PiecesOf(got, tool.id) \cup {Len(got')})
      BY <1>4, <3>1, <3>3, <3>4, Listed
    <3> QED BY <1>4, <3>2, <3>5
  <2> QED BY <1>2, <1>4, <2>2, <2>3 DEF Collected, Owned
<1>10. Told'
  <2>1. Right(sent, got')  BY <1>1, <1>2 DEF Told, NoEnd, Right
  <2> QED BY <1>1, <1>2, <1>3, <1>4, <2>1 DEF Told
<1> QED BY <1>5, <1>6, <1>8, <1>9, <1>10 DEF WriterInv

LEMMA IgnoredStep ==
  ASSUME WriterInv, NEW e \in AnthropicWriter!Event, AnthropicWriter!Ignored(e)
  PROVE  WriterInv'
<1>1. WriterTypes /\ Placed /\ Carried /\ Collected /\ Told  BY DEF WriterInv
<1>2. /\ sent # <<>> /\ result = "none" /\ e.kind \in {"nameless", "function", "functionArgs"}
      /\ got' = Append(got, e)
      /\ UNCHANGED <<textOpen, textIndex, nextIndex, tool, stopReason, sent, result, ending>>
  BY DEF AnthropicWriter!Ignored, AnthropicWriter!Receive, AnthropicWriter!writer
<1>3. /\ got \in Seq(AnthropicWriter!Event) /\ got' \in Seq(AnthropicWriter!Event)
      /\ Len(got) \in Nat /\ Len(got') = Len(got) + 1
      /\ AnthropicWriter!Texts(got') = AnthropicWriter!Texts(got)
      /\ AnthropicWriter!Calls(got', {"tool"}) = AnthropicWriter!Calls(got, {"tool"})
      /\ ReasonOf(got', stopReason)
  <2>1. got \in Seq(AnthropicWriter!Event) /\ ReasonOf(got, stopReason)
    BY <1>1, <1>2 DEF WriterTypes, Told
  <2>2. e.reason = "none"  BY <1>2 DEF AnthropicWriter!Event
  <2> QED BY <1>2, <2>1, <2>2, Received
<1>4. WriterTypes'  BY <1>1, <1>2, <1>3 DEF WriterTypes
<1>5. Placed'
  <2>1. NextBlock' = NextBlock  BY <1>2 DEF NextBlock
  <2> QED BY <1>1, <1>2, <2>1 DEF Placed
<1>6. \A m \in Nat : UpTo(sent, m) => UpTo(sent, m + 1)
  BY <1>1, PlaceNat DEF UpTo, WriterTypes
<1>7. Carried'
  <2>1. tool.id \in Nat  BY <1>1 DEF WriterTypes
  <2> QED BY <1>1, <1>2, <1>3, <1>6, <2>1 DEF Carried
<1>8. Collected'
  <2>1. Ends \cap {"args"} = {} /\ e.kind \notin Ends /\ e.kind # "args"  BY <1>2 DEF Ends
  <2>2. Owned(sent, got', FALSE)
    <3>1. Owned(sent, got, FALSE)  BY <1>1, <1>2 DEF Collected, Owned
    <3>2. sent \in Seq(ServerEvent) /\ UpTo(sent, Len(got))
      BY <1>1, <1>2 DEF WriterTypes, Carried
    <3> QED BY <1>2, <1>3, <3>1, <3>2, OwnedGrows
  <2>3. ASSUME tool.id # 0
        PROVE  ~Closed(got', tool.id, Ends) /\ InOrder(tool.args, PiecesOf(got', tool.id))
    <3>1. /\ tool.id <= Len(got) /\ ~Closed(got, tool.id, Ends) /\ tool.id \in Nat
          /\ InOrder(tool.args, PiecesOf(got, tool.id))
      BY <1>1, <1>2, <2>3 DEF Carried, Collected, WriterTypes
    <3>2. ~Closed(got', tool.id, Ends) /\ PiecesOf(got', tool.id) = PiecesOf(got, tool.id)
      <4>1. got \in Seq(AnthropicWriter!Event) /\ tool.id \in Nat /\ tool.id <= Len(got)
        BY <1>3, <3>1
      <4>2. /\ ~Closed(Append(got, e), tool.id, Ends)
            /\ PiecesIn(Append(got, e), tool.id, Ends, {"args"})
                 = PiecesIn(got, tool.id, Ends, {"args"})
                     \cup (IF e.kind \in {"args"} THEN {Len(got) + 1} ELSE {})
        BY <2>1, <3>1, <4>1, Grown
      <4> QED BY <1>2, <2>1, <4>2 DEF PiecesOf
    <3> QED BY <3>1, <3>2
  <2> QED BY <1>2, <2>2, <2>3 DEF Collected, Owned
<1>9. Told'
  <2>1. Right(sent, got')  BY <1>1, <1>2 DEF Told, NoEnd, Right
  <2> QED BY <1>1, <1>2, <1>3, <2>1 DEF Told
<1> QED BY <1>4, <1>5, <1>7, <1>8, <1>9 DEF WriterInv

LEMMA BeginStep ==
  ASSUME WriterInv, AnthropicWriter!Begin
  PROVE  WriterInv'
<1> DEFINE first == AnthropicWriter!MessageStart
<1>1. WriterTypes /\ Placed /\ Carried /\ Collected /\ Told  BY DEF WriterInv
<1>2. /\ sent = <<>> /\ result = "none" /\ AnthropicWriter!Write(<<first>>)
      /\ UNCHANGED <<got, textOpen, textIndex, nextIndex, tool, stopReason, hasContent, ending>>
  BY DEF AnthropicWriter!Begin, AnthropicWriter!writer
<1>3. first \in ServerEvent /\ first.type = "message_start" /\ AnthropicWriter!Place(first) = 0
  BY DEF ServerEvent, AnthropicWriter!MessageStart, AnthropicWriter!Place
<1>4. /\ sent' \in Seq(ServerEvent) /\ result' \in {"none", "failure"}
      /\ \A n \in DOMAIN sent' : n = 1 /\ sent'[n] = first
      /\ result' = "none" => sent' = <<first>>
  <2>1. <<first>> \in Seq(ServerEvent) /\ sent \in Seq(ServerEvent)
    BY <1>1, <1>3 DEF WriterTypes
  <2>2. sent \o <<first>> = <<first>>  BY <1>2, <2>1, ConcatEmptySeq
  <2>3. /\ result' \in {"none", "failure"}
        /\ \E n \in 0 .. Len(<<first>>) : sent' = SubSeq(<<first>>, 1, n)
        /\ result' = "none" => sent' = <<first>>
    <3>1. sent \in Seq(ServerEvent) /\ result = "none" /\ AnthropicWriter!Write(<<first>>)
      BY <1>2, <2>1
    <3> HIDE DEF first
    <3> QED BY <2>1, <2>2, <3>1, Written
  <2> HIDE DEF first
  <2>4. PICK n \in 0 .. 1 : sent' = SubSeq(<<first>>, 1, n)  BY <2>3
  <2>5. sent' \in Seq(ServerEvent) /\ \A i \in DOMAIN sent' : i = 1 /\ sent'[i] = first
    BY <2>1, <2>4
  <2> QED BY <2>3, <2>5
<1>5. CallsOf(sent') = {} /\ TextsOf(sent') = {} /\ CallsOf(sent) = {} /\ TextsOf(sent) = {}
  BY <1>2, <1>3, <1>4 DEF CallsOf, TextsOf
<1>6. WriterTypes'  BY <1>1, <1>2, <1>4 DEF WriterTypes
<1>7. Placed'
  <2>1. NextBlock' = NextBlock /\ ~textOpen /\ NextBlock = 0
    BY <1>1, <1>2 DEF NextBlock, Placed
  <2>2. Kept(sent')  BY <1>4 DEF Kept
  <2>3. result' = "none" => sent' # <<>> /\ sent'[Len(sent')] = first
    <3> HIDE DEF first
    <3>1. <<first>> # <<>> /\ Len(<<first>>) = 1 /\ <<first>>[1] = first  OBVIOUS
    <3> QED BY <1>4, <3>1
  <2>4. MayStart(first, 0)  BY <1>3 DEF MayStart
  <2> HIDE DEF first
  <2> QED BY <1>1, <1>2, <2>1, <2>2, <2>3, <2>4 DEF Placed
<1>8. Carried'
  <2>1. got = <<>> /\ tool.id = 0  BY <1>1, <1>2 DEF Carried
  <2>2. UpTo(sent', Len(got)) /\ Ordered(sent')
    BY <1>3, <1>4, <2>1 DEF UpTo, Ordered
  <2> QED BY <1>1, <1>2, <1>4, <1>5, <2>1, <2>2 DEF Carried
<1>9. Collected'
  <2>1. tool.id = 0  BY <1>1, <1>2 DEF Carried
  <2> QED BY <1>2, <1>3, <1>4, <2>1 DEF Collected, Owned
<1>10. Told'
  BY <1>1, <1>2, <1>3, <1>4, <1>5 DEF Told, Right, NoEnd
<1> QED BY <1>6, <1>7, <1>8, <1>9, <1>10 DEF WriterInv

LEMMA EndStep ==
  ASSUME WriterInv, AnthropicWriter!End
  PROVE  WriterInv'
<1> DEFINE stop == AnthropicWriter!BlockStop(textIndex)
<1> DEFINE delta == AnthropicWriter!MessageDelta(AnthropicWriter!Inferred)
<1> DEFINE end == AnthropicWriter!MessageStop
<1> DEFINE closing == IF AnthropicWriter!TextStaysOpen THEN AnthropicWriter!CloseText ELSE <<>>
<1> DEFINE events == (AnthropicWriter!FlushTool \o closing) \o <<delta, end>>
<1> DEFINE extra == IF AnthropicWriter!TextStaysOpen THEN <<stop, delta, end>> ELSE <<delta, end>>
<1> DEFINE full == Flow \o extra
<1>1. WriterTypes /\ Placed /\ Carried /\ Collected /\ Told /\ sent \in Seq(ServerEvent)
  BY DEF WriterInv, WriterTypes
<1>2. /\ sent # <<>> /\ result = "none"
      /\ \/ /\ sent' = sent \o events
            /\ result' \in {"success", "failure"}
         \/ /\ \E n \in 0 .. Len(events) - 1 : sent' = sent \o SubSeq(events, 1, n)
            /\ result' = "failure"
      /\ tool' = AnthropicWriter!Flushed /\ textOpen' = FALSE
      /\ stopReason' = AnthropicWriter!Inferred
      /\ UNCHANGED <<got, textIndex, nextIndex>>
  BY DEF AnthropicWriter!End
<1>3. /\ tool'.id = 0
      /\ tool' \in [id : Nat, index : Nat, args : Seq(Nat), started : BOOLEAN, stopped : BOOLEAN]
      /\ AnthropicWriter!Flushed.started <=> tool.started \/ tool.id # 0
  BY <1>1, <1>2 DEF WriterTypes, AnthropicWriter!Flushed
<1>4. AnthropicWriter!Inferred \in Stops
  BY <1>1 DEF WriterTypes, AnthropicWriter!Inferred, Stops
<1>5. /\ stop \in ServerEvent /\ delta \in ServerEvent /\ end \in ServerEvent
      /\ stop.type = "block_stop" /\ stop.index = textIndex
      /\ delta.type = "message_delta" /\ delta.stop = AnthropicWriter!Inferred
      /\ end.type = "message_stop"
  BY <1>1, <1>4 DEF WriterTypes, ServerEvent, AnthropicWriter!BlockStop,
                    AnthropicWriter!MessageDelta, AnthropicWriter!MessageStop
<1>6. /\ AnthropicWriter!Place(stop) = 0 /\ AnthropicWriter!Place(delta) = 0
      /\ AnthropicWriter!Place(end) = 0
  BY <1>5 DEF AnthropicWriter!Place
<1> HIDE DEF stop, delta, end
<1>7. /\ AnthropicWriter!FlushTool \in Seq(ServerEvent)
      /\ Flow \in Seq(ServerEvent) /\ Flow # <<>> /\ Kept(Flow)
      /\ IF AnthropicWriter!TextStaysOpen THEN Flow = sent
         ELSE MayStart(Flow[Len(Flow)], nextIndex)
  BY <1>1, <1>2, FlushKept
<1>8. /\ extra \in Seq(ServerEvent) /\ extra # <<>>
      /\ \A n \in DOMAIN extra :
           /\ extra[n].type \in {"block_stop", "message_delta", "message_stop"}
           /\ extra[n].type = "message_delta" => extra[n] = delta
           /\ AnthropicWriter!Place(extra[n]) = 0
  BY <1>5, <1>6
<1>9. events = AnthropicWriter!FlushTool \o extra
  <2>1. CASE AnthropicWriter!TextStaysOpen
    <3>1. AnthropicWriter!FlushTool = <<>> /\ closing = <<stop>>
      BY <2>1 DEF AnthropicWriter!TextStaysOpen, AnthropicWriter!FlushTool,
                  AnthropicWriter!CloseText, stop
    <3>2. <<>> \o <<stop>> = <<stop>>  BY Tuples, Zenon
    <3>3. <<stop>> \o <<delta, end>> = <<stop, delta, end>>
      <4>1. /\ <<stop>> \o <<delta, end>> \in Seq(ServerEvent)
            /\ <<stop, delta, end>> \in Seq(ServerEvent)
            /\ Len(<<stop>> \o <<delta, end>>) = 3
            /\ \A i \in 1 .. 3 : (<<stop>> \o <<delta, end>>)[i] = <<stop, delta, end>>[i]
        BY <1>5
      <4> QED BY <4>1, SeqEqual
    <3>4. <<>> \o extra = extra  BY <1>8, ConcatEmptySeq
    <3>5. events = (<<>> \o <<stop>>) \o <<delta, end>>  BY <3>1
    <3>6. extra = <<stop, delta, end>>  BY <2>1
    <3> HIDE DEF events, extra
    <3> QED BY <3>1, <3>2, <3>3, <3>4, <3>5, <3>6
  <2>2. CASE ~AnthropicWriter!TextStaysOpen
    <3>1. AnthropicWriter!FlushTool \o <<>> = AnthropicWriter!FlushTool
      BY <1>7, ConcatEmptySeq
    <3> QED BY <2>2, <3>1
  <2> QED BY <2>1, <2>2
<1> HIDE DEF events
<1>10. full = sent \o events /\ events \in Seq(ServerEvent) /\ full \in Seq(ServerEvent)
  <2> HIDE DEF extra
  <2>1. extra \in Seq(ServerEvent)  BY <1>8
  <2>2. AnthropicWriter!FlushTool \in Seq(ServerEvent)  BY <1>7
  <2>3. sent \in Seq(ServerEvent)  BY <1>1
  <2>4. (sent \o AnthropicWriter!FlushTool) \o extra = sent \o (AnthropicWriter!FlushTool \o extra)
    BY <2>1, <2>2, <2>3, ConcatAssociative
  <2> QED BY <1>7, <1>9, <2>1, <2>2, <2>4 DEF Flow
<1>11. Kept(full)
  <2>1. \A n \in DOMAIN extra :
          AnthropicWriter!MayFollow(IF n = 1 THEN Flow[Len(Flow)] ELSE extra[n - 1], extra[n])
    <3>1. AnthropicWriter!MayFollow(stop, delta) /\ AnthropicWriter!MayFollow(delta, end)
      BY <1>5 DEF AnthropicWriter!MayFollow
    <3>2. CASE AnthropicWriter!TextStaysOpen
      <4>1. Flow[Len(Flow)].type = "text_delta" /\ Flow[Len(Flow)].index = textIndex
        BY <1>1, <1>2, <1>7, <3>2 DEF Placed, AnthropicWriter!TextStaysOpen
      <4>2. AnthropicWriter!MayFollow(Flow[Len(Flow)], stop)
        BY <1>5, <4>1 DEF AnthropicWriter!MayFollow
      <4> QED BY <3>1, <3>2, <4>2
    <3>3. CASE ~AnthropicWriter!TextStaysOpen
      <4>1. AnthropicWriter!MayFollow(Flow[Len(Flow)], delta)
        BY <1>5, <1>7, <3>3 DEF AnthropicWriter!MayFollow, MayStart
      <4> QED BY <3>1, <3>3, <4>1
    <3> QED BY <3>2, <3>3
  <2> HIDE DEF extra
  <2> QED BY <1>7, <1>8, <2>1, Joined
<1>12. /\ Ordered(Flow) /\ UpTo(Flow, Len(got))
       /\ TextsOf(Flow) = AnthropicWriter!Texts(got)
       /\ CallsOf(Flow) = AnthropicWriter!Calls(got, {"tool"})
       /\ CallsOf(Flow) = CallsOf(sent) \cup ({tool.id} \ {0})
  BY <1>1, <1>2, FlowContent
<1>13. Owned(Flow, got, TRUE) /\ NoEnd(Flow)  BY <1>1, <1>2, FlowOwned, FlowGoesOn
<1> HIDE DEF extra
<1>14. /\ Ordered(full) /\ TextsOf(full) = TextsOf(Flow) /\ CallsOf(full) = CallsOf(Flow)
       /\ Owned(full, got, TRUE)
  <2>1. \A n \in DOMAIN extra :
          /\ extra[n].type # "input_json_delta"
          /\ AnthropicWriter!Place(extra[n]) = IF n = Len(extra) THEN 0 ELSE 0
          /\ extra[n].type = "text_delta" <=> 0 # 0 /\ n = Len(extra)
    BY <1>8
  <2>2. /\ Ordered(Flow \o extra)
        /\ TextsOf(Flow \o extra) = TextsOf(Flow) \cup ({0} \ {0})
        /\ CallsOf(Flow \o extra) = CallsOf(Flow)
        /\ \A g, over : Owned(Flow, g, over) => Owned(Flow \o extra, g, over)
    BY <1>7, <1>8, <1>12, <2>1, Lengthened
  <2> QED BY <1>13, <2>2
<1>15. PICK n \in 0 .. Len(full) : sent' = SubSeq(full, 1, n)
  <2> HIDE DEF full
  <2>1. full = SubSeq(full, 1, Len(full)) /\ Len(full) \in 0 .. Len(full)  BY <1>10, SubSeqFull
  <2>2. ASSUME NEW i \in 0 .. Len(events) - 1, sent' = sent \o SubSeq(events, 1, i)
        PROVE  Len(sent) + i \in 0 .. Len(full) /\ sent' = SubSeq(full, 1, Len(sent) + i)
    BY <1>1, <1>10, <2>2, Failing
  <2> QED BY <1>2, <1>10, <2>1, <2>2
<1>16. result' \in {"success", "failure"} /\ (result' = "success" => sent' = full)
  BY <1>2, <1>10
<1>17. full \in Seq(ServerEvent)  BY <1>10
<1>18. /\ sent' \in Seq(ServerEvent) /\ Kept(sent') /\ Ordered(sent') /\ Owned(sent', got, TRUE)
       /\ DOMAIN sent' \subseteq DOMAIN full /\ \A i \in DOMAIN sent' : sent'[i] = full[i]
       /\ \A i \in DOMAIN sent' : i \in Nat /\ 1 .. i \subseteq DOMAIN sent'
  <2> HIDE DEF full
  <2>1. /\ sent' \in Seq(ServerEvent) /\ Kept(sent') /\ Ordered(sent') /\ Owned(sent', got, TRUE)
    BY <1>11, <1>14, <1>15, <1>17, Cut
  <2>2. /\ DOMAIN sent' \subseteq DOMAIN full /\ \A i \in DOMAIN sent' : sent'[i] = full[i]
        /\ \A i \in DOMAIN sent' : i \in Nat /\ 1 .. i \subseteq DOMAIN sent'
    BY <1>15, <1>17
  <2> QED BY <2>1, <2>2
<1>19. Right(sent', got)
  <2> SUFFICES ASSUME NEW i \in DOMAIN sent', sent'[i].type = "message_delta"
               PROVE  IF {k \in DOMAIN got : got[k].reason # "none"} = {}
                      THEN sent'[i].stop = IF CallsOf(sent') = {} THEN "end_turn" ELSE "tool_use"
                      ELSE ReasonOf(got, sent'[i].stop)
    BY DEF Right
  <2>1. /\ DOMAIN Flow \subseteq DOMAIN full /\ DOMAIN Flow = 1 .. Len(Flow) /\ Len(Flow) \in Nat
        /\ \A k \in DOMAIN Flow : full[k] = Flow[k]
        /\ \A k \in DOMAIN full :
             \/ k \in DOMAIN Flow
             \/ /\ k > Len(Flow) /\ full[k] = extra[k - Len(Flow)]
                /\ k - Len(Flow) \in DOMAIN extra
    BY <1>7, <1>8
  <2> HIDE DEF full
  <2>2. i > Len(Flow) /\ sent'[i] = delta
    <3>1. i \notin DOMAIN Flow  BY <1>13, <1>18, <2>1 DEF NoEnd
    <3> QED BY <1>8, <1>18, <2>1, <3>1
  <2>3. DOMAIN Flow \subseteq DOMAIN sent'
    <3>1. 1 .. Len(Flow) \subseteq 1 .. i  BY <1>18, <2>1, <2>2
    <3> QED BY <1>18, <2>1, <3>1
  <2>4. CallsOf(sent') = CallsOf(Flow)
    <3>1. CallsOf(sent') \subseteq CallsOf(full)  BY <1>18 DEF CallsOf
    <3>2. CallsOf(Flow) \subseteq CallsOf(sent')  BY <1>18, <2>1, <2>3 DEF CallsOf
    <3> QED BY <1>14, <3>1, <3>2
  <2>5. AnthropicWriter!Flushed.started <=> CallsOf(Flow) # {}
    <3>1. tool.id = 0 => (tool.started <=> CallsOf(sent) # {})  BY <1>1, <1>2 DEF Told
    <3> QED BY <1>3, <1>12, <3>1
  <2>6. sent'[i].stop = AnthropicWriter!Inferred  BY <1>5, <2>2
  <2>7. ReasonOf(got, stopReason)  BY <1>1, <1>2 DEF Told
  <2>8. CASE {k \in DOMAIN got : got[k].reason # "none"} = {}
    <3>1. stopReason = "none"  BY <2>7, <2>8 DEF ReasonOf
    <3>2. AnthropicWriter!Inferred = IF CallsOf(sent') = {} THEN "end_turn" ELSE "tool_use"
      BY <2>4, <2>5, <3>1 DEF AnthropicWriter!Inferred
    <3> QED BY <2>6, <2>8, <3>2
  <2>9. CASE {k \in DOMAIN got : got[k].reason # "none"} # {}
    <3>1. stopReason # "none"  BY <2>7, <2>9 DEF ReasonOf, AnthropicWriter!Mapped
    <3>2. AnthropicWriter!Inferred = stopReason  BY <3>1 DEF AnthropicWriter!Inferred
    <3> QED BY <2>6, <2>7, <2>9, <3>2
  <2> QED BY <2>8, <2>9
<1> HIDE DEF full
<1>20. WriterTypes'  BY <1>1, <1>2, <1>3, <1>4, <1>16, <1>18 DEF WriterTypes
<1>21. Placed'  BY <1>3, <1>16, <1>18 DEF Placed
<1>22. Carried'  BY <1>2, <1>12, <1>14, <1>16, <1>18 DEF Carried
<1>23. Collected'  BY <1>2, <1>16, <1>18 DEF Collected, Owned
<1>24. Told'  BY <1>2, <1>16, <1>19 DEF Told
<1> QED BY <1>20, <1>21, <1>22, <1>23, <1>24 DEF WriterInv

LEMMA WriterStep ==
  ASSUME WriterInv, AnthropicWriter!Next
  PROVE  WriterInv'
<1>1. CASE AnthropicWriter!Begin  BY <1>1, BeginStep
<1>2. CASE AnthropicWriter!End  BY <1>2, EndStep
<1>3. ASSUME NEW e \in AnthropicWriter!Event,
             \/ AnthropicWriter!Blank(e) \/ AnthropicWriter!Text(e) \/ AnthropicWriter!ToolCall(e)
             \/ AnthropicWriter!ToolArgs(e) \/ AnthropicWriter!Ignored(e) \/ AnthropicWriter!Finish(e)
      PROVE  WriterInv'
  <2>1. CASE AnthropicWriter!Blank(e)
    <3>1. e.kind = "blank" /\ e.reason = "none"
      BY <2>1 DEF AnthropicWriter!Blank, AnthropicWriter!Event
    <3>2. /\ sent # <<>> /\ result = "none" /\ got' = Append(got, e)
          /\ AnthropicWriter!Write(AnthropicWriter!FlushTool)
          /\ tool' = AnthropicWriter!Flushed /\ textOpen' = AnthropicWriter!TextStaysOpen
          /\ stopReason' = stopReason
          /\ UNCHANGED <<textIndex, nextIndex, ending>>
      BY <2>1 DEF AnthropicWriter!Blank, AnthropicWriter!Receive
    <3>3. e.kind \in {"blank", "finish"}  BY <3>1
    <3>4. stopReason' = IF e.reason = "none" THEN stopReason ELSE AnthropicWriter!Mapped(e.reason)
      BY <3>1, <3>2
    <3> QED BY <3>2, <3>3, <3>4, FlushedStep
  <2>2. CASE AnthropicWriter!Finish(e)
    <3>1. e.kind \in {"blank", "finish"}  BY <2>2 DEF AnthropicWriter!Finish
    <3>2. /\ sent # <<>> /\ result = "none" /\ got' = Append(got, e)
          /\ AnthropicWriter!Write(AnthropicWriter!FlushTool)
          /\ tool' = AnthropicWriter!Flushed /\ textOpen' = AnthropicWriter!TextStaysOpen
          /\ stopReason' = IF e.reason = "none" THEN stopReason
                           ELSE AnthropicWriter!Mapped(e.reason)
          /\ UNCHANGED <<textIndex, nextIndex, ending>>
      BY <2>2 DEF AnthropicWriter!Finish, AnthropicWriter!Receive
    <3> QED BY <3>1, <3>2, FlushedStep
  <2>3. CASE AnthropicWriter!Text(e)  BY <2>3, TextStep
  <2>4. CASE AnthropicWriter!ToolCall(e)  BY <2>4, ToolCallStep
  <2>5. CASE AnthropicWriter!ToolArgs(e)  BY <2>5, ToolArgsStep
  <2>6. CASE AnthropicWriter!Ignored(e)  BY <2>6, IgnoredStep
  <2> QED BY <1>3, <2>1, <2>2, <2>3, <2>4, <2>5, <2>6
<1> QED BY <1>1, <1>2, <1>3 DEF AnthropicWriter!Next

\* Only the streaming Anthropic handler writes events.
StreamInv == IF api = "anthropic stream" THEN WriterInv ELSE sent = <<>> /\ result = "none"

LEMMA NothingSent == sent = <<>> => DOMAIN sent = {}
<1>1. DOMAIN <<>> = {}  OBVIOUS
<1> QED BY <1>1

LEMMA StreamInit == Init => StreamInv
<1> SUFFICES ASSUME Init PROVE WriterInv /\ sent = <<>> /\ result = "none"
  BY DEF StreamInv
<1>1. /\ got = <<>> /\ sent = <<>> /\ ending = "open" /\ result = "none"
      /\ textOpen = FALSE /\ textIndex = 0 /\ nextIndex = 0
      /\ tool = [id |-> 0, index |-> 0, args |-> <<>>, started |-> FALSE, stopped |-> FALSE]
      /\ stopReason = "none"
  BY DEF Init, AnthropicWriter!Init, AnthropicWriter!NoTool
<1>2. WriterTypes
  <2>1. tool \in [id : Nat, index : Nat, args : Seq(Nat), started : BOOLEAN, stopped : BOOLEAN]
    <3>1. <<>> \in Seq(Nat)  OBVIOUS
    <3> QED BY <1>1, <3>1
  <2>2. got \in Seq(AnthropicWriter!Event) /\ sent \in Seq(ServerEvent)  BY <1>1
  <2>3. textOpen \in BOOLEAN /\ textIndex \in Nat /\ nextIndex \in Nat  BY <1>1
  <2>4. stopReason \in Stops /\ result \in {"none", "success", "failure"} /\ ending = "open"
    BY <1>1 DEF Stops
  <2> QED BY <2>1, <2>2, <2>3, <2>4 DEF WriterTypes
<1>3. Placed  BY <1>1, NothingSent DEF Placed, Kept, NextBlock
<1>4. TextsOf(sent) = {} /\ CallsOf(sent) = {} /\ AnthropicWriter!Texts(got) = {}
      /\ AnthropicWriter!Calls(got, {"tool"}) = {}
  BY <1>1 DEF TextsOf, CallsOf, AnthropicWriter!Texts, AnthropicWriter!Calls,
              AnthropicWriter!PositionsOf
<1>5. Carried  BY <1>1, <1>4, NothingSent DEF Carried, Ordered, UpTo
<1>6. Collected  BY <1>1, NothingSent DEF Collected, Owned
<1>7. Told  BY <1>1, <1>4, NothingSent DEF Told, Right, NoEnd, ReasonOf
<1> QED BY <1>1, <1>2, <1>3, <1>5, <1>6, <1>7 DEF WriterInv

LEMMA StreamNext == StreamInv /\ [Next]_vars => StreamInv'
<1> SUFFICES ASSUME StreamInv, [Next]_vars PROVE StreamInv'
  OBVIOUS
<1>1. CASE HandleAnthropicStreaming
  <2>1. api = "anthropic stream" /\ api' = api /\ AnthropicWriter!Next
    BY <1>1 DEF HandleAnthropicStreaming
  <2> QED BY <2>1, WriterStep DEF StreamInv
<1>2. CASE ConvertMessages \/ ConvertTools
  <2>1. api' = api /\ api # "anthropic stream" /\ sent' = sent /\ result' = result
    BY <1>2 DEF ConvertMessages, ConvertTools, responses, writer
  <2> QED BY <2>1 DEF StreamInv
<1>3. CASE HandleAnthropicNonStreaming \/ HandleOpenAI
  <2>1. api' = api /\ api # "anthropic stream" /\ sent' = sent /\ result' = result
    BY <1>3 DEF HandleAnthropicNonStreaming, HandleOpenAI, writer
  <2> QED BY <2>1 DEF StreamInv
<1>4. CASE UNCHANGED vars
  <2>1. UNCHANGED <<api, got, textOpen, textIndex, nextIndex, tool, stopReason, sent, ending, result>>
    BY <1>4 DEF vars, responses, writer
  <2> QED BY <2>1 DEF StreamInv, WriterInv, WriterTypes, Placed, NextBlock, Carried, Collected,
                      Told, AnthropicWriter!Texts, AnthropicWriter!Calls
<1> QED BY <1>1, <1>2, <1>3, <1>4 DEF Next

\* Spec keeps the invariant.
THEOREM StreamInvariant == Spec => []StreamInv
<1> QED BY StreamInit, StreamNext, PTL DEF Spec

\* The definitions used in the proofs are those of the model.
LEMMA SameDefinitions ==
  /\ TextsOf(sent) = AnthropicWriter!SentTexts /\ CallsOf(sent) = AnthropicWriter!SentCalls
  /\ \A s, S : InOrder(s, S) => AnthropicWriter!Lists(s, S)
  /\ \A g, id, ends, pieces : AnthropicWriter!Pieces(g, id, ends, pieces) = PiecesIn(g, id, ends, pieces)
BY DEF TextsOf, CallsOf, AnthropicWriter!SentTexts, AnthropicWriter!SentCalls, InOrder,
       AnthropicWriter!Lists, AnthropicWriter!ToSet, AnthropicWriter!Pieces, PiecesIn

\* response_anthropic.go:155, for any number of events and any failing write:
\* the client sees blocks one after the other, each with a start, deltas of its
\* kind and a stop, and a message that ends after them.
THEOREM StreamIsWellFormed == Spec => []ProtocolKept
<1>1. StreamInv => ProtocolKept
  BY NothingSent DEF StreamInv, WriterInv, Placed, Kept, ProtocolKept, AnthropicWriter!ProtocolKept
<1> QED BY <1>1, StreamInvariant, PTL

\* response_anthropic.go:175: a successful stream has brought the client every
\* text and every named call, and any stream brings them once and in order.
THEOREM NothingIsDropped == Spec => []ContentKept
<1>1. StreamInv => ContentKept
  <2> SUFFICES ASSUME StreamInv PROVE AnthropicWriter!ContentKept
    BY DEF ContentKept
  <2>1. CASE api = "anthropic stream"
    BY <2>1, SameDefinitions DEF StreamInv, WriterInv, Carried, Ordered, AnthropicWriter!ContentKept
  <2>2. CASE api # "anthropic stream"
    BY <2>2, NothingSent DEF StreamInv, AnthropicWriter!ContentKept
  <2> QED BY <2>1, <2>2
<1> QED BY <1>1, StreamInvariant, PTL

\* response_anthropic.go:155: the arguments a call is sent with are its own
\* pieces, all of them, in order.
THEOREM ArgumentsAreOwn == Spec => []ArgsExact
<1>1. StreamInv => ArgsExact
  <2> SUFFICES ASSUME StreamInv PROVE AnthropicWriter!ArgsExact
    BY DEF ArgsExact
  <2>1. CASE api = "anthropic stream"
    <3>1. Owned(sent, got, result # "none")  BY <2>1 DEF StreamInv, WriterInv, Collected
    <3> QED BY <3>1, SameDefinitions DEF Owned, PiecesOf, Ends, AnthropicWriter!ArgsExact
  <2>2. CASE api # "anthropic stream"
    BY <2>2, NothingSent DEF StreamInv, AnthropicWriter!ArgsExact
  <2> QED BY <2>1, <2>2
<1> QED BY <1>1, StreamInvariant, PTL

\* response_anthropic.go:305: the client runs tools exactly if upstream asked
\* for it, or gave no reason and there are calls to run.
THEOREM StopReasonIsRight == Spec => []StopReasonRight
<1>1. StreamInv => StopReasonRight
  <2> SUFFICES ASSUME StreamInv PROVE AnthropicWriter!StopReasonRight
    BY DEF StopReasonRight
  <2>1. CASE api = "anthropic stream"
    <3>1. Right(sent, got)  BY <2>1 DEF StreamInv, WriterInv, Told
    <3> QED BY <3>1, SameDefinitions DEF Right, ReasonOf, AnthropicWriter!StopReasonRight
  <2>2. CASE api # "anthropic stream"
    BY <2>2, NothingSent DEF StreamInv, AnthropicWriter!StopReasonRight
  <2> QED BY <2>1, <2>2
<1> QED BY <1>1, StreamInvariant, PTL

(***************************************************************************)
(* The collecting Anthropic converter.                                     *)
(***************************************************************************)

\* How a list of the pieces of a call changes with the next event.
LEMMA ListGrown ==
  ASSUME NEW E, NEW g \in Seq(E), NEW e \in E, NEW p \in Nat, p <= Len(g),
         NEW ends, NEW pieces, ends \cap pieces = {}, NEW s \in Seq(Nat),
         InOrder(s, PiecesIn(g, p, ends, pieces))
  PROVE  LET h == Append(g, e)
         IN /\ Closed(g, p, ends) \/ e.kind \in ends =>
                 Closed(h, p, ends) /\ InOrder(s, PiecesIn(h, p, ends, pieces))
            /\ ~Closed(g, p, ends) /\ e.kind \notin ends =>
                 /\ ~Closed(h, p, ends)
                 /\ e.kind \in pieces =>
                      InOrder(Append(s, Len(g) + 1), PiecesIn(h, p, ends, pieces))
                 /\ e.kind \notin pieces => InOrder(s, PiecesIn(h, p, ends, pieces))
<1> DEFINE h == Append(g, e)
<1> DEFINE before == PiecesIn(g, p, ends, pieces)
<1> DEFINE after == PiecesIn(h, p, ends, pieces)
<1>1. /\ Closed(g, p, ends) \/ e.kind \in ends => Closed(h, p, ends) /\ after = before
      /\ ~Closed(g, p, ends) /\ e.kind \notin ends =>
           /\ ~Closed(h, p, ends)
           /\ after = before \cup (IF e.kind \in pieces THEN {Len(g) + 1} ELSE {})
  BY Grown
<1>2. before \in SUBSET Nat /\ Len(g) + 1 \in Nat /\ \A x \in before : x < Len(g) + 1
  BY DEF PiecesIn
<1> HIDE DEF before, after, h
<1>3. InOrder(s, before)  BY DEF before
<1>4. InOrder(Append(s, Len(g) + 1), before \cup {Len(g) + 1})  BY <1>2, <1>3, Listed
<1>5. before \cup {} = before  OBVIOUS
<1>6. \/ e.kind \in pieces /\ (IF e.kind \in pieces THEN {Len(g) + 1} ELSE {}) = {Len(g) + 1}
      \/ e.kind \notin pieces /\ (IF e.kind \in pieces THEN {Len(g) + 1} ELSE {}) = {}
  OBVIOUS
<1>7. /\ Closed(g, p, ends) \/ e.kind \in ends => Closed(h, p, ends) /\ InOrder(s, after)
      /\ ~Closed(g, p, ends) /\ e.kind \notin ends =>
           /\ ~Closed(h, p, ends)
           /\ e.kind \in pieces => InOrder(Append(s, Len(g) + 1), after)
           /\ e.kind \notin pieces => InOrder(s, after)
  BY <1>1, <1>3, <1>4, <1>5, <1>6
<1> QED BY <1>7 DEF after, h

CallRecord == [id : Nat, args : Seq(Nat)]
Finishing == {"tool", "finish"}

\* The arguments of a call are all its pieces in g.
Own(g, c) == InOrder(c.args, PiecesIn(g, c.id, Finishing, {"args"}))

ReaderInv ==
  /\ got \in Seq(AnthropicReader!Event)
  /\ currentToolCall \in CallRecord
  /\ content \in Seq(CallRecord)
  /\ \A i \in DOMAIN content :
       content[i].id <= Len(got) /\ Closed(got, content[i].id, Finishing) /\ Own(got, content[i])
  /\ \A i, k \in DOMAIN content : i < k => content[i].id < content[k].id
  /\ currentToolCall.id # 0 =>
       /\ currentToolCall.id <= Len(got) /\ ~Closed(got, currentToolCall.id, Finishing)
       /\ Own(got, currentToolCall)
       /\ \A i \in DOMAIN content : content[i].id < currentToolCall.id

\* A call that was closed keeps its arguments.
LEMMA OwnForGood ==
  ASSUME NEW g \in Seq(AnthropicReader!Event), NEW e \in AnthropicReader!Event,
         NEW c \in CallRecord, c.id <= Len(g), Own(g, c),
         Closed(g, c.id, Finishing) \/ e.kind \in Finishing
  PROVE  LET h == Append(g, e)
         IN c.id <= Len(h) /\ Closed(h, c.id, Finishing) /\ Own(h, c)
<1>1. c.id \in Nat /\ c.args \in Seq(Nat)  BY DEF CallRecord
<1>2. Finishing \cap {"args"} = {}  BY DEF Finishing
<1>3. InOrder(c.args, PiecesIn(g, c.id, Finishing, {"args"}))  BY DEF Own
<1>4. /\ Closed(Append(g, e), c.id, Finishing)
      /\ InOrder(c.args, PiecesIn(Append(g, e), c.id, Finishing, {"args"}))
  BY <1>1, <1>2, <1>3, ListGrown
<1>5. c.id <= Len(Append(g, e))  BY <1>1
<1> QED BY <1>4, <1>5 DEF Own

LEMMA ReaderStep ==
  ASSUME ReaderInv, AnthropicReader!Next
  PROVE  ReaderInv'
<1>1. /\ got \in Seq(AnthropicReader!Event) /\ Len(got) \in Nat
      /\ currentToolCall \in CallRecord /\ content \in Seq(CallRecord)
      /\ \A i \in DOMAIN content : content[i] \in CallRecord
  BY DEF ReaderInv
<1>2. CASE AnthropicReader!Return
  <2>1. UNCHANGED <<got, currentToolCall, content>>  BY <1>2 DEF AnthropicReader!Return
  <2> QED BY <2>1 DEF ReaderInv, Own
<1>3. ASSUME NEW e \in AnthropicReader!Event,
             \/ AnthropicReader!Text(e) \/ AnthropicReader!ToolCall(e) \/ AnthropicReader!ToolArgs(e)
             \/ AnthropicReader!Ignored(e) \/ AnthropicReader!Finish(e)
      PROVE  ReaderInv'
  <2> DEFINE h == Append(got, e)
  <2>1. got' = h /\ h \in Seq(AnthropicReader!Event) /\ Len(h) = Len(got) + 1
    BY <1>1, <1>3 DEF AnthropicReader!Text, AnthropicReader!ToolCall, AnthropicReader!ToolArgs,
       AnthropicReader!Ignored, AnthropicReader!Finish, AnthropicReader!Read
  <2>2. \A i \in DOMAIN content : /\ content[i].id <= Len(h) /\ Closed(h, content[i].id, Finishing)
                                  /\ Own(h, content[i])
    BY <1>1, OwnForGood DEF ReaderInv
  <2>3. currentToolCall.id \in Nat /\ currentToolCall.args \in Seq(Nat)  BY <1>1 DEF CallRecord
  <2>4. ASSUME currentToolCall.id # 0, e.kind \notin Finishing
        PROVE  /\ currentToolCall.id <= Len(h) /\ ~Closed(h, currentToolCall.id, Finishing)
               /\ e.kind # "args" => Own(h, currentToolCall)
               /\ e.kind = "args" =>
                    InOrder(Append(currentToolCall.args, Len(h)),
                            PiecesIn(h, currentToolCall.id, Finishing, {"args"}))
    <3>1. Finishing \cap {"args"} = {}  BY DEF Finishing
    <3>2. /\ currentToolCall.id <= Len(got) /\ ~Closed(got, currentToolCall.id, Finishing)
          /\ InOrder(currentToolCall.args, PiecesIn(got, currentToolCall.id, Finishing, {"args"}))
      BY <2>4 DEF ReaderInv, Own
    <3>3. /\ ~Closed(h, currentToolCall.id, Finishing)
          /\ e.kind \in {"args"} =>
               InOrder(Append(currentToolCall.args, Len(got) + 1),
                       PiecesIn(h, currentToolCall.id, Finishing, {"args"}))
          /\ e.kind \notin {"args"} =>
               InOrder(currentToolCall.args, PiecesIn(h, currentToolCall.id, Finishing, {"args"}))
      BY <1>1, <2>3, <2>4, <3>1, <3>2, ListGrown
    <3> HIDE DEF h
    <3> QED BY <1>1, <2>1, <2>3, <3>2, <3>3 DEF Own
  <2> HIDE DEF h
  <2>5. CASE AnthropicReader!Text(e) \/ AnthropicReader!Ignored(e)
    <3>1. e.kind \notin Finishing /\ e.kind # "args" /\ UNCHANGED <<currentToolCall, content>>
      BY <2>5 DEF AnthropicReader!Text, AnthropicReader!Ignored, Finishing
    <3> QED BY <1>1, <2>1, <2>2, <2>4, <3>1 DEF ReaderInv
  <2>6. CASE AnthropicReader!ToolCall(e)
    <3>1. e.kind \in Finishing /\ currentToolCall' = [id |-> Len(h), args |-> <<>>]
          /\ UNCHANGED content
      BY <2>1, <2>6 DEF AnthropicReader!ToolCall, AnthropicReader!Call, Finishing
    <3>2. ~Closed(h, Len(h), Finishing) /\ PiecesIn(h, Len(h), Finishing, {"args"}) = {}
      BY <2>1 DEF Closed, PiecesIn
    <3>3. <<>> \in Seq(Nat) /\ InOrder(<<>>, {})  BY DEF InOrder
    <3>4. currentToolCall' \in CallRecord /\ Own(h, currentToolCall')
      <4>1. Len(h) \in Nat  BY <1>1, <2>1
      <4>2. currentToolCall'.id = Len(h) /\ currentToolCall'.args = <<>>  BY <3>1
      <4>3. currentToolCall' \in CallRecord  BY <3>1, <3>3, <4>1 DEF CallRecord
      <4>4. Own(h, currentToolCall')  BY <3>2, <3>3, <4>2 DEF Own
      <4> QED BY <4>3, <4>4
    <3>5. \A i \in DOMAIN content : content[i].id < Len(h)
      <4>1. \A i \in DOMAIN content : content[i].id \in Nat /\ content[i].id <= Len(got)
        BY <1>1 DEF ReaderInv, CallRecord
      <4> QED BY <1>1, <2>1, <4>1
    <3> QED BY <1>1, <2>1, <2>2, <3>1, <3>2, <3>4, <3>5 DEF ReaderInv
  <2>7. CASE AnthropicReader!ToolArgs(e)
    <3>1. e.kind = "args" /\ e.kind \notin Finishing /\ UNCHANGED content
          /\ currentToolCall' = IF currentToolCall.id = 0 THEN currentToolCall
                                ELSE [currentToolCall EXCEPT !.args = Append(@, Len(h))]
      BY <2>1, <2>7 DEF AnthropicReader!ToolArgs, Finishing
    <3>2. CASE currentToolCall.id = 0
      BY <1>1, <2>1, <2>2, <3>1, <3>2 DEF ReaderInv
    <3>3. CASE currentToolCall.id # 0
      <4>1. Append(currentToolCall.args, Len(h)) \in Seq(Nat)
        BY <1>1, <2>1, <2>3
      <4>2. currentToolCall' \in CallRecord /\ currentToolCall'.id = currentToolCall.id
            /\ currentToolCall'.args = Append(currentToolCall.args, Len(h))
        BY <1>1, <3>1, <3>3, <4>1 DEF CallRecord
      <4> QED BY <1>1, <2>1, <2>2, <2>4, <3>1, <3>3, <4>2 DEF ReaderInv, Own
    <3> QED BY <3>2, <3>3
  <2>8. CASE AnthropicReader!Finish(e)
    <3>1. e.kind \in Finishing /\ currentToolCall' = [id |-> 0, args |-> <<>>]
          /\ content' = IF currentToolCall.id = 0 THEN content ELSE Append(content, currentToolCall)
      BY <2>8 DEF AnthropicReader!Finish, AnthropicReader!NoCall, AnthropicReader!Call, Finishing
    <3>2. currentToolCall' \in CallRecord /\ currentToolCall'.id = 0
      <4>1. <<>> \in Seq(Nat)  OBVIOUS
      <4> QED BY <3>1, <4>1 DEF CallRecord
    <3>3. CASE currentToolCall.id = 0
      BY <1>1, <2>1, <2>2, <3>1, <3>2, <3>3 DEF ReaderInv
    <3>4. CASE currentToolCall.id # 0
      <4>1. /\ content' \in Seq(CallRecord) /\ DOMAIN content' = 1 .. Len(content) + 1
            /\ DOMAIN content = 1 .. Len(content) /\ Len(content) \in Nat
            /\ content'[Len(content) + 1] = currentToolCall
            /\ \A i \in DOMAIN content : content'[i] = content[i]
        BY <1>1, <3>1, <3>4
      <4>2. /\ currentToolCall.id <= Len(h) /\ Closed(h, currentToolCall.id, Finishing)
            /\ Own(h, currentToolCall)
        BY <1>1, <3>1, <3>4, OwnForGood DEF ReaderInv, h
      <4>3. \A i \in DOMAIN content' : i \in DOMAIN content \/ i = Len(content) + 1
        BY <4>1
      <4>4. \A i \in DOMAIN content' :
              /\ content'[i].id <= Len(h) /\ Closed(h, content'[i].id, Finishing)
              /\ Own(h, content'[i])
        BY <2>2, <4>1, <4>2, <4>3
      <4>5. ASSUME NEW i \in DOMAIN content', NEW k \in DOMAIN content', i < k
            PROVE  content'[i].id < content'[k].id
        <5>1. i \in DOMAIN content  BY <4>1, <4>5
        <5>2. CASE k \in DOMAIN content  BY <4>1, <4>5, <5>1, <5>2 DEF ReaderInv
        <5>3. CASE k = Len(content) + 1  BY <3>4, <4>1, <5>1, <5>3 DEF ReaderInv
        <5> QED BY <4>3, <5>2, <5>3
      <4> QED BY <2>1, <3>2, <4>1, <4>4, <4>5 DEF ReaderInv
    <3> QED BY <3>3, <3>4
  <2> QED BY <1>3, <2>5, <2>6, <2>7, <2>8
<1> QED BY <1>2, <1>3 DEF AnthropicReader!Next

\* Only the collecting Anthropic handler collects tool_use blocks.
BatchInv == IF api = "anthropic" THEN ReaderInv ELSE content = <<>>

\* jetbrains.go:121: a batch answer has no call twice, and every call in it has
\* the pieces of its own arguments, all of them and in order.
THEOREM BatchCallsAreOwn == Spec => []CallsOwn
<1>1. Init => BatchInv
  <2> SUFFICES ASSUME Init PROVE ReaderInv /\ content = <<>>
    BY DEF BatchInv
  <2>1. got = <<>> /\ content = <<>> /\ currentToolCall = [id |-> 0, args |-> <<>>]
    BY DEF Init, AnthropicReader!Init, AnthropicReader!NoCall, AnthropicReader!Call
  <2>2. <<>> \in Seq(Nat) /\ DOMAIN <<>> = {}  OBVIOUS
  <2>3. currentToolCall \in CallRecord /\ currentToolCall.id = 0  BY <2>1, <2>2 DEF CallRecord
  <2>4. got \in Seq(AnthropicReader!Event) /\ content \in Seq(CallRecord) /\ DOMAIN content = {}
    BY <2>1, <2>2
  <2> QED BY <2>1, <2>3, <2>4 DEF ReaderInv
<1>2. BatchInv /\ [Next]_vars => BatchInv'
  <2> SUFFICES ASSUME BatchInv, [Next]_vars PROVE BatchInv'
    OBVIOUS
  <2>1. CASE HandleAnthropicNonStreaming
    <3>1. api = "anthropic" /\ api' = api /\ AnthropicReader!Next
      BY <2>1 DEF HandleAnthropicNonStreaming
    <3> QED BY <3>1, ReaderStep DEF BatchInv
  <2>2. CASE ConvertMessages \/ ConvertTools \/ HandleAnthropicStreaming \/ HandleOpenAI
    <3>1. api' = api /\ api # "anthropic" /\ content' = content
      BY <2>2 DEF ConvertMessages, ConvertTools, HandleAnthropicStreaming, HandleOpenAI,
                  responses, reader
    <3> QED BY <3>1 DEF BatchInv
  <2>3. CASE UNCHANGED vars
    <3>1. UNCHANGED <<api, got, currentToolCall, content>>  BY <2>3 DEF vars, responses, reader
    <3> QED BY <3>1 DEF BatchInv, ReaderInv, Own
  <2> QED BY <2>1, <2>2, <2>3 DEF Next
<1>3. BatchInv => CallsOwn
  <2> SUFFICES ASSUME BatchInv PROVE AnthropicReader!CallsOwn
    BY DEF CallsOwn
  <2>1. CASE api = "anthropic"
    <3>1. ReaderInv  BY <2>1 DEF BatchInv
    <3>2. \A i \in DOMAIN content :
            AnthropicReader!Lists(content[i].args,
              AnthropicReader!Pieces(got, content[i].id, {"tool", "finish"}, {"args"}))
      BY <3>1 DEF ReaderInv, Own, Finishing, InOrder, PiecesIn, AnthropicReader!Lists,
                  AnthropicReader!ToSet, AnthropicReader!Pieces
    <3>3. \A i, k \in DOMAIN content : content[i].id = content[k].id => i = k
      <4>1. \A i \in DOMAIN content : i \in Nat /\ content[i].id \in Nat
        <5>1. content \in Seq(CallRecord)  BY <3>1 DEF ReaderInv
        <5>2. \A i \in DOMAIN content : i \in Nat /\ content[i] \in CallRecord  BY <5>1
        <5> QED BY <5>2 DEF CallRecord
      <4>2. \A i, k \in DOMAIN content : i < k => content[i].id < content[k].id
        BY <3>1 DEF ReaderInv
      <4> QED BY <4>1, <4>2
    <3>4. AnthropicReader!IsInjective(AnthropicReader!CallIds(content))
      BY <3>3 DEF AnthropicReader!IsInjective, AnthropicReader!CallIds
    <3> QED BY <3>2, <3>4 DEF AnthropicReader!CallsOwn
  <2>2. CASE api # "anthropic"
    <3>1. DOMAIN content = {}
      <4>1. DOMAIN <<>> = {}  OBVIOUS
      <4> QED BY <2>2, <4>1 DEF BatchInv
    <3>2. AnthropicReader!IsInjective(AnthropicReader!CallIds(content))
      BY <3>1 DEF AnthropicReader!IsInjective, AnthropicReader!CallIds
    <3> QED BY <3>1, <3>2 DEF AnthropicReader!CallsOwn
  <2> QED BY <2>1, <2>2
<1> QED BY <1>1, <1>2, <1>3, PTL DEF Spec

(***************************************************************************)
(* The two OpenAI converters.                                              *)
(***************************************************************************)

\* The calls are those at the positions S, once each and in order.
Listing(calls, S) ==
  /\ {calls[i].id : i \in DOMAIN calls} = S
  /\ \A i, k \in DOMAIN calls : i < k => calls[i].id < calls[k].id

\* The calls have the pieces that g has for them, and only the last one may get
\* more; with is whether a call comes with a piece.
Filled(calls, g, ends, pieces, with) ==
  \A i \in DOMAIN calls :
    /\ calls[i].id <= Len(g)
    /\ Closed(g, calls[i].id, ends) <=> i < Len(calls)
    /\ InOrder(calls[i].args,
               (IF with THEN {calls[i].id} ELSE {}) \cup PiecesIn(g, calls[i].id, ends, pieces))

\* The same calls, the last of which has got the piece p.
Extended(calls, longer, p) ==
  /\ longer \in Seq(CallRecord) /\ calls # <<>> /\ Len(longer) = Len(calls)
  /\ \A i \in 1 .. Len(calls) :
       /\ longer[i].id = calls[i].id
       /\ longer[i].args = IF i = Len(calls) THEN Append(calls[i].args, p) ELSE calls[i].args

SameIds(calls, others) ==
  Len(others) = Len(calls) /\ \A i \in 1 .. Len(calls) : others[i].id = calls[i].id

LEMMA CallAt ==
  ASSUME NEW calls \in Seq(CallRecord), NEW i \in 1 .. Len(calls)
  PROVE  calls[i] \in CallRecord /\ calls[i].id \in Nat /\ calls[i].args \in Seq(Nat)
<1>1. calls[i] \in CallRecord  OBVIOUS
<1> QED BY <1>1 DEF CallRecord

LEMMA ListingGrown ==
  ASSUME NEW calls \in Seq(CallRecord), NEW S \in SUBSET Nat, Listing(calls, S),
         NEW c \in CallRecord, \A x \in S : x < c.id
  PROVE  Listing(Append(calls, c), S \cup {c.id})
<1> DEFINE u == Append(calls, c)
<1>1. /\ DOMAIN u = 1 .. Len(calls) + 1 /\ DOMAIN calls = 1 .. Len(calls) /\ Len(calls) \in Nat
      /\ u[Len(calls) + 1] = c /\ \A i \in 1 .. Len(calls) : u[i] = calls[i]
  OBVIOUS
<1> HIDE DEF u
<1>2. {calls[i].id : i \in DOMAIN calls} = S
      /\ \A i, k \in DOMAIN calls : i < k => calls[i].id < calls[k].id
  BY DEF Listing
<1>3. \A i \in DOMAIN u : i \in DOMAIN calls \/ i = Len(calls) + 1  BY <1>1
<1>4. {u[i].id : i \in DOMAIN u} = S \cup {c.id}  BY <1>1, <1>2, <1>3
<1>5. ASSUME NEW i \in DOMAIN u, NEW k \in DOMAIN u, i < k PROVE u[i].id < u[k].id
  <2>1. i \in DOMAIN calls  BY <1>1, <1>5
  <2>2. CASE k \in DOMAIN calls  BY <1>1, <1>2, <1>5, <2>1, <2>2
  <2>3. CASE k = Len(calls) + 1  BY <1>1, <1>2, <2>1, <2>3
  <2> QED BY <1>3, <2>2, <2>3
<1> QED BY <1>4, <1>5 DEF Listing, u

LEMMA ListingKept ==
  ASSUME NEW calls \in Seq(CallRecord), NEW others \in Seq(CallRecord), NEW S,
         Listing(calls, S), SameIds(calls, others)
  PROVE  Listing(others, S)
<1>1. DOMAIN others = DOMAIN calls /\ \A i \in DOMAIN calls : others[i].id = calls[i].id
  BY DEF SameIds
<1> QED BY <1>1 DEF Listing

LEMMA GrownIdle ==
  ASSUME NEW E, NEW g \in Seq(E), NEW e \in E, NEW p \in Nat, p <= Len(g),
         NEW ends, NEW pieces, ends \cap pieces = {}
  PROVE  e.kind \notin ends /\ e.kind \notin pieces =>
           /\ Closed(Append(g, e), p, ends) <=> Closed(g, p, ends)
           /\ PiecesIn(Append(g, e), p, ends, pieces) = PiecesIn(g, p, ends, pieces)
<1> DEFINE h == Append(g, e)
<1> DEFINE before == PiecesIn(g, p, ends, pieces)
<1> DEFINE after == PiecesIn(h, p, ends, pieces)
<1>1. /\ Closed(g, p, ends) \/ e.kind \in ends => Closed(h, p, ends) /\ after = before
      /\ ~Closed(g, p, ends) /\ e.kind \notin ends =>
           /\ ~Closed(h, p, ends)
           /\ after = before \cup (IF e.kind \in pieces THEN {Len(g) + 1} ELSE {})
  BY Grown
<1> HIDE DEF before, after, h
<1>2. before \cup {} = before  OBVIOUS
<1>3. e.kind \notin ends /\ e.kind \notin pieces =>
        (Closed(h, p, ends) <=> Closed(g, p, ends)) /\ after = before
  BY <1>1, <1>2
<1> QED BY <1>3 DEF before, after, h

LEMMA FilledIdle ==
  ASSUME NEW E, NEW g \in Seq(E), NEW e \in E, NEW ends, NEW pieces, ends \cap pieces = {},
         NEW with, NEW calls \in Seq(CallRecord), Filled(calls, g, ends, pieces, with),
         e.kind \notin ends, e.kind \notin pieces
  PROVE  Filled(calls, Append(g, e), ends, pieces, with)
<1> DEFINE h == Append(g, e)
<1> SUFFICES ASSUME NEW i \in DOMAIN calls
             PROVE  /\ calls[i].id <= Len(h) /\ (Closed(h, calls[i].id, ends) <=> i < Len(calls))
                    /\ PiecesIn(h, calls[i].id, ends, pieces) = PiecesIn(g, calls[i].id, ends, pieces)
  BY DEF Filled
<1> DEFINE id == calls[i].id
<1> DEFINE before == PiecesIn(g, id, ends, pieces)
<1> DEFINE after == PiecesIn(h, id, ends, pieces)
<1>1. id \in Nat /\ i \in 1 .. Len(calls)  BY CallAt
<1>2. id <= Len(g) /\ (Closed(g, id, ends) <=> i < Len(calls))  BY DEF Filled
<1> HIDE DEF id
<1>3. after = before /\ (Closed(h, id, ends) <=> Closed(g, id, ends))
  BY <1>1, <1>2, GrownIdle
<1>4. id <= Len(h)  BY <1>1, <1>2
<1> HIDE DEF before, after, h
<1>5. id <= Len(h) /\ (Closed(h, id, ends) <=> i < Len(calls)) /\ after = before
  BY <1>2, <1>3, <1>4
<1> QED BY <1>5 DEF before, after, id

LEMMA FilledPiece ==
  ASSUME NEW E, NEW g \in Seq(E), NEW e \in E, NEW ends, NEW pieces, ends \cap pieces = {},
         NEW with, NEW calls \in Seq(CallRecord), Filled(calls, g, ends, pieces, with),
         e.kind \in pieces, NEW longer, Extended(calls, longer, Len(g) + 1)
  PROVE  Filled(longer, Append(g, e), ends, pieces, with)
<1> DEFINE h == Append(g, e)
<1>1. /\ Len(longer) = Len(calls) /\ DOMAIN longer = 1 .. Len(calls) /\ Len(calls) \in Nat
      /\ DOMAIN calls = 1 .. Len(calls) /\ e.kind \notin ends
      /\ Len(g) \in Nat /\ Len(h) = Len(g) + 1
  BY DEF Extended
<1> SUFFICES ASSUME NEW i \in 1 .. Len(calls)
             PROVE  /\ longer[i].id <= Len(h) /\ (Closed(h, longer[i].id, ends) <=> i < Len(longer))
                    /\ InOrder(longer[i].args, (IF with THEN {longer[i].id} ELSE {})
                                               \cup PiecesIn(h, longer[i].id, ends, pieces))
  BY <1>1 DEF Filled
<1> DEFINE id == calls[i].id
<1> DEFINE before == PiecesIn(g, id, ends, pieces)
<1> DEFINE after == PiecesIn(h, id, ends, pieces)
<1> DEFINE own == IF with THEN {id} ELSE {}
<1>2. /\ longer[i].id = id
      /\ longer[i].args = IF i = Len(calls) THEN Append(calls[i].args, Len(g) + 1) ELSE calls[i].args
  BY DEF Extended
<1>3. calls[i] \in CallRecord /\ id \in Nat /\ calls[i].args \in Seq(Nat)  BY CallAt
<1>4. /\ id <= Len(g) /\ (Closed(g, id, ends) <=> i < Len(calls))
      /\ InOrder(calls[i].args, own \cup before)
  BY <1>1 DEF Filled
<1>5. /\ Closed(g, id, ends) => Closed(h, id, ends) /\ after = before
      /\ ~Closed(g, id, ends) =>
           /\ ~Closed(h, id, ends)
           /\ after = before \cup (IF e.kind \in pieces THEN {Len(g) + 1} ELSE {})
  <2> HIDE DEF id
  <2> QED BY <1>1, <1>3, <1>4, Grown
<1>6. own \cup before \in SUBSET Nat /\ \A x \in own \cup before : x < Len(g) + 1
  <2> HIDE DEF id
  <2> QED BY <1>1, <1>3, <1>4 DEF PiecesIn
<1> HIDE DEF own, before, after, h, id
<1>7. CASE i = Len(calls)
  <2>1. after = before \cup {Len(g) + 1} /\ ~Closed(h, id, ends)  BY <1>1, <1>4, <1>5, <1>7
  <2>2. InOrder(Append(calls[i].args, Len(g) + 1), (own \cup before) \cup {Len(g) + 1})
    <3>1. Len(g) + 1 \in Nat /\ calls[i].args \in Seq(Nat)  BY <1>1, <1>3
    <3> QED BY <1>4, <1>6, <3>1, Listed
  <2>3. (own \cup before) \cup {Len(g) + 1} = own \cup after  BY <2>1
  <2>4. InOrder(longer[i].args, own \cup after)  BY <1>2, <1>7, <2>2, <2>3
  <2>5. longer[i].id <= Len(h) /\ ~(i < Len(longer))  BY <1>1, <1>2, <1>3, <1>4, <1>7
  <2> QED BY <1>2, <2>1, <2>4, <2>5 DEF own, after
<1>8. CASE i # Len(calls)
  <2>1. after = before /\ Closed(h, id, ends)  BY <1>1, <1>4, <1>5, <1>8
  <2>2. InOrder(longer[i].args, own \cup after)  BY <1>2, <1>4, <1>8, <2>1
  <2>3. longer[i].id <= Len(h) /\ i < Len(longer)  BY <1>1, <1>2, <1>3, <1>4, <1>8
  <2> QED BY <1>2, <2>1, <2>2, <2>3 DEF own, after
<1> QED BY <1>7, <1>8

LEMMA FilledStart ==
  ASSUME NEW E, NEW g \in Seq(E), NEW e \in E, NEW ends, NEW pieces, ends \cap pieces = {},
         NEW with \in BOOLEAN, NEW calls \in Seq(CallRecord), Filled(calls, g, ends, pieces, with),
         e.kind \in ends, NEW c \in CallRecord, c.id = Len(g) + 1,
         c.args = IF with THEN <<c.id>> ELSE <<>>
  PROVE  Filled(Append(calls, c), Append(g, e), ends, pieces, with)
<1> DEFINE h == Append(g, e)
<1> DEFINE u == Append(calls, c)
<1>1. /\ DOMAIN u = 1 .. Len(calls) + 1 /\ Len(u) = Len(calls) + 1
      /\ DOMAIN calls = 1 .. Len(calls) /\ Len(calls) \in Nat
      /\ u[Len(calls) + 1] = c /\ \A i \in 1 .. Len(calls) : u[i] = calls[i]
      /\ Len(g) \in Nat /\ Len(h) = Len(g) + 1
  OBVIOUS
<1> HIDE DEF u
<1>2. ASSUME NEW i \in 1 .. Len(calls)
      PROVE  /\ calls[i].id <= Len(h) /\ Closed(h, calls[i].id, ends)
             /\ PiecesIn(h, calls[i].id, ends, pieces) = PiecesIn(g, calls[i].id, ends, pieces)
  <2>1. calls[i].id \in Nat  BY CallAt
  <2>2. calls[i].id <= Len(g)  BY <1>1 DEF Filled
  <2>3. Closed(h, calls[i].id, ends)
        /\ PiecesIn(h, calls[i].id, ends, pieces) = PiecesIn(g, calls[i].id, ends, pieces)
    BY <2>1, <2>2, Grown
  <2> QED BY <1>1, <2>1, <2>2, <2>3
<1>3. ~Closed(h, Len(h), ends) /\ PiecesIn(h, Len(h), ends, pieces) = {}
  BY <1>1 DEF Closed, PiecesIn
<1>4. InOrder(c.args, (IF with THEN {c.id} ELSE {}) \cup {})
  <2>1. CASE with
    <3>1. DOMAIN <<c.id>> = {1} /\ <<c.id>>[1] = c.id  OBVIOUS
    <3>2. InOrder(<<c.id>>, {c.id} \cup {})  BY <3>1 DEF InOrder
    <3> QED BY <2>1, <3>2
  <2>2. CASE ~with
    <3>1. InOrder(<<>>, {} \cup {})  BY DEF InOrder
    <3> QED BY <2>2, <3>1
  <2> QED BY <2>1, <2>2
<1> HIDE DEF h
<1> SUFFICES ASSUME NEW i \in DOMAIN u
             PROVE  /\ u[i].id <= Len(h) /\ (Closed(h, u[i].id, ends) <=> i < Len(u))
                    /\ InOrder(u[i].args, (IF with THEN {u[i].id} ELSE {})
                                          \cup PiecesIn(h, u[i].id, ends, pieces))
  BY DEF Filled, u, h
<1>5. CASE i \in 1 .. Len(calls)
  <2>1. u[i] = calls[i] /\ i < Len(u)  BY <1>1, <1>5
  <2>2. InOrder(calls[i].args, (IF with THEN {calls[i].id} ELSE {})
                               \cup PiecesIn(g, calls[i].id, ends, pieces))
    BY <1>1, <1>5 DEF Filled
  <2>3. InOrder(calls[i].args, (IF with THEN {calls[i].id} ELSE {})
                               \cup PiecesIn(h, calls[i].id, ends, pieces))
    BY <1>2, <1>5, <2>2
  <2> QED BY <1>2, <1>5, <2>1, <2>3
<1>6. CASE i = Len(calls) + 1
  <2>1. u[i] = c /\ ~(i < Len(u)) /\ c.id = Len(h) /\ c.id <= Len(h)  BY <1>1, <1>6
  <2> QED BY <1>3, <1>4, <2>1
<1> QED BY <1>1, <1>5, <1>6

\* Every event in g is text or of the kinds.
OnlyIn(g, kinds) == \A i \in DOMAIN g : g[i].kind \in {"text", "blank"} \cup kinds

Starts == {"tool", "function"}
TextChunks == [type : {"text"}, role : BOOLEAN, payload : Nat]

OpenTypes ==
  /\ got \in Seq(OpenAI!Event)
  /\ currentTool \in CallRecord /\ toolCalls \in Seq(CallRecord)
  /\ legacy \in CallRecord /\ messageCalls \in Seq(CallRecord)
  /\ text \in Seq(Nat) /\ chunks \in Seq(TextChunks)

\* Both converters have the texts, and the client has them, too.
TextsKept ==
  /\ InOrder(text, OpenAI!Texts(got))
  /\ Len(chunks) = Len(text)
  /\ \A n \in 1 .. Len(text) : chunks[n].payload = text[n] /\ (chunks[n].role <=> n = 1)
  /\ firstChunkSent <=> text # <<>>

\* Both converters have the calls.
CallsKept ==
  /\ Listing(OpenAI!Finalized, OpenAI!Calls(got, Starts))
  /\ Listing(OpenAI!LegacyFinalized, OpenAI!Calls(got, Starts))

\* With one kind of call only, both converters have the arguments.
ArgsKept ==
  /\ OnlyIn(got, {"tool", "args"}) =>
       /\ currentTool.id # 0 \/ toolCalls = <<>>
       /\ legacy.id = 0
       /\ Filled(OpenAI!Finalized, got, {"tool"}, {"args"}, FALSE)
       /\ Filled(OpenAI!LegacyFinalized, got, {"tool"}, {"args"}, FALSE)
  /\ OnlyIn(got, {"function", "functionArgs"}) =>
       /\ currentTool.id # 0 \/ toolCalls = <<>>
       /\ legacy.id # 0 \/ messageCalls = <<>>
       /\ Filled(OpenAI!Finalized, got, {"function"}, {"functionArgs"}, FALSE)
       /\ Filled(OpenAI!LegacyFinalized, got, {"function"}, {"functionArgs"}, TRUE)

OpenInv == OpenTypes /\ TextsKept /\ CallsKept /\ ArgsKept

-----------------------------------------------------------------------------

LEMMA LastExtended ==
  ASSUME NEW calls \in Seq(CallRecord), NEW c \in CallRecord, NEW d \in CallRecord, NEW p,
         d.id = c.id, d.args = Append(c.args, p)
  PROVE  Extended(Append(calls, c), Append(calls, d), p)
<1> DEFINE u == Append(calls, c)
<1> DEFINE w == Append(calls, d)
<1>1. /\ u # <<>> /\ Len(u) = Len(calls) + 1 /\ Len(w) = Len(calls) + 1 /\ Len(calls) \in Nat
      /\ u[Len(calls) + 1] = c /\ w[Len(calls) + 1] = d /\ w \in Seq(CallRecord)
      /\ \A i \in 1 .. Len(calls) : u[i] = calls[i] /\ w[i] = calls[i]
  OBVIOUS
<1> HIDE DEF u, w
<1>2. ASSUME NEW i \in 1 .. Len(u)
      PROVE  w[i].id = u[i].id /\ w[i].args = IF i = Len(u) THEN Append(u[i].args, p) ELSE u[i].args
  <2>1. i \in 1 .. Len(calls) \/ i = Len(u)  BY <1>1
  <2>2. \A j \in 1 .. Len(calls) : j # Len(u)  BY <1>1
  <2> QED BY <1>1, <2>1, <2>2
<1>3. Extended(u, w, p)  BY <1>1, <1>2 DEF Extended
<1> QED BY <1>3 DEF u, w

LEMMA SameIdsGrown ==
  ASSUME NEW calls \in Seq(CallRecord), NEW others \in Seq(CallRecord), SameIds(calls, others),
         NEW c \in CallRecord, NEW d \in CallRecord, d.id = c.id
  PROVE  SameIds(Append(calls, c), Append(others, d))
<1> DEFINE u == Append(calls, c)
<1> DEFINE w == Append(others, d)
<1>1. /\ Len(u) = Len(calls) + 1 /\ Len(w) = Len(calls) + 1 /\ Len(calls) \in Nat
      /\ u[Len(calls) + 1] = c /\ w[Len(calls) + 1] = d
      /\ \A i \in 1 .. Len(calls) : u[i] = calls[i] /\ w[i] = others[i]
      /\ \A i \in 1 .. Len(calls) : others[i].id = calls[i].id
  BY DEF SameIds
<1> HIDE DEF u, w
<1>2. ASSUME NEW i \in 1 .. Len(u) PROVE w[i].id = u[i].id
  <2>1. i \in 1 .. Len(calls) \/ i = Len(calls) + 1  BY <1>1
  <2> QED BY <1>1, <2>1
<1>3. SameIds(u, w)  BY <1>1, <1>2 DEF SameIds
<1> QED BY <1>3 DEF u, w

\* What an event does to the calls of the streaming converter.
LEMMA Streamed ==
  ASSUME OpenTypes, NEW e \in OpenAI!Event, e.kind # "finish", NEW p \in Nat \ {0},
         OpenAI!Stream(e, p)
  PROVE  LET F == OpenAI!Finalized
         IN /\ F \in Seq(CallRecord) /\ F' \in Seq(CallRecord)
            /\ currentTool' \in CallRecord /\ toolCalls' \in Seq(CallRecord)
            /\ e.kind \in Starts => F' = Append(F, OpenAI!Call(p, <<>>)) /\ currentTool'.id # 0
            /\ e.kind \in {"text", "blank"} => F' = F /\ UNCHANGED <<currentTool, toolCalls>>
            /\ e.kind = "nameless" => F' = F
            /\ e.kind \in {"args", "functionArgs"} =>
                 /\ currentTool'.id = currentTool.id /\ UNCHANGED toolCalls
                 /\ currentTool.id # 0 => Extended(F, F', p)
                 /\ currentTool.id = 0 => F' = F
            /\ e.kind = "text" =>
                 /\ chunks' = Append(chunks, [type |-> "text", role |-> ~firstChunkSent, payload |-> p])
                 /\ firstChunkSent' = TRUE
            /\ e.kind # "text" => UNCHANGED <<chunks, firstChunkSent>>
<1> DEFINE F == OpenAI!Finalized
<1>1. /\ currentTool \in CallRecord /\ toolCalls \in Seq(CallRecord)
      /\ currentTool.id \in Nat /\ currentTool.args \in Seq(Nat) /\ Len(toolCalls) \in Nat
  BY DEF OpenTypes, CallRecord
<1>2. /\ F = IF currentTool.id = 0 THEN toolCalls ELSE Append(toolCalls, currentTool)
      /\ F' = IF currentTool'.id = 0 THEN toolCalls' ELSE Append(toolCalls', currentTool')
  BY DEF OpenAI!Finalized
<1>3. F \in Seq(CallRecord)  BY <1>1, <1>2
<1> HIDE DEF F
<1>4. OpenAI!Call(p, <<>>) \in CallRecord /\ OpenAI!Call(0, <<>>) \in CallRecord
      /\ OpenAI!Call(p, <<>>).id = p /\ OpenAI!Call(0, <<>>).id = 0
  <2>1. <<>> \in Seq(Nat)  OBVIOUS
  <2> QED BY <2>1 DEF OpenAI!Call, CallRecord
<1>5. CASE e.kind = "text"
  <2>1. /\ chunks' = Append(chunks, [type |-> "text", role |-> ~firstChunkSent, payload |-> p])
        /\ firstChunkSent' = TRUE /\ UNCHANGED <<currentTool, toolCalls>>
    BY <1>5 DEF OpenAI!Stream, OpenAI!TextChunk
  <2>2. F' = F  BY <1>2, <2>1
  <2> QED BY <1>1, <1>3, <1>5, <2>1, <2>2 DEF Starts, F
<1>6. CASE e.kind = "blank"
  <2>1. UNCHANGED <<currentTool, toolCalls, chunks, firstChunkSent>>
    BY <1>6 DEF OpenAI!Stream, OpenAI!streaming
  <2>2. F' = F  BY <1>2, <2>1
  <2> QED BY <1>1, <1>3, <1>6, <2>1, <2>2 DEF Starts, F
<1>7. CASE e.kind \in {"tool", "function"}
  <2>1. /\ toolCalls' = F /\ currentTool' = OpenAI!Call(p, <<>>)
        /\ UNCHANGED <<chunks, firstChunkSent>>
    BY <1>7 DEF OpenAI!Stream, OpenAI!StartTool, F
  <2>2. F' = Append(F, OpenAI!Call(p, <<>>)) /\ currentTool'.id # 0  BY <1>2, <1>4, <2>1
  <2>3. F' \in Seq(CallRecord)  BY <1>3, <1>4, <2>2
  <2> QED BY <1>3, <1>4, <1>7, <2>1, <2>2, <2>3 DEF Starts, F
<1>8. CASE e.kind = "nameless"
  <2>1. /\ toolCalls' = F /\ currentTool' = OpenAI!Call(0, <<>>)
        /\ UNCHANGED <<chunks, firstChunkSent>>
    BY <1>8 DEF OpenAI!Stream, OpenAI!StartTool, F
  <2>2. F' = F  BY <1>2, <1>4, <2>1
  <2> QED BY <1>3, <1>4, <1>8, <2>1, <2>2 DEF Starts, F
<1>9. CASE e.kind \in {"args", "functionArgs"}
  <2>1. /\ currentTool' = IF currentTool.id = 0 THEN currentTool
                          ELSE [currentTool EXCEPT !.args = Append(@, p)]
        /\ UNCHANGED <<toolCalls, chunks, firstChunkSent>>
    BY <1>9 DEF OpenAI!Stream, OpenAI!AddToTool
  <2>2. CASE currentTool.id = 0
    <3>1. F' = F /\ currentTool' = currentTool  BY <1>2, <2>1, <2>2
    <3> QED BY <1>1, <1>3, <1>9, <2>1, <2>2, <3>1 DEF Starts, F
  <2>3. CASE currentTool.id # 0
    <3>1. /\ currentTool' \in CallRecord /\ currentTool'.id = currentTool.id
          /\ currentTool'.args = Append(currentTool.args, p)
      <4>1. Append(currentTool.args, p) \in Seq(Nat)  BY <1>1
      <4> QED BY <1>1, <2>1, <2>3, <4>1 DEF CallRecord
    <3>2. F = Append(toolCalls, currentTool) /\ F' = Append(toolCalls, currentTool')
      BY <1>2, <2>1, <2>3, <3>1
    <3>3. F' \in Seq(CallRecord)  BY <1>1, <3>1, <3>2
    <3>6. Extended(F, F', p)  BY <1>1, <3>1, <3>2, LastExtended
    <3> QED BY <1>1, <1>3, <1>9, <2>1, <2>3, <3>1, <3>3, <3>6 DEF Starts, F
  <2> QED BY <2>2, <2>3
<1>10. e.kind \in {"text", "blank", "tool", "nameless", "args", "function", "functionArgs"}
  BY DEF OpenAI!Event
<1> QED BY <1>5, <1>6, <1>7, <1>8, <1>9, <1>10

\* What an event does to the calls of the collecting converter.
LEMMA CollectedBy ==
  ASSUME OpenTypes, NEW e \in OpenAI!Event, e.kind # "finish", NEW p \in Nat \ {0},
         OpenAI!Collect(e, p)
  PROVE  LET F == OpenAI!LegacyFinalized
         IN /\ F \in Seq(CallRecord) /\ F' \in Seq(CallRecord)
            /\ legacy' \in CallRecord /\ messageCalls' \in Seq(CallRecord)
            /\ e.kind = "tool" => F' = Append(F, OpenAI!Call(p, <<>>)) /\ legacy'.id = 0
            /\ e.kind = "function" => F' = Append(F, OpenAI!Call(p, <<p>>)) /\ legacy'.id # 0
            /\ e.kind \in {"text", "blank"} => F' = F /\ UNCHANGED <<legacy, messageCalls>>
            /\ e.kind = "nameless" => F' = F
            /\ e.kind = "args" =>
                 /\ legacy'.id = legacy.id /\ SameIds(F, F')
                 /\ legacy.id = 0 => IF F = <<>> THEN F' = F ELSE Extended(F, F', p)
            /\ e.kind = "functionArgs" =>
                 /\ legacy'.id = legacy.id /\ UNCHANGED messageCalls /\ SameIds(F, F')
                 /\ legacy.id # 0 => Extended(F, F', p)
                 /\ legacy.id = 0 => F' = F
            /\ text' = IF e.kind = "text" THEN Append(text, p) ELSE text
<1> DEFINE F == OpenAI!LegacyFinalized
<1>1. /\ legacy \in CallRecord /\ messageCalls \in Seq(CallRecord)
      /\ legacy.id \in Nat /\ legacy.args \in Seq(Nat) /\ Len(messageCalls) \in Nat
  BY DEF OpenTypes, CallRecord
<1>2. /\ F = IF legacy.id = 0 THEN messageCalls ELSE Append(messageCalls, legacy)
      /\ F' = IF legacy'.id = 0 THEN messageCalls' ELSE Append(messageCalls', legacy')
  BY DEF OpenAI!LegacyFinalized
<1>3. F \in Seq(CallRecord)  BY <1>1, <1>2
<1>4. text' = IF e.kind = "text" THEN Append(text, p) ELSE text  BY DEF OpenAI!Collect
<1> HIDE DEF F
<1>5. /\ OpenAI!Call(p, <<>>) \in CallRecord /\ OpenAI!Call(p, <<p>>) \in CallRecord
      /\ OpenAI!Call(p, <<p>>).id = p
  <2>1. <<>> \in Seq(Nat) /\ <<p>> \in Seq(Nat)  OBVIOUS
  <2> QED BY <2>1 DEF OpenAI!Call, CallRecord
<1>6. OpenAI!LegacyCleared \in CallRecord /\ OpenAI!LegacyCleared.id = 0
  <2>1. <<>> \in Seq(Nat)  OBVIOUS
  <2> QED BY <1>1, <2>1 DEF OpenAI!LegacyCleared, OpenAI!NoCall, OpenAI!Call, CallRecord
<1>7. CASE e.kind \in {"text", "blank"}
  <2>1. UNCHANGED <<legacy, messageCalls>>  BY <1>7 DEF OpenAI!Collect
  <2>2. F' = F  BY <1>2, <2>1
  <2> QED BY <1>1, <1>3, <1>4, <1>7, <2>1, <2>2 DEF F
<1>8. CASE e.kind = "tool"
  <2>1. messageCalls' = Append(F, OpenAI!Call(p, <<>>)) /\ legacy' = OpenAI!LegacyCleared
    BY <1>8 DEF OpenAI!Collect, OpenAI!StartCall, F
  <2>2. F' = Append(F, OpenAI!Call(p, <<>>))  BY <1>2, <1>6, <2>1
  <2>3. F' \in Seq(CallRecord) /\ messageCalls' \in Seq(CallRecord)  BY <1>3, <1>5, <2>1, <2>2
  <2> QED BY <1>3, <1>4, <1>6, <1>8, <2>1, <2>2, <2>3 DEF F
<1>9. CASE e.kind = "nameless"
  <2>1. messageCalls' = F /\ legacy' = OpenAI!LegacyCleared
    BY <1>9 DEF OpenAI!Collect, F
  <2>2. F' = F  BY <1>2, <1>6, <2>1
  <2> QED BY <1>3, <1>4, <1>6, <1>9, <2>1, <2>2 DEF F
<1>10. CASE e.kind = "function"
  <2>1. messageCalls' = F /\ legacy' = OpenAI!Call(p, <<p>>)
    BY <1>10 DEF OpenAI!Collect, OpenAI!StartLegacy, F
  <2>2. F' = Append(F, OpenAI!Call(p, <<p>>)) /\ legacy'.id # 0  BY <1>2, <1>5, <2>1
  <2>3. F' \in Seq(CallRecord)  BY <1>3, <1>5, <2>2
  <2> QED BY <1>3, <1>4, <1>5, <1>10, <2>1, <2>2, <2>3 DEF F
<1>11. CASE e.kind = "args"
  <2>1. CASE messageCalls # <<>>
    <3> DEFINE last == messageCalls[Len(messageCalls)]
    <3> DEFINE longer == [last EXCEPT !.args = Append(@, p)]
    <3>1. messageCalls' = [messageCalls EXCEPT ![Len(messageCalls)].args = Append(@, p)]
          /\ UNCHANGED legacy
      BY <1>11, <2>1 DEF OpenAI!Collect, OpenAI!AddToCall
    <3>2. Len(messageCalls) \in 1 .. Len(messageCalls)  BY <1>1, <2>1
    <3>3. last \in CallRecord /\ last.args \in Seq(Nat)
      <4>1. \A n \in 1 .. Len(messageCalls) : messageCalls[n] \in CallRecord  BY <1>1
      <4> QED BY <3>2, <4>1 DEF CallRecord
    <3>4. longer \in CallRecord /\ longer.id = last.id /\ longer.args = Append(last.args, p)
      <4>1. Append(last.args, p) \in Seq(Nat)  BY <3>3
      <4> QED BY <3>3, <4>1 DEF CallRecord
    <3>5. messageCalls' = [messageCalls EXCEPT ![Len(messageCalls)] = longer]
      BY <3>1
    <3> HIDE DEF last, longer
    <3>6. /\ messageCalls' \in Seq(CallRecord) /\ Len(messageCalls') = Len(messageCalls)
          /\ \A i \in 1 .. Len(messageCalls) :
               messageCalls'[i] = IF i = Len(messageCalls) THEN longer ELSE messageCalls[i]
      BY <1>1, <3>2, <3>4, <3>5
    <3>7. Extended(messageCalls, messageCalls', p)
      BY <2>1, <3>4, <3>6 DEF Extended, last
    <3>8. SameIds(messageCalls, messageCalls')  BY <3>7 DEF Extended, SameIds
    <3>9. CASE legacy.id = 0
      <4>1. F = messageCalls /\ F' = messageCalls'  BY <1>2, <3>1, <3>9
      <4> QED BY <1>1, <1>3, <1>4, <1>11, <2>1, <3>1, <3>6, <3>7, <3>8, <4>1 DEF F
    <3>10. CASE legacy.id # 0
      <4>1. F = Append(messageCalls, legacy) /\ F' = Append(messageCalls', legacy)
        BY <1>2, <3>1, <3>10
      <4>2. F' \in Seq(CallRecord)  BY <1>1, <3>6, <4>1
      <4>3. SameIds(F, F')  BY <1>1, <3>6, <3>8, <4>1, SameIdsGrown
      <4> QED BY <1>1, <1>3, <1>4, <1>11, <3>1, <3>6, <3>10, <4>2, <4>3 DEF F
    <3> QED BY <3>9, <3>10
  <2>2. CASE messageCalls = <<>>
    <3>1. legacy' = [legacy EXCEPT !.args = Append(@, p)] /\ UNCHANGED messageCalls
      BY <1>11, <2>2 DEF OpenAI!Collect, OpenAI!AddToCall
    <3>2. legacy' \in CallRecord /\ legacy'.id = legacy.id
      <4>1. Append(legacy.args, p) \in Seq(Nat)  BY <1>1
      <4> QED BY <1>1, <3>1, <4>1 DEF CallRecord
    <3>3. SameIds(messageCalls, messageCalls)  BY DEF SameIds
    <3>4. CASE legacy.id = 0
      <4>1. F = <<>> /\ F' = F  BY <1>2, <2>2, <3>1, <3>2, <3>4
      <4>2. SameIds(F, F')  BY <4>1 DEF SameIds
      <4> QED BY <1>1, <1>3, <1>4, <1>11, <3>1, <3>2, <4>1, <4>2 DEF F
    <3>5. CASE legacy.id # 0
      <4>1. F = Append(messageCalls, legacy) /\ F' = Append(messageCalls, legacy')
        BY <1>2, <3>1, <3>2, <3>5
      <4>2. F' \in Seq(CallRecord)  BY <1>1, <3>2, <4>1
      <4>3. SameIds(F, F')  BY <1>1, <3>2, <3>3, <4>1, SameIdsGrown
      <4> QED BY <1>1, <1>3, <1>4, <1>11, <3>1, <3>2, <3>5, <4>2, <4>3 DEF F
    <3> QED BY <3>4, <3>5
  <2> QED BY <2>1, <2>2
<1>12. CASE e.kind = "functionArgs"
  <2>1. /\ legacy' = IF legacy.id = 0 THEN legacy ELSE [legacy EXCEPT !.args = Append(@, p)]
        /\ UNCHANGED messageCalls
    BY <1>12 DEF OpenAI!Collect, OpenAI!AddToLegacy
  <2>2. CASE legacy.id = 0
    <3>1. F' = F /\ legacy' = legacy  BY <1>2, <2>1, <2>2
    <3>2. SameIds(F, F')  BY <3>1 DEF SameIds
    <3> QED BY <1>1, <1>3, <1>4, <1>12, <2>1, <2>2, <3>1, <3>2 DEF F
  <2>3. CASE legacy.id # 0
    <3>1. /\ legacy' \in CallRecord /\ legacy'.id = legacy.id
          /\ legacy'.args = Append(legacy.args, p)
      <4>1. Append(legacy.args, p) \in Seq(Nat)  BY <1>1
      <4> QED BY <1>1, <2>1, <2>3, <4>1 DEF CallRecord
    <3>2. F = Append(messageCalls, legacy) /\ F' = Append(messageCalls, legacy')
      BY <1>2, <2>1, <2>3, <3>1
    <3>3. F' \in Seq(CallRecord)  BY <1>1, <3>1, <3>2
    <3>4. Extended(F, F', p)  BY <1>1, <3>1, <3>2, LastExtended
    <3>5. SameIds(F, F')  BY <3>4 DEF Extended, SameIds
    <3> QED BY <1>1, <1>3, <1>4, <1>12, <2>1, <2>3, <3>1, <3>3, <3>4, <3>5 DEF F
  <2> QED BY <2>2, <2>3
<1>13. e.kind \in {"text", "blank", "tool", "nameless", "args", "function", "functionArgs"}
  BY DEF OpenAI!Event
<1> QED BY <1>7, <1>8, <1>9, <1>10, <1>11, <1>12, <1>13

LEMMA PositionsGrown ==
  ASSUME NEW g \in Seq(OpenAI!Event), NEW e \in OpenAI!Event, NEW kinds
  PROVE  LET before == OpenAI!PositionsOf(g, kinds)
             after == OpenAI!PositionsOf(Append(g, e), kinds)
         IN /\ before \in SUBSET Nat /\ \A x \in before : x < Len(g) + 1
            /\ e.kind \in kinds => after = before \cup {Len(g) + 1}
            /\ e.kind \notin kinds => after = before
<1> DEFINE h == Append(g, e)
<1>1. /\ DOMAIN g = 1 .. Len(g) /\ DOMAIN h = 1 .. Len(g) + 1 /\ Len(g) \in Nat
      /\ h[Len(g) + 1] = e /\ \A i \in 1 .. Len(g) : h[i] = g[i]
  OBVIOUS
<1> HIDE DEF h
<1>2. \A i \in DOMAIN h : i \in DOMAIN g \/ i = Len(g) + 1  BY <1>1
<1>3. DOMAIN g \subseteq DOMAIN h /\ Len(g) + 1 \in DOMAIN h /\ \A i \in DOMAIN g : h[i] = g[i]
  BY <1>1
<1>4. OpenAI!PositionsOf(g, kinds) \in SUBSET Nat
      /\ \A x \in OpenAI!PositionsOf(g, kinds) : x < Len(g) + 1
  BY <1>1 DEF OpenAI!PositionsOf
<1>5. e.kind \in kinds => OpenAI!PositionsOf(h, kinds) = OpenAI!PositionsOf(g, kinds) \cup {Len(g) + 1}
  BY <1>1, <1>2, <1>3 DEF OpenAI!PositionsOf
<1>6. e.kind \notin kinds => OpenAI!PositionsOf(h, kinds) = OpenAI!PositionsOf(g, kinds)
  BY <1>1, <1>2, <1>3 DEF OpenAI!PositionsOf
<1> QED BY <1>4, <1>5, <1>6 DEF h

LEMMA ReceiveStep ==
  ASSUME OpenInv, NEW e \in OpenAI!Event, OpenAI!Receive(e)
  PROVE  OpenInv'
<1> DEFINE p == Len(got) + 1
<1> DEFINE F == OpenAI!Finalized
<1> DEFINE G == OpenAI!LegacyFinalized
<1>1. OpenTypes /\ TextsKept /\ CallsKept /\ ArgsKept  BY DEF OpenInv
<1>2. /\ got \in Seq(OpenAI!Event) /\ got' = Append(got, e) /\ got' \in Seq(OpenAI!Event)
      /\ Len(got) \in Nat /\ Len(got') = p /\ p \in Nat \ {0} /\ e.kind # "finish"
      /\ OpenAI!Stream(e, p) /\ OpenAI!Collect(e, p)
  BY <1>1 DEF OpenTypes, OpenAI!Receive
<1> HIDE DEF p
<1>3. /\ F \in Seq(CallRecord) /\ F' \in Seq(CallRecord)
      /\ currentTool' \in CallRecord /\ toolCalls' \in Seq(CallRecord)
      /\ e.kind \in Starts => F' = Append(F, OpenAI!Call(p, <<>>)) /\ currentTool'.id # 0
      /\ e.kind \in {"text", "blank"} => F' = F /\ UNCHANGED <<currentTool, toolCalls>>
      /\ e.kind = "nameless" => F' = F
      /\ e.kind \in {"args", "functionArgs"} =>
           /\ currentTool'.id = currentTool.id /\ UNCHANGED toolCalls
           /\ currentTool.id # 0 => Extended(F, F', p)
           /\ currentTool.id = 0 => F' = F
      /\ e.kind = "text" =>
           /\ chunks' = Append(chunks, [type |-> "text", role |-> ~firstChunkSent, payload |-> p])
           /\ firstChunkSent' = TRUE
      /\ e.kind # "text" => UNCHANGED <<chunks, firstChunkSent>>
  BY <1>1, <1>2, Streamed
<1>4. /\ G \in Seq(CallRecord) /\ G' \in Seq(CallRecord)
      /\ legacy' \in CallRecord /\ messageCalls' \in Seq(CallRecord)
      /\ e.kind = "tool" => G' = Append(G, OpenAI!Call(p, <<>>)) /\ legacy'.id = 0
      /\ e.kind = "function" => G' = Append(G, OpenAI!Call(p, <<p>>)) /\ legacy'.id # 0
      /\ e.kind \in {"text", "blank"} => G' = G /\ UNCHANGED <<legacy, messageCalls>>
      /\ e.kind = "nameless" => G' = G
      /\ e.kind = "args" =>
           /\ legacy'.id = legacy.id /\ SameIds(G, G')
           /\ legacy.id = 0 => IF G = <<>> THEN G' = G ELSE Extended(G, G', p)
      /\ e.kind = "functionArgs" =>
           /\ legacy'.id = legacy.id /\ UNCHANGED messageCalls /\ SameIds(G, G')
           /\ legacy.id # 0 => Extended(G, G', p)
           /\ legacy.id = 0 => G' = G
      /\ text' = IF e.kind = "text" THEN Append(text, p) ELSE text
  BY <1>1, <1>2, CollectedBy
<1>5. e.kind \in {"text", "blank", "tool", "nameless", "args", "function", "functionArgs"}
  BY <1>2 DEF OpenAI!Event
<1>6. /\ OpenAI!Call(p, <<>>) \in CallRecord /\ OpenAI!Call(p, <<p>>) \in CallRecord
      /\ OpenAI!Call(p, <<>>).id = p /\ OpenAI!Call(p, <<p>>).id = p
      /\ OpenAI!Call(p, <<>>).args = <<>> /\ OpenAI!Call(p, <<p>>).args = <<p>>
  <2>1. <<>> \in Seq(Nat) /\ <<p>> \in Seq(Nat)  BY <1>2
  <2> QED BY <1>2, <2>1 DEF OpenAI!Call, CallRecord
<1> HIDE DEF F, G
<1>7. OpenTypes'
  <2>1. text \in Seq(Nat) /\ chunks \in Seq(TextChunks)  BY <1>1 DEF OpenTypes
  <2>2. [type |-> "text", role |-> ~firstChunkSent, payload |-> p] \in TextChunks
    BY <1>2 DEF TextChunks
  <2>3. text' \in Seq(Nat)  BY <1>2, <1>4, <2>1
  <2>4. chunks' \in Seq(TextChunks)
    <3> DEFINE c == [type |-> "text", role |-> ~firstChunkSent, payload |-> p]
    <3> HIDE DEF c
    <3>1. e.kind = "text" => chunks' = Append(chunks, c)  BY <1>3 DEF c
    <3>2. c \in TextChunks  BY <2>2 DEF c
    <3>3. e.kind # "text" => chunks' = chunks  BY <1>3
    <3>4. Append(chunks, c) \in Seq(TextChunks)  BY <2>1, <3>2
    <3> QED BY <2>1, <3>1, <3>3, <3>4
  <2> QED BY <1>2, <1>3, <1>4, <2>3, <2>4 DEF OpenTypes
<1>8. TextsKept'
  <2>1. text \in Seq(Nat) /\ chunks \in Seq(TextChunks) /\ Len(text) \in Nat
    BY <1>1 DEF OpenTypes
  <2>2. /\ InOrder(text, OpenAI!Texts(got)) /\ Len(chunks) = Len(text)
        /\ \A n \in 1 .. Len(text) : chunks[n].payload = text[n] /\ (chunks[n].role <=> n = 1)
        /\ firstChunkSent <=> text # <<>>
    BY <1>1 DEF TextsKept
  <2>3. CASE e.kind = "text"
    <3> DEFINE c == [type |-> "text", role |-> ~firstChunkSent, payload |-> p]
    <3>1. c.payload = p /\ c.role = ~firstChunkSent  OBVIOUS
    <3> HIDE DEF c
    <3>2. text' = Append(text, p) /\ chunks' = Append(chunks, c) /\ firstChunkSent' = TRUE
      BY <1>3, <1>4, <2>3 DEF c
    <3>3. /\ Len(text') = Len(text) + 1 /\ Len(chunks') = Len(text) + 1
          /\ text'[Len(text) + 1] = p /\ chunks'[Len(text) + 1] = c
          /\ \A n \in 1 .. Len(text) : text'[n] = text[n] /\ chunks'[n] = chunks[n]
      BY <1>2, <2>1, <2>2, <3>2
    <3>4. InOrder(text', OpenAI!Texts(got'))
      <4>1. /\ OpenAI!Texts(got') = OpenAI!Texts(got) \cup {p}
            /\ OpenAI!Texts(got) \in SUBSET Nat /\ \A x \in OpenAI!Texts(got) : x < p
        BY <1>2, <2>3, PositionsGrown DEF OpenAI!Texts, p
      <4> QED BY <1>2, <2>1, <2>2, <3>2, <4>1, Listed
    <3>5. text' # <<>>  BY <2>1, <3>2
    <3>6. Len(text) + 1 = 1 <=> text = <<>>  BY <2>1
    <3>7. ASSUME NEW n \in 1 .. Len(text')
          PROVE  chunks'[n].payload = text'[n] /\ (chunks'[n].role <=> n = 1)
      <4>1. CASE n \in 1 .. Len(text)  BY <2>2, <3>3, <4>1
      <4>2. CASE n = Len(text) + 1  BY <2>2, <3>1, <3>3, <3>6, <4>2
      <4> QED BY <2>1, <3>3, <4>1, <4>2
    <3> QED BY <3>2, <3>3, <3>4, <3>5, <3>7 DEF TextsKept
  <2>4. CASE e.kind # "text"
    <3>1. UNCHANGED <<text, chunks, firstChunkSent>>  BY <1>3, <1>4, <2>4
    <3>2. OpenAI!Texts(got') = OpenAI!Texts(got)
      BY <1>2, <2>4, PositionsGrown DEF OpenAI!Texts
    <3> QED BY <2>2, <3>1, <3>2 DEF TextsKept
  <2> QED BY <2>3, <2>4
<1>9. CallsKept'
  <2> DEFINE S == OpenAI!Calls(got, Starts)
  <2> DEFINE T == OpenAI!Calls(got', Starts)
  <2>1. Listing(F, S) /\ Listing(G, S)  BY <1>1 DEF CallsKept, F, G
  <2>2. /\ S \in SUBSET Nat /\ \A x \in S : x < p
        /\ e.kind \in Starts => T = S \cup {p}
        /\ e.kind \notin Starts => T = S
    BY <1>2, PositionsGrown DEF OpenAI!Calls, p
  <2> HIDE DEF S, T
  <2>3. Listing(F', T)
    <3>1. CASE e.kind \in Starts
      <4>1. \A x \in S : x < OpenAI!Call(p, <<>>).id  BY <1>6, <2>2
      <4>2. Listing(Append(F, OpenAI!Call(p, <<>>)), S \cup {OpenAI!Call(p, <<>>).id})
        BY <1>3, <1>6, <2>1, <2>2, <4>1, ListingGrown
      <4> QED BY <1>3, <1>6, <2>2, <3>1, <4>2
    <3>2. CASE e.kind \notin Starts
      <4>1. F' = F \/ Extended(F, F', p)  BY <1>3, <1>5, <3>2 DEF Starts
      <4>2. SameIds(F, F')  BY <4>1 DEF SameIds, Extended
      <4> QED BY <1>3, <2>1, <2>2, <3>2, <4>2, ListingKept
    <3> QED BY <3>1, <3>2
  <2>4. Listing(G', T)
    <3>1. CASE e.kind = "tool"
      <4>1. \A x \in S : x < OpenAI!Call(p, <<>>).id  BY <1>6, <2>2
      <4>2. Listing(Append(G, OpenAI!Call(p, <<>>)), S \cup {OpenAI!Call(p, <<>>).id})
        BY <1>4, <1>6, <2>1, <2>2, <4>1, ListingGrown
      <4>3. e.kind \in Starts  BY <3>1 DEF Starts
      <4> QED BY <1>4, <1>6, <2>2, <3>1, <4>2, <4>3
    <3>2. CASE e.kind = "function"
      <4>1. \A x \in S : x < OpenAI!Call(p, <<p>>).id  BY <1>6, <2>2
      <4>2. Listing(Append(G, OpenAI!Call(p, <<p>>)), S \cup {OpenAI!Call(p, <<p>>).id})
        BY <1>4, <1>6, <2>1, <2>2, <4>1, ListingGrown
      <4>3. e.kind \in Starts  BY <3>2 DEF Starts
      <4> QED BY <1>4, <1>6, <2>2, <3>2, <4>2, <4>3
    <3>3. CASE e.kind \notin Starts
      <4>1. G' = G \/ SameIds(G, G')  BY <1>4, <1>5, <3>3 DEF Starts
      <4>2. SameIds(G, G')  BY <4>1 DEF SameIds
      <4> QED BY <1>4, <2>1, <2>2, <3>3, <4>2, ListingKept
    <3> QED BY <3>1, <3>2, <3>3 DEF Starts
  <2> QED BY <2>3, <2>4 DEF CallsKept, F, G, T
<1>10. \A kinds : OnlyIn(got', kinds) => OnlyIn(got, kinds) /\ e.kind \in {"text", "blank"} \cup kinds
  <2>1. /\ DOMAIN got \subseteq DOMAIN got' /\ \A i \in DOMAIN got : got'[i] = got[i]
        /\ p \in DOMAIN got' /\ got'[p] = e
    BY <1>2 DEF p
  <2> QED BY <2>1 DEF OnlyIn
<1>11. OnlyIn(got', {"tool", "args"}) =>
         /\ currentTool'.id # 0 \/ toolCalls' = <<>>
         /\ legacy'.id = 0
         /\ Filled(F', got', {"tool"}, {"args"}, FALSE)
         /\ Filled(G', got', {"tool"}, {"args"}, FALSE)
  <2> HAVE OnlyIn(got', {"tool", "args"})
  <2>1. /\ currentTool.id # 0 \/ toolCalls = <<>>
        /\ legacy.id = 0
        /\ Filled(F, got, {"tool"}, {"args"}, FALSE) /\ Filled(G, got, {"tool"}, {"args"}, FALSE)
    BY <1>1, <1>10 DEF ArgsKept, F, G
  <2>2. {"tool"} \cap {"args"} = {}  OBVIOUS
  <2>3. CASE e.kind \in {"text", "blank"}
    <3>1. F' = F /\ G' = G /\ UNCHANGED <<currentTool, toolCalls, legacy>>  BY <1>3, <1>4, <2>3
    <3>2. e.kind \notin {"tool"} /\ e.kind \notin {"args"}  BY <2>3
    <3>3. /\ Filled(F, got', {"tool"}, {"args"}, FALSE) /\ Filled(G, got', {"tool"}, {"args"}, FALSE)
      BY <1>2, <1>3, <1>4, <2>1, <2>2, <3>2, FilledIdle
    <3> QED BY <2>1, <3>1, <3>3
  <2>4. CASE e.kind = "tool"
    <3>1. /\ F' = Append(F, OpenAI!Call(p, <<>>)) /\ currentTool'.id # 0
          /\ G' = Append(G, OpenAI!Call(p, <<>>)) /\ legacy'.id = 0
      BY <1>3, <1>4, <2>4 DEF Starts
    <3>2. /\ Filled(F', got', {"tool"}, {"args"}, FALSE)
          /\ Filled(G', got', {"tool"}, {"args"}, FALSE)
      <4>1. e.kind \in {"tool"}  BY <2>4
      <4> QED BY <1>2, <1>3, <1>4, <1>6, <2>1, <2>2, <3>1, <4>1, FilledStart DEF p
    <3> QED BY <3>1, <3>2
  <2>5. CASE e.kind = "args"
    <3>1. /\ currentTool'.id = currentTool.id /\ toolCalls' = toolCalls /\ legacy'.id = 0
          /\ (F' = F /\ F = <<>>) \/ Extended(F, F', p)
          /\ (G' = G /\ G = <<>>) \/ Extended(G, G', p)
      <4>1. currentTool.id = 0 => F = <<>>  BY <2>1 DEF F, OpenAI!Finalized
      <4> QED BY <1>3, <1>4, <2>1, <2>5, <4>1
    <3>2. e.kind \in {"args"} /\ p = Len(got) + 1  BY <2>5 DEF p
    <3>3. Filled(<<>>, got', {"tool"}, {"args"}, FALSE)
      <4>1. DOMAIN <<>> = {}  OBVIOUS
      <4> QED BY <4>1 DEF Filled
    <3>4. Filled(F', got', {"tool"}, {"args"}, FALSE)
      <4>1. CASE Extended(F, F', p)  BY <1>2, <1>3, <2>1, <2>2, <3>2, <4>1, FilledPiece
      <4> QED BY <3>1, <3>3, <4>1
    <3>5. Filled(G', got', {"tool"}, {"args"}, FALSE)
      <4>1. CASE Extended(G, G', p)  BY <1>2, <1>4, <2>1, <2>2, <3>2, <4>1, FilledPiece
      <4> QED BY <3>1, <3>3, <4>1
    <3> QED BY <2>1, <3>1, <3>4, <3>5
  <2>6. e.kind \in {"text", "blank"} \cup {"tool", "args"}  BY <1>10
  <2> QED BY <2>3, <2>4, <2>5, <2>6
<1>12. OnlyIn(got', {"function", "functionArgs"}) =>
         /\ currentTool'.id # 0 \/ toolCalls' = <<>>
         /\ legacy'.id # 0 \/ messageCalls' = <<>>
         /\ Filled(F', got', {"function"}, {"functionArgs"}, FALSE)
         /\ Filled(G', got', {"function"}, {"functionArgs"}, TRUE)
  <2> HAVE OnlyIn(got', {"function", "functionArgs"})
  <2>1. /\ currentTool.id # 0 \/ toolCalls = <<>>
        /\ legacy.id # 0 \/ messageCalls = <<>>
        /\ Filled(F, got, {"function"}, {"functionArgs"}, FALSE)
        /\ Filled(G, got, {"function"}, {"functionArgs"}, TRUE)
    BY <1>1, <1>10 DEF ArgsKept, F, G
  <2>2. {"function"} \cap {"functionArgs"} = {}  OBVIOUS
  <2>3. CASE e.kind \in {"text", "blank"}
    <3>1. F' = F /\ G' = G /\ UNCHANGED <<currentTool, toolCalls, legacy, messageCalls>>
      BY <1>3, <1>4, <2>3
    <3>2. e.kind \notin {"function"} /\ e.kind \notin {"functionArgs"}  BY <2>3
    <3>3. /\ Filled(F, got', {"function"}, {"functionArgs"}, FALSE)
          /\ Filled(G, got', {"function"}, {"functionArgs"}, TRUE)
      BY <1>2, <1>3, <1>4, <2>1, <2>2, <3>2, FilledIdle
    <3> QED BY <2>1, <3>1, <3>3
  <2>4. CASE e.kind = "function"
    <3>1. /\ F' = Append(F, OpenAI!Call(p, <<>>)) /\ currentTool'.id # 0
          /\ G' = Append(G, OpenAI!Call(p, <<p>>)) /\ legacy'.id # 0
      BY <1>3, <1>4, <2>4 DEF Starts
    <3>2. e.kind \in {"function"} /\ p = Len(got) + 1  BY <2>4 DEF p
    <3>3. Filled(F', got', {"function"}, {"functionArgs"}, FALSE)
      BY <1>2, <1>3, <1>6, <2>1, <2>2, <3>1, <3>2, FilledStart
    <3>4. Filled(G', got', {"function"}, {"functionArgs"}, TRUE)
      BY <1>2, <1>4, <1>6, <2>1, <2>2, <3>1, <3>2, FilledStart
    <3> QED BY <3>1, <3>3, <3>4
  <2>5. CASE e.kind = "functionArgs"
    <3>1. /\ currentTool'.id = currentTool.id /\ toolCalls' = toolCalls
          /\ legacy'.id = legacy.id /\ messageCalls' = messageCalls
          /\ (F' = F /\ F = <<>>) \/ Extended(F, F', p)
          /\ (G' = G /\ G = <<>>) \/ Extended(G, G', p)
      <4>1. currentTool.id = 0 => F = <<>>  BY <2>1 DEF F, OpenAI!Finalized
      <4>2. legacy.id = 0 => G = <<>>  BY <2>1 DEF G, OpenAI!LegacyFinalized
      <4> QED BY <1>3, <1>4, <2>1, <2>5, <4>1, <4>2
    <3>2. e.kind \in {"functionArgs"} /\ p = Len(got) + 1  BY <2>5 DEF p
    <3>3. \A with : Filled(<<>>, got', {"function"}, {"functionArgs"}, with)
      <4>1. DOMAIN <<>> = {}  OBVIOUS
      <4> QED BY <4>1 DEF Filled
    <3>4. Filled(F', got', {"function"}, {"functionArgs"}, FALSE)
      <4>1. CASE Extended(F, F', p)  BY <1>2, <1>3, <2>1, <2>2, <3>2, <4>1, FilledPiece
      <4> QED BY <3>1, <3>3, <4>1
    <3>5. Filled(G', got', {"function"}, {"functionArgs"}, TRUE)
      <4>1. CASE Extended(G, G', p)  BY <1>2, <1>4, <2>1, <2>2, <3>2, <4>1, FilledPiece
      <4> QED BY <3>1, <3>3, <4>1
    <3> QED BY <2>1, <3>1, <3>4, <3>5
  <2>6. e.kind \in {"text", "blank"} \cup {"function", "functionArgs"}  BY <1>10
  <2> QED BY <2>3, <2>4, <2>5, <2>6
<1>13. ArgsKept'  BY <1>11, <1>12 DEF ArgsKept, F, G
<1> QED BY <1>7, <1>8, <1>9, <1>13 DEF OpenInv

\* The chunks of a stream that ended well: the texts, the calls if there are
\* any, the finish reason and the end marker.
LEMMA ChunksAtEnd ==
  ASSUME OpenInv, NEW reason, OpenAI!SendToolCallsAndFinish(reason)
  PROVE  LET F == OpenAI!Finalized
             l == Len(chunks)
             last == Len(chunks')
         IN /\ DOMAIN chunks' = 1 .. last /\ l \in Nat
            /\ last = IF F = <<>> THEN l + 2 ELSE l + 3
            /\ \A n \in 1 .. l : chunks'[n] = chunks[n]
            /\ F # <<>> => chunks'[l + 1] = OpenAI!CallsChunk(F)
            /\ chunks'[last - 1] = OpenAI!FinishChunk(reason)
            /\ chunks'[last] = OpenAI!DoneChunk
<1> DEFINE F == OpenAI!Finalized
<1> DEFINE a == OpenAI!CallsChunk(F)
<1> DEFINE b == OpenAI!FinishChunk(reason)
<1> DEFINE c == OpenAI!DoneChunk
<1> DEFINE U == TextChunks \cup {a, b, c}
<1>1. chunks' = (chunks \o (IF F = <<>> THEN <<>> ELSE <<a>>)) \o <<b, c>>
  BY DEF OpenAI!SendToolCallsAndFinish
<1>2. chunks \in Seq(TextChunks)  BY DEF OpenInv, OpenTypes
<1> HIDE DEF a, b, c, F
<1>3. chunks \in Seq(U) /\ <<a>> \in Seq(U) /\ <<b, c>> \in Seq(U) /\ <<>> \in Seq(U)
  <2>1. TextChunks \subseteq U /\ a \in U /\ b \in U /\ c \in U  OBVIOUS
  <2> HIDE DEF U
  <2> QED BY <1>2, <2>1
<1> HIDE DEF U
<1>4. Len(chunks) \in Nat /\ Len(<<b, c>>) = 2 /\ <<b, c>>[1] = b /\ <<b, c>>[2] = c
      /\ Len(<<a>>) = 1 /\ <<a>>[1] = a
  BY <1>3
<1>5. CASE F = <<>>
  <2>1. chunks' = chunks \o <<b, c>>  BY <1>1, <1>3, <1>5, ConcatEmptySeq
  <2>2. /\ Len(chunks') = Len(chunks) + 2 /\ DOMAIN chunks' = 1 .. Len(chunks) + 2
        /\ \A n \in 1 .. Len(chunks) : chunks'[n] = chunks[n]
        /\ chunks'[Len(chunks) + 1] = b /\ chunks'[Len(chunks) + 2] = c
    BY <1>3, <1>4, <2>1
  <2> QED BY <1>4, <1>5, <2>2 DEF a, b, c, F
<1>6. CASE F # <<>>
  <2> DEFINE u == chunks \o <<a>>
  <2>1. chunks' = u \o <<b, c>>  BY <1>1, <1>6
  <2>2. /\ u \in Seq(U) /\ Len(u) = Len(chunks) + 1 /\ u[Len(chunks) + 1] = a
        /\ \A n \in 1 .. Len(chunks) : u[n] = chunks[n]
    BY <1>3, <1>4
  <2> HIDE DEF u
  <2>3. /\ Len(chunks') = Len(u) + 2 /\ DOMAIN chunks' = 1 .. Len(u) + 2
        /\ \A n \in 1 .. Len(u) : chunks'[n] = u[n]
        /\ chunks'[Len(u) + 1] = b /\ chunks'[Len(u) + 2] = c
    BY <1>3, <1>4, <2>1, <2>2
  <2>4. /\ Len(chunks') = Len(chunks) + 3 /\ DOMAIN chunks' = 1 .. Len(chunks) + 3
        /\ \A n \in 1 .. Len(chunks) : chunks'[n] = chunks[n]
        /\ chunks'[Len(chunks) + 1] = a
        /\ chunks'[Len(chunks) + 2] = b /\ chunks'[Len(chunks) + 3] = c
    BY <1>4, <2>2, <2>3
  <2> QED BY <1>4, <1>6, <2>4 DEF a, b, c, F
<1> QED BY <1>5, <1>6

\* The definitions used in the proofs are those of the model.
LEMMA SameLists ==
  /\ \A s, S : InOrder(s, S) => OpenAI!Lists(s, S)
  /\ \A calls, S : Listing(calls, S) => OpenAI!Lists(OpenAI!CallIds(calls), S)
  /\ \A g, id, ends, pieces : OpenAI!Pieces(g, id, ends, pieces) = PiecesIn(g, id, ends, pieces)
<1>1. ASSUME NEW calls, NEW S, Listing(calls, S)
      PROVE  OpenAI!Lists(OpenAI!CallIds(calls), S)
  <2> DEFINE ids == OpenAI!CallIds(calls)
  <2>1. DOMAIN ids = DOMAIN calls /\ \A i \in DOMAIN calls : ids[i] = calls[i].id
    BY DEF OpenAI!CallIds
  <2> HIDE DEF ids
  <2>2. OpenAI!Lists(ids, S)
    BY <1>1, <2>1 DEF Listing, OpenAI!Lists, OpenAI!ToSet
  <2> QED BY <2>2 DEF ids
<1> QED BY <1>1 DEF InOrder, OpenAI!Lists, OpenAI!ToSet, OpenAI!Pieces, PiecesIn

Answered == OpenAI!DoneMeansComplete /\ OpenAI!SameAnswer /\ OpenAI!ArgsComplete

LEMMA CompleteStep ==
  ASSUME OpenInv, NEW e \in OpenAI!Event, OpenAI!Complete(e)
  PROVE  Answered'
<1> DEFINE F == OpenAI!Finalized
<1> DEFINE G == OpenAI!LegacyFinalized
<1> DEFINE S == OpenAI!Calls(got, Starts)
<1> DEFINE last == Len(chunks')
<1>1. /\ ended' = "complete" /\ got' = got /\ upstreamFinishReason' = e.reason
      /\ OpenAI!SendToolCallsAndFinish(OpenAI!FinishReason(e.reason, F))
      /\ message' = [text |-> text, calls |-> G, finish |-> OpenAI!FinishReason(e.reason, G)]
  BY DEF OpenAI!Complete, OpenAI!Answer
<1>2. OpenTypes /\ TextsKept /\ CallsKept /\ ArgsKept  BY DEF OpenInv
<1>3. /\ message'.text = text /\ message'.calls = G
      /\ message'.finish = OpenAI!FinishReason(e.reason, G)
  BY <1>1
<1>4. Listing(F, S) /\ Listing(G, S)  BY <1>2 DEF CallsKept
<1>5. F \in Seq(CallRecord) /\ G \in Seq(CallRecord)
  BY <1>2 DEF OpenTypes, OpenAI!Finalized, OpenAI!LegacyFinalized
<1> DEFINE calls == OpenAI!CallsChunk(F)
<1> DEFINE finish == OpenAI!FinishChunk(OpenAI!FinishReason(e.reason, F))
<1> DEFINE done == OpenAI!DoneChunk
<1>6. /\ DOMAIN chunks' = 1 .. last /\ Len(chunks) \in Nat
      /\ last = IF F = <<>> THEN Len(chunks) + 2 ELSE Len(chunks) + 3
      /\ \A n \in 1 .. Len(chunks) : chunks'[n] = chunks[n]
      /\ F # <<>> => chunks'[Len(chunks) + 1] = calls
      /\ chunks'[last - 1] = finish /\ chunks'[last] = done
  BY <1>1, ChunksAtEnd
<1>7. /\ calls.type = "calls" /\ calls.payload = F /\ calls.role = ~firstChunkSent
      /\ finish.type = "finish" /\ finish.payload = OpenAI!FinishReason(e.reason, F)
      /\ done.type = "done"
  BY DEF OpenAI!CallsChunk, OpenAI!FinishChunk, OpenAI!DoneChunk
<1> HIDE DEF F, G, S, last, calls, finish, done
<1>8. ASSUME NEW n \in 1 .. Len(chunks)
      PROVE  /\ chunks[n].type = "text" /\ chunks[n].payload = text[n] /\ n \in 1 .. Len(text)
             /\ chunks[n].role <=> n = 1
  <2>1. chunks \in Seq(TextChunks)  BY <1>2 DEF OpenTypes
  <2>2. chunks[n] \in TextChunks  BY <2>1
  <2> QED BY <1>2, <2>2 DEF TextChunks, TextsKept
<1>9. \A n \in DOMAIN chunks' :
        \/ n \in 1 .. Len(chunks)
        \/ F # <<>> /\ n = Len(chunks) + 1 /\ n # last - 1 /\ n # last
        \/ n = last - 1 /\ n # last
        \/ n = last /\ n # last - 1
  BY <1>6
<1>10. /\ last - 1 \in DOMAIN chunks' /\ last \in DOMAIN chunks' /\ last - 1 # last
       /\ \A n \in 1 .. Len(chunks) : n \in DOMAIN chunks' /\ n # last - 1 /\ n # last
       /\ F # <<>> => Len(chunks) + 1 \in DOMAIN chunks'
  BY <1>6
<1>11. /\ {n \in DOMAIN chunks' : chunks'[n].type = "finish"} = {last - 1}
       /\ {n \in DOMAIN chunks' : chunks'[n].type = "done"} = {last}
       /\ {n \in DOMAIN chunks' : chunks'[n].type = "text"} = 1 .. Len(chunks)
       /\ {n \in DOMAIN chunks' : chunks'[n].type = "calls"}
            = IF F = <<>> THEN {} ELSE {Len(chunks) + 1}
  <2>1. {n \in DOMAIN chunks' : chunks'[n].type = "finish"} = {last - 1}
    BY <1>6, <1>7, <1>8, <1>9, <1>10
  <2>2. {n \in DOMAIN chunks' : chunks'[n].type = "done"} = {last}
    BY <1>6, <1>7, <1>8, <1>9, <1>10
  <2>3. {n \in DOMAIN chunks' : chunks'[n].type = "text"} = 1 .. Len(chunks)
    BY <1>6, <1>7, <1>8, <1>9, <1>10
  <2>4. {n \in DOMAIN chunks' : chunks'[n].type = "calls"}
          = IF F = <<>> THEN {} ELSE {Len(chunks) + 1}
    BY <1>6, <1>7, <1>8, <1>9, <1>10
  <2> QED BY <2>1, <2>2, <2>3, <2>4
<1>12. /\ OpenAI!ChunksOf("finish")' = {last - 1} /\ OpenAI!ChunksOf("done")' = {last}
       /\ OpenAI!ChunksOf("text")' = 1 .. Len(chunks)
       /\ OpenAI!ChunksOf("calls")' = IF F = <<>> THEN {} ELSE {Len(chunks) + 1}
  BY <1>11 DEF OpenAI!ChunksOf
<1>13. OpenAI!DoneMeansComplete'
  <2>1. ASSUME NEW n \in DOMAIN chunks', chunks'[n].type \in {"text", "calls"}
        PROVE  chunks'[n].role <=> n = 1
    <3>1. CASE n \in 1 .. Len(chunks)  BY <1>6, <1>8, <3>1
    <3>2. CASE F # <<>> /\ n = Len(chunks) + 1
      <4>1. chunks'[n].role = ~firstChunkSent  BY <1>6, <1>7, <3>2
      <4>2. firstChunkSent <=> Len(chunks) # 0
        <5>1. text \in Seq(Nat)  BY <1>2 DEF OpenTypes
        <5>2. text # <<>> <=> Len(text) # 0  BY <5>1
        <5> QED BY <1>2, <5>2 DEF TextsKept
      <4>3. n = 1 <=> Len(chunks) = 0  BY <1>6, <3>2
      <4>4. n = 1 <=> ~firstChunkSent  BY <4>2, <4>3
      <4> QED BY <4>1, <4>4, Zenon
    <3>3. CASE n = last - 1 \/ n = last  BY <1>6, <1>7, <2>1, <3>3
    <3> QED BY <1>9, <3>1, <3>2, <3>3
  <2> QED BY <1>1, <1>12, <2>1 DEF OpenAI!DoneMeansComplete, last
<1>14. F = <<>> <=> S = {}
  <2>1. F = <<>> <=> DOMAIN F = {}  BY <1>5
  <2> QED BY <1>4, <2>1 DEF Listing
<1>15. G = <<>> <=> S = {}
  <2>1. G = <<>> <=> DOMAIN G = {}  BY <1>5
  <2> QED BY <1>4, <2>1 DEF Listing
<1>16. OpenAI!FinishReason(e.reason, F) = OpenAI!FinishReason(e.reason, G)
  BY <1>14, <1>15 DEF OpenAI!FinishReason
<1>17. OpenAI!SameAnswer'
  <2>1. InOrder(text, OpenAI!Texts(got))  BY <1>2 DEF TextsKept
  <2>2. \A n \in OpenAI!ChunksOf("finish")' : chunks'[n].payload = message'.finish
    BY <1>3, <1>6, <1>7, <1>12, <1>16
  <2>3. upstreamFinishReason' # "none" => message'.finish = OpenAI!Mapped(upstreamFinishReason')
    BY <1>1, <1>3 DEF OpenAI!FinishReason
  <2>4. DOMAIN text = 1 .. Len(chunks)
    <3>1. text \in Seq(Nat)  BY <1>2 DEF OpenTypes
    <3> QED BY <1>2, <3>1 DEF TextsKept
  <2>5. \A n \in 1 .. Len(chunks) : chunks'[n].payload = text[n]  BY <1>6, <1>8
  <2>6. {chunks'[n].payload : n \in OpenAI!ChunksOf("text")'} = OpenAI!Texts(got)
    BY <1>12, <2>1, <2>4, <2>5 DEF InOrder
  <2>7. \A i, k \in OpenAI!ChunksOf("text")' : i < k => chunks'[i].payload < chunks'[k].payload
    BY <1>12, <2>1, <2>4, <2>5 DEF InOrder
  <2>8. OpenAI!Lists(message'.text, OpenAI!Texts(got))  BY <1>3, <2>1, SameLists
  <2>9. S = {} <=> OpenAI!ChunksOf("calls")' = {}  BY <1>12, <1>14
  <2>10. \A i, k \in OpenAI!ChunksOf("calls")' : i = k  BY <1>12
  <2>11. \A n \in OpenAI!ChunksOf("calls")' : OpenAI!Lists(OpenAI!CallIds(chunks'[n].payload), S)
    <3>1. OpenAI!Lists(OpenAI!CallIds(F), S)  BY <1>4, SameLists
    <3> QED BY <1>6, <1>7, <1>12, <3>1
  <2>12. OpenAI!Lists(OpenAI!CallIds(message'.calls), S)  BY <1>3, <1>4, SameLists
  <2>13. OpenAI!Texts(got') = OpenAI!Texts(got) /\ S = OpenAI!Calls(got', {"tool", "function"})
    BY <1>1 DEF S, Starts
  <2> QED BY <2>2, <2>3, <2>6, <2>7, <2>8, <2>9, <2>10, <2>11, <2>12, <2>13
          DEF OpenAI!SameAnswer
<1>18. OpenAI!ArgsComplete'
  <2> DEFINE Streamed1 == {chunks'[n].payload : n \in OpenAI!ChunksOf("calls")'}
  <2>1. \A c \in Streamed1 : c = F  BY <1>6, <1>7, <1>12
  <2>2. ASSUME OnlyIn(got, {"tool", "args"}), NEW c \in Streamed1 \cup {message'.calls},
               NEW i \in DOMAIN c
        PROVE  OpenAI!Lists(c[i].args, OpenAI!Pieces(got, c[i].id, {"tool"}, {"args"}))
    <3>1. c = F \/ c = G  BY <1>3, <2>1
    <3>2. Filled(c, got, {"tool"}, {"args"}, FALSE)  BY <1>2, <2>2, <3>1 DEF ArgsKept, F, G
    <3>3. InOrder(c[i].args, PiecesIn(got, c[i].id, {"tool"}, {"args"}))  BY <3>2 DEF Filled
    <3> QED BY <3>3, SameLists
  <2>3. ASSUME OnlyIn(got, {"function", "functionArgs"}), NEW c \in Streamed1, NEW i \in DOMAIN c
        PROVE  OpenAI!Lists(c[i].args, OpenAI!Pieces(got, c[i].id, {"function"}, {"functionArgs"}))
    <3>1. Filled(c, got, {"function"}, {"functionArgs"}, FALSE)
      BY <1>2, <2>1, <2>3 DEF ArgsKept, F
    <3>2. InOrder(c[i].args, PiecesIn(got, c[i].id, {"function"}, {"functionArgs"}))
      BY <3>1 DEF Filled
    <3> QED BY <3>2, SameLists
  <2>4. ASSUME OnlyIn(got, {"function", "functionArgs"}), NEW i \in DOMAIN message'.calls
        PROVE  OpenAI!Lists(message'.calls[i].args,
                 {message'.calls[i].id}
                 \cup OpenAI!Pieces(got, message'.calls[i].id, {"function"}, {"functionArgs"}))
    <3>1. Filled(message'.calls, got, {"function"}, {"functionArgs"}, TRUE)
      BY <1>2, <1>3, <2>4 DEF ArgsKept, G
    <3>2. InOrder(message'.calls[i].args,
            {message'.calls[i].id}
            \cup PiecesIn(got, message'.calls[i].id, {"function"}, {"functionArgs"}))
      BY <3>1 DEF Filled
    <3> QED BY <3>2, SameLists
  <2> HIDE DEF Streamed1
  <2>5. got' = got  BY <1>1
  <2> QED BY <2>2, <2>3, <2>4, <2>5 DEF OpenAI!ArgsComplete, OnlyIn, Streamed1
<1> QED BY <1>13, <1>17, <1>18 DEF Answered

LEMMA CutStep ==
  ASSUME OpenInv, OpenAI!Cut
  PROVE  Answered'
<1>1. ended' = "cut" /\ chunks' = chunks
  BY DEF OpenAI!Cut, OpenAI!streaming
<1>2. OpenTypes /\ TextsKept  BY DEF OpenInv
<1>3. ASSUME NEW n \in DOMAIN chunks
      PROVE  chunks[n].type = "text" /\ (chunks[n].role <=> n = 1)
  <2>1. chunks \in Seq(TextChunks)  BY <1>2 DEF OpenTypes
  <2>2. chunks[n] \in TextChunks /\ n \in 1 .. Len(chunks)  BY <2>1
  <2> QED BY <1>2, <2>2 DEF TextChunks, TextsKept
<1>4. OpenAI!DoneMeansComplete'
  BY <1>1, <1>3 DEF OpenAI!DoneMeansComplete, OpenAI!ChunksOf
<1> QED BY <1>1, <1>4 DEF Answered, OpenAI!SameAnswer, OpenAI!ArgsComplete

\* While the stream is open both converters have the same; what they answered
\* with is right.  Only the OpenAI handlers send chunks.
AnswerInv == IF api = "openai"
             THEN IF ended = "open" THEN OpenInv ELSE Answered
             ELSE chunks = <<>> /\ ended = "open"

LEMMA AnswerInit == Init => AnswerInv
<1> SUFFICES ASSUME Init PROVE OpenInv /\ chunks = <<>> /\ ended = "open"
  BY DEF AnswerInv
<1>1. /\ got = <<>> /\ ended = "open" /\ firstChunkSent = FALSE
      /\ currentTool = [id |-> 0, args |-> <<>>] /\ legacy = [id |-> 0, args |-> <<>>]
      /\ toolCalls = <<>> /\ chunks = <<>> /\ text = <<>> /\ messageCalls = <<>>
  BY DEF Init, OpenAI!Init, OpenAI!NoCall, OpenAI!Call
<1>2. <<>> \in Seq(Nat) /\ <<>> \in Seq(CallRecord) /\ <<>> \in Seq(TextChunks)
      /\ <<>> \in Seq(OpenAI!Event) /\ DOMAIN <<>> = {} /\ Len(<<>>) = 0
  OBVIOUS
<1>3. [id |-> 0, args |-> <<>>] \in CallRecord  BY <1>2 DEF CallRecord
<1>4. OpenTypes  BY <1>1, <1>2, <1>3 DEF OpenTypes
<1>5. OpenAI!PositionsOf(got, {"text"}) = {} /\ OpenAI!PositionsOf(got, Starts) = {}
  BY <1>1, <1>2 DEF OpenAI!PositionsOf
<1>6. TextsKept  BY <1>1, <1>2, <1>5 DEF TextsKept, InOrder, OpenAI!Texts
<1>7. OpenAI!Finalized = <<>> /\ OpenAI!LegacyFinalized = <<>>
  BY <1>1 DEF OpenAI!Finalized, OpenAI!LegacyFinalized
<1>8. CallsKept  BY <1>2, <1>5, <1>7 DEF CallsKept, Listing, OpenAI!Calls
<1>9. ArgsKept  BY <1>1, <1>2, <1>7 DEF ArgsKept, Filled
<1> QED BY <1>1, <1>4, <1>6, <1>8, <1>9 DEF OpenInv

LEMMA AnswerNext == AnswerInv /\ [Next]_vars => AnswerInv'
<1> SUFFICES ASSUME AnswerInv, [Next]_vars PROVE AnswerInv'
  OBVIOUS
<1>1. CASE HandleOpenAI
  <2>1. api = "openai" /\ api' = api /\ OpenAI!Next  BY <1>1 DEF HandleOpenAI
  <2>2. CASE OpenAI!Cut
    <3>1. ended = "open" /\ ended' = "cut"  BY <2>2 DEF OpenAI!Cut
    <3> QED BY <2>1, <2>2, <3>1, CutStep DEF AnswerInv
  <2>3. ASSUME NEW e \in OpenAI!Event, OpenAI!Receive(e) PROVE AnswerInv'
    <3>1. ended = "open" /\ ended' = "open"  BY <2>3 DEF OpenAI!Receive
    <3> QED BY <2>1, <2>3, <3>1, ReceiveStep DEF AnswerInv
  <2>4. ASSUME NEW e \in OpenAI!Event, OpenAI!Complete(e) PROVE AnswerInv'
    <3>1. ended = "open" /\ ended' = "complete"  BY <2>4 DEF OpenAI!Complete
    <3> QED BY <2>1, <2>4, <3>1, CompleteStep DEF AnswerInv
  <2> QED BY <2>1, <2>2, <2>3, <2>4 DEF OpenAI!Next
<1>2. CASE ConvertMessages \/ ConvertTools \/ HandleAnthropicStreaming \/ HandleAnthropicNonStreaming
  <2>1. api' = api /\ api # "openai" /\ chunks' = chunks /\ ended' = ended
    BY <1>2 DEF ConvertMessages, ConvertTools, HandleAnthropicStreaming,
                HandleAnthropicNonStreaming, responses, openai
  <2> QED BY <2>1 DEF AnswerInv
<1>3. CASE UNCHANGED vars
  <2>1. UNCHANGED <<api, got, ended, firstChunkSent, currentTool, toolCalls, chunks, text,
                    messageCalls, legacy, upstreamFinishReason, message>>
    BY <1>3 DEF vars, responses, openai
  <2>2. UNCHANGED <<OpenAI!Finalized, OpenAI!LegacyFinalized>>
    BY <2>1 DEF OpenAI!Finalized, OpenAI!LegacyFinalized
  <2>3. OpenInv => OpenInv'
    BY <2>1, <2>2 DEF OpenInv, OpenTypes, TextsKept, CallsKept, ArgsKept
  <2>4. Answered => Answered'
    <3>1. OpenAI!DoneMeansComplete => OpenAI!DoneMeansComplete'
      BY <2>1 DEF OpenAI!DoneMeansComplete, OpenAI!ChunksOf
    <3>2. OpenAI!SameAnswer => OpenAI!SameAnswer'
      BY <2>1 DEF OpenAI!SameAnswer, OpenAI!ChunksOf
    <3>3. OpenAI!ArgsComplete => OpenAI!ArgsComplete'
      BY <2>1 DEF OpenAI!ArgsComplete, OpenAI!ChunksOf
    <3> QED BY <3>1, <3>2, <3>3 DEF Answered
  <2> QED BY <2>1, <2>3, <2>4 DEF AnswerInv
<1> QED BY <1>1, <1>2, <1>3 DEF Next

\* While the stream is open the chunks are texts, the first with the role.
LEMMA AnswerIsRight == AnswerInv => Answered
<1> SUFFICES ASSUME AnswerInv PROVE Answered
  OBVIOUS
<1>1. CASE api = "openai" /\ ended # "open"  BY <1>1 DEF AnswerInv
<1>2. CASE api # "openai" \/ ended = "open"
  <2>1. ended = "open"  BY <1>2 DEF AnswerInv
  <2>2. \A n \in DOMAIN chunks : chunks[n].type = "text" /\ (chunks[n].role <=> n = 1)
    <3>1. CASE api = "openai"
      <4>1. OpenTypes /\ TextsKept  BY <2>1, <3>1 DEF AnswerInv, OpenInv
      <4> SUFFICES ASSUME NEW n \in DOMAIN chunks
                   PROVE  chunks[n].type = "text" /\ (chunks[n].role <=> n = 1)
        OBVIOUS
      <4>2. chunks \in Seq(TextChunks)  BY <4>1 DEF OpenTypes
      <4>3. chunks[n] \in TextChunks /\ n \in 1 .. Len(chunks)  BY <4>2
      <4> QED BY <4>1, <4>3 DEF TextChunks, TextsKept
    <3>2. CASE api # "openai"
      <4>1. DOMAIN <<>> = {}  OBVIOUS
      <4> QED BY <3>2, <4>1 DEF AnswerInv
    <3> QED BY <3>1, <3>2
  <2>3. OpenAI!DoneMeansComplete
    BY <2>1, <2>2 DEF OpenAI!DoneMeansComplete, OpenAI!ChunksOf
  <2> QED BY <2>1, <2>3 DEF Answered, OpenAI!SameAnswer, OpenAI!ArgsComplete
<1> QED BY <1>1, <1>2

THEOREM AnswerInvariant == Spec => []AnswerInv
<1> QED BY AnswerInit, AnswerNext, PTL DEF Spec

\* response_openai.go:139 and :332, for any number of events: the role comes
\* once and first, and only a stream that ended well is finished, once.
THEOREM OnlyCompleteIsDone == Spec => []DoneMeansComplete
<1>1. AnswerInv => DoneMeansComplete
  BY AnswerIsRight DEF Answered, DoneMeansComplete
<1> QED BY <1>1, AnswerInvariant, PTL

\* response_openai.go:400: the streaming and the collecting converter give the
\* same texts, calls and finish reason for the same stream, those of upstream.
THEOREM ConvertersAgree == Spec => []SameAnswer
<1>1. AnswerInv => SameAnswer
  BY AnswerIsRight DEF Answered, SameAnswer
<1> QED BY <1>1, AnswerInvariant, PTL

\* Both give every call of a stream with one kind of calls its own arguments,
\* all of them and in order.
THEOREM ArgumentsAreComplete == Spec => []ArgsComplete
<1>1. AnswerInv => ArgsComplete
  BY AnswerIsRight DEF Answered, ArgsComplete
<1> QED BY <1>1, AnswerInvariant, PTL
=============================================================================
