------------------------------ MODULE Upstream ------------------------------
(***************************************************************************)
(* The event stream of the JetBrains chat endpoint, as the four response   *)
(* converters of this program read it, and what a faithful conversion of   *)
(* it must contain.  The endpoint is a service outside the repository: any *)
(* order of the event kinds the converters have a case for may arrive.     *)
(*                                                                         *)
(* Texts, tool calls and argument pieces are represented by the position   *)
(* of their event in the stream.                                           *)
(***************************************************************************)
EXTENDS Naturals, Sequences, SequencesExt

Reasons == {"none", "tool_call", "stop", "length"}

\* Content with text or without; ToolCall that names a new call, that has an
\* id and no name, or that carries a piece of arguments; FunctionCall with a
\* name or with a piece only; FinishMetadata, whose reason is "none" if absent.
Event == [kind : {"text", "blank", "tool", "nameless", "args", "function", "functionArgs"},
          reason : {"none"}]
         \cup [kind : {"finish"}, reason : Reasons]

PositionsOf(stream, kinds) == {i \in DOMAIN stream : stream[i].kind \in kinds}

\* The texts of the stream.
Texts(stream) == PositionsOf(stream, {"text"})

\* The calls of the stream.
Calls(stream, starts) == PositionsOf(stream, starts)

\* The pieces that belong to the call at position p: those that follow it
\* before the next event that starts a call.
Pieces(stream, p, starts, pieces) ==
  {i \in (p + 1) .. Len(stream) :
     /\ stream[i].kind \in pieces
     /\ \A k \in (p + 1) .. i : stream[k].kind \notin starts}

\* A sequence of positions lists a set of them: each once, and in the order of
\* the stream.
Lists(seq, positions) ==
  /\ ToSet(seq) = positions
  /\ \A i, k \in DOMAIN seq : i < k => seq[i] < seq[k]
=============================================================================
