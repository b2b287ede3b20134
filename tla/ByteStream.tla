----------------------------- MODULE ByteStream -----------------------------
(***************************************************************************)
(* Stream sockets as the programs meet them: send puts a JSON text into    *)
(* the stream, recv takes any non-empty part of what has arrived, and      *)
(* nothing marks where one text ends and the next begins.  A text is two   *)
(* halves, which is enough for recv to see a part of one, exactly one, or  *)
(* more than one.                                                          *)
(***************************************************************************)
EXTENDS Naturals, Sequences

Half == {"first", "second"}

Text(m) == <<[of |-> m, half |-> "first"], [of |-> m, half |-> "second"]>>

\* What recv may return now, and what it leaves behind.
Chunks(stream) == {SubSeq(stream, 1, n) : n \in 1 .. Len(stream)}

Rest(stream, chunk) == SubSeq(stream, Len(chunk) + 1, Len(stream))

\* nlohmann::json::parse takes one text and nothing more or less.
Parses(chunk) == Len(chunk) = 2 /\ chunk = Text(chunk[1].of)

Parsed(chunk) == chunk[1].of

============================================================================
