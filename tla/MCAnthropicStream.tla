------------------------- MODULE MCAnthropicStream -------------------------
(***************************************************************************)
(* Small instances of AnthropicRedirect: requests of up to MaxMessages     *)
(* turns, and events with text, with a piece of a tool call or two, with a *)
(* finish reason, and with nothing in them.                                *)
(***************************************************************************)
EXTENDS AnthropicRedirect

Piece(i, whole) == [index |-> i, whole |-> whole]
Chunk(text, reason, calls) == [text |-> text, reason |-> reason, calls |-> calls]

SomeChunks == {
    Chunk(TRUE, "", <<>>), Chunk(FALSE, "", <<Piece(1, FALSE)>>),
    Chunk(FALSE, "", <<Piece(0, TRUE), Piece(1, TRUE)>>),
    Chunk(TRUE, "length", <<>>), Chunk(FALSE, "stop", <<>>), Chunk(FALSE, "tool_calls", <<>>),
    Chunk(FALSE, "", <<>>) }

FewChunks == {
    Chunk(TRUE, "", <<>>), Chunk(FALSE, "", <<Piece(1, FALSE)>>),
    Chunk(FALSE, "", <<Piece(0, TRUE), Piece(1, TRUE)>>) }

Usage(input, output) == [input |-> input, output |-> output]

SomeUsages == {Usage(2, 1), Usage(0, 2), Usage(3, 0), Usage(0, 0)}

CONSTANT MaxMessages

Text == ContentBlock("text", "", TRUE)
Empty == ContentBlock("text", "", FALSE)
Image(good) == ContentBlock("image", "", good)
Use(id) == ContentBlock("tool_use", id, TRUE)
Result(id) == ContentBlock("tool_result", id, TRUE)
Other(type) == ContentBlock(type, "", TRUE)

Turn(role, form, blocks) == [role |-> role, content |-> Content(form, blocks)]

SomeTurns == {
    Turn("user", "string", <<Text>>), Turn("user", "string", <<Empty>>),
    Turn("user", "blocks", <<Result("a")>>), Turn("user", "blocks", <<Text, Result("a")>>),
    Turn("user", "blocks", <<Result("b"), Image(TRUE), Result("a")>>),
    Turn("user", "blocks", <<Image(FALSE), Other("document")>>), Turn("user", "neither", <<>>),
    Turn("assistant", "string", <<Text>>), Turn("assistant", "blocks", <<Use("a")>>),
    Turn("assistant", "blocks", <<Other("thinking"), Use("a"), Text, Use("b"), Image(TRUE)>>),
    Turn("assistant", "blocks", <<Other("redacted_thinking")>>),
    Turn("system", "string", <<Text>>), Turn("system", "blocks", <<Empty, Image(TRUE), Text>>),
    Turn("other", "string", <<Text>>) }

SomeSystems == {Content("blocks", <<>>), Content("string", <<Text>>), Content("string", <<Empty>>),
                Content("blocks", <<Empty>>), Content("blocks", <<Empty, Other("image"), Text>>)}

SomeRequests ==
    [system : SomeSystems, messages : BoundedSeq(SomeTurns, MaxMessages),
     tools : {<<>>, <<"custom", "server">>}, vision : BOOLEAN]
=============================================================================
