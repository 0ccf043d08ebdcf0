-------------------------- MODULE AnthropicRequest --------------------------
(***************************************************************************)
(* anthropicToOpenAIRequest of internal/router/router_anthropic_translate: *)
(* the body of an Anthropic request becomes the body of an OpenAI one.     *)
(* A piece of content is named by its place, the number of its message (0  *)
(* for the system field) and of its block, so that a property can say what *)
(* became of it; wording and parameters that are copied are left out.      *)
(***************************************************************************)
EXTENDS Naturals, Sequences, SequencesExt, Selection

\* A block: id names the call of a tool_use or a tool_result, good tells a text
\* that is not empty and an image whose source is complete.
ContentBlock(type, id, good) == [type |-> type, id |-> id, good |-> good]

\* A content field is a string or an array of blocks, or neither.
Content(form, blocks) == [form |-> form, blocks |-> blocks]

\* What became of the block at a place: its text, its image or a placeholder.
Part(kind, at) == [kind |-> kind, at |-> at]

\* An OpenAI message: parts of its content, calls it makes, call it answers.
Message(role, parts, calls, answers) ==
    [role |-> role, parts |-> parts, calls |-> calls, answers |-> answers]

-----------------------------------------------------------------------------
\* anthropicContentBlocks: an empty string is no block at all.
ContentBlocks(content) ==
    IF content.form = "string" /\ ~content.blocks[1].good THEN <<>> ELSE content.blocks

\* stripAnthropicImages, for a target without vision.
Strip(blocks, vision) ==
    [k \in DOMAIN blocks |-> IF blocks[k].type = "image" /\ ~vision
                             THEN ContentBlock("stripped", "", TRUE) ELSE blocks[k]]

IsText(b) == b.type \in {"text", "stripped"}

\* Only a user's images are sent on.
Kind(b) == CASE b.type = "text" -> "text"
             [] b.type = "image" /\ b.good -> "image"
             [] OTHER -> "placeholder"

TextKind(b) == IF b.type = "text" THEN "text" ELSE "placeholder"

\* The places of the blocks of message n that are in Wanted.
PlacesOf(n, blocks, Wanted) ==
    Only([k \in DOMAIN blocks |-> <<n, k>>], {at \in {n} \X DOMAIN blocks : blocks[at[2]] \in Wanted})

PartsOf(n, blocks, Wanted) ==
    LET at == PlacesOf(n, blocks, Wanted)
    IN  [k \in DOMAIN at |-> Part(TextKind(blocks[at[k][2]]), at[k])]

OfType(blocks, types) == {b \in Range(blocks) : b.type \in types}

IdsOf(n, blocks, type) ==
    LET at == PlacesOf(n, blocks, OfType(blocks, {type}))
    IN  [k \in DOMAIN at |-> blocks[at[k][2]].id]

\* translateAnthropicMessage, user: each tool_result is a message of its own,
\* and they come before everything else.
ToolMessages(n, blocks) ==
    LET ids == IdsOf(n, blocks, "tool_result")
    IN  [k \in DOMAIN ids |-> Message("tool", <<>>, <<>>, ids[k])]

RestOfUser(n, blocks) ==
    LET at == PlacesOf(n, blocks, Range(blocks) \ OfType(blocks, {"tool_result"}))
        parts == [k \in DOMAIN at |-> Part(Kind(blocks[at[k][2]]), at[k])]
    IN  IF parts = <<>> THEN <<>> ELSE <<Message("user", parts, <<>>, "")>>

UserMessages_TextFirst(n, blocks) == RestOfUser(n, blocks) \o ToolMessages(n, blocks)

UserMessages(n, blocks) == ToolMessages(n, blocks) \o RestOfUser(n, blocks)

Thinking == {"thinking", "redacted_thinking"}

\* assistant: one message, whatever is in it, without the thinking.
AssistantMessages(n, blocks) ==
    <<Message("assistant",
              PartsOf(n, blocks, Range(blocks) \ OfType(blocks, {"tool_use"} \cup Thinking)),
              IdsOf(n, blocks, "tool_use"), "")>>

\* anthropicSystemText: the text blocks of the system field, unless they come
\* to an empty string.
SystemField(system) ==
    LET blocks == ContentBlocks(system)
        texts == PartsOf(0, blocks, OfType(blocks, {"text", ""}))
    IN  IF Len(texts) = 1 /\ ~blocks[texts[1].at[2]].good THEN <<>> ELSE texts

\* A system message of the conversation adds to the system field.
SystemTexts(n, blocks) == PartsOf(n, blocks, {b \in Range(blocks) : IsText(b) /\ b.good})

-----------------------------------------------------------------------------
\* A request: the system field, messages with a role and a content, the types
\* of its tools, and whether the target has vision.
Blocks(r, n) == Strip(ContentBlocks(r.messages[n].content), r.vision)

\* A tool that only Anthropic can run, which anthropicToolsToOpenAI refuses.
ServerTool(r) == "server" \in Range(r.tools)

\* The refusals of anthropicToOpenAIRequest, all of them a 400.
Refused(r) ==
    \/ r.messages = <<>> \/ r.system.form = "neither"
    \/ \E n \in DOMAIN r.messages : \/ r.messages[n].content.form = "neither"
                                    \/ r.messages[n].role \notin {"system", "user", "assistant"}
    \/ ServerTool(r)

SystemParts(r) ==
    SystemField(r.system) \o FlattenSeq([n \in DOMAIN r.messages |->
        IF r.messages[n].role = "system" THEN SystemTexts(n, Blocks(r, n)) ELSE <<>>])

TurnMessages(r, n) ==
    CASE r.messages[n].role = "user" -> UserMessages(n, Blocks(r, n))
      [] r.messages[n].role = "assistant" -> AssistantMessages(n, Blocks(r, n))
      [] OTHER -> <<>>

OpenAIMessages(r) ==
    LET turns == FlattenSeq([n \in DOMAIN r.messages |-> TurnMessages(r, n)])
    IN  IF SystemParts(r) = <<>> THEN turns
        ELSE <<Message("system", SystemParts(r), <<>>, "")>> \o turns

-----------------------------------------------------------------------------
(***************************************************************************)
(* What a request can be, once it is parsed: a string is one text block,   *)
(* and "stripped" is no type of a client's block.  The call of a tool_use  *)
(* without an id gets a random one, which id then stands for.              *)
(***************************************************************************)
RequestBlocks == [type : STRING \ {"stripped"}, id : STRING, good : BOOLEAN]

IsContent(c) ==
    /\ c.form \in {"string", "blocks", "neither"} /\ c.blocks \in Seq(RequestBlocks)
    /\ c.form = "string" => Len(c.blocks) = 1
    /\ \A b \in Range(c.blocks) : b.type = "tool_use" => b.id # ""

IsRequest(r) ==
    /\ IsContent(r.system) /\ r.vision \in BOOLEAN
    /\ r.messages \in Seq(Range(r.messages))
    /\ \A m \in Range(r.messages) : m.role \in STRING /\ IsContent(m.content)

-----------------------------------------------------------------------------
(***************************************************************************)
(* What is asked of the messages out that were made of a request r.        *)
(***************************************************************************)
\* Every block, by place: the system field's and then the conversation's.
ContentAt(r, n) == IF n = 0 THEN r.system ELSE r.messages[n].content
RoleAt(r, at) == IF at[1] = 0 THEN "system" ELSE r.messages[at[1]].role
BlockAt(r, at) == ContentAt(r, at[1]).blocks[at[2]]
TypeAt(r, at) == BlockAt(r, at).type

PlacesIn(r, n) == [k \in DOMAIN ContentBlocks(ContentAt(r, n)) |-> <<n, k>>]
Places(r) == PlacesIn(r, 0) \o FlattenSeq([n \in DOMAIN r.messages |-> PlacesIn(r, n)])

\* The places that a message was made of.
PlacesSent(m) == [k \in DOMAIN m.parts |-> m.parts[k].at]

\* "Exactly ONE leading system message", with every system text in its order.
OneSystem(r, out) ==
    LET instructions == {at \in Range(Places(r)) :
            RoleAt(r, at) = "system" /\ TypeAt(r, at) = "text" /\ BlockAt(r, at).good}
        instructed == FlattenSeq([i \in DOMAIN out |->
            IF out[i].role = "system" THEN PlacesSent(out[i]) ELSE <<>>])
    IN  /\ \A i \in DOMAIN out : out[i].role = "system" => i = 1
        /\ Only(instructed, instructions) = Only(Places(r), instructions)

\* What the user and the assistant said is all there and in its order, and so
\* are the calls and their results; nothing goes but thinking, and no image
\* reaches a target without vision.
InOrder(r, out) ==
    LET said == {at \in Range(Places(r)) :
            \/ RoleAt(r, at) = "user" /\ TypeAt(r, at) # "tool_result"
            \/ RoleAt(r, at) = "assistant" /\ TypeAt(r, at) \notin {"tool_use"} \cup Thinking}
        Ids(role, type) ==
            LET at == Only(Places(r), {p \in Range(Places(r)) : RoleAt(r, p) = role /\ TypeAt(r, p) = type})
            IN  [k \in DOMAIN at |-> BlockAt(r, at[k]).id]
    IN  /\ FlattenSeq([i \in DOMAIN out |-> IF out[i].role # "system" THEN PlacesSent(out[i]) ELSE <<>>])
               = Only(Places(r), said)
        /\ FlattenSeq([i \in DOMAIN out |-> out[i].calls]) = Ids("assistant", "tool_use")
        /\ FlattenSeq([i \in DOMAIN out |-> IF out[i].role = "tool" THEN <<out[i].answers>> ELSE <<>>])
               = Ids("user", "tool_result")
        /\ \A i \in DOMAIN out : \A k \in DOMAIN out[i].parts : out[i].parts[k].kind = "image" => r.vision

\* The calls of an assistant message are all answered by the next user message,
\* system messages apart, each once: what the Anthropic API demands of a history.
OfTypeAt(r, n, type) == {k \in DOMAIN PlacesIn(r, n) : TypeAt(r, <<n, k>>) = type}
UseIds(r, n, type) == {BlockAt(r, <<n, k>>).id : k \in OfTypeAt(r, n, type)}

Once(r, n, type) ==
    \A j, k \in OfTypeAt(r, n, type) : BlockAt(r, <<n, j>>).id = BlockAt(r, <<n, k>>).id => j = k

AnsweredHistory(r) ==
    \A n \in DOMAIN r.messages :
        r.messages[n].role = "assistant" /\ UseIds(r, n, "tool_use") # {} =>
            \E m \in (n + 1)..Len(r.messages) :
                /\ r.messages[m].role = "user"
                /\ UseIds(r, m, "tool_result") = UseIds(r, n, "tool_use")
                /\ Once(r, m, "tool_result") /\ Once(r, n, "tool_use")
                /\ \A k \in (n + 1)..(m - 1) : r.messages[k].role = "system"

\* Then each message with calls is followed at once by their answers, which is
\* what the OpenAI API demands.
AnswersFollow(r, out) ==
    AnsweredHistory(r) =>
        \A i \in DOMAIN out : out[i].calls # <<>> =>
            LET last == i + Len(out[i].calls)
            IN  /\ last <= Len(out)
                /\ {out[j].answers : j \in (i + 1)..last} = Range(out[i].calls)
=============================================================================
