-------------------------- MODULE AnthropicRedirect --------------------------
(***************************************************************************)
(* handleAnthropicRedirect of internal/router/router_anthropic.go, from    *)
(* the body of the client's request to the end of the response.  A target  *)
(* that speaks Anthropic, as Dispatch resolves it, serves the request in   *)
(* an exchange of AnthropicNative.  For any other the body is translated   *)
(* (AnthropicRequest) or refused, and the exchange is AnthropicStream's.   *)
(***************************************************************************)
EXTENDS AnthropicStream, AnthropicRequest

CONSTANTS
    Usages, MaxLines,   \* of AnthropicNative
    AskedFor,   \* the requests of the clients
    Nothing     \* no request

VARIABLES
    stage,      \* where the handler is: the exchange is one stage
    asked,      \* the client's request, until the exchange begins
    sent,       \* the messages of the body for the backend, until then
    route, at, body, probe, tap, noted, reply, told, status, ending

Native == INSTANCE AnthropicNative

ASSUME RedirectAssumption ==
    /\ Usages \subseteq [Native!Fields -> Nat] /\ MaxLines \in Nat
    /\ \A r \in AskedFor : IsRequest(r)

nativeVars == <<route, at, body, probe, tap, noted, reply, told, status, ending>>

redirectVars == <<vars, stage, asked, sent, nativeVars>>

\* count_tokens has a handler of its own, which does not translate.
RedirectInit ==
    /\ Init /\ Native!Init /\ sent = <<>>
    /\ \/ stage = "translate" /\ asked \in AskedFor /\ route = "messages"
       \/ stage = "native" /\ asked = Nothing

ServeNative == stage = "native" /\ Native!Next /\ UNCHANGED <<vars, stage, asked, sent>>

\* A refusal goes to the client at once, without a translating writer.
RefuseBody ==
    /\ stage = "translate" /\ Refused(asked)
    /\ stage' = "refused" /\ asked' = Nothing
    /\ client' = RealBody(client, "error", "error")
    /\ UNCHANGED <<wantStream, said, answer, end, hpc, ppc, mu, tw, tr, sent, nativeVars>>

Translate ==
    /\ stage = "translate" /\ ~Refused(asked)
    /\ stage' = "translated" /\ sent' = OpenAIMessages(asked)
    /\ UNCHANGED <<vars, asked, nativeVars>>

\* handleProxy is entered with the new body; the response depends on neither.
EnterProxy ==
    /\ stage = "translated"
    /\ stage' = "exchange" /\ asked' = Nothing /\ sent' = <<>>
    /\ UNCHANGED <<vars, nativeVars>>

Exchange == stage = "exchange" /\ Next /\ UNCHANGED <<stage, asked, sent, nativeVars>>

RedirectNext == ServeNative \/ RefuseBody \/ Translate \/ EnterProxy \/ Exchange

RedirectSpec ==
    /\ RedirectInit /\ [][RedirectNext]_redirectVars
    /\ WF_vars(Finish) /\ WF_vars(PingLock \/ PingTick) /\ SF_vars(PingStop)

-----------------------------------------------------------------------------
(***************************************************************************)
(* The conversation survives its translation, whatever its turns hold: one *)
(* leading system message, all that was said in its order, and every call  *)
(* followed at once by its answers when the client's history was in order  *)
(* ("tool_result blocks become their own {role:tool} messages, emitted     *)
(* before any remaining content").                                         *)
(***************************************************************************)
ConversationKept ==
    stage = "translated" =>
        OneSystem(asked, sent) /\ InOrder(asked, sent) /\ AnswersFollow(asked, sent)

\* However the body of a native answer is cut, its connection is charged once
\* with what the backend reported last (usageTap of anthropic_usage_tap.go), and
\* a count_tokens is answered once, by the backend or by the estimate
\* (countTokensProbe of router_anthropic_native.go).
NativeCounted == Native!UsageCounted /\ Native!CountAnswered

\* ... and after an informational response, too.  It does not hold.
CountAnsweredAlways == Native!CountAnsweredAlways
=============================================================================
