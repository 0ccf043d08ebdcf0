-------------------------- MODULE AnthropicStream --------------------------
(***************************************************************************)
(* One redirected Anthropic request, from handleAnthropicRedirect's call   *)
(* of handleProxy to the return of the handler: translatingResponseWriter  *)
(* of internal/router/router_anthropic.go, the stream translator of        *)
(* router_anthropic_translate.go behind it, and the ping goroutine that    *)
(* writes into the same response.  The backend is the environment: its     *)
(* status, its events cut at any byte, and the way its body ends.          *)
(***************************************************************************)
EXTENDS Integers, FiniteSets, Sequences, SequencesExt, Selection

CONSTANTS
    Chunks,         \* what one OpenAI SSE event may hold
    Calls,          \* the tool-call indices of the chunks
    Informational,  \* may the backend send a 1xx first?
    MaxChunks       \* bound: events the backend sends

Reasons == {"", "stop", "length", "tool_calls"}     \* finish_reason

ASSUME StreamAssumption ==
    /\ Informational \in BOOLEAN /\ MaxChunks \in Nat /\ Calls \subseteq Nat
    /\ Chunks \subseteq [text : BOOLEAN, reason : Reasons,
                         calls : Seq([index : Calls, whole : BOOLEAN])]

VARIABLES
    wantStream,     \* did the client ask for a stream?
    said,           \* the events of the backend that arrived whole (history)
    answer,         \* how the backend answered (history)
    end,            \* how the exchange ended (history)
    hpc,            \* where the handler's goroutine is
    ppc,            \* where the ping goroutine is
    mu,             \* who holds tw.mu
    tw,             \* the translating writer
    tr,             \* the translator
    client          \* the response as net/http was given it

vars == <<wantStream, said, answer, end, hpc, ppc, mu, tw, tr, client>>

\* A block's content is named by the backend's events it came from.
Pieces == BoundedSeq(1..MaxChunks, 2 * MaxChunks)
Statuses == {"none", "info", "200", "error"}

TypeOK ==
    /\ wantStream \in BOOLEAN
    /\ said \in BoundedSeq(Chunks, MaxChunks)
    /\ answer \in {"none", "200", "error", "refused"} /\ end \in {"open", "clean", "cut"}
    /\ hpc \in {"proxy", "finish", "wait", "lock", "deliver", "gone"}
    /\ ppc \in {"none", "select", "lock", "tick", "exited"}
    /\ mu \in {"free", "handler", "ping"}
    /\ tw.status \in Statuses /\ tw.isError = (tw.status \notin {"none", "200"})
    /\ tw.realStarted = (wantStream /\ tw.status = "200")
    /\ tw.pingStop \in {"nil", "open", "closed"} /\ (tw.pingStop = "nil") = (ppc = "none")
    /\ tr.textBlock \in {0 - 1, 0} /\ tr.nextBlock = tr.textBlock + 1
    /\ tr.text \in Pieces /\ tr.reason \in Reasons
    /\ \A i \in Calls : \A p \in DOMAIN tr.args[i] : tr.args[i][p].at \in 1..MaxChunks
    /\ tr.order \in BoundedSeq(Calls, Cardinality(Calls)) /\ IsInjective(tr.order)
    /\ tr.sseBuf \in {"empty", "front", "dropped"}
    /\ client.status \in {"none", "200", "error"} /\ client.body \in {"none", "message", "error"}

Init ==
    /\ wantStream \in BOOLEAN
    /\ said = <<>> /\ answer = "none" /\ end = "open"
    /\ hpc = "proxy" /\ ppc = "none" /\ mu = "free"
    /\ tw = [status |-> "none", isError |-> FALSE, realStarted |-> FALSE, pingStop |-> "nil"]
    /\ tr = [textBlock |-> 0 - 1, nextBlock |-> 0, text |-> <<>>, reason |-> "",
             args |-> [i \in Calls |-> <<>>], order |-> <<>>, sseBuf |-> "empty"]
    /\ client = [status |-> "none", events |-> <<>>, body |-> "none", message |-> <<>>, stop |-> ""]

(***************************************************************************)
(* The real ResponseWriter is net/http's.  The first final status is the   *)
(* one it sends; a flush or a write before any sends 200.                  *)
(***************************************************************************)
RealHeader(c, status) == IF c.status = "none" /\ status # "info"
                         THEN [c EXCEPT !.status = status] ELSE c
RealFlush(c) == RealHeader(c, "200")
RealEvents(c, events) == [RealFlush(c) EXCEPT !.events = @ \o events]
RealBody(c, status, body) == [RealFlush(RealHeader(c, status)) EXCEPT !.body = body]

-----------------------------------------------------------------------------
(***************************************************************************)
(* The translator.  An event of the Anthropic stream has a type, the index *)
(* of its content block, and the backend's events its content comes from.  *)
(***************************************************************************)
Event(type, block, of) == [type |-> type, block |-> block, of |-> of]
Bare(type) == Event(type, 0 - 1, <<>>)
Block(b, of) == <<Event("start", b, <<>>), Event("delta", b, of), Event("stop", b, <<>>)>>

\* The text of event n: its block is opened by the first.
TextEvents(t, n) == IF t.textBlock < 0
    THEN <<Event("start", t.nextBlock, <<>>), Event("delta", t.nextBlock, <<n>>)>>
    ELSE <<Event("delta", t.textBlock, <<n>>)>>

AddText(t, n) ==
    IF wantStream /\ t.textBlock < 0
    THEN [t EXCEPT !.text = Append(@, n), !.textBlock = t.nextBlock, !.nextBlock = @ + 1]
    ELSE [t EXCEPT !.text = Append(@, n)]

AddCall_Replaces(t, call, n) ==
    [t EXCEPT !.args[call.index] = <<[at |-> n, whole |-> call.whole]>>,
              !.order = IF call.index \in Range(@) THEN @ ELSE Append(@, call.index)]

AddCall(t, call, n) ==
    [t EXCEPT !.args[call.index] = Append(@, [at |-> n, whole |-> call.whole]),
              !.order = IF call.index \in Range(@) THEN @ ELSE Append(@, call.index)]

\* The finish reason, the text and the calls of event n.
ApplyChunk(t, c, n) ==
    LET reason == IF c.reason = "" THEN t ELSE [t EXCEPT !.reason = c.reason]
        text == IF c.text THEN AddText(reason, n) ELSE reason
        fed[k \in 0..Len(c.calls)] ==
            IF k = 0 THEN text ELSE AddCall(fed[k - 1], c.calls[k], n)
    IN  fed[Len(c.calls)]

\* Arguments that are not JSON in the end are replaced by {}.
ParsedArgs(args) ==
    IF args # <<>> /\ Last(args).whole THEN [p \in DOMAIN args |-> args[p].at] ELSE <<>>

StopReason(t) == IF t.order # <<>> \/ t.reason = "tool_calls" THEN "tool_use"
                 ELSE IF t.reason = "length" THEN "max_tokens" ELSE "end_turn"

\* The calls' blocks, numbered on from the text's.
CallEvents(t) ==
    FlattenSeq([k \in DOMAIN t.order |->
                   Block(t.nextBlock + k - 1, ParsedArgs(t.args[t.order[k]]))])

TextStop(t) == IF t.textBlock < 0 THEN <<>> ELSE <<Event("stop", t.textBlock, <<>>)>>
MessageEnd == <<Bare("message_delta"), Bare("message_stop")>>

FinishEvents_TextLast(t) == CallEvents(t) \o TextStop(t) \o MessageEnd

FinishEvents(t) == TextStop(t) \o CallEvents(t) \o MessageEnd

\* The content of a message sent whole.
BuildMessage(t) == (IF t.text # <<>> THEN <<t.text>> ELSE <<>>)
                       \o [k \in DOMAIN t.order |-> ParsedArgs(t.args[t.order[k]])]

-----------------------------------------------------------------------------
(***************************************************************************)
(* The handler's goroutine inside handleProxy.  A step that takes and      *)
(* releases tw.mu at once needs it free.                                   *)
(***************************************************************************)
HandlerMayLock == mu = "free"

\* WriteHeader: the first status counts, and a 200 starts a stream and its pings.
WriteHeader(status) ==
    LET starts == tw.status = "none" /\ status = "200" /\ wantStream IN
    /\ HandlerMayLock
    /\ tw' = IF tw.status # "none" THEN tw
             ELSE [status |-> status, isError |-> status # "200", realStarted |-> starts,
                   pingStop |-> IF starts THEN "open" ELSE "nil"]
    /\ client' = IF starts THEN RealEvents(client, <<Bare("message_start")>>) ELSE client
    /\ ppc' = IF starts THEN "select" ELSE ppc

\* Flush, which ReverseProxy calls after every write.
Flush(c) == IF wantStream THEN RealFlush(c) ELSE c

Inform ==
    /\ Informational /\ hpc = "proxy" /\ answer = "none" /\ tw.status = "none"
    /\ WriteHeader("info")
    /\ UNCHANGED <<wantStream, said, answer, end, hpc, mu, tr>>

Respond(status) ==
    /\ hpc = "proxy" /\ answer = "none"
    /\ WriteHeader(status)
    /\ answer' = status
    /\ UNCHANGED <<wantStream, said, end, hpc, mu, tr>>

\* An error of the router's own: no lease, no target, or no answer from the backend.
Refuse ==
    /\ hpc = "proxy" /\ answer = "none"
    /\ WriteHeader("error")
    /\ answer' = "refused" /\ end' = "clean" /\ hpc' = "finish"
    /\ UNCHANGED <<wantStream, said, mu, tr>>

\* routeVirtual writes nothing once the caller's context is done.
GiveUp ==
    /\ hpc = "proxy" /\ answer = "none"
    /\ end' = "clean" /\ hpc' = "finish"
    /\ UNCHANGED <<wantStream, said, answer, ppc, mu, tw, tr, client>>

Copying == hpc = "proxy" /\ answer # "none" /\ HandlerMayLock

\* The timer of ReverseProxy's writer flushes once before the body.
FlushHeaders ==
    /\ Copying
    /\ client' = Flush(client)
    /\ UNCHANGED <<wantStream, said, answer, end, hpc, ppc, mu, tw, tr>>

\* A write that ends inside an event: it waits, and past the buffer's limit is dropped.
CopyPart ==
    /\ Copying
    /\ tr' = IF tw.isError THEN tr
             ELSE [tr EXCEPT !.sseBuf = IF @ = "empty" THEN "front" ELSE "dropped"]
    /\ client' = Flush(client)
    /\ UNCHANGED <<wantStream, said, answer, end, hpc, ppc, mu, tw>>

\* A write that completes event c.
CopyEvent(c) ==
    LET n == Len(said) + 1
        sent == IF wantStream /\ c.text THEN RealEvents(client, TextEvents(tr, n)) ELSE client
    IN
    /\ Copying /\ ~tw.isError /\ tr.sseBuf # "dropped" /\ n <= MaxChunks
    /\ said' = Append(said, c)
    /\ tr' = [ApplyChunk(tr, c, n) EXCEPT !.sseBuf = "empty"]
    /\ client' = Flush(sent)
    /\ UNCHANGED <<wantStream, answer, end, hpc, ppc, mu, tw>>

\* What completes a dropped event does not begin with "data:".
CopyTail ==
    /\ Copying /\ ~tw.isError /\ tr.sseBuf = "dropped"
    /\ tr' = [tr EXCEPT !.sseBuf = "empty"]
    /\ UNCHANGED <<wantStream, said, answer, end, hpc, ppc, mu, tw, client>>

\* The body ends, or ReverseProxy panics because it broke or the client left.
EndBody(how) ==
    /\ hpc = "proxy" /\ answer # "none"
    /\ end' = how /\ hpc' = "finish"
    /\ UNCHANGED <<wantStream, said, answer, ppc, mu, tw, tr, client>>

-----------------------------------------------------------------------------
(***************************************************************************)
(* finish, deferred by handleAnthropicRedirect: it runs on a panic too.    *)
(***************************************************************************)
StopPing_Locked ==
    /\ hpc = "finish" /\ mu = "free"
    /\ mu' = "handler"
    /\ IF tw.pingStop = "nil" THEN hpc' = "deliver" /\ UNCHANGED tw
       ELSE hpc' = "wait" /\ tw' = [tw EXCEPT !.pingStop = "closed"]
    /\ UNCHANGED <<wantStream, said, answer, end, ppc, tr, client>>

StopPing ==
    /\ hpc = "finish"
    /\ IF tw.pingStop = "nil" THEN hpc' = "lock" /\ UNCHANGED tw
       ELSE hpc' = "wait" /\ tw' = [tw EXCEPT !.pingStop = "closed"]
    /\ UNCHANGED <<wantStream, said, answer, end, ppc, mu, tr, client>>

WaitPing_Skipped ==
    /\ hpc = "wait"
    /\ hpc' = "lock"
    /\ UNCHANGED <<wantStream, said, answer, end, ppc, mu, tw, tr, client>>

WaitPing ==
    /\ hpc = "wait" /\ ppc = "exited"
    /\ hpc' = "lock"
    /\ UNCHANGED <<wantStream, said, answer, end, ppc, mu, tw, tr, client>>

Lock ==
    /\ hpc = "lock" /\ HandlerMayLock
    /\ mu' = "handler" /\ hpc' = "deliver"
    /\ UNCHANGED <<wantStream, said, answer, end, ppc, tw, tr, client>>

Delivered(c) ==
    IF tw.isError \/ tw.status = "none"
    THEN IF tw.realStarted THEN RealEvents(c, <<Bare("error")>>)
         ELSE RealBody(c, IF tw.status = "none" THEN "error" ELSE tw.status, "error")
    ELSE IF wantStream
         THEN [RealEvents(c, FinishEvents(tr)) EXCEPT !.stop = StopReason(tr)]
         ELSE [RealBody(c, "200", "message") EXCEPT !.message = BuildMessage(tr),
                                                    !.stop = StopReason(tr)]

Deliver ==
    /\ hpc = "deliver"
    /\ client' = Delivered(client)
    /\ mu' = "free" /\ hpc' = "gone"
    /\ UNCHANGED <<wantStream, said, answer, end, ppc, tw, tr>>

-----------------------------------------------------------------------------
(***************************************************************************)
(* The ping goroutine.  Its select may still take the ticker once the      *)
(* channel is closed.  Pings in a row are recorded as one.                 *)
(***************************************************************************)
Tick ==
    /\ ppc = "select"
    /\ ppc' = "lock"
    /\ UNCHANGED <<wantStream, said, answer, end, hpc, mu, tw, tr, client>>

PingLock ==
    /\ ppc = "lock" /\ mu = "free"
    /\ mu' = "ping" /\ ppc' = "tick"
    /\ UNCHANGED <<wantStream, said, answer, end, hpc, tw, tr, client>>

PingTick ==
    /\ ppc = "tick"
    /\ client' = IF tw.isError \/ Last(client.events).type = "ping" THEN client
                 ELSE RealEvents(client, <<Bare("ping")>>)
    /\ mu' = "free" /\ ppc' = "select"
    /\ UNCHANGED <<wantStream, said, answer, end, hpc, tw, tr>>

PingStop ==
    /\ ppc = "select" /\ tw.pingStop = "closed"
    /\ ppc' = "exited"
    /\ UNCHANGED <<wantStream, said, answer, end, hpc, mu, tw, tr, client>>

Finish == StopPing \/ WaitPing \/ Lock \/ Deliver

Next ==
    \/ Inform \/ Refuse \/ GiveUp \/ FlushHeaders \/ CopyPart \/ CopyTail
    \/ \E s \in {"200", "error"} : Respond(s)
    \/ \E c \in Chunks : CopyEvent(c)
    \/ \E how \in {"clean", "cut"} : EndBody(how)
    \/ StopPing \/ WaitPing \/ Lock \/ Deliver
    \/ Tick \/ PingLock \/ PingTick \/ PingStop

Spec == Init /\ [][Next]_vars

\* Both goroutines run; Go's select takes each ready case in the long run.
FairSpec == Spec /\ WF_vars(Finish) /\ WF_vars(PingLock \/ PingTick) /\ SF_vars(PingStop)

-----------------------------------------------------------------------------
(***************************************************************************)
(* The stream is one the Anthropic protocol allows, at every moment:       *)
(* message_start opens it, content blocks come one after the other,        *)
(* numbered from 0 and each closed before the next, message_delta follows  *)
(* the last, and after message_stop nothing does, not even a ping.         *)
(***************************************************************************)
Count(type, i) == Cardinality({j \in 1..i : client.events[j].type = type})

WellFormed ==
    \A i \in DOMAIN client.events :
        LET e == client.events[i]
            open == Count("start", i - 1) - Count("stop", i - 1)
        IN  /\ e.type = "message_start" <=> i = 1
            /\ e.type = "start" => open = 0 /\ e.block = Count("start", i - 1)
            /\ e.type \in {"delta", "stop"} => open = 1 /\ e.block = Count("stop", i - 1)
            /\ e.type \in {"message_delta", "message_stop"} => open = 0
            /\ e.type = "message_stop" <=> Count("message_delta", i - 1) = 1
            /\ Count("message_stop", i - 1) = 0

(***************************************************************************)
(* Once the handler has returned, the ping goroutine is gone: net/http may *)
(* hand the response to another request.                                   *)
(***************************************************************************)
\* Why: the pings run only while the channel is there, and the handler has
\* waited for them before it takes the lock for the last time.
PingInv ==
    /\ tw \in [status : Statuses, isError : BOOLEAN, realStarted : BOOLEAN,
               pingStop : {"nil", "open", "closed"}]
    /\ tw.pingStop = "nil" <=> ppc = "none"
    /\ tw.status = "none" => tw.pingStop = "nil"
    /\ hpc \in {"lock", "deliver", "gone"} => ppc \in {"none", "exited"}
    /\ mu = "ping" <=> ppc = "tick"
    /\ mu = "handler" <=> hpc = "deliver"

PingEnds == hpc = "gone" => ppc \in {"none", "exited"}

(***************************************************************************)
(* A reply that ends well reaches the client whole, streamed or not: one   *)
(* text block with every text in the order the backend sent it, then one   *)
(* block per tool call in the order of their first pieces, whatever the    *)
(* interleaving of the pieces, and the stop reason that goes with them.    *)
(***************************************************************************)
TextSaid == Only([n \in DOMAIN said |-> n], {n \in DOMAIN said : said[n].text})
CallPieces == FlattenSeq([n \in DOMAIN said |-> [k \in DOMAIN said[n].calls |->
                  [index |-> said[n].calls[k].index, whole |-> said[n].calls[k].whole, at |-> n]]])
PiecesOf(i) == Only(CallPieces, {p \in Range(CallPieces) : p.index = i})
FirstPieces ==
    Only([m \in DOMAIN CallPieces |-> m],
         {m \in DOMAIN CallPieces : \A l \in 1..(m - 1) : CallPieces[l].index # CallPieces[m].index})
ContentSaid ==
    (IF TextSaid = <<>> THEN <<>> ELSE <<TextSaid>>)
        \o [k \in DOMAIN FirstPieces |-> ParsedArgs(PiecesOf(CallPieces[FirstPieces[k]].index))]
ReasonsGiven == Only([n \in DOMAIN said |-> said[n].reason], Reasons \ {""})
ReasonSaid == IF CallPieces # <<>> THEN "tool_use"
              ELSE IF ReasonsGiven = <<>> THEN "end_turn"
              ELSE CASE Last(ReasonsGiven) = "tool_calls" -> "tool_use"
                     [] Last(ReasonsGiven) = "length" -> "max_tokens"
                     [] OTHER -> "end_turn"

ContentReceived ==
    LET events == client.events IN
    IF ~wantStream THEN client.message
    ELSE [b \in 1..Count("start", Len(events)) |->
             FlattenSeq([i \in DOMAIN events |->
                 IF events[i].block = b - 1 THEN events[i].of ELSE <<>>])]

Whole == hpc = "gone" /\ tw.status = "200" /\ end = "clean"
             => /\ client.status = "200" /\ ContentReceived = ContentSaid
                /\ client.stop = ReasonSaid

(***************************************************************************)
(* A refusal reaches the client as an error status with an error body and  *)
(* no stream: always when it is the router's own, and for a backend's when *)
(* the client did not ask for a stream.  (A 1xx that came first has        *)
(* decided the status already.)                                            *)
(***************************************************************************)
RefusalShown ==
    (hpc = "gone" /\ answer # "200" /\ tw.status # "info" /\ ~(wantStream /\ answer = "error"))
        => client.status = "error" /\ client.body = "error" /\ client.events = <<>>

(***************************************************************************)
(* What the client is shown is what the backend answered: its reply, whole *)
(* and with its stop reason, or its refusal.                               *)
(***************************************************************************)
ReplyShown == Whole /\ RefusalShown

(***************************************************************************)
(* finish returns: waiting for the pings is never a deadlock on the mutex. *)
(***************************************************************************)
Finishes == hpc = "finish" ~> hpc = "gone"

(***************************************************************************)
(* "anything else is buffered and remapped to an Anthropic error envelope  *)
(* ... a real Anthropic error" (router_anthropic.go:417): for a client     *)
(* that asked for a stream, too.                                           *)
(***************************************************************************)
ErrorKeepsStatus == hpc = "gone" /\ answer = "error" => client.status = "error"

(***************************************************************************)
(* A failure in mid-stream ends the stream "with an in-band error event"   *)
(* (router_anthropic.go:612), never as a message that is complete.         *)
(***************************************************************************)
CutShows == hpc = "gone" /\ end = "cut" => Count("message_stop", Len(client.events)) = 0

(***************************************************************************)
(* "a 200 begins the Anthropic-shaped response" (router_anthropic.go:416): *)
(* a backend that answered 200 is never shown as an error.                 *)
(***************************************************************************)
AnswerShown == hpc = "gone" /\ answer = "200" => client.body # "error"
=============================================================================
