-------------------------- MODULE Anthropic_proofs --------------------------
(***************************************************************************)
(* What the Anthropic redirect promises, for any backend: any events,      *)
(* chunks and tool calls, any usage reports, any bounds.  The ping         *)
(* goroutine never outlives the handler and never writes while it does.    *)
(* A native request is charged once, with what the backend last said of    *)
(* each field.  What a client has been sent is always the beginning of a   *)
(* well-formed message, and at its end that message holds what the backend *)
(* said: its text, its thinking, its tool calls and its reason to stop.    *)
(* The body a backend is sent holds the conversation it was made of.       *)
(*                                                                         *)
(* The last are arguments about loops, over the events of a chunk and the  *)
(* messages of a request.  A recursive function is followed along its      *)
(* domain with the least number principle: were some prefix wrong, there   *)
(* would be a shortest one.                                                *)
(***************************************************************************)
EXTENDS AnthropicRedirect, FiniteSetTheorems, SequenceTheorems, WellFoundedInduction, TLAPS

\* What the tap holds is the last report of each field of what was read whole.
UsageInv ==
    /\ told \in Seq(Usages)
    /\ tap \in [seen : BOOLEAN, usage : [Native!Fields -> Nat], line : {"empty", "cut", "whole", "long"},
                last : Usages \cup {Native!NoUsage}, done : BOOLEAN]
    /\ body \in {"none", "sse", "json", "plain"}
    /\ tap.seen <=> told # <<>>
    /\ \A f \in Native!Fields : tap.usage[f] = Native!LastOf(f)
    /\ tap.line = "whole" => tap.last \in Usages
    /\ body \in {"none", "plain"} => told = <<>> /\ tap.line = "empty"
    /\ IF tap.done THEN noted = IF told = <<>> THEN <<>> ELSE <<tap.usage>>
                   ELSE noted = <<>>
    /\ tap.done => tap.line = "empty"
    /\ at = "attempt" => body = "none"
    /\ at \in {"attempt", "body"} => ~tap.done
    /\ at = "close" /\ ending = "eof" => tap.done \/ body = "plain"
    /\ at = "over" => tap.done \/ body \in {"none", "plain"}
    /\ at = "fallback" => tap.done \/ body \in {"none", "plain"}
    /\ at # "attempt" /\ body = "none" => at \in {"fallback", "over"}

\* The answer to a count_tokens, and where it stands.
CountInv ==
    /\ at \in {"attempt", "body", "close", "fallback", "over"}
    /\ status \in Native!Statuses \cup {"none"}
    /\ at = "attempt" => status = "none" /\ ending = "none"
    /\ at = "body" => status # "none" /\ ending = "none"
    /\ at = "close" => ending \in {"eof", "cut"} /\ status # "none"
    /\ route = "count_tokens" /\ probe # "info" /\ ending # "cut" =>
           /\ at # "over" => reply = IF status \in {"none", "missing"} THEN <<>> ELSE <<status>>
           /\ at = "over" => Native!Answered
           /\ at # "attempt" => probe = status
           /\ at = "attempt" => probe = "none"
           /\ at = "fallback" => status \in {"none", "missing"}

-----------------------------------------------------------------------------
(* Numbers and sequences.                                                 *)

\* A set of numbers that is not empty has a least one.
LEMMA LeastNumber ==
  ASSUME NEW S \in SUBSET Nat, S # {}
  PROVE  \E x \in S : \A y \in S : x <= y
<1>1. PICK x \in S : \A y \in S : <<y, x>> \notin OpToRel(<, Nat)
  BY NatLessThanWellFounded, WFMin
<1>2. \A y \in S : ~(y < x)
  BY <1>1 DEF OpToRel
<1> QED
  BY <1>2

\* A set of numbers up to n that is not empty has a greatest one.
LEMMA GreatestNumber ==
  ASSUME NEW n \in Nat, NEW S \in SUBSET (1 .. n), S # {}
  PROVE  Max(S) \in S /\ \A y \in S : Max(S) >= y
<1> DEFINE D == {n - x : x \in S}
<1>1. \A x \in S : x \in Nat /\ n - x \in Nat
  OBVIOUS
<1>2. D \in SUBSET Nat /\ D # {}
  BY <1>1
<1> HIDE DEF D
<1>3. PICK d \in D : \A y \in D : d <= y
  BY <1>2, LeastNumber
<1> USE DEF D
<1>4. PICK x \in S : d = n - x
  BY <1>3
<1>5. \A y \in S : n - x <= n - y
  BY <1>3, <1>4
<1>6. \A y \in S : x >= y
  BY <1>1, <1>5
<1>7. Max(S) = CHOOSE m \in S : \A y \in S : m >= y
  BY DEF Max
<1> QED
  BY <1>6, <1>7

-----------------------------------------------------------------------------
(* AnthropicNative.                                                       *)

\* One report more decides the fields that it has.
LEMMA LastOfAppend ==
  ASSUME told \in Seq(Usages), NEW u \in Usages, told' = Append(told, u),
         NEW f \in Native!Fields
  PROVE  Native!LastOf(f)' = IF u[f] > 0 THEN u[f] ELSE Native!LastOf(f)
<1> DEFINE given == {n \in DOMAIN told : told[n][f] > 0}
           later == {n \in DOMAIN told' : told'[n][f] > 0}
           n == Len(told)
<1>1. /\ n \in Nat /\ DOMAIN told = 1 .. n /\ DOMAIN told' = 1 .. (n + 1)
      /\ told'[n + 1] = u /\ \A i \in 1 .. n : told'[i] = told[i]
  OBVIOUS
<1>2. CASE u[f] > 0
  <2>1. n + 1 \in later /\ later \in SUBSET (1 .. (n + 1))
    BY <1>1, <1>2
  <2>2. Max(later) = n + 1
    <3> HIDE DEF later
    <3>0. PICK N \in Nat : N = n + 1
      BY <1>1
    <3> HIDE DEF n
    <3>1. later \in SUBSET (1 .. N) /\ later # {}
      BY <2>1, <3>0
    <3>2. Max(later) \in later /\ \A y \in later : Max(later) >= y
      BY <3>1, GreatestNumber
    <3>3. Max(later) \in 1 .. N /\ Max(later) >= N
      BY <2>1, <3>0, <3>1, <3>2
    <3> QED
      BY <3>0, <3>3
  <2> HIDE DEF later, n
  <2>3. Native!LastOf(f)' = told'[Max(later)][f]
    BY <2>1 DEF Native!LastOf, Native!Max, Max, later
  <2> QED
    BY <1>1, <1>2, <2>2, <2>3
<1>3. CASE ~(u[f] > 0)
  <2>1. later = given
    BY <1>1, <1>3
  <2>2. given # {} => Max(given) \in 1 .. n
    <3>1. given \in SUBSET (1 .. n)
      BY <1>1
    <3> QED
      BY <1>1, <3>1, GreatestNumber
  <2>3. given # {} => told'[Max(given)] = told[Max(given)]
    BY <1>1, <2>2
  <2> HIDE DEF given, later
  <2>4. Native!LastOf(f)' = IF later = {} THEN 0 ELSE told'[Max(later)][f]
    BY DEF Native!LastOf, Native!Max, Max, later
  <2>5. Native!LastOf(f) = IF given = {} THEN 0 ELSE told[Max(given)][f]
    BY DEF Native!LastOf, Native!Max, Max, given
  <2> QED
    BY <1>3, <2>1, <2>3, <2>4, <2>5
<1> QED
  BY <1>2, <1>3

\* What does not touch the reports does not touch the last ones.
LEMMA LastOfSame ==
  ASSUME told' = told
  PROVE  \A f \in Native!Fields : Native!LastOf(f)' = Native!LastOf(f)
  BY DEF Native!LastOf, Native!Max


\* The exchange starts with nothing read and nothing written.
LEMMA NativeInit ==
  ASSUME Native!Init
  PROVE  UsageInv /\ CountInv
<1>1. told = <<>> /\ \A f \in Native!Fields : Native!LastOf(f) = 0
  BY DEF Native!Init, Native!LastOf
<1>2. UsageInv
  BY <1>1 DEF UsageInv, Native!Init, Native!NoTap, Native!NoUsage, Native!Fields
<1>3. CountInv
  BY DEF CountInv, Native!Init, Native!Statuses
<1> QED
  BY <1>2, <1>3

\* A report that is merged into the tap is the last one of the fields it has.
LEMMA MergeCounts ==
  ASSUME UsageInv, NEW u \in Usages, told' = Append(told, u)
  PROVE  /\ told' \in Seq(Usages) /\ told' # <<>>
         /\ Native!Merge(tap, u) = [tap EXCEPT !.seen = TRUE, !.usage = Native!Merge(tap, u).usage]
         /\ Native!Merge(tap, u).usage \in [Native!Fields -> Nat]
         /\ \A f \in Native!Fields : Native!Merge(tap, u).usage[f] = Native!LastOf(f)'
<1>1. u \in [Native!Fields -> Nat]
  BY RedirectAssumption
<1>2. told \in Seq(Usages) /\ \A f \in Native!Fields : tap.usage[f] = Native!LastOf(f)
  BY DEF UsageInv
<1>3. \A f \in Native!Fields : Native!LastOf(f)' = IF u[f] > 0 THEN u[f] ELSE Native!LastOf(f)
  BY <1>2, LastOfAppend
<1>4. told' \in Seq(Usages) /\ told' # <<>>
  BY <1>2
<1>5. Native!Merge(tap, u).usage = [f \in Native!Fields |-> IF u[f] > 0 THEN u[f] ELSE tap.usage[f]]
  BY DEF Native!Merge, UsageInv
<1>6. Native!Merge(tap, u) = [tap EXCEPT !.seen = TRUE, !.usage = Native!Merge(tap, u).usage]
  BY <1>5 DEF Native!Merge, UsageInv
<1>7. \A f \in Native!Fields : tap.usage[f] \in Nat
  BY DEF UsageInv
<1> QED
  BY <1>1, <1>2, <1>3, <1>4, <1>5, <1>6, <1>7

\* finish reads an event that only lacked its newline, and charges once what the
\* tap then holds, whichever of the end of the body and Close runs it.
LEMMA FinishCounts ==
  ASSUME UsageInv, at \in {"body", "close"}, Native!Finish
  PROVE  /\ told' \in Seq(Usages)
         /\ tap' \in [seen : BOOLEAN, usage : [Native!Fields -> Nat],
                      line : {"empty", "cut", "whole", "long"},
                      last : Usages \cup {Native!NoUsage}, done : BOOLEAN]
         /\ tap'.seen <=> told' # <<>>
         /\ \A f \in Native!Fields : tap'.usage[f] = Native!LastOf(f)'
         /\ tap'.line = "empty"
         /\ body = "plain" => told' = <<>>
         /\ tap'.done \/ body = "plain"
         /\ IF tap'.done THEN noted' = IF told' = <<>> THEN <<>> ELSE <<tap'.usage>>
                         ELSE noted' = <<>>
<1>1. CASE tap.done \/ body = "plain"
  <2>1. tap' = tap /\ noted' = noted /\ told' = told
    BY <1>1 DEF Native!Finish
  <2>2. \A f \in Native!Fields : Native!LastOf(f)' = Native!LastOf(f)
    BY <2>1, LastOfSame
  <2> QED
    BY <1>1, <2>1, <2>2 DEF UsageInv
<1>2. CASE ~(tap.done \/ body = "plain") /\ tap.line = "whole"
  <2> DEFINE t == Native!Merge(tap, tap.last)
  <2>1. tap.last \in Usages /\ noted = <<>>
    BY <1>2 DEF UsageInv
  <2>2. /\ told' = Append(told, tap.last) /\ Native!Report(t)
    BY <1>2 DEF Native!Finish
  <2>3. /\ told' \in Seq(Usages) /\ told' # <<>>
        /\ t = [tap EXCEPT !.seen = TRUE, !.usage = t.usage]
        /\ t.usage \in [Native!Fields -> Nat]
        /\ \A f \in Native!Fields : t.usage[f] = Native!LastOf(f)'
    BY <2>1, <2>2, MergeCounts
  <2> HIDE DEF t
  <2>4. /\ tap' = [tap EXCEPT !.seen = TRUE, !.usage = t.usage, !.line = "empty",
                              !.last = Native!NoUsage, !.done = TRUE]
        /\ noted' = <<t.usage>>
    <3>1. t.seen = TRUE
      BY <2>3 DEF UsageInv
    <3>2. Native!Emptied(t) = [tap EXCEPT !.seen = TRUE, !.usage = t.usage, !.line = "empty",
                                          !.last = Native!NoUsage]
      BY <2>3 DEF UsageInv, Native!Emptied
    <3> QED
      BY <2>1, <2>2, <3>1, <3>2 DEF Native!Report, UsageInv
  <2>5. tap'.usage = t.usage
    BY <2>4 DEF UsageInv
  <2> QED
    BY <1>2, <2>3, <2>4, <2>5 DEF UsageInv
<1>3. CASE ~(tap.done \/ body = "plain") /\ tap.line # "whole"
  <2>1. Native!Report(tap) /\ told' = told /\ noted = <<>>
    BY <1>3 DEF Native!Finish, UsageInv
  <2>2. /\ tap' = [tap EXCEPT !.line = "empty", !.last = Native!NoUsage, !.done = TRUE]
        /\ noted' = IF tap.seen THEN <<tap.usage>> ELSE <<>>
    BY <2>1 DEF Native!Report, Native!Emptied, UsageInv
  <2>3. \A f \in Native!Fields : Native!LastOf(f)' = Native!LastOf(f)
    BY <2>1, LastOfSame
  <2> QED
    BY <1>3, <2>1, <2>2, <2>3 DEF UsageInv
<1> QED
  BY <1>1, <1>2, <1>3

\* Every step of the exchange keeps what the tap holds the last of what was read.
LEMMA UsageStep ==
  ASSUME UsageInv, CountInv, Native!Next
  PROVE  UsageInv'
<1> DEFINE Same == tap' = tap /\ told' = told /\ noted' = noted
<1>0. Same => \A f \in Native!Fields : Native!LastOf(f)' = Native!LastOf(f)
  BY LastOfSame
<1>1. CASE Native!Fails
  BY <1>0, <1>1 DEF UsageInv, Native!Fails
<1>2. CASE Native!Inform
  BY <1>0, <1>2 DEF UsageInv, Native!Inform
<1>3. CASE Native!Estimate
  BY <1>0, <1>3 DEF UsageInv, Native!Estimate
<1>4. CASE Native!Breaks
  BY <1>0, <1>4 DEF UsageInv, Native!Breaks
<1>5. ASSUME NEW s \in Native!Statuses, NEW kind \in {"sse", "json", "plain"},
             Native!Respond(s, kind)
      PROVE  UsageInv'
  BY <1>0, <1>5 DEF UsageInv, Native!Respond, Native!Tapped
<1>6. ASSUME NEW line \in {"cut", "whole", "long"}, NEW u \in Usages \cup {Native!NoUsage},
             line = "whole" => u \in Usages, Native!ReadPart(line, u)
      PROVE  UsageInv'
  <2>1. /\ at = "body" /\ body \in {"sse", "json"} /\ told' = told /\ noted' = noted
        /\ at' = at /\ body' = body /\ ending' = ending
        /\ tap' = [tap EXCEPT !.line = line, !.last = u]
    BY <1>6 DEF Native!ReadPart
  <2>2. /\ tap'.line = line /\ tap'.last = u /\ tap'.done = tap.done
        /\ tap'.seen = tap.seen /\ tap'.usage = tap.usage
    BY <2>1 DEF UsageInv
  <2>3. tap' \in [seen : BOOLEAN, usage : [Native!Fields -> Nat], line : {"empty", "cut", "whole", "long"},
                  last : Usages \cup {Native!NoUsage}, done : BOOLEAN]
    BY <1>6, <2>1 DEF UsageInv
  <2>4. ~tap.done
    BY <2>1 DEF UsageInv
  <2>5. \A f \in Native!Fields : tap'.usage[f] = Native!LastOf(f)'
    <3>1. \A f \in Native!Fields : tap.usage[f] = Native!LastOf(f)
      BY DEF UsageInv
    <3>2. \A f \in Native!Fields : Native!LastOf(f)' = Native!LastOf(f)
      BY <2>1, LastOfSame
    <3> QED
      BY <2>2, <3>1, <3>2
  <2>6. noted' = <<>> /\ told' \in Seq(Usages) /\ (tap'.seen <=> told' # <<>>)
    BY <2>1, <2>2, <2>4 DEF UsageInv
  <2>7. tap'.line = "whole" => tap'.last \in Usages
    BY <1>6, <2>2
  <2> HIDE <1>6
  <2> QED
    BY <2>1, <2>2, <2>3, <2>4, <2>5, <2>6, <2>7 DEF UsageInv
<1>7. ASSUME NEW u \in Usages, Native!ReadLine(u)
      PROVE  UsageInv'
  <2> USE <1>7
  <2>1. at = "body" /\ body = "sse" /\ noted' = noted /\ at' = at /\ body' = body /\ ending' = ending
    BY DEF Native!ReadLine
  <2>2. CASE tap.line = "long"
    <3>1. told' = told /\ tap' = [tap EXCEPT !.line = "empty", !.last = Native!NoUsage]
      BY <2>2 DEF Native!ReadLine, Native!Emptied
    <3>2. \A f \in Native!Fields : Native!LastOf(f)' = Native!LastOf(f)
      BY <3>1, LastOfSame
    <3> QED
      BY <2>1, <3>1, <3>2 DEF UsageInv
  <2>3. CASE tap.line # "long"
    <3> DEFINE t == Native!Merge(tap, u)
    <3>1. told' = Append(told, u) /\ tap' = Native!Emptied(t)
      BY <2>3 DEF Native!ReadLine
    <3>2. /\ told' \in Seq(Usages) /\ told' # <<>>
          /\ t = [tap EXCEPT !.seen = TRUE, !.usage = t.usage]
          /\ t.usage \in [Native!Fields -> Nat]
          /\ \A f \in Native!Fields : t.usage[f] = Native!LastOf(f)'
      BY <3>1, MergeCounts
    <3> HIDE DEF t
    <3>3. tap' = [tap EXCEPT !.seen = TRUE, !.usage = t.usage, !.line = "empty",
                             !.last = Native!NoUsage]
      BY <3>1, <3>2 DEF UsageInv, Native!Emptied
    <3>4. tap'.usage = t.usage /\ tap'.seen /\ tap'.line = "empty" /\ tap'.done = tap.done
      BY <3>3 DEF UsageInv
    <3>5. ~tap.done /\ noted = <<>>
      BY <2>1 DEF UsageInv
    <3> QED
      BY <2>1, <3>2, <3>3, <3>4, <3>5 DEF UsageInv
  <2> QED
    BY <2>2, <2>3
<1>8. CASE Native!Eof
  <2>1. Native!Finish /\ at = "body" /\ at' = "close" /\ body' = body /\ ending' = "eof"
    BY <1>8 DEF Native!Eof
  <2>2. body # "none"
    BY <2>1 DEF UsageInv
  <2> QED
    BY <2>1, <2>2, FinishCounts DEF UsageInv
<1>9. CASE Native!Close
  <2>1. Native!Finish /\ at = "close" /\ at' \in {"fallback", "over"} /\ body' = body /\ ending' = ending
    BY <1>9 DEF Native!Close
  <2>2. body # "none"
    BY <2>1 DEF UsageInv
  <2> QED
    BY <2>1, <2>2, FinishCounts DEF UsageInv
<1> QED
  BY <1>1, <1>2, <1>3, <1>4, <1>5, <1>6, <1>7, <1>8, <1>9 DEF Native!Next

\* Every step of the exchange keeps the answer to a count_tokens single.
LEMMA CountStep ==
  ASSUME CountInv, Native!Next
  PROVE  CountInv'
<1> USE DEF CountInv, Native!Statuses
<1>1. CASE Native!Fails
  BY <1>1 DEF Native!Fails
<1>2. CASE Native!Inform
  BY <1>2 DEF Native!Inform, Native!Decide
<1>3. CASE Native!Estimate
  <2>1. /\ at = "fallback" /\ at' = "over" /\ reply' = Append(reply, "estimate")
        /\ UNCHANGED <<route, probe, status, ending>>
    BY <1>3 DEF Native!Estimate, Native!Wrote
  <2>2. CASE route = "count_tokens" /\ probe # "info" /\ ending # "cut"
    <3>1. status \in {"none", "missing"} /\ reply = <<>>
      BY <2>1, <2>2
    <3>2. reply' = <<"estimate">>
      BY <2>1, <3>1
    <3> QED
      BY <2>1, <2>2, <3>1, <3>2 DEF Native!Answered
  <2> QED
    BY <2>1, <2>2
<1>4. CASE Native!Breaks
  BY <1>4 DEF Native!Breaks
<1>5. ASSUME NEW s \in Native!Statuses, NEW kind \in {"sse", "json", "plain"},
             Native!Respond(s, kind)
      PROVE  CountInv'
  <2>1. /\ at = "attempt" /\ at' = "body" /\ status' = s
        /\ reply' = Native!Relay(s) /\ Native!Decide(s) /\ UNCHANGED <<route, ending>>
    BY <1>5 DEF Native!Respond
  <2>2. CASE route = "count_tokens" /\ probe = "none"
    <3>1. probe' = s /\ reply = <<>>
      BY <2>1, <2>2 DEF Native!Decide
    <3>2. reply' = IF s = "missing" THEN <<>> ELSE <<s>>
      BY <2>1, <2>2, <3>1 DEF Native!Relay, Native!Wrote
    <3> QED
      BY <2>1, <2>2, <3>1, <3>2
  <2>3. CASE route = "count_tokens" /\ probe # "none"
    BY <2>1, <2>3 DEF Native!Decide
  <2>4. CASE route # "count_tokens"
    BY <2>1, <2>4
  <2> QED
    BY <2>2, <2>3, <2>4
<1>6. ASSUME NEW line, NEW u, Native!ReadPart(line, u)
      PROVE  CountInv'
  BY <1>6 DEF Native!ReadPart, Native!Answered
<1>7. ASSUME NEW u, Native!ReadLine(u)
      PROVE  CountInv'
  BY <1>7 DEF Native!ReadLine, Native!Answered
<1>8. CASE Native!Eof
  BY <1>8 DEF Native!Eof
<1>9. CASE Native!Close
  BY <1>9 DEF Native!Close, Native!Answered
<1> QED
  BY <1>1, <1>2, <1>3, <1>4, <1>5, <1>6, <1>7, <1>8, <1>9 DEF Native!Next

\* NativeCounted: however the reads cut the body of a native answer and however
\* it ends, the connection is charged once with what the backend reported last
\* (usageTap of anthropic_usage_tap.go), and a count_tokens is answered once, by
\* the backend or by the estimate (countTokensProbe of
\* router_anthropic_native.go).
THEOREM NativeChargedOnce == RedirectSpec => []NativeCounted
<1>1. RedirectInit => UsageInv /\ CountInv
  BY NativeInit DEF RedirectInit
<1>2. UsageInv /\ CountInv /\ [RedirectNext]_redirectVars => UsageInv' /\ CountInv'
  <2>1. ASSUME UsageInv, CountInv, UNCHANGED nativeVars
        PROVE  UsageInv' /\ CountInv'
    <3>1. \A f \in Native!Fields : Native!LastOf(f)' = Native!LastOf(f)
      BY <2>1, LastOfSame DEF nativeVars
    <3>2. UsageInv'
      BY <2>1, <3>1 DEF UsageInv, nativeVars
    <3>3. CountInv'
      BY <2>1 DEF CountInv, nativeVars, Native!Answered
    <3> QED
      BY <3>2, <3>3
  <2>2. ASSUME UsageInv, CountInv, Native!Next
        PROVE  UsageInv' /\ CountInv'
    BY <2>2, UsageStep, CountStep
  <2> QED
    BY <2>1, <2>2 DEF RedirectNext, ServeNative, RefuseBody, Translate, EnterProxy, Exchange,
                      redirectVars
<1>3. UsageInv /\ CountInv => NativeCounted
  <2> SUFFICES ASSUME UsageInv, CountInv
               PROVE  Native!UsageCounted /\ Native!CountAnswered
    BY DEF NativeCounted
  <2>1. ASSUME at = "over"
        PROVE  noted = IF told = <<>> THEN <<>> ELSE <<[f \in Native!Fields |-> Native!LastOf(f)]>>
    <3>1. tap.usage = [f \in Native!Fields |-> Native!LastOf(f)]
      BY DEF UsageInv
    <3>2. CASE tap.done
      BY <3>1, <3>2 DEF UsageInv
    <3>3. CASE ~tap.done
      BY <2>1, <3>3 DEF UsageInv
    <3> QED
      BY <3>2, <3>3
  <2>2. Native!CountAnswered
    BY DEF Native!CountAnswered, CountInv
  <2> QED
    BY <2>1, <2>2 DEF Native!UsageCounted
<1> QED
  BY <1>1, <1>2, <1>3, PTL DEF RedirectSpec

-----------------------------------------------------------------------------
(* AnthropicStream: the events.                                           *)

EventTypes == {"message_start", "start", "delta", "stop", "ping", "message_delta", "message_stop"}
Events == [type : EventTypes, block : Int, of : Seq(Nat)]

\* Count and WellFormed of any stream of events.
CountIn(s, type, i) == Cardinality({j \in 1 .. i : s[j].type = type})

Formed(s) ==
    \A i \in DOMAIN s :
        LET e == s[i]
            open == CountIn(s, "start", i - 1) - CountIn(s, "stop", i - 1)
        IN  /\ e.type = "message_start" <=> i = 1
            /\ e.type = "start" => open = 0 /\ e.block = CountIn(s, "start", i - 1)
            /\ e.type \in {"delta", "stop"} => open = 1 /\ e.block = CountIn(s, "stop", i - 1)
            /\ e.type \in {"message_delta", "message_stop"} => open = 0
            /\ e.type = "message_stop" <=> CountIn(s, "message_delta", i - 1) = 1
            /\ CountIn(s, "message_stop", i - 1) = 0

\* A stream that has opened and closed so many blocks, and ended or not.
Stream(s, opened, closed, deltas, stops) ==
    /\ s \in Seq(Events) /\ s # <<>> /\ Formed(s)
    /\ CountIn(s, "start", Len(s)) = opened /\ CountIn(s, "stop", Len(s)) = closed
    /\ CountIn(s, "message_delta", Len(s)) = deltas /\ CountIn(s, "message_stop", Len(s)) = stops

\* One event more is counted under its own type.
LEMMA CountAppend ==
  ASSUME NEW s \in Seq(Events), NEW e \in Events, NEW type
  PROVE  /\ \A i \in 0 .. Len(s) : /\ CountIn(s, type, i) \in Nat
                                   /\ CountIn(Append(s, e), type, i) = CountIn(s, type, i)
         /\ CountIn(Append(s, e), type, Len(s) + 1) =
                IF e.type = type THEN CountIn(s, type, Len(s)) + 1 ELSE CountIn(s, type, Len(s))
<1> DEFINE t == Append(s, e)
           Of(q, i) == {j \in 1 .. i : q[j].type = type}
<1>1. PICK n \in Nat : n = Len(s)
  OBVIOUS
<1>2. t[n + 1] = e /\ \A j \in 1 .. n : t[j] = s[j]
  BY <1>1
<1> HIDE DEF t
<1>3. \A i \in 0 .. n : IsFiniteSet(Of(s, i)) /\ Cardinality(Of(s, i)) \in Nat
  <2> TAKE i \in 0 .. n
  <2>1. i \in Nat /\ 0 \in Nat /\ IsFiniteSet(1 .. i)
    BY FS_Interval
  <2>2. IsFiniteSet(Of(s, i))
    BY <2>1, FS_Subset
  <2> QED
    BY <2>2, FS_CardinalityType
<1>4. \A i \in 0 .. n : Of(t, i) = Of(s, i)
  BY <1>2
<1>5. CASE e.type = type
  <2>1. Of(t, n + 1) = Of(s, n) \cup {n + 1} /\ n + 1 \notin Of(s, n)
    BY <1>2, <1>5
  <2> HIDE DEF Of
  <2>2. Cardinality(Of(t, n + 1)) = Cardinality(Of(s, n)) + 1
    BY <1>1, <1>3, <2>1, FS_AddElement
  <2> QED
    BY <1>1, <1>3, <1>4, <1>5, <2>2 DEF CountIn, Of, t
<1>6. CASE e.type # type
  <2>1. Of(t, n + 1) = Of(s, n)
    BY <1>2, <1>6
  <2> HIDE DEF Of
  <2> QED
    BY <1>1, <1>3, <1>4, <1>6, <2>1 DEF CountIn, Of, t
<1> QED
  BY <1>5, <1>6

\* What the next event of a stream must be: of a block that is open, of the next
\* one, or of the end.
Fits(e, opened, closed, deltas, stops) ==
    /\ e \in Events /\ e.type # "message_start" /\ stops = 0
    /\ e.type = "start" => opened = closed /\ e.block = opened
    /\ e.type \in {"delta", "stop"} => opened = closed + 1 /\ e.block = closed
    /\ e.type \in {"message_delta", "message_stop"} => opened = closed
    /\ e.type = "message_stop" <=> deltas = 1

\* An event that fits keeps the stream formed, and counts.
LEMMA StreamAppend ==
  ASSUME NEW s, NEW opened \in Nat, NEW closed \in Nat, NEW deltas \in Nat, NEW stops \in Nat,
         Stream(s, opened, closed, deltas, stops),
         NEW e, Fits(e, opened, closed, deltas, stops)
  PROVE  Stream(Append(s, e),
                IF e.type = "start" THEN opened + 1 ELSE opened,
                IF e.type = "stop" THEN closed + 1 ELSE closed,
                IF e.type = "message_delta" THEN deltas + 1 ELSE deltas,
                IF e.type = "message_stop" THEN stops + 1 ELSE stops)
<1> DEFINE t == Append(s, e)
<1>1. s \in Seq(Events) /\ e \in Events /\ s # <<>>
  BY DEF Stream, Fits
<1>2. PICK n \in Nat : n = Len(s)
  BY <1>1
<1>3. /\ t \in Seq(Events) /\ t # <<>> /\ Len(t) = n + 1 /\ DOMAIN t = 1 .. (n + 1)
      /\ t[n + 1] = e /\ DOMAIN s = 1 .. n /\ n # 0 /\ \A j \in 1 .. n : t[j] = s[j]
  BY <1>1, <1>2
<1>4. /\ \A type : \A i \in 0 .. n : CountIn(t, type, i) = CountIn(s, type, i)
      /\ \A type : CountIn(t, type, n + 1) =
                IF e.type = type THEN CountIn(s, type, n) + 1 ELSE CountIn(s, type, n)
  BY <1>1, <1>2, CountAppend
<1>5. /\ CountIn(s, "start", n) = opened /\ CountIn(s, "stop", n) = closed
      /\ CountIn(s, "message_delta", n) = deltas /\ CountIn(s, "message_stop", n) = stops
  BY <1>2 DEF Stream
<1> HIDE DEF t
<1>6. Formed(t)
  <2> SUFFICES ASSUME NEW i \in 1 .. (n + 1)
               PROVE  LET f == t[i]
                          open == CountIn(t, "start", i - 1) - CountIn(t, "stop", i - 1)
                      IN  /\ f.type = "message_start" <=> i = 1
                          /\ f.type = "start" => open = 0 /\ f.block = CountIn(t, "start", i - 1)
                          /\ f.type \in {"delta", "stop"} => open = 1 /\ f.block = CountIn(t, "stop", i - 1)
                          /\ f.type \in {"message_delta", "message_stop"} => open = 0
                          /\ f.type = "message_stop" <=> CountIn(t, "message_delta", i - 1) = 1
                          /\ CountIn(t, "message_stop", i - 1) = 0
    BY <1>3 DEF Formed
  <2>1. CASE i = n + 1
    <3>1. i - 1 = n /\ n \in 0 .. n /\ t[i] = e /\ i # 1
      BY <1>3, <2>1
    <3>2. /\ CountIn(t, "start", i - 1) = opened /\ CountIn(t, "stop", i - 1) = closed
          /\ CountIn(t, "message_delta", i - 1) = deltas /\ CountIn(t, "message_stop", i - 1) = stops
      BY <1>4, <1>5, <3>1
    <3> QED
      BY <3>1, <3>2 DEF Fits
  <2>2. CASE i # n + 1
    <3>1. i \in 1 .. n /\ i - 1 \in 0 .. n /\ t[i] = s[i]
      BY <1>3, <2>2
    <3>2. \A type : CountIn(t, type, i - 1) = CountIn(s, type, i - 1)
      BY <1>4, <3>1
    <3> QED
      BY <1>3, <3>1, <3>2 DEF Stream, Formed
  <2> QED
    BY <2>1, <2>2
<1> QED
  BY <1>3, <1>4, <1>5, <1>6 DEF Stream, t

\* One pass of the loop of FlattenSeq.
Flat(g, seqs, n) == g = [i \in 1 .. n |-> IF i = 1 THEN seqs[i] ELSE g[i - 1] \o seqs[i]]

\* The loop has a result, however long.
LEMMA FlatExists ==
  ASSUME NEW seqs
  PROVE  \A n \in Nat : \E g : Flat(g, seqs, n)
<1> DEFINE Bad == {n \in Nat : ~ \E g : Flat(g, seqs, n)}
<1>1. SUFFICES ASSUME Bad # {} PROVE FALSE
  OBVIOUS
<1>2. PICK n \in Bad : \A m \in Bad : n <= m
  BY <1>1, LeastNumber
<1>3. CASE n = 0
  <2>1. Flat([i \in 1 .. 0 |-> <<>>], seqs, 0)
    BY DEF Flat
  <2> QED
    BY <1>2, <1>3, <2>1
<1>4. CASE n # 0
  <2>1. n - 1 \in Nat /\ n - 1 \notin Bad /\ n \in Nat
    BY <1>2, <1>4
  <2>2. PICK g : Flat(g, seqs, n - 1)
    BY <2>1
  <2> DEFINE last == IF n = 1 THEN seqs[n] ELSE g[n - 1] \o seqs[n]
             h == [i \in 1 .. n |-> IF i = n THEN last ELSE g[i]]
  <2>3. \A i \in 1 .. (n - 1) : h[i] = g[i]
    BY <2>1
  <2>4. \A i \in 1 .. n : h[i] = IF i = 1 THEN seqs[i] ELSE h[i - 1] \o seqs[i]
    <3> SUFFICES ASSUME NEW i \in 1 .. n
                 PROVE  h[i] = IF i = 1 THEN seqs[i] ELSE h[i - 1] \o seqs[i]
      OBVIOUS
    <3>1. CASE i = n
      <4>1. (n # 1 => h[n - 1] = g[n - 1]) /\ h[n] = last
        BY <2>1, <2>3, <1>4
      <4> QED
        BY <3>1, <4>1
    <3>2. CASE i # n
      <4>1. i \in 1 .. (n - 1) /\ (i # 1 => i - 1 \in 1 .. (n - 1))
        BY <2>1, <3>2
      <4> HIDE DEF h
      <4>2. h[i] = g[i] /\ (i # 1 => h[i - 1] = g[i - 1])
        BY <2>3, <4>1
      <4>3. g[i] = IF i = 1 THEN seqs[i] ELSE g[i - 1] \o seqs[i]
        BY <2>2, <4>1 DEF Flat
      <4> QED
        BY <4>2, <4>3
    <3> QED
      BY <3>1, <3>2
  <2> HIDE DEF last
  <2>5. h = [i \in 1 .. n |-> h[i]]
    OBVIOUS
  <2> HIDE DEF h
  <2>6. Flat(h, seqs, n)
    BY <2>4, <2>5 DEF Flat
  <2> QED
    BY <1>2, <2>6
<1> QED
  BY <1>3, <1>4

\* FlattenSeq, sequence by sequence.
LEMMA FlattenSteps ==
  ASSUME NEW seqs, Len(seqs) \in Nat, Len(seqs) # 0
  PROVE  \E g : /\ g[1] = seqs[1]
                /\ \A i \in 2 .. Len(seqs) : g[i] = g[i - 1] \o seqs[i]
                /\ FlattenSeq(seqs) = g[Len(seqs)]
<1> DEFINE g == CHOOSE g : Flat(g, seqs, Len(seqs))
<1>1. FlattenSeq(seqs) = g[Len(seqs)]
  BY DEF FlattenSeq, Flat
<1>2. Flat(g, seqs, Len(seqs))
  BY FlatExists
<1> HIDE DEF g
<1>3. \A i \in 1 .. Len(seqs) : g[i] = IF i = 1 THEN seqs[i] ELSE g[i - 1] \o seqs[i]
  BY <1>2 DEF Flat
<1>4. 1 \in 1 .. Len(seqs) /\ \A i \in 2 .. Len(seqs) : i \in 1 .. Len(seqs) /\ i # 1
  OBVIOUS
<1> QED
  BY <1>1, <1>3, <1>4

\* What an event is made of.
LEMMA EventMade ==
  ASSUME NEW type \in EventTypes, NEW block \in Int, NEW of \in Seq(Nat)
  PROVE  /\ Event(type, block, of) \in Events
         /\ Event(type, block, of).type = type /\ Event(type, block, of).block = block
         /\ Event(type, block, of).of = of
  BY DEF Event, Events

\* An event of no block.
LEMMA BareMade ==
  ASSUME NEW type \in EventTypes
  PROVE  Bare(type) \in Events /\ Bare(type).type = type /\ Bare(type).of = <<>>
  BY DEF Bare, Event, Events

\* The stream opens with message_start.
LEMMA StreamOpens ==
  ASSUME NEW s, s = <<Bare("message_start")>>
  PROVE  Stream(s, 0, 0, 0, 0)
<1>1. Bare("message_start") \in Events /\ Bare("message_start").type = "message_start"
  BY BareMade DEF EventTypes
<1>2. s \in Seq(Events) /\ s # <<>> /\ Len(s) = 1 /\ s[1].type = "message_start" /\ DOMAIN s = {1}
  BY <1>1
<1>3. \A type : CountIn(s, type, 0) = 0
  BY FS_EmptySet DEF CountIn
<1>4. \A type : type # "message_start" => CountIn(s, type, 1) = 0
  <2> SUFFICES ASSUME NEW type, type # "message_start" PROVE CountIn(s, type, 1) = 0
    OBVIOUS
  <2>1. {j \in 1 .. 1 : s[j].type = type} = {}
    BY <1>2
  <2> QED
    BY <2>1, FS_EmptySet DEF CountIn
<1>5. Formed(s)
  <2>1. 1 - 1 = 0
    OBVIOUS
  <2> QED
    BY <1>2, <1>3, <2>1 DEF Formed
<1> QED
  BY <1>2, <1>4, <1>5 DEF Stream

\* A sequence that ends in one, two or three events more, one by one.
LEMMA ConcatSteps ==
  ASSUME NEW s \in Seq(Events), NEW e \in Events, NEW f \in Events, NEW g \in Events
  PROVE  /\ s \o <<e>> = Append(s, e)
         /\ s \o <<e, f>> = Append(Append(s, e), f)
         /\ s \o <<e, f, g>> = Append(Append(Append(s, e), f), g)
  OBVIOUS

\* A ping fits anywhere before the end.
LEMMA StreamPing ==
  ASSUME NEW s, NEW opened \in Nat, NEW closed \in Nat, Stream(s, opened, closed, 0, 0)
  PROVE  Stream(s \o <<Bare("ping")>>, opened, closed, 0, 0)
<1>1. Bare("ping") \in Events /\ Bare("ping").type = "ping"
  BY BareMade DEF EventTypes
<1>2. Fits(Bare("ping"), opened, closed, 0, 0)
  BY <1>1 DEF Fits
<1>3. s \o <<Bare("ping")>> = Append(s, Bare("ping"))
  BY <1>1, ConcatSteps DEF Stream
<1> QED
  BY <1>1, <1>2, <1>3, StreamAppend

\* The three kinds of events of a block.
LEMMA StreamStart ==
  ASSUME NEW s, NEW k \in Nat, Stream(s, k, k, 0, 0)
  PROVE  Stream(Append(s, Event("start", k, <<>>)), k + 1, k, 0, 0)
<1> DEFINE e == Event("start", k, <<>>)
<1>1. e \in Events /\ e.type = "start" /\ e.block = k
  BY DEF Event, Events, EventTypes
<1> HIDE DEF e
<1>2. Fits(e, k, k, 0, 0)
  BY <1>1 DEF Fits
<1>3. Stream(Append(s, e), k + 1, k, 0, 0)
  BY <1>1, <1>2, StreamAppend
<1> QED
  BY <1>3 DEF e

\* A delta belongs to the block that is open.
LEMMA StreamDelta ==
  ASSUME NEW s, NEW k \in Nat, NEW of \in Seq(Nat), Stream(s, k + 1, k, 0, 0)
  PROVE  Stream(Append(s, Event("delta", k, of)), k + 1, k, 0, 0)
<1> DEFINE e == Event("delta", k, of)
<1>1. e \in Events /\ e.type = "delta" /\ e.block = k
  BY DEF Event, Events, EventTypes
<1> HIDE DEF e
<1>2. Fits(e, k + 1, k, 0, 0)
  BY <1>1 DEF Fits
<1>3. Stream(Append(s, e), k + 1, k, 0, 0)
  BY <1>1, <1>2, StreamAppend
<1> QED
  BY <1>3 DEF e

\* A stop closes it.
LEMMA StreamStop ==
  ASSUME NEW s, NEW k \in Nat, Stream(s, k + 1, k, 0, 0)
  PROVE  Stream(Append(s, Event("stop", k, <<>>)), k + 1, k + 1, 0, 0)
<1> DEFINE e == Event("stop", k, <<>>)
<1>1. e \in Events /\ e.type = "stop" /\ e.block = k
  BY DEF Event, Events, EventTypes
<1> HIDE DEF e
<1>2. Fits(e, k + 1, k, 0, 0)
  BY <1>1 DEF Fits
<1>3. Stream(Append(s, e), k + 1, k + 1, 0, 0)
  BY <1>1, <1>2, StreamAppend
<1> QED
  BY <1>3 DEF e

\* A block of a call opens, has its arguments, and closes.
LEMMA StreamBlock ==
  ASSUME NEW s, NEW k \in Nat, NEW of \in Seq(Nat), Stream(s, k, k, 0, 0)
  PROVE  /\ Block(k, of) \in Seq(Events)
         /\ Stream(s \o Block(k, of), k + 1, k + 1, 0, 0)
<1> DEFINE e == Event("start", k, <<>>)
           f == Event("delta", k, of)
           g == Event("stop", k, <<>>)
<1>1. e \in Events /\ f \in Events /\ g \in Events /\ s \in Seq(Events)
  BY DEF Event, Events, EventTypes, Stream
<1>2. Block(k, of) = <<e, f, g>>
  BY DEF Block
<1>3. s \o Block(k, of) = Append(Append(Append(s, e), f), g)
  <2> HIDE DEF e, f, g
  <2> QED
    BY <1>1, <1>2, ConcatSteps
<1>4. Stream(Append(Append(Append(s, e), f), g), k + 1, k + 1, 0, 0)
  BY StreamStart, StreamDelta, StreamStop
<1>5. Block(k, of) \in Seq(Events)
  <2> HIDE DEF e, f, g
  <2> QED
    BY <1>1, <1>2
<1> QED
  BY <1>3, <1>4, <1>5

\* The end of the message.
LEMMA StreamEnd ==
  ASSUME NEW s, NEW k \in Nat, Stream(s, k, k, 0, 0)
  PROVE  MessageEnd \in Seq(Events) /\ Stream(s \o MessageEnd, k, k, 1, 1)
<1> DEFINE e == Bare("message_delta")
           f == Bare("message_stop")
<1>1. /\ e \in Events /\ f \in Events /\ s \in Seq(Events)
      /\ e.type = "message_delta" /\ f.type = "message_stop" /\ MessageEnd = <<e, f>>
  BY BareMade DEF EventTypes, Stream, MessageEnd
<1> HIDE DEF e, f
<1>2. s \o MessageEnd = Append(Append(s, e), f)
  BY <1>1, ConcatSteps
<1>3. Stream(Append(s, e), k, k, 1, 0)
  <2>1. Fits(e, k, k, 0, 0)
    BY <1>1 DEF Fits
  <2> QED
    BY <1>1, <2>1, StreamAppend
<1>4. Stream(Append(Append(s, e), f), k, k, 1, 1)
  <2>1. Fits(f, k, k, 1, 0)
    BY <1>1 DEF Fits
  <2> QED
    BY <1>1, <1>3, <2>1, StreamAppend
<1>5. MessageEnd \in Seq(Events)
  BY <1>1
<1> QED
  BY <1>2, <1>4, <1>5

-----------------------------------------------------------------------------
(* AnthropicStream: the translator.                                       *)

ArgPieces == [at : Nat, whole : BOOLEAN]
Translators ==
    [textBlock : {0 - 1, 0}, nextBlock : {0, 1}, text : Seq(Nat), reason : Reasons,
     args : [Calls -> Seq(ArgPieces)], order : Seq(Calls), sseBuf : {"empty", "front", "dropped"}]

\* The calls of one event, one after the other.
Fed(g, t, calls, n, m) ==
    g = [k \in 0 .. m |-> IF k = 0 THEN t ELSE AddCall(g[k - 1], calls[k], n)]

\* The loop over the calls has a result, however many there are.
LEMMA FedExists ==
  ASSUME NEW t, NEW calls, NEW n
  PROVE  \A m \in Nat : \E g : Fed(g, t, calls, n, m)
<1> DEFINE Bad == {m \in Nat : ~ \E g : Fed(g, t, calls, n, m)}
<1>1. SUFFICES ASSUME Bad # {} PROVE FALSE
  OBVIOUS
<1>2. PICK m \in Bad : \A i \in Bad : m <= i
  BY <1>1, LeastNumber
<1>3. CASE m = 0
  <2>1. Fed([k \in 0 .. 0 |-> t], t, calls, n, 0)
    BY DEF Fed
  <2> QED
    BY <1>2, <1>3, <2>1
<1>4. CASE m # 0
  <2>1. m - 1 \in Nat /\ m - 1 \notin Bad /\ m \in Nat
    BY <1>2, <1>4
  <2>2. PICK g : Fed(g, t, calls, n, m - 1)
    BY <2>1
  <2> DEFINE last == AddCall(g[m - 1], calls[m], n)
             h == [k \in 0 .. m |-> IF k = m THEN last ELSE g[k]]
  <2>3. \A k \in 0 .. (m - 1) : h[k] = g[k]
    BY <2>1
  <2>4. \A k \in 0 .. m : h[k] = IF k = 0 THEN t ELSE AddCall(h[k - 1], calls[k], n)
    <3> SUFFICES ASSUME NEW k \in 0 .. m
                 PROVE  h[k] = IF k = 0 THEN t ELSE AddCall(h[k - 1], calls[k], n)
      OBVIOUS
    <3>1. CASE k = m
      <4>1. h[m - 1] = g[m - 1] /\ h[m] = last
        BY <2>1, <2>3
      <4> QED
        BY <3>1, <4>1, <1>4
    <3>2. CASE k # m
      <4>1. k \in 0 .. (m - 1) /\ (k # 0 => k - 1 \in 0 .. (m - 1))
        BY <2>1, <3>2
      <4> HIDE DEF h
      <4>2. h[k] = g[k] /\ (k # 0 => h[k - 1] = g[k - 1])
        BY <2>3, <4>1
      <4>3. g[k] = IF k = 0 THEN t ELSE AddCall(g[k - 1], calls[k], n)
        BY <2>2, <4>1 DEF Fed
      <4> QED
        BY <4>2, <4>3
    <3> QED
      BY <3>1, <3>2
  <2> HIDE DEF last
  <2>5. h = [k \in 0 .. m |-> h[k]]
    OBVIOUS
  <2> HIDE DEF h
  <2>6. Fed(h, t, calls, n, m)
    BY <2>4, <2>5 DEF Fed
  <2> QED
    BY <1>2, <2>6
<1> QED
  BY <1>3, <1>4

\* The text part of an event, and its finish reason.
Reasoned(t, c) == IF c.reason = "" THEN t ELSE [t EXCEPT !.reason = c.reason]
Texted(t, c, n) == IF c.text THEN AddText(Reasoned(t, c), n) ELSE Reasoned(t, c)

\* ApplyChunk, call by call.
LEMMA ApplySteps ==
  ASSUME NEW t, NEW c, NEW n, Len(c.calls) \in Nat
  PROVE  \E g : /\ g[0] = Texted(t, c, n)
                /\ \A k \in 1 .. Len(c.calls) : g[k] = AddCall(g[k - 1], c.calls[k], n)
                /\ ApplyChunk(t, c, n) = g[Len(c.calls)]
<1> DEFINE g == CHOOSE g : Fed(g, Texted(t, c, n), c.calls, n, Len(c.calls))
<1>1. ApplyChunk(t, c, n) = g[Len(c.calls)]
  BY DEF ApplyChunk, Fed, Texted, Reasoned
<1>2. Fed(g, Texted(t, c, n), c.calls, n, Len(c.calls))
  BY FedExists
<1> HIDE DEF g
<1>3. \A k \in 0 .. Len(c.calls) :
          g[k] = IF k = 0 THEN Texted(t, c, n) ELSE AddCall(g[k - 1], c.calls[k], n)
  BY <1>2 DEF Fed
<1>4. 0 \in 0 .. Len(c.calls) /\ \A k \in 1 .. Len(c.calls) : k \in 0 .. Len(c.calls) /\ k # 0
  OBVIOUS
<1> QED
  BY <1>1, <1>3, <1>4

\* A finish reason and a text keep the translator's types; only the first text
\* of a stream opens a block.
LEMMA TextTyped ==
  ASSUME NEW t \in Translators, NEW c \in Chunks, NEW n \in Nat, t.nextBlock = t.textBlock + 1
  PROVE  /\ Texted(t, c, n) \in Translators
         /\ IF c.text /\ wantStream /\ t.textBlock = 0 - 1
            THEN Texted(t, c, n).textBlock = 0 /\ Texted(t, c, n).nextBlock = 1
            ELSE /\ Texted(t, c, n).textBlock = t.textBlock
                 /\ Texted(t, c, n).nextBlock = t.nextBlock
<1> DEFINE r == Reasoned(t, c)
<1>1. c \in [text : BOOLEAN, reason : Reasons, calls : Seq([index : Calls, whole : BOOLEAN])]
  BY StreamAssumption
<1>2. r \in Translators /\ r.textBlock = t.textBlock /\ r.nextBlock = t.nextBlock
  BY <1>1 DEF Reasoned, Translators
<1> HIDE DEF r
<1>3. Texted(t, c, n) = IF c.text THEN AddText(r, n) ELSE r
  BY DEF Texted, r
<1>4. CASE c.text /\ wantStream /\ t.textBlock = 0 - 1
  <2>1. t.nextBlock = 0 /\ r.nextBlock = 0
    BY <1>2, <1>4
  <2>2. r.text \in Seq(Nat) /\ Append(r.text, n) \in Seq(Nat)
    BY <1>2 DEF Translators
  <2>3. Texted(t, c, n) = [r EXCEPT !.text = Append(r.text, n), !.textBlock = 0, !.nextBlock = 1]
    BY <1>2, <1>3, <1>4, <2>1 DEF AddText, Translators
  <2> QED
    BY <1>2, <1>4, <2>2, <2>3 DEF Translators
<1>5. CASE ~(c.text /\ wantStream /\ t.textBlock = 0 - 1)
  <2>1. Texted(t, c, n) = r \/ Texted(t, c, n) = [r EXCEPT !.text = Append(r.text, n)]
    BY <1>2, <1>3, <1>5 DEF AddText, Translators
  <2>2. r.text \in Seq(Nat) /\ Append(r.text, n) \in Seq(Nat)
    BY <1>2 DEF Translators
  <2> QED
    BY <1>2, <1>5, <2>1, <2>2 DEF Translators
<1> QED
  BY <1>4, <1>5

\* A piece of a call keeps them, and opens no block.
LEMMA CallTyped ==
  ASSUME NEW t \in Translators, NEW call \in [index : Calls, whole : BOOLEAN], NEW n \in Nat
  PROVE  /\ AddCall(t, call, n) \in Translators
         /\ AddCall(t, call, n).textBlock = t.textBlock
         /\ AddCall(t, call, n).nextBlock = t.nextBlock
<1> DEFINE piece == [at |-> n, whole |-> call.whole]
           args == [t.args EXCEPT ![call.index] = Append(t.args[call.index], piece)]
           order == IF call.index \in Range(t.order) THEN t.order ELSE Append(t.order, call.index)
<1>1. piece \in ArgPieces /\ call.index \in Calls
  BY DEF ArgPieces
<1>2. t.args \in [Calls -> Seq(ArgPieces)] /\ t.order \in Seq(Calls)
  BY DEF Translators
<1>3. args \in [Calls -> Seq(ArgPieces)]
  BY <1>1, <1>2
<1>4. order \in Seq(Calls)
  BY <1>1, <1>2
<1>5. AddCall(t, call, n) = [t EXCEPT !.args = args, !.order = order]
  BY DEF AddCall, Translators
<1> HIDE DEF piece, args, order
<1> QED
  BY <1>3, <1>4, <1>5 DEF Translators

\* An event keeps the translator's types, and opens at most the text's block.
LEMMA ApplyTyped ==
  ASSUME NEW t \in Translators, NEW c \in Chunks, NEW n \in Nat, t.nextBlock = t.textBlock + 1
  PROVE  /\ ApplyChunk(t, c, n) \in Translators
         /\ IF c.text /\ wantStream /\ t.textBlock = 0 - 1
            THEN ApplyChunk(t, c, n).textBlock = 0 /\ ApplyChunk(t, c, n).nextBlock = 1
            ELSE /\ ApplyChunk(t, c, n).textBlock = t.textBlock
                 /\ ApplyChunk(t, c, n).nextBlock = t.nextBlock
<1> DEFINE first == Texted(t, c, n)
<1>1. c.calls \in Seq([index : Calls, whole : BOOLEAN])
  BY StreamAssumption
<1> DEFINE Call == [index : Calls, whole : BOOLEAN]
<1> HIDE DEF Call
<1>2. PICK m \in Nat : m = Len(c.calls) /\ \A k \in 1 .. m : c.calls[k] \in Call
  <2>1. c.calls \in Seq(Call)
    BY <1>1 DEF Call
  <2> QED
    BY <2>1
<1>3. PICK g : /\ g[0] = first
               /\ \A k \in 1 .. m : g[k] = AddCall(g[k - 1], c.calls[k], n)
               /\ ApplyChunk(t, c, n) = g[m]
  BY <1>2, ApplySteps
<1> DEFINE Right(k) == /\ g[k] \in Translators /\ g[k].textBlock = first.textBlock
                       /\ g[k].nextBlock = first.nextBlock
           Bad == {k \in 0 .. m : ~Right(k)}
<1>4. Right(0)
  BY <1>3, TextTyped
<1>5. ASSUME NEW k \in 1 .. m, Right(k - 1)
      PROVE  Right(k)
  <2>1. g[k - 1] \in Translators /\ c.calls[k] \in [index : Calls, whole : BOOLEAN]
    BY <1>2, <1>5 DEF Call
  <2>2. g[k] = AddCall(g[k - 1], c.calls[k], n)
    BY <1>3
  <2> DEFINE u == g[k - 1]
             call == c.calls[k]
  <2>3. u \in Translators /\ call \in [index : Calls, whole : BOOLEAN] /\ g[k] = AddCall(u, call, n)
    BY <2>1, <2>2
  <2>4. u.textBlock = first.textBlock /\ u.nextBlock = first.nextBlock
    BY <1>5
  <2> HIDE DEF u, call, first
  <2>5. /\ AddCall(u, call, n) \in Translators /\ AddCall(u, call, n).textBlock = u.textBlock
        /\ AddCall(u, call, n).nextBlock = u.nextBlock
    BY <2>3, CallTyped
  <2> QED
    BY <2>3, <2>4, <2>5
<1> HIDE DEF Right
<1>6. Bad = {}
  <2>1. SUFFICES ASSUME Bad # {} PROVE FALSE
    OBVIOUS
  <2>2. Bad \in SUBSET Nat
    OBVIOUS
  <2> HIDE DEF Bad
  <2>3. PICK k \in Bad : \A j \in Bad : k <= j
    BY <2>1, <2>2, LeastNumber
  <2> USE DEF Bad
  <2>4. k \in 1 .. m /\ ~Right(k)
    BY <1>4, <2>3
  <2>5. k - 1 \in 0 .. m /\ k - 1 \notin Bad
    BY <2>3, <2>4
  <2> QED
    BY <1>5, <2>4, <2>5
<1>7. Right(m)
  BY <1>6
<1> QED
  BY <1>3, <1>7, TextTyped DEF Right

\* The arguments of a call are pieces, or none.
LEMMA ArgsTyped ==
  ASSUME NEW args \in Seq(ArgPieces)
  PROVE  ParsedArgs(args) \in Seq(Nat)
<1>1. [p \in DOMAIN args |-> args[p].at] \in Seq(Nat)
  <2>1. Len(args) \in Nat /\ DOMAIN args = 1 .. Len(args) /\ \A p \in 1 .. Len(args) : args[p].at \in Nat
    <3>1. Len(args) \in Nat /\ DOMAIN args = 1 .. Len(args) /\ \A p \in 1 .. Len(args) : args[p] \in ArgPieces
      OBVIOUS
    <3> QED
      BY <3>1 DEF ArgPieces
  <2> QED
    BY <2>1, IsASeq
<1> QED
  BY <1>1, EmptySeq DEF ParsedArgs

\* The calls' blocks follow one another from the next number on.
LEMMA StreamCalls ==
  ASSUME NEW t \in Translators, NEW s, Stream(s, t.nextBlock, t.nextBlock, 0, 0)
  PROVE  /\ CallEvents(t) \in Seq(Events)
         /\ Stream(s \o CallEvents(t), t.nextBlock + Len(t.order), t.nextBlock + Len(t.order), 0, 0)
<1> DEFINE b == t.nextBlock
           Of(k) == ParsedArgs(t.args[t.order[k]])
           seqs == [k \in DOMAIN t.order |-> Block(b + k - 1, Of(k))]
<1>1. PICK n \in Nat : n = Len(t.order) /\ DOMAIN t.order = 1 .. n /\ \A k \in 1 .. n : t.order[k] \in Calls
  BY DEF Translators
<1>2. b \in Nat /\ \A k \in 1 .. n : Of(k) \in Seq(Nat)
  BY <1>1, ArgsTyped DEF Translators
<1>3. Len(seqs) = n /\ \A k \in 1 .. n : seqs[k] = Block(b + k - 1, Of(k))
  BY <1>1
<1>4. CallEvents(t) = FlattenSeq(seqs)
  BY DEF CallEvents
<1>5. s \in Seq(Events)
  BY DEF Stream
<1> HIDE DEF Of, seqs
<1>6. CASE n = 0
  <2>1. CallEvents(t) = seqs
    BY <1>3, <1>4, <1>6 DEF FlattenSeq
  <2>2. seqs = <<>>
    BY <1>1, <1>6 DEF seqs
  <2>3. CallEvents(t) = <<>> /\ s \o CallEvents(t) = s /\ b + n = b
    BY <1>2, <1>5, <1>6, <2>1, <2>2
  <2> QED
    BY <1>1, <2>3
<1>7. CASE n # 0
  <2>1. PICK g : /\ g[1] = seqs[1] /\ \A i \in 2 .. n : g[i] = g[i - 1] \o seqs[i]
                 /\ CallEvents(t) = g[n]
    BY <1>3, <1>4, <1>7, FlattenSteps
  <2> DEFINE Right(i) == g[i] \in Seq(Events) /\ Stream(s \o g[i], b + i, b + i, 0, 0)
             Bad == {i \in 1 .. n : ~Right(i)}
  <2>2. Right(1)
    <3>1. g[1] = Block(b, Of(1)) /\ Of(1) \in Seq(Nat)
      <4>1. 1 \in 1 .. n /\ b + 1 - 1 = b
        BY <1>2, <1>7
      <4> QED
        BY <1>2, <1>3, <2>1, <4>1
    <3> QED
      BY <1>2, <3>1, StreamBlock
  <2>3. ASSUME NEW i \in 2 .. n, Right(i - 1)
        PROVE  Right(i)
    <3>0. PICK k \in Nat : k = b + (i - 1) /\ k + 1 = b + i /\ b + i - 1 = k
      BY <1>2
    <3>1. seqs[i] = Block(k, Of(i)) /\ Of(i) \in Seq(Nat) /\ i \in 1 .. n
      BY <1>2, <1>3, <3>0
    <3>2. Stream(s \o g[i - 1], k, k, 0, 0) /\ g[i - 1] \in Seq(Events)
      BY <2>3, <3>0
    <3>3. seqs[i] \in Seq(Events) /\ Stream((s \o g[i - 1]) \o seqs[i], k + 1, k + 1, 0, 0)
      BY <3>1, <3>2, StreamBlock
    <3>4. g[i] = g[i - 1] \o seqs[i]
      BY <2>1
    <3>5. (s \o g[i - 1]) \o seqs[i] = s \o g[i] /\ g[i] \in Seq(Events)
      <4> DEFINE u == g[i - 1]
                 v == seqs[i]
      <4>1. u \in Seq(Events) /\ v \in Seq(Events) /\ g[i] = u \o v
        BY <3>2, <3>3, <3>4
      <4> HIDE DEF u, v
      <4>2. (s \o u) \o v = s \o (u \o v) /\ u \o v \in Seq(Events)
        BY <1>5, <4>1, ConcatAssociative, ConcatProperties
      <4> QED
        BY <4>1, <4>2 DEF u, v
    <3> QED
      BY <3>0, <3>3, <3>5
  <2> HIDE DEF Right
  <2>4. Bad = {}
    <3>1. SUFFICES ASSUME Bad # {} PROVE FALSE
      OBVIOUS
    <3>2. Bad \in SUBSET Nat
      OBVIOUS
    <3> HIDE DEF Bad
    <3>3. PICK i \in Bad : \A j \in Bad : i <= j
      BY <3>1, <3>2, LeastNumber
    <3> USE DEF Bad
    <3>4. i \in 2 .. n /\ ~Right(i)
      BY <2>2, <3>3
    <3>5. i - 1 \in 1 .. n /\ i - 1 \notin Bad
      BY <3>3, <3>4
    <3> QED
      BY <2>3, <3>4, <3>5
  <2>5. n \in 1 .. n
    BY <1>7
  <2>6. Right(n)
    BY <2>4, <2>5
  <2> QED
    BY <1>1, <2>1, <2>6 DEF Right
<1> QED
  BY <1>6, <1>7

-----------------------------------------------------------------------------
(* AnthropicStream: the pings.                                            *)

\* PingInv holds at the start.
LEMMA InitPing == Init => PingInv
  <1> SUFFICES ASSUME Init PROVE PingInv
    OBVIOUS
  <1>1. tw = [status |-> "none", isError |-> FALSE, realStarted |-> FALSE, pingStop |-> "nil"]
    BY DEF Init
  <1>2. tw \in [status : Statuses, isError : BOOLEAN, realStarted : BOOLEAN,
                pingStop : {"nil", "open", "closed"}]
    BY <1>1 DEF Statuses
  <1>3. tw.pingStop = "nil"
    BY <1>1
  <1>4. ppc = "none" /\ hpc = "proxy" /\ mu = "free"
    BY DEF Init
  <1> QED
    BY <1>2, <1>3, <1>4 DEF PingInv

\* The first status starts the pings, if anything does.
LEMMA HeaderPing ==
    ASSUME PingInv, hpc = "proxy", hpc' \in {"proxy", "finish"}, mu' = mu,
           NEW code \in Statuses \ {"none"}, WriteHeader(code)
    PROVE  PingInv'
  <1>1. CASE tw.status # "none"
    BY <1>1 DEF PingInv, WriteHeader
  <1>2. CASE tw.status = "none" /\ ~(code = "200" /\ wantStream)
    <2>1. tw' = [status |-> code, isError |-> code # "200", realStarted |-> FALSE,
                 pingStop |-> "nil"] /\ ppc' = ppc /\ mu = "free"
      BY <1>2 DEF WriteHeader, HandlerMayLock
    <2>2. tw' \in [status : Statuses, isError : BOOLEAN, realStarted : BOOLEAN,
                   pingStop : {"nil", "open", "closed"}]
      BY <2>1
    <2>3. tw'.pingStop = "nil" /\ tw.pingStop \in {"nil", "open", "closed"}
      BY <2>1 DEF PingInv
    <2>4. ppc = "none"
      BY <1>2 DEF PingInv
    <2> QED
      BY <2>1, <2>2, <2>3, <2>4 DEF PingInv
  <1>3. CASE tw.status = "none" /\ code = "200" /\ wantStream
    <2>1. tw' = [status |-> "200", isError |-> FALSE, realStarted |-> TRUE,
                 pingStop |-> "open"] /\ ppc' = "select" /\ mu = "free"
      BY <1>3 DEF WriteHeader, HandlerMayLock
    <2> QED
      BY <2>1 DEF PingInv, Statuses
  <1> QED
    BY <1>1, <1>2, <1>3

\* One step per action; the copying of the body touches neither goroutine.
LEMMA StepPing == PingInv /\ [Next]_vars => PingInv'
  <1> SUFFICES ASSUME PingInv, [Next]_vars PROVE PingInv'
    OBVIOUS
  <1>1. CASE Inform
    BY <1>1, HeaderPing DEF Inform, Statuses
  <1>2. CASE \E s \in {"200", "error"} : Respond(s)
    BY <1>2, HeaderPing DEF Respond, Statuses
  <1>3. CASE Refuse
    BY <1>3, HeaderPing DEF Refuse, Statuses
  <1>4. CASE GiveUp
    BY <1>4 DEF GiveUp, PingInv
  <1>5. CASE FlushHeaders \/ CopyPart \/ CopyTail
    BY <1>5 DEF FlushHeaders, CopyPart, CopyTail, PingInv
  <1>6. CASE \E c \in Chunks : CopyEvent(c)
    BY <1>6 DEF CopyEvent, PingInv
  <1>7. CASE \E how \in {"clean", "cut"} : EndBody(how)
    BY <1>7 DEF EndBody, PingInv
  <1>8. CASE StopPing
    <2>1. CASE tw.pingStop = "nil"
      BY <1>8, <2>1 DEF StopPing, PingInv
    <2>2. CASE tw.pingStop # "nil"
      <3>1. tw' = [tw EXCEPT !.pingStop = "closed"] /\ hpc' = "wait" /\ ppc' = ppc /\ mu' = mu
        BY <1>8, <2>2 DEF StopPing
      <3> QED
        BY <1>8, <2>2, <3>1 DEF StopPing, PingInv
    <2> QED
      BY <2>1, <2>2
  <1>9. CASE WaitPing \/ Lock \/ Deliver
    BY <1>9 DEF WaitPing, Lock, Deliver, HandlerMayLock, PingInv
  <1>10. CASE Tick \/ PingLock \/ PingTick \/ PingStop
    BY <1>10 DEF Tick, PingLock, PingTick, PingStop, PingInv
  <1>11. CASE UNCHANGED vars
    BY <1>11 DEF vars, PingInv
  <1> QED
    BY <1>1, <1>2, <1>3, <1>4, <1>5, <1>6, <1>7, <1>8, <1>9, <1>10, <1>11 DEF Next

-----------------------------------------------------------------------------
(* AnthropicStream: the response.                                         *)

Clients ==
    [status : {"none", "200", "error"}, events : Seq(Events), body : {"none", "message", "error"},
     message : Seq(Seq(Nat)), stop : {"", "tool_use", "max_tokens", "end_turn"}]

\* Until the handler delivers, the stream has the text's block at most, and it is
\* open; without a stream nothing is sent.
StreamInv ==
    /\ wantStream \in BOOLEAN /\ said \in Seq(Chunks) /\ client \in Clients
    /\ tr \in Translators /\ tr.nextBlock = tr.textBlock + 1
    /\ tw.isError <=> tw.status \notin {"none", "200"}
    /\ tw.realStarted <=> wantStream /\ tw.status = "200"
    /\ tw.pingStop # "nil" => tw.realStarted
    /\ answer # "none" => tw.status # "none"
    /\ ~tw.realStarted => client.events = <<>> /\ tr.textBlock = 0 - 1
    /\ tw.realStarted /\ hpc # "gone" => Stream(client.events, tr.nextBlock, 0, 0, 0)
    /\ hpc = "gone" => Formed(client.events)

\* What net/http is given, piece by piece.
LEMMA RealParts ==
  ASSUME NEW c \in Clients
  PROVE  /\ RealFlush(c) \in Clients
         /\ RealFlush(c) = [c EXCEPT !.status = IF c.status = "none" THEN "200" ELSE c.status]
         /\ \A events \in Seq(Events) :
                /\ RealEvents(c, events) \in Clients
                /\ RealEvents(c, events).events = c.events \o events
                /\ RealEvents(c, events).body = c.body
                /\ RealEvents(c, events).status = IF c.status = "none" THEN "200" ELSE c.status
         /\ \A code \in {"200", "error"}, what \in {"message", "error"} :
                /\ RealBody(c, code, what) \in Clients
                /\ RealBody(c, code, what).events = c.events
                /\ RealBody(c, code, what).body = what
                /\ RealBody(c, code, what).status = IF c.status = "none" THEN code ELSE c.status
<1>1. /\ RealFlush(c) \in Clients
      /\ RealFlush(c) = [c EXCEPT !.status = IF c.status = "none" THEN "200" ELSE c.status]
  BY DEF RealFlush, RealHeader, Clients
<1>2. ASSUME NEW events \in Seq(Events)
      PROVE  /\ RealEvents(c, events) \in Clients
             /\ RealEvents(c, events).events = c.events \o events
             /\ RealEvents(c, events).body = c.body
             /\ RealEvents(c, events).status = IF c.status = "none" THEN "200" ELSE c.status
  <2>1. c.events \in Seq(Events) /\ c.events \o events \in Seq(Events)
    BY ConcatProperties DEF Clients
  <2>2. RealEvents(c, events) = [c EXCEPT !.status = IF c.status = "none" THEN "200" ELSE c.status,
                                          !.events = c.events \o events]
    BY <1>1 DEF RealEvents, Clients
  <2> QED
    BY <2>1, <2>2 DEF Clients
<1>3. ASSUME NEW code \in {"200", "error"}, NEW what \in {"message", "error"}
      PROVE  /\ RealBody(c, code, what) \in Clients
             /\ RealBody(c, code, what).events = c.events
             /\ RealBody(c, code, what).body = what
             /\ RealBody(c, code, what).status = IF c.status = "none" THEN code ELSE c.status
  <2>1. RealBody(c, code, what) =
            [c EXCEPT !.status = IF c.status = "none" THEN code ELSE c.status, !.body = what]
    BY DEF RealBody, RealFlush, RealHeader, Clients
  <2> QED
    BY <2>1 DEF Clients
<1> QED
  BY <1>1, <1>2, <1>3

\* A flush writes no event.
LEMMA FlushKeeps ==
  ASSUME NEW c \in Clients
  PROVE  /\ Flush(c) \in Clients /\ Flush(c).events = c.events /\ Flush(c).body = c.body
         /\ Flush(c).status = IF wantStream /\ c.status = "none" THEN "200" ELSE c.status
<1>1. CASE wantStream
  <2>1. RealFlush(c) = [c EXCEPT !.status = IF c.status = "none" THEN "200" ELSE c.status]
    BY RealParts
  <2>2. RealFlush(c) \in Clients
    BY RealParts
  <2>3. /\ RealFlush(c).events = c.events /\ RealFlush(c).body = c.body
        /\ RealFlush(c).status = IF c.status = "none" THEN "200" ELSE c.status
    BY <2>1 DEF Clients
  <2> QED
    BY <1>1, <2>2, <2>3 DEF Flush
<1>2. CASE ~wantStream
  BY <1>2 DEF Flush
<1> QED
  BY <1>1, <1>2

\* Nothing has been sent at first.
LEMMA InitStream == Init => StreamInv
<1> SUFFICES ASSUME Init PROVE StreamInv
  OBVIOUS
<1>0. PICK none : /\ none = <<>> /\ none \in Seq(Nat) /\ none \in Seq(ArgPieces) /\ none \in Seq(Calls)
                  /\ none \in Seq(Events) /\ none \in Seq(Seq(Nat)) /\ none \in Seq(Chunks)
  BY EmptySeq
<1>1. tr \in Translators /\ tr.nextBlock = tr.textBlock + 1 /\ tr.textBlock = 0 - 1
  <2>1. [i \in Calls |-> none] \in [Calls -> Seq(ArgPieces)]
    BY <1>0
  <2>2. tr = [textBlock |-> 0 - 1, nextBlock |-> 0, text |-> none, reason |-> "",
              args |-> [i \in Calls |-> none], order |-> none, sseBuf |-> "empty"]
    BY <1>0 DEF Init
  <2> DEFINE args == [i \in Calls |-> none]
  <2> HIDE DEF args
  <2>3. args \in [Calls -> Seq(ArgPieces)]
    BY <2>1 DEF args
  <2>4. tr = [textBlock |-> 0 - 1, nextBlock |-> 0, text |-> none, reason |-> "",
              args |-> args, order |-> none, sseBuf |-> "empty"]
    BY <2>2 DEF args
  <2>5. tr.nextBlock = 0 /\ tr.textBlock = 0 - 1
    BY <1>0, <2>4
  <2>6. tr \in Translators
    BY <1>0, <2>3, <2>4 DEF Translators, Reasons
  <2> QED
    BY <2>5, <2>6
<1>2. client \in Clients /\ client.events = <<>>
  <2>1. client = [status |-> "none", events |-> none, body |-> "none", message |-> none, stop |-> ""]
    BY <1>0 DEF Init
  <2> QED
    BY <1>0, <2>1 DEF Clients
<1>3. said \in Seq(Chunks)
  BY <1>0 DEF Init
<1>4. ~tw.realStarted /\ tw.status = "none" /\ ~tw.isError /\ tw.pingStop = "nil" /\ answer = "none" /\ hpc = "proxy"
  BY DEF Init
<1>5. wantStream \in BOOLEAN
  BY DEF Init
<1> QED
  BY <1>1, <1>2, <1>3, <1>4, <1>5 DEF StreamInv

\* The first status opens the stream, if anything does.
LEMMA HeaderStream ==
  ASSUME PingInv, StreamInv, hpc = "proxy", hpc' \in {"proxy", "finish"}, answer' \in {answer, "200", "error", "refused"},
         NEW code \in Statuses \ {"none"}, WriteHeader(code), UNCHANGED <<wantStream, said, tr>>
  PROVE  StreamInv'
<1>1. CASE tw.status # "none"
  <2>1. tw' = tw /\ client' = client
    BY <1>1 DEF WriteHeader
  <2> QED
    BY <1>1, <2>1 DEF StreamInv
<1>2. CASE tw.status = "none"
  <2> DEFINE starts == code = "200" /\ wantStream
  <2>1. /\ tw' = [status |-> code, isError |-> code # "200", realStarted |-> starts,
                  pingStop |-> IF starts THEN "open" ELSE "nil"]
        /\ client' = IF starts THEN RealEvents(client, <<Bare("message_start")>>) ELSE client
    BY <1>2 DEF WriteHeader
  <2>2. ~tw.realStarted /\ client.events = <<>> /\ tr.textBlock = 0 - 1 /\ tr.nextBlock = 0
    BY <1>2 DEF StreamInv
  <2>3. CASE starts
    <3>1. Bare("message_start") \in Events /\ <<Bare("message_start")>> \in Seq(Events)
      BY BareMade DEF EventTypes
    <3>2. client' \in Clients /\ client'.events = client.events \o <<Bare("message_start")>>
      BY <2>1, <2>3, <3>1, RealParts DEF StreamInv
    <3>3. client'.events = <<Bare("message_start")>>
      BY <2>2, <3>1, <3>2, ConcatEmptySeq
    <3>4. Stream(client'.events, 0, 0, 0, 0)
      BY <3>3, StreamOpens
    <3> QED
      BY <2>1, <2>2, <2>3, <3>2, <3>4 DEF StreamInv, Statuses
  <2>4. CASE ~starts
    BY <1>2, <2>1, <2>2, <2>4 DEF StreamInv, Statuses
  <2> QED
    BY <2>3, <2>4
<1> QED
  BY <1>1, <1>2

\* A write that completes an event sends its text to the block of the text.
LEMMA EventWrites ==
  ASSUME StreamInv, NEW c \in Chunks, CopyEvent(c), NEW n, n = Len(said) + 1
  PROVE  /\ client' \in Clients
         /\ client'.status = IF wantStream /\ client.status = "none" THEN "200" ELSE client.status
         /\ client'.events =
                IF ~(wantStream /\ c.text) THEN client.events
                ELSE IF tr.textBlock = 0 - 1
                THEN Append(Append(client.events, Event("start", 0, <<>>)), Event("delta", 0, <<n>>))
                ELSE Append(client.events, Event("delta", 0, <<n>>))
<1> DEFINE e == Event("start", 0, <<>>)
           f == Event("delta", 0, <<n>>)
           more == TextEvents(tr, n)
           c1 == RealEvents(client, more)
<1>1. client' = Flush(IF wantStream /\ c.text THEN c1 ELSE client)
  BY DEF CopyEvent
<1>2. /\ n \in Nat /\ <<n>> \in Seq(Nat) /\ client \in Clients /\ client.events \in Seq(Events)
      /\ tr.textBlock \in {0 - 1, 0} /\ tr.nextBlock = tr.textBlock + 1
  <2>1. n \in Nat
    BY DEF StreamInv
  <2>2. <<n>> \in Seq(Nat)
    BY <2>1
  <2>3. client \in Clients /\ client.events \in Seq(Events)
    BY DEF StreamInv, Clients
  <2>4. tr.textBlock \in {0 - 1, 0} /\ tr.nextBlock = tr.textBlock + 1
    BY DEF StreamInv, Translators
  <2> QED
    BY <2>1, <2>2, <2>3, <2>4
<1>3. e \in Events /\ f \in Events
  <2>1. e \in Events
    BY DEF Event, Events, EventTypes
  <2>2. f \in Events
    BY <1>2 DEF Event, Events, EventTypes
  <2> QED
    BY <2>1, <2>2
<1>4. more = IF tr.textBlock = 0 - 1 THEN <<e, f>> ELSE <<f>>
  BY <1>2 DEF TextEvents
<1> HIDE DEF e, f, more
<1>5. /\ more \in Seq(Events)
      /\ client.events \o more = IF tr.textBlock = 0 - 1 THEN Append(Append(client.events, e), f)
                                                        ELSE Append(client.events, f)
  <2> DEFINE s == client.events
  <2>1. s \in Seq(Events)
    BY <1>2
  <2> HIDE DEF s
  <2>2. s \o <<f>> = Append(s, f) /\ s \o <<e, f>> = Append(Append(s, e), f)
    BY <1>3, <2>1, ConcatSteps
  <2>3. <<f>> \in Seq(Events) /\ <<e, f>> \in Seq(Events)
    BY <1>3
  <2> QED
    BY <1>4, <2>2, <2>3 DEF s
<1>6. /\ c1 \in Clients /\ c1.events = client.events \o more
      /\ c1.status = IF client.status = "none" THEN "200" ELSE client.status
  BY <1>2, <1>5, RealParts
<1> HIDE DEF c1
<1>7. CASE wantStream /\ c.text
  <2>1. /\ client' \in Clients /\ client'.events = c1.events
        /\ client'.status = IF wantStream /\ c1.status = "none" THEN "200" ELSE c1.status
    BY <1>1, <1>6, <1>7, FlushKeeps
  <2> QED
    BY <1>5, <1>6, <1>7, <2>1 DEF e, f
<1>8. CASE ~(wantStream /\ c.text)
  BY <1>1, <1>2, <1>8, FlushKeeps
<1> QED
  BY <1>7, <1>8

\* A write that completes an event adds its text to the block of the text.
LEMMA EventStream ==
  ASSUME PingInv, StreamInv, NEW c \in Chunks, CopyEvent(c)
  PROVE  StreamInv'
<1> DEFINE n == Len(said) + 1
           u == ApplyChunk(tr, c, n)
<1>1. /\ hpc = "proxy" /\ answer # "none" /\ ~tw.isError /\ said' = Append(said, c)
      /\ tr' = [u EXCEPT !.sseBuf = "empty"]
      /\ UNCHANGED <<wantStream, answer, hpc, tw>>
  BY DEF CopyEvent, Copying
<1>2. n \in Nat /\ said' \in Seq(Chunks) /\ <<n>> \in Seq(Nat)
  BY <1>1 DEF StreamInv
<1>3. tw.status = "200" /\ (tw.realStarted <=> wantStream)
  BY <1>1 DEF StreamInv, PingInv, Statuses
<1>4. /\ u \in Translators
      /\ IF c.text /\ wantStream /\ tr.textBlock = 0 - 1
         THEN u.textBlock = 0 /\ u.nextBlock = 1
         ELSE u.textBlock = tr.textBlock /\ u.nextBlock = tr.nextBlock
  BY <1>2, ApplyTyped DEF StreamInv
<1>5. tr' \in Translators /\ tr'.textBlock = u.textBlock /\ tr'.nextBlock = u.nextBlock
  <2> HIDE DEF u
  <2> QED
    BY <1>1, <1>4 DEF Translators
<1>6. tr.textBlock \in {0 - 1, 0} /\ tr.nextBlock = tr.textBlock + 1 /\ client \in Clients
  BY DEF StreamInv, Translators
<1> DEFINE e == Event("start", 0, <<>>)
           f == Event("delta", 0, <<n>>)
<1>7. /\ client' \in Clients
      /\ client'.events = IF ~(wantStream /\ c.text) THEN client.events
                          ELSE IF tr.textBlock = 0 - 1 THEN Append(Append(client.events, e), f)
                          ELSE Append(client.events, f)
  BY EventWrites
<1> HIDE DEF u, n, e, f
<1>8. CASE ~(wantStream /\ c.text)
  BY <1>1, <1>2, <1>3, <1>4, <1>5, <1>6, <1>7, <1>8 DEF StreamInv
<1>9. CASE wantStream /\ c.text
  <2>1. Stream(client.events, tr.nextBlock, 0, 0, 0)
    BY <1>1, <1>3, <1>9 DEF StreamInv
  <2>2. \A s : Stream(s, 1, 0, 0, 0) => Stream(Append(s, f), 1, 0, 0, 0)
    <3> SUFFICES ASSUME NEW s, Stream(s, 0 + 1, 0, 0, 0) PROVE Stream(Append(s, f), 0 + 1, 0, 0, 0)
      OBVIOUS
    <3> QED
      BY <1>2, StreamDelta DEF f
  <2>3. Stream(client'.events, 1, 0, 0, 0)
    <3>1. CASE tr.textBlock = 0 - 1
      <4>1. Stream(client.events, 0, 0, 0, 0)
        BY <1>6, <2>1, <3>1
      <4>2. Stream(Append(client.events, e), 0 + 1, 0, 0, 0)
        BY <4>1, StreamStart DEF e
      <4>3. Stream(Append(client.events, e), 1, 0, 0, 0)
        BY <4>2
      <4> QED
        BY <1>7, <1>9, <2>2, <3>1, <4>3
    <3>2. CASE tr.textBlock = 0
      BY <1>6, <1>7, <1>9, <2>1, <2>2, <3>2
    <3> QED
      BY <1>6, <3>1, <3>2
  <2>4. tr'.textBlock = 0 /\ tr'.nextBlock = 1 /\ tw.realStarted
    BY <1>3, <1>4, <1>5, <1>6, <1>9
  <2> QED
    BY <1>1, <1>2, <1>5, <1>7, <2>3, <2>4 DEF StreamInv
<1> QED
  BY <1>8, <1>9

\* The events that finish a stream close the text's block, then send the calls'.
LEMMA FinishStream ==
  ASSUME NEW t \in Translators, t.nextBlock = t.textBlock + 1,
         NEW s, Stream(s, t.nextBlock, 0, 0, 0)
  PROVE  FinishEvents(t) \in Seq(Events) /\ s \o FinishEvents(t) \in Seq(Events)
         /\ Stream(s \o FinishEvents(t), t.nextBlock + Len(t.order), t.nextBlock + Len(t.order), 1, 1)
<1> DEFINE a == TextStop(t)
           b == CallEvents(t)
           m == Len(t.order)
<1>1. t.nextBlock \in {0, 1} /\ m \in Nat /\ s \in Seq(Events)
  BY DEF Translators, Stream
<1>2. a \in Seq(Events) /\ Stream(s \o a, t.nextBlock, t.nextBlock, 0, 0)
  <2>1. CASE t.textBlock = 0 - 1
    <3>1. a = <<>> /\ t.nextBlock = 0
      BY <2>1 DEF TextStop
    <3>2. s \o a = s
      BY <1>1, <3>1
    <3> QED
      BY <3>1, <3>2
  <2>2. CASE t.textBlock = 0
    <3> DEFINE e == Event("stop", 0, <<>>)
    <3>1. e \in Events
      BY DEF Event, Events, EventTypes
    <3>2. a = <<e>> /\ t.nextBlock = 1
      BY <2>2 DEF TextStop
    <3>3. s \o a = Append(s, e) /\ a \in Seq(Events)
      <4> HIDE DEF e, a
      <4> QED
        BY <1>1, <3>1, <3>2, ConcatSteps
    <3>4. Stream(s, 0 + 1, 0, 0, 0)
      BY <3>2
    <3>5. Stream(Append(s, e), 0 + 1, 0 + 1, 0, 0)
      BY <3>4, StreamStop
    <3>6. Stream(Append(s, e), 1, 1, 0, 0)
      <4> HIDE DEF e
      <4> QED
        BY <3>5
    <3> QED
      BY <3>2, <3>3, <3>6
  <2> QED
    BY <2>1, <2>2 DEF Translators
<1> HIDE DEF a
<1>3. b \in Seq(Events) /\ Stream((s \o a) \o b, t.nextBlock + m, t.nextBlock + m, 0, 0)
  BY <1>2, StreamCalls
<1> HIDE DEF b, m
<1>4. /\ MessageEnd \in Seq(Events)
      /\ Stream(((s \o a) \o b) \o MessageEnd, t.nextBlock + m, t.nextBlock + m, 1, 1)
  <2>1. t.nextBlock + m \in Nat
    BY <1>1
  <2> QED
    BY <1>3, <2>1, StreamEnd
<1>5. FinishEvents(t) = (a \o b) \o MessageEnd
  BY DEF FinishEvents, a, b
<1>6. /\ ((s \o a) \o b) \o MessageEnd = s \o FinishEvents(t)
      /\ FinishEvents(t) \in Seq(Events)
  <2>1. (s \o a) \o b = s \o (a \o b) /\ a \o b \in Seq(Events)
    BY <1>1, <1>2, <1>3, ConcatAssociative, ConcatProperties
  <2> DEFINE ab == a \o b
  <2>2. ab \in Seq(Events) /\ (s \o ab) \o MessageEnd = s \o (ab \o MessageEnd) /\ ab \o MessageEnd \in Seq(Events)
    <3>1. ab \in Seq(Events)
      BY <2>1
    <3> HIDE DEF ab
    <3> QED
      BY <1>1, <1>4, <3>1, ConcatAssociative, ConcatProperties
  <2> QED
    BY <1>5, <2>1, <2>2
<1> QED
  BY <1>4, <1>6 DEF Stream, m

\* A message that is sent whole has its blocks' pieces.
LEMMA MessageTyped ==
  ASSUME NEW t \in Translators
  PROVE  /\ BuildMessage(t) \in Seq(Seq(Nat))
         /\ StopReason(t) \in {"", "tool_use", "max_tokens", "end_turn"}
<1> DEFINE text == IF t.text # <<>> THEN <<t.text>> ELSE <<>>
           calls == [k \in DOMAIN t.order |-> ParsedArgs(t.args[t.order[k]])]
<1>1. PICK n \in Nat : n = Len(t.order) /\ DOMAIN t.order = 1 .. n /\ \A k \in 1 .. n : t.order[k] \in Calls
  BY DEF Translators
<1>2. \A k \in 1 .. n : ParsedArgs(t.args[t.order[k]]) \in Seq(Nat)
  BY <1>1, ArgsTyped DEF Translators
<1>3. calls \in Seq(Seq(Nat))
  <2>1. calls = [k \in 1 .. n |-> ParsedArgs(t.args[t.order[k]])]
    BY <1>1
  <2> HIDE DEF calls
  <2> QED
    BY <1>2, <2>1, IsASeq
<1>4. text \in Seq(Seq(Nat))
  <2>1. t.text \in Seq(Nat)
    BY DEF Translators
  <2> DEFINE S == Seq(Nat)
  <2>2. t.text \in S
    BY <2>1
  <2> HIDE DEF S
  <2>3. text \in Seq(S)
    BY <2>2
  <2> QED
    BY <2>3 DEF S
<1> HIDE DEF text, calls
<1>5. text \o calls \in Seq(Seq(Nat))
  BY <1>3, <1>4, ConcatProperties
<1>6. BuildMessage(t) = text \o calls
  BY DEF BuildMessage, text, calls
<1> QED
  BY <1>5, <1>6 DEF StopReason

\* finish writes the end of the stream, a message, or an error.
LEMMA DeliverStream ==
  ASSUME PingInv, StreamInv, Deliver
  PROVE  StreamInv'
<1>1. /\ hpc = "deliver" /\ hpc' = "gone" /\ client' = Delivered(client)
      /\ UNCHANGED <<wantStream, said, answer, tw, tr>>
  BY DEF Deliver
<1>2. client \in Clients /\ tr \in Translators
  BY DEF StreamInv
<1>3. CASE tw.isError \/ tw.status = "none"
  <2>1. ~tw.realStarted
    BY <1>3 DEF StreamInv
  <2>2. \E code \in {"error", "info"} :
            client' = RealBody(client, code, "error")
    BY <1>1, <1>3, <2>1 DEF Delivered, StreamInv, PingInv, Statuses
  <2>3. client' \in Clients /\ client'.events = client.events
    <3>1. CASE client' = RealBody(client, "error", "error")
      BY <1>2, <3>1, RealParts
    <3>2. CASE client' = RealBody(client, "info", "error")
      <4>1. client' = [client EXCEPT !.status = IF client.status = "none" THEN "200" ELSE client.status,
                                     !.body = "error"]
        BY <1>2, <3>2 DEF RealBody, RealFlush, RealHeader, Clients
      <4> QED
        BY <1>2, <4>1 DEF Clients
    <3> QED
      BY <2>2, <3>1, <3>2
  <2>4. Formed(client'.events)
    BY <2>1, <2>3 DEF StreamInv, Formed
  <2> QED
    BY <1>1, <2>1, <2>3, <2>4 DEF StreamInv
<1>4. CASE ~(tw.isError \/ tw.status = "none") /\ wantStream
  <2>1. tw.realStarted /\ Stream(client.events, tr.nextBlock, 0, 0, 0)
    BY <1>1, <1>4 DEF StreamInv
  <2>2. client' = [RealEvents(client, FinishEvents(tr)) EXCEPT !.stop = StopReason(tr)]
    BY <1>1, <1>4 DEF Delivered
  <2>3. /\ FinishEvents(tr) \in Seq(Events) /\ Formed(client.events \o FinishEvents(tr))
    BY <2>1, FinishStream DEF StreamInv, Stream
  <2>4. /\ RealEvents(client, FinishEvents(tr)) \in Clients
        /\ RealEvents(client, FinishEvents(tr)).events = client.events \o FinishEvents(tr)
    BY <1>2, <2>3, RealParts
  <2>5. client' \in Clients /\ client'.events = client.events \o FinishEvents(tr)
    BY <1>2, <2>2, <2>4, MessageTyped DEF Clients
  <2> QED
    BY <1>1, <2>1, <2>3, <2>5 DEF StreamInv
<1>5. CASE ~(tw.isError \/ tw.status = "none") /\ ~wantStream
  <2>1. ~tw.realStarted
    BY <1>5 DEF StreamInv
  <2>2. client' = [RealBody(client, "200", "message") EXCEPT !.message = BuildMessage(tr),
                                                             !.stop = StopReason(tr)]
    BY <1>1, <1>5 DEF Delivered
  <2>3. /\ RealBody(client, "200", "message") \in Clients
        /\ RealBody(client, "200", "message").events = client.events
    BY <1>2, RealParts
  <2>4. client' \in Clients /\ client'.events = client.events
    BY <1>2, <2>2, <2>3, MessageTyped DEF Clients
  <2>5. Formed(client'.events)
    BY <2>1, <2>4 DEF StreamInv, Formed
  <2> QED
    BY <1>1, <2>1, <2>4, <2>5 DEF StreamInv
<1> QED
  BY <1>3, <1>4, <1>5

\* One step per action.
LEMMA StepStream == PingInv /\ StreamInv /\ [Next]_vars => StreamInv'
<1> SUFFICES ASSUME PingInv, StreamInv, [Next]_vars PROVE StreamInv'
  OBVIOUS
<1>1. CASE Inform
  BY <1>1, HeaderStream DEF Inform, Statuses
<1>2. CASE \E s \in {"200", "error"} : Respond(s)
  <2>1. PICK s \in {"200", "error"} : Respond(s)
    BY <1>2
  <2>2. CASE tw.status # "none" \/ s \in Statuses
    BY <2>1, HeaderStream DEF Respond, Statuses
  <2> QED
    BY <2>1, <2>2 DEF Statuses
<1>3. CASE Refuse
  BY <1>3, HeaderStream DEF Refuse, Statuses
<1>4. CASE GiveUp \/ StopPing \/ WaitPing \/ Lock \/ Tick \/ PingLock \/ PingStop
           \/ \E how \in {"clean", "cut"} : EndBody(how)
  <2>1. CASE StopPing
    <3>1. tw' = tw \/ (tw' = [tw EXCEPT !.pingStop = "closed"] /\ tw.pingStop # "nil")
      BY <2>1 DEF StopPing
    <3>2. /\ tw'.status = tw.status /\ tw'.isError = tw.isError /\ tw'.realStarted = tw.realStarted
          /\ (tw'.pingStop # "nil" => tw.pingStop # "nil")
      BY <3>1 DEF PingInv
    <3> QED
      BY <2>1, <3>2 DEF StopPing, StreamInv
  <2>2. CASE ~StopPing
    <3>1. hpc = "gone" => hpc' = hpc
      BY <1>4, <2>2 DEF GiveUp, WaitPing, Lock, Tick, PingLock, PingStop, EndBody
    <3>2. UNCHANGED <<wantStream, said, answer, tw, tr, client>> /\ (hpc = "gone" <=> hpc' = "gone")
      BY <1>4, <2>2, <3>1 DEF GiveUp, WaitPing, Lock, Tick, PingLock, PingStop, EndBody
    <3> QED
      BY <3>2 DEF StreamInv
  <2> QED
    BY <2>1, <2>2
<1>5. CASE FlushHeaders \/ CopyPart \/ CopyTail
  <2>1. /\ hpc = "proxy" /\ hpc' = hpc /\ UNCHANGED <<wantStream, said, answer, tw>>
        /\ client' = Flush(client) \/ client' = client
    BY <1>5 DEF FlushHeaders, CopyPart, CopyTail, Copying
  <2>2. client' \in Clients /\ client'.events = client.events
    BY <2>1, FlushKeeps DEF StreamInv
  <2>3. \/ tr' = tr
        \/ \E b \in {"empty", "front", "dropped"} : tr' = [tr EXCEPT !.sseBuf = b]
    BY <1>5 DEF FlushHeaders, CopyPart, CopyTail, StreamInv, Translators
  <2>4. tr' \in Translators /\ tr'.textBlock = tr.textBlock /\ tr'.nextBlock = tr.nextBlock
    BY <2>3 DEF StreamInv, Translators
  <2> QED
    BY <2>1, <2>2, <2>4 DEF StreamInv
<1>6. CASE \E c \in Chunks : CopyEvent(c)
  BY <1>6, EventStream
<1>7. CASE Deliver
  BY <1>7, DeliverStream
<1>8. CASE PingTick
  <2>1. /\ ppc = "tick" /\ UNCHANGED <<wantStream, said, answer, hpc, tw, tr>>
        /\ client' = client \/ client' = RealEvents(client, <<Bare("ping")>>)
    BY <1>8 DEF PingTick
  <2>2. tw.realStarted /\ hpc # "gone"
    BY <2>1 DEF PingInv, StreamInv
  <2>3. CASE client' = client
    BY <2>1, <2>3 DEF StreamInv
  <2>4. CASE client' = RealEvents(client, <<Bare("ping")>>)
    <3>1. Bare("ping") \in Events /\ <<Bare("ping")>> \in Seq(Events)
      BY BareMade DEF EventTypes
    <3>2. client' \in Clients /\ client'.events = client.events \o <<Bare("ping")>>
      BY <2>4, <3>1, RealParts DEF StreamInv
    <3>3. Stream(client'.events, tr.nextBlock, 0, 0, 0)
      <4>1. tr.nextBlock \in Nat /\ Stream(client.events, tr.nextBlock, 0, 0, 0)
        BY <2>2 DEF StreamInv, Translators
      <4> QED
        BY <3>2, <4>1, StreamPing
    <3> QED
      BY <2>1, <2>2, <3>2, <3>3 DEF StreamInv
  <2> QED
    BY <2>1, <2>3, <2>4
<1>9. CASE UNCHANGED vars
  BY <1>9 DEF vars, StreamInv
<1> QED
  BY <1>1, <1>2, <1>3, <1>4, <1>5, <1>6, <1>7, <1>8, <1>9 DEF Next

-----------------------------------------------------------------------------
(* AnthropicRedirect: the whole handler.                                  *)

\* Every step of the handler keeps the pings and the stream in order: a refusal
\* writes its body before the exchange begins.
LEMMA StepRedirect ==
  PingInv /\ StreamInv /\ [RedirectNext]_redirectVars => PingInv' /\ StreamInv'
<1> SUFFICES ASSUME PingInv, StreamInv, [RedirectNext]_redirectVars PROVE PingInv' /\ StreamInv'
  OBVIOUS
<1>1. CASE UNCHANGED vars \/ Exchange
  BY <1>1, StepPing, StepStream DEF Exchange
<1>2. CASE RefuseBody
  <2>1. /\ UNCHANGED <<wantStream, said, answer, hpc, ppc, mu, tw, tr>>
        /\ client' = RealBody(client, "error", "error")
    BY <1>2 DEF RefuseBody
  <2>2. client' \in Clients /\ client'.events = client.events
    BY <2>1, RealParts DEF StreamInv
  <2> QED
    BY <2>1, <2>2 DEF PingInv, StreamInv
<1> QED
  BY <1>1, <1>2 DEF RedirectNext, ServeNative, Translate, EnterProxy, redirectVars

(***************************************************************************)
(* WellFormed: whatever the backend sends and however its body ends, with  *)
(* pings between any two events, the stream that the client gets is one of *)
(* the Anthropic protocol at every moment (openAIToAnthropicStream of      *)
(* router_anthropic_translate.go).                                         *)
(***************************************************************************)
THEOREM StreamWellFormed == RedirectSpec => []WellFormed
<1>1. RedirectInit => PingInv /\ StreamInv
  BY InitPing, InitStream DEF RedirectInit
<1>2. StreamInv => WellFormed
  <2> SUFFICES ASSUME StreamInv PROVE WellFormed
    OBVIOUS
  <2>1. Formed(client.events)
    <3>1. CASE ~tw.realStarted
      BY <3>1 DEF StreamInv, Formed
    <3>2. CASE tw.realStarted
      BY <3>2 DEF StreamInv, Stream
    <3> QED
      BY <3>1, <3>2
  <2> QED
    BY <2>1 DEF WellFormed, Formed, Count, CountIn
<1> QED
  BY <1>1, <1>2, StepRedirect, PTL DEF RedirectSpec

(***************************************************************************)
(* PingEnds: no ping goroutine is left once handleAnthropicRedirect has    *)
(* returned, by whatever path, for any backend: finish waits for it.       *)
(***************************************************************************)
THEOREM NoPingAfterReturn == RedirectSpec => []PingEnds
<1>1. RedirectInit => PingInv /\ StreamInv
  BY InitPing, InitStream DEF RedirectInit
<1>2. PingInv => PingEnds
  BY DEF PingInv, PingEnds
<1> QED
  BY <1>1, <1>2, StepRedirect, PTL DEF RedirectSpec

(***************************************************************************)
(* Two goroutines never write the response at once: while finish writes    *)
(* the end of the stream no ping is being written.                         *)
(***************************************************************************)
THEOREM OneWriter == RedirectSpec => [](hpc = "deliver" => ppc # "tick")
<1>1. RedirectInit => PingInv /\ StreamInv
  BY InitPing, InitStream DEF RedirectInit
<1>2. PingInv => (hpc = "deliver" => ppc # "tick")
  BY DEF PingInv
<1> QED
  BY <1>1, <1>2, StepRedirect, PTL DEF RedirectSpec

-----------------------------------------------------------------------------
(* AnthropicStream: what was said, and what the events hold.               *)

\* One pass of the loop of Only.
Kept(g, s, S, n) ==
    g = [i \in 0 .. n |-> IF i = 0 THEN <<>>
                          ELSE IF s[i] \in S THEN Append(g[i - 1], s[i]) ELSE g[i - 1]]

\* The loop has a result, however long.
LEMMA KeptExists ==
  ASSUME NEW s, NEW S
  PROVE  \A n \in Nat : \E g : Kept(g, s, S, n)
<1> DEFINE Bad == {n \in Nat : ~ \E g : Kept(g, s, S, n)}
<1>1. SUFFICES ASSUME Bad # {} PROVE FALSE
  OBVIOUS
<1>2. PICK n \in Bad : \A m \in Bad : n <= m
  BY <1>1, LeastNumber
<1>3. CASE n = 0
  <2>1. Kept([i \in 0 .. 0 |-> <<>>], s, S, 0)
    BY DEF Kept
  <2> QED
    BY <1>2, <1>3, <2>1
<1>4. CASE n # 0
  <2>1. n - 1 \in Nat /\ n - 1 \notin Bad /\ n \in Nat
    BY <1>2, <1>4
  <2>2. PICK g : Kept(g, s, S, n - 1)
    BY <2>1
  <2> DEFINE last == IF s[n] \in S THEN Append(g[n - 1], s[n]) ELSE g[n - 1]
             h == [i \in 0 .. n |-> IF i = n THEN last ELSE g[i]]
  <2>3. \A i \in 0 .. (n - 1) : h[i] = g[i]
    BY <2>1
  <2>4. \A i \in 0 .. n : h[i] = IF i = 0 THEN <<>>
                                 ELSE IF s[i] \in S THEN Append(h[i - 1], s[i]) ELSE h[i - 1]
    <3> SUFFICES ASSUME NEW i \in 0 .. n
                 PROVE  h[i] = IF i = 0 THEN <<>>
                               ELSE IF s[i] \in S THEN Append(h[i - 1], s[i]) ELSE h[i - 1]
      OBVIOUS
    <3>1. CASE i = n
      <4>1. h[n - 1] = g[n - 1] /\ h[n] = last
        BY <2>1, <2>3
      <4> QED
        BY <3>1, <4>1, <1>4
    <3>2. CASE i # n
      <4>1. i \in 0 .. (n - 1) /\ (i # 0 => i - 1 \in 0 .. (n - 1))
        BY <2>1, <3>2
      <4> HIDE DEF h
      <4>2. h[i] = g[i] /\ (i # 0 => h[i - 1] = g[i - 1])
        BY <2>3, <4>1
      <4>3. g[i] = IF i = 0 THEN <<>>
                   ELSE IF s[i] \in S THEN Append(g[i - 1], s[i]) ELSE g[i - 1]
        BY <2>2, <4>1 DEF Kept
      <4> QED
        BY <4>2, <4>3
    <3> QED
      BY <3>1, <3>2
  <2> HIDE DEF last
  <2>5. h = [i \in 0 .. n |-> h[i]]
    OBVIOUS
  <2> HIDE DEF h
  <2>6. Kept(h, s, S, n)
    BY <2>4, <2>5 DEF Kept
  <2> QED
    BY <1>2, <2>6
<1> QED
  BY <1>3, <1>4

\* Only, element by element.
KeptSteps(g, s, S, n) ==
    /\ g[0] = <<>>
    /\ \A i \in 1 .. n : g[i] = IF s[i] \in S THEN Append(g[i - 1], s[i]) ELSE g[i - 1]

LEMMA OnlySteps ==
  ASSUME NEW s, NEW S, NEW n \in Nat, Len(s) = n
  PROVE  \E g : KeptSteps(g, s, S, n) /\ Only(s, S) = g[n]
<1> DEFINE g == CHOOSE g : Kept(g, s, S, n)
<1>1. Only(s, S) = g[n]
  BY DEF Only, Kept
<1>2. Kept(g, s, S, n)
  BY KeptExists
<1> HIDE DEF g
<1>3. \A i \in 0 .. n : g[i] = IF i = 0 THEN <<>>
                               ELSE IF s[i] \in S THEN Append(g[i - 1], s[i]) ELSE g[i - 1]
  BY <1>2 DEF Kept
<1>4. 0 \in 0 .. n /\ \A i \in 1 .. n : i \in 0 .. n /\ i # 0
  OBVIOUS
<1>5. KeptSteps(g, s, S, n)
  BY <1>3, <1>4 DEF KeptSteps
<1> QED
  BY <1>1, <1>5

\* Nothing of an empty sequence is kept.
LEMMA OnlyEmpty ==
  ASSUME NEW S
  PROVE  Only(<<>>, S) = <<>>
<1>1. ASSUME NEW s, Len(s) = 0
      PROVE  Only(s, S) = <<>>
  <2>1. 0 \in Nat
    OBVIOUS
  <2>2. \E g : g[0] = <<>> /\ Only(s, S) = g[0]
    BY <1>1, <2>1, OnlySteps DEF KeptSteps
  <2> QED
    BY <2>2
<1>2. Len(<<>>) = 0
  OBVIOUS
<1> QED
  BY <1>1, <1>2

\* Two sets that keep the same of a sequence.
Agree(s, S, R) == \A i \in DOMAIN s : s[i] \in S <=> s[i] \in R

\* One element more is kept or not, whatever becomes of the set elsewhere.
LEMMA OnlyAppend ==
  ASSUME NEW T, NEW s \in Seq(T), NEW x \in T, NEW S, NEW R, Agree(s, S, R)
  PROVE  Only(Append(s, x), R) = IF x \in R THEN Append(Only(s, S), x) ELSE Only(s, S)
<1> DEFINE t == Append(s, x)
<1>1. PICK n \in Nat : n = Len(s)
  OBVIOUS
<1>2. /\ DOMAIN s = 1 .. n /\ Len(t) = n + 1 /\ t[n + 1] = x /\ n + 1 \in Nat
      /\ \A i \in 1 .. n : t[i] = s[i]
  BY <1>1
<1> HIDE DEF t
<1>3. PICK g : KeptSteps(g, s, S, n) /\ Only(s, S) = g[n]
  BY <1>1, OnlySteps
<1>4. PICK h : KeptSteps(h, t, R, n + 1) /\ Only(t, R) = h[n + 1]
  BY <1>2, OnlySteps
<1> DEFINE Bad == {i \in 0 .. n : h[i] # g[i]}
<1>5. Bad = {}
  <2>1. SUFFICES ASSUME Bad # {} PROVE FALSE
    OBVIOUS
  <2>2. Bad \in SUBSET Nat
    OBVIOUS
  <2> HIDE DEF Bad
  <2>3. PICK i \in Bad : \A j \in Bad : i <= j
    BY <2>1, <2>2, LeastNumber
  <2> USE DEF Bad
  <2>4. i \in 1 .. n /\ h[i] # g[i]
    BY <1>3, <1>4, <2>3 DEF KeptSteps
  <2>5. i - 1 \in 0 .. n /\ i - 1 \notin Bad /\ i \in 1 .. (n + 1)
    BY <2>3, <2>4
  <2>6. h[i - 1] = g[i - 1]
    BY <2>5
  <2> HIDE DEF Bad
  <2>7. /\ g[i] = IF s[i] \in S THEN Append(g[i - 1], s[i]) ELSE g[i - 1]
        /\ h[i] = IF t[i] \in R THEN Append(h[i - 1], t[i]) ELSE h[i - 1]
    BY <1>3, <1>4, <2>4, <2>5 DEF KeptSteps
  <2> QED
    BY <1>2, <2>4, <2>6, <2>7 DEF Agree
<1>6. h[n] = g[n]
  BY <1>5
<1>7. h[n + 1] = IF t[n + 1] \in R THEN Append(h[n], t[n + 1]) ELSE h[n]
  <2>1. n + 1 \in 1 .. (n + 1) /\ (n + 1) - 1 = n
    OBVIOUS
  <2> QED
    BY <1>4, <2>1 DEF KeptSteps
<1> QED
  BY <1>2, <1>3, <1>4, <1>6, <1>7 DEF t

\* FlattenSeq puts one sequence after the other.
LEMMA FlattenAppend ==
  ASSUME NEW T, NEW ss \in Seq(Seq(T)), NEW x \in Seq(T)
  PROVE  /\ FlattenSeq(ss) \in Seq(T)
         /\ FlattenSeq(Append(ss, x)) = FlattenSeq(ss) \o x
<1> DEFINE ts == Append(ss, x)
           Q == Seq(T)
<1> HIDE DEF Q
<1>0. ss \in Seq(Q) /\ x \in Q
  BY DEF Q
<1>1. PICK n \in Nat : n = Len(ss)
  BY <1>0
<1>2. /\ Len(ts) = n + 1 /\ ts[n + 1] = x /\ n + 1 \in Nat /\ n + 1 # 0
      /\ \A i \in 1 .. n : ts[i] = ss[i] /\ ss[i] \in Q
  BY <1>0, <1>1
<1> HIDE DEF ts
<1>3. PICK h : /\ h[1] = ts[1]
               /\ \A i \in 2 .. (n + 1) : h[i] = h[i - 1] \o ts[i]
               /\ FlattenSeq(ts) = h[n + 1]
  BY <1>2, FlattenSteps
<1>4. CASE n = 0
  <2>1. ss = <<>>
    BY <1>0, <1>1, <1>4, EmptySeq
  <2>2. FlattenSeq(ss) = <<>>
    BY <2>1 DEF FlattenSeq
  <2>3. h[n + 1] = x
    BY <1>2, <1>3, <1>4
  <2>4. <<>> \o x = x /\ <<>> \in Seq(T)
    BY ConcatEmptySeq, EmptySeq
  <2> QED
    BY <1>3, <2>2, <2>3, <2>4 DEF ts
<1>5. CASE n # 0
  <2>1. PICK g : /\ g[1] = ss[1]
                 /\ \A i \in 2 .. n : g[i] = g[i - 1] \o ss[i]
                 /\ FlattenSeq(ss) = g[n]
    BY <1>1, <1>5, FlattenSteps
  <2> DEFINE Right(i) == h[i] = g[i] /\ g[i] \in Q
             Bad == {i \in 1 .. n : ~Right(i)}
  <2>2. Right(1)
    <3>1. 1 \in 1 .. n
      BY <1>5
    <3> QED
      BY <1>2, <1>3, <2>1, <3>1
  <2>3. ASSUME NEW i \in 2 .. n, Right(i - 1)
        PROVE  Right(i)
    <3> DEFINE u == g[i - 1]
               v == ss[i]
    <3>1. i \in 1 .. n /\ i \in 2 .. (n + 1)
      OBVIOUS
    <3>2. g[i] = u \o v /\ h[i] = u \o v /\ u \in Q /\ v \in Q
      BY <1>2, <1>3, <2>1, <2>3, <3>1
    <3> HIDE DEF u, v
    <3>3. u \o v \in Q
      BY <3>2, ConcatProperties DEF Q
    <3> QED
      BY <3>2, <3>3
  <2> HIDE DEF Right
  <2>4. Bad = {}
    <3>1. SUFFICES ASSUME Bad # {} PROVE FALSE
      OBVIOUS
    <3>2. Bad \in SUBSET Nat
      OBVIOUS
    <3> HIDE DEF Bad
    <3>3. PICK i \in Bad : \A j \in Bad : i <= j
      BY <3>1, <3>2, LeastNumber
    <3> USE DEF Bad
    <3>4. i \in 2 .. n /\ ~Right(i)
      BY <2>2, <3>3
    <3>5. i - 1 \in 1 .. n /\ i - 1 \notin Bad
      BY <3>3, <3>4
    <3> QED
      BY <2>3, <3>4, <3>5
  <2>5. Right(n)
    <3>1. n \in 1 .. n
      BY <1>5
    <3> QED
      BY <2>4, <3>1
  <2>6. h[n + 1] = h[n] \o ts[n + 1]
    <3>1. n + 1 \in 2 .. (n + 1) /\ (n + 1) - 1 = n
      BY <1>5
    <3> QED
      BY <1>3, <3>1
  <2> QED
    BY <1>2, <1>3, <2>1, <2>5, <2>6 DEF Right, Q, ts
<1> QED
  BY <1>4, <1>5

\* What the events of a stream hold of one block.
HeldOf(s, b) == [i \in DOMAIN s |-> IF s[i].block = b THEN s[i].of ELSE <<>>]
HeldBy(s, b) == FlattenSeq(HeldOf(s, b))

\* One event more adds what it holds to its own block.
LEMMA HeldAppend ==
  ASSUME NEW s \in Seq(Events), NEW e \in Events, NEW b
  PROVE  /\ HeldBy(s, b) \in Seq(Nat)
         /\ HeldBy(Append(s, e), b) =
                IF e.block = b THEN HeldBy(s, b) \o e.of ELSE HeldBy(s, b)
<1> DEFINE t == Append(s, e)
           x == IF e.block = b THEN e.of ELSE <<>>
           ss == HeldOf(s, b)
           Q == Seq(Nat)
<1>1. PICK n \in Nat : n = Len(s)
  OBVIOUS
<1>2. /\ DOMAIN s = 1 .. n /\ DOMAIN t = 1 .. (n + 1) /\ t[n + 1] = e
      /\ \A i \in 1 .. n : t[i] = s[i] /\ s[i] \in Events
  BY <1>1
<1> HIDE DEF t
<1>3. x \in Q
  BY EmptySeq DEF Events
<1> HIDE DEF Q, x
<1>4. ss = [i \in 1 .. n |-> ss[i]] /\ \A i \in 1 .. n : ss[i] = IF s[i].block = b THEN s[i].of ELSE <<>>
  BY <1>2 DEF HeldOf
<1>5. \A i \in 1 .. n : ss[i] \in Q
  BY <1>2, <1>4, EmptySeq DEF Events, Q
<1>6. HeldOf(t, b) = [i \in 1 .. (n + 1) |-> IF i = n + 1 THEN x ELSE ss[i]]
  BY <1>2, <1>4 DEF HeldOf, x
<1> HIDE DEF ss
<1>7. ss \in Seq(Q) /\ Len(ss) = n
  BY <1>4, <1>5, IsASeq
<1>8. HeldOf(t, b) = Append(ss, x)
  <2>1. /\ Append(ss, x) \in Seq(Q) /\ Len(Append(ss, x)) = n + 1 /\ Append(ss, x)[n + 1] = x
        /\ \A i \in 1 .. n : Append(ss, x)[i] = ss[i]
    BY <1>3, <1>7, AppendProperties
  <2> DEFINE a == Append(ss, x)
  <2>2. a = [i \in 1 .. (n + 1) |-> a[i]]
    <3>1. a \in Seq(Q) /\ Len(a) = n + 1
      BY <2>1
    <3> HIDE DEF a
    <3> QED
      BY <3>1
  <2> QED
    BY <1>6, <2>1, <2>2
<1>9. FlattenSeq(ss) \in Seq(Nat) /\ FlattenSeq(Append(ss, x)) = FlattenSeq(ss) \o x
  BY <1>3, <1>7, FlattenAppend DEF Q
<1>10. e.block # b => FlattenSeq(ss) \o x = FlattenSeq(ss)
  BY <1>9, ConcatEmptySeq DEF x
<1> QED
  BY <1>8, <1>9, <1>10 DEF HeldBy, ss, x, t

-----------------------------------------------------------------------------
(* AnthropicStream: the pieces of the calls.                              *)

CallPiece == [index : Calls, whole : BOOLEAN, at : Nat]
PieceOf(call, n) == [index |-> call.index, whole |-> call.whole, at |-> n]

\* PiecesOf and FirstPieces of any sequence of pieces.
PiecesIn(cp, i) == Only(cp, {p \in Range(cp) : p.index = i})
Numbered(cp) == [m \in DOMAIN cp |-> m]
Firsts(cp) == {m \in DOMAIN cp : \A l \in 1 .. (m - 1) : cp[l].index # cp[m].index}
FirstIn(cp) == Only(Numbered(cp), Firsts(cp))

Matches(args, ps) ==
    /\ args \in Seq(ArgPieces) /\ ps \in Seq(CallPiece) /\ Len(args) = Len(ps)
    /\ \A p \in 1 .. Len(args) : args[p].at = ps[p].at /\ args[p].whole = ps[p].whole

\* The translator has the pieces of each call, and the calls by their first.
CallsRight(t, cp) ==
    /\ cp \in Seq(CallPiece)
    /\ \A i \in Calls : Matches(t.args[i], PiecesIn(cp, i))
    /\ FirstIn(cp) \in Seq(1 .. Len(cp))
    /\ t.order = [k \in DOMAIN FirstIn(cp) |-> cp[FirstIn(cp)[k]].index]
    /\ Range(t.order) = {cp[l].index : l \in DOMAIN cp}

\* One piece more belongs to its own call.
LEMMA PiecesAppend ==
  ASSUME NEW cp \in Seq(CallPiece), NEW p \in CallPiece, NEW i
  PROVE  PiecesIn(Append(cp, p), i) =
             IF p.index = i THEN Append(PiecesIn(cp, i), p) ELSE PiecesIn(cp, i)
<1> DEFINE cq == Append(cp, p)
           S == {q \in Range(cp) : q.index = i}
           R == {q \in Range(cq) : q.index = i}
<1>1. PICK n \in Nat : n = Len(cp)
  OBVIOUS
<1>2. /\ DOMAIN cp = 1 .. n /\ DOMAIN cq = 1 .. (n + 1) /\ cq[n + 1] = p
      /\ \A j \in 1 .. n : cq[j] = cp[j]
  BY <1>1
<1> HIDE DEF cq
<1>3. p \in R <=> p.index = i
  BY <1>2 DEF Range
<1>4. \A j \in DOMAIN cp : cp[j] \in S <=> cp[j] \in R
  <2> SUFFICES ASSUME NEW j \in 1 .. n PROVE cp[j] \in S <=> cp[j] \in R
    BY <1>2
  <2>1. cp[j] \in Range(cp) /\ cp[j] \in Range(cq)
    BY <1>2 DEF Range
  <2> QED
    BY <2>1
<1> HIDE DEF S, R
<1>5. Only(Append(cp, p), R) = IF p \in R THEN Append(Only(cp, S), p) ELSE Only(cp, S)
  <2>1. Agree(cp, S, R)
    BY <1>4 DEF Agree
  <2> QED
    BY <2>1, OnlyAppend
<1> QED
  BY <1>3, <1>5 DEF PiecesIn, S, R, cq

\* One piece more is the first of its call, or not.
LEMMA FirstAppend ==
  ASSUME NEW cp \in Seq(CallPiece), NEW p \in CallPiece
  PROVE  FirstIn(Append(cp, p)) =
             IF p.index \in {cp[l].index : l \in DOMAIN cp}
             THEN FirstIn(cp) ELSE Append(FirstIn(cp), Len(cp) + 1)
<1> DEFINE cq == Append(cp, p)
<1>1. PICK n \in Nat : n = Len(cp)
  OBVIOUS
<1>2. /\ DOMAIN cp = 1 .. n /\ DOMAIN cq = 1 .. (n + 1) /\ cq[n + 1] = p
      /\ \A j \in 1 .. n : cq[j] = cp[j]
  BY <1>1
<1> HIDE DEF cq
<1>3. Numbered(cp) \in Seq(Nat) /\ DOMAIN Numbered(cp) = 1 .. n /\ Len(Numbered(cp)) = n
      /\ \A j \in 1 .. n : Numbered(cp)[j] = j
  BY <1>2 DEF Numbered
<1>4. Numbered(cq) = Append(Numbered(cp), n + 1)
  <2> DEFINE a == Append(Numbered(cp), n + 1)
  <2>1. a \in Seq(Nat) /\ Len(a) = n + 1 /\ a[n + 1] = n + 1 /\ \A j \in 1 .. n : a[j] = j
    BY <1>3
  <2>2. Numbered(cq) = [j \in 1 .. (n + 1) |-> j]
    BY <1>2 DEF Numbered
  <2> HIDE DEF a
  <2>3. a = [j \in 1 .. (n + 1) |-> a[j]]
    BY <2>1
  <2> QED
    BY <2>1, <2>2, <2>3 DEF a
<1>5. \A j \in 1 .. n : j \in Firsts(cp) <=> j \in Firsts(cq)
  <2> SUFFICES ASSUME NEW j \in 1 .. n PROVE j \in Firsts(cp) <=> j \in Firsts(cq)
    OBVIOUS
  <2>1. j \in 1 .. (n + 1) /\ \A l \in 1 .. (j - 1) : l \in 1 .. n
    OBVIOUS
  <2> QED
    BY <1>2, <2>1 DEF Firsts
<1>6. n + 1 \in Firsts(cq) <=> p.index \notin {cp[l].index : l \in DOMAIN cp}
  <2>1. (n + 1) - 1 = n /\ n + 1 \in DOMAIN cq
    BY <1>2
  <2>2. n + 1 \in Firsts(cq) <=> \A l \in 1 .. n : cq[l].index # cq[n + 1].index
    BY <2>1 DEF Firsts
  <2>3. n + 1 \in Firsts(cq) <=> \A l \in 1 .. n : cp[l].index # p.index
    BY <1>2, <2>2
  <2> QED
    BY <1>2, <2>3
<1>7. Only(Append(Numbered(cp), n + 1), Firsts(cq)) =
          IF n + 1 \in Firsts(cq) THEN Append(Only(Numbered(cp), Firsts(cp)), n + 1)
                                  ELSE Only(Numbered(cp), Firsts(cp))
  <2>1. \A j \in DOMAIN Numbered(cp) : Numbered(cp)[j] \in Firsts(cp) <=> Numbered(cp)[j] \in Firsts(cq)
    BY <1>3, <1>5
  <2> DEFINE N == Nat
  <2>2. Agree(Numbered(cp), Firsts(cp), Firsts(cq)) /\ n + 1 \in N /\ Numbered(cp) \in Seq(N)
    BY <1>3, <2>1 DEF Agree
  <2> HIDE DEF N
  <2>3. ASSUME NEW x, x \in N
        PROVE  Only(Append(Numbered(cp), x), Firsts(cq)) =
                   IF x \in Firsts(cq) THEN Append(Only(Numbered(cp), Firsts(cp)), x)
                                       ELSE Only(Numbered(cp), Firsts(cp))
    BY <2>2, <2>3, OnlyAppend
  <2> QED
    BY <2>2, <2>3
<1> QED
  BY <1>1, <1>4, <1>6, <1>7 DEF FirstIn, cq

\* Nothing said, nothing in the translator.
LEMMA CallsRightAtFirst ==
  ASSUME NEW t, t.args = [i \in Calls |-> <<>>], t.order = <<>>
  PROVE  CallsRight(t, <<>>)
<1> DEFINE none == <<>>
<1>1. /\ none \in Seq(CallPiece) /\ none \in Seq(ArgPieces) /\ none \in Seq(1 .. Len(none))
      /\ Len(none) = 0 /\ DOMAIN none = {} /\ none = [k \in {} |-> none[k]]
  OBVIOUS
<1>2. Only(none, {}) = none /\ \A S : Only(none, S) = none
  BY OnlyEmpty
<1>3. \A i \in Calls : t.args[i] = none
  OBVIOUS
<1>4. t.order = none
  OBVIOUS
<1> HIDE DEF none
<1>5. Numbered(none) = none
  BY <1>1 DEF Numbered
<1>6. FirstIn(none) = none /\ \A i : PiecesIn(none, i) = none
  BY <1>2, <1>5 DEF FirstIn, PiecesIn
<1>7. \A i \in Calls : Matches(t.args[i], PiecesIn(none, i))
  BY <1>1, <1>3, <1>6 DEF Matches
<1>8. t.order = [k \in DOMAIN FirstIn(none) |-> none[FirstIn(none)[k]].index]
  <2>1. [k \in DOMAIN FirstIn(none) |-> none[FirstIn(none)[k]].index] = [k \in {} |-> none[k]]
    BY <1>1, <1>6
  <2> QED
    BY <1>1, <1>4, <2>1
<1>9. Range(t.order) = {none[l].index : l \in DOMAIN none}
  BY <1>1, <1>4 DEF Range
<1>10. CallsRight(t, none)
  BY <1>1, <1>6, <1>7, <1>8, <1>9 DEF CallsRight
<1> QED
  BY <1>10 DEF none

\* A piece is added where it belongs.
LEMMA CallsRightAppend ==
  ASSUME NEW t \in Translators, NEW cp, CallsRight(t, cp),
         NEW call \in [index : Calls, whole : BOOLEAN], NEW n \in Nat
  PROVE  CallsRight(AddCall(t, call, n), Append(cp, PieceOf(call, n)))
<1> DEFINE p == PieceOf(call, n)
           cq == Append(cp, p)
           piece == [at |-> n, whole |-> call.whole]
           u == AddCall(t, call, n)
           Known == {cp[l].index : l \in DOMAIN cp}
<1>1. cp \in Seq(CallPiece) /\ p \in CallPiece /\ piece \in ArgPieces /\ p.index = call.index
      /\ p.at = piece.at /\ p.whole = piece.whole /\ call.index \in Calls
  BY DEF CallPiece, ArgPieces, PieceOf, CallsRight
<1>2. PICK m \in Nat : m = Len(cp)
  BY <1>1
<1>3. /\ cq \in Seq(CallPiece) /\ DOMAIN cp = 1 .. m /\ DOMAIN cq = 1 .. (m + 1) /\ Len(cq) = m + 1
      /\ cq[m + 1] = p /\ \A j \in 1 .. m : cq[j] = cp[j]
  BY <1>1, <1>2
<1>4. /\ t.args \in [Calls -> Seq(ArgPieces)] /\ t.order \in Seq(Calls) /\ Range(t.order) = Known
  BY DEF Translators, CallsRight
<1>5. /\ u.args = [t.args EXCEPT ![call.index] = Append(t.args[call.index], piece)]
      /\ u.order = IF call.index \in Range(t.order) THEN t.order ELSE Append(t.order, call.index)
  BY DEF AddCall, Translators
<1> HIDE DEF p, cq, piece, u, Known
<1>6. \A i \in Calls : Matches(u.args[i], PiecesIn(cq, i))
  <2> TAKE i \in Calls
  <2>1. Matches(t.args[i], PiecesIn(cp, i))
    BY DEF CallsRight
  <2>2. PiecesIn(cq, i) = IF p.index = i THEN Append(PiecesIn(cp, i), p) ELSE PiecesIn(cp, i)
    BY <1>1, PiecesAppend DEF cq
  <2>3. CASE i # call.index
    BY <1>1, <1>4, <1>5, <2>1, <2>2, <2>3
  <2>4. CASE i = call.index
    <3> DEFINE a == t.args[i]
               b == PiecesIn(cp, i)
    <3>1. u.args[i] = Append(a, piece) /\ PiecesIn(cq, i) = Append(b, p)
      BY <1>1, <1>4, <1>5, <2>2, <2>4
    <3> HIDE DEF a, b
    <3>2. Matches(a, b)
      BY <2>1 DEF a, b
    <3>3. PICK k \in Nat : k = Len(a) /\ k = Len(b)
      BY <3>2 DEF Matches
    <3>4. /\ Append(a, piece) \in Seq(ArgPieces) /\ Append(b, p) \in Seq(CallPiece)
          /\ Len(Append(a, piece)) = k + 1 /\ Len(Append(b, p)) = k + 1
          /\ Append(a, piece)[k + 1] = piece /\ Append(b, p)[k + 1] = p
          /\ \A j \in 1 .. k : Append(a, piece)[j] = a[j] /\ Append(b, p)[j] = b[j]
      BY <1>1, <3>2, <3>3, AppendProperties DEF Matches
    <3>5. \A j \in 1 .. k : a[j].at = b[j].at /\ a[j].whole = b[j].whole
      BY <3>2, <3>3 DEF Matches
    <3>6. \A j \in 1 .. (k + 1) : j \in 1 .. k \/ j = k + 1
      OBVIOUS
    <3>7. \A j \in 1 .. (k + 1) : /\ Append(a, piece)[j].at = Append(b, p)[j].at
                                  /\ Append(a, piece)[j].whole = Append(b, p)[j].whole
      BY <1>1, <3>4, <3>5, <3>6
    <3>8. Matches(Append(a, piece), Append(b, p))
      BY <3>4, <3>7 DEF Matches
    <3> QED
      BY <3>1, <3>8
  <2> QED
    BY <2>3, <2>4
<1>7. FirstIn(cq) = IF call.index \in Known THEN FirstIn(cp) ELSE Append(FirstIn(cp), m + 1)
  BY <1>1, <1>2, FirstAppend DEF cq, Known
<1>8. /\ FirstIn(cp) \in Seq(1 .. m) /\ t.order = [k \in DOMAIN FirstIn(cp) |-> cp[FirstIn(cp)[k]].index]
  BY <1>2 DEF CallsRight
<1>9. PICK k \in Nat : /\ k = Len(FirstIn(cp)) /\ DOMAIN FirstIn(cp) = 1 .. k
                       /\ \A j \in 1 .. k : FirstIn(cp)[j] \in 1 .. m
  BY <1>8
<1>10. FirstIn(cp) \in Seq(1 .. (m + 1))
  <2>1. 1 .. m \subseteq 1 .. (m + 1)
    OBVIOUS
  <2> QED
    BY <1>8, <2>1, SeqMonotonic
<1>11. CASE call.index \in Known
  <2>1. u.order = t.order /\ FirstIn(cq) = FirstIn(cp)
    BY <1>4, <1>5, <1>7, <1>11
  <2>2. u.order = [j \in DOMAIN FirstIn(cq) |-> cq[FirstIn(cq)[j]].index]
    <3>1. \A j \in 1 .. k : cq[FirstIn(cp)[j]] = cp[FirstIn(cp)[j]]
      BY <1>3, <1>9
    <3> QED
      BY <1>8, <1>9, <2>1, <3>1
  <2>3. Range(u.order) = {cq[l].index : l \in DOMAIN cq}
    <3>1. {cq[l].index : l \in DOMAIN cq} = Known \cup {p.index}
      BY <1>3 DEF Known
    <3> QED
      BY <1>1, <1>4, <1>11, <2>1, <3>1
  <2> QED
    BY <1>3, <1>6, <1>10, <2>1, <2>2, <2>3 DEF CallsRight, cq, p, u
<1>12. CASE call.index \notin Known
  <2> DEFINE f == FirstIn(cp)
             f2 == Append(f, m + 1)
             o2 == Append(t.order, call.index)
  <2>1. u.order = o2 /\ FirstIn(cq) = f2
    BY <1>4, <1>5, <1>7, <1>12
  <2>2. /\ f2 \in Seq(1 .. (m + 1)) /\ Len(f2) = k + 1 /\ DOMAIN f2 = 1 .. (k + 1)
        /\ f2[k + 1] = m + 1 /\ \A j \in 1 .. k : f2[j] = f[j]
    <3>1. f \in Seq(1 .. (m + 1)) /\ Len(f) = k /\ m + 1 \in 1 .. (m + 1)
      BY <1>9, <1>10
    <3> HIDE DEF f
    <3> QED
      BY <3>1, AppendProperties
  <2>3. DOMAIN t.order = 1 .. k /\ Len(t.order) = k /\ \A j \in 1 .. k : t.order[j] = cp[f[j]].index
    BY <1>4, <1>8, <1>9
  <2>4. /\ o2 \in Seq(Calls) /\ DOMAIN o2 = 1 .. (k + 1) /\ o2[k + 1] = call.index
        /\ \A j \in 1 .. k : o2[j] = t.order[j]
    BY <1>1, <1>4, <2>3, AppendProperties
  <2> HIDE DEF f, f2, o2
  <2>5. o2 = [j \in 1 .. (k + 1) |-> o2[j]]
    BY <2>4
  <2>6. \A j \in 1 .. (k + 1) : o2[j] = cq[f2[j]].index
    <3> SUFFICES ASSUME NEW j \in 1 .. (k + 1) PROVE o2[j] = cq[f2[j]].index
      OBVIOUS
    <3>1. CASE j = k + 1
      BY <1>1, <1>3, <2>2, <2>4, <3>1
    <3>2. CASE j # k + 1
      <4>1. j \in 1 .. k /\ f[j] \in 1 .. m
        BY <1>9, <3>2 DEF f
      <4> QED
        BY <1>3, <2>2, <2>3, <2>4, <4>1
    <3> QED
      BY <3>1, <3>2
  <2>7. u.order = [j \in DOMAIN FirstIn(cq) |-> cq[FirstIn(cq)[j]].index]
    BY <2>1, <2>2, <2>5, <2>6
  <2>8. Range(u.order) = {cq[l].index : l \in DOMAIN cq}
    <3>1. {cq[l].index : l \in DOMAIN cq} = Known \cup {p.index}
      BY <1>3 DEF Known
    <3>2. \A x : x \in Range(o2) <=> x \in Range(t.order) \cup {call.index}
      BY <2>3, <2>4 DEF Range
    <3>3. Range(o2) = Known \cup {call.index}
      BY <1>4, <3>2
    <3> QED
      BY <1>1, <2>1, <3>1, <3>3
  <2> QED
    BY <1>3, <1>6, <2>1, <2>2, <2>7, <2>8 DEF CallsRight, cq, p, u
<1> QED
  BY <1>11, <1>12

-----------------------------------------------------------------------------
(* AnthropicStream: what one event more adds to what was said.             *)

\* The pieces of one event.
PiecesAt(c, n) == [k \in DOMAIN c.calls |-> PieceOf(c.calls[k], n)]

\* An event's text comes last of the texts.
LEMMA TextAppend ==
  ASSUME said \in Seq(Chunks), NEW c \in Chunks, said' = Append(said, c)
  PROVE  TextSaid' = IF c.text THEN Append(TextSaid, Len(said) + 1) ELSE TextSaid
<1> DEFINE P == [n \in DOMAIN said |-> n]
           Q == [n \in DOMAIN said' |-> n]
           S == {n \in DOMAIN said : said[n].text}
           R == {n \in DOMAIN said' : said'[n].text}
           N == Nat
<1>1. PICK n \in Nat : n = Len(said)
  OBVIOUS
<1>2. /\ DOMAIN said = 1 .. n /\ DOMAIN said' = 1 .. (n + 1) /\ said'[n + 1] = c
      /\ \A j \in 1 .. n : said'[j] = said[j]
  BY <1>1
<1>3. P = [j \in 1 .. n |-> j] /\ Q = [j \in 1 .. (n + 1) |-> j]
  BY <1>2
<1>4. P \in Seq(N) /\ Len(P) = n /\ DOMAIN P = 1 .. n /\ \A j \in 1 .. n : P[j] = j
  BY <1>3
<1>5. Q = Append(P, n + 1)
  <2> DEFINE a == Append(P, n + 1)
  <2>1. a \in Seq(Nat) /\ Len(a) = n + 1 /\ a[n + 1] = n + 1 /\ \A j \in 1 .. n : a[j] = j
    BY <1>4
  <2> HIDE DEF a, P, Q
  <2>2. a = [j \in 1 .. (n + 1) |-> a[j]]
    BY <2>1
  <2> QED
    BY <1>3, <2>1, <2>2 DEF a
<1>6. Agree(P, S, R) /\ n + 1 \in N /\ (n + 1 \in R <=> c.text)
  BY <1>2, <1>4 DEF Agree
<1>7. TextSaid = Only(P, S) /\ TextSaid' = Only(Q, R)
  BY DEF TextSaid
<1> HIDE DEF P, Q, S, R, N
<1>8. ASSUME NEW x, x \in N
      PROVE  Only(Append(P, x), R) = IF x \in R THEN Append(Only(P, S), x) ELSE Only(P, S)
  BY <1>4, <1>6, <1>8, OnlyAppend
<1> QED
  BY <1>1, <1>5, <1>6, <1>7, <1>8

\* Its finish reason is the last, if it has one.
LEMMA ReasonAppend ==
  ASSUME said \in Seq(Chunks), NEW c \in Chunks, said' = Append(said, c)
  PROVE  ReasonsGiven' = IF c.reason # "" THEN Append(ReasonsGiven, c.reason) ELSE ReasonsGiven
<1> DEFINE P == [n \in DOMAIN said |-> said[n].reason]
           Q == [n \in DOMAIN said' |-> said'[n].reason]
           S == Reasons \ {""}
<1>1. PICK n \in Nat : n = Len(said)
  OBVIOUS
<1>2. /\ DOMAIN said = 1 .. n /\ DOMAIN said' = 1 .. (n + 1) /\ said'[n + 1] = c
      /\ \A j \in 1 .. n : said'[j] = said[j] /\ said[j] \in Chunks
  BY <1>1
<1>3. c.reason \in Reasons /\ \A j \in 1 .. n : said[j].reason \in Reasons
  BY <1>2, StreamAssumption
<1>4. P \in Seq(Reasons) /\ Len(P) = n /\ DOMAIN P = 1 .. n /\ \A j \in 1 .. n : P[j] = said[j].reason
  <2>1. P = [j \in 1 .. n |-> said[j].reason]
    BY <1>2
  <2> HIDE DEF P
  <2> QED
    BY <1>3, <2>1, IsASeq
<1>5. Q = Append(P, c.reason)
  <2> DEFINE a == Append(P, c.reason)
  <2> HIDE DEF P
  <2>1. a \in Seq(Reasons) /\ Len(a) = n + 1 /\ a[n + 1] = c.reason /\ \A j \in 1 .. n : a[j] = P[j]
    BY <1>3, <1>4, AppendProperties
  <2> HIDE DEF a
  <2>2. a = [j \in 1 .. (n + 1) |-> a[j]]
    BY <2>1
  <2>3. Q = [j \in 1 .. (n + 1) |-> said'[j].reason]
    BY <1>2
  <2> HIDE DEF Q
  <2> QED
    BY <1>2, <1>4, <2>1, <2>2, <2>3 DEF a
<1>6. Agree(P, S, S) /\ (c.reason \in S <=> c.reason # "")
  BY <1>3 DEF Agree
<1>7. ReasonsGiven = Only(P, S) /\ ReasonsGiven' = Only(Q, S)
  BY DEF ReasonsGiven
<1> HIDE DEF P, Q, S
<1>8. ASSUME NEW T, P \in Seq(T), NEW x \in T
      PROVE  Only(Append(P, x), S) = IF x \in S THEN Append(Only(P, S), x) ELSE Only(P, S)
  <2>1. Agree(P, S, S)
    BY <1>6
  <2> QED
    BY <1>8, <2>1, OnlyAppend
<1> QED
  BY <1>3, <1>4, <1>5, <1>6, <1>7, <1>8

\* Its pieces of calls come last of the pieces.
LEMMA PiecesSaid ==
  ASSUME said \in Seq(Chunks), NEW c \in Chunks, said' = Append(said, c)
  PROVE  /\ CallPieces \in Seq(CallPiece) /\ PiecesAt(c, Len(said) + 1) \in Seq(CallPiece)
         /\ CallPieces' = CallPieces \o PiecesAt(c, Len(said) + 1)
<1> DEFINE P == [n \in DOMAIN said |-> PiecesAt(said[n], n)]
           Q == [n \in DOMAIN said' |-> PiecesAt(said'[n], n)]
           T == Seq(CallPiece)
<1>1. PICK n \in Nat : n = Len(said)
  OBVIOUS
<1>2. /\ DOMAIN said = 1 .. n /\ DOMAIN said' = 1 .. (n + 1) /\ said'[n + 1] = c
      /\ \A j \in 1 .. n : said'[j] = said[j] /\ said[j] \in Chunks
  BY <1>1
<1>3. ASSUME NEW d \in Chunks, NEW j \in Nat
      PROVE  PiecesAt(d, j) \in Seq(CallPiece)
  <2> DEFINE Call == [index : Calls, whole : BOOLEAN]
  <2>1. d.calls \in Seq(Call)
    BY StreamAssumption
  <2> HIDE DEF Call
  <2>2. PICK m \in Nat : DOMAIN d.calls = 1 .. m /\ \A k \in 1 .. m : d.calls[k] \in Call
    BY <2>1
  <2>3. \A k \in 1 .. m : PieceOf(d.calls[k], j) \in CallPiece
    BY <2>2 DEF PieceOf, CallPiece, Call
  <2>4. PiecesAt(d, j) = [k \in 1 .. m |-> PieceOf(d.calls[k], j)]
    BY <2>2 DEF PiecesAt
  <2> QED
    BY <2>3, <2>4, IsASeq
<1>4. CallPieces = FlattenSeq(P) /\ CallPieces' = FlattenSeq(Q)
  BY DEF CallPieces, PiecesAt, PieceOf
<1>5. P \in Seq(T) /\ Len(P) = n /\ DOMAIN P = 1 .. n /\ \A j \in 1 .. n : P[j] = PiecesAt(said[j], j)
  <2>1. P = [j \in 1 .. n |-> PiecesAt(said[j], j)]
    BY <1>2
  <2>2. \A j \in 1 .. n : PiecesAt(said[j], j) \in T
    BY <1>2, <1>3
  <2> HIDE DEF P, T
  <2> QED
    BY <2>1, <2>2, IsASeq
<1>6. PiecesAt(c, n + 1) \in T
  BY <1>3
<1>7. Q = Append(P, PiecesAt(c, n + 1))
  <2> DEFINE a == Append(P, PiecesAt(c, n + 1))
  <2>3. Q = [j \in 1 .. (n + 1) |-> PiecesAt(said'[j], j)]
    BY <1>2
  <2> HIDE DEF P, T, Q
  <2>1. a \in Seq(T) /\ Len(a) = n + 1 /\ a[n + 1] = PiecesAt(c, n + 1) /\ \A j \in 1 .. n : a[j] = P[j]
    BY <1>5, <1>6, AppendProperties
  <2> HIDE DEF a
  <2>2. a = [j \in 1 .. (n + 1) |-> a[j]]
    BY <2>1
  <2> QED
    BY <1>2, <1>5, <2>1, <2>2, <2>3 DEF a
<1> HIDE DEF P, Q
<1>8. FlattenSeq(P) \in Seq(CallPiece) /\ FlattenSeq(Append(P, PiecesAt(c, n + 1))) = FlattenSeq(P) \o PiecesAt(c, n + 1)
  BY <1>5, <1>6, FlattenAppend
<1> QED
  BY <1>1, <1>4, <1>6, <1>7, <1>8

\* The translator takes the pieces of an event in their order.
LEMMA ApplyRight ==
  ASSUME NEW t \in Translators, NEW c \in Chunks, NEW n \in Nat, t.nextBlock = t.textBlock + 1,
         NEW cp, CallsRight(t, cp)
  PROVE  /\ CallsRight(ApplyChunk(t, c, n), cp \o PiecesAt(c, n))
         /\ ApplyChunk(t, c, n).text = IF c.text THEN Append(t.text, n) ELSE t.text
         /\ ApplyChunk(t, c, n).reason = IF c.reason = "" THEN t.reason ELSE c.reason
<1> DEFINE first == Texted(t, c, n)
           Call == [index : Calls, whole : BOOLEAN]
           ps == PiecesAt(c, n)
           Upto(k) == [j \in 1 .. k |-> ps[j]]
<1>1. c \in [text : BOOLEAN, reason : Reasons, calls : Seq([index : Calls, whole : BOOLEAN])]
  BY StreamAssumption
<1> HIDE DEF Call
<1>2. PICK m \in Nat : m = Len(c.calls) /\ DOMAIN c.calls = 1 .. m /\ \A k \in 1 .. m : c.calls[k] \in Call
  <2>1. c.calls \in Seq(Call)
    BY <1>1 DEF Call
  <2> QED
    BY <2>1
<1>3. PICK g : /\ g[0] = first
               /\ \A k \in 1 .. m : g[k] = AddCall(g[k - 1], c.calls[k], n)
               /\ ApplyChunk(t, c, n) = g[m]
  BY <1>2, ApplySteps
<1>4. ps = [j \in 1 .. m |-> ps[j]] /\ \A j \in 1 .. m : ps[j] = PieceOf(c.calls[j], n) /\ ps[j] \in CallPiece
  <2>1. \A j \in 1 .. m : PieceOf(c.calls[j], n) \in CallPiece
    BY <1>2 DEF PieceOf, CallPiece, Call
  <2>2. ps = [j \in 1 .. m |-> PieceOf(c.calls[j], n)]
    BY <1>2 DEF PiecesAt
  <2> HIDE DEF ps
  <2> QED
    BY <2>1, <2>2
<1>5. cp \in Seq(CallPiece)
  BY DEF CallsRight
<1> HIDE DEF ps
<1>6. ASSUME NEW k \in 0 .. m
      PROVE  Upto(k) \in Seq(CallPiece) /\ Len(Upto(k)) = k
  <2>1. \A j \in 1 .. k : j \in 1 .. m
    OBVIOUS
  <2>2. \A j \in 1 .. k : ps[j] \in CallPiece
    BY <1>4, <2>1
  <2>3. Upto(k) \in Seq(CallPiece)
    BY <2>2, IsASeq
  <2> QED
    BY <2>3
<1>7. ASSUME NEW k \in 1 .. m
      PROVE  cp \o Upto(k) = Append(cp \o Upto(k - 1), PieceOf(c.calls[k], n))
  <2>1. k - 1 \in 0 .. m /\ k \in 0 .. m
    OBVIOUS
  <2> DEFINE a == Upto(k - 1)
             b == Upto(k)
             p == PieceOf(c.calls[k], n)
  <2>2. /\ a \in Seq(CallPiece) /\ Len(a) = k - 1 /\ b \in Seq(CallPiece) /\ Len(b) = k
        /\ p \in CallPiece /\ b[k] = p /\ \A j \in 1 .. (k - 1) : b[j] = a[j]
    <3>1. a \in Seq(CallPiece) /\ Len(a) = k - 1 /\ b \in Seq(CallPiece) /\ Len(b) = k
      BY <1>6, <2>1
    <3>2. p \in CallPiece /\ ps[k] = p
      BY <1>4
    <3>3. b[k] = ps[k] /\ \A j \in 1 .. (k - 1) : b[j] = ps[j] /\ a[j] = ps[j]
      <4>1. k \in 1 .. k /\ \A j \in 1 .. (k - 1) : j \in 1 .. k
        OBVIOUS
      <4> QED
        BY <4>1
    <3> HIDE DEF a, b, p
    <3> QED
      BY <3>1, <3>2, <3>3
  <2> HIDE DEF a, b, p, Upto
  <2>3. b = Append(a, p)
    <3>1. /\ Append(a, p) \in Seq(CallPiece) /\ Len(Append(a, p)) = k /\ Append(a, p)[k] = p
          /\ \A j \in 1 .. (k - 1) : Append(a, p)[j] = a[j]
      BY <2>2, AppendProperties
    <3>2. \A j \in 1 .. k : b[j] = Append(a, p)[j]
      BY <2>2, <3>1
    <3> QED
      BY <2>2, <3>1, <3>2, SeqEqual
  <2>4. cp \o Append(a, p) = Append(cp \o a, p)
    BY <1>5, <2>2
  <2> QED
    BY <2>3, <2>4 DEF a, b, p
<1>8. /\ first \in Translators /\ first.args = t.args /\ first.order = t.order
      /\ first.text = IF c.text THEN Append(t.text, n) ELSE t.text
      /\ first.reason = IF c.reason = "" THEN t.reason ELSE c.reason
  <2>1. first \in Translators
    BY TextTyped
  <2> DEFINE r == Reasoned(t, c)
  <2>2. /\ r \in Translators /\ r.args = t.args /\ r.order = t.order /\ r.text = t.text
        /\ r.reason = IF c.reason = "" THEN t.reason ELSE c.reason
    BY <1>1 DEF Reasoned, Translators
  <2> HIDE DEF r
  <2>3. first = IF c.text THEN AddText(r, n) ELSE r
    BY DEF Texted, r
  <2>4. c.text => /\ first.args = r.args /\ first.order = r.order /\ first.reason = r.reason
                  /\ first.text = Append(r.text, n)
    BY <2>2, <2>3 DEF AddText, Translators
  <2> QED
    BY <2>1, <2>2, <2>3, <2>4
<1> HIDE DEF Upto, first
<1> DEFINE Right(k) == /\ g[k] \in Translators /\ g[k].text = first.text
                       /\ g[k].reason = first.reason /\ CallsRight(g[k], cp \o Upto(k))
           Bad == {k \in 0 .. m : ~Right(k)}
<1>9. Right(0)
  <2>1. Upto(0) = <<>>
    BY DEF Upto
  <2>2. cp \o Upto(0) = cp
    BY <1>5, <2>1
  <2>3. CallsRight(first, cp)
    BY <1>8 DEF CallsRight
  <2> QED
    BY <1>3, <1>8, <2>2, <2>3
<1>10. ASSUME NEW k \in 1 .. m, Right(k - 1)
       PROVE  Right(k)
  <2> DEFINE u == g[k - 1]
             call == c.calls[k]
             cq == cp \o Upto(k - 1)
  <2>1. u \in Translators /\ call \in [index : Calls, whole : BOOLEAN] /\ g[k] = AddCall(u, call, n)
    BY <1>2, <1>3, <1>10 DEF Call
  <2>2. u.text = first.text /\ u.reason = first.reason /\ CallsRight(u, cq)
    BY <1>10
  <2>3. cp \o Upto(k) = Append(cq, PieceOf(call, n))
    BY <1>7
  <2> HIDE DEF u, call, cq
  <2>4. AddCall(u, call, n) \in Translators
    BY <2>1, CallTyped
  <2>5. AddCall(u, call, n).text = u.text /\ AddCall(u, call, n).reason = u.reason
    BY <2>1 DEF AddCall, Translators
  <2>6. CallsRight(AddCall(u, call, n), Append(cq, PieceOf(call, n)))
    BY <2>1, <2>2, CallsRightAppend
  <2> QED
    BY <2>1, <2>2, <2>3, <2>4, <2>5, <2>6
<1> HIDE DEF Right
<1>11. Bad = {}
  <2>1. SUFFICES ASSUME Bad # {} PROVE FALSE
    OBVIOUS
  <2>2. Bad \in SUBSET Nat
    OBVIOUS
  <2> HIDE DEF Bad
  <2>3. PICK k \in Bad : \A j \in Bad : k <= j
    BY <2>1, <2>2, LeastNumber
  <2> USE DEF Bad
  <2>4. k \in 1 .. m /\ ~Right(k)
    BY <1>9, <2>3
  <2>5. k - 1 \in 0 .. m /\ k - 1 \notin Bad
    BY <2>3, <2>4
  <2> QED
    BY <1>10, <2>4, <2>5
<1>12. Right(m)
  BY <1>11
<1>13. Upto(m) = ps
  BY <1>4 DEF Upto
<1> QED
  BY <1>3, <1>8, <1>12, <1>13 DEF Right, ps

\* Arguments with the same pieces parse alike.
LEMMA ParsedSame ==
  ASSUME NEW args, NEW ps, Matches(args, ps)
  PROVE  ParsedArgs(args) = ParsedArgs(ps)
<1>1. PICK n \in Nat : /\ n = Len(args) /\ n = Len(ps) /\ DOMAIN args = 1 .. n /\ DOMAIN ps = 1 .. n
                       /\ (args # <<>> <=> n # 0) /\ (ps # <<>> <=> n # 0)
  BY DEF Matches
<1>2. \A p \in 1 .. n : args[p].at = ps[p].at /\ args[p].whole = ps[p].whole
  BY <1>1 DEF Matches
<1>3. n # 0 => Last(args).whole = Last(ps).whole
  BY <1>1, <1>2 DEF Last
<1>4. [p \in DOMAIN args |-> args[p].at] = [p \in DOMAIN ps |-> ps[p].at]
  BY <1>1, <1>2
<1> QED
  BY <1>1, <1>3, <1>4 DEF ParsedArgs

-----------------------------------------------------------------------------
(* AnthropicStream: what finish writes.                                   *)

\* A message sent whole has what was said.
LEMMA MessageSaid ==
  ASSUME NEW t \in Translators, CallsRight(t, CallPieces), t.text = TextSaid
  PROVE  BuildMessage(t) = ContentSaid
<1> DEFINE cp == CallPieces
           f == FirstIn(cp)
<1>1. /\ cp \in Seq(CallPiece) /\ f \in Seq(1 .. Len(cp))
      /\ t.order = [k \in DOMAIN f |-> cp[f[k]].index]
      /\ \A i \in Calls : Matches(t.args[i], PiecesIn(cp, i))
  BY DEF CallsRight
<1>2. FirstPieces = f /\ \A i : PiecesOf(i) = PiecesIn(cp, i)
  BY DEF FirstPieces, FirstIn, Numbered, Firsts, PiecesOf, PiecesIn
<1> HIDE DEF cp, f
<1>3. \A k \in DOMAIN f : cp[f[k]].index \in Calls
  <2>1. PICK m \in Nat : m = Len(cp) /\ \A l \in 1 .. m : cp[l] \in CallPiece
    BY <1>1
  <2>2. \A k \in DOMAIN f : f[k] \in 1 .. m
    BY <1>1, <2>1
  <2> QED
    BY <2>1, <2>2 DEF CallPiece
<1>4. \A i \in Calls : ParsedArgs(t.args[i]) = ParsedArgs(PiecesIn(cp, i))
  BY <1>1, ParsedSame
<1>5. DOMAIN t.order = DOMAIN f /\ \A k \in DOMAIN f : t.order[k] = cp[f[k]].index
  BY <1>1
<1>6. \A k \in DOMAIN f : ParsedArgs(t.args[t.order[k]]) = ParsedArgs(PiecesOf(cp[f[k]].index))
  BY <1>2, <1>3, <1>4, <1>5
<1>7. [k \in DOMAIN t.order |-> ParsedArgs(t.args[t.order[k]])]
          = [k \in DOMAIN FirstPieces |-> ParsedArgs(PiecesOf(CallPieces[FirstPieces[k]].index))]
  BY <1>2, <1>5, <1>6 DEF cp
<1> QED
  BY <1>7 DEF BuildMessage, ContentSaid

\* What the translator has of the texts and of the finish reasons.
ReasonRight(t) ==
    /\ ReasonsGiven \in Seq(Reasons \ {""})
    /\ t.reason = IF ReasonsGiven = <<>> THEN "" ELSE Last(ReasonsGiven)

\* The stop reason is the one that was said, or that there are calls.
LEMMA StopSaid ==
  ASSUME NEW t \in Translators, CallsRight(t, CallPieces), ReasonRight(t)
  PROVE  StopReason(t) = ReasonSaid
<1> DEFINE cp == CallPieces
<1>1. t.order # <<>> <=> cp # <<>>
  <2>1. cp \in Seq(CallPiece) /\ t.order \in Seq(Calls) /\ Range(t.order) = {cp[l].index : l \in DOMAIN cp}
    BY DEF CallsRight, Translators
  <2> HIDE DEF cp
  <2>2. t.order # <<>> <=> Range(t.order) # {}
    <3> DEFINE o == t.order
    <3>1. o \in Seq(Calls)
      BY <2>1
    <3> HIDE DEF o
    <3>2. o # <<>> <=> DOMAIN o # {}
      BY <3>1
    <3>3. DOMAIN o # {} <=> Range(o) # {}
      BY DEF Range
    <3> QED
      BY <3>2, <3>3 DEF o
  <2>3. cp # <<>> <=> DOMAIN cp # {}
    BY <2>1
  <2>4. DOMAIN cp # {} <=> {cp[l].index : l \in DOMAIN cp} # {}
    OBVIOUS
  <2> QED
    BY <2>1, <2>2, <2>3, <2>4
<1>2. CASE ReasonsGiven = <<>>
  BY <1>1, <1>2 DEF StopReason, ReasonSaid, ReasonRight
<1>3. CASE ReasonsGiven # <<>>
  <2>1. t.reason = Last(ReasonsGiven) /\ t.reason \in {"stop", "length", "tool_calls"}
    <3> DEFINE r == ReasonsGiven
               T == Reasons \ {""}
    <3>1. r \in Seq(T) /\ r # <<>> /\ t.reason = Last(r)
      BY <1>3 DEF ReasonRight
    <3> HIDE DEF r, T
    <3>2. Last(r) \in T
      BY <3>1 DEF Last
    <3> QED
      BY <3>1, <3>2 DEF r, T, Reasons
  <2> QED
    BY <1>1, <1>3, <2>1 DEF StopReason, ReasonSaid
<1> QED
  BY <1>2, <1>3

\* A block of a call holds its arguments.
LEMMA BlockHeld ==
  ASSUME NEW s \in Seq(Events), NEW k \in Nat, NEW of \in Seq(Nat), NEW b
  PROVE  HeldBy(s \o Block(k, of), b) = IF b = k THEN HeldBy(s, b) \o of ELSE HeldBy(s, b)
<1> DEFINE e == Event("start", k, <<>>)
           f == Event("delta", k, of)
           g == Event("stop", k, <<>>)
           N == Nat
<1>1. /\ e \in Events /\ f \in Events /\ g \in Events
      /\ e.block = k /\ e.of = <<>> /\ f.block = k /\ f.of = of /\ g.block = k /\ g.of = <<>>
  BY DEF Event, Events, EventTypes
<1>2. Block(k, of) = <<e, f, g>>
  BY DEF Block
<1> HIDE DEF e, f, g
<1>3. s \o Block(k, of) = Append(Append(Append(s, e), f), g)
  BY <1>1, <1>2, ConcatSteps
<1>4. /\ Append(s, e) \in Seq(Events) /\ Append(Append(s, e), f) \in Seq(Events)
  BY <1>1
<1>5. /\ HeldBy(s, b) \in Seq(Nat)
      /\ HeldBy(Append(s, e), b) = IF b = k THEN HeldBy(s, b) \o <<>> ELSE HeldBy(s, b)
  BY <1>1, HeldAppend
<1>6. HeldBy(Append(s, e), b) = HeldBy(s, b)
  BY <1>5, ConcatEmptySeq
<1> DEFINE q == Append(s, e)
           w == Append(Append(s, e), f)
<1> HIDE DEF q
<1>7. HeldBy(Append(q, f), b) = IF b = k THEN HeldBy(s, b) \o of ELSE HeldBy(s, b)
  <2>1. q \in Seq(Events) /\ HeldBy(q, b) = HeldBy(s, b)
    BY <1>4, <1>6 DEF q
  <2>2. HeldBy(Append(q, f), b) = IF f.block = b THEN HeldBy(q, b) \o f.of ELSE HeldBy(q, b)
    BY <1>1, <2>1, HeldAppend
  <2> QED
    BY <1>1, <2>1, <2>2
<1> DEFINE h == HeldBy(w, b)
<1>8. /\ h \in Seq(Nat)
      /\ HeldBy(Append(w, g), b) = IF b = k THEN h \o <<>> ELSE h
  <2>1. w \in Seq(Events)
    BY <1>4
  <2> HIDE DEF w
  <2>2. /\ HeldBy(w, b) \in Seq(Nat)
        /\ HeldBy(Append(w, g), b) = IF g.block = b THEN HeldBy(w, b) \o g.of ELSE HeldBy(w, b)
    BY <1>1, <2>1, HeldAppend
  <2> QED
    BY <1>1, <2>2
<1> HIDE DEF h
<1>9. h \o <<>> = h
  BY <1>8, ConcatEmptySeq
<1> QED
  BY <1>3, <1>7, <1>8, <1>9 DEF h, q

\* The calls' blocks hold the arguments of the calls in their order.
LEMMA CallsHeld ==
  ASSUME NEW t \in Translators, NEW s \in Seq(Events), NEW b \in Nat
  PROVE  /\ CallEvents(t) \in Seq(Events)
         /\ HeldBy(s \o CallEvents(t), b) =
                IF b \in t.nextBlock .. (t.nextBlock + Len(t.order) - 1)
                THEN HeldBy(s, b) \o ParsedArgs(t.args[t.order[b - t.nextBlock + 1]])
                ELSE HeldBy(s, b)
<1> DEFINE nb == t.nextBlock
           Of(k) == ParsedArgs(t.args[t.order[k]])
           seqs == [k \in DOMAIN t.order |-> Block(nb + k - 1, Of(k))]
<1>1. PICK n \in Nat : n = Len(t.order) /\ DOMAIN t.order = 1 .. n /\ \A k \in 1 .. n : t.order[k] \in Calls
  BY DEF Translators
<1>2. nb \in Nat /\ \A k \in 1 .. n : Of(k) \in Seq(Nat)
  BY <1>1, ArgsTyped DEF Translators
<1>3. Len(seqs) = n /\ \A k \in 1 .. n : seqs[k] = Block(nb + k - 1, Of(k))
  BY <1>1
<1>4. CallEvents(t) = FlattenSeq(seqs)
  BY DEF CallEvents
<1> HIDE DEF Of, seqs
<1>5. CASE n = 0
  <2>1. CallEvents(t) = seqs /\ seqs = <<>>
    BY <1>1, <1>3, <1>4, <1>5 DEF FlattenSeq, seqs
  <2>2. CallEvents(t) = <<>> /\ s \o CallEvents(t) = s
    BY <2>1
  <2>3. CallEvents(t) \in Seq(Events)
    BY <2>2
  <2> QED
    BY <1>1, <1>2, <1>5, <2>2, <2>3
<1>6. CASE n # 0
  <2>1. PICK g : /\ g[1] = seqs[1] /\ \A i \in 2 .. n : g[i] = g[i - 1] \o seqs[i]
                 /\ CallEvents(t) = g[n]
    BY <1>3, <1>4, <1>6, FlattenSteps
  <2> DEFINE Holds(i) == IF b \in nb .. (nb + i - 1) THEN HeldBy(s, b) \o Of(b - nb + 1) ELSE HeldBy(s, b)
             Right(i) == g[i] \in Seq(Events) /\ HeldBy(s \o g[i], b) = Holds(i)
             Bad == {i \in 1 .. n : ~Right(i)}
  <2>2. \A k \in Nat, of \in Seq(Nat) : Block(k, of) \in Seq(Events)
    <3> SUFFICES ASSUME NEW k \in Nat, NEW of \in Seq(Nat) PROVE Block(k, of) \in Seq(Events)
      OBVIOUS
    <3> DEFINE e == Event("start", k, <<>>)
               f == Event("delta", k, of)
               h == Event("stop", k, <<>>)
    <3>1. e \in Events /\ f \in Events /\ h \in Events
      BY DEF Event, Events, EventTypes
    <3>2. Block(k, of) = <<e, f, h>>
      BY DEF Block
    <3> HIDE DEF e, f, h
    <3> QED
      BY <3>1, <3>2
  <2>3. Right(1)
    <3>1. g[1] = Block(nb, Of(1)) /\ Of(1) \in Seq(Nat)
      <4>1. 1 \in 1 .. n /\ nb + 1 - 1 = nb
        BY <1>2, <1>6
      <4> QED
        BY <1>2, <1>3, <2>1, <4>1
    <3>2. HeldBy(s \o g[1], b) = IF b = nb THEN HeldBy(s, b) \o Of(1) ELSE HeldBy(s, b)
      <4>1. ASSUME NEW k \in Nat, NEW of \in Seq(Nat)
            PROVE  HeldBy(s \o Block(k, of), b) = IF b = k THEN HeldBy(s, b) \o of ELSE HeldBy(s, b)
        BY BlockHeld
      <4> QED
        BY <1>2, <3>1, <4>1
    <3>3. (b \in nb .. (nb + 1 - 1) <=> b = nb) /\ (b = nb => b - nb + 1 = 1)
      BY <1>2
    <3> QED
      BY <1>2, <2>2, <3>1, <3>2, <3>3
  <2>4. ASSUME NEW i \in 2 .. n, Right(i - 1)
        PROVE  Right(i)
    <3>0. PICK k \in Nat : k = nb + (i - 1) /\ nb + i - 1 = k /\ nb + (i - 1) - 1 = k - 1
      <4>1. nb \in Nat /\ i \in Nat /\ i >= 2
        BY <1>2
      <4> HIDE DEF nb
      <4>2. nb + (i - 1) \in Nat /\ nb + i - 1 = nb + (i - 1) /\ nb + (i - 1) - 1 = (nb + (i - 1)) - 1
        BY <4>1
      <4> QED
        BY <4>2
    <3> DEFINE u == g[i - 1]
               v == seqs[i]
    <3>1. v = Block(k, Of(i)) /\ Of(i) \in Seq(Nat) /\ i \in 1 .. n
      BY <1>2, <1>3, <3>0
    <3>2. u \in Seq(Events) /\ HeldBy(s \o u, b) = Holds(i - 1)
      BY <2>4
    <3>3. g[i] = u \o v
      BY <2>1
    <3>4. v \in Seq(Events)
      BY <2>2, <3>1
    <3> HIDE DEF u, v
    <3>5. (s \o u) \o v = s \o g[i] /\ g[i] \in Seq(Events) /\ s \o u \in Seq(Events)
      BY <3>2, <3>3, <3>4, ConcatAssociative, ConcatProperties
    <3>6. HeldBy((s \o u) \o v, b) = IF b = k THEN HeldBy(s \o u, b) \o Of(i) ELSE HeldBy(s \o u, b)
      <4> DEFINE q == s \o u
      <4>1. q \in Seq(Events)
        BY <3>5
      <4> HIDE DEF q
      <4>2. ASSUME NEW of \in Seq(Nat)
            PROVE  HeldBy(q \o Block(k, of), b) = IF b = k THEN HeldBy(q, b) \o of ELSE HeldBy(q, b)
        BY <4>1, BlockHeld
      <4>3. HeldBy(q \o v, b) = IF b = k THEN HeldBy(q, b) \o Of(i) ELSE HeldBy(q, b)
        BY <3>1, <4>2
      <4> QED
        BY <4>3 DEF q
    <3>7. Holds(i) = IF b = k THEN Holds(i - 1) \o Of(i) ELSE Holds(i - 1)
      <4>1. CASE b = k
        <5>1. b \in nb .. (nb + i - 1) /\ b \notin nb .. (nb + (i - 1) - 1) /\ b - nb + 1 = i
          <6>1. nb \in Nat /\ i \in Nat /\ i >= 2
            BY <1>2
          <6> HIDE DEF nb
          <6> QED
            BY <3>0, <4>1, <6>1
        <5> QED
          BY <4>1, <5>1
      <4>2. CASE b # k
        <5>1. b \in nb .. (nb + i - 1) <=> b \in nb .. (nb + (i - 1) - 1)
          BY <1>2, <3>0, <4>2
        <5> QED
          BY <4>2, <5>1
      <4> QED
        BY <4>1, <4>2
    <3> QED
      BY <3>2, <3>5, <3>6, <3>7
  <2> HIDE DEF Right
  <2>5. Bad = {}
    <3>1. SUFFICES ASSUME Bad # {} PROVE FALSE
      OBVIOUS
    <3>2. Bad \in SUBSET Nat
      OBVIOUS
    <3> HIDE DEF Bad
    <3>3. PICK i \in Bad : \A j \in Bad : i <= j
      BY <3>1, <3>2, LeastNumber
    <3> USE DEF Bad
    <3>4. i \in 2 .. n /\ ~Right(i)
      BY <2>3, <3>3
    <3>5. i - 1 \in 1 .. n /\ i - 1 \notin Bad
      BY <3>3, <3>4
    <3> QED
      BY <2>4, <3>4, <3>5
  <2>6. Right(n)
    <3>1. n \in 1 .. n
      BY <1>6
    <3> QED
      BY <2>5, <3>1
  <2> QED
    BY <1>1, <2>1, <2>6 DEF Right, Of
<1> QED
  BY <1>5, <1>6

\* The rest of the end of a stream holds nothing.
LEMMA FinishHeld ==
  ASSUME NEW t \in Translators, NEW s \in Seq(Events), NEW b \in Nat
  PROVE  HeldBy(s \o FinishEvents(t), b) =
             IF b \in t.nextBlock .. (t.nextBlock + Len(t.order) - 1)
             THEN HeldBy(s, b) \o ParsedArgs(t.args[t.order[b - t.nextBlock + 1]])
             ELSE HeldBy(s, b)
<1> DEFINE a == TextStop(t)
           c == CallEvents(t)
<1>1. a \in Seq(Events) /\ s \o a \in Seq(Events) /\ HeldBy(s \o a, b) = HeldBy(s, b)
  <2>1. CASE t.textBlock < 0
    <3>1. a = <<>>
      BY <2>1 DEF TextStop
    <3>2. s \o a = s
      BY <3>1
    <3> QED
      BY <3>1, <3>2
  <2>2. CASE ~(t.textBlock < 0)
    <3> DEFINE e == Event("stop", t.textBlock, <<>>)
    <3>1. e \in Events /\ e.of = <<>>
      BY DEF Event, Events, EventTypes, Translators
    <3>2. a = <<e>>
      BY <2>2 DEF TextStop
    <3> HIDE DEF e, a
    <3>3. a \in Seq(Events) /\ s \o a = Append(s, e) /\ Append(s, e) \in Seq(Events)
      BY <3>1, <3>2, ConcatSteps
    <3>4. HeldBy(s, b) \in Seq(Nat) /\ HeldBy(Append(s, e), b) = IF e.block = b THEN HeldBy(s, b) \o e.of ELSE HeldBy(s, b)
      BY <3>1, HeldAppend
    <3>5. HeldBy(s, b) \o e.of = HeldBy(s, b)
      BY <3>1, <3>4, ConcatEmptySeq
    <3> QED
      BY <3>3, <3>4, <3>5
  <2> QED
    BY <2>1, <2>2
<1> HIDE DEF a
<1>2. c \in Seq(Events) /\ (s \o a) \o c \in Seq(Events)
      /\ HeldBy((s \o a) \o c, b) =
             IF b \in t.nextBlock .. (t.nextBlock + Len(t.order) - 1)
             THEN HeldBy(s, b) \o ParsedArgs(t.args[t.order[b - t.nextBlock + 1]])
             ELSE HeldBy(s, b)
  <2>1. c \in Seq(Events)
    BY CallsHeld
  <2>2. (s \o a) \o c \in Seq(Events)
    <3> HIDE DEF c
    <3> QED
      BY <1>1, <2>1, ConcatProperties
  <2> DEFINE sa == s \o a
  <2>3. sa \in Seq(Events) /\ HeldBy(sa, b) = HeldBy(s, b)
    BY <1>1
  <2> HIDE DEF sa
  <2>4. HeldBy(sa \o c, b) =
             IF b \in t.nextBlock .. (t.nextBlock + Len(t.order) - 1)
             THEN HeldBy(sa, b) \o ParsedArgs(t.args[t.order[b - t.nextBlock + 1]])
             ELSE HeldBy(sa, b)
    BY <2>3, CallsHeld
  <2> QED
    BY <2>1, <2>2, <2>3, <2>4 DEF sa
<1> HIDE DEF c
<1> DEFINE sac == (s \o a) \o c
<1>3. s \o FinishEvents(t) = sac \o MessageEnd /\ MessageEnd \in Seq(Events)
  <2> DEFINE m == MessageEnd
  <2>1. m \in Seq(Events)
    <3>1. Bare("message_delta") \in Events /\ Bare("message_stop") \in Events
      BY BareMade DEF EventTypes
    <3> QED
      BY <3>1 DEF MessageEnd
  <2> HIDE DEF m
  <2>2. FinishEvents(t) = (a \o c) \o m
    BY DEF FinishEvents, a, c, m
  <2>3. a \o c \in Seq(Events) /\ (s \o a) \o c = s \o (a \o c)
    BY <1>1, <1>2, ConcatProperties, ConcatAssociative
  <2> DEFINE ac == a \o c
  <2>4. s \o (ac \o m) = (s \o ac) \o m
    <3>1. ac \in Seq(Events)
      BY <2>3
    <3> HIDE DEF ac
    <3> QED
      BY <2>1, <3>1, ConcatAssociative
  <2> QED
    BY <2>1, <2>2, <2>3, <2>4 DEF m
<1>4. HeldBy(sac \o MessageEnd, b) = HeldBy(sac, b)
  <2> DEFINE e == Bare("message_delta")
             f == Bare("message_stop")
  <2>1. /\ e \in Events /\ f \in Events /\ e.of = <<>> /\ f.of = <<>> /\ MessageEnd = <<e, f>>
    BY BareMade DEF EventTypes, MessageEnd
  <2>2. sac \in Seq(Events)
    BY <1>2
  <2> HIDE DEF e, f, sac
  <2>3. ASSUME NEW q \in Seq(Events), NEW x \in Events, x.of = <<>>
        PROVE  Append(q, x) \in Seq(Events) /\ HeldBy(Append(q, x), b) = HeldBy(q, b)
    <3>1. HeldBy(q, b) \in Seq(Nat) /\ HeldBy(Append(q, x), b) = IF x.block = b THEN HeldBy(q, b) \o x.of ELSE HeldBy(q, b)
      BY HeldAppend
    <3>2. HeldBy(q, b) \o x.of = HeldBy(q, b)
      BY <2>3, <3>1, ConcatEmptySeq
    <3> QED
      BY <3>1, <3>2
  <2>4. sac \o MessageEnd = Append(Append(sac, e), f)
    BY <2>1, <2>2, ConcatSteps
  <2> DEFINE q == Append(sac, e)
  <2>5. q \in Seq(Events) /\ HeldBy(q, b) = HeldBy(sac, b)
    BY <2>1, <2>2, <2>3
  <2> HIDE DEF q
  <2>6. HeldBy(Append(q, f), b) = HeldBy(q, b)
    BY <2>1, <2>3, <2>5
  <2> QED
    BY <2>4, <2>5, <2>6 DEF q
<1> QED
  BY <1>2, <1>3, <1>4

\* The block of the text holds it, if there is one, and the others nothing.
TextHeld(s, t) == \A b \in Nat : HeldBy(s, b) = IF b < t.nextBlock THEN t.text ELSE <<>>

\* The content of a stream, block by block.
Received(s) == [b \in 1 .. CountIn(s, "start", Len(s)) |-> HeldBy(s, b - 1)]

\* A stream whose open block holds the text is finished with the content of the message.
LEMMA StreamSaid ==
  ASSUME NEW t \in Translators, t.nextBlock = t.textBlock + 1, t.textBlock = 0 <=> t.text # <<>>,
         NEW s, Stream(s, t.nextBlock, 0, 0, 0),
         TextHeld(s, t), NEW u, u = s \o FinishEvents(t)
  PROVE  Received(u) = BuildMessage(t)
<1> DEFINE nb == t.nextBlock
           Of(k) == ParsedArgs(t.args[t.order[k]])
           calls == [k \in DOMAIN t.order |-> Of(k)]
           text == IF t.text # <<>> THEN <<t.text>> ELSE <<>>
           Q == Seq(Nat)
<1>1. PICK m \in Nat : m = Len(t.order) /\ DOMAIN t.order = 1 .. m /\ \A k \in 1 .. m : t.order[k] \in Calls
  BY DEF Translators
<1>2. nb \in {0, 1} /\ t.text \in Q /\ (nb = 1 <=> t.text # <<>>) /\ \A k \in 1 .. m : Of(k) \in Q
  BY <1>1, ArgsTyped DEF Translators
<1>3. CountIn(u, "start", Len(u)) = nb + m
  BY <1>1, FinishStream DEF Stream
<1>4. \A b \in Nat : HeldBy(u, b) = IF b \in nb .. (nb + m - 1) THEN HeldBy(s, b) \o Of(b - nb + 1)
                                                               ELSE HeldBy(s, b)
  BY <1>1, FinishHeld DEF Stream
<1> HIDE DEF Of, Q
<1>5. calls = [k \in 1 .. m |-> Of(k)]
  BY <1>1
<1>6. calls \in Seq(Q) /\ Len(calls) = m /\ \A k \in 1 .. m : calls[k] = Of(k)
  <2> HIDE DEF calls
  <2> QED
    BY <1>2, <1>5, IsASeq
<1>7. text \in Seq(Q) /\ Len(text) = nb /\ (nb = 1 => text[1] = t.text)
  BY <1>2
<1> HIDE DEF calls, text
<1>8. /\ text \o calls \in Seq(Q) /\ Len(text \o calls) = nb + m
      /\ \A b \in 1 .. (nb + m) : (text \o calls)[b] = IF b <= nb THEN text[b] ELSE calls[b - nb]
  <2>1. text \in Seq(Q) /\ calls \in Seq(Q) /\ Len(text) = nb /\ Len(calls) = m
    BY <1>6, <1>7
  <2>2. /\ text \o calls \in Seq(Q) /\ Len(text \o calls) = Len(text) + Len(calls)
        /\ \A b \in 1 .. (Len(text) + Len(calls)) :
               (text \o calls)[b] = IF b <= Len(text) THEN text[b] ELSE calls[b - Len(text)]
    BY <2>1, ConcatProperties
  <2> QED
    BY <2>1, <2>2
<1> DEFINE w == text \o calls
<1>9. BuildMessage(t) = w
  BY DEF BuildMessage, text, calls, Of
<1> HIDE DEF w
<1>10. w = [b \in 1 .. (nb + m) |-> w[b]]
  <2>1. w \in Seq(Q) /\ Len(w) = nb + m
    BY <1>8 DEF w
  <2>2. w = [b \in 1 .. Len(w) |-> w[b]]
    BY <2>1
  <2> QED
    BY <2>1, <2>2
<1>11. \A b \in 1 .. (nb + m) : HeldBy(u, b - 1) = w[b]
  <2> SUFFICES ASSUME NEW b \in 1 .. (nb + m) PROVE HeldBy(u, b - 1) = w[b]
    OBVIOUS
  <2>1. b - 1 \in Nat
    OBVIOUS
  <2>2. HeldBy(s, b - 1) = IF b - 1 < nb THEN t.text ELSE <<>>
    BY <2>1 DEF TextHeld
  <2>3. CASE b <= nb
    <3>1. b = 1 /\ nb = 1 /\ b - 1 < nb /\ b - 1 \notin nb .. (nb + m - 1)
      BY <1>2, <2>3
    <3>2. HeldBy(u, b - 1) = t.text
      BY <1>4, <2>1, <2>2, <3>1
    <3>3. w[b] = text[b]
      BY <1>8, <2>3 DEF w
    <3> QED
      BY <1>7, <3>1, <3>2, <3>3
  <2>4. CASE ~(b <= nb)
    <3>1. b - 1 \in nb .. (nb + m - 1) /\ ~(b - 1 < nb) /\ (b - 1) - nb + 1 = b - nb /\ b - nb \in 1 .. m
      BY <1>2, <2>4
    <3>2. HeldBy(u, b - 1) = <<>> \o Of(b - nb)
      BY <1>4, <2>1, <2>2, <3>1
    <3>3. <<>> \o Of(b - nb) = Of(b - nb)
      BY <1>2, <3>1, ConcatEmptySeq DEF Q
    <3>4. w[b] = calls[b - nb]
      BY <1>8, <2>4 DEF w
    <3> QED
      BY <1>6, <3>1, <3>2, <3>3, <3>4
  <2> QED
    BY <2>3, <2>4
<1> QED
  BY <1>3, <1>9, <1>10, <1>11 DEF Received
-----------------------------------------------------------------------------
(* AnthropicStream: the reply that the client is shown.                   *)

\* The translator has all that was said, and so has the stream until it is finished.
SaidInv ==
    /\ CallsRight(tr, CallPieces) /\ tr.text = TextSaid /\ ReasonRight(tr)
    /\ tw.status = "none" => tr.text = <<>>
    /\ tw.realStarted => (tr.textBlock = 0 <=> tr.text # <<>>)
    /\ tw.realStarted /\ hpc # "gone" => TextHeld(client.events, tr)

\* Nothing decides the client's status before the reply does.
ShownInv ==
    /\ answer \in {"none", "200", "error", "refused"}
    /\ stage \in {"native", "translate", "refused", "translated", "exchange"}
    /\ stage # "exchange" => hpc = "proxy"
    /\ answer = "refused" => hpc # "proxy"
    /\ tw.status = "200" => answer = "200"
    /\ stage # "refused" /\ hpc # "gone" =>
           /\ client.status \in {"none", "200"}
           /\ ~tw.realStarted /\ (answer \in {"none", "refused"} \/ ~wantStream) => client.status = "none"
    /\ ReplyShown

\* Nothing has been said at first.
LEMMA InitSaid == Init => SaidInv
<1> SUFFICES ASSUME Init PROVE SaidInv
  OBVIOUS
<1>0. PICK none : /\ none = <<>> /\ DOMAIN none = {} /\ Len(none) = 0
                  /\ none \in Seq(Nat) /\ none \in Seq(ArgPieces) /\ none \in Seq(CallPiece)
                  /\ none \in Seq(Calls) /\ none \in Seq(1 .. 0) /\ none \in Seq(Reasons \ {""})
                  /\ \A g, q : DOMAIN q = {} /\ g = [k \in DOMAIN q |-> g[k]] => g = none
  <2>1. PICK none : none = <<>>
    OBVIOUS
  <2>2. DOMAIN none = {} /\ Len(none) = 0 /\ none = [k \in {} |-> none[k]]
    BY <2>1
  <2> QED
    BY <2>1, <2>2, EmptySeq
<1>1. /\ said = none /\ ~tw.realStarted
      /\ tr = [textBlock |-> 0 - 1, nextBlock |-> 0, text |-> none, reason |-> "",
               args |-> [i \in Calls |-> none], order |-> none, sseBuf |-> "empty"]
  BY <1>0 DEF Init
<1>2. \A S : Only(none, S) = none
  BY <1>0, OnlyEmpty
<1>3. TextSaid = none
  <2>1. [n \in DOMAIN said |-> n] = none
    BY <1>0, <1>1
  <2> QED
    BY <1>2, <2>1 DEF TextSaid
<1>4. ReasonsGiven = none
  <2>1. [n \in DOMAIN said |-> said[n].reason] = none
    BY <1>0, <1>1
  <2> QED
    BY <1>2, <2>1 DEF ReasonsGiven
<1>5. CallPieces = none
  <2> DEFINE ss == [n \in DOMAIN said |-> [k \in DOMAIN said[n].calls |->
                  [index |-> said[n].calls[k].index, whole |-> said[n].calls[k].whole, at |-> n]]]
  <2>1. ss = none
    BY <1>0, <1>1
  <2>2. CallPieces = FlattenSeq(ss)
    BY DEF CallPieces
  <2> HIDE DEF ss
  <2>3. FlattenSeq(none) = none
    BY <1>0 DEF FlattenSeq
  <2> QED
    BY <2>1, <2>2, <2>3
<1>6. CallsRight(tr, none)
  <2>1. FirstIn(none) = none
    <3>1. Numbered(none) = none
      BY <1>0 DEF Numbered
    <3> QED
      BY <1>2, <3>1 DEF FirstIn
  <2>2. tr.order = none /\ \A i \in Calls : tr.args[i] = none
    BY <1>1
  <2>3. \A i \in Calls : Matches(tr.args[i], PiecesIn(none, i))
    BY <1>0, <1>2, <2>2 DEF Matches, PiecesIn
  <2>4. tr.order = [k \in DOMAIN FirstIn(none) |-> none[FirstIn(none)[k]].index]
    BY <1>0, <2>1, <2>2
  <2>5. Range(tr.order) = {} /\ {none[l].index : l \in DOMAIN none} = {}
    BY <1>0, <2>2 DEF Range
  <2> QED
    BY <1>0, <2>1, <2>3, <2>4, <2>5 DEF CallsRight
<1>7. tr.text = none /\ tr.reason = ""
  BY <1>1
<1> QED
  BY <1>0, <1>1, <1>3, <1>4, <1>5, <1>6, <1>7 DEF SaidInv, ReasonRight

\* The stream that has just opened holds nothing.
LEMMA OpenHeld ==
  ASSUME NEW s, s = <<Bare("message_start")>>, NEW b \in Nat
  PROVE  HeldBy(s, b) = <<>>
<1>1. HeldOf(s, b) = [i \in 1 .. 1 |-> <<>>]
  BY DEF HeldOf, Bare, Event
<1> DEFINE ss == HeldOf(s, b)
<1>2. Len(ss) = 1 /\ ss[1] = <<>>
  BY <1>1
<1> HIDE DEF ss
<1>3. PICK g : g[1] = ss[1] /\ FlattenSeq(ss) = g[1]
  <2>1. Len(ss) \in Nat /\ Len(ss) # 0
    BY <1>2
  <2>2. \E g : g[1] = ss[1] /\ FlattenSeq(ss) = g[Len(ss)]
    BY <2>1, FlattenSteps
  <2> QED
    BY <1>2, <2>2
<1> QED
  BY <1>2, <1>3 DEF HeldBy, ss

\* The first status begins with nothing said.
LEMMA HeaderSaid ==
  ASSUME PingInv, StreamInv, SaidInv, hpc = "proxy", hpc' # "gone",
         NEW code \in Statuses \ {"none"}, WriteHeader(code), UNCHANGED <<wantStream, said, tr>>
  PROVE  SaidInv'
<1>1. /\ CallPieces' = CallPieces /\ TextSaid' = TextSaid /\ ReasonsGiven' = ReasonsGiven
  BY DEF CallPieces, TextSaid, ReasonsGiven
<1>2. CallsRight(tr, CallPieces)' /\ (tr.text = TextSaid)' /\ ReasonRight(tr)'
  BY <1>1 DEF SaidInv, ReasonRight
<1>3. CASE tw.status # "none"
  <2>1. tw' = tw /\ client' = client
    BY <1>3 DEF WriteHeader
  <2> QED
    BY <1>2, <1>3, <2>1 DEF SaidInv
<1>4. CASE tw.status = "none"
  <2> DEFINE starts == code = "200" /\ wantStream
  <2>1. /\ tw'.status = code /\ (tw'.realStarted <=> starts)
        /\ client' = IF starts THEN RealEvents(client, <<Bare("message_start")>>) ELSE client
    BY <1>4 DEF WriteHeader
  <2>2. tr.text = <<>> /\ tr.textBlock = 0 - 1 /\ tr.nextBlock = 0 /\ client.events = <<>> /\ client \in Clients
    BY <1>4 DEF SaidInv, StreamInv
  <2>3. CASE starts
    <3>1. Bare("message_start") \in Events /\ <<Bare("message_start")>> \in Seq(Events)
      BY BareMade DEF EventTypes
    <3>2. client'.events = <<Bare("message_start")>>
      <4> DEFINE more == <<Bare("message_start")>>
      <4>1. more \in Seq(Events) /\ client' = RealEvents(client, more)
        BY <2>1, <2>3, <3>1
      <4> HIDE DEF more
      <4>2. client'.events = client.events \o more
        BY <2>2, <4>1, RealParts
      <4>3. client.events \o more = more
        BY <2>2, <4>1, ConcatEmptySeq
      <4> QED
        BY <4>2, <4>3 DEF more
    <3>3. \A b \in Nat : HeldBy(client'.events, b) = <<>>
      BY <3>2, OpenHeld
    <3> QED
      BY <1>2, <2>1, <2>2, <3>3 DEF SaidInv, TextHeld
  <2>4. CASE ~starts
    BY <1>2, <2>1, <2>2, <2>4 DEF SaidInv
  <2> QED
    BY <2>3, <2>4
<1> QED
  BY <1>3, <1>4

\* What the backend says with an event, the translator and the stream have too.
LEMMA EventSaid ==
  ASSUME PingInv, StreamInv, SaidInv, NEW c \in Chunks, CopyEvent(c)
  PROVE  SaidInv'
<1>0. PICK n \in Nat : n = Len(said) + 1
  BY DEF StreamInv
<1> DEFINE u == ApplyChunk(tr, c, n)
<1>1. /\ hpc = "proxy" /\ hpc' = hpc /\ ~tw.isError /\ answer # "none" /\ tw' = tw
      /\ said' = Append(said, c) /\ wantStream' = wantStream /\ tr' = [u EXCEPT !.sseBuf = "empty"]
  BY <1>0 DEF CopyEvent, Copying
<1>2. tw.status = "200" /\ (tw.realStarted <=> wantStream) /\ said \in Seq(Chunks) /\ tr \in Translators
      /\ tr.textBlock \in {0 - 1, 0} /\ tr.nextBlock = tr.textBlock + 1 /\ tr.text \in Seq(Nat) /\ client \in Clients
  BY <1>1 DEF StreamInv, PingInv, Statuses, Translators
<1>3. /\ u \in Translators
      /\ IF c.text /\ wantStream /\ tr.textBlock = 0 - 1
         THEN u.textBlock = 0 /\ u.nextBlock = 1
         ELSE u.textBlock = tr.textBlock /\ u.nextBlock = tr.nextBlock
  BY <1>2, ApplyTyped
<1>4. /\ CallsRight(u, CallPieces \o PiecesAt(c, n))
      /\ u.text = IF c.text THEN Append(tr.text, n) ELSE tr.text
      /\ u.reason = IF c.reason = "" THEN tr.reason ELSE c.reason
  <2> DEFINE cp == CallPieces
  <2>1. CallsRight(tr, cp)
    BY DEF SaidInv
  <2> HIDE DEF cp
  <2>2. /\ CallsRight(ApplyChunk(tr, c, n), cp \o PiecesAt(c, n))
        /\ ApplyChunk(tr, c, n).text = IF c.text THEN Append(tr.text, n) ELSE tr.text
        /\ ApplyChunk(tr, c, n).reason = IF c.reason = "" THEN tr.reason ELSE c.reason
    BY <1>2, <2>1, ApplyRight
  <2> QED
    BY <2>2 DEF cp
<1> HIDE DEF u
<1>5. /\ tr'.text = u.text /\ tr'.reason = u.reason /\ tr'.args = u.args /\ tr'.order = u.order
      /\ tr'.textBlock = u.textBlock /\ tr'.nextBlock = u.nextBlock
  BY <1>1, <1>3 DEF Translators
<1>6. CallsRight(tr', CallPieces')
  <2>1. CallPieces' = CallPieces \o PiecesAt(c, n)
    BY <1>0, <1>1, <1>2, PiecesSaid
  <2>2. CallsRight(u, CallPieces')
    BY <1>4, <2>1
  <2> QED
    BY <1>5, <2>2 DEF CallsRight
<1>7. tr'.text = TextSaid'
  <2>1. TextSaid' = IF c.text THEN Append(TextSaid, n) ELSE TextSaid
    BY <1>0, <1>1, <1>2, TextAppend
  <2> QED
    BY <1>4, <1>5, <2>1 DEF SaidInv
<1>8. ReasonRight(tr)'
  <2>1. ReasonsGiven' = IF c.reason # "" THEN Append(ReasonsGiven, c.reason) ELSE ReasonsGiven
    BY <1>1, <1>2, ReasonAppend
  <2>2. ReasonsGiven \in Seq(Reasons \ {""}) /\ tr.reason = IF ReasonsGiven = <<>> THEN "" ELSE Last(ReasonsGiven)
    BY DEF SaidInv, ReasonRight
  <2>3. CASE c.reason = ""
    BY <1>4, <1>5, <2>1, <2>2, <2>3 DEF ReasonRight
  <2>4. CASE c.reason # ""
    <3> DEFINE T == Reasons \ {""}
               r == ReasonsGiven
    <3>1. c.reason \in T /\ r \in Seq(T)
      BY <2>2, <2>4, StreamAssumption
    <3> HIDE DEF T, r
    <3>2. Append(r, c.reason) \in Seq(T) /\ Append(r, c.reason) # <<>> /\ Last(Append(r, c.reason)) = c.reason
      BY <3>1 DEF Last
    <3> QED
      BY <1>4, <1>5, <2>1, <2>4, <3>2 DEF ReasonRight, T, r
  <2> QED
    BY <2>3, <2>4
<1>9. tw.realStarted => (tr'.textBlock = 0 <=> tr'.text # <<>>)
  <2>1. Append(tr.text, n) # <<>>
    <3> DEFINE x == tr.text
    <3>1. x \in Seq(Nat)
      BY <1>2
    <3> HIDE DEF x
    <3>2. Append(x, n) # <<>>
      BY <3>1
    <3> QED
      BY <3>2 DEF x
  <2> QED
    BY <1>2, <1>3, <1>4, <1>5, <2>1 DEF SaidInv
<1>10. ASSUME tw.realStarted
       PROVE  TextHeld(client'.events, tr')
  <2> SUFFICES ASSUME NEW b \in Nat
               PROVE  HeldBy(client'.events, b) = IF b < tr'.nextBlock THEN tr'.text ELSE <<>>
    BY DEF TextHeld
  <2> DEFINE e == Event("start", 0, <<>>)
             f == Event("delta", 0, <<n>>)
             s == client.events
  <2>1. client'.events = IF ~c.text THEN s
                         ELSE IF tr.textBlock = 0 - 1 THEN Append(Append(s, e), f) ELSE Append(s, f)
    BY <1>0, <1>2, <1>10, EventWrites
  <2>2. e \in Events /\ e.block = 0 /\ e.of = <<>>
    BY DEF Event, Events, EventTypes
  <2>3. f \in Events /\ f.block = 0 /\ f.of = <<n>>
    BY DEF Event, Events, EventTypes
  <2>4. s \in Seq(Events) /\ HeldBy(s, b) = IF b < tr.nextBlock THEN tr.text ELSE <<>>
    BY <1>1, <1>2, <1>10 DEF SaidInv, TextHeld, Clients
  <2> HIDE DEF e, f, s
  <2>5. ASSUME NEW q \in Seq(Events)
        PROVE  /\ Append(q, e) \in Seq(Events) /\ HeldBy(Append(q, e), b) = HeldBy(q, b)
               /\ HeldBy(Append(q, f), b) = IF b = 0 THEN HeldBy(q, b) \o <<n>> ELSE HeldBy(q, b)
    <3>1. /\ HeldBy(q, b) \in Seq(Nat)
          /\ HeldBy(Append(q, e), b) = IF e.block = b THEN HeldBy(q, b) \o e.of ELSE HeldBy(q, b)
          /\ HeldBy(Append(q, f), b) = IF f.block = b THEN HeldBy(q, b) \o f.of ELSE HeldBy(q, b)
      BY <2>2, <2>3, HeldAppend
    <3>2. HeldBy(q, b) \o <<>> = HeldBy(q, b)
      BY <3>1, ConcatEmptySeq
    <3> QED
      BY <2>2, <2>3, <3>1, <3>2
  <2>6. CASE ~c.text
    BY <1>3, <1>4, <1>5, <2>1, <2>4, <2>6
  <2>7. CASE c.text
    <3>1. HeldBy(client'.events, b) = IF b = 0 THEN HeldBy(s, b) \o <<n>> ELSE HeldBy(s, b)
      <4>1. CASE tr.textBlock = 0 - 1
        BY <2>1, <2>4, <2>5, <2>7, <4>1
      <4>2. CASE tr.textBlock = 0
        BY <2>1, <2>4, <2>5, <2>7, <4>2
      <4> QED
        BY <1>2, <4>1, <4>2
    <3>2. tr'.nextBlock = 1 /\ tr'.text = Append(tr.text, n)
      <4>1. u.nextBlock = 1
        BY <1>2, <1>3, <1>10, <2>7
      <4> QED
        BY <1>4, <1>5, <2>7, <4>1
    <3>3. b < tr'.nextBlock <=> b = 0
      BY <3>2
    <3>4. b = 0 => HeldBy(s, b) = tr.text
      BY <1>2, <1>10, <2>4 DEF SaidInv
    <3>5. tr.text \o <<n>> = Append(tr.text, n)
      BY <1>2
    <3>6. b # 0 => HeldBy(s, b) = <<>>
      BY <1>2, <2>4
    <3> QED
      BY <3>1, <3>2, <3>3, <3>4, <3>5, <3>6
  <2> QED
    BY <2>6, <2>7
<1> QED
  BY <1>1, <1>2, <1>6, <1>7, <1>8, <1>9, <1>10 DEF SaidInv

\* What was said stays said when neither the events nor the translator's part of it change.
LEMMA SameSaid ==
  ASSUME SaidInv, StreamInv, UNCHANGED <<wantStream, said>>, tr' \in Translators,
         tw'.realStarted = tw.realStarted, tw'.status = tw.status,
         hpc = "gone" => hpc' = "gone",
         tr'.args = tr.args, tr'.order = tr.order, tr'.text = tr.text, tr'.reason = tr.reason,
         tr'.textBlock = tr.textBlock, tr'.nextBlock = tr.nextBlock,
         hpc' # "gone" /\ tw.realStarted => \A b \in Nat : HeldBy(client'.events, b) = HeldBy(client.events, b)
  PROVE  SaidInv'
<1>1. /\ CallPieces' = CallPieces /\ TextSaid' = TextSaid /\ ReasonsGiven' = ReasonsGiven
  BY DEF CallPieces, TextSaid, ReasonsGiven
<1>2. CallsRight(tr', CallPieces')
  BY <1>1 DEF SaidInv, CallsRight
<1>3. ReasonRight(tr)'
  BY <1>1 DEF SaidInv, ReasonRight
<1>4. hpc' # "gone" /\ tw.realStarted => TextHeld(client'.events, tr')
  BY DEF SaidInv, TextHeld
<1> QED
  BY <1>1, <1>2, <1>3, <1>4 DEF SaidInv

\* One step per action.
LEMMA StepSaid == PingInv /\ StreamInv /\ SaidInv /\ [Next]_vars => SaidInv'
<1> SUFFICES ASSUME PingInv, StreamInv, SaidInv, [Next]_vars PROVE SaidInv'
  OBVIOUS
<1>1. CASE Inform
  BY <1>1, HeaderSaid DEF Inform, Statuses
<1>2. CASE \E s \in {"200", "error"} : Respond(s)
  <2>1. PICK s \in {"200", "error"} : Respond(s)
    BY <1>2
  <2> QED
    BY <2>1, HeaderSaid DEF Respond, Statuses
<1>3. CASE Refuse
  BY <1>3, HeaderSaid DEF Refuse, Statuses
<1>4. CASE GiveUp \/ StopPing \/ WaitPing \/ Lock \/ Tick \/ PingLock \/ PingStop \/ Deliver
           \/ UNCHANGED vars \/ \E how \in {"clean", "cut"} : EndBody(how)
  <2>1. /\ UNCHANGED <<wantStream, said, tr>> /\ (hpc = "gone" => hpc' = "gone")
        /\ hpc' # "gone" => client' = client
    BY <1>4 DEF GiveUp, StopPing, WaitPing, Lock, Tick, PingLock, PingStop, Deliver, EndBody, vars
  <2>2. tw'.realStarted = tw.realStarted /\ tw'.status = tw.status
    <3>1. tw' = tw \/ tw' = [tw EXCEPT !.pingStop = "closed"]
      BY <1>4 DEF GiveUp, StopPing, WaitPing, Lock, Tick, PingLock, PingStop, Deliver, EndBody, vars
    <3> QED
      BY <3>1 DEF PingInv
  <2>3. tr' \in Translators
    BY <2>1 DEF StreamInv
  <2> QED
    BY <2>1, <2>2, <2>3, SameSaid
<1>5. CASE FlushHeaders \/ CopyPart \/ CopyTail
  <2>1. /\ hpc' = hpc /\ UNCHANGED <<wantStream, said, tw>>
        /\ client' = Flush(client) \/ client' = client
    BY <1>5 DEF FlushHeaders, CopyPart, CopyTail, Copying
  <2>2. client'.events = client.events
    BY <2>1, FlushKeeps DEF StreamInv
  <2>3. \/ tr' = tr
        \/ \E b \in {"empty", "front", "dropped"} : tr' = [tr EXCEPT !.sseBuf = b]
    BY <1>5 DEF FlushHeaders, CopyPart, CopyTail, StreamInv, Translators
  <2>4. /\ tr' \in Translators /\ tr'.args = tr.args /\ tr'.order = tr.order /\ tr'.text = tr.text
        /\ tr'.reason = tr.reason /\ tr'.textBlock = tr.textBlock /\ tr'.nextBlock = tr.nextBlock
    BY <2>3 DEF StreamInv, Translators
  <2> QED
    BY <2>1, <2>2, <2>4, SameSaid
<1>6. CASE \E c \in Chunks : CopyEvent(c)
  BY <1>6, EventSaid
<1>7. CASE PingTick
  <2>1. /\ UNCHANGED <<wantStream, said, hpc, tw, tr>>
        /\ client' = client \/ client' = RealEvents(client, <<Bare("ping")>>)
    BY <1>7 DEF PingTick
  <2>2. CASE client' = client
    BY <2>1, <2>2, SameSaid DEF StreamInv
  <2>3. CASE client' = RealEvents(client, <<Bare("ping")>>)
    <3> DEFINE e == Bare("ping")
               s == client.events
    <3>1. e \in Events /\ e.of = <<>> /\ s \in Seq(Events)
      BY BareMade DEF EventTypes, StreamInv, Clients
    <3> HIDE DEF e, s
    <3>2. client'.events = s \o <<e>>
      <4> DEFINE more == <<e>>
      <4>1. more \in Seq(Events) /\ client' = RealEvents(client, more) /\ client \in Clients
        BY <2>3, <3>1 DEF StreamInv, e
      <4> HIDE DEF more
      <4>2. client'.events = client.events \o more
        BY <4>1, RealParts
      <4> QED
        BY <4>2 DEF more, s
    <3>3. s \o <<e>> = Append(s, e)
      BY <3>1, ConcatSteps
    <3>4. ASSUME NEW b \in Nat
          PROVE  HeldBy(client'.events, b) = HeldBy(client.events, b)
      <4>1. HeldBy(s, b) \in Seq(Nat) /\ HeldBy(Append(s, e), b) = IF e.block = b THEN HeldBy(s, b) \o e.of ELSE HeldBy(s, b)
        BY <3>1, HeldAppend
      <4>2. HeldBy(s, b) \o e.of = HeldBy(s, b)
        BY <3>1, <4>1, ConcatEmptySeq
      <4> QED
        BY <3>2, <3>3, <4>1, <4>2 DEF s
    <3> QED
      BY <2>1, <3>4, SameSaid DEF StreamInv
  <2> QED
    BY <2>1, <2>2, <2>3
<1> QED
  BY <1>1, <1>2, <1>3, <1>4, <1>5, <1>6, <1>7 DEF Next

\* What was said depends on the backend's events alone.
LEMMA SaidKept == UNCHANGED said => ContentSaid' = ContentSaid /\ ReasonSaid' = ReasonSaid
<1> SUFFICES ASSUME UNCHANGED said PROVE ContentSaid' = ContentSaid /\ ReasonSaid' = ReasonSaid
  OBVIOUS
<1>1. /\ CallPieces' = CallPieces /\ TextSaid' = TextSaid /\ FirstPieces' = FirstPieces
      /\ ReasonsGiven' = ReasonsGiven
  BY DEF CallPieces, TextSaid, FirstPieces, ReasonsGiven
<1>2. ContentSaid' = ContentSaid
  BY DEF ContentSaid, CallPieces, TextSaid, FirstPieces, PiecesOf
<1>3. ReasonSaid' = ReasonSaid
  BY <1>1 DEF ReasonSaid
<1> QED
  BY <1>2, <1>3

\* A reply stays the reply while neither the response nor what it answers changes.
LEMMA SameShown ==
  UNCHANGED <<wantStream, said, answer, end, hpc, tw, client>> /\ ReplyShown => ReplyShown'
<1> SUFFICES ASSUME UNCHANGED <<wantStream, said, answer, end, hpc, tw, client>>, ReplyShown
             PROVE  ReplyShown'
  OBVIOUS
<1>1. ContentSaid' = ContentSaid /\ ReasonSaid' = ReasonSaid
  BY SaidKept
<1>2. ContentReceived' = ContentReceived
  BY DEF ContentReceived, Count
<1> QED
  BY <1>1, <1>2 DEF ReplyShown, Whole, RefusalShown

\* Until the handler returns, there is no reply to judge.
LEMMA NotYet == hpc # "gone" => ReplyShown
  BY DEF ReplyShown, Whole, RefusalShown

\* What finish writes is what was said, or the refusal.
LEMMA DeliverShown ==
  ASSUME PingInv, StreamInv, SaidInv, ShownInv, stage = "exchange", Deliver
  PROVE  ReplyShown'
<1>1. /\ hpc = "deliver" /\ client' = Delivered(client)
      /\ UNCHANGED <<wantStream, said, answer, end, tw, tr>>
  BY DEF Deliver
<1>2. client \in Clients /\ tr \in Translators /\ client.status \in {"none", "200"}
  BY <1>1 DEF StreamInv, ShownInv
<1>3. ContentSaid' = ContentSaid /\ ReasonSaid' = ReasonSaid
  BY <1>1, SaidKept
<1>4. BuildMessage(tr) = ContentSaid /\ StopReason(tr) = ReasonSaid
  BY <1>2, MessageSaid, StopSaid DEF SaidInv
<1>5. CASE tw.isError \/ tw.status = "none"
  <2>1. ~tw.realStarted /\ tw.status # "200"
    BY <1>5 DEF StreamInv
  <2>2. Whole'
    BY <1>1, <2>1 DEF Whole
  <2>3. ASSUME answer # "200", tw.status # "info", ~(wantStream /\ answer = "error")
        PROVE  client'.status = "error" /\ client'.body = "error" /\ client'.events = <<>>
    <3>1. tw.status \in {"none", "error"}
      BY <2>1, <2>3 DEF PingInv, Statuses
    <3>2. client' = RealBody(client, "error", "error")
      BY <1>1, <1>5, <2>1, <3>1 DEF Delivered
    <3>3. client.status = "none" /\ client.events = <<>>
      BY <1>1, <2>1, <2>3 DEF ShownInv, StreamInv
    <3> QED
      BY <1>2, <3>2, <3>3, RealParts
  <2>4. RefusalShown'
    BY <1>1, <2>3 DEF RefusalShown
  <2> QED
    BY <2>2, <2>4 DEF ReplyShown
<1>6. CASE ~(tw.isError \/ tw.status = "none")
  <2>1. tw.status = "200" /\ answer = "200"
    BY <1>6 DEF StreamInv, PingInv, Statuses, ShownInv
  <2>2. RefusalShown'
    BY <1>1, <2>1 DEF RefusalShown
  <2>3. client'.status = "200" /\ ContentReceived' = ContentSaid /\ client'.stop = ReasonSaid
    <3>1. CASE wantStream
      <4> DEFINE more == FinishEvents(tr)
                 c == RealEvents(client, more)
      <4>1. client' = [c EXCEPT !.stop = StopReason(tr)]
        BY <1>1, <1>6, <3>1 DEF Delivered
      <4>2. tw.realStarted /\ Stream(client.events, tr.nextBlock, 0, 0, 0) /\ tr.nextBlock = tr.textBlock + 1
        BY <1>1, <2>1, <3>1 DEF StreamInv
      <4>3. more \in Seq(Events)
        BY <1>2, <4>2, FinishStream
      <4> HIDE DEF more
      <4>4. /\ c \in Clients /\ c.events = client.events \o more
            /\ c.status = IF client.status = "none" THEN "200" ELSE client.status
        BY <1>2, <4>3, RealParts
      <4> HIDE DEF c
      <4>5. client'.events = client.events \o more /\ client'.status = "200" /\ client'.stop = StopReason(tr)
        BY <1>2, <4>1, <4>4 DEF Clients
      <4> DEFINE u == client'.events
      <4>6. ContentReceived' = Received(u)
        BY <1>1, <3>1 DEF Received, ContentReceived, Count, CountIn, HeldBy, HeldOf
      <4> HIDE DEF u
      <4>7. u = client.events \o FinishEvents(tr)
        BY <4>5 DEF u, more
      <4>8. (tr.textBlock = 0 <=> tr.text # <<>>) /\ TextHeld(client.events, tr)
        BY <1>1, <4>2 DEF SaidInv
      <4>9. Received(u) = BuildMessage(tr)
        <5> DEFINE s == client.events
        <5>1. /\ tr \in Translators /\ tr.nextBlock = tr.textBlock + 1 /\ (tr.textBlock = 0 <=> tr.text # <<>>)
              /\ Stream(s, tr.nextBlock, 0, 0, 0) /\ TextHeld(s, tr) /\ u = s \o FinishEvents(tr)
          BY <1>2, <4>2, <4>7, <4>8
        <5> HIDE DEF s
        <5> QED
          BY <5>1, StreamSaid
      <4> QED
        BY <1>4, <4>5, <4>6, <4>9
    <3>2. CASE ~wantStream
      <4> DEFINE c == RealBody(client, "200", "message")
      <4>1. client' = [c EXCEPT !.message = BuildMessage(tr), !.stop = StopReason(tr)]
        BY <1>1, <1>6, <3>2 DEF Delivered
      <4>2. c \in Clients /\ c.status = "200"
        <5>1. c = [client EXCEPT !.status = IF client.status = "none" THEN "200" ELSE client.status, !.body = "message"]
          BY <1>2 DEF RealBody, RealFlush, RealHeader, Clients
        <5> QED
          BY <1>2, <5>1 DEF Clients
      <4> HIDE DEF c
      <4>3. client'.status = "200" /\ client'.message = BuildMessage(tr) /\ client'.stop = StopReason(tr)
        BY <4>1, <4>2 DEF Clients
      <4>4. ContentReceived' = client'.message
        BY <1>1, <3>2 DEF ContentReceived
      <4> QED
        BY <1>4, <4>3, <4>4
    <3> QED
      BY <3>1, <3>2 DEF StreamInv
  <2>4. Whole'
    BY <1>3, <2>3 DEF Whole
  <2> QED
    BY <2>2, <2>4 DEF ReplyShown
<1> QED
  BY <1>5, <1>6

\* The first status decides the client's only when it opens the stream.
LEMMA HeaderShown ==
  ASSUME PingInv, StreamInv, ShownInv, stage = "exchange", stage' = stage, hpc = "proxy", answer = "none",
         NEW code \in Statuses \ {"none"}, WriteHeader(code), UNCHANGED wantStream,
         hpc' \in {"proxy", "finish"}, answer' \in {"none", "200", "error", "refused"},
         code = "200" => answer' = "200", answer' = "refused" => hpc' # "proxy"
  PROVE  ShownInv'
<1>1. ReplyShown'
  BY NotYet DEF ReplyShown, Whole, RefusalShown
<1>2. client.status = "none" /\ client \in Clients /\ tw.status # "200"
  BY DEF ShownInv, StreamInv
<1>3. CASE tw.status # "none"
  <2>1. tw' = tw /\ client' = client
    BY <1>3 DEF WriteHeader
  <2> QED
    BY <1>1, <1>2, <2>1 DEF ShownInv
<1>4. CASE tw.status = "none"
  <2> DEFINE starts == code = "200" /\ wantStream
  <2>1. /\ tw'.status = code /\ (tw'.realStarted <=> starts)
        /\ client' = IF starts THEN RealEvents(client, <<Bare("message_start")>>) ELSE client
    BY <1>4 DEF WriteHeader
  <2>2. starts => client'.status = "200"
    <3>1. Bare("message_start") \in Events /\ <<Bare("message_start")>> \in Seq(Events)
      BY BareMade DEF EventTypes
    <3> QED
      BY <1>2, <2>1, <3>1, RealParts
  <2> QED
    BY <1>1, <1>2, <2>1, <2>2 DEF ShownInv
<1> QED
  BY <1>3, <1>4

\* One step per action of the exchange.
LEMMA ExchangeShown ==
  ASSUME PingInv, StreamInv, SaidInv, ShownInv, stage = "exchange", stage' = stage, Next
  PROVE  ShownInv'
<1>1. CASE Inform
  BY <1>1, HeaderShown DEF Inform, Statuses
<1>2. CASE \E s \in {"200", "error"} : Respond(s)
  <2>1. PICK s \in {"200", "error"} : Respond(s)
    BY <1>2
  <2> QED
    BY <2>1, HeaderShown DEF Respond, Statuses
<1>3. CASE Refuse
  BY <1>3, HeaderShown DEF Refuse, Statuses
<1>4. CASE GiveUp \/ StopPing \/ WaitPing \/ Lock \/ \E how \in {"clean", "cut"} : EndBody(how)
  <2>1. /\ hpc # "gone" /\ hpc' \notin {"gone", "proxy"} /\ UNCHANGED <<wantStream, answer, client>>
    BY <1>4 DEF GiveUp, StopPing, WaitPing, Lock, EndBody
  <2>2. tw'.realStarted = tw.realStarted /\ tw'.status = tw.status
    <3>1. tw' = tw \/ tw' = [tw EXCEPT !.pingStop = "closed"]
      BY <1>4 DEF GiveUp, StopPing, WaitPing, Lock, EndBody
    <3> QED
      BY <3>1 DEF PingInv
  <2>3. ReplyShown'
    BY <2>1 DEF ReplyShown, Whole, RefusalShown
  <2> QED
    BY <2>1, <2>2, <2>3 DEF ShownInv
<1>5. CASE FlushHeaders \/ CopyPart
  <2>1. /\ hpc = "proxy" /\ hpc' = hpc /\ answer # "none" /\ UNCHANGED <<wantStream, answer, tw>>
        /\ client' = Flush(client)
    BY <1>5 DEF FlushHeaders, CopyPart, Copying
  <2>2. client'.status = IF wantStream /\ client.status = "none" THEN "200" ELSE client.status
    BY <2>1, FlushKeeps DEF StreamInv
  <2>3. ReplyShown'
    BY <2>1 DEF ReplyShown, Whole, RefusalShown
  <2> QED
    BY <2>1, <2>2, <2>3 DEF ShownInv
<1>6. CASE \E c \in Chunks : CopyEvent(c)
  <2>1. PICK c \in Chunks : CopyEvent(c)
    BY <1>6
  <2>2. hpc = "proxy" /\ hpc' = hpc /\ answer # "none" /\ UNCHANGED <<wantStream, answer, tw>>
    BY <2>1 DEF CopyEvent, Copying
  <2>3. PICK n : n = Len(said) + 1
    OBVIOUS
  <2>4. client'.status = IF wantStream /\ client.status = "none" THEN "200" ELSE client.status
    BY <2>1, <2>3, EventWrites
  <2>5. ReplyShown'
    BY <2>2 DEF ReplyShown, Whole, RefusalShown
  <2> QED
    BY <2>2, <2>4, <2>5 DEF ShownInv
<1>7. CASE CopyTail \/ Tick \/ PingLock \/ PingStop
  <2>1. UNCHANGED <<wantStream, said, answer, end, hpc, tw, client>>
    BY <1>7 DEF CopyTail, Tick, PingLock, PingStop
  <2>2. ReplyShown'
    BY <2>1, SameShown DEF ShownInv
  <2> QED
    BY <2>1, <2>2 DEF ShownInv
<1>8. CASE Deliver
  <2>1. hpc' = "gone" /\ UNCHANGED <<answer, tw>>
    BY <1>8 DEF Deliver
  <2>2. ReplyShown'
    BY <1>8, DeliverShown
  <2> QED
    BY <2>1, <2>2 DEF ShownInv
<1>9. CASE PingTick
  <2>1. hpc # "gone" /\ tw.realStarted /\ UNCHANGED <<wantStream, answer, hpc, tw>>
    BY <1>9 DEF PingTick, PingInv, StreamInv
  <2>2. client'.status \in {"none", "200"}
    <3>1. Bare("ping") \in Events /\ <<Bare("ping")>> \in Seq(Events)
      BY BareMade DEF EventTypes
    <3>2. RealEvents(client, <<Bare("ping")>>).status = IF client.status = "none" THEN "200" ELSE client.status
      BY <3>1, RealParts DEF StreamInv
    <3> QED
      BY <1>9, <2>1, <3>2 DEF PingTick, ShownInv
  <2>3. ReplyShown'
    BY <2>1 DEF ReplyShown, Whole, RefusalShown
  <2> QED
    BY <2>1, <2>2, <2>3 DEF ShownInv
<1> QED
  BY <1>1, <1>2, <1>3, <1>4, <1>5, <1>6, <1>7, <1>8, <1>9 DEF Next

\* The stages before the exchange write nothing but a refusal of the router's own.
LEMMA StepShown ==
  PingInv /\ StreamInv /\ SaidInv /\ ShownInv /\ [RedirectNext]_redirectVars => SaidInv' /\ ShownInv'
<1> SUFFICES ASSUME PingInv, StreamInv, SaidInv, ShownInv, [RedirectNext]_redirectVars
             PROVE  SaidInv' /\ ShownInv'
  OBVIOUS
<1>1. CASE Exchange
  BY <1>1, StepSaid, ExchangeShown DEF Exchange
<1>2. CASE UNCHANGED vars /\ (UNCHANGED stage \/ stage' \in {"translated", "exchange"})
           /\ (stage' # stage => stage \in {"translate", "translated"})
  <2>1. SaidInv'
    BY <1>2, StepSaid
  <2>2. ReplyShown'
    <3>1. UNCHANGED <<wantStream, said, answer, end, hpc, tw, client>>
      BY <1>2 DEF vars
    <3> QED
      BY <3>1, SameShown DEF ShownInv
  <2> QED
    BY <1>2, <2>1, <2>2 DEF ShownInv, vars
<1>3. CASE RefuseBody
  <2>1. /\ UNCHANGED <<wantStream, said, answer, hpc, ppc, mu, tw, tr>> /\ stage = "translate" /\ stage' = "refused"
        /\ client' = RealBody(client, "error", "error")
    BY <1>3 DEF RefuseBody
  <2>2. client'.events = client.events
    BY <2>1, RealParts DEF StreamInv
  <2>3. SaidInv'
    BY <2>1, <2>2, SameSaid DEF StreamInv
  <2>4. hpc = "proxy"
    BY <2>1 DEF ShownInv
  <2>5. ReplyShown'
    BY <2>1, <2>4 DEF ReplyShown, Whole, RefusalShown
  <2> QED
    BY <2>1, <2>3, <2>4, <2>5 DEF ShownInv
<1> QED
  BY <1>1, <1>2, <1>3 DEF RedirectNext, ServeNative, Translate, EnterProxy, redirectVars

\* Nothing has been shown at first.
LEMMA InitShown == RedirectInit => ShownInv
<1> SUFFICES ASSUME RedirectInit PROVE ShownInv
  OBVIOUS
<1>1. hpc = "proxy" /\ answer = "none" /\ stage \in {"native", "translate"}
  BY DEF RedirectInit, Init
<1>2. client.status = "none" /\ tw.status = "none"
  BY DEF RedirectInit, Init
<1> QED
  BY <1>1, <1>2, NotYet DEF ShownInv

(***************************************************************************)
(* ReplyShown: a reply that ends well reaches the client whole, its texts  *)
(* in their order and its interleaved calls each put together, streamed or *)
(* in one message; a refusal reaches it as one (finish of                  *)
(* router_anthropic.go, and openAIToAnthropicStream behind it).            *)
(***************************************************************************)
THEOREM ReplyReachesClient == RedirectSpec => []ReplyShown
<1>1. RedirectInit => PingInv /\ StreamInv /\ SaidInv /\ ShownInv
  BY InitPing, InitStream, InitSaid, InitShown DEF RedirectInit
<1>2. ShownInv => ReplyShown
  BY DEF ShownInv
<1> QED
  BY <1>1, <1>2, StepRedirect, StepShown, PTL DEF RedirectSpec

-----------------------------------------------------------------------------
(* Sequences put together.                                                *)

\* What holds of 0 and of each number after one of which it holds.
LEMMA Upward ==
  ASSUME NEW n \in Nat, NEW S, 0 \in S, \A i \in 1..n : i - 1 \in S => i \in S
  PROVE  \A i \in 0..n : i \in S
<1> DEFINE Bad == {i \in 0..n : i \notin S}
<1>1. SUFFICES ASSUME Bad # {} PROVE FALSE
  OBVIOUS
<1>2. PICK i \in Bad : \A j \in Bad : i <= j
  <2>1. Bad \in SUBSET Nat
    OBVIOUS
  <2> HIDE DEF Bad
  <2> QED
    BY <1>1, <2>1, LeastNumber
<1>3. i \in 1..n /\ i - 1 \in 0..n
  OBVIOUS
<1>4. i - 1 \in Bad
  BY <1>3
<1> QED
  BY <1>2, <1>3, <1>4

\* FlattenSeq from nothing, sequence by sequence.
FlatSteps(g, ss, T) ==
    /\ g[0] = <<>>
    /\ \A i \in 1..Len(ss) : g[i] = g[i - 1] \o ss[i]
    /\ \A i \in 0..Len(ss) : g[i] \in Seq(T)
    /\ FlattenSeq(ss) = g[Len(ss)]

\* FlattenSeq can be written so.
LEMMA FlatRuns ==
  ASSUME NEW T, NEW ss \in Seq(Seq(T))
  PROVE  \E g : FlatSteps(g, ss, T)
<1> DEFINE Q == Seq(T)
<1> HIDE DEF Q
<1>0. ss \in Seq(Q) /\ <<>> \in Q
  BY EmptySeq DEF Q
<1>1. PICK n \in Nat : n = Len(ss)
  BY <1>0
<1>2. \A i \in 1..n : ss[i] \in Q
  BY <1>0, <1>1
<1>3. \A a, b \in Q : a \o b \in Q
  BY ConcatProperties DEF Q
<1>4. \A a \in Q : <<>> \o a = a
  BY ConcatEmptySeq DEF Q
<1>5. PICK g : /\ g[0] = <<>> /\ \A i \in 1..n : g[i] = g[i - 1] \o ss[i]
               /\ FlattenSeq(ss) = g[n]
  <2>1. CASE n = 0
    <3>1. ss = <<>>
      BY <1>0, <1>1, <2>1, EmptySeq
    <3>2. FlattenSeq(ss) = <<>>
      BY <3>1 DEF FlattenSeq
    <3> DEFINE g == [i \in {0} |-> <<>>]
    <3>3. g[0] = <<>> /\ 1..n = {}
      BY <2>1
    <3> QED
      BY <2>1, <3>2, <3>3
  <2>2. CASE n # 0
    <3>1. PICK f : /\ f[1] = ss[1]
                   /\ \A i \in 2 .. n : f[i] = f[i - 1] \o ss[i]
                   /\ FlattenSeq(ss) = f[n]
      BY <1>1, <2>2, FlattenSteps
    <3> DEFINE g == [i \in 0..n |-> IF i = 0 THEN <<>> ELSE f[i]]
    <3>2. g[0] = <<>> /\ \A i \in 1..n : g[i] = f[i]
      OBVIOUS
    <3> HIDE DEF g
    <3>3. ASSUME NEW i \in 1..n PROVE g[i] = g[i - 1] \o ss[i]
      <4>1. CASE i = 1
        <5>1. ss[1] \in Q /\ g[1] = ss[1] /\ i - 1 = 0
          BY <1>2, <3>1, <3>2, <4>1
        <5>2. <<>> \o ss[1] = ss[1]
          BY <1>4, <5>1
        <5> QED
          BY <3>2, <4>1, <5>1, <5>2
      <4>2. CASE i # 1
        <5>1. i \in 2..n /\ i - 1 \in 1..n
          BY <4>2
        <5> QED
          BY <3>1, <3>2, <5>1
      <4> QED
        BY <4>1, <4>2
    <3>4. FlattenSeq(ss) = g[n]
      <4>1. n \in 1..n
        BY <2>2
      <4> QED
        BY <3>1, <3>2, <4>1
    <3> QED
      BY <3>2, <3>3, <3>4
  <2> QED
    BY <2>1, <2>2
<1> DEFINE S == {i \in 0..n : g[i] \in Q}
<1>6. 0 \in S
  BY <1>0, <1>5
<1>7. ASSUME NEW i \in 1..n, i - 1 \in S PROVE i \in S
  <2>1. g[i - 1] \in Q /\ ss[i] \in Q
    BY <1>2, <1>7
  <2>2. g[i - 1] \o ss[i] \in Q
    BY <1>3, <2>1
  <2>3. g[i] = g[i - 1] \o ss[i]
    BY <1>5, Zenon
  <2>5. i \in 0..n
    OBVIOUS
  <2>4. g[i] \in Q
    BY <2>2, <2>3, Zenon
  <2> QED
    BY <2>4, <2>5
<1> HIDE DEF S
<1>8. \A i \in 0..n : i \in S
  BY <1>6, <1>7, Upward
<1>9. \A i \in 0..n : g[i] \in Q
  BY <1>8 DEF S
<1> QED
  BY <1>1, <1>5, <1>9 DEF FlatSteps, Q

\* A sequence is a function.
LEMMA FunctionIsSeq ==
  ASSUME NEW R, NEW n \in Nat, NEW f \in [1..n -> R]
  PROVE  f \in Seq(R) /\ Len(f) = n
  OBVIOUS

\* A sequence of one.
LEMMA OneLong ==
  ASSUME NEW T, NEW s \in Seq(T), Len(s) = 1
  PROVE  DOMAIN s = {1} /\ s[1] \in T
<1>1. DOMAIN s = 1..Len(s) /\ 1..1 = {1}
  OBVIOUS
<1>2. DOMAIN s = {1}
  BY <1>1
<1>3. \A i \in DOMAIN s : s[i] \in T
  OBVIOUS
<1> QED
  BY <1>2, <1>3

\* What holds of the empty sequence and stays true with one element more.
LEMMA Lengthened ==
  ASSUME NEW T, NEW S, <<>> \in S, \A s \in Seq(T), x \in T : s \in S => Append(s, x) \in S
  PROVE  \A s \in Seq(T) : s \in S
<1> SUFFICES ASSUME NEW s \in Seq(T) PROVE s \in S
  OBVIOUS
<1>1. PICK n \in Nat : n = Len(s)
  OBVIOUS
<1> DEFINE R == {i \in 0..n : SubSeq(s, 1, i) \in S}
<1>2. 0 \in R
  <2>1. SubSeq(s, 1, 0) = <<>>
    OBVIOUS
  <2>2. SubSeq(s, 1, 0) \in S
    BY <2>1, Zenon
  <2>3. 0 \in 0..n
    OBVIOUS
  <2> QED
    BY <2>2, <2>3
<1>3. ASSUME NEW i \in 1..n, i - 1 \in R PROVE i \in R
  <2>1. s[i] \in T /\ SubSeq(s, 1, i - 1) \in Seq(T)
    BY <1>1
  <2>2. SubSeq(s, 1, i) = Append(SubSeq(s, 1, i - 1), s[i])
    BY <1>1
  <2>3. Append(SubSeq(s, 1, i - 1), s[i]) \in S
    BY <1>3, <2>1
  <2>4. SubSeq(s, 1, i) \in S
    BY <2>2, <2>3, Zenon
  <2>5. i \in 0..n
    OBVIOUS
  <2> QED
    BY <2>4, <2>5
<1> HIDE DEF R
<1>4. n \in R
  BY <1>2, <1>3, Upward
<1>5. SubSeq(s, 1, n) = s
  BY <1>1
<1> QED
  BY <1>4, <1>5 DEF R

\* A sequence made of another, element by element.
Mapped(s, f) == [k \in DOMAIN s |-> f[s[k]]]

\* What respects concatenation respects FlattenSeq.
Homomorphism(F, T, U) ==
    /\ F \in [Seq(T) -> Seq(U)] /\ F[<<>>] = <<>>
    /\ \A a, b \in Seq(T) : F[a \o b] = F[a] \o F[b]

\* ... and so it can be done sequence by sequence.
LEMMA FlatHomomorphism ==
  ASSUME NEW T, NEW U, NEW F, NEW ss \in Seq(Seq(T)), Homomorphism(F, T, U)
  PROVE  F[FlattenSeq(ss)] = FlattenSeq(Mapped(ss, F))
<1> DEFINE Q == Seq(T)
           R == Seq(U)
           Image(ts) == Mapped(ts, F)
           S == {ts \in Seq(Q) : F[FlattenSeq(ts)] = FlattenSeq(Image(ts))}
<1>0. F \in [Q -> R] /\ (\A a, b \in Q : F[a \o b] = F[a] \o F[b]) /\ ss \in Seq(Q) /\ F[<<>>] = <<>>
  BY DEF Homomorphism
<1>00. \A ts \in Seq(Q), x \in Q : FlattenSeq(ts) \in Q /\ FlattenSeq(Append(ts, x)) = FlattenSeq(ts) \o x
  BY FlattenAppend
<1>01. \A ts \in Seq(R), x \in R : FlattenSeq(Append(ts, x)) = FlattenSeq(ts) \o x
  BY FlattenAppend
<1> HIDE DEF Q, R
<1>1. <<>> \in S
  <2>1. Image(<<>>) = <<>> /\ <<>> \in Seq(Q)
    BY DEF Mapped
  <2>2. FlattenSeq(<<>>) = <<>>
    BY DEF FlattenSeq
  <2> QED
    BY <1>0, <2>1, <2>2
<1>2. ASSUME NEW ts \in Seq(Q), NEW x \in Q, ts \in S PROVE Append(ts, x) \in S
  <2>1. Append(ts, x) \in Seq(Q)
    OBVIOUS
  <2>2. F[x] \in R /\ Image(ts) \in Seq(R)
    <3>1. PICK n \in Nat : n = Len(ts) /\ DOMAIN ts = 1..n
      OBVIOUS
    <3>2. \A i \in 1..n : F[ts[i]] \in R
      BY <1>0, <3>1
    <3>3. [i \in 1..n |-> F[ts[i]]] \in Seq(R)
      <4>1. [i \in 1..n |-> F[ts[i]]] \in [1..n -> R]
        BY <3>2
      <4> QED
        BY <4>1, FunctionIsSeq
    <3>4. Image(ts) = [i \in 1..n |-> F[ts[i]]]
      BY <3>1 DEF Mapped
    <3> QED
      BY <1>0, <3>3, <3>4
  <2>3. Image(Append(ts, x)) = Append(Image(ts), F[x])
    BY DEF Mapped
  <2> HIDE DEF Image
  <2>4. FlattenSeq(Image(Append(ts, x))) = FlattenSeq(Image(ts)) \o F[x]
    BY <1>01, <2>2, <2>3
  <2>5. F[FlattenSeq(Append(ts, x))] = F[FlattenSeq(ts)] \o F[x]
    BY <1>0, <1>00
  <2>6. F[FlattenSeq(ts)] = FlattenSeq(Image(ts))
    BY <1>2
  <2> QED
    BY <2>1, <2>4, <2>5, <2>6
<1> HIDE DEF S
<1>3. ss \in S
  BY <1>0, <1>1, <1>2, Lengthened
<1> QED
  BY <1>3 DEF S

\* FlattenSeq of sequences one after the other.
LEMMA FlattenConcat ==
  ASSUME NEW T, NEW ss \in Seq(Seq(T)), NEW ts \in Seq(Seq(T))
  PROVE  FlattenSeq(ss \o ts) = FlattenSeq(ss) \o FlattenSeq(ts)
<1> DEFINE Q == Seq(T)
           S == {us \in Seq(Q) : FlattenSeq(ss \o us) = FlattenSeq(ss) \o FlattenSeq(us)}
<1>0. ss \in Seq(Q) /\ ts \in Seq(Q)
  OBVIOUS
<1>00. \A us \in Seq(Q), x \in Q : FlattenSeq(us) \in Q /\ FlattenSeq(Append(us, x)) = FlattenSeq(us) \o x
  BY FlattenAppend
<1>01. \A a, b, c \in Q : (a \o b) \o c = a \o (b \o c)
  <2> SUFFICES ASSUME NEW a \in Seq(T), NEW b \in Seq(T), NEW c \in Seq(T)
               PROVE  (a \o b) \o c = a \o (b \o c)
    OBVIOUS
  <2> QED
    BY ConcatAssociative, SMTT(30)
<1>02. \A a \in Q : a \o <<>> = a
  BY ConcatEmptySeq
<1> HIDE DEF Q
<1>1. <<>> \in S
  <2>1. ss \o <<>> = ss /\ <<>> \in Seq(Q)
    BY <1>0
  <2>2. FlattenSeq(<<>>) = <<>>
    BY DEF FlattenSeq
  <2>3. FlattenSeq(ss) \o <<>> = FlattenSeq(ss)
    BY <1>0, <1>00, <1>02, EmptySeq
  <2> QED
    BY <2>1, <2>2, <2>3
<1>2. ASSUME NEW us \in Seq(Q), NEW x \in Q, us \in S PROVE Append(us, x) \in S
  <2>1. Append(us, x) \in Seq(Q)
    OBVIOUS
  <2>2. ss \o Append(us, x) = Append(ss \o us, x) /\ ss \o us \in Seq(Q)
    BY <1>0
  <2>3. FlattenSeq(ss \o Append(us, x)) = FlattenSeq(ss \o us) \o x
    BY <1>00, <2>2
  <2>4. FlattenSeq(ss \o us) = FlattenSeq(ss) \o FlattenSeq(us)
    BY <1>2
  <2>5. (FlattenSeq(ss) \o FlattenSeq(us)) \o x = FlattenSeq(ss) \o (FlattenSeq(us) \o x)
    BY <1>0, <1>00, <1>01
  <2>6. FlattenSeq(Append(us, x)) = FlattenSeq(us) \o x
    BY <1>00
  <2> QED
    BY <2>1, <2>3, <2>4, <2>5, <2>6
<1> HIDE DEF S
<1>3. ts \in S
  BY <1>0, <1>1, <1>2, Lengthened
<1> QED
  BY <1>3 DEF S

-----------------------------------------------------------------------------
(* What is chosen of sequences, made of them and gathered from them.      *)

\* The same set, one element more.
LEMMA OnlyLonger ==
  ASSUME NEW T, NEW s \in Seq(T), NEW x \in T, NEW S
  PROVE  Only(Append(s, x), S) = IF x \in S THEN Append(Only(s, S), x) ELSE Only(s, S)
<1>1. Agree(s, S, S)
  BY DEF Agree
<1> QED
  BY <1>1, OnlyAppend

\* An element at two places of s.
NoTwice(s) == \A i, j \in DOMAIN s : s[i] = s[j] => i = j

\* What Only chooses, and that it chooses nothing twice.
LEMMA OnlyChooses ==
  ASSUME NEW T, NEW S
  PROVE  \A s \in Seq(T) : /\ Only(s, S) \in Seq(T)
                           /\ \A x : x \in Range(Only(s, S)) <=> x \in Range(s) /\ x \in S
                           /\ NoTwice(s) => NoTwice(Only(s, S))
<1> DEFINE Right(s) == /\ Only(s, S) \in Seq(T)
                       /\ \A x : x \in Range(Only(s, S)) <=> x \in Range(s) /\ x \in S
                       /\ NoTwice(s) => NoTwice(Only(s, S))
           R == {s \in Seq(T) : Right(s)}
<1>1. <<>> \in R
  <2>1. Only(<<>>, S) = <<>> /\ <<>> \in Seq(T) /\ Range(<<>>) = {} /\ NoTwice(<<>>)
    BY OnlyEmpty DEF Range, NoTwice
  <2>2. Right(<<>>)
    BY <2>1
  <2> HIDE DEF Right
  <2> QED
    BY <2>1, <2>2
<1>2. ASSUME NEW s \in Seq(T), NEW x \in T, s \in R PROVE Append(s, x) \in R
  <2>1. /\ Only(s, S) \in Seq(T)
        /\ \A y : y \in Range(Only(s, S)) <=> y \in Range(s) /\ y \in S
        /\ NoTwice(s) => NoTwice(Only(s, S))
    BY <1>2
  <2>2. \A u \in Seq(T) : /\ Append(u, x) \in Seq(T) /\ Range(Append(u, x)) = Range(u) \cup {x}
                          /\ NoTwice(Append(u, x)) <=> NoTwice(u) /\ x \notin Range(u)
    <3> SUFFICES ASSUME NEW u \in Seq(T)
                 PROVE  /\ Append(u, x) \in Seq(T) /\ Range(Append(u, x)) = Range(u) \cup {x}
                        /\ NoTwice(Append(u, x)) <=> NoTwice(u) /\ x \notin Range(u)
      OBVIOUS
    <3>1. PICK n \in Nat : n = Len(u)
      OBVIOUS
    <3>2. PICK v : v = Append(u, x)
      OBVIOUS
    <3>3. /\ v \in Seq(T) /\ DOMAIN u = 1..n /\ DOMAIN v = 1..(n + 1) /\ v[n + 1] = x
          /\ \A i \in 1..n : v[i] = u[i]
      BY <3>1, <3>2
    <3>4. \A i : i \in 1..(n + 1) <=> i \in 1..n \/ i = n + 1
      OBVIOUS
    <3>5. Range(v) = Range(u) \cup {x}
      BY <3>3, <3>4 DEF Range
    <3>6. NoTwice(v) => NoTwice(u)
      BY <3>3, <3>4 DEF NoTwice
    <3>7. NoTwice(v) => x \notin Range(u)
      <4> SUFFICES ASSUME NoTwice(v), x \in Range(u) PROVE FALSE
        OBVIOUS
      <4>1. PICK i \in 1..n : u[i] = x
        BY <3>3 DEF Range
      <4>2. i \in DOMAIN v /\ n + 1 \in DOMAIN v /\ v[i] = v[n + 1] /\ i # n + 1
        BY <3>3, <4>1
      <4> QED
        BY <4>2 DEF NoTwice
    <3>8. NoTwice(u) /\ x \notin Range(u) => NoTwice(v)
      BY <3>3, <3>4 DEF NoTwice, Range
    <3> QED
      BY <3>2, <3>3, <3>5, <3>6, <3>7, <3>8
  <2>3. Append(s, x) \in Seq(T)
    OBVIOUS
  <2>4. CASE x \in S
    <3>1. Only(Append(s, x), S) = Append(Only(s, S), x)
      BY <2>4, OnlyLonger
    <3>2. Right(Append(s, x))
      BY <2>1, <2>2, <2>4, <3>1
    <3> HIDE DEF Right
    <3> QED
      BY <2>3, <3>2
  <2>5. CASE x \notin S
    <3>1. Only(Append(s, x), S) = Only(s, S)
      BY <2>5, OnlyLonger
    <3>2. Right(Append(s, x))
      BY <2>1, <2>2, <2>5, <3>1
    <3> HIDE DEF Right
    <3> QED
      BY <2>3, <3>2
  <2> QED
    BY <2>4, <2>5
<1> HIDE DEF R, Right
<1>3. \A s \in Seq(T) : s \in R
  BY <1>1, <1>2, Lengthened
<1>4. \A s \in Seq(T) : Right(s)
  BY <1>3 DEF R
<1> QED
  BY <1>4 DEF Right

\* Only of two sequences, of itself, with another set that agrees and with none.
LEMMA OnlyConcat ==
  ASSUME NEW T, NEW s \in Seq(T), NEW t \in Seq(T), NEW S
  PROVE  Only(s \o t, S) = Only(s, S) \o Only(t, S)
<1> DEFINE R == {u \in Seq(T) : Only(s \o u, S) = Only(s, S) \o Only(u, S)}
<1>0. \A u \in Seq(T) : Only(u, S) \in Seq(T)
  BY OnlyChooses
<1>1. <<>> \in R
  <2>1. Only(<<>>, S) = <<>> /\ s \o <<>> = s /\ <<>> \in Seq(T)
    BY OnlyEmpty
  <2>2. Only(s, S) \o <<>> = Only(s, S)
    BY <1>0, ConcatEmptySeq
  <2> QED
    BY <2>1, <2>2
<1>2. ASSUME NEW u \in Seq(T), NEW x \in T, u \in R PROVE Append(u, x) \in R
  <2>1. s \o Append(u, x) = Append(s \o u, x) /\ s \o u \in Seq(T) /\ Append(u, x) \in Seq(T)
    OBVIOUS
  <2>2. Only(Append(s \o u, x), S) = IF x \in S THEN Append(Only(s \o u, S), x) ELSE Only(s \o u, S)
    BY <2>1, OnlyLonger
  <2>3. Only(Append(u, x), S) = IF x \in S THEN Append(Only(u, S), x) ELSE Only(u, S)
    BY OnlyLonger
  <2>4. Only(s \o u, S) = Only(s, S) \o Only(u, S)
    BY <1>2
  <2>5. PICK a \in Seq(T), b \in Seq(T) : a = Only(s, S) /\ b = Only(u, S)
    BY <1>0
  <2>6. a \o Append(b, x) = Append(a \o b, x)
    OBVIOUS
  <2>7. Only(s \o Append(u, x), S) = Only(s, S) \o Only(Append(u, x), S)
    BY <2>1, <2>2, <2>3, <2>4, <2>5, <2>6
  <2> QED
    BY <2>1, <2>7
<1> HIDE DEF R
<1>3. t \in R
  BY <1>1, <1>2, Lengthened
<1> QED
  BY <1>3 DEF R

\* Two sets that agree on a sequence choose the same of it.
LEMMA OnlyAgrees ==
  ASSUME NEW T, NEW s \in Seq(T), NEW S, NEW R, Agree(s, S, R)
  PROVE  Only(s, S) = Only(s, R)
<1> DEFINE P == {u \in Seq(T) : Agree(u, S, R) => Only(u, S) = Only(u, R)}
<1>1. <<>> \in P
  BY OnlyEmpty
<1>2. ASSUME NEW u \in Seq(T), NEW x \in T, u \in P PROVE Append(u, x) \in P
  <2>1. Append(u, x) \in Seq(T)
    OBVIOUS
  <2>2. ASSUME Agree(Append(u, x), S, R) PROVE Only(Append(u, x), S) = Only(Append(u, x), R)
    <3>1. PICK n \in Nat : n = Len(u)
      OBVIOUS
    <3>2. PICK v : v = Append(u, x)
      OBVIOUS
    <3>3. /\ DOMAIN u = 1..n /\ DOMAIN v = 1..(n + 1) /\ v[n + 1] = x
          /\ \A i \in 1..n : v[i] = u[i] /\ i \in 1..(n + 1)
      BY <3>1, <3>2
    <3>4. Agree(u, S, R) /\ (x \in S <=> x \in R)
      BY <2>2, <3>2, <3>3 DEF Agree
    <3>5. Only(u, S) = Only(u, R)
      BY <1>2, <3>4
    <3>6. Only(Append(u, x), S) = IF x \in S THEN Append(Only(u, S), x) ELSE Only(u, S)
      BY OnlyLonger
    <3>7. Only(Append(u, x), R) = IF x \in R THEN Append(Only(u, R), x) ELSE Only(u, R)
      BY OnlyLonger
    <3> QED
      BY <3>4, <3>5, <3>6, <3>7
  <2> QED
    BY <2>1, <2>2
<1> HIDE DEF P
<1>3. s \in P
  BY <1>1, <1>2, Lengthened
<1> QED
  BY <1>3 DEF P

\* A set with nothing of the sequence chooses nothing.
LEMMA OnlyNothing ==
  ASSUME NEW T, NEW s \in Seq(T), NEW S, \A i \in DOMAIN s : s[i] \notin S
  PROVE  Only(s, S) = <<>>
<1>1. Only(s, S) \in Seq(T) /\ \A x : x \in Range(Only(s, S)) <=> x \in Range(s) /\ x \in S
  BY OnlyChooses
<1>2. Range(Only(s, S)) = {}
  BY <1>1 DEF Range
<1>3. PICK u \in Seq(T) : u = Only(s, S)
  BY <1>1
<1>4. \A i \in 1..Len(u) : u[i] \in Range(u)
  BY DEF Range
<1>5. Len(u) = 0
  <2>1. Len(u) # 0 => 1 \in 1..Len(u)
    OBVIOUS
  <2> QED
    BY <1>2, <1>3, <1>4, <2>1
<1> QED
  BY <1>3, <1>5, EmptySeq

\* What is chosen of a choice, when the second set lies in the first.
LEMMA OnlyOfOnly ==
  ASSUME NEW T, NEW s \in Seq(T), NEW S, NEW R, \A x \in R : x \in Range(s) => x \in S
  PROVE  Only(Only(s, S), R) = Only(s, R)
<1> DEFINE P == {u \in Seq(T) : Range(u) \subseteq Range(s) => Only(Only(u, S), R) = Only(u, R)}
<1>1. <<>> \in P
  BY OnlyEmpty
<1>2. ASSUME NEW u \in Seq(T), NEW x \in T, u \in P PROVE Append(u, x) \in P
  <2>1. Append(u, x) \in Seq(T)
    OBVIOUS
  <2>2. ASSUME Range(Append(u, x)) \subseteq Range(s)
        PROVE  Only(Only(Append(u, x), S), R) = Only(Append(u, x), R)
    <3>1. PICK n \in Nat : n = Len(u)
      OBVIOUS
    <3>2. PICK v : v = Append(u, x)
      OBVIOUS
    <3>3. /\ DOMAIN u = 1..n /\ DOMAIN v = 1..(n + 1) /\ v[n + 1] = x /\ n + 1 \in 1..(n + 1)
          /\ \A i \in 1..n : v[i] = u[i] /\ i \in 1..(n + 1)
      BY <3>1, <3>2
    <3>4. Range(u) \subseteq Range(s) /\ x \in Range(s)
      BY <2>2, <3>2, <3>3 DEF Range
    <3>5. Only(Only(u, S), R) = Only(u, R)
      BY <1>2, <3>4
    <3>6. Only(Append(u, x), S) = IF x \in S THEN Append(Only(u, S), x) ELSE Only(u, S)
      BY OnlyLonger
    <3>7. Only(Append(u, x), R) = IF x \in R THEN Append(Only(u, R), x) ELSE Only(u, R)
      BY OnlyLonger
    <3>8. PICK w \in Seq(T) : w = Only(u, S)
      BY OnlyChooses
    <3>9. Only(Append(w, x), R) = IF x \in R THEN Append(Only(w, R), x) ELSE Only(w, R)
      BY OnlyLonger
    <3>10. x \in R => x \in S
      BY <3>4
    <3> QED
      BY <3>5, <3>6, <3>7, <3>8, <3>9, <3>10
  <2> QED
    BY <2>1, <2>2
<1> HIDE DEF P
<1>3. s \in P
  BY <1>1, <1>2, Lengthened
<1> QED
  BY <1>3 DEF P

\* What is gathered from the elements of a sequence.
Gathered(s, h) == FlattenSeq(Mapped(s, h))

\* The type and the length of a sequence made of another.
LEMMA MapTyped ==
  ASSUME NEW T, NEW U, NEW f \in [T -> U], NEW s \in Seq(T)
  PROVE  /\ Mapped(s, f) \in Seq(U) /\ Len(Mapped(s, f)) = Len(s)
         /\ \A i \in 1..Len(s) : Mapped(s, f)[i] = f[s[i]]
<1>1. PICK n \in Nat : n = Len(s) /\ DOMAIN s = 1..n
  OBVIOUS
<1>2. \A i \in 1..n : s[i] \in T
  BY <1>1
<1>3. \A i \in 1..n : f[s[i]] \in U
  BY <1>2
<1>4. [i \in 1..n |-> f[s[i]]] \in [1..n -> U]
  BY <1>3
<1>5. Mapped(s, f) = [i \in 1..n |-> f[s[i]]]
  BY <1>1 DEF Mapped
<1>6. Mapped(s, f) \in [1..n -> U]
  BY <1>4, <1>5, Zenon
<1>7. Mapped(s, f) \in Seq(U) /\ Len(Mapped(s, f)) = n
  BY <1>6, FunctionIsSeq
<1>8. \A i \in 1..n : Mapped(s, f)[i] = f[s[i]]
  BY <1>5
<1> QED
  BY <1>1, <1>7, <1>8, Zenon

\* ... with one element more, element by element,
LEMMA MapLonger ==
  ASSUME NEW T, NEW U, NEW f \in [T -> U], NEW s \in Seq(T), NEW x \in T
  PROVE  Mapped(Append(s, x), f) = Append(Mapped(s, f), f[x])
  BY DEF Mapped

\* ... and of two sequences.
LEMMA MapConcat ==
  ASSUME NEW T, NEW U, NEW f \in [T -> U], NEW s \in Seq(T), NEW t \in Seq(T)
  PROVE  Mapped(s \o t, f) = Mapped(s, f) \o Mapped(t, f)
<1> DEFINE R == {u \in Seq(T) : Mapped(s \o u, f) = Mapped(s, f) \o Mapped(u, f)}
<1>0. \A u \in Seq(T) : Mapped(u, f) \in Seq(U)
  BY MapTyped
<1>1. <<>> \in R
  <2>1. Mapped(<<>>, f) = <<>> /\ s \o <<>> = s /\ <<>> \in Seq(T)
    BY DEF Mapped
  <2>2. Mapped(s, f) \o <<>> = Mapped(s, f)
    BY <1>0, ConcatEmptySeq
  <2> QED
    BY <2>1, <2>2
<1>2. ASSUME NEW u \in Seq(T), NEW x \in T, u \in R PROVE Append(u, x) \in R
  <2>1. s \o Append(u, x) = Append(s \o u, x) /\ s \o u \in Seq(T) /\ Append(u, x) \in Seq(T)
    OBVIOUS
  <2>2. Mapped(Append(s \o u, x), f) = Append(Mapped(s \o u, f), f[x])
    BY <2>1, MapLonger
  <2>3. Mapped(Append(u, x), f) = Append(Mapped(u, f), f[x])
    BY MapLonger
  <2>4. Mapped(s \o u, f) = Mapped(s, f) \o Mapped(u, f)
    BY <1>2
  <2>5. PICK a \in Seq(U), b \in Seq(U), c \in U : a = Mapped(s, f) /\ b = Mapped(u, f) /\ c = f[x]
    BY <1>0
  <2>6. a \o Append(b, c) = Append(a \o b, c)
    OBVIOUS
  <2>7. Mapped(s \o Append(u, x), f) = Mapped(s, f) \o Mapped(Append(u, x), f)
    BY <2>1, <2>2, <2>3, <2>4, <2>5, <2>6
  <2> QED
    BY <2>1, <2>7
<1> HIDE DEF R
<1>3. t \in R
  BY <1>1, <1>2, Lengthened
<1> QED
  BY <1>3 DEF R

\* What is gathered has the type of the pieces.
LEMMA GatherTyped ==
  ASSUME NEW T, NEW U, NEW h \in [T -> Seq(U)], NEW s \in Seq(T)
  PROVE  Gathered(s, h) \in Seq(U)
<1>1. Mapped(s, h) \in Seq(Seq(U)) /\ <<>> \in Seq(U)
  BY MapTyped
<1> QED
  BY <1>1, FlattenAppend DEF Gathered

\* What is gathered from two sequences.
LEMMA GatherConcat ==
  ASSUME NEW T, NEW U, NEW h \in [T -> Seq(U)], NEW s \in Seq(T), NEW t \in Seq(T)
  PROVE  Gathered(s \o t, h) = Gathered(s, h) \o Gathered(t, h)
<1>1. Mapped(s, h) \in Seq(Seq(U)) /\ Mapped(t, h) \in Seq(Seq(U))
  BY MapTyped
<1>2. Mapped(s \o t, h) = Mapped(s, h) \o Mapped(t, h)
  BY MapConcat
<1>4. FlattenSeq(Mapped(s, h) \o Mapped(t, h)) = FlattenSeq(Mapped(s, h)) \o FlattenSeq(Mapped(t, h))
  BY <1>1, FlattenConcat
<1> QED
  BY <1>2, <1>4 DEF Gathered

\* From nothing, from one, and where nothing is to be had.
LEMMA GatherFew ==
  ASSUME NEW T, NEW U, NEW h \in [T -> Seq(U)]
  PROVE  /\ Gathered(<<>>, h) = <<>>
         /\ \A x \in T : Gathered(<<x>>, h) = h[x]
         /\ \A s \in Seq(T) : (\A i \in DOMAIN s : h[s[i]] = <<>>) => Gathered(s, h) = <<>>
<1>1. Gathered(<<>>, h) = <<>>
  <2>1. Mapped(<<>>, h) = <<>>
    BY DEF Mapped
  <2>2. FlattenSeq(<<>>) = <<>>
    BY DEF FlattenSeq
  <2> QED
    BY <2>1, <2>2 DEF Gathered
<1>2. ASSUME NEW s \in Seq(T), NEW x \in T
      PROVE  Gathered(Append(s, x), h) = Gathered(s, h) \o h[x]
  <2>1. Mapped(s, h) \in Seq(Seq(U)) /\ h[x] \in Seq(U)
    BY MapTyped
  <2>2. Mapped(Append(s, x), h) = Append(Mapped(s, h), h[x])
    BY DEF Mapped
  <2> QED
    BY <2>1, <2>2, FlattenAppend DEF Gathered
<1>3. ASSUME NEW x \in T PROVE Gathered(<<x>>, h) = h[x]
  <2>1. <<x>> = Append(<<>>, x) /\ <<>> \in Seq(T) /\ h[x] \in Seq(U)
    OBVIOUS
  <2>2. Gathered(Append(<<>>, x), h) = Gathered(<<>>, h) \o h[x]
    BY <1>2, <2>1
  <2>3. <<>> \o h[x] = h[x]
    BY <2>1, ConcatEmptySeq
  <2> QED
    BY <1>1, <2>1, <2>2, <2>3
<1> DEFINE Dry(s) == \A i \in DOMAIN s : h[s[i]] = <<>>
           R == {s \in Seq(T) : Dry(s) => Gathered(s, h) = <<>>}
<1>4. <<>> \in R
  BY <1>1
<1>5. ASSUME NEW s \in Seq(T), NEW x \in T, s \in R PROVE Append(s, x) \in R
  <2>1. Append(s, x) \in Seq(T)
    OBVIOUS
  <2>2. ASSUME Dry(Append(s, x)) PROVE Gathered(Append(s, x), h) = <<>>
    <3>1. PICK n \in Nat : n = Len(s)
      OBVIOUS
    <3>2. PICK v : v = Append(s, x)
      OBVIOUS
    <3>3. /\ DOMAIN s = 1..n /\ DOMAIN v = 1..(n + 1) /\ v[n + 1] = x /\ n + 1 \in 1..(n + 1)
          /\ \A i \in 1..n : v[i] = s[i] /\ i \in 1..(n + 1)
      BY <3>1, <3>2
    <3>4. Dry(s) /\ h[x] = <<>>
      BY <2>2, <3>2, <3>3
    <3>5. Gathered(s, h) = <<>>
      BY <1>5, <3>4
    <3>6. Gathered(Append(s, x), h) = <<>> \o <<>>
      BY <1>2, <3>4, <3>5
    <3> QED
      BY <3>6
  <2> HIDE DEF Dry
  <2> QED
    BY <2>1, <2>2
<1> HIDE DEF R, Dry
<1>6. \A s \in Seq(T) : s \in R
  BY <1>4, <1>5, Lengthened
<1> QED
  BY <1>1, <1>3, <1>6 DEF R, Dry

-----------------------------------------------------------------------------
(* The same of many sequences.                                            *)

OnlyEach(ss, S) == [n \in DOMAIN ss |-> Only(ss[n], S)]

\* A choice of sequences put together is the choices put together,
LEMMA OnlyFlat ==
  ASSUME NEW T, NEW ss \in Seq(Seq(T)), NEW S
  PROVE  Only(FlattenSeq(ss), S) = FlattenSeq(OnlyEach(ss, S))
<1> DEFINE F == [s \in Seq(T) |-> Only(s, S)]
<1>1. F \in [Seq(T) -> Seq(T)] /\ \A s \in Seq(T) : F[s] = Only(s, S)
  BY OnlyChooses
<1> HIDE DEF F
<1>2. F[<<>>] = <<>>
  BY <1>1, OnlyEmpty, EmptySeq
<1>3. \A a, b \in Seq(T) : F[a \o b] = F[a] \o F[b]
  <2> SUFFICES ASSUME NEW a \in Seq(T), NEW b \in Seq(T) PROVE F[a \o b] = F[a] \o F[b]
    OBVIOUS
  <2>1. a \o b \in Seq(T)
    BY ConcatProperties
  <2>2. Only(a \o b, S) = Only(a, S) \o Only(b, S)
    BY OnlyConcat
  <2> QED
    BY <1>1, <2>1, <2>2
<1>4. F[FlattenSeq(ss)] = FlattenSeq(Mapped(ss, F))
  <2>1. Homomorphism(F, T, T)
    BY <1>1, <1>2, <1>3 DEF Homomorphism
  <2> QED
    BY <2>1, FlatHomomorphism, Zenon
<1>5. FlattenSeq(ss) \in Seq(T)
  BY FlattenAppend, EmptySeq
<1>6. \A n \in DOMAIN ss : F[ss[n]] = Only(ss[n], S)
  BY <1>1
<1>7. [n \in DOMAIN ss |-> F[ss[n]]] = [n \in DOMAIN ss |-> Only(ss[n], S)]
  BY <1>6
<1> QED
  BY <1>1, <1>4, <1>5, <1>7, Zenon DEF Mapped, OnlyEach

MapEach(ss, f) == [n \in DOMAIN ss |-> Mapped(ss[n], f)]

\* ... what is made of them is what is made of each, put together,
LEMMA MapFlat ==
  ASSUME NEW T, NEW U, NEW f \in [T -> U], NEW ss \in Seq(Seq(T))
  PROVE  Mapped(FlattenSeq(ss), f) = FlattenSeq(MapEach(ss, f))
<1> DEFINE F == [s \in Seq(T) |-> Mapped(s, f)]
<1>1. F \in [Seq(T) -> Seq(U)] /\ \A s \in Seq(T) : F[s] = Mapped(s, f)
  BY MapTyped
<1> HIDE DEF F
<1>2. F[<<>>] = <<>>
  <2>1. <<>> \in Seq(T) /\ Mapped(<<>>, f) = <<>>
    BY DEF Mapped
  <2> QED
    BY <1>1, <2>1, Zenon
<1>3. \A a, b \in Seq(T) : F[a \o b] = F[a] \o F[b]
  <2> SUFFICES ASSUME NEW a \in Seq(T), NEW b \in Seq(T) PROVE F[a \o b] = F[a] \o F[b]
    OBVIOUS
  <2>1. a \o b \in Seq(T)
    BY ConcatProperties
  <2>2. Mapped(a \o b, f) = Mapped(a, f) \o Mapped(b, f)
    BY MapConcat
  <2> QED
    BY <1>1, <2>1, <2>2
<1>4. F[FlattenSeq(ss)] = FlattenSeq(Mapped(ss, F))
  <2>1. Homomorphism(F, T, U)
    BY <1>1, <1>2, <1>3 DEF Homomorphism
  <2> QED
    BY <2>1, FlatHomomorphism, Zenon
<1>5. FlattenSeq(ss) \in Seq(T)
  BY FlattenAppend, EmptySeq
<1>6. \A n \in DOMAIN ss : F[ss[n]] = Mapped(ss[n], f)
  BY <1>1
<1>7. [n \in DOMAIN ss |-> F[ss[n]]] = [n \in DOMAIN ss |-> Mapped(ss[n], f)]
  BY <1>6
<1> QED
  BY <1>1, <1>4, <1>5, <1>7, Zenon DEF Mapped, MapEach

GatherAll(ss, h) == [n \in DOMAIN ss |-> Gathered(ss[n], h)]

\* ... and so is what is gathered from them.
LEMMA GatherFlat ==
  ASSUME NEW T, NEW U, NEW h \in [T -> Seq(U)], NEW ss \in Seq(Seq(T))
  PROVE  Gathered(FlattenSeq(ss), h) = FlattenSeq(GatherAll(ss, h))
<1> DEFINE F == [s \in Seq(T) |-> Gathered(s, h)]
<1>1. F \in [Seq(T) -> Seq(U)] /\ \A s \in Seq(T) : F[s] = Gathered(s, h)
  BY GatherTyped
<1> HIDE DEF F
<1>2. F[<<>>] = <<>>
  BY <1>1, EmptySeq, GatherFew
<1>3. \A a, b \in Seq(T) : F[a \o b] = F[a] \o F[b]
  <2> SUFFICES ASSUME NEW a \in Seq(T), NEW b \in Seq(T) PROVE F[a \o b] = F[a] \o F[b]
    OBVIOUS
  <2>1. a \o b \in Seq(T)
    BY ConcatProperties
  <2>2. Gathered(a \o b, h) = Gathered(a, h) \o Gathered(b, h)
    BY GatherConcat, Zenon
  <2> QED
    BY <1>1, <2>1, <2>2
<1>4. F[FlattenSeq(ss)] = FlattenSeq(Mapped(ss, F))
  <2>1. Homomorphism(F, T, U)
    BY <1>1, <1>2, <1>3 DEF Homomorphism
  <2> QED
    BY <2>1, FlatHomomorphism, Zenon
<1>5. FlattenSeq(ss) \in Seq(T)
  BY FlattenAppend, EmptySeq
<1>6. \A n \in DOMAIN ss : F[ss[n]] = Gathered(ss[n], h)
  BY <1>1
<1>7. [n \in DOMAIN ss |-> F[ss[n]]] = [n \in DOMAIN ss |-> Gathered(ss[n], h)]
  BY <1>6
<1> QED
  BY <1>1, <1>4, <1>5, <1>7, Zenon DEF Mapped, GatherAll

\* One from each.
OneEach(s, h, f, T, U) ==
    h \in [T -> Seq(U)] /\ f \in [T -> U] /\ \A i \in DOMAIN s : h[s[i]] = <<f[s[i]]>>

\* Gathering one from each element is making one of each.
LEMMA GatherEach ==
  ASSUME NEW T, NEW U, NEW h, NEW f, NEW s \in Seq(T), OneEach(s, h, f, T, U)
  PROVE  Gathered(s, h) = Mapped(s, f)
<1>0. h \in [T -> Seq(U)] /\ f \in [T -> U]
  BY DEF OneEach
<1> DEFINE Each(u) == \A i \in DOMAIN u : h[u[i]] = <<f[u[i]]>>
           R == {u \in Seq(T) : Each(u) => Gathered(u, h) = Mapped(u, f)}
<1>1. <<>> \in R
  <2>1. <<>> \in Seq(T) /\ Mapped(<<>>, f) = <<>>
    BY DEF Mapped
  <2>2. Gathered(<<>>, h) = <<>>
    BY <1>0, GatherFew, Zenon
  <2> QED
    BY <2>1, <2>2, Zenon
<1>2. ASSUME NEW u \in Seq(T), NEW x \in T, u \in R PROVE Append(u, x) \in R
  <2>1. Append(u, x) \in Seq(T) /\ <<x>> \in Seq(T) /\ Append(u, x) = u \o <<x>>
    OBVIOUS
  <2>2. ASSUME Each(Append(u, x)) PROVE Gathered(Append(u, x), h) = Mapped(Append(u, x), f)
    <3>1. PICK n \in Nat : n = Len(u)
      OBVIOUS
    <3>2. PICK v : v = Append(u, x)
      OBVIOUS
    <3>3. /\ DOMAIN u = 1..n /\ DOMAIN v = 1..(n + 1) /\ v[n + 1] = x /\ n + 1 \in 1..(n + 1)
          /\ \A i \in 1..n : v[i] = u[i] /\ i \in 1..(n + 1)
      BY <3>1, <3>2
    <3>4. Each(u) /\ h[x] = <<f[x]>>
      BY <2>2, <3>2, <3>3
    <3> HIDE DEF Each
    <3>5. Gathered(u, h) = Mapped(u, f)
      BY <1>2, <3>4
    <3>6. Gathered(u \o <<x>>, h) = Gathered(u, h) \o Gathered(<<x>>, h)
      <4>1. PICK t \in Seq(T) : t = <<x>>
        BY <2>1
      <4>2. PICK e \in [T -> Seq(U)] : e = h
        BY <1>0
      <4>3. Gathered(u \o t, e) = Gathered(u, e) \o Gathered(t, e)
        BY GatherConcat, Zenon
      <4> QED
        BY <4>1, <4>2, <4>3
    <3>7. Gathered(<<x>>, h) = h[x]
      BY <1>0, GatherFew
    <3>8. Mapped(Append(u, x), f) = Append(Mapped(u, f), f[x])
      BY <1>0, MapLonger
    <3>9. PICK w \in Seq(U) : w = Mapped(u, f)
      BY <1>0, MapTyped
    <3>10. PICK y \in U : y = f[x]
      BY <1>0
    <3>11. w \o <<y>> = Append(w, y)
      OBVIOUS
    <3> QED
      BY <2>1, <3>4, <3>5, <3>6, <3>7, <3>8, <3>9, <3>10, <3>11
  <2> HIDE DEF Each
  <2> QED
    BY <2>1, <2>2
<1> HIDE DEF R, Each
<1>3. s \in R
  BY <1>1, <1>2, Lengthened
<1> QED
  BY <1>3 DEF R, Each, OneEach

\* The n-th sequence within all of them.
FlatAt(g, ss) ==
    /\ \A n \in 1..Len(ss) : /\ Len(g[n]) = Len(g[n - 1]) + Len(ss[n])
                             /\ Len(g[n]) <= Len(FlattenSeq(ss))
                             /\ Len(g[n - 1]) \in Nat /\ Len(ss[n]) \in Nat
                             /\ \A j \in 1..Len(ss[n]) :
                                    FlattenSeq(ss)[Len(g[n - 1]) + j] = ss[n][j]
    /\ \A i \in 1..Len(FlattenSeq(ss)) :
           \E n \in 1..Len(ss) : \E j \in 1..Len(ss[n]) : i = Len(g[n - 1]) + j

\* Where each sequence is in FlattenSeq of them all.
LEMMA FlatPlaces ==
  ASSUME NEW T, NEW ss \in Seq(Seq(T)), NEW g, FlatSteps(g, ss, T)
  PROVE  FlatAt(g, ss)
<1> DEFINE Q == Seq(T)
           L(i) == Len(g[i])
           K(i) == Len(ss[i])
<1>1. PICK N \in Nat : N = Len(ss)
  OBVIOUS
<1>20. \A i \in 1..N : ss[i] \in Q
  BY <1>1
<1>3. \A a, b \in Q : /\ Len(a \o b) = Len(a) + Len(b) /\ Len(a) \in Nat /\ Len(b) \in Nat
                      /\ \A j \in 1..Len(b) : (a \o b)[Len(a) + j] = b[j]
                      /\ \A j \in 1..Len(a) : (a \o b)[j] = a[j]
  OBVIOUS
<1> HIDE DEF Q
<1>2. /\ g[0] = <<>> /\ FlattenSeq(ss) = g[N]
      /\ (\A i \in 1..N : g[i] = g[i - 1] \o ss[i])
      /\ (\A i \in 0..N : g[i] \in Q)
  BY <1>1 DEF FlatSteps, Q
<1>4. \A n \in 1..N : n - 1 \in 0..N /\ n \in 0..N
  OBVIOUS
<1>5. \A n \in 1..N : /\ L(n) = L(n - 1) + K(n)
                      /\ \A j \in 1..K(n) : g[n][L(n - 1) + j] = ss[n][j]
                      /\ \A j \in 1..L(n - 1) : g[n][j] = g[n - 1][j]
  <2> SUFFICES ASSUME NEW n \in 1..N
               PROVE  /\ L(n) = L(n - 1) + K(n)
                      /\ \A j \in 1..K(n) : g[n][L(n - 1) + j] = ss[n][j]
                      /\ \A j \in 1..L(n - 1) : g[n][j] = g[n - 1][j]
    OBVIOUS
  <2>1. PICK a : a = g[n - 1]
    OBVIOUS
  <2>2. PICK b : b = ss[n]
    OBVIOUS
  <2>3. a \in Q /\ b \in Q
    BY <1>2, <1>4, <1>20, <2>1, <2>2
  <2>4. g[n] = a \o b
    BY <1>2, <2>1, <2>2
  <2>5. /\ Len(a \o b) = Len(a) + Len(b)
        /\ \A j \in 1..Len(b) : (a \o b)[Len(a) + j] = b[j]
        /\ \A j \in 1..Len(a) : (a \o b)[j] = a[j]
    BY <1>3, <2>3
  <2> QED
    BY <2>1, <2>2, <2>4, <2>5
<1>0. (\A m \in 0..N : L(m) \in Nat) /\ \A n \in 1..N : L(n) \in Nat /\ L(n - 1) \in Nat /\ K(n) \in Nat
  <2>1. \A m \in 0..N : L(m) \in Nat
    BY <1>2, <1>3
  <2>2. \A n \in 1..N : K(n) \in Nat
    BY <1>3, <1>20
  <2> QED
    BY <1>4, <2>1, <2>2
<1> HIDE DEF L, K
\* What is there at the n-th stays there to the end.
<1> DEFINE Stays(n, m) == L(n) <= L(m) /\ \A j \in 1..L(n) : g[m][j] = g[n][j]
<1>6. \A n \in 0..N : \A m \in 0..N : n <= m => Stays(n, m)
  <2> SUFFICES ASSUME NEW n \in 0..N PROVE \A m \in 0..N : n <= m => Stays(n, m)
    OBVIOUS
  <2> DEFINE S == {m \in 0..N : n <= m => Stays(n, m)}
  <2>1. \A m \in 0..N : m = n => Stays(n, m)
    BY <1>0
  <2>2. 0 \in S
    BY <2>1
  <2>3. ASSUME NEW m \in 1..N, m - 1 \in S PROVE m \in S
    <3>1. CASE n < m
      <4>1. Stays(n, m - 1)
        BY <2>3, <3>1
      <4>2. PICK x \in Nat, y \in Nat, z \in Nat : x = L(n) /\ y = L(m - 1) /\ z = K(m)
        BY <1>0
      <4>5. L(m) = y + z /\ x <= y
        BY <1>5, <4>1, <4>2
      <4>3. \A j \in 1..L(n) : j \in 1..L(m - 1)
        BY <4>2, <4>5
      <4>4. L(n) <= L(m)
        BY <4>2, <4>5
      <4>6. \A j \in 1..L(n) : g[m][j] = g[n][j]
        BY <1>5, <4>1, <4>3
      <4> QED
        BY <1>4, <4>4, <4>6
    <3>2. CASE ~(n < m)
      <4>1. m \in 0..N /\ (n <= m => n = m)
        BY <3>2
      <4> QED
        BY <2>1, <4>1
    <3> QED
      BY <3>1, <3>2
  <2> HIDE DEF S, Stays
  <2>4. \A m \in 0..N : m \in S
    BY <2>2, <2>3, Upward
  <2> QED
    BY <2>4 DEF S
<1>7. ASSUME NEW n \in 1..N
      PROVE  /\ L(n) = L(n - 1) + K(n) /\ L(n) <= L(N)
             /\ \A j \in 1..K(n) : g[N][L(n - 1) + j] = ss[n][j]
  <2>1. n \in 0..N /\ N \in 0..N /\ n <= N
    OBVIOUS
  <2>2. Stays(n, N)
    BY <1>6, <2>1
  <2>3. ASSUME NEW j \in 1..K(n) PROVE g[N][L(n - 1) + j] = ss[n][j]
    <3>0. PICK x \in Nat, y \in Nat, z \in Nat : x = L(n) /\ y = L(n - 1) /\ z = K(n)
      BY <1>0
    <3>1. L(n - 1) + j \in 1..L(n)
      <4>1. x = y + z /\ j \in 1..z
        BY <1>5, <3>0
      <4>2. y + j \in 1..x
        BY <4>1
      <4> QED
        BY <3>0, <4>2
    <3>2. g[n][L(n - 1) + j] = ss[n][j]
      BY <1>5
    <3> QED
      BY <2>2, <3>1, <3>2
  <2> QED
    BY <1>5, <2>2, <2>3
<1> HIDE DEF Stays
<1> DEFINE Found(i, m) == \E n \in 1..m : \E j \in 1..K(n) : i = L(n - 1) + j
           P == {m \in 0..N : \A i \in 1..L(m) : Found(i, m)}
<1>8. 0 \in P
  <2>1. L(0) = 0
    BY <1>2 DEF L
  <2>2. 1..0 = {} /\ 0 \in 0..N
    OBVIOUS
  <2> HIDE DEF Found
  <2> QED
    BY <2>1, <2>2
<1>9. ASSUME NEW m \in 1..N, m - 1 \in P PROVE m \in P
  <2>0. PICK x \in Nat, y \in Nat, z \in Nat : x = L(m) /\ y = L(m - 1) /\ z = K(m)
    BY <1>0
  <2>1. x = y + z
    BY <1>5, <2>0
  <2>2. ASSUME NEW i \in 1..x PROVE Found(i, m)
    <3>1. CASE i <= y
      <4>1. i \in 1..L(m - 1)
        BY <2>0, <3>1
      <4>2. Found(i, m - 1)
        BY <1>9, <4>1
      <4>3. \A n \in 1..(m - 1) : n \in 1..m
        OBVIOUS
      <4> QED
        BY <4>2, <4>3
    <3>2. CASE ~(i <= y)
      <4>1. i - y \in 1..z /\ i = y + (i - y) /\ m \in 1..m
        BY <2>1, <3>2
      <4> QED
        BY <2>0, <4>1
    <3> QED
      BY <3>1, <3>2
  <2>3. m \in 0..N
    OBVIOUS
  <2> HIDE DEF Found
  <2> QED
    BY <2>0, <2>2, <2>3
<1> HIDE DEF P, Found
<1>10. \A m \in 0..N : m \in P
  BY <1>8, <1>9, Upward
<1>11. \A i \in 1..L(N) : Found(i, N)
  <2>1. N \in 0..N
    OBVIOUS
  <2> QED
    BY <1>10, <2>1 DEF P
<1>12. L(N) = Len(FlattenSeq(ss))
  BY <1>2 DEF L
<1>13. ASSUME NEW n \in 1..N
       PROVE  /\ L(n) = L(n - 1) + K(n) /\ L(n) <= L(N)
              /\ L(n - 1) \in Nat /\ K(n) \in Nat
              /\ \A j \in 1..K(n) : FlattenSeq(ss)[L(n - 1) + j] = ss[n][j]
  BY <1>0, <1>2, <1>7
<1>14. ASSUME NEW i \in 1..Len(FlattenSeq(ss))
       PROVE  \E n \in 1..N : \E j \in 1..K(n) : i = L(n - 1) + j
  BY <1>11, <1>12 DEF Found
<1> QED
  BY <1>1, <1>12, <1>13, <1>14 DEF FlatAt, L, K

-----------------------------------------------------------------------------
(* The places of a request.                                               *)

Asked(r) == IsRequest(r) /\ ~Refused(r)
Turns(r) == 1..Len(r.messages)
BlocksAt(r, n) == ContentBlocks(ContentAt(r, n))
Ids == STRING \cup {""}
AnyBlock == [type : STRING \cup {"stripped"}, id : Ids, good : BOOLEAN]
Place(r) == {p \in ({0} \cup Turns(r)) \X Nat : p[2] \in 1..Len(BlocksAt(r, p[1]))}

\* What a request that is not refused consists of.
LEMMA RequestShape ==
  ASSUME NEW r, Asked(r)
  PROVE  /\ Len(r.messages) \in Nat /\ DOMAIN r.messages = Turns(r) /\ r.vision \in BOOLEAN
         /\ \A n \in Turns(r) : r.messages[n].role \in {"system", "user", "assistant"}
         /\ \A n \in {0} \cup Turns(r) :
                /\ BlocksAt(r, n) \in Seq(RequestBlocks)
                /\ \A k \in 1..Len(BlocksAt(r, n)) : BlocksAt(r, n)[k] = ContentAt(r, n).blocks[k]
<1>1. /\ IsContent(r.system) /\ r.vision \in BOOLEAN /\ r.messages \in Seq(Range(r.messages))
      /\ \A m \in Range(r.messages) : m.role \in STRING /\ IsContent(m.content)
  BY DEF Asked, IsRequest
<1>2. PICK N \in Nat : N = Len(r.messages) /\ DOMAIN r.messages = 1..N
  BY <1>1
<1>3. \A n \in 1..N : r.messages[n] \in Range(r.messages)
  BY <1>2 DEF Range
<1>4. \A n \in 1..N : r.messages[n].role \in {"system", "user", "assistant"}
  BY <1>2 DEF Asked, Refused
<1>5. ASSUME NEW c, IsContent(c)
      PROVE  /\ ContentBlocks(c) \in Seq(RequestBlocks)
             /\ \A k \in 1..Len(ContentBlocks(c)) : ContentBlocks(c)[k] = c.blocks[k]
  <2>1. c.blocks \in Seq(RequestBlocks)
    BY <1>5 DEF IsContent
  <2>2. CASE ContentBlocks(c) = c.blocks
    BY <2>1, <2>2
  <2>3. CASE ContentBlocks(c) = <<>>
    BY <2>3
  <2> QED
    BY <2>2, <2>3 DEF ContentBlocks
<1>6. \A n \in {0} \cup 1..N : IsContent(ContentAt(r, n))
  BY <1>1, <1>2, <1>3 DEF ContentAt
<1> QED
  BY <1>1, <1>2, <1>4, <1>5, <1>6 DEF BlocksAt, Turns

\* The places of one message, no place twice.
LEMMA PlacesOfOne ==
  ASSUME NEW r, Asked(r), NEW n \in {0} \cup Turns(r)
  PROVE  /\ PlacesIn(r, n) \in Seq(Place(r)) /\ NoTwice(PlacesIn(r, n))
         /\ Len(PlacesIn(r, n)) = Len(BlocksAt(r, n)) /\ Len(BlocksAt(r, n)) \in Nat
         /\ DOMAIN PlacesIn(r, n) = 1..Len(BlocksAt(r, n))
         /\ \A k \in 1..Len(BlocksAt(r, n)) : PlacesIn(r, n)[k] = <<n, k>> /\ <<n, k>> \in Place(r)
         /\ \A p \in Place(r) : p[1] = n => p = <<n, p[2]>> /\ p[2] \in 1..Len(BlocksAt(r, n))
<1>1. PICK L \in Nat : L = Len(BlocksAt(r, n)) /\ DOMAIN BlocksAt(r, n) = 1..L
  BY RequestShape
<1>2. \A k \in 1..L : <<n, k>> \in Place(r)
  BY <1>1 DEF Place
<1>3. PlacesIn(r, n) = [k \in 1..L |-> <<n, k>>]
  BY <1>1 DEF PlacesIn, BlocksAt
<1>4. [k \in 1..L |-> <<n, k>>] \in [1..L -> Place(r)]
  BY <1>2
<1>5. PlacesIn(r, n) \in Seq(Place(r)) /\ Len(PlacesIn(r, n)) = L
  <2>1. PlacesIn(r, n) \in [1..L -> Place(r)]
    BY <1>3, <1>4, Zenon
  <2> QED
    BY <2>1, FunctionIsSeq
<1>6. \A p \in Place(r) : p[1] = n => p = <<n, p[2]>> /\ p[2] \in 1..L
  BY <1>1 DEF Place
<1>7. \A k \in 1..L : PlacesIn(r, n)[k] = <<n, k>>
  BY <1>3
<1>8. DOMAIN PlacesIn(r, n) = 1..L
  BY <1>3
<1>9. NoTwice(PlacesIn(r, n))
  BY <1>7, <1>8 DEF NoTwice
<1> QED
  BY <1>1, <1>2, <1>5, <1>6, <1>7, <1>8, <1>9

TurnPlaces(r) == [n \in DOMAIN r.messages |-> PlacesIn(r, n)]

\* The places of the conversation, and with them all of the places.
LEMMA TurnPlacesTyped ==
  ASSUME NEW r, Asked(r)
  PROVE  /\ TurnPlaces(r) \in Seq(Seq(Place(r))) /\ Len(TurnPlaces(r)) = Len(r.messages)
         /\ DOMAIN TurnPlaces(r) = Turns(r)
         /\ \A n \in Turns(r) : TurnPlaces(r)[n] = PlacesIn(r, n)
         /\ Places(r) = PlacesIn(r, 0) \o FlattenSeq(TurnPlaces(r))
         /\ PlacesIn(r, 0) \in Seq(Place(r)) /\ FlattenSeq(TurnPlaces(r)) \in Seq(Place(r))
<1>1. PICK N \in Nat : N = Len(r.messages) /\ DOMAIN r.messages = 1..N /\ Turns(r) = 1..N
  BY RequestShape DEF Turns
<1>2. \A n \in 1..N : PlacesIn(r, n) \in Seq(Place(r))
  BY <1>1, PlacesOfOne
<1>3. TurnPlaces(r) = [n \in 1..N |-> PlacesIn(r, n)]
  BY <1>1 DEF TurnPlaces
<1>4. TurnPlaces(r) \in [1..N -> Seq(Place(r))]
  BY <1>2, <1>3
<1>5. TurnPlaces(r) \in Seq(Seq(Place(r))) /\ Len(TurnPlaces(r)) = N
  BY <1>4, FunctionIsSeq
<1>6. FlattenSeq(TurnPlaces(r)) \in Seq(Place(r))
  BY <1>5, FlattenAppend, EmptySeq
<1>7. PlacesIn(r, 0) \in Seq(Place(r))
  BY PlacesOfOne
<1>8. Places(r) = PlacesIn(r, 0) \o FlattenSeq(TurnPlaces(r))
  BY DEF Places, TurnPlaces
<1> QED
  BY <1>1, <1>3, <1>5, <1>6, <1>7, <1>8

\* Every place is among them.
LEMMA PlacesRange ==
  ASSUME NEW r, Asked(r)
  PROVE  Places(r) \in Seq(Place(r)) /\ Range(Places(r)) = Place(r)
<1> DEFINE lead == PlacesIn(r, 0)
           rest == FlattenSeq(TurnPlaces(r))
<1>1. lead \in Seq(Place(r)) /\ rest \in Seq(Place(r)) /\ Places(r) = lead \o rest
  BY TurnPlacesTyped
<1>2. Places(r) \in Seq(Place(r))
  BY <1>1, ConcatProperties
<1>3. \A i \in DOMAIN lead : lead[i] \in Range(Places(r))
  <2> HIDE DEF lead, rest
  <2> SUFFICES ASSUME NEW i \in DOMAIN lead PROVE lead[i] \in Range(Places(r))
    OBVIOUS
  <2>1. PICK x \in Nat, y \in Nat : x = Len(lead) /\ y = Len(rest)
    BY <1>1
  <2>2. i \in 1..x /\ i \in 1..(x + y)
    BY <1>1, <2>1
  <2>3. (lead \o rest)[i] = lead[i] /\ DOMAIN (lead \o rest) = 1..(x + y)
    BY <1>1, <2>1, <2>2
  <2> QED
    BY <1>1, <2>2, <2>3 DEF Range
<1>4. \A i \in DOMAIN rest : rest[i] \in Range(Places(r))
  <2> HIDE DEF lead, rest
  <2> SUFFICES ASSUME NEW i \in DOMAIN rest PROVE rest[i] \in Range(Places(r))
    OBVIOUS
  <2>1. PICK x \in Nat, y \in Nat : x = Len(lead) /\ y = Len(rest)
    BY <1>1
  <2>2. i \in 1..y /\ x + i \in 1..(x + y)
    BY <1>1, <2>1
  <2>3. (lead \o rest)[x + i] = rest[i] /\ DOMAIN (lead \o rest) = 1..(x + y)
    BY <1>1, <2>1, <2>2
  <2> QED
    BY <1>1, <2>2, <2>3 DEF Range
<1>5. ASSUME NEW p \in Place(r) PROVE p \in Range(Places(r))
  <2>1. CASE p[1] = 0
    <3>1. p = <<0, p[2]>> /\ p[2] \in DOMAIN lead /\ lead[p[2]] = <<0, p[2]>>
      BY <2>1, PlacesOfOne
    <3> QED
      BY <1>3, <3>1
  <2>2. CASE p[1] # 0
    <3>1. p[1] \in Turns(r)
      BY <2>2 DEF Place
    <3>2. PICK n \in Turns(r) : n = p[1]
      BY <3>1
    <3>3. /\ p = <<n, p[2]>> /\ p[2] \in 1..Len(PlacesIn(r, n)) /\ PlacesIn(r, n)[p[2]] = <<n, p[2]>>
      BY <3>2, PlacesOfOne
    <3>4. PICK k \in 1..Len(PlacesIn(r, n)) : PlacesIn(r, n)[k] = p
      BY <3>3
    <3>5. /\ TurnPlaces(r) \in Seq(Seq(Place(r))) /\ TurnPlaces(r)[n] = PlacesIn(r, n)
          /\ n \in 1..Len(TurnPlaces(r))
      BY TurnPlacesTyped DEF Turns
    <3>13. PICK ss \in Seq(Seq(Place(r))) : ss = TurnPlaces(r)
      BY <3>5
    <3>6. PICK g : FlatSteps(g, ss, Place(r))
      BY FlatRuns
    <3>14. FlatAt(g, ss)
      BY <3>6, FlatPlaces
    <3>12. /\ Len(g[n]) = Len(g[n - 1]) + Len(TurnPlaces(r)[n]) /\ Len(g[n]) <= Len(rest)
           /\ Len(g[n - 1]) \in Nat /\ Len(TurnPlaces(r)[n]) \in Nat
           /\ \A j \in 1..Len(TurnPlaces(r)[n]) : rest[Len(g[n - 1]) + j] = TurnPlaces(r)[n][j]
      BY <3>5, <3>13, <3>14 DEF FlatAt
    <3>7. PICK x : x = Len(g[n - 1])
      OBVIOUS
    <3>8. PICK y : y = Len(PlacesIn(r, n))
      OBVIOUS
    <3>9. /\ Len(g[n]) = x + y /\ Len(g[n]) <= Len(rest) /\ x \in Nat /\ y \in Nat
          /\ rest[x + k] = p
      BY <3>4, <3>5, <3>7, <3>8, <3>12
    <3>10. PICK z \in Nat : z = Len(rest) /\ DOMAIN rest = 1..z
      <4> HIDE DEF rest
      <4> QED
        BY <1>1
    <3>11. x + k \in 1..z
      BY <3>4, <3>8, <3>9, <3>10
    <3> QED
      BY <1>4, <3>9, <3>10, <3>11
  <2> QED
    BY <2>1, <2>2
<1>6. \A p \in Range(Places(r)) : p \in Place(r)
  BY <1>2 DEF Range
<1> QED
  BY <1>2, <1>5, <1>6

\* The places in S of message n are those of the blocks in Wanted.
ChosenBy(n, blocks, Wanted, S) ==
    \A k \in 1..Len(blocks) : blocks[k] \in Wanted <=> <<n, k>> \in S

\* The places a translation chooses are those whose blocks it wants.
LEMMA PlacesChosen ==
  ASSUME NEW r, Asked(r), NEW n \in {0} \cup Turns(r),
         NEW blocks \in Seq(AnyBlock), Len(blocks) = Len(BlocksAt(r, n)),
         NEW Wanted, NEW S, ChosenBy(n, blocks, Wanted, S)
  PROVE  PlacesOf(n, blocks, Wanted) = Only(PlacesIn(r, n), S)
<1>1. PICK L \in Nat : L = Len(blocks) /\ DOMAIN blocks = 1..L
  OBVIOUS
<1> DEFINE W == {cs \in {n} \X DOMAIN blocks : blocks[cs[2]] \in Wanted}
           ps == PlacesIn(r, n)
<1>2. /\ ps \in Seq(Place(r)) /\ DOMAIN ps = 1..L /\ \A k \in 1..L : ps[k] = <<n, k>>
  BY <1>1, PlacesOfOne
<1>3. ps = [k \in DOMAIN blocks |-> <<n, k>>]
  <2>1. ps = [k \in 1..L |-> ps[k]]
    <3> HIDE DEF ps
    <3> QED
      BY <1>2
  <2> HIDE DEF ps
  <2> QED
    BY <1>1, <1>2, <2>1
<1>4. \A k \in 1..L : <<n, k>> \in W <=> <<n, k>> \in S
  BY <1>1 DEF ChosenBy
<1> HIDE DEF W, ps
<1>5. Agree(ps, W, S)
  BY <1>2, <1>4 DEF Agree
<1>6. Only(ps, W) = Only(ps, S)
  BY <1>2, <1>5, OnlyAgrees
<1>7. PlacesOf(n, blocks, Wanted) = Only(ps, W)
  BY <1>3 DEF PlacesOf, W
<1> QED
  BY <1>6, <1>7 DEF ps

\* Strip changes the images only.
LEMMA Stripped ==
  ASSUME NEW r, Asked(r), NEW n \in Turns(r)
  PROVE  /\ Blocks(r, n) \in Seq(AnyBlock) /\ Len(Blocks(r, n)) = Len(BlocksAt(r, n))
         /\ DOMAIN Blocks(r, n) = 1..Len(BlocksAt(r, n))
         /\ \A k \in 1..Len(BlocksAt(r, n)) :
                /\ BlocksAt(r, n)[k] \in RequestBlocks /\ BlocksAt(r, n)[k] = BlockAt(r, <<n, k>>)
                /\ \/ Blocks(r, n)[k] = BlocksAt(r, n)[k] /\ (BlocksAt(r, n)[k].type = "image" => r.vision)
                   \/ Blocks(r, n)[k] = ContentBlock("stripped", "", TRUE) /\ BlocksAt(r, n)[k].type = "image"
<1>1. PICK bs \in Seq(RequestBlocks) : bs = BlocksAt(r, n)
  BY RequestShape
<1>2. PICK L \in Nat : L = Len(bs) /\ DOMAIN bs = 1..L
  OBVIOUS
<1>3. n # 0 /\ ContentAt(r, n) = r.messages[n].content
  BY RequestShape DEF Turns, ContentAt
<1>4. Blocks(r, n) = [k \in 1..L |-> IF bs[k].type = "image" /\ ~r.vision
                                     THEN ContentBlock("stripped", "", TRUE) ELSE bs[k]]
  BY <1>1, <1>2, <1>3 DEF Blocks, Strip, BlocksAt
<1>5. \A k \in 1..L : bs[k] \in RequestBlocks /\ bs[k] \in AnyBlock
  <2>1. \A b \in RequestBlocks : b \in AnyBlock
    BY DEF RequestBlocks, AnyBlock, Ids
  <2>2. \A k \in 1..L : bs[k] \in RequestBlocks
    BY <1>2
  <2> QED
    BY <2>1, <2>2
<1>6. ContentBlock("stripped", "", TRUE) \in AnyBlock
  BY DEF ContentBlock, AnyBlock, Ids
<1>7. Blocks(r, n) \in [1..L -> AnyBlock]
  BY <1>4, <1>5, <1>6
<1>8. Blocks(r, n) \in Seq(AnyBlock) /\ Len(Blocks(r, n)) = L
  BY <1>7, FunctionIsSeq
<1>9. ASSUME NEW k \in 1..L
      PROVE  /\ bs[k] = BlockAt(r, <<n, k>>)
             /\ \/ Blocks(r, n)[k] = bs[k] /\ (bs[k].type = "image" => r.vision)
                \/ Blocks(r, n)[k] = ContentBlock("stripped", "", TRUE) /\ bs[k].type = "image"
  <2>1. Blocks(r, n)[k] = IF bs[k].type = "image" /\ ~r.vision
                          THEN ContentBlock("stripped", "", TRUE) ELSE bs[k]
    BY <1>4
  <2>2. bs[k] = BlockAt(r, <<n, k>>)
    BY <1>1, <1>2, RequestShape DEF BlockAt
  <2> QED
    BY <2>1, <2>2
<1> QED
  BY <1>1, <1>2, <1>5, <1>7, <1>8, <1>9

-----------------------------------------------------------------------------
(* The messages that are sent, and what a property gathers from them.     *)

PartSet(r) == [kind : {"text", "image", "placeholder"}, at : Place(r)]
Sendable(r) == [role : {"system", "user", "assistant", "tool"}, parts : Seq(PartSet(r)),
                calls : Seq(Ids), answers : Ids]
Spoken(r) == {m \in Sendable(r) : \A k \in DOMAIN m.parts : m.parts[k].kind = "image" => r.vision}
Turned(r) == {m \in Spoken(r) : m.role # "system"}

SaidOf(r) == [m \in Spoken(r) |-> IF m.role # "system" THEN PlacesSent(m) ELSE <<>>]
InstructionsOf(r) == [m \in Spoken(r) |-> IF m.role = "system" THEN PlacesSent(m) ELSE <<>>]
CallsOf(r) == [m \in Spoken(r) |-> m.calls]
AnswersOf(r) == [m \in Spoken(r) |-> IF m.role = "tool" THEN <<m.answers>> ELSE <<>>]

IdAt(r) == [p \in Place(r) |-> BlockAt(r, p).id]

SaidPlaces(r) ==
    {cs \in Range(Places(r)) :
        \/ RoleAt(r, cs) = "user" /\ TypeAt(r, cs) # "tool_result"
        \/ RoleAt(r, cs) = "assistant" /\ TypeAt(r, cs) \notin {"tool_use"} \cup Thinking}
IdPlaces(r, role, type) == {p \in Range(Places(r)) : RoleAt(r, p) = role /\ TypeAt(r, p) = type}

\* Parts made of places, one of each.
PartsFor(r, parts, cs) ==
    /\ DOMAIN parts = DOMAIN cs /\ parts = [k \in DOMAIN cs |-> parts[k]]
    /\ \A k \in DOMAIN cs : /\ parts[k] \in PartSet(r) /\ parts[k].at = cs[k]
                            /\ parts[k].kind = "image" => r.vision

PartsMade(r, parts, cs) ==
    /\ parts \in Seq(PartSet(r)) /\ Len(parts) = Len(cs)
    /\ [k \in DOMAIN parts |-> parts[k].at] = cs
    /\ \A k \in DOMAIN parts : parts[k].kind = "image" => r.vision

\* They are a sequence, of their places.
LEMMA PartsAt ==
  ASSUME NEW r, NEW cs \in Seq(Place(r)), NEW parts, PartsFor(r, parts, cs)
  PROVE  PartsMade(r, parts, cs)
<1>7. DOMAIN parts = DOMAIN cs
  BY DEF PartsFor
<1>8. parts = [k \in DOMAIN cs |-> parts[k]]
  BY Zenon DEF PartsFor
<1>9. \A k \in DOMAIN cs : parts[k] \in PartSet(r) /\ parts[k].at = cs[k]
  BY Zenon DEF PartsFor
<1>10. \A k \in DOMAIN parts : parts[k].kind = "image" => r.vision
  BY DEF PartsFor
<1>1. PICK n \in Nat : n = Len(cs) /\ DOMAIN cs = 1..n
  OBVIOUS
<1>2. parts \in [1..n -> PartSet(r)]
  BY <1>1, <1>8, <1>9
<1>3. parts \in Seq(PartSet(r)) /\ Len(parts) = n
  BY <1>2, FunctionIsSeq
<1>4. [k \in 1..n |-> parts[k].at] = [k \in 1..n |-> cs[k]]
  BY <1>1, <1>9
<1>5. cs = [k \in 1..n |-> cs[k]]
  BY <1>1
<1>6. [k \in DOMAIN parts |-> parts[k].at] = cs
  BY <1>1, <1>4, <1>5, <1>7
<1> QED
  BY <1>1, <1>3, <1>6, <1>10 DEF PartsMade

\* The places of a message's parts.
LEMMA SentTyped ==
  ASSUME NEW r, NEW m \in Spoken(r)
  PROVE  PlacesSent(m) \in Seq(Place(r))
<1>1. PICK n \in Nat : n = Len(m.parts) /\ DOMAIN m.parts = 1..n /\ \A k \in 1..n : m.parts[k] \in PartSet(r)
  BY DEF Spoken, Sendable
<1>2. \A k \in 1..n : m.parts[k].at \in Place(r)
  BY <1>1 DEF PartSet
<1>3. PlacesSent(m) \in [1..n -> Place(r)]
  BY <1>1, <1>2 DEF PlacesSent
<1> QED
  BY <1>3, FunctionIsSeq

\* The types of what is gathered from messages and places.
LEMMA GatherersTyped ==
  ASSUME NEW r, Asked(r)
  PROVE  /\ SaidOf(r) \in [Spoken(r) -> Seq(Place(r))]
         /\ InstructionsOf(r) \in [Spoken(r) -> Seq(Place(r))]
         /\ CallsOf(r) \in [Spoken(r) -> Seq(Ids)]
         /\ AnswersOf(r) \in [Spoken(r) -> Seq(Ids)]
         /\ IdAt(r) \in [Place(r) -> Ids]
<1>1. \A m \in Spoken(r) : PlacesSent(m) \in Seq(Place(r)) /\ <<>> \in Seq(Place(r))
  BY SentTyped
<1>2. \A m \in Spoken(r) : m.calls \in Seq(Ids) /\ m.answers \in Ids
  BY DEF Spoken, Sendable
<1>3. \A i \in Ids : <<i>> \in Seq(Ids) /\ <<>> \in Seq(Ids)
  OBVIOUS
<1>4. SaidOf(r) \in [Spoken(r) -> Seq(Place(r))]
  BY <1>1 DEF SaidOf
<1>5. InstructionsOf(r) \in [Spoken(r) -> Seq(Place(r))]
  BY <1>1 DEF InstructionsOf
<1>6. CallsOf(r) \in [Spoken(r) -> Seq(Ids)]
  BY <1>2 DEF CallsOf
<1>7. AnswersOf(r) \in [Spoken(r) -> Seq(Ids)]
  BY <1>2, <1>3 DEF AnswersOf
<1>8. ASSUME NEW p \in Place(r) PROVE BlockAt(r, p).id \in Ids
  <2>1. PICK n \in {0} \cup Turns(r) : n = p[1]
    BY DEF Place
  <2>2. PICK k : k = p[2]
    OBVIOUS
  <2>3. k \in 1..Len(BlocksAt(r, n))
    BY <2>1, <2>2 DEF Place
  <2>4. PICK bs \in Seq(RequestBlocks) : bs = BlocksAt(r, n)
    BY RequestShape
  <2>5. bs[k] \in RequestBlocks
    BY <2>3, <2>4
  <2>6. bs[k] = BlockAt(r, p)
    BY <2>1, <2>2, <2>3, <2>4, RequestShape DEF BlockAt
  <2> QED
    BY <2>5, <2>6 DEF RequestBlocks, Ids
<1>9. IdAt(r) \in [Place(r) -> Ids]
  BY <1>8 DEF IdAt
<1> QED
  BY <1>4, <1>5, <1>6, <1>7, <1>9

\* The role and the type at a place of a turn.
LEMMA TurnPlace ==
  ASSUME NEW r, Asked(r), NEW n \in Turns(r), NEW k \in 1..Len(BlocksAt(r, n))
  PROVE  /\ <<n, k>> \in Range(Places(r)) /\ RoleAt(r, <<n, k>>) = r.messages[n].role
         /\ TypeAt(r, <<n, k>>) = BlocksAt(r, n)[k].type
         /\ TypeAt(r, <<n, k>>) # "stripped"
<1>1. n \in {0} \cup Turns(r) /\ n # 0
  BY RequestShape DEF Turns
<1>2. <<n, k>> \in Range(Places(r))
  BY <1>1, PlacesOfOne, PlacesRange
<1>3. PICK b \in RequestBlocks : b = BlocksAt(r, n)[k] /\ b = BlockAt(r, <<n, k>>)
  BY Stripped
<1> QED
  BY <1>1, <1>2, <1>3 DEF RoleAt, TypeAt, RequestBlocks

\* The ids of the calls, or of the results, of one turn.
LEMMA IdsOfTurn ==
  ASSUME NEW r, Asked(r), NEW n \in Turns(r), NEW type \in {"tool_use", "tool_result"}
  PROVE  /\ IdsOf(n, Blocks(r, n), type)
                = Mapped(Only(PlacesIn(r, n), IdPlaces(r, r.messages[n].role, type)), IdAt(r))
         /\ IdsOf(n, Blocks(r, n), type) \in Seq(Ids)
<1> DEFINE blocks == Blocks(r, n)
           W == OfType(blocks, {type})
           S == IdPlaces(r, r.messages[n].role, type)
           cs == Only(PlacesIn(r, n), S)
           L == Len(BlocksAt(r, n))
<1>0. n \in {0} \cup Turns(r)
  OBVIOUS
<1>1. /\ blocks \in Seq(AnyBlock) /\ Len(blocks) = L /\ DOMAIN blocks = 1..L
      /\ \A k \in 1..L : /\ BlocksAt(r, n)[k] = BlockAt(r, <<n, k>>)
                         /\ \/ blocks[k] = BlocksAt(r, n)[k]
                            \/ blocks[k].type = "stripped" /\ BlocksAt(r, n)[k].type = "image"
  <2>1. /\ Blocks(r, n) \in Seq(AnyBlock) /\ Len(Blocks(r, n)) = Len(BlocksAt(r, n))
        /\ DOMAIN Blocks(r, n) = 1..Len(BlocksAt(r, n))
    BY Stripped
  <2>2. ASSUME NEW k \in 1..L
        PROVE  /\ BlocksAt(r, n)[k] = BlockAt(r, <<n, k>>)
               /\ \/ Blocks(r, n)[k] = BlocksAt(r, n)[k]
                  \/ Blocks(r, n)[k] = ContentBlock("stripped", "", TRUE) /\ BlocksAt(r, n)[k].type = "image"
    BY Stripped
  <2>3. ContentBlock("stripped", "", TRUE).type = "stripped"
    BY DEF ContentBlock
  <2> QED
    BY <2>1, <2>2, <2>3
<1>2. \A k \in 1..L : <<n, k>> \in S <=> BlocksAt(r, n)[k].type = type
  BY TurnPlace DEF IdPlaces
<1>3. \A k \in 1..L : blocks[k] \in W <=> blocks[k].type = type
  BY <1>1 DEF OfType, Range
<1>4. \A k \in 1..L : blocks[k] \in W <=> <<n, k>> \in S
  BY <1>1, <1>2, <1>3
<1> HIDE DEF W, S, blocks
<1>5. PlacesOf(n, blocks, W) = cs
  <2>1. \A k \in 1..Len(blocks) : blocks[k] \in W <=> <<n, k>> \in S
    BY <1>1, <1>4
  <2>2. ChosenBy(n, blocks, W, S)
    BY <2>1 DEF ChosenBy
  <2> QED
    BY <1>0, <1>1, <2>2, PlacesChosen
<1>6. PlacesIn(r, n) \in Seq(Place(r))
  BY <1>0, PlacesOfOne
<1>7. cs \in Seq(Place(r)) /\ \A x \in Range(cs) : x \in Range(PlacesIn(r, n)) /\ x \in S
  BY <1>6, OnlyChooses
<1>8. ASSUME NEW k \in DOMAIN cs PROVE blocks[cs[k][2]].id = IdAt(r)[cs[k]]
  <2>1. cs[k] \in Place(r) /\ cs[k] \in Range(PlacesIn(r, n)) /\ cs[k] \in S
    <3> HIDE DEF cs
    <3> QED
      BY <1>7 DEF Range
  <2>6. DOMAIN PlacesIn(r, n) = 1..L /\ \A j \in 1..L : PlacesIn(r, n)[j] = <<n, j>>
    BY <1>0, PlacesOfOne
  <2>2. PICK j \in 1..L : cs[k] = <<n, j>>
    <3> HIDE DEF cs
    <3> QED
      BY <2>1, <2>6 DEF Range
  <2>3. BlocksAt(r, n)[j].type = type
    BY <1>2, <2>1, <2>2
  <2>4. blocks[j] = BlockAt(r, <<n, j>>)
    BY <1>1, <2>3
  <2>5. cs[k][2] = j
    BY <2>2
  <2> HIDE DEF cs
  <2> QED
    BY <2>1, <2>2, <2>4, <2>5 DEF IdAt
<1>9. IdsOf(n, blocks, type) = [k \in DOMAIN cs |-> blocks[cs[k][2]].id]
  BY <1>5 DEF IdsOf, W
<1> HIDE DEF cs
<1>10. IdsOf(n, blocks, type) = Mapped(cs, IdAt(r))
  BY <1>8, <1>9 DEF Mapped
<1>11. Mapped(cs, IdAt(r)) \in Seq(Ids)
  BY <1>7, GatherersTyped, MapTyped
<1> QED
  BY <1>10, <1>11 DEF cs, S, blocks

\* The places of what was said in one turn: its blocks but those of the types.
LEMMA SaidInTurn ==
  ASSUME NEW r, Asked(r), NEW n \in Turns(r), NEW types,
         \/ r.messages[n].role = "user" /\ types = {"tool_result"}
         \/ r.messages[n].role = "assistant" /\ types = {"tool_use"} \cup Thinking
  PROVE  /\ PlacesOf(n, Blocks(r, n), Range(Blocks(r, n)) \ OfType(Blocks(r, n), types))
                = Only(PlacesIn(r, n), SaidPlaces(r))
         /\ Only(PlacesIn(r, n), SaidPlaces(r)) \in Seq(Place(r))
         /\ \A p \in Range(Only(PlacesIn(r, n), SaidPlaces(r))) :
                \E j \in 1..Len(BlocksAt(r, n)) : p = <<n, j>>
<1>1. PICK L \in Nat : L = Len(BlocksAt(r, n))
  BY PlacesOfOne
<1>2. PICK blocks \in Seq(AnyBlock) : blocks = Blocks(r, n)
  BY Stripped
<1>3. /\ Len(blocks) = L /\ DOMAIN blocks = 1..L
      /\ \A k \in 1..L : \/ blocks[k] = BlocksAt(r, n)[k]
                         \/ blocks[k].type = "stripped" /\ BlocksAt(r, n)[k].type = "image"
  <2>1. ASSUME NEW k \in 1..L
        PROVE  \/ blocks[k] = BlocksAt(r, n)[k]
               \/ blocks[k] = ContentBlock("stripped", "", TRUE) /\ BlocksAt(r, n)[k].type = "image"
    BY <1>1, <1>2, Stripped
  <2>2. ContentBlock("stripped", "", TRUE).type = "stripped"
    BY DEF ContentBlock
  <2>3. Len(blocks) = L /\ DOMAIN blocks = 1..L
    BY <1>1, <1>2, Stripped
  <2>4. ASSUME NEW k \in 1..L
        PROVE  \/ blocks[k] = BlocksAt(r, n)[k]
               \/ blocks[k].type = "stripped" /\ BlocksAt(r, n)[k].type = "image"
    <3>1. CASE blocks[k] = ContentBlock("stripped", "", TRUE)
      <4>1. blocks[k].type = "stripped"
        BY <2>2, <3>1, Zenon
      <4> QED
        BY <2>1, <4>1, Zenon
    <3>2. CASE blocks[k] # ContentBlock("stripped", "", TRUE)
      BY <2>1, <3>2, Zenon
    <3> QED
      BY <3>1, <3>2
  <2> QED
    BY <2>3, <2>4, Zenon
<1> DEFINE W == Range(blocks) \ OfType(blocks, types)
           S == SaidPlaces(r)
           ps == PlacesIn(r, n)
<1>4. \A k \in 1..L : <<n, k>> \in S <=> BlocksAt(r, n)[k].type \notin types
  <2>1. ASSUME NEW k \in 1..L
        PROVE  /\ <<n, k>> \in Range(Places(r)) /\ RoleAt(r, <<n, k>>) = r.messages[n].role
               /\ TypeAt(r, <<n, k>>) = BlocksAt(r, n)[k].type
    BY <1>1, TurnPlace
  <2> QED
    BY <2>1 DEF SaidPlaces
<1>5. \A k \in 1..L : blocks[k] \in W <=> blocks[k].type \notin types
  BY <1>3 DEF OfType, Range
<1>6. "stripped" \notin types /\ "image" \notin types
  BY DEF Thinking
<1>7. \A k \in 1..Len(blocks) : blocks[k] \in W <=> <<n, k>> \in S
  BY <1>3, <1>4, <1>5, <1>6
<1> HIDE DEF W, S
<1>8. PlacesOf(n, blocks, W) = Only(ps, S)
  <2>1. n \in {0} \cup Turns(r) /\ Len(blocks) = Len(BlocksAt(r, n))
    BY <1>1, <1>3
  <2>2. blocks \in Seq(AnyBlock)
    BY <1>3
  <2>3. ChosenBy(n, blocks, W, S)
    BY <1>7 DEF ChosenBy
  <2>4. PlacesOf(n, blocks, W) = Only(PlacesIn(r, n), S)
    BY <2>1, <2>2, <2>3, PlacesChosen
  <2> QED
    BY <2>4 DEF ps
<1>9. ps \in Seq(Place(r)) /\ DOMAIN ps = 1..L /\ \A j \in 1..L : ps[j] = <<n, j>>
  BY <1>1, PlacesOfOne
<1> HIDE DEF ps
<1>10. Only(ps, S) \in Seq(Place(r)) /\ \A p \in Range(Only(ps, S)) : p \in Range(ps)
  BY <1>9, OnlyChooses
<1>11. \A p \in Range(ps) : \E j \in 1..L : p = <<n, j>>
  BY <1>9 DEF Range
<1> QED
  BY <1>1, <1>2, <1>8, <1>10, <1>11 DEF W, S, ps

\* No call and no result in a turn of another's.
LEMMA IdsOfOthers ==
  ASSUME NEW r, Asked(r), NEW n \in Turns(r), NEW role, role # r.messages[n].role, NEW type
  PROVE  Mapped(Only(PlacesIn(r, n), IdPlaces(r, role, type)), IdAt(r)) = <<>>
<1>1. PICK L \in Nat : L = Len(BlocksAt(r, n))
  BY PlacesOfOne
<1>2. PICK ps \in Seq(Place(r)) : ps = PlacesIn(r, n)
  BY PlacesOfOne
<1>3. DOMAIN ps = 1..L /\ \A j \in 1..L : ps[j] = <<n, j>>
  BY <1>1, <1>2, PlacesOfOne
<1>4. ASSUME NEW k \in 1..L
      PROVE  RoleAt(r, <<n, k>>) = r.messages[n].role
  BY <1>1, TurnPlace
<1>5. \A j \in DOMAIN ps : ps[j] \notin IdPlaces(r, role, type)
  BY <1>3, <1>4 DEF IdPlaces
<1>6. Only(ps, IdPlaces(r, role, type)) = <<>>
  BY <1>5, OnlyNothing
<1>7. Mapped(<<>>, IdAt(r)) = <<>>
  BY DEF Mapped
<1> QED
  BY <1>2, <1>6, <1>7

\* What is asked of the messages of one turn.
TurnKept(r, n, turn) ==
    /\ turn \in Seq(Turned(r))
    /\ Gathered(turn, SaidOf(r)) = Only(PlacesIn(r, n), SaidPlaces(r))
    /\ Gathered(turn, CallsOf(r))
           = Mapped(Only(PlacesIn(r, n), IdPlaces(r, "assistant", "tool_use")), IdAt(r))
    /\ Gathered(turn, AnswersOf(r))
           = Mapped(Only(PlacesIn(r, n), IdPlaces(r, "user", "tool_result")), IdAt(r))

\* The messages of results: nothing but an answer.
LEMMA ToolsGathered ==
  ASSUME NEW r, Asked(r), NEW ids \in Seq(Ids), NEW tools,
         tools = [k \in DOMAIN ids |-> Message("tool", <<>>, <<>>, ids[k])]
  PROVE  /\ tools \in Seq(Turned(r)) /\ Len(tools) = Len(ids)
         /\ Gathered(tools, SaidOf(r)) = <<>> /\ Gathered(tools, CallsOf(r)) = <<>>
         /\ Gathered(tools, AnswersOf(r)) = ids
<1>1. PICK n \in Nat : n = Len(ids) /\ DOMAIN ids = 1..n
  OBVIOUS
<1>2. ASSUME NEW i \in Ids
      PROVE  /\ Message("tool", <<>>, <<>>, i) \in Turned(r)
             /\ Message("tool", <<>>, <<>>, i) \in Spoken(r)
             /\ Message("tool", <<>>, <<>>, i).role = "tool"
             /\ Message("tool", <<>>, <<>>, i).answers = i
             /\ Message("tool", <<>>, <<>>, i).calls = <<>>
             /\ Message("tool", <<>>, <<>>, i).parts = <<>>
  <2>1. <<>> \in Seq(PartSet(r)) /\ <<>> \in Seq(Ids) /\ DOMAIN <<>> = {}
    OBVIOUS
  <2>2. Message("tool", <<>>, <<>>, i) \in Sendable(r)
    BY <2>1 DEF Message, Sendable
  <2> QED
    BY <2>1, <2>2 DEF Message, Spoken, Turned
<1>3. \A k \in 1..n : ids[k] \in Ids
  BY <1>1
<1>4. tools \in [1..n -> Turned(r)] /\ tools \in [1..n -> Spoken(r)]
  BY <1>1, <1>2, <1>3
<1>5. tools \in Seq(Turned(r)) /\ tools \in Seq(Spoken(r)) /\ Len(tools) = n
  BY <1>4, FunctionIsSeq
<1>6. \A k \in 1..n : /\ tools[k] \in Spoken(r) /\ tools[k].role = "tool" /\ tools[k].answers = ids[k]
                      /\ tools[k].calls = <<>> /\ tools[k].parts = <<>>
  BY <1>1, <1>2, <1>3
<1>7. DOMAIN tools = 1..n
  BY <1>4
<1>8. Gathered(tools, SaidOf(r)) = <<>>
  <2>1. \A k \in DOMAIN tools : SaidOf(r)[tools[k]] = <<>>
    BY <1>6, <1>7 DEF SaidOf, PlacesSent
  <2>2. SaidOf(r) \in [Spoken(r) -> Seq(Place(r))]
    BY GatherersTyped
  <2> QED
    BY <1>5, <2>1, <2>2, GatherFew
<1>9. Gathered(tools, CallsOf(r)) = <<>>
  <2>1. \A k \in DOMAIN tools : CallsOf(r)[tools[k]] = <<>>
    BY <1>6, <1>7 DEF CallsOf
  <2>2. CallsOf(r) \in [Spoken(r) -> Seq(Ids)]
    BY GatherersTyped
  <2> QED
    BY <1>5, <2>1, <2>2, GatherFew
<1>10. Gathered(tools, AnswersOf(r)) = ids
  <2> DEFINE f == [m \in Spoken(r) |-> m.answers]
  <2>1. f \in [Spoken(r) -> Ids]
    BY DEF Spoken, Sendable
  <2>2. \A k \in DOMAIN tools : f[tools[k]] = ids[k]
    BY <1>6, <1>7
  <2> HIDE DEF f
  <2>3. \A k \in DOMAIN tools : AnswersOf(r)[tools[k]] = <<f[tools[k]]>>
    BY <1>6, <1>7, <2>2 DEF AnswersOf
  <2>4. AnswersOf(r) \in [Spoken(r) -> Seq(Ids)]
    BY GatherersTyped
  <2>5. Gathered(tools, AnswersOf(r)) = Mapped(tools, f)
    <3>1. OneEach(tools, AnswersOf(r), f, Spoken(r), Ids)
      BY <2>1, <2>3, <2>4 DEF OneEach
    <3> QED
      BY <1>5, <3>1, GatherEach
  <2>6. [k \in DOMAIN tools |-> f[tools[k]]] = [k \in 1..n |-> ids[k]]
    BY <1>7, <2>2
  <2>7. ids = [k \in 1..n |-> ids[k]]
    BY <1>1
  <2> QED
    BY <2>5, <2>6, <2>7, Zenon DEF Mapped
<1> QED
  BY <1>1, <1>5, <1>8, <1>9, <1>10

\* One message alone.
LEMMA OneGathered ==
  ASSUME NEW r, Asked(r), NEW m \in Turned(r)
  PROVE  /\ <<m>> \in Seq(Turned(r))
         /\ Gathered(<<m>>, SaidOf(r)) = PlacesSent(m)
         /\ Gathered(<<m>>, CallsOf(r)) = m.calls
         /\ m.role # "tool" => Gathered(<<m>>, AnswersOf(r)) = <<>>
<1>1. m \in Spoken(r) /\ m.role # "system"
  BY DEF Turned
<1>2. <<m>> \in Seq(Turned(r))
  OBVIOUS
<1>3. Gathered(<<m>>, SaidOf(r)) = PlacesSent(m)
  <2>0. SaidOf(r) \in [Spoken(r) -> Seq(Place(r))]
    BY GatherersTyped
  <2>1. Gathered(<<m>>, SaidOf(r)) = SaidOf(r)[m]
    BY <1>1, <2>0, GatherFew, Zenon
  <2> QED
    BY <1>1, <2>1 DEF SaidOf
<1>4. Gathered(<<m>>, CallsOf(r)) = m.calls
  <2>0. CallsOf(r) \in [Spoken(r) -> Seq(Ids)]
    BY GatherersTyped
  <2>1. Gathered(<<m>>, CallsOf(r)) = CallsOf(r)[m]
    BY <1>1, <2>0, GatherFew, Zenon
  <2> QED
    BY <1>1, <2>1 DEF CallsOf
<1>5. m.role # "tool" => Gathered(<<m>>, AnswersOf(r)) = <<>>
  <2>0. AnswersOf(r) \in [Spoken(r) -> Seq(Ids)]
    BY GatherersTyped
  <2>1. Gathered(<<m>>, AnswersOf(r)) = AnswersOf(r)[m]
    BY <1>1, <2>0, GatherFew, Zenon
  <2> QED
    BY <1>1, <2>1 DEF AnswersOf
<1> QED
  BY <1>2, <1>3, <1>4, <1>5

\* A message made of what was said in a turn.
SaidBy(r, m, role, parts, calls, cs) ==
    /\ m \in Turned(r) /\ PlacesSent(m) = cs /\ m.calls = calls /\ m.role = role
    /\ Len(parts) = Len(cs)

\* A message made of parts says their places.
LEMMA SaidMessage ==
  ASSUME NEW r, Asked(r), NEW role \in {"user", "assistant"}, NEW calls \in Seq(Ids),
         NEW cs \in Seq(Place(r)), NEW parts, PartsFor(r, parts, cs)
  PROVE  SaidBy(r, Message(role, parts, calls, ""), role, parts, calls, cs)
<1>1. /\ parts \in Seq(PartSet(r)) /\ Len(parts) = Len(cs)
      /\ [k \in DOMAIN parts |-> parts[k].at] = cs
      /\ \A k \in DOMAIN parts : parts[k].kind = "image" => r.vision
  <2>1. PartsMade(r, parts, cs)
    BY PartsAt
  <2> QED
    BY <2>1 DEF PartsMade
<1> DEFINE m == Message(role, parts, calls, "")
<1>2. m.role = role /\ m.parts = parts /\ m.calls = calls /\ m.answers = ""
  BY DEF Message
<1>3. m \in Sendable(r)
  BY <1>1 DEF Message, Sendable, Ids
<1> HIDE DEF m
<1>4. m \in Turned(r)
  <2>1. m \in Spoken(r)
    BY <1>1, <1>2, <1>3 DEF Spoken
  <2> QED
    BY <1>2, <2>1 DEF Turned
<1>5. PlacesSent(m) = cs
  BY <1>1, <1>2 DEF PlacesSent
<1> QED
  BY <1>1, <1>2, <1>4, <1>5 DEF m, SaidBy

\* Messages one after the other.
LEMMA TwoGathered ==
  ASSUME NEW r, Asked(r), NEW s \in Seq(Turned(r)), NEW t \in Seq(Turned(r))
  PROVE  /\ s \o t \in Seq(Turned(r))
         /\ Gathered(s \o t, SaidOf(r)) = Gathered(s, SaidOf(r)) \o Gathered(t, SaidOf(r))
         /\ Gathered(s \o t, CallsOf(r)) = Gathered(s, CallsOf(r)) \o Gathered(t, CallsOf(r))
         /\ Gathered(s \o t, AnswersOf(r)) = Gathered(s, AnswersOf(r)) \o Gathered(t, AnswersOf(r))
<1>1. s \o t \in Seq(Turned(r))
  BY ConcatProperties
<1>2. PICK T : T = Spoken(r)
  OBVIOUS
<1>3. s \in Seq(T) /\ t \in Seq(T)
  <2>1. \A m \in Turned(r) : m \in T
    BY <1>2 DEF Turned
  <2> QED
    BY <2>1
<1>4. ASSUME NEW U, NEW h \in [T -> Seq(U)]
      PROVE  Gathered(s \o t, h) = Gathered(s, h) \o Gathered(t, h)
  BY <1>3, GatherConcat, Zenon
<1>5. /\ SaidOf(r) \in [T -> Seq(Place(r))] /\ CallsOf(r) \in [T -> Seq(Ids)]
      /\ AnswersOf(r) \in [T -> Seq(Ids)]
  BY <1>2, GatherersTyped
<1> QED
  BY <1>1, <1>4, <1>5, Zenon

\* A user's turn: its results first, each a message, and then the rest.
LEMMA UserTurn ==
  ASSUME NEW r, Asked(r), NEW n \in Turns(r), r.messages[n].role = "user"
  PROVE  /\ TurnKept(r, n, TurnMessages(r, n))
         /\ \E rest \in Seq(Turned(r)) :
                /\ TurnMessages(r, n) = ToolMessages(n, Blocks(r, n)) \o rest
                /\ \A k \in DOMAIN rest : rest[k].calls = <<>>
<1> DEFINE blocks == Blocks(r, n)
           types == {"tool_result"}
           ids == IdsOf(n, blocks, "tool_result")
           tools == ToolMessages(n, blocks)
           cs == Only(PlacesIn(r, n), SaidPlaces(r))
           parts == [k \in DOMAIN cs |-> Part(Kind(blocks[cs[k][2]]), cs[k])]
           rest == RestOfUser(n, blocks)
<1>1. TurnMessages(r, n) = tools \o rest
  BY DEF TurnMessages, UserMessages
<1>2. ids = Mapped(Only(PlacesIn(r, n), IdPlaces(r, "user", "tool_result")), IdAt(r)) /\ ids \in Seq(Ids)
  BY IdsOfTurn
<1>3. /\ tools \in Seq(Turned(r)) /\ Gathered(tools, SaidOf(r)) = <<>>
      /\ Gathered(tools, CallsOf(r)) = <<>> /\ Gathered(tools, AnswersOf(r)) = ids
  <2>1. tools = [k \in DOMAIN ids |-> Message("tool", <<>>, <<>>, ids[k])]
    BY DEF ToolMessages
  <2> HIDE DEF ids, tools
  <2> QED
    BY <1>2, <2>1, ToolsGathered
<1>4. /\ PlacesOf(n, blocks, Range(blocks) \ OfType(blocks, types)) = cs
      /\ cs \in Seq(Place(r)) /\ \A p \in Range(cs) : \E j \in 1..Len(BlocksAt(r, n)) : p = <<n, j>>
  BY SaidInTurn
<1>5. ASSUME NEW k \in DOMAIN cs
      PROVE  /\ parts[k] \in PartSet(r) /\ parts[k].at = cs[k]
             /\ parts[k].kind = "image" => r.vision
  <2>1. PICK p \in Place(r) : p = cs[k]
    <3> HIDE DEF cs
    <3> QED
      BY <1>4
  <2>2. p \in Range(cs)
    <3> HIDE DEF cs
    <3> QED
      BY <2>1 DEF Range
  <2>3. PICK j \in 1..Len(BlocksAt(r, n)) : p = <<n, j>>
    BY <1>4, <2>2
  <2>4. PICK b : b = blocks[j]
    OBVIOUS
  <2>5. Kind(b) \in {"text", "image", "placeholder"} /\ (Kind(b) = "image" => b.type = "image")
    BY DEF Kind
  <2>6. b.type = "image" => r.vision
    <3>1. \/ b = BlocksAt(r, n)[j] /\ (BlocksAt(r, n)[j].type = "image" => r.vision)
          \/ b = ContentBlock("stripped", "", TRUE)
      BY <2>4, Stripped
    <3>2. ContentBlock("stripped", "", TRUE).type = "stripped"
      BY DEF ContentBlock
    <3>3. CASE b = ContentBlock("stripped", "", TRUE)
      <4>1. b.type = "stripped"
        BY <3>2, <3>3, Zenon
      <4> QED
        BY <4>1
    <3> QED
      BY <3>1, <3>3, Zenon
  <2>7. cs[k][2] = j
    BY <2>1, <2>3
  <2>8. parts[k] = Part(Kind(b), p)
    BY <2>1, <2>4, <2>7
  <2>9. Part(Kind(b), p) \in PartSet(r) /\ Part(Kind(b), p).at = p /\ Part(Kind(b), p).kind = Kind(b)
    BY <2>5 DEF Part, PartSet
  <2> HIDE DEF parts, cs
  <2> QED
    BY <2>1, <2>5, <2>6, <2>8, <2>9
<1>6. DOMAIN parts = DOMAIN cs /\ parts = [k \in DOMAIN cs |-> parts[k]]
  OBVIOUS
<1>7. rest = IF parts = <<>> THEN <<>> ELSE <<Message("user", parts, <<>>, "")>>
  BY <1>4 DEF RestOfUser
<1> HIDE DEF parts, cs, rest, ids, tools
<1> DEFINE m == Message("user", parts, <<>>, "")
<1>8. /\ m \in Turned(r) /\ PlacesSent(m) = cs /\ m.calls = <<>> /\ m.role = "user"
      /\ Len(parts) = Len(cs)
  <2>1. <<>> \in Seq(Ids)
    OBVIOUS
  <2>2. PartsFor(r, parts, cs)
    BY <1>5, <1>6 DEF PartsFor
  <2>3. "user" \in {"user", "assistant"}
    OBVIOUS
  <2>4. cs \in Seq(Place(r))
    BY <1>4
  <2>5. SaidBy(r, m, "user", parts, <<>>, cs)
    BY <2>1, <2>2, <2>3, <2>4, SaidMessage, Zenon DEF m
  <2> QED
    BY <2>5, Zenon DEF SaidBy
<1> HIDE DEF m
<1>9. /\ rest \in Seq(Turned(r)) /\ Gathered(rest, SaidOf(r)) = cs
      /\ Gathered(rest, CallsOf(r)) = <<>> /\ Gathered(rest, AnswersOf(r)) = <<>>
  <2>1. CASE parts = <<>>
    <3>1. rest = <<>> /\ <<>> \in Seq(Turned(r))
      BY <1>7, <2>1
    <3>2. cs = <<>>
      BY <1>4, <1>8, <2>1, EmptySeq
    <3>3. /\ Gathered(<<>>, SaidOf(r)) = <<>> /\ Gathered(<<>>, CallsOf(r)) = <<>>
          /\ Gathered(<<>>, AnswersOf(r)) = <<>>
      BY GatherersTyped, GatherFew
    <3> QED
      BY <3>1, <3>2, <3>3
  <2>2. CASE parts # <<>>
    <3>1. rest = <<m>>
      BY <1>7, <2>2 DEF m
    <3>2. /\ <<m>> \in Seq(Turned(r)) /\ Gathered(<<m>>, SaidOf(r)) = PlacesSent(m)
          /\ Gathered(<<m>>, CallsOf(r)) = m.calls
          /\ m.role # "tool" => Gathered(<<m>>, AnswersOf(r)) = <<>>
      BY <1>8, OneGathered
    <3> QED
      BY <1>8, <3>1, <3>2
  <2> QED
    BY <2>1, <2>2
<1>10. /\ tools \o rest \in Seq(Turned(r))
       /\ Gathered(tools \o rest, SaidOf(r)) = <<>> \o cs
       /\ Gathered(tools \o rest, CallsOf(r)) = <<>> \o <<>>
       /\ Gathered(tools \o rest, AnswersOf(r)) = ids \o <<>>
  <2>1. /\ tools \o rest \in Seq(Turned(r))
        /\ Gathered(tools \o rest, SaidOf(r)) = Gathered(tools, SaidOf(r)) \o Gathered(rest, SaidOf(r))
        /\ Gathered(tools \o rest, CallsOf(r)) = Gathered(tools, CallsOf(r)) \o Gathered(rest, CallsOf(r))
        /\ Gathered(tools \o rest, AnswersOf(r))
               = Gathered(tools, AnswersOf(r)) \o Gathered(rest, AnswersOf(r))
    BY <1>3, <1>9, TwoGathered
  <2> QED
    BY <1>3, <1>9, <2>1
<1>11. <<>> \o cs = cs /\ ids \o <<>> = ids /\ <<>> \o <<>> = <<>>
  BY <1>2, <1>4, ConcatEmptySeq
<1>12. Mapped(Only(PlacesIn(r, n), IdPlaces(r, "assistant", "tool_use")), IdAt(r)) = <<>>
  BY IdsOfOthers
<1>13. TurnKept(r, n, TurnMessages(r, n))
  BY <1>1, <1>2, <1>10, <1>11, <1>12 DEF TurnKept, cs
<1>14. \A k \in DOMAIN rest : rest[k].calls = <<>>
  <2>1. CASE parts = <<>>
    <3>1. rest = <<>> /\ DOMAIN <<>> = {}
      BY <1>7, <2>1
    <3> QED
      BY <3>1
  <2>2. CASE parts # <<>>
    <3>1. rest = <<m>>
      BY <1>7, <2>2 DEF m
    <3>2. <<m>> \in Seq(Turned(r)) /\ Len(<<m>>) = 1 /\ <<m>>[1] = m
      BY <1>8
    <3>3. DOMAIN <<m>> = {1}
      BY <3>2, OneLong
    <3> QED
      BY <1>8, <3>1, <3>2, <3>3
  <2> QED
    BY <2>1, <2>2
<1> QED
  BY <1>1, <1>9, <1>13, <1>14 DEF tools

\* An assistant's turn is one message, with its calls.
LEMMA AssistantTurn ==
  ASSUME NEW r, Asked(r), NEW n \in Turns(r), r.messages[n].role = "assistant"
  PROVE  /\ TurnKept(r, n, TurnMessages(r, n))
         /\ \E m \in Turned(r) : /\ TurnMessages(r, n) = <<m>>
                                 /\ m.calls = IdsOf(n, Blocks(r, n), "tool_use")
<1> DEFINE blocks == Blocks(r, n)
           types == {"tool_use"} \cup Thinking
           ids == IdsOf(n, blocks, "tool_use")
           cs == Only(PlacesIn(r, n), SaidPlaces(r))
           parts == [k \in DOMAIN cs |-> Part(TextKind(blocks[cs[k][2]]), cs[k])]
           m == Message("assistant", parts, ids, "")
<1>1. /\ PlacesOf(n, blocks, Range(blocks) \ OfType(blocks, types)) = cs
      /\ cs \in Seq(Place(r))
  BY SaidInTurn
<1>2. ids = Mapped(Only(PlacesIn(r, n), IdPlaces(r, "assistant", "tool_use")), IdAt(r)) /\ ids \in Seq(Ids)
  BY IdsOfTurn
<1>3. TurnMessages(r, n) = <<m>>
  BY <1>1 DEF TurnMessages, AssistantMessages, PartsOf
<1>4. ASSUME NEW k \in DOMAIN cs
      PROVE  parts[k] \in PartSet(r) /\ parts[k].at = cs[k] /\ parts[k].kind # "image"
  <2>1. PICK p \in Place(r) : p = cs[k]
    <3> HIDE DEF cs
    <3> QED
      BY <1>1
  <2>2. PICK t \in {"text", "placeholder"} : t = TextKind(blocks[cs[k][2]])
    BY DEF TextKind
  <2>3. parts[k] = Part(t, p)
    BY <2>1, <2>2
  <2>4. Part(t, p) \in PartSet(r) /\ Part(t, p).at = p /\ Part(t, p).kind = t
    BY DEF Part, PartSet
  <2> HIDE DEF parts, cs
  <2> QED
    BY <2>1, <2>2, <2>3, <2>4
<1>5. DOMAIN parts = DOMAIN cs /\ parts = [k \in DOMAIN cs |-> parts[k]]
  OBVIOUS
<1> HIDE DEF parts, cs, ids
<1>6. m \in Turned(r) /\ PlacesSent(m) = cs /\ m.calls = ids /\ m.role = "assistant"
  <2>1. PartsFor(r, parts, cs)
    BY <1>4, <1>5 DEF PartsFor
  <2>2. "assistant" \in {"user", "assistant"}
    OBVIOUS
  <2>3. cs \in Seq(Place(r)) /\ ids \in Seq(Ids)
    BY <1>1, <1>2
  <2>4. SaidBy(r, m, "assistant", parts, ids, cs)
    BY <2>1, <2>2, <2>3, SaidMessage, Zenon DEF m
  <2> QED
    BY <2>4, Zenon DEF SaidBy
<1> HIDE DEF m
<1>7. /\ <<m>> \in Seq(Turned(r)) /\ Gathered(<<m>>, SaidOf(r)) = PlacesSent(m)
      /\ Gathered(<<m>>, CallsOf(r)) = m.calls
      /\ m.role # "tool" => Gathered(<<m>>, AnswersOf(r)) = <<>>
  BY <1>6, OneGathered
<1>8. Mapped(Only(PlacesIn(r, n), IdPlaces(r, "user", "tool_result")), IdAt(r)) = <<>>
  BY IdsOfOthers
<1>9. TurnKept(r, n, <<m>>)
  BY <1>2, <1>6, <1>7, <1>8 DEF TurnKept, cs
<1> QED
  BY <1>3, <1>6, <1>9 DEF ids

\* A system message of the conversation sends nothing in its turn.
LEMMA SystemTurn ==
  ASSUME NEW r, Asked(r), NEW n \in Turns(r), r.messages[n].role = "system"
  PROVE  TurnMessages(r, n) = <<>> /\ TurnKept(r, n, TurnMessages(r, n))
<1>1. TurnMessages(r, n) = <<>>
  BY DEF TurnMessages
<1>2. /\ Mapped(Only(PlacesIn(r, n), IdPlaces(r, "user", "tool_result")), IdAt(r)) = <<>>
      /\ Mapped(Only(PlacesIn(r, n), IdPlaces(r, "assistant", "tool_use")), IdAt(r)) = <<>>
  BY IdsOfOthers
<1>3. PICK ps \in Seq(Place(r)) : ps = PlacesIn(r, n)
  BY PlacesOfOne
<1>4. ASSUME NEW k \in DOMAIN ps PROVE RoleAt(r, ps[k]) = "system"
  <2>1. k \in 1..Len(BlocksAt(r, n)) /\ ps[k] = <<n, k>>
    BY <1>3, PlacesOfOne
  <2> QED
    BY <2>1, TurnPlace
<1>5. Only(ps, SaidPlaces(r)) = <<>>
  <2>1. \A k \in DOMAIN ps : ps[k] \notin SaidPlaces(r)
    BY <1>4 DEF SaidPlaces
  <2> QED
    BY <2>1, OnlyNothing
<1>6. /\ Gathered(<<>>, SaidOf(r)) = <<>> /\ Gathered(<<>>, CallsOf(r)) = <<>>
      /\ Gathered(<<>>, AnswersOf(r)) = <<>>
  BY GatherersTyped, GatherFew
<1>7. <<>> \in Seq(Turned(r))
  OBVIOUS
<1> QED
  BY <1>1, <1>2, <1>3, <1>5, <1>6, <1>7 DEF TurnKept

-----------------------------------------------------------------------------
(* The system message.                                                    *)

TextSet(r) == {q \in PartSet(r) : q.kind # "image"}
AtOf(r) == [q \in TextSet(r) |-> q.at]

Instructions(r) ==
    {cs \in Range(Places(r)) :
        RoleAt(r, cs) = "system" /\ TypeAt(r, cs) = "text" /\ BlockAt(r, cs).good}

\* Parts that are text, at the places they were made of.
LEMMA TextParts ==
  ASSUME NEW r, NEW n, NEW blocks, NEW Wanted,
         NEW cs \in Seq(Place(r)), PlacesOf(n, blocks, Wanted) = cs
  PROVE  /\ PartsOf(n, blocks, Wanted) \in Seq(TextSet(r))
         /\ Len(PartsOf(n, blocks, Wanted)) = Len(cs)
         /\ Mapped(PartsOf(n, blocks, Wanted), AtOf(r)) = cs
<1> DEFINE parts == PartsOf(n, blocks, Wanted)
<1>1. PICK N \in Nat : N = Len(cs) /\ DOMAIN cs = 1..N
  OBVIOUS
<1>2. parts = [k \in 1..N |-> Part(TextKind(blocks[cs[k][2]]), cs[k])]
  BY <1>1 DEF PartsOf
<1>3. ASSUME NEW k \in 1..N
      PROVE  parts[k] \in TextSet(r) /\ parts[k].at = cs[k]
  <2>1. PICK p \in Place(r) : p = cs[k]
    BY <1>1
  <2>2. PICK t \in {"text", "placeholder"} : t = TextKind(blocks[cs[k][2]])
    BY DEF TextKind
  <2>3. parts[k] = Part(t, p)
    BY <1>2, <2>1, <2>2
  <2>4. Part(t, p) \in TextSet(r) /\ Part(t, p).at = p
    BY DEF Part, PartSet, TextSet
  <2> HIDE DEF parts
  <2> QED
    BY <2>1, <2>3, <2>4
<1>4. DOMAIN parts = 1..N /\ parts = [k \in 1..N |-> parts[k]]
  BY <1>2
<1> HIDE DEF parts
<1>5. parts \in [1..N -> TextSet(r)]
  BY <1>3, <1>4
<1>6. parts \in Seq(TextSet(r)) /\ Len(parts) = N
  BY <1>5, FunctionIsSeq
<1>7. [k \in DOMAIN parts |-> AtOf(r)[parts[k]]] = [k \in 1..N |-> cs[k]]
  BY <1>3, <1>4 DEF AtOf
<1>8. cs = [k \in 1..N |-> cs[k]]
  BY <1>1
<1>9. Mapped(parts, AtOf(r)) = cs
  BY <1>7, <1>8, Zenon DEF Mapped
<1> QED
  BY <1>1, <1>6, <1>9 DEF parts

\* What a place of the instructions says of its block.
LEMMA InstructionBlock ==
  ASSUME NEW r, Asked(r), NEW n \in {0} \cup Turns(r), NEW k \in 1..Len(BlocksAt(r, n)),
         <<n, k>> \in Instructions(r)
  PROVE  /\ BlocksAt(r, n)[k].type = "text" /\ BlocksAt(r, n)[k].good
         /\ n # 0 => r.messages[n].role = "system"
<1>1. BlocksAt(r, n)[k] = BlockAt(r, <<n, k>>)
  BY RequestShape DEF BlockAt
<1> QED
  BY <1>1 DEF Instructions, TypeAt, RoleAt

\* A filter on the places of a message, before the one for the instructions.
LEMMA InstructionsOfPlaces ==
  ASSUME NEW r, Asked(r), NEW n \in {0} \cup Turns(r), NEW blocks, NEW Wanted,
         blocks \in Seq(AnyBlock), Len(blocks) = Len(BlocksAt(r, n)),
         \A k \in 1..Len(blocks) : <<n, k>> \in Instructions(r) => blocks[k] \in Wanted
  PROVE  /\ PlacesOf(n, blocks, Wanted) \in Seq(Place(r))
         /\ Range(PlacesOf(n, blocks, Wanted)) \subseteq Range(PlacesIn(r, n))
         /\ Only(PlacesOf(n, blocks, Wanted), Instructions(r)) = Only(PlacesIn(r, n), Instructions(r))
<1>1. PICK L \in Nat : L = Len(blocks) /\ L = Len(BlocksAt(r, n))
  BY PlacesOfOne
<1>2. PICK ps \in Seq(Place(r)) : ps = PlacesIn(r, n)
  BY PlacesOfOne
<1>3. DOMAIN ps = 1..L /\ \A j \in 1..L : ps[j] = <<n, j>> /\ <<n, j>> \in Place(r)
  BY <1>1, <1>2, PlacesOfOne
<1> DEFINE S == {p \in Place(r) : blocks[p[2]] \in Wanted}
<1>4. \A k \in 1..Len(blocks) : blocks[k] \in Wanted <=> <<n, k>> \in S
  BY <1>1, <1>3
<1> HIDE DEF S
<1>5. PlacesOf(n, blocks, Wanted) = Only(ps, S)
  <2>1. ChosenBy(n, blocks, Wanted, S)
    BY <1>4 DEF ChosenBy
  <2> QED
    BY <1>2, <2>1, PlacesChosen
<1>6. \A p \in Instructions(r) : p \in Range(ps) => p \in S
  <2> SUFFICES ASSUME NEW p \in Instructions(r), p \in Range(ps) PROVE p \in S
    OBVIOUS
  <2>1. PICK k \in 1..L : p = <<n, k>>
    BY <1>3 DEF Range
  <2> QED
    BY <1>1, <1>4, <2>1
<1>7. Only(Only(ps, S), Instructions(r)) = Only(ps, Instructions(r))
  BY <1>6, OnlyOfOnly
<1>8. Only(ps, S) \in Seq(Place(r)) /\ \A p \in Range(Only(ps, S)) : p \in Range(ps)
  BY OnlyChooses
<1> QED
  BY <1>2, <1>5, <1>7, <1>8

\* ... its texts are chosen,
LEMMA SystemTurnTexts ==
  ASSUME NEW r, Asked(r), NEW n \in Turns(r)
  PROVE  LET texts == IF r.messages[n].role = "system" THEN SystemTexts(n, Blocks(r, n)) ELSE <<>>
         IN  /\ texts \in Seq(TextSet(r))
             /\ Only(Mapped(texts, AtOf(r)), Instructions(r)) = Only(PlacesIn(r, n), Instructions(r))
<1>1. PICK L \in Nat : L = Len(BlocksAt(r, n))
  BY PlacesOfOne
<1>2. CASE r.messages[n].role = "system"
  <2>1. PICK blocks \in Seq(AnyBlock) : blocks = Blocks(r, n)
    BY Stripped
  <2> DEFINE W == {b \in Range(blocks) : IsText(b) /\ b.good}
             cs == PlacesOf(n, blocks, W)
  <2>2. Len(blocks) = L /\ DOMAIN blocks = 1..L
    BY <1>1, <2>1, Stripped
  <2>3. ASSUME NEW k \in 1..L, <<n, k>> \in Instructions(r) PROVE blocks[k] \in W
    <3>1. BlocksAt(r, n)[k].type = "text" /\ BlocksAt(r, n)[k].good
      BY <1>1, <2>3, InstructionBlock
    <3>2. blocks[k] = BlocksAt(r, n)[k] \/ BlocksAt(r, n)[k].type = "image"
      BY <1>1, <2>1, Stripped
    <3>3. blocks[k] = BlocksAt(r, n)[k] /\ blocks[k] \in Range(blocks)
      BY <2>2, <3>1, <3>2 DEF Range
    <3> QED
      BY <3>1, <3>3 DEF IsText
  <2> HIDE DEF W
  <2>4. n \in {0} \cup Turns(r) /\ Len(blocks) = Len(BlocksAt(r, n))
        /\ \A k \in 1..Len(blocks) : <<n, k>> \in Instructions(r) => blocks[k] \in W
    BY <1>1, <2>2, <2>3
  <2>5. cs \in Seq(Place(r)) /\ Only(cs, Instructions(r)) = Only(PlacesIn(r, n), Instructions(r))
    BY <2>4, InstructionsOfPlaces
  <2>6. PartsOf(n, blocks, W) \in Seq(TextSet(r)) /\ Mapped(PartsOf(n, blocks, W), AtOf(r)) = cs
    BY <2>5, TextParts
  <2>7. SystemTexts(n, Blocks(r, n)) = PartsOf(n, blocks, W)
    BY <2>1 DEF SystemTexts, W
  <2> QED
    BY <1>2, <2>5, <2>6, <2>7
<1>3. CASE r.messages[n].role # "system"
  <2>1. PICK ps \in Seq(Place(r)) : ps = PlacesIn(r, n)
    BY PlacesOfOne
  <2>2. DOMAIN ps = 1..L /\ \A j \in 1..L : ps[j] = <<n, j>>
    BY <1>1, <2>1, PlacesOfOne
  <2>3. ASSUME NEW k \in 1..L PROVE <<n, k>> \notin Instructions(r)
    <3>1. n \in {0} \cup Turns(r) /\ n # 0
      BY RequestShape DEF Turns
    <3> QED
      BY <1>1, <1>3, <3>1, InstructionBlock
  <2>4. Only(ps, Instructions(r)) = <<>>
    <3>1. \A k \in DOMAIN ps : ps[k] \notin Instructions(r)
      BY <2>2, <2>3
    <3> QED
      BY <3>1, OnlyNothing
  <2>5. Mapped(<<>>, AtOf(r)) = <<>> /\ <<>> \in Seq(TextSet(r))
    BY DEF Mapped
  <2> QED
    BY <1>3, <2>1, <2>4, <2>5, OnlyEmpty
<1> QED
  BY <1>2, <1>3

\* ... and so are those of the system field.
LEMMA SystemFieldTexts ==
  ASSUME NEW r, Asked(r)
  PROVE  /\ SystemField(r.system) \in Seq(TextSet(r))
         /\ Only(Mapped(SystemField(r.system), AtOf(r)), Instructions(r))
                = Only(PlacesIn(r, 0), Instructions(r))
<1>1. PICK bs \in Seq(RequestBlocks) : bs = BlocksAt(r, 0)
  BY RequestShape
<1>2. PICK L \in Nat : L = Len(bs) /\ DOMAIN bs = 1..L
  OBVIOUS
<1>3. bs \in Seq(AnyBlock)
  <2>1. \A b \in RequestBlocks : b \in AnyBlock
    BY DEF RequestBlocks, AnyBlock, Ids
  <2> QED
    BY <2>1
<1> DEFINE W == OfType(bs, {"text", ""})
           cs == PlacesOf(0, bs, W)
           texts == PartsOf(0, bs, W)
<1>4. ASSUME NEW k \in 1..L, <<0, k>> \in Instructions(r) PROVE bs[k] \in W /\ bs[k].good
  <2>1. bs[k].type = "text" /\ bs[k].good
    BY <1>1, <1>2, <1>4, InstructionBlock
  <2>2. bs[k] \in Range(bs)
    BY <1>2 DEF Range
  <2> QED
    BY <2>1, <2>2 DEF OfType
<1> HIDE DEF W
<1>5. 0 \in {0} \cup Turns(r) /\ Len(bs) = Len(BlocksAt(r, 0))
      /\ \A k \in 1..Len(bs) : <<0, k>> \in Instructions(r) => bs[k] \in W
  BY <1>1, <1>2, <1>4
<1>6. /\ cs \in Seq(Place(r)) /\ Range(cs) \subseteq Range(PlacesIn(r, 0))
      /\ Only(cs, Instructions(r)) = Only(PlacesIn(r, 0), Instructions(r))
  BY <1>3, <1>5, InstructionsOfPlaces
<1>7. texts \in Seq(TextSet(r)) /\ Len(texts) = Len(cs) /\ Mapped(texts, AtOf(r)) = cs
  BY <1>6, TextParts
<1>8. SystemField(r.system) = IF Len(texts) = 1 /\ ~bs[texts[1].at[2]].good THEN <<>> ELSE texts
  <2>1. bs = ContentBlocks(r.system)
    BY <1>1 DEF BlocksAt, ContentAt
  <2> QED
    BY <2>1 DEF SystemField, W
<1> HIDE DEF cs, texts
<1>9. CASE Len(texts) = 1 /\ ~bs[texts[1].at[2]].good
  <2>1. SystemField(r.system) = <<>> /\ <<>> \in Seq(TextSet(r)) /\ Mapped(<<>>, AtOf(r)) = <<>>
    BY <1>8, <1>9 DEF Mapped
  <2>8. PICK u \in Seq(TextSet(r)) : u = texts
    BY <1>7
  <2>9. PICK v \in Seq(Place(r)) : v = cs
    BY <1>6
  <2>10. Len(u) = 1 /\ Len(v) = 1
    BY <1>7, <1>9, <2>8, <2>9
  <2>11. DOMAIN u = {1} /\ u[1] \in TextSet(r) /\ DOMAIN v = {1} /\ v[1] \in Place(r)
    BY <2>10, OneLong
  <2>2. texts[1].at = cs[1]
    <3>1. texts[1] \in TextSet(r) /\ 1 \in DOMAIN texts
      BY <2>8, <2>11
    <3>2. Mapped(texts, AtOf(r))[1] = texts[1].at
      BY <3>1 DEF Mapped, AtOf
    <3> QED
      BY <1>7, <3>2
  <2>3. PICK p \in Place(r) : cs[1] = p /\ DOMAIN cs = {1} /\ p \in Range(PlacesIn(r, 0))
    <3>1. DOMAIN cs = {1}
      BY <2>9, <2>11
    <3>2. cs[1] \in Place(r) /\ cs[1] \in Range(cs)
      BY <2>9, <2>11, <3>1 DEF Range
    <3> QED
      BY <1>6, <3>1, <3>2
  <2>4. PICK k \in 1..L : p = <<0, k>>
    <3>1. DOMAIN PlacesIn(r, 0) = 1..L /\ \A j \in 1..L : PlacesIn(r, 0)[j] = <<0, j>>
      BY <1>1, <1>2, PlacesOfOne
    <3> QED
      BY <2>3, <3>1 DEF Range
  <2>5. ~bs[k].good
    BY <1>9, <2>2, <2>3, <2>4
  <2>6. p \notin Instructions(r)
    BY <1>4, <2>4, <2>5
  <2>7. Only(cs, Instructions(r)) = <<>>
    <3>1. \A i \in DOMAIN cs : cs[i] \notin Instructions(r)
      BY <2>3, <2>6
    <3> QED
      BY <1>6, <3>1, OnlyNothing
  <2> QED
    BY <1>6, <2>1, <2>7, OnlyEmpty
<1>10. CASE ~(Len(texts) = 1 /\ ~bs[texts[1].at[2]].good)
  <2>1. SystemField(r.system) = texts
    BY <1>8, <1>10
  <2> QED
    BY <1>6, <1>7, <2>1
<1> QED
  BY <1>9, <1>10

-----------------------------------------------------------------------------
(* All the turns, and the system message before them.                     *)

TextsOf(r) == [n \in DOMAIN r.messages |->
    IF r.messages[n].role = "system" THEN SystemTexts(n, Blocks(r, n)) ELSE <<>>]

\* The parts of the system message hold the instructions, in their order.
LEMMA SystemPartsKept ==
  ASSUME NEW r, Asked(r)
  PROVE  /\ SystemParts(r) \in Seq(TextSet(r))
         /\ Only(Mapped(SystemParts(r), AtOf(r)), Instructions(r)) = Only(Places(r), Instructions(r))
<1> DEFINE I == Instructions(r)
           f == AtOf(r)
<1>1. PICK field \in Seq(TextSet(r)) : field = SystemField(r.system)
  BY SystemFieldTexts
<1>2. Only(Mapped(field, f), I) = Only(PlacesIn(r, 0), I)
  BY <1>1, SystemFieldTexts
<1>3. PICK N \in Nat : N = Len(r.messages) /\ DOMAIN r.messages = 1..N /\ Turns(r) = 1..N
  BY RequestShape DEF Turns
<1>4. \A n \in 1..N : /\ TextsOf(r)[n] \in Seq(TextSet(r))
                      /\ Only(Mapped(TextsOf(r)[n], f), I) = Only(PlacesIn(r, n), I)
  <2> SUFFICES ASSUME NEW n \in 1..N
               PROVE  /\ TextsOf(r)[n] \in Seq(TextSet(r))
                      /\ Only(Mapped(TextsOf(r)[n], f), I) = Only(PlacesIn(r, n), I)
    OBVIOUS
  <2>1. PICK t : t = IF r.messages[n].role = "system" THEN SystemTexts(n, Blocks(r, n)) ELSE <<>>
    OBVIOUS
  <2>2. t \in Seq(TextSet(r)) /\ Only(Mapped(t, f), I) = Only(PlacesIn(r, n), I)
    BY <1>3, <2>1, SystemTurnTexts
  <2>3. TextsOf(r)[n] = t
    BY <1>3, <2>1 DEF TextsOf
  <2> QED
    BY <2>2, <2>3
<1>5. TextsOf(r) = [n \in 1..N |-> TextsOf(r)[n]]
  BY <1>3 DEF TextsOf
<1>6. TextsOf(r) \in [1..N -> Seq(TextSet(r))]
  BY <1>4, <1>5
<1>7. PICK ts \in Seq(Seq(TextSet(r))) : ts = TextsOf(r) /\ Len(ts) = N /\ DOMAIN ts = 1..N
  BY <1>6, FunctionIsSeq
<1>8. PICK rest \in Seq(TextSet(r)) : rest = FlattenSeq(ts)
  BY FlattenAppend, EmptySeq
<1>9. SystemParts(r) = field \o rest
  BY <1>1, <1>7, <1>8 DEF SystemParts, TextsOf
<1>10. f \in [TextSet(r) -> Place(r)]
  BY DEF AtOf, TextSet, PartSet
<1> HIDE DEF f, I
<1>11. Mapped(field \o rest, f) = Mapped(field, f) \o Mapped(rest, f)
  BY <1>10, MapConcat
<1>12. Mapped(field, f) \in Seq(Place(r)) /\ Mapped(rest, f) \in Seq(Place(r))
  BY <1>10, MapTyped
<1>13. Only(Mapped(field, f) \o Mapped(rest, f), I) = Only(Mapped(field, f), I) \o Only(Mapped(rest, f), I)
  BY <1>12, OnlyConcat
<1> DEFINE ms == [n \in DOMAIN ts |-> Mapped(ts[n], f)]
<1>14. Mapped(rest, f) = FlattenSeq(ms)
  <2>1. Mapped(FlattenSeq(ts), f) = FlattenSeq(MapEach(ts, f))
    BY <1>10, MapFlat
  <2> QED
    BY <1>8, <2>1, Zenon DEF MapEach
<1>15. ms \in Seq(Seq(Place(r))) /\ DOMAIN ms = 1..N /\ \A n \in 1..N : ms[n] = Mapped(ts[n], f)
  <2>1. \A n \in 1..N : Mapped(ts[n], f) \in Seq(Place(r))
    BY <1>4, <1>7, <1>10, MapTyped
  <2>2. ms \in [1..N -> Seq(Place(r))]
    BY <1>7, <2>1
  <2> QED
    BY <1>7, <2>2, FunctionIsSeq
<1> HIDE DEF ms
<1>16. Only(FlattenSeq(ms), I) = FlattenSeq([n \in DOMAIN ms |-> Only(ms[n], I)])
  BY <1>15, OnlyFlat DEF OnlyEach
<1>17. PICK tp \in Seq(Seq(Place(r))) : /\ tp = TurnPlaces(r) /\ DOMAIN tp = 1..N
                                        /\ \A n \in 1..N : tp[n] = PlacesIn(r, n)
  BY <1>3, TurnPlacesTyped
<1>18. Only(FlattenSeq(tp), I) = FlattenSeq([n \in DOMAIN tp |-> Only(tp[n], I)])
  BY OnlyFlat DEF OnlyEach
<1>19. [n \in DOMAIN ms |-> Only(ms[n], I)] = [n \in DOMAIN tp |-> Only(tp[n], I)]
  BY <1>4, <1>7, <1>15, <1>17
<1>20. Only(Mapped(rest, f), I) = Only(FlattenSeq(tp), I)
  BY <1>14, <1>16, <1>18, <1>19
<1>21. /\ Places(r) = PlacesIn(r, 0) \o FlattenSeq(tp)
       /\ PlacesIn(r, 0) \in Seq(Place(r)) /\ FlattenSeq(tp) \in Seq(Place(r))
  BY <1>17, TurnPlacesTyped
<1>22. Only(PlacesIn(r, 0) \o FlattenSeq(tp), I) = Only(PlacesIn(r, 0), I) \o Only(FlattenSeq(tp), I)
  BY <1>21, OnlyConcat
<1>23. field \o rest \in Seq(TextSet(r))
  BY ConcatProperties
<1>24. Only(Mapped(SystemParts(r), f), I) = Only(Places(r), I)
  BY <1>2, <1>9, <1>11, <1>13, <1>20, <1>21, <1>22
<1> QED
  BY <1>9, <1>23, <1>24 DEF f, I

TurnList(r) == [n \in DOMAIN r.messages |-> TurnMessages(r, n)]

\* Every turn keeps what was said in it.
LEMMA TurnsKept ==
  ASSUME NEW r, Asked(r)
  PROVE  /\ TurnList(r) \in Seq(Seq(Turned(r))) /\ Len(TurnList(r)) = Len(r.messages)
         /\ DOMAIN TurnList(r) = Turns(r)
         /\ \A n \in Turns(r) : TurnKept(r, n, TurnList(r)[n]) /\ TurnList(r)[n] = TurnMessages(r, n)
<1>1. PICK N \in Nat : N = Len(r.messages) /\ DOMAIN r.messages = 1..N /\ Turns(r) = 1..N
  BY RequestShape DEF Turns
<1>2. ASSUME NEW n \in Turns(r) PROVE TurnKept(r, n, TurnMessages(r, n))
  BY RequestShape, UserTurn, AssistantTurn, SystemTurn
<1>3. DOMAIN TurnList(r) = 1..N /\ \A n \in 1..N : TurnList(r)[n] = TurnMessages(r, n)
  BY <1>1 DEF TurnList
<1>4. \A n \in 1..N : TurnMessages(r, n) \in Seq(Turned(r))
  BY <1>1, <1>2 DEF TurnKept
<1>5. TurnList(r) \in [1..N -> Seq(Turned(r))]
  BY <1>1, <1>4 DEF TurnList
<1> QED
  BY <1>1, <1>2, <1>3, <1>5, FunctionIsSeq

\* What the turns say, call and answer is what is at their places.
LEMMA TurnsGathered ==
  ASSUME NEW r, Asked(r)
  PROVE  LET flat == FlattenSeq(TurnList(r))
             places == FlattenSeq(TurnPlaces(r))
         IN  /\ flat \in Seq(Turned(r))
             /\ Gathered(flat, SaidOf(r)) = Only(places, SaidPlaces(r))
             /\ Gathered(flat, CallsOf(r))
                    = Mapped(Only(places, IdPlaces(r, "assistant", "tool_use")), IdAt(r))
             /\ Gathered(flat, AnswersOf(r))
                    = Mapped(Only(places, IdPlaces(r, "user", "tool_result")), IdAt(r))
<1>1. PICK ss \in Seq(Seq(Turned(r))) : ss = TurnList(r)
  BY TurnsKept
<1>2. PICK tp \in Seq(Seq(Place(r))) : tp = TurnPlaces(r)
  BY TurnPlacesTyped
<1>3. PICK D : D = DOMAIN ss /\ D = DOMAIN tp /\ D = Turns(r)
  BY <1>1, <1>2, TurnsKept, TurnPlacesTyped
<1>4. \A n \in D : tp[n] = PlacesIn(r, n) /\ tp[n] \in Seq(Place(r))
  BY <1>2, <1>3, TurnPlacesTyped, PlacesOfOne
<1>5. ASSUME NEW n \in D
      PROVE  /\ Gathered(ss[n], SaidOf(r)) = Only(tp[n], SaidPlaces(r))
             /\ Gathered(ss[n], CallsOf(r))
                    = Mapped(Only(tp[n], IdPlaces(r, "assistant", "tool_use")), IdAt(r))
             /\ Gathered(ss[n], AnswersOf(r))
                    = Mapped(Only(tp[n], IdPlaces(r, "user", "tool_result")), IdAt(r))
  BY <1>1, <1>3, <1>4, TurnsKept DEF TurnKept
<1>6. FlattenSeq(ss) \in Seq(Turned(r))
  BY FlattenAppend, EmptySeq
<1>7. PICK T : T = Spoken(r)
  OBVIOUS
<1>8. ss \in Seq(Seq(T))
  <2>1. \A m \in Turned(r) : m \in T
    BY <1>7 DEF Turned
  <2>2. \A s \in Seq(Turned(r)) : s \in Seq(T)
    BY <2>1
  <2> QED
    BY <2>2
<1>9. /\ SaidOf(r) \in [T -> Seq(Place(r))] /\ CallsOf(r) \in [T -> Seq(Ids)]
      /\ AnswersOf(r) \in [T -> Seq(Ids)]
  BY <1>7, GatherersTyped
<1>10. ASSUME NEW U, NEW h \in [T -> Seq(U)]
       PROVE  Gathered(FlattenSeq(ss), h) = FlattenSeq([n \in D |-> Gathered(ss[n], h)])
  <2>1. Gathered(FlattenSeq(ss), h) = FlattenSeq(GatherAll(ss, h))
    BY <1>8, GatherFlat
  <2> QED
    BY <1>3, <2>1, Zenon DEF GatherAll
<1>11. Gathered(FlattenSeq(ss), SaidOf(r)) = Only(FlattenSeq(tp), SaidPlaces(r))
  <2>1. Gathered(FlattenSeq(ss), SaidOf(r)) = FlattenSeq([n \in D |-> Gathered(ss[n], SaidOf(r))])
    BY <1>9, <1>10
  <2>2. Only(FlattenSeq(tp), SaidPlaces(r)) = FlattenSeq([n \in D |-> Only(tp[n], SaidPlaces(r))])
    BY <1>3, OnlyFlat DEF OnlyEach
  <2>3. [n \in D |-> Gathered(ss[n], SaidOf(r))] = [n \in D |-> Only(tp[n], SaidPlaces(r))]
    BY <1>5
  <2> QED
    BY <2>1, <2>2, <2>3
<1>12. ASSUME NEW h \in [T -> Seq(Ids)], NEW S,
              \A n \in D : Gathered(ss[n], h) = Mapped(Only(tp[n], S), IdAt(r))
       PROVE  Gathered(FlattenSeq(ss), h) = Mapped(Only(FlattenSeq(tp), S), IdAt(r))
  <2> DEFINE os == [n \in D |-> Only(tp[n], S)]
  <2>1. Gathered(FlattenSeq(ss), h) = FlattenSeq([n \in D |-> Gathered(ss[n], h)])
    BY <1>10
  <2>2. Only(FlattenSeq(tp), S) = FlattenSeq(os)
    <3>1. Only(FlattenSeq(tp), S) = FlattenSeq(OnlyEach(tp, S))
      BY OnlyFlat
    <3> QED
      BY <1>3, <3>1, Zenon DEF OnlyEach
  <2>3. DOMAIN os = D /\ (\A n \in D : os[n] = Only(tp[n], S))
    OBVIOUS
  <2>4. os \in Seq(Seq(Place(r)))
    <3>1. \A n \in D : Only(tp[n], S) \in Seq(Place(r))
      BY <1>4, OnlyChooses
    <3>2. PICK N \in Nat : D = 1..N
      BY <1>3, RequestShape DEF Turns
    <3>3. os \in [1..N -> Seq(Place(r))]
      BY <3>1, <3>2
    <3> QED
      BY <3>3, FunctionIsSeq
  <2> HIDE DEF os
  <2>5. IdAt(r) \in [Place(r) -> Ids]
    BY GatherersTyped
  <2>6. Mapped(FlattenSeq(os), IdAt(r)) = FlattenSeq([n \in DOMAIN os |-> Mapped(os[n], IdAt(r))])
    <3>1. Mapped(FlattenSeq(os), IdAt(r)) = FlattenSeq(MapEach(os, IdAt(r)))
      BY <2>4, <2>5, MapFlat
    <3> QED
      BY <3>1, Zenon DEF MapEach
  <2>7. [n \in DOMAIN os |-> Mapped(os[n], IdAt(r))] = [n \in D |-> Gathered(ss[n], h)]
    BY <1>12, <2>3
  <2> QED
    BY <2>1, <2>2, <2>6, <2>7
<1>13. Gathered(FlattenSeq(ss), CallsOf(r))
           = Mapped(Only(FlattenSeq(tp), IdPlaces(r, "assistant", "tool_use")), IdAt(r))
  BY <1>5, <1>9, <1>12
<1>14. Gathered(FlattenSeq(ss), AnswersOf(r))
           = Mapped(Only(FlattenSeq(tp), IdPlaces(r, "user", "tool_result")), IdAt(r))
  BY <1>5, <1>9, <1>12
<1> QED
  BY <1>1, <1>2, <1>6, <1>11, <1>13, <1>14

\* The system message, if there is one.
LeadOf(r) == IF SystemParts(r) = <<>> THEN <<>> ELSE <<Message("system", SystemParts(r), <<>>, "")>>

\* What is sent is the system message and then the turns.
LEMMA LeadKept ==
  ASSUME NEW r, Asked(r)
  PROVE  /\ OpenAIMessages(r) = LeadOf(r) \o FlattenSeq(TurnList(r))
         /\ LeadOf(r) \in Seq(Spoken(r)) /\ Len(LeadOf(r)) \in {0, 1}
         /\ \A i \in DOMAIN LeadOf(r) : LeadOf(r)[i].calls = <<>>
         /\ Gathered(LeadOf(r), SaidOf(r)) = <<>> /\ Gathered(LeadOf(r), CallsOf(r)) = <<>>
         /\ Gathered(LeadOf(r), AnswersOf(r)) = <<>>
         /\ Gathered(LeadOf(r), InstructionsOf(r)) = Mapped(SystemParts(r), AtOf(r))
<1>1. PICK ps \in Seq(TextSet(r)) : ps = SystemParts(r)
  BY SystemPartsKept
<1>2. FlattenSeq(TurnList(r)) \in Seq(Turned(r))
  BY TurnsGathered
<1>3. OpenAIMessages(r) = IF ps = <<>> THEN FlattenSeq(TurnList(r))
                          ELSE <<Message("system", ps, <<>>, "")>> \o FlattenSeq(TurnList(r))
  BY <1>1 DEF OpenAIMessages, TurnList
<1>4. LeadOf(r) = IF ps = <<>> THEN <<>> ELSE <<Message("system", ps, <<>>, "")>>
  BY <1>1 DEF LeadOf
<1>5. CASE ps = <<>>
  <2>1. OpenAIMessages(r) = <<>> \o FlattenSeq(TurnList(r))
    BY <1>2, <1>3, <1>5, ConcatEmptySeq
  <2>2. LeadOf(r) = <<>> /\ <<>> \in Seq(Spoken(r)) /\ Len(<<>>) = 0
    BY <1>4, <1>5
  <2>3. /\ Gathered(<<>>, SaidOf(r)) = <<>> /\ Gathered(<<>>, CallsOf(r)) = <<>>
        /\ Gathered(<<>>, AnswersOf(r)) = <<>> /\ Gathered(<<>>, InstructionsOf(r)) = <<>>
    BY GatherersTyped, GatherFew
  <2>4. Mapped(<<>>, AtOf(r)) = <<>>
    BY DEF Mapped
  <2>5. DOMAIN <<>> = {}
    OBVIOUS
  <2> QED
    BY <1>1, <1>5, <2>1, <2>2, <2>3, <2>4, <2>5
<1>6. CASE ps # <<>>
  <2> DEFINE m == Message("system", ps, <<>>, "")
  <2>1. LeadOf(r) = <<m>> /\ OpenAIMessages(r) = <<m>> \o FlattenSeq(TurnList(r))
    BY <1>3, <1>4, <1>6
  <2>2. m.role = "system" /\ m.parts = ps /\ m.calls = <<>> /\ m.answers = ""
    BY DEF Message
  <2>3. ps \in Seq(PartSet(r)) /\ \A k \in DOMAIN ps : ps[k] \in TextSet(r) /\ ps[k].kind # "image"
    <3>1. \A q \in TextSet(r) : q \in PartSet(r) /\ q.kind # "image"
      BY DEF TextSet
    <3>2. \A k \in DOMAIN ps : ps[k] \in TextSet(r)
      OBVIOUS
    <3>3. ps \in Seq(PartSet(r))
      BY <3>1
    <3> QED
      BY <3>1, <3>2, <3>3
  <2>4. m \in Sendable(r)
    <3>1. <<>> \in Seq(Ids)
      OBVIOUS
    <3> QED
      BY <2>3, <3>1 DEF Message, Sendable, Ids
  <2> HIDE DEF m
  <2>5. m \in Spoken(r)
    BY <2>2, <2>3, <2>4 DEF Spoken
  <2>6. <<m>> \in Seq(Spoken(r)) /\ Len(<<m>>) = 1 /\ DOMAIN <<m>> = {1} /\ <<m>>[1] = m
    <3>1. <<m>> \in Seq(Spoken(r)) /\ Len(<<m>>) = 1 /\ <<m>>[1] = m
      BY <2>5
    <3> QED
      BY <3>1, OneLong
  <2>7. Gathered(<<m>>, SaidOf(r)) = <<>>
    <3>1. SaidOf(r) \in [Spoken(r) -> Seq(Place(r))] /\ SaidOf(r)[m] = <<>>
      BY <2>2, <2>5, GatherersTyped DEF SaidOf
    <3> QED
      BY <2>5, <3>1, GatherFew, Zenon
  <2>8. Gathered(<<m>>, CallsOf(r)) = <<>>
    <3>1. CallsOf(r) \in [Spoken(r) -> Seq(Ids)] /\ CallsOf(r)[m] = <<>>
      BY <2>2, <2>5, GatherersTyped DEF CallsOf
    <3> QED
      BY <2>5, <3>1, GatherFew, Zenon
  <2>9. Gathered(<<m>>, AnswersOf(r)) = <<>>
    <3>1. AnswersOf(r) \in [Spoken(r) -> Seq(Ids)] /\ AnswersOf(r)[m] = <<>>
      BY <2>2, <2>5, GatherersTyped DEF AnswersOf
    <3> QED
      BY <2>5, <3>1, GatherFew, Zenon
  <2>10. Gathered(<<m>>, InstructionsOf(r)) = Mapped(ps, AtOf(r))
    <3>1. InstructionsOf(r) \in [Spoken(r) -> Seq(Place(r))] /\ InstructionsOf(r)[m] = PlacesSent(m)
      BY <2>2, <2>5, GatherersTyped DEF InstructionsOf
    <3>2. Gathered(<<m>>, InstructionsOf(r)) = PlacesSent(m)
      BY <2>5, <3>1, GatherFew, Zenon
    <3>3. PlacesSent(m) = [k \in DOMAIN ps |-> ps[k].at]
      BY <2>2 DEF PlacesSent
    <3>4. Mapped(ps, AtOf(r)) = [k \in DOMAIN ps |-> ps[k].at]
      BY <2>3 DEF Mapped, AtOf
    <3> QED
      BY <3>2, <3>3, <3>4
  <2>11. \A i \in DOMAIN LeadOf(r) : LeadOf(r)[i].calls = <<>>
    BY <2>1, <2>2, <2>6
  <2> QED
    BY <1>1, <2>1, <2>6, <2>7, <2>8, <2>9, <2>10, <2>11
<1> QED
  BY <1>5, <1>6

-----------------------------------------------------------------------------
(* The translation.                                                       *)

\* Nothing of the system field was said, called or answered.
LEMMA FieldSilent ==
  ASSUME NEW r, Asked(r)
  PROVE  /\ Only(PlacesIn(r, 0), SaidPlaces(r)) = <<>>
         /\ \A type : /\ Only(PlacesIn(r, 0), IdPlaces(r, "user", type)) = <<>>
                      /\ Only(PlacesIn(r, 0), IdPlaces(r, "assistant", type)) = <<>>
<1>1. PICK ps \in Seq(Place(r)) : ps = PlacesIn(r, 0)
  BY PlacesOfOne
<1>2. \A k \in DOMAIN ps : RoleAt(r, ps[k]) = "system"
  <2>1. /\ DOMAIN ps = 1..Len(BlocksAt(r, 0))
        /\ \A k \in 1..Len(BlocksAt(r, 0)) : ps[k] = <<0, k>>
    BY <1>1, PlacesOfOne
  <2>2. \A k : <<0, k>>[1] = 0
    OBVIOUS
  <2> QED
    BY <2>1, <2>2 DEF RoleAt
<1>3. \A k \in DOMAIN ps : ps[k] \notin SaidPlaces(r)
  BY <1>2 DEF SaidPlaces
<1>4. ASSUME NEW type, NEW k \in DOMAIN ps
      PROVE  ps[k] \notin IdPlaces(r, "user", type) /\ ps[k] \notin IdPlaces(r, "assistant", type)
  BY <1>2 DEF IdPlaces
<1> QED
  BY <1>1, <1>3, <1>4, OnlyNothing

\* The whole of the places: the system field's add nothing.
LEMMA PlacesGathered ==
  ASSUME NEW r, Asked(r)
  PROVE  LET rest == FlattenSeq(TurnPlaces(r))
         IN  /\ Only(Places(r), SaidPlaces(r)) = Only(rest, SaidPlaces(r))
             /\ \A type : /\ Only(Places(r), IdPlaces(r, "user", type))
                                 = Only(rest, IdPlaces(r, "user", type))
                          /\ Only(Places(r), IdPlaces(r, "assistant", type))
                                 = Only(rest, IdPlaces(r, "assistant", type))
<1>1. PICK rest \in Seq(Place(r)), field \in Seq(Place(r)) :
          rest = FlattenSeq(TurnPlaces(r)) /\ field = PlacesIn(r, 0)
  BY TurnPlacesTyped
<1>2. Places(r) = field \o rest
  BY <1>1, TurnPlacesTyped
<1>3. ASSUME NEW S, Only(field, S) = <<>>
      PROVE  Only(field \o rest, S) = Only(rest, S)
  <2>1. Only(field \o rest, S) = <<>> \o Only(rest, S)
    <3>1. Only(field \o rest, S) = Only(field, S) \o Only(rest, S)
      BY OnlyConcat
    <3> QED
      BY <1>3, <3>1
  <2>2. Only(rest, S) \in Seq(Place(r))
    BY OnlyChooses
  <2> QED
    BY <2>1, <2>2, ConcatEmptySeq
<1>4. Only(field, SaidPlaces(r)) = <<>>
  BY <1>1, FieldSilent
<1>5. ASSUME NEW type
      PROVE  /\ Only(field, IdPlaces(r, "user", type)) = <<>>
             /\ Only(field, IdPlaces(r, "assistant", type)) = <<>>
  BY <1>1, FieldSilent
<1> QED
  BY <1>1, <1>2, <1>3, <1>4, <1>5

\* The messages sent, and what is gathered from them.
LEMMA SentGathered ==
  ASSUME NEW r, Asked(r)
  PROVE  LET out == OpenAIMessages(r)
         IN  /\ out \in Seq(Spoken(r))
             /\ Gathered(out, SaidOf(r)) = Only(Places(r), SaidPlaces(r))
             /\ Gathered(out, CallsOf(r))
                    = Mapped(Only(Places(r), IdPlaces(r, "assistant", "tool_use")), IdAt(r))
             /\ Gathered(out, AnswersOf(r))
                    = Mapped(Only(Places(r), IdPlaces(r, "user", "tool_result")), IdAt(r))
             /\ Gathered(out, InstructionsOf(r)) = Mapped(SystemParts(r), AtOf(r))
             /\ \A i \in DOMAIN out : out[i].role = "system" => i = 1
<1>1. PICK T : T = Spoken(r)
  OBVIOUS
<1>2. PICK lead \in Seq(T) : lead = LeadOf(r)
  BY <1>1, LeadKept
<1>3. PICK flat \in Seq(Turned(r)) : flat = FlattenSeq(TurnList(r))
  BY TurnsGathered
<1>4. flat \in Seq(T) /\ \A i \in DOMAIN flat : flat[i].role # "system"
  <2>1. \A m \in Turned(r) : m \in T /\ m.role # "system"
    BY <1>1 DEF Turned
  <2> QED
    BY <2>1
<1>5. OpenAIMessages(r) = lead \o flat /\ Len(lead) \in {0, 1}
  BY <1>2, <1>3, LeadKept
<1>6. lead \o flat \in Seq(T)
  BY <1>4, ConcatProperties
<1>7. ASSUME NEW U, NEW h \in [T -> Seq(U)]
      PROVE  /\ Gathered(lead \o flat, h) = Gathered(lead, h) \o Gathered(flat, h)
             /\ Gathered(lead, h) = <<>> => Gathered(lead \o flat, h) = Gathered(flat, h)
  <2>1. Gathered(lead \o flat, h) = Gathered(lead, h) \o Gathered(flat, h)
    BY <1>4, GatherConcat, Zenon
  <2>2. Gathered(flat, h) \in Seq(U)
    BY <1>4, GatherTyped
  <2> QED
    BY <2>1, <2>2, ConcatEmptySeq
<1>8. /\ SaidOf(r) \in [T -> Seq(Place(r))] /\ CallsOf(r) \in [T -> Seq(Ids)]
      /\ AnswersOf(r) \in [T -> Seq(Ids)] /\ InstructionsOf(r) \in [T -> Seq(Place(r))]
  BY <1>1, GatherersTyped
<1>9. /\ Gathered(lead, SaidOf(r)) = <<>> /\ Gathered(lead, CallsOf(r)) = <<>>
      /\ Gathered(lead, AnswersOf(r)) = <<>>
      /\ Gathered(lead, InstructionsOf(r)) = Mapped(SystemParts(r), AtOf(r))
  BY <1>2, LeadKept
<1>10. /\ Gathered(lead \o flat, SaidOf(r)) = Gathered(flat, SaidOf(r))
       /\ Gathered(lead \o flat, CallsOf(r)) = Gathered(flat, CallsOf(r))
       /\ Gathered(lead \o flat, AnswersOf(r)) = Gathered(flat, AnswersOf(r))
  BY <1>7, <1>8, <1>9
<1>11. Gathered(lead \o flat, InstructionsOf(r)) = Mapped(SystemParts(r), AtOf(r))
  <2>1. \A i \in DOMAIN flat : InstructionsOf(r)[flat[i]] = <<>>
    BY <1>1, <1>4 DEF InstructionsOf
  <2>2. Gathered(flat, InstructionsOf(r)) = <<>>
    BY <1>4, <1>8, <2>1, GatherFew
  <2>3. Gathered(lead, InstructionsOf(r)) \in Seq(Place(r))
    BY <1>8, GatherTyped
  <2>4. Gathered(lead, InstructionsOf(r)) \o <<>> = Gathered(lead, InstructionsOf(r))
    BY <2>3, ConcatEmptySeq
  <2> QED
    BY <1>7, <1>8, <1>9, <2>2, <2>4
<1>12. \A i \in DOMAIN (lead \o flat) : (lead \o flat)[i].role = "system" => i = 1
  <2> SUFFICES ASSUME NEW i \in DOMAIN (lead \o flat), i # 1
               PROVE  (lead \o flat)[i].role # "system"
    OBVIOUS
  <2>1. PICK x \in {0, 1}, y \in Nat : x = Len(lead) /\ y = Len(flat) /\ DOMAIN flat = 1..y
    BY <1>4, <1>5
  <2>2. DOMAIN (lead \o flat) = 1..(x + y)
    BY <1>4, <2>1
  <2>3. i - x \in 1..y /\ i = x + (i - x)
    BY <2>1, <2>2
  <2>4. (lead \o flat)[i] = flat[i - x]
    BY <1>4, <2>1, <2>2, <2>3
  <2> QED
    BY <1>4, <2>1, <2>3, <2>4
<1>13. /\ Gathered(flat, SaidOf(r)) = Only(Places(r), SaidPlaces(r))
       /\ Gathered(flat, CallsOf(r))
              = Mapped(Only(Places(r), IdPlaces(r, "assistant", "tool_use")), IdAt(r))
       /\ Gathered(flat, AnswersOf(r))
              = Mapped(Only(Places(r), IdPlaces(r, "user", "tool_result")), IdAt(r))
  BY <1>3, TurnsGathered, PlacesGathered
<1> QED
  BY <1>1, <1>5, <1>6, <1>10, <1>11, <1>12, <1>13

\* One system message, and all of the instructions in it.
LEMMA OneSystemKept ==
  ASSUME NEW r, Asked(r)
  PROVE  OneSystem(r, OpenAIMessages(r))
<1>1. PICK out \in Seq(Spoken(r)) : out = OpenAIMessages(r)
  BY SentGathered
<1>2. \A i \in DOMAIN out : out[i].role = "system" => i = 1
  BY <1>1, SentGathered
<1>3. [i \in DOMAIN out |-> IF out[i].role = "system" THEN PlacesSent(out[i]) ELSE <<>>]
         = Mapped(out, InstructionsOf(r))
  <2>1. \A i \in DOMAIN out : out[i] \in Spoken(r)
    OBVIOUS
  <2> QED
    BY <2>1 DEF Mapped, InstructionsOf
<1>4. FlattenSeq([i \in DOMAIN out |-> IF out[i].role = "system" THEN PlacesSent(out[i]) ELSE <<>>])
         = Mapped(SystemParts(r), AtOf(r))
  BY <1>1, <1>3, SentGathered DEF Gathered
<1>5. Only(Mapped(SystemParts(r), AtOf(r)), Instructions(r)) = Only(Places(r), Instructions(r))
  BY SystemPartsKept
<1> QED
  BY <1>1, <1>2, <1>4, <1>5 DEF OneSystem, Instructions

\* All that was said is there, in its order.
LEMMA InOrderKept ==
  ASSUME NEW r, Asked(r)
  PROVE  InOrder(r, OpenAIMessages(r))
<1>1. PICK out \in Seq(Spoken(r)) : out = OpenAIMessages(r)
  BY SentGathered
<1>2. \A i \in DOMAIN out : out[i] \in Spoken(r)
  OBVIOUS
<1>3. FlattenSeq([i \in DOMAIN out |-> IF out[i].role # "system" THEN PlacesSent(out[i]) ELSE <<>>])
         = Only(Places(r), SaidPlaces(r))
  <2>1. [i \in DOMAIN out |-> IF out[i].role # "system" THEN PlacesSent(out[i]) ELSE <<>>]
           = Mapped(out, SaidOf(r))
    BY <1>2 DEF Mapped, SaidOf
  <2> QED
    BY <1>1, <2>1, SentGathered DEF Gathered
<1>4. FlattenSeq([i \in DOMAIN out |-> out[i].calls])
         = Mapped(Only(Places(r), IdPlaces(r, "assistant", "tool_use")), IdAt(r))
  <2>1. [i \in DOMAIN out |-> out[i].calls] = Mapped(out, CallsOf(r))
    BY <1>2 DEF Mapped, CallsOf
  <2> QED
    BY <1>1, <2>1, SentGathered DEF Gathered
<1>5. FlattenSeq([i \in DOMAIN out |-> IF out[i].role = "tool" THEN <<out[i].answers>> ELSE <<>>])
         = Mapped(Only(Places(r), IdPlaces(r, "user", "tool_result")), IdAt(r))
  <2>1. [i \in DOMAIN out |-> IF out[i].role = "tool" THEN <<out[i].answers>> ELSE <<>>]
           = Mapped(out, AnswersOf(r))
    BY <1>2 DEF Mapped, AnswersOf
  <2> QED
    BY <1>1, <2>1, SentGathered DEF Gathered
<1>6. ASSUME NEW S
      PROVE  [k \in DOMAIN Only(Places(r), S) |-> BlockAt(r, Only(Places(r), S)[k]).id]
                 = Mapped(Only(Places(r), S), IdAt(r))
  <2>1. PICK cs \in Seq(Place(r)) : cs = Only(Places(r), S)
    BY PlacesRange, OnlyChooses
  <2>2. \A k \in DOMAIN cs : cs[k] \in Place(r)
    OBVIOUS
  <2> QED
    BY <2>1, <2>2 DEF Mapped, IdAt
<1>7. \A i \in DOMAIN out : \A k \in DOMAIN out[i].parts : out[i].parts[k].kind = "image" => r.vision
  BY <1>2 DEF Spoken
<1>8. FlattenSeq([i \in DOMAIN out |-> out[i].calls])
         = LET cs == Only(Places(r), IdPlaces(r, "assistant", "tool_use"))
           IN  [k \in DOMAIN cs |-> BlockAt(r, cs[k]).id]
  BY <1>4, <1>6
<1>9. FlattenSeq([i \in DOMAIN out |-> IF out[i].role = "tool" THEN <<out[i].answers>> ELSE <<>>])
         = LET cs == Only(Places(r), IdPlaces(r, "user", "tool_result"))
           IN  [k \in DOMAIN cs |-> BlockAt(r, cs[k]).id]
  BY <1>5, <1>6
<1> QED
  BY <1>1, <1>3, <1>7, <1>8, <1>9, Zenon DEF InOrder, SaidPlaces, IdPlaces

-----------------------------------------------------------------------------
(* The answers of the calls.                                              *)

\* Two sequences of the same elements, no element twice.
LEMMA SameLength ==
  ASSUME NEW T, NEW s \in Seq(T), NEW t \in Seq(T), NoTwice(s), NoTwice(t), Range(s) = Range(t)
  PROVE  Len(s) = Len(t)
<1>1. ASSUME NEW u \in Seq(T), NoTwice(u)
      PROVE  Cardinality(Range(u)) = Len(u)
  <2>1. PICK n \in Nat : n = Len(u) /\ DOMAIN u = 1..n
    OBVIOUS
  <2>2. u \in [1..n -> Range(u)]
    BY <2>1 DEF Range
  <2>3. u \in Bijection(1..n, Range(u))
    BY <1>1, <2>1, <2>2 DEF NoTwice, Bijection, Injection, Surjection, Range, IsInjective
  <2>4. ExistsBijection(1..n, Range(u))
    BY <2>3 DEF ExistsBijection
  <2>5. IsFiniteSet(1..n) /\ Cardinality(1..n) = n
    BY FS_Interval
  <2> QED
    BY <2>1, <2>4, <2>5, FS_Bijection
<1> QED
  BY <1>1

\* The ids of the blocks of one type, each once if they are not repeated.
LEMMA IdsRange ==
  ASSUME NEW r, Asked(r), NEW n \in Turns(r), NEW type \in {"tool_use", "tool_result"}
  PROVE  /\ IdsOf(n, Blocks(r, n), type) \in Seq(Ids)
         /\ Range(IdsOf(n, Blocks(r, n), type)) = UseIds(r, n, type)
         /\ Once(r, n, type) => NoTwice(IdsOf(n, Blocks(r, n), type))
<1>1. PICK ids \in Seq(Ids) : ids = IdsOf(n, Blocks(r, n), type)
  BY IdsOfTurn
<1>2. PICK ps \in Seq(Place(r)) : ps = PlacesIn(r, n)
  BY PlacesOfOne
<1>3. PICK L \in Nat : L = Len(BlocksAt(r, n))
  BY PlacesOfOne
<1>4. NoTwice(ps) /\ DOMAIN ps = 1..L /\ \A k \in 1..L : ps[k] = <<n, k>> /\ <<n, k>> \in Place(r)
  BY <1>2, <1>3, PlacesOfOne
<1> DEFINE S == IdPlaces(r, r.messages[n].role, type)
<1>5. PICK cs \in Seq(Place(r)) : cs = Only(ps, S)
  BY OnlyChooses
<1>6. NoTwice(cs) /\ \A p : p \in Range(cs) <=> p \in Range(ps) /\ p \in S
  BY <1>4, <1>5, OnlyChooses
<1>7. ids = Mapped(cs, IdAt(r))
  BY <1>1, <1>2, <1>5, IdsOfTurn
<1>8. DOMAIN ids = DOMAIN cs /\ \A k \in DOMAIN cs : ids[k] = BlockAt(r, cs[k]).id
  <2>1. \A k \in DOMAIN cs : cs[k] \in Place(r)
    OBVIOUS
  <2> QED
    BY <1>7, <2>1 DEF Mapped, IdAt
<1>9. OfTypeAt(r, n, type) = {k \in 1..L : TypeAt(r, <<n, k>>) = type}
  BY <1>2, <1>4 DEF OfTypeAt
<1>10. \A k \in 1..L : <<n, k>> \in S <=> TypeAt(r, <<n, k>>) = type
  BY <1>3, TurnPlace DEF IdPlaces
<1> HIDE DEF S
<1>11. ASSUME NEW a \in DOMAIN cs
       PROVE  \E k \in OfTypeAt(r, n, type) : cs[a] = <<n, k>>
  <2>1. cs[a] \in Range(ps) /\ cs[a] \in S
    BY <1>6 DEF Range
  <2>2. PICK k \in 1..L : cs[a] = <<n, k>>
    BY <1>4, <2>1 DEF Range
  <2> QED
    BY <1>9, <1>10, <2>1, <2>2
<1>12. ASSUME NEW k \in OfTypeAt(r, n, type)
       PROVE  \E a \in DOMAIN cs : cs[a] = <<n, k>>
  <2>1. k \in 1..L /\ <<n, k>> \in S
    BY <1>9, <1>10
  <2>2. <<n, k>> \in Range(ps)
    BY <1>4, <2>1 DEF Range
  <2>3. <<n, k>> \in Range(cs)
    BY <1>6, <2>1, <2>2
  <2> QED
    BY <2>3 DEF Range
<1>13. Range(ids) = UseIds(r, n, type)
  <2>1. \A i \in Range(ids) : i \in UseIds(r, n, type)
    <3> SUFFICES ASSUME NEW a \in DOMAIN cs PROVE ids[a] \in UseIds(r, n, type)
      BY <1>8 DEF Range
    <3>1. PICK k \in OfTypeAt(r, n, type) : cs[a] = <<n, k>>
      BY <1>11
    <3> QED
      BY <1>8, <3>1 DEF UseIds
  <2>2. \A i \in UseIds(r, n, type) : i \in Range(ids)
    <3> SUFFICES ASSUME NEW k \in OfTypeAt(r, n, type) PROVE BlockAt(r, <<n, k>>).id \in Range(ids)
      BY DEF UseIds
    <3>1. PICK a \in DOMAIN cs : cs[a] = <<n, k>>
      BY <1>12
    <3> QED
      BY <1>8, <3>1 DEF Range
  <2> QED
    BY <2>1, <2>2
<1>14. ASSUME Once(r, n, type) PROVE NoTwice(ids)
  <2> SUFFICES ASSUME NEW a \in DOMAIN cs, NEW b \in DOMAIN cs, ids[a] = ids[b] PROVE a = b
    BY <1>8 DEF NoTwice
  <2>1. PICK j \in OfTypeAt(r, n, type) : cs[a] = <<n, j>>
    BY <1>11
  <2>2. PICK k \in OfTypeAt(r, n, type) : cs[b] = <<n, k>>
    BY <1>11
  <2>3. BlockAt(r, <<n, j>>).id = BlockAt(r, <<n, k>>).id
    BY <1>8, <2>1, <2>2
  <2>4. j = k
    BY <1>14, <2>3 DEF Once
  <2>5. cs[a] = cs[b]
    BY <2>1, <2>2, <2>4
  <2> QED
    BY <1>6, <2>5 DEF NoTwice
<1> QED
  BY <1>1, <1>13, <1>14

\* Where the elements of two sequences are when one follows the other.
LEMMA ConcatAt ==
  ASSUME NEW T, NEW a \in Seq(T), NEW b \in Seq(T)
  PROVE  /\ Len(a) \in Nat /\ Len(b) \in Nat /\ Len(a \o b) = Len(a) + Len(b)
         /\ DOMAIN (a \o b) = 1..(Len(a) + Len(b))
         /\ \A k \in 1..Len(a) : (a \o b)[k] = a[k]
         /\ \A k \in 1..Len(b) : (a \o b)[Len(a) + k] = b[k]
  OBVIOUS

\* Where the answers are in a user's turn, which makes no call.
LEMMA UserAnswers ==
  ASSUME NEW r, Asked(r), NEW n \in Turns(r), r.messages[n].role = "user"
  PROVE  LET turn == TurnMessages(r, n)
             ids == IdsOf(n, Blocks(r, n), "tool_result")
         IN  /\ Len(ids) <= Len(turn)
             /\ \A k \in 1..Len(ids) : turn[k].answers = ids[k]
             /\ \A k \in 1..Len(turn) : turn[k].calls = <<>>
<1>1. PICK ids \in Seq(Ids) : ids = IdsOf(n, Blocks(r, n), "tool_result")
  BY IdsRange
<1>2. PICK tools : tools = [k \in DOMAIN ids |-> Message("tool", <<>>, <<>>, ids[k])]
  OBVIOUS
<1>3. tools \in Seq(Turned(r)) /\ Len(tools) = Len(ids)
  BY <1>2, ToolsGathered
<1>4. tools = ToolMessages(n, Blocks(r, n))
  BY <1>1, <1>2 DEF ToolMessages
<1>5. PICK rest \in Seq(Turned(r)) : /\ TurnMessages(r, n) = tools \o rest
                                     /\ \A k \in DOMAIN rest : rest[k].calls = <<>>
  BY <1>4, UserTurn
<1>6. PICK x \in Nat, y \in Nat : x = Len(tools) /\ y = Len(rest) /\ DOMAIN rest = 1..y
  BY <1>3
<1>7. ASSUME NEW k \in 1..x PROVE tools[k].answers = ids[k] /\ tools[k].calls = <<>>
  <2>1. k \in DOMAIN ids
    BY <1>1, <1>3, <1>6
  <2>2. tools[k] = Message("tool", <<>>, <<>>, ids[k])
    BY <1>2, <2>1
  <2>3. \A i : Message("tool", <<>>, <<>>, i).answers = i /\ Message("tool", <<>>, <<>>, i).calls = <<>>
    BY DEF Message
  <2> QED
    BY <2>2, <2>3, Zenon
<1>8. PICK turn : turn = tools \o rest
  OBVIOUS
<1>9. /\ Len(turn) = x + y
      /\ (\A k \in 1..x : turn[k] = tools[k]) /\ \A k \in 1..y : turn[x + k] = rest[k]
  <2>1. tools \in Seq(Turned(r)) /\ rest \in Seq(Turned(r))
    BY <1>3
  <2>2. /\ Len(tools \o rest) = Len(tools) + Len(rest)
        /\ \A k \in 1..Len(tools) : (tools \o rest)[k] = tools[k]
        /\ \A k \in 1..Len(rest) : (tools \o rest)[Len(tools) + k] = rest[k]
    BY <2>1, ConcatAt
  <2> QED
    BY <1>6, <1>8, <2>2
<1>10. \A k \in 1..Len(turn) : turn[k].calls = <<>>
  <2> SUFFICES ASSUME NEW k \in 1..(x + y) PROVE turn[k].calls = <<>>
    BY <1>9
  <2>1. CASE k <= x
    <3>1. k \in 1..x
      BY <2>1
    <3> QED
      BY <1>7, <1>9, <3>1
  <2>2. CASE ~(k <= x)
    <3>1. k - x \in 1..y /\ k = x + (k - x)
      BY <2>2
    <3>2. turn[k] = rest[k - x]
      BY <1>9, <3>1
    <3>3. k - x \in DOMAIN rest
      BY <1>6, <3>1
    <3> QED
      BY <1>5, <3>2, <3>3
  <2> QED
    BY <2>1, <2>2
<1>11. Len(ids) <= Len(turn)
  BY <1>3, <1>6, <1>9
<1>12. \A k \in 1..Len(ids) : turn[k].answers = ids[k]
  BY <1>3, <1>6, <1>7, <1>9
<1> QED
  BY <1>1, <1>5, <1>8, <1>10, <1>11, <1>12

\* No message is made of a turn between the n-th and the q-th.
SilentBetween(ss, n, q) == n < q /\ \A k \in (n + 1)..(q - 1) : ss[k] = <<>>

\* Nothing is added between two turns when each turn between them is silent.
LEMMA NothingBetween ==
  ASSUME NEW T, NEW ss \in Seq(Seq(T)), NEW g, FlatSteps(g, ss, T), FlatAt(g, ss),
         NEW n \in 1..Len(ss), NEW q \in 1..Len(ss), SilentBetween(ss, n, q)
  PROVE  Len(g[q - 1]) = Len(g[n])
<1>0. n < q /\ \A k \in (n + 1)..(q - 1) : ss[k] = <<>>
  BY DEF SilentBetween
<1>1. PICK N \in Nat : N = Len(ss)
  OBVIOUS
<1> DEFINE S == {d \in 0..(q - 1 - n) : Len(g[n + d]) = Len(g[n])}
<1>2. 0 \in S
  BY <1>0, <1>1
<1>3. ASSUME NEW d \in 1..(q - 1 - n), d - 1 \in S PROVE d \in S
  <2>1. n + d \in 1..N /\ n + d \in (n + 1)..(q - 1) /\ (n + d) - 1 = n + (d - 1) /\ d \in 0..(q - 1 - n)
    BY <1>1
  <2>2. Len(ss[n + d]) = 0
    BY <1>0, <2>1
  <2>3. /\ Len(g[n + d]) = Len(g[(n + d) - 1]) + Len(ss[n + d])
        /\ Len(g[(n + d) - 1]) \in Nat
    BY <1>1, <2>1 DEF FlatAt
  <2>4. Len(g[n + (d - 1)]) = Len(g[n])
    BY <1>3
  <2>5. Len(g[n + d]) = Len(g[n])
    BY <2>1, <2>2, <2>3, <2>4
  <2> QED
    BY <2>1, <2>5
<1> HIDE DEF S
<1>4. q - 1 - n \in Nat /\ q - 1 - n \in 0..(q - 1 - n) /\ n + (q - 1 - n) = q - 1
  BY <1>0, <1>1
<1>5. q - 1 - n \in S
  BY <1>2, <1>3, <1>4, Upward
<1> QED
  BY <1>4, <1>5 DEF S

\* In the messages made of the turns, a message with calls is an assistant's,
\* and the answers follow it.
LEMMA AnswersInTurns ==
  ASSUME NEW r, Asked(r), AnsweredHistory(r), NEW flat, flat = FlattenSeq(TurnList(r)),
         NEW p \in 1..Len(flat), flat[p].calls # <<>>
  PROVE  /\ p + Len(flat[p].calls) <= Len(flat) /\ Len(flat[p].calls) \in Nat
         /\ {flat[j].answers : j \in (p + 1)..(p + Len(flat[p].calls))} = Range(flat[p].calls)
<1>1. PICK T : T = Turned(r)
  OBVIOUS
<1>2. PICK ss \in Seq(Seq(T)) : ss = TurnList(r)
  BY <1>1, TurnsKept
<1>3. PICK g : FlatSteps(g, ss, T)
  BY FlatRuns
<1>4. FlatAt(g, ss)
  BY <1>3, FlatPlaces
<1>5. PICK N \in Nat : /\ N = Len(ss) /\ Turns(r) = 1..N /\ N = Len(r.messages)
                       /\ DOMAIN r.messages = 1..N
                       /\ \A n \in 1..N : /\ ss[n] = TurnMessages(r, n)
                                          /\ r.messages[n].role \in {"system", "user", "assistant"}
  BY <1>2, TurnsKept, RequestShape DEF Turns
<1>6. FlattenSeq(ss) = flat
  BY <1>2
<1>7. PICK n \in 1..N : \E j \in 1..Len(ss[n]) : p = Len(g[n - 1]) + j
  BY <1>4, <1>5, <1>6 DEF FlatAt
<1>77. PICK j \in 1..Len(ss[n]) : p = Len(g[n - 1]) + j
  BY <1>7
<1>8. flat[p] = ss[n][j]
  BY <1>4, <1>5, <1>6, <1>77 DEF FlatAt
<1>9. r.messages[n].role = "assistant"
  <2>1. CASE r.messages[n].role = "user"
    <3>1. ss[n][j].calls = <<>>
      BY <1>5, <2>1, UserAnswers
    <3> QED
      BY <1>8, <3>1
  <2>2. CASE r.messages[n].role = "system"
    <3>1. ss[n] = <<>>
      BY <1>5, <2>2, SystemTurn
    <3>2. 1..Len(ss[n]) = {}
      BY <3>1
    <3> QED
      BY <3>2
  <2> QED
    BY <1>5, <2>1, <2>2
<1>10. PICK m \in T : ss[n] = <<m>> /\ m.calls = IdsOf(n, Blocks(r, n), "tool_use")
  BY <1>1, <1>5, <1>9, AssistantTurn
<1>11. Len(ss[n]) = 1 /\ j = 1 /\ flat[p] = m
  BY <1>8, <1>10
<1>12. PICK calls \in Seq(Ids) : /\ calls = flat[p].calls /\ Range(calls) = UseIds(r, n, "tool_use")
                                 /\ calls = IdsOf(n, Blocks(r, n), "tool_use")
                                 /\ Once(r, n, "tool_use") => NoTwice(calls)
  BY <1>5, <1>10, <1>11, IdsRange
<1>13. UseIds(r, n, "tool_use") # {}
  <2>1. PICK c \in Nat : c = Len(calls) /\ DOMAIN calls = 1..c
    OBVIOUS
  <2>2. c # 0
    BY <1>12, <2>1, EmptySeq
  <2>3. 1 \in DOMAIN calls
    BY <2>1, <2>2
  <2> QED
    BY <1>12, <2>3 DEF Range
<1>14. PICK q \in (n + 1)..N :
           /\ r.messages[q].role = "user"
           /\ UseIds(r, q, "tool_result") = UseIds(r, n, "tool_use")
           /\ Once(r, q, "tool_result") /\ Once(r, n, "tool_use")
           /\ \A k \in (n + 1)..(q - 1) : r.messages[k].role = "system"
  BY <1>5, <1>9, <1>13 DEF AnsweredHistory
<1>15. q \in 1..N /\ n < q
  OBVIOUS
<1>16. PICK ids \in Seq(Ids) : /\ ids = IdsOf(q, Blocks(r, q), "tool_result")
                               /\ Range(ids) = UseIds(r, q, "tool_result")
                               /\ Once(r, q, "tool_result") => NoTwice(ids)
  BY <1>5, <1>15, IdsRange
<1>17. /\ Len(ids) <= Len(ss[q])
       /\ \A k \in 1..Len(ids) : ss[q][k].answers = ids[k]
  BY <1>5, <1>14, <1>15, <1>16, UserAnswers
<1>18. Len(ids) = Len(calls) /\ Range(ids) = Range(calls)
  BY <1>12, <1>14, <1>16, SameLength
<1>19. Len(g[q - 1]) = Len(g[n])
  <2>1. \A k \in (n + 1)..(q - 1) : ss[k] = <<>>
    <3> SUFFICES ASSUME NEW k \in (n + 1)..(q - 1) PROVE ss[k] = <<>>
      OBVIOUS
    <3>1. k \in 1..N
      BY <1>15
    <3> QED
      BY <1>5, <1>14, <3>1, SystemTurn
  <2>2. SilentBetween(ss, n, q)
    BY <1>15, <2>1 DEF SilentBetween
  <2>3. n \in 1..Len(ss) /\ q \in 1..Len(ss)
    BY <1>5, <1>15
  <2> QED
    BY <1>3, <1>4, <2>2, <2>3, NothingBetween
<1>20. Len(g[n]) = p
  BY <1>4, <1>5, <1>77, <1>11 DEF FlatAt
<1>21. /\ Len(g[q]) = p + Len(ss[q]) /\ Len(g[q]) <= Len(flat) /\ Len(ss[q]) \in Nat
       /\ \A k \in 1..Len(ss[q]) : flat[p + k] = ss[q][k]
  BY <1>4, <1>5, <1>6, <1>15, <1>19, <1>20 DEF FlatAt
<1>22. PICK L \in Nat : L = Len(ids) /\ DOMAIN ids = 1..L
  OBVIOUS
<1>23. \A k \in 1..L : flat[p + k].answers = ids[k]
  <2> SUFFICES ASSUME NEW k \in 1..L PROVE flat[p + k].answers = ids[k]
    OBVIOUS
  <2>1. k \in 1..Len(ss[q])
    BY <1>17, <1>21, <1>22
  <2> QED
    BY <1>17, <1>21, <1>22, <2>1
<1>24. p \in Nat
  BY <1>20, <1>21, <1>4, <1>5, <1>77 DEF FlatAt
<1>25. p + L <= Len(flat)
  <2>1. PICK x \in Nat : x = Len(ss[q])
    BY <1>21
  <2>2. L <= x /\ p + x <= Len(flat)
    BY <1>17, <1>21, <1>22, <2>1
  <2>3. FlattenSeq(ss) \in Seq(T)
    BY <1>2, TurnsGathered, <1>1
  <2>4. Len(flat) \in Nat
    BY <1>6, <2>3
  <2> QED
    BY <1>24, <2>2, <2>4
<1>26. {flat[i].answers : i \in (p + 1)..(p + L)} = Range(ids)
  <2>1. ASSUME NEW i \in (p + 1)..(p + L) PROVE flat[i].answers \in Range(ids)
    <3>0. i - p \in 1..L
      BY <1>24
    <3>1. i = p + (i - p)
      BY <1>24
    <3>2. flat[p + (i - p)].answers = ids[i - p]
      BY <1>23, <3>0
    <3> QED
      BY <1>22, <3>0, <3>1, <3>2 DEF Range
  <2>2. ASSUME NEW k \in 1..L PROVE \E i \in (p + 1)..(p + L) : flat[i].answers = ids[k]
    <3>1. p + k \in (p + 1)..(p + L)
      BY <1>24
    <3> QED
      BY <1>23, <3>1
  <2>3. PICK I : I = (p + 1)..(p + L)
    OBVIOUS
  <2>4. \A v \in Range(ids) : \E k \in 1..L : v = ids[k]
    BY <1>22 DEF Range
  <2>5. \A v \in Range(ids) : v \in {flat[i].answers : i \in I}
    <3> SUFFICES ASSUME NEW v \in Range(ids) PROVE v \in {flat[i].answers : i \in I}
      OBVIOUS
    <3>1. PICK k \in 1..L : v = ids[k]
      BY <2>4
    <3>2. PICK i \in I : flat[i].answers = ids[k]
      BY <2>2, <2>3
    <3>3. v = flat[i].answers
      BY <3>1, <3>2
    <3> QED
      BY <3>3
  <2>6. \A v \in {flat[i].answers : i \in I} : v \in Range(ids)
    BY <2>1, <2>3
  <2>7. {flat[i].answers : i \in I} = Range(ids)
    BY <2>5, <2>6
  <2> QED
    BY <2>3, <2>7
<1> QED
  BY <1>12, <1>18, <1>22, <1>25, <1>26

\* The answers follow the calls.
LEMMA AnswersFollowKept ==
  ASSUME NEW r, Asked(r)
  PROVE  AnswersFollow(r, OpenAIMessages(r))
<1> SUFFICES ASSUME AnsweredHistory(r) PROVE AnswersFollow(r, OpenAIMessages(r))
  BY DEF AnswersFollow
<1>1. PICK T : T = Spoken(r)
  OBVIOUS
<1>2. PICK lead \in Seq(T) : lead = LeadOf(r)
  BY <1>1, LeadKept
<1>3. PICK flat \in Seq(T) : flat = FlattenSeq(TurnList(r))
  <2>1. \A m \in Turned(r) : m \in T
    BY <1>1 DEF Turned
  <2>2. PICK f \in Seq(Turned(r)) : f = FlattenSeq(TurnList(r))
    BY TurnsGathered
  <2>3. f \in Seq(T)
    BY <2>1
  <2> QED
    BY <2>2, <2>3
<1>4. PICK out : out = lead \o flat
  OBVIOUS
<1>5. OpenAIMessages(r) = out
  BY <1>2, <1>3, <1>4, LeadKept
<1>6. PICK x \in Nat, y \in Nat : /\ x = Len(lead) /\ y = Len(flat) /\ Len(out) = x + y
                                  /\ DOMAIN out = 1..(x + y) /\ DOMAIN lead = 1..x
                                  /\ \A k \in 1..x : out[k] = lead[k]
                                  /\ \A k \in 1..y : out[x + k] = flat[k]
  <2>1. PICK x \in Nat, y \in Nat : x = Len(lead) /\ y = Len(flat) /\ DOMAIN lead = 1..x
    OBVIOUS
  <2>2. /\ Len(lead \o flat) = Len(lead) + Len(flat)
        /\ DOMAIN (lead \o flat) = 1..(Len(lead) + Len(flat))
        /\ \A k \in 1..Len(lead) : (lead \o flat)[k] = lead[k]
        /\ \A k \in 1..Len(flat) : (lead \o flat)[Len(lead) + k] = flat[k]
    BY ConcatAt
  <2> QED
    BY <1>4, <2>1, <2>2
<1>7. \A k \in 1..x : out[k].calls = <<>>
  BY <1>2, <1>6, LeadKept
<1>8. ASSUME NEW i \in 1..(x + y), out[i].calls # <<>>
      PROVE  LET last == i + Len(out[i].calls)
             IN  /\ last <= Len(out)
                 /\ {out[j].answers : j \in (i + 1)..last} = Range(out[i].calls)
  <2>1. ~(i <= x)
    <3> SUFFICES ASSUME i <= x PROVE FALSE
      OBVIOUS
    <3>1. i \in 1..x
      OBVIOUS
    <3> QED
      BY <1>7, <1>8, <3>1
  <2>2. PICK p \in 1..y : i = x + p
    <3>1. i - x \in 1..y /\ i = x + (i - x)
      BY <2>1
    <3> QED
      BY <3>1
  <2>3. out[i] = flat[p]
    BY <1>6, <2>2
  <2>4. flat[p].calls # <<>> /\ p \in 1..Len(flat)
    BY <1>6, <1>8, <2>3
  <2>5. /\ p + Len(flat[p].calls) <= Len(flat) /\ Len(flat[p].calls) \in Nat
        /\ {flat[j].answers : j \in (p + 1)..(p + Len(flat[p].calls))} = Range(flat[p].calls)
    BY <1>3, <2>4, AnswersInTurns
  <2>6. PICK L \in Nat : L = Len(flat[p].calls)
    BY <2>5
  <2>7. p + L <= y
    BY <1>6, <2>5, <2>6
  <2>8. {out[j].answers : j \in (i + 1)..(i + L)} = {flat[j].answers : j \in (p + 1)..(p + L)}
    <3>1. ASSUME NEW j \in (i + 1)..(i + L) 
          PROVE  \E k \in (p + 1)..(p + L) : out[j].answers = flat[k].answers
      <4>1. j - x \in (p + 1)..(p + L) /\ j - x \in 1..y /\ j = x + (j - x)
        BY <2>2, <2>7
      <4>2. out[j] = flat[j - x]
        BY <1>6, <4>1
      <4> QED
        BY <4>1, <4>2
    <3>2. ASSUME NEW k \in (p + 1)..(p + L)
          PROVE  \E j \in (i + 1)..(i + L) : out[j].answers = flat[k].answers
      <4>1. x + k \in (i + 1)..(i + L) /\ k \in 1..y
        BY <2>2, <2>7
      <4>2. out[x + k] = flat[k]
        BY <1>6, <4>1
      <4> QED
        BY <4>1, <4>2
    <3>3. PICK I, J : I = (i + 1)..(i + L) /\ J = (p + 1)..(p + L)
      OBVIOUS
    <3>4. {out[j].answers : j \in I} = {flat[j].answers : j \in J}
      <4>1. ASSUME NEW k \in J PROVE flat[k].answers \in {out[j].answers : j \in I}
        <5>1. PICK j \in I : out[j].answers = flat[k].answers
          BY <3>2, <3>3
        <5>2. out[j].answers \in {out[a].answers : a \in I}
          OBVIOUS
        <5> QED
          BY <5>1, <5>2
      <4>2. ASSUME NEW j \in I PROVE out[j].answers \in {flat[k].answers : k \in J}
        <5>1. PICK k \in J : out[j].answers = flat[k].answers
          BY <3>1, <3>3
        <5>2. flat[k].answers \in {flat[a].answers : a \in J}
          OBVIOUS
        <5> QED
          BY <5>1, <5>2
      <4> QED
        BY <4>1, <4>2
    <3> QED
      BY <3>3, <3>4
  <2>9. i + L <= Len(out)
    BY <1>6, <2>2, <2>7
  <2> QED
    BY <2>3, <2>5, <2>6, <2>8, <2>9
<1>9. \A i \in DOMAIN out : out[i].calls # <<>> =>
          LET last == i + Len(out[i].calls)
          IN  /\ last <= Len(out)
              /\ {out[j].answers : j \in (i + 1)..last} = Range(out[i].calls)
  BY <1>6, <1>8
<1>10. AnswersFollow(r, out)
  BY <1>9, Zenon DEF AnswersFollow
<1> QED
  BY <1>5, <1>10

-----------------------------------------------------------------------------
(* AnthropicRedirect: the conversation.                                   *)

\* A body that waits for its exchange is the translation of one that was asked.
ConversationInv ==
    /\ stage = "translate" => asked \in AskedFor
    /\ stage = "translated" => /\ asked \in AskedFor /\ ~Refused(asked)
                               /\ sent = OpenAIMessages(asked)

(***************************************************************************)
(* ConversationKept: whatever the turns of a request hold, its translation *)
(* has one leading system message with every instruction in it, all that   *)
(* was said in its order and, when each call had its answer in the next    *)
(* user message, every call followed at once by its answers                *)
(* (anthropicToOpenAIRequest of router_anthropic_translate.go).            *)
(***************************************************************************)
THEOREM ConversationTranslated == RedirectSpec => []ConversationKept
<1>1. RedirectInit => ConversationInv
  BY DEF RedirectInit, ConversationInv
<1>2. ConversationInv /\ [RedirectNext]_redirectVars => ConversationInv'
  <2> SUFFICES ASSUME ConversationInv, [RedirectNext]_redirectVars PROVE ConversationInv'
    OBVIOUS
  <2>1. CASE ServeNative
    BY <2>1 DEF ServeNative, ConversationInv
  <2>2. CASE RefuseBody
    BY <2>2 DEF RefuseBody, ConversationInv
  <2>3. CASE Translate
    BY <2>3 DEF Translate, ConversationInv
  <2>4. CASE EnterProxy
    BY <2>4 DEF EnterProxy, ConversationInv
  <2>5. CASE Exchange
    BY <2>5 DEF Exchange, ConversationInv
  <2>6. CASE UNCHANGED redirectVars
    BY <2>6 DEF redirectVars, ConversationInv
  <2> QED
    BY <2>1, <2>2, <2>3, <2>4, <2>5, <2>6 DEF RedirectNext
<1>3. ConversationInv => ConversationKept
  <2> SUFFICES ASSUME ConversationInv, stage = "translated"
               PROVE  OneSystem(asked, sent) /\ InOrder(asked, sent) /\ AnswersFollow(asked, sent)
    BY DEF ConversationKept
  <2>1. Asked(asked) /\ sent = OpenAIMessages(asked)
    BY RedirectAssumption DEF ConversationInv, Asked
  <2> QED
    BY <2>1, OneSystemKept, InOrderKept, AnswersFollowKept
<1> QED
  BY <1>1, <1>2, <1>3, PTL DEF RedirectSpec
=============================================================================
