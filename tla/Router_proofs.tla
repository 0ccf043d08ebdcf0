--------------------------- MODULE Router_proofs ---------------------------
(***************************************************************************)
(* What the router promises, for any constants of Dispatch and of          *)
(* RouterFront.  Whatever the registry comes to believe between its two    *)
(* lookups, the Anthropic route leads a mapped id where the OpenAI route   *)
(* would, a virtual model keeps to one dialect, and the catalog lists what *)
(* dispatch would serve.  Whatever route a request takes, and however      *)
(* often it is tried, no upstream sees a credential that is not its own or *)
(* a body that is not the client's, and the client and the log line are    *)
(* told what happened.  The two machines share no state: a section each,   *)
(* as in MCRouter.                                                         *)
(***************************************************************************)
EXTENDS Dispatch, RouterFront, FiniteSetTheorems, SequenceTheorems,
        NaturalsInduction, WellFoundedInduction, TLAPS

-----------------------------------------------------------------------------
(* Dispatch.                                                              *)

\* A set of numbers that is not empty has a least one.
LEMMA LeastNumber ==
  ASSUME NEW S \in SUBSET Nat, S # {}
  PROVE  \E x \in S : \A y \in S : x <= y
<1>1. PICK x \in S : \A y \in S : <<y, x>> \notin OpToRel(<, Nat)
  BY NatLessThanWellFounded, WFMin
<1>2. \A y \in S : ~(y < x)
  BY <1>1 DEF OpToRel
<1> QED
  BY <1>2

\* One pass of the loop of Only.
Kept(g, s, S, n) ==
    g = [i \in 0 .. n |-> IF i = 0 THEN <<>>
                          ELSE IF s[i] \in S THEN Append(g[i - 1], s[i]) ELSE g[i - 1]]

\* Only is the result of its loop.
LEMMA OnlyIsKept ==
  ASSUME NEW s, NEW S
  PROVE  Only(s, S) = (CHOOSE g : Kept(g, s, S, Len(s)))[Len(s)]
  BY DEF Only, Kept

\* The loop has a result, however long.
LEMMA KeptExists ==
  ASSUME NEW s, NEW S
  PROVE  \A n \in Nat : \E g : Kept(g, s, S, n)
<1> DEFINE Bad == {n \in Nat : ~ \E g : Kept(g, s, S, n)}
<1>1. SUFFICES ASSUME Bad # {} PROVE FALSE
  OBVIOUS
<1>2. PICK n \in Bad : \A m \in Bad : n <= m
  BY <1>1, LeastNumber
<1>3. CASE n = 0
  <2>1. Kept([i \in 0 .. 0 |-> <<>>], s, S, 0)
    BY DEF Kept
  <2> QED
    BY <1>2, <1>3, <2>1
<1>4. CASE n # 0
  <2>1. n - 1 \in Nat /\ n - 1 \notin Bad /\ n \in Nat
    BY <1>2, <1>4
  <2>2. PICK g : Kept(g, s, S, n - 1)
    BY <2>1
  <2> DEFINE last == IF s[n] \in S THEN Append(g[n - 1], s[n]) ELSE g[n - 1]
             h == [i \in 0 .. n |-> IF i = n THEN last ELSE g[i]]
  <2>3. \A i \in 0 .. (n - 1) : h[i] = g[i]
    BY <2>1
  <2>4. \A i \in 0 .. n : h[i] = IF i = 0 THEN <<>>
                                 ELSE IF s[i] \in S THEN Append(h[i - 1], s[i]) ELSE h[i - 1]
    <3> SUFFICES ASSUME NEW i \in 0 .. n
                 PROVE  h[i] = IF i = 0 THEN <<>>
                               ELSE IF s[i] \in S THEN Append(h[i - 1], s[i]) ELSE h[i - 1]
      OBVIOUS
    <3>1. CASE i = n
      <4>1. h[n - 1] = g[n - 1] /\ h[n] = last
        BY <2>1, <2>3
      <4> QED
        BY <3>1, <4>1, <1>4
    <3>2. CASE i # n
      <4>1. i \in 0 .. (n - 1) /\ (i # 0 => i - 1 \in 0 .. (n - 1))
        BY <2>1, <3>2
      <4> HIDE DEF h
      <4>2. h[i] = g[i] /\ (i # 0 => h[i - 1] = g[i - 1])
        BY <2>3, <4>1
      <4>3. g[i] = IF i = 0 THEN <<>>
                   ELSE IF s[i] \in S THEN Append(g[i - 1], s[i]) ELSE g[i - 1]
        BY <2>2, <4>1 DEF Kept
      <4> QED
        BY <4>2, <4>3
    <3> QED
      BY <3>1, <3>2
  <2> HIDE DEF last
  <2>5. h = [i \in 0 .. n |-> h[i]]
    OBVIOUS
  <2> HIDE DEF h
  <2>6. Kept(h, s, S, n)
    BY <2>4, <2>5 DEF Kept
  <2> QED
    BY <1>2, <2>6
<1> QED
  BY <1>3, <1>4

\* Only keeps what is in the set, and nothing else.
LEMMA OnlyKeeps ==
  ASSUME NEW T, NEW s \in Seq(T), NEW S
  PROVE  /\ Only(s, S) \in Seq(T)
         /\ Range(Only(s, S)) = Range(s) \cap S
<1> DEFINE n == Len(s)
<1>0. n \in Nat /\ DOMAIN s = 1 .. n /\ \A i \in 1 .. n : s[i] \in T
  OBVIOUS
<1>1. PICK g : Kept(g, s, S, n) /\ Only(s, S) = g[n]
  BY <1>0, KeptExists, OnlyIsKept
<1> DEFINE Right(i) == g[i] \in Seq(T) /\ Range(g[i]) = {s[j] : j \in 1 .. i} \cap S
           Bad == {i \in 0 .. n : ~Right(i)}
<1>2. \A i \in 1 .. n : /\ i - 1 \in 0 .. n
                        /\ g[i] = IF s[i] \in S THEN Append(g[i - 1], s[i]) ELSE g[i - 1]
  <2> SUFFICES ASSUME NEW i \in 1 .. n
               PROVE  /\ i - 1 \in 0 .. n
                      /\ g[i] = IF s[i] \in S THEN Append(g[i - 1], s[i]) ELSE g[i - 1]
    OBVIOUS
  <2>1. i \in 0 .. n /\ i # 0 /\ i - 1 \in 0 .. n
    BY <1>0
  <2> QED
    BY <1>1, <2>1 DEF Kept
<1>3. Right(0)
  BY <1>0, <1>1 DEF Kept, Range
<1>4. ASSUME NEW i \in 1 .. n, Right(i - 1)
      PROVE  Right(i)
  <2>0. PICK a : a = g[i - 1]
    OBVIOUS
  <2>1. {s[j] : j \in 1 .. i} = {s[j] : j \in 1 .. (i - 1)} \cup {s[i]}
    BY <1>0
  <2>2. CASE s[i] \notin S
    <3>1. g[i] = g[i - 1]
      BY <1>2, <2>2
    <3> QED
      BY <1>4, <2>1, <2>2, <3>1
  <2>3. CASE s[i] \in S
    <3>1. a \in Seq(T) /\ s[i] \in T /\ g[i] = Append(a, s[i])
      BY <1>0, <1>2, <1>4, <2>0, <2>3
    <3>2. PICK k \in Nat : k = Len(a)
      BY <3>1
    <3>3. /\ g[i] \in Seq(T) /\ DOMAIN a = 1 .. k /\ DOMAIN g[i] = 1 .. (k + 1)
          /\ g[i][k + 1] = s[i] /\ \A j \in 1 .. k : g[i][j] = a[j]
      BY <3>1, <3>2, AppendProperties
    <3>4. Range(g[i]) = Range(a) \cup {s[i]}
      <4>1. \A j \in DOMAIN g[i] : g[i][j] \in Range(a) \cup {s[i]}
        BY <3>2, <3>3 DEF Range
      <4>2. \A x \in Range(a) \cup {s[i]} : \E j \in DOMAIN g[i] : g[i][j] = x
        BY <3>2, <3>3 DEF Range
      <4> QED
        BY <4>1, <4>2 DEF Range
    <3> QED
      BY <1>4, <2>0, <2>1, <2>3, <3>3, <3>4
  <2> QED
    BY <2>2, <2>3
<1> HIDE DEF Right
<1>5. Bad = {}
  <2>1. SUFFICES ASSUME Bad # {} PROVE FALSE
    OBVIOUS
  <2>2. Bad \in SUBSET Nat
    BY <1>0
  <2> HIDE DEF Bad
  <2>3. PICK i \in Bad : \A j \in Bad : i <= j
    BY <2>1, <2>2, LeastNumber
  <2> USE DEF Bad
  <2>4. i # 0 /\ i \in 0 .. n /\ ~Right(i)
    BY <1>3, <2>3
  <2>5. i \in 1 .. n /\ i - 1 \in 0 .. n /\ i - 1 \notin Bad
    BY <1>0, <2>3, <2>4
  <2> QED
    BY <1>4, <2>4, <2>5
<1>6. Right(n)
  BY <1>0, <1>5
<1> QED
  BY <1>0, <1>1, <1>6 DEF Right, Range

-----------------------------------------------------------------------------
\* The targets of a virtual model that the configuration has a backend for.
Existing(v) == {t \in Range(Virtuals[v].targets) : Exists(t)}

\* A key of the map leads to a virtual model, and which dialect that speaks.
ForVirtual(id) == ManagerOf(ModelMap[id]) = 0 /\ VirtualOf(ModelMap[id]) # 0
AllNative(id) == LET found == Existing(VirtualOf(ModelMap[id]))
                 IN  found # {} /\ \A t \in found : SpeaksAnthropic(t)

\* The dialect a key may be served in.
Speaks(id, native) ==
    \/ native = TRUE /\ (ForVirtual(id) => AllNative(id))
    \/ native = FALSE /\ (ForVirtual(id) => ~AllNative(id))

\* The inductive invariant: whatever the registry believed meanwhile, a turn that
\* has come to translation is of a key whose targets do not all speak Anthropic,
\* and every turn so far was served in the dialect of its key.
DispatchInv ==
    /\ config \in Configs
    /\ req = [at |-> req.at, id |-> req.id, target |-> req.target, route |-> req.route,
              native |-> req.native, due |-> req.due]
    /\ req.at \in {"resolve", "translate"} =>
           req.id \in DOMAIN ModelMap /\ req.target = ModelMap[req.id]
    /\ req.at = "translate" /\ ForVirtual(req.id) => ~AllNative(req.id)
    /\ \A x \in dialects : Speaks(x.id, x.native)

\* No target of the model map is a key of it.
Unchained == \A c \in Configs : \A k \in DOMAIN c.modelMap : c.modelMap[k] \notin DOMAIN c.modelMap

\* The configuration decides, and nothing else, what leads to a virtual model.
LEMMA ConfigDecides ==
  ASSUME config' = config
  PROVE  /\ ModelMap' = ModelMap
         /\ \A id : ForVirtual(id)' = ForVirtual(id)
         /\ \A id : AllNative(id)' = AllNative(id)
         /\ \A id, native : Speaks(id, native) => Speaks(id, native)'
<1>1. /\ ModelMap' = ModelMap /\ Managers' = Managers /\ Virtuals' = Virtuals
      /\ Endpoints' = Endpoints
  BY DEF ModelMap, Managers, Virtuals, Endpoints
<1>2. /\ \A id : ManagerOf(id)' = ManagerOf(id)
      /\ \A id : VirtualOf(id)' = VirtualOf(id)
      /\ \A id : EndpointNamed(id)' = EndpointNamed(id)
  BY <1>1 DEF ManagerOf, VirtualOf, EndpointNamed, SelectInSeq
<1>3. \A v : Existing(v)' = Existing(v)
  BY <1>1, <1>2 DEF Existing, Exists
<1>4. \A t : SpeaksAnthropic(t)' = SpeaksAnthropic(t)
  BY <1>1, <1>2 DEF SpeaksAnthropic
<1> QED
  BY <1>1, <1>2, <1>3, <1>4 DEF ForVirtual, AllNative, Speaks

\* The virtual model of a name is one of the configuration's.
LEMMA VirtualIn ==
  ASSUME config \in Configs, NEW id, VirtualOf(id) # 0
  PROVE  VirtualOf(id) \in DOMAIN Virtuals
<1>1. Len(Virtuals) \in Nat /\ DOMAIN Virtuals = 1 .. Len(Virtuals)
  BY DispatchAssumption DEF Virtuals
<1>2. PICK I : I = {i \in 1 .. Len(Virtuals) : Virtuals[i].name = id}
  OBVIOUS
<1>3. VirtualOf(id) = IF I # {} THEN Min(I) ELSE 0
  BY <1>2 DEF VirtualOf, SelectInSeq
<1>4. I \in SUBSET Nat
  BY <1>1, <1>2
<1>5. ASSUME I # {} PROVE Min(I) \in I
  <2>1. \E x \in I : \A y \in I : x <= y
    BY ONLY <1>4, <1>5, LeastNumber
  <2> QED
    BY ONLY <2>1 DEF Min
<1> QED
  BY <1>1, <1>2, <1>3, <1>5

\* The candidates are the targets that exist, whatever the registry believes.
LEMMA CandidatesAre ==
  ASSUME config \in Configs, NEW v \in DOMAIN Virtuals, NEW on
  PROVE  /\ Range(CandidatesForVirtual(v, on)) = Existing(v)
         /\ CandidatesForVirtual(v, on) = <<>> <=> Existing(v) = {}
<1>1. PICK targets, T : targets = Virtuals[v].targets /\ T = Range(targets) /\ targets \in Seq(T)
  BY DispatchAssumption DEF Virtuals
<1>2. PICK fresh, stale : /\ fresh = {t \in T : Fresh(t, on)}
                          /\ stale = {t \in T : Exists(t) /\ ~Fresh(t, on)}
  OBVIOUS
<1>3. PICK a, b : a = Only(targets, fresh) /\ b = Only(targets, stale)
  OBVIOUS
<1>4. CandidatesForVirtual(v, on) = a \o b
  BY <1>1, <1>2, <1>3 DEF CandidatesForVirtual
<1>5. /\ a \in Seq(T) /\ b \in Seq(T)
      /\ Range(a) = T \cap fresh /\ Range(b) = T \cap stale
  BY <1>1, <1>3, OnlyKeeps
<1>6. Range(a) \cup Range(b) = Existing(v)
  BY <1>1, <1>2, <1>5 DEF Existing, Fresh
<1>7. Range(a \o b) = Range(a) \cup Range(b)
  <2>1. PICK k \in Nat, n \in Nat : k = Len(a) /\ n = Len(b)
    BY <1>5
  <2>2. /\ DOMAIN a = 1 .. k /\ DOMAIN b = 1 .. n /\ DOMAIN (a \o b) = 1 .. (k + n)
        /\ \A i \in 1 .. (k + n) : (a \o b)[i] = IF i <= k THEN a[i] ELSE b[i - k]
    BY <1>5, <2>1, ConcatProperties
  <2>3. \A i \in DOMAIN (a \o b) : (a \o b)[i] \in Range(a) \cup Range(b)
    BY <2>1, <2>2 DEF Range
  <2>4. ASSUME NEW x \in Range(a) \cup Range(b) PROVE \E i \in DOMAIN (a \o b) : (a \o b)[i] = x
    <3>1. CASE x \in Range(a)
      BY <2>1, <2>2, <3>1 DEF Range
    <3>2. CASE x \in Range(b)
      <4>1. PICK j \in 1 .. n : b[j] = x
        BY <2>2, <3>2 DEF Range
      <4>2. j + k \in 1 .. (k + n) /\ ~(j + k <= k) /\ (j + k) - k = j
        BY <2>1
      <4> QED
        BY <2>2, <4>1, <4>2
    <3> QED
      BY <2>4, <3>1, <3>2
  <2> QED
    BY <2>3, <2>4 DEF Range
<1>8. a \o b \in Seq(T)
  BY <1>5, ConcatProperties
<1>9. (a \o b) = <<>> <=> Range(a \o b) = {}
  <2>1. PICK c : c = a \o b
    OBVIOUS
  <2>2. c \in Seq(T)
    BY <1>8, <2>1
  <2>3. c = <<>> <=> DOMAIN c = {}
    BY <2>2
  <2> QED
    BY <2>1, <2>3 DEF Range
<1> QED
  BY <1>4, <1>6, <1>7, <1>9

\* Whoever asks, and whenever, a virtual model is native or it is not.
LEMMA NativeIsAllNative ==
  ASSUME config \in Configs, NEW id, ForVirtual(id), NEW on
  PROVE  Native(ResolveNative(ModelMap[id], on), on) <=> AllNative(id)
<1>1. PICK v, name : name = ModelMap[id] /\ v = VirtualOf(name) /\ v \in DOMAIN Virtuals
  BY VirtualIn DEF ForVirtual
<1>2. /\ Range(CandidatesForVirtual(v, on)) = Existing(v)
      /\ CandidatesForVirtual(v, on) = <<>> <=> Existing(v) = {}
  BY <1>1, CandidatesAre
<1>3. ResolveNative(name, on) = IF CandidatesForVirtual(v, on) = <<>> THEN Nowhere("unusable")
                                ELSE Route("virtual", v, name)
  BY <1>1 DEF ResolveNative, ForVirtual
<1>4. CASE Existing(v) = {}
  <2>1. ResolveNative(name, on).kind = "unusable"
    BY <1>2, <1>3, <1>4 DEF Nowhere, Route
  <2> QED
    BY <1>1, <1>4, <2>1 DEF Native, AllNative
<1>5. CASE Existing(v) # {}
  <2>1. ResolveNative(name, on).kind = "virtual" /\ ResolveNative(name, on).at = v
    BY <1>2, <1>3, <1>5 DEF Route
  <2> QED
    BY <1>1, <1>2, <1>5, <2>1 DEF Native, AllNative
<1> QED
  BY <1>4, <1>5

\* Both hold before the first request.
LEMMA DispatchInit == Init => DispatchInv /\ SameRoute
  BY DEF Init, DispatchInv, SameRoute, Idle

\* DispatchInv is inductive.
LEMMA DispatchStep ==
  ASSUME DispatchInv, [Next]_vars
  PROVE  DispatchInv'
<1> USE DEF DispatchInv
<1>1. config' = config
  BY DEF Next, vars, Probe, Messages, Upstream, CountTokens, ServeNative, Translate, NextTurn
<1>2. /\ ModelMap' = ModelMap
      /\ \A id : ForVirtual(id)' = ForVirtual(id)
      /\ \A id : AllNative(id)' = AllNative(id)
      /\ \A id, native : Speaks(id, native) => Speaks(id, native)'
  BY <1>1, ConfigDecides
<1>3. ASSUME UNCHANGED <<req, dialects>> PROVE DispatchInv'
  BY <1>1, <1>2, <1>3
<1>4. ASSUME NEW r, req' = r, r.at \notin {"resolve", "translate"}, UNCHANGED dialects,
             r = [at |-> r.at, id |-> r.id, target |-> r.target, route |-> r.route,
                  native |-> r.native, due |-> r.due]
      PROVE  DispatchInv'
  BY <1>1, <1>2, <1>4
<1>5. ASSUME NEW on, Probe(on) PROVE DispatchInv'
  BY <1>3, <1>5 DEF Probe
<1>6. ASSUME NEW id, Messages(id) PROVE DispatchInv'
  <2>1. /\ req' = [at |-> "resolve", id |-> id, target |-> ModelMap[id], route |-> Nowhere("none"),
                   native |-> FALSE, due |-> Nowhere("none")]
        /\ id \in DOMAIN ModelMap /\ dialects' = dialects
    BY <1>6 DEF Messages, Idle
  <2> QED
    BY <1>1, <1>2, <2>1
<1>7. ASSUME NEW id, NEW allowed, Upstream(id, allowed) PROVE DispatchInv'
  <2>1. PICK route : /\ req' = [Idle EXCEPT !.at = "done", !.id = id, !.route = route]
                     /\ dialects' = dialects
    BY <1>7 DEF Upstream
  <2>2. PICK none : none = Nowhere("none")
    OBVIOUS
  <2>3. req' = [at |-> "done", id |-> id, target |-> <<>>, route |-> route, native |-> FALSE,
                due |-> none]
    BY <2>1, <2>2 DEF Idle
  <2> QED
    BY <1>4, <2>1, <2>3
<1>8. ASSUME NEW id, NEW answers, CountTokens(id, answers) PROVE DispatchInv'
  <2>1. PICK native, route :
            /\ req' = [Idle EXCEPT !.at = "done", !.id = id, !.target = ModelMap[id],
                                   !.native = native, !.route = route]
            /\ dialects' = dialects
    BY <1>8 DEF CountTokens
  <2>2. PICK none, target : none = Nowhere("none") /\ target = ModelMap[id]
    OBVIOUS
  <2>3. req' = [at |-> "done", id |-> id, target |-> target, route |-> route, native |-> native,
                due |-> none]
    BY <2>1, <2>2 DEF Idle
  <2> QED
    BY <1>4, <2>1, <2>3
<1>9. ASSUME NEW route, NEW native, Serve(route, native), Speaks(req.id, native)
      PROVE  DispatchInv'
  <2>1. PICK due : req' = [req EXCEPT !.at = "done", !.route = route, !.native = native, !.due = due]
    BY <1>9 DEF Serve
  <2>2. req' = [at |-> "done", id |-> req.id, target |-> req.target, route |-> route,
                native |-> native, due |-> due]
    BY <2>1
  <2>3. \A x \in dialects' : x \in dialects \/ (x.id = req.id /\ x.native = native)
    BY <1>9 DEF Serve
  <2>4. \A x \in dialects' : Speaks(x.id, x.native)
    BY <1>9, <2>3
  <2> QED
    BY <1>1, <1>2, <2>2, <2>4
<1>10. ASSUME ServeNative PROVE DispatchInv'
  <2>1. PICK route : route = ResolveNative(req.target, online)
    OBVIOUS
  <2>2. /\ req.at = "resolve" /\ req.target = ModelMap[req.id] /\ req.id \in DOMAIN ModelMap
        /\ ForVirtual(req.id) => (Native(route, online) <=> AllNative(req.id))
    BY <1>10, <2>1, NativeIsAllNative DEF ServeNative
  <2>3. CASE Native(route, online)
    BY <1>9, <1>10, <2>1, <2>2, <2>3 DEF ServeNative, Speaks
  <2>4. CASE ~Native(route, online)
    <3>1. req' = [req EXCEPT !.at = "translate"] /\ dialects' = dialects
      BY <1>10, <2>1, <2>4 DEF ServeNative
    <3>2. req' = [at |-> "translate", id |-> req.id, target |-> req.target, route |-> req.route,
                  native |-> req.native, due |-> req.due]
      BY <3>1
    <3> QED
      BY <1>1, <1>2, <2>2, <2>4, <3>1, <3>2
  <2> QED
    BY <2>3, <2>4
<1>11. ASSUME Translate PROVE DispatchInv'
  <2>1. Serve(HandleProxy(req.target, online), FALSE) /\ req.at = "translate"
    BY <1>11 DEF Translate
  <2> QED
    BY <1>9, <2>1 DEF Speaks
<1>12. ASSUME NextTurn PROVE DispatchInv'
  BY <1>4, <1>12 DEF NextTurn, Idle
<1>13. ASSUME UNCHANGED vars PROVE DispatchInv'
  BY <1>3, <1>13 DEF vars
<1> QED
  BY <1>5, <1>6, <1>7, <1>8, <1>10, <1>11, <1>12, <1>13 DEF Next

\* Each id of the map is served in one dialect.
LEMMA InOneDialect == DispatchInv => VirtualKeepsDialect
<1> SUFFICES ASSUME DispatchInv, NEW x \in dialects, NEW y \in dialects, x.id = y.id,
                    ForVirtual(x.id)
             PROVE  x.native = y.native
  BY DEF VirtualKeepsDialect, ForVirtual
<1>1. Speaks(x.id, x.native) /\ Speaks(x.id, y.native)
  BY DEF DispatchInv
<1> QED
  BY <1>1 DEF Speaks

\* Both resolvers look the map up once, so they agree.
LEMMA RouteStep ==
  ASSUME Unchained, DispatchInv, SameRoute, [Next]_vars
  PROVE  SameRoute'
<1>1. ASSUME NEW route, NEW native, Serve(route, native), route = HandleProxy(req.id, online)
      PROVE  SameRoute'
  <2>1. req' = [req EXCEPT !.at = "done", !.route = route, !.native = native,
                           !.due = HandleProxy(req.id, online)]
    BY <1>1 DEF Serve
  <2>2. req'.route = route /\ req'.due = HandleProxy(req.id, online)
    BY <2>1 DEF DispatchInv
  <2> QED
    BY <1>1, <2>2 DEF SameRoute
<1>2. req.at \in {"resolve", "translate"} =>
          /\ HandleProxy(req.id, online) = ResolveName(req.target, online)
          /\ HandleProxy(req.target, online) = ResolveName(req.target, online)
          /\ ResolveNative(req.target, online) = ResolveName(req.target, online)
  <2> SUFFICES ASSUME req.at \in {"resolve", "translate"}
               PROVE  /\ HandleProxy(req.id, online) = ResolveName(req.target, online)
                      /\ HandleProxy(req.target, online) = ResolveName(req.target, online)
                      /\ ResolveNative(req.target, online) = ResolveName(req.target, online)
    OBVIOUS
  <2>1. /\ req.id \in DOMAIN ModelMap /\ req.target = ModelMap[req.id]
        /\ req.target \notin DOMAIN ModelMap
    BY DEF DispatchInv, Unchained, ModelMap
  <2>2. ResolveNative(req.target, online) = ResolveName(req.target, online)
    BY DEF ResolveNative, ResolveName
  <2> QED
    BY <2>1, <2>2 DEF HandleProxy
<1>3. CASE ServeNative
  <2>1. CASE Native(ResolveNative(req.target, online), online)
    BY <1>1, <1>2, <1>3, <2>1 DEF ServeNative
  <2>2. CASE ~Native(ResolveNative(req.target, online), online)
    <3>1. req' = [req EXCEPT !.at = "translate"]
      BY <1>3, <2>2 DEF ServeNative
    <3>2. req'.at = "translate"
      BY <3>1 DEF DispatchInv
    <3> QED
      BY <3>2 DEF SameRoute
  <2> QED
    BY <2>1, <2>2
<1>4. CASE Translate
  BY <1>1, <1>2, <1>4 DEF Translate
<1>5. CASE \E on \in SUBSET DOMAIN Endpoints : Probe(on)
  BY <1>5 DEF Probe, SameRoute
<1>6. CASE \/ NextTurn
           \/ \E id \in Ids : Messages(id)
           \/ \E id \in Ids, allowed \in BOOLEAN : Upstream(id, allowed)
           \/ \E id \in Ids, answers \in BOOLEAN : CountTokens(id, answers)
  <2>1. PICK none : none = Nowhere("none") /\ Idle.due = none
    BY DEF Idle
  <2>2. ASSUME NextTurn PROVE req'.due = none
    <3>1. req' = Idle
      BY <2>2 DEF NextTurn
    <3> QED
      BY <2>1, <3>1
  <2>3. ASSUME NEW id \in Ids, Messages(id) PROVE req'.due = none
    BY <2>1, <2>3 DEF Messages, Idle
  <2>4. ASSUME NEW id \in Ids, NEW allowed \in BOOLEAN, Upstream(id, allowed) PROVE req'.due = none
    BY <2>1, <2>4 DEF Upstream, Idle
  <2>5. ASSUME NEW id \in Ids, NEW answers \in BOOLEAN, CountTokens(id, answers)
        PROVE  req'.due = none
    BY <2>1, <2>5 DEF CountTokens, Idle
  <2>6. req'.due = none
    BY <1>6, <2>2, <2>3, <2>4, <2>5
  <2> QED
    BY <2>1, <2>6 DEF SameRoute, Nowhere, Route
<1>7. CASE UNCHANGED vars
  BY <1>7 DEF vars, SameRoute
<1> QED
  BY <1>3, <1>4, <1>5, <1>6, <1>7 DEF Next

\* An id of the map that leads to a virtual model is served in one dialect for
\* ever, whatever the registry believes (resolveAnthropicNative).
THEOREM DialectKept == Spec => []VirtualKeepsDialect
<1> QED
  BY DispatchInit, DispatchStep, InOneDialect, PTL DEF Spec

\* Where no target of the map is a key of it, the Anthropic route serves a mapped
\* id from where the OpenAI route would, and in one dialect.
THEOREM RoutesAgree ==
  ASSUME Unchained
  PROVE  Spec => []RoutedAlike
<1>1. DispatchInv /\ SameRoute => RoutedAlike
  BY InOneDialect DEF RoutedAlike
<1> QED
  BY <1>1, DispatchInit, DispatchStep, RouteStep, PTL DEF Spec

-----------------------------------------------------------------------------
(* The catalog.  Each section of dispatch is a lookup, and each section of *)
(* the catalog the rows of that lookup: what is shown for a name is the    *)
(* row of what the lookups find for it, in dispatch's order.               *)

\* No endpoint has a "/" in its name, or advertises a model without one.
Unslashed ==
    \A c \in Configs : \A e \in DOMAIN c.endpoints :
        Len(c.endpoints[e].name) = 1 /\ <<>> \notin Range(c.endpoints[e].models)

\* Each endpoint has its own name.
NamedApart ==
    \A c \in Configs : \A e, f \in DOMAIN c.endpoints : c.endpoints[e].name = c.endpoints[f].name => e = f

\* No key of the map is the id of something else.
Unshadowed ==
    \A c \in Configs : \A key \in DOMAIN c.modelMap :
        /\ \A m \in DOMAIN c.managers : key \notin Range(c.managers[m].aliases)
        /\ \A v \in DOMAIN c.virtuals : key # c.virtuals[v].name
        /\ \A e \in DOMAIN c.endpoints : \A k \in Range(c.endpoints[e].models) : key # c.endpoints[e].name \o k

Catalogued == config \in Configs /\ online \subseteq DOMAIN Endpoints

\* Whether a virtual model has a target that is fresh.
Usable(v, on) == \E t \in Range(Virtuals[v].targets) : Fresh(t, on)

\* The row a name should have.
RowOf(name, on) ==
    IF ManagerOf(name) # 0 THEN Row(name, Route("managed", ManagerOf(name), name), TRUE)
    ELSE IF VirtualOf(name) # 0
         THEN Row(name, Route("virtual", VirtualOf(name), name), Usable(VirtualOf(name), on))
    ELSE Row(name, Route("endpoint", LookupModel(name, on), Tail(name)), TRUE)

\* The first of a section: the least number of a set, or none.
LEMMA FirstIs ==
  ASSUME NEW n \in Nat, NEW I \in SUBSET (1 .. n), NEW f, f = IF I # {} THEN Min(I) ELSE 0
  PROVE  /\ f \in Nat
         /\ f # 0 => f \in I
         /\ \A i \in I : f # 0 /\ f <= i
<1>1. CASE I = {}
  BY <1>1
<1>2. CASE I # {}
  <2>1. \E x \in I : \A y \in I : x <= y
    <3>1. I \in SUBSET Nat
      OBVIOUS
    <3> QED
      BY <1>2, <3>1, LeastNumber
  <2>2. Min(I) \in I /\ \A y \in I : Min(I) <= y
    BY <2>1 DEF Min
  <2>3. f = Min(I)
    BY <1>2
  <2>4. f \in I /\ \A y \in I : f <= y
    BY <2>2, <2>3
  <2> QED
    BY <2>4
<1> QED
  BY <1>1, <1>2

\* The first manager with an alias.
LEMMA ManagerFirst ==
  ASSUME config \in Configs, NEW id
  PROVE  /\ \A m \in DOMAIN Managers : id \in Range(Managers[m].aliases) =>
                ManagerOf(id) # 0 /\ ManagerOf(id) <= m
         /\ ManagerOf(id) # 0 => ManagerOf(id) \in DOMAIN Managers /\ id \in Range(Managers[ManagerOf(id)].aliases)
         /\ ManagerOf(id) \in Nat /\ DOMAIN Managers \subseteq Nat \ {0}
<1>1. Len(Managers) \in Nat /\ DOMAIN Managers = 1 .. Len(Managers)
  BY DispatchAssumption DEF Managers
<1>a. PICK n \in Nat : n = Len(Managers)
  BY <1>1
<1>2. PICK I \in SUBSET (1 .. n) : I = {i \in 1 .. n : id \in Range(Managers[i].aliases)}
  OBVIOUS
<1>3. ManagerOf(id) = IF I # {} THEN Min(I) ELSE 0
  BY <1>a, <1>2 DEF ManagerOf, SelectInSeq
<1>4. PICK f : f = ManagerOf(id)
  OBVIOUS
<1>5. f \in Nat /\ (f # 0 => f \in I) /\ \A i \in I : f # 0 /\ f <= i
  BY <1>3, <1>4, FirstIs
<1>6. DOMAIN Managers \subseteq Nat \ {0}
  BY <1>1
<1>7. DOMAIN Managers = 1 .. n
  BY <1>1, <1>a
<1>8. \A i \in DOMAIN Managers : i \in I <=> (id \in Range(Managers[i].aliases))
  BY <1>2, <1>7
<1>9. f # 0 => f \in DOMAIN Managers
  BY <1>5, <1>7
<1> QED
  BY <1>4, <1>5, <1>6, <1>8, <1>9

\* The first virtual model of a name.
LEMMA VirtualFirst ==
  ASSUME config \in Configs, NEW id
  PROVE  /\ \A v \in DOMAIN Virtuals : Virtuals[v].name = id => VirtualOf(id) # 0 /\ VirtualOf(id) <= v
         /\ VirtualOf(id) # 0 => VirtualOf(id) \in DOMAIN Virtuals /\ Virtuals[VirtualOf(id)].name = id
         /\ VirtualOf(id) \in Nat /\ DOMAIN Virtuals \subseteq Nat \ {0}
<1>1. Len(Virtuals) \in Nat /\ DOMAIN Virtuals = 1 .. Len(Virtuals)
  BY DispatchAssumption DEF Virtuals
<1>a. PICK n \in Nat : n = Len(Virtuals)
  BY <1>1
<1>2. PICK I \in SUBSET (1 .. n) : I = {i \in 1 .. n : Virtuals[i].name = id}
  OBVIOUS
<1>3. VirtualOf(id) = IF I # {} THEN Min(I) ELSE 0
  BY <1>a, <1>2 DEF VirtualOf, SelectInSeq
<1>4. PICK f : f = VirtualOf(id)
  OBVIOUS
<1>5. f \in Nat /\ (f # 0 => f \in I) /\ \A i \in I : f # 0 /\ f <= i
  BY <1>3, <1>4, FirstIs
<1>6. DOMAIN Virtuals \subseteq Nat \ {0}
  BY <1>1
<1>7. DOMAIN Virtuals = 1 .. n
  BY <1>1, <1>a
<1>8. \A i \in DOMAIN Virtuals : i \in I <=> (Virtuals[i].name = id)
  BY <1>2, <1>7
<1>9. f # 0 => f \in DOMAIN Virtuals
  BY <1>5, <1>7
<1> QED
  BY <1>4, <1>5, <1>6, <1>8, <1>9

\* The endpoint of a name.
LEMMA EndpointFirst ==
  ASSUME config \in Configs, NEW name
  PROVE  /\ \A e \in DOMAIN Endpoints : Endpoints[e].name = name => EndpointNamed(name) # 0
         /\ EndpointNamed(name) # 0 => EndpointNamed(name) \in DOMAIN Endpoints /\ Endpoints[EndpointNamed(name)].name = name
         /\ DOMAIN Endpoints \subseteq Nat \ {0}
<1>1. Len(Endpoints) \in Nat /\ DOMAIN Endpoints = 1 .. Len(Endpoints)
  BY DispatchAssumption DEF Endpoints
<1>a. PICK n \in Nat : n = Len(Endpoints)
  BY <1>1
<1>2. PICK I \in SUBSET (1 .. n) : I = {i \in 1 .. n : Endpoints[i].name = name}
  OBVIOUS
<1>3. EndpointNamed(name) = IF I # {} THEN Min(I) ELSE 0
  BY <1>a, <1>2 DEF EndpointNamed, SelectInSeq
<1>4. PICK f : f = EndpointNamed(name)
  OBVIOUS
<1>5. f \in Nat /\ (f # 0 => f \in I) /\ \A i \in I : f # 0 /\ f <= i
  BY <1>3, <1>4, FirstIs
<1>6. DOMAIN Endpoints \subseteq Nat \ {0}
  BY <1>1
<1>7. DOMAIN Endpoints = 1 .. n
  BY <1>1, <1>a
<1>8. \A i \in DOMAIN Endpoints : i \in I <=> (Endpoints[i].name = name)
  BY <1>2, <1>7
<1>9. f # 0 => f \in DOMAIN Endpoints
  BY <1>5, <1>7
<1> QED
  BY <1>4, <1>5, <1>6, <1>8, <1>9

\* A name of one part, before a model of at least one.
LEMMA NameAndModel ==
  ASSUME NEW S, NEW name \in Seq(S), Len(name) = 1, NEW T, NEW k \in Seq(T), k # <<>>
  PROVE  /\ name \o k \in Seq(S \cup T) /\ Len(name \o k) >= 2
         /\ <<Head(name \o k)>> = name /\ Tail(name \o k) = k
<1>1. PICK U : U = S \cup T
  OBVIOUS
<1>2. name \in Seq(U) /\ k \in Seq(U)
  <2>1. S \subseteq U /\ T \subseteq U
    BY <1>1
  <2> QED
    BY <2>1, SeqMonotonic
<1>3. PICK n \in Nat : n = Len(k) /\ n >= 1
  <2>1. Len(k) \in Nat /\ Len(k) # 0
    BY <1>2, EmptySeq
  <2> QED
    BY <2>1
<1>4. PICK id : id = name \o k
  OBVIOUS
<1>5. /\ id \in Seq(U) /\ Len(id) = 1 + n
      /\ \A i \in 1 .. (1 + n) : id[i] = IF i <= 1 THEN name[i] ELSE k[i - 1]
  BY <1>2, <1>3, <1>4, ConcatProperties
<1>6. id[1] = name[1] /\ \A i \in 1 .. n : id[i + 1] = k[i]
  <2>1. 1 \in 1 .. (1 + n) /\ 1 <= 1
    OBVIOUS
  <2>2. \A i \in 1 .. n : i + 1 \in 1 .. (1 + n) /\ ~(i + 1 <= 1) /\ (i + 1) - 1 = i
    OBVIOUS
  <2> QED
    BY <1>5, <2>1, <2>2
<1>7. <<Head(id)>> = name
  <2>1. Head(id) = name[1]
    BY <1>5, <1>6
  <2>2. PICK h : h = <<name[1]>>
    OBVIOUS
  <2>a. \A i \in 1 .. Len(name) : name[i] \in U
    BY <1>2, ElementOfSeq
  <2>3. name[1] \in U
    BY <2>a
  <2>4. h \in Seq(U) /\ Len(h) = 1 /\ h[1] = name[1]
    BY <2>2, <2>3
  <2>5. \A i \in 1 .. Len(h) : h[i] = name[i]
    BY <2>4
  <2>6. h = name
    BY <1>2, <2>4, <2>5, SeqEqual
  <2> QED
    BY <2>1, <2>2, <2>6
<1>8. Tail(id) = k
  <2>1. PICK t : t = Tail(id)
    OBVIOUS
  <2>2. id # <<>>
    BY <1>5, EmptySeq
  <2>3. t \in Seq(U) /\ Len(t) = n /\ \A i \in 1 .. n : t[i] = id[i + 1]
    BY <1>5, <2>1, <2>2, HeadTailProperties
  <2>4. \A i \in 1 .. Len(t) : t[i] = k[i]
    BY <2>3, <1>6
  <2> QED
    BY <1>2, <1>3, <2>1, <2>3, <2>4, SeqEqual
<1>9. Len(id) >= 2
  BY <1>3, <1>5
<1> QED
  BY <1>1, <1>4, <1>5, <1>7, <1>8, <1>9

\* The parts of a sequence that is not empty.
LEMMA PartsOfName ==
  ASSUME NEW S, NEW id \in Seq(S), id # <<>>
  PROVE  <<Head(id)>> \o Tail(id) = id
<1>1. PICK h, t : h = <<Head(id)>> /\ t = Tail(id)
  OBVIOUS
<1>2. PICK n \in Nat : Len(id) = n /\ n >= 1
  <2>1. Len(id) \in Nat /\ Len(id) # 0
    BY EmptySeq
  <2> QED
    BY <2>1
<1>3. Head(id) \in S /\ Head(id) = id[1]
  BY <1>2
<1>4. h \in Seq(S) /\ Len(h) = 1 /\ h[1] = id[1]
  BY <1>1, <1>3
<1>5. t \in Seq(S) /\ Len(t) = n - 1 /\ \A i \in 1 .. (n - 1) : t[i] = id[i + 1]
  BY <1>1, <1>2, HeadTailProperties
<1>6. PICK c : c = h \o t
  OBVIOUS
<1>8. Len(h) + Len(t) = n
  BY <1>4, <1>5
<1>7. c \in Seq(S) /\ Len(c) = n /\ \A i \in 1 .. n : c[i] = IF i <= 1 THEN h[i] ELSE t[i - 1]
  <2>1. /\ c \in Seq(S) /\ Len(c) = Len(h) + Len(t)
        /\ \A i \in 1 .. Len(h) + Len(t) : c[i] = IF i <= Len(h) THEN h[i] ELSE t[i - Len(h)]
    <3>1. h \in Seq(S) /\ t \in Seq(S)
      BY <1>4, <1>5
    <3> QED
      BY <3>1, <1>6, ConcatProperties
  <2> QED
    BY <2>1, <1>4, <1>8
<1>9. ASSUME NEW i \in 1 .. n PROVE c[i] = id[i]
  <2>1. CASE i = 1
    BY <2>1, <1>4, <1>7
  <2>2. CASE i # 1
    <3>1. i - 1 \in 1 .. (n - 1) /\ ~(i <= 1) /\ (i - 1) + 1 = i
      BY <2>2
    <3>2. t[i - 1] = id[(i - 1) + 1]
      BY <3>1, <1>5
    <3> QED
      BY <3>1, <3>2, <1>7
  <2> QED
    BY <2>1, <2>2
<1>10. c = id
  BY <1>2, <1>7, <1>9, SeqEqual
<1> QED
  BY <1>1, <1>6, <1>10

\* The model of an online endpoint is found under its row's id.
LEMMA LookupFinds ==
  ASSUME Unslashed, NamedApart, config \in Configs, NEW on \in SUBSET DOMAIN Endpoints,
         NEW e \in on, NEW k \in Range(Endpoints[e].models)
  PROVE  /\ LookupModel(Endpoints[e].name \o k, on) = e /\ e # 0
         /\ Tail(Endpoints[e].name \o k) = k
<1> DEFINE name == Endpoints[e].name
           id == name \o k
<1>1. /\ name \in Seq(Range(name)) /\ Len(name) = 1 /\ k \in Seq(Range(k)) /\ k # <<>> /\ e \in DOMAIN Endpoints
  BY DispatchAssumption DEF Endpoints, Unslashed
<1>2. e # 0 /\ EndpointNamed(name) = e
  BY <1>1, EndpointFirst DEF NamedApart, Endpoints
<1> HIDE DEF name
<1>3. Len(id) >= 2 /\ <<Head(id)>> = name /\ Tail(id) = k /\ Len(id) \in Nat
  <2>1. id \in Seq(Range(name) \cup Range(k)) /\ Len(id) >= 2 /\ <<Head(id)>> = name /\ Tail(id) = k
    BY <1>1, NameAndModel
  <2> QED
    BY <2>1
<1> HIDE DEF id
<1>4. LookupModel(id, on) = e
  BY <1>2, <1>3 DEF LookupModel
<1> QED
  BY <1>2, <1>3, <1>4 DEF id, name

\* What the lookup finds is online, and the name is its own.
LEMMA LookupFound ==
  ASSUME config \in Configs, NEW on \in SUBSET DOMAIN Endpoints, NEW S, NEW id \in Seq(S), LookupModel(id, on) # 0
  PROVE  /\ LookupModel(id, on) \in on
         /\ Endpoints[LookupModel(id, on)].name \o Tail(id) = id
<1>1. Len(id) \in Nat /\ ~(Len(id) < 2)
  BY DEF LookupModel
<1>2. /\ LookupModel(id, on) = EndpointNamed(<<Head(id)>>) /\ LookupModel(id, on) \in on
  BY <1>1 DEF LookupModel
<1>3. Endpoints[LookupModel(id, on)].name = <<Head(id)>>
  BY <1>2, EndpointFirst
<1>4. id # <<>>
  BY <1>1, EmptySeq
<1> QED
  BY <1>2, <1>3, <1>4, PartsOfName

\* Rows of the sections: their fields.
LEMMA RowsOfSections ==
  ASSUME NEW on
  PROVE  /\ \A r \in ManagedRows : \E m \in DOMAIN Managers : \E alias \in Range(Managers[m].aliases) :
                r = Row(alias, Route("managed", m, alias), TRUE) /\ r.id = alias /\ r.route.at = m
         /\ \A r \in VirtualRows(on) : \E v \in DOMAIN Virtuals :
                /\ r = Row(Virtuals[v].name, Route("virtual", v, Virtuals[v].name), Usable(v, on))
                /\ r.id = Virtuals[v].name /\ r.route.at = v
         /\ \A r \in EndpointRows(on) : \E e \in on : \E k \in Range(Endpoints[e].models) :
                /\ r = Row(Endpoints[e].name \o k, Route("endpoint", e, k), TRUE)
                /\ r.id = Endpoints[e].name \o k /\ r.route.at = e
  BY DEF ManagedRows, VirtualRows, EndpointRows, Row, Route, Usable

\* A managed alias has a row of the first manager with it.
LEMMA ManagedHasRow ==
  ASSUME config \in Configs, NEW id, ManagerOf(id) # 0
  PROVE  \E r \in ManagedRows : r = Row(id, Route("managed", ManagerOf(id), id), TRUE) /\ r.id = id /\ r.route.at = ManagerOf(id)
<1>1. PICK m : m = ManagerOf(id) /\ m \in DOMAIN Managers /\ id \in Range(Managers[m].aliases)
  BY ManagerFirst
<1>2. PICK r : r = Row(id, Route("managed", m, id), TRUE)
  OBVIOUS
<1>3. r \in ManagedRows
  <2>1. r \in {Row(alias, Route("managed", m, alias), TRUE) : alias \in Range(Managers[m].aliases)}
    BY <1>1, <1>2
  <2>2. m \in DOMAIN Managers
    BY <1>1
  <2> QED
    BY <2>1, <2>2 DEF ManagedRows
<1>4. r.id = id /\ r.route.at = m
  BY <1>2 DEF Row, Route
<1> QED
  BY <1>1, <1>2, <1>3, <1>4

\* A virtual name has a row of the first virtual model with it.
LEMMA VirtualHasRow ==
  ASSUME config \in Configs, NEW id, NEW on, VirtualOf(id) # 0
  PROVE  \E r \in VirtualRows(on) :
             /\ r = Row(id, Route("virtual", VirtualOf(id), id), Usable(VirtualOf(id), on))
             /\ r.id = id /\ r.route.at = VirtualOf(id)
<1>1. PICK v : v = VirtualOf(id) /\ v \in DOMAIN Virtuals /\ Virtuals[v].name = id
  BY VirtualFirst
<1>2. PICK r : r = Row(id, Route("virtual", v, id), Usable(v, on))
  OBVIOUS
<1>3. r \in VirtualRows(on)
  BY <1>1, <1>2 DEF VirtualRows, Usable
<1>4. r.id = id /\ r.route.at = v
  BY <1>2 DEF Row, Route
<1> QED
  BY <1>1, <1>2, <1>3, <1>4

\* The managed rows that stay.
Managed == Listed({}, ManagedRows)
Virtually(on) == Listed(Managed, VirtualRows(on))

\* A name has a managed row when it is an alias, and it is of the first manager.
LEMMA ManagedListed ==
  ASSUME config \in Configs
  PROVE  /\ \A r \in Managed : ManagerOf(r.id) # 0 /\ r = RowOf(r.id, online)
         /\ \A id : ManagerOf(id) # 0 => RowOf(id, online) \in Managed /\ RowOf(id, online).id = id
<1>1. ASSUME NEW r \in Managed PROVE ManagerOf(r.id) # 0 /\ r = RowOf(r.id, online)
  <2>1. r \in ManagedRows /\ \A s \in ManagedRows : s.id = r.id => r.route.at <= s.route.at
    BY DEF Managed, Listed
  <2>a. PICK m \in DOMAIN Managers : \E alias \in Range(Managers[m].aliases) :
            r = Row(alias, Route("managed", m, alias), TRUE) /\ r.id = alias /\ r.route.at = m
    BY <2>1, RowsOfSections
  <2>2. PICK alias \in Range(Managers[m].aliases) :
            r = Row(alias, Route("managed", m, alias), TRUE) /\ r.id = alias /\ r.route.at = m
    BY <2>a
  <2>3. ManagerOf(alias) # 0 /\ ManagerOf(alias) <= m /\ ManagerOf(alias) \in Nat /\ m \in Nat
    BY ManagerFirst
  <2>4. m <= ManagerOf(alias)
    BY <2>1, <2>2, <2>3, ManagedHasRow
  <2>5. m = ManagerOf(alias)
    BY <2>3, <2>4
  <2> QED
    BY <2>2, <2>3, <2>5 DEF RowOf
<1>2. ASSUME NEW id, ManagerOf(id) # 0 PROVE RowOf(id, online) \in Managed /\ RowOf(id, online).id = id
  <2>1. PICK r \in ManagedRows : r = Row(id, Route("managed", ManagerOf(id), id), TRUE) /\ r.id = id /\ r.route.at = ManagerOf(id)
    BY <1>2, ManagedHasRow
  <2>2. ASSUME NEW s \in ManagedRows, s.id = r.id PROVE r.route.at <= s.route.at
    <3>a. PICK m \in DOMAIN Managers : \E alias \in Range(Managers[m].aliases) : s.id = alias /\ s.route.at = m
      BY <2>2, RowsOfSections
    <3>1. PICK alias \in Range(Managers[m].aliases) : s.id = alias /\ s.route.at = m
      BY <3>a
    <3> QED
      BY <2>1, <2>2, <3>1, ManagerFirst
  <2>3. r \in Managed
    BY <2>2 DEF Managed, Listed
  <2>4. RowOf(id, online) = r
    BY <1>2, <2>1 DEF RowOf
  <2> QED
    BY <2>1, <2>3, <2>4
<1> QED
  BY <1>1, <1>2

\* A virtual name has a row unless it is an alias, of the first virtual model.
LEMMA VirtuallyListed ==
  ASSUME config \in Configs
  PROVE  /\ \A r \in Virtually(online) : (ManagerOf(r.id) # 0 \/ VirtualOf(r.id) # 0) /\ r = RowOf(r.id, online)
         /\ \A id : ManagerOf(id) # 0 \/ VirtualOf(id) # 0 => RowOf(id, online) \in Virtually(online) /\ RowOf(id, online).id = id
<1>1. ASSUME NEW r \in Virtually(online)
      PROVE  (ManagerOf(r.id) # 0 \/ VirtualOf(r.id) # 0) /\ r = RowOf(r.id, online)
  <2>1. CASE r \in Managed
    BY <2>1, ManagedListed
  <2>2. CASE r \notin Managed
    <3>1. /\ r \in VirtualRows(online) /\ \A s \in VirtualRows(online) : s.id = r.id => r.route.at <= s.route.at
          /\ \A s \in Managed : s.id # r.id
      BY <2>2 DEF Virtually, Listed
    <3>2. PICK v \in DOMAIN Virtuals :
              /\ r = Row(Virtuals[v].name, Route("virtual", v, Virtuals[v].name), Usable(v, online))
              /\ r.id = Virtuals[v].name /\ r.route.at = v
      BY <3>1, RowsOfSections
    <3> DEFINE id == Virtuals[v].name
    <3>3. ManagerOf(id) = 0
      BY <3>1, <3>2, ManagedListed
    <3>4. VirtualOf(id) # 0 /\ VirtualOf(id) <= v /\ VirtualOf(id) \in Nat /\ v \in Nat
      BY VirtualFirst
    <3>5. v <= VirtualOf(id)
      BY <3>1, <3>2, <3>4, VirtualHasRow
    <3>6. v = VirtualOf(id)
      BY <3>4, <3>5
    <3> QED
      BY <3>2, <3>3, <3>4, <3>6 DEF RowOf
  <2> QED
    BY <2>1, <2>2
<1>2. ASSUME NEW id, ManagerOf(id) # 0 \/ VirtualOf(id) # 0
      PROVE  RowOf(id, online) \in Virtually(online) /\ RowOf(id, online).id = id
  <2>1. CASE ManagerOf(id) # 0
    BY <2>1, ManagedListed DEF Virtually, Listed
  <2>2. CASE ManagerOf(id) = 0
    <3>1. PICK r \in VirtualRows(online) :
              /\ r = Row(id, Route("virtual", VirtualOf(id), id), Usable(VirtualOf(id), online))
              /\ r.id = id /\ r.route.at = VirtualOf(id)
      BY <1>2, <2>2, VirtualHasRow
    <3>2. ASSUME NEW s \in VirtualRows(online), s.id = r.id PROVE r.route.at <= s.route.at
      <4>1. PICK v \in DOMAIN Virtuals : s.id = Virtuals[v].name /\ s.route.at = v
        BY <3>2, RowsOfSections
      <4> QED
        BY <3>1, <3>2, <4>1, VirtualFirst
    <3>3. \A s \in Managed : s.id # r.id
      BY <2>2, <3>1, ManagedListed
    <3>4. r \in Virtually(online)
      BY <3>2, <3>3 DEF Virtually, Listed
    <3>5. RowOf(id, online) = r
      BY <1>2, <2>2, <3>1 DEF RowOf
    <3> QED
      BY <3>1, <3>4, <3>5
  <2> QED
    BY <2>1, <2>2
<1> QED
  BY <1>1, <1>2

\* Every row is that of what dispatch's lookups find for its id.
LEMMA RowsFound ==
  ASSUME Unslashed, NamedApart, Catalogued, NEW r \in Rows(online)
  PROVE  /\ r = RowOf(r.id, online)
         /\ ManagerOf(r.id) # 0 \/ VirtualOf(r.id) # 0 \/ LookupModel(r.id, online) # 0
<1>1. Rows(online) = Listed(Virtually(online), EndpointRows(online))
  BY DEF Rows, Virtually, Managed
<1>2. CASE r \in Virtually(online)
  BY <1>2, VirtuallyListed DEF Catalogued
<1>3. CASE r \notin Virtually(online)
  <2>1. r \in EndpointRows(online) /\ \A s \in Virtually(online) : s.id # r.id
    BY <1>1, <1>3 DEF Listed
  <2>a. PICK e \in online : \E k \in Range(Endpoints[e].models) :
            /\ r = Row(Endpoints[e].name \o k, Route("endpoint", e, k), TRUE)
            /\ r.id = Endpoints[e].name \o k /\ r.route.at = e
    BY <2>1, RowsOfSections
  <2>2. PICK k \in Range(Endpoints[e].models) :
            /\ r = Row(Endpoints[e].name \o k, Route("endpoint", e, k), TRUE)
            /\ r.id = Endpoints[e].name \o k /\ r.route.at = e
    BY <2>a
  <2>3. ManagerOf(r.id) = 0 /\ VirtualOf(r.id) = 0
    BY <2>1, VirtuallyListed DEF Catalogued
  <2>b. config \in Configs /\ online \in SUBSET DOMAIN Endpoints
    BY DEF Catalogued
  <2>c. /\ LookupModel(Endpoints[e].name \o k, online) = e /\ e # 0
        /\ Tail(Endpoints[e].name \o k) = k
    BY <2>b, LookupFinds
  <2>4. LookupModel(r.id, online) = e /\ e # 0 /\ Tail(r.id) = k
    BY <2>2, <2>c
  <2> QED
    BY <2>2, <2>3, <2>4 DEF RowOf
<1> QED
  BY <1>2, <1>3

\* And every name the lookups find something for has its row.
LEMMA RowsPresent ==
  ASSUME Unslashed, NamedApart, Catalogued, NEW id,
         \/ ManagerOf(id) # 0
         \/ VirtualOf(id) # 0
         \/ /\ LookupModel(id, online) # 0 /\ Tail(id) \in Range(Endpoints[LookupModel(id, online)].models)
            /\ \E S : id \in Seq(S)
  PROVE  RowOf(id, online) \in Rows(online) /\ RowOf(id, online).id = id
<1>1. Rows(online) = Listed(Virtually(online), EndpointRows(online))
  BY DEF Rows, Virtually, Managed
<1>2. CASE ManagerOf(id) # 0 \/ VirtualOf(id) # 0
  BY <1>1, <1>2, VirtuallyListed DEF Catalogued, Listed
<1>3. CASE ManagerOf(id) = 0 /\ VirtualOf(id) = 0
  <2> DEFINE e == LookupModel(id, online)
             k == Tail(id)
             r == Row(id, Route("endpoint", e, k), TRUE)
  <2>1. e # 0 /\ k \in Range(Endpoints[e].models)
    BY <1>3
  <2>0. PICK S : id \in Seq(S)
    BY <1>3
  <2>2. e \in online /\ Endpoints[e].name \o k = id
    BY <2>0, <2>1, LookupFound DEF Catalogued
  <2>3. RowOf(id, online) = r
    BY <1>3 DEF RowOf
  <2> HIDE DEF e, k
  <2>4. r.id = id /\ r.route.at = e
    BY DEF Row, Route
  <2> DEFINE name == Endpoints[e].name
  <2>a. r = Row(name \o k, Route("endpoint", e, k), TRUE)
    BY <2>2
  <2>b. r \in {Row(Endpoints[e].name \o j, Route("endpoint", e, j), TRUE) : j \in Range(Endpoints[e].models)}
    BY <2>1, <2>a
  <2>5. r \in EndpointRows(online)
    BY <2>2, <2>b DEF EndpointRows
  <2> HIDE DEF name, r
  <2>6. \A s \in Virtually(online) : s.id # r.id
    BY <1>3, <2>4, VirtuallyListed DEF Catalogued
  <2>7. ASSUME NEW s \in EndpointRows(online), s.id = r.id PROVE r.route.at <= s.route.at
    <3>a. PICK f \in online : \E j \in Range(Endpoints[f].models) : s.id = Endpoints[f].name \o j /\ s.route.at = f
      BY RowsOfSections
    <3>1. PICK j \in Range(Endpoints[f].models) : s.id = Endpoints[f].name \o j /\ s.route.at = f
      BY <3>a
    <3>b. config \in Configs /\ online \in SUBSET DOMAIN Endpoints
      BY DEF Catalogued
    <3>c. LookupModel(Endpoints[f].name \o j, online) = f
      BY <3>b, LookupFinds
    <3>2. LookupModel(s.id, online) = f
      BY <3>1, <3>c
    <3>3. f = e
      BY <2>4, <2>7, <3>2 DEF e
    <3>4. e \in Nat
      BY <2>2, EndpointFirst DEF Catalogued
    <3>5. r.route.at = s.route.at
      BY <2>4, <3>1, <3>3
    <3> QED
      BY <2>4, <3>4, <3>5
  <2>8. r \in Rows(online)
    BY <1>1, <2>5, <2>6, <2>7 DEF Listed
  <2> QED
    BY <2>3, <2>4, <2>8
<1> QED
  BY <1>2, <1>3

\* No row of a section has a key of the map for its id.
LEMMA RowIsNoKey ==
  ASSUME Unshadowed, Catalogued, NEW r \in Rows(online)
  PROVE  r.id \notin DOMAIN ModelMap
<1>0. config \in Configs /\ online \subseteq DOMAIN Endpoints
  BY DEF Catalogued
<1>1. r \in ManagedRows \/ r \in VirtualRows(online) \/ r \in EndpointRows(online)
  BY DEF Rows, Listed
<1>2. CASE r \in ManagedRows
  <2>1. PICK m \in DOMAIN Managers : r.id \in Range(Managers[m].aliases)
    BY <1>2, RowsOfSections
  <2> QED
    BY <1>0, <2>1 DEF Unshadowed, Managers, ModelMap
<1>3. CASE r \in VirtualRows(online)
  <2>1. PICK v \in DOMAIN Virtuals : r.id = Virtuals[v].name
    BY <1>3, RowsOfSections
  <2> QED
    BY <1>0, <2>1 DEF Unshadowed, Virtuals, ModelMap
<1>4. CASE r \in EndpointRows(online)
  <2>a. PICK e \in online : \E k \in Range(Endpoints[e].models) :
            /\ r = Row(Endpoints[e].name \o k, Route("endpoint", e, k), TRUE)
            /\ r.id = Endpoints[e].name \o k /\ r.route.at = e
    BY <1>4, RowsOfSections
  <2>1. \E k \in Range(Endpoints[e].models) : r.id = Endpoints[e].name \o k
    BY <2>a
  <2>2. PICK k \in Range(Endpoints[e].models) : r.id = Endpoints[e].name \o k
    BY <2>1
  <2>3. e \in DOMAIN Endpoints
    BY <1>0
  <2> QED
    BY <1>0, <2>2, <2>3 DEF Unshadowed, Endpoints, ModelMap
<1> QED
  BY <1>1, <1>2, <1>3, <1>4

\* What a row says is what dispatch does with its id.
LEMMA RowResolves ==
  ASSUME Unslashed, NamedApart, Catalogued, NEW r \in Rows(online)
  PROVE  /\ r.usable => ResolveName(r.id, online).kind \in Served
         /\ \/ ResolveName(r.id, online) = r.route
            \/ ResolveName(r.id, online).kind = "unusable" /\ ~r.usable
<1>0. config \in Configs
  BY DEF Catalogued
<1>1. PICK id : id = r.id
  OBVIOUS
<1>2. r = RowOf(id, online) /\ (ManagerOf(id) # 0 \/ VirtualOf(id) # 0 \/ LookupModel(id, online) # 0)
  BY <1>1, RowsFound
<1>3. CASE ManagerOf(id) # 0
  <2>1. ResolveName(id, online) = Route("managed", ManagerOf(id), id)
    BY <1>3 DEF ResolveName
  <2>2. r.route = Route("managed", ManagerOf(id), id)
    BY <1>2, <1>3 DEF RowOf, Row
  <2> QED
    BY <1>1, <2>1, <2>2 DEF Route, Served
<1>4. CASE ManagerOf(id) = 0 /\ VirtualOf(id) # 0
  <2>1. PICK v : v = VirtualOf(id) /\ v \in DOMAIN Virtuals
    BY <1>0, <1>4, VirtualIn
  <2>2. r.route = Route("virtual", v, id) /\ r.usable = Usable(v, online)
    BY <1>2, <1>4, <2>1 DEF RowOf, Row
  <2>3. CASE CandidatesForVirtual(v, online) = <<>>
    <3>1. ResolveName(id, online) = Nowhere("unusable")
      BY <1>4, <2>1, <2>3 DEF ResolveName
    <3>2. Existing(v) = {}
      BY <1>0, <2>1, <2>3, CandidatesAre
    <3>3. ~Usable(v, online)
      BY <3>2 DEF Usable, Existing, Fresh
    <3> QED
      BY <1>1, <2>2, <3>1, <3>3 DEF Nowhere, Route
  <2>4. CASE CandidatesForVirtual(v, online) # <<>>
    <3>1. ResolveName(id, online) = Route("virtual", v, id)
      BY <1>4, <2>1, <2>4 DEF ResolveName
    <3> QED
      BY <1>1, <2>2, <3>1 DEF Route, Served
  <2> QED
    BY <2>3, <2>4
<1>5. CASE ManagerOf(id) = 0 /\ VirtualOf(id) = 0
  <2>1. ResolveName(id, online) = Route("endpoint", LookupModel(id, online), Tail(id))
    BY <1>2, <1>5 DEF ResolveName
  <2>2. r.route = Route("endpoint", LookupModel(id, online), Tail(id))
    BY <1>2, <1>5 DEF RowOf, Row
  <2> QED
    BY <1>1, <2>1, <2>2 DEF Route, Served
<1> QED
  BY <1>3, <1>4, <1>5

\* A name that is served now has a row, and the row says usable.
LEMMA ServedIsListed ==
  ASSUME Unslashed, NamedApart, Catalogued, NEW id, NEW route, route = ResolveName(id, online),
         route.kind \in Served,
         route.kind = "virtual" => Usable(route.at, online),
         route.kind = "endpoint" => route.name \in Range(Endpoints[route.at].models) /\ \E S : id \in Seq(S)
  PROVE  RowOf(id, online) \in Rows(online) /\ RowOf(id, online).id = id /\ RowOf(id, online).usable
<1>1. CASE ManagerOf(id) # 0
  <2>1. RowOf(id, online).usable
    BY <1>1 DEF RowOf, Row
  <2> QED
    BY <1>1, <2>1, RowsPresent
<1>2. CASE ManagerOf(id) = 0 /\ VirtualOf(id) # 0
  <2>1. route = Route("virtual", VirtualOf(id), id)
    BY <1>2 DEF ResolveName, Nowhere, Route, Served
  <2>2. Usable(VirtualOf(id), online)
    BY <2>1 DEF Route
  <2>3. RowOf(id, online).usable
    BY <1>2, <2>2 DEF RowOf, Row
  <2> QED
    BY <1>2, <2>3, RowsPresent
<1>3. CASE ManagerOf(id) = 0 /\ VirtualOf(id) = 0
  <2>1. LookupModel(id, online) # 0 /\ route = Route("endpoint", LookupModel(id, online), Tail(id))
    BY <1>3 DEF ResolveName, Nowhere, Route, Served
  <2>2. Tail(id) \in Range(Endpoints[LookupModel(id, online)].models) /\ \E S : id \in Seq(S)
    BY <2>1 DEF Route
  <2>3. RowOf(id, online).usable
    BY <1>3 DEF RowOf, Row
  <2> QED
    BY <2>1, <2>2, <2>3, RowsPresent
<1> QED
  BY <1>1, <1>2, <1>3

\* The rows of the keys.
LEMMA RowsOfKeys ==
  ASSUME NEW r \in KeyRows(online)
  PROVE  /\ r.id \in DOMAIN ModelMap /\ KeyListed(r.id, online)
         /\ r = Row(r.id, Nowhere("map"), TRUE) /\ r.route.kind = "map"
<1>1. PICK key \in DOMAIN ModelMap : KeyListed(key, online) /\ r = Row(key, Nowhere("map"), TRUE)
  BY DEF KeyRows
<1>2. r.id = key /\ r.route = Nowhere("map")
  BY <1>1 DEF Row
<1>3. r.route.kind = "map"
  BY <1>2 DEF Nowhere, Route
<1> QED
  BY <1>1, <1>2, <1>3

\* Every row serves what it says.
LEMMA EveryRowServes ==
  ASSUME Unslashed, NamedApart, Unshadowed, Catalogued
  PROVE  RowServes
<1> SUFFICES ASSUME NEW r \in Catalog(online)
             PROVE  LET route == HandleProxy(r.id, online) IN
                    /\ r.usable => route.kind \in Served
                    /\ r.route.kind = "map" \/ route = r.route \/ (route.kind = "unusable" /\ ~r.usable)
  BY DEF RowServes
<1>1. CASE r \in Rows(online)
  <2>1. HandleProxy(r.id, online) = ResolveName(r.id, online)
    BY <1>1, RowIsNoKey DEF HandleProxy
  <2> QED
    BY <1>1, <2>1, RowResolves
<1>2. CASE r \in KeyRows(online)
  <2>1. PICK s \in Rows(online) : s.id = ModelMap[r.id] /\ s.usable
    BY <1>2, RowsOfKeys DEF KeyListed
  <2>2. HandleProxy(r.id, online) = ResolveName(s.id, online)
    BY <1>2, <2>1, RowsOfKeys DEF HandleProxy
  <2>3. ResolveName(s.id, online).kind \in Served
    BY <2>1, RowResolves
  <2> QED
    BY <1>2, <2>2, <2>3, RowsOfKeys
<1> QED
  BY <1>1, <1>2 DEF Catalog

\* Everything that is served is listed, once.
LEMMA EverythingListed ==
  ASSUME Unslashed, NamedApart, Unshadowed, Catalogued
  PROVE  AllListed
<1> SUFFICES ASSUME NEW id \in Ids, ServesNow(id)
             PROVE  Cardinality({r \in Catalog(online) : r.id = id /\ r.usable}) = 1
  BY DEF AllListed
<1>0. config \in Configs
  BY DEF Catalogued
<1>1. SUFFICES \E row : {r \in Catalog(online) : r.id = id /\ r.usable} = {row}
  BY FS_Singleton
<1>2. PICK name, route : /\ name = (IF id \in DOMAIN ModelMap THEN ModelMap[id] ELSE id)
                         /\ route = ResolveName(name, online)
  OBVIOUS
<1>3. /\ route.kind \in Served
      /\ route.kind = "virtual" => Usable(route.at, online)
      /\ route.kind = "endpoint" => route.name \in Range(Endpoints[route.at].models)
  BY <1>2 DEF ServesNow, HandleProxy, Usable
<1>4. CASE id \in DOMAIN ModelMap
  <2>1. name = ModelMap[id] /\ \E S : name \in Seq(S)
    BY <1>0, <1>2, <1>4, DispatchAssumption DEF ModelMap
  <2>2. RowOf(name, online) \in Rows(online) /\ RowOf(name, online).id = name /\ RowOf(name, online).usable
    BY <1>2, <1>3, <2>1, ServedIsListed
  <2>3. KeyListed(id, online)
    BY <2>1, <2>2 DEF KeyListed
  <2>4. \A r \in Rows(online) : r.id # id
    BY <1>4, RowIsNoKey
  <2>5. PICK row : row = Row(id, Nowhere("map"), TRUE)
    OBVIOUS
  <2>6. row \in Catalog(online) /\ row.id = id /\ row.usable
    <3>1. row \in KeyRows(online)
      BY <1>4, <2>3, <2>4, <2>5 DEF KeyRows
    <3> QED
      BY <2>5, <3>1 DEF Catalog, Row
  <2>7. \A r \in Catalog(online) : r.id = id => r = row
    BY <2>4, <2>5, RowsOfKeys DEF Catalog
  <2> QED
    BY <2>6, <2>7
<1>5. CASE id \notin DOMAIN ModelMap
  <2>1. name = id
    BY <1>2, <1>5
  <2>2. route.kind = "endpoint" => \E S : id \in Seq(S)
    <3> SUFFICES ASSUME route.kind = "endpoint" PROVE \E S : id \in Seq(S)
      OBVIOUS
    <3>1. ManagerOf(id) = 0 /\ VirtualOf(id) = 0
      BY <1>2, <2>1 DEF ResolveName, Route, Nowhere
    <3>2. id \notin UNION {Range(Managers[m].aliases) : m \in DOMAIN Managers}
      BY <1>0, <3>1, ManagerFirst
    <3>3. id \notin {Virtuals[v].name : v \in DOMAIN Virtuals}
      BY <1>0, <3>1, VirtualFirst
    <3>4. id \in UNION {{Endpoints[e].name \o k : k \in Range(Endpoints[e].models)} : e \in DOMAIN Endpoints}
      BY <1>5, <3>2, <3>3 DEF Ids
    <3>5. PICK e \in DOMAIN Endpoints : \E k \in Range(Endpoints[e].models) : id = Endpoints[e].name \o k
      BY <3>4
    <3>6. PICK k \in Range(Endpoints[e].models) : id = Endpoints[e].name \o k
      BY <3>5
    <3>7. PICK n : n = Endpoints[e].name
      OBVIOUS
    <3>8. n \in Seq(Range(n)) /\ k \in Seq(Range(k)) /\ Len(n) = 1 /\ k # <<>>
      BY <1>0, <3>7, DispatchAssumption DEF Endpoints, Unslashed
    <3>9. n \o k \in Seq(Range(n) \cup Range(k))
      BY <3>8, NameAndModel
    <3> QED
      BY <3>6, <3>7, <3>9
  <2>3. PICK row : row = RowOf(id, online)
    OBVIOUS
  <2>4. row \in Rows(online) /\ row.id = id /\ row.usable
    BY <1>2, <1>3, <2>1, <2>2, <2>3, ServedIsListed
  <2>5. \A r \in Rows(online) : r.id = id => r = row
    BY <2>3, RowsFound
  <2>6. \A r \in KeyRows(online) : r.id # id
    BY <1>5, RowsOfKeys
  <2> QED
    BY <2>4, <2>5, <2>6 DEF Catalog
<1> QED
  BY <1>4, <1>5

\* The catalog is honest (CatalogHonest): a row names what serves its id, and
\* what is served is listed, once, wherever no name is written with a "/",
\* each endpoint has its own, and no key of the map hides another id.
THEOREM CatalogTrue ==
  ASSUME Unslashed, NamedApart, Unshadowed
  PROVE  Spec => []CatalogHonest
<1>1. Init => Catalogued
  BY DEF Init, Catalogued
<1>2. Catalogued /\ [Next]_vars => Catalogued'
  <2> SUFFICES ASSUME Catalogued, [Next]_vars PROVE Catalogued'
    OBVIOUS
  <2>1. config' = config
    BY DEF Next, vars, Probe, Messages, Upstream, CountTokens, ServeNative, Translate, NextTurn
  <2>2. online' \subseteq DOMAIN Endpoints
    BY DEF Next, vars, Probe, Messages, Upstream, CountTokens, ServeNative, Translate, NextTurn, Catalogued
  <2> QED
    BY <2>1, <2>2 DEF Catalogued, Endpoints
<1>3. Catalogued => CatalogHonest
  BY EveryRowServes, EverythingListed DEF CatalogHonest
<1> QED
  BY <1>1, <1>2, <1>3, PTL DEF Spec


-----------------------------------------------------------------------------
(* RouterFront.                                                           *)

\* How a request can be served; in the first three, under the name of its target.
Named == {"plain", "native", "translated"}
Serving == Named \cup {"probe", "audio", "passthrough"}
Within(upstreams, S) == \A i \in DOMAIN upstreams : upstreams[i] \in S

\* Where the upstreams of a request come from, by how it is served.
Suits(c, m, upstreams) ==
    /\ m \in Named \cup {"probe"} => Within(upstreams, Range(TargetsOf(c.model)))
    /\ m = "audio" => Within(upstreams, Targets)
    /\ m = "passthrough" =>
           /\ TakesKeyHeader(c.path) /\ Within(upstreams, Passthroughs)
           /\ setup.via = "relay" /\ Handler(c) \in {"messages", "count"}
                  => HasClientCredential(c)

Located ==
    /\ at \in {"idle", "attempt", "sent", "streaming", "returned", "done"}
    /\ left \in Seq(Targets \cup Passthroughs) /\ sent \in Seq(Range(sent))
    /\ took \in Codes \cup {0, 103}
    /\ mode \in Serving \cup {"none"}
    /\ at = "idle" => sent = <<>> /\ mode = "none"
    /\ at # "idle" => call \in Calls
    /\ at \in {"attempt", "sent", "streaming"} => mode \in Serving /\ left # <<>>
    /\ at \in {"idle", "attempt"} => took = 0
    /\ at = "sent" => took \in {0, 103}
    /\ mode # "none" => Suits(call, mode, left)

\* What the header map may hold.
Headed ==
    /\ mode \in {"none", "audio"} => heading = <<>>
    /\ mode = "passthrough" => /\ heading \in {<<>>, <<"theirs">>}
                               /\ at \in {"attempt", "sent"} => heading = <<>>
    /\ mode \in Named \cup {"probe"} =>
           heading \in {<<>>} \cup {<<t>> : t \in Range(TargetsOf(call.model))}
    /\ at = "attempt" /\ mode = "probe" => heading = <<>>
    /\ at = "sent" =>
           /\ mode \in {"plain", "native"} => \/ heading = <<Head(left)>>
                                              \/ heading = <<>> /\ took = 103
           /\ mode = "translated" => heading = <<Head(left)>>
           /\ mode = "probe" => heading = IF took = 0 THEN <<>> ELSE <<Head(left)>>

\* What has been said of it.
Told ==
    /\ reply = [code |-> reply.code, heading |-> reply.heading, by |-> reply.by, cut |-> reply.cut]
    /\ reply.code \in Codes \cup {0} /\ reply.cut \in BOOLEAN
    /\ at \in {"idle", "attempt", "sent"} => reply = NoReply
    /\ at # "done" => line = <<>> /\ recorded = reply.code
    /\ reply.code = 0 => reply.heading = <<>> /\ reply.by = "router"
    /\ reply.code # 0 => reply.heading = heading
    /\ reply.by \in Targets /\ mode # "audio" =>
           \/ reply.heading = <<reply.by>>
           \/ reply.heading = <<>> /\ took = 103

\* The inductive invariant: the two properties and what they rest on.
FrontInv == Located /\ Headed /\ Told /\ UpstreamSees /\ OutcomeTold

\* A handler is one of the mux, and the paths that forward credentials are theirs.
LEMMA HandlerIs ==
  ASSUME NEW c
  PROVE  /\ Handler(c) \in {"api", "passthrough", "messages", "count", "audio", "load",
                            "models", "proxy"}
         /\ Handler(c) \in {"api", "passthrough", "messages", "count"} => TakesKeyHeader(c.path)
  BY DEF Handler, TakesKeyHeader

\* A model leads to targets.
LEMMA LeadsToTargets ==
  ASSUME NEW m
  PROVE  TargetsOf(m) \in Seq(Targets) /\ Within(TargetsOf(m), Range(TargetsOf(m)))
         /\ Range(TargetsOf(m)) \subseteq Targets
<1>1. TargetsOf(m) \in Seq(Targets)
  BY FrontAssumption DEF TargetsOf
<1> QED
  BY <1>1 DEF Within, Range

\* A request that is admitted to an upstream is served in a way that suits it.
LEMMA Admission ==
  ASSUME NEW c, Refusal(c) = 0, ModeOf(c) # "none"
  PROVE  /\ ModeOf(c) \in Serving
         /\ UpstreamsOf(c) \in Seq(Targets \cup Passthroughs) /\ UpstreamsOf(c) # <<>>
         /\ Suits(c, ModeOf(c), UpstreamsOf(c))
<1> DEFINE handler == Handler(c)
<1>0. handler \in {"api", "passthrough", "messages", "count", "audio", "load", "models", "proxy"}
  BY HandlerIs
<1>1. CASE handler \in {"messages", "count"} /\ Mapped(c.model)
  <2>1. ModeOf(c) \in {"native", "translated", "probe"}
    BY <1>1 DEF ModeOf, CountedBy
  <2>2. UpstreamsOf(c) = TargetsOf(c.model)
    BY <2>1 DEF UpstreamsOf
  <2>3. TargetsOf(c.model) # <<>>
    BY <1>1, <2>1 DEF Refusal, ModeOf, CountedBy, AllSpeak
  <2> QED
    BY <2>1, <2>2, <2>3, LeadsToTargets DEF Suits, Serving, Named, Within
<1>2. CASE handler = "proxy"
  <2>1. ModeOf(c) = "plain"
    BY <1>2 DEF ModeOf, OwnMode
  <2>2. UpstreamsOf(c) = TargetsOf(c.model)
    BY <2>1 DEF UpstreamsOf
  <2>3. TargetsOf(c.model) # <<>>
    BY <1>2 DEF Refusal
  <2> QED
    BY <2>1, <2>2, <2>3, LeadsToTargets DEF Suits, Serving, Named, Within
<1>3. CASE handler = "audio"
  <2>1. ModeOf(c) = "audio"
    BY <1>3 DEF ModeOf, OwnMode
  <2>2. UpstreamsOf(c) = <<c.model>>
    BY <2>1 DEF UpstreamsOf
  <2>3. c.model \in Targets
    BY <1>3, FrontAssumption DEF Refusal, AudioCode
  <2> QED
    BY <2>1, <2>2, <2>3 DEF Suits, Serving, Named, Within
<1>4. CASE handler \in {"api", "passthrough"} \/ (handler \in {"messages", "count"} /\ ~Mapped(c.model))
  <2>1. ModeOf(c) = "passthrough"
    BY <1>4 DEF ModeOf, OwnMode
  <2>2. PICK p \in Passthroughs : UpstreamsOf(c) = <<p>>
    BY <2>1 DEF UpstreamsOf, Passthroughs
  <2>3. TakesKeyHeader(c.path)
    BY <1>4, HandlerIs
  <2>4. setup.via = "relay" /\ handler \in {"messages", "count"} => HasClientCredential(c)
    BY <1>4 DEF Refusal
  <2> QED
    BY <2>1, <2>2, <2>3, <2>4 DEF Suits, Serving, Named, Within
<1>5. CASE handler \in {"models", "load"}
  BY <1>5 DEF ModeOf, OwnMode
<1> QED
  BY <1>0, <1>1, <1>2, <1>3, <1>4, <1>5

\* FrontInv holds before the request.
LEMMA FrontInitInv == FrontInit => FrontInv
<1> SUFFICES ASSUME FrontInit PROVE FrontInv
  OBVIOUS
<1>1. Located
  BY DEF FrontInit, Located, Codes, Range
<1>2. Headed /\ Told
  BY FrontAssumption DEF FrontInit, Headed, Told, Named, NoReply, Codes
<1>3. UpstreamSees /\ OutcomeTold
  BY DEF FrontInit, UpstreamSees, OutcomeTold, TargetHonest, LineTellsOutcome
<1> QED
  BY <1>1, <1>2, <1>3 DEF FrontInv

\* What the upstreams saw is settled.
LEMMA SeenKept ==
  ASSUME UpstreamSees, UNCHANGED <<setup, call, sent>>
  PROVE  UpstreamSees'
  BY DEF UpstreamSees, SeesNoSecret, BodyIsTheClients, LetInBy, TakesKeyHeader, Handler

\* So is how a request is served.
LEMMA SuitsKept ==
  ASSUME NEW m, NEW upstreams, Suits(call, m, upstreams), UNCHANGED <<setup, call>>
  PROVE  Suits(call, m, upstreams)' /\ TargetsOf(call.model)' = TargetsOf(call.model)
         /\ Single(call.model)' = Single(call.model)
  BY DEF Suits, TargetsOf, Resolved, Mapped, TakesKeyHeader, Handler, HasClientCredential, Within,
         Single

\* Nothing is told before the end.
LEMMA NotDone ==
  ASSUME at' # "done"
  PROVE  OutcomeTold'
  BY DEF OutcomeTold, TargetHonest, LineTellsOutcome

\* Answer tells what it is given, once.
LEMMA Answered ==
  ASSUME Told, reply = NoReply, recorded = 0, NEW code \in Codes, code # 0,
         NEW values, NEW by, Answer(code, values, by)
  PROVE  /\ reply' = [code |-> code, heading |-> values, by |-> by, cut |-> FALSE]
         /\ recorded' = code
<1>1. reply' = [reply EXCEPT !.code = code, !.heading = values, !.by = by]
  BY DEF Answer
<1>2. recorded' = code
  BY DEF Answer, Record, Codes
<1> QED
  BY <1>1, <1>2 DEF NoReply

\* The request arrives: it is refused, or served as its route serves it.
LEMMA ArriveKeeps ==
  ASSUME FrontInv, NEW c \in Calls, NEW code \in Codes, Arrive(c, code)
  PROVE  FrontInv'
<1> USE DEF FrontInv
<1>0. /\ at = "idle" /\ call' = c /\ sent = <<>> /\ sent' = <<>> /\ heading = <<>> /\ heading' = <<>>
      /\ took = 0 /\ took' = 0 /\ setup' = setup /\ line' = <<>> /\ mode = "none"
      /\ reply = NoReply /\ recorded = 0
  BY DEF Arrive, Located, Headed, Told, NoReply
<1>1. CASE (code \in UnreadCodes(c) \/ (Refusal(c) # 0 /\ code = Refusal(c))) /\ Answer(code, <<>>, "router") /\ at' = "returned"
           /\ UNCHANGED <<mode, left>>
  <2>1. reply' = [code |-> code, heading |-> <<>>, by |-> "router", cut |-> FALSE] /\ recorded' = code
    <3>1. code # 0
      BY <1>1 DEF UnreadCodes
    <3> QED
      BY <1>0, <1>1, <3>1, Answered
  <2>2. Located'
    BY <1>0, <1>1 DEF Located, Range
  <2>3. Headed'
    BY <1>0, <1>1 DEF Headed, Named
  <2>4. Told'
    BY <1>0, <1>1, <2>1, FrontAssumption DEF Told
  <2> QED
    BY <1>0, <1>1, <2>2, <2>3, <2>4, NotDone DEF UpstreamSees
<1>2. CASE Refusal(c) = 0 /\ ModeOf(c) = "none" /\ code \in OwnCodes(c) /\ Answer(code, <<>>, "router")
           /\ at' = "returned" /\ UNCHANGED <<mode, left>>
  <2>1. reply' = [code |-> code, heading |-> <<>>, by |-> "router", cut |-> FALSE] /\ recorded' = code
    BY <1>0, <1>2, Answered DEF OwnCodes
  <2>2. Located'
    BY <1>0, <1>2 DEF Located, Range
  <2>3. Headed'
    BY <1>0, <1>2 DEF Headed, Named
  <2>4. Told'
    BY <1>0, <1>2, <2>1, FrontAssumption DEF Told
  <2> QED
    BY <1>0, <1>2, <2>2, <2>3, <2>4, NotDone DEF UpstreamSees
<1>3. CASE Refusal(c) = 0 /\ ModeOf(c) # "none" /\ mode' = ModeOf(c) /\ left' = UpstreamsOf(c)
           /\ at' = "attempt" /\ UNCHANGED <<reply, recorded>>
  <2>1. /\ mode' \in Serving /\ left' \in Seq(Targets \cup Passthroughs) /\ left' # <<>>
        /\ Suits(c, mode', left')
    BY <1>3, Admission
  <2>2. Suits(call, mode, left)'
    BY <1>0, <2>1 DEF Suits, TargetsOf, Resolved, Mapped, TakesKeyHeader, Handler,
                      HasClientCredential, Within
  <2>3. Located'
    BY <1>0, <1>3, <2>1, <2>2 DEF Located, Range
  <2>4. Headed'
    BY <1>0, <1>3 DEF Headed, Named
  <2>5. Told'
    BY <1>0, <1>3, FrontAssumption DEF Told, NoReply, Codes
  <2> QED
    BY <1>0, <1>3, <2>3, <2>4, <2>5, NotDone DEF UpstreamSees
<1> QED
  BY <1>1, <1>2, <1>3 DEF Arrive

\* The client goes, which the handler does not see at once.
LEMMA HangUpKeeps ==
  ASSUME FrontInv, HangUp
  PROVE  FrontInv'
<1> USE DEF FrontInv, HangUp
<1>1. mode # "none" => Suits(call, mode, left)'
  BY SuitsKept DEF Located
<1>2. TargetsOf(call.model)' = TargetsOf(call.model)
  BY DEF TargetsOf, Resolved, Mapped
<1>3. Located'
  BY <1>1 DEF Located
<1>4. Headed'
  BY <1>2 DEF Headed
<1>5. Told'
  BY DEF Told
<1> QED
  BY <1>3, <1>4, <1>5, SeenKept, NotDone

\* No candidate is tried for a client that has gone.
LEMMA AbandonKeeps ==
  ASSUME FrontInv, Abandon
  PROVE  FrontInv'
<1> USE DEF FrontInv, Abandon
<1>1. mode # "none" => Suits(call, mode, left)'
  BY SuitsKept DEF Located
<1>2. TargetsOf(call.model)' = TargetsOf(call.model)
  BY DEF TargetsOf, Resolved, Mapped
<1>3. Located'
  BY <1>1 DEF Located
<1>4. Headed'
  BY <1>2 DEF Headed
<1>5. reply = NoReply /\ recorded = 0 /\ line = <<>>
  BY DEF Told, NoReply
<1>6. Told'
  <2>1. CASE mode = "translated"
    <3>1. reply' = [code |-> 502, heading |-> heading, by |-> "router", cut |-> FALSE] /\ recorded' = 502
      BY <2>1, <1>5, Answered DEF Codes
    <3> QED
      BY <3>1, <2>1, FrontAssumption DEF Told, Codes
  <2>2. CASE mode # "translated"
    <3>1. reply' = NoReply /\ recorded' = 0 /\ line' = <<>>
      BY <2>2, <1>5
    <3> QED
      BY <3>1, FrontAssumption DEF Told, NoReply, Codes
  <2> QED
    BY <2>1, <2>2
<1> QED
  BY <1>3, <1>4, <1>6, SeenKept, NotDone

\* A failure passes to the next upstream, or is told as the router's own.
LEMMA FailKeeps ==
  ASSUME FrontInv, at \in {"attempt", "sent"}, NEW values, Fail(values),
         mode \in {"audio", "passthrough"} => values = <<>>,
         mode \in Named \cup {"probe"} =>
             values \in {<<>>} \cup {<<t>> : t \in Range(TargetsOf(call.model))}
  PROVE  FrontInv'
<1> USE DEF FrontInv
<1>0. /\ heading' = values /\ UNCHANGED <<setup, call, mode, sent, took, gone, line>>
      /\ mode \in Serving /\ left \in Seq(Targets \cup Passthroughs) /\ left # <<>>
      /\ reply = NoReply /\ recorded = 0 /\ line = <<>> /\ took \in {0, 103}
  BY DEF Fail, Located, Told, NoReply
<1>1. TargetsOf(call.model)' = TargetsOf(call.model)
  BY <1>0 DEF TargetsOf, Resolved, Mapped
<1>2. CASE Failover /\ took = 0 /\ Len(left) > 1 /\ left' = Tail(left) /\ at' = "attempt"
           /\ UNCHANGED <<reply, recorded>>
  <2>1. mode \in Named
    BY <1>2 DEF Failover, Named
  <2>2. /\ left' \in Seq(Targets \cup Passthroughs) /\ left' # <<>>
        /\ \A i \in DOMAIN left' : i + 1 \in DOMAIN left /\ left'[i] = left[i + 1]
    <3>1. left' = Tail(left) /\ Len(left) \in Nat /\ Len(left) > 1 /\ DOMAIN left = 1 .. Len(left)
      BY <1>0, <1>2
    <3>2. left' \in Seq(Targets \cup Passthroughs) /\ Len(left') = Len(left) - 1
      BY <1>0, <3>1
    <3>3. DOMAIN left' = 1 .. (Len(left) - 1) /\ left' # <<>>
      <4>1. DOMAIN left' = 1 .. Len(left')
        BY <3>2
      <4>2. Len(left') # 0
        <5>1. PICK n \in Nat : n = Len(left)
          BY <3>1
        <5>2. n > 1 /\ Len(left') = n - 1
          BY <3>1, <3>2, <5>1
        <5>3. n - 1 # 0
          BY <5>1, <5>2
        <5> QED
          BY <5>2, <5>3
      <4>3. Len(<<>>) = 0
        OBVIOUS
      <4> QED
        BY <3>2, <4>1, <4>2, <4>3
    <3>4. \A i \in 1 .. (Len(left) - 1) : left'[i] = left[i + 1]
      BY <1>0, <3>1, <3>2
    <3> QED
      BY <3>1, <3>2, <3>3, <3>4
  <2>3. Within(left, Range(TargetsOf(call.model)))
    BY <1>0, <2>1 DEF Located, Suits, Named
  <2>4. Within(left', Range(TargetsOf(call.model)))
    BY <2>2, <2>3 DEF Within
  <2>5. Suits(call, mode, left)'
    BY <1>0, <1>1, <2>1, <2>4 DEF Suits, Named, Within
  <2>6. Located'
    BY <1>0, <1>2, <2>2, <2>5 DEF Located
  <2>7. Headed'
    BY <1>0, <1>1, <1>2, <2>1 DEF Headed, Named
  <2>8. Told'
    BY <1>0, <1>2, FrontAssumption DEF Told, NoReply, Codes
  <2> QED
    BY <1>0, <1>2, <2>6, <2>7, <2>8, SeenKept, NotDone
<1>3. CASE at' = "returned" /\ UNCHANGED left
  <2>1. Suits(call, mode, left)'
    BY <1>0, <1>3, SuitsKept DEF Located, Serving, Named
  <2>2. Located'
    BY <1>0, <1>3, <2>1 DEF Located
  <2>3. Headed'
    BY <1>0, <1>1, <1>3 DEF Headed, Named, Serving
  <2>4. Told'
    <3>1. CASE UNCHANGED <<reply, recorded>>
      <4>1. reply' = NoReply /\ recorded' = 0 /\ line' = <<>>
        BY <1>0, <3>1
      <4> QED
        BY <4>1, FrontAssumption DEF Told, NoReply, Codes
    <3>2. CASE \E code \in {200, 502, 503} : Answer(code, values, "router")
      <4>1. PICK code \in {200, 502, 503} : Answer(code, values, "router")
        BY <3>2
      <4>2. /\ reply' = [code |-> code, heading |-> values, by |-> "router", cut |-> FALSE]
            /\ recorded' = code
        BY <1>0, <4>1, Answered DEF Codes
      <4> QED
        BY <1>0, <1>3, <4>2, FrontAssumption DEF Told, Codes
    <3>3. \/ UNCHANGED <<reply, recorded>>
          \/ \E code \in {200, 502, 503} : Answer(code, values, "router")
      BY <1>3 DEF Fail
    <3> QED
      BY <3>1, <3>2, <3>3
  <2> QED
    BY <1>0, <1>3, <2>2, <2>3, <2>4, SeenKept, NotDone
<1> QED
  BY <1>2, <1>3 DEF Fail

\* The managed server of a candidate cannot be had.
LEMMA NotAcquiredKeeps ==
  ASSUME FrontInv, NotAcquired
  PROVE  FrontInv'
<1>1. PICK values : values = IF Failover THEN Names(Head(left)) ELSE heading
  OBVIOUS
<1>2. at = "attempt" /\ Fail(values)
  BY <1>1 DEF NotAcquired
<1>3. left # <<>> /\ left \in Seq(Targets \cup Passthroughs)
  BY <1>2 DEF FrontInv, Located
<1>4. mode \in Named => Head(left) \in Range(TargetsOf(call.model))
  BY <1>3 DEF FrontInv, Located, Suits, Within, Named
<1>5. mode \in {"audio", "passthrough"} => values = <<>>
  BY <1>1, <1>2 DEF FrontInv, Headed, Failover
<1>6. mode \in Named \cup {"probe"} =>
          values \in {<<>>} \cup {<<t>> : t \in Range(TargetsOf(call.model))}
  BY <1>1, <1>4 DEF FrontInv, Headed, Failover, Names, Named
<1> QED
  BY <1>2, <1>5, <1>6, FailKeeps

\* The upstream breaks before its header.
LEMMA NoHeaderKeeps ==
  ASSUME FrontInv, NoHeader
  PROVE  FrontInv'
<1>1. PICK values : values = heading
  OBVIOUS
<1>2. at = "sent" /\ Fail(values)
  BY <1>1 DEF NoHeader
<1>3. mode \in {"audio", "passthrough"} => values = <<>>
  BY <1>1, <1>2 DEF FrontInv, Headed
<1>4. mode \in Named \cup {"probe"} =>
          values \in {<<>>} \cup {<<t>> : t \in Range(TargetsOf(call.model))}
  BY <1>1 DEF FrontInv, Headed
<1> QED
  BY <1>2, <1>3, <1>4, FailKeeps

\* An informational response comes first.
LEMMA InformKeeps ==
  ASSUME FrontInv, Inform
  PROVE  FrontInv'
<1> USE DEF FrontInv
<1>0. /\ UNCHANGED <<setup, call, at, mode, left, sent, reply, gone, line>>
      /\ at = "sent" /\ took = 0 /\ took' = 103 /\ mode \in Serving /\ left # <<>>
      /\ left \in Seq(Targets \cup Passthroughs) /\ recorded = 0 /\ reply = NoReply
  BY DEF Inform, Located, Told, NoReply
<1>1. TargetsOf(call.model)' = TargetsOf(call.model)
  BY <1>0 DEF TargetsOf, Resolved, Mapped
<1>2. Suits(call, mode, left)'
  BY <1>0, SuitsKept DEF Located, Serving, Named
<1>3. Located'
  BY <1>0, <1>2 DEF Located, Codes
<1>4. recorded' = 0
  BY <1>0 DEF Inform, Record
<1>5. /\ mode = "translated" => heading' = heading
      /\ mode = "probe" => heading' = <<Head(left)>>
      /\ mode \notin {"translated", "probe"} => heading' = <<>>
  BY DEF Inform
<1>6. mode \in Named \cup {"probe"} => Head(left) \in Range(TargetsOf(call.model))
  BY <1>0 DEF Located, Suits, Within, Named
<1>7. Headed'
  BY <1>0, <1>1, <1>5, <1>6 DEF Headed, Named, Serving
<1>8. Told'
  BY <1>0, <1>4 DEF Told, NoReply
<1> QED
  BY <1>0, <1>3, <1>7, <1>8, SeenKept, NotDone

\* The connection is upgraded: 101 is the whole answer.
LEMMA UpgradeKeeps ==
  ASSUME FrontInv, Upgrade
  PROVE  FrontInv'
<1> USE DEF FrontInv
<1>0. /\ UNCHANGED <<setup, call, mode, left, sent, heading, took, gone, line>>
      /\ at = "sent" /\ at' = "streaming" /\ took = 0 /\ mode = "passthrough" /\ left # <<>>
      /\ left \in Seq(Targets \cup Passthroughs) /\ recorded = 0 /\ reply = NoReply
      /\ heading = <<>> /\ line = <<>>
  BY DEF Upgrade, Located, Told, NoReply, Headed
<1>1. TargetsOf(call.model)' = TargetsOf(call.model)
  BY <1>0 DEF TargetsOf, Resolved, Mapped
<1>2. Suits(call, mode, left)'
  BY <1>0, SuitsKept DEF Located
<1>3. Located'
  BY <1>0, <1>2 DEF Located
<1>4. Head(left) \in Passthroughs
  BY <1>0 DEF Located, Suits, Within
<1>5. reply' = [code |-> 101, heading |-> <<>>, by |-> Head(left), cut |-> FALSE] /\ recorded' = 101
  BY <1>0 DEF Upgrade, Record, NoReply
<1>6. Headed'
  BY <1>0 DEF Headed, Named
<1>7. Told'
  BY <1>0, <1>4, <1>5, FrontAssumption DEF Told, Codes
<1> QED
  BY <1>0, <1>3, <1>6, <1>7, SeenKept, NotDone

\* The upstream's header is the client's.
LEMMA RespondKeeps ==
  ASSUME FrontInv, NEW code \in {200, 401, 403, 404, 500}, NEW theirs \in BOOLEAN, Respond(code, theirs)
  PROVE  FrontInv'
<1> USE DEF FrontInv
<1>0. /\ UNCHANGED <<setup, call, mode, left, sent, gone, line>>
      /\ at = "sent" /\ at' = "streaming" /\ took \in {0, 103} /\ mode \in Serving /\ left # <<>>
      /\ left \in Seq(Targets \cup Passthroughs) /\ recorded = 0 /\ reply = NoReply
      /\ line = <<>> /\ heading' = reply'.heading /\ took' = IF took = 0 THEN code ELSE took
  BY DEF Respond, Located, Told, NoReply
<1>1. TargetsOf(call.model)' = TargetsOf(call.model)
  BY <1>0 DEF TargetsOf, Resolved, Mapped
<1>2. Suits(call, mode, left)'
  BY <1>0, SuitsKept DEF Located, Serving, Named
<1>3. Located'
  BY <1>0, <1>2 DEF Located, Codes
<1>4. /\ mode \in Named \cup {"probe"} => Head(left) \in Range(TargetsOf(call.model))
      /\ mode = "passthrough" => Head(left) \in Passthroughs
  BY <1>0 DEF Located, Suits, Within, Named
<1>5. CASE mode = "probe" /\ took = 0 /\ code = 404
  <2>1. reply' = NoReply /\ recorded' = 0
    BY <1>0, <1>5 DEF Respond
  <2>2. heading' = <<>>
    BY <1>0, <2>1 DEF NoReply
  <2>3. Headed'
    BY <1>0, <1>5, <2>2 DEF Headed, Named
  <2>4. Told'
    BY <1>0, <1>5, <2>1, FrontAssumption DEF Told, NoReply, Codes
  <2> QED
    BY <1>0, <1>3, <2>3, <2>4, SeenKept, NotDone
<1>6. CASE ~(mode = "probe" /\ took = 0 /\ code = 404)
  <2>1. PICK values : values = IF mode = "probe" /\ took = 0 THEN <<Head(left)>>
                               ELSE heading \o Stripped(theirs)
    OBVIOUS
  <2>2. PICK final \in {200, 401, 403, 404, 500} : Answer(final, values, Head(left))
    BY <1>6, <2>1 DEF Respond
  <2>3. /\ reply' = [code |-> final, heading |-> values, by |-> Head(left), cut |-> FALSE]
        /\ recorded' = final
    BY <1>0, <2>2, Answered DEF Codes
  <2>4. heading' = values
    BY <1>0, <2>3
  <2>5. mode # "passthrough" /\ ~(mode = "probe" /\ took = 0) => values = heading
    BY <2>1, ConcatEmptySeq DEF Stripped
  <2>6. /\ mode = "passthrough" => values \in {<<>>, <<"theirs">>}
        /\ mode = "probe" => values = <<Head(left)>>
        /\ mode = "audio" => values = <<>>
        /\ mode \in Named => \/ values = <<Head(left)>>
                             \/ values = <<>> /\ took = 103
    <3>1. CASE mode = "passthrough"
      <4>1. values = <<>> \o Stripped(theirs)
        BY <1>0, <2>1, <3>1 DEF Headed
      <4>2. values = Stripped(theirs)
        BY <4>1, ConcatEmptySeq
      <4> QED
        BY <4>2, <3>1 DEF Stripped, Named
    <3>2. CASE mode = "probe"
      <4>1. took # 0 => heading = <<Head(left)>>
        BY <1>0, <3>2 DEF Headed
      <4>2. CASE took = 0
        BY <2>1, <3>2, <4>2 DEF Named
      <4>3. CASE took # 0
        BY <2>5, <3>2, <4>1, <4>3 DEF Named
      <4> QED
        BY <4>2, <4>3
    <3>3. CASE mode \in Named \cup {"audio"}
      BY <1>0, <2>5, <3>3 DEF Headed, Named
    <3> QED
      BY <1>0, <3>1, <3>2, <3>3 DEF Serving, Named
  <2>7. Headed'
    BY <1>0, <1>1, <1>4, <2>4, <2>6 DEF Headed, Named, Serving
  <2>8. Told'
    BY <1>0, <1>4, <2>3, <2>4, <2>6, FrontAssumption DEF Told, Codes, Named, Serving
  <2> QED
    BY <1>0, <1>3, <2>7, <2>8, SeenKept, NotDone
<1> QED
  BY <1>5, <1>6

\* The body ends, or is cut off.
LEMMA BodyKeeps ==
  ASSUME FrontInv, NEW whole \in BOOLEAN, Body(whole)
  PROVE  FrontInv'
<1> USE DEF FrontInv
<1>0. /\ UNCHANGED <<setup, call, mode, left, sent, heading, took, recorded, gone, line>>
      /\ at = "streaming" /\ at' = "returned" /\ reply' = [reply EXCEPT !.cut = ~whole]
  BY DEF Body
<1>1. TargetsOf(call.model)' = TargetsOf(call.model)
  BY <1>0 DEF TargetsOf, Resolved, Mapped
<1>2. mode # "none" => Suits(call, mode, left)'
  BY <1>0, SuitsKept DEF Located
<1>3. Located'
  BY <1>0, <1>2 DEF Located
<1>4. Headed'
  BY <1>0, <1>1 DEF Headed
<1>5. (~whole) \in BOOLEAN
  OBVIOUS
<1>6. reply' = [code |-> reply.code, heading |-> reply.heading, by |-> reply.by, cut |-> ~whole]
  BY <1>0 DEF Told
<1>7. Told'
  BY <1>0, <1>5, <1>6 DEF Told
<1> QED
  BY <1>0, <1>3, <1>4, <1>7, SeenKept, NotDone

\* The line and the header say what was answered.
LEMMA ReturnKeeps ==
  ASSUME FrontInv, Return
  PROVE  FrontInv'
<1> USE DEF FrontInv
<1>0. /\ UNCHANGED <<setup, call, mode, left, sent, heading, took, recorded, gone>>
      /\ at = "returned" /\ at' = "done" /\ line = <<>> /\ recorded = reply.code
      /\ reply' = IF reply.code = 0 THEN [reply EXCEPT !.code = 200, !.heading = heading] ELSE reply
  BY DEF Return, Told
<1>1. TargetsOf(call.model)' = TargetsOf(call.model)
  BY <1>0 DEF TargetsOf, Resolved, Mapped
<1>2. mode # "none" => Suits(call, mode, left)'
  BY <1>0, SuitsKept DEF Located
<1>3. Located'
  BY <1>0, <1>2 DEF Located
<1>4. Headed'
  BY <1>0, <1>1 DEF Headed
<1>5. PICK code : code = IF recorded = 0 THEN 200 ELSE recorded
  OBVIOUS
<1>6. reply' = [code |-> code, heading |-> heading, by |-> reply.by, cut |-> reply.cut]
  BY <1>0, <1>5 DEF Told
<1>7. code \in Codes /\ reply.cut \in BOOLEAN
  BY <1>0, <1>5 DEF Told, Codes
<1>8. \/ reply.by \notin Targets \/ mode = "audio"
      \/ heading = <<reply.by>>
      \/ heading = <<>> /\ took = 103
  BY FrontAssumption DEF Told
<1>9. Told'
  <2>1. code # 0
    BY <1>0, <1>5
  <2>2. reply'.code = code /\ reply'.heading = heading /\ reply'.by = reply.by /\ reply'.cut = reply.cut
    BY <1>6
  <2>3. reply' = [code |-> reply'.code, heading |-> reply'.heading, by |-> reply'.by, cut |-> reply'.cut]
    BY <1>6
  <2> QED
    BY <1>0, <1>7, <1>8, <2>1, <2>2, <2>3 DEF Told
<1>10. TargetHonest'
  <2>1. Len(heading) <= 1
    <3>1. \/ heading = <<>>
          \/ \E t : heading = <<t>>
      BY DEF Headed, Located, Named, Serving
    <3>2. ASSUME NEW t, heading = <<t>> PROVE Len(heading) <= 1
      BY <3>2
    <3>3. CASE heading = <<>>
      BY <3>3
    <3> QED
      BY <3>1, <3>2, <3>3
  <2>2. mode # "passthrough" => Range(heading) \subseteq Range(TargetsOf(call.model))
    BY DEF Headed, Located, Named, Serving, Range
  <2> QED
    BY <1>0, <1>1, <1>6, <1>8, <2>1, <2>2 DEF TargetHonest
<1>11. LineTellsOutcome'
  <2>1. Quiet' = Quiet
    BY <1>0 DEF Quiet
  <2>2. line' = IF ~reply'.cut /\ code < 400 /\ Quiet THEN <<>> ELSE <<Line(code, reply'.cut)>>
    BY <1>0, <1>5, <1>6 DEF Return
  <2>3. reply'.cut \in BOOLEAN /\ reply'.code = code /\ reply'.heading = heading
    BY <1>6, <1>7
  <2>4. CASE ~reply'.cut /\ code < 400 /\ Quiet
    BY <1>0, <2>1, <2>2, <2>3, <2>4 DEF LineTellsOutcome
  <2>5. CASE ~(~reply'.cut /\ code < 400 /\ Quiet)
    BY <1>0, <1>7, <2>1, <2>2, <2>3, <2>5 DEF LineTellsOutcome, Line, Denied, Codes
  <2> QED
    BY <2>4, <2>5
<1> QED
  BY <1>0, <1>3, <1>4, <1>9, <1>10, <1>11, SeenKept DEF OutcomeTold

\* What is forwarded to a provider is the client's, without the router key.
LEMMA ForwardedRight ==
  ASSUME Located, at = "attempt", mode = "passthrough", NEW s, s = Forwarded(Head(left))
  PROVE  SeesNoSecret(s) /\ BodyIsTheClients(s)
<1>1. /\ call \in Calls /\ left \in Seq(Targets \cup Passthroughs) /\ left # <<>>
      /\ Suits(call, mode, left)
  BY DEF Located
<1>2. Head(left) \in Passthroughs /\ TakesKeyHeader(call.path)
  BY <1>1 DEF Suits, Within
<1>3. /\ s.to = Head(left) /\ s.auth = call.auth /\ s.apiKey = call.apiKey
      /\ s.routerKey = "none" /\ s.fields = call.fields /\ s.trace = TraceTo(Head(left))
  BY DEF Forwarded
<1>4. s[LetInBy] = "none"
  BY <1>2, <1>3 DEF LetInBy
<1>5. SeesNoSecret(s)
  BY <1>1, <1>2, <1>3, <1>4, FrontAssumption
     DEF SeesNoSecret, Suits, HasClientCredential, TraceTo
<1>6. BodyIsTheClients(s)
  BY <1>1, <1>2, <1>3, FrontAssumption DEF BodyIsTheClients
<1> QED
  BY <1>5, <1>6

\* What a target is sent has the client's body, with params of its own, and none
\* of the client's credentials.
LEMMA DispatchedRight ==
  ASSUME Located, at = "attempt", mode # "passthrough", NEW s, s = Dispatched(Head(left))
  PROVE  SeesNoSecret(s) /\ BodyIsTheClients(s)
<1>1. /\ call \in Calls /\ left \in Seq(Targets \cup Passthroughs) /\ left # <<>>
      /\ Suits(call, mode, left) /\ mode \in Serving
  BY DEF Located, Serving, Named
<1>2. Head(left) \in Targets
  BY <1>1, LeadsToTargets DEF Suits, Within, Serving
<1> DEFINE t == Head(left)
<1>3. /\ s.to = t /\ s.auth \in {"none", "configured"} /\ s.apiKey \in {"none", "configured"}
      /\ s.routerKey = "none" /\ s.forged = FALSE /\ s.trace = TraceTo(t)
      /\ s.model = ModelSent(t) /\ s.fields = FieldsSent(t)
  BY DEF Dispatched, KeySent
<1>4. s[LetInBy] # "key"
  BY <1>3 DEF LetInBy
<1>5. SeesNoSecret(s)
  BY <1>2, <1>3, <1>4, FrontAssumption DEF SeesNoSecret, TraceTo, Passthroughs
<1>6. \A f \in DOMAIN call.fields : call.fields[f] = "client"
  BY <1>1, FrontAssumption
<1>7. /\ \A f \in DOMAIN call.fields : f \in DOMAIN s.fields /\ s.fields[f] = "client"
      /\ \A f \in DOMAIN s.fields \ DOMAIN call.fields :
            /\ s.fields[f] = t /\ f \in Declared[t]
            /\ \A g \in DOMAIN call.fields : ~Related(f, g)
  <2>1. CASE s.fields = call.fields
    BY <1>6, <2>1
  <2>2. CASE s.fields = Merged(call.fields, t)
    <3>1. PICK fields : fields = call.fields
      OBVIOUS
    <3>2. PICK F : F = {d \in Declared[t] : \A g \in DOMAIN fields : ~Related(d, g)}
      OBVIOUS
    <3>3. s.fields = [f \in DOMAIN fields \cup F |-> IF f \in DOMAIN fields THEN fields[f] ELSE t]
      BY <2>2, <3>1, <3>2 DEF Merged
    <3> HIDE DEF t
    <3>4. \A f \in F : f \in Declared[t] /\ \A g \in DOMAIN fields : ~Related(f, g)
      BY <3>2
    <3> QED
      BY <1>6, <3>1, <3>3, <3>4
  <2> QED
    BY <1>3, <2>1, <2>2 DEF FieldsSent
<1>8. t \in EndpointTargets => s.model = t
  BY <1>3 DEF ModelSent
<1> QED
  BY <1>3, <1>5, <1>7, <1>8 DEF BodyIsTheClients

\* An attempt is sent: what the upstream sees is its own, and the client's.
LEMMA SendKeeps ==
  ASSUME FrontInv, Send
  PROVE  FrontInv'
<1> USE DEF FrontInv
<1>0. /\ UNCHANGED <<setup, call, mode, left, took, reply, recorded, gone, line>>
      /\ at = "attempt" /\ at' = "sent" /\ took = 0 /\ mode \in Serving /\ left # <<>>
      /\ left \in Seq(Targets \cup Passthroughs) /\ heading' = Names(Head(left))
      /\ sent \in Seq(Range(sent))
  BY DEF Send, Located
<1>1. PICK s : s = IF mode = "passthrough" THEN Forwarded(Head(left)) ELSE Dispatched(Head(left))
  OBVIOUS
<1>2. sent' = Append(sent, s)
  BY <1>1 DEF Send
<1>3. SeesNoSecret(s) /\ BodyIsTheClients(s)
  BY <1>0, <1>1, ForwardedRight, DispatchedRight
<1>4. /\ sent' \in Seq(Range(sent'))
      /\ \A i \in DOMAIN sent' : sent'[i] = s \/ \E j \in DOMAIN sent : sent'[i] = sent[j]
  <2>1. PICK S : S = Range(sent) \cup {s}
    OBVIOUS
  <2>2. sent \in Seq(S) /\ s \in S
    BY <1>0, <2>1
  <2>3. PICK n \in Nat : n = Len(sent)
    BY <1>0
  <2>4. /\ DOMAIN sent = 1 .. n /\ DOMAIN sent' = 1 .. (n + 1) /\ sent'[n + 1] = s
        /\ \A i \in 1 .. n : sent'[i] = sent[i]
    BY <1>2, <2>2, <2>3, AppendProperties
  <2>5. S = Range(sent')
    <3>1. \A i \in DOMAIN sent' : sent'[i] \in S
      BY <2>1, <2>4 DEF Range
    <3>2. \A x \in S : \E i \in DOMAIN sent' : sent'[i] = x
      BY <2>1, <2>4 DEF Range
    <3> QED
      BY <3>1, <3>2 DEF Range
  <2> QED
    BY <1>2, <2>2, <2>4, <2>5, AppendProperties
<1>5. \A x : SeesNoSecret(x) /\ BodyIsTheClients(x) => (SeesNoSecret(x) /\ BodyIsTheClients(x))'
  BY <1>0 DEF SeesNoSecret, BodyIsTheClients, LetInBy, TakesKeyHeader, Handler
<1>6. UpstreamSees'
  <2> SUFFICES ASSUME NEW i \in DOMAIN sent', NEW x, x = sent'[i]
               PROVE  (SeesNoSecret(x) /\ BodyIsTheClients(x))'
    BY DEF UpstreamSees
  <2>1. SeesNoSecret(x) /\ BodyIsTheClients(x)
    BY <1>3, <1>4 DEF UpstreamSees
  <2> QED
    BY <1>5, <2>1
<1>7. TargetsOf(call.model)' = TargetsOf(call.model)
  BY <1>0 DEF TargetsOf, Resolved, Mapped
<1>8. Suits(call, mode, left)'
  BY <1>0, SuitsKept DEF Located, Serving, Named
<1>9. Located'
  BY <1>0, <1>4, <1>8 DEF Located
<1>10. mode \in Named \cup {"probe"} => Head(left) \in Range(TargetsOf(call.model))
  BY <1>0 DEF Located, Suits, Within, Named
<1>11. /\ mode \in Named => heading' = <<Head(left)>>
       /\ mode \notin Named => heading' = <<>>
  BY <1>0 DEF Names, Named, Headed, Serving
<1>12. Headed'
  BY <1>0, <1>7, <1>10, <1>11 DEF Headed, Named, Serving
<1>13. Told'
  BY <1>0 DEF Told, NoReply
<1> QED
  BY <1>0, <1>6, <1>9, <1>12, <1>13, NotDone

\* FrontInv is inductive.
LEMMA FrontStep ==
  ASSUME FrontInv, [FrontNext]_frontVars
  PROVE  FrontInv'
<1>1. CASE FrontNext
  BY <1>1, ArriveKeeps, HangUpKeeps, AbandonKeeps, SendKeeps, NotAcquiredKeeps, NoHeaderKeeps,
     InformKeeps, UpgradeKeeps, ReturnKeeps, RespondKeeps, BodyKeeps DEF FrontNext
<1>2. CASE UNCHANGED frontVars
  <2>1. UNCHANGED <<setup, call, at, mode, left, sent, heading, took, reply, recorded, gone, line>>
    BY <1>2 DEF frontVars
  <2>2. TargetsOf(call.model)' = TargetsOf(call.model)
    BY <2>1 DEF TargetsOf, Resolved, Mapped
  <2>3. mode # "none" => Suits(call, mode, left)'
    BY <2>1, SuitsKept DEF FrontInv, Located
  <2>4. Located'
    BY <2>1, <2>3 DEF FrontInv, Located
  <2>5. Headed' /\ Told'
    BY <2>1, <2>2 DEF FrontInv, Headed, Told
  <2>6. OutcomeTold'
    BY <2>1, <2>2 DEF FrontInv, OutcomeTold, TargetHonest, LineTellsOutcome, Quiet
  <2> QED
    BY <2>1, <2>4, <2>5, <2>6, SeenKept DEF FrontInv
<1> QED
  BY <1>1, <1>2

\* FrontInv holds in every reachable state.
LEMMA FrontInvariance == FrontSpec => []FrontInv
<1> QED
  BY FrontInitInv, FrontStep, PTL DEF FrontSpec

\* No upstream sees a credential that is not its own, whatever was tried before:
\* the router key reaches nobody (auth.go), a target of the router's gets the
\* configured key or none, a provider the client's own; and every attempt's body
\* is the client's with params of the target it goes to (router_virtual.go).
THEOREM UpstreamsSeeTheirs == FrontSpec => []UpstreamSees
<1>1. FrontInv => UpstreamSees
  BY DEF FrontInv
<1> QED
  BY <1>1, FrontInvariance, PTL

\* X-Relay-Model-Target and the model.request line tell of the answer what
\* happened: who gave it, its code, and whether it was cut off (router.go).
THEOREM OutcomesTold == FrontSpec => []OutcomeTold
<1>1. FrontInv => OutcomeTold
  BY DEF FrontInv
<1> QED
  BY <1>1, FrontInvariance, PTL
=============================================================================
