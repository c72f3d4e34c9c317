--------------------------- MODULE ToolPlanProofs ---------------------------
(***************************************************************************)
(* Proofs about ToolPlan, for every catalog limit, every text and whatever *)
(* the model asks for.  The calls that ran and those that wait are looked  *)
(* at together: what a plan accepts is distinct, alive and within its      *)
(* limit at once, and running it only moves a call from one to the other.  *)
(***************************************************************************)
EXTENDS ToolPlan, FiniteSetTheorems, TLAPS

(***************************************************************************)
(* Every tool has a place of its own in the catalog.                       *)
(***************************************************************************)
LEMMA CatalogPlaces ==
  /\ DOMAIN Catalog = 1..12
  /\ \A tool \in Tools : Place(tool) \in 1..12 /\ Catalog[Place(tool)] = tool
<1>1. DOMAIN Catalog = 1..12
  BY DEF Catalog
<1>2. ASSUME NEW tool \in Tools PROVE Place(tool) \in 1..12 /\ Catalog[Place(tool)] = tool
  <2>1. PICK i \in DOMAIN Catalog : Catalog[i] = tool
    BY DEF Tools
  <2> QED
    BY <1>1, <2>1 DEF Place
<1> QED
  BY <1>1, <1>2

(***************************************************************************)
(* The catalog is finite.                                                  *)
(***************************************************************************)
LEMMA ToolsAreFinite == IsFiniteSet(Tools)
<1> DEFINE Has == [i \in 1..12 |-> Catalog[i]]
<1>1. Has \in Surjection(1..12, Tools)
  BY CatalogPlaces DEF Surjection, Tools
<1>2. IsFiniteSet(1..12)
  <2>1. 1 \in Int /\ 12 \in Int
    OBVIOUS
  <2> HIDE DEF Has
  <2> QED
    BY <2>1, FS_Interval
<1> QED
  BY <1>1, <1>2, FS_Surjection

(***************************************************************************)
(* The router ranks the tools it hits: as many ranks as hits, one each.    *)
(***************************************************************************)
LEMMA HitsAreRanked ==
  ASSUME NEW t
  PROVE  /\ IsFiniteSet(Hits(t)) /\ Cardinality(Hits(t)) \in Nat
         /\ \A k \in 0..(Cardinality(Hits(t)) - 1) : \E tool \in Hits(t) : Rank(tool, t) = k
<1> DEFINE Before(tool) == {other \in Hits(t) :
               \/ Score(other, t) > Score(tool, t)
               \/ Score(other, t) = Score(tool, t) /\ Place(other) < Place(tool)}
           N == Cardinality(Hits(t))
           Ranks == [tool \in Hits(t) |-> Rank(tool, t)]
<1>1. Hits(t) \subseteq Tools
  BY DEF Hits
<1>2. IsFiniteSet(Hits(t)) /\ N \in Nat
  BY <1>1, ToolsAreFinite, FS_Subset, FS_CardinalityType
<1>3. \A tool \in Tools : Score(tool, t) \in Nat /\ Place(tool) \in Nat
  BY CatalogPlaces DEF Score
<1>4. \A tool \in Hits(t) : Rank(tool, t) = Cardinality(Before(tool))
  BY DEF Rank
<1>5. \A tool \in Hits(t) : IsFiniteSet(Before(tool)) /\ Cardinality(Before(tool)) \in Nat
  <2> TAKE tool \in Hits(t)
  <2>1. Before(tool) \subseteq Hits(t)
    OBVIOUS
  <2> QED
    BY <1>2, <2>1, FS_Subset, FS_CardinalityType
<1>6. \A tool \in Hits(t) : Rank(tool, t) \in 0..(N - 1)
  <2> TAKE tool \in Hits(t)
  <2>1. Before(tool) \subseteq Hits(t) /\ tool \notin Before(tool)
    BY <1>1, <1>3
  <2>2. /\ Cardinality(Before(tool)) <= N
        /\ Cardinality(Before(tool)) = N => Before(tool) = Hits(t)
    <3> HIDE DEF Before
    <3> QED
      BY <1>2, <2>1, FS_Subset
  <2>3. Before(tool) # Hits(t)
    BY <2>1
  <2> HIDE DEF Before
  <2> QED
    BY <1>2, <1>4, <1>5, <2>2, <2>3
<1>7. ASSUME NEW a \in Hits(t), NEW b \in Hits(t), Rank(a, t) = Rank(b, t) PROVE a = b
  <2>1. ASSUME NEW c \in Hits(t), NEW d \in Hits(t), c \in Before(d)
        PROVE  Cardinality(Before(c)) < Cardinality(Before(d))
    <3>1. Before(c) \subseteq Before(d)
      BY <1>1, <1>3, <2>1
    <3>2. c \notin Before(c)
      BY <1>1, <1>3
    <3> HIDE DEF Before
    <3> QED
      BY <1>5, <2>1, <3>1, <3>2, FS_Subset
  <2>2. a # b => a \in Before(b) \/ b \in Before(a)
    <3>1. a # b => Place(a) # Place(b)
      BY <1>1, CatalogPlaces
    <3> QED
      BY <1>1, <1>3, <3>1
  <2> HIDE DEF Before
  <2> QED
    BY <1>4, <1>5, <1>7, <2>1, <2>2
<1>8. Ranks \in Injection(Hits(t), 0..(N - 1))
  BY <1>6, <1>7 DEF Injection, IsInjective
<1>9. IsFiniteSet(0..(N - 1)) /\ Cardinality(0..(N - 1)) = N
  BY <1>2, FS_Interval
<1>10. Ranks \in Surjection(Hits(t), 0..(N - 1))
  <2> HIDE DEF Ranks, N
  <2>1. Cardinality(Hits(t)) = Cardinality(0..(N - 1))
    BY <1>9 DEF N
  <2> QED
    BY <1>8, <1>9, <2>1, FS_Injection
<1> QED
  BY <1>2, <1>10 DEF Surjection

(***************************************************************************)
(* The router picks at most MaxTools tools, each once.                     *)
(***************************************************************************)
LEMMA RouterPicks ==
  ASSUME NEW t
  PROVE  /\ RouteTools(t) \in Seq(Tools)
         /\ Len(RouteTools(t)) <= MaxTools
         /\ \A i, j \in DOMAIN RouteTools(t) : RouteTools(t)[i] = RouteTools(t)[j] => i = j
<1> DEFINE N == IF Cardinality(Hits(t)) < MaxTools THEN Cardinality(Hits(t)) ELSE MaxTools
           R == RouteTools(t)
<1>1. N \in Nat /\ N <= MaxTools /\ N <= Cardinality(Hits(t)) /\ Cardinality(Hits(t)) \in Nat
  BY HitsAreRanked, ToolPlanAssumption
<1>2. R = [i \in 1..N |-> CHOOSE tool \in Hits(t) : Rank(tool, t) = i - 1]
  BY DEF RouteTools
<1> HIDE DEF N, R
<1>3. \A i \in 1..N : R[i] \in Hits(t) /\ Rank(R[i], t) = i - 1
  <2> TAKE i \in 1..N
  <2>1. i - 1 \in 0..(Cardinality(Hits(t)) - 1)
    BY <1>1
  <2>2. PICK tool \in Hits(t) : Rank(tool, t) = i - 1
    BY <2>1, HitsAreRanked
  <2> QED
    BY <1>2, <2>2
<1>4. Hits(t) \subseteq Tools
  BY DEF Hits
<1>5. R \in [1..N -> Tools]
  BY <1>2, <1>3, <1>4
<1>6. R \in Seq(Tools) /\ Len(R) = N /\ DOMAIN R = 1..N
  BY <1>1, <1>5
<1>7. \A i, j \in 1..N : R[i] = R[j] => i = j
  BY <1>1, <1>3
<1> QED
  BY <1>1, <1>6, <1>7 DEF R

\* Where the plan is: between plans every call of the last one ran, and what is planned still fits.
Bounds ==
    /\ phase = "planning" =>
          at = 1 /\ Len(calls) <= ceiling /\ Len(log) + refused + ceiling <= MaxTools
    /\ phase \in {"model", "deciding", "over"} => at = Len(calls) + 1
    /\ phase # "over" => pass <= Rounds
    /\ Len(log) + Len(calls) + 1 - at <= MaxTools
    /\ IsFiniteSet(rejected)

\* The calls that have not run yet.
Pending == at..Len(calls)

\* A later call may only be the model's, with other arguments.
Differs(earlier, later) ==
    earlier.name = later.name => later.source = "model" /\ later.args # earlier.args

\* No call twice, with those that wait.
Distinct ==
    /\ NoCallTwice
    /\ \A i \in DOMAIN log, k \in Pending : Differs(log[i].call, calls[k])
    /\ \A i, k \in Pending : i < k => Differs(calls[i], calls[k])

\* Dead tools rest, also those of the calls that wait.
Resting ==
    /\ DeadToolsRest
    /\ \A i \in DOMAIN log, k \in Pending :
          log[i].verdict = "dead" /\ log[i].call.name = calls[k].name => log[i].pass = pass

\* The calls of a tool that ran, and those that wait.
RanOf(tool) == {i \in DOMAIN log : log[i].call.name = tool}
WaitOf(tool) == {i \in Pending : calls[i].name = tool}

Counted ==
    \A tool \in Limited : Cardinality(RanOf(tool)) + Cardinality(WaitOf(tool)) <= CallLimit

\* A call joins the plan.
Adds(c) ==
    /\ phase = "planning" /\ phase' = "planning"
    /\ c \in Planned
    /\ Len(calls) < ceiling
    /\ calls' = Append(calls, c)
    /\ \A i \in DOMAIN log : Differs(log[i].call, c)
    /\ \A i \in DOMAIN calls : Differs(calls[i], c)
    /\ c.name \notin DeadTools
    /\ ~AtLimit(c.name)
    /\ UNCHANGED <<text, pass, batch, ceiling, at, rejected, unread, blocked, log, misread, barred, refused>>

\* The plan is looked at, no call joins it.
Looks ==
    /\ phase = "planning" /\ phase' = "planning"
    /\ UNCHANGED <<text, pass, batch, ceiling, at, calls, log, misread, barred, refused>>

(***************************************************************************)
(* An accepted call is one that joins the plan.                            *)
(***************************************************************************)
LEMMA AcceptAdds ==
  ASSUME TypeOK, phase = "planning", phase' = "planning", NEW call \in Call, Accept(call),
         Len(calls) < ceiling, UNCHANGED <<text, pass, batch, ceiling, at, log, misread, barred, refused>>
  PROVE  \E c \in Planned : Adds(c)
<1> DEFINE c == [source |-> "model", name |-> call.name, args |-> call.args]
<1>1. c \in Planned
  BY DEF Accept, Fresh, Call, Planned
<1>2. \A i \in DOMAIN log : Differs(log[i].call, c)
  BY DEF Accept, Fresh, Differs, ExecutedKeys, Key
<1>3. \A i \in DOMAIN calls : Differs(calls[i], c)
  BY DEF Accept, Fresh, Differs, ExecutedKeys, Key
<1>4. c.name \notin DeadTools /\ ~AtLimit(c.name)
  BY DEF Accept, Barred
<1> QED
  BY <1>1, <1>2, <1>3, <1>4 DEF Adds, Accept, Fresh

(***************************************************************************)
(* The name of a call that ran or is planned is an executed name.          *)
(***************************************************************************)
LEMMA NamesExecuted ==
  /\ \A i \in DOMAIN log : log[i].call.name \in ExecutedNames
  /\ \A i \in DOMAIN calls : calls[i].name \in ExecutedNames
<1>1. \A i \in DOMAIN log : Key(log[i].call) \in ExecutedKeys
  BY DEF ExecutedKeys
<1>2. \A i \in DOMAIN calls : Key(calls[i]) \in ExecutedKeys
  BY DEF ExecutedKeys
<1>3. \A c : Key(c)[1] = c.name
  BY DEF Key
<1>4. \A key \in ExecutedKeys : key[1] \in ExecutedNames
  BY DEF ExecutedNames
<1> QED
  BY <1>1, <1>2, <1>3, <1>4

(***************************************************************************)
(* A pick of the router joins the plan.                                    *)
(***************************************************************************)
LEMMA RouteAdds ==
  ASSUME TypeOK, Route
  PROVE  \E c \in Planned : Adds(c)
<1>1. Routed \subseteq DOMAIN RouteTools(text)
  BY DEF Routed
<1>2. RouteTools(text) \in Seq(Tools)
  BY RouterPicks
<1>3. PICK first \in Routed : calls' = Append(calls, Pick(RouteTools(text)[first]))
  BY DEF Route
<1> DEFINE tool == RouteTools(text)[first]
           c == Pick(tool)
<1>4. tool \in Tools /\ tool \notin ExecutedNames \cup DeadTools /\ ~AtLimit(tool)
  BY <1>1, <1>2, <1>3 DEF Routed
<1> HIDE DEF tool
<1>5. c \in Planned /\ c.name = tool
  BY <1>4 DEF Pick, Planned, Nothing
<1>6. \A i \in DOMAIN log : log[i].call.name # c.name
  BY <1>4, <1>5, NamesExecuted
<1>7. \A i \in DOMAIN calls : calls[i].name # c.name
  BY <1>4, <1>5, NamesExecuted
<1>8. calls' = Append(calls, c)
  BY <1>3 DEF tool
<1> HIDE DEF c
<1> QED
  BY <1>4, <1>5, <1>6, <1>7, <1>8 DEF Adds, Route, Differs, results

(***************************************************************************)
(* A turn of the planning loop adds a call or looks only.                  *)
(***************************************************************************)
LEMMA ConsiderAddsOrLooks ==
  ASSUME TypeOK, Consider
  PROVE  Looks \/ \E c \in Planned : Adds(c)
<1> DEFINE call == batch[next]
<1>1. call \in Call
  BY DEF Consider, TypeOK
<1>2. CASE Accept(call)
  BY <1>1, <1>2, AcceptAdds DEF Consider, results
<1>3. CASE Unknown(call) \/ PassedOver(call) \/ BlockedCall(call) \/ Malformed(call)
  BY <1>3 DEF Consider, Unknown, PassedOver, BlockedCall, Malformed, Looks, results
<1>4. Unknown(call) \/ PassedOver(call) \/ BlockedCall(call) \/ Malformed(call) \/ Accept(call)
  BY DEF Consider
<1> HIDE DEF call
<1> QED
  BY <1>2, <1>3, <1>4

(***************************************************************************)
(* A tool answers with one of the verdicts.                                *)
(***************************************************************************)
LEMMA AnswersAreVerdicts ==
  ASSUME NEW tool \in Tools, NEW hints
  PROVE  Answers(tool, hints) \subseteq Verdicts
<1>1. tool \in {"budget.estimate", "currency.convert", "flights.search", "memory.remember",
               "packing.list", "places.suggest", "stays.search", "trip.outline",
               "visa.notes", "weather.outlook", "web.fetch", "web.search"}
  BY CatalogPlaces DEF Tools, Catalog
<1> QED
  BY <1>1 DEF Answers, Verdicts, OutlineAnswers, BudgetAnswers, PackingAnswers, VisaAnswers,
     IfGiven, PlacesAnswers, CurrencyAnswers, WeatherAnswers, RememberAnswers, FlightAnswers,
     StayAnswers, SearchAnswers, FetchAnswers

(***************************************************************************)
(* The initial states have their types, and the router's picks fit the     *)
(* ceiling.                                                                *)
(***************************************************************************)
LEMMA TypeInit == Init => TypeOK /\ Bounds
<1> SUFFICES ASSUME Init PROVE TypeOK /\ Bounds
  OBVIOUS
<1>1. RouteTools(text) \in Seq(Tools) /\ Len(RouteTools(text)) <= MaxTools
  BY RouterPicks
<1>2. \A tool \in Tools : Pick(tool) \in Planned
  BY DEF Pick, Planned, Nothing
<1>3. calls \in Seq(Planned) /\ Len(calls) <= MaxTools
  <2>1. CASE text.agentic
    BY <2>1, ToolPlanAssumption DEF Init
  <2>2. CASE ~text.agentic
    <3>1. calls = [i \in 1..Len(RouteTools(text)) |-> Pick(RouteTools(text)[i])]
      BY <1>1, <2>2 DEF Init
    <3>2. Len(calls) = Len(RouteTools(text))
      BY <1>1, <3>1
    <3> QED
      BY <1>1, <1>2, <3>1, <3>2
  <2> QED
    BY <2>1, <2>2
<1>4. phase = "model" => calls = <<>>
  BY DEF Init
<1> QED
  BY <1>3, <1>4, ToolPlanAssumption, FS_EmptySet DEF Init, TypeOK, Bounds

(***************************************************************************)
(* Every step keeps the types.                                             *)
(***************************************************************************)
LEMMA TypeStep ==
  ASSUME TypeOK, Bounds, Next
  PROVE  TypeOK'
<1> USE ToolPlanAssumption DEF TypeOK
<1>1. CASE ModelAsks
  <2>1. batch' \in Seq(Call)
    BY <1>1 DEF ModelAsks, Call
  <2>2. ceiling' \in 0..MaxTools
    BY <1>1 DEF ModelAsks, Spent
  <2> QED
    BY <1>1, <2>1, <2>2 DEF ModelAsks, results
<1>2. CASE Consider
  <2> DEFINE call == batch[next]
  <2>1. call \in Call
    BY <1>2 DEF Consider
  <2>2. /\ calls' \in Seq(Planned) /\ Len(calls') >= Len(calls)
        /\ rejected' \in SUBSET (Tools \cup Strangers)
        /\ unread' \in SUBSET (Tools \cup Strangers)
        /\ blocked' \in Seq(Tools)
    <3>1. CASE Unknown(call)
      BY <2>1, <3>1 DEF Unknown, Call
    <3>2. CASE PassedOver(call)
      BY <3>2 DEF PassedOver
    <3>3. CASE BlockedCall(call)
      BY <2>1, <3>3 DEF BlockedCall, Fresh
    <3>4. CASE Malformed(call)
      BY <2>1, <3>4 DEF Malformed, Fresh
    <3>5. CASE Accept(call)
      <4>1. [source |-> "model", name |-> call.name, args |-> call.args] \in Planned
        BY <2>1, <3>5 DEF Accept, Fresh, Call, Planned
      <4> QED
        BY <3>5, <4>1 DEF Accept
    <3>6. Unknown(call) \/ PassedOver(call) \/ BlockedCall(call) \/ Malformed(call) \/ Accept(call)
      BY <1>2 DEF Consider
    <3> HIDE DEF call
    <3> QED
      BY <3>1, <3>2, <3>3, <3>4, <3>5, <3>6
  <2> QED
    BY <1>2, <2>2 DEF Consider, results
<1>3. CASE Route
  <2>1. PICK c \in Planned : Adds(c)
    BY <1>3, RouteAdds
  <2>2. calls' \in Seq(Planned) /\ Len(calls') = Len(calls) + 1
    BY <2>1 DEF Adds
  <2> QED
    BY <1>3, <2>1, <2>2 DEF Adds, Route
<1>4. CASE PlanEnds
  <2>1. UNCHANGED <<text, pass, batch, next, ceiling, calls, at, rejected, unread, blocked,
                    log, misread, barred, refused>>
    BY <1>4 DEF PlanEnds, plan, results
  <2>2. phase' \in {"deciding", "running"}
    BY <1>4 DEF PlanEnds
  <2> QED
    BY <2>1, <2>2
<1>5. CASE RunTool
  <2>0. calls[at] \in Planned
    BY <1>5 DEF RunTool
  <2>1. calls[at] \in Planned /\ calls[at].name \in Tools
    BY <2>0 DEF Planned
  <2>2. PICK verdict \in Verdicts :
           log' = Append(log, [call |-> calls[at], pass |-> pass, verdict |-> verdict])
    BY <1>5, <2>1, AnswersAreVerdicts DEF RunTool
  <2>3. pass \in 1..Rounds
    BY <1>5 DEF RunTool, Bounds
  <2>4. log' \in Seq([call : Planned, pass : 1..Rounds, verdict : Verdicts])
    BY <2>1, <2>2, <2>3
  <2> QED
    BY <1>5, <2>4 DEF RunTool, plan
<1>6. CASE RouterEnds
  BY <1>6 DEF RouterEnds, plan, results
<1>7. CASE PassEnds
  <2>1. IsFiniteSet(Untold)
    BY FS_Subset DEF Untold, Bounds
  <2>2. refused' \in Nat
    BY <1>7, <2>1, FS_CardinalityType DEF PassEnds
  <2>3. misread' \in SUBSET (Tools \cup Strangers) /\ barred' \in SUBSET Tools
    BY <1>7 DEF PassEnds, Untold
  <2>4. pass' \in 1..(Rounds + 1) /\ phase' \in {"model", "over"}
    BY <1>7 DEF PassEnds, NextPass, Bounds
  <2>5. UNCHANGED <<text, batch, next, ceiling, calls, at, rejected, unread, blocked, log>>
    BY <1>7 DEF PassEnds, plan
  <2> QED
    BY <2>2, <2>3, <2>4, <2>5
<1>8. CASE Promises
  BY <1>8 DEF Promises, NextPass, Bounds, plan, results
<1>9. CASE Answered
  BY <1>9 DEF Answered, plan, results
<1> QED
  BY <1>1, <1>2, <1>3, <1>4, <1>5, <1>6, <1>7, <1>8, <1>9 DEF Next

(***************************************************************************)
(* Every step keeps the plan within what is left of the ceiling.           *)
(***************************************************************************)
LEMMA BoundsStep ==
  ASSUME TypeOK, Bounds, Next
  PROVE  Bounds'
<1> USE DEF TypeOK, Bounds
<1>0. MaxTools \in Nat /\ Rounds \in Nat \ {0}
  BY ToolPlanAssumption
<1>1. CASE ModelAsks
  <2>1. calls' = <<>> /\ at' = 1 /\ rejected' = {} /\ UNCHANGED <<log, refused, pass>>
    BY <1>1 DEF ModelAsks, results
  <2>2. phase' = "planning" => Len(log) + refused + ceiling' <= MaxTools /\ 0 <= ceiling'
    <3>1. Spent \in Nat /\ Spent = Len(log) + refused
      BY DEF Spent
    <3>2. CASE Spent < MaxTools
      <4>1. ceiling' = MaxTools - Spent
        BY <1>1, <3>2 DEF ModelAsks
      <4>2. Spent + ceiling' <= MaxTools /\ 0 <= ceiling'
        BY <1>0, <3>1, <3>2, <4>1
      <4> QED
        BY <3>1, <4>2
    <3>3. CASE ~(Spent < MaxTools)
      <4>1. phase' = "deciding"
        BY <1>1, <3>3 DEF ModelAsks
      <4> QED
        BY <4>1
    <3> QED
      BY <3>2, <3>3
  <2>3. phase' \in {"planning", "deciding"} /\ pass <= Rounds /\ Len(log) <= MaxTools
    BY <1>0, <1>1 DEF ModelAsks
  <2>4. IsFiniteSet(rejected')
    BY <2>1, FS_EmptySet
  <2> QED
    BY <1>0, <2>1, <2>2, <2>3, <2>4
<1>2. CASE Consider
  <2>1. CASE Looks
    <3>1. rejected' = rejected \/ \E name : rejected' = rejected \cup {name}
      BY <1>2 DEF Consider, Unknown, PassedOver, BlockedCall, Malformed, Accept
    <3>2. IsFiniteSet(rejected')
      <4>1. ASSUME NEW name PROVE IsFiniteSet(rejected \cup {name})
        BY FS_AddElement
      <4> QED
        BY <3>1, <4>1
    <3> QED
      BY <2>1, <3>2 DEF Looks
  <2>2. ASSUME NEW c \in Planned, Adds(c) PROVE Bounds'
    BY <1>0, <2>2 DEF Adds
  <2> QED
    BY <1>2, <2>1, <2>2, ConsiderAddsOrLooks
<1>3. CASE Route
  <2>1. ASSUME NEW c \in Planned, Adds(c) PROVE Bounds'
    BY <1>0, <2>1 DEF Adds
  <2> QED
    BY <1>3, <2>1, RouteAdds
<1>4. CASE PlanEnds
  BY <1>0, <1>4 DEF PlanEnds, plan, results
<1>5. CASE RunTool
  BY <1>0, <1>5 DEF RunTool, plan
<1>6. CASE RouterEnds
  BY <1>0, <1>6 DEF RouterEnds, plan, results
<1>7. CASE PassEnds
  <2>1. UNCHANGED <<calls, at, log, rejected>>
    BY <1>7 DEF PassEnds, plan
  <2>2. at = Len(calls) + 1
    BY <1>7 DEF PassEnds
  <2>3. phase' \in {"model", "over"} /\ (phase' = "model" => pass' <= Rounds)
    BY <1>0, <1>7 DEF PassEnds, NextPass
  <2> QED
    BY <1>0, <2>1, <2>2, <2>3
<1>8. CASE Promises
  BY <1>0, <1>8 DEF Promises, NextPass, plan, results
<1>9. CASE Answered
  BY <1>0, <1>9 DEF Answered, plan, results
<1> QED
  BY <1>1, <1>2, <1>3, <1>4, <1>5, <1>6, <1>7, <1>8, <1>9 DEF Next

\* No call joins the plan or leaves it.
Between ==
    /\ UNCHANGED <<calls, at, log>>
    /\ pass' = pass \/ (pass' = pass + 1 /\ at = Len(calls) + 1)

\* The oldest call that waits runs.
Runs ==
    /\ phase # "over" /\ at <= Len(calls) /\ at' = at + 1
    /\ UNCHANGED <<calls, pass>>
    /\ \E verdict \in Verdicts :
          log' = Append(log, [call |-> calls[at], pass |-> pass, verdict |-> verdict])

\* A plan begins when no call waits.
Begins ==
    /\ at = Len(calls) + 1
    /\ calls' = <<>> /\ at' = 1
    /\ UNCHANGED <<log, pass>>

(***************************************************************************)
(* The next planned call runs and leaves a result.                         *)
(***************************************************************************)
LEMMA RunToolRuns ==
  ASSUME TypeOK, RunTool
  PROVE  Runs
<1>1. calls[at] \in Planned
  BY DEF RunTool, TypeOK
<1>2. calls[at].name \in Tools
  BY <1>1 DEF Planned
<1> QED
  BY <1>2, AnswersAreVerdicts DEF RunTool, Runs, plan

(***************************************************************************)
(* What a step does to the calls and the results.                          *)
(***************************************************************************)
LEMMA StepKinds ==
  ASSUME TypeOK, Bounds, Next
  PROVE  Between \/ Runs \/ Begins \/ \E c \in Planned : Adds(c)
<1>1. CASE ModelAsks
  BY <1>1 DEF ModelAsks, results, Begins, Bounds
<1>2. CASE Consider
  BY <1>2, ConsiderAddsOrLooks DEF Looks, Between
<1>3. CASE Route
  BY <1>3, RouteAdds
<1>4. CASE PlanEnds
  BY <1>4 DEF PlanEnds, plan, results, Between
<1>5. CASE RunTool
  BY <1>5, RunToolRuns
<1>6. CASE RouterEnds
  BY <1>6 DEF RouterEnds, plan, results, Between
<1>7. CASE PassEnds
  BY <1>7 DEF PassEnds, NextPass, plan, Between, TypeOK
<1>8. CASE Promises
  BY <1>8 DEF Promises, NextPass, plan, results, Between, Bounds
<1>9. CASE Answered
  BY <1>9 DEF Answered, plan, results, Between
<1> QED
  BY <1>1, <1>2, <1>3, <1>4, <1>5, <1>6, <1>7, <1>8, <1>9 DEF Next

(***************************************************************************)
(* A call that runs moves from those that wait to the results.             *)
(***************************************************************************)
LEMMA LogGrows ==
  ASSUME TypeOK, Bounds, Runs
  PROVE  /\ DOMAIN log = 1..Len(log) /\ DOMAIN log' = 1..(Len(log) + 1) /\ Len(log) \in Nat
         /\ \A i \in 1..Len(log) : log'[i] = log[i]
         /\ log'[Len(log) + 1].call = calls[at] /\ log'[Len(log) + 1].pass = pass
         /\ Pending' = Pending \ {at} /\ at \in Pending
         /\ \A k \in Pending : k \in Nat /\ at <= k
<1> DEFINE Results == [call : Planned, pass : 1..Rounds, verdict : Verdicts]
<1>1. PICK verdict \in Verdicts :
         log' = Append(log, [call |-> calls[at], pass |-> pass, verdict |-> verdict])
  BY DEF Runs
<1> DEFINE result == [call |-> calls[at], pass |-> pass, verdict |-> verdict]
<1>2. result \in Results
  <2>1. calls[at] \in Planned
    BY DEF Runs, TypeOK
  <2>2. pass \in 1..Rounds
    BY DEF Runs, TypeOK, Bounds
  <2> QED
    BY <2>1, <2>2
<1>3. log \in Seq(Results) /\ log' = Append(log, result)
  BY <1>1 DEF TypeOK
<1>4. result.call = calls[at] /\ result.pass = pass
  OBVIOUS
<1> HIDE DEF Results, result
<1>5. /\ DOMAIN log = 1..Len(log) /\ DOMAIN log' = 1..(Len(log) + 1) /\ Len(log) \in Nat
      /\ \A i \in 1..Len(log) : log'[i] = log[i]
      /\ log'[Len(log) + 1] = result
  BY <1>2, <1>3
<1>6. at \in Nat /\ Len(calls) \in Nat /\ at <= Len(calls)
  BY DEF Runs, TypeOK
<1>7. Pending' = (at + 1)..Len(calls) /\ Pending = at..Len(calls)
  BY DEF Runs, Pending
<1>8. Pending' = Pending \ {at} /\ at \in Pending /\ \A k \in Pending : k \in Nat /\ at <= k
  BY <1>6, <1>7
<1> QED
  BY <1>4, <1>5, <1>8

(***************************************************************************)
(* A call that joins the plan is the last of those that wait.              *)
(***************************************************************************)
LEMMA CallsGrow ==
  ASSUME TypeOK, NEW c \in Planned, Adds(c)
  PROVE  /\ Pending' = Pending \cup {Len(calls) + 1} /\ Len(calls) \in Nat
         /\ DOMAIN log = 1..Len(log)
         /\ \A k \in Pending : calls'[k] = calls[k] /\ k \in DOMAIN calls /\ k \in 1..Len(calls)
         /\ calls'[Len(calls) + 1] = c
  BY DEF Adds, TypeOK, Pending

(***************************************************************************)
(* No step makes two calls the same.                                       *)
(***************************************************************************)
LEMMA DistinctStep ==
  ASSUME TypeOK, TypeOK', Bounds, Distinct, Next
  PROVE  Distinct'
<1> USE DEF Distinct, NoCallTwice, Differs
<1>1. CASE Between
  BY <1>1 DEF Between, Pending
<1>2. CASE Begins
  BY <1>2 DEF Begins, Pending
<1>3. CASE Runs
  <2> USE LogGrows, <1>3
  <2>1. NoCallTwice'
    OBVIOUS
  <2>2. \A i \in DOMAIN log', k \in Pending' : Differs(log'[i].call, calls'[k])
    <3> TAKE i \in DOMAIN log', k \in Pending'
    <3>1. CASE i \in 1..Len(log)
      BY <3>1 DEF Runs
    <3>2. CASE i = Len(log) + 1
      BY <3>2 DEF Runs
    <3> QED
      BY <3>1, <3>2
  <2>3. \A i, k \in Pending' : i < k => Differs(calls'[i], calls'[k])
    BY DEF Runs
  <2> QED
    BY <2>1, <2>2, <2>3
<1>4. ASSUME NEW c \in Planned, Adds(c) PROVE Distinct'
  <2> USE CallsGrow, <1>4 DEF Adds
  <2>1. NoCallTwice'
    OBVIOUS
  <2>2. \A i \in DOMAIN log', k \in Pending' : Differs(log'[i].call, calls'[k])
    OBVIOUS
  <2>3. \A i, k \in Pending' : i < k => Differs(calls'[i], calls'[k])
    OBVIOUS
  <2> QED
    BY <2>1, <2>2, <2>3
<1> QED
  BY <1>1, <1>2, <1>3, <1>4, StepKinds

(***************************************************************************)
(* No step plans a tool that is dead.                                      *)
(***************************************************************************)
LEMMA RestingStep ==
  ASSUME TypeOK, TypeOK', Bounds, Resting, Next
  PROVE  Resting'
<1> USE DEF Resting, DeadToolsRest
<1>1. CASE Between
  <2>1. UNCHANGED <<calls, at, log>>
    BY <1>1 DEF Between
  <2>2. CASE pass' = pass
    BY <2>1, <2>2 DEF Pending
  <2>3. CASE at = Len(calls) + 1
    <3>1. Pending' = {}
      BY <2>1, <2>3 DEF Pending, TypeOK
    <3> QED
      BY <2>1, <3>1
  <2> QED
    BY <1>1, <2>2, <2>3 DEF Between
<1>2. CASE Begins
  BY <1>2 DEF Begins, Pending
<1>3. CASE Runs
  BY <1>3, LogGrows DEF Runs
<1>4. ASSUME NEW c \in Planned, Adds(c) PROVE Resting'
  <2>1. \A i \in DOMAIN log : log[i].verdict = "dead" => log[i].call.name # c.name
    BY <1>4 DEF Adds, DeadTools
  <2> QED
    BY <1>4, <2>1, CallsGrow DEF Adds
<1> QED
  BY <1>1, <1>2, <1>3, <1>4, StepKinds

(***************************************************************************)
(* The counts of a tool are numbers.                                       *)
(***************************************************************************)
LEMMA CountsAreFinite ==
  ASSUME TypeOK, NEW tool
  PROVE  /\ IsFiniteSet(RanOf(tool)) /\ Cardinality(RanOf(tool)) \in Nat
         /\ IsFiniteSet(WaitOf(tool)) /\ Cardinality(WaitOf(tool)) \in Nat
<1>1. IsFiniteSet(1..Len(log)) /\ IsFiniteSet(at..Len(calls))
  <2>1. Len(log) \in Int /\ at \in Int /\ Len(calls) \in Int /\ 1 \in Int
    BY DEF TypeOK
  <2> QED
    BY <2>1, FS_Interval
<1>2. RanOf(tool) \subseteq 1..Len(log) /\ WaitOf(tool) \subseteq at..Len(calls)
  BY DEF RanOf, WaitOf, Pending, TypeOK
<1> QED
  BY <1>1, <1>2, FS_Subset, FS_CardinalityType

(***************************************************************************)
(* No step takes a limited tool beyond its limit.                          *)
(***************************************************************************)
LEMMA CountedStep ==
  ASSUME TypeOK, TypeOK', Bounds, Counted, Next
  PROVE  Counted'
<1> SUFFICES ASSUME NEW tool \in Limited
             PROVE  Cardinality(RanOf(tool)') + Cardinality(WaitOf(tool)') <= CallLimit
  BY DEF Counted
<1>0. CallLimit \in Nat /\ Cardinality(RanOf(tool)) + Cardinality(WaitOf(tool)) <= CallLimit
  BY ToolPlanAssumption DEF Counted
<1>1. CASE Between
  <2>1. RanOf(tool)' = RanOf(tool) /\ WaitOf(tool)' = WaitOf(tool)
    BY <1>1 DEF Between, RanOf, WaitOf, Pending
  <2> QED
    BY <1>0, <2>1
<1>2. CASE Begins
  <2>1. RanOf(tool)' = RanOf(tool) /\ WaitOf(tool)' = {} /\ WaitOf(tool) = {}
    BY <1>2 DEF Begins, RanOf, WaitOf, Pending, TypeOK
  <2> QED
    BY <1>0, <2>1
<1>3. CASE Runs
  <2> DEFINE n == Len(log) + 1
  <2>1. CASE calls[at].name = tool
    <3>1. RanOf(tool)' = RanOf(tool) \cup {n} /\ n \notin RanOf(tool)
      BY <1>3, <2>1, LogGrows DEF RanOf
    <3>2. WaitOf(tool)' = WaitOf(tool) \ {at} /\ at \in WaitOf(tool)
      BY <1>3, <2>1, LogGrows DEF WaitOf, Runs
    <3>3. Cardinality(RanOf(tool)') = Cardinality(RanOf(tool)) + 1
      BY <3>1, CountsAreFinite, FS_AddElement
    <3>4. Cardinality(WaitOf(tool)') = Cardinality(WaitOf(tool)) - 1
      BY <3>2, CountsAreFinite, FS_RemoveElement
    <3> QED
      BY <1>0, <3>3, <3>4, CountsAreFinite
  <2>2. CASE calls[at].name # tool
    <3>1. RanOf(tool)' = RanOf(tool)
      BY <1>3, <2>2, LogGrows DEF RanOf
    <3>2. WaitOf(tool)' = WaitOf(tool)
      BY <1>3, <2>2, LogGrows DEF WaitOf, Runs
    <3> QED
      BY <1>0, <3>1, <3>2
  <2> QED
    BY <2>1, <2>2
<1>4. ASSUME NEW c \in Planned, Adds(c)
      PROVE  Cardinality(RanOf(tool)') + Cardinality(WaitOf(tool)') <= CallLimit
  <2> DEFINE n == Len(calls) + 1
  <2>1. RanOf(tool)' = RanOf(tool)
    BY <1>4 DEF Adds, RanOf
  <2>2. CASE c.name = tool
    <3>1. WaitOf(tool)' = WaitOf(tool) \cup {n}
      BY <1>4, <2>2, CallsGrow DEF WaitOf
    <3>2. Cardinality(WaitOf(tool)') <= Cardinality(WaitOf(tool)) + 1
      <4> HIDE DEF n
      <4>1. Cardinality(WaitOf(tool) \cup {n}) =
              IF n \in WaitOf(tool) THEN Cardinality(WaitOf(tool)) ELSE Cardinality(WaitOf(tool)) + 1
        BY CountsAreFinite, FS_AddElement
      <4> QED
        BY <3>1, <4>1, CountsAreFinite
    <3>3. WaitOf(tool) = {i \in DOMAIN calls : calls[i].name = tool}
      BY <1>4 DEF Adds, Bounds, TypeOK, WaitOf, Pending
    <3>4. Cardinality(RanOf(tool)) + Cardinality(WaitOf(tool)) < CallLimit
      <4>1. Used(tool) = Cardinality(RanOf(tool)) + Cardinality(WaitOf(tool))
        BY <3>3 DEF Used, RanOf
      <4>2. ~(Used(tool) >= CallLimit)
        BY <1>4, <2>2 DEF Adds, AtLimit
      <4> QED
        BY <1>0, <4>1, <4>2, CountsAreFinite
    <3>5. Cardinality(WaitOf(tool)') \in Nat
      <4>1. IsFiniteSet(WaitOf(tool)')
        BY <3>1, CountsAreFinite, FS_AddElement
      <4> QED
        BY <4>1, FS_CardinalityType
    <3> QED
      BY <1>0, <2>1, <3>2, <3>4, <3>5, CountsAreFinite
  <2>3. CASE c.name # tool
    <3>1. WaitOf(tool)' = WaitOf(tool)
      BY <1>4, <2>3, CallsGrow DEF WaitOf
    <3> QED
      BY <1>0, <2>1, <3>1
  <2> QED
    BY <2>2, <2>3
<1> QED
  BY <1>1, <1>2, <1>3, <1>4, StepKinds

\* The names that have a result, that are planned, or that the desk refuses in this plan.
RanNames == {log[i].call.name : i \in DOMAIN log}
PlanNames == {calls[i].name : i \in DOMAIN calls}
BarredNames == {blocked[i] : i \in DOMAIN blocked}
Full == Cardinality(rejected) >= ceiling

\* Every call that was looked at is on its way to an answer.
Heard ==
    /\ \/ Full
       \/ /\ unread \subseteq rejected
          /\ phase \in {"planning", "running", "deciding"} =>
                \A i \in 1..(next - 1) :
                   batch[i].name \in RanNames \cup PlanNames \cup BarredNames \cup rejected
    /\ \A k \in 1..(at - 1) : calls[k].name \in RanNames
    /\ phase = "deciding" => calls = <<>> /\ blocked = <<>> /\ rejected = {}
    /\ phase = "router" => next = 1
    /\ CallsAreAnswered

(***************************************************************************)
(* A call that joins the plan is named in it.                              *)
(***************************************************************************)
LEMMA PlanGrows ==
  ASSUME TypeOK, NEW c \in Planned, calls' = Append(calls, c)
  PROVE  PlanNames' = PlanNames \cup {c.name}
<1>1. calls \in Seq(Planned)
  BY DEF TypeOK
<1>2. /\ Len(calls) \in Nat /\ DOMAIN calls = 1..Len(calls) /\ DOMAIN calls' = 1..(Len(calls) + 1)
      /\ \A i \in 1..Len(calls) : calls'[i] = calls[i]
      /\ calls'[Len(calls) + 1] = c
  BY <1>1
<1> QED
  BY <1>2 DEF PlanNames

(***************************************************************************)
(* A call that is refused is named among the refused.                      *)
(***************************************************************************)
LEMMA BarsGrow ==
  ASSUME TypeOK, NEW name \in Tools, blocked' = Append(blocked, name)
  PROVE  BarredNames' = BarredNames \cup {name}
<1>1. blocked \in Seq(Tools)
  BY DEF TypeOK
<1>2. /\ Len(blocked) \in Nat /\ DOMAIN blocked = 1..Len(blocked)
      /\ DOMAIN blocked' = 1..(Len(blocked) + 1)
      /\ \A i \in 1..Len(blocked) : blocked'[i] = blocked[i]
      /\ blocked'[Len(blocked) + 1] = name
  BY <1>1
<1> QED
  BY <1>2 DEF BarredNames

(***************************************************************************)
(* No step loses a call that was looked at.                                *)
(***************************************************************************)
LEMMA HeardStep ==
  ASSUME TypeOK, TypeOK', Bounds, Heard, Next
  PROVE  Heard'
<1>1. CASE ModelAsks
  <2>1. /\ at' = 1 /\ next' = 1 /\ calls' = <<>> /\ blocked' = <<>> /\ rejected' = {} /\ unread' = {}
        /\ phase' \in {"planning", "deciding"}
    BY <1>1 DEF ModelAsks
  <2> QED
    BY <2>1 DEF Heard, CallsAreAnswered
<1>2. CASE Consider
  <2> DEFINE call == batch[next]
  <2>1. /\ phase = "planning" /\ phase' = "planning" /\ next' = next + 1
        /\ UNCHANGED <<batch, ceiling, at, log>> /\ at = 1
        /\ next \in Nat \ {0}
    BY <1>2 DEF Consider, results, Bounds, TypeOK
  <2>2. RanNames' = RanNames
    BY <2>1 DEF RanNames
  <2>3. /\ rejected \subseteq rejected' /\ PlanNames \subseteq PlanNames'
        /\ BarredNames \subseteq BarredNames'
    <3>1. rejected \subseteq rejected'
      BY <1>2 DEF Consider, Unknown, PassedOver, BlockedCall, Malformed, Accept
    <3>2. PlanNames \subseteq PlanNames'
      <4>1. CASE calls' = calls
        BY <4>1 DEF PlanNames
      <4>2. ASSUME NEW c \in Planned, Adds(c) PROVE PlanNames \subseteq PlanNames'
        BY <4>2, PlanGrows DEF Adds
      <4> QED
        BY <1>2, <4>1, <4>2, ConsiderAddsOrLooks DEF Looks
    <3>3. BarredNames \subseteq BarredNames'
      <4>1. CASE blocked' = blocked
        BY <4>1 DEF BarredNames
      <4>2. CASE call.name \in Tools /\ blocked' = Append(blocked, call.name)
        BY <4>2, BarsGrow
      <4> QED
        BY <1>2, <4>1, <4>2 DEF Consider, Unknown, PassedOver, BlockedCall, Malformed, Accept, Fresh
    <3> QED
      BY <3>1, <3>2, <3>3
  <2>4. Full => Full'
    <3>1. IsFiniteSet(rejected')
      BY <1>2, BoundsStep DEF Bounds
    <3>2. Cardinality(rejected) \in Nat /\ Cardinality(rejected') \in Nat
      BY <3>1, FS_CardinalityType DEF Bounds
    <3>3. Cardinality(rejected) <= Cardinality(rejected')
      BY <2>3, <3>1, FS_Subset
    <3>4. ceiling \in Nat
      BY ToolPlanAssumption DEF TypeOK
    <3> QED
      BY <2>1, <3>2, <3>3, <3>4 DEF Full
  <2>6. call \in Call
    BY <1>2 DEF Consider, TypeOK
  <2>5. Full \/ ( /\ unread' \subseteq rejected'
                  /\ call.name \in RanNames' \cup PlanNames' \cup BarredNames' \cup rejected')
    <3> SUFFICES ASSUME ~Full, unread \subseteq rejected
                 PROVE  /\ unread' \subseteq rejected'
                        /\ call.name \in RanNames' \cup PlanNames' \cup BarredNames' \cup rejected'
      BY DEF Heard
    <3>0. Cardinality(rejected) \in Nat /\ ceiling \in Nat
      BY ToolPlanAssumption, FS_CardinalityType DEF TypeOK, Bounds
    <3>1. CASE Unknown(call)
      <4>1. Cardinality(rejected) < ceiling
        BY <3>0 DEF Full
      <4>2. ~(Cardinality(rejected) >= ceiling)
        BY DEF Full
      <4>3. CASE call.name \in unread
        BY <3>1, <4>3 DEF Unknown
      <4>4. CASE call.name \notin unread
        <5>1. rejected' = rejected \cup {call.name} /\ unread' = unread \cup {call.name}
          BY <3>1, <4>2, <4>4 DEF Unknown
        <5> HIDE DEF call
        <5> QED
          BY <5>1
      <4> QED
        BY <4>3, <4>4
    <3>2. CASE PassedOver(call)
      <4>1. CASE call.name \in unread
        BY <3>2, <4>1 DEF PassedOver
      <4>2. CASE Key(call) \in ExecutedKeys
        <5>1. call.name \in RanNames \cup PlanNames
          BY <4>2 DEF ExecutedKeys, Key, RanNames, PlanNames
        <5> QED
          BY <2>2, <2>3, <3>2, <5>1 DEF PassedOver
      <4> QED
        BY <3>2, <4>1, <4>2 DEF PassedOver
    <3>3. CASE BlockedCall(call)
      <4>1. blocked' = Append(blocked, call.name) /\ UNCHANGED <<rejected, unread>>
        BY <3>3 DEF BlockedCall
      <4>2. call.name \in Tools
        BY <3>3 DEF BlockedCall, Fresh
      <4>4. call.name \in BarredNames'
        BY <4>1, <4>2, BarsGrow
      <4> QED
        BY <4>1, <4>4
    <3>4. CASE Malformed(call)
      <4>1. Cardinality(rejected) < ceiling
        BY <3>0 DEF Full
      <4> QED
        BY <3>4, <4>1 DEF Malformed
    <3>5. CASE Accept(call)
      <4>1. UNCHANGED <<rejected, unread>>
        BY <3>5 DEF Accept
      <4>2. calls' = Append(calls, [source |-> "model", name |-> call.name, args |-> call.args])
        BY <3>5 DEF Accept
      <4> DEFINE c == [source |-> "model", name |-> call.name, args |-> call.args]
      <4>3. c \in Planned /\ c.name = call.name
        BY <3>5, <2>6 DEF Accept, Fresh, Planned, Call
      <4>4. calls' = Append(calls, c)
        BY <4>2
      <4> HIDE DEF c
      <4>5. call.name \in PlanNames'
        BY <4>3, <4>4, PlanGrows
      <4> QED
        BY <4>1, <4>5
    <3>6. Unknown(call) \/ PassedOver(call) \/ BlockedCall(call) \/ Malformed(call) \/ Accept(call)
      BY <1>2 DEF Consider
    <3> HIDE DEF call
    <3> QED
      BY <3>1, <3>2, <3>3, <3>4, <3>5, <3>6
  <2> QED
    BY <2>1, <2>2, <2>3, <2>4, <2>5 DEF Heard, CallsAreAnswered
<1>3. CASE Route
  <2>1. PICK c \in Planned : Adds(c)
    BY <1>3, RouteAdds
  <2>2. PlanNames \subseteq PlanNames'
    BY <2>1, PlanGrows DEF Adds
  <2>3. UNCHANGED <<batch, next, ceiling, at, log, rejected, unread, blocked>> /\ at = 1
        /\ phase = "planning" /\ phase' = "planning"
    BY <1>3 DEF Route, results, Bounds
  <2> QED
    BY <2>2, <2>3 DEF Heard, CallsAreAnswered, RanNames, BarredNames, Full
<1>4. CASE PlanEnds
  <2>1. UNCHANGED <<batch, next, ceiling, calls, at, log, rejected, unread, blocked>>
    BY <1>4 DEF PlanEnds, plan, results
  <2>2. phase = "planning" /\ phase' \in {"deciding", "running"}
    BY <1>4 DEF PlanEnds
  <2>3. phase' = "deciding" => calls = <<>> /\ rejected = {} /\ blocked = <<>>
    BY <1>4 DEF PlanEnds
  <2> QED
    BY <2>1, <2>2, <2>3 DEF Heard, CallsAreAnswered, RanNames, PlanNames, BarredNames, Full
<1>5. CASE RunTool
  <2>1. Runs /\ UNCHANGED <<phase, batch, next, ceiling, rejected, unread, blocked, calls>>
    BY <1>5, RunToolRuns DEF RunTool, plan
  <2>2. RanNames \subseteq RanNames' /\ calls[at].name \in RanNames'
    BY <2>1, LogGrows DEF RanNames
  <2>3. phase \in {"running", "router"} /\ at' = at + 1 /\ at \in Nat
    BY <1>5 DEF RunTool, TypeOK
  <2>4. \A k \in 1..(at' - 1) : calls[k].name \in RanNames'
    BY <2>2, <2>3 DEF Heard
  <2> QED
    BY <2>1, <2>2, <2>3, <2>4 DEF Heard, CallsAreAnswered, PlanNames, BarredNames, Full
<1>6. CASE RouterEnds
  BY <1>6 DEF RouterEnds, plan, results, Heard, CallsAreAnswered, RanNames, PlanNames, BarredNames, Full
<1>7. CASE PassEnds
  <2>1. UNCHANGED <<batch, next, ceiling, calls, at, log, rejected, unread, blocked>>
        /\ phase' \in {"model", "over"} /\ phase = "running"
    BY <1>7 DEF PassEnds, NextPass, plan
  <2>2. PlanNames \subseteq RanNames
    <3>1. calls \in Seq(Planned) /\ at > Len(calls) /\ at \in 1..(Len(calls) + 1)
      BY <1>7 DEF PassEnds, TypeOK
    <3>2. DOMAIN calls = 1..(at - 1)
      BY <3>1
    <3> QED
      BY <3>2 DEF Heard, PlanNames
  <2>3. BarredNames \subseteq barred' /\ rejected \ PlanNames \subseteq misread'
    BY <1>7 DEF PassEnds, BarredNames, Untold, PlanNames
  <2> QED
    BY <2>1, <2>2, <2>3 DEF Heard, CallsAreAnswered, RanNames, Full
<1>8. CASE Promises \/ Answered
  <2>1. UNCHANGED <<batch, next, ceiling, calls, at, log, rejected, unread, blocked, misread, barred>>
        /\ phase = "deciding" /\ phase' \in {"model", "over"}
    BY <1>8 DEF Promises, Answered, NextPass, plan, results
  <2> QED
    BY <2>1 DEF Heard, CallsAreAnswered, RanNames, PlanNames, BarredNames, Full
<1> QED
  BY <1>1, <1>2, <1>3, <1>4, <1>5, <1>6, <1>7, <1>8 DEF Next

\* The inductive invariant.
IInv == TypeOK /\ Bounds /\ Distinct /\ Resting /\ Counted /\ Heard

(***************************************************************************)
(* The initial states satisfy the invariant.                               *)
(***************************************************************************)
LEMMA InitIInv == Init => IInv
<1> SUFFICES ASSUME Init PROVE IInv
  OBVIOUS
<1>1. TypeOK /\ Bounds
  BY TypeInit
<1>2. log = <<>> /\ at = 1 /\ next = 1 /\ rejected = {} /\ unread = {} /\ blocked = <<>>
  BY DEF Init
<1>3. \A i, k \in DOMAIN calls : calls[i].name = calls[k].name => i = k
  <2>1. CASE text.agentic
    BY <2>1 DEF Init
  <2>2. CASE ~text.agentic
    <3>1. calls = [i \in DOMAIN RouteTools(text) |-> Pick(RouteTools(text)[i])]
      BY <2>2 DEF Init
    <3>2. \A i \in DOMAIN calls : i \in DOMAIN RouteTools(text) /\ calls[i].name = RouteTools(text)[i]
      BY <3>1 DEF Pick
    <3> QED
      BY <3>2, RouterPicks
  <2> QED
    BY <2>1, <2>2
<1>4. Pending = DOMAIN calls
  BY <1>1, <1>2 DEF Pending, TypeOK
<1>5. Distinct /\ Resting
  <2>1. DOMAIN log = {} /\ \A i, k \in DOMAIN calls : i < k => i # k
    <3>1. DOMAIN calls \subseteq Nat
      BY <1>1 DEF TypeOK
    <3> QED
      BY <1>2, <3>1
  <2> QED
    BY <1>3, <1>4, <2>1 DEF Distinct, Resting, NoCallTwice, DeadToolsRest, Differs
<1>6. Counted
  <2> SUFFICES ASSUME NEW tool \in Limited
               PROVE  Cardinality(RanOf(tool)) + Cardinality(WaitOf(tool)) <= CallLimit
    BY DEF Counted
  <2>1. RanOf(tool) = {} /\ Cardinality(RanOf(tool)) = 0
    <3>1. RanOf(tool) = {}
      BY <1>2 DEF RanOf
    <3> QED
      BY <3>1, FS_EmptySet
  <2>2. Cardinality(WaitOf(tool)) <= 1 /\ Cardinality(WaitOf(tool)) \in Nat
    <3>1. CASE WaitOf(tool) = {}
      BY <3>1, FS_EmptySet
    <3>2. ASSUME NEW k \in WaitOf(tool)
          PROVE  Cardinality(WaitOf(tool)) <= 1 /\ Cardinality(WaitOf(tool)) \in Nat
      <4>1. WaitOf(tool) = {k}
        BY <1>3, <1>4, <3>2 DEF WaitOf
      <4> QED
        BY <4>1, FS_Singleton
    <3> QED
      BY <3>1, <3>2
  <2> QED
    BY <2>1, <2>2, ToolPlanAssumption
<1>7. Heard
  BY <1>1, <1>2 DEF Init, Heard, CallsAreAnswered
<1> QED
  BY <1>1, <1>5, <1>6, <1>7 DEF IInv

(***************************************************************************)
(* IInv holds in every reachable state.                                    *)
(***************************************************************************)
THEOREM Invariant == Spec => []IInv
<1>1. IInv /\ [Next]_vars => IInv'
  <2> SUFFICES ASSUME IInv, [Next]_vars PROVE IInv'
    OBVIOUS
  <2>1. CASE Next
    <3>1. TypeOK' /\ Bounds'
      BY <2>1, TypeStep, BoundsStep DEF IInv
    <3> QED
      BY <2>1, <3>1, DistinctStep, RestingStep, CountedStep, HeardStep DEF IInv
  <2>2. CASE UNCHANGED vars
    <3> USE <2>2 DEF vars, IInv
    <3>1. TypeOK' /\ Bounds'
      BY DEF TypeOK, Bounds
    <3>2. Distinct' /\ Resting' /\ Counted'
      BY DEF Distinct, Resting, Counted, Pending, RanOf, WaitOf, NoCallTwice, DeadToolsRest
    <3>3. Heard'
      BY DEF Heard, Full, RanNames, PlanNames, BarredNames, CallsAreAnswered
    <3> QED
      BY <3>1, <3>2, <3>3
  <2> QED
    BY <2>1, <2>2
<1> QED
  BY <1>1, InitIInv, PTL DEF Spec

(***************************************************************************)
(* A turn never runs more tools than its ceiling, and no limited tool more *)
(* often than its limit, in all its passes together (MAX_TOOLS_PER_TURN,   *)
(* TOOL_CALL_LIMITS, planToolCalls).                                       *)
(***************************************************************************)
THEOREM LimitsAreKept == Spec => []LimitsHold
<1>1. IInv => LimitsHold
  <2> SUFFICES ASSUME IInv PROVE LimitsHold
    OBVIOUS
  <2>1. Len(log) <= MaxTools
    BY ToolPlanAssumption DEF IInv, Bounds, TypeOK
  <2>2. ASSUME NEW tool \in Limited PROVE Cardinality(RanOf(tool)) <= CallLimit
    BY CountsAreFinite, ToolPlanAssumption DEF IInv, Counted
  <2> QED
    BY <2>1, <2>2 DEF LimitsHold, RanOf
<1> QED
  BY <1>1, Invariant, PTL

(***************************************************************************)
(* The same call is never run twice in a turn, and the router runs no tool *)
(* that ran before it (toolCallKey, executedKeys, executedNames).          *)
(***************************************************************************)
THEOREM CallsAreDistinct == Spec => []NoCallTwice
<1>1. IInv => NoCallTwice
  BY DEF IInv, Distinct
<1> QED
  BY <1>1, Invariant, PTL

(***************************************************************************)
(* A tool that failed for good is not run in a later pass (deadTools).     *)
(***************************************************************************)
THEOREM DeadToolsStayDead == Spec => []DeadToolsRest
<1>1. IInv => DeadToolsRest
  BY DEF IInv, Resting
<1> QED
  BY <1>1, Invariant, PTL

(***************************************************************************)
(* Every call the planner looked at is answered when its pass is over,     *)
(* with a result, a rejection or a refusal (planToolCalls, runToolPlan).   *)
(***************************************************************************)
THEOREM NoCallIsIgnored == Spec => []CallsAreAnswered
<1>1. IInv => CallsAreAnswered
  BY DEF IInv, Heard
<1> QED
  BY <1>1, Invariant, PTL

(***************************************************************************)
(* The variables keep their types.                                         *)
(***************************************************************************)
THEOREM TypeCorrect == Spec => []TypeOK
<1>1. IInv => TypeOK
  BY DEF IInv
<1> QED
  BY <1>1, Invariant, PTL
=============================================================================
