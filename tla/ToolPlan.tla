------------------------------ MODULE ToolPlan ------------------------------
(***************************************************************************)
(* The tools of one turn (runModelRounds, planToolCalls, runToolPlan,      *)
(* routeTools and the tools themselves): what the model asks for, what the *)
(* router adds, what the desk refuses, and what ran.                       *)
(*                                                                         *)
(* A pass offers the catalog to the model, plans its calls one by one,     *)
(* adds the router's picks and runs the plan in order.  The text and the   *)
(* arguments of a call are the fields they give; a tool's answer is one of *)
(* the verdicts the planner tells apart.                                   *)
(***************************************************************************)
EXTENDS Naturals, Sequences, FiniteSets

CONSTANTS MaxTools,  \* MAX_TOOLS_PER_TURN, 3 in the code
          Rounds,    \* AGENTIC_TOOL_ROUNDS, 5 in the code
          Limited,   \* the tools of TOOL_CALL_LIMITS, {"web.search"} in the code
          CallLimit, \* their limit, 2 in the code
          Strangers, \* names a model may use that are not on this desk
          Arguments, \* what a model may write as the arguments of a call
          Batches,   \* the calls a model may make in one pass
          Texts      \* what a traveler may have written

\* BUNDLED_TOOLS, in the order of their names.
Catalog == <<"budget.estimate", "currency.convert", "flights.search", "memory.remember",
             "packing.list", "places.suggest", "stays.search", "trip.outline",
             "visa.notes", "weather.outlook", "web.fetch", "web.search">>

Tools == {Catalog[i] : i \in DOMAIN Catalog}

Fields == {"amount", "checkIn", "checkOut", "days", "departDate", "departMonth",
           "destination", "endDate", "fromCurrency", "origin", "passportCountry", "query",
           "rememberText", "returnDate", "startDate", "toCurrency", "travelers", "url"}

\* Words of a message that routeTools looks for beside a tool's triggers.
Words == {"plan", "budget", "flight", "room", "search"}

ASSUME ToolPlanAssumption ==
    /\ MaxTools \in Nat
    /\ {Rounds, CallLimit} \subseteq Nat \ {0}
    /\ Limited \subseteq Tools
    /\ Strangers \cap Tools = {}
    /\ Arguments \subseteq [gives : SUBSET Fields, valid : BOOLEAN, head : STRING, tail : STRING]
    /\ Batches \subseteq Seq([name : Tools \cup Strangers, args : Arguments])
    /\ Texts \subseteq [says : SUBSET Tools, gives : SUBSET Fields, words : SUBSET Words,
                        agentic : BOOLEAN, network : BOOLEAN]

VARIABLES
    text,     \* the traveler's message; whether the turn's model calls tools, and the network
    phase,    \* what runModelRounds is at
    pass,     \* its round
    batch,    \* completion.toolCalls
    next,     \* the call planToolCalls looks at
    ceiling,  \* what is left for this pass
    calls,    \* ToolPlan.calls
    at,       \* the one of them that runs
    rejected, \* ToolPlan.rejected, by name
    unread,   \* rejectedNames
    blocked,  \* ToolPlan.blocked, by name
    log,      \* the executed results of this turn, in order
    misread,  \* names of the rejections among its results
    barred,   \* names of the blocked calls among its results
    refused   \* how many of its results are rejections or blocked calls

plan == <<batch, next, ceiling, calls, rejected, unread, blocked>>
results == <<log, misread, barred, refused>>
vars == <<text, phase, pass, batch, next, ceiling, calls, at, rejected, unread, blocked,
          log, misread, barred, refused>>

Call == [name : Tools \cup Strangers, args : Arguments]

\* The router's calls have no arguments.
Nothing == [gives |-> {}, valid |-> TRUE, head |-> "", tail |-> ""]

Planned == [source : {"model", "router"}, name : Tools, args : Arguments \cup {Nothing}]
Verdicts == {"ok", "failed", "dead"}

TypeOK ==
    /\ text \in Texts
    /\ phase \in {"router", "model", "planning", "running", "deciding", "over"}
    /\ pass \in 1..(Rounds + 1)
    /\ batch \in Seq(Call)
    /\ next \in 1..(Len(batch) + 1)
    /\ ceiling \in 0..MaxTools
    /\ calls \in Seq(Planned)
    /\ at \in 1..(Len(calls) + 1)
    /\ rejected \in SUBSET (Tools \cup Strangers)
    /\ unread \in SUBSET (Tools \cup Strangers)
    /\ blocked \in Seq(Tools)
    /\ log \in Seq([call : Planned, pass : 1..Rounds, verdict : Verdicts])
    /\ misread \in SUBSET (Tools \cup Strangers)
    /\ barred \in SUBSET Tools
    /\ refused \in Nat

-----------------------------------------------------------------------------
(* The catalog: what a tool needs, and what it answers.                     *)

\* The fields a tool's schema requires.
Required(tool) ==
    CASE tool = "trip.outline" -> {"destination", "startDate"}
      [] tool \in {"budget.estimate", "places.suggest", "weather.outlook"} -> {"destination"}
      [] tool = "currency.convert" -> {"amount", "fromCurrency", "toCurrency"}
      [] tool = "memory.remember" -> {"rememberText"}
      [] tool = "web.search" -> {"query"}
      [] tool = "web.fetch" -> {"url"}
      [] OTHER -> {}

\* The fields it accepts; the schema strips every other one.
Accepted(tool) ==
    Required(tool) \cup
    CASE tool = "trip.outline" -> {"endDate", "days"}
      [] tool = "budget.estimate" -> {"days", "startDate", "endDate", "travelers"}
      [] tool = "packing.list" -> {"destination", "days", "startDate", "endDate"}
      [] tool = "weather.outlook" -> {"startDate"}
      [] tool = "visa.notes" -> {"destination", "passportCountry"}
      [] tool = "flights.search" ->
            {"origin", "destination", "departDate", "departMonth", "returnDate", "travelers"}
      [] tool = "stays.search" -> {"destination", "checkIn", "checkOut", "travelers"}
      [] OTHER -> {}

\* parseToolArgs: not JSON, a field out of range, or a required one missing.
Parses(tool, args) == args.valid /\ Required(tool) \subseteq args.gives

\* mergeHints: the traveler's words and the model's arguments, and an end date from a length.
Hints(tool, args) ==
    LET known == text.gives \cup (args.gives \cap Accepted(tool))
    IN  known \cup IF {"startDate", "days"} \subseteq known THEN {"endDate"} ELSE {}

\* buildOutline: a city and a range of 1 to MAX_OUTLINE_DAYS days, or nothing.
OutlineAnswers(hints) ==
    IF {"destination", "startDate", "endDate"} \subseteq hints THEN {"ok", "failed"} ELSE {"failed"}

\* estimateBudget: a city and 1 to 60 days.
BudgetAnswers(hints) ==
    IF /\ "destination" \in hints
       /\ "days" \in hints \/ {"startDate", "endDate"} \subseteq hints
    THEN {"ok", "failed"} ELSE {"failed"}

\* A list for any climate and length; buildPackingList has a default for both.
PackingAnswers == {"ok"}

\* A checklist for any country; visaNotes rules on none.
VisaAnswers == {"ok"}

IfGiven(fields, hints) == IF fields \subseteq hints THEN {"ok"} ELSE {"failed"}

\* suggestPlaces has generic anchors for a city it does not know.
PlacesAnswers(hints) == IfGiven({"destination"}, hints)

\* convertCurrency takes the desk's table when the live rate fails, and 0 when that has none.
CurrencyAnswers(hints) == IfGiven({"amount", "fromCurrency", "toCurrency"}, hints)

\* weatherOutlook falls back to the seasonal card.
WeatherAnswers(hints) == IfGiven({"destination"}, hints)

RememberAnswers(hints) == IfGiven({"rememberText"}, hints)

\* A fare search without its fields is not repeated, nor one that a source refused for good.
FlightAnswers(hints) ==
    IF /\ {"origin", "destination"} \subseteq hints
       /\ hints \cap {"departDate", "departMonth", "startDate"} # {}
    THEN Verdicts ELSE {"dead"}

StayAnswers(hints) ==
    IF /\ "destination" \in hints
       /\ hints \cap {"startDate", "departDate", "checkIn"} # {}
    THEN Verdicts ELSE {"dead"}

\* web.search writes its own query when it has none; offline no query reaches anything.
SearchAnswers == {"failed", IF text.network THEN "ok" ELSE "dead"}

\* A page that was not read may be another page next time, also offline.
FetchAnswers(hints) ==
    {"failed"} \cup IF text.network /\ "url" \in hints THEN {"ok"} ELSE {}

\* What runTool may return; a tool that throws becomes a failed result.
Answers(tool, hints) ==
    {"failed"} \cup
    CASE tool = "trip.outline" -> OutlineAnswers(hints)
      [] tool = "budget.estimate" -> BudgetAnswers(hints)
      [] tool = "packing.list" -> PackingAnswers
      [] tool = "places.suggest" -> PlacesAnswers(hints)
      [] tool = "currency.convert" -> CurrencyAnswers(hints)
      [] tool = "weather.outlook" -> WeatherAnswers(hints)
      [] tool = "visa.notes" -> VisaAnswers
      [] tool = "memory.remember" -> RememberAnswers(hints)
      [] tool = "flights.search" -> FlightAnswers(hints)
      [] tool = "stays.search" -> StayAnswers(hints)
      [] tool = "web.search" -> SearchAnswers
      [] tool = "web.fetch" -> FetchAnswers(hints)

-----------------------------------------------------------------------------
(* The router.                                                              *)

\* structuredHit: the message gives what the tool is for.
StructuredHit(tool, t) ==
    \/ /\ tool = "trip.outline" /\ "destination" \in t.gives
       /\ "startDate" \in t.gives \/ ("plan" \in t.words /\ "days" \in t.gives)
    \/ /\ tool = "budget.estimate" /\ "destination" \in t.gives /\ "budget" \in t.words
       /\ t.gives \cap {"days", "startDate"} # {}
    \/ tool \in {"currency.convert", "memory.remember"} /\ Required(tool) \subseteq t.gives
    \/ tool = "flights.search" /\ "flight" \in t.words /\ t.gives \cap {"origin", "destination"} # {}
    \/ tool = "stays.search" /\ "room" \in t.words /\ "destination" \in t.gives
    \/ tool = "web.fetch" /\ "url" \in t.gives
    \/ tool = "web.search" /\ "search" \in t.words

Score(tool, t) ==
    (IF tool \in t.says THEN 2 ELSE 0) + (IF StructuredHit(tool, t) THEN 3 ELSE 0)

\* A price is never looked up on the web unless the model asks for it.
Hits(t) ==
    {tool \in Tools : Score(tool, t) > 0}
        \ (IF t.words \cap {"flight", "room"} # {} THEN {"web.search"} ELSE {})

Place(tool) == CHOOSE i \in DOMAIN Catalog : Catalog[i] = tool

\* How many tools come before this one: a higher score, or the same and an earlier name.
Rank(tool, t) ==
    Cardinality({other \in Hits(t) :
        \/ Score(other, t) > Score(tool, t)
        \/ Score(other, t) = Score(tool, t) /\ Place(other) < Place(tool)})

\* routeTools: the best MaxTools of them.
RouteTools(t) ==
    [i \in 1..(IF Cardinality(Hits(t)) < MaxTools THEN Cardinality(Hits(t)) ELSE MaxTools) |->
        CHOOSE tool \in Hits(t) : Rank(tool, t) = i - 1]

Pick(tool) == [source |-> "router", name |-> tool, args |-> Nothing]

-----------------------------------------------------------------------------
Init ==
    /\ text \in Texts
    /\ phase = IF text.agentic THEN "model" ELSE "router"
    /\ pass = 1
    /\ calls = IF text.agentic THEN <<>>
               ELSE [i \in DOMAIN RouteTools(text) |-> Pick(RouteTools(text)[i])]
    /\ at = 1
    /\ batch = <<>> /\ next = 1 /\ ceiling = 0
    /\ rejected = {} /\ unread = {} /\ blocked = <<>>
    /\ log = <<>> /\ misread = {} /\ barred = {} /\ refused = 0

\* results.length
Spent == Len(log) + refused

\* deadTools: the tools that failed this turn for a reason a retry cannot fix.
DeadTools == {log[i].call.name : i \in {j \in DOMAIN log : log[j].verdict = "dead"}}

\* toolCallKey keeps the first 600 characters of the arguments.
Key(call) == <<call.name, call.args.head>>

\* executedKeys: what ran in earlier passes, and what this plan already holds.
ExecutedKeys == {Key(log[i].call) : i \in DOMAIN log} \cup {Key(calls[i]) : i \in DOMAIN calls}

ExecutedNames == {key[1] : key \in ExecutedKeys}

Used(tool) ==
    Cardinality({i \in DOMAIN log : log[i].call.name = tool})
        + Cardinality({i \in DOMAIN calls : calls[i].name = tool})

\* Variant: the limit looks at this plan only.
AtLimitOfThisPass(tool) ==
    tool \in Limited /\ Cardinality({i \in DOMAIN calls : calls[i].name = tool}) >= CallLimit

AtLimit(tool) == tool \in Limited /\ Used(tool) >= CallLimit

\* The model is asked with the catalog and makes calls, or none.
ModelAsks ==
    /\ phase = "model"
    /\ batch' \in Batches
    /\ next' = 1
    /\ ceiling' = IF Spent < MaxTools THEN MaxTools - Spent ELSE 0
    /\ calls' = <<>> /\ rejected' = {} /\ unread' = {} /\ blocked' = <<>> /\ at' = 1
    /\ phase' = IF ceiling' = 0 THEN "deciding" ELSE "planning"
    /\ UNCHANGED <<text, pass, results>>

\* The call is not on this desk.
Unknown(call) ==
    /\ call.name \in Strangers
    /\ \/ /\ Cardinality(rejected) < ceiling /\ call.name \notin unread
          /\ unread' = unread \cup {call.name}
          /\ rejected' = rejected \cup {call.name}
       \/ /\ Cardinality(rejected) >= ceiling \/ call.name \in unread
          /\ UNCHANGED <<rejected, unread>>
    /\ UNCHANGED <<calls, blocked>>

\* The same call ran before, or a call of this tool could not be read.
PassedOver(call) ==
    /\ call.name \in Tools
    /\ Key(call) \in ExecutedKeys \/ call.name \in unread
    /\ UNCHANGED <<calls, rejected, unread, blocked>>

\* Neither of the two, so far.
Fresh(call) == call.name \in Tools /\ Key(call) \notin ExecutedKeys /\ call.name \notin unread

\* Variant: a dead tool is called again if it is given other arguments.
BarredIfRepeated(call) ==
    \/ \E i \in DOMAIN log : log[i].verdict = "dead" /\ Key(log[i].call) = Key(call)
    \/ AtLimit(call.name)

Barred(call) == call.name \in DeadTools \/ AtLimit(call.name)

\* The desk answers with a sentence instead of a result.
BlockedCall(call) ==
    /\ Fresh(call) /\ Barred(call)
    /\ blocked' = Append(blocked, call.name)
    /\ UNCHANGED <<calls, rejected, unread>>

\* Variant: a second tool whose call cannot be read is dropped in silence.
MalformedOnce(call) ==
    /\ Fresh(call) /\ ~Barred(call) /\ ~Parses(call.name, call.args)
    /\ unread' = unread \cup {call.name}
    /\ rejected' = IF rejected = {} THEN {call.name} ELSE rejected
    /\ UNCHANGED <<calls, blocked>>

Malformed(call) ==
    /\ Fresh(call) /\ ~Barred(call) /\ ~Parses(call.name, call.args)
    /\ unread' = unread \cup {call.name}
    /\ rejected' = IF Cardinality(rejected) < ceiling THEN rejected \cup {call.name} ELSE rejected
    /\ UNCHANGED <<calls, blocked>>

Accept(call) ==
    /\ Fresh(call) /\ ~Barred(call) /\ Parses(call.name, call.args)
    /\ calls' = Append(calls, [source |-> "model", name |-> call.name, args |-> call.args])
    /\ UNCHANGED <<rejected, unread, blocked>>

\* One turn of the loop over the model's calls.
Consider ==
    /\ phase = "planning"
    /\ next <= Len(batch) /\ Len(calls) < ceiling
    /\ LET call == batch[next]
       IN  Unknown(call) \/ PassedOver(call) \/ BlockedCall(call) \/ Malformed(call) \/ Accept(call)
    /\ next' = next + 1
    /\ UNCHANGED <<text, phase, pass, batch, ceiling, at, results>>

\* What the router may still add in this pass; it picks in the first pass only.
Routed ==
    IF pass = 1 THEN {i \in DOMAIN RouteTools(text) :
                         LET tool == RouteTools(text)[i]
                         IN  tool \notin ExecutedNames \cup DeadTools /\ ~AtLimit(tool)}
    ELSE {}

\* One turn of the loop over the router's picks.
Route ==
    /\ phase = "planning"
    /\ next > Len(batch) /\ Len(calls) < ceiling
    /\ \E first \in Routed :
          /\ \A i \in Routed : first <= i
          /\ calls' = Append(calls, Pick(RouteTools(text)[first]))
    /\ UNCHANGED <<text, phase, pass, batch, next, ceiling, at, rejected, unread, blocked, results>>

PlanEnds ==
    /\ phase = "planning"
    /\ \/ Len(calls) >= ceiling
       \/ next > Len(batch) /\ Routed = {}
    /\ phase' = IF calls = <<>> /\ rejected = {} /\ blocked = <<>> THEN "deciding" ELSE "running"
    /\ UNCHANGED <<text, pass, plan, at, results>>

\* runTool: the next planned call runs; its result is kept.
RunTool ==
    /\ phase \in {"running", "router"}
    /\ at <= Len(calls)
    /\ \E verdict \in Answers(calls[at].name, Hints(calls[at].name, calls[at].args)) :
          log' = Append(log, [call |-> calls[at], pass |-> pass, verdict |-> verdict])
    /\ at' = at + 1
    /\ UNCHANGED <<text, phase, pass, plan, misread, barred, refused>>

\* The turn without a tool-calling model ends after the router's picks.
RouterEnds ==
    /\ phase = "router"
    /\ at > Len(calls)
    /\ phase' = "over"
    /\ UNCHANGED <<text, pass, plan, at, results>>

NextPass ==
    /\ pass' = pass + 1
    /\ phase' = IF pass < Rounds THEN "model" ELSE "over"

\* A rejection of a tool that ran after all is not told.
Untold == rejected \ {calls[i].name : i \in DOMAIN calls}

\* The plan ran: its blocked calls and rejections join the results.
PassEnds ==
    /\ phase = "running"
    /\ at > Len(calls)
    /\ misread' = misread \cup Untold
    /\ barred' = barred \cup {blocked[i] : i \in DOMAIN blocked}
    /\ refused' = refused + Len(blocked) + Cardinality(Untold)
    /\ NextPass
    /\ UNCHANGED <<text, plan, at, log>>

\* canRetry: something failed, or was misread, that could go otherwise.
CanRetry == misread # {} \/ \E i \in DOMAIN log : log[i].verdict = "failed"

\* The model called nothing and announced that it will try again.
Promises ==
    /\ phase = "deciding" /\ CanRetry
    /\ \/ /\ pass < Rounds /\ Spent < MaxTools
          /\ NextPass
       \/ /\ pass >= Rounds \/ Spent >= MaxTools
          /\ phase' = "over"
          /\ UNCHANGED pass
    /\ UNCHANGED <<text, plan, at, results>>

\* The model's words are the answer, or the narration that follows writes it.
Answered ==
    /\ phase = "deciding"
    /\ phase' = "over"
    /\ UNCHANGED <<text, pass, plan, at, results>>

Next ==
    \/ ModelAsks \/ Consider \/ Route \/ PlanEnds \/ RunTool \/ RouterEnds
    \/ PassEnds \/ Promises \/ Answered

Spec == Init /\ [][Next]_vars

-----------------------------------------------------------------------------
(* What the plan promises.                                                  *)

\* The ceiling holds for the whole turn, passes, sources and refusals together, and so does
\* the limit of a tool that invites loops (planToolCalls, used, TOOL_CALL_LIMITS).
LimitsHold ==
    /\ Len(log) <= MaxTools
    /\ \A tool \in Limited :
          Cardinality({i \in DOMAIN log : log[i].call.name = tool}) <= CallLimit

\* The model is never given the same call twice in a turn, and the router never runs a tool
\* that ran before it (toolCallKey, executedKeys, executedNames).
NoCallTwice ==
    \A i, j \in DOMAIN log : i < j /\ log[i].call.name = log[j].call.name =>
        /\ log[j].call.source = "model"
        /\ log[j].call.args # log[i].call.args

\* A tool that failed for a reason a retry cannot fix is not run in a later pass, whatever
\* its arguments and whoever asks (deadTools, planToolCalls).
DeadToolsRest ==
    \A i, j \in DOMAIN log :
        i < j /\ log[i].call.name = log[j].call.name /\ log[i].verdict = "dead" =>
            log[i].pass = log[j].pass

\* Every call the planner looked at is answered: when its pass is over, the tool it names has
\* a result the model will read, unless the rejections of that pass were full
\* (planToolCalls, runToolPlan).
CallsAreAnswered ==
    phase \in {"model", "over"} =>
        \A i \in 1..(next - 1) :
            \/ batch[i].name \in misread \cup barred \cup {log[j].call.name : j \in DOMAIN log}
            \/ Cardinality(rejected) >= ceiling
=============================================================================
