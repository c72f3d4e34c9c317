--------------------------- MODULE ProviderSearch ---------------------------
(***************************************************************************)
(* A fare or room search (flightQueryFrom, searchFlights, search,          *)
(* searchOneProvider, the three adapters, fetchWithRetry): the question is *)
(* put together, every source is asked for every sampled date at once, and *)
(* what they answer becomes one result, which a tool reports to the turn.  *)
(*                                                                         *)
(* One source asked for one date is a lane: up to three lookups one after  *)
(* the other, each with its retries.  Dates are days of one calendar; an   *)
(* offer is the lane it came from and its rank there.                      *)
(***************************************************************************)
EXTENDS Offers, Functions

CONSTANTS PerSearch,   \* MAX_OFFERS_PER_SEARCH, 6 in the code
          PerMonth,    \* MAX_FLEXIBLE_FLIGHT_OFFERS, 24 in the code
          SampleDays,  \* FLEXIBLE_FLIGHT_SAMPLE_DAYS that the month has
          Today,       \* the day of ctx.now
          Attempts,    \* SEARCH_RETRY.attempts, 2 in the code
          Hosts,       \* base URLs with their keys
          Installs,    \* the sources an operator may have configured
          Said,        \* what the text and the hints of a search may hold
          Bodies,      \* what a source may answer
          MaxSearches  \* searches of one process: a bound of the model

Days == Int

Places == {"origin", "destination"}
Parties == {"none", "ok", "wrong"}

\* A source: its adapter, its host, whether it has a key and a usable URL, and the places of
\* the question that it need not look up (airport codes, cityCodes).
Source == [adapter : Adapters, host : Hosts, key : BOOLEAN, url : BOOLEAN, knows : SUBSET Places]

\* Text and hints: the dates written in the text in their order, and 0 for a date not given.
Words == [kind : {"flight", "stay"}, places : SUBSET Places, written : Seq(Days), depart : Days,
          month : BOOLEAN, start : Days, end : Days, nights : Nat, party : Parties,
          currency : MaybeCurrency]

ASSUME ProviderSearchAssumption ==
    /\ {PerSearch, PerMonth} \subseteq Nat
    /\ {Attempts, MaxSearches, Today} \subseteq Nat \ {0}
    /\ SampleDays \in Seq(Nat \ {0})
    /\ \A i, j \in DOMAIN SampleDays : i < j => SampleDays[i] < SampleDays[j]
    /\ Installs \subseteq [network : BOOLEAN, sources : Seq(Source)]
    /\ Said \subseteq Words
    /\ Bodies \subseteq Body

VARIABLES
    install,   \* the configured sources
    said,      \* what this search was asked with
    phase,     \* "asking" while a lane is out, then "told"
    lanes,     \* every lane of this search
    stopped,   \* the turn's Stop
    queryKeys, \* queryKeySources
    deaf,      \* hosts that answered a key in a header with 401
    searches   \* searches of this process

vars == <<install, said, phase, lanes, stopped, queryKeys, deaf, searches>>

Fatal == {"no_key", "no_base_url", "unauthorized", "bad_query", "unsupported"}
Passing == {"http_error", "timeout", "network_error", "bad_payload"}
Reasons == Fatal \cup Passing

\* A lane: what it looks up, what of a request is out, where the key travels, the attempt,
\* whether a retryable status was kept, the failure, what was answered, and how often the
\* operator was told of a refused key.
Lane == [at : Places \cup {"fares"}, wire : {"sent", "hint", "body", "over"}, key : {"header", "url", "path"},
         try : 1..Attempts, kept : BOOLEAN, why : Reasons \cup {"none"}, body : Body, told : Nat]

-----------------------------------------------------------------------------
(* The question.                                                            *)

FirstOf(days) ==
    IF \E i \in DOMAIN days : days[i] # 0
    THEN days[CHOOSE i \in DOMAIN days : days[i] # 0 /\ \A j \in 1..(i - 1) : days[j] = 0]
    ELSE 0

Written(words, i) == IF i <= Len(words.written) THEN words.written[i] ELSE 0

\* No fare is asked for without these (draft.missing).
Missing == [ask |-> FALSE, from |-> 0, back |-> 0, month |-> FALSE]

\* flightQueryFrom: a written date before the model's; the month only when neither is there;
\* a return leg only from a second written date or the model's own, and only if it is later.
FlightQuery(words) ==
    LET from == FirstOf(<<Written(words, 1), words.depart, IF words.month THEN 1 ELSE words.start>>)
        back == FirstOf(<<words.end, Written(words, 2)>>)
    IN  IF words.places = Places /\ from # 0 /\ words.party # "wrong"
        THEN [ask |-> TRUE, from |-> from, back |-> IF back > from THEN back ELSE 0,
              month |-> words.month /\ Written(words, 1) = 0 /\ words.depart = 0]
        ELSE Missing

\* stayQueryFrom: check-out is stated, or written second, or nights after check-in.
StayQuery(words) ==
    LET in == FirstOf(<<words.start, words.depart>>)
        out == FirstOf(<<words.end, Written(words, 2),
                         IF words.nights > 0 THEN in + words.nights ELSE 0>>)
    IN  IF "destination" \in words.places /\ in # 0 /\ out > in /\ words.party # "wrong"
        THEN [ask |-> TRUE, from |-> in, back |-> out, month |-> FALSE]
        ELSE Missing

Query(words) == IF words.kind = "flight" THEN FlightQuery(words) ELSE StayQuery(words)

\* How many of some days in their order come before a day.
Earlier(days, day) == Cardinality({i \in DOMAIN days : days[i] < day})

\* flexibleDepartureDates: the weekly samples of this month from today on, today when none is
\* left, and only those before the return.
FlexibleDates(query) ==
    LET ahead == SubSeq(SampleDays, Earlier(SampleDays, Today) + 1, Len(SampleDays))
        dates == IF ahead = <<>> THEN <<Today>> ELSE ahead
    IN  IF query.back = 0 THEN dates ELSE SubSeq(dates, 1, Earlier(dates, query.back))

Dates(query) ==
    IF ~query.ask THEN <<>> ELSE IF query.month THEN FlexibleDates(query) ELSE <<query.from>>

Sources == IF install.network THEN install.sources ELSE <<>>

-----------------------------------------------------------------------------
(* A lane.                                                                  *)

\* What an adapter searches.
Serves(source) == IF source.adapter = "flightapi" THEN {"flight"} ELSE {"flight", "stay"}

\* Every adapter but TravelClaw's own has a default URL.
HasUrl(source) == source.url \/ source.adapter # "travelclaw"

\* The checks of searchOneProvider, and flightapi's, which has no lookup.
Unusable(source, kind) ==
    CASE source.adapter = "unknown" -> "unsupported"
      [] source.adapter # "unknown" /\ kind \notin Serves(source) -> "unsupported"
      [] source.adapter # "unknown" /\ kind \in Serves(source) /\ ~source.key -> "no_key"
      [] source.adapter # "unknown" /\ source.key /\ ~HasUrl(source) -> "no_base_url"
      [] source.adapter = "flightapi" /\ kind = "flight" /\ source.key
            /\ source.knows # Places -> "bad_query"
      [] OTHER -> "none"

\* flightapi has it in the path; serpApiJson in the header, unless this host refused that
\* before and took the URL's query.
KeyPlace(source, keys) ==
    CASE source.adapter = "flightapi" -> "path"
      [] source.adapter = "serpapi" /\ source.host \in keys -> "url"
      [] OTHER -> "header"

\* Only serpapi looks places up, and only for a flight.
ToLookUp(source, kind) ==
    IF source.adapter = "serpapi" /\ kind = "flight" THEN Places \ source.knows ELSE {}

FirstStep(source, kind) ==
    CASE "origin" \in ToLookUp(source, kind) -> "origin"
      [] ToLookUp(source, kind) = {"destination"} -> "destination"
      [] OTHER -> "fares"

NextStep(source, kind, at) ==
    IF at = "origin" /\ "destination" \in ToLookUp(source, kind) THEN "destination" ELSE "fares"

\* A fetchWithRetry begins; after Stop it ends before its first attempt.
Asked(source, at, keys, halted) ==
    [at |-> at, wire |-> IF halted THEN "over" ELSE "sent", key |-> KeyPlace(source, keys),
     try |-> 1, kept |-> FALSE, why |-> IF halted THEN "network_error" ELSE "none",
     body |-> Empty, told |-> 0]

Refusing(source, why) ==
    [at |-> "fares", wire |-> "over", key |-> "header", try |-> 1, kept |-> FALSE, why |-> why,
     body |-> Empty, told |-> 0]

\* searchOneProvider, for one source.
Opened(source, kind, keys) ==
    IF Unusable(source, kind) = "none" THEN Asked(source, FirstStep(source, kind), keys, FALSE)
    ELSE Refusing(source, Unusable(source, kind))

\* Every source for every date, all at once.
AllLanes(words, sources, keys) ==
    [lane \in (DOMAIN Dates(Query(words))) \X (DOMAIN sources) |->
        Opened(sources[lane[2]], words.kind, keys)]

TypeOK ==
    /\ install \in Installs
    /\ said \in Said
    /\ phase \in {"asking", "told"}
    /\ DOMAIN lanes \subseteq (DOMAIN Dates(Query(said))) \X (DOMAIN Sources)
    /\ \A lane \in DOMAIN lanes : lanes[lane] \in Lane
    /\ stopped \in BOOLEAN
    /\ queryKeys \subseteq deaf
    /\ deaf \subseteq Hosts
    /\ searches \in 1..MaxSearches

Init ==
    /\ install \in Installs
    /\ said \in Said
    /\ phase = "asking"
    /\ stopped = FALSE
    /\ queryKeys = {} /\ deaf = {}
    /\ searches = 1
    /\ lanes = AllLanes(said, Sources, queryKeys)

SourceOf(lane) == install.sources[lane[2]]

\* Only this lane moves.
Moves(lane, to) ==
    /\ lanes' = [lanes EXCEPT ![lane] = to]
    /\ UNCHANGED <<install, said, phase, stopped, searches>>

\* fetchWithRetry returns: its attempts are forgotten.
Returned(lane, wire) == [lanes[lane] EXCEPT !.wire = wire, !.try = 1, !.kept = FALSE]

Ended(lane, why) == [Returned(lane, "over") EXCEPT !.why = why]

\* Variant: the attempts are not counted.
TriedAgainUncounted(lane, why) ==
    \/ ~stopped /\ Moves(lane, [lanes[lane] EXCEPT !.wire = "sent"])
    \/ Moves(lane, Ended(lane, IF lanes[lane].kept THEN "http_error" ELSE why))

\* An attempt failed for a reason that may pass: another one, unless the attempts or the time
\* are used up; then the status that was kept is the answer, if there is one.
TriedAgain(lane, why) ==
    \/ /\ lanes[lane].try < Attempts /\ ~stopped
       /\ Moves(lane, [lanes[lane] EXCEPT !.wire = "sent", !.try = @ + 1])
    \/ Moves(lane, Ended(lane, IF lanes[lane].kept THEN "http_error" ELSE why))

\* The headers of a usable answer; the timer and the link to Stop are gone.
HeadersArrive(lane) ==
    /\ lanes[lane].wire = "sent"
    /\ Moves(lane, Returned(lane, "body"))
    /\ UNCHANGED <<queryKeys, deaf>>

\* 429 or a server's failure: the response is kept, and its body looked at for a wait.
BusyAnswer(lane) ==
    /\ lanes[lane].wire = "sent"
    /\ Moves(lane, [lanes[lane] EXCEPT !.wire = "hint", !.kept = TRUE])
    /\ UNCHANGED <<queryKeys, deaf>>

\* readPacingHint ends and the body is cancelled.
HintRead(lane) ==
    /\ lanes[lane].wire = "hint"
    /\ TriedAgain(lane, "http_error")
    /\ UNCHANGED <<queryKeys, deaf>>

\* Another status, which no retry changes.
BadAnswer(lane) ==
    /\ lanes[lane].wire = "sent"
    /\ Moves(lane, Ended(lane, "http_error"))
    /\ UNCHANGED <<queryKeys, deaf>>

\* The attempt's timer, or the connection; a redirect is refused and not tried again.
NoAnswer(lane) ==
    /\ lanes[lane].wire = "sent"
    /\ \/ \E why \in {"timeout", "network_error"} : TriedAgain(lane, why)
       \/ Moves(lane, Ended(lane, IF lanes[lane].kept THEN "http_error" ELSE "network_error"))
    /\ UNCHANGED <<queryKeys, deaf>>

Refused(lane) == [Ended(lane, "unauthorized") EXCEPT !.told = @ + 1]

\* Variant: the header's refusal is reported as well.
KeyRefusedTwiceTold(lane) ==
    /\ lanes[lane].wire = "sent"
    /\ \/ /\ SourceOf(lane).adapter = "serpapi" /\ lanes[lane].key = "header"
          /\ Moves(lane, [Returned(lane, "sent") EXCEPT !.key = "url", !.told = @ + 1])
          /\ deaf' = deaf \cup {SourceOf(lane).host}
       \/ /\ SourceOf(lane).adapter # "serpapi" \/ lanes[lane].key = "url"
          /\ Moves(lane, Refused(lane))
          /\ UNCHANGED deaf
    /\ UNCHANGED queryKeys

\* 401: serpapi asks once more with the key in the URL; otherwise the operator is told.
KeyRefused(lane) ==
    /\ lanes[lane].wire = "sent"
    /\ \/ /\ SourceOf(lane).adapter = "serpapi" /\ lanes[lane].key = "header"
          /\ Moves(lane, [Returned(lane, "sent") EXCEPT !.key = "url"])
          /\ deaf' = deaf \cup {SourceOf(lane).host}
       \/ /\ SourceOf(lane).adapter # "serpapi" \/ lanes[lane].key = "url"
          /\ Moves(lane, Refused(lane))
          /\ UNCHANGED deaf
    /\ UNCHANGED queryKeys

\* 403: serpapi's is not reported to the operator.
KeyForbidden(lane) ==
    /\ lanes[lane].wire = "sent"
    /\ Moves(lane, IF SourceOf(lane).adapter = "serpapi" THEN Ended(lane, "unauthorized")
                   ELSE Refused(lane))
    /\ UNCHANGED <<queryKeys, deaf>>

\* serpApiJson: a URL that worked after the header did not is remembered for its host.
Remembered(lane) ==
    queryKeys' = IF lanes[lane].key = "url" THEN queryKeys \cup {SourceOf(lane).host} ELSE queryKeys

\* Not JSON, or a connection that breaks in the body; or JSON of another shape, or an error.
BodyIsUnreadable(lane) ==
    /\ lanes[lane].wire = "body"
    /\ Moves(lane, Ended(lane, "bad_payload"))
    /\ Remembered(lane) \/ UNCHANGED queryKeys
    /\ UNCHANGED deaf

\* resolveFlightPlace: the first code among the suggestions, and on to the next lookup.
PlaceFound(lane) ==
    /\ lanes[lane].wire = "body" /\ lanes[lane].at # "fares"
    /\ Remembered(lane)
    /\ LET source == SourceOf(lane)
       IN  Moves(lane, Asked(source, NextStep(source, said.kind, lanes[lane].at), queryKeys', stopped))
    /\ UNCHANGED deaf

\* No code among them: the search is refused rather than guessed.
PlaceUnknown(lane) ==
    /\ lanes[lane].wire = "body" /\ lanes[lane].at # "fares"
    /\ Remembered(lane)
    /\ Moves(lane, Ended(lane, "bad_query"))
    /\ UNCHANGED deaf

\* The adapter's candidates.
OffersArrive(lane) ==
    /\ lanes[lane].wire = "body" /\ lanes[lane].at = "fares"
    /\ Remembered(lane)
    /\ \E body \in Bodies :
          /\ Sends(SourceOf(lane).adapter, body)
          /\ Moves(lane, [lanes[lane] EXCEPT !.wire = "over", !.body = body])
    /\ UNCHANGED deaf

\* Stop ends every request whose headers are not here, and every pause between two, which then
\* fails as the attempt before it did.
Stop ==
    /\ phase = "asking" /\ ~stopped
    /\ stopped' = TRUE
    /\ \E late \in SUBSET {lane \in DOMAIN lanes : lanes[lane].try > 1} :
          lanes' = [lane \in DOMAIN lanes |->
                       IF lanes[lane].wire # "sent" THEN lanes[lane]
                       ELSE Ended(lane, IF lanes[lane].kept THEN "http_error"
                                        ELSE IF lane \in late THEN "timeout" ELSE "network_error")]
    /\ UNCHANGED <<install, said, phase, queryKeys, deaf, searches>>

-----------------------------------------------------------------------------
(* The result.                                                              *)

\* A lookup that failed, for whatever reason, makes the search a bad query.
Reason(lane) ==
    IF lanes[lane].at # "fares" /\ lanes[lane].why # "none" THEN "bad_query" ELSE lanes[lane].why

Answered(lane) == lanes[lane].wire = "over" /\ lanes[lane].why = "none"

Lesser(a, b) == IF a < b THEN a ELSE b

\* nightCount of a stay.
Nights == Query(said).back - Query(said).from

OfferAt(lane, i) ==
    LET body == lanes[lane].body
    IN  Normalized(body.offers[i], SourceOf(lane).adapter, said.kind, body.echoed, said.currency, Nights)

\* The entries of a lane's answer that are offers.
Valid(lane) ==
    IF Answered(lane)
    THEN Read(lanes[lane].body, SourceOf(lane).adapter, said.kind, said.currency, Nights)
    ELSE {}

\* What one source keeps of its answer, in its own order; the rest is counted.
Kept(lane) ==
    [rank \in 1..Lesser(Cardinality(Valid(lane)), PerSearch) |->
        [lane |-> lane,
         entry |-> CHOOSE i \in Valid(lane) : Cardinality({j \in Valid(lane) : j < i}) = rank - 1]]

\* The places of some groups in the order in which they take turns.
Turns(groups) == UNION {{<<rank, group>> : rank \in DOMAIN groups[group]} : group \in DOMAIN groups}

Sooner(a, b) == a[1] < b[1] \/ (a[1] = b[1] /\ a[2] < b[2])

\* Variant: one group after the other.
RoundRobinByGroup(groups, limit) ==
    LET place(n) == CHOOSE t \in Turns(groups) :
            Cardinality({u \in Turns(groups) :
                u[2] < t[2] \/ (u[2] = t[2] /\ u[1] < t[1])}) = n - 1
    IN  [n \in 1..Lesser(limit, Cardinality(Turns(groups))) |-> groups[place(n)[2]][place(n)[1]]]

\* roundRobin: every group's first, then every group's second, up to the limit.
RoundRobin(groups, limit) ==
    LET place(n) == CHOOSE t \in Turns(groups) :
            Cardinality({u \in Turns(groups) : Sooner(u, t)}) = n - 1
    IN  [n \in 1..Lesser(limit, Cardinality(Turns(groups))) |-> groups[place(n)[2]][place(n)[1]]]

\* What search() shows for one date.
ShownFor(date) == RoundRobin([i \in DOMAIN Sources |-> Kept(<<date, i>>)], PerSearch)

FoundDates == {date \in DOMAIN Dates(Query(said)) :
                  \E i \in DOMAIN Sources : Answered(<<date, i>>)}

\* combineFlexibleFlightResults: the dates take turns as the sources did.
Shown ==
    IF Query(said).month
    THEN RoundRobin([date \in DOMAIN Dates(Query(said)) |-> ShownFor(date)], PerMonth)
    ELSE IF FoundDates = {} THEN <<>> ELSE ShownFor(1)

Answers == {lane \in DOMAIN lanes : Answered(lane)}
LanesOf(date) == {date} \X DOMAIN Sources

\* Entries without a price or out of shape, of the adapter and of the schema.
Dropped ==
    SumFunction([lane \in Answers |-> Len(lanes[lane].body.offers) - Cardinality(Valid(lane))])

\* Variant: what the turns leave out of a date is not counted.
LimitedAtForSourcesOnly(date) ==
    SumFunction([lane \in LanesOf(date) |-> Cardinality(Valid(lane)) - Len(Kept(lane))])

\* Offers beyond the source's limit, and those the turns leave out.
LimitedAt(date) ==
    SumFunction([lane \in LanesOf(date) |-> Cardinality(Valid(lane)) - Len(Kept(lane))])
        + SumFunction([lane \in LanesOf(date) |-> Len(Kept(lane))]) - Len(ShownFor(date))

Limited ==
    SumFunction([date \in FoundDates |-> LimitedAt(date)])
        + SumFunction([date \in FoundDates |-> Len(ShownFor(date))]) - Len(Shown)

\* Nothing was asked, nobody could be asked, or the first source of the first date says why.
FailureReason ==
    IF Dates(Query(said)) = <<>> THEN "bad_query"
    ELSE IF Sources = <<>> THEN "no_key" ELSE Reason(<<1, 1>>)

\* offerSearchResult: what the turn is told of a search that found nobody.
Retryable == FoundDates = {} => FailureReason \notin Fatal

\* Every lane is over: the result is put together and told.
Collect ==
    /\ phase = "asking"
    /\ \A lane \in DOMAIN lanes : lanes[lane].wire = "over"
    /\ phase' = "told"
    /\ UNCHANGED <<install, said, lanes, stopped, queryKeys, deaf, searches>>

\* Another search of the same process, of another turn.
SearchAgain ==
    /\ phase = "told" /\ searches < MaxSearches
    /\ said' \in Said
    /\ phase' = "asking"
    /\ stopped' = FALSE
    /\ lanes' = AllLanes(said', Sources, queryKeys)
    /\ searches' = searches + 1
    /\ UNCHANGED <<install, queryKeys, deaf>>

LaneMoves(lane) ==
    \/ HeadersArrive(lane) \/ BusyAnswer(lane) \/ HintRead(lane) \/ BadAnswer(lane)
    \/ NoAnswer(lane) \/ KeyRefused(lane) \/ KeyForbidden(lane) \/ BodyIsUnreadable(lane)
    \/ PlaceFound(lane) \/ PlaceUnknown(lane) \/ OffersArrive(lane)

Next ==
    \/ \E lane \in DOMAIN lanes : LaneMoves(lane)
    \/ Stop \/ Collect \/ SearchAgain

Spec == Init /\ [][Next]_vars

\* A request ends by its timer.  A body that stays silent has no timer of the desk: it ends by
\* the limit of the runtime's own client.
FairSpec ==
    /\ Spec
    /\ WF_vars(\E lane \in DOMAIN lanes : LaneMoves(lane))
    /\ WF_vars(Collect)

-----------------------------------------------------------------------------
(* What a search promises.                                                  *)

\* Every candidate of every source that answered is shown, or counted as dropped or as left
\* out, in a month of dates as in one (ProviderSearchResult: "nothing padded", dropped, limited).
OffersAreCounted ==
    phase = "told" =>
        Len(Shown) + Dropped + Limited =
            SumFunction([lane \in Answers |-> Len(lanes[lane].body.offers)])

\* The first configured source cannot crowd another one out of the list that is shown, nor an
\* early date a late one.  On dates of which the list leaves an offer of a source out, another
\* source has at most one offer more for each: in a month the first source may so be ahead by
\* one offer per date, and no further; and as long as a date has an offer that is not shown, no
\* other date shows more than one offer more (search, combineFlexibleFlightResults, roundRobin).
NoSourceCrowdsOut ==
    phase = "told" =>
        LET places == {<<n, Shown[n].lane>> : n \in DOMAIN Shown}
            listed(of) == Cardinality({place \in places : place[2] \in of})
            leftOut(k) == {date \in FoundDates : listed({<<date, k>>}) < Len(Kept(<<date, k>>))}
        IN  /\ \A i, j \in DOMAIN Sources : \A dates \in SUBSET leftOut(i) :
                  listed(dates \X {j}) <= listed(dates \X {i}) + Cardinality(dates)
            /\ \A date, other \in FoundDates :
                  listed(LanesOf(date)) < Len(ShownFor(date))
                      => listed(LanesOf(other)) <= listed(LanesOf(date)) + 1

\* What is shown was answered: the amount is a current quote of that entry if it has one, a stale
\* one or the nightly price otherwise, and only a confirmed hold is a hold (bestPrice,
\* stayCandidate, readHold, adapters/types.ts).
ShownIsQuoted ==
    phase = "told" =>
        \A n \in DOMAIN Shown :
            LET lane == Shown[n].lane
                raw == lanes[lane].body.offers[Shown[n].entry]
                offer == OfferAt(lane, Shown[n].entry)
            IN  /\ \/ \E quote \in raw.quotes :
                        /\ quote.amount = offer.amount
                        /\ quote.current \/ ~\E other \in raw.quotes : other.current
                   \/ raw.quotes = {} /\ offer.amount = raw.nightly * Nights
                /\ offer.held => raw.holds = "confirmed" /\ SourceOf(lane).adapter = "travelclaw"

\* The key goes into a URL only of a host that refused it in a header, whatever the other
\* lanes learnt meanwhile (serpApiJson, queryKeySources).
KeyStaysInHeader ==
    \A lane \in DOMAIN lanes :
        /\ lanes[lane].key = "url" =>
              SourceOf(lane).adapter = "serpapi" /\ SourceOf(lane).host \in deaf
        /\ lanes[lane].key = "path" => SourceOf(lane).adapter = "flightapi"

\* A lane whose key was refused is told to the operator once, and no other is: a header that
\* the host does not read is not a refused key, nor is one of several lookups (serpApiJson).
RefusalIsToldOnce ==
    \A lane \in DOMAIN lanes :
        /\ lanes[lane].told <= 1
        /\ lanes[lane].told = 1 => lanes[lane].wire = "over" /\ lanes[lane].why = "unauthorized"
        /\ lanes[lane].why = "unauthorized" /\ lanes[lane].told = 0 =>
              SourceOf(lane).adapter = "serpapi"

\* Every search is told, whatever its sources do (searchFlights, Promise.all).
SearchIsTold == phase = "asking" ~> phase = "told"

\* docs/architecture.md says that a failure that could differ, such as a timeout, stays
\* retryable.
FailuresThatMayPassAreRetryable ==
    phase = "told" /\ (\E lane \in DOMAIN lanes : lanes[lane].why \in {"timeout", "network_error"})
        => Retryable

\* A test says that a journey of several legs never becomes a stop count of the desk's own.
StopsAreTheVendors ==
    phase = "told" =>
        \A n \in DOMAIN Shown :
            LET raw == lanes[Shown[n].lane].body.offers[Shown[n].entry]
                told == OfferAt(Shown[n].lane, Shown[n].entry).told
            IN  told \in {-1, raw.stops} \/ raw.segments = 1

\* fetchWithTimeout says that a stopped turn ends the call in flight.
StopEndsTheCall == stopped => \A lane \in DOMAIN lanes : lanes[lane].wire = "over"
=============================================================================
