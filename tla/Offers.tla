------------------------------- MODULE Offers -------------------------------
(***************************************************************************)
(* What a source's answer becomes: the adapters' candidates                *)
(* (flightCandidate, stayCandidate, itineraryCandidate) and the one shape  *)
(* the desk trusts (providerOfferSchema, normalizeOffer).                  *)
(*                                                                         *)
(* A candidate keeps what a traveler decides by: the price and its         *)
(* currency, the stops as a number and as the detail's words tell them,    *)
(* and whether the source holds it.                                        *)
(***************************************************************************)
EXTENDS Integers, Sequences, FiniteSets

CONSTANT Currencies  \* with USD, the adapters' default

ASSUME OffersAssumption == "USD" \in Currencies /\ "none" \notin Currencies

Adapters == {"travelclaw", "serpapi", "flightapi", "unknown"}

MaybeCurrency == Currencies \cup {"none"}

\* One entry of an answer.  quotes: total prices, current or stale, of which only flightapi has
\* more than one; nightly: 0 for none; says:
\* a currency written beside the price; legs of the journey and their segments; named: every
\* place (or the hotel) has a name; stops: the vendor's count, -1 for none; holds: what it
\* claims of a hold.
Raw == [quotes : SUBSET [amount : Nat, current : BOOLEAN], nightly : Nat, says : MaybeCurrency,
        legs : Nat, segments : Nat, named : BOOLEAN, stops : Int,
        holds : {"no", "claimed", "confirmed"}]

\* An answer: the currency the vendor says it used, and its entries.
Body == [echoed : MaybeCurrency, offers : Seq(Raw)]

Empty == [echoed |-> "none", offers |-> <<>>]

\* What a vendor can send: a price list with dates only of flightapi.
Sends(adapter, body) ==
    adapter = "flightapi"
        \/ \A i \in DOMAIN body.offers :
              /\ Cardinality(body.offers[i].quotes) <= 1
              /\ \A quote \in body.offers[i].quotes : quote.current

\* An offer as the desk shows it.
Offer == [amount : Nat, currency : Currencies, stops : Int, told : Int, held : BOOLEAN]

Unreadable == [amount |-> -1, currency |-> "USD", stops |-> -1, told |-> -1, held |-> FALSE]

Least(amounts) == CHOOSE amount \in amounts : \A other \in amounts : amount <= other

OneOf(first, second) == IF first # "none" THEN first ELSE second

\* Variant: a stale quote may win.
BestPriceOfAll(quotes) == Least({quote.amount : quote \in quotes})

\* bestPrice: the least of the current quotes, of the stale ones only when there is no other.
BestPrice(quotes) ==
    LET current == {quote \in quotes : quote.current}
    IN  Least({quote.amount : quote \in IF current # {} THEN current ELSE quotes})

\* offerFacts: the vendor's count, or the one that a single segment proves.
Stops(segments, stops) ==
    IF segments = 0 THEN -1 ELSE IF stops # -1 THEN stops ELSE IF segments = 1 THEN 0 ELSE -1

\* flightDetail, and flightapi's own detail when it lacks a name: the stops in words.
ToldStops(segments) == IF segments = 0 THEN -1 ELSE segments - 1

Shape(amount, currency, stops, told, held) ==
    [amount |-> amount, currency |-> currency, stops |-> stops, told |-> told, held |-> held]

\* Google's stops are the layovers it lists; no list counts as none.
Layovers(raw) == IF raw.stops = -1 THEN 0 ELSE raw.stops

\* flightCandidate: Google's bundle, in the currency the answer echoes.
SerpFlight(raw, echoed) ==
    IF raw.quotes = {} \/ raw.segments = 0 \/ ~raw.named THEN Unreadable
    ELSE Shape(BestPrice(raw.quotes), OneOf(echoed, "USD"), Stops(raw.segments, Layovers(raw)),
               ToldStops(raw.segments), FALSE)

\* stayCandidate: the vendor's total, or the nights at its nightly price.
SerpStay(raw, echoed, asked, nights) ==
    IF ~raw.named \/ (raw.quotes = {} /\ raw.nightly = 0) THEN Unreadable
    ELSE Shape(IF raw.quotes # {} THEN BestPrice(raw.quotes) ELSE raw.nightly * nights,
               OneOf(raw.says, OneOf(asked, OneOf(echoed, "USD"))), -1, -1, FALSE)

\* flightapi adds up the counts of its legs; a leg without one counts as none.
LegStops(raw) == IF raw.legs = 0 THEN -1 ELSE IF raw.stops = -1 THEN 0 ELSE raw.stops

\* itineraryCandidate: segments only when each of them is named; the currency that was asked.
\* A journey whose legs have no segments is refused by the schema.
FlightApiFlight(raw, asked) ==
    IF raw.quotes = {} \/ (raw.legs > 0 /\ raw.named /\ raw.segments = 0) THEN Unreadable
    ELSE IF raw.named /\ raw.segments > 0
         THEN Shape(BestPrice(raw.quotes), OneOf(asked, "USD"),
                    Stops(raw.segments, LegStops(raw)), ToldStops(raw.segments), FALSE)
         ELSE Shape(BestPrice(raw.quotes), OneOf(asked, "USD"), -1, LegStops(raw), FALSE)

\* The contract's own offer: one price with its currency; a hold with its reference or none.
OwnOffer(raw) ==
    IF raw.quotes = {} \/ raw.says = "none" THEN Unreadable
    ELSE Shape(BestPrice(raw.quotes), raw.says, Stops(raw.segments, raw.stops),
               ToldStops(raw.segments), raw.holds = "confirmed")

Normalized(raw, adapter, kind, echoed, asked, nights) ==
    CASE adapter = "serpapi" /\ kind = "flight" -> SerpFlight(raw, echoed)
      [] adapter = "serpapi" /\ kind = "stay" -> SerpStay(raw, echoed, asked, nights)
      [] adapter = "flightapi" -> FlightApiFlight(raw, asked)
      [] OTHER -> OwnOffer(raw)

\* The entries that became offers, by their places in the answer.
Read(body, adapter, kind, asked, nights) ==
    {i \in DOMAIN body.offers :
        Normalized(body.offers[i], adapter, kind, body.echoed, asked, nights) # Unreadable}
=============================================================================
