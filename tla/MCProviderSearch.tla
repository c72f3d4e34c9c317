-------------------------- MODULE MCProviderSearch --------------------------
(* Instances of ProviderSearch for TLC. *)
EXTENDS ProviderSearch
CONSTANTS h1, h2

TwoHosts == {h1, h2}
Samples == <<1, 8, 15>>

From(adapter, host, key, url, knows) ==
    [adapter |-> adapter, host |-> host, key |-> key, url |-> url, knows |-> knows]
Serp(knows) == From("serpapi", h1, TRUE, FALSE, knows)
Own == From("travelclaw", h2, TRUE, TRUE, {})

With(sources) == [network |-> TRUE, sources |-> sources]

\* One source that looks places up; two sources; every way to be unusable; no network.
SomeInstalls ==
    {With(<<Serp({})>>),
     With(<<Own, From("flightapi", h1, TRUE, FALSE, Places)>>),
     With(<<From("travelclaw", h1, FALSE, TRUE, {}), From("flightapi", h2, TRUE, FALSE, {"origin"}),
            From("unknown", h1, TRUE, TRUE, {}), From("travelclaw", h2, TRUE, FALSE, {})>>),
     With(<<>>), [network |-> FALSE, sources |-> <<Own>>]}

Says(kind, written, depart, month, end) ==
    [kind |-> kind, places |-> Places, written |-> written, depart |-> depart, month |-> month,
     start |-> depart, end |-> end, nights |-> 0, party |-> "none", currency |-> "EUR"]

\* A month, with and without a return; one date and a return; a stay; a question that lacks a date.
SomeSaid ==
    {Says("flight", <<>>, 0, TRUE, 0), Says("flight", <<>>, 0, TRUE, 12),
     Says("flight", <<20>>, 0, TRUE, 25), Says("stay", <<20, 22>>, 20, FALSE, 0),
     Says("stay", <<>>, 20, FALSE, 0)}

TwoCurrencies == {"EUR", "USD"}

Entry(quotes, nightly, segments, stops, holds) ==
    [quotes |-> quotes, nightly |-> nightly, says |-> "USD", legs |-> 1, segments |-> segments,
     named |-> TRUE, stops |-> stops, holds |-> holds]
Quote(amount, current) == [amount |-> amount, current |-> current]

\* A nonstop round trip; a claimed hold; no price; a nightly price; a confirmed hold.
Rich == [echoed |-> "USD", offers |->
           <<Entry({Quote(7, TRUE)}, 0, 2, 0, "claimed"), Entry({}, 0, 1, 0, "no"),
             Entry({}, 4, 1, -1, "no"), Entry({Quote(6, TRUE)}, 0, 1, -1, "confirmed"),
             Entry({Quote(8, TRUE)}, 0, 0, -1, "no"), Entry({Quote(9, TRUE)}, 0, 1, 0, "no")>>]
\* The cheapest quote of one itinerary is stale; the only quote of another is.
Dated == [echoed |-> "none", offers |->
            <<Entry({Quote(5, FALSE), Quote(7, TRUE)}, 0, 2, 0, "no"), Entry({}, 0, 1, 0, "no"),
              Entry({Quote(9, FALSE)}, 0, 1, -1, "no"), Entry({Quote(8, TRUE)}, 0, 0, -1, "no")>>]
\* From a vendor that names no currency: one offer without a name, and one of three segments.
Poor == [echoed |-> "none", offers |->
           <<[Entry({Quote(3, TRUE)}, 0, 1, -1, "no") EXCEPT !.says = "none", !.named = FALSE],
             Entry({Quote(6, TRUE)}, 0, 3, -1, "confirmed")>>]
SomeBodies == {Rich, Dated, Poor, Empty}
=============================================================================
