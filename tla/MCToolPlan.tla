----------------------------- MODULE MCToolPlan -----------------------------
(* Instances of ToolPlan for TLC. *)
EXTENDS ToolPlan

Web == {"web.search"}
OneStranger == {"hotel.book"}

Writes(fields, head, tail) == [gives |-> fields, valid |-> TRUE, head |-> head, tail |-> tail]
NotJson == [gives |-> {}, valid |-> FALSE, head |-> "{", tail |-> ""]
Queries == {Writes({"query"}, "q1", ""), Writes({"query"}, "q2", ""), Writes({"query"}, "q3", "")}
Trips == {Writes({"origin", "destination", "departDate"}, "trip", ""),
          Writes({"destination"}, "trip", "elsewhere")}
Empty == Writes({}, "", "")
SomeArguments == Queries \cup Trips \cup {NotJson, Empty}

Ask(tool, args) == [name |-> tool, args |-> args]
Query(head) == Ask("web.search", Writes({"query"}, head, ""))
FullFare == Ask("flights.search", Writes({"origin", "destination", "departDate"}, "trip", ""))
SameStart == Ask("flights.search", Writes({"destination"}, "trip", "elsewhere"))
NoFields == Ask("flights.search", Empty)
Unreadable(tool) == Ask(tool, NotJson)
Stranger == Ask("hotel.book", Empty)

\* No call; loops; refusals of every kind; more calls than the ceiling.
SomeBatches ==
    {<<>>, <<Query("q1"), Query("q2"), Query("q3")>>, <<Query("q2"), Query("q3")>>,
     <<NoFields, FullFare>>, <<Unreadable("flights.search"), FullFare, Stranger>>,
     <<SameStart, NoFields, Query("q1"), Stranger>>,
     <<Stranger, Stranger, Ask("packing.list", Empty)>>,
     <<Unreadable("packing.list"), Unreadable("web.search")>>}

Says(tools, fields, words, agentic, network) ==
    [says |-> tools, gives |-> fields, words |-> words, agentic |-> agentic, network |-> network]
SomeTexts ==
    {Says({"flights.search"}, {"destination"}, {"flight"}, TRUE, TRUE),
     Says({"web.search"}, {}, {"search"}, TRUE, FALSE),
     Says({"trip.outline", "packing.list", "weather.outlook", "visa.notes"},
          {"destination", "startDate", "days"}, {"plan"}, FALSE, TRUE)}
=============================================================================
