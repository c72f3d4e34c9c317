------------------------- MODULE ProviderSearchProofs -------------------------
(***************************************************************************)
(* Proofs about ProviderSearch.  The inductive invariant says of each lane *)
(* what it knows of its key and of its refusal; every lane moves alone, so *)
(* one lemma carries it through each move, and the only state that lanes   *)
(* share, the deaf hosts, only grows.  The rest is about the result alone: *)
(* roundRobin deals the first turns of all groups, the list that is shown  *)
(* begins each of its dates, and so nobody gets two more on a date than a  *)
(* source that has offers left there; what is dealt was kept, and what was *)
(* kept is an offer of an answer; and the sums over lanes and over dates   *)
(* are one sum, and so no offer goes uncounted.                            *)
(***************************************************************************)
EXTENDS ProviderSearch, FiniteSetTheorems, TLAPS

\* Where the lanes of this search are.
Grid == (DOMAIN Dates(Query(said))) \X (DOMAIN Sources)

Shaped == lanes \in [Grid -> Lane]

\* What a lane knows of its key and of its refusal.
Sane(lane, source, known) ==
    /\ lane.told <= 1
    /\ lane.wire # "over" => lane.told = 0 /\ lane.why = "none"
    /\ lane.told = 1 => lane.why = "unauthorized"
    /\ lane.why = "unauthorized" /\ lane.told = 0 => source.adapter = "serpapi"
    /\ lane.why = "none" => source.adapter # "unknown"
    /\ lane.key = "url" => source.adapter = "serpapi" /\ source.host \in known
    /\ lane.key = "path" => source.adapter = "flightapi"

AllSane == \A lane \in Grid : Sane(lanes[lane], SourceOf(lane), deaf)

Basics ==
    /\ install \in Installs /\ said \in Said
    /\ phase \in {"asking", "told"} /\ stopped \in BOOLEAN
    /\ queryKeys \subseteq deaf /\ deaf \subseteq Hosts
    /\ searches \in 1..MaxSearches

IInv == Basics /\ Shaped /\ AllSane

\* The bounds of the model are positive.
LEMMA Positive == Attempts \in Nat \ {0} /\ MaxSearches \in Nat \ {0}
  BY ProviderSearchAssumption

(***************************************************************************)
(* The sources that are asked are the configured ones.                     *)
(***************************************************************************)
LEMMA SourcesAreSources ==
  ASSUME Basics, NEW i \in DOMAIN Sources
  PROVE  Sources[i] = install.sources[i] /\ install.sources[i] \in Source /\ Sources \in Seq(Source)
<1>1. install \in [network : BOOLEAN, sources : Seq(Source)]
  BY ProviderSearchAssumption DEF Basics
<1>2. CASE install.network
  BY <1>1, <1>2 DEF Sources
<1>3. CASE ~install.network
  BY <1>3 DEF Sources
<1> QED
  BY <1>2, <1>3

(***************************************************************************)
(* A lane that searchOneProvider opens is sane: a host that is in          *)
(* queryKeys refused the key in a header.                                  *)
(***************************************************************************)
LEMMA Opening ==
  ASSUME NEW source \in Source, NEW kind \in {"flight", "stay"}, NEW keys \in SUBSET Hosts
  PROVE  /\ Opened(source, kind, keys) \in Lane
         /\ Sane(Opened(source, kind, keys), source, keys)
<1>1. Attempts \in Nat \ {0} /\ Empty \in Body
  BY ProviderSearchAssumption DEF Empty, Body, MaybeCurrency
<1>2. CASE Unusable(source, kind) = "none"
  <2>1. source.adapter # "unknown"
    BY <1>2 DEF Unusable
  <2> QED
    BY <1>1, <1>2, <2>1 DEF Opened, Asked, Lane, Sane, KeyPlace, FirstStep, Places, Source
<1>3. CASE Unusable(source, kind) # "none"
  <2>1. Unusable(source, kind) \in {"unsupported", "no_key", "no_base_url", "bad_query"}
    BY <1>3 DEF Unusable, Serves, HasUrl, Source
  <2> QED
    BY <1>1, <1>3, <2>1 DEF Opened, Refusing, Lane, Sane, Reasons, Fatal
<1> QED
  BY <1>2, <1>3

(***************************************************************************)
(* A request that begins is sane.                                          *)
(***************************************************************************)
LEMMA Asking ==
  ASSUME NEW source \in Source, NEW at \in Places \cup {"fares"}, NEW keys \in SUBSET Hosts,
         NEW halted \in BOOLEAN, source.adapter # "unknown"
  PROVE  /\ Asked(source, at, keys, halted) \in Lane
         /\ Sane(Asked(source, at, keys, halted), source, keys)
<1>1. Attempts \in Nat \ {0} /\ Empty \in Body
  BY ProviderSearchAssumption DEF Empty, Body, MaybeCurrency
<1> QED
  BY <1>1 DEF Asked, Lane, Sane, KeyPlace, Reasons, Passing

\* A lane moves, hosts may turn out deaf.
LaneStep(lane, to) ==
    /\ Moves(lane, to)
    /\ to \in Lane /\ Sane(to, SourceOf(lane), deaf')
    /\ deaf \subseteq deaf' /\ deaf' \subseteq Hosts
    /\ queryKeys' \subseteq deaf'

(***************************************************************************)
(* A step of one lane that leaves it sane keeps the invariant: what the    *)
(* other lanes know of the hosts stays true, because deaf only grows.      *)
(***************************************************************************)
LEMMA LaneStepKeeps ==
  ASSUME IInv, NEW lane \in Grid, NEW to, LaneStep(lane, to)
  PROVE  IInv'
<1>1. Basics'
  BY DEF IInv, Basics, LaneStep, Moves
<1>2. Grid' = Grid /\ \A other \in Grid : SourceOf(other)' = SourceOf(other)
  BY DEF Grid, Sources, SourceOf, LaneStep, Moves
<1>3. Shaped'
  BY <1>2 DEF IInv, Shaped, LaneStep, Moves
<1>4. ASSUME NEW other \in Grid PROVE Sane(lanes'[other], SourceOf(other), deaf')
  <2>1. CASE other = lane
    BY <2>1 DEF IInv, Shaped, LaneStep, Moves
  <2>2. CASE other # lane
    <3>1. lanes'[other] = lanes[other]
      BY <2>2 DEF IInv, Shaped, LaneStep, Moves
    <3> QED
      BY <3>1 DEF IInv, AllSane, Sane, LaneStep
  <2> QED
    BY <2>1, <2>2
<1> QED
  BY <1>1, <1>2, <1>3, <1>4 DEF IInv, AllSane

(***************************************************************************)
(* A lane that fails is sane; "unauthorized" without a report is only for  *)
(* serpapi.                                                                *)
(***************************************************************************)
LEMMA EndedLane ==
  ASSUME IInv, NEW lane \in Grid, NEW why \in Reasons, lanes[lane].wire # "over",
         why = "unauthorized" => SourceOf(lane).adapter = "serpapi"
  PROVE  Ended(lane, why) \in Lane /\ Sane(Ended(lane, why), SourceOf(lane), deaf)
<1>1. lanes[lane] \in Lane /\ Sane(lanes[lane], SourceOf(lane), deaf)
  BY DEF IInv, Shaped, AllSane
<1>2. 1 \in 1..Attempts
  BY ProviderSearchAssumption
<1> QED
  BY <1>1, <1>2 DEF Ended, Returned, Lane, Sane

(***************************************************************************)
(* A retry, or the end of the retries, keeps the invariant.                *)
(***************************************************************************)
LEMMA TriedAgainKeeps ==
  ASSUME IInv, NEW lane \in Grid, NEW why \in Passing, lanes[lane].wire \in {"sent", "hint"},
         TriedAgain(lane, why), UNCHANGED <<queryKeys, deaf>>
  PROVE  IInv'
<1>1. lanes[lane] \in Lane /\ Sane(lanes[lane], SourceOf(lane), deaf)
  BY DEF IInv, Shaped, AllSane
<1>2. queryKeys \subseteq deaf /\ deaf \subseteq Hosts
  BY DEF IInv, Basics
<1>3. CASE lanes[lane].try < Attempts /\ Moves(lane, [lanes[lane] EXCEPT !.wire = "sent", !.try = @ + 1])
  <2> DEFINE to == [lanes[lane] EXCEPT !.wire = "sent", !.try = @ + 1]
  <2>1. to \in Lane /\ Sane(to, SourceOf(lane), deaf)
    <3>1. lanes[lane].try + 1 \in 1..Attempts
      BY <1>1, <1>3, ProviderSearchAssumption DEF Lane
    <3>2. to \in Lane
      BY <1>1, <3>1 DEF Lane
    <3>3. to.wire = "sent" /\ to.told = lanes[lane].told /\ to.why = lanes[lane].why
          /\ to.key = lanes[lane].key
      BY <1>1 DEF Lane
    <3> QED
      BY <1>1, <3>2, <3>3 DEF Sane
  <2> HIDE DEF to
  <2>2. LaneStep(lane, to)
    BY <1>2, <1>3, <2>1 DEF LaneStep, to
  <2> QED
    BY <2>2, LaneStepKeeps
<1>4. ASSUME NEW end \in Passing, Moves(lane, Ended(lane, end)) PROVE IInv'
  <2>1. end \in Reasons /\ end # "unauthorized"
    BY <1>4 DEF Reasons, Passing
  <2>2. LaneStep(lane, Ended(lane, end))
    BY <1>2, <1>4, <2>1, EndedLane DEF LaneStep
  <2> QED
    BY <2>2, LaneStepKeeps
<1>5. \/ lanes[lane].try < Attempts /\ Moves(lane, [lanes[lane] EXCEPT !.wire = "sent", !.try = @ + 1])
      \/ \E end \in Passing : Moves(lane, Ended(lane, end))
  BY DEF TriedAgain, Passing
<1> QED
  BY <1>3, <1>4, <1>5

(***************************************************************************)
(* Only a host that refused the header is remembered.                      *)
(***************************************************************************)
LEMMA RememberedKeeps ==
  ASSUME IInv, NEW lane \in Grid, Remembered(lane)
  PROVE  queryKeys' \subseteq deaf /\ queryKeys \subseteq deaf /\ deaf \subseteq Hosts
  BY DEF IInv, Basics, AllSane, Sane, Remembered

(***************************************************************************)
(* Every step of a lane keeps the invariant.                               *)
(***************************************************************************)
LEMMA LaneMovesKeep ==
  ASSUME IInv, NEW lane \in Grid, LaneMoves(lane)
  PROVE  IInv'
<1> DEFINE l == lanes[lane]
           source == SourceOf(lane)
<1>1. l \in Lane /\ Sane(l, source, deaf)
  BY DEF IInv, Shaped, AllSane
<1>2. queryKeys \subseteq deaf /\ deaf \subseteq Hosts
  BY DEF IInv, Basics
<1>3. source \in Source
  BY SourcesAreSources DEF Grid, SourceOf, IInv
<1>4. 1 \in 1..Attempts
  BY ProviderSearchAssumption
<1>5. CASE HeadersArrive(lane)
  <2>1. Returned(lane, "body") \in Lane /\ Sane(Returned(lane, "body"), source, deaf)
    BY <1>1, <1>4, <1>5 DEF HeadersArrive, Returned, Lane, Sane
  <2>2. LaneStep(lane, Returned(lane, "body"))
    BY <1>2, <1>5, <2>1 DEF HeadersArrive, LaneStep
  <2> QED
    BY <2>2, LaneStepKeeps
<1>6. CASE BusyAnswer(lane)
  <2> DEFINE to == [l EXCEPT !.wire = "hint", !.kept = TRUE]
  <2>1. to \in Lane /\ Sane(to, source, deaf)
    BY <1>1, <1>6 DEF BusyAnswer, Lane, Sane
  <2>2. LaneStep(lane, to)
    BY <1>2, <1>6, <2>1 DEF BusyAnswer, LaneStep
  <2> QED
    BY <2>2, LaneStepKeeps
<1>7. CASE HintRead(lane)
  BY <1>7, TriedAgainKeeps DEF HintRead, Passing
<1>8. CASE BadAnswer(lane)
  <2>1. LaneStep(lane, Ended(lane, "http_error"))
    BY <1>2, <1>8, EndedLane DEF BadAnswer, LaneStep, Reasons, Passing
  <2> QED
    BY <2>1, LaneStepKeeps
<1>9. CASE NoAnswer(lane)
  <2>1. ASSUME NEW why \in {"http_error", "network_error"}, Moves(lane, Ended(lane, why)),
               UNCHANGED <<queryKeys, deaf>>
        PROVE  IInv'
    <3>1. LaneStep(lane, Ended(lane, why))
      BY <1>2, <1>9, <2>1, EndedLane DEF NoAnswer, LaneStep, Reasons, Passing
    <3> QED
      BY <3>1, LaneStepKeeps
  <2>2. ASSUME NEW why \in {"timeout", "network_error"}, TriedAgain(lane, why) PROVE IInv'
    BY <1>9, <2>2, TriedAgainKeeps DEF NoAnswer, Passing
  <2> QED
    BY <1>9, <2>1, <2>2 DEF NoAnswer
<1>10. l.wire = "sent" => Refused(lane) \in Lane /\ Sane(Refused(lane), source, deaf)
  <2> HAVE l.wire = "sent"
  <2>1. Ended(lane, "unauthorized") = [l EXCEPT !.wire = "over", !.try = 1, !.kept = FALSE,
                                                !.why = "unauthorized"]
    BY <1>1 DEF Ended, Returned, Lane
  <2>2. Refused(lane) = [l EXCEPT !.wire = "over", !.try = 1, !.kept = FALSE,
                                  !.why = "unauthorized", !.told = @ + 1]
    BY <1>1, <2>1 DEF Refused, Lane
  <2>3. l.told = 0
    BY <1>1 DEF Sane
  <2>4. Refused(lane) \in Lane
    <3>1. "unauthorized" \in Reasons /\ l.told + 1 \in Nat
      BY <2>3 DEF Reasons, Fatal
    <3>2. Refused(lane) = [l EXCEPT !.wire = "over", !.try = 1, !.kept = FALSE,
                                    !.why = "unauthorized", !.told = 1]
      BY <1>1, <2>2, <2>3 DEF Lane
    <3>3. l \in Lane /\ "over" \in {"sent", "hint", "body", "over"} /\ 1 \in Nat
      BY <1>1
    <3> HIDE DEF l
    <3> QED
      BY <1>4, <3>1, <3>2, <3>3 DEF Lane
  <2>5. Refused(lane).told = 1 /\ Refused(lane).why = "unauthorized" /\ Refused(lane).wire = "over"
        /\ Refused(lane).key = l.key
    BY <1>1, <2>2, <2>3 DEF Lane
  <2> QED
    BY <1>1, <2>4, <2>5 DEF Sane
<1>11. CASE KeyRefused(lane)
  <2>1. CASE source.adapter = "serpapi" /\ l.key = "header"
    <3> DEFINE to == [Returned(lane, "sent") EXCEPT !.key = "url"]
    <3>1. Moves(lane, to) /\ deaf' = deaf \cup {source.host} /\ UNCHANGED queryKeys
      BY <1>11, <2>1 DEF KeyRefused
    <3>2. source.host \in Hosts
      BY <1>3 DEF Source
    <3>3. to \in Lane /\ Sane(to, source, deaf')
      BY <1>1, <1>4, <1>11, <2>1, <3>1 DEF KeyRefused, Returned, Lane, Sane
    <3>4. LaneStep(lane, to)
      BY <1>2, <3>1, <3>2, <3>3 DEF LaneStep
    <3> QED
      BY <3>4, LaneStepKeeps
  <2>2. CASE Moves(lane, Refused(lane)) /\ UNCHANGED <<deaf, queryKeys>>
    <3>1. LaneStep(lane, Refused(lane))
      BY <1>2, <1>10, <1>11, <2>2 DEF KeyRefused, LaneStep
    <3> QED
      BY <3>1, LaneStepKeeps
  <2> QED
    BY <1>11, <2>1, <2>2 DEF KeyRefused
<1>12. CASE KeyForbidden(lane)
  <2>1. CASE source.adapter = "serpapi"
    <3>1. LaneStep(lane, Ended(lane, "unauthorized"))
      BY <1>2, <1>12, <2>1, EndedLane DEF KeyForbidden, LaneStep, Reasons, Fatal
    <3> QED
      BY <3>1, LaneStepKeeps
  <2>2. CASE source.adapter # "serpapi"
    <3>1. LaneStep(lane, Refused(lane))
      BY <1>2, <1>10, <1>12, <2>2 DEF KeyForbidden, LaneStep
    <3> QED
      BY <3>1, LaneStepKeeps
  <2> QED
    BY <2>1, <2>2
<1>13. CASE BodyIsUnreadable(lane)
  <2>1. LaneStep(lane, Ended(lane, "bad_payload"))
    BY <1>2, <1>13, EndedLane, RememberedKeeps DEF BodyIsUnreadable, LaneStep, Reasons, Passing
  <2> QED
    BY <2>1, LaneStepKeeps
<1>14. CASE PlaceFound(lane)
  <2> DEFINE to == Asked(source, NextStep(source, said.kind, l.at), queryKeys', stopped)
  <2>1. queryKeys' \subseteq deaf
    BY <1>14, RememberedKeeps DEF PlaceFound
  <2>2. NextStep(source, said.kind, l.at) \in Places \cup {"fares"}
    BY DEF NextStep, Places
  <2>3. stopped \in BOOLEAN
    BY DEF IInv, Basics
  <2>4. to \in Lane /\ Sane(to, source, queryKeys')
    <3>1. source.adapter # "unknown"
      BY <1>1, <1>14 DEF PlaceFound, Sane
    <3> QED
      BY <1>2, <1>3, <2>1, <2>2, <2>3, <3>1, Asking
  <2>5. Moves(lane, to) /\ UNCHANGED deaf
    BY <1>14 DEF PlaceFound
  <2> HIDE DEF to
  <2>6. LaneStep(lane, to)
    BY <1>2, <2>1, <2>4, <2>5 DEF LaneStep, Sane
  <2> QED
    BY <2>6, LaneStepKeeps
<1>15. CASE PlaceUnknown(lane)
  <2>1. LaneStep(lane, Ended(lane, "bad_query"))
    BY <1>2, <1>15, EndedLane, RememberedKeeps DEF PlaceUnknown, LaneStep, Reasons, Fatal
  <2> QED
    BY <2>1, LaneStepKeeps
<1>16. CASE OffersArrive(lane)
  <2>1. PICK body \in Bodies : Moves(lane, [l EXCEPT !.wire = "over", !.body = body])
    BY <1>16 DEF OffersArrive
  <2> DEFINE to == [l EXCEPT !.wire = "over", !.body = body]
  <2>2. to \in Lane /\ Sane(to, source, deaf)
    BY <1>1, <1>16, ProviderSearchAssumption DEF OffersArrive, Lane, Sane
  <2>3. LaneStep(lane, to)
    BY <1>2, <1>16, <2>1, <2>2, RememberedKeeps DEF OffersArrive, LaneStep
  <2> QED
    BY <2>3, LaneStepKeeps
<1> QED
  BY <1>5, <1>6, <1>7, <1>8, <1>9, <1>11, <1>12, <1>13, <1>14, <1>15, <1>16 DEF LaneMoves

(***************************************************************************)
(* The lanes of a new search are sane.                                     *)
(***************************************************************************)
LEMMA AllLanesSane ==
  ASSUME Basics, NEW words \in Said
  PROVE  LET grid == (DOMAIN Dates(Query(words))) \X (DOMAIN Sources)
             all == AllLanes(words, Sources, queryKeys)
         IN  /\ all \in [grid -> Lane]
             /\ \A lane \in grid : Sane(all[lane], SourceOf(lane), deaf)
<1> DEFINE grid == (DOMAIN Dates(Query(words))) \X (DOMAIN Sources)
<1>1. queryKeys \in SUBSET Hosts /\ queryKeys \subseteq deaf
  BY DEF Basics
<1>2. words.kind \in {"flight", "stay"}
  BY ProviderSearchAssumption DEF Words
<1>3. ASSUME NEW lane \in grid
      PROVE  /\ Opened(Sources[lane[2]], words.kind, queryKeys) \in Lane
             /\ Sane(Opened(Sources[lane[2]], words.kind, queryKeys), SourceOf(lane), deaf)
  <2>1. lane[2] \in DOMAIN Sources
    OBVIOUS
  <2>2. Sources[lane[2]] \in Source /\ SourceOf(lane) = Sources[lane[2]]
    BY <2>1, SourcesAreSources DEF SourceOf
  <2>3. /\ Opened(Sources[lane[2]], words.kind, queryKeys) \in Lane
        /\ Sane(Opened(Sources[lane[2]], words.kind, queryKeys), SourceOf(lane), queryKeys)
    BY <1>1, <1>2, <2>2, Opening
  <2> QED
    BY <1>1, <2>3 DEF Sane
<1> HIDE DEF grid
<1>4. AllLanes(words, Sources, queryKeys) =
        [lane \in grid |-> Opened(Sources[lane[2]], words.kind, queryKeys)]
  BY DEF AllLanes, grid
<1> QED
  BY <1>3, <1>4 DEF grid

(***************************************************************************)
(* Every step keeps the invariant.                                         *)
(***************************************************************************)
LEMMA StepKeeps == IInv /\ [Next]_vars => IInv'
<1> SUFFICES ASSUME IInv, [Next]_vars PROVE IInv'
  OBVIOUS
<1>1. ASSUME NEW lane \in DOMAIN lanes, LaneMoves(lane) PROVE IInv'
  <2>1. lane \in Grid
    BY DEF IInv, Shaped
  <2> QED
    BY <1>1, <2>1, LaneMovesKeep
<1>2. CASE Stop
  <2>1. Basics' /\ Grid' = Grid /\ \A lane \in Grid : SourceOf(lane)' = SourceOf(lane)
    BY <1>2 DEF Stop, IInv, Basics, Grid, Sources, SourceOf
  <2>2. DOMAIN lanes = Grid
    BY DEF IInv, Shaped
  <2>3. PICK late \in SUBSET Grid :
          lanes' = [lane \in Grid |->
                      IF lanes[lane].wire # "sent" THEN lanes[lane]
                      ELSE Ended(lane, IF lanes[lane].kept THEN "http_error"
                                       ELSE IF lane \in late THEN "timeout" ELSE "network_error")]
    BY <1>2, <2>2 DEF Stop
  <2>4. ASSUME NEW lane \in Grid
        PROVE  lanes'[lane] \in Lane /\ Sane(lanes'[lane], SourceOf(lane), deaf)
    <3>1. CASE lanes[lane].wire # "sent"
      BY <2>3, <3>1 DEF IInv, Shaped, AllSane
    <3>2. CASE lanes[lane].wire = "sent"
      <4>1. PICK why \in Passing : lanes'[lane] = Ended(lane, why)
        BY <2>3, <3>2 DEF Passing
      <4>2. why \in Reasons /\ why # "unauthorized"
        BY DEF Reasons, Passing
      <4> QED
        BY <3>2, <4>1, <4>2, EndedLane
    <3> QED
      BY <3>1, <3>2
  <2>5. UNCHANGED deaf
    BY <1>2 DEF Stop
  <2> QED
    BY <2>1, <2>3, <2>4, <2>5 DEF IInv, Shaped, AllSane
<1>3. CASE Collect
  BY <1>3 DEF Collect, IInv, Basics, Shaped, AllSane, Grid, Sources, SourceOf
<1>4. CASE SearchAgain
  <2>1. Basics' /\ said' \in Said
    <3>1. /\ phase' = "asking" /\ stopped' = FALSE /\ UNCHANGED <<install, queryKeys, deaf>>
          /\ said' \in Said /\ searches' = searches + 1 /\ searches < MaxSearches
      BY <1>4 DEF SearchAgain
    <3>2. Basics
      BY DEF IInv
    <3>3. stopped' \in BOOLEAN
      BY <3>1
    <3>4. searches' \in 1..MaxSearches
      BY <3>1, <3>2, Positive DEF Basics
    <3> QED
      BY <3>1, <3>2, <3>3, <3>4 DEF Basics
  <2>2. Sources' = Sources /\ \A lane : SourceOf(lane)' = SourceOf(lane)
    BY <1>4 DEF SearchAgain, Sources, SourceOf
  <2>3. lanes' = AllLanes(said', Sources, queryKeys) /\ UNCHANGED <<queryKeys, deaf>>
    BY <1>4, <2>2 DEF SearchAgain
  <2>4. Grid' = (DOMAIN Dates(Query(said'))) \X (DOMAIN Sources)
    BY <2>2 DEF Grid
  <2> QED
    BY <2>1, <2>2, <2>3, <2>4, AllLanesSane DEF IInv, Shaped, AllSane
<1>5. CASE UNCHANGED vars
  BY <1>5 DEF vars, IInv, Basics, Shaped, AllSane, Grid, Sources, SourceOf
<1> QED
  BY <1>1, <1>2, <1>3, <1>4, <1>5 DEF Next

(***************************************************************************)
(* The first search begins in the invariant.                               *)
(***************************************************************************)
LEMMA InitIInv == Init => IInv
<1> SUFFICES ASSUME Init PROVE IInv
  OBVIOUS
<1>1. Basics
  <2>1. phase = "asking" /\ stopped = FALSE /\ queryKeys = {} /\ deaf = {} /\ searches = 1
        /\ install \in Installs /\ said \in Said
    BY DEF Init
  <2>2. stopped \in BOOLEAN
    BY <2>1
  <2>3. searches \in 1..MaxSearches
    BY <2>1, Positive
  <2>4. queryKeys \subseteq deaf /\ deaf \subseteq Hosts
    BY <2>1
  <2> QED
    BY <2>1, <2>2, <2>3, <2>4 DEF Basics
<1> QED
  BY <1>1, AllLanesSane DEF Init, IInv, Shaped, AllSane, Grid

(***************************************************************************)
(* In every reachable state every lane is sane.                            *)
(***************************************************************************)
THEOREM Invariant == Spec => []IInv
  BY InitIInv, StepKeeps, PTL DEF Spec

(***************************************************************************)
(* A lane whose key was refused is told to the operator once, and no other *)
(* is (serpApiJson, reportUnauthorizedProvider).                           *)
(***************************************************************************)
THEOREM RefusalsAreTold == Spec => []RefusalIsToldOnce
<1>1. IInv => RefusalIsToldOnce
  <2> SUFFICES ASSUME IInv, NEW lane \in DOMAIN lanes
               PROVE  /\ lanes[lane].told <= 1
                      /\ lanes[lane].told = 1 =>
                            lanes[lane].wire = "over" /\ lanes[lane].why = "unauthorized"
                      /\ lanes[lane].why = "unauthorized" /\ lanes[lane].told = 0 =>
                            SourceOf(lane).adapter = "serpapi"
    BY DEF RefusalIsToldOnce
  <2>1. Sane(lanes[lane], SourceOf(lane), deaf)
    BY DEF IInv, Shaped, AllSane
  <2> QED
    BY <2>1 DEF Sane
<1> QED
  BY <1>1, Invariant, PTL

(***************************************************************************)
(* The key goes into a URL only of a host that refused it in a header      *)
(* (serpApiJson, queryKeySources).                                         *)
(***************************************************************************)
THEOREM KeysStayOutOfUrls == Spec => []KeyStaysInHeader
<1>1. IInv => KeyStaysInHeader
  <2> SUFFICES ASSUME IInv, NEW lane \in DOMAIN lanes
               PROVE  /\ lanes[lane].key = "url" =>
                            SourceOf(lane).adapter = "serpapi" /\ SourceOf(lane).host \in deaf
                      /\ lanes[lane].key = "path" => SourceOf(lane).adapter = "flightapi"
    BY DEF KeyStaysInHeader
  <2>1. Sane(lanes[lane], SourceOf(lane), deaf)
    BY DEF IInv, Shaped, AllSane
  <2> QED
    BY <2>1 DEF Sane
<1> QED
  BY <1>1, Invariant, PTL

(***************************************************************************)
(* Every variable has its type.                                            *)
(***************************************************************************)
THEOREM TypeCorrect == Spec => []TypeOK
<1>1. IInv => TypeOK
  BY DEF IInv, Basics, Shaped, Grid, TypeOK
<1> QED
  BY <1>1, Invariant, PTL

(***************************************************************************)
(* The elements of a finite set, in a strict total order, have the ranks   *)
(* from 0 to one less than their number.                                   *)
(***************************************************************************)
LEMMA Ranking ==
  ASSUME NEW S, IsFiniteSet(S), NEW R,
         \A a \in S : <<a, a>> \notin R,
         \A a, b, c \in S : <<a, b>> \in R /\ <<b, c>> \in R => <<a, c>> \in R,
         \A a, b \in S : a = b \/ <<a, b>> \in R \/ <<b, a>> \in R,
         NEW rank, rank = [t \in S |-> Cardinality({u \in S : <<u, t>> \in R})]
  PROVE  /\ rank \in [S -> 0..(Cardinality(S) - 1)]
         /\ \A a, b \in S : <<a, b>> \in R => rank[a] < rank[b]
         /\ \A a, b \in S : rank[a] = rank[b] => a = b
         /\ \A k \in 0..(Cardinality(S) - 1) : \E t \in S : rank[t] = k
         /\ Cardinality(S) \in Nat
<1> DEFINE Before(t) == {u \in S : <<u, t>> \in R}
           N == Cardinality(S)
<1>1. N \in Nat
  BY FS_CardinalityType
<1>2. \A t \in S : IsFiniteSet(Before(t)) /\ Cardinality(Before(t)) \in Nat
  <2> TAKE t \in S
  <2>1. Before(t) \subseteq S
    OBVIOUS
  <2> QED
    BY <2>1, FS_Subset, FS_CardinalityType
<1>3. \A t \in S : rank[t] = Cardinality(Before(t))
  OBVIOUS
<1>4. ASSUME NEW t \in S PROVE rank[t] \in 0..(N - 1)
  <2>1. Before(t) \subseteq S /\ Before(t) # S
    OBVIOUS
  <2> HIDE DEF Before
  <2>2. Cardinality(Before(t)) <= N /\ Cardinality(Before(t)) # N
    BY <2>1, FS_Subset
  <2>3. Cardinality(Before(t)) \in 0..(N - 1)
    BY <1>1, <1>2, <2>2
  <2> QED
    BY <1>3, <2>3
<1>5. ASSUME NEW a \in S, NEW b \in S, <<a, b>> \in R PROVE rank[a] < rank[b]
  <2>1. Before(a) \subseteq Before(b) /\ a \in Before(b) /\ a \notin Before(a)
    BY <1>5
  <2> HIDE DEF Before
  <2>2. Cardinality(Before(a)) <= Cardinality(Before(b)) /\ Cardinality(Before(a)) # Cardinality(Before(b))
    BY <1>2, <2>1, FS_Subset
  <2>3. Cardinality(Before(a)) < Cardinality(Before(b))
    BY <1>2, <2>2
  <2> QED
    BY <1>3, <2>3
<1>6. ASSUME NEW a \in S, NEW b \in S, rank[a] = rank[b] PROVE a = b
  <2>1. ~(rank[a] < rank[b]) /\ ~(rank[b] < rank[a])
    BY <1>4, <1>6
  <2> QED
    BY <1>5, <2>1
<1>7. rank \in Injection(S, 0..(N - 1))
  BY <1>4, <1>6 DEF Injection, IsInjective
<1>8. rank \in Surjection(S, 0..(N - 1))
  <2>1. IsFiniteSet(0..(N - 1)) /\ Cardinality(0..(N - 1)) = N
    <3> HIDE DEF N
    <3>1. 0 \in Int /\ N - 1 \in Int
      BY <1>1
    <3>2. IsFiniteSet(0..(N - 1))
          /\ Cardinality(0..(N - 1)) = IF 0 > N - 1 THEN 0 ELSE (N - 1) - 0 + 1
      BY <3>1, FS_Interval
    <3> QED
      BY <1>1, <3>2
  <2> HIDE DEF N
  <2>2. Cardinality(S) = Cardinality(0..(N - 1))
    BY <2>1 DEF N
  <2> QED
    BY <1>7, <2>1, <2>2, FS_Injection
<1>9. \A k \in 0..(N - 1) : \E t \in S : rank[t] = k
  BY <1>8 DEF Surjection
<1> QED
  BY <1>1, <1>4, <1>5, <1>6, <1>9

(***************************************************************************)
(* A set that maps one to one into 1..n has at most n elements.            *)
(***************************************************************************)
LEMMA FitsInto ==
  ASSUME NEW S, NEW n \in Nat, NEW f \in [S -> 1..n], \A a, b \in S : f[a] = f[b] => a = b
  PROVE  IsFiniteSet(S) /\ Cardinality(S) \in Nat /\ Cardinality(S) <= n
<1>1. IsFiniteSet(1..n) /\ Cardinality(1..n) = n
  BY FS_Interval
<1>2. f \in Injection(S, 1..n)
  BY DEF Injection, IsInjective
<1> QED
  BY <1>1, <1>2, FS_Injection, FS_CardinalityType

(***************************************************************************)
(* A function on 1..n is a sequence of length n.                           *)
(***************************************************************************)
LEMMA SequenceOf ==
  ASSUME NEW n \in Nat, NEW S, NEW f \in [1..n -> S]
  PROVE  Len(f) = n /\ DOMAIN f = 1..n
<1>1. f \in Seq(S)
  OBVIOUS
<1> QED
  BY <1>1

(***************************************************************************)
(* What a source keeps of its answer is a sequence of that lane's entries. *)
(***************************************************************************)
LEMMA KeptEntries ==
  ASSUME IInv, NEW lane \in Grid
  PROVE  \E m \in 0..PerSearch :
            /\ Len(Kept(lane)) = m /\ DOMAIN Kept(lane) = 1..m
            /\ \A rank \in 1..m : Kept(lane)[rank].lane = lane
<1>1. lanes[lane].body.offers \in Seq(Raw)
  BY DEF IInv, Shaped, Lane, Body
<1>2. IsFiniteSet(DOMAIN lanes[lane].body.offers)
  <2>1. DOMAIN lanes[lane].body.offers = 1..Len(lanes[lane].body.offers)
        /\ Len(lanes[lane].body.offers) \in Int /\ 1 \in Int
    BY <1>1
  <2> QED
    BY <2>1, FS_Interval
<1>3. Cardinality(Valid(lane)) \in Nat
  <2>1. Valid(lane) \subseteq DOMAIN lanes[lane].body.offers
    BY DEF Valid, Read
  <2> QED
    BY <1>2, <2>1, FS_Subset, FS_CardinalityType
<1> DEFINE m == Lesser(Cardinality(Valid(lane)), PerSearch)
           entry(rank) == [lane |-> lane,
             entry |-> CHOOSE i \in Valid(lane) : Cardinality({j \in Valid(lane) : j < i}) = rank - 1]
<1>4. m \in 0..PerSearch
  BY <1>3, ProviderSearchAssumption DEF Lesser
<1>5. Kept(lane) = [rank \in 1..m |-> entry(rank)]
  BY DEF Kept
<1> HIDE DEF m
<1>6. \A rank \in 1..m : Kept(lane)[rank].lane = lane
  BY <1>5
<1>7. PICK S : Kept(lane) \in [1..m -> S]
  <2>1. Kept(lane) \in [1..m -> {Kept(lane)[rank] : rank \in 1..m}]
    BY <1>5
  <2> QED
    BY <2>1
<1>8. Len(Kept(lane)) = m /\ DOMAIN Kept(lane) = 1..m
  <2>1. m \in Nat
    BY <1>4, ProviderSearchAssumption
  <2> QED
    BY <1>7, <2>1, SequenceOf
<1> QED
  BY <1>4, <1>6, <1>8

\* n groups and their sizes.
Sized(groups, size, n) == DOMAIN groups = 1..n /\ \A i \in 1..n : DOMAIN groups[i] = 1..size[i]

\* The turns of n groups of at most k.
TurnsOf(size, n, k) == {t \in (1..k) \X (1..n) : t[1] <= size[t[2]]}

\* N turns in their order, each once, and none that is left was sooner.
Takes(groups, N, place) ==
    /\ N \in Nat
    /\ place \in [1..N -> Turns(groups)]
    /\ \A a, b \in 1..N : place[a] = place[b] => a = b
    /\ \A a, b \in 1..N : a < b => Sooner(place[a], place[b])
    /\ \A t \in Turns(groups) :
          (\A m \in 1..N : place[m] # t) => \A m \in 1..N : Sooner(place[m], t)

Dealt(groups, N, place) == [m \in 1..N |-> groups[place[m][2]][place[m][1]]]

(***************************************************************************)
(* What the turns of some groups are, and which of them roundRobin takes:  *)
(* the first of all, each once.                                            *)
(***************************************************************************)
LEMMA TurnsTaken ==
  ASSUME NEW n \in Nat, NEW k \in Nat, NEW size \in [1..n -> 0..k], NEW groups,
         Sized(groups, size, n),
         NEW limit \in Nat
  PROVE  /\ Turns(groups) = TurnsOf(size, n, k)
         /\ \E N, place : /\ Takes(groups, N, place) /\ N <= limit
                          /\ RoundRobin(groups, limit) = Dealt(groups, N, place)
<1> DEFINE T == Turns(groups)
           R == {pair \in T \X T : Sooner(pair[1], pair[2])}
           rank == [t \in T |-> Cardinality({u \in T : <<u, t>> \in R})]
           C == Cardinality(T)
           N == Lesser(limit, C)
<1>1. T = {t \in (1..k) \X (1..n) : t[1] <= size[t[2]]}
  <2>1. T \subseteq {t \in (1..k) \X (1..n) : t[1] <= size[t[2]]}
    BY DEF Turns, Sized
  <2>2. ASSUME NEW r \in 1..k, NEW i \in 1..n, r <= size[i] PROVE <<r, i>> \in T
    <3>1. r \in DOMAIN groups[i]
      BY <2>2 DEF Sized
    <3> QED
      BY <3>1 DEF Turns, Sized
  <2> QED
    BY <2>1, <2>2
<1>2. IsFiniteSet(T)
  <2>1. IsFiniteSet(1..k) /\ IsFiniteSet(1..n)
    BY FS_Interval
  <2>2. IsFiniteSet((1..k) \X (1..n))
    BY <2>1, FS_Product
  <2> QED
    BY <1>1, <2>2, FS_Subset
<1>3. \A t \in T : t = <<t[1], t[2]>> /\ t[1] \in Nat /\ t[2] \in Nat
  BY <1>1
<1> HIDE DEF T
<1>4. \A u, t \in T : <<u, t>> \in R <=> Sooner(u, t)
  OBVIOUS
<1>5. /\ \A a \in T : <<a, a>> \notin R
      /\ \A a, b, c \in T : <<a, b>> \in R /\ <<b, c>> \in R => <<a, c>> \in R
      /\ \A a, b \in T : a = b \/ <<a, b>> \in R \/ <<b, a>> \in R
  <2> HIDE DEF R
  <2>1. \A a \in T : ~Sooner(a, a)
    BY <1>3 DEF Sooner
  <2>2. ASSUME NEW a \in T, NEW b \in T, NEW c \in T, Sooner(a, b), Sooner(b, c)
        PROVE  Sooner(a, c)
    BY <1>3, <2>2 DEF Sooner
  <2>3. ASSUME NEW a \in T, NEW b \in T PROVE a = b \/ Sooner(a, b) \/ Sooner(b, a)
    <3>1. a[1] < b[1] \/ b[1] < a[1] \/ a[1] = b[1]
      BY <1>3
    <3>2. a[2] < b[2] \/ b[2] < a[2] \/ a[2] = b[2]
      BY <1>3
    <3>3. a[1] = b[1] /\ a[2] = b[2] => a = b
      BY <1>3
    <3> QED
      BY <3>1, <3>2, <3>3 DEF Sooner
  <2> QED
    BY <1>4, <2>1, <2>2, <2>3
<1>6. /\ rank \in [T -> 0..(C - 1)]
      /\ \A a, b \in T : <<a, b>> \in R => rank[a] < rank[b]
      /\ \A a, b \in T : rank[a] = rank[b] => a = b
      /\ \A j \in 0..(C - 1) : \E t \in T : rank[t] = j
      /\ C \in Nat
  <2> HIDE DEF R
  <2> QED
    BY <1>2, <1>5, Ranking
<1> DEFINE place == [m \in 1..N |-> CHOOSE t \in T : Cardinality({u \in T : Sooner(u, t)}) = m - 1]
<1>7. \A t \in T : rank[t] = Cardinality({u \in T : Sooner(u, t)})
  <2> TAKE t \in T
  <2>1. {u \in T : Sooner(u, t)} = {u \in T : <<u, t>> \in R}
    BY <1>4
  <2> HIDE DEF R
  <2> QED
    BY <2>1
<1> HIDE DEF rank, R, C
<1>8. N \in Nat /\ N <= C /\ N <= limit
  BY <1>6 DEF Lesser
<1> HIDE DEF N
<1>9. \A m \in 1..N : place[m] \in T /\ rank[place[m]] = m - 1
  <2> TAKE m \in 1..N
  <2>1. m - 1 \in 0..(C - 1)
    BY <1>6, <1>8
  <2>2. PICK t \in T : rank[t] = m - 1
    BY <1>6, <2>1
  <2>3. Cardinality({u \in T : Sooner(u, t)}) = m - 1
    BY <1>7, <2>2
  <2>4. place[m] \in T /\ Cardinality({u \in T : Sooner(u, place[m])}) = m - 1
    BY <2>3
  <2> QED
    BY <1>7, <2>4
<1>10. RoundRobin(groups, limit) = [m \in 1..N |-> groups[place[m][2]][place[m][1]]]
  BY DEF RoundRobin, N, C, T
<1>11. place \in [1..N -> T]
  BY <1>9
<1> HIDE DEF place
<1>12. \A a, b \in 1..N : place[a] = place[b] => a = b
  BY <1>8, <1>9
<1>13. ASSUME NEW t \in T, \A m \in 1..N : place[m] # t, NEW m \in 1..N
       PROVE  Sooner(place[m], t)
  <2>1. rank[t] >= N
    <3> SUFFICES ASSUME rank[t] < N PROVE FALSE
      BY <1>6, <1>8
    <3>1. rank[t] + 1 \in 1..N /\ rank[t] \in Nat
      BY <1>6, <1>8
    <3>2. rank[place[rank[t] + 1]] = rank[t]
      BY <1>9, <3>1
    <3>3. place[rank[t] + 1] = t
      BY <1>6, <1>9, <3>1, <3>2
    <3> QED
      BY <1>13, <3>1, <3>3
  <2>2. rank[place[m]] < N
    BY <1>8, <1>9
  <2>3. ~(<<t, place[m]>> \in R) /\ place[m] # t
    BY <1>6, <1>8, <1>9, <1>13, <2>1, <2>2
  <2> QED
    BY <1>4, <1>5, <1>9, <2>3
<1>16. ASSUME NEW a \in 1..N, NEW b \in 1..N, a < b PROVE Sooner(place[a], place[b])
  <2>1. rank[place[a]] < rank[place[b]]
    BY <1>8, <1>9, <1>16
  <2>2. rank[place[a]] \in 0..(C - 1) /\ rank[place[b]] \in 0..(C - 1)
    BY <1>6, <1>9
  <2>3. ~(<<place[b], place[a]>> \in R) /\ place[a] # place[b]
    BY <1>6, <1>9, <2>1, <2>2
  <2> QED
    BY <1>4, <1>5, <1>9, <2>3
<1>14. Takes(groups, N, place)
  BY <1>8, <1>11, <1>12, <1>13, <1>16 DEF Takes, T
<1>15. RoundRobin(groups, limit) = Dealt(groups, N, place)
  BY <1>10 DEF Dealt
<1> QED
  BY <1>1, <1>8, <1>14, <1>15 DEF T, TurnsOf

(***************************************************************************)
(* Fewer than K places cannot hold all of 1..K.                            *)
(***************************************************************************)
LEMMA OneIsMissing ==
  ASSUME NEW I, IsFiniteSet(I), NEW K \in Nat, Cardinality(I) < K, NEW h
  PROVE  \E r \in 1..K : \A m \in I : h[m] # r
<1> SUFFICES ASSUME \A r \in 1..K : \E m \in I : h[m] = r
             PROVE  FALSE
  OBVIOUS
<1>1. PICK f : f = [r \in 1..K |-> CHOOSE m \in I : h[m] = r]
  OBVIOUS
<1>2. \A r \in 1..K : f[r] \in I /\ h[f[r]] = r
  BY <1>1
<1>3. f \in [1..K -> I]
  BY <1>1, <1>2
<1>4. \A a, b \in 1..K : f[a] = f[b] => a = b
  BY <1>2
<1>5. f \in Injection(1..K, I)
  BY <1>3, <1>4 DEF Injection, IsInjective
<1>6. Cardinality(1..K) <= Cardinality(I)
  BY <1>5, FS_Injection
<1>7. Cardinality(1..K) = K
  <2>1. 1 \in Int /\ K \in Int
    OBVIOUS
  <2>2. Cardinality(1..K) = IF 1 > K THEN 0 ELSE K - 1 + 1
    BY <2>1, FS_Interval
  <2> QED
    BY <2>2
<1>8. Cardinality(I) \in Nat
  BY FS_CardinalityType
<1> QED
  BY <1>6, <1>7, <1>8

\* The turns that group s has taken.
Taken(N, place, s) == {m \in 1..N : place[m][2] = s}

(***************************************************************************)
(* If the first turns of all were taken and group i has one left, no group *)
(* j took more than one turn more than i.                                  *)
(***************************************************************************)
LEMMA FairTurns ==
  ASSUME NEW n \in Nat, NEW k \in Nat, NEW size \in [1..n -> 0..k], NEW groups,
         Turns(groups) = TurnsOf(size, n, k),
         NEW N, NEW place, Takes(groups, N, place),
         NEW i \in 1..n, NEW j \in 1..n,
         Cardinality(Taken(N, place, i)) < size[i]
  PROVE  Cardinality(Taken(N, place, j)) <= Cardinality(Taken(N, place, i)) + 1
<1>1. PICK I : I = Taken(N, place, i)
  OBVIOUS
<1>2. PICK J : J = Taken(N, place, j)
  OBVIOUS
<1>3. N \in Nat /\ I \subseteq 1..N /\ J \subseteq 1..N
  BY <1>1, <1>2 DEF Takes, Taken
<1>4. IsFiniteSet(I) /\ Cardinality(I) \in Nat
  <2>1. IsFiniteSet(1..N)
    BY <1>3, FS_Interval
  <2> QED
    BY <1>3, <2>1, FS_Subset, FS_CardinalityType
<1>5. PICK K : K = Cardinality(I) + 1
  OBVIOUS
<1>6. K \in Nat /\ Cardinality(I) < K /\ K <= size[i] /\ size[i] \in 0..k
  <2>1. Cardinality(I) < size[i] /\ size[i] \in 0..k
    BY <1>1
  <2> QED
    BY <1>4, <1>5, <2>1
<1>7. \A m \in 1..N : /\ place[m] \in Turns(groups)
                      /\ place[m] = <<place[m][1], place[m][2]>>
                      /\ place[m][1] \in Nat \ {0}
  <2> TAKE m \in 1..N
  <2>1. place[m] \in Turns(groups)
    BY DEF Takes
  <2> QED
    BY <2>1 DEF TurnsOf
<1>8. PICK r \in 1..K : \A m \in I : place[m][1] # r
  <2>1. PICK h : h = [m \in I |-> place[m][1]]
    OBVIOUS
  <2>2. PICK r \in 1..K : \A m \in I : h[m] # r
    BY <1>4, <1>6, OneIsMissing
  <2> QED
    BY <2>1, <2>2
<1>9. r \in Nat /\ r <= K /\ r \in 1..k /\ r <= size[i]
  BY <1>6
<1>10. <<r, i>> \in Turns(groups)
  BY <1>9 DEF TurnsOf
<1>11. \A m \in 1..N : place[m] # <<r, i>>
  BY <1>1, <1>8 DEF Taken
<1>12. \A m \in 1..N : Sooner(place[m], <<r, i>>)
  BY <1>10, <1>11 DEF Takes
<1>13. \A m \in 1..N : place[m][1] \in 1..K
  <2> TAKE m \in 1..N
  <2>1. place[m][1] < r \/ place[m][1] = r
    BY <1>12 DEF Sooner
  <2> QED
    BY <1>6, <1>7, <1>9, <2>1
<1>14. PICK g : g = [m \in J |-> place[m][1]]
  OBVIOUS
<1>15. g \in [J -> 1..K]
  BY <1>3, <1>13, <1>14
<1>16. \A a, b \in J : g[a] = g[b] => a = b
  <2> TAKE a, b \in J
  <2> HAVE g[a] = g[b]
  <2>1. place[a] = <<place[a][1], j>> /\ place[b] = <<place[b][1], j>>
    BY <1>2, <1>3, <1>7 DEF Taken
  <2>2. place[a] = place[b]
    BY <1>14, <2>1
  <2> QED
    BY <1>3, <2>2 DEF Takes
<1>17. Cardinality(J) <= K
  BY <1>6, <1>15, <1>16, FitsInto
<1> QED
  BY <1>1, <1>2, <1>5, <1>17

(***************************************************************************)
(* The dates of a question are numbered from 1.                            *)
(***************************************************************************)
LEMMA DatesAreNumbered ==
  ASSUME NEW query
  PROVE  \E n \in Nat : DOMAIN Dates(query) = 1..n
<1>1. ASSUME NEW S, NEW days \in Seq(S), NEW day
      PROVE  Earlier(days, day) \in 0..Len(days)
  <2>1. PICK before : before = {i \in DOMAIN days : days[i] < day}
    OBVIOUS
  <2>2. before \subseteq 1..Len(days) /\ Len(days) \in Nat
    BY <1>1, <2>1
  <2>3. IsFiniteSet(1..Len(days)) /\ Cardinality(1..Len(days)) = Len(days)
    <3>1. PICK n \in Nat : n = Len(days)
      BY <2>2
    <3>2. IsFiniteSet(1..n) /\ Cardinality(1..n) = n
      BY FS_Interval
    <3> QED
      BY <3>1, <3>2
  <2>4. Cardinality(before) \in Nat /\ Cardinality(before) <= Len(days)
    BY <2>2, <2>3, FS_Subset, FS_CardinalityType
  <2> QED
    BY <2>1, <2>2, <2>4 DEF Earlier
<1> DEFINE ahead == SubSeq(SampleDays, Earlier(SampleDays, Today) + 1, Len(SampleDays))
           dates == IF ahead = <<>> THEN <<Today>> ELSE ahead
<1>2. SampleDays \in Seq(Nat \ {0}) /\ Today \in Nat
  BY ProviderSearchAssumption
<1>3. dates \in Seq(Nat)
  <2>1. Earlier(SampleDays, Today) \in 0..Len(SampleDays)
    BY <1>1, <1>2
  <2>2. ahead \in Seq(Nat \ {0})
    BY <1>2, <2>1
  <2> HIDE DEF ahead
  <2> QED
    BY <1>2, <2>2
<1>4. SubSeq(dates, 1, Earlier(dates, query.back)) \in Seq(Nat)
  <2> HIDE DEF dates
  <2>1. Earlier(dates, query.back) \in 0..Len(dates)
    BY <1>1, <1>3
  <2> QED
    BY <1>3, <2>1
<1>5. FlexibleDates(query) \in Seq(Nat)
  <2> HIDE DEF dates
  <2>1. FlexibleDates(query) = IF query.back = 0 THEN dates
                               ELSE SubSeq(dates, 1, Earlier(dates, query.back))
    BY DEF FlexibleDates, dates
  <2> QED
    BY <1>3, <1>4, <2>1
<1>6. PICK S : Dates(query) \in Seq(S)
  <2>1. CASE ~query.ask
    <3>1. Dates(query) = <<>>
      BY <2>1 DEF Dates
    <3> QED
      BY <3>1
  <2>2. CASE query.ask /\ query.month
    <3>1. Dates(query) = FlexibleDates(query)
      BY <2>2 DEF Dates
    <3> QED
      BY <1>5, <3>1
  <2>3. CASE query.ask /\ ~query.month
    <3>1. Dates(query) = <<query.from>>
      BY <2>3 DEF Dates
    <3>2. <<query.from>> \in Seq({query.from})
      OBVIOUS
    <3> QED
      BY <3>1, <3>2
  <2> QED
    BY <2>1, <2>2, <2>3
<1> QED
  BY <1>6

(***************************************************************************)
(* The sources are numbered from 1.                                        *)
(***************************************************************************)
LEMMA SourcesAreNumbered ==
  ASSUME IInv
  PROVE  \E L \in Nat : DOMAIN Sources = 1..L
<1>1. CASE Sources = <<>>
  BY <1>1
<1>2. CASE Sources # <<>>
  <2>1. install \in [network : BOOLEAN, sources : Seq(Source)]
    BY ProviderSearchAssumption DEF IInv, Basics
  <2>2. Sources \in Seq(Source)
    BY <1>2, <2>1 DEF Sources
  <2> QED
    BY <2>2
<1> QED
  BY <1>1, <1>2

\* What search() deals out for one date: N turns among L sources.
DateDealt(date, L, size, N, place) ==
    LET groups == [s \in DOMAIN Sources |-> Kept(<<date, s>>)]
    IN  /\ L \in Nat /\ DOMAIN Sources = 1..L
        /\ size = [s \in 1..L |-> Len(Kept(<<date, s>>))] /\ size \in [1..L -> 0..PerSearch]
        /\ \A s \in 1..L : /\ DOMAIN Kept(<<date, s>>) = 1..size[s]
                           /\ \A rank \in 1..size[s] : Kept(<<date, s>>)[rank].lane = <<date, s>>
        /\ Turns(groups) = TurnsOf(size, L, PerSearch)
        /\ Takes(groups, N, place) /\ N <= PerSearch
        /\ ShownFor(date) = Dealt(groups, N, place)

(***************************************************************************)
(* What is shown for a date is dealt from what its sources keep.           *)
(***************************************************************************)
LEMMA DateIsDealt ==
  ASSUME IInv, NEW date \in DOMAIN Dates(Query(said))
  PROVE  \E L, size, N, place : DateDealt(date, L, size, N, place)
<1>1. PICK L \in Nat : DOMAIN Sources = 1..L
  BY SourcesAreNumbered
<1>2. \A s \in 1..L : <<date, s>> \in Grid
  BY <1>1 DEF Grid
<1>3. PICK groups : groups = [s \in DOMAIN Sources |-> Kept(<<date, s>>)]
  OBVIOUS
<1>4. PICK size : size = [s \in 1..L |-> Len(Kept(<<date, s>>))]
  OBVIOUS
<1>5. \A s \in 1..L : /\ size[s] \in 0..PerSearch /\ DOMAIN groups[s] = 1..size[s]
                      /\ groups[s] = Kept(<<date, s>>)
                      /\ \A rank \in 1..size[s] : groups[s][rank].lane = <<date, s>>
  <2> TAKE s \in 1..L
  <2>1. PICK m \in 0..PerSearch :
           /\ Len(Kept(<<date, s>>)) = m /\ DOMAIN Kept(<<date, s>>) = 1..m
           /\ \A rank \in 1..m : Kept(<<date, s>>)[rank].lane = <<date, s>>
    BY <1>2, KeptEntries
  <2>2. groups[s] = Kept(<<date, s>>) /\ size[s] = m
    BY <1>1, <1>3, <1>4, <2>1
  <2> QED
    BY <2>1, <2>2
<1>6. size \in [1..L -> 0..PerSearch] /\ DOMAIN groups = 1..L
  BY <1>1, <1>3, <1>4, <1>5
<1>7. ShownFor(date) = RoundRobin(groups, PerSearch)
  BY <1>3 DEF ShownFor
<1>8. PerSearch \in Nat
  BY ProviderSearchAssumption
<1>9. Sized(groups, size, L)
  BY <1>5, <1>6 DEF Sized
<1>10. /\ Turns(groups) = TurnsOf(size, L, PerSearch)
       /\ \E N, place : /\ Takes(groups, N, place) /\ N <= PerSearch
                        /\ RoundRobin(groups, PerSearch) = Dealt(groups, N, place)
  BY <1>6, <1>8, <1>9, TurnsTaken
<1>11. PICK N, place : /\ Takes(groups, N, place) /\ N <= PerSearch
                       /\ RoundRobin(groups, PerSearch) = Dealt(groups, N, place)
  BY <1>10
<1>12. DateDealt(date, L, size, N, place)
  BY <1>1, <1>3, <1>4, <1>5, <1>6, <1>7, <1>10, <1>11 DEF DateDealt
<1> QED
  BY <1>12

(***************************************************************************)
(* The first of the turns that are taken are the first of all, too.        *)
(***************************************************************************)
LEMMA FirstTurns ==
  ASSUME NEW groups, NEW N, NEW place, Takes(groups, N, place), NEW M \in 0..N
  PROVE  Takes(groups, M, [m \in 1..M |-> place[m]])
<1>1. PICK first : first = [m \in 1..M |-> place[m]]
  OBVIOUS
<1>2. N \in Nat
  BY DEF Takes
<1>3. M \in Nat /\ \A m \in 1..M : m \in 1..N /\ first[m] = place[m]
  BY <1>1, <1>2
<1>4. first \in [1..M -> Turns(groups)]
  <2>1. \A m \in 1..M : first[m] \in Turns(groups)
    BY <1>3 DEF Takes
  <2> QED
    BY <1>1, <2>1
<1>5. \A a, b \in 1..M : first[a] = first[b] => a = b
  BY <1>3 DEF Takes
<1>6. \A a, b \in 1..M : a < b => Sooner(first[a], first[b])
  BY <1>3 DEF Takes
<1>7. ASSUME NEW t \in Turns(groups), \A m \in 1..M : first[m] # t, NEW m \in 1..M
      PROVE  Sooner(first[m], t)
  <2>1. CASE \A l \in 1..N : place[l] # t
    BY <1>3, <2>1 DEF Takes
  <2>2. CASE \E l \in 1..N : place[l] = t
    <3>1. PICK l \in 1..N : place[l] = t
      BY <2>2
    <3>2. l \notin 1..M
      BY <1>3, <1>7, <3>1
    <3>3. m < l /\ m \in 1..N
      BY <1>2, <1>3, <3>2
    <3> QED
      BY <1>3, <3>1, <3>3 DEF Takes
  <2> QED
    BY <2>1, <2>2
<1>8. Takes(groups, M, first)
  BY <1>3, <1>4, <1>5, <1>6, <1>7 DEF Takes
<1> QED
  BY <1>1, <1>8

-----------------------------------------------------------------------------
(* Sums over finite sets. *)

(***************************************************************************)
(* Some numbers have a least one.                                          *)
(***************************************************************************)
LEMMA LeastNumber ==
  ASSUME NEW C, C \subseteq Nat, C # {}
  PROVE  \E n \in C : \A m \in C : n <= m
<1>1. PICK R : R = {ss \in Nat \X Nat : ss[1] < ss[2]}
  OBVIOUS
<1>2. IsWellFoundedOn(R, Nat)
  BY <1>1, NatLessThanWellFounded DEF OpToRel
<1>3. PICK n \in C : \A m \in C : ~(<<m, n>> \in R)
  BY <1>2, WFMin
<1>4. ASSUME NEW m \in C PROVE n <= m
  <2>1. m \in Nat /\ n \in Nat
    OBVIOUS
  <2>2. ~(m < n)
    BY <1>1, <1>3, <2>1
  <2> QED
    BY <2>1, <2>2
<1> QED
  BY <1>4

(***************************************************************************)
(* Some subsets of a finite set have one that is minimal: an induction     *)
(* over the subsets that names no operator.                                *)
(***************************************************************************)
LEMMA MinimalSet ==
  ASSUME NEW S, IsFiniteSet(S), NEW P, P \subseteq SUBSET S, P # {}
  PROVE  \E s \in P : \A t \in P : t \subseteq s => t = s
<1>1. \A t \in P : IsFiniteSet(t) /\ Cardinality(t) \in Nat
  <2> TAKE t \in P
  <2>1. t \subseteq S
    OBVIOUS
  <2> QED
    BY <2>1, FS_Subset, FS_CardinalityType
<1>2. PICK C : C = {Cardinality(t) : t \in P}
  OBVIOUS
<1>3. C \subseteq Nat /\ C # {}
  BY <1>1, <1>2
<1>4. PICK n \in C : \A m \in C : n <= m
  BY <1>3, LeastNumber
<1>5. PICK s \in P : Cardinality(s) = n
  BY <1>2
<1>6. ASSUME NEW t \in P, t \subseteq s PROVE t = s
  <2> SUFFICES ASSUME t # s PROVE FALSE
    OBVIOUS
  <2>1. Cardinality(t) <= Cardinality(s) /\ Cardinality(t) # Cardinality(s)
    BY <1>1, <1>6, FS_Subset
  <2>2. Cardinality(s) <= Cardinality(t)
    BY <1>2, <1>4, <1>5
  <2>3. Cardinality(t) \in Nat /\ Cardinality(s) \in Nat
    BY <1>1
  <2> QED
    BY <2>1, <2>2, <2>3
<1> QED
  BY <1>6

\* g adds f up over the subsets of S, in any order.
Adds(f, S, g) ==
    /\ g \in [SUBSET S -> Int]
    /\ g[{}] = 0
    /\ \A s \in SUBSET S : \A x \in s : g[s] = f[x] + g[s \ {x}]

(***************************************************************************)
(* Integers can be added up over a finite set.                             *)
(***************************************************************************)
LEMMA SumExists ==
  ASSUME NEW S, IsFiniteSet(S), NEW f, \A x \in S : f[x] \in Int
  PROVE  \E g : Adds(f, S, g)
<1>1. PICK P : P = {T \in SUBSET S : ~ \E g : Adds(f, T, g)}
  OBVIOUS
<1> SUFFICES ASSUME P # {} PROVE FALSE
  BY <1>1
<1>2. PICK T \in P : \A t \in P : t \subseteq T => t = T
  <2>1. P \subseteq SUBSET S /\ P # {}
    BY <1>1
  <2> QED
    BY <2>1, MinimalSet
<1>3. T \subseteq S /\ ~ \E g : Adds(f, T, g)
  BY <1>1, <1>2
<1>4. CASE T = {}
  <2>1. Adds(f, {}, [s \in SUBSET {} |-> 0])
    BY DEF Adds
  <2> QED
    BY <1>3, <1>4, <2>1
<1>5. CASE T # {}
  <2>1. PICK y \in T : TRUE
    BY <1>5
  <2>2. T \ {y} \notin P /\ T \ {y} \subseteq S
    BY <1>2, <1>3, <2>1
  <2>3. PICK g : Adds(f, T \ {y}, g)
    BY <1>1, <2>2
  <2>4. PICK h : h = [s \in SUBSET T |-> IF y \in s THEN f[y] + g[s \ {y}] ELSE g[s]]
    OBVIOUS
  <2>5. \A s \in SUBSET T : s \ {y} \in SUBSET (T \ {y}) /\ (y \notin s => s \in SUBSET (T \ {y}))
    OBVIOUS
  <2>6. \A s \in SUBSET (T \ {y}) : g[s] \in Int
    BY <2>3 DEF Adds
  <2>7. f[y] \in Int
    BY <1>3, <2>1
  <2>8. h \in [SUBSET T -> Int]
    <3>1. \A s \in SUBSET T : h[s] \in Int
      <4> TAKE s \in SUBSET T
      <4>1. CASE y \in s
        <5>1. h[s] = f[y] + g[s \ {y}] /\ g[s \ {y}] \in Int
          BY <2>4, <2>5, <2>6, <4>1
        <5> QED
          BY <2>7, <5>1
      <4>2. CASE y \notin s
        BY <2>4, <2>5, <2>6, <4>2
      <4> QED
        BY <4>1, <4>2
    <3> QED
      BY <2>4, <3>1
  <2>9. h[{}] = 0
    BY <2>3, <2>4 DEF Adds
  <2>10. ASSUME NEW s \in SUBSET T, NEW x \in s PROVE h[s] = f[x] + h[s \ {x}]
    <3>1. CASE y \notin s
      <4>1. h[s] = g[s] /\ h[s \ {x}] = g[s \ {x}]
        BY <2>4, <3>1
      <4>2. g[s] = f[x] + g[s \ {x}]
        BY <2>3, <2>5, <3>1 DEF Adds
      <4> QED
        BY <4>1, <4>2
    <3>2. CASE x = y
      <4>1. h[s] = f[y] + g[s \ {y}] /\ h[s \ {y}] = g[s \ {y}]
        BY <2>4, <3>2
      <4> QED
        BY <3>2, <4>1
    <3>3. CASE y \in s /\ x # y
      <4>1. PICK r : r = (s \ {y}) \ {x}
        OBVIOUS
      <4>2. (s \ {x}) \ {y} = r /\ r \in SUBSET (T \ {y}) /\ s \ {x} \in SUBSET T
        BY <4>1
      <4>3. h[s] = f[y] + g[s \ {y}] /\ h[s \ {x}] = f[y] + g[r]
        BY <2>4, <3>3, <4>2
      <4>4. g[s \ {y}] = f[x] + g[r]
        BY <2>3, <2>5, <3>3, <4>1 DEF Adds
      <4>5. f[x] \in Int /\ g[r] \in Int
        BY <1>3, <2>6, <4>2
      <4>6. PICK a, b, c : a = f[x] /\ b = f[y] /\ c = g[r]
        OBVIOUS
      <4>7. a \in Int /\ b \in Int /\ c \in Int /\ h[s] = b + (a + c) /\ h[s \ {x}] = b + c
        BY <2>7, <4>3, <4>4, <4>5, <4>6
      <4>8. h[s] = a + h[s \ {x}]
        BY <4>7
      <4> QED
        BY <4>6, <4>8
    <3> QED
      BY <3>1, <3>2, <3>3
  <2> QED
    BY <1>3, <2>8, <2>9, <2>10 DEF Adds
<1> QED
  BY <1>4, <1>5

\* Folding the elements of S one after the other, in the order in which CHOOSE takes them.
Folded(f, S, iter) ==
    iter = [s \in SUBSET S |->
              IF s = {} THEN 0
              ELSE f[CHOOSE x \in s : TRUE] + iter[s \ {CHOOSE x \in s : TRUE}]]

LEMMA SumUnfolds ==
  ASSUME NEW f, NEW S
  PROVE  SumFunctionOnSet(f, S) = (CHOOSE iter : Folded(f, S, iter))[S]
  BY DEF SumFunctionOnSet, FoldFunctionOnSet, MapThenFoldSet, Folded

(***************************************************************************)
(* The fold of the community modules is that sum.                          *)
(***************************************************************************)
LEMMA SumIs ==
  ASSUME NEW S, IsFiniteSet(S), NEW f, NEW g, Adds(f, S, g), NEW T \in SUBSET S
  PROVE  SumFunctionOnSet(f, T) = g[T]
<1>1. Folded(f, T, [s \in SUBSET T |-> g[s]])
  <2>1. ASSUME NEW s \in SUBSET T, s # {}
        PROVE  LET x == CHOOSE y \in s : TRUE
               IN  s \ {x} \in SUBSET T /\ g[s] = f[x] + g[s \ {x}]
    <3>1. (CHOOSE x \in s : TRUE) \in s
      BY <2>1
    <3> QED
      BY <3>1 DEF Adds
  <2>2. g[{}] = 0
    BY DEF Adds
  <2> QED
    BY <2>1, <2>2 DEF Folded
<1>2. PICK iter : iter = CHOOSE it : Folded(f, T, it)
  OBVIOUS
<1>3. Folded(f, T, iter)
  BY <1>1, <1>2
<1>4. PICK P : P = {s \in SUBSET T : iter[s] # g[s]}
  OBVIOUS
<1>5. CASE P = {}
  <2>1. iter[T] = g[T]
    BY <1>4, <1>5
  <2> QED
    BY <1>2, <2>1, SumUnfolds
<1>6. CASE P # {}
  <2>1. PICK s \in P : \A t \in P : t \subseteq s => t = s
    BY <1>4, <1>6, MinimalSet
  <2>2. s \in SUBSET T /\ iter[s] # g[s]
    BY <1>4, <2>1
  <2>3. CASE s = {}
    BY <1>3, <2>2, <2>3 DEF Folded, Adds
  <2>4. CASE s # {}
    <3>1. PICK x : x = CHOOSE y \in s : TRUE
      OBVIOUS
    <3>2. x \in s
      BY <2>4, <3>1
    <3>3. iter[s] = f[x] + iter[s \ {x}]
      BY <1>3, <2>2, <2>4, <3>1 DEF Folded
    <3>4. iter[s \ {x}] = g[s \ {x}]
      BY <1>4, <2>1, <2>2, <3>2
    <3>5. g[s] = f[x] + g[s \ {x}]
      BY <2>2, <3>2 DEF Adds
    <3> QED
      BY <2>2, <3>3, <3>4, <3>5
  <2> QED
    BY <2>3, <2>4
<1> QED
  BY <1>5, <1>6

(***************************************************************************)
(* Sums over the subsets of a finite set: one element more or less.        *)
(***************************************************************************)
LEMMA SumLaws ==
  ASSUME NEW S, IsFiniteSet(S), NEW f, \A x \in S : f[x] \in Int
  PROVE  /\ SumFunctionOnSet(f, {}) = 0
         /\ \A T \in SUBSET S : SumFunctionOnSet(f, T) \in Int
         /\ \A T \in SUBSET S : \A x \in T :
               SumFunctionOnSet(f, T) = f[x] + SumFunctionOnSet(f, T \ {x})
<1>1. PICK g : Adds(f, S, g)
  BY SumExists
<1>2. \A T \in SUBSET S : SumFunctionOnSet(f, T) = g[T]
  BY <1>1, SumIs
<1>3. {} \in SUBSET S
  OBVIOUS
<1>4. \A T \in SUBSET S : \A x \in T : T \ {x} \in SUBSET S
  OBVIOUS
<1> QED
  BY <1>1, <1>2, <1>3, <1>4 DEF Adds

(***************************************************************************)
(* A sum of sums.                                                          *)
(***************************************************************************)
LEMMA SumOfSums ==
  ASSUME NEW S, IsFiniteSet(S), NEW f, NEW g, NEW h,
         \A x \in S : f[x] \in Int /\ g[x] \in Int /\ h[x] = f[x] + g[x]
  PROVE  SumFunctionOnSet(h, S) = SumFunctionOnSet(f, S) + SumFunctionOnSet(g, S)
<1>0. \A x \in S : h[x] \in Int
  OBVIOUS
<1>1. PICK P : P = {T \in SUBSET S :
                      SumFunctionOnSet(h, T) # SumFunctionOnSet(f, T) + SumFunctionOnSet(g, T)}
  OBVIOUS
<1> SUFFICES ASSUME P # {} PROVE FALSE
  BY <1>1
<1>2. PICK T \in P : \A t \in P : t \subseteq T => t = T
  <2>1. P \subseteq SUBSET S /\ P # {}
    BY <1>1
  <2> QED
    BY <2>1, MinimalSet
<1>3. T \in SUBSET S /\ SumFunctionOnSet(h, T) # SumFunctionOnSet(f, T) + SumFunctionOnSet(g, T)
  BY <1>1, <1>2
<1>4. T # {}
  <2>1. SumFunctionOnSet(f, {}) = 0 /\ SumFunctionOnSet(g, {}) = 0 /\ SumFunctionOnSet(h, {}) = 0
    BY <1>0, SumLaws
  <2> QED
    BY <1>3, <2>1
<1>5. PICK x \in T : TRUE
  BY <1>4
<1>6. T \ {x} \notin P /\ T \ {x} \in SUBSET S
  BY <1>2, <1>3, <1>5
<1>7. PICK a, b, c :
         /\ a = SumFunctionOnSet(f, T \ {x}) /\ b = SumFunctionOnSet(g, T \ {x})
         /\ c = SumFunctionOnSet(h, T \ {x})
  OBVIOUS
<1>8. a \in Int /\ b \in Int /\ c = a + b
  BY <1>1, <1>6, <1>7, SumLaws
<1>9. /\ SumFunctionOnSet(f, T) = f[x] + a /\ SumFunctionOnSet(g, T) = g[x] + b
      /\ SumFunctionOnSet(h, T) = h[x] + c
  <2>0. \A x0 \in S : f[x0] \in Int /\ g[x0] \in Int
    OBVIOUS
  <2>1. SumFunctionOnSet(f, T) = f[x] + SumFunctionOnSet(f, T \ {x})
    BY <1>3, <2>0, SumLaws
  <2>2. SumFunctionOnSet(g, T) = g[x] + SumFunctionOnSet(g, T \ {x})
    BY <1>3, <2>0, SumLaws
  <2>3. SumFunctionOnSet(h, T) = h[x] + SumFunctionOnSet(h, T \ {x})
    BY <1>0, <1>3, SumLaws
  <2> QED
    BY <1>7, <2>1, <2>2, <2>3
<1>10. f[x] \in Int /\ g[x] \in Int /\ h[x] = f[x] + g[x]
  BY <1>3
<1>11. h[x] + c = (f[x] + a) + (g[x] + b)
  BY <1>8, <1>10
<1> QED
  BY <1>3, <1>9, <1>11

(***************************************************************************)
(* What is nothing adds nothing.                                           *)
(***************************************************************************)
LEMMA SumOfZeros ==
  ASSUME NEW S, IsFiniteSet(S), NEW f, \A x \in S : f[x] = 0
  PROVE  SumFunctionOnSet(f, S) = 0
<1>1. \A x \in S : f[x] \in Int /\ f[x] = f[x] + f[x]
  OBVIOUS
<1>2. SumFunctionOnSet(f, S) = SumFunctionOnSet(f, S) + SumFunctionOnSet(f, S)
  BY <1>1, SumOfSums
<1>3. SumFunctionOnSet(f, S) \in Int
  BY <1>1, SumLaws
<1>4. PICK s : s = SumFunctionOnSet(f, S)
  OBVIOUS
<1>5. s \in Int /\ s = s + s
  BY <1>2, <1>3, <1>4
<1>6. s = 0
  BY <1>5
<1> QED
  BY <1>4, <1>6

(***************************************************************************)
(* Equal numbers have equal sums.                                          *)
(***************************************************************************)
LEMMA SameSum ==
  ASSUME NEW S, IsFiniteSet(S), NEW f, NEW g, \A x \in S : f[x] \in Int /\ f[x] = g[x]
  PROVE  SumFunctionOnSet(f, S) = SumFunctionOnSet(g, S)
<1>1. PICK zero : zero = [x \in S |-> 0]
  OBVIOUS
<1>2. \A x \in S : zero[x] = 0 /\ zero[x] \in Int /\ f[x] = g[x] + zero[x] /\ g[x] \in Int
  BY <1>1
<1>3. SumFunctionOnSet(zero, S) = 0
  BY <1>2, SumOfZeros
<1>4. SumFunctionOnSet(f, S) = SumFunctionOnSet(g, S) + SumFunctionOnSet(zero, S)
  BY <1>2, SumOfSums
<1>5. SumFunctionOnSet(g, S) \in Int
  BY <1>2, SumLaws
<1> QED
  BY <1>3, <1>4, <1>5

(***************************************************************************)
(* The sum over two sets that share nothing.                               *)
(***************************************************************************)
LEMMA SumOfBoth ==
  ASSUME NEW A, IsFiniteSet(A), NEW f, \A x \in A : f[x] \in Int,
         NEW S \in SUBSET A, NEW U \in SUBSET A, S \cap U = {}
  PROVE  SumFunctionOnSet(f, S \cup U) = SumFunctionOnSet(f, S) + SumFunctionOnSet(f, U)
<1>1. PICK P : P = {T \in SUBSET U :
                 SumFunctionOnSet(f, S \cup T) # SumFunctionOnSet(f, S) + SumFunctionOnSet(f, T)}
  OBVIOUS
<1> SUFFICES ASSUME P # {} PROVE FALSE
  BY <1>1
<1>2. IsFiniteSet(U)
  BY FS_Subset
<1>3. PICK T \in P : \A t \in P : t \subseteq T => t = T
  <2>1. P \subseteq SUBSET U /\ P # {}
    BY <1>1
  <2> QED
    BY <1>2, <2>1, MinimalSet
<1>4. /\ T \in SUBSET U /\ T \in SUBSET A
      /\ SumFunctionOnSet(f, S \cup T) # SumFunctionOnSet(f, S) + SumFunctionOnSet(f, T)
  BY <1>1, <1>3
<1>5. SumFunctionOnSet(f, S) \in Int
  BY SumLaws
<1>6. T # {}
  <2>1. SumFunctionOnSet(f, {}) = 0 /\ S \cup {} = S
    BY SumLaws
  <2>2. PICK a : a = SumFunctionOnSet(f, S)
    OBVIOUS
  <2>3. a \in Int
    BY <1>5, <2>2
  <2>4. a = a + 0
    BY <2>3
  <2>5. ASSUME T = {} PROVE SumFunctionOnSet(f, S \cup T) = a /\ SumFunctionOnSet(f, T) = 0
    BY <2>1, <2>2, <2>5
  <2> QED
    BY <1>4, <2>2, <2>4, <2>5
<1>7. PICK x \in T : TRUE
  BY <1>6
<1>8. T \ {x} \notin P /\ T \ {x} \in SUBSET U /\ T \ {x} \in SUBSET A
  BY <1>3, <1>4, <1>7
<1>9. SumFunctionOnSet(f, S \cup (T \ {x})) = SumFunctionOnSet(f, S) + SumFunctionOnSet(f, T \ {x})
  BY <1>1, <1>8
<1>10. (S \cup T) \ {x} = S \cup (T \ {x}) /\ S \cup T \in SUBSET A /\ x \in S \cup T
  BY <1>4, <1>7
<1>11. PICK a, b : a = SumFunctionOnSet(f, S) /\ b = SumFunctionOnSet(f, T \ {x})
  OBVIOUS
<1>12. SumFunctionOnSet(f, S \cup T) = f[x] + (a + b)
  <2>1. SumFunctionOnSet(f, S \cup T) = f[x] + SumFunctionOnSet(f, (S \cup T) \ {x})
    BY <1>10, SumLaws
  <2> QED
    BY <1>9, <1>10, <1>11, <2>1
<1>13. SumFunctionOnSet(f, T) = f[x] + b /\ b \in Int
  BY <1>4, <1>8, <1>11, SumLaws
<1>14. f[x] \in Int /\ a \in Int
  BY <1>4, <1>5, <1>11
<1>15. f[x] + (a + b) = a + (f[x] + b)
  BY <1>13, <1>14
<1> QED
  BY <1>4, <1>11, <1>12, <1>13, <1>15

(***************************************************************************)
(* A sum that is made group by group.                                      *)
(***************************************************************************)
LEMMA SumOfGroups ==
  ASSUME NEW A, IsFiniteSet(A), NEW f, \A x \in A : f[x] \in Int,
         NEW D, IsFiniteSet(D), NEW group, \A d \in D : group[d] \in SUBSET A,
         \A d, e \in D : d # e => group[d] \cap group[e] = {},
         NEW h, \A d \in D : h[d] = SumFunctionOnSet(f, group[d])
  PROVE  SumFunctionOnSet(h, D) = SumFunctionOnSet(f, UNION {group[d] : d \in D})
<1>0. \A d \in D : h[d] \in Int
  BY SumLaws
<1>1. PICK P : P = {E \in SUBSET D :
                 SumFunctionOnSet(h, E) # SumFunctionOnSet(f, UNION {group[d] : d \in E})}
  OBVIOUS
<1> SUFFICES ASSUME P # {} PROVE FALSE
  BY <1>1
<1>2. PICK E \in P : \A t \in P : t \subseteq E => t = E
  <2>1. P \subseteq SUBSET D /\ P # {}
    BY <1>1
  <2> QED
    BY <2>1, MinimalSet
<1>3. /\ E \in SUBSET D
      /\ SumFunctionOnSet(h, E) # SumFunctionOnSet(f, UNION {group[d] : d \in E})
  BY <1>1, <1>2
<1>4. E # {}
  <2>1. SumFunctionOnSet(f, {}) = 0 /\ SumFunctionOnSet(h, {}) = 0
    BY <1>0, SumLaws
  <2>2. UNION {group[d] : d \in {}} = {}
    OBVIOUS
  <2> QED
    BY <1>3, <2>1, <2>2
<1>5. PICK e \in E : TRUE
  BY <1>4
<1>6. PICK F : F = E \ {e}
  OBVIOUS
<1>7. F \notin P /\ F \in SUBSET D /\ e \in D /\ e \notin F
  BY <1>2, <1>3, <1>5, <1>6
<1>8. PICK U : U = UNION {group[d] : d \in F}
  OBVIOUS
<1>9. U \in SUBSET A /\ group[e] \in SUBSET A /\ U \cap group[e] = {}
  <2>1. \A d \in F : group[d] \in SUBSET A /\ group[d] \cap group[e] = {}
    BY <1>7
  <2> QED
    BY <1>7, <1>8, <2>1
<1>10. UNION {group[d] : d \in E} = U \cup group[e]
  BY <1>5, <1>6, <1>8
<1>11. SumFunctionOnSet(f, U \cup group[e]) = SumFunctionOnSet(f, U) + SumFunctionOnSet(f, group[e])
  BY <1>9, SumOfBoth
<1>12. SumFunctionOnSet(h, F) = SumFunctionOnSet(f, U)
  BY <1>1, <1>7, <1>8
<1>13. SumFunctionOnSet(h, E) = h[e] + SumFunctionOnSet(h, F)
  BY <1>0, <1>3, <1>5, <1>6, SumLaws
<1>14. h[e] = SumFunctionOnSet(f, group[e])
  BY <1>7
<1>15. SumFunctionOnSet(f, U) \in Int /\ h[e] \in Int
  BY <1>0, <1>7, <1>9, SumLaws
<1>16. PICK a : a = SumFunctionOnSet(f, U)
  OBVIOUS
<1>17. h[e] + a = a + h[e]
  BY <1>15, <1>16
<1> QED
  BY <1>3, <1>10, <1>11, <1>12, <1>13, <1>14, <1>16, <1>17

(***************************************************************************)
(* Elements that add nothing may be left out.                              *)
(***************************************************************************)
LEMMA SumWithout ==
  ASSUME NEW A, IsFiniteSet(A), NEW f, \A x \in A : f[x] \in Int,
         NEW S \in SUBSET A, \A x \in A \ S : f[x] = 0
  PROVE  SumFunctionOnSet(f, A) = SumFunctionOnSet(f, S)
<1>1. A \ S \in SUBSET A /\ S \cap (A \ S) = {} /\ S \cup (A \ S) = A
  OBVIOUS
<1>2. SumFunctionOnSet(f, A) = SumFunctionOnSet(f, S) + SumFunctionOnSet(f, A \ S)
  BY <1>1, SumOfBoth
<1>3. IsFiniteSet(A \ S)
  BY <1>1, FS_Subset
<1>4. SumFunctionOnSet(f, A \ S) = 0
  BY <1>3, SumOfZeros
<1>5. SumFunctionOnSet(f, S) \in Int
  BY SumLaws
<1> QED
  BY <1>2, <1>4, <1>5

-----------------------------------------------------------------------------
(* The count of the offers, and what they are. *)

(***************************************************************************)
(* What is counted of a lane is a number, and a lane that did not answer   *)
(* has no offers.                                                          *)
(***************************************************************************)
LEMMA LaneCounts ==
  ASSUME IInv, NEW lane \in Grid
  PROVE  /\ Len(lanes[lane].body.offers) \in Int
         /\ Cardinality(Valid(lane)) \in Int
         /\ Len(Kept(lane)) \in Int
         /\ ~Answered(lane) => Cardinality(Valid(lane)) = 0
<1>1. lanes[lane].body.offers \in Seq(Raw)
  BY DEF IInv, Shaped, Lane, Body
<1>2. PICK n \in Nat : n = Len(lanes[lane].body.offers)
  BY <1>1
<1>3. IsFiniteSet(1..n)
  BY FS_Interval
<1>4. Valid(lane) \subseteq 1..n
  BY <1>1, <1>2 DEF Valid, Read
<1>5. Cardinality(Valid(lane)) \in Nat
  BY <1>3, <1>4, FS_Subset, FS_CardinalityType
<1>6. ~Answered(lane) => Cardinality(Valid(lane)) = 0
  BY FS_EmptySet DEF Valid
<1>7. PICK m \in 0..PerSearch : Len(Kept(lane)) = m
  BY KeptEntries
<1>8. Len(Kept(lane)) \in Int
  BY <1>7, ProviderSearchAssumption
<1> QED
  BY <1>2, <1>5, <1>6, <1>8

(***************************************************************************)
(* A number of offers is shown.                                            *)
(***************************************************************************)
LEMMA ShownForIsCounted ==
  ASSUME IInv, NEW date \in DOMAIN Dates(Query(said))
  PROVE  Len(ShownFor(date)) \in 0..PerSearch /\ DOMAIN ShownFor(date) = 1..Len(ShownFor(date))
<1>1. PICK L, size, N, place : DateDealt(date, L, size, N, place)
  BY DateIsDealt
<1>2. PICK groups : groups = [s \in DOMAIN Sources |-> Kept(<<date, s>>)]
  OBVIOUS
<1>3. N \in Nat /\ N <= PerSearch /\ ShownFor(date) = [m \in 1..N |-> groups[place[m][2]][place[m][1]]]
  BY <1>1, <1>2 DEF DateDealt, Takes, Dealt
<1>4. ShownFor(date) \in [1..N -> {groups[place[m][2]][place[m][1]] : m \in 1..N}]
  BY <1>3
<1>5. Len(ShownFor(date)) = N /\ DOMAIN ShownFor(date) = 1..N
  BY <1>3, <1>4, SequenceOf
<1> QED
  BY <1>3, <1>5, ProviderSearchAssumption

\* What is shown of a month: N turns among D dates.
MonthDealt(D, N, place) ==
    LET groups == [date \in DOMAIN Dates(Query(said)) |-> ShownFor(date)]
    IN  /\ D \in Nat /\ DOMAIN Dates(Query(said)) = 1..D
        /\ Turns(groups) = {t \in (1..PerSearch) \X (1..D) : t[1] <= Len(ShownFor(t[2]))}
        /\ Takes(groups, N, place)
        /\ Shown = Dealt(groups, N, place)

(***************************************************************************)
(* What is shown of a month is dealt from what its dates show.             *)
(***************************************************************************)
LEMMA MonthIsDealt ==
  ASSUME IInv, Query(said).month
  PROVE  \E D, N, place : MonthDealt(D, N, place)
<1>1. PICK D \in Nat : DOMAIN Dates(Query(said)) = 1..D
  BY DatesAreNumbered
<1>2. PICK groups : groups = [date \in DOMAIN Dates(Query(said)) |-> ShownFor(date)]
  OBVIOUS
<1>3. PICK size : size = [date \in 1..D |-> Len(ShownFor(date))]
  OBVIOUS
<1>4. \A date \in 1..D : /\ size[date] \in 0..PerSearch /\ size[date] = Len(ShownFor(date))
                         /\ groups[date] = ShownFor(date) /\ DOMAIN groups[date] = 1..size[date]
  BY <1>1, <1>2, <1>3, ShownForIsCounted
<1>5. Sized(groups, size, D) /\ size \in [1..D -> 0..PerSearch]
  BY <1>1, <1>2, <1>3, <1>4 DEF Sized
<1>6. PerSearch \in Nat /\ PerMonth \in Nat
  BY ProviderSearchAssumption
<1>7. /\ Turns(groups) = TurnsOf(size, D, PerSearch)
      /\ \E N, place : /\ Takes(groups, N, place) /\ N <= PerMonth
                       /\ RoundRobin(groups, PerMonth) = Dealt(groups, N, place)
  BY <1>5, <1>6, TurnsTaken
<1>8. PICK N, place : /\ Takes(groups, N, place) /\ N <= PerMonth
                      /\ RoundRobin(groups, PerMonth) = Dealt(groups, N, place)
  BY <1>7
<1>9. Shown = RoundRobin(groups, PerMonth)
  BY <1>2 DEF Shown
<1>10. Turns(groups) = {t \in (1..PerSearch) \X (1..D) : t[1] <= Len(ShownFor(t[2]))}
  <2>1. \A t \in (1..PerSearch) \X (1..D) : size[t[2]] = Len(ShownFor(t[2]))
    BY <1>4
  <2> QED
    BY <1>7, <2>1 DEF TurnsOf
<1>11. MonthDealt(D, N, place)
  BY <1>1, <1>2, <1>8, <1>9, <1>10 DEF MonthDealt
<1> QED
  BY <1>11

(***************************************************************************)
(* Dates with a source that answered are dates; the first is one of them   *)
(* when only one date was asked for.                                       *)
(***************************************************************************)
LEMMA OneDate ==
  ASSUME IInv, ~Query(said).month, FoundDates # {}
  PROVE  1 \in DOMAIN Dates(Query(said))
<1>1. Query(said).ask
  BY DEF FoundDates, Dates
<1>2. Dates(Query(said)) = <<Query(said).from>>
  BY <1>1 DEF Dates
<1> QED
  BY <1>2

(***************************************************************************)
(* The number of offers that are shown is a number.                        *)
(***************************************************************************)
LEMMA ShownIsCounted ==
  ASSUME IInv
  PROVE  Len(Shown) \in Int /\ DOMAIN Shown = 1..Len(Shown)
<1>1. CASE Query(said).month
  <2>1. PICK D, N, place : MonthDealt(D, N, place)
    BY <1>1, MonthIsDealt
  <2>2. PICK groups : groups = [date \in DOMAIN Dates(Query(said)) |-> ShownFor(date)]
    OBVIOUS
  <2>3. N \in Nat /\ Shown = [m \in 1..N |-> groups[place[m][2]][place[m][1]]]
    BY <2>1, <2>2 DEF MonthDealt, Takes, Dealt
  <2>4. Shown \in [1..N -> {groups[place[m][2]][place[m][1]] : m \in 1..N}]
    BY <2>3
  <2> QED
    BY <2>3, <2>4, SequenceOf
<1>2. CASE ~Query(said).month /\ FoundDates = {}
  <2>1. Shown = <<>>
    BY <1>2 DEF Shown
  <2> QED
    BY <2>1
<1>3. CASE ~Query(said).month /\ FoundDates # {}
  <2>1. Shown = ShownFor(1)
    BY <1>3 DEF Shown
  <2>2. Len(ShownFor(1)) \in 0..PerSearch /\ DOMAIN ShownFor(1) = 1..Len(ShownFor(1))
    BY <1>3, OneDate, ShownForIsCounted
  <2> QED
    BY <2>1, <2>2, ProviderSearchAssumption
<1> QED
  BY <1>1, <1>2, <1>3

(***************************************************************************)
(* The positions of the lanes are finitely many.                           *)
(***************************************************************************)
LEMMA GridIsFinite ==
  ASSUME IInv
  PROVE  IsFiniteSet(Grid) /\ IsFiniteSet(DOMAIN Dates(Query(said)))
<1>1. PICK D \in Nat : DOMAIN Dates(Query(said)) = 1..D
  BY DatesAreNumbered
<1>2. PICK L \in Nat : DOMAIN Sources = 1..L
  BY SourcesAreNumbered
<1>3. IsFiniteSet(1..D) /\ IsFiniteSet(1..L)
  BY FS_Interval
<1>4. IsFiniteSet((1..D) \X (1..L))
  BY <1>3, FS_Product
<1> QED
  BY <1>1, <1>2, <1>3, <1>4 DEF Grid

(***************************************************************************)
(* What is left out and what is kept is all there is.                      *)
(***************************************************************************)
LEMMA PartsOfSum ==
  ASSUME NEW S, IsFiniteSet(S), NEW a, NEW b, NEW left, DOMAIN left = S,
         \A x \in S : left[x] \in Int /\ b[x] \in Int /\ a[x] = left[x] + b[x]
  PROVE  /\ SumFunction(left) \in Int
         /\ SumFunctionOnSet(b, S) \in Int
         /\ SumFunctionOnSet(a, S) = SumFunction(left) + SumFunctionOnSet(b, S)
<1>1. SumFunction(left) = SumFunctionOnSet(left, S)
  BY DEF SumFunction
<1>2. SumFunctionOnSet(a, S) = SumFunctionOnSet(left, S) + SumFunctionOnSet(b, S)
  BY SumOfSums
<1>3. \A x \in S : left[x] \in Int
  OBVIOUS
<1>4. \A x \in S : b[x] \in Int
  OBVIOUS
<1>5. SumFunctionOnSet(left, S) \in Int
  BY <1>3, SumLaws
<1>6. SumFunctionOnSet(b, S) \in Int
  BY <1>4, SumLaws
<1> QED
  BY <1>1, <1>2, <1>5, <1>6

(***************************************************************************)
(* A function that is summed up as a whole is summed up over its domain.   *)
(***************************************************************************)
LEMMA WholeSum ==
  ASSUME NEW G, IsFiniteSet(G), NEW S \in SUBSET G, NEW a, \A x \in G : a[x] \in Int,
         NEW f, DOMAIN f = S, \A x \in S : f[x] = a[x]
  PROVE  SumFunction(f) = SumFunctionOnSet(a, S)
<1>1. IsFiniteSet(S)
  BY FS_Subset
<1>2. \A x \in S : f[x] \in Int /\ f[x] = a[x]
  OBVIOUS
<1>3. SumFunctionOnSet(f, S) = SumFunctionOnSet(a, S)
  BY <1>1, <1>2, SameSum
<1> QED
  BY <1>3 DEF SumFunction

(***************************************************************************)
(* Every candidate of every source that answered is shown, or counted as   *)
(* dropped or as left out, whatever the limits are (search,                *)
(* combineFlexibleFlightResults).                                          *)
(***************************************************************************)
THEOREM NothingGoesUncounted == Spec => []OffersAreCounted
<1>1. ASSUME IInv
      PROVE  Len(Shown) + Dropped + Limited =
               SumFunction([lane \in Answers |-> Len(lanes[lane].body.offers)])
  <2>1. PICK all : all = [lane \in Grid |-> Len(lanes[lane].body.offers)]
    OBVIOUS
  <2>2. PICK valid : valid = [lane \in Grid |-> Cardinality(Valid(lane))]
    OBVIOUS
  <2>3. PICK kept : kept = [lane \in Grid |-> Len(Kept(lane))]
    OBVIOUS
  <2>4. \A lane \in Grid : /\ all[lane] \in Int /\ valid[lane] \in Int /\ kept[lane] \in Int
                           /\ (~Answered(lane) => valid[lane] = 0)
    BY <1>1, <2>1, <2>2, <2>3, LaneCounts
  <2>5. IsFiniteSet(Grid) /\ IsFiniteSet(FoundDates)
    <3>1. FoundDates \subseteq DOMAIN Dates(Query(said))
      BY DEF FoundDates
    <3> QED
      BY <1>1, <3>1, GridIsFinite, FS_Subset
  <2>6. Answers \in SUBSET Grid
    BY <1>1 DEF Answers, IInv, Shaped
  <2>7. Dropped \in Int /\ Dropped + SumFunctionOnSet(valid, Answers)
          = SumFunction([lane \in Answers |-> Len(lanes[lane].body.offers)])
    <3>0. \A lane \in Grid : all[lane] \in Int /\ valid[lane] \in Int
      BY <2>4
    <3>1. PICK bad : bad = [lane \in Answers |-> Len(lanes[lane].body.offers) - Cardinality(Valid(lane))]
      OBVIOUS
    <3>2. PICK told : told = [lane \in Answers |-> Len(lanes[lane].body.offers)]
      OBVIOUS
    <3>3. DOMAIN bad = Answers /\ \A lane \in Answers : bad[lane] = all[lane] - valid[lane]
      BY <2>1, <2>2, <2>6, <3>1
    <3>4. DOMAIN told = Answers /\ \A lane \in Answers : told[lane] = all[lane]
      BY <2>1, <2>6, <3>2
    <3>5. SumFunction(told) = SumFunctionOnSet(all, Answers)
      <4>1. \A lane \in Grid : all[lane] \in Int
        BY <3>0
      <4> QED
        BY <2>5, <2>6, <3>4, <4>1, WholeSum
    <3>6. /\ SumFunction(bad) \in Int
          /\ SumFunctionOnSet(all, Answers) = SumFunction(bad) + SumFunctionOnSet(valid, Answers)
      <4>1. \A lane \in Answers :
               bad[lane] \in Int /\ valid[lane] \in Int /\ all[lane] = bad[lane] + valid[lane]
        <5> TAKE lane \in Answers
        <5>1. bad[lane] = all[lane] - valid[lane] /\ all[lane] \in Int /\ valid[lane] \in Int
          BY <2>6, <3>0, <3>3
        <5> QED
          BY <5>1
      <4>2. IsFiniteSet(Answers) /\ DOMAIN bad = Answers
        BY <2>5, <2>6, <3>3, FS_Subset
      <4>3. PICK A : A = Answers
        OBVIOUS
      <4>4. \A lane \in A :
               bad[lane] \in Int /\ valid[lane] \in Int /\ all[lane] = bad[lane] + valid[lane]
        BY <4>1, <4>3
      <4>5. IsFiniteSet(A) /\ DOMAIN bad = A
        BY <4>2, <4>3
      <4>6. /\ SumFunction(bad) \in Int
            /\ SumFunctionOnSet(valid, A) \in Int
            /\ SumFunctionOnSet(all, A) = SumFunction(bad) + SumFunctionOnSet(valid, A)
        <5>1. SumFunction(bad) = SumFunctionOnSet(bad, A)
          BY <4>5 DEF SumFunction
        <5>2. SumFunctionOnSet(all, A) = SumFunctionOnSet(bad, A) + SumFunctionOnSet(valid, A)
          BY <4>4, <4>5, SumOfSums
        <5>3. \A lane \in A : bad[lane] \in Int
          BY <4>4
        <5>4. \A lane \in A : valid[lane] \in Int
          BY <4>4
        <5>5. SumFunctionOnSet(bad, A) \in Int
          BY <4>5, <5>3, SumLaws
        <5>6. SumFunctionOnSet(valid, A) \in Int
          BY <4>5, <5>4, SumLaws
        <5> QED
          BY <5>1, <5>2, <5>5, <5>6
      <4> QED
        BY <4>3, <4>6
    <3>7. Dropped = SumFunction(bad)
      BY <3>1 DEF Dropped
    <3> QED
      BY <3>2, <3>5, <3>6, <3>7
  <2>8. PICK ofDate : ofDate = [date \in FoundDates |-> SumFunctionOnSet(valid, LanesOf(date))]
    OBVIOUS
  <2>9. \A date \in FoundDates : LanesOf(date) \in SUBSET Grid
    BY DEF LanesOf, FoundDates, Grid
  <2>10. PICK left : left = [date \in FoundDates |-> LimitedAt(date)]
    OBVIOUS
  <2>11. PICK shown : shown = [date \in FoundDates |-> Len(ShownFor(date))]
    OBVIOUS
  <2>12. ASSUME NEW date \in FoundDates
         PROVE  shown[date] \in Int /\ left[date] \in Int /\ ofDate[date] = left[date] + shown[date]
    <3>1. shown[date] = Len(ShownFor(date)) /\ shown[date] \in Int
      <4>1. date \in DOMAIN Dates(Query(said))
        BY DEF FoundDates
      <4>2. Len(ShownFor(date)) \in 0..PerSearch
        BY <1>1, <4>1, ShownForIsCounted
      <4> QED
        BY <2>11, <4>2, ProviderSearchAssumption
    <3>2. PICK beyond : beyond = [lane \in LanesOf(date) |-> Cardinality(Valid(lane)) - Len(Kept(lane))]
      OBVIOUS
    <3>3. PICK within : within = [lane \in LanesOf(date) |-> Len(Kept(lane))]
      OBVIOUS
    <3>4. PICK out, in : out = SumFunction(beyond) /\ in = SumFunction(within)
      OBVIOUS
    <3>5. /\ out \in Int /\ in \in Int
          /\ out + in = SumFunctionOnSet(valid, LanesOf(date))
          /\ LimitedAt(date) = out + in - Len(ShownFor(date))
      <4>1. \A lane \in Grid : valid[lane] \in Int /\ kept[lane] \in Int
        BY <2>4
      <4>2. LanesOf(date) \in SUBSET Grid
        BY <2>9
      <4>3. /\ DOMAIN beyond = LanesOf(date)
            /\ \A lane \in LanesOf(date) : beyond[lane] = valid[lane] - kept[lane]
        BY <2>2, <2>3, <3>2, <4>2
      <4>4. DOMAIN within = LanesOf(date) /\ \A lane \in LanesOf(date) : within[lane] = kept[lane]
        BY <2>3, <3>3, <4>2
      <4>5. SumFunction(within) = SumFunctionOnSet(kept, LanesOf(date))
        <5>1. \A lane \in Grid : kept[lane] \in Int
          BY <4>1
        <5> QED
          BY <2>5, <4>2, <4>4, <5>1, WholeSum
      <4>6. /\ SumFunction(beyond) \in Int /\ SumFunctionOnSet(kept, LanesOf(date)) \in Int
            /\ SumFunctionOnSet(valid, LanesOf(date))
                 = SumFunction(beyond) + SumFunctionOnSet(kept, LanesOf(date))
        <5>1. \A lane \in LanesOf(date) :
               beyond[lane] \in Int /\ kept[lane] \in Int /\ valid[lane] = beyond[lane] + kept[lane]
          <6> TAKE lane \in LanesOf(date)
          <6>1. beyond[lane] = valid[lane] - kept[lane] /\ valid[lane] \in Int /\ kept[lane] \in Int
            BY <4>1, <4>2, <4>3
          <6> QED
            BY <6>1
        <5>2. IsFiniteSet(LanesOf(date)) /\ DOMAIN beyond = LanesOf(date)
          BY <2>5, <4>2, <4>3, FS_Subset
        <5> QED
          BY <5>1, <5>2, PartsOfSum
      <4>7. LimitedAt(date) = SumFunction(beyond) + SumFunction(within) - Len(ShownFor(date))
        BY <3>2, <3>3 DEF LimitedAt
      <4> QED
        BY <3>4, <4>5, <4>6, <4>7
    <3>6. left[date] = LimitedAt(date) /\ ofDate[date] = SumFunctionOnSet(valid, LanesOf(date))
      BY <2>8, <2>10
    <3>7. left[date] = out + in - shown[date] /\ ofDate[date] = out + in
      BY <3>1, <3>5, <3>6
    <3>8. left[date] \in Int
      BY <3>1, <3>5, <3>7
    <3>9. out + in = left[date] + shown[date]
      BY <3>1, <3>5, <3>7
    <3> QED
      BY <3>1, <3>7, <3>8, <3>9
  <2>13. SumFunctionOnSet(ofDate, FoundDates)
           = SumFunctionOnSet(left, FoundDates) + SumFunctionOnSet(shown, FoundDates)
    <3>1. \A date \in FoundDates :
             left[date] \in Int /\ shown[date] \in Int /\ ofDate[date] = left[date] + shown[date]
      BY <2>12
    <3> QED
      BY <2>5, <3>1, SumOfSums
  <2>14. SumFunctionOnSet(ofDate, FoundDates) = SumFunctionOnSet(valid, Answers)
    <3>1. PICK group : group = [date \in FoundDates |-> LanesOf(date)]
      OBVIOUS
    <3>2. \A date \in FoundDates : group[date] \in SUBSET Grid
                                   /\ ofDate[date] = SumFunctionOnSet(valid, group[date])
      BY <2>8, <2>9, <3>1
    <3>3. \A d, e \in FoundDates : d # e => group[d] \cap group[e] = {}
      BY <3>1 DEF LanesOf
    <3>4. \A lane \in Grid : valid[lane] \in Int
      BY <2>4
    <3>5. PICK asked : asked = UNION {group[date] : date \in FoundDates}
      OBVIOUS
    <3>6. SumFunctionOnSet(ofDate, FoundDates) = SumFunctionOnSet(valid, asked)
      BY <2>5, <3>2, <3>3, <3>4, <3>5, SumOfGroups
    <3>7. asked \in SUBSET Grid
      BY <3>2, <3>5
    <3>8. Answers \in SUBSET asked
      <4> SUFFICES ASSUME NEW lane \in Answers PROVE lane \in asked
        OBVIOUS
      <4>1. lane \in Grid /\ Answered(lane)
        BY <2>6 DEF Answers
      <4>2. PICK date \in DOMAIN Dates(Query(said)), i \in DOMAIN Sources : lane = <<date, i>>
        BY <4>1 DEF Grid
      <4>3. date \in FoundDates /\ lane \in LanesOf(date)
        BY <4>1, <4>2 DEF FoundDates, LanesOf
      <4> QED
        BY <3>1, <3>5, <4>3
    <3>9. \A lane \in asked \ Answers : valid[lane] = 0
      <4> TAKE lane \in asked \ Answers
      <4>1. lane \in Grid /\ ~Answered(lane)
        BY <1>1, <3>7 DEF Answers, IInv, Shaped
      <4> QED
        BY <2>4, <4>1
    <3>10. IsFiniteSet(asked) /\ \A lane \in asked : valid[lane] \in Int
      BY <2>5, <3>4, <3>7, FS_Subset
    <3>11. SumFunctionOnSet(valid, asked) = SumFunctionOnSet(valid, Answers)
      BY <3>8, <3>9, <3>10, SumWithout
    <3> QED
      BY <3>6, <3>11
  <2>15. Limited = SumFunctionOnSet(left, FoundDates) + SumFunctionOnSet(shown, FoundDates) - Len(Shown)
    <3>1. SumFunction(left) = SumFunctionOnSet(left, FoundDates)
          /\ SumFunction(shown) = SumFunctionOnSet(shown, FoundDates)
      BY <2>10, <2>11 DEF SumFunction
    <3> QED
      BY <2>10, <2>11, <3>1 DEF Limited
  <2>16. SumFunctionOnSet(valid, Answers) \in Int
    <3>1. IsFiniteSet(Answers) /\ \A lane \in Answers : valid[lane] \in Int
      BY <2>4, <2>5, <2>6, FS_Subset
    <3> QED
      BY <3>1, SumLaws
  <2>17. PICK v, n, d : v = SumFunctionOnSet(valid, Answers) /\ n = Len(Shown) /\ d = Dropped
    OBVIOUS
  <2>18. v \in Int /\ n \in Int /\ d \in Int
    BY <1>1, <2>7, <2>16, <2>17, ShownIsCounted
  <2>19. Limited = v - n
    <3>1. PICK out, in : /\ out = SumFunctionOnSet(left, FoundDates)
                         /\ in = SumFunctionOnSet(shown, FoundDates)
      OBVIOUS
    <3>2. out \in Int /\ in \in Int
      <4>1. \A date \in FoundDates : left[date] \in Int
        BY <2>12
      <4>2. \A date \in FoundDates : shown[date] \in Int
        BY <2>12
      <4>3. SumFunctionOnSet(left, FoundDates) \in Int
        BY <2>5, <4>1, SumLaws
      <4>4. SumFunctionOnSet(shown, FoundDates) \in Int
        BY <2>5, <4>2, SumLaws
      <4> QED
        BY <3>1, <4>3, <4>4
    <3>3. v = out + in
      BY <2>13, <2>14, <2>17, <3>1
    <3>4. Limited = out + in - n
      BY <2>15, <2>17, <3>1
    <3>5. out + in - n = v - n
      BY <2>18, <3>2, <3>3
    <3> QED
      BY <3>4, <3>5
  <2>20. n + d + (v - n) = d + v
    BY <2>18
  <2> QED
    BY <2>7, <2>17, <2>19, <2>20
<1>2. IInv => OffersAreCounted
  BY <1>1 DEF OffersAreCounted
<1> QED
  BY <1>2, Invariant, PTL

(***************************************************************************)
(* What a source keeps are entries of its answer that are offers.          *)
(***************************************************************************)
LEMMA KeptAreValid ==
  ASSUME IInv, NEW lane \in Grid, NEW rank \in DOMAIN Kept(lane)
  PROVE  Kept(lane)[rank].lane = lane /\ Kept(lane)[rank].entry \in Valid(lane)
<1>1. lanes[lane].body.offers \in Seq(Raw)
  BY DEF IInv, Shaped, Lane, Body
<1>2. PICK n \in Nat : n = Len(lanes[lane].body.offers)
  BY <1>1
<1>3. PICK V : V = Valid(lane)
  OBVIOUS
<1>4. V \subseteq 1..n
  BY <1>1, <1>2, <1>3 DEF Valid, Read
<1>5. IsFiniteSet(V)
  <2>1. IsFiniteSet(1..n)
    BY FS_Interval
  <2> QED
    BY <1>4, <2>1, FS_Subset
<1>6. PICK R : R = {pair \in V \X V : pair[1] < pair[2]}
  OBVIOUS
<1>7. \A a, b \in V : <<a, b>> \in R <=> a < b
  BY <1>6
<1>8. \A a \in V : a \in Int
  BY <1>4
<1>9. /\ \A a \in V : <<a, a>> \notin R
      /\ \A a, b, c \in V : <<a, b>> \in R /\ <<b, c>> \in R => <<a, c>> \in R
      /\ \A a, b \in V : a = b \/ <<a, b>> \in R \/ <<b, a>> \in R
  <2>1. \A a \in V : ~(a < a)
    BY <1>8
  <2>2. \A a, b, c \in V : a < b /\ b < c => a < c
    BY <1>8
  <2>3. \A a, b \in V : a = b \/ a < b \/ b < a
    BY <1>8
  <2> QED
    BY <1>7, <2>1, <2>2, <2>3
<1> DEFINE place == [t \in V |-> Cardinality({u \in V : <<u, t>> \in R})]
<1>10. \A t \in V : place[t] = Cardinality({u \in V : <<u, t>> \in R})
  OBVIOUS
<1>11. /\ place \in [V -> 0..(Cardinality(V) - 1)]
       /\ \A a, b \in V : <<a, b>> \in R => place[a] < place[b]
       /\ \A a, b \in V : place[a] = place[b] => a = b
       /\ \A k \in 0..(Cardinality(V) - 1) : \E t \in V : place[t] = k
       /\ Cardinality(V) \in Nat
  BY <1>5, <1>9, Ranking
<1> HIDE DEF place
<1>12. Cardinality(V) \in Nat
  BY <1>5, FS_CardinalityType
<1>13. rank \in 1..Cardinality(V)
  <2>1. rank \in 1..Lesser(Cardinality(V), PerSearch)
    BY <1>3 DEF Kept
  <2> QED
    BY <1>12, <2>1, ProviderSearchAssumption DEF Lesser
<1>14. PICK t \in V : place[t] = rank - 1
  <2>1. rank - 1 \in 0..(Cardinality(V) - 1)
    BY <1>12, <1>13
  <2> QED
    BY <1>11, <2>1
<1>15. Cardinality({j \in V : j < t}) = rank - 1
  <2>1. {j \in V : j < t} = {u \in V : <<u, t>> \in R}
    BY <1>7
  <2> QED
    BY <1>10, <1>14, <2>1
<1>16. \E i \in Valid(lane) : Cardinality({j \in Valid(lane) : j < i}) = rank - 1
  BY <1>3, <1>15
<1>17. PICK entry :
         entry = CHOOSE i \in Valid(lane) : Cardinality({j \in Valid(lane) : j < i}) = rank - 1
  OBVIOUS
<1>18. entry \in Valid(lane)
  BY <1>16, <1>17
<1>19. Kept(lane)[rank] = [lane |-> lane, entry |-> entry]
  BY <1>17 DEF Kept
<1> QED
  BY <1>18, <1>19

(***************************************************************************)
(* What is shown for a date was kept by one of its lanes.                  *)
(***************************************************************************)
LEMMA ShownForIsKept ==
  ASSUME IInv, NEW date \in DOMAIN Dates(Query(said)), NEW n \in DOMAIN ShownFor(date)
  PROVE  \E lane \in Grid : \E rank \in DOMAIN Kept(lane) : ShownFor(date)[n] = Kept(lane)[rank]
<1>1. PICK L, size, N, place : DateDealt(date, L, size, N, place)
  BY DateIsDealt
<1>2. PICK groups : groups = [s \in DOMAIN Sources |-> Kept(<<date, s>>)]
  OBVIOUS
<1>3. /\ L \in Nat /\ DOMAIN Sources = 1..L /\ size \in [1..L -> 0..PerSearch]
      /\ \A s \in 1..L : DOMAIN Kept(<<date, s>>) = 1..size[s]
      /\ Turns(groups) = TurnsOf(size, L, PerSearch)
      /\ place \in [1..N -> Turns(groups)]
      /\ ShownFor(date) = [m \in 1..N |-> groups[place[m][2]][place[m][1]]]
  BY <1>1, <1>2 DEF DateDealt, Takes, Dealt
<1>4. n \in 1..N
  BY <1>3
<1>5. place[n] \in TurnsOf(size, L, PerSearch)
  BY <1>3, <1>4
<1>6. PICK r, s : r = place[n][1] /\ s = place[n][2]
  OBVIOUS
<1>7. s \in 1..L /\ r \in 1..PerSearch /\ r <= size[s]
  BY <1>5, <1>6 DEF TurnsOf
<1>8. r \in 1..size[s]
  BY <1>3, <1>7, ProviderSearchAssumption
<1>9. ShownFor(date)[n] = groups[s][r] /\ groups[s] = Kept(<<date, s>>)
  BY <1>2, <1>3, <1>4, <1>6, <1>7
<1>10. <<date, s>> \in Grid
  BY <1>3, <1>7 DEF Grid
<1>11. r \in DOMAIN Kept(<<date, s>>)
  BY <1>3, <1>7, <1>8
<1> QED
  BY <1>9, <1>10, <1>11

(***************************************************************************)
(* What is shown was kept by one of the lanes.                             *)
(***************************************************************************)
LEMMA ShownIsKept ==
  ASSUME IInv, NEW n \in DOMAIN Shown
  PROVE  \E lane \in Grid : \E rank \in DOMAIN Kept(lane) : Shown[n] = Kept(lane)[rank]
<1>1. CASE Query(said).month
  <2>1. PICK D, N, place : MonthDealt(D, N, place)
    BY <1>1, MonthIsDealt
  <2>2. PICK groups : groups = [date \in DOMAIN Dates(Query(said)) |-> ShownFor(date)]
    OBVIOUS
  <2>3. /\ DOMAIN Dates(Query(said)) = 1..D
        /\ Turns(groups) = {t \in (1..PerSearch) \X (1..D) : t[1] <= Len(ShownFor(t[2]))}
        /\ place \in [1..N -> Turns(groups)]
        /\ Shown = [m \in 1..N |-> groups[place[m][2]][place[m][1]]]
    BY <2>1, <2>2 DEF MonthDealt, Takes, Dealt
  <2>4. n \in 1..N
    BY <2>3
  <2>5. place[n] \in {t \in (1..PerSearch) \X (1..D) : t[1] <= Len(ShownFor(t[2]))}
    BY <2>3, <2>4
  <2>6. PICK r, date : r = place[n][1] /\ date = place[n][2]
    OBVIOUS
  <2>7. date \in 1..D /\ r \in 1..PerSearch /\ r <= Len(ShownFor(date))
    BY <2>5, <2>6
  <2>8. /\ Len(ShownFor(date)) \in 0..PerSearch
        /\ DOMAIN ShownFor(date) = 1..Len(ShownFor(date))
    BY <2>3, <2>7, ShownForIsCounted
  <2>9. r \in 1..Len(ShownFor(date))
    <3>1. PICK len : len = Len(ShownFor(date))
      OBVIOUS
    <3>2. PerSearch \in Nat /\ len \in 0..PerSearch /\ r \in 1..PerSearch /\ r <= len
      BY <2>7, <2>8, <3>1, ProviderSearchAssumption
    <3>3. r \in 1..len
      BY <3>2
    <3> QED
      BY <3>1, <3>3
  <2>10. Shown[n] = ShownFor(date)[r]
    BY <2>2, <2>3, <2>4, <2>6, <2>7
  <2>11. date \in DOMAIN Dates(Query(said)) /\ r \in DOMAIN ShownFor(date)
    BY <2>3, <2>7, <2>8, <2>9
  <2> QED
    BY <2>10, <2>11, ShownForIsKept
<1>2. CASE ~Query(said).month
  <2>1. FoundDates # {}
    BY <1>2 DEF Shown
  <2>2. Shown = ShownFor(1)
    BY <1>2, <2>1 DEF Shown
  <2> QED
    BY <1>2, <2>1, <2>2, OneDate, ShownForIsKept
<1> QED
  BY <1>1, <1>2

(***************************************************************************)
(* The best price is a quote, and a stale one only when there is no other. *)
(***************************************************************************)
LEMMA BestIsAQuote ==
  ASSUME NEW quotes, quotes \subseteq [amount : Nat, current : BOOLEAN], quotes # {}
  PROVE  \E quote \in quotes : /\ quote.amount = BestPrice(quotes)
                               /\ quote.current \/ ~\E other \in quotes : other.current
<1>1. PICK best : best = IF {quote \in quotes : quote.current} # {}
                         THEN {quote \in quotes : quote.current} ELSE quotes
  OBVIOUS
<1>2. best # {} /\ best \subseteq quotes
  BY <1>1
<1>3. PICK amounts : amounts = {quote.amount : quote \in best}
  OBVIOUS
<1>4. amounts \subseteq Nat /\ amounts # {}
  <2>1. \A quote \in best : quote.amount \in Nat
    BY <1>2
  <2> QED
    BY <1>2, <1>3, <2>1
<1>5. PICK n \in amounts : \A m \in amounts : n <= m
  BY <1>4, LeastNumber
<1>6. Least(amounts) \in amounts
  BY <1>5 DEF Least
<1>7. BestPrice(quotes) = Least(amounts)
  BY <1>1, <1>3 DEF BestPrice
<1>8. PICK quote \in best : quote.amount = BestPrice(quotes)
  BY <1>3, <1>6, <1>7
<1>9. quote.current \/ ~\E other \in quotes : other.current
  BY <1>1, <1>8
<1> QED
  BY <1>2, <1>8, <1>9

(***************************************************************************)
(* An entry that became an offer was answered with its price, and it is    *)
(* held only if TravelClaw's own adapter confirmed that (flightCandidate,  *)
(* stayCandidate, itineraryCandidate, readHold).                           *)
(***************************************************************************)
LEMMA OfferIsQuoted ==
  ASSUME NEW raw \in Raw, NEW adapter \in {"travelclaw", "serpapi", "flightapi"},
         NEW kind \in {"flight", "stay"}, NEW echoed, NEW asked, NEW nights,
         NEW offer, offer = Normalized(raw, adapter, kind, echoed, asked, nights),
         offer # Unreadable
  PROVE  /\ \/ \E quote \in raw.quotes :
                  /\ quote.amount = offer.amount
                  /\ quote.current \/ ~\E other \in raw.quotes : other.current
            \/ raw.quotes = {} /\ offer.amount = raw.nightly * nights
         /\ offer.held => raw.holds = "confirmed" /\ adapter = "travelclaw"
<1>1. raw.quotes \subseteq [amount : Nat, current : BOOLEAN]
  BY DEF Raw
<1>2. CASE adapter = "serpapi" /\ kind = "flight"
  <2>1. offer = SerpFlight(raw, echoed)
    BY <1>2 DEF Normalized
  <2>2. ~(raw.quotes = {} \/ raw.segments = 0 \/ ~raw.named)
    BY <2>1 DEF SerpFlight
  <2>3. \E currency, stops, told : offer = Shape(BestPrice(raw.quotes), currency, stops, told, FALSE)
    BY <2>1, <2>2 DEF SerpFlight
  <2>4. raw.quotes # {} /\ offer.amount = BestPrice(raw.quotes) /\ offer.held = FALSE
    BY <2>2, <2>3 DEF Shape
  <2> QED
    BY <1>1, <2>4, BestIsAQuote
<1>3. CASE adapter = "serpapi" /\ kind = "stay"
  <2>1. offer = SerpStay(raw, echoed, asked, nights)
    BY <1>3 DEF Normalized
  <2>2. ~(~raw.named \/ (raw.quotes = {} /\ raw.nightly = 0))
    BY <2>1 DEF SerpStay
  <2>3. PICK amount : amount = IF raw.quotes # {} THEN BestPrice(raw.quotes) ELSE raw.nightly * nights
    OBVIOUS
  <2>4. \E currency : offer = Shape(amount, currency, -1, -1, FALSE)
    BY <2>1, <2>2, <2>3 DEF SerpStay
  <2>5. offer.amount = amount /\ offer.held = FALSE
    BY <2>4 DEF Shape
  <2> QED
    BY <1>1, <2>3, <2>5, BestIsAQuote
<1>4. CASE adapter = "flightapi"
  <2>1. offer = FlightApiFlight(raw, asked)
    BY <1>4 DEF Normalized
  <2>2. ~(raw.quotes = {} \/ (raw.legs > 0 /\ raw.named /\ raw.segments = 0))
    BY <2>1 DEF FlightApiFlight
  <2>3. \E currency, stops, told : offer = Shape(BestPrice(raw.quotes), currency, stops, told, FALSE)
    BY <2>1, <2>2 DEF FlightApiFlight
  <2>4. raw.quotes # {} /\ offer.amount = BestPrice(raw.quotes) /\ offer.held = FALSE
    BY <2>2, <2>3 DEF Shape
  <2> QED
    BY <1>1, <2>4, BestIsAQuote
<1>5. CASE adapter = "travelclaw"
  <2>1. offer = OwnOffer(raw)
    BY <1>5 DEF Normalized
  <2>2. ~(raw.quotes = {} \/ raw.says = "none")
    BY <2>1 DEF OwnOffer
  <2>3. \E currency, stops, told :
           offer = Shape(BestPrice(raw.quotes), currency, stops, told, raw.holds = "confirmed")
    BY <2>1, <2>2 DEF OwnOffer
  <2>4. raw.quotes # {} /\ offer.amount = BestPrice(raw.quotes) /\ offer.held = (raw.holds = "confirmed")
    BY <2>2, <2>3 DEF Shape
  <2>5. offer.held => raw.holds = "confirmed"
    BY <2>4
  <2>6. \E quote \in raw.quotes : /\ quote.amount = BestPrice(raw.quotes)
                                  /\ quote.current \/ ~\E other \in raw.quotes : other.current
    BY <1>1, <2>4, BestIsAQuote
  <2> QED
    BY <1>5, <2>4, <2>5, <2>6
<1> QED
  BY <1>2, <1>3, <1>4, <1>5

(***************************************************************************)
(* What is shown was answered: its price is a quote of its entry, a stale  *)
(* one only without a current one, or the nights at the nightly price; and *)
(* only a confirmed hold is a hold (bestPrice, stayCandidate, readHold).   *)
(***************************************************************************)
THEOREM NothingIsMadeUp == Spec => []ShownIsQuoted
<1>1. ASSUME IInv, NEW n \in DOMAIN Shown
      PROVE  LET lane == Shown[n].lane
                 raw == lanes[lane].body.offers[Shown[n].entry]
                 offer == OfferAt(lane, Shown[n].entry)
             IN  /\ \/ \E quote \in raw.quotes :
                         /\ quote.amount = offer.amount
                         /\ quote.current \/ ~\E other \in raw.quotes : other.current
                    \/ raw.quotes = {} /\ offer.amount = raw.nightly * Nights
                 /\ offer.held => raw.holds = "confirmed" /\ SourceOf(lane).adapter = "travelclaw"
  <2>0. PICK lane \in Grid : \E rank \in DOMAIN Kept(lane) : Shown[n] = Kept(lane)[rank]
    BY <1>1, ShownIsKept
  <2>1. PICK rank \in DOMAIN Kept(lane) : Shown[n] = Kept(lane)[rank]
    BY <2>0
  <2>2. PICK i : i = Shown[n].entry
    OBVIOUS
  <2>3. Shown[n].lane = lane /\ i \in Valid(lane)
    BY <1>1, <2>1, <2>2, KeptAreValid
  <2>4. PICK raw : raw = lanes[lane].body.offers[i]
    OBVIOUS
  <2>5. Answered(lane) /\ i \in DOMAIN lanes[lane].body.offers
    BY <2>3 DEF Valid, Read
  <2>6. raw \in Raw
    <3>1. lanes[lane].body.offers \in Seq(Raw)
      BY <1>1 DEF IInv, Shaped, Lane, Body
    <3> QED
      BY <2>4, <2>5, <3>1
  <2>7. SourceOf(lane).adapter \in {"travelclaw", "serpapi", "flightapi"}
    <3>1. SourceOf(lane).adapter # "unknown"
      BY <1>1, <2>5 DEF IInv, AllSane, Sane, Answered
    <3>2. SourceOf(lane) \in Source
      BY <1>1, SourcesAreSources DEF Grid, SourceOf, IInv
    <3> QED
      BY <3>1, <3>2 DEF Source, Adapters
  <2>8. said.kind \in {"flight", "stay"}
    BY <1>1, ProviderSearchAssumption DEF IInv, Basics, Words
  <2>9. PICK offer : offer = OfferAt(lane, i)
    OBVIOUS
  <2>10. /\ offer = Normalized(raw, SourceOf(lane).adapter, said.kind, lanes[lane].body.echoed,
                               said.currency, Nights)
         /\ offer # Unreadable
    BY <2>3, <2>4, <2>9 DEF OfferAt, Valid, Read
  <2>11. /\ \/ \E quote \in raw.quotes :
                  /\ quote.amount = offer.amount
                  /\ quote.current \/ ~\E other \in raw.quotes : other.current
            \/ raw.quotes = {} /\ offer.amount = raw.nightly * Nights
         /\ offer.held => raw.holds = "confirmed" /\ SourceOf(lane).adapter = "travelclaw"
    BY <2>6, <2>7, <2>8, <2>10, OfferIsQuoted
  <2> QED
    BY <2>2, <2>3, <2>4, <2>9, <2>11
<1>2. IInv => ShownIsQuoted
  BY <1>1 DEF ShownIsQuoted
<1> QED
  BY <1>2, Invariant, PTL

-----------------------------------------------------------------------------
(* Who is shown how often. *)

\* The list shows the first M offers that a date would show, and of that date no other.
ListBegins(date, M, at) ==
    /\ M \in Nat /\ M <= Len(ShownFor(date))
    /\ at \in [1..M -> DOMAIN Shown]
    /\ \A p, q \in 1..M : at[p] = at[q] => p = q
    /\ \A p \in 1..M : Shown[at[p]] = ShownFor(date)[p]
    /\ \A n \in DOMAIN Shown : Shown[n].lane[1] = date => \E p \in 1..M : at[p] = n

(***************************************************************************)
(* An offer that is shown for a date is of a source of that date.          *)
(***************************************************************************)
LEMMA ShownForDate ==
  ASSUME IInv, NEW date \in DOMAIN Dates(Query(said)), NEW p \in DOMAIN ShownFor(date)
  PROVE  ShownFor(date)[p].lane \in LanesOf(date)
<1>1. PICK L, size, N, place : DateDealt(date, L, size, N, place)
  BY DateIsDealt
<1>2. PICK groups : groups = [s \in DOMAIN Sources |-> Kept(<<date, s>>)]
  OBVIOUS
<1>3. /\ DOMAIN Sources = 1..L
      /\ size \in [1..L -> 0..PerSearch]
      /\ \A s \in 1..L : \A rank \in 1..size[s] : groups[s][rank].lane = <<date, s>>
      /\ Turns(groups) = TurnsOf(size, L, PerSearch)
      /\ place \in [1..N -> Turns(groups)]
      /\ ShownFor(date) = [m \in 1..N |-> groups[place[m][2]][place[m][1]]]
  BY <1>1, <1>2 DEF DateDealt, Takes, Dealt
<1>4. p \in 1..N
  BY <1>3
<1>5. place[p] \in TurnsOf(size, L, PerSearch)
  BY <1>3, <1>4
<1>6. place[p][2] \in 1..L /\ place[p][1] \in 1..size[place[p][2]]
  BY <1>3, <1>5, ProviderSearchAssumption DEF TurnsOf
<1>7. ShownFor(date)[p].lane = <<date, place[p][2]>>
  BY <1>3, <1>4, <1>6
<1>8. PICK s \in DOMAIN Sources : s = place[p][2]
  BY <1>3, <1>6
<1>9. <<date, s>> \in {date} \X DOMAIN Sources
  OBVIOUS
<1>10. ShownFor(date)[p].lane = <<date, s>>
  BY <1>7, <1>8
<1> QED
  BY <1>9, <1>10 DEF LanesOf

(***************************************************************************)
(* What the dates of a month show, seen from the list: which date each     *)
(* offer is of.                                                            *)
(***************************************************************************)
LEMMA MonthPlaces ==
  ASSUME IInv, NEW D, NEW N, NEW place, MonthDealt(D, N, place)
  PROVE  /\ N \in Nat /\ DOMAIN Shown = 1..N
         /\ \A n \in 1..N : /\ place[n][2] \in 1..D
                            /\ place[n] = <<place[n][1], place[n][2]>>
                            /\ place[n][1] \in 1..Len(ShownFor(place[n][2]))
                            /\ Shown[n] = ShownFor(place[n][2])[place[n][1]]
                            /\ Shown[n].lane \in LanesOf(place[n][2])
                            /\ Shown[n].lane[1] = place[n][2]
<1>1. PICK groups : groups = [date \in DOMAIN Dates(Query(said)) |-> ShownFor(date)]
  OBVIOUS
<1>2. /\ DOMAIN Dates(Query(said)) = 1..D /\ N \in Nat
      /\ Turns(groups) = {t \in (1..PerSearch) \X (1..D) : t[1] <= Len(ShownFor(t[2]))}
      /\ place \in [1..N -> Turns(groups)]
      /\ Shown = [m \in 1..N |-> groups[place[m][2]][place[m][1]]]
  BY <1>1 DEF MonthDealt, Takes, Dealt
<1>3. ASSUME NEW n \in 1..N
      PROVE  /\ place[n][2] \in 1..D
             /\ place[n] = <<place[n][1], place[n][2]>>
             /\ place[n][1] \in 1..Len(ShownFor(place[n][2]))
             /\ Shown[n] = ShownFor(place[n][2])[place[n][1]]
             /\ Shown[n].lane \in LanesOf(place[n][2])
             /\ Shown[n].lane[1] = place[n][2]
  <2>1. place[n] \in {t \in (1..PerSearch) \X (1..D) : t[1] <= Len(ShownFor(t[2]))}
    BY <1>2
  <2>2. PICK r, date : r = place[n][1] /\ date = place[n][2]
    OBVIOUS
  <2>3. /\ place[n] = <<r, date>> /\ date \in 1..D /\ r \in 1..PerSearch
        /\ r <= Len(ShownFor(date))
    BY <2>1, <2>2
  <2>4. date \in DOMAIN Dates(Query(said))
    BY <1>2, <2>3
  <2>5. PICK len : len = Len(ShownFor(date))
    OBVIOUS
  <2>6. len \in 0..PerSearch /\ DOMAIN ShownFor(date) = 1..len
    BY <2>4, <2>5, ShownForIsCounted
  <2>7. r \in 1..len
    BY <2>3, <2>5, <2>6, ProviderSearchAssumption
  <2>8. Shown[n] = ShownFor(date)[r]
    BY <1>1, <1>2, <2>2, <2>4
  <2>9. Shown[n].lane \in LanesOf(date)
    BY <2>4, <2>6, <2>7, <2>8, ShownForDate
  <2>10. Shown[n].lane[1] = date
    BY <2>9 DEF LanesOf
  <2> QED
    BY <2>2, <2>3, <2>5, <2>7, <2>8, <2>9, <2>10
<1> QED
  BY <1>2, <1>3

(***************************************************************************)
(* The list that is shown begins each of its dates (combineFlexible-       *)
(* FlightResults takes of every date the first offers).                    *)
(***************************************************************************)
LEMMA DatesBegin ==
  ASSUME IInv, NEW date \in FoundDates
  PROVE  \E M, at : ListBegins(date, M, at)
<1>1. date \in DOMAIN Dates(Query(said))
  BY DEF FoundDates
<1>2. PICK len : len = Len(ShownFor(date))
  OBVIOUS
<1>3. len \in Nat /\ DOMAIN ShownFor(date) = 1..len
  <2>1. len \in 0..PerSearch /\ DOMAIN ShownFor(date) = 1..len
    BY <1>1, <1>2, ShownForIsCounted
  <2> QED
    BY <2>1, ProviderSearchAssumption
<1>4. CASE Query(said).month
  <2>1. PICK D, N, place : MonthDealt(D, N, place)
    BY <1>4, MonthIsDealt
  <2>2. /\ N \in Nat /\ DOMAIN Shown = 1..N
        /\ \A n \in 1..N : /\ place[n][2] \in 1..D
                           /\ place[n] = <<place[n][1], place[n][2]>>
                           /\ place[n][1] \in 1..Len(ShownFor(place[n][2]))
                           /\ Shown[n] = ShownFor(place[n][2])[place[n][1]]
                           /\ Shown[n].lane[1] = place[n][2]
    BY <2>1, MonthPlaces
  <2>3. PICK groups : groups = [day \in DOMAIN Dates(Query(said)) |-> ShownFor(day)]
    OBVIOUS
  <2>4. /\ DOMAIN Dates(Query(said)) = 1..D
        /\ Turns(groups) = {t \in (1..PerSearch) \X (1..D) : t[1] <= Len(ShownFor(t[2]))}
        /\ Takes(groups, N, place)
    BY <2>1, <2>3 DEF MonthDealt
  \* The ranks of this date that are taken, and the first that is not.
  <2>5. PICK open : open = {r \in 1..(len + 1) : \A n \in 1..N : place[n] # <<r, date>>}
    OBVIOUS
  <2>6. open \subseteq Nat /\ len + 1 \in open
    <3>1. \A n \in 1..N : place[n] # <<len + 1, date>>
      <4> TAKE n \in 1..N
      <4> SUFFICES ASSUME place[n] = <<len + 1, date>> PROVE FALSE
        OBVIOUS
      <4>1. place[n][1] = len + 1 /\ place[n][2] = date
        OBVIOUS
      <4>2. len + 1 \in 1..len
        BY <1>2, <2>2, <4>1
      <4> QED
        BY <1>3, <4>2
    <3> QED
      BY <1>3, <2>5, <3>1
  <2>7. PICK first \in open : \A m \in open : first <= m
    <3>1. open # {}
      BY <2>6
    <3> QED
      BY <2>6, <3>1, LeastNumber
  <2>8. PICK M : M = first - 1
    OBVIOUS
  <2>9. first \in 1..(len + 1) /\ M \in Nat /\ M <= len /\ first = M + 1
    BY <1>3, <2>5, <2>7, <2>8
  <2>10. \A p \in 1..M : \E n \in 1..N : place[n] = <<p, date>>
    <3> TAKE p \in 1..M
    <3>1. p \in 1..(len + 1) /\ p < first /\ p \in Nat
      BY <1>3, <2>9
    <3>2. p \notin open
      BY <2>6, <2>7, <2>9, <3>1
    <3> QED
      BY <2>5, <3>1, <3>2
  <2>11. PICK at : at = [p \in 1..M |-> CHOOSE n \in 1..N : place[n] = <<p, date>>]
    OBVIOUS
  <2>12. \A p \in 1..M : at[p] \in 1..N /\ place[at[p]] = <<p, date>>
    BY <2>10, <2>11
  <2>13. at \in [1..M -> DOMAIN Shown]
    BY <2>2, <2>11, <2>12
  <2>14. \A p, q \in 1..M : at[p] = at[q] => p = q
    <3> TAKE p, q \in 1..M
    <3> HAVE at[p] = at[q]
    <3>1. <<p, date>> = <<q, date>>
      BY <2>12
    <3> QED
      BY <3>1
  <2>15. \A p \in 1..M : Shown[at[p]] = ShownFor(date)[p]
    <3> TAKE p \in 1..M
    <3>1. at[p] \in 1..N /\ place[at[p]][1] = p /\ place[at[p]][2] = date
      BY <2>12
    <3> QED
      BY <2>2, <3>1
  <2>16. ASSUME NEW n \in DOMAIN Shown, Shown[n].lane[1] = date PROVE \E p \in 1..M : at[p] = n
    <3>1. n \in 1..N /\ place[n] = <<place[n][1], date>> /\ place[n][1] \in 1..len
      BY <1>2, <2>2, <2>16
    <3>2. PICK r : r = place[n][1]
      OBVIOUS
    <3>3. r \in 1..len /\ place[n] = <<r, date>>
      BY <3>1, <3>2
    <3>4. r \in 1..M
      <4> SUFFICES ASSUME r \notin 1..M PROVE FALSE
        OBVIOUS
      <4>1. first < r \/ first = r
        BY <1>3, <2>9, <3>3
      <4>2. first \in 1..PerSearch /\ date \in 1..D /\ first <= Len(ShownFor(date))
        <5>1. len \in 0..PerSearch
          BY <1>1, <1>2, ShownForIsCounted
        <5> QED
          BY <1>1, <1>2, <1>3, <2>4, <2>9, <3>3, <4>1, <5>1, ProviderSearchAssumption
      <4>3. <<first, date>> \in Turns(groups)
        BY <2>4, <4>2
      <4>4. \A m \in 1..N : place[m] # <<first, date>>
        BY <2>5, <2>7
      <4>5. Sooner(place[n], <<first, date>>)
        BY <2>4, <3>1, <4>3, <4>4 DEF Takes
      <4>6. first # r
        BY <3>1, <3>3, <4>4
      <4>7. r < first \/ (r = first /\ date < date)
        BY <3>3, <4>5 DEF Sooner
      <4> QED
        BY <1>3, <2>9, <3>3, <4>1, <4>6, <4>7
    <3>5. place[at[r]] = place[n] /\ at[r] \in 1..N
      BY <2>12, <3>3, <3>4
    <3>6. at[r] = n
      BY <2>4, <3>1, <3>5 DEF Takes
    <3> QED
      BY <3>4, <3>6
  <2>17. ListBegins(date, M, at)
    BY <1>2, <2>9, <2>13, <2>14, <2>15, <2>16 DEF ListBegins
  <2> QED
    BY <2>17
<1>5. CASE ~Query(said).month
  <2>1. FoundDates # {}
    OBVIOUS
  <2>2. Shown = ShownFor(1)
    BY <1>5, <2>1 DEF Shown
  <2>3. date = 1
    <3>1. Dates(Query(said)) = <<Query(said).from>>
      BY <1>1, <1>5 DEF Dates
    <3> QED
      BY <1>1, <3>1
  <2>4. PICK at : at = [p \in 1..len |-> p]
    OBVIOUS
  <2>5. ListBegins(date, len, at)
    BY <1>2, <1>3, <2>2, <2>3, <2>4 DEF ListBegins
  <2> QED
    BY <2>5
<1> QED
  BY <1>4, <1>5

\* The places of the list, and which of them are of some lanes.
Where == {<<n, Shown[n].lane>> : n \in DOMAIN Shown}
Of(some) == {place \in Where : place[2] \in some}

(***************************************************************************)
(* The list has finitely many places.                                      *)
(***************************************************************************)
LEMMA PlacesAreCounted ==
  ASSUME IInv, NEW some
  PROVE  IsFiniteSet(Of(some)) /\ Cardinality(Of(some)) \in Nat
<1>1. PICK len : len = Len(Shown)
  OBVIOUS
<1>2. len \in Int /\ DOMAIN Shown = 1..len
  BY <1>1, ShownIsCounted
<1>3. IsFiniteSet(1..len)
  BY <1>2, FS_Interval
<1>4. PICK f : f = [place \in Of(some) |-> place[1]]
  OBVIOUS
<1>5. f \in [Of(some) -> 1..len]
  BY <1>2, <1>4 DEF Of, Where
<1>6. \A a, b \in Of(some) : f[a] = f[b] => a = b
  BY <1>4 DEF Of, Where
<1>7. f \in Injection(Of(some), 1..len)
  BY <1>5, <1>6 DEF Injection, IsInjective
<1> QED
  BY <1>3, <1>7, FS_Injection, FS_CardinalityType

(***************************************************************************)
(* On one date: a source of which the list leaves an offer out is at most  *)
(* one behind any other.                                                   *)
(***************************************************************************)
LEMMA DateIsFair ==
  ASSUME IInv, NEW date \in FoundDates, NEW i \in DOMAIN Sources, NEW j \in DOMAIN Sources,
         Cardinality(Of({<<date, i>>})) < Len(Kept(<<date, i>>))
  PROVE  Cardinality(Of({<<date, j>>})) <= Cardinality(Of({<<date, i>>})) + 1
<1>1. date \in DOMAIN Dates(Query(said))
  BY DEF FoundDates
<1>2. PICK L, size, N, place : DateDealt(date, L, size, N, place)
  BY <1>1, DateIsDealt
<1>3. PICK groups : groups = [s \in DOMAIN Sources |-> Kept(<<date, s>>)]
  OBVIOUS
<1>4. /\ L \in Nat /\ DOMAIN Sources = 1..L /\ size \in [1..L -> 0..PerSearch]
      /\ Turns(groups) = TurnsOf(size, L, PerSearch)
      /\ Takes(groups, N, place) /\ ShownFor(date) = Dealt(groups, N, place)
      /\ N \in Nat /\ \A m \in 1..N : place[m] \in Turns(groups)
  BY <1>2, <1>3 DEF DateDealt, Takes
<1>5. \A s \in 1..L : \A rank \in 1..size[s] : groups[s][rank].lane = <<date, s>>
  BY <1>2, <1>3 DEF DateDealt
<1>6. Len(Kept(<<date, i>>)) = size[i] /\ i \in 1..L /\ j \in 1..L /\ PerSearch \in Nat
  BY <1>2, <1>4, ProviderSearchAssumption DEF DateDealt
<1>7. Len(ShownFor(date)) = N
  <2>1. ShownFor(date) \in [1..N -> {groups[place[m][2]][place[m][1]] : m \in 1..N}]
    BY <1>4 DEF Dealt
  <2> QED
    BY <1>4, <2>1, SequenceOf
<1>8. PICK M, at : ListBegins(date, M, at)
  BY DatesBegin
<1>9. /\ M \in 0..N /\ M \in Nat
      /\ at \in [1..M -> DOMAIN Shown]
      /\ \A p, q \in 1..M : at[p] = at[q] => p = q
      /\ \A p \in 1..M : Shown[at[p]] = ShownFor(date)[p]
      /\ \A n \in DOMAIN Shown : Shown[n].lane[1] = date => \E p \in 1..M : at[p] = n
  BY <1>4, <1>7, <1>8 DEF ListBegins
<1>10. PICK first : first = [m \in 1..M |-> place[m]]
  OBVIOUS
<1>11. Takes(groups, M, first)
  BY <1>4, <1>9, <1>10, FirstTurns
<1>12. \A p \in 1..M : Shown[at[p]].lane = <<date, first[p][2]>>
  <2> TAKE p \in 1..M
  <2>1. p \in 1..N /\ first[p] = place[p]
    BY <1>4, <1>9, <1>10
  <2>2. place[p][2] \in 1..L /\ place[p][1] \in 1..size[place[p][2]]
    BY <1>4, <1>6, <2>1 DEF TurnsOf
  <2>3. ShownFor(date)[p] = groups[place[p][2]][place[p][1]]
    BY <1>4, <2>1 DEF Dealt
  <2> QED
    BY <1>5, <1>9, <2>1, <2>2, <2>3
<1>13. ASSUME NEW s \in 1..L
       PROVE  Cardinality(Taken(M, first, s)) = Cardinality(Of({<<date, s>>}))
  <2>1. PICK S, T : S = Taken(M, first, s) /\ T = Of({<<date, s>>})
    OBVIOUS
  <2>2. S \subseteq 1..M
    BY <2>1 DEF Taken
  <2>3. PICK f : f = [p \in S |-> <<at[p], <<date, s>>>>]
    OBVIOUS
  <2>4. \A p \in S : f[p] \in T
    <3> TAKE p \in S
    <3>1. at[p] \in DOMAIN Shown /\ Shown[at[p]].lane = <<date, s>>
      BY <1>9, <1>12, <2>1, <2>2 DEF Taken
    <3> QED
      BY <2>1, <2>3, <3>1 DEF Of, Where
  <2>5. \A p, q \in S : f[p] = f[q] => p = q
    <3> TAKE p, q \in S
    <3> HAVE f[p] = f[q]
    <3>1. at[p] = at[q]
      BY <2>3
    <3> QED
      BY <1>9, <2>2, <3>1
  <2>6. \A t \in T : \E p \in S : f[p] = t
    <3> TAKE t \in T
    <3>1. PICK n \in DOMAIN Shown : t = <<n, Shown[n].lane>> /\ Shown[n].lane = <<date, s>>
      BY <2>1 DEF Of, Where
    <3>2. PICK p \in 1..M : at[p] = n
      BY <1>9, <3>1
    <3>3. p \in S
      BY <1>12, <2>1, <3>1, <3>2 DEF Taken
    <3> QED
      BY <2>3, <3>1, <3>2, <3>3
  <2>7. f \in Bijection(S, T)
    BY <2>3, <2>4, <2>5, <2>6 DEF Bijection, Injection, IsInjective, Surjection
  <2>8. IsFiniteSet(S)
    <3>1. IsFiniteSet(1..M)
      BY <1>9, FS_Interval
    <3> QED
      BY <2>2, <3>1, FS_Subset
  <2>9. Cardinality(T) = Cardinality(S)
    BY <2>7, <2>8, FS_Bijection DEF ExistsBijection
  <2> QED
    BY <2>1, <2>9
<1>14. Cardinality(Taken(M, first, i)) < size[i]
  BY <1>6, <1>13
<1>15. Cardinality(Taken(M, first, j)) <= Cardinality(Taken(M, first, i)) + 1
  BY <1>4, <1>6, <1>11, <1>14, FairTurns
<1> QED
  BY <1>6, <1>13, <1>15

(***************************************************************************)
(* On some dates together: at most one more for each.                      *)
(***************************************************************************)
LEMMA OneMoreEach ==
  ASSUME IInv, NEW D, IsFiniteSet(D), NEW i, NEW j,
         \A d \in D : Cardinality(Of({<<d, j>>})) <= Cardinality(Of({<<d, i>>})) + 1
  PROVE  Cardinality(Of(D \X {j})) <= Cardinality(Of(D \X {i})) + Cardinality(D)
<1>1. PICK P : P = {S \in SUBSET D :
                 ~(Cardinality(Of(S \X {j})) <= Cardinality(Of(S \X {i})) + Cardinality(S))}
  OBVIOUS
<1> SUFFICES ASSUME P # {} PROVE FALSE
  BY <1>1
<1>2. PICK S \in P : \A t \in P : t \subseteq S => t = S
  <2>1. P \subseteq SUBSET D /\ P # {}
    BY <1>1
  <2> QED
    BY <2>1, MinimalSet
<1>3. S \in SUBSET D
  BY <1>1, <1>2
<1>4. IsFiniteSet(S) /\ Cardinality(S) \in Nat
  BY <1>3, FS_Subset, FS_CardinalityType
<1>5. S # {}
  <2> SUFFICES ASSUME S = {} PROVE FALSE
    OBVIOUS
  <2>1. S \X {j} = {} /\ S \X {i} = {}
    OBVIOUS
  <2>2. Of({}) = {}
    BY DEF Of
  <2>3. Cardinality(Of({})) = 0
    BY <2>2, FS_EmptySet
  <2>4. Cardinality(S) = 0
    BY FS_EmptySet
  <2> QED
    BY <1>1, <1>2, <2>1, <2>3, <2>4
<1>6. PICK d : d \in S
  BY <1>5
<1>7. PICK rest : rest = S \ {d}
  OBVIOUS
<1>8. rest \notin P
  BY <1>2, <1>6, <1>7
<1>9. Cardinality(Of(rest \X {j})) <= Cardinality(Of(rest \X {i})) + Cardinality(rest)
  BY <1>1, <1>3, <1>7, <1>8
<1>10. Cardinality(rest) = Cardinality(S) - 1
  BY <1>4, <1>6, <1>7, FS_RemoveElement
<1>11. ASSUME NEW k
       PROVE  Cardinality(Of(S \X {k})) = Cardinality(Of(rest \X {k})) + Cardinality(Of({<<d, k>>}))
  <2>1. PICK A, B : A = Of(rest \X {k}) /\ B = Of({<<d, k>>})
    OBVIOUS
  <2>2. IsFiniteSet(A) /\ IsFiniteSet(B) /\ Cardinality(A) \in Nat /\ Cardinality(B) \in Nat
    BY <2>1, PlacesAreCounted
  <2>3. S \X {k} = (rest \X {k}) \cup {<<d, k>>}
    BY <1>6, <1>7
  <2>4. <<d, k>> \notin rest \X {k}
    BY <1>7
  <2>5. Of(S \X {k}) = A \cup B /\ A \cap B = {}
    BY <2>1, <2>3, <2>4 DEF Of
  <2>6. Cardinality(A \cap B) = 0
    BY <2>5, FS_EmptySet
  <2>7. Cardinality(A \cup B) = Cardinality(A) + Cardinality(B) - Cardinality(A \cap B)
    BY <2>2, FS_Union
  <2>8. Cardinality(A \cup B) = Cardinality(A) + Cardinality(B)
    BY <2>2, <2>6, <2>7
  <2>9. Cardinality(Of(S \X {k})) = Cardinality(A \cup B)
    BY <2>5
  <2> QED
    BY <2>1, <2>8, <2>9
<1>12. Cardinality(Of({<<d, j>>})) <= Cardinality(Of({<<d, i>>})) + 1
  BY <1>3, <1>6
<1>13. PICK a, b, c, e : /\ a = Cardinality(Of(rest \X {j})) /\ b = Cardinality(Of(rest \X {i}))
                         /\ c = Cardinality(Of({<<d, j>>})) /\ e = Cardinality(Of({<<d, i>>}))
  OBVIOUS
<1>14. a \in Nat /\ b \in Nat /\ c \in Nat /\ e \in Nat
  BY <1>13, PlacesAreCounted
<1>15. Cardinality(Of(S \X {j})) = a + c /\ Cardinality(Of(S \X {i})) = b + e
  BY <1>11, <1>13
<1>16. a <= b + (Cardinality(S) - 1) /\ c <= e + 1
  BY <1>9, <1>10, <1>12, <1>13
<1>17. ~(a + c <= (b + e) + Cardinality(S))
  BY <1>1, <1>2, <1>15
<1> QED
  BY <1>4, <1>14, <1>16, <1>17

(***************************************************************************)
(* A date of which the list leaves an offer out is at most one behind any  *)
(* other.                                                                  *)
(***************************************************************************)
LEMMA DatesAreFair ==
  ASSUME IInv, NEW date \in FoundDates, NEW other \in FoundDates,
         Cardinality(Of(LanesOf(date))) < Len(ShownFor(date))
  PROVE  Cardinality(Of(LanesOf(other))) <= Cardinality(Of(LanesOf(date))) + 1
<1>1. date \in DOMAIN Dates(Query(said)) /\ other \in DOMAIN Dates(Query(said))
  BY DEF FoundDates
<1>2. CASE Query(said).month
  <2>1. PICK D, N, place : MonthDealt(D, N, place)
    BY <1>2, MonthIsDealt
  <2>2. /\ N \in Nat /\ DOMAIN Shown = 1..N
        /\ \A n \in 1..N : /\ Shown[n].lane \in LanesOf(place[n][2])
                           /\ Shown[n].lane[1] = place[n][2]
    BY <2>1, MonthPlaces
  <2>3. PICK groups : groups = [day \in DOMAIN Dates(Query(said)) |-> ShownFor(day)]
    OBVIOUS
  <2>4. PICK size : size = [day \in 1..D |-> Len(ShownFor(day))]
    OBVIOUS
  <2>5. /\ D \in Nat /\ DOMAIN Dates(Query(said)) = 1..D
        /\ Turns(groups) = {t \in (1..PerSearch) \X (1..D) : t[1] <= Len(ShownFor(t[2]))}
        /\ Takes(groups, N, place)
    BY <2>1, <2>3 DEF MonthDealt
  <2>6. size \in [1..D -> 0..PerSearch] /\ \A day \in 1..D : size[day] = Len(ShownFor(day))
    <3>1. \A day \in 1..D : Len(ShownFor(day)) \in 0..PerSearch
      BY <2>5, ShownForIsCounted
    <3> QED
      BY <2>4, <3>1
  <2>7. Turns(groups) = TurnsOf(size, D, PerSearch)
    BY <2>5, <2>6 DEF TurnsOf
  <2>8. PerSearch \in Nat
    BY ProviderSearchAssumption
  <2>9. ASSUME NEW day \in 1..D
        PROVE  Cardinality(Of(LanesOf(day))) = Cardinality(Taken(N, place, day))
    <3>1. PICK S, T : S = Taken(N, place, day) /\ T = Of(LanesOf(day))
      OBVIOUS
    <3>2. S \subseteq 1..N
      BY <3>1 DEF Taken
    <3>3. PICK f : f = [n \in S |-> <<n, Shown[n].lane>>]
      OBVIOUS
    <3>4. \A n \in S : f[n] \in T
      BY <2>2, <3>1, <3>2, <3>3 DEF Taken, Of, Where
    <3>5. \A m, n \in S : f[m] = f[n] => m = n
      BY <3>3
    <3>6. \A t \in T : \E n \in S : f[n] = t
      <4> TAKE t \in T
      <4>1. PICK n \in 1..N : t = <<n, Shown[n].lane>> /\ Shown[n].lane \in LanesOf(day)
        BY <2>2, <3>1 DEF Of, Where
      <4>2. Shown[n].lane[1] = day
        BY <4>1 DEF LanesOf
      <4>3. n \in S
        BY <2>2, <3>1, <4>1, <4>2 DEF Taken
      <4> QED
        BY <3>3, <4>1, <4>3
    <3>7. f \in Bijection(S, T)
      BY <3>3, <3>4, <3>5, <3>6 DEF Bijection, Injection, IsInjective, Surjection
    <3>8. IsFiniteSet(S)
      <4>1. IsFiniteSet(1..N)
        BY <2>2, FS_Interval
      <4> QED
        BY <3>2, <4>1, FS_Subset
    <3>9. Cardinality(T) = Cardinality(S)
      BY <3>7, <3>8, FS_Bijection DEF ExistsBijection
    <3> QED
      BY <3>1, <3>9
  <2>10. date \in 1..D /\ other \in 1..D
    BY <1>1, <2>5
  <2>11. Cardinality(Taken(N, place, date)) < size[date]
    BY <2>6, <2>9, <2>10
  <2>12. Cardinality(Taken(N, place, other)) <= Cardinality(Taken(N, place, date)) + 1
    BY <2>5, <2>6, <2>7, <2>8, <2>10, <2>11, FairTurns
  <2> QED
    BY <2>9, <2>10, <2>12
<1>3. CASE ~Query(said).month
  <2>1. Dates(Query(said)) = <<Query(said).from>>
    BY <1>1, <1>3 DEF Dates
  <2>2. date = other
    BY <1>1, <2>1
  <2>3. Cardinality(Of(LanesOf(date))) \in Nat
    BY PlacesAreCounted
  <2> QED
    BY <2>2, <2>3
<1> QED
  BY <1>2, <1>3

(***************************************************************************)
(* On the dates of which the list leaves an offer of a source out, another *)
(* source has at most one offer more for each; and a date that has an      *)
(* offer left is at most one behind another (search, combineFlexible-      *)
(* FlightResults, roundRobin).                                             *)
(***************************************************************************)
THEOREM NobodyCrowdsOut == Spec => []NoSourceCrowdsOut
<1>1. ASSUME IInv, NEW i \in DOMAIN Sources, NEW j \in DOMAIN Sources,
             NEW dates \in SUBSET {date \in FoundDates :
                                     Cardinality(Of({<<date, i>>})) < Len(Kept(<<date, i>>))}
      PROVE  Cardinality(Of(dates \X {j})) <= Cardinality(Of(dates \X {i})) + Cardinality(dates)
  <2>1. IsFiniteSet(dates)
    <3>1. dates \subseteq DOMAIN Dates(Query(said))
      BY DEF FoundDates
    <3> QED
      BY <1>1, <3>1, GridIsFinite, FS_Subset
  <2>2. \A d \in dates : Cardinality(Of({<<d, j>>})) <= Cardinality(Of({<<d, i>>})) + 1
    BY <1>1, DateIsFair
  <2> QED
    BY <1>1, <2>1, <2>2, OneMoreEach
<1>2. ASSUME IInv, NEW date \in FoundDates, NEW other \in FoundDates,
             Cardinality(Of(LanesOf(date))) < Len(ShownFor(date))
      PROVE  Cardinality(Of(LanesOf(other))) <= Cardinality(Of(LanesOf(date))) + 1
  BY <1>2, DatesAreFair
<1>3. IInv => NoSourceCrowdsOut
  BY <1>1, <1>2 DEF NoSourceCrowdsOut, Of, Where
<1> QED
  BY <1>3, Invariant, PTL
===============================================================================
