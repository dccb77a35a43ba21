--------------------------- MODULE PartInstances ---------------------------
(***************************************************************************)
(* The small instances on which MCServices checks its parts.               *)
(***************************************************************************)
EXTENDS Integers, Sequences

-----------------------------------------------------------------------------
(* Evidence: what is observed of one fact, in two groups *)

ObservedFacts ==
    LET says(means, spelt) == [means |-> means, spelt |-> spelt]
        Seen(id, source, value, at, status) ==
            [id |-> <<id>>, source |-> source, origin |-> source,
             value |-> value, at |-> at, status |-> status]
    IN  [group : {"opening_hours", "cost"}, critical : {TRUE},
         item : {Seen("page", "official", says("open", 1), 1, "verified"),
                 Seen("page", "official", says("open", 2), 2,
                      "recheck_required"),
                 Seen("place", "dedicated_api", says("shut", 1), 1,
                      "verified"),
                 Seen("place", "dedicated_api", says("undefined", 0), 2,
                      "failed"),
                 Seen("other", "official", says("shut", 1), 2, "verified")}]

-----------------------------------------------------------------------------
(* TripAssembly: two visits and a transfer; names that are found once, twice, *)
(* in two cities or not at all, pages with and without conditions and prices *)

AssemblyBrief ==
    [first |-> 1, last |-> 3, city |-> "beijing", dayTrips |-> {},
     extra |-> TRUE, accompanied |-> FALSE, limit |-> [low |-> -1, high |-> -1],
     includes |-> {"tickets"}, booked |-> <<>>]

AssemblyPlan ==
    LET Visit(id, start, end, importance, transfer) ==
            [id |-> id, keyword |-> "museum", city |-> "beijing",
             transfer |-> transfer, start |-> start, end |-> end,
             duration |-> 60, importance |-> importance]
    IN  <<[id |-> "day1", date |-> 1,
           activities |-> <<Visit("a", 540, 630, "core", FALSE),
                            Visit("b", 690, 760, "optional", FALSE),
                            Visit("c", 820, 900, "optional", FALSE)>>],
          [id |-> "day2", date |-> 2,
           activities |-> <<Visit("way", 540, 630, "core", TRUE)>>],
          [id |-> "day3", date |-> 3, activities |-> <<>>]>>

\* Nearly all is well, but for the first visit, or for the other two.
AssemblyOutcomes ==
    LET In(city, name, place, located) ==
            [name |-> name, city |-> city, place |-> place,
             located |-> located]
        Place(name, place, located) == In("beijing", name, place, located)
        Page(names, conditional, until, price) ==
            <<[status |-> "verified", names |-> names,
               conditional |-> conditional,
               hours |-> <<[start |-> 480, end |-> until]>>,
               price |-> price]>>
        Price == <<[low |-> 10, high |-> 20]>>
        Well(place) == [list |-> <<Place("museum", place, TRUE)>>,
                        detail |-> <<>>,
                        page |-> Page({"museum"}, FALSE, 1080, Price)]
        ofFirst == [
            list : {<<>>, <<Place("park", "p1", TRUE)>>,
                    <<Place("museum", "p2", TRUE), Place("museum", "p3", TRUE)>>,
                    <<Place("hall", "p4", TRUE), Place("museum", "p5", TRUE)>>,
                    <<In("xian", "museum", "p6", TRUE),
                      Place("museum", "p7", TRUE)>>},
            detail : {<<>>, <<Place("hall", "p7", TRUE)>>,
                      <<In("unknown", "museum", "p7", TRUE)>>},
            page : {<<>>, Page({"museum"}, FALSE, 600, Price),
                    Page({"hall"}, FALSE, 1080, Price),
                    Page({"museum"}, TRUE, 1080, Price)}]
        ofOthers == [
            list : {<<Place("museum", "p7", TRUE)>>,
                    <<Place("museum", "p8", FALSE)>>},
            detail : {<<>>, <<Place("museum", "p9", TRUE)>>},
            page : {Page({"museum"}, FALSE, 1080, Price),
                    Page({"museum"}, FALSE, 1080, <<>>)}]
    IN  {[a |-> o, b |-> Well("p7"), c |-> Well("p8")] : o \in ofFirst} \cup
        {[a |-> Well("p7"), b |-> x, c |-> y] : x, y \in ofOthers}

AssemblyRoutes ==
    {<<>>, <<[duration |-> 40, buffer |-> 20,
              cost |-> [low |-> 3, high |-> 3]]>>}

-----------------------------------------------------------------------------
(* Requirements: forms that are empty, half filled or beyond the limits *)

FormCities == <<"beijing", "shanghai", "xian">>

Forms ==
    LET Empty == [sensitive |-> FALSE, origin |-> <<>>, cities |-> <<>>,
                  candidates |-> <<"paris", "xian">>, start |-> <<>>,
                  end |-> <<>>, days |-> <<>>, party |-> <<>>,
                  budget |-> <<>>, answered |-> {}, dayTrips |-> <<>>]
    IN  {Empty, [Empty EXCEPT !.sensitive = TRUE],
         [Empty EXCEPT !.cities = <<"beijing", "xian">>],
         [Empty EXCEPT !.dayTrips = <<60>>],
         [Empty EXCEPT !.dayTrips = <<60, 60>>, !.cities = <<"beijing">>],
         [Empty EXCEPT !.days = <<31>>],
         [Empty EXCEPT !.answered = {"preferences"}, !.origin = <<"xian">>]}

FormAnswers ==
    LET Dates(start, end, days) ==
            [start |-> start, end |-> end, days |-> days]
        People(adults, children, seniors) ==
            [adults |-> adults, children |-> children, seniors |-> seniors]
        Yes == {"yes"}
    IN  [destination |-> {"beijing", "paris"}, origin |-> {"xian"},
         dates |-> {Dates(2, <<>>, <<3>>), Dates(1, <<5>>, <<>>),
                    Dates(3, <<4>>, <<3>>), Dates(9, <<12>>, <<>>)},
         party |-> {People(1, 0, 0), People(2, 3, 1), People(4, 3, 0),
                    People(0, 2, 1), People(2, 0, 5)},
         budget |-> {"economy"}, bookedItems |-> Yes,
         hardConstraints |-> Yes, preferences |-> Yes]

-----------------------------------------------------------------------------
(* Skeleton: a stay and a train at the edges of the days, good and bad answers *)

SkeletonBriefs ==
    LET Booking(id, type, start, end) ==
            [id |-> id, type |-> type, start |-> start, end |-> end]
        Day == 1440
        stays == {Booking("stay", "hotel", w[1], w[2]) :
                    w \in {<<-1, -1>>, <<Day + 900, 3 * Day>>,
                           <<100, 2 * Day + 1>>, <<Day + 900, -1>>}}
        trains == {Booking("ride", "train", w[1], w[2]) :
                    w \in {<<2 * Day - 1, 2 * Day + 10>>, <<Day - 1, Day + 10>>,
                           <<-1, -1>>, <<5 * Day - 1, -1>>}}
    IN  {[first |-> 1, last |-> last, booked |-> booked] :
            last \in {2, 3, 4},
            booked \in {<<>>} \cup {<<s, t>> : s \in stays, t \in trains}}

SkeletonAnswers ==
    LET Asked(fields) ==
            [i \in DOMAIN fields |-> [id |-> i, field |-> fields[i]]]
        Day(date, morning, afternoon) ==
            [date |-> date, morning |-> morning, afternoon |-> afternoon]
        all == Asked(<<"place_details", "route", "weather", "cost",
                       "opening_hours">>)
    IN  [unsafe : BOOLEAN, json : BOOLEAN,
         requests : {all, SubSeq(all, 1, 4), [all EXCEPT ![2].id = 1]},
         days : {<<Day(1, x, FALSE), Day(2, FALSE, y), Day(3, x, y)>> :
                    x, y \in BOOLEAN} \cup
                {<<Day(1, TRUE, TRUE), Day(3, TRUE, TRUE), Day(2, TRUE, TRUE)>>,
                 <<Day(1, TRUE, TRUE), Day(2, FALSE, FALSE),
                   Day(3, TRUE, TRUE), Day(4, TRUE, FALSE)>>}]

-----------------------------------------------------------------------------
(* ResponseStream: bodies whose lines end in LF, in CR LF or in either *)

SentBodies ==
    LET Eol(dos) == IF dos THEN <<"cr", "lf">> ELSE <<"lf">>
        Line(text, dos) == <<text>> \o Eol(dos)
        Event(text, dos) == Line(text, dos) \o Eol(dos)
    IN  UNION {{Event("delta", d) \o Event("call", e) \o Event("completed", d),
                Event("delta", d) \o Line("comment", e) \o Event("other", d)
                    \o Event("delta", e) \o Event("[DONE]", d),
                Event("delta", d) \o Line("completed", e),
                Line("delta", d) \o Event("call", d),
                Event("incomplete", d),
                Event("search", e) \o Event("failed", d),
                Event("completed without usage", d)} : d, e \in BOOLEAN}

-----------------------------------------------------------------------------
(* OfficialPages: an official site, a site below it, strangers *)

Palace == <<"cn", "palace">>
Stranger == <<"com", "palace">>
Booking == <<"com", "ctrip">>
Railway == <<"cn", "12306">>

PageHosts == {Palace \o <<"www">>, Palace \o <<"m">>, Stranger, Booking}

SearchCitations ==
    {<<>>} \cup
    {<<[host |-> a, web |-> w], [host |-> b, web |-> TRUE]>> :
        a, b \in {Palace \o <<"www">>, Booking, Railway \o <<"kf">>},
        w \in BOOLEAN}
=============================================================================
