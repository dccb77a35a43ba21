---------------------------- MODULE TripInstance ----------------------------
(***************************************************************************)
(* A trip of three days to check the validator and the edits with.  On the *)
(* first day a train leaves after two visits, with a tea house to fall     *)
(* back on; the visit of the second day is locked; the third is free.      *)
(***************************************************************************)
EXTENDS TripValidation

At(date, hour, minute) == date * Minutes + hour * 60 + minute

Window(date, h1, m1, h2, m2) ==
    [start |-> At(date, h1, m1), end |-> At(date, h2, m2), flex |-> 15]

Activity(id, place, window, importance) ==
    [id |-> id, place |-> place, city |-> "beijing", start |-> window.start,
     end |-> window.end, flex |-> window.flex, duration |-> 60,
     importance |-> importance, locked |-> FALSE,
     cost |-> [low |-> 100, high |-> 200], reservation |-> "verified",
     opens |-> <<{[start |-> At(localDate(window.start), 8, 0),
                   end |-> At(localDate(window.start), 18, 0)]}>>,
     booking |-> "none"]

Leg(id, from, to, window, booking) ==
    [id |-> id, from |-> from, to |-> to, start |-> window.start,
     end |-> window.end, duration |-> 30, buffer |-> 15,
     cost |-> [low |-> 10, high |-> 10], locked |-> FALSE,
     booking |-> booking, evidence |-> {<<"route">>}]

Proof(id, value) ==
    [id |-> <<id>>, source |-> "official", origin |-> "site",
     value |-> [means |-> value, spelt |-> 1], at |-> 1,
     status |-> "verified"]

Train == [id |-> "train", type |-> "train", start |-> At(1, 15, 0),
          end |-> At(1, 17, 0), locked |-> TRUE]

MCTrip ==
    [brief |-> [first |-> 1, last |-> 3, city |-> "beijing", dayTrips |-> {},
                extra |-> TRUE, accompanied |-> TRUE,
                limit |-> [low |-> 1000, high |-> 1000],
                includes |-> {"tickets"}, booked |-> <<Train>>],
     bookings |-> <<Train>>,
     days |-> <<
        [id |-> "day1", date |-> 1, notes |-> "",
         activities |-> <<
            Activity("palace", "p1", Window(1, 9, 0, 10, 30), "core"),
            Activity("lake", "p2", Window(1, 11, 30, 12, 40), "optional"),
            Activity("tea", "p1", Window(1, 10, 30, 11, 0), "fallback")>>,
         legs |-> <<
            Leg("walk", "p1", "p2", Window(1, 10, 0, 11, 0), "none"),
            Leg("ride", "p1", "train", Window(1, 10, 0, 12, 0), "train"),
            Leg("taxi", "p2", "station", Window(1, 12, 0, 12, 40), "train")>>],
        [id |-> "day2", date |-> 2, notes |-> "",
         activities |-> <<
            [Activity("wall", "p3", Window(2, 10, 0, 12, 0), "core")
                EXCEPT !.locked = TRUE]>>,
         legs |-> <<>>],
        [id |-> "day3", date |-> 3, notes |-> "", activities |-> <<>>, legs |-> <<>>]>>,
     items |-> <<[category |-> "tickets", cost |-> [low |-> 300,
                                                    high |-> 600]]>>,
     percent |-> 10,
     claims |-> FoldLeft(LAMBDA done, id : done \o
            [i \in 1 .. 3 |->
                [group |-> <<id, NoTime, <<"address", "opening_hours",
                                           "reservation_rules">>[i]>>,
                 value |-> [means |-> "v", spelt |-> 1],
                 evidence |-> {<<"page">>}, critical |-> TRUE,
                 status |-> "verified", conflicts |-> {}]],
            <<>>, <<"palace", "lake", "wall">>),
     evidence |-> <<Proof("page", "v"), Proof("route", "r")>>,
     alerts |-> {}, version |-> 1, status |-> "executable"]

MCWindows == {Window(1, 9, 0, 12, 30), Window(1, 9, 0, 10, 20),
              Window(1, 11, 40, 12, 45)}

Nothing == <<>>

\* A window within the flexibility and one beyond, a demotion, locks and their
\* release, a move onto the free day, also with a window of the wrong day.
MCChanges ==
    {[type |-> "note", date |-> 1, text |-> t] : t \in {"shoes", Promise}} \cup
    {[type |-> "activity", id |-> id, window |-> w, importance |-> Nothing] :
        id \in {"palace", "lake"}, w \in {<<w>> : w \in MCWindows}} \cup
    {[type |-> "activity", id |-> id, window |-> Nothing,
      importance |-> <<i>>] :
        id \in {"lake", "tea", "wall"}, i \in {"fallback", "core"}} \cup
    {[type |-> "lock", entity |-> "activity", id |-> "palace",
      locked |-> TRUE],
     [type |-> "lock", entity |-> "activity", id |-> "wall",
      locked |-> FALSE],
     [type |-> "lock", entity |-> "leg", id |-> "walk", locked |-> TRUE],
     [type |-> "lock", entity |-> "booking", id |-> "train",
      locked |-> FALSE],
     [type |-> "budget", limit |-> [low |-> 500, high |-> 500]],
     [type |-> "replan", date |-> 1]} \cup
    {[type |-> "move", id |-> id, date |-> 3, window |-> <<w>>] :
        id \in {"lake", "wall"},
        w \in {Window(3, 10, 0, 12, 0), Window(1, 9, 0, 12, 30)}}
=============================================================================
