------------------------------- MODULE MCWorld -------------------------------
(* The parts of the shared world that do not depend on each other, in one run: *)
(* a behaviour is one of a single part, chosen at the start, and the others    *)
(* rest in one initial state.                                                  *)
EXTENDS Calendar, Objects, Weather, Quests, Snapshots, Outdoors, Vitals, LoadOrder

VARIABLE part

Symmetry == Permutations(Clients) \cup Permutations(Chambers) \cup Permutations(Places)

MCDates == {[time |-> 20000, day |-> 31, month |-> 11, year |-> 1],
            [time |-> 2000, day |-> 1, month |-> 0, year |-> 2]}
MCClock == {<<23, 59>>, <<8, 30>>}
MCDateSet == {[day |-> 27, month |-> 1, year |-> 1]}
MCHome == [f \in Things |-> CHOOSE r \in Rooms : TRUE]
MCServerFiles == {CHOOSE f \in Files : TRUE}

Same(f, S) == \E v \in S : \A x \in DOMAIN f : f[x] = v
OneOf(S) == {CHOOSE v \in S : TRUE}

Init ==
    /\ part \in {"calendar", "objects", "weather", "quests", "snapshots", "outdoors",
                 "vitals", "plugins"}
    /\ CalendarInit /\ (part # "calendar" => syncCalendar /\ dateTime.scale \in OneOf(Scales))
    /\ ObjectsInit
    /\ part # "objects" =>
          Same(shown, OneOf([Things -> [lock : SavedLocks, items : SavedItems]]))
    /\ WeatherInit
    /\ part # "weather" => Same(place, OneOf(Places)) /\ Same(sky, OneOf(Weathers))
    /\ QuestInit
    /\ part # "quests" => Same(running, {[q \in Story |-> FALSE]})
    /\ SnapshotInit /\ (part # "snapshots" => Same(stands, OneOf(Chambers)))
    /\ OutdoorsInit /\ (part # "outdoors" => Same(currentGrid, OneOf(GridCells)))
    /\ VitalsInit
    /\ LoadOrderInit /\ (part # "plugins" => Same(plugins, {<<>>}) /\ mopo)

Next ==
    /\ UNCHANGED part
    /\ \/ part = "calendar" /\ CalendarNext
       \/ part = "objects" /\ ObjectsNext
       \/ part = "weather" /\ WeatherNext
       \/ part = "quests" /\ QuestNext
       \/ part = "snapshots" /\ SnapshotNext
       \/ part = "outdoors" /\ OutdoorsNext
       \/ part = "vitals" /\ VitalsNext
       \/ part = "plugins" /\ LoadOrderNext
    /\ part # "calendar" => UNCHANGED calendarVars
    /\ part # "objects" => UNCHANGED objectsVars
    /\ part \notin {"weather", "quests"} => UNCHANGED companionVars
    /\ part # "weather" =>
          UNCHANGED <<cachedWeather, place, sky, cachedWeatherId, inView, turns, unasked, overruled>>
    /\ part # "quests" => UNCHANGED <<entries, done, running, deeds, apart, tellers>>
    /\ part # "snapshots" => UNCHANGED snapshotVars
    /\ part # "outdoors" => UNCHANGED outdoorsVars
    /\ part # "vitals" => UNCHANGED vitalsVars
    /\ part # "plugins" => UNCHANGED loadOrderVars

vars == <<part, calendarVars, objectsVars, weatherVars, questVars, snapshotVars,
          outdoorsVars, vitalsVars, loadOrderVars>>

Spec == Init /\ [][Next]_vars

\* The part that is alive has only values of its types
WorldTypeOK ==
    CASE part = "calendar" -> CalendarTypeOK
      [] part = "objects" -> ObjectsTypeOK
      [] part = "weather" -> WeatherTypeOK
      [] part = "quests" -> QuestTypeOK
      [] part = "snapshots" -> SnapshotTypeOK
      [] part = "outdoors" -> OutdoorsTypeOK
      [] part = "vitals" -> VitalsTypeOK
      [] part = "plugins" -> LoadOrderTypeOK
=============================================================================
