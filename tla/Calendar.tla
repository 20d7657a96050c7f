------------------------------- MODULE Calendar -------------------------------
(* The date and the hour of the shared world: CalendarService of the server, *)
(* the date arithmetic it shares with the client (common/DateTime), and      *)
(* CalendarService of the client, which stops the clock of the game and      *)
(* counts on its own from the last message it got. The hour it then draws    *)
(* towards is left out: it is what it counts, smoothed.                      *)
(*                                                                           *)
(* Hours are counted in thousandths, TimeScale in thousandths of an hour per *)
(* tick. A tick is long enough for every party to have a frame in it.        *)
EXTENDS Peers

CONSTANTS
    PlayerDates,        \* dates that the games of joining players show
    Scales,             \* time scales the operator sets
    ClockSettings,      \* pairs of hour and minute the operator sets
    DateSettings,       \* records of day, month and year the operator sets
    StartTick,          \* the tick at which the server has its first frame
    LastTick,           \* bound on the ticks
    MaxLatency,         \* ticks a message is under way at most
    Stalls,             \* numbers of ticks between two frames to try the carry on
    MaxResyncs,         \* bound on what the operator does
    MaxJoins            \* bound on the joins

VARIABLES
    now,                \* the clock that the server and its clients share
    dateTime,           \* m_dateTime of the server
    dateTick,           \* m_lastTick of the server, 0 if it has none
    timeSetFromFirstPlayer,
    syncCalendar,       \* the setting SyncPlayerCalendar
    resyncs, joins,     \* operations of the operator, and joins, so far
    viewer,             \* the clients, by their CalendarService
    timeQueue,          \* ServerTimeSettings under way to each client
    misled              \* history: clients in a situation the code leaves open

calendarVars == <<now, dateTime, dateTick, timeSetFromFirstPlayer, syncCalendar,
                  resyncs, joins, viewer, timeQueue, misled>>

---------------------------------------------------------------------------
(* Dates *)

HourUnits == 1000
DayUnits == 24 * HourUnits

cDayLengthArray == <<31, 28, 31, 30, 31, 30, 31, 31, 30, 31, 30, 31>>

GetNumberOfDaysByMonthIndex(i) == cDayLengthArray[(i % 12) + 1]

\* The games show dates that exist, and time does not run backwards
ASSUME CalendarAssumption ==
    /\ \A d \in PlayerDates :
          /\ d \in [time : Nat, day : 1..31, month : 0..11, year : Nat]
          /\ d.time < DayUnits /\ d.day <= GetNumberOfDaysByMonthIndex(d.month)
    /\ Scales \subseteq Nat /\ Stalls \subseteq Nat
    /\ StartTick \in Nat \ {0} /\ MaxLatency \in Nat

\* The sums of the entries of cDayLengthArray before each of them
cDaysBefore == <<0, 31, 59, 90, 120, 151, 181, 212, 243, 273, 304, 334>>

\* Days from the first month to before month m, which may be in a later year
DaysBefore(m) == 365 * (m \div 12) + cDaysBefore[(m % 12) + 1]

\* GetTimeInDays, in thousandths of an hour
Instant(d) ==
    DayUnits * (d.year * 365 + DaysBefore(d.month) + d.day) + d.time

\* Variant: the carry stops after one month
MonthReachedOnce(d, day) ==
    IF day > GetNumberOfDaysByMonthIndex(d.month) THEN d.month + 1 ELSE d.month

\* The month, counted on from that of d, in which its day falls
MonthReached(d, day) ==
    CHOOSE m \in d.month .. (d.month + day) :
        /\ day <= DaysBefore(m + 1) - DaysBefore(d.month)
        /\ m > d.month => day > DaysBefore(m) - DaysBefore(d.month)

UpdatedBy(d, delta) ==
    LET time == d.time + delta * d.scale
        day == d.day + time \div DayUnits
        month == MonthReached(d, day)
    IN [d EXCEPT !.time = time % DayUnits,
                 !.day = day - (DaysBefore(month) - DaysBefore(d.month)),
                 !.month = month % 12,
                 !.year = @ + month \div 12]

\* Minutes, in the encoding SetTime calls skyrim time; the binary fraction
\* nearest to 0.17 makes the results for 29 and 58 round down
EncodedMinutes(m) == 17 * m - (IF m \in {29, 58} THEN 1 ELSE 0)

---------------------------------------------------------------------------
(* Messages *)

Message == [date |-> dateTime', sent |-> now]

SendTo(recipients) == timeQueue' = Posted(timeQueue, recipients, Message)

Players == {c \in Clients : viewer[c].joined}
Loaded == {c \in Players : viewer[c].loaded}

---------------------------------------------------------------------------
(* The server *)

FirstDate == [time |-> 12 * HourUnits, day |-> 1, month |-> 1, year |-> 1]

Dated(d, scale) ==
    [time |-> d.time, day |-> d.day, month |-> d.month, year |-> d.year, scale |-> scale]

CalendarInit ==
    /\ now = StartTick
    /\ \E s \in Scales : dateTime = Dated(FirstDate, s)
    /\ dateTick = 0
    /\ timeSetFromFirstPlayer = FALSE
    /\ syncCalendar \in BOOLEAN
    /\ resyncs = 0 /\ joins = 0
    /\ viewer = [c \in Clients |->
          [joined |-> FALSE, loaded |-> FALSE, locked |-> FALSE, lastTick |-> 0,
           online |-> Dated(FirstDate, 0)]]
    /\ timeQueue = [c \in Clients |-> <<>>]
    /\ misled = {}

ServerUpdate ==
    /\ dateTick # now
    /\ dateTick' = now
    /\ dateTime' = UpdatedBy(dateTime, IF dateTick = 0 THEN 0 ELSE now - dateTick)
    /\ UNCHANGED <<now, timeSetFromFirstPlayer, syncCalendar, resyncs, viewer,
                   timeQueue, misled, joins>>

\* Variant: whoever joins sets the date
FurthestAlways(d) == TRUE

\* Variant: only the days of the month are compared
FurthestByDay(d) == d.day > dateTime.day

Furthest(d) == Instant(d) > Instant(dateTime)

\* A client whose game shows the date d is accepted; the client may have been
\* connected before, with m_lastTick left over from then
OnPlayerJoin(c, d) ==
    /\ joins < MaxJoins
    /\ ~viewer[c].joined
    /\ joins' = joins + 1
    /\ dateTime' =
          IF ~Furthest(d) THEN dateTime
          ELSE [dateTime EXCEPT
                  !.time = IF timeSetFromFirstPlayer THEN @ ELSE d.time,
                  !.day = d.day, !.month = d.month, !.year = d.year]
    /\ timeSetFromFirstPlayer' = (timeSetFromFirstPlayer \/ Furthest(d))
    /\ viewer' = [viewer EXCEPT ![c].joined = TRUE, ![c].online = Dated(d, 0)]
    /\ SendTo(IF Furthest(d) THEN Players \cup {c} ELSE {c})
    /\ misled' = IF viewer[c].lastTick # 0 THEN misled \cup {c} ELSE misled \ {c}
    /\ UNCHANGED <<now, dateTick, syncCalendar, resyncs>>

EnterWorld(c) ==
    /\ c \in Players \ Loaded
    /\ viewer' = [viewer EXCEPT ![c].loaded = TRUE]
    /\ UNCHANGED <<now, dateTime, dateTick, timeSetFromFirstPlayer, syncCalendar,
                   resyncs, timeQueue, misled, joins>>

---------------------------------------------------------------------------
(* The operator *)

SetTime(hour, minute) ==
    /\ resyncs < MaxResyncs
    /\ hour \in 0..23 /\ minute \in 0..59
    /\ dateTime' = [dateTime EXCEPT !.time = hour * HourUnits + EncodedMinutes(minute)]
    /\ SendTo(Loaded)
    /\ misled' = misled \cup (Players \ Loaded)
    /\ resyncs' = resyncs + 1
    /\ UNCHANGED <<now, dateTick, timeSetFromFirstPlayer, syncCalendar, viewer, joins>>

SetDate(s) ==
    /\ resyncs < MaxResyncs
    /\ s.month \in 0..11 /\ s.year \in 0..999
    /\ s.day \in 0 .. GetNumberOfDaysByMonthIndex(s.month) - 1
    /\ dateTime' = [dateTime EXCEPT !.day = s.day, !.month = s.month, !.year = s.year]
    /\ SendTo(Loaded)
    /\ misled' = misled \cup (Players \ Loaded)
    /\ resyncs' = resyncs + 1
    /\ UNCHANGED <<now, dateTick, timeSetFromFirstPlayer, syncCalendar, viewer, joins>>

\* Variant: only who is in the world is told
SetTimeScaleForLoaded(scale) ==
    /\ resyncs < MaxResyncs
    /\ dateTime' = [dateTime EXCEPT !.scale = scale]
    /\ SendTo(Loaded)
    /\ resyncs' = resyncs + 1
    /\ UNCHANGED <<now, dateTick, timeSetFromFirstPlayer, syncCalendar, viewer, misled, joins>>

SetTimeScale(scale) ==
    /\ resyncs < MaxResyncs
    /\ dateTime' = [dateTime EXCEPT !.scale = scale]
    /\ SendTo(Players)
    /\ resyncs' = resyncs + 1
    /\ UNCHANGED <<now, dateTick, timeSetFromFirstPlayer, syncCalendar, viewer, misled, joins>>

---------------------------------------------------------------------------
(* The clients *)

OnTimeUpdate(c) ==
    /\ timeQueue[c] # <<>>
    /\ LET date == Head(timeQueue[c]).date IN
       viewer' = [viewer EXCEPT
          ![c].locked = TRUE,
          ![c].online = IF syncCalendar THEN date
                        ELSE [@ EXCEPT !.time = date.time, !.scale = date.scale]]
    /\ timeQueue' = Read(timeQueue, c)
    /\ UNCHANGED <<now, dateTime, dateTick, timeSetFromFirstPlayer, syncCalendar,
                   resyncs, misled, joins>>

HandleUpdate(c) ==
    /\ viewer[c].locked
    /\ viewer[c].lastTick < now
    /\ LET last == viewer[c].lastTick
           delta == IF last = 0 THEN 0 ELSE now - last
       IN viewer' = [viewer EXCEPT ![c].lastTick = now,
                                   ![c].online = UpdatedBy(@, delta)]
    /\ UNCHANGED <<now, dateTime, dateTick, timeSetFromFirstPlayer, syncCalendar,
                   resyncs, timeQueue, misled, joins>>

\* The connection ends, for both ends at once; m_lastTick stays as it is
OnDisconnected(c) ==
    /\ viewer[c].joined
    /\ viewer' = [viewer EXCEPT ![c].joined = FALSE, ![c].loaded = FALSE,
                                ![c].locked = FALSE]
    /\ timeQueue' = [timeQueue EXCEPT ![c] = <<>>]
    /\ UNCHANGED <<now, dateTime, dateTick, timeSetFromFirstPlayer, syncCalendar,
                   resyncs, misled, joins>>

\* Time passes once everybody has had a frame, and messages that have been
\* under way for too long have arrived
Passes ==
    /\ now < LastTick
    /\ dateTick = now
    /\ \A c \in Clients :
          /\ viewer[c].locked => viewer[c].lastTick = now
          /\ timeQueue[c] # <<>> => now - Head(timeQueue[c]).sent < MaxLatency
    /\ now' = now + 1
    /\ UNCHANGED <<dateTime, dateTick, timeSetFromFirstPlayer, syncCalendar,
                   resyncs, viewer, timeQueue, misled, joins>>

Operate ==
    \/ \E s \in ClockSettings : SetTime(s[1], s[2])
    \/ \E s \in DateSettings : SetDate(s)
    \/ \E s \in Scales : SetTimeScale(s)

CalendarNext ==
    \/ Passes \/ ServerUpdate \/ Operate
    \/ \E c \in Clients :
          \/ EnterWorld(c) \/ OnTimeUpdate(c) \/ HandleUpdate(c) \/ OnDisconnected(c)
          \/ \E d \in PlayerDates : OnPlayerJoin(c, d)

CalendarSpec == CalendarInit /\ [][CalendarNext]_calendarVars

---------------------------------------------------------------------------
(* Properties *)

\* GetTimeInDays of the server's date in days
Date(d) == Instant(d) \div DayUnits

Dates == [time : Nat, day : 0..31, month : 0..11,
          year : Nat, scale : Scales \cup {0}]

CalendarTypeOK ==
    /\ dateTime \in Dates
    /\ dateTime.time < DayUnits + HourUnits
    /\ dateTime.day <= GetNumberOfDaysByMonthIndex(dateTime.month)
    /\ \A c \in Clients :
          /\ viewer[c].online \in Dates
          /\ viewer[c].locked => viewer[c].joined
    /\ dateTick \in {0} \cup (StartTick .. now)

(* However long a frame of the server or of a client took, the carry of      *)
(* days into months and of months into years loses no time and gains none,   *)
(* and ends on a day that its month has (DateTime::Update).                  *)
CarryIsExact ==
    \A n \in Stalls :
        LET later == UpdatedBy(dateTime, n)
        IN /\ Instant(later) = Instant(dateTime) + n * dateTime.scale
           /\ later.day <= GetNumberOfDaysByMonthIndex(later.month)

(* Nothing but the operator puts the clock of the world back: not a player   *)
(* who joins with a later date and an earlier hour (OnPlayerJoin).           *)
DateAdvances ==
    [][~Operate => Instant(dateTime') >= Instant(dateTime)]_calendarVars

(* A joining player is never put back by a day or more: "the player with the *)
(* furthest date is used" (OnPlayerJoin).                                    *)
FurthestDateWins ==
    [][\A c \in Clients, d \in PlayerDates :
          OnPlayerJoin(c, d) => Date(dateTime') >= Date(d)]_calendarVars

(* By how much a client's clock is behind that of the server, at this tick   *)
Lag(c) ==
    LET server == Instant(dateTime) +
                     dateTime.scale * (IF dateTick = 0 THEN 0 ELSE now - dateTick)
        client == Instant(viewer[c].online) +
                     dateTime.scale * (IF viewer[c].lastTick = 0 THEN 0
                                       ELSE now - viewer[c].lastTick)
        lag == server - client
    IN IF syncCalendar THEN lag
       ELSE ((lag + dateTime.scale) % DayUnits) - dateTime.scale

(* A client that has read its messages shows the hour of the server, and,    *)
(* with SyncPlayerCalendar, its date: it is behind by no more than the time  *)
(* the last message took and a frame, ahead by no more than a frame. Clients *)
(* that count on from an earlier connection, and clients that were not in    *)
(* any cell yet when the operator set the clock, are excepted: the code      *)
(* leaves them with another time (HandleUpdate, SendTimeResync).             *)
ClocksAgree ==
    \A c \in Clients :
        viewer[c].locked /\ timeQueue[c] = <<>> /\ c \notin misled
           => Lag(c) \in -dateTime.scale .. (dateTime.scale * (MaxLatency + 1))
=============================================================================
