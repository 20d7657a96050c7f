---------------------------- MODULE CalendarProofs ----------------------------
(* Proofs about Calendar, for any clients, scales, dates and ticks: that the   *)
(* carry of DateTime::Update is exact however long an update took, what        *)
(* follows for the date of the world when players join, and that the clocks of *)
(* the clients agree with that of the server.                                  *)
EXTENDS Calendar, WellFoundedInduction, TLAPS

---------------------------------------------------------------------------
(* Days and months *)

(* A month is as long as the table says, in every year.                        *)
LEMMA MonthLengths ==
    ASSUME NEW m \in Nat
    PROVE  /\ DaysBefore(m) \in Nat
           /\ DaysBefore(m + 1) = DaysBefore(m) + GetNumberOfDaysByMonthIndex(m)
           /\ GetNumberOfDaysByMonthIndex(m) \in 28..31
<1> DEFINE q == m \div 12
           r == m % 12
<1>1. q \in Nat /\ r \in 0..11 /\ m = 12 * q + r
  OBVIOUS
<1>2. CASE r = 11
  <2>1. (m + 1) \div 12 = q + 1 /\ (m + 1) % 12 = 0
    BY <1>1, <1>2
  <2> QED BY <1>1, <1>2, <2>1 DEF DaysBefore, cDaysBefore, GetNumberOfDaysByMonthIndex, cDayLengthArray
<1>3. CASE r # 11
  <2>1. (m + 1) \div 12 = q /\ (m + 1) % 12 = r + 1
    BY <1>1, <1>3
  <2>2. r \in {0, 1, 2, 3, 4, 5, 6, 7, 8, 9, 10}
    BY <1>1, <1>3
  <2> QED BY <1>1, <2>1, <2>2 DEF DaysBefore, cDaysBefore, GetNumberOfDaysByMonthIndex, cDayLengthArray
<1> QED BY <1>2, <1>3

(* Twelve months more are a year more.                                         *)
LEMMA YearsSplitOff ==
    ASSUME NEW m \in Nat
    PROVE  /\ DaysBefore(m) = 365 * (m \div 12) + DaysBefore(m % 12)
           /\ GetNumberOfDaysByMonthIndex(m % 12) = GetNumberOfDaysByMonthIndex(m)
           /\ m \div 12 \in Nat /\ m % 12 \in 0..11
<1>1. (m % 12) \div 12 = 0 /\ (m % 12) % 12 = m % 12 /\ m % 12 \in 0..11 /\ m \div 12 \in Nat
  OBVIOUS
<1>2. cDaysBefore[(m % 12) + 1] \in Nat
  BY <1>1 DEF cDaysBefore
<1> QED BY <1>1, <1>2 DEF DaysBefore, GetNumberOfDaysByMonthIndex

(* Months later than a month by k + 1 leave room for k days.                   *)
LEMMA MonthsSuffice ==
    ASSUME NEW m \in Nat, NEW k \in Nat
    PROVE  DaysBefore(m + k + 1) - DaysBefore(m) >= k
<1> DEFINE n == m + k + 1
           mq == m \div 12
           mr == m % 12
           nq == n \div 12
           nr == n % 12
           dm == DaysBefore(m)
           dn == DaysBefore(n)
<1>1. /\ mq \in Nat /\ mr \in 0..11 /\ m = 12 * mq + mr
      /\ nq \in Nat /\ nr \in 0..11 /\ n = 12 * nq + nr
  OBVIOUS
<1>2. /\ dm \in Int /\ dm <= 365 * mq + 30 * mr + 4
      /\ dn \in Int /\ dn >= 365 * nq + 30 * nr - 1
  <2>1. \A r \in 0..11 : cDaysBefore[r + 1] \in (30 * r - 1) .. (30 * r + 4)
    <3> TAKE r \in 0..11
    <3>1. r \in {0, 1, 2, 3, 4, 5, 6, 7, 8, 9, 10, 11}
      OBVIOUS
    <3> QED BY <3>1 DEF cDaysBefore
  <2>2. /\ dm = 365 * mq + cDaysBefore[mr + 1]
        /\ dn = 365 * nq + cDaysBefore[nr + 1]
    BY DEF DaysBefore
  <2> HIDE DEF dm, dn, mq, mr, nq, nr
  <2> QED BY <1>1, <2>1, <2>2
<1>3. 12 * nq + nr = 12 * mq + mr + k + 1
  BY <1>1
<1> HIDE DEF n, mq, mr, nq, nr, dm, dn
<1>4. nq >= mq
  BY <1>1, <1>3
<1>5. dn - dm >= 365 * (nq - mq) + 30 * (nr - mr) - 5
  BY <1>1, <1>2
<1>6. 365 * (nq - mq) + 30 * (nr - mr) - 5 >= k
  BY <1>1, <1>3, <1>4
<1>7. dn - dm >= k
  BY <1>1, <1>2, <1>5, <1>6
<1> QED BY <1>7 DEF dn, dm, n

(* A set of numbers has a least one.                                           *)
LEMMA LeastNumber ==
    ASSUME NEW S, S \subseteq Nat, S # {}
    PROVE  \E m \in S : \A i \in S : m <= i
<1>1. PICK m \in S : \A i \in S : ~ (<<i, m>> \in OpToRel(<, Nat))
  BY NatLessThanWellFounded, WFMin
<1>2. \A i \in S : ~ (i < m)
  BY <1>1 DEF OpToRel
<1> QED BY <1>2

(* There is a month in which the day falls.                                    *)
LEMMA MonthFound ==
    ASSUME NEW d, d.month \in Nat, NEW day \in Nat
    PROVE  /\ MonthReached(d, day) \in d.month .. (d.month + day)
           /\ day <= DaysBefore(MonthReached(d, day) + 1) - DaysBefore(d.month)
           /\ MonthReached(d, day) > d.month
                 => day > DaysBefore(MonthReached(d, day)) - DaysBefore(d.month)
<1> DEFINE S == {m \in Nat : m >= d.month /\ day <= DaysBefore(m + 1) - DaysBefore(d.month)}
           fits(m) == /\ day <= DaysBefore(m + 1) - DaysBefore(d.month)
                      /\ m > d.month => day > DaysBefore(m) - DaysBefore(d.month)
<1>1. d.month + day \in S
  <2>1. DaysBefore(d.month + day + 1) - DaysBefore(d.month) >= day
    BY MonthsSuffice
  <2>2. /\ d.month + day + 1 \in Nat
        /\ DaysBefore(d.month + day + 1) \in Nat /\ DaysBefore(d.month) \in Nat
    BY MonthLengths
  <2>3. day <= DaysBefore(d.month + day + 1) - DaysBefore(d.month)
    BY <2>1, <2>2
  <2> QED BY <2>3
<1>2. PICK m \in S : \A i \in S : m <= i
  BY <1>1, LeastNumber
<1>3. m \in d.month .. (d.month + day)
  BY <1>1, <1>2
<1>4. m > d.month => day > DaysBefore(m) - DaysBefore(d.month)
  <2>1. SUFFICES ASSUME m > d.month PROVE day > DaysBefore(m) - DaysBefore(d.month)
    OBVIOUS
  <2>2. m - 1 \in Nat /\ m - 1 >= d.month /\ (m - 1) + 1 = m /\ m - 1 \notin S
    BY <1>2, <2>1
  <2>3. ~ (day <= DaysBefore(m) - DaysBefore(d.month))
    BY <2>2
  <2> QED BY <1>2, <2>3, MonthLengths
<1>5. fits(m)
  BY <1>2, <1>4
<1> HIDE DEF fits
<1>6. MonthReached(d, day) = CHOOSE i \in d.month .. (d.month + day) : fits(i)
  BY DEF MonthReached, fits
<1>7. MonthReached(d, day) \in d.month .. (d.month + day) /\ fits(MonthReached(d, day))
  BY <1>3, <1>5, <1>6
<1> QED BY <1>7 DEF fits

---------------------------------------------------------------------------
(* The carry *)

(* Times split into days and what is left of a day.                            *)
LEMMA TimeSplits ==
    ASSUME NEW t \in Nat
    PROVE  /\ t \div DayUnits \in Nat /\ t % DayUnits \in 0 .. DayUnits - 1
           /\ t = 24000 * (t \div DayUnits) + (t % DayUnits)
           /\ DayUnits = 24000
<1>1. DayUnits = 24000
  BY DEF DayUnits, HourUnits
<1>2. /\ t \div 24000 \in Nat /\ t % 24000 \in 0..23999
      /\ t = 24000 * (t \div 24000) + (t % 24000)
  OBVIOUS
<1>3. t \div DayUnits = t \div 24000 /\ t % DayUnits = t % 24000
  BY <1>1
<1> QED BY <1>1, <1>2, <1>3

(* What the arithmetic is about: dates of the server and of the clients.       *)
AnyDate == [time : Nat, day : Nat, month : 0..11, year : Nat, scale : Nat]

(* The carry makes a date that exists, of the right instant.                   *)
LEMMA CarryFacts ==
    ASSUME NEW d \in AnyDate, NEW n \in Nat
    PROVE  /\ UpdatedBy(d, n) \in AnyDate
           /\ UpdatedBy(d, n).time < DayUnits
           /\ UpdatedBy(d, n).scale = d.scale
           /\ UpdatedBy(d, n).day <= GetNumberOfDaysByMonthIndex(UpdatedBy(d, n).month)
           /\ Instant(UpdatedBy(d, n)) = Instant(d) + n * d.scale
<1> DEFINE gain == n * d.scale
           time == d.time + gain
           days == time \div DayUnits
           left == time % DayUnits
           day == d.day + days
           month == MonthReached(d, day)
           passed == DaysBefore(month) - DaysBefore(d.month)
           later == [time |-> left, day |-> day - passed, month |-> month % 12,
                     year |-> d.year + month \div 12, scale |-> d.scale]
<1>1. UpdatedBy(d, n) = [d EXCEPT !.time = left, !.day = day - passed,
                                  !.month = month % 12, !.year = @ + month \div 12]
  BY DEF UpdatedBy
<1>2. /\ d.time \in Nat /\ d.day \in Nat /\ d.month \in 0..11 /\ d.year \in Nat
      /\ d.scale \in Nat
  BY DEF AnyDate
<1>3. gain \in Nat
  BY <1>2
<1> HIDE DEF gain
<1>4. /\ days \in Nat /\ left \in 0..23999 /\ d.time + gain = 24000 * days + left
      /\ DayUnits = 24000
  <2>1. time \in Nat
    BY <1>2, <1>3
  <2> HIDE DEF time
  <2>2. /\ days \in Nat /\ left \in 0 .. DayUnits - 1 /\ time = 24000 * days + left
        /\ DayUnits = 24000
    BY <2>1, TimeSplits
  <2> HIDE DEF days, left
  <2> QED BY <2>2 DEF time
<1> HIDE DEF days, left
<1>5. /\ day \in Nat /\ month \in Nat /\ month >= d.month
      /\ day <= DaysBefore(month + 1) - DaysBefore(d.month)
      /\ month > d.month => day > passed
  <2>1. d.month \in Nat /\ day \in Nat
    BY <1>2, <1>4
  <2> HIDE DEF day
  <2> QED BY <2>1, MonthFound
<1> HIDE DEF day, month
<1>6. /\ DaysBefore(month) \in Nat /\ DaysBefore(d.month) \in Nat
      /\ DaysBefore(month + 1) = DaysBefore(month) + GetNumberOfDaysByMonthIndex(month)
      /\ GetNumberOfDaysByMonthIndex(month) \in 28..31
  BY <1>2, <1>5, MonthLengths
<1>7. /\ month % 12 \in 0..11 /\ month \div 12 \in Nat
      /\ DaysBefore(month) = 365 * (month \div 12) + DaysBefore(month % 12)
      /\ DaysBefore(month % 12) \in Nat
      /\ GetNumberOfDaysByMonthIndex(month % 12) = GetNumberOfDaysByMonthIndex(month)
  <2>1. month % 12 \in 0..11
    BY <1>5, YearsSplitOff
  <2>2. DaysBefore(month % 12) \in Nat
    BY <2>1, MonthLengths
  <2> QED BY <1>5, <2>1, <2>2, YearsSplitOff
<1>8. day - passed \in Nat /\ day - passed <= GetNumberOfDaysByMonthIndex(month % 12)
  <2>1. CASE month > d.month
    BY <2>1, <1>5, <1>6, <1>7
  <2>2. CASE month = d.month
    BY <2>2, <1>5, <1>6, <1>7
  <2> QED BY <2>1, <2>2, <1>2, <1>5
<1>9. UpdatedBy(d, n) = later
  <2> HIDE DEF passed
  <2> QED BY <1>1 DEF AnyDate
<1>10. Instant(later) = Instant(d) + gain
  <2>1. Instant(later) = 24000 * ((d.year + month \div 12) * 365 + DaysBefore(month % 12)
                                       + (day - passed)) + left
    <3> HIDE DEF passed
    <3> QED BY <1>4 DEF Instant
  <2>2. (d.year + month \div 12) * 365 + DaysBefore(month % 12) + (day - passed)
          = d.year * 365 + DaysBefore(d.month) + d.day + days
    <3>1. day = d.day + days
      BY DEF day
    <3>2. passed = 365 * (month \div 12) + DaysBefore(month % 12) - DaysBefore(d.month)
      BY <1>6, <1>7
    <3> DEFINE years == month \div 12
               before == DaysBefore(month % 12)
               from == DaysBefore(d.month)
    <3>3. years \in Nat /\ before \in Nat /\ from \in Nat /\ passed = 365 * years + before - from
      BY <1>6, <1>7, <3>2
    <3> HIDE DEF passed, years, before, from
    <3>4. (d.year + years) * 365 + before + (day - passed) = d.year * 365 + from + d.day + days
      BY <1>2, <1>4, <3>1, <3>3
    <3> QED BY <3>4 DEF years, before, from
  <2>3. Instant(d) = 24000 * (d.year * 365 + DaysBefore(d.month) + d.day) + d.time
    BY <1>4 DEF Instant
  <2>4. Instant(later) = 24000 * (d.year * 365 + DaysBefore(d.month) + d.day + days) + left
    BY <2>1, <2>2
  <2> DEFINE b == d.year * 365 + DaysBefore(d.month) + d.day
  <2>5. b \in Nat
    BY <1>2, <1>6
  <2>6. Instant(d) = 24000 * b + d.time /\ Instant(later) = 24000 * (b + days) + left
    BY <2>3, <2>4
  <2> HIDE DEF b, later
  <2> QED BY <1>2, <1>3, <1>4, <2>5, <2>6
<1>11. later \in AnyDate /\ later.time < DayUnits /\ later.scale = d.scale
       /\ later.day <= GetNumberOfDaysByMonthIndex(later.month)
  <2> HIDE DEF passed
  <2> QED BY <1>2, <1>4, <1>7, <1>8 DEF AnyDate
<1> QED BY <1>9, <1>10, <1>11 DEF gain

---------------------------------------------------------------------------
(* Types *)

Viewers == [joined : BOOLEAN, loaded : BOOLEAN, locked : BOOLEAN, lastTick : Nat, online : Dates]

(* Dates exist wherever they are kept, ticks do not run ahead of the clock,    *)
(* and nothing is under way to a client that is not connected.                 *)
CalendarInv ==
    /\ now \in Nat /\ StartTick <= now
    /\ dateTick \in {0} \cup (StartTick .. now)
    /\ dateTime \in Dates /\ dateTime.time < DayUnits + HourUnits
    /\ dateTime.day <= GetNumberOfDaysByMonthIndex(dateTime.month)
    /\ viewer \in [Clients -> Viewers]
    /\ timeQueue \in [Clients -> Seq([date : Dates, sent : Nat])]
    /\ \A c \in Clients :
          /\ viewer[c].lastTick <= now
          /\ ~viewer[c].joined => ~viewer[c].locked /\ timeQueue[c] = <<>>

(* The carry keeps dates what they are.                                        *)
LEMMA CarryKeepsDates ==
    ASSUME NEW d \in Dates, NEW n \in Nat
    PROVE  /\ UpdatedBy(d, n) \in Dates
           /\ UpdatedBy(d, n).time < DayUnits
           /\ UpdatedBy(d, n).day <= GetNumberOfDaysByMonthIndex(UpdatedBy(d, n).month)
           /\ Instant(UpdatedBy(d, n)) = Instant(d) + n * d.scale
<1>1. d \in AnyDate
  <2>1. d.day \in 0..31 /\ d.scale \in Scales \cup {0}
    BY DEF Dates
  <2>2. d.day \in Nat
    BY <2>1
  <2>3. Scales \cup {0} \subseteq Nat
    BY CalendarAssumption
  <2> QED BY <2>1, <2>2, <2>3 DEF Dates, AnyDate
<1>2. /\ UpdatedBy(d, n) \in AnyDate
      /\ UpdatedBy(d, n).time < DayUnits
      /\ UpdatedBy(d, n).scale = d.scale
      /\ UpdatedBy(d, n).day <= GetNumberOfDaysByMonthIndex(UpdatedBy(d, n).month)
      /\ Instant(UpdatedBy(d, n)) = Instant(d) + n * d.scale
  BY <1>1, CarryFacts
<1> DEFINE e == UpdatedBy(d, n)
<1>3. e \in AnyDate /\ e.scale = d.scale /\ e.day <= GetNumberOfDaysByMonthIndex(e.month)
  BY <1>2
<1> HIDE DEF e
<1>4. e.day \in 0..31
  <2>1. e.month \in Nat /\ e.day \in Nat
    BY <1>3 DEF AnyDate
  <2>2. GetNumberOfDaysByMonthIndex(e.month) \in 28..31
    BY <2>1, MonthLengths
  <2> QED BY <1>3, <2>1, <2>2
<1>5. e \in Dates
  BY <1>3, <1>4 DEF AnyDate, Dates
<1> QED BY <1>2, <1>5 DEF e

(* Queues hold messages, before and after sending and reading.                 *)
LEMMA QueuesKeepTypes ==
    ASSUME NEW S, NEW q \in [Clients -> Seq(S)]
    PROVE  /\ \A R : \A m \in S : Posted(q, R, m) \in [Clients -> Seq(S)]
           /\ \A c \in Clients : q[c] # <<>> =>
                 /\ Read(q, c) \in [Clients -> Seq(S)]
                 /\ Head(q[c]) \in S
BY DEF Posted, Read

(* Dates of joining players, and of the server before its first frame.         *)
LEMMA DatesAreDated ==
    ASSUME NEW d, d \in PlayerDates \/ d = FirstDate, NEW s \in Scales \cup {0}
    PROVE  /\ Dated(d, s) \in Dates
           /\ d.time \in Nat /\ d.time < DayUnits
           /\ d.day <= GetNumberOfDaysByMonthIndex(d.month)
<1>1. CASE d \in PlayerDates
  BY <1>1, CalendarAssumption DEF Dated, Dates
<1>2. CASE d = FirstDate
  <2>1. d.time = 12000 /\ d.day = 1 /\ d.month = 1 /\ d.year = 1
    BY <1>2 DEF FirstDate, HourUnits
  <2>2. GetNumberOfDaysByMonthIndex(1) = 28
    BY DEF GetNumberOfDaysByMonthIndex, cDayLengthArray
  <2>3. DayUnits = 24000
    BY DEF DayUnits, HourUnits
  <2> QED BY <2>1, <2>2, <2>3 DEF Dated, Dates
<1> QED BY <1>1, <1>2

LEMMA CalendarInitInv == CalendarInit => CalendarInv
<1> SUFFICES ASSUME CalendarInit PROVE CalendarInv
  OBVIOUS
<1>1. PICK s \in Scales : dateTime = Dated(FirstDate, s)
  BY DEF CalendarInit
<1>2. /\ dateTime \in Dates /\ dateTime.time < DayUnits
      /\ dateTime.day <= GetNumberOfDaysByMonthIndex(dateTime.month)
  BY <1>1, DatesAreDated DEF Dated
<1>3. Dated(FirstDate, 0) \in Dates
  BY DatesAreDated
<1>4. viewer \in [Clients -> Viewers] /\ timeQueue \in [Clients -> Seq([date : Dates, sent : Nat])]
  BY <1>3 DEF CalendarInit, Viewers
<1>5. StartTick \in Nat /\ now = StartTick /\ dateTick = 0
  BY CalendarAssumption DEF CalendarInit
<1>6. \A c \in Clients : /\ viewer[c].lastTick <= now
                         /\ ~viewer[c].locked /\ timeQueue[c] = <<>>
  BY <1>5 DEF CalendarInit
<1>7. dateTime.time < DayUnits + HourUnits
  BY <1>2 DEF Dates, DayUnits, HourUnits
<1> QED BY <1>2, <1>4, <1>5, <1>6, <1>7 DEF CalendarInv

(* A message with a date that exists leaves the queues of all but its          *)
(* recipients as they are.                                                     *)
LEMMA SendKeepsQueues ==
    ASSUME CalendarInv, dateTime' \in Dates, NEW R, SendTo(R)
    PROVE  /\ timeQueue' \in [Clients -> Seq([date : Dates, sent : Nat])]
           /\ \A c \in Clients \ R : timeQueue'[c] = timeQueue[c]
<1>1. Message \in [date : Dates, sent : Nat]
  BY DEF CalendarInv, Message
<1>2. timeQueue \in [Clients -> Seq([date : Dates, sent : Nat])]
  BY DEF CalendarInv
<1>3. timeQueue' \in [Clients -> Seq([date : Dates, sent : Nat])]
  BY <1>1, <1>2, QueuesKeepTypes DEF SendTo
<1>4. \A c \in Clients \ R : timeQueue'[c] = timeQueue[c]
  BY DEF SendTo, Posted
<1> QED BY <1>3, <1>4

(* The operator sets dates that exist.                                         *)
LEMMA OperateKeepsInv ==
    ASSUME CalendarInv, Operate
    PROVE  CalendarInv'
<1> DEFINE DateStays == /\ dateTime' \in Dates /\ dateTime'.time < DayUnits + HourUnits
                        /\ dateTime'.day <= GetNumberOfDaysByMonthIndex(dateTime'.month)
<1>1. ASSUME DateStays, NEW R, R \subseteq Players, SendTo(R),
             UNCHANGED <<now, dateTick, viewer>>
      PROVE  CalendarInv'
  <2>1. /\ timeQueue' \in [Clients -> Seq([date : Dates, sent : Nat])]
        /\ \A c \in Clients \ R : timeQueue'[c] = timeQueue[c]
    BY <1>1, SendKeepsQueues
  <2>2. \A c \in Clients : ~viewer[c].joined => c \notin R
    BY <1>1 DEF Players
  <2> QED BY <1>1, <2>1, <2>2 DEF CalendarInv
<1>2. Loaded \subseteq Players /\ Players \subseteq Players
  BY DEF Loaded
<1>3. ASSUME NEW s \in ClockSettings, SetTime(s[1], s[2]) PROVE CalendarInv'
  <2> DEFINE h == s[1]
             m == s[2]
             t == h * HourUnits + EncodedMinutes(m)
  <2>1. h \in 0..23 /\ m \in 0..59 /\ dateTime' = [dateTime EXCEPT !.time = t]
    BY <1>3 DEF SetTime
  <2>2. t \in Nat /\ t < 24004
    <3> HIDE DEF h, m
    <3> QED BY <2>1 DEF EncodedMinutes, HourUnits
  <2>3. t < DayUnits + HourUnits
    <3> HIDE DEF t
    <3> QED BY <2>2 DEF DayUnits, HourUnits
  <2> HIDE DEF t
  <2>4. DateStays
    <3>1. dateTime \in Dates /\ dateTime.day <= GetNumberOfDaysByMonthIndex(dateTime.month)
      BY DEF CalendarInv
    <3>2. dateTime' \in Dates /\ dateTime'.time = t
          /\ dateTime'.day = dateTime.day /\ dateTime'.month = dateTime.month
      BY <2>1, <2>2, <3>1 DEF Dates
    <3> QED BY <2>3, <3>1, <3>2
  <2> QED BY <1>1, <1>2, <1>3, <2>4 DEF SetTime
<1>4. ASSUME NEW s \in DateSettings, SetDate(s) PROVE CalendarInv'
  <2>9. dateTime' = [dateTime EXCEPT !.day = s.day, !.month = s.month, !.year = s.year]
    BY <1>4 DEF SetDate
  <2>1. /\ s.month \in 0..11 /\ s.year \in 0..999
        /\ s.day \in 0 .. GetNumberOfDaysByMonthIndex(s.month) - 1
    BY <1>4 DEF SetDate
  <2>2. GetNumberOfDaysByMonthIndex(s.month) \in 28..31
    <3>1. s.month \in Nat
      BY <2>1
    <3> QED BY <3>1, MonthLengths
  <2>3. /\ s.day \in 0..31 /\ s.day <= GetNumberOfDaysByMonthIndex(s.month)
        /\ s.month \in 0..11 /\ s.year \in Nat
    BY <2>1, <2>2
  <2>4. DateStays
    <3>1. dateTime \in Dates /\ dateTime.time < DayUnits + HourUnits
      BY DEF CalendarInv
    <3>2. dateTime' \in Dates /\ dateTime'.time = dateTime.time
          /\ dateTime'.day = s.day /\ dateTime'.month = s.month
      BY <2>9, <2>3, <3>1 DEF Dates
    <3> QED BY <2>3, <3>1, <3>2
  <2> QED BY <1>1, <1>2, <1>4, <2>4 DEF SetDate
<1>5. ASSUME NEW s \in Scales, SetTimeScale(s) PROVE CalendarInv'
  <2>1. DateStays
    BY <1>5 DEF SetTimeScale, CalendarInv, Dates
  <2> QED BY <1>1, <1>2, <1>5, <2>1 DEF SetTimeScale
<1> QED BY <1>3, <1>4, <1>5 DEF Operate

(* Joins and connections keep the dates and what is known of the clients.      *)
LEMMA ConnectionsKeepInv ==
    ASSUME CalendarInv, NEW c \in Clients,
           \/ \E d \in PlayerDates : OnPlayerJoin(c, d)
           \/ EnterWorld(c)
           \/ OnDisconnected(c)
    PROVE  CalendarInv'
<1>1. ASSUME NEW d \in PlayerDates, OnPlayerJoin(c, d) PROVE CalendarInv'
  <2> DEFINE R == IF Furthest(d) THEN Players \cup {c} ELSE {c}
  <2>1. /\ d \in [time : Nat, day : 1..31, month : 0..11, year : Nat]
        /\ d.time < DayUnits /\ d.day <= GetNumberOfDaysByMonthIndex(d.month)
    BY CalendarAssumption
  <2>2. d.time < DayUnits + HourUnits
    BY <2>1 DEF DayUnits, HourUnits
  <2>3. /\ dateTime' \in Dates /\ dateTime'.time < DayUnits + HourUnits
        /\ dateTime'.day <= GetNumberOfDaysByMonthIndex(dateTime'.month)
    <3>1. CASE ~Furthest(d)
      BY <1>1, <3>1 DEF OnPlayerJoin, CalendarInv
    <3>2. CASE Furthest(d)
      <4>1. dateTime' = [dateTime EXCEPT
                            !.time = IF timeSetFromFirstPlayer THEN dateTime.time ELSE d.time,
                            !.day = d.day, !.month = d.month, !.year = d.year]
        BY <1>1, <3>2 DEF OnPlayerJoin
      <4>2. d.day \in 0..31
        BY <2>1
      <4> QED BY <2>1, <2>2, <4>1, <4>2 DEF CalendarInv, Dates
    <3> QED BY <3>1, <3>2
  <2>4. Dated(d, 0) \in Dates
    BY DatesAreDated
  <2>5. /\ viewer' = [viewer EXCEPT ![c].joined = TRUE, ![c].online = Dated(d, 0)]
        /\ SendTo(R) /\ UNCHANGED <<now, dateTick>>
    BY <1>1 DEF OnPlayerJoin
  <2>6. /\ timeQueue' \in [Clients -> Seq([date : Dates, sent : Nat])]
        /\ \A b \in Clients \ R : timeQueue'[b] = timeQueue[b]
    <3> HIDE DEF R
    <3> QED BY <2>3, <2>5, SendKeepsQueues
  <2>7. viewer' \in [Clients -> Viewers]
    BY <2>4, <2>5 DEF CalendarInv, Viewers
  <2>8. \A b \in Clients : /\ viewer'[b].lastTick = viewer[b].lastTick
                           /\ viewer'[b].locked = viewer[b].locked
                           /\ ~viewer'[b].joined => b \notin R /\ ~viewer[b].joined
    BY <2>5 DEF CalendarInv, Viewers, Players
  <2> HIDE DEF R
  <2> QED BY <2>3, <2>5, <2>6, <2>7, <2>8 DEF CalendarInv
<1>2. ASSUME EnterWorld(c) PROVE CalendarInv'
  <2>1. /\ viewer' = [viewer EXCEPT ![c].loaded = TRUE]
        /\ UNCHANGED <<now, dateTime, dateTick, timeQueue>>
    BY <1>2 DEF EnterWorld
  <2>2. viewer' \in [Clients -> Viewers]
    BY <2>1 DEF CalendarInv, Viewers
  <2>3. \A b \in Clients : /\ viewer'[b].lastTick = viewer[b].lastTick
                           /\ viewer'[b].locked = viewer[b].locked
                           /\ viewer'[b].joined = viewer[b].joined
    BY <2>1 DEF CalendarInv, Viewers
  <2> QED BY <2>1, <2>2, <2>3 DEF CalendarInv
<1>3. ASSUME OnDisconnected(c) PROVE CalendarInv'
  <2>1. /\ viewer' = [viewer EXCEPT ![c].joined = FALSE, ![c].loaded = FALSE, ![c].locked = FALSE]
        /\ timeQueue' = [timeQueue EXCEPT ![c] = <<>>]
        /\ UNCHANGED <<now, dateTime, dateTick>>
    BY <1>3 DEF OnDisconnected
  <2>2. viewer' \in [Clients -> Viewers]
    BY <2>1 DEF CalendarInv, Viewers
  <2>3. timeQueue' \in [Clients -> Seq([date : Dates, sent : Nat])]
    <3>1. timeQueue \in [Clients -> Seq([date : Dates, sent : Nat])]
      BY DEF CalendarInv
    <3>2. <<>> \in Seq([date : Dates, sent : Nat])
      OBVIOUS
    <3> QED BY <2>1, <3>1, <3>2
  <2>4. \A b \in Clients :
           /\ viewer'[b].lastTick = viewer[b].lastTick
           /\ b = c => ~viewer'[b].locked /\ timeQueue'[b] = <<>>
           /\ b # c => /\ viewer'[b].locked = viewer[b].locked
                       /\ viewer'[b].joined = viewer[b].joined
                       /\ timeQueue'[b] = timeQueue[b]
    BY <2>1 DEF CalendarInv, Viewers
  <2> QED BY <2>1, <2>2, <2>3, <2>4 DEF CalendarInv
<1> QED BY <1>1, <1>2, <1>3

(* Frames, of the server and of a client, and messages that are read.          *)
LEMMA FramesKeepInv ==
    ASSUME CalendarInv, Passes \/ ServerUpdate \/ \E c \in Clients : OnTimeUpdate(c) \/ HandleUpdate(c)
    PROVE  CalendarInv'
<1>1. CASE Passes
  <2>1. now' = now + 1 /\ UNCHANGED <<dateTime, dateTick, viewer, timeQueue>>
    BY <1>1 DEF Passes
  <2>2. /\ now \in Nat /\ StartTick \in Nat /\ StartTick <= now
        /\ dateTick \in {0} \cup (StartTick .. now)
        /\ \A c \in Clients : viewer[c].lastTick \in Nat /\ viewer[c].lastTick <= now
    BY CalendarAssumption DEF CalendarInv, Viewers
  <2>3. /\ now' \in Nat /\ StartTick <= now' /\ dateTick' \in {0} \cup (StartTick .. now')
        /\ \A c \in Clients : viewer'[c].lastTick <= now'
    BY <2>1, <2>2
  <2> QED BY <2>1, <2>3 DEF CalendarInv
<1>2. CASE ServerUpdate
  <2> DEFINE n == IF dateTick = 0 THEN 0 ELSE now - dateTick
  <2>1. /\ dateTick' = now /\ dateTime' = UpdatedBy(dateTime, n)
        /\ UNCHANGED <<now, viewer, timeQueue>>
    BY <1>2 DEF ServerUpdate
  <2>2. /\ now \in Nat /\ StartTick \in Nat /\ StartTick <= now
        /\ dateTick \in {0} \cup (StartTick .. now) /\ dateTime \in Dates
    BY CalendarAssumption DEF CalendarInv
  <2>3. n \in Nat /\ now \in StartTick .. now
    BY <2>2
  <2> HIDE DEF n
  <2>4. /\ dateTime' \in Dates /\ dateTime'.time < DayUnits
        /\ dateTime'.day <= GetNumberOfDaysByMonthIndex(dateTime'.month)
    BY <2>1, <2>2, <2>3, CarryKeepsDates
  <2>5. dateTime'.time < DayUnits + HourUnits
    BY <2>4 DEF Dates, DayUnits, HourUnits
  <2> QED BY <2>1, <2>3, <2>4, <2>5 DEF CalendarInv
<1>3. ASSUME NEW c \in Clients, OnTimeUpdate(c) PROVE CalendarInv'
  <2> DEFINE date == Head(timeQueue[c]).date
             next == IF syncCalendar THEN date
                     ELSE [viewer[c].online EXCEPT !.time = date.time, !.scale = date.scale]
  <2>1. /\ timeQueue[c] # <<>> /\ timeQueue' = Read(timeQueue, c)
        /\ viewer' = [viewer EXCEPT ![c].locked = TRUE, ![c].online = next]
        /\ UNCHANGED <<now, dateTime, dateTick>>
    BY <1>3 DEF OnTimeUpdate
  <2>2. /\ timeQueue \in [Clients -> Seq([date : Dates, sent : Nat])]
        /\ viewer \in [Clients -> Viewers]
    BY DEF CalendarInv
  <2>3. /\ timeQueue' \in [Clients -> Seq([date : Dates, sent : Nat])]
        /\ Head(timeQueue[c]) \in [date : Dates, sent : Nat]
    BY <2>1, <2>2, QueuesKeepTypes
  <2>4. date \in Dates /\ viewer[c].online \in Dates
    BY <2>2, <2>3 DEF Viewers
  <2> HIDE DEF date
  <2>5. next \in Dates
    BY <2>4 DEF Dates
  <2> HIDE DEF next
  <2>6. viewer' \in [Clients -> Viewers]
    BY <2>1, <2>2, <2>5 DEF Viewers
  <2>7. viewer[c].joined
    BY <2>1, <2>2 DEF CalendarInv, Viewers
  <2>8. \A b \in Clients :
           /\ viewer'[b].lastTick = viewer[b].lastTick
           /\ viewer'[b].joined = viewer[b].joined
           /\ b # c => viewer'[b].locked = viewer[b].locked /\ timeQueue'[b] = timeQueue[b]
    BY <2>1, <2>2 DEF Viewers, Read
  <2> QED BY <2>1, <2>3, <2>6, <2>7, <2>8 DEF CalendarInv
<1>4. ASSUME NEW c \in Clients, HandleUpdate(c) PROVE CalendarInv'
  <2> DEFINE last == viewer[c].lastTick
             n == IF last = 0 THEN 0 ELSE now - last
             next == UpdatedBy(viewer[c].online, n)
  <2>1. /\ last < now
        /\ viewer' = [viewer EXCEPT ![c].lastTick = now, ![c].online = next]
        /\ UNCHANGED <<now, dateTime, dateTick, timeQueue>>
    BY <1>4 DEF HandleUpdate
  <2>2. /\ viewer \in [Clients -> Viewers] /\ now \in Nat
        /\ last \in Nat /\ viewer[c].online \in Dates
    BY DEF CalendarInv, Viewers
  <2>3. n \in Nat
    <3> HIDE DEF last
    <3> QED BY <2>1, <2>2
  <2> HIDE DEF n
  <2>4. next \in Dates
    BY <2>2, <2>3, CarryKeepsDates
  <2> HIDE DEF next
  <2>5. viewer' \in [Clients -> Viewers]
    BY <2>1, <2>2, <2>4 DEF Viewers
  <2>6. \A b \in Clients :
           /\ viewer'[b].joined = viewer[b].joined /\ viewer'[b].locked = viewer[b].locked
           /\ viewer'[b].lastTick \in {now, viewer[b].lastTick}
    BY <2>1, <2>2 DEF Viewers
  <2>7. \A b \in Clients : viewer'[b].lastTick <= now
    <3>1. \A b \in Clients : viewer[b].lastTick <= now
      BY DEF CalendarInv
    <3>2. now <= now
      BY <2>2
    <3> QED BY <2>6, <3>1, <3>2
  <2> QED BY <2>1, <2>5, <2>6, <2>7 DEF CalendarInv
<1> QED BY <1>1, <1>2, <1>3, <1>4

(* No step disturbs the invariant.                                             *)
LEMMA CalendarNextInv ==
    CalendarInv /\ [CalendarNext]_calendarVars => CalendarInv'
<1> SUFFICES ASSUME CalendarInv, [CalendarNext]_calendarVars PROVE CalendarInv'
  OBVIOUS
<1>1. CASE UNCHANGED calendarVars
  BY <1>1 DEF calendarVars, CalendarInv
<1>2. CASE CalendarNext
  BY <1>2, OperateKeepsInv, ConnectionsKeepInv, FramesKeepInv DEF CalendarNext
<1> QED BY <1>1, <1>2

(* For any scales, dates and ticks, dates exist and ticks do not run ahead.    *)
THEOREM CalendarInvariant == CalendarSpec => []CalendarInv
BY CalendarInitInv, CalendarNextInv, PTL DEF CalendarSpec

(* The state of the calendar has its types: the day on record is always one    *)
(* that its month has, whatever the operator sets and however long a frame is. *)
THEOREM CalendarTypes == CalendarSpec => []CalendarTypeOK
<1>1. CalendarInv => CalendarTypeOK
  BY DEF CalendarInv, CalendarTypeOK, Viewers
<1> QED BY <1>1, CalendarInvariant, PTL

(* The carry of DateTime::Update gains and loses no time, for every date that  *)
(* the server can have and for any length of an update.                        *)
THEOREM CarryAlwaysExact == CalendarSpec => []CarryIsExact
<1>1. CalendarInv => CarryIsExact
  <2> SUFFICES ASSUME CalendarInv, NEW n \in Stalls
               PROVE  /\ Instant(UpdatedBy(dateTime, n)) = Instant(dateTime) + n * dateTime.scale
                      /\ UpdatedBy(dateTime, n).day <=
                            GetNumberOfDaysByMonthIndex(UpdatedBy(dateTime, n).month)
    BY DEF CarryIsExact
  <2>1. n \in Nat /\ dateTime \in Dates
    BY CalendarAssumption DEF CalendarInv
  <2> QED BY <2>1, CarryKeepsDates
<1> QED BY <1>1, CalendarInvariant, PTL

---------------------------------------------------------------------------
(* The date when players join *)

Days(d) == d.year * 365 + DaysBefore(d.month) + d.day

(* Instants are days and a time.                                               *)
LEMMA InstantsAreDays ==
    ASSUME NEW d, d.year \in Nat, d.month \in 0..11, d.day \in Nat
    PROVE  Days(d) \in Nat /\ Instant(d) = 24000 * Days(d) + d.time
<1>1. DaysBefore(d.month) \in Nat
  <2>1. d.month \in Nat
    OBVIOUS
  <2> QED BY <2>1, MonthLengths
<1>2. DayUnits = 24000
  BY DEF DayUnits, HourUnits
<1>3. Days(d) \in Nat
  BY <1>1 DEF Days
<1> QED BY <1>2, <1>3 DEF Instant, Days

(* Whole days of an instant.                                                   *)
LEMMA DaysOfInstants ==
    ASSUME NEW n \in Nat, NEW t \in Nat
    PROVE  /\ n <= (24000 * n + t) \div DayUnits
           /\ t < DayUnits => (24000 * n + t) \div DayUnits = n
<1>1. DayUnits = 24000
  BY DEF DayUnits, HourUnits
<1>2. n <= (24000 * n + t) \div 24000
  OBVIOUS
<1>3. t < 24000 => (24000 * n + t) \div 24000 = n
  OBVIOUS
<1> QED BY <1>1, <1>2, <1>3

LEMMA LaterInstantsLaterDays ==
    ASSUME NEW a \in Nat, NEW b \in Nat, a <= b
    PROVE  a \div DayUnits <= b \div DayUnits
<1>1. DayUnits = 24000
  BY DEF DayUnits, HourUnits
<1>2. a \div 24000 <= b \div 24000
  OBVIOUS
<1> QED BY <1>1, <1>2

(* What a join makes of the date: it stays, or it becomes the date of the      *)
(* player at the hour of the player or of the server.                          *)
LEMMA DateAfterJoin ==
    ASSUME CalendarInv, NEW c, NEW d \in PlayerDates, OnPlayerJoin(c, d)
    PROVE  /\ Days(d) \in Nat /\ Days(dateTime) \in Nat
           /\ d.time \in Nat /\ d.time < DayUnits /\ dateTime.time \in Nat
           /\ Instant(d) = 24000 * Days(d) + d.time
           /\ Instant(dateTime) = 24000 * Days(dateTime) + dateTime.time
           /\ \/ dateTime' = dateTime /\ Instant(d) <= Instant(dateTime)
              \/ /\ Instant(dateTime) < Instant(d)
                 /\ dateTime'.time \in {d.time, dateTime.time}
                 /\ Instant(dateTime') = 24000 * Days(d) + dateTime'.time
<1>1. /\ d.time \in Nat /\ d.time < DayUnits /\ d.day \in Nat /\ d.month \in 0..11
      /\ d.year \in Nat
  BY CalendarAssumption
<1>2. dateTime \in Dates
  BY DEF CalendarInv
<1>3. /\ dateTime.time \in Nat /\ dateTime.day \in Nat /\ dateTime.month \in 0..11
      /\ dateTime.year \in Nat
  BY <1>2 DEF Dates
<1>4. /\ Days(d) \in Nat /\ Instant(d) = 24000 * Days(d) + d.time
      /\ Days(dateTime) \in Nat
      /\ Instant(dateTime) = 24000 * Days(dateTime) + dateTime.time
  BY <1>1, <1>3, InstantsAreDays
<1>5. Instant(d) \in Int /\ Instant(dateTime) \in Int
  BY <1>1, <1>3, <1>4
<1>6. CASE ~Furthest(d)
  <2>1. dateTime' = dateTime
    BY <1>6 DEF OnPlayerJoin
  <2>2. Instant(d) <= Instant(dateTime)
    BY <1>5, <1>6 DEF Furthest
  <2> QED BY <1>1, <1>3, <1>4, <2>1, <2>2
<1>7. CASE Furthest(d)
  <2>1. dateTime' = [dateTime EXCEPT
                        !.time = IF timeSetFromFirstPlayer THEN dateTime.time ELSE d.time,
                        !.day = d.day, !.month = d.month, !.year = d.year]
    BY <1>7 DEF OnPlayerJoin
  <2>2. /\ dateTime'.time \in {d.time, dateTime.time}
        /\ dateTime'.day = d.day /\ dateTime'.month = d.month /\ dateTime'.year = d.year
    BY <1>2, <2>1 DEF Dates
  <2>3. Instant(dateTime') = 24000 * Days(d) + dateTime'.time
    <3>1. Days(dateTime') = Days(d)
      BY <2>2 DEF Days
    <3>2. Instant(dateTime') = 24000 * Days(dateTime') + dateTime'.time
      BY <1>1, <2>2, InstantsAreDays
    <3> QED BY <3>1, <3>2
  <2>4. Instant(dateTime) < Instant(d)
    BY <1>5, <1>7 DEF Furthest
  <2> QED BY <1>1, <1>3, <1>4, <2>2, <2>3, <2>4
<1> QED BY <1>6, <1>7

(* Nothing but the operator puts the clock of the world back.                  *)
THEOREM DateOnlyAdvances == CalendarSpec => DateAdvances
<1>1. ASSUME CalendarInv, [CalendarNext]_calendarVars, ~Operate
      PROVE  Instant(dateTime') >= Instant(dateTime)
  <2>1. Days(dateTime) \in Nat /\ Instant(dateTime) = 24000 * Days(dateTime) + dateTime.time
        /\ dateTime.time \in Nat
    <3>1. dateTime \in Dates
      BY <1>1 DEF CalendarInv
    <3>2. /\ dateTime.time \in Nat /\ dateTime.day \in Nat /\ dateTime.month \in 0..11
          /\ dateTime.year \in Nat
      BY <3>1 DEF Dates
    <3> QED BY <3>2, InstantsAreDays
  <2>2. Instant(dateTime) \in Nat
    BY <2>1
  <2>3. CASE dateTime' = dateTime
    BY <2>2, <2>3
  <2>4. CASE ServerUpdate
    <3> DEFINE n == IF dateTick = 0 THEN 0 ELSE now - dateTick
    <3>1. dateTime' = UpdatedBy(dateTime, n)
      BY <2>4 DEF ServerUpdate
    <3>2. /\ now \in Nat /\ StartTick \in Nat
          /\ dateTick \in {0} \cup (StartTick .. now) /\ dateTime \in Dates
      BY <1>1, CalendarAssumption DEF CalendarInv
    <3>3. n \in Nat
      BY <3>2
    <3> HIDE DEF n
    <3>4. Instant(dateTime') = Instant(dateTime) + n * dateTime.scale
      BY <3>1, <3>2, <3>3, CarryKeepsDates
    <3>5. dateTime.scale \in Nat
      <4>1. dateTime.scale \in Scales \cup {0}
        BY <3>2 DEF Dates
      <4>2. Scales \cup {0} \subseteq Nat
        BY CalendarAssumption
      <4> DEFINE scale == dateTime.scale
      <4> HIDE DEF scale
      <4>3. scale \in Scales \cup {0}
        BY <4>1 DEF scale
      <4>4. scale \in Nat
        BY <4>2, <4>3
      <4> QED BY <4>4 DEF scale
    <3>6. n * dateTime.scale \in Nat
      BY <3>3, <3>5
    <3> QED BY <2>2, <3>4, <3>6
  <2>5. ASSUME NEW c \in Clients, NEW d \in PlayerDates, OnPlayerJoin(c, d)
        PROVE  Instant(dateTime') >= Instant(dateTime)
    <3>1. /\ Days(d) \in Nat /\ d.time \in Nat /\ d.time < 24000
          /\ Instant(d) = 24000 * Days(d) + d.time
          /\ \/ dateTime' = dateTime
             \/ /\ Instant(dateTime) < Instant(d)
                /\ dateTime'.time \in {d.time, dateTime.time}
                /\ Instant(dateTime') = 24000 * Days(d) + dateTime'.time
      <4>1. DayUnits = 24000
        BY DEF DayUnits, HourUnits
      <4> QED BY <1>1, <2>5, <4>1, DateAfterJoin
    <3>2. CASE dateTime' = dateTime
      BY <2>2, <3>2
    <3>3. CASE /\ Instant(dateTime) < Instant(d)
               /\ dateTime'.time \in {d.time, dateTime.time}
               /\ Instant(dateTime') = 24000 * Days(d) + dateTime'.time
      <4>1. Days(dateTime) <= Days(d)
        BY <2>1, <3>1, <3>3
      <4>2. CASE dateTime'.time = d.time
        BY <2>1, <3>1, <3>3, <4>2
      <4>3. CASE dateTime'.time = dateTime.time
        BY <2>1, <3>1, <3>3, <4>1, <4>3
      <4> QED BY <3>3, <4>2, <4>3
    <3> QED BY <3>1, <3>2, <3>3
  <2>6. CASE UNCHANGED calendarVars
    BY <2>3, <2>6 DEF calendarVars
  <2>7. CASE CalendarNext
    BY <1>1, <2>3, <2>4, <2>5, <2>7
       DEF CalendarNext, Passes, EnterWorld, OnTimeUpdate, HandleUpdate, OnDisconnected
  <2> QED BY <1>1, <2>6, <2>7
<1>2. CalendarInv /\ [CalendarNext]_calendarVars
        => [~Operate => Instant(dateTime') >= Instant(dateTime)]_calendarVars
  BY <1>1
<1> QED BY <1>2, CalendarInvariant, PTL DEF CalendarSpec, DateAdvances

(* The date of the world is never before the date of a player who just joined. *)
THEOREM FurthestDateAlwaysWins == CalendarSpec => FurthestDateWins
<1>1. ASSUME CalendarInv, NEW c \in Clients, NEW d \in PlayerDates, OnPlayerJoin(c, d)
      PROVE  Date(dateTime') >= Date(d)
  <2>1. /\ Days(d) \in Nat /\ Days(dateTime) \in Nat
        /\ d.time \in Nat /\ d.time < DayUnits /\ dateTime.time \in Nat
        /\ Instant(d) = 24000 * Days(d) + d.time
        /\ Instant(dateTime) = 24000 * Days(dateTime) + dateTime.time
        /\ \/ dateTime' = dateTime /\ Instant(d) <= Instant(dateTime)
           \/ /\ dateTime'.time \in {d.time, dateTime.time}
              /\ Instant(dateTime') = 24000 * Days(d) + dateTime'.time
    BY <1>1, DateAfterJoin
  <2>2. Instant(d) \in Nat /\ Instant(dateTime) \in Nat
    BY <2>1
  <2> DEFINE day == Days(d)
             hour == d.time
  <2>3a. day \in Nat /\ hour \in Nat /\ hour < DayUnits
    BY <2>1
  <2>3b. Date(d) = Instant(d) \div DayUnits /\ Instant(d) = 24000 * day + hour
    BY <2>1 DEF Date
  <2>3. Date(d) = day
    <3> HIDE DEF day, hour
    <3>1. (24000 * day + hour) \div DayUnits = day
      BY <2>3a, DaysOfInstants
    <3> QED BY <2>3b, <3>1
  <2>4. CASE dateTime' = dateTime /\ Instant(d) <= Instant(dateTime)
    <3>1. Instant(d) \div DayUnits <= Instant(dateTime) \div DayUnits
      BY <2>2, <2>4, LaterInstantsLaterDays
    <3>2. Instant(d) \div DayUnits \in Int /\ Instant(dateTime) \div DayUnits \in Int
      BY <2>2, TimeSplits
    <3> QED BY <2>4, <3>1, <3>2 DEF Date
  <2>5. CASE /\ dateTime'.time \in {d.time, dateTime.time}
             /\ Instant(dateTime') = 24000 * Days(d) + dateTime'.time
    <3> DEFINE later == dateTime'.time
    <3>1. later \in Nat
      BY <2>1, <2>5
    <3>2. /\ Date(dateTime') = Instant(dateTime') \div DayUnits
          /\ Instant(dateTime') = 24000 * day + later
      BY <2>5 DEF Date
    <3>3. day <= (24000 * day + later) \div DayUnits
      <4>1. day \in Nat
        BY <2>3a
      <4> HIDE DEF day, later, hour
      <4>2. DayUnits = 24000
        BY DEF DayUnits, HourUnits
      <4>3. day <= (24000 * day + later) \div 24000
        BY <4>1, <3>1
      <4> QED BY <4>2, <4>3
    <3> HIDE DEF day, later
    <3> QED BY <2>3, <3>2, <3>3
  <2> QED BY <2>1, <2>4, <2>5
<1>2. CalendarInv =>
        [\A c \in Clients, d \in PlayerDates :
            OnPlayerJoin(c, d) => Date(dateTime') >= Date(d)]_calendarVars
  BY <1>1
<1> QED BY <1>2, CalendarInvariant, PTL DEF FurthestDateWins

---------------------------------------------------------------------------
(* The clocks of the clients *)

Elapsed == IF dateTick = 0 THEN 0 ELSE now - dateTick
Counted(c) == IF viewer[c].lastTick = 0 THEN 0 ELSE now - viewer[c].lastTick

\* What the server and a client c will show when they have had their frame
ServerInstant == Instant(dateTime) + dateTime.scale * Elapsed
ClientInstant(c) == Instant(viewer[c].online) + dateTime.scale * Counted(c)

\* Messages arrive in the order they were sent, and not too late
Timely(s) ==
    /\ \A i \in DOMAIN s : now - s[i].sent \in 0..MaxLatency
    /\ \A i, j \in DOMAIN s : i <= j => s[i].sent <= s[j].sent

\* The server has counted on from the message m since it was sent
CountedOn(m) ==
    /\ m.date.scale = dateTime.scale
    /\ \E k \in {now - m.sent, now - m.sent + 1} :
          ServerInstant - Instant(m.date) = dateTime.scale * k

\* A clock is behind by x: by j ticks, and by days if it has a date of its own
Lagging(x, scale, synced) ==
    \E j \in -1 .. (MaxLatency + 1), z \in Int :
        /\ x = scale * j + 24000 * z
        /\ synced => z = 0

\* The clock of c is behind by j ticks, and by days if it has a date of its own
Near(c) ==
    /\ viewer[c].locked
    /\ viewer[c].online.scale = dateTime.scale
    /\ Lagging(ServerInstant - ClientInstant(c), dateTime.scale, syncCalendar)

Clocked(c) ==
    viewer[c].joined /\ c \notin misled =>
       /\ viewer[c].lastTick \in IF viewer[c].locked THEN {0, now - 1, now} ELSE {0}
       /\ Timely(timeQueue[c])
       /\ timeQueue[c] # <<>> => CountedOn(Last(timeQueue[c]))
       /\ timeQueue[c] = <<>> => Near(c)

(* The server has had a frame in this tick or in the last, and what each       *)
(* client shows or is about to be told is the date of the server when it was   *)
(* sent, counted on.                                                           *)
ClockInv ==
    /\ CalendarInv
    /\ dateTick \in {now - 1, now} \/ (dateTick = 0 /\ now = StartTick)
    /\ \A c \in Clients : Clocked(c)

(* Messages in a queue.                                                        *)
LEMMA QueueFacts ==
    ASSUME NEW S, NEW q \in Seq(S)
    PROVE  /\ \A j \in DOMAIN q : q[j] \in S
           /\ q # <<>> => Last(q) \in S /\ 1 \in DOMAIN q /\ Head(q) = q[1]
           /\ \A j \in DOMAIN q : 1 <= j
           /\ q # <<>> /\ Tail(q) = <<>> => Last(q) = Head(q)
           /\ q # <<>> /\ Tail(q) # <<>> => Last(Tail(q)) = Last(q)
           /\ \A m \in S : Last(Append(q, m)) = m /\ Append(q, m) # <<>>
<1>1. (\A j \in DOMAIN q : q[j] \in S) /\ \A j \in DOMAIN q : 1 <= j
  OBVIOUS
<1>2. \A m \in S : Last(Append(q, m)) = m /\ Append(q, m) # <<>>
  BY DEF Last
<1>3. ASSUME q # <<>>
      PROVE  /\ Last(q) \in S /\ 1 \in DOMAIN q /\ Head(q) = q[1]
             /\ Tail(q) = <<>> => Last(q) = Head(q)
             /\ Tail(q) # <<>> => Last(Tail(q)) = Last(q)
  <2>1. Len(q) \in Nat \ {0} /\ Len(q) \in DOMAIN q /\ 1 \in DOMAIN q /\ Head(q) = q[1]
    BY <1>3
  <2>2. Last(q) \in S
    BY <1>1, <2>1 DEF Last
  <2>3. /\ Tail(q) \in Seq(S) /\ Len(Tail(q)) = Len(q) - 1
        /\ \A j \in 1 .. Len(q) - 1 : Tail(q)[j] = q[j + 1]
    BY <1>3
  <2>4. ASSUME Tail(q) = <<>> PROVE Last(q) = Head(q)
    <3>0. Len(<<>>) = 0
      OBVIOUS
    <3>1. Len(Tail(q)) = 0
      BY <2>4, <3>0, Zenon
    <3> DEFINE n == Len(q)
               t == Len(Tail(q))
    <3>2a. n \in Nat \ {0} /\ t = n - 1 /\ t = 0
      BY <2>1, <2>3, <3>1
    <3> HIDE DEF n, t
    <3>2b. n = 1
      BY <3>2a
    <3>2. Len(q) = 1
      BY <3>2b DEF n
    <3> QED BY <2>1, <3>2 DEF Last
  <2>5. ASSUME Tail(q) # <<>> PROVE Last(Tail(q)) = Last(q)
    <3>1. Len(Tail(q)) # 0
      BY <2>3, <2>5
    <3>2. Len(q) - 1 \in 1 .. Len(q) - 1
      BY <2>1, <2>3, <3>1
    <3>3. Tail(q)[Len(q) - 1] = q[Len(q)]
      BY <2>1, <2>3, <3>2
    <3> QED BY <2>3, <3>3 DEF Last
  <2> QED BY <2>1, <2>2, <2>4, <2>5
<1> QED BY <1>1, <1>2, <1>3

(* Time scales are numbers, and products of them and of ticks are.             *)
LEMMA ScalesAreNumbers ==
    ASSUME NEW d \in Dates
    PROVE  d.scale \in Nat /\ Instant(d) \in Int
<1>1. /\ d.time \in Nat /\ d.day \in Nat /\ d.month \in 0..11 /\ d.year \in Nat
      /\ d.scale \in Scales \cup {0}
  BY DEF Dates
<1>2. Days(d) \in Nat /\ Instant(d) = 24000 * Days(d) + d.time
  BY <1>1, InstantsAreDays
<1>3. Instant(d) \in Int
  BY <1>1, <1>2
<1>4. Scales \cup {0} \subseteq Nat
  BY CalendarAssumption
<1> DEFINE scale == d.scale
<1>5. scale \in Scales \cup {0}
  BY <1>1
<1> HIDE DEF scale
<1>6. scale \in Nat
  BY <1>4, <1>5
<1> QED BY <1>3, <1>6 DEF scale

(* Ticks of one length.                                                        *)
LEMMA TicksAdd ==
    ASSUME NEW s \in Int, NEW k \in Int
    PROVE  /\ s * k \in Int /\ s * 0 = 0 /\ s * 1 = s
           /\ s * (k + 1) = s * k + s
           /\ s * (k - 1) = s * k - s
OBVIOUS

(* The facts about the server that the steps below need.                       *)
LEMMA ServerFacts ==
    ASSUME ClockInv
    PROVE  /\ now \in Nat /\ now >= 1 /\ dateTick \in Nat /\ dateTick <= now
           /\ Elapsed \in {0, 1}
           /\ dateTime \in Dates /\ dateTime.scale \in Nat /\ Instant(dateTime) \in Int
           /\ ServerInstant \in Int
<1>1. /\ now \in Nat /\ StartTick \in Nat \ {0} /\ StartTick <= now
      /\ dateTick \in {0} \cup (StartTick .. now) /\ dateTime \in Dates
  BY CalendarAssumption DEF ClockInv, CalendarInv
<1>2. now >= 1 /\ dateTick \in Nat /\ dateTick <= now
  BY <1>1
<1>3. Elapsed \in {0, 1}
  BY <1>1, <1>2 DEF Elapsed, ClockInv
<1>4. dateTime.scale \in Nat /\ Instant(dateTime) \in Int
  BY <1>1, ScalesAreNumbers
<1>5. ServerInstant \in Int
  <2> DEFINE s == dateTime.scale
             i == Instant(dateTime)
             e == Elapsed
  <2>1. s \in Int /\ i \in Int /\ e \in Int
    BY <1>3, <1>4
  <2> HIDE DEF s, i, e
  <2>2. i + s * e \in Int
    BY <2>1
  <2> QED BY <2>2 DEF s, i, e, ServerInstant
<1> QED BY <1>1, <1>2, <1>3, <1>4, <1>5

(* A client to which nothing happens, while the server does not change.        *)
LEMMA StaysClocked ==
    ASSUME NEW c \in Clients, Clocked(c),
           ServerInstant' = ServerInstant, dateTime'.scale = dateTime.scale,
           now' = now, syncCalendar' = syncCalendar,
           viewer'[c].joined => viewer[c].joined, viewer'[c].locked = viewer[c].locked,
           viewer'[c].lastTick = viewer[c].lastTick, viewer'[c].online = viewer[c].online,
           timeQueue'[c] = timeQueue[c],
           c \notin misled' => c \notin misled
    PROVE  Clocked(c)'
<1>1. SUFFICES ASSUME viewer'[c].joined, c \notin misled'
               PROVE  /\ viewer'[c].lastTick \in IF viewer'[c].locked THEN {0, now' - 1, now'} ELSE {0}
                      /\ Timely(timeQueue[c])'
                      /\ timeQueue'[c] # <<>> => CountedOn(Last(timeQueue[c]))'
                      /\ timeQueue'[c] = <<>> => Near(c)'
  BY DEF Clocked
<1>2. /\ viewer[c].lastTick \in IF viewer[c].locked THEN {0, now - 1, now} ELSE {0}
      /\ Timely(timeQueue[c])
      /\ timeQueue[c] # <<>> => CountedOn(Last(timeQueue[c]))
      /\ timeQueue[c] = <<>> => Near(c)
  BY <1>1 DEF Clocked
<1>3. Timely(timeQueue[c])'
  BY <1>2 DEF Timely
<1>4. timeQueue'[c] # <<>> => CountedOn(Last(timeQueue[c]))'
  BY <1>2 DEF CountedOn, Last
<1>5. timeQueue'[c] = <<>> => Near(c)'
  <2>1. Counted(c)' = Counted(c)
    BY DEF Counted
  <2>2. ClientInstant(c)' = ClientInstant(c)
    BY <2>1 DEF ClientInstant, Instant, DaysBefore
  <2> QED BY <1>2, <2>2 DEF Near
<1> QED BY <1>1, <1>2, <1>3, <1>4, <1>5

(* An update keeps what the server shows, since it is what it has counted on.  *)
LEMMA ServerUpdateKeepsClocks ==
    ASSUME ClockInv, ServerUpdate
    PROVE  /\ ServerInstant' = ServerInstant /\ dateTime'.scale = dateTime.scale
           /\ dateTick' = now /\ now' = now
<1>1. /\ dateTick' = now /\ now' = now
      /\ dateTime' = UpdatedBy(dateTime, Elapsed)
  BY DEF ServerUpdate, Elapsed
<1>2. /\ now \in Nat /\ Elapsed \in {0, 1} /\ dateTime \in Dates /\ dateTime.scale \in Nat
      /\ Instant(dateTime) \in Int
  BY ServerFacts
<1>3. Instant(dateTime') = Instant(dateTime) + Elapsed * dateTime.scale
  BY <1>1, <1>2, CarryKeepsDates
<1>4. dateTime'.scale = dateTime.scale
  BY <1>1 DEF UpdatedBy
<1>5. Elapsed' = 0
  BY <1>1, <1>2 DEF Elapsed
<1>6. ServerInstant' = Instant(dateTime') + dateTime'.scale * 0
  BY <1>5 DEF ServerInstant, Instant, DaysBefore
<1>7. Elapsed * dateTime.scale = dateTime.scale * Elapsed
  BY <1>2
<1>8. dateTime.scale * 0 = 0 /\ Instant(dateTime') \in Int
  <2>1. dateTime.scale * Elapsed \in Int
    BY <1>2
  <2> QED BY <1>2, <1>3, <1>7, <2>1
<1> QED BY <1>1, <1>3, <1>4, <1>6, <1>7, <1>8 DEF ServerInstant

(* When time passes, the server and every client count on by one tick.         *)
LEMMA PassesKeepsClocks ==
    ASSUME ClockInv, Passes
    PROVE  /\ ServerInstant' = ServerInstant + dateTime.scale
           /\ \A c \in Clients : Clocked(c)'
<1>1. /\ dateTick = now /\ now' = now + 1
      /\ \A c \in Clients :
            /\ viewer[c].locked => viewer[c].lastTick = now
            /\ timeQueue[c] # <<>> => now - Head(timeQueue[c]).sent < MaxLatency
      /\ UNCHANGED <<dateTime, dateTick, syncCalendar, viewer, timeQueue, misled>>
  BY DEF Passes
<1>2. /\ now \in Nat /\ now >= 1 /\ dateTime.scale \in Nat /\ Instant(dateTime) \in Int
      /\ ServerInstant \in Int
  BY ServerFacts
<1> DEFINE s == dateTime.scale
           i == Instant(dateTime)
<1>3. ServerInstant' = ServerInstant + s
  <2>1. Elapsed = 0 /\ Elapsed' = 1
    BY <1>1, <1>2 DEF Elapsed
  <2>2. ServerInstant = i + s * 0
    BY <2>1 DEF ServerInstant
  <2>3. ServerInstant' = i + s * 1
    BY <1>1, <2>1 DEF ServerInstant, Instant, DaysBefore
  <2>4. s \in Int /\ i \in Int
    BY <1>2
  <2> HIDE DEF s, i
  <2> QED BY <2>2, <2>3, <2>4
<1>4. ASSUME NEW c \in Clients PROVE Clocked(c)'
  <2> DEFINE q == timeQueue[c]
  <2>0. q \in Seq([date : Dates, sent : Nat]) /\ viewer[c] \in Viewers
    BY DEF ClockInv, CalendarInv
  <2>1. SUFFICES ASSUME viewer[c].joined, c \notin misled
                 PROVE  /\ viewer[c].lastTick \in IF viewer[c].locked THEN {0, now' - 1, now'} ELSE {0}
                        /\ Timely(timeQueue[c])'
                        /\ timeQueue[c] # <<>> => CountedOn(Last(timeQueue[c]))'
                        /\ timeQueue[c] = <<>> => Near(c)'
    BY <1>1 DEF Clocked
  <2>2. /\ viewer[c].lastTick \in IF viewer[c].locked THEN {0, now - 1, now} ELSE {0}
        /\ Timely(q)
        /\ q # <<>> => CountedOn(Last(q))
        /\ q = <<>> => Near(c)
    BY <2>1 DEF ClockInv, Clocked
  <2>3. viewer[c].lastTick \in IF viewer[c].locked THEN {0, now' - 1, now'} ELSE {0}
    BY <1>1, <1>2, <2>2
  <2>4. Timely(timeQueue[c])'
    <3>1. \A j \in DOMAIN q : q[j].sent \in Nat
      <4>1. \A j \in DOMAIN q : q[j] \in [date : Dates, sent : Nat]
        BY <2>0, QueueFacts
      <4> QED BY <4>1
    <3>2. ASSUME NEW j \in DOMAIN q PROVE now' - q[j].sent \in 0..MaxLatency
      <4>1. q # <<>> /\ Head(q) = q[1] /\ 1 \in DOMAIN q /\ 1 <= j
        BY <2>0, <3>2, QueueFacts
      <4>2. now - q[1].sent < MaxLatency /\ q[1].sent <= q[j].sent /\ now - q[j].sent \in 0..MaxLatency
        BY <1>1, <2>2, <4>1 DEF Timely
      <4> DEFINE a == q[1].sent
                 b == q[j].sent
      <4>3. a \in Nat /\ b \in Nat
        BY <3>1, <4>1
      <4>4. now - a < MaxLatency /\ a <= b /\ now - b \in 0..MaxLatency
        BY <4>2
      <4> HIDE DEF a, b
      <4>5. now' - b \in 0..MaxLatency
        BY <1>1, <1>2, <4>3, <4>4, CalendarAssumption
      <4> QED BY <4>5 DEF b
    <3>3. timeQueue'[c] = q
      BY <1>1
    <3>4. \A h, j \in DOMAIN q : h <= j => q[h].sent <= q[j].sent
      BY <2>2 DEF Timely
    <3> QED BY <3>2, <3>3, <3>4 DEF Timely
  <2>5. ASSUME q # <<>> PROVE CountedOn(Last(timeQueue[c]))'
    <3> DEFINE m == Last(q)
    <3>1. PICK k \in {now - m.sent, now - m.sent + 1} :
             ServerInstant - Instant(m.date) = s * k
      BY <2>2, <2>5 DEF CountedOn
    <3>2. m \in [date : Dates, sent : Nat]
      BY <2>0, <2>5, QueueFacts
    <3>3. m.sent \in Nat /\ Instant(m.date) \in Int
      BY <3>2, ScalesAreNumbers
    <3>4. k \in Int
      BY <1>2, <3>3
    <3>5. ServerInstant' - Instant(m.date) = s * (k + 1)
      <4> DEFINE x == Instant(m.date)
      <4>1. x \in Int /\ s \in Int /\ ServerInstant - x = s * k
        BY <1>2, <3>1, <3>3
      <4> HIDE DEF x, s, m
      <4>2. s * k \in Int /\ s * (k + 1) = s * k + s
        BY <3>4, <4>1, TicksAdd
      <4>3. ServerInstant' - x = s * (k + 1)
        BY <1>2, <1>3, <4>1, <4>2
      <4> QED BY <4>3 DEF x
    <3>6. k + 1 \in {now' - m.sent, now' - m.sent + 1}
      BY <1>1, <1>2, <3>3
    <3>7. m.date.scale = s
      BY <2>2, <2>5 DEF CountedOn
    <3>8. timeQueue'[c] = q /\ dateTime'.scale = s
      BY <1>1
    <3> HIDE DEF m, s, q
    <3>9. Last(timeQueue[c])' = m
      BY <3>8 DEF Last, m
    <3>10. /\ m.date.scale = dateTime'.scale
           /\ ServerInstant' - Instant(m.date) = dateTime'.scale * (k + 1)
      BY <3>5, <3>7, <3>8
    <3> QED BY <3>6, <3>9, <3>10 DEF CountedOn, Instant, DaysBefore
  <2>6. ASSUME q = <<>> PROVE Near(c)'
    <3>1. Lagging(ServerInstant - ClientInstant(c), s, syncCalendar)
      BY <2>2, <2>6 DEF Near
    <3>2. viewer[c].locked /\ viewer[c].online.scale = s /\ viewer[c].lastTick = now
      BY <1>1, <2>2, <2>6 DEF Near
    <3> DEFINE x == Instant(viewer[c].online)
    <3>3. x \in Int /\ s \in Int
      BY <1>2, <2>0, ScalesAreNumbers DEF Viewers
    <3>4. ClientInstant(c) = x /\ ClientInstant(c)' = x + s
      <4>1. Counted(c) = 0 /\ Counted(c)' = 1
        BY <1>1, <1>2, <3>2 DEF Counted
      <4>2. ClientInstant(c) = x + s * 0
        BY <4>1 DEF ClientInstant
      <4>3. ClientInstant(c)' = x + s * 1
        BY <1>1, <4>1 DEF ClientInstant, Instant, DaysBefore
      <4> HIDE DEF x, s
      <4> QED BY <3>3, <4>2, <4>3
    <3>5. ServerInstant' - ClientInstant(c)' = ServerInstant - ClientInstant(c)
      <4> HIDE DEF x, s
      <4> QED BY <1>2, <1>3, <3>3, <3>4
    <3>6. Lagging(ServerInstant' - ClientInstant(c)', dateTime'.scale, syncCalendar')
      BY <1>1, <3>1, <3>5
    <3>7. viewer'[c].locked /\ viewer'[c].online.scale = dateTime'.scale
      BY <1>1, <3>2
    <3> HIDE DEF x, s
    <3> QED BY <3>6, <3>7 DEF Near, Lagging
  <2> QED BY <2>3, <2>4, <2>5, <2>6
<1> QED BY <1>3, <1>4

(* A message tells the recipient the date of the server at this tick.          *)
LEMMA SendsKeepClocks ==
    ASSUME ClockInv, NEW R, SendTo(R), dateTime' \in Dates,
           UNCHANGED <<now, dateTick>>,
           NEW c \in R \cap Clients,
           timeQueue[c] = <<>> \/ Timely(timeQueue[c]),
           viewer'[c].lastTick \in IF viewer'[c].locked THEN {0, now - 1, now} ELSE {0}
    PROVE  Clocked(c)'
<1> DEFINE q == timeQueue[c]
           m == [date |-> dateTime', sent |-> now]
           p == timeQueue'[c]
           S == [date : Dates, sent : Nat]
<1>1. /\ now \in Nat /\ dateTick \in Nat /\ Elapsed \in {0, 1} /\ q \in Seq(S)
  BY ServerFacts DEF ClockInv, CalendarInv
<1>2. m \in S /\ m.sent = now /\ m.date = dateTime'
  BY <1>1
<1>3. p = Append(q, m)
  BY DEF SendTo, Posted, Message
<1>4. p # <<>> /\ Last(p) = m
  <2> HIDE DEF m, q, p, S
  <2> QED BY <1>1, <1>2, <1>3, QueueFacts
<1>5. Timely(timeQueue[c])'
  <2>1. Len(q) \in Nat /\ DOMAIN p = 1 .. Len(q) + 1 /\ p[Len(q) + 1] = m
        /\ \A i \in 1 .. Len(q) : p[i] = q[i]
    <3> HIDE DEF m, q, p, S
    <3> QED BY <1>1, <1>2, <1>3
  <2>2. DOMAIN q = 1 .. Len(q) /\ \A i \in DOMAIN q : q[i].sent \in Nat
    <3>1. \A j \in DOMAIN q : q[j] \in S
      BY <1>1, QueueFacts
    <3> QED BY <1>1, <3>1
  <2>3. /\ \A i \in DOMAIN q : now - q[i].sent \in 0..MaxLatency
        /\ \A i, j \in DOMAIN q : i <= j => q[i].sent <= q[j].sent
    BY <1>1 DEF Timely
  <2> DEFINE n == Len(q)
             sent(i) == p[i].sent
  <2>4. /\ n \in Nat /\ sent(n + 1) = now
        /\ \A i \in 1..n : sent(i) \in Nat /\ now - sent(i) \in 0..MaxLatency
        /\ \A i, j \in 1..n : i <= j => sent(i) <= sent(j)
    BY <1>2, <2>1, <2>2, <2>3
  <2> HIDE DEF n, sent
  <2>5. /\ \A i \in 1..(n + 1) : now - sent(i) \in 0..MaxLatency
        /\ \A i, j \in 1..(n + 1) : i <= j => sent(i) <= sent(j)
    <3>1. MaxLatency \in Nat
      BY CalendarAssumption
    <3>2. \A i \in 1..(n + 1) : i \in 1..n \/ i = n + 1
      BY <2>4
    <3>3. \A i \in 1..n : sent(i) <= now
      BY <1>1, <2>4, <3>1
    <3>4. ASSUME NEW i \in 1..(n + 1) PROVE now - sent(i) \in 0..MaxLatency
      <4>1. CASE i \in 1..n
        BY <2>4, <4>1
      <4>2. CASE i = n + 1
        BY <1>1, <2>4, <3>1, <4>2
      <4> QED BY <3>2, <4>1, <4>2
    <3>5. ASSUME NEW i \in 1..(n + 1), NEW j \in 1..(n + 1), i <= j PROVE sent(i) <= sent(j)
      <4>1. CASE j \in 1..n
        <5>1. i \in 1..n
          BY <2>4, <3>5, <4>1
        <5> QED BY <2>4, <3>5, <4>1, <5>1
      <4>2. CASE j = n + 1
        <5>1. sent(j) = now
          BY <2>4, <4>2
        <5>2. sent(i) <= now
          <6>1. CASE i \in 1..n
            BY <3>3, <6>1
          <6>2. CASE i = n + 1
            BY <1>1, <2>4, <6>2
          <6> QED BY <3>2, <6>1, <6>2
        <5> QED BY <5>1, <5>2
      <4> QED BY <3>2, <4>1, <4>2
    <3> QED BY <3>4, <3>5
  <2>6. /\ \A i \in DOMAIN p : now - p[i].sent \in 0..MaxLatency
        /\ \A i, j \in DOMAIN p : i <= j => p[i].sent <= p[j].sent
    BY <2>1, <2>5 DEF sent, n
  <2> HIDE DEF p
  <2>7. now' = now /\ timeQueue'[c] = p
    BY DEF p
  <2> QED BY <2>6, <2>7 DEF Timely
<1>6. CountedOn(Last(timeQueue[c]))'
  <2>1. Elapsed' = Elapsed
    BY DEF Elapsed
  <2>2. ServerInstant' = Instant(dateTime') + dateTime'.scale * Elapsed
    BY <2>1 DEF ServerInstant, Instant, DaysBefore
  <2>3. Instant(dateTime') \in Int /\ dateTime'.scale \in Nat
    BY ScalesAreNumbers
  <2>4. ServerInstant' - Instant(m.date) = dateTime'.scale * Elapsed
    <3> DEFINE s == dateTime'.scale
               i == Instant(dateTime')
    <3>1. s \in Int /\ i \in Int /\ s * Elapsed \in Int /\ ServerInstant' = i + s * Elapsed
      BY <1>1, <2>2, <2>3
    <3> HIDE DEF s, i
    <3>2. ServerInstant' - i = s * Elapsed
      BY <1>1, <3>1
    <3> QED BY <1>2, <3>2 DEF s, i
  <2>5. Elapsed \in {now' - m.sent, now' - m.sent + 1}
    BY <1>1, <1>2
  <2>6. m.date.scale = dateTime'.scale
    BY <1>2
  <2> HIDE DEF m
  <2>7. Last(timeQueue[c])' = m
    BY <1>4 DEF Last
  <2> QED BY <2>4, <2>5, <2>6, <2>7 DEF CountedOn, Instant, DaysBefore
<1> QED BY <1>4, <1>5, <1>6 DEF Clocked

(* What a client shows after it has taken the last message of its queue.       *)
LEMMA ReadingKeepsClocks ==
    ASSUME ClockInv, NEW c \in Clients, OnTimeUpdate(c)
    PROVE  Clocked(c)'
<1> DEFINE q == timeQueue[c]
           m == Head(q)
           S == [date : Dates, sent : Nat]
           s == dateTime.scale
<1>1. /\ q \in Seq(S) /\ q # <<>> /\ viewer[c] \in Viewers /\ viewer \in [Clients -> Viewers]
      /\ timeQueue \in [Clients -> Seq(S)] /\ viewer[c].joined
  BY DEF OnTimeUpdate, ClockInv, CalendarInv
<1>2. /\ viewer' = [viewer EXCEPT ![c].locked = TRUE,
                                  ![c].online = IF syncCalendar THEN m.date
                                                ELSE [@ EXCEPT !.time = m.date.time, !.scale = m.date.scale]]
      /\ timeQueue' = Read(timeQueue, c)
      /\ UNCHANGED <<now, dateTime, dateTick, syncCalendar, misled>>
  BY DEF OnTimeUpdate
<1> DEFINE online == IF syncCalendar THEN m.date
                     ELSE [viewer[c].online EXCEPT !.time = m.date.time, !.scale = m.date.scale]
<1>3. /\ viewer'[c].joined /\ viewer'[c].locked /\ viewer'[c].lastTick = viewer[c].lastTick
      /\ viewer'[c].online = online
      /\ timeQueue'[c] = Tail(q)
  BY <1>1, <1>2 DEF Read, Viewers
<1>4. /\ now \in Nat /\ Elapsed \in {0, 1} /\ s \in Nat /\ ServerInstant \in Int
      /\ MaxLatency \in Nat
  BY ServerFacts, CalendarAssumption
<1>5. ServerInstant' = ServerInstant
  BY <1>2 DEF ServerInstant, Elapsed, Instant, DaysBefore
<1> SUFFICES ASSUME c \notin misled PROVE Clocked(c)'
  BY <1>2 DEF Clocked
<1>6. /\ viewer[c].lastTick \in IF viewer[c].locked THEN {0, now - 1, now} ELSE {0}
      /\ Timely(q) /\ CountedOn(Last(q))
  BY <1>1 DEF ClockInv, Clocked
<1>7. viewer'[c].lastTick \in {0, now - 1, now}
  BY <1>3, <1>6
<1>8. Timely(timeQueue[c])'
  <2>1. /\ Len(q) \in Nat /\ DOMAIN Tail(q) = 1 .. Len(q) - 1 /\ DOMAIN q = 1 .. Len(q)
        /\ \A i \in 1 .. Len(q) - 1 : Tail(q)[i] = q[i + 1]
    <3> HIDE DEF q, S
    <3> QED BY <1>1
  <2> DEFINE n == Len(q)
             p == Tail(q)
  <2>2. /\ \A i \in DOMAIN p : i + 1 \in DOMAIN q /\ p[i] = q[i + 1] /\ i \in Int
    <3> HIDE DEF n, p, q
    <3> QED BY <2>1 DEF n, p
  <2>3. /\ \A i \in DOMAIN q : now - q[i].sent \in 0..MaxLatency
        /\ \A i, j \in DOMAIN q : i <= j => q[i].sent <= q[j].sent
    BY <1>6 DEF Timely
  <2> HIDE DEF p, q
  <2>4. /\ \A i \in DOMAIN p : now - p[i].sent \in 0..MaxLatency
        /\ \A i, j \in DOMAIN p : i <= j => p[i].sent <= p[j].sent
    BY <2>2, <2>3
  <2> QED BY <1>2, <1>3, <2>4 DEF Timely, p
<1>9. ASSUME Tail(q) # <<>> PROVE CountedOn(Last(timeQueue[c]))'
  <2>1. Last(Tail(q)) = Last(q)
    BY <1>1, <1>9, QueueFacts
  <2> DEFINE last == Last(q)
  <2>2. Last(timeQueue[c])' = last
    BY <1>3, <2>1 DEF Last
  <2>3. /\ last.date.scale = dateTime.scale
        /\ \E k \in {now - last.sent, now - last.sent + 1} :
              ServerInstant - Instant(last.date) = dateTime.scale * k
    BY <1>6 DEF CountedOn
  <2> HIDE DEF last
  <2> QED BY <1>2, <1>5, <2>2, <2>3 DEF CountedOn, Instant, DaysBefore
<1>10. ASSUME Tail(q) = <<>> PROVE Near(c)'
  <2>1. Last(q) = m /\ m \in S
    <3>1. Last(q) = m
      BY <1>1, <1>10, QueueFacts
    <3>2. Last(q) \in S
      <4> HIDE DEF q, S
      <4> QED BY <1>1, QueueFacts
    <3> QED BY <3>1, <3>2
  <2>2. PICK k \in {now - m.sent, now - m.sent + 1} :
           ServerInstant - Instant(m.date) = s * k
    BY <1>6, <2>1 DEF CountedOn
  <2>3. m.date.scale = s /\ m.date \in Dates /\ m.sent \in Nat
    BY <1>6, <2>1 DEF CountedOn
  <2>4. now - m.sent \in 0 .. MaxLatency
    <3>1. 1 \in DOMAIN q /\ m = q[1]
      BY <1>1, QueueFacts
    <3> QED BY <1>6, <3>1 DEF Timely
  <2>5. k \in 0 .. (MaxLatency + 1)
    <3> HIDE DEF m
    <3> QED BY <1>4, <2>3, <2>4
  <2> DEFINE y == viewer[c].lastTick
             e == IF y = 0 THEN 0 ELSE now - y
  <2>6. e \in {0, 1} /\ Counted(c)' = e
    <3>1. y \in Nat /\ y \in {0, now - 1, now}
      BY <1>1, <1>3, <1>7 DEF Viewers
    <3>2. Counted(c)' = e
      BY <1>2, <1>3 DEF Counted
    <3> HIDE DEF y
    <3>3. e \in {0, 1}
      BY <1>4, <3>1
    <3> QED BY <3>2, <3>3
  <2>7. online.scale = s
    BY <1>1, <2>3 DEF Viewers, Dates
  <2>8. PICK z \in Int : /\ Instant(online) = Instant(m.date) - 24000 * z
                         /\ syncCalendar => z = 0
    <3>1. CASE syncCalendar
      <4>1. online = m.date
        BY <3>1
      <4>2. Instant(m.date) \in Int
        BY <2>3, ScalesAreNumbers
      <4> HIDE DEF m, online
      <4>3. Instant(online) = Instant(m.date) - 24000 * 0
        BY <4>1, <4>2
      <4> QED BY <4>3
    <3>2. CASE ~syncCalendar
      <4> DEFINE d == viewer[c].online
      <4>1. d \in Dates
        BY <1>1 DEF Viewers
      <4>2. online = [d EXCEPT !.time = m.date.time, !.scale = m.date.scale]
        BY <3>2
      <4>3. /\ m.date.year \in Nat /\ m.date.month \in 0..11 /\ m.date.day \in Nat
            /\ online.year \in Nat /\ online.month \in 0..11 /\ online.day \in Nat
            /\ m.date.time \in Nat /\ online.time = m.date.time
        BY <2>3, <4>1, <4>2 DEF Dates
      <4> DEFINE a == m.date
      <4> HIDE DEF online, m, d, a
      <4>4. /\ Days(a) \in Nat /\ Instant(a) = 24000 * Days(a) + a.time
            /\ Days(online) \in Nat /\ Instant(online) = 24000 * Days(online) + online.time
        BY <4>3, InstantsAreDays DEF a
      <4>5. Instant(online) = Instant(a) - 24000 * (Days(a) - Days(online))
        BY <4>3, <4>4 DEF a
      <4>6. Days(a) - Days(online) \in Int
        BY <4>4
      <4> QED BY <3>2, <4>5, <4>6 DEF a
    <3> QED BY <3>1, <3>2
  <2>9. ServerInstant' - ClientInstant(c)' = s * (k - e) + 24000 * z
    <3>1. ClientInstant(c)' = Instant(online) + s * e
      <4>1. ClientInstant(c)' = Instant(viewer'[c].online) + dateTime'.scale * Counted(c)'
        BY DEF ClientInstant, Instant, DaysBefore
      <4> HIDE DEF online, e
      <4> QED BY <1>2, <1>3, <2>6, <4>1
    <3> DEFINE x == Instant(m.date)
               w == Instant(online)
    <3>2. x \in Int /\ w = x - 24000 * z /\ s \in Int /\ k \in Int /\ ServerInstant - x = s * k
      BY <1>4, <2>2, <2>3, <2>5, <2>8, ScalesAreNumbers
    <3>3. ServerInstant' - ClientInstant(c)' = ServerInstant - (w + s * e)
      BY <1>5, <3>1
    <3> HIDE DEF x, w, s, e, m, online
    <3>4. s * (k - e) = s * k - s * e /\ s * k \in Int /\ s * e \in Int
      BY <2>6, <3>2, TicksAdd
    <3> QED BY <1>4, <2>6, <3>2, <3>3, <3>4
  <2>10. k - e \in -1 .. (MaxLatency + 1)
    <3> HIDE DEF e
    <3> QED BY <1>4, <2>5, <2>6
  <2>11. Lagging(ServerInstant' - ClientInstant(c)', s, syncCalendar)
    <3> DEFINE j == k - e
    <3>1. j \in -1 .. (MaxLatency + 1) /\ ServerInstant' - ClientInstant(c)' = s * j + 24000 * z
      BY <2>9, <2>10
    <3> HIDE DEF j, s
    <3> QED BY <2>8, <3>1 DEF Lagging
  <2> HIDE DEF s, e, m, online
  <2>12. /\ viewer'[c].locked /\ viewer'[c].online.scale = dateTime'.scale
         /\ Lagging(ServerInstant' - ClientInstant(c)', dateTime'.scale, syncCalendar')
    BY <1>2, <1>3, <2>7, <2>11 DEF s
  <2> QED BY <2>12 DEF Near, Lagging
<1> QED BY <1>2, <1>3, <1>7, <1>8, <1>9, <1>10 DEF Clocked

(* An update of a client keeps what it shows, counted on.                      *)
LEMMA HandleUpdateKeepsClocks ==
    ASSUME ClockInv, NEW c \in Clients, HandleUpdate(c)
    PROVE  Clocked(c)'
<1> DEFINE last == viewer[c].lastTick
           n == IF last = 0 THEN 0 ELSE now - last
           old == viewer[c].online
           new == UpdatedBy(old, n)
           s == dateTime.scale
<1>1. /\ viewer \in [Clients -> Viewers] /\ viewer[c] \in Viewers
      /\ last \in Nat /\ old \in Dates /\ last <= now
  BY DEF ClockInv, CalendarInv, Viewers
<1>2. /\ viewer[c].locked
      /\ viewer' = [viewer EXCEPT ![c].lastTick = now, ![c].online = UpdatedBy(@, n)]
      /\ UNCHANGED <<now, dateTime, dateTick, syncCalendar, timeQueue, misled>>
  BY DEF HandleUpdate
<1>3. /\ viewer'[c].joined = viewer[c].joined /\ viewer'[c].locked
      /\ viewer'[c].lastTick = now /\ viewer'[c].online = new
  BY <1>1, <1>2 DEF Viewers
<1>4. /\ now \in Nat /\ now >= 1 /\ s \in Nat /\ ServerInstant \in Int /\ n \in Nat
  <2>1. now \in Nat /\ now >= 1 /\ s \in Nat /\ ServerInstant \in Int
    BY ServerFacts
  <2> HIDE DEF last
  <2>2. n \in Nat
    BY <1>1, <2>1
  <2> QED BY <2>1, <2>2
<1>5. ServerInstant' = ServerInstant
  BY <1>2 DEF ServerInstant, Elapsed, Instant, DaysBefore
<1> SUFFICES ASSUME viewer[c].joined, c \notin misled PROVE Clocked(c)'
  BY <1>2, <1>3 DEF Clocked
<1>6. /\ Timely(timeQueue[c])
      /\ timeQueue[c] # <<>> => CountedOn(Last(timeQueue[c]))
      /\ timeQueue[c] = <<>> => Near(c)
  BY DEF ClockInv, Clocked
<1>7. viewer'[c].lastTick \in {0, now' - 1, now'}
  BY <1>2, <1>3
<1>8. Timely(timeQueue[c])'
  BY <1>2, <1>6 DEF Timely
<1>9. ASSUME timeQueue[c] # <<>> PROVE CountedOn(Last(timeQueue[c]))'
  <2> DEFINE m == Last(timeQueue[c])
  <2>1. /\ m.date.scale = dateTime.scale
        /\ \E k \in {now - m.sent, now - m.sent + 1} :
              ServerInstant - Instant(m.date) = dateTime.scale * k
    BY <1>6, <1>9 DEF CountedOn
  <2>2. Last(timeQueue[c])' = m
    BY <1>2 DEF Last
  <2> HIDE DEF m
  <2> QED BY <1>2, <1>5, <2>1, <2>2 DEF CountedOn, Instant, DaysBefore
<1>10. ASSUME timeQueue[c] = <<>> PROVE Near(c)'
  <2>1. /\ old.scale = s
        /\ Lagging(ServerInstant - ClientInstant(c), s, syncCalendar)
    BY <1>6, <1>10 DEF Near
  <2>2. ClientInstant(c) = Instant(old) + s * n
    BY DEF ClientInstant, Counted
  <2>3. ClientInstant(c)' = Instant(new) + s * 0
    <3>1. Counted(c)' = 0
      BY <1>2, <1>3, <1>4 DEF Counted
    <3>2. ClientInstant(c)' = Instant(viewer'[c].online) + dateTime'.scale * Counted(c)'
      BY DEF ClientInstant, Instant, DaysBefore
    <3> HIDE DEF new
    <3> QED BY <1>2, <1>3, <3>1, <3>2
  <2>4. Instant(new) = Instant(old) + n * s /\ new.scale = s
    <3>1. new.scale = old.scale
      BY DEF UpdatedBy
    <3> HIDE DEF n, s, old
    <3>2. Instant(new) = Instant(old) + n * old.scale
      BY <1>1, <1>4, CarryKeepsDates
    <3> QED BY <2>1, <3>1, <3>2
  <2>5. ClientInstant(c)' = ClientInstant(c)
    <3> DEFINE x == Instant(old)
               y == Instant(new)
    <3>1. x \in Int /\ s \in Int /\ n \in Int
      BY <1>1, <1>4, ScalesAreNumbers
    <3> HIDE DEF x, y, s, n, old, new
    <3>2. s * 0 = 0 /\ n * s = s * n /\ s * n \in Int
      BY <3>1
    <3>3. y = x + s * n
      BY <2>4, <3>2 DEF x, y
    <3> QED BY <2>2, <2>3, <3>1, <3>2, <3>3 DEF x, y
  <2> HIDE DEF s, n, new, old
  <2>6. /\ viewer'[c].locked /\ viewer'[c].online.scale = dateTime'.scale
        /\ Lagging(ServerInstant' - ClientInstant(c)', dateTime'.scale, syncCalendar')
    BY <1>2, <1>3, <1>5, <2>1, <2>4, <2>5 DEF s
  <2> QED BY <2>6 DEF Near, Lagging
<1> QED BY <1>2, <1>3, <1>7, <1>8, <1>9, <1>10 DEF Clocked

(* Nobody has a clock before there are players.                                *)
LEMMA ClockInitInv == CalendarInit => ClockInv
<1> SUFFICES ASSUME CalendarInit PROVE ClockInv
  OBVIOUS
<1>1. CalendarInv
  BY CalendarInitInv
<1>2. dateTick = 0 /\ now = StartTick
  BY DEF CalendarInit
<1>3. \A c \in Clients : Clocked(c)
  BY DEF CalendarInit, Clocked
<1> QED BY <1>1, <1>2, <1>3 DEF ClockInv

(* The operator's commands reach every client that is not misled by them.      *)
LEMMA OperateKeepsClocks ==
    ASSUME ClockInv, Operate, CalendarInv'
    PROVE  \A c \in Clients : Clocked(c)'
<1>1. dateTime' \in Dates /\ UNCHANGED <<now, dateTick, syncCalendar, viewer>>
  BY DEF Operate, SetTime, SetDate, SetTimeScale, CalendarInv
<1>2. PICK R : /\ R \subseteq Players /\ SendTo(R)
               /\ misled' = misled \cup (Players \ R)
  <2>1. Loaded \subseteq Players
    BY DEF Loaded
  <2>2. ASSUME NEW t \in Scales, SetTimeScale(t)
        PROVE  SendTo(Players) /\ misled' = misled \cup (Players \ Players)
    BY <2>2 DEF SetTimeScale
  <2> QED BY <2>1, <2>2 DEF Operate, SetTime, SetDate
<1>3. ASSUME NEW c \in Clients PROVE Clocked(c)'
  <2>1. SUFFICES ASSUME viewer[c].joined, c \notin misled' PROVE Clocked(c)'
    BY <1>1 DEF Clocked
  <2>2. c \in R \cap Clients /\ c \notin misled
    BY <1>2, <2>1 DEF Players
  <2>3. /\ viewer[c].lastTick \in IF viewer[c].locked THEN {0, now - 1, now} ELSE {0}
        /\ Timely(timeQueue[c])
    BY <2>1, <2>2 DEF ClockInv, Clocked
  <2>4. viewer'[c].lastTick \in IF viewer'[c].locked THEN {0, now - 1, now} ELSE {0}
    BY <1>1, <2>3
  <2> QED BY <1>1, <1>2, <2>2, <2>3, <2>4, SendsKeepClocks
<1> QED BY <1>3

(* A player who joins is told the date, and so is everyone if it changes.      *)
LEMMA JoinKeepsClocks ==
    ASSUME ClockInv, NEW c \in Clients, NEW d \in PlayerDates, OnPlayerJoin(c, d), CalendarInv'
    PROVE  \A b \in Clients : Clocked(b)'
<1>1. /\ ~viewer[c].joined
      /\ viewer' = [viewer EXCEPT ![c].joined = TRUE, ![c].online = Dated(d, 0)]
      /\ misled' = IF viewer[c].lastTick # 0 THEN misled \cup {c} ELSE misled \ {c}
      /\ UNCHANGED <<now, dateTick, syncCalendar>>
  BY DEF OnPlayerJoin
<1>2. dateTime' \in Dates
  BY DEF CalendarInv
<1>3. PICK R : /\ SendTo(R) /\ c \in R
               /\ (Players \subseteq R) \/ (dateTime' = dateTime /\ R = {c})
  BY DEF OnPlayerJoin
<1>4. /\ viewer[c] \in Viewers /\ ~viewer[c].locked /\ timeQueue[c] = <<>>
      /\ viewer \in [Clients -> Viewers]
      /\ timeQueue \in [Clients -> Seq([date : Dates, sent : Nat])]
  BY <1>1 DEF ClockInv, CalendarInv
<1>5. ~viewer'[c].locked /\ viewer'[c].lastTick = viewer[c].lastTick
  BY <1>1, <1>4 DEF Viewers
<1>6. Clocked(c)'
  <2>1. CASE viewer[c].lastTick # 0
    <3>1. c \in misled'
      BY <1>1, <2>1
    <3> QED BY <3>1 DEF Clocked
  <2>2. CASE viewer[c].lastTick = 0
    <3>1. viewer'[c].lastTick \in IF viewer'[c].locked THEN {0, now - 1, now} ELSE {0}
      BY <1>5, <2>2
    <3> QED BY <1>1, <1>2, <1>3, <1>4, <3>1, SendsKeepClocks
  <2> QED BY <2>1, <2>2
<1>7. ASSUME NEW b \in Clients \ {c} PROVE Clocked(b)'
  <2>1. viewer'[b] = viewer[b] /\ (b \in misled' <=> b \in misled)
    BY <1>1, <1>4
  <2>2. Clocked(b)
    BY DEF ClockInv
  <2>3. CASE Players \subseteq R
    <3>1. SUFFICES ASSUME viewer[b].joined, b \notin misled PROVE Clocked(b)'
      BY <2>1 DEF Clocked
    <3>2. b \in R \cap Clients
      BY <2>3, <3>1 DEF Players
    <3>3. /\ viewer[b].lastTick \in IF viewer[b].locked THEN {0, now - 1, now} ELSE {0}
          /\ Timely(timeQueue[b])
      BY <2>2, <3>1 DEF Clocked
    <3>4. viewer'[b].lastTick \in IF viewer'[b].locked THEN {0, now - 1, now} ELSE {0}
      BY <2>1, <3>3
    <3> QED BY <1>1, <1>2, <1>3, <3>2, <3>3, <3>4, SendsKeepClocks
  <2>4. CASE dateTime' = dateTime /\ R = {c}
    <3>1. ServerInstant' = ServerInstant
      BY <1>1, <2>4 DEF ServerInstant, Elapsed, Instant, DaysBefore
    <3>2. timeQueue'[b] = timeQueue[b]
      BY <1>3, <2>4 DEF SendTo, Posted
    <3> QED BY <1>1, <2>1, <2>2, <2>4, <3>1, <3>2, StaysClocked
  <2> QED BY <1>3, <2>3, <2>4
<1> QED BY <1>6, <1>7

(* The steps of one client do not touch the clocks of the others.              *)
LEMMA ClientStepsKeepClocks ==
    ASSUME ClockInv, NEW c \in Clients,
           EnterWorld(c) \/ OnTimeUpdate(c) \/ HandleUpdate(c) \/ OnDisconnected(c)
    PROVE  \A b \in Clients : Clocked(b)'
<1>1. UNCHANGED <<now, dateTime, dateTick, syncCalendar, misled>>
  BY DEF EnterWorld, OnTimeUpdate, HandleUpdate, OnDisconnected
<1>2. ServerInstant' = ServerInstant
  BY <1>1 DEF ServerInstant, Elapsed, Instant, DaysBefore
<1>3. /\ viewer \in [Clients -> Viewers]
      /\ timeQueue \in [Clients -> Seq([date : Dates, sent : Nat])]
  BY DEF ClockInv, CalendarInv
<1>4. ASSUME NEW b \in Clients \ {c} PROVE Clocked(b)'
  <2>1. viewer'[b] = viewer[b] /\ timeQueue'[b] = timeQueue[b]
    BY <1>3 DEF EnterWorld, OnTimeUpdate, HandleUpdate, OnDisconnected, Read
  <2>2. Clocked(b)
    BY DEF ClockInv
  <2> QED BY <1>1, <1>2, <2>1, <2>2, StaysClocked
<1>5. CASE EnterWorld(c)
  <2>1. /\ viewer'[c].joined = viewer[c].joined /\ viewer'[c].locked = viewer[c].locked
        /\ viewer'[c].lastTick = viewer[c].lastTick /\ viewer'[c].online = viewer[c].online
        /\ timeQueue'[c] = timeQueue[c]
    BY <1>3, <1>5 DEF EnterWorld, Viewers
  <2>2. Clocked(c)
    BY DEF ClockInv
  <2>3. Clocked(c)'
    BY <1>1, <1>2, <2>1, <2>2, StaysClocked
  <2> QED BY <1>4, <2>3
<1>6. CASE OnDisconnected(c)
  <2>1. ~viewer'[c].joined
    BY <1>3, <1>6 DEF OnDisconnected, Viewers
  <2> QED BY <1>4, <2>1 DEF Clocked
<1>7. CASE OnTimeUpdate(c)
  BY <1>4, <1>7, ReadingKeepsClocks
<1>8. CASE HandleUpdate(c)
  BY <1>4, <1>8, HandleUpdateKeepsClocks
<1> QED BY <1>5, <1>6, <1>7, <1>8

(* No step disturbs the invariant.                                             *)
LEMMA ClockNextInv == ClockInv /\ [CalendarNext]_calendarVars => ClockInv'
<1> SUFFICES ASSUME ClockInv, [CalendarNext]_calendarVars PROVE ClockInv'
  OBVIOUS
<1>1. CalendarInv'
  BY CalendarNextInv DEF ClockInv
<1>2. /\ now \in Nat /\ now >= 1
      /\ dateTick \in {now - 1, now} \/ (dateTick = 0 /\ now = StartTick)
  BY ServerFacts DEF ClockInv
<1>3. CASE UNCHANGED calendarVars
  <2>1. ServerInstant' = ServerInstant
    BY <1>3 DEF calendarVars, ServerInstant, Elapsed, Instant, DaysBefore
  <2>2. ASSUME NEW c \in Clients PROVE Clocked(c)'
    <3>1. Clocked(c)
      BY DEF ClockInv
    <3> QED BY <1>3, <2>1, <3>1, StaysClocked DEF calendarVars
  <2> QED BY <1>1, <1>2, <1>3, <2>2 DEF calendarVars, ClockInv
<1>4. CASE Passes
  <2>1. dateTick' = now' - 1
    BY <1>2, <1>4 DEF Passes
  <2> QED BY <1>1, <1>4, <2>1, PassesKeepsClocks DEF ClockInv
<1>5. CASE ServerUpdate
  <2>1. /\ ServerInstant' = ServerInstant /\ dateTime'.scale = dateTime.scale
        /\ dateTick' = now' /\ now' = now
    BY <1>5, ServerUpdateKeepsClocks
  <2>2. UNCHANGED <<syncCalendar, viewer, timeQueue, misled>>
    BY <1>5 DEF ServerUpdate
  <2>3. ASSUME NEW c \in Clients PROVE Clocked(c)'
    <3>1. Clocked(c)
      BY DEF ClockInv
    <3> QED BY <2>1, <2>2, <3>1, StaysClocked
  <2> QED BY <1>1, <2>1, <2>3 DEF ClockInv
<1>6. CASE Operate
  <2>1. UNCHANGED <<now, dateTick>>
    BY <1>6 DEF Operate, SetTime, SetDate, SetTimeScale
  <2>2. \A c \in Clients : Clocked(c)'
    BY <1>1, <1>6, OperateKeepsClocks
  <2> QED BY <1>1, <1>2, <2>1, <2>2 DEF ClockInv
<1>7. ASSUME NEW c \in Clients,
             \/ EnterWorld(c) \/ OnTimeUpdate(c) \/ HandleUpdate(c) \/ OnDisconnected(c)
             \/ \E d \in PlayerDates : OnPlayerJoin(c, d)
      PROVE  ClockInv'
  <2>1. UNCHANGED <<now, dateTick>>
    BY <1>7 DEF EnterWorld, OnTimeUpdate, HandleUpdate, OnDisconnected, OnPlayerJoin
  <2>2. \A b \in Clients : Clocked(b)'
    BY <1>1, <1>7, ClientStepsKeepClocks, JoinKeepsClocks
  <2> QED BY <1>1, <1>2, <2>1, <2>2 DEF ClockInv
<1> QED BY <1>3, <1>4, <1>5, <1>6, <1>7 DEF CalendarNext

(* For any scales, dates and delays, what a client that is not misled shows,   *)
(* or is about to be told, is the date of the server, counted on.              *)
THEOREM ClockInvariant == CalendarSpec => []ClockInv
BY ClockInitInv, ClockNextInv, PTL DEF CalendarSpec

(* More ticks are more time.                                                   *)
LEMMA TicksGrow ==
    ASSUME NEW s \in Nat, NEW j \in Int, NEW n \in Int, j <= n
    PROVE  s * j <= s * n
<1>1. s * (n - j) >= 0
  <2>1. n - j \in Nat
    OBVIOUS
  <2> DEFINE m == n - j
  <2> HIDE DEF m
  <2>2. m \in Nat => s * m >= 0
    OBVIOUS
  <2> QED BY <2>1, <2>2 DEF m
<1>2. s * n = s * j + s * (n - j)
  OBVIOUS
<1>3. s * j \in Int /\ s * n \in Int /\ s * (n - j) \in Int
  OBVIOUS
<1> QED BY <1>1, <1>2, <1>3

(* Days do not count in an hour.                                               *)
LEMMA DaysDropOut ==
    ASSUME NEW v \in Nat, NEW z \in Int
    PROVE  (v + 24000 * z) % 24000 \in 0 .. v
OBVIOUS

(* A client that is not misled and has read its messages is behind the clock   *)
(* of the server by no more than the last message took and a frame.            *)
THEOREM ClocksAlwaysAgree == CalendarSpec => []ClocksAgree
<1>1. ClockInv => ClocksAgree
  <2> SUFFICES ASSUME ClockInv, NEW c \in Clients,
                      viewer[c].locked, timeQueue[c] = <<>>, c \notin misled
               PROVE  Lag(c) \in -dateTime.scale .. (dateTime.scale * (MaxLatency + 1))
    BY DEF ClocksAgree
  <2> DEFINE s == dateTime.scale
             lag == ServerInstant - ClientInstant(c)
             top == s * (MaxLatency + 1)
  <2>1. Lagging(lag, s, syncCalendar)
    <3>1. viewer[c].joined
      BY DEF ClockInv, CalendarInv
    <3> QED BY <3>1 DEF ClockInv, Clocked, Near
  <2>2. PICK j \in -1 .. (MaxLatency + 1), z \in Int :
           lag = s * j + 24000 * z /\ (syncCalendar => z = 0)
    BY <2>1 DEF Lagging
  <2>3. s \in Nat /\ MaxLatency \in Nat
    BY ServerFacts, CalendarAssumption
  <2>4. Lag(c) = IF syncCalendar THEN lag ELSE ((lag + s) % 24000) - s
    <3>1. DayUnits = 24000
      BY DEF DayUnits, HourUnits
    <3> QED BY <3>1 DEF Lag, ServerInstant, Elapsed, ClientInstant, Counted
  <2> HIDE DEF s, lag
  <2>5. /\ s * j \in Int /\ s * j <= top /\ top \in Int
        /\ -s <= s * j /\ s * (j + 1) = s * j + s
    <3>1. j \in Int /\ j <= MaxLatency + 1 /\ -1 <= j /\ MaxLatency + 1 \in Int
      BY <2>3
    <3>2. s * j <= s * (MaxLatency + 1) /\ s * (-1) <= s * j
      BY <2>3, <3>1, TicksGrow
    <3>3. s * (-1) = -s
      BY <2>3
    <3>4. s * (j + 1) = s * j + s /\ s * j \in Int /\ top \in Int
      BY <2>3, <3>1, TicksAdd
    <3> QED BY <3>2, <3>3, <3>4
  <2> HIDE DEF top
  <2>6. CASE syncCalendar
    <3>1. Lag(c) = s * j
      BY <2>2, <2>4, <2>5, <2>6
    <3>2. s * j \in -s .. top
      BY <2>3, <2>5
    <3> QED BY <3>1, <3>2 DEF s, top
  <2>7. CASE ~syncCalendar
    <3> DEFINE v == s * (j + 1)
    <3>1. v \in Nat /\ v <= top + s
      BY <2>3, <2>5
    <3>2. lag + s = v + 24000 * z
      BY <2>2, <2>3, <2>5
    <3> HIDE DEF v
    <3>3. (v + 24000 * z) % 24000 \in 0 .. v
      BY <3>1, DaysDropOut
    <3>4. Lag(c) = ((v + 24000 * z) % 24000) - s
      BY <2>4, <2>7, <3>2
    <3> DEFINE r == (v + 24000 * z) % 24000
    <3> HIDE DEF r
    <3>5. r - s \in -s .. top
      <4>1. r \in 0..v
        BY <3>3 DEF r
      <4> QED BY <2>3, <2>5, <3>1, <4>1
    <3>6. Lag(c) = r - s
      BY <3>4 DEF r
    <3> QED BY <3>5, <3>6 DEF s, top
  <2> QED BY <2>6, <2>7
<1> QED BY <1>1, ClockInvariant, PTL
=============================================================================
