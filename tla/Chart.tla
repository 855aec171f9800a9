------------------------------- MODULE Chart -------------------------------
(***************************************************************************)
(* The chart above the request logs: its controls in LogsTab and           *)
(* RequestStatusChart, of projects/[id]/page.tsx.                          *)
(*                                                                         *)
(* A day is a number.  The server groups the requests by its days; the     *)
(* browser shows a group on the local day of the server's midnight, which  *)
(* is the day before wherever the browser's clock is behind the server's.  *)
(* Daylight saving may change that in the course of a range, and may leave *)
(* a day of the browser without a midnight.  Drawing is left out, but for  *)
(* what decides whether a bar, a line or a label tells the truth.  While   *)
(* the chart is looked at nothing is logged and the day stays.             *)
(***************************************************************************)
EXTENDS Integers, Sequences, SequencesExt, FiniteSetsExt

CONSTANTS StatusKeys,  \* STATUS_KEYS, from the bottom of a bar to its top
          Today,
          FirstDay,    \* bound: the first day that is looked at
          Back,        \* the days before today each preset range begins
          Counts,      \* bound: the requests of a day and status
          Zones,       \* timezones: the server's days whose midnight is on the day
                       \* before, and the local days that begin at 01:00
          Blank,       \* an empty date field
          NoAnswer     \* no answer yet

Days == FirstDay .. Today
Presets == DOMAIN Back
Ranges == Presets \cup {"custom"}
DayCounts == [1 .. Len(StatusKeys) -> Counts]

ASSUME ChartAssumption ==
    /\ FirstDay \in Int /\ Today \in Int /\ Back \in [Presets -> Nat]
    /\ Zones \subseteq [west : SUBSET Int, late : SUBSET Int]
    /\ Counts \subseteq Nat /\ 0 \in Counts /\ Len(StatusKeys) \in Nat
    /\ Blank \notin Days /\ "custom" \notin Presets

VARIABLES
    zone,       \* the timezone of the browser
    logged,     \* the requests the server has logged, by day and status
    chartRange, \* the range that is chosen
    from, to,   \* chartStartDate and chartEndDate, for the custom range
    chartType,
    chartData   \* the answer that is shown: the days with requests

chartVars == <<zone, logged, chartRange, from, to, chartType, chartData>>

-----------------------------------------------------------------------------
(* The query.                                                              *)

\* getPresetDateRange, or the fields.
StartDate(r, f) == IF r = "custom" THEN f ELSE Today - Back[r]
EndDate(r, t) == IF r = "custom" THEN t ELSE Today

\* GetLogsForChart: the days of the range with requests, an open end when blank.
InRange(d, start, end) == (start = Blank \/ d >= start) /\ (end = Blank \/ d <= end)
ChartAnswer(start, end) ==
    [d \in {d \in Days : InRange(d, start, end) /\ \E i \in DOMAIN logged[d] : logged[d][i] > 0}
        |-> logged[d]]

-----------------------------------------------------------------------------
(* What is drawn.                                                          *)

\* dailyStatusCounts: the groups that begin on a local day are added up.
LocalDay(d) == IF d \in zone.west THEN d - 1 ELSE d
CountOn(d, day, i) ==
    IF LocalDay(d) = day /\ d \in DOMAIN chartData THEN chartData[d][i] ELSE 0
DailyCounts(day) ==
    [i \in 1 .. Len(StatusKeys) |-> CountOn(day, day, i) + CountOn(day + 1, day, i)]

\* The hour of new Date(day + "T00:00:00"), and that of a cursor which setDate
\* brought from such a time on another day: once at 01:00 it stays there.
StartHour(day) == IF day \in zone.late THEN 1 ELSE 0
CursorHour(start, day) == IF \E d \in start .. day : d \in zone.late THEN 1 ELSE 0

\* Mutant: the loop ends before the last day.
DayKeysShort ==
    LET start == StartDate(chartRange, from)
        end == EndDate(chartRange, to)
    IN  IF start # Blank /\ end # Blank /\ start <= end THEN start .. end - 1
        ELSE {LocalDay(d) : d \in DOMAIN chartData}

\* dayKeys: the days from the start on whose cursor is not after the end, or the
\* days there are.
DayKeys ==
    LET start == StartDate(chartRange, from)
        end == EndDate(chartRange, to)
    IN  IF start # Blank /\ end # Blank /\ start <= end
        THEN {day \in start .. end : day < end \/ CursorHour(start, day) <= StartHour(end)}
        ELSE {LocalDay(d) : d \in DOMAIN chartData}

\* A bar: each segment begins where the ones below it end.
SegmentTop(day, i) == FoldSeq(LAMBDA a, b : a + b, 0, SubSeq(DailyCounts(day), 1, i))
Point(day, i) == DailyCounts(day)[i]
Drawn(day, i) == IF chartType = "bar" THEN SegmentTop(day, i) ELSE Point(day, i)

\* getSmoothPath bends the line at a point along the chord of its neighbours, of
\* which an end has itself for one: the handles of a point, in sixths of a
\* request.  The curve lies in the hull of the points and their handles.
Between(a, b) == {x \in DayKeys : a < x /\ x < b}
Before(day) == {x \in DayKeys : \/ x < day /\ Between(x, day) = {}
                                \/ x = day /\ \A y \in DayKeys : day <= y}
After(day) == {x \in DayKeys : \/ x > day /\ Between(day, x) = {}
                               \/ x = day /\ \A y \in DayKeys : y <= day}
Handles(day, i) ==
    {6 * Point(day, i) + side * (Point(a, i) - Point(b, i)) :
        side \in {1, -1}, a \in After(day), b \in Before(day)}

\* maxVal.
MaxVal ==
    Max({0} \cup {Drawn(day, i) : day \in DayKeys, i \in 1 .. Len(StatusKeys)})

\* The largest power of ten that is not above n.
Magnitude[n \in Nat] == IF n < 10 THEN 1 ELSE 10 * Magnitude[n \div 10]

\* Mutant: up to three times the power of ten the axis ends at twice of it.
NiceMaxTight(n) ==
    IF n <= 0 THEN 4
    ELSE LET mag == Magnitude[n]
         IN  IF n <= 3 * mag THEN 2 * mag ELSE IF n <= 7 * mag THEN 8 * mag ELSE 10 * mag

\* niceMax.
NiceMax(n) ==
    IF n <= 0 THEN 4
    ELSE LET mag == Magnitude[n]
         IN  IF 2 * n <= 3 * mag THEN 2 * mag
             ELSE IF n <= 3 * mag THEN 4 * mag
             ELSE IF n <= 7 * mag THEN 8 * mag
             ELSE 10 * mag

\* yTicks: a line and a label each.
Ticks == 0 .. 4

\* fmtTick: the number a label shows for a quarter of the axis.  From 10000 on
\* it is rounded to thousands, from 1000 on to hundreds, with a k for a thousand.
TickLabel(i, yMax) ==
    LET quarters == i * yMax
    IN  IF quarters >= 40000 THEN 1000 * ((quarters + 2000) \div 4000)
        ELSE IF quarters >= 4000 THEN 100 * ((quarters + 200) \div 400)
        ELSE (quarters + 2) \div 4

-----------------------------------------------------------------------------
ChartInit ==
    /\ zone \in Zones /\ logged \in [Days -> DayCounts]
    /\ chartRange \in Presets /\ from = Blank /\ to = Blank /\ chartType = "bar"
    /\ chartData = NoAnswer

\* The range is changed: an answer it had is shown again, or there is none yet.
Reask(r, f, t) ==
    /\ chartRange' = r /\ from' = f /\ to' = t
    /\ chartData' \in {NoAnswer, ChartAnswer(StartDate(r, f), EndDate(r, t))}
    /\ UNCHANGED <<zone, logged, chartType>>

\* The controls: the range, the two dates with their button Clear, the type.
ChooseRange(r) == Reask(r, from, to)
ChooseDates(f, t) == chartRange = "custom" /\ Reask("custom", f, t)
ChooseType(type) == chartType' = type /\ UNCHANGED <<zone, logged, chartRange, from, to, chartData>>

Answered ==
    /\ chartData = NoAnswer
    /\ chartData' = ChartAnswer(StartDate(chartRange, from), EndDate(chartRange, to))
    /\ UNCHANGED <<zone, logged, chartRange, from, to, chartType>>

ChartNext ==
    \/ \E r \in Ranges : ChooseRange(r)
    \/ \E d \in Days \cup {Blank} : ChooseDates(d, to) \/ ChooseDates(from, d)
    \/ chartRange = "custom" /\ ChooseDates(Blank, Blank)
    \/ \E type \in {"bar", "line"} : ChooseType(type)
    \/ Answered

-----------------------------------------------------------------------------
(* What holds.                                                             *)

(* The axis is right for what is drawn.  The bars and the points end below *)
(* its end, of which the highest fills three eighths or more.  The line    *)
(* through the points may swing out, below zero and beyond the end, but by *)
(* no more than a sixth of the highest.  As soon as a day has two requests *)
(* the labels tell the ticks apart, those with a k too; with one the axis  *)
(* reads 0, 1, 1, 2, 2 (page.tsx 471-480, 507-527, 598-630).               *)
FitsChart ==
    chartData # NoAnswer =>
        LET yMax == NiceMax(MaxVal)
        IN  /\ \A day \in DayKeys, i \in 1 .. Len(StatusKeys) :
                  /\ Drawn(day, i) <= yMax
                  /\ chartType = "line" =>
                        \A h \in Handles(day, i) : - MaxVal <= h /\ h <= 7 * MaxVal
            /\ MaxVal > 0 => 3 * yMax <= 8 * MaxVal
            /\ MaxVal > 1 => \A i \in Ticks \ {0} : TickLabel(i - 1, yMax) < TickLabel(i, yMax)

(* Every day the server answered is drawn, but for two at the ends of a    *)
(* range: the first, when the browser is behind the server then, as it     *)
(* falls on the day before the range; and the last, when a day of the      *)
(* range before it has no midnight and it has one itself, as the cursor    *)
(* comes an hour late (page.tsx 557, 574-594).                             *)
AnswerIsDrawn ==
    chartData # NoAnswer =>
        \A d \in DOMAIN chartData :
            LET start == StartDate(chartRange, from)
                end == EndDate(chartRange, to)
            IN  \/ LocalDay(d) \in DayKeys
                \/ d = start /\ d \in zone.west
                \/ /\ LocalDay(d) = end /\ end \notin zone.late
                   /\ \E day \in zone.late : start <= day /\ day < end

=============================================================================
