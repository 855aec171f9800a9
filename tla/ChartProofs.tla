----------------------------- MODULE ChartProofs -----------------------------
(***************************************************************************)
(* The days of the chart, for any range, whatever was logged and wherever  *)
(* the browser is.                                                         *)
(***************************************************************************)
EXTENDS Chart, FoldLemmas, TLAPS

ChartSpec == ChartInit /\ [][ChartNext]_chartVars

\* The dates are days or blank, and the answer that is shown is the answer to
\* the dates that are set.
AnswerIsForDates ==
    /\ zone \in Zones /\ chartRange \in Ranges
    /\ from \in Days \cup {Blank} /\ to \in Days \cup {Blank}
    /\ chartData # NoAnswer =>
          chartData = ChartAnswer(StartDate(chartRange, from), EndDate(chartRange, to))

-----------------------------------------------------------------------------
LEMMA ReaskKeeps ==
    ASSUME AnswerIsForDates, NEW r \in Ranges, NEW f \in Days \cup {Blank},
           NEW t \in Days \cup {Blank}, Reask(r, f, t)
    PROVE  AnswerIsForDates'
<1>1. /\ chartRange' = r /\ from' = f /\ to' = t /\ zone' = zone /\ logged' = logged
      /\ chartData' # NoAnswer => chartData' = ChartAnswer(StartDate(r, f), EndDate(r, t))
      BY DEF Reask
<1>2. ChartAnswer(StartDate(r, f), EndDate(r, t))
        = ChartAnswer(StartDate(r, f), EndDate(r, t))'
      BY <1>1 DEF ChartAnswer, StartDate, EndDate, Days
<1> QED BY <1>1, <1>2 DEF AnswerIsForDates, StartDate, EndDate, ChartAnswer, Days

LEMMA DatesKept == AnswerIsForDates /\ [ChartNext]_chartVars => AnswerIsForDates'
<1> SUFFICES ASSUME AnswerIsForDates, [ChartNext]_chartVars  PROVE AnswerIsForDates'
    OBVIOUS
<1>0. /\ chartRange \in Ranges /\ from \in Days \cup {Blank} /\ to \in Days \cup {Blank}
      /\ "custom" \in Ranges
      BY DEF AnswerIsForDates, Ranges
<1>1. ASSUME UNCHANGED <<zone, logged, chartRange, from, to, chartData>>
      PROVE  AnswerIsForDates'
      BY <1>1 DEF AnswerIsForDates, StartDate, EndDate, ChartAnswer, Days
<1>2. CASE UNCHANGED chartVars
      BY <1>1, <1>2 DEF chartVars
<1>3. ASSUME NEW r \in Ranges, ChooseRange(r)  PROVE AnswerIsForDates'
      BY <1>0, <1>3, ReaskKeeps DEF ChooseRange
<1>4. ASSUME NEW f \in Days \cup {Blank}, NEW t \in Days \cup {Blank}, ChooseDates(f, t)
      PROVE  AnswerIsForDates'
      BY <1>0, <1>4, ReaskKeeps DEF ChooseDates
<1>5. CASE \E type \in {"bar", "line"} : ChooseType(type)
      BY <1>1, <1>5 DEF ChooseType
<1>6. CASE Answered
      BY <1>6 DEF Answered, AnswerIsForDates, StartDate, EndDate, ChartAnswer, Days
<1>7. CASE \E d \in Days \cup {Blank} : ChooseDates(d, to) \/ ChooseDates(from, d)
      BY <1>0, <1>4, <1>7
<1>8. CASE chartRange = "custom" /\ ChooseDates(Blank, Blank)
      BY <1>4, <1>8
<1>9. CASE \E r \in Ranges : ChooseRange(r)
      BY <1>3, <1>9
<1> QED BY <1>2, <1>5, <1>6, <1>7, <1>8, <1>9 DEF ChartNext

(* The days of a range that is filled in are its days, but for the last if *)
(* the cursor comes late to it.                                            *)
LEMMA FilledDays ==
    ASSUME AnswerIsForDates,
           StartDate(chartRange, from) # Blank, EndDate(chartRange, to) # Blank,
           StartDate(chartRange, from) <= EndDate(chartRange, to)
    PROVE  LET start == StartDate(chartRange, from)
               end == EndDate(chartRange, to)
           IN  /\ start \in Int /\ end \in Int
               /\ DayKeys \subseteq start .. end
               /\ \A day \in start .. end :
                     \/ day \in DayKeys
                     \/ /\ day = end /\ end \notin zone.late
                        /\ \E d \in zone.late : start <= d /\ d < end
<1> DEFINE start == StartDate(chartRange, from)
           end == EndDate(chartRange, to)
<1>1. start \in Int /\ end \in Int
      BY ChartAssumption DEF AnswerIsForDates, StartDate, EndDate, Ranges, Days
<1>2. DayKeys = {day \in start .. end : day < end \/ CursorHour(start, day) <= StartHour(end)}
      BY DEF DayKeys
<1> HIDE DEF start, end
<1>3. ASSUME NEW day \in start .. end, day \notin DayKeys
      PROVE  /\ day = end /\ end \notin zone.late
             /\ \E d \in zone.late : start <= d /\ d < end
  <2>1. day = end /\ ~ (CursorHour(start, end) <= StartHour(end))
        BY <1>1, <1>2, <1>3
  <2>2. end \notin zone.late /\ \E d \in start .. end : d \in zone.late
        BY <2>1 DEF CursorHour, StartHour
  <2> QED BY <1>1, <2>1, <2>2
<1> QED BY <1>1, <1>2, <1>3 DEF start, end

(* No day with requests is missing from the chart, but for the first of a  *)
(* range whose start is not the browser's, and the last after a night      *)
(* without a midnight, in any timezone (page.tsx 557, 574-594).            *)
THEOREM AnswerDrawn == ChartSpec => []AnswerIsDrawn
<1>1. ChartInit => AnswerIsForDates
      BY DEF ChartInit, AnswerIsForDates, Ranges
<1>2. AnswerIsForDates => AnswerIsDrawn
  <2> SUFFICES ASSUME AnswerIsForDates, chartData # NoAnswer, NEW d \in DOMAIN chartData
               PROVE  LET start == StartDate(chartRange, from)
                          end == EndDate(chartRange, to)
                      IN  \/ LocalDay(d) \in DayKeys
                          \/ d = start /\ d \in zone.west
                          \/ /\ LocalDay(d) = end /\ end \notin zone.late
                             /\ \E day \in zone.late : start <= day /\ day < end
      BY DEF AnswerIsDrawn
  <2> DEFINE start == StartDate(chartRange, from)
             end == EndDate(chartRange, to)
  <2>1. d \in Days /\ InRange(d, start, end)
        BY DEF AnswerIsForDates, ChartAnswer
  <2>2. CASE ~(start # Blank /\ end # Blank /\ start <= end)
        BY <2>2 DEF DayKeys
  <2>3. CASE start # Blank /\ end # Blank /\ start <= end
    <3>1. /\ start \in Int /\ end \in Int
          /\ \A day \in start .. end :
                \/ day \in DayKeys
                \/ /\ day = end /\ end \notin zone.late
                   /\ \E e \in zone.late : start <= e /\ e < end
          BY <2>3, FilledDays
    <3>2. d \in Int /\ start <= d /\ d <= end
          BY <2>1, <2>3, ChartAssumption DEF InRange, Days
    <3> HIDE DEF start, end
    <3>3. LocalDay(d) \in start .. end \/ (d = start /\ d \in zone.west)
          BY <3>1, <3>2 DEF LocalDay
    <3> QED BY <3>1, <3>3 DEF start, end
  <2> QED BY <2>2, <2>3
<1> QED BY <1>1, <1>2, DatesKept, PTL DEF ChartSpec

-----------------------------------------------------------------------------
(* The end of the axis.                                                    *)

MagnitudeStep(g, n) == IF n < 10 THEN 1 ELSE 10 * g[n \div 10]
IsMagnitude(g, n) == \A k \in 0 .. n : g[k] = MagnitudeStep(g, k)

\* The recursion on the digits of a number has a solution, and one only.
LEMMA MagnitudesAgree ==
    ASSUME NEW n \in Nat, NEW m \in Nat, NEW g, IsMagnitude(g, n), NEW h, IsMagnitude(h, m),
           n <= m
    PROVE  \A k \in 0 .. n : g[k] = h[k]
<1> DEFINE G == {k \in Nat : k <= n => g[k] = h[k]}
<1>1. ASSUME NEW k \in Nat, \A j \in Nat : j < k => j \in G  PROVE k \in G
  <2> SUFFICES ASSUME k <= n  PROVE g[k] = h[k]
      OBVIOUS
  <2>1. g[k] = MagnitudeStep(g, k) /\ h[k] = MagnitudeStep(h, k)
        BY DEF IsMagnitude
  <2>2. k >= 10 => k \div 10 \in Nat /\ k \div 10 < k
        OBVIOUS
  <2> QED BY <1>1, <2>1, <2>2 DEF MagnitudeStep
<1>2. Nat \subseteq G
  <2> HIDE DEF G
  <2> QED BY <1>1, NumberInduction
<1> QED BY <1>2

LEMMA MagnitudeExists == \A n \in Nat : \E g : IsMagnitude(g, n)
<1> DEFINE G == {n \in Nat : \E g : IsMagnitude(g, n)}
           of(k) == CHOOSE g : IsMagnitude(g, k)
<1>1. ASSUME NEW n \in Nat, \A k \in Nat : k < n => k \in G  PROVE n \in G
  <2> DEFINE h == [k \in 0 .. n |-> MagnitudeStep(of(k \div 10), k)]
  <2>1. ASSUME NEW k \in Nat, k < n  PROVE IsMagnitude(of(k), k)
        BY <1>1, <2>1
  <2> HIDE DEF of
  <2>2. ASSUME NEW k \in 0 .. n  PROVE h[k] = MagnitudeStep(h, k)
    <3>1. CASE k < 10
          BY <3>1 DEF MagnitudeStep
    <3>2. CASE k >= 10
      <4> DEFINE j == k \div 10
                 i == j \div 10
      <4>1. j \in Nat /\ j < k /\ j \in 0 .. n /\ i \in Nat /\ i <= j /\ j <= n
            BY <3>2
      <4>2. h[k] = MagnitudeStep(of(j), k) /\ h[j] = MagnitudeStep(of(i), j)
            BY <4>1
      <4>3. of(j)[j] = MagnitudeStep(of(j), j)
            BY <2>1, <4>1 DEF IsMagnitude
      <4>4. j >= 10 => of(j)[i] = of(i)[i]
        <5> SUFFICES ASSUME j >= 10  PROVE of(j)[i] = of(i)[i]
            OBVIOUS
        <5>1. i < j /\ i \in 0 .. i
              BY <4>1
        <5>2. IsMagnitude(of(i), i) /\ IsMagnitude(of(j), j)
              BY <2>1, <4>1, <5>1
        <5> HIDE DEF i, j
        <5> QED BY <4>1, <5>1, <5>2, MagnitudesAgree
      <4>5. h[j] = of(j)[j]
            BY <4>2, <4>3, <4>4 DEF MagnitudeStep
      <4> QED BY <3>2, <4>2, <4>5 DEF MagnitudeStep
    <3> QED BY <3>1, <3>2
  <2>3. IsMagnitude(h, n)
        BY <2>2 DEF IsMagnitude
  <2> QED BY <2>3
<1>2. Nat \subseteq G
  <2> HIDE DEF G
  <2> QED BY <1>1, NumberInduction
<1> QED BY <1>2

LEMMA MagnitudeObeys == \A n \in Nat : Magnitude[n] = MagnitudeStep(Magnitude, n)
<1> DEFINE of(k) == CHOOSE g : IsMagnitude(g, k)
           h == [n \in Nat |-> of(n)[n]]
<1>1. ASSUME NEW n \in Nat  PROVE h[n] = MagnitudeStep(h, n)
  <2>1. IsMagnitude(of(n), n)
        BY MagnitudeExists
  <2>2. of(n)[n] = MagnitudeStep(of(n), n)
        BY <2>1 DEF IsMagnitude
  <2>3. CASE n < 10
        BY <2>2, <2>3 DEF MagnitudeStep
  <2>4. CASE n >= 10
    <3> DEFINE j == n \div 10
    <3>1. j \in Nat /\ j <= n /\ j \in 0 .. j
          BY <2>4
    <3>2. IsMagnitude(of(j), j)
          BY <3>1, MagnitudeExists
    <3> HIDE DEF j, of
    <3>3. of(n)[j] = of(j)[j]
          BY <2>1, <3>1, <3>2, MagnitudesAgree
    <3> QED BY <2>2, <2>4, <3>1, <3>3 DEF MagnitudeStep, j
  <2> QED BY <2>3, <2>4
<1>2. h = [n \in Nat |-> MagnitudeStep(h, n)]
      BY <1>1
<1> HIDE DEF h
<1>3. Magnitude = [n \in Nat |-> MagnitudeStep(Magnitude, n)]
      BY <1>2 DEF Magnitude, MagnitudeStep
<1> QED BY <1>3

\* The magnitude is a number's share of at least a tenth, and no more than it.
LEMMA MagnitudeBounds ==
    \A n \in Nat \ {0} :
        Magnitude[n] \in Nat \ {0} /\ Magnitude[n] <= n /\ n < 10 * Magnitude[n]
<1> DEFINE G == {n \in Nat : n > 0 =>
                    Magnitude[n] \in Nat \ {0} /\ Magnitude[n] <= n /\ n < 10 * Magnitude[n]}
<1>1. ASSUME NEW n \in Nat, \A k \in Nat : k < n => k \in G  PROVE n \in G
  <2> DEFINE j == n \div 10
  <2>1. CASE n < 10
        BY <2>1, MagnitudeObeys DEF MagnitudeStep
  <2>2. CASE n >= 10
    <3>1. j \in Nat /\ j < n /\ j > 0 /\ 10 * j <= n /\ n < 10 * j + 10
          BY <2>2
    <3>2. Magnitude[n] = 10 * Magnitude[j]
          BY <2>2, MagnitudeObeys DEF MagnitudeStep
    <3>3. Magnitude[j] \in Nat \ {0} /\ Magnitude[j] <= j /\ j < 10 * Magnitude[j]
          BY <1>1, <3>1
    <3> HIDE DEF j
    <3> QED BY <3>1, <3>2, <3>3
  <2> QED BY <2>1, <2>2
<1>2. Nat \subseteq G
  <2> HIDE DEF G
  <2> QED BY <1>1, NumberInduction
<1> QED BY <1>2

\* The axis ends at or above what is shown, and not far above it.
LEMMA AxisFits ==
    ASSUME NEW n \in Nat
    PROVE  /\ NiceMax(n) \in Nat /\ n <= NiceMax(n)
           /\ n > 0 => 3 * NiceMax(n) <= 8 * n
           /\ n > 1 => NiceMax(n) >= 4
<1>1. CASE n = 0
      BY <1>1 DEF NiceMax
<1>2. CASE n > 0
  <2> DEFINE mag == Magnitude[n]
  <2>1. mag \in Nat \ {0} /\ mag <= n /\ n < 10 * mag
        BY <1>2, MagnitudeBounds
  <2>2. NiceMax(n) = IF 2 * n <= 3 * mag THEN 2 * mag
                     ELSE IF n <= 3 * mag THEN 4 * mag
                     ELSE IF n <= 7 * mag THEN 8 * mag
                     ELSE 10 * mag
        BY <1>2 DEF NiceMax
  <2> HIDE DEF mag
  <2> QED BY <1>2, <2>1, <2>2
<1> QED BY <1>1, <1>2

-----------------------------------------------------------------------------
(* What is drawn.                                                          *)

\* What the server logged is counted, each day and status.
IsLogged == logged \in [Days -> DayCounts]

LEMMA LoggedKept == IsLogged /\ [ChartNext]_chartVars => IsLogged'
<1> SUFFICES ASSUME IsLogged, [ChartNext]_chartVars  PROVE logged' = logged
    BY DEF IsLogged, Days, DayCounts
<1> QED BY DEF ChartNext, ChooseRange, ChooseDates, ChooseType, Reask, Answered, chartVars

\* Each day of the chart has its counts, of which some may be zero.
LEMMA CountsOfDays ==
    ASSUME IsLogged, AnswerIsForDates, chartData # NoAnswer, NEW day
    PROVE  DailyCounts(day) \in [1 .. Len(StatusKeys) -> Nat]
<1>1. chartData = ChartAnswer(StartDate(chartRange, from), EndDate(chartRange, to))
      BY DEF AnswerIsForDates
<1>2. \A d \in DOMAIN chartData : d \in Days /\ chartData[d] = logged[d]
      BY <1>1 DEF ChartAnswer
<1>3. \A d \in Days : logged[d] \in [1 .. Len(StatusKeys) -> Nat]
      BY ChartAssumption DEF IsLogged, DayCounts
<1>4. \A d, i : i \in 1 .. Len(StatusKeys) => CountOn(d, day, i) \in Nat
      BY <1>2, <1>3 DEF CountOn
<1> QED BY <1>4 DEF DailyCounts

\* A segment ends at the sum of the counts up to its own.
LEMMA CountsBelow ==
    ASSUME IsLogged, AnswerIsForDates, chartData # NoAnswer, NEW day,
           NEW i \in 0 .. Len(StatusKeys)
    PROVE  \E low \in [1 .. i -> Nat] : /\ SegmentTop(day, i) = Total(low)
                                        /\ \A j \in 1 .. i : low[j] = Point(day, j)
<1> DEFINE counts == DailyCounts(day)
           low == SubSeq(counts, 1, i)
<1>1. counts \in [1 .. Len(StatusKeys) -> Nat] /\ Len(StatusKeys) \in Nat
      BY CountsOfDays, ChartAssumption
<1>2. \A j : Point(day, j) = counts[j]
      BY DEF Point
<1>3. SegmentTop(day, i) = Total(low)
      BY DEF SegmentTop, FoldSeq, Total, FoldFunction, FoldFunctionOnSet, MapThenFoldSet
<1> HIDE DEF counts
<1>4. counts \in Seq(Nat) /\ Len(counts) = Len(StatusKeys)
      BY <1>1
<1>5. low \in [1 .. i -> Nat] /\ \A j \in 1 .. i : low[j] = counts[j]
  <2>1. /\ i \in Nat /\ i <= Len(counts) /\ Len(counts) \in Nat
        /\ \A j \in 1 .. Len(counts) : counts[j] \in Nat
        BY <1>1, <1>4
  <2>2. low = [j \in 1 .. i |-> counts[j]]
        BY <1>4, <2>1
  <2> HIDE DEF low
  <2> QED BY <2>1, <2>2
<1> HIDE DEF low
<1> QED BY <1>2, <1>3, <1>5

\* A bar and a point end at a number.
LEMMA DrawnIsNat ==
    ASSUME IsLogged, AnswerIsForDates, chartData # NoAnswer, NEW day,
           NEW i \in 1 .. Len(StatusKeys)
    PROVE  Drawn(day, i) \in Nat
<1>1. DailyCounts(day) \in [1 .. Len(StatusKeys) -> Nat] /\ Len(StatusKeys) \in Nat
      BY CountsOfDays, ChartAssumption
<1>2. Point(day, i) \in Nat
      BY <1>1 DEF Point
<1>3. i \in 0 .. Len(StatusKeys)
      BY <1>1
<1>4. PICK low \in [1 .. i -> Nat] : SegmentTop(day, i) = Total(low)
      BY <1>3, CountsBelow
<1>5. IsFiniteSet(1 .. i)
      BY FS_Interval
<1>6. Total(low) \in Nat
      BY <1>5, TotalIsNat
<1> QED BY <1>2, <1>4, <1>6 DEF Drawn

\* There are finitely many days to draw.
LEMMA DaysAreFinite ==
    ASSUME AnswerIsForDates, chartData # NoAnswer
    PROVE  IsFiniteSet(DayKeys)
<1> DEFINE start == StartDate(chartRange, from)
           end == EndDate(chartRange, to)
<1>1. CASE start # Blank /\ end # Blank /\ start <= end
  <2>1. start \in Int /\ end \in Int /\ DayKeys \in SUBSET (start .. end)
        BY <1>1, FilledDays
  <2> HIDE DEF start, end
  <2>2. IsFiniteSet(start .. end)
        BY <2>1, FS_Interval
  <2> QED BY <2>1, <2>2, FS_Subset
<1>2. CASE ~(start # Blank /\ end # Blank /\ start <= end)
  <2> DEFINE all == (FirstDay - 1) .. Today
  <2>1. DayKeys = {LocalDay(d) : d \in DOMAIN chartData}
        BY <1>2 DEF DayKeys
  <2>2. \A d \in DOMAIN chartData : d \in Days
        BY DEF AnswerIsForDates, ChartAnswer
  <2>3. \A d \in Days : LocalDay(d) \in all
        BY ChartAssumption DEF AnswerIsForDates, LocalDay, Days
  <2>4. IsFiniteSet(all)
        BY ChartAssumption, FS_Interval
  <2> HIDE DEF all
  <2>5. DayKeys \in SUBSET all
        BY <2>1, <2>2, <2>3
  <2> QED BY <2>4, <2>5, FS_Subset
<1> QED BY <1>1, <1>2

\* The highest value is that of all that is drawn.
LEMMA MaxValBounds ==
    ASSUME IsLogged, AnswerIsForDates, chartData # NoAnswer
    PROVE  /\ MaxVal \in Nat
           /\ \A day \in DayKeys, i \in 1 .. Len(StatusKeys) : Drawn(day, i) <= MaxVal
<1> DEFINE D == DayKeys \X (1 .. Len(StatusKeys))
           T == {Drawn(day, i) : day \in DayKeys, i \in 1 .. Len(StatusKeys)}
           f == [x \in D |-> Drawn(x[1], x[2])]
           S == {0} \cup T
<1>1. IsFiniteSet(D)
  <2> DEFINE I == 1 .. Len(StatusKeys)
  <2>1. IsFiniteSet(I) /\ IsFiniteSet(DayKeys)
        BY DaysAreFinite, ChartAssumption, FS_Interval
  <2> HIDE DEF I
  <2> QED BY <2>1, FS_Product DEF I
<1>2. f \in Surjection(D, T)
  <2>1. f \in [D -> T]
        OBVIOUS
  <2>2. ASSUME NEW t \in T  PROVE \E x \in D : f[x] = t
    <3>1. PICK day \in DayKeys, i \in 1 .. Len(StatusKeys) : t = Drawn(day, i)
          OBVIOUS
    <3>2. <<day, i>> \in D /\ f[<<day, i>>] = t
          BY <3>1
    <3> QED BY <3>2
  <2> QED BY <2>1, <2>2 DEF Surjection
<1>3. IsFiniteSet(T)
  <2> HIDE DEF D, T, f
  <2> QED BY <1>1, <1>2, FS_Surjection
<1>4. T \subseteq Nat
      BY DrawnIsNat
<1>5. MaxVal = Max(S)
      BY DEF MaxVal
<1>6. \A day \in DayKeys, i \in 1 .. Len(StatusKeys) : Drawn(day, i) \in S
      OBVIOUS
<1> HIDE DEF T
<1>7. IsFiniteSet(S)
      BY <1>3, FS_AddElement
<1>8. S \in SUBSET Int /\ S # {} /\ S \subseteq Nat
      BY <1>4
<1> HIDE DEF S
<1>9. PICK m \in S : \A x \in S : x <= m
      BY <1>7, <1>8, HasGreatest
<1>10. MaxVal \in S /\ \A x \in S : MaxVal >= x
      BY <1>5, <1>8, <1>9 DEF Max
<1> QED BY <1>6, <1>8, <1>10

\* The line swings out by no more than a sixth of the highest point.
LEMMA LineSwings ==
    ASSUME IsLogged, AnswerIsForDates, chartData # NoAnswer, chartType = "line",
           NEW day \in DayKeys, NEW i \in 1 .. Len(StatusKeys), NEW h \in Handles(day, i)
    PROVE  - MaxVal <= h /\ h <= 7 * MaxVal
<1>1. PICK side \in {1, -1}, a \in After(day), b \in Before(day) :
          h = 6 * Point(day, i) + side * (Point(a, i) - Point(b, i))
      BY DEF Handles
<1>2. a \in DayKeys /\ b \in DayKeys
      BY DEF After, Before
<1>3. \A x \in DayKeys : Point(x, i) \in Nat /\ Point(x, i) <= MaxVal
  <2>1. \A x \in DayKeys : Drawn(x, i) = Point(x, i)
        BY DEF Drawn
  <2>2. \A x \in DayKeys : Drawn(x, i) \in Nat
        BY DrawnIsNat
  <2> QED BY <2>1, <2>2, MaxValBounds
<1>4. MaxVal \in Nat
      BY MaxValBounds
<1> DEFINE P == Point(day, i)
           A == Point(a, i)
           B == Point(b, i)
<1>5. P \in Nat /\ A \in Nat /\ B \in Nat /\ P <= MaxVal /\ A <= MaxVal /\ B <= MaxVal
      BY <1>2, <1>3
<1>6. h = 6 * P + (A - B) \/ h = 6 * P - (A - B)
  <2>1. CASE side = 1
        BY <1>1, <1>5, <2>1
  <2>2. CASE side = -1
        BY <1>1, <1>5, <2>2
  <2> QED BY <2>1, <2>2
<1> HIDE DEF P, A, B
<1> QED BY <1>4, <1>5, <1>6

LEMMA Division ==
    ASSUME NEW n \in Nat, NEW m \in Nat \ {0}
    PROVE  n \div m \in Nat /\ m * (n \div m) <= n /\ n < m * (n \div m) + m
OBVIOUS

\* A label is no further from its tick than its rounding allows; v is four
\* times the value of the tick.
IsNear(label, v) ==
    /\ label \in Nat
    /\ v < 4000 => v - 2 < 4 * label /\ 4 * label <= v + 2
    /\ v >= 4000 /\ v < 40000 => v - 200 < 4 * label /\ 4 * label <= v + 200
    /\ v >= 40000 => v - 2000 < 4 * label /\ 4 * label <= v + 2000

LEMMA LabelIsNear ==
    ASSUME NEW i \in 0 .. 4, NEW yMax \in Nat
    PROVE  IsNear(TickLabel(i, yMax), i * yMax)
<1> SUFFICES ASSUME NEW v, v = i * yMax  PROVE IsNear(TickLabel(i, yMax), v)
    OBVIOUS
<1> DEFINE L == TickLabel(i, yMax)
<1>1. v \in Nat
      OBVIOUS
<1>2. L = IF v >= 40000 THEN 1000 * ((v + 2000) \div 4000)
          ELSE IF v >= 4000 THEN 100 * ((v + 200) \div 400)
          ELSE (v + 2) \div 4
      BY DEF TickLabel
<1> HIDE DEF L
<1>3. ASSUME v < 4000  PROVE L \in Nat /\ v - 2 < 4 * L /\ 4 * L <= v + 2
      BY <1>1, <1>2, <1>3
<1>4. ASSUME v >= 4000, v < 40000  PROVE L \in Nat /\ v - 200 < 4 * L /\ 4 * L <= v + 200
  <2>1. L = 100 * ((v + 200) \div 400) /\ v + 200 \in Nat
        BY <1>1, <1>2, <1>4
  <2>2. PICK q \in Nat : q = (v + 200) \div 400 /\ 400 * q <= v + 200 /\ v + 200 < 400 * q + 400
        BY <2>1, Division
  <2>3. L = 100 * q
        BY <2>1, <2>2
  <2> QED BY <1>1, <2>2, <2>3
<1>5. ASSUME v >= 40000  PROVE L \in Nat /\ v - 2000 < 4 * L /\ 4 * L <= v + 2000
  <2>1. L = 1000 * ((v + 2000) \div 4000) /\ v + 2000 \in Nat
        BY <1>1, <1>2, <1>5
  <2>2. PICK q \in Nat : /\ q = (v + 2000) \div 4000
                         /\ 4000 * q <= v + 2000 /\ v + 2000 < 4000 * q + 4000
        BY <2>1, Division
  <2>3. L = 1000 * q
        BY <2>1, <2>2
  <2> QED BY <1>1, <2>2, <2>3
<1>6. L \in Nat
      BY <1>1, <1>3, <1>4, <1>5
<1>7. IsNear(L, v)
      BY <1>1, <1>3, <1>4, <1>5, <1>6 DEF IsNear
<1> QED BY <1>7 DEF L

\* The labels of neighbouring ticks differ.
LEMMA LabelsRise ==
    ASSUME NEW yMax \in Nat, yMax >= 4, NEW i \in 1 .. 4
    PROVE  TickLabel(i - 1, yMax) < TickLabel(i, yMax)
<1> DEFINE v == (i - 1) * yMax
           w == i * yMax
           left == TickLabel(i - 1, yMax)
           right == TickLabel(i, yMax)
<1>1. i - 1 \in 0 .. 4 /\ i \in 0 .. 4
      OBVIOUS
<1>2. w = v + yMax /\ w <= 4 * yMax /\ v \in Nat /\ w \in Nat
      OBVIOUS
<1>3. IsNear(left, v) /\ IsNear(right, w)
  <2>1. IsNear(TickLabel(i - 1, yMax), (i - 1) * yMax)
        BY <1>1, LabelIsNear
  <2>2. IsNear(TickLabel(i, yMax), i * yMax)
        BY <1>1, LabelIsNear
  <2> QED BY <2>1, <2>2
<1> HIDE DEF v, w, left, right
<1>4. left < right
      BY <1>2, <1>3 DEF IsNear
<1> QED BY <1>4 DEF left, right

(* The axis is right for what is drawn, whatever the server counted: no    *)
(* bar or point ends beyond it, the line swings out by no more than a      *)
(* sixth of the highest, which fills three eighths of the axis or more,    *)
(* and from two requests on the labels tell the ticks apart (page.tsx      *)
(* 471-480, 507-527, 598-630).                                             *)
THEOREM AxisIsRight == ChartSpec => []FitsChart
<1>1. ChartInit => AnswerIsForDates /\ IsLogged
      BY DEF ChartInit, AnswerIsForDates, Ranges, IsLogged
<1>2. AnswerIsForDates /\ IsLogged => FitsChart
  <2> SUFFICES ASSUME AnswerIsForDates, IsLogged, chartData # NoAnswer
               PROVE  LET yMax == NiceMax(MaxVal)
                      IN  /\ \A day \in DayKeys, i \in 1 .. Len(StatusKeys) :
                                /\ Drawn(day, i) <= yMax
                                /\ chartType = "line" =>
                                      \A h \in Handles(day, i) : - MaxVal <= h /\ h <= 7 * MaxVal
                          /\ MaxVal > 0 => 3 * yMax <= 8 * MaxVal
                          /\ MaxVal > 1 => \A i \in Ticks \ {0} :
                                              TickLabel(i - 1, yMax) < TickLabel(i, yMax)
      BY DEF FitsChart
  <2> DEFINE yMax == NiceMax(MaxVal)
  <2>1. MaxVal \in Nat /\ yMax \in Nat /\ MaxVal <= yMax
        BY MaxValBounds, AxisFits
  <2>2. (MaxVal > 0 => 3 * yMax <= 8 * MaxVal) /\ (MaxVal > 1 => yMax >= 4)
        BY <2>1, AxisFits
  <2>3. ASSUME NEW day \in DayKeys, NEW i \in 1 .. Len(StatusKeys)
        PROVE  Drawn(day, i) <= yMax
    <3>1. Drawn(day, i) \in Nat /\ Drawn(day, i) <= MaxVal
          BY DrawnIsNat, MaxValBounds
    <3> HIDE DEF yMax
    <3> QED BY <2>1, <3>1
  <2> HIDE DEF yMax
  <2>4. ASSUME MaxVal > 1, NEW i \in Ticks \ {0}
        PROVE  TickLabel(i - 1, yMax) < TickLabel(i, yMax)
    <3>1. i \in 1 .. 4 /\ yMax >= 4
          BY <2>2, <2>4 DEF Ticks
    <3> QED BY <2>1, <3>1, LabelsRise
  <2> QED BY <2>2, <2>3, <2>4, LineSwings DEF yMax
<1> QED BY <1>1, <1>2, DatesKept, LoggedKept, PTL DEF ChartSpec

=============================================================================
