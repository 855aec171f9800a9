--------------------------- MODULE LogViewProofs ---------------------------
(***************************************************************************)
(* Proofs about LogView: the badge of the stream, what the stream brings,  *)
(* the pages and the bar below them, for any number of logs and pages.     *)
(***************************************************************************)
EXTENDS LogView, FiniteSetTheorems, TLAPS

-----------------------------------------------------------------------------
(* Types.                                                                  *)

\* A set of logs is finite, and there are no more than all of them.
LEMMA LogsFinite ==
    ASSUME NEW S \in SUBSET Logs
    PROVE  IsFiniteSet(S) /\ Cardinality(S) \in 0 .. MaxLog
<1>1. IsFiniteSet(Logs) /\ Cardinality(Logs) = MaxLog
      BY LogViewAssumption, FS_Interval DEF Logs
<1>2. IsFiniteSet(S) /\ Cardinality(S) \in Nat /\ Cardinality(S) <= Cardinality(Logs)
      BY <1>1, FS_Subset, FS_CardinalityType
<1> QED BY <1>1, <1>2, LogViewAssumption

\* Connections that are closed, and one that is asked for.
LEMMA ReconnectTyped ==
    ASSUME NEW enabled \in BOOLEAN, Reconnect(enabled)
    PROVE  /\ connected' \in BOOLEAN
           /\ link' \in [Links -> {"free", "asked", "open"}]
           /\ queue' \in [Links -> Seq(Logs)]
<1>1. <<>> \in Seq(Logs)
      OBVIOUS
<1> QED BY <1>1 DEF Reconnect

LEMMA AskTyped ==
    ASSUME fetch \in [Keys -> Requests \cup {None}], NEW k, Ask(k)
    PROVE  fetch' \in [Keys -> Requests \cup {None}]
<1>1. [at |-> "asked", rows |-> {}, gone |-> 0] \in Requests
      BY LogViewAssumption DEF Requests
<1> QED BY <1>1 DEF Ask

LEMMA ShowTyped ==
    ASSUME TypeOK, NEW p \in Pages, NEW f \in Filters \cup {NoFilter}, Show(p, f)
    PROVE  TypeOK'
<1>1. fetch' \in [Keys -> Requests \cup {None}]
      BY AskTyped DEF TypeOK, Show
<1>2. LiveView(p, f) \in BOOLEAN
      BY DEF LiveView
<1>3. /\ connected' \in BOOLEAN
      /\ link' \in [Links -> {"free", "asked", "open"}] /\ queue' \in [Links -> Seq(Logs)]
      BY <1>2, ReconnectTyped DEF TypeOK, Show
<1> QED BY <1>1, <1>3 DEF TypeOK, Show, serverVars

\* The variables of the types, in their classes.
THEOREM TypeCorrect == Spec => []TypeOK
<1>0. 1 \in Pages /\ NoFilter \in Filters \cup {NoFilter} /\ <<>> \in Seq(Logs)
      /\ 0 \in 0 .. MaxLog
      BY LogViewAssumption DEF Pages
<1>1. Init => TypeOK
      BY <1>0 DEF Init, TypeOK
<1>2. ASSUME TypeOK, [Next]_vars  PROVE TypeOK'
  <2>1. CASE UNCHANGED vars
        BY <1>2, <2>1 DEF TypeOK, vars, serverVars, viewVars, queryVars, streamVars
  <2>2. ASSUME NEW l \in Logs, Broadcast(l)  PROVE TypeOK'
    <3>1. PICK taking \in SUBSET {k \in Links : link[k] = "open"} :
              queue' = [k \in Links |-> IF k \in taking THEN Append(queue[k], l) ELSE queue[k]]
          BY <2>2 DEF Broadcast
    <3>2. \A k \in Links : Append(queue[k], l) \in Seq(Logs)
          BY <1>2 DEF TypeOK
    <3>3. queue' \in [Links -> Seq(Logs)]
          BY <1>2, <3>1, <3>2 DEF TypeOK
    <3> QED BY <1>2, <2>2, <3>3 DEF Broadcast, TypeOK, viewVars, queryVars
  <2>3. ASSUME NEW l \in Logs, Save(l)  PROVE TypeOK'
        BY <1>2, <2>3 DEF Save, TypeOK, viewVars, queryVars, streamVars
  <2>12. ASSUME NEW S \in SUBSET Logs, Delete(S)  PROVE TypeOK'
    <3>1. Cardinality(S) \in Nat
          BY LogViewAssumption, LogsFinite
    <3>2. ASSUME NEW k \in Keys, fetch[k] # None
          PROVE  [fetch[k] EXCEPT !.gone = @ + Cardinality(S)] \in Requests
      <4>1. fetch[k] \in Requests
            BY <1>2, <3>2 DEF TypeOK
      <4>2. fetch[k].gone + Cardinality(S) \in Nat
            BY <3>1, <4>1 DEF Requests
      <4> QED BY <4>1, <4>2 DEF Requests
    <3>3. fetch' \in [Keys -> Requests \cup {None}]
          BY <1>2, <2>12, <3>2 DEF Delete, TypeOK
    <3> QED BY <1>2, <2>12, <3>3 DEF Delete, TypeOK, viewVars, streamVars
  <2>4. ASSUME NEW k \in Keys, Answer(k)  PROVE TypeOK'
    <3>1. CASE ReadPage(k)
      <4>1. PICK n \in 0 .. PerPage : \E rows \in RowsOf(k[1], k[2], n) :
                fetch' = [fetch EXCEPT ![k] = [at |-> "paged", rows |-> rows, gone |-> 0]]
            BY <3>1 DEF ReadPage
      <4>2. PICK rows \in RowsOf(k[1], k[2], n) :
                fetch' = [fetch EXCEPT ![k] = [at |-> "paged", rows |-> rows, gone |-> 0]]
            BY <4>1
      <4>5. rows \in SUBSET Logs
            BY <1>2, <4>2 DEF RowsOf, Slices, Newest, Matches, TypeOK
      <4>3. [at |-> "paged", rows |-> rows, gone |-> 0] \in Requests
            BY <4>5 DEF Requests
      <4>4. fetch' \in [Keys -> Requests \cup {None}]
            BY <1>2, <4>2, <4>3 DEF TypeOK
      <4> QED BY <1>2, <3>1, <4>4 DEF ReadPage, TypeOK, serverVars, viewVars, streamVars
    <3>2. CASE ReadCount(k)
      <4>1. PICK total \in {CountOf(k[2]), 0} :
                cache' = [cache EXCEPT ![k] = [rows |-> fetch[k].rows, total |-> total,
                                               gone |-> fetch[k].gone]]
            BY <3>2 DEF ReadCount
      <4>2. stored \in SUBSET Logs
            BY <1>2 DEF TypeOK
      <4>3. total \in 0 .. MaxLog
            BY <1>0, <4>1, <4>2, LogsFinite DEF CountOf
      <4>4. fetch[k].rows \in SUBSET Logs /\ fetch[k].gone \in Nat
            BY <1>2, <3>2 DEF ReadCount, TypeOK, Requests
      <4>5. [rows |-> fetch[k].rows, total |-> total, gone |-> fetch[k].gone] \in Answers
            BY <4>3, <4>4 DEF Answers
      <4>6. cache' \in [Keys -> Answers \cup {None}] /\ fetch' \in [Keys -> Requests \cup {None}]
            BY <1>2, <3>2, <4>1, <4>5 DEF ReadCount, TypeOK
      <4> QED BY <1>2, <3>2, <4>6 DEF ReadCount, TypeOK, serverVars, viewVars, streamVars
    <3>3. CASE FetchFails(k)
          BY <1>2, <3>3 DEF FetchFails, TypeOK, serverVars, viewVars, streamVars
    <3> QED BY <2>4, <3>1, <3>2, <3>3 DEF Answer
  <2>5. ASSUME NEW k \in Links, Connected(k) \/ StreamEnds(k)  PROVE TypeOK'
        BY <1>0, <1>2, <2>5 DEF Connected, StreamEnds, TypeOK, serverVars, viewVars, queryVars
  <2>6. ASSUME NEW k \in Links, Receive(k)  PROVE TypeOK'
    <3>1. /\ queue[k] \in Seq(Logs) /\ queue[k] # <<>> /\ streamed \in Seq(Logs)
          /\ streamed' = <<Head(queue[k])>> \o streamed
          /\ queue' = [queue EXCEPT ![k] = Tail(queue[k])]
          BY <1>2, <2>6 DEF Receive, TypeOK
    <3>2. Head(queue[k]) \in Logs /\ Tail(queue[k]) \in Seq(Logs)
          BY <3>1
    <3>3. streamed' \in Seq(Logs) /\ queue' \in [Links -> Seq(Logs)]
          BY <1>2, <3>1, <3>2 DEF TypeOK
    <3> QED BY <1>2, <2>6, <3>3 DEF Receive, TypeOK, serverVars, viewVars, queryVars
  <2>7. CASE Enter \/ Leave
    <3>1. ASSUME NEW enabled \in BOOLEAN, Reconnect(enabled)
          PROVE  /\ connected' \in BOOLEAN /\ link' \in [Links -> {"free", "asked", "open"}]
                 /\ queue' \in [Links -> Seq(Logs)]
          BY <3>1, ReconnectTyped
    <3>2. fetch' \in [Keys -> Requests \cup {None}]
          BY <1>2, <2>7, AskTyped DEF Enter, Leave, TypeOK, queryVars
    <3> QED BY <1>0, <1>2, <2>7, <3>1, <3>2 DEF Enter, Leave, TypeOK, serverVars, queryVars
  <2>8. CASE Refresh
    <3>1. [at |-> "asked", rows |-> {}, gone |-> 0] \in Requests
          BY <1>0 DEF Requests
    <3> QED BY <1>0, <1>2, <2>8, <3>1 DEF Refresh, TypeOK, serverVars, viewVars
  <2>9. CASE ApplyFilter \/ ClearFilters
        BY <1>0, <1>2, <2>9, ShowTyped DEF ApplyFilter, ClearFilters, TypeOK
  <2>10. ASSUME NEW p \in Pages, TurnPage(p)  PROVE TypeOK'
        BY <1>2, <2>10, ShowTyped DEF TurnPage, TypeOK
  <2>11. ASSUME NEW f \in Filters \cup {NoFilter}, ChangeFilter(f)  PROVE TypeOK'
        BY <1>2, <2>11, ShowTyped DEF ChangeFilter, TypeOK
  <2> QED BY <1>2, <2>1, <2>2, <2>3, <2>4, <2>5, <2>6, <2>7, <2>8, <2>9, <2>10, <2>11, <2>12
          DEF Next, Server, Stream, User
<1> QED BY <1>1, <1>2, PTL DEF Spec

-----------------------------------------------------------------------------
(* The badge.                                                              *)

\* One connection at a time is asked for or open.
OneLink == \A j, k \in Links : link[j] # "free" /\ link[k] # "free" => j = k

Badge == OneLink /\ LiveIsLive

LEMMA ReconnectBadge == ASSUME NEW enabled \in BOOLEAN, Reconnect(enabled)  PROVE Badge'
BY DEF Reconnect, Badge, OneLink, LiveIsLive

LEMMA ShowBadge == ASSUME Badge, NEW p, NEW f, Show(p, f)  PROVE Badge'
<1>1. LiveView(p, f) \in BOOLEAN
      BY DEF LiveView
<1> QED BY <1>1, ReconnectBadge DEF Show, Badge, OneLink, LiveIsLive

LEMMA BadgeKept == TypeOK /\ Badge /\ [Next]_vars => Badge'
<1> SUFFICES ASSUME TypeOK, Badge, [Next]_vars  PROVE Badge'
    OBVIOUS
<1>1. ASSUME UNCHANGED <<connected, link>>  PROVE Badge'
      BY <1>1 DEF Badge, OneLink, LiveIsLive
<1>2. CASE Server \/ UNCHANGED vars
      BY <1>1, <1>2 DEF Server, Broadcast, Save, Delete, vars, streamVars
<1>3. ASSUME NEW k \in Keys, Answer(k)  PROVE Badge'
      BY <1>1, <1>3 DEF Answer, ReadPage, ReadCount, FetchFails, streamVars
<1>4. CASE Stream
  <2>1. ASSUME NEW k \in Links, Connected(k)  PROVE Badge'
        BY <2>1 DEF Connected, TypeOK, Badge, OneLink, LiveIsLive
  <2>2. ASSUME NEW k \in Links, Receive(k)  PROVE Badge'
        BY <1>1, <2>2 DEF Receive
  <2>3. ASSUME NEW k \in Links, StreamEnds(k)  PROVE Badge'
        BY <2>3 DEF StreamEnds, TypeOK, Badge, OneLink, LiveIsLive
  <2> QED BY <1>4, <2>1, <2>2, <2>3 DEF Stream
<1>5. CASE User
  <2>1. CASE Enter \/ Leave
        BY <2>1, ReconnectBadge DEF Enter, Leave
  <2>2. CASE Refresh
        BY <1>1, <2>2 DEF Refresh
  <2>3. CASE ~ (Enter \/ Leave \/ Refresh)
        BY <1>5, <2>3, ShowBadge DEF User, ApplyFilter, ClearFilters, TurnPage, ChangeFilter
  <2> QED BY <2>1, <2>2, <2>3
<1> QED BY <1>2, <1>3, <1>4, <1>5 DEF Next

\* For any number of connections there is room for: the effect aborts the one
\* there was, so the badge is that of the only one (useLogStream.ts 13-17, 63-68).
THEOREM BadgeIsRight == Spec => []LiveIsLive
<1>1. Init => Badge
      BY DEF Init, Badge, OneLink, LiveIsLive
<1>2. Badge => LiveIsLive
      BY DEF Badge
<1> QED BY <1>1, <1>2, TypeCorrect, BadgeKept, PTL DEF Spec

-----------------------------------------------------------------------------
(* What the stream brings.                                                 *)

\* The logs that have come, or wait to be read, were broadcast and differ.
Arrived ==
    /\ IsInjective(streamed) /\ \A i \in DOMAIN streamed : streamed[i] \in sent
    /\ \A k \in Links : /\ IsInjective(queue[k])
                        /\ queue[k] # <<>> => link[k] = "open"
                        /\ \A i \in DOMAIN queue[k] : /\ queue[k][i] \in sent
                                                      /\ \A j \in DOMAIN streamed :
                                                            queue[k][i] # streamed[j]

LEMMA NothingArrives ==
    ASSUME Arrived, streamed' \in {streamed, <<>>}, sent \subseteq sent',
           \A k \in Links : queue'[k] = <<>> \/ (queue'[k] = queue[k] /\ link'[k] = link[k])
    PROVE  Arrived'
<1>1. DOMAIN (<<>>) = {} /\ IsInjective(<<>>)
      BY DEF IsInjective
<1>2. CASE streamed' = streamed
      BY <1>1, <1>2 DEF Arrived
<1>3. CASE streamed' = <<>>
      BY <1>1, <1>3 DEF Arrived
<1> QED BY <1>2, <1>3

LEMMA ReconnectArrives ==
    ASSUME NEW enabled \in BOOLEAN, Reconnect(enabled)
    PROVE  \A k \in Links : queue'[k] = <<>>
BY DEF Reconnect

LEMMA ShowArrives == ASSUME Arrived, NEW p, NEW f, Show(p, f)  PROVE Arrived'
<1>1. LiveView(p, f) \in BOOLEAN
      BY DEF LiveView
<1>2. \A k \in Links : queue'[k] = <<>> \/ (queue'[k] = queue[k] /\ link'[k] = link[k])
      BY <1>1, ReconnectArrives DEF Show
<1>3. streamed' = streamed /\ sent' = sent
      BY DEF Show, serverVars
<1> QED BY <1>2, <1>3, NothingArrives

LEMMA ArrivedKept == TypeOK /\ Badge /\ Arrived /\ [Next]_vars => Arrived'
<1> SUFFICES ASSUME TypeOK, Badge, Arrived, [Next]_vars  PROVE Arrived'
    OBVIOUS
<1>1. CASE UNCHANGED vars
      BY <1>1, NothingArrives DEF vars, serverVars, streamVars
<1>2. ASSUME NEW l \in Logs, Broadcast(l)  PROVE Arrived'
  <2>1. PICK taking \in SUBSET {k \in Links : link[k] = "open"} :
            queue' = [k \in Links |-> IF k \in taking THEN Append(queue[k], l) ELSE queue[k]]
        BY <1>2 DEF Broadcast
  <2>2. l \notin sent /\ sent' = sent \cup {l} /\ streamed' = streamed /\ link' = link
        BY <1>2 DEF Broadcast
  <2>3. ASSUME NEW k \in Links
        PROVE  /\ IsInjective(queue'[k])
               /\ queue'[k] # <<>> => link[k] = "open"
               /\ \A i \in DOMAIN queue'[k] : /\ queue'[k][i] \in sent'
                                              /\ \A j \in DOMAIN streamed :
                                                    queue'[k][i] # streamed[j]
    <3>1. CASE k \notin taking
          BY <2>1, <2>2, <3>1 DEF Arrived
    <3>2. CASE k \in taking
      <4>1. /\ queue[k] \in Seq(Logs) /\ queue'[k] = Append(queue[k], l) /\ link[k] = "open"
            BY <2>1, <3>2 DEF TypeOK
      <4>2. /\ Len(queue[k]) \in Nat /\ DOMAIN queue[k] = 1 .. Len(queue[k])
            /\ DOMAIN queue'[k] = 1 .. Len(queue[k]) + 1
            /\ \A i \in DOMAIN queue[k] : queue'[k][i] = queue[k][i]
            /\ queue'[k][Len(queue[k]) + 1] = l
            BY <4>1
      <4>3. \A i \in DOMAIN queue'[k] : \/ i \in DOMAIN queue[k]
                                        \/ queue'[k][i] = l /\ i = Len(queue[k]) + 1
            BY <4>2
      <4>4. IsInjective(queue'[k])
            BY <2>2, <4>2, <4>3 DEF Arrived, IsInjective
      <4>5. \A i \in DOMAIN queue'[k] : /\ queue'[k][i] \in sent'
                                        /\ \A j \in DOMAIN streamed : queue'[k][i] # streamed[j]
            BY <2>2, <4>2, <4>3 DEF Arrived
      <4> QED BY <4>1, <4>4, <4>5
    <3> QED BY <3>1, <3>2
  <2> QED BY <2>2, <2>3 DEF Arrived
<1>3. ASSUME NEW l \in Logs, Save(l)  PROVE Arrived'
      BY <1>3, NothingArrives DEF Save, streamVars
<1>11. ASSUME NEW S \in SUBSET Logs, Delete(S)  PROVE Arrived'
      BY <1>11, NothingArrives DEF Delete, streamVars
<1>4. ASSUME NEW k \in Keys, Answer(k)  PROVE Arrived'
      BY <1>4, NothingArrives DEF Answer, ReadPage, ReadCount, FetchFails, serverVars, streamVars
<1>5. ASSUME NEW k \in Links, Connected(k)  PROVE Arrived'
      BY <1>5 DEF Connected, Arrived, TypeOK, serverVars
<1>6. ASSUME NEW k \in Links, Receive(k)  PROVE Arrived'
  <2>1. /\ link[k] = "open" /\ queue[k] # <<>> /\ queue[k] \in Seq(Logs) /\ streamed \in Seq(Logs)
        /\ streamed' = <<Head(queue[k])>> \o streamed /\ queue'[k] = Tail(queue[k])
        /\ \A j \in Links : j # k => queue'[j] = queue[j]
        /\ UNCHANGED <<sent, link>>
        BY <1>6 DEF Receive, TypeOK, serverVars
  <2>2. /\ Len(queue[k]) \in Nat /\ DOMAIN queue[k] = 1 .. Len(queue[k]) /\ Len(queue[k]) >= 1
        /\ queue'[k] \in Seq(Logs) /\ DOMAIN queue'[k] = 1 .. Len(queue[k]) - 1
        /\ \A i \in DOMAIN queue'[k] : queue'[k][i] = queue[k][i + 1]
        /\ Head(queue[k]) = queue[k][1]
        BY <2>1
  <2>3. /\ Len(streamed) \in Nat /\ DOMAIN streamed = 1 .. Len(streamed)
        /\ DOMAIN streamed' = 1 .. Len(streamed) + 1
        /\ streamed'[1] = Head(queue[k])
        /\ \A i \in 2 .. Len(streamed) + 1 : streamed'[i] = streamed[i - 1]
        BY <2>1, <2>2
  <2>4. \A j \in Links : j # k => queue[j] = <<>>
        BY <2>1 DEF Badge, OneLink, Arrived
  <2>5. \A i \in DOMAIN streamed' :
            i = 1 \/ (i - 1 \in DOMAIN streamed /\ streamed'[i] = streamed[i - 1])
        BY <2>3
  <2>6. IsInjective(streamed')
        BY <2>2, <2>3, <2>5 DEF Arrived, IsInjective
  <2>7. \A i \in DOMAIN streamed' : streamed'[i] \in sent'
        BY <2>1, <2>2, <2>3, <2>5 DEF Arrived
  <2>8. IsInjective(queue'[k])
        BY <2>2 DEF Arrived, IsInjective
  <2>9. ASSUME NEW i \in DOMAIN queue'[k]
        PROVE  queue'[k][i] \in sent' /\ \A j \in DOMAIN streamed' : queue'[k][i] # streamed'[j]
    <3>1. i + 1 \in DOMAIN queue[k] /\ i + 1 # 1 /\ 1 \in DOMAIN queue[k]
          /\ queue'[k][i] = queue[k][i + 1]
          BY <2>2, <2>9
    <3>2. queue[k][i + 1] # queue[k][1]
          BY <3>1 DEF Arrived, IsInjective
    <3>3. queue[k][i + 1] \in sent /\ \A j \in DOMAIN streamed : queue[k][i + 1] # streamed[j]
          BY <3>1 DEF Arrived
    <3> QED BY <2>1, <2>2, <2>3, <2>5, <3>1, <3>2, <3>3
  <2>10. DOMAIN (<<>>) = {} /\ IsInjective(<<>>)
        BY DEF IsInjective
  <2>11. ASSUME NEW j \in Links
         PROVE  /\ IsInjective(queue'[j])
                /\ queue'[j] # <<>> => link'[j] = "open"
                /\ \A i \in DOMAIN queue'[j] : /\ queue'[j][i] \in sent'
                                               /\ \A h \in DOMAIN streamed' :
                                                     queue'[j][i] # streamed'[h]
    <3>1. CASE j = k
          BY <2>1, <2>8, <2>9, <3>1
    <3>2. CASE j # k
      <4>1. queue'[j] = <<>>
            BY <2>1, <2>4, <3>2
      <4> QED BY <2>10, <4>1
    <3> QED BY <3>1, <3>2
  <2> QED BY <2>6, <2>7, <2>11 DEF Arrived
<1>7. ASSUME NEW k \in Links, StreamEnds(k)  PROVE Arrived'
  <2>1. /\ streamed' = streamed /\ sent' = sent
        /\ \A j \in Links : queue'[j] = <<>> \/ (queue'[j] = queue[j] /\ link'[j] = link[j])
        BY <1>7 DEF StreamEnds, TypeOK, serverVars
  <2> QED BY <2>1, NothingArrives
<1>8. CASE Enter \/ Leave
  <2>1. /\ streamed' = <<>> /\ sent' = sent
        /\ \A k \in Links : queue'[k] = <<>>
        BY <1>8, ReconnectArrives DEF Enter, Leave, serverVars
  <2> QED BY <2>1, NothingArrives
<1>9. CASE Refresh
      BY <1>9, NothingArrives DEF Refresh, serverVars
<1>10. CASE User /\ ~ (Enter \/ Leave \/ Refresh)
      BY <1>10, ShowArrives DEF User, ApplyFilter, ClearFilters, TurnPage, ChangeFilter
<1> QED BY <1>1, <1>2, <1>3, <1>4, <1>5, <1>6, <1>7, <1>8, <1>9, <1>10, <1>11
    DEF Next, Server, Stream

\* However many logs are sent and however often the user leaves the live view
\* and comes back: what a connection had not delivered when it was aborted is
\* lost, and nothing comes twice (useLogStream.ts 13-17, 73-75).
THEOREM StreamedAtMostOnce == Spec => []StreamedOnce
<1>1. Init => Badge
      BY DEF Init, Badge, OneLink, LiveIsLive
<1>2. Init => Arrived
  <2>1. DOMAIN (<<>>) = {} /\ IsInjective(<<>>)
        BY DEF IsInjective
  <2> QED BY <2>1 DEF Init, Arrived
<1>3. Arrived => StreamedOnce
      BY DEF Arrived, StreamedOnce
<1> QED BY <1>1, <1>2, <1>3, TypeCorrect, BadgeKept, ArrivedKept, PTL DEF Spec

-----------------------------------------------------------------------------
(* The pages.                                                              *)

\* Division by the length of a page.
LEMMA PageBounds ==
    ASSUME NEW n \in Nat, NEW P \in Nat \ {0}
    PROVE  n \div P \in Nat /\ P * (n \div P) <= n /\ n < P * (n \div P) + P
OBVIOUS

LEMMA LastPage ==
    ASSUME NEW n \in Nat, NEW s \in Nat, NEW P \in Nat \ {0}, n < s
    PROVE  n \div P + 1 <= (s + P - 1) \div P
OBVIOUS

\* A log in place n + 1 or before is on one of the pages a count of n or more gives.
LEMMA PageCounted ==
    ASSUME NEW p \in Nat \ {0}, NEW t \in Nat, (p - 1) * PerPage < t
    PROVE  p <= TotalPages(t)
<1> DEFINE P == PerPage
           n == (p - 1) * P
<1>1. P \in Nat \ {0}
      BY LogViewAssumption
<1> HIDE DEF P
<1>2. n \in Nat /\ n < t /\ t # 0
      BY <1>1 DEF P
<1>3. n \div P = p - 1
      BY <1>1
<1> HIDE DEF n
<1>4. n \div P + 1 <= (t + P - 1) \div P
      BY <1>1, <1>2, LastPage
<1>5. TotalPages(t) = (t + P - 1) \div P
      BY <1>2 DEF TotalPages, P
<1>6. (t + P - 1) \div P \in Nat
      BY <1>1, <1>2, PageBounds
<1> QED BY <1>3, <1>4, <1>5, <1>6

\* The newest logs of a set, however equal timestamps are ordered.
LEMMA NewestAre ==
    ASSUME NEW S \in SUBSET Logs, NEW n \in Nat, NEW A \in Newest(S, n)
    PROVE  /\ A \in SUBSET S /\ IsFiniteSet(A) /\ Cardinality(A) \in Nat
           /\ IsFiniteSet(S) /\ Cardinality(S) \in Nat
           /\ Cardinality(A) = IF n <= Cardinality(S) THEN n ELSE Cardinality(S)
           /\ \A l \in A, m \in S \ A : stamp[m] <= stamp[l]
<1>1. A \in SUBSET S /\ A \in SUBSET Logs
      BY DEF Newest
<1>2. IsFiniteSet(A) /\ IsFiniteSet(S)
      BY <1>1, LogsFinite
<1> QED BY <1>1, <1>2, FS_CardinalityType DEF Newest

\* A slice is no longer than its limit, and empty when its offset is no less
\* than there are logs.
LEMMA SliceBounds ==
    ASSUME NEW S \in SUBSET Logs, NEW o \in Nat, NEW n \in Nat, NEW R \in Slices(S, o, n)
    PROVE  /\ R \in SUBSET S /\ Cardinality(R) \in Nat /\ Cardinality(R) <= n
           /\ R # {} => o < Cardinality(S)
<1>1. PICK A \in Newest(S, o), B \in Newest(S, o + n) : A \subseteq B /\ R = B \ A
      BY DEF Slices
<1>2. /\ IsFiniteSet(A) /\ Cardinality(A) \in Nat /\ Cardinality(S) \in Nat /\ IsFiniteSet(S)
      /\ A \in SUBSET S
      /\ Cardinality(A) = IF o <= Cardinality(S) THEN o ELSE Cardinality(S)
      BY NewestAre
<1>3. /\ o + n \in Nat /\ B \in SUBSET S /\ IsFiniteSet(B) /\ Cardinality(B) \in Nat
      /\ Cardinality(B) = IF o + n <= Cardinality(S) THEN o + n ELSE Cardinality(S)
  <2>1. o + n \in Nat
        OBVIOUS
  <2> QED BY <2>1, NewestAre
<1>4. Cardinality(R) = Cardinality(B) - Cardinality(A) /\ IsFiniteSet(R)
  <2>1. B \cap A = A
        BY <1>1
  <2> QED BY <1>1, <1>2, <1>3, <2>1, FS_Difference
<1>5. Cardinality(R) \in Nat
      BY <1>4, FS_CardinalityType
<1>6. ASSUME Cardinality(S) <= o  PROVE R = {}
  <2>1. Cardinality(R) = 0
        BY <1>2, <1>3, <1>4, <1>6
  <2> QED BY <1>4, <2>1, FS_EmptySet
<1> QED BY <1>1, <1>2, <1>3, <1>4, <1>5, <1>6

\* The logs put before a log are those of later timestamps and perhaps others
\* of its own.
LEMMA Places ==
    ASSUME NEW S \in SUBSET Logs, NEW l \in S, NEW n \in Nat, NEW A \in Newest(S, n),
           stamp \in [Logs -> Nat]
    PROVE  LET newer == Cardinality({m \in S : stamp[m] > stamp[l]})
               upTo == Cardinality({m \in S : stamp[m] >= stamp[l]})
           IN  /\ newer \in Nat /\ upTo \in Nat /\ newer < upTo /\ upTo <= Cardinality(S)
               /\ l \in A => newer < n
               /\ l \notin A => n < upTo
<1> DEFINE N == {m \in S : stamp[m] > stamp[l]}
           U == {m \in S : stamp[m] >= stamp[l]}
<1>1. /\ A \in SUBSET S /\ IsFiniteSet(A) /\ Cardinality(A) \in Nat
      /\ IsFiniteSet(S) /\ Cardinality(S) \in Nat
      /\ Cardinality(A) = IF n <= Cardinality(S) THEN n ELSE Cardinality(S)
      /\ \A k \in A, m \in S \ A : stamp[m] <= stamp[k]
      BY NewestAre
<1>2. \A m \in S : stamp[m] \in Nat
      OBVIOUS
<1>3. N \in SUBSET U /\ U \in SUBSET S /\ l \in U /\ l \notin N
      BY <1>2
<1>4. ASSUME l \in A  PROVE N \in SUBSET A
      BY <1>1, <1>2, <1>4
<1>5. ASSUME l \notin A  PROVE A \in SUBSET U
      BY <1>1, <1>2, <1>5
<1> HIDE DEF N, U
<1>6. IsFiniteSet(N) /\ IsFiniteSet(U) /\ Cardinality(N) \in Nat /\ Cardinality(U) \in Nat
      BY <1>1, <1>3, FS_Subset, FS_CardinalityType
<1>7. Cardinality(N) < Cardinality(U)
      BY <1>3, <1>6, FS_Subset
<1>8. Cardinality(U) <= Cardinality(S)
      BY <1>1, <1>3, FS_Subset
<1>9. ASSUME l \in A  PROVE Cardinality(N) < n
  <2>1. N \in SUBSET A /\ N # A
        BY <1>3, <1>4, <1>9
  <2>2. Cardinality(N) < Cardinality(A)
        BY <1>1, <1>6, <2>1, FS_Subset
  <2> QED BY <1>1, <1>6, <2>2
<1>10. ASSUME l \notin A  PROVE n < Cardinality(U)
  <2>1. A \in SUBSET U /\ A # U
        BY <1>3, <1>5, <1>10
  <2>2. Cardinality(A) < Cardinality(U)
        BY <1>1, <1>6, <2>1, FS_Subset
  <2> QED BY <1>1, <1>6, <1>8, <2>2
<1> QED BY <1>6, <1>7, <1>8, <1>9, <1>10 DEF N, U

\* The page of a place.
LEMMA PagesOfPlaces ==
    ASSUME NEW n \in Nat \ {0}, NEW p \in Nat \ {0}
    PROVE  /\ PageOfPlace(n) \in Nat \ {0}
           /\ p <= PageOfPlace(n) <=> (p - 1) * PerPage < n
           /\ PageOfPlace(n) <= p <=> n <= (p - 1) * PerPage + PerPage
<1> DEFINE P == PerPage
           d == (n - 1) \div P
<1>1. P \in Nat \ {0}
      BY LogViewAssumption
<1>2. n - 1 \in Nat
      OBVIOUS
<1> HIDE DEF P
<1>3. d \in Nat /\ P * d <= n - 1 /\ n - 1 < P * d + P
      BY <1>1, <1>2, PageBounds
<1>4. PageOfPlace(n) = d + 1
      BY DEF PageOfPlace, P
<1> HIDE DEF d
<1>5. \A i, j \in Nat : i <= j => P * i <= P * j
      BY <1>1
<1>6. p - 1 <= d => P * (p - 1) <= n - 1
  <2> SUFFICES ASSUME p - 1 <= d  PROVE P * (p - 1) <= n - 1
      OBVIOUS
  <2>1. P * (p - 1) <= P * d
        BY <1>3, <1>5
  <2>2. P * (p - 1) \in Nat /\ P * d \in Nat
        BY <1>1, <1>3
  <2> QED BY <1>3, <2>1, <2>2
<1>7. d + 1 <= p - 1 => n - 1 < P * (p - 1)
  <2> SUFFICES ASSUME d + 1 <= p - 1  PROVE n - 1 < P * (p - 1)
      OBVIOUS
  <2>1. P * (d + 1) <= P * (p - 1)
        BY <1>3, <1>5
  <2>2. P * (d + 1) = P * d + P /\ P * (p - 1) \in Nat /\ P * d \in Nat
        BY <1>1, <1>3
  <2> QED BY <1>1, <1>3, <2>1, <2>2
<1>8. d <= p - 1 => n - 1 < P * (p - 1) + P
  <2> SUFFICES ASSUME d <= p - 1  PROVE n - 1 < P * (p - 1) + P
      OBVIOUS
  <2>1. P * d <= P * (p - 1)
        BY <1>3, <1>5
  <2>2. P * (p - 1) \in Nat /\ P * d \in Nat
        BY <1>1, <1>3
  <2> QED BY <1>1, <1>3, <2>1, <2>2
<1>9. p <= d => P * (p - 1) + P <= n - 1
  <2> SUFFICES ASSUME p <= d  PROVE P * (p - 1) + P <= n - 1
      OBVIOUS
  <2>1. P * p <= P * d
        BY <1>3, <1>5
  <2>2. P * p = P * (p - 1) + P /\ P * p \in Nat /\ P * d \in Nat
        BY <1>1, <1>3
  <2> QED BY <1>1, <1>3, <2>1, <2>2
<1>10. P * (p - 1) = (p - 1) * PerPage /\ P * (p - 1) \in Nat
      BY <1>1 DEF P
<1>11. P * (p - 1) + P = (p - 1) * PerPage + PerPage
      BY <1>10 DEF P
<1> QED BY <1>1, <1>3, <1>4, <1>6, <1>7, <1>8, <1>9, <1>10, <1>11

\* A log of a page is where its place may be, and on it when it can be on no other.
LEMMA PageHasItsLogs ==
    ASSUME stored \in SUBSET Logs, stamp \in [Logs -> Nat], NEW f, NEW l \in Matches(f),
           NEW p \in Nat \ {0}, NEW rows \in RowsOf(p, f, PerPage)
    PROVE  /\ l \in rows => /\ PageOfPlace(FirstPlace(l, f)) <= p
                            /\ p <= PageOfPlace(LastPlace(l, f))
           /\ PageOfPlace(FirstPlace(l, f)) = p /\ PageOfPlace(LastPlace(l, f)) = p => l \in rows
<1> DEFINE S == Matches(f)
           o == (p - 1) * PerPage
           N == Cardinality({m \in S : stamp[m] > stamp[l]})
           U == Cardinality({m \in S : stamp[m] >= stamp[l]})
<1>1. S \in SUBSET Logs /\ l \in S /\ PerPage \in Nat \ {0}
      BY LogViewAssumption DEF Matches
<1>2. o \in Nat /\ o + PerPage \in Nat
      BY <1>1
<1>3. rows \in Slices(S, o, PerPage)
      BY DEF RowsOf
<1>4. FirstPlace(l, f) = N + 1 /\ LastPlace(l, f) = U
      BY DEF FirstPlace, LastPlace
<1> HIDE DEF S, o
<1>5. PICK A \in Newest(S, o), B \in Newest(S, o + PerPage) : A \subseteq B /\ rows = B \ A
      BY <1>3 DEF Slices
<1>6. /\ N \in Nat /\ U \in Nat /\ N < U
      /\ l \in A => N < o
      /\ l \notin A => o < U
      BY <1>1, <1>2, <1>5, Places
<1>7. /\ l \in B => N < o + PerPage
      /\ l \notin B => o + PerPage < U
      BY <1>1, <1>2, <1>5, Places
<1> HIDE DEF N, U
<1>8. N + 1 \in Nat \ {0} /\ U \in Nat \ {0}
      BY <1>6
<1>9. /\ PageOfPlace(N + 1) <= p <=> N + 1 <= o + PerPage
      /\ p <= PageOfPlace(N + 1) <=> o < N + 1
      /\ PageOfPlace(N + 1) \in Nat
      BY <1>8, PagesOfPlaces DEF o
<1>10. /\ PageOfPlace(U) <= p <=> U <= o + PerPage
       /\ p <= PageOfPlace(U) <=> o < U
       /\ PageOfPlace(U) \in Nat
      BY <1>8, PagesOfPlaces DEF o
<1>11. ASSUME l \in rows  PROVE PageOfPlace(N + 1) <= p /\ p <= PageOfPlace(U)
      BY <1>1, <1>2, <1>5, <1>6, <1>7, <1>9, <1>10, <1>11
<1>12. ASSUME PageOfPlace(N + 1) = p, PageOfPlace(U) = p  PROVE l \in rows
      BY <1>1, <1>2, <1>5, <1>6, <1>7, <1>9, <1>10, <1>12
<1> QED BY <1>4, <1>11, <1>12

\* The last page a log may be on is one the count gives.
LEMMA PageIsCounted ==
    ASSUME stored \in SUBSET Logs, stamp \in [Logs -> Nat], NEW f, NEW l \in Matches(f)
    PROVE  PageOfPlace(LastPlace(l, f)) <= TotalPages(CountOf(f))
<1> DEFINE S == Matches(f)
           U == {m \in S : stamp[m] >= stamp[l]}
<1>1. U \in SUBSET stored /\ l \in U
      BY DEF Matches
<1>2. /\ IsFiniteSet(stored) /\ Cardinality(stored) \in Nat
      /\ IsFiniteSet(U) /\ Cardinality(U) \in Nat
      BY <1>1, LogsFinite
<1>3. LastPlace(l, f) = Cardinality(U)
      BY DEF LastPlace
<1> HIDE DEF U
<1>4. Cardinality(U) <= Cardinality(stored) /\ Cardinality(U) # 0
      BY <1>1, <1>2, FS_Subset, FS_EmptySet
<1> DEFINE n == Cardinality(U)
           p == PageOfPlace(n)
<1>5. n \in Nat \ {0}
      BY <1>2, <1>4
<1> HIDE DEF n
<1>6. p \in Nat \ {0}
  <2>1. \A q \in Nat \ {0} : PageOfPlace(n) \in Nat \ {0}
        BY <1>5, PagesOfPlaces
  <2> QED BY <2>1
<1> HIDE DEF p
<1>7. (p - 1) * PerPage < n
  <2>1. p <= PageOfPlace(n) <=> (p - 1) * PerPage < n
        BY <1>5, <1>6, PagesOfPlaces
  <2>2. p <= PageOfPlace(n)
        BY <1>6 DEF p
  <2> QED BY <2>1, <2>2
<1>8. (p - 1) * PerPage \in Nat
      BY <1>6, LogViewAssumption
<1>9. (p - 1) * PerPage < Cardinality(stored)
      BY <1>2, <1>4, <1>7, <1>8 DEF n
<1>10. p <= TotalPages(Cardinality(stored))
      BY <1>2, <1>6, <1>9, PageCounted
<1> QED BY <1>3, <1>10 DEF p, n, CountOf

\* For any number of logs, any timestamps and any length of a page: a log is
\* only on the pages its place may fall on, which the count reaches, and on its
\* page always when it is one (repository.go 44-45, 74-90).
THEOREM LogsOnTheirPages == Spec => []OnItsPage
<1>1. TypeOK => OnItsPage
  <2> SUFFICES ASSUME TypeOK, NEW f \in Filters \cup {NoFilter}, NEW l \in Matches(f)
               PROVE  LET first == PageOfPlace(FirstPlace(l, f))
                          last == PageOfPlace(LastPlace(l, f))
                      IN  /\ last <= TotalPages(CountOf(f))
                          /\ \A p \in Pages : \A rows \in RowsOf(p, f, PerPage) :
                                 /\ l \in rows => first <= p /\ p <= last
                                 /\ first = p /\ last = p => l \in rows
      BY DEF OnItsPage
  <2>1. stored \in SUBSET Logs /\ stamp \in [Logs -> Nat]
        BY LogViewAssumption DEF TypeOK
  <2>2. \A p \in Pages : p \in Nat \ {0}
        BY LogViewAssumption DEF Pages
  <2> QED BY <2>1, <2>2, PageHasItsLogs, PageIsCounted
<1> QED BY <1>1, TypeCorrect, PTL

\* An answer that may be cached for a page and a filter.
Fits(rows, k) == rows \subseteq Matching[k[2]] /\ Cardinality(rows) <= PerPage

CachedFit ==
    \A k \in Keys : cache[k] # None =>
        /\ Fits(cache[k].rows, k)
        /\ cache[k].rows # {} /\ cache[k].total # 0 =>
              (k[1] - 1) * PerPage < cache[k].total + cache[k].gone
FetchedFit ==
    \A k \in Keys : fetch[k] # None =>
        /\ Fits(fetch[k].rows, k)
        /\ fetch[k].rows # {} => /\ fetch[k].at = "paged"
                                /\ (k[1] - 1) * PerPage < Cardinality(stored) + fetch[k].gone
AnswersFit == CachedFit /\ FetchedFit

\* Nothing is asked yet.
LEMMA NothingFits == \A k : Fits({}, k)
<1>1. Cardinality({}) = 0 /\ PerPage \in Nat
      BY FS_EmptySet, LogViewAssumption
<1> QED BY <1>1 DEF Fits

LEMMA AskFits == ASSUME FetchedFit, NEW k, Ask(k), stored' = stored,
                        fetch \in [Keys -> Requests \cup {None}]
                 PROVE  FetchedFit'
<1>1. \A j \in Keys : fetch'[j] = fetch[j] \/ fetch'[j].rows = {}
      BY DEF Ask
<1> QED BY <1>1, NothingFits DEF FetchedFit

LEMMA ShowFits == ASSUME TypeOK, AnswersFit, NEW p, NEW f, Show(p, f)  PROVE AnswersFit'
<1>1. cache' = cache /\ stored' = stored /\ (fetch' = fetch \/ Ask(QueryKey(p, f)))
      BY DEF Show, serverVars
<1>2. FetchedFit'
      BY <1>1, AskFits DEF AnswersFit, FetchedFit, TypeOK
<1> QED BY <1>1, <1>2 DEF AnswersFit, CachedFit

LEMMA AnswersFitKept == TypeOK /\ AnswersFit /\ [Next]_vars => AnswersFit'
<1> SUFFICES ASSUME TypeOK, AnswersFit, [Next]_vars  PROVE AnswersFit'
    OBVIOUS
<1>1. /\ stored \in SUBSET Logs /\ fetch \in [Keys -> Requests \cup {None}]
      /\ cache \in [Keys -> Answers \cup {None}] /\ \A k \in Keys : k[1] \in Nat
      BY LogViewAssumption DEF TypeOK, Keys, Pages
<1>2. ASSUME UNCHANGED <<stored, cache, fetch>>  PROVE AnswersFit'
      BY <1>2 DEF AnswersFit, CachedFit, FetchedFit
<1>3. CASE UNCHANGED vars \/ Stream
      BY <1>2, <1>3 DEF vars, serverVars, queryVars, Stream, Connected, Receive, StreamEnds
<1>4. ASSUME NEW l \in Logs, Broadcast(l)  PROVE AnswersFit'
      BY <1>2, <1>4 DEF Broadcast, queryVars
<1>5. ASSUME NEW l \in Logs, Save(l)  PROVE AnswersFit'
  <2>1. stored' = stored \cup {l} /\ UNCHANGED <<cache, fetch>>
        BY <1>5 DEF Save, queryVars
  <2>2. /\ Cardinality(stored) \in Nat /\ Cardinality(stored') \in Nat
        /\ Cardinality(stored) <= Cardinality(stored')
    <3>1. stored' \in SUBSET Logs /\ stored \in SUBSET stored'
          BY <1>1, <2>1
    <3>2. IsFiniteSet(stored') /\ Cardinality(stored') \in Nat /\ Cardinality(stored) \in Nat
          BY <1>1, <3>1, LogsFinite
    <3> QED BY <3>1, <3>2, FS_Subset
  <2>3. ASSUME NEW k \in Keys, fetch[k] # None, fetch[k].rows # {}
        PROVE  (k[1] - 1) * PerPage < Cardinality(stored') + fetch[k].gone
    <3>1. (k[1] - 1) * PerPage < Cardinality(stored) + fetch[k].gone
          BY <2>3 DEF AnswersFit, FetchedFit
    <3>2. (k[1] - 1) * PerPage \in Int /\ fetch[k].gone \in Nat
          BY <1>1, <2>3, LogViewAssumption DEF Requests
    <3> QED BY <2>2, <3>1, <3>2
  <2> QED BY <2>1, <2>3 DEF AnswersFit, CachedFit, FetchedFit
<1>12. ASSUME NEW S \in SUBSET Logs, Delete(S)  PROVE AnswersFit'
  <2>1. /\ S \subseteq stored /\ stored' = stored \ S /\ cache' = cache
        /\ \A k \in Keys :
              fetch'[k] = IF fetch[k] = None \/ fetch[k].at = "asked" THEN fetch[k]
                          ELSE [fetch[k] EXCEPT !.gone = @ + Cardinality(S)]
        BY <1>1, <1>12 DEF Delete
  <2>2. /\ Cardinality(S) \in Nat /\ Cardinality(stored) \in Nat /\ Cardinality(stored') \in Nat
        /\ Cardinality(stored') + Cardinality(S) = Cardinality(stored)
    <3>1. IsFiniteSet(stored) /\ IsFiniteSet(S) /\ stored \cap S = S
          BY <1>1, <2>1, LogsFinite
    <3>2. Cardinality(stored \ S) = Cardinality(stored) - Cardinality(stored \cap S)
          BY <3>1, FS_Difference
    <3>3. Cardinality(S) \in Nat /\ Cardinality(stored) \in Nat
          BY <3>1, FS_CardinalityType
    <3>4. Cardinality(stored') \in Nat
          BY <2>1, <3>1, FS_Difference, FS_CardinalityType
    <3>5. Cardinality(stored') = Cardinality(stored) - Cardinality(S)
          BY <2>1, <3>1, <3>2
    <3> QED BY <3>3, <3>4, <3>5
  <2>3. ASSUME NEW k \in Keys, fetch'[k] # None
        PROVE  /\ Fits(fetch'[k].rows, k)
               /\ fetch'[k].rows # {} =>
                     /\ fetch'[k].at = "paged"
                     /\ (k[1] - 1) * PerPage < Cardinality(stored') + fetch'[k].gone
    <3>1. fetch[k] # None
          BY <2>1, <2>3
    <3>2. CASE fetch[k].at = "asked"
      <4>1. fetch'[k] = fetch[k] /\ fetch[k].rows = {}
            BY <2>1, <3>1, <3>2 DEF AnswersFit, FetchedFit
      <4> QED BY <4>1, NothingFits
    <3>3. CASE fetch[k].at # "asked"
      <4>1. fetch'[k] = [fetch[k] EXCEPT !.gone = @ + Cardinality(S)]
            BY <2>1, <3>1, <3>3
      <4>2. fetch[k] \in Requests
            BY <1>1, <3>1
      <4>3. /\ fetch'[k].rows = fetch[k].rows /\ fetch'[k].at = fetch[k].at
            /\ fetch'[k].gone = fetch[k].gone + Cardinality(S) /\ fetch[k].gone \in Nat
            BY <4>1, <4>2 DEF Requests
      <4>4. (k[1] - 1) * PerPage \in Int
            BY <1>1, LogViewAssumption
      <4>5. Cardinality(stored') + fetch'[k].gone = Cardinality(stored) + fetch[k].gone
            BY <2>2, <4>3
      <4> QED BY <3>1, <4>3, <4>5 DEF AnswersFit, FetchedFit
    <3> QED BY <3>2, <3>3
  <2>4. CachedFit'
        BY <2>1 DEF AnswersFit, CachedFit
  <2> QED BY <2>3, <2>4 DEF AnswersFit, FetchedFit
<1>6. ASSUME NEW k \in Keys, ReadPage(k)  PROVE AnswersFit'
  <2>1. PICK n \in 0 .. PerPage : \E rows \in RowsOf(k[1], k[2], n) :
            fetch' = [fetch EXCEPT ![k] = [at |-> "paged", rows |-> rows, gone |-> 0]]
        BY <1>6 DEF ReadPage
  <2>2. PICK rows \in RowsOf(k[1], k[2], n) :
            fetch' = [fetch EXCEPT ![k] = [at |-> "paged", rows |-> rows, gone |-> 0]]
        BY <2>1
  <2>3. UNCHANGED <<stored, cache>> /\ \A j \in Keys : j # k => fetch'[j] = fetch[j]
        BY <1>1, <1>6, <2>2 DEF ReadPage, serverVars
  <2>4. fetch'[k] = [at |-> "paged", rows |-> rows, gone |-> 0]
        BY <1>1, <2>2
  <2>5. (k[1] - 1) * PerPage \in Nat /\ PerPage \in Nat /\ n \in Nat /\ n <= PerPage
        BY <1>1, LogViewAssumption DEF Keys, Pages
  <2>6. /\ Fits(rows, k)
        /\ rows # {} => (k[1] - 1) * PerPage < Cardinality(stored)
    <3> DEFINE S == Matches(k[2])
               o == (k[1] - 1) * PerPage
    <3>1. rows \in Slices(S, o, n) /\ S \in SUBSET Logs /\ S \in SUBSET stored
          BY <1>1, <2>2 DEF RowsOf, Matches
    <3>2. o \in Nat /\ n \in Nat
          BY <2>5
    <3> HIDE DEF S, o
    <3>3. /\ rows \in SUBSET S /\ Cardinality(rows) \in Nat /\ Cardinality(rows) <= n
          /\ rows # {} => o < Cardinality(S)
          BY <3>1, <3>2, SliceBounds
    <3>4. Cardinality(S) \in Nat /\ Cardinality(stored) \in Nat /\ Cardinality(S) <= Cardinality(stored)
          BY <1>1, <3>1, LogsFinite, FS_Subset
    <3>5. rows \subseteq Matching[k[2]]
          BY <3>3 DEF S, Matches
    <3>6. Cardinality(rows) <= PerPage
          BY <2>5, <3>3
    <3>7. rows # {} => o < Cardinality(stored)
          BY <3>2, <3>3, <3>4
    <3> QED BY <3>5, <3>6, <3>7 DEF Fits, o
  <2>7. Cardinality(stored) + 0 = Cardinality(stored)
        BY <1>1, LogsFinite
  <2> QED BY <2>3, <2>4, <2>6, <2>7 DEF AnswersFit, CachedFit, FetchedFit
<1>7. ASSUME NEW k \in Keys, ReadCount(k)  PROVE AnswersFit'
  <2>1. PICK total \in {CountOf(k[2]), 0} :
            cache' = [cache EXCEPT ![k] = [rows |-> fetch[k].rows, total |-> total,
                                           gone |-> fetch[k].gone]]
        BY <1>7 DEF ReadCount
  <2>2. /\ fetch[k] # None /\ fetch'[k] = None /\ UNCHANGED stored
        /\ \A j \in Keys : j # k => fetch'[j] = fetch[j] /\ cache'[j] = cache[j]
        /\ cache'[k].rows = fetch[k].rows /\ cache'[k].total = total
        /\ cache'[k].gone = fetch[k].gone
        BY <1>1, <1>7, <2>1 DEF ReadCount, serverVars
  <2>3. FetchedFit'
        BY <2>2 DEF AnswersFit, FetchedFit
  <2>4. fetch[k].rows # {} /\ total # 0 => (k[1] - 1) * PerPage < total + fetch[k].gone
        BY <2>1, <2>2 DEF AnswersFit, FetchedFit, CountOf
  <2>5. CachedFit'
        BY <2>2, <2>4 DEF AnswersFit, CachedFit, FetchedFit
  <2> QED BY <2>3, <2>5 DEF AnswersFit
<1>8. ASSUME NEW k \in Keys, FetchFails(k)  PROVE AnswersFit'
  <2>1. /\ UNCHANGED <<stored, cache>>
        /\ \A j \in Keys : fetch'[j] = fetch[j] \/ fetch'[j] = None
        BY <1>1, <1>8 DEF FetchFails, serverVars
  <2> QED BY <2>1 DEF AnswersFit, CachedFit, FetchedFit
<1>9. CASE Enter \/ Leave
  <2>1. UNCHANGED <<stored, cache>> /\ (fetch' = fetch \/ Ask(QueryKey(1, NoFilter)))
        BY <1>9 DEF Enter, Leave, serverVars, queryVars
  <2>2. FetchedFit'
        BY <1>1, <2>1, AskFits DEF AnswersFit, FetchedFit
  <2> QED BY <2>1, <2>2 DEF AnswersFit, CachedFit
<1>10. CASE Refresh
  <2>1. /\ UNCHANGED <<stored, cache>>
        /\ \A j \in Keys : fetch'[j] = fetch[j] \/ fetch'[j].rows = {}
        BY <1>1, <1>10 DEF Refresh, serverVars
  <2> QED BY <2>1, NothingFits DEF AnswersFit, CachedFit, FetchedFit
<1>11. CASE User /\ ~ (Enter \/ Leave \/ Refresh)
       BY <1>11, ShowFits DEF User, ApplyFilter, ClearFilters, TurnPage, ChangeFilter
<1> QED BY <1>3, <1>4, <1>5, <1>6, <1>7, <1>8, <1>9, <1>10, <1>11, <1>12
    DEF Next, Server, Answer

LEMMA AnswersFitInitially == Init => AnswersFit
BY DEF Init, AnswersFit, CachedFit, FetchedFit

\* What the table shows.
LEMMA ShownFits ==
    ASSUME TypeOK, AnswersFit
    PROVE  /\ Data.rows \subseteq Matching[filter] /\ Cardinality(Data.rows) <= PerPage
           /\ Data.rows # {} /\ Data.total # 0 => page <= TotalPages(Data.total + Data.gone)
<1>1. Key \in Keys /\ Key[1] = page /\ Key[2] = filter
      BY DEF TypeOK, Key, QueryKey, Keys
<1>2. CASE cache[Key] = None
  <2>1. Data.rows = {}
        BY <1>2 DEF Data
  <2> QED BY <1>1, <2>1, NothingFits DEF Fits
<1>3. CASE cache[Key] # None
  <2>1. Data = cache[Key] /\ Data \in Answers
        BY <1>1, <1>3 DEF Data, TypeOK
  <2>2. Data.total \in Nat /\ Data.gone \in Nat /\ page \in Nat \ {0}
        BY <2>1, LogViewAssumption DEF Answers, TypeOK, Pages
  <2>3. Data.rows # {} /\ Data.total # 0 => (page - 1) * PerPage < Data.total + Data.gone
        BY <1>1, <1>3, <2>1 DEF AnswersFit, CachedFit
  <2>4. Data.rows \subseteq Matching[filter] /\ Cardinality(Data.rows) <= PerPage
        BY <1>1, <1>3, <2>1 DEF AnswersFit, CachedFit, Fits
  <2>5. Data.total + Data.gone \in Nat
        BY <2>2
  <2> QED BY <2>2, <2>3, <2>4, <2>5, PageCounted
<1> QED BY <1>2, <1>3

\* Each answer is kept under the page and the filter it was asked for, so a
\* late one is not shown under another, for any number of them (page.tsx 919-939).
THEOREM FetchedRowsMatch == Spec => []FetchedMatches
<1>1. TypeOK /\ AnswersFit => FetchedMatches
      BY ShownFits DEF FetchedMatches
<1> QED BY <1>1, TypeCorrect, AnswersFitInitially, AnswersFitKept, PTL DEF Spec

\* The page is read before the logs are counted: what the count and the
\* deletions in between give reaches the page (log_service.go 126-128).
THEOREM PageWithinTotal == Spec => []PageIsWithinTotal
<1>1. TypeOK /\ AnswersFit => PageIsWithinTotal
      BY ShownFits DEF PageIsWithinTotal
<1> QED BY <1>1, TypeCorrect, AnswersFitInitially, AnswersFitKept, PTL DEF Spec

-----------------------------------------------------------------------------
(* The bar below the table.                                                *)

\* The numbers and the ellipses of the bar, for any number of pages.
LEMMA NumbersAreRight ==
    ASSUME NEW total \in Nat, NEW p \in 1 .. total
    PROVE  /\ PageNumbers(p, total) \subseteq 1 .. total
           /\ ({1, p - 1, p, p + 1, total} \cap 1 .. total) \subseteq PageNumbers(p, total)
           /\ LeftEllipsis(p, total) <=> \E i \in 1 .. p : i \notin PageNumbers(p, total)
           /\ RightEllipsis(p, total) <=> \E i \in p .. total : i \notin PageNumbers(p, total)
<1>1. CASE total <= 7
      BY <1>1 DEF PageNumbers, LeftEllipsis, RightEllipsis
<1>2. CASE total > 7
  <2>1. \A i \in Int : i \in PageNumbers(p, total) <=>
            i = 1 \/ i = total \/ (2 <= i /\ i <= total - 1 /\ p - 1 <= i /\ i <= p + 1)
        BY <1>2 DEF PageNumbers
  <2>2. PageNumbers(p, total) \subseteq 1 .. total
        BY <1>2 DEF PageNumbers
  <2>3. ({1, p - 1, p, p + 1, total} \cap 1 .. total) \subseteq PageNumbers(p, total)
        BY <2>1
  <2>4. LeftEllipsis(p, total) <=> \E i \in 1 .. p : i \notin PageNumbers(p, total)
    <3>1. ASSUME p > 3  PROVE \E i \in 1 .. p : i \notin PageNumbers(p, total)
      <4>1. 2 \in 1 .. p /\ 2 \notin PageNumbers(p, total)
            BY <1>2, <2>1, <3>1
      <4> QED BY <4>1
    <3>2. ASSUME p <= 3, NEW i \in 1 .. p  PROVE i \in PageNumbers(p, total)
          BY <1>2, <2>1, <3>2
    <3> QED BY <1>2, <3>1, <3>2 DEF LeftEllipsis
  <2>5. RightEllipsis(p, total) <=> \E i \in p .. total : i \notin PageNumbers(p, total)
    <3>1. ASSUME p + 2 < total  PROVE \E i \in p .. total : i \notin PageNumbers(p, total)
      <4>1. p + 2 \in p .. total /\ p + 2 \notin PageNumbers(p, total)
            BY <1>2, <2>1, <3>1
      <4> QED BY <4>1
    <3>2. ASSUME ~ (p + 2 < total), NEW i \in p .. total  PROVE i \in PageNumbers(p, total)
          BY <1>2, <2>1, <3>2
    <3> QED BY <1>2, <3>1, <3>2 DEF RightEllipsis
  <2> QED BY <2>2, <2>3, <2>4, <2>5
<1> QED BY <1>1, <1>2

\* An ellipsis stands exactly where numbers are left out, for any number of
\* pages (page.tsx 992-1010).
THEOREM BarRight == Spec => []BarIsRight
<1>1. TypeOK => BarIsRight
  <2> SUFFICES ASSUME TypeOK, NEW p \in 1 .. (Cardinality(sent) + 7)
               PROVE  LET total == Cardinality(sent) + 7
                          shown == PageNumbers(p, total)
                      IN  /\ shown \subseteq 1 .. total
                          /\ ({1, p - 1, p, p + 1, total} \cap 1 .. total) \subseteq shown
                          /\ LeftEllipsis(p, total) <=> \E i \in 1 .. p : i \notin shown
                          /\ RightEllipsis(p, total) <=> \E i \in p .. total : i \notin shown
      BY DEF BarIsRight
  <2>1. sent \in SUBSET Logs
        BY DEF TypeOK
  <2>2. Cardinality(sent) + 7 \in Nat
        BY <2>1, LogsFinite
  <2> QED BY <2>2, NumbersAreRight
<1> QED BY <1>1, TypeCorrect, PTL

=============================================================================
