------------------------------ MODULE LogView ------------------------------
(***************************************************************************)
(* The tab Logs of a project in the dashboard: LogsTab of                  *)
(* projects/[id]/page.tsx and useLogStream.ts, with the queries of the log *)
(* service behind it.                                                      *)
(*                                                                         *)
(* The table shows a page the server answered and, on the first page       *)
(* without filters, the logs a stream has brought since.  A log is a       *)
(* number; its timestamp is the sender's, so two logs may have the same.   *)
(* The four filters are one choice among Filters.                          *)
(***************************************************************************)
EXTENDS Naturals, FiniteSets, Sequences, Functions

CONSTANTS MaxLog,    \* bound: the logs are 1 .. MaxLog
          Stampings, \* the timestamps senders may give the logs
          MaxDelete, \* bound: the logs that are deleted
          PerPage,   \* LOGS_PER_PAGE
          MaxPage,   \* bound: the pages a user turns to are 1 .. MaxPage
          Filters,   \* the filters a user may set
          NoFilter,
          Matching,  \* the logs each filter lets through
          Links,     \* bound: the connections that are open at a time
          MaxFetch,  \* bound: the requests that are under way at a time
          None       \* nothing cached, and no request

Logs == 1 .. MaxLog
Pages == 1 .. MaxPage
Keys == Pages \X (Filters \cup {NoFilter})

ASSUME LogViewAssumption ==
    /\ MaxLog \in Nat /\ MaxDelete \in Nat
    /\ Stampings \subseteq [Logs -> Nat]
    /\ PerPage \in Nat \ {0} /\ MaxPage \in Nat \ {0}
    /\ NoFilter \notin Filters
    /\ Matching \in [Filters \cup {NoFilter} -> SUBSET Logs]
    /\ Matching[NoFilter] = Logs
    /\ IsFiniteSet(Filters)

VARIABLES
    stamp,     \* the timestamp of each log; it does not change
    sent,      \* the logs the server has broadcast
    stored,    \* the logs of the table
    deleted,   \* the logs that were in it
    open,      \* whether the tab is mounted
    page, filter,
    cache,     \* what the query client holds for each key
    fetch,     \* the request that is under way for each key
    streamed,  \* useLogStream: logs, the newest first
    connected, \* useLogStream: connected
    link,      \* the state of each connection
    queue      \* what was written to each connection and not read

serverVars == <<stamp, sent, stored, deleted>>
viewVars == <<open, page, filter>>
queryVars == <<cache, fetch>>
streamVars == <<streamed, connected, link, queue>>
vars == <<serverVars, viewVars, queryVars, streamVars>>

-----------------------------------------------------------------------------
(* What the server answers.                                                *)

Matches(f) == {l \in stored : l \in Matching[f]}

\* The sets of n logs of S, or of all, that ORDER BY timestamp DESC may put
\* first: nothing says how logs of one timestamp are ordered.
Newest(S, n) ==
    {A \in SUBSET S : /\ Cardinality(A) = IF n <= Cardinality(S) THEN n ELSE Cardinality(S)
                      /\ \A l \in A, m \in S \ A : stamp[m] <= stamp[l]}

\* What LIMIT .. OFFSET .. lets through of them.
Slices(S, offset, limit) ==
    {AB[2] \ AB[1] : AB \in {ab \in Newest(S, offset) \X Newest(S, offset + limit) :
                               ab[1] \subseteq ab[2]}}

\* Mutant: the page is multiplied as it came, counted from one.
RowsOfShifted(p, f, n) == Slices(Matches(f), p * PerPage, n)

\* The first n rows of page p; each SELECT may order equal timestamps anew.
RowsOf(p, f, n) == Slices(Matches(f), (p - 1) * PerPage, n)

\* The count behind the pagination, which has no filter.
CountOf(f) == Cardinality(stored)

\* Math.max(1, Math.ceil(total / LOGS_PER_PAGE)).
TotalPages(total) == IF total = 0 THEN 1 ELSE (total + PerPage - 1) \div PerPage

-----------------------------------------------------------------------------
(* What the tab shows.                                                     *)

\* Mutant: the key of a query names the page alone.
QueryKeyUnfiltered(p, f) == <<p, NoFilter>>

QueryKey(p, f) == <<p, f>>
Key == QueryKey(page, filter)

\* useLogStream is enabled.
LiveView(p, f) == p = 1 /\ f = NoFilter

Data == IF cache[Key] = None THEN [rows |-> {}, total |-> 0, gone |-> 0] ELSE cache[Key]
Fetching == fetch[Key] # None
Loading == cache[Key] = None /\ Fetching

\* The row's id comes from the database, the broadcast one from CreateLog.
RowId(l) == <<"row", l>>
StreamId(l) == <<"stream", l>>

\* uniqueStreamed.
UniqueStreamed ==
    SelectSeq(streamed, LAMBDA l : StreamId(l) \notin {RowId(m) : m \in Data.rows})
ShownStream == IF LiveView(page, filter) THEN Range(UniqueStreamed) ELSE {}
Empty == ShownStream = {} /\ Data.rows = {}

\* Mutant: the neighbours are left out.
PageNumbersAlone(p, total) ==
    IF total <= 7 THEN 1 .. total ELSE {1, total} \cup ({p} \cap 2 .. total - 1)

\* getPageNumbers, as the set of its numbers and where it puts an ellipsis.
PageNumbers(p, total) ==
    IF total <= 7 THEN 1 .. total
    ELSE {1, total} \cup {i \in 2 .. total - 1 : p - 1 <= i /\ i <= p + 1}

LeftEllipsis(p, total) == total > 7 /\ p > 3
RightEllipsis(p, total) == total > 7 /\ p + 2 < total

\* The pagination is drawn below a table.
BarShown == open /\ ~ Loading /\ ~ Empty

Init ==
    /\ stamp \in Stampings
    /\ sent = {} /\ stored = {} /\ deleted = {}
    /\ open = FALSE /\ page = 1 /\ filter = NoFilter
    /\ cache = [k \in Keys |-> None]
    /\ fetch = [k \in Keys |-> None]
    /\ streamed = <<>> /\ connected = FALSE
    /\ link = [k \in Links |-> "free"]
    /\ queue = [k \in Links |-> <<>>]

-----------------------------------------------------------------------------
(* The server.                                                             *)

\* CreateLog: the log goes to the connections that take it ...
Broadcast(l) ==
    /\ l \notin sent
    /\ sent' = sent \cup {l}
    /\ \E taking \in SUBSET {k \in Links : link[k] = "open"} :
          queue' = [k \in Links |-> IF k \in taking THEN Append(queue[k], l) ELSE queue[k]]
    /\ UNCHANGED <<stamp, stored, deleted, viewVars, queryVars, streamed, connected, link>>

\* Mutant: the log is saved first.
SaveFirst(l) ==
    /\ l \in Logs \ (stored \cup deleted)
    /\ stored' = stored \cup {l}
    /\ UNCHANGED <<stamp, sent, deleted, viewVars, queryVars, streamVars>>

\* ... and is saved after that.
Save(l) ==
    /\ l \in sent \ (stored \cup deleted)
    /\ stored' = stored \cup {l}
    /\ UNCHANGED <<stamp, sent, deleted, viewVars, queryVars, streamVars>>

\* A key or an account is deleted, and its logs with it.  A request keeps how
\* many went since its page was read; no code reads that.
Delete(S) ==
    /\ S # {} /\ S \subseteq stored /\ Cardinality(deleted \cup S) <= MaxDelete
    /\ stored' = stored \ S /\ deleted' = deleted \cup S
    /\ fetch' = [k \in Keys |-> IF fetch[k] = None \/ fetch[k].at = "asked" THEN fetch[k]
                                ELSE [fetch[k] EXCEPT !.gone = @ + Cardinality(S)]]
    /\ UNCHANGED <<stamp, sent, viewVars, cache, streamVars>>

\* Mutant: the logs are counted before the page is read.
ReadCountThenPage(k) ==
    /\ fetch[k] # None /\ fetch[k].at = "asked"
    /\ \E n \in 0 .. CountOf(k[2]), rows \in RowsOf(k[1], k[2], PerPage) :
          cache' = [cache EXCEPT ![k] = [rows |-> rows, total |-> n, gone |-> 0]]
    /\ fetch' = [fetch EXCEPT ![k] = None]
    /\ UNCHANGED <<serverVars, viewVars, streamVars>>

\* A request of the tab: the page is read, or fewer of its rows when the SELECT
\* fails, first or last ...
ReadPage(k) ==
    /\ fetch[k] # None /\ fetch[k].at = "asked"
    /\ \E n \in 0 .. PerPage : \E rows \in RowsOf(k[1], k[2], n) :
          fetch' = [fetch EXCEPT ![k] = [at |-> "paged", rows |-> rows, gone |-> 0]]
    /\ UNCHANGED <<serverVars, viewVars, cache, streamVars>>

\* ... then the logs are counted, 0 when that fails, and the client keeps the answer.
ReadCount(k) ==
    /\ fetch[k] # None /\ fetch[k].at = "paged"
    /\ \E total \in {CountOf(k[2]), 0} :
          cache' = [cache EXCEPT ![k] = [rows |-> fetch[k].rows, total |-> total,
                                         gone |-> fetch[k].gone]]
    /\ fetch' = [fetch EXCEPT ![k] = None]
    /\ UNCHANGED <<serverVars, viewVars, streamVars>>

\* The request fails; what the client held stays.
FetchFails(k) ==
    /\ fetch[k] # None
    /\ fetch' = [fetch EXCEPT ![k] = None]
    /\ UNCHANGED <<serverVars, viewVars, cache, streamVars>>

-----------------------------------------------------------------------------
(* useLogStream.                                                           *)

\* Mutant: nothing aborts the connection there was.
ReconnectUnaborted(enabled) ==
    /\ connected' = (\E k \in Links : link[k] = "open")
    /\ \/ ~ enabled /\ link' = link
       \/ enabled /\ \E k \in Links : link[k] = "free" /\ link' = [link EXCEPT ![k] = "asked"]
    /\ queue' = queue

\* The effect, when its dependencies change: the cleanup aborts the connection
\* there was, and, when enabled, connect() asks for another.
Reconnect(enabled) ==
    /\ connected' = FALSE
    /\ \/ /\ ~ enabled /\ link' = [k \in Links |-> "free"]
       \/ /\ enabled
          /\ \E k \in Links :
                link' = [j \in Links |-> IF j = k THEN "asked" ELSE "free"]
    /\ queue' = [k \in Links |-> <<>>]

\* The server registers the connection, and its answer begins.
Connected(k) ==
    /\ link[k] = "asked"
    /\ link' = [link EXCEPT ![k] = "open"]
    /\ connected' = TRUE
    /\ UNCHANGED <<serverVars, viewVars, queryVars, streamed, queue>>

\* A log is read and put in front.
Receive(k) ==
    /\ link[k] = "open" /\ queue[k] # <<>>
    /\ streamed' = <<Head(queue[k])>> \o streamed
    /\ queue' = [queue EXCEPT ![k] = Tail(@)]
    /\ UNCHANGED <<serverVars, viewVars, queryVars, connected, link>>

\* Mutant: there is no finally.
StreamEndsUnseen(k) ==
    /\ link[k] # "free"
    /\ link' = [link EXCEPT ![k] = "free"]
    /\ queue' = [queue EXCEPT ![k] = <<>>]
    /\ UNCHANGED <<serverVars, viewVars, queryVars, streamed, connected>>

\* The stream is refused, breaks or ends: finally, and nothing tries again.
StreamEnds(k) ==
    /\ link[k] # "free"
    /\ link' = [link EXCEPT ![k] = "free"]
    /\ queue' = [queue EXCEPT ![k] = <<>>]
    /\ connected' = FALSE
    /\ UNCHANGED <<serverVars, viewVars, queryVars, streamed>>

-----------------------------------------------------------------------------
(* The user.                                                               *)

\* The query of the key: asked when nothing, or something stale, is cached.
Ask(k) ==
    \/ /\ fetch[k] = None /\ Cardinality({j \in Keys : fetch[j] # None}) < MaxFetch
       /\ fetch' = [fetch EXCEPT ![k] = [at |-> "asked", rows |-> {}, gone |-> 0]]
    \/ /\ fetch[k] # None \/ cache[k] # None
       /\ UNCHANGED fetch

\* The tab shows page p under filter f.
Show(p, f) ==
    /\ page' = p /\ filter' = f
    /\ IF QueryKey(p, f) = Key THEN UNCHANGED fetch ELSE Ask(QueryKey(p, f))
    /\ IF LiveView(p, f) = LiveView(page, filter)
       THEN UNCHANGED <<connected, link, queue>>
       ELSE Reconnect(LiveView(p, f))
    /\ UNCHANGED <<serverVars, open, cache, streamed>>

\* The tab is mounted, with a state of its own.
Enter ==
    /\ ~ open /\ open' = TRUE
    /\ page' = 1 /\ filter' = NoFilter /\ streamed' = <<>>
    /\ Ask(QueryKey(1, NoFilter))
    /\ Reconnect(TRUE)
    /\ UNCHANGED <<serverVars, cache>>

\* The user turns to another tab or page: LogsTab is unmounted.
Leave ==
    /\ open /\ open' = FALSE
    /\ page' = 1 /\ filter' = NoFilter /\ streamed' = <<>>
    /\ Reconnect(FALSE)
    /\ UNCHANGED <<serverVars, queryVars>>

\* PaginationPrevious, the numbers and PaginationNext.
Turns == LET last == TotalPages(Data.total)
         IN  {IF page > 1 THEN page - 1 ELSE 1, IF page + 1 < last THEN page + 1 ELSE last}
                \cup PageNumbers(page, last)
TurnPage(p) == BarShown /\ p \in Turns \cap Pages /\ Show(p, filter)

\* A field of the form changes: the filter applies at once, the page stays.
ChangeFilter(f) == open /\ f # filter /\ Show(page, f)

\* handleFilter.
ApplyFilter == open /\ ~ Fetching /\ Show(1, filter)

\* The button Clear of the form.
ClearFilters == open /\ filter # NoFilter /\ Show(1, NoFilter)

\* The button above the chart: clearStream, and refetch.
Refresh ==
    /\ open /\ ~ Fetching
    /\ streamed' = <<>>
    /\ fetch' = [fetch EXCEPT ![Key] = [at |-> "asked", rows |-> {}, gone |-> 0]]
    /\ UNCHANGED <<serverVars, viewVars, cache, connected, link, queue>>

-----------------------------------------------------------------------------
Server == \/ \E l \in Logs : Broadcast(l) \/ Save(l)
          \/ \E S \in SUBSET Logs : Delete(S)
Answer(k) == ReadPage(k) \/ ReadCount(k) \/ FetchFails(k)
Stream == \E k \in Links : Connected(k) \/ Receive(k) \/ StreamEnds(k)
User == \/ Enter \/ Leave \/ ApplyFilter \/ ClearFilters \/ Refresh
        \/ \E p \in Pages : TurnPage(p)
        \/ \E f \in Filters \cup {NoFilter} : ChangeFilter(f)

Next == Server \/ (\E k \in Keys : Answer(k)) \/ Stream \/ User

Spec == Init /\ [][Next]_vars

-----------------------------------------------------------------------------
(* What holds.                                                             *)

Answers == [rows : SUBSET Logs, total : 0 .. MaxLog, gone : Nat]
Requests == [at : {"asked", "paged"}, rows : SUBSET Logs, gone : Nat]

\* The shapes of the variables.
TypeOK ==
    /\ stamp \in Stampings
    /\ stored \cup deleted \subseteq sent /\ sent \subseteq Logs
    /\ open \in BOOLEAN /\ page \in Pages /\ filter \in Filters \cup {NoFilter}
    /\ cache \in [Keys -> Answers \cup {None}]
    /\ fetch \in [Keys -> Requests \cup {None}]
    /\ streamed \in Seq(Logs) /\ connected \in BOOLEAN
    /\ link \in [Links -> {"free", "asked", "open"}]
    /\ queue \in [Links -> Seq(Logs)]

\* The badge Live is shown exactly while a connection is open, through every
\* order of leaving the view, coming back and losing the stream
\* (useLogStream.ts 13-17, 33-38, 63-68).
LiveIsLive == connected <=> \E k \in Links : link[k] = "open"

\* However often the stream is closed and opened again as the user turns pages
\* and filters, no log is received twice (useLogStream.ts 73-75).
StreamedOnce == IsInjective(streamed)

\* A late answer to an earlier page or filter is never shown under the present
\* one: the rows in the table pass the filter that is set, and fit on a page
\* (page.tsx 919-939).
FetchedMatches ==
    /\ Data.rows \subseteq Matching[filter]
    /\ Cardinality(Data.rows) <= PerPage

\* The page and the count of an answer come from two SELECTs.  The page is read
\* first, so logs that arrive between them put no page beyond the last one the
\* count gives; only logs that a deletion takes away between them do, and no
\* more than these (log_service.go 126-128, page.tsx 977, 992-1010; a count that
\* failed is 0).
PageIsWithinTotal ==
    Data.rows # {} /\ Data.total # 0 => page <= TotalPages(Data.total + Data.gone)

\* The place a log has among those of a filter, when logs of its timestamp are
\* put behind it, and when they are put before it.
FirstPlace(l, f) == Cardinality({m \in Matches(f) : stamp[m] > stamp[l]}) + 1
LastPlace(l, f) == Cardinality({m \in Matches(f) : stamp[m] >= stamp[l]})
PageOfPlace(n) == (n - 1) \div PerPage + 1

\* Although the order of equal timestamps is open and the count does not know
\* the filter: a log is on no page outside those its place may fall on, it is
\* on its page in every answer when they are one page, and the count lets the
\* user turn to all of them (repository.go 44-45, 74-90).
OnItsPage ==
    \A f \in Filters \cup {NoFilter} : \A l \in Matches(f) :
        LET first == PageOfPlace(FirstPlace(l, f))
            last == PageOfPlace(LastPlace(l, f))
        IN  /\ last <= TotalPages(CountOf(f))
            /\ \A p \in Pages : \A rows \in RowsOf(p, f, PerPage) :
                   /\ l \in rows => first <= p /\ p <= last
                   /\ first = p /\ last = p => l \in rows

\* getPageNumbers shows the first and the last page, the present one and its
\* neighbours, and an ellipsis exactly where it leaves pages out (looked at for
\* 7 pages more than logs were sent).
BarIsRight ==
    LET total == Cardinality(sent) + 7
    IN  \A p \in 1 .. total :
        LET shown == PageNumbers(p, total)
        IN  /\ shown \subseteq 1 .. total
            /\ ({1, p - 1, p, p + 1, total} \cap 1 .. total) \subseteq shown
            /\ LeftEllipsis(p, total) <=> \E i \in 1 .. p : i \notin shown
            /\ RightEllipsis(p, total) <=> \E i \in p .. total : i \notin shown

\* Claimed of the table (page.tsx 979): no log appears in it twice.
EachOnce == LiveView(page, filter) => ShownStream \cap Data.rows = {}

=============================================================================
