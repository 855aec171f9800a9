----------------------------- MODULE Dashboard -----------------------------
(***************************************************************************)
(* The pages behind the sign-in: the overview, the list of projects, and   *)
(* the page of one project with its tab of API keys (dashboard/page.tsx,   *)
(* projects/page.tsx, projects/[id]/page.tsx).  They show lists that the   *)
(* query cache keeps, send changes, and invalidate the lists on success.   *)
(*                                                                         *)
(* The cache is TanStack Query's.  An observed list is fetched when it is  *)
(* stale; invalidating an observed list begins its fetch again, but a      *)
(* first load, or the fetch of a list no page shows, goes on and counts as *)
(* fresh when it arrives.  A component that is left loses its dialogs and  *)
(* forgets that its calls are pending; their success is still handled.     *)
(*                                                                         *)
(* The server serves a call at once, with success or not: what its         *)
(* requests do to each other is in ApiKeys.  With this schema it never     *)
(* makes or deletes a project (see there), so those two calls always fail  *)
(* and the projects stay.  No list is left unseen for the five minutes     *)
(* after which the cache drops it.                                         *)
(***************************************************************************)
EXTENDS Naturals, FiniteSets, Functions

CONSTANTS Projects,
          Keys,            \* ids, used once
          OwnerOf,         \* the project each key is made in
          Routes,          \* bound: of dashboard, projects and settings
          Calls,           \* bound: the changes under way at once
          MaxChanges,      \* bound: no change is sent after this many succeeded
          None

Queries == {"projects"} \cup Projects   \* ["projects"], ["apiKeys", id]
KeyKinds == {"createKey", "revokeKey", "deleteKey"}

ASSUME DashboardAssumption ==
    /\ OwnerOf \in [Keys -> Projects] /\ "projects" \notin Projects
    /\ Keys \cap Projects = {} /\ None \notin Projects \cup Keys
    /\ IsFiniteSet(Projects) /\ IsFiniteSet(Keys)

VARIABLES
    keys,            \* the server's rows, and what became of each id
    page,            \* the route, the project it names, the tab that is open
    cache,           \* each list: its data, its fetch, what the fetch has read
    calls,           \* the changes under way; mine: of a component still shown
    ui,              \* the dialogs: the form, the question, the new key
    acked,           \* history: the changes that a page was told of
    overtaken        \* history: the lists whose running fetch was invalidated

dashVars == <<keys, page, cache, calls, ui, acked, overtaken>>

NoCall == [at |-> "idle", kind |-> None, arg |-> None, mine |-> FALSE]
NoDialog == [creating |-> FALSE, toDelete |-> None, newKey |-> None]
Unasked == [data |-> None, at |-> "stale", read |-> None]

Rows(p) == {k \in Keys : OwnerOf[k] = p /\ keys[k] \in {"active", "revoked"}}

DashInit ==
    /\ keys \in [Keys -> {"unused", "active"}]
    /\ page = [at |-> "projects", project |-> None, tab |-> "api-keys"]
    /\ cache = [q \in Queries |-> IF q = "projects" THEN [Unasked EXCEPT !.at = "asked"]
                                                     ELSE Unasked]
    /\ calls = [c \in Calls |-> NoCall] /\ ui = NoDialog
    /\ acked = {} /\ overtaken = {}

-----------------------------------------------------------------------------
(* What the pages show.                                                    *)

Fetching(entry) == entry.at \in {"asked", "read"}
Loading(entry) == entry.data = None /\ Fetching(entry)
Listed(entry) == IF entry.data = None THEN {} ELSE DOMAIN entry.data

\* A project that is not in the list is "not found", and has no tabs.
Found(ch, p) == Loading(ch["projects"]) \/ p \in Listed(ch["projects"])

Observed(pg, ch, q) ==
    IF q = "projects" THEN pg.at \in {"dashboard", "projects", "project"}
    ELSE pg.at = "project" /\ pg.project = q /\ Found(ch, q)

\* The tab of API keys.  The other tab reads the keys too, for their names.
TabShown == /\ page.at = "project" /\ page.tab = "api-keys"
            /\ Found(cache, page.project)

\* The overview's sum over the projects.
TotalApiKeys ==
    LET data == cache["projects"].data IN FoldFunction(LAMBDA a, b : a + b, 0, data)

\* isPending of the component that is shown.
Pending(kind) == \E c \in Calls : calls[c].at # "idle" /\ calls[c].mine /\ calls[c].kind = kind

\* Dialogs are modal: the page behind takes no clicks.
NoneOpen == ui = NoDialog

-----------------------------------------------------------------------------
(* The cache, and what moves with it.                                      *)

\* A component that begins to read a list has it fetched if it is stale.
Mount(pg, ch, q) ==
    LET begins == IF q = "projects" THEN pg.at # page.at
                                    ELSE pg # page \/ ~Observed(page, cache, q)
    IN  IF Observed(pg, ch, q) /\ begins /\ ch[q].at = "stale"
        THEN [ch EXCEPT ![q].at = "asked"] ELSE ch

\* The page or the lists change: what comes into view reads its lists, and
\* what leaves loses its dialogs and its hold on its calls.
Turn(pg, ch, cs) ==
    LET listed == Mount(pg, ch, "projects")
        ch2 == IF pg.at = "project" THEN Mount(pg, listed, pg.project) ELSE listed
        pageStays == pg.at = page.at /\ pg.project = page.project
        tabStays == pg = page /\ TabShown /\ Found(ch2, page.project)
    IN  /\ page' = pg /\ cache' = ch2
        /\ calls' = [c \in Calls |->
              [cs[c] EXCEPT !.mine = @ /\ IF cs[c].kind \in KeyKinds THEN tabStays
                                                                     ELSE pageStays]]
        /\ ui' = IF tabStays \/ (pageStays /\ pg.at = "projects") THEN ui
                 ELSE IF pageStays /\ ui.toDelete \in Projects
                      THEN [NoDialog EXCEPT !.toDelete = ui.toDelete]
                      ELSE NoDialog

\* The window is focused, and the list is older than 30 seconds or its last
\* fetch failed.
Focus(q) ==
    /\ Observed(page, cache, q) /\ ~Fetching(cache[q])
    /\ cache' = [cache EXCEPT ![q].at = "asked"]
    /\ UNCHANGED <<keys, page, calls, ui, acked, overtaken>>

\* The lists that are older than 30 seconds when a page is opened.
Aged(old) == [q \in Queries |-> IF q \in old /\ cache[q].at = "fresh"
                               THEN [cache[q] EXCEPT !.at = "stale"] ELSE cache[q]]

\* getProjects and getApiKeys, when the server reads the rows.
Read(q) ==
    /\ cache[q].at = "asked"
    /\ cache' = [cache EXCEPT ![q].at = "read",
          ![q].read = IF q = "projects" THEN [p \in Projects |-> Cardinality(Rows(p))]
                                        ELSE [k \in Rows(q) |-> keys[k]]]
    /\ overtaken' = overtaken \ {q}
    /\ UNCHANGED <<keys, page, calls, ui, acked>>

Arrive(q) ==
    /\ cache[q].at = "read"
    /\ Turn(page, [cache EXCEPT ![q] = [data |-> cache[q].read, at |-> "fresh", read |-> None]],
            calls)
    /\ UNCHANGED <<keys, acked, overtaken>>

\* A fetch that fails is not tried again, and the list stays as it is.
FetchFails(q) ==
    /\ Fetching(cache[q])
    /\ Turn(page, [cache EXCEPT ![q].at = "stale", ![q].read = None], calls)
    /\ UNCHANGED <<keys, acked, overtaken>>

\* invalidateQueries: a first load, or a fetch for no page, goes on.
GoesOn(q) == Fetching(cache[q]) /\ (cache[q].data = None \/ ~Observed(page, cache, q))
Invalidated(qs) ==
    [q \in Queries |->
       IF q \notin qs \/ GoesOn(q) THEN cache[q]
       ELSE [cache[q] EXCEPT !.read = None,
                             !.at = IF Observed(page, cache, q) THEN "asked" ELSE "stale"]]

-----------------------------------------------------------------------------
(* The user.                                                               *)

\* The sidebar and the way back; old: the lists that are stale by then.
Open(at, old) ==
    /\ at # page.at
    /\ Turn([at |-> at, project |-> None, tab |-> "api-keys"], Aged(old), calls)
    /\ UNCHANGED <<keys, acked, overtaken>>

\* A card of the list, or a line of the overview.
OpenProject(p, old) ==
    /\ page.at \in {"projects", "dashboard"} /\ p \in Listed(cache["projects"])
    /\ Turn([at |-> "project", project |-> p, tab |-> "api-keys"], Aged(old), calls)
    /\ UNCHANGED <<keys, acked, overtaken>>

ChooseTab(tab, old) ==
    /\ page.at = "project" /\ Found(cache, page.project) /\ NoneOpen /\ tab # page.tab
    /\ Turn([page EXCEPT !.tab = tab], Aged(old), calls)
    /\ UNCHANGED <<keys, acked, overtaken>>

Dialog(new) ==
    /\ ui' = new
    /\ UNCHANGED <<keys, page, cache, calls, acked, overtaken>>

AskNewKey == TabShown /\ NoneOpen /\ Dialog([ui EXCEPT !.creating = TRUE])
AskNewProject == page.at = "projects" /\ NoneOpen /\ Dialog([ui EXCEPT !.creating = TRUE])

\* Mutant: the button with the bin does not wait for the deletion.
AskDeleteKeyAlways(k) ==
    /\ TabShown /\ NoneOpen /\ k \in Listed(cache[page.project])
    /\ Dialog([ui EXCEPT !.toDelete = k])

AskDeleteKey(k) ==
    /\ TabShown /\ NoneOpen /\ k \in Listed(cache[page.project]) /\ ~Pending("deleteKey")
    /\ Dialog([ui EXCEPT !.toDelete = k])

AskDeleteListed(p) ==
    /\ page.at = "projects" /\ NoneOpen /\ p \in Listed(cache["projects"])
    /\ ~Pending("deleteProject")
    /\ Dialog([ui EXCEPT !.toDelete = p])

\* On the page of the project the button does not wait.
AskDeleteOpened ==
    /\ page.at = "project" /\ NoneOpen /\ page.project \in Listed(cache["projects"])
    /\ Dialog([ui EXCEPT !.toDelete = page.project])

\* A dialog is closed: Cancel, Escape, or "I've saved this key".
Close == /\ ~NoneOpen
         /\ \/ ui.newKey # None /\ Dialog([ui EXCEPT !.newKey = None])
            \/ ui.newKey = None /\ Dialog(NoDialog)

\* mutate: one call of a kind of the component at a time.
Send(kind, arg) ==
    /\ ~Pending(kind) /\ Cardinality(acked) < MaxChanges
    /\ \E c \in Calls : /\ calls[c].at = "idle"
                        /\ calls' = [calls EXCEPT ![c] = [at |-> "sent", kind |-> kind,
                                                          arg |-> arg, mine |-> TRUE]]
    /\ UNCHANGED <<keys, page, cache, ui, acked, overtaken>>

\* The id of what is made is chosen with the call.
CreateKey(k) == /\ TabShown /\ ui.creating /\ keys[k] = "unused" /\ OwnerOf[k] = page.project
                /\ \A c \in Calls : calls[c].arg # k
                /\ Send("createKey", k)
RevokeKey(k) == /\ TabShown /\ NoneOpen /\ k \in Listed(cache[page.project])
                /\ cache[page.project].data[k] = "active"
                /\ Send("revokeKey", k)
DeleteKey == TabShown /\ ui.toDelete \in Keys /\ Send("deleteKey", ui.toDelete)
CreateProject == page.at = "projects" /\ ui.creating /\ Send("createProject", None)
DeleteListed == /\ page.at = "projects" /\ ui.toDelete \in Projects
                /\ Send("deleteProject", ui.toDelete)
DeleteOpened == /\ page.at = "project" /\ ui.toDelete \in Projects
                /\ Found(cache, page.project)
                /\ Send("deleteProject", page.project)

-----------------------------------------------------------------------------
(* The server and its answers.                                             *)

\* The rows a call needs, and what it leaves of them; a key that is made
\* revokes the others.
Servable(kind, arg) ==
    \/ kind = "createKey" /\ keys[arg] = "unused"
    \/ kind = "revokeKey" /\ keys[arg] = "active"
    \/ kind = "deleteKey" /\ keys[arg] \in {"active", "revoked"}

Effect(kind, arg) ==
    CASE kind = "createKey" -> [k \in Keys |-> IF k = arg THEN "active"
                                               ELSE IF k \in Rows(OwnerOf[arg]) THEN "revoked"
                                               ELSE keys[k]]
      [] kind = "revokeKey" -> [keys EXCEPT ![arg] = "revoked"]
      [] kind = "deleteKey" -> [keys EXCEPT ![arg] = "deleted"]

Serve(c) ==
    /\ calls[c].at = "sent"
    /\ Servable(calls[c].kind, calls[c].arg)
    /\ keys' = Effect(calls[c].kind, calls[c].arg)
    /\ calls' = [calls EXCEPT ![c].at = "served"]
    /\ UNCHANGED <<page, cache, ui, acked, overtaken>>

\* onError: refused, not sent or not answered; a toast, and no list is stale.
Fail(c) ==
    /\ calls[c].at # "idle"
    /\ calls' = [calls EXCEPT ![c] = NoCall]
    /\ UNCHANGED <<keys, page, cache, ui, acked, overtaken>>

\* Mutant: deleting a key leaves the list of projects as it is.
TouchesOwnList(kind, arg) == {OwnerOf[arg]}

\* The lists a success invalidates.
Touches(kind, arg) ==
    {OwnerOf[arg]} \cup IF kind = "deleteKey" THEN {"projects"} ELSE {}

\* The dialogs after a success, if the component is still there to see it.
DialogAfter(call) ==
    CASE ~call.mine -> ui
      [] call.kind = "createKey" -> [ui EXCEPT !.creating = FALSE, !.newKey = call.arg]
      [] call.kind = "deleteKey" -> [ui EXCEPT !.toDelete = IF @ \in Keys THEN None ELSE @]
      [] OTHER -> ui

\* onSuccess, which runs even when the component is gone.
Succeed(c) ==
    LET call == calls[c]
        touched == Touches(call.kind, call.arg)
    IN  /\ call.at = "served"
        /\ acked' = acked \cup {<<call.kind, call.arg>>}
        /\ overtaken' = overtaken \cup {q \in touched : GoesOn(q)}
        /\ cache' = Invalidated(touched)
        /\ calls' = [calls EXCEPT ![c] = NoCall] /\ ui' = DialogAfter(call)
        /\ UNCHANGED <<keys, page>>

DashNext ==
    \/ \E q \in Queries : Focus(q) \/ Read(q) \/ Arrive(q) \/ FetchFails(q)
    \/ \E old \in SUBSET {q \in Queries : cache[q].at = "fresh"} :
          \/ \E at \in Routes : Open(at, old)
          \/ \E p \in Projects : OpenProject(p, old)
          \/ \E tab \in {"api-keys", "logs"} : ChooseTab(tab, old)
    \/ \E k \in Keys : AskDeleteKey(k) \/ CreateKey(k) \/ RevokeKey(k)
    \/ AskNewKey \/ DeleteKey \/ Close
    \/ \E p \in Projects : AskDeleteListed(p)
    \/ AskNewProject \/ CreateProject \/ DeleteListed \/ AskDeleteOpened \/ DeleteOpened
    \/ \E c \in Calls : Serve(c) \/ Fail(c) \/ Succeed(c)

-----------------------------------------------------------------------------
(* Properties.                                                             *)

Gone(p) == {k \in Keys : OwnerOf[k] = p /\ <<"deleteKey", k>> \in acked}
Made(p) == {k \in Keys : OwnerOf[k] = p /\ keys[k] # "unused"}

(* What a page was told of is in every fresh list a page shows, whatever   *)
(* fetches and other calls were under way and whichever page it was told   *)
(* to: no deleted key is listed or counted, no revoked key reads active,   *)
(* no new one is missing.  The exception is a fetch that the cache let go  *)
(* on when the list was invalidated.  A new key need not be counted: only  *)
(* a deletion invalidates the projects ([id]/page.tsx 133-171).            *)
AcknowledgedIsShown ==
    \A q \in Queries :
        cache[q].at = "fresh" /\ Observed(page, cache, q) /\ q \notin overtaken =>
            LET data == cache[q].data
            IN  IF q = "projects"
                THEN TotalApiKeys <= Cardinality(UNION {Made(p) \ Gone(p) : p \in DOMAIN data})
                ELSE \A k \in Keys :
                        /\ <<"deleteKey", k>> \in acked => k \notin DOMAIN data
                        /\ <<"revokeKey", k>> \in acked /\ k \in DOMAIN data => data[k] = "revoked"
                        /\ <<"createKey", k>> \in acked /\ OwnerOf[k] = q =>
                              k \in DOMAIN data \/ keys[k] = "deleted"

(* The success of a deletion closes no other question than its own: while  *)
(* a key is being deleted the tab asks about that key or about none        *)
(* ([id]/page.tsx 160-166, 425-434).                                       *)
DialogKept ==
    \A c \in Calls :
        calls[c].at # "idle" /\ calls[c].mine /\ calls[c].kind = "deleteKey" /\ ui.toDelete \in Keys =>
            ui.toDelete = calls[c].arg

=============================================================================
