--------------------------- MODULE DashboardProofs ---------------------------
(***************************************************************************)
(* The dialogs of the dashboard, for any number of projects, keys and      *)
(* calls under way, whatever the query cache does.                         *)
(***************************************************************************)
EXTENDS Dashboard, FoldLemmas, TLAPS

DashSpec == DashInit /\ [][DashNext]_dashVars

CallShape == [at : {"idle", "sent", "served"},
              kind : KeyKinds \cup {"createProject", "deleteProject", None},
              arg : Keys \cup Projects \cup {None}, mine : BOOLEAN]
DialogShape == [creating : BOOLEAN, toDelete : Keys \cup Projects \cup {None},
                newKey : Keys \cup Projects \cup {None}]

\* The calls and the dialogs are what their names say, and a page is never
\* that of a key.
Shapes ==
    /\ calls \in [Calls -> CallShape] /\ ui \in DialogShape
    /\ page.project \in Projects \cup {None}

DialogInv == Shapes /\ DialogKept

-----------------------------------------------------------------------------
(* The helpers of the actions.                                             *)

\* A turn of the page takes the dialogs away, or nothing: a call that stays
\* the tab's keeps the tab, and the tab keeps its dialogs.
LEMMA TurnKeeps ==
    ASSUME DialogInv, NEW pg, pg.project \in Projects \cup {None}, NEW ch, Turn(pg, ch, calls)
    PROVE  DialogInv'
<1> DEFINE listed == Mount(pg, ch, "projects")
           ch2 == IF pg.at = "project" THEN Mount(pg, listed, pg.project) ELSE listed
           pageStays == pg.at = page.at /\ pg.project = page.project
           tabStays == pg = page /\ TabShown /\ Found(ch2, page.project)
           stays(c) == IF calls[c].kind \in KeyKinds THEN tabStays ELSE pageStays
<1>1. /\ page' = pg
      /\ calls' = [c \in Calls |-> [calls[c] EXCEPT !.mine = @ /\ stays(c)]]
      /\ ui' = IF tabStays \/ (pageStays /\ pg.at = "projects") THEN ui
               ELSE IF pageStays /\ ui.toDelete \in Projects
                    THEN [NoDialog EXCEPT !.toDelete = ui.toDelete]
                    ELSE NoDialog
      BY DEF Turn
<1> HIDE DEF listed, ch2, pageStays, tabStays
<1>2. /\ tabStays \in BOOLEAN /\ pageStays \in BOOLEAN
      BY DEF tabStays, pageStays, TabShown, Found
<1>3. ASSUME NEW c \in Calls
      PROVE  /\ calls'[c] \in CallShape
             /\ calls'[c].at = calls[c].at /\ calls'[c].kind = calls[c].kind
             /\ calls'[c].arg = calls[c].arg
             /\ calls'[c].mine <=> calls[c].mine /\ stays(c)
  <2>1. calls[c] \in CallShape
        BY DEF DialogInv, Shapes
  <2>2. calls'[c] = [calls[c] EXCEPT !.mine = @ /\ stays(c)]
        BY <1>1
  <2>3. stays(c) \in BOOLEAN
        BY <1>2
  <2> HIDE DEF stays
  <2> QED BY <2>1, <2>2, <2>3 DEF CallShape
<1>4. calls' = [c \in Calls |-> calls'[c]]
      BY <1>1
<1>5. Shapes'
  <2>1. calls' \in [Calls -> CallShape]
        BY <1>3, <1>4
  <2>2. ui' \in DialogShape
        BY <1>1 DEF DialogInv, Shapes, DialogShape, NoDialog
  <2> QED BY <1>1, <2>1, <2>2 DEF Shapes
<1>6. ASSUME NEW c \in Calls, calls'[c].at # "idle", calls'[c].mine,
             calls'[c].kind = "deleteKey", ui'.toDelete \in Keys
      PROVE  ui'.toDelete = calls'[c].arg
  <2>1. tabStays
        BY <1>3, <1>6 DEF KeyKinds
  <2>2. ui' = ui
        BY <1>1, <2>1
  <2> QED BY <1>3, <1>6, <2>2 DEF DialogInv, DialogKept
<1> QED BY <1>5, <1>6 DEF DialogInv, DialogKept

\* A dialog that asks about no key, or about the key that was asked about.
LEMMA DialogKeeps ==
    ASSUME DialogInv, NEW new \in DialogShape, Dialog(new),
           new.toDelete \in Keys => new.toDelete = ui.toDelete
    PROVE  DialogInv'
<1>1. ui' = new /\ page' = page /\ calls' = calls
      BY DEF Dialog
<1>2. Shapes'
      BY <1>1 DEF DialogInv, Shapes
<1> QED BY <1>1, <1>2 DEF DialogInv, DialogKept

\* A call is sent: a deletion is of the key the dialog asks about.
LEMMA SendKeeps ==
    ASSUME DialogInv, NEW kind \in KeyKinds \cup {"createProject", "deleteProject"},
           NEW arg \in Keys \cup Projects \cup {None}, Send(kind, arg),
           kind = "deleteKey" => arg = ui.toDelete
    PROVE  DialogInv'
<1>1. PICK c \in Calls : calls' = [calls EXCEPT ![c] = [at |-> "sent", kind |-> kind,
                                                       arg |-> arg, mine |-> TRUE]]
      BY DEF Send
<1>2. page' = page /\ ui' = ui
      BY DEF Send
<1>3. [at |-> "sent", kind |-> kind, arg |-> arg, mine |-> TRUE] \in CallShape
      BY DEF CallShape
<1>4. Shapes'
      BY <1>1, <1>2, <1>3 DEF DialogInv, Shapes
<1>5. ASSUME NEW d \in Calls, calls'[d].at # "idle", calls'[d].mine,
             calls'[d].kind = "deleteKey", ui'.toDelete \in Keys
      PROVE  ui'.toDelete = calls'[d].arg
      BY <1>1, <1>2, <1>5 DEF DialogInv, Shapes, DialogKept
<1> QED BY <1>4, <1>5 DEF DialogInv, DialogKept

\* A call ends.
LEMMA EndKeeps ==
    ASSUME DialogInv, NEW c \in Calls, calls' = [calls EXCEPT ![c] = NoCall], page' = page,
           ui' \in DialogShape, ui'.toDelete \in Keys => ui'.toDelete = ui.toDelete
    PROVE  DialogInv'
<1>1. NoCall \in CallShape /\ NoCall.at = "idle"
      BY DEF NoCall, CallShape
<1>2. Shapes'
      BY <1>1 DEF DialogInv, Shapes
<1>3. ASSUME NEW d \in Calls, calls'[d].at # "idle", calls'[d].mine,
             calls'[d].kind = "deleteKey", ui'.toDelete \in Keys
      PROVE  ui'.toDelete = calls'[d].arg
      BY <1>1, <1>3 DEF DialogInv, Shapes, DialogKept
<1> QED BY <1>2, <1>3 DEF DialogInv, DialogKept

-----------------------------------------------------------------------------
LEMMA DialogInvKept == DialogInv /\ [DashNext]_dashVars => DialogInv'
<1> SUFFICES ASSUME DialogInv, [DashNext]_dashVars  PROVE DialogInv'
    OBVIOUS
<1>0. /\ ui \in DialogShape /\ page.project \in Projects \cup {None}
      /\ None \notin Keys /\ Keys \cap Projects = {}
      BY DashboardAssumption DEF DialogInv, Shapes
<1>1. ASSUME UNCHANGED <<page, calls, ui>>  PROVE DialogInv'
      BY <1>1 DEF DialogInv, Shapes, DialogKept
<1>2. CASE UNCHANGED dashVars
      BY <1>1, <1>2 DEF dashVars
<1>3. CASE \E q \in Queries : Focus(q) \/ Read(q) \/ Arrive(q) \/ FetchFails(q)
  <2> PICK q \in Queries : Focus(q) \/ Read(q) \/ Arrive(q) \/ FetchFails(q)
      BY <1>3
  <2>1. CASE Focus(q) \/ Read(q)
        BY <1>1, <2>1 DEF Focus, Read
  <2>2. CASE Arrive(q) \/ FetchFails(q)
        BY <1>0, <2>2, TurnKeeps DEF Arrive, FetchFails
  <2> QED BY <2>1, <2>2
<1>4. CASE \E old \in SUBSET {q \in Queries : cache[q].at = "fresh"} :
              \/ \E at \in Routes : Open(at, old)
              \/ \E p \in Projects : OpenProject(p, old)
              \/ \E tab \in {"api-keys", "logs"} : ChooseTab(tab, old)
  <2> PICK old \in SUBSET {q \in Queries : cache[q].at = "fresh"} :
              \/ \E at \in Routes : Open(at, old)
              \/ \E p \in Projects : OpenProject(p, old)
              \/ \E tab \in {"api-keys", "logs"} : ChooseTab(tab, old)
      BY <1>4
  <2>1. ASSUME NEW at \in Routes, Open(at, old)  PROVE DialogInv'
        BY <2>1, TurnKeeps DEF Open
  <2>2. ASSUME NEW p \in Projects, OpenProject(p, old)  PROVE DialogInv'
        BY <2>2, TurnKeeps DEF OpenProject
  <2>3. ASSUME NEW tab \in {"api-keys", "logs"}, ChooseTab(tab, old)  PROVE DialogInv'
    <3>1. [page EXCEPT !.tab = tab].project = page.project
          OBVIOUS
    <3> QED BY <1>0, <2>3, <3>1, TurnKeeps DEF ChooseTab
  <2> QED BY <2>1, <2>2, <2>3
<1>5. CASE \E k \in Keys : AskDeleteKey(k) \/ CreateKey(k) \/ RevokeKey(k)
  <2> PICK k \in Keys : AskDeleteKey(k) \/ CreateKey(k) \/ RevokeKey(k)
      BY <1>5
  <2>1. CASE AskDeleteKey(k)
    <3>1. /\ ui' = [ui EXCEPT !.toDelete = k] /\ page' = page /\ calls' = calls
          /\ ~Pending("deleteKey")
          BY <2>1 DEF AskDeleteKey, Dialog
    <3>2. ui' \in DialogShape
          BY <1>0, <3>1 DEF DialogShape
    <3>3. \A c \in Calls : ~(calls[c].at # "idle" /\ calls[c].mine /\ calls[c].kind = "deleteKey")
          BY <3>1 DEF Pending
    <3> QED BY <3>1, <3>2, <3>3 DEF DialogInv, Shapes, DialogKept
  <2>2. CASE CreateKey(k)
        BY <2>2, SendKeeps DEF CreateKey, KeyKinds
  <2>3. CASE RevokeKey(k)
        BY <2>3, SendKeeps DEF RevokeKey, KeyKinds
  <2> QED BY <2>1, <2>2, <2>3
<1>6. CASE AskNewKey \/ AskNewProject
  <2>1. [ui EXCEPT !.creating = TRUE] \in DialogShape
        /\ [ui EXCEPT !.creating = TRUE].toDelete = ui.toDelete
        BY <1>0 DEF DialogShape
  <2> QED BY <1>6, <2>1, DialogKeeps DEF AskNewKey, AskNewProject
<1>7. CASE DeleteKey
  <2>1. Send("deleteKey", ui.toDelete) /\ ui.toDelete \in Keys
        BY <1>7 DEF DeleteKey
  <2> QED BY <2>1, SendKeeps DEF KeyKinds
<1>8. CASE Close
  <2>1. /\ NoDialog \in DialogShape /\ NoDialog.toDelete = None
        /\ [ui EXCEPT !.newKey = None] \in DialogShape
        /\ [ui EXCEPT !.newKey = None].toDelete = ui.toDelete
        BY <1>0 DEF DialogShape, NoDialog
  <2> QED BY <1>0, <1>8, <2>1, DialogKeeps DEF Close
<1>9. ASSUME NEW p \in Projects \cup {None}, Dialog([ui EXCEPT !.toDelete = p])
      PROVE  DialogInv'
  <2>1. [ui EXCEPT !.toDelete = p] \in DialogShape /\ [ui EXCEPT !.toDelete = p].toDelete = p
        BY <1>0 DEF DialogShape
  <2> QED BY <1>0, <1>9, <2>1, DialogKeeps
<1>10. CASE (\E p \in Projects : AskDeleteListed(p)) \/ AskDeleteOpened
      BY <1>0, <1>9, <1>10 DEF AskDeleteListed, AskDeleteOpened
<1>11. CASE CreateProject \/ DeleteListed \/ DeleteOpened
      BY <1>0, <1>11, SendKeeps DEF CreateProject, DeleteListed, DeleteOpened
<1>12. CASE \E c \in Calls : Serve(c) \/ Fail(c) \/ Succeed(c)
  <2> PICK c \in Calls : Serve(c) \/ Fail(c) \/ Succeed(c)
      BY <1>12
  <2>1. CASE Serve(c)
    <3>1. /\ calls[c].at = "sent" /\ calls' = [calls EXCEPT ![c].at = "served"]
          /\ page' = page /\ ui' = ui /\ calls \in [Calls -> CallShape]
          BY <2>1 DEF Serve, DialogInv, Shapes
    <3>2. calls' \in [Calls -> CallShape]
          BY <3>1 DEF CallShape
    <3>3. \A d \in Calls : /\ calls'[d].kind = calls[d].kind /\ calls'[d].arg = calls[d].arg
                           /\ calls'[d].mine = calls[d].mine
                           /\ calls'[d].at # "idle" => calls[d].at # "idle"
          BY <3>1 DEF CallShape
    <3> QED BY <3>1, <3>2, <3>3 DEF DialogInv, Shapes, DialogKept
  <2>2. CASE Fail(c)
        BY <1>0, <2>2, EndKeeps DEF Fail
  <2>3. CASE Succeed(c)
    <3>1. /\ calls' = [calls EXCEPT ![c] = NoCall] /\ page' = page
          /\ ui' = DialogAfter(calls[c]) /\ calls[c] \in CallShape
          BY <2>3 DEF Succeed, DialogInv, Shapes
    <3>2. \/ ui' = ui
          \/ ui' = [ui EXCEPT !.creating = FALSE, !.newKey = calls[c].arg]
          \/ ui' = [ui EXCEPT !.toDelete = IF @ \in Keys THEN None ELSE @]
          BY <3>1 DEF DialogAfter
    <3>3. calls[c].arg \in Keys \cup Projects \cup {None}
          BY <3>1 DEF CallShape
    <3>4. ui' \in DialogShape /\ (ui'.toDelete \in Keys => ui'.toDelete = ui.toDelete)
          BY <1>0, <3>2, <3>3 DEF DialogShape
    <3> QED BY <3>1, <3>4, EndKeeps
  <2> QED BY <2>1, <2>2, <2>3
<1> QED BY <1>2, <1>3, <1>4, <1>5, <1>6, <1>7, <1>8, <1>10, <1>11, <1>12 DEF DashNext

(* No success closes the question about another key: for any number of     *)
(* keys, with any calls of pages that were left still under way            *)
(* ([id]/page.tsx 160-166, 425-434).                                       *)
THEOREM OwnQuestionOnly == DashSpec => []DialogKept
<1>1. DashInit => DialogInv
  <2> SUFFICES ASSUME DashInit  PROVE DialogInv
      OBVIOUS
  <2>1. NoCall \in CallShape /\ NoDialog \in DialogShape /\ NoCall.at = "idle"
        BY DEF NoCall, NoDialog, CallShape, DialogShape
  <2>2. page.project = None /\ calls = [c \in Calls |-> NoCall] /\ ui = NoDialog
        BY DEF DashInit
  <2> QED BY <2>1, <2>2 DEF DialogInv, Shapes, DialogKept
<1>2. DialogInv => DialogKept
      BY DEF DialogInv
<1> QED BY <1>1, <1>2, DialogInvKept, PTL DEF DashSpec

-----------------------------------------------------------------------------
(* What the lists tell.                                                    *)

KeyState == {"unused", "active", "revoked", "deleted"}
Answers(q) ==
    IF q = "projects" THEN [Projects -> Nat]
    ELSE UNION {[D -> {"active", "revoked"}] : D \in SUBSET Keys}
EntryShape(q) == [data : Answers(q) \cup {None}, at : {"stale", "asked", "read", "fresh"},
                  read : Answers(q) \cup {None}]

\* What became of a key when a call was served, with ks the rows; rows only
\* move on, so it stays true.
Done(kind, k, ks) ==
    /\ kind = "createKey" => ks[k] # "unused"
    /\ kind = "revokeKey" => ks[k] \in {"revoked", "deleted"}
    /\ kind = "deleteKey" => ks[k] = "deleted"

\* The keys of a project that were made, but for the deletions in ack.
Kept(p, ks, ack) ==
    {k \in Keys : OwnerOf[k] = p /\ ks[k] # "unused" /\ <<"deleteKey", k>> \notin ack}

\* The list of a project, or of the projects, tells all that is in ack.
Tells(q, data, ks, ack) ==
    /\ data \in Answers(q)
    /\ q = "projects" => \A p \in Projects : data[p] <= Cardinality(Kept(p, ks, ack))
    /\ q # "projects" =>
          /\ \A k \in DOMAIN data : OwnerOf[k] = q
          /\ \A k \in Keys :
                /\ <<"deleteKey", k>> \in ack => k \notin DOMAIN data
                /\ <<"revokeKey", k>> \in ack /\ k \in DOMAIN data => data[k] = "revoked"
                /\ <<"createKey", k>> \in ack /\ OwnerOf[k] = q =>
                      k \in DOMAIN data \/ ks[k] = "deleted"

\* So does what a fetch has read, unless the list was invalidated since.
EntryTells(q, e, over, ks, ack) ==
    q \notin over => /\ e.at = "fresh" => Tells(q, e.data, ks, ack)
                     /\ e.at = "read" => Tells(q, e.read, ks, ack)
CacheTells(ch, over, ks, ack) ==
    /\ ch = [q \in Queries |-> ch[q]]
    /\ \A q \in Queries : ch[q] \in EntryShape(q) /\ EntryTells(q, ch[q], over, ks, ack)

\* What was served, and what a page was told of, is done.
CallsDone(cs, ks) ==
    \A c \in Calls :
        /\ cs[c].at # "idle" /\ cs[c].kind \in KeyKinds => cs[c].arg \in Keys
        /\ cs[c].at = "served" => cs[c].kind \in KeyKinds /\ Done(cs[c].kind, cs[c].arg, ks)
AckedDone(ack, ks) ==
    \A x \in ack : \E kind \in KeyKinds, k \in Keys : x = <<kind, k>> /\ Done(kind, k, ks)

ListsInv ==
    /\ keys \in [Keys -> KeyState]
    /\ CallsDone(calls, keys) /\ AckedDone(acked, keys)
    /\ CacheTells(cache, overtaken, keys, acked)

-----------------------------------------------------------------------------
(* The cache.                                                              *)

\* An entry that is made stale, or asked for anew, tells nothing wrong.
LEMMA EntryAsked ==
    ASSUME NEW q, NEW e \in EntryShape(q), NEW over, NEW ks, NEW ack,
           NEW r \in {e.read, None}, NEW at \in {"asked", "stale"}
    PROVE  LET f == [e EXCEPT !.at = at, !.read = r]
           IN  f \in EntryShape(q) /\ EntryTells(q, f, over, ks, ack)
<1> DEFINE f == [e EXCEPT !.at = at, !.read = r]
<1>1. /\ f.data = e.data /\ f.read = r /\ f.at = at
      /\ f = [data |-> e.data, at |-> at, read |-> r]
  <2> DEFINE g == [e EXCEPT !.at = at]
  <2>1. DOMAIN e = {"data", "at", "read"}
        BY DEF EntryShape
  <2>2. g.at = at /\ g.data = e.data /\ DOMAIN g = {"data", "at", "read"}
        BY <2>1
  <2>3. f = [g EXCEPT !.read = r]
        OBVIOUS
  <2> HIDE DEF f, g
  <2>4. f.read = r /\ f.data = g.data /\ f.at = g.at
        BY <2>2, <2>3
  <2>5. f = [data |-> f.data, at |-> f.at, read |-> f.read]
        BY <2>2, <2>3
  <2> QED BY <2>2, <2>4, <2>5
<1>2. e.data \in Answers(q) \cup {None} /\ r \in Answers(q) \cup {None}
      BY DEF EntryShape
<1> HIDE DEF f
<1>3. f \in EntryShape(q)
      BY <1>1, <1>2 DEF EntryShape
<1>4. EntryTells(q, f, over, ks, ack)
      BY <1>1 DEF EntryTells
<1> QED BY <1>3, <1>4 DEF f

LEMMA OnlyAt ==
    ASSUME NEW q, NEW e \in EntryShape(q), NEW at
    PROVE  [e EXCEPT !.at = at] = [e EXCEPT !.at = at, !.read = e.read]
    BY DEF EntryShape

\* A list is replaced.
LEMMA SetEntry ==
    ASSUME NEW ch, NEW over, NEW ks, NEW ack, CacheTells(ch, over, ks, ack),
           NEW q \in Queries, NEW e \in EntryShape(q), EntryTells(q, e, over, ks, ack)
    PROVE  CacheTells([ch EXCEPT ![q] = e], over, ks, ack)
<1> DEFINE new == [ch EXCEPT ![q] = e]
<1>1. new = [r \in Queries |-> new[r]] /\ \A r \in Queries : new[r] = IF r = q THEN e ELSE ch[r]
      BY DEF CacheTells
<1> HIDE DEF new
<1>2. CacheTells(new, over, ks, ack)
      BY <1>1 DEF CacheTells
<1> QED BY <1>2 DEF new

\* A component that begins to read a list leaves its answer alone.
LEMMA MountTells ==
    ASSUME NEW pg, NEW ch, NEW over, NEW ks, NEW ack, CacheTells(ch, over, ks, ack), NEW q
    PROVE  CacheTells(Mount(pg, ch, q), over, ks, ack)
<1>1. CASE Mount(pg, ch, q) = ch
      BY <1>1
<1>2. CASE Mount(pg, ch, q) = [ch EXCEPT ![q].at = "asked"]
  <2>1. CASE q \notin Queries
    <3>1. [ch EXCEPT ![q].at = "asked"] = ch
          BY <2>1 DEF CacheTells
    <3> QED BY <1>2, <3>1
  <2>2. CASE q \in Queries
    <3> DEFINE e == [ch[q] EXCEPT !.at = "asked"]
    <3>1. ch[q] \in EntryShape(q)
          BY <2>2 DEF CacheTells
    <3>2. e \in EntryShape(q) /\ EntryTells(q, e, over, ks, ack)
          BY <3>1, EntryAsked, OnlyAt
    <3>3. Mount(pg, ch, q) = [ch EXCEPT ![q] = e]
          BY <1>2
    <3> HIDE DEF e
    <3>4. CacheTells([ch EXCEPT ![q] = e], over, ks, ack)
          BY <2>2, <3>2, SetEntry
    <3> QED BY <3>3, <3>4
  <2> QED BY <2>1, <2>2
<1> QED BY <1>1, <1>2 DEF Mount

\* Nor does a turn of the page, which keeps what the calls are.
LEMMA TurnTells ==
    ASSUME calls \in [Calls -> CallShape], CallsDone(calls, keys),
           NEW pg, NEW ch, CacheTells(ch, overtaken, keys, acked), Turn(pg, ch, calls)
    PROVE  CacheTells(cache', overtaken, keys, acked) /\ CallsDone(calls', keys)
<1> DEFINE listed == Mount(pg, ch, "projects")
           ch2 == IF pg.at = "project" THEN Mount(pg, listed, pg.project) ELSE listed
           pageStays == pg.at = page.at /\ pg.project = page.project
           tabStays == pg = page /\ TabShown /\ Found(ch2, page.project)
           stays(c) == IF calls[c].kind \in KeyKinds THEN tabStays ELSE pageStays
<1>1. /\ cache' = ch2
      /\ calls' = [c \in Calls |-> [calls[c] EXCEPT !.mine = @ /\ stays(c)]]
      BY DEF Turn
<1>2. CacheTells(ch2, overtaken, keys, acked)
      BY MountTells
<1> HIDE DEF ch2, stays
<1>3. ASSUME NEW c \in Calls
      PROVE  /\ calls'[c].at = calls[c].at /\ calls'[c].kind = calls[c].kind
             /\ calls'[c].arg = calls[c].arg
      BY <1>1 DEF CallShape
<1> QED BY <1>1, <1>2, <1>3 DEF CallsDone

\* Lists that are older than thirty seconds tell what they told.
LEMMA AgedTells ==
    ASSUME CacheTells(cache, overtaken, keys, acked), NEW old
    PROVE  CacheTells(Aged(old), overtaken, keys, acked)
<1> SUFFICES ASSUME NEW q \in Queries
             PROVE  /\ Aged(old)[q] \in EntryShape(q)
                    /\ EntryTells(q, Aged(old)[q], overtaken, keys, acked)
    BY DEF CacheTells, Aged
<1>1. cache[q] \in EntryShape(q) /\ EntryTells(q, cache[q], overtaken, keys, acked)
      BY DEF CacheTells
<1>2. Aged(old)[q] \in {cache[q], [cache[q] EXCEPT !.at = "stale"]}
      BY DEF Aged
<1>3. LET e == [cache[q] EXCEPT !.at = "stale"]
      IN  e \in EntryShape(q) /\ EntryTells(q, e, overtaken, keys, acked)
      BY <1>1, EntryAsked, OnlyAt
<1> QED BY <1>1, <1>2, <1>3

-----------------------------------------------------------------------------
(* The rows.                                                               *)

Onward(ks, ks2) ==
    \A k \in Keys : /\ ks[k] # "unused" => ks2[k] # "unused"
                    /\ ks[k] \in {"revoked", "deleted"} => ks2[k] \in {"revoked", "deleted"}
                    /\ ks[k] = "deleted" => ks2[k] = "deleted"

\* A call that is served does what it says, and moves rows on only.
LEMMA ServedOnward ==
    ASSUME keys \in [Keys -> KeyState], NEW kind \in KeyKinds, NEW arg \in Keys,
           Servable(kind, arg)
    PROVE  /\ Effect(kind, arg) \in [Keys -> KeyState]
           /\ Onward(keys, Effect(kind, arg)) /\ Done(kind, arg, Effect(kind, arg))
<1>1. CASE kind = "createKey"
  <2>1. Effect(kind, arg) = [k \in Keys |-> IF k = arg THEN "active"
                                            ELSE IF k \in Rows(OwnerOf[arg]) THEN "revoked"
                                            ELSE keys[k]]
        BY <1>1 DEF Effect
  <2>2. keys[arg] = "unused"
        BY <1>1 DEF Servable
  <2>3. \A k \in Rows(OwnerOf[arg]) : keys[k] \in {"active", "revoked"}
        BY DEF Rows
  <2> QED BY <1>1, <2>1, <2>2, <2>3 DEF Onward, Done, KeyState
<1>2. CASE kind = "revokeKey"
  <2>1. Effect(kind, arg) = [keys EXCEPT ![arg] = "revoked"] /\ keys[arg] = "active"
        BY <1>2 DEF Effect, Servable
  <2> QED BY <1>2, <2>1 DEF Onward, Done, KeyState
<1>3. CASE kind = "deleteKey"
  <2>1. Effect(kind, arg) = [keys EXCEPT ![arg] = "deleted"]
        BY <1>3 DEF Effect
  <2> QED BY <1>3, <2>1 DEF Onward, Done, KeyState
<1> QED BY <1>1, <1>2, <1>3 DEF KeyKinds

LEMMA KeptFinite ==
    ASSUME NEW p, NEW ks, NEW ack
    PROVE  IsFiniteSet(Kept(p, ks, ack)) /\ Cardinality(Kept(p, ks, ack)) \in Nat
<1>1. Kept(p, ks, ack) \in SUBSET Keys
      BY DEF Kept
<1> QED BY <1>1, DashboardAssumption, FS_Subset, FS_CardinalityType

\* What a list tells stays told when rows move on.
LEMMA TellsOn ==
    ASSUME NEW q, NEW data, NEW ks, NEW ks2, NEW ack, Tells(q, data, ks, ack), Onward(ks, ks2)
    PROVE  Tells(q, data, ks2, ack)
<1>1. ASSUME q = "projects", NEW p \in Projects
      PROVE  data[p] <= Cardinality(Kept(p, ks2, ack))
  <2>1. data[p] <= Cardinality(Kept(p, ks, ack)) /\ data[p] \in Nat
        BY <1>1 DEF Tells, Answers
  <2>2. Kept(p, ks, ack) \in SUBSET Kept(p, ks2, ack)
        BY DEF Kept, Onward
  <2>3. /\ Cardinality(Kept(p, ks, ack)) <= Cardinality(Kept(p, ks2, ack))
        /\ Cardinality(Kept(p, ks, ack)) \in Nat /\ Cardinality(Kept(p, ks2, ack)) \in Nat
        BY <2>2, KeptFinite, FS_Subset
  <2> QED BY <2>1, <2>3
<1> QED BY <1>1 DEF Tells, Onward

\* And when a page is told of a success that is not about the list.
LEMMA TellsMore ==
    ASSUME NEW q \in Queries, NEW data, NEW ks, NEW ack, Tells(q, data, ks, ack),
           NEW kind, NEW arg \in Keys, OwnerOf[arg] # q,
           q = "projects" => kind # "deleteKey"
    PROVE  Tells(q, data, ks, ack \cup {<<kind, arg>>})
<1> DEFINE more == ack \cup {<<kind, arg>>}
<1>1. CASE q = "projects"
  <2>1. \A p : Kept(p, ks, more) = Kept(p, ks, ack)
        BY <1>1 DEF Kept
  <2> HIDE DEF more
  <2> QED BY <1>1, <2>1 DEF Tells, more
<1>2. CASE q # "projects"
  <2>1. \A k \in DOMAIN data : k # arg
        BY <1>2 DEF Tells
  <2>2. \A x, k : <<x, k>> \in more => <<x, k>> \in ack \/ k = arg
        OBVIOUS
  <2> HIDE DEF more
  <2>3. Tells(q, data, ks, more)
        BY <1>2, <2>1, <2>2 DEF Tells
  <2> QED BY <2>3 DEF more
<1> QED BY <1>1, <1>2

-----------------------------------------------------------------------------
(* The steps of the server, the fetches and the calls.                     *)

\* What the server has done stays done.
LEMMA DoneOn ==
    ASSUME NEW ks, NEW ks2, Onward(ks, ks2)
    PROVE  /\ CallsDone(calls, ks) => CallsDone(calls, ks2)
           /\ AckedDone(acked, ks) => AckedDone(acked, ks2)
           /\ CacheTells(cache, overtaken, ks, acked) => CacheTells(cache, overtaken, ks2, acked)
<1>1. \A kind \in KeyKinds, k \in Keys : Done(kind, k, ks) => Done(kind, k, ks2)
      BY DEF Done, Onward
<1>2. CallsDone(calls, ks) => CallsDone(calls, ks2)
      BY <1>1 DEF CallsDone
<1>3. AckedDone(acked, ks) => AckedDone(acked, ks2)
      BY <1>1 DEF AckedDone
<1>4. ASSUME CacheTells(cache, overtaken, ks, acked)
      PROVE  CacheTells(cache, overtaken, ks2, acked)
  <2>1. ASSUME NEW q \in Queries, EntryTells(q, cache[q], overtaken, ks, acked)
        PROVE  EntryTells(q, cache[q], overtaken, ks2, acked)
        BY <2>1, TellsOn DEF EntryTells
  <2> QED BY <1>4, <2>1 DEF CacheTells
<1> QED BY <1>2, <1>3, <1>4

LEMMA ServeTells ==
    ASSUME Shapes, ListsInv, NEW c \in Calls, Serve(c)
    PROVE  ListsInv'
<1> DEFINE kind == calls[c].kind
           arg == calls[c].arg
<1>1. /\ calls[c] \in CallShape /\ calls[c].at = "sent"
      /\ calls' = [calls EXCEPT ![c].at = "served"] /\ calls \in [Calls -> CallShape]
      /\ keys' = Effect(kind, arg) /\ Servable(kind, arg)
      /\ cache' = cache /\ acked' = acked /\ overtaken' = overtaken
      BY DEF Serve, Shapes
<1>2. kind \in KeyKinds
      BY <1>1 DEF Servable, KeyKinds
<1>3. arg \in Keys
      BY <1>1, <1>2 DEF ListsInv, CallsDone
<1>4. keys' \in [Keys -> KeyState] /\ Onward(keys, keys') /\ Done(kind, arg, keys')
  <2> HIDE DEF kind, arg
  <2> QED BY <1>1, <1>2, <1>3, ServedOnward DEF ListsInv
<1>5. \A d \in Calls : /\ calls'[d].kind = calls[d].kind /\ calls'[d].arg = calls[d].arg
                       /\ calls'[d].at = IF d = c THEN "served" ELSE calls[d].at
      BY <1>1 DEF CallShape
<1>6. /\ CallsDone(calls, keys') /\ AckedDone(acked, keys')
      /\ CacheTells(cache, overtaken, keys', acked)
      BY <1>4, DoneOn DEF ListsInv
<1>7. CallsDone(calls', keys')
      BY <1>2, <1>3, <1>4, <1>5, <1>6 DEF CallsDone
<1> QED BY <1>1, <1>4, <1>6, <1>7 DEF ListsInv

\* The answer to a fetch tells what a page was told of before the server read it.
LEMMA ReadTells ==
    ASSUME ListsInv, NEW q \in Queries, Read(q)
    PROVE  ListsInv'
<1> DEFINE read == IF q = "projects" THEN [p \in Projects |-> Cardinality(Rows(p))]
                                     ELSE [k \in Rows(q) |-> keys[k]]
           e == [cache[q] EXCEPT !.at = "read", !.read = read]
<1>1. /\ cache' = [cache EXCEPT ![q].at = "read", ![q].read = read]
      /\ overtaken' = overtaken \ {q}
      /\ keys' = keys /\ calls' = calls /\ acked' = acked
      BY DEF Read
<1>2. ASSUME NEW k \in Keys
      PROVE  /\ <<"deleteKey", k>> \in acked => keys[k] = "deleted"
             /\ <<"revokeKey", k>> \in acked => keys[k] \in {"revoked", "deleted"}
             /\ <<"createKey", k>> \in acked => keys[k] # "unused"
      BY DEF ListsInv, AckedDone, Done
<1>3. \A k \in Keys : keys[k] \in KeyState
      BY DEF ListsInv
<1>4. Tells(q, read, keys, acked)
  <2>1. CASE q = "projects"
    <3>1. ASSUME NEW p \in Projects
          PROVE  Cardinality(Rows(p)) \in Nat /\ Cardinality(Rows(p)) <= Cardinality(Kept(p, keys, acked))
      <4>1. Rows(p) \in SUBSET Kept(p, keys, acked)
            BY <1>2 DEF Rows, Kept
      <4> QED BY <4>1, KeptFinite, FS_Subset, FS_CardinalityType
    <3>2. read = [p \in Projects |-> Cardinality(Rows(p))]
          BY <2>1
    <3> HIDE DEF read
    <3> QED BY <2>1, <3>1, <3>2 DEF Tells, Answers
  <2>2. CASE q # "projects"
    <3>1. read = [k \in Rows(q) |-> keys[k]]
          BY <2>2
    <3> HIDE DEF read
    <3>2. \A k : k \in Rows(q) <=> k \in Keys /\ OwnerOf[k] = q /\ keys[k] \in {"active", "revoked"}
          BY DEF Rows
    <3>3. read \in [Rows(q) -> {"active", "revoked"}] /\ Rows(q) \in SUBSET Keys
          BY <3>1, <3>2
    <3>4. read \in Answers(q)
          BY <2>2, <3>3 DEF Answers
    <3>5. ASSUME NEW k \in Keys
          PROVE  /\ <<"deleteKey", k>> \in acked => k \notin DOMAIN read
                 /\ <<"revokeKey", k>> \in acked /\ k \in DOMAIN read => read[k] = "revoked"
                 /\ <<"createKey", k>> \in acked /\ OwnerOf[k] = q =>
                       k \in DOMAIN read \/ keys[k] = "deleted"
          BY <1>2, <1>3, <3>1, <3>2 DEF KeyState
    <3> QED BY <2>2, <3>1, <3>2, <3>4, <3>5 DEF Tells
  <2> QED BY <2>1, <2>2
<1>5. CacheTells(cache', overtaken', keys, acked)
  <2>1. cache = [r \in Queries |-> cache[r]] /\ cache[q] \in EntryShape(q)
        BY DEF ListsInv, CacheTells
  <2>2. /\ cache' = [r \in Queries |-> cache'[r]]
        /\ \A r \in Queries : r # q => cache'[r] = cache[r]
        BY <1>1, <2>1
  <2> HIDE DEF read
  <2>3. cache'[q].at = "read" /\ cache'[q].read = read /\ cache'[q] \in EntryShape(q)
    <3> DEFINE g == [cache[q] EXCEPT !.at = "read"]
               f == [g EXCEPT !.read = read]
    <3>1. read \in Answers(q)
          BY <1>4 DEF Tells
    <3>2. cache'[q] = f
          BY <1>1, <2>1
    <3>3. g.at = "read" /\ g \in EntryShape(q)
          BY <2>1 DEF EntryShape
    <3> HIDE DEF g
    <3>4. f.at = "read" /\ f.read = read /\ f \in EntryShape(q)
          BY <3>1, <3>3 DEF EntryShape
    <3> QED BY <3>2, <3>4
  <2>4. EntryTells(q, cache'[q], overtaken', keys, acked)
        BY <1>4, <2>3 DEF EntryTells
  <2>5. ASSUME NEW r \in Queries, r # q
        PROVE  cache'[r] \in EntryShape(r) /\ EntryTells(r, cache'[r], overtaken', keys, acked)
        BY <1>1, <2>2, <2>5 DEF ListsInv, CacheTells, EntryTells
  <2> QED BY <2>2, <2>3, <2>4, <2>5 DEF CacheTells
<1> QED BY <1>1, <1>5 DEF ListsInv

\* A success makes the lists it is about stale, or marks the fetch that goes on.
LEMMA SucceedTells ==
    ASSUME Shapes, ListsInv, NEW c \in Calls, Succeed(c)
    PROVE  ListsInv'
<1> DEFINE kind == calls[c].kind
           arg == calls[c].arg
           touched == Touches(kind, arg)
<1>1. /\ calls[c].at = "served" /\ calls \in [Calls -> CallShape]
      /\ acked' = acked \cup {<<kind, arg>>}
      /\ overtaken' = overtaken \cup {q \in touched : GoesOn(q)}
      /\ cache' = Invalidated(touched)
      /\ calls' = [calls EXCEPT ![c] = NoCall] /\ keys' = keys
      BY DEF Succeed, Shapes
<1>2. kind \in KeyKinds /\ arg \in Keys /\ Done(kind, arg, keys)
      BY <1>1 DEF ListsInv, CallsDone
<1> HIDE DEF kind, arg
<1>3. AckedDone(acked', keys)
      BY <1>1, <1>2 DEF ListsInv, AckedDone
<1>4. CallsDone(calls', keys)
  <2>1. NoCall.at = "idle"
        BY DEF NoCall
  <2>2. \A d \in Calls : calls'[d] = IF d = c THEN NoCall ELSE calls[d]
        BY <1>1
  <2> QED BY <2>1, <2>2 DEF ListsInv, CallsDone
<1>5. /\ touched \subseteq Queries
      /\ \A q \in Queries \ touched : OwnerOf[arg] # q /\ (q = "projects" => kind # "deleteKey")
      BY <1>2, DashboardAssumption DEF Touches, Queries
<1> HIDE DEF touched
<1>6. ASSUME NEW q \in Queries
      PROVE  cache'[q] \in EntryShape(q) /\ EntryTells(q, cache'[q], overtaken', keys, acked')
  <2>1. cache[q] \in EntryShape(q) /\ EntryTells(q, cache[q], overtaken, keys, acked)
        BY DEF ListsInv, CacheTells
  <2>2. CASE q \notin touched
    <3>1. cache'[q] = cache[q]
          BY <1>1, <2>2 DEF Invalidated
    <3>2. \A data : Tells(q, data, keys, acked) => Tells(q, data, keys, acked')
          BY <1>1, <1>2, <1>5, <2>2, TellsMore
    <3> QED BY <1>1, <2>1, <3>1, <3>2 DEF EntryTells
  <2>3. CASE q \in touched /\ GoesOn(q)
    <3>1. cache'[q] = cache[q] /\ q \in overtaken'
          BY <1>1, <2>3 DEF Invalidated
    <3> QED BY <2>1, <3>1 DEF EntryTells
  <2>4. CASE q \in touched /\ ~GoesOn(q)
    <3> DEFINE at == IF Observed(page, cache, q) THEN "asked" ELSE "stale"
    <3>1. cache'[q] = [cache[q] EXCEPT !.read = None, !.at = at]
          BY <1>1, <2>4 DEF Invalidated
    <3>2. at \in {"asked", "stale"}
          OBVIOUS
    <3> HIDE DEF at
    <3> DEFINE f == [cache[q] EXCEPT !.at = at, !.read = None]
    <3>3. cache'[q] = f
          BY <2>1, <3>1 DEF EntryShape
    <3>4. f \in EntryShape(q) /\ EntryTells(q, f, overtaken', keys, acked')
          BY <2>1, <3>2, EntryAsked
    <3> HIDE DEF f
    <3> QED BY <3>3, <3>4
  <2> QED BY <2>2, <2>3, <2>4
<1>7. cache' = [q \in Queries |-> cache'[q]]
      BY <1>1 DEF Invalidated
<1>8. CacheTells(cache', overtaken', keys, acked')
      BY <1>6, <1>7 DEF CacheTells
<1> QED BY <1>1, <1>3, <1>4, <1>8 DEF ListsInv

-----------------------------------------------------------------------------
\* The calls and the dialogs move, the rows and the lists do not.
LEMMA SendTells ==
    ASSUME Shapes, ListsInv, NEW kind, NEW arg, Send(kind, arg),
           kind \in KeyKinds => arg \in Keys
    PROVE  ListsInv'
<1>1. PICK c \in Calls : calls' = [calls EXCEPT ![c] = [at |-> "sent", kind |-> kind,
                                                       arg |-> arg, mine |-> TRUE]]
      BY DEF Send
<1>2. /\ UNCHANGED <<keys, cache, acked, overtaken>> /\ calls \in [Calls -> CallShape]
      BY DEF Send, Shapes
<1>3. CallsDone(calls', keys)
      BY <1>1, <1>2 DEF ListsInv, CallsDone
<1> QED BY <1>2, <1>3 DEF ListsInv

LEMMA ListsInvKept == Shapes /\ ListsInv /\ [DashNext]_dashVars => ListsInv'
<1> SUFFICES ASSUME Shapes, ListsInv, [DashNext]_dashVars  PROVE ListsInv'
    OBVIOUS
<1>0. /\ calls \in [Calls -> CallShape] /\ CallsDone(calls, keys)
      /\ CacheTells(cache, overtaken, keys, acked)
      BY DEF Shapes, ListsInv
<1>1. ASSUME UNCHANGED <<keys, cache, calls, acked, overtaken>>  PROVE ListsInv'
      BY <1>1 DEF ListsInv
<1>2. CASE UNCHANGED dashVars
      BY <1>1, <1>2 DEF dashVars
<1>3. ASSUME UNCHANGED <<keys, acked, overtaken>>, CallsDone(calls', keys),
             CacheTells(cache', overtaken, keys, acked)
      PROVE  ListsInv'
      BY <1>3 DEF ListsInv
<1>4. ASSUME NEW q \in Queries, NEW e \in EntryShape(q),
             EntryTells(q, e, overtaken, keys, acked)
      PROVE  CacheTells([cache EXCEPT ![q] = e], overtaken, keys, acked)
      BY <1>0, <1>4, SetEntry
<1>5. ASSUME NEW q \in Queries
      PROVE  cache[q] \in EntryShape(q) /\ EntryTells(q, cache[q], overtaken, keys, acked)
      BY <1>0 DEF CacheTells
<1>6. ASSUME NEW q \in Queries, Focus(q)  PROVE ListsInv'
  <2> DEFINE e == [cache[q] EXCEPT !.at = "asked"]
  <2>1. e \in EntryShape(q) /\ EntryTells(q, e, overtaken, keys, acked)
        BY <1>5, EntryAsked, OnlyAt
  <2>2. /\ cache' = [cache EXCEPT ![q] = e] /\ calls' = calls
        /\ UNCHANGED <<keys, acked, overtaken>>
        BY <1>6 DEF Focus
  <2> HIDE DEF e
  <2> QED BY <1>0, <1>3, <1>4, <2>1, <2>2
<1>7. ASSUME NEW q \in Queries, Arrive(q)  PROVE ListsInv'
  <2> DEFINE e == [data |-> cache[q].read, at |-> "fresh", read |-> None]
  <2>1. cache[q].at = "read" /\ Turn(page, [cache EXCEPT ![q] = e], calls)
        /\ UNCHANGED <<keys, acked, overtaken>>
        BY <1>7 DEF Arrive
  <2>2. e \in EntryShape(q) /\ EntryTells(q, e, overtaken, keys, acked)
        BY <1>5, <2>1 DEF EntryShape, EntryTells
  <2> HIDE DEF e
  <2> QED BY <1>0, <1>3, <1>4, <2>1, <2>2, TurnTells
<1>8. ASSUME NEW q \in Queries, FetchFails(q)  PROVE ListsInv'
  <2> DEFINE e == [cache[q] EXCEPT !.at = "stale", !.read = None]
  <2>1. e \in EntryShape(q) /\ EntryTells(q, e, overtaken, keys, acked)
        BY <1>5, EntryAsked
  <2>2. Turn(page, [cache EXCEPT ![q].at = "stale", ![q].read = None], calls)
        /\ UNCHANGED <<keys, acked, overtaken>>
        BY <1>8 DEF FetchFails
  <2>3. [cache EXCEPT ![q].at = "stale", ![q].read = None] = [cache EXCEPT ![q] = e]
        BY <1>0 DEF CacheTells
  <2> HIDE DEF e
  <2> QED BY <1>0, <1>3, <1>4, <2>1, <2>2, <2>3, TurnTells
<1>9. CASE \E q \in Queries : Focus(q) \/ Read(q) \/ Arrive(q) \/ FetchFails(q)
      BY <1>6, <1>7, <1>8, <1>9, ReadTells
<1>10. CASE \E old \in SUBSET {q \in Queries : cache[q].at = "fresh"} :
              \/ \E at \in Routes : Open(at, old)
              \/ \E p \in Projects : OpenProject(p, old)
              \/ \E tab \in {"api-keys", "logs"} : ChooseTab(tab, old)
  <2> PICK old \in SUBSET {q \in Queries : cache[q].at = "fresh"} :
              \/ \E at \in Routes : Open(at, old)
              \/ \E p \in Projects : OpenProject(p, old)
              \/ \E tab \in {"api-keys", "logs"} : ChooseTab(tab, old)
      BY <1>10
  <2>1. PICK pg : Turn(pg, Aged(old), calls) /\ UNCHANGED <<keys, acked, overtaken>>
        BY DEF Open, OpenProject, ChooseTab
  <2> QED BY <1>0, <1>3, <2>1, AgedTells, TurnTells
<1>11. ASSUME NEW new, Dialog(new)  PROVE ListsInv'
      BY <1>1, <1>11 DEF Dialog
<1>12. CASE \E k \in Keys : AskDeleteKey(k) \/ CreateKey(k) \/ RevokeKey(k)
      BY <1>11, <1>12, SendTells DEF AskDeleteKey, CreateKey, RevokeKey
<1>13. CASE AskNewKey \/ DeleteKey \/ Close
      BY <1>11, <1>13, SendTells DEF AskNewKey, DeleteKey, Close
<1>14. CASE \E p \in Projects : AskDeleteListed(p)
      BY <1>11, <1>14 DEF AskDeleteListed
<1>15. CASE AskNewProject \/ CreateProject \/ DeleteListed \/ AskDeleteOpened \/ DeleteOpened
  <2>1. "createProject" \notin KeyKinds /\ "deleteProject" \notin KeyKinds
        BY DEF KeyKinds
  <2> QED BY <1>11, <1>15, <2>1, SendTells
          DEF AskNewProject, CreateProject, DeleteListed, AskDeleteOpened, DeleteOpened
<1>16. ASSUME NEW c \in Calls, Fail(c)  PROVE ListsInv'
  <2>1. /\ UNCHANGED <<keys, cache, acked, overtaken>> /\ NoCall.at = "idle"
        /\ \A d \in Calls : calls'[d] = IF d = c THEN NoCall ELSE calls[d]
        BY <1>0, <1>16 DEF Fail, NoCall
  <2>2. CallsDone(calls', keys)
        BY <1>0, <2>1 DEF CallsDone
  <2> QED BY <1>0, <1>3, <2>1, <2>2
<1>17. CASE \E c \in Calls : Serve(c) \/ Fail(c) \/ Succeed(c)
      BY <1>16, <1>17, ServeTells, SucceedTells
<1> QED BY <1>2, <1>9, <1>10, <1>12, <1>13, <1>14, <1>15, <1>17 DEF DashNext

(* What a page was told of is in every fresh list, for any number of       *)
(* projects, keys and calls, unless the cache let a fetch go on; that the  *)
(* overview's total leaves out the deleted keys of all projects is the sum *)
(* of what the list of projects tells of each ([id]/page.tsx 133-171).     *)
THEOREM ListsTellAcked == DashSpec => []AcknowledgedIsShown
<1>1. DashInit => DialogInv /\ ListsInv
  <2> SUFFICES ASSUME DashInit  PROVE DialogInv /\ ListsInv
      OBVIOUS
  <2>1. NoCall \in CallShape /\ NoDialog \in DialogShape /\ NoCall.at = "idle"
        BY DEF NoCall, NoDialog, CallShape, DialogShape
  <2>2. /\ page.project = None /\ calls = [c \in Calls |-> NoCall] /\ ui = NoDialog
        /\ keys \in [Keys -> KeyState] /\ acked = {}
        BY DEF DashInit, KeyState
  <2>3. /\ \A q \in Queries : cache[q] \in {Unasked, [Unasked EXCEPT !.at = "asked"]}
        /\ cache = [r \in Queries |-> cache[r]]
        BY DEF DashInit
  <2>4. ASSUME NEW q \in Queries, NEW e \in {Unasked, [Unasked EXCEPT !.at = "asked"]}
        PROVE  e \in EntryShape(q) /\ EntryTells(q, e, overtaken, keys, acked)
        BY DEF Unasked, EntryShape, EntryTells
  <2>5. CacheTells(cache, overtaken, keys, acked)
        BY <2>3, <2>4 DEF CacheTells
  <2>6. DialogInv
        BY <2>1, <2>2 DEF DialogInv, Shapes, DialogKept
  <2>7. ListsInv
        BY <2>1, <2>2, <2>5 DEF ListsInv, CallsDone, AckedDone
  <2> QED BY <2>6, <2>7
<1>2. ListsInv => AcknowledgedIsShown
  <2> SUFFICES ASSUME ListsInv, NEW q \in Queries, cache[q].at = "fresh", q \notin overtaken
               PROVE  LET data == cache[q].data
                      IN  IF q = "projects"
                          THEN TotalApiKeys <= Cardinality(UNION {Made(p) \ Gone(p) : p \in DOMAIN data})
                          ELSE \A k \in Keys :
                                  /\ <<"deleteKey", k>> \in acked => k \notin DOMAIN data
                                  /\ <<"revokeKey", k>> \in acked /\ k \in DOMAIN data => data[k] = "revoked"
                                  /\ <<"createKey", k>> \in acked /\ OwnerOf[k] = q =>
                                        k \in DOMAIN data \/ keys[k] = "deleted"
      BY DEF AcknowledgedIsShown
  <2> DEFINE data == cache[q].data
  <2>1. Tells(q, data, keys, acked)
    <3>1. EntryTells(q, cache[q], overtaken, keys, acked)
          BY DEF ListsInv, CacheTells
    <3> QED BY <3>1 DEF EntryTells
  <2>2. CASE q # "projects"
        BY <2>1, <2>2 DEF Tells
  <2>3. CASE q = "projects"
    <3> DEFINE M == [p \in Projects |-> Kept(p, keys, acked)]
    <3>1. data \in [Projects -> Nat] /\ \A p \in Projects : data[p] <= Cardinality(M[p])
          BY <2>1, <2>3 DEF Tells, Answers
    <3>2. TotalApiKeys = Total(data)
          BY <2>3 DEF TotalApiKeys, Total, FoldFunction, FoldFunctionOnSet, MapThenFoldSet
    <3>3. /\ M \in [Projects -> SUBSET Keys]
          /\ \A x, y \in Projects : x # y => M[x] \cap M[y] = {}
          BY DEF Kept
    <3>4. \A p \in Projects : M[p] = Made(p) \ Gone(p)
          BY DEF Kept, Made, Gone
    <3>5. DOMAIN data = Projects
          BY <3>1
    <3> HIDE DEF data, M
    <3>6. Total(data) <= Cardinality(UNION {M[p] : p \in Projects})
          BY <3>1, <3>3, DashboardAssumption, TotalWithinUnion
    <3>7. {M[p] : p \in Projects} = {Made(p) \ Gone(p) : p \in Projects}
          BY <3>4
    <3> QED BY <2>3, <3>2, <3>5, <3>6, <3>7 DEF data
  <2> QED BY <2>2, <2>3
<1>3. DialogInv => Shapes
      BY DEF DialogInv
<1>4. (DialogInv /\ ListsInv) /\ [DashNext]_dashVars => (DialogInv /\ ListsInv)'
      BY <1>3, DialogInvKept, ListsInvKept
<1> QED BY <1>1, <1>2, <1>4, PTL DEF DashSpec

=============================================================================
