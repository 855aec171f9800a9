--------------------------- MODULE LogIngestProofs ---------------------------
(***************************************************************************)
(* Theorems about ApiKeys and LogIngest, for every set of users, projects, *)
(* keys, dashboard requests and log requests.                              *)
(***************************************************************************)
EXTENDS LogIngest, FiniteSetTheorems, TLAPS

-----------------------------------------------------------------------------
(* Types.                                                                  *)

\* A goroutine's request replaced by a well-typed one.
LEMMA RequestMoves ==
    ASSUME KeysTypeOK, NEW r \in Requests, NEW R \in RequestState,
           R.at \in {"revoke", "delete"} => R.key \in Keys,
           R.at \in {"insert", "commit"} => /\ R.user \in Users
                                            /\ R.project \in Projects
                                            /\ R.name \in Names,
           req' = [req EXCEPT ![r] = R],
           UNCHANGED <<users, projects>>,
           keys' \in [Keys -> KeyRow \cup {NoKey("unused"), NoKey("deleted")}],
           finished' \in SUBSET Keys
    PROVE  KeysTypeOK'
<1>1. req' \in [Requests -> RequestState]
      BY DEF KeysTypeOK
<1>2. \A x \in Requests : req'[x] = IF x = r THEN R ELSE req[x]
      BY DEF KeysTypeOK
<1> QED BY <1>1, <1>2 DEF KeysTypeOK

\* An answered request is well typed.
LEMMA NoRequestTyped == NoRequest \in RequestState /\ NoRequest.at = "idle"
BY DEF NoRequest, RequestState

\* Every step of a dashboard request leaves the key tables well typed.
LEMMA RequestTyped ==
    ASSUME KeysTypeOK, NEW r \in Requests, RequestStep(r)  PROVE  KeysTypeOK'
<1> DEFINE Table == [Keys -> KeyRow \cup {NoKey("unused"), NoKey("deleted")}]
<1>a. req[r] \in RequestState /\ keys \in Table /\ finished \in SUBSET Keys
      BY DEF KeysTypeOK
<1>b. ASSUME Answer(r), UNCHANGED <<users, projects>>, keys' \in Table,
             finished' \in SUBSET Keys
      PROVE  KeysTypeOK'
      BY <1>b, NoRequestTyped, RequestMoves DEF Answer
<1>1. CASE CheckProject(r)
  <2> PICK u \in users, p \in projects, n \in Names :
           req' = [req EXCEPT ![r] = [NoRequest EXCEPT !.at = "insert", !.user = u,
                                                       !.project = p, !.name = n]]
      BY <1>1 DEF CheckProject
  <2> DEFINE R == [NoRequest EXCEPT !.at = "insert", !.user = u, !.project = p, !.name = n]
  <2>1. u \in Users /\ p \in Projects
        BY DEF KeysTypeOK
  <2>2. R \in RequestState /\ R.at = "insert" /\ R.user = u /\ R.project = p /\ R.name = n
        BY <2>1 DEF NoRequest, RequestState
  <2>3. keys' \in Table /\ finished' \in SUBSET Keys /\ UNCHANGED <<users, projects>>
        BY <1>a, <1>1 DEF CheckProject
  <2> HIDE DEF R
  <2> QED BY <2>1, <2>2, <2>3, RequestMoves DEF R
<1>2. CASE BeginInsert(r)
  <2> DEFINE R == [req[r] EXCEPT !.at = "commit",
                                 !.seen = RowsOf(req[r].user, req[r].project)]
  <2>1. RowsOf(req[r].user, req[r].project) \in SUBSET Keys
        BY DEF RowsOf, Rows
  <2>2. /\ R \in RequestState /\ R.at = "commit"
        /\ R.user = req[r].user /\ R.project = req[r].project /\ R.name = req[r].name
        BY <1>a, <2>1 DEF RequestState
  <2>3. req' = [req EXCEPT ![r] = R]
        BY <1>a, <1>2 DEF BeginInsert, KeysTypeOK, RequestState
  <2>4. keys' \in Table /\ finished' \in SUBSET Keys /\ UNCHANGED <<users, projects>>
        BY <1>a, <1>2 DEF BeginInsert
  <2>5. R.user \in Users /\ R.project \in Projects /\ R.name \in Names
        BY <1>2, <2>2 DEF KeysTypeOK, BeginInsert
  <2> HIDE DEF R
  <2> QED BY <2>2, <2>3, <2>4, <2>5, RequestMoves
<1>3. CASE CommitInsert(r)
  <2>1. ASSUME NEW k \in Keys, keys' = Inserted(r, k)  PROVE keys' \in Table
    <3>1. /\ req[r].user \in Users /\ req[r].project \in Projects /\ req[r].name \in Names
          BY <1>3 DEF CommitInsert, KeysTypeOK
    <3>2. [at |-> "active", user |-> req[r].user, project |-> req[r].project,
           name |-> req[r].name, maker |-> r] \in KeyRow
          BY <3>1 DEF KeyRow
    <3>3. ASSUME NEW x \in Rows  PROVE [keys[x] EXCEPT !.at = "revoked"] \in KeyRow
          BY <1>a, <3>3 DEF Rows, KeyRow, NoKey
    <3> QED BY <1>a, <2>1, <3>2, <3>3 DEF Inserted
  <2>2. keys' \in Table
        BY <1>a, <1>3, <2>1 DEF CommitInsert
  <2> QED BY <1>3, <1>a, <1>b, <2>2 DEF CommitInsert
<1>4. ASSUME NEW k \in Rows, NEW at \in {"revoke", "delete"},
             req' = [req EXCEPT ![r] = [NoRequest EXCEPT !.at = at, !.key = k]],
             UNCHANGED <<users, projects, keys, finished>>
      PROVE  KeysTypeOK'
  <2> DEFINE R == [NoRequest EXCEPT !.at = at, !.key = k]
  <2>1. R \in RequestState /\ R.at = at /\ R.key = k /\ k \in Keys
        BY DEF NoRequest, RequestState, Rows
  <2> HIDE DEF R
  <2> QED BY <1>a, <1>4, <2>1, RequestMoves DEF R
<1>5. CASE FindToRevoke(r)  BY <1>4, <1>5 DEF FindToRevoke
<1>6. CASE FindToDelete(r)  BY <1>4, <1>6 DEF FindToDelete
<1>7. CASE Revoke(r)
  <2>1. req[r].key \in Keys
        BY <1>7 DEF Revoke, KeysTypeOK
  <2>2. keys' \in Table
        BY <1>a, <1>7, <2>1 DEF Revoke, KeyRow, NoKey
  <2> QED BY <1>a, <1>b, <1>7, <2>1, <2>2 DEF Revoke
<1>8. CASE Delete(r)
  <2>1. req[r].key \in Keys
        BY <1>8 DEF Delete, KeysTypeOK
  <2> QED BY <1>a, <1>b, <1>8, <2>1 DEF Delete
<1>9. CASE StatementFails(r)
      BY <1>a, <1>b, <1>9 DEF StatementFails
<1> QED BY <1>1, <1>2, <1>3, <1>5, <1>6, <1>7, <1>8, <1>9 DEF RequestStep

\* So does every step of the dashboard.
LEMMA KeysTyped ==
    ASSUME KeysTypeOK, KeysNext  PROVE  KeysTypeOK'
<1>1. ASSUME NEW u \in Users, DeleteUser(u)  PROVE KeysTypeOK'
      BY <1>1 DEF DeleteUser, KeysTypeOK, KeyRow, NoKey, Rows
<1> QED BY <1>1, RequestTyped DEF KeysNext

\* A log request that moves on to state s and learns the project p.
LEMMA IngestMoves ==
    ASSUME ingest \in [Ingests -> IngestState], NEW i \in Ingests,
           NEW s \in {"identified", "failed"} \cup Resolved,
           NEW p \in Projects \cup {NoRow},
           ingest' = [ingest EXCEPT ![i].at = s, ![i].project = p]
    PROVE  /\ ingest' \in [Ingests -> IngestState]
           /\ \A x \in Ingests \ {i} : ingest'[x] = ingest[x]
           /\ ingest'[i].at = s /\ ingest'[i].project = p
           /\ ingest'[i].key = ingest[i].key
           /\ ingest'[i].wasActive = ingest[i].wasActive
<1> DEFINE R == [ingest[i] EXCEPT !.at = s, !.project = p]
<1>1. ingest[i] \in IngestState
      OBVIOUS
<1>2. /\ R \in IngestState /\ R.at = s /\ R.project = p
      /\ R.key = ingest[i].key /\ R.wasActive = ingest[i].wasActive
      BY <1>1 DEF IngestState
<1>3. ingest' = [ingest EXCEPT ![i] = R]
      BY <1>1 DEF IngestState
<1> HIDE DEF R
<1> QED BY <1>2, <1>3

\* What a step of a log request may do to it: the state it is in, the state
\* it moves to, and the project it learns on the way.
Moves(i, from, to) ==
    /\ ingest[i].at = from
    /\ ingest'[i].at = to
    /\ ingest'[i].project = ingest[i].project

\* A log request keeps its key, and moves along the statements of CreateLog.
LEMMA IngestSteps ==
    ASSUME TypeOK, NEW i \in Ingests, IngestStep(i), ~Post(i)
    PROVE  /\ ingest' \in [Ingests -> IngestState]
           /\ \A x \in Ingests \ {i} : ingest'[x] = ingest[x]
           /\ ingest'[i].key = ingest[i].key
           /\ ingest'[i].wasActive = ingest[i].wasActive
           /\ UNCHANGED keyVars
           /\ \/ /\ ingest'[i].at = "failed"
                 /\ ingest[i].at \notin {"absent", "created"}
                 /\ UNCHANGED <<logs, broadcasts>>
              \/ /\ Moves(i, "posted", "identified") /\ Active(KeyOf(i))
                 /\ UNCHANGED <<logs, broadcasts>>
              \/ /\ ingest[i].at = "identified" /\ ingest'[i].at = "resolved"
                 /\ Active(KeyOf(i)) /\ ingest'[i].project = keys[KeyOf(i)].project
                 /\ UNCHANGED <<logs, broadcasts>>
              \/ Moves(i, "resolved", "located") /\ UNCHANGED <<logs, broadcasts>>
              \/ /\ Moves(i, "located", "broadcast")
                 /\ broadcasts' = Append(broadcasts, i) /\ UNCHANGED logs
              \/ /\ Moves(i, "broadcast", "created") /\ KeyOf(i) \in Rows
                 /\ logs' = logs \cup {i} /\ UNCHANGED broadcasts
<1> USE DEF Moves
<1>a. ingest \in [Ingests -> IngestState] /\ ingest[i] \in IngestState
      BY DEF TypeOK
<1>b. ingest[i].project \in Projects \cup {NoRow}
      BY <1>a DEF IngestState
<1>c. ASSUME NEW s \in {"identified", "failed"} \cup Resolved,
             ingest' = [ingest EXCEPT ![i].at = s]
      PROVE  /\ ingest' \in [Ingests -> IngestState]
             /\ \A x \in Ingests \ {i} : ingest'[x] = ingest[x]
             /\ ingest'[i].at = s /\ ingest'[i].project = ingest[i].project
             /\ ingest'[i].key = ingest[i].key
             /\ ingest'[i].wasActive = ingest[i].wasActive
  <2>1. ingest' = [ingest EXCEPT ![i].at = s, ![i].project = ingest[i].project]
        BY <1>a, <1>c DEF IngestState
  <2> QED BY <1>a, <1>b, <2>1, IngestMoves
<1>d. {"identified", "failed"} \cup Resolved
        = {"identified", "failed", "resolved", "located", "broadcast", "created"}
      BY DEF Resolved
<1>1. CASE FindIdByKey(i)
  <2>1. CASE Active(KeyOf(i))
        BY <1>1, <1>c, <1>d, <2>1 DEF FindIdByKey
  <2>2. CASE ~Active(KeyOf(i))
        BY <1>1, <1>c, <1>d, <2>2 DEF FindIdByKey, Refuse
  <2> QED BY <2>1, <2>2
<1>2. CASE FindProjectIdByKey(i)
  <2>1. CASE Active(KeyOf(i))
    <3>1. keys[KeyOf(i)].project \in Projects \cup {NoRow}
          BY <1>2, <2>1 DEF FindProjectIdByKey, Active, TypeOK, KeysTypeOK, KeyRow, NoKey, KeyOf
    <3> QED BY <1>2, <1>a, <1>d, <2>1, <3>1, IngestMoves DEF FindProjectIdByKey
  <2>2. CASE ~Active(KeyOf(i))
        BY <1>2, <1>c, <1>d, <2>2 DEF FindProjectIdByKey, Refuse
  <2> QED BY <2>1, <2>2
<1>3. CASE Locate(i)
  <2>1. CASE Refuse(i)
        BY <1>3, <1>c, <1>d, <2>1 DEF Locate, Refuse
  <2>2. CASE ~Refuse(i)
        BY <1>3, <1>c, <1>d, <2>2 DEF Locate
  <2> QED BY <2>1, <2>2
<1>4. CASE Broadcast(i)
      BY <1>4, <1>c, <1>d DEF Broadcast
<1>5. CASE Save(i)
  <2>1. CASE Refuse(i) /\ UNCHANGED logs
        BY <1>5, <1>c, <1>d, <2>1 DEF Save, Refuse
  <2>2. CASE ~(Refuse(i) /\ UNCHANGED logs)
        BY <1>5, <1>c, <1>d, <2>2 DEF Save
  <2> QED BY <2>1, <2>2
<1> QED BY <1>1, <1>2, <1>3, <1>4, <1>5 DEF IngestStep

\* A request that was just posted.
LEMMA PostStep ==
    ASSUME TypeOK, NEW i \in Ingests, Post(i)
    PROVE  /\ ingest' \in [Ingests -> IngestState]
           /\ \A x \in Ingests \ {i} : ingest'[x] = ingest[x]
           /\ ingest'[i].at = "posted"
           /\ KeyOf(i)' \in Keys /\ keys[KeyOf(i)'].at # "unused"
           /\ ingest'[i].wasActive = Active(KeyOf(i)')
           /\ UNCHANGED <<keyVars, logs, broadcasts>>
<1>1. PICK k \in Keys :
          /\ keys[k].at # "unused"
          /\ ingest' = [ingest EXCEPT ![i] = [@ EXCEPT !.at = "posted", !.key = k,
                                                       !.wasActive = Active(k)]]
      BY DEF Post
<1> DEFINE R == [ingest[i] EXCEPT !.at = "posted", !.key = k, !.wasActive = Active(k)]
<1>2. ingest[i] \in IngestState /\ ingest \in [Ingests -> IngestState]
      BY DEF TypeOK
<1>3. Active(k) \in BOOLEAN
      BY DEF Active
<1>4. /\ R \in IngestState /\ R.at = "posted" /\ R.key = k /\ R.wasActive = Active(k)
      BY <1>2, <1>3 DEF IngestState
<1>5. ingest' = [ingest EXCEPT ![i] = R]
      BY <1>1
<1> HIDE DEF R
<1>6. ingest' \in [Ingests -> IngestState] /\ ingest'[i] = R
      BY <1>2, <1>4, <1>5
<1> QED BY <1>1, <1>2, <1>4, <1>5, <1>6 DEF Post, KeyOf

\* Types of all variables (log_service.go:35-101 and the key tables).
THEOREM TypeCorrect == Spec => []TypeOK
<1>1. Init => TypeOK
      BY DEF Init, KeysInit, IngestInit, TypeOK, KeysTypeOK, RequestState, KeyRow,
             NoKey, NoRequest, IngestState
<1>2. TypeOK /\ [Next]_vars => TypeOK'
  <2> SUFFICES ASSUME TypeOK, [Next]_vars  PROVE TypeOK'
      OBVIOUS
  <2>1. CASE UNCHANGED vars
        BY <2>1 DEF vars, keyVars, logVars, TypeOK, KeysTypeOK, RequestState, KeyRow
  <2>2. CASE KeyStep
        BY <2>2, KeysTyped DEF KeyStep, Cascade, TypeOK, IngestState
  <2>3. ASSUME NEW i \in Ingests, IngestStep(i)  PROVE TypeOK'
    <3>1. UNCHANGED keyVars
          BY <2>3, IngestSteps, PostStep
    <3>2. KeysTypeOK'
          BY <3>1 DEF keyVars, TypeOK, KeysTypeOK
    <3>3. Append(broadcasts, i) \in Seq(Ingests)
          BY DEF TypeOK
    <3>4. CASE Post(i)
          BY <3>2, <3>4, PostStep DEF TypeOK, KeyOf
    <3>5. CASE ~Post(i)
      <4>1. ingest[i].at # "absent"
            BY <2>3, <3>5, IngestSteps DEF Moves
      <4> QED BY <2>3, <3>2, <3>3, <3>5, <4>1, IngestSteps DEF TypeOK
    <3> QED BY <3>4, <3>5
  <2> QED BY <2>1, <2>2, <2>3 DEF Next
<1> QED BY <1>1, <1>2, PTL DEF Spec

-----------------------------------------------------------------------------
(* The key table.                                                          *)

\* The four things that may happen to the row of a key in a step.
Created(r, k) ==
    /\ CommitInsert(r) /\ Insertable(r)
    /\ keys[k].at = "unused" /\ keys' = Inserted(r, k)

Changed(k) ==
    \/ keys'[k] = keys[k]
    \/ keys[k].at \in {"active", "revoked"} /\ keys'[k] = [keys[k] EXCEPT !.at = "revoked"]
    \/ keys[k].at # "unused" /\ keys'[k] = NoKey("deleted")
    \/ \E r \in Requests : Created(r, k)

LEMMA KeyChanges ==
    ASSUME KeysTypeOK, FinishedInv, KeysNext, NEW k \in Keys
    PROVE  Changed(k)
<1> USE DEF Changed
<1>a. keys \in [Keys -> KeyRow \cup {NoKey("unused"), NoKey("deleted")}]
      BY DEF KeysTypeOK
<1>b. keys[k].at \in {"active", "revoked"} => keys[k] \in KeyRow
      BY <1>a DEF KeyRow, NoKey
<1>1. ASSUME NEW u \in Users, DeleteUser(u)  PROVE Changed(k)
      BY <1>1, <1>a DEF DeleteUser, Rows
<1>2. ASSUME NEW r \in Requests, RequestStep(r), ~CommitInsert(r), ~Revoke(r), ~Delete(r)
      PROVE  Changed(k)
      BY <1>2 DEF RequestStep, CheckProject, BeginInsert, FindToRevoke, FindToDelete,
                  StatementFails
<1>3. ASSUME NEW r \in Requests, CommitInsert(r)  PROVE Changed(k)
  <2>1. CASE UNCHANGED keys
        BY <2>1
  <2>2. ASSUME NEW l \in Keys, Insertable(r), keys[l].at = "unused", keys' = Inserted(r, l)
        PROVE  Changed(k)
    <3>1. CASE k = l
          BY <1>3, <2>2, <3>1 DEF Created
    <3>2. CASE k # l
          BY <2>2, <3>2 DEF Inserted, Rows
    <3> QED BY <3>1, <3>2
  <2> QED BY <1>3, <2>1, <2>2 DEF CommitInsert
<1>4. ASSUME NEW r \in Requests, Revoke(r)  PROVE Changed(k)
  <2>1. keys' = [keys EXCEPT ![req[r].key].at = IF @ = "active" THEN "revoked" ELSE @]
        BY <1>4 DEF Revoke
  <2>2. CASE k = req[r].key /\ keys[k].at = "active"
        BY <1>a, <2>1, <2>2
  <2>3. CASE k = req[r].key /\ keys[k].at # "active"
    <3>1. keys'[k] = [keys[k] EXCEPT !.at = keys[k].at]
          BY <1>a, <2>1, <2>3
    <3>2. [keys[k] EXCEPT !.at = keys[k].at] = keys[k]
          BY <1>a DEF KeyRow, NoKey
    <3> QED BY <3>1, <3>2
  <2>4. CASE k # req[r].key
        BY <1>a, <2>1, <2>4
  <2> QED BY <2>2, <2>3, <2>4
<1>5. ASSUME NEW r \in Requests, Delete(r)  PROVE Changed(k)
  <2>1. keys' = [keys EXCEPT ![req[r].key] = NoKey("deleted")]
        BY <1>5 DEF Delete
  <2>2. k = req[r].key => keys[k].at # "unused"
        BY <1>5 DEF Delete, FinishedInv
  <2> QED BY <1>a, <2>1, <2>2
<1> QED BY <1>1, <1>2, <1>3, <1>4, <1>5 DEF KeysNext

\* A key that was made never becomes unused or active again, and its row
\* keeps its user, project and maker.
LEMMA KeyHistory ==
    ASSUME KeysTypeOK, FinishedInv, KeysNext, NEW k \in Keys, keys[k].at # "unused"
    PROVE  /\ keys'[k].at # "unused"
           /\ keys'[k].at = "active" => keys[k].at = "active"
           /\ keys'[k].at \in {"active", "revoked"} =>
                 /\ keys[k].at \in {"active", "revoked"}
                 /\ keys'[k].user = keys[k].user /\ keys'[k].project = keys[k].project
                 /\ keys'[k].maker = keys[k].maker
<1>1. keys[k] \in KeyRow \cup {NoKey("unused"), NoKey("deleted")}
      BY DEF KeysTypeOK
<1>2. NoKey("deleted").at = "deleted"
      BY DEF NoKey
<1>3. keys[k].at \in {"active", "revoked"} => keys[k] \in KeyRow
      BY <1>1 DEF KeyRow, NoKey
<1>4. CASE keys'[k] = keys[k]
      BY <1>4
<1>5. CASE keys[k].at \in {"active", "revoked"} /\ keys'[k] = [keys[k] EXCEPT !.at = "revoked"]
      BY <1>3, <1>5 DEF KeyRow
<1>6. CASE keys'[k] = NoKey("deleted")
      BY <1>2, <1>6
<1> QED BY <1>4, <1>5, <1>6, KeyChanges DEF Changed, Created

\* The four things that may happen to the request of a goroutine in a step.
LEMMA RequestChanges ==
    ASSUME KeysTypeOK, KeysNext, NEW r \in Requests
    PROVE  \/ req'[r] = req[r]
           \/ req'[r].at \in {"idle", "insert"}
           \/ /\ req'[r].at = "commit"
              /\ req'[r].user = req[r].user /\ req'[r].project = req[r].project
              /\ req'[r].seen = RowsOf(req[r].user, req[r].project)
              /\ UNCHANGED keys
           \/ /\ req'[r].at \in {"revoke", "delete"} /\ req'[r].key \in Rows
              /\ UNCHANGED keys
<1>a. req \in [Requests -> RequestState]
      BY DEF KeysTypeOK
<1>1. ASSUME NEW u \in Users, DeleteUser(u)  PROVE req'[r] = req[r]
      BY <1>1 DEF DeleteUser
<1>2. ASSUME NEW x \in Requests, RequestStep(x), x # r  PROVE req'[r] = req[r]
      BY <1>a, <1>2 DEF RequestStep, CheckProject, BeginInsert, CommitInsert, FindToRevoke,
                  Revoke, FindToDelete, Delete, StatementFails, Answer
<1>3. ASSUME Answer(r)  PROVE req'[r].at = "idle"
      BY <1>a, <1>3 DEF Answer, NoRequest
<1>4. CASE CommitInsert(r) \/ Revoke(r) \/ Delete(r) \/ StatementFails(r)
      BY <1>3, <1>4 DEF CommitInsert, Revoke, Delete, StatementFails
<1>5. CASE CheckProject(r)
      BY <1>a, <1>5 DEF CheckProject, NoRequest
<1>6. CASE BeginInsert(r)
      BY <1>a, <1>6 DEF BeginInsert, RequestState
<1>7. CASE FindToRevoke(r)
      BY <1>a, <1>7 DEF FindToRevoke, NoRequest
<1>8. CASE FindToDelete(r)
      BY <1>a, <1>8 DEF FindToDelete, NoRequest
<1>9. CASE RequestStep(r)
      BY <1>4, <1>5, <1>6, <1>7, <1>8, <1>9 DEF RequestStep
<1> QED BY <1>1, <1>2, <1>9 DEF KeysNext

\* What is acknowledged as finished has left the active state.
LEMMA FinishedKept ==
    ASSUME KeysTypeOK, FinishedInv, KeysNext
    PROVE  FinishedInv'
<1>a. keys \in [Keys -> KeyRow \cup {NoKey("unused"), NoKey("deleted")}]
      BY DEF KeysTypeOK
<1>b. KeysTypeOK'
      BY KeysTyped
<1>1. ASSUME NEW k \in finished  PROVE keys'[k].at \in {"revoked", "deleted"}
  <2>1. k \in Keys /\ keys[k].at \in {"revoked", "deleted"}
        BY <1>1 DEF KeysTypeOK, FinishedInv
  <2>2. keys'[k].at \in {"active", "revoked", "unused", "deleted"}
        BY <1>b, <2>1 DEF KeysTypeOK, KeyRow, NoKey
  <2> QED BY <2>1, <2>2, KeyHistory
<1>2. ASSUME NEW k \in finished', k \notin finished  PROVE keys'[k].at \in {"revoked", "deleted"}
  <2>1. PICK r \in Requests : (Revoke(r) \/ Delete(r)) /\ k = req[r].key
        BY <1>2 DEF KeysNext, DeleteUser, RequestStep, CheckProject, BeginInsert, CommitInsert,
                    FindToRevoke, Revoke, FindToDelete, Delete, StatementFails
  <2>2. k \in Keys /\ keys[k].at # "unused"
        BY <2>1 DEF Revoke, Delete, KeysTypeOK, FinishedInv
  <2>3. keys[k].at \in {"active", "revoked", "deleted"}
        BY <1>a, <2>2 DEF KeyRow, NoKey
  <2>4. CASE Revoke(r)
        BY <1>a, <2>1, <2>2, <2>3, <2>4 DEF Revoke
  <2>5. CASE Delete(r)
        BY <1>a, <2>1, <2>2, <2>5 DEF Delete, NoKey
  <2> QED BY <2>1, <2>4, <2>5
<1>3. ASSUME NEW r \in Requests, req'[r].at \in {"revoke", "delete"}
      PROVE  keys'[req'[r].key].at # "unused"
  <2>1. CASE req'[r] = req[r]
    <3>1. req[r].key \in Keys /\ keys[req[r].key].at # "unused"
          BY <1>3, <2>1 DEF KeysTypeOK, FinishedInv
    <3> QED BY <2>1, <3>1, KeyHistory
  <2>2. CASE req'[r].key \in Rows /\ UNCHANGED keys
        BY <2>2 DEF Rows
  <2> QED BY <1>3, <2>1, <2>2, RequestChanges
<1> QED BY <1>1, <1>2, <1>3 DEF FinishedInv

\* Made keys of one goroutine are seen by its next creation.
LEMMA SeenKept ==
    ASSUME KeysTypeOK, FinishedInv, SeenInv, KeysNext
    PROVE  SeenInv'
<1> SUFFICES ASSUME NEW r \in Requests, NEW k \in Keys,
                    req'[r].at = "commit", Active(k)', keys'[k].maker = r,
                    keys'[k].user = req'[r].user, keys'[k].project = req'[r].project
             PROVE  k \in req'[r].seen
    BY DEF SeenInv
<1>1. CASE req'[r] = req[r]
  <2>1. CASE keys[k].at # "unused"
    <3>1. /\ Active(k) /\ keys[k].maker = r
          /\ keys[k].user = req[r].user /\ keys[k].project = req[r].project
          BY <1>1, <2>1, KeyHistory DEF Active
    <3> QED BY <1>1, <3>1 DEF SeenInv
  <2>2. CASE keys[k].at = "unused"
    <3>1. keys'[k].at = "active" /\ keys[k].at = "unused"
          BY <2>2 DEF Active
    <3>2. keys'[k] # keys[k]
          BY <3>1
    <3>3. PICK x \in Requests : Created(x, k)
          BY <2>2, <3>2, KeyChanges DEF Changed
    <3>4. keys'[k].maker = x
          BY <3>3 DEF Created, Inserted
    <3>5. req'[r].at = "idle"
          BY <3>3, <3>4 DEF Created, CommitInsert, Answer, NoRequest, KeysTypeOK
    <3> QED BY <3>5
  <2> QED BY <2>1, <2>2
<1>2. CASE /\ req'[r].user = req[r].user /\ req'[r].project = req[r].project
           /\ req'[r].seen = RowsOf(req[r].user, req[r].project)
           /\ UNCHANGED keys
      BY <1>2 DEF RowsOf, Rows, Active
<1> QED BY <1>1, <1>2, RequestChanges

\* A new key is alone among the active keys of its user, project and maker.
LEMMA OnePerMakerKept ==
    ASSUME KeysTypeOK, FinishedInv, SeenInv, OneActivePerMaker, KeysNext
    PROVE  OneActivePerMaker'
<1> DEFINE Same(k, l) == /\ keys'[k].user = keys'[l].user
                         /\ keys'[k].project = keys'[l].project
                         /\ keys'[k].maker = keys'[l].maker
<1>1. ASSUME NEW k \in Keys, NEW l \in Keys, NEW r \in Requests,
             Active(k)', Active(l)', Same(k, l), k # l, Created(r, k)
      PROVE  FALSE
  <2>1. /\ keys'[k].user = req[r].user /\ keys'[k].project = req[r].project
        /\ keys'[k].maker = r /\ req[r].at = "commit"
        BY <1>1 DEF Created, Inserted, CommitInsert
  <2>2. keys'[l] = IF l \in req[r].seen \cap Rows THEN [keys[l] EXCEPT !.at = "revoked"]
                   ELSE keys[l]
        BY <1>1 DEF Created, Inserted
  <2>3. l \in req[r].seen \cap Rows => keys'[l].at = "revoked"
    <3>1. l \in Rows => keys[l] \in KeyRow
          BY DEF Rows, KeysTypeOK, KeyRow, NoKey
    <3> QED BY <2>2, <3>1 DEF KeyRow
  <2>4. l \notin req[r].seen \cap Rows
        BY <1>1, <2>3 DEF Active
  <2>5. Active(l) /\ keys[l] = keys'[l]
        BY <1>1, <2>2, <2>4 DEF Active
  <2>6. l \in req[r].seen
        BY <1>1, <2>1, <2>5 DEF SeenInv
  <2> QED BY <2>4, <2>5, <2>6 DEF Rows, Active
<1>2. ASSUME NEW k \in Keys, Active(k)'
      PROVE  \/ \E r \in Requests : Created(r, k)
             \/ /\ Active(k)
                /\ keys'[k].user = keys[k].user /\ keys'[k].project = keys[k].project
                /\ keys'[k].maker = keys[k].maker
  <2>1. CASE keys[k].at # "unused"
        BY <1>2, <2>1, KeyHistory DEF Active
  <2>2. CASE keys[k].at = "unused"
    <3>1. keys'[k] # keys[k]
          BY <1>2, <2>2 DEF Active
    <3> QED BY <2>2, <3>1, KeyChanges DEF Changed
  <2> QED BY <2>1, <2>2
<1>3. ASSUME NEW k \in Keys, NEW l \in Keys, Active(k)', Active(l)', Same(k, l)
      PROVE  k = l
  <2>1. CASE \E r \in Requests : Created(r, k)
        BY <1>1, <1>3, <2>1
  <2>2. CASE \E r \in Requests : Created(r, l)
        BY <1>1, <1>3, <2>2
  <2>3. CASE ~(\E r \in Requests : Created(r, k)) /\ ~(\E r \in Requests : Created(r, l))
        BY <1>2, <1>3, <2>3 DEF OneActivePerMaker
  <2> QED BY <2>1, <2>2, <2>3
<1> QED BY <1>3 DEF OneActivePerMaker

\* No row outlives its user or its project.
LEMMA ParentsKept ==
    ASSUME KeysTypeOK, FinishedInv, RowsHaveParents, KeysNext
    PROVE  RowsHaveParents'
<1> SUFFICES ASSUME NEW k \in Keys, keys'[k].at \in {"active", "revoked"}
             PROVE  keys'[k].user \in users' /\ keys'[k].project \in projects'
    BY DEF RowsHaveParents, Rows
<1>a. keys[k].at # "unused" =>
        /\ k \in Rows
        /\ keys'[k].user = keys[k].user /\ keys'[k].project = keys[k].project
      BY KeyHistory DEF Rows
<1>1. ASSUME NEW u \in Users, DeleteUser(u)
      PROVE  keys'[k].user \in users' /\ keys'[k].project \in projects'
  <2>1. keys[k].at # "unused"
        BY <1>1 DEF DeleteUser, Rows, NoKey
  <2>2. k \in Rows /\ keys[k].user # u /\ OwnerOf[keys[k].project] # u
        BY <1>1, <1>a, <2>1 DEF DeleteUser, NoKey
  <2> QED BY <1>1, <1>a, <2>1, <2>2 DEF DeleteUser, RowsHaveParents
<1>2. ASSUME NEW r \in Requests, RequestStep(r)
      PROVE  keys'[k].user \in users' /\ keys'[k].project \in projects'
  <2>1. UNCHANGED <<users, projects>>
        BY <1>2 DEF RequestStep, CheckProject, BeginInsert, CommitInsert, FindToRevoke,
                    Revoke, FindToDelete, Delete, StatementFails
  <2>2. CASE keys[k].at # "unused"
        BY <1>a, <2>1, <2>2 DEF RowsHaveParents
  <2>3. CASE keys[k].at = "unused"
    <3>1. PICK x \in Requests : Created(x, k)
      <4>1. keys'[k] # keys[k]
            BY <2>3
      <4> QED BY <2>3, <4>1, KeyChanges DEF Changed
    <3>2. keys'[k].user = req[x].user /\ keys'[k].project = req[x].project
          BY <3>1 DEF Created, Inserted
    <3> QED BY <2>1, <3>1, <3>2 DEF Created, Insertable
  <2> QED BY <2>2, <2>3
<1> QED BY <1>1, <1>2 DEF KeysNext

-----------------------------------------------------------------------------
\* The invariant of the key table holds on its own, and under ingestion.
LEMMA KeysInvariant == Spec => []KeysInv
<1>1. Init => KeysInv
  <2>1. Init => KeysTypeOK
        BY DEF Init, KeysInit, KeysTypeOK, RequestState, KeyRow, NoKey, NoRequest
  <2>2. Init => FinishedInv /\ SeenInv /\ RowsHaveParents /\ OneActivePerMaker
        BY DEF Init, KeysInit, FinishedInv, SeenInv, RowsHaveParents, OneActivePerMaker,
               Rows, Active, NoKey, NoRequest
  <2> QED BY <2>1, <2>2 DEF KeysInv
<1>2. TypeOK /\ KeysInv /\ [Next]_vars => KeysInv'
  <2> SUFFICES ASSUME TypeOK, KeysInv, [Next]_vars  PROVE KeysInv'
      OBVIOUS
  <2>1. CASE KeysNext
        BY <2>1, KeysTyped, FinishedKept, SeenKept, OnePerMakerKept, ParentsKept DEF KeysInv
  <2>2. CASE UNCHANGED keyVars
        BY <2>2 DEF keyVars, KeysInv, KeysTypeOK, FinishedInv, SeenInv, RowsHaveParents,
                    OneActivePerMaker, Rows, Active
  <2>3. ASSUME NEW i \in Ingests, IngestStep(i)  PROVE UNCHANGED keyVars
        BY <2>3, IngestSteps, PostStep
  <2> QED BY <2>1, <2>2, <2>3 DEF Next, KeyStep, vars
<1> QED BY <1>1, <1>2, TypeCorrect, PTL DEF Spec

\* A key whose revocation or deletion was acknowledged is never active again,
\* whatever other requests do (api_key_service.go:77-111).
THEOREM FinishedForGood == Spec => []FinishedStaysFinished
<1>1. KeysInv => FinishedStaysFinished
      BY DEF KeysInv, FinishedInv, FinishedStaysFinished, Active
<1> QED BY <1>1, KeysInvariant, PTL

\* The trigger leaves one active key per user, project and creating goroutine
\* (migration 000006).
THEOREM OneKeyPerMaker == Spec => []OneActivePerMaker
<1>1. KeysInv => OneActivePerMaker
      BY DEF KeysInv
<1> QED BY <1>1, KeysInvariant, PTL

\* No key outlives its user or project (migrations 000004 and 000005).
THEOREM NoOrphans == Spec => []RowsHaveParents
<1>1. KeysInv => RowsHaveParents
      BY DEF KeysInv
<1> QED BY <1>1, KeysInvariant, PTL

-----------------------------------------------------------------------------
(* Ingestion.                                                              *)

\* What a key step, of any dashboard request, leaves of the log requests.
LEMMA IngestUnderKeys ==
    ASSUME TypeOK, FinishedInv, IngestInv, KeyStep
    PROVE  IngestInv'
<1>1. UNCHANGED ingest
      BY DEF KeyStep
<1>2. ASSUME NEW i \in Ingests, ingest[i].at # "absent"
      PROVE  /\ KeyOf(i) \in Keys /\ keys[KeyOf(i)].at # "unused"
             /\ keys'[KeyOf(i)].at # "unused"
             /\ keys'[KeyOf(i)].at = "active" => keys[KeyOf(i)].at = "active"
             /\ keys'[KeyOf(i)].at \in {"active", "revoked"} =>
                   /\ keys[KeyOf(i)].at \in {"active", "revoked"}
                   /\ keys'[KeyOf(i)].project = keys[KeyOf(i)].project
      BY <1>2, KeyHistory DEF KeyStep, TypeOK, IngestInv, KeyOf
<1>3. \A i \in Ingests :
         ingest'[i].at # "absent" => /\ keys'[KeyOf(i)'].at # "unused"
                                     /\ Active(KeyOf(i))' => ingest'[i].wasActive
      BY <1>1, <1>2 DEF IngestInv, KeyOf, Active
<1>4. DeadKeysAreRefused'
      BY <1>1 DEF IngestInv, DeadKeysAreRefused
<1>5. BroadcastInKeysProject'
  <2> SUFFICES ASSUME NEW i \in Ingests, ingest'[i].at \in Resolved, KeyOf(i)' \in Rows'
               PROVE  ingest'[i].project = keys'[KeyOf(i)'].project
      BY DEF BroadcastInKeysProject
  <2>1. ingest[i].at \in Resolved /\ ingest[i].at # "absent"
        BY <1>1 DEF Resolved
  <2>2. keys'[KeyOf(i)].at \in {"active", "revoked"}
        BY <1>1 DEF KeyOf, Rows
  <2>3. KeyOf(i) \in Rows /\ keys'[KeyOf(i)].project = keys[KeyOf(i)].project
        BY <1>2, <2>1, <2>2 DEF Rows
  <2> QED BY <1>1, <2>1, <2>3 DEF KeyOf, IngestInv, BroadcastInKeysProject
<1>6. AcceptedIsStored'
  <2> SUFFICES ASSUME NEW i \in Ingests
               PROVE  i \in logs' <=> ingest'[i].at = "created" /\ KeyOf(i)' \in Rows'
      BY DEF AcceptedIsStored
  <2>1. KeyOf(i)' = KeyOf(i)
        BY <1>1 DEF KeyOf
  <2>2. i \in logs' <=> i \in logs /\ KeyOf(i) \in Rows'
        BY DEF KeyStep, Cascade
  <2>3. i \in logs <=> ingest[i].at = "created" /\ KeyOf(i) \in Rows
        BY DEF IngestInv, AcceptedIsStored
  <2>4. ingest[i].at = "created" /\ KeyOf(i) \in Rows' => KeyOf(i) \in Rows
        BY <1>2 DEF Rows
  <2> QED BY <1>1, <2>1, <2>2, <2>3, <2>4
<1> QED BY <1>3, <1>4, <1>5, <1>6 DEF IngestInv

\* What a step of a log request leaves of the invariant.
LEMMA IngestKept ==
    ASSUME TypeOK, IngestInv, NEW i \in Ingests, IngestStep(i)
    PROVE  IngestInv'
<1>1. /\ UNCHANGED keyVars
      /\ \A x \in Ingests \ {i} : ingest'[x] = ingest[x]
      /\ \A x \in Ingests \ {i} : x \in logs' <=> x \in logs
      BY IngestSteps, PostStep
<1>2. UNCHANGED <<keys, Rows>>
      BY <1>1 DEF keyVars, Rows
<1>3. CASE Post(i)
  <2>1. ingest[i].at = "absent" /\ ingest'[i].at = "posted" /\ UNCHANGED logs
        BY <1>3, PostStep DEF Post
  <2>2. i \notin logs
        BY <2>1 DEF IngestInv, AcceptedIsStored
  <2>3. /\ keys'[KeyOf(i)'].at # "unused"
        /\ Active(KeyOf(i))' => ingest'[i].wasActive
        BY <1>2, <1>3, PostStep DEF Active
  <2> QED BY <1>1, <1>2, <2>1, <2>2, <2>3
          DEF IngestInv, DeadKeysAreRefused, BroadcastInKeysProject, AcceptedIsStored,
              Resolved, KeyOf, Active
<1>4. CASE ~Post(i)
  <2>1. KeyOf(i)' = KeyOf(i) /\ ingest'[i].wasActive = ingest[i].wasActive
        BY <1>4, IngestSteps DEF KeyOf
  <2>2. ingest[i].at # "absent"
        BY <1>4, IngestSteps DEF Moves
  <2>3. /\ keys'[KeyOf(i)'].at # "unused"
        /\ Active(KeyOf(i))' => ingest'[i].wasActive
        BY <1>2, <2>1, <2>2 DEF IngestInv, Active
  <2>4. ingest'[i].at \in {"identified"} \cup Resolved => ingest'[i].wasActive
        BY <1>4, <2>1, <2>2, IngestSteps
           DEF IngestInv, DeadKeysAreRefused, Resolved, Moves
  <2>5. ingest'[i].at \in Resolved /\ KeyOf(i) \in Rows
          => ingest'[i].project = keys[KeyOf(i)].project
        BY <1>4, IngestSteps DEF IngestInv, BroadcastInKeysProject, Resolved, Moves
  <2>6. i \in logs' <=> ingest'[i].at = "created" /\ KeyOf(i) \in Rows
        BY <1>4, IngestSteps DEF IngestInv, AcceptedIsStored, Moves
  <2> QED BY <1>1, <1>2, <2>1, <2>3, <2>4, <2>5, <2>6
          DEF IngestInv, DeadKeysAreRefused, BroadcastInKeysProject, AcceptedIsStored,
              KeyOf, Active
<1> QED BY <1>3, <1>4

\* The invariant of the log requests, in every behaviour.
LEMMA IngestInvariant == Spec => []IngestInv
<1>1. Init => IngestInv
      BY DEF Init, IngestInit, IngestInv, DeadKeysAreRefused, BroadcastInKeysProject,
             AcceptedIsStored, Resolved
<1>2. TypeOK /\ KeysInv /\ IngestInv /\ [Next]_vars => IngestInv'
  <2>1. ASSUME IngestInv, UNCHANGED vars  PROVE IngestInv'
        BY <2>1 DEF vars, keyVars, logVars, IngestInv, DeadKeysAreRefused,
                    BroadcastInKeysProject, AcceptedIsStored, KeyOf, Active, Rows
  <2> QED BY <2>1, IngestUnderKeys, IngestKept DEF Next, KeysInv
<1> QED BY <1>1, <1>2, TypeCorrect, KeysInvariant, PTL DEF Spec

\* A log request whose key was not active when it came is neither broadcast nor
\* stored, however the key changes meanwhile (log_service.go:41-55).
THEOREM DeadKeysRefused == Spec => []DeadKeysAreRefused
<1>1. IngestInv => DeadKeysAreRefused
      BY DEF IngestInv
<1> QED BY <1>1, IngestInvariant, PTL

\* A log is broadcast to the project of its key (log_service.go:51, 98).
THEOREM BroadcastToOwnProject == Spec => []BroadcastInKeysProject
<1>1. IngestInv => BroadcastInKeysProject
      BY DEF IngestInv
<1> QED BY <1>1, IngestInvariant, PTL

\* The logs stored are those that were accepted and whose key's row exists
\* (log_service.go:100, migration 000015).
THEOREM StoredIsAccepted == Spec => []AcceptedIsStored
<1>1. IngestInv => AcceptedIsStored
      BY DEF IngestInv
<1> QED BY <1>1, IngestInvariant, PTL

\* A step of a log request appends its own broadcast, or leaves them alone.
LEMMA OnceKept ==
    ASSUME TypeOK, OnceInv, NEW i \in Ingests, IngestStep(i)
    PROVE  OnceInv'
<1>a. broadcasts \in Seq(Ingests) /\ \A x \in Ingests \ {i} : ingest'[x] = ingest[x]
      BY IngestSteps, PostStep DEF TypeOK
<1>1. CASE UNCHANGED broadcasts
  <2>1. \A x \in Ingests : BroadcastsOf(x)' = BroadcastsOf(x)
        BY <1>1 DEF BroadcastsOf
  <2>2. CASE Post(i)
        BY <1>a, <2>1, <2>2, PostStep DEF OnceInv, Post
  <2>3. CASE ~Post(i)
        BY <1>1, <1>a, <2>1, <2>3, IngestSteps DEF OnceInv, Moves
  <2> QED BY <2>2, <2>3
<1>2. CASE ~UNCHANGED broadcasts
  <2>1. ~Post(i)
        BY <1>2 DEF Post
  <2>2. /\ broadcasts' = Append(broadcasts, i)
        /\ ingest[i].at = "located" /\ ingest'[i].at = "broadcast"
        BY <1>2, <2>1, IngestSteps DEF Moves
  <2>3. /\ DOMAIN broadcasts' = DOMAIN broadcasts \cup {Len(broadcasts) + 1}
        /\ Len(broadcasts) + 1 \notin DOMAIN broadcasts
        /\ \A n \in DOMAIN broadcasts : broadcasts'[n] = broadcasts[n]
        /\ broadcasts'[Len(broadcasts) + 1] = i
        BY <1>a, <2>2
  <2>4. \A x \in Ingests \ {i} : BroadcastsOf(x)' = BroadcastsOf(x)
        BY <2>3 DEF BroadcastsOf
  <2>5. BroadcastsOf(i) = {}
        BY <2>2 DEF OnceInv
  <2>6. BroadcastsOf(i)' = {Len(broadcasts) + 1}
        BY <2>3, <2>5 DEF BroadcastsOf
  <2>7. Len(broadcasts) + 1 \in DOMAIN broadcasts'
        BY <2>3
  <2> QED BY <1>a, <2>2, <2>4, <2>6, <2>7 DEF OnceInv
<1> QED BY <1>1, <1>2

\* A log that is stored was broadcast, and only once (log_service.go:98-100).
THEOREM StoredOnFeedOnce == Spec => []StoredWasBroadcastOnce
<1>1. Init => OnceInv
      BY DEF Init, IngestInit, OnceInv, BroadcastsOf
<1>2. TypeOK /\ OnceInv /\ [Next]_vars => OnceInv'
  <2>1. ASSUME OnceInv, UNCHANGED <<ingest, broadcasts>>  PROVE OnceInv'
        BY <2>1 DEF OnceInv, BroadcastsOf
  <2> QED BY <2>1, OnceKept DEF Next, KeyStep, vars, logVars
<1>3. TypeOK /\ IngestInv /\ OnceInv => StoredWasBroadcastOnce
  <2> SUFFICES ASSUME TypeOK, IngestInv, OnceInv, NEW i \in logs
               PROVE  Cardinality(BroadcastsOf(i)) = 1
      BY DEF StoredWasBroadcastOnce
  <2>1. i \in Ingests /\ ingest[i].at = "created"
        BY DEF TypeOK, IngestInv, AcceptedIsStored
  <2>2. PICK n \in DOMAIN broadcasts : BroadcastsOf(i) = {n}
        BY <2>1 DEF OnceInv
  <2> QED BY <2>2, FS_Singleton
<1> QED BY <1>1, <1>2, <1>3, TypeCorrect, IngestInvariant, PTL DEF Spec

=============================================================================
