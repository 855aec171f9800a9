------------------------------- MODULE ApiKeys -------------------------------
(***************************************************************************)
(* API keys: src/core/internal/api_key/ over the tables and the trigger of *)
(* src/core/migrations/.  Dashboard requests create, revoke and delete     *)
(* keys; each request is a goroutine that runs one SQL statement at a      *)
(* time, so the requests interleave between their statements.              *)
(*                                                                         *)
(* A row of api_keys is named by a member of Keys, which is never used     *)
(* again: ids are random UUIDs.  A statement is one step, but for the      *)
(* INSERT.  Its BEFORE INSERT trigger updates the rows its snapshot holds, *)
(* and the inserted row is seen by others only when the statement commits: *)
(* BeginInsert is the snapshot, CommitInsert the commit.  The row locks of *)
(* the trigger's UPDATE only choose which of two creators commits first.   *)
(***************************************************************************)
EXTENDS Naturals, FiniteSets

CONSTANTS Users, Projects, Names, Keys,
          OwnerOf,     \* the user that owns each project
          Requests,    \* goroutines that serve the dashboard, one request at a time
          NoRow        \* no row: an empty column or field

ASSUME KeysAssumption == /\ OwnerOf \in [Projects -> Users]
                         /\ NoRow \notin Keys

VARIABLES
    users,     \* the rows of users
    projects,  \* the rows of projects
    keys,      \* the rows of api_keys, and what became of each id
    req,       \* the request each goroutine serves
    finished   \* history: the keys whose revocation or deletion was acknowledged

keyVars == <<users, projects, keys, req, finished>>

\* The table's rows; a revoked key stays in the table, a deleted one does not.
Rows == {k \in Keys : keys[k].at \in {"active", "revoked"}}
Active(k) == keys[k].at = "active"
RowsOf(u, p) == {k \in Rows : keys[k].user = u /\ keys[k].project = p}

\* What an answered request and a row that does not exist hold.
NoRequest == [at |-> "idle", user |-> NoRow, project |-> NoRow, name |-> NoRow,
              key |-> NoRow, seen |-> {}]
NoKey(at) == [at |-> at, user |-> NoRow, project |-> NoRow, name |-> NoRow,
              maker |-> NoRow]

KeysInit ==
    /\ users = Users /\ projects = Projects
    /\ keys = [k \in Keys |-> NoKey("unused")]
    /\ req = [r \in Requests |-> NoRequest]
    /\ finished = {}

\* The request is answered, with an error or with success.
Answer(r) == req' = [req EXCEPT ![r] = NoRequest]

-----------------------------------------------------------------------------
(* CreateApiKey: ExistsById, then Save.                                    *)

\* A request whose project does not exist is refused and changes nothing.
CheckProject(r) ==
    /\ req[r].at = "idle"
    /\ \E u \in users, p \in projects, n \in Names :
          req' = [req EXCEPT ![r] = [NoRequest EXCEPT !.at = "insert", !.user = u,
                                                      !.project = p, !.name = n]]
    /\ UNCHANGED <<users, projects, keys, finished>>

\* Mutant: the trigger looks at no row.
BeginInsertUntriggered(r) ==
    /\ req[r].at = "insert"
    /\ req' = [req EXCEPT ![r].at = "commit"]
    /\ UNCHANGED <<users, projects, keys, finished>>

\* The trigger's UPDATE takes its snapshot of the user's keys of the project.
BeginInsert(r) ==
    /\ req[r].at = "insert"
    /\ req' = [req EXCEPT ![r].at = "commit",
                          ![r].seen = RowsOf(req[r].user, req[r].project)]
    /\ UNCHANGED <<users, projects, keys, finished>>

\* The foreign keys and UNIQUE (name, project_id), which counts revoked rows.
Insertable(r) ==
    /\ req[r].user \in users /\ req[r].project \in projects
    /\ \A k \in Rows : keys[k].project = req[r].project => keys[k].name # req[r].name

\* The table after the INSERT of r's key as row k, with the trigger's effect.
Inserted(r, k) ==
    [x \in Keys |->
       IF x = k
       THEN [at |-> "active", user |-> req[r].user, project |-> req[r].project,
             name |-> req[r].name, maker |-> r]
       ELSE IF x \in req[r].seen \cap Rows THEN [keys[x] EXCEPT !.at = "revoked"]
       ELSE keys[x]]

\* A violated constraint takes the trigger's UPDATE back with the INSERT.
CommitInsert(r) ==
    /\ req[r].at = "commit"
    /\ \/ /\ ~Insertable(r)
          /\ UNCHANGED keys
       \/ /\ Insertable(r)
          /\ \E k \in Keys : /\ keys[k].at = "unused"
                             /\ keys' = Inserted(r, k)
    /\ Answer(r)
    /\ UNCHANGED <<users, projects, finished>>

-----------------------------------------------------------------------------
(* RevokeApiKey and DeleteApiKey: FindById, then an UPDATE or a DELETE.    *)

\* FindById finds a key of the requesting user that is not revoked; otherwise
\* the request is refused (404, 401, 409) and changes nothing.
FindToRevoke(r) ==
    /\ req[r].at = "idle"
    /\ \E k \in Rows :
          /\ Active(k)
          /\ req' = [req EXCEPT ![r] = [NoRequest EXCEPT !.at = "revoke", !.key = k]]
    /\ UNCHANGED <<users, projects, keys, finished>>

\* Mutant: the statement toggles the flag that FindById saw as false.
RevokeToggles(r) ==
    /\ req[r].at = "revoke"
    /\ keys' = [keys EXCEPT ![req[r].key].at =
                  CASE @ = "active" -> "revoked" [] @ = "revoked" -> "active" [] OTHER -> @]
    /\ finished' = finished \cup {req[r].key}
    /\ Answer(r)
    /\ UNCHANGED <<users, projects>>

\* The UPDATE sets the flag whatever it is now; of a row that is gone it sets
\* nothing, and the number of rows is not looked at.
Revoke(r) ==
    /\ req[r].at = "revoke"
    /\ keys' = [keys EXCEPT ![req[r].key].at = IF @ = "active" THEN "revoked" ELSE @]
    /\ finished' = finished \cup {req[r].key}
    /\ Answer(r)
    /\ UNCHANGED <<users, projects>>

\* Here the row may be revoked already.
FindToDelete(r) ==
    /\ req[r].at = "idle"
    /\ \E k \in Rows :
          req' = [req EXCEPT ![r] = [NoRequest EXCEPT !.at = "delete", !.key = k]]
    /\ UNCHANGED <<users, projects, keys, finished>>

Delete(r) ==
    /\ req[r].at = "delete"
    /\ keys' = [keys EXCEPT ![req[r].key] = NoKey("deleted")]
    /\ finished' = finished \cup {req[r].key}
    /\ Answer(r)
    /\ UNCHANGED <<users, projects>>

-----------------------------------------------------------------------------
(* DELETE FROM users (user/repository.go): the user's projects and keys,   *)
(* and the keys of those projects, go with the row.                        *)

\* Mutant: the keys that others made in the user's projects are left.
DeleteUserAndOwnKeys(u) ==
    /\ u \in users
    /\ users' = users \ {u}
    /\ projects' = {p \in projects : OwnerOf[p] # u}
    /\ keys' = [k \in Keys |->
                  IF k \in Rows /\ keys[k].user = u THEN NoKey("deleted") ELSE keys[k]]
    /\ UNCHANGED <<req, finished>>

DeleteUser(u) ==
    /\ u \in users
    /\ users' = users \ {u}
    /\ projects' = {p \in projects : OwnerOf[p] # u}
    /\ keys' = [k \in Keys |->
                  IF k \in Rows /\ (keys[k].user = u \/ OwnerOf[keys[k].project] = u)
                  THEN NoKey("deleted")
                  ELSE keys[k]]
    /\ UNCHANGED <<req, finished>>

\* A statement fails for a reason of its own (the connection, a timeout): the
\* request is answered with the error, and the statement is rolled back.
StatementFails(r) ==
    /\ req[r].at # "idle"
    /\ Answer(r)
    /\ UNCHANGED <<users, projects, keys, finished>>

RequestStep(r) ==
    \/ CheckProject(r) \/ BeginInsert(r) \/ CommitInsert(r)
    \/ FindToRevoke(r) \/ Revoke(r) \/ FindToDelete(r) \/ Delete(r)
    \/ StatementFails(r)

KeysNext == (\E r \in Requests : RequestStep(r)) \/ (\E u \in Users : DeleteUser(u))

KeysSpec == KeysInit /\ [][KeysNext]_keyVars

-----------------------------------------------------------------------------
(* Properties.                                                             *)

RequestState == [at : {"idle", "insert", "commit", "revoke", "delete"},
                 user : Users \cup {NoRow}, project : Projects \cup {NoRow},
                 name : Names \cup {NoRow}, key : Keys \cup {NoRow}, seen : SUBSET Keys]

KeyRow == [at : {"active", "revoked"}, user : Users, project : Projects, name : Names,
           maker : Requests]

\* Types: the columns of the tables and what each request holds on its way.
KeysTypeOK ==
    /\ users \in SUBSET Users /\ projects \in SUBSET Projects
    /\ keys \in [Keys -> KeyRow \cup {NoKey("unused"), NoKey("deleted")}]
    /\ req \in [Requests -> RequestState]
    /\ \A r \in Requests :
          /\ req[r].at \in {"revoke", "delete"} => req[r].key \in Keys
          /\ req[r].at \in {"insert", "commit"} => /\ req[r].user \in Users
                                                   /\ req[r].project \in Projects
                                                   /\ req[r].name \in Names
    /\ finished \in SUBSET Keys

(* The trigger of migration 000006 revokes a user's earlier keys of a      *)
(* project when a new one is inserted.  Creations that do not overlap thus *)
(* leave one active key: two active keys of one user and project were      *)
(* always made by two goroutines.                                          *)
OneActivePerMaker ==
    \A k, l \in Keys :
        /\ Active(k) /\ Active(l)
        /\ keys[k].user = keys[l].user /\ keys[k].project = keys[l].project
        /\ keys[k].maker = keys[l].maker
        => k = l

(* A key whose revocation or deletion was acknowledged is never active     *)
(* again, whatever requests were under way at that moment                  *)
(* (api_key_service.go:77-111).                                            *)
FinishedStaysFinished == \A k \in finished : ~Active(k)

(* Every row belongs to a user and a project that exist (the cascades of   *)
(* migrations 000004 and 000005), whoever deleted the account meanwhile.   *)
RowsHaveParents ==
    \A k \in Rows : keys[k].user \in users /\ keys[k].project \in projects

(* What makes these inductive.  A finished key has left the active state,  *)
(* a key that some request is about to change was made, and a creation     *)
(* that is about to commit has seen every active key its own goroutine     *)
(* made for the same user and project.                                     *)
FinishedInv ==
    /\ \A k \in finished : keys[k].at \in {"revoked", "deleted"}
    /\ \A r \in Requests :
          req[r].at \in {"revoke", "delete"} => keys[req[r].key].at # "unused"

SeenInv ==
    \A r \in Requests, k \in Keys :
        /\ req[r].at = "commit" /\ Active(k) /\ keys[k].maker = r
        /\ keys[k].user = req[r].user /\ keys[k].project = req[r].project
        => k \in req[r].seen

KeysInv == /\ KeysTypeOK /\ FinishedInv /\ SeenInv
           /\ RowsHaveParents /\ OneActivePerMaker

=============================================================================
