------------------------------ MODULE LogIngest ------------------------------
(***************************************************************************)
(* Log ingestion: CreateLog of src/core/internal/log/log_service.go, with  *)
(* the key table of ApiKeys changing under it and the feed of the SSE      *)
(* server (ProjectFeed) behind BroadcastToProject.                         *)
(*                                                                         *)
(* One member of Ingests is one POST /api/v1/logs/create.  It reads the    *)
(* key's row twice, asks ip-api.com where the request came from, tells the *)
(* event server about the log, and only then inserts it.  The row of logs  *)
(* it inserts, and the broadcast it makes, are named by the request.       *)
(***************************************************************************)
EXTENDS ApiKeys, Sequences

CONSTANTS Ingests   \* the requests of the SDKs

VARIABLES
    ingest,      \* where each request is, its key and what it read about it
    logs,        \* the rows of logs, each named by the request that made it
    broadcasts   \* history: the requests whose log was broadcast, in order

logVars == <<ingest, logs, broadcasts>>
vars == <<keyVars, logVars>>

KeyOf(i) == ingest[i].key

IngestInit ==
    /\ ingest = [i \in Ingests |->
                   [at |-> "absent", key |-> NoRow, project |-> NoRow, wasActive |-> FALSE]]
    /\ logs = {}
    /\ broadcasts = <<>>

Init == KeysInit /\ IngestInit

Refuse(i) == ingest' = [ingest EXCEPT ![i].at = "failed"]

\* Mutant: a request without a key is let through.
PostWithoutKey(i) ==
    /\ ingest[i].at = "absent"
    /\ ingest' = [ingest EXCEPT ![i].at = "posted"]
    /\ UNCHANGED <<keyVars, logs, broadcasts>>

\* A POST arrives with the key of some row that was made.  Whether the key is
\* active now is remembered (history), to be compared with the outcome.
Post(i) ==
    /\ ingest[i].at = "absent"
    /\ \E k \in Keys :
          /\ keys[k].at # "unused"
          /\ ingest' = [ingest EXCEPT ![i] = [@ EXCEPT !.at = "posted", !.key = k,
                                                       !.wasActive = Active(k)]]
    /\ UNCHANGED <<keyVars, logs, broadcasts>>

\* Mutant: the query does not look at revoked, and nobody looks at the result.
FindIdOfAnyKey(i) ==
    /\ ingest[i].at = "posted"
    /\ IF KeyOf(i) \in Rows
       THEN ingest' = [ingest EXCEPT ![i].at = "identified"]
       ELSE Refuse(i)
    /\ UNCHANGED <<keyVars, logs, broadcasts>>

\* FindIdByKey: the row with this key, if it is not revoked.
FindIdByKey(i) ==
    /\ ingest[i].at = "posted"
    /\ IF Active(KeyOf(i))
       THEN ingest' = [ingest EXCEPT ![i].at = "identified"]
       ELSE Refuse(i)
    /\ UNCHANGED <<keyVars, logs, broadcasts>>

\* Mutant: the project is looked up by the key's user, who may have several.
FindProjectOfUser(i) ==
    /\ ingest[i].at = "identified"
    /\ \/ \E p \in projects :
             /\ Active(KeyOf(i)) /\ RowsOf(keys[KeyOf(i)].user, p) # {}
             /\ ingest' = [ingest EXCEPT ![i].at = "resolved", ![i].project = p]
       \/ ~Active(KeyOf(i)) /\ Refuse(i)
    /\ UNCHANGED <<keyVars, logs, broadcasts>>

\* FindProjectIdByKey: a second query, with the same condition.
FindProjectIdByKey(i) ==
    /\ ingest[i].at = "identified"
    /\ IF Active(KeyOf(i))
       THEN ingest' = [ingest EXCEPT ![i].at = "resolved",
                                     ![i].project = keys[KeyOf(i)].project]
       ELSE Refuse(i)
    /\ UNCHANGED <<keyVars, logs, broadcasts>>

\* The request to ip-api.com, which fails or answers something undecodable,
\* or answers.
Locate(i) ==
    /\ ingest[i].at = "resolved"
    /\ \/ ingest' = [ingest EXCEPT ![i].at = "located"]
       \/ Refuse(i)
    /\ UNCHANGED <<keyVars, logs, broadcasts>>

\* Mutant: a log that cannot be marshalled is not broadcast, but saved.
BroadcastIfMarshalled(i) ==
    /\ ingest[i].at = "located"
    /\ broadcasts' \in {broadcasts, Append(broadcasts, i)}
    /\ ingest' = [ingest EXCEPT ![i].at = "broadcast"]
    /\ UNCHANGED <<keyVars, logs>>

\* BroadcastToProject: the feed publishes the log to the project's streams.
Broadcast(i) ==
    /\ ingest[i].at = "located"
    /\ broadcasts' = Append(broadcasts, i)
    /\ ingest' = [ingest EXCEPT ![i].at = "broadcast"]
    /\ UNCHANGED <<keyVars, logs>>

\* Mutant: an INSERT that does not return its error.
SaveBlindly(i) ==
    /\ ingest[i].at = "broadcast"
    /\ \/ UNCHANGED logs
       \/ KeyOf(i) \in Rows /\ logs' = logs \cup {i}
    /\ ingest' = [ingest EXCEPT ![i].at = "created"]
    /\ UNCHANGED <<keyVars, broadcasts>>

\* Save: the INSERT fails if the row of its key is gone (api_key_id is a
\* foreign key); a revoked key is still a row.  The database may fail too.
Save(i) ==
    /\ ingest[i].at = "broadcast"
    /\ \/ /\ KeyOf(i) \in Rows
          /\ logs' = logs \cup {i}
          /\ ingest' = [ingest EXCEPT ![i].at = "created"]
       \/ /\ Refuse(i)
          /\ UNCHANGED logs
    /\ UNCHANGED <<keyVars, broadcasts>>

IngestStep(i) == \/ Post(i) \/ FindIdByKey(i) \/ FindProjectIdByKey(i)
                 \/ Locate(i) \/ Broadcast(i) \/ Save(i)

\* ON DELETE CASCADE (migration 000015): a key's logs go with its row.
Cascade == logs' = {i \in logs : KeyOf(i) \in Rows'}

KeyStep == KeysNext /\ Cascade /\ UNCHANGED <<ingest, broadcasts>>

Next == KeyStep \/ \E i \in Ingests : IngestStep(i)

Spec == Init /\ [][Next]_vars

-----------------------------------------------------------------------------
(* Properties.                                                             *)

Resolved == {"resolved", "located", "broadcast", "created"}

IngestState == [at : {"absent", "posted", "identified", "failed"} \cup Resolved,
                key : Keys \cup {NoRow}, project : Projects \cup {NoRow},
                wasActive : BOOLEAN]

\* Types, and that a request that was posted has a key.
TypeOK ==
    /\ KeysTypeOK
    /\ ingest \in [Ingests -> IngestState]
    /\ \A i \in Ingests : ingest[i].at # "absent" => ingest[i].key \in Keys
    /\ logs \in SUBSET Ingests
    /\ broadcasts \in Seq(Ingests)

(* README.md:137, "Revoked or deleted API keys cannot authenticate log     *)
(* ingestion": a request whose key was not active when it came is neither  *)
(* broadcast nor stored, though the row is read twice, in two statements,  *)
(* and may change before, between and after them (log_service.go:41-55).   *)
DeadKeysAreRefused ==
    \A i \in Ingests :
        ingest[i].at \in {"identified"} \cup Resolved => ingest[i].wasActive

(* What is broadcast under a project was sent with a key of that project,  *)
(* for as long as the key's row exists (log_service.go:51, 98).            *)
BroadcastInKeysProject ==
    \A i \in Ingests :
        ingest[i].at \in Resolved /\ KeyOf(i) \in Rows
            => ingest[i].project = keys[KeyOf(i)].project

(* A request that was answered 202 is stored, until the row of its key is  *)
(* deleted; and no stored log has lost the row of its key                  *)
(* (log_service.go:100, migration 000015).                                 *)
AcceptedIsStored ==
    \A i \in Ingests : i \in logs <=> ingest[i].at = "created" /\ KeyOf(i) \in Rows

BroadcastsOf(i) == {n \in DOMAIN broadcasts : broadcasts[n] = i}

(* Every stored log was broadcast, once (log_service.go:98-100).           *)
StoredWasBroadcastOnce ==
    \A i \in logs : Cardinality(BroadcastsOf(i)) = 1

(* What makes these inductive: the key of a request was made, and if it is *)
(* active now it was active when the request came.                         *)
IngestInv ==
    /\ \A i \in Ingests :
          ingest[i].at # "absent" => /\ keys[KeyOf(i)].at # "unused"
                                     /\ Active(KeyOf(i)) => ingest[i].wasActive
    /\ DeadKeysAreRefused /\ BroadcastInKeysProject /\ AcceptedIsStored

\* A request has not broadcast before it comes to it, and once afterwards.
OnceInv ==
    \A i \in Ingests :
        /\ ingest[i].at \in {"absent", "posted", "identified", "resolved", "located"}
              => BroadcastsOf(i) = {}
        /\ ingest[i].at \in {"broadcast", "created"}
              => \E n \in DOMAIN broadcasts : BroadcastsOf(i) = {n}

IInv == TypeOK /\ KeysInv /\ IngestInv /\ OnceInv

-----------------------------------------------------------------------------
(* Statements of the repository that the code does not keep.               *)

(* README.md:142: the server "broadcasts new persisted log events only".   *)
(* A log whose INSERT failed was broadcast all the same.                   *)
RefusedIsNotBroadcast ==
    \A i \in Ingests : ingest[i].at = "failed" => BroadcastsOf(i) = {}

(* projects/[id]/page.tsx:314-315, on deleting a key: "Existing logs stay  *)
(* available, but this key can no longer authenticate requests."           *)
KeyDeletionKeepsLogs ==
    [][\A r \in Requests : req[r].at = "delete" /\ req'[r].at = "idle" => logs \subseteq logs']_vars

=============================================================================
