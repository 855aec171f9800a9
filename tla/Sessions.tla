------------------------------ MODULE Sessions ------------------------------
(***************************************************************************)
(* Sessions on the server: auth_service.go, the table refresh_tokens of    *)
(* migration 2 and the check of jwt.go.                                    *)
(*                                                                         *)
(* A refresh token is signed over its user and the second it expires, so   *)
(* two tokens made for one user within a second are the same token.  It is *)
(* issued together with an access token, so one record, the user and the   *)
(* second of issue, stands for the pair.  A row has its flag blacklisted,  *)
(* which the trigger of migration 3 sets and RefreshToken does not test.   *)
(* A statement is one step: of two INSERTs that overlap, the trigger of    *)
(* one may miss the row of the other, and here it does not.                *)
(***************************************************************************)
EXTENDS Naturals, FiniteSets

CONSTANTS Users,
          AccessTTL,   \* lifetime of an access token (15 minutes), in seconds
          RefreshTTL,  \* lifetime of a refresh token (30 days), in seconds
          MaxTime,     \* bound: the last second of a behaviour
          None         \* no token: an empty entry of the browser's storage

Token == [user : Users, at : 0 .. MaxTime]

ASSUME SessionsAssumption ==
    /\ AccessTTL \in Nat /\ RefreshTTL \in Nat /\ MaxTime \in Nat
    /\ None \notin Token

VARIABLES
    now,     \* the second of the clock
    users,   \* the rows of users
    tokens,  \* the rows of refresh_tokens
    blacklisted  \* the rows of refresh_tokens whose flag is set

serverVars == <<now, users, tokens, blacklisted>>

SessionsInit == now = 0 /\ users = Users /\ tokens = {} /\ blacklisted = {}

\* The pair of tokens that is signed for a user in this second.
Sign(u) == [user |-> u, at |-> now]

\* jwt.go: the access token was not altered and has not expired.
ValidAccess(t) == t # None /\ now < t.at + AccessTTL

\* RefreshToken up to the new tokens: signature, row, expiry; the flag is read with the row.
Accepts(t) == t \in tokens /\ now < t.at + RefreshTTL

\* Mutant: the column token is not unique.
InsertableTwice(t) == t.user \in users

\* The foreign key and UNIQUE (token) of refresh_tokens.
Insertable(t) == t.user \in users /\ t \notin tokens

\* What the trigger's UPDATE flags.
TokensOf(u) == {o \in tokens : o.user = u}

\* Save: the row is inserted before the tokens are sent; the trigger flags
\* the rows its user has already.
Insert(t) ==
    /\ Insertable(t)
    /\ tokens' = tokens \cup {t}
    /\ blacklisted' = blacklisted \cup TokensOf(t.user)
    /\ UNCHANGED <<now, users>>

\* DeleteById of a user; the tokens go by ON DELETE CASCADE.
DeleteUser(u) ==
    /\ users' = users \ {u}
    /\ tokens' = {t \in tokens : t.user # u}
    /\ blacklisted' = {t \in blacklisted : t.user # u}
    /\ UNCHANGED now

Tick == now < MaxTime /\ now' = now + 1 /\ UNCHANGED <<users, tokens, blacklisted>>

SessionsTypeOK ==
    /\ now \in 0 .. MaxTime
    /\ users \subseteq Users
    /\ tokens \subseteq Token /\ blacklisted \subseteq tokens
    /\ \A t \in tokens : t.at <= now

=============================================================================
