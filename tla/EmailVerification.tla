------------------------- MODULE EmailVerification -------------------------
(***************************************************************************)
(* Verifying one address: Register, VerifyOTP and ResendOTP of             *)
(* auth_service.go over the tables users and email_verifications.  Each    *)
(* request is a goroutine that runs one SQL statement at a time; the       *)
(* errors of some statements are ignored.  The mail is left out: any code  *)
(* may be tried, also the right one.                                       *)
(***************************************************************************)
EXTENDS Naturals, Sequences, FiniteSets, FiniteSetsExt

CONSTANTS Codes,        \* the six-digit codes
          Requests,     \* goroutines
          MaxAttempts,  \* 5
          Cooldown,     \* 60 seconds
          Lifetime,     \* 10 minutes
          MaxTime,      \* bound: the clock stops
          MaxRecords,   \* bound: no code is sent after this many
          MaxFaults,    \* bound: the statements that fail
          None

ASSUME EmailAssumption ==
    /\ MaxAttempts \in Nat /\ Cooldown \in Nat /\ Lifetime \in Nat /\ MaxFaults \in Nat
    /\ MaxTime \in Nat /\ MaxRecords \in Nat /\ None \notin Codes
    /\ IsFiniteSet(Requests) /\ Requests # {}

VARIABLES
    now,
    user,    \* the row of users: none, unverified or verified
    made,    \* the records ever made, by created_at; row: is it in the table
    req,     \* the request each goroutine serves
    tries,   \* history: the wrong codes compared with each record
    faults   \* history: the statements that failed

emailVars == <<now, user, made, req, tries, faults>>

\* by: the page, the page that was left meanwhile, or another client.
\* alone: no other request has been served since it began.
NoRequest == [at |-> "idle", form |-> "register", by |-> "other", code |-> None, rec |-> 0,
              alone |-> TRUE, ok |-> FALSE]

InTable == {i \in DOMAIN made : made[i].row}

\* FindByEmail: the newest; 0 when there is none.
Newest == Max({0} \cup InTable)

EmailInit ==
    /\ now = 0 /\ user = "none" /\ made = <<>>
    /\ req = [r \in Requests |-> NoRequest]
    /\ tries = <<>> /\ faults = 0

\* A request is being served.
Busy(r) == req[r].at \notin {"idle", "answer"}

\* A goroutine begins a request; from now on those under way are not alone.
Begin(r, form, by, code) ==
    /\ req[r].at = "idle"
    /\ LET busy == {s \in Requests \ {r} : Busy(s)}
       IN  req' = [s \in Requests |->
              IF s = r THEN [at |-> form, form |-> form, by |-> by, code |-> code, rec |-> 0,
                             alone |-> busy = {}, ok |-> FALSE]
              ELSE [req[s] EXCEPT !.alone = @ /\ s \notin busy]]
    /\ UNCHANGED <<now, user, made, tries, faults>>

Goto(r, at) == req' = [req EXCEPT ![r].at = at]

\* Only what a page of this browser does with its answer is followed.
Answered(q, ok) ==
    IF q.by = "other" THEN NoRequest
    ELSE [NoRequest EXCEPT !.at = "answer", !.form = q.form, !.by = q.by, !.ok = ok,
                           !.rec = IF ok THEN q.rec ELSE 0]
Answer(r, ok) == req' = [req EXCEPT ![r] = Answered(@, ok)]

-----------------------------------------------------------------------------
(* Register: ExistsByEmail, then Save; then sendOTP.                       *)

CheckExists(r) ==
    /\ req[r].at = "register"
    /\ IF user = "none" THEN Goto(r, "saveUser") ELSE Answer(r, FALSE)
    /\ UNCHANGED <<now, user, made, tries, faults>>

SaveUser(r) ==
    /\ req[r].at = "saveUser"
    /\ IF user = "none" THEN user' = "unverified" /\ Goto(r, "send")
       ELSE Answer(r, FALSE) /\ UNCHANGED user
    /\ UNCHANGED <<now, made, tries, faults>>

-----------------------------------------------------------------------------
(* sendOTP: the old records are deleted, the new one is made and saved.    *)

DeleteOld(r) ==
    /\ req[r].at = "send" /\ Len(made) < MaxRecords
    /\ \E code \in Codes :
          made' = Append([i \in DOMAIN made |-> [made[i] EXCEPT !.row = FALSE]],
                         [code |-> code, created |-> now, attempts |-> 0, row |-> FALSE])
    /\ tries' = Append(tries, 0)
    /\ req' = [req EXCEPT ![r].at = "save", ![r].rec = Len(made) + 1]
    /\ UNCHANGED <<now, user, faults>>

SaveRecord(r) ==
    /\ req[r].at = "save"
    /\ made' = [made EXCEPT ![req[r].rec].row = TRUE]
    /\ Answer(r, TRUE)
    /\ UNCHANGED <<now, user, tries, faults>>

-----------------------------------------------------------------------------
(* ResendOTP.                                                              *)

CheckUser(r) ==
    /\ req[r].at = "resend"
    /\ IF user = "unverified" THEN Goto(r, "cooldown") ELSE Answer(r, FALSE)
    /\ UNCHANGED <<now, user, made, tries, faults>>

\* Mutant: the time of the last record is not looked at.
CheckCooldownOfNone(r) ==
    /\ req[r].at = "cooldown"
    /\ Goto(r, "send")
    /\ UNCHANGED <<now, user, made, tries, faults>>

CheckCooldown(r) ==
    /\ req[r].at = "cooldown"
    /\ IF Newest # 0 /\ now - made[Newest].created < Cooldown THEN Answer(r, FALSE)
       ELSE Goto(r, "send")
    /\ UNCHANGED <<now, user, made, tries, faults>>

-----------------------------------------------------------------------------
(* VerifyOTP.                                                              *)

\* Mutant: one try too many.
TriesLeftOneMore(i) == made[i].attempts <= MaxAttempts

TriesLeft(i) == made[i].attempts < MaxAttempts

Usable(i) == i # 0 /\ now <= made[i].created + Lifetime /\ TriesLeft(i)

Judge(r, at, i) == req' = [req EXCEPT ![r].at = at, ![r].code = None, ![r].rec = i]

\* The user and the newest record are read, and the code is compared with it.
Compare(r) ==
    LET i == Newest IN
    /\ req[r].at = "verify"
    /\ \/ /\ user = "none" \/ ~Usable(i)
          /\ Answer(r, FALSE) /\ UNCHANGED tries
       \/ /\ user # "none" /\ Usable(i)
          /\ IF req[r].code = made[i].code THEN Judge(r, "right", 0) /\ UNCHANGED tries
             ELSE Judge(r, "wrong", i) /\ tries' = [tries EXCEPT ![i] = @ + 1]
    /\ UNCHANGED <<now, user, made, faults>>

\* attempts = attempts + 1, whatever it is by now; it matters in the table only.
CountTry(r) ==
    /\ req[r].at = "wrong"
    /\ made' = [made EXCEPT ![req[r].rec].attempts = @ + 1]
    /\ Answer(r, FALSE)
    /\ UNCHANGED <<now, user, tries, faults>>

SetVerified(r) ==
    /\ req[r].at = "right"
    /\ user' = "verified"
    /\ Goto(r, "cleanup")
    /\ UNCHANGED <<now, made, tries, faults>>

DeleteRecords(r) ==
    /\ req[r].at = "cleanup"
    /\ made' = [i \in DOMAIN made |-> [made[i] EXCEPT !.row = FALSE]]
    /\ Answer(r, TRUE)
    /\ UNCHANGED <<now, user, tries, faults>>

\* A statement fails.  A user or a record that cannot be read is taken for none,
\* and that an UPDATE of attempts or a DELETE has failed is not seen.
StatementFails(r) ==
    /\ Busy(r) /\ faults < MaxFaults
    /\ faults' = faults + 1
    /\ CASE req[r].at = "register" -> Goto(r, "saveUser") /\ UNCHANGED <<made, tries>>
         [] req[r].at = "cooldown" -> Goto(r, "send") /\ UNCHANGED <<made, tries>>
         [] req[r].at = "cleanup" -> Answer(r, TRUE) /\ UNCHANGED <<made, tries>>
         [] req[r].at = "send" ->
              /\ Len(made) < MaxRecords
              /\ \E code \in Codes :
                    made' = Append(made, [code |-> code, created |-> now, attempts |-> 0,
                                          row |-> FALSE])
              /\ tries' = Append(tries, 0)
              /\ req' = [req EXCEPT ![r].at = "save", ![r].rec = Len(made) + 1]
         [] OTHER -> Answer(r, FALSE) /\ UNCHANGED <<made, tries>>
    /\ UNCHANGED <<now, user>>

ServerStep(r) ==
    \/ CheckExists(r) \/ SaveUser(r) \/ DeleteOld(r) \/ SaveRecord(r)
    \/ CheckUser(r) \/ CheckCooldown(r)
    \/ Compare(r) \/ CountTry(r) \/ SetVerified(r) \/ DeleteRecords(r)
    \/ StatementFails(r)

-----------------------------------------------------------------------------
(* Properties.                                                             *)

RequestState ==
    [at : {"idle", "register", "saveUser", "send", "save", "resend", "cooldown", "verify",
           "wrong", "right", "cleanup", "answer"},
     form : {"register", "verify", "resend"}, by : {"page", "left", "other"},
     code : Codes \cup {None}, rec : 0 .. Len(made), alone : BOOLEAN, ok : BOOLEAN]

EmailTypeOK ==
    /\ now \in Nat /\ user \in {"none", "unverified", "verified"} /\ faults \in 0 .. MaxFaults
    /\ made \in Seq([code : Codes, created : Nat, attempts : Nat, row : BOOLEAN])
    /\ tries \in Seq(Nat) /\ Len(tries) = Len(made)
    /\ req \in [Requests -> RequestState]
    /\ \A r \in Requests : /\ req[r].at \in {"save", "wrong"} => req[r].rec # 0
                           /\ req[r].at = "verify" => req[r].code \in Codes

(* Of the wrong codes compared with one record no more go beyond the limit *)
(* than requests run at once, less one: each has read attempts before it   *)
(* counts its own.  A count that fails is lost (auth_service.go 163-171).  *)
AttemptsLimit ==
    \A i \in DOMAIN tries :
        tries[i] <= MaxAttempts + (Cardinality(Requests) - 1) + faults

(* A new code is not sent within the cooldown after the last one, unless   *)
(* the request overlapped another or a statement failed: what ResendOTP    *)
(* reads and what sendOTP writes are statements of their own               *)
(* (auth_service.go 191-196, 110-127).                                     *)
CooldownKept ==
    [][ \A r \in Requests :
          req[r].at = "send" /\ req'[r].at = "save" /\ req[r].alone /\ faults' = 0 =>
             \A i \in DOMAIN made : now - made[i].created >= Cooldown ]_emailVars

=============================================================================
