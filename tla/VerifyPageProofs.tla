-------------------------- MODULE VerifyPageProofs --------------------------
(***************************************************************************)
(* Theorems about EmailVerification and VerifyPage, for every set of codes *)
(* and requests and every limit, cooldown and lifetime.                    *)
(***************************************************************************)
EXTENDS VerifyPage, FoldLemmas, TLAPS

Record == [code : Codes, created : Nat, attempts : Nat, row : BOOLEAN]

-----------------------------------------------------------------------------
(* The newest record.                                                      *)

\* FindByEmail answers the last record that is in the table, if one is.
LEMMA NewestInTable ==
    ASSUME made \in Seq(Record)
    PROVE  /\ Newest = 0 \/ Newest \in InTable
           /\ Newest \in 0 .. Len(made)
           /\ \A i \in InTable : i <= Newest
<1> DEFINE S == {0} \cup InTable
<1>1. InTable \subseteq 1 .. Len(made) /\ Len(made) \in Nat
      BY DEF InTable
<1>2. S # {} /\ S \in SUBSET (0 .. Len(made)) /\ S \in SUBSET Int
      BY <1>1
<1>3. PICK m \in S : \A x \in S : x <= m
  <2>1. IsFiniteSet(S)
    <3>1. IsFiniteSet(0 .. Len(made))
          BY <1>1, FS_Interval
    <3> HIDE DEF S
    <3> QED BY <1>2, <3>1, FS_Subset
  <2> HIDE DEF S
  <2> QED BY <1>2, <2>1, HasGreatest
<1>4. Newest = CHOOSE x \in S : \A y \in S : x >= y
      BY DEF Newest, Max
<1>5. Newest \in S /\ \A y \in S : Newest >= y
      BY <1>2, <1>3, <1>4
<1> QED BY <1>1, <1>5

-----------------------------------------------------------------------------
(* Steps of a request.                                                     *)

\* A request is replaced by another that is well typed for the records there are.
LEMMA RequestMoves ==
    ASSUME req \in [Requests -> RequestState], NEW r \in Requests, NEW R \in RequestState',
           req' = [req EXCEPT ![r] = R], Len(made) <= Len(made'), made' \in Seq(Record),
           made \in Seq(Record)
    PROVE  /\ req' \in [Requests -> RequestState']
           /\ \A s \in Requests : req'[s] = IF s = r THEN R ELSE req[s]
<1>1. Len(made) \in Nat /\ Len(made') \in Nat
      OBVIOUS
<1>2. RequestState \subseteq RequestState'
      BY <1>1 DEF RequestState
<1> QED BY <1>2

\* The request a goroutine is left with is well typed, and is over.
LEMMA AnsweredTyped ==
    ASSUME made \in Seq(Record), NEW q \in RequestState, NEW ok \in BOOLEAN
    PROVE  /\ Answered(q, ok) \in RequestState
           /\ Answered(q, ok).at \in {"idle", "answer"}
           /\ NoRequest \in RequestState /\ NoRequest.at = "idle"
<1>1. Len(made) \in Nat
      OBVIOUS
<1>2. NoRequest \in RequestState /\ NoRequest.at = "idle"
      BY <1>1 DEF NoRequest, RequestState
<1>3. CASE q.by = "other"
      BY <1>2, <1>3 DEF Answered
<1>4. CASE q.by # "other"
  <2>1. /\ (IF ok THEN q.rec ELSE 0) \in 0 .. Len(made)
        /\ q.form \in {"register", "verify", "resend"} /\ q.by \in {"page", "left", "other"}
        BY <1>1 DEF RequestState
  <2>2. Answered(q, ok) = [NoRequest EXCEPT !.at = "answer", !.form = q.form, !.by = q.by,
                                            !.ok = ok, !.rec = IF ok THEN q.rec ELSE 0]
        BY <1>4 DEF Answered
  <2> QED BY <1>2, <2>1, <2>2 DEF NoRequest, RequestState
<1> QED BY <1>3, <1>4

\* A request whose code was compared.
LEMMA JudgeTyped ==
    ASSUME made \in Seq(Record), req \in [Requests -> RequestState], NEW r \in Requests,
           NEW at \in {"right", "wrong"}, NEW i \in 0 .. Len(made), Judge(r, at, i),
           UNCHANGED made
    PROVE  /\ req' \in [Requests -> RequestState']
           /\ \A s \in Requests : s # r => req'[s] = req[s]
           /\ req'[r].at = at /\ req'[r].rec = i /\ req'[r].alone = req[r].alone
<1> DEFINE R == [req[r] EXCEPT !.at = at, !.code = None, !.rec = i]
<1>1. R \in RequestState /\ R.at = at /\ R.rec = i /\ R.alone = req[r].alone
      BY DEF RequestState
<1>2. RequestState' = RequestState
      BY DEF RequestState
<1>3. req' = [req EXCEPT ![r] = R]
      BY DEF Judge, RequestState
<1>4. Len(made) <= Len(made')
      OBVIOUS
<1> HIDE DEF R
<1> QED BY <1>1, <1>2, <1>3, <1>4, RequestMoves

\* The next statement of a request.
LEMMA GotoTyped ==
    ASSUME req \in [Requests -> RequestState], NEW r \in Requests,
           NEW at \in {"saveUser", "send", "cooldown", "cleanup"}, Goto(r, at),
           UNCHANGED made, made \in Seq(Record)
    PROVE  /\ req' \in [Requests -> RequestState']
           /\ \A s \in Requests : s # r => req'[s] = req[s]
           /\ req'[r] = [req[r] EXCEPT !.at = at] /\ req'[r].at = at
           /\ req'[r].alone = req[r].alone
<1> DEFINE R == [req[r] EXCEPT !.at = at]
<1>1. R \in RequestState /\ R.at = at /\ R.alone = req[r].alone
      BY DEF RequestState
<1>2. RequestState' = RequestState
      BY DEF RequestState
<1>3. req' = [req EXCEPT ![r] = R]
      BY DEF Goto, RequestState
<1> HIDE DEF R
<1>4. Len(made) <= Len(made')
      OBVIOUS
<1> QED BY <1>1, <1>2, <1>3, <1>4, RequestMoves DEF R

\* The answer to a request.
LEMMA AnswerTyped ==
    ASSUME req \in [Requests -> RequestState], NEW r \in Requests, NEW ok \in BOOLEAN,
           Answer(r, ok), made \in Seq(Record), made' \in Seq(Record), Len(made) = Len(made')
    PROVE  /\ req' \in [Requests -> RequestState']
           /\ \A s \in Requests : s # r => req'[s] = req[s]
           /\ req'[r].at \in {"idle", "answer"}
<1> DEFINE R == Answered(req[r], ok)
<1>1. R \in RequestState /\ R.at \in {"idle", "answer"}
      BY AnsweredTyped
<1>2. RequestState' = RequestState
      BY DEF RequestState
<1>3. req' = [req EXCEPT ![r] = R]
      BY DEF Answer
<1> HIDE DEF R
<1>4. Len(made) <= Len(made')
      OBVIOUS
<1> QED BY <1>1, <1>2, <1>3, <1>4, RequestMoves

-----------------------------------------------------------------------------
(* Types.                                                                  *)

\* A record that is made and is not saved yet.
LEMMA MadeTyped ==
    ASSUME EmailTypeOK, NEW r \in Requests, NEW code \in Codes,
           NEW old \in Seq(Record), Len(old) = Len(made),
           made' = Append(old, [code |-> code, created |-> now, attempts |-> 0, row |-> FALSE]),
           tries' = Append(tries, 0),
           req' = [req EXCEPT ![r].at = "save", ![r].rec = Len(made) + 1],
           UNCHANGED <<now, user>>, faults' \in 0 .. MaxFaults
    PROVE  /\ EmailTypeOK'
           /\ \A s \in Requests : s # r => req'[s] = req[s]
           /\ req'[r].at = "save" /\ req'[r].rec = Len(made) + 1 /\ Len(made') = Len(made) + 1
           /\ req'[r].alone = req[r].alone
<1> DEFINE R == [req[r] EXCEPT !.at = "save", !.rec = Len(made) + 1]
           new == [code |-> code, created |-> now, attempts |-> 0, row |-> FALSE]
<1>1. /\ made \in Seq(Record) /\ req \in [Requests -> RequestState] /\ now \in Nat
      /\ Len(made) \in Nat
      BY DEF EmailTypeOK, Record
<1>2. new \in Record
      BY <1>1 DEF Record
<1>3. made' \in Seq(Record) /\ Len(made') = Len(made) + 1
      BY <1>2
<1>4. tries' \in Seq(Nat) /\ Len(tries') = Len(made')
      BY <1>3 DEF EmailTypeOK
<1>5. R \in RequestState' /\ R.at = "save" /\ R.rec = Len(made) + 1 /\ R.alone = req[r].alone
      BY <1>1, <1>3 DEF RequestState
<1>6. req' = [req EXCEPT ![r] = R]
      BY <1>1 DEF RequestState
<1> HIDE DEF R, new
<1>7. /\ req' \in [Requests -> RequestState']
      /\ \A s \in Requests : req'[s] = IF s = r THEN R ELSE req[s]
  <2> Len(made) <= Len(made')
      BY <1>1, <1>3
  <2> QED BY <1>1, <1>3, <1>5, <1>6, RequestMoves
<1>8. \A s \in Requests : /\ req'[s].at \in {"save", "wrong"} => req'[s].rec # 0
                          /\ req'[s].at = "verify" => req'[s].code \in Codes
      BY <1>1, <1>5, <1>7 DEF EmailTypeOK
<1>9. EmailTypeOK'
      BY <1>3, <1>4, <1>7, <1>8 DEF EmailTypeOK, Record
<1> QED BY <1>3, <1>5, <1>7, <1>9

\* Every step of a request leaves the tables and the requests well typed.
LEMMA ServerTyped ==
    ASSUME EmailTypeOK, NEW r \in Requests, ServerStep(r)  PROVE  EmailTypeOK'
<1>1. /\ made \in Seq(Record) /\ req \in [Requests -> RequestState] /\ now \in Nat
      /\ Len(made) \in Nat /\ tries \in Seq(Nat) /\ Len(tries) = Len(made)
      /\ MaxFaults \in Nat /\ faults \in 0 .. MaxFaults
      /\ DOMAIN made = 1 .. Len(made) /\ \A i \in 1 .. Len(made) : made[i] \in Record
  <2>1. made \in Seq(Record) /\ tries \in Seq(Nat) /\ Len(tries) = Len(made)
        BY DEF EmailTypeOK, Record
  <2>2. /\ req \in [Requests -> RequestState] /\ now \in Nat
        /\ MaxFaults \in Nat /\ faults \in 0 .. MaxFaults
        BY EmailAssumption DEF EmailTypeOK
  <2>3. /\ DOMAIN made = 1 .. Len(made) /\ Len(made) \in Nat
        /\ \A i \in 1 .. Len(made) : made[i] \in Record
        BY <2>1
  <2> QED BY <2>1, <2>2, <2>3
<1>2. ASSUME /\ \A s \in Requests : s # r => req'[s] = req[s]
             /\ req' \in [Requests -> RequestState']
             /\ req'[r].at \notin {"save", "wrong", "verify"},
             made' \in Seq(Record), Len(made') = Len(made),
             tries' \in Seq(Nat), Len(tries') = Len(tries), now' = now,
             user' \in {"none", "unverified", "verified"}, faults' \in 0 .. MaxFaults
      PROVE  EmailTypeOK'
      BY <1>1, <1>2 DEF EmailTypeOK, Record
<1>3. ASSUME NEW at \in {"saveUser", "send", "cooldown", "cleanup"}, Goto(r, at),
             UNCHANGED <<now, made, tries>>, user' \in {"none", "unverified", "verified"},
             faults' \in 0 .. MaxFaults
      PROVE  EmailTypeOK'
      BY <1>1, <1>2, <1>3, GotoTyped
<1>4. ASSUME NEW ok \in BOOLEAN, Answer(r, ok),
             made' \in Seq(Record), Len(made') = Len(made), UNCHANGED <<now, user, tries>>,
             faults' \in 0 .. MaxFaults
      PROVE  EmailTypeOK'
  <2>1. user \in {"none", "unverified", "verified"}
        BY DEF EmailTypeOK
  <2> QED BY <1>1, <1>2, <1>4, <2>1, AnswerTyped
<1>5. user \in {"none", "unverified", "verified"} /\ TRUE \in BOOLEAN /\ FALSE \in BOOLEAN
      BY DEF EmailTypeOK
<1>a. CASE CheckExists(r)
      BY <1>1, <1>3, <1>4, <1>5, <1>a DEF CheckExists
<1>b. CASE SaveUser(r)
      BY <1>1, <1>3, <1>4, <1>5, <1>b DEF SaveUser
<1>c. CASE DeleteOld(r)
  <2> DEFINE old == [i \in DOMAIN made |-> [made[i] EXCEPT !.row = FALSE]]
  <2>1. \A i \in 1 .. Len(made) : [made[i] EXCEPT !.row = FALSE] \in Record
        BY <1>1 DEF Record
  <2>2. old \in Seq(Record) /\ Len(old) = Len(made)
        BY <1>1, <2>1
  <2> HIDE DEF old
  <2> QED BY <1>1, <1>c, <2>2, MadeTyped DEF DeleteOld, old
<1>d. CASE SaveRecord(r)
  <2>1. req[r].rec \in 1 .. Len(made)
        BY <1>1, <1>d DEF SaveRecord, EmailTypeOK, RequestState
  <2>2. made' \in Seq(Record) /\ Len(made') = Len(made)
    <3> DEFINE new == [made[req[r].rec] EXCEPT !.row = TRUE]
    <3>0. made[req[r].rec] \in Record
          BY <1>1, <2>1
    <3>1. new \in Record
          BY <3>0 DEF Record
    <3>2. made' = [made EXCEPT ![req[r].rec] = new]
          BY <1>1, <1>d, <2>1 DEF SaveRecord
    <3> HIDE DEF new
    <3> QED BY <1>1, <2>1, <3>1, <3>2
  <2> QED BY <1>1, <1>4, <1>d, <2>2 DEF SaveRecord
<1>e. CASE CheckUser(r)
      BY <1>1, <1>3, <1>4, <1>5, <1>e DEF CheckUser
<1>f. CASE CheckCooldown(r)
      BY <1>1, <1>3, <1>4, <1>5, <1>f DEF CheckCooldown
<1>g. CASE Compare(r)
  <2>1. UNCHANGED <<now, user, made, faults>>
        BY <1>g DEF Compare, Usable
  <2>2. CASE Answer(r, FALSE) /\ UNCHANGED tries
        BY <1>1, <1>4, <2>1, <2>2
  <2>3. CASE Judge(r, "right", 0) /\ UNCHANGED tries
        BY <1>1, <1>2, <1>5, <2>1, <2>3, JudgeTyped
  <2>4. CASE /\ Newest # 0 /\ Judge(r, "wrong", Newest)
             /\ tries' = [tries EXCEPT ![Newest] = @ + 1]
    <3>1. Newest \in 1 .. Len(made)
          BY <1>1, <2>4, NewestInTable
    <3>2. tries' \in Seq(Nat) /\ Len(tries') = Len(tries)
          BY <1>1, <2>4, <3>1
    <3>3. /\ req' \in [Requests -> RequestState']
          /\ \A s \in Requests : s # r => req'[s] = req[s]
          /\ req'[r].at = "wrong" /\ req'[r].rec # 0
          BY <1>1, <2>1, <2>4, <3>1, JudgeTyped
    <3> QED BY <1>1, <2>1, <3>2, <3>3 DEF EmailTypeOK, Record
  <2> QED BY <1>g, <2>2, <2>3, <2>4 DEF Compare, Usable
<1>h. CASE CountTry(r)
  <2>1. req[r].rec \in 1 .. Len(made)
        BY <1>1, <1>h DEF CountTry, EmailTypeOK, RequestState
  <2>2. made' \in Seq(Record) /\ Len(made') = Len(made)
    <3> DEFINE new == [made[req[r].rec] EXCEPT !.attempts = @ + 1]
    <3>0. made[req[r].rec] \in Record
          BY <1>1, <2>1
    <3>1. new \in Record
          BY <3>0 DEF Record
    <3>2. made' = [made EXCEPT ![req[r].rec] = new]
          BY <1>1, <1>h, <2>1 DEF CountTry
    <3> HIDE DEF new
    <3> QED BY <1>1, <2>1, <3>1, <3>2
  <2> QED BY <1>1, <1>4, <1>h, <2>2 DEF CountTry
<1>i. CASE SetVerified(r)
      BY <1>1, <1>3, <1>i DEF SetVerified
<1>j. CASE DeleteRecords(r)
  <2>1. \A i \in 1 .. Len(made) : [made[i] EXCEPT !.row = FALSE] \in Record
        BY <1>1 DEF Record
  <2>2. made' \in Seq(Record) /\ Len(made') = Len(made)
        BY <1>1, <1>j, <2>1 DEF DeleteRecords
  <2> QED BY <1>1, <1>4, <1>j, <2>2 DEF DeleteRecords
<1>k. CASE StatementFails(r)
  <2>1. faults' \in 0 .. MaxFaults
        BY <1>1, <1>k DEF StatementFails
  <2> QED BY <1>1, <1>3, <1>4, <1>5, <1>k, <2>1, MadeTyped DEF StatementFails
<1> QED BY <1>a, <1>b, <1>c, <1>d, <1>e, <1>f, <1>g, <1>h, <1>i, <1>j, <1>k DEF ServerStep

\* What the pages and the clock do to the server: requests begin, are answered
\* or lose their page, and those that run at once know of each other.
Around ==
    /\ UNCHANGED <<user, made, tries, faults>> /\ now' \in Nat /\ now <= now'
    /\ req' \in [Requests -> RequestState]
    /\ \A s \in Requests :
          \/ /\ req'[s].at = req[s].at /\ req'[s].rec = req[s].rec /\ req'[s].code = req[s].code
             /\ req'[s].alone => req[s].alone
          \/ ~Busy(s) /\ req'[s].at \in {"idle", "register", "resend"}
          \/ ~Busy(s) /\ req'[s].at = "verify" /\ req'[s].code \in Codes
    /\ \A s, q \in Requests :
          s # q /\ Busy(s)' /\ req'[s].alone /\ Busy(q)' => Busy(s) /\ req[s].alone /\ Busy(q)

\* A request that begins.
LEMMA BeginIsAround ==
    ASSUME EmailTypeOK, NEW r \in Requests, NEW form \in {"register", "verify", "resend"},
           NEW by \in {"page", "left", "other"}, NEW code \in Codes \cup {None},
           form = "verify" => code \in Codes, Begin(r, form, by, code)
    PROVE  Around
<1> DEFINE busy == {s \in Requests \ {r} : Busy(s)}
           New == [at |-> form, form |-> form, by |-> by, code |-> code, rec |-> 0,
                   alone |-> busy = {}, ok |-> FALSE]
           Old(s) == [req[s] EXCEPT !.alone = @ /\ s \notin busy]
<1>1. /\ req \in [Requests -> RequestState] /\ now \in Nat /\ Len(made) \in Nat
      /\ req[r].at = "idle" /\ UNCHANGED <<now, user, made, tries, faults>>
  <2>1. made \in Seq(Record)
        BY DEF EmailTypeOK, Record
  <2>2. Len(made) \in Nat
        BY <2>1
  <2> QED BY <2>2 DEF EmailTypeOK, Begin
<1>2. New \in RequestState /\ New.at = form /\ New.code = code /\ (New.alone => busy = {})
  <2>1. ASSUME NEW b \in BOOLEAN
        PROVE  [at |-> form, form |-> form, by |-> by, code |-> code, rec |-> 0,
                alone |-> b, ok |-> FALSE] \in RequestState
        BY <1>1 DEF RequestState
  <2>2. (busy = {}) \in BOOLEAN
        OBVIOUS
  <2> HIDE DEF busy
  <2> QED BY <2>1, <2>2
<1>3. ASSUME NEW s \in Requests
      PROVE  /\ Old(s) \in RequestState /\ Old(s).at = req[s].at /\ Old(s).rec = req[s].rec
             /\ Old(s).code = req[s].code /\ (Old(s).alone => req[s].alone /\ s \notin busy)
  <2>1. req[s] \in RequestState
        BY <1>1
  <2>2. (req[s].alone /\ s \notin busy) \in BOOLEAN
        OBVIOUS
  <2> HIDE DEF busy
  <2> QED BY <2>1, <2>2 DEF RequestState
<1>4. req' = [s \in Requests |-> IF s = r THEN New ELSE Old(s)]
      BY DEF Begin
<1> HIDE DEF New, Old
<1>5. req' \in [Requests -> RequestState]
      BY <1>2, <1>3, <1>4
<1>6. \A s \in Requests : req'[s] = IF s = r THEN New ELSE Old(s)
      BY <1>4
<1>7. ASSUME NEW s \in Requests
      PROVE  \/ /\ req'[s].at = req[s].at /\ req'[s].rec = req[s].rec
                /\ req'[s].code = req[s].code /\ (req'[s].alone => req[s].alone)
             \/ ~Busy(s) /\ req'[s].at \in {"idle", "register", "resend"}
             \/ ~Busy(s) /\ req'[s].at = "verify" /\ req'[s].code \in Codes
  <2>1. CASE s = r
        BY <1>1, <1>2, <1>6, <2>1 DEF Busy
  <2>2. CASE s # r
        BY <1>3, <1>6, <2>2
  <2> QED BY <2>1, <2>2
<1>8. ASSUME NEW s \in Requests, NEW q \in Requests, s # q,
             Busy(s)', req'[s].alone, Busy(q)'
      PROVE  Busy(s) /\ req[s].alone /\ Busy(q)
  <2>1. \A x \in Requests : x # r => (Busy(x)' <=> Busy(x))
        BY <1>3, <1>6 DEF Busy
  <2>2. CASE s = r
        BY <1>2, <1>6, <1>8, <2>1, <2>2
  <2>3. CASE s # r
        BY <1>3, <1>6, <1>8, <2>1, <2>3
  <2> QED BY <2>2, <2>3
<1> QED BY <1>1, <1>5, <1>7, <1>8 DEF Around

\* A request whose page is gone, a request that is over, and time that passes.
LEMMA OthersAround ==
    ASSUME EmailTypeOK, UNCHANGED <<user, made, tries, faults>>, now' \in Nat, now <= now',
           req' \in [Requests -> RequestState],
           \A s \in Requests :
              \/ req'[s].at = req[s].at /\ req'[s].rec = req[s].rec /\ req'[s].code = req[s].code
                 /\ req'[s].alone = req[s].alone
              \/ req[s].at = "answer" /\ req'[s].at = "idle"
    PROVE  Around
<1>1. \A s \in Requests : Busy(s)' => Busy(s) /\ req'[s].alone = req[s].alone
      BY DEF Busy
<1>2. \A s \in Requests :
          \/ req'[s].at = req[s].at /\ req'[s].rec = req[s].rec /\ req'[s].code = req[s].code
             /\ (req'[s].alone => req[s].alone)
          \/ ~Busy(s) /\ req'[s].at \in {"idle", "register", "resend"}
      BY DEF Busy
<1>3. \A s, q \in Requests :
          s # q /\ Busy(s)' /\ req'[s].alone /\ Busy(q)' => Busy(s) /\ req[s].alone /\ Busy(q)
      BY <1>1
<1> QED BY <1>2, <1>3 DEF Around

\* So does every step that is not one of the server's.
LEMMA PageStepAround ==
    ASSUME TypeOK, [Next]_vars,
           ~ \E r \in Requests : ServerStep(r) /\ UNCHANGED pageVars
    PROVE  Around
<1>1. /\ EmailTypeOK /\ req \in [Requests -> RequestState] /\ now \in Nat /\ Len(made) \in Nat
      /\ NoRequest \in RequestState /\ NoRequest.at = "idle"
      /\ boxes \in Codes \cup {None}
  <2>1. made \in Seq(Record) /\ TRUE \in BOOLEAN
        BY DEF TypeOK, EmailTypeOK, Record
  <2>2. NoRequest \in RequestState /\ NoRequest.at = "idle"
        BY <2>1 DEF NoRequest, RequestState
  <2> QED BY <2>1, <2>2 DEF TypeOK, EmailTypeOK
<1>2. ASSUME UNCHANGED <<now, user, made, tries, faults>>, req' \in [Requests -> RequestState],
             \A s \in Requests :
                \/ req'[s].at = req[s].at /\ req'[s].rec = req[s].rec /\ req'[s].code = req[s].code
                   /\ req'[s].alone = req[s].alone
                \/ req[s].at = "answer" /\ req'[s].at = "idle"
      PROVE  Around
  <2>1. now <= now' /\ now' \in Nat
        BY <1>1, <1>2
  <2> QED BY <1>1, <1>2, <2>1, OthersAround
<1>3. /\ Forgotten \in [Requests -> RequestState]
      /\ \A s \in Requests : /\ Forgotten[s].at = req[s].at /\ Forgotten[s].rec = req[s].rec
                             /\ Forgotten[s].code = req[s].code /\ Forgotten[s].alone = req[s].alone
  <2>1. ASSUME NEW q \in RequestState
        PROVE  LET Q == [q EXCEPT !.by = IF @ = "page" THEN "left" ELSE @]
               IN  /\ Q \in RequestState /\ Q.at = q.at /\ Q.rec = q.rec
                   /\ Q.code = q.code /\ Q.alone = q.alone
    <3>1. CASE q.by = "page"
          BY <3>1 DEF RequestState
    <3>2. CASE q.by # "page"
          BY <3>2 DEF RequestState
    <3> QED BY <3>1, <3>2
  <2> QED BY <1>1, <2>1 DEF Forgotten
<1>4. ASSUME NEW r \in Requests, req[r].at = "answer",
             \/ req' = [req EXCEPT ![r] = NoRequest] \/ req' = [Forgotten EXCEPT ![r] = NoRequest],
             UNCHANGED <<now, user, made, tries, faults>>
      PROVE  Around
      BY <1>1, <1>2, <1>3, <1>4
<1>5. ASSUME req' = Forgotten, UNCHANGED <<now, user, made, tries, faults>>  PROVE Around
      BY <1>2, <1>3, <1>5
<1>6. CASE UNCHANGED vars
      BY <1>1, <1>2, <1>6 DEF vars, emailVars
<1>7. ASSUME NEW r \in Requests, Register(r) \/ Verify(r) \/ Resend(r)  PROVE Around
  <2>1. "page" \in {"page", "left", "other"} /\ None \in Codes \cup {None}
        OBVIOUS
  <2> QED BY <1>1, <1>7, <2>1, BeginIsAround DEF Register, Verify, Resend, Submit
<1>8. ASSUME NEW r \in Requests, Other(r)  PROVE Around
  <2>1. "other" \in {"page", "left", "other"} /\ None \in Codes \cup {None}
        OBVIOUS
  <2> QED BY <1>1, <1>8, <2>1, BeginIsAround DEF Other
<1>9. ASSUME NEW r \in Requests, Accepted(r) \/ Resent(r) \/ Refused(r) \/ Ignored(r)
      PROVE  Around
      BY <1>4, <1>9 DEF Accepted, Navigate, Resent, Refused, Ignored, Finish
<1>10. ASSUME NEW r \in Requests, Lost(r)  PROVE Around
  <2>1. CASE req[r].at = "answer"
        BY <1>1, <1>4, <1>10, <2>1 DEF Lost
  <2>2. CASE req[r].at # "answer"
    <3> DEFINE R == [req[r] EXCEPT !.by = "other"]
    <3>1. /\ R \in RequestState /\ R.at = req[r].at /\ R.rec = req[r].rec
          /\ R.code = req[r].code /\ R.alone = req[r].alone
          BY <1>1 DEF RequestState
    <3>2. req' = [req EXCEPT ![r] = R] /\ UNCHANGED <<now, user, made, tries, faults>>
          BY <1>10, <2>2 DEF Lost
    <3> HIDE DEF R
    <3> QED BY <1>1, <1>2, <3>1, <3>2
  <2> QED BY <2>1, <2>2
<1>11. CASE LoginUnverified \/ BackToRegister \/ ToLogin
      BY <1>5, <1>11 DEF LoginUnverified, BackToRegister, ToLogin, Visit
<1>12. CASE Tick
      BY <1>1, <1>12, OthersAround DEF Tick
<1>13. ASSUME NEW code \in Codes \cup {None}, Type(code)  PROVE Around
      BY <1>1, <1>2, <1>13 DEF Type, emailVars
<1> QED BY <1>6, <1>7, <1>8, <1>9, <1>10, <1>11, <1>12, <1>13 DEF Next

-----------------------------------------------------------------------------
(* Steps on the records.                                                   *)

\* The facts about the tables that the steps below rest on.
LEMMA TablesTyped ==
    ASSUME EmailTypeOK
    PROVE  /\ made \in Seq(Record) /\ Len(made) \in Nat /\ DOMAIN made = 1 .. Len(made)
           /\ \A i \in 1 .. Len(made) : made[i] \in Record /\ made[i].created \in Nat
                                        /\ made[i].attempts \in Nat /\ made[i].row \in BOOLEAN
           /\ tries \in Seq(Nat) /\ Len(tries) = Len(made) /\ DOMAIN tries = 1 .. Len(made)
           /\ \A i \in 1 .. Len(made) : tries[i] \in Nat
           /\ req \in [Requests -> RequestState]
           /\ \A r \in Requests : req[r].at \in {"save", "wrong"} => req[r].rec \in 1 .. Len(made)
           /\ now \in Nat /\ faults \in Nat
<1>1. made \in Seq(Record) /\ tries \in Seq(Nat) /\ Len(tries) = Len(made)
      BY DEF EmailTypeOK, Record
<1>2. /\ Len(made) \in Nat /\ DOMAIN made = 1 .. Len(made) /\ DOMAIN tries = 1 .. Len(made)
      /\ \A i \in 1 .. Len(made) : made[i] \in Record /\ tries[i] \in Nat
      BY <1>1
<1>3. req \in [Requests -> RequestState] /\ now \in Nat /\ faults \in Nat
      BY EmailAssumption DEF EmailTypeOK
<1>4. \A r \in Requests : req[r].at \in {"save", "wrong"} => req[r].rec \in 1 .. Len(made)
      BY <1>2, <1>3 DEF EmailTypeOK, RequestState
<1>5. \A i \in 1 .. Len(made) :
          made[i].created \in Nat /\ made[i].attempts \in Nat /\ made[i].row \in BOOLEAN
      BY <1>2 DEF Record
<1> QED BY <1>1, <1>2, <1>3, <1>4, <1>5

\* What a step of a request may do to the records there are: it adds one at most.
Kept(i) == made'[i].created = made[i].created /\ made'[i].attempts = made[i].attempts
Added == /\ Len(made') = Len(made) + 1 /\ tries' = Append(tries, 0)
         /\ made'[Len(made) + 1].created = now /\ made'[Len(made) + 1].attempts = 0
         /\ \A i \in 1 .. Len(made) : Kept(i)

\* A record is added by sendOTP, whether its DELETE failed or not.
LEMMA SendAdds ==
    ASSUME EmailTypeOK, NEW r \in Requests, req[r].at = "send",
           DeleteOld(r) \/ StatementFails(r)
    PROVE  /\ Added /\ \A s \in Requests : s # r => req'[s] = req[s]
           /\ req'[r].at = "save" /\ req'[r].rec = Len(made) + 1
           /\ req'[r].alone = req[r].alone /\ UNCHANGED <<now, user>>
           /\ faults' \in Nat /\ faults <= faults' /\ (faults' = faults <=> DeleteOld(r))
<1>1. ASSUME NEW old \in Seq(Record), Len(old) = Len(made), NEW code \in Codes,
             \A i \in 1 .. Len(made) : /\ old[i].created = made[i].created
                                       /\ old[i].attempts = made[i].attempts,
             made' = Append(old, [code |-> code, created |-> now, attempts |-> 0,
                                  row |-> FALSE]),
             tries' = Append(tries, 0)
      PROVE  Added
  <2>1. Len(made) \in Nat
        BY TablesTyped
  <2> QED BY <1>1, <2>1 DEF Added, Kept
<1>2. CASE DeleteOld(r)
  <2> DEFINE old == [i \in DOMAIN made |-> [made[i] EXCEPT !.row = FALSE]]
  <2>1. PICK code \in Codes :
            made' = Append(old, [code |-> code, created |-> now, attempts |-> 0, row |-> FALSE])
        BY <1>2 DEF DeleteOld
  <2>2. \A i \in 1 .. Len(made) : /\ [made[i] EXCEPT !.row = FALSE] \in Record
                                  /\ [made[i] EXCEPT !.row = FALSE].created = made[i].created
                                  /\ [made[i] EXCEPT !.row = FALSE].attempts = made[i].attempts
        BY TablesTyped DEF Record
  <2>3. /\ old \in Seq(Record) /\ Len(old) = Len(made)
        /\ \A i \in 1 .. Len(made) : /\ old[i].created = made[i].created
                                     /\ old[i].attempts = made[i].attempts
        BY <2>2, TablesTyped
  <2> HIDE DEF old
  <2>4. /\ tries' = Append(tries, 0) /\ UNCHANGED <<now, user, faults>>
        /\ req' = [req EXCEPT ![r].at = "save", ![r].rec = Len(made) + 1]
        BY <1>2 DEF DeleteOld
  <2>5. Added
        BY <1>1, <2>1, <2>3, <2>4
  <2>6. /\ \A s \in Requests : s # r => req'[s] = req[s]
        /\ req'[r].at = "save" /\ req'[r].rec = Len(made) + 1 /\ req'[r].alone = req[r].alone
        BY <2>4, TablesTyped DEF RequestState
  <2> QED BY <1>2, <2>4, <2>5, <2>6, TablesTyped
<1>3. CASE StatementFails(r)
  <2>1. /\ \E code \in Codes :
              made' = Append(made, [code |-> code, created |-> now, attempts |-> 0,
                                    row |-> FALSE])
        /\ tries' = Append(tries, 0) /\ UNCHANGED <<now, user>> /\ faults' = faults + 1
        /\ req' = [req EXCEPT ![r].at = "save", ![r].rec = Len(made) + 1]
        BY <1>3 DEF StatementFails
  <2>2. Added
        BY <1>1, <2>1, TablesTyped
  <2>3. /\ \A s \in Requests : s # r => req'[s] = req[s]
        /\ req'[r].at = "save" /\ req'[r].rec = Len(made) + 1 /\ req'[r].alone = req[r].alone
        BY <2>1, TablesTyped DEF RequestState
  <2>4. faults' \in Nat /\ faults <= faults' /\ faults' # faults
        BY <2>1, TablesTyped
  <2>5. ~DeleteOld(r)
        BY <2>4 DEF DeleteOld
  <2> QED BY <2>1, <2>2, <2>3, <2>4, <2>5
<1> QED BY <1>2, <1>3

\* The other steps of a request, by what they do to the records.
LEMMA OtherStatements ==
    ASSUME EmailTypeOK, NEW r \in Requests, ServerStep(r), req[r].at # "send"
    PROVE  /\ \A s \in Requests : s # r => req'[s] = req[s]
           /\ Len(made') = Len(made) /\ UNCHANGED now
           /\ \A i \in 1 .. Len(made) : made'[i].created = made[i].created
           /\ faults' \in Nat /\ faults <= faults' /\ req'[r].at # "save"
           /\ Busy(r) /\ (Busy(r)' => req'[r].alone = req[r].alone)
<1>1. /\ req \in [Requests -> RequestState] /\ made \in Seq(Record) /\ faults \in Nat
      /\ Len(made) \in Nat /\ faults <= faults /\ faults <= faults + 1
      /\ TRUE \in BOOLEAN /\ FALSE \in BOOLEAN /\ Len(made) <= Len(made)
      BY TablesTyped
<1>2. ASSUME NEW at \in {"saveUser", "send", "cooldown", "cleanup"}, Goto(r, at),
             UNCHANGED <<now, made>>, faults' \in {faults, faults + 1}, Busy(r)
      PROVE  /\ \A s \in Requests : s # r => req'[s] = req[s]
             /\ Len(made') = Len(made) /\ UNCHANGED now
             /\ \A i \in 1 .. Len(made) : made'[i].created = made[i].created
             /\ faults' \in Nat /\ faults <= faults' /\ req'[r].at # "save"
             /\ Busy(r) /\ (Busy(r)' => req'[r].alone = req[r].alone)
  <2>1. /\ \A s \in Requests : s # r => req'[s] = req[s]
        /\ req'[r].at # "save" /\ req'[r].alone = req[r].alone
        BY <1>1, <1>2, GotoTyped
  <2>2. /\ Len(made') = Len(made) /\ \A i \in 1 .. Len(made) : made'[i].created = made[i].created
        /\ faults' \in Nat /\ faults <= faults'
        BY <1>1, <1>2
  <2> QED BY <1>2, <2>1, <2>2
<1>3. ASSUME NEW ok \in BOOLEAN, Answer(r, ok), made' \in Seq(Record), Len(made') = Len(made),
             \A i \in 1 .. Len(made) : made'[i].created = made[i].created,
             UNCHANGED now, faults' \in {faults, faults + 1}, Busy(r)
      PROVE  /\ \A s \in Requests : s # r => req'[s] = req[s]
             /\ Len(made') = Len(made) /\ UNCHANGED now
             /\ \A i \in 1 .. Len(made) : made'[i].created = made[i].created
             /\ faults' \in Nat /\ faults <= faults' /\ req'[r].at # "save"
             /\ Busy(r) /\ (Busy(r)' => req'[r].alone = req[r].alone)
  <2>1. req'[r].at \in {"idle", "answer"} /\ \A s \in Requests : s # r => req'[s] = req[s]
        BY <1>1, <1>3, AnswerTyped
  <2>2. ~Busy(r)'
        BY <2>1 DEF Busy
  <2> QED BY <1>1, <1>3, <2>1, <2>2
<1>a. CASE CheckExists(r)  BY <1>1, <1>2, <1>3, <1>a DEF CheckExists, Busy
<1>b. CASE SaveUser(r)  BY <1>1, <1>2, <1>3, <1>b DEF SaveUser, Busy
<1>d. CASE SaveRecord(r)
  <2>1. req[r].rec \in 1 .. Len(made) /\ Busy(r)
        BY <1>d, TablesTyped DEF SaveRecord, Busy
  <2>2. ASSUME NEW i \in 1 .. Len(made)
        PROVE  [made[i] EXCEPT !.row = TRUE] \in Record
               /\ [made[i] EXCEPT !.row = TRUE].created = made[i].created
        BY TablesTyped DEF Record
  <2>3. made' = [made EXCEPT ![req[r].rec] = [made[req[r].rec] EXCEPT !.row = TRUE]]
        BY <1>1, <1>d, <2>1 DEF SaveRecord
  <2>4. /\ made' \in Seq(Record) /\ Len(made') = Len(made)
        /\ \A i \in 1 .. Len(made) : made'[i].created = made[i].created
        BY <1>1, <2>1, <2>2, <2>3
  <2> QED BY <1>1, <1>3, <1>d, <2>1, <2>4 DEF SaveRecord
<1>e. CASE CheckUser(r)  BY <1>1, <1>2, <1>3, <1>e DEF CheckUser, Busy
<1>f. CASE CheckCooldown(r)  BY <1>1, <1>2, <1>3, <1>f DEF CheckCooldown, Busy
<1>g. CASE Compare(r)
  <2>1. Busy(r) /\ UNCHANGED <<now, made, faults>>
        BY <1>g DEF Compare, Busy
  <2>2. CASE Answer(r, FALSE)
        BY <1>1, <1>3, <2>1, <2>2
  <2>3. ASSUME NEW at \in {"right", "wrong"}, NEW i \in 0 .. Len(made), Judge(r, at, i)
        PROVE  /\ \A s \in Requests : s # r => req'[s] = req[s]
               /\ req'[r].at # "save" /\ req'[r].alone = req[r].alone
        BY <1>1, <2>1, <2>3, JudgeTyped
  <2>4. Newest \in 0 .. Len(made) /\ 0 \in 0 .. Len(made)
        BY <1>1, NewestInTable
  <2> QED BY <1>1, <1>g, <2>1, <2>2, <2>3, <2>4 DEF Compare, Usable
<1>h. CASE CountTry(r)
  <2>1. req[r].rec \in 1 .. Len(made) /\ Busy(r)
        BY <1>h, TablesTyped DEF CountTry, Busy
  <2>2. ASSUME NEW i \in 1 .. Len(made)
        PROVE  [made[i] EXCEPT !.attempts = @ + 1] \in Record
               /\ [made[i] EXCEPT !.attempts = @ + 1].created = made[i].created
    <3>1. made[i] \in Record
          BY TablesTyped
    <3> QED BY <3>1 DEF Record
  <2>3. made' = [made EXCEPT ![req[r].rec] = [made[req[r].rec] EXCEPT !.attempts = @ + 1]]
        BY <1>1, <1>h, <2>1 DEF CountTry
  <2>4. /\ made' \in Seq(Record) /\ Len(made') = Len(made)
        /\ \A i \in 1 .. Len(made) : made'[i].created = made[i].created
        BY <1>1, <2>1, <2>2, <2>3
  <2> QED BY <1>1, <1>3, <1>h, <2>1, <2>4 DEF CountTry
<1>i. CASE SetVerified(r)  BY <1>1, <1>2, <1>i DEF SetVerified, Busy
<1>j. CASE DeleteRecords(r)
  <2>1. \A i \in 1 .. Len(made) : /\ [made[i] EXCEPT !.row = FALSE] \in Record
                                  /\ [made[i] EXCEPT !.row = FALSE].created = made[i].created
        BY TablesTyped DEF Record
  <2>2. made' = [i \in 1 .. Len(made) |-> [made[i] EXCEPT !.row = FALSE]] /\ Busy(r)
        BY <1>j, TablesTyped DEF DeleteRecords, Busy
  <2>3. /\ made' \in Seq(Record) /\ Len(made') = Len(made)
        /\ \A i \in 1 .. Len(made) : made'[i].created = made[i].created
    <3> DEFINE new(i) == [made[i] EXCEPT !.row = FALSE]
    <3>1. /\ made' = [i \in 1 .. Len(made) |-> new(i)]
          /\ \A i \in 1 .. Len(made) : new(i) \in Record /\ new(i).created = made[i].created
          BY <2>1, <2>2
    <3> HIDE DEF new
    <3> QED BY <1>1, <3>1
  <2> QED BY <1>1, <1>3, <1>j, <2>2, <2>3 DEF DeleteRecords
<1>k. CASE StatementFails(r)
      BY <1>1, <1>2, <1>3, <1>k DEF StatementFails
<1> QED BY <1>a, <1>b, <1>d, <1>e, <1>f, <1>g, <1>h, <1>i, <1>j, <1>k DEF ServerStep, DeleteOld

-----------------------------------------------------------------------------
(* Type correctness.                                                       *)

\* A step around the server leaves its tables and requests well typed.
LEMMA AroundTyped == EmailTypeOK /\ Around => EmailTypeOK'
<1> SUFFICES ASSUME EmailTypeOK, Around  PROVE EmailTypeOK'
    OBVIOUS
<1>1. RequestState' = RequestState
      BY DEF RequestState, Around
<1>2. ASSUME NEW s \in Requests
      PROVE  /\ req'[s].at \in {"save", "wrong"} => req'[s].rec # 0
             /\ req'[s].at = "verify" => req'[s].code \in Codes
      BY DEF EmailTypeOK, Around
<1> QED BY <1>1, <1>2 DEF EmailTypeOK, Around

\* A page that is opened is well typed.
LEMMA OpenTyped ==
    ASSUME EmailTypeOK, NEW to \in {"register", "verify", "login"}, Open(to), made' \in Seq(Record)
    PROVE  /\ page' \in {"register", "verify", "login"} /\ boxes' \in Codes \cup {None}
           /\ waiting' \subseteq {"register", "verify", "resend"}
           /\ countdown' \in 0 .. Cooldown /\ resent' \in 0 .. Len(made')
<1>1. Len(made') \in Nat /\ Cooldown \in Nat
      BY EmailAssumption
<1> QED BY <1>1 DEF Open

\* TypeOK is an invariant (EmailVerification.tla and VerifyPage.tla).
THEOREM TypeCorrect == Spec => []TypeOK
<1>1. Init => TypeOK
  <2> SUFFICES ASSUME Init  PROVE TypeOK
      OBVIOUS
  <2>1. /\ made = <<>> /\ tries = <<>> /\ Len(made) = 0 /\ Len(tries) = 0
        /\ made \in Seq(Record) /\ tries \in Seq(Nat)
        BY DEF Init, EmailInit
  <2>2. NoRequest \in RequestState /\ NoRequest.at = "idle"
        BY <2>1 DEF NoRequest, RequestState
  <2>3. EmailTypeOK
        BY <2>1, <2>2, EmailAssumption DEF Init, EmailInit, EmailTypeOK, Record
  <2> QED BY <2>1, <2>3, EmailAssumption DEF Init, TypeOK
<1>2. TypeOK /\ [Next]_vars => TypeOK'
  <2> SUFFICES ASSUME TypeOK, [Next]_vars  PROVE TypeOK'
      OBVIOUS
  <2> DEFINE PageTyped == /\ page' \in {"register", "verify", "login"}
                          /\ boxes' \in Codes \cup {None}
                          /\ waiting' \subseteq {"register", "verify", "resend"}
                          /\ countdown' \in 0 .. Cooldown /\ resent' \in 0 .. Len(made')
  <2>1. /\ EmailTypeOK /\ made \in Seq(Record) /\ Len(made) \in Nat /\ Cooldown \in Nat
        /\ page \in {"register", "verify", "login"} /\ boxes \in Codes \cup {None}
        /\ waiting \subseteq {"register", "verify", "resend"}
        /\ countdown \in 0 .. Cooldown /\ resent \in 0 .. Len(made)
        /\ req \in [Requests -> RequestState]
        BY EmailAssumption, TablesTyped DEF TypeOK
  <2>2. CASE \E r \in Requests : ServerStep(r) /\ UNCHANGED pageVars
    <3>1. PICK r \in Requests : ServerStep(r) /\ UNCHANGED pageVars
          BY <2>2
    <3>2. EmailTypeOK'
          BY <2>1, <3>1, ServerTyped
    <3>3. Len(made') \in Nat /\ Len(made) <= Len(made')
      <4>1. CASE req[r].at = "send"
        <5>1. DeleteOld(r) \/ StatementFails(r)
              BY <3>1, <4>1 DEF ServerStep, CheckExists, SaveUser, SaveRecord, CheckUser,
                  CheckCooldown, Compare, Usable, CountTry, SetVerified, DeleteRecords
        <5> QED BY <2>1, <4>1, <5>1, SendAdds DEF Added
      <4>2. CASE req[r].at # "send"
            BY <2>1, <3>1, <4>2, OtherStatements
      <4> QED BY <4>1, <4>2
    <3> QED BY <2>1, <3>1, <3>2, <3>3 DEF TypeOK, pageVars
  <2>3. CASE ~ \E r \in Requests : ServerStep(r) /\ UNCHANGED pageVars
    <3>1. Around
          BY <2>3, PageStepAround
    <3>2. EmailTypeOK' /\ made' \in Seq(Record) /\ Len(made') = Len(made)
          BY <2>1, <3>1, AroundTyped DEF Around
    <3> SUFFICES PageTyped
        BY <3>2 DEF TypeOK
    <3>3. ASSUME UNCHANGED pageVars  PROVE PageTyped
          BY <2>1, <3>2, <3>3 DEF pageVars
    <3>4. ASSUME NEW to \in {"register", "verify", "login"}, Open(to)  PROVE PageTyped
          BY <2>1, <3>2, <3>4, OpenTyped
    <3>5. CASE UNCHANGED vars
          BY <3>3, <3>5 DEF vars
    <3>6. ASSUME NEW r \in Requests, Register(r) \/ Verify(r) \/ Resend(r)  PROVE PageTyped
      <4>1. /\ waiting' \subseteq {"register", "verify", "resend"}
            /\ UNCHANGED <<page, boxes, countdown, resent>>
            BY <2>1, <3>6 DEF Register, Verify, Resend, Submit
      <4> QED BY <2>1, <3>2, <4>1
    <3>7. ASSUME NEW r \in Requests, Accepted(r) \/ Resent(r) \/ Refused(r) \/ Lost(r)
          PROVE  PageTyped
      <4>1. CASE Accepted(r)
            BY <3>3, <3>4, <4>1 DEF Accepted, Navigate
      <4>2. CASE Resent(r)
        <5>1. req[r].rec \in 0 .. Len(made)
              BY <2>1 DEF RequestState
        <5> QED BY <2>1, <3>2, <4>2, <5>1 DEF Resent
      <4>3. CASE Refused(r) \/ Lost(r)
        <5>1. /\ waiting' \subseteq waiting /\ boxes' \in {boxes, None}
              /\ UNCHANGED <<page, countdown, resent>>
              BY <4>3 DEF Refused, Lost
        <5> QED BY <2>1, <3>2, <5>1
      <4> QED BY <3>7, <4>1, <4>2, <4>3
    <3>8. ASSUME NEW r \in Requests, Ignored(r) \/ Other(r)  PROVE PageTyped
          BY <3>3, <3>8 DEF Ignored, Other
    <3>9. CASE LoginUnverified \/ BackToRegister \/ ToLogin
          BY <3>4, <3>9 DEF LoginUnverified, BackToRegister, ToLogin, Visit
    <3>10. CASE Tick
      <4>1. countdown' = countdown \/ (countdown > 0 /\ countdown' = countdown - 1)
            BY <3>10 DEF Tick, CountsDown
      <4>2. countdown' \in 0 .. Cooldown
            BY <2>1, <4>1
      <4> QED BY <2>1, <3>2, <3>10, <4>2 DEF Tick
    <3>11. ASSUME NEW code \in Codes \cup {None}, Type(code)  PROVE PageTyped
          BY <2>1, <3>2, <3>11 DEF Type
    <3> QED BY <2>3, <3>5, <3>6, <3>7, <3>8, <3>9, <3>10, <3>11 DEF Next
  <2> QED BY <2>2, <2>3
<1> QED BY <1>1, <1>2, PTL DEF Spec

-----------------------------------------------------------------------------
(* The countdown of the page.                                              *)

\* The step is one of the server's or happens around it; what it sends is new.
LEMMA Steps ==
    ASSUME TypeOK, [Next]_vars
    PROVE  \/ Around
           \/ \E r \in Requests :
                 /\ req[r].at = "send" /\ (DeleteOld(r) \/ StatementFails(r))
                 /\ ServerStep(r) /\ UNCHANGED pageVars
           \/ \E r \in Requests : req[r].at # "send" /\ ServerStep(r) /\ UNCHANGED pageVars
<1>1. ASSUME NEW r \in Requests, ServerStep(r), req[r].at = "send"
      PROVE  DeleteOld(r) \/ StatementFails(r)
      BY <1>1 DEF ServerStep, CheckExists, SaveUser, SaveRecord, CheckUser,
          CheckCooldown, Compare, Usable, CountTry, SetVerified, DeleteRecords
<1> QED BY <1>1, PageStepAround

\* The records are as old as their order says, and none comes from the future.
InOrder == \A i, j \in 1 .. Len(made) :
              i <= j => made[i].created <= made[j].created /\ made[j].created <= now

LEMMA InOrderInitially == Init => InOrder
BY DEF Init, EmailInit, InOrder

LEMMA InOrderKept == TypeOK /\ InOrder /\ [Next]_vars => InOrder'
<1> SUFFICES ASSUME TypeOK, InOrder, [Next]_vars  PROVE InOrder'
    OBVIOUS
<1>1. /\ EmailTypeOK /\ now \in Nat /\ Len(made) \in Nat
      /\ \A i \in 1 .. Len(made) : made[i].created \in Nat
      BY TablesTyped DEF TypeOK
<1>2. CASE Around
  <2>1. made' = made /\ now' \in Nat /\ now <= now'
        BY <1>2 DEF Around
  <2>2. ASSUME NEW i \in 1 .. Len(made), NEW j \in 1 .. Len(made), i <= j
        PROVE  made[i].created <= made[j].created /\ made[j].created <= now'
        BY <1>1, <2>1, <2>2 DEF InOrder
  <2> QED BY <2>1, <2>2 DEF InOrder
<1>3. ASSUME NEW r \in Requests, req[r].at = "send", DeleteOld(r) \/ StatementFails(r)
      PROVE  InOrder'
  <2>1. Added /\ now' = now
        BY <1>1, <1>3, SendAdds
  <2>2. /\ Len(made') = Len(made) + 1 /\ made'[Len(made) + 1].created = now
        /\ \A i \in 1 .. Len(made) : made'[i].created = made[i].created
        BY <2>1 DEF Added, Kept
  <2>3. ASSUME NEW i \in 1 .. Len(made'), NEW j \in 1 .. Len(made'), i <= j
        PROVE  made'[i].created <= made'[j].created /\ made'[j].created <= now'
    <3>1. CASE j = Len(made) + 1
      <4>1. i = Len(made) + 1 \/ i \in 1 .. Len(made)
            BY <1>1, <2>2
      <4>2. \A k \in 1 .. Len(made) : made[k].created <= now
            BY <1>1 DEF InOrder
      <4> QED BY <1>1, <2>1, <2>2, <3>1, <4>1, <4>2
    <3>2. CASE j # Len(made) + 1
      <4>1. i \in 1 .. Len(made) /\ j \in 1 .. Len(made)
            BY <1>1, <2>2, <2>3, <3>2
      <4> QED BY <2>1, <2>2, <2>3, <4>1 DEF InOrder
    <3> QED BY <3>1, <3>2
  <2> QED BY <2>3 DEF InOrder
<1>4. ASSUME NEW r \in Requests, req[r].at # "send", ServerStep(r)  PROVE InOrder'
  <2>1. /\ Len(made') = Len(made) /\ now' = now
        /\ \A i \in 1 .. Len(made) : made'[i].created = made[i].created
        BY <1>1, <1>4, OtherStatements
  <2> QED BY <2>1 DEF InOrder
<1> QED BY <1>2, <1>3, <1>4, Steps

\* What the countdown still has to cover, wherever the tab is.
Covers == resent # 0 => now + countdown >= made[resent].created + Cooldown

LEMMA CoversKept == TypeOK /\ TypeOK' /\ InOrder /\ Covers /\ [Next]_vars => Covers'
<1> SUFFICES ASSUME TypeOK, TypeOK', InOrder, Covers, [Next]_vars  PROVE Covers'
    OBVIOUS
<1>1. /\ EmailTypeOK /\ now \in Nat /\ Len(made) \in Nat /\ Cooldown \in Nat
      /\ \A i \in 1 .. Len(made) : made[i].created \in Nat
      /\ countdown \in Nat /\ resent \in 0 .. Len(made) /\ req \in [Requests -> RequestState]
      BY TablesTyped, EmailAssumption DEF TypeOK
<1>2. ASSUME UNCHANGED <<countdown, resent, now>>, Len(made) <= Len(made'),
             \A i \in 1 .. Len(made) : made'[i].created = made[i].created
      PROVE  Covers'
      BY <1>1, <1>2 DEF Covers
<1>3. CASE \E r \in Requests : ServerStep(r) /\ UNCHANGED pageVars
  <2>1. PICK r \in Requests : ServerStep(r) /\ UNCHANGED pageVars
        BY <1>3
  <2>2. /\ now' = now /\ Len(made) <= Len(made')
        /\ \A i \in 1 .. Len(made) : made'[i].created = made[i].created
    <3>1. CASE req[r].at = "send"
      <4>1. DeleteOld(r) \/ StatementFails(r)
            BY <2>1, <3>1 DEF ServerStep, CheckExists, SaveUser, SaveRecord, CheckUser,
                CheckCooldown, Compare, Usable, CountTry, SetVerified, DeleteRecords
      <4> QED BY <1>1, <3>1, <4>1, SendAdds DEF Added, Kept
    <3>2. CASE req[r].at # "send"
          BY <1>1, <2>1, <3>2, OtherStatements
    <3> QED BY <3>1, <3>2
  <2> QED BY <1>2, <2>1, <2>2 DEF pageVars
<1>4. CASE ~ \E r \in Requests : ServerStep(r) /\ UNCHANGED pageVars
  <2>1. UNCHANGED made /\ Len(made) <= Len(made)
        BY <1>1, <1>4, PageStepAround DEF Around
  <2>2. ASSUME NEW to, Open(to)  PROVE Covers'
        BY <2>2 DEF Open, Covers
  <2>3. ASSUME UNCHANGED <<countdown, resent, now>>  PROVE Covers'
        BY <1>2, <2>1, <2>3
  <2>4. ASSUME NEW r \in Requests, Resent(r)  PROVE Covers'
    <3>1. resent' = req[r].rec /\ countdown' = Cooldown /\ now' = now
          BY <2>4 DEF Resent, Finish
    <3>2. req[r].rec \in 0 .. Len(made)
          BY <1>1 DEF RequestState
    <3>3. ASSUME req[r].rec # 0  PROVE made[req[r].rec].created <= now
          BY <1>1, <3>2, <3>3 DEF InOrder
    <3> QED BY <1>1, <2>1, <3>1, <3>2, <3>3 DEF Covers
  <2>5. CASE Tick
    <3>1. /\ now' = now + 1 /\ resent' = resent
          /\ countdown' = countdown \/ countdown' = countdown - 1
          BY <2>5 DEF Tick, CountsDown
    <3> QED BY <1>1, <2>1, <3>1 DEF Covers
  <2>6. ASSUME NEW r \in Requests,
               \/ Register(r) \/ Verify(r) \/ Resend(r) \/ Other(r)
               \/ Refused(r) \/ Lost(r) \/ Ignored(r)
        PROVE  Covers'
        BY <2>3, <2>6 DEF Register, Verify, Resend, Submit, Begin, Other, Refused, Lost, Ignored,
            Finish, pageVars
  <2>7. ASSUME NEW r \in Requests, Accepted(r)  PROVE Covers'
        BY <2>2, <2>3, <2>7 DEF Accepted, Navigate, pageVars
  <2>8. CASE LoginUnverified \/ BackToRegister \/ ToLogin
        BY <2>2, <2>8 DEF LoginUnverified, BackToRegister, ToLogin, Visit
  <2>9. ASSUME NEW code \in Codes \cup {None}, Type(code)  PROVE Covers'
        BY <2>3, <2>9 DEF Type, emailVars
  <2>10. CASE UNCHANGED vars
        BY <2>3, <2>10 DEF vars, emailVars, pageVars
  <2> QED BY <1>4, <2>4, <2>5, <2>6, <2>7, <2>8, <2>9, <2>10 DEF Next
<1> QED BY <1>3, <1>4

\* When the button is offered again, the server's cooldown is over, for every
\* cooldown and every delay of the answer (verify-otp/page.tsx 30-34, 93-98).
THEOREM CountdownIsLongEnough == Spec => []CountdownCovers
<1>1. Init => Covers
      BY DEF Init, Covers
<1>2. Covers => CountdownCovers
      BY DEF Covers, CountdownCovers
<1> QED BY <1>1, <1>2, TypeCorrect, InOrderInitially, InOrderKept, CoversKept, PTL DEF Spec

-----------------------------------------------------------------------------
(* The limit of attempts.                                                  *)

\* The requests that have compared a wrong code with a record and not counted it.
Pending(i) == {r \in Requests : req[r].at = "wrong" /\ req[r].rec = i}

\* A try was counted, is about to be, or its count failed.
Counted(i) == /\ tries[i] <= made[i].attempts + Cardinality(Pending(i)) + faults
              /\ tries[i] <= MaxAttempts + (Cardinality(Requests) - 1) + faults
AllCounted == \A i \in 1 .. Len(made) : Counted(i)

\* Cardinalities of the sets of requests that are not all.
LEMMA PendingFinite ==
    /\ Cardinality(Requests) \in Nat /\ Cardinality(Requests) >= 1
    /\ \A i : IsFiniteSet(Pending(i)) /\ Cardinality(Pending(i)) \in Nat
    /\ \A i : \A r \in Requests \ Pending(i) : Cardinality(Pending(i)) <= Cardinality(Requests) - 1
<1>1. IsFiniteSet(Requests) /\ Requests # {} /\ Cardinality(Requests) \in Nat
      BY EmailAssumption, FS_CardinalityType
<1>2. Cardinality(Requests) >= 1
      BY <1>1, FS_EmptySet
<1>3. ASSUME NEW i  PROVE IsFiniteSet(Pending(i)) /\ Cardinality(Pending(i)) \in Nat
  <2>1. Pending(i) \in SUBSET Requests
        BY DEF Pending
  <2> QED BY <1>1, <2>1, FS_Subset, FS_CardinalityType
<1>4. ASSUME NEW i, NEW r \in Requests \ Pending(i)
      PROVE  Cardinality(Pending(i)) <= Cardinality(Requests) - 1
  <2>1. Pending(i) \in SUBSET (Requests \ {r})
        BY DEF Pending
  <2>2. IsFiniteSet(Requests \ {r}) /\ Cardinality(Requests \ {r}) = Cardinality(Requests) - 1
        BY <1>1, FS_RemoveElement
  <2> QED BY <2>1, <2>2, FS_Subset
<1> QED BY <1>1, <1>2, <1>3, <1>4

\* More faults excuse what fewer did; a try under way is counted or lost.
LEMMA MoreFaults ==
    ASSUME NEW t \in Nat, NEW a \in Int, NEW c \in Int, NEW f \in Nat, NEW g \in Nat,
           t <= a + c + f, f <= g
    PROVE  t <= a + c + g
OBVIOUS

LEMMA OneMoreTry ==
    ASSUME NEW t \in Nat, NEW a \in Nat, NEW c \in Nat, NEW f \in Nat, NEW k \in Nat, NEW m \in Nat,
           t <= a + c + f, a < m, c <= k - 1
    PROVE  t + 1 <= a + (c + 1) + f /\ t + 1 <= m + (k - 1) + f
OBVIOUS

LEMMA OneLessPending ==
    ASSUME NEW t \in Nat, NEW a \in Nat, NEW b \in Nat, NEW c \in Nat, NEW f \in Nat, NEW g \in Nat,
           t <= a + c + f, b + g = a + f + 1
    PROVE  t <= b + (c - 1) + g
OBVIOUS

\* A record whose tries and attempts stay keeps its count, whatever a request
\* that has nothing to count does.
LEMMA StaysCounted ==
    ASSUME EmailTypeOK, NEW i \in 1 .. Len(made), Counted(i),
           tries'[i] = tries[i], made'[i].attempts = made[i].attempts,
           faults' \in Nat, faults <= faults', Pending(i)' = Pending(i)
    PROVE  Counted(i)'
<1>1. tries[i] \in Nat /\ made[i].attempts \in Nat /\ faults \in Nat
      BY TablesTyped
<1>2. Cardinality(Pending(i)) \in Nat /\ Cardinality(Requests) \in Nat /\ MaxAttempts \in Nat
      BY PendingFinite, EmailAssumption
<1>3. /\ tries[i] <= made[i].attempts + Cardinality(Pending(i)) + faults'
      /\ tries[i] <= MaxAttempts + (Cardinality(Requests) - 1) + faults'
  <2> DEFINE t == tries[i]
             a == made[i].attempts
             c == Cardinality(Pending(i))
             k == Cardinality(Requests) - 1
  <2>1. t <= a + c + faults /\ t <= MaxAttempts + k + faults
        BY DEF Counted
  <2>2. t \in Nat /\ a \in Nat /\ c \in Nat /\ k \in Int /\ MaxAttempts \in Nat
        BY <1>1, <1>2
  <2> HIDE DEF t, a, c, k
  <2>3. a \in Int /\ c \in Int /\ MaxAttempts \in Int
        BY <2>2
  <2>4. t <= a + c + faults' /\ t <= MaxAttempts + k + faults'
        BY <1>1, <2>1, <2>2, <2>3, MoreFaults, Zenon
  <2> QED BY <2>4 DEF t, a, c, k
<1>4. /\ tries'[i] <= made'[i].attempts + Cardinality(Pending(i)') + faults'
      /\ tries'[i] <= MaxAttempts + (Cardinality(Requests) - 1) + faults'
      BY <1>3
<1> QED BY <1>4 DEF Counted

\* The requests that wait to count are the same when none of them moves.
LEMMA SamePending ==
    ASSUME NEW i, \A s \in Requests : (req'[s].at = "wrong" /\ req'[s].rec = i)
                                         <=> (req[s].at = "wrong" /\ req[s].rec = i)
    PROVE  Pending(i)' = Pending(i)
BY DEF Pending

\* What each statement does, beside sendOTP's.
Over(r) == req'[r].at \in {"idle", "answer"}
Goes(r, from, to) == req[r].at = from /\ req'[r].at = to

Failed(r) ==
    /\ faults' = faults + 1 /\ UNCHANGED <<user, made, tries>>
    /\ Over(r) \/ Goes(r, "register", "saveUser") \/ Goes(r, "cooldown", "send")
Read(r) ==
    /\ UNCHANGED <<user, made, tries, faults>>
    /\ \/ Over(r) /\ req[r].at \in {"register", "saveUser", "resend", "cooldown", "verify"}
       \/ Goes(r, "register", "saveUser")
       \/ Goes(r, "resend", "cooldown") /\ user = "unverified"
       \/ Goes(r, "cooldown", "send") /\ (Newest = 0 \/ ~(now - made[Newest].created < Cooldown))
       \/ Goes(r, "verify", "right") /\ user # "none"
Missed(r) ==
    /\ UNCHANGED <<user, made, faults>> /\ Goes(r, "verify", "wrong") /\ user # "none"
    /\ \E n \in 1 .. Len(made) : /\ req'[r].rec = n /\ TriesLeft(n)
                                 /\ tries' = [tries EXCEPT ![n] = @ + 1]
Registers(r) ==
    /\ Goes(r, "saveUser", "send") /\ user = "none" /\ user' = "unverified"
    /\ UNCHANGED <<made, tries, faults>>
Verifies(r) ==
    Goes(r, "right", "cleanup") /\ user' = "verified" /\ UNCHANGED <<made, tries, faults>>
Writes(r) ==
    /\ Over(r) /\ UNCHANGED <<user, tries, faults>>
    /\ \A i \in 1 .. Len(made) :
          \/ /\ req[r].at = "save" /\ made'[i].attempts = made[i].attempts
             /\ (i = req[r].rec \/ made[i].row => made'[i].row)
          \/ /\ req[r].at = "wrong" /\ made'[i].row = made[i].row
             /\ made'[i].attempts = IF i = req[r].rec THEN made[i].attempts + 1
                                    ELSE made[i].attempts
          \/ req[r].at = "cleanup" /\ made'[i].attempts = made[i].attempts

LEMMA Statements ==
    ASSUME EmailTypeOK, NEW r \in Requests, ServerStep(r), req[r].at # "send"
    PROVE  \/ Failed(r) \/ Read(r) \/ Missed(r) \/ Registers(r) \/ Verifies(r)
           \/ Writes(r) /\ req[r].at \in {"save", "wrong", "cleanup"}
<1>1. /\ req \in [Requests -> RequestState] /\ made \in Seq(Record) /\ faults \in Nat
      /\ Len(made) \in Nat /\ TRUE \in BOOLEAN /\ FALSE \in BOOLEAN
      BY TablesTyped
<1>2. ASSUME NEW at \in {"saveUser", "send", "cooldown", "cleanup"}, Goto(r, at), UNCHANGED made
      PROVE  req'[r].at = at
      BY <1>1, <1>2, GotoTyped
<1>3. ASSUME NEW ok \in BOOLEAN, Answer(r, ok), UNCHANGED made  PROVE Over(r)
      BY <1>1, <1>3, AnswerTyped DEF Over
<1>a. CASE CheckExists(r)  BY <1>1, <1>2, <1>3, <1>a DEF CheckExists, Read, Goes
<1>b. CASE SaveUser(r)  BY <1>1, <1>2, <1>3, <1>b DEF SaveUser, Read, Registers, Goes
<1>4. ASSUME NEW ok \in BOOLEAN, Answer(r, ok), made' \in Seq(Record), Len(made') = Len(made)
      PROVE  Over(r)
      BY <1>1, <1>4, AnswerTyped DEF Over
<1>5. ASSUME EmailTypeOK'  PROVE made' \in Seq(Record)
      BY <1>5 DEF EmailTypeOK, Record
<1>6. made' \in Seq(Record) /\ Len(made') = Len(made)
      BY <1>5, ServerTyped, OtherStatements
<1>d. CASE SaveRecord(r)
  <2>1. req[r].rec \in 1 .. Len(made) /\ req[r].at = "save"
        BY <1>d, TablesTyped DEF SaveRecord
  <2>2. ASSUME NEW i \in 1 .. Len(made)
        PROVE  /\ [made[i] EXCEPT !.row = TRUE].attempts = made[i].attempts
               /\ [made[i] EXCEPT !.row = TRUE].row = TRUE /\ made[i].row \in BOOLEAN
    <3>1. made[i] \in Record
          BY <1>1
    <3> QED BY <3>1 DEF Record
  <2>3. made' = [made EXCEPT ![req[r].rec] = [made[req[r].rec] EXCEPT !.row = TRUE]]
        BY <1>1, <1>d, <2>1 DEF SaveRecord
  <2>4. ASSUME NEW i \in 1 .. Len(made)
        PROVE  /\ made'[i].attempts = made[i].attempts
               /\ (i = req[r].rec \/ made[i].row => made'[i].row)
    <3>1. CASE i = req[r].rec
      <4>1. made'[i] = [made[i] EXCEPT !.row = TRUE]
        <5> DEFINE saved == [made[req[r].rec] EXCEPT !.row = TRUE]
        <5>1. made' = [made EXCEPT ![req[r].rec] = saved]
              BY <2>3
        <5>2. saved = [made[i] EXCEPT !.row = TRUE]
              BY <3>1, Zenon
        <5> HIDE DEF saved
        <5>3. made'[i] = saved
              BY <1>1, <2>1, <3>1, <5>1
        <5> QED BY <5>2, <5>3
      <4>2. made'[i].attempts = made[i].attempts /\ made'[i].row = TRUE
            BY <2>2, <4>1
      <4> QED BY <3>1, <4>2
    <3>2. CASE i # req[r].rec
      <4>1. made'[i] = made[i]
            BY <1>1, <2>1, <2>3, <3>2
      <4> QED BY <2>2, <3>2, <4>1
    <3> QED BY <3>1, <3>2
  <2> QED BY <1>d, <1>4, <1>6, <2>1, <2>4 DEF SaveRecord, Writes
<1>e. CASE CheckUser(r)  BY <1>1, <1>2, <1>3, <1>e DEF CheckUser, Read, Goes
<1>f. CASE CheckCooldown(r)  BY <1>1, <1>2, <1>3, <1>f DEF CheckCooldown, Read, Goes
<1>g. CASE Compare(r)
  <2>1. UNCHANGED <<user, made, faults>> /\ req[r].at = "verify"
        BY <1>g DEF Compare, Usable
  <2>2. CASE Answer(r, FALSE) /\ UNCHANGED tries
        BY <1>1, <1>3, <2>1, <2>2 DEF Read
  <2>3. CASE user # "none" /\ Judge(r, "right", 0) /\ UNCHANGED tries
    <3>1. req'[r].at = "right"
          BY <1>1, <2>1, <2>3, JudgeTyped
    <3> QED BY <2>1, <2>3, <3>1 DEF Read, Goes
  <2>4. CASE /\ user # "none" /\ Newest # 0 /\ TriesLeft(Newest) /\ Judge(r, "wrong", Newest)
             /\ tries' = [tries EXCEPT ![Newest] = @ + 1]
    <3>1. Newest \in 1 .. Len(made)
          BY <1>1, <2>4, NewestInTable
    <3>2. req'[r].at = "wrong" /\ req'[r].rec = Newest
          BY <1>1, <2>1, <2>4, <3>1, JudgeTyped
    <3> QED BY <2>1, <2>4, <3>1, <3>2 DEF Missed, Goes
  <2> QED BY <1>g, <2>2, <2>3, <2>4 DEF Compare, Usable
<1>h. CASE CountTry(r)
  <2>1. req[r].rec \in 1 .. Len(made) /\ req[r].at = "wrong"
        BY <1>h, TablesTyped DEF CountTry
  <2>2. ASSUME NEW i \in 1 .. Len(made)
        PROVE  /\ [made[i] EXCEPT !.attempts = @ + 1].attempts = made[i].attempts + 1
               /\ [made[i] EXCEPT !.attempts = @ + 1].row = made[i].row
    <3>1. made[i] \in Record
          BY <1>1
    <3> QED BY <3>1 DEF Record
  <2>3. made' = [made EXCEPT ![req[r].rec] = [made[req[r].rec] EXCEPT !.attempts = @ + 1]]
        BY <1>1, <1>h, <2>1 DEF CountTry
  <2>4. ASSUME NEW i \in 1 .. Len(made)
        PROVE  /\ made'[i].row = made[i].row
               /\ made'[i].attempts = IF i = req[r].rec THEN made[i].attempts + 1
                                      ELSE made[i].attempts
    <3>1. CASE i = req[r].rec
          BY <1>1, <2>1, <2>2, <2>3, <3>1
    <3>2. CASE i # req[r].rec
          BY <1>1, <2>1, <2>3, <3>2
    <3> QED BY <3>1, <3>2
  <2> QED BY <1>h, <1>4, <1>6, <2>1, <2>4 DEF CountTry, Writes
<1>i. CASE SetVerified(r)  BY <1>1, <1>2, <1>i DEF SetVerified, Verifies, Goes
<1>j. CASE DeleteRecords(r)
  <2>1. ASSUME NEW i \in 1 .. Len(made)
        PROVE  [made[i] EXCEPT !.row = FALSE].attempts = made[i].attempts
    <3>1. made[i] \in Record
          BY <1>1
    <3> QED BY <3>1 DEF Record
  <2>2. made' = [i \in 1 .. Len(made) |-> [made[i] EXCEPT !.row = FALSE]]
        BY <1>j, TablesTyped DEF DeleteRecords
  <2>3. \A i \in 1 .. Len(made) : made'[i].attempts = made[i].attempts
        BY <2>1, <2>2
  <2> QED BY <1>j, <1>4, <1>6, <2>3 DEF DeleteRecords, Writes
<1>k. CASE StatementFails(r)
      BY <1>1, <1>2, <1>3, <1>k DEF StatementFails, Failed, Goes
<1> QED BY <1>a, <1>b, <1>d, <1>e, <1>f, <1>g, <1>h, <1>i, <1>j, <1>k DEF ServerStep, DeleteOld

LEMMA AllCountedKept == TypeOK /\ AllCounted /\ [Next]_vars => AllCounted'
<1> SUFFICES ASSUME TypeOK, AllCounted, [Next]_vars  PROVE AllCounted'
    OBVIOUS
<1>1. /\ EmailTypeOK /\ made \in Seq(Record) /\ Len(made) \in Nat /\ faults \in Nat
      /\ tries \in Seq(Nat) /\ Len(tries) = Len(made) /\ req \in [Requests -> RequestState]
      /\ \A i \in 1 .. Len(made) : tries[i] \in Nat /\ made[i].attempts \in Nat
      /\ MaxAttempts \in Nat /\ faults <= faults /\ TRUE \in BOOLEAN /\ FALSE \in BOOLEAN
      BY TablesTyped, EmailAssumption DEF TypeOK
<1>2. ASSUME UNCHANGED tries, Len(made') = Len(made), faults' \in Nat, faults <= faults',
             \A i \in 1 .. Len(made) : made'[i].attempts = made[i].attempts,
             NEW r \in Requests, \A s \in Requests : s # r => req'[s] = req[s],
             req[r].at # "wrong", req'[r].at # "wrong"
      PROVE  AllCounted'
  <2>1. ASSUME NEW i \in 1 .. Len(made)  PROVE Counted(i)'
    <3>1. Pending(i)' = Pending(i)
          BY <1>2, SamePending
    <3> QED BY <1>1, <1>2, <3>1, StaysCounted DEF AllCounted
  <2> QED BY <1>2, <2>1 DEF AllCounted
<1>3. CASE Around
  <2>1. ASSUME NEW i \in 1 .. Len(made)  PROVE Counted(i)'
    <3>1. Pending(i)' = Pending(i)
      <4>1. ASSUME NEW s \in Requests
            PROVE  (req'[s].at = "wrong" /\ req'[s].rec = i)
                      <=> (req[s].at = "wrong" /\ req[s].rec = i)
            BY <1>3 DEF Around, Busy
      <4> QED BY <4>1, SamePending
    <3> QED BY <1>1, <1>3, <3>1, StaysCounted DEF AllCounted, Around
  <2> QED BY <1>3, <2>1 DEF AllCounted, Around
<1>4. ASSUME NEW r \in Requests, req[r].at = "send", DeleteOld(r) \/ StatementFails(r)
      PROVE  AllCounted'
  <2>1. /\ Added /\ \A s \in Requests : s # r => req'[s] = req[s]
        /\ req'[r].at = "save" /\ faults' \in Nat /\ faults <= faults'
        BY <1>1, <1>4, SendAdds
  <2>2. /\ Len(made') = Len(made) + 1 /\ tries' = Append(tries, 0)
        /\ made'[Len(made) + 1].attempts = 0
        /\ \A i \in 1 .. Len(made) : made'[i].attempts = made[i].attempts
        BY <2>1 DEF Added, Kept
  <2>3. ASSUME NEW i \in 1 .. Len(made)  PROVE Counted(i)'
    <3>1. Pending(i)' = Pending(i)
          BY <1>4, <2>1, SamePending
    <3>2. tries'[i] = tries[i]
          BY <1>1, <2>2
    <3> QED BY <1>1, <2>1, <2>2, <3>1, <3>2, StaysCounted DEF AllCounted
  <2>4. ASSUME NEW n, n = Len(made) + 1  PROVE Counted(n)'
    <3>1. tries'[n] = 0 /\ made'[n].attempts = 0
          BY <1>1, <2>2, <2>4
    <3>2. Pending(n)' = Pending(n)
      <4>1. \A s \in Requests : req[s].at = "wrong" => req[s].rec # n
            BY <1>1, <2>4, TablesTyped
      <4>2. ASSUME NEW s \in Requests
            PROVE  (req'[s].at = "wrong" /\ req'[s].rec = n)
                      <=> (req[s].at = "wrong" /\ req[s].rec = n)
            BY <1>4, <2>1, <4>1
      <4> QED BY <4>2, SamePending
    <3>3. /\ Cardinality(Pending(n)) \in Nat /\ Cardinality(Requests) \in Nat
          /\ Cardinality(Requests) >= 1
          BY PendingFinite
    <3>4. /\ 0 <= 0 + Cardinality(Pending(n)) + faults'
          /\ 0 <= MaxAttempts + (Cardinality(Requests) - 1) + faults'
          BY <1>1, <2>1, <3>3
    <3> QED BY <3>1, <3>2, <3>4 DEF Counted
  <2>5. \A i \in 1 .. Len(made') : i \in 1 .. Len(made) \/ i = Len(made) + 1
        BY <1>1, <2>2
  <2> QED BY <2>3, <2>4, <2>5 DEF AllCounted
<1>5. ASSUME NEW r \in Requests, req[r].at # "send", ServerStep(r)  PROVE AllCounted'
  <2>1. /\ \A s \in Requests : s # r => req'[s] = req[s]
        /\ Len(made') = Len(made) /\ faults' \in Nat /\ faults <= faults'
        BY <1>1, <1>5, OtherStatements
  <2>2. CASE \/ Registers(r) \/ Verifies(r) \/ Read(r)
             \/ Failed(r) /\ req[r].at # "wrong"
             \/ Writes(r) /\ req[r].at \in {"save", "cleanup"}
    <3>1. /\ UNCHANGED tries /\ req[r].at # "wrong" /\ req'[r].at # "wrong"
          /\ \A i \in 1 .. Len(made) : made'[i].attempts = made[i].attempts
          BY <2>2 DEF Registers, Verifies, Read, Failed, Writes, Goes, Over
    <3> QED BY <1>2, <2>1, <3>1
  <2>3. CASE Missed(r)
    <3>1. PICK n \in 1 .. Len(made) : /\ req'[r].rec = n /\ TriesLeft(n)
                                      /\ tries' = [tries EXCEPT ![n] = @ + 1]
          BY <2>3 DEF Missed
    <3>2. /\ req[r].at = "verify" /\ req'[r].at = "wrong" /\ UNCHANGED <<made, faults>>
          BY <2>3 DEF Missed, Goes
    <3>3. ASSUME NEW i \in 1 .. Len(made), i # n  PROVE Counted(i)'
      <4>1. Pending(i)' = Pending(i)
            BY <2>1, <3>1, <3>2, <3>3, SamePending
      <4>2. tries'[i] = tries[i]
            BY <1>1, <3>1, <3>3
      <4> QED BY <1>1, <2>1, <3>2, <4>1, <4>2, StaysCounted DEF AllCounted
    <3>4. Counted(n)'
      <4>1. Pending(n)' = Pending(n) \cup {r} /\ r \notin Pending(n)
            BY <2>1, <3>1, <3>2 DEF Pending
      <4>2. /\ IsFiniteSet(Pending(n)) /\ Cardinality(Pending(n)) \in Nat
            /\ Cardinality(Pending(n)) <= Cardinality(Requests) - 1
            /\ Cardinality(Requests) \in Nat
            BY <4>1, PendingFinite
      <4>3. Cardinality(Pending(n)') = Cardinality(Pending(n)) + 1
            BY <4>1, <4>2, FS_AddElement
      <4>4. tries'[n] = tries[n] + 1 /\ made[n].attempts < MaxAttempts
            BY <1>1, <3>1 DEF TriesLeft
      <4>5. tries[n] <= made[n].attempts + Cardinality(Pending(n)) + faults
            BY DEF AllCounted, Counted
      <4>6. /\ tries'[n] <= made[n].attempts + Cardinality(Pending(n)') + faults
            /\ tries'[n] <= MaxAttempts + (Cardinality(Requests) - 1) + faults
        <5>1. MaxAttempts \in Nat /\ tries[n] \in Nat /\ made[n].attempts \in Nat /\ faults \in Nat
              BY <1>1
        <5>2. /\ tries[n] + 1 <= made[n].attempts + (Cardinality(Pending(n)) + 1) + faults
              /\ tries[n] + 1 <= MaxAttempts + (Cardinality(Requests) - 1) + faults
              BY <4>2, <4>4, <4>5, <5>1, OneMoreTry
        <5> QED BY <4>3, <4>4, <5>2
      <4> QED BY <3>2, <4>6 DEF Counted
    <3> QED BY <2>1, <3>3, <3>4 DEF AllCounted
  <2>4. CASE req[r].at = "wrong" /\ (Failed(r) \/ Writes(r))
    <3>1. PICK n \in 1 .. Len(made) : req[r].rec = n
          BY <1>1, <2>4, TablesTyped
    <3>2. /\ UNCHANGED tries /\ req'[r].at # "wrong"
          /\ \A i \in 1 .. Len(made) : i # n => made'[i].attempts = made[i].attempts
          /\ made'[n].attempts + faults' = made[n].attempts + faults + 1
      <4>1. CASE Failed(r)
            BY <1>1, <2>4, <4>1 DEF Failed, Over, Goes
      <4>2. CASE Writes(r)
        <5>1. req'[r].at # "wrong" /\ UNCHANGED <<tries, faults>>
              BY <4>2 DEF Writes, Over
        <5>2. \A i \in 1 .. Len(made) :
                 made'[i].attempts = IF i = n THEN made[i].attempts + 1 ELSE made[i].attempts
              BY <2>4, <3>1, <4>2 DEF Writes
        <5>3. made'[n].attempts = made[n].attempts + 1
              BY <5>2
        <5>4. made'[n].attempts + faults' = made[n].attempts + faults + 1
              BY <1>1, <5>1, <5>3
        <5> QED BY <5>1, <5>2, <5>4
      <4> QED BY <2>4, <4>1, <4>2
    <3>3. ASSUME NEW i \in 1 .. Len(made), i # n  PROVE Counted(i)'
      <4>1. Pending(i)' = Pending(i)
            BY <2>1, <2>4, <3>1, <3>2, <3>3, SamePending
      <4> QED BY <1>1, <2>1, <3>2, <3>3, <4>1, StaysCounted DEF AllCounted
    <3>4. Counted(n)'
      <4>1. Pending(n)' = Pending(n) \ {r} /\ r \in Pending(n)
            BY <2>1, <2>4, <3>1, <3>2 DEF Pending
      <4>2. IsFiniteSet(Pending(n)) /\ Cardinality(Pending(n)) \in Nat
            BY PendingFinite
      <4>3. Cardinality(Pending(n)') = Cardinality(Pending(n)) - 1
            BY <4>1, <4>2, FS_RemoveElement
      <4>4. /\ tries[n] <= made[n].attempts + Cardinality(Pending(n)) + faults
            /\ tries[n] <= MaxAttempts + (Cardinality(Requests) - 1) + faults
            BY DEF AllCounted, Counted
      <4>5. made'[n].attempts \in Nat
        <5>1. EmailTypeOK' /\ n \in 1 .. Len(made')
              BY <1>1, <1>5, <2>1, ServerTyped
        <5>2. made' \in Seq(Record)
              BY <5>1 DEF EmailTypeOK, Record
        <5>3. made'[n] \in Record
              BY <5>1, <5>2
        <5> QED BY <5>3 DEF Record
      <4>6. /\ tries[n] <= made'[n].attempts + Cardinality(Pending(n)') + faults'
            /\ tries[n] <= MaxAttempts + (Cardinality(Requests) - 1) + faults'
        <5>1. MaxAttempts \in Nat /\ tries[n] \in Nat /\ made[n].attempts \in Nat /\ faults \in Nat
              BY <1>1
        <5>2. tries[n] <= made'[n].attempts + (Cardinality(Pending(n)) - 1) + faults'
              BY <2>1, <3>2, <4>2, <4>4, <4>5, <5>1, OneLessPending
        <5>3. Cardinality(Requests) - 1 \in Int
              BY PendingFinite
        <5>4. tries[n] <= MaxAttempts + (Cardinality(Requests) - 1) + faults'
              BY <2>1, <4>4, <5>1, <5>3, MoreFaults
        <5> QED BY <4>3, <5>2, <5>4
      <4> QED BY <3>2, <4>6 DEF Counted
    <3> QED BY <2>1, <3>3, <3>4 DEF AllCounted
  <2> QED BY <1>1, <1>5, <2>2, <2>3, <2>4, Statements
<1> QED BY <1>3, <1>4, <1>5, Steps

\* However many requests run at once and statements fail, the wrong codes that
\* are compared with one record stay within the limit and what was under way
\* when it was reached (auth_service.go 163-171).
THEOREM AttemptsAreLimited == Spec => []AttemptsLimit
<1>1. Init => AllCounted
      BY DEF Init, EmailInit, AllCounted
<1>2. TypeOK /\ AllCounted => AttemptsLimit
  <2> SUFFICES ASSUME TypeOK, AllCounted  PROVE AttemptsLimit
      OBVIOUS
  <2>1. DOMAIN tries = 1 .. Len(made)
        BY TablesTyped DEF TypeOK
  <2> QED BY <2>1 DEF AllCounted, Counted, AttemptsLimit
<1> QED BY <1>1, <1>2, TypeCorrect, AllCountedKept, PTL DEF Spec

-----------------------------------------------------------------------------
(* The cooldown of the server.                                             *)

\* Who is alone is the only one that is served.
Alone == \A r, s \in Requests : r # s /\ Busy(r) /\ req[r].alone => ~Busy(s)

\* Nothing is sent to an address nobody has registered.
NoUser == user = "none" => Len(made) = 0 /\ \A r \in Requests : req[r].at \notin {"send", "cooldown"}

\* Records are dropped for good when the address is verified.
Cleanup == \A r \in Requests : req[r].at = "cleanup" => user = "verified"

\* The last record is in the table, or about to be.
LastSaved == faults = 0 /\ user # "verified" /\ Len(made) # 0 =>
                \/ made[Len(made)].row
                \/ \E r \in Requests : req[r].at = "save" /\ req[r].rec = Len(made)

\* Who asked for another code is told of the cooldown while it lasts.
Asks == \A r \in Requests : req[r].at = "cooldown" /\ req[r].alone => user = "unverified"

CooldownOver == \A i \in 1 .. Len(made) : now - made[i].created >= Cooldown
Due == \A r \in Requests : req[r].at = "send" /\ req[r].alone /\ faults = 0 => CooldownOver

CoolInv == Alone /\ NoUser /\ Cleanup /\ LastSaved /\ Asks /\ Due

LEMMA AroundKeepsCool == TypeOK /\ CoolInv /\ Around => CoolInv'
<1> SUFFICES ASSUME TypeOK, CoolInv, Around  PROVE CoolInv'
    OBVIOUS
<1>1. /\ UNCHANGED <<user, made, tries, faults>> /\ now \in Nat /\ now' \in Nat /\ now <= now'
      /\ Cooldown \in Nat /\ \A i \in 1 .. Len(made) : made[i].created \in Nat
      BY TablesTyped, EmailAssumption DEF TypeOK, Around
<1>2. ASSUME NEW r \in Requests,
             req'[r].at \in {"send", "save", "cooldown", "cleanup"} \/
             req[r].at \in {"send", "save", "cooldown", "cleanup"}
      PROVE  req'[r].at = req[r].at /\ req'[r].rec = req[r].rec /\ (req'[r].alone => req[r].alone)
      BY <1>2 DEF Around, Busy
<1>3. Alone'
      BY DEF CoolInv, Alone, Around
<1>4. NoUser' /\ Cleanup' /\ Asks'
      BY <1>1, <1>2 DEF CoolInv, NoUser, Cleanup, Asks
<1>5. LastSaved'
      BY <1>1, <1>2 DEF CoolInv, LastSaved
<1>6. CooldownOver => CooldownOver'
      BY <1>1 DEF CooldownOver
<1>7. Due'
      BY <1>1, <1>2, <1>6 DEF CoolInv, Due
<1> QED BY <1>3, <1>4, <1>5, <1>7 DEF CoolInv

\* A request that is alone is so until it ends, when the steps are its own.
LEMMA StaysAlone ==
    ASSUME Alone, NEW r \in Requests, Busy(r), \A s \in Requests : s # r => req'[s] = req[s],
           Busy(r)' => req'[r].alone = req[r].alone
    PROVE  Alone'
<1>1. \A s \in Requests : s # r => (Busy(s)' <=> Busy(s))
      BY DEF Busy
<1> QED BY <1>1 DEF Alone

LEMMA SendKeepsCool ==
    ASSUME TypeOK, CoolInv, NEW r \in Requests, req[r].at = "send",
           DeleteOld(r) \/ StatementFails(r)
    PROVE  CoolInv'
<1>1. /\ Len(made') = Len(made) + 1 /\ \A s \in Requests : s # r => req'[s] = req[s]
      /\ req'[r].at = "save" /\ req'[r].rec = Len(made) + 1 /\ req'[r].alone = req[r].alone
      /\ UNCHANGED <<now, user>> /\ Busy(r)
  <2>1. Added /\ Busy(r)
        BY SendAdds DEF TypeOK, Busy
  <2> QED BY <2>1, SendAdds DEF TypeOK, Added
<1>2. Alone'
      BY <1>1, StaysAlone DEF CoolInv
<1>3. NoUser' /\ Cleanup' /\ Asks'
      BY <1>1 DEF CoolInv, NoUser, Cleanup, Asks
<1>4. LastSaved'
      BY <1>1 DEF LastSaved
<1>5. ASSUME NEW s \in Requests, req'[s].at = "send" /\ req'[s].alone  PROVE FALSE
  <2>1. s # r /\ req'[s] = req[s]
        BY <1>1, <1>5
  <2> QED BY <1>1, <1>5, <2>1 DEF CoolInv, Alone, Busy
<1>6. Due'
      BY <1>5 DEF Due
<1> QED BY <1>2, <1>3, <1>4, <1>6 DEF CoolInv

\* While nothing is under way but the request itself, the newest record of the
\* table is the last that was made.
LEMMA LastIsNewest ==
    ASSUME TypeOK, InOrder, CoolInv, NEW r \in Requests, req[r].at = "cooldown", req[r].alone,
           faults = 0, Newest = 0 \/ ~(now - made[Newest].created < Cooldown)
    PROVE  CooldownOver
<1>1. /\ made \in Seq(Record) /\ Len(made) \in Nat /\ now \in Nat /\ Cooldown \in Nat
      /\ \A i \in 1 .. Len(made) : made[i].created \in Nat
      BY TablesTyped, EmailAssumption DEF TypeOK
<1>2. CASE Len(made) = 0
      BY <1>1, <1>2 DEF CooldownOver
<1>3. CASE Len(made) # 0
  <2>1. user = "unverified"
        BY DEF CoolInv, Asks
  <2>2. ~ \E s \in Requests : req[s].at = "save"
        BY DEF CoolInv, Alone, Busy
  <2>3. made[Len(made)].row /\ Len(made) \in 1 .. Len(made)
        BY <1>1, <1>3, <2>1, <2>2 DEF CoolInv, LastSaved
  <2>4. Len(made) \in InTable
        BY <1>1, <2>3 DEF InTable
  <2>5. Newest \in 0 .. Len(made) /\ Len(made) <= Newest
        BY <1>1, <2>4, NewestInTable
  <2>6. Newest = Len(made)
        BY <1>1, <2>5
  <2>7. made[Len(made)].created + Cooldown <= now
        BY <1>1, <1>3, <2>3, <2>6
  <2>8. \A i \in 1 .. Len(made) : made[i].created <= made[Len(made)].created
        BY <1>1, <2>3 DEF InOrder
  <2> QED BY <1>1, <2>3, <2>7, <2>8 DEF CooldownOver
<1> QED BY <1>2, <1>3

LEMMA StatementKeepsCool ==
    ASSUME TypeOK, InOrder, CoolInv, NEW r \in Requests, req[r].at # "send", ServerStep(r)
    PROVE  CoolInv'
<1>1. /\ \A s \in Requests : s # r => req'[s] = req[s]
      /\ Len(made') = Len(made) /\ UNCHANGED now
      /\ \A i \in 1 .. Len(made) : made'[i].created = made[i].created
      /\ faults' \in Nat /\ faults <= faults' /\ faults \in Nat /\ req'[r].at # "save"
      /\ Busy(r) /\ (Busy(r)' => req'[r].alone = req[r].alone)
      BY OtherStatements, TablesTyped DEF TypeOK
<1>2. \/ Failed(r) \/ Read(r) \/ Missed(r) \/ Registers(r) \/ Verifies(r)
      \/ Writes(r) /\ req[r].at \in {"save", "wrong", "cleanup"}
      BY Statements DEF TypeOK
<1>3. Len(made) \in Nat /\ (faults' = 0 => faults = 0)
      BY <1>1, TablesTyped DEF TypeOK
<1>4. Alone'
      BY <1>1, StaysAlone DEF CoolInv
<1>5. /\ user' = "none" => user = "none" /\ req'[r].at \notin {"send", "cooldown"}
      /\ user = "verified" => user' = "verified"
      /\ req'[r].at = "cleanup" => user' = "verified"
      /\ req'[r].at = "cooldown" => user' = "unverified"
      /\ user' # user => req'[r].at \in {"send", "cleanup"}
  <2>1. CASE Failed(r)
        BY <1>1, <2>1 DEF Failed, Over, Goes, CoolInv, NoUser
  <2>2. CASE Read(r)
        BY <2>2 DEF Read, Over, Goes, CoolInv, NoUser
  <2>3. CASE Missed(r) \/ Registers(r) \/ Verifies(r) \/ Writes(r)
        BY <2>3 DEF Missed, Registers, Verifies, Writes, Over, Goes
  <2> QED BY <1>2, <2>1, <2>2, <2>3
<1>6. NoUser' /\ Cleanup'
      BY <1>1, <1>5 DEF CoolInv, NoUser, Cleanup
<1>7. Asks'
  <2>1. ASSUME NEW s \in Requests, s # r, req'[s].at = "cooldown" /\ req'[s].alone  PROVE FALSE
        BY <1>1, <2>1 DEF CoolInv, Alone, Busy
  <2> QED BY <1>5, <2>1 DEF Asks
<1>8. LastSaved'
  <2> SUFFICES ASSUME faults' = 0, user' # "verified", Len(made') # 0
               PROVE  \/ made'[Len(made)].row
                      \/ \E s \in Requests : req'[s].at = "save" /\ req'[s].rec = Len(made)
      BY <1>1 DEF LastSaved
  <2>1. \/ made[Len(made)].row
        \/ \E s \in Requests : req[s].at = "save" /\ req[s].rec = Len(made)
        BY <1>1, <1>3, <1>5 DEF CoolInv, LastSaved
  <2>2. Len(made) \in 1 .. Len(made)
        BY <1>1, <1>3
  <2>3. \/ made' = made /\ req[r].at # "save"
        \/ req[r].at = "save" /\ (Len(made) = req[r].rec \/ made[Len(made)].row => made'[Len(made)].row)
        \/ req[r].at = "wrong" /\ made'[Len(made)].row = made[Len(made)].row
    <3>1. CASE Failed(r)
          BY <1>1, <1>3, <3>1 DEF Failed
    <3>2. CASE Read(r) \/ Missed(r) \/ Registers(r) \/ Verifies(r)
          BY <3>2 DEF Read, Missed, Registers, Verifies, Goes
    <3>3. CASE Writes(r)
      <4>1. req[r].at # "cleanup"
            BY <1>5 DEF CoolInv, Cleanup
      <4> QED BY <2>2, <3>3, <4>1 DEF Writes
    <3> QED BY <1>2, <3>1, <3>2, <3>3
  <2>4. CASE req[r].at = "save"
        BY <1>1, <2>1, <2>3, <2>4
  <2>5. CASE req[r].at # "save"
        BY <1>1, <2>1, <2>3, <2>5
  <2> QED BY <2>4, <2>5
<1>9. Due'
  <2>1. ASSUME NEW s \in Requests, s # r, req'[s].at = "send" /\ req'[s].alone  PROVE FALSE
        BY <1>1, <2>1 DEF CoolInv, Alone, Busy
  <2>2. CooldownOver => CooldownOver'
        BY <1>1 DEF CooldownOver
  <2>3. ASSUME req'[r].at = "send", req'[r].alone, faults' = 0  PROVE CooldownOver
    <3>1. req[r].alone /\ faults = 0
          BY <1>1, <1>3, <2>3 DEF Busy
    <3>2. \/ user = "none"
          \/ req[r].at = "cooldown" /\ (Newest = 0 \/ ~(now - made[Newest].created < Cooldown))
          BY <1>1, <1>2, <2>3, <3>1 DEF Failed, Read, Missed, Registers, Verifies, Writes, Over, Goes
    <3>3. ASSUME user = "none"  PROVE CooldownOver
          BY <1>3, <3>3 DEF CoolInv, NoUser, CooldownOver
    <3> QED BY <3>1, <3>2, <3>3, LastIsNewest
  <2> QED BY <2>1, <2>2, <2>3 DEF Due
<1> QED BY <1>4, <1>6, <1>7, <1>8, <1>9 DEF CoolInv

\* A code is sent again only when the cooldown of the last is over, for every
\* cooldown: unless requests overlap or a statement fails, what ResendOTP finds
\* is the last code that was sent (auth_service.go 110-127, 191-196).
THEOREM CooldownIsKept == Spec => CooldownKept
<1>1. Init => CoolInv
      BY DEF Init, EmailInit, NoRequest, CoolInv, Alone, NoUser, Cleanup, LastSaved, Asks, Due,
          CooldownOver, Busy
<1>2. TypeOK /\ InOrder /\ CoolInv /\ [Next]_vars => CoolInv'
      BY Steps, AroundKeepsCool, SendKeepsCool, StatementKeepsCool
<1>3. ASSUME TypeOK, CoolInv, [Next]_vars, NEW r \in Requests,
             req[r].at = "send", req'[r].at = "save", req[r].alone, faults' = 0,
             NEW i \in DOMAIN made
      PROVE  now - made[i].created >= Cooldown
  <2>1. ~Around
        BY <1>3 DEF Around, Busy
  <2>2. PICK s \in Requests : ServerStep(s)
        BY <1>3, <2>1, Steps
  <2>3. s = r
        BY <1>3, <2>2, SendAdds, OtherStatements DEF ServerStep, TypeOK, CoolInv, Alone, Busy
  <2>4. DeleteOld(r) \/ StatementFails(r)
        BY <1>3, <2>2, <2>3 DEF ServerStep, CheckExists, SaveUser, SaveRecord, CheckUser,
            CheckCooldown, Compare, Usable, CountTry, SetVerified, DeleteRecords
  <2>5. faults = 0 /\ i \in 1 .. Len(made)
    <3>1. faults \in Nat /\ faults' \in Nat /\ faults <= faults' /\ DOMAIN made = 1 .. Len(made)
          BY <1>3, <2>4, SendAdds, TablesTyped DEF TypeOK
    <3> QED BY <1>3, <3>1
  <2> QED BY <1>3, <2>5 DEF CoolInv, Due, CooldownOver
<1>4. TypeOK /\ CoolInv /\ [Next]_vars =>
        [ \A r \in Requests :
            req[r].at = "send" /\ req'[r].at = "save" /\ req[r].alone /\ faults' = 0 =>
               \A i \in DOMAIN made : now - made[i].created >= Cooldown ]_emailVars
      BY <1>3
<1> QED BY <1>1, <1>2, <1>4, TypeCorrect, InOrderInitially, InOrderKept, PTL DEF Spec, CooldownKept

=============================================================================
