------------------------ MODULE SessionClientProofs ------------------------
(***************************************************************************)
(* Proofs about SessionClient: a pair of tokens is handed out once, and a  *)
(* page exchanges each refresh token once, for any number of users, tabs   *)
(* and calls.                                                              *)
(***************************************************************************)
EXTENDS SessionClient, TLAPS

-----------------------------------------------------------------------------
(* Types.                                                                  *)

\* A call that moves on keeps what it was asked with.
LEMMA BecomeTyped ==
    ASSUME call \in [Calls -> CallState], NEW c \in Calls,
           NEW at \in {"idle", "sent", "denied", "waiting", "deleted", "expired"},
           NEW on \in Calls \cup {None},
           \/ call' = [call EXCEPT ![c].at = at]
           \/ call' = [call EXCEPT ![c].at = at, ![c].on = on]
    PROVE  call' \in [Calls -> CallState]
<1> DEFINE Q == [call[c] EXCEPT !.at = at]
           R == [call[c] EXCEPT !.at = at, !.on = on]
<1>0. call[c] \in CallState
      OBVIOUS
<1>1. Q \in CallState /\ R \in CallState
  <2>1. Q \in CallState
        BY <1>0 DEF CallState
  <2>2. R \in CallState
        BY <1>0 DEF CallState
  <2> QED BY <2>1, <2>2
<1>2. call' = [call EXCEPT ![c] = Q] \/ call' = [call EXCEPT ![c] = R]
      OBVIOUS
<1> HIDE DEF Q, R
<1> QED BY <1>1, <1>2

LEMMA ShapesTyped ==
    /\ NoCall \in CallState /\ NoRefresh \in RefreshState /\ NoSignin \in SigninState
    /\ \A t \in Token \cup {None} : \A first \in BOOLEAN : Request(t, first) \in CallState
    /\ \A t \in Token : /\ [at |-> "posted", token |-> t] \in RefreshState
                        /\ [at |-> "granted", token |-> t] \in RefreshState
                        /\ [at |-> "login", token |-> t] \in SigninState
                        /\ [at |-> "callback", token |-> t] \in SigninState
BY DEF NoCall, NoRefresh, NoSignin, CallState, RefreshState, SigninState, Request

\* What the server writes.
LEMMA SignTyped == SessionsTypeOK => \A u \in users : Sign(u) \in Token
BY DEF SessionsTypeOK, Sign, Token

LEMMA InsertTyped ==
    ASSUME SessionsTypeOK, NEW u \in users, Insert(Sign(u))
    PROVE  SessionsTypeOK'
<1>1. Sign(u) \in Token /\ Sign(u).at = now /\ now \in Nat
      BY SignTyped, SessionsAssumption DEF Sign, SessionsTypeOK
<1> QED BY <1>1 DEF SessionsTypeOK, Insert, TokensOf

LEMMA DeleteUserTyped == ASSUME SessionsTypeOK, NEW u, DeleteUser(u)  PROVE SessionsTypeOK'
BY DEF SessionsTypeOK, DeleteUser

LEMMA TickTyped == ASSUME SessionsTypeOK, Tick  PROVE SessionsTypeOK'
<1>1. now \in Nat /\ MaxTime \in Nat /\ now' = now + 1 /\ now' \in 0 .. MaxTime
      BY SessionsAssumption DEF SessionsTypeOK, Tick
<1>2. \A t \in tokens : t.at \in Nat
      BY DEF SessionsTypeOK, Token
<1> QED BY <1>1, <1>2 DEF SessionsTypeOK, Tick

\* A page load.
LEMMA NewContextTyped ==
    ASSUME TypeOK, NEW t \in Tabs, NewContext(t)
    PROVE  /\ call' \in [Calls -> CallState] /\ refresh' \in [Calls -> RefreshState]
           /\ promise' \in [Tabs -> Calls \cup {None, Stuck}] /\ spent' \in [Tabs -> SUBSET Token]
BY ShapesTyped DEF TypeOK, NewContext

LEMMA LoadTyped == ASSUME TypeOK, NEW t \in Tabs, Load(t)  PROVE TypeOK'
<1>1. Guarded(held) \in {"login", "app"}
      BY DEF Guarded
<1> QED BY <1>1, NewContextTyped, ShapesTyped DEF TypeOK, Load, serverVars, SessionsTypeOK

\* The variables of the types, in their classes.
THEOREM TypeCorrect == Spec => []TypeOK
<1>1. Init => TypeOK
  <2> SUFFICES ASSUME Init  PROVE TypeOK
      OBVIOUS
  <2>1. SessionsTypeOK
        BY SessionsAssumption DEF Init, SessionsInit, SessionsTypeOK
  <2> QED BY <2>1, ShapesTyped DEF Init, TypeOK
<1>2. ASSUME TypeOK, [Next]_vars  PROVE TypeOK'
  <2>1. CASE UNCHANGED vars
        BY <1>2, <2>1 DEF vars, serverVars, clientVars, TypeOK, SessionsTypeOK, CallsOf
  <2>2. ASSUME NEW t \in Tabs, TabStep(t)  PROVE TypeOK'
    <3>1. CASE Load(t) \/ Leave(t)
          BY <1>2, <3>1, LoadTyped DEF Leave
    <3>2. CASE Login(t)
      <4>1. PICK u \in users : /\ Insert(Sign(u))
                               /\ signin' = [signin EXCEPT ![t] = [at |-> "login", token |-> Sign(u)]]
            BY <3>2 DEF Login
      <4>2. SessionsTypeOK' /\ Sign(u) \in Token
            BY <1>2, <4>1, InsertTyped, SignTyped DEF TypeOK
      <4> QED BY <1>2, <3>2, <4>1, <4>2, ShapesTyped DEF Login, TypeOK
    <3>3. CASE GoogleLogin(t)
      <4>1. PICK u \in users :
                /\ Insert(Sign(u))
                /\ signin' = [signin EXCEPT ![t] = [at |-> "callback", token |-> Sign(u)]]
            BY <3>3 DEF GoogleLogin
      <4>2. SessionsTypeOK' /\ Sign(u) \in Token
            BY <1>2, <4>1, InsertTyped, SignTyped DEF TypeOK
      <4> QED BY <1>2, <3>3, <4>1, <4>2, ShapesTyped, NewContextTyped DEF GoogleLogin, TypeOK
    <3>4. CASE SignedIn(t)
      <4>1. signin[t].token \in Token
            BY <1>2, <3>4 DEF SignedIn, TypeOK, SigninState
      <4> QED BY <1>2, <3>4, <4>1, ShapesTyped DEF SignedIn, TypeOK, serverVars, SessionsTypeOK
    <3>5. CASE SigninFails(t)
          BY <1>2, <3>5, ShapesTyped DEF SigninFails, TypeOK, serverVars, SessionsTypeOK
    <3>6. CASE SignOut(t)
          BY <1>2, <3>6 DEF SignOut, Depart, Guarded, TypeOK, serverVars, SessionsTypeOK
    <3> QED BY <2>2, <3>1, <3>2, <3>3, <3>4, <3>5, <3>6 DEF TabStep
  <2>3. ASSUME NEW c \in Calls, CallStep(c)  PROVE TypeOK'
    <3>1. TabOf[c] \in Tabs /\ None \in Calls \cup {None}
          BY ClientAssumption
    <3>2. ASSUME UNCHANGED <<serverVars, held, page, signin, promise, refresh, spent>>,
                 call' \in [Calls -> CallState]
          PROVE  TypeOK'
          BY <1>2, <3>2 DEF TypeOK, serverVars, SessionsTypeOK
    <3>3. ASSUME Return(c)  PROVE call' \in [Calls -> CallState]
          BY <1>2, <3>3, ShapesTyped DEF Return, TypeOK
    <3>4. CASE Send(c)
      <4>1. Request(held, TRUE) \in CallState
            BY <1>2, ShapesTyped DEF TypeOK
      <4> QED BY <1>2, <3>2, <3>4, <4>1 DEF Send, TypeOK
    <3>5. CASE Answer(c) \/ CallLost(c) \/ DeniedAgain(c)
          BY <3>2, <3>3, <3>5 DEF Answer, CallLost, DeniedAgain
    <3>6. CASE Deny(c)
          BY <1>2, <3>1, <3>2, <3>6, BecomeTyped DEF Deny, Become, TypeOK
    <3>7. CASE AnswerDelete(c)
      <4>1. call' \in [Calls -> CallState] /\ SessionsTypeOK'
            BY <1>2, <3>1, <3>7, BecomeTyped, DeleteUserTyped DEF AnswerDelete, Become, TypeOK
      <4> QED BY <1>2, <3>7, <4>1 DEF AnswerDelete, TypeOK
    <3>8. CASE Deleted(c)
          BY <1>2, <3>3, <3>8 DEF Deleted, Depart, Guarded, TypeOK, serverVars, SessionsTypeOK
    <3>9. CASE BeginRefresh(c)
      <4>1. held \in Token /\ call' \in [Calls -> CallState]
            BY <1>2, <3>1, <3>9, BecomeTyped DEF BeginRefresh, TypeOK
      <4>2. [at |-> "posted", token |-> held] \in RefreshState
            BY <4>1, ShapesTyped
      <4> QED BY <1>2, <3>1, <3>9, <4>1, <4>2 DEF BeginRefresh, TypeOK, serverVars, SessionsTypeOK
    <3>10. CASE NothingToRefresh(c)
      <4>1. call' \in [Calls -> CallState]
            BY <1>2, <3>1, <3>10, BecomeTyped DEF NothingToRefresh, Become, TypeOK
      <4> QED BY <1>2, <3>1, <3>10, <4>1 DEF NothingToRefresh, TypeOK, serverVars, SessionsTypeOK
    <3>11. CASE JoinRefresh(c)
      <4>1. CASE promise[TabOf[c]] = Stuck
            BY <1>2, <3>1, <3>2, <3>11, <4>1, BecomeTyped DEF JoinRefresh, TypeOK
      <4>2. CASE promise[TabOf[c]] # Stuck
        <5>1. promise[TabOf[c]] \in Calls \cup {None}
              BY <1>2, <3>1, <4>2 DEF TypeOK
        <5> QED BY <1>2, <3>2, <3>11, <4>2, <5>1, BecomeTyped DEF JoinRefresh, TypeOK
      <4> QED BY <4>1, <4>2
    <3>12. CASE Grant(c)
      <4>1. refresh[c].token \in Token /\ refresh[c].token.user \in users
            BY <1>2, <3>12 DEF Grant, TypeOK, RefreshState, NoRefresh, Insert, Insertable, Sign
      <4>2. SessionsTypeOK' /\ Sign(refresh[c].token.user) \in Token
            BY <1>2, <3>12, <4>1, InsertTyped, SignTyped DEF Grant, TypeOK
      <4>3. [at |-> "granted", token |-> Sign(refresh[c].token.user)] \in RefreshState
            BY <4>2, ShapesTyped
      <4>4. refresh' = [refresh EXCEPT ![c] = [at |-> "granted",
                                               token |-> Sign(refresh[c].token.user)]]
            BY <1>2, <3>12 DEF Grant, TypeOK
      <4> QED BY <1>2, <3>1, <3>12, <4>1, <4>2, <4>3, <4>4 DEF Grant, TypeOK
    <3>13. ASSUME Settle(c), held' \in Token \cup {None}, call' \in [Calls -> CallState]
           PROVE  TypeOK'
           BY <1>2, <3>1, <3>13, ShapesTyped DEF Settle, TypeOK, serverVars, SessionsTypeOK
    <3>14. CASE Refreshed(c)
      <4>1. refresh[c].token \in Token
            BY <1>2, <3>14 DEF Refreshed, TypeOK, RefreshState, NoRefresh
      <4>2. Request(refresh[c].token, FALSE) \in CallState
            BY <4>1, ShapesTyped
      <4> QED BY <1>2, <3>13, <3>14, <4>1, <4>2 DEF Refreshed, TypeOK
    <3>15. CASE RefreshFails(c)
      <4>1. \A d \in Calls : [call[d] EXCEPT !.at = "expired", !.on = None] \in CallState
            BY <1>2 DEF TypeOK, CallState
      <4> QED BY <1>2, <3>13, <3>15, <4>1 DEF RefreshFails, TypeOK
    <3> QED BY <2>3, <3>4, <3>5, <3>6, <3>7, <3>8, <3>9, <3>10, <3>11, <3>12, <3>14, <3>15
            DEF CallStep, CallReturns, RefreshEnds
  <2>4. CASE Clock
        BY <1>2, <2>4, TickTyped DEF Clock, clientVars, TypeOK
  <2> QED BY <1>2, <2>1, <2>2, <2>3, <2>4 DEF Next
<1> QED BY <1>1, <1>2, PTL DEF Spec

-----------------------------------------------------------------------------
(* The tokens the browser knows are rows.                                  *)

\* The tokens some tab holds, is about to be given or has exchanged.
Known(t) == \/ held = t
            \/ \E b \in Tabs : signin[b].token = t \/ t \in spent[b]
            \/ \E c \in Calls : refresh[c].token = t

\* They are rows, while their user exists.
KnownAreStored == \A t \in Token : Known(t) /\ t.user \in users => t \in tokens

\* Tokens are only forgotten, or handed on.
LEMMA NothingNew ==
    ASSUME KnownAreStored, \A t \in Token : Known(t)' => Known(t),
           \/ UNCHANGED <<users, tokens>>
           \/ \E u : users' = users \ {u} /\ tokens' = {t \in tokens : t.user # u}
    PROVE  KnownAreStored'
BY DEF KnownAreStored, Known

\* One pair is signed, and it is a row.
LEMMA OneNew ==
    ASSUME KnownAreStored, NEW n, Insert(n), \A t \in Token : Known(t)' => Known(t) \/ t = n
    PROVE  KnownAreStored'
BY DEF KnownAreStored, Insert

\* A page that is loaded forgets its refreshes.
LEMMA ContextForgets ==
    ASSUME TypeOK, NEW s \in Tabs, NewContext(s)
    PROVE  /\ \A c \in Calls : refresh'[c] = refresh[c] \/ refresh'[c] = NoRefresh
           /\ \A c \in Calls : TabOf[c] = s => refresh'[c] = NoRefresh
           /\ \A b \in Tabs : spent'[b] = spent[b] \/ spent'[b] = {}
           /\ spent'[s] = {} /\ promise'[s] = None
           /\ \A b \in Tabs : b # s => promise'[b] = promise[b]
           /\ \A c \in Calls : TabOf[c] # s => refresh'[c] = refresh[c]
BY DEF TypeOK, NewContext

LEMMA KnownAreStoredKept == TypeOK /\ KnownAreStored /\ [Next]_vars => KnownAreStored'
<1> SUFFICES ASSUME TypeOK, KnownAreStored, [Next]_vars  PROVE KnownAreStored'
    OBVIOUS
<1>1. NoRefresh.token \notin Token /\ NoSignin.token \notin Token /\ None \notin Token
      BY SessionsAssumption DEF NoRefresh, NoSignin
<1>2. CASE UNCHANGED vars \/ Clock
  <2>1. UNCHANGED <<users, tokens, held, signin, spent, refresh>>
        BY <1>2 DEF vars, clientVars, serverVars, Clock, Tick
  <2> QED BY <2>1, NothingNew DEF Known
<1>3. ASSUME NEW s \in Tabs, TabStep(s)  PROVE KnownAreStored'
  <2>1. CASE Load(s) \/ Leave(s)
    <3>1. NewContext(s) /\ signin' = [signin EXCEPT ![s] = NoSignin]
          /\ UNCHANGED <<users, tokens, held>>
          BY <2>1 DEF Load, Leave, serverVars
    <3>2. \A b \in Tabs : signin'[b] = signin[b] \/ signin'[b] = NoSignin
          BY <3>1 DEF TypeOK
    <3>3. \A t \in Token : Known(t)' => Known(t)
          BY <1>1, <3>1, <3>2, ContextForgets DEF Known
    <3> QED BY <3>1, <3>3, NothingNew
  <2>2. CASE Login(s)
    <3>1. PICK u \in users :
              Insert(Sign(u)) /\ signin' = [signin EXCEPT ![s] = [at |-> "login", token |-> Sign(u)]]
          BY <2>2 DEF Login
    <3>2. \A t \in Token : Known(t)' => Known(t) \/ t = Sign(u)
          BY <2>2, <3>1 DEF Login, Known, TypeOK
    <3> QED BY <3>1, <3>2, OneNew
  <2>3. CASE GoogleLogin(s)
    <3>1. PICK u \in users :
              /\ Insert(Sign(u))
              /\ signin' = [signin EXCEPT ![s] = [at |-> "callback", token |-> Sign(u)]]
          BY <2>3 DEF GoogleLogin
    <3>2. NewContext(s) /\ held' = held
          BY <2>3 DEF GoogleLogin
    <3>3. \A b \in Tabs : signin'[b] = signin[b] \/ signin'[b].token = Sign(u)
          BY <3>1 DEF TypeOK
    <3>4. \A t \in Token : Known(t)' => Known(t) \/ t = Sign(u)
          BY <1>1, <3>2, <3>3, ContextForgets DEF Known
    <3> QED BY <3>1, <3>4, OneNew
  <2>4. CASE SignedIn(s) \/ SigninFails(s) \/ SignOut(s)
    <3>1. /\ UNCHANGED <<users, tokens, refresh, spent>>
          /\ held' \in {held, None, signin[s].token}
          /\ \A b \in Tabs : signin'[b] = signin[b] \/ signin'[b] = NoSignin
          BY <2>4 DEF SignedIn, SigninFails, SignOut, Depart, TypeOK, serverVars
    <3>2. \A t \in Token : Known(t)' => Known(t)
          BY <1>1, <3>1 DEF Known
    <3> QED BY <3>1, <3>2, NothingNew
  <2> QED BY <1>3, <2>1, <2>2, <2>3, <2>4 DEF TabStep
<1>4. ASSUME NEW c \in Calls, CallStep(c)  PROVE KnownAreStored'
  <2>1. ASSUME UNCHANGED <<held, signin, spent, refresh>>,
               \/ UNCHANGED serverVars
               \/ \E u : DeleteUser(u)
        PROVE  KnownAreStored'
        BY <2>1, NothingNew DEF Known, DeleteUser, serverVars
  <2>2. CASE \/ Send(c) \/ Answer(c) \/ Deny(c) \/ CallLost(c) \/ DeniedAgain(c)
             \/ NothingToRefresh(c) \/ JoinRefresh(c) \/ AnswerDelete(c)
        BY <2>1, <2>2 DEF Send, Answer, Deny, CallLost, DeniedAgain, NothingToRefresh, JoinRefresh,
            AnswerDelete
  <2>3. CASE Deleted(c)
    <3>1. held' = None /\ UNCHANGED <<users, tokens, signin, spent, refresh>>
          BY <2>3 DEF Deleted, Depart, serverVars
    <3> QED BY <1>1, <3>1, NothingNew DEF Known
  <2>4. CASE BeginRefresh(c)
    <3>1. /\ UNCHANGED <<users, tokens, held, signin, spent>>
          /\ \A d \in Calls : refresh'[d] = refresh[d] \/ refresh'[d].token = held
          BY <2>4 DEF BeginRefresh, TypeOK, serverVars
    <3>2. \A t \in Token : Known(t)' => Known(t)
          BY <3>1 DEF Known
    <3> QED BY <3>1, <3>2, NothingNew
  <2>5. CASE Grant(c)
    <3>1. TabOf[c] \in Tabs /\ UNCHANGED <<held, signin>>
          BY <2>5, ClientAssumption DEF Grant
    <3>2. /\ Insert(Sign(refresh[c].token.user))
          /\ \A d \in Calls : \/ refresh'[d] = refresh[d]
                              \/ refresh'[d].token = Sign(refresh[c].token.user)
          /\ \A b \in Tabs : spent'[b] \subseteq spent[b] \cup {refresh[c].token}
          BY <2>5, <3>1 DEF Grant, TypeOK
    <3>3. \A t \in Token : Known(t)' => Known(t) \/ t = Sign(refresh[c].token.user)
          BY <3>1, <3>2 DEF Known
    <3> QED BY <3>2, <3>3, OneNew
  <2>6. CASE Refreshed(c) \/ RefreshFails(c)
    <3>1. /\ UNCHANGED <<users, tokens, signin, spent>>
          /\ held' \in {None, refresh[c].token}
          /\ \A d \in Calls : refresh'[d] = refresh[d] \/ refresh'[d] = NoRefresh
          BY <2>6 DEF Refreshed, RefreshFails, Settle, TypeOK, serverVars
    <3>2. \A t \in Token : Known(t)' => Known(t)
          BY <1>1, <3>1 DEF Known
    <3> QED BY <3>1, <3>2, NothingNew
  <2> QED BY <1>4, <2>2, <2>3, <2>4, <2>5, <2>6 DEF CallStep, CallReturns, RefreshEnds
<1> QED BY <1>2, <1>3, <1>4 DEF Next

LEMMA KnownInitially == Init => KnownAreStored
BY SessionsAssumption DEF Init, NoSignin, NoRefresh, Known, KnownAreStored

-----------------------------------------------------------------------------
(* Each refresh token is exchanged once by a page.                         *)

\* One refresh at a time in each tab.
OnePromise == \A c \in Calls : refresh[c].at # "none" => promise[TabOf[c]] = c

\* A token that a tab has exchanged is not held any more, or not for long.
HeldIsUnspent ==
    \A b \in Tabs : held # None /\ held \in spent[b] =>
        \E c \in Calls : TabOf[c] = b /\ refresh[c].at = "granted"

OnceInv == OnePromise /\ HeldIsUnspent /\ HandedOutOnce /\ ExchangedOnce

\* The pair that is signed is known to nobody.
LEMMA SignedIsNew ==
    ASSUME TypeOK, KnownAreStored, NEW u \in users, Insert(Sign(u))
    PROVE  /\ Sign(u) \in Token /\ Sign(u) # None /\ held # Sign(u)
           /\ \A b \in Tabs : signin[b].token # Sign(u) /\ Sign(u) \notin spent[b]
           /\ \A c \in Calls : refresh[c].token # Sign(u)
<1>1. Sign(u) \in Token /\ Sign(u).user = u /\ Sign(u) \notin tokens
      BY SignTyped DEF TypeOK, Insert, Insertable, Sign
<1>2. ~ Known(Sign(u)) /\ Sign(u) # None
      BY <1>1, SessionsAssumption DEF KnownAreStored
<1> QED BY <1>1, <1>2 DEF Known

\* Pages that are loaded, and refreshes that end, forget.
LEMMA ForgettingKeepsOnce ==
    ASSUME TypeOK, OnceInv, held' \in {held, None},
           \A c \in Calls : refresh'[c] = refresh[c] \/ refresh'[c] = NoRefresh,
           \A c \in Calls : refresh'[c] = refresh[c] => \/ promise'[TabOf[c]] = promise[TabOf[c]]
                                                        \/ refresh[c].at = "none",
           \A b \in Tabs : spent'[b] = spent[b] \/ spent'[b] = {},
           \A b \in Tabs : signin'[b] = signin[b] \/ signin'[b] = NoSignin,
           \A c \in Calls : \/ refresh'[c] = refresh[c] \/ held' = None \/ spent'[TabOf[c]] = {}
    PROVE  OnceInv'
<1>1. /\ NoRefresh.token = None /\ NoSignin.token = None /\ NoRefresh.at = "none"
      /\ None \notin Token /\ \A c \in Calls : TabOf[c] \in Tabs
      /\ \A b \in Tabs : signin[b] # NoSignin => signin[b].token \in Token
      /\ \A c \in Calls : refresh[c].at = "granted" => refresh[c].token \in Token
      BY SessionsAssumption, ClientAssumption
      DEF NoRefresh, NoSignin, TypeOK, RefreshState, SigninState
<1>2. OnePromise'
      BY <1>1 DEF OnceInv, HandedOutOnce, OnePromise
<1>3. HeldIsUnspent'
      BY <1>1 DEF OnceInv, HandedOutOnce, HeldIsUnspent
<1>4. FreshSignin'
      BY <1>1 DEF OnceInv, HandedOutOnce, FreshSignin
<1>5. FreshGrant'
      BY <1>1 DEF OnceInv, HandedOutOnce, FreshGrant
<1>6. ExchangedOnce'
      BY <1>1 DEF OnceInv, HandedOutOnce, ExchangedOnce
<1> QED BY <1>2, <1>3, <1>4, <1>5, <1>6 DEF OnceInv, HandedOutOnce

LEMMA OnceInvKept == TypeOK /\ KnownAreStored /\ OnceInv /\ [Next]_vars => OnceInv'
<1> SUFFICES ASSUME TypeOK, KnownAreStored, OnceInv, [Next]_vars  PROVE OnceInv'
    OBVIOUS
<1>1. /\ NoRefresh.token = None /\ NoSignin.token = None /\ NoRefresh.at = "none"
      /\ None \notin Token /\ None \notin Calls /\ \A c \in Calls : TabOf[c] \in Tabs
      /\ \A b \in Tabs : signin[b] # NoSignin => signin[b].token \in Token
      /\ \A c \in Calls : refresh[c].at # "none" => refresh[c].token \in Token
      /\ signin \in [Tabs -> SigninState] /\ refresh \in [Calls -> RefreshState]
      /\ promise \in [Tabs -> Calls \cup {None, Stuck}] /\ spent \in [Tabs -> SUBSET Token]
      BY SessionsAssumption, ClientAssumption
      DEF NoRefresh, NoSignin, TypeOK, RefreshState, SigninState
<1>2. ASSUME UNCHANGED <<held, signin, spent, refresh, promise>>  PROVE OnceInv'
      BY <1>2 DEF OnceInv, HandedOutOnce, OnePromise, HeldIsUnspent, FreshSignin, FreshGrant, ExchangedOnce
<1>3. CASE UNCHANGED vars \/ Clock
      BY <1>2, <1>3 DEF vars, clientVars, Clock
<1>4. ASSUME NEW s \in Tabs, TabStep(s)  PROVE OnceInv'
  <2>1. CASE Load(s) \/ Leave(s)
    <3>1. NewContext(s) /\ signin' = [signin EXCEPT ![s] = NoSignin] /\ held' = held
          BY <2>1 DEF Load, Leave
    <3>2. \A b \in Tabs : signin'[b] = signin[b] \/ signin'[b] = NoSignin
          BY <1>1, <3>1
    <3> QED BY <1>1, <3>1, <3>2, ContextForgets, ForgettingKeepsOnce
  <2>2. ASSUME NEW at \in {"login", "callback"}, NEW u \in users, Insert(Sign(u)),
               signin' = [signin EXCEPT ![s] = [at |-> at, token |-> Sign(u)]],
               UNCHANGED <<held, spent, refresh, promise>>
        PROVE  OnceInv'
    <3>1. /\ Sign(u) \in Token /\ Sign(u) # None /\ held # Sign(u)
          /\ \A b \in Tabs : signin[b].token # Sign(u) /\ Sign(u) \notin spent[b]
          /\ \A c \in Calls : refresh[c].token # Sign(u)
          BY <2>2, SignedIsNew
    <3>2. /\ signin'[s].token = Sign(u) /\ \A b \in Tabs : b # s => signin'[b] = signin[b]
          BY <1>1, <2>2
    <3>3. OnePromise' /\ HeldIsUnspent' /\ ExchangedOnce'
          BY <2>2 DEF OnceInv, HandedOutOnce, OnePromise, HeldIsUnspent, ExchangedOnce
    <3>4. FreshSignin'
          BY <2>2, <3>1, <3>2 DEF OnceInv, HandedOutOnce, FreshSignin
    <3>5. FreshGrant'
          BY <2>2, <3>1, <3>2 DEF OnceInv, HandedOutOnce, FreshGrant
    <3> QED BY <3>3, <3>4, <3>5 DEF OnceInv, HandedOutOnce
  <2>3. CASE Login(s)
        BY <2>2, <2>3 DEF Login
  <2>4. CASE GoogleLogin(s)
    <3>1. PICK u \in users :
              /\ Insert(Sign(u))
              /\ signin' = [signin EXCEPT ![s] = [at |-> "callback", token |-> Sign(u)]]
          BY <2>4 DEF GoogleLogin
    <3>2. NewContext(s) /\ held' = held
          BY <2>4 DEF GoogleLogin
    <3>3. /\ Sign(u) \in Token /\ Sign(u) # None /\ held # Sign(u)
          /\ \A b \in Tabs : signin[b].token # Sign(u) /\ Sign(u) \notin spent[b]
          /\ \A c \in Calls : refresh[c].token # Sign(u)
          BY <3>1, SignedIsNew
    <3>4. /\ signin'[s].token = Sign(u) /\ \A b \in Tabs : b # s => signin'[b] = signin[b]
          BY <1>1, <3>1
    <3>5. OnePromise' /\ HeldIsUnspent' /\ ExchangedOnce'
          BY <1>1, <3>2, ContextForgets DEF OnceInv, HandedOutOnce, OnePromise, HeldIsUnspent, ExchangedOnce
    <3>6. FreshSignin'
          BY <1>1, <3>2, <3>3, <3>4, ContextForgets DEF OnceInv, HandedOutOnce, FreshSignin
    <3>7. FreshGrant'
          BY <1>1, <3>2, <3>3, <3>4, ContextForgets DEF OnceInv, HandedOutOnce, FreshGrant
    <3> QED BY <3>5, <3>6, <3>7 DEF OnceInv, HandedOutOnce
  <2>5. CASE SignedIn(s)
    <3>1. /\ signin[s] # NoSignin /\ held' = signin[s].token /\ signin'[s] = NoSignin
          /\ \A b \in Tabs : b # s => signin'[b] = signin[b]
          /\ UNCHANGED <<spent, refresh, promise>>
          BY <1>1, <2>5 DEF SignedIn
    <3>2. OnePromise' /\ ExchangedOnce'
          BY <3>1 DEF OnceInv, HandedOutOnce, OnePromise, ExchangedOnce
    <3>3. HeldIsUnspent'
          BY <3>1 DEF OnceInv, HandedOutOnce, HeldIsUnspent, FreshSignin
    <3>4. FreshSignin'
          BY <1>1, <3>1 DEF OnceInv, HandedOutOnce, FreshSignin
    <3>5. FreshGrant'
          BY <1>1, <3>1 DEF OnceInv, HandedOutOnce, FreshGrant
    <3> QED BY <3>2, <3>3, <3>4, <3>5 DEF OnceInv, HandedOutOnce
  <2>6. CASE SigninFails(s) \/ SignOut(s)
    <3>1. /\ held' \in {held, None} /\ UNCHANGED <<spent, refresh, promise>>
          /\ \A b \in Tabs : signin'[b] = signin[b] \/ signin'[b] = NoSignin
          BY <1>1, <2>6 DEF SigninFails, SignOut, Depart
    <3> QED BY <3>1, ForgettingKeepsOnce
  <2> QED BY <1>4, <2>1, <2>3, <2>4, <2>5, <2>6 DEF TabStep
<1>5. ASSUME NEW c \in Calls, CallStep(c)  PROVE OnceInv'
  <2>1. CASE \/ Send(c) \/ Answer(c) \/ Deny(c) \/ CallLost(c) \/ DeniedAgain(c)
             \/ JoinRefresh(c) \/ AnswerDelete(c)
        BY <1>2, <2>1 DEF Send, Answer, Deny, CallLost, DeniedAgain, JoinRefresh, AnswerDelete
  <2>2. CASE Deleted(c)
    <3>1. held' = None /\ UNCHANGED <<signin, spent, refresh, promise>>
          BY <2>2 DEF Deleted, Depart
    <3> QED BY <3>1, ForgettingKeepsOnce
  <2>3. CASE NothingToRefresh(c)
    <3>1. /\ promise[TabOf[c]] = None /\ UNCHANGED <<held, signin, spent, refresh>>
          /\ \A b \in Tabs : b # TabOf[c] => promise'[b] = promise[b]
          BY <1>1, <2>3 DEF NothingToRefresh
    <3>2. \A d \in Calls : TabOf[d] = TabOf[c] => refresh[d].at = "none"
          BY <1>1, <3>1 DEF OnceInv, HandedOutOnce, OnePromise
    <3> QED BY <1>1, <3>1, <3>2, ForgettingKeepsOnce
  <2>4. CASE BeginRefresh(c)
    <3>1. /\ promise[TabOf[c]] = None /\ held # None /\ UNCHANGED <<held, signin, spent>>
          /\ promise'[TabOf[c]] = c /\ \A b \in Tabs : b # TabOf[c] => promise'[b] = promise[b]
          /\ refresh'[c].at = "posted" /\ refresh'[c].token = held
          /\ \A d \in Calls : d # c => refresh'[d] = refresh[d]
          BY <1>1, <2>4 DEF BeginRefresh
    <3>2. \A d \in Calls : TabOf[d] = TabOf[c] => refresh[d].at = "none"
          BY <1>1, <3>1 DEF OnceInv, HandedOutOnce, OnePromise
    <3>3. OnePromise'
          BY <1>1, <3>1, <3>2 DEF OnceInv, HandedOutOnce, OnePromise
    <3>4. held \notin spent[TabOf[c]]
          BY <3>1, <1>1, <3>2 DEF OnceInv, HandedOutOnce, HeldIsUnspent
    <3>5. HeldIsUnspent'
          BY <1>1, <3>1, <3>2 DEF OnceInv, HandedOutOnce, HeldIsUnspent
    <3>6. FreshSignin' /\ FreshGrant'
          BY <3>1 DEF OnceInv, HandedOutOnce, FreshSignin, FreshGrant
    <3>7. ExchangedOnce'
          BY <3>1, <3>4 DEF OnceInv, HandedOutOnce, ExchangedOnce
    <3> QED BY <3>3, <3>5, <3>6, <3>7 DEF OnceInv, HandedOutOnce
  <2>5. CASE Grant(c)
    <3> DEFINE old == refresh[c].token
               new == Sign(refresh[c].token.user)
    <3>1. /\ refresh[c].at = "posted" /\ Insert(new) /\ UNCHANGED <<held, signin, promise>>
          /\ refresh'[c].at = "granted" /\ refresh'[c].token = new
          /\ \A d \in Calls : d # c => refresh'[d] = refresh[d]
          /\ spent'[TabOf[c]] = spent[TabOf[c]] \cup {old}
          /\ \A b \in Tabs : b # TabOf[c] => spent'[b] = spent[b]
          BY <1>1, <2>5 DEF Grant
    <3>2. old \in Token /\ old.user \in users
          BY <1>1, <3>1 DEF Insert, Insertable, Sign
    <3>3. /\ new \in Token /\ new # None /\ held # new
          /\ \A b \in Tabs : signin[b].token # new /\ new \notin spent[b]
          /\ \A d \in Calls : refresh[d].token # new
          BY <3>1, <3>2, SignedIsNew
    <3> HIDE DEF old, new
    <3>4. old = refresh[c].token
          BY DEF old
    <3>5. OnePromise'
          BY <3>1 DEF OnceInv, HandedOutOnce, OnePromise
    <3>6. HeldIsUnspent'
          BY <1>1, <3>1 DEF OnceInv, HandedOutOnce, HeldIsUnspent
    <3>7. FreshSignin'
          BY <1>1, <3>1, <3>3, <3>4 DEF OnceInv, HandedOutOnce, FreshSignin
    <3>8. FreshGrant'
          BY <1>1, <3>1, <3>3, <3>4 DEF OnceInv, HandedOutOnce, FreshGrant
    <3>9. ExchangedOnce'
      <4>1. \A d \in Calls : TabOf[d] = TabOf[c] /\ refresh[d].at # "none" => d = c
            BY <3>1 DEF OnceInv, HandedOutOnce, OnePromise
      <4> QED BY <1>1, <3>1, <4>1 DEF OnceInv, HandedOutOnce, ExchangedOnce
    <3> QED BY <3>5, <3>6, <3>7, <3>8, <3>9 DEF OnceInv, HandedOutOnce
  <2>6. \A d \in Calls : refresh[d].at # "none" /\ TabOf[d] = TabOf[c] /\ refresh[c].at # "none"
                           => d = c
        BY DEF OnceInv, HandedOutOnce, OnePromise
  <2>7. CASE Refreshed(c)
    <3>1. /\ refresh[c].at = "granted" /\ held' = refresh[c].token /\ refresh'[c] = NoRefresh
          /\ \A d \in Calls : d # c => refresh'[d] = refresh[d]
          /\ \A b \in Tabs : b # TabOf[c] => promise'[b] = promise[b]
          /\ UNCHANGED <<signin, spent>>
          BY <1>1, <2>7 DEF Refreshed, Settle
    <3>2. OnePromise'
          BY <1>1, <2>6, <3>1 DEF OnceInv, HandedOutOnce, OnePromise
    <3>3. HeldIsUnspent'
          BY <3>1 DEF OnceInv, HandedOutOnce, HeldIsUnspent, FreshGrant
    <3>4. FreshSignin'
          BY <1>1, <3>1 DEF OnceInv, HandedOutOnce, FreshSignin
    <3>5. FreshGrant'
          BY <1>1, <3>1 DEF OnceInv, HandedOutOnce, FreshGrant
    <3>6. ExchangedOnce'
          BY <1>1, <3>1 DEF OnceInv, HandedOutOnce, ExchangedOnce
    <3> QED BY <3>2, <3>3, <3>4, <3>5, <3>6 DEF OnceInv, HandedOutOnce
  <2>8. CASE RefreshFails(c)
    <3>1. /\ refresh[c].at # "none" /\ held' = None /\ refresh'[c] = NoRefresh
          /\ \A d \in Calls : d # c => refresh'[d] = refresh[d]
          /\ \A b \in Tabs : b # TabOf[c] => promise'[b] = promise[b]
          /\ UNCHANGED <<signin, spent>>
          BY <1>1, <2>8 DEF RefreshFails, Settle
    <3>2. \A d \in Calls : refresh'[d] = refresh[d] => \/ promise'[TabOf[d]] = promise[TabOf[d]]
                                                       \/ refresh[d].at = "none"
          BY <1>1, <2>6, <3>1
    <3> QED BY <3>1, <3>2, ForgettingKeepsOnce
  <2> QED BY <1>5, <2>1, <2>2, <2>3, <2>4, <2>5, <2>7, <2>8 DEF CallStep, CallReturns, RefreshEnds
<1> QED BY <1>3, <1>4, <1>5 DEF Next

\* The invariant holds from the beginning.
LEMMA OnceHolds == Spec => []OnceInv
<1>1. Init => OnceInv
  <2> SUFFICES ASSUME Init  PROVE OnceInv
      OBVIOUS
  <2>1. held = None /\ \A c \in Calls : refresh[c].at = "none"
        BY DEF Init, NoRefresh
  <2>2. \A b \in Tabs : signin[b] = NoSignin
        BY DEF Init
  <2> QED BY <2>1, <2>2 DEF OnceInv, HandedOutOnce, OnePromise, HeldIsUnspent, FreshSignin, FreshGrant, ExchangedOnce
<1> QED BY <1>1, TypeCorrect, KnownInitially, KnownAreStoredKept, OnceInvKept, PTL DEF Spec

\* The server signs equal pairs within a second, but a pair that is handed to a
\* sign-in or a refresh is a new row, and no tab knew it: none gets, holds or
\* presents what is on its way to another (auth_service.go 219-259, 302-338).
THEOREM HandedOut == Spec => []HandedOutOnce
<1>1. OnceInv => HandedOutOnce
      BY DEF OnceInv
<1> QED BY <1>1, OnceHolds, PTL

\* The calls of a page share one refreshPromise, and what they find after it is
\* settled is another token: none is exchanged twice, for any number of calls
\* and tabs (api.ts 82-117).
THEOREM OnceExchanged == Spec => []ExchangedOnce
<1>1. OnceInv => ExchangedOnce
      BY DEF OnceInv, HandedOutOnce
<1> QED BY <1>1, OnceHolds, PTL

-----------------------------------------------------------------------------
(* Waiting.                                                                *)

\* A step that moves one call, which has not found its session expired, and
\* does not leave it waiting.
LEMMA OneCallMoves ==
    ASSUME NothingWaitsInVain, NEW c \in Calls,
           call[c].at # "expired", call'[c].at # "waiting",
           \A d \in Calls : d # c => call'[d] = call[d],
           UNCHANGED <<promise, refresh>>
    PROVE  NothingWaitsInVain'
<1>1. \A t \in Tabs : PromiseIsKept(t)'
      BY DEF NothingWaitsInVain, PromiseIsKept, CallsOf
<1>2. \A d \in Calls : WaitIsAnswered(d)'
      BY DEF NothingWaitsInVain, WaitIsAnswered, CallsOf
<1> QED BY <1>1, <1>2 DEF NothingWaitsInVain

\* A page load takes the calls that wait, their refresh and the promise together.
LEMMA LoadedWaitsForNothing ==
    ASSUME TypeOK, NothingWaitsInVain, NEW s \in Tabs, NewContext(s)
    PROVE  NothingWaitsInVain'
<1>1. /\ NoCall.at = "idle" /\ None \notin Calls /\ Stuck # None
      /\ \A c \in Calls : IF TabOf[c] = s THEN call'[c] = NoCall ELSE call'[c] = call[c]
      /\ \A c \in Calls : TabOf[c] # s => refresh'[c] = refresh[c]
      /\ promise'[s] = None /\ \A t \in Tabs : t # s => promise'[t] = promise[t]
      BY ClientAssumption DEF NoCall, NewContext, TypeOK
<1>2. ASSUME NEW t \in Tabs  PROVE PromiseIsKept(t)'
  <2>1. CASE t = s
        BY <1>1, <2>1 DEF PromiseIsKept
  <2>2. CASE t # s
        BY <1>1, <2>2 DEF NothingWaitsInVain, PromiseIsKept, CallsOf
  <2> QED BY <2>1, <2>2
<1>3. ASSUME NEW c \in Calls  PROVE WaitIsAnswered(c)'
      BY <1>1 DEF NothingWaitsInVain, WaitIsAnswered, CallsOf
<1> QED BY <1>2, <1>3 DEF NothingWaitsInVain

\* The end of a refresh releases every call that waits for it.
LEMMA SettledReleases ==
    ASSUME TypeOK, OnePromise, NothingWaitsInVain, NEW c \in Calls, refresh[c].at # "none",
           Settle(c),
           \A d \in Waiting(c) : call'[d].at # "waiting",
           \A d \in Calls : d \notin Waiting(c) => call'[d] = call[d]
    PROVE  NothingWaitsInVain'
<1>1. /\ None \notin Calls /\ Stuck # None /\ \A d \in Calls : TabOf[d] \in Tabs
      /\ \A d \in Calls : d # c => refresh'[d] = refresh[d]
      /\ promise'[TabOf[c]] = None /\ \A t \in Tabs : t # TabOf[c] => promise'[t] = promise[t]
      BY ClientAssumption DEF Settle, TypeOK
<1>2. ASSUME NEW t \in Tabs  PROVE PromiseIsKept(t)'
  <2>1. CASE t = TabOf[c]
        BY <1>1, <2>1 DEF PromiseIsKept
  <2>2. CASE t # TabOf[c]
    <3>1. PromiseIsKept(t) /\ promise'[t] = promise[t]
          BY <1>1, <2>2 DEF NothingWaitsInVain
    <3>2. promise[t] \in Calls => promise[t] # c
          BY <2>2, <3>1 DEF PromiseIsKept
    <3>3. \A d \in CallsOf(t) : call[d].at = "expired" => call'[d] = call[d]
          BY DEF Waiting, CallsOf
    <3> QED BY <1>1, <3>1, <3>2, <3>3 DEF PromiseIsKept, CallsOf
  <2> QED BY <2>1, <2>2
<1>3. ASSUME NEW d \in Calls  PROVE WaitIsAnswered(d)'
  <2>1. CASE d \in Waiting(c)
        BY <2>1 DEF WaitIsAnswered
  <2>2. CASE d \notin Waiting(c)
        BY <1>1, <2>2 DEF NothingWaitsInVain, WaitIsAnswered, Waiting, CallsOf
  <2> QED BY <2>1, <2>2
<1> QED BY <1>2, <1>3 DEF NothingWaitsInVain

LEMMA WaitsKept == TypeOK /\ OnePromise /\ NothingWaitsInVain /\ [Next]_vars => NothingWaitsInVain'
<1> SUFFICES ASSUME TypeOK, OnePromise, NothingWaitsInVain, [Next]_vars
             PROVE  NothingWaitsInVain'
    OBVIOUS
<1>1. /\ None \notin Calls /\ Stuck \notin Calls /\ Stuck # None
      /\ \A c \in Calls : TabOf[c] \in Tabs /\ call[c] \in CallState
      /\ promise \in [Tabs -> Calls \cup {None, Stuck}] /\ DOMAIN call = Calls
      BY ClientAssumption DEF TypeOK
<1>2. ASSUME UNCHANGED <<call, promise, refresh>>  PROVE NothingWaitsInVain'
      BY <1>2 DEF NothingWaitsInVain, PromiseIsKept, WaitIsAnswered, CallsOf
<1>3. CASE UNCHANGED vars \/ Clock
      BY <1>2, <1>3 DEF vars, clientVars, Clock
<1>4. ASSUME NEW s \in Tabs, TabStep(s)  PROVE NothingWaitsInVain'
  <2>1. CASE Load(s) \/ Leave(s) \/ GoogleLogin(s)
    <3>1. NewContext(s)
          BY <2>1 DEF Load, Leave, GoogleLogin
    <3> QED BY <3>1, LoadedWaitsForNothing
  <2>2. CASE Login(s) \/ SignedIn(s) \/ SigninFails(s) \/ SignOut(s)
        BY <1>2, <2>2 DEF Login, SignedIn, SigninFails, SignOut
  <2> QED BY <1>4, <2>1, <2>2 DEF TabStep
<1>5. ASSUME NEW c \in Calls, CallStep(c)  PROVE NothingWaitsInVain'
  <2>1. CASE \/ Send(c) \/ Answer(c) \/ Deny(c) \/ CallLost(c) \/ DeniedAgain(c)
             \/ AnswerDelete(c) \/ Deleted(c)
    <3>1. /\ call[c].at # "expired" /\ UNCHANGED <<promise, refresh>>
          /\ \E x : call' = [call EXCEPT ![c] = x] /\ x.at # "waiting"
      <4>1. CASE Send(c)
        <5>1. call' = [call EXCEPT ![c] = Request(held, TRUE)] /\ call[c].at = "idle"
              BY <4>1 DEF Send
        <5>2. Request(held, TRUE).at = "sent"
              BY DEF Request
        <5>3. UNCHANGED <<promise, refresh>>
              BY <4>1 DEF Send
        <5> QED BY <5>1, <5>2, <5>3
      <4>2. CASE Answer(c) \/ CallLost(c) \/ DeniedAgain(c) \/ Deleted(c)
            BY <4>2 DEF Answer, CallLost, DeniedAgain, Deleted, Return, NoCall
      <4>3. CASE Deny(c)
        <5>1. call' = [call EXCEPT ![c] = [call[c] EXCEPT !.at = "denied"]]
              BY <4>3 DEF Deny, Become
        <5>2. [call[c] EXCEPT !.at = "denied"].at = "denied"
              BY <1>1 DEF CallState
        <5> QED BY <4>3, <5>1, <5>2 DEF Deny
      <4>4. CASE AnswerDelete(c)
        <5>1. call' = [call EXCEPT ![c] = [call[c] EXCEPT !.at = "deleted"]]
              BY <4>4 DEF AnswerDelete, Become
        <5>2. [call[c] EXCEPT !.at = "deleted"].at = "deleted"
              BY <1>1 DEF CallState
        <5> QED BY <4>4, <5>1, <5>2 DEF AnswerDelete
      <4> QED BY <2>1, <4>1, <4>2, <4>3, <4>4
    <3>2. call'[c].at # "waiting" /\ \A d \in Calls : d # c => call'[d] = call[d]
          BY <1>1, <3>1
    <3> QED BY <3>1, <3>2, OneCallMoves
  <2>2. CASE NothingToRefresh(c)
    <3>1. /\ promise'[TabOf[c]] = Stuck /\ \A t \in Tabs : t # TabOf[c] => promise'[t] = promise[t]
          /\ call'[c].at = "expired" /\ \A d \in Calls : d # c => call'[d] = call[d]
          /\ call[c].at = "denied" /\ UNCHANGED refresh
          BY <1>1, <2>2 DEF NothingToRefresh, Become, CallState
    <3>2. \A t \in Tabs : PromiseIsKept(t)'
          BY <1>1, <3>1 DEF NothingWaitsInVain, PromiseIsKept, CallsOf
    <3>3. \A d \in Calls : WaitIsAnswered(d)'
          BY <3>1 DEF NothingWaitsInVain, WaitIsAnswered, CallsOf
    <3> QED BY <3>2, <3>3 DEF NothingWaitsInVain
  <2>3. CASE BeginRefresh(c)
    <3>1. call' = [call EXCEPT ![c] = [call[c] EXCEPT !.at = "waiting", !.on = c]]
          BY <2>3 DEF BeginRefresh
    <3>2. /\ promise'[TabOf[c]] = c /\ \A t \in Tabs : t # TabOf[c] => promise'[t] = promise[t]
          /\ call'[c].on = c /\ \A d \in Calls : d # c => call'[d] = call[d]
          /\ call[c].at = "denied" /\ refresh'[c].at = "posted"
          /\ \A d \in Calls : d # c => refresh'[d] = refresh[d]
          BY <1>1, <2>3, <3>1 DEF BeginRefresh, CallState, TypeOK
    <3>3. \A t \in Tabs : PromiseIsKept(t)'
          BY <1>1, <3>2 DEF NothingWaitsInVain, PromiseIsKept, CallsOf
    <3>4. \A d \in Calls : WaitIsAnswered(d)'
          BY <3>2 DEF NothingWaitsInVain, WaitIsAnswered, CallsOf
    <3> QED BY <3>3, <3>4 DEF NothingWaitsInVain
  <2>4. CASE JoinRefresh(c)
    <3> DEFINE on == promise[TabOf[c]]
    <3>1. call[c].at = "denied" /\ on # None /\ UNCHANGED <<promise, refresh>>
          BY <2>4 DEF JoinRefresh
    <3>2. CASE on = Stuck
      <4>1. call' = [call EXCEPT ![c] = [call[c] EXCEPT !.at = "expired"]]
            BY <2>4, <3>2 DEF JoinRefresh
      <4>2. call'[c].at # "waiting" /\ \A d \in Calls : d # c => call'[d] = call[d]
            BY <1>1, <4>1 DEF CallState
      <4> QED BY <3>1, <4>2, OneCallMoves
    <3>3. CASE on # Stuck
      <4>1. call' = [call EXCEPT ![c] = [call[c] EXCEPT !.at = "waiting", !.on = on]]
            BY <2>4, <3>3 DEF JoinRefresh
      <4>2. call'[c].on = on /\ \A d \in Calls : d # c => call'[d] = call[d]
            BY <1>1, <4>1 DEF CallState
      <4>3. on \in CallsOf(TabOf[c]) /\ refresh[on].at # "none"
            BY <1>1, <3>1, <3>3 DEF NothingWaitsInVain, PromiseIsKept, CallsOf
      <4>4. \A t \in Tabs : PromiseIsKept(t)'
            BY <3>1, <4>2 DEF NothingWaitsInVain, PromiseIsKept, CallsOf
      <4>5. \A d \in Calls : WaitIsAnswered(d)'
            BY <3>1, <4>2, <4>3 DEF NothingWaitsInVain, WaitIsAnswered, CallsOf
      <4> QED BY <4>4, <4>5 DEF NothingWaitsInVain
    <3> QED BY <3>2, <3>3
  <2>5. CASE Grant(c)
    <3>1. /\ UNCHANGED <<call, promise>> /\ refresh'[c].at = "granted"
          /\ \A d \in Calls : d # c => refresh'[d] = refresh[d]
          BY <2>5 DEF Grant, TypeOK
    <3> QED BY <3>1 DEF NothingWaitsInVain, PromiseIsKept, WaitIsAnswered, CallsOf
  <2>6. CASE Refreshed(c)
    <3>1. /\ refresh[c].at # "none" /\ Settle(c)
          /\ \A d \in Calls : call'[d] = IF d \in Waiting(c) THEN Request(refresh[c].token, FALSE)
                                         ELSE call[d]
          BY <2>6 DEF Refreshed
    <3>2. Waiting(c) \subseteq Calls /\ Request(refresh[c].token, FALSE).at = "sent"
          BY DEF Waiting, Request
    <3> QED BY <3>1, <3>2, SettledReleases
  <2>7. CASE RefreshFails(c)
    <3>1. /\ refresh[c].at # "none" /\ Settle(c)
          /\ \A d \in Calls : call'[d] = IF d \in Waiting(c)
                                         THEN [call[d] EXCEPT !.at = "expired", !.on = None]
                                         ELSE call[d]
          BY <2>7 DEF RefreshFails
    <3>2. ASSUME NEW d \in Waiting(c)  PROVE call'[d].at # "waiting"
      <4>1. d \in Calls /\ call[d] \in CallState
            BY <1>1 DEF Waiting
      <4>2. call'[d] = [call[d] EXCEPT !.at = "expired", !.on = None]
            BY <3>1, <4>1
      <4> QED BY <4>1, <4>2 DEF CallState
    <3> QED BY <3>1, <3>2, SettledReleases
  <2> QED BY <1>5, <2>1, <2>2, <2>3, <2>4, <2>5, <2>6, <2>7 DEF CallStep, CallReturns, RefreshEnds
<1> QED BY <1>3, <1>4, <1>5 DEF Next

\* What the liveness of apiFetch stands on: whoever waits for a refresh waits
\* for one that is under way in its own page, and a promise that can never be
\* reset is in a page that is about to be left (api.ts 82-109, 133-146).
THEOREM WaitsAreAnswered == Spec => []NothingWaitsInVain
<1>1. Init => NothingWaitsInVain
  <2> SUFFICES ASSUME Init  PROVE NothingWaitsInVain
      OBVIOUS
  <2>1. /\ \A t \in Tabs : promise[t] = None
        /\ \A c \in Calls : call[c].at = "idle"
        BY DEF Init, NoCall
  <2> QED BY <2>1, ClientAssumption DEF NothingWaitsInVain, PromiseIsKept, WaitIsAnswered
<1>2. OnceInv => OnePromise
      BY DEF OnceInv, HandedOutOnce
<1> QED BY <1>1, <1>2, TypeCorrect, OnceHolds, WaitsKept, PTL DEF Spec

=============================================================================
