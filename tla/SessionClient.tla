--------------------------- MODULE SessionClient ---------------------------
(***************************************************************************)
(* The dashboard's API client (lib/api.ts, lib/auth.ts), its guards and    *)
(* its ways in and out, in several tabs of one browser, over Sessions.     *)
(*                                                                         *)
(* The tabs share the tokens in localStorage; each has its own             *)
(* refreshPromise.  A call of apiFetch is a request, at most one retry,    *)
(* and in between a wait for the tab's refresh.  What a call asks for is   *)
(* left out, except the deletion of the account.  setTokens and            *)
(* clearTokens write two entries in one turn of the event loop: one step.  *)
(***************************************************************************)
EXTENDS Sessions

CONSTANTS Tabs, Calls,
          TabOf,   \* the tab each call is made in
          Deletes  \* the calls that ask to delete the account

\* A promise that was resolved to false before it was assigned, and stays.
Stuck == "stuck"

ASSUME ClientAssumption ==
    /\ TabOf \in [Calls -> Tabs] /\ Deletes \subseteq Calls
    /\ None \notin Calls /\ Stuck \notin Calls \cup {None}

VARIABLES
    held,     \* localStorage: the pair of tokens
    page,     \* what each tab shows: a guest page or a protected one
    signin,   \* the sign-in each tab waits for, with the tokens granted
    call,     \* the calls of apiFetch
    promise,  \* refreshPromise: the call that began the refresh, or Stuck
    refresh,  \* the refresh a call has begun
    spent     \* history: the refresh tokens a loaded page has exchanged

clientVars == <<held, page, signin, call, promise, refresh, spent>>
vars == <<serverVars, clientVars>>

NoCall == [at |-> "idle", token |-> None, first |-> TRUE, on |-> None]
NoRefresh == [at |-> "none", token |-> None]
NoSignin == [at |-> "none", token |-> None]

CallsOf(t) == {c \in Calls : TabOf[c] = t}
Waiting(c) == {d \in Calls : call[d].at = "waiting" /\ call[d].on = c}
Become(c, at) == call' = [call EXCEPT ![c].at = at]
Return(c) == call' = [call EXCEPT ![c] = NoCall]

\* AuthGuard and GuestGuard on mount, with the two routes they lead to.
Guarded(tokenHeld) == IF tokenHeld # None THEN "app" ELSE "login"

Init ==
    /\ SessionsInit
    /\ held = None
    /\ page = [t \in Tabs |-> "login"]
    /\ signin = [t \in Tabs |-> NoSignin]
    /\ call = [c \in Calls |-> NoCall]
    /\ promise = [t \in Tabs |-> None]
    /\ refresh = [c \in Calls |-> NoRefresh]
    /\ spent = [t \in Tabs |-> {}]

-----------------------------------------------------------------------------
(* Ways in and out.                                                        *)

\* A page load: everything the tab's scripts held is gone.
NewContext(t) ==
    /\ call' = [c \in Calls |-> IF TabOf[c] = t THEN NoCall ELSE call[c]]
    /\ refresh' = [c \in Calls |-> IF TabOf[c] = t THEN NoRefresh ELSE refresh[c]]
    /\ promise' = [promise EXCEPT ![t] = None]
    /\ spent' = [spent EXCEPT ![t] = {}]

\* The user opens or reloads a page.
Load(t) ==
    /\ NewContext(t)
    /\ signin' = [signin EXCEPT ![t] = NoSignin]
    /\ page' = [page EXCEPT ![t] = Guarded(held)]
    /\ UNCHANGED <<serverVars, held>>

\* LoginPage: its form is enabled while it does not wait for an answer.
AtForm(t) == page[t] = "login" /\ signin[t] = NoSignin

\* handleSubmit: login is answered with the tokens of the user that typed.
Login(t) ==
    /\ AtForm(t)
    /\ \E u \in users : /\ Insert(Sign(u))
                        /\ signin' = [signin EXCEPT ![t] = [at |-> "login", token |-> Sign(u)]]
    /\ UNCHANGED <<held, page, call, promise, refresh, spent>>

\* The way through Google leaves the page; the server redirects to the callback page.
GoogleLogin(t) ==
    /\ AtForm(t)
    /\ \E u \in users :
          /\ Insert(Sign(u))
          /\ signin' = [signin EXCEPT ![t] = [at |-> "callback", token |-> Sign(u)]]
    /\ NewContext(t)
    /\ UNCHANGED <<held, page>>

\* The answer arrives: setTokens, and navigate to the dashboard.
SignedIn(t) ==
    /\ signin[t] # NoSignin
    /\ held' = signin[t].token
    /\ page' = [page EXCEPT ![t] = "app"]
    /\ signin' = [signin EXCEPT ![t] = NoSignin]
    /\ UNCHANGED <<serverVars, call, promise, refresh, spent>>

\* The answer is lost, or Google's redirect carries an error: back to the form.
SigninFails(t) ==
    /\ signin[t] # NoSignin
    /\ signin' = [signin EXCEPT ![t] = NoSignin]
    /\ UNCHANGED <<serverVars, held, page, call, promise, refresh, spent>>

\* A protected page and its sidebar are drawn.
InApp(t) == page[t] = "app"

\* clearTokens, and navigate to the login page; the scripts go on.
Depart(t) == held' = None /\ page' = [page EXCEPT ![t] = Guarded(None)]

\* handleLogout.
SignOut(t) ==
    /\ InApp(t) /\ Depart(t)
    /\ UNCHANGED <<serverVars, signin, call, promise, refresh, spent>>

-----------------------------------------------------------------------------
(* apiFetch.                                                               *)

\* The request is made with the access token that is held now.
Request(token, first) == [at |-> "sent", token |-> token, first |-> first, on |-> None]

\* A query or a mutation of a protected page calls its endpoint.
Send(c) ==
    /\ InApp(TabOf[c]) /\ call[c].at = "idle"
    /\ call' = [call EXCEPT ![c] = Request(held, TRUE)]
    /\ UNCHANGED <<serverVars, held, page, signin, promise, refresh, spent>>

\* The server answers with what the page takes without further ado.
Answer(c) ==
    /\ call[c].at = "sent" /\ ValidAccess(call[c].token)
    /\ c \in Deletes => call[c].token.user \notin users
    /\ Return(c)
    /\ UNCHANGED <<serverVars, held, page, signin, promise, refresh, spent>>

\* The server answers 401.
Deny(c) ==
    /\ call[c].at = "sent" /\ ~ ValidAccess(call[c].token)
    /\ Become(c, "denied")
    /\ UNCHANGED <<serverVars, held, page, signin, promise, refresh, spent>>

\* The server deletes the account the access token names.
AnswerDelete(c) ==
    /\ call[c].at = "sent" /\ c \in Deletes
    /\ ValidAccess(call[c].token) /\ call[c].token.user \in users
    /\ DeleteUser(call[c].token.user)
    /\ Become(c, "deleted")
    /\ UNCHANGED <<held, page, signin, promise, refresh, spent>>

\* SettingsPage: the account is deleted; clearTokens, and navigate.
Deleted(c) ==
    /\ call[c].at = "deleted"
    /\ Depart(TabOf[c])
    /\ Return(c)
    /\ UNCHANGED <<serverVars, signin, promise, refresh, spent>>

\* fetch rejects, or the answer cannot be read: the call ends with an error.
CallLost(c) ==
    /\ call[c].at \in {"sent", "denied", "deleted"}
    /\ Return(c)
    /\ UNCHANGED <<serverVars, held, page, signin, promise, refresh, spent>>

\* The 401 of a retry is an error like any other.
DeniedAgain(c) ==
    /\ call[c].at = "denied" /\ ~ call[c].first
    /\ Return(c)
    /\ UNCHANGED <<serverVars, held, page, signin, promise, refresh, spent>>

\* Mutant: every 401 begins a refresh of its own.
BeginRefreshAlways(c) ==
    /\ call[c].at = "denied" /\ call[c].first
    /\ held # None
    /\ promise' = [promise EXCEPT ![TabOf[c]] = c]
    /\ refresh' = [refresh EXCEPT ![c] = [at |-> "posted", token |-> held]]
    /\ call' = [call EXCEPT ![c].at = "waiting", ![c].on = c]
    /\ UNCHANGED <<serverVars, held, page, signin, spent>>

\* Mutant: refreshTokens does not look whether there is a token.
BeginRefreshUnchecked(c) ==
    /\ call[c].at = "denied" /\ call[c].first
    /\ promise[TabOf[c]] = None
    /\ promise' = [promise EXCEPT ![TabOf[c]] = c]
    /\ refresh' = [refresh EXCEPT ![c] = [at |-> "posted", token |-> held]]
    /\ call' = [call EXCEPT ![c].at = "waiting", ![c].on = c]
    /\ UNCHANGED <<serverVars, held, page, signin, spent>>

\* The first 401 calls refreshTokens, which posts the refresh token.
BeginRefresh(c) ==
    /\ call[c].at = "denied" /\ call[c].first
    /\ promise[TabOf[c]] = None /\ held # None
    /\ promise' = [promise EXCEPT ![TabOf[c]] = c]
    /\ refresh' = [refresh EXCEPT ![c] = [at |-> "posted", token |-> held]]
    /\ call' = [call EXCEPT ![c].at = "waiting", ![c].on = c]
    /\ UNCHANGED <<serverVars, held, page, signin, spent>>

\* Without a token refreshTokens returns before its try, so nothing resets the promise.
NothingToRefresh(c) ==
    /\ call[c].at = "denied" /\ call[c].first
    /\ promise[TabOf[c]] = None /\ held = None
    /\ promise' = [promise EXCEPT ![TabOf[c]] = Stuck]
    /\ Become(c, "expired")
    /\ UNCHANGED <<serverVars, held, page, signin, refresh, spent>>

\* A later 401 awaits the promise that is there.
JoinRefresh(c) ==
    /\ call[c].at = "denied" /\ call[c].first
    /\ promise[TabOf[c]] # None
    /\ call' = IF promise[TabOf[c]] = Stuck
               THEN [call EXCEPT ![c].at = "expired"]
               ELSE [call EXCEPT ![c].at = "waiting", ![c].on = promise[TabOf[c]]]
    /\ UNCHANGED <<serverVars, held, page, signin, promise, refresh, spent>>

\* RefreshToken on the server: the new pair is stored, then sent.
Grant(c) ==
    /\ refresh[c].at = "posted"
    /\ Accepts(refresh[c].token)
    /\ Insert(Sign(refresh[c].token.user))
    /\ refresh' = [refresh EXCEPT ![c] = [at |-> "granted", token |-> Sign(@.token.user)]]
    /\ spent' = [spent EXCEPT ![TabOf[c]] = @ \cup {refresh[c].token}]
    /\ UNCHANGED <<held, page, signin, call, promise>>

\* finally: the promise is reset, before those who await it go on.
Settle(c) ==
    /\ refresh' = [refresh EXCEPT ![c] = NoRefresh]
    /\ promise' = [promise EXCEPT ![TabOf[c]] = None]
    /\ UNCHANGED <<serverVars, page, signin, spent>>

\* The new tokens are stored, and each request is sent again, once, with them.
Refreshed(c) ==
    /\ refresh[c].at = "granted"
    /\ held' = refresh[c].token
    /\ call' = [d \in Calls |->
                   IF d \in Waiting(c) THEN Request(refresh[c].token, FALSE) ELSE call[d]]
    /\ Settle(c)

\* Mutant: a failed refresh leaves those who await it waiting.
RefreshFailsSilently(c) ==
    /\ refresh[c].at \in {"posted", "granted"}
    /\ held' = None
    /\ call' = call
    /\ Settle(c)

\* The refresh is refused, or lost on its way there or back: clearTokens.
RefreshFails(c) ==
    /\ refresh[c].at \in {"posted", "granted"}
    /\ held' = None
    /\ call' = [d \in Calls |->
                   IF d \in Waiting(c) THEN [call[d] EXCEPT !.at = "expired", !.on = None]
                   ELSE call[d]]
    /\ Settle(c)

\* Mutant: the router shows the login page, and the scripts go on.
LeaveByRouter(t) ==
    /\ \E c \in CallsOf(t) : call[c].at = "expired"
    /\ page' = [page EXCEPT ![t] = Guarded(held)]
    /\ call' = [c \in Calls |-> IF TabOf[c] = t /\ call[c].at = "expired" THEN NoCall ELSE call[c]]
    /\ UNCHANGED <<serverVars, held, signin, promise, refresh, spent>>

\* "Session expired": window.location.href loads the login page.
Leave(t) == (\E c \in CallsOf(t) : call[c].at = "expired") /\ Load(t)

-----------------------------------------------------------------------------
TabStep(t) == Load(t) \/ Leave(t) \/ Login(t) \/ GoogleLogin(t) \/ SignedIn(t)
                \/ SigninFails(t) \/ SignOut(t)

\* What the browser and the server do with a call that was sent.
CallReturns(c) == \/ Answer(c) \/ Deny(c) \/ AnswerDelete(c)
                  \/ Deleted(c) \/ CallLost(c) \/ DeniedAgain(c)
                  \/ BeginRefresh(c) \/ NothingToRefresh(c) \/ JoinRefresh(c)
RefreshEnds(c) == Refreshed(c) \/ RefreshFails(c)
CallStep(c) == Send(c) \/ CallReturns(c) \/ Grant(c) \/ RefreshEnds(c)

\* Time passes in the world, whatever the browser does.
Clock == Tick /\ UNCHANGED clientVars

Next == (\E t \in Tabs : TabStep(t)) \/ (\E c \in Calls : CallStep(c)) \/ Clock

\* A fetch ends, with an answer or an error, and the scripts of a page run.
Fairness == /\ \A c \in Calls : WF_vars(CallReturns(c) \/ RefreshEnds(c))
            /\ \A t \in Tabs : WF_vars(Leave(t))

Spec == Init /\ [][Next]_vars
FairSpec == Spec /\ Fairness

-----------------------------------------------------------------------------
(* What holds.                                                             *)

CallState == [at : {"idle", "sent", "denied", "waiting", "deleted", "expired"},
              token : Token \cup {None}, first : BOOLEAN,
              on : Calls \cup {None}]
RefreshState == [at : {"posted", "granted"}, token : Token] \cup {NoRefresh}
SigninState == [at : {"login", "callback"}, token : Token] \cup {NoSignin}

\* The shapes of the variables; a refresh that was begun has a token to show.
TypeOK ==
    /\ SessionsTypeOK
    /\ held \in Token \cup {None}
    /\ page \in [Tabs -> {"login", "app"}]
    /\ signin \in [Tabs -> SigninState]
    /\ call \in [Calls -> CallState]
    /\ promise \in [Tabs -> Calls \cup {None, Stuck}]
    /\ refresh \in [Calls -> RefreshState]
    /\ spent \in [Tabs -> SUBSET Token]

\* A pair on its way is nobody else's: not in localStorage, not on its way to
\* another sign-in or refresh, presented by none and exchanged by none.
FreshSignin ==
    \A b \in Tabs : signin[b] # NoSignin =>
        /\ held # signin[b].token
        /\ \A s \in Tabs : signin[b].token \notin spent[s]
        /\ \A s \in Tabs : s # b => signin[s].token # signin[b].token
        /\ \A c \in Calls : refresh[c].token # signin[b].token

FreshGrant ==
    \A c \in Calls : refresh[c].at = "granted" =>
        /\ held # refresh[c].token
        /\ \A s \in Tabs : refresh[c].token \notin spent[s] /\ signin[s].token # refresh[c].token
        /\ \A d \in Calls : d # c => refresh[d].token # refresh[c].token

\* However many tabs sign in and refresh within one second, in which the server
\* signs the same tokens for a user, a pair is handed to one of them alone
\* (auth_service.go 219, and UNIQUE (token) of migration 2).
HandedOutOnce == FreshSignin /\ FreshGrant

\* README 129 lets refresh_tokens support token revocation, and migration 3 flags
\* the rows a newer one replaces: a refresh is not granted for a row so flagged.
BlacklistedIsRefused ==
    [][\A c \in Calls : refresh[c].at = "posted" /\ refresh'[c].at = "granted" =>
                            refresh[c].token \notin blacklisted]_vars

\* A page never presents a refresh token that it has already exchanged: all its
\* calls share one refreshPromise, and a 401 that comes late finds the new token.
ExchangedOnce ==
    \A c \in Calls : refresh[c].at = "posted" => refresh[c].token \notin spent[TabOf[c]]

\* Nothing waits for what will not come: a call that awaits the shared refresh
\* awaits one of its own page that is under way, a promise that is set is that of
\* a refresh under way, and where it can never be reset there is a call that has
\* found its session expired and will leave the page (api.ts 82-109, 133-146).
PromiseIsKept(t) ==
    /\ promise[t] \in Calls => TabOf[promise[t]] = t /\ refresh[promise[t]].at # "none"
    /\ promise[t] = Stuck => \E c \in CallsOf(t) : call[c].at = "expired"

WaitIsAnswered(c) ==
    call[c].at = "waiting" => /\ call[c].on \in CallsOf(TabOf[c])
                              /\ refresh[call[c].on].at # "none"

NothingWaitsInVain ==
    (\A t \in Tabs : PromiseIsKept(t)) /\ (\A c \in Calls : WaitIsAnswered(c))

\* Every call of apiFetch ends, also the ones that wait for another's refresh.
CallsEnd == \A c \in Calls : call[c].at # "idle" ~> call[c].at = "idle"

\* A refreshPromise that can never be reset goes away with its page, which is
\* why the early return of refreshTokens (api.ts 86) does no lasting harm.
StuckIsDropped == \A t \in Tabs : promise[t] = Stuck ~> promise[t] # Stuck

=============================================================================
