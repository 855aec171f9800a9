---------------------------- MODULE VerifyPage ----------------------------
(***************************************************************************)
(* The pages that verify an address, register/page.tsx, login/page.tsx and *)
(* verify-otp/page.tsx, in one tab, with EmailVerification at the server.  *)
(* Other clients may send the same requests.  A code that is not complete  *)
(* is not sent; the boxes are taken as empty until it is.                  *)
(***************************************************************************)
EXTENDS EmailVerification

VARIABLES
    page,      \* register, verify or login
    boxes,     \* the complete code in the boxes, or None
    waiting,   \* the requests of this page: register, verify, resend
    countdown, \* the seconds left on the button
    resent     \* history: the record of the last resend this page saw answered

pageVars == <<page, boxes, waiting, countdown, resent>>
vars == <<emailVars, pageVars>>

Init ==
    /\ EmailInit
    /\ page = "register" /\ boxes = None /\ waiting = {} /\ countdown = 0 /\ resent = 0

-----------------------------------------------------------------------------
(* A page is opened: its state is new, and requests go on without it.      *)

Forgotten == [r \in Requests |-> [req[r] EXCEPT !.by = IF @ = "page" THEN "left" ELSE @]]

Open(to) ==
    /\ page' = to /\ boxes' = None /\ waiting' = {} /\ countdown' = 0 /\ resent' = 0

Visit(to) ==
    /\ Open(to)
    /\ req' = Forgotten
    /\ UNCHANGED <<now, user, made, tries, faults>>

\* Signing in before the address is verified leads to the page that does it.
LoginUnverified == page = "login" /\ user = "unverified" /\ Visit("verify")

BackToRegister == page \in {"verify", "login"} /\ Visit("register")
ToLogin == page = "register" /\ Visit("login")

-----------------------------------------------------------------------------
(* The forms.                                                              *)

\* handleSubmit and handleResend: one request of a form at a time.
Submit(r, form, code) ==
    /\ form \notin waiting
    /\ Begin(r, form, "page", code)
    /\ waiting' = waiting \cup {form}
    /\ UNCHANGED <<page, boxes, countdown, resent>>

Register(r) == page = "register" /\ Submit(r, "register", None)
Verify(r) == page = "verify" /\ boxes # None /\ Submit(r, "verify", boxes)
Resend(r) == page = "verify" /\ countdown = 0 /\ Submit(r, "resend", None)

\* handleChange, handleKeyDown and handlePaste, until the boxes are full, or
\* not full again.
Type(code) ==
    /\ page = "verify" /\ code # boxes
    /\ boxes' = code
    /\ UNCHANGED <<emailVars, page, waiting, countdown, resent>>

-----------------------------------------------------------------------------
(* The answers.                                                            *)

Finish(r) == /\ req' = [req EXCEPT ![r] = NoRequest]
             /\ UNCHANGED <<now, user, made, tries, faults>>

Navigate(r, to) ==
    /\ IF page = to THEN UNCHANGED pageVars ELSE Open(to)
    /\ req' = [(IF page = to THEN req ELSE Forgotten) EXCEPT ![r] = NoRequest]
    /\ UNCHANGED <<now, user, made, tries, faults>>

\* An address registered leads to the page that verifies it, an address verified
\* to the one that signs in: also when the page that asked is gone.
Accepted(r) ==
    /\ req[r].at = "answer" /\ req[r].ok
    /\ \/ req[r].form = "register" /\ Navigate(r, "verify")
       \/ req[r].form = "verify" /\ Navigate(r, "login")

\* Mutant: the countdown is one second short.
ResentShort(r) ==
    /\ req[r].at = "answer" /\ req[r].by = "page" /\ req[r].form = "resend" /\ req[r].ok
    /\ countdown' = Cooldown - 1 /\ boxes' = None /\ waiting' = waiting \ {"resend"}
    /\ resent' = req[r].rec
    /\ UNCHANGED page
    /\ Finish(r)

Resent(r) ==
    /\ req[r].at = "answer" /\ req[r].by = "page" /\ req[r].form = "resend" /\ req[r].ok
    /\ countdown' = Cooldown /\ boxes' = None /\ waiting' = waiting \ {"resend"}
    /\ resent' = req[r].rec
    /\ UNCHANGED page
    /\ Finish(r)

\* The server refused: a toast, and a wrong code is taken out of the boxes.
Refused(r) ==
    /\ req[r].at = "answer" /\ req[r].by = "page" /\ ~req[r].ok
    /\ boxes' = IF req[r].form = "verify" THEN None ELSE boxes
    /\ waiting' = waiting \ {req[r].form}
    /\ UNCHANGED <<page, countdown, resent>>
    /\ Finish(r)

\* The connection breaks: an error like any other, and the server goes on.
Lost(r) ==
    /\ req[r].at # "idle" /\ req[r].by = "page"
    /\ boxes' = IF req[r].form = "verify" THEN None ELSE boxes
    /\ waiting' = waiting \ {req[r].form}
    /\ req' = [req EXCEPT ![r] = IF @.at = "answer" THEN NoRequest ELSE [@ EXCEPT !.by = "other"]]
    /\ UNCHANGED <<now, user, made, tries, faults, page, countdown, resent>>

\* The page that asked is gone, and there is nothing to navigate to.
Ignored(r) ==
    /\ req[r].at = "answer" /\ req[r].by = "left"
    /\ ~req[r].ok \/ req[r].form = "resend"
    /\ Finish(r)
    /\ UNCHANGED pageVars

\* Another client sends the same requests.
Other(r) ==
    /\ \/ Begin(r, "resend", "other", None)
       \/ \E code \in Codes : Begin(r, "verify", "other", code)
    /\ UNCHANGED pageVars

\* The timer of the countdown, one second later or not yet.
\* Mutant: the timer does not stop at zero.
CountsDownPastZero == countdown' \in {countdown, countdown - 1}

CountsDown == countdown' = countdown \/ (countdown > 0 /\ countdown' = countdown - 1)

Tick ==
    /\ now < MaxTime
    /\ now' = now + 1
    /\ CountsDown
    /\ UNCHANGED <<user, made, req, tries, faults, page, boxes, waiting, resent>>

Next ==
    \/ \E r \in Requests :
          \/ ServerStep(r) /\ UNCHANGED pageVars
          \/ Register(r) \/ Verify(r) \/ Resend(r) \/ Other(r)
          \/ Accepted(r) \/ Resent(r) \/ Refused(r) \/ Lost(r) \/ Ignored(r)
    \/ LoginUnverified \/ BackToRegister \/ ToLogin \/ Tick
    \/ \E code \in Codes \cup {None} : Type(code)

Spec == Init /\ [][Next]_vars

-----------------------------------------------------------------------------
(* Properties.                                                             *)

\* Types: the tables, the requests and what the page holds.
TypeOK ==
    /\ EmailTypeOK
    /\ page \in {"register", "verify", "login"} /\ boxes \in Codes \cup {None}
    /\ waiting \subseteq {"register", "verify", "resend"}
    /\ countdown \in 0 .. Cooldown /\ resent \in 0 .. Len(made)

(* When the countdown of the button has run out, so has the server's       *)
(* cooldown of the code the page has asked for: the button is not offered  *)
(* for a resend the server refuses on its account (verify-otp/page.tsx     *)
(* 30-34, 93-98 with auth_service.go 191-194).                             *)
CountdownCovers ==
    page = "verify" /\ resent # 0 => now + countdown >= made[resent].created + Cooldown

=============================================================================
