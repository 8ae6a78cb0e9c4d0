----------------------------- MODULE BrowserTabs -----------------------------
(***************************************************************************)
(* The session as the browser keeps it (frontend/src/features/auth/lib,    *)
(* lib/api/client.ts, routes/__root.tsx) against the auth routes           *)
(* (api/auth.py).                                                          *)
(*                                                                         *)
(* Every tab has an access token in memory and at most one refresh in      *)
(* flight; all tabs share the refresh cookie.  A request carries the       *)
(* cookie of the moment it is sent, and its answer changes the cookie of   *)
(* the moment it arrives.  An API call shows here when it meets a 401,     *)
(* which any call may: the access token is missing or expired, the account *)
(* disabled, or the call is a login with a wrong password.  Which page of  *)
(* the application a tab shows is not kept: links, back and forward lead   *)
(* to any of them without a page load.  What the server does with families *)
(* is the module SessionChains, which RefreshFamilies implements.          *)
(***************************************************************************)
EXTENDS Naturals

CONSTANTS
    Tabs,
    Calls,       \* API calls one tab may have open
    Asks,        \* bound: auth requests on the wire
    Families,
    Jtis,
    MaxReloads,  \* bound: page loads by the user
    None

ASSUME MaxReloadsAssumption == MaxReloads \in Nat

VARIABLES
    phase, current, spent,   \* the server's families, as SessionChains has them
    issuedIn,    \* issuedIn[j]: the family a token id was issued in, None before
    cookie,      \* the browser's refresh cookie
    tab,         \* tab[t]: the module state of one page
    call,        \* call[t]: its API calls that met a 401
    ask,         \* auth requests on the wire
    reloads      \* page loads so far

VARIABLES        \* history, read by no action
    burned,      \* families the server ended because of a replay
    doubled,     \* families with an id sent by two pages, or after its answer was lost
    orphaned,    \* ids that were spent while their answer reached nobody
    latest,      \* the family the browser last signed in to, None once signed out
    crossed,     \* was a request on the wire when that happened?
    out          \* tabs left signed out that sent nothing since

server == <<phase, current, spent, issuedIn>>
history == <<burned, doubled, orphaned, latest, crossed, out>>
vars == <<server, cookie, tab, call, ask, reloads, history>>

Chains == INSTANCE SessionChains

Page == [ready : BOOLEAN, token : BOOLEAN, inFlight : BOOLEAN]
Ask == [kind : {"refresh", "login", "logout"}, tab : Tabs \cup {None},
        sent : Jtis \cup {None}, answer : {"none", "granted", "refused"},
        jti : Jtis \cup {None}]

ASSUME NoneAssumption ==
    /\ None \notin Tabs
    /\ None \notin Asks
    /\ None \notin Families
    /\ None \notin Jtis
    /\ None \notin Ask

TypeOK ==
    /\ phase \in [Families -> {"unborn", "live", "over"}]
    /\ current \in [Families -> Jtis \cup {None}]
    /\ spent \in SUBSET Jtis
    /\ issuedIn \in [Jtis -> Families \cup {None}]
    /\ cookie \in Jtis \cup {None}
    /\ tab \in [Tabs -> Page]
    /\ call \in [Tabs -> [Calls -> {"idle", "waiting", "retry"}]]
    /\ ask \in [Asks -> Ask \cup {None}]
    /\ reloads \in 0..MaxReloads
    /\ burned \in SUBSET Families
    /\ doubled \in SUBSET Families
    /\ orphaned \in SUBSET Jtis
    /\ latest \in Families \cup {None}
    /\ crossed \in BOOLEAN
    /\ out \in SUBSET Tabs

-----------------------------------------------------------------------------
Unused == [c \in Calls |-> "idle"]

\* A slip: a page without its refresh state.
LoadingNothing == [ready |-> FALSE, token |-> FALSE]

\* A page that was just loaded: the modules are fresh, bootRefresh has not run.
Loading == [ready |-> FALSE, token |-> FALSE, inFlight |-> FALSE]

Init ==
    /\ Chains!Init
    /\ issuedIn = [j \in Jtis |-> None]
    /\ cookie = None
    /\ tab = [t \in Tabs |-> Loading]
    /\ call = [t \in Tabs |-> Unused]
    /\ ask = [r \in Asks |-> None]
    /\ reloads = 0
    /\ burned = {}
    /\ doubled = {}
    /\ orphaned = {}
    /\ latest = None
    /\ crossed = FALSE
    /\ out = {}

\* uuid4: an id that was never issued.
Fresh(j) == issuedIn[j] = None

OnWire(r) == ask[r] # None

Send(r, kind, t, j) ==
    /\ ~OnWire(r)
    /\ ask' = [ask EXCEPT ![r] = [kind |-> kind, tab |-> t, sent |-> j,
                                  answer |-> "none", jti |-> None]]

\* The cookie is also on its way from a page other than t's, or was spent by
\* a request whose answer was lost.
SentElsewhere(t) ==
    \/ cookie \in orphaned
    \/ \E r \in Asks : /\ OnWire(r)
                       /\ ask[r].kind = "refresh"
                       /\ ask[r].sent = cookie
                       /\ ask[r].tab # t

\* performRefresh: POST /auth/refresh with the cookie of this moment.
SendRefresh(t, r) ==
    /\ Send(r, "refresh", t, cookie)
    /\ doubled' = IF cookie # None /\ SentElsewhere(t)
                    THEN doubled \cup {issuedIn[cookie]} ELSE doubled

\* The requests of a page that is gone: nobody waits for their answers.
Abandoned(t) ==
    [r \in Asks |-> IF OnWire(r) /\ ask[r].tab = t
                      THEN [ask[r] EXCEPT !.tab = None] ELSE ask[r]]

\* Callers of recoverFrom401 go on with what the shared refresh returned.
Released(t, stage) ==
    [c \in Calls |-> IF call[t][c] = "waiting" THEN stage ELSE call[t][c]]

\* Some request but r is on the wire.
Others(r) == \E q \in Asks \ {r} : OnWire(q)

-----------------------------------------------------------------------------
\* bootRefresh: once per page load, before anything is rendered.
Boot(t, r) ==
    /\ ~tab[t].ready
    /\ ~tab[t].inFlight
    /\ SendRefresh(t, r)
    /\ tab' = [tab EXCEPT ![t].inFlight = TRUE]
    /\ UNCHANGED <<server, cookie, call, reloads, burned, orphaned,
                   latest, crossed, out>>

\* apiClient met a 401: recoverFrom401 joins the refresh in flight or sends one.
CallRefused(t, c, r) ==
    /\ tab[t].ready
    /\ call[t][c] = "idle"
    /\ call' = [call EXCEPT ![t][c] = "waiting"]
    /\ IF tab[t].inFlight
         THEN UNCHANGED <<ask, doubled, tab>>
         ELSE /\ SendRefresh(t, r)
              /\ tab' = [tab EXCEPT ![t].inFlight = TRUE]
    /\ out' = out \ {t}
    /\ UNCHANGED <<server, cookie, reloads, burned, orphaned, latest, crossed>>

\* The retry is answered, by another 401 or otherwise, or lost.
CallEnds(t, c) ==
    /\ call[t][c] = "retry"
    /\ call' = [call EXCEPT ![t][c] = "idle"]
    /\ UNCHANGED <<server, cookie, tab, ask, reloads, history>>

\* The login form, with the right password, or the page of a magic link.  (A
\* callback of OAuth is this and a page load.)
SignIn(t, r) ==
    /\ tab[t].ready
    /\ Send(r, "login", t, None)
    /\ UNCHANGED <<server, cookie, tab, call, reloads, history>>

\* handleLogout, up to its await.
SignOut(t, r) ==
    /\ tab[t].ready
    /\ Send(r, "logout", t, cookie)
    /\ UNCHANGED <<server, cookie, tab, call, reloads, history>>

\* The user loads the page again, or another: nothing in memory survives.
Reload(t) ==
    /\ reloads < MaxReloads
    /\ reloads' = reloads + 1
    /\ tab' = [tab EXCEPT ![t] = Loading]
    /\ call' = [call EXCEPT ![t] = Unused]
    /\ ask' = Abandoned(t)
    /\ out' = out \ {t}
    /\ UNCHANGED <<server, cookie, burned, doubled, orphaned, latest,
                   crossed>>

-----------------------------------------------------------------------------
\* What was sent matters no more once it was refused.
Answered(r, answer, j) ==
    ask' = [ask EXCEPT ![r] =
               [@ EXCEPT !.answer = answer, !.jti = j,
                         !.sent = IF answer = "refused" THEN None
                                                        ELSE ask[r].sent]]

Pending(r, kind) == /\ OnWire(r)
                    /\ ask[r].kind = kind
                    /\ ask[r].answer = "none"

\* POST /auth/login, or a magic link: a new family.
ServeLogin(r, f, j) ==
    /\ Pending(r, "login")
    /\ Fresh(j)
    /\ Chains!Open(f, j)
    /\ issuedIn' = [issuedIn EXCEPT ![j] = f]
    /\ Answered(r, "granted", j)
    /\ UNCHANGED <<cookie, tab, call, reloads, history>>

Presents(r, f) == /\ Pending(r, "refresh")
                  /\ ask[r].sent # None
                  /\ issuedIn[ask[r].sent] = f
                  /\ phase[f] = "live"

\* POST /auth/refresh, the presented id is current.  "refused": the actor is
\* disabled or the database failed, after the rotation.
ServeRefresh(r, f, j, answer) ==
    /\ Presents(r, f)
    /\ current[f] = ask[r].sent
    /\ Fresh(j)
    /\ Chains!Renew(f, j)
    /\ issuedIn' = [issuedIn EXCEPT ![j] = f]
    /\ Answered(r, answer, IF answer = "granted" THEN j ELSE None)
    /\ orphaned' = IF answer = "granted" THEN orphaned
                                         ELSE orphaned \cup {ask[r].sent}
    /\ UNCHANGED <<cookie, tab, call, reloads, burned, doubled, latest,
                   crossed, out>>

\* A superseded id: the family is deleted.
ServeReplay(r, f) ==
    /\ Presents(r, f)
    /\ current[f] # ask[r].sent
    /\ Chains!Close({f})
    /\ burned' = burned \cup {f}
    /\ Answered(r, "refused", None)
    /\ UNCHANGED <<issuedIn, cookie, tab, call, reloads, doubled,
                   orphaned, latest, crossed, out>>

\* No cookie, or its family has ended.
ServeUnknown(r) ==
    /\ Pending(r, "refresh")
    /\ ask[r].sent # None => phase[issuedIn[ask[r].sent]] # "live"
    /\ Answered(r, "refused", None)
    /\ UNCHANGED <<server, cookie, tab, call, reloads, history>>

\* POST /auth/logout: whichever id of the family the cookie holds.
ServeLogout(r) ==
    /\ Pending(r, "logout")
    /\ IF ask[r].sent # None /\ phase[issuedIn[ask[r].sent]] = "live"
         THEN Chains!Close({issuedIn[ask[r].sent]})
         ELSE UNCHANGED <<phase, current, spent>>
    /\ Answered(r, "granted", None)
    /\ UNCHANGED <<issuedIn, cookie, tab, call, reloads, history>>

\* A password reset, a log-out elsewhere with a copy of the cookie, expiry.
EndFamily(f) ==
    /\ phase[f] = "live"
    /\ Chains!Close({f})
    /\ UNCHANGED <<issuedIn, cookie, tab, call, ask, reloads, history>>

-----------------------------------------------------------------------------
Arrives(r, kind, answer) ==
    /\ OnWire(r)
    /\ ask[r].tab # None
    /\ ask[r].kind = kind
    /\ ask[r].answer = answer

Gone(r) == [ask EXCEPT ![r] = None]

\* The browser's jar takes a Set-Cookie of a login or a log-out.
Signed(r, j) ==
    /\ cookie' = j
    /\ latest' = IF j = None THEN None ELSE issuedIn[j]
    /\ crossed' = Others(r)

\* A slip: the new token is stored, the new cookie is not.
RefreshArrivesOldCookie(r) ==
    /\ Arrives(r, "refresh", "granted")
    /\ LET t == ask[r].tab
       IN  /\ tab' = [tab EXCEPT ![t] =
                        [ready |-> TRUE, token |-> TRUE, inFlight |-> FALSE]]
           /\ call' = [call EXCEPT ![t] = Released(t, "retry")]
           /\ out' = IF tab[t].ready THEN out ELSE out \ {t}
    /\ ask' = Gone(r)
    /\ UNCHANGED <<server, cookie, reloads, burned, doubled, orphaned,
                   latest, crossed>>

\* The refresh succeeded: the jar has the new cookie, the store the new token,
\* and the waiting calls are sent again.  (The cookie comes with the headers.
\* A page unloaded before the body is Reload and CookieArrives.)
RefreshArrives(r) ==
    /\ Arrives(r, "refresh", "granted")
    /\ LET t == ask[r].tab
       IN  /\ cookie' = ask[r].jti
           /\ tab' = [tab EXCEPT ![t] =
                        [ready |-> TRUE, token |-> TRUE, inFlight |-> FALSE]]
           /\ call' = [call EXCEPT ![t] = Released(t, "retry")]
           /\ out' = IF tab[t].ready THEN out ELSE out \ {t}
    /\ ask' = Gone(r)
    /\ UNCHANGED <<server, reloads, burned, doubled, orphaned, latest,
                   crossed>>

\* A slip: a boot that was refused is sent to the login page like a call.
BootRefusedRedirects(r) ==
    /\ Arrives(r, "refresh", "refused")
    /\ LET t == ask[r].tab
       IN  /\ ~tab[t].ready
           /\ tab' = [tab EXCEPT ![t] = Loading]
           /\ out' = out \ {t}
    /\ ask' = Gone(r)
    /\ UNCHANGED <<server, cookie, call, reloads, burned, doubled,
                   orphaned, latest, crossed>>

\* A boot that was refused: the page renders without a token.
BootRefused(r) ==
    /\ Arrives(r, "refresh", "refused")
    /\ LET t == ask[r].tab
       IN  /\ ~tab[t].ready
           /\ tab' = [tab EXCEPT ![t] = [@ EXCEPT !.ready = TRUE,
                                                !.inFlight = FALSE]]
           /\ out' = out \cup {t}
    /\ ask' = Gone(r)
    /\ UNCHANGED <<server, cookie, call, reloads, burned, doubled,
                   orphaned, latest, crossed>>

\* recoverFrom401 after a refusal: the store is cleared and the calls fail.
\* The cookie the route meant to clear stays: HTTPException drops the headers
\* of the response.
RefreshRefused(r) ==
    /\ Arrives(r, "refresh", "refused")
    /\ LET t == ask[r].tab
       IN  /\ tab[t].ready
           /\ \/ \* On a page of /auth; the user stays there.
                 /\ tab' = [tab EXCEPT ![t] =
                             [@ EXCEPT !.token = FALSE, !.inFlight = FALSE]]
                 /\ call' = [call EXCEPT ![t] = Released(t, "idle")]
                 /\ ask' = Gone(r)
                 /\ UNCHANGED out
              \/ \* Elsewhere; the login page is loaded.
                 /\ tab' = [tab EXCEPT ![t] = Loading]
                 /\ call' = [call EXCEPT ![t] = Unused]
                 /\ ask' = [Abandoned(t) EXCEPT ![r] = None]
                 /\ out' = out \ {t}
    /\ UNCHANGED <<server, cookie, reloads, burned, doubled, orphaned,
                   latest, crossed>>

\* The login's answer: setAccessToken.
SignedIn(r) ==
    /\ Arrives(r, "login", "granted")
    /\ LET t == ask[r].tab
       IN  /\ tab' = [tab EXCEPT ![t].token = TRUE]
           /\ out' = out \ {t}
    /\ Signed(r, ask[r].jti)
    /\ ask' = Gone(r)
    /\ UNCHANGED <<server, call, reloads, burned, doubled, orphaned>>

\* A slip: handleLogout only navigates.
LeftOpenBy(t) == /\ tab' = tab
                 /\ out' = IF tab[t].inFlight THEN out \ {t} ELSE out \cup {t}

\* handleLogout, its finally: the store is cleared, without a page load.
LeftBy(t) == /\ tab' = [tab EXCEPT ![t].token = FALSE]
             /\ out' = IF tab[t].inFlight THEN out \ {t} ELSE out \cup {t}

\* A slip: the log-out route forgets the cookie.
SignedOutKeepsCookie(r) ==
    /\ Arrives(r, "logout", "granted")
    /\ LeftBy(ask[r].tab)
    /\ latest' = None
    /\ crossed' = Others(r)
    /\ ask' = Gone(r)
    /\ UNCHANGED <<server, cookie, call, reloads, burned, doubled,
                   orphaned>>

SignedOut(r) ==
    /\ Arrives(r, "logout", "granted")
    /\ LeftBy(ask[r].tab)
    /\ Signed(r, None)
    /\ ask' = Gone(r)
    /\ UNCHANGED <<server, call, reloads, burned, doubled, orphaned>>

\* fetch rejects.  A refresh leaves the store alone, its callers fail (a boot
\* shows the error, and does not run again); a log-out runs its finally.  The
\* server may have seen the request, or see it later, and the cookie may still
\* come.
FetchFails(r) ==
    /\ OnWire(r)
    /\ ask[r].tab # None
    /\ LET t == ask[r].tab
       IN  /\ CASE ask[r].kind = "refresh" ->
                     /\ tab' = [tab EXCEPT ![t] =
                                [@ EXCEPT !.ready = TRUE, !.inFlight = FALSE]]
                     /\ call' = [call EXCEPT ![t] = Released(t, "idle")]
                     /\ out' = IF tab[t].ready THEN out ELSE out \cup {t}
                [] ask[r].kind = "login" -> UNCHANGED <<tab, call, out>>
                [] ask[r].kind = "logout" -> LeftBy(t) /\ UNCHANGED call
    /\ ask' = [ask EXCEPT ![r].tab = None]
    /\ UNCHANGED <<server, cookie, reloads, burned, doubled, orphaned,
                   latest, crossed>>

\* An answer to a page that is gone sets the cookie all the same.
CookieArrives(r) ==
    /\ OnWire(r)
    /\ ask[r].tab = None
    /\ ask[r].answer = "granted"
    /\ IF ask[r].kind = "refresh"
         THEN cookie' = ask[r].jti /\ UNCHANGED <<latest, crossed>>
         ELSE Signed(r, ask[r].jti)
    /\ ask' = Gone(r)
    /\ UNCHANGED <<server, tab, call, reloads, burned, doubled,
                   orphaned, out>>

\* A request nobody waits for is lost, or its answer is.
Vanishes(r) ==
    /\ OnWire(r)
    /\ ask[r].tab = None
    /\ ask' = Gone(r)
    /\ orphaned' = IF ask[r].kind = "refresh" /\ ask[r].answer = "granted"
                     THEN orphaned \cup {ask[r].sent} ELSE orphaned
    /\ UNCHANGED <<server, cookie, tab, call, reloads, burned, doubled,
                   latest, crossed, out>>

-----------------------------------------------------------------------------
Serve(r) ==
    \/ \E f \in Families, j \in Jtis :
          \/ ServeLogin(r, f, j)
          \/ \E answer \in {"granted", "refused"} : ServeRefresh(r, f, j, answer)
    \/ \E f \in Families : ServeReplay(r, f)
    \/ ServeUnknown(r)
    \/ ServeLogout(r)

Deliver(r) ==
    \/ RefreshArrives(r) \/ BootRefused(r) \/ RefreshRefused(r)
    \/ SignedIn(r) \/ SignedOut(r)
    \/ CookieArrives(r) \/ Vanishes(r)

Next ==
    \/ \E t \in Tabs, r \in Asks : Boot(t, r) \/ SignIn(t, r) \/ SignOut(t, r)
    \/ \E t \in Tabs, c \in Calls :
          CallEnds(t, c) \/ \E r \in Asks : CallRefused(t, c, r)
    \/ \E t \in Tabs : Reload(t)
    \/ \E r \in Asks : Serve(r) \/ Deliver(r) \/ FetchFails(r)
    \/ \E f \in Families : EndFamily(f)

\* A request is answered or fails (the server runs, browsers time out), and a
\* page that loads runs bootRefresh.  Boot is strongly fair only because Asks
\* bounds the wire, and other tabs may hold it.  Nothing is assumed of users.
Fairness ==
    /\ \A r \in Asks : WF_vars(Serve(r) \/ Deliver(r) \/ FetchFails(r))
    /\ \A t \in Tabs : SF_vars(\E r \in Asks : Boot(t, r))
    /\ \A t \in Tabs, c \in Calls : WF_vars(CallEnds(t, c))

Spec == Init /\ [][Next]_vars
FairSpec == Spec /\ Fairness

-----------------------------------------------------------------------------
\* The browser never ends a session by itself: when the server sees a replay,
\* two pages had sent the same cookie, or an answer was lost after the rotation
\* (inFlight in refreshFlow.ts, _set_refresh_cookie in api/auth.py).
ReplayNeedsOverlap == burned \subseteq doubled

\* The last sign-in or sign-out decides what the cookie is: that session's, or
\* none, unless another request was on the wire when it was answered
\* (_set_refresh_cookie, _clear_refresh_cookie and the order of answers).
LastWordHolds ==
    ~crossed => /\ cookie # None => issuedIn[cookie] = latest
                /\ latest = None => cookie = None

\* A tab left signed out, with nothing of it under way, gets no token as long
\* as it sends nothing (handleLogout, bootRefresh, recoverFrom401).
SignedOutStaysOut == \A t \in out : ~tab[t].token

\* Every wait ends: a page that loads is rendered, and a call that met a 401 is
\* retried, refused or failed; no refusal sends a page round in circles, though
\* the refused cookie is still there (performRefresh, recoverFrom401).
WaitsEnd ==
    \A t \in Tabs :
        /\ ~tab[t].ready ~> tab[t].ready
        /\ \A c \in Calls : call[t][c] # "idle" ~> call[t][c] = "idle"
=============================================================================
