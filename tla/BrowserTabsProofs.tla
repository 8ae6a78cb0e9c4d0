-------------------------- MODULE BrowserTabsProofs --------------------------
(***************************************************************************)
(* Proofs about BrowserTabs, for any number of tabs, API calls, requests   *)
(* on the wire, families and token ids.                                    *)
(***************************************************************************)
EXTENDS BrowserTabs, TLAPS

\* The server: an id of a running family is its current one or was spent.
ServerInv ==
    /\ \A f \in Families :
          IF phase[f] = "live"
            THEN /\ current[f] # None
                 /\ current[f] \notin spent
                 /\ issuedIn[current[f]] = f
            ELSE current[f] = None
    /\ \A j \in Jtis :
          /\ j \in spent => issuedIn[j] # None
          /\ issuedIn[j] # None => phase[issuedIn[j]] # "unborn"
          /\ issuedIn[j] # None /\ phase[issuedIn[j]] = "live" =>
                j = current[issuedIn[j]] \/ j \in spent

\* What a request and its answer carry.
AskInv ==
    \A r \in Asks : OnWire(r) =>
        /\ ask[r].sent # None => issuedIn[ask[r].sent] # None
        /\ ask[r].jti # None => issuedIn[ask[r].jti] # None
        /\ ask[r].answer # "granted" => ask[r].jti = None
        /\ ask[r].answer = "refused" => ask[r].sent = None
        /\ ask[r].kind = "login" => ask[r].sent = None
        /\ ask[r].kind # "refresh" => ask[r].answer # "refused"
        /\ ask[r].kind = "refresh" /\ ask[r].answer = "granted" =>
              /\ ask[r].sent # None
              /\ ask[r].jti # None
              /\ issuedIn[ask[r].jti] = issuedIn[ask[r].sent]
        /\ ask[r].kind = "login" /\ ask[r].answer = "granted" => ask[r].jti # None
        /\ ask[r].kind = "logout" => ask[r].jti = None

\* A page waits for the one refresh it has in flight, and only a rendered page
\* has a token, or a login or a log-out on the wire.
PageInv ==
    /\ \A t \in Tabs : tab[t].token => tab[t].ready
    /\ \A r \in Asks : OnWire(r) /\ ask[r].tab # None =>
          IF ask[r].kind = "refresh" THEN tab[ask[r].tab].inFlight
                                     ELSE tab[ask[r].tab].ready
    /\ \A r, q \in Asks :
          /\ OnWire(r)
          /\ OnWire(q)
          /\ ask[r].kind = "refresh"
          /\ ask[q].kind = "refresh"
          /\ ask[r].tab # None
          /\ ask[r].tab = ask[q].tab
          => r = q

\* An id that did not arrive yet is known to its answer alone.
UndeliveredInv ==
    \A r \in Asks : OnWire(r) /\ ask[r].jti # None =>
        /\ ask[r].jti \notin spent
        /\ ask[r].jti # cookie
        /\ \A q \in Asks : OnWire(q) =>
              /\ ask[q].sent # ask[r].jti
              /\ q # r => ask[q].jti # ask[r].jti

\* Where a spent cookie comes from.
SpentInv ==
    /\ cookie # None => issuedIn[cookie] # None
    /\ cookie \in spent =>
          \/ cookie \in orphaned
          \/ \E r \in Asks : /\ OnWire(r)
                             /\ ask[r].kind = "refresh"
                             /\ ask[r].answer = "granted"
                             /\ ask[r].sent = cookie

\* Where a spent or a shared id on the wire comes from.
OverlapInv ==
    \A r \in Asks :
        OnWire(r) /\ ask[r].kind = "refresh" /\ ask[r].sent # None =>
            /\ ask[r].answer = "none" /\ ask[r].sent \in spent =>
                  issuedIn[ask[r].sent] \in doubled
            /\ \A q \in Asks \ {r} :
                  /\ OnWire(q)
                  /\ ask[q].kind = "refresh"
                  /\ ask[q].sent = ask[r].sent
                  => issuedIn[ask[r].sent] \in doubled

\* Once the last word was said with nothing else on the wire, every refresh on
\* it is of the session it left.
LastWordInv ==
    ~crossed =>
        /\ cookie # None => issuedIn[cookie] = latest
        /\ \A r \in Asks : OnWire(r) /\ ask[r].kind = "refresh" =>
              /\ ask[r].sent # None => issuedIn[ask[r].sent] = latest
              /\ ask[r].jti # None => issuedIn[ask[r].jti] = latest

SignedOutInv ==
    \A t \in out : tab[t].ready /\ ~tab[t].inFlight /\ ~tab[t].token

IInv == /\ TypeOK
        /\ ServerInv
        /\ AskInv
        /\ PageInv
        /\ UndeliveredInv
        /\ SpentInv
        /\ OverlapInv
        /\ LastWordInv
        /\ SignedOutInv
        /\ ReplayNeedsOverlap

-----------------------------------------------------------------------------

\* A request that is sent.
LEMMA SendFacts ==
    ASSUME TypeOK, NEW r \in Asks, NEW kind \in {"refresh", "login", "logout"},
           NEW t \in Tabs, NEW j \in Jtis \cup {None}, Send(r, kind, t, j)
    PROVE  /\ ask' \in [Asks -> Ask \cup {None}]
           /\ ~OnWire(r)
           /\ ask'[r] # None
           /\ ask'[r].kind = kind
           /\ ask'[r].tab = t
           /\ ask'[r].sent = j
           /\ ask'[r].answer = "none"
           /\ ask'[r].jti = None
           /\ \A q \in Asks : q # r => ask'[q] = ask[q]
<1> DEFINE new == [kind |-> kind, tab |-> t, sent |-> j,
                   answer |-> "none", jti |-> None]
<1>1. new \in Ask  BY DEF Ask
<1>2. ask' = [ask EXCEPT ![r] = new] /\ ~OnWire(r)  BY DEF Send
<1>3. new.kind = kind /\ new.tab = t /\ new.sent = j /\ new.answer = "none"
      /\ new.jti = None
  OBVIOUS
<1> HIDE DEF new
<1>4. ask'[r] = new  BY <1>2 DEF TypeOK
<1> QED  BY <1>1, <1>2, <1>3, <1>4, NoneAssumption DEF TypeOK

\* The requests of a page that is gone lose their reader and nothing else.
LEMMA AbandonedFacts ==
    ASSUME TypeOK, NEW t \in Tabs
    PROVE  /\ Abandoned(t) \in [Asks -> Ask \cup {None}]
           /\ \A r \in Asks :
                 /\ Abandoned(t)[r] # None <=> OnWire(r)
                 /\ OnWire(r) =>
                       /\ Abandoned(t)[r].kind = ask[r].kind
                       /\ Abandoned(t)[r].sent = ask[r].sent
                       /\ Abandoned(t)[r].answer = ask[r].answer
                       /\ Abandoned(t)[r].jti = ask[r].jti
                       /\ Abandoned(t)[r].tab = IF ask[r].tab = t THEN None
                                                ELSE ask[r].tab
<1> SUFFICES ASSUME NEW r \in Asks
             PROVE  /\ Abandoned(t)[r] \in Ask \cup {None}
                    /\ Abandoned(t)[r] # None <=> OnWire(r)
                    /\ OnWire(r) =>
                          /\ Abandoned(t)[r].kind = ask[r].kind
                          /\ Abandoned(t)[r].sent = ask[r].sent
                          /\ Abandoned(t)[r].answer = ask[r].answer
                          /\ Abandoned(t)[r].jti = ask[r].jti
                          /\ Abandoned(t)[r].tab = IF ask[r].tab = t THEN None
                                                   ELSE ask[r].tab
  BY DEF Abandoned
<1>1. CASE OnWire(r) /\ ask[r].tab = t
  <2>1. ask[r] \in Ask  BY <1>1 DEF TypeOK, OnWire
  <2>2. Abandoned(t)[r] = [ask[r] EXCEPT !.tab = None]
    BY <1>1 DEF Abandoned
  <2> QED  BY <1>1, <2>1, <2>2, NoneAssumption DEF Ask
<1>2. CASE ~(OnWire(r) /\ ask[r].tab = t)
  <2>1. Abandoned(t)[r] = ask[r]  BY <1>2 DEF Abandoned
  <2> QED  BY <1>2, <2>1 DEF TypeOK, OnWire
<1> QED  BY <1>1, <1>2

\* The API calls of a page after its refresh.
LEMMA ReleasedType ==
    ASSUME TypeOK, NEW t \in Tabs, NEW stage \in {"idle", "retry"}
    PROVE  Released(t, stage) \in [Calls -> {"idle", "waiting", "retry"}]
  BY DEF TypeOK, Released


\* A request that is answered.
LEMMA AnsweredFacts ==
    ASSUME TypeOK, NEW r \in Asks, OnWire(r), NEW answer \in {"granted", "refused"},
           NEW j \in Jtis \cup {None}, Answered(r, answer, j)
    PROVE  /\ ask' \in [Asks -> Ask \cup {None}]
           /\ ask'[r] # None
           /\ ask'[r].kind = ask[r].kind
           /\ ask'[r].tab = ask[r].tab
           /\ ask'[r].answer = answer
           /\ ask'[r].jti = j
           /\ ask'[r].sent = IF answer = "refused" THEN None ELSE ask[r].sent
           /\ \A q \in Asks : q # r => ask'[q] = ask[q]
<1> DEFINE sent == IF answer = "refused" THEN None ELSE ask[r].sent
           new == [ask[r] EXCEPT !.answer = answer, !.jti = j, !.sent = sent]
<1>1. ask[r] \in Ask  BY DEF TypeOK, OnWire
<1>2. sent \in Jtis \cup {None}  BY <1>1 DEF Ask
<1>3. ask' = [ask EXCEPT ![r] = new]  BY DEF Answered
<1> HIDE DEF sent
<1>4. /\ new \in Ask
      /\ new.kind = ask[r].kind
      /\ new.tab = ask[r].tab
      /\ new.answer = answer
      /\ new.jti = j
      /\ new.sent = sent
  BY <1>1, <1>2 DEF Ask
<1> HIDE DEF new
<1>5. ask'[r] = new /\ new # None  BY <1>3, <1>4, NoneAssumption DEF TypeOK
<1>6. ask' \in [Asks -> Ask \cup {None}]  BY <1>3, <1>4 DEF TypeOK
<1>7. \A q \in Asks : q # r => ask'[q] = ask[q]  BY <1>3 DEF TypeOK
<1> QED  BY <1>4, <1>5, <1>6, <1>7 DEF sent

\* What the steps of a page make of its module state.
LEMMA PageFacts ==
    ASSUME NEW p \in Page
    PROVE  /\ [p EXCEPT !.inFlight = TRUE] \in Page
           /\ [p EXCEPT !.token = FALSE, !.inFlight = FALSE] \in Page
           /\ [p EXCEPT !.token = TRUE] \in Page
           /\ [p EXCEPT !.token = FALSE] \in Page
           /\ [p EXCEPT !.ready = TRUE, !.inFlight = FALSE] \in Page
           /\ Loading \in Page
  BY DEF Page, Loading

\* A refresh that is sent by a page that has none in flight.
LEMMA SendRefreshKeeps ==
    ASSUME IInv, NEW t \in Tabs, NEW r \in Asks, ~tab[t].inFlight,
           SendRefresh(t, r),
           UNCHANGED <<server, cookie, orphaned, latest, crossed>>
    PROVE  /\ ask' \in [Asks -> Ask \cup {None}]
           /\ doubled' \in SUBSET Families
           /\ doubled \subseteq doubled'
           /\ AskInv' /\ UndeliveredInv' /\ SpentInv' /\ OverlapInv'
           /\ LastWordInv'
<1>0. /\ ask' \in [Asks -> Ask \cup {None}]
      /\ ~OnWire(r)
      /\ ask'[r] # None
      /\ ask'[r].kind = "refresh"
      /\ ask'[r].tab = t
      /\ ask'[r].sent = cookie
      /\ ask'[r].answer = "none"
      /\ ask'[r].jti = None
      /\ \A q \in Asks : q # r => ask'[q] = ask[q]
  BY SendFacts DEF IInv, TypeOK, SendRefresh
<1>1. /\ doubled' \in SUBSET Families
      /\ doubled \subseteq doubled'
  BY DEF IInv, TypeOK, SpentInv, SendRefresh
<1>2. AskInv'
  BY <1>0, NoneAssumption DEF IInv, AskInv, SpentInv, OnWire, server
<1>3. UndeliveredInv'
  BY <1>0 DEF IInv, UndeliveredInv, OnWire, server
<1>4. SpentInv'
  BY <1>0 DEF IInv, SpentInv, OnWire, server
<1>5. ASSUME cookie # None, SentElsewhere(t)
      PROVE  issuedIn[cookie] \in doubled'
  BY <1>5 DEF SendRefresh
<1>6. \A q \in Asks : OnWire(q) /\ ask[q].kind = "refresh" => ask[q].tab # t
  BY NoneAssumption DEF IInv, PageInv
<1>7. cookie # None /\ cookie \in spent => issuedIn[cookie] \in doubled'
  BY <1>5, <1>6 DEF IInv, SpentInv, SentElsewhere
<1>8. \A q \in Asks : OnWire(q) /\ ask[q].kind = "refresh" /\ ask[q].sent = cookie
        /\ cookie # None => issuedIn[cookie] \in doubled'
  BY <1>5, <1>6 DEF SentElsewhere
<1>9. OverlapInv'
  <2> SUFFICES ASSUME NEW p \in Asks, OnWire(p)', (ask[p].kind)' = "refresh",
                      (ask[p].sent)' # None
               PROVE  /\ (ask[p].answer)' = "none" /\ (ask[p].sent)' \in spent =>
                            issuedIn[(ask[p].sent)'] \in doubled'
                      /\ \A q \in Asks \ {p} :
                            /\ OnWire(q)'
                            /\ (ask[q].kind)' = "refresh"
                            /\ (ask[q].sent)' = (ask[p].sent)'
                            => issuedIn[(ask[p].sent)'] \in doubled'
    BY DEF OverlapInv, server
  <2>1. CASE p = r
    BY <1>0, <1>7, <1>8, <2>1 DEF OnWire
  <2>2. CASE p # r
    BY <1>0, <1>1, <1>8, <2>2 DEF IInv, OverlapInv, OnWire
  <2> QED  BY <2>1, <2>2
<1>10. LastWordInv'
  BY <1>0 DEF IInv, LastWordInv, OnWire, server
<1> QED  BY <1>0, <1>1, <1>2, <1>3, <1>4, <1>9, <1>10


\* The refresh of a page load.
LEMMA BootKeeps ==
    ASSUME IInv, NEW t \in Tabs, NEW r \in Asks, Boot(t, r)
    PROVE  IInv'
<1>0. /\ ask' \in [Asks -> Ask \cup {None}]
      /\ doubled' \in SUBSET Families
      /\ doubled \subseteq doubled'
      /\ AskInv' /\ UndeliveredInv' /\ SpentInv' /\ OverlapInv'
      /\ LastWordInv'
  BY SendRefreshKeeps DEF Boot
<1>1. TypeOK'
  <2>1. ask' \in [Asks -> Ask \cup {None}]
    BY <1>0
  <2>2. tab' \in [Tabs -> Page]
    <3>1. tab[t] \in Page  BY DEF IInv, TypeOK
    <3>2. [tab[t] EXCEPT !.inFlight = TRUE] \in Page  BY <3>1, PageFacts
    <3>3. tab' = [tab EXCEPT ![t] = [tab[t] EXCEPT !.inFlight = TRUE]]
      BY DEF Boot
    <3> QED  BY <3>2, <3>3 DEF IInv, TypeOK
  <2>3. call' \in [Tabs -> [Calls -> {"idle", "waiting", "retry"}]]
    BY <1>0, NoneAssumption
    DEF IInv, TypeOK, AskInv, SpentInv, Page, Ask, OnWire, Boot, SendRefresh, Send, SentElsewhere,
      server, history
  <2>4. /\ phase' \in [Families -> {"unborn", "live", "over"}]
        /\ current' \in [Families -> Jtis \cup {None}]
        /\ spent' \in SUBSET Jtis
        /\ issuedIn' \in [Jtis -> Families \cup {None}]
    BY <1>0, NoneAssumption
    DEF IInv, TypeOK, AskInv, SpentInv, Page, Ask, OnWire, Boot, SendRefresh, Send, SentElsewhere,
      server, history
  <2>5. /\ cookie' \in Jtis \cup {None}
        /\ reloads' \in 0..MaxReloads
        /\ burned' \in SUBSET Families
        /\ doubled' \in SUBSET Families
        /\ orphaned' \in SUBSET Jtis
        /\ latest' \in Families \cup {None}
        /\ crossed' \in BOOLEAN
        /\ out' \in SUBSET Tabs
    BY <1>0, NoneAssumption
    DEF IInv, TypeOK, AskInv, SpentInv, Page, Ask, OnWire, Boot, SendRefresh, Send, SentElsewhere,
      server, history
  <2> QED  BY <2>1, <2>2, <2>3, <2>4, <2>5 DEF TypeOK
<1>2. ServerInv'
  BY <1>0, NoneAssumption
    DEF IInv, ServerInv, TypeOK, AskInv, OnWire, Boot, SendRefresh,
      SentElsewhere, server, history
<1>3. AskInv'
  BY <1>0
<1>4. PageInv'
  <2>1. /\ ~OnWire(r)
        /\ ask'[r].kind = "refresh"
        /\ ask'[r].tab = t
        /\ \A q \in Asks : q # r => ask'[q] = ask[q]
    BY SendFacts DEF IInv, TypeOK, Boot, SendRefresh
  <2>2. /\ tab'[t].inFlight
        /\ \A u \in Tabs : u # t => tab'[u] = tab[u]
        /\ tab'[t].ready = tab[t].ready
        /\ tab'[t].token = tab[t].token
        /\ ~tab[t].inFlight
    BY DEF IInv, TypeOK, Page, Boot
  <2>3. \A q \in Asks : OnWire(q) => ask[q].tab \in Tabs \cup {None}
    BY DEF IInv, TypeOK, Ask, OnWire
  <2> QED
    BY <2>1, <2>2, <2>3, NoneAssumption DEF IInv, PageInv, OnWire
<1>5. UndeliveredInv'
  BY <1>0
<1>6. SpentInv'
  BY <1>0
<1>7. OverlapInv'
  BY <1>0
<1>8. LastWordInv'
  BY <1>0
<1>9. SignedOutInv'
  BY <1>0, NoneAssumption
    DEF IInv, SignedOutInv, TypeOK, PageInv, Page, Ask, OnWire, Boot,
      SendRefresh, SentElsewhere, server, history
<1>10. ReplayNeedsOverlap'
  BY <1>0, NoneAssumption
    DEF IInv, ReplayNeedsOverlap, TypeOK, ServerInv, OverlapInv, Ask, OnWire,
      Boot, SendRefresh, SentElsewhere, server, history
<1>q. QED  BY <1>1, <1>2, <1>3, <1>4, <1>5, <1>6, <1>7, <1>8, <1>9, <1>10 DEF IInv

\* A call joins the refresh in flight, or sends one.
LEMMA CallRefusedKeeps ==
    ASSUME IInv, NEW t \in Tabs, NEW c \in Calls, NEW r \in Asks, CallRefused(t, c, r)
    PROVE  IInv'
<1>a. CASE tab[t].inFlight
  <2>1. /\ UNCHANGED <<server, cookie, ask, doubled, tab, burned, orphaned,
                       latest, crossed, reloads>>
        /\ out' \subseteq out
    BY <1>a DEF CallRefused
  <2>2. TypeOK'
    BY <2>1 DEF IInv, TypeOK, CallRefused, server
  <2> QED
    BY <2>1, <2>2
    DEF IInv, ServerInv, AskInv, PageInv, UndeliveredInv, SpentInv, OverlapInv,
      LastWordInv, SignedOutInv, ReplayNeedsOverlap, OnWire, server
<1>b. CASE ~tab[t].inFlight
  <2>0. /\ ask' \in [Asks -> Ask \cup {None}]
        /\ doubled' \in SUBSET Families
        /\ doubled \subseteq doubled'
        /\ AskInv' /\ UndeliveredInv' /\ SpentInv' /\ OverlapInv'
        /\ LastWordInv'
    BY <1>b, SendRefreshKeeps DEF CallRefused
  <2>1. /\ tab' = [tab EXCEPT ![t] = [tab[t] EXCEPT !.inFlight = TRUE]]
        /\ out' = out \ {t}
        /\ UNCHANGED <<server, cookie, reloads, burned, orphaned, latest, crossed>>
        /\ tab[t] \in Page
    BY <1>b DEF CallRefused, IInv, TypeOK
  <2>2. [tab[t] EXCEPT !.inFlight = TRUE] \in Page
    BY <2>1, PageFacts
  <2>3. call' \in [Tabs -> [Calls -> {"idle", "waiting", "retry"}]]
    BY DEF IInv, TypeOK, CallRefused
  <2>4. TypeOK'
    BY <2>0, <2>1, <2>2, <2>3 DEF IInv, TypeOK, server
  <2>5. /\ tab'[t].inFlight
        /\ tab'[t].ready = tab[t].ready
        /\ tab'[t].token = tab[t].token
        /\ \A u \in Tabs : u # t => tab'[u] = tab[u]
    BY <2>1 DEF IInv, TypeOK, Page
  <2>6. PageInv'
    <3>1. /\ ~OnWire(r)
          /\ ask'[r].kind = "refresh"
          /\ ask'[r].tab = t
          /\ \A q \in Asks : q # r => ask'[q] = ask[q]
      BY <1>b, SendFacts DEF IInv, TypeOK, CallRefused, SendRefresh
    <3>2. \A q \in Asks : OnWire(q) => ask[q].tab \in Tabs \cup {None}
      BY DEF IInv, TypeOK, Ask, OnWire
    <3> QED
      BY <1>b, <2>5, <3>1, <3>2, NoneAssumption DEF IInv, PageInv, OnWire
  <2>7. ServerInv' /\ ReplayNeedsOverlap'
    BY <2>0, <2>1 DEF IInv, ServerInv, ReplayNeedsOverlap, server
  <2>8. SignedOutInv'
    BY <2>1, <2>5 DEF IInv, TypeOK, SignedOutInv
  <2> QED
    BY <2>0, <2>4, <2>6, <2>7, <2>8 DEF IInv
<1> QED  BY <1>a, <1>b

\* A login is sent.
LEMMA SignInKeeps ==
    ASSUME IInv, NEW t \in Tabs, NEW r \in Asks, SignIn(t, r)
    PROVE  IInv'
<1>1. TypeOK'
  BY NoneAssumption
    DEF IInv, TypeOK, AskInv, SpentInv, Page, Ask, OnWire, SignIn, Send,
      server, history
<1>2. ServerInv'
  BY NoneAssumption
    DEF IInv, ServerInv, TypeOK, AskInv, OnWire, SignIn, Send, server, history
<1>3. AskInv'
  BY NoneAssumption
    DEF IInv, AskInv, TypeOK, ServerInv, Ask, OnWire, SpentInv, SignIn, Send,
      server, history
<1>4. PageInv'
  BY NoneAssumption
    DEF IInv, PageInv, TypeOK, Page, Ask, OnWire, SignIn, Send, server,
      history
<1>5. UndeliveredInv'
  BY NoneAssumption
    DEF IInv, UndeliveredInv, TypeOK, ServerInv, AskInv, SpentInv, Ask,
      OnWire, SignIn, Send, server, history
<1>6. SpentInv'
  BY NoneAssumption
    DEF IInv, SpentInv, TypeOK, ServerInv, AskInv, UndeliveredInv, Ask,
      OnWire, SignIn, Send, server, history
<1>7. OverlapInv'
  BY NoneAssumption
    DEF IInv, OverlapInv, TypeOK, ServerInv, AskInv, PageInv, UndeliveredInv,
      SpentInv, Ask, OnWire, SignIn, Send, server, history
<1>8. LastWordInv'
  BY NoneAssumption
    DEF IInv, LastWordInv, TypeOK, AskInv, SpentInv, Ask, OnWire, SignIn,
      Send, server, history
<1>9. SignedOutInv'
  BY NoneAssumption
    DEF IInv, SignedOutInv, TypeOK, PageInv, Page, Ask, OnWire, SignIn, Send,
      server, history
<1>10. ReplayNeedsOverlap'
  BY NoneAssumption
    DEF IInv, ReplayNeedsOverlap, TypeOK, ServerInv, OverlapInv, Ask, OnWire,
      SignIn, Send, server, history
<1>q. QED  BY <1>1, <1>2, <1>3, <1>4, <1>5, <1>6, <1>7, <1>8, <1>9, <1>10 DEF IInv

\* A log-out is sent with the cookie of the moment.
LEMMA SignOutKeeps ==
    ASSUME IInv, NEW t \in Tabs, NEW r \in Asks, SignOut(t, r)
    PROVE  IInv'
<1>1. TypeOK'
  BY NoneAssumption
    DEF IInv, TypeOK, AskInv, SpentInv, Page, Ask, OnWire, SignOut, Send,
      server, history
<1>2. ServerInv'
  BY NoneAssumption
    DEF IInv, ServerInv, TypeOK, AskInv, OnWire, SignOut, Send, server,
      history
<1>3. AskInv'
  BY NoneAssumption
    DEF IInv, AskInv, TypeOK, ServerInv, Ask, OnWire, SpentInv, SignOut, Send,
      server, history
<1>4. PageInv'
  BY NoneAssumption
    DEF IInv, PageInv, TypeOK, Page, Ask, OnWire, SignOut, Send, server,
      history
<1>5. UndeliveredInv'
  BY NoneAssumption
    DEF IInv, UndeliveredInv, TypeOK, ServerInv, AskInv, SpentInv, Ask,
      OnWire, SignOut, Send, server, history
<1>6. SpentInv'
  BY NoneAssumption
    DEF IInv, SpentInv, TypeOK, ServerInv, AskInv, UndeliveredInv, Ask,
      OnWire, SignOut, Send, server, history
<1>7. OverlapInv'
  BY NoneAssumption
    DEF IInv, OverlapInv, TypeOK, ServerInv, AskInv, PageInv, UndeliveredInv,
      SpentInv, Ask, OnWire, SignOut, Send, server, history
<1>8. LastWordInv'
  BY NoneAssumption
    DEF IInv, LastWordInv, TypeOK, AskInv, SpentInv, Ask, OnWire, SignOut,
      Send, server, history
<1>9. SignedOutInv'
  BY NoneAssumption
    DEF IInv, SignedOutInv, TypeOK, PageInv, Page, Ask, OnWire, SignOut, Send,
      server, history
<1>10. ReplayNeedsOverlap'
  BY NoneAssumption
    DEF IInv, ReplayNeedsOverlap, TypeOK, ServerInv, OverlapInv, Ask, OnWire,
      SignOut, Send, server, history
<1>q. QED  BY <1>1, <1>2, <1>3, <1>4, <1>5, <1>6, <1>7, <1>8, <1>9, <1>10 DEF IInv

\* The requests of the old page go on without it.
LEMMA ReloadKeeps ==
    ASSUME IInv, NEW t \in Tabs, Reload(t)
    PROVE  IInv'
<1>0. /\ Abandoned(t) \in [Asks -> Ask \cup {None}]
      /\ \A q \in Asks :
            /\ Abandoned(t)[q] # None <=> OnWire(q)
            /\ OnWire(q) => /\ Abandoned(t)[q].kind = ask[q].kind
                            /\ Abandoned(t)[q].sent = ask[q].sent
                            /\ Abandoned(t)[q].answer = ask[q].answer
                            /\ Abandoned(t)[q].jti = ask[q].jti
                            /\ Abandoned(t)[q].tab = IF ask[q].tab = t THEN None
                                                     ELSE ask[q].tab
  BY AbandonedFacts DEF IInv
<1>1. TypeOK'
  <2>1. ask' \in [Asks -> Ask \cup {None}]
    BY <1>0, NoneAssumption
    DEF IInv, TypeOK, AskInv, SpentInv, Page, Ask, OnWire, Reload, Loading, Unused,
      server, history
  <2>2. tab' \in [Tabs -> Page]
    BY <1>0, NoneAssumption
    DEF IInv, TypeOK, AskInv, SpentInv, Page, Ask, OnWire, Reload, Loading, Unused,
      server, history
  <2>3. call' \in [Tabs -> [Calls -> {"idle", "waiting", "retry"}]]
    BY <1>0, NoneAssumption
    DEF IInv, TypeOK, AskInv, SpentInv, Page, Ask, OnWire, Reload, Loading, Unused,
      server, history
  <2>4. /\ phase' \in [Families -> {"unborn", "live", "over"}]
        /\ current' \in [Families -> Jtis \cup {None}]
        /\ spent' \in SUBSET Jtis
        /\ issuedIn' \in [Jtis -> Families \cup {None}]
    BY <1>0, NoneAssumption, MaxReloadsAssumption
    DEF IInv, TypeOK, Reload, server, history
  <2>5. /\ cookie' \in Jtis \cup {None}
        /\ reloads' \in 0..MaxReloads
        /\ burned' \in SUBSET Families
        /\ doubled' \in SUBSET Families
        /\ orphaned' \in SUBSET Jtis
        /\ latest' \in Families \cup {None}
        /\ crossed' \in BOOLEAN
        /\ out' \in SUBSET Tabs
    BY <1>0, NoneAssumption, MaxReloadsAssumption
    DEF IInv, TypeOK, Reload, server, history
  <2> QED  BY <2>1, <2>2, <2>3, <2>4, <2>5 DEF TypeOK
<1>2. ServerInv'
  BY <1>0, NoneAssumption
    DEF IInv, ServerInv, TypeOK, AskInv, OnWire, Reload, Loading, Unused,
      server, history
<1>3. AskInv'
  BY <1>0, NoneAssumption
    DEF IInv, AskInv, TypeOK, ServerInv, Ask, OnWire, SpentInv, Reload,
      Loading, Unused, server, history
<1>4. PageInv'
  BY <1>0, NoneAssumption
    DEF IInv, PageInv, TypeOK, Page, Ask, OnWire, Reload, Loading, Unused,
      server, history
<1>5. UndeliveredInv'
  BY <1>0, NoneAssumption
    DEF IInv, UndeliveredInv, TypeOK, ServerInv, AskInv, SpentInv, Ask,
      OnWire, Reload, Loading, Unused, server, history
<1>6. SpentInv'
  BY <1>0, NoneAssumption
    DEF IInv, SpentInv, TypeOK, ServerInv, AskInv, UndeliveredInv, Ask,
      OnWire, Reload, Loading, Unused, server, history
<1>7. OverlapInv'
  BY <1>0, NoneAssumption
    DEF IInv, OverlapInv, TypeOK, ServerInv, AskInv, PageInv, UndeliveredInv,
      SpentInv, Ask, OnWire, Reload, Loading, Unused, server, history
<1>8. LastWordInv'
  BY <1>0, NoneAssumption
    DEF IInv, LastWordInv, TypeOK, AskInv, SpentInv, Ask, OnWire, Reload,
      Loading, Unused, server, history
<1>9. SignedOutInv'
  BY <1>0, NoneAssumption
    DEF IInv, SignedOutInv, TypeOK, PageInv, Page, Ask, OnWire, Reload,
      Loading, Unused, server, history
<1>10. ReplayNeedsOverlap'
  BY <1>0, NoneAssumption
    DEF IInv, ReplayNeedsOverlap, TypeOK, ServerInv, OverlapInv, Ask, OnWire,
      Reload, Loading, Unused, server, history
<1>q. QED  BY <1>1, <1>2, <1>3, <1>4, <1>5, <1>6, <1>7, <1>8, <1>9, <1>10 DEF IInv

\* A family with ids nobody has seen.
LEMMA ServeLoginKeeps ==
    ASSUME IInv, NEW r \in Asks, NEW f \in Families,
           NEW j \in Jtis, ServeLogin(r, f, j)
    PROVE  IInv'
<1>0. /\ ask' \in [Asks -> Ask \cup {None}]
      /\ OnWire(r)
      /\ ask'[r] # None
      /\ ask'[r].kind = ask[r].kind
      /\ ask'[r].tab = ask[r].tab
      /\ ask'[r].answer = "granted"
      /\ ask'[r].jti = j
      /\ ask'[r].sent = ask[r].sent
      /\ \A q \in Asks : q # r => ask'[q] = ask[q]
  BY AnsweredFacts DEF IInv, TypeOK, ServeLogin, Pending
<1>1. TypeOK'
  BY <1>0, NoneAssumption
    DEF IInv, TypeOK, AskInv, SpentInv, Page, Ask, OnWire, ServeLogin,
      Pending, Fresh, Chains!Open, server, history
<1>2. ServerInv'
  BY <1>0, NoneAssumption
    DEF IInv, ServerInv, TypeOK, AskInv, OnWire, ServeLogin, Pending, Fresh,
      Chains!Open, server, history
<1>3. AskInv'
  BY <1>0, NoneAssumption
    DEF IInv, AskInv, TypeOK, ServerInv, Ask, OnWire, SpentInv, ServeLogin,
      Pending, Fresh, Chains!Open, server, history
<1>4. PageInv'
  BY <1>0 DEF IInv, PageInv, OnWire, ServeLogin
<1>5. UndeliveredInv'
  BY <1>0, NoneAssumption
    DEF IInv, UndeliveredInv, TypeOK, ServerInv, AskInv, SpentInv, Ask,
      OnWire, ServeLogin, Pending, Fresh, Chains!Open, server, history
<1>6. SpentInv'
  BY <1>0, NoneAssumption
    DEF IInv, SpentInv, TypeOK, ServerInv, AskInv, UndeliveredInv, Ask,
      OnWire, ServeLogin, Pending, Fresh, Chains!Open, server, history
<1>7. OverlapInv'
  <2>1. /\ \A i \in Jtis : issuedIn[i] # None => issuedIn'[i] = issuedIn[i]
        /\ UNCHANGED <<spent, doubled>>
        /\ ask[r].kind = "login"
    BY DEF IInv, TypeOK, ServeLogin, Fresh, Pending, Chains!Open, history
  <2>2. \A q \in Asks : OnWire(q) /\ ask[q].sent # None =>
           issuedIn'[ask[q].sent] = issuedIn[ask[q].sent]
    BY <2>1 DEF IInv, TypeOK, AskInv, Ask, OnWire
  <2> QED
    BY <1>0, <2>1, <2>2 DEF IInv, OverlapInv, OnWire
<1>8. LastWordInv'
  BY <1>0, NoneAssumption
    DEF IInv, LastWordInv, TypeOK, AskInv, SpentInv, Ask, OnWire, ServeLogin,
      Pending, Fresh, Chains!Open, server, history
<1>9. SignedOutInv'
  BY <1>0, NoneAssumption
    DEF IInv, SignedOutInv, TypeOK, PageInv, Page, Ask, OnWire, ServeLogin,
      Pending, Fresh, Chains!Open, server, history
<1>10. ReplayNeedsOverlap'
  BY <1>0, NoneAssumption
    DEF IInv, ReplayNeedsOverlap, TypeOK, ServerInv, OverlapInv, Ask, OnWire,
      ServeLogin, Pending, Fresh, Chains!Open, server, history
<1>q. QED  BY <1>1, <1>2, <1>3, <1>4, <1>5, <1>6, <1>7, <1>8, <1>9, <1>10 DEF IInv

\* The cookie may be spent from here on: the answer that replaces it is on
\* the wire, or it is an orphan.
LEMMA ServeRefreshKeeps ==
    ASSUME IInv, NEW r \in Asks, NEW f \in Families,
           NEW j \in Jtis, NEW answer \in {"granted", "refused"}, ServeRefresh(r, f, j, answer)
    PROVE  IInv'
<1>0. /\ ask' \in [Asks -> Ask \cup {None}]
      /\ OnWire(r)
      /\ ask'[r] # None
      /\ ask'[r].kind = ask[r].kind
      /\ ask'[r].tab = ask[r].tab
      /\ ask'[r].answer = answer
      /\ ask'[r].jti = IF answer = "granted" THEN j ELSE None
      /\ ask'[r].sent = IF answer = "refused" THEN None ELSE ask[r].sent
      /\ \A q \in Asks : q # r => ask'[q] = ask[q]
  BY AnsweredFacts DEF IInv, TypeOK, ServeRefresh, Presents, Pending
<1>1. TypeOK'
  BY <1>0, NoneAssumption
    DEF IInv, TypeOK, AskInv, SpentInv, Page, Ask, OnWire, ServeRefresh,
      Presents, Pending, Fresh, Chains!Renew, server, history
<1>2. ServerInv'
  BY <1>0, NoneAssumption
    DEF IInv, ServerInv, TypeOK, AskInv, OnWire, ServeRefresh, Presents,
      Pending, Fresh, Chains!Renew, server, history
<1>3. AskInv'
  BY <1>0, NoneAssumption
    DEF IInv, AskInv, TypeOK, ServerInv, Ask, OnWire, SpentInv, ServeRefresh,
      Presents, Pending, Fresh, Chains!Renew, server, history
<1>4. PageInv'
  BY <1>0 DEF IInv, PageInv, OnWire, ServeRefresh
<1>5. UndeliveredInv'
  BY <1>0, NoneAssumption
    DEF IInv, UndeliveredInv, TypeOK, ServerInv, AskInv, SpentInv, Ask,
      OnWire, ServeRefresh, Presents, Pending, Fresh, Chains!Renew, server,
      history
<1>6. SpentInv'
  BY <1>0, NoneAssumption
    DEF IInv, SpentInv, TypeOK, ServerInv, AskInv, UndeliveredInv, Ask,
      OnWire, ServeRefresh, Presents, Pending, Fresh, Chains!Renew, server,
      history
<1>7. OverlapInv'
  BY <1>0, NoneAssumption
    DEF IInv, OverlapInv, TypeOK, ServerInv, AskInv, PageInv, UndeliveredInv,
      SpentInv, Ask, OnWire, ServeRefresh, Presents, Pending, Fresh,
      Chains!Renew, server, history
<1>8. LastWordInv'
  <2>1. current[f] = ask[r].sent /\ ask[r].kind = "refresh" /\ ask[r].sent # None
        /\ issuedIn[ask[r].sent] = f /\ Fresh(j)
        /\ UNCHANGED <<crossed, latest, cookie>>
        /\ issuedIn' = [issuedIn EXCEPT ![j] = f]
    BY DEF ServeRefresh, Presents, Pending
  <2>2. /\ issuedIn'[j] = f
        /\ \A i \in Jtis : issuedIn[i] # None => issuedIn'[i] = issuedIn[i]
    BY <2>1 DEF IInv, TypeOK, Fresh
  <2>3. cookie \in Jtis \cup {None} /\ ask[r].sent \in Jtis
        /\ \A q \in Asks : OnWire(q) => /\ ask[q].sent \in Jtis \cup {None}
                                        /\ ask[q].jti \in Jtis \cup {None}
    BY <2>1, <1>0 DEF IInv, TypeOK, Ask, OnWire
  <2>4. /\ cookie # None => issuedIn'[cookie] = issuedIn[cookie]
        /\ \A q \in Asks : OnWire(q) =>
              /\ ask[q].sent # None => issuedIn'[ask[q].sent] = issuedIn[ask[q].sent]
              /\ ask[q].jti # None => issuedIn'[ask[q].jti] = issuedIn[ask[q].jti]
    BY <2>2, <2>3 DEF IInv, AskInv, SpentInv
  <2> QED
    BY <1>0, <2>1, <2>2, <2>4 DEF IInv, LastWordInv, OnWire
<1>9. SignedOutInv'
  BY <1>0, NoneAssumption
    DEF IInv, SignedOutInv, TypeOK, PageInv, Page, Ask, OnWire, ServeRefresh,
      Presents, Pending, Fresh, Chains!Renew, server, history
<1>10. ReplayNeedsOverlap'
  BY <1>0, NoneAssumption
    DEF IInv, ReplayNeedsOverlap, TypeOK, ServerInv, OverlapInv, Ask, OnWire,
      ServeRefresh, Presents, Pending, Fresh, Chains!Renew, server, history
<1>q. QED  BY <1>1, <1>2, <1>3, <1>4, <1>5, <1>6, <1>7, <1>8, <1>9, <1>10 DEF IInv

\* What was presented is spent, and so was shared.
LEMMA ServeReplayKeeps ==
    ASSUME IInv, NEW r \in Asks, NEW f \in Families, ServeReplay(r, f)
    PROVE  IInv'
<1>0. /\ ask' \in [Asks -> Ask \cup {None}]
      /\ OnWire(r)
      /\ ask'[r] # None
      /\ ask'[r].kind = ask[r].kind
      /\ ask'[r].tab = ask[r].tab
      /\ ask'[r].answer = "refused"
      /\ ask'[r].jti = None
      /\ ask'[r].sent = None
      /\ \A q \in Asks : q # r => ask'[q] = ask[q]
  BY AnsweredFacts DEF IInv, TypeOK, ServeReplay, Presents, Pending
<1>1. TypeOK'
  BY <1>0, NoneAssumption
    DEF IInv, TypeOK, AskInv, SpentInv, Page, Ask, OnWire, ServeReplay,
      Presents, Pending, Chains!Close, server, history
<1>2. ServerInv'
  BY <1>0, NoneAssumption
    DEF IInv, ServerInv, TypeOK, AskInv, OnWire, ServeReplay, Presents,
      Pending, Chains!Close, server, history
<1>3. AskInv'
  BY <1>0, NoneAssumption
    DEF IInv, AskInv, TypeOK, ServerInv, Ask, OnWire, SpentInv, ServeReplay,
      Presents, Pending, Chains!Close, server, history
<1>4. PageInv'
  BY <1>0 DEF IInv, PageInv, OnWire, ServeReplay
<1>5. UndeliveredInv'
  BY <1>0, NoneAssumption
    DEF IInv, UndeliveredInv, TypeOK, ServerInv, AskInv, SpentInv, Ask,
      OnWire, ServeReplay, Presents, Pending, Chains!Close, server, history
<1>6. SpentInv'
  BY <1>0, NoneAssumption
    DEF IInv, SpentInv, TypeOK, ServerInv, AskInv, UndeliveredInv, Ask,
      OnWire, ServeReplay, Presents, Pending, Chains!Close, server, history
<1>7. OverlapInv'
  BY <1>0, NoneAssumption
    DEF IInv, OverlapInv, TypeOK, ServerInv, AskInv, PageInv, UndeliveredInv,
      SpentInv, Ask, OnWire, ServeReplay, Presents, Pending, Chains!Close,
      server, history
<1>8. LastWordInv'
  BY <1>0, NoneAssumption
    DEF IInv, LastWordInv, TypeOK, AskInv, SpentInv, Ask, OnWire, ServeReplay,
      Presents, Pending, Chains!Close, server, history
<1>9. SignedOutInv'
  BY <1>0, NoneAssumption
    DEF IInv, SignedOutInv, TypeOK, PageInv, Page, Ask, OnWire, ServeReplay,
      Presents, Pending, Chains!Close, server, history
<1>10. ReplayNeedsOverlap'
  BY <1>0, NoneAssumption
    DEF IInv, ReplayNeedsOverlap, TypeOK, ServerInv, OverlapInv, Ask, OnWire,
      ServeReplay, Presents, Pending, Chains!Close, server, history
<1>q. QED  BY <1>1, <1>2, <1>3, <1>4, <1>5, <1>6, <1>7, <1>8, <1>9, <1>10 DEF IInv

\* A refusal.
LEMMA ServeUnknownKeeps ==
    ASSUME IInv, NEW r \in Asks, ServeUnknown(r)
    PROVE  IInv'
<1>0. /\ ask' \in [Asks -> Ask \cup {None}]
      /\ OnWire(r)
      /\ ask'[r] # None
      /\ ask'[r].kind = ask[r].kind
      /\ ask'[r].tab = ask[r].tab
      /\ ask'[r].answer = "refused"
      /\ ask'[r].jti = None
      /\ ask'[r].sent = None
      /\ \A q \in Asks : q # r => ask'[q] = ask[q]
  BY AnsweredFacts DEF IInv, TypeOK, ServeUnknown, Pending
<1>1. TypeOK'
  BY <1>0, NoneAssumption
    DEF IInv, TypeOK, AskInv, SpentInv, Page, Ask, OnWire, ServeUnknown,
      Pending, server, history
<1>2. ServerInv'
  BY <1>0, NoneAssumption
    DEF IInv, ServerInv, TypeOK, AskInv, OnWire, ServeUnknown, Pending,
      server, history
<1>3. AskInv'
  BY <1>0, NoneAssumption
    DEF IInv, AskInv, TypeOK, ServerInv, Ask, OnWire, SpentInv, ServeUnknown,
      Pending, server, history
<1>4. PageInv'
  BY <1>0 DEF IInv, PageInv, OnWire, ServeUnknown
<1>5. UndeliveredInv'
  BY <1>0, NoneAssumption
    DEF IInv, UndeliveredInv, TypeOK, ServerInv, AskInv, SpentInv, Ask,
      OnWire, ServeUnknown, Pending, server, history
<1>6. SpentInv'
  BY <1>0, NoneAssumption
    DEF IInv, SpentInv, TypeOK, ServerInv, AskInv, UndeliveredInv, Ask,
      OnWire, ServeUnknown, Pending, server, history
<1>7. OverlapInv'
  BY <1>0 DEF IInv, OverlapInv, OnWire, ServeUnknown, server, history
<1>8. LastWordInv'
  BY <1>0, NoneAssumption
    DEF IInv, LastWordInv, TypeOK, AskInv, SpentInv, Ask, OnWire,
      ServeUnknown, Pending, server, history
<1>9. SignedOutInv'
  BY <1>0, NoneAssumption
    DEF IInv, SignedOutInv, TypeOK, PageInv, Page, Ask, OnWire, ServeUnknown,
      Pending, server, history
<1>10. ReplayNeedsOverlap'
  BY <1>0, NoneAssumption
    DEF IInv, ReplayNeedsOverlap, TypeOK, ServerInv, OverlapInv, Ask, OnWire,
      ServeUnknown, Pending, server, history
<1>q. QED  BY <1>1, <1>2, <1>3, <1>4, <1>5, <1>6, <1>7, <1>8, <1>9, <1>10 DEF IInv

\* The family of the cookie ends.
LEMMA ServeLogoutKeeps ==
    ASSUME IInv, NEW r \in Asks, ServeLogout(r)
    PROVE  IInv'
<1>0. /\ ask' \in [Asks -> Ask \cup {None}]
      /\ OnWire(r)
      /\ ask'[r] # None
      /\ ask'[r].kind = ask[r].kind
      /\ ask'[r].tab = ask[r].tab
      /\ ask'[r].answer = "granted"
      /\ ask'[r].jti = None
      /\ ask'[r].sent = ask[r].sent
      /\ \A q \in Asks : q # r => ask'[q] = ask[q]
  BY AnsweredFacts DEF IInv, TypeOK, ServeLogout, Pending
<1>1. TypeOK'
  BY <1>0, NoneAssumption
    DEF IInv, TypeOK, AskInv, SpentInv, Page, Ask, OnWire, ServeLogout,
      Pending, Chains!Close, server, history
<1>2. ServerInv'
  BY <1>0, NoneAssumption
    DEF IInv, ServerInv, TypeOK, AskInv, OnWire, ServeLogout, Pending,
      Chains!Close, server, history
<1>3. AskInv'
  BY <1>0, NoneAssumption
    DEF IInv, AskInv, TypeOK, ServerInv, Ask, OnWire, SpentInv, ServeLogout,
      Pending, Chains!Close, server, history
<1>4. PageInv'
  BY <1>0 DEF IInv, PageInv, OnWire, ServeLogout
<1>5. UndeliveredInv'
  BY <1>0, NoneAssumption
    DEF IInv, UndeliveredInv, TypeOK, ServerInv, AskInv, SpentInv, Ask,
      OnWire, ServeLogout, Pending, Chains!Close, server, history
<1>6. SpentInv'
  BY <1>0, NoneAssumption
    DEF IInv, SpentInv, TypeOK, ServerInv, AskInv, UndeliveredInv, Ask,
      OnWire, ServeLogout, Pending, Chains!Close, server, history
<1>7. OverlapInv'
  BY <1>0, NoneAssumption
    DEF IInv, OverlapInv, TypeOK, ServerInv, AskInv, PageInv, UndeliveredInv,
      SpentInv, Ask, OnWire, ServeLogout, Pending, Chains!Close, server,
      history
<1>8. LastWordInv'
  BY <1>0, NoneAssumption
    DEF IInv, LastWordInv, TypeOK, AskInv, SpentInv, Ask, OnWire, ServeLogout,
      Pending, Chains!Close, server, history
<1>9. SignedOutInv'
  BY <1>0, NoneAssumption
    DEF IInv, SignedOutInv, TypeOK, PageInv, Page, Ask, OnWire, ServeLogout,
      Pending, Chains!Close, server, history
<1>10. ReplayNeedsOverlap'
  BY <1>0, NoneAssumption
    DEF IInv, ReplayNeedsOverlap, TypeOK, ServerInv, OverlapInv, Ask, OnWire,
      ServeLogout, Pending, Chains!Close, server, history
<1>q. QED  BY <1>1, <1>2, <1>3, <1>4, <1>5, <1>6, <1>7, <1>8, <1>9, <1>10 DEF IInv

\* A family ends.
LEMMA EndFamilyKeeps ==
    ASSUME IInv, NEW f \in Families, EndFamily(f)
    PROVE  IInv'
<1>1. TypeOK'
  BY NoneAssumption
    DEF IInv, TypeOK, AskInv, SpentInv, Page, Ask, OnWire, EndFamily,
      Chains!Close, server, history
<1>2. ServerInv'
  BY NoneAssumption
    DEF IInv, ServerInv, TypeOK, AskInv, OnWire, EndFamily, Chains!Close,
      server, history
<1>3. AskInv'
  BY NoneAssumption
    DEF IInv, AskInv, TypeOK, ServerInv, Ask, OnWire, SpentInv, EndFamily,
      Chains!Close, server, history
<1>4. PageInv'
  BY NoneAssumption
    DEF IInv, PageInv, TypeOK, Page, Ask, OnWire, EndFamily, Chains!Close,
      server, history
<1>5. UndeliveredInv'
  BY NoneAssumption
    DEF IInv, UndeliveredInv, TypeOK, ServerInv, AskInv, SpentInv, Ask,
      OnWire, EndFamily, Chains!Close, server, history
<1>6. SpentInv'
  BY NoneAssumption
    DEF IInv, SpentInv, TypeOK, ServerInv, AskInv, UndeliveredInv, Ask,
      OnWire, EndFamily, Chains!Close, server, history
<1>7. OverlapInv'
  BY NoneAssumption
    DEF IInv, OverlapInv, TypeOK, ServerInv, AskInv, PageInv, UndeliveredInv,
      SpentInv, Ask, OnWire, EndFamily, Chains!Close, server, history
<1>8. LastWordInv'
  BY NoneAssumption
    DEF IInv, LastWordInv, TypeOK, AskInv, SpentInv, Ask, OnWire, EndFamily,
      Chains!Close, server, history
<1>9. SignedOutInv'
  BY NoneAssumption
    DEF IInv, SignedOutInv, TypeOK, PageInv, Page, Ask, OnWire, EndFamily,
      Chains!Close, server, history
<1>10. ReplayNeedsOverlap'
  BY NoneAssumption
    DEF IInv, ReplayNeedsOverlap, TypeOK, ServerInv, OverlapInv, Ask, OnWire,
      EndFamily, Chains!Close, server, history
<1>q. QED  BY <1>1, <1>2, <1>3, <1>4, <1>5, <1>6, <1>7, <1>8, <1>9, <1>10 DEF IInv

\* A call ends.
LEMMA CallEndsKeeps ==
    ASSUME IInv, NEW t \in Tabs, NEW c \in Calls, CallEnds(t, c)
    PROVE  IInv'
<1>1. TypeOK'
  BY NoneAssumption
    DEF IInv, TypeOK, AskInv, SpentInv, Page, Ask, OnWire, CallEnds, server,
      history
<1>2. ServerInv'
  BY NoneAssumption
    DEF IInv, ServerInv, TypeOK, AskInv, OnWire, CallEnds, server, history
<1>3. AskInv'
  BY NoneAssumption
    DEF IInv, AskInv, TypeOK, ServerInv, Ask, OnWire, SpentInv, CallEnds,
      server, history
<1>4. PageInv'
  BY NoneAssumption
    DEF IInv, PageInv, TypeOK, Page, Ask, OnWire, CallEnds, server, history
<1>5. UndeliveredInv'
  BY NoneAssumption
    DEF IInv, UndeliveredInv, TypeOK, ServerInv, AskInv, SpentInv, Ask,
      OnWire, CallEnds, server, history
<1>6. SpentInv'
  BY NoneAssumption
    DEF IInv, SpentInv, TypeOK, ServerInv, AskInv, UndeliveredInv, Ask,
      OnWire, CallEnds, server, history
<1>7. OverlapInv'
  BY NoneAssumption
    DEF IInv, OverlapInv, TypeOK, ServerInv, AskInv, PageInv, UndeliveredInv,
      SpentInv, Ask, OnWire, CallEnds, server, history
<1>8. LastWordInv'
  BY NoneAssumption
    DEF IInv, LastWordInv, TypeOK, AskInv, SpentInv, Ask, OnWire, CallEnds,
      server, history
<1>9. SignedOutInv'
  BY NoneAssumption
    DEF IInv, SignedOutInv, TypeOK, PageInv, Page, Ask, OnWire, CallEnds,
      server, history
<1>10. ReplayNeedsOverlap'
  BY NoneAssumption
    DEF IInv, ReplayNeedsOverlap, TypeOK, ServerInv, OverlapInv, Ask, OnWire,
      CallEnds, server, history
<1>q. QED  BY <1>1, <1>2, <1>3, <1>4, <1>5, <1>6, <1>7, <1>8, <1>9, <1>10 DEF IInv

\* The new cookie is an id that only this answer knew.
LEMMA RefreshArrivesKeeps ==
    ASSUME IInv, NEW r \in Asks, RefreshArrives(r)
    PROVE  IInv'
<1>1. TypeOK'
  BY NoneAssumption
    DEF IInv, TypeOK, AskInv, SpentInv, Page, Ask, OnWire, RefreshArrives,
      Arrives, Gone, Released, server, history
<1>2. ServerInv'
  BY NoneAssumption
    DEF IInv, ServerInv, TypeOK, AskInv, OnWire, RefreshArrives, Arrives,
      Gone, Released, server, history
<1>3. AskInv'
  BY NoneAssumption
    DEF IInv, AskInv, TypeOK, ServerInv, Ask, OnWire, SpentInv,
      RefreshArrives, Arrives, Gone, Released, server, history
<1>4. PageInv'
  BY NoneAssumption
    DEF IInv, PageInv, TypeOK, Page, Ask, OnWire, RefreshArrives, Arrives,
      Gone, Released, server, history
<1>5. UndeliveredInv'
  BY NoneAssumption
    DEF IInv, UndeliveredInv, TypeOK, ServerInv, AskInv, SpentInv, Ask,
      OnWire, RefreshArrives, Arrives, Gone, Released, server, history
<1>6. SpentInv'
  BY NoneAssumption
    DEF IInv, SpentInv, TypeOK, ServerInv, AskInv, UndeliveredInv, Ask,
      OnWire, RefreshArrives, Arrives, Gone, Released, server, history
<1>7. OverlapInv'
  BY NoneAssumption
    DEF IInv, OverlapInv, TypeOK, ServerInv, AskInv, PageInv, UndeliveredInv,
      SpentInv, Ask, OnWire, RefreshArrives, Arrives, Gone, Released, server,
      history
<1>8. LastWordInv'
  BY NoneAssumption
    DEF IInv, LastWordInv, TypeOK, AskInv, SpentInv, Ask, OnWire,
      RefreshArrives, Arrives, Gone, Released, server, history
<1>9. SignedOutInv'
  BY NoneAssumption
    DEF IInv, SignedOutInv, TypeOK, PageInv, Page, Ask, OnWire,
      RefreshArrives, Arrives, Gone, Released, server, history
<1>10. ReplayNeedsOverlap'
  BY NoneAssumption
    DEF IInv, ReplayNeedsOverlap, TypeOK, ServerInv, OverlapInv, Ask, OnWire,
      RefreshArrives, Arrives, Gone, Released, server, history
<1>q. QED  BY <1>1, <1>2, <1>3, <1>4, <1>5, <1>6, <1>7, <1>8, <1>9, <1>10 DEF IInv

\* The page renders signed out.
LEMMA BootRefusedKeeps ==
    ASSUME IInv, NEW r \in Asks, BootRefused(r)
    PROVE  IInv'
<1>1. TypeOK'
  <2>1. ask' \in [Asks -> Ask \cup {None}]
    BY NoneAssumption
    DEF IInv, TypeOK, AskInv, SpentInv, Page, Ask, OnWire, BootRefused, Arrives, Gone,
      server, history
  <2>2. tab' \in [Tabs -> Page]
    <3>1. tab[ask[r].tab] \in Page
      BY DEF IInv, TypeOK, OnWire, Arrives, Ask, BootRefused
    <3>2. [tab[ask[r].tab] EXCEPT !.ready = TRUE, !.inFlight = FALSE] \in Page
      BY <3>1, PageFacts
    <3>3. tab' = [tab EXCEPT ![ask[r].tab] =
                    [tab[ask[r].tab] EXCEPT !.ready = TRUE, !.inFlight = FALSE]]
      BY DEF BootRefused
    <3> QED  BY <3>2, <3>3 DEF IInv, TypeOK
  <2>3. call' \in [Tabs -> [Calls -> {"idle", "waiting", "retry"}]]
    BY NoneAssumption
    DEF IInv, TypeOK, AskInv, SpentInv, Page, Ask, OnWire, BootRefused, Arrives, Gone,
      server, history
  <2>4. /\ phase' \in [Families -> {"unborn", "live", "over"}]
        /\ current' \in [Families -> Jtis \cup {None}]
        /\ spent' \in SUBSET Jtis
        /\ issuedIn' \in [Jtis -> Families \cup {None}]
    BY NoneAssumption
    DEF IInv, TypeOK, AskInv, SpentInv, Page, Ask, OnWire, BootRefused, Arrives, Gone,
      server, history
  <2>5. /\ cookie' \in Jtis \cup {None}
        /\ reloads' \in 0..MaxReloads
        /\ burned' \in SUBSET Families
        /\ doubled' \in SUBSET Families
        /\ orphaned' \in SUBSET Jtis
        /\ latest' \in Families \cup {None}
        /\ crossed' \in BOOLEAN
        /\ out' \in SUBSET Tabs
    BY NoneAssumption
    DEF IInv, TypeOK, AskInv, SpentInv, Page, Ask, OnWire, BootRefused, Arrives, Gone,
      server, history
  <2> QED  BY <2>1, <2>2, <2>3, <2>4, <2>5 DEF TypeOK
<1>2. ServerInv'
  BY NoneAssumption
    DEF IInv, ServerInv, TypeOK, AskInv, OnWire, BootRefused, Arrives, Gone,
      server, history
<1>3. AskInv'
  BY NoneAssumption
    DEF IInv, AskInv, TypeOK, ServerInv, Ask, OnWire, SpentInv, BootRefused,
      Arrives, Gone, server, history
<1>4. PageInv'
  BY NoneAssumption
    DEF IInv, PageInv, TypeOK, Page, Ask, OnWire, BootRefused, Arrives, Gone,
      server, history
<1>5. UndeliveredInv'
  BY NoneAssumption
    DEF IInv, UndeliveredInv, TypeOK, ServerInv, AskInv, SpentInv, Ask,
      OnWire, BootRefused, Arrives, Gone, server, history
<1>6. SpentInv'
  BY NoneAssumption
    DEF IInv, SpentInv, TypeOK, ServerInv, AskInv, UndeliveredInv, Ask,
      OnWire, BootRefused, Arrives, Gone, server, history
<1>7. OverlapInv'
  BY NoneAssumption
    DEF IInv, OverlapInv, TypeOK, ServerInv, AskInv, PageInv, UndeliveredInv,
      SpentInv, Ask, OnWire, BootRefused, Arrives, Gone, server, history
<1>8. LastWordInv'
  BY NoneAssumption
    DEF IInv, LastWordInv, TypeOK, AskInv, SpentInv, Ask, OnWire, BootRefused,
      Arrives, Gone, server, history
<1>9. SignedOutInv'
  BY NoneAssumption
    DEF IInv, SignedOutInv, TypeOK, PageInv, Page, Ask, OnWire, BootRefused,
      Arrives, Gone, server, history
<1>10. ReplayNeedsOverlap'
  BY NoneAssumption
    DEF IInv, ReplayNeedsOverlap, TypeOK, ServerInv, OverlapInv, Ask, OnWire,
      BootRefused, Arrives, Gone, server, history
<1>q. QED  BY <1>1, <1>2, <1>3, <1>4, <1>5, <1>6, <1>7, <1>8, <1>9, <1>10 DEF IInv

\* The page stays on /auth, or is loaded again.
LEMMA RefreshRefusedKeeps ==
    ASSUME IInv, NEW r \in Asks, RefreshRefused(r)
    PROVE  IInv'
<1> DEFINE t == ask[r].tab
<1>1. /\ OnWire(r) /\ t \in Tabs
      /\ ask[r].kind = "refresh"
      /\ ask[r].answer = "refused"
      /\ tab[t] \in Page /\ tab[t].ready /\ tab[t].inFlight
  BY NoneAssumption
  DEF IInv, TypeOK, PageInv, OnWire, Ask, RefreshRefused, Arrives
<1>2. UNCHANGED <<server, cookie, reloads, burned, doubled, orphaned, latest,
                  crossed>>
  BY DEF RefreshRefused
<1>3. /\ ask' \in [Asks -> Ask \cup {None}]
      /\ ask'[r] = None
      /\ \A q \in Asks \ {r} :
            /\ ask'[q] # None <=> OnWire(q)
            /\ OnWire(q) =>
                  /\ ask'[q].kind = ask[q].kind
                  /\ ask'[q].sent = ask[q].sent
                  /\ ask'[q].answer = ask[q].answer
                  /\ ask'[q].jti = ask[q].jti
                  /\ ask'[q].tab \in {None, ask[q].tab}
      /\ tab' \in [Tabs -> Page]
      /\ \A u \in Tabs : u # t => tab'[u] = tab[u]
      /\ ~tab'[t].inFlight /\ ~tab'[t].token
      /\ tab'[t].ready \/ \A q \in Asks \ {r} : OnWire(q) => ask'[q].tab # t
      /\ call' \in [Tabs -> [Calls -> {"idle", "waiting", "retry"}]]
      /\ out' \subseteq out /\ (t \in out' => tab'[t].ready)
  <2>1. CASE /\ tab' = [tab EXCEPT ![t] =
                          [@ EXCEPT !.token = FALSE, !.inFlight = FALSE]]
             /\ call' = [call EXCEPT ![t] = Released(t, "idle")]
             /\ ask' = Gone(r)
             /\ UNCHANGED out
    <3>1. /\ tab' = [tab EXCEPT ![t] =
                       [tab[t] EXCEPT !.token = FALSE, !.inFlight = FALSE]]
          /\ call' = [call EXCEPT ![t] = Released(t, "idle")]
          /\ ask' = [ask EXCEPT ![r] = None]
          /\ out' = out
      BY <2>1 DEF Gone
    <3>2. [tab[t] EXCEPT !.token = FALSE, !.inFlight = FALSE] \in Page
      BY <1>1, PageFacts
    <3>3. /\ tab' \in [Tabs -> Page]
          /\ \A u \in Tabs : u # t => tab'[u] = tab[u]
          /\ ~tab'[t].inFlight /\ ~tab'[t].token /\ tab'[t].ready
      BY <1>1, <3>1, <3>2 DEF IInv, TypeOK, Page
    <3>4. call' \in [Tabs -> [Calls -> {"idle", "waiting", "retry"}]]
      BY <1>1, <3>1, ReleasedType DEF IInv, TypeOK
    <3>5. /\ ask' \in [Asks -> Ask \cup {None}]
          /\ ask'[r] = None
          /\ \A q \in Asks \ {r} : ask'[q] = ask[q]
      BY <3>1 DEF IInv, TypeOK
    <3> QED  BY <3>1, <3>3, <3>4, <3>5 DEF OnWire
  <2>2. CASE /\ tab' = [tab EXCEPT ![t] = Loading]
             /\ call' = [call EXCEPT ![t] = Unused]
             /\ ask' = [Abandoned(t) EXCEPT ![r] = None]
             /\ out' = out \ {t}
    <3>1. /\ tab' = [tab EXCEPT ![t] = Loading]
          /\ call' = [call EXCEPT ![t] = Unused]
          /\ ask' = [Abandoned(t) EXCEPT ![r] = None]
          /\ out' = out \ {t}
      BY <2>2
    <3>2. Loading \in Page  BY <1>1, PageFacts
    <3>3. /\ tab' \in [Tabs -> Page]
          /\ \A u \in Tabs : u # t => tab'[u] = tab[u]
          /\ ~tab'[t].inFlight /\ ~tab'[t].token
      BY <1>1, <3>1, <3>2 DEF IInv, TypeOK, Loading
    <3>4. call' \in [Tabs -> [Calls -> {"idle", "waiting", "retry"}]]
      BY <3>1 DEF IInv, TypeOK, Unused
    <3>5. /\ ask' \in [Asks -> Ask \cup {None}]
          /\ ask'[r] = None
          /\ \A q \in Asks \ {r} : ask'[q] = Abandoned(t)[q]
      BY <1>1, <3>1, AbandonedFacts DEF IInv
    <3>6. \A q \in Asks \ {r} :
            /\ ask'[q] # None <=> OnWire(q)
            /\ OnWire(q) =>
                  /\ ask'[q].kind = ask[q].kind
                  /\ ask'[q].sent = ask[q].sent
                  /\ ask'[q].answer = ask[q].answer
                  /\ ask'[q].jti = ask[q].jti
                  /\ ask'[q].tab = IF ask[q].tab = t THEN None ELSE ask[q].tab
      BY <1>1, <3>5, AbandonedFacts DEF IInv
    <3>7. \A q \in Asks \ {r} : OnWire(q) =>
             ask'[q].tab \in {None, ask[q].tab} /\ ask'[q].tab # t
      BY <1>1, <3>6, NoneAssumption
    <3>8. out' \subseteq out /\ t \notin out'
      BY <3>1
    <3> HIDE DEF t
    <3> QED  BY <3>3, <3>4, <3>5, <3>6, <3>7, <3>8
  <2> QED  BY <2>1, <2>2 DEF RefreshRefused
<1> HIDE DEF t
<1>4. TypeOK'
  BY <1>2, <1>3 DEF IInv, TypeOK, server
<1>5. AskInv'
  BY <1>2, <1>3 DEF IInv, AskInv, OnWire, server
<1>6. PageInv'
  <2>1. \A q \in Asks : OnWire(q) => ask[q].tab \in Tabs \cup {None}
    BY DEF IInv, TypeOK, OnWire, Ask
  <2>2. \A u \in Tabs : tab'[u].token => tab'[u].ready
    BY <1>1, <1>3 DEF IInv, PageInv
  <2>3. \A q \in Asks \ {r} : OnWire(q) /\ ask[q].kind = "refresh" =>
           ask[q].tab # t
    BY <1>1, NoneAssumption DEF IInv, PageInv, t
  <2>4. \A q \in Asks \ {r} : OnWire(q) /\ ask'[q].tab # None =>
           IF ask[q].kind = "refresh" THEN tab'[ask'[q].tab].inFlight
                                      ELSE tab'[ask'[q].tab].ready
    BY <1>3, <2>1, <2>3 DEF IInv, PageInv
  <2>5. \A q, p \in Asks \ {r} :
           OnWire(q) /\ OnWire(p) /\ ask[q].kind = "refresh"
             /\ ask[p].kind = "refresh" /\ ask'[q].tab # None
             /\ ask'[q].tab = ask'[p].tab => q = p
    BY <1>3 DEF IInv, PageInv
  <2> QED
    BY <1>3, <2>2, <2>4, <2>5 DEF PageInv, OnWire
<1>7. UndeliveredInv'
  BY <1>2, <1>3 DEF IInv, UndeliveredInv, OnWire, server
<1>8. SpentInv'
  BY <1>1, <1>2, <1>3 DEF IInv, SpentInv, OnWire, server
<1>9. OverlapInv'
  BY <1>2, <1>3 DEF IInv, OverlapInv, OnWire, server
<1>10. LastWordInv'
  BY <1>2, <1>3 DEF IInv, LastWordInv, OnWire, server
<1>11. ServerInv' /\ ReplayNeedsOverlap'
  BY <1>2 DEF IInv, ServerInv, ReplayNeedsOverlap, server
<1>12. SignedOutInv'
  BY <1>3 DEF IInv, TypeOK, SignedOutInv
<1> QED
  BY <1>4, <1>5, <1>6, <1>7, <1>8, <1>9, <1>10, <1>11, <1>12 DEF IInv

\* The last word is a login's.
LEMMA SignedInKeeps ==
    ASSUME IInv, NEW r \in Asks, SignedIn(r)
    PROVE  IInv'
<1>1. TypeOK'
  <2>1. ask' \in [Asks -> Ask \cup {None}]
    BY NoneAssumption
    DEF IInv, TypeOK, AskInv, SpentInv, Page, Ask, OnWire, SignedIn, Arrives, Gone, Signed, Others,
      server, history
  <2>2. tab' \in [Tabs -> Page]
    <3>1. tab[ask[r].tab] \in Page  BY DEF IInv, TypeOK, OnWire, Arrives, Ask, SignedIn
    <3>2. [tab[ask[r].tab] EXCEPT !.token = TRUE] \in Page  BY <3>1, PageFacts
    <3>3. tab' = [tab EXCEPT ![ask[r].tab] = [tab[ask[r].tab] EXCEPT !.token = TRUE]]
      BY DEF SignedIn
    <3> QED  BY <3>2, <3>3 DEF IInv, TypeOK
  <2>3. call' \in [Tabs -> [Calls -> {"idle", "waiting", "retry"}]]
    BY NoneAssumption
    DEF IInv, TypeOK, AskInv, SpentInv, Page, Ask, OnWire, SignedIn, Arrives, Gone, Signed, Others,
      server, history
  <2>4. /\ phase' \in [Families -> {"unborn", "live", "over"}]
        /\ current' \in [Families -> Jtis \cup {None}]
        /\ spent' \in SUBSET Jtis
        /\ issuedIn' \in [Jtis -> Families \cup {None}]
    BY NoneAssumption
    DEF IInv, TypeOK, AskInv, SpentInv, Page, Ask, OnWire, SignedIn, Arrives, Gone, Signed, Others,
      server, history
  <2>5. /\ cookie' \in Jtis \cup {None}
        /\ reloads' \in 0..MaxReloads
        /\ burned' \in SUBSET Families
        /\ doubled' \in SUBSET Families
        /\ orphaned' \in SUBSET Jtis
        /\ latest' \in Families \cup {None}
        /\ crossed' \in BOOLEAN
        /\ out' \in SUBSET Tabs
    BY NoneAssumption
    DEF IInv, TypeOK, AskInv, SpentInv, Page, Ask, OnWire, SignedIn, Arrives, Gone, Signed, Others,
      server, history
  <2> QED  BY <2>1, <2>2, <2>3, <2>4, <2>5 DEF TypeOK
<1>2. ServerInv'
  BY NoneAssumption
    DEF IInv, ServerInv, TypeOK, AskInv, OnWire, SignedIn, Arrives, Gone,
      Signed, Others, server, history
<1>3. AskInv'
  BY NoneAssumption
    DEF IInv, AskInv, TypeOK, ServerInv, Ask, OnWire, SpentInv, SignedIn,
      Arrives, Gone, Signed, Others, server, history
<1>4. PageInv'
  BY NoneAssumption
    DEF IInv, PageInv, TypeOK, Page, Ask, OnWire, SignedIn, Arrives, Gone,
      Signed, Others, server, history
<1>5. UndeliveredInv'
  BY NoneAssumption
    DEF IInv, UndeliveredInv, TypeOK, ServerInv, AskInv, SpentInv, Ask,
      OnWire, SignedIn, Arrives, Gone, Signed, Others, server, history
<1>6. SpentInv'
  BY NoneAssumption
    DEF IInv, SpentInv, TypeOK, ServerInv, AskInv, UndeliveredInv, Ask,
      OnWire, SignedIn, Arrives, Gone, Signed, Others, server, history
<1>7. OverlapInv'
  BY NoneAssumption
    DEF IInv, OverlapInv, TypeOK, ServerInv, AskInv, PageInv, UndeliveredInv,
      SpentInv, Ask, OnWire, SignedIn, Arrives, Gone, Signed, Others, server,
      history
<1>8. LastWordInv'
  BY NoneAssumption
    DEF IInv, LastWordInv, TypeOK, AskInv, SpentInv, Ask, OnWire, SignedIn,
      Arrives, Gone, Signed, Others, server, history
<1>9. SignedOutInv'
  BY NoneAssumption
    DEF IInv, SignedOutInv, TypeOK, PageInv, Page, Ask, OnWire, SignedIn,
      Arrives, Gone, Signed, Others, server, history
<1>10. ReplayNeedsOverlap'
  BY NoneAssumption
    DEF IInv, ReplayNeedsOverlap, TypeOK, ServerInv, OverlapInv, Ask, OnWire,
      SignedIn, Arrives, Gone, Signed, Others, server, history
<1>q. QED  BY <1>1, <1>2, <1>3, <1>4, <1>5, <1>6, <1>7, <1>8, <1>9, <1>10 DEF IInv

\* The last word is a log-out's.
LEMMA SignedOutKeeps ==
    ASSUME IInv, NEW r \in Asks, SignedOut(r)
    PROVE  IInv'
<1>1. TypeOK'
  <2>1. ask' \in [Asks -> Ask \cup {None}]
    BY NoneAssumption
    DEF IInv, TypeOK, AskInv, SpentInv, Page, Ask, OnWire, SignedOut, Arrives, Gone, Signed, Others, LeftBy,
      server, history
  <2>2. tab' \in [Tabs -> Page]
    <3>1. tab[ask[r].tab] \in Page  BY DEF IInv, TypeOK, OnWire, Arrives, Ask, SignedOut
    <3>2. [tab[ask[r].tab] EXCEPT !.token = FALSE] \in Page  BY <3>1, PageFacts
    <3>3. tab' = [tab EXCEPT ![ask[r].tab] = [tab[ask[r].tab] EXCEPT !.token = FALSE]]
      BY DEF SignedOut, LeftBy
    <3> QED  BY <3>2, <3>3 DEF IInv, TypeOK
  <2>3. call' \in [Tabs -> [Calls -> {"idle", "waiting", "retry"}]]
    BY NoneAssumption
    DEF IInv, TypeOK, AskInv, SpentInv, Page, Ask, OnWire, SignedOut, Arrives, Gone, Signed, Others, LeftBy,
      server, history
  <2>4. /\ phase' \in [Families -> {"unborn", "live", "over"}]
        /\ current' \in [Families -> Jtis \cup {None}]
        /\ spent' \in SUBSET Jtis
        /\ issuedIn' \in [Jtis -> Families \cup {None}]
    BY NoneAssumption
    DEF IInv, TypeOK, AskInv, SpentInv, Page, Ask, OnWire, SignedOut, Arrives, Gone, Signed, Others, LeftBy,
      server, history
  <2>5. /\ cookie' \in Jtis \cup {None}
        /\ reloads' \in 0..MaxReloads
        /\ burned' \in SUBSET Families
        /\ doubled' \in SUBSET Families
        /\ orphaned' \in SUBSET Jtis
        /\ latest' \in Families \cup {None}
        /\ crossed' \in BOOLEAN
        /\ out' \in SUBSET Tabs
    BY NoneAssumption
    DEF IInv, TypeOK, AskInv, SpentInv, Page, Ask, OnWire, SignedOut, Arrives, Gone, Signed, Others, LeftBy,
      server, history
  <2> QED  BY <2>1, <2>2, <2>3, <2>4, <2>5 DEF TypeOK
<1>2. ServerInv'
  BY NoneAssumption
    DEF IInv, ServerInv, TypeOK, AskInv, OnWire, SignedOut, Arrives, Gone,
      Signed, Others, LeftBy, server, history
<1>3. AskInv'
  BY NoneAssumption
    DEF IInv, AskInv, TypeOK, ServerInv, Ask, OnWire, SpentInv, SignedOut,
      Arrives, Gone, Signed, Others, LeftBy, server, history
<1>4. PageInv'
  BY NoneAssumption
    DEF IInv, PageInv, TypeOK, Page, Ask, OnWire, SignedOut, Arrives, Gone,
      Signed, Others, LeftBy, server, history
<1>5. UndeliveredInv'
  BY NoneAssumption
    DEF IInv, UndeliveredInv, TypeOK, ServerInv, AskInv, SpentInv, Ask,
      OnWire, SignedOut, Arrives, Gone, Signed, Others, LeftBy, server,
      history
<1>6. SpentInv'
  BY NoneAssumption
    DEF IInv, SpentInv, TypeOK, ServerInv, AskInv, UndeliveredInv, Ask,
      OnWire, SignedOut, Arrives, Gone, Signed, Others, LeftBy, server,
      history
<1>7. OverlapInv'
  BY NoneAssumption
    DEF IInv, OverlapInv, TypeOK, ServerInv, AskInv, PageInv, UndeliveredInv,
      SpentInv, Ask, OnWire, SignedOut, Arrives, Gone, Signed, Others, LeftBy,
      server, history
<1>8. LastWordInv'
  BY NoneAssumption
    DEF IInv, LastWordInv, TypeOK, AskInv, SpentInv, Ask, OnWire, SignedOut,
      Arrives, Gone, Signed, Others, LeftBy, server, history
<1>9. SignedOutInv'
  BY NoneAssumption
    DEF IInv, SignedOutInv, TypeOK, PageInv, Page, Ask, OnWire, SignedOut,
      Arrives, Gone, Signed, Others, LeftBy, server, history
<1>10. ReplayNeedsOverlap'
  BY NoneAssumption
    DEF IInv, ReplayNeedsOverlap, TypeOK, ServerInv, OverlapInv, Ask, OnWire,
      SignedOut, Arrives, Gone, Signed, Others, LeftBy, server, history
<1>q. QED  BY <1>1, <1>2, <1>3, <1>4, <1>5, <1>6, <1>7, <1>8, <1>9, <1>10 DEF IInv

\* A request whose page gave up lives on.
LEMMA FetchFailsKeeps ==
    ASSUME IInv, NEW r \in Asks, FetchFails(r)
    PROVE  IInv'
<1> DEFINE t == ask[r].tab
<1>1. OnWire(r) /\ ask[r] \in Ask /\ t \in Tabs /\ tab[t] \in Page
  BY DEF IInv, TypeOK, OnWire, Ask, FetchFails
<1>2. UNCHANGED <<server, cookie, reloads, burned, doubled, orphaned, latest,
                  crossed>>
  BY DEF FetchFails
<1>3. /\ ask' \in [Asks -> Ask \cup {None}]
      /\ ask'[r].tab = None
      /\ \A q \in Asks :
            /\ ask'[q] # None <=> OnWire(q)
            /\ q # r => ask'[q] = ask[q]
            /\ OnWire(q) =>
                  /\ ask'[q].kind = ask[q].kind
                  /\ ask'[q].sent = ask[q].sent
                  /\ ask'[q].answer = ask[q].answer
                  /\ ask'[q].jti = ask[q].jti
  <2> DEFINE new == [ask[r] EXCEPT !.tab = None]
  <2>1. ask' = [ask EXCEPT ![r] = new]  BY DEF FetchFails
  <2>2. /\ new \in Ask
        /\ new.tab = None
        /\ new.kind = ask[r].kind
        /\ new.sent = ask[r].sent
        /\ new.answer = ask[r].answer
        /\ new.jti = ask[r].jti
    BY <1>1 DEF Ask
  <2> HIDE DEF new
  <2> QED  BY <1>1, <2>1, <2>2, NoneAssumption DEF IInv, TypeOK, OnWire
<1>4. /\ tab' \in [Tabs -> Page]
      /\ \A u \in Tabs : u # t => tab'[u] = tab[u]
      /\ tab[t].ready => tab'[t].ready
      /\ tab'[t].token => tab[t].token
      /\ ask[r].kind # "refresh" => tab'[t].inFlight = tab[t].inFlight
      /\ call' \in [Tabs -> [Calls -> {"idle", "waiting", "retry"}]]
      /\ out' \subseteq out \cup {t}
      /\ t \in out' => tab'[t].ready /\ ~tab'[t].inFlight /\ ~tab'[t].token
  <2>1. CASE ask[r].kind = "refresh"
    <3>1. /\ tab' = [tab EXCEPT ![t] =
                       [tab[t] EXCEPT !.ready = TRUE, !.inFlight = FALSE]]
          /\ call' = [call EXCEPT ![t] = Released(t, "idle")]
          /\ out' = IF tab[t].ready THEN out ELSE out \cup {t}
      BY <2>1 DEF FetchFails
    <3>2. [tab[t] EXCEPT !.ready = TRUE, !.inFlight = FALSE] \in Page
      BY <1>1, PageFacts
    <3>3. /\ tab' \in [Tabs -> Page]
          /\ \A u \in Tabs : u # t => tab'[u] = tab[u]
          /\ tab'[t].ready /\ ~tab'[t].inFlight
          /\ tab'[t].token = tab[t].token
      BY <1>1, <3>1, <3>2 DEF IInv, TypeOK, Page
    <3>4. call' \in [Tabs -> [Calls -> {"idle", "waiting", "retry"}]]
      BY <1>1, <3>1, ReleasedType DEF IInv, TypeOK
    <3>5. tab[t].inFlight /\ (tab[t].token => tab[t].ready)
      BY <1>1, <2>1, NoneAssumption DEF IInv, PageInv
    <3>6. t \notin out  BY <3>5 DEF IInv, SignedOutInv
    <3> QED  BY <2>1, <3>1, <3>3, <3>4, <3>5, <3>6
  <2>2. CASE ask[r].kind = "login"
    BY <1>1, <2>2 DEF IInv, TypeOK, SignedOutInv, FetchFails
  <2>3. CASE ask[r].kind = "logout"
    <3>1. /\ tab' = [tab EXCEPT ![t] =
                       [tab[t] EXCEPT !.token = FALSE]]
          /\ call' = call
          /\ out' = IF tab[t].inFlight THEN out \ {t} ELSE out \cup {t}
      BY <2>3 DEF FetchFails, LeftBy
    <3>2. [tab[t] EXCEPT !.token = FALSE] \in Page
      BY <1>1, PageFacts
    <3>3. /\ tab' \in [Tabs -> Page]
          /\ \A u \in Tabs : u # t => tab'[u] = tab[u]
          /\ tab'[t].ready = tab[t].ready
          /\ tab'[t].inFlight = tab[t].inFlight
          /\ ~tab'[t].token
      BY <1>1, <3>1, <3>2 DEF IInv, TypeOK, Page
    <3>4. tab[t].ready
      BY <1>1, <2>3, NoneAssumption DEF IInv, PageInv
    <3> QED  BY <3>1, <3>3, <3>4 DEF IInv, TypeOK
  <2> QED  BY <1>1, <2>1, <2>2, <2>3 DEF Ask
<1> HIDE DEF t
<1>5. out' \in SUBSET Tabs
  BY <1>1, <1>4 DEF IInv, TypeOK
<1>6. TypeOK'
  BY <1>2, <1>3, <1>4, <1>5 DEF IInv, TypeOK, server
<1>7. AskInv'
  BY <1>2, <1>3 DEF IInv, AskInv, OnWire, server
<1>8. PageInv'
  <2>1. \A q \in Asks : OnWire(q) => ask[q].tab \in Tabs \cup {None}
    BY DEF IInv, TypeOK, OnWire, Ask
  <2>2. \A u \in Tabs : tab'[u].token => tab'[u].ready
    BY <1>1, <1>4 DEF IInv, PageInv
  <2>3. \A q \in Asks \ {r} :
          OnWire(q) /\ ask[q].tab # None =>
             IF ask[q].kind = "refresh" THEN tab'[ask[q].tab].inFlight
                                        ELSE tab'[ask[q].tab].ready
    BY <1>1, <1>4, <2>1, NoneAssumption DEF IInv, PageInv, t
  <2> QED
    BY <1>3, <2>1, <2>2, <2>3 DEF IInv, PageInv, OnWire
<1>9. UndeliveredInv'
  BY <1>2, <1>3 DEF IInv, UndeliveredInv, OnWire, server
<1>10. SpentInv'
  BY <1>2, <1>3 DEF IInv, SpentInv, OnWire, server
<1>11. OverlapInv'
  BY <1>2, <1>3 DEF IInv, OverlapInv, OnWire, server
<1>12. LastWordInv'
  BY <1>2, <1>3 DEF IInv, LastWordInv, OnWire, server
<1>13. ServerInv' /\ ReplayNeedsOverlap'
  BY <1>2 DEF IInv, ServerInv, ReplayNeedsOverlap, server
<1>14. SignedOutInv'
  BY <1>4 DEF IInv, TypeOK, SignedOutInv
<1> QED
  BY <1>6, <1>7, <1>8, <1>9, <1>10, <1>11, <1>12, <1>13, <1>14 DEF IInv

\* An answer to a page that is gone.
LEMMA CookieArrivesKeeps ==
    ASSUME IInv, NEW r \in Asks, CookieArrives(r)
    PROVE  IInv'
<1>1. /\ OnWire(r) /\ ask[r] \in Ask /\ ask[r].tab = None
      /\ ask[r].answer = "granted"
      /\ ask[r].jti \in Jtis \cup {None}
      /\ cookie' = ask[r].jti
      /\ UNCHANGED <<server, tab, call, reloads, burned, doubled, orphaned, out>>
  BY DEF IInv, TypeOK, OnWire, Ask, CookieArrives, Signed
<1>2. /\ ask' \in [Asks -> Ask \cup {None}]
      /\ ask'[r] = None
      /\ \A q \in Asks \ {r} : ask'[q] = ask[q]
  BY <1>1 DEF IInv, TypeOK, CookieArrives, Gone
<1>3. IF ask[r].kind = "refresh"
        THEN UNCHANGED <<latest, crossed>>
        ELSE /\ latest' = IF ask[r].jti = None THEN None
                                              ELSE issuedIn[ask[r].jti]
             /\ crossed' = \E q \in Asks \ {r} : OnWire(q)
  BY DEF CookieArrives, Signed, Others
<1>4. ask[r].jti # None =>
        /\ issuedIn[ask[r].jti] # None
        /\ ask[r].jti \notin spent
  BY <1>1 DEF IInv, AskInv, UndeliveredInv
<1>5. TypeOK'
  <2>1. latest' \in Families \cup {None}
    BY <1>1, <1>3 DEF IInv, TypeOK
  <2>2. crossed' \in BOOLEAN
    BY <1>3 DEF IInv, TypeOK
  <2> QED  BY <1>1, <1>2, <2>1, <2>2 DEF IInv, TypeOK, server
<1>6. AskInv'
  BY <1>1, <1>2 DEF IInv, AskInv, OnWire, server
<1>7. PageInv'
  BY <1>1, <1>2 DEF IInv, PageInv, OnWire
<1>8. UndeliveredInv'
  BY <1>1, <1>2 DEF IInv, UndeliveredInv, OnWire, server
<1>9. SpentInv'
  BY <1>1, <1>4, NoneAssumption DEF IInv, TypeOK, SpentInv, server
<1>10. OverlapInv'
  BY <1>1, <1>2 DEF IInv, OverlapInv, OnWire, server
<1>11. LastWordInv'
  <2>1. CASE ask[r].kind = "refresh"
    BY <1>1, <1>2, <1>3, <2>1 DEF IInv, LastWordInv, OnWire, server
  <2>2. CASE ask[r].kind # "refresh"
    BY <1>1, <1>2, <1>3, <2>2 DEF LastWordInv, OnWire, server
  <2> QED  BY <2>1, <2>2
<1>12. ServerInv' /\ SignedOutInv' /\ ReplayNeedsOverlap'
  BY <1>1 DEF IInv, ServerInv, SignedOutInv, ReplayNeedsOverlap, server
<1> QED
  BY <1>5, <1>6, <1>7, <1>8, <1>9, <1>10, <1>11, <1>12 DEF IInv

\* A rotation whose answer is lost leaves an orphan.
LEMMA VanishesKeeps ==
    ASSUME IInv, NEW r \in Asks, Vanishes(r)
    PROVE  IInv'
<1>1. TypeOK'
  BY NoneAssumption
    DEF IInv, TypeOK, AskInv, SpentInv, Page, Ask, OnWire, Vanishes, Gone,
      server, history
<1>2. ServerInv'
  BY NoneAssumption
    DEF IInv, ServerInv, TypeOK, AskInv, OnWire, Vanishes, Gone, server,
      history
<1>3. AskInv'
  BY NoneAssumption
    DEF IInv, AskInv, TypeOK, ServerInv, Ask, OnWire, SpentInv, Vanishes,
      Gone, server, history
<1>4. PageInv'
  BY NoneAssumption
    DEF IInv, PageInv, TypeOK, Page, Ask, OnWire, Vanishes, Gone, server,
      history
<1>5. UndeliveredInv'
  BY NoneAssumption
    DEF IInv, UndeliveredInv, TypeOK, ServerInv, AskInv, SpentInv, Ask,
      OnWire, Vanishes, Gone, server, history
<1>6. SpentInv'
  BY NoneAssumption
    DEF IInv, SpentInv, TypeOK, ServerInv, AskInv, UndeliveredInv, Ask,
      OnWire, Vanishes, Gone, server, history
<1>7. OverlapInv'
  BY NoneAssumption
    DEF IInv, OverlapInv, TypeOK, ServerInv, AskInv, PageInv, UndeliveredInv,
      SpentInv, Ask, OnWire, Vanishes, Gone, server, history
<1>8. LastWordInv'
  BY NoneAssumption
    DEF IInv, LastWordInv, TypeOK, AskInv, SpentInv, Ask, OnWire, Vanishes,
      Gone, server, history
<1>9. SignedOutInv'
  BY NoneAssumption
    DEF IInv, SignedOutInv, TypeOK, PageInv, Page, Ask, OnWire, Vanishes,
      Gone, server, history
<1>10. ReplayNeedsOverlap'
  BY NoneAssumption
    DEF IInv, ReplayNeedsOverlap, TypeOK, ServerInv, OverlapInv, Ask, OnWire,
      Vanishes, Gone, server, history
<1>q. QED  BY <1>1, <1>2, <1>3, <1>4, <1>5, <1>6, <1>7, <1>8, <1>9, <1>10 DEF IInv

-----------------------------------------------------------------------------
\* No request is on the wire and no family exists.
LEMMA InitInv == Init => IInv
<1> SUFFICES ASSUME Init PROVE IInv
  OBVIOUS
<1>1. /\ phase = [f \in Families |-> "unborn"]
      /\ current = [f \in Families |-> None]
      /\ spent = {} /\ cookie = None /\ out = {} /\ burned = {}
      /\ \A r \in Asks : ~OnWire(r)
      /\ \A j \in Jtis : issuedIn[j] = None
  BY DEF Init, Chains!Init, OnWire
<1>2. TypeOK
  <2>1. Loading \in Page  BY DEF Loading, Page
  <2>2. tab \in [Tabs -> Page]  BY <2>1 DEF Init
  <2>3. call \in [Tabs -> [Calls -> {"idle", "waiting", "retry"}]]
    BY DEF Init, Unused
  <2>4. reloads \in 0..MaxReloads  BY MaxReloadsAssumption DEF Init
  <2> QED  BY <1>1, <2>2, <2>3, <2>4 DEF Init, TypeOK
<1>3. ServerInv  BY <1>1 DEF ServerInv
<1>4. PageInv  BY <1>1 DEF PageInv, Init, Loading
<1>5. AskInv /\ UndeliveredInv /\ OverlapInv
  BY <1>1 DEF AskInv, UndeliveredInv, OverlapInv
<1>6. SpentInv /\ LastWordInv /\ SignedOutInv /\ ReplayNeedsOverlap
  BY <1>1 DEF SpentInv, LastWordInv, SignedOutInv, ReplayNeedsOverlap
<1> QED  BY <1>2, <1>3, <1>4, <1>5, <1>6 DEF IInv

\* Every step keeps it.
LEMMA NextInv == IInv /\ [Next]_vars => IInv'
<1> SUFFICES ASSUME IInv, [Next]_vars PROVE IInv'
  OBVIOUS
<1>1. CASE UNCHANGED vars
  BY <1>1
  DEF vars, server, history, IInv, TypeOK, ServerInv, AskInv, PageInv,
      UndeliveredInv, SpentInv, OverlapInv, LastWordInv, SignedOutInv,
      ReplayNeedsOverlap, OnWire
<1>2. ASSUME NEW t \in Tabs, NEW r \in Asks,
             Boot(t, r) \/ SignIn(t, r) \/ SignOut(t, r)
      PROVE  IInv'
  BY <1>2, BootKeeps, SignInKeeps, SignOutKeeps
<1>3. ASSUME NEW t \in Tabs, NEW c \in Calls,
             CallEnds(t, c) \/ \E r \in Asks : CallRefused(t, c, r)
      PROVE  IInv'
  BY <1>3, CallEndsKeeps, CallRefusedKeeps
<1>4. ASSUME NEW t \in Tabs, Reload(t) PROVE IInv'
  BY <1>4, ReloadKeeps
<1>5. ASSUME NEW r \in Asks, Serve(r) PROVE IInv'
  BY <1>5, ServeLoginKeeps, ServeRefreshKeeps, ServeReplayKeeps,
     ServeUnknownKeeps, ServeLogoutKeeps
  DEF Serve
<1>6. ASSUME NEW r \in Asks, Deliver(r) \/ FetchFails(r) PROVE IInv'
  BY <1>6, RefreshArrivesKeeps, BootRefusedKeeps, RefreshRefusedKeeps,
     SignedInKeeps, SignedOutKeeps, CookieArrivesKeeps, VanishesKeeps,
     FetchFailsKeeps
  DEF Deliver
<1>7. ASSUME NEW f \in Families, EndFamily(f) PROVE IInv'
  BY <1>7, EndFamilyKeeps
<1> QED  BY <1>1, <1>2, <1>3, <1>4, <1>5, <1>6, <1>7 DEF Next

\* So it always holds.
LEMMA Invariance == Spec => []IInv
  BY InitInv, NextInv, PTL DEF Spec

\* Every variable keeps its type.
THEOREM TypeCorrect == Spec => []TypeOK
<1>1. IInv => TypeOK  BY DEF IInv
<1> QED  BY <1>1, Invariance, PTL

\* The server sees a replay only when two pages sent one cookie, or when an
\* answer was lost after its rotation (the inFlight of refreshFlow.ts).
THEOREM ReplaysNeedOverlap == Spec => []ReplayNeedsOverlap
<1>1. IInv => ReplayNeedsOverlap  BY DEF IInv
<1> QED  BY <1>1, Invariance, PTL

\* The last sign-in or sign-out decides what the cookie is, unless it crossed
\* another request (the Set-Cookie headers of api/auth.py).
THEOREM LastWord == Spec => []LastWordHolds
<1>1. IInv => LastWordHolds  BY DEF IInv, LastWordInv, SpentInv, LastWordHolds
<1> QED  BY <1>1, Invariance, PTL

\* A tab that was left signed out and sends nothing has no token (handleLogout,
\* bootRefresh, recoverFrom401).
THEOREM SignedOutStays == Spec => []SignedOutStaysOut
<1>1. IInv => SignedOutStaysOut  BY DEF IInv, SignedOutInv, SignedOutStaysOut
<1> QED  BY <1>1, Invariance, PTL

=============================================================================
