------------------------------- MODULE Refresh -------------------------------
(***************************************************************************)
(* The silent renewal of a session by the tabs of one browser: requests    *)
(* that are answered 401 share one renewal per tab, the tabs take turns by *)
(* a lock of the browser, and the server consumes each refresh token once. *)
(*                                                                         *)
(* A request to the server and its answer travel separately, and the tab   *)
(* that sent it may close, or see its connection fail, in between.  What   *)
(* one tab does after an await is one action.  The channel between tabs is *)
(* instantaneous here; its delay is Browser.tla's.                         *)
(***************************************************************************)
EXTENDS Integers, Sequences, FiniteSets

CONSTANTS
    Tab,            \* the tabs
    Request,        \* requests that a tab makes at one time
    None,           \* null
    WebLocks,       \* navigator.locks is there
    MaxTokens,      \* bound: refresh tokens of the session
    MaxPosts        \* bound: renewals on the network

ASSUME ConstantsAssumption ==
    /\ None \notin Tab \cup Nat
    /\ WebLocks \in BOOLEAN
    /\ MaxTokens \in Nat \ {0} /\ MaxPosts \in Nat \ {0}

VARIABLES
    jar,        \* the cookies: [access, refresh], access: not run out
    family,     \* the session: [revoked, used], used: when each token was
    request,    \* [step, current] of each request of each tab
    flight,     \* the tab's renewal
    holder,     \* who has the lock legacylock:/auth/refresh
    net,        \* renewals on the network, [by, token, answer]; those of the same token
                \* that nobody waits for any more are one
    trouble,    \* a connection failed, a tab closed, a lock took 15 seconds
    broken      \* nobody was left to take the answer to a renewal

vars == <<jar, family, request, flight, holder, net, trouble, broken>>

\* Nothing is asked for, or it was answered.
Idle == [step |-> "ok", current |-> TRUE]
Underway == {"sent", "waiting", "retried"}

Init ==
    /\ jar = [access |-> TRUE, refresh |-> 1]
    /\ family = [revoked |-> FALSE, used |-> <<"no">>]
    /\ request = [t \in Tab |-> [r \in Request |-> Idle]]
    /\ flight = [t \in Tab |-> "none"]
    /\ holder = None
    /\ net = {}
    /\ trouble = FALSE
    /\ broken = FALSE

-----------------------------------------------------------------------------
(* The server: get_current_user and rotate                                 *)

Authorized == jar.access /\ ~family.revoked

Rotatable(n) == family.used[n] = "no"

\* The answer to a renewal, if it is not the new token: 409 or 401.
Refused == 0

\* A renewal is served: a new token, 409 within ten seconds of the token's
\* use, or the end of the family.
Serve ==
    \E post \in net :
        /\ post.answer = None
        /\ LET n == post.token
               answered(a) == net' = (net \ {post}) \cup {[post EXCEPT !.answer = a]}
           IN  \/ /\ ~family.revoked /\ Rotatable(n)
                  /\ Len(family.used) < MaxTokens
                  /\ family' = [family EXCEPT
                        !.used = Append([@ EXCEPT ![n] = "just"], "no")]
                  /\ answered(Len(family.used) + 1)
               \/ /\ ~family.revoked /\ ~Rotatable(n) /\ family.used[n] = "just"
                  /\ answered(Refused)
                  /\ UNCHANGED family
               \/ /\ ~family.revoked /\ ~Rotatable(n) /\ family.used[n] = "long"
                  /\ family' = [family EXCEPT !.revoked = TRUE]
                  /\ answered(Refused)
               \/ /\ family.revoked
                  /\ answered(Refused)
                  /\ UNCHANGED family
    /\ UNCHANGED <<jar, request, flight, holder, trouble, broken>>

\* Ten seconds pass.
Age ==
    /\ \E n \in DOMAIN family.used : family.used[n] = "just"
    /\ family' = [family EXCEPT !.used =
                    [n \in DOMAIN @ |-> IF @[n] = "just" THEN "long" ELSE @[n]]]
    /\ UNCHANGED <<jar, request, flight, holder, net, trouble, broken>>

\* The access cookie runs out.  It lives for fifteen minutes, so it does not
\* while a renewal or what follows it is under way.
ExpireAccess ==
    /\ jar.access
    /\ Len(family.used) < MaxTokens
    /\ \A t \in Tab : flight[t] = "none"
    /\ \A t \in Tab, r \in Request : request[t][r].step # "retried"
    /\ jar' = [jar EXCEPT !.access = FALSE]
    /\ UNCHANGED <<family, request, flight, holder, net, trouble, broken>>

-----------------------------------------------------------------------------
(* fetchWithRefresh                                                        *)

Step(t, r, step) == request' = [request EXCEPT ![t][r].step = step]

Send(t, r) ==
    /\ request[t][r].step \notin Underway
    /\ request' = [request EXCEPT ![t][r] = [step |-> "sent", current |-> TRUE]]
    /\ UNCHANGED <<jar, family, flight, holder, net, trouble, broken>>

\* The first answer.  Refused, the request waits for the tab's renewal, the one
\* that is under way if there is one.
FirstAnswer(t, r) ==
    /\ request[t][r].step = "sent"
    /\ \/ /\ ~request[t][r].current
          /\ Step(t, r, "failed")
          /\ UNCHANGED flight
       \/ /\ request[t][r].current /\ Authorized
          /\ Step(t, r, "ok")
          /\ UNCHANGED flight
       \/ /\ request[t][r].current /\ ~Authorized
          /\ Step(t, r, "waiting")
          /\ flight' = [flight EXCEPT ![t] = IF @ = "none" THEN "queued" ELSE @]
    /\ UNCHANGED <<jar, family, holder, net, trouble, broken>>

\* Mutant: the tabs do not take turns.
GrantableAnyway == TRUE

Grantable == WebLocks => holder = None

Grant(t) ==
    /\ flight[t] = "queued" /\ Grantable
    /\ flight' = [flight EXCEPT ![t] = "probe"]
    /\ holder' = IF WebLocks THEN t ELSE None
    /\ UNCHANGED <<jar, family, request, net, trouble, broken>>

Free(t) == IF holder = t THEN None ELSE holder

\* Mutant: a request that another tab interrupted is left waiting.
WokenCurrent(t) == {r \in Request : request[t][r].step = "waiting" /\ request[t][r].current}

Woken(t) == {r \in Request : request[t][r].step = "waiting"}

\* The renewal worked: the requests that wait for it are sent once more.
Renewed(t) ==
    /\ request' = [request EXCEPT ![t] = [r \in Request |->
            IF r \notin Woken(t) THEN @[r]
            ELSE [@[r] EXCEPT !.step = IF request[t][r].current THEN "retried" ELSE "failed"]]]
    /\ flight' = [flight EXCEPT ![t] = "none"]
    /\ holder' = Free(t)

\* It did not: they fail, and the session has changed for all tabs.
NotRenewed(t) ==
    /\ request' = [u \in Tab |-> [r \in Request |->
            [step |-> IF u = t /\ r \in Woken(t) THEN "failed" ELSE request[u][r].step,
             current |-> request[u][r].step \notin Underway]]]
    /\ flight' = [flight EXCEPT ![t] = "none"]
    /\ holder' = Free(t)

\* AbortSignal.timeout: only who waits for the lock gives up.
LockTimeout(t) ==
    /\ flight[t] = "queued" /\ holder # None
    /\ NotRenewed(t)
    /\ trouble' = TRUE
    /\ UNCHANGED <<jar, family, net, broken>>

\* With the lock, another tab may have been first.
Probe(t) ==
    /\ flight[t] = "probe"
    /\ \/ Authorized /\ Renewed(t) /\ UNCHANGED net
       \/ /\ ~Authorized
          /\ Cardinality(net) < MaxPosts
          /\ flight' = [flight EXCEPT ![t] = "post"]
          /\ net' = net \cup {[by |-> t, token |-> jar.refresh, answer |-> None]}
          /\ UNCHANGED <<request, holder>>
    /\ UNCHANGED <<jar, family, trouble, broken>>

Receive(t) ==
    \E post \in net :
        /\ flight[t] = "post" /\ post.by = t /\ post.answer # None
        /\ net' = net \ {post}
        /\ IF post.answer \in DOMAIN family.used
           THEN jar' = [access |-> TRUE, refresh |-> post.answer] /\ Renewed(t)
           ELSE UNCHANGED jar /\ NotRenewed(t)
        /\ UNCHANGED <<family, trouble, broken>>

\* The connection fails: the renewal does not reach the server (or is refused
\* by the rate limit), or goes on there without the tab.
LoseConnection(t) ==
    \E post \in net :
        /\ flight[t] = "post" /\ post.by = t
        /\ \/ post.answer = None /\ net' = net \ {post} /\ UNCHANGED broken
           \/ /\ net' = (net \ {post}) \cup
                    (IF post.answer = None THEN {[post EXCEPT !.by = None]} ELSE {})
              /\ broken' = TRUE
        /\ NotRenewed(t)
        /\ trouble' = TRUE
        /\ UNCHANGED <<jar, family>>

\* The tab closes, and the lock with it.
Close(t) ==
    /\ \E r \in Request : request[t][r].step \in Underway
    /\ request' = [request EXCEPT ![t] = [r \in Request |-> Idle]]
    /\ flight' = [flight EXCEPT ![t] = "none"]
    /\ holder' = Free(t)
    /\ net' = {post \in net : post.by # t} \cup
              {[post EXCEPT !.by = None] : post \in {p \in net : p.by = t /\ p.answer = None}}
    /\ trouble' = TRUE
    /\ broken' = (broken \/ \E post \in net : post.by = t)
    /\ UNCHANGED <<jar, family>>

\* The answer to a tab that is gone.
Discard ==
    /\ \E post \in net : post.by = None /\ post.answer # None /\ net' = net \ {post}
    /\ UNCHANGED <<jar, family, request, flight, holder, trouble, broken>>

\* The second answer is the last, whatever it is.
SecondAnswer(t, r) ==
    /\ request[t][r].step = "retried"
    /\ Step(t, r, IF request[t][r].current /\ Authorized THEN "ok" ELSE "failed")
    /\ UNCHANGED <<jar, family, flight, holder, net, trouble, broken>>

-----------------------------------------------------------------------------

Next ==
    \/ Serve
    \/ Age
    \/ ExpireAccess
    \/ Discard
    \/ \E t \in Tab :
        \/ \E r \in Request : Send(t, r) \/ FirstAnswer(t, r) \/ SecondAnswer(t, r)
        \/ Grant(t)
        \/ LockTimeout(t)
        \/ Probe(t)
        \/ Receive(t)
        \/ LoseConnection(t)
        \/ Close(t)

Spec == Init /\ [][Next]_vars

-----------------------------------------------------------------------------
(* Properties                                                              *)

Family == [revoked : BOOLEAN, used : Seq({"no", "just", "long"})]
RequestRow == [step : {"sent", "waiting", "retried", "ok", "failed"}, current : BOOLEAN]
Post(tokens) == [by : Tab \cup {None}, token : tokens, answer : {None, Refused} \cup tokens]

\* Every variable has a value that the code gives it, the lock is held by whose
\* renewal is under way, and a request waits only while its tab has a renewal.
TypeOK ==
    /\ family \in Family
    /\ jar \in [access : BOOLEAN, refresh : DOMAIN family.used]
    /\ request \in [Tab -> [Request -> RequestRow]]
    /\ flight \in [Tab -> {"none", "queued", "probe", "post"}]
    /\ holder \in Tab \cup {None}
    /\ net \subseteq Post(DOMAIN family.used)
    /\ IsFiniteSet(net) /\ Cardinality(net) <= MaxPosts
    /\ trouble \in BOOLEAN /\ broken \in BOOLEAN
    /\ \A t \in Tab :
        /\ WebLocks => (holder = t <=> flight[t] \in {"probe", "post"})
        /\ (\E r \in Request : request[t][r].step = "waiting") <=> flight[t] # "none"

\* The tabs of one browser do not get their own session revoked as stolen, in
\* whatever order they find that it needs renewal, unless the answer to a
\* renewal found nobody (transport.ts:96-111, services/sessions.py:103-108).
HealthySessionSurvives == family.revoked => broken

\* No request fails, and no tab is locked, for the renewals of the others: each
\* is answered at the latest on its second attempt as long as no connection
\* fails, no tab closes and no lock takes fifteen seconds.
RequestsSucceed ==
    ~trouble => \A t \in Tab, r \in Request :
        request[t][r].step # "failed" /\ request[t][r].current
=============================================================================
