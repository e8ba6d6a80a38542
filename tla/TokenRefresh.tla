----------------------------- MODULE TokenRefresh -----------------------------
(***************************************************************************)
(* How the frontend's two axios clients share one expiring access token.   *)
(*                                                                         *)
(* api.ts (the CRM) and apiAuth.ts (the auth service) each have an         *)
(* isRefreshing flag and a failedQueue of their own; the token is in       *)
(* authStore.ts.  The first request of a client to be refused with 401     *)
(* posts /auth/refresh; the ones refused meanwhile are parked and sent     *)
(* again with the new token, or rejected with the refresh's error.         *)
(* setupInterceptor.ts sits behind both clients: the first 503             *)
(* SETUP_REQUIRED of a series gets a promise that never settles.           *)
(*                                                                         *)
(* JavaScript runs one handler at a time, and the continuations of the     *)
(* promises a handler settles run before the next network event: what      *)
(* happens between two network events is one action.  An answer is decided *)
(* when it arrives: a token that is dead stays dead, so the client cannot  *)
(* tell a late answer from one decided late.                               *)
(***************************************************************************)
EXTENDS Naturals

CONSTANTS
    Requests,      \* requests of one page
    AuthRequests,  \* those sent through apiAuth.ts; the others go through api.ts
    MaxTokens,     \* bound: access tokens the auth service issues
    None           \* no access token

ASSUME TokensAssumption ==
    MaxTokens \in Nat /\ None \notin Nat /\ AuthRequests \subseteq Requests

Clients == {"api", "auth"}
Client(r) == IF r \in AuthRequests THEN "auth" ELSE "api"

VARIABLES
    request,          \* each request: where it is and its token
    isRefreshing,     \* the flag of each client
    failedQueue,      \* the parked requests of each client
    accessToken,      \* authStore: the token of the page, kept in localStorage
    isLoggedIn,       \* authStore
    isTerminating,    \* api.ts isTerminatingSession
    isDispatching,    \* setupInterceptor.ts: a setup event was fired
    cookie,           \* the refresh cookie: the token it was issued with
    live,             \* auth service: tokens neither expired nor revoked
    issued            \* auth service: how many tokens were issued

pageVars   == <<isRefreshing, failedQueue, isTerminating, isDispatching>>
storeVars  == <<accessToken, isLoggedIn>>
serverVars == <<live, issued>>
vars == <<request, pageVars, storeVars, cookie, serverVars>>

-----------------------------------------------------------------------------
(* A request is "idle", on its "wire", "queued" in failedQueue, or is the   *)
(* one whose handler awaits /auth/refresh: "refreshing" until the auth      *)
(* service has answered, "renewed" while the answer is under way,           *)
(* "swallowed" when it never will be.  It ends "settled", fulfilled or      *)
(* rejected, or "hung" on the promise of setupInterceptor that never        *)
(* settles.  retry is the _retry of its config; refused is the token of     *)
(* its last 401; key is the cookie its refresh sends, then the token it got.*)

Tokens == 1..MaxTokens
Token  == Tokens \cup {None}
States == {"idle", "wire", "queued", "refreshing", "renewed", "swallowed",
           "settled", "hung"}

Idle == [at |-> "idle", token |-> None, retry |-> FALSE, refused |-> None,
         key |-> None]
Ended(at) == [Idle EXCEPT !.at = at]

Of(c, at) == {r \in Requests : Client(r) = c /\ request[r].at = at}
Refreshers(c) == Of(c, "refreshing") \cup Of(c, "renewed")

\* What the auth service keeps of a token it replaces: it is revoked.
Issue(old) ==
    /\ issued < MaxTokens
    /\ issued' = issued + 1
    /\ live' = (live \ {old}) \cup {issued + 1}

Init ==
    /\ request = [r \in Requests |-> Idle]
    /\ isRefreshing = [c \in Clients |-> FALSE]
    /\ failedQueue = [c \in Clients |-> {}]
    /\ accessToken = None /\ isLoggedIn = FALSE
    /\ isTerminating = FALSE /\ isDispatching = FALSE
    /\ cookie = None /\ live = {} /\ issued = 0

-----------------------------------------------------------------------------
(* The user and the auth service.                                          *)

\* login and processApiResponse: the token is stored, the page is not loaded
\* again, so the variables of the two clients keep their values.
Login ==
    /\ ~isLoggedIn
    /\ Issue(None)
    /\ accessToken' = issued + 1 /\ cookie' = issued + 1 /\ isLoggedIn' = TRUE
    /\ UNCHANGED <<request, pageVars>>

\* The logout of AuthContext; the service revokes every token of the user.
Logout ==
    /\ isLoggedIn
    /\ accessToken' = None /\ isLoggedIn' = FALSE /\ cookie' = None /\ live' = {}
    /\ UNCHANGED <<request, pageVars, issued>>

Expire(t) ==
    /\ t \in live
    /\ live' = live \ {t}
    /\ UNCHANGED <<request, pageVars, storeVars, cookie, issued>>

\* The request interceptors put the token of the store in the header.  Without
\* one the page only uses the public routes, whose 401 is simply rejected.
Send(r) ==
    /\ request[r].at = "idle" /\ accessToken # None
    /\ request' = [request EXCEPT ![r].at = "wire", ![r].token = accessToken]
    /\ UNCHANGED <<pageVars, storeVars, cookie, serverVars>>

-----------------------------------------------------------------------------
(* An answer to an ordinary request.                                       *)

Accepted(r) ==
    /\ request[r].at = "wire" /\ request[r].token \in live
    /\ request' = [request EXCEPT ![r] = Ended("settled")]
    /\ isDispatching' = FALSE
    /\ UNCHANGED <<isRefreshing, failedQueue, isTerminating, storeVars, cookie,
                   serverVars>>

\* A network error, a timeout, any other status.
Broken(r) ==
    /\ request[r].at = "wire"
    /\ request' = [request EXCEPT ![r] = Ended("settled")]
    /\ UNCHANGED <<pageVars, storeVars, cookie, serverVars>>

\* 503 SETUP_REQUIRED outside the login pages: the first one never settles.
SetupRequired(r) ==
    /\ request[r].at = "wire"
    /\ request' = [request EXCEPT ![r] =
                      Ended(IF isDispatching THEN "settled" ELSE "hung")]
    /\ isDispatching' = TRUE
    /\ UNCHANGED <<isRefreshing, failedQueue, isTerminating, storeVars, cookie,
                   serverVars>>

\* 401 without _retry while a refresh of the same client is under way.
Park(r) ==
    LET q == request[r] IN
    /\ q.at = "wire" /\ q.token \notin live /\ ~q.retry /\ isRefreshing[Client(r)]
    /\ request' = [request EXCEPT ![r].at = "queued", ![r].refused = q.token]
    /\ failedQueue' = [failedQueue EXCEPT ![Client(r)] = @ \cup {r}]
    /\ UNCHANGED <<isRefreshing, isTerminating, isDispatching, storeVars, cookie,
                   serverVars>>

\* The first 401 of a client: its handler posts /auth/refresh and waits.
StartRefresh(r) ==
    LET q == request[r] IN
    /\ q.at = "wire" /\ q.token \notin live /\ ~q.retry /\ ~isRefreshing[Client(r)]
    /\ request' = [request EXCEPT ![r].at = "refreshing", ![r].retry = TRUE,
                      ![r].refused = q.token, ![r].key = cookie]
    /\ isRefreshing' = [isRefreshing EXCEPT ![Client(r)] = TRUE]
    /\ UNCHANGED <<failedQueue, isTerminating, isDispatching, storeVars, cookie,
                   serverVars>>

\* A 401 that ends the session: terminateSession of api.ts works once per page.
TerminateSession ==
    /\ isTerminating' = TRUE
    /\ IF isTerminating THEN UNCHANGED storeVars
                        ELSE accessToken' = None /\ isLoggedIn' = FALSE

KeepSession == UNCHANGED <<storeVars, isTerminating>>

\* A code outside AUTH_INVALIDATION_ERROR_CODES, the unread_count endpoint and
\* apiAuth, which only rejects, keep the session.
After401(c, ends) ==
    IF c = "api" /\ ends THEN TerminateSession ELSE KeepSession

\* 401 for a request that has had its refresh: it is rejected.
RefusedAgain(r, ends) ==
    LET q == request[r] IN
    /\ q.at = "wire" /\ q.token \notin live /\ q.retry
    /\ request' = [request EXCEPT ![r] = Ended("settled")]
    /\ After401(Client(r), ends)
    /\ UNCHANGED <<isRefreshing, failedQueue, isDispatching, cookie, serverVars>>

-----------------------------------------------------------------------------
(* The refresh.                                                            *)

\* The service looks the cookie up, does not ask whether that token is
\* revoked, revokes it and issues another.
Renew(r) ==
    /\ request[r].at = "refreshing" /\ request[r].key # None
    /\ Issue(request[r].key)
    /\ request' = [request EXCEPT ![r].at = "renewed", ![r].key = issued + 1]
    /\ UNCHANGED <<pageVars, storeVars, cookie>>

\* processQueue: the parked requests of c and the refresher go out again.
Resend(c, r, token) ==
    request' = [s \in Requests |->
                   IF s \in failedQueue[c] \cup {r}
                   THEN [request[s] EXCEPT !.at = "wire", !.token = token, !.key = None]
                   ELSE request[s]]

\* Mutants of RefreshSucceeds: the parked requests go out before the token is
\* stored, they are forgotten.
RefreshResendsFirst(r) ==
    /\ request[r].at = "renewed"
    /\ accessToken' = request[r].key /\ cookie' = request[r].key
    /\ Resend(Client(r), r, accessToken)
    /\ failedQueue' = [failedQueue EXCEPT ![Client(r)] = {}]
    /\ isRefreshing' = [isRefreshing EXCEPT ![Client(r)] = FALSE]
    /\ isDispatching' = FALSE
    /\ UNCHANGED <<isLoggedIn, isTerminating, serverVars>>

RefreshForgetsQueue(r) ==
    /\ request[r].at = "renewed"
    /\ accessToken' = request[r].key /\ cookie' = request[r].key
    /\ request' = [request EXCEPT ![r].at = "wire", ![r].token = request[r].key]
    /\ isRefreshing' = [isRefreshing EXCEPT ![Client(r)] = FALSE]
    /\ isDispatching' = FALSE
    /\ UNCHANGED <<isLoggedIn, isTerminating, failedQueue, serverVars>>

RefreshSucceeds(r) ==
    LET c == Client(r)
        t == request[r].key
    IN  /\ request[r].at = "renewed"
        /\ accessToken' = t /\ cookie' = t
        /\ Resend(c, r, t)
        /\ failedQueue' = [failedQueue EXCEPT ![c] = {}]
        /\ isRefreshing' = [isRefreshing EXCEPT ![c] = FALSE]
        /\ isDispatching' = FALSE
        /\ UNCHANGED <<isLoggedIn, isTerminating, serverVars>>

\* processQueue with an error: everyone is rejected.
Reject(c, r) ==
    request' = [s \in Requests |->
                   IF s \in failedQueue[c] \cup {r}
                   THEN Ended("settled") ELSE request[s]]

\* Mutant of RefreshFails: the parked requests are not rejected.
RefreshFailsAlone(r, ends) ==
    /\ r \in Refreshers(Client(r))
    /\ request' = [request EXCEPT ![r] = Ended("settled")]
    /\ isRefreshing' = [isRefreshing EXCEPT ![Client(r)] = FALSE]
    /\ IF Client(r) = "auth"
       THEN accessToken' = None /\ isLoggedIn' = FALSE /\ UNCHANGED isTerminating
       ELSE After401(Client(r), ends)
    /\ UNCHANGED <<failedQueue, isDispatching, cookie, serverVars>>

\* The refresh is refused or its answer lost; api.ts falls through to the 401
\* of the original request, apiAuth.ts clears the user.
RefreshFails(r, ends) ==
    LET c == Client(r) IN
    /\ r \in Refreshers(c)
    /\ Reject(c, r)
    /\ failedQueue' = [failedQueue EXCEPT ![c] = {}]
    /\ isRefreshing' = [isRefreshing EXCEPT ![c] = FALSE]
    /\ IF c = "auth"
       THEN accessToken' = None /\ isLoggedIn' = FALSE /\ UNCHANGED isTerminating
       ELSE After401(c, ends)
    /\ UNCHANGED <<isDispatching, cookie, serverVars>>

\* Outside the login and onboarding pages apiAuth.ts then loads /auth, and the
\* page starts anew.
RefreshFailsAndRedirects(r) ==
    /\ r \in Refreshers("auth")
    /\ request' = [s \in Requests |->
                      IF request[s].at = "idle" THEN request[s] ELSE Ended("settled")]
    /\ isRefreshing' = [c \in Clients |-> FALSE]
    /\ failedQueue' = [c \in Clients |-> {}]
    /\ accessToken' = None /\ isLoggedIn' = FALSE
    /\ isTerminating' = FALSE /\ isDispatching' = FALSE
    /\ UNCHANGED <<cookie, serverVars>>

\* The refresh itself, posted through apiAuth, meets the setup interceptor: the
\* handler waits for ever and isRefreshing stays set.
RefreshSwallowed(r) ==
    /\ request[r].at = "refreshing" /\ ~isDispatching
    /\ request' = [request EXCEPT ![r].at = "swallowed"]
    /\ isDispatching' = TRUE
    /\ UNCHANGED <<isRefreshing, failedQueue, isTerminating, storeVars, cookie,
                   serverVars>>

-----------------------------------------------------------------------------
Answer(r) ==
    \/ Accepted(r) \/ Broken(r) \/ SetupRequired(r)
    \/ Park(r) \/ StartRefresh(r)
    \/ \E ends \in BOOLEAN : RefusedAgain(r, ends)

RefreshAnswer(r) ==
    \/ RefreshSucceeds(r)
    \/ \E ends \in BOOLEAN : RefreshFails(r, ends)
    \/ RefreshFailsAndRedirects(r) \/ RefreshSwallowed(r)

Next ==
    \/ Login \/ Logout
    \/ \E t \in Tokens : Expire(t)
    \/ \E r \in Requests :
          Send(r) \/ Answer(r) \/ Renew(r) \/ RefreshAnswer(r)

Spec == Init /\ [][Next]_vars

\* A browser request ends: it is answered, or its connection fails.
FairSpec ==
    Spec /\ \A r \in Requests : WF_vars(Answer(r)) /\ WF_vars(RefreshAnswer(r))

-----------------------------------------------------------------------------
(* Properties.                                                             *)

\* Values of the variables.
TypeOK ==
    /\ request \in [Requests -> [at : States, token : Token, retry : BOOLEAN,
                                 refused : Token, key : Token]]
    /\ isRefreshing \in [Clients -> BOOLEAN]
    /\ failedQueue \in [Clients -> SUBSET Requests]
    /\ accessToken \in Token /\ cookie \in Token
    /\ isLoggedIn \in BOOLEAN /\ isTerminating \in BOOLEAN
    /\ isDispatching \in BOOLEAN
    /\ live \subseteq Tokens /\ issued \in 0..MaxTokens

\* A parked request has somebody to settle it: the queue of a client holds
\* exactly its parked requests, and while it holds one the client has exactly
\* one refresher, unless the setup interceptor has swallowed the refresh.
ParkedHaveRefresher ==
    \A c \in Clients :
        /\ failedQueue[c] = Of(c, "queued")
        /\ failedQueue[c] # {} => isRefreshing[c]
        /\ \A r, s \in Refreshers(c) : r = s
        /\ Refreshers(c) # {} => isRefreshing[c]
        /\ isRefreshing[c] => Refreshers(c) \cup Of(c, "swallowed") # {}

\* A request is never sent again with the token that was just refused.
RefusedTokenNotReused ==
    \A r \in Requests :
        request[r].at = "wire" /\ request[r].refused # None
            => request[r].token # request[r].refused

\* Why: a token in an answer under way is known to nobody else, and every token
\* in use was issued.
Known(r) == {request[r].token, request[r].refused}

FreshTokens ==
    /\ \A r \in Requests :
          /\ Known(r) \cup {request[r].key} \subseteq 1..issued \cup {None}
          /\ request[r].at = "idle" => request[r] = Idle
          /\ request[r].at = "renewed" =>
                /\ request[r].key \notin {None, accessToken}
                /\ \A s \in Requests : request[r].key \notin Known(s)
                /\ \A s \in Requests \ {r} :
                      request[s].at = "renewed" => request[s].key # request[r].key
    /\ accessToken \in 1..issued \cup {None} /\ cookie \in 1..issued \cup {None}
    /\ live \subseteq 1..issued

\* A parked request is sent again or rejected, unless a swallowed refresh
\* keeps its client waiting.
ParkedSettle ==
    \A r \in Requests :
        request[r].at = "queued" ~>
            \/ request[r].at # "queued"
            \/ Of(Client(r), "swallowed") # {}

\* api.ts on a 401 that carries an auth-invalidation code and that no refresh
\* cures: the session whose token it refused is over, the store is cleared.
InvalidationEndsSession ==
    [][\A r \in Requests :
          /\ Client(r) = "api" /\ accessToken # None
          /\ \/ request[r].token = accessToken /\ RefusedAgain(r, TRUE)
             \/ request[r].refused = accessToken /\ RefreshFails(r, TRUE)
          => accessToken' = None]_vars
===============================================================================
