-------------------------- MODULE TokenRefreshProofs --------------------------
(***************************************************************************)
(* For any number of requests and tokens: a parked request always has a    *)
(* refresher to settle it, and no request is sent again with the token it  *)
(* was refused with.  The latter rests on FreshTokens: a token in an       *)
(* answer under way is known to nobody else.                               *)
(***************************************************************************)
EXTENDS TokenRefresh, TLAPS

\* The record of an ended request is well typed.
LEMMA EndedIsTyped ==
    ASSUME NEW at \in States
    PROVE  Ended(at) \in [at : States, token : Token, retry : BOOLEAN,
                          refused : Token, key : Token]
BY DEF Ended, Idle, Token, States

\* A client is one of the two.
LEMMA ClientIsClient == \A r : Client(r) \in Clients
BY DEF Client, Clients

\* The numbers the service may issue.
LEMMA IssueInTokens ==
    ASSUME issued \in 0..MaxTokens, live \subseteq Tokens, NEW old, Issue(old)
    PROVE  /\ issued + 1 \in Tokens /\ issued' = issued + 1
           /\ issued' \in 0..MaxTokens /\ live' \subseteq Tokens
<1>1. MaxTokens \in Nat /\ issued \in Nat /\ issued < MaxTokens
  BY TokensAssumption DEF Issue
<1>2. issued + 1 \in 1..MaxTokens /\ issued + 1 \in 0..MaxTokens
  BY <1>1
<1>3. issued' = issued + 1 /\ live' = (live \ {old}) \cup {issued + 1}
  BY DEF Issue
<1> QED
  BY <1>2, <1>3 DEF Tokens

\* Every state has its type.
THEOREM TypeCorrect == Spec => []TypeOK
<1>1. Init => TypeOK
  <2> SUFFICES ASSUME Init PROVE TypeOK
    OBVIOUS
  <2>1. Idle \in [at : States, token : Token, retry : BOOLEAN, refused : Token,
                  key : Token]
    BY DEF Idle, States, Token
  <2>2. 0 \in 0..MaxTokens
    <3>1. MaxTokens \in Nat
      BY TokensAssumption
    <3> QED
      BY <3>1
  <2> QED
    BY <2>1, <2>2 DEF Init, TypeOK, Token
<1>2. TypeOK /\ [Next]_vars => TypeOK'
  <2> SUFFICES ASSUME TypeOK, [Next]_vars PROVE TypeOK'
    OBVIOUS
  <2> USE ClientIsClient
  <2>1. CASE Login
    BY <2>1, IssueInTokens
    DEF TypeOK, Login, pageVars, Token
  <2>2. CASE Logout
    BY <2>2 DEF TypeOK, Logout, pageVars, Token, Tokens
  <2>3. ASSUME NEW t \in Tokens, Expire(t) PROVE TypeOK'
    BY <2>3 DEF TypeOK, Expire, pageVars, storeVars
  <2>4. ASSUME NEW r \in Requests, Send(r) PROVE TypeOK'
    BY <2>4 DEF TypeOK, Send, pageVars, storeVars, serverVars, States
  <2>5. ASSUME NEW r \in Requests, Answer(r) PROVE TypeOK'
    <3>1. CASE Accepted(r)
      BY <3>1, EndedIsTyped
      DEF TypeOK, Accepted, storeVars, serverVars, States
    <3>2. CASE Broken(r)
      BY <3>2, EndedIsTyped
      DEF TypeOK, Broken, pageVars, storeVars, serverVars, States
    <3>3. CASE SetupRequired(r)
      <4>1. Ended(IF isDispatching THEN "settled" ELSE "hung")
               \in [at : States, token : Token, retry : BOOLEAN,
                    refused : Token, key : Token]
        BY EndedIsTyped DEF States
      <4> QED
        BY <3>3, <4>1 DEF TypeOK, SetupRequired, storeVars, serverVars
    <3>4. CASE Park(r)
      <4>1. failedQueue' \in [Clients -> SUBSET Requests]
        BY <3>4 DEF TypeOK, Park
      <4>2. request' \in [Requests -> [at : States, token : Token,
                              retry : BOOLEAN, refused : Token, key : Token]]
        <5> DEFINE R == [at : States, token : Token, retry : BOOLEAN,
                         refused : Token, key : Token]
                   q == request[r]
        <5>1. q \in R /\ "queued" \in States
          BY DEF TypeOK, States
        <5>2. request' = [request EXCEPT ![r] =
                            [q EXCEPT !.at = "queued", !.refused = q.token]]
          BY <3>4 DEF TypeOK, Park
        <5> HIDE DEF q
        <5>3. [q EXCEPT !.at = "queued", !.refused = q.token] \in R
          BY <5>1
        <5> QED
          BY <5>2, <5>3 DEF TypeOK
      <4> QED
        BY <3>4, <4>1, <4>2 DEF TypeOK, Park, storeVars, serverVars
    <3>5. CASE StartRefresh(r)
      BY <3>5 DEF TypeOK, StartRefresh, storeVars, serverVars, States
    <3>6. ASSUME NEW ends \in BOOLEAN, RefusedAgain(r, ends) PROVE TypeOK'
      BY <3>6, EndedIsTyped
      DEF TypeOK, RefusedAgain, After401, TerminateSession, KeepSession, storeVars,
          serverVars, States, Token
    <3> QED
      BY <2>5, <3>1, <3>2, <3>3, <3>4, <3>5, <3>6 DEF Answer
  <2>6. ASSUME NEW r \in Requests, Renew(r) PROVE TypeOK'
    <3>1. /\ issued + 1 \in Tokens /\ issued' \in 0..MaxTokens
          /\ live' \subseteq Tokens
      BY <2>6, IssueInTokens DEF TypeOK, Renew
    <3>2. request' \in [Requests -> [at : States, token : Token,
                            retry : BOOLEAN, refused : Token, key : Token]]
      <4> DEFINE R == [at : States, token : Token, retry : BOOLEAN,
                       refused : Token, key : Token]
                 T == issued + 1
      <4>1. T \in Token /\ "renewed" \in States
        BY <3>1 DEF States, Token
      <4>2. request' = [request EXCEPT ![r] =
                          [request[r] EXCEPT !.at = "renewed", !.key = T]]
        BY <2>6 DEF TypeOK, Renew
      <4> HIDE DEF T
      <4>3. [request[r] EXCEPT !.at = "renewed", !.key = T] \in R
        BY <4>1 DEF TypeOK
      <4> QED
        BY <4>2, <4>3 DEF TypeOK
    <3> QED
      BY <2>6, <3>1, <3>2 DEF TypeOK, Renew, pageVars, storeVars
  <2>7. ASSUME NEW r \in Requests, RefreshAnswer(r) PROVE TypeOK'
    <3>1. CASE RefreshSucceeds(r)
      <4>1. request' \in [Requests -> [at : States, token : Token,
                              retry : BOOLEAN, refused : Token, key : Token]]
        <5> DEFINE R == [at : States, token : Token, retry : BOOLEAN,
                         refused : Token, key : Token]
                   T == request[r].key
                   again(q) == [q EXCEPT !.at = "wire", !.token = T, !.key = None]
        <5>1. T \in Token /\ "wire" \in States /\ None \in Token
          BY DEF TypeOK, States, Token
        <5>2. ASSUME NEW q \in R PROVE again(q) \in R
          BY <5>1, <5>2
        <5>3. \A s \in Requests : request[s] \in R
          BY DEF TypeOK
        <5>4. request' = [s \in Requests |->
                            IF s \in failedQueue[Client(r)] \cup {r}
                            THEN again(request[s]) ELSE request[s]]
          BY <3>1 DEF RefreshSucceeds, Resend
        <5> HIDE DEF again, R
        <5>5. request' \in [Requests -> R]
          BY <5>2, <5>3, <5>4
        <5> QED
          BY <5>5 DEF R
      <4> QED
        BY <3>1, <4>1 DEF TypeOK, RefreshSucceeds, serverVars
    <3>2. ASSUME NEW ends \in BOOLEAN, RefreshFails(r, ends) PROVE TypeOK'
      BY <3>2, EndedIsTyped
      DEF TypeOK, RefreshFails, Reject, After401, TerminateSession, KeepSession,
          storeVars, serverVars, States, Token
    <3>3. CASE RefreshFailsAndRedirects(r)
      BY <3>3, EndedIsTyped
      DEF TypeOK, RefreshFailsAndRedirects, serverVars, States, Token
    <3>4. CASE RefreshSwallowed(r)
      BY <3>4 DEF TypeOK, RefreshSwallowed, storeVars, serverVars, States
    <3> QED
      BY <2>7, <3>1, <3>2, <3>3, <3>4 DEF RefreshAnswer
  <2>8. CASE UNCHANGED vars
    BY <2>8 DEF TypeOK, vars, pageVars, storeVars, serverVars
  <2> QED
    BY <2>1, <2>2, <2>3, <2>4, <2>5, <2>6, <2>7, <2>8 DEF Next
<1> QED
  BY <1>1, <1>2, PTL DEF Spec

-----------------------------------------------------------------------------
(* Parked requests.                                                        *)

\* What matters of a request to ParkedHaveRefresher is its role.
Role(r) == IF request[r].at \in {"refreshing", "renewed"} THEN "refresher"
           ELSE IF request[r].at \in {"queued", "swallowed"} THEN request[r].at
           ELSE "none"

\* The roles of a client's requests, as sets.
LEMMA RoleSets ==
    \A c, r :
       /\ r \in Of(c, "queued")
             <=> (r \in Requests /\ Client(r) = c /\ Role(r) = "queued")
       /\ r \in Refreshers(c)
             <=> (r \in Requests /\ Client(r) = c /\ Role(r) = "refresher")
       /\ r \in Of(c, "swallowed")
             <=> (r \in Requests /\ Client(r) = c /\ Role(r) = "swallowed")
BY DEF Of, Refreshers, Role

\* While no request changes its role and no queue, parked ones have a refresher.
LEMMA SameRoles ==
    ASSUME ParkedHaveRefresher, UNCHANGED <<isRefreshing, failedQueue>>,
           \A s \in Requests : Role(s)' = Role(s)
    PROVE  ParkedHaveRefresher'
<1>1. \A c, r :
         /\ r \in Of(c, "queued")'
               <=> (r \in Requests /\ Client(r) = c /\ Role(r)' = "queued")
         /\ r \in Refreshers(c)'
               <=> (r \in Requests /\ Client(r) = c /\ Role(r)' = "refresher")
         /\ r \in Of(c, "swallowed")'
               <=> (r \in Requests /\ Client(r) = c /\ Role(r)' = "swallowed")
  BY DEF Of, Refreshers, Role, Client
<1>2. ASSUME NEW c
      PROVE  /\ Of(c, "queued")' = Of(c, "queued")
             /\ Refreshers(c)' = Refreshers(c)
             /\ Of(c, "swallowed")' = Of(c, "swallowed")
  <2>1. Of(c, "queued")' = Of(c, "queued")
    BY <1>1, RoleSets
  <2>2. Refreshers(c)' = Refreshers(c)
    BY <1>1, RoleSets
  <2>3. Of(c, "swallowed")' = Of(c, "swallowed")
    BY <1>1, RoleSets
  <2> QED
    BY <2>1, <2>2, <2>3
<1> QED
  BY <1>2 DEF ParkedHaveRefresher

\* The steps that change the role of a request.
LEMMA ParkKeepsParked ==
    ASSUME TypeOK, ParkedHaveRefresher, NEW r \in Requests, Park(r)
    PROVE  ParkedHaveRefresher'
<1>1. ASSUME NEW c
      PROVE  /\ Of(c, "queued")' =
                   Of(c, "queued") \cup (IF c = Client(r) THEN {r} ELSE {})
             /\ Refreshers(c)' = Refreshers(c)
             /\ Of(c, "swallowed")' = Of(c, "swallowed")
  BY DEF Park, TypeOK, Of, Refreshers, Client
<1>2. /\ isRefreshing' = isRefreshing /\ isRefreshing[Client(r)]
      /\ failedQueue' = [failedQueue EXCEPT ![Client(r)] = @ \cup {r}]
  BY DEF Park
<1>3. ASSUME NEW c \in Clients
      PROVE  failedQueue'[c] =
                failedQueue[c] \cup (IF c = Client(r) THEN {r} ELSE {})
  BY <1>2 DEF TypeOK
<1>4. ASSUME NEW c \in Clients
      PROVE  /\ failedQueue'[c] = Of(c, "queued")'
             /\ failedQueue'[c] # {} => isRefreshing'[c]
  BY <1>1, <1>2, <1>3 DEF ParkedHaveRefresher
<1> QED
  BY <1>1, <1>2, <1>4 DEF ParkedHaveRefresher

\* A refresh that starts leaves the parked requests parked.
LEMMA StartRefreshKeepsParked ==
    ASSUME TypeOK, ParkedHaveRefresher, NEW r \in Requests, StartRefresh(r)
    PROVE  ParkedHaveRefresher'
<1>1. ASSUME NEW c
      PROVE  /\ Of(c, "queued")' = Of(c, "queued")
             /\ Refreshers(c)' =
                   Refreshers(c) \cup (IF c = Client(r) THEN {r} ELSE {})
             /\ Of(c, "swallowed")' = Of(c, "swallowed")
  BY DEF StartRefresh, TypeOK, Of, Refreshers, Client
<1>2. /\ failedQueue' = failedQueue /\ ~isRefreshing[Client(r)]
      /\ isRefreshing' = [isRefreshing EXCEPT ![Client(r)] = TRUE]
  BY DEF StartRefresh
<1>3. Refreshers(Client(r)) = {}
  BY <1>2, ClientIsClient DEF ParkedHaveRefresher
<1> QED
  BY <1>1, <1>2, <1>3, ClientIsClient DEF ParkedHaveRefresher, TypeOK

\* A refresh that ends empties the queue of its client and leaves nobody there.
LEMMA EndKeepsParked ==
    ASSUME TypeOK, ParkedHaveRefresher, NEW r \in Requests,
           r \in Refreshers(Client(r)),
           failedQueue' = [failedQueue EXCEPT ![Client(r)] = {}],
           isRefreshing' = [isRefreshing EXCEPT ![Client(r)] = FALSE],
           \A s \in Requests :
              IF s \in failedQueue[Client(r)] \cup {r}
              THEN request'[s].at \in {"wire", "settled"}
              ELSE request'[s] = request[s]
    PROVE  ParkedHaveRefresher'
<1> DEFINE k == Client(r)
<1>1. k \in Clients
  BY ClientIsClient
<1>2. \A s \in Requests : s \in failedQueue[k] => Client(s) = k
  BY <1>1 DEF ParkedHaveRefresher, Of
<1>3. /\ Of(k, "queued")' = {} /\ Refreshers(k)' = {}
  <2>1. ASSUME NEW s \in Requests, Client(s) = k
        PROVE  request'[s].at \notin {"queued", "refreshing", "renewed"}
    <3>1. CASE s \in failedQueue[k] \cup {r}
      BY <3>1
    <3>2. CASE s \notin failedQueue[k] \cup {r}
      <4>1. request'[s] = request[s]
        BY <3>2
      <4>2. s \notin Of(k, "queued") /\ s \notin Refreshers(k)
        BY <3>2, <1>1 DEF ParkedHaveRefresher
      <4> QED
        BY <4>1, <4>2, <2>1 DEF Of, Refreshers
    <3> QED
      BY <3>1, <3>2
  <2> QED
    BY <2>1 DEF Of, Refreshers, Client
<1>4. ASSUME NEW c, c # k
      PROVE  /\ Of(c, "queued")' = Of(c, "queued")
             /\ Refreshers(c)' = Refreshers(c)
             /\ Of(c, "swallowed")' = Of(c, "swallowed")
  <2>1. \A s \in Requests : Client(s) = c => request'[s] = request[s]
    BY <1>2, <1>4
  <2> QED
    BY <2>1 DEF Of, Refreshers, Client
<1>5. failedQueue'[k] = {} /\ isRefreshing'[k] = FALSE
  BY <1>1 DEF TypeOK
<1>6. ASSUME NEW c \in Clients, c # k
      PROVE  failedQueue'[c] = failedQueue[c] /\ isRefreshing'[c] = isRefreshing[c]
  BY <1>1, <1>6 DEF TypeOK
<1> HIDE DEF k
<1> DEFINE Ok(c) == /\ failedQueue'[c] = Of(c, "queued")'
                    /\ failedQueue'[c] # {} => isRefreshing'[c]
                    /\ \A q, s \in Refreshers(c)' : q = s
                    /\ Refreshers(c)' # {} => isRefreshing'[c]
                    /\ isRefreshing'[c] =>
                          Refreshers(c)' \cup Of(c, "swallowed")' # {}
<1>7. Ok(k)
  BY <1>3, <1>5
<1>8. ASSUME NEW c \in Clients, c # k PROVE Ok(c)
  <2>1. /\ failedQueue[c] = Of(c, "queued")
        /\ failedQueue[c] # {} => isRefreshing[c]
        /\ \A q, s \in Refreshers(c) : q = s
        /\ Refreshers(c) # {} => isRefreshing[c]
        /\ isRefreshing[c] => Refreshers(c) \cup Of(c, "swallowed") # {}
    BY DEF ParkedHaveRefresher
  <2>2. /\ Of(c, "queued")' = Of(c, "queued")
        /\ Refreshers(c)' = Refreshers(c)
        /\ Of(c, "swallowed")' = Of(c, "swallowed")
    BY <1>4, <1>8
  <2>3. failedQueue'[c] = failedQueue[c] /\ isRefreshing'[c] = isRefreshing[c]
    BY <1>6, <1>8
  <2> QED
    BY <2>1, <2>2, <2>3
<1>9. \A c \in Clients : Ok(c)
  BY <1>7, <1>8
<1> QED
  BY <1>9 DEF ParkedHaveRefresher

\* Somebody settles a parked request (ParkedHaveRefresher).
THEOREM ParkedCorrect == Spec => []ParkedHaveRefresher
<1>1. Init => ParkedHaveRefresher
  BY ClientIsClient DEF Init, Idle, ParkedHaveRefresher, Of, Refreshers
<1>2. TypeOK /\ TypeOK' /\ ParkedHaveRefresher /\ [Next]_vars => ParkedHaveRefresher'
  <2> SUFFICES ASSUME TypeOK, TypeOK', ParkedHaveRefresher, [Next]_vars
               PROVE  ParkedHaveRefresher'
    OBVIOUS
  <2>1. CASE Login \/ Logout \/ (\E t \in Tokens : Expire(t)) \/ UNCHANGED vars
    <3>1. request' = request /\ UNCHANGED <<isRefreshing, failedQueue>>
      BY <2>1 DEF Login, Logout, Expire, vars, pageVars
    <3>2. \A s \in Requests : Role(s)' = Role(s)
      BY <3>1 DEF Role
    <3> QED
      BY <3>1, <3>2, SameRoles
  <2>2. ASSUME NEW r \in Requests,
               \/ Send(r) \/ Accepted(r) \/ Broken(r) \/ SetupRequired(r) \/ Renew(r)
               \/ \E ends \in BOOLEAN : RefusedAgain(r, ends)
        PROVE  ParkedHaveRefresher'
    <3>1. UNCHANGED <<isRefreshing, failedQueue>>
      BY <2>2 DEF Send, Accepted, Broken, SetupRequired, Renew, RefusedAgain, pageVars
    <3>2. /\ \A s \in Requests \ {r} : request'[s] = request[s]
          /\ \/ /\ request[r].at \in {"idle", "wire"}
                /\ request'[r].at \in {"wire", "settled", "hung"}
             \/ request[r].at = "refreshing" /\ request'[r].at = "renewed"
      BY <2>2
      DEF TypeOK, Send, Accepted, Broken, SetupRequired, Renew, RefusedAgain, Ended,
          Idle
    <3>3. \A s \in Requests : Role(s)' = Role(s)
      BY <3>2 DEF Role
    <3> QED
      BY <3>1, <3>3, SameRoles
  <2>3. ASSUME NEW r \in Requests, Park(r) \/ StartRefresh(r)
        PROVE  ParkedHaveRefresher'
    BY <2>3, ParkKeepsParked, StartRefreshKeepsParked
  <2>4. ASSUME NEW r \in Requests,
               RefreshSucceeds(r) \/ \E ends \in BOOLEAN : RefreshFails(r, ends)
        PROVE  ParkedHaveRefresher'
    <3>1. /\ failedQueue' = [failedQueue EXCEPT ![Client(r)] = {}]
          /\ isRefreshing' = [isRefreshing EXCEPT ![Client(r)] = FALSE]
          /\ r \in Refreshers(Client(r))
      BY <2>4 DEF RefreshSucceeds, RefreshFails, Refreshers, Of
    <3>2. \A s \in Requests :
             IF s \in failedQueue[Client(r)] \cup {r}
             THEN request'[s].at \in {"wire", "settled"}
             ELSE request'[s] = request[s]
      <4>1. CASE RefreshSucceeds(r)
        BY <4>1 DEF RefreshSucceeds, Resend, TypeOK
      <4>2. ASSUME NEW ends \in BOOLEAN, RefreshFails(r, ends)
            PROVE  \A s \in Requests :
                      IF s \in failedQueue[Client(r)] \cup {r}
                      THEN request'[s].at \in {"wire", "settled"}
                      ELSE request'[s] = request[s]
        BY <4>2 DEF RefreshFails, Reject, Ended, Idle
      <4> QED
        BY <2>4, <4>1, <4>2
    <3> QED
      BY <3>1, <3>2, EndKeepsParked
  <2>5. ASSUME NEW r \in Requests, RefreshFailsAndRedirects(r)
        PROVE  ParkedHaveRefresher'
    <3>1. \A s \in Requests : request'[s].at \in {"idle", "settled"}
      BY <2>5 DEF RefreshFailsAndRedirects, Ended, Idle
    <3>2. \A c : Of(c, "queued")' = {} /\ Refreshers(c)' = {}
      BY <3>1 DEF Of, Refreshers
    <3>3. \A c \in Clients : failedQueue'[c] = {} /\ isRefreshing'[c] = FALSE
      BY <2>5 DEF RefreshFailsAndRedirects
    <3> QED
      BY <3>2, <3>3 DEF ParkedHaveRefresher
  <2>6. ASSUME NEW r \in Requests, RefreshSwallowed(r)
        PROVE  ParkedHaveRefresher'
    <3>1. UNCHANGED <<isRefreshing, failedQueue>>
      BY <2>6 DEF RefreshSwallowed
    <3>2. ASSUME NEW c
          PROVE  /\ Of(c, "queued")' = Of(c, "queued")
                 /\ Refreshers(c)' \subseteq Refreshers(c)
                 /\ Refreshers(c) \cup Of(c, "swallowed") # {} =>
                       Refreshers(c)' \cup Of(c, "swallowed")' # {}
      <4>1. request'[r].at = "swallowed" /\ request[r].at = "refreshing"
        BY <2>6 DEF RefreshSwallowed, TypeOK
      <4>2. \A s \in Requests \ {r} : request'[s] = request[s]
        BY <2>6 DEF RefreshSwallowed, TypeOK
      <4> QED
        BY <4>1, <4>2 DEF Of, Refreshers, Client
    <3> QED
      BY <3>1, <3>2 DEF ParkedHaveRefresher
  <2> QED
    BY <2>1, <2>2, <2>3, <2>4, <2>5, <2>6 DEF Next, Answer, RefreshAnswer
<1> QED
  BY <1>1, <1>2, TypeCorrect, PTL DEF Spec

-----------------------------------------------------------------------------
(* Refused tokens.                                                         *)

\* The record q puts no token into r that was not in r or in the store.
Harmless(r, q) ==
    /\ {q.token, q.refused} \subseteq Known(r) \cup {None, accessToken}
    /\ q.key \in {None, cookie, request[r].key}
    /\ q.at \notin {"idle", "renewed"}

\* A step that hands out no token keeps FreshTokens.
LEMMA HarmlessKeepsFresh ==
    ASSUME FreshTokens,
           \A r \in Requests :
              request'[r] = request[r] \/ Harmless(r, request'[r]),
           issued' = issued, cookie' \in {cookie, None},
           live' \subseteq live, accessToken' \in {accessToken, None}
    PROVE  FreshTokens'
<1>1. \A s : Known(s)' = {request'[s].token, request'[s].refused}
  BY DEF Known
<1>2. \A s \in Requests : Known(s)' \subseteq Known(s) \cup {None, accessToken}
  BY <1>1 DEF Known, Harmless
<1>3. \A s \in Requests :
         Known(s)' \cup {request'[s].key} \subseteq 1..issued \cup {None}
  BY <1>2 DEF FreshTokens, Harmless
<1>4. ASSUME NEW s \in Requests, request'[s].at = "renewed"
      PROVE  /\ request'[s].key \notin {None, accessToken'}
             /\ \A x \in Requests : request'[s].key \notin Known(x)'
             /\ \A x \in Requests \ {s} :
                   request'[x].at = "renewed" => request'[x].key # request'[s].key
  <2>1. request'[s] = request[s]
    BY <1>4 DEF Harmless
  <2>2. /\ request[s].at = "renewed"
        /\ request[s].key \notin {None, accessToken}
        /\ \A x \in Requests : request[s].key \notin Known(x)
    BY <1>4, <2>1 DEF FreshTokens
  <2>3. \A x \in Requests : request[s].key \notin Known(x)'
    BY <1>2, <2>2
  <2>4. ASSUME NEW x \in Requests \ {s}, request'[x].at = "renewed"
        PROVE  request'[x].key # request'[s].key
    BY <1>4, <2>1, <2>4 DEF FreshTokens, Harmless
  <2> QED
    BY <2>1, <2>2, <2>3, <2>4
<1>5. \A s \in Requests : request'[s].at = "idle" => request'[s] = Idle'
  BY DEF FreshTokens, Harmless, Idle
<1> QED
  BY <1>3, <1>4, <1>5 DEF FreshTokens

\* A token in an answer under way is fresh.
LEMMA FreshStep ==
    ASSUME TypeOK, TypeOK', FreshTokens, [Next]_vars
    PROVE  FreshTokens'
<1>1. CASE Login
  <2>1. /\ request' = request /\ issued' = issued + 1 /\ accessToken' = issued + 1
        /\ cookie' = issued + 1 /\ live' = (live \ {None}) \cup {issued + 1}
    BY <1>1 DEF Login, Issue
  <2>2. issued \in Nat /\ 1..issued \subseteq 1..(issued + 1)
        /\ issued + 1 \in 1..(issued + 1) /\ issued + 1 \notin 1..issued \cup {None}
    BY TokensAssumption DEF TypeOK
  <2>3. \A s \in Requests : Known(s)' = Known(s)
    BY <2>1 DEF Known
  <2>4. \A s \in Requests :
           Known(s)' \cup {request'[s].key} \subseteq 1..(issued + 1) \cup {None}
    BY <2>1, <2>2, <2>3 DEF FreshTokens
  <2>5. ASSUME NEW s \in Requests, request'[s].at = "renewed"
        PROVE  /\ request'[s].key \notin {None, accessToken'}
               /\ \A x \in Requests : request'[s].key \notin Known(x)'
               /\ \A x \in Requests \ {s} :
                     request'[x].at = "renewed" => request'[x].key # request'[s].key
    BY <2>1, <2>2, <2>3, <2>5 DEF FreshTokens
  <2>6. \A s \in Requests : request'[s].at = "idle" => request'[s] = Idle'
    BY <2>1 DEF FreshTokens, Idle
  <2>7. /\ accessToken' \in 1..issued' \cup {None} /\ cookie' \in 1..issued' \cup {None}
        /\ live' \subseteq 1..issued'
    BY <2>1, <2>2 DEF FreshTokens
  <2> QED
    BY <2>1, <2>4, <2>5, <2>6, <2>7 DEF FreshTokens
<1>2. CASE Logout \/ (\E t \in Tokens : Expire(t)) \/ UNCHANGED vars
  BY <1>2, HarmlessKeepsFresh
  DEF Logout, Expire, vars, pageVars, storeVars, serverVars
<1>3. ASSUME NEW r \in Requests, Send(r) PROVE FreshTokens'
  <2>1. Harmless(r, request'[r])
    BY <1>3 DEF Send, TypeOK, Harmless, Known
  <2>2. \A s \in Requests \ {r} : request'[s] = request[s]
    BY <1>3 DEF Send, TypeOK
  <2> QED
    BY <1>3, <2>1, <2>2, HarmlessKeepsFresh DEF Send, storeVars, serverVars
<1>4. ASSUME NEW r \in Requests, Answer(r) PROVE FreshTokens'
  <2>1. \A s \in Requests \ {r} : request'[s] = request[s]
    BY <1>4
    DEF Answer, Accepted, Broken, SetupRequired, Park, StartRefresh, RefusedAgain,
        TypeOK
  <2>2. Harmless(r, request'[r])
    BY <1>4
    DEF Answer, Accepted, Broken, SetupRequired, Park, StartRefresh, RefusedAgain,
        TypeOK, Ended, Idle, Harmless, Known
  <2>3. /\ issued' = issued /\ live' = live /\ cookie' = cookie
        /\ accessToken' \in {accessToken, None}
    BY <1>4
    DEF Answer, Accepted, Broken, SetupRequired, Park, StartRefresh, RefusedAgain,
        After401, TerminateSession, KeepSession, storeVars, serverVars
  <2> QED
    BY <2>1, <2>2, <2>3, HarmlessKeepsFresh
<1>5. ASSUME NEW r \in Requests, Renew(r) PROVE FreshTokens'
  <2>1. /\ \A s \in Requests \ {r} : request'[s] = request[s]
        /\ request'[r].at = "renewed" /\ request'[r].key = issued + 1
        /\ request'[r].token = request[r].token
        /\ request'[r].refused = request[r].refused
    BY <1>5 DEF Renew, TypeOK
  <2>2. /\ issued' = issued + 1 /\ accessToken' = accessToken /\ cookie' = cookie
        /\ live' \subseteq live \cup {issued + 1}
    BY <1>5 DEF Renew, Issue, storeVars
  <2>3. issued \in Nat /\ 1..issued \subseteq 1..(issued + 1)
        /\ issued + 1 \in 1..(issued + 1) /\ issued + 1 \notin 1..issued \cup {None}
    BY TokensAssumption DEF TypeOK
  <2>4. \A s \in Requests : Known(s)' = Known(s)
    BY <2>1 DEF Known
  <2>5. \A s \in Requests :
           Known(s)' \cup {request'[s].key} \subseteq 1..(issued + 1) \cup {None}
    BY <2>1, <2>3, <2>4 DEF FreshTokens
  <2>6. ASSUME NEW s \in Requests, request'[s].at = "renewed"
        PROVE  /\ request'[s].key \notin {None, accessToken'}
               /\ \A x \in Requests : request'[s].key \notin Known(x)'
               /\ \A x \in Requests \ {s} :
                     request'[x].at = "renewed" => request'[x].key # request'[s].key
    BY <2>1, <2>2, <2>3, <2>4, <2>6 DEF FreshTokens
  <2>7. \A s \in Requests : request'[s].at = "idle" => request'[s] = Idle'
    BY <2>1 DEF FreshTokens, Idle
  <2>8. /\ accessToken' \in 1..issued' \cup {None} /\ cookie' \in 1..issued' \cup {None}
        /\ live' \subseteq 1..issued'
    BY <2>2, <2>3 DEF FreshTokens
  <2> QED
    BY <2>2, <2>5, <2>6, <2>7, <2>8 DEF FreshTokens
<1>6. ASSUME NEW r \in Requests, RefreshSucceeds(r) PROVE FreshTokens'
  <2> DEFINE t == request[r].key
             G == failedQueue[Client(r)] \cup {r}
  <2>1. /\ accessToken' = t /\ cookie' = t /\ issued' = issued /\ live' = live
        /\ request[r].at = "renewed"
    BY <1>6 DEF RefreshSucceeds, serverVars
  <2>2. \A s \in Requests :
           /\ s \in G => /\ request'[s].at = "wire" /\ request'[s].token = t
                        /\ request'[s].refused = request[s].refused
                        /\ request'[s].key = None
           /\ s \notin G => request'[s] = request[s]
    BY <1>6 DEF RefreshSucceeds, Resend, TypeOK
  <2>3. /\ t \in 1..issued /\ \A s \in Requests : t \notin Known(s)
        /\ \A s \in Requests \ {r} : request[s].at = "renewed" => request[s].key # t
    BY <2>1 DEF FreshTokens
  <2> HIDE DEF t, G
  <2>4. r \in G
    BY DEF G
  <2>5. \A s \in Requests : Known(s)' \subseteq Known(s) \cup {t}
    BY <2>2 DEF Known
  <2>6. \A s \in Requests :
           Known(s)' \cup {request'[s].key} \subseteq 1..issued \cup {None}
    BY <2>2, <2>3, <2>5 DEF FreshTokens
  <2>7. ASSUME NEW s \in Requests, request'[s].at = "renewed"
        PROVE  /\ request'[s].key \notin {None, accessToken'}
               /\ \A x \in Requests : request'[s].key \notin Known(x)'
               /\ \A x \in Requests \ {s} :
                     request'[x].at = "renewed" => request'[x].key # request'[s].key
    <3>1. s \notin G /\ s # r /\ request'[s] = request[s]
      BY <2>2, <2>4, <2>7
    <3>2. request[s].key # t /\ request[s].key # None
      BY <2>3, <2>7, <3>1 DEF FreshTokens
    <3>3. \A x \in Requests : request'[s].key \notin Known(x)'
      BY <2>5, <2>7, <3>1, <3>2 DEF FreshTokens
    <3>4. ASSUME NEW x \in Requests \ {s}, request'[x].at = "renewed"
          PROVE  request'[x].key # request'[s].key
      <4>1. request'[x] = request[x]
        BY <2>2, <3>4
      <4> QED
        BY <2>7, <3>1, <3>4, <4>1 DEF FreshTokens
    <3> QED
      BY <2>1, <3>1, <3>2, <3>3, <3>4
  <2>8. \A s \in Requests : request'[s].at = "idle" => request'[s] = Idle'
    BY <2>2 DEF FreshTokens, Idle
  <2> QED
    BY <2>1, <2>3, <2>6, <2>7, <2>8 DEF FreshTokens
<1>7. ASSUME NEW r \in Requests,
             \/ \E ends \in BOOLEAN : RefreshFails(r, ends)
             \/ RefreshFailsAndRedirects(r) \/ RefreshSwallowed(r)
      PROVE  FreshTokens'
  <2>1. \A s \in Requests : request'[s] = request[s] \/ Harmless(s, request'[s])
    BY <1>7
    DEF RefreshFails, RefreshFailsAndRedirects, RefreshSwallowed, Reject, Harmless,
        Ended, Idle, TypeOK, Known
  <2>2. /\ issued' = issued /\ live' = live /\ cookie' = cookie
        /\ accessToken' \in {accessToken, None}
    BY <1>7
    DEF RefreshFails, RefreshFailsAndRedirects, RefreshSwallowed, After401,
        TerminateSession, KeepSession, storeVars, serverVars
  <2> QED
    BY <2>1, <2>2, HarmlessKeepsFresh
<1> QED
  BY <1>1, <1>2, <1>3, <1>4, <1>5, <1>6, <1>7 DEF Next, RefreshAnswer

\* No request is sent again with the token it was refused with
\* (RefusedTokenNotReused).
THEOREM RefusedTokenCorrect == Spec => []RefusedTokenNotReused
<1> DEFINE IInv == FreshTokens /\ RefusedTokenNotReused
<1>1. Init => IInv
  BY DEF Init, FreshTokens, Known, Idle, RefusedTokenNotReused
<1>2. TypeOK /\ TypeOK' /\ IInv /\ [Next]_vars => IInv'
  <2> SUFFICES ASSUME TypeOK, TypeOK', FreshTokens, RefusedTokenNotReused, [Next]_vars
               PROVE  FreshTokens' /\ RefusedTokenNotReused'
    OBVIOUS
  <2>1. FreshTokens'
    BY FreshStep
  <2>2. ASSUME NEW s \in Requests, request'[s].at = "wire", request'[s].refused # None,
               request'[s] # request[s]
        PROVE  request'[s].token # request'[s].refused
    <3>1. ASSUME NEW r \in Requests, RefreshSucceeds(r)
          PROVE  request'[s].token # request'[s].refused
      <4>1. /\ request'[s].token = request[r].key
            /\ request'[s].refused = request[s].refused
        BY <2>2, <3>1 DEF RefreshSucceeds, Resend, TypeOK
      <4>2. request[r].key \notin Known(s)
        BY <3>1 DEF RefreshSucceeds, FreshTokens
      <4> QED
        BY <4>1, <4>2 DEF Known
    <3>2. ASSUME NEW r \in Requests, Send(r)
          PROVE  request'[s].refused = None
      BY <2>2, <3>2 DEF Send, FreshTokens, TypeOK, Idle
    <3>3. ASSUME NEW r \in Requests, Answer(r) \/ Renew(r) \/ RefreshSwallowed(r)
          PROVE  request'[s].at # "wire"
      BY <2>2, <3>3
      DEF Answer, Accepted, Broken, SetupRequired, Park, StartRefresh, RefusedAgain,
          Renew, RefreshSwallowed, TypeOK, Ended, Idle
    <3>4. ASSUME NEW r \in Requests,
                 \/ \E ends \in BOOLEAN : RefreshFails(r, ends)
                 \/ RefreshFailsAndRedirects(r)
          PROVE  request'[s].at # "wire"
      BY <2>2, <3>4
      DEF RefreshFails, RefreshFailsAndRedirects, Reject, TypeOK, Ended, Idle
    <3>5. CASE Login \/ Logout \/ (\E t \in Tokens : Expire(t)) \/ UNCHANGED vars
      BY <2>2, <3>5 DEF Login, Logout, Expire, vars
    <3> QED
      BY <2>2, <3>1, <3>2, <3>3, <3>4, <3>5 DEF Next, RefreshAnswer
  <2> QED
    BY <2>1, <2>2 DEF RefusedTokenNotReused
<1> QED
  BY <1>1, <1>2, TypeCorrect, PTL DEF Spec
===============================================================================
