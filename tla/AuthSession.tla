---------------------------- MODULE AuthSession -----------------------------
(***************************************************************************)
(* ApstraSession (src/primitives/auth_manager.py): the token of one Apstra *)
(* instance and the two background tasks that keep it, the refresh loop    *)
(* and the probe loop.  Both log in, nothing orders their logins, and the  *)
(* last one to resume decides _token, _token_expiry and token_valid.       *)
(*                                                                         *)
(* Time is discrete.  Everything the code measures is kept as what is left *)
(* of it (of a sleep, of a token's life), so the state space is finite     *)
(* however long the session runs.  Tick passes one unit, and only when no  *)
(* sleep is over and no request has used up its timeout: the event loop is *)
(* fast against the seconds counted here.                                  *)
(***************************************************************************)
EXTENDS Integers

CONSTANTS Ttl,           \* life of a token, as the server issues it
          Margin,        \* TOKEN_REFRESH_MARGIN_SECONDS
          ProbeEvery,    \* PROBE_INTERVAL_SECONDS
          RetryEvery,    \* AUTH_RETRY_INTERVAL_SECONDS
          LoginTimeout,  \* what a login may take
          ProbeTimeout   \* what a probe may take

\* A login takes seconds and the margin is five minutes; two logins fit into
\* it with time to spare.  Tokens live for hours.
ASSUME AuthAssumption ==
  /\ {Ttl, Margin, ProbeEvery, RetryEvery, LoginTimeout, ProbeTimeout} \subseteq Nat \ {0}
  /\ Margin > 2 * LoginTimeout
  /\ Ttl >= Margin + LoginTimeout + RetryEvery

Loops == {"refresh", "probe"}

\* Where a token may be: in _token, in the reply to a loop's login, or in
\* the header of the probe that is out.
Places == {"held", "refresh", "probe", "header"}

VARIABLES
  tokens,     \* tokens[p]: the token at place p, with the life it has left
  valid,      \* token_valid
  reachable,  \* host_reachable
  refresh,    \* _token_refresh_loop: where it is, and what is left of its sleep
  probe,      \* _probe_loop: where it is, and what is left of its sleep
  login,      \* login[a]: state and age of the login of loop a
  asked,      \* time since the refresh loop's last login, up to RetryEvery
  age,        \* age of the probe that is out
  hostUp,     \* environment: the instance answers
  calm        \* environment: from now on it answers promptly and revokes nothing

vars == <<tokens, valid, reachable, refresh, probe, login, asked, age, hostUp, calm>>

Token   == [good : BOOLEAN, left : 0..Ttl]
NoToken == [good |-> FALSE, left |-> 0]
Issued  == [good |-> TRUE, left |-> Ttl]

RefreshAt == {"start", "login", "sleep", "retry"}
ProbeAt   == {"off", "probe", "login", "reprobe", "sleep"}

Accepted(t) == t.good /\ t.left > 0
Sent == [at |-> "sent", age |-> 0]
None == [at |-> "none", age |-> 0]

\* Before authenticate() resumes: its login is out, the loops do not run yet.
Init ==
  /\ tokens = [p \in Places |-> NoToken]
  /\ valid = FALSE
  /\ reachable = FALSE
  /\ refresh = [at |-> "start", left |-> 0]
  /\ probe = [at |-> "off", left |-> 0]
  /\ login = [a \in Loops |-> IF a = "refresh" THEN Sent ELSE None]
  /\ asked = 0
  /\ age = 0
  /\ hostUp \in BOOLEAN
  /\ calm = FALSE
-----------------------------------------------------------------------------
(* _do_authenticate. *)

\* The server issues a token; the reply is on its way.
AnswerLogin(a) ==
  /\ login[a].at = "sent"
  /\ hostUp
  /\ login' = [login EXCEPT ![a].at = "told"]
  /\ tokens' = [tokens EXCEPT ![a] = Issued]
  /\ UNCHANGED <<valid, reachable, refresh, probe, asked, age, hostUp, calm>>

\* A refused connection, an HTTP error, a lost reply or a timeout.
LoginMayFail(a) == login[a].at # "none" /\ ~calm

Stored(a) == [tokens EXCEPT !["held"] = tokens[a], ![a] = NoToken]
Dropped(a) == [tokens EXCEPT ![a] = NoToken]

\* The probe that goes out carries the token held in `held`.
WithHeader(held) == [held EXCEPT !["header"] = held["held"]]
-----------------------------------------------------------------------------
(* _token_refresh_loop. *)

\* Mutation: the margin is forgotten.
TurnWithoutMargin(left) ==
  IF left > Margin
  THEN /\ refresh' = [at |-> "sleep", left |-> left]
       /\ login' = [login EXCEPT !["refresh"] = None]
       /\ UNCHANGED asked
  ELSE /\ refresh' = [at |-> "login", left |-> 0]
       /\ login' = [login EXCEPT !["refresh"] = Sent]
       /\ asked' = 0

\* One turn of the loop, with a token that has `left` to live: sleep until
\* Margin before it expires, or log in at once.
Turn(left) ==
  IF left > Margin
  THEN /\ refresh' = [at |-> "sleep", left |-> left - Margin]
       /\ login' = [login EXCEPT !["refresh"] = None]
       /\ UNCHANGED asked
  ELSE /\ refresh' = [at |-> "login", left |-> 0]
       /\ login' = [login EXCEPT !["refresh"] = Sent]
       /\ asked' = 0

\* start_background_refresh: the probe loop starts with a probe.
StartProbe(ts) ==
  /\ probe' = [at |-> "probe", left |-> 0]
  /\ tokens' = WithHeader(ts)
  /\ age' = 0

\* authenticate() at startup; a failure is logged by the lifespan, and the
\* loops start either way.
StartDone ==
  /\ refresh.at = "start"
  /\ \/ /\ login["refresh"].at = "told"
        /\ valid' = TRUE
        /\ StartProbe(Stored("refresh"))
        /\ Turn(tokens["refresh"].left)
     \/ /\ LoginMayFail("refresh")
        /\ valid' = FALSE
        /\ StartProbe(Dropped("refresh"))
        /\ Turn(0)
  /\ UNCHANGED <<reachable, hostUp, calm>>

RefreshSucceeds ==
  /\ refresh.at = "login"
  /\ login["refresh"].at = "told"
  /\ tokens' = Stored("refresh")
  /\ valid' = TRUE
  /\ Turn(tokens["refresh"].left)
  /\ UNCHANGED <<reachable, probe, age, hostUp, calm>>

\* Mutation: a failure is retried without a sleep.
RefreshFailsHot ==
  /\ refresh.at = "login"
  /\ LoginMayFail("refresh")
  /\ valid' = FALSE
  /\ tokens' = Dropped("refresh")
  /\ login' = [login EXCEPT !["refresh"] = Sent]
  /\ asked' = 0
  /\ UNCHANGED <<reachable, refresh, probe, age, hostUp, calm>>

\* Mutation: an exception ends the loop.
RefreshDies ==
  /\ refresh.at = "login"
  /\ LoginMayFail("refresh")
  /\ valid' = FALSE
  /\ tokens' = Dropped("refresh")
  /\ refresh' = [at |-> "dead", left |-> 0]
  /\ login' = [login EXCEPT !["refresh"] = None]
  /\ UNCHANGED <<reachable, probe, asked, age, hostUp, calm>>

\* The token is marked invalid whatever happened to it during the login.
RefreshFails ==
  /\ refresh.at = "login"
  /\ LoginMayFail("refresh")
  /\ valid' = FALSE
  /\ tokens' = Dropped("refresh")
  /\ refresh' = [at |-> "retry", left |-> RetryEvery]
  /\ login' = [login EXCEPT !["refresh"] = None]
  /\ UNCHANGED <<reachable, probe, asked, age, hostUp, calm>>

\* The sleep before the expiry ends in a login; the sleep after a failure in
\* a new turn, which looks at the expiry again.
RefreshWakes ==
  /\ refresh.left = 0
  /\ \/ refresh.at = "sleep" /\ Turn(0)
     \/ refresh.at = "retry" /\ Turn(tokens["held"].left)
  /\ UNCHANGED <<tokens, valid, reachable, probe, age, hostUp, calm>>
-----------------------------------------------------------------------------
(* _probe_loop. *)

ProbeSleeps == probe' = [at |-> "sleep", left |-> ProbeEvery]

ProbeOk ==
  /\ probe.at \in {"probe", "reprobe"}
  /\ hostUp
  /\ Accepted(tokens["header"])
  /\ reachable' = TRUE
  /\ ProbeSleeps
  /\ tokens' = [tokens EXCEPT !["header"] = NoToken]
  /\ age' = 0
  /\ UNCHANGED <<valid, refresh, login, asked, hostUp, calm>>

\* The first failure asks for a new token, the second one is final.
ProbeFails ==
  /\ probe.at \in {"probe", "reprobe"}
  /\ ~calm \/ ~Accepted(tokens["header"])
  /\ \/ /\ probe.at = "probe"
        /\ probe' = [at |-> "login", left |-> 0]
        /\ login' = [login EXCEPT !["probe"] = Sent]
        /\ UNCHANGED reachable
     \/ /\ probe.at = "reprobe"
        /\ ProbeSleeps
        /\ reachable' = FALSE
        /\ UNCHANGED login
  /\ tokens' = [tokens EXCEPT !["header"] = NoToken]
  /\ age' = 0
  /\ UNCHANGED <<valid, refresh, asked, hostUp, calm>>

ProbeLoginSucceeds ==
  /\ probe.at = "login"
  /\ login["probe"].at = "told"
  /\ tokens' = WithHeader(Stored("probe"))
  /\ valid' = TRUE
  /\ login' = [login EXCEPT !["probe"] = None]
  /\ probe' = [at |-> "reprobe", left |-> 0]
  /\ age' = 0
  /\ UNCHANGED <<reachable, refresh, asked, hostUp, calm>>

ProbeLoginFails ==
  /\ probe.at = "login"
  /\ LoginMayFail("probe")
  /\ tokens' = Dropped("probe")
  /\ login' = [login EXCEPT !["probe"] = None]
  /\ reachable' = FALSE
  /\ ProbeSleeps
  /\ UNCHANGED <<valid, refresh, asked, age, hostUp, calm>>

ProbeWakes ==
  /\ probe.at = "sleep"
  /\ probe.left = 0
  /\ StartProbe(tokens)
  /\ UNCHANGED <<valid, reachable, refresh, login, asked, hostUp, calm>>
-----------------------------------------------------------------------------
(* The environment. *)

HostChanges ==
  /\ ~calm
  /\ hostUp' = ~hostUp
  /\ UNCHANGED <<tokens, valid, reachable, refresh, probe, login, asked, age, calm>>

\* The server forgets every token it issued.
Revoke ==
  /\ ~calm
  /\ tokens' = [p \in Places |-> [tokens[p] EXCEPT !.good = FALSE]]
  /\ UNCHANGED <<valid, reachable, refresh, probe, login, asked, age, hostUp, calm>>

Settle ==
  /\ ~calm
  /\ calm' = TRUE
  /\ hostUp' = TRUE
  /\ UNCHANGED <<tokens, valid, reachable, refresh, probe, login, asked, age>>

Probing == probe.at \in {"probe", "reprobe"}

\* Mutation: the time to expiry is not cut off at zero.
LessWithoutFloor(n) == n - 1

Less(n) == IF n = 0 THEN 0 ELSE n - 1

TimeMayPass ==
  /\ refresh.at \in {"sleep", "retry"} => refresh.left > 0
  /\ probe.at = "sleep" => probe.left > 0
  /\ \A a \in Loops : login[a].at # "none" => login[a].age < LoginTimeout /\ ~calm
  /\ Probing => age < ProbeTimeout /\ ~calm

Tick ==
  /\ TimeMayPass
  /\ tokens' = [p \in Places |-> [tokens[p] EXCEPT !.left = Less(@)]]
  /\ refresh' = [refresh EXCEPT !.left = Less(@)]
  /\ probe' = [probe EXCEPT !.left = Less(@)]
  /\ login' = [a \in Loops |->
       [login[a] EXCEPT !.age = IF login[a].at = "none" THEN 0 ELSE @ + 1]]
  /\ asked' = IF asked < RetryEvery THEN asked + 1 ELSE asked
  /\ age' = IF Probing THEN age + 1 ELSE age
  /\ UNCHANGED <<valid, reachable, hostUp, calm>>
-----------------------------------------------------------------------------
Next ==
  \/ \E a \in Loops : AnswerLogin(a)
  \/ StartDone \/ RefreshSucceeds \/ RefreshFails \/ RefreshWakes
  \/ ProbeOk \/ ProbeFails \/ ProbeLoginSucceeds \/ ProbeLoginFails \/ ProbeWakes
  \/ HostChanges \/ Revoke \/ Settle
  \/ Tick

\* Time passes, sleeps end, and a request ends: the loops run "forever".
Fairness ==
  /\ \A a \in Loops : WF_vars(AnswerLogin(a))
  /\ WF_vars(StartDone)
  /\ WF_vars(RefreshSucceeds \/ RefreshFails)
  /\ WF_vars(RefreshWakes)
  /\ WF_vars(ProbeOk \/ ProbeFails)
  /\ WF_vars(ProbeLoginSucceeds \/ ProbeLoginFails)
  /\ WF_vars(ProbeWakes)
  /\ WF_vars(Tick)

Spec == Init /\ [][Next]_vars
FairSpec == Spec /\ Fairness
-----------------------------------------------------------------------------
TypeOK ==
  /\ tokens \in [Places -> Token]
  /\ valid \in BOOLEAN
  /\ reachable \in BOOLEAN
  /\ refresh \in [at : RefreshAt, left : 0..Ttl]
  /\ probe \in [at : ProbeAt, left : 0..ProbeEvery]
  /\ login \in [Loops -> [at : {"none", "sent", "told"}, age : 0..LoginTimeout]]
  /\ asked \in 0..RetryEvery
  /\ age \in 0..ProbeTimeout
  /\ hostUp \in BOOLEAN
  /\ calm \in BOOLEAN

\* get_token never hands out an expired token, although the two loops replace
\* it under each other, in any order, and the refresh loop may sleep towards
\* the expiry of a token that is not the one held any more.
ServedTokenUnexpired == valid => tokens["held"].left > 0

\* The refresh loop does not storm the login endpoint: once it runs, its
\* logins are RetryEvery apart, whether they succeed or fail.
RefreshLoginsPaced ==
  [][refresh.at # "start" /\ login'["refresh"] = Sent /\ login["refresh"].at # "sent"
       => asked >= RetryEvery]_vars

\* After the last outage and the last revocation the session recovers, keeps
\* a token the server accepts, and reports the host as reachable.
Healthy == valid /\ Accepted(tokens["held"]) /\ reachable
Recovers == <>calm => <>[]Healthy
=============================================================================
