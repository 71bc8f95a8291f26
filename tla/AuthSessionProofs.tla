------------------------- MODULE AuthSessionProofs --------------------------
(***************************************************************************)
(* Theorems about AuthSession for every choice of its times that satisfies *)
(* AuthAssumption: types, that an expired token is never handed out, and   *)
(* that the refresh loop paces its logins.                                 *)
(*                                                                         *)
(* The argument for the second: a reply in flight is at most LoginTimeout  *)
(* old, so any token that is stored has at least Ttl - LoginTimeout left.  *)
(* The refresh loop's sleep was computed from a token at most LoginTimeout *)
(* younger than the one held, so it wakes with Margin - LoginTimeout left, *)
(* and its login ends, one way or the other, before that is used up.       *)
(***************************************************************************)
EXTENDS AuthSession, TLAPS

\* A login is out exactly while its loop waits for it.
LoopsInv ==
  /\ login["refresh"].at # "none" <=> refresh.at \in {"start", "login"}
  /\ login["probe"].at # "none" <=> probe.at = "login"
  /\ refresh.at = "start" => probe.at = "off" /\ ~valid

\* The token in a reply is as old as the request at most.
ReplyInv ==
  \A a \in Loops : login[a].at = "told" => tokens[a].left + login[a].age >= Ttl

\* The sleep of the refresh loop leaves room for Margin in a token's life.
SleepInv == refresh.at = "sleep" => refresh.left + Margin <= Ttl

\* The sleep after a failed login is one retry interval.
RetryInv == refresh.at = "retry" => refresh.left <= RetryEvery

\* What the held token has left, by the place of the refresh loop.
HeldInv ==
  valid =>
    /\ refresh.at = "sleep" =>
         tokens["held"].left >= refresh.left + Margin - LoginTimeout
    /\ refresh.at = "login" =>
         tokens["held"].left + login["refresh"].age >= Margin - LoginTimeout
    /\ refresh.at = "retry" =>
         tokens["held"].left >= Ttl - LoginTimeout - (RetryEvery - refresh.left)

IInv == TypeOK /\ LoopsInv /\ ReplyInv /\ SleepInv /\ RetryInv /\ HeldInv
-----------------------------------------------------------------------------
LEMMA Times ==
  /\ Ttl \in Nat /\ Margin \in Nat /\ ProbeEvery \in Nat
  /\ RetryEvery \in Nat /\ LoginTimeout \in Nat /\ ProbeTimeout \in Nat
  /\ RetryEvery > 0 /\ LoginTimeout > 0
  /\ Margin > 2 * LoginTimeout
  /\ Ttl >= Margin + LoginTimeout + RetryEvery
  BY AuthAssumption

LEMMA IInvInit == Init => IInv
<1> USE Times DEF Init, Token, NoToken, Sent, None, Places, Loops, RefreshAt, ProbeAt
<1>1. Init => TypeOK
  <2> SUFFICES ASSUME Init PROVE TypeOK
    OBVIOUS
  <2>1. NoToken \in Token /\ tokens \in [Places -> Token]
    OBVIOUS
  <2>2. Sent \in [at : {"none", "sent", "told"}, age : 0..LoginTimeout]
        /\ None \in [at : {"none", "sent", "told"}, age : 0..LoginTimeout]
    OBVIOUS
  <2>3. login \in [Loops -> [at : {"none", "sent", "told"}, age : 0..LoginTimeout]]
    BY <2>2 DEF Init
  <2>4. refresh \in [at : RefreshAt, left : 0..Ttl] /\ probe \in [at : ProbeAt, left : 0..ProbeEvery]
    OBVIOUS
  <2>5. valid \in BOOLEAN /\ reachable \in BOOLEAN /\ hostUp \in BOOLEAN /\ calm \in BOOLEAN
    BY Zenon DEF Init
  <2>6. asked \in 0..RetryEvery /\ age \in 0..ProbeTimeout
    BY Times, SMT DEF Init
  <2> HIDE DEF Init, Token, NoToken, Sent, None, Places, Loops, RefreshAt, ProbeAt
  <2> QED
    BY <2>1, <2>3, <2>4, <2>5, <2>6 DEF TypeOK
<1>2. Init => LoopsInv /\ ReplyInv /\ SleepInv /\ RetryInv /\ HeldInv
  BY DEF LoopsInv, ReplyInv, SleepInv, RetryInv, HeldInv
<1> QED
  BY <1>1, <1>2 DEF IInv

\* The places and the loops one by one: what the types say of each token.
LEMMA TokenTypes ==
  ASSUME TypeOK
  PROVE  /\ \A p \in Places : tokens[p].left \in 0..Ttl /\ tokens[p].good \in BOOLEAN
         /\ \A a \in Loops : login[a].age \in 0..LoginTimeout
         /\ refresh.left \in 0..Ttl
         /\ probe.left \in 0..ProbeEvery
         /\ refresh.at \in RefreshAt
         /\ probe.at \in ProbeAt
  BY DEF TypeOK, Token

\* Where the tokens are after a reply is stored or dropped and a probe sent.
LEMMA TokenMoves ==
  ASSUME TypeOK, NEW a \in Loops
  PROVE  /\ NoToken \in Token
         /\ tokens \in [Places -> Token]
         /\ Stored(a) \in [Places -> Token]
         /\ Dropped(a) \in [Places -> Token]
         /\ Stored(a)["held"] = tokens[a]
         /\ Dropped(a)["held"] = tokens["held"]
         /\ \A b \in Loops \ {a} : Stored(a)[b] = tokens[b] /\ Dropped(a)[b] = tokens[b]
<1>1. NoToken \in Token /\ tokens \in [Places -> Token]
  BY Times DEF TypeOK, Token, NoToken
<1>2. a \in Places /\ "held" \in Places /\ a # "held" /\ Loops \subseteq Places
  BY DEF Places, Loops
<1>h. "held" \notin Loops
  BY DEF Loops
<1>3. tokens[a] \in Token
  BY <1>1, <1>2
<1>4. [tokens EXCEPT !["held"] = tokens[a]] \in [Places -> Token]
  BY <1>1, <1>2, <1>3
<1>5. Stored(a) \in [Places -> Token]
  BY <1>1, <1>2, <1>4 DEF Stored
<1>6. Dropped(a) \in [Places -> Token]
  BY <1>1, <1>2 DEF Dropped
<1>7. Stored(a)["held"] = tokens[a] /\ Dropped(a)["held"] = tokens["held"]
  BY <1>1, <1>2 DEF Stored, Dropped
<1>8. \A b \in Loops \ {a} : Stored(a)[b] = tokens[b] /\ Dropped(a)[b] = tokens[b]
  BY <1>1, <1>2, <1>h DEF Stored, Dropped
<1> QED
  BY <1>1, <1>5, <1>6, <1>7, <1>8

LEMMA HeaderMoves ==
  ASSUME NEW ts \in [Places -> Token]
  PROVE  /\ WithHeader(ts) \in [Places -> Token]
         /\ WithHeader(ts)["held"] = ts["held"]
         /\ \A a \in Loops : WithHeader(ts)[a] = ts[a]
  BY DEF WithHeader, Places, Loops

LEMMA TickStep ==
  ASSUME IInv, Tick
  PROVE  IInv'
<1> USE Times DEF Tick, TimeMayPass, Less, Probing
<1>t. TypeOK
  BY DEF IInv
<1>1. TypeOK'
  <2>1. tokens' \in [Places -> Token]
    BY <1>t DEF TypeOK, Token
  <2>2. /\ refresh' \in [at : RefreshAt, left : 0..Ttl]
        /\ probe' \in [at : ProbeAt, left : 0..ProbeEvery]
    BY <1>t DEF TypeOK
  <2>3. login' \in [Loops -> [at : {"none", "sent", "told"}, age : 0..LoginTimeout]]
    BY <1>t DEF TypeOK
  <2>4. asked' \in 0..RetryEvery /\ age' \in 0..ProbeTimeout
    BY <1>t DEF TypeOK
  <2> QED
    BY <1>t, <2>1, <2>2, <2>3, <2>4 DEF TypeOK
<1>2. LoopsInv'
  BY <1>t DEF IInv, TypeOK, LoopsInv, Loops
<1>3. ReplyInv'
  BY <1>t, TokenTypes DEF IInv, TypeOK, ReplyInv, Loops, Places
<1>4. SleepInv' /\ RetryInv'
  BY <1>t, TokenTypes DEF IInv, TypeOK, SleepInv, RetryInv
<1>5. HeldInv'
  <2>1. /\ tokens'["held"].left = Less(tokens["held"].left)
        /\ refresh'.left = Less(refresh.left)
        /\ refresh'.at = refresh.at
    BY <1>t DEF TypeOK, Places, Token
  <2>2. refresh.at = "login" => /\ login'["refresh"].age = login["refresh"].age + 1
                                /\ login["refresh"].age < LoginTimeout
    BY <1>t DEF IInv, TypeOK, LoopsInv, Loops
  <2>3. tokens["held"].left \in Nat /\ refresh.left \in Nat /\ login["refresh"].age \in Nat
    BY <1>t, TokenTypes DEF Places, Loops
  <2> QED
    BY <2>1, <2>2, <2>3 DEF IInv, HeldInv
<1> QED
  BY <1>1, <1>2, <1>3, <1>4, <1>5 DEF IInv

LEMMA AnswerStep ==
  ASSUME IInv, NEW a \in Loops, AnswerLogin(a)
  PROVE  IInv'
<1> USE Times DEF AnswerLogin, Issued
<1>t. TypeOK
  BY DEF IInv
<1>1. TypeOK'
  <2>1. tokens' \in [Places -> Token]
    BY <1>t DEF TypeOK, Token, Places, Loops
  <2>2. login' \in [Loops -> [at : {"none", "sent", "told"}, age : 0..LoginTimeout]]
    BY <1>t DEF TypeOK
  <2> QED
    BY <1>t, <2>1, <2>2 DEF TypeOK
<1>2. LoopsInv'
  BY <1>t DEF IInv, TypeOK, LoopsInv, Loops
<1>3. ReplyInv'
  BY <1>t, TokenTypes DEF IInv, TypeOK, ReplyInv, Loops, Places
<1>4. SleepInv' /\ RetryInv'
  BY DEF IInv, SleepInv, RetryInv
<1>5. HeldInv'
  BY <1>t DEF IInv, TypeOK, HeldInv, Loops, Places
<1> QED
  BY <1>1, <1>2, <1>3, <1>4, <1>5 DEF IInv

\* A turn of the refresh loop, taken with `left` to live.
LEMMA TurnStep ==
  ASSUME TypeOK, NEW left \in 0..Ttl, Turn(left), refresh.at \in {"login", "start"} \/ refresh.left = 0
  PROVE  /\ refresh' \in [at : RefreshAt, left : 0..Ttl]
         /\ login' \in [Loops -> [at : {"none", "sent", "told"}, age : 0..LoginTimeout]]
         /\ asked' \in 0..RetryEvery
         /\ login'["probe"] = login["probe"]
         /\ SleepInv' /\ RetryInv'
         /\ \/ /\ left > Margin
               /\ refresh' = [at |-> "sleep", left |-> left - Margin]
               /\ login'["refresh"] = None
            \/ /\ left <= Margin
               /\ refresh' = [at |-> "login", left |-> 0]
               /\ login'["refresh"] = Sent
  BY Times DEF TypeOK, Turn, SleepInv, RetryInv, Sent, None, Loops, RefreshAt

LEMMA StartStep ==
  ASSUME IInv, StartDone
  PROVE  IInv'
<1> USE Times
<1>t. TypeOK
  BY DEF IInv
<1>1. CASE login["refresh"].at = "told" /\ valid' = TRUE
           /\ StartProbe(Stored("refresh")) /\ Turn(tokens["refresh"].left)
           /\ UNCHANGED <<reachable, hostUp, calm>> /\ refresh.at = "start"
  <2>a. tokens["refresh"] \in Token /\ tokens["held"] \in Token /\ tokens["refresh"].left \in 0..Ttl
    BY <1>t DEF TypeOK, Places, Token
  <2>b. tokens["refresh"].left >= Ttl - LoginTimeout
    BY <1>1, <1>t, <2>a, TokenTypes DEF IInv, ReplyInv, Loops
  <2>s. refresh' = [at |-> "sleep", left |-> tokens["refresh"].left - Margin]
        /\ login'["refresh"] = None /\ login'["probe"] = login["probe"]
        /\ SleepInv' /\ RetryInv'
    BY <1>1, <1>t, <2>a, <2>b, TurnStep
  <2>d. tokens' \in [Places -> Token] /\ tokens'["held"] = tokens["refresh"]
        /\ tokens'["probe"] = tokens["probe"]
    BY <1>1, <1>t, TokenMoves, HeaderMoves DEF StartProbe, Loops
  <2>1. TypeOK'
    BY <1>1, <1>t, <2>a, <2>d, TurnStep DEF TypeOK, StartProbe, ProbeAt
  <2>2. LoopsInv'
    BY <1>1, <2>s DEF IInv, LoopsInv, StartProbe, None
  <2>3. ReplyInv'
    BY <1>1, <2>s, <2>d DEF IInv, ReplyInv, LoopsInv, None, Loops
  <2>5. HeldInv'
    BY <2>s, <2>d, <2>a DEF HeldInv
  <2> QED
    BY <2>1, <2>2, <2>3, <2>s, <2>5 DEF IInv
<1>2. CASE LoginMayFail("refresh") /\ valid' = FALSE
           /\ StartProbe(Dropped("refresh")) /\ Turn(0)
           /\ UNCHANGED <<reachable, hostUp, calm>> /\ refresh.at = "start"
  <2>s. refresh' = [at |-> "login", left |-> 0]
        /\ login'["refresh"] = Sent /\ login'["probe"] = login["probe"]
        /\ SleepInv' /\ RetryInv'
    BY <1>2, <1>t, TurnStep
  <2>d. tokens' \in [Places -> Token] /\ tokens'["probe"] = tokens["probe"]
    BY <1>2, <1>t, TokenMoves, HeaderMoves DEF StartProbe, Loops
  <2>1. TypeOK'
    <3>1. /\ refresh' \in [at : RefreshAt, left : 0..Ttl]
          /\ login' \in [Loops -> [at : {"none", "sent", "told"}, age : 0..LoginTimeout]]
          /\ asked' \in 0..RetryEvery
      BY <1>2, <1>t, TurnStep
    <3>2. probe' \in [at : ProbeAt, left : 0..ProbeEvery] /\ age' \in 0..ProbeTimeout
      BY <1>2 DEF StartProbe, ProbeAt
    <3> QED
      BY <1>2, <1>t, <2>d, <3>1, <3>2 DEF TypeOK
  <2>2. LoopsInv'
    BY <1>2, <2>s DEF IInv, LoopsInv, StartProbe, Sent
  <2>3. ReplyInv'
    BY <1>2, <2>s, <2>d DEF IInv, ReplyInv, LoopsInv, Sent, Loops
  <2>5. HeldInv'
    BY <1>2 DEF HeldInv
  <2> QED
    BY <2>1, <2>2, <2>3, <2>s, <2>5 DEF IInv
<1> QED
  BY <1>1, <1>2 DEF StartDone

LEMMA RefreshSucceedsStep ==
  ASSUME IInv, RefreshSucceeds
  PROVE  IInv'
<1> USE Times
<1>t. TypeOK
  BY DEF IInv
<1>r. /\ refresh.at = "login" /\ login["refresh"].at = "told"
      /\ tokens' = Stored("refresh") /\ valid' = TRUE
      /\ Turn(tokens["refresh"].left)
      /\ UNCHANGED <<reachable, probe, age, hostUp, calm>>
  BY DEF RefreshSucceeds
<1>a. tokens["refresh"].left \in 0..Ttl /\ tokens["refresh"].left >= Ttl - LoginTimeout
  BY <1>r, <1>t, TokenTypes DEF IInv, ReplyInv, Loops, Places
<1>s. /\ refresh' = [at |-> "sleep", left |-> tokens["refresh"].left - Margin]
      /\ login'["refresh"] = None
      /\ login'["probe"] = login["probe"]
      /\ SleepInv' /\ RetryInv'
  BY <1>r, <1>t, <1>a, TurnStep
<1>d. /\ tokens' \in [Places -> Token]
      /\ tokens'["held"] = tokens["refresh"]
      /\ tokens'["probe"] = tokens["probe"]
  BY <1>r, <1>t, TokenMoves DEF Loops
<1>1. TypeOK'
  <2>1. /\ refresh' \in [at : RefreshAt, left : 0..Ttl]
        /\ login' \in [Loops -> [at : {"none", "sent", "told"}, age : 0..LoginTimeout]]
        /\ asked' \in 0..RetryEvery
    BY <1>r, <1>t, <1>a, TurnStep
  <2> QED
    BY <1>r, <1>t, <1>d, <2>1 DEF TypeOK
<1>2. LoopsInv'
  BY <1>r, <1>s DEF IInv, LoopsInv, None
<1>3. ReplyInv'
  BY <1>s, <1>d DEF IInv, ReplyInv, None, Loops
<1>5. HeldInv'
  BY <1>s, <1>d, <1>a DEF HeldInv
<1> QED
  BY <1>1, <1>2, <1>3, <1>s, <1>5 DEF IInv

LEMMA RefreshFailsStep ==
  ASSUME IInv, RefreshFails
  PROVE  IInv'
<1> USE Times DEF RefreshFails
<1>t. TypeOK
  BY DEF IInv
<1>d. tokens' \in [Places -> Token] /\ tokens'["probe"] = tokens["probe"]
  BY <1>t, TokenMoves DEF Loops
<1>s. login'["refresh"] = None /\ login'["probe"] = login["probe"]
  BY <1>t DEF TypeOK, Loops
<1>1. TypeOK'
  <2>1. refresh' \in [at : RefreshAt, left : 0..Ttl]
    BY DEF RefreshAt
  <2>2. None \in [at : {"none", "sent", "told"}, age : 0..LoginTimeout]
    BY DEF None
  <2>3. login' \in [Loops -> [at : {"none", "sent", "told"}, age : 0..LoginTimeout]]
    BY <1>t, <2>2 DEF TypeOK
  <2> QED
    BY <1>t, <1>d, <2>1, <2>3 DEF TypeOK
<1>2. LoopsInv'
  BY <1>s DEF IInv, LoopsInv, None
<1>3. ReplyInv'
  BY <1>s, <1>d DEF IInv, ReplyInv, None, Loops
<1>5. SleepInv' /\ RetryInv' /\ HeldInv'
  BY DEF SleepInv, RetryInv, HeldInv
<1> QED
  BY <1>1, <1>2, <1>3, <1>5 DEF IInv

LEMMA RefreshWakesStep ==
  ASSUME IInv, RefreshWakes
  PROVE  IInv'
<1> USE Times
<1>t. TypeOK
  BY DEF IInv
<1>h. tokens["held"].left \in 0..Ttl /\ 0 \in 0..Ttl /\ login["refresh"].age \in Nat
  BY <1>t, TokenTypes DEF Places, Loops
<1>u. UNCHANGED <<tokens, valid, reachable, probe, age, hostUp, calm>>
  BY DEF RefreshWakes
<1>p. PICK left \in 0..Ttl :
        /\ refresh.left = 0 /\ Turn(left)
        /\ \/ refresh.at = "sleep" /\ left = 0
           \/ refresh.at = "retry" /\ left = tokens["held"].left
  BY <1>h, Zenon DEF RefreshWakes
<1>s. /\ refresh' \in [at : RefreshAt, left : 0..Ttl]
      /\ login' \in [Loops -> [at : {"none", "sent", "told"}, age : 0..LoginTimeout]]
      /\ asked' \in 0..RetryEvery
      /\ login'["probe"] = login["probe"]
      /\ SleepInv' /\ RetryInv'
      /\ \/ /\ left > Margin
            /\ refresh' = [at |-> "sleep", left |-> left - Margin]
            /\ login'["refresh"] = None
         \/ /\ left <= Margin
            /\ refresh' = [at |-> "login", left |-> 0]
            /\ login'["refresh"] = Sent
  BY <1>p, <1>t, <1>h, TurnStep
<1>1. TypeOK'
  BY <1>t, <1>u, <1>s DEF TypeOK
<1>2. LoopsInv'
  BY <1>p, <1>s, <1>u DEF IInv, LoopsInv, None, Sent
<1>3. ReplyInv'
  BY <1>s, <1>u DEF IInv, ReplyInv, None, Sent, Loops
<1>5. HeldInv'
  <2>1. valid /\ refresh.at = "sleep" => tokens["held"].left >= Margin - LoginTimeout
    BY <1>p, <1>h DEF IInv, HeldInv
  <2>2. valid /\ refresh.at = "retry" => tokens["held"].left >= Margin
    BY <1>p, <1>h DEF IInv, HeldInv
  <2>3. CASE refresh.at = "sleep"
    BY <2>1, <2>3, <1>p, <1>s, <1>u, <1>h DEF HeldInv, Sent
  <2>4. CASE refresh.at = "retry"
    BY <2>2, <2>4, <1>p, <1>s, <1>u, <1>h DEF HeldInv, Sent
  <2> QED
    BY <2>3, <2>4, <1>p
<1> QED
  BY <1>1, <1>2, <1>3, <1>s, <1>5 DEF IInv
-----------------------------------------------------------------------------
\* The steps of the probe loop that store no token.
LEMMA ProbeStep ==
  ASSUME IInv, ProbeOk \/ ProbeFails \/ ProbeLoginFails \/ ProbeWakes
  PROVE  IInv'
<1> USE Times DEF ProbeOk, ProbeFails, ProbeLoginFails, ProbeWakes, ProbeSleeps, StartProbe
<1>t. TypeOK
  BY DEF IInv
<1>n. NoToken \in Token /\ tokens \in [Places -> Token]
  BY <1>t, TokenMoves DEF Loops
<1>d. /\ tokens' \in [Places -> Token]
      /\ tokens'["held"] = tokens["held"]
      /\ tokens'["refresh"] = tokens["refresh"]
      /\ tokens'["probe"] = tokens["probe"] \/ login'["probe"] = None
  <2>1. CASE ProbeOk \/ ProbeFails
    BY <1>n, <2>1 DEF Places
  <2>2. CASE ProbeLoginFails
    <3>1. login'["probe"] = None
      BY <1>t, <2>2 DEF TypeOK, Loops
    <3> QED
      BY <1>t, <2>2, <3>1, TokenMoves DEF Loops
  <2>3. CASE ProbeWakes
    BY <1>n, <2>3, HeaderMoves DEF Loops
  <2> QED
    BY <2>1, <2>2, <2>3
<1>l. /\ login' \in [Loops -> [at : {"none", "sent", "told"}, age : 0..LoginTimeout]]
      /\ login'["refresh"] = login["refresh"]
      /\ login'["probe"] \in {login["probe"], None, Sent}
      /\ login'["probe"].at # "none" <=> probe'.at = "login"
  BY <1>t DEF IInv, TypeOK, LoopsInv, Loops, None, Sent
<1>q. probe' \in [at : ProbeAt, left : 0..ProbeEvery]
  BY DEF ProbeAt
<1>p. age' \in 0..ProbeTimeout
  BY <1>t DEF TypeOK
<1>r. reachable' \in BOOLEAN
  BY <1>t, Zenon DEF TypeOK
<1>u. UNCHANGED <<valid, refresh, asked, hostUp, calm>> /\ refresh.at # "start"
  BY DEF IInv, LoopsInv
<1>1. TypeOK'
  BY <1>t, <1>d, <1>l, <1>p, <1>q, <1>r, <1>u DEF TypeOK
<1>2. LoopsInv'
  BY <1>l, <1>u DEF IInv, LoopsInv
<1>3. ReplyInv'
  BY <1>d, <1>l DEF IInv, ReplyInv, None, Sent, Loops
<1>5. SleepInv' /\ RetryInv' /\ HeldInv'
  BY <1>d, <1>l, <1>u DEF IInv, SleepInv, RetryInv, HeldInv
<1> QED
  BY <1>1, <1>2, <1>3, <1>5 DEF IInv

LEMMA ProbeLoginSucceedsStep ==
  ASSUME IInv, ProbeLoginSucceeds
  PROVE  IInv'
<1> USE Times DEF ProbeLoginSucceeds
<1>t. TypeOK
  BY DEF IInv
<1>a. tokens["probe"].left \in 0..Ttl /\ tokens["probe"].left >= Ttl - LoginTimeout
  BY <1>t, TokenTypes DEF IInv, ReplyInv, Loops, Places
<1>d. /\ tokens' \in [Places -> Token]
      /\ tokens'["held"] = tokens["probe"]
      /\ tokens'["refresh"] = tokens["refresh"]
  BY <1>t, TokenMoves, HeaderMoves DEF Loops
<1>l. /\ login' \in [Loops -> [at : {"none", "sent", "told"}, age : 0..LoginTimeout]]
      /\ login'["refresh"] = login["refresh"]
      /\ login'["probe"] = None
  BY <1>t DEF TypeOK, Loops, None
<1>u. UNCHANGED refresh /\ refresh.at # "start"
  BY DEF IInv, LoopsInv
<1>1. TypeOK'
  <2>1. probe' \in [at : ProbeAt, left : 0..ProbeEvery] /\ age' \in 0..ProbeTimeout
    BY DEF ProbeAt
  <2> QED
    BY <1>t, <1>d, <1>l, <2>1 DEF TypeOK
<1>2. LoopsInv'
  BY <1>l, <1>u DEF IInv, LoopsInv, None
<1>3. ReplyInv'
  BY <1>d, <1>l DEF IInv, ReplyInv, None, Loops
<1>4. SleepInv' /\ RetryInv'
  BY DEF IInv, SleepInv, RetryInv
<1>5. HeldInv'
  <2>1. refresh.left \in 0..Ttl /\ login["refresh"].age \in Nat
    BY <1>t, TokenTypes DEF Loops
  <2>2. refresh.at = "retry" => refresh.left <= RetryEvery
    BY DEF IInv, RetryInv
  <2> QED
    BY <1>a, <1>d, <1>l, <1>u, <2>1, <2>2 DEF IInv, HeldInv, SleepInv
<1> QED
  BY <1>1, <1>2, <1>3, <1>4, <1>5 DEF IInv

\* Outages, revocations and the end of both.
LEMMA EnvironmentStep ==
  ASSUME IInv, HostChanges \/ Revoke \/ Settle
  PROVE  IInv'
<1> USE Times DEF HostChanges, Revoke, Settle
<1>t. TypeOK
  BY DEF IInv
<1>1. /\ tokens' \in [Places -> Token]
      /\ \A p \in Places : tokens'[p].left = tokens[p].left
  <2>1. CASE Revoke
    <3>1. \A p \in Places : tokens'[p] = [tokens[p] EXCEPT !.good = FALSE]
      BY <2>1
    <3>2. \A p \in Places : tokens[p] \in Token
      BY <1>t DEF TypeOK
    <3>3. \A p \in Places : tokens'[p] \in Token /\ tokens'[p].left = tokens[p].left
      BY <3>1, <3>2 DEF Token
    <3> QED
      BY <2>1, <3>3
  <2> QED
    BY <1>t, <2>1 DEF TypeOK
<1>2. UNCHANGED <<valid, reachable, refresh, probe, login, asked, age>>
      /\ hostUp' \in BOOLEAN /\ calm' \in BOOLEAN
  BY <1>t DEF TypeOK
<1>3. TypeOK'
  BY <1>t, <1>1, <1>2 DEF TypeOK
<1> QED
  BY <1>1, <1>2, <1>3 DEF IInv, LoopsInv, ReplyInv, SleepInv, RetryInv, HeldInv, Places, Loops
-----------------------------------------------------------------------------
\* Neither loop, however its login ends, breaks the invariant.
THEOREM IInvNext == IInv /\ [Next]_vars => IInv'
<1> SUFFICES ASSUME IInv, [Next]_vars PROVE IInv'
  OBVIOUS
<1>1. CASE UNCHANGED vars
  BY <1>1 DEF vars, IInv, TypeOK, LoopsInv, ReplyInv, SleepInv, RetryInv, HeldInv
<1>2. CASE Next
  BY <1>2, AnswerStep, StartStep, RefreshSucceedsStep, RefreshFailsStep, RefreshWakesStep,
     ProbeStep, ProbeLoginSucceedsStep, EnvironmentStep, TickStep DEF Next
<1> QED
  BY <1>1, <1>2

\* The invariant holds in every reachable state.
THEOREM Invariance == Spec => []IInv
  BY IInvInit, IInvNext, PTL DEF Spec

\* Every variable of the session keeps its type; in particular no time that
\* is left runs below zero and no request outlives its timeout.
THEOREM TypeCorrect == Spec => []TypeOK
<1>1. IInv => TypeOK
  BY DEF IInv
<1> QED
  BY <1>1, Invariance, PTL

\* get_token never hands out an expired token.
THEOREM NoExpiredTokenServed == Spec => []ServedTokenUnexpired
<1>1. IInv => ServedTokenUnexpired
  <2> SUFFICES ASSUME IInv, valid PROVE tokens["held"].left > 0
    BY DEF ServedTokenUnexpired
  <2>1. /\ tokens["held"].left \in Nat
        /\ refresh.left \in Nat
        /\ login["refresh"].age \in 0..LoginTimeout
        /\ refresh.at \in {"login", "sleep", "retry"}
    BY TokenTypes DEF IInv, LoopsInv, Places, Loops, RefreshAt
  <2> QED
    BY <2>1, Times DEF IInv, HeldInv
<1> QED
  BY <1>1, Invariance, PTL
-----------------------------------------------------------------------------
\* What the refresh loop has slept since its last login, and what it will
\* still sleep, make a retry interval between them.
PaceInv ==
  refresh.at \in {"sleep", "retry"} => asked + refresh.left >= RetryEvery

\* A fresh token lives long enough for the loop to sleep a retry interval, so
\* the only turn that logs in at once is one taken when a sleep is over.
LEMMA FreshTokenSleeps ==
  ASSUME IInv,
         \/ RefreshSucceeds
         \/ /\ StartDone
            /\ login["refresh"].at = "told"
            /\ Turn(tokens["refresh"].left)
  PROVE  /\ refresh' = [at |-> "sleep", left |-> tokens["refresh"].left - Margin]
         /\ login'["refresh"] = None
         /\ refresh'.left \in Nat /\ refresh'.left >= RetryEvery
<1> USE Times
<1>t. TypeOK
  BY DEF IInv
<1>1. /\ login["refresh"].at = "told"
      /\ refresh.at \in {"login", "start"}
      /\ Turn(tokens["refresh"].left)
  BY DEF RefreshSucceeds, StartDone
<1>2. tokens["refresh"].left \in 0..Ttl /\ tokens["refresh"].left >= Ttl - LoginTimeout
  BY <1>1, <1>t, TokenTypes DEF IInv, ReplyInv, Loops, Places
<1>3. tokens["refresh"].left > Margin /\ tokens["refresh"].left - Margin >= RetryEvery
  BY <1>2
<1> QED
  BY <1>1, <1>2, <1>3, <1>t, TurnStep

LEMMA PaceNext ==
  ASSUME IInv, PaceInv, [Next]_vars
  PROVE  PaceInv'
<1> USE Times
<1>t. TypeOK
  BY DEF IInv
<1>h. asked \in 0..RetryEvery /\ refresh.left \in 0..Ttl /\ tokens["held"].left \in 0..Ttl
      /\ 0 \in 0..Ttl
  BY <1>t, TokenTypes DEF TypeOK, Places
<1>a. asked' \in 0..RetryEvery /\ RetryEvery \in Nat
  BY IInvNext DEF IInv, TypeOK
<1>1. CASE StartDone
  <2>1. CASE login["refresh"].at = "told" /\ Turn(tokens["refresh"].left)
    BY <1>1, <1>a, <2>1, FreshTokenSleeps DEF PaceInv
  <2>2. CASE Turn(0)
    BY <1>1, <1>t, <1>h, <2>2, TurnStep DEF PaceInv, StartDone
  <2> QED
    BY <1>1, <2>1, <2>2 DEF StartDone
<1>2. CASE RefreshSucceeds
  BY <1>2, <1>a, FreshTokenSleeps DEF PaceInv
<1>3. CASE RefreshFails
  BY <1>3, <1>a DEF RefreshFails, PaceInv
<1>4. CASE RefreshWakes
  <2>1. asked >= RetryEvery
    BY <1>4, <1>h DEF RefreshWakes, PaceInv
  <2>2. CASE Turn(0)
    BY <1>4, <1>t, <1>h, <2>2, TurnStep DEF PaceInv, RefreshWakes
  <2>3. CASE Turn(tokens["held"].left)
    <3>1. CASE tokens["held"].left > Margin
      BY <1>h, <2>1, <2>3, <3>1 DEF PaceInv, Turn
    <3>2. CASE ~(tokens["held"].left > Margin)
      BY <2>3, <3>2 DEF PaceInv, Turn
    <3> QED
      BY <3>1, <3>2
  <2> QED
    BY <1>4, <2>2, <2>3 DEF RefreshWakes
<1>5. CASE Tick
  <2>1. /\ refresh'.at = refresh.at
        /\ refresh'.left = Less(refresh.left)
        /\ asked' = IF asked < RetryEvery THEN asked + 1 ELSE asked
    BY <1>5, <1>t DEF Tick, TypeOK
  <2> QED
    BY <2>1, <1>h DEF Less, PaceInv
<1>6. CASE UNCHANGED <<refresh, asked>>
  BY <1>6 DEF PaceInv
<1>7. \/ StartDone \/ RefreshSucceeds \/ RefreshFails \/ RefreshWakes \/ Tick
      \/ UNCHANGED <<refresh, asked>>
  BY DEF Next, vars, AnswerLogin, ProbeOk, ProbeFails, ProbeLoginSucceeds, ProbeLoginFails,
         ProbeWakes, HostChanges, Revoke, Settle
<1> QED
  BY <1>1, <1>2, <1>3, <1>4, <1>5, <1>6, <1>7

\* Who may send the refresh loop's login: a turn of the loop, and no other step.
LEMMA OnlyTurnsLogIn ==
  ASSUME IInv, [Next]_vars, refresh.at # "start",
         login'["refresh"] = Sent, login["refresh"].at # "sent"
  PROVE  RefreshWakes
<1>t. TypeOK
  BY DEF IInv
<1>s. login'["refresh"].at = "sent"
  BY DEF Sent
<1>1. CASE RefreshSucceeds
  BY <1>1, <1>s, FreshTokenSleeps DEF None
<1>2. CASE RefreshFails
  <2>1. login'["refresh"] = None
    BY <1>2, <1>t DEF RefreshFails, TypeOK, Loops
  <2> QED
    BY <2>1, <1>s DEF None
<1>3. CASE Tick
  <2>1. login'["refresh"].at = login["refresh"].at
    BY <1>3, <1>t DEF Tick, TypeOK, Loops
  <2> QED
    BY <1>s, <2>1
<1>4. CASE \E a \in Loops : AnswerLogin(a)
  BY <1>4, <1>s, <1>t DEF AnswerLogin, TypeOK, Loops
<1>5. CASE ProbeFails \/ ProbeLoginSucceeds \/ ProbeLoginFails
  BY <1>5, <1>s, <1>t DEF ProbeFails, ProbeLoginSucceeds, ProbeLoginFails, TypeOK, Loops
<1>6. CASE UNCHANGED login
  BY <1>6, <1>s
<1>7. \/ RefreshSucceeds \/ RefreshFails \/ RefreshWakes \/ Tick
      \/ \E a \in Loops : AnswerLogin(a)
      \/ ProbeFails \/ ProbeLoginSucceeds \/ ProbeLoginFails
      \/ UNCHANGED login
  BY DEF Next, vars, StartDone, ProbeOk, ProbeWakes, HostChanges, Revoke, Settle
<1> QED
  BY <1>1, <1>2, <1>3, <1>4, <1>5, <1>6, <1>7

\* The refresh loop never storms the login endpoint: whatever its logins and
\* those of the probe loop came to, two of its own are RetryEvery apart.
THEOREM LoginsPaced == Spec => RefreshLoginsPaced
<1>1. Init => PaceInv
  BY DEF Init, PaceInv
<1>2. IInv /\ PaceInv /\ IInv' /\ [Next]_vars => PaceInv'
  BY PaceNext
<1>3. IInv /\ PaceInv /\ [Next]_vars =>
        [refresh.at # "start" /\ login'["refresh"] = Sent /\ login["refresh"].at # "sent"
           => asked >= RetryEvery]_vars
  <2> SUFFICES ASSUME IInv, PaceInv, [Next]_vars, refresh.at # "start",
                      login'["refresh"] = Sent, login["refresh"].at # "sent"
               PROVE  asked >= RetryEvery
    OBVIOUS
  <2>1. RefreshWakes
    BY OnlyTurnsLogIn
  <2>2. asked \in 0..RetryEvery /\ refresh.left = 0 /\ refresh.at \in {"sleep", "retry"}
    BY <2>1 DEF RefreshWakes, IInv, TypeOK
  <2> QED
    BY <2>2, Times DEF PaceInv
<1> QED
  BY <1>1, <1>2, <1>3, Invariance, PTL DEF Spec, RefreshLoginsPaced
=============================================================================
