--------------------------- MODULE ConsoleProofs ---------------------------
(***************************************************************************)
(* Proofs about Console, for any number of administrators, sessions, calls *)
(* and documents.                                                          *)
(*                                                                         *)
(* The properties rest on facts that hold together: the first check of a   *)
(* document is its only call and there is one of it; no token is used      *)
(* before it was issued; and a token that was refused or logged out stays  *)
(* dead, because sessions are created under new tokens only.               *)
(***************************************************************************)
EXTENDS Console, TLAPS

\* A document has one check, and a login carries the name that was typed.
CallsSound ==
    /\ \A c, d \in calls : c.kind = "check" /\ d.kind = "check" => c = d
    /\ \A c \in calls : c.kind = "login" => c.user \in Users

\* The tokens that the browser and the calls hold have been issued.
TokensIssued ==
    /\ cookie \in Tokens => cookie <= issued
    /\ \A c \in calls : c.token \in Tokens => c.token <= issued

\* The server granted the logout, or refused the call.
Ended(c) ==
    \/ c.kind = "logout" /\ c.status = 200
    \/ c.kind # "login" /\ c.status = 401

\* The token of such a call is dead.
EndedDead == \A c \in calls : Ended(c) => ~Validate(c.token)

IInv == TypeOK /\ CheckComesFirst /\ CallsSound /\ TokensIssued /\ EndedDead

\* A call of the document that has just been sent.
LEMMA SendFacts ==
    ASSUME TypeOK, TokensIssued, NEW kind \in Kinds, NEW u \in Users \cup {None}
    PROVE  /\ Send(kind, u) \in Call
           /\ Send(kind, u).kind = kind /\ Send(kind, u).status = 0
           /\ Send(kind, u).token = cookie /\ Send(kind, u).user = u
           /\ ~Ended(Send(kind, u))
  BY DEF TypeOK, Send, Call, Ended, Kinds

\* What an answer leaves alone.
LEMMA AnswerKeeps ==
    ASSUME IInv, NEW c \in calls, NEW d \in Call, d.kind = c.kind, d.user = c.user,
           d.token \in Tokens => d.token <= issued',
           issued' \in issued .. MaxSessions,
           Answered(c, d), UNCHANGED <<cookie, path, authVars, submitting, leaving>>
    PROVE  /\ calls' \subseteq Call
           /\ CheckComesFirst' /\ CallsSound' /\ TokensIssued'
  BY ConsoleAssumption DEF IInv, TypeOK, CheckComesFirst, CallsSound, TokensIssued,
     Answered, authVars, Tokens

\* The first state.
LEMMA InitIInv == Init => IInv
<1> SUFFICES ASSUME Init PROVE IInv
  OBVIOUS
<1>1. Send("check", None) \in Call /\ Send("check", None).kind = "check"
      /\ Send("check", None).token = None /\ ~Ended(Send("check", None))
  BY DEF Init, Send, Call, Ended, Kinds
<1>2. TypeOK
  <2>1. sessions \in [Tokens -> Users \cup {None}]
    BY DEF Init
  <2>2. calls \subseteq Call
    BY <1>1 DEF Init
  <2>3. loading \in BOOLEAN /\ submitting \in BOOLEAN /\ leaving \in BOOLEAN
    BY Zenon DEF Init
  <2>4. /\ issued \in 0 .. MaxSessions /\ loads \in 0 .. MaxLoads /\ faults \in 0 .. MaxFaults
        /\ cookie \in Tokens \cup {None} /\ path \in Paths
        /\ username \in Users \cup {Placeholder, None}
    BY ConsoleAssumption, SMT DEF Init
  <2> QED BY <2>1, <2>2, <2>3, <2>4 DEF TypeOK
<1>3. CheckComesFirst /\ CallsSound /\ EndedDead
  BY <1>1 DEF Init, CheckComesFirst, CallsSound, EndedDead
<1>4. TokensIssued
  BY <1>1, ConsoleAssumption DEF Init, TokensIssued, Tokens
<1> QED BY <1>2, <1>3, <1>4 DEF IInv

\* A session that is created or destroyed revives no token that was issued.
LEMMA SessionsType ==
    ASSUME TypeOK, NEW t \in Tokens, NEW u \in Users \cup {None},
           sessions' = [sessions EXCEPT ![t] = u]
    PROVE  /\ sessions' \in [Tokens -> Users \cup {None}]
           /\ sessions'[t] = u
           /\ \A s \in Tokens \ {t} : sessions'[s] = sessions[s]
  BY DEF TypeOK

\* An answer that leaves the sessions alone.
LEMMA AnswerInductive ==
    ASSUME IInv, NEW c \in calls, NEW d \in Call,
           d.kind = c.kind, d.token = c.token, d.user = c.user, Answered(c, d),
           Ended(d) => ~Validate(c.token),
           faults' \in 0 .. MaxFaults,
           UNCHANGED <<serverVars, cookie, path, authVars, submitting, leaving, loads>>
    PROVE  IInv'
<1>1. issued' \in issued .. MaxSessions /\ (d.token \in Tokens => d.token <= issued')
  BY ConsoleAssumption DEF IInv, TypeOK, TokensIssued, serverVars
<1>2. calls' \subseteq Call /\ CheckComesFirst' /\ CallsSound' /\ TokensIssued'
  BY <1>1, AnswerKeeps
<1>3. TypeOK'
  BY <1>2 DEF IInv, TypeOK, serverVars, authVars
<1>4. EndedDead'
  BY DEF IInv, EndedDead, Ended, Validate, Answered, serverVars
<1> QED BY <1>2, <1>3, <1>4 DEF IInv

\* The server's steps.
LEMMA ServerInductive ==
    ASSUME IInv, NEW c \in calls, ServerStep(c) \/ Fault(c)
    PROVE  IInv'
<1> USE ConsoleAssumption
<1> c \in Call
  BY DEF IInv, TypeOK
<1>1. CASE Refuse(c)
  <2> DEFINE d == [c EXCEPT !.status = 401]
  <2>1. d \in Call /\ d.kind = c.kind /\ d.token = c.token /\ d.user = c.user
    BY DEF Call
  <2>2. Answered(c, d)
    BY <1>1 DEF Refuse
  <2> HIDE DEF d
  <2>3. faults' \in 0 .. MaxFaults
    BY <1>1 DEF Refuse, IInv, TypeOK
  <2> QED BY <1>1, <2>1, <2>2, <2>3, AnswerInductive DEF Refuse
<1>2. CASE Serve(c)
  <2> DEFINE d == [c EXCEPT !.status = 200]
  <2>1. d \in Call /\ d.kind = c.kind /\ d.token = c.token /\ d.user = c.user /\ ~Ended(d)
    BY <1>2 DEF Call, Serve, Ended
  <2>2. Answered(c, d)
    BY <1>2 DEF Serve
  <2> HIDE DEF d
  <2>3. faults' \in 0 .. MaxFaults
    BY <1>2 DEF Serve, IInv, TypeOK
  <2> QED BY <1>2, <2>1, <2>2, <2>3, AnswerInductive DEF Serve
<1>3. CASE Logout(c)
  <2> DEFINE d == [c EXCEPT !.status = 200]
  <2>1. d \in Call /\ d.kind = c.kind /\ d.token = c.token /\ d.user = c.user /\ d.status = 200
    BY DEF Call
  <2>a. Answered(c, d)
    BY <1>3 DEF Logout
  <2> HIDE DEF d
  <2>2. /\ Answered(c, d)
        /\ UNCHANGED <<issued, cookie, path, authVars, submitting, leaving, loads, faults>>
        /\ c.token \in Tokens /\ sessions' = [sessions EXCEPT ![c.token] = None]
    BY <1>3, <2>a DEF Logout, Destroy, Validate
  <2>3. issued' \in issued .. MaxSessions /\ (d.token \in Tokens => d.token <= issued')
    BY <2>1, <2>2 DEF IInv, TypeOK, TokensIssued
  <2>4. calls' \subseteq Call /\ CheckComesFirst' /\ CallsSound' /\ TokensIssued'
    BY <2>1, <2>2, <2>3, AnswerKeeps
  <2>5. /\ sessions' \in [Tokens -> Users \cup {None}]
        /\ sessions'[c.token] = None
        /\ \A s \in Tokens \ {c.token} : sessions'[s] = sessions[s]
    BY <2>2, SessionsType DEF IInv
  <2>6. TypeOK'
    BY <2>2, <2>4, <2>5 DEF IInv, TypeOK, authVars
  <2>7. EndedDead'
    BY <2>1, <2>2, <2>5 DEF IInv, EndedDead, Ended, Validate, Answered
  <2> QED BY <2>4, <2>6, <2>7 DEF IInv
<1>4. CASE Login(c)
  <2>0. c.kind = "login" /\ c.user \in Users \cup {None}
    BY <1>4 DEF Login, Call
  <2>1. CASE Create(c.user) /\ Answered(c, [c EXCEPT !.status = 200, !.token = issued + 1])
    <3> DEFINE d == [c EXCEPT !.status = 200, !.token = issued + 1]
    <3>0. issued + 1 \in Tokens /\ issued \in Nat
      BY <2>1 DEF Create, IInv, TypeOK, Tokens
    <3>1. d \in Call /\ d.kind = c.kind /\ d.user = c.user /\ d.token = issued + 1 /\ d.status = 200
      <4> DEFINE e == [c EXCEPT !.status = 200]
      <4>1. e \in Call /\ e.kind = c.kind /\ e.user = c.user /\ e.status = 200
        BY DEF Call
      <4>2. d = [e EXCEPT !.token = issued + 1]
        OBVIOUS
      <4> HIDE DEF e, d
      <4> QED BY <3>0, <4>1, <4>2 DEF Call
    <3>a. Answered(c, d)
      BY <2>1
    <3> HIDE DEF d
    <3>2. /\ Answered(c, d)
          /\ UNCHANGED <<cookie, path, authVars, submitting, leaving, loads, faults>>
          /\ issued' = issued + 1 /\ sessions' = [sessions EXCEPT ![issued + 1] = c.user]
      BY <1>4, <2>1, <3>a DEF Login, Create
    <3>3. issued' \in issued .. MaxSessions /\ (d.token \in Tokens => d.token <= issued')
      BY <3>0, <3>1, <3>2 DEF IInv, TypeOK, TokensIssued, Tokens
    <3>4. calls' \subseteq Call /\ CheckComesFirst' /\ CallsSound' /\ TokensIssued'
      BY <3>1, <3>2, <3>3, AnswerKeeps
    <3>5. /\ sessions' \in [Tokens -> Users \cup {None}]
          /\ \A s \in Tokens \ {issued + 1} : sessions'[s] = sessions[s]
      BY <2>0, <3>0, <3>2, SessionsType DEF IInv
    <3>6. TypeOK'
      BY <3>0, <3>2, <3>3, <3>4, <3>5 DEF IInv, TypeOK, Tokens, authVars
    <3>7. ~Ended(d)
      BY <2>0, <3>1 DEF Ended
    <3>8. \A x \in calls : x.token \in Tokens => x.token # issued + 1
      BY <3>0 DEF IInv, TokensIssued, Tokens
    <3>9. EndedDead'
      BY <3>2, <3>5, <3>7, <3>8 DEF IInv, EndedDead, Ended, Validate, Answered
    <3> QED BY <3>4, <3>6, <3>9 DEF IInv
  <2>2. CASE Answered(c, [c EXCEPT !.status = 401]) /\ UNCHANGED serverVars
    <3> DEFINE d == [c EXCEPT !.status = 401]
    <3>1. d \in Call /\ d.kind = c.kind /\ d.token = c.token /\ d.user = c.user /\ ~Ended(d)
      BY <2>0 DEF Call, Ended
    <3>2. Answered(c, d)
      BY <2>2
    <3> HIDE DEF d
    <3>3. faults' \in 0 .. MaxFaults
      BY <1>4 DEF Login, IInv, TypeOK
    <3> QED BY <1>4, <2>2, <3>1, <3>2, <3>3, AnswerInductive DEF Login
  <2> QED BY <1>4, <2>1, <2>2 DEF Login
<1>5. CASE Fault(c)
  <2> DEFINE d == [c EXCEPT !.status = 500]
  <2>1. d \in Call /\ d.kind = c.kind /\ d.token = c.token /\ d.user = c.user /\ ~Ended(d)
    BY DEF Call, Ended
  <2>2. Answered(c, d)
    BY <1>5 DEF Fault
  <2> HIDE DEF d
  <2>3. faults' \in 0 .. MaxFaults
    BY <1>5 DEF Fault, IInv, TypeOK
  <2> QED BY <1>5, <2>1, <2>2, <2>3, AnswerInductive DEF Fault
<1> QED BY <1>1, <1>2, <1>3, <1>4, <1>5 DEF ServerStep
\* A new document has one call, its check.
LEMMA LoadInductive ==
    ASSUME IInv, NEW p \in Paths, Load(p), loads' \in 0 .. MaxLoads,
           UNCHANGED <<serverVars, cookie, faults>>
    PROVE  IInv'
<1> DEFINE d == Send("check", None)
<1>1. d \in Call /\ d.kind = "check" /\ d.token = cookie /\ ~Ended(d)
  BY SendFacts DEF IInv, Kinds
<1>2. calls' = {d}
  BY DEF Load
<1> HIDE DEF d
<1>3. loading' = TRUE /\ username' = None /\ submitting' = FALSE /\ leaving' = FALSE /\ path' = p
  BY DEF Load
<1>4. TypeOK'
  BY <1>1, <1>2, <1>3 DEF IInv, TypeOK, serverVars
<1>5. CheckComesFirst' /\ CallsSound'
  BY <1>1, <1>2, <1>3 DEF CheckComesFirst, CallsSound
<1>6. TokensIssued'
  BY <1>1, <1>2 DEF IInv, TokensIssued, serverVars
<1>7. EndedDead'
  BY <1>1, <1>2 DEF EndedDead, Ended
<1> QED BY <1>4, <1>5, <1>6, <1>7 DEF IInv

\* A call leaves the document: it has no check left if this was one.
LEMMA CallGone ==
    ASSUME IInv, NEW c \in calls, calls' = calls \ {c}, UNCHANGED serverVars,
           cookie' \in Tokens => cookie' <= issued
    PROVE  /\ calls' \subseteq Call /\ CallsSound' /\ TokensIssued' /\ EndedDead'
           /\ c.kind = "check" => \A d \in calls' : d.kind # "check"
  BY DEF IInv, TypeOK, CallsSound, TokensIssued, EndedDead, Ended, Validate, serverVars

\* A page or the form sends a call that is not the check.
LEMMA CallSent ==
    ASSUME IInv, ~loading, NEW kind \in Kinds \ {"check"}, NEW u \in Users \cup {None},
           kind = "login" => u \in Users,
           calls' = calls \cup {Send(kind, u)},
           submitting' \in BOOLEAN,
           UNCHANGED <<serverVars, cookie, path, authVars, leaving, loads, faults>>
    PROVE  IInv'
<1> DEFINE d == Send(kind, u)
<1>1. d \in Call /\ d.kind # "check" /\ d.token = cookie /\ ~Ended(d)
      /\ (d.kind = "login" => d.user \in Users)
  BY SendFacts DEF IInv
<1>2. calls' = calls \cup {d}
  OBVIOUS
<1> HIDE DEF d
<1>3. TypeOK'
  BY <1>1, <1>2 DEF IInv, TypeOK, serverVars, authVars
<1>4. CheckComesFirst' /\ CallsSound'
  BY <1>1, <1>2 DEF IInv, CheckComesFirst, CallsSound, authVars
<1>5. TokensIssued'
  BY <1>1, <1>2 DEF IInv, TokensIssued, serverVars
<1>6. EndedDead'
  BY <1>1, <1>2 DEF IInv, EndedDead, Ended, Validate, serverVars
<1> QED BY <1>3, <1>4, <1>5, <1>6 DEF IInv

\* Answers arrive.
LEMMA DeliverInductive ==
    ASSUME IInv, NEW c \in calls, Deliver(c)
    PROVE  IInv'
<1> c \in Call
  BY DEF IInv, TypeOK
<1> cookie \in Tokens => cookie <= issued
  BY DEF IInv, TokensIssued
<1>1. CASE CheckAuth(c)
  <2>1. calls' = calls \ {c} /\ UNCHANGED <<serverVars, cookie, submitting, loads, faults>>
        /\ loading' = FALSE /\ c.kind = "check"
    BY <1>1 DEF CheckAuth
  <2>2. /\ calls' \subseteq Call /\ CallsSound' /\ TokensIssued' /\ EndedDead'
        /\ \A d \in calls' : d.kind # "check"
    BY <2>1, CallGone
  <2>3. username' \in Users \cup {Placeholder, None}
    BY <1>1 DEF CheckAuth, IInv, TypeOK
  <2>4. path' \in Paths
    BY <1>1 DEF CheckAuth, Guarded, IInv, TypeOK, Paths
  <2>5. leaving' \in BOOLEAN /\ loading' \in BOOLEAN
    BY <1>1, <2>1 DEF CheckAuth
  <2>6. TypeOK'
    BY <2>1, <2>2, <2>3, <2>4, <2>5 DEF IInv, TypeOK, serverVars
  <2>7. CheckComesFirst'
    BY <2>1, <2>2 DEF CheckComesFirst
  <2> QED BY <2>2, <2>6, <2>7 DEF IInv
<1>2. CASE PollDone(c)
  <2>1. calls' = calls \ {c} /\ c.kind = "poll"
        /\ UNCHANGED <<serverVars, cookie, path, authVars, submitting, loads, faults>>
    BY <1>2 DEF PollDone
  <2>2. calls' \subseteq Call /\ CallsSound' /\ TokensIssued' /\ EndedDead'
    BY <2>1, CallGone
  <2>3. leaving' \in BOOLEAN
    BY <1>2 DEF PollDone
  <2>4. TypeOK'
    BY <2>1, <2>2, <2>3 DEF IInv, TypeOK, serverVars, authVars
  <2>5. CheckComesFirst'
    BY <2>1 DEF IInv, CheckComesFirst, authVars
  <2> QED BY <2>2, <2>4, <2>5 DEF IInv
<1>3. CASE LoginDone(c)
  <2>1. calls' = calls \ {c} /\ c.kind = "login" /\ submitting' = FALSE
        /\ UNCHANGED <<serverVars, loading, leaving, loads, faults>>
    BY <1>3 DEF LoginDone
  <2>2. cookie' \in {cookie, c.token} /\ path' \in {path, "app"} /\ username' \in {username, c.user}
    BY <1>3 DEF LoginDone
  <2>3. c.token \in Tokens => c.token <= issued
    BY DEF IInv, TokensIssued
  <2>4. calls' \subseteq Call /\ CallsSound' /\ TokensIssued' /\ EndedDead'
    BY <2>1, <2>2, <2>3, CallGone
  <2>5. c.user \in Users \cup {None} /\ c.token \in Tokens \cup {None}
    BY DEF Call
  <2>6. cookie' \in Tokens \cup {None} /\ path' \in Paths
        /\ username' \in Users \cup {Placeholder, None}
    BY <2>2, <2>5 DEF IInv, TypeOK, Paths
  <2>7. TypeOK'
    BY <2>1, <2>4, <2>6 DEF IInv, TypeOK, serverVars
  <2>8. ~loading
    BY <2>1 DEF IInv, CheckComesFirst
  <2>9. CheckComesFirst'
    BY <2>1, <2>8 DEF IInv, CheckComesFirst
  <2> QED BY <2>4, <2>7, <2>9 DEF IInv
<1>4. CASE LogoutDone(c)
  <2>1. calls' = calls \ {c} /\ c.kind = "logout"
        /\ UNCHANGED <<serverVars, loading, submitting, loads, faults>>
    BY <1>4 DEF LogoutDone
  <2>2. cookie' \in {cookie, None} /\ username' \in {username, None}
    BY <1>4 DEF LogoutDone
  <2>3. path' \in Paths
    BY <1>4 DEF LogoutDone, Guarded, IInv, TypeOK, Paths
  <2>4. leaving' \in BOOLEAN
    BY <1>4 DEF LogoutDone
  <2>5. calls' \subseteq Call /\ CallsSound' /\ TokensIssued' /\ EndedDead'
    <3>1. cookie' \in Tokens => cookie' <= issued
      BY <2>2, ConsoleAssumption DEF Tokens
    <3> QED BY <2>1, <3>1, CallGone
  <2>6. TypeOK'
    BY <2>1, <2>2, <2>3, <2>4, <2>5 DEF IInv, TypeOK, serverVars
  <2>7. ~loading
    BY <2>1 DEF IInv, CheckComesFirst
  <2>8. CheckComesFirst'
    BY <2>1, <2>7 DEF IInv, CheckComesFirst
  <2> QED BY <2>5, <2>6, <2>8 DEF IInv
<1> QED BY <1>1, <1>2, <1>3, <1>4 DEF Deliver

\* The steps of the administrator, of other tabs and of time.
LEMMA OtherInductive ==
    ASSUME IInv,
           \/ \E t \in Tokens : Expire(t)
           \/ \E p \in Paths : Open(p)
           \/ Reload \/ Poll \/ ClickLogout \/ GoHome \/ OtherTabLogout
           \/ \E u \in Users : HandleSubmit(u) \/ OtherTabLogin(u)
    PROVE  IInv'
<1>1. ASSUME NEW t \in Tokens, Expire(t) PROVE IInv'
  <2>1. sessions' = [sessions EXCEPT ![t] = None]
        /\ UNCHANGED <<issued, cookie, path, authVars, submitting, leaving, calls, loads, faults>>
    BY <1>1 DEF Expire, Destroy
  <2>2. /\ sessions' \in [Tokens -> Users \cup {None}]
        /\ \A s \in Tokens : sessions'[s] \in {sessions[s], None}
    BY <2>1, SessionsType DEF IInv
  <2>3. TypeOK'
    BY <2>1, <2>2 DEF IInv, TypeOK, authVars
  <2>4. CheckComesFirst' /\ CallsSound' /\ TokensIssued'
    BY <2>1 DEF IInv, CheckComesFirst, CallsSound, TokensIssued, authVars
  <2>5. EndedDead'
    BY <2>1, <2>2 DEF IInv, EndedDead, Ended, Validate
  <2> QED BY <2>3, <2>4, <2>5 DEF IInv
<1>2. ASSUME NEW p \in Paths, Open(p) PROVE IInv'
  <2>1. loads' \in 0 .. MaxLoads
    BY <1>2, ConsoleAssumption DEF Open, IInv, TypeOK
  <2> QED BY <1>2, <2>1, LoadInductive DEF Open
<1>3. CASE Reload
  <2>1. loads' \in 0 .. MaxLoads
    BY <1>3 DEF Reload, IInv, TypeOK
  <2>2. "login" \in Paths
    BY DEF Paths
  <2> QED BY <1>3, <2>1, <2>2, LoadInductive DEF Reload
<1>4. CASE Poll
  <2>1. ~loading /\ "poll" \in Kinds \ {"check"} /\ submitting' \in BOOLEAN
    BY <1>4 DEF Poll, AppShown, Kinds, IInv, TypeOK
  <2> QED BY <1>4, <2>1, CallSent DEF Poll
<1>5. CASE ClickLogout
  <2>1. ~loading /\ "logout" \in Kinds \ {"check"} /\ submitting' \in BOOLEAN
    BY <1>5 DEF ClickLogout, AppShown, Kinds, IInv, TypeOK
  <2> QED BY <1>5, <2>1, CallSent DEF ClickLogout
<1>6. ASSUME NEW u \in Users, HandleSubmit(u) PROVE IInv'
  <2>1. ~loading /\ "login" \in Kinds \ {"check"} /\ submitting' \in BOOLEAN
    BY <1>6 DEF HandleSubmit, FormShown, Kinds
  <2> QED BY <1>6, <2>1, CallSent DEF HandleSubmit
<1>7. CASE GoHome
  <2>1. path' \in Paths
    BY <1>7 DEF GoHome, Guarded, Paths
  <2>2. TypeOK'
    BY <1>7, <2>1 DEF GoHome, IInv, TypeOK, serverVars, authVars
  <2>3. CheckComesFirst' /\ CallsSound' /\ TokensIssued' /\ EndedDead'
    BY <1>7 DEF GoHome, IInv, CheckComesFirst, CallsSound, TokensIssued, EndedDead, Ended,
       Validate, serverVars, authVars
  <2> QED BY <2>2, <2>3 DEF IInv
<1>8. ASSUME NEW u \in Users, OtherTabLogin(u) PROVE IInv'
  <2>1. /\ sessions' = [sessions EXCEPT ![issued + 1] = u] /\ issued' = issued + 1
        /\ issued < MaxSessions /\ cookie' = issued + 1
        /\ UNCHANGED <<path, authVars, submitting, leaving, calls, loads, faults>>
    BY <1>8 DEF OtherTabLogin, Create
  <2>2. issued + 1 \in Tokens /\ issued \in Nat
    BY <2>1, ConsoleAssumption DEF IInv, TypeOK, Tokens
  <2>3. /\ sessions' \in [Tokens -> Users \cup {None}]
        /\ \A s \in Tokens \ {issued + 1} : sessions'[s] = sessions[s]
    BY <2>1, <2>2, SessionsType DEF IInv
  <2>4. TypeOK'
    BY <2>1, <2>2, <2>3, ConsoleAssumption DEF IInv, TypeOK, authVars, Tokens
  <2>5. CheckComesFirst' /\ CallsSound'
    BY <2>1 DEF IInv, CheckComesFirst, CallsSound, authVars
  <2>6. TokensIssued'
    BY <2>1, <2>2 DEF IInv, TokensIssued, Tokens
  <2>7. \A x \in calls : x.token \in Tokens => x.token # issued + 1
    BY <2>2 DEF IInv, TokensIssued, Tokens
  <2>8. EndedDead'
    BY <2>1, <2>3, <2>7 DEF IInv, EndedDead, Ended, Validate
  <2> QED BY <2>4, <2>5, <2>6, <2>8 DEF IInv
<1>9. CASE OtherTabLogout
  <2>1. /\ cookie \in Tokens /\ sessions' = [sessions EXCEPT ![cookie] = None] /\ cookie' = None
        /\ UNCHANGED <<issued, path, authVars, submitting, leaving, calls, loads, faults>>
    BY <1>9 DEF OtherTabLogout, Destroy, Validate
  <2>2. /\ sessions' \in [Tokens -> Users \cup {None}]
        /\ \A s \in Tokens : sessions'[s] \in {sessions[s], None}
    BY <2>1, SessionsType DEF IInv
  <2>3. TypeOK'
    BY <2>1, <2>2 DEF IInv, TypeOK, authVars
  <2>4. CheckComesFirst' /\ CallsSound'
    BY <2>1 DEF IInv, CheckComesFirst, CallsSound, authVars
  <2>5. TokensIssued'
    BY <2>1, ConsoleAssumption DEF IInv, TokensIssued, Tokens
  <2>6. EndedDead'
    BY <2>1, <2>2 DEF IInv, EndedDead, Ended, Validate
  <2> QED BY <2>3, <2>4, <2>5, <2>6 DEF IInv
<1> QED BY <1>1, <1>2, <1>3, <1>4, <1>5, <1>6, <1>7, <1>8, <1>9

\* Every step keeps the invariant.
LEMMA StepIInv == IInv /\ [Next]_vars => IInv'
<1> SUFFICES ASSUME IInv, [Next]_vars PROVE IInv'
  OBVIOUS
<1>1. ASSUME NEW c \in calls, ServerStep(c) \/ Fault(c) PROVE IInv'
  BY <1>1, ServerInductive
<1>2. ASSUME NEW c \in calls, Deliver(c) PROVE IInv'
  BY <1>2, DeliverInductive
<1>3. CASE UNCHANGED vars
  BY <1>3 DEF vars, IInv, TypeOK, CheckComesFirst, CallsSound, TokensIssued, EndedDead, Ended, Validate
<1> QED BY <1>1, <1>2, <1>3, OtherInductive DEF Next

LEMMA IInvAlways == Spec => []IInv
  BY InitIInv, StepIInv, PTL DEF Spec

\* The console and the sessions keep their types.
THEOREM TypeOKCorrect == Spec => []TypeOK
<1>1. IInv => TypeOK
  BY DEF IInv
<1> QED BY <1>1, IInvAlways, PTL

\* The first check of a document and a login cannot cross (auth-provider.tsx).
THEOREM CheckFirst == Spec => []CheckComesFirst
<1>1. IInv => CheckComesFirst
  BY DEF IInv
<1> QED BY <1>1, IInvAlways, PTL

\* Only a new document or a logout that was granted drops the name.  A check
\* that fails finds no name to drop, by CheckComesFirst.
THEOREM LoginStays == Spec => LoginNotUndone
<1> DEFINE A == username # None /\ username' = None =>
                  \/ loading'
                  \/ \E c \in calls : c.kind = "logout" /\ c.status = 200
<1>1. ASSUME IInv, [Next]_vars PROVE [A]_vars
  <2> SUFFICES ASSUME Next, username # None, username' = None, ~loading'
               PROVE  \E c \in calls : c.kind = "logout" /\ c.status = 200
    BY <1>1
  <2>1. ASSUME NEW c \in calls, ServerStep(c) \/ Fault(c) PROVE FALSE
    BY <2>1 DEF ServerStep, Refuse, Serve, Logout, Login, Fault, authVars
  <2>2. ASSUME NEW c \in calls, CheckAuth(c) PROVE FALSE
    BY <1>1, <2>2 DEF CheckAuth, IInv, CheckComesFirst
  <2>3. ASSUME NEW c \in calls, PollDone(c) PROVE FALSE
    BY <2>3 DEF PollDone, authVars
  <2>4. ASSUME NEW c \in calls, LoginDone(c) PROVE FALSE
    BY <1>1, <2>4, ConsoleAssumption DEF LoginDone, IInv, CallsSound
  <2>5. ASSUME NEW c \in calls, LogoutDone(c) PROVE c.kind = "logout" /\ c.status = 200
    BY <2>5 DEF LogoutDone
  <2>6. ASSUME NEW p \in Paths, Open(p) PROVE FALSE
    BY <2>6 DEF Open, Load
  <2>7. CASE Reload
    BY <2>7 DEF Reload, Load
  <2>8. ASSUME \/ Poll \/ ClickLogout \/ GoHome \/ OtherTabLogout
               \/ \E t \in Tokens : Expire(t)
               \/ \E u \in Users : HandleSubmit(u) \/ OtherTabLogin(u)
        PROVE  FALSE
    BY <2>8 DEF Poll, ClickLogout, GoHome, OtherTabLogout, Expire, HandleSubmit, OtherTabLogin, authVars
  <2> QED BY <2>1, <2>2, <2>3, <2>4, <2>5, <2>6, <2>7, <2>8 DEF Next, Deliver
<1> QED BY <1>1, IInvAlways, PTL DEF Spec, LoginNotUndone

\* A logout that was granted leaves a session that no request can use.
THEOREM LogoutEnds == Spec => LogoutEndsSession
<1> DEFINE A == \A c \in calls : LogoutDone(c) /\ c.status = 200 => ~Validate(c.token)
<1>1. ASSUME IInv PROVE A
  BY <1>1 DEF LogoutDone, IInv, EndedDead, Ended
<1> QED BY <1>1, IInvAlways, PTL DEF LogoutEndsSession

\* Only a call that carried another cookie throws a live session out: a call
\* with the cookie of the browser is refused after that session's end.
THEOREM ThrownOut == Spec => ThrownOutByOldCall
<1> DEFINE A == ~leaving /\ leaving' /\ Validate(cookie) =>
                  \E c \in calls \ calls' : c.status = 401 /\ c.token # cookie
<1>1. ASSUME IInv, [Next]_vars PROVE [A]_vars
  <2> SUFFICES ASSUME Next, ~leaving, leaving', Validate(cookie)
               PROVE  \E c \in calls \ calls' : c.status = 401 /\ c.token # cookie
    BY <1>1
  <2>1. ASSUME NEW c \in calls, calls' = calls \ {c}, Redirects(c)
        PROVE  c \in calls \ calls' /\ c.status = 401 /\ c.token # cookie
    BY <1>1, <2>1 DEF Redirects, IInv, EndedDead, Ended
  <2>2. ASSUME NEW c \in calls, CheckAuth(c) \/ PollDone(c) \/ LogoutDone(c)
        PROVE  calls' = calls \ {c} /\ Redirects(c)
    BY <2>2 DEF CheckAuth, PollDone, LogoutDone
  <2>3. ASSUME NEW c \in calls, ServerStep(c) \/ Fault(c) \/ LoginDone(c) PROVE FALSE
    BY <2>3 DEF ServerStep, Refuse, Serve, Logout, Login, Fault, LoginDone
  <2>4. ASSUME \/ Reload \/ Poll \/ ClickLogout \/ GoHome \/ OtherTabLogout
               \/ \E t \in Tokens : Expire(t)
               \/ \E p \in Paths : Open(p)
               \/ \E u \in Users : HandleSubmit(u) \/ OtherTabLogin(u)
        PROVE  FALSE
    BY <2>4 DEF Reload, Open, Load, Poll, ClickLogout, GoHome, OtherTabLogout, Expire,
       HandleSubmit, OtherTabLogin
  <2> QED BY <2>1, <2>2, <2>3, <2>4 DEF Next, Deliver
<1> QED BY <1>1, IInvAlways, PTL DEF Spec, ThrownOutByOldCall

=============================================================================
