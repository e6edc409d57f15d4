------------------------- MODULE WebSession_proofs -------------------------
(***************************************************************************)
(* Proofs about WebSession for any number of sessions, requests in flight  *)
(* and lost streams.                                                       *)
(*                                                                         *)
(* StreamKept is about a page that is logged in; it holds because of how   *)
(* the page came to be so.  A login connects the stream; an answer of      *)
(* GET /api/me does not, so it counts only when the stream is not stopped. *)
(* After that the stream of such a page is stopped by a logout only, of    *)
(* its user or of a 401 (Kept), and one that is not stopped always has     *)
(* something that will open it (Alive).                                    *)
(***************************************************************************)
EXTENDS WebSession, TLAPS

Kinds == {"free", "me", "login", "logout", "data", "password", "probe", "profile", "reloadUser"}
Page == [ready : BOOLEAN, logged : BOOLEAN, demo : BOOLEAN, http : BOOLEAN, late : BOOLEAN]
States == {"out", "ok", "denied", "wrong", "failed"}

SSE == [stopped : BOOLEAN, es : {"none", "opening", "open"}, ghosts : Nat,
        timer : BOOLEAN, fails : 0..MAX_AUTH_FAILS]
Req == [kind : Kinds, cookie : 0..logins, st : States]

\* The types of the records, which TypeOK leaves to their uses.
Typed ==
  /\ page \in Page
  /\ sse \in SSE
  /\ req \in [Slots -> Req]
  /\ logins \in 0..MaxLogins /\ cookie \in 0..logins /\ live \subseteq 1..logins

\* A stream that was stopped is at rest, and one that was not stopped was not
\* given up either.
Rest ==
  /\ sse.stopped => sse.es = "none" /\ ~sse.timer
  /\ sse.fails = MAX_AUTH_FAILS => sse.stopped

\* A stream that was not stopped is there, or something will open it.
Retried(s, r) == s.es # "none" \/ s.timer \/ \E i \in Slots : r[i].kind = "probe"

Alive == ~sse.stopped => Retried(sse, req)

\* The stream of a page that is logged in was stopped only for a reason.
Kept ==
  page.logged /\ ~page.demo /\ ~page.late /\ (\A i \in Slots : req[i].kind # "logout")
    => ~sse.stopped

IInv == Typed /\ Rest /\ Alive /\ Kept

LEMMA Opened ==
  ASSUME NEW s \in SSE, ~s.stopped
  PROVE  /\ openStream(s) \in SSE
         /\ ~openStream(s).stopped /\ openStream(s).es = "opening" /\ openStream(s).fails = s.fails
<1> DEFINE o == openStream(s)
           n == s.ghosts + IF s.es = "none" THEN 0 ELSE 1
<1>1. n \in Nat
  BY DEF SSE
<1>2. o = [s EXCEPT !.es = "opening", !.ghosts = n]
  BY DEF openStream
<1> HIDE DEF n, o
<1>3. o \in SSE /\ o.es = "opening" /\ o.stopped = s.stopped /\ o.fails = s.fails
  BY <1>1, <1>2 DEF SSE
<1> QED BY <1>3 DEF o

LEMMA Disconnected ==
  ASSUME NEW s \in SSE
  PROVE  /\ disconnectSSE(s) \in SSE
         /\ disconnectSSE(s).stopped /\ disconnectSSE(s).es = "none" /\ ~disconnectSSE(s).timer
  BY DEF SSE, disconnectSSE

LEMMA Connected ==
  ASSUME NEW s \in SSE
  PROVE  /\ connectSSE(s) \in SSE
         /\ ~connectSSE(s).stopped /\ connectSSE(s).es = "opening" /\ connectSSE(s).fails = 0
<1> DEFINE d == disconnectSSE(s)
           c == [d EXCEPT !.stopped = FALSE, !.fails = 0]
<1>1. d \in SSE
  BY Disconnected
<1> HIDE DEF d
<1>2. 0 \in 0..MAX_AUTH_FAILS
  BY DEF MAX_AUTH_FAILS
<1>3. c \in SSE /\ c.stopped = FALSE /\ c.fails = 0
  BY <1>1, <1>2 DEF SSE
<1>4. connectSSE(s) = openStream(c)
  BY DEF connectSSE, d
<1> HIDE DEF c
<1> QED BY <1>3, <1>4, Opened

LEMMA Started ==
  /\ Stopped \in SSE
  /\ connectSSE(Stopped) \in SSE /\ ~connectSSE(Stopped).stopped
  /\ connectSSE(Stopped).es = "opening" /\ connectSSE(Stopped).fails = 0
<1>1. Stopped \in SSE
  BY DEF Stopped, SSE, MAX_AUTH_FAILS
<1> QED BY <1>1, Connected

LEMMA Sent ==
  ASSUME Typed, NEW k \in Kinds, NEW i \in Slots
  PROVE  /\ [req EXCEPT ![i] = Request(k)] \in [Slots -> Req]
         /\ [req EXCEPT ![i] = Free] \in [Slots -> Req]
  BY WebSessionAssumption DEF Typed, Kinds, States, Req, Request, Free

LEMMA InitStep ==
  Init => IInv
<1> SUFFICES ASSUME Init PROVE IInv
  OBVIOUS
<1> USE WebSessionAssumption
<1>1. sse \in SSE /\ ~sse.stopped /\ sse.es = "opening" /\ sse.fails = 0
  BY Started DEF Init
<1>2. logins \in 0..MaxLogins /\ cookie \in 0..logins /\ live \subseteq 1..logins /\ 0 \in 0..logins
  BY DEF Init
<1>3. req \in [Slots -> Req]
  BY <1>2 DEF Init, Req, Kinds, States, Request, Free
<1>4. Typed
  BY <1>1, <1>2, <1>3 DEF Init, Typed, Page, Login
<1>5. Rest /\ Alive /\ Kept
  BY <1>1 DEF Init, Rest, Alive, Retried, Kept, Login, MAX_AUTH_FAILS
<1> QED BY <1>4, <1>5 DEF IInv

LEMMA ReloadStep ==
  ASSUME IInv, Reload PROVE IInv'
<1> USE WebSessionAssumption DEF IInv
<1> DEFINE saved == ~page.http
<1>1. saved \in BOOLEAN
  OBVIOUS
<1>2. /\ sse' \in SSE /\ sse'.fails = 0
      /\ saved => sse'.stopped /\ sse'.es = "none" /\ ~sse'.timer
      /\ ~saved => ~sse'.stopped /\ sse'.es = "opening"
  <2>1. CASE saved
    BY <2>1, Started DEF Reload, Boot, Stopped
  <2>2. CASE ~saved
    BY <2>2, Started DEF Reload, Boot
  <2> QED BY <2>1, <2>2
<1>3. req' \in [Slots -> Req]
  BY DEF Reload, Boot, Typed, Req, Kinds, States, Request, Free
<1>4. Typed'
  BY <1>1, <1>2, <1>3 DEF Typed, Page, Reload, Boot, Req
<1>5. Rest' /\ Alive' /\ Kept'
  BY <1>2 DEF Rest, Alive, Retried, Kept, Reload, Boot, MAX_AUTH_FAILS
<1> QED BY <1>4, <1>5

LEMMA LoginStep ==
  ASSUME IInv, login PROVE IInv'
<1> USE DEF IInv
<1>1. Typed'
  <2>1. CASE page.http
    BY <2>1, Sent DEF Typed, login, Kinds, Idle, InFlight, Req
  <2>2. CASE ~page.http
    BY <2>2, Connected, WebSessionAssumption DEF Typed, Page, login, Req
  <2> QED BY <2>1, <2>2
<1>2. Rest'
  BY Connected DEF Rest, login, Typed, MAX_AUTH_FAILS
<1>3. Alive'
  BY Connected DEF Alive, Retried, login, Typed, Idle, InFlight, Request
<1>4. Kept'
  BY Connected DEF Kept, login, Typed, Idle, InFlight, Request
<1> QED BY <1>1, <1>2, <1>3, <1>4

LEMMA LogoutStep ==
  ASSUME IInv, logout PROVE IInv'
<1> USE DEF IInv
<1>1. PICK i \in Slots : req[i].kind = "free" /\ req' = [req EXCEPT ![i] = Request("logout")]
  BY DEF logout, Idle, InFlight
<1>2. req' \in [Slots -> Req] /\ "logout" \in Kinds
  BY <1>1, Sent DEF Kinds
<1>3. /\ sse' \in SSE /\ sse'.stopped /\ sse'.es = "none" /\ ~sse'.timer
  BY Disconnected DEF logout, Typed
<1>4. Typed'
  BY <1>2, <1>3 DEF Typed, logout, Req
<1>5. Rest' /\ Alive'
  BY <1>1, <1>3 DEF Typed, Rest, Alive, Retried, logout, Request
<1>6. Kept'
  BY <1>1, <1>3 DEF Typed, Kept, logout, Request
<1> QED BY <1>4, <1>5, <1>6

LEMMA AskStep ==
  ASSUME IInv, Ask PROVE IInv'
<1> USE DEF IInv
<1>1. PICK i \in Slots : req[i].kind = "free" /\ req' = [req EXCEPT ![i] = Request("data")]
  BY DEF Ask, Idle, InFlight
<1>2. req' \in [Slots -> Req] /\ "data" \in Kinds
  BY <1>1, Sent DEF Kinds
<1>3. sse' = sse
  BY DEF Ask
<1>4. Typed'
  BY <1>2, <1>3 DEF Typed, Ask, Req
<1>5. Rest' /\ Alive'
  BY <1>1, <1>3 DEF Typed, Rest, Alive, Retried, Ask, Request
<1>6. Kept'
  BY <1>1, <1>3 DEF Typed, Kept, Ask, Request
<1> QED BY <1>4, <1>5, <1>6

LEMMA ChangePassStep ==
  ASSUME IInv, changePass PROVE IInv'
<1> USE DEF IInv
<1>1. PICK i \in Slots : req[i].kind = "free" /\ req' = [req EXCEPT ![i] = Request("password")]
  BY DEF changePass, Idle, InFlight
<1>2. req' \in [Slots -> Req] /\ "password" \in Kinds
  BY <1>1, Sent DEF Kinds
<1>3. sse' = sse
  BY DEF changePass
<1>4. Typed'
  BY <1>2, <1>3 DEF Typed, changePass, Req
<1>5. Rest' /\ Alive'
  BY <1>1, <1>3 DEF Typed, Rest, Alive, Retried, changePass, Request
<1>6. Kept'
  BY <1>1, <1>3 DEF Typed, Kept, changePass, Request
<1> QED BY <1>4, <1>5, <1>6

LEMMA SaveProfileStep ==
  ASSUME IInv, saveProfile PROVE IInv'
<1> USE DEF IInv
<1>1. PICK i \in Slots : req[i].kind = "free" /\ req' = [req EXCEPT ![i] = Request("profile")]
  BY DEF saveProfile, Idle, InFlight
<1>2. req' \in [Slots -> Req] /\ "profile" \in Kinds
  BY <1>1, Sent DEF Kinds
<1>3. sse' = sse
  BY DEF saveProfile
<1>4. Typed'
  BY <1>2, <1>3 DEF Typed, saveProfile, Req
<1>5. Rest' /\ Alive'
  BY <1>1, <1>3 DEF Typed, Rest, Alive, Retried, saveProfile, Request
<1>6. Kept'
  BY <1>1, <1>3 DEF Typed, Kept, saveProfile, Request
<1> QED BY <1>4, <1>5, <1>6

LEMMA DemoStep ==
  ASSUME IInv, enterDemo \/ exitDemo PROVE IInv'
<1> USE DEF IInv
<1>1. CASE enterDemo
  <2>1. sse' \in SSE /\ sse'.stopped /\ sse'.es = "none" /\ ~sse'.timer
    BY <1>1, Disconnected DEF enterDemo, Typed
  <2>2. Typed'
    BY <1>1, <2>1 DEF enterDemo, Typed, Page, Req
  <2>3. Rest' /\ Alive' /\ Kept'
    BY <1>1, <2>1 DEF enterDemo, Rest, Alive, Kept
  <2> QED BY <2>2, <2>3
<1>2. CASE exitDemo
  <2>1. sse' \in SSE /\ ~sse'.stopped /\ sse'.es = "opening" /\ sse'.fails = 0
    BY <1>2, Connected DEF exitDemo, Typed
  <2>2. Typed'
    BY <1>2, <2>1 DEF exitDemo, Typed, Page, Req, Login
  <2>3. Rest' /\ Alive' /\ Kept'
    BY <1>2, <2>1 DEF exitDemo, Rest, Alive, Retried, Kept, Login, MAX_AUTH_FAILS
  <2> QED BY <2>2, <2>3
<1> QED BY <1>1, <1>2

LEMMA ExpireStep ==
  ASSUME IInv, Expire PROVE IInv'
  BY DEF IInv, Expire, Typed, Rest, Alive, Retried, Kept, Req

\* The server knows nothing of the page; a request keeps its kind.
LEMMA ServeStep ==
  ASSUME IInv, NEW i \in Slots, NEW arrives \in BOOLEAN, Serve(i, arrives) PROVE IInv'
<1> USE DEF IInv
<1>1. PICK st \in {"ok", "denied", "wrong"} :
        /\ req[i].kind = "login" /\ st = "ok" => logins < MaxLogins
        /\ LET new == IF req[i].kind = "login" /\ st = "ok" THEN logins + 1 ELSE 0
           IN /\ req' = [req EXCEPT ![i].st = IF arrives THEN st ELSE "failed",
                                    ![i].cookie = IF arrives THEN new ELSE 0]
              /\ logins' = IF new = 0 THEN logins ELSE new
              /\ live' \in CASE new # 0 -> {live \cup {new}}
                             [] req[i].kind = "logout" /\ st = "ok" ->
                                    {live, live \ {req[i].cookie}}
                             [] req[i].kind = "password" /\ st = "ok" -> {{req[i].cookie}}
                             [] OTHER -> {live}
        /\ req[i].kind # "login" /\ req[i].cookie \notin live => st = "denied"
  BY DEF Serve
<1> DEFINE new == IF req[i].kind = "login" /\ st = "ok" THEN logins + 1 ELSE 0
           to == IF arrives THEN st ELSE "failed"
           has == IF arrives THEN new ELSE 0
<1>2. UNCHANGED <<page, sse, cookie>>
  BY DEF Serve
<1>3. req[i] \in Req /\ logins \in Nat /\ cookie \in Nat /\ live \subseteq 1..logins
  BY WebSessionAssumption DEF Typed
<1>4. req' = [req EXCEPT ![i].st = to, ![i].cookie = has]
  BY <1>1
<1>5. /\ logins' \in 0..MaxLogins /\ logins <= logins' /\ to \in States /\ has \in 0..logins'
      /\ new \in Nat /\ (new # 0 => new = logins')
  BY <1>1, <1>3, WebSessionAssumption DEF States, Typed
<1>6. live' \subseteq 1..logins'
  <2>1. CASE new # 0
    BY <1>1, <1>3, <1>5, <2>1
  <2>2. CASE new = 0
    <3>1. live' \subseteq live
      BY <1>1, <2>2
    <3> QED BY <1>3, <1>5, <3>1
  <2> QED BY <2>1, <2>2
<1> HIDE DEF to, has, new
<1>7. req' \in [Slots -> Req']
  <2>1. [req[i] EXCEPT !.st = to, !.cookie = has] \in Req'
    BY <1>3, <1>5 DEF Req
  <2>2. \A j \in Slots : req[j] \in Req'
    BY <1>3, <1>5 DEF Req, Typed
  <2>3. req' = [req EXCEPT ![i] = [req[i] EXCEPT !.st = to, !.cookie = has]]
    BY <1>3, <1>4 DEF Req, Typed
  <2> QED BY <2>1, <2>2, <2>3 DEF Typed
<1>8. Typed'
  BY <1>2, <1>3, <1>5, <1>6, <1>7 DEF Typed
<1>9. \A j \in Slots : req'[j].kind = req[j].kind
  BY <1>3, <1>4 DEF Typed, Req
<1> QED
  BY <1>2, <1>8, <1>9 DEF Rest, Alive, Retried, Kept

LEMMA FailStep ==
  ASSUME IInv, NEW i \in Slots, Fail(i) PROVE IInv'
<1> USE DEF IInv
<1>1. Typed'
  <2>1. 0 \in 0..logins /\ "failed" \in States
    BY WebSessionAssumption DEF Typed, States
  <2> QED BY <2>1 DEF Fail, Typed, Req
<1>2. \A j \in Slots : /\ req'[j].kind = req[j].kind /\ (j # i => req'[j] = req[j])
                       /\ (j = i => req'[j].st = "failed")
  BY DEF Fail, Typed, Req
<1>3. Rest' /\ Alive' /\ Kept'
  BY <1>2 DEF Fail, Rest, Alive, Retried, Kept
<1> QED BY <1>1, <1>3

\* What a probe does to the stream that it is about.
LEMMA Probed ==
  ASSUME Typed, Rest, NEW st \in States
  PROVE  LET p == probeAndRetry(sse, st)
         IN  /\ p \in SSE
             /\ GivesUp(sse, st) => st = "denied" /\ p.stopped /\ p.es = "none" /\ ~p.timer
             /\ ~GivesUp(sse, st) =>
                  /\ p.stopped = sse.stopped /\ p.es = sse.es
                  /\ p.fails = MAX_AUTH_FAILS => p.stopped
                  /\ IF sse.stopped THEN p.timer = sse.timer ELSE p.timer
<1> DEFINE fails == CASE st = "ok" -> 0 [] st = "denied" -> sse.fails + 1 [] OTHER -> sse.fails
           t == [sse EXCEPT !.fails = fails]
<1>1. sse \in SSE /\ sse.fails \in 0..3 /\ MAX_AUTH_FAILS = 3 /\ (sse.fails = 3 => sse.stopped)
  BY DEF Typed, SSE, Rest, MAX_AUTH_FAILS
<1>2. probeAndRetry(sse, st) =
        IF sse.stopped THEN IF st = "ok" THEN t ELSE sse
        ELSE IF st = "denied" /\ fails >= 3 THEN disconnectSSE(t)
        ELSE scheduleRetry(t)
  BY <1>1 DEF probeAndRetry
<1>3. CASE sse.stopped
  <2>1. ~GivesUp(sse, st)
    BY <1>3 DEF GivesUp
  <2>2. CASE st = "ok"
    <3> DEFINE p == [sse EXCEPT !.fails = 0]
    <3>1. probeAndRetry(sse, st) = p
      BY <1>2, <1>3, <2>2
    <3>2. p \in SSE /\ p.stopped = sse.stopped /\ p.es = sse.es /\ p.timer = sse.timer
      BY <1>1 DEF SSE
    <3> HIDE DEF p
    <3> QED
      BY <1>3, <2>1, <3>1, <3>2
  <2>3. CASE st # "ok"
    <3>1. probeAndRetry(sse, st) = sse
      BY <1>2, <1>3, <2>3
    <3> QED
      BY <1>1, <1>3, <2>1, <3>1
  <2> QED BY <2>2, <2>3
<1>4. CASE ~sse.stopped
  <2>1. fails \in 0..3 /\ (GivesUp(sse, st) <=> st = "denied" /\ fails >= 3) /\ (fails = 3 => GivesUp(sse, st))
    BY <1>1, <1>4 DEF GivesUp
  <2> HIDE DEF fails
  <2>2. t \in SSE /\ ~t.stopped /\ t.es = sse.es /\ t.fails = fails
    BY <1>1, <1>4, <2>1 DEF SSE
  <2> HIDE DEF t
  <2>3. CASE GivesUp(sse, st)
    BY <1>2, <1>4, <2>1, <2>2, <2>3, Disconnected
  <2>4. CASE ~GivesUp(sse, st)
    <3>1. probeAndRetry(sse, st) = [t EXCEPT !.timer = TRUE]
      BY <1>2, <1>4, <2>1, <2>2, <2>4 DEF scheduleRetry
    <3> QED
      BY <1>1, <1>4, <2>1, <2>2, <2>4, <3>1 DEF SSE
  <2> QED BY <2>3, <2>4
<1> QED BY <1>3, <1>4

\* A 401: of a request, or of the probe that gives the stream up.
LEMMA ExpiredStep ==
  ASSUME IInv, NEW i \in Slots, NEW s \in SSE, Expired(i, s),
         UNCHANGED <<page, cookie, live, logins>>,
         \/ req[i].kind \in {"data", "password", "profile", "reloadUser"} /\ s = sse
         \/ req[i].kind = "probe" /\ req[i].st = "denied" /\ s.stopped /\ s.es = "none" /\ ~s.timer
  PROVE  IInv'
<1> USE DEF IInv
<1>1. CASE page.logged /\ ~page.demo
  <2>1. sse' = disconnectSSE(s) /\ req' = [req EXCEPT ![i] = Request("logout")]
    BY <1>1 DEF Expired
  <2>2. sse' \in SSE /\ sse'.stopped /\ sse'.es = "none" /\ ~sse'.timer
    BY <2>1, Disconnected
  <2>3. req' \in [Slots -> Req]
    BY <2>1, Sent DEF Kinds
  <2>4. Typed'
    BY <2>2, <2>3 DEF Typed, Req
  <2>5. req'[i].kind = "logout"
    BY <2>1 DEF Request, Typed
  <2>6. Rest' /\ Alive' /\ Kept'
    BY <2>2, <2>5 DEF Rest, Alive, Kept
  <2> QED BY <2>4, <2>6
<1>2. CASE ~(page.logged /\ ~page.demo)
  <2>1. sse' = s /\ req' = [req EXCEPT ![i] = Free]
    BY <1>2 DEF Expired
  <2>2. req' \in [Slots -> Req]
    BY <2>1, Sent DEF Kinds
  <2>3. Typed'
    BY <2>1, <2>2 DEF Typed, Req
  <2>4. Rest' /\ Alive' /\ Kept'
    BY <1>2, <2>1, <2>3 DEF Typed, SSE, Rest, Alive, Retried, Kept, MAX_AUTH_FAILS
  <2> QED BY <2>3, <2>4
<1> QED BY <1>1, <1>2

\* An answer that frees its slot and leaves the session as it is.
LEMMA FreedStep ==
  ASSUME IInv, NEW i \in Slots, req[i].kind \notin {"probe", "logout"},
         req' = [req EXCEPT ![i] = Free], UNCHANGED <<page, sse, cookie, live, logins>>
  PROVE  IInv'
<1> USE DEF IInv
<1>1. Typed'
  BY Sent DEF Typed, Req, Kinds
<1>2. \A j \in Slots : req'[j] = IF j = i THEN Free ELSE req[j]
  BY DEF Typed
<1>3. Rest' /\ Alive' /\ Kept'
  BY <1>2 DEF Rest, Alive, Retried, Kept, Free
<1> QED BY <1>1, <1>3

\* An answer that changes who the page's user is, but logs nobody in late
\* without saying so.
LEMMA UserStep ==
  ASSUME IInv, NEW i \in Slots, req[i].kind \notin {"probe", "logout"},
         req' = [req EXCEPT ![i] = Free], UNCHANGED <<sse, cookie, live, logins>>, page' \in Page,
         \/ page'.logged => page'.late \/ ~sse.stopped
         \/ page.logged /\ page'.demo = page.demo /\ page'.late = page.late
  PROVE  IInv'
<1> USE DEF IInv
<1>1. Typed'
  BY Sent DEF Typed, Req, Kinds
<1>2. \A j \in Slots : req'[j] = IF j = i THEN Free ELSE req[j]
  BY DEF Typed
<1>3. Rest' /\ Alive' /\ Kept'
  BY <1>2 DEF Rest, Alive, Retried, Kept, Free
<1> QED BY <1>1, <1>3

\* setUser keeps a page that is logged in as it is.
LEMMA SetUserIs ==
  ASSUME Typed, setUser
  PROVE  /\ page' \in Page
         /\ \/ page'.logged => page'.late \/ ~sse.stopped
            \/ page.logged /\ page'.demo = page.demo /\ page'.late = page.late
  BY DEF Typed, setUser, Page, SSE

LEMMA DeliverStep ==
  ASSUME IInv, NEW i \in Slots, Deliver(i) PROVE IInv'
<1>1. CASE DataAnswered(i)
  <2>1. CASE req[i].st = "denied"
    BY <1>1, <2>1, ExpiredStep DEF DataAnswered, IInv, Typed
  <2>2. CASE req[i].st # "denied"
    BY <1>1, <2>2, FreedStep DEF DataAnswered
  <2> QED BY <2>1, <2>2
<1>2. CASE PasswordAnswered(i)
  <2>1. CASE req[i].st \in {"denied", "wrong"}
    BY <1>2, <2>1, ExpiredStep DEF PasswordAnswered, IInv, Typed
  <2>2. CASE req[i].st \notin {"denied", "wrong"}
    BY <1>2, <2>2, FreedStep DEF PasswordAnswered
  <2> QED BY <2>1, <2>2
<1>3. CASE MeAnswered(i)
  <2>1. /\ req[i].kind = "me" /\ req' = [req EXCEPT ![i] = Free]
        /\ UNCHANGED <<sse, cookie, live, logins>>
        /\ page' \in Page /\ (page'.logged => page'.late \/ ~sse.stopped)
    BY <1>3 DEF MeAnswered, IInv, Typed, Page
  <2> QED BY <2>1, UserStep
<1>4. CASE LoginAnswered(i)
  <2>1. CASE req[i].st = "ok"
    <3> USE DEF IInv
    <3>1. sse' \in SSE /\ ~sse'.stopped /\ sse'.es = "opening" /\ sse'.fails = 0
      BY <1>4, <2>1, Connected DEF LoginAnswered, Typed
    <3>2. cookie' \in 0..logins
      BY <1>4, <2>1 DEF LoginAnswered, Typed, Req
    <3>3. Typed'
      <4>1. req' \in [Slots -> Req]
        BY <1>4, <2>1, Sent DEF LoginAnswered, Kinds
      <4>2. page' \in Page
        BY <1>4, <2>1 DEF LoginAnswered, Typed, Page
      <4> QED
        BY <1>4, <2>1, <3>1, <3>2, <4>1, <4>2 DEF LoginAnswered, Typed, Req
    <3>4. \A j \in Slots : req'[j] = IF j = i THEN Free ELSE req[j]
      BY <1>4 DEF LoginAnswered, Typed
    <3>6. Rest' /\ Alive' /\ Kept'
      BY <3>1 DEF Rest, Alive, Retried, Kept, MAX_AUTH_FAILS
    <3> QED BY <3>3, <3>6
  <2>2. CASE req[i].st # "ok"
    BY <1>4, <2>2, FreedStep DEF LoginAnswered
  <2> QED BY <2>1, <2>2
<1>5. CASE LogoutAnswered(i)
  <2> USE DEF IInv
  <2>1. Typed'
    <3>1. req' \in [Slots -> Req]
      BY <1>5, Sent DEF LogoutAnswered, Kinds
    <3>2. page' \in Page
      BY <1>5 DEF LogoutAnswered, Typed, Page
    <3>3. cookie' \in 0..logins
      BY <1>5, WebSessionAssumption DEF LogoutAnswered, Typed
    <3> QED
      BY <1>5, <3>1, <3>2, <3>3 DEF LogoutAnswered, Typed, Req
  <2>2. \A j \in Slots : req'[j] = IF j = i THEN Free ELSE req[j]
    BY <1>5 DEF LogoutAnswered, Typed
  <2>4. Rest' /\ Alive' /\ Kept'
    BY <1>5, <2>1, <2>2 DEF LogoutAnswered, Typed, Page, Rest, Free, Alive, Retried, Kept
  <2> QED BY <2>1, <2>4
<1>6. CASE ProbeAnswered(i)
  <2> DEFINE p == probeAndRetry(sse, req[i].st)
  <2>1. req[i].st \in States
    BY DEF IInv, Typed, Req
  <2>2. CASE GivesUp(sse, req[i].st)
    BY <1>6, <2>1, <2>2, Probed, ExpiredStep DEF ProbeAnswered, IInv
  <2>3. CASE ~GivesUp(sse, req[i].st)
    <3> USE DEF IInv
    <3>1. sse' = p /\ req' = [req EXCEPT ![i] = Free] /\ UNCHANGED <<page, cookie, live, logins>>
      BY <1>6, <2>3 DEF ProbeAnswered
    <3>2. /\ sse' \in SSE /\ sse'.stopped = sse.stopped /\ sse'.es = sse.es
          /\ sse'.fails = MAX_AUTH_FAILS => sse'.stopped
          /\ IF sse.stopped THEN sse'.timer = sse.timer ELSE sse'.timer
      BY <2>1, <2>3, <3>1, Probed
    <3>3. Typed'
      BY <3>1, <3>2, Sent DEF Typed, Req, Kinds
    <3>4. \A j \in Slots : req'[j] = IF j = i THEN Free ELSE req[j]
      BY <3>1 DEF Typed
    <3>5. \A j \in Slots : req[j].kind = "logout" <=> req'[j].kind = "logout"
      BY <1>6, <3>4 DEF ProbeAnswered, Free
    <3>6. Rest' /\ Alive' /\ Kept'
      BY <3>1, <3>2, <3>5 DEF Rest, Alive, Retried, Kept
    <3> QED BY <3>3, <3>6
  <2> QED BY <2>2, <2>3
<1>7. CASE ProfileAnswered(i)
  <2>1. CASE req[i].st = "denied"
    BY <1>7, <2>1, ExpiredStep DEF ProfileAnswered, IInv, Typed
  <2>2. CASE req[i].st = "ok" /\ page.http
    <3> USE DEF IInv
    <3>1. req' = [req EXCEPT ![i] = Request("reloadUser")] /\ req[i].kind = "profile"
          /\ UNCHANGED <<page, sse, cookie, live, logins>>
      BY <1>7, <2>2 DEF ProfileAnswered, Typed
    <3>2. "reloadUser" \in Kinds
      BY DEF Kinds
    <3>3. Typed'
      BY <3>1, <3>2, Sent DEF Typed, Req
    <3>4. \A j \in Slots : req'[j] = IF j = i THEN Request("reloadUser") ELSE req[j]
      BY <3>1 DEF Typed
    <3>5. Rest' /\ Alive' /\ Kept'
      BY <3>1, <3>4 DEF Rest, Alive, Retried, Kept, Request
    <3> QED BY <3>3, <3>5
  <2>3. CASE req[i].st = "ok" /\ ~page.http
    BY <1>7, <2>3, SetUserIs, UserStep DEF ProfileAnswered, IInv
  <2>4. CASE req[i].st \notin {"ok", "denied"}
    BY <1>7, <2>4, FreedStep DEF ProfileAnswered
  <2> QED BY <2>1, <2>2, <2>3, <2>4
<1>8. CASE reloadUser(i)
  <2>1. CASE req[i].st = "denied"
    BY <1>8, <2>1, ExpiredStep DEF reloadUser, IInv, Typed
  <2>2. CASE req[i].st = "ok"
    BY <1>8, <2>2, SetUserIs, UserStep DEF reloadUser, IInv
  <2>3. CASE req[i].st \notin {"ok", "denied"}
    BY <1>8, <2>3, FreedStep DEF reloadUser
  <2> QED BY <2>1, <2>2, <2>3
<1> QED BY <1>1, <1>2, <1>3, <1>4, <1>5, <1>6, <1>7, <1>8 DEF Deliver

LEMMA ErrorStep ==
  ASSUME IInv, NEW n \in Nat, onerror(n) PROVE IInv'
<1> USE DEF IInv
<1>1. sse' \in SSE /\ sse'.stopped = sse.stopped /\ sse'.es = "none" /\ sse'.timer = sse.timer /\ sse'.fails = sse.fails
  BY DEF onerror, Typed, SSE
<1>2. CASE sse.stopped
  <2>1. UNCHANGED <<req, page, cookie, live, logins>>
    BY <1>2 DEF onerror
  <2> QED BY <1>1, <1>2, <2>1 DEF Typed, Req, Rest, Alive, Retried, Kept
<1>3. CASE ~sse.stopped
  <2>1. PICK i \in Slots : req[i].kind = "free" /\ req' = [req EXCEPT ![i] = Request("probe")]
    BY <1>3 DEF onerror, Idle, InFlight
  <2>2. Typed'
    BY <1>1, <2>1, Sent DEF onerror, Typed, Req, Kinds
  <2>3. \A j \in Slots : req'[j] = IF j = i THEN Request("probe") ELSE req[j]
    BY <2>1 DEF Typed
  <2>4. Rest' /\ Alive' /\ Kept'
    BY <1>1, <1>3, <2>1, <2>3 DEF onerror, Rest, Alive, Retried, Kept, Request
  <2> QED BY <2>2, <2>4
<1> QED BY <1>2, <1>3

LEMMA BrowserStep ==
  ASSUME IInv, StreamOpens \/ StreamFails \/ GhostFails \/ GhostOpens \/ RetryTimer PROVE IInv'
<1>1. CASE StreamOpens \/ GhostOpens
  <2> USE DEF IInv
  <2>1. 0 \in 0..MAX_AUTH_FAILS /\ 0 # MAX_AUTH_FAILS
    BY DEF MAX_AUTH_FAILS
  <2>2. /\ sse' \in SSE /\ sse'.stopped = sse.stopped /\ sse'.timer = sse.timer /\ sse'.fails = 0
        /\ sse'.es = "none" <=> sse.es = "none"
    BY <1>1, <2>1 DEF StreamOpens, GhostOpens, Typed, SSE
  <2>3. UNCHANGED <<page, req, cookie, live, logins>>
    BY <1>1 DEF StreamOpens, GhostOpens
  <2> QED BY <2>1, <2>2, <2>3 DEF Typed, Req, Rest, Alive, Retried, Kept
<1>2. CASE StreamFails
  BY <1>2, ErrorStep DEF StreamFails, IInv, Typed, SSE
<1>3. CASE GhostFails
  BY <1>3, ErrorStep DEF GhostFails, IInv, Typed, SSE
<1>4. CASE RetryTimer
  <2> USE DEF IInv
  <2> DEFINE s == [sse EXCEPT !.timer = FALSE]
  <2>1. s \in SSE /\ ~s.stopped /\ s.fails = sse.fails /\ ~sse.stopped
    BY <1>4 DEF RetryTimer, Typed, SSE, Rest
  <2> HIDE DEF s
  <2>2. sse' \in SSE /\ ~sse'.stopped /\ sse'.es = "opening" /\ sse'.fails = sse.fails
    BY <1>4, <2>1, Opened DEF RetryTimer, s
  <2>3. UNCHANGED <<page, req, cookie, live, logins>>
    BY <1>4 DEF RetryTimer
  <2> QED BY <2>1, <2>2, <2>3 DEF Typed, Req, Rest, Alive, Retried, Kept
<1> QED BY <1>1, <1>2, <1>3, <1>4

LEMMA InvStep ==
  IInv /\ [Next]_vars => IInv'
<1> SUFFICES ASSUME IInv, [Next]_vars PROVE IInv'
  OBVIOUS
<1>1. CASE UNCHANGED vars
  BY <1>1 DEF vars, IInv, Typed, Req, Rest, Alive, Retried, Kept
<1>2. CASE Next
  BY <1>2, ReloadStep, LoginStep, DemoStep, LogoutStep, AskStep, SaveProfileStep, ChangePassStep, ExpireStep,
     ServeStep, FailStep, DeliverStep, BrowserStep DEF Next
<1> QED BY <1>1, <1>2

(* Every reachable state has its type, and a stream that was stopped has   *)
(* no connection and no timer left (data/events.ts, disconnectSSE).        *)
THEOREM TypeCorrect == Spec => []TypeOK
<1>1. IInv => TypeOK
  BY DEF IInv, Typed, Page, SSE, Rest, Req, States, TypeOK
<1> QED
  BY <1>1, InitStep, InvStep, PTL DEF Spec

(* A page that is logged in has its stream, a timer or a probe that brings *)
(* it back, or is logging out, unless it was logged in late by an answer   *)
(* of GET /api/me (store.tsx, reloadUser and the start); whatever answers, *)
(* probes, timers and failures of older streams come in between.           *)
THEOREM StreamKeptAlways == Spec => []StreamKept
<1>1. IInv => StreamKept
  BY DEF IInv, Kept, Alive, Retried, StreamKept, InFlight
<1> QED
  BY <1>1, InitStep, InvStep, PTL DEF Spec

\* The page of an ended session is on its way to the answer that ends it.
ExpiryIsComing ==
  Dead /\ ~sse.stopped => sse.es = "opening" \/ sse.timer \/ InFlight("probe") # {}

(* The safety half of ExpiredEnds: what remains is that the browser runs     *)
(* the callback or the timer and that the probes are answered                *)
(* (data/events.ts, onerror, scheduleRetry and probeAndRetry).               *)
THEOREM ExpiryIsAlwaysComing == Spec => []ExpiryIsComing
<1>1. IInv => ExpiryIsComing
  BY DEF IInv, Typed, SSE, Alive, Retried, Dead, ExpiryIsComing, InFlight
<1> QED
  BY <1>1, InitStep, InvStep, PTL DEF Spec

=============================================================================
