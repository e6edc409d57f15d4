----------------------------- MODULE WebSession -----------------------------
(***************************************************************************)
(* The session of the page: who is logged in (ui/store.tsx), the provider  *)
(* behind the views (data/index.ts), the event stream with its retries     *)
(* (data/events.ts), and the requests whose answers may come late          *)
(* (data/http.ts).  The server looks at the cookie when a request or a new *)
(* stream reaches it; a stream that is open outlives its session.          *)
(***************************************************************************)
EXTENDS Naturals, FiniteSets

CONSTANTS MaxLogins,    \* bound: sessions the server ever creates
          MaxRequests,  \* bound: requests in flight
          MaxGhosts     \* bound: streams the page has lost track of

ASSUME WebSessionAssumption == MaxLogins \in Nat \ {0} /\ MaxRequests \in Nat /\ MaxGhosts \in Nat

VARIABLES
    page,    \* ready, logged, demo; http: the provider is the real one;
             \* late: history, it was logged in when its stream was stopped
    sse,     \* the stream's state, see Stopped
    req,     \* [slot -> a request in flight, or Free]
    cookie,  \* session of the browser's cookie, 0 for none
    live,    \* sessions the server knows
    logins   \* sessions created so far

vars == <<page, sse, req, cookie, live, logins>>

MAX_AUTH_FAILS == 3

Slots == 1..MaxRequests
Free == [kind |-> "free", cookie |-> 0, st |-> "out"]
Request(k) == [kind |-> k, cookie |-> cookie, st |-> "out"]
InFlight(k) == {i \in Slots : req[i].kind = k}
Idle == InFlight("free")

---------------------------------------------------------------------------
(* The stream.                                                             *)

\* es: the current EventSource; ghosts: those replaced without being closed;
\* fails: 401s in a row.
Stopped == [stopped |-> TRUE, es |-> "none", ghosts |-> 0, timer |-> FALSE, fails |-> 0]

openStream(s) ==
    IF s.stopped THEN s
    ELSE [s EXCEPT !.es = "opening", !.ghosts = @ + IF s.es = "none" THEN 0 ELSE 1]

scheduleRetry(s) == IF s.stopped THEN s ELSE [s EXCEPT !.timer = TRUE]

\* The mutant of disconnectSSE: the timer is left running.
disconnectKeepsTimer(s) == [s EXCEPT !.stopped = TRUE, !.es = "none"]

disconnectSSE(s) == [s EXCEPT !.stopped = TRUE, !.timer = FALSE, !.es = "none"]

connectSSE(s) ==
    openStream([disconnectSSE(s) EXCEPT !.stopped = FALSE, !.fails = 0])

\* The mutants of probeAndRetry: no retry while the network is down; and 401s
\* that are not counted.
probeGivesUpOffline(s, st) ==
    IF st = "failed" \/ s.stopped THEN s
    ELSE scheduleRetry([s EXCEPT !.fails = IF st = "ok" THEN 0 ELSE @])

probeNeverCounts(s, st) == IF s.stopped THEN s ELSE scheduleRetry([s EXCEPT !.fails = 0])

\* The answer st of GET /api/me after a failure of the stream.
probeAndRetry(s, st) ==
    LET fails == CASE st = "ok" -> 0 [] st = "denied" -> s.fails + 1 [] OTHER -> s.fails
        t == [s EXCEPT !.fails = fails]
    IN IF s.stopped THEN IF st = "ok" THEN t ELSE s
       ELSE IF st = "denied" /\ fails >= MAX_AUTH_FAILS THEN disconnectSSE(t)
       ELSE scheduleRetry(t)

\* The probe that ends the session.
GivesUp(s, st) == ~s.stopped /\ st = "denied" /\ s.fails + 1 >= MAX_AUTH_FAILS

---------------------------------------------------------------------------
(* The store: what the page and its stream become.                         *)

Login == [ready |-> TRUE, logged |-> FALSE, demo |-> FALSE, http |-> TRUE, late |-> FALSE]

\* The page starts: a saved demo session is entered, otherwise the server is
\* asked who this is, with the stream already being opened.
Boot(saved) ==
    /\ page' = [ready |-> saved, logged |-> saved, demo |-> saved, http |-> ~saved, late |-> FALSE]
    /\ sse' = IF saved THEN Stopped ELSE connectSSE(Stopped)
    /\ req' = [i \in Slots |-> IF i = 1 /\ ~saved THEN Request("me") ELSE Free]

Init ==
    /\ \E n \in {0, 1} :
          /\ cookie = n
          /\ live \in SUBSET (1..n)
          /\ logins = n
    /\ page = [Login EXCEPT !.ready = FALSE]
    /\ sse = connectSSE(Stopped)
    /\ req = [i \in Slots |-> IF i = 1 THEN Request("me") ELSE Free]

Reload ==
    /\ Boot(~page.http)
    /\ UNCHANGED <<cookie, live, logins>>

\* The login screen; its form is busy until it is answered.  The demo's own
\* provider lets everybody in.
login ==
    /\ page.ready /\ ~page.logged /\ InFlight("login") = {}
    /\ IF page.http
       THEN /\ \E i \in Idle : req' = [req EXCEPT ![i] = Request("login")]
            /\ UNCHANGED <<page, sse>>
       ELSE /\ page' = [page EXCEPT !.logged = TRUE, !.late = FALSE]
            /\ sse' = connectSSE(sse)
            /\ UNCHANGED req
    /\ UNCHANGED <<cookie, live, logins>>

enterDemo ==
    /\ page.ready /\ ~page.logged /\ InFlight("login") = {}
    /\ page' = [ready |-> TRUE, logged |-> TRUE, demo |-> TRUE, http |-> FALSE, late |-> FALSE]
    /\ sse' = disconnectSSE(sse)
    /\ UNCHANGED <<req, cookie, live, logins>>

\* Leaving the demo, by its button or by logging out, starts the stream anew
\* although nobody is logged in.
exitDemo ==
    /\ page.logged /\ page.demo
    /\ page' = Login
    /\ sse' = connectSSE(sse)
    /\ UNCHANGED <<req, cookie, live, logins>>

\* The stream is cut at once, the session when the server has answered.
logout ==
    /\ page.logged /\ ~page.demo
    /\ \E i \in Idle : req' = [req EXCEPT ![i] = Request("logout")]
    /\ sse' = disconnectSSE(sse)
    /\ UNCHANGED <<page, cookie, live, logins>>

\* A view asks for something, or acts.
Ask ==
    /\ page.http /\ (page.logged \/ ~page.ready)
    /\ \E i \in Idle : req' = [req EXCEPT ![i] = Request("data")]
    /\ UNCHANGED <<page, sse, cookie, live, logins>>

\* The card of one's name and picture.
saveProfile ==
    /\ page.http /\ page.logged
    /\ \E i \in Idle : req' = [req EXCEPT ![i] = Request("profile")]
    /\ UNCHANGED <<page, sse, cookie, live, logins>>

\* The form for one's own password, which is busy until it is answered.
changePass ==
    /\ page.http /\ page.logged /\ InFlight("password") = {}
    /\ \E i \in Idle : req' = [req EXCEPT ![i] = Request("password")]
    /\ UNCHANGED <<page, sse, cookie, live, logins>>

---------------------------------------------------------------------------
(* The server and the network.                                             *)

Expire ==
    /\ \E n \in live : live' = live \ {n}
    /\ UNCHANGED <<page, sse, req, cookie, logins>>

\* A request has a session's cookie, and so has the answer of a login.  The
\* server answers, with a 401 when it denies, also because it could not
\* read its database.  A login makes a session, or the password was wrong; a
\* logout ends one, if the database lets it; a new password ends all others,
\* unless the current one was wrong.  The answer arrives, or the network takes
\* it.
Serve(i, arrives) ==
    /\ req[i].kind # "free" /\ req[i].st = "out"
    /\ \E st \in {"ok", "denied", "wrong"} :
          /\ req[i].kind # "login" /\ req[i].cookie \notin live => st = "denied"
          /\ st = "wrong" => req[i].kind = "password"
          /\ req[i].kind = "login" /\ st = "ok" => logins < MaxLogins
          /\ LET new == IF req[i].kind = "login" /\ st = "ok" THEN logins + 1 ELSE 0
             IN /\ req' = [req EXCEPT ![i].st = IF arrives THEN st ELSE "failed",
                                      ![i].cookie = IF arrives THEN new ELSE 0]
                /\ logins' = IF new = 0 THEN logins ELSE new
                /\ live' \in CASE new # 0 -> {live \cup {new}}
                               [] req[i].kind = "logout" /\ st = "ok" ->
                                      {live, live \ {req[i].cookie}}
                               [] req[i].kind = "password" /\ st = "ok" -> {{req[i].cookie}}
                               [] OTHER -> {live}
    /\ UNCHANGED <<page, sse, cookie>>

\* The network takes a request.
Fail(i) ==
    /\ req[i].kind # "free" /\ req[i].st = "out"
    /\ req' = [req EXCEPT ![i].st = "failed", ![i].cookie = 0]
    /\ UNCHANGED <<page, sse, cookie, live, logins>>

\* What a 401 does (req() and onExpired): a page that is logged in to the
\* server logs out, with the slot of the answer.
Expired(i, s) ==
    IF page.logged /\ ~page.demo
    THEN /\ sse' = disconnectSSE(s)
         /\ req' = [req EXCEPT ![i] = Request("logout")]
    ELSE /\ sse' = s
         /\ req' = [req EXCEPT ![i] = Free]

\* Answers reach the page.
DataAnswered(i) ==
    /\ req[i].kind = "data" /\ req[i].st # "out"
    /\ IF req[i].st = "denied" THEN Expired(i, sse)
       ELSE req' = [req EXCEPT ![i] = Free] /\ UNCHANGED sse
    /\ UNCHANGED <<page, cookie, live, logins>>

\* To req() every 401 is the end of the session, but for those of a login and
\* a logout.
PasswordAnswered(i) ==
    /\ req[i].kind = "password" /\ req[i].st # "out"
    /\ IF req[i].st \in {"denied", "wrong"} THEN Expired(i, sse)
       ELSE req' = [req EXCEPT ![i] = Free] /\ UNCHANGED sse
    /\ UNCHANGED <<page, cookie, live, logins>>

MeAnswered(i) ==
    /\ req[i].kind = "me" /\ req[i].st # "out"
    /\ page' = [page EXCEPT !.ready = TRUE, !.logged = (req[i].st = "ok"),
                            !.late = (req[i].st = "ok" /\ sse.stopped)]
    /\ req' = [req EXCEPT ![i] = Free]
    /\ UNCHANGED <<sse, cookie, live, logins>>

\* The page's user, as an answer of GET /api/me has it, whoever was or was not
\* logged in when it came.  Nothing is done about the stream.
setUser ==
    page' = [page EXCEPT !.logged = TRUE,
                         !.late = IF page.logged THEN @ ELSE sse.stopped]

\* What was saved is shown: reloadUser asks again who this is, the server or
\* the demo.
ProfileAnswered(i) ==
    /\ req[i].kind = "profile" /\ req[i].st # "out"
    /\ IF req[i].st = "denied" THEN Expired(i, sse) /\ UNCHANGED page
       ELSE /\ req' = [req EXCEPT ![i] = IF @.st = "ok" /\ page.http
                                          THEN Request("reloadUser") ELSE Free]
            /\ IF req[i].st = "ok" /\ ~page.http THEN setUser ELSE UNCHANGED page
            /\ UNCHANGED sse
    /\ UNCHANGED <<cookie, live, logins>>

reloadUser(i) ==
    /\ req[i].kind = "reloadUser" /\ req[i].st # "out"
    /\ IF req[i].st = "denied" THEN Expired(i, sse) /\ UNCHANGED page
       ELSE /\ req' = [req EXCEPT ![i] = Free]
            /\ IF req[i].st = "ok" THEN setUser ELSE UNCHANGED page
            /\ UNCHANGED sse
    /\ UNCHANGED <<cookie, live, logins>>

LoginAnswered(i) ==
    /\ req[i].kind = "login" /\ req[i].st # "out"
    /\ req' = [req EXCEPT ![i] = Free]
    /\ IF req[i].st = "ok"
       THEN /\ cookie' = req[i].cookie
            /\ page' = [page EXCEPT !.logged = TRUE, !.late = FALSE]
            /\ sse' = connectSSE(sse)
       ELSE UNCHANGED <<page, sse, cookie>>
    /\ UNCHANGED <<live, logins>>

\* However a logout ends, the page is logged out.
LogoutAnswered(i) ==
    /\ req[i].kind = "logout" /\ req[i].st # "out"
    /\ req' = [req EXCEPT ![i] = Free]
    /\ cookie' = IF req[i].st = "ok" THEN 0 ELSE cookie
    /\ page' = [page EXCEPT !.logged = FALSE, !.late = FALSE]
    /\ UNCHANGED <<sse, live, logins>>

ProbeAnswered(i) ==
    /\ req[i].kind = "probe" /\ req[i].st # "out"
    /\ LET s == probeAndRetry(sse, req[i].st)
       IN IF GivesUp(sse, req[i].st) THEN Expired(i, s)
          ELSE sse' = s /\ req' = [req EXCEPT ![i] = Free]
    /\ UNCHANGED <<page, cookie, live, logins>>

---------------------------------------------------------------------------
(* What the browser calls.                                                 *)

StreamOpens ==
    /\ sse.es = "opening" /\ cookie \in live
    /\ sse' = [sse EXCEPT !.es = "open", !.fails = 0]
    /\ UNCHANGED <<page, req, cookie, live, logins>>

\* onerror: whichever stream failed, the current one is closed.
onerror(ghosts) ==
    /\ sse' = [sse EXCEPT !.es = "none", !.ghosts = ghosts]
    /\ IF sse.stopped THEN UNCHANGED req
       ELSE \E i \in Idle : req' = [req EXCEPT ![i] = Request("probe")]
    /\ UNCHANGED <<page, cookie, live, logins>>

StreamFails == sse.es # "none" /\ onerror(sse.ghosts)

\* A stream that was replaced still calls back: it ends, or the browser opens
\* it again.
GhostFails == sse.ghosts > 0 /\ \E n \in {sse.ghosts, sse.ghosts - 1} : onerror(n)

GhostOpens ==
    /\ sse.ghosts > 0 /\ cookie \in live
    /\ sse' = [sse EXCEPT !.fails = 0]
    /\ UNCHANGED <<page, req, cookie, live, logins>>

RetryTimer ==
    /\ sse.timer
    /\ sse' = openStream([sse EXCEPT !.timer = FALSE])
    /\ sse'.ghosts <= MaxGhosts
    /\ UNCHANGED <<page, req, cookie, live, logins>>

Deliver(i) ==
    \/ DataAnswered(i) \/ PasswordAnswered(i) \/ MeAnswered(i) \/ LoginAnswered(i)
    \/ LogoutAnswered(i) \/ ProbeAnswered(i) \/ ProfileAnswered(i) \/ reloadUser(i)

Next ==
    \/ Reload \/ login \/ enterDemo \/ exitDemo \/ logout \/ Ask \/ saveProfile \/ changePass \/ Expire
    \/ \E i \in Slots : Serve(i, TRUE) \/ Serve(i, FALSE) \/ Fail(i) \/ Deliver(i)
    \/ StreamOpens \/ StreamFails \/ GhostFails \/ GhostOpens \/ RetryTimer

Spec == Init /\ [][Next]_vars

\* The browser runs its callbacks and timers, a stream that is not let in
\* fails, and of requests made again and again some reach the server and their
\* answers the page.
Fairness ==
    /\ WF_vars(StreamFails /\ sse.es = "opening") /\ WF_vars(RetryTimer)
    /\ \A i \in Slots : WF_vars(Deliver(i)) /\ SF_vars(Serve(i, TRUE))

LiveSpec == Spec /\ Fairness

---------------------------------------------------------------------------
\* Types, and that a stream that was stopped has no connection and no timer
\* left that could start it again.
TypeOK ==
    /\ page \in [ready : BOOLEAN, logged : BOOLEAN, demo : BOOLEAN, http : BOOLEAN,
                late : BOOLEAN]
    /\ sse.es \in {"none", "opening", "open"}
    /\ sse.stopped => sse.es = "none" /\ ~sse.timer
    /\ sse.fails \in 0..MAX_AUTH_FAILS
    /\ sse.fails = MAX_AUTH_FAILS => sse.stopped
    /\ live \subseteq 1..logins /\ cookie \in 0..logins /\ logins \in 0..MaxLogins
    /\ \A i \in Slots : req[i].st \in {"out", "ok", "denied", "wrong", "failed"}

\* A page that is logged in is never left without its events for good: unless
\* it is logging out, there is a stream, or a timer that will open one, or a
\* probe that will set the timer, however answers of an earlier session come
\* in between.  The exception is a page that was logged in late, by an answer
\* of GET /api/me that came when the stream had been stopped: after a logout
\* (reloadUser), or after three probes were denied while the page started.  It
\* stays without events until the session or the page ends.
StreamKept ==
    page.logged /\ ~page.demo /\ ~page.late /\ InFlight("logout") = {}
        => sse.es # "none" \/ sse.timer \/ InFlight("probe") # {}

\* A page whose session ended and whose stream is not open, but is being
\* retried, comes back to the login screen by itself, without a click of its
\* user and without a request of its views.
Dead == page.logged /\ ~page.demo /\ cookie \notin live /\ sse.es # "open"

ExpiredEnds == Dead /\ ~sse.stopped ~> ~Dead

\* "Wrong credentials are no expired session" (data/http.ts): an answer that
\* says that a password was wrong does not log the page out.
WrongIsNotExpired ==
    [][\A i \in Slots : req[i].st = "wrong" => req'[i].kind # "logout"]_vars
=============================================================================
