------------------------------ MODULE Connection ------------------------------
(***************************************************************************)
(* The connection to the Qobuz server, in unauthenticated mode: the loop   *)
(* of WsManager.Run (ws.go), and in stream.go the token function it calls, *)
(* the gate that holds API calls back while jwt_api is expired, and        *)
(* handleAppConnect, which brings fresh credentials from the app.          *)
(*                                                                         *)
(* One action is one section of a mutex, one operation on a channel or an  *)
(* atomic, or one exchange with the network.  Of a token only the app that *)
(* provided the credentials it was made with is kept: the JWT it refreshes *)
(* (injectedWSToken, wsExistingJWT) decides no more than the name of the   *)
(* request, intentionalClose no more than what is logged.  SendBatch is    *)
(* left out.                                                               *)
(***************************************************************************)
EXTENDS Naturals

CONSTANTS
    Callers, \* goroutines that call the API: the loader, runLoop
    Ws,      \* WsManager.Run
    Handler, \* handleAppConnect
    Apps     \* bound: connects of an app

ASSUME ConstantsOK ==
    Apps \in Nat \ {0} /\ Ws # Handler /\ {Ws, Handler} \cap Callers = {}

VARIABLES
    api,               \* jwt_api: without expiry, not expired, expired
    tokenExpiredCh,    \* the channel is open: an expiry was met
    overdue,           \* it is, and tokenWaitTimeout has passed since then
    coldReconnectDone,
    calls,             \* where each call of waitForValidToken is
    wsReady,           \* wsReadyCh is closed
    apps,              \* connects of an app so far
    app,               \* where handleAppConnect is
    creds,             \* the app that provided jwt_api
    reached,           \* creds at the last Reconnect
    missed,            \* (history) that Reconnect met a connection being made
    run,               \* where Run is
    session,           \* creds when its token was asked for
    conn,              \* w.conn
    isConnected,
    reconnectNow,      \* a signal is in the channel
    cold,              \* coldReconnectUntil is in the future
    stopped            \* ctx is cancelled

gate == <<api, tokenExpiredCh, overdue, coldReconnectDone>>
appVars == <<wsReady, apps, app, creds, reached, missed>>
runVars == <<run, session>>
connVars == <<conn, isConnected, reconnectNow, cold>>
vars == <<api, tokenExpiredCh, overdue, coldReconnectDone, calls, wsReady,
          apps, app, creds, reached, missed, run, session, conn, isConnected,
          reconnectNow, cold, stopped>>

Everyone == Callers \cup {Ws, Handler}
Closed == IF conn = "nil" THEN "nil" ELSE "closed"

Init ==
    /\ api = "untimed" /\ tokenExpiredCh = FALSE /\ overdue = FALSE
    /\ coldReconnectDone = FALSE
    /\ calls = [g \in Everyone |-> "idle"]
    /\ wsReady = FALSE /\ apps = 0 /\ app = "away"
    /\ creds = 0 /\ reached = 0 /\ missed = FALSE
    /\ run = "top" /\ session = 0
    /\ conn = "nil" /\ isConnected = FALSE
    /\ reconnectNow = FALSE /\ cold = FALSE /\ stopped = FALSE

-----------------------------------------------------------------------------
(* Time *)

Expires ==
    /\ api = "valid" /\ api' = "expired"
    /\ UNCHANGED <<tokenExpiredCh, overdue, coldReconnectDone, calls, appVars,
                   runVars, connVars, stopped>>

TimesOut ==
    /\ tokenExpiredCh /\ ~overdue /\ overdue' = TRUE
    /\ UNCHANGED <<api, tokenExpiredCh, coldReconnectDone, calls, appVars,
                   runVars, connVars, stopped>>

HoldElapses ==
    /\ cold /\ cold' = FALSE
    /\ UNCHANGED <<gate, calls, appVars, runVars, conn, isConnected,
                   reconnectNow, stopped>>

-----------------------------------------------------------------------------
(* waitForValidToken and giveUpOnExpiredToken *)

Becomes(g, at) == calls' = [calls EXCEPT ![g] = at]

\* The result is followed for Run only.
Answers(g, result) == Becomes(g, IF g = Ws THEN result ELSE "idle")

Asks(g) ==
    /\ calls[g] = "idle" /\ Becomes(g, "test")
    /\ UNCHANGED <<gate, appVars, runVars, connVars, stopped>>

FindsValid(g) ==
    /\ calls[g] = "test" /\ api # "expired" /\ Answers(g, "true")
    /\ UNCHANGED <<gate, appVars, runVars, connVars, stopped>>

\* The section of tokenMu: the first to meet the expiry opens the channel.  The
\* deadline is tested after it.
FindsExpired(g) ==
    /\ calls[g] = "test" /\ api = "expired"
    /\ IF tokenExpiredCh THEN UNCHANGED <<overdue, coldReconnectDone>>
       ELSE overdue' = FALSE /\ coldReconnectDone' = FALSE
    /\ tokenExpiredCh' = TRUE
    /\ Becomes(g, IF overdue' THEN "gives up" ELSE "waits")
    /\ UNCHANGED <<api, appVars, runVars, connVars, stopped>>

\* A bug: the wait has no deadline.
WakesUntimed(g) ==
    /\ \/ calls[g] \in {"woken", "woken late"} /\ Becomes(g, "test")
       \/ calls[g] \in {"waits", "woken", "woken late"} /\ stopped
          /\ Answers(g, "false")
    /\ UNCHANGED <<gate, appVars, runVars, connVars, stopped>>

\* The select: the channel was closed, the timer fired, or the context ended.
Wakes(g) ==
    /\ \/ calls[g] \in {"woken", "woken late"} /\ Becomes(g, "test")
       \/ calls[g] = "waits" /\ overdue /\ Becomes(g, "gives up")
       \/ calls[g] = "woken late" /\ Becomes(g, "gives up")
       \/ calls[g] \in {"waits", "woken", "woken late"} /\ stopped
          /\ Answers(g, "false")
    /\ UNCHANGED <<gate, appVars, runVars, connVars, stopped>>

GivesUp(g) ==
    /\ calls[g] = "gives up"
    /\ IF coldReconnectDone THEN Answers(g, "false") ELSE Becomes(g, "holds")
    /\ coldReconnectDone' = TRUE
    /\ UNCHANGED <<api, tokenExpiredCh, overdue, appVars, runVars,
                   connVars, stopped>>

\* The two sections of ColdReconnect.
ColdHolds(g) ==
    /\ calls[g] = "holds" /\ Becomes(g, "closes")
    /\ cold' = TRUE
    /\ UNCHANGED <<gate, appVars, runVars, conn, isConnected,
                   reconnectNow, stopped>>
ColdCloses(g) ==
    /\ calls[g] = "closes" /\ Answers(g, "false")
    /\ conn' = Closed
    /\ UNCHANGED <<gate, appVars, runVars, isConnected, reconnectNow,
                   cold, stopped>>
ColdReconnect(g) == ColdHolds(g) \/ ColdCloses(g)

Waiting(g) == FindsValid(g) \/ FindsExpired(g) \/ Wakes(g) \/ GivesUp(g)
              \/ ColdReconnect(g)

-----------------------------------------------------------------------------
(* handleAppConnect, one call after another *)

\* A bug: the channel is forgotten, not closed.
AppTokenForgets ==
    /\ app = "away" /\ apps < Apps /\ apps' = apps + 1
    /\ creds' = apps + 1
    /\ api' \in {"valid", api}
    /\ tokenExpiredCh' = FALSE /\ overdue' = FALSE
    /\ app' = "verify"
    /\ UNCHANGED <<coldReconnectDone, calls, wsReady, reached, missed, runVars,
                   connVars, stopped>>

\* The section of tokenMu: jwt_api, with or without its expiry, and the channel.
AppToken ==
    /\ app = "away" /\ apps < Apps /\ apps' = apps + 1
    /\ creds' = apps + 1
    /\ api' \in {"valid", api}
    /\ tokenExpiredCh' = FALSE /\ overdue' = FALSE
    /\ calls' = [g \in Everyone |->
                    IF calls[g] # "waits" THEN calls[g]
                    ELSE IF overdue THEN "woken late" ELSE "woken"]
    /\ app' = "verify"
    /\ UNCHANGED <<coldReconnectDone, wsReady, reached, missed, runVars,
                   connVars, stopped>>

\* An app need not send its jwt_api.
AppComesWithout ==
    /\ app = "away" /\ apps < Apps /\ apps' = apps + 1
    /\ app' = "ready"
    /\ UNCHANGED <<gate, calls, wsReady, creds, reached, missed, runVars,
                   connVars, stopped>>

\* Then wsReadyCh is closed; with a new jwt_api VerifySecret, itself a call of
\* the API, comes before the JWT for the server, if the app sent one.
AppReady ==
    /\ app \in {"verify", "ready"} /\ wsReady' = TRUE
    /\ IF app = "verify" THEN app' = "verifying" /\ Becomes(Handler, "test")
       ELSE app' \in {"signal", "away"} /\ UNCHANGED calls
    /\ UNCHANGED <<gate, apps, creds, reached, missed, runVars, connVars,
                   stopped>>
AppIsVerified ==
    /\ app = "verifying" /\ calls[Handler] = "idle" /\ UNCHANGED calls
    /\ app' \in {"signal", "away"}
    /\ UNCHANGED <<gate, wsReady, apps, creds, reached, missed, runVars,
                   connVars, stopped>>

\* Reconnect: signal Run, then close the connection.
ReconnectSignals ==
    /\ app = "signal" /\ reconnectNow' = TRUE /\ app' = "close"
    /\ UNCHANGED <<gate, calls, wsReady, apps, creds, reached, missed, runVars,
                   conn, isConnected, cold, stopped>>

Connecting == run \in {"answer", "dial"}

\* A bug: Run is only signalled.
ReconnectClosesNothing ==
    /\ app = "close" /\ app' = "away"
    /\ reached' = creds /\ missed' = Connecting
    /\ UNCHANGED <<gate, calls, wsReady, apps, creds, runVars, connVars,
                   stopped>>

ReconnectCloses ==
    /\ app = "close" /\ app' = "away"
    /\ conn' = Closed
    /\ reached' = creds /\ missed' = Connecting
    /\ UNCHANGED <<gate, calls, wsReady, apps, creds, runVars,
                   isConnected, reconnectNow, cold, stopped>>

Reconnect == ReconnectSignals \/ ReconnectCloses
App == AppToken \/ AppComesWithout \/ AppReady \/ AppIsVerified \/ Reconnect

-----------------------------------------------------------------------------
(* Run: the token function *)

Goes(from, to) == run = from /\ run' = to

RunTops ==
    /\ Goes("top", IF stopped THEN "done" ELSE "gate")
    /\ UNCHANGED <<gate, calls, appVars, session, connVars, stopped>>

\* wsReadyCh or the end of the context, whichever is there.
RunIsReady ==
    /\ wsReady /\ Goes("gate", "token") /\ Becomes(Ws, "test")
    /\ UNCHANGED <<gate, appVars, session, connVars, stopped>>
\* A bug: the context is looked at once there are credentials.
RunIsStoppedOnceReady ==
    /\ stopped /\ wsReady /\ Goes("gate", "sleep")
    /\ UNCHANGED <<gate, calls, appVars, session, connVars, stopped>>
RunIsStopped ==
    /\ stopped /\ Goes("gate", "sleep")
    /\ UNCHANGED <<gate, calls, appVars, session, connVars, stopped>>

\* CreateWSToken, with the credentials of now.
AsksForToken ==
    /\ calls[Ws] = "true" /\ Goes("token", "answer") /\ Becomes(Ws, "idle")
    /\ session' = creds /\ missed' = FALSE
    /\ UNCHANGED <<gate, wsReady, apps, app, creds, reached, connVars, stopped>>
HasNoToken ==
    /\ calls[Ws] = "false" /\ Goes("token", "sleep") /\ Becomes(Ws, "idle")
    /\ UNCHANGED <<gate, appVars, session, connVars, stopped>>
TokenFails ==
    /\ Goes("answer", "sleep")
    /\ UNCHANGED <<gate, calls, appVars, session, connVars, stopped>>
TokenArrives ==
    /\ Goes("answer", "dial")
    /\ UNCHANGED <<gate, calls, appVars, session, connVars, stopped>>
SleepsFiveSeconds ==
    /\ Goes("sleep", "top")
    /\ UNCHANGED <<gate, calls, appVars, session, connVars, stopped>>

TokenFn == RunIsReady \/ RunIsStopped \/ AsksForToken \/ HasNoToken
TokenComes == TokenArrives \/ TokenFails

-----------------------------------------------------------------------------
(* Run: connectAndRun, and the delay after it *)

DialFails ==
    /\ Goes("dial", "ended")
    /\ UNCHANGED <<gate, calls, appVars, session, connVars, stopped>>
Dials ==
    /\ Goes("dial", "auth") /\ ~stopped
    /\ conn' = "open"
    /\ UNCHANGED <<gate, calls, appVars, session, isConnected,
                   reconnectNow, cold, stopped>>
\* sendAuth, sendSubscribe; a failure to send is only logged.
Authenticates ==
    /\ Goes("auth", "up")
    /\ isConnected' = TRUE
    /\ UNCHANGED <<gate, calls, appVars, session, conn,
                   reconnectNow, cold, stopped>>

\* The context ends, the connection was closed or breaks, a ping fails, or the
\* token of the connection nears its expiry.
ConnectionEnds ==
    /\ Goes("up", "ended")
    /\ conn' = "closed" /\ isConnected' = FALSE
    /\ UNCHANGED <<gate, calls, appVars, session, reconnectNow,
                   cold, stopped>>

SkipsDelay ==
    /\ Goes("ended", "top") /\ reconnectNow /\ reconnectNow' = FALSE
    /\ UNCHANGED <<gate, calls, appVars, session, conn,
                   isConnected, cold, stopped>>
BeginsDelay ==
    /\ Goes("ended", IF cold THEN "hold" ELSE "delay") /\ ~reconnectNow
    /\ UNCHANGED <<gate, calls, appVars, session, connVars, stopped>>
Delayed == run \in {"delay", "hold"}
DelayIsStopped ==
    /\ Delayed /\ stopped /\ run' = "done"
    /\ UNCHANGED <<gate, calls, appVars, session, connVars, stopped>>
DelayIsCutShort ==
    /\ Delayed /\ reconnectNow /\ reconnectNow' = FALSE /\ run' = "top"
    /\ UNCHANGED <<gate, calls, appVars, session, conn,
                   isConnected, cold, stopped>>
\* A bug: in a cold hold only Reconnect is waited for.
DelayElapsesUnlessHeld ==
    /\ run = "delay" /\ run' = "top"
    /\ UNCHANGED <<gate, calls, appVars, session, connVars, stopped>>
DelayElapses ==
    /\ run = "delay" \/ (run = "hold" /\ ~cold)
    /\ run' = "top"
    /\ UNCHANGED <<gate, calls, appVars, session, connVars, stopped>>

Delay == SkipsDelay \/ BeginsDelay \/ DelayIsStopped \/ DelayIsCutShort
         \/ DelayElapses
Run == \/ RunTops \/ TokenFn \/ TokenComes \/ SleepsFiveSeconds
       \/ DialFails \/ Dials \/ Authenticates \/ ConnectionEnds \/ Delay

\* Stop cancels the context; what it then closes has ended with it.
Stop ==
    /\ ~stopped /\ stopped' = TRUE
    /\ UNCHANGED <<gate, calls, appVars, runVars, connVars>>

-----------------------------------------------------------------------------
Next == \/ Expires \/ TimesOut \/ HoldElapses \/ App \/ Run \/ Stop
        \/ \E g \in Callers : Asks(g)
        \/ \E g \in Everyone : Waiting(g)

\* Timers fire and goroutines run on; a dial ends, by its timeout (220) or with the
\* context.  CreateWSToken is not bound to return: its request has neither (api.go,
\* 345-356).  Nor does an established connection end, unless it was closed or the
\* context ends.
Fairness ==
    /\ WF_vars(TimesOut) /\ WF_vars(HoldElapses)
    /\ \A g \in Everyone : WF_vars(Waiting(g))
    /\ WF_vars(RunTops \/ TokenFn \/ SleepsFiveSeconds \/ DialFails
               \/ Authenticates \/ Delay)
    /\ WF_vars((conn = "closed" \/ stopped) /\ ConnectionEnds)

Spec == Init /\ [][Next]_vars /\ Fairness
-----------------------------------------------------------------------------
(* Properties *)

FlagsOK ==
    /\ tokenExpiredCh \in BOOLEAN /\ overdue \in BOOLEAN
    /\ coldReconnectDone \in BOOLEAN /\ wsReady \in BOOLEAN
    /\ missed \in BOOLEAN /\ isConnected \in BOOLEAN
    /\ reconnectNow \in BOOLEAN /\ cold \in BOOLEAN /\ stopped \in BOOLEAN
CallsOK ==
    calls \in [Everyone -> {"idle", "test", "waits", "woken", "woken late",
                            "gives up", "holds", "closes", "true", "false"}]
PlacesOK ==
    /\ api \in {"untimed", "valid", "expired"}
    /\ app \in {"away", "verify", "verifying", "ready", "signal", "close"}
    /\ run \in {"top", "gate", "token", "answer", "dial", "auth", "up", "ended",
                "delay", "hold", "sleep", "done"}
    /\ conn \in {"nil", "open", "closed"}
AppsOK ==
    /\ apps \in 0 .. Apps /\ creds \in 0 .. apps
    /\ session \in 0 .. creds /\ reached \in 0 .. creds

\* Types; a token was made with the credentials of an app that had come by then,
\* and the timer runs only while the channel is open.
TypeOK == /\ FlagsOK /\ CallsOK /\ PlacesOK /\ AppsOK
          /\ overdue => tokenExpiredCh

\* No caller sleeps over fresh credentials: whoever waits in waitForValidToken
\* waits on the channel that the next handleAppConnect closes, and the expiry it
\* waits for has not been replaced meanwhile.
NoSleepOverToken ==
    /\ tokenExpiredCh => api = "expired"
    /\ \A g \in Everyone : calls[g] = "waits" => tokenExpiredCh

\* isConnected never outlives its connection: while Run is on its way to the
\* next one (it may be blocked in the token function for long), SendBatch
\* writes nothing; and it is not set before Authenticate is sent.
ConnectedMeansUp == isConnected => run = "up" /\ conn # "nil"

\* A connection that stays up is one of the app that connected last, except
\* where Reconnect came while it was being made and found nothing to close.
OnlyDialsAreMissed ==
    run = "up" /\ conn = "open" /\ session < reached => missed

\* waitForValidToken is bounded, as its comment says: whether an app comes or not,
\* every call gets its answer.
Inside(g) == calls[g] \notin {"idle", "true", "false"}
WaitIsBounded == \A g \in Everyone : Inside(g) ~> ~Inside(g)

\* Stop ends Run wherever it waits: for the first app, for a valid jwt_api, for the
\* connection, in a delay or a hold.  Only in a token request that the server never
\* answers may it stay for ever: the cancelled context does not reach that one.
StopEndsRun == stopped ~> (run = "done" \/ [](run = "answer"))

\* The server, asked for a token or for a connection again and again, grants it
\* again and again; and no token request stays without an answer.
ServerAnswers == SF_vars(TokenArrives) /\ SF_vars(Dials)

\* With such a server and credentials that stay valid the connection is made again
\* and again, whatever delays and holds the past has left.
Reconnects ==
    ServerAnswers =>
        (<>[](wsReady /\ api # "expired") => []<>(isConnected \/ stopped))
=============================================================================
