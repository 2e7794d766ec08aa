-------------------------- MODULE Connection_proofs --------------------------
(***************************************************************************)
(* The safety invariants of Connection, for any number of goroutines that  *)
(* wait for a token and any number of apps.  They are not inductive alone: *)
(* a connection that is being made already carries the credentials it will *)
(* be up with, and from the dial on there is one.                          *)
(***************************************************************************)
EXTENDS Connection, TLAPS

\* While the connection is made, and when it is, an old session was missed.
MakesKnown == Connecting /\ session < reached => missed
StaysKnown ==
    run \in {"auth", "up"} /\ conn = "open" /\ session < reached => missed
HasConnection == run \in {"auth", "up"} => conn # "nil"

TimerOK == overdue => tokenExpiredCh
ChannelOK == tokenExpiredCh => api = "expired"
SleepersOK == \A g \in Everyone : calls[g] = "waits" => tokenExpiredCh

Inv == /\ TypeOK
       /\ NoSleepOverToken
       /\ ConnectedMeansUp
       /\ MakesKnown /\ StaysKnown /\ HasConnection

USE DEF gate, appVars, runVars, connVars, Becomes, Answers, Closed, Goes,
       Delayed

LEMMA Initially == Init => Inv
<1> SUFFICES ASSUME Init PROVE Inv
  OBVIOUS
<1>1. FlagsOK
  BY DEF Init, FlagsOK
<1>2. PlacesOK /\ CallsOK
  BY DEF Init, PlacesOK, CallsOK
<1>3. AppsOK
  BY ConstantsOK DEF Init, AppsOK, ConstantsOK
<1>4. NoSleepOverToken
  BY DEF Init, NoSleepOverToken
<1>5. ConnectedMeansUp /\ MakesKnown /\ StaysKnown /\ HasConnection
  BY DEF Init, ConnectedMeansUp, MakesKnown, StaysKnown, HasConnection,
         Connecting
<1> QED
  BY <1>1, <1>2, <1>3, <1>4, <1>5 DEF Init, Inv, TypeOK

\* Flags stay Boolean.
LEMMA FlagsStay ==
    ASSUME FlagsOK, [Next]_vars PROVE FlagsOK'
<1> USE DEF FlagsOK
<1>1. CASE Expires \/ TimesOut \/ HoldElapses \/ Stop
  BY <1>1 DEF Expires, TimesOut, HoldElapses, Stop
<1>2. CASE App
  <2>1. CASE AppToken
    BY <2>1 DEF AppToken
  <2>2. CASE AppComesWithout
    BY <2>2 DEF AppComesWithout
  <2>3. CASE AppReady \/ AppIsVerified
    BY <2>3 DEF AppReady, AppIsVerified
  <2>4. CASE Reconnect
    <3>1. Connecting \in BOOLEAN
      BY DEF Connecting
    <3> QED
      BY <2>4, <3>1 DEF Reconnect, ReconnectSignals, ReconnectCloses
  <2> QED
    BY <1>2, <2>1, <2>2, <2>3, <2>4 DEF App
<1>3. CASE RunTops \/ TokenFn \/ TokenComes \/ SleepsFiveSeconds
  BY <1>3 DEF TokenFn, RunTops, RunIsReady, RunIsStopped, AsksForToken,
         HasNoToken, TokenComes, TokenFails,
         TokenArrives, SleepsFiveSeconds
<1>4. CASE DialFails \/ Dials \/ Authenticates \/ ConnectionEnds
  BY <1>4 DEF DialFails, Dials, Authenticates, ConnectionEnds
<1>5. CASE Delay
  BY <1>5 DEF Delay, SkipsDelay, BeginsDelay, DelayIsStopped, DelayIsCutShort,
         DelayElapses
<1>6. ASSUME NEW g \in Everyone, Asks(g) \/ Waiting(g) PROVE FlagsOK'
  <2>1. CASE Asks(g) \/ FindsValid(g) \/ Wakes(g)
    BY <2>1 DEF Asks, FindsValid, Wakes
  <2>2. CASE FindsExpired(g)
    BY <2>2 DEF FindsExpired
  <2>3. CASE GivesUp(g)
    BY <2>3 DEF GivesUp
  <2>4. CASE ColdReconnect(g)
    BY <2>4 DEF ColdReconnect, ColdHolds, ColdCloses
  <2> QED
    BY <1>6, <2>1, <2>2, <2>3, <2>4 DEF Waiting
<1>7. CASE UNCHANGED vars
  BY <1>7 DEF vars
<1> QED
  BY <1>1, <1>2, <1>3, <1>4, <1>5, <1>6, <1>7 DEF Next, Run, Everyone

\* Everyone stays at a known place.
LEMMA PlacesStay ==
    ASSUME PlacesOK, [Next]_vars PROVE PlacesOK'
<1> USE DEF PlacesOK
<1>1. CASE Expires \/ TimesOut \/ HoldElapses \/ Stop
  BY <1>1 DEF Expires, TimesOut, HoldElapses, Stop
<1>2. CASE App
  <2>1. CASE AppToken
    BY <2>1 DEF AppToken
  <2>2. CASE AppComesWithout
    BY <2>2 DEF AppComesWithout
  <2>3. CASE AppReady \/ AppIsVerified
    BY <2>3 DEF AppReady, AppIsVerified
  <2>4. CASE Reconnect
    BY <2>4 DEF Reconnect, ReconnectSignals, ReconnectCloses
  <2> QED
    BY <1>2, <2>1, <2>2, <2>3, <2>4 DEF App
<1>3. CASE RunTops \/ TokenFn \/ TokenComes \/ SleepsFiveSeconds
  BY <1>3 DEF TokenFn, RunTops, RunIsReady, RunIsStopped, AsksForToken,
         HasNoToken, TokenComes, TokenFails,
         TokenArrives, SleepsFiveSeconds
<1>4. CASE DialFails \/ Dials \/ Authenticates \/ ConnectionEnds
  BY <1>4 DEF DialFails, Dials, Authenticates, ConnectionEnds
<1>5. CASE Delay
  BY <1>5 DEF Delay, SkipsDelay, BeginsDelay, DelayIsStopped, DelayIsCutShort,
         DelayElapses
<1>6. ASSUME NEW g \in Everyone, Asks(g) \/ Waiting(g) PROVE PlacesOK'
  <2>1. CASE Asks(g) \/ FindsValid(g) \/ Wakes(g)
    BY <2>1 DEF Asks, FindsValid, Wakes
  <2>2. CASE FindsExpired(g)
    BY <2>2 DEF FindsExpired
  <2>3. CASE GivesUp(g)
    BY <2>3 DEF GivesUp
  <2>4. CASE ColdReconnect(g)
    BY <2>4 DEF ColdReconnect, ColdHolds, ColdCloses
  <2> QED
    BY <1>6, <2>1, <2>2, <2>3, <2>4 DEF Waiting
<1>7. CASE UNCHANGED vars
  BY <1>7 DEF vars
<1> QED
  BY <1>1, <1>2, <1>3, <1>4, <1>5, <1>6, <1>7 DEF Next, Run, Everyone

\* Calls stay at known places.
LEMMA CallsStay ==
    ASSUME CallsOK, [Next]_vars PROVE CallsOK'
<1> USE DEF CallsOK, Everyone
<1>1. CASE Expires \/ TimesOut \/ HoldElapses \/ Stop
  BY <1>1 DEF Expires, TimesOut, HoldElapses, Stop
<1>2. CASE App
  <2>1. CASE AppToken
    BY <2>1 DEF AppToken
  <2>2. CASE AppComesWithout
    BY <2>2 DEF AppComesWithout
  <2>3. CASE AppReady \/ AppIsVerified
    BY <2>3 DEF AppReady, AppIsVerified
  <2>4. CASE Reconnect
    BY <2>4 DEF Reconnect, ReconnectSignals, ReconnectCloses
  <2> QED
    BY <1>2, <2>1, <2>2, <2>3, <2>4 DEF App
<1>3. CASE RunTops \/ TokenFn \/ TokenComes \/ SleepsFiveSeconds
  BY <1>3 DEF TokenFn, RunTops, RunIsReady, RunIsStopped, AsksForToken,
         HasNoToken, TokenComes, TokenFails,
         TokenArrives, SleepsFiveSeconds
<1>4. CASE DialFails \/ Dials \/ Authenticates \/ ConnectionEnds
  BY <1>4 DEF DialFails, Dials, Authenticates, ConnectionEnds
<1>5. CASE Delay
  BY <1>5 DEF Delay, SkipsDelay, BeginsDelay, DelayIsStopped, DelayIsCutShort,
         DelayElapses
<1>6. ASSUME NEW g \in Everyone, Asks(g) \/ Waiting(g) PROVE CallsOK'
  <2>1. CASE Asks(g) \/ FindsValid(g) \/ Wakes(g)
    BY <2>1 DEF Asks, FindsValid, Wakes
  <2>2. CASE FindsExpired(g)
    BY <2>2 DEF FindsExpired
  <2>3. CASE GivesUp(g)
    BY <2>3 DEF GivesUp
  <2>4. CASE ColdReconnect(g)
    BY <2>4 DEF ColdReconnect, ColdHolds, ColdCloses
  <2> QED
    BY <1>6, <2>1, <2>2, <2>3, <2>4 DEF Waiting
<1>7. CASE UNCHANGED vars
  BY <1>7 DEF vars
<1> QED
  BY <1>1, <1>2, <1>3, <1>4, <1>5, <1>6, <1>7 DEF Next, Run, Everyone

\* Credentials are those of an app that has come.
LEMMA AppsStay ==
    ASSUME AppsOK, [Next]_vars PROVE AppsOK'
<1> USE ConstantsOK DEF ConstantsOK, AppsOK
<1>1. CASE Expires \/ TimesOut \/ HoldElapses \/ Stop
  BY <1>1 DEF Expires, TimesOut, HoldElapses, Stop
<1>2. CASE App
  <2>1. CASE AppToken
    <3>1. apps' = apps + 1 /\ creds' = apps + 1 /\ apps < Apps
      BY <2>1 DEF AppToken
    <3>2. UNCHANGED <<session, reached>>
      BY <2>1 DEF AppToken
    <3> QED
      BY <3>1, <3>2
  <2>2. CASE AppComesWithout
    BY <2>2 DEF AppComesWithout
  <2>3. CASE AppReady \/ AppIsVerified
    BY <2>3 DEF AppReady, AppIsVerified
  <2>4. CASE Reconnect
    BY <2>4 DEF Reconnect, ReconnectSignals, ReconnectCloses
  <2> QED
    BY <1>2, <2>1, <2>2, <2>3, <2>4 DEF App
<1>3. CASE RunTops \/ TokenFn \/ TokenComes \/ SleepsFiveSeconds
  BY <1>3 DEF TokenFn, RunTops, RunIsReady, RunIsStopped, AsksForToken,
         HasNoToken, TokenComes, TokenFails,
         TokenArrives, SleepsFiveSeconds
<1>4. CASE DialFails \/ Dials \/ Authenticates \/ ConnectionEnds
  BY <1>4 DEF DialFails, Dials, Authenticates, ConnectionEnds
<1>5. CASE Delay
  BY <1>5 DEF Delay, SkipsDelay, BeginsDelay, DelayIsStopped, DelayIsCutShort,
         DelayElapses
<1>6. ASSUME NEW g \in Everyone, Asks(g) \/ Waiting(g) PROVE AppsOK'
  <2>1. CASE Asks(g) \/ FindsValid(g) \/ Wakes(g)
    BY <2>1 DEF Asks, FindsValid, Wakes
  <2>2. CASE FindsExpired(g)
    BY <2>2 DEF FindsExpired
  <2>3. CASE GivesUp(g)
    BY <2>3 DEF GivesUp
  <2>4. CASE ColdReconnect(g)
    BY <2>4 DEF ColdReconnect, ColdHolds, ColdCloses
  <2> QED
    BY <1>6, <2>1, <2>2, <2>3, <2>4 DEF Waiting
<1>7. CASE UNCHANGED vars
  BY <1>7 DEF vars
<1> QED
  BY <1>1, <1>2, <1>3, <1>4, <1>5, <1>6, <1>7 DEF Next, Run, Everyone

\* The channel is closed when jwt_api is replaced.
LEMMA ChannelStays ==
    ASSUME ChannelOK, [Next]_vars PROVE ChannelOK'
<1> USE DEF ChannelOK
<1>1. CASE Expires \/ TimesOut \/ HoldElapses \/ Stop
  BY <1>1 DEF Expires, TimesOut, HoldElapses, Stop
<1>2. CASE App
  <2>1. CASE AppToken
    BY <2>1 DEF AppToken
  <2>2. CASE AppComesWithout
    BY <2>2 DEF AppComesWithout
  <2>3. CASE AppReady \/ AppIsVerified
    BY <2>3 DEF AppReady, AppIsVerified
  <2>4. CASE Reconnect
    BY <2>4 DEF Reconnect, ReconnectSignals, ReconnectCloses
  <2> QED
    BY <1>2, <2>1, <2>2, <2>3, <2>4 DEF App
<1>3. CASE RunTops \/ TokenFn \/ TokenComes \/ SleepsFiveSeconds
  BY <1>3 DEF TokenFn, RunTops, RunIsReady, RunIsStopped, AsksForToken,
         HasNoToken, TokenComes, TokenFails,
         TokenArrives, SleepsFiveSeconds
<1>4. CASE DialFails \/ Dials \/ Authenticates \/ ConnectionEnds
  BY <1>4 DEF DialFails, Dials, Authenticates, ConnectionEnds
<1>5. CASE Delay
  BY <1>5 DEF Delay, SkipsDelay, BeginsDelay, DelayIsStopped, DelayIsCutShort,
         DelayElapses
<1>6. ASSUME NEW g \in Everyone, Asks(g) \/ Waiting(g) PROVE ChannelOK'
  <2>1. CASE Asks(g) \/ FindsValid(g) \/ Wakes(g)
    BY <2>1 DEF Asks, FindsValid, Wakes
  <2>2. CASE FindsExpired(g)
    BY <2>2 DEF FindsExpired
  <2>3. CASE GivesUp(g)
    BY <2>3 DEF GivesUp
  <2>4. CASE ColdReconnect(g)
    BY <2>4 DEF ColdReconnect, ColdHolds, ColdCloses
  <2> QED
    BY <1>6, <2>1, <2>2, <2>3, <2>4 DEF Waiting
<1>7. CASE UNCHANGED vars
  BY <1>7 DEF vars
<1> QED
  BY <1>1, <1>2, <1>3, <1>4, <1>5, <1>6, <1>7 DEF Next, Run, Everyone

\* The timer runs while the channel is open.
LEMMA TimerStays ==
    ASSUME TimerOK, [Next]_vars PROVE TimerOK'
<1> USE DEF TimerOK
<1>1. CASE Expires \/ TimesOut \/ HoldElapses \/ Stop
  BY <1>1 DEF Expires, TimesOut, HoldElapses, Stop
<1>2. CASE App
  <2>1. CASE AppToken
    BY <2>1 DEF AppToken
  <2>2. CASE AppComesWithout
    BY <2>2 DEF AppComesWithout
  <2>3. CASE AppReady \/ AppIsVerified
    BY <2>3 DEF AppReady, AppIsVerified
  <2>4. CASE Reconnect
    BY <2>4 DEF Reconnect, ReconnectSignals, ReconnectCloses
  <2> QED
    BY <1>2, <2>1, <2>2, <2>3, <2>4 DEF App
<1>3. CASE RunTops \/ TokenFn \/ TokenComes \/ SleepsFiveSeconds
  BY <1>3 DEF TokenFn, RunTops, RunIsReady, RunIsStopped, AsksForToken,
         HasNoToken, TokenComes, TokenFails,
         TokenArrives, SleepsFiveSeconds
<1>4. CASE DialFails \/ Dials \/ Authenticates \/ ConnectionEnds
  BY <1>4 DEF DialFails, Dials, Authenticates, ConnectionEnds
<1>5. CASE Delay
  BY <1>5 DEF Delay, SkipsDelay, BeginsDelay, DelayIsStopped, DelayIsCutShort,
         DelayElapses
<1>6. ASSUME NEW g \in Everyone, Asks(g) \/ Waiting(g) PROVE TimerOK'
  <2>1. CASE Asks(g) \/ FindsValid(g) \/ Wakes(g)
    BY <2>1 DEF Asks, FindsValid, Wakes
  <2>2. CASE FindsExpired(g)
    BY <2>2 DEF FindsExpired
  <2>3. CASE GivesUp(g)
    BY <2>3 DEF GivesUp
  <2>4. CASE ColdReconnect(g)
    BY <2>4 DEF ColdReconnect, ColdHolds, ColdCloses
  <2> QED
    BY <1>6, <2>1, <2>2, <2>3, <2>4 DEF Waiting
<1>7. CASE UNCHANGED vars
  BY <1>7 DEF vars
<1> QED
  BY <1>1, <1>2, <1>3, <1>4, <1>5, <1>6, <1>7 DEF Next, Run, Everyone

\* No step but the one that wakes the sleepers takes the channel away.
LEMMA SleepersStay ==
    ASSUME CallsOK, SleepersOK, [Next]_vars PROVE SleepersOK'
<1> SUFFICES ASSUME NEW h \in Everyone, calls'[h] = "waits"
             PROVE  tokenExpiredCh'
  BY DEF SleepersOK
<1> DEFINE Sleeps == calls'[h] = "waits" => calls[h] = "waits"
           Keeps == tokenExpiredCh' = tokenExpiredCh
<1> USE DEF CallsOK
<1>1. CASE Expires \/ TimesOut \/ HoldElapses \/ Stop
  <2>1. Sleeps /\ Keeps
    BY <1>1 DEF Expires, TimesOut, HoldElapses, Stop
  <2> QED
    BY <2>1 DEF SleepersOK
<1>2. CASE AppToken
  BY <1>2 DEF AppToken
<1>3. CASE AppComesWithout \/ AppReady \/ AppIsVerified \/ Reconnect
  <2>1. Sleeps /\ Keeps
    BY <1>3 DEF AppComesWithout, AppReady, AppIsVerified, Reconnect,
                ReconnectSignals, ReconnectCloses
  <2> QED
    BY <2>1 DEF SleepersOK
<1>4. CASE RunTops \/ TokenFn \/ TokenComes \/ SleepsFiveSeconds
  <2>1. Sleeps /\ Keeps
    BY <1>4 DEF TokenFn, RunTops, RunIsReady, RunIsStopped, AsksForToken,
                HasNoToken, TokenComes, TokenFails, TokenArrives,
                SleepsFiveSeconds
  <2> QED
    BY <2>1 DEF SleepersOK
<1>5. CASE DialFails \/ Dials \/ Authenticates \/ ConnectionEnds \/ Delay
  <2>1. Sleeps /\ Keeps
    BY <1>5 DEF DialFails, Dials, Authenticates, ConnectionEnds, Delay,
                SkipsDelay, BeginsDelay, DelayIsStopped, DelayIsCutShort,
                DelayElapses
  <2> QED
    BY <2>1 DEF SleepersOK
<1>6. ASSUME NEW g \in Everyone, FindsExpired(g) PROVE tokenExpiredCh'
  BY <1>6 DEF FindsExpired
<1>7. ASSUME NEW g \in Everyone,
             Asks(g) \/ FindsValid(g) \/ Wakes(g) \/ GivesUp(g) \/ ColdReconnect(g)
      PROVE  tokenExpiredCh'
  <2>1. Sleeps /\ Keeps
    BY <1>7 DEF Asks, FindsValid, Wakes, GivesUp, ColdReconnect, ColdHolds,
           ColdCloses
  <2> QED
    BY <2>1 DEF SleepersOK
<1>8. CASE UNCHANGED vars
  BY <1>8 DEF vars, SleepersOK
<1> QED
  BY <1>1, <1>2, <1>3, <1>4, <1>5, <1>6, <1>7, <1>8
     DEF Next, App, Run, Waiting, Everyone

\* isConnected stays within a connection.
LEMMA MarkStays ==
    ASSUME ConnectedMeansUp, HasConnection,
           [Next]_vars PROVE (ConnectedMeansUp /\ HasConnection)'
<1> USE DEF ConnectedMeansUp, HasConnection
<1>1. CASE Expires \/ TimesOut \/ HoldElapses \/ Stop
  BY <1>1 DEF Expires, TimesOut, HoldElapses, Stop
<1>2. CASE App
  <2>1. CASE AppToken
    BY <2>1 DEF AppToken
  <2>2. CASE AppComesWithout
    BY <2>2 DEF AppComesWithout
  <2>3. CASE AppReady \/ AppIsVerified
    BY <2>3 DEF AppReady, AppIsVerified
  <2>4. CASE Reconnect
    BY <2>4 DEF Reconnect, ReconnectSignals, ReconnectCloses
  <2> QED
    BY <1>2, <2>1, <2>2, <2>3, <2>4 DEF App
<1>3. CASE RunTops \/ TokenFn \/ TokenComes \/ SleepsFiveSeconds
  BY <1>3 DEF TokenFn, RunTops, RunIsReady, RunIsStopped, AsksForToken,
         HasNoToken, TokenComes, TokenFails,
         TokenArrives, SleepsFiveSeconds
<1>4. CASE DialFails \/ Dials \/ Authenticates \/ ConnectionEnds
  BY <1>4 DEF DialFails, Dials, Authenticates, ConnectionEnds
<1>5. CASE Delay
  BY <1>5 DEF Delay, SkipsDelay, BeginsDelay, DelayIsStopped, DelayIsCutShort,
         DelayElapses
<1>6. ASSUME NEW g \in Everyone,
       Asks(g) \/ Waiting(g) PROVE (ConnectedMeansUp /\ HasConnection)'
  <2>1. CASE Asks(g) \/ FindsValid(g)
    BY <2>1 DEF Asks, FindsValid
  <2>5. CASE Wakes(g)
    BY <2>5 DEF Wakes
  <2>2. CASE FindsExpired(g)
    BY <2>2 DEF FindsExpired
  <2>3. CASE GivesUp(g)
    BY <2>3 DEF GivesUp
  <2>4. CASE ColdReconnect(g)
    BY <2>4 DEF ColdReconnect, ColdHolds, ColdCloses
  <2> QED
    BY <1>6, <2>1, <2>2, <2>3, <2>4, <2>5 DEF Waiting
<1>7. CASE UNCHANGED vars
  BY <1>7 DEF vars
<1> QED
  BY <1>1, <1>2, <1>3, <1>4, <1>5, <1>6, <1>7 DEF Next, Run, Everyone

\* An old session stays known.
LEMMA SessionsStay ==
    ASSUME AppsOK, MakesKnown, StaysKnown,
           [Next]_vars PROVE (MakesKnown /\ StaysKnown)'
<1> USE DEF MakesKnown, StaysKnown, Connecting, AppsOK
<1>1. CASE Expires \/ TimesOut \/ HoldElapses \/ Stop
  BY <1>1 DEF Expires, TimesOut, HoldElapses, Stop
<1>2. CASE App
  <2>1. CASE AppToken
    BY <2>1 DEF AppToken
  <2>2. CASE AppComesWithout
    BY <2>2 DEF AppComesWithout
  <2>3. CASE AppReady \/ AppIsVerified
    BY <2>3 DEF AppReady, AppIsVerified
  <2>4. CASE Reconnect
    BY <2>4 DEF Reconnect, ReconnectSignals, ReconnectCloses
  <2> QED
    BY <1>2, <2>1, <2>2, <2>3, <2>4 DEF App
<1>3. CASE RunTops \/ TokenFn \/ TokenComes \/ SleepsFiveSeconds
  BY <1>3 DEF TokenFn, RunTops, RunIsReady, RunIsStopped, AsksForToken,
         HasNoToken, TokenComes, TokenFails,
         TokenArrives, SleepsFiveSeconds
<1>4. CASE DialFails \/ Dials \/ Authenticates \/ ConnectionEnds
  BY <1>4 DEF DialFails, Dials, Authenticates, ConnectionEnds
<1>5. CASE Delay
  BY <1>5 DEF Delay, SkipsDelay, BeginsDelay, DelayIsStopped, DelayIsCutShort,
         DelayElapses
<1>6. ASSUME NEW g \in Everyone,
       Asks(g) \/ Waiting(g) PROVE (MakesKnown /\ StaysKnown)'
  <2>1. CASE Asks(g) \/ FindsValid(g) \/ Wakes(g)
    BY <2>1 DEF Asks, FindsValid, Wakes
  <2>2. CASE FindsExpired(g)
    BY <2>2 DEF FindsExpired
  <2>3. CASE GivesUp(g)
    BY <2>3 DEF GivesUp
  <2>4. CASE ColdReconnect(g)
    BY <2>4 DEF ColdReconnect, ColdHolds, ColdCloses
  <2> QED
    BY <1>6, <2>1, <2>2, <2>3, <2>4 DEF Waiting
<1>7. CASE UNCHANGED vars
  BY <1>7 DEF vars
<1> QED
  BY <1>1, <1>2, <1>3, <1>4, <1>5, <1>6, <1>7 DEF Next, Run, Everyone

LEMMA Inductive == Inv /\ [Next]_vars => Inv'
<1> SUFFICES ASSUME Inv, [Next]_vars PROVE Inv'
  OBVIOUS
<1>1. FlagsOK' /\ CallsOK' /\ PlacesOK' /\ AppsOK'
  BY FlagsStay, CallsStay, PlacesStay, AppsStay DEF Inv, TypeOK
<1>2. TimerOK'
  BY TimerStays DEF Inv, TypeOK, TimerOK
<1>3. ChannelOK' /\ SleepersOK'
  BY ChannelStays, SleepersStay DEF Inv, TypeOK, NoSleepOverToken, ChannelOK,
         SleepersOK
<1>4. ConnectedMeansUp' /\ HasConnection'
  BY MarkStays DEF Inv
<1>5. MakesKnown' /\ StaysKnown'
  BY SessionsStay DEF Inv, TypeOK
<1> QED
  BY <1>1, <1>2, <1>3, <1>4, <1>5
     DEF Inv, TypeOK, TimerOK, NoSleepOverToken, ChannelOK, SleepersOK

\* The inductive invariant holds, and with it the types.
THEOREM Invariance == Spec => []Inv
<1>1. Inv /\ UNCHANGED vars => Inv'
  BY Inductive
<1> QED
  BY Initially, Inductive, <1>1, PTL DEF Spec

\* TypeOK: no token was made with the credentials of an app that had not come by
\* then (handleAppConnect, CreateWSToken).
THEOREM TypeCorrect == Spec => []TypeOK
<1>1. Inv => TypeOK
  BY DEF Inv
<1> QED
  BY Invariance, <1>1, PTL

\* NoSleepOverToken: whoever waits in waitForValidToken waits on the channel the
\* next handleAppConnect closes.
THEOREM SleepersAreReached == Spec => []NoSleepOverToken
<1>1. Inv => NoSleepOverToken
  BY DEF Inv
<1> QED
  BY Invariance, <1>1, PTL

\* ConnectedMeansUp: isConnected, which SendBatch trusts, does not outlive
\* connectAndRun.
THEOREM MarkIsTrue == Spec => []ConnectedMeansUp
<1>1. Inv => ConnectedMeansUp
  BY DEF Inv
<1> QED
  BY Invariance, <1>1, PTL

\* OnlyDialsAreMissed: Reconnect leaves an older session up only when it comes
\* while the connection is being made.
THEOREM LastAppConnects == Spec => []OnlyDialsAreMissed
<1>1. Inv => OnlyDialsAreMissed
  BY DEF Inv, StaysKnown, OnlyDialsAreMissed
<1> QED
  BY Invariance, <1>1, PTL
=============================================================================
