--------------------------- MODULE RealtimeSocket ---------------------------
(***************************************************************************)
(* useRealtimeSocket: one hook instance that keeps a WebSocket open to the *)
(* url its component asks for, through lost connections, refused           *)
(* handshakes and changes of url.                                          *)
(*                                                                         *)
(* Each run of the effect has a generation, which its cleanup cancels; the *)
(* sockets it opened live on until their close event is delivered, and a   *)
(* close event of an old socket may arrive at any time later.              *)
(***************************************************************************)
EXTENDS Naturals, FiniteSets

CONSTANTS
    Urls, Null,     \* what can be asked for; nothing
    Reachable,      \* urls to which the browser attaches the session cookie
    MaxRuns,        \* bound: runs of the effect
    MaxFaults       \* bound: connections lost, handshakes refused, sockets not made

ASSUME RealtimeAssumption ==
    /\ Null \notin Urls /\ Reachable \subseteq Urls
    /\ MaxRuns \in Nat \ {0} /\ MaxFaults \in Nat

\* RECONNECT_MIN_MS and RECONNECT_MAX_MS, in seconds
MIN_DELAY == 1
MAX_DELAY == 5

NoTimer == [delay |-> 0]
Runs == 1..MaxRuns

VARIABLES
    url,        \* the url of the last rendering
    run,        \* the run of the effect that is not cancelled
    sockets,    \* the sockets whose close event is still to come
    ref,        \* socketRef: the run whose socket it holds, 0 for null
    timer,      \* timerRef: the reconnection that is due, and for which run
    delay,      \* delayRef
    status,
    faults

hookVars == <<url, run, sockets, ref, timer, delay, status, faults>>

\* A run has at most one socket: the next is made after the last one's close.
Socket == [run : Runs, url : Urls, state : {"connecting", "open", "closing"}]
Timer == [run : Runs, url : Urls, delay : MIN_DELAY..MAX_DELAY]

HookTypeOK ==
    /\ url \in Urls \cup {Null} /\ run \in Runs
    /\ sockets \subseteq Socket
    /\ \A a, b \in sockets : a.run = b.run => a = b
    /\ ref \in Runs \cup {0}
    /\ timer \in Timer \cup {NoTimer}
    /\ delay \in MIN_DELAY..MAX_DELAY
    /\ status \in {"idle", "connecting", "open", "reconnecting"}
    /\ faults \in 0..MaxFaults

\* What each run of the effect was made for is in its closure: cancelled is
\* set by the cleanup, when the next run starts.
cancelled(r) == r # run

Due(r, u, d) == [run |-> r, url |-> u, delay |-> d]
Connecting(r, u) == [run |-> r, url |-> u, state |-> "connecting"]

-----------------------------------------------------------------------------
cookieWillReach(u) == u \in Reachable

\* The cleanup of the last run: its timer is cleared, its socket is closed and
\* will say so later.
Closing == {IF s.run = ref THEN [s EXCEPT !.state = "closing"] ELSE s : s \in sockets}

\* The constructor of a WebSocket throws: none is made, and scheduleReconnect is called.
Throws == faults < MaxFaults /\ faults' = faults + 1

\* The component asks for another url, or for none (no channel, no workspace,
\* the page is left): cleanup, then a new run of the effect.
UrlChanges(u) ==
    /\ u # url /\ run < MaxRuns
    /\ url' = u /\ run' = run + 1
    /\ IF u # Null /\ cookieWillReach(u)
       THEN /\ delay' = MIN_DELAY /\ status' = "connecting"
            /\ \/ /\ sockets' = Closing \cup {Connecting(run + 1, u)} /\ ref' = run + 1
                  /\ timer' = NoTimer /\ UNCHANGED faults
               \/ /\ sockets' = Closing /\ ref' = 0 /\ Throws
                  /\ timer' = Due(run + 1, u, MIN_DELAY)
       ELSE /\ sockets' = Closing /\ ref' = 0 /\ timer' = NoTimer /\ status' = "idle"
            /\ delay' = IF u = Null THEN delay ELSE MIN_DELAY
            /\ UNCHANGED faults

\* The open event.
Opened(s) ==
    /\ s \in sockets /\ s.state = "connecting"
    /\ sockets' = (sockets \ {s}) \cup {[s EXCEPT !.state = "open"]}
    /\ delay' = MIN_DELAY /\ status' = "open"
    /\ UNCHANGED <<url, run, ref, timer, faults>>

\* The server refuses the handshake, or the connection is lost.
Lost(s) ==
    /\ s \in sockets /\ s.state \in {"connecting", "open"}
    /\ faults < MaxFaults /\ faults' = faults + 1
    /\ sockets' = (sockets \ {s}) \cup {[s EXCEPT !.state = "closing"]}
    /\ UNCHANGED <<url, run, ref, timer, delay, status>>

\* Mutant: a socket of an older run reconnects too.
mut_SchedulesForAnyRun(r, u) == timer' = Due(r, u, delay)

\* A timer that is due already is cleared.
scheduleReconnect(r, u) ==
    timer' = IF cancelled(r) THEN timer ELSE Due(r, u, delay)

\* Mutant: only a connection that had opened is made again.
mut_ClosedReconnectsOnlyFromOpen(s) ==
    /\ s \in sockets /\ s.state = "closing"
    /\ sockets' = sockets \ {s}
    /\ status' = "reconnecting"
    /\ IF status = "open" THEN scheduleReconnect(s.run, s.url) ELSE UNCHANGED timer
    /\ UNCHANGED <<url, run, ref, delay, faults>>

\* The close event, which an error always comes before.  The status is set
\* whichever run the socket was of.
Closed(s) ==
    /\ s \in sockets /\ s.state = "closing"
    /\ sockets' = sockets \ {s}
    /\ status' = "reconnecting"
    /\ scheduleReconnect(s.run, s.url)
    /\ UNCHANGED <<url, run, ref, delay, faults>>

\* connect, from the timer: the delay is doubled by then.
connect(r, u) ==
    IF cancelled(r) THEN timer' = NoTimer /\ UNCHANGED <<sockets, ref, faults>>
    ELSE \/ /\ sockets' = sockets \cup {Connecting(r, u)} /\ ref' = r
            /\ timer' = NoTimer /\ UNCHANGED faults
         \/ Throws /\ timer' = Due(r, u, delay') /\ UNCHANGED <<sockets, ref>>

TimerFires ==
    /\ timer # NoTimer
    /\ delay' = IF delay * 2 < MAX_DELAY THEN delay * 2 ELSE MAX_DELAY
    /\ connect(timer.run, timer.url)
    /\ UNCHANGED <<url, run, status>>

-----------------------------------------------------------------------------
\* The first rendering asks for nothing: the channel and the workspace are
\* fetched first.
HookInit ==
    /\ url = Null /\ run = 1
    /\ sockets = {} /\ ref = 0 /\ timer = NoTimer
    /\ delay = MIN_DELAY /\ status = "idle" /\ faults = 0

HookNext ==
    \/ \E u \in Urls \cup {Null} : UrlChanges(u)
    \/ \E s \in sockets : Opened(s) \/ Lost(s) \/ Closed(s)
    \/ TimerFires

HookSpec == HookInit /\ [][HookNext]_hookVars

\* The browser delivers the events of its sockets and timers.  A handshake is
\* answered; it fails only while faults are left.
HookFairSpec ==
    /\ HookSpec /\ WF_hookVars(TimerFires)
    /\ \A r \in Runs :
        WF_hookVars(\E s \in sockets : s.run = r /\ (Opened(s) \/ Lost(s) \/ Closed(s)))

-----------------------------------------------------------------------------
Live == {s \in sockets : s.state # "closing"}

\* However urls change and connections fail, there is at most one socket not on
\* its way out, it is to the url asked for, no reconnection is due beside it, and
\* the hook holds it, so that the next cleanup closes it.
OneLiveSocket ==
    /\ Cardinality(Live) <= 1
    /\ \A s \in Live : s.url = url /\ s.run = ref /\ timer = NoTimer
    /\ timer # NoTimer => timer.run = run /\ timer.url = url

\* Once faults and changes of url are over, a url the cookie reaches is connected.
OpensInTheEnd ==
    <>[](url \in Reachable => \E s \in sockets : s.state = "open" /\ s.url = url)
=============================================================================
