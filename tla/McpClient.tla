----------------------------- MODULE McpClient -----------------------------
(***************************************************************************)
(* The connections of src/mcp/client.ts to one configured MCP server: a    *)
(* map entry that connectServer() fills, a health check that runs on the   *)
(* entry every interval, and reloadMcpConnections()/closeMcpConnections(), *)
(* which empty the map.  None of them waits for another.                   *)
(*                                                                         *)
(* A connection is named by the connectServer() call that opens it.  What  *)
(* a server offers is left out but for whether tools/list was answered; a  *)
(* transport that cannot be created, a refusal and a timeout are failures. *)
(***************************************************************************)
EXTENDS Naturals, FiniteSets

CONSTANTS Keys,         \* what a server's configuration hashes to
          Calls,        \* connectServer() calls
          MaxFailures,  \* MAX_CONSECUTIVE_FAILURES
          MaxFaults,    \* bound on failures, deaths and reloads
          None

McpAssumption ==
    None \notin Calls /\ MaxFailures \in Nat \ {0} /\ MaxFaults \in Nat

VARIABLES config,      \* the key in the settings file
          registered,  \* the entry of the map `connections`
          timer,       \* healthCheckTimer
          call,        \* the calls: at, key, existing, got
          conn,        \* the connections: see NewConnection
          faults

vars == <<config, registered, timer, call, conn, faults>>

Unused == [at |-> "unused", key |-> None, existing |-> None, got |-> None]

\* live: a server process or session is attached to the client.
NewConnection(key) ==
    [key |-> key, state |-> "connecting", failures |-> 0, error |-> FALSE,
     live |-> FALSE, check |-> "none", closing |-> FALSE]

Init ==
    /\ config \in Keys
    /\ registered = None
    /\ timer = FALSE
    /\ call = [c \in Calls |-> Unused]
    /\ conn = [c \in Calls |-> NewConnection(None)]
    /\ faults = 0

Fault == faults < MaxFaults /\ faults' = faults + 1

\* The settings file is edited.
Configure(key) ==
    /\ key # config /\ Fault
    /\ config' = key
    /\ UNCHANGED <<registered, timer, call, conn>>

(***************************************************************************)
(* connectServer                                                           *)
(***************************************************************************)
\* A lookup that ignores a changed configuration.
MutReusable(c) == c # None /\ conn[c].state = "connected"
Reusable(c) ==
    c # None /\ conn[c].key = config /\ conn[c].state \in {"connected", "connecting"}

Begins(c) ==
    /\ call[c].at = "unused"
    /\ \A b \in Calls : b < c => call[b].at # "unused"

Reuse(c) ==
    /\ Begins(c) /\ Reusable(registered)
    /\ call' = [call EXCEPT ![c] = [at |-> "returned", key |-> config,
                                    existing |-> registered, got |-> registered]]
    /\ UNCHANGED <<config, registered, timer, conn, faults>>

\* An entry of another configuration is closed first; a failed one is not.
Connect(c) ==
    /\ Begins(c) /\ ~Reusable(registered)
    /\ LET outdated == registered # None /\ conn[registered].key # config
       IN /\ call' = [call EXCEPT ![c] =
                  [at |-> IF outdated THEN "closing" ELSE "connecting",
                   key |-> config, existing |-> registered, got |-> None]]
          /\ conn' = [b \in Calls |->
                  IF b = c THEN NewConnection(config)
                  ELSE IF outdated /\ b = registered
                       THEN [conn[b] EXCEPT !.closing = TRUE] ELSE conn[b]]
    /\ UNCHANGED <<config, registered, timer, faults>>

\* connections.delete(name): of whatever entry there is by then.
ExistingClosed(c) ==
    /\ call[c].at = "closing"
    /\ call' = [call EXCEPT ![c].at = "connecting"]
    /\ conn' = [conn EXCEPT ![call[c].existing].live = FALSE]
    /\ registered' = None
    /\ UNCHANGED <<config, timer, faults>>

Returns(c) == call' = [call EXCEPT ![c].at = "returned", ![c].got = c]

\* Connected; tools/list may have failed, which leaves an error behind.
Connected(c, listed) ==
    /\ call[c].at = "connecting"
    /\ IF listed THEN UNCHANGED faults ELSE Fault
    /\ Returns(c)
    /\ conn' = [conn EXCEPT ![c].state = "connected", ![c].live = TRUE,
                            ![c].error = ~listed]
    /\ registered' = c
    /\ timer' = TRUE
    /\ UNCHANGED config

Failures(c) == IF c = None THEN 0 ELSE conn[c].failures

\* A server that did not answer in time may have been started all the same.
ConnectFails(c, live) ==
    /\ call[c].at = "connecting"
    /\ Fault
    /\ Returns(c)
    /\ conn' = [conn EXCEPT ![c].state = "error", ![c].live = live,
                            ![c].error = TRUE,
                            ![c].failures = Failures(call[c].existing) + 1]
    /\ registered' = c
    /\ UNCHANGED <<config, timer>>

(***************************************************************************)
(* healthCheck and reconnectServer.  A ping times out long before the next *)
(* interval, and a check of a reconnecting entry returns at once, so that  *)
(* an entry has one check at most.                                         *)
(***************************************************************************)
Check(c, at) == conn[c].check = at /\ UNCHANGED <<config, registered, timer, call>>

Tick ==
    LET c == registered
    IN /\ timer /\ c # None
       /\ conn[c].state \in {"connected", "error"}
       /\ Check(c, "none")
       /\ conn' = [conn EXCEPT ![c].check = "ping"]
       /\ UNCHANGED faults

PingAnswered(c) ==
    /\ Check(c, "ping") /\ conn[c].live
    /\ conn' = [conn EXCEPT ![c] =
           IF conn[c].state = "connected" THEN [@ EXCEPT !.check = "none"]
           ELSE [@ EXCEPT !.check = "none", !.state = "connected",
                          !.failures = 0, !.error = FALSE]]
    /\ UNCHANGED faults

\* A check that reconnects as long as it is told to.
MutMayReconnect(failures) == TRUE
MayReconnect(failures) == failures < MaxFailures

PingFails(c) ==
    /\ Check(c, "ping")
    /\ IF conn[c].live THEN Fault ELSE UNCHANGED faults
    /\ LET failed == IF conn[c].state # "connected" THEN conn
                     ELSE [conn EXCEPT ![c].state = "error", ![c].error = TRUE,
                                       ![c].failures = @ + 1]
       IN conn' = IF MayReconnect(failed[c].failures)
                  THEN [failed EXCEPT ![c].state = "reconnecting",
                                      ![c].check = "close"]
                  ELSE [failed EXCEPT ![c].check = "none"]

ReconnectCloses(c) ==
    /\ Check(c, "close")
    /\ conn' = [conn EXCEPT ![c].check = "reconnect", ![c].live = FALSE]
    /\ UNCHANGED faults

Reconnected(c) ==
    /\ Check(c, "reconnect")
    /\ conn' = [conn EXCEPT ![c].check = "none", ![c].state = "connected",
                            ![c].failures = 0, ![c].error = FALSE,
                            ![c].live = TRUE]
    /\ UNCHANGED faults

ReconnectFails(c, live) ==
    /\ Check(c, "reconnect")
    /\ Fault
    /\ conn' = [conn EXCEPT ![c].check = "none", ![c].state = "error",
                            ![c].failures = @ + 1, ![c].error = TRUE,
                            ![c].live = live]

(***************************************************************************)
(* reloadMcpConnections, closeMcpConnections: a reload's calls of          *)
(* connectServer() are calls like the others.                              *)
(***************************************************************************)
\* A reload that stops the timer and keeps the entry until it is closed.
MutAfterClear == registered
AfterClear == None

Clear ==
    /\ registered # None /\ Fault
    /\ registered' = AfterClear
    /\ timer' = FALSE
    /\ conn' = [conn EXCEPT ![registered].closing = TRUE]
    /\ UNCHANGED <<config, call>>

Closed(c) ==
    /\ conn[c].closing
    /\ conn' = [conn EXCEPT ![c].closing = FALSE, ![c].live = FALSE]
    /\ UNCHANGED <<config, registered, timer, call, faults>>

ServerDies(c) ==
    /\ conn[c].live /\ Fault
    /\ conn' = [conn EXCEPT ![c].live = FALSE]
    /\ UNCHANGED <<config, registered, timer, call>>

\* What timers and answers bring about.
CallStep(c) ==
    \/ ExistingClosed(c) \/ \E listed \in BOOLEAN : Connected(c, listed)
    \/ \E live \in BOOLEAN : ConnectFails(c, live)

CheckStep(c) ==
    \/ PingAnswered(c) \/ PingFails(c) \/ ReconnectCloses(c) \/ Reconnected(c)
    \/ \E live \in BOOLEAN : ReconnectFails(c, live)

Next ==
    \/ \E key \in Keys : Configure(key)
    \/ \E c \in Calls : Reuse(c) \/ Connect(c) \/ Closed(c) \/ ServerDies(c)
                        \/ CallStep(c) \/ CheckStep(c)
    \/ Tick \/ Clear

Spec == Init /\ [][Next]_vars

Fairness ==
    /\ WF_vars(Tick)
    /\ \A c \in Calls : WF_vars(CallStep(c)) /\ WF_vars(CheckStep(c))

-----------------------------------------------------------------------------
(***************************************************************************)
(* Properties                                                              *)
(***************************************************************************)
TypeOK ==
    /\ config \in Keys /\ registered \in Calls \cup {None} /\ timer \in BOOLEAN
    /\ faults \in 0..MaxFaults
    /\ \A c \in Calls :
           /\ call[c].at \in {"unused", "closing", "connecting", "returned"}
           /\ call[c].key \in Keys \cup {None}
           /\ {call[c].existing, call[c].got} \subseteq Calls \cup {None}
           /\ conn[c].state \in {"connecting", "connected", "error", "reconnecting"}
           /\ conn[c].check \in {"none", "ping", "close", "reconnect"}
           /\ conn[c].failures \in Nat

\* A server listed as connected is one the health checks look at, however
\* connects, reloads and reconnects overlapped.
HealthChecked ==
    registered # None /\ conn[registered].state = "connected" => timer

\* After a change of the configuration no caller is given a connection that
\* was opened under the old one.
FreshConfig ==
    \A c \in Calls : call[c].got # None => conn[call[c].got].key = call[c].key

\* Reconnecting stops for good after MAX_CONSECUTIVE_FAILURES: no check is
\* reconnecting a server that has failed as often.
GivesUp ==
    \A c \in Calls :
        conn[c].check \in {"close", "reconnect"} => conn[c].failures < MaxFailures

McpSafe == HealthChecked /\ FreshConfig /\ GivesUp

\* What must not last: a dead server listed as connected, a call under way
Unnoticed(c) == registered = c /\ conn[c].state = "connected" /\ ~conn[c].live
Connecting(c) == call[c].at \notin {"unused", "returned"}

=============================================================================
