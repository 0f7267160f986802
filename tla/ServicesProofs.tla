--------------------------- MODULE ServicesProofs ---------------------------
(***************************************************************************)
(* The invariants of the services hold for any keys, calls, servers,       *)
(* workers, agents, sessions, calls on the memory and skills, and any      *)
(* limits.                                                                 *)
(***************************************************************************)
EXTENDS Services, FiniteSetTheorems, SequenceTheorems, TLAPS

(***************************************************************************)
(* The MCP client: a connection is listed when the call that opens it      *)
(* returns, so whoever finds it finds one of the present configuration;    *)
(* one that failed for good is not checked any more.                       *)
(***************************************************************************)
\* What a connection and a call are.
McpConns ==
    [key : Keys \cup {None}, failures : Nat, error : BOOLEAN, live : BOOLEAN,
     state : {"connecting", "connected", "error", "reconnecting"},
     check : {"none", "ping", "close", "reconnect"}, closing : BOOLEAN]
McpCalls ==
    [at : {"unused", "closing", "connecting", "returned"}, key : Keys \cup {None},
     existing : Connects \cup {None}, got : Connects \cup {None}]

\* The types, and the invariant.
McpTypes ==
    /\ config \in Keys /\ connected \in Connects \cup {None} /\ healthTimer \in BOOLEAN
    /\ connect \in [Connects -> McpCalls] /\ conn \in [Connects -> McpConns]
    /\ faults \in 0..MaxFaults

\* A connection is listed, or given to a caller, only when the call that opens
\* it has returned, and is checked only from then on; until then it has the key
\* that call read.
OpenedByCall ==
    /\ connected # None => connect[connected].at = "returned"
    /\ \A c \in Connects :
          /\ connect[c].at # "returned" => conn[c].check = "none" /\ connect[c].got = None
          /\ connect[c].at \in {"closing", "connecting"} => conn[c].key = connect[c].key
          /\ connect[c].got # None => connect[connect[c].got].at = "returned"

\* Without the timer the listed entry is one that failed, and nothing checks it.
FailedUnchecked ==
    connected # None /\ ~healthTimer =>
        conn[connected].state = "error" /\ conn[connected].check = "none"

McpInv ==
    /\ McpTypes /\ OpenedByCall /\ FailedUnchecked
    /\ Mcp!FreshConfig /\ Mcp!GivesUp

\* The limits of the MCP client.
LEMMA McpBounds == None \notin Connects /\ MaxFailures \in Nat \ {0} /\ MaxFaults \in Nat
BY ServicesAssumption DEF Mcp!McpAssumption

\* Init and every action keep the invariant of the MCP client.
LEMMA McpInit == Mcp!Init => McpInv
<1> SUFFICES ASSUME Mcp!Init PROVE McpInv
  OBVIOUS
<1>1. Mcp!Unused \in McpCalls /\ Mcp!Unused.at = "unused" /\ Mcp!Unused.got = None
  BY DEF Mcp!Unused, McpCalls
<1>2. Mcp!NewConnection(None) \in McpConns /\ Mcp!NewConnection(None).check = "none"
  BY DEF Mcp!NewConnection, McpConns
<1>3. /\ config \in Keys /\ connected = None /\ healthTimer = FALSE /\ faults = 0
      /\ connect = [c \in Connects |-> Mcp!Unused]
      /\ conn = [c \in Connects |-> Mcp!NewConnection(None)]
  BY DEF Mcp!Init
<1>4. McpTypes
  <2>1. connect \in [Connects -> McpCalls] /\ conn \in [Connects -> McpConns]
    BY <1>1, <1>2, <1>3
  <2>2. 0 \in 0..MaxFaults
    BY McpBounds
  <2>3. healthTimer \in BOOLEAN
    BY <1>3
  <2> QED
    BY ONLY <1>3, <2>1, <2>2, <2>3 DEF McpTypes
<1>5. OpenedByCall /\ FailedUnchecked /\ Mcp!FreshConfig /\ Mcp!GivesUp
  BY <1>1, <1>2, <1>3 DEF OpenedByCall, FailedUnchecked, Mcp!FreshConfig, Mcp!GivesUp
<1> QED
  BY <1>4, <1>5 DEF McpInv

\* Faults are bounded.
LEMMA McpFault == McpInv /\ Mcp!Fault => faults' \in 0..MaxFaults
BY McpBounds DEF McpInv, McpTypes, Mcp!Fault

\* A step that changes one connection, and not its key.
LEMMA ConnChanged ==
    ASSUME McpInv, NEW c \in Connects, NEW r \in McpConns,
           conn' = [conn EXCEPT ![c] = r], r.key = conn[c].key,
           UNCHANGED <<config, connected, healthTimer, connect>>,
           faults' \in 0..MaxFaults,
           r.check = conn[c].check \/ r.check = "none" \/ connect[c].at = "returned",
           r.check \in {"close", "reconnect"} => r.failures < MaxFailures,
           connected = c /\ ~healthTimer => r.state = "error" /\ r.check = "none"
    PROVE  McpInv'
<1>1. McpTypes'
  BY DEF McpInv, McpTypes
<1>2. conn'[c] = r /\ \A b \in Connects : b # c => conn'[b] = conn[b]
  BY DEF McpInv, McpTypes
<1>3. OpenedByCall'
  BY <1>2 DEF McpInv, OpenedByCall
<1>4. FailedUnchecked'
  BY <1>2 DEF McpInv, McpTypes, FailedUnchecked
<1>5. Mcp!FreshConfig'
  <2>1. \A b \in Connects : conn'[b].key = conn[b].key
    BY <1>2
  <2>2. \A b \in Connects : connect[b].got \in Connects \cup {None}
    BY DEF McpInv, McpTypes, McpCalls
  <2> QED
    BY <2>1, <2>2 DEF McpInv, Mcp!FreshConfig
<1>6. Mcp!GivesUp'
  BY <1>2 DEF McpInv, Mcp!GivesUp
<1> QED
  BY <1>1, <1>3, <1>4, <1>5, <1>6 DEF McpInv

\* The connection a check is about was opened, and is only listed with a timer.
LEMMA ConnChecked ==
    ASSUME McpInv, NEW c \in Connects, conn[c].check # "none"
    PROVE  connect[c].at = "returned" /\ (connected = c => healthTimer)
BY McpBounds DEF McpInv, McpTypes, OpenedByCall, FailedUnchecked

\* The timer begins its checks;
LEMMA McpTick ==
    ASSUME McpInv, Mcp!Tick
    PROVE  McpInv'
<1> DEFINE c == connected
           r == [conn[c] EXCEPT !.check = "ping"]
<1>1. /\ healthTimer /\ c # None /\ conn[c].check = "none"
      /\ conn' = [conn EXCEPT ![c].check = "ping"]
      /\ UNCHANGED <<config, connected, healthTimer, connect, faults>>
  BY DEF Mcp!Tick, Mcp!Check
<1>2. c \in Connects /\ conn[c] \in McpConns /\ conn' = [conn EXCEPT ![c] = r]
  BY <1>1 DEF McpInv, McpTypes
<1>3. r \in McpConns /\ r.key = conn[c].key /\ r.check = "ping"
  BY ONLY <1>2 DEF McpConns
<1>4. connect[c].at = "returned"
  BY <1>1 DEF McpInv, OpenedByCall
<1> HIDE DEF r
<1> QED
  BY <1>1, <1>2, <1>3, <1>4, ConnChanged DEF McpInv, McpTypes

\* a ping is answered,
LEMMA McpPingAnswered ==
    ASSUME McpInv, NEW c \in Connects, Mcp!PingAnswered(c)
    PROVE  McpInv'
<1> DEFINE r == IF conn[c].state = "connected" THEN [conn[c] EXCEPT !.check = "none"]
                ELSE [conn[c] EXCEPT !.check = "none", !.state = "connected",
                                     !.failures = 0, !.error = FALSE]
<1>1. /\ conn[c].check = "ping" /\ conn' = [conn EXCEPT ![c] = r]
      /\ UNCHANGED <<config, connected, healthTimer, connect, faults>>
  BY DEF Mcp!PingAnswered, Mcp!Check
<1>2. conn[c] \in McpConns
  BY DEF McpInv, McpTypes
<1>3. r \in McpConns /\ r.key = conn[c].key /\ r.check = "none"
  BY ONLY <1>2 DEF McpConns
<1>4. connect[c].at = "returned" /\ (connected = c => healthTimer)
  BY <1>1, ConnChecked
<1> HIDE DEF r
<1> QED
  BY <1>1, <1>3, <1>4, ConnChanged DEF McpInv, McpTypes

\* or fails, and at the last failure a reconnect begins;
LEMMA McpPingFails ==
    ASSUME McpInv, NEW c \in Connects, Mcp!PingFails(c)
    PROVE  McpInv'
<1> DEFINE f == IF conn[c].state # "connected" THEN conn[c]
                ELSE [conn[c] EXCEPT !.state = "error", !.error = TRUE, !.failures = @ + 1]
           failed == IF conn[c].state # "connected" THEN conn
                     ELSE [conn EXCEPT ![c].state = "error", ![c].error = TRUE,
                                       ![c].failures = @ + 1]
           r == IF Mcp!MayReconnect(failed[c].failures)
                THEN [f EXCEPT !.state = "reconnecting", !.check = "close"]
                ELSE [f EXCEPT !.check = "none"]
<1>1. /\ conn[c].check = "ping" /\ faults' \in 0..MaxFaults
      /\ UNCHANGED <<config, connected, healthTimer, connect>>
      /\ conn' = IF Mcp!MayReconnect(failed[c].failures)
                 THEN [failed EXCEPT ![c].state = "reconnecting", ![c].check = "close"]
                 ELSE [failed EXCEPT ![c].check = "none"]
  BY McpFault DEF Mcp!PingFails, Mcp!Check, McpInv, McpTypes
<1>2. conn[c] \in McpConns /\ conn \in [Connects -> McpConns]
  BY DEF McpInv, McpTypes
<1>3. failed = [conn EXCEPT ![c] = f] /\ failed[c] = f
  BY <1>2
<1>4. f \in McpConns /\ f.key = conn[c].key
  <2>1. conn[c].failures + 1 \in Nat
    BY <1>2 DEF McpConns
  <2> QED
    BY ONLY <1>2, <2>1 DEF McpConns
<1> HIDE DEF failed, f
<1>5. conn' = [conn EXCEPT ![c] = r]
  BY <1>1, <1>2, <1>3
<1>6. /\ r \in McpConns /\ r.key = f.key /\ r.failures = f.failures
      /\ r.check \in {"close", "none"}
      /\ (r.check = "close" => Mcp!MayReconnect(failed[c].failures))
  BY ONLY <1>4 DEF McpConns
<1>7. r.check \in {"close", "reconnect"} => r.failures < MaxFailures
  BY <1>3, <1>6 DEF Mcp!MayReconnect
<1>8. connect[c].at = "returned" /\ (connected = c => healthTimer)
  BY <1>1, ConnChecked
<1> HIDE DEF r
<1> QED
  BY <1>1, <1>4, <1>5, <1>6, <1>7, <1>8, ConnChanged

\* that opens a connection, or gives up;
LEMMA McpReconnect ==
    ASSUME McpInv, NEW c \in Connects,
           \/ Mcp!ReconnectCloses(c) \/ Mcp!Reconnected(c)
           \/ \E live \in BOOLEAN : Mcp!ReconnectFails(c, live)
    PROVE  McpInv'
<1>1. conn[c] \in McpConns /\ conn \in [Connects -> McpConns] /\ faults \in 0..MaxFaults
  BY DEF McpInv, McpTypes
<1>2. CASE Mcp!ReconnectCloses(c)
  <2> DEFINE r == [conn[c] EXCEPT !.check = "reconnect", !.live = FALSE]
  <2>1. /\ conn[c].check = "close" /\ conn' = [conn EXCEPT ![c] = r]
        /\ UNCHANGED <<config, connected, healthTimer, connect, faults>>
    BY <1>1, <1>2 DEF Mcp!ReconnectCloses, Mcp!Check
  <2>2. /\ r \in McpConns /\ r.key = conn[c].key /\ r.check = "reconnect"
        /\ r.failures = conn[c].failures
    BY ONLY <1>1 DEF McpConns
  <2>3. conn[c].failures < MaxFailures
    BY <2>1 DEF McpInv, Mcp!GivesUp
  <2>4. connect[c].at = "returned" /\ (connected = c => healthTimer)
    BY <2>1, ConnChecked
  <2> HIDE DEF r
  <2> QED
    BY <1>1, <2>1, <2>2, <2>3, <2>4, ConnChanged
<1>3. CASE Mcp!Reconnected(c)
  <2> DEFINE r == [conn[c] EXCEPT !.check = "none", !.state = "connected",
                            !.failures = 0, !.error = FALSE, !.live = TRUE]
  <2>1. /\ conn[c].check = "reconnect" /\ conn' = [conn EXCEPT ![c] = r]
        /\ UNCHANGED <<config, connected, healthTimer, connect, faults>>
    BY <1>1, <1>3 DEF Mcp!Reconnected, Mcp!Check
  <2>2. r \in McpConns /\ r.key = conn[c].key /\ r.check = "none"
    BY ONLY <1>1 DEF McpConns
  <2>3. connect[c].at = "returned" /\ (connected = c => healthTimer)
    BY <2>1, ConnChecked
  <2> HIDE DEF r
  <2> QED
    BY <1>1, <2>1, <2>2, <2>3, ConnChanged
<1>4. ASSUME NEW live \in BOOLEAN, Mcp!ReconnectFails(c, live)
      PROVE  McpInv'
  <2> DEFINE r == [conn[c] EXCEPT !.check = "none", !.state = "error",
                            !.failures = @ + 1, !.error = TRUE, !.live = live]
  <2>1. /\ conn[c].check = "reconnect" /\ conn' = [conn EXCEPT ![c] = r]
        /\ UNCHANGED <<config, connected, healthTimer, connect>>
    BY <1>1, <1>4 DEF Mcp!ReconnectFails, Mcp!Check
  <2>2. faults' \in 0..MaxFaults
    BY <1>4, McpFault DEF Mcp!ReconnectFails
  <2>3. conn[c].failures + 1 \in Nat /\ live \in BOOLEAN
    BY <1>1, <1>4 DEF McpConns
  <2>4. r \in McpConns /\ r.key = conn[c].key /\ r.check = "none"
    BY ONLY <1>1, <2>3 DEF McpConns
  <2>5. connect[c].at = "returned" /\ (connected = c => healthTimer)
    BY <2>1, ConnChecked
  <2> HIDE DEF r
  <2> QED
    BY <2>1, <2>2, <2>4, <2>5, ConnChanged
<1> QED
  BY <1>2, <1>3, <1>4

\* a connection is closed.
LEMMA McpClosing ==
    ASSUME McpInv, NEW c \in Connects, Mcp!Closed(c) \/ Mcp!ServerDies(c)
    PROVE  McpInv'
<1>1. PICK closing \in BOOLEAN :
         conn' = [conn EXCEPT ![c] = [conn[c] EXCEPT !.live = FALSE, !.closing = closing]]
  <2>1. conn[c] \in McpConns /\ conn \in [Connects -> McpConns]
    BY DEF McpInv, McpTypes
  <2>2. CASE Mcp!Closed(c)
    BY <2>1, <2>2 DEF Mcp!Closed, McpConns
  <2>3. CASE Mcp!ServerDies(c)
    <3>1. [conn[c] EXCEPT !.live = FALSE, !.closing = conn[c].closing]
          = [conn[c] EXCEPT !.live = FALSE]
      BY <2>1 DEF McpConns
    <3>2. conn[c].closing \in BOOLEAN
      BY <2>1 DEF McpConns
    <3> QED
      BY <2>1, <2>3, <3>1, <3>2 DEF Mcp!ServerDies
  <2> QED
    BY <2>2, <2>3
<1> DEFINE r == [conn[c] EXCEPT !.live = FALSE, !.closing = closing]
<1>2. conn[c] \in McpConns /\ closing \in BOOLEAN
  BY <1>1 DEF McpInv, McpTypes
<1>3. /\ r \in McpConns /\ r.key = conn[c].key /\ r.check = conn[c].check
      /\ r.failures = conn[c].failures /\ r.state = conn[c].state
  BY ONLY <1>2 DEF McpConns
<1>4. UNCHANGED <<config, connected, healthTimer, connect>> /\ faults' \in 0..MaxFaults
  BY McpFault DEF Mcp!Closed, Mcp!ServerDies, McpInv, McpTypes
<1> HIDE DEF r
<1>5. /\ r.check \in {"close", "reconnect"} => r.failures < MaxFailures
      /\ connected = c /\ ~healthTimer => r.state = "error" /\ r.check = "none"
  BY <1>3, McpBounds DEF McpInv, Mcp!GivesUp, FailedUnchecked
<1>6. conn' = [conn EXCEPT ![c] = r]
  BY <1>1 DEF r
<1> QED
  BY <1>3, <1>4, <1>5, <1>6, ConnChanged

\* A connect takes the connection it finds,
LEMMA McpReuse ==
    ASSUME McpInv, NEW c \in Connects, Mcp!Reuse(c)
    PROVE  McpInv'
<1> DEFINE x == [at |-> "returned", key |-> config, existing |-> connected, got |-> connected]
<1>1. /\ connect[c].at = "unused" /\ connected # None /\ conn[connected].key = config
      /\ connect' = [connect EXCEPT ![c] = x]
      /\ UNCHANGED <<config, connected, healthTimer, conn, faults>>
  BY DEF Mcp!Reuse, Mcp!Begins, Mcp!Reusable
<1>2. config \in Keys /\ connected \in Connects /\ connect \in [Connects -> McpCalls]
  BY <1>1 DEF McpInv, McpTypes
<1>3. x \in McpCalls /\ x.at = "returned" /\ x.key = config /\ x.got = connected
  BY ONLY <1>2 DEF McpCalls
<1> HIDE DEF x
<1>4. connect'[c] = x /\ \A b \in Connects : b # c => connect'[b] = connect[b]
  BY <1>1, <1>2
<1>5. McpTypes'
  BY <1>1, <1>2, <1>3 DEF McpInv, McpTypes
<1>6. OpenedByCall' /\ FailedUnchecked'
  <2>1. connect'[connected].at = "returned"
    BY <1>1, <1>2, <1>3, <1>4 DEF McpInv, OpenedByCall
  <2>2. \A b \in Connects : connect[b].got \in Connects \cup {None}
    BY <1>2 DEF McpCalls
  <2>3. OpenedByCall'
    BY <1>1, <1>2, <1>3, <1>4, <2>1, <2>2 DEF McpInv, OpenedByCall
  <2> QED
    BY <1>1, <2>3 DEF McpInv, FailedUnchecked
<1>7. Mcp!FreshConfig' /\ Mcp!GivesUp'
  BY <1>1, <1>3, <1>4 DEF McpInv, Mcp!FreshConfig, Mcp!GivesUp
<1> QED
  BY <1>5, <1>6, <1>7 DEF McpInv

\* or begins another,
LEMMA McpConnect ==
    ASSUME McpInv, NEW c \in Connects, Mcp!Connect(c)
    PROVE  McpInv'
<1> DEFINE outdated == connected # None /\ conn[connected].key # config
           x == [at |-> IF outdated THEN "closing" ELSE "connecting",
                 key |-> config, existing |-> connected, got |-> None]
           n == Mcp!NewConnection(config)
<1>1. /\ connect[c].at = "unused" /\ connect' = [connect EXCEPT ![c] = x]
      /\ conn' = [b \in Connects |->
             IF b = c THEN n
             ELSE IF outdated /\ b = connected
                  THEN [conn[b] EXCEPT !.closing = TRUE] ELSE conn[b]]
      /\ UNCHANGED <<config, connected, healthTimer, faults>>
  BY DEF Mcp!Connect, Mcp!Begins
<1>2. /\ config \in Keys /\ connected \in Connects \cup {None}
      /\ connect \in [Connects -> McpCalls] /\ conn \in [Connects -> McpConns]
  BY DEF McpInv, McpTypes
<1>3. /\ x \in McpCalls /\ x.at \in {"closing", "connecting"} /\ x.key = config
      /\ x.got = None
  BY ONLY <1>2 DEF McpCalls
<1>4. n \in McpConns /\ n.key = config /\ n.check = "none"
  BY ONLY <1>2 DEF Mcp!NewConnection, McpConns
<1>5. ASSUME NEW b \in Connects, b # c
      PROVE  /\ conn'[b] \in McpConns /\ conn'[b].key = conn[b].key
             /\ conn'[b].check = conn[b].check /\ conn'[b].state = conn[b].state
             /\ conn'[b].failures = conn[b].failures
  <2>1. conn[b] \in McpConns /\ conn'[b] \in {conn[b], [conn[b] EXCEPT !.closing = TRUE]}
    BY <1>1, <1>2, <1>5
  <2> QED
    BY ONLY <2>1 DEF McpConns
<1>6. conn'[c] = n /\ connect'[c] = x /\ \A b \in Connects : b # c => connect'[b] = connect[b]
  BY <1>1, <1>2
<1>7. conn' \in [Connects -> McpConns] /\ connect' \in [Connects -> McpCalls]
  <2>1. \A b \in Connects : conn'[b] \in McpConns
    BY <1>4, <1>5, <1>6
  <2>2. conn' = [b \in Connects |-> conn'[b]]
    BY <1>1
  <2> HIDE DEF x, n
  <2> QED
    BY <1>1, <1>2, <1>3, <2>1, <2>2
<1> HIDE DEF x, n, outdated
<1>8. McpTypes'
  BY <1>1, <1>7 DEF McpInv, McpTypes
<1>9. connected # c /\ \A b \in Connects : connect[b].got # c
  BY <1>1, McpBounds DEF McpInv, OpenedByCall
<1>10. \A b \in Connects : connect[b].got \in Connects \cup {None}
  BY <1>2 DEF McpCalls
<1>11. OpenedByCall'
  BY <1>1, <1>2, <1>3, <1>4, <1>5, <1>6, <1>9, <1>10 DEF McpInv, OpenedByCall
<1>12. FailedUnchecked'
  BY <1>1, <1>2, <1>5, <1>9 DEF McpInv, FailedUnchecked
<1>13. Mcp!FreshConfig'
  BY <1>3, <1>5, <1>6, <1>9, <1>10 DEF McpInv, Mcp!FreshConfig
<1>14. Mcp!GivesUp'
  BY <1>4, <1>5, <1>6 DEF McpInv, Mcp!GivesUp
<1> QED
  BY <1>8, <1>11, <1>12, <1>13, <1>14 DEF McpInv

\* once the one of an old configuration is closed,
LEMMA McpExistingClosed ==
    ASSUME McpInv, NEW c \in Connects, Mcp!ExistingClosed(c)
    PROVE  McpInv'
<1> DEFINE e == connect[c].existing
           x == [connect[c] EXCEPT !.at = "connecting"]
<1>1. /\ connect[c].at = "closing" /\ connect' = [connect EXCEPT ![c].at = "connecting"]
      /\ conn' = [conn EXCEPT ![e].live = FALSE] /\ connected' = None
      /\ UNCHANGED <<config, healthTimer, faults>>
  BY DEF Mcp!ExistingClosed
<1>2. connect \in [Connects -> McpCalls] /\ conn \in [Connects -> McpConns]
  BY DEF McpInv, McpTypes
<1>3. connect' = [connect EXCEPT ![c] = x] /\ connect[c] \in McpCalls
  BY <1>1, <1>2
<1>4. x \in McpCalls /\ x.at = "connecting" /\ x.key = connect[c].key /\ x.got = connect[c].got
  BY ONLY <1>3 DEF McpCalls
<1> HIDE DEF e, x
<1>5. /\ conn' \in [Connects -> McpConns]
      /\ \A b \in Connects : /\ conn'[b].key = conn[b].key /\ conn'[b].check = conn[b].check
                             /\ conn'[b].failures = conn[b].failures
  <2>1. ASSUME NEW b \in Connects
        PROVE  /\ conn'[b] \in McpConns
               /\ conn'[b].key = conn[b].key /\ conn'[b].check = conn[b].check
               /\ conn'[b].failures = conn[b].failures
    <3>1. conn[b] \in McpConns /\ conn'[b] \in {conn[b], [conn[b] EXCEPT !.live = FALSE]}
      BY <1>1, <1>2
    <3> QED
      BY ONLY <3>1 DEF McpConns
  <2>2. conn' = [b \in Connects |-> conn'[b]]
    BY <1>1, <1>2
  <2> QED
    BY <2>1, <2>2
<1>6. connect'[c] = x /\ \A b \in Connects : b # c => connect'[b] = connect[b]
  BY <1>2, <1>3
<1>7. McpTypes'
  BY <1>1, <1>2, <1>3, <1>4, <1>5 DEF McpInv, McpTypes
<1>8. \A b \in Connects : connect[b].got \in Connects \cup {None}
  BY <1>2 DEF McpCalls
<1>9. OpenedByCall' /\ FailedUnchecked'
  BY <1>1, <1>4, <1>5, <1>6, <1>8 DEF McpInv, OpenedByCall, FailedUnchecked
<1>10. Mcp!FreshConfig' /\ Mcp!GivesUp'
  <2>1. \A b \in Connects : connect'[b].got = connect[b].got /\ connect'[b].key = connect[b].key
    BY <1>4, <1>6
  <2> QED
    BY <1>5, <1>8, <2>1 DEF McpInv, Mcp!FreshConfig, Mcp!GivesUp
<1> QED
  BY <1>7, <1>9, <1>10 DEF McpInv

\* The call returns with its own connection, connected or failed.
LEMMA McpReturns ==
    ASSUME McpInv, NEW c \in Connects, NEW r \in McpConns,
           connect[c].at = "connecting", Mcp!Returns(c),
           conn' = [conn EXCEPT ![c] = r], r.key = conn[c].key, r.check = conn[c].check,
           connected' = c, healthTimer' \in BOOLEAN, config' = config,
           faults' \in 0..MaxFaults,
           ~healthTimer' => r.state = "error"
    PROVE  McpInv'
<1> DEFINE x == [connect[c] EXCEPT !.at = "returned", !.got = c]
<1>1. connect \in [Connects -> McpCalls] /\ conn \in [Connects -> McpConns]
  BY DEF McpInv, McpTypes
<1>2. connect' = [connect EXCEPT ![c] = x] /\ connect[c] \in McpCalls
  BY <1>1 DEF Mcp!Returns
<1>3. x \in McpCalls /\ x.at = "returned" /\ x.key = connect[c].key /\ x.got = c
  BY ONLY <1>2 DEF McpCalls
<1> HIDE DEF x
<1>4. /\ connect'[c] = x /\ conn'[c] = r
      /\ \A b \in Connects : b # c => connect'[b] = connect[b] /\ conn'[b] = conn[b]
  BY <1>1, <1>2
<1>5. conn[c].check = "none" /\ conn[c].key = connect[c].key
  BY DEF McpInv, OpenedByCall
<1>6. McpTypes'
  BY <1>1, <1>2, <1>3 DEF McpInv, McpTypes
<1>7. \A b \in Connects : connect[b].got \in Connects \cup {None}
  BY <1>1 DEF McpCalls
<1>8. OpenedByCall'
  BY <1>3, <1>4, <1>5, <1>7 DEF McpInv, OpenedByCall
<1>9. FailedUnchecked'
  BY <1>4, <1>5 DEF FailedUnchecked
<1>10. Mcp!FreshConfig'
  BY <1>3, <1>4, <1>5, <1>7 DEF McpInv, Mcp!FreshConfig
<1>11. Mcp!GivesUp'
  BY <1>4, <1>5 DEF McpInv, Mcp!GivesUp
<1> QED
  BY <1>6, <1>8, <1>9, <1>10, <1>11 DEF McpInv

\* and lists it,
LEMMA McpConnected ==
    ASSUME McpInv, NEW c \in Connects, NEW listed \in BOOLEAN, Mcp!Connected(c, listed)
    PROVE  McpInv'
<1> DEFINE r == [conn[c] EXCEPT !.state = "connected", !.live = TRUE, !.error = ~listed]
<1>1. conn[c] \in McpConns /\ conn \in [Connects -> McpConns] /\ (~listed) \in BOOLEAN
  BY DEF McpInv, McpTypes
<1>2. /\ connect[c].at = "connecting" /\ Mcp!Returns(c) /\ conn' = [conn EXCEPT ![c] = r]
      /\ connected' = c /\ healthTimer' = TRUE /\ config' = config
  BY <1>1 DEF Mcp!Connected
<1>3. r \in McpConns /\ r.key = conn[c].key /\ r.check = conn[c].check
  BY ONLY <1>1 DEF McpConns
<1>4. faults' \in 0..MaxFaults
  BY McpFault DEF Mcp!Connected, McpInv, McpTypes
<1> HIDE DEF r
<1> QED
  BY <1>2, <1>3, <1>4, McpReturns

\* or fails.
LEMMA McpConnectFails ==
    ASSUME McpInv, NEW c \in Connects, NEW live \in BOOLEAN, Mcp!ConnectFails(c, live)
    PROVE  McpInv'
<1> DEFINE k == Mcp!Failures(connect[c].existing) + 1
           r == [conn[c] EXCEPT !.state = "error", !.live = live, !.error = TRUE,
                                !.failures = k]
<1>1. conn[c] \in McpConns /\ conn \in [Connects -> McpConns]
  BY DEF McpInv, McpTypes
<1>2. /\ connect[c].at = "connecting" /\ Mcp!Returns(c) /\ conn' = [conn EXCEPT ![c] = r]
      /\ connected' = c /\ UNCHANGED <<config, healthTimer>>
  BY <1>1 DEF Mcp!ConnectFails
<1>3. k \in Nat
  <2>1. connect[c].existing \in Connects \cup {None}
    BY DEF McpInv, McpTypes, McpCalls
  <2>2. \A b \in Connects : conn[b].failures \in Nat
    BY <1>1 DEF McpConns
  <2> QED
    BY <2>1, <2>2 DEF Mcp!Failures
<1> HIDE DEF k
<1>4. r \in McpConns /\ r.key = conn[c].key /\ r.check = conn[c].check /\ r.state = "error"
  BY ONLY <1>1, <1>3, live \in BOOLEAN DEF McpConns
<1>5. faults' \in 0..MaxFaults /\ healthTimer' \in BOOLEAN
  BY <1>2, McpFault DEF Mcp!ConnectFails, McpInv, McpTypes
<1> HIDE DEF r
<1> QED
  BY <1>2, <1>4, <1>5, McpReturns

\* The connections are cleared.
LEMMA McpClear ==
    ASSUME McpInv, Mcp!Clear
    PROVE  McpInv'
<1> DEFINE c == connected
           r == [conn[c] EXCEPT !.closing = TRUE]
<1>1. /\ c # None /\ connected' = None /\ healthTimer' = FALSE
      /\ conn' = [conn EXCEPT ![c].closing = TRUE] /\ UNCHANGED <<config, connect>>
  BY DEF Mcp!Clear, Mcp!AfterClear
<1>2. c \in Connects /\ conn[c] \in McpConns /\ conn \in [Connects -> McpConns]
      /\ conn' = [conn EXCEPT ![c] = r]
  BY <1>1 DEF McpInv, McpTypes
<1>3. /\ r \in McpConns /\ r.key = conn[c].key /\ r.check = conn[c].check
      /\ r.failures = conn[c].failures
  BY ONLY <1>2 DEF McpConns
<1> HIDE DEF r, c
<1>4. conn'[c] = r /\ \A b \in Connects : b # c => conn'[b] = conn[b]
  BY <1>2
<1>5. McpTypes'
  BY <1>1, <1>2, <1>3, McpFault DEF McpInv, McpTypes, Mcp!Clear
<1>6. \A b \in Connects : connect[b].got \in Connects \cup {None}
  BY DEF McpInv, McpTypes, McpCalls
<1>7. OpenedByCall' /\ FailedUnchecked' /\ Mcp!FreshConfig' /\ Mcp!GivesUp'
  BY <1>1, <1>3, <1>4, <1>6
  DEF McpInv, OpenedByCall, FailedUnchecked, Mcp!FreshConfig, Mcp!GivesUp
<1> QED
  BY <1>5, <1>7 DEF McpInv

\* Nothing else counts.
LEMMA McpStutters == McpInv /\ UNCHANGED mcpVars => McpInv'
BY DEF mcpVars, McpInv, McpTypes, OpenedByCall, FailedUnchecked, Mcp!FreshConfig, Mcp!GivesUp

\* Every step of the MCP client keeps the invariant,
LEMMA McpNext == McpInv /\ Mcp!Next => McpInv'
<1> SUFFICES ASSUME McpInv, Mcp!Next PROVE McpInv'
  OBVIOUS
<1>1. ASSUME NEW k \in Keys, Mcp!Configure(k)
      PROVE  McpInv'
  <2>1. faults' \in 0..MaxFaults /\ config' \in Keys
    BY <1>1, McpFault DEF Mcp!Configure
  <2> QED
    BY <1>1, <2>1 DEF Mcp!Configure, McpInv, McpTypes, OpenedByCall, FailedUnchecked,
                      Mcp!FreshConfig, Mcp!GivesUp
<1>2. ASSUME NEW c \in Connects,
             Mcp!Reuse(c) \/ Mcp!Connect(c) \/ Mcp!Closed(c) \/ Mcp!ServerDies(c)
      PROVE  McpInv'
  BY <1>2, McpReuse, McpConnect, McpClosing
<1>3. ASSUME NEW c \in Connects, Mcp!CallStep(c)
      PROVE  McpInv'
  BY <1>3, McpExistingClosed, McpConnected, McpConnectFails DEF Mcp!CallStep
<1>4. ASSUME NEW c \in Connects, Mcp!CheckStep(c)
      PROVE  McpInv'
  BY <1>4, McpPingAnswered, McpPingFails, McpReconnect DEF Mcp!CheckStep
<1>5. CASE Mcp!Tick \/ Mcp!Clear
  BY <1>5, McpTick, McpClear
<1> QED
  BY <1>1, <1>2, <1>3, <1>4, <1>5 DEF Mcp!Next

\* which has its properties.
LEMMA McpTyped == McpInv => Mcp!TypeOK /\ Mcp!McpSafe
<1> SUFFICES ASSUME McpInv PROVE Mcp!TypeOK /\ Mcp!McpSafe
  OBVIOUS
<1>1. Mcp!TypeOK
  BY DEF McpInv, McpTypes, McpConns, McpCalls, Mcp!TypeOK
<1>2. Mcp!HealthChecked
  BY DEF McpInv, McpTypes, FailedUnchecked, Mcp!HealthChecked
<1> QED
  BY <1>1, <1>2 DEF McpInv, Mcp!McpSafe

(***************************************************************************)
(* The tokens of the MCP servers: what a save is about to write is what    *)
(* the file holds but for one server, and its key is the one in the key    *)
(* file.                                                                   *)
(***************************************************************************)
\* What an authorization, a token and a save are.
FlowStates == {"idle", "waiting", "exchanging", "saving", "done", "failed"}
MaybeTokens == {None} \cup 1..MaxTokens
TokenSaves ==
    [at : {"idle", "key", "keying", "write"}, key : 0..MaxKeys,
     servers : Auth!TokenMaps, for : Servers \cup {None}]

\* The types.
AuthTypes ==
    /\ key \in {None, Auth!Torn} \cup 1..MaxKeys /\ keys \in 0..MaxKeys
    /\ issued \in 0..MaxTokens /\ store \in Auth!Stores \cup {None} /\ save \in TokenSaves
    /\ flow \in [Flowing -> FlowStates] /\ cache \in [Servers -> MaybeTokens]
    /\ last \in [Servers -> MaybeTokens]

\* A save writes what is stored but for one server, with the key of the file; a
\* key that is not whole is only there while a new one can be made.
SaveInv ==
    /\ save.at # "idle" =>
           /\ save.for \in Servers
           /\ \A s \in Servers \ {save.for} : Auth!Token(save.servers, s) = last[s]
    /\ save.at = "keying" => key = Auth!Torn /\ keys \in 1..MaxKeys
    /\ save.at = "write" => Auth!Whole(key) /\ save.key = key
    /\ save.at # "keying" /\ ~Auth!Whole(key) => keys < MaxKeys

\* Whoever reads the file finds the token last stored.
AuthInv == AuthTypes /\ SaveInv /\ Auth!StoreReadable /\ Auth!TokensKept

\* The limits of the tokens.
LEMMA AuthLimits ==
    /\ Flowing \subseteq Servers /\ MaxTokens \in Nat /\ MaxKeys \in Nat \ {0}
    /\ None \notin Nat /\ None \notin Auth!Stores
BY ServicesAssumption DEF Auth!AuthBounds

\* Maps of tokens, by their domain and their values.
LEMMA TokenMapTyped ==
    ASSUME NEW t \in Auth!TokenMaps
    PROVE  /\ DOMAIN t \subseteq Servers /\ \A s \in DOMAIN t : t[s] \in 1..MaxTokens
           /\ \A s : Auth!Token(t, s) \in MaybeTokens
<1>1. PICK known \in SUBSET Servers : t \in [known -> 1..MaxTokens]
  BY DEF Auth!TokenMaps
<1> QED
  BY <1>1 DEF Auth!Token, MaybeTokens

\* Any tokens of some servers are a map of tokens.
LEMMA TokenMapMade ==
    ASSUME NEW known \in SUBSET Servers, NEW t \in [known -> 1..MaxTokens]
    PROVE  t \in Auth!TokenMaps
BY DEF Auth!TokenMaps

\* Loading the file gives a map of tokens, with or without the file.
LEMMA StoreLoaded ==
    ASSUME store \in Auth!Stores \cup {None}
    PROVE  /\ Auth!LoadAuthStore \in Auth!TokenMaps
           /\ \A s : Auth!LoadTokens(s) = Auth!Token(Auth!LoadAuthStore, s)
<1>1. Auth!NoTokens \in Auth!TokenMaps
  <2>1. Auth!NoTokens \in [{} -> 1..MaxTokens]
    BY DEF Auth!NoTokens
  <2> QED
    BY <2>1, TokenMapMade
<1>2. CASE store # None /\ store.key = key
  BY <1>2 DEF Auth!LoadAuthStore, Auth!Stores, Auth!LoadTokens, Auth!Token
<1>3. CASE ~(store # None /\ store.key = key)
  BY <1>1, <1>3 DEF Auth!LoadAuthStore, Auth!LoadTokens, Auth!Token
<1> QED
  BY <1>2, <1>3

\* What a save begins with: the tokens with one more, or one less.
LEMMA StoredTyped ==
    ASSUME store \in Auth!Stores \cup {None}, NEW s \in Servers,
           NEW token \in 1..MaxTokens
    PROVE  /\ Auth!StoredWith(s, token) \in Auth!TokenMaps
           /\ \A r \in Servers \ {s} :
                 Auth!Token(Auth!StoredWith(s, token), r) = Auth!LoadTokens(r)
<1> DEFINE t == Auth!LoadAuthStore
           u == [k \in DOMAIN t \cup {s} |-> IF k = s THEN token ELSE t[k]]
<1>1. t \in Auth!TokenMaps /\ \A r : Auth!LoadTokens(r) = Auth!Token(t, r)
  BY StoreLoaded
<1> HIDE DEF t
<1>2. DOMAIN t \subseteq Servers /\ \A k \in DOMAIN t : t[k] \in 1..MaxTokens
  BY <1>1, TokenMapTyped
<1>3. u \in [DOMAIN t \cup {s} -> 1..MaxTokens] /\ DOMAIN t \cup {s} \in SUBSET Servers
  BY <1>2
<1>4. u \in Auth!TokenMaps
  <2> HIDE DEF u
  <2> QED
    BY <1>3, TokenMapMade
<1>5. \A r \in Servers \ {s} : Auth!Token(u, r) = Auth!Token(t, r)
  BY DEF Auth!Token
<1>6. Auth!StoredWith(s, token) = u
  BY DEF Auth!StoredWith, t
<1> QED
  BY <1>1, <1>4, <1>5, <1>6

\* Removing a server leaves the tokens of the others.
LEMMA WithoutTyped ==
    ASSUME store \in Auth!Stores \cup {None}, NEW s \in Servers
    PROVE  /\ Auth!Without(s) \in Auth!TokenMaps
           /\ \A r \in Servers \ {s} :
                 Auth!Token(Auth!Without(s), r) = Auth!LoadTokens(r)
<1> DEFINE t == Auth!LoadAuthStore
           u == [k \in DOMAIN t \ {s} |-> t[k]]
<1>1. t \in Auth!TokenMaps /\ \A r : Auth!LoadTokens(r) = Auth!Token(t, r)
  BY StoreLoaded
<1> HIDE DEF t
<1>2. DOMAIN t \subseteq Servers /\ \A k \in DOMAIN t : t[k] \in 1..MaxTokens
  BY <1>1, TokenMapTyped
<1>3. u \in [DOMAIN t \ {s} -> 1..MaxTokens] /\ DOMAIN t \ {s} \in SUBSET Servers
  BY <1>2
<1>4. u \in Auth!TokenMaps
  <2> HIDE DEF u
  <2> QED
    BY <1>3, TokenMapMade
<1>5. \A r \in Servers \ {s} : Auth!Token(u, r) = Auth!Token(t, r)
  BY DEF Auth!Token
<1>6. Auth!Without(s) = u
  BY DEF Auth!Without, t
<1> QED
  BY <1>1, <1>4, <1>5, <1>6

\* A save that is not under way.
LEMMA IdleTyped == Auth!Idle \in TokenSaves /\ Auth!Idle.at = "idle"
<1>1. Auth!NoTokens \in Auth!TokenMaps
  <2>1. Auth!NoTokens \in [{} -> 1..MaxTokens]
    BY DEF Auth!NoTokens
  <2> QED
    BY <2>1, TokenMapMade
<1>2. Auth!Torn \in 0..MaxKeys
  BY AuthLimits DEF Auth!Torn
<1> QED
  BY ONLY <1>1, <1>2 DEF Auth!Idle, TokenSaves

\* Init and every step of a save, an authorization or a logout keep the invariant.
LEMMA AuthInit == Auth!UInit => AuthInv
<1> SUFFICES ASSUME Auth!UInit PROVE AuthInv
  OBVIOUS
<1> USE DEF Auth!UInit
<1>1. AuthTypes
  <2>1. cache \in [Servers -> MaybeTokens] /\ last \in [Servers -> MaybeTokens]
    BY DEF MaybeTokens
  <2>2. flow \in [Flowing -> FlowStates]
    BY DEF FlowStates
  <2>3. issued \in 0..MaxTokens /\ keys \in 0..MaxKeys
    BY AuthLimits
  <2> QED
    BY <2>1, <2>2, <2>3, IdleTyped DEF AuthTypes
<1>2. SaveInv
  BY IdleTyped, AuthLimits DEF SaveInv
<1>3. Auth!StoreReadable /\ Auth!TokensKept
  BY DEF Auth!StoreReadable, Auth!TokensKept, Auth!LoadTokens, Auth!LoadAuthStore, Auth!NoTokens
<1> QED
  BY <1>1, <1>2, <1>3 DEF AuthInv

\* Steps that leave the files alone.
LEMMA FilesKept ==
    ASSUME AuthInv, UNCHANGED <<key, store, keys, last>>, save' \in TokenSaves, SaveInv',
           issued' \in 0..MaxTokens, flow' \in [Flowing -> FlowStates],
           cache' \in [Servers -> MaybeTokens]
    PROVE  AuthInv'
<1>1. AuthTypes' /\ Auth!StoreReadable'
  BY DEF AuthInv, AuthTypes, Auth!StoreReadable, Auth!Whole
<1>2. Auth!TokensKept'
  BY DEF AuthInv, Auth!TokensKept, Auth!LoadTokens, Auth!LoadAuthStore
<1> QED
  BY <1>1, <1>2 DEF AuthInv

\* Steps that leave the files and the save alone.
LEMMA SaveKept ==
    ASSUME AuthInv, UNCHANGED <<key, store, keys, last, issued, save>>,
           flow' \in [Flowing -> FlowStates], cache' \in [Servers -> MaybeTokens]
    PROVE  AuthInv'
<1>1. save' \in TokenSaves /\ issued' \in 0..MaxTokens
  BY DEF AuthInv, AuthTypes
<1>2. SaveInv'
  BY DEF AuthInv, SaveInv, Auth!Whole, Auth!Token
<1>3. UNCHANGED <<key, store, keys, last>>
  OBVIOUS
<1> QED
  BY <1>1, <1>2, <1>3, FilesKept

\* A save begins.
LEMMA SaveBegins ==
    ASSUME AuthInv, UNCHANGED <<key, store, keys, last>>, save = Auth!Idle,
           NEW s \in Servers, NEW t \in Auth!TokenMaps, Auth!Begins(s, t),
           \A r \in Servers \ {s} : Auth!Token(t, r) = Auth!LoadTokens(r),
           issued' \in 0..MaxTokens, flow' \in [Flowing -> FlowStates],
           cache' \in [Servers -> MaybeTokens]
    PROVE  AuthInv'
<1>1. save' = [at |-> "key", key |-> Auth!Torn, servers |-> t, for |-> s]
  BY DEF Auth!Begins
<1>2. Auth!Torn \in 0..MaxKeys
  BY AuthLimits DEF Auth!Torn
<1>3. save' \in TokenSaves
  BY ONLY <1>1, <1>2, t \in Auth!TokenMaps, s \in Servers DEF TokenSaves
<1>4. save'.at = "key" /\ save'.servers = t /\ save'.for = s
  BY <1>1
<1>5. SaveInv'
  BY <1>4, IdleTyped DEF AuthInv, SaveInv, Auth!TokensKept, Auth!Whole, Auth!Token
<1> QED
  BY <1>3, <1>5, FilesKept

\* A save finds a whole key,
LEMMA AuthUsesKey ==
    ASSUME AuthInv, Auth!UsesKey
    PROVE  AuthInv'
<1>1. /\ save.at = "key" /\ Auth!Whole(key)
      /\ save' = [save EXCEPT !.at = "write", !.key = key]
      /\ UNCHANGED <<key, store, flow, cache, issued, keys, last>>
  BY DEF Auth!UsesKey
<1>2. save \in TokenSaves /\ key \in 0..MaxKeys
  BY <1>1, AuthLimits DEF AuthInv, AuthTypes, Auth!Whole
<1>3. /\ save' \in TokenSaves /\ save'.at = "write" /\ save'.key = key
      /\ save'.servers = save.servers /\ save'.for = save.for
  BY ONLY <1>1, <1>2 DEF TokenSaves
<1>4. SaveInv'
  BY <1>1, <1>3 DEF AuthInv, SaveInv, Auth!Whole, Auth!Token
<1> QED
  BY <1>1, <1>3, <1>4, FilesKept DEF AuthInv, AuthTypes

\* or creates its file,
LEMMA AuthCreatesKey ==
    ASSUME AuthInv, Auth!CreatesKey
    PROVE  AuthInv'
<1>1. /\ save.at = "key" /\ ~Auth!Whole(key) /\ key' = Auth!Torn /\ keys' = keys + 1
      /\ save' = [save EXCEPT !.at = "keying"]
      /\ UNCHANGED <<store, flow, cache, issued, last>>
  BY DEF Auth!CreatesKey
<1>2. save \in TokenSaves /\ store = None /\ keys' \in 1..MaxKeys
  BY <1>1, AuthLimits DEF AuthInv, AuthTypes, SaveInv, Auth!StoreReadable
<1>3. /\ save' \in TokenSaves /\ save'.at = "keying"
      /\ save'.servers = save.servers /\ save'.for = save.for
  BY ONLY <1>1, <1>2 DEF TokenSaves
<1>4. SaveInv'
  BY <1>1, <1>2, <1>3 DEF AuthInv, SaveInv, Auth!Token
<1>5. AuthTypes' /\ Auth!StoreReadable'
  BY <1>1, <1>2, <1>3 DEF AuthInv, AuthTypes, Auth!StoreReadable
<1>6. Auth!TokensKept'
  BY <1>1, <1>2 DEF AuthInv, Auth!TokensKept, Auth!LoadTokens, Auth!LoadAuthStore
<1> QED
  BY <1>4, <1>5, <1>6 DEF AuthInv

\* and fills it;
LEMMA AuthFillsKey ==
    ASSUME AuthInv, Auth!FillsKey
    PROVE  AuthInv'
<1>1. /\ save.at = "keying" /\ key' = keys
      /\ save' = [save EXCEPT !.at = "write", !.key = keys]
      /\ UNCHANGED <<store, flow, cache, issued, keys, last>>
  BY DEF Auth!FillsKey
<1>2. save \in TokenSaves /\ store = None /\ keys \in 1..MaxKeys /\ keys \in 0..MaxKeys /\ keys # None
  BY <1>1, AuthLimits DEF AuthInv, AuthTypes, SaveInv, Auth!StoreReadable, Auth!Whole
<1>3. /\ save' \in TokenSaves /\ save'.at = "write" /\ save'.key = keys
      /\ save'.servers = save.servers /\ save'.for = save.for
  BY ONLY <1>1, <1>2 DEF TokenSaves
<1>4. Auth!Whole(key)'
  BY <1>1, <1>2 DEF Auth!Whole, Auth!Torn
<1>5. SaveInv'
  BY <1>1, <1>3, <1>4 DEF AuthInv, SaveInv, Auth!Token
<1>6. AuthTypes' /\ Auth!StoreReadable'
  BY <1>1, <1>2, <1>3 DEF AuthInv, AuthTypes, Auth!StoreReadable
<1>7. Auth!TokensKept'
  BY <1>1, <1>2 DEF AuthInv, Auth!TokensKept, Auth!LoadTokens, Auth!LoadAuthStore
<1> QED
  BY <1>5, <1>6, <1>7 DEF AuthInv

\* it renames the file it wrote.
LEMMA AuthRenames ==
    ASSUME AuthInv, Auth!Renames
    PROVE  AuthInv'
<1> DEFINE t == save.servers
           s == save.for
<1>1. /\ save.at = "write" /\ store' = [key |-> save.key, servers |-> t]
      /\ last' = [last EXCEPT ![s] = Auth!Token(t, s)]
      /\ flow' = [r \in Flowing |-> IF r = s /\ flow[r] = "saving" THEN "done" ELSE flow[r]]
      /\ save' = Auth!Idle /\ UNCHANGED <<key, cache, issued, keys>>
  BY DEF Auth!Renames
<1>2. /\ save \in TokenSaves /\ Auth!Whole(key) /\ save.key = key /\ s \in Servers
      /\ \A r \in Servers \ {s} : Auth!Token(t, r) = last[r]
  BY <1>1 DEF AuthInv, AuthTypes, SaveInv
<1>3. key \in 1..MaxKeys
  BY <1>2 DEF AuthInv, AuthTypes, Auth!Whole
<1>4. t \in Auth!TokenMaps
  BY <1>2 DEF TokenSaves
<1> HIDE DEF t
<1>5. store' \in Auth!Stores /\ store'.key = key /\ store'.servers = t
  BY <1>1, <1>2, <1>3, <1>4 DEF Auth!Stores
<1>6. flow' \in [Flowing -> FlowStates]
  <2>1. \A r \in Flowing : flow[r] \in FlowStates
    BY DEF AuthInv, AuthTypes
  <2> QED
    BY <1>1, <2>1 DEF FlowStates
<1>7. last' \in [Servers -> MaybeTokens]
      /\ \A r \in Servers : last'[r] = Auth!Token(t, r)
  <2>1. last \in [Servers -> MaybeTokens] /\ Auth!Token(t, s) \in MaybeTokens
    BY <1>4, TokenMapTyped DEF AuthInv, AuthTypes
  <2> HIDE DEF s
  <2> QED
    BY <1>1, <1>2, <2>1
<1>8. AuthTypes'
  BY <1>1, <1>5, <1>6, <1>7, IdleTyped DEF AuthInv, AuthTypes
<1>9. SaveInv'
  BY <1>1, <1>2, IdleTyped DEF SaveInv, Auth!Whole
<1>10. store' # None
  BY <1>5, AuthLimits
<1>11. Auth!StoreReadable'
  BY <1>1, <1>2, <1>5 DEF Auth!StoreReadable, Auth!Whole
<1>12. Auth!TokensKept'
  BY <1>1, <1>5, <1>7, <1>10 DEF Auth!TokensKept, Auth!LoadTokens, Auth!LoadAuthStore, Auth!Token
<1> QED
  BY <1>8, <1>9, <1>11, <1>12 DEF AuthInv

\* Nothing else counts.
LEMMA AuthStutters == AuthInv /\ UNCHANGED authVars => AuthInv'
<1> SUFFICES ASSUME AuthInv, UNCHANGED authVars PROVE AuthInv'
  OBVIOUS
<1>1. UNCHANGED <<key, store, keys, last, issued, save>>
  BY DEF authVars
<1>2. flow' \in [Flowing -> FlowStates] /\ cache' \in [Servers -> MaybeTokens]
  BY DEF authVars, AuthInv, AuthTypes
<1> QED
  BY <1>1, <1>2, SaveKept

\* The steps of a flow that save nothing.
LEMMA AuthMoves ==
    ASSUME AuthInv, NEW s \in Flowing, NEW to \in FlowStates,
           flow' = [flow EXCEPT ![s] = to],
           UNCHANGED <<key, store, save, cache, issued, keys, last>>
    PROVE  AuthInv'
<1>1. flow' \in [Flowing -> FlowStates] /\ cache' \in [Servers -> MaybeTokens]
  BY DEF AuthInv, AuthTypes
<1>2. UNCHANGED <<key, store, keys, last, issued, save>>
  OBVIOUS
<1> QED
  BY <1>1, <1>2, SaveKept

\* An authorization begins a save,
LEMMA AuthStores ==
    ASSUME AuthInv,
           \/ \E s \in Flowing : Auth!ExchangeCodeForTokens(s)
           \/ \E s \in Servers \ Flowing : Auth!SaveTokens(s)
    PROVE  AuthInv'
<1>1. /\ store \in Auth!Stores \cup {None} /\ issued \in 0..MaxTokens
      /\ flow \in [Flowing -> FlowStates] /\ cache \in [Servers -> MaybeTokens]
  BY DEF AuthInv, AuthTypes
<1>2. PICK s \in Servers : Auth!ExchangeCodeForTokens(s) \/ Auth!SaveTokens(s)
  BY AuthLimits
<1> DEFINE t == Auth!StoredWith(s, issued + 1)
<1>3. /\ save = Auth!Idle /\ issued < MaxTokens /\ issued' = issued + 1
      /\ Auth!Begins(s, t) /\ UNCHANGED <<key, store, keys, last>>
  BY <1>2 DEF Auth!ExchangeCodeForTokens, Auth!SaveTokens
<1>4. issued + 1 \in 1..MaxTokens /\ issued' \in 0..MaxTokens
  BY <1>1, <1>3, AuthLimits
<1>5. /\ t \in Auth!TokenMaps
      /\ \A r \in Servers \ {s} : Auth!Token(t, r) = Auth!LoadTokens(r)
  BY <1>1, <1>4, StoredTyped
<1>6. flow' \in [Flowing -> FlowStates] /\ cache' \in [Servers -> MaybeTokens]
  <2>1. flow' \in {flow, [flow EXCEPT ![s] = "saving"]}
        /\ cache' \in {cache, [cache EXCEPT ![s] = issued + 1]}
    BY <1>2 DEF Auth!ExchangeCodeForTokens, Auth!SaveTokens
  <2>2. "saving" \in FlowStates /\ issued + 1 \in MaybeTokens
    BY <1>4 DEF FlowStates, MaybeTokens
  <2> QED
    BY <1>1, <2>1, <2>2
<1> HIDE DEF t
<1> QED
  BY <1>3, <1>4, <1>5, <1>6, SaveBegins

\* and so does a logout.
LEMMA AuthClears ==
    ASSUME AuthInv, NEW s \in Servers, Auth!ClearTokens(s)
    PROVE  AuthInv'
<1> DEFINE t == Auth!Without(s)
<1>1. /\ save = Auth!Idle /\ Auth!Begins(s, t)
      /\ UNCHANGED <<key, store, flow, cache, issued, keys, last>>
  BY DEF Auth!ClearTokens
<1>2. /\ t \in Auth!TokenMaps
      /\ \A r \in Servers \ {s} : Auth!Token(t, r) = Auth!LoadTokens(r)
  BY WithoutTyped DEF AuthInv, AuthTypes
<1>3. /\ issued' \in 0..MaxTokens /\ flow' \in [Flowing -> FlowStates]
      /\ cache' \in [Servers -> MaybeTokens]
  BY <1>1 DEF AuthInv, AuthTypes
<1> HIDE DEF t
<1> QED
  BY <1>1, <1>2, <1>3, SaveBegins

\* Every step keeps the invariant,
LEMMA AuthNext == AuthInv /\ Auth!UNext => AuthInv'
<1> SUFFICES ASSUME AuthInv, Auth!UNext PROVE AuthInv'
  OBVIOUS
<1>1. CASE Auth!Saves
  BY <1>1, AuthUsesKey, AuthCreatesKey, AuthFillsKey, AuthRenames DEF Auth!Saves
<1>2. ASSUME NEW s \in Flowing,
             \/ Auth!RunOAuthFlow(s) \/ Auth!Callback(s) \/ Auth!BadCallback(s)
             \/ Auth!TimesOut(s) \/ Auth!ExchangeFails(s)
      PROVE  AuthInv'
  <2>1. PICK to \in FlowStates :
           /\ flow' = [flow EXCEPT ![s] = to]
           /\ UNCHANGED <<key, store, save, cache, issued, keys, last>>
    BY <1>2 DEF Auth!RunOAuthFlow, Auth!Callback, Auth!BadCallback, Auth!TimesOut,
                Auth!ExchangeFails, Auth!Moves, FlowStates
  <2> QED
    BY <2>1, AuthMoves
<1>3. CASE \/ \E s \in Flowing : Auth!ExchangeCodeForTokens(s)
           \/ \E s \in Servers \ Flowing : Auth!SaveTokens(s)
  BY <1>3, AuthStores
<1>4. ASSUME NEW s \in Servers, Auth!ClearTokens(s)
      PROVE  AuthInv'
  BY <1>4, AuthClears
<1>5. ASSUME NEW s \in Servers, Auth!BuildAuthProvider(s)
      PROVE  AuthInv'
  <2>1. Auth!LoadTokens(s) \in MaybeTokens
    BY StoreLoaded, TokenMapTyped DEF AuthInv, AuthTypes
  <2>2. flow' \in [Flowing -> FlowStates] /\ cache' \in [Servers -> MaybeTokens]
    BY <1>5, <2>1 DEF Auth!BuildAuthProvider, AuthInv, AuthTypes
  <2>3. UNCHANGED <<key, store, keys, last, issued, save>>
    BY <1>5 DEF Auth!BuildAuthProvider
  <2> QED
    BY <2>2, <2>3, SaveKept
<1>6. CASE Auth!Crash
  <2>1. flow' \in [Flowing -> FlowStates] /\ cache' \in [Servers -> MaybeTokens]
    BY <1>6 DEF Auth!Crash, FlowStates, MaybeTokens
  <2>2. /\ UNCHANGED <<key, store, keys, last, issued>> /\ save' = Auth!Idle
        /\ save.at = "keying" => keys < MaxKeys
    BY <1>6 DEF Auth!Crash
  <2>3. save' \in TokenSaves /\ issued' \in 0..MaxTokens
    BY <2>2, IdleTyped DEF AuthInv, AuthTypes
  <2>4. SaveInv'
    BY <2>2, IdleTyped DEF AuthInv, SaveInv, Auth!Whole
  <2> QED
    BY <2>1, <2>2, <2>3, <2>4, FilesKept
<1> QED
  BY <1>1, <1>2, <1>3, <1>4, <1>5, <1>6 DEF Auth!UNext

\* which has the properties of the tokens.
LEMMA AuthTyped == AuthInv => Auth!UTypeOK /\ Auth!AuthSafe
<1> SUFFICES ASSUME AuthInv PROVE Auth!UTypeOK /\ Auth!AuthSafe
  OBVIOUS
<1>1. store # None => store.key \in 1..MaxKeys /\ DOMAIN store.servers \subseteq Servers
  BY TokenMapTyped DEF AuthInv, AuthTypes, Auth!Stores
<1>2. save.at \in {"idle", "key", "keying", "write"} /\ save.for \in Servers \cup {None}
  BY DEF AuthInv, AuthTypes, TokenSaves
<1>3. Auth!UTypeOK
  BY <1>1, <1>2 DEF AuthInv, AuthTypes, FlowStates, MaybeTokens, Auth!UTypeOK
<1> QED
  BY <1>3 DEF AuthInv, Auth!AuthSafe

(***************************************************************************)
(* The worker engine: the queue is the assignments after the first k, a    *)
(* result is that of a worker that is done, and the signal is heard unless *)
(* it fired before a parallel call.                                        *)
(***************************************************************************)
\* What a worker is.
WorkerRecords ==
    [state : {"queued", "running", "done", "error"}, attempts : 0..2,
     seen : Seq(Worker!Ids), late : BOOLEAN]

\* The assignments after the first k.
After(k) == [i \in 1..(Workers - k) |-> k + i]

\* The types.
WorkerTypes ==
    /\ mode \in Modes /\ {signal, early, heard} \subseteq BOOLEAN
    /\ engine \in {"idle", "race", "drain", "returned"}
    /\ worker \in [Worker!Ids -> WorkerRecords]
    /\ results \in Seq(Worker!Ids) /\ racing \subseteq Worker!Ids

\* The workers not started are the last ones, and queued.
QueueInOrder ==
    \E k \in 0..Workers :
        /\ queue = After(k)
        /\ \A w \in Worker!Ids : worker[w].state = "queued" <=> w > k

\* Each result is that of a worker that is done, once.
ResultsOnce ==
    /\ Worker!ToSet(results) = {w \in Worker!Ids : worker[w].state \in {"done", "error"}}
    /\ Len(results) = Worker!Cardinality(Worker!ToSet(results))

\* Who has heard of the signal: a parallel call not of one that fired before it.
SignalHeard ==
    /\ early \/ heard => signal
    /\ signal => early \/ heard \/ Worker!Sequential
    /\ \A w \in Worker!Ids : worker[w].late => signal /\ early /\ ~Worker!Sequential

\* The engine stops starting workers for an abort only.
EngineStops ==
    /\ engine = "drain" => Worker!Aborted
    /\ engine = "returned" => /\ Worker!InFlight = {}
                              /\ queue # <<>> => Worker!Aborted

\* The worker of a pipeline that runs is the next, and knows all results.
PipelineNext ==
    mode.topology = "pipeline" =>
        \A w \in Worker!InFlight : worker[w].seen = results /\ w = Len(results) + 1

\* The invariant of the engine: its parts, and the bound and the order it is for.
WorkersInv ==
    /\ WorkerTypes /\ QueueInOrder /\ ResultsOnce /\ SignalHeard
    /\ EngineStops /\ PipelineNext
    /\ Worker!Bounded /\ Worker!PipelineAccumulates

\* The module's own cardinality is that of FiniteSets.
LEMMA WorkerCardinality ==
    ASSUME NEW S
    PROVE  Worker!Cardinality(S) = Cardinality(S)
BY DEF Worker!Cardinality, Cardinality

\* The limits of the engine.
LEMMA WorkerBounds ==
    /\ Workers \in Nat \ {0} /\ MaxRetries \in Nat \ {0}
    /\ Modes \subseteq [topology : {"pipeline", "parallel"}, concurrency : Nat]
BY ServicesAssumption DEF Worker!WorkersAssumption

\* The least of two numbers.
LEMMA WorkerMin ==
    ASSUME NEW a \in Nat, NEW b \in Nat
    PROVE  /\ Worker!Min({a, b}) \in Nat
           /\ Worker!Min({a, b}) <= a /\ Worker!Min({a, b}) <= b
           /\ Worker!Min({a, b}) \in {a, b}
<1> DEFINE P(x) == x \in {a, b} /\ \A y \in {a, b} : x <= y
<1>1. \E x : P(x)
  <2>1. CASE a <= b
    BY <2>1
  <2>2. CASE b <= a
    BY <2>2
  <2> QED
    BY <2>1, <2>2
<1>2. Worker!Min({a, b}) = CHOOSE x : P(x)
  BY DEF Worker!Min
<1> HIDE DEF P
<1>3. P(Worker!Min({a, b}))
  BY <1>1, <1>2
<1> QED
  BY <1>3 DEF P

\* What an append adds to what a sequence holds.
LEMMA AppendToSet ==
    ASSUME NEW S, NEW s \in Seq(S), NEW x \in S
    PROVE  Worker!ToSet(Append(s, x)) = Worker!ToSet(s) \cup {x}
<1> DEFINE t == Append(s, x)
<1>1. /\ DOMAIN t = 1..(Len(s) + 1) /\ DOMAIN s = 1..Len(s) /\ Len(s) \in Nat
      /\ t[Len(s) + 1] = x /\ \A i \in 1..Len(s) : t[i] = s[i]
  OBVIOUS
<1> HIDE DEF t
<1>2. \A y : y \in Worker!ToSet(t) <=> \E i \in 1..(Len(s) + 1) : y = t[i]
  BY <1>1 DEF Worker!ToSet
<1>3. \A y : y \in Worker!ToSet(s) <=> \E i \in 1..Len(s) : y = s[i]
  BY <1>1 DEF Worker!ToSet
<1>4. ASSUME NEW y PROVE y \in Worker!ToSet(t) <=> y \in Worker!ToSet(s) \cup {x}
  <2>1. 1..(Len(s) + 1) = 1..Len(s) \cup {Len(s) + 1}
    BY <1>1
  <2> QED
    BY <1>1, <1>2, <1>3, <2>1
<1> QED
  BY <1>4 DEF t

\* The first m of the assignments after k, and what is left.
LEMMA TakeFromQueue ==
    ASSUME NEW k \in 0..Workers, NEW m \in 0..(Workers - k)
    PROVE  /\ Len(After(k)) = Workers - k
           /\ Worker!ToSet(SubSeq(After(k), 1, m)) = (k + 1)..(k + m)
           /\ SubSeq(After(k), m + 1, Len(After(k))) = After(k + m)
<1>1. Workers \in Nat /\ Workers - k \in Nat
  BY WorkerBounds
<1>2. After(k) \in Seq(Nat) /\ Len(After(k)) = Workers - k
  BY <1>1 DEF After
<1>3. \A i \in 1..(Workers - k) : After(k)[i] = k + i
  BY <1>1 DEF After
<1>4. Worker!ToSet(SubSeq(After(k), 1, m)) = (k + 1)..(k + m)
  <2> DEFINE s == SubSeq(After(k), 1, m)
  <2>1. s \in Seq(Nat) /\ DOMAIN s = 1..m /\ \A i \in 1..m : s[i] = k + i
    BY <1>1, <1>2, <1>3
  <2> HIDE DEF s
  <2>2. \A x : x \in Worker!ToSet(s) <=> \E i \in 1..m : x = k + i
    BY <2>1 DEF Worker!ToSet
  <2>3. ASSUME NEW x PROVE x \in Worker!ToSet(s) <=> x \in (k + 1)..(k + m)
    <3>1. ASSUME x \in (k + 1)..(k + m) PROVE \E i \in 1..m : x = k + i
      <4>1. x - k \in 1..m /\ x = k + (x - k)
        BY <3>1
      <4> QED
        BY <4>1
    <3> QED
      BY <2>2, <3>1
  <2> QED
    BY <2>3 DEF s
<1>5. SubSeq(After(k), m + 1, Len(After(k))) = After(k + m)
  <2> DEFINE s == SubSeq(After(k), m + 1, Workers - k)
             n == Workers - (k + m)
  <2>1. s \in Seq(Nat) /\ Len(s) = n /\ n \in Nat
        /\ \A i \in 1..n : s[i] = After(k)[m + i]
    BY <1>1, <1>2
  <2>2. \A i \in 1..n : After(k)[m + i] = k + m + i /\ After(k + m)[i] = k + m + i
    BY <1>1, <1>3 DEF After
  <2>3. After(k + m) \in Seq(Nat) /\ Len(After(k + m)) = n
    BY <1>1 DEF After
  <2> HIDE DEF s, n
  <2>4. s = After(k + m)
    <3> DEFINE t == After(k + m)
    <3>1. t \in Seq(Nat) /\ Len(t) = n /\ \A i \in 1..n : s[i] = t[i]
      BY <2>1, <2>2, <2>3
    <3> HIDE DEF t
    <3>2. s = t
      BY <2>1, <3>1, SMTT(30)
    <3> QED
      BY <3>2 DEF t
  <2> QED
    BY <1>2, <2>4 DEF s
<1> QED
  BY <1>2, <1>4, <1>5

\* Init and every action keep the invariant of the engine.
LEMMA WorkersInit == Worker!WInit => WorkersInv
<1> SUFFICES ASSUME Worker!WInit PROVE WorkersInv
  OBVIOUS
<1> USE DEF Worker!WInit
<1>1. \A w \in Worker!Ids : worker[w].state = "queued" /\ worker[w].late = FALSE
  OBVIOUS
<1>2. Worker!InFlight = {}
  BY <1>1 DEF Worker!InFlight
<1>3. Worker!ToSet(results) = {}
  BY DEF Worker!ToSet
<1>4. WorkerTypes
  <2>1. [state |-> "queued", attempts |-> 0, seen |-> <<>>, late |-> FALSE] \in WorkerRecords
    BY DEF WorkerRecords
  <2>2. worker \in [Worker!Ids -> WorkerRecords]
    BY <2>1
  <2>3. results \in Seq(Worker!Ids) /\ racing \subseteq Worker!Ids
    OBVIOUS
  <2>4. mode \in Modes /\ {signal, early, heard} \subseteq BOOLEAN /\ engine = "idle"
    OBVIOUS
  <2> QED
    BY ONLY <2>2, <2>3, <2>4 DEF WorkerTypes
<1>5. QueueInOrder
  <2>1. queue = After(0) /\ 0 \in 0..Workers
    BY WorkerBounds DEF Worker!Ids, After
  <2>2. \A w \in Worker!Ids : w > 0
    BY WorkerBounds DEF Worker!Ids
  <2> QED
    BY <1>1, <2>1, <2>2 DEF QueueInOrder
<1>6. ResultsOnce
  <2>1. Worker!Cardinality({}) = 0
    BY WorkerCardinality, FS_EmptySet
  <2> QED
    BY <1>1, <1>3, <2>1 DEF ResultsOnce
<1>7. SignalHeard /\ EngineStops /\ PipelineNext
  BY <1>1, <1>2 DEF SignalHeard, EngineStops, PipelineNext
<1>8. Worker!Bounded
  <2>1. Worker!Cardinality(Worker!InFlight) = 0
    BY <1>2, WorkerCardinality, FS_EmptySet
  <2>2. mode.concurrency \in Nat
    BY WorkerBounds
  <2> QED
    BY <2>1, <2>2 DEF Worker!Bounded, Worker!Concurrency, Worker!Sequential
<1>9. Worker!PipelineAccumulates
  BY DEF Worker!PipelineAccumulates
<1> QED
  BY <1>4, <1>5, <1>6, <1>7, <1>8, <1>9 DEF WorkersInv

\* The number of workers in flight, as many as may be.
LEMMA InFlightCounted ==
    ASSUME WorkersInv
    PROVE  /\ IsFiniteSet(Worker!InFlight)
           /\ Cardinality(Worker!InFlight) \in Nat
           /\ Worker!Concurrency \in Nat \ {0}
           /\ Worker!Room \in Nat
           /\ Worker!Room = Worker!Concurrency - Cardinality(Worker!InFlight)
<1>1. IsFiniteSet(Worker!Ids)
  BY WorkerBounds, FS_Interval DEF Worker!Ids
<1>2. IsFiniteSet(Worker!InFlight)
  BY <1>1, FS_Subset, Worker!InFlight \subseteq Worker!Ids DEF Worker!InFlight
<1>3. mode.concurrency \in Nat
  BY WorkerBounds DEF WorkersInv, WorkerTypes
<1>4. Worker!Concurrency \in Nat \ {0}
  BY <1>3 DEF Worker!Concurrency, Worker!Sequential
<1>5. Cardinality(Worker!InFlight) \in Nat
  BY <1>2, FS_CardinalityType
<1>6. Worker!Cardinality(Worker!InFlight) = Cardinality(Worker!InFlight)
  BY WorkerCardinality
<1> QED
  BY <1>2, <1>4, <1>5, <1>6 DEF WorkersInv, Worker!Bounded, Worker!Room

\* The engine begins, and starts what it may;
LEMMA WorkersStart ==
    ASSUME WorkersInv, Worker!Start
    PROVE  WorkersInv'
<1> USE DEF Worker!Start
<1>1. PICK k \in 0..Workers :
        /\ queue = After(k)
        /\ \A w \in Worker!Ids : worker[w].state = "queued" <=> w > k
  BY DEF WorkersInv, QueueInOrder
<1> DEFINE m == Worker!Min({Len(queue), Worker!Room})
           started == Worker!ToSet(SubSeq(queue, 1, m))
<1>2. Workers \in Nat /\ Workers - k \in Nat /\ k \in Nat
  BY WorkerBounds
<1>3. Len(queue) = Workers - k
  BY <1>1, <1>2 DEF After
<1>4. m \in 0..(Workers - k) /\ m <= Worker!Room
  <2>1. /\ m \in Nat /\ m <= Len(queue) /\ m <= Worker!Room
    BY <1>2, <1>3, InFlightCounted, WorkerMin
  <2> HIDE DEF m
  <2> QED
    BY <1>2, <1>3, <2>1
<1> HIDE DEF m
<1>5. started = (k + 1)..(k + m)
  BY <1>1, <1>4, TakeFromQueue
<1>6. Cardinality(started) = m /\ IsFiniteSet(started)
  BY <1>2, <1>4, <1>5, FS_Interval
<1>7. queue' = After(k + m)
  <2>1. queue' = SubSeq(queue, Worker!Cardinality(started) + 1, Len(queue))
    BY DEF m
  <2>2. Worker!Cardinality(started) = m
    BY <1>6, WorkerCardinality
  <2> HIDE DEF started
  <2> QED
    BY <1>1, <1>4, <2>1, <2>2, TakeFromQueue
<1>8. worker' = [w \in Worker!Ids |-> IF w \notin started THEN worker[w]
                 ELSE [state |-> "running", attempts |-> 0, late |-> signal,
                       seen |-> IF mode.topology = "pipeline" THEN results ELSE <<>>]]
  BY DEF m
<1>9. /\ racing' = Worker!InFlight \cup started /\ engine' = "race"
      /\ UNCHANGED <<mode, signal, early, heard, results>>
      /\ ~Worker!Aborted
  BY DEF m
<1>10. started \subseteq Worker!Ids /\ \A w \in started : worker[w].state = "queued"
  <2>1. \A w \in started : w \in Worker!Ids /\ w > k
    BY <1>2, <1>4, <1>5 DEF Worker!Ids
  <2> QED
    BY <1>1, <2>1
<1> HIDE DEF started
<1>11. WorkerTypes'
  <2>1. ASSUME NEW s \in Seq(Worker!Ids)
        PROVE  [state |-> "running", attempts |-> 0, late |-> signal,
                seen |-> s] \in WorkerRecords
    BY DEF WorkersInv, WorkerTypes, WorkerRecords
  <2>2. results \in Seq(Worker!Ids) /\ <<>> \in Seq(Worker!Ids)
    BY DEF WorkersInv, WorkerTypes
  <2>3. worker' \in [Worker!Ids -> WorkerRecords]
    BY <1>8, <2>1, <2>2 DEF WorkersInv, WorkerTypes
  <2>4. racing' \subseteq Worker!Ids
    BY <1>9, <1>10 DEF Worker!InFlight
  <2> QED
    BY <1>9, <2>3, <2>4 DEF WorkersInv, WorkerTypes, Worker!Ids
<1>12. \A w \in Worker!Ids : /\ w \in started => worker'[w].state = "running" /\ worker'[w].late = signal
                             /\ w \notin started => worker'[w] = worker[w]
  <2> DEFINE given == IF mode.topology = "pipeline" THEN results ELSE <<>>
             new == [state |-> "running", attempts |-> 0, late |-> signal,
                     seen |-> given]
  <2>1. new.state = "running" /\ new.late = signal
    OBVIOUS
  <2>2. worker' = [w \in Worker!Ids |-> IF w \notin started THEN worker[w] ELSE new]
    BY <1>8
  <2> HIDE DEF new
  <2> QED
    BY <2>1, <2>2
<1>13. QueueInOrder'
  <2>1. k + m \in 0..Workers
    BY <1>2, <1>4
  <2>2. ASSUME NEW w \in Worker!Ids
        PROVE  worker'[w].state = "queued" <=> w > k + m
    <3>1. w \in Nat
      BY WorkerBounds DEF Worker!Ids
    <3>2. w \in started <=> w > k /\ ~(w > k + m)
      BY <1>2, <1>4, <1>5, <3>1
    <3>3. CASE w \in started
      BY <1>2, <1>4, <1>12, <3>1, <3>2, <3>3
    <3>4. CASE w \notin started
      <4>1. worker'[w] = worker[w]
        BY <1>12, <3>4
      <4>2. w > k <=> w > k + m
        BY <1>2, <1>4, <3>1, <3>2, <3>4
      <4> QED
        BY <1>1, <4>1, <4>2
    <3> QED
      BY <3>3, <3>4
  <2> QED
    BY <1>7, <2>1, <2>2 DEF QueueInOrder, Worker!Ids
<1>14. Worker!InFlight' = Worker!InFlight \cup started
  BY <1>10, <1>12 DEF Worker!InFlight, Worker!Ids
<1>15. ResultsOnce'
  <2>1. {w \in Worker!Ids : worker'[w].state \in {"done", "error"}}
          = {w \in Worker!Ids : worker[w].state \in {"done", "error"}}
    BY <1>10, <1>12
  <2>2. Worker!ToSet(results)' = Worker!ToSet(results) /\ results' = results
    BY <1>9 DEF Worker!ToSet
  <2> QED
    BY <2>1, <2>2, WorkerCardinality DEF WorkersInv, ResultsOnce, Worker!Ids
<1>16. Worker!Sequential' = Worker!Sequential
  BY <1>9 DEF Worker!Sequential
<1>17. SignalHeard'
  <2>1. ASSUME NEW w \in Worker!Ids, worker'[w].late
        PROVE  signal /\ early /\ ~Worker!Sequential
    <3>1. CASE w \notin started
      BY <1>12, <2>1, <3>1 DEF WorkersInv, SignalHeard
    <3>2. CASE w \in started
      <4>1. signal
        BY <1>12, <2>1, <3>2
      <4> QED
        BY <1>9, <4>1 DEF Worker!Aborted, WorkersInv, SignalHeard
    <3> QED
      BY <3>1, <3>2
  <2>2. UNCHANGED <<signal, early, heard>> /\ Worker!Ids' = Worker!Ids
    BY <1>9 DEF Worker!Ids
  <2>3. (early \/ heard => signal) /\ (signal => early \/ heard \/ Worker!Sequential)
    BY DEF WorkersInv, SignalHeard
  <2>4. \A w \in Worker!Ids : worker'[w].late => signal /\ early /\ ~Worker!Sequential
    BY <2>1
  <2> QED
    BY ONLY <1>16, <2>2, <2>3, <2>4 DEF SignalHeard
<1>18. EngineStops'
  BY <1>9 DEF EngineStops
<1>19. Worker!InFlight \cap started = {}
  BY <1>10 DEF Worker!InFlight
<1>20. Cardinality(Worker!InFlight') = Cardinality(Worker!InFlight) + m
  <2>1. Cardinality(Worker!InFlight \cup started)
          = Cardinality(Worker!InFlight) + Cardinality(started)
              - Cardinality(Worker!InFlight \cap started)
    BY <1>6, InFlightCounted, FS_Union
  <2>2. Cardinality(Worker!InFlight \cap started) = 0
    BY <1>19, FS_EmptySet
  <2> QED
    BY <1>4, <1>6, <1>14, <2>1, <2>2, InFlightCounted
<1>21. Worker!Concurrency' = Worker!Concurrency
  BY <1>9, <1>16 DEF Worker!Concurrency
<1>22. Worker!Bounded'
  <2>1. Worker!Cardinality(Worker!InFlight') = Cardinality(Worker!InFlight')
    BY WorkerCardinality
  <2>2. Cardinality(Worker!InFlight) + m <= Worker!Concurrency
    BY <1>4, InFlightCounted
  <2> QED
    BY <1>20, <1>21, <2>1, <2>2 DEF Worker!Bounded
<1>23. PipelineNext'
  <2>1. SUFFICES ASSUME mode.topology = "pipeline", NEW w \in Worker!InFlight'
                 PROVE  worker'[w].seen = results /\ w = Len(results) + 1
    BY <1>9 DEF PipelineNext
  <2>2. CASE w \in Worker!InFlight
    <3>1. w \in Worker!Ids /\ worker'[w] = worker[w]
      BY <1>12, <1>19, <2>2 DEF Worker!InFlight
    <3> QED
      BY <2>1, <2>2, <3>1 DEF WorkersInv, PipelineNext
  <2>3. CASE w \in started
    <3>1. worker'[w].seen = results
      <4>1. worker'[w] = [state |-> "running", attempts |-> 0, late |-> signal,
                          seen |-> results]
        BY <1>8, <1>10, <2>1, <2>3
      <4> QED
        BY <4>1
    <3>2. m >= 1
      BY <1>2, <1>4, <1>5, <2>3
    <3>3. Worker!Concurrency = 1
      BY <2>1 DEF Worker!Concurrency, Worker!Sequential
    <3>4. Cardinality(Worker!InFlight) = 0 /\ m = 1
      BY <1>4, <3>2, <3>3, InFlightCounted
    <3>5. Worker!InFlight = {}
      BY <3>4, InFlightCounted, FS_EmptySet
    <3>6. w = k + 1
      BY <1>2, <1>5, <2>3, <3>4
    <3>7. Worker!ToSet(results) = 1..k
      <4>1. ASSUME NEW v \in Worker!Ids
            PROVE  worker[v].state \in {"done", "error"} <=> ~(v > k)
        <5>1. worker[v].state \in {"queued", "running", "done", "error"}
          BY DEF WorkersInv, WorkerTypes, WorkerRecords
        <5>2. worker[v].state # "running"
          BY <3>5 DEF Worker!InFlight
        <5> QED
          BY <1>1, <5>1, <5>2
      <4>2. {v \in Worker!Ids : ~(v > k)} = 1..k
        BY <1>2 DEF Worker!Ids
      <4> QED
        BY <4>1, <4>2 DEF WorkersInv, ResultsOnce
    <3>8. Len(results) = k
      <4>1. Cardinality(1..k) = k
        BY <1>2, FS_Interval
      <4> QED
        BY <3>7, <4>1, WorkerCardinality DEF WorkersInv, ResultsOnce
    <3> QED
      BY <3>1, <3>6, <3>8
  <2> QED
    BY <1>14, <2>1, <2>2, <2>3
<1>24. Worker!PipelineAccumulates'
  <2>1. SUFFICES ASSUME mode.topology = "pipeline", NEW i \in DOMAIN results
                 PROVE  worker'[results[i]].seen = SubSeq(results, 1, i - 1) /\ results[i] = i
    BY <1>9 DEF Worker!PipelineAccumulates
  <2>2. results[i] \in Worker!Ids /\ worker[results[i]].state \in {"done", "error"}
    <3>1. results[i] \in Worker!ToSet(results)
      BY DEF Worker!ToSet
    <3> QED
      BY <3>1 DEF WorkersInv, ResultsOnce
  <2>3. worker'[results[i]] = worker[results[i]]
    BY <1>10, <1>12, <2>2
  <2> QED
    BY <2>1, <2>3 DEF WorkersInv, Worker!PipelineAccumulates
<1> QED
  BY <1>11, <1>13, <1>15, <1>17, <1>18, <1>22, <1>23, <1>24 DEF WorkersInv

\* the signal fires;
LEMMA WorkersAbort ==
    ASSUME WorkersInv, Worker!Abort
    PROVE  WorkersInv'
<1> USE DEF Worker!Abort
<1>1. /\ ~signal /\ signal' = TRUE /\ early' \in BOOLEAN /\ heard' \in BOOLEAN
      /\ UNCHANGED <<mode, engine, queue, worker, racing, results, shared>>
      /\ early' \/ heard' \/ Worker!Sequential
  OBVIOUS
<1>2. /\ Worker!Ids' = Worker!Ids /\ Worker!InFlight' = Worker!InFlight
      /\ Worker!Sequential' = Worker!Sequential
      /\ Worker!Concurrency' = Worker!Concurrency
      /\ Worker!ToSet(results)' = Worker!ToSet(results)
  BY <1>1 DEF Worker!Ids, Worker!InFlight, Worker!Sequential,
              Worker!Concurrency, Worker!ToSet
<1>3. WorkerTypes'
  BY <1>1, <1>2 DEF WorkersInv, WorkerTypes
<1>4. QueueInOrder' /\ PipelineNext' /\ Worker!PipelineAccumulates'
  BY <1>1, <1>2 DEF WorkersInv, QueueInOrder, PipelineNext, Worker!PipelineAccumulates
<1>5. ResultsOnce' /\ Worker!Bounded'
  BY <1>1, <1>2, WorkerCardinality DEF WorkersInv, ResultsOnce, Worker!Bounded
<1>6. SignalHeard'
  BY <1>1, <1>2 DEF WorkersInv, SignalHeard
<1>7. EngineStops'
  <2>1. ~Worker!Aborted
    BY <1>1 DEF WorkersInv, SignalHeard, Worker!Aborted
  <2> QED
    BY <1>1, <1>2, <2>1 DEF WorkersInv, EngineStops
<1> QED
  BY <1>3, <1>4, <1>5, <1>6, <1>7 DEF WorkersInv

\* What Drain and Return leave alone.
LEMMA WorkersEngine ==
    ASSUME WorkersInv, engine' \in {"drain", "returned"},
           UNCHANGED <<mode, signal, early, heard, queue, worker, racing, results, shared>>,
           engine' = "drain" => Worker!Aborted,
           engine' = "returned" => /\ Worker!InFlight = {}
                                   /\ queue # <<>> => Worker!Aborted
    PROVE  WorkersInv'
<1>1. /\ Worker!Ids' = Worker!Ids /\ Worker!InFlight' = Worker!InFlight
      /\ Worker!Sequential' = Worker!Sequential
      /\ Worker!Aborted' = Worker!Aborted
      /\ Worker!Concurrency' = Worker!Concurrency
      /\ Worker!ToSet(results)' = Worker!ToSet(results)
  BY DEF Worker!Ids, Worker!InFlight, Worker!Sequential, Worker!Aborted,
         Worker!Concurrency, Worker!ToSet
<1>2. WorkerTypes' /\ SignalHeard'
  BY <1>1 DEF WorkersInv, WorkerTypes, SignalHeard
<1>3. QueueInOrder' /\ PipelineNext' /\ Worker!PipelineAccumulates'
  BY <1>1 DEF WorkersInv, QueueInOrder, PipelineNext, Worker!PipelineAccumulates
<1>4. ResultsOnce' /\ Worker!Bounded'
  BY <1>1, WorkerCardinality DEF WorkersInv, ResultsOnce, Worker!Bounded
<1>5. EngineStops'
  BY <1>1 DEF EngineStops
<1> QED
  BY <1>2, <1>3, <1>4, <1>5 DEF WorkersInv

\* it returns;
LEMMA WorkersReturn ==
    ASSUME WorkersInv, Worker!Return
    PROVE  WorkersInv'
<1>1. Worker!InFlight = {} /\ (queue # <<>> => Worker!Aborted)
  BY DEF Worker!Return, Worker!Left, WorkersInv, EngineStops
<1> QED
  BY <1>1, WorkersEngine DEF Worker!Return

\* a worker asks again,
LEMMA WorkersAskAgain ==
    ASSUME WorkersInv, NEW w \in Worker!Ids, Worker!AskAgain(w)
    PROVE  WorkersInv'
<1>1. /\ w \in Worker!InFlight /\ Worker!MayAskAgain(w)
      /\ worker' = [worker EXCEPT ![w].attempts = @ + 1]
      /\ UNCHANGED <<mode, engine, signal, early, heard, queue, racing, results, shared>>
  BY DEF Worker!AskAgain
<1>2. worker \in [Worker!Ids -> WorkerRecords]
  BY DEF WorkersInv, WorkerTypes
<1>3. worker[w].attempts + 1 \in 0..2
  <2>1. worker[w].attempts \in 0..2
    BY <1>2 DEF WorkerRecords
  <2>2. Worker!Min({MaxRetries, 3}) <= 3 /\ Worker!Min({MaxRetries, 3}) \in Nat
    BY WorkerBounds, WorkerMin
  <2>3. worker[w].attempts + 1 < Worker!Min({MaxRetries, 3})
    BY <1>1 DEF Worker!MayAskAgain
  <2> QED
    BY <2>1, <2>2, <2>3
<1>4. /\ worker' \in [Worker!Ids -> WorkerRecords]
      /\ \A v \in Worker!Ids : /\ worker'[v].state = worker[v].state
                               /\ worker'[v].seen = worker[v].seen
                               /\ worker'[v].late = worker[v].late
  <2> DEFINE u == [worker[w] EXCEPT !.attempts = @ + 1]
  <2>1. /\ u \in WorkerRecords /\ u.state = worker[w].state
        /\ u.seen = worker[w].seen /\ u.late = worker[w].late
    BY <1>2, <1>3 DEF WorkerRecords
  <2>2. worker' = [worker EXCEPT ![w] = u]
    BY <1>1, <1>2
  <2> HIDE DEF u
  <2> QED
    BY <1>2, <2>1, <2>2
<1>5. /\ Worker!Ids' = Worker!Ids /\ Worker!InFlight' = Worker!InFlight
      /\ Worker!Sequential' = Worker!Sequential
      /\ Worker!Aborted' = Worker!Aborted
      /\ Worker!Concurrency' = Worker!Concurrency
      /\ Worker!ToSet(results)' = Worker!ToSet(results)
  BY <1>1, <1>4 DEF Worker!Ids, Worker!InFlight, Worker!Sequential, Worker!Aborted,
         Worker!Concurrency, Worker!ToSet
<1>6. WorkerTypes' /\ SignalHeard' /\ EngineStops'
  BY <1>1, <1>4, <1>5 DEF WorkersInv, WorkerTypes, SignalHeard, EngineStops
<1>7. QueueInOrder'
  BY <1>1, <1>4, <1>5 DEF WorkersInv, QueueInOrder
<1>8. PipelineNext'
  BY <1>1, <1>4, <1>5 DEF WorkersInv, PipelineNext, Worker!InFlight
<1>9. ResultsOnce' /\ Worker!Bounded'
  <2>1. {v \in Worker!Ids : worker'[v].state \in {"done", "error"}}
          = {v \in Worker!Ids : worker[v].state \in {"done", "error"}}
    BY <1>4
  <2> QED
    BY <1>1, <1>5, <2>1, WorkerCardinality DEF WorkersInv, ResultsOnce, Worker!Bounded
<1>10. Worker!PipelineAccumulates'
  <2>1. \A i \in DOMAIN results : results[i] \in Worker!Ids
    BY DEF WorkersInv, WorkerTypes
  <2> QED
    BY <1>1, <1>4, <2>1 DEF WorkersInv, Worker!PipelineAccumulates
<1> QED
  BY <1>6, <1>7, <1>8, <1>9, <1>10 DEF WorkersInv

\* The parts of a sequence before its end are not changed by an append.
LEMMA AppendKeeps ==
    ASSUME NEW S, NEW s \in Seq(S), NEW x \in S
    PROVE  /\ Append(s, x) \in Seq(S) /\ Len(Append(s, x)) = Len(s) + 1
           /\ Append(s, x)[Len(s) + 1] = x
           /\ \A i \in 1..Len(s) : Append(s, x)[i] = s[i]
           /\ \A i \in 0..Len(s) : SubSeq(Append(s, x), 1, i) = SubSeq(s, 1, i)
           /\ SubSeq(s, 1, Len(s)) = s
<1> DEFINE t == Append(s, x)
<1>1. /\ t \in Seq(S) /\ Len(t) = Len(s) + 1 /\ t[Len(s) + 1] = x
      /\ \A i \in 1..Len(s) : t[i] = s[i]
  OBVIOUS
<1> HIDE DEF t
<1>2. ASSUME NEW i \in 0..Len(s)
      PROVE  SubSeq(t, 1, i) = SubSeq(s, 1, i)
  <2> DEFINE a == SubSeq(t, 1, i)
             b == SubSeq(s, 1, i)
  <2>1. a \in Seq(S) /\ Len(a) = i /\ \A j \in 1..i : a[j] = t[j]
    BY <1>1
  <2>2. b \in Seq(S) /\ Len(b) = i /\ \A j \in 1..i : b[j] = s[j]
    OBVIOUS
  <2>3. \A j \in 1..i : a[j] = b[j]
    BY <1>1, <2>1, <2>2
  <2> HIDE DEF a, b
  <2>4. a = b
    BY <2>1, <2>2, <2>3
  <2> QED
    BY <2>4 DEF a, b
<1>3. SubSeq(s, 1, Len(s)) = s
  OBVIOUS
<1> QED
  BY <1>1, <1>2, <1>3 DEF t

\* or finishes.
LEMMA WorkersFinish ==
    ASSUME WorkersInv, NEW w \in Worker!Ids, NEW final \in {"done", "error"},
           Worker!Finish(w, final)
    PROVE  WorkersInv'
<1>1. /\ w \in Worker!InFlight
      /\ worker' = [worker EXCEPT ![w].state = final]
      /\ results' = Append(results, w)
      /\ UNCHANGED <<mode, engine, signal, early, heard, queue, racing>>
  BY DEF Worker!Finish
<1>2. worker \in [Worker!Ids -> WorkerRecords] /\ results \in Seq(Worker!Ids)
  BY DEF WorkersInv, WorkerTypes
<1>3. /\ worker' \in [Worker!Ids -> WorkerRecords]
      /\ worker'[w].state = final
      /\ \A v \in Worker!Ids \ {w} : worker'[v] = worker[v]
      /\ \A v \in Worker!Ids : /\ worker'[v].seen = worker[v].seen
                               /\ worker'[v].late = worker[v].late
  <2> DEFINE u == [worker[w] EXCEPT !.state = final]
  <2>1. /\ u \in WorkerRecords /\ u.state = final
        /\ u.seen = worker[w].seen /\ u.late = worker[w].late
    BY <1>2 DEF WorkerRecords
  <2>2. worker' = [worker EXCEPT ![w] = u]
    BY <1>1, <1>2
  <2> HIDE DEF u
  <2> QED
    BY <1>2, <2>1, <2>2
<1>4. /\ Worker!Ids' = Worker!Ids
      /\ Worker!Sequential' = Worker!Sequential
      /\ Worker!Aborted' = Worker!Aborted
      /\ Worker!Concurrency' = Worker!Concurrency
  BY <1>1 DEF Worker!Ids, Worker!Sequential, Worker!Aborted, Worker!Concurrency
<1>5. Worker!InFlight' = Worker!InFlight \ {w} /\ worker[w].state = "running"
  BY <1>1, <1>3, <1>4 DEF Worker!InFlight
<1>6. Worker!ToSet(results)' = Worker!ToSet(results) \cup {w}
  BY <1>1, <1>2, AppendToSet
<1>7. WorkerTypes'
  <2>1. results' \in Seq(Worker!Ids)
    BY <1>1, <1>2
  <2> QED
    BY <1>1, <1>3, <1>4, <2>1 DEF WorkersInv, WorkerTypes
<1>8. QueueInOrder'
  <2>1. \A v \in Worker!Ids : worker'[v].state = "queued" <=> worker[v].state = "queued"
    BY <1>3, <1>5
  <2> QED
    BY <1>1, <1>4, <2>1 DEF WorkersInv, QueueInOrder
<1>9. w \notin Worker!ToSet(results)
  BY <1>5 DEF WorkersInv, ResultsOnce
<1>10. ResultsOnce'
  <2>1. {v \in Worker!Ids : worker'[v].state \in {"done", "error"}}
          = {v \in Worker!Ids : worker[v].state \in {"done", "error"}} \cup {w}
    BY <1>3
  <2>2. IsFiniteSet(Worker!ToSet(results))
    <3>1. IsFiniteSet(Worker!Ids)
      BY WorkerBounds, FS_Interval DEF Worker!Ids
    <3>2. Worker!ToSet(results) \subseteq Worker!Ids
      BY DEF WorkersInv, ResultsOnce
    <3> QED
      BY <3>1, <3>2, FS_Subset
  <2>3. Cardinality(Worker!ToSet(results) \cup {w}) = Cardinality(Worker!ToSet(results)) + 1
    BY <1>9, <2>2, FS_AddElement
  <2>4. Len(results') = Len(results) + 1
    BY <1>1, <1>2
  <2> QED
    BY <1>4, <1>6, <2>1, <2>3, <2>4, WorkerCardinality DEF WorkersInv, ResultsOnce
<1>11. SignalHeard'
  BY <1>1, <1>3, <1>4 DEF WorkersInv, SignalHeard
<1>12. EngineStops'
  BY <1>1, <1>4, <1>5 DEF WorkersInv, EngineStops
<1>13. Worker!Bounded'
  <2>1. Cardinality(Worker!InFlight \ {w}) = Cardinality(Worker!InFlight) - 1
    BY <1>1, InFlightCounted, FS_RemoveElement
  <2>2. Cardinality(Worker!InFlight) <= Worker!Concurrency
    BY WorkerCardinality DEF WorkersInv, Worker!Bounded
  <2>3. Cardinality(Worker!InFlight') = Cardinality(Worker!InFlight) - 1
    BY <1>5, <2>1
  <2>4. Worker!Cardinality(Worker!InFlight') <= Worker!Concurrency
    BY <2>2, <2>3, InFlightCounted, WorkerCardinality
  <2> QED
    BY <1>4, <2>4 DEF Worker!Bounded
<1>14. PipelineNext' /\ Worker!PipelineAccumulates'
  <2>1. SUFFICES ASSUME mode.topology = "pipeline"
                 PROVE  PipelineNext' /\ Worker!PipelineAccumulates'
    BY <1>1 DEF PipelineNext, Worker!PipelineAccumulates
  <2>2. worker[w].seen = results /\ w = Len(results) + 1
    BY <1>1, <2>1 DEF WorkersInv, PipelineNext
  <2>3. Worker!InFlight' = {}
    BY <1>1, <1>5, <2>1, <2>2 DEF WorkersInv, PipelineNext
  <2>4. ASSUME NEW i \in 1..(Len(results) + 1)
        PROVE  worker'[results'[i]].seen = SubSeq(results', 1, i - 1) /\ results'[i] = i
    <3>1. CASE i = Len(results) + 1
      <4>1. results'[i] = w /\ SubSeq(results', 1, i - 1) = results
        <5>1. Len(results) \in 0..Len(results) /\ i - 1 = Len(results)
          BY <1>2, <3>1
        <5> QED
          BY <1>1, <1>2, <3>1, <5>1, AppendKeeps
      <4> QED
        BY <1>3, <2>2, <3>1, <4>1
    <3>2. CASE i # Len(results) + 1
      <4>1. i \in 1..Len(results) /\ i - 1 \in 0..Len(results) /\ i \in DOMAIN results
        BY <1>2, <3>2
      <4>2. results'[i] = results[i] /\ SubSeq(results', 1, i - 1) = SubSeq(results, 1, i - 1)
        BY <1>1, <1>2, <4>1, AppendKeeps
      <4>3. worker[results[i]].seen = SubSeq(results, 1, i - 1) /\ results[i] = i
        BY <2>1, <4>1 DEF WorkersInv, Worker!PipelineAccumulates
      <4>4. results[i] \in Worker!Ids
        BY <1>2, <4>1
      <4> QED
        BY <1>3, <4>2, <4>3, <4>4
    <3> QED
      BY <3>1, <3>2
  <2>5. DOMAIN results' = 1..(Len(results) + 1)
    BY <1>1, <1>2
  <2> QED
    BY <2>3, <2>4, <2>5 DEF PipelineNext, Worker!PipelineAccumulates
<1> QED
  BY <1>7, <1>8, <1>10, <1>11, <1>12, <1>13, <1>14 DEF WorkersInv

\* Every step keeps the invariant.
LEMMA WorkersNext == WorkersInv /\ Worker!WNext => WorkersInv'
<1> SUFFICES ASSUME WorkersInv, Worker!WNext PROVE WorkersInv'
  OBVIOUS
<1>1. CASE Worker!Abort
  BY <1>1, WorkersAbort
<1>2. CASE Worker!Start
  BY <1>2, WorkersStart
<1>3. CASE Worker!Drain
  BY <1>3, WorkersEngine DEF Worker!Drain
<1>4. CASE Worker!Return
  BY <1>4, WorkersReturn
<1>5. ASSUME NEW w \in Worker!Ids, Worker!AskAgain(w) PROVE WorkersInv'
  BY <1>5, WorkersAskAgain
<1>6. ASSUME NEW w \in Worker!Ids, NEW final \in {"done", "error"},
             Worker!Finish(w, final)
      PROVE  WorkersInv'
  BY <1>6, WorkersFinish
<1> QED
  BY <1>1, <1>2, <1>3, <1>4, <1>5, <1>6
  DEF Worker!WNext, Worker!Engine, Worker!Answer

\* Nothing else counts.
LEMMA WorkersStutter == WorkersInv /\ UNCHANGED workersVars => WorkersInv'
<1> SUFFICES ASSUME WorkersInv, UNCHANGED workersVars PROVE WorkersInv'
  OBVIOUS
<1>1. UNCHANGED <<mode, engine, signal, early, heard, queue, worker, racing, results>>
  BY DEF workersVars
<1>2. /\ Worker!Ids' = Worker!Ids /\ Worker!InFlight' = Worker!InFlight
      /\ Worker!Sequential' = Worker!Sequential
      /\ Worker!Aborted' = Worker!Aborted
      /\ Worker!Concurrency' = Worker!Concurrency
      /\ Worker!ToSet(results)' = Worker!ToSet(results)
  BY <1>1 DEF Worker!Ids, Worker!InFlight, Worker!Sequential, Worker!Aborted,
              Worker!Concurrency, Worker!ToSet
<1>3. WorkerTypes' /\ SignalHeard' /\ EngineStops'
  BY <1>1, <1>2 DEF WorkersInv, WorkerTypes, SignalHeard, EngineStops
<1>4. QueueInOrder' /\ PipelineNext' /\ Worker!PipelineAccumulates'
  BY <1>1, <1>2 DEF WorkersInv, QueueInOrder, PipelineNext, Worker!PipelineAccumulates
<1>5. ResultsOnce' /\ Worker!Bounded'
  BY <1>1, <1>2, WorkerCardinality DEF WorkersInv, ResultsOnce, Worker!Bounded
<1> QED
  BY <1>3, <1>4, <1>5 DEF WorkersInv

\* The invariant has the properties of the engine.
LEMMA WorkersTyped == WorkersInv => Worker!WTypeOK /\ Worker!WorkersSafe
<1> SUFFICES ASSUME WorkersInv PROVE Worker!WTypeOK /\ Worker!WorkersSafe
  OBVIOUS
<1>1. Worker!ToSet(queue) \subseteq Worker!Ids
  <2>1. PICK k \in 0..Workers : queue = After(k)
    BY DEF WorkersInv, QueueInOrder
  <2>2. Workers \in Nat
    BY WorkerBounds
  <2>3. \A i \in DOMAIN queue : queue[i] \in 1..Workers
    BY <2>1, <2>2 DEF After
  <2> QED
    BY <2>3 DEF Worker!ToSet, Worker!Ids
<1>2. Worker!ToSet(results) \subseteq Worker!Ids
  BY DEF WorkersInv, ResultsOnce
<1>3. \A w \in Worker!Ids :
         /\ worker[w].state \in {"queued", "running", "done", "error"}
         /\ worker[w].attempts < 3
  BY SMTT(30) DEF WorkersInv, WorkerTypes, WorkerRecords
<1>4. Worker!WTypeOK
  BY <1>1, <1>2, <1>3 DEF WorkersInv, WorkerTypes, Worker!WTypeOK
<1>5. Worker!NoneAfterAbort
  BY DEF WorkersInv, SignalHeard, Worker!NoneAfterAbort
<1>6. Worker!AllReturned
  <2>1. SUFFICES ASSUME engine = "returned"
                 PROVE  /\ Worker!ToSet(results) = {w \in Worker!Ids : worker[w].state # "queued"}
                        /\ Len(results) = Worker!Cardinality(Worker!ToSet(results))
                        /\ queue # <<>> => Worker!Aborted
    BY DEF Worker!AllReturned
  <2>2. \A w \in Worker!Ids : worker[w].state # "running"
    BY <2>1 DEF WorkersInv, EngineStops, Worker!InFlight
  <2>3. Worker!ToSet(results) = {w \in Worker!Ids : worker[w].state # "queued"}
    BY <1>3, <2>2 DEF WorkersInv, ResultsOnce
  <2> QED
    BY <2>1, <2>3 DEF WorkersInv, ResultsOnce, EngineStops
<1> QED
  BY <1>4, <1>5, <1>6 DEF WorkersInv, Worker!WorkersSafe

(***************************************************************************)
(* The swarm with handoffs: each handoff follows a turn and each turn a    *)
(* handoff, and the turns are those of the agents of the history.          *)
(***************************************************************************)
\* What a session, a turn and a trace of the swarm are.
SwarmSessions ==
    [active : Agents \cup {None}, history : Seq(Agents), handoffs : Nat,
     artifacts : 0..1, told : [Agents -> Nat], messages : [Agents -> Nat]]
SwarmTurns == [agent : Agents, task : Nat]
SwarmTraces ==
    [unflushed : BOOLEAN, timer : BOOLEAN, handler : BOOLEAN, lost : BOOLEAN]

\* The types.
HandoffTypes ==
    /\ swarm \in {"idle", "head", "running", "after", "done", "threw", "left"}
    /\ session \in SwarmSessions /\ runs \in Seq(SwarmTurns)
    /\ payload \in Handoff!Targets /\ spent \in Nat
    /\ aborted \in BOOLEAN /\ trace \in SwarmTraces

\* Who is active was made so by the last handoff, and told its task with it.
ActiveIsLast ==
    session.active # None =>
        /\ Len(session.history) = session.handoffs + 1
        /\ session.history[Len(session.history)] = session.active
        /\ session.told[session.active] = Len(session.history)

\* Each handoff follows a turn, and each turn a handoff or the beginning.
TurnsCounted ==
    /\ Len(runs) <= Len(session.history) /\ Len(runs) <= MaxHandoffs
    /\ session.handoffs <= Len(runs) /\ spent <= Len(runs)
    /\ swarm = "idle" => session.history = <<>> /\ session.active = None
    /\ swarm = "head" /\ session.active # None => Len(runs) = session.handoffs
    /\ swarm \in {"running", "after"} =>
           Len(runs) = session.handoffs + 1 /\ Len(session.history) = session.handoffs + 1
    /\ swarm = "running" => session.active # None /\ spent < Len(runs)

\* The turns are those of the agents of the history.
TurnsInHistory ==
    \A i \in DOMAIN runs :
        /\ runs[i].agent = session.history[i]
        /\ ContextMode[runs[i].agent] = "filtered" => runs[i].task = i

\* No agent has had as many turns in a row as stop the swarm.
NoTightLoop ==
    \A i \in 1 .. Len(runs) - SameAgentLimit + 1 :
        \E j \in i .. i + SameAgentLimit - 1 : runs[j].agent # runs[i].agent

\* The trace waits for its timer or its handler, and loses nothing before the end.
TraceInv ==
    /\ Handoff!TraceKept
    /\ trace.lost => Handoff!Ended

\* The invariant of the swarm.
HandoffInv ==
    /\ HandoffTypes /\ ActiveIsLast /\ TurnsCounted
    /\ TurnsInHistory /\ NoTightLoop /\ TraceInv

\* The limits of the swarm.
LEMMA HandoffBounds ==
    /\ MaxHandoffs \in Nat /\ SameAgentLimit \in Nat \ {0} /\ None \notin Agents
BY ServicesAssumption DEF Handoff!SwarmHandoffAssumption

\* Init and every action keep the invariant of the swarm.
LEMMA HandoffInit == Handoff!HInit => HandoffInv
<1> SUFFICES ASSUME Handoff!HInit PROVE HandoffInv
  OBVIOUS
<1> USE DEF Handoff!HInit
<1>1. HandoffTypes
  <2>1. session \in SwarmSessions
    BY DEF SwarmSessions
  <2>2. trace \in SwarmTraces
    BY DEF SwarmTraces
  <2>3. runs \in Seq(SwarmTurns)
    OBVIOUS
  <2>4. swarm = "idle" /\ payload = None /\ spent = 0 /\ aborted = FALSE
    OBVIOUS
  <2> QED
    BY ONLY <2>1, <2>2, <2>3, <2>4 DEF HandoffTypes, Handoff!Targets
<1>2. ActiveIsLast /\ TurnsCounted /\ TurnsInHistory
  BY HandoffBounds DEF ActiveIsLast, TurnsCounted, TurnsInHistory
<1>3. NoTightLoop
  BY HandoffBounds DEF NoTightLoop
<1>4. TraceInv
  BY DEF TraceInv, Handoff!TraceKept
<1> QED
  BY <1>1, <1>2, <1>3, <1>4 DEF HandoffInv

\* What becomes of a trace.
LEMMA TraceSteps ==
    ASSUME NEW t \in SwarmTraces
    PROVE  /\ Handoff!Recorded(t) \in SwarmTraces
           /\ Handoff!Recorded(t).unflushed /\ Handoff!Recorded(t).timer
           /\ Handoff!Recorded(t).handler = t.handler
           /\ Handoff!Recorded(t).lost = t.lost
           /\ Handoff!Flushed(t) \in SwarmTraces
           /\ ~Handoff!Flushed(t).unflushed /\ ~Handoff!Flushed(t).timer
           /\ Handoff!Flushed(t).lost = t.lost
           /\ Handoff!Flushed(t).handler => t.handler
BY DEF Handoff!Recorded, Handoff!Flushed, SwarmTraces

\* A step of a swarm that goes on, or ends, records an event or none.
LEMMA TraceRecorded ==
    ASSUME HandoffInv, ~Handoff!Ended, swarm' # "done",
           trace' \in {trace, Handoff!Recorded(trace)}
    PROVE  trace' \in SwarmTraces /\ TraceInv'
BY TraceSteps DEF HandoffInv, HandoffTypes, TraceInv, Handoff!TraceKept

\* Steps that leave the session, the turns and the phase alone.
LEMMA SessionKept ==
    ASSUME HandoffInv, UNCHANGED <<swarm, session, runs, payload, spent>>,
           aborted' \in BOOLEAN, trace' \in SwarmTraces, TraceInv'
    PROVE  HandoffInv'
BY DEF HandoffInv, HandoffTypes, ActiveIsLast, TurnsCounted, TurnsInHistory,
       NoTightLoop, Handoff!Targets

\* Steps that leave the session and the turns alone: a turn ends without
\* spending, or the swarm ends.
LEMMA TurnEnded ==
    ASSUME HandoffInv, UNCHANGED <<session, runs, spent, aborted>>,
           swarm' \in {"after", "done", "threw", "left"},
           swarm' = "after" => swarm = "running",
           payload' \in Handoff!Targets, trace' \in SwarmTraces, TraceInv'
    PROVE  HandoffInv'
BY DEF HandoffInv, HandoffTypes, ActiveIsLast, TurnsCounted, TurnsInHistory,
       NoTightLoop, Handoff!Targets

\* A turn of the loop begins;
LEMMA HandoffBegin ==
    ASSUME HandoffInv, Handoff!Begin
    PROVE  HandoffInv'
<1> USE DEF Handoff!Begin
<1>1. UNCHANGED <<runs, payload, spent, aborted>> /\ swarm = "idle"
  OBVIOUS
<1>2. trace' \in SwarmTraces /\ TraceInv'
  <2> DEFINE t == [trace EXCEPT !.handler = TRUE]
  <2>1. trace \in SwarmTraces /\ ~trace.lost
    BY DEF HandoffInv, HandoffTypes, TraceInv, Handoff!Ended
  <2>2. t \in SwarmTraces /\ ~t.lost
    BY <2>1 DEF SwarmTraces
  <2>3. trace' = Handoff!Recorded(t)
    OBVIOUS
  <2> HIDE DEF t
  <2> QED
    BY <2>2, <2>3, TraceSteps DEF TraceInv, Handoff!TraceKept
<1>3. CASE Initial \notin Agents
  BY <1>1, <1>2, <1>3, TurnEnded DEF HandoffInv, HandoffTypes
<1>4. CASE Initial \in Agents
  <2>1. /\ swarm' = "head"
        /\ session' = [session EXCEPT !.active = Initial, !.history = <<Initial>>,
                                      !.told[Initial] = 1]
    BY <1>4
  <2>2. session \in SwarmSessions
    BY DEF HandoffInv, HandoffTypes
  <2>3. session.history = <<>> /\ Len(runs) = 0 /\ session.handoffs = 0 /\ spent = 0 /\ runs = <<>>
    <3>1. session.history = <<>> /\ Len(runs) <= Len(session.history)
      BY <1>1 DEF HandoffInv, TurnsCounted
    <3>2. runs \in Seq(SwarmTurns) /\ Len(runs) = 0
      BY <3>1 DEF HandoffInv, HandoffTypes
    <3> QED
      BY <2>2, <3>1, <3>2 DEF HandoffInv, HandoffTypes, TurnsCounted, SwarmSessions
  <2>4. /\ session' \in SwarmSessions /\ session'.active = Initial
        /\ session'.history = <<Initial>> /\ session'.handoffs = 0
        /\ session'.told[Initial] = 1
    <3>1. [session.told EXCEPT ![Initial] = 1] \in [Agents -> Nat]
          /\ [session.told EXCEPT ![Initial] = 1][Initial] = 1
      BY <1>4, <2>2 DEF SwarmSessions
    <3>2. session' = [session EXCEPT !.active = Initial, !.history = <<Initial>>,
                                     !.told = [session.told EXCEPT ![Initial] = 1]]
      BY <2>1, <2>2 DEF SwarmSessions
    <3>3. <<Initial>> \in Seq(Agents)
      BY <1>4
    <3> QED
      BY <1>4, <2>2, <2>3, <3>1, <3>2, <3>3 DEF SwarmSessions
  <2>5. HandoffTypes'
    BY <1>1, <1>2, <2>1, <2>4 DEF HandoffInv, HandoffTypes, Handoff!Targets
  <2>6. ActiveIsLast' /\ TurnsCounted'
    BY <1>1, <2>1, <2>3, <2>4, HandoffBounds DEF HandoffInv, ActiveIsLast, TurnsCounted
  <2>7. TurnsInHistory' /\ NoTightLoop'
    BY <1>1, <2>3, HandoffBounds DEF TurnsInHistory, NoTightLoop
  <2> QED
    BY <1>2, <2>5, <2>6, <2>7 DEF HandoffInv
<1> QED
  BY <1>3, <1>4

\* the first agent starts;
LEMMA HandoffStartAgent ==
    ASSUME HandoffInv, Handoff!StartAgent
    PROVE  HandoffInv'
<1> DEFINE a == session.active
           n == Len(session.history)
           turn == [agent |-> a, task |-> Handoff!Context(a).task]
<1>1. /\ swarm = "head" /\ a # None /\ ~Handoff!Tripped(a)
      /\ swarm' = "running" /\ runs' = Append(runs, turn)
      /\ trace' = Handoff!Recorded(trace)
      /\ UNCHANGED <<session, payload, spent, aborted>>
  BY DEF Handoff!StartAgent
<1>2. trace' \in SwarmTraces /\ TraceInv'
  BY <1>1, TraceRecorded DEF Handoff!Ended
<1>3. session \in SwarmSessions /\ a \in Agents /\ n \in Nat /\ session.handoffs \in Nat
  BY <1>1 DEF HandoffInv, HandoffTypes, SwarmSessions
<1>4. /\ n = session.handoffs + 1 /\ session.history[n] = a
      /\ session.told[a] = n /\ Len(runs) = session.handoffs
  BY <1>1 DEF HandoffInv, ActiveIsLast, TurnsCounted
<1>5. /\ session.handoffs < MaxHandoffs
      /\ n >= SameAgentLimit =>
             \E i \in n - SameAgentLimit + 1 .. n : session.history[i] # a
  BY <1>1, <1>3, HandoffBounds DEF Handoff!Tripped, Handoff!TightLoop
<1>6. /\ Handoff!Context(a).task \in Nat
      /\ ContextMode[a] = "filtered" => Handoff!Context(a).task = n
  BY <1>3, <1>4 DEF Handoff!Context
<1>7. turn \in SwarmTurns /\ turn.agent = a
      /\ (ContextMode[a] = "filtered" => turn.task = n)
  BY <1>3, <1>6 DEF SwarmTurns
<1> HIDE DEF turn
<1>8. runs \in Seq(SwarmTurns) /\ spent \in Nat /\ spent <= Len(runs)
  BY DEF HandoffInv, HandoffTypes, TurnsCounted
<1>9. /\ runs' \in Seq(SwarmTurns) /\ Len(runs') = n /\ DOMAIN runs' = 1..n
      /\ runs'[n] = turn /\ \A i \in 1..(n - 1) : runs'[i] = runs[i] /\ i \in DOMAIN runs
  BY <1>1, <1>3, <1>4, <1>7, <1>8
<1> HIDE DEF n
<1>10. HandoffTypes'
  BY <1>1, <1>2, <1>9 DEF HandoffInv, HandoffTypes, Handoff!Targets
<1>11. ActiveIsLast'
  BY <1>1 DEF HandoffInv, ActiveIsLast
<1>12. TurnsCounted'
  BY <1>1, <1>3, <1>4, <1>5, <1>8, <1>9, HandoffBounds DEF HandoffInv, TurnsCounted, n
<1>13. \A i \in 1..n : /\ runs'[i].agent = session.history[i]
                       /\ ContextMode[runs'[i].agent] = "filtered" => runs'[i].task = i
  <2>1. ASSUME NEW i \in 1..n
        PROVE  /\ runs'[i].agent = session.history[i]
               /\ ContextMode[runs'[i].agent] = "filtered" => runs'[i].task = i
    <3>1. CASE i = n
      BY <1>4, <1>7, <1>9, <3>1
    <3>2. CASE i # n
      <4>1. i \in 1..(n - 1)
        BY <1>3, <3>2
      <4> QED
        BY <1>9, <4>1 DEF HandoffInv, TurnsInHistory
    <3> QED
      BY <3>1, <3>2
  <2> QED
    BY <2>1
<1>14. TurnsInHistory'
  BY <1>1, <1>9, <1>13 DEF TurnsInHistory
<1>15. NoTightLoop'
  <2> DEFINE k == SameAgentLimit
  <2>1. k \in Nat /\ k >= 1
    BY HandoffBounds
  <2> HIDE DEF k
  <2>2. ASSUME NEW i \in 1 .. n - k + 1
        PROVE  \E j \in i .. i + k - 1 : runs'[j].agent # runs'[i].agent
    <3>1. CASE i = n - k + 1
      <4>1. n >= k /\ i \in 1..n /\ i + k - 1 = n /\ n \in i .. i + k - 1
        BY <1>3, <2>1, <3>1
      <4>2. PICK j \in i .. n : session.history[j] # a
        BY <1>5, <3>1, <4>1 DEF k
      <4>3. j \in 1..n /\ j \in i .. i + k - 1 /\ runs'[j].agent = session.history[j]
        BY <1>3, <1>13, <4>1
      <4>4. runs'[n].agent = a
        BY <1>7, <1>9
      <4> QED
        BY <4>1, <4>2, <4>3, <4>4
    <3>2. CASE i # n - k + 1
      <4>1. i \in 1 .. (n - 1) - k + 1 /\ Len(runs) = n - 1
        BY <1>3, <1>4, <2>1, <3>2
      <4>2. PICK j \in i .. i + k - 1 : runs[j].agent # runs[i].agent
        BY <4>1 DEF HandoffInv, NoTightLoop, k
      <4>3. i \in 1..(n - 1) /\ j \in 1..(n - 1)
        BY <1>3, <2>1, <4>1
      <4> QED
        BY <1>9, <4>2, <4>3
    <3> QED
      BY <3>1, <3>2
  <2> QED
    BY <1>9, <2>2 DEF NoTightLoop, k
<1> QED
  BY <1>2, <1>10, <1>11, <1>12, <1>14, <1>15 DEF HandoffInv

\* A step that changes only fields of the session the turns do not depend on.
LEMMA SessionEdited ==
    ASSUME HandoffInv, UNCHANGED runs,
           session' \in SwarmSessions, session'.history = session.history,
           session'.handoffs = session.handoffs, session'.told = session.told,
           session'.active \in {session.active, None},
           swarm' \in {"head", "running", "after"},
           \/ swarm = "running" /\ swarm' = "running" /\ session'.active = session.active /\ spent' = spent
           \/ swarm = "running" /\ swarm' = "after"
           \/ swarm = "after" /\ swarm' = "head" /\ session'.active = None,
           spent' \in Nat, spent' <= Len(runs),
           payload' \in Handoff!Targets, aborted' \in BOOLEAN,
           trace' \in SwarmTraces, TraceInv'
    PROVE  HandoffInv'
<1>1. HandoffTypes'
  BY DEF HandoffInv, HandoffTypes, Handoff!Targets
<1>2. ActiveIsLast'
  BY DEF HandoffInv, ActiveIsLast
<1>3. TurnsCounted'
  BY DEF HandoffInv, TurnsCounted
<1>4. TurnsInHistory' /\ NoTightLoop'
  BY DEF HandoffInv, TurnsInHistory, NoTightLoop
<1> QED
  BY <1>1, <1>2, <1>3, <1>4 DEF HandoffInv

\* an agent sets an artifact,
LEMMA HandoffSetArtifact ==
    ASSUME HandoffInv, Handoff!SetArtifact
    PROVE  HandoffInv'
<1>1. /\ swarm = "running" /\ session' = [session EXCEPT !.artifacts = 1]
      /\ UNCHANGED <<swarm, runs, payload, spent, aborted, trace>>
  BY DEF Handoff!SetArtifact
<1>2. session \in SwarmSessions
  BY DEF HandoffInv, HandoffTypes
<1>3. /\ session' \in SwarmSessions /\ session'.history = session.history
      /\ session'.handoffs = session.handoffs /\ session'.told = session.told
      /\ session'.active = session.active
  <2>1. 1 \in 0..1
    OBVIOUS
  <2>2. session' = [session EXCEPT !.artifacts = 1]
    BY <1>1
  <2> QED
    BY ONLY <1>2, <2>1, <2>2 DEF SwarmSessions
<1>4. trace' \in SwarmTraces /\ TraceInv'
  BY <1>1, TraceRecorded DEF Handoff!Ended
<1> QED
  BY <1>1, <1>3, <1>4, SessionEdited DEF HandoffInv, HandoffTypes, TurnsCounted, Handoff!Targets

\* and ends its turn,
LEMMA HandoffTurnDone ==
    ASSUME HandoffInv, NEW target \in Handoff!Targets, NEW cost \in 0..1,
           Handoff!TurnDone(target, cost)
    PROVE  HandoffInv'
<1> DEFINE a == session.active
           messages == [session.messages EXCEPT ![a] = @ + Handoff!Context(a).size]
<1>1. /\ swarm = "running" /\ swarm' = "after" /\ payload' = target
      /\ spent' = spent + cost
      /\ session' = [session EXCEPT !.messages[a] = @ + Handoff!Context(a).size,
                                    !.active = IF spent' > CostLimit THEN None ELSE @]
      /\ trace' = Handoff!Recorded(trace) /\ UNCHANGED <<runs, aborted>>
  BY DEF Handoff!TurnDone
<1>2. session \in SwarmSessions /\ a \in Agents
  BY <1>1 DEF HandoffInv, HandoffTypes, TurnsCounted, SwarmSessions
<1>3. Handoff!Context(a).size \in Nat
  BY <1>2 DEF Handoff!Context, SwarmSessions
<1>4. messages \in [Agents -> Nat]
  <2>1. session.messages \in [Agents -> Nat]
    BY <1>2 DEF SwarmSessions
  <2>2. session.messages[a] + Handoff!Context(a).size \in Nat
    BY <1>2, <1>3, <2>1
  <2> QED
    BY <2>1, <2>2
<1>5. PICK next \in {a, None} :
         session' = [session EXCEPT !.messages = messages, !.active = next]
  BY <1>1, <1>2 DEF SwarmSessions
<1> HIDE DEF messages
<1>6. /\ session' \in SwarmSessions /\ session'.history = session.history
      /\ session'.handoffs = session.handoffs /\ session'.told = session.told
      /\ session'.active \in {session.active, None}
  BY <1>2, <1>4, <1>5 DEF SwarmSessions
<1>7. spent' \in Nat /\ spent' <= Len(runs)
  <2>1. spent \in Nat /\ spent < Len(runs) /\ Len(runs) \in Nat
    BY <1>1 DEF HandoffInv, HandoffTypes, TurnsCounted
  <2> QED
    BY <1>1, <2>1
<1>8. trace' \in SwarmTraces /\ TraceInv'
  BY <1>1, TraceRecorded DEF Handoff!Ended
<1> QED
  BY <1>1, <1>6, <1>7, <1>8, SessionEdited DEF HandoffInv, HandoffTypes

\* without a handoff,
LEMMA HandoffNoHandoff ==
    ASSUME HandoffInv, Handoff!NoHandoff
    PROVE  HandoffInv'
<1>1. /\ swarm = "after" /\ swarm' = "head"
      /\ session' = [session EXCEPT !.active = None]
      /\ trace' = Handoff!Recorded(trace)
      /\ UNCHANGED <<runs, payload, spent, aborted>>
  BY DEF Handoff!NoHandoff
<1>2. session \in SwarmSessions
  BY DEF HandoffInv, HandoffTypes
<1>3. /\ session' \in SwarmSessions /\ session'.history = session.history
      /\ session'.handoffs = session.handoffs /\ session'.told = session.told
      /\ session'.active = None
  BY <1>1, <1>2 DEF SwarmSessions
<1>4. trace' \in SwarmTraces /\ TraceInv'
  BY <1>1, TraceRecorded DEF Handoff!Ended
<1> QED
  BY <1>1, <1>3, <1>4, SessionEdited DEF HandoffInv, HandoffTypes, TurnsCounted, Handoff!Targets

\* or with one;
LEMMA HandoffHandoff ==
    ASSUME HandoffInv, Handoff!Handoff
    PROVE  HandoffInv'
<1> DEFINE n == Len(session.history)
           told == [session.told EXCEPT ![payload] = n + 1]
           history == Append(session.history, payload)
<1>1. /\ swarm = "after" /\ payload \in Agents /\ swarm' = "head" /\ payload' = None
      /\ session' = [session EXCEPT
             !.active = payload, !.handoffs = @ + 1,
             !.history = Append(@, payload), !.told[payload] = Len(session.history) + 1]
      /\ trace' = Handoff!Recorded(trace)
      /\ UNCHANGED <<runs, spent, aborted>>
  BY DEF Handoff!Handoff
<1>2. session \in SwarmSessions /\ n \in Nat /\ session.handoffs \in Nat
      /\ session.history \in Seq(Agents)
  BY DEF HandoffInv, HandoffTypes, SwarmSessions
<1>3. Len(runs) = session.handoffs + 1 /\ n = session.handoffs + 1 /\ Len(runs) <= n
      /\ Len(runs) <= MaxHandoffs /\ spent <= Len(runs)
  BY <1>1 DEF HandoffInv, TurnsCounted
<1>4. told \in [Agents -> Nat] /\ told[payload] = n + 1
  BY <1>1, <1>2 DEF SwarmSessions
<1>5. /\ history \in Seq(Agents) /\ Len(history) = n + 1 /\ history[n + 1] = payload
      /\ \A i \in 1..n : history[i] = session.history[i]
  BY <1>1, <1>2
<1>6. session' = [session EXCEPT !.active = payload, !.handoffs = session.handoffs + 1,
                                 !.history = history, !.told = told]
  BY <1>1, <1>2 DEF SwarmSessions
<1> HIDE DEF told, history, n
<1>7. /\ session' \in SwarmSessions /\ session'.history = history
      /\ session'.handoffs = session.handoffs + 1 /\ session'.told = told
      /\ session'.active = payload
  <2>1. session.handoffs + 1 \in Nat
    BY <1>2
  <2>2. /\ session'.history = history /\ session'.handoffs = session.handoffs + 1
        /\ session'.told = told /\ session'.active = payload
    BY ONLY <1>2, <1>6 DEF SwarmSessions
  <2>3. ASSUME NEW k \in Nat, session' = [session EXCEPT !.active = payload,
               !.handoffs = k, !.history = history, !.told = told]
        PROVE  session' \in SwarmSessions
    BY ONLY <1>1, <1>2, <1>4, <1>5, <2>3 DEF SwarmSessions
  <2> QED
    BY <1>6, <2>1, <2>2, <2>3
<1>8. trace' \in SwarmTraces /\ TraceInv'
  BY <1>1, TraceRecorded DEF Handoff!Ended
<1>9. HandoffTypes'
  BY <1>1, <1>7, <1>8 DEF HandoffInv, HandoffTypes, Handoff!Targets
<1>10. ActiveIsLast'
  BY <1>2, <1>3, <1>4, <1>5, <1>7 DEF ActiveIsLast
<1>11. TurnsCounted'
  BY <1>1, <1>2, <1>3, <1>5, <1>7, HandoffBounds DEF TurnsCounted
<1>12. TurnsInHistory'
  <2>1. \A i \in DOMAIN runs : i \in 1..n
    BY <1>2, <1>3 DEF HandoffInv, HandoffTypes
  <2> QED
    BY <1>1, <1>5, <1>7, <2>1 DEF HandoffInv, TurnsInHistory
<1>13. NoTightLoop'
  BY <1>1 DEF HandoffInv, NoTightLoop
<1> QED
  BY <1>8, <1>9, <1>10, <1>11, <1>12, <1>13 DEF HandoffInv

\* the swarm ends.
LEMMA HandoffFinish ==
    ASSUME HandoffInv, Handoff!Finish
    PROVE  HandoffInv'
<1>1. /\ swarm' = "done" /\ trace' = Handoff!Flushed(Handoff!Recorded(trace))
      /\ swarm \in {"head", "after"}
      /\ UNCHANGED <<session, runs, payload, spent, aborted>>
  BY DEF Handoff!Finish
<1>2. trace \in SwarmTraces /\ ~trace.lost
  BY <1>1 DEF HandoffInv, HandoffTypes, TraceInv, Handoff!Ended
<1>3. trace' \in SwarmTraces /\ ~trace'.unflushed /\ ~trace'.lost
  <2> DEFINE t == Handoff!Recorded(trace)
  <2>1. t \in SwarmTraces /\ ~t.lost
    BY <1>2, TraceSteps
  <2> HIDE DEF t
  <2> QED
    BY <1>1, <2>1, TraceSteps DEF t
<1>4. TraceInv'
  BY <1>3 DEF TraceInv, Handoff!TraceKept
<1> QED
  BY <1>1, <1>3, <1>4, TurnEnded DEF HandoffInv, HandoffTypes

\* The trace is flushed.
LEMMA HandoffTrace ==
    ASSUME HandoffInv, Handoff!FlushTimer \/ Handoff!Exit
    PROVE  HandoffInv'
<1>1. trace \in SwarmTraces
  BY DEF HandoffInv, HandoffTypes
<1>2. UNCHANGED <<swarm, session, runs, payload, spent, aborted>>
  BY DEF Handoff!FlushTimer, Handoff!Exit
<1>3. CASE trace' = Handoff!Flushed(trace)
  <2>1. trace' \in SwarmTraces /\ ~trace'.unflushed /\ trace'.lost = trace.lost
        /\ (trace'.handler => trace.handler)
    BY <1>1, <1>3, TraceSteps
  <2>2. TraceInv'
    BY <1>2, <2>1 DEF HandoffInv, TraceInv, Handoff!TraceKept, Handoff!Ended
  <2> QED
    BY <1>2, <2>1, <2>2, SessionKept DEF HandoffInv, HandoffTypes
<1>4. CASE trace' # Handoff!Flushed(trace)
  <2>1. /\ Handoff!Ended /\ trace.unflushed /\ ~trace.handler
        /\ trace' = [trace EXCEPT !.lost = TRUE, !.unflushed = FALSE, !.timer = FALSE]
    BY <1>4 DEF Handoff!FlushTimer, Handoff!Exit
  <2>2. trace' \in SwarmTraces /\ ~trace'.unflushed /\ ~trace'.handler
    BY <1>1, <2>1 DEF SwarmTraces
  <2>3. TraceInv'
    BY <1>2, <2>1, <2>2 DEF HandoffInv, TraceInv, Handoff!TraceKept, Handoff!Ended
  <2> QED
    BY <1>2, <2>2, <2>3, SessionKept DEF HandoffInv, HandoffTypes
<1> QED
  BY <1>3, <1>4

\* Every step keeps the invariant.
LEMMA HandoffNext == HandoffInv /\ Handoff!HNext => HandoffInv'
<1> SUFFICES ASSUME HandoffInv, Handoff!HNext PROVE HandoffInv'
  OBVIOUS
<1>1. CASE Handoff!Begin
  BY <1>1, HandoffBegin
<1>2. CASE Handoff!Abort
  <2>1. trace' \in SwarmTraces /\ TraceInv'
    BY <1>2, TraceRecorded DEF Handoff!Abort, Handoff!Ended
  <2> QED
    BY <1>2, <2>1, SessionKept DEF Handoff!Abort
<1>3. CASE Handoff!StartAgent
  BY <1>3, HandoffStartAgent
<1>4. CASE Handoff!Handoff
  BY <1>4, HandoffHandoff
<1>5. CASE Handoff!NoHandoff
  BY <1>5, HandoffNoHandoff
<1>6. CASE Handoff!Finish
  BY <1>6, HandoffFinish
<1>7. ASSUME NEW target \in Handoff!Targets, Handoff!TurnEndsWithout(target)
      PROVE  HandoffInv'
  <2>1. trace' \in SwarmTraces /\ TraceInv'
    BY <1>7, TraceRecorded DEF Handoff!TurnEndsWithout, Handoff!Ended
  <2> QED
    BY <1>7, <2>1, TurnEnded DEF Handoff!TurnEndsWithout
<1>8. ASSUME NEW target \in Handoff!Targets, NEW cost \in 0..1,
             Handoff!TurnDone(target, cost)
      PROVE  HandoffInv'
  BY <1>8, HandoffTurnDone
<1>9. CASE Handoff!TurnThrows \/ Handoff!Leave
  <2>1. trace' \in SwarmTraces /\ TraceInv'
    BY <1>9, TraceRecorded DEF Handoff!TurnThrows, Handoff!Leave, Handoff!Ended
  <2> QED
    BY <1>9, <2>1, TurnEnded DEF Handoff!TurnThrows, Handoff!Leave, HandoffInv, HandoffTypes
<1>10. CASE Handoff!SetArtifact
  BY <1>10, HandoffSetArtifact
<1>11. CASE Handoff!FlushTimer \/ Handoff!Exit
  BY <1>11, HandoffTrace
<1> QED
  BY <1>1, <1>2, <1>3, <1>4, <1>5, <1>6, <1>7, <1>8, <1>9, <1>10, <1>11
  DEF Handoff!HNext, Handoff!Orchestrate, Handoff!Turn

\* Nothing else counts.
LEMMA HandoffStutters == HandoffInv /\ UNCHANGED handoffVars => HandoffInv'
BY SessionKept DEF handoffVars, HandoffInv, HandoffTypes, TraceInv,
   Handoff!TraceKept, Handoff!Ended

\* The invariant has the properties of the swarm.
LEMMA HandoffTyped == HandoffInv => Handoff!HTypeOK /\ Handoff!HandoffSafe
<1> SUFFICES ASSUME HandoffInv PROVE Handoff!HTypeOK /\ Handoff!HandoffSafe
  OBVIOUS
<1>1. /\ session.active \in Agents \cup {None} /\ session.handoffs \in Nat
      /\ {aborted, trace.unflushed, trace.timer, trace.handler, trace.lost} \subseteq BOOLEAN
      /\ Len(runs) \in Nat
  BY DEF HandoffInv, HandoffTypes, SwarmSessions, SwarmTraces
<1>2. session.handoffs \in 0..MaxHandoffs /\ spent \in 0..MaxHandoffs
  BY <1>1, HandoffBounds DEF HandoffInv, HandoffTypes, TurnsCounted
<1>3. Handoff!HTypeOK
  BY <1>1, <1>2 DEF HandoffInv, HandoffTypes, Handoff!HTypeOK
<1>4. Handoff!BreakerHolds
  BY DEF HandoffInv, TurnsCounted, NoTightLoop, Handoff!BreakerHolds
<1>5. Handoff!LatestTask
  BY DEF HandoffInv, TurnsInHistory, Handoff!LatestTask
<1> QED
  BY <1>3, <1>4, <1>5 DEF HandoffInv, TraceInv, Handoff!HandoffSafe

(***************************************************************************)
(* The graph of createAgent: its history ends with the calls of the round  *)
(* it is in, or with their answers.                                        *)
(***************************************************************************)
\* The messages, and the state of the agent's graph.
ReactMessages ==
    [role : {"user", "assistant", "tool"}, ids : Seq(React!Ids)]
ReactRounds ==
    [messages : Seq(ReactMessages), toolCalls : Seq(React!Ids),
     toolResults : Seq(React!Ids), isDone : BOOLEAN]

\* A step is taken only below the limit, and the properties.
ReactInv ==
    /\ policy \in Policies /\ parallel \in BOOLEAN
    /\ at \in {"agent", "tools", "interrupted", "failed", "limit", "end"}
    /\ supersteps \in 0..MaxIterations
    /\ at \in {"agent", "tools", "interrupted"} => supersteps < MaxIterations
    /\ state \in ReactRounds
    /\ executing \in [React!Ids -> {"no", "running", "ended"}]
    /\ React!ReactSafe

\* The last messages of a history are those appended to it last.
LEMMA LastAppended ==
    ASSUME NEW S, NEW s \in Seq(S), NEW t \in Seq(S), NEW n \in Nat,
           n = Len(t)
    PROVE  SubSeq(s \o (s \o t), Len(s \o (s \o t)) - n + 1, Len(s \o (s \o t))) = t
<1> DEFINE u == s \o (s \o t)
           k == Len(s) + Len(s)
           v == SubSeq(u, Len(u) - n + 1, Len(u))
<1>1. u \in Seq(S) /\ Len(u) = k + n /\ k \in Nat
  OBVIOUS
<1>2. \A i \in 1..n : u[k + i] = t[i]
  <2>1. ASSUME NEW i \in 1..n PROVE u[k + i] = t[i]
    <3>1. s \o t \in Seq(S) /\ Len(s \o t) = Len(s) + n
      OBVIOUS
    <3>2. u[k + i] = (s \o t)[Len(s) + i]
      BY <3>1
    <3>3. (s \o t)[Len(s) + i] = t[i]
      OBVIOUS
    <3> QED
      BY <3>2, <3>3
  <2> QED
    BY <2>1
<1> HIDE DEF u, k
<1>3. v \in Seq(S) /\ Len(v) = n
  BY <1>1
<1>4. ASSUME NEW i \in 1..n PROVE v[i] = t[i]
  <2>1. v[i] = u[k + i]
    BY <1>1
  <2> QED
    BY <1>2, <2>1
<1>5. v = t
  <2> HIDE DEF v
  <2> QED
    BY <1>3, <1>4
<1> QED
  BY <1>5 DEF v, u

\* One element as a subsequence.
LEMMA OneAt ==
    ASSUME NEW S, NEW s \in Seq(S), NEW n \in 1..Len(s)
    PROVE  SubSeq(s, n, n)[1] = s[n]
OBVIOUS

\* A state, from its parts.
LEMMA RoundTyped ==
    ASSUME NEW m \in Seq(ReactMessages), NEW c \in Seq(React!Ids),
           NEW r \in Seq(React!Ids), NEW d \in BOOLEAN
    PROVE  [messages |-> m, toolCalls |-> c, toolResults |-> r,
            isDone |-> d] \in ReactRounds
BY DEF ReactRounds

\* The calls of a response are calls.
LEMMA ResponseTyped ==
    ASSUME NEW n \in 0..Len(CallIds)
    PROVE  SubSeq(CallIds, 1, n) \in Seq(React!Ids)
<1>1. CallIds \in Seq(Nat)
  BY ServicesAssumption DEF React!ReactAssumption
<1>2. CallIds \in Seq(React!Ids)
  BY <1>1 DEF React!Ids, React!ToSet
<1> QED
  BY <1>2

\* Init and every node keep the invariant of the agent.
LEMMA ReactInit == React!RInit => ReactInv
<1> SUFFICES ASSUME React!RInit PROVE ReactInv
  OBVIOUS
<1> USE DEF React!RInit
<1>1. MaxIterations \in Nat \ {0}
  BY ServicesAssumption DEF React!ReactAssumption
<1>2. React!User \in ReactMessages
  BY DEF React!User, ReactMessages
<1>3. state \in ReactRounds
  BY <1>2 DEF ReactRounds
<1>4. React!ReactSafe
  BY DEF React!ReactSafe, React!ResultsAnswerCalls, React!NotRunUnapproved,
         React!EndsWithAnswer
<1> QED
  BY <1>1, <1>3, <1>4 DEF ReactInv

\* What a node returns makes a history again.
LEMMA AppendedTyped ==
    ASSUME state \in ReactRounds, NEW more \in Seq(ReactMessages)
    PROVE  /\ React!Appended(more) \in Seq(ReactMessages)
           /\ SubSeq(React!Appended(more),
                     Len(React!Appended(more)) - Len(more) + 1,
                     Len(React!Appended(more))) = more
           /\ Len(React!Appended(more)) >= Len(more)
<1> DEFINE s == state.messages
           u == s \o (s \o more)
<1>1. s \in Seq(ReactMessages) /\ Len(more) \in Nat
  BY DEF ReactRounds
<1> HIDE DEF s
<1>2. u \in Seq(ReactMessages) /\ Len(u) >= Len(more)
  BY <1>1
<1>3. SubSeq(u, Len(u) - Len(more) + 1, Len(u)) = more
  BY <1>1, LastAppended
<1> QED
  BY <1>2, <1>3 DEF React!Appended, s

\* The model answers;
LEMMA ReactAgentNode ==
    ASSUME ReactInv, NEW calls \in Seq(React!Ids), React!AgentNode(calls)
    PROVE  ReactInv'
<1> USE DEF ReactInv, React!AgentNode
<1> DEFINE answer == <<React!Answer(calls)>>
           history == React!Appended(answer)
<1>1. MaxIterations \in Nat \ {0}
  BY ServicesAssumption DEF React!ReactAssumption
<1>2. answer \in Seq(ReactMessages) /\ Len(answer) = 1
  BY DEF React!Answer, ReactMessages
<1>3. /\ history \in Seq(ReactMessages) /\ Len(history) >= 1
      /\ SubSeq(history, Len(history) - 1 + 1, Len(history)) = answer
  <2> HIDE DEF answer
  <2> QED
    BY <1>2, AppendedTyped
<1> HIDE DEF history
<1>4. state' = [state EXCEPT !.messages = history, !.toolCalls = calls,
                             !.isDone = calls = <<>>]
  BY DEF history
<1>5. /\ state' \in ReactRounds /\ state'.messages = history
      /\ state'.toolCalls = calls /\ state'.isDone = (calls = <<>>)
  BY <1>3, <1>4 DEF ReactRounds
<1>6. /\ at' \in {"tools", "limit", "end"}
      /\ at' = "end" => calls = <<>>
      /\ supersteps' \in 0..MaxIterations
      /\ at' = "tools" => supersteps' < MaxIterations
  BY <1>1 DEF React!Step, React!Route
<1>7. executing' = [id \in React!Ids |-> "no"]
  OBVIOUS
<1>8. React!EndsWithAnswer'
  <2> DEFINE n == Len(history)
  <2>1. n \in 1..Len(history) /\ SubSeq(history, n, n) = answer
    BY <1>3
  <2>2. SubSeq(history, n, n)[1] = history[n]
    <3> HIDE DEF n
    <3> QED
      BY <1>3, <2>1, OneAt
  <2>3. history[Len(history)] = answer[1]
    BY <2>1, <2>2
  <2>4. history[Len(history)] = React!Answer(calls)
    BY <2>3
  <2> QED
    BY <1>5, <1>6, <2>4 DEF React!EndsWithAnswer, React!Last, React!Answer
<1>9. React!ReactSafe'
  BY <1>6, <1>7, <1>8 DEF React!ReactSafe, React!ResultsAnswerCalls,
                          React!NotRunUnapproved
<1> QED
  BY <1>5, <1>6, <1>7, <1>9

\* the tools have run.
LEMMA ReactToolsNode ==
    ASSUME ReactInv, React!ToolsNode
    PROVE  ReactInv'
<1> USE DEF ReactInv, React!ToolsNode
<1> DEFINE calls == state.toolCalls
           shown == [i \in DOMAIN calls |-> React!ToolMessage(React!Results(calls)[i])]
           history == React!Appended(shown)
<1>1. MaxIterations \in Nat \ {0}
  BY ServicesAssumption DEF React!ReactAssumption
<1>2. calls \in Seq(React!Ids)
  BY DEF ReactRounds
<1>3. shown \in Seq(ReactMessages) /\ Len(shown) = Len(calls)
  <2>1. ASSUME NEW i \in 1..Len(calls)
        PROVE  React!ToolMessage(React!Results(calls)[i]) \in ReactMessages
    <3>1. calls[i] \in React!Ids
      BY <1>2
    <3> HIDE DEF calls
    <3>2. <<calls[i]>> \in Seq(React!Ids)
      BY <3>1
    <3> QED
      BY <3>2 DEF React!ToolMessage, React!Results, ReactMessages
  <2>2. DOMAIN calls = 1..Len(calls) /\ Len(calls) \in Nat
    BY <1>2
  <2> HIDE DEF calls
  <2> QED
    BY <2>1, <2>2
<1>4. /\ history \in Seq(ReactMessages)
      /\ SubSeq(history, Len(history) - Len(calls) + 1, Len(history)) = shown
  <2> HIDE DEF shown
  <2>1. /\ React!Appended(shown) \in Seq(ReactMessages)
        /\ SubSeq(React!Appended(shown),
                  Len(React!Appended(shown)) - Len(shown) + 1,
                  Len(React!Appended(shown))) = shown
    BY <1>3, AppendedTyped
  <2> QED
    BY <1>3, <2>1
<1>5. state' = [state EXCEPT !.messages = history, !.isDone = FALSE,
                             !.toolResults = @ \o calls]
  BY DEF React!Results
<1> HIDE DEF history
<1>6. /\ state' \in ReactRounds /\ state'.messages = history
      /\ state'.toolCalls = calls
  <2>1. state.toolResults \o calls \in Seq(React!Ids)
    BY <1>2 DEF ReactRounds
  <2>2. state' = [messages |-> history, toolCalls |-> calls,
                  toolResults |-> state.toolResults \o calls, isDone |-> FALSE]
    BY <1>5 DEF ReactRounds
  <2>3. state' \in ReactRounds
    <3> HIDE DEF calls
    <3> QED
      BY ONLY <1>2, <1>4, <2>1, <2>2, RoundTyped
  <2> QED
    BY ONLY <2>2, <2>3
<1>7. /\ at' \in {"agent", "limit"} /\ supersteps' \in 0..MaxIterations
      /\ at' = "agent" => supersteps' < MaxIterations
  BY <1>1 DEF React!Step
<1>8. shown = [i \in 1..Len(calls) |-> React!ToolMessage(calls[i])]
  BY <1>2 DEF React!Results
<1>9. React!ResultsAnswerCalls'
  <2> HIDE DEF shown, calls
  <2> QED
    BY ZenonT(60), <1>4, <1>6, <1>8 DEF React!ResultsAnswerCalls, React!ToolMessage
<1>10. UNCHANGED <<policy, parallel, executing>>
  OBVIOUS
<1>11. React!ReactSafe'
  BY <1>7, <1>9, <1>10 DEF React!ReactSafe, React!NotRunUnapproved,
                           React!EndsWithAnswer
<1> QED
  BY <1>6, <1>7, <1>10, <1>11

\* Every step keeps the invariant.
LEMMA ReactNext == ReactInv /\ React!RNext => ReactInv'
<1> SUFFICES ASSUME ReactInv, React!RNext PROVE ReactInv'
  OBVIOUS
<1> USE DEF React!ReactSafe, React!ResultsAnswerCalls, React!NotRunUnapproved,
            React!EndsWithAnswer
<1>1. ASSUME NEW n \in 0 .. Len(CallIds),
             React!AgentNode(SubSeq(CallIds, 1, n))
      PROVE  ReactInv'
  BY <1>1, ResponseTyped, ReactAgentNode
<1>2. CASE React!AgentFails
  BY <1>2 DEF ReactInv, React!AgentFails
<1>3. CASE React!Interrupt
  BY <1>3 DEF ReactInv, React!Interrupt
<1>4. CASE React!Resume
  BY <1>4 DEF ReactInv, React!Resume
<1>5. CASE React!ToolsNode
  BY <1>5, ReactToolsNode
<1>6. ASSUME NEW i \in DOMAIN CallIds, React!Invoke(i)
      PROVE  ReactInv'
  BY <1>6 DEF ReactInv, React!Invoke, React!Pauses
<1>7. ASSUME NEW id \in React!Ids, React!InvokeEnds(id)
      PROVE  ReactInv'
  BY <1>7 DEF ReactInv, React!InvokeEnds
<1> QED
  BY <1>1, <1>2, <1>3, <1>4, <1>5, <1>6, <1>7 DEF React!RNext

\* Nothing else counts.
LEMMA ReactStutters == ReactInv /\ UNCHANGED reactVars => ReactInv'
BY DEF ReactInv, reactVars, React!ReactSafe, React!ResultsAnswerCalls,
       React!NotRunUnapproved, React!EndsWithAnswer

\* The invariant has the properties of the agent.
LEMMA ReactTyped == ReactInv => React!RTypeOK /\ React!ReactSafe
<1> SUFFICES ASSUME ReactInv PROVE React!RTypeOK /\ React!ReactSafe
  OBVIOUS
<1>1. \A m \in React!ToSet(state.messages) : m \in ReactMessages
  BY DEF ReactInv, ReactRounds, React!ToSet
<1>2. \A m \in React!ToSet(state.messages) : m.role \in {"user", "assistant", "tool"}
  BY <1>1 DEF ReactMessages
<1> QED
  BY <1>2 DEF ReactInv, React!RTypeOK

(***************************************************************************)
(* The sessions: the snapshot that waits for the timer leads the current   *)
(* session, and a save in progress is the one the index misses.            *)
(***************************************************************************)
\* The types: a file, and an entry of the index, is that of its session.
SessionTypes ==
    /\ current \in Session!Sessions \cup {None} /\ pending \in Session!Sessions \cup {None}
    /\ saving \in Session!Sessions \cup {None}
    /\ files \in [SessionIds -> Session!Sessions \cup {None}]
    /\ index \in [SessionIds -> Session!Sessions \cup {None}]
    /\ \A id \in SessionIds : files[id] # None => files[id].id = id
    /\ \A id \in SessionIds : index[id] # None => index[id].id = id
    /\ torn \in SUBSET SessionIds /\ time \in 0..MaxTime /\ crossed \in BOOLEAN

\* The snapshot that waits has all messages of the current session.
PendingLeads ==
    current # None /\ pending # None /\ ~crossed /\ pending.id = current.id =>
        pending.count >= current.count

\* While a save has still to write the index it is the only one to differ.
IndexFollows ==
    saving # None =>
        /\ files[saving.id] = saving
        /\ \A id \in SessionIds \ torn : id # saving.id => index[id] = files[id]

\* The invariant of the sessions.
SessionInv ==
    /\ SessionTypes /\ PendingLeads /\ IndexFollows
    /\ Session!NothingUnsaved /\ Session!IndexAgrees

\* The limits of the sessions.
LEMMA SessionBounds == None \notin Session!Sessions /\ MaxTime \in Nat
BY ServicesAssumption DEF Session!SessionAssumption

\* What a session holds.
LEMMA SessionFields ==
    ASSUME NEW s \in Session!Sessions
    PROVE  s.id \in SessionIds /\ s.count \in Nat /\ s # None
BY SessionBounds DEF Session!Sessions

\* The clock moves only between saves, within its bound.
LEMMA SessionTicks ==
    ASSUME SessionInv, Session!Ticks
    PROVE  saving = None /\ time' \in 0..MaxTime /\ Session!Now \in Nat
BY SessionBounds DEF SessionInv, SessionTypes, Session!Ticks, Session!Idle, Session!Now

\* Init and every action keep the invariant of the sessions.
LEMMA SessionInit == Session!SInit => SessionInv
<1> SUFFICES ASSUME Session!SInit PROVE SessionInv
  OBVIOUS
<1> USE DEF Session!SInit
<1>1. SessionTypes
  <2>1. 0 \in 0..MaxTime
    BY SessionBounds
  <2>2. crossed \in BOOLEAN
    OBVIOUS
  <2>3. /\ files \in [SessionIds -> Session!Sessions \cup {None}]
        /\ index \in [SessionIds -> Session!Sessions \cup {None}]
    OBVIOUS
  <2>4. \A id \in SessionIds : files[id] = None /\ index[id] = None
    OBVIOUS
  <2>5. current = None /\ pending = None /\ saving = None /\ torn = {} /\ time = 0
    OBVIOUS
  <2> QED
    BY ONLY <2>1, <2>2, <2>3, <2>4, <2>5 DEF SessionTypes
<1>2. PendingLeads /\ IndexFollows /\ Session!NothingUnsaved /\ Session!IndexAgrees
  BY DEF PendingLeads, IndexFollows, Session!NothingUnsaved, Session!IndexAgrees
<1> QED
  BY <1>1, <1>2 DEF SessionInv

\* A session's file is written, and its entry in the index is to follow.
LEMMA FileSaved ==
    ASSUME SessionInv, saving = None, NEW s \in Session!Sessions, Session!SaveFile(s),
           UNCHANGED <<index, torn>>
    PROVE  /\ files' \in [SessionIds -> Session!Sessions \cup {None}]
           /\ \A id \in SessionIds : files'[id] # None => files'[id].id = id
           /\ saving' \in Session!Sessions \cup {None}
           /\ files'[s.id] = s /\ \A id \in SessionIds : id # s.id => files'[id] = files[id]
           /\ IndexFollows' /\ Session!IndexAgrees'
<1>1. files' = [files EXCEPT ![s.id] = s] /\ saving' = s
  BY DEF Session!SaveFile
<1>2. s.id \in SessionIds /\ s # None
  BY SessionFields
<1>3. /\ files' \in [SessionIds -> Session!Sessions \cup {None}]
      /\ files'[s.id] = s /\ \A id \in SessionIds : id # s.id => files'[id] = files[id]
  BY <1>1, <1>2 DEF SessionInv, SessionTypes
<1>4. \A id \in SessionIds : files'[id] # None => files'[id].id = id
  BY <1>3 DEF SessionInv, SessionTypes
<1>5. IndexFollows' /\ Session!IndexAgrees'
  BY <1>1, <1>2, <1>3
  DEF SessionInv, IndexFollows, Session!IndexAgrees, Session!Idle
<1> QED
  BY <1>1, <1>3, <1>4, <1>5

\* A step that leaves the files alone.
LEMMA SessionFilesKept ==
    ASSUME SessionInv, UNCHANGED <<files, index, saving, torn>>,
           current' \in Session!Sessions \cup {None},
           pending' \in Session!Sessions \cup {None},
           time' \in 0..MaxTime, crossed' \in BOOLEAN
    PROVE  SessionTypes' /\ IndexFollows' /\ Session!IndexAgrees'
BY DEF SessionInv, SessionTypes, IndexFollows, Session!IndexAgrees, Session!Idle

\* A session is created,
LEMMA SessionCreate ==
    ASSUME SessionInv, NEW id \in SessionIds, Session!CreateSession(id)
    PROVE  SessionInv'
<1>1. /\ files[id] = None /\ (pending # None => pending.id # id)
      /\ current' = Session!NewSession(id) /\ crossed' = FALSE /\ Session!Ticks
      /\ UNCHANGED <<pending, files, index, saving, torn>>
  BY DEF Session!CreateSession
<1>2. time' \in 0..MaxTime /\ Session!Now \in Nat
  BY <1>1, SessionTicks
<1>3. current' \in Session!Sessions /\ current'.id = id /\ current'.count = 0
  BY ONLY <1>1, <1>2, id \in SessionIds DEF Session!NewSession, Session!Sessions
<1>4. SessionTypes' /\ IndexFollows' /\ Session!IndexAgrees'
  BY <1>1, <1>2, <1>3, SessionFilesKept DEF SessionInv, SessionTypes
<1>5. PendingLeads' /\ Session!NothingUnsaved'
  BY <1>1, <1>3 DEF PendingLeads, Session!NothingUnsaved
<1> QED
  BY <1>4, <1>5 DEF SessionInv

\* or resumed;
LEMMA SessionResume ==
    ASSUME SessionInv, NEW id \in SessionIds, Session!ResumeSession(id)
    PROVE  SessionInv'
<1>1. /\ files[id] # None /\ current' = files[id] /\ Session!Ticks
      /\ crossed' = (pending # None /\ pending.id = id)
      /\ UNCHANGED <<pending, files, index, saving, torn>>
  BY DEF Session!ResumeSession
<1>2. time' \in 0..MaxTime
  BY <1>1, SessionTicks
<1>3. current' \in Session!Sessions /\ current'.id = id /\ current'.count \in Nat
  BY <1>1, SessionFields DEF SessionInv, SessionTypes
<1>4. crossed' \in BOOLEAN
  BY <1>1
<1>5. SessionTypes' /\ IndexFollows' /\ Session!IndexAgrees'
  BY <1>1, <1>2, <1>3, <1>4, SessionFilesKept DEF SessionInv, SessionTypes
<1>6. files'[current'.id] = current' /\ ~(current'.count > current'.count)
  BY <1>1, <1>3
<1>7. ~crossed' => pending' = None \/ pending'.id # current'.id
  BY <1>1, <1>3
<1>8. PendingLeads'
  BY <1>7 DEF PendingLeads
<1>9. Session!NothingUnsaved'
  BY <1>6 DEF Session!NothingUnsaved
<1> QED
  BY <1>5, <1>8, <1>9 DEF SessionInv

\* it gets a message;
LEMMA SessionMessage ==
    ASSUME SessionInv, Session!OnMessageAdded
    PROVE  SessionInv'
<1> DEFINE name == IF current.name = "" THEN "auto" ELSE current.name
<1>1. /\ current # None /\ pending' = current' /\ crossed' = FALSE /\ Session!Ticks
      /\ current' = [current EXCEPT !.count = current.count + 1, !.at = Session!Now,
                                    !.name = name]
      /\ UNCHANGED <<files, index, saving, torn>>
  BY DEF Session!OnMessageAdded
<1>2. time' \in 0..MaxTime /\ Session!Now \in Nat
  BY <1>1, SessionTicks
<1>3. current \in Session!Sessions
  BY <1>1 DEF SessionInv, SessionTypes
<1>4. name \in {"", "auto", "renamed"} /\ current.count + 1 \in Nat
  <2>1. current.name \in {"", "auto", "renamed"}
    BY <1>3 DEF Session!Sessions
  <2>2. current.count + 1 \in Nat
    <3>1. current.count \in Nat
      BY <1>3 DEF Session!Sessions
    <3> QED
      BY ONLY <3>1
  <2>3. name \in {"", "auto", "renamed"}
    BY ONLY <2>1
  <2> QED
    BY ONLY <2>2, <2>3
<1> HIDE DEF name
<1>5. ASSUME NEW k \in Nat,
             current' = [current EXCEPT !.count = k, !.at = Session!Now, !.name = name]
      PROVE  current' \in Session!Sessions /\ current'.count = k
  BY ONLY <1>2, <1>3, <1>4, <1>5 DEF Session!Sessions
<1>6. current' \in Session!Sessions /\ current'.count \in Nat
  BY <1>1, <1>4, <1>5
<1>7. SessionTypes' /\ IndexFollows' /\ Session!IndexAgrees'
  BY <1>1, <1>2, <1>6, SessionFilesKept
<1>8. PendingLeads' /\ Session!NothingUnsaved'
  BY <1>1, <1>6, SessionFields DEF PendingLeads, Session!NothingUnsaved
<1> QED
  BY <1>7, <1>8 DEF SessionInv

\* the index is written;
LEMMA SessionIndexed ==
    ASSUME SessionInv, Session!SaveIndex
    PROVE  SessionInv'
<1>1. /\ saving # None /\ saving' = None /\ torn' = torn \ {saving.id}
      /\ index' = [index EXCEPT ![saving.id] = saving]
      /\ UNCHANGED <<current, pending, files, time, crossed>>
  BY DEF Session!SaveIndex, Session!Idle, Session!Indexed
<1>2. saving \in Session!Sessions /\ saving.id \in SessionIds
  BY <1>1, SessionFields DEF SessionInv, SessionTypes
<1>3. /\ index' \in [SessionIds -> Session!Sessions \cup {None}]
      /\ index'[saving.id] = saving
      /\ \A id \in SessionIds : id # saving.id => index'[id] = index[id]
  BY <1>1, <1>2 DEF SessionInv, SessionTypes
<1>4. SessionTypes'
  BY <1>1, <1>2, <1>3 DEF SessionInv, SessionTypes
<1>5. IndexFollows' /\ Session!IndexAgrees'
  BY <1>1, <1>2, <1>3 DEF SessionInv, IndexFollows, Session!IndexAgrees, Session!Idle
<1>6. PendingLeads' /\ Session!NothingUnsaved'
  BY <1>1 DEF SessionInv, PendingLeads, Session!NothingUnsaved
<1> QED
  BY <1>4, <1>5, <1>6 DEF SessionInv

\* the timer fires;
LEMMA SessionTimer ==
    ASSUME SessionInv, Session!TimerFires
    PROVE  SessionInv'
<1>1. /\ saving = None /\ pending # None /\ Session!SaveFile(pending) /\ pending' = None
      /\ UNCHANGED <<current, index, torn, time, crossed>>
  BY DEF Session!TimerFires, Session!Idle
<1>2. pending \in Session!Sessions /\ pending.id \in SessionIds /\ pending.count \in Nat
  BY <1>1, SessionFields DEF SessionInv, SessionTypes
<1>3. /\ files' \in [SessionIds -> Session!Sessions \cup {None}]
      /\ \A id \in SessionIds : files'[id] # None => files'[id].id = id
      /\ saving' \in Session!Sessions \cup {None}
      /\ files'[pending.id] = pending
      /\ \A id \in SessionIds : id # pending.id => files'[id] = files[id]
      /\ IndexFollows' /\ Session!IndexAgrees'
  BY <1>1, <1>2, FileSaved
<1>4. SessionTypes'
  BY <1>1, <1>3 DEF SessionInv, SessionTypes
<1>5. PendingLeads'
  BY <1>1 DEF PendingLeads
<1>6. Session!NothingUnsaved'
  <2>1. current # None => current.id \in SessionIds /\ current.count \in Nat
    BY SessionFields DEF SessionInv, SessionTypes
  <2> QED
    BY <1>1, <1>2, <1>3, <2>1 DEF SessionInv, PendingLeads, Session!NothingUnsaved
<1> QED
  BY <1>3, <1>4, <1>5, <1>6 DEF SessionInv

\* a session is renamed,
LEMMA SessionRename ==
    ASSUME SessionInv, Session!RenameSession
    PROVE  SessionInv'
<1>1. /\ current # None /\ Session!Ticks /\ Session!SaveFile(current')
      /\ current' = [current EXCEPT !.name = "renamed", !.at = Session!Now]
      /\ UNCHANGED <<pending, index, torn, crossed>>
  BY DEF Session!RenameSession
<1>2. saving = None /\ time' \in 0..MaxTime /\ Session!Now \in Nat
  BY <1>1, SessionTicks
<1>3. current \in Session!Sessions
  BY <1>1 DEF SessionInv, SessionTypes
<1>4. /\ current' \in Session!Sessions /\ current'.id = current.id
      /\ current'.count = current.count
  BY ONLY <1>1, <1>2, <1>3 DEF Session!Sessions
<1>5. current'.id \in SessionIds /\ current'.count \in Nat
  BY <1>4, SessionFields
<1>6. /\ files' \in [SessionIds -> Session!Sessions \cup {None}]
      /\ \A id \in SessionIds : files'[id] # None => files'[id].id = id
      /\ saving' \in Session!Sessions \cup {None}
      /\ files'[current'.id] = current'
      /\ IndexFollows' /\ Session!IndexAgrees'
  BY <1>1, <1>2, <1>4, FileSaved
<1>7. SessionTypes'
  BY <1>1, <1>2, <1>4, <1>6 DEF SessionInv, SessionTypes
<1>8. PendingLeads'
  BY <1>1, <1>4 DEF SessionInv, PendingLeads
<1>9. Session!NothingUnsaved'
  BY <1>5, <1>6 DEF Session!NothingUnsaved
<1> QED
  BY <1>6, <1>7, <1>8, <1>9 DEF SessionInv

\* flushed,
LEMMA SessionFlush ==
    ASSUME SessionInv, Session!FlushSync
    PROVE  SessionInv'
<1>1. /\ saving = None /\ pending' = None /\ crossed' = FALSE
      /\ UNCHANGED <<current, index, torn, time>>
  BY DEF Session!FlushSync, Session!Idle
<1>2. PendingLeads'
  BY <1>1 DEF PendingLeads
<1>3. CASE current # None /\ current.count > 0
  <2>1. current \in Session!Sessions /\ current.id \in SessionIds /\ current.count \in Nat
    BY <1>3, SessionFields DEF SessionInv, SessionTypes
  <2>2. Session!SaveFile(current)
    BY <1>3 DEF Session!FlushSync
  <2>3. /\ files' \in [SessionIds -> Session!Sessions \cup {None}]
        /\ \A id \in SessionIds : files'[id] # None => files'[id].id = id
        /\ saving' \in Session!Sessions \cup {None} /\ files'[current.id] = current
        /\ IndexFollows' /\ Session!IndexAgrees'
    BY <1>1, <2>1, <2>2, FileSaved
  <2>4. SessionTypes'
    BY <1>1, <2>3 DEF SessionInv, SessionTypes
  <2>5. Session!NothingUnsaved'
    BY <1>1, <2>1, <2>3 DEF Session!NothingUnsaved
  <2> QED
    BY <1>2, <2>3, <2>4, <2>5 DEF SessionInv
<1>4. CASE ~(current # None /\ current.count > 0)
  <2>1. UNCHANGED <<files, index, saving, torn>>
    BY <1>1, <1>4 DEF Session!FlushSync
  <2>2. SessionTypes' /\ IndexFollows' /\ Session!IndexAgrees'
    BY <1>1, <2>1, SessionFilesKept DEF SessionInv, SessionTypes
  <2>3. \A id \in SessionIds : files[id] # None => files[id].count \in Nat
    BY SessionFields DEF SessionInv, SessionTypes
  <2>4. current # None => current.id \in SessionIds /\ current.count \in Nat
    BY SessionFields DEF SessionInv, SessionTypes
  <2>5. Session!NothingUnsaved'
    BY <1>1, <1>4, <2>1, <2>3, <2>4 DEF Session!NothingUnsaved
  <2> QED
    BY <1>2, <2>2, <2>5 DEF SessionInv
<1> QED
  BY <1>3, <1>4

\* or deleted;
LEMMA SessionDelete ==
    ASSUME SessionInv, NEW id \in SessionIds, Session!DeleteSession(id)
    PROVE  SessionInv'
<1>1. /\ saving = None /\ files' = [files EXCEPT ![id] = None]
      /\ UNCHANGED <<saving, time>>
  BY DEF Session!DeleteSession, Session!Idle
<1>2. /\ files' \in [SessionIds -> Session!Sessions \cup {None}] /\ files'[id] = None
      /\ \A i \in SessionIds : i # id => files'[i] = files[i]
  BY <1>1 DEF SessionInv, SessionTypes
<1>3. CASE /\ index' = [index EXCEPT ![id] = None] /\ torn' = torn \ {id}
           /\ UNCHANGED <<current, pending, crossed>>
  <2>1. /\ index' \in [SessionIds -> Session!Sessions \cup {None}] /\ index'[id] = None
        /\ \A i \in SessionIds : i # id => index'[i] = index[i]
    BY <1>3 DEF SessionInv, SessionTypes
  <2>2. SessionTypes'
    BY <1>1, <1>2, <1>3, <2>1 DEF SessionInv, SessionTypes
  <2>3. IndexFollows' /\ Session!IndexAgrees'
    BY <1>1, <1>2, <1>3, <2>1 DEF SessionInv, IndexFollows, Session!IndexAgrees, Session!Idle
  <2>4. current # None => current.id \in SessionIds
    BY SessionFields DEF SessionInv, SessionTypes
  <2>5. PendingLeads' /\ Session!NothingUnsaved'
    BY <1>2, <1>3, <2>4 DEF SessionInv, PendingLeads, Session!NothingUnsaved
  <2> QED
    BY <2>2, <2>3, <2>5 DEF SessionInv
<1>4. CASE /\ current' = None /\ pending' = None /\ crossed' = FALSE
           /\ torn' = torn \cup {id} /\ UNCHANGED index
  <2>1. SessionTypes'
    BY <1>1, <1>2, <1>4 DEF SessionInv, SessionTypes
  <2>2. IndexFollows' /\ Session!IndexAgrees'
    BY <1>1, <1>2, <1>4 DEF SessionInv, IndexFollows, Session!IndexAgrees, Session!Idle
  <2>3. PendingLeads' /\ Session!NothingUnsaved'
    BY <1>4 DEF PendingLeads, Session!NothingUnsaved
  <2> QED
    BY <2>1, <2>2, <2>3 DEF SessionInv
<1> QED
  BY <1>3, <1>4 DEF Session!DeleteSession

\* the process ends.
LEMMA SessionCrash ==
    ASSUME SessionInv, Session!Crash
    PROVE  SessionInv'
<1>1. /\ current' = None /\ pending' = None /\ saving' = None /\ crossed' = FALSE
      /\ torn' = IF saving = None THEN torn ELSE torn \cup {saving.id}
      /\ UNCHANGED <<files, index, time>>
  BY DEF Session!Crash, Session!Idle
<1>2. saving # None => saving.id \in SessionIds
  BY SessionFields DEF SessionInv, SessionTypes
<1>3. SessionTypes'
  BY <1>1, <1>2 DEF SessionInv, SessionTypes
<1>4. IndexFollows' /\ Session!IndexAgrees'
  BY <1>1 DEF SessionInv, IndexFollows, Session!IndexAgrees, Session!Idle
<1>5. PendingLeads' /\ Session!NothingUnsaved'
  BY <1>1 DEF PendingLeads, Session!NothingUnsaved
<1> QED
  BY <1>3, <1>4, <1>5 DEF SessionInv

\* Nothing else counts.
LEMMA SessionStutters == SessionInv /\ UNCHANGED sessionsVars => SessionInv'
BY DEF sessionsVars, SessionInv, SessionTypes, PendingLeads, IndexFollows,
       Session!NothingUnsaved, Session!IndexAgrees, Session!Idle

\* Every step keeps the invariant,
LEMMA SessionNext == SessionInv /\ Session!SNext => SessionInv'
<1> SUFFICES ASSUME SessionInv, Session!SNext PROVE SessionInv'
  OBVIOUS
<1>1. ASSUME NEW id \in SessionIds,
             \/ Session!CreateSession(id) \/ Session!ResumeSession(id)
             \/ Session!DeleteSession(id)
      PROVE  SessionInv'
  BY <1>1, SessionCreate, SessionResume, SessionDelete
<1>2. CASE Session!OnMessageAdded \/ Session!SaveIndex \/ Session!TimerFires
  BY <1>2, SessionMessage, SessionIndexed, SessionTimer
<1>3. CASE Session!RenameSession \/ Session!FlushSync \/ Session!Crash
  BY <1>3, SessionRename, SessionFlush, SessionCrash
<1> QED
  BY <1>1, <1>2, <1>3 DEF Session!SNext

\* which has the properties of the sessions.
LEMMA SessionTyped == SessionInv => Session!STypeOK /\ Session!SessionSafe
BY DEF SessionInv, SessionTypes, Session!STypeOK, Session!SessionSafe

(***************************************************************************)
(* The memory in tiers: with one array for all the calls a message is in   *)
(* it or in a batch, in one of them and once, until it is stored.          *)
(***************************************************************************)
\* Who holds arrays, the arrays of each, and what a call is.
TierHolders == MemoryCalls \cup {"store"}
TierHeaps == [Tiers!Cells -> [TierHolders -> Seq(Tiers!Items)]]
TierCalls ==
    [at : {"idle", "push", "compress", "merge", "index", "write", "atom", "clearing",
           "done", "failed"},
     holds : [Tiers!Cells -> TierHolders], batch : Seq(Tiers!Items)]

\* The types.
TierTypes ==
    /\ backend \in {"memory", "disk"} /\ established \in BOOLEAN
    /\ heap \in TierHeaps /\ stored \in [Tiers!Cells -> TierHolders \cup {None}]
    /\ remember \in [MemoryCalls -> TierCalls] /\ indexed \subseteq Tiers!Items

\* Which call can be where, and what it has taken out of the history by then.
TierOps ==
    \A c \in MemoryCalls :
        /\ remember[c].at \in {"push", "compress", "merge", "index", "write"} => Op[c] = "append"
        /\ remember[c].at \in {"idle", "push"} => remember[c].batch = <<>>

\* The disk backend only holds its own arrays.
DiskHolds == backend = "disk" => \A cell \in Tiers!Cells : stored[cell] \in {"store", None}

\* Every array of messages is within the limit, and the stored one of atoms.
L1Bounded == \A h \in TierHolders : Len(heap["l1"][h]) <= MaxMessages
L2Bounded == Len(Tiers!Stored("l2")) <= MaxWorkingMemory

\* All calls work on one array of messages.
Shared ==
    /\ backend = "memory" /\ established
    /\ \A c \in MemoryCalls : Op[c] = "clear" => remember[c].at = "idle"
\* Then that array is the stored one, and the one each append has.
SharedHolds ==
    /\ stored["l1"] = "store"
    /\ \A c \in MemoryCalls :
          Op[c] = "append" /\ remember[c].at # "idle" => remember[c].holds["l1"] = "store"

\* A message is in that array or in a batch, in one of them, and once.
Present(s, c) == \E i \in 1..Len(s) : s[i] = c
Taken(b, c) == Present(remember[b].batch, c)
\* A message is in the array once, and what a batch has is not in it or in another batch;
OncePresent ==
    \A i, j \in 1..Len(heap["l1"]["store"]) :
        heap["l1"]["store"][i] \in MemoryCalls
            /\ heap["l1"]["store"][i] = heap["l1"]["store"][j] => i = j
OnceTaken ==
    \A b, c \in MemoryCalls : Taken(b, c) =>
        /\ ~Present(heap["l1"]["store"], c)
        /\ \A d \in MemoryCalls : Taken(d, c) => b = d
\* what was appended is in one of them, and nothing else is.
AppendedKept ==
    \A c \in MemoryCalls : Op[c] = "append" /\ remember[c].at \notin {"idle", "push"} =>
        Present(heap["l1"]["store"], c) \/ \E b \in MemoryCalls : Taken(b, c)
KeptAppended ==
    \A c \in MemoryCalls :
        Present(heap["l1"]["store"], c) \/ (\E b \in MemoryCalls : Taken(b, c)) =>
            remember[c].at \notin {"idle", "push"}

\* All of it, while the calls share the array; and the invariant of the memory.
HistoryKept ==
    Shared => SharedHolds /\ OncePresent /\ OnceTaken /\ AppendedKept /\ KeptAppended

TierInv ==
    /\ TierTypes /\ TierOps /\ DiskHolds /\ L1Bounded /\ L2Bounded /\ HistoryKept

\* The limits of the memory.
LEMMA TierBounds ==
    /\ Op \in [MemoryCalls -> {"append", "atom", "clear"}]
    /\ MaxMessages \in Nat \ {0} /\ MaxWorkingMemory \in Nat \ {0}
    /\ History \in Seq(Tiers!ToSet(History)) /\ Len(History) <= MaxMessages
    /\ "store" \notin MemoryCalls /\ None \notin TierHolders
    /\ \A c \in MemoryCalls : ~Present(History, c)
BY ServicesAssumption DEF Tiers!TieredAssumption, Tiers!Contains, Present, TierHolders

\* The arrays, and the messages that can be in them.
LEMMA TierSets ==
    /\ Tiers!Cells = {"l1", "l2"} /\ Tiers!Holders = TierHolders
    /\ MemoryCalls \subseteq Tiers!Items
    /\ \A s \in Seq(Tiers!Items) : Tiers!ToSet(s) \subseteq Tiers!Items
BY DEF Tiers!Cells, Tiers!Holders, TierHolders, Tiers!Items, Tiers!ToSet

\* The least of two numbers.
LEMMA TierMin ==
    ASSUME NEW a \in Nat, NEW b \in Nat
    PROVE  /\ Tiers!Min({a, b}) \in {a, b}
           /\ Tiers!Min({a, b}) <= a /\ Tiers!Min({a, b}) <= b
<1> DEFINE P(x) == x \in {a, b} /\ \A y \in {a, b} : x <= y
<1>1. \E x : P(x)
  <2>1. CASE a <= b
    BY <2>1
  <2>2. CASE b <= a
    BY <2>2
  <2> QED
    BY <2>1, <2>2
<1>2. Tiers!Min({a, b}) = CHOOSE x : P(x)
  BY DEF Tiers!Min
<1> HIDE DEF P
<1>3. P(Tiers!Min({a, b}))
  BY <1>1, <1>2
<1> QED
  BY <1>3 DEF P

\* One array of the heap changes.
LEMMA HeapEdited ==
    ASSUME NEW f \in TierHeaps, NEW cell \in Tiers!Cells, NEW h \in TierHolders,
           NEW v \in Seq(Tiers!Items), NEW g, g = [f EXCEPT ![cell][h] = v]
    PROVE  /\ g \in TierHeaps /\ g[cell][h] = v
           /\ \A i \in TierHolders : i # h => g[cell][i] = f[cell][i]
           /\ \A other \in Tiers!Cells : other # cell => g[other] = f[other]
BY DEF TierHeaps

\* One array replaced.
WithArray(f, cell, h, v) == [f EXCEPT ![cell][h] = v]

\* The messages of one holder change, and nothing else;
LEMMA MessagesEdited ==
    ASSUME NEW f \in TierHeaps, NEW h \in TierHolders, NEW v \in Seq(Tiers!Items),
           NEW g, g = WithArray(f, "l1", h, v)
    PROVE  /\ g \in TierHeaps /\ g["l1"][h] = v /\ g["l2"] = f["l2"]
           /\ \A i \in TierHolders : i # h => g["l1"][i] = f["l1"][i]
<1>1. "l1" \in Tiers!Cells /\ "l2" \in Tiers!Cells /\ "l1" # "l2"
  BY TierSets
<1>2. h \in TierHolders /\ v \in Seq(Tiers!Items)
  OBVIOUS
<1>3. g = [f EXCEPT !["l1"] = [f["l1"] EXCEPT ![h] = v]]
  BY DEF WithArray
<1>4. [f["l1"] EXCEPT ![h] = v] \in [TierHolders -> Seq(Tiers!Items)]
  BY <1>1 DEF TierHeaps
<1>5. g["l1"] = [f["l1"] EXCEPT ![h] = v]
  BY <1>1, <1>3 DEF TierHeaps
<1> QED
  BY <1>1, <1>3, <1>4, <1>5 DEF TierHeaps

\* or the atoms.
LEMMA AtomsEdited ==
    ASSUME NEW f \in TierHeaps, NEW h \in TierHolders, NEW v \in Seq(Tiers!Items),
           NEW g, g = WithArray(f, "l2", h, v)
    PROVE  g \in TierHeaps /\ g["l2"][h] = v /\ g["l1"] = f["l1"]
<1>1. "l1" \in Tiers!Cells /\ "l2" \in Tiers!Cells /\ "l1" # "l2"
  BY TierSets
<1>2. h \in TierHolders /\ v \in Seq(Tiers!Items)
  OBVIOUS
<1>3. g = [f EXCEPT !["l2"] = [f["l2"] EXCEPT ![h] = v]]
  BY DEF WithArray
<1>4. [f["l2"] EXCEPT ![h] = v] \in [TierHolders -> Seq(Tiers!Items)]
  BY <1>1 DEF TierHeaps
<1>5. g["l2"] = [f["l2"] EXCEPT ![h] = v]
  BY <1>1, <1>3 DEF TierHeaps
<1> QED
  BY <1>1, <1>3, <1>4, <1>5 DEF TierHeaps

\* What is over the limit, and the rest.
LEMMA HistorySplit ==
    ASSUME NEW s \in Seq(Tiers!Items)
    PROVE  /\ Tiers!Overflow(s) \in Seq(Tiers!Items) /\ Tiers!Rest(s) \in Seq(Tiers!Items)
           /\ \E k \in 0..Len(s) :
                 /\ Len(s) - k <= MaxMessages
                 /\ Len(Tiers!Overflow(s)) = k
                 /\ \A i \in 1..k : Tiers!Overflow(s)[i] = s[i]
                 /\ Len(Tiers!Rest(s)) = Len(s) - k
                 /\ \A i \in 1..Len(s) - k : Tiers!Rest(s)[i] = s[k + i]
<1> DEFINE n == Len(s)
           m == Tiers!Min({MaxMessages, n})
           k == n - m
<1>1. n \in Nat /\ \A i \in 1..n : s[i] \in Tiers!Items
  OBVIOUS
<1>2. m \in {MaxMessages, n} /\ m <= MaxMessages /\ m <= n
  BY <1>1, TierBounds, TierMin
<1> HIDE DEF m
<1>3. k \in 0..n /\ n - k <= MaxMessages
  BY <1>1, <1>2, TierBounds
<1>4. Tiers!Overflow(s) = SubSeq(s, 1, k)
  BY DEF Tiers!Overflow, m
<1> HIDE DEF k, n
<1>5. /\ SubSeq(s, 1, k) \in Seq(Tiers!Items) /\ Len(SubSeq(s, 1, k)) = k
      /\ \A i \in 1..k : SubSeq(s, 1, k)[i] = s[i]
  <2>1. 1 \in Int /\ k \in Int /\ \A i \in 1..k : s[i] \in Tiers!Items
    BY <1>1, <1>3
  <2>2. /\ SubSeq(s, 1, k) \in Seq(Tiers!Items)
        /\ Len(SubSeq(s, 1, k)) = IF 1 <= k THEN k - 1 + 1 ELSE 0
        /\ \A i \in 1 .. k - 1 + 1 : SubSeq(s, 1, k)[i] = s[1 + i - 1]
    BY <2>1, SubSeqProperties
  <2> QED
    BY <1>1, <1>3, <2>2
<1>6. Tiers!Rest(s) = SubSeq(s, k + 1, n)
  BY <1>4, <1>5 DEF Tiers!Rest, n
<1>7. /\ SubSeq(s, k + 1, n) \in Seq(Tiers!Items) /\ Len(SubSeq(s, k + 1, n)) = n - k
      /\ \A i \in 1..n - k : SubSeq(s, k + 1, n)[i] = s[k + i]
  <2>1. k + 1 \in Int /\ n \in Int /\ \A i \in k + 1 .. n : s[i] \in Tiers!Items
    BY <1>1, <1>3
  <2>2. /\ SubSeq(s, k + 1, n) \in Seq(Tiers!Items)
        /\ Len(SubSeq(s, k + 1, n)) = IF k + 1 <= n THEN n - (k + 1) + 1 ELSE 0
        /\ \A i \in 1 .. n - (k + 1) + 1 : SubSeq(s, k + 1, n)[i] = s[k + 1 + i - 1]
    BY <2>1, SubSeqProperties
  <2> QED
    BY <1>1, <1>3, <2>2
<1> QED
  BY <1>3, <1>4, <1>5, <1>6, <1>7 DEF n

\* What is stored of the atoms.
LEMMA AtomsTrimmed ==
    ASSUME NEW s \in Seq(Tiers!Items)
    PROVE  Tiers!Trimmed(s) \in Seq(Tiers!Items) /\ Len(Tiers!Trimmed(s)) <= MaxWorkingMemory
<1> DEFINE n == Len(s)
           m == Tiers!Min({MaxWorkingMemory, n})
<1>1. n \in Nat /\ \A i \in 1..n : s[i] \in Tiers!Items
  OBVIOUS
<1>2. m \in {MaxWorkingMemory, n} /\ m <= MaxWorkingMemory /\ m <= n
  BY <1>1, TierBounds, TierMin
<1>3. Tiers!Trimmed(s) = SubSeq(s, n - m + 1, n)
  BY DEF Tiers!Trimmed
<1> HIDE DEF m, n
<1>4. m \in Nat
  BY <1>1, <1>2, TierBounds
<1>5. n - m + 1 \in Int /\ n \in Int /\ \A i \in n - m + 1 .. n : s[i] \in Tiers!Items
  BY <1>1, <1>2, <1>4
<1>6. /\ SubSeq(s, n - m + 1, n) \in Seq(Tiers!Items)
      /\ Len(SubSeq(s, n - m + 1, n)) = IF n - m + 1 <= n THEN n - (n - m + 1) + 1 ELSE 0
  BY <1>5, SubSeqProperties
<1> QED
  BY <1>1, <1>2, <1>3, <1>4, <1>6, TierBounds

\* What a call holds.
LEMMA HeldTyped ==
    ASSUME TierTypes, NEW c \in MemoryCalls, NEW cell \in Tiers!Cells
    PROVE  /\ remember[c] \in TierCalls /\ remember[c].holds[cell] \in TierHolders
           /\ Tiers!Held(c, cell) \in Seq(Tiers!Items)
           /\ remember[c].batch \in Seq(Tiers!Items)
<1>1. remember[c] \in TierCalls
  BY DEF TierTypes
<1>2. remember[c].holds[cell] \in TierHolders /\ remember[c].batch \in Seq(Tiers!Items)
  BY <1>1 DEF TierCalls
<1> QED
  BY <1>1, <1>2 DEF TierTypes, TierHeaps, Tiers!Held

\* Init and every step of a call keep the invariant of the memory.
LEMMA TierInit == Tiers!MInit => TierInv
<1> SUFFICES ASSUME Tiers!MInit PROVE TierInv
  OBVIOUS
<1> DEFINE x(c) == [at |-> "idle", holds |-> [cell \in Tiers!Cells |-> c], batch |-> <<>>]
<1>1. /\ backend \in {"memory", "disk"} /\ established \in BOOLEAN /\ indexed = {}
      /\ heap = [cell \in Tiers!Cells |-> [h \in TierHolders |->
             IF established /\ cell = "l1" /\ h = "store" THEN History ELSE <<>>]]
      /\ stored = [cell \in Tiers!Cells |-> IF established THEN "store" ELSE None]
      /\ remember = [c \in MemoryCalls |-> x(c)]
  BY TierSets DEF Tiers!MInit
<1>2. History \in Seq(Tiers!Items)
  <2>1. Tiers!ToSet(History) \subseteq Tiers!Items
    BY DEF Tiers!Items
  <2> QED
    BY <2>1, TierBounds
<1>3. heap \in TierHeaps
  BY <1>1, <1>2 DEF TierHeaps
<1>4. \A c \in MemoryCalls : x(c) \in TierCalls
  <2>1. \A c \in MemoryCalls : [cell \in Tiers!Cells |-> c] \in [Tiers!Cells -> TierHolders]
    BY DEF TierHolders
  <2> QED
    BY <2>1 DEF TierCalls
<1>5. \A c \in MemoryCalls : remember[c].at = "idle" /\ remember[c].batch = <<>>
  BY <1>1
<1>6. remember \in [MemoryCalls -> TierCalls]
  <2> HIDE DEF x
  <2> QED
    BY <1>1, <1>4
<1>7. stored \in [Tiers!Cells -> TierHolders \cup {None}]
  BY <1>1 DEF TierHolders
<1>8. TierTypes
  BY <1>1, <1>3, <1>6, <1>7 DEF TierTypes
<1>9. TierOps
  BY <1>5 DEF TierOps
<1>10. DiskHolds
  BY <1>1 DEF DiskHolds
<1>11. \A h \in TierHolders : heap["l1"][h] \in {History, <<>>} /\ heap["l2"][h] = <<>>
  BY <1>1, TierSets
<1>12. L1Bounded /\ L2Bounded
  BY <1>1, <1>7, <1>11, TierBounds, TierSets DEF L1Bounded, L2Bounded, Tiers!Stored
<1>13. ASSUME Shared
       PROVE  SharedHolds /\ OncePresent /\ OnceTaken /\ AppendedKept /\ KeptAppended
  <2>1. heap["l1"]["store"] = History /\ stored["l1"] = "store"
    BY <1>1, <1>13, TierSets DEF Shared, TierHolders
  <2>2. \A c \in MemoryCalls : ~Present(heap["l1"]["store"], c)
    BY <2>1, TierBounds
  <2>3. \A b, c \in MemoryCalls : ~Taken(b, c)
    BY <1>5 DEF Taken, Present
  <2>4. OncePresent
    BY <2>2 DEF OncePresent, Present
  <2> QED
    BY <1>5, <2>1, <2>2, <2>3, <2>4
    DEF SharedHolds, OnceTaken, AppendedKept, KeptAppended
<1> QED
  BY <1>8, <1>9, <1>10, <1>12, <1>13 DEF TierInv, HistoryKept

\* A step of a call that takes nothing out of the history.
LEMMA TierCallStep ==
    ASSUME TierInv, NEW c \in MemoryCalls, NEW x \in TierCalls,
           remember' = [remember EXCEPT ![c] = x], UNCHANGED <<backend, established>>,
           heap' \in TierHeaps, stored' \in [Tiers!Cells -> TierHolders \cup {None}],
           indexed' \subseteq Tiers!Items, DiskHolds', L1Bounded', L2Bounded',
           x.at # "idle", x.batch = remember[c].batch,
           x.at = "push" => remember[c].at = "idle",
           Op[c] = "append" /\ remember[c].at \in {"idle", "push"} => x.at = "push",
           x.at \in {"push", "compress", "merge", "index", "write"} => Op[c] = "append",
           Shared /\ Shared' =>
               /\ stored'["l1"] = "store"
               /\ heap'["l1"]["store"] = heap["l1"]["store"]
               /\ Op[c] = "append" => x.holds["l1"] = "store"
    PROVE  TierInv'
<1>1. /\ remember' \in [MemoryCalls -> TierCalls] /\ remember'[c] = x
      /\ \A b \in MemoryCalls : b # c => remember'[b] = remember[b]
  BY DEF TierInv, TierTypes
<1>2. TierTypes'
  BY <1>1 DEF TierInv, TierTypes
<1>3. TierOps'
  BY <1>1 DEF TierInv, TierOps
<1>4. ASSUME Shared'
      PROVE  (SharedHolds /\ OncePresent /\ OnceTaken /\ AppendedKept /\ KeptAppended)'
  <2>1. Shared
    BY <1>1, <1>4 DEF Shared
  <2>2. SharedHolds /\ OncePresent /\ OnceTaken /\ AppendedKept /\ KeptAppended
    BY <2>1 DEF TierInv, HistoryKept
  <2>3. /\ stored'["l1"] = "store" /\ heap'["l1"]["store"] = heap["l1"]["store"]
        /\ Op[c] = "append" => x.holds["l1"] = "store"
    BY <1>4, <2>1
  <2>4. \A b \in MemoryCalls : remember'[b].batch = remember[b].batch
    BY <1>1
  <2>5. \A b, d \in MemoryCalls : Taken(b, d)' = Taken(b, d)
    BY <2>4 DEF Taken, Present
  <2>6. \A d \in MemoryCalls :
            Present(heap["l1"]["store"], d)' = Present(heap["l1"]["store"], d)
    BY <2>3 DEF Present
  <2>7. SharedHolds'
    BY <1>1, <2>2, <2>3 DEF SharedHolds
  <2>8. OncePresent'
    BY <2>2, <2>3 DEF OncePresent
  <2>9. OnceTaken'
    BY <2>2, <2>5, <2>6 DEF OnceTaken
  <2>10. AppendedKept'
    <3>1. \A d \in MemoryCalls :
              Op[d] = "append" /\ remember'[d].at \notin {"idle", "push"} =>
                  remember[d].at \notin {"idle", "push"}
      BY <1>1
    <3> QED
      BY <2>2, <2>5, <2>6, <3>1 DEF AppendedKept
  <2>11. KeptAppended'
    <3>1. \A d \in MemoryCalls : remember[d].at \notin {"idle", "push"} =>
              remember'[d].at \notin {"idle", "push"}
      BY <1>1
    <3> QED
      BY <2>2, <2>5, <2>6, <3>1 DEF KeptAppended
  <2> QED
    BY <2>7, <2>8, <2>9, <2>10, <2>11
<1> QED
  BY <1>2, <1>3, <1>4 DEF TierInv, HistoryKept

\* A call begins to read a cell.
LEMMA TierGet ==
    ASSUME TierInv, NEW c \in MemoryCalls, NEW cell \in Tiers!Cells,
           NEW next \in {"push", "merge", "atom"}, Tiers!Get(c, cell, next),
           UNCHANGED <<backend, established, stored, indexed>>,
           IF next = "push" THEN cell = "l1" /\ remember[c].at = "idle" /\ Op[c] = "append"
           ELSE /\ cell = "l2"
                /\ Op[c] = "append" => remember[c].at \notin {"idle", "push"}
                /\ next = "merge" => Op[c] = "append"
    PROVE  TierInv'
<1> DEFINE h == IF backend = "memory" /\ stored[cell] # None THEN stored[cell] ELSE c
           x == [remember[c] EXCEPT !.at = next, !.holds[cell] = h]
           v == IF stored[cell] = None THEN <<>> ELSE heap[cell]["store"]
<1>1. /\ remember \in [MemoryCalls -> TierCalls] /\ remember[c] \in TierCalls
      /\ heap \in TierHeaps /\ stored[cell] \in TierHolders \cup {None} /\ c \in TierHolders
  BY DEF TierInv, TierTypes, TierHolders
<1>2. /\ remember' = [remember EXCEPT ![c] = x]
      /\ \/ backend = "memory" /\ stored[cell] # None /\ heap' = heap
         \/ ~(backend = "memory" /\ stored[cell] # None) /\ heap' = [heap EXCEPT ![cell][c] = v]
  BY <1>1 DEF Tiers!Get
<1>3. h \in TierHolders
  BY <1>1
<1>4. v \in Seq(Tiers!Items) /\ "store" \in TierHolders /\ <<>> \in Seq(Tiers!Items)
  BY <1>1 DEF TierHeaps, TierHolders
<1> HIDE DEF v
<1>5. /\ x \in TierCalls /\ x.at = next /\ x.batch = remember[c].batch
      /\ x.holds[cell] = h
      /\ \A other \in Tiers!Cells : other # cell => x.holds[other] = remember[c].holds[other]
  <2> HIDE DEF h
  <2>1. [remember[c].holds EXCEPT ![cell] = h] \in [Tiers!Cells -> TierHolders]
    BY <1>1, <1>3 DEF TierCalls
  <2> QED
    BY <1>1, <1>3, <2>1 DEF TierCalls
<1>6. /\ heap' \in TierHeaps
      /\ \A i \in TierHolders : i # c => heap'[cell][i] = heap[cell][i]
      /\ \A other \in Tiers!Cells : other # cell => heap'[other] = heap[other]
      /\ heap' = heap \/ heap'[cell][c] = v
  BY <1>1, <1>2, <1>4, HeapEdited
<1> HIDE DEF x
<1>7. DiskHolds'
  BY DEF TierInv, DiskHolds
<1>8. L1Bounded'
  <2>1. cell = "l1" => Len(v) <= MaxMessages
    BY <1>4, TierBounds DEF TierInv, L1Bounded, v
  <2> QED
    BY <1>1, <1>6, <2>1, TierSets DEF TierInv, L1Bounded
<1>9. L2Bounded'
  <2>1. Tiers!Stored("l2")' = Tiers!Stored("l2")
    <3>1. CASE stored["l2"] = None
      BY <3>1 DEF Tiers!Stored
    <3>2. CASE stored["l2"] # None
      <4>1. heap' = heap \/ stored["l2"] # c \/ cell # "l2"
        BY <1>2, <3>2, TierBounds, TierSets DEF TierInv, TierTypes, DiskHolds
      <4> QED
        BY <1>6, <3>2, <4>1, TierSets DEF TierInv, TierTypes, Tiers!Stored
    <3> QED
      BY <3>1, <3>2
  <2> QED
    BY <2>1 DEF TierInv, L2Bounded
<1>10. ASSUME Shared, Shared'
       PROVE  /\ stored'["l1"] = "store" /\ heap'["l1"]["store"] = heap["l1"]["store"]
              /\ Op[c] = "append" => x.holds["l1"] = "store"
  <2>1. SharedHolds /\ backend = "memory"
    BY <1>10 DEF TierInv, HistoryKept, Shared
  <2>2. stored["l1"] = "store" /\ "store" # None
    BY <2>1, TierBounds DEF SharedHolds, TierHolders
  <2>3. heap'["l1"]["store"] = heap["l1"]["store"]
    BY <1>4, <1>6, TierBounds, TierSets
  <2>4. CASE next = "push"
    BY <1>5, <2>1, <2>2, <2>3, <2>4
  <2>5. CASE next # "push"
    BY <1>5, <2>1, <2>2, <2>3, <2>5, TierSets DEF SharedHolds
  <2> QED
    BY <2>4, <2>5
<1>11. stored' \in [Tiers!Cells -> TierHolders \cup {None}] /\ indexed' \subseteq Tiers!Items
  BY DEF TierInv, TierTypes
<1> HIDE DEF h
<1>12. CASE next = "push"
  BY <1>2, <1>5, <1>6, <1>7, <1>8, <1>9, <1>10, <1>11, <1>12, TierCallStep, ZenonT(60)
<1>13. CASE next # "push"
  BY <1>2, <1>5, <1>6, <1>7, <1>8, <1>9, <1>10, <1>11, <1>13, TierCallStep, ZenonT(60)
<1> QED
  BY <1>12, <1>13

\* The array of messages gets one more, and gives away what is over the limit.
LEMMA TierPush ==
    ASSUME TierInv, NEW c \in MemoryCalls, Tiers!Push(c)
    PROVE  TierInv'
<1> DEFINE h == remember[c].holds["l1"]
           history == Append(heap["l1"][h], c)
           over == Tiers!Overflow(history)
           rest == Tiers!Rest(history)
           x == [remember[c] EXCEPT !.batch = over,
                                    !.at = IF over = <<>> THEN "write" ELSE "compress"]
<1>1. /\ remember[c].at = "push" /\ heap' = [heap EXCEPT !["l1"][h] = rest]
      /\ remember' = [remember EXCEPT ![c].batch = over,
                          ![c].at = IF over = <<>> THEN "write" ELSE "compress"]
      /\ UNCHANGED <<backend, established, stored, indexed>>
  BY DEF Tiers!Push, Tiers!Continues, Tiers!Held
<1>2. /\ remember \in [MemoryCalls -> TierCalls] /\ remember[c] \in TierCalls
      /\ heap \in TierHeaps /\ Op[c] = "append"
  BY <1>1 DEF TierInv, TierTypes, TierOps
<1>3. h \in TierHolders /\ heap["l1"][h] \in Seq(Tiers!Items) /\ c \in Tiers!Items
  BY <1>2, TierSets DEF TierCalls, TierHeaps
<1>4. remember' = [remember EXCEPT ![c] = x]
  BY <1>1, <1>2
<1>5. history \in Seq(Tiers!Items) /\ Len(history) = Len(heap["l1"][h]) + 1
      /\ history[Len(history)] = c
      /\ \A i \in 1..Len(heap["l1"][h]) : history[i] = heap["l1"][h][i]
  <2>1. ASSUME NEW s \in Seq(Tiers!Items)
        PROVE  /\ Append(s, c) \in Seq(Tiers!Items) /\ Len(Append(s, c)) = Len(s) + 1
               /\ Append(s, c)[Len(Append(s, c))] = c
               /\ \A i \in 1..Len(s) : Append(s, c)[i] = s[i]
    BY ONLY <1>3, <2>1
  <2> QED
    BY <1>3, <2>1
<1> HIDE DEF history
<1>6. over \in Seq(Tiers!Items) /\ rest \in Seq(Tiers!Items)
  BY <1>5, HistorySplit
<1>7. PICK k \in 0..Len(history) :
         /\ Len(history) - k <= MaxMessages /\ Len(over) = k
         /\ \A i \in 1..k : over[i] = history[i]
         /\ Len(rest) = Len(history) - k
         /\ \A i \in 1..Len(history) - k : rest[i] = history[k + i]
  BY <1>5, HistorySplit
<1> HIDE DEF over, rest
<1>8. x \in TierCalls /\ x.batch = over /\ x.at \in {"write", "compress"}
  BY ONLY <1>2, <1>6 DEF TierCalls
<1> HIDE DEF x
<1>9. /\ heap' \in TierHeaps /\ heap'["l1"][h] = rest
      /\ \A i \in TierHolders : i # h => heap'["l1"][i] = heap["l1"][i]
      /\ heap'["l2"] = heap["l2"]
  <2>1. heap' = WithArray(heap, "l1", h, rest)
    BY <1>1 DEF WithArray
  <2> HIDE DEF h
  <2>2. h \in TierHolders /\ rest \in Seq(Tiers!Items) /\ heap \in TierHeaps
    BY <1>2, <1>3, <1>6
  <2>3. ASSUME NEW g, g = WithArray(heap, "l1", h, rest)
        PROVE  /\ g \in TierHeaps /\ g["l1"][h] = rest /\ g["l2"] = heap["l2"]
               /\ \A i \in TierHolders : i # h => g["l1"][i] = heap["l1"][i]
    BY ONLY <2>2, <2>3, MessagesEdited
  <2> QED
    BY ONLY <2>1, <2>3
<1>10. /\ remember' \in [MemoryCalls -> TierCalls] /\ remember'[c] = x
       /\ \A b \in MemoryCalls : b # c => remember'[b] = remember[b]
  BY <1>2, <1>4, <1>8
<1>11. TierTypes'
  BY <1>1, <1>9, <1>10 DEF TierInv, TierTypes
<1>12. TierOps'
  BY <1>2, <1>8, <1>10 DEF TierInv, TierOps
<1>13. DiskHolds'
  BY <1>1 DEF TierInv, DiskHolds
<1>14. L1Bounded'
  BY <1>7, <1>9 DEF TierInv, L1Bounded
<1>15. L2Bounded'
  <2>1. Tiers!Stored("l2")' = Tiers!Stored("l2")
    BY <1>1, <1>9 DEF Tiers!Stored
  <2> QED
    BY <2>1 DEF TierInv, L2Bounded
<1>16. ASSUME Shared'
       PROVE  (SharedHolds /\ OncePresent /\ OnceTaken /\ AppendedKept /\ KeptAppended)'
  <2>1. Shared
    BY <1>1, <1>2, <1>10, <1>16 DEF Shared
  <2>2. SharedHolds /\ OncePresent /\ OnceTaken /\ AppendedKept /\ KeptAppended
    BY <2>1 DEF TierInv, HistoryKept
  <2>3. h = "store" /\ stored["l1"] = "store"
    BY <1>1, <1>2, <2>2 DEF SharedHolds
  <2> DEFINE s == heap["l1"]["store"]
             n == Len(s)
  <2>4. /\ s \in Seq(Tiers!Items) /\ n \in Nat /\ Len(history) = n + 1 /\ history[n + 1] = c
        /\ \A i \in 1..n : history[i] = s[i]
    BY <1>3, <1>5, <2>3
  <2>5. heap'["l1"]["store"] = rest
    BY <1>9, <2>3
  <2>6. ~Present(s, c) /\ \A b \in MemoryCalls : ~Taken(b, c)
    BY <1>1, <2>2 DEF KeptAppended
  <2>7. OncePresent /\ OnceTaken
    BY <2>2
  <2> HIDE DEF n
  <2>8. \A i, j \in 1..n + 1 : history[i] \in MemoryCalls /\ history[i] = history[j] => i = j
    <3>1. \A i \in 1..n : s[i] # c
      BY <2>6 DEF Present, n
    <3>2. \A i, j \in 1..n : s[i] \in MemoryCalls /\ s[i] = s[j] => i = j
      BY <2>7 DEF OncePresent, n
    <3>3. \A i \in 1..n + 1 : i = n + 1 \/ i \in 1..n
      BY <2>4
    <3> QED
      BY <2>4, <3>1, <3>2, <3>3
  <2>9. k \in Nat /\ k <= n + 1 /\ Len(rest) = n + 1 - k /\ Len(over) = k
        /\ (\A i \in 1..k : over[i] = history[i])
        /\ \A i \in 1..n + 1 - k : rest[i] = history[k + i]
    BY <1>7, <2>4
  <2>10. \A d \in MemoryCalls : Present(over, d) => d = c \/ Present(s, d)
    <3>1. ASSUME NEW d \in MemoryCalls, NEW i \in 1..k, over[i] = d
          PROVE  d = c \/ Present(s, d)
      <4>1. i = n + 1 \/ i \in 1..n
        BY <2>4, <2>9
      <4>2. history[i] = d
        BY <2>9, <3>1
      <4> QED
        BY <2>4, <4>1, <4>2 DEF Present, n
    <3> QED
      BY <2>9, <3>1 DEF Present
  <2>11. \A d \in MemoryCalls : Present(rest, d) => d = c \/ Present(s, d)
    <3>1. ASSUME NEW d \in MemoryCalls, NEW i \in 1..n + 1 - k, rest[i] = d
          PROVE  d = c \/ Present(s, d)
      <4>1. k + i = n + 1 \/ k + i \in 1..n
        BY <2>4, <2>9
      <4>2. history[k + i] = d
        BY <2>9, <3>1
      <4> QED
        BY <2>4, <4>1, <4>2 DEF Present, n
    <3> QED
      BY <2>9, <3>1 DEF Present
  <2>12. \A d \in MemoryCalls : d = c \/ Present(s, d) => Present(over, d) \/ Present(rest, d)
    <3>1. ASSUME NEW d \in MemoryCalls, NEW i \in 1..n + 1, history[i] = d
          PROVE  Present(over, d) \/ Present(rest, d)
      <4>1. CASE i <= k
        BY <2>9, <3>1, <4>1 DEF Present
      <4>2. CASE i > k
        <5>1. i - k \in 1..n + 1 - k /\ k + (i - k) = i
          BY <2>4, <2>9, <4>2
        <5> QED
          BY <2>9, <3>1, <5>1 DEF Present
      <4> QED
        BY <2>4, <2>9, <4>1, <4>2
    <3>2. n + 1 \in 1..n + 1 /\ \A i \in 1..n : i \in 1..n + 1
      BY <2>4
    <3> QED
      BY <2>4, <3>1, <3>2 DEF Present, n
  <2>13. \A d \in MemoryCalls : ~(Present(over, d) /\ Present(rest, d))
    <3>1. ASSUME NEW d \in MemoryCalls, NEW i \in 1..k, over[i] = d,
                 NEW j \in 1..n + 1 - k, rest[j] = d
          PROVE  FALSE
      <4>1. i \in 1..n + 1 /\ k + j \in 1..n + 1 /\ i # k + j
        BY <2>4, <2>9
      <4>2. history[i] = d /\ history[k + j] = d
        BY <2>9, <3>1
      <4> QED
        BY <2>8, <4>1, <4>2
    <3> QED
      BY <2>9, <3>1 DEF Present
  <2>14. \A b, d \in MemoryCalls : Taken(b, d)' <=> IF b = c THEN Present(over, d) ELSE Taken(b, d)
    BY <1>8, <1>10 DEF Taken, Present
  <2>15. \A d \in MemoryCalls : Present(heap["l1"]["store"], d)' <=> Present(rest, d)
    BY <2>5 DEF Present
  <2>16. \A d \in MemoryCalls : ~Taken(c, d)
    BY <1>1 DEF TierInv, TierOps, Taken, Present
  <2> HIDE DEF s
  <2>17. SharedHolds'
    <3>1. x.holds["l1"] = "store"
      BY <1>1, <1>2, <2>3, <1>4, <1>10 DEF x
    <3> QED
      BY <1>1, <1>10, <2>2, <3>1 DEF SharedHolds
  <2>18. OncePresent'
    <3>1. ASSUME NEW i \in 1..n + 1 - k, NEW j \in 1..n + 1 - k,
                 rest[i] \in MemoryCalls, rest[i] = rest[j]
          PROVE  i = j
      <4>1. k + i \in 1..n + 1 /\ k + j \in 1..n + 1
        BY <2>4, <2>9
      <4>2. history[k + i] = rest[i] /\ history[k + j] = rest[j]
        BY <2>9
      <4>3. k + i = k + j
        BY <2>8, <3>1, <4>1, <4>2
      <4> QED
        BY <2>9, <4>3
    <3> QED
      BY <2>5, <2>9, <3>1 DEF OncePresent
  <2>19. OnceTaken'
    <3>1. ASSUME NEW b \in MemoryCalls, NEW d \in MemoryCalls, Taken(b, d)'
          PROVE  /\ ~Present(rest, d)
                 /\ \A e \in MemoryCalls : Taken(e, d)' => b = e
      <4>1. CASE b = c
        <5>1. Present(over, d) /\ (d = c \/ Present(s, d))
          BY <2>10, <2>14, <3>1, <4>1
        <5>2. \A e \in MemoryCalls : ~Taken(e, d)
          BY <2>6, <2>7, <5>1 DEF OnceTaken, s
        <5> QED
          BY <2>13, <2>14, <4>1, <5>1, <5>2
      <4>2. CASE b # c
        <5>1. Taken(b, d)
          BY <2>14, <3>1, <4>2
        <5>2. ~Present(s, d) /\ d # c /\ \A e \in MemoryCalls : Taken(e, d) => b = e
          BY <2>6, <2>7, <5>1 DEF OnceTaken, s
        <5> QED
          BY <2>10, <2>11, <2>14, <5>2
      <4> QED
        BY <4>1, <4>2
    <3> QED
      BY <2>15, <3>1 DEF OnceTaken
  <2>20. AppendedKept'
    <3>1. ASSUME NEW d \in MemoryCalls, Op[d] = "append",
                 remember'[d].at \notin {"idle", "push"}
          PROVE  Present(rest, d) \/ \E b \in MemoryCalls : Taken(b, d)'
      <4>1. d = c \/ Present(s, d) \/ \E b \in MemoryCalls : Taken(b, d)
        BY <1>10, <2>2, <3>1 DEF AppendedKept, s
      <4>2. CASE d = c \/ Present(s, d)
        BY <2>12, <2>14, <4>2
      <4>3. CASE \E b \in MemoryCalls : Taken(b, d)
        BY <2>14, <2>16, <4>3
      <4> QED
        BY <4>1, <4>2, <4>3
    <3> QED
      BY <2>15, <3>1 DEF AppendedKept
  <2>21. KeptAppended'
    <3>1. ASSUME NEW d \in MemoryCalls,
                 Present(rest, d) \/ \E b \in MemoryCalls : Taken(b, d)'
          PROVE  remember'[d].at \notin {"idle", "push"}
      <4>1. d = c \/ Present(s, d) \/ \E b \in MemoryCalls : Taken(b, d)
        BY <2>10, <2>11, <2>14, <3>1
      <4> QED
        BY <1>8, <1>10, <2>2, <4>1 DEF KeptAppended, s
    <3> QED
      BY <2>15, <3>1 DEF KeptAppended
  <2> QED
    BY <2>17, <2>18, <2>19, <2>20, <2>21
<1> QED
  BY <1>11, <1>12, <1>13, <1>14, <1>15, <1>16 DEF TierInv, HistoryKept

\* Only the working memory changes, and what is stored of it is trimmed.
LEMMA TierAtoms ==
    ASSUME TierInv, NEW c \in MemoryCalls, NEW x \in TierCalls,
           NEW atoms \in Seq(Tiers!Items),
           remember' = [remember EXCEPT ![c] = x], UNCHANGED <<backend, established>>,
           heap' = [heap EXCEPT !["l2"][remember[c].holds["l2"]] = atoms,
                                !["l2"][Tiers!Holding(c)] = Tiers!Trimmed(atoms)],
           stored' = [stored EXCEPT !["l2"] = Tiers!Holding(c)],
           indexed' \subseteq Tiers!Items, x.batch = remember[c].batch,
           x.holds = remember[c].holds, remember[c].at \notin {"idle", "push"},
           x.at \in {"index", "done"}, x.at = "index" => Op[c] = "append"
    PROVE  TierInv'
<1> DEFINE a == remember[c].holds["l2"]
           b == Tiers!Holding(c)
           trimmed == Tiers!Trimmed(atoms)
           f == WithArray(heap, "l2", a, atoms)
<1>1. a \in TierHolders /\ b \in TierHolders /\ heap \in TierHeaps
      /\ (backend = "disk" => b = "store")
      /\ stored \in [Tiers!Cells -> TierHolders \cup {None}]
  BY TierSets DEF TierInv, TierTypes, TierCalls, Tiers!Holding, TierHolders
<1>2. trimmed \in Seq(Tiers!Items) /\ Len(trimmed) <= MaxWorkingMemory
  BY AtomsTrimmed
<1>3. heap' = WithArray(f, "l2", b, trimmed)
  BY <1>1, TierSets DEF TierHeaps, WithArray
<1> HIDE DEF a, b, trimmed
<1>4. f \in TierHeaps /\ f["l1"] = heap["l1"]
  <2>1. atoms \in Seq(Tiers!Items)
    OBVIOUS
  <2> QED
    BY <1>1, <2>1, AtomsEdited
<1> HIDE DEF f
<1>5. heap' \in TierHeaps /\ heap'["l1"] = heap["l1"] /\ heap'["l2"][b] = trimmed
  <2>1. f \in TierHeaps /\ b \in TierHolders /\ trimmed \in Seq(Tiers!Items)
    BY <1>1, <1>2, <1>4
  <2>2. ASSUME NEW g, g = WithArray(f, "l2", b, trimmed)
        PROVE  g \in TierHeaps /\ g["l1"] = f["l1"] /\ g["l2"][b] = trimmed
    BY ONLY <2>1, <2>2, AtomsEdited
  <2> QED
    BY ONLY <1>3, <1>4, <2>2
<1>6. /\ stored' \in [Tiers!Cells -> TierHolders \cup {None}]
      /\ stored'["l2"] = b /\ stored'["l1"] = stored["l1"]
  BY <1>1, TierSets DEF b
<1>7. DiskHolds'
  BY <1>1, <1>6, TierSets DEF TierInv, DiskHolds
<1>8. L1Bounded'
  BY <1>5 DEF TierInv, L1Bounded
<1>9. L2Bounded'
  BY <1>1, <1>2, <1>5, <1>6, TierBounds DEF L2Bounded, Tiers!Stored
<1>10. ASSUME Shared, Shared'
       PROVE  /\ stored'["l1"] = "store" /\ heap'["l1"]["store"] = heap["l1"]["store"]
              /\ Op[c] = "append" => x.holds["l1"] = "store"
  BY <1>5, <1>6, <1>10 DEF TierInv, HistoryKept, SharedHolds
<1> QED
  BY <1>5, <1>6, <1>7, <1>8, <1>9, <1>10, TierCallStep

\* A call merges its atoms;
LEMMA TierMerge ==
    ASSUME TierInv, NEW c \in MemoryCalls, Tiers!Merge(c) \/ Tiers!StoreAtom(c)
    PROVE  TierInv'
<1>1. remember[c] \in TierCalls /\ Tiers!Held(c, "l2") \in Seq(Tiers!Items)
      /\ remember[c].batch \in Seq(Tiers!Items) /\ c \in Tiers!Items
      /\ remember \in [MemoryCalls -> TierCalls] /\ indexed \subseteq Tiers!Items
  BY HeldTyped, TierSets DEF TierInv, TierTypes
<1>2. CASE Tiers!Merge(c)
  <2> DEFINE atoms == Tiers!Held(c, "l2") \o remember[c].batch
             x == [remember[c] EXCEPT !.at = "index"]
  <2>1. /\ remember[c].at = "merge" /\ UNCHANGED <<backend, established, indexed>>
        /\ heap' = [heap EXCEPT !["l2"][remember[c].holds["l2"]] = atoms,
                                !["l2"][Tiers!Holding(c)] = Tiers!Trimmed(atoms)]
        /\ stored' = [stored EXCEPT !["l2"] = Tiers!Holding(c)]
        /\ remember' = [remember EXCEPT ![c].at = "index"]
    BY <1>2 DEF Tiers!Merge, Tiers!Continues
  <2>2. remember' = [remember EXCEPT ![c] = x]
    BY <1>1, <2>1
  <2>3. /\ x \in TierCalls /\ x.at = "index" /\ x.batch = remember[c].batch
        /\ x.holds = remember[c].holds
    BY ONLY <1>1 DEF TierCalls
  <2>4. atoms \in Seq(Tiers!Items)
    BY <1>1
  <2>5. Op[c] = "append" /\ indexed' \subseteq Tiers!Items
    BY <1>1, <2>1 DEF TierInv, TierOps
  <2> HIDE DEF x, atoms
  <2> QED
    BY <2>1, <2>2, <2>3, <2>4, <2>5, TierAtoms
<1>3. CASE Tiers!StoreAtom(c)
  <2> DEFINE atoms == Append(Tiers!Held(c, "l2"), c)
             x == [remember[c] EXCEPT !.at = "done"]
  <2>1. /\ remember[c].at = "atom" /\ UNCHANGED <<backend, established>>
        /\ heap' = [heap EXCEPT !["l2"][remember[c].holds["l2"]] = atoms,
                                !["l2"][Tiers!Holding(c)] = Tiers!Trimmed(atoms)]
        /\ stored' = [stored EXCEPT !["l2"] = Tiers!Holding(c)]
        /\ remember' = [remember EXCEPT ![c].at = "done"]
        /\ indexed' = indexed \cup {c}
    BY <1>3 DEF Tiers!StoreAtom, Tiers!Continues
  <2>2. remember' = [remember EXCEPT ![c] = x]
    BY <1>1, <2>1
  <2>3. /\ x \in TierCalls /\ x.at = "done" /\ x.batch = remember[c].batch
        /\ x.holds = remember[c].holds
    BY ONLY <1>1 DEF TierCalls
  <2>4. atoms \in Seq(Tiers!Items)
    BY <1>1
  <2>5. indexed' \subseteq Tiers!Items
    BY <1>1, <2>1
  <2> HIDE DEF x, atoms
  <2> QED
    BY <2>1, <2>2, <2>3, <2>4, <2>5, TierAtoms
<1> QED
  BY <1>2, <1>3

\* Steps that leave the arrays alone.
LEMMA TierMoves ==
    ASSUME TierInv, NEW c \in MemoryCalls,
           Tiers!Index(c) \/ Tiers!CompressorFails(c) \/ Tiers!Clear(c)
    PROVE  TierInv'
<1>1. PICK to \in {"write", "failed", "clearing", "done"} :
         /\ remember' = [remember EXCEPT ![c].at = to]
         /\ to = "write" => Op[c] = "append"
         /\ Op[c] = "append" => remember[c].at \notin {"idle", "push"}
  <2>1. CASE Tiers!Index(c)
    BY <2>1 DEF Tiers!Index, TierInv, TierOps
  <2>2. CASE Tiers!CompressorFails(c)
    BY <2>2 DEF Tiers!CompressorFails
  <2>3. CASE Tiers!Clear(c)
    BY <2>3 DEF Tiers!Clear
  <2> QED
    BY <2>1, <2>2, <2>3
<1> DEFINE x == [remember[c] EXCEPT !.at = to]
<1>2. remember[c] \in TierCalls /\ remember' = [remember EXCEPT ![c] = x]
  BY <1>1 DEF TierInv, TierTypes
<1>3. /\ x \in TierCalls /\ x.at = to /\ x.batch = remember[c].batch
      /\ x.holds = remember[c].holds
  <2>1. to \in {"write", "failed", "clearing", "done"}
    BY <1>1
  <2> QED
    BY ONLY <1>2, <2>1 DEF TierCalls
<1> HIDE DEF x
<1>4. UNCHANGED <<backend, established, heap>>
  BY DEF Tiers!Index, Tiers!CompressorFails, Tiers!Clear
<1>5. indexed' \subseteq Tiers!Items
  BY HeldTyped, TierSets DEF Tiers!Index, Tiers!CompressorFails, Tiers!Clear, TierInv, TierTypes
<1>6. /\ stored' \in [Tiers!Cells -> TierHolders \cup {None}]
      /\ \A cell \in Tiers!Cells : stored'[cell] \in {stored[cell], None}
      /\ Op[c] = "clear" \/ stored' = stored
  BY TierSets DEF Tiers!Index, Tiers!CompressorFails, Tiers!Clear, TierInv, TierTypes
<1>7. DiskHolds' /\ L1Bounded'
  BY <1>4, <1>6 DEF TierInv, DiskHolds, L1Bounded
<1>8. L2Bounded'
  <2>1. Tiers!Stored("l2")' \in {Tiers!Stored("l2"), <<>>}
    BY <1>4, <1>6, TierSets DEF Tiers!Stored
  <2> QED
    BY <2>1, TierBounds DEF TierInv, L2Bounded
<1>9. ASSUME Shared, Shared'
      PROVE  /\ stored'["l1"] = "store" /\ heap'["l1"]["store"] = heap["l1"]["store"]
             /\ Op[c] = "append" => x.holds["l1"] = "store"
  <2>1. SharedHolds
    BY <1>9 DEF TierInv, HistoryKept
  <2>2. Op[c] # "clear"
    <3>1. remember'[c].at # "idle"
      BY <1>1, <1>2, <1>3 DEF TierInv, TierTypes
    <3> QED
      BY <1>9, <3>1 DEF Shared
  <2> QED
    BY <1>1, <1>3, <1>4, <1>6, <2>1, <2>2 DEF SharedHolds
<1>10. heap' \in TierHeaps
  BY <1>4 DEF TierInv, TierTypes
<1>11. x.at # "idle" /\ x.at # "push"
       /\ (x.at \in {"push", "compress", "merge", "index", "write"} => Op[c] = "append")
       /\ ~(Op[c] = "append" /\ remember[c].at \in {"idle", "push"})
  BY <1>1, <1>3
<1> QED
  BY <1>2, <1>3, <1>4, <1>5, <1>6, <1>7, <1>8, <1>9, <1>10, <1>11, TierCallStep

\* it writes its messages.
LEMMA TierWrite ==
    ASSUME TierInv, NEW c \in MemoryCalls, Tiers!Write(c)
    PROVE  TierInv'
<1> DEFINE mine == remember[c].holds["l1"]
           kept == IF backend = "memory" THEN mine ELSE "store"
           x == [remember[c] EXCEPT !.at = "done"]
<1>1. /\ remember[c].at = "write" /\ heap' = [heap EXCEPT !["l1"][kept] = heap["l1"][mine]]
      /\ stored' = [stored EXCEPT !["l1"] = kept]
      /\ remember' = [remember EXCEPT ![c].at = "done"]
      /\ UNCHANGED <<backend, established, indexed>>
  BY DEF Tiers!Write
<1>2. /\ remember[c] \in TierCalls /\ heap \in TierHeaps /\ mine \in TierHolders
      /\ heap["l1"][mine] \in Seq(Tiers!Items) /\ indexed' \subseteq Tiers!Items
      /\ remember' = [remember EXCEPT ![c] = x]
      /\ stored \in [Tiers!Cells -> TierHolders \cup {None}]
  BY <1>1, HeldTyped, TierSets DEF TierInv, TierTypes, Tiers!Held
<1>3. /\ x \in TierCalls /\ x.at = "done" /\ x.batch = remember[c].batch
      /\ x.holds = remember[c].holds
  BY ONLY <1>2 DEF TierCalls
<1> HIDE DEF x, mine
<1>4. kept \in TierHolders /\ (backend = "disk" => kept = "store")
      /\ (backend = "memory" => kept = mine)
  BY <1>2 DEF TierHolders, TierInv, TierTypes
<1> HIDE DEF kept
<1>5. /\ heap' \in TierHeaps /\ heap'["l1"][kept] = heap["l1"][mine]
      /\ \A i \in TierHolders : i # kept => heap'["l1"][i] = heap["l1"][i]
      /\ heap'["l2"] = heap["l2"]
  <2>1. heap' = WithArray(heap, "l1", kept, heap["l1"][mine])
    BY <1>1 DEF WithArray
  <2> QED
    BY <1>2, <1>4, <2>1, MessagesEdited
<1>6. /\ stored' \in [Tiers!Cells -> TierHolders \cup {None}]
      /\ stored'["l1"] = kept /\ stored'["l2"] = stored["l2"]
  BY <1>1, <1>2, <1>4, TierSets
<1>7. DiskHolds'
  BY <1>1, <1>4, <1>6, TierSets DEF TierInv, DiskHolds
<1>8. L1Bounded'
  BY <1>2, <1>5 DEF TierInv, L1Bounded
<1>9. L2Bounded'
  <2>1. Tiers!Stored("l2")' = Tiers!Stored("l2")
    BY <1>5, <1>6 DEF Tiers!Stored
  <2> QED
    BY <2>1 DEF TierInv, L2Bounded
<1>10. Op[c] = "append"
  BY <1>1 DEF TierInv, TierOps
<1>11. ASSUME Shared, Shared'
       PROVE  /\ stored'["l1"] = "store" /\ heap'["l1"]["store"] = heap["l1"]["store"]
              /\ Op[c] = "append" => x.holds["l1"] = "store"
  <2>1. mine = "store" /\ backend = "memory"
    BY <1>1, <1>10, <1>11 DEF TierInv, HistoryKept, SharedHolds, Shared, mine
  <2> QED
    BY <1>3, <1>4, <1>5, <1>6, <2>1 DEF mine
<1> QED
  BY <1>1, <1>2, <1>3, <1>5, <1>6, <1>7, <1>8, <1>9, <1>10, <1>11, TierCallStep

\* Nothing else counts.
LEMMA TierStutters == TierInv /\ UNCHANGED memoryVars => TierInv'
BY DEF memoryVars, TierInv, TierTypes, TierOps, DiskHolds, L1Bounded, L2Bounded, HistoryKept,
       Shared, SharedHolds, OncePresent, OnceTaken, AppendedKept, KeptAppended, Taken, Present,
       Tiers!Stored

\* Every step keeps the invariant,
LEMMA TierNext == TierInv /\ Tiers!MNext => TierInv'
<1> SUFFICES ASSUME TierInv, NEW c \in MemoryCalls,
                    \/ Tiers!AppendMessage(c) \/ Tiers!SetAtom(c) \/ Tiers!Clear(c)
                    \/ Tiers!Continue(c)
             PROVE  TierInv'
  BY DEF Tiers!MNext
<1>1. CASE Tiers!AppendMessage(c)
  BY <1>1, TierGet, TierSets DEF Tiers!AppendMessage
<1>2. CASE Tiers!SetAtom(c)
  BY <1>2, TierGet, TierSets DEF Tiers!SetAtom
<1>3. CASE Tiers!Compressed(c)
  <2>1. Op[c] = "append"
    BY <1>3 DEF Tiers!Compressed, TierInv, TierOps
  <2> QED
    BY <1>3, <2>1, TierGet, TierSets DEF Tiers!Compressed
<1>4. CASE Tiers!Push(c) \/ Tiers!Merge(c) \/ Tiers!StoreAtom(c) \/ Tiers!Write(c)
  BY <1>4, TierPush, TierMerge, TierWrite
<1>5. CASE Tiers!Index(c) \/ Tiers!CompressorFails(c) \/ Tiers!Clear(c)
  BY <1>5, TierMoves
<1> QED
  BY <1>1, <1>2, <1>3, <1>4, <1>5 DEF Tiers!Continue

(***************************************************************************)
(* What an append that no other overlapped has added: it is in the history *)
(* or was taken up, and so it is in what every append under way has read.  *)
(***************************************************************************)
\* An append between its first and its last step.
Appends(c) == Op[c] = "append" /\ remember[c].at \notin {"idle", "clearing", "done", "failed"}
\* A message was taken out of the history for good;
TakenUp(b, c) == Taken(b, c) /\ (backend = "disk" => remember[b].at = "done")
KeptAt(h, c) == Present(heap["l1"][h], c) \/ \E b \in MemoryCalls : TakenUp(b, c)

\* Appends that are under way together have overlapped;
OverlapsSeen ==
    /\ overlaps \in SUBSET MemoryCalls
    /\ \A c, d \in MemoryCalls : c # d /\ Appends(c) /\ Appends(d) => c \in overlaps

\* one of a call of the disk backend works on an array of its own;
OwnArrays == backend = "disk" => \A c \in MemoryCalls : Appends(c) => remember[c].holds["l1"] = c

\* what an append awaits is not an atom;
AtomsApart == \A c \in MemoryCalls : remember[c].at = "atom" => Op[c] # "append"

\* one that no other overlaps has its message in its array, or has taken it,
PushedKept(c) ==
    Appends(c) /\ remember[c].at # "push" => Present(heap["l1"][remember[c].holds["l1"]], c) \/ Taken(c, c)

\* and when it has ended it is in the history, and in what any other has read.
WrittenKept(c) ==
    Op[c] = "append" /\ remember[c].at = "done" =>
        /\ stored["l1"] # None /\ KeptAt(stored["l1"], c)
        /\ \A d \in MemoryCalls :
              Appends(d) => KeptAt(remember[d].holds["l1"], c) \/ Taken(d, c)

\* All of it, while nothing is cleared; and both invariants of the memory.
AloneKept ==
    Tiers!NeverCleared => \A c \in MemoryCalls : c \notin overlaps => PushedKept(c) /\ WrittenKept(c)

MemoryInv == TierInv /\ OverlapsSeen /\ OwnArrays /\ AtomsApart /\ AloneKept

\* Appending and the appends under way.
LEMMA AppendingSet == Tiers!Appending = {c \in MemoryCalls : Appends(c)}
BY DEF Tiers!Appending, Tiers!UnderWay, Tiers!Ended, Appends

\* A memory that begins has nothing under way.
LEMMA MemoryInit == Tiers!MInit => MemoryInv
<1> SUFFICES ASSUME Tiers!MInit PROVE MemoryInv
  OBVIOUS
<1>1. \A c \in MemoryCalls : remember[c].at = "idle"
  BY DEF Tiers!MInit
<1>2. overlaps = {}
  BY DEF Tiers!MInit
<1>3. OverlapsSeen /\ OwnArrays /\ AtomsApart /\ AloneKept
  BY <1>1, <1>2 DEF OverlapsSeen, AtomsApart, OwnArrays, AloneKept, PushedKept, WrittenKept, Appends
<1> QED
  BY <1>3, TierInit DEF MemoryInv

\* A message that was taken up stays so, when no call goes back from its end.
LEMMA StaysTaken ==
    ASSUME UNCHANGED backend, NEW c \in MemoryCalls,
           \A b \in MemoryCalls : b # c => remember'[b] = remember[b],
           remember'[c].batch = remember[c].batch \/ remember[c].batch = <<>>,
           remember[c].at # "done" \/ remember'[c] = remember[c]
    PROVE  \A b, d \in MemoryCalls : /\ Taken(b, d) => Taken(b, d)'
                                     /\ TakenUp(b, d) => TakenUp(b, d)'
<1>1. \A b, d \in MemoryCalls : Taken(b, d) => Taken(b, d)'
  BY DEF Taken, Present
<1>2. \A b \in MemoryCalls : remember[b].at = "done" => remember'[b].at = "done"
  OBVIOUS
<1> QED
  BY <1>1, <1>2 DEF TakenUp

\* A step of a call that neither begins nor ends an append, and leaves the
\* messages and the batches alone.
LEMMA MemoryAside ==
    ASSUME MemoryInv, TierInv', NEW c \in MemoryCalls, UNCHANGED <<backend, overlaps>>,
           \A b \in MemoryCalls : b # c => remember'[b] = remember[b],
           heap'["l1"] = heap["l1"], remember'[c].batch = remember[c].batch,
           remember'[c].holds["l1"] = remember[c].holds["l1"],
           remember[c].at # "done", remember'[c].at # "idle",
           Op[c] = "append" => remember'[c].at \notin {"done", "atom"} /\ Appends(c) /\ remember[c].at # "push",
           Op[c] # "clear" => stored'["l1"] = stored["l1"]
    PROVE  MemoryInv'
<1>1. \A d \in MemoryCalls : Appends(d)' => Appends(d)
  BY DEF Appends
<1>2. \A d \in MemoryCalls : remember'[d].holds["l1"] = remember[d].holds["l1"]
  OBVIOUS
<1>3. \A b, d \in MemoryCalls : /\ Taken(b, d) => Taken(b, d)'
                                /\ TakenUp(b, d) => TakenUp(b, d)'
  BY StaysTaken
<1>4. \A h : \A d \in MemoryCalls : KeptAt(h, d) => KeptAt(h, d)'
  BY <1>3 DEF KeptAt, Present
<1>5. OverlapsSeen'
  BY <1>1 DEF MemoryInv, OverlapsSeen
<1>6. OwnArrays' /\ AtomsApart'
  BY <1>1, <1>2 DEF MemoryInv, OwnArrays, AtomsApart
<1>7. AloneKept'
  <2>1. SUFFICES ASSUME Tiers!NeverCleared', NEW d \in MemoryCalls, d \notin overlaps'
                 PROVE  PushedKept(d)' /\ WrittenKept(d)'
    BY DEF AloneKept
  <2>2. Tiers!NeverCleared /\ Op[c] # "clear"
    BY <2>1 DEF Tiers!NeverCleared
  <2>3. PushedKept(d) /\ WrittenKept(d)
    BY <2>1, <2>2 DEF MemoryInv, AloneKept
  <2>4. PushedKept(d)'
    <3>1. Appends(d)' /\ remember'[d].at # "push" => Appends(d) /\ remember[d].at # "push"
      <4>1. CASE d = c
        BY <1>1, <4>1 DEF Appends
      <4>2. CASE d # c
        BY <1>1, <4>2
      <4> QED
        BY <4>1, <4>2
    <3> QED
      BY <1>2, <1>3, <2>3, <3>1 DEF PushedKept, Present
  <2>5. WrittenKept(d)'
    <3>1. Op[d] = "append" /\ remember'[d].at = "done" => remember[d].at = "done"
      OBVIOUS
    <3> QED
      BY <1>1, <1>2, <1>3, <1>4, <2>2, <2>3, <3>1 DEF WrittenKept
  <2> QED
    BY <2>4, <2>5
<1> QED
  BY <1>5, <1>6, <1>7 DEF MemoryInv

\* What a call reads,
LEMMA GetFacts ==
    ASSUME TierInv, NEW c \in MemoryCalls, NEW cell \in Tiers!Cells,
           NEW next \in {"push", "merge", "atom"}, Tiers!Get(c, cell, next)
    PROVE  /\ \A b \in MemoryCalls : b # c => remember'[b] = remember[b]
           /\ remember'[c].at = next /\ remember'[c].batch = remember[c].batch
           /\ \A other \in Tiers!Cells :
                 other # cell => /\ heap'[other] = heap[other]
                                 /\ remember'[c].holds[other] = remember[c].holds[other]
           /\ \/ /\ backend = "memory" /\ stored[cell] # None /\ heap' = heap
                 /\ remember'[c].holds[cell] = stored[cell]
              \/ /\ ~(backend = "memory" /\ stored[cell] # None)
                 /\ remember'[c].holds[cell] = c
                 /\ heap'[cell][c] = IF stored[cell] = None THEN <<>> ELSE heap[cell]["store"]
                 /\ \A h \in TierHolders : h # c => heap'[cell][h] = heap[cell][h]
<1> DEFINE v == IF stored[cell] = None THEN <<>> ELSE heap[cell]["store"]
<1>1. /\ remember \in [MemoryCalls -> TierCalls] /\ remember[c] \in TierCalls
      /\ heap \in TierHeaps /\ c \in TierHolders /\ "store" \in TierHolders
  BY DEF TierInv, TierTypes, TierHolders
<1>2. remember[c].holds \in [Tiers!Cells -> TierHolders]
  BY <1>1 DEF TierCalls
<1>3. v \in Seq(Tiers!Items)
  BY <1>1 DEF TierHeaps
<1>4. CASE backend = "memory" /\ stored[cell] # None
  <2>1. remember' = [remember EXCEPT ![c].at = next, ![c].holds[cell] = stored[cell]] /\ heap' = heap
    BY <1>4 DEF Tiers!Get
  <2> QED
    BY <1>1, <1>2, <1>4, <2>1 DEF TierCalls
<1>5. CASE ~(backend = "memory" /\ stored[cell] # None)
  <2>1. /\ remember' = [remember EXCEPT ![c].at = next, ![c].holds[cell] = c]
        /\ heap' = [heap EXCEPT ![cell][c] = v]
    BY <1>5 DEF Tiers!Get
  <2>2. /\ heap'[cell][c] = v
        /\ \A i \in TierHolders : i # c => heap'[cell][i] = heap[cell][i]
        /\ \A other \in Tiers!Cells : other # cell => heap'[other] = heap[other]
    <3> HIDE DEF v
    <3>1. cell \in Tiers!Cells /\ c \in TierHolders /\ v \in Seq(Tiers!Items) /\ heap \in TierHeaps
      BY <1>1, <1>3
    <3>2. ASSUME NEW g, g = [heap EXCEPT ![cell][c] = v]
          PROVE  /\ g[cell][c] = v
                 /\ \A i \in TierHolders : i # c => g[cell][i] = heap[cell][i]
                 /\ \A other \in Tiers!Cells : other # cell => g[other] = heap[other]
      BY ONLY <3>1, <3>2 DEF TierHeaps
    <3> QED
      BY ONLY <2>1, <3>2
  <2>3. /\ \A b \in MemoryCalls : b # c => remember'[b] = remember[b]
        /\ remember'[c].at = next /\ remember'[c].batch = remember[c].batch
        /\ remember'[c].holds[cell] = c
        /\ \A other \in Tiers!Cells : other # cell => remember'[c].holds[other] = remember[c].holds[other]
    BY <1>1, <1>2, <2>1 DEF TierCalls
  <2> QED
    BY <1>5, <2>2, <2>3 DEF v
<1> QED
  BY <1>4, <1>5

\* an append begins,
LEMMA MemoryAppend ==
    ASSUME MemoryInv, TierInv', NEW c \in MemoryCalls, Tiers!AppendMessage(c)
    PROVE  MemoryInv'
<1>1. /\ remember[c].at = "idle" /\ Op[c] = "append" /\ Tiers!Get(c, "l1", "push")
      /\ UNCHANGED <<backend, established, stored, indexed>>
      /\ overlaps' = IF Tiers!Appending = {} THEN overlaps ELSE overlaps \cup Tiers!Appending \cup {c}
  BY DEF Tiers!AppendMessage
<1>0. PICK h : h = remember'[c].holds["l1"]
  OBVIOUS
<1>2. /\ \A b \in MemoryCalls : b # c => remember'[b] = remember[b]
      /\ remember'[c].at = "push" /\ remember'[c].batch = remember[c].batch
      /\ \/ backend = "memory" /\ stored["l1"] # None /\ heap' = heap /\ h = stored["l1"]
         \/ /\ ~(backend = "memory" /\ stored["l1"] # None) /\ h = c
            /\ heap'["l1"][c] = IF stored["l1"] = None THEN <<>> ELSE heap["l1"]["store"]
            /\ \A i \in TierHolders : i # c => heap'["l1"][i] = heap["l1"][i]
  <2>1. "l1" \in Tiers!Cells
    BY TierSets
  <2> QED
    BY <1>0, <1>1, <2>1, GetFacts DEF MemoryInv
<1>3. /\ \A d \in MemoryCalls : Appends(d)' <=> d = c \/ Appends(d)
      /\ ~Appends(c)
  BY <1>1, <1>2 DEF Appends
<1>4. Tiers!Appending = {d \in MemoryCalls : Appends(d)} /\ overlaps \in SUBSET MemoryCalls
  BY AppendingSet DEF MemoryInv, OverlapsSeen
<1>5. OverlapsSeen'
  <2>1. overlaps' \in SUBSET MemoryCalls
    BY <1>1, <1>4
  <2>2. ASSUME NEW d \in MemoryCalls, NEW e \in MemoryCalls, d # e, Appends(d)', Appends(e)'
        PROVE  d \in overlaps'
    <3>1. CASE Appends(d) /\ Appends(e)
      BY <1>1, <2>2, <3>1 DEF MemoryInv, OverlapsSeen
    <3>2. CASE d = c \/ e = c
      <4>1. d \in Tiers!Appending \cup {c} /\ Tiers!Appending # {}
        BY <1>3, <1>4, <2>2, <3>2
      <4> QED
        BY <1>1, <4>1
    <3> QED
      BY <1>3, <2>2, <3>1, <3>2
  <2> QED
    BY <2>1, <2>2 DEF OverlapsSeen
<1>6. OwnArrays' /\ AtomsApart'
  BY <1>0, <1>1, <1>2, <1>3 DEF MemoryInv, OwnArrays, AtomsApart
<1>7. AloneKept'
  <2>1. SUFFICES ASSUME Tiers!NeverCleared', NEW d \in MemoryCalls, d \notin overlaps'
                 PROVE  PushedKept(d)' /\ WrittenKept(d)'
    BY DEF AloneKept
  <2>2. Tiers!NeverCleared
    BY <1>1, <1>2, <2>1 DEF Tiers!NeverCleared
  <2>3. WrittenKept(d)
    BY <1>1, <2>1, <2>2 DEF MemoryInv, AloneKept
  <2>4. PushedKept(d)'
    <3>1. Appends(d)' => d = c
      BY <1>1, <1>3, <1>4, <2>1
    <3> QED
      BY <1>2, <3>1 DEF PushedKept
  <2>5. ASSUME Op[d] = "append", remember'[d].at = "done"
        PROVE  /\ stored'["l1"] # None /\ KeptAt(stored["l1"], d)'
               /\ \A e \in MemoryCalls :
                     Appends(e)' => KeptAt(remember[e].holds["l1"], d)' \/ Taken(e, d)'
    <3>1. d # c /\ remember[d].at = "done"
      BY <1>2, <2>5
    <3>2. /\ stored["l1"] # None /\ KeptAt(stored["l1"], d)
          /\ \A e \in MemoryCalls :
                Appends(e) => KeptAt(remember[e].holds["l1"], d) \/ Taken(e, d)
      BY <2>3, <2>5, <3>1 DEF WrittenKept
    <3>3. \A b, e \in MemoryCalls : /\ Taken(b, e) => Taken(b, e)'
                                    /\ TakenUp(b, e) => TakenUp(b, e)'
      BY <1>1, <1>2, StaysTaken
    <3>4. stored["l1"] \in TierHolders /\ (backend = "disk" => stored["l1"] = "store")
      BY <3>2, TierSets DEF MemoryInv, TierInv, TierTypes, DiskHolds
    <3>5. \A i : heap'["l1"][i] = heap["l1"][i] => (KeptAt(i, d) => KeptAt(i, d)')
      BY <3>3 DEF KeptAt
    <3>6. heap'["l1"][stored["l1"]] = heap["l1"][stored["l1"]]
      <4>1. backend = "disk" => stored["l1"] # c
        BY <3>4, TierBounds
      <4>2. backend \in {"memory", "disk"}
        BY DEF MemoryInv, TierInv, TierTypes
      <4> QED
        BY <1>2, <3>2, <3>4, <4>1, <4>2
    <3>7. KeptAt(stored["l1"], d)'
      BY <1>1, <3>2, <3>5, <3>6 DEF KeptAt
    <3>8. KeptAt(h, d)'
      <4>1. CASE h = stored["l1"]
        BY <1>1, <3>7, <4>1 DEF KeptAt
      <4>2. CASE h # stored["l1"]
        <5>1. backend = "disk" /\ stored["l1"] = "store" /\ h = c /\ heap'["l1"][c] = heap["l1"]["store"]
          BY <1>2, <3>2, <3>4, <4>2 DEF MemoryInv, TierInv, TierTypes
        <5>2. Present(heap["l1"]["store"], d) => Present(heap'["l1"][h], d)
          BY <5>1
        <5>3. CASE Present(heap["l1"]["store"], d)
          BY <5>2, <5>3 DEF KeptAt
        <5>4. CASE \E b \in MemoryCalls : TakenUp(b, d)
          BY <3>3, <5>4 DEF KeptAt
        <5> QED
          BY <3>2, <5>1, <5>3, <5>4 DEF KeptAt
      <4> QED
        BY <4>1, <4>2
    <3>9. ASSUME NEW e \in MemoryCalls, Appends(e)', e # c
          PROVE  KeptAt(remember[e].holds["l1"], d)' \/ Taken(e, d)'
      <4> DEFINE i == remember[e].holds["l1"]
      <4>1. Appends(e) /\ remember'[e] = remember[e]
        BY <1>2, <1>3, <3>9
      <4>2. KeptAt(i, d) \/ Taken(e, d)
        BY <3>2, <4>1
      <4>3. i \in TierHolders
        BY HeldTyped, TierSets DEF MemoryInv, TierInv
      <4>4. heap'["l1"][i] = heap["l1"][i]
        <5>1. backend = "disk" => i = e
          BY <4>1 DEF MemoryInv, OwnArrays
        <5> QED
          BY <1>2, <3>2, <3>9, <4>3, <5>1 DEF MemoryInv, TierInv, TierTypes
      <4>5. KeptAt(i, d) => KeptAt(i, d)'
        BY <3>3, <4>1, <4>4 DEF KeptAt
      <4> QED
        BY <3>3, <4>2, <4>5
    <3> QED
      BY <1>0, <1>1, <3>2, <3>7, <3>8, <3>9 DEF KeptAt
  <2> QED
    BY <2>4, <2>5 DEF WrittenKept, KeptAt
<1> QED
  BY <1>5, <1>6, <1>7 DEF MemoryInv

\* The message is added to the array, and what is over the limit is taken.
LEMMA PushFacts ==
    ASSUME TierInv, NEW c \in MemoryCalls, Tiers!Push(c)
    PROVE  /\ remember[c].at = "push" /\ Op[c] = "append" /\ remember[c].batch = <<>>
           /\ remember'[c].at \in {"write", "compress"}
           /\ \A b \in MemoryCalls : /\ b # c => remember'[b] = remember[b]
                                     /\ remember'[b].holds["l1"] = remember[b].holds["l1"]
           /\ \A i \in TierHolders : i # remember[c].holds["l1"] => heap'["l1"][i] = heap["l1"][i]
           /\ \A d \in MemoryCalls :
                 d = c \/ Present(heap["l1"][remember[c].holds["l1"]], d) =>
                     Present(heap'["l1"][remember[c].holds["l1"]], d) \/ Taken(c, d)'
           /\ UNCHANGED <<backend, stored, overlaps>>
<1> DEFINE h == remember[c].holds["l1"]
           s == heap["l1"][h]
           history == Append(s, c)
           over == Tiers!Overflow(history)
           rest == Tiers!Rest(history)
<1>1. /\ remember[c].at = "push" /\ heap' = [heap EXCEPT !["l1"][h] = rest]
      /\ remember' = [remember EXCEPT ![c].batch = over,
                          ![c].at = IF over = <<>> THEN "write" ELSE "compress"]
      /\ UNCHANGED <<backend, stored, overlaps>>
  BY DEF Tiers!Push, Tiers!Continues, Tiers!Held
<1>2. /\ remember \in [MemoryCalls -> TierCalls] /\ remember[c] \in TierCalls
      /\ heap \in TierHeaps /\ Op[c] = "append" /\ remember[c].batch = <<>>
  BY <1>1 DEF TierInv, TierTypes, TierOps
<1>3. h \in TierHolders /\ s \in Seq(Tiers!Items) /\ c \in Tiers!Items
  BY <1>2, TierSets DEF TierCalls, TierHeaps
<1> HIDE DEF s, h
<1>4. /\ history \in Seq(Tiers!Items) /\ Len(s) \in Nat /\ Len(history) = Len(s) + 1
      /\ history[Len(s) + 1] = c /\ \A i \in 1..Len(s) : history[i] = s[i]
  BY ONLY <1>3
<1> HIDE DEF history
<1>5. over \in Seq(Tiers!Items) /\ rest \in Seq(Tiers!Items)
  BY <1>4, HistorySplit
<1>6. PICK k \in 0..Len(history) :
         /\ Len(over) = k /\ \A i \in 1..k : over[i] = history[i]
         /\ Len(rest) = Len(history) - k
         /\ \A i \in 1..Len(history) - k : rest[i] = history[k + i]
  BY <1>4, HistorySplit
<1> HIDE DEF over, rest
<1>7. \A i \in TierHolders : i # h => heap'["l1"][i] = heap["l1"][i]
  BY <1>1, <1>2, <1>3, <1>5, TierSets DEF TierHeaps
<1>8. heap'["l1"][h] = rest
  BY <1>1, <1>2, <1>3, <1>5, TierSets DEF TierHeaps
<1>9. /\ remember'[c].batch = over /\ remember'[c].at \in {"write", "compress"}
      /\ \A b \in MemoryCalls : /\ b # c => remember'[b] = remember[b]
                                /\ remember'[b].holds["l1"] = remember[b].holds["l1"]
  BY <1>1, <1>2 DEF TierCalls
<1>10. ASSUME NEW d \in MemoryCalls, NEW i \in 1..Len(s) + 1, history[i] = d
       PROVE  Present(rest, d) \/ Present(over, d)
  <2>1. CASE i <= k
    BY <1>4, <1>6, <1>10, <2>1 DEF Present
  <2>2. CASE i > k
    <3>1. i - k \in 1..Len(history) - k /\ k + (i - k) = i
      BY <1>4, <1>6, <2>2
    <3> QED
      BY <1>6, <1>10, <3>1 DEF Present
  <2> QED
    BY <1>4, <1>6, <2>1, <2>2
<1>11. \A d \in MemoryCalls : d = c \/ Present(s, d) => Present(rest, d) \/ Present(over, d)
  <2>1. Len(s) + 1 \in 1..Len(s) + 1 /\ \A i \in 1..Len(s) : i \in 1..Len(s) + 1
    BY <1>4
  <2> QED
    BY <1>4, <1>10, <2>1 DEF Present
<1> QED
  BY <1>1, <1>2, <1>7, <1>8, <1>9, <1>11 DEF h, s, Taken

\* An append pushes its message,
LEMMA MemoryPush ==
    ASSUME MemoryInv, TierInv', NEW c \in MemoryCalls, Tiers!Push(c)
    PROVE  MemoryInv'
<1> DEFINE h == remember[c].holds["l1"]
<1>1. /\ remember[c].at = "push" /\ Op[c] = "append" /\ remember[c].batch = <<>>
      /\ remember'[c].at \in {"write", "compress"}
      /\ \A b \in MemoryCalls : /\ b # c => remember'[b] = remember[b]
                                /\ remember'[b].holds["l1"] = remember[b].holds["l1"]
      /\ \A i \in TierHolders : i # h => heap'["l1"][i] = heap["l1"][i]
      /\ \A d \in MemoryCalls :
            d = c \/ Present(heap["l1"][h], d) => Present(heap'["l1"][h], d) \/ Taken(c, d)'
      /\ UNCHANGED <<backend, stored, overlaps>>
  BY PushFacts DEF MemoryInv
<1> HIDE DEF h
<1>2. Appends(c) /\ \A d \in MemoryCalls : Appends(d)' <=> Appends(d)
  BY <1>1 DEF Appends
<1>3. \A b, d \in MemoryCalls : /\ Taken(b, d) => Taken(b, d)'
                                /\ TakenUp(b, d) => TakenUp(b, d)'
  BY <1>1, StaysTaken
<1>4. \A i \in TierHolders : \A d \in MemoryCalls :
          KeptAt(i, d) => KeptAt(i, d)' \/ (i = h /\ Taken(c, d)')
  BY <1>1, <1>3 DEF KeptAt
<1>5. \A d \in MemoryCalls : backend = "memory" /\ Taken(c, d)' => TakenUp(c, d)'
  BY <1>1 DEF TakenUp
<1>6. OverlapsSeen' /\ OwnArrays' /\ AtomsApart'
  BY <1>1, <1>2 DEF MemoryInv, OverlapsSeen, OwnArrays, AtomsApart
<1>7. AloneKept'
  <2>1. SUFFICES ASSUME Tiers!NeverCleared', NEW d \in MemoryCalls, d \notin overlaps'
                 PROVE  PushedKept(d)' /\ WrittenKept(d)'
    BY DEF AloneKept
  <2>2. Tiers!NeverCleared
    BY <1>1, <2>1 DEF Tiers!NeverCleared
  <2>3. WrittenKept(d)
    BY <1>1, <2>1, <2>2 DEF MemoryInv, AloneKept
  <2>4. PushedKept(d)'
    <3>1. Appends(d)' => d = c
      BY <1>1, <1>2, <2>1 DEF MemoryInv, OverlapsSeen
    <3> QED
      BY <1>1, <3>1 DEF PushedKept, h
  <2>5. ASSUME Op[d] = "append", remember'[d].at = "done"
        PROVE  /\ stored'["l1"] # None /\ KeptAt(stored["l1"], d)'
               /\ \A e \in MemoryCalls :
                     Appends(e)' => KeptAt(remember[e].holds["l1"], d)' \/ Taken(e, d)'
    <3>1. d # c /\ remember[d].at = "done"
      BY <1>1, <2>5
    <3>2. /\ stored["l1"] # None /\ KeptAt(stored["l1"], d)
          /\ \A e \in MemoryCalls :
                Appends(e) => KeptAt(remember[e].holds["l1"], d) \/ Taken(e, d)
      BY <2>3, <2>5, <3>1 DEF WrittenKept
    <3>3. stored["l1"] \in TierHolders /\ backend \in {"memory", "disk"}
          /\ (backend = "disk" => stored["l1"] = "store" /\ h = c /\ h # "store")
      BY <1>2, <3>2, TierSets, TierBounds
      DEF MemoryInv, TierInv, TierTypes, DiskHolds, OwnArrays, h
    <3>4. KeptAt(stored["l1"], d)'
      <4>1. KeptAt(stored["l1"], d)' \/ (stored["l1"] = h /\ Taken(c, d)')
        BY <1>1, <1>4, <3>2, <3>3 DEF KeptAt
      <4>2. Taken(c, d)' /\ backend = "memory" => KeptAt(stored["l1"], d)'
        BY <1>5 DEF KeptAt
      <4> QED
        BY <3>3, <4>1, <4>2
    <3>5. ASSUME NEW e \in MemoryCalls, Appends(e)'
          PROVE  KeptAt(remember[e].holds["l1"], d)' \/ Taken(e, d)'
      <4>0. PICK i : i = remember[e].holds["l1"]
        OBVIOUS
      <4>1. Appends(e) /\ remember'[e].holds["l1"] = i /\ i \in TierHolders
        BY <4>0, <1>1, <1>2, <3>5, HeldTyped, TierSets DEF MemoryInv, TierInv
      <4>2. KeptAt(i, d) \/ Taken(e, d)
        BY <4>0, <3>2, <4>1
      <4>3. CASE KeptAt(i, d)
        <5>1. KeptAt(i, d)' \/ (i = h /\ Taken(c, d)')
          BY <1>4, <4>1, <4>3
        <5>2. CASE i = h /\ Taken(c, d)'
          <6>1. CASE backend = "memory"
            BY <1>5, <4>1, <5>2, <6>1 DEF KeptAt
          <6>2. CASE backend = "disk"
            <7>1. i = e
              BY <4>0, <4>1, <6>2 DEF MemoryInv, OwnArrays
            <7> QED
              BY <3>3, <5>2, <6>2, <7>1
          <6> QED
            BY <3>3, <6>1, <6>2
        <5>3. CASE KeptAt(i, d)'
          BY <4>1, <5>3 DEF KeptAt
        <5> QED
          BY <5>1, <5>2, <5>3
      <4>4. CASE Taken(e, d)
        BY <1>3, <4>4
      <4> QED
        BY <4>2, <4>3, <4>4
    <3> QED
      BY <1>1, <3>2, <3>4, <3>5
  <2> QED
    BY <2>4, <2>5 DEF WrittenKept, KeptAt
<1> QED
  BY <1>6, <1>7 DEF MemoryInv

\* and writes the array.
LEMMA MemoryWrite ==
    ASSUME MemoryInv, TierInv', NEW c \in MemoryCalls, Tiers!Write(c)
    PROVE  MemoryInv'
<1> DEFINE mine == remember[c].holds["l1"]
           kept == IF backend = "memory" THEN mine ELSE "store"
<1>1. /\ remember[c].at = "write" /\ heap' = [heap EXCEPT !["l1"][kept] = heap["l1"][mine]]
      /\ stored' = [stored EXCEPT !["l1"] = kept]
      /\ remember' = [remember EXCEPT ![c].at = "done"]
      /\ UNCHANGED <<backend, overlaps>>
  BY DEF Tiers!Write
<1>2. /\ remember \in [MemoryCalls -> TierCalls] /\ remember[c] \in TierCalls
      /\ heap \in TierHeaps /\ mine \in TierHolders /\ Op[c] = "append"
      /\ heap["l1"][mine] \in Seq(Tiers!Items) /\ backend \in {"memory", "disk"}
      /\ stored \in [Tiers!Cells -> TierHolders \cup {None}]
  BY <1>1, HeldTyped, TierSets DEF MemoryInv, TierInv, TierTypes, TierOps, Tiers!Held
<1> HIDE DEF mine
<1>3. kept \in TierHolders /\ kept # None
      /\ (backend = "memory" => kept = mine) /\ (backend = "disk" => kept = "store")
  BY <1>2, TierBounds DEF TierHolders
<1> HIDE DEF kept
<1>4. /\ heap'["l1"][kept] = heap["l1"][mine]
      /\ \A i \in TierHolders : i # kept => heap'["l1"][i] = heap["l1"][i]
  <2>1. heap' = WithArray(heap, "l1", kept, heap["l1"][mine])
    BY <1>1 DEF WithArray
  <2> QED
    BY <1>2, <1>3, <2>1, MessagesEdited
<1>5. stored'["l1"] = kept
  BY <1>1, <1>2, TierSets
<1>6. /\ \A b \in MemoryCalls : /\ b # c => remember'[b] = remember[b]
                                /\ remember'[b].holds["l1"] = remember[b].holds["l1"]
      /\ remember'[c].at = "done" /\ remember'[c].batch = remember[c].batch
  BY <1>1, <1>2 DEF TierCalls
<1>7. Appends(c) /\ \A d \in MemoryCalls : Appends(d)' <=> Appends(d) /\ d # c
  BY <1>1, <1>2, <1>6 DEF Appends
<1>8. \A b, d \in MemoryCalls : /\ Taken(b, d) => Taken(b, d)'
                                /\ TakenUp(b, d) => TakenUp(b, d)'
  BY <1>1, <1>6, StaysTaken
<1>9. \A d \in MemoryCalls : Taken(c, d) => TakenUp(c, d)'
  BY <1>6, <1>8 DEF TakenUp
<1>10. \A d \in MemoryCalls : KeptAt(mine, d) \/ Taken(c, d) => KeptAt(kept, d)'
  <2>1. ASSUME NEW d \in MemoryCalls, Present(heap["l1"][mine], d)
        PROVE  Present(heap'["l1"][kept], d)
    BY <1>4, <2>1
  <2>2. ASSUME NEW d \in MemoryCalls, KeptAt(mine, d) \/ Taken(c, d)
        PROVE  Present(heap'["l1"][kept], d) \/ \E b \in MemoryCalls : TakenUp(b, d)'
    BY <1>8, <1>9, <2>1, <2>2 DEF KeptAt
  <2>3. kept' = kept
    BY <1>1, <1>6, <1>2 DEF kept, mine
  <2> QED
    BY <2>2, <2>3 DEF KeptAt
<1>11. OverlapsSeen' /\ OwnArrays' /\ AtomsApart'
  BY <1>1, <1>6, <1>7 DEF MemoryInv, OverlapsSeen, OwnArrays, AtomsApart
<1>12. AloneKept'
  <2>1. SUFFICES ASSUME Tiers!NeverCleared', NEW d \in MemoryCalls, d \notin overlaps'
                 PROVE  PushedKept(d)' /\ WrittenKept(d)'
    BY DEF AloneKept
  <2>2. Tiers!NeverCleared
    BY <1>2, <1>6, <2>1 DEF Tiers!NeverCleared
  <2>3. PushedKept(d) /\ WrittenKept(d)
    BY <1>1, <2>1, <2>2 DEF MemoryInv, AloneKept
  <2>4. \A e \in MemoryCalls : Appends(e) /\ e # d => ~Appends(d)
    BY <1>1, <2>1 DEF MemoryInv, OverlapsSeen
  <2>5. PushedKept(d)'
    BY <1>7, <2>4 DEF PushedKept
  <2>6. ASSUME Op[d] = "append", remember'[d].at = "done"
        PROVE  /\ stored'["l1"] # None /\ KeptAt(kept, d)'
               /\ \A e \in MemoryCalls :
                     Appends(e)' => KeptAt(remember[e].holds["l1"], d)' \/ Taken(e, d)'
    <3>1. CASE d = c
      <4>1. Present(heap["l1"][mine], c) \/ Taken(c, c)
        BY <1>1, <1>7, <2>3, <3>1 DEF PushedKept, mine
      <4>2. KeptAt(kept, d)'
        BY <1>10, <3>1, <4>1 DEF KeptAt
      <4>3. \A e \in MemoryCalls : ~Appends(e)'
        BY <1>7, <2>4, <3>1
      <4> QED
        BY <1>3, <1>5, <4>2, <4>3
    <3>2. CASE d # c
      <4>1. \A e \in MemoryCalls :
                Appends(e) => KeptAt(remember[e].holds["l1"], d) \/ Taken(e, d)
        BY <1>6, <2>3, <2>6, <3>2 DEF WrittenKept
      <4>2. KeptAt(kept, d)'
        BY <1>7, <1>10, <4>1 DEF mine
      <4>3. ASSUME NEW e \in MemoryCalls, Appends(e)'
            PROVE  KeptAt(remember[e].holds["l1"], d)' \/ Taken(e, d)'
        <5> DEFINE i == remember[e].holds["l1"]
        <5>1. Appends(e) /\ e # c /\ remember'[e].holds["l1"] = i /\ i \in TierHolders
          BY <1>6, <1>7, <4>3, HeldTyped, TierSets DEF MemoryInv, TierInv
        <5>2. heap'["l1"][i] = heap["l1"][i]
          <6>1. backend = "disk" => i # kept
            BY <1>3, <5>1, TierBounds DEF MemoryInv, OwnArrays
          <6> QED
            BY <1>2, <1>3, <1>4, <5>1, <6>1
        <5>3. KeptAt(i, d) => KeptAt(i, d)'
          BY <1>8, <5>1, <5>2 DEF KeptAt
        <5> QED
          BY <1>8, <4>1, <5>1, <5>3
      <4> QED
        BY <1>3, <1>5, <4>2, <4>3
    <3> QED
      BY <3>1, <3>2
  <2>7. kept' = stored'["l1"]
    BY <1>1, <1>2, <1>5, <1>6 DEF kept, mine
  <2> QED
    BY <2>5, <2>6, <2>7 DEF WrittenKept, KeptAt
<1> QED
  BY <1>11, <1>12 DEF MemoryInv

\* The other steps are aside.
LEMMA MemoryRest ==
    ASSUME MemoryInv, TierInv', NEW c \in MemoryCalls,
           \/ Tiers!SetAtom(c) \/ Tiers!Compressed(c) \/ Tiers!Merge(c) \/ Tiers!StoreAtom(c)
           \/ Tiers!Index(c) \/ Tiers!CompressorFails(c) \/ Tiers!Clear(c)
    PROVE  MemoryInv'
<1>1. /\ remember \in [MemoryCalls -> TierCalls] /\ remember[c] \in TierCalls /\ heap \in TierHeaps
      /\ stored \in [Tiers!Cells -> TierHolders \cup {None}] /\ TierOps
      /\ "l1" \in Tiers!Cells /\ "l2" \in Tiers!Cells /\ "l1" # "l2"
  BY TierSets DEF MemoryInv, TierInv, TierTypes
<1>2. CASE Tiers!SetAtom(c) \/ Tiers!Compressed(c)
  <2>1. PICK next \in {"merge", "atom"} :
           /\ Tiers!Get(c, "l2", next) /\ UNCHANGED <<backend, stored, overlaps>>
           /\ remember[c].at \in {"idle", "compress"}
           /\ Op[c] = "append" => remember[c].at = "compress" /\ next = "merge"
    BY <1>2 DEF Tiers!SetAtom, Tiers!Compressed
  <2>2. /\ \A b \in MemoryCalls : b # c => remember'[b] = remember[b]
        /\ remember'[c].at = next /\ remember'[c].batch = remember[c].batch
        /\ heap'["l1"] = heap["l1"] /\ remember'[c].holds["l1"] = remember[c].holds["l1"]
    BY <1>1, <2>1, GetFacts DEF MemoryInv
  <2>3. Op[c] = "append" => remember'[c].at \notin {"done", "atom"} /\ Appends(c) /\ remember[c].at # "push"
    BY <2>1, <2>2 DEF Appends
  <2> QED
    BY <2>1, <2>2, <2>3, MemoryAside
<1>3. CASE Tiers!Merge(c) \/ Tiers!StoreAtom(c)
  <2> DEFINE atoms == IF Tiers!Merge(c) THEN Tiers!Held(c, "l2") \o remember[c].batch
                      ELSE Append(Tiers!Held(c, "l2"), c)
             a == remember[c].holds["l2"]
             b == Tiers!Holding(c)
  <2>1. PICK to \in {"index", "done"}, v \in Seq(Tiers!Items) :
           /\ remember[c].at \in {"merge", "atom"} /\ UNCHANGED <<backend, overlaps>>
           /\ remember[c].at = "atom" \/ to = "index"
           /\ heap' = [heap EXCEPT !["l2"][a] = v, !["l2"][b] = Tiers!Trimmed(v)]
           /\ stored' = [stored EXCEPT !["l2"] = b]
           /\ remember' = [remember EXCEPT ![c].at = to]
           /\ to = "done" => remember[c].at = "atom"
    <3>1. /\ Tiers!Held(c, "l2") \in Seq(Tiers!Items) /\ remember[c].batch \in Seq(Tiers!Items)
          /\ c \in Tiers!Items
      BY <1>1, HeldTyped, TierSets DEF MemoryInv, TierInv
    <3>2. CASE Tiers!Merge(c)
      <4>1. Tiers!Held(c, "l2") \o remember[c].batch \in Seq(Tiers!Items)
        BY <3>1
      <4> QED
        BY <3>2, <4>1 DEF Tiers!Merge, Tiers!Continues
    <3>3. CASE Tiers!StoreAtom(c)
      <4>1. Append(Tiers!Held(c, "l2"), c) \in Seq(Tiers!Items)
        BY <3>1
      <4> QED
        BY <3>3, <4>1 DEF Tiers!StoreAtom, Tiers!Continues
    <3> QED
      BY <1>3, <3>2, <3>3
  <2>2. /\ \A d \in MemoryCalls : d # c => remember'[d] = remember[d]
        /\ remember'[c].at = to /\ remember'[c].batch = remember[c].batch
        /\ remember'[c].holds = remember[c].holds
    BY <1>1, <2>1 DEF TierCalls
  <2>3. heap'["l1"] = heap["l1"] /\ stored'["l1"] = stored["l1"]
    <3> HIDE DEF a, b
    <3> QED
      BY <1>1, <2>1 DEF TierHeaps
  <2>4. Op[c] = "append" => remember'[c].at \notin {"done", "atom"} /\ Appends(c) /\ remember[c].at # "push"
    BY <1>1, <2>1, <2>2 DEF Appends, MemoryInv, AtomsApart
  <2> QED
    BY <2>1, <2>2, <2>3, <2>4, MemoryAside
<1>4. CASE Tiers!Index(c) \/ Tiers!CompressorFails(c) \/ Tiers!Clear(c)
  <2>1. PICK to \in {"write", "failed", "clearing", "done"} :
           /\ remember' = [remember EXCEPT ![c].at = to] /\ UNCHANGED <<backend, overlaps, heap>>
           /\ remember[c].at # "done"
           /\ Op[c] # "clear" => remember[c].at \in {"compress", "index"} /\ stored' = stored /\ to # "done"
    <3>1. CASE Tiers!Index(c)
      BY <3>1 DEF Tiers!Index
    <3>2. CASE Tiers!CompressorFails(c)
      BY <3>2 DEF Tiers!CompressorFails
    <3>3. CASE Tiers!Clear(c)
      BY <3>3 DEF Tiers!Clear
    <3> QED
      BY <1>4, <3>1, <3>2, <3>3
  <2>2. /\ \A d \in MemoryCalls : d # c => remember'[d] = remember[d]
        /\ remember'[c].at = to /\ remember'[c].batch = remember[c].batch
        /\ remember'[c].holds = remember[c].holds
    BY <1>1, <2>1 DEF TierCalls
  <2>3. Op[c] = "append" => remember'[c].at \notin {"done", "atom"} /\ Appends(c) /\ remember[c].at # "push"
    BY <2>1, <2>2 DEF Appends
  <2> QED
    BY <2>1, <2>2, <2>3, MemoryAside
<1> QED
  BY <1>2, <1>3, <1>4

\* Nothing else counts.
LEMMA MemoryStutters == MemoryInv /\ UNCHANGED memoryVars => MemoryInv'
<1> SUFFICES ASSUME MemoryInv, UNCHANGED memoryVars PROVE MemoryInv'
  OBVIOUS
<1>1. TierInv'
  BY TierStutters DEF MemoryInv
<1>2. (OverlapsSeen /\ OwnArrays /\ AtomsApart /\ AloneKept)'
  BY DEF memoryVars, MemoryInv, OverlapsSeen, OwnArrays, AtomsApart, AloneKept, PushedKept, WrittenKept,
         KeptAt, TakenUp, Taken, Present, Appends, Tiers!NeverCleared
<1> QED
  BY <1>1, <1>2 DEF MemoryInv

\* Every step keeps both invariants.
LEMMA MemoryNext == MemoryInv /\ Tiers!MNext => MemoryInv'
<1> SUFFICES ASSUME MemoryInv, Tiers!MNext PROVE MemoryInv'
  OBVIOUS
<1>1. TierInv'
  BY TierNext DEF MemoryInv
<1>2. PICK c \in MemoryCalls :
         Tiers!AppendMessage(c) \/ Tiers!SetAtom(c) \/ Tiers!Clear(c) \/ Tiers!Continue(c)
  BY DEF Tiers!MNext
<1> QED
  BY <1>1, <1>2, MemoryAppend, MemoryPush, MemoryWrite, MemoryRest DEF Tiers!Continue

\* which has the properties of the memory.
LEMMA TierTyped == MemoryInv => Tiers!MTypeOK /\ Tiers!TieredSafe
<1> SUFFICES ASSUME MemoryInv PROVE Tiers!MTypeOK /\ Tiers!TieredSafe
  OBVIOUS
<1>1. Tiers!MTypeOK
  BY TierSets DEF MemoryInv, TierInv, TierTypes, TierHeaps, TierCalls, Tiers!MTypeOK, OverlapsSeen
<1>2. Tiers!TiersBounded
  <2>1. Len(Tiers!Stored("l1")) <= MaxMessages
    <3>1. stored["l1"] \in TierHolders \cup {None}
      BY TierSets DEF MemoryInv, TierInv, TierTypes
    <3> QED
      BY <3>1, TierBounds DEF MemoryInv, TierInv, L1Bounded, Tiers!Stored
  <2> QED
    BY <2>1 DEF MemoryInv, TierInv, L2Bounded, Tiers!TiersBounded
<1>3. ASSUME Shared, NEW c \in MemoryCalls, Op[c] = "append",
             remember[c].at \notin {"idle", "push"}
      PROVE  Tiers!Cardinality({b \in MemoryCalls : c \in Tiers!Batch(b)})
             = IF Tiers!Contains(Tiers!Stored("l1"), c) THEN 0 ELSE 1
  <2> DEFINE B == {b \in MemoryCalls : c \in Tiers!Batch(b)}
  <2>1. SharedHolds /\ OnceTaken /\ AppendedKept
    BY <1>3 DEF MemoryInv, TierInv, HistoryKept
  <2>2. Tiers!Contains(Tiers!Stored("l1"), c) <=> Present(heap["l1"]["store"], c)
    BY <2>1, TierBounds DEF SharedHolds, Tiers!Stored, Tiers!Contains, Present, TierHolders
  <2>3. \A b \in MemoryCalls : c \in Tiers!Batch(b) <=> Taken(b, c)
    <3>1. ASSUME NEW b \in MemoryCalls
          PROVE  c \in Tiers!Batch(b) <=> Taken(b, c)
      <4>1. remember[b].batch \in Seq(Tiers!Items)
        BY HeldTyped, TierSets DEF MemoryInv, TierInv
      <4> QED
        BY <4>1 DEF Tiers!Batch, Tiers!ToSet, Taken, Present
    <3> QED
      BY <3>1
  <2>4. Tiers!Cardinality(B) = Cardinality(B)
    BY DEF Tiers!Cardinality, Cardinality
  <2>5. CASE Present(heap["l1"]["store"], c)
    <3>1. B = {}
      BY <2>1, <2>3, <2>5 DEF OnceTaken
    <3> QED
      BY <2>2, <2>4, <2>5, <3>1, FS_EmptySet
  <2>6. CASE ~Present(heap["l1"]["store"], c)
    <3>1. PICK b \in MemoryCalls : Taken(b, c)
      BY <1>3, <2>1, <2>6 DEF AppendedKept
    <3>2. B = {b}
      BY <2>1, <2>3, <3>1 DEF OnceTaken
    <3>3. Cardinality(B) = 1
      BY <3>2, FS_Singleton
    <3> QED
      BY <2>2, <2>4, <2>6, <3>3
  <2> QED
    BY <2>5, <2>6
<1>4. Tiers!SharedHistoryKept
  BY <1>3 DEF Tiers!SharedHistoryKept, Tiers!NeverCleared, Shared
<1>5. ASSUME Tiers!NeverCleared, NEW c \in MemoryCalls \ overlaps,
             Op[c] = "append", remember[c].at = "done"
      PROVE  \/ Tiers!Contains(Tiers!Stored("l1"), c)
             \/ \E b \in MemoryCalls :
                   c \in Tiers!Batch(b) /\ (backend = "disk" => remember[b].at = "done")
  <2>1. stored["l1"] # None /\ KeptAt(stored["l1"], c)
    BY <1>5 DEF MemoryInv, AloneKept, WrittenKept
  <2>2. CASE Present(heap["l1"][stored["l1"]], c)
    BY <2>1, <2>2 DEF Tiers!Stored, Tiers!Contains, Present
  <2>3. ASSUME NEW b \in MemoryCalls, TakenUp(b, c)
        PROVE  c \in Tiers!Batch(b) /\ (backend = "disk" => remember[b].at = "done")
    <3>1. remember[b].batch \in Seq(Tiers!Items)
      BY HeldTyped, TierSets DEF MemoryInv, TierInv
    <3> QED
      BY <2>3, <3>1 DEF TakenUp, Taken, Present, Tiers!Batch, Tiers!ToSet
  <2> QED
    BY <2>1, <2>2, <2>3 DEF KeptAt
<1>6. Tiers!RemembersOneByOne
  BY <1>5 DEF Tiers!RemembersOneByOne
<1> QED
  BY <1>1, <1>2, <1>4, <1>6 DEF Tiers!TieredSafe

(***************************************************************************)
(* The skill registry: a name that is registered and not indexed is one    *)
(* that a reload or a registration is about to index, or that the index    *)
(* has let go of.                                                          *)
(***************************************************************************)
\* What a reload and a registration are.
SkillReloads == [state : Skills!ReloadStates, todo : Seq(Names)]
SkillCalls == [state : Skills!CallStates, awaits : Reloads]

\* The types.
SkillTypes ==
    /\ skillFiles \in SUBSET Names /\ skills \in SUBSET Names /\ patterns \in SUBSET Names
    /\ vectors \in [Names -> Skills!Kinds \cup {None}] /\ onDisk \in SUBSET Names
    /\ evicted \in SUBSET Names
    /\ loaded \in Reloads /\ reload \in [Reloads -> SkillReloads]
    /\ register \in [Registrations -> SkillCalls]
    /\ reloadTimer \in BOOLEAN /\ closed \in BOOLEAN /\ changes \in 0..MaxChanges

\* Who is still to index a name: a reload that embeds it, or a registration
\* that has put it into its map.
EmbeddedBy(n, r) ==
    reload[r].state = "embedding" /\ Head(reload[r].todo) = n
RegisteredBy(n, c) ==
    /\ Plan[c].name = n
    /\ \/ register[c].state = "embedding"
       \/ register[c].state = "awaiting" /\ Plan[c].kind = "pattern"

\* A registered name is indexed, or has been since and was let go of, or someone
\* is still to index it;
Found(n) == vectors[n] # None \/ n \in evicted
SkillsCovered ==
    \A n \in skills \cup patterns :
        \/ Found(n)
        \/ \E r \in Reloads : EmbeddedBy(n, r)
        \/ \E c \in Registrations : RegisteredBy(n, c)

\* a reload that embeds has a name to embed.
ReloadsHaveNames ==
    \A r \in Reloads : reload[r].state = "embedding" => reload[r].todo # <<>>

\* The index has no more names than it has room for.
IndexRoom == Skills!Cardinality(Skills!Held) <= MaxSize

\* The invariant of the registry.
SkillInv == SkillTypes /\ SkillsCovered /\ ReloadsHaveNames /\ IndexRoom

\* The limits of the registry.
LEMMA SkillBounds ==
    /\ IsFiniteSet(Names) /\ 1 \in Reloads /\ MaxChanges \in Nat
    /\ None \notin Skills!Kinds
    /\ Plan \in [Registrations -> [kind : Skills!Kinds, name : Names]]
    /\ MaxSize \in Nat /\ MaxSize # 0
    /\ Disks \subseteq [files : SUBSET Names, saved : SUBSET Names]
    /\ \A disk \in Disks : Cardinality(disk.saved) <= MaxSize
BY ServicesAssumption DEF Skills!RegistryBounds, Skills!IsFiniteSet, IsFiniteSet,
                          Skills!Cardinality, Cardinality

\* The sizes of sets of names.
LEMMA NamesCounted ==
    ASSUME NEW S \in SUBSET Names
    PROVE  /\ IsFiniteSet(S) /\ Cardinality(S) \in Nat /\ Skills!Cardinality(S) = Cardinality(S)
           /\ \A T \in SUBSET S : /\ Cardinality(T) \in Nat /\ Cardinality(T) <= Cardinality(S)
                                 /\ Cardinality(S \ T) = Cardinality(S) - Cardinality(T)
<1>1. IsFiniteSet(S)
  BY SkillBounds, FS_Subset
<1>2. Cardinality(S) \in Nat
  BY <1>1, FS_CardinalityType
<1>3. Skills!Cardinality(S) = Cardinality(S)
  BY DEF Skills!Cardinality, Cardinality
<1>4. ASSUME NEW T \in SUBSET S
      PROVE  /\ Cardinality(T) \in Nat /\ Cardinality(T) <= Cardinality(S)
             /\ Cardinality(S \ T) = Cardinality(S) - Cardinality(T)
  <2>1. IsFiniteSet(T) /\ Cardinality(T) <= Cardinality(S)
    BY <1>1, FS_Subset
  <2>2. Cardinality(T) \in Nat
    BY <2>1, FS_CardinalityType
  <2>3. S \cap T = T
    OBVIOUS
  <2>4. Cardinality(S \ T) = Cardinality(S) - Cardinality(S \cap T)
    BY <1>1, FS_Difference
  <2> QED
    BY <2>1, <2>2, <2>3, <2>4
<1> QED
  BY <1>1, <1>2, <1>3, <1>4

\* There is room while no name is added;
LEMMA RoomKept ==
    ASSUME IndexRoom, (Skills!Held)' \subseteq Skills!Held
    PROVE  IndexRoom'
<1> DEFINE S == Skills!Held
           T == {n \in Names : vectors'[n] # None}
<1>1. S \in SUBSET Names /\ T \in SUBSET S /\ T \in SUBSET Names
  BY DEF Skills!Held
<1>2. Skills!Cardinality(S) <= MaxSize
  BY DEF IndexRoom
<1>3. Skills!Cardinality((Skills!Held)') = Cardinality(T)
  BY DEF Skills!Held, Skills!Cardinality, Cardinality
<1>4. Cardinality(T) <= MaxSize
  <2> HIDE DEF S, T
  <2>1. Cardinality(S) \in Nat /\ Skills!Cardinality(S) = Cardinality(S)
        /\ Cardinality(T) \in Nat /\ Cardinality(T) <= Cardinality(S)
    BY <1>1, NamesCounted
  <2> QED
    BY <1>2, <2>1, SkillBounds
<1> QED
  BY <1>3, <1>4 DEF IndexRoom, Skills!Cardinality, Cardinality

\* and when one is added, something else is let go of.
LEMMA NameIndexed ==
    ASSUME SkillTypes, IndexRoom, NEW name \in Names, NEW kind \in Skills!Kinds,
           Skills!IndexSkill(name, kind)
    PROVE  /\ vectors' \in [Names -> Skills!Kinds \cup {None}] /\ evicted' \in SUBSET Names
           /\ Found(name)' /\ \A n \in Names : Found(n) => Found(n)'
           /\ IndexRoom'
<1> DEFINE S == Skills!Held \cup {name}
<1>1. PICK out \in SUBSET (Skills!Held \ {name}) :
         /\ Skills!Cardinality(out) = Skills!Excess(S)
         /\ vectors' = [Skills!Unindexed(out) EXCEPT ![name] = kind]
         /\ evicted' = (evicted \ {name}) \cup out
  BY DEF Skills!IndexSkill
<1>2. /\ vectors \in [Names -> Skills!Kinds \cup {None}] /\ evicted \in SUBSET Names
      /\ out \in SUBSET Names /\ kind # None
  BY SkillBounds DEF SkillTypes, Skills!Held
<1>3. /\ vectors' \in [Names -> Skills!Kinds \cup {None}] /\ vectors'[name] = kind
      /\ \A n \in Names : n # name => vectors'[n] = IF n \in out THEN None ELSE vectors[n]
  BY <1>1, <1>2 DEF Skills!Unindexed
<1>4. evicted' \in SUBSET Names /\ Found(name)' /\ \A n \in Names : Found(n) => Found(n)'
  BY <1>1, <1>2, <1>3 DEF Found
<1>5. (Skills!Held)' = S \ out
  BY <1>1, <1>2, <1>3 DEF Skills!Held
<1>6. Cardinality(S \ out) <= MaxSize
  <2>1. S \in SUBSET Names /\ out \in SUBSET S
    BY DEF Skills!Held
  <2> HIDE DEF S
  <2>2. /\ Cardinality(S) \in Nat /\ Skills!Cardinality(S) = Cardinality(S)
        /\ Cardinality(out) \in Nat /\ Cardinality(S \ out) = Cardinality(S) - Cardinality(out)
        /\ Skills!Cardinality(out) = Cardinality(out)
    BY <1>2, <2>1, NamesCounted
  <2>3. Cardinality(out) = IF Cardinality(S) > MaxSize THEN Cardinality(S) - MaxSize ELSE 0
    BY <1>1, <2>2 DEF Skills!Excess
  <2> QED
    BY <2>2, <2>3, SkillBounds
<1>7. IndexRoom'
  <2> DEFINE T == S \ out
  <2>1. Skills!Cardinality((Skills!Held)') = Cardinality(T)
    BY <1>5 DEF Skills!Cardinality, Cardinality
  <2> QED
    BY <1>6, <2>1 DEF IndexRoom
<1> QED
  BY <1>3, <1>4, <1>7

\* A registration is of a skill or a pattern.
LEMMA PlanTyped ==
    ASSUME NEW c \in Registrations
    PROVE  Plan[c].kind \in {"skill", "pattern"} /\ Plan[c].name \in Names
BY SkillBounds DEF Skills!Kinds

\* The names of the files in some order.
LEMMA FilesInOrder ==
    ASSUME NEW S \in SUBSET Names
    PROVE  Skills!SetToSeq(S) \in Seq(Names)
<1>1. IsFiniteSet(S)
  BY SkillBounds, FS_Subset
<1>2. Cardinality(S) \in Nat /\ ExistsBijection(1..Cardinality(S), S)
  BY <1>1, FS_CardinalityType
<1> DEFINE P(f) == f \in [1..Cardinality(S) -> S] /\ \A a, b \in DOMAIN f : f[a] = f[b] => a = b
<1>3. \E f : P(f)
  BY <1>2 DEF ExistsBijection, Bijection, Injection, IsInjective
<1>4. Skills!SetToSeq(S) = CHOOSE f : P(f)
  BY DEF Skills!SetToSeq, Skills!IsInjective, Skills!Cardinality, Cardinality
<1> HIDE DEF P
<1>5. P(Skills!SetToSeq(S))
  BY <1>3, <1>4
<1>6. Skills!SetToSeq(S) \in [1..Cardinality(S) -> Names]
  BY <1>5 DEF P
<1> QED
  BY <1>2, <1>6

\* The state of a reload with names to do.
LEMMA StateWithTyped ==
    ASSUME NEW todo \in Seq(Names)
    PROVE  /\ Skills!StateWith(todo) \in SkillReloads
           /\ Skills!StateWith(todo).state = "embedding" =>
                  Skills!StateWith(todo).todo = todo /\ todo # <<>>
           /\ Skills!Loaded(todo) \in SUBSET Names
           /\ \A n \in Skills!Loaded(todo) :
                 Skills!StateWith(todo).state = "embedding" /\ n = Head(todo)
<1>1. CASE todo = <<>>
  <2>1. <<>> \in Seq(Names)
    OBVIOUS
  <2> QED
    BY <1>1, <2>1 DEF Skills!StateWith, Skills!Loaded, SkillReloads, Skills!ReloadStates
<1>2. CASE todo # <<>>
  <2>1. Head(todo) \in Names
    BY <1>2
  <2>2. Skills!StateWith(todo) = [state |-> "embedding", todo |-> todo]
        /\ Skills!Loaded(todo) = {Head(todo)}
    BY <1>2 DEF Skills!StateWith, Skills!Loaded
  <2> QED
    BY ONLY <1>2, <2>1, <2>2, todo \in Seq(Names) DEF SkillReloads, Skills!ReloadStates
<1> QED
  BY <1>1, <1>2

\* Init and every action keep the invariant of the registry.
LEMMA SkillInit == Skills!GInit => SkillInv
<1> SUFFICES ASSUME Skills!GInit PROVE SkillInv
  OBVIOUS
<1> DEFINE todo == Skills!SetToSeq(skillFiles)
<1>1. /\ skillFiles \in SUBSET Names /\ onDisk \in SUBSET Names
      /\ skills = Skills!Loaded(todo) /\ patterns = {}
      /\ vectors = [n \in Names |-> IF n \in onDisk THEN "skill" ELSE None]
      /\ loaded = 1
      /\ reload = [r \in Reloads |-> IF r = 1 THEN Skills!StateWith(todo) ELSE Skills!Idle]
      /\ register = [c \in Registrations |-> [state |-> "idle", awaits |-> 1]]
      /\ reloadTimer = FALSE /\ changes = 0 /\ closed = FALSE /\ evicted = {}
      /\ Cardinality(onDisk) <= MaxSize
  BY SkillBounds DEF Skills!GInit, Skills!LoadFromDisk
<1>2. todo \in Seq(Names)
  BY <1>1, FilesInOrder
<1> HIDE DEF todo
<1>3. Skills!Idle \in SkillReloads /\ Skills!Idle.state = "idle"
  <2>1. <<>> \in Seq(Names)
    OBVIOUS
  <2> QED
    BY <2>1 DEF Skills!Idle, SkillReloads, Skills!ReloadStates
<1>4. /\ Skills!StateWith(todo) \in SkillReloads /\ Skills!Loaded(todo) \in SUBSET Names
      /\ Skills!StateWith(todo).state = "embedding" =>
             Skills!StateWith(todo).todo = todo /\ todo # <<>>
      /\ \A n \in Skills!Loaded(todo) :
            Skills!StateWith(todo).state = "embedding" /\ n = Head(todo)
  BY <1>2, StateWithTyped
<1>5. reload \in [Reloads -> SkillReloads] /\ reload[1] = Skills!StateWith(todo)
      /\ \A r \in Reloads : r # 1 => reload[r] = Skills!Idle
  BY <1>1, <1>3, <1>4, SkillBounds
<1>6. register \in [Registrations -> SkillCalls]
  BY <1>1, SkillBounds DEF SkillCalls, Skills!CallStates
<1>7. SkillTypes
  <2>1. vectors \in [Names -> Skills!Kinds \cup {None}]
    BY <1>1 DEF Skills!Kinds
  <2>2. 0 \in 0..MaxChanges
    BY SkillBounds
  <2>3. reloadTimer \in BOOLEAN /\ closed \in BOOLEAN
    BY <1>1
  <2> QED
    BY <1>1, <1>4, <1>5, <1>6, <2>1, <2>2, <2>3, SkillBounds DEF SkillTypes
<1>8. SkillsCovered
  BY <1>1, <1>4, <1>5, SkillBounds DEF SkillsCovered, EmbeddedBy
<1>9. ReloadsHaveNames
  BY <1>3, <1>4, <1>5 DEF ReloadsHaveNames
<1>10. IndexRoom
  <2>1. Skills!Held = onDisk
    BY <1>1, SkillBounds DEF Skills!Held, Skills!Kinds
  <2> QED
    BY <1>1, <2>1, NamesCounted DEF IndexRoom
<1> QED
  BY <1>7, <1>8, <1>9, <1>10 DEF SkillInv

\* A reload begins,
LEMMA SkillReload ==
    ASSUME SkillInv, NEW r \in Reloads, Skills!Reload(r), reloadTimer' \in BOOLEAN
    PROVE  SkillInv'
<1> DEFINE todo == Skills!SetToSeq(skillFiles)
<1>1. /\ reload[r].state = "idle" /\ skills' = Skills!Loaded(todo) /\ patterns' = {}
      /\ vectors' = [n \in Names |-> IF n \in skills \cup patterns THEN None ELSE vectors[n]]
      /\ reload' = [reload EXCEPT ![r] = Skills!StateWith(todo)] /\ loaded' = r
      /\ evicted' = evicted \ (skills \cup patterns)
      /\ UNCHANGED <<skillFiles, register, changes, closed, onDisk>>
  BY DEF Skills!Reload, Skills!LoadSkillsFromDirs, Skills!Cleared, Skills!Unindexed
<1>2. todo \in Seq(Names)
  BY FilesInOrder DEF SkillInv, SkillTypes
<1> HIDE DEF todo
<1>3. /\ Skills!StateWith(todo) \in SkillReloads /\ Skills!Loaded(todo) \in SUBSET Names
      /\ Skills!StateWith(todo).state = "embedding" =>
             Skills!StateWith(todo).todo = todo /\ todo # <<>>
      /\ \A n \in Skills!Loaded(todo) :
            Skills!StateWith(todo).state = "embedding" /\ n = Head(todo)
  BY <1>2, StateWithTyped
<1>4. /\ reload' \in [Reloads -> SkillReloads] /\ reload'[r] = Skills!StateWith(todo)
      /\ \A q \in Reloads : q # r => reload'[q] = reload[q]
  BY <1>1, <1>3 DEF SkillInv, SkillTypes
<1>5. vectors' \in [Names -> Skills!Kinds \cup {None}]
  BY <1>1 DEF SkillInv, SkillTypes
<1>6. SkillTypes'
  BY <1>1, <1>3, <1>4, <1>5 DEF SkillInv, SkillTypes
<1>7. SkillsCovered'
  BY <1>1, <1>3, <1>4 DEF SkillsCovered, EmbeddedBy
<1>8. ReloadsHaveNames'
  BY <1>3, <1>4 DEF SkillInv, ReloadsHaveNames
<1>9. IndexRoom'
  <2>1. (Skills!Held)' \subseteq Skills!Held
    BY <1>1 DEF Skills!Held
  <2> QED
    BY <2>1, RoomKept DEF SkillInv
<1> QED
  BY <1>6, <1>7, <1>8, <1>9 DEF SkillInv

\* and goes on to its next name;
LEMMA SkillReloadEmbedded ==
    ASSUME SkillInv, NEW r \in Reloads, Skills!ReloadEmbedded(r)
    PROVE  SkillInv'
<1> DEFINE todo == Tail(reload[r].todo)
<1>0. PICK name : name = Head(reload[r].todo)
  OBVIOUS
<1>1. /\ reload[r].state = "embedding" /\ Skills!IndexSkill(name, "skill")
      /\ skills' = skills \cup Skills!Loaded(todo)
      /\ reload' = [reload EXCEPT ![r] = Skills!StateWith(todo)]
      /\ UNCHANGED <<skillFiles, patterns, loaded, register, reloadTimer, changes,
                     closed, onDisk>>
  BY <1>0 DEF Skills!ReloadEmbedded
<1>2. todo \in Seq(Names) /\ name \in Names
  <2>1. reload[r].todo \in Seq(Names) /\ reload[r].todo # <<>>
    BY <1>1 DEF SkillInv, SkillTypes, SkillReloads, ReloadsHaveNames
  <2> QED
    BY <1>0, <2>1
<1> HIDE DEF todo
<1>3. /\ Skills!StateWith(todo) \in SkillReloads /\ Skills!Loaded(todo) \in SUBSET Names
      /\ Skills!StateWith(todo).state = "embedding" =>
             Skills!StateWith(todo).todo = todo /\ todo # <<>>
      /\ \A n \in Skills!Loaded(todo) :
            Skills!StateWith(todo).state = "embedding" /\ n = Head(todo)
  BY <1>2, StateWithTyped
<1>4. /\ reload' \in [Reloads -> SkillReloads] /\ reload'[r] = Skills!StateWith(todo)
      /\ \A q \in Reloads : q # r => reload'[q] = reload[q]
  BY <1>1, <1>3 DEF SkillInv, SkillTypes
<1>5. /\ vectors' \in [Names -> Skills!Kinds \cup {None}] /\ evicted' \in SUBSET Names
      /\ Found(name)' /\ \A n \in Names : Found(n) => Found(n)'
      /\ IndexRoom'
  <2>1. "skill" \in Skills!Kinds
    BY DEF Skills!Kinds
  <2> QED
    BY <1>1, <1>2, <2>1, NameIndexed DEF SkillInv
<1>6. SkillTypes'
  BY <1>1, <1>3, <1>4, <1>5 DEF SkillInv, SkillTypes
<1>7. SkillsCovered'
  <2>1. ASSUME NEW n \in skills' \cup patterns'
        PROVE  \/ Found(n)'
               \/ \E q \in Reloads : EmbeddedBy(n, q)'
               \/ \E c \in Registrations : RegisteredBy(n, c)'
    <3>1. CASE n \in Skills!Loaded(todo)
      BY <1>3, <1>4, <3>1 DEF EmbeddedBy
    <3>2. CASE n \notin Skills!Loaded(todo)
      <4>1. n \in skills \cup patterns /\ n \in Names
        BY <1>1, <2>1, <3>2 DEF SkillInv, SkillTypes
      <4>2. CASE Found(n) \/ n = name
        BY <1>5, <4>1, <4>2
      <4>3. CASE \E q \in Reloads : EmbeddedBy(n, q) /\ n # name
        <5>1. PICK q \in Reloads : EmbeddedBy(n, q) /\ n # name
          BY <4>3
        <5>2. q # r
          BY <1>0, <5>1 DEF EmbeddedBy
        <5> QED
          BY <1>4, <5>1, <5>2 DEF EmbeddedBy
      <4>4. CASE \E c \in Registrations : RegisteredBy(n, c)
        BY <1>1, <4>4 DEF RegisteredBy
      <4> QED
        BY <4>1, <4>2, <4>3, <4>4 DEF SkillInv, SkillsCovered
    <3> QED
      BY <3>1, <3>2
  <2> QED
    BY <2>1 DEF SkillsCovered
<1>8. ReloadsHaveNames'
  BY <1>3, <1>4 DEF SkillInv, ReloadsHaveNames
<1> QED
  BY <1>5, <1>6, <1>7, <1>8 DEF SkillInv

\* A step of a registration: it stays one that covers its name, unless it indexes it.
LEMMA SkillCallStep ==
    ASSUME SkillInv, NEW c \in Registrations, NEW x \in SkillCalls,
           register' = [register EXCEPT ![c] = x],
           skills' \in SUBSET Names, patterns' \in SUBSET Names,
           (skills' \cup patterns') \subseteq skills \cup patterns \cup {Plan[c].name},
           vectors' \in [Names -> Skills!Kinds \cup {None}],
           evicted' \in SUBSET Names, IndexRoom',
           \A n \in Names : Found(n) => Found(n)',
           \/ Found(Plan[c].name)'
           \/ x.state = "embedding"
           \/ x.state = "awaiting" /\ Plan[c].kind = "pattern"
           \/ skills' \cup patterns' = skills \cup patterns /\ register[c].state = "idle",
           UNCHANGED <<skillFiles, loaded, reload, reloadTimer, changes, closed, onDisk>>
    PROVE  SkillInv'
<1>1. register' \in [Registrations -> SkillCalls] /\ register'[c] = x
      /\ \A b \in Registrations : b # c => register'[b] = register[b]
  BY DEF SkillInv, SkillTypes
<1>2. SkillTypes'
  BY <1>1 DEF SkillInv, SkillTypes
<1>3. ReloadsHaveNames'
  BY DEF SkillInv, ReloadsHaveNames
<1>4. SkillsCovered'
  <2>1. ASSUME NEW n \in skills' \cup patterns'
        PROVE  \/ Found(n)'
               \/ \E q \in Reloads : EmbeddedBy(n, q)'
               \/ \E b \in Registrations : RegisteredBy(n, b)'
    <3>1. CASE /\ n = Plan[c].name
               /\ \/ Found(Plan[c].name)'
                  \/ x.state = "embedding"
                  \/ x.state = "awaiting" /\ Plan[c].kind = "pattern"
      BY <1>1, <3>1 DEF RegisteredBy
    <3>2. CASE n \in skills \cup patterns /\ (n # Plan[c].name \/ register[c].state = "idle")
      <4>1. n \in Names
        BY <3>2 DEF SkillInv, SkillTypes
      <4>2. CASE Found(n)
        BY <4>1, <4>2
      <4>3. CASE \E q \in Reloads : EmbeddedBy(n, q)
        BY <4>3 DEF EmbeddedBy
      <4>4. CASE \E b \in Registrations : RegisteredBy(n, b)
        <5>1. PICK b \in Registrations : RegisteredBy(n, b)
          BY <4>4
        <5>2. b # c
          BY <3>2, <5>1 DEF RegisteredBy
        <5> QED
          BY <1>1, <5>1, <5>2 DEF RegisteredBy
      <4> QED
        BY <3>2, <4>2, <4>3, <4>4 DEF SkillInv, SkillsCovered
    <3> QED
      BY <2>1, <3>1, <3>2
  <2> QED
    BY <2>1 DEF SkillsCovered
<1> QED
  BY <1>2, <1>3, <1>4 DEF SkillInv

\* What a registration puts into a map.
LEMMA SkillPut ==
    ASSUME SkillInv, NEW c \in Registrations,
           Skills!Put(Plan[c]) \/ UNCHANGED <<skills, patterns>>
    PROVE  /\ skills' \in SUBSET Names /\ patterns' \in SUBSET Names
           /\ (skills' \cup patterns') \subseteq skills \cup patterns \cup {Plan[c].name}
<1>1. Plan[c].name \in Names /\ skills \in SUBSET Names /\ patterns \in SUBSET Names
  BY PlanTyped DEF SkillInv, SkillTypes
<1> QED
  BY <1>1 DEF Skills!Put

\* a registration begins,
LEMMA SkillRegister ==
    ASSUME SkillInv, NEW c \in Registrations, Skills!Register(c)
    PROVE  SkillInv'
<1> DEFINE x == [state |-> "awaiting", awaits |-> loaded]
<1>1. /\ register[c].state = "idle" /\ register' = [register EXCEPT ![c] = x]
      /\ UNCHANGED <<skillFiles, vectors, loaded, reload, reloadTimer, changes, closed, onDisk,
                     evicted>>
      /\ IF Plan[c].kind = "pattern" THEN Skills!Put(Plan[c]) ELSE UNCHANGED <<skills, patterns>>
  BY DEF Skills!Register, Skills!AtOnce, Skills!maps
<1>2. loaded \in Reloads /\ vectors' \in [Names -> Skills!Kinds \cup {None}]
  BY <1>1 DEF SkillInv, SkillTypes
<1>3. x \in SkillCalls /\ x.state = "awaiting"
  BY ONLY <1>2 DEF SkillCalls, Skills!CallStates
<1> HIDE DEF x
<1>4. /\ skills' \in SUBSET Names /\ patterns' \in SUBSET Names
      /\ (skills' \cup patterns') \subseteq skills \cup patterns \cup {Plan[c].name}
  BY <1>1, SkillPut
<1>5. (\A n \in Names : Found(n) => Found(n)') /\ evicted' \in SUBSET Names /\ IndexRoom'
  BY <1>1 DEF Found, SkillInv, SkillTypes, IndexRoom, Skills!Held
<1>6. CASE Plan[c].kind = "pattern"
  BY <1>1, <1>2, <1>3, <1>4, <1>5, <1>6, SkillCallStep
<1>7. CASE Plan[c].kind # "pattern"
  <2>1. skills' \cup patterns' = skills \cup patterns
    BY <1>1, <1>7
  <2> QED
    BY <1>1, <1>2, <1>3, <1>4, <1>5, <2>1, SkillCallStep
<1> QED
  BY <1>6, <1>7

\* goes on when the registry is loaded,
LEMMA SkillReady ==
    ASSUME SkillInv, NEW c \in Registrations, Skills!Ready(c)
    PROVE  SkillInv'
<1> DEFINE x == [register[c] EXCEPT !.state = "embedding"]
<1>1. /\ register' = [register EXCEPT ![c].state = "embedding"]
      /\ UNCHANGED <<skillFiles, vectors, loaded, reload, reloadTimer, changes, closed, onDisk,
                     evicted>>
      /\ Skills!Put(Plan[c]) \/ UNCHANGED <<skills, patterns>>
  BY DEF Skills!Ready, Skills!maps
<1>2. register[c] \in SkillCalls /\ vectors' \in [Names -> Skills!Kinds \cup {None}]
      /\ register' = [register EXCEPT ![c] = x]
  BY <1>1 DEF SkillInv, SkillTypes
<1>3. x \in SkillCalls /\ x.state = "embedding"
  BY ONLY <1>2 DEF SkillCalls, Skills!CallStates
<1> HIDE DEF x
<1>4. /\ skills' \in SUBSET Names /\ patterns' \in SUBSET Names
      /\ (skills' \cup patterns') \subseteq skills \cup patterns \cup {Plan[c].name}
  BY <1>1, SkillPut
<1>5. (\A n \in Names : Found(n) => Found(n)') /\ evicted' \in SUBSET Names /\ IndexRoom'
  BY <1>1 DEF Found, SkillInv, SkillTypes, IndexRoom, Skills!Held
<1> QED
  BY <1>1, <1>2, <1>3, <1>4, <1>5, SkillCallStep

\* and ends;
LEMMA SkillEmbedded ==
    ASSUME SkillInv, NEW c \in Registrations, Skills!Embedded(c)
    PROVE  SkillInv'
<1> DEFINE x == [register[c] EXCEPT !.state = "done"]
<1>1. /\ register' = [register EXCEPT ![c].state = "done"]
      /\ Skills!IndexSkill(Plan[c].name, Plan[c].kind)
      /\ UNCHANGED <<skillFiles, skills, patterns, loaded, reload, reloadTimer, changes,
                     closed, onDisk>>
  BY DEF Skills!Embedded, Skills!maps
<1>2. register[c] \in SkillCalls /\ register' = [register EXCEPT ![c] = x]
      /\ skills' \in SUBSET Names /\ patterns' \in SUBSET Names
  BY <1>1 DEF SkillInv, SkillTypes
<1>3. x \in SkillCalls
  BY ONLY <1>2 DEF SkillCalls, Skills!CallStates
<1> HIDE DEF x
<1>4. /\ vectors' \in [Names -> Skills!Kinds \cup {None}] /\ evicted' \in SUBSET Names
      /\ Found(Plan[c].name)' /\ \A n \in Names : Found(n) => Found(n)'
      /\ IndexRoom'
  <2>1. Plan[c].name \in Names /\ Plan[c].kind \in Skills!Kinds
    BY PlanTyped DEF Skills!Kinds
  <2> QED
    BY <1>1, <2>1, NameIndexed DEF SkillInv
<1>5. (skills' \cup patterns') \subseteq skills \cup patterns \cup {Plan[c].name}
  BY <1>1
<1> QED
  BY <1>1, <1>2, <1>3, <1>4, <1>5, SkillCallStep

\* a skill is removed.
LEMMA SkillUnregister ==
    ASSUME SkillInv, NEW name \in Names, Skills!Unregister(name)
    PROVE  SkillInv'
<1>1. /\ changes < MaxChanges /\ changes' = changes + 1
      /\ skills' = skills \ {name} /\ patterns' = patterns \ {name}
      /\ vectors' = [n \in Names |-> IF n \in {name} THEN None ELSE vectors[n]]
      /\ evicted' = evicted \ {name}
      /\ UNCHANGED <<skillFiles, loaded, reload, register, reloadTimer, closed, onDisk>>
  BY DEF Skills!Unregister, Skills!Unindexed
<1>2. changes' \in 0..MaxChanges
  BY <1>1, SkillBounds DEF SkillInv, SkillTypes
<1>3. /\ vectors' \in [Names -> Skills!Kinds \cup {None}]
      /\ \A n \in Names : n # name => vectors'[n] = vectors[n]
  BY <1>1 DEF SkillInv, SkillTypes
<1>4. SkillTypes'
  BY <1>1, <1>2, <1>3 DEF SkillInv, SkillTypes
<1>5. SkillsCovered' /\ ReloadsHaveNames'
  <2>1. \A n \in skills' \cup patterns' : n \in skills \cup patterns /\ n # name /\ n \in Names
    BY <1>1 DEF SkillInv, SkillTypes
  <2> QED
    BY <1>1, <1>3, <2>1
    DEF SkillInv, SkillsCovered, Found, EmbeddedBy, RegisteredBy, ReloadsHaveNames
<1>6. IndexRoom'
  <2>1. (Skills!Held)' \subseteq Skills!Held
    BY <1>1, <1>3 DEF Skills!Held
  <2> QED
    BY <2>1, RoomKept DEF SkillInv
<1> QED
  BY <1>4, <1>5, <1>6 DEF SkillInv

\* Nothing else counts.
LEMMA SkillStutters == SkillInv /\ UNCHANGED skillsVars => SkillInv'
BY DEF skillsVars, SkillInv, SkillTypes, SkillsCovered, Found, EmbeddedBy, RegisteredBy,
       ReloadsHaveNames, IndexRoom, Skills!Held

\* Every step keeps the invariant,
LEMMA SkillNext == SkillInv /\ Skills!GNext => SkillInv'
<1> SUFFICES ASSUME SkillInv, Skills!GNext PROVE SkillInv'
  OBVIOUS
<1>1. CASE Skills!Debounced
  BY <1>1, SkillReload DEF Skills!Debounced
<1>2. ASSUME NEW r \in Reloads, Skills!ReloadEmbedded(r)
      PROVE  SkillInv'
  BY <1>2, SkillReloadEmbedded
<1>3. ASSUME NEW name \in Names, Skills!EditFile(name)
      PROVE  SkillInv'
  <2>1. changes' \in 0..MaxChanges
    BY <1>3, SkillBounds DEF Skills!EditFile, SkillInv, SkillTypes
  <2>2. /\ reloadTimer' = ~closed
        /\ skillFiles' = IF name \in skillFiles THEN skillFiles \ {name} ELSE skillFiles \cup {name}
        /\ UNCHANGED <<skills, patterns, vectors, loaded, reload, register, closed, onDisk, evicted>>
    BY <1>3 DEF Skills!EditFile, Skills!maps
  <2>3. reloadTimer' \in BOOLEAN
    BY <2>2
  <2>4. SkillTypes'
    BY <1>3, <2>1, <2>2, <2>3 DEF SkillInv, SkillTypes
  <2> QED
    BY <2>2, <2>4
    DEF SkillInv, SkillsCovered, Found, EmbeddedBy, RegisteredBy, ReloadsHaveNames, IndexRoom,
        Skills!Held
<1>4. ASSUME NEW c \in Registrations,
             Skills!Register(c) \/ Skills!Ready(c) \/ Skills!Embedded(c)
      PROVE  SkillInv'
  BY <1>4, SkillRegister, SkillReady, SkillEmbedded
<1>5. ASSUME NEW name \in Names, Skills!Unregister(name)
      PROVE  SkillInv'
  BY <1>5, SkillUnregister
<1>6. CASE Skills!Dispose
  <2>1. closed' = TRUE /\ reloadTimer' = FALSE /\ onDisk' = Skills!Held
        /\ UNCHANGED <<skillFiles, skills, patterns, vectors, loaded, reload, register, changes,
                       evicted>>
    BY <1>6 DEF Skills!Dispose, Skills!maps
  <2>2. onDisk' \in SUBSET Names
    BY <2>1 DEF Skills!Held
  <2>3. closed' \in BOOLEAN /\ reloadTimer' \in BOOLEAN
    BY <2>1
  <2>4. SkillTypes'
    BY <2>1, <2>2, <2>3 DEF SkillInv, SkillTypes
  <2> QED
    BY <2>1, <2>4
    DEF SkillInv, SkillsCovered, Found, EmbeddedBy, RegisteredBy, ReloadsHaveNames, IndexRoom,
        Skills!Held
<1> QED
  BY <1>1, <1>2, <1>3, <1>4, <1>5, <1>6 DEF Skills!GNext

\* which has the property of the registry.
LEMMA SkillTyped == SkillInv => Skills!GTypeOK /\ Skills!RegistrySafe
<1> SUFFICES ASSUME SkillInv PROVE Skills!GTypeOK /\ Skills!RegistrySafe
  OBVIOUS
<1>1. ASSUME NEW r \in Reloads
      PROVE  reload[r].state \in Skills!ReloadStates /\ Skills!ToSet(reload[r].todo) \subseteq Names
  <2>1. reload[r].state \in Skills!ReloadStates /\ reload[r].todo \in Seq(Names)
    BY DEF SkillInv, SkillTypes, SkillReloads
  <2> QED
    BY <2>1 DEF Skills!ToSet
<1>2. Skills!GTypeOK
  BY <1>1 DEF SkillInv, SkillTypes, SkillCalls, Skills!GTypeOK
<1>3. Skills!EverySkillIndexed
  BY DEF SkillInv, SkillsCovered, Found, EmbeddedBy, RegisteredBy, Skills!EverySkillIndexed,
         Skills!Settled
<1> QED
  BY <1>2, <1>3 DEF SkillInv, IndexRoom, Skills!RegistrySafe

(***************************************************************************)
(* All the services: the one that runs keeps its invariant.                *)
(***************************************************************************)
ServicesInv ==
    /\ Runs("mcp") => McpInv
    /\ Runs("auth") => AuthInv
    /\ Runs("workers") => WorkersInv
    /\ Runs("handoff") => HandoffInv
    /\ Runs("react") => ReactInv
    /\ Runs("sessions") => SessionInv
    /\ Runs("memory") => MemoryInv
    /\ Runs("skills") => SkillInv

\* The invariant of the service that runs holds in every state of every behaviour.
THEOREM Invariance == Spec => []ServicesInv
<1>1. Init => ServicesInv
  BY McpInit, AuthInit, WorkersInit, HandoffInit, ReactInit, SessionInit, MemoryInit, SkillInit
     DEF Init, ServicesInv, Runs
<1>2. ServicesInv /\ [Next]_vars => ServicesInv'
  <2> SUFFICES ASSUME ServicesInv, [Next]_vars PROVE ServicesInv'
    OBVIOUS
  <2>1. UNCHANGED service
    BY DEF Next, vars
  <2>2. (Runs("mcp") => McpInv)'
    BY <2>1, McpNext, McpStutters DEF Next, vars, ServicesInv, Runs
  <2>3. (Runs("auth") => AuthInv)'
    BY <2>1, AuthNext, AuthStutters DEF Next, vars, ServicesInv, Runs
  <2>4. (Runs("workers") => WorkersInv)'
    BY <2>1, WorkersNext, WorkersStutter DEF Next, vars, ServicesInv, Runs
  <2>5. (Runs("handoff") => HandoffInv)'
    BY <2>1, HandoffNext, HandoffStutters DEF Next, vars, ServicesInv, Runs
  <2>6. (Runs("react") => ReactInv)'
    BY <2>1, ReactNext, ReactStutters DEF Next, vars, ServicesInv, Runs
  <2>7. (Runs("sessions") => SessionInv)'
    BY <2>1, SessionNext, SessionStutters DEF Next, vars, ServicesInv, Runs
  <2>8. (Runs("memory") => MemoryInv)'
    BY <2>1, MemoryNext, MemoryStutters DEF Next, vars, ServicesInv, Runs
  <2>9. (Runs("skills") => SkillInv)'
    BY <2>1, SkillNext, SkillStutters DEF Next, vars, ServicesInv, Runs
  <2> QED
    BY <2>2, <2>3, <2>4, <2>5, <2>6, <2>7, <2>8, <2>9 DEF ServicesInv
<1> QED
  BY <1>1, <1>2, PTL DEF Spec

\* Every variable of the service that runs has a value of its type, whatever
\* the limits (mcp/, harness/workerEngine.ts, swarm/, graph/create-agent.ts,
\* session/, memory/, skills/).
THEOREM TypeCorrect == Spec => []ServicesTypeOK
<1>1. ServicesInv => ServicesTypeOK
  BY McpTyped, AuthTyped, WorkersTyped, HandoffTyped, ReactTyped, SessionTyped, TierTyped, SkillTyped
     DEF ServicesInv, ServicesTypeOK
<1> QED
  BY Invariance, <1>1, PTL

\* A connection that is listed is checked, a caller is not given one of an old
\* configuration, reconnecting stops, the file of the tokens can be read and has
\* the token last stored, whatever overlaps (mcp/client.ts, mcp/auth.ts).
THEOREM ConnectionsAreSafe == Spec => []ConnectionsSafe
<1>1. ServicesInv => ConnectionsSafe
  BY McpTyped, AuthTyped DEF ServicesInv, ConnectionsSafe
<1> QED
  BY Invariance, <1>1, PTL

\* Workers are within the limit and see the stages before them, a swarm that
\* goes round in circles is stopped, a trace is flushed, a tool waits for its
\* approval (harness/workerEngine.ts, swarm/, graph/create-agent.ts).
THEOREM TeamsAreSafe == Spec => []TeamsSafe
<1>1. ServicesInv => TeamsSafe
  BY WorkersTyped, HandoffTyped, ReactTyped DEF ServicesInv, TeamsSafe
<1> QED
  BY Invariance, <1>1, PTL

\* The session in memory is on its way to the disk and the index agrees with the
\* files; what an append that no other overlaps has added stays in the history
\* until it is taken up, and on the array of the in-memory backend whatever
\* overlaps; a skill that is registered is in the index, unless the index has let
\* go of it, and the index stays within its size, whatever that is and however many
\* skills there are (session/manager.ts, memory/index.ts, skills/).
THEOREM RecordsAreSafe == Spec => []RecordsSafe
<1>1. ServicesInv => RecordsSafe
  BY SessionTyped, TierTyped, SkillTyped DEF ServicesInv, RecordsSafe
<1> QED
  BY Invariance, <1>1, PTL

=============================================================================
