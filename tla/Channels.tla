------------------------------ MODULE Channels ------------------------------
(***************************************************************************)
(* The EventBroadcaster of src/channels/broadcaster.ts and the SSE         *)
(* connections ChannelServer makes to it: each open request subscribes,    *)
(* for one session or for all, and unsubscribes when it closes and when it *)
(* fails, which may both happen.  A heartbeat timer runs for subscribers.  *)
(*                                                                         *)
(* An event is kept as the session it is of, None for a heartbeat.         *)
(***************************************************************************)
EXTENDS Naturals, Sequences, SequencesExt, FiniteSets

CONSTANTS Clients,    \* SSE requests
          Sessions,
          MaxEvents,  \* bound on what a client is sent
          None

ChannelsAssumption == IsFiniteSet(Clients) /\ None \notin Sessions

VARIABLES listeners,  \* clients whose handler is registered
          subscriberCount,
          heartbeat,  \* heartbeatTimer is set
          client,     \* [at, filter, got, unsubs]
          disposed

cvars == <<listeners, subscriberCount, heartbeat, client, disposed>>

CInit ==
    /\ listeners = {}
    /\ subscriberCount = 0
    /\ heartbeat = FALSE
    /\ client = [c \in Clients |-> [at |-> "none", filter |-> None, got |-> <<>>, failed |-> FALSE]]
    /\ disposed = FALSE

\* GET /events or /events/:session, with the first heartbeat.
Subscribe(c, session) ==
    /\ client[c].at = "none"
    /\ client' = [client EXCEPT ![c] =
           [at |-> "open", filter |-> session, got |-> <<None>>, failed |-> FALSE]]
    /\ listeners' = listeners \cup {c}
    /\ subscriberCount' = subscriberCount + 1
    /\ heartbeat' = TRUE
    /\ UNCHANGED disposed

\* A count that is left as it is when the last subscriber leaves.
MutCountAfter == IF subscriberCount = 1 THEN 1 ELSE subscriberCount - 1
CountAfter == IF subscriberCount = 0 THEN 0 ELSE subscriberCount - 1

Unsubscribe(c) ==
    /\ listeners' = listeners \ {c}
    /\ subscriberCount' = CountAfter
    /\ heartbeat' = (heartbeat /\ CountAfter # 0)
    /\ UNCHANGED disposed

\* The request fails: unsubscribed now, and again when it closes.
Fails(c) ==
    /\ client[c].at = "open" /\ ~client[c].failed
    /\ client' = [client EXCEPT ![c].failed = TRUE]
    /\ Unsubscribe(c)

Closes(c) ==
    /\ client[c].at = "open"
    /\ client' = [client EXCEPT ![c].at = "closed"]
    /\ Unsubscribe(c)

Passes(c, session) == client[c].filter = None \/ session \in {None, client[c].filter}

\* emit("event"): of a session that a runner broadcasts, or a heartbeat.
Emit(session) ==
    /\ session = None => heartbeat
    /\ \A c \in listeners : Len(client[c].got) < MaxEvents
    /\ client' = [c \in Clients |->
           IF c \in listeners /\ Passes(c, session)
           THEN [client[c] EXCEPT !.got = Append(@, session)] ELSE client[c]]
    /\ UNCHANGED <<listeners, subscriberCount, heartbeat, disposed>>

\* dispose(): the count is left as it is, and so are the open requests.
Dispose ==
    /\ ~disposed
    /\ disposed' = TRUE
    /\ heartbeat' = FALSE
    /\ listeners' = {}
    /\ UNCHANGED <<subscriberCount, client>>

CNext ==
    \/ \E c \in Clients, session \in Sessions \cup {None} : Subscribe(c, session)
    \/ \E c \in Clients : Fails(c) \/ Closes(c)
    \/ \E session \in Sessions \cup {None} : Emit(session)
    \/ Dispose

CSpec == CInit /\ [][CNext]_cvars

-----------------------------------------------------------------------------
(***************************************************************************)
(* Properties                                                              *)
(***************************************************************************)
CTypeOK ==
    /\ listeners \subseteq Clients /\ subscriberCount \in 0..Cardinality(Clients)
    /\ {heartbeat, disposed} \subseteq BOOLEAN
    /\ \A c \in Clients : /\ client[c].at \in {"none", "open", "closed"}
                          /\ client[c].filter \in Sessions \cup {None}
                          /\ ToSet(client[c].got) \subseteq Sessions \cup {None}

\* The heartbeat runs exactly while somebody listens, until a request has
\* been counted out twice or the broadcaster was disposed of.
HeartbeatWhileSubscribed ==
    ~disposed /\ (\A c \in Clients : ~client[c].failed) =>
        (heartbeat <=> listeners # {})

\* Two requests of one session see its events in one order, whenever each of
\* them began and whatever other sessions are being broadcast.
SameOrder ==
    \A c, d \in Clients :
        client[c].filter = client[d].filter /\ {c, d} \subseteq listeners =>
            \/ IsSuffix(Tail(client[c].got), client[d].got)
            \/ IsSuffix(Tail(client[d].got), client[c].got)

ChannelsSafe == HeartbeatWhileSubscribed /\ SameOrder

=============================================================================
