--------------------------- MODULE BackendsProofs ---------------------------
(***************************************************************************)
(* The invariants of the servers and of the stores hold for any clients,   *)
(* requests, tasks, threads, agents and calls on the savers, and any       *)
(* limits.                                                                 *)
(***************************************************************************)
EXTENDS Backends, FiniteSetTheorems, SequenceTheorems, TLAPS

(***************************************************************************)
(* The channels: the count of the subscribers is that of the listeners     *)
(* until a request is counted out twice, and of two requests of one        *)
(* session what one was sent ends what the other was.                      *)
(***************************************************************************)
\* What is broadcast, and what a request is.
ChannelEvents == Sessions \cup {None}
ChannelClients ==
    [at : {"none", "open", "closed"}, filter : ChannelEvents,
     got : Seq(ChannelEvents), failed : BOOLEAN]

\* The types.
ChannelTypes ==
    /\ listeners \in SUBSET Clients /\ subscriberCount \in Nat
    /\ heartbeat \in BOOLEAN /\ disposed \in BOOLEAN
    /\ client \in [Clients -> ChannelClients]

\* Who has subscribed, and who listens: requests that are open, and that have
\* been sent the first heartbeat.
Subscribed == {c \in Clients : client[c].at # "none"}
Opened == {c \in Clients : client[c].at = "open"}
ListenersOpen ==
    /\ listeners \subseteq Opened /\ \A c \in listeners : client[c].got # <<>>
    /\ \A c \in Clients : client[c].failed => client[c].at # "none"

\* A request is counted once; until one is counted out twice the count is that
\* of the listeners.
Counted == subscriberCount <= Cardinality(Subscribed)
CountExact ==
    ~disposed /\ (\A c \in Clients : ~client[c].failed) =>
        /\ listeners = Opened /\ subscriberCount = Cardinality(listeners)
        /\ heartbeat <=> listeners # {}

\* The invariant of the channels.
ChannelInv ==
    /\ ChannelTypes /\ ListenersOpen /\ Counted /\ CountExact /\ Channel!SameOrder

\* The limits of the channels; the module's own cardinality is that of FiniteSets.
LEMMA ChannelBounds ==
    /\ None \notin Sessions /\ IsFiniteSet(Clients)
    /\ Channel!Cardinality(Clients) = Cardinality(Clients)
BY BackendsAssumption DEF Channel!ChannelsAssumption, Channel!IsFiniteSet, IsFiniteSet,
   Channel!Cardinality, Cardinality

\* Sets of clients are finite.
LEMMA ClientsFinite ==
    ASSUME NEW S \in SUBSET Clients
    PROVE  /\ IsFiniteSet(S) /\ Cardinality(S) \in Nat /\ Cardinality(S) <= Cardinality(Clients)
           /\ (Cardinality(S) = 0 <=> S = {})
           /\ \A c : Cardinality(S \cup {c}) = IF c \in S THEN Cardinality(S) ELSE Cardinality(S) + 1
           /\ \A c : Cardinality(S \ {c}) = IF c \in S THEN Cardinality(S) - 1 ELSE Cardinality(S)
<1>1. IsFiniteSet(S)
  BY ChannelBounds, FS_Subset
<1> QED
  BY <1>1, ChannelBounds, FS_Subset, FS_CardinalityType, FS_EmptySet, FS_AddElement, FS_RemoveElement

\* One sequence is the end of another, read from the end.
EndOf(s, t) ==
    /\ Len(s) <= Len(t)
    /\ \A i \in 1..Len(s) : s[Len(s) - i + 1] = t[Len(t) - i + 1]

\* The community modules say the same of the reversed sequences.
LEMMA SuffixMeans ==
    ASSUME NEW S, NEW s \in Seq(S), NEW t \in Seq(S)
    PROVE  Channel!IsSuffix(s, t) <=> EndOf(s, t)
<1> DEFINE u == Channel!Reverse(s)
           v == Channel!Reverse(t)
<1>1. /\ u \in Seq(S) /\ Len(u) = Len(s) /\ \A i \in 1..Len(s) : u[i] = s[Len(s) - i + 1]
      /\ v \in Seq(S) /\ Len(v) = Len(t) /\ \A i \in 1..Len(t) : v[i] = t[Len(t) - i + 1]
  BY DEF Channel!Reverse
<1>2. Channel!IsSuffix(s, t) <=> /\ Len(u) <= Len(v)
                                 /\ SubSeq(u, 1, Len(u)) = SubSeq(v, 1, Len(u))
  BY DEF Channel!IsSuffix, Channel!IsPrefix
<1> HIDE DEF u, v
<1>3. ASSUME Len(u) <= Len(v)
      PROVE  SubSeq(u, 1, Len(u)) = SubSeq(v, 1, Len(u)) <=> \A i \in 1..Len(u) : u[i] = v[i]
  <2> DEFINE a == SubSeq(u, 1, Len(u))
             b == SubSeq(v, 1, Len(u))
  <2>1. /\ a \in Seq(S) /\ Len(a) = Len(u) /\ \A i \in 1..Len(u) : a[i] = u[i]
        /\ b \in Seq(S) /\ Len(b) = Len(u) /\ \A i \in 1..Len(u) : b[i] = v[i]
    BY <1>1, <1>3
  <2> HIDE DEF a, b
  <2>2. a = b <=> \A i \in 1..Len(u) : a[i] = b[i]
    <3>1. a \in Seq(S) /\ b \in Seq(S) /\ Len(a) = Len(b) /\ Len(a) = Len(u)
      BY <2>1
    <3>2. ASSUME \A i \in 1..Len(a) : a[i] = b[i] PROVE a = b
      BY ONLY <3>1, <3>2, SeqEqual
    <3> QED
      BY <3>1, <3>2
  <2>3. a = b <=> \A i \in 1..Len(u) : u[i] = v[i]
    BY <2>1, <2>2
  <2> QED
    BY <2>3 DEF a, b
<1>4. Len(s) <= Len(t) =>
        ((\A i \in 1..Len(u) : u[i] = v[i])
            <=> \A i \in 1..Len(s) : s[Len(s) - i + 1] = t[Len(t) - i + 1])
  <2>1. ASSUME Len(s) <= Len(t), NEW i \in 1..Len(s)
        PROVE  u[i] = s[Len(s) - i + 1] /\ v[i] = t[Len(t) - i + 1]
    BY <1>1, <2>1
  <2> QED
    BY <1>1, <2>1
<1> QED
  BY <1>1, <1>2, <1>3, <1>4 DEF EndOf

\* What is the end stays so when both get the same event.
LEMMA EndGrows ==
    ASSUME NEW S, NEW s \in Seq(S), NEW t \in Seq(S), s # <<>>, NEW x \in S,
           Channel!IsSuffix(Tail(s), t)
    PROVE  Channel!IsSuffix(Tail(Append(s, x)), Append(t, x))
<1> DEFINE p == Tail(s)
           q == Append(p, x)
           r == Append(t, x)
<1>1. p \in Seq(S) /\ Len(p) \in Nat /\ Len(t) \in Nat
  OBVIOUS
<1>2. Tail(Append(s, x)) = q
  OBVIOUS
<1>3. EndOf(p, t)
  BY <1>1, SuffixMeans
<1> HIDE DEF p
<1>4. /\ q \in Seq(S) /\ Len(q) = Len(p) + 1 /\ q[Len(p) + 1] = x
      /\ \A i \in 1..Len(p) : q[i] = p[i]
      /\ r \in Seq(S) /\ Len(r) = Len(t) + 1 /\ r[Len(t) + 1] = x
      /\ \A i \in 1..Len(t) : r[i] = t[i]
  BY <1>1
<1> HIDE DEF q, r
<1>5. ASSUME NEW i \in 1..Len(q) PROVE q[Len(q) - i + 1] = r[Len(r) - i + 1]
  <2>1. CASE i = 1
    BY <1>1, <1>4, <2>1
  <2>2. CASE i # 1
    <3> DEFINE j == i - 1
    <3>1. /\ j \in 1..Len(p) /\ Len(q) - i + 1 = Len(p) - j + 1 /\ Len(r) - i + 1 = Len(t) - j + 1
          /\ Len(p) - j + 1 \in 1..Len(p) /\ Len(t) - j + 1 \in 1..Len(t)
      BY <1>1, <1>3, <1>4, <2>2 DEF EndOf
    <3>2. p[Len(p) - j + 1] = t[Len(t) - j + 1]
      BY <1>3, <3>1 DEF EndOf
    <3> HIDE DEF j
    <3> QED
      BY <1>4, <3>1, <3>2
  <2> QED
    BY <2>1, <2>2
<1>6. EndOf(q, r)
  BY <1>1, <1>3, <1>4, <1>5 DEF EndOf
<1> QED
  BY <1>2, <1>4, <1>6, SuffixMeans DEF r

\* Init and every step keep the invariant of the channels.
LEMMA ChannelInit == Channel!CInit => ChannelInv
<1> SUFFICES ASSUME Channel!CInit PROVE ChannelInv
  OBVIOUS
<1> USE DEF Channel!CInit
<1>1. <<>> \in Seq(ChannelEvents) /\ None \in ChannelEvents /\ FALSE \in BOOLEAN
  BY DEF ChannelEvents
<1>2. [at |-> "none", filter |-> None, got |-> <<>>, failed |-> FALSE] \in ChannelClients
  BY <1>1 DEF ChannelClients
<1>3. ChannelTypes
  <2>1. client \in [Clients -> ChannelClients]
    BY <1>2
  <2>2. heartbeat \in BOOLEAN /\ disposed \in BOOLEAN
    OBVIOUS
  <2>3. listeners \in SUBSET Clients /\ subscriberCount \in Nat
    OBVIOUS
  <2> QED
    BY <2>1, <2>2, <2>3 DEF ChannelTypes
<1>4. Opened = {} /\ Cardinality({}) = 0
  BY FS_EmptySet DEF Opened
<1>5. Counted
  <2>1. Subscribed = {}
    BY DEF Subscribed
  <2> QED
    BY <1>4, <2>1 DEF Counted
<1>6. CountExact
  BY <1>4 DEF CountExact
<1> QED
  BY <1>3, <1>5, <1>6 DEF ChannelInv, ListenersOpen, Channel!SameOrder

\* A request subscribes;
LEMMA ChannelSubscribes ==
    ASSUME ChannelInv, NEW c \in Clients, NEW session \in ChannelEvents,
           Channel!Subscribe(c, session)
    PROVE  ChannelInv'
<1> DEFINE x == [at |-> "open", filter |-> session, got |-> <<None>>, failed |-> FALSE]
<1>1. x \in ChannelClients /\ x.at = "open" /\ x.got = <<None>> /\ x.filter = session /\ x.failed = FALSE
  <2>1. <<None>> \in Seq(ChannelEvents) /\ FALSE \in BOOLEAN
    BY DEF ChannelEvents
  <2> QED
    BY <2>1 DEF ChannelClients
<1>2. /\ client' = [client EXCEPT ![c] = x] /\ listeners' = listeners \cup {c}
      /\ subscriberCount' = subscriberCount + 1 /\ heartbeat' = TRUE /\ UNCHANGED disposed
      /\ client[c].at = "none"
  BY DEF Channel!Subscribe
<1> HIDE DEF x
<1>3. /\ client' \in [Clients -> ChannelClients] /\ client'[c] = x
      /\ \A d \in Clients \ {c} : client'[d] = client[d]
  BY <1>1, <1>2 DEF ChannelInv, ChannelTypes
<1>4. ChannelTypes'
  BY <1>2, <1>3 DEF ChannelInv, ChannelTypes
<1>5. ListenersOpen'
  BY <1>1, <1>2, <1>3 DEF ChannelInv, ListenersOpen, Opened
<1>6. c \notin Subscribed /\ c \notin Opened /\ c \notin listeners
  BY <1>2 DEF ChannelInv, ListenersOpen, Subscribed, Opened
<1>7. Subscribed' = Subscribed \cup {c} /\ Opened' = Opened \cup {c}
  BY <1>1, <1>2, <1>3 DEF Subscribed, Opened
<1>8. Counted'
  <2>1. Subscribed \in SUBSET Clients
    BY DEF Subscribed
  <2>2. Cardinality(Subscribed \cup {c}) = Cardinality(Subscribed) + 1
    BY <1>6, <2>1, ClientsFinite
  <2> QED
    BY <1>2, <1>7, <2>1, <2>2, ClientsFinite DEF Counted, ChannelInv, ChannelTypes
<1>9. CountExact'
  <2>1. listeners \in SUBSET Clients
    BY DEF ChannelInv, ChannelTypes
  <2>2. Cardinality(listeners \cup {c}) = Cardinality(listeners) + 1
    BY <1>6, <2>1, ClientsFinite
  <2>3. ASSUME ~disposed', \A d \in Clients : ~client'[d].failed
        PROVE  ~disposed /\ \A d \in Clients : ~client[d].failed
    <3>1. ~client[c].failed
      BY <1>2 DEF ChannelInv, ListenersOpen
    <3> QED
      BY <1>2, <1>3, <2>3, <3>1
  <2> QED
    BY <1>2, <1>7, <2>2, <2>3 DEF ChannelInv, CountExact
<1>10. Channel!SameOrder'
  <2>1. ASSUME NEW d \in Clients, NEW e \in Clients,
               client'[d].filter = client'[e].filter, {d, e} \subseteq listeners'
        PROVE  \/ Channel!IsSuffix(Tail(client'[d].got), client'[e].got)
               \/ Channel!IsSuffix(Tail(client'[e].got), client'[d].got)
    <3>1. client'[d].got \in Seq(ChannelEvents) /\ client'[e].got \in Seq(ChannelEvents)
      BY <1>3 DEF ChannelClients
    <3>2. CASE d # c /\ e # c
      BY <1>2, <1>3, <2>1, <3>2 DEF ChannelInv, Channel!SameOrder
    <3>3. Tail(<<None>>) = <<>> /\ <<>> \in Seq(ChannelEvents)
      OBVIOUS
    <3>4. \A t \in Seq(ChannelEvents) : EndOf(<<>>, t)
      BY DEF EndOf
    <3>5. \A t \in Seq(ChannelEvents) : Channel!IsSuffix(<<>>, t)
      BY <3>3, <3>4, SuffixMeans
    <3>6. CASE d = c \/ e = c
      BY <1>1, <1>3, <3>1, <3>3, <3>5, <3>6
    <3> QED
      BY <3>2, <3>6
  <2> QED
    BY <2>1 DEF Channel!SameOrder
<1> QED
  BY <1>4, <1>5, <1>8, <1>9, <1>10 DEF ChannelInv

\* it leaves, for whatever reason: what it was sent is as it was.
LEMMA ChannelLeaves ==
    ASSUME ChannelInv, NEW c \in Clients, NEW x \in ChannelClients, Channel!Unsubscribe(c),
           client' = [client EXCEPT ![c] = x], client[c].at = "open",
           x.got = client[c].got, x.filter = client[c].filter, x.at \in {"open", "closed"},
           client[c].failed => x.failed, x.at = "open" => x.failed
    PROVE  ChannelInv'
<1>1. /\ listeners' = listeners \ {c} /\ subscriberCount' = Channel!CountAfter
      /\ heartbeat' = (heartbeat /\ Channel!CountAfter # 0) /\ UNCHANGED disposed
  BY DEF Channel!Unsubscribe
<1>2. /\ client' \in [Clients -> ChannelClients] /\ client'[c] = x
      /\ \A d \in Clients \ {c} : client'[d] = client[d]
  BY DEF ChannelInv, ChannelTypes
<1>3. subscriberCount \in Nat /\ Channel!CountAfter \in Nat /\ Channel!CountAfter <= subscriberCount
      /\ (subscriberCount # 0 => Channel!CountAfter = subscriberCount - 1)
  BY DEF ChannelInv, ChannelTypes, Channel!CountAfter
<1>4. ChannelTypes'
  <2>1. heartbeat' \in BOOLEAN
    BY <1>1
  <2> QED
    BY <1>1, <1>2, <1>3, <2>1 DEF ChannelInv, ChannelTypes
<1>5. ListenersOpen'
  BY <1>1, <1>2 DEF ChannelInv, ListenersOpen, Opened
<1>6. Counted'
  <2>1. Subscribed' = Subscribed
    BY <1>2 DEF Subscribed
  <2>2. Subscribed \in SUBSET Clients
    BY DEF Subscribed
  <2> QED
    BY <1>1, <1>3, <2>1, <2>2, ClientsFinite DEF ChannelInv, Counted
<1>7. CountExact'
  <2>1. SUFFICES ASSUME ~disposed', \A d \in Clients : ~client'[d].failed
                 PROVE  /\ listeners' = Opened' /\ subscriberCount' = Cardinality(listeners')
                        /\ heartbeat' <=> listeners' # {}
    BY DEF CountExact
  <2>2. ~x.failed /\ x.at = "closed" /\ ~client[c].failed
    BY <1>2, <2>1
  <2>3. ~disposed /\ \A d \in Clients : ~client[d].failed
    BY <1>1, <1>2, <2>1, <2>2
  <2>4. /\ listeners = Opened /\ subscriberCount = Cardinality(listeners)
        /\ heartbeat <=> listeners # {}
    BY <2>3 DEF ChannelInv, CountExact
  <2>5. c \in listeners /\ listeners \in SUBSET Clients
    BY <2>4 DEF Opened
  <2>6. Opened' = Opened \ {c}
    BY <1>2, <2>2 DEF Opened
  <2>7. /\ Cardinality(listeners \ {c}) = Cardinality(listeners) - 1
        /\ Cardinality(listeners) # 0 /\ Cardinality(listeners) \in Nat
        /\ (Cardinality(listeners \ {c}) = 0 <=> listeners \ {c} = {})
    BY <2>5, ClientsFinite
  <2> QED
    BY <1>1, <1>3, <2>4, <2>5, <2>6, <2>7
<1>8. Channel!SameOrder'
  BY <1>1, <1>2 DEF ChannelInv, Channel!SameOrder
<1> QED
  BY <1>4, <1>5, <1>6, <1>7, <1>8 DEF ChannelInv

\* An event is sent to those it passes to: two requests of one session both
\* get it, or neither.
LEMMA ChannelEmits ==
    ASSUME ChannelInv, NEW session \in ChannelEvents, Channel!Emit(session)
    PROVE  ChannelInv'
<1> DEFINE gets(c) == c \in listeners /\ Channel!Passes(c, session)
<1>1. UNCHANGED <<listeners, subscriberCount, heartbeat, disposed>>
  BY DEF Channel!Emit
<1>2. ASSUME NEW c \in Clients
      PROVE  /\ client'[c] \in ChannelClients /\ client'[c].at = client[c].at
             /\ client'[c].filter = client[c].filter /\ client'[c].failed = client[c].failed
             /\ client'[c].got = IF gets(c) THEN Append(client[c].got, session) ELSE client[c].got
             /\ client[c].got \in Seq(ChannelEvents)
  <2>1. client[c] \in ChannelClients
    BY DEF ChannelInv, ChannelTypes
  <2>2. client'[c] = IF gets(c) THEN [client[c] EXCEPT !.got = Append(client[c].got, session)]
                     ELSE client[c]
    BY <2>1 DEF Channel!Emit, ChannelClients
  <2> HIDE DEF gets
  <2>3. client[c].got \in Seq(ChannelEvents) /\ Append(client[c].got, session) \in Seq(ChannelEvents)
    BY <2>1 DEF ChannelClients
  <2>4. CASE gets(c)
    <3> DEFINE new == Append(client[c].got, session)
    <3>1. client'[c] = [client[c] EXCEPT !.got = new] /\ new \in Seq(ChannelEvents)
      BY <2>2, <2>3, <2>4
    <3> HIDE DEF new
    <3>2. /\ client'[c] \in ChannelClients /\ client'[c].at = client[c].at
          /\ client'[c].filter = client[c].filter /\ client'[c].failed = client[c].failed
          /\ client'[c].got = new
      BY ONLY <2>1, <3>1 DEF ChannelClients
    <3> QED
      BY <2>3, <2>4, <3>2 DEF new
  <2>5. CASE ~gets(c)
    BY <2>1, <2>2, <2>3, <2>5
  <2> QED
    BY <2>4, <2>5
<1>3. client' \in [Clients -> ChannelClients]
  <2>1. client' = [c \in Clients |-> client'[c]]
    BY DEF Channel!Emit
  <2> QED
    BY <1>2, <2>1
<1>4. ChannelTypes'
  BY <1>1, <1>3 DEF ChannelInv, ChannelTypes
<1>5. ASSUME NEW c \in Clients, client[c].got # <<>>
      PROVE  client'[c].got # <<>>
  <2>1. client[c].got \in Seq(ChannelEvents) /\ Append(client[c].got, session) # <<>>
    BY <1>2
  <2> QED
    BY <1>2, <1>5, <2>1
<1> HIDE DEF gets
<1>6. ListenersOpen'
  BY <1>1, <1>2, <1>5 DEF ChannelInv, ChannelTypes, ListenersOpen, Opened
<1>7. Subscribed' = Subscribed /\ Opened' = Opened
  BY <1>2 DEF Subscribed, Opened
<1>8. Counted'
  BY <1>1, <1>7 DEF ChannelInv, Counted
<1>9. CountExact'
  BY <1>1, <1>2, <1>7 DEF ChannelInv, CountExact
<1>10. ASSUME NEW c \in Clients, NEW d \in Clients,
              client[c].filter = client[d].filter, {c, d} \subseteq listeners,
              Channel!IsSuffix(Tail(client[c].got), client[d].got)
       PROVE  Channel!IsSuffix(Tail(client'[c].got), client'[d].got)
  <2>1. gets(c) <=> gets(d)
    BY <1>10 DEF gets, Channel!Passes
  <2>2. CASE ~gets(c)
    <3>1. client'[c].got = client[c].got /\ client'[d].got = client[d].got
      BY <1>2, <2>1, <2>2
    <3> QED
      BY <1>10, <3>1
  <2>3. CASE gets(c)
    <3>1. /\ client'[c].got = Append(client[c].got, session)
          /\ client'[d].got = Append(client[d].got, session)
      BY <1>2, <2>1, <2>3
    <3>2. client[c].got # <<>> /\ client[c].got \in Seq(ChannelEvents)
          /\ client[d].got \in Seq(ChannelEvents)
      BY <1>2, <1>10 DEF ChannelInv, ListenersOpen
    <3>3. Channel!IsSuffix(Tail(Append(client[c].got, session)), Append(client[d].got, session))
      BY <1>10, <3>2, EndGrows
    <3> QED
      BY <3>1, <3>3
  <2> QED
    BY <2>2, <2>3
<1>11. Channel!SameOrder'
  <2>1. ASSUME NEW d \in Clients, NEW e \in Clients,
               client'[d].filter = client'[e].filter, {d, e} \subseteq listeners'
        PROVE  \/ Channel!IsSuffix(Tail(client'[d].got), client'[e].got)
               \/ Channel!IsSuffix(Tail(client'[e].got), client'[d].got)
    <3>1. client[d].filter = client[e].filter /\ {d, e} \subseteq listeners /\ {e, d} \subseteq listeners
      BY <1>1, <1>2, <2>1
    <3>2. \/ Channel!IsSuffix(Tail(client[d].got), client[e].got)
          \/ Channel!IsSuffix(Tail(client[e].got), client[d].got)
      BY <3>1 DEF ChannelInv, Channel!SameOrder
    <3> QED
      BY <1>10, <3>1, <3>2
  <2> QED
    BY <2>1 DEF Channel!SameOrder
<1> QED
  BY <1>4, <1>6, <1>8, <1>9, <1>11 DEF ChannelInv

\* Nothing else counts.
LEMMA ChannelStutters == ChannelInv /\ UNCHANGED channelsVars => ChannelInv'
BY DEF channelsVars, ChannelInv, ChannelTypes, ListenersOpen, Counted, CountExact, Opened,
   Subscribed, Channel!SameOrder

\* Every step keeps the invariant,
LEMMA ChannelNext == ChannelInv /\ Channel!CNext => ChannelInv'
<1> SUFFICES ASSUME ChannelInv, Channel!CNext PROVE ChannelInv'
  OBVIOUS
<1>1. ASSUME NEW c \in Clients, Channel!Fails(c)
      PROVE  ChannelInv'
  <2> DEFINE x == [client[c] EXCEPT !.failed = TRUE]
  <2>1. client[c] \in ChannelClients
    BY DEF ChannelInv, ChannelTypes
  <2>2. /\ x \in ChannelClients /\ x.got = client[c].got /\ x.filter = client[c].filter
        /\ x.at = client[c].at /\ x.failed = TRUE
    BY <2>1 DEF ChannelClients
  <2>3. client' = [client EXCEPT ![c] = x] /\ Channel!Unsubscribe(c) /\ client[c].at = "open"
    BY <1>1 DEF Channel!Fails
  <2> HIDE DEF x
  <2>4. x.at \in {"open", "closed"} /\ (client[c].failed => x.failed) /\ (x.at = "open" => x.failed)
    BY <2>2, <2>3
  <2> QED
    BY <2>2, <2>3, <2>4, ChannelLeaves
<1>2. ASSUME NEW c \in Clients, Channel!Closes(c)
      PROVE  ChannelInv'
  <2> DEFINE x == [client[c] EXCEPT !.at = "closed"]
  <2>1. client[c] \in ChannelClients
    BY DEF ChannelInv, ChannelTypes
  <2>2. /\ x \in ChannelClients /\ x.got = client[c].got /\ x.filter = client[c].filter
        /\ x.at = "closed" /\ x.failed = client[c].failed
    BY <2>1 DEF ChannelClients
  <2>3. client' = [client EXCEPT ![c] = x] /\ Channel!Unsubscribe(c) /\ client[c].at = "open"
    BY <1>2 DEF Channel!Closes
  <2> HIDE DEF x
  <2>4. x.at \in {"open", "closed"} /\ (client[c].failed => x.failed) /\ (x.at = "open" => x.failed)
    BY <2>2, <2>3
  <2> QED
    BY <2>2, <2>3, <2>4, ChannelLeaves
<1>3. CASE Channel!Dispose
  <2>1. disposed' = TRUE /\ heartbeat' = FALSE /\ listeners' = {} /\ UNCHANGED <<subscriberCount, client>>
    BY <1>3 DEF Channel!Dispose
  <2>2. heartbeat' \in BOOLEAN /\ disposed' \in BOOLEAN /\ listeners' \in SUBSET Clients
    BY <2>1
  <2>3. ChannelTypes'
    BY <2>1, <2>2 DEF ChannelInv, ChannelTypes
  <2> QED
    BY <2>1, <2>3 DEF ChannelInv, ListenersOpen, Counted, Subscribed, CountExact, Channel!SameOrder
<1> QED
  BY <1>1, <1>2, <1>3, ChannelSubscribes, ChannelEmits DEF Channel!CNext, ChannelEvents

\* which has the properties of the channels.
LEMMA ChannelTyped == ChannelInv => Channel!CTypeOK /\ Channel!ChannelsSafe
<1> SUFFICES ASSUME ChannelInv PROVE Channel!CTypeOK /\ Channel!ChannelsSafe
  OBVIOUS
<1>1. subscriberCount \in 0..Channel!Cardinality(Clients)
  <2>1. Subscribed \in SUBSET Clients
    BY DEF Subscribed
  <2> QED
    BY <2>1, ClientsFinite, ChannelBounds DEF ChannelInv, ChannelTypes, Counted
<1>2. ASSUME NEW c \in Clients
      PROVE  /\ client[c].at \in {"none", "open", "closed"} /\ client[c].filter \in Sessions \cup {None}
             /\ Channel!ToSet(client[c].got) \subseteq Sessions \cup {None}
  <2>1. client[c] \in ChannelClients
    BY DEF ChannelInv, ChannelTypes
  <2> QED
    BY <2>1 DEF ChannelClients, ChannelEvents, Channel!ToSet
<1>3. Channel!CTypeOK
  BY <1>1, <1>2 DEF ChannelInv, ChannelTypes, Channel!CTypeOK
<1>4. Channel!HeartbeatWhileSubscribed
  BY DEF ChannelInv, CountExact, Channel!HeartbeatWhileSubscribed
<1> QED
  BY <1>3, <1>4 DEF ChannelInv, Channel!ChannelsSafe

(***************************************************************************)
(* The A2A tasks: the map has the last request of an id; the state of a    *)
(* task is what was added to it last, and a stream is final where it ends, *)
(* when its handler has ended.                                             *)
(***************************************************************************)
\* What is written to a stream, what an object of the server is, and what a
\* tool has.
A2aStates == A2a!Terminal \cup {"submitted", "working"}
A2aEvents == [type : {"status", "artifact"}, state : A2aStates, final : BOOLEAN]
A2aObjects ==
    [id : TaskIds \cup {None}, handler : {"none", "running", "ended", "gone"},
     state : A2aStates, messages : Seq({"user", "agent", "error"}),
     kind : {"send", "stream"}, chunks : Nat, stream : Seq(A2aEvents), open : BOOLEAN]
A2aTools ==
    [at : {"none", "waiting", "returned", "threw"}, state : A2aStates,
     text : {"none", "user", "agent", "error"}, from : Sends \cup {None}]

\* The types.
A2aTypes ==
    /\ tasks \in [TaskIds -> Sends \cup {None}]
    /\ task \in [Sends -> A2aObjects] /\ tool \in [Sends -> A2aTools]
    /\ cancels \in 0..MaxCancels

\* A final status of a stream.
FinalAt(es, i) == es[i].type = "status" /\ es[i].final

\* The state of an object says what was added to it last.
AnswersLast(o) ==
    /\ o.messages # <<>>
    /\ o.state = "completed" => A2a!Last(o.messages) = "agent"
    /\ o.state = "failed" /\ o.kind = "send" => A2a!Last(o.messages) = "error"
    /\ o.handler = "ended" => o.state \in A2a!Terminal

\* A stream that can be written has begun; it is final where it ends, and only
\* when the handler has ended.
StreamEnds(o) ==
    /\ o.open => o.stream # <<>>
    /\ o.stream # <<>> => o.stream[1] = A2a!Status("working", FALSE)
    /\ \A i \in DOMAIN o.stream : FinalAt(o.stream, i) =>
           /\ o.handler = "ended" /\ i = Len(o.stream)
           /\ o.state \in {o.stream[i].state, "canceled"}

\* Requests begin in their order, and the map has the last one of an id.
A2aBegun(s) == task[s].handler # "none"
MapIsLast ==
    /\ \A s, r \in Sends : A2aBegun(s) /\ r < s => A2aBegun(r)
    /\ \A id \in TaskIds : tasks[id] # None => A2aBegun(tasks[id])
    /\ \A s \in Sends : A2aBegun(s) =>
           /\ task[s].id \in TaskIds
           /\ tasks[task[s].id] # None => tasks[task[s].id] >= s

\* A tool has what its request, or a later one of the id, came to.
ToolsTold ==
    \A s \in Sends :
        /\ tool[s].at = "waiting" => A2aBegun(s)
        /\ tool[s].from # None =>
               /\ tool[s].from >= s /\ A2aBegun(tool[s].from)
               /\ tool[s].state = "completed" => tool[s].text = "agent"
               /\ tool[s].state = "failed" /\ task[tool[s].from].kind = "send"
                      => tool[s].text = "error"

\* The invariant of the tasks.
A2aInv ==
    /\ A2aTypes /\ MapIsLast /\ ToolsTold
    /\ \A s \in Sends : AnswersLast(task[s]) /\ StreamEnds(task[s])

\* The limits of the tasks.
LEMMA A2aBounds == Sends \subseteq Nat /\ None \notin Sends /\ MaxCancels \in Nat
BY BackendsAssumption DEF A2a!A2aAssumption

\* The last of a sequence that was added to is what was added.
LEMMA LastAdded ==
    ASSUME NEW S, NEW s \in Seq(S), NEW x \in S
    PROVE  /\ Append(s, x) \in Seq(S) /\ Append(s, x) # <<>>
           /\ A2a!Last(Append(s, x)) = x
BY DEF A2a!Last

\* One event and two are streams.
LEMMA ShortStreams ==
    ASSUME NEW e \in A2aEvents, NEW f \in A2aEvents
    PROVE  /\ <<e>> \in Seq(A2aEvents) /\ Len(<<e>>) = 1 /\ <<e>>[1] = e
           /\ <<e, f>> \in Seq(A2aEvents) /\ Len(<<e, f>>) = 2
           /\ <<e, f>>[1] = e /\ <<e, f>>[2] = f
OBVIOUS

\* What is added to a stream comes after what was there.
LEMMA StreamGrows ==
    ASSUME NEW st \in Seq(A2aEvents), st # <<>>, NEW more \in Seq(A2aEvents),
           NEW t, t = st \o more
    PROVE  /\ t \in Seq(A2aEvents) /\ t # <<>> /\ t[1] = st[1]
           /\ Len(t) = Len(st) + Len(more)
           /\ \A i \in DOMAIN t :
                  \/ i \in DOMAIN st /\ t[i] = st[i]
                  \/ i - Len(st) \in 1..Len(more) /\ t[i] = more[i - Len(st)]
<1>1. t \in Seq(A2aEvents) /\ Len(t) = Len(st) + Len(more) /\ Len(st) \in Nat /\ Len(more) \in Nat
  OBVIOUS
<1>2. Len(st) > 0 /\ DOMAIN st = 1..Len(st) /\ DOMAIN t = 1..Len(t)
  OBVIOUS
<1>3. \A i \in 1..Len(t) : t[i] = IF i <= Len(st) THEN st[i] ELSE more[i - Len(st)]
  OBVIOUS
<1>4. t # <<>> /\ t[1] = st[1]
  BY <1>1, <1>2, <1>3
<1>5. ASSUME NEW i \in DOMAIN t
      PROVE  \/ i \in DOMAIN st /\ t[i] = st[i]
             \/ i - Len(st) \in 1..Len(more) /\ t[i] = more[i - Len(st)]
  BY <1>1, <1>2, <1>3, <1>5
<1> QED
  BY <1>1, <1>4, <1>5

\* What ends a stream has one status, which is its last event.
LEMMA EndOfStream ==
    ASSUME NEW ok \in BOOLEAN
    PROVE  /\ A2a!EndEvents(ok) \in Seq(A2aEvents) /\ Len(A2a!EndEvents(ok)) \in Nat
           /\ \A i \in 1..Len(A2a!EndEvents(ok)) : A2a!EndEvents(ok)[i].type = "status" =>
                  /\ i = Len(A2a!EndEvents(ok))
                  /\ A2a!EndEvents(ok)[i]
                       = A2a!Status(IF ok THEN "completed" ELSE "failed", TRUE)
<1> DEFINE a == A2a!Artifact(TRUE)
           c == A2a!Status("completed", TRUE)
           f == A2a!Status("failed", TRUE)
           more == A2a!EndEvents(ok)
<1>1. a \in A2aEvents /\ a.type # "status" /\ c \in A2aEvents /\ f \in A2aEvents
  BY DEF A2a!Artifact, A2a!Status, A2aEvents, A2aStates, A2a!Terminal
<1>2. CASE ok
  <2>1. more = <<a, c>> /\ c = A2a!Status(IF ok THEN "completed" ELSE "failed", TRUE)
    BY <1>2 DEF A2a!EndEvents
  <2> HIDE DEF more, a, c
  <2>2. more \in Seq(A2aEvents) /\ Len(more) = 2 /\ more[1] = a /\ more[2] = c
    BY <1>1, <2>1, ShortStreams
  <2>3. Len(more) \in Nat /\ \A i \in 1..Len(more) : more[i].type = "status" =>
             i = Len(more) /\ more[i] = c
    BY <1>1, <2>2
  <2> QED
    BY <2>1, <2>2, <2>3 DEF more
<1>3. CASE ~ok
  <2>1. more = <<f>> /\ f = A2a!Status(IF ok THEN "completed" ELSE "failed", TRUE)
    BY <1>3 DEF A2a!EndEvents
  <2> HIDE DEF more, f
  <2>2. more \in Seq(A2aEvents) /\ Len(more) = 1 /\ more[1] = f
    BY <1>1, <2>1, ShortStreams
  <2>3. Len(more) \in Nat /\ \A i \in 1..Len(more) : i = Len(more) /\ more[i] = f
    BY <2>2
  <2> QED
    BY <2>1, <2>2, <2>3 DEF more
<1> QED
  BY <1>2, <1>3

\* The object of a handler that yields adds to the stream what is not final,
YieldedObject(o) ==
    [o EXCEPT !.chunks = o.chunks + 1,
       !.stream = IF o.open THEN o.stream \o <<A2a!Artifact(FALSE)>> ELSE o.stream]

\* is typed, and says what was added to it last;
LEMMA ObjectYields ==
    ASSUME NEW o \in A2aObjects, AnswersLast(o), StreamEnds(o), o.handler = "running"
    PROVE  /\ YieldedObject(o) \in A2aObjects
           /\ AnswersLast(YieldedObject(o)) /\ StreamEnds(YieldedObject(o))
           /\ YieldedObject(o).id = o.id /\ YieldedObject(o).kind = o.kind
           /\ YieldedObject(o).handler = o.handler
<1> DEFINE x == YieldedObject(o)
<1>0. x = [o EXCEPT !.chunks = o.chunks + 1,
                    !.stream = IF o.open THEN o.stream \o <<A2a!Artifact(FALSE)>> ELSE o.stream]
  BY DEF YieldedObject
<1> SUFFICES /\ x \in A2aObjects /\ AnswersLast(x) /\ StreamEnds(x)
             /\ x.id = o.id /\ x.kind = o.kind /\ x.handler = o.handler
  OBVIOUS
<1> HIDE DEF x
<1> DEFINE more == <<A2a!Artifact(FALSE)>>
<1>1. /\ A2a!Artifact(FALSE) \in A2aEvents /\ ~A2a!Artifact(FALSE).final
  BY DEF A2a!Artifact, A2aEvents, A2aStates
<1>2. more \in Seq(A2aEvents) /\ Len(more) = 1 /\ more[1] = A2a!Artifact(FALSE)
  BY <1>1, ShortStreams
<1> HIDE DEF more
<1>3. /\ x.id = o.id /\ x.kind = o.kind /\ x.handler = o.handler /\ x.state = o.state
      /\ x.messages = o.messages /\ x.open = o.open
      /\ x.stream = IF o.open THEN o.stream \o more ELSE o.stream
  BY <1>0 DEF A2aObjects, more
<1>4. o.stream \in Seq(A2aEvents) /\ o.chunks \in Nat /\ o.open \in BOOLEAN
  BY DEF A2aObjects
<1>7. o.chunks + 1 \in Nat
  BY <1>4
<1>5. CASE ~o.open
  <2>1. x.stream = o.stream
    BY <1>3, <1>5
  <2>2. x \in A2aObjects
    <3>1. x = [o EXCEPT !.chunks = o.chunks + 1]
      BY <1>0, <1>5 DEF A2aObjects
    <3> QED
      BY <1>7, <3>1 DEF A2aObjects
  <2> QED
    BY <1>3, <2>1, <2>2 DEF AnswersLast, StreamEnds
<1>6. CASE o.open
  <2>1. x.stream = o.stream \o more /\ o.stream # <<>>
    BY <1>3, <1>6 DEF StreamEnds
  <2>2. /\ x.stream \in Seq(A2aEvents) /\ x.stream # <<>> /\ x.stream[1] = o.stream[1]
        /\ Len(x.stream) = Len(o.stream) + Len(more)
        /\ \A i \in DOMAIN x.stream :
               \/ i \in DOMAIN o.stream /\ x.stream[i] = o.stream[i]
               \/ i - Len(o.stream) \in 1..Len(more) /\ x.stream[i] = more[i - Len(o.stream)]
    <3>1. o.stream \in Seq(A2aEvents) /\ more \in Seq(A2aEvents)
      BY <1>2, <1>4
    <3> QED
      BY ONLY <2>1, <3>1, StreamGrows
  <2>3. x \in A2aObjects
    <3>1. x = [o EXCEPT !.chunks = o.chunks + 1, !.stream = x.stream]
      BY <1>0, <1>3 DEF A2aObjects
    <3> QED
      BY <1>7, <2>2, <3>1 DEF A2aObjects
  <2>4. ASSUME NEW i \in DOMAIN x.stream, FinalAt(x.stream, i)
        PROVE  FALSE
    <3>1. CASE i \in DOMAIN o.stream /\ x.stream[i] = o.stream[i]
      BY <2>4, <3>1 DEF StreamEnds, FinalAt
    <3>2. CASE i - Len(o.stream) \in 1..Len(more) /\ x.stream[i] = more[i - Len(o.stream)]
      <4>1. i - Len(o.stream) = 1
        BY <1>2, <3>2
      <4>2. x.stream[i] = A2a!Artifact(FALSE)
        BY <1>2, <3>2, <4>1
      <4> QED
        BY <1>1, <2>4, <4>2 DEF FinalAt
    <3> QED
      BY <2>2, <3>1, <3>2
  <2> QED
    BY <1>3, <2>2, <2>3, <2>4 DEF AnswersLast, StreamEnds
<1> QED
  BY <1>3, <1>4, <1>5, <1>6

\* one that ends adds the final status as the last event, which is the state,
EndsWith(more, last) ==
    /\ more \in Seq(A2aEvents) /\ Len(more) \in Nat
    /\ \A i \in 1..Len(more) : more[i].type = "status" =>
           i = Len(more) /\ more[i] = A2a!Status(last, TRUE)
Said(o, last) ==
    IF last = "completed" THEN Append(o.messages, "agent")
    ELSE IF o.kind = "send" THEN Append(o.messages, "error") ELSE o.messages
\* The object of a handler that ends.
EndedObject(o, last, more) ==
    [o EXCEPT !.handler = "ended", !.state = last, !.messages = Said(o, last),
              !.stream = IF o.open THEN o.stream \o more ELSE o.stream, !.open = FALSE]

\* Such an object is typed, and says what was added to it last;
LEMMA ObjectEnds ==
    ASSUME NEW o \in A2aObjects, AnswersLast(o), StreamEnds(o), o.handler = "running",
           NEW last \in {"completed", "failed"}, NEW more, EndsWith(more, last)
    PROVE  /\ EndedObject(o, last, more) \in A2aObjects
           /\ AnswersLast(EndedObject(o, last, more))
           /\ StreamEnds(EndedObject(o, last, more))
           /\ EndedObject(o, last, more).id = o.id
           /\ EndedObject(o, last, more).kind = o.kind
           /\ EndedObject(o, last, more).handler = "ended"
<1> DEFINE x == EndedObject(o, last, more)
           says == Said(o, last)
<1>0. /\ more \in Seq(A2aEvents) /\ Len(more) \in Nat /\ FALSE \in BOOLEAN
      /\ \A i \in 1..Len(more) : more[i].type = "status" =>
             i = Len(more) /\ more[i] = A2a!Status(last, TRUE)
  BY DEF EndsWith
<1>1. A2a!Status(last, TRUE).state = last
  BY DEF A2a!Status
<1>3. last \in A2aStates /\ last \in A2a!Terminal
  BY DEF A2aStates, A2a!Terminal
<1>4. /\ x.id = o.id /\ x.kind = o.kind /\ x.handler = "ended" /\ x.state = last
      /\ x.messages = says /\ x.open = FALSE
      /\ x.stream = IF o.open THEN o.stream \o more ELSE o.stream
  BY DEF A2aObjects, EndedObject
<1>5. x = [o EXCEPT !.handler = "ended", !.state = last, !.messages = x.messages,
                    !.stream = x.stream, !.open = FALSE]
  BY <1>4 DEF A2aObjects, EndedObject
<1> HIDE DEF x
<1>6. o.stream \in Seq(A2aEvents) /\ o.messages \in Seq({"user", "agent", "error"})
      /\ o.open \in BOOLEAN /\ o.kind \in {"send", "stream"}
  BY DEF A2aObjects
<1>7. /\ says \in Seq({"user", "agent", "error"}) /\ says # <<>>
      /\ last = "completed" => A2a!Last(says) = "agent"
      /\ last = "failed" /\ o.kind = "send" => A2a!Last(says) = "error"
  <2>1. ASSUME NEW word \in {"user", "agent", "error"}
        PROVE  /\ Append(o.messages, word) \in Seq({"user", "agent", "error"})
               /\ Append(o.messages, word) # <<>> /\ A2a!Last(Append(o.messages, word)) = word
    BY <1>6, LastAdded
  <2>2. CASE last = "completed"
    <3>1. says = Append(o.messages, "agent")
      BY <2>2 DEF Said
    <3> QED
      BY <2>1, <2>2, <3>1
  <2>3. CASE last = "failed" /\ o.kind = "send"
    <3>1. says = Append(o.messages, "error")
      BY <2>3 DEF Said
    <3> QED
      BY <2>1, <2>3, <3>1
  <2>4. CASE last = "failed" /\ o.kind # "send"
    <3>1. says = o.messages
      BY <2>4 DEF Said
    <3> QED
      BY <1>6, <2>4, <3>1 DEF AnswersLast
  <2> QED
    BY <2>2, <2>3, <2>4
<1>8. AnswersLast(x)
  BY <1>3, <1>4, <1>7 DEF AnswersLast
<1>9. x.stream \in Seq(A2aEvents) /\ StreamEnds(x)
  <2>1. CASE ~o.open
    <3>1. x.stream = o.stream
      BY <1>4, <2>1
    <3> QED
      BY <1>4, <1>6, <3>1 DEF StreamEnds
  <2>2. CASE o.open
    <3>1. x.stream = o.stream \o more /\ o.stream # <<>>
      BY <1>4, <2>2 DEF StreamEnds
    <3>2. /\ x.stream \in Seq(A2aEvents) /\ x.stream # <<>> /\ x.stream[1] = o.stream[1]
          /\ Len(x.stream) = Len(o.stream) + Len(more)
          /\ \A i \in DOMAIN x.stream :
               \/ i \in DOMAIN o.stream /\ x.stream[i] = o.stream[i]
               \/ i - Len(o.stream) \in 1..Len(more) /\ x.stream[i] = more[i - Len(o.stream)]
      <4>1. more \in Seq(A2aEvents)
        BY <1>0
      <4> QED
        BY ONLY <1>6, <3>1, <4>1, StreamGrows
    <3>3. ASSUME NEW i \in DOMAIN x.stream, FinalAt(x.stream, i)
          PROVE  i = Len(x.stream) /\ x.state = x.stream[i].state
      <4>1. CASE i \in DOMAIN o.stream /\ x.stream[i] = o.stream[i]
        BY <3>3, <4>1 DEF StreamEnds, FinalAt
      <4>2. CASE i - Len(o.stream) \in 1..Len(more) /\ x.stream[i] = more[i - Len(o.stream)]
        <5>1. more[i - Len(o.stream)].type = "status"
          BY <3>3, <4>2 DEF FinalAt
        <5>2. i - Len(o.stream) = Len(more) /\ x.stream[i] = A2a!Status(last, TRUE)
          BY <1>0, <4>2, <5>1
        <5>3. i \in Nat /\ Len(o.stream) \in Nat
          BY <1>6, <3>2
        <5>4. i = Len(x.stream)
          BY <1>0, <3>2, <5>2, <5>3
        <5> QED
          BY <1>1, <1>4, <5>2, <5>4
      <4> QED
        BY <3>2, <4>1, <4>2
    <3> QED
      BY <1>4, <3>1, <3>2, <3>3 DEF StreamEnds
  <2> QED
    BY <1>6, <2>1, <2>2
<1>10. x \in A2aObjects
  BY <1>0, <1>3, <1>4, <1>5, <1>7, <1>9 DEF A2aObjects
<1> QED
  BY <1>4, <1>8, <1>9, <1>10 DEF x

\* one that is canceled keeps what it has,
LEMMA ObjectCanceled ==
    ASSUME NEW o \in A2aObjects, AnswersLast(o), StreamEnds(o),
           NEW x, x = [o EXCEPT !.state = "canceled"]
    PROVE  /\ x \in A2aObjects /\ AnswersLast(x) /\ StreamEnds(x)
           /\ x.id = o.id /\ x.kind = o.kind /\ x.handler = o.handler
<1>1. "canceled" \in A2aStates /\ "canceled" \in A2a!Terminal
  BY DEF A2aStates, A2a!Terminal
<1>2. x \in A2aObjects
  BY <1>1 DEF A2aObjects
<1>3. /\ x.id = o.id /\ x.kind = o.kind /\ x.handler = o.handler /\ x.stream = o.stream
      /\ x.messages = o.messages /\ x.open = o.open /\ x.state = "canceled"
  BY DEF A2aObjects
<1> QED
  BY <1>1, <1>2, <1>3 DEF AnswersLast, StreamEnds

\* and so does one whose reader, or whose server, is gone.
ClosedObject(o, h) == [o EXCEPT !.handler = h, !.open = FALSE]

\* so does one whose handler goes without ending it.
LEMMA ObjectCloses ==
    ASSUME NEW o \in A2aObjects, AnswersLast(o), StreamEnds(o),
           NEW h \in {"none", "running", "ended", "gone"}, o.handler = "ended" <=> h = "ended"
    PROVE  /\ ClosedObject(o, h) \in A2aObjects
           /\ AnswersLast(ClosedObject(o, h)) /\ StreamEnds(ClosedObject(o, h))
           /\ ClosedObject(o, h).id = o.id /\ ClosedObject(o, h).kind = o.kind
           /\ ClosedObject(o, h).handler = h
<1> DEFINE x == ClosedObject(o, h)
<1>1. FALSE \in BOOLEAN
  OBVIOUS
<1>2. x \in A2aObjects
  BY <1>1 DEF A2aObjects, ClosedObject
<1>3. /\ x.id = o.id /\ x.kind = o.kind /\ x.handler = h /\ x.stream = o.stream
      /\ x.messages = o.messages /\ x.open = FALSE /\ x.state = o.state
  BY DEF A2aObjects, ClosedObject
<1> HIDE DEF x
<1>4. AnswersLast(x)
  BY <1>3 DEF AnswersLast
<1>5. StreamEnds(x)
  BY <1>3 DEF StreamEnds
<1> QED
  BY <1>2, <1>3, <1>4, <1>5 DEF x

\* As long as nothing begins, what the map and the tools say stays true.
LEMMA A2aSettles ==
    ASSUME A2aInv, task' \in [Sends -> A2aObjects],
           \A s \in Sends :
               /\ task'[s].id = task[s].id /\ task'[s].kind = task[s].kind
               /\ task'[s].handler = "none" <=> task[s].handler = "none"
               /\ AnswersLast(task'[s]) /\ StreamEnds(task'[s]),
           tasks' \in [TaskIds -> Sends \cup {None}],
           \A id \in TaskIds : tasks'[id] # None => tasks'[id] = tasks[id],
           tool' = tool, cancels' \in 0..MaxCancels
    PROVE  A2aInv'
<1>1. A2aTypes'
  BY DEF A2aInv, A2aTypes
<1>2. \A s \in Sends : A2aBegun(s)' <=> A2aBegun(s)
  BY DEF A2aBegun
<1>3. \A id \in TaskIds : tasks[id] # None => tasks[id] \in Sends
  BY DEF A2aInv, A2aTypes
<1>4. MapIsLast'
  <2>1. \A s, r \in Sends : A2aBegun(s)' /\ r < s => A2aBegun(r)'
    BY <1>2 DEF A2aInv, MapIsLast
  <2>2. ASSUME NEW id \in TaskIds, tasks'[id] # None
        PROVE  A2aBegun(tasks[id])' /\ tasks'[id] = tasks[id]
    <3>1. tasks'[id] = tasks[id] /\ tasks[id] \in Sends /\ A2aBegun(tasks[id])
      BY <1>3, <2>2 DEF A2aInv, MapIsLast
    <3>2. task'[tasks[id]].handler # "none" /\ task'[tasks'[id]].handler # "none"
      BY <3>1 DEF A2aBegun
    <3> QED
      BY <3>1, <3>2 DEF A2aBegun
  <2>3. ASSUME NEW s \in Sends, A2aBegun(s)'
        PROVE  /\ task'[s].id \in TaskIds
               /\ tasks'[task'[s].id] # None => tasks'[task'[s].id] >= s
    <3>1. /\ task[s].id \in TaskIds /\ task'[s].id = task[s].id
          /\ tasks[task[s].id] # None => tasks[task[s].id] >= s
      BY <1>2, <2>3 DEF A2aInv, MapIsLast
    <3> QED
      BY <3>1
  <2>4. \A id \in TaskIds : tasks'[id] # None => task'[tasks'[id]].handler # "none"
    <3> SUFFICES ASSUME NEW id \in TaskIds, tasks'[id] # None
                 PROVE  task'[tasks'[id]].handler # "none"
      OBVIOUS
    <3>1. tasks'[id] = tasks[id] /\ tasks[id] \in Sends /\ A2aBegun(tasks[id])
      BY <1>3 DEF A2aInv, MapIsLast
    <3> QED
      BY <3>1 DEF A2aBegun
  <2> QED
    BY <2>1, <2>3, <2>4 DEF MapIsLast, A2aBegun
<1>5. ToolsTold'
  <2>1. ASSUME NEW s \in Sends, tool[s].from # None
        PROVE  tool[s].from \in Sends
    BY <2>1 DEF A2aInv, A2aTypes, A2aTools
  <2>2. \A s \in Sends : tool'[s].at = "waiting" => task'[s].handler # "none"
    BY DEF A2aInv, ToolsTold, A2aBegun
  <2>3. ASSUME NEW s \in Sends, tool[s].from # None
        PROVE  /\ tool[s].from >= s /\ task'[tool[s].from].handler # "none"
               /\ tool[s].state = "completed" => tool[s].text = "agent"
               /\ tool[s].state = "failed" /\ task'[tool[s].from].kind = "send"
                      => tool[s].text = "error"
    <3>1. /\ tool[s].from >= s /\ A2aBegun(tool[s].from)
          /\ tool[s].state = "completed" => tool[s].text = "agent"
          /\ tool[s].state = "failed" /\ task[tool[s].from].kind = "send"
                 => tool[s].text = "error"
      BY <2>3 DEF A2aInv, ToolsTold
    <3>2. /\ task'[tool[s].from].kind = task[tool[s].from].kind
          /\ task'[tool[s].from].handler = "none" <=> task[tool[s].from].handler = "none"
      BY <2>1, <2>3
    <3> QED
      BY <3>1, <3>2 DEF A2aBegun
  <2> QED
    BY <2>2, <2>3 DEF ToolsTold, A2aBegun
<1> QED
  BY <1>1, <1>4, <1>5 DEF A2aInv

\* Of one object,
LEMMA A2aSettlesOne ==
    ASSUME A2aInv, NEW s \in Sends, NEW x \in A2aObjects, task' = [task EXCEPT ![s] = x],
           x.id = task[s].id, x.kind = task[s].kind,
           x.handler = "none" <=> task[s].handler = "none",
           AnswersLast(x), StreamEnds(x),
           tasks' = tasks, tool' = tool, cancels' \in 0..MaxCancels
    PROVE  A2aInv'
<1>1. /\ task \in [Sends -> A2aObjects] /\ tasks \in [TaskIds -> Sends \cup {None}]
      /\ \A r \in Sends : AnswersLast(task[r]) /\ StreamEnds(task[r])
  BY DEF A2aInv, A2aTypes
<1>2. task' \in [Sends -> A2aObjects] /\ \A r \in Sends : task'[r] = IF r = s THEN x ELSE task[r]
  BY <1>1
<1>3. ASSUME NEW r \in Sends
      PROVE  /\ task'[r].id = task[r].id /\ task'[r].kind = task[r].kind
             /\ task'[r].handler = "none" <=> task[r].handler = "none"
             /\ AnswersLast(task'[r]) /\ StreamEnds(task'[r])
  BY <1>1, <1>2
<1>4. tasks' \in [TaskIds -> Sends \cup {None}] /\ \A id \in TaskIds : tasks'[id] = tasks[id]
  BY <1>1
<1> QED
  BY <1>2, <1>3, <1>4, A2aSettles

\* A request begins: it is the last one of its id.
LEMMA A2aBegins ==
    ASSUME A2aInv, NEW s \in Sends, NEW id \in TaskIds,
           NEW kind \in {"send", "stream"},
           NEW stream \in Seq(A2aEvents), (kind = "stream") <=> stream # <<>>,
           stream # <<>> => stream = <<A2a!Status("working", FALSE)>>,
           A2a!Begin(s, id, kind, stream),
           NEW tl \in A2aTools, tool' = [tool EXCEPT ![s] = tl], tl.from = None \/ tl = tool[s]
    PROVE  A2aInv'
<1> DEFINE x == [A2a!Fresh EXCEPT !.id = id, !.handler = "running", !.state = "working",
                        !.kind = kind, !.stream = stream, !.open = kind = "stream"]
<1>1. /\ tasks' = [tasks EXCEPT ![id] = s] /\ task' = [task EXCEPT ![s] = x]
      /\ cancels' = cancels /\ A2a!Unsent(s)
  BY DEF A2a!Begin
<1>2. /\ x.id = id /\ x.handler = "running" /\ x.state = "working" /\ x.kind = kind
      /\ x.stream = stream /\ x.open = (kind = "stream") /\ x.messages = <<"user">> /\ x.chunks = 0
  BY DEF A2a!Fresh
<1>4. x \in A2aObjects
  <2>1. "working" \in A2aStates /\ <<"user">> \in Seq({"user", "agent", "error"}) /\ 0 \in Nat
    BY DEF A2aStates
  <2>2. (kind = "stream") \in BOOLEAN
    OBVIOUS
  <2>3. ASSUME NEW op \in BOOLEAN
        PROVE  [A2a!Fresh EXCEPT !.id = id, !.handler = "running", !.state = "working",
                        !.kind = kind, !.stream = stream, !.open = op] \in A2aObjects
    BY <2>1 DEF A2a!Fresh, A2aObjects
  <2> QED
    BY <2>2, <2>3
<1> HIDE DEF x
<1>5. AnswersLast(x)
  BY <1>2 DEF AnswersLast
<1>6. StreamEnds(x)
  <2>1. CASE stream = <<>>
    <3>1. x.stream = <<>> /\ DOMAIN x.stream = {}
      BY <1>2, <2>1
    <3>2. x.open = (kind = "stream") /\ kind # "stream"
      BY <1>2, <2>1
    <3>3. ~x.open
      BY ONLY <3>2
    <3> QED
      BY <3>1, <3>3 DEF StreamEnds
  <2>2. CASE stream # <<>>
    <3> DEFINE e == A2a!Status("working", FALSE)
    <3>1. ~e.final
      BY DEF A2a!Status
    <3> HIDE DEF e
    <3>2. stream = <<e>>
      BY <2>2 DEF e
    <3>3. stream[1] = e /\ DOMAIN stream = {1}
      BY <3>2
    <3>4. x.stream # <<>> /\ x.stream[1] = e /\ DOMAIN x.stream = {1}
      BY <1>2, <2>2, <3>3
    <3>5. \A i \in DOMAIN x.stream : ~FinalAt(x.stream, i)
      BY <3>1, <3>4 DEF FinalAt
    <3> QED
      BY <3>4, <3>5 DEF StreamEnds, e
  <2> QED
    BY <2>1, <2>2
<1>7. /\ task \in [Sends -> A2aObjects] /\ tasks \in [TaskIds -> Sends \cup {None}]
      /\ tool \in [Sends -> A2aTools]
      /\ \A r \in Sends : AnswersLast(task[r]) /\ StreamEnds(task[r])
  BY DEF A2aInv, A2aTypes
<1>8. /\ task' \in [Sends -> A2aObjects] /\ task'[s] = x
      /\ \A r \in Sends : r # s => task'[r] = task[r]
      /\ tasks' \in [TaskIds -> Sends \cup {None}] /\ tasks'[id] = s
      /\ \A i \in TaskIds : i # id => tasks'[i] = tasks[i]
      /\ tool' \in [Sends -> A2aTools] /\ tool'[s] = tl
      /\ \A r \in Sends : r # s => tool'[r] = tool[r]
  BY <1>1, <1>4, <1>7
<1>9. A2aTypes'
  BY <1>1, <1>8 DEF A2aInv, A2aTypes
<1>10. /\ ~A2aBegun(s) /\ \A r \in Sends : r < s => A2aBegun(r)
  BY <1>1 DEF A2a!Unsent, A2aBegun
<1>11. \A r \in Sends : task'[r].handler # "none" <=> (r = s \/ A2aBegun(r))
  BY <1>2, <1>8 DEF A2aBegun
<1>12. \A r \in Sends : A2aBegun(r) => r < s
  <2>1. ASSUME NEW r \in Sends, A2aBegun(r) PROVE ~(s < r)
    BY <1>10, <2>1 DEF A2aInv, MapIsLast
  <2>2. ASSUME NEW r \in Sends, A2aBegun(r) PROVE r # s
    BY <1>10, <2>2
  <2> QED
    BY <2>1, <2>2, A2aBounds
<1>13. MapIsLast'
  <2>1. \A r, q \in Sends : task'[r].handler # "none" /\ q < r => task'[q].handler # "none"
    <3> SUFFICES ASSUME NEW r \in Sends, NEW q \in Sends, task'[r].handler # "none", q < r
                 PROVE  A2aBegun(q)
      BY <1>11
    <3>1. CASE r = s
      BY <1>10, <3>1
    <3>2. CASE A2aBegun(r)
      BY <3>2 DEF A2aInv, MapIsLast
    <3> QED
      BY <1>11, <3>1, <3>2
  <2>2. ASSUME NEW i \in TaskIds, tasks'[i] # None
        PROVE  task'[tasks'[i]].handler # "none"
    <3>1. CASE i = id
      BY <1>8, <1>11, <3>1
    <3>2. CASE i # id
      <4>1. tasks'[i] = tasks[i] /\ tasks[i] \in Sends /\ A2aBegun(tasks[i])
        BY <1>7, <1>8, <2>2, <3>2 DEF A2aInv, MapIsLast
      <4> QED
        BY <1>11, <4>1
    <3> QED
      BY <3>1, <3>2
  <2>3. ASSUME NEW r \in Sends, task'[r].handler # "none"
        PROVE  /\ task'[r].id \in TaskIds
               /\ tasks'[task'[r].id] # None => tasks'[task'[r].id] >= r
    <3>1. CASE r = s
      BY <1>2, <1>8, <3>1, A2aBounds
    <3>2. CASE r # s
      <4>1. /\ A2aBegun(r) /\ task'[r] = task[r] /\ task[r].id \in TaskIds
            /\ tasks[task[r].id] # None => tasks[task[r].id] >= r
        BY <1>8, <1>11, <2>3, <3>2 DEF A2aInv, MapIsLast
      <4>2. r < s /\ s \in Nat /\ r \in Nat
        BY <1>12, <4>1, A2aBounds
      <4>3. CASE task[r].id = id
        BY <1>8, <4>1, <4>2, <4>3
      <4>4. CASE task[r].id # id
        BY <1>8, <4>1, <4>4
      <4> QED
        BY <4>3, <4>4
    <3> QED
      BY <3>1, <3>2
  <2> QED
    BY <2>1, <2>2, <2>3 DEF MapIsLast, A2aBegun
<1>14. ToolsTold'
  <2>1. \A r \in Sends : tool'[r].at = "waiting" => task'[r].handler # "none"
    BY <1>8, <1>11 DEF A2aInv, ToolsTold
  <2>2. ASSUME NEW r \in Sends, tool'[r].from # None
        PROVE  tool'[r] = tool[r]
    BY <1>8, <2>2
  <2>3. ASSUME NEW r \in Sends, tool[r].from # None
        PROVE  /\ tool[r].from >= r /\ task'[tool[r].from].handler # "none"
               /\ tool[r].state = "completed" => tool[r].text = "agent"
               /\ tool[r].state = "failed" /\ task'[tool[r].from].kind = "send"
                      => tool[r].text = "error"
    <3>1. tool[r].from \in Sends
      BY <1>7, <2>3 DEF A2aTools
    <3>2. /\ tool[r].from >= r /\ A2aBegun(tool[r].from)
          /\ tool[r].state = "completed" => tool[r].text = "agent"
          /\ tool[r].state = "failed" /\ task[tool[r].from].kind = "send"
                 => tool[r].text = "error"
      BY <2>3 DEF A2aInv, ToolsTold
    <3>3. tool[r].from # s
      BY <1>10, <3>2
    <3>4. task'[tool[r].from] = task[tool[r].from]
      BY <1>8, <3>1, <3>3
    <3> QED
      BY <3>2, <3>4 DEF A2aBegun
  <2> QED
    BY <2>1, <2>2, <2>3 DEF ToolsTold, A2aBegun
<1>15. \A r \in Sends : AnswersLast(task'[r]) /\ StreamEnds(task'[r])
  BY <1>5, <1>6, <1>7, <1>8
<1> QED
  BY <1>9, <1>13, <1>14, <1>15 DEF A2aInv

\* A tool is told, of a request of its id that is not an earlier one.
LEMMA A2aTells ==
    ASSUME A2aInv, NEW s \in Sends, NEW tl \in A2aTools, tool' = [tool EXCEPT ![s] = tl],
           tl.at # "waiting" , UNCHANGED <<tasks, task, cancels>>,
           tl.from # None =>
               /\ tl.from >= s /\ A2aBegun(tl.from)
               /\ tl.state = "completed" => tl.text = "agent"
               /\ tl.state = "failed" /\ task[tl.from].kind = "send" => tl.text = "error"
    PROVE  A2aInv'
<1>1. tool' \in [Sends -> A2aTools] /\ \A r \in Sends : tool'[r] = IF r = s THEN tl ELSE tool[r]
  BY DEF A2aInv, A2aTypes
<1>2. A2aTypes'
  BY <1>1 DEF A2aInv, A2aTypes
<1>3. MapIsLast'
  BY DEF A2aInv, MapIsLast, A2aBegun
<1>4. ToolsTold'
  <2>1. \A r \in Sends : A2aBegun(r)' = A2aBegun(r)
    BY DEF A2aBegun
  <2>2. ASSUME NEW r \in Sends
        PROVE  /\ tool'[r].at = "waiting" => task'[r].handler # "none"
               /\ tool'[r].from # None =>
                      /\ tool'[r].from >= r /\ task'[tool'[r].from].handler # "none"
                      /\ tool'[r].state = "completed" => tool'[r].text = "agent"
                      /\ tool'[r].state = "failed" /\ task'[tool'[r].from].kind = "send"
                             => tool'[r].text = "error"
    <3>1. CASE r = s
      BY <1>1, <3>1 DEF A2aBegun
    <3>2. CASE r # s
      BY <1>1, <3>2 DEF A2aInv, ToolsTold, A2aBegun
    <3> QED
      BY <3>1, <3>2
  <2> QED
    BY <2>2 DEF ToolsTold, A2aBegun
<1> QED
  BY <1>2, <1>3, <1>4 DEF A2aInv

\* At first nothing is sent,
LEMMA A2aInit == A2a!AInit => A2aInv
<1> SUFFICES ASSUME A2a!AInit PROVE A2aInv
  OBVIOUS
<1> DEFINE f == A2a!Fresh
           n == A2a!NoTool
<1>1. /\ tasks = [id \in TaskIds |-> None] /\ task = [s \in Sends |-> f]
      /\ tool = [s \in Sends |-> n] /\ cancels = 0
  BY DEF A2a!AInit
<1>2. "submitted" \in A2aStates /\ <<"user">> \in Seq({"user", "agent", "error"})
      /\ 0 \in Nat /\ <<>> \in Seq(A2aEvents) /\ FALSE \in BOOLEAN /\ 0 \in 0..MaxCancels
  BY A2aBounds DEF A2aStates
<1>3. f \in A2aObjects
  BY <1>2 DEF A2a!Fresh, A2aObjects
<1>4. n \in A2aTools
  BY <1>2 DEF A2a!NoTool, A2aTools
<1>5. f.handler = "none" /\ f.state = "submitted" /\ f.messages = <<"user">> /\ f.stream = <<>>
      /\ f.open = FALSE
  BY DEF A2a!Fresh
<1>6. n.at = "none" /\ n.from = None
  BY DEF A2a!NoTool
<1> HIDE DEF f, n
<1>7. A2aTypes
  BY <1>1, <1>2, <1>3, <1>4 DEF A2aTypes
<1>8. AnswersLast(f) /\ StreamEnds(f)
  BY <1>5 DEF AnswersLast, StreamEnds
<1>9. \A s \in Sends : task[s] = f /\ tool[s] = n
  BY <1>1
<1>10. MapIsLast /\ ToolsTold
  BY <1>1, <1>5, <1>6, <1>9 DEF MapIsLast, ToolsTold, A2aBegun
<1> QED
  BY <1>7, <1>8, <1>9, <1>10 DEF A2aInv

\* a client polls what its request is kept under,
LEMMA A2aPolls ==
    ASSUME A2aInv, NEW s \in Sends, A2a!Poll(s)
    PROVE  A2aInv'
<1> DEFINE found == tasks[task[s].id]
<1>1. tool[s].at = "waiting" /\ UNCHANGED <<tasks, task, cancels>>
  BY DEF A2a!Poll
<1>2. tool[s] \in A2aTools /\ A2aBegun(s) /\ task[s].id \in TaskIds
  BY <1>1 DEF A2aInv, A2aTypes, ToolsTold, MapIsLast
<1>3. found \in Sends \cup {None} /\ (found # None => found >= s /\ A2aBegun(found))
  BY <1>2 DEF A2aInv, A2aTypes, MapIsLast
<1>4. CASE found = None
  <2> DEFINE tl == [tool[s] EXCEPT !.at = "threw"]
  <2>1. tool' = [tool EXCEPT ![s] = tl]
    BY <1>4 DEF A2a!Poll
  <2>2. /\ tl \in A2aTools /\ tl.at = "threw" /\ tl.from = tool[s].from
        /\ tl.state = tool[s].state /\ tl.text = tool[s].text
    BY <1>2 DEF A2aTools
  <2> HIDE DEF tl
  <2>3. tl.from # None =>
             /\ tl.from >= s /\ A2aBegun(tl.from)
             /\ tl.state = "completed" => tl.text = "agent"
             /\ tl.state = "failed" /\ task[tl.from].kind = "send" => tl.text = "error"
    BY <2>2 DEF A2aInv, ToolsTold
  <2> QED
    BY <1>1, <2>1, <2>2, <2>3, A2aTells
<1>5. CASE found # None
  <2> DEFINE tl == [at |-> "returned", state |-> task[found].state,
                    text |-> A2a!Last(task[found].messages), from |-> found]
  <2>1. tool' = [tool EXCEPT ![s] = tl]
    BY <1>5 DEF A2a!Poll
  <2>2. task[found] \in A2aObjects /\ AnswersLast(task[found]) /\ found \in Sends
    BY <1>3, <1>5 DEF A2aInv, A2aTypes
  <2> HIDE DEF found
  <2>3. /\ task[found].messages \in Seq({"user", "agent", "error"})
        /\ task[found].messages # <<>> /\ task[found].state \in A2aStates
    BY <2>2 DEF A2aObjects, AnswersLast
  <2>4. A2a!Last(task[found].messages) \in {"user", "agent", "error"}
    BY <2>3 DEF A2a!Last
  <2>5. /\ tl \in A2aTools /\ tl.at = "returned" /\ tl.from = found
        /\ tl.state = task[found].state /\ tl.text = A2a!Last(task[found].messages)
    BY <2>2, <2>3, <2>4 DEF A2aTools
  <2> HIDE DEF tl
  <2>6. tl.from # None =>
             /\ tl.from >= s /\ A2aBegun(tl.from)
             /\ tl.state = "completed" => tl.text = "agent"
             /\ tl.state = "failed" /\ task[tl.from].kind = "send" => tl.text = "error"
    BY <1>3, <1>5, <2>2, <2>5 DEF AnswersLast
  <2> QED
    BY <1>1, <2>1, <2>5, <2>6, A2aTells
<1> QED
  BY <1>4, <1>5

\* or gives up.
LEMMA A2aGivesUp ==
    ASSUME A2aInv, NEW s \in Sends, A2a!GivesUp(s)
    PROVE  A2aInv'
<1> DEFINE tl == [tool[s] EXCEPT !.at = "threw"]
<1>1. UNCHANGED <<tasks, task, cancels>> /\ tool' = [tool EXCEPT ![s] = tl]
  BY DEF A2a!GivesUp
<1>2. tool[s] \in A2aTools
  BY DEF A2aInv, A2aTypes
<1>3. /\ tl \in A2aTools /\ tl.at = "threw" /\ tl.from = tool[s].from
      /\ tl.state = tool[s].state /\ tl.text = tool[s].text
  BY <1>2 DEF A2aTools
<1> HIDE DEF tl
<1>4. tl.from # None =>
           /\ tl.from >= s /\ A2aBegun(tl.from)
           /\ tl.state = "completed" => tl.text = "agent"
           /\ tl.state = "failed" /\ task[tl.from].kind = "send" => tl.text = "error"
  BY <1>3 DEF A2aInv, ToolsTold
<1> QED
  BY <1>1, <1>3, <1>4, A2aTells

\* The server, when it restarts, has no map, and its objects are closed.
LEMMA A2aRestarts == ASSUME A2aInv, A2a!Restart PROVE A2aInv'
<1> DEFINE h(s) == IF task[s].handler = "running" THEN "gone" ELSE task[s].handler
<1>1. /\ tasks' = [id \in TaskIds |-> None] /\ UNCHANGED <<tool, cancels>>
      /\ task' = [s \in Sends |-> [task[s] EXCEPT !.handler = h(s), !.open = FALSE]]
  BY DEF A2a!Restart
<1>2. ASSUME NEW s \in Sends
      PROVE  /\ task'[s] \in A2aObjects /\ AnswersLast(task'[s]) /\ StreamEnds(task'[s])
             /\ task'[s].id = task[s].id /\ task'[s].kind = task[s].kind
             /\ task'[s].handler = "none" <=> task[s].handler = "none"
  <2>1. task[s] \in A2aObjects /\ AnswersLast(task[s]) /\ StreamEnds(task[s])
    BY DEF A2aInv, A2aTypes
  <2>2. /\ h(s) \in {"none", "running", "ended", "gone"}
        /\ (task[s].handler = "ended" <=> h(s) = "ended") /\ (h(s) = "none" <=> task[s].handler = "none")
    BY <2>1 DEF A2aObjects
  <2>3. task'[s] = [task[s] EXCEPT !.handler = h(s), !.open = FALSE]
    BY <1>1
  <2>4. task'[s] = ClosedObject(task[s], h(s))
    BY <2>3 DEF ClosedObject
  <2> HIDE DEF h
  <2>5. /\ task'[s] \in A2aObjects /\ AnswersLast(task'[s]) /\ StreamEnds(task'[s])
        /\ task'[s].id = task[s].id /\ task'[s].kind = task[s].kind /\ task'[s].handler = h(s)
    BY ONLY <2>1, <2>2, <2>4, ObjectCloses
  <2> QED
    BY <2>2, <2>5
<1>3. task' \in [Sends -> A2aObjects]
  <2>1. task' = [s \in Sends |-> task'[s]]
    BY <1>1
  <2> QED
    BY <1>2, <2>1
<1>4. /\ tasks' \in [TaskIds -> Sends \cup {None}]
      /\ \A id \in TaskIds : tasks'[id] = None
  BY <1>1
<1>5. cancels' \in 0..MaxCancels
  BY <1>1 DEF A2aInv, A2aTypes
<1> QED
  BY <1>1, <1>2, <1>3, <1>4, <1>5, A2aSettles

\* Every step keeps the invariant,
LEMMA A2aNext == A2aInv /\ A2a!ANext => A2aInv'
<1> SUFFICES ASSUME A2aInv, A2a!ANext PROVE A2aInv'
  OBVIOUS
<1>1. ASSUME NEW s \in Sends, NEW id \in TaskIds, A2a!Send(s, id)
      PROVE  A2aInv'
  <2>1. PICK at \in {"waiting", "returned", "threw"} :
             tool' = [tool EXCEPT ![s] = [A2a!NoTool EXCEPT !.at = at, !.state = "working"]]
    BY <1>1 DEF A2a!Send
  <2> DEFINE tl == [A2a!NoTool EXCEPT !.at = at, !.state = "working"]
  <2>2. tl \in A2aTools /\ tl.from = None
    BY DEF A2a!NoTool, A2aTools, A2aStates
  <2>3. tool' = [tool EXCEPT ![s] = tl]
    BY <2>1
  <2> HIDE DEF tl
  <2>4. A2a!Begin(s, id, "send", <<>>)
    BY <1>1 DEF A2a!Send
  <2>5. <<>> \in Seq(A2aEvents) /\ "send" \in {"send", "stream"}
    OBVIOUS
  <2>6. ASSUME NEW stream, stream = <<>>
        PROVE  /\ stream \in Seq(A2aEvents) /\ (("send" = "stream") <=> stream # <<>>)
               /\ A2a!Begin(s, id, "send", stream)
               /\ stream # <<>> => stream = <<A2a!Status("working", FALSE)>>
    BY <2>4, <2>5, <2>6
  <2> QED
    BY <2>2, <2>3, <2>5, <2>6, A2aBegins
<1>2. ASSUME NEW s \in Sends, NEW id \in TaskIds, A2a!SendSubscribe(s, id)
      PROVE  A2aInv'
  <2> DEFINE w == A2a!Status("working", FALSE)
             stream == <<w>>
  <2>1. A2a!Begin(s, id, "stream", stream) /\ tool' = tool
    BY <1>2 DEF A2a!SendSubscribe
  <2>2. tool \in [Sends -> A2aTools]
    BY DEF A2aInv, A2aTypes
  <2>3. tool' = [tool EXCEPT ![s] = tool[s]] /\ tool[s] \in A2aTools
    BY <2>1, <2>2
  <2>4. w \in A2aEvents
    BY DEF A2a!Status, A2aEvents, A2aStates
  <2>5. stream \in Seq(A2aEvents) /\ stream # <<>>
    <3> HIDE DEF w
    <3> QED
      BY <2>4
  <2>6. stream = <<A2a!Status("working", FALSE)>> /\ "stream" \in {"send", "stream"}
    OBVIOUS
  <2> HIDE DEF stream, w
  <2> QED
    BY <2>1, <2>3, <2>5, <2>6, A2aBegins
<1>3. ASSUME NEW s \in Sends, A2a!Chunk(s)
      PROVE  A2aInv'
  <2> DEFINE x == YieldedObject(task[s])
  <2>1. /\ task' = [task EXCEPT ![s] = x] /\ task[s].handler = "running"
        /\ tasks' = tasks /\ tool' = tool /\ cancels' \in 0..MaxCancels
    BY <1>3 DEF A2a!Chunk, A2a!Sent, A2aInv, A2aTypes, YieldedObject
  <2>2. task[s] \in A2aObjects /\ AnswersLast(task[s]) /\ StreamEnds(task[s])
    BY DEF A2aInv, A2aTypes
  <2>3. /\ x \in A2aObjects /\ AnswersLast(x) /\ StreamEnds(x)
        /\ x.id = task[s].id /\ x.kind = task[s].kind /\ x.handler = task[s].handler
    BY ONLY <2>1, <2>2, ObjectYields
  <2> HIDE DEF x
  <2> QED
    BY <2>1, <2>3, A2aSettlesOne
<1>4. ASSUME NEW s \in Sends, NEW ok \in BOOLEAN, A2a!HandlerEnds(s, ok)
      PROVE  A2aInv'
  <2> DEFINE last == IF ok THEN "completed" ELSE "failed"
             more == A2a!EndEvents(ok)
             x == EndedObject(task[s], last, more)
  <2>1. task[s] \in A2aObjects /\ AnswersLast(task[s]) /\ StreamEnds(task[s])
    BY DEF A2aInv, A2aTypes
  <2>2. /\ task[s].handler = "running" /\ tasks' = tasks /\ tool' = tool
        /\ cancels' \in 0..MaxCancels
    BY <1>4 DEF A2a!HandlerEnds, A2aInv, A2aTypes
  <2>3. task' = [task EXCEPT ![s] = x]
    <3>1. (IF ok \/ task[s].kind = "send"
           THEN Append(task[s].messages, IF ok THEN "agent" ELSE "error")
           ELSE task[s].messages) = Said(task[s], last)
      <4>1. CASE ok
        BY <4>1 DEF Said
      <4>2. CASE ~ok
        BY <4>2 DEF Said
      <4> QED
        BY <4>1, <4>2
    <3> QED
      BY <1>4, <3>1 DEF A2a!HandlerEnds, A2a!Sent, EndedObject
  <2>4. last \in {"completed", "failed"}
    OBVIOUS
  <2>5. EndsWith(more, last)
    BY EndOfStream DEF EndsWith
  <2> HIDE DEF last, more
  <2>7. /\ x \in A2aObjects /\ AnswersLast(x) /\ StreamEnds(x)
        /\ x.id = task[s].id /\ x.kind = task[s].kind /\ x.handler = "ended"
    BY ONLY <2>1, <2>2, <2>4, <2>5, ObjectEnds
  <2> HIDE DEF x
  <2>8. x.handler = "none" <=> task[s].handler = "none"
    BY <2>2, <2>7
  <2> QED
    BY <2>1, <2>2, <2>3, <2>7, <2>8, A2aSettlesOne
<1>5. ASSUME NEW s \in Sends, A2a!Disconnect(s)
      PROVE  A2aInv'
  <2> DEFINE x == ClosedObject(task[s], task[s].handler)
  <2>1. task[s] \in A2aObjects /\ AnswersLast(task[s]) /\ StreamEnds(task[s])
    BY DEF A2aInv, A2aTypes
  <2>2. x = [task[s] EXCEPT !.open = FALSE] /\ task[s].handler \in {"none", "running", "ended", "gone"}
    BY <2>1 DEF A2aObjects, ClosedObject
  <2>3. /\ task' = [task EXCEPT ![s] = x]
        /\ tasks' = tasks /\ tool' = tool /\ cancels' \in 0..MaxCancels
    BY <1>5, <2>2 DEF A2a!Disconnect, A2aInv, A2aTypes
  <2>4. /\ x \in A2aObjects /\ AnswersLast(x) /\ StreamEnds(x)
        /\ x.id = task[s].id /\ x.kind = task[s].kind /\ x.handler = task[s].handler
    BY ONLY <2>1, <2>2, ObjectCloses
  <2> HIDE DEF x
  <2> QED
    BY <2>3, <2>4, A2aSettlesOne
<1>6. ASSUME NEW id \in TaskIds, A2a!Cancel(id)
      PROVE  A2aInv'
  <2> DEFINE s == tasks[id]
             x == [task[s] EXCEPT !.state = "canceled"]
  <2>1. s \in Sends
    BY <1>6 DEF A2a!Cancel, A2aInv, A2aTypes
  <2>2. cancels' \in 0..MaxCancels
    BY <1>6, A2aBounds DEF A2a!Cancel, A2aInv, A2aTypes
  <2>3. task' = [task EXCEPT ![s] = x] /\ tasks' = tasks /\ tool' = tool
    BY <1>6 DEF A2a!Cancel
  <2> HIDE DEF s
  <2>4. task[s] \in A2aObjects /\ AnswersLast(task[s]) /\ StreamEnds(task[s])
    BY <2>1 DEF A2aInv, A2aTypes
  <2>5. /\ x \in A2aObjects /\ AnswersLast(x) /\ StreamEnds(x)
        /\ x.id = task[s].id /\ x.kind = task[s].kind /\ x.handler = task[s].handler
    BY <2>4, ObjectCanceled
  <2> HIDE DEF x
  <2> QED
    BY <2>1, <2>2, <2>3, <2>5, A2aSettlesOne
<1> QED
  BY <1>1, <1>2, <1>3, <1>4, <1>5, <1>6, A2aPolls, A2aGivesUp, A2aRestarts DEF A2a!ANext

\* and none does.
LEMMA A2aStutters == A2aInv /\ UNCHANGED a2aVars => A2aInv'
BY DEF a2aVars, A2aInv, A2aTypes, MapIsLast, ToolsTold, A2aBegun

\* What the run checks follows from it.
LEMMA A2aTyped == A2aInv => A2a!ATypeOK /\ A2a!A2aSafe
<1> SUFFICES ASSUME A2aInv PROVE A2a!ATypeOK /\ A2a!A2aSafe
  OBVIOUS
<1>1. \A s \in Sends : task[s] \in A2aObjects /\ tool[s] \in A2aTools
  BY DEF A2aInv, A2aTypes
<1>2. ASSUME NEW s \in Sends
      PROVE  A2a!ToSet(task[s].messages) \subseteq {"user", "agent", "error"}
  <2>1. task[s].messages \in Seq({"user", "agent", "error"})
    BY <1>1 DEF A2aObjects
  <2> QED
    BY <2>1 DEF A2a!ToSet
<1>3. \A s \in Sends : /\ task[s].id \in TaskIds \cup {None}
                       /\ task[s].handler \in {"none", "running", "ended", "gone"}
                       /\ task[s].state \in A2a!Terminal \cup {"submitted", "working"}
                       /\ tool[s].at \in {"none", "waiting", "returned", "threw"}
  BY <1>1 DEF A2aObjects, A2aTools, A2aStates
<1>4. A2a!ATypeOK
  BY <1>2, <1>3 DEF A2a!ATypeOK, A2aInv, A2aTypes
<1>5. A2a!ToolTellsTruth
  BY DEF A2a!ToolTellsTruth, A2aInv, ToolsTold
<1>6. A2a!EndedIsTerminal
  BY DEF A2a!EndedIsTerminal, A2aInv, AnswersLast
<1>7. A2a!StreamsWellFormed
  <2>1. ASSUME NEW s \in Sends
        PROVE  \A i \in DOMAIN task[s].stream :
                   (task[s].stream[i].type = "status" /\ task[s].stream[i].final) =>
                       /\ i = Len(task[s].stream)
                       /\ task[s].state \in {task[s].stream[i].state, "canceled"}
    BY DEF A2aInv, StreamEnds, FinalAt
  <2>2. \A s \in Sends : task[s].stream # <<>> => task[s].stream[1] = A2a!Status("working", FALSE)
    BY DEF A2aInv, StreamEnds
  <2> QED
    BY <2>1, <2>2 DEF A2a!StreamsWellFormed
<1> QED
  BY <1>4, <1>5, <1>6, <1>7 DEF A2a!A2aSafe

(***************************************************************************)
(* The graph REST server: what is reported as running or completed is of a *)
(* thread, and the checkpoint an execution knows of stays.                 *)
(***************************************************************************)
\* What an execution is; one that was started is of a thread, and one that is
\* reported as completed has left a checkpoint of it.
RestExecs ==
    [thread : Threads \cup {None}, by : {None, "run", "stream", "resume"},
     status : {"none", "running", "completed", "failed", "lost"},
     http : {"none", "202", "open", "closed"}, known : {"unread", "none", "some"}]

\* The types, and the invariant: what an execution knows to be there is there.
RestTypes ==
    /\ threads \in SUBSET Threads /\ patched \in SUBSET Threads
    /\ saved \in [Threads -> Rest!Checkpoints \cup {None}]
    /\ exec \in [Executions -> RestExecs]
RestInv ==
    /\ RestTypes /\ Rest!ReportsAgree
    /\ \A e \in Executions :
          /\ exec[e].status \in {"running", "completed"} => exec[e].thread \in Threads
          /\ exec[e].known = "some" => exec[e].thread \in Threads /\ saved[exec[e].thread] # None

\* No thread and no checkpoint is the one that is missing.
LEMMA RestBounds == None \notin Threads /\ None \notin Rest!Checkpoints
BY BackendsAssumption DEF Rest!GraphServerAssumption

\* Init and every request keep the invariant of the server.
LEMMA RestInit == Rest!GInit => RestInv
<1> SUFFICES ASSUME Rest!GInit PROVE RestInv
  OBVIOUS
<1>1. Rest!Unstarted \in RestExecs /\ Rest!Unstarted.status = "none"
      /\ Rest!Unstarted.http = "none" /\ Rest!Unstarted.known = "unread"
  BY DEF Rest!Unstarted, RestExecs
<1> QED
  BY <1>1 DEF Rest!GInit, RestInv, RestTypes, Rest!ReportsAgree

\* Nothing but the map of threads and the requests to patch one change.
LEMMA RestThreads ==
    ASSUME RestInv, threads' \subseteq Threads, patched' \subseteq Threads,
           UNCHANGED <<saved, exec>>
    PROVE  RestInv'
BY DEF RestInv, RestTypes, Rest!ReportsAgree

\* A checkpoint is updated.
LEMMA RestPatchEnds ==
    ASSUME RestInv, NEW t \in Threads, Rest!PatchEnds(t)
    PROVE  RestInv'
<1>1. saved' \in [Threads -> Rest!Checkpoints \cup {None}]
  BY DEF Rest!PatchEnds, RestInv, RestTypes, Rest!Checkpoints
<1>2. \A s \in Threads : saved[s] # None => saved'[s] # None
  BY RestBounds DEF Rest!PatchEnds, RestInv, RestTypes, Rest!Checkpoints
<1> QED
  BY <1>1, <1>2 DEF Rest!PatchEnds, RestInv, RestTypes, Rest!ReportsAgree

\* An execution begins,
LEMMA RestStart ==
    ASSUME RestInv, NEW e \in Executions, NEW t \in Threads,
           NEW by \in {"run", "stream", "resume"}, Rest!Start(e, t, by)
    PROVE  RestInv'
<1> DEFINE x == [thread |-> t, by |-> by, status |-> "running",
                 http |-> IF by = "run" THEN "202" ELSE "open", known |-> "unread"]
<1>1. x \in RestExecs /\ x.status = "running" /\ x.thread = t /\ x.known = "unread"
  BY DEF RestExecs
<1>2. exec' = [exec EXCEPT ![e] = x] /\ UNCHANGED <<threads, saved, patched>>
  BY DEF Rest!Start
<1> HIDE DEF x
<1>3. exec' \in [Executions -> RestExecs] /\ exec'[e] = x
      /\ \A f \in Executions \ {e} : exec'[f] = exec[f]
  BY <1>1, <1>2 DEF RestInv, RestTypes
<1> QED
  BY <1>1, <1>2, <1>3 DEF RestInv, RestTypes, Rest!ReportsAgree

\* looks for a checkpoint, saves one after a superstep,
LEMMA RestRuns ==
    ASSUME RestInv, NEW e \in Executions, Rest!Loads(e) \/ Rest!Superstep(e)
    PROVE  RestInv'
<1>1. exec[e] \in RestExecs /\ exec[e].thread \in Threads /\ exec[e].status = "running"
  BY DEF Rest!Loads, Rest!Superstep, Rest!Runs, RestInv, RestTypes
<1>2. PICK k \in {"none", "some"} :
         /\ exec' = [exec EXCEPT ![e].known = k]
         /\ k = "some" => saved'[exec[e].thread] # None
  BY <1>1, RestBounds DEF Rest!Loads, Rest!Superstep, RestInv, RestTypes, Rest!Checkpoints
<1> DEFINE x == [exec[e] EXCEPT !.known = k]
<1>3. /\ x \in RestExecs /\ x.thread = exec[e].thread /\ x.status = "running"
      /\ x.http = exec[e].http /\ x.known = k
  BY <1>1 DEF RestExecs
<1>4. exec' = [exec EXCEPT ![e] = x]
  BY <1>1, <1>2 DEF RestInv, RestTypes, RestExecs
<1> HIDE DEF x
<1>5. exec' \in [Executions -> RestExecs] /\ exec'[e] = x
      /\ \A f \in Executions \ {e} : exec'[f] = exec[f]
  BY <1>3, <1>4 DEF RestInv, RestTypes
<1>6. /\ saved' \in [Threads -> Rest!Checkpoints \cup {None}]
      /\ \A s \in Threads : saved[s] # None => saved'[s] # None
      /\ threads' \in SUBSET Threads /\ patched' \in SUBSET Threads
  BY <1>1, RestBounds DEF Rest!Loads, Rest!Superstep, RestInv, RestTypes, Rest!Checkpoints
<1> QED
  BY <1>1, <1>2, <1>3, <1>5, <1>6 DEF RestInv, RestTypes, Rest!ReportsAgree

\* and ends.
LEMMA RestEnds ==
    ASSUME RestInv, NEW e \in Executions, NEW how \in {"end", "exhausted", "interrupt", "thrown"},
           Rest!Ends(e, how)
    PROVE  RestInv'
<1> DEFINE t == exec[e].thread
           x == [exec[e] EXCEPT !.status = Rest!StatusAfter(e, how),
                                !.http = IF exec[e].http = "open" THEN "closed" ELSE exec[e].http]
<1>1. exec[e] \in RestExecs /\ t \in Threads
  BY DEF Rest!Ends, RestInv, RestTypes
<1>2. Rest!StatusAfter(e, how) \in {"completed", "failed"}
      /\ (Rest!StatusAfter(e, how) = "completed" => how \in {"end", "exhausted"})
  BY DEF Rest!StatusAfter
<1>3. /\ x \in RestExecs /\ x.thread = t /\ x.status = Rest!StatusAfter(e, how)
      /\ x.http # "open" /\ x.known = exec[e].known
  BY <1>1, <1>2 DEF RestExecs
<1>4. exec' = [exec EXCEPT ![e] = x]
  BY <1>1 DEF Rest!Ends, RestInv, RestTypes, RestExecs
<1> HIDE DEF x
<1>5. exec' \in [Executions -> RestExecs] /\ exec'[e] = x
      /\ \A f \in Executions \ {e} : exec'[f] = exec[f]
  BY <1>3, <1>4 DEF RestInv, RestTypes
<1>6. /\ saved' \in [Threads -> Rest!Checkpoints \cup {None}]
      /\ how \in {"end", "exhausted"} => saved'[t] # None
      /\ \A s \in Threads : saved[s] # None => saved'[s] # None
  BY <1>1, RestBounds DEF Rest!Ends, RestInv, RestTypes, Rest!Checkpoints
<1>7. \A f \in Executions : exec'[f].status = "completed" => saved'[exec'[f].thread] # None
  BY <1>1, <1>2, <1>3, <1>5, <1>6 DEF RestInv, Rest!ReportsAgree
<1>8. \A f \in Executions : exec'[f].http = "open" => exec'[f].status = "running"
  BY <1>3, <1>5 DEF RestInv, Rest!ReportsAgree
<1>9. \A f \in Executions : exec'[f].status \in {"running", "completed"} => exec'[f].thread \in Threads
  BY <1>1, <1>3, <1>5 DEF RestInv
<1>10. threads' \in SUBSET Threads /\ patched' \in SUBSET Threads
  BY DEF Rest!Ends, RestInv, RestTypes
<1>11. \A f \in Executions : exec'[f].known = "some" =>
           exec'[f].thread \in Threads /\ saved'[exec'[f].thread] # None
  BY <1>3, <1>5, <1>6 DEF RestInv
<1> QED
  BY <1>5, <1>6, <1>7, <1>8, <1>9, <1>10, <1>11 DEF RestInv, RestTypes, Rest!ReportsAgree

\* The server restarts.
LEMMA RestRestarts ==
    ASSUME RestInv, Rest!ServerRestart
    PROVE  RestInv'
<1> DEFINE x(e) == IF exec[e] = Rest!Unstarted THEN Rest!Unstarted
                   ELSE [exec[e] EXCEPT
                            !.status = IF exec[e].status = "running" THEN "lost" ELSE exec[e].status,
                            !.http = IF exec[e].http = "open" THEN "closed" ELSE exec[e].http]
<1>0. exec' = [e \in Executions |-> x(e)]
  BY DEF Rest!ServerRestart, RestInv, RestTypes, RestExecs
<1>1. exec' \in [Executions -> RestExecs]
  <2>1. ASSUME NEW e \in Executions PROVE x(e) \in RestExecs
    <3>1. exec[e] \in RestExecs /\ Rest!Unstarted \in RestExecs
      BY DEF RestInv, RestTypes, RestExecs, Rest!Unstarted
    <3>2. ASSUME NEW r \in RestExecs
          PROVE  [r EXCEPT !.status = IF r.status = "running" THEN "lost" ELSE r.status,
                           !.http = IF r.http = "open" THEN "closed" ELSE r.http] \in RestExecs
      BY DEF RestExecs
    <3> QED
      BY <3>1, <3>2
  <2> HIDE DEF x
  <2> QED
    BY <1>0, <2>1
<1>2. ASSUME NEW e \in Executions
      PROVE  /\ exec'[e].thread = exec[e].thread /\ exec'[e].known = exec[e].known
             /\ exec'[e].http # "open"
             /\ exec'[e].status \in {"running", "completed"} => exec[e].status = exec'[e].status
  <2>1. exec[e] \in RestExecs
    BY DEF RestInv, RestTypes
  <2>2. CASE exec[e] = Rest!Unstarted
    BY <1>0, <2>2 DEF Rest!Unstarted
  <2>3. CASE exec[e] # Rest!Unstarted
    BY <1>0, <2>1, <2>3 DEF RestExecs
  <2> QED
    BY <2>2, <2>3
<1>3. /\ threads' \in SUBSET Threads /\ patched' \in SUBSET Threads /\ saved' = saved
      /\ saved \in [Threads -> Rest!Checkpoints \cup {None}]
  BY DEF Rest!ServerRestart, RestInv, RestTypes
<1>4. \A e \in Executions :
          /\ exec'[e].status = "completed" => saved'[exec'[e].thread] # None
          /\ exec'[e].http = "open" => exec'[e].status = "running"
          /\ exec'[e].status \in {"running", "completed"} => exec'[e].thread \in Threads
          /\ exec'[e].known = "some" => exec'[e].thread \in Threads /\ saved'[exec'[e].thread] # None
  BY <1>2, <1>3 DEF RestInv, Rest!ReportsAgree
<1> QED
  BY <1>1, <1>3, <1>4 DEF RestInv, RestTypes, Rest!ReportsAgree

\* Nothing else counts.
LEMMA RestStutters == RestInv /\ UNCHANGED restVars => RestInv'
BY DEF restVars, RestInv, RestTypes, Rest!ReportsAgree

\* Every step keeps the invariant,
LEMMA RestNext == RestInv /\ Rest!GNext => RestInv'
<1> SUFFICES ASSUME RestInv, Rest!GNext PROVE RestInv'
  OBVIOUS
<1>1. ASSUME NEW t \in Threads,
             Rest!CreateThread(t) \/ Rest!DeleteThread(t) \/ Rest!PatchBegins(t)
      PROVE  RestInv'
  BY <1>1, RestThreads DEF Rest!CreateThread, Rest!DeleteThread, Rest!PatchBegins,
     RestInv, RestTypes
<1> QED
  BY <1>1, RestPatchEnds, RestStart, RestRuns, RestEnds, RestRestarts DEF Rest!GNext

\* which has the properties of the server.
LEMMA RestTyped == RestInv => Rest!GTypeOK /\ Rest!ReportsAgree
BY DEF RestInv, RestTypes, RestExecs, Rest!GTypeOK

(***************************************************************************)
(* The worktrees: while a worktree is made, used or removed its branch is  *)
(* the swarm's own, and one agent's.                                       *)
(***************************************************************************)
\* An agent has a branch from the command that adds it to the one that deletes
\* it: the branch is there, nobody else's, and no other agent of that name has it.
Holds(a) == work[a] \in {"isolated", "pruning", "unbranching"}
TreeInv ==
    /\ Tree!TTypeOK /\ Tree!WorktreeKept /\ Tree!ForeignBranchesKept
    /\ \A a \in Agents : Holds(a) => Tree!Name(a) \in branches \ Foreign
    /\ \A a, b \in Agents : Holds(a) /\ Holds(b) /\ Tree!Name(a) = Tree!Name(b) => a = b

\* The limits of the worktrees.
LEMMA TreeBounds == MaxCrashes \in Nat /\ MaxFailures \in Nat
BY BackendsAssumption DEF Tree!WorktreeBounds

\* A command that fails is one of those that may.
LEMMA TreeFails ==
    ASSUME TreeInv, Tree!Fails \/ UNCHANGED failures
    PROVE  failures' \in 0..MaxFailures
BY TreeBounds DEF TreeInv, Tree!TTypeOK, Tree!Fails

\* Init and every command keep the invariant of the worktrees.
LEMMA TreeInit == Tree!TInit => TreeInv
<1> SUFFICES ASSUME Tree!TInit PROVE TreeInv
  OBVIOUS
<1>1. 0 \in 0..MaxCrashes /\ 0 \in 0..MaxFailures
  BY TreeBounds
<1> QED
  BY <1>1 DEF Tree!TInit, TreeInv, Holds, Tree!TTypeOK, Tree!WorktreeKept,
     Tree!ForeignBranchesKept, Tree!Steps

\* An agent goes on: what it does leaves the branches of those who hold one, and
\* the worktrees in use but for those it took for stale ones.
LEMMA TreeMoves ==
    ASSUME TreeInv, NEW a \in Agents, NEW step \in Tree!Steps \cup {"isolated", "bare", "removed"},
           Tree!At(a, step), failures' \in 0..MaxFailures, UNCHANGED crashes,
           dirs' \subseteq dirs \cup {Tree!Name(a)}, registered' \subseteq registered \cup {Tree!Name(a)},
           branches' \subseteq branches \cup {Tree!Name(a)}, Foreign \subseteq branches',
           displaced' \subseteq Agents,
           \A b \in Agents \ {a} : Holds(b) => Tree!Name(b) \in branches',
           \A b \in Agents \ {a} : work[b] = "isolated" /\ b \notin displaced'
                                       => Tree!Name(b) \in dirs' \cap registered',
           step = "isolated" => Tree!Name(a) \in dirs' \cap registered',
           step \in {"isolated", "pruning", "unbranching"} =>
               /\ Tree!Name(a) \in branches' \ Foreign
               /\ \A b \in Agents \ {a} : Holds(b) => Tree!Name(b) # Tree!Name(a)
    PROVE  TreeInv'
<1>1. /\ work' = [work EXCEPT ![a] = step] /\ work'[a] = step
      /\ \A b \in Agents \ {a} : work'[b] = work[b]
  BY DEF TreeInv, Tree!TTypeOK, Tree!At
<1>2. Tree!TTypeOK'
  <2>1. work' \in [Agents -> Tree!Steps \cup {"none", "isolated", "bare", "removed"}]
    BY <1>1 DEF TreeInv, Tree!TTypeOK
  <2>2. /\ dirs' \cup registered' \subseteq {Tree!Name(b) : b \in Agents}
        /\ branches' \subseteq Foreign \cup {Tree!Name(b) : b \in Agents}
    BY DEF TreeInv, Tree!TTypeOK
  <2>3. {Tree!Name(b) : b \in Agents}' = {Tree!Name(b) : b \in Agents}
    BY DEF Tree!Name
  <2> QED
    BY <2>1, <2>2, <2>3 DEF TreeInv, Tree!TTypeOK
<1>3. /\ Holds(a)' = (step \in {"isolated", "pruning", "unbranching"})
      /\ \A b \in Agents \ {a} : Holds(b)' = Holds(b)
  BY <1>1 DEF Holds
<1>4. \A b \in Agents : Tree!Name(b)' = Tree!Name(b)
  BY DEF Tree!Name
<1>5. \A b \in Agents : Holds(b)' => Tree!Name(b) \in branches' \ Foreign
  BY <1>3 DEF TreeInv
<1>6. \A b, c \in Agents : Holds(b)' /\ Holds(c)' /\ Tree!Name(b) = Tree!Name(c) => b = c
  BY <1>3 DEF TreeInv
<1>7. Tree!WorktreeKept'
  <2>1. ASSUME NEW b \in Agents, work'[b] = "isolated"
        PROVE  /\ Tree!Name(b) \in branches'
               /\ b \in displaced' \/ Tree!Name(b) \in dirs' \cap registered'
    BY <1>1, <1>5, <2>1 DEF Holds
  <2> QED
    BY <1>4, <2>1 DEF Tree!WorktreeKept
<1> QED
  BY <1>2, <1>4, <1>5, <1>6, <1>7 DEF TreeInv, Tree!ForeignBranchesKept

\* A directory that seems stale is removed: who works in it is displaced;
LEMMA TreeCleans ==
    ASSUME TreeInv, NEW a \in Agents, Tree!CleanStale(a)
    PROVE  TreeInv'
<1>1. /\ failures' \in 0..MaxFailures /\ UNCHANGED <<branches, crashes>> /\ Tree!At(a, "adding")
      /\ dirs' \subseteq dirs /\ dirs \subseteq dirs' \cup {Tree!Name(a)}
      /\ registered' \subseteq registered /\ registered \subseteq registered' \cup {Tree!Name(a)}
      /\ Tree!Name(a) \notin dirs => UNCHANGED <<dirs, registered>>
      /\ displaced' = displaced \cup Tree!InUse(a)
  BY TreeFails DEF Tree!CleanStale, Tree!GitRemove, Tree!RemoveByHand
<1>2. "adding" \in Tree!Steps /\ Foreign \subseteq branches
  BY DEF Tree!Steps, TreeInv, Tree!ForeignBranchesKept
<1>3. displaced' \subseteq Agents
  BY <1>1 DEF TreeInv, Tree!TTypeOK, Tree!InUse
<1>4. \A b \in Agents : Holds(b) => Tree!Name(b) \in branches'
  BY <1>1 DEF TreeInv
<1>5. ASSUME NEW b \in Agents \ {a}, work[b] = "isolated", b \notin displaced'
      PROVE  Tree!Name(b) \in dirs' \cap registered'
  <2>1. b \notin displaced /\ b \notin Tree!InUse(a)
    BY <1>1, <1>5
  <2>2. Tree!Name(b) \in dirs \cap registered
    BY <1>5, <2>1 DEF TreeInv, Tree!WorktreeKept
  <2>3. Tree!Name(b) = Tree!Name(a) => Tree!Name(a) \notin dirs
    BY <1>5, <2>1 DEF Tree!InUse
  <2> QED
    BY <1>1, <2>2, <2>3
<1> QED
  BY <1>1, <1>2, <1>3, <1>4, <1>5, TreeMoves

\* a worktree is added on a branch that was not there, or is not;
LEMMA TreeAdds ==
    ASSUME TreeInv, NEW a \in Agents, Tree!AddWorktree(a) \/ Tree!AddFails(a)
    PROVE  TreeInv'
<1>1. Foreign \subseteq branches /\ displaced \subseteq Agents
  BY DEF TreeInv, Tree!ForeignBranchesKept, Tree!TTypeOK
<1>2. /\ \A b \in Agents : Holds(b) => Tree!Name(b) \in branches
      /\ \A b \in Agents : work[b] = "isolated" /\ b \notin displaced
                              => Tree!Name(b) \in dirs \cap registered
  BY DEF TreeInv, Tree!WorktreeKept
<1>3. CASE Tree!AddWorktree(a)
  <2>1. Tree!Name(a) \notin branches
    BY <1>3 DEF Tree!AddWorktree, Tree!Refused
  <2>2. failures' \in 0..MaxFailures
    BY <1>3, TreeFails DEF Tree!AddWorktree
  <2>3. /\ dirs' = dirs \cup {Tree!Name(a)} /\ registered' = registered \cup {Tree!Name(a)}
        /\ branches' = branches \cup {Tree!Name(a)} /\ Tree!At(a, "isolated")
        /\ UNCHANGED <<displaced, crashes>>
    BY <1>3 DEF Tree!AddWorktree
  <2> QED
    BY <1>1, <1>2, <2>1, <2>2, <2>3, TreeMoves
<1>4. CASE Tree!AddFails(a)
  <2>1. failures' \in 0..MaxFailures
    BY <1>4, TreeFails DEF Tree!AddFails
  <2>2. Tree!At(a, "bare") /\ UNCHANGED <<dirs, registered, branches, displaced, crashes>>
    BY <1>4 DEF Tree!AddFails
  <2> QED
    BY <1>1, <1>2, <2>1, <2>2, TreeMoves
<1> QED
  BY <1>3, <1>4

\* the directory is removed, git's records are pruned, and the branch deleted:
\* no other agent of that name holds it.
LEMMA TreeRemoves ==
    ASSUME TreeInv, NEW a \in Agents,
           Tree!RemoveDirectory(a) \/ Tree!Prune(a) \/ Tree!DeleteBranch(a)
    PROVE  TreeInv'
<1>1. /\ Foreign \subseteq branches /\ displaced \subseteq Agents
      /\ {"pruning", "unbranching"} \subseteq Tree!Steps
  BY DEF TreeInv, Tree!ForeignBranchesKept, Tree!Steps, Tree!TTypeOK
<1>2. /\ Tree!Name(a) \in branches \ Foreign
      /\ \A b \in Agents \ {a} : Holds(b) => Tree!Name(b) \in branches /\ Tree!Name(b) # Tree!Name(a)
  BY DEF TreeInv, Holds, Tree!RemoveDirectory, Tree!Prune, Tree!DeleteBranch
<1>3. \A b \in Agents \ {a} : work[b] = "isolated" /\ b \notin displaced
                                  => /\ Tree!Name(b) \in dirs \cap registered
                                     /\ Tree!Name(b) # Tree!Name(a)
  BY <1>2 DEF TreeInv, Tree!WorktreeKept, Holds
<1>4. CASE Tree!RemoveDirectory(a)
  <2>1. /\ failures' \in 0..MaxFailures /\ UNCHANGED <<branches, displaced, crashes>>
        /\ Tree!At(a, "pruning")
        /\ dirs' \subseteq dirs /\ dirs \subseteq dirs' \cup {Tree!Name(a)}
        /\ registered' \subseteq registered /\ registered \subseteq registered' \cup {Tree!Name(a)}
    BY <1>4, TreeFails DEF Tree!RemoveDirectory, Tree!GitRemove, Tree!RemoveByHand
  <2> QED
    BY <1>1, <1>2, <1>3, <2>1, TreeMoves
<1>5. CASE Tree!Prune(a)
  <2>1. /\ failures' \in 0..MaxFailures /\ UNCHANGED <<dirs, branches, displaced, crashes>>
        /\ Tree!At(a, "unbranching")
        /\ registered' \subseteq registered /\ dirs \cap registered \subseteq registered'
    BY <1>5, TreeFails DEF Tree!Prune
  <2> QED
    BY <1>1, <1>2, <1>3, <2>1, TreeMoves
<1>6. CASE Tree!DeleteBranch(a)
  <2>1. /\ failures' \in 0..MaxFailures /\ UNCHANGED <<dirs, registered, displaced, crashes>>
        /\ Tree!At(a, "removed")
        /\ branches' \subseteq branches /\ branches \subseteq branches' \cup {Tree!Name(a)}
    BY <1>6, TreeFails DEF Tree!DeleteBranch
  <2>2. Foreign \subseteq branches'
    BY <1>1, <1>2, <2>1
  <2> QED
    BY <1>1, <1>2, <1>3, <2>1, <2>2, TreeMoves
<1> QED
  BY <1>4, <1>5, <1>6

\* Nothing else counts.
LEMMA TreeStutters == TreeInv /\ UNCHANGED worktreesVars => TreeInv'
BY DEF worktreesVars, TreeInv, Holds, Tree!TTypeOK, Tree!WorktreeKept, Tree!ForeignBranchesKept,
   Tree!Name

\* Every step keeps the invariant,
LEMMA TreeNext == TreeInv /\ Tree!TNext => TreeInv'
<1> SUFFICES ASSUME TreeInv, Tree!TNext PROVE TreeInv'
  OBVIOUS
<1>1. CASE Tree!Dies
  <2>1. crashes' \in 0..MaxCrashes
    BY <1>1, TreeBounds DEF Tree!Dies, TreeInv, Tree!TTypeOK
  <2>2. /\ work' = [a \in Agents |-> "none"] /\ displaced' = {}
        /\ UNCHANGED <<dirs, registered, branches, failures>>
    BY <1>1 DEF Tree!Dies
  <2> QED
    BY <2>1, <2>2 DEF TreeInv, Holds, Tree!TTypeOK, Tree!WorktreeKept, Tree!ForeignBranchesKept,
       Tree!Name
<1> QED
  BY <1>1, TreeCleans, TreeAdds, TreeRemoves DEF Tree!TNext

\* which has the properties of the worktrees.
LEMMA TreeTyped == TreeInv => Tree!TTypeOK /\ Tree!WorktreesSafe
BY DEF TreeInv, Holds, Tree!WorktreesSafe, Tree!OneToAWorktree

(***************************************************************************)
(* The Postgres savers: what has been executed and not deleted is in the   *)
(* table, a load has found nothing older than what it came after, and what *)
(* is in a thread is its own.                                              *)
(***************************************************************************)
\* What is in the event table, and what is known of a call.
PgEvents == [thread : Postgres!PlanThreads, seq : Nat, payload : Calls]
PgCalls ==
    [at : {"idle", "setup", "sent", "copying", "events", "answered", "ok", "failed"},
     time : Nat, got : Postgres!Rows \cup {None}, after : SUBSET Calls]

\* The types.
PgTypes ==
    /\ saver \in {"agent", "graph"} /\ plan \in Plans
    /\ rows \in SUBSET Postgres!Rows /\ events \in SUBSET PgEvents
    /\ initialized \in BOOLEAN /\ now \in 0..MaxTime /\ call \in [Calls -> PgCalls]

\* The tables: a row is identified, none is of the future, and the graph's saver
\* has no event log.
PgTables ==
    /\ \A r \in rows : r.time <= now
    /\ \A r, s \in rows : Postgres!Same(r, s) => r = s
    /\ saver = "graph" => events = {}

\* A save or a fork that has been executed, with nothing that undoes it.
PgExecuted(c) == call[c].at \in {"answered", "ok"}
KeptOwn(s) == Postgres!Kept(s, Postgres!Thread(s))
KeptTo(f) == Postgres!Kept(f, plan[f].to)
OwnSave(f, s) == plan[s].op = "save" /\ Postgres!Thread(s) = Postgres!Thread(f)

\* The row of a save: the agent's saver may have replaced it by one of its round.
HasSaved(s) ==
    \E r \in rows :
        /\ r.thread = Postgres!Thread(s) /\ r.round = plan[s].round /\ r.type = "agent"
        /\ saver = "agent" => r.id = <<"cp", plan[s].round, 0>>
        /\ saver = "graph" => r.time = call[s].time
SavedStays ==
    \A s \in Calls : plan[s].op = "save" /\ PgExecuted(s) /\ KeptOwn(s) => HasSaved(s)

\* A load has found what was saved before it, or something newer.
LoadedNewest(l) ==
    \A s \in call[l].after : OwnSave(l, s) /\ KeptOwn(s) =>
        /\ call[l].got # None
        /\ saver = "agent" => call[l].got.round >= plan[s].round
        /\ saver = "graph" => call[l].got.time >= call[s].time
LoadsNewest == \A l \in Calls : plan[l].op = "load" /\ PgExecuted(l) => LoadedNewest(l)

\* In a thread with nothing else than its saves, a checkpoint is one of them;
\* it is what the graph's fork has read before it writes it.
OwnSaves ==
    \A f \in Calls : Postgres!Unmixed(f) =>
        \A r \in Postgres!Visible(Postgres!Thread(f)) : OwnSave(f, r.state)
CopyOf(f, r) ==
    /\ plan[f].op = "fork" /\ saver = "graph" /\ r # None /\ r.round = plan[f].round
    /\ Postgres!Unmixed(f) => OwnSave(f, r.state)

\* The row of a fork.
SourceOf(f) ==
    \E s \in call[f].after : OwnSave(f, s) /\ plan[s].round = plan[f].round /\ KeptOwn(s)
HasCopy(f) ==
    \E r \in rows : /\ r.thread = plan[f].to /\ r.round = plan[f].round /\ r.type = "agent"
                    /\ r.id[1] = "cp" /\ OwnSave(f, r.state)
CopiesStay ==
    \A f \in Calls :
        plan[f].op = "fork" /\ PgExecuted(f) /\ Postgres!Unmixed(f) /\ KeptTo(f) /\ SourceOf(f)
            => HasCopy(f)

\* What is deleted, while nobody else writes the thread.
PgWriters == {"save", "graph", "fork", "append"}
Alone(d) ==
    \A w \in Calls : (/\ Postgres!Writes(w) = Postgres!Thread(d) /\ Postgres!Begun(w) /\ w # d
                      /\ plan[w].op \in PgWriters) => w \in call[d].after
GoneStays ==
    \A d \in Calls : plan[d].op = "delete" /\ Alone(d) =>
        /\ call[d].at \in {"events", "answered", "ok"} =>
               \A r \in rows : r.thread # Postgres!Thread(d)
        /\ PgExecuted(d) => \A e \in events : e.thread # Postgres!Thread(d)

\* What a call is doing is what it is for; what it came after has returned.
PgShape ==
    \A c \in Calls :
        /\ call[c].time <= now /\ call[c].after \subseteq Postgres!Returned
        /\ call[c].got # None => call[c].got.thread = Postgres!Thread(c)
        /\ call[c].at = "copying" => CopyOf(c, call[c].got)
        /\ call[c].at = "events" => plan[c].op = "delete"
        /\ call[c].at # "idle" => Postgres!Offered(c)

\* The invariant of the savers.
PgInv ==
    /\ PgTypes /\ PgTables /\ PgShape
    /\ SavedStays /\ LoadsNewest /\ OwnSaves /\ CopiesStay /\ GoneStays

\* The limits of the savers.
LEMMA PgBounds ==
    /\ Plans \subseteq [Calls -> [op : Postgres!Ops, thread : Postgres!PlanThreads, round : Nat,
                                  to : Postgres!PlanThreads]]
    /\ None \notin Postgres!Rows /\ MaxTime \in Nat
BY BackendsAssumption DEF Postgres!PostgresAssumption

\* At first there is nothing.
LEMMA PgInit == Postgres!PInit => PgInv
<1> SUFFICES ASSUME Postgres!PInit PROVE PgInv
  OBVIOUS
<1>1. /\ saver \in {"agent", "graph"} /\ plan \in Plans /\ rows = {} /\ events = {} /\ now = 0
      /\ call = [c \in Calls |-> [at |-> "idle", time |-> 0, got |-> None, after |-> {}]]
  BY DEF Postgres!PInit
<1>2. initialized \in BOOLEAN /\ 0 \in 0..MaxTime /\ 0 <= 0
  BY PgBounds DEF Postgres!PInit
<1>3. [at |-> "idle", time |-> 0, got |-> None, after |-> {}] \in PgCalls
  BY DEF PgCalls
<1>4. PgTypes
  BY <1>1, <1>2, <1>3 DEF PgTypes
<1>5. \A c \in Calls : /\ call[c].at = "idle" /\ call[c].time = 0 /\ call[c].got = None
                       /\ call[c].after = {}
  BY <1>1
<1>6. PgTables
  BY <1>1 DEF PgTables
<1>7. PgShape
  BY <1>1, <1>2, <1>5 DEF PgShape
<1>8. SavedStays /\ LoadsNewest /\ CopiesStay
  BY <1>5 DEF SavedStays, LoadsNewest, CopiesStay, PgExecuted
<1>9. OwnSaves
  BY <1>1 DEF OwnSaves, Postgres!Visible
<1>10. GoneStays
  BY <1>1 DEF GoneStays
<1> QED
  BY <1>4, <1>6, <1>7, <1>8, <1>9, <1>10 DEF PgInv

\* A step of one call c, after which it is x; calls begin, and then keep what
\* they came after.
PgMove(c, x) ==
    /\ call' = [call EXCEPT ![c] = x] /\ UNCHANGED <<saver, plan, now>>
    /\ x \in PgCalls /\ x.time <= now /\ x.at # "idle"
    /\ call[c].at \notin {"ok", "failed"} /\ Postgres!Offered(c)
    /\ x.after = IF call[c].at = "idle" THEN Postgres!Returned ELSE call[c].after
    /\ x.got # None => x.got.thread = Postgres!Thread(c)
    /\ x.at = "copying" => CopyOf(c, x.got)
    /\ x.at = "events" => plan[c].op = "delete"
    /\ call[c].at = "idle" => ~(x.at \in {"answered", "ok"})

\* The plans do not change,
LEMMA PlansSame ==
    ASSUME plan' = plan, saver' = saver
    PROVE  /\ \A s : Postgres!Thread(s)' = Postgres!Thread(s)
           /\ \A s : Postgres!Writes(s)' = Postgres!Writes(s)
           /\ \A s, f : OwnSave(f, s)' <=> OwnSave(f, s)
           /\ \A s : Postgres!Offered(s)' <=> Postgres!Offered(s)
BY DEF Postgres!Thread, Postgres!Writes, OwnSave, Postgres!Offered

\* who has begun, or returned, has, and what other calls could undo they can
\* still undo.
LEMMA PgMoves ==
    ASSUME PgInv, NEW c \in Calls, NEW x, PgMove(c, x)
    PROVE  /\ call' \in [Calls -> PgCalls] /\ call'[c] = x
           /\ \A s \in Calls : s # c => call'[s] = call[s]
           /\ Postgres!Returned \subseteq Postgres!Returned'
           /\ \A s \in Calls : call[s].at # "idle" => call'[s].at # "idle" /\ call'[s].after = call[s].after
           /\ \A s \in Calls : call[s].at # "idle" /\ KeptOwn(s)' => KeptOwn(s)
           /\ \A s \in Calls : call[s].at # "idle" /\ KeptTo(s)' => KeptTo(s)
           /\ \A f \in Calls : Postgres!Unmixed(f)' => Postgres!Unmixed(f)
           /\ \A d \in Calls : call[d].at # "idle" /\ Alone(d)' => Alone(d)
<1>1. /\ call' = [call EXCEPT ![c] = x] /\ plan' = plan /\ saver' = saver /\ call \in [Calls -> PgCalls]
      /\ x \in PgCalls /\ x.at # "idle" /\ call[c].at # "ok"
      /\ call[c].at # "idle" => x.after = call[c].after
  BY DEF PgMove, PgInv, PgTypes
<1>2. /\ call' \in [Calls -> PgCalls] /\ call'[c] = x
      /\ \A s \in Calls : s # c => call'[s] = call[s]
  BY <1>1
<1>3. Postgres!Returned \subseteq Postgres!Returned'
  BY <1>1, <1>2 DEF Postgres!Returned
<1>4. \A s \in Calls : call[s].at # "idle" => call'[s].at # "idle" /\ call'[s].after = call[s].after
  BY <1>1, <1>2
<1>5. \A s \in Calls : Postgres!Begun(s) => Postgres!Begun(s)'
  BY <1>4 DEF Postgres!Begun
<1>6. \A s \in Calls : call[s].at # "idle" /\ KeptOwn(s)' => KeptOwn(s)
  BY <1>1, <1>4 DEF KeptOwn, Postgres!Kept, Postgres!Begun, Postgres!Thread
<1>7. \A s \in Calls : call[s].at # "idle" /\ KeptTo(s)' => KeptTo(s)
  BY <1>1, <1>4 DEF KeptTo, Postgres!Kept, Postgres!Begun, Postgres!Thread
<1>8. \A f \in Calls : Postgres!Unmixed(f)' => Postgres!Unmixed(f)
  BY <1>1, <1>4 DEF Postgres!Unmixed, Postgres!Begun, Postgres!Writes, Postgres!Thread
<1>9. \A d \in Calls : call[d].at # "idle" /\ Alone(d)' => Alone(d)
  BY <1>1, <1>4 DEF Alone, Postgres!Begun, Postgres!Writes, Postgres!Thread
<1> QED
  BY <1>2, <1>3, <1>4, <1>6, <1>7, <1>8, <1>9

\* What a call does is what it is for,
LEMMA PgShapeKept ==
    ASSUME PgInv, NEW c \in Calls, NEW x, PgMove(c, x)
    PROVE  PgShape'
<1>1. /\ call' \in [Calls -> PgCalls] /\ call'[c] = x
      /\ \A s \in Calls : s # c => call'[s] = call[s]
      /\ Postgres!Returned \subseteq Postgres!Returned'
      /\ \A f \in Calls : Postgres!Unmixed(f)' => Postgres!Unmixed(f)
  BY PgMoves
<1>2. plan' = plan /\ saver' = saver /\ now' = now
  BY DEF PgMove
<1>4. ASSUME NEW s \in Calls
      PROVE  /\ call'[s].time <= now' /\ call'[s].after \subseteq Postgres!Returned'
             /\ call'[s].got # None => call'[s].got.thread = Postgres!Thread(s)'
             /\ call'[s].at = "copying" => CopyOf(s, call'[s].got)
             /\ call'[s].at = "events" => plan'[s].op = "delete"
             /\ call'[s].at # "idle" => Postgres!Offered(s)'
  <2>1. CASE s = c
    <3>1. /\ x.time <= now /\ x.after \subseteq Postgres!Returned
          /\ x.got # None => x.got.thread = Postgres!Thread(c)
          /\ x.at = "copying" => CopyOf(c, x.got)
          /\ x.at = "events" => plan[c].op = "delete"
          /\ Postgres!Offered(c)
      BY DEF PgMove, PgInv, PgShape
    <3> QED
      BY <1>1, <1>2, <2>1, <3>1, PlansSame
  <2>2. CASE s # c
    <3>1. /\ call[s].time <= now /\ call[s].after \subseteq Postgres!Returned
          /\ call[s].got # None => call[s].got.thread = Postgres!Thread(s)
          /\ call[s].at = "copying" => CopyOf(s, call[s].got)
          /\ call[s].at = "events" => plan[s].op = "delete"
          /\ call[s].at # "idle" => Postgres!Offered(s)
      BY DEF PgInv, PgShape
    <3> QED
      BY <1>1, <1>2, <2>2, <3>1, PlansSame
  <2> QED
    BY <2>1, <2>2
<1>5. ASSUME NEW f \in Calls, call'[f].at = "copying"
      PROVE  CopyOf(f, call[f].got)'
  <2>1. CopyOf(f, call'[f].got)
    BY <1>4, <1>5
  <2>2. /\ plan[f].op = "fork" /\ saver = "graph" /\ call'[f].got # None
        /\ call'[f].got.round = plan[f].round
        /\ Postgres!Unmixed(f) => plan[call'[f].got.state].op = "save"
               /\ plan[call'[f].got.state].thread = plan[f].thread
    BY <2>1 DEF CopyOf, OwnSave, Postgres!Thread
  <2>3. Postgres!Unmixed(f)' => Postgres!Unmixed(f)
    BY <1>1
  <2>4. Postgres!Unmixed(f)' => plan'[call'[f].got.state].op = "save"
               /\ plan'[call'[f].got.state].thread = plan'[f].thread
    BY <1>2, <2>2, <2>3
  <2> QED
    BY <1>2, <2>2, <2>4 DEF CopyOf, OwnSave, Postgres!Thread
<1> QED
  BY <1>4, <1>5 DEF PgShape

\* and what a load has found does not depend on what is saved after it.
LEMMA PgLoadsKept ==
    ASSUME PgInv, NEW c \in Calls, NEW x, PgMove(c, x),
           plan[c].op = "load" /\ x.at \in {"answered", "ok"} => LoadedNewest(c)'
    PROVE  LoadsNewest'
<1>1. /\ call'[c] = x /\ \A s \in Calls : s # c => call'[s] = call[s]
      /\ \A s \in Calls : call[s].at # "idle" /\ KeptOwn(s)' => KeptOwn(s)
  BY PgMoves
<1>2. plan' = plan /\ saver' = saver /\ call[c].at # "ok"
  BY DEF PgMove
<1>3. ASSUME NEW l \in Calls, l # c, plan[l].op = "load", PgExecuted(l)
      PROVE  LoadedNewest(l)'
  <2>1. call'[l] = call[l] /\ LoadedNewest(l) /\ call[l].after \subseteq Postgres!Returned
    BY <1>1, <1>3 DEF PgInv, LoadsNewest, PgShape
  <2>2. ASSUME NEW s \in call[l].after, OwnSave(l, s)', KeptOwn(s)'
        PROVE  /\ call[l].got # None
               /\ saver = "agent" => call[l].got.round >= plan[s].round
               /\ saver = "graph" => call[l].got.time >= call'[s].time
    <3>1. s \in Calls /\ call[s].at = "ok" /\ s # c
      BY <1>2, <2>1 DEF Postgres!Returned
    <3>2. OwnSave(l, s) /\ KeptOwn(s) /\ call'[s] = call[s]
      BY <1>1, <1>2, <2>2, <3>1, PlansSame
    <3> QED
      BY <2>1, <3>2 DEF LoadedNewest
  <2> QED
    BY <1>2, <2>1, <2>2 DEF LoadedNewest
<1>4. ASSUME NEW l \in Calls, plan'[l].op = "load", PgExecuted(l)'
      PROVE  LoadedNewest(l)'
  <2>1. CASE l = c
    BY <1>1, <1>2, <1>4, <2>1 DEF PgExecuted
  <2>2. CASE l # c
    BY <1>1, <1>2, <1>3, <1>4, <2>2 DEF PgExecuted
  <2> QED
    BY <2>1, <2>2
<1> QED
  BY <1>4 DEF LoadsNewest

\* So do the rows of a save, if those there are are kept,
SavedKept(c) ==
    \A s \in Calls : (/\ s # c /\ plan[s].op = "save" /\ PgExecuted(s)
                      /\ KeptOwn(s) /\ KeptOwn(s)' /\ HasSaved(s)) => HasSaved(s)'

\* so that the call that saves is all that is left to look at;
LEMMA PgSavedKept ==
    ASSUME PgInv, NEW c \in Calls, NEW x, PgMove(c, x), SavedKept(c),
           plan[c].op = "save" /\ x.at \in {"answered", "ok"} /\ KeptOwn(c) => HasSaved(c)'
    PROVE  SavedStays'
<1>1. /\ call'[c] = x /\ \A s \in Calls : s # c => call'[s] = call[s]
      /\ \A s \in Calls : call[s].at # "idle" /\ KeptOwn(s)' => KeptOwn(s)
  BY PgMoves
<1>2. plan' = plan /\ (call[c].at = "idle" => ~(x.at \in {"answered", "ok"}))
  BY DEF PgMove
<1>3. ASSUME NEW s \in Calls, plan'[s].op = "save", PgExecuted(s)', KeptOwn(s)'
      PROVE  HasSaved(s)'
  <2>1. CASE s = c
    <3>1. x.at \in {"answered", "ok"} /\ call[c].at # "idle"
      BY <1>1, <1>2, <1>3, <2>1 DEF PgExecuted
    <3>2. KeptOwn(c)
      BY <1>1, <1>3, <2>1, <3>1
    <3> QED
      BY <1>2, <1>3, <2>1, <3>1, <3>2
  <2>2. CASE s # c
    <3>1. plan[s].op = "save" /\ PgExecuted(s) /\ call[s].at # "idle"
      BY <1>1, <1>2, <1>3, <2>2 DEF PgExecuted
    <3>2. KeptOwn(s) /\ HasSaved(s)
      BY <1>1, <1>3, <3>1 DEF PgInv, SavedStays
    <3> QED
      BY <1>3, <2>2, <3>1, <3>2 DEF SavedKept
  <2> QED
    BY <2>1, <2>2
<1> QED
  BY <1>3 DEF SavedStays

\* what is in a thread, if nothing is added,
LEMMA PgOwnKept ==
    ASSUME PgInv, NEW c \in Calls, NEW x, PgMove(c, x), rows' \subseteq rows
    PROVE  OwnSaves'
<1>1. /\ plan' = plan /\ saver' = saver
      /\ \A f \in Calls : Postgres!Unmixed(f)' => Postgres!Unmixed(f)
  BY PgMoves DEF PgMove
<1>2. ASSUME NEW f \in Calls, Postgres!Unmixed(f)',
             NEW r \in rows', r.thread = plan[f].thread, saver = "graph" => r.type = "agent"
      PROVE  plan[r.state].op = "save" /\ plan[r.state].thread = plan[f].thread
  BY <1>1, <1>2 DEF PgInv, OwnSaves, OwnSave, Postgres!Visible, Postgres!Thread
<1> QED
  BY <1>1, <1>2 DEF OwnSaves, OwnSave, Postgres!Visible, Postgres!Thread

\* the row of a fork, if those there are are kept,
CopiesKept(c) ==
    \A f \in Calls : (/\ f # c /\ plan[f].op = "fork" /\ Postgres!Unmixed(f)'
                      /\ KeptTo(f)' /\ HasCopy(f)) => HasCopy(f)'

\* what a fork could have copied was there before the step,
LEMMA SourcesStay ==
    ASSUME PgInv, NEW c \in Calls, NEW x, PgMove(c, x), NEW f \in Calls,
           call[f].at # "idle", SourceOf(f)'
    PROVE  SourceOf(f)
<1>1. /\ \A s \in Calls : call[s].at # "idle" /\ KeptOwn(s)' => KeptOwn(s)
      /\ call'[f].after = call[f].after
  BY PgMoves
<1>2. plan' = plan
  BY DEF PgMove
<1>3. PICK s \in call'[f].after : /\ OwnSave(f, s)' /\ plan'[s].round = plan'[f].round
                                  /\ KeptOwn(s)'
  BY DEF SourceOf
<1>4. s \in call[f].after /\ s \in Calls /\ call[s].at # "idle"
  BY <1>1 DEF PgInv, PgShape, Postgres!Returned
<1>5. OwnSave(f, s) /\ plan[s].round = plan[f].round /\ KeptOwn(s)
  BY <1>1, <1>2, <1>3, <1>4 DEF OwnSave, Postgres!Thread
<1> QED
  BY <1>4, <1>5 DEF SourceOf

\* and the call that forks is all that is left to look at;
LEMMA PgCopiesKept ==
    ASSUME PgInv, NEW c \in Calls, NEW x, PgMove(c, x), CopiesKept(c),
           (/\ plan[c].op = "fork" /\ x.at \in {"answered", "ok"} /\ Postgres!Unmixed(c)'
            /\ KeptTo(c)' /\ SourceOf(c)) => HasCopy(c)'
    PROVE  CopiesStay'
<1>1. /\ call'[c] = x /\ \A s \in Calls : s # c => call'[s] = call[s]
      /\ \A s \in Calls : call[s].at # "idle" /\ KeptTo(s)' => KeptTo(s)
      /\ \A f \in Calls : Postgres!Unmixed(f)' => Postgres!Unmixed(f)
  BY PgMoves
<1>2. plan' = plan /\ (call[c].at = "idle" => ~(x.at \in {"answered", "ok"}))
  BY DEF PgMove
<1>3. ASSUME NEW f \in Calls, plan'[f].op = "fork", PgExecuted(f)', Postgres!Unmixed(f)',
             KeptTo(f)', SourceOf(f)'
      PROVE  HasCopy(f)'
  <2>1. CASE f = c
    <3>1. x.at \in {"answered", "ok"} /\ call[c].at # "idle" /\ plan[c].op = "fork"
      BY <1>1, <1>2, <1>3, <2>1 DEF PgExecuted
    <3>2. SourceOf(c)'
      BY <1>3, <2>1
    <3>3. SourceOf(c)
      BY <3>1, <3>2, SourcesStay
    <3> QED
      BY <1>3, <2>1, <3>1, <3>3
  <2>2. CASE f # c
    <3>1. plan[f].op = "fork" /\ PgExecuted(f) /\ call[f].at # "idle"
      BY <1>1, <1>2, <1>3, <2>2 DEF PgExecuted
    <3>2. KeptTo(f) /\ Postgres!Unmixed(f) /\ SourceOf(f)
      BY <1>1, <1>3, <3>1, SourcesStay
    <3>3. HasCopy(f)
      BY <3>1, <3>2 DEF PgInv, CopiesStay
    <3> QED
      BY <1>3, <2>2, <3>1, <3>3 DEF CopiesKept
  <2> QED
    BY <2>1, <2>2
<1> QED
  BY <1>3 DEF CopiesStay

\* and what is gone, if it does not come back.
NoRows(d) == \A r \in rows : r.thread # Postgres!Thread(d)
NoEvents(d) == \A e \in events : e.thread # Postgres!Thread(d)
GoneKept(c) ==
    \A d \in Calls : d # c /\ plan[d].op = "delete" /\ Alone(d) /\ call[d].at # "idle" =>
        /\ NoRows(d) => NoRows(d)'
        /\ NoEvents(d) => NoEvents(d)'

\* Again the call that deletes is all that is left to look at.
LEMMA PgGoneKept ==
    ASSUME PgInv, NEW c \in Calls, NEW x, PgMove(c, x), GoneKept(c),
           plan[c].op = "delete" /\ Alone(c) =>
               /\ x.at \in {"events", "answered", "ok"} => NoRows(c)'
               /\ x.at \in {"answered", "ok"} => NoEvents(c)',
           call[c].at = "idle" => x.at # "events"
    PROVE  GoneStays'
<1>1. /\ call'[c] = x /\ \A s \in Calls : s # c => call'[s] = call[s]
      /\ \A d \in Calls : call[d].at # "idle" /\ Alone(d)' => Alone(d)
  BY PgMoves
<1>2. plan' = plan /\ (call[c].at = "idle" => ~(x.at \in {"answered", "ok"}))
  BY DEF PgMove
<1>3. ASSUME NEW d \in Calls, plan'[d].op = "delete", Alone(d)',
             call'[d].at \in {"events", "answered", "ok"}
      PROVE  NoRows(d)' /\ (call'[d].at \in {"answered", "ok"} => NoEvents(d)')
  <2>1. CASE d = c
    <3>1. call[c].at # "idle"
      BY <1>1, <1>2, <1>3, <2>1
    <3>2. Alone(c)
      BY <1>1, <1>3, <2>1, <3>1
    <3> QED
      BY <1>1, <1>2, <1>3, <2>1, <3>2
  <2>2. CASE d # c
    <3>1. call[d].at \in {"events", "answered", "ok"} /\ call[d].at # "idle" /\ call'[d] = call[d]
      BY <1>1, <1>3, <2>2
    <3>2. Alone(d) /\ plan[d].op = "delete"
      BY <1>1, <1>2, <1>3, <3>1
    <3>3. NoRows(d) /\ (call[d].at \in {"answered", "ok"} => NoEvents(d))
      BY <3>1, <3>2 DEF PgInv, GoneStays, NoRows, NoEvents, PgExecuted
    <3> QED
      BY <2>2, <3>1, <3>2, <3>3 DEF GoneKept
  <2> QED
    BY <2>1, <2>2
<1>4. ASSUME NEW d \in Calls, plan'[d].op = "delete", Alone(d)', PgExecuted(d)'
      PROVE  NoEvents(d)'
  BY <1>3, <1>4 DEF PgExecuted
<1> QED
  BY <1>3, <1>4 DEF GoneStays, NoRows, NoEvents

\* A step that changes no row: nothing is executed, or what finds nothing to
\* change is.
PgAnswers(c, x) ==
    \/ PgExecuted(c) /\ x.got = call[c].got /\ x.time = call[c].time
    \/ /\ plan[c].op \in {"load", "loadAt", "fork", "delete", "append"}
       /\ plan[c].op = "load" => LoadedNewest(c)'
       /\ plan[c].op = "fork" => ~SourceOf(c)

\* With the rows the same all but what is gone is as it was.
LEMMA PgRowsSame ==
    ASSUME PgInv, NEW c \in Calls, NEW x, PgMove(c, x), rows' = rows,
           x.at \in {"answered", "ok"} => PgAnswers(c, x)
    PROVE  /\ PgShape' /\ SavedStays' /\ LoadsNewest' /\ OwnSaves' /\ CopiesStay'
           /\ \A d \in Calls : NoRows(d) => NoRows(d)'
<1>1. /\ call'[c] = x /\ \A s \in Calls : s # c => call'[s] = call[s]
      /\ \A s \in Calls : call[s].at # "idle" /\ KeptOwn(s)' => KeptOwn(s)
      /\ \A s \in Calls : call[s].at # "idle" => call'[s].after = call[s].after
  BY PgMoves
<1>2. /\ plan' = plan /\ saver' = saver /\ call[c].at # "ok"
  BY DEF PgMove
<1>3. PgShape' /\ OwnSaves'
  BY PgShapeKept, PgOwnKept
<1>4. SavedStays'
  <2>1. \A s \in Calls : call'[s].time = call[s].time /\ HasSaved(s) => HasSaved(s)'
    BY <1>2 DEF HasSaved, Postgres!Thread
  <2>2. SavedKept(c)
    BY <1>1, <2>1 DEF SavedKept
  <2>3. ASSUME plan[c].op = "save", x.at \in {"answered", "ok"}, KeptOwn(c)
        PROVE  HasSaved(c)'
    <3>1. PgExecuted(c) /\ call'[c].time = call[c].time
      BY <1>1, <2>3 DEF PgAnswers
    <3>2. HasSaved(c)
      BY <2>3, <3>1 DEF PgInv, SavedStays
    <3> QED
      BY <2>1, <3>1, <3>2
  <2> QED
    BY <2>2, <2>3, PgSavedKept
<1>5. LoadsNewest'
  <2>1. ASSUME plan[c].op = "load", x.at \in {"answered", "ok"}, PgExecuted(c), x.got = call[c].got
        PROVE  LoadedNewest(c)'
    <3>1. /\ LoadedNewest(c) /\ call[c].after \subseteq Postgres!Returned
          /\ call'[c].after = call[c].after
      BY <1>1, <1>2, <2>1 DEF PgInv, LoadsNewest, PgShape, PgExecuted
    <3>2. ASSUME NEW s \in call[c].after, OwnSave(c, s)', KeptOwn(s)'
          PROVE  /\ call'[c].got # None
                 /\ saver = "agent" => call'[c].got.round >= plan[s].round
                 /\ saver = "graph" => call'[c].got.time >= call'[s].time
      <4>1. s \in Calls /\ call[s].at = "ok" /\ s # c
        BY <1>2, <3>1 DEF Postgres!Returned
      <4>2. OwnSave(c, s) /\ KeptOwn(s) /\ call'[s] = call[s]
        BY <1>1, <1>2, <3>2, <4>1, PlansSame
      <4> QED
        BY <1>1, <2>1, <3>1, <4>2 DEF LoadedNewest
    <3> QED
      BY <1>2, <3>1, <3>2 DEF LoadedNewest
  <2>2. plan[c].op = "load" /\ x.at \in {"answered", "ok"} => LoadedNewest(c)'
    BY <2>1 DEF PgAnswers
  <2> QED
    BY <2>2, PgLoadsKept
<1>6. CopiesStay'
  <2>1. \A f \in Calls : HasCopy(f) => HasCopy(f)'
    BY <1>2 DEF HasCopy, OwnSave, Postgres!Thread
  <2>2. CopiesKept(c)
    BY <2>1 DEF CopiesKept
  <2>3. ASSUME plan[c].op = "fork", x.at \in {"answered", "ok"}, Postgres!Unmixed(c)', KeptTo(c)',
               SourceOf(c)
        PROVE  HasCopy(c)'
    <3>1. PgExecuted(c) /\ call[c].at # "idle"
      BY <2>3 DEF PgAnswers, PgExecuted
    <3>2. Postgres!Unmixed(c) /\ KeptTo(c)
      BY <2>3, <3>1, PgMoves
    <3>3. HasCopy(c)
      BY <2>3, <3>1, <3>2 DEF PgInv, CopiesStay
    <3> QED
      BY <2>1, <3>3
  <2> QED
    BY <2>2, <2>3, PgCopiesKept
<1>7. \A d \in Calls : NoRows(d) => NoRows(d)'
  BY <1>2 DEF NoRows, Postgres!Thread
<1> QED
  BY <1>3, <1>4, <1>5, <1>6, <1>7

\* Nothing is deleted either, nor logged:
LEMMA PgQuiet ==
    ASSUME PgInv, NEW c \in Calls, NEW x, PgMove(c, x), rows' = rows, events' = events,
           initialized' \in BOOLEAN, x.at # "events",
           x.at \in {"answered", "ok"} => PgAnswers(c, x)
                                          /\ (PgExecuted(c) \/ plan[c].op # "delete")
    PROVE  PgInv'
<1>1. call' \in [Calls -> PgCalls]
  BY PgMoves
<1>2. plan' = plan /\ saver' = saver /\ now' = now
  BY DEF PgMove
<1>3. PgTypes' /\ PgTables'
  BY <1>1, <1>2 DEF PgInv, PgTypes, PgTables, Postgres!Same
<1>4. /\ PgShape' /\ SavedStays' /\ LoadsNewest' /\ OwnSaves' /\ CopiesStay'
      /\ \A d \in Calls : NoRows(d) => NoRows(d)'
  BY PgRowsSame
<1>5. GoneStays'
  <2>1. \A d \in Calls : NoEvents(d) => NoEvents(d)'
    BY <1>2 DEF NoEvents, Postgres!Thread
  <2>2. GoneKept(c)
    BY <1>4, <2>1 DEF GoneKept
  <2>3. ASSUME plan[c].op = "delete", Alone(c), x.at \in {"events", "answered", "ok"}
        PROVE  NoRows(c)' /\ NoEvents(c)'
    <3>1. PgExecuted(c)
      BY <2>3
    <3>2. NoRows(c) /\ NoEvents(c)
      BY <2>3, <3>1 DEF PgInv, GoneStays, NoRows, NoEvents, PgExecuted
    <3> QED
      BY <1>4, <2>1, <3>2
  <2> QED
    BY <2>2, <2>3, PgGoneKept
<1> QED
  BY <1>3, <1>4, <1>5 DEF PgInv

\* A call that is being executed has not returned: nobody came after it.
LEMMA NotAfter ==
    ASSUME PgInv, NEW c \in Calls, call[c].at # "ok"
    PROVE  \A s \in Calls : c \notin call[s].after
BY DEF PgInv, PgShape, Postgres!Returned

\* A row is written, in place of one the agent's saver identifies with it.
WrittenRow(c, x, row) ==
    /\ row.time <= now /\ row.thread = Postgres!Writes(c)
    /\ plan[c].op \in {"save", "graph", "fork"}
    /\ saver = "graph" \/ plan[c].op = "fork" => ~Postgres!Conflicts(row)
    /\ plan[c].op = "save" =>
           /\ row.state = c /\ row.round = plan[c].round /\ row.type = "agent"
           /\ saver = "agent" => row.id = <<"cp", plan[c].round, 0>>
           /\ saver = "graph" => row.time = x.time
    /\ plan[c].op = "graph" => row.type = "graph" /\ (saver = "agent" => row.id[1] = "graph")
    /\ plan[c].op = "fork" =>
           /\ row.round = plan[c].round /\ row.type = "agent" /\ row.id[1] = "cp"
           /\ Postgres!Unmixed(c) => OwnSave(c, row.state)

\* Whoever writes a row keeps the invariant, if the row is one of its own.
LEMMA PgWrites ==
    ASSUME PgInv, NEW c \in Calls, NEW x, PgMove(c, x), x.at = "answered",
           NEW row \in Postgres!Rows, WrittenRow(c, x, row), rows' = Postgres!Upsert(row),
           events' = events, initialized' = initialized
    PROVE  PgInv'
<1>1. /\ call' \in [Calls -> PgCalls] /\ call'[c] = x
      /\ \A s \in Calls : s # c => call'[s] = call[s]
      /\ \A f \in Calls : Postgres!Unmixed(f)' => Postgres!Unmixed(f)
      /\ call'[c].at # "idle"
  BY PgMoves
<1>2. /\ plan' = plan /\ saver' = saver /\ now' = now /\ call[c].at # "ok" /\ call[c].at # "idle"
      /\ saver \in {"agent", "graph"}
  BY DEF PgMove, PgInv, PgTypes
<1>3. /\ row.time <= now /\ row.thread = Postgres!Writes(c)
      /\ plan[c].op \in {"save", "graph", "fork"}
      /\ saver = "graph" \/ plan[c].op = "fork" => ~Postgres!Conflicts(row)
      /\ plan[c].op = "save" =>
             /\ row.state = c /\ row.round = plan[c].round /\ row.type = "agent"
             /\ saver = "agent" => row.id = <<"cp", plan[c].round, 0>>
             /\ saver = "graph" => row.time = x.time
      /\ plan[c].op = "graph" => row.type = "graph" /\ (saver = "agent" => row.id[1] = "graph")
      /\ plan[c].op = "fork" =>
             /\ row.round = plan[c].round /\ row.type = "agent" /\ row.id[1] = "cp"
             /\ Postgres!Unmixed(c) => OwnSave(c, row.state)
  BY DEF WrittenRow
<1>4. /\ row \in rows' /\ \A r \in rows' : r = row \/ r \in rows
      /\ \A r \in rows : r \in rows' \/ Postgres!Same(r, row)
      /\ \A r \in rows' : r # row => ~Postgres!Same(r, row)
  BY DEF Postgres!Upsert
<1>5. ASSUME NEW r \in rows, Postgres!Same(r, row)
      PROVE  saver = "agent" /\ plan[c].op \in {"save", "graph"}
             /\ r.thread = row.thread /\ r.id = row.id
  BY <1>2, <1>3, <1>5 DEF Postgres!Conflicts, Postgres!Same
<1>6. PgTypes'
  BY <1>1, <1>2, <1>4 DEF PgInv, PgTypes
<1>7. PgTables'
  <2>1. \A r \in rows' : r.time <= now'
    BY <1>2, <1>3, <1>4 DEF PgInv, PgTables
  <2>2. ASSUME NEW r \in rows', NEW s \in rows', Postgres!Same(r, s)
        PROVE  r = s
    <3>1. Postgres!Same(s, r)
      BY <2>2 DEF Postgres!Same
    <3> QED
      BY <1>4, <2>2, <3>1 DEF PgInv, PgTables
  <2>3. saver' = "graph" => events' = {}
    BY <1>2 DEF PgInv, PgTables
  <2> QED
    BY <2>1, <2>2, <2>3 DEF PgTables, Postgres!Same
<1>8. PgShape'
  BY PgShapeKept
<1>9. SavedStays'
  <2>1. ASSUME NEW s \in Calls, s # c, HasSaved(s)
        PROVE  HasSaved(s)'
    <3>1. PICK r \in rows :
              /\ r.thread = plan[s].thread /\ r.round = plan[s].round /\ r.type = "agent"
              /\ saver = "agent" => r.id = <<"cp", plan[s].round, 0>>
              /\ saver = "graph" => r.time = call[s].time
      BY <2>1 DEF HasSaved, Postgres!Thread
    <3>2. CASE r \in rows'
      BY <1>1, <1>2, <2>1, <3>1, <3>2 DEF HasSaved, Postgres!Thread
    <3>3. CASE Postgres!Same(r, row)
      <4>1. /\ saver = "agent" /\ row.thread = plan[s].thread
            /\ row.id = <<"cp", plan[s].round, 0>> /\ row.id[1] = "cp"
        BY <1>5, <3>1, <3>3
      <4>2. plan[c].op = "save" /\ row.id = <<"cp", plan[c].round, 0>> /\ row.round = plan[c].round
        BY <1>3, <1>5, <3>3, <4>1
      <4>3. row.round = plan[s].round /\ row.type = "agent"
        BY <1>3, <4>1, <4>2
      <4> QED
        BY <1>2, <1>4, <4>1, <4>3 DEF HasSaved, Postgres!Thread
    <3> QED
      BY <1>4, <3>2, <3>3
  <2>2. plan[c].op = "save" => HasSaved(c)'
    BY <1>1, <1>2, <1>3, <1>4 DEF HasSaved, Postgres!Thread, Postgres!Writes
  <2>3. SavedKept(c)
    BY <2>1 DEF SavedKept
  <2> QED
    BY <2>2, <2>3, PgSavedKept
<1>10. LoadsNewest'
  BY <1>3, PgLoadsKept
<1>11. OwnSaves'
  <2>1. ASSUME NEW f \in Calls, Postgres!Unmixed(f)', NEW r \in rows',
               r.thread = plan[f].thread, saver = "graph" => r.type = "agent"
        PROVE  plan[r.state].op = "save" /\ plan[r.state].thread = plan[f].thread
    <3>1. CASE r \in rows
      BY <1>1, <2>1, <3>1 DEF PgInv, OwnSaves, OwnSave, Postgres!Visible, Postgres!Thread
    <3>2. CASE r = row
      <4>1. /\ Postgres!Writes(c) = plan[f].thread => plan[c].op # "fork"
            /\ saver = "agent" /\ plan[c].thread = plan[f].thread => plan[c].op # "graph"
        BY <1>1, <1>2, <2>1 DEF Postgres!Unmixed, Postgres!Begun, Postgres!Writes, Postgres!Thread
      <4>2. plan[c].op # "fork"
        BY <1>3, <2>1, <3>2, <4>1
      <4>3. row.thread = plan[c].thread
        BY <1>3, <4>2 DEF Postgres!Writes, Postgres!Thread
      <4>4. plan[c].op # "graph"
        BY <1>2, <1>3, <2>1, <3>2, <4>1, <4>3
      <4> QED
        BY <1>3, <2>1, <3>2, <4>2, <4>3, <4>4
    <3> QED
      BY <1>4, <3>1, <3>2
  <2> QED
    BY <1>2, <2>1 DEF OwnSaves, OwnSave, Postgres!Visible, Postgres!Thread
<1>12. CopiesStay'
  <2>1. ASSUME NEW f \in Calls, Postgres!Unmixed(f)', HasCopy(f)
        PROVE  HasCopy(f)'
    <3>1. PICK r \in rows : /\ r.thread = plan[f].to /\ r.round = plan[f].round /\ r.type = "agent"
                            /\ r.id[1] = "cp" /\ plan[r.state].op = "save" /\ plan[r.state].thread = plan[f].thread
      BY <2>1 DEF HasCopy, OwnSave, Postgres!Thread
    <3>2. ~Postgres!Same(r, row)
      <4>1. SUFFICES ASSUME Postgres!Same(r, row) PROVE FALSE
        OBVIOUS
      <4>2. saver = "agent" /\ plan[c].op = "save" /\ row.thread = plan[f].to
        BY <1>3, <1>5, <3>1, <4>1
      <4>3. plan[c].thread = plan[f].to
        BY <1>3, <4>2 DEF Postgres!Writes, Postgres!Thread
      <4> QED
        BY <1>1, <1>2, <2>1, <4>2, <4>3 DEF Postgres!Unmixed, Postgres!Begun, Postgres!Thread
    <3> QED
      BY <1>2, <1>4, <3>1, <3>2 DEF HasCopy, OwnSave, Postgres!Thread
  <2>2. CopiesKept(c)
    BY <2>1 DEF CopiesKept
  <2>3. plan[c].op = "fork" /\ Postgres!Unmixed(c)' => HasCopy(c)'
    BY <1>1, <1>2, <1>3, <1>4 DEF HasCopy, OwnSave, Postgres!Thread, Postgres!Writes
  <2> QED
    BY <2>2, <2>3, PgCopiesKept
<1>13. GoneStays'
  <2>1. ASSUME NEW d \in Calls, d # c, plan[d].op = "delete", Alone(d)
        PROVE  Postgres!Writes(c) # plan[d].thread
    <3>1. c \notin call[d].after
      BY <1>2, NotAfter
    <3> QED
      BY <1>2, <1>3, <2>1, <3>1 DEF Alone, PgWriters, Postgres!Begun, Postgres!Thread
  <2>2. GoneKept(c)
    BY <1>2, <1>3, <1>4, <2>1 DEF GoneKept, NoRows, NoEvents, Postgres!Thread
  <2>3. plan[c].op # "delete"
    BY <1>3
  <2> QED
    BY <1>2, <2>2, <2>3, PgGoneKept
<1> QED
  BY <1>6, <1>7, <1>8, <1>9, <1>10, <1>11, <1>12, <1>13 DEF PgInv

\* A call that is past its beginning moves as its actions say.
LEMMA PgSteps ==
    ASSUME PgInv, NEW c \in Calls,
           NEW at \in {"sent", "copying", "events", "answered", "ok", "failed"},
           NEW got \in Postgres!Rows \cup {None}, NEW time \in Nat,
           call[c].at \in {"setup", "sent", "copying", "events", "answered"},
           call' = [call EXCEPT ![c] = [at |-> at, time |-> time, got |-> got, after |-> call[c].after]],
           UNCHANGED <<saver, plan, now>>, time <= now,
           got # None => got.thread = Postgres!Thread(c),
           at = "copying" => CopyOf(c, got), at = "events" => plan[c].op = "delete"
    PROVE  PgMove(c, [at |-> at, time |-> time, got |-> got, after |-> call[c].after])
<1> DEFINE x == [at |-> at, time |-> time, got |-> got, after |-> call[c].after]
<1>1. call[c] \in PgCalls /\ Postgres!Offered(c)
  BY DEF PgInv, PgTypes, PgShape
<1>2. call[c].after \in SUBSET Calls
  BY <1>1 DEF PgCalls
<1>3. x \in PgCalls
  BY <1>2 DEF PgCalls
<1>4. x.at = at /\ x.time = time /\ x.got = got /\ x.after = call[c].after
  OBVIOUS
<1> HIDE DEF x
<1>5. call' = [call EXCEPT ![c] = x]
  BY DEF x
<1>6. PgMove(c, x)
  BY <1>1, <1>3, <1>4, <1>5 DEF PgMove
<1> QED
  BY <1>6 DEF x

\* What is known of a call that is being executed, as a record.
LEMMA PgCall ==
    ASSUME PgInv, NEW c \in Calls
    PROVE  /\ call[c].time \in Nat /\ call[c].time <= now /\ call[c].got \in Postgres!Rows \cup {None}
           /\ call[c].got # None => call[c].got.thread = Postgres!Thread(c)
           /\ call[c].at = "events" => plan[c].op = "delete"
           /\ call[c].at = "copying" => CopyOf(c, call[c].got)
<1>1. call \in [Calls -> PgCalls] /\ call[c] \in PgCalls
  BY DEF PgInv, PgTypes
<1>2. /\ call[c].time \in Nat /\ call[c].time <= now /\ call[c].got \in Postgres!Rows \cup {None}
      /\ call[c].got # None => call[c].got.thread = Postgres!Thread(c)
      /\ call[c].at = "events" => plan[c].op = "delete"
      /\ call[c].at = "copying" => CopyOf(c, call[c].got)
  BY <1>1 DEF PgCalls, PgInv, PgShape
<1> QED
  BY <1>2

\* A step of the field of a record is a step of the record:
LEMMA AtIs ==
    ASSUME PgInv, NEW c \in Calls, NEW at, call' = [call EXCEPT ![c].at = at]
    PROVE  call' = [call EXCEPT ![c] = [at |-> at, time |-> call[c].time, got |-> call[c].got,
                                        after |-> call[c].after]]
<1> DEFINE x == [at |-> at, time |-> call[c].time, got |-> call[c].got, after |-> call[c].after]
<1>1. call \in [Calls -> PgCalls] /\ call[c] \in PgCalls
  BY DEF PgInv, PgTypes
<1>2. [call[c] EXCEPT !.at = at] = x
  BY <1>1 DEF PgCalls
<1> HIDE DEF x
<1>3. call' = [call EXCEPT ![c] = x]
  BY <1>1, <1>2
<1> QED
  BY <1>3 DEF x

\* of one field, of two,
LEMMA FieldsAre ==
    ASSUME PgInv, NEW c \in Calls, NEW at, NEW got
    PROVE  [call[c] EXCEPT !.at = at, !.got = got]
               = [at |-> at, time |-> call[c].time, got |-> got, after |-> call[c].after]
<1> DEFINE rec(g) == [at |-> at, time |-> call[c].time, got |-> g, after |-> call[c].after]
<1>1. call[c] \in PgCalls
  BY DEF PgInv, PgTypes
<1>2. [call[c] EXCEPT !.at = at] = rec(call[c].got)
  BY <1>1 DEF PgCalls
<1>3. [rec(call[c].got) EXCEPT !.got = got] = rec(got)
  OBVIOUS
<1> HIDE DEF rec
<1>4. [call[c] EXCEPT !.at = at, !.got = got] = rec(got)
  BY <1>2, <1>3
<1> QED
  BY <1>4 DEF rec

\* of two by the module's own step,
LEMMA StepIs ==
    ASSUME PgInv, NEW c \in Calls, NEW at, NEW got, Postgres!Step(c, at, got)
    PROVE  call' = [call EXCEPT ![c] = [at |-> at, time |-> call[c].time, got |-> got,
                                        after |-> call[c].after]]
<1> DEFINE x == [at |-> at, time |-> call[c].time, got |-> got, after |-> call[c].after]
<1>1. call' = [call EXCEPT ![c].at = at, ![c].got = got]
  BY DEF Postgres!Step
<1>2. call \in [Calls -> PgCalls]
  BY DEF PgInv, PgTypes
<1>3. [call[c] EXCEPT !.at = at, !.got = got] = x
  BY FieldsAre
<1> HIDE DEF x
<1>4. call' = [call EXCEPT ![c] = x]
  BY <1>1, <1>2, <1>3
<1> QED
  BY <1>4 DEF x

\* and of the three that a fork sets.
TimedStep(c, at, got, time) ==
    call' = [call EXCEPT ![c].at = at, ![c].got = got, ![c].time = time]

\* It is a step of the record too.
LEMMA TimedStepIs ==
    ASSUME PgInv, NEW c \in Calls, NEW at, NEW got, NEW time, TimedStep(c, at, got, time)
    PROVE  call' = [call EXCEPT ![c] = [at |-> at, time |-> time, got |-> got,
                                        after |-> call[c].after]]
<1> DEFINE x == [at |-> at, time |-> time, got |-> got, after |-> call[c].after]
<1>1. call \in [Calls -> PgCalls]
  BY DEF PgInv, PgTypes
<1>2. [call[c] EXCEPT !.at = at, !.got = got, !.time = time] = x
  <2> DEFINE y == [at |-> at, time |-> call[c].time, got |-> got, after |-> call[c].after]
  <2>1. [call[c] EXCEPT !.at = at, !.got = got] = y
    BY FieldsAre
  <2>2. [y EXCEPT !.time = time] = x
    OBVIOUS
  <2> HIDE DEF x, y
  <2> QED
    BY <2>1, <2>2
<1> HIDE DEF x
<1>3. call' = [call EXCEPT ![c] = x]
  BY <1>1, <1>2 DEF TimedStep
<1> QED
  BY <1>3 DEF x

\* Plans are typed.
LEMMA PgPlan ==
    ASSUME PgInv, NEW c \in Calls
    PROVE  /\ plan[c].op \in Postgres!Ops /\ plan[c].round \in Nat
           /\ plan[c].thread \in Postgres!PlanThreads /\ plan[c].to \in Postgres!PlanThreads
BY PgBounds DEF PgInv, PgTypes

\* A call begins, is set up, fails or returns.
LEMMA PgBegins == ASSUME PgInv, NEW c \in Calls, Postgres!Begin(c) PROVE PgInv'
<1> DEFINE at == IF initialized THEN "sent" ELSE "setup"
           x == [at |-> at, time |-> now, got |-> None, after |-> Postgres!Returned]
<1>1. /\ call' = [call EXCEPT ![c] = x] /\ call[c].at = "idle" /\ Postgres!Offered(c)
      /\ UNCHANGED <<saver, plan, rows, events, initialized, now>>
  BY DEF Postgres!Begin
<1>2. now \in Nat /\ at \in {"sent", "setup"} /\ Postgres!Returned \in SUBSET Calls
  BY PgBounds DEF PgInv, PgTypes, Postgres!Returned
<1> HIDE DEF at
<1>3. x \in PgCalls
  BY <1>2 DEF PgCalls
<1>4. x.at = at /\ x.time = now /\ x.got = None /\ x.after = Postgres!Returned
  OBVIOUS
<1> HIDE DEF x
<1>5. PgMove(c, x)
  BY <1>1, <1>2, <1>3, <1>4 DEF PgMove
<1>6. initialized' \in BOOLEAN /\ x.at # "events" /\ ~(x.at \in {"answered", "ok"})
  BY <1>1, <1>2, <1>4 DEF PgInv, PgTypes
<1> QED
  BY <1>1, <1>5, <1>6, PgQuiet

\* What only goes on, fails or returns changes no table.
LEMMA PgGoesOn ==
    ASSUME PgInv, NEW c \in Calls, NEW at \in {"sent", "failed", "ok"},
           call[c].at \in {"setup", "sent", "copying", "events", "answered"},
           at = "ok" => call[c].at = "answered",
           call' = [call EXCEPT ![c].at = at], UNCHANGED <<saver, plan, rows, events, now>>,
           initialized' \in BOOLEAN
    PROVE  PgInv'
<1> DEFINE x == [at |-> at, time |-> call[c].time, got |-> call[c].got, after |-> call[c].after]
<1>1. call' = [call EXCEPT ![c] = x]
  BY AtIs
<1>2. /\ call[c].got \in Postgres!Rows \cup {None} /\ call[c].time \in Nat /\ call[c].time <= now
      /\ call[c].got # None => call[c].got.thread = Postgres!Thread(c)
  BY PgCall
<1>3. at # "copying" /\ at # "events"
  OBVIOUS
<1>4. PgMove(c, x)
  BY <1>1, <1>2, <1>3, PgSteps
<1>5. x.at = at /\ x.got = call[c].got /\ x.time = call[c].time
  OBVIOUS
<1> HIDE DEF x
<1>6. x.at \in {"answered", "ok"} => PgAnswers(c, x) /\ (PgExecuted(c) \/ plan[c].op # "delete")
  BY <1>5 DEF PgAnswers, PgExecuted
<1> QED
  BY <1>3, <1>4, <1>5, <1>6, PgQuiet

\* A row that is there already is not written again: the call throws.
LEMMA PgRefused ==
    ASSUME PgInv, NEW c \in Calls, call[c].at \in {"sent", "copying"},
           Postgres!Step(c, "failed", None), UNCHANGED <<saver, plan, rows, events, initialized, now>>
    PROVE  PgInv'
<1> DEFINE x == [at |-> "failed", time |-> call[c].time, got |-> None, after |-> call[c].after]
<1>1. call' = [call EXCEPT ![c] = x]
  BY StepIs
<1>2. call[c].time \in Nat /\ call[c].time <= now /\ None \in Postgres!Rows \cup {None}
  BY PgCall
<1>3. PgMove(c, x)
  BY <1>1, <1>2, PgSteps
<1>4. x.at = "failed" /\ initialized' \in BOOLEAN
  BY DEF PgInv, PgTypes
<1> HIDE DEF x
<1> QED
  BY <1>3, <1>4, PgQuiet

\* A row that is not is.
LEMMA PgWritten ==
    ASSUME PgInv, NEW c \in Calls, call[c].at \in {"sent", "copying"},
           Postgres!Step(c, "answered", None), UNCHANGED <<saver, plan, events, initialized, now>>,
           NEW row \in Postgres!Rows,
           WrittenRow(c, [at |-> "answered", time |-> call[c].time, got |-> None,
                          after |-> call[c].after], row),
           rows' = Postgres!Upsert(row)
    PROVE  PgInv'
<1> DEFINE x == [at |-> "answered", time |-> call[c].time, got |-> None, after |-> call[c].after]
<1>1. call' = [call EXCEPT ![c] = x]
  BY StepIs
<1>2. call[c].time \in Nat /\ call[c].time <= now /\ None \in Postgres!Rows \cup {None}
  BY PgCall
<1>3. PgMove(c, x)
  BY <1>1, <1>2, PgSteps
<1>4. x.at = "answered" /\ WrittenRow(c, x, row)
  OBVIOUS
<1> HIDE DEF x
<1> QED
  BY <1>3, <1>4, PgWrites

\* A row is inserted, or the unique key refuses it.
LEMMA PgInserts ==
    ASSUME PgInv, NEW c \in Calls, call[c].at \in {"sent", "copying"},
           UNCHANGED <<saver, plan, events, initialized, now>>,
           NEW row \in Postgres!Rows, Postgres!Insert(c, row),
           ~Postgres!Conflicts(row) =>
               WrittenRow(c, [at |-> "answered", time |-> call[c].time, got |-> None,
                              after |-> call[c].after], row)
    PROVE  PgInv'
<1>1. CASE Postgres!Conflicts(row)
  BY <1>1, PgRefused DEF Postgres!Insert
<1>2. CASE ~Postgres!Conflicts(row)
  <2>1. Postgres!Step(c, "answered", None) /\ rows' = rows \cup {row}
    BY <1>2 DEF Postgres!Insert
  <2>2. rows' = Postgres!Upsert(row)
    BY <1>2, <2>1 DEF Postgres!Conflicts, Postgres!Upsert
  <2> QED
    BY <1>2, <2>1, <2>2, PgWritten
<1> QED
  BY <1>1, <1>2

\* The rows that are written are rows.
LEMMA AgentRowMade ==
    ASSUME NEW thread \in Postgres!PlanThreads, NEW round \in Nat, NEW state \in Calls
    PROVE  /\ Postgres!AgentRow(thread, round, state) \in Postgres!Rows
           /\ Postgres!AgentRow(thread, round, state).thread = thread
           /\ Postgres!AgentRow(thread, round, state).id = <<"cp", round, 0>>
           /\ Postgres!AgentRow(thread, round, state).type = "agent"
           /\ Postgres!AgentRow(thread, round, state).state = state
           /\ Postgres!AgentRow(thread, round, state).round = round
           /\ Postgres!AgentRow(thread, round, state).time = 0
<1>1. 0 \in Nat /\ <<"cp", round, 0>> \in {"cp", "graph"} \X Nat \X Nat
  OBVIOUS
<1> QED
  BY <1>1 DEF Postgres!AgentRow, Postgres!Rows

\* of either saver.
LEMMA GraphRowMade ==
    ASSUME NEW thread \in Postgres!PlanThreads, NEW round \in Nat, NEW state \in Calls, NEW time \in Nat
    PROVE  /\ Postgres!GraphRow(thread, round, state, time) \in Postgres!Rows
           /\ Postgres!GraphRow(thread, round, state, time).thread = thread
           /\ Postgres!GraphRow(thread, round, state, time).id = <<"cp", round, time>>
           /\ Postgres!GraphRow(thread, round, state, time).type = "agent"
           /\ Postgres!GraphRow(thread, round, state, time).state = state
           /\ Postgres!GraphRow(thread, round, state, time).round = round
           /\ Postgres!GraphRow(thread, round, state, time).time = time
<1>1. <<"cp", round, time>> \in {"cp", "graph"} \X Nat \X Nat
  OBVIOUS
<1> QED
  BY <1>1 DEF Postgres!GraphRow, Postgres!Rows

\* A save,
LEMMA PgSaves == ASSUME PgInv, NEW c \in Calls, Postgres!Save(c) PROVE PgInv'
<1> DEFINE x == [at |-> "answered", time |-> call[c].time, got |-> None, after |-> call[c].after]
           a == Postgres!AgentRow(Postgres!Thread(c), plan[c].round, c)
           g == Postgres!GraphRow(Postgres!Thread(c), plan[c].round, c, call[c].time)
<1>1. /\ call[c].at = "sent" /\ plan[c].op = "save"
      /\ UNCHANGED <<saver, plan, events, initialized, now>>
  BY DEF Postgres!Save
<1>2. /\ plan[c].round \in Nat /\ Postgres!Thread(c) \in Postgres!PlanThreads
      /\ call[c].time \in Nat /\ call[c].time <= now /\ saver \in {"agent", "graph"} /\ now \in Nat
  <2>1. now \in Nat /\ saver \in {"agent", "graph"}
    BY PgBounds DEF PgInv, PgTypes
  <2>2. plan[c].round \in Nat /\ plan[c].thread \in Postgres!PlanThreads
    BY PgPlan
  <2>3. call[c].time \in Nat /\ call[c].time <= now
    BY PgCall
  <2> QED
    BY <2>1, <2>2, <2>3 DEF Postgres!Thread
<1>3. x.time = call[c].time /\ Postgres!Writes(c) = Postgres!Thread(c)
  BY <1>1 DEF Postgres!Writes
<1> HIDE DEF x
<1>4. CASE saver = "agent"
  <2>1. rows' = Postgres!Upsert(a) /\ Postgres!Step(c, "answered", None)
    BY <1>4 DEF Postgres!Save
  <2>2. /\ a \in Postgres!Rows /\ a.thread = Postgres!Thread(c) /\ a.id = <<"cp", plan[c].round, 0>>
        /\ a.state = c /\ a.round = plan[c].round /\ a.time = 0 /\ a.type = "agent"
    BY <1>2, AgentRowMade
  <2> HIDE DEF a
  <2>3. WrittenRow(c, x, a)
    BY <1>1, <1>2, <1>3, <1>4, <2>2 DEF WrittenRow
  <2> QED
    BY <1>1, <2>1, <2>2, <2>3, PgWritten DEF x
<1>5. CASE saver = "graph"
  <2>1. Postgres!Insert(c, g)
    BY <1>5 DEF Postgres!Save
  <2>2. /\ g \in Postgres!Rows /\ g.thread = Postgres!Thread(c)
        /\ g.id = <<"cp", plan[c].round, call[c].time>>
        /\ g.state = c /\ g.round = plan[c].round /\ g.time = call[c].time /\ g.type = "agent"
    BY <1>2, GraphRowMade
  <2> HIDE DEF g
  <2>3. ~Postgres!Conflicts(g) => WrittenRow(c, x, g)
    BY <1>1, <1>2, <1>3, <1>5, <2>2 DEF WrittenRow
  <2> QED
    BY <1>1, <2>1, <2>2, <2>3, PgInserts DEF x
<1> QED
  BY <1>2, <1>4, <1>5

\* and a checkpoint of a graph.
LEMMA PgSavesGraph == ASSUME PgInv, NEW c \in Calls, Postgres!SaveGraphCheckpoint(c) PROVE PgInv'
<1> DEFINE x == [at |-> "answered", time |-> call[c].time, got |-> None, after |-> call[c].after]
           g == Postgres!CheckpointRow(c)
<1>1. /\ call[c].at = "sent" /\ plan[c].op = "graph"
      /\ UNCHANGED <<saver, plan, events, initialized, now>>
  BY DEF Postgres!SaveGraphCheckpoint
<1>2. /\ plan[c].round \in Nat /\ Postgres!Thread(c) \in Postgres!PlanThreads
      /\ call[c].time \in Nat /\ call[c].time <= now /\ saver \in {"agent", "graph"}
  BY PgPlan, PgCall DEF Postgres!Thread, PgInv, PgTypes
<1>3. /\ g \in Postgres!Rows /\ g.thread = Postgres!Thread(c) /\ g.time = call[c].time
      /\ g.type = "graph" /\ (saver = "agent" => g.id[1] = "graph")
  <2>1. /\ <<"graph", plan[c].round, call[c].time>> \in {"cp", "graph"} \X Nat \X Nat
        /\ <<"cp", plan[c].round, call[c].time>> \in {"cp", "graph"} \X Nat \X Nat
    BY <1>2
  <2> QED
    BY <1>2, <2>1 DEF Postgres!CheckpointRow, Postgres!Rows
<1>4. Postgres!Writes(c) = Postgres!Thread(c)
  BY <1>1 DEF Postgres!Writes
<1> HIDE DEF x, g
<1>5. ~Postgres!Conflicts(g) \/ saver = "agent" => WrittenRow(c, x, g)
  BY <1>1, <1>2, <1>3, <1>4 DEF WrittenRow
<1>6. CASE saver = "agent"
  <2>1. rows' = Postgres!Upsert(g) /\ Postgres!Step(c, "answered", None)
    BY <1>6 DEF Postgres!SaveGraphCheckpoint, g
  <2> QED
    BY <1>1, <1>3, <1>5, <1>6, <2>1, PgWritten DEF x
<1>7. CASE saver = "graph"
  <2>1. Postgres!Insert(c, g)
    BY <1>7 DEF Postgres!SaveGraphCheckpoint, g
  <2> QED
    BY <1>1, <1>3, <1>5, <2>1, PgInserts DEF x
<1> QED
  BY <1>2, <1>6, <1>7

\* What a load or a fork looks at, and that a save that returned before it
\* began is there.
LEMMA FoundRows ==
    ASSUME PgInv, NEW c \in Calls
    PROVE  /\ \A r \in Postgres!Found(c) :
                  /\ r \in rows /\ r \in Postgres!Rows /\ r # None /\ r.thread = Postgres!Thread(c)
                  /\ r \in Postgres!Visible(Postgres!Thread(c))
                  /\ plan[c].op # "load" => r.round = plan[c].round
           /\ \A r \in Postgres!Newest(Postgres!Found(c)) :
                  /\ r \in Postgres!Found(c)
                  /\ \A q \in Postgres!Found(c) : Postgres!Rank(r) >= Postgres!Rank(q)
BY PgBounds DEF PgInv, PgTypes, Postgres!Found, Postgres!Visible, Postgres!Newest

\* What was saved is found.
LEMMA SavedIsFound ==
    ASSUME PgInv, NEW c \in Calls, NEW s \in call[c].after, OwnSave(c, s), KeptOwn(s),
           plan[c].op = "load" \/ plan[s].round = plan[c].round
    PROVE  \E r \in Postgres!Found(c) :
               /\ r.round = plan[s].round
               /\ saver = "graph" => r.time = call[s].time
<1>1. s \in Calls /\ call[s].at = "ok"
  BY DEF PgInv, PgShape, Postgres!Returned
<1>2. HasSaved(s) /\ plan[s].thread = plan[c].thread
  BY <1>1 DEF PgInv, SavedStays, PgExecuted, OwnSave, Postgres!Thread
<1>3. PICK r \in rows : /\ r.thread = plan[c].thread /\ r.round = plan[s].round /\ r.type = "agent"
                        /\ saver = "graph" => r.time = call[s].time
  BY <1>2 DEF HasSaved, Postgres!Thread
<1>4. r \in Postgres!Found(c)
  BY <1>3 DEF Postgres!Found, Postgres!Visible, Postgres!Thread
<1> QED
  BY <1>3, <1>4

\* A load finds the newest,
LEMMA PgLoads == ASSUME PgInv, NEW c \in Calls, Postgres!Load(c) PROVE PgInv'
<1>1. /\ call[c].at = "sent" /\ plan[c].op \in {"load", "loadAt"}
      /\ UNCHANGED <<saver, plan, rows, events, initialized, now>>
  BY DEF Postgres!Load
<1>2. PICK got : /\ got \in (IF Postgres!Found(c) = {} THEN {None}
                             ELSE Postgres!Newest(Postgres!Found(c)))
                 /\ Postgres!Step(c, "answered", got)
  BY DEF Postgres!Load
<1> DEFINE x == [at |-> "answered", time |-> call[c].time, got |-> got, after |-> call[c].after]
<1>3. /\ got \in Postgres!Rows \cup {None} /\ (got # None => got.thread = Postgres!Thread(c))
      /\ Postgres!Found(c) # {} =>
             /\ got # None /\ \A q \in Postgres!Found(c) : Postgres!Rank(got) >= Postgres!Rank(q)
  BY <1>2, FoundRows
<1>4. call[c].time \in Nat /\ call[c].time <= now
  BY PgCall
<1>5. call' = [call EXCEPT ![c] = x]
  BY <1>2, StepIs
<1>6. PgMove(c, x)
  BY <1>1, <1>3, <1>4, <1>5, PgSteps
<1>7. x.at = "answered" /\ x.got = got /\ x.after = call[c].after
  OBVIOUS
<1> HIDE DEF x
<1>8. /\ call'[c] = x /\ \A s \in Calls : s # c => call'[s] = call[s]
      /\ \A s \in Calls : call[s].at # "idle" /\ KeptOwn(s)' => KeptOwn(s)
  BY <1>6, PgMoves
<1>9. ASSUME plan[c].op = "load"
      PROVE  LoadedNewest(c)'
  <2>1. ASSUME NEW s \in call[c].after, OwnSave(c, s)', KeptOwn(s)'
        PROVE  /\ got # None
               /\ saver = "agent" => got.round >= plan[s].round
               /\ saver = "graph" => got.time >= call'[s].time
    <3>1. s \in Calls /\ call[s].at = "ok" /\ s # c
      BY <1>1 DEF PgInv, PgShape, Postgres!Returned
    <3>2. OwnSave(c, s) /\ KeptOwn(s) /\ call'[s] = call[s]
      BY <1>1, <1>8, <2>1, <3>1, PlansSame
    <3>3. PICK r \in Postgres!Found(c) : /\ r.round = plan[s].round
                                         /\ saver = "graph" => r.time = call[s].time
      BY <1>9, <3>2, SavedIsFound
    <3>4. got # None /\ Postgres!Rank(got) >= Postgres!Rank(r)
      BY <1>3
    <3> QED
      BY <3>2, <3>3, <3>4 DEF Postgres!Rank
  <2>2. call'[c].got = got /\ call'[c].after = call[c].after /\ saver' = saver /\ plan' = plan
    BY <1>1, <1>7, <1>8
  <2> QED
    BY <2>1, <2>2 DEF LoadedNewest
<1>10. PgAnswers(c, x) /\ plan[c].op # "delete" /\ initialized' \in BOOLEAN
  BY <1>1, <1>9 DEF PgAnswers, PgInv, PgTypes
<1> QED
  BY <1>1, <1>6, <1>7, <1>10, PgQuiet

\* and a fork what it copies.
LEMMA PgForks == ASSUME PgInv, NEW c \in Calls, Postgres!Fork(c) PROVE PgInv'
<1>1. /\ call[c].at = "sent" /\ plan[c].op = "fork"
      /\ UNCHANGED <<saver, plan, events, initialized, now>>
  BY DEF Postgres!Fork
<1>2. /\ plan[c].round \in Nat /\ plan[c].to \in Postgres!PlanThreads
      /\ call[c].time \in Nat /\ call[c].time <= now
  BY PgPlan, PgCall
<1>3. now \in Nat /\ now <= now /\ saver \in {"agent", "graph"} /\ initialized' \in BOOLEAN
  BY <1>1, PgBounds DEF PgInv, PgTypes
<1>4. CASE Postgres!Found(c) = {}
  <2> DEFINE x == [at |-> "answered", time |-> call[c].time, got |-> None, after |-> call[c].after]
  <2>1. Postgres!Step(c, "answered", None) /\ rows' = rows
    BY <1>4 DEF Postgres!Fork
  <2>2. call' = [call EXCEPT ![c] = x] /\ None \in Postgres!Rows \cup {None}
    BY <2>1, StepIs
  <2>3. PgMove(c, x)
    BY <1>1, <1>2, <2>2, PgSteps
  <2>4. x.at = "answered"
    OBVIOUS
  <2> HIDE DEF x
  <2>5. ~SourceOf(c)
    BY <1>4, SavedIsFound DEF SourceOf
  <2>6. PgAnswers(c, x) /\ plan[c].op # "delete"
    BY <1>1, <2>5 DEF PgAnswers
  <2> QED
    BY <1>1, <1>3, <2>1, <2>3, <2>4, <2>6, PgQuiet
<1>5. CASE Postgres!Found(c) # {}
  <2>1. PICK r \in Postgres!Newest(Postgres!Found(c)) :
            IF saver = "agent"
            THEN Postgres!Insert(c, Postgres!AgentRow(plan[c].to, plan[c].round, r.state))
            ELSE /\ call' = [call EXCEPT ![c].at = "copying", ![c].got = r, ![c].time = now]
                 /\ UNCHANGED rows
    BY <1>5 DEF Postgres!Fork
  <2>2. /\ r \in Postgres!Rows /\ r # None /\ r.thread = Postgres!Thread(c)
        /\ r.round = plan[c].round /\ r \in Postgres!Visible(Postgres!Thread(c))
    BY <1>1, FoundRows
  <2>3. r.state \in Calls /\ (Postgres!Unmixed(c) => OwnSave(c, r.state))
    BY <2>2 DEF Postgres!Rows, PgInv, OwnSaves
  <2>4. CASE saver = "agent"
    <3> DEFINE x == [at |-> "answered", time |-> call[c].time, got |-> None,
                     after |-> call[c].after]
               a == Postgres!AgentRow(plan[c].to, plan[c].round, r.state)
    <3>1. Postgres!Insert(c, a)
      BY <2>1, <2>4
    <3>2. /\ a \in Postgres!Rows /\ a.thread = plan[c].to /\ a.id = <<"cp", plan[c].round, 0>>
          /\ a.type = "agent" /\ a.id[1] = "cp" /\ a.state = r.state /\ a.round = plan[c].round /\ a.time = 0
      BY <1>2, <2>3, AgentRowMade
    <3> HIDE DEF a, x
    <3>3. ~Postgres!Conflicts(a) => WrittenRow(c, x, a)
      BY <1>1, <1>3, <2>3, <3>2 DEF WrittenRow, Postgres!Writes
    <3> QED
      BY <1>1, <3>1, <3>2, <3>3, PgInserts DEF x
  <2>5. CASE saver = "graph"
    <3> DEFINE x == [at |-> "copying", time |-> now, got |-> r, after |-> call[c].after]
    <3>1. call' = [call EXCEPT ![c].at = "copying", ![c].got = r, ![c].time = now] /\ rows' = rows
      BY <2>1, <2>5
    <3>2. call' = [call EXCEPT ![c] = x]
      <4>1. TimedStep(c, "copying", r, now)
        BY <3>1 DEF TimedStep
      <4> QED
        BY <4>1, TimedStepIs
    <3>3. CopyOf(c, r)
      BY <1>1, <2>2, <2>3, <2>5 DEF CopyOf
    <3>4. PgMove(c, x)
      BY <1>1, <1>3, <2>2, <3>2, <3>3, PgSteps
    <3>5. x.at = "copying"
      OBVIOUS
    <3> HIDE DEF x
    <3>6. x.at # "events" /\ ~(x.at \in {"answered", "ok"})
      BY <3>5
    <3> QED
      BY <1>1, <1>3, <3>1, <3>4, <3>6, PgQuiet
  <2> QED
    BY <1>3, <2>4, <2>5
<1> QED
  BY <1>4, <1>5

\* The graph's fork saves what it has read.
LEMMA PgForkSaves == ASSUME PgInv, NEW c \in Calls, Postgres!ForkSaves(c) PROVE PgInv'
<1> DEFINE x == [at |-> "answered", time |-> call[c].time, got |-> None, after |-> call[c].after]
           g == Postgres!GraphRow(plan[c].to, call[c].got.round, call[c].got.state, call[c].time)
<1>1. /\ call[c].at = "copying" /\ UNCHANGED <<saver, plan, events, initialized, now>>
      /\ Postgres!Insert(c, g)
  BY DEF Postgres!ForkSaves
<1>2. /\ plan[c].to \in Postgres!PlanThreads /\ call[c].time \in Nat /\ call[c].time <= now
      /\ CopyOf(c, call[c].got) /\ call[c].got \in Postgres!Rows \cup {None}
  <2>1. plan[c].to \in Postgres!PlanThreads
    BY PgPlan
  <2>2. /\ call[c].time \in Nat /\ call[c].time <= now /\ call[c].got \in Postgres!Rows \cup {None}
        /\ call[c].at = "copying" => CopyOf(c, call[c].got)
    BY PgCall
  <2> QED
    BY <1>1, <2>1, <2>2
<1>3. /\ call[c].got \in Postgres!Rows /\ plan[c].op = "fork" /\ call[c].got.round = plan[c].round
      /\ saver = "graph"
      /\ Postgres!Unmixed(c) => OwnSave(c, call[c].got.state)
  BY <1>2 DEF CopyOf
<1>4. call[c].got.state \in Calls /\ call[c].got.round \in Nat
  BY <1>3 DEF Postgres!Rows
<1>5. /\ g \in Postgres!Rows /\ g.thread = plan[c].to
      /\ g.id = <<"cp", call[c].got.round, call[c].time>> /\ g.id[1] = "cp" /\ g.type = "agent"
      /\ g.state = call[c].got.state /\ g.round = call[c].got.round /\ g.time = call[c].time
  <2>1. /\ plan[c].to \in Postgres!PlanThreads /\ call[c].got.round \in Nat
        /\ call[c].got.state \in Calls /\ call[c].time \in Nat
    BY <1>2, <1>4
  <2> QED
    BY ONLY <2>1, GraphRowMade
<1> HIDE DEF g, x
<1>6. ~Postgres!Conflicts(g) => WrittenRow(c, x, g)
  BY <1>2, <1>3, <1>5 DEF WrittenRow, Postgres!Writes
<1> QED
  BY <1>1, <1>5, <1>6, PgInserts DEF x

\* A delete takes the rows away,
LEMMA PgDeletes == ASSUME PgInv, NEW c \in Calls, Postgres!Delete(c) PROVE PgInv'
<1> DEFINE at == IF saver = "agent" THEN "events" ELSE "answered"
           x == [at |-> at, time |-> call[c].time, got |-> None, after |-> call[c].after]
<1>1. /\ call[c].at = "sent" /\ plan[c].op = "delete"
      /\ UNCHANGED <<saver, plan, events, initialized, now>>
      /\ rows' = {r \in rows : r.thread # plan[c].thread} /\ Postgres!Step(c, at, None)
  BY DEF Postgres!Delete, Postgres!Thread
<1>2. at \in {"events", "answered"} /\ (at = "answered" => saver = "graph")
  BY DEF PgInv, PgTypes
<1> HIDE DEF at
<1>3. call' = [call EXCEPT ![c] = x]
  BY <1>1, StepIs
<1>4. call[c].time \in Nat /\ call[c].time <= now /\ None \in Postgres!Rows \cup {None}
  BY PgCall
<1>5. PgMove(c, x)
  BY <1>1, <1>2, <1>3, <1>4, PgSteps
<1>6. x.at = at /\ x.at \in {"events", "answered"}
  BY <1>2
<1> HIDE DEF x
<1>7. /\ call' \in [Calls -> PgCalls] /\ call'[c] = x
      /\ \A s \in Calls : s # c => call'[s] = call[s]
  BY <1>5, PgMoves
<1>8. \A s \in Calls : c \notin call[s].after
  BY <1>1, NotAfter
<1>9. PgTypes' /\ PgTables'
  BY <1>1, <1>7 DEF PgInv, PgTypes, PgTables, Postgres!Same
<1>10. PgShape' /\ OwnSaves'
  BY <1>1, <1>5, PgShapeKept, PgOwnKept
<1>11. SavedStays'
  <2>1. ASSUME NEW s \in Calls, s # c, KeptOwn(s), HasSaved(s)
        PROVE  HasSaved(s)'
    <3>1. plan[s].thread # plan[c].thread
      BY <1>1, <1>8, <2>1 DEF KeptOwn, Postgres!Kept, Postgres!Begun, Postgres!Thread
    <3> QED
      BY <1>1, <1>7, <2>1, <3>1 DEF HasSaved, Postgres!Thread
  <2>2. SavedKept(c)
    BY <2>1 DEF SavedKept
  <2> QED
    BY <1>1, <1>5, <2>2, PgSavedKept
<1>12. LoadsNewest'
  BY <1>1, <1>5, PgLoadsKept
<1>13. CopiesStay'
  <2>1. ASSUME NEW f \in Calls, f # c, KeptTo(f)', HasCopy(f)
        PROVE  HasCopy(f)'
    <3>1. call'[f].after = call[f].after /\ c \notin call[f].after /\ call'[c].at # "idle"
      BY <1>6, <1>7, <1>8, <2>1
    <3>2. plan[f].to # plan[c].thread
      BY <1>1, <2>1, <3>1 DEF KeptTo, Postgres!Kept, Postgres!Begun, Postgres!Thread
    <3> QED
      BY <1>1, <2>1, <3>2 DEF HasCopy, OwnSave, Postgres!Thread
  <2>2. CopiesKept(c)
    BY <2>1 DEF CopiesKept
  <2> QED
    BY <1>1, <1>5, <2>2, PgCopiesKept
<1>14. GoneStays'
  <2>1. GoneKept(c)
    BY <1>1 DEF GoneKept, NoRows, NoEvents, Postgres!Thread
  <2>2. NoRows(c)'
    BY <1>1 DEF NoRows, Postgres!Thread
  <2>3. x.at \in {"answered", "ok"} => NoEvents(c)'
    BY <1>1, <1>2, <1>6 DEF NoEvents, PgInv, PgTables
  <2>4. call[c].at = "idle" => x.at # "events"
    BY <1>1
  <2> QED
    BY <1>5, <2>1, <2>2, <2>3, <2>4, PgGoneKept
<1> QED
  BY <1>9, <1>10, <1>11, <1>12, <1>13, <1>14 DEF PgInv

\* a delete or an event of the log is all that touches the log.
Logged(c) ==
    \A e \in events' :
        e \in events \/ (plan[c].op = "append" /\ e.thread = Postgres!Thread(c))

\* A call that does either keeps the invariant:
LEMMA PgLogs ==
    ASSUME PgInv, NEW c \in Calls, call[c].at \in {"sent", "events"},
           plan[c].op \in {"delete", "append"}, Postgres!Step(c, "answered", None),
           UNCHANGED <<saver, plan, rows, initialized, now>>, events' \in SUBSET PgEvents,
           Logged(c), plan[c].op = "delete" => call[c].at = "events" /\ NoEvents(c)'
    PROVE  PgInv'
<1> DEFINE x == [at |-> "answered", time |-> call[c].time, got |-> None, after |-> call[c].after]
<1>1. call' = [call EXCEPT ![c] = x]
  BY StepIs
<1>2. call[c].time \in Nat /\ call[c].time <= now /\ None \in Postgres!Rows \cup {None}
  BY PgCall
<1>3. PgMove(c, x)
  BY <1>1, <1>2, PgSteps
<1>4. x.at = "answered"
  OBVIOUS
<1> HIDE DEF x
<1>5. PgAnswers(c, x)
  BY DEF PgAnswers
<1>6. /\ PgShape' /\ SavedStays' /\ LoadsNewest' /\ OwnSaves' /\ CopiesStay'
      /\ \A d \in Calls : NoRows(d) => NoRows(d)'
  BY <1>3, <1>5, PgRowsSame
<1>7. call' \in [Calls -> PgCalls]
  BY <1>3, PgMoves
<1>8. Postgres!Offered(c)
  BY DEF PgInv, PgShape
<1>9. saver = "graph" => events' = {}
  BY <1>8 DEF PgInv, PgTables, Postgres!Offered, Logged
<1>10. PgTypes' /\ PgTables'
  BY <1>7, <1>9 DEF PgInv, PgTypes, PgTables, Postgres!Same
<1>11. GoneStays'
  <2>1. ASSUME NEW d \in Calls, d # c, plan[d].op = "delete", Alone(d), NoEvents(d)
        PROVE  NoEvents(d)'
    <3>1. c \notin call[d].after
      BY NotAfter
    <3>2. plan[c].op = "append" => Postgres!Thread(c) # Postgres!Thread(d)
      BY <2>1, <3>1 DEF Alone, PgWriters, Postgres!Begun, Postgres!Writes
    <3> QED
      BY <2>1, <3>2, PlansSame DEF NoEvents, Postgres!Thread, Logged
  <2>2. GoneKept(c)
    BY <1>6, <2>1 DEF GoneKept
  <2>3. ASSUME plan[c].op = "delete", Alone(c)
        PROVE  NoRows(c)' /\ NoEvents(c)'
    <3>1. NoRows(c)
      BY <2>3 DEF PgInv, GoneStays, NoRows
    <3> QED
      BY <1>6, <2>3, <3>1
  <2> QED
    BY <1>3, <2>2, <2>3, PgGoneKept
<1> QED
  BY <1>6, <1>10, <1>11 DEF PgInv

\* the events are deleted,
LEMMA PgDeletesEvents == ASSUME PgInv, NEW c \in Calls, Postgres!DeleteEvents(c) PROVE PgInv'
<1>1. /\ call[c].at = "events" /\ UNCHANGED <<saver, plan, rows, initialized, now>>
      /\ events' = {e \in events : e.thread # Postgres!Thread(c)} /\ Postgres!Step(c, "answered", None)
  BY DEF Postgres!DeleteEvents
<1>2. plan[c].op = "delete"
  BY <1>1, PgCall
<1>3. events' \in SUBSET PgEvents /\ Logged(c)
  BY <1>1 DEF PgInv, PgTypes, Logged
<1>4. NoEvents(c)'
  BY <1>1 DEF NoEvents, Postgres!Thread
<1> QED
  BY <1>1, <1>2, <1>3, <1>4, PgLogs

\* or one is appended.
LEMMA PgAppends == ASSUME PgInv, NEW c \in Calls, Postgres!AppendEvent(c) PROVE PgInv'
<1> DEFINE e == [thread |-> Postgres!Thread(c), seq |-> plan[c].round, payload |-> c]
<1>1. /\ call[c].at = "sent" /\ plan[c].op = "append"
      /\ UNCHANGED <<saver, plan, rows, initialized, now>>
      /\ events' \in {events, events \cup {e}} /\ Postgres!Step(c, "answered", None)
  BY DEF Postgres!AppendEvent
<1>2. plan[c].round \in Nat /\ plan[c].thread \in Postgres!PlanThreads
  BY PgPlan
<1>3. e \in PgEvents /\ e.thread = Postgres!Thread(c)
  BY <1>2 DEF PgEvents, Postgres!Thread
<1> HIDE DEF e
<1>4. events' \in SUBSET PgEvents /\ \A f \in events' : f \in events \/ f = e
  BY <1>1, <1>3 DEF PgInv, PgTypes
<1>5. Logged(c) /\ plan[c].op # "delete"
  BY <1>1, <1>3, <1>4 DEF Logged
<1> QED
  BY <1>1, <1>4, <1>5, PgLogs

\* What does not depend on the clock does not change with it.
LEMMA PgPartsSame ==
    ASSUME PgInv, UNCHANGED <<saver, plan, rows, events, call>>
    PROVE  SavedStays' /\ LoadsNewest' /\ OwnSaves' /\ CopiesStay' /\ GoneStays'
<1>1. /\ \A s : KeptOwn(s)' <=> KeptOwn(s)
      /\ \A s : KeptTo(s)' <=> KeptTo(s)
      /\ \A s : PgExecuted(s)' <=> PgExecuted(s)
      /\ \A s, f : OwnSave(f, s)' <=> OwnSave(f, s)
  BY DEF KeptOwn, KeptTo, Postgres!Kept, Postgres!Begun, Postgres!Thread, PgExecuted, OwnSave
<1>2. /\ \A f : Postgres!Unmixed(f)' <=> Postgres!Unmixed(f)
      /\ \A d : Alone(d)' <=> Alone(d)
  BY DEF Postgres!Unmixed, Postgres!Begun, Postgres!Writes, Postgres!Thread, Alone
<1>3. /\ \A s : HasSaved(s)' <=> HasSaved(s)
      /\ \A f : HasCopy(f)' <=> HasCopy(f)
      /\ \A f : SourceOf(f)' <=> SourceOf(f)
      /\ \A l : LoadedNewest(l)' <=> LoadedNewest(l)
  <2>1. \A s : HasSaved(s)' <=> HasSaved(s)
    BY DEF HasSaved, Postgres!Thread
  <2>2. \A f : HasCopy(f)' <=> HasCopy(f)
    BY DEF HasCopy, OwnSave, Postgres!Thread
  <2>3. \A f : SourceOf(f)' <=> SourceOf(f)
    BY <1>1 DEF SourceOf
  <2>4. \A l : LoadedNewest(l)' <=> LoadedNewest(l)
    BY <1>1 DEF LoadedNewest
  <2> QED
    BY <2>1, <2>2, <2>3, <2>4
<1>4. SavedStays'
  BY <1>1, <1>3 DEF PgInv, SavedStays
<1>5. LoadsNewest'
  BY <1>1, <1>3 DEF PgInv, LoadsNewest
<1>6. OwnSaves'
  <2>1. ASSUME NEW f \in Calls, Postgres!Unmixed(f)
        PROVE  \A r \in rows : (/\ r.thread = plan[f].thread
                                /\ saver = "graph" => r.type = "agent")
                   => plan[r.state].op = "save" /\ plan[r.state].thread = plan[f].thread
    BY <2>1 DEF PgInv, OwnSaves, OwnSave, Postgres!Visible, Postgres!Thread
  <2> QED
    BY <1>2, <2>1 DEF OwnSaves, OwnSave, Postgres!Visible, Postgres!Thread
<1>7. CopiesStay'
  BY <1>1, <1>2, <1>3 DEF PgInv, CopiesStay
<1>8. GoneStays'
  BY <1>1, <1>2 DEF PgInv, GoneStays, Postgres!Thread
<1> QED
  BY <1>4, <1>5, <1>6, <1>7, <1>8

\* The clock only goes on.
LEMMA PgTicks == ASSUME PgInv, Postgres!Tick PROVE PgInv'
<1>1. /\ now < MaxTime /\ now' = now + 1
      /\ UNCHANGED <<saver, plan, rows, events, initialized, call>>
  BY DEF Postgres!Tick
<1>2. now \in Nat /\ now' \in 0..MaxTime
  BY <1>1, PgBounds DEF PgInv, PgTypes
<1>3. PgTypes'
  BY <1>1, <1>2 DEF PgInv, PgTypes
<1>4. \A r \in rows : r.time \in Nat
  BY DEF PgInv, PgTypes, Postgres!Rows
<1>5. \A r \in rows : r.time <= now'
  BY <1>1, <1>2, <1>4 DEF PgInv, PgTables
<1>6. PgTables'
  BY <1>1, <1>5 DEF PgInv, PgTables, Postgres!Same
<1>7. \A c \in Calls : call[c].time <= now'
  <2>1. \A c \in Calls : call[c].time \in Nat /\ call[c].time <= now
    BY PgCall
  <2> QED
    BY <1>1, <1>2, <2>1
<1>8. /\ SavedStays' /\ LoadsNewest' /\ OwnSaves' /\ CopiesStay' /\ GoneStays'
  BY <1>1, PgPartsSame
<1>9. PgShape'
  BY <1>1, <1>7 DEF PgInv, PgShape, Postgres!Returned, Postgres!Thread, Postgres!Offered, CopyOf,
     Postgres!Unmixed, Postgres!Begun, Postgres!Writes, OwnSave
<1> QED
  BY <1>3, <1>6, <1>8, <1>9 DEF PgInv

\* Every step keeps the invariant,
LEMMA PgNext == PgInv /\ Postgres!PNext => PgInv'
<1> SUFFICES ASSUME PgInv, Postgres!PNext PROVE PgInv'
  OBVIOUS
<1>1. ASSUME NEW c \in Calls, Postgres!SetUp(c) PROVE PgInv'
  <2>1. /\ call[c].at = "setup" /\ initialized' \in BOOLEAN
        /\ call' = [call EXCEPT ![c].at = "sent"] /\ UNCHANGED <<saver, plan, rows, events, now>>
    BY <1>1 DEF Postgres!SetUp
  <2> QED
    BY <2>1, PgGoesOn
<1>2. ASSUME NEW c \in Calls, Postgres!SetUpFails(c) \/ Postgres!Throws(c) PROVE PgInv'
  <2>1. /\ call[c].at \in {"setup", "sent", "copying", "events", "answered"}
        /\ call' = [call EXCEPT ![c].at = "failed"]
        /\ UNCHANGED <<saver, plan, rows, events, initialized, now>>
    BY <1>2 DEF Postgres!SetUpFails, Postgres!Throws
  <2>2. initialized' \in BOOLEAN
    BY <2>1 DEF PgInv, PgTypes
  <2> QED
    BY <2>1, <2>2, PgGoesOn
<1>3. ASSUME NEW c \in Calls, Postgres!Returns(c) PROVE PgInv'
  <2>1. /\ call[c].at = "answered" /\ call' = [call EXCEPT ![c].at = "ok"]
        /\ UNCHANGED <<saver, plan, rows, events, initialized, now>>
    BY <1>3 DEF Postgres!Returns
  <2>2. initialized' \in BOOLEAN
    BY <2>1 DEF PgInv, PgTypes
  <2> QED
    BY <2>1, <2>2, PgGoesOn
<1> QED
  BY <1>1, <1>2, <1>3, PgBegins, PgSaves, PgSavesGraph, PgLoads, PgForks, PgForkSaves, PgDeletes,
     PgDeletesEvents, PgAppends, PgTicks DEF Postgres!PNext, Postgres!Executes

\* and none does.
LEMMA PgStutters == PgInv /\ UNCHANGED postgresVars => PgInv'
<1> SUFFICES ASSUME PgInv, UNCHANGED postgresVars PROVE PgInv'
  OBVIOUS
<1>1. UNCHANGED <<saver, plan, rows, events, initialized, now, call>>
  BY DEF postgresVars
<1>2. PgTypes' /\ PgTables'
  BY <1>1 DEF PgInv, PgTypes, PgTables, Postgres!Same
<1>3. /\ SavedStays' /\ LoadsNewest' /\ OwnSaves' /\ CopiesStay' /\ GoneStays'
  BY <1>1, PgPartsSame
<1>4. PgShape'
  BY <1>1 DEF PgInv, PgShape, Postgres!Returned, Postgres!Thread, Postgres!Offered, CopyOf,
     Postgres!Unmixed, Postgres!Begun, Postgres!Writes, OwnSave
<1> QED
  BY <1>2, <1>3, <1>4 DEF PgInv

\* What the run checks follows from it.
LEMMA PgTyped == PgInv => Postgres!PTypeOK /\ Postgres!PostgresSafe
<1> SUFFICES ASSUME PgInv PROVE Postgres!PTypeOK /\ Postgres!PostgresSafe
  OBVIOUS
<1>1. Postgres!PTypeOK
  <2>1. \A r \in rows : r.state \in Calls /\ r.time \in Nat
    BY DEF PgInv, PgTypes, Postgres!Rows
  <2>2. now \in Nat /\ now <= MaxTime /\ now \in 0..MaxTime
    BY PgBounds DEF PgInv, PgTypes
  <2>3. \A r \in rows : r.time \in 0..MaxTime
    <3>1. \A r \in rows : r.time <= now
      BY DEF PgInv, PgTables
    <3> QED
      BY <2>1, <2>2, <3>1, PgBounds
  <2>4. \A c \in Calls : call[c].at \in {"idle", "setup", "sent", "copying", "events", "answered",
                                         "ok", "failed"}
    BY DEF PgInv, PgTypes, PgCalls
  <2> QED
    BY <2>1, <2>2, <2>3, <2>4 DEF Postgres!PTypeOK, PgInv, PgTypes, PgTables, PgShape
<1>2. Postgres!NothingOlder
  <2>1. ASSUME NEW l \in Postgres!Returned, NEW s \in Calls, plan[l].op = "load",
               plan[s].op = "save", Postgres!Thread(s) = Postgres!Thread(l),
               s \in call[l].after, Postgres!Kept(s, Postgres!Thread(s))
        PROVE  /\ call[l].got # None
               /\ saver = "agent" => call[l].got.round >= plan[s].round
               /\ saver = "graph" => call[l].got.time >= call[s].time
    <3>1. LoadedNewest(l)
      BY <2>1 DEF PgInv, LoadsNewest, PgExecuted, Postgres!Returned
    <3> QED
      BY <2>1, <3>1 DEF LoadedNewest, OwnSave, KeptOwn
  <2>2. saver \in {"agent", "graph"}
    BY DEF PgInv, PgTypes
  <2> QED
    BY <2>1, <2>2 DEF Postgres!NothingOlder
<1>3. Postgres!ForksCopied
  <2>1. ASSUME NEW f \in Postgres!Returned, NEW s \in Calls, plan[f].op = "fork",
               plan[s].op = "save", Postgres!Thread(s) = Postgres!Thread(f),
               plan[s].round = plan[f].round, s \in call[f].after,
               Postgres!Kept(s, Postgres!Thread(s)), Postgres!Kept(f, plan[f].to),
               Postgres!Unmixed(f)
        PROVE  \E r \in rows : /\ r.thread = plan[f].to /\ r.round = plan[f].round
                               /\ plan[r.state].op = "save"
                               /\ Postgres!Thread(r.state) = Postgres!Thread(f)
    <3>1. SourceOf(f)
      BY <2>1 DEF SourceOf, OwnSave, KeptOwn
    <3>2. HasCopy(f)
      BY <2>1, <3>1 DEF PgInv, CopiesStay, PgExecuted, KeptTo, Postgres!Returned
    <3> QED
      BY <3>2 DEF HasCopy, OwnSave
  <2> QED
    BY <2>1 DEF Postgres!ForksCopied
<1>4. Postgres!DeletedGone
  <2>1. ASSUME NEW d \in Postgres!Returned, plan[d].op = "delete",
               \A w \in Calls : (/\ Postgres!Writes(w) = Postgres!Thread(d) /\ Postgres!Begun(w)
                                 /\ w # d /\ plan[w].op \notin {"load", "loadAt", "delete"})
                                    => w \in call[d].after
        PROVE  \A r \in rows \cup events : r.thread # Postgres!Thread(d)
    <3>1. Alone(d)
      BY <2>1 DEF Alone, PgWriters
    <3> QED
      BY <2>1, <3>1 DEF PgInv, GoneStays, PgExecuted, Postgres!Returned
  <2> QED
    BY <2>1 DEF Postgres!DeletedGone
<1> QED
  BY <1>1, <1>2, <1>3, <1>4 DEF Postgres!PostgresSafe

(***************************************************************************)
(* All of them: the one that runs keeps its invariant.                     *)
(***************************************************************************)
BackendsInv ==
    /\ part = "channels" => ChannelInv
    /\ part = "a2a" => A2aInv
    /\ part = "rest" => RestInv
    /\ part = "worktrees" => TreeInv
    /\ part = "postgres" => PgInv

\* The invariant of the part that runs holds in every state of every behaviour.
THEOREM Invariance == Spec => []BackendsInv
<1>1. Init => BackendsInv
  BY ChannelInit, A2aInit, RestInit, TreeInit, PgInit DEF Init, BackendsInv
<1>2. BackendsInv /\ [Next]_vars => BackendsInv'
  <2> SUFFICES ASSUME BackendsInv, [Next]_vars PROVE BackendsInv'
    OBVIOUS
  <2>1. UNCHANGED part
    BY DEF Next, vars
  <2>2. (part = "channels" => ChannelInv)'
    BY <2>1, ChannelNext, ChannelStutters DEF Next, vars, BackendsInv
  <2>3. (part = "a2a" => A2aInv)'
    BY <2>1, A2aNext, A2aStutters DEF Next, vars, BackendsInv
  <2>4. (part = "rest" => RestInv)'
    BY <2>1, RestNext, RestStutters DEF Next, vars, BackendsInv
  <2>5. (part = "worktrees" => TreeInv)'
    BY <2>1, TreeNext, TreeStutters DEF Next, vars, BackendsInv
  <2>6. (part = "postgres" => PgInv)'
    BY <2>1, PgNext, PgStutters DEF Next, vars, BackendsInv
  <2> QED
    BY <2>2, <2>3, <2>4, <2>5, <2>6 DEF BackendsInv
<1> QED
  BY <1>1, <1>2, PTL DEF Spec

\* What the servers promise their clients: the events of a stream are in order
\* and end once, a tool is told what its task became, subscribers see the events
\* in one order, and a run reported as completed has left a checkpoint, however
\* requests overlap and the server restarts (a2a/, channels/,
\* graph/rest-server.ts).
THEOREM ServersAreSafe == Spec => []ServersSafe
<1>1. BackendsInv => ServersSafe
  BY A2aTyped, ChannelTyped, RestTyped DEF BackendsInv, ServersSafe
<1> QED
  BY Invariance, <1>1, PTL

\* What the savers and the worktrees keep: a load gives nothing older than what
\* was saved before it, a fork is whole, what is deleted is gone, an agent keeps
\* its worktree unless one whose name is cut to the same takes it for stale, no
\* two agents work in one, and others keep their branches, in whatever order the
\* statements are executed, whatever the names are and wherever a process ends
\* (agent/postgres-checkpointer.ts, graph/postgres-saver.ts, swarm/worktree.ts).
THEOREM StoresAreSafe == Spec => []StoresSafe
<1>1. BackendsInv => StoresSafe
  BY PgTyped, TreeTyped DEF BackendsInv, StoresSafe
<1> QED
  BY Invariance, <1>1, PTL

=============================================================================
