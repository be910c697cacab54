----------------------------- MODULE LiveEvents -----------------------------
(***************************************************************************)
(* The live event stream over several replicas: the in-process bus, the    *)
(* bridge that NOTIFYs the other replicas and relays their events, and the *)
(* Server-Sent Events that clients open with a ticket, from                *)
(* services/events.py, services/cluster.py and routers/stream.py.          *)
(*                                                                         *)
(* Handlers publish from threads; delivery to the streams runs on the      *)
(* replica's event loop, to which threads hand it over.  The sender, the   *)
(* listener and the loop take one thing at a time, in order.               *)
(***************************************************************************)
EXTENDS Naturals, Sequences, FiniteSets, SequencesExt

CONSTANTS Replicas, Streams, Nothing,
          Publishers, Home,        \* publishing threads, and the replica of each
          Serving,                 \* the replicas that streams are opened on
          Tenants, Own, Provider,  \* the streams' acting tenant, and their users' home tenant
          OutboxSize, QueueSize, HistorySize, ReplaySize,
          MaxEvents,
          MaxChanges     \* faults, and changes by users and administrators

ASSUME LiveEventsAssumption ==
    /\ Home \in [Publishers -> Replicas] /\ Serving \subseteq Replicas /\ {Own, Provider} \subseteq Tenants
    /\ {OutboxSize, QueueSize, ReplaySize, MaxEvents, MaxChanges} \subseteq Nat
    /\ HistorySize \in Nat \ {0} /\ Nothing \notin Replicas

VARIABLES mode,       \* the acting tenant's operating mode
          revoked,    \* the users' session is revoked
          pub,        \* what a thread has forwarded and not yet recorded
          count,      \* events published by each thread
          outbox,     \* PgEventBridge._outbox
          retry,      \* the event _sender tries again
          channel,    \* notifications on the listener's connection
          up,         \* the listener has its connection
          history,    \* EventBus._recent
          calls,      \* deliveries scheduled on the loop
          stream,     \* event_stream by stream
          changes,    \* faults, and what users and administrators change
          owed,       \* what a stream was open for when it was published
          resent,     \* events notified again after an error that came too late
          lost        \* events that may not reach a stream: dropped, or missed by a listener

bridge == <<outbox, retry, channel, up>>
eventVars == <<mode, revoked, pub, count, outbox, retry, channel, up, history, calls, stream, changes, owed, resent, lost>>

Events == [by : Publishers, n : Nat \ {0}, tenant : Tenants, scope : {"DEMO", "LIVE"}]
Closed == [phase |-> "none", on |-> Nothing, scope |-> "none", queue |-> <<>>, replay |-> <<>>, live |-> <<>>]
Subscribed == {s \in Streams : stream[s].phase \in {"open", "live", "orphan"}}
Followed == {s \in Streams : stream[s].phase \in {"open", "live"}}

EventsTypeOK ==
    /\ mode \in {"DEMO", "LIVE"} /\ {revoked} \cup {up[p] : p \in Replicas} \subseteq BOOLEAN
    /\ \A p \in Replicas :
          /\ Range(outbox[p]) \cup Range(channel[p]) \cup Range(history[p]) \cup Range(calls[p]) \subseteq Events
          /\ Len(outbox[p]) <= OutboxSize /\ Len(history[p]) <= HistorySize
    /\ \A s \in Streams :
          /\ stream[s].phase \in {"none", "checked", "open", "live", "orphan", "ended"}
          /\ Len(stream[s].queue) <= QueueSize

EventsInit ==
    /\ mode = "DEMO" /\ revoked = FALSE /\ pub = [t \in Publishers |-> Nothing] /\ count = [t \in Publishers |-> 0]
    /\ outbox = [p \in Replicas |-> <<>>] /\ retry = [p \in Replicas |-> Nothing]
    /\ channel = [p \in Replicas |-> <<>>] /\ up = [p \in Replicas |-> TRUE]
    /\ history = [p \in Replicas |-> <<>>] /\ calls = [p \in Replicas |-> <<>>]
    /\ stream = [s \in Streams |-> Closed]
    /\ changes = 0 /\ owed = {} /\ resent = {} /\ lost = {}

-----------------------------------------------------------------------------
(* The bus.                                                                *)

\* Subscription.allows.
Allows(st, e) == IF e.tenant = Own THEN e.scope = st.scope ELSE e.tenant = Provider

\* deque(maxlen).
Recorded(log, e) == IF Len(log) < HistorySize THEN Append(log, e) ELSE Append(Tail(log), e)

Missed(e, ss) == {e} \X ss

\* Mutant of Relays: a replica delivers its own notifications.
RelaysAll(p, e) == TRUE

\* A listener leaves out what its own replica has published.
Relays(p, e) == Home[e.by] # p

\* Streams that e is to reach by the bridge; those on the replicas in ps.
Remote(e, ps) == {s \in Streams : stream[s].on \in ps \ {Home[e.by]}}

\* _session_alive.
Alive == ~revoked

\* Events published so far.
Published == FoldFunction(LAMBDA x, y : x + y, 0, count)

\* publish_soon up to the forwarder: a full outbox drops the event.
Forward(t, tenant) ==
    LET p == Home[t]
        e == [by |-> t, n |-> count[t] + 1, tenant |-> tenant, scope |-> mode]
        full == Len(outbox[p]) >= OutboxSize
    IN  /\ pub[t] = Nothing /\ Published < MaxEvents
        /\ count' = [count EXCEPT ![t] = @ + 1] /\ pub' = [pub EXCEPT ![t] = e]
        /\ outbox' = IF full THEN outbox ELSE [outbox EXCEPT ![p] = Append(@, e)]
        /\ lost' = lost \cup (IF full THEN Missed(e, Remote(e, Replicas)) ELSE {})
        /\ owed' = owed \cup Missed(e, {s \in Followed : Allows(stream[s], e)})
        /\ UNCHANGED <<mode, revoked, retry, channel, up, history, calls, stream, changes, resent>>

\* _record_and_deliver in the publishing thread.
Record(t) ==
    LET p == Home[t]
    IN  /\ pub[t] # Nothing
        /\ history' = [history EXCEPT ![p] = Recorded(@, pub[t])]
        /\ calls' = [calls EXCEPT ![p] = Append(@, pub[t])]
        /\ pub' = [pub EXCEPT ![t] = Nothing]
        /\ UNCHANGED <<mode, revoked, count, bridge, stream, changes, owed, resent, lost>>

\* _deliver on the loop: a full queue drops the event.
Deliver(p) ==
    /\ calls[p] # <<>>
    /\ LET e == Head(calls[p])
           wants == {s \in Subscribed : stream[s].on = p /\ Allows(stream[s], e)}
           full == {s \in wants : Len(stream[s].queue) >= QueueSize}
       IN  /\ stream' = [s \in Streams |-> IF s \in wants \ full THEN [stream[s] EXCEPT !.queue = Append(@, e)]
                                           ELSE stream[s]]
           /\ lost' = lost \cup Missed(e, full)
           /\ calls' = [calls EXCEPT ![p] = Tail(@)]
    /\ UNCHANGED <<mode, revoked, pub, count, bridge, history, changes, owed, resent>>

-----------------------------------------------------------------------------
(* The bridge.                                                             *)

\* What _sender works on.
Sending(p) == IF retry[p] # Nothing THEN retry[p] ELSE Head(outbox[p])

\* Once more over a new connection, then the event is dropped.
Retried(p) ==
    IF retry[p] = Nothing
    THEN /\ retry' = [retry EXCEPT ![p] = Head(outbox[p])] /\ lost' = lost
         /\ outbox' = [outbox EXCEPT ![p] = Tail(@)]
    ELSE /\ retry' = [retry EXCEPT ![p] = Nothing] /\ outbox' = outbox
         /\ lost' = lost \cup Missed(retry[p], Remote(retry[p], Replicas))

Notified(e) == [q \in Replicas |-> IF up[q] THEN Append(channel[q], e) ELSE channel[q]]

Sends(p) == retry[p] # Nothing \/ outbox[p] # <<>>

\* _sender: SELECT pg_notify; who does not listen misses it.
Notify(p) ==
    /\ Sends(p)
    /\ channel' = Notified(Sending(p))
    /\ lost' = lost \cup Missed(Sending(p), Remote(Sending(p), {q \in Replicas : ~up[q]}))
    /\ retry' = [retry EXCEPT ![p] = Nothing]
    /\ outbox' = IF retry[p] # Nothing THEN outbox ELSE [outbox EXCEPT ![p] = Tail(@)]
    /\ UNCHANGED <<mode, revoked, pub, count, up, history, calls, stream, changes, owed, resent>>

\* The statement fails, or its answer does.
NotifyFails(p) ==
    /\ Sends(p) /\ changes < MaxChanges /\ changes' = changes + 1
    /\ Retried(p)
    /\ \/ UNCHANGED <<channel, resent>>
       \/ channel' = Notified(Sending(p)) /\ resent' = resent \cup {Sending(p)}
    /\ UNCHANGED <<mode, revoked, pub, count, up, history, calls, stream, owed>>

\* An event that does not fit in a notification is dropped.
Oversized(p) ==
    /\ retry[p] = Nothing /\ outbox[p] # <<>> /\ changes < MaxChanges /\ changes' = changes + 1
    /\ outbox' = [outbox EXCEPT ![p] = Tail(@)]
    /\ lost' = lost \cup Missed(Head(outbox[p]), Remote(Head(outbox[p]), Replicas))
    /\ UNCHANGED <<mode, revoked, pub, count, retry, channel, up, history, calls, stream, owed, resent>>

\* Mutant of Relay: what another replica published is only recorded.
RelayRecorded(p, e) == history' = [history EXCEPT ![p] = Recorded(@, e)] /\ calls' = calls

\* publish_remote, in the listener's thread.
Relay(p, e) ==
    /\ history' = [history EXCEPT ![p] = Recorded(@, e)]
    /\ calls' = [calls EXCEPT ![p] = Append(@, e)]

\* _listener.
Listen(p) ==
    /\ channel[p] # <<>>
    /\ channel' = [channel EXCEPT ![p] = Tail(@)]
    /\ IF Relays(p, Head(channel[p])) THEN Relay(p, Head(channel[p])) ELSE UNCHANGED <<history, calls>>
    /\ UNCHANGED <<mode, revoked, pub, count, outbox, retry, up, stream, changes, owed, resent, lost>>

\* The listener's connection is lost, and with it what was on its way; it
\* reconnects after a pause.
LoseConnection(p) ==
    /\ up[p] /\ changes < MaxChanges /\ changes' = changes + 1
    /\ up' = [up EXCEPT ![p] = FALSE] /\ channel' = [channel EXCEPT ![p] = <<>>]
    /\ lost' = lost \cup UNION {Missed(e, Remote(e, {p})) : e \in Range(channel[p])}
    /\ UNCHANGED <<mode, revoked, pub, count, outbox, retry, history, calls, stream, owed, resent>>

Reconnect(p) ==
    /\ ~up[p] /\ up' = [up EXCEPT ![p] = TRUE]
    /\ UNCHANGED <<mode, revoked, pub, count, outbox, retry, channel, history, calls, stream, changes, owed, resent, lost>>

\* A replica stops: its streams end, its memory is gone, and what it had not
\* sent is lost; another process takes its place.
Restart(p) ==
    /\ changes < MaxChanges /\ changes' = changes + 1
    /\ LET unsent == Range(outbox[p]) \cup ({retry[p]} \ {Nothing})
       IN  lost' = lost \cup UNION {Missed(e, Remote(e, Replicas)) : e \in unsent}
    /\ outbox' = [outbox EXCEPT ![p] = <<>>] /\ retry' = [retry EXCEPT ![p] = Nothing]
    /\ channel' = [channel EXCEPT ![p] = <<>>] /\ up' = [up EXCEPT ![p] = TRUE]
    /\ history' = [history EXCEPT ![p] = <<>>] /\ calls' = [calls EXCEPT ![p] = <<>>]
    /\ pub' = [t \in Publishers |-> IF Home[t] = p THEN Nothing ELSE pub[t]]
    /\ stream' = [s \in Streams |-> IF stream[s].on = p THEN [stream[s] EXCEPT !.phase = "ended", !.queue = <<>>]
                                    ELSE stream[s]]
    /\ UNCHANGED <<mode, revoked, count, owed, resent>>

-----------------------------------------------------------------------------
(* Streams.                                                                *)

Goes(s, from, to) == stream[s].phase = from /\ stream' = [stream EXCEPT ![s].phase = to]

\* POST stream/ticket in the tenant's present scope, and the lookup of the
\* session that GET stream makes in a thread.
Ticket(s) ==
    /\ stream[s].phase = "none" /\ Alive
    /\ stream' = [stream EXCEPT ![s].phase = "checked", ![s].scope = mode]
    /\ UNCHANGED <<mode, revoked, pub, count, bridge, history, calls, changes, owed, resent, lost>>

Subscribe(s, p) ==
    /\ stream[s].phase = "checked"
    /\ stream' = [stream EXCEPT ![s].phase = "open", ![s].on = p]
    /\ UNCHANGED <<mode, revoked, pub, count, bridge, history, calls, changes, owed, resent, lost>>

\* recent(): the last of what the stream may see.
Recent(st, log) ==
    LET past == SelectSeq(log, LAMBDA e : Allows(st, e))
    IN  SubSeq(past, IF Len(past) > ReplaySize THEN Len(past) - ReplaySize + 1 ELSE 1, Len(past))

\* The generator starts: recent() first, then what is queued since subscribe.
Begin(s) ==
    /\ stream[s].phase = "open"
    /\ stream' = [stream EXCEPT ![s].phase = "live", ![s].replay = Recent(stream[s], history[stream[s].on])]
    /\ UNCHANGED <<mode, revoked, pub, count, bridge, history, calls, changes, owed, resent, lost>>

Yield(s) ==
    /\ stream[s].phase = "live" /\ stream[s].queue # <<>>
    /\ stream' = [stream EXCEPT ![s].live = Append(@, Head(stream[s].queue)), ![s].queue = Tail(@)]
    /\ UNCHANGED <<mode, revoked, pub, count, bridge, history, calls, changes, owed, resent, lost>>

\* Nothing for HEARTBEAT seconds: the session is looked up again.
Heartbeat(s) ==
    /\ stream[s].phase = "live" /\ stream[s].queue = <<>> /\ ~Alive
    /\ Goes(s, "live", "ended")
    /\ UNCHANGED <<mode, revoked, pub, count, bridge, history, calls, changes, owed, resent, lost>>

\* The client leaves.  A generator that has not started runs no finally: its
\* subscription stays in the bus.
Leave(s) ==
    /\ changes < MaxChanges /\ changes' = changes + 1
    /\ \/ Goes(s, "live", "ended") \/ Goes(s, "open", "orphan")
    /\ UNCHANGED <<mode, revoked, pub, count, bridge, history, calls, owed, resent, lost>>

Revoke ==
    /\ ~revoked /\ revoked' = TRUE /\ changes < MaxChanges /\ changes' = changes + 1
    /\ UNCHANGED <<mode, pub, count, bridge, history, calls, stream, owed, resent, lost>>

SwitchMode ==
    /\ mode = "DEMO" /\ mode' = "LIVE" /\ changes < MaxChanges /\ changes' = changes + 1
    /\ UNCHANGED <<revoked, pub, count, bridge, history, calls, stream, owed, resent, lost>>

EventsNext ==
    \/ \E t \in Publishers : Record(t) \/ \E tenant \in Tenants : Forward(t, tenant)
    \/ \E p \in Replicas : \/ Deliver(p) \/ Notify(p) \/ NotifyFails(p) \/ Oversized(p) \/ Listen(p)
                           \/ LoseConnection(p) \/ Reconnect(p) \/ Restart(p)
    \/ \E s \in Streams : \/ Ticket(s) \/ Begin(s) \/ Yield(s) \/ Heartbeat(s) \/ Leave(s)
                          \/ \E p \in Serving : Subscribe(s, p)
    \/ Revoke \/ SwitchMode

EventsSpec == EventsInit /\ [][EventsNext]_eventVars

\* Threads and loops are scheduled, the database answers, clients read.
FairSpec ==
    /\ EventsSpec
    /\ \A t \in Publishers : WF_eventVars(Record(t))
    /\ \A p \in Replicas : WF_eventVars(Deliver(p)) /\ WF_eventVars(Notify(p)) /\ WF_eventVars(Listen(p))
    /\ \A s \in Streams : WF_eventVars(Begin(s)) /\ WF_eventVars(Yield(s))

-----------------------------------------------------------------------------
(* Properties.                                                             *)

\* What one thread publishes reaches a stream's queue once and in the order
\* of publication, through retries and on every replica; only a notification
\* that was sent twice comes twice, and then in one place.  (What arrives
\* between subscribe and recent() is shown by both.)
OnceInOrder ==
    \A s \in Streams :
        LET got == stream[s].live \o stream[s].queue
        IN  \A i, j \in DOMAIN got :
               i < j /\ got[i].by = got[j].by =>
                  got[i].n < got[j].n \/ (got[i] = got[j] /\ got[i] \in resent)

\* An event reaches every stream that was open for it when it was published,
\* on any replica, unless a bounded queue or a broken connection lost it.
ReachesStreams ==
    \A s \in Streams, t \in Publishers, n \in 1..MaxEvents :
        (\E o \in owed : o[2] = s /\ o[1].by = t /\ o[1].n = n)
        ~> \/ \E e \in Range(stream[s].replay \o stream[s].live) : e.by = t /\ e.n = n
           \/ \E o \in lost : o[2] = s /\ o[1].by = t /\ o[1].n = n
           \/ stream[s].phase \in {"ended", "orphan"}
=============================================================================
