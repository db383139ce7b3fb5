--------------------------- MODULE Subscriptions ----------------------------
(***************************************************************************)
(* Two ways to follow events: the subscriptions of the GraphQL resolver    *)
(* (api/graphql/resolver.go), a list of channels behind a read-write lock, *)
(* and the Subscriber of storage/redis/pubsub.go, whose goroutine reads a  *)
(* Redis channel until Close.                                              *)
(***************************************************************************)
EXTENDS Integers, Sequences, FiniteSets, SequencesExt

CONSTANTS SubKinds,        \* among "hub", "redis"
          SubPublishers,   \* goroutines that publish
          SubCapacity,     \* events a channel of a subscription holds
          SubMaxChannels,  \* bound: subscriptions made
          SubMaxEvents     \* bound: events published

ASSUME SubscriptionsAssumption ==
    SubCapacity \in Nat /\ SubMaxChannels \in Nat /\ SubMaxEvents \in Nat

VARIABLES subKind,
          \* The resolver.
          subLists,     \* syncStatusSubs["*"] and of one sync, runProgressSubs of one run
          subChans,     \* the channels, in the order made: key, events in it, and whether
                        \* it is "open", its context "done", "removed" from the list, "closed"
          subPubs,      \* of each publisher the channels it has yet to send to; it holds the
                        \* read lock until there is none
          subEvents,    \* events published
          \* The Subscriber.
          redRuns,      \* the goroutines: "new", "runs", "gone"; cancelled; done, their s.done
          redDones,     \* of each channel made for s.done: how often it was closed
          redS,         \* s.cancel and s.done, 0: nil
          redClose,     \* Close: "no", "waits" with the lock, "returned"
          redOverlap    \* history: a Subscribe before the end of an earlier one

hubVars == <<subLists, subChans, subPubs, subEvents>>
redVars == <<redRuns, redDones, redS, redClose, redOverlap>>
subVars == <<subKind, hubVars, redVars>>

SubKeys == {"*", "sync", "run"}
NotPublishing == [pc |-> "idle", todo |-> <<>>]

SubscriptionsInit ==
    /\ subKind \in SubKinds
    /\ subLists = [k \in SubKeys |-> <<>>] /\ subChans = <<>> /\ subEvents = 0
    /\ subPubs = [p \in SubPublishers |-> NotPublishing]
    /\ redRuns = <<>> /\ redDones = <<>> /\ redS = [cancel |-> 0, done |-> 0]
    /\ redClose = "no" /\ redOverlap = FALSE

-----------------------------------------------------------------------------
(* The resolver.  Lock waits for the publishers that hold the read lock.    *)

Locked == \A p \in SubPublishers : subPubs[p].pc = "idle"

SubscribeTo(key) ==
    /\ subKind = "hub" /\ Locked /\ Len(subChans) < SubMaxChannels
    /\ subChans' = Append(subChans, [key |-> key, events |-> 0, state |-> "open"])
    /\ subLists' = [subLists EXCEPT ![key] = Append(@, Len(subChans) + 1)]
    /\ UNCHANGED <<subKind, subPubs, subEvents, redVars>>

SubscribeSyncStatus == SubscribeTo("*") \/ SubscribeTo("sync")
SubscribeSyncRunProgress == SubscribeTo("run")

SubChange(c, state) ==
    /\ subChans' = [subChans EXCEPT ![c].state = state]
    /\ UNCHANGED <<subKind, subPubs, subEvents, redVars>>

SubscriberLeaves(c) ==
    subChans[c].state = "open" /\ SubChange(c, "done") /\ UNCHANGED subLists

\* The goroutine of the subscription: out of the list under the lock, then closed.
SubscriptionRemoved(c) ==
    /\ subChans[c].state = "done" /\ Locked /\ SubChange(c, "removed")
    /\ subLists' = [subLists EXCEPT ![subChans[c].key] = RemoveFirst(@, c)]
SubscriptionClosedEarly(c) ==
    subChans[c].state \in {"done", "removed"} /\ SubChange(c, "closed") /\ UNCHANGED subLists
SubscriptionClosed(c) ==
    subChans[c].state = "removed" /\ SubChange(c, "closed") /\ UNCHANGED subLists

Publish(p, channels) ==
    /\ subKind = "hub" /\ subPubs[p].pc = "idle" /\ subEvents < SubMaxEvents
    /\ subEvents' = subEvents + 1
    /\ subPubs' = [subPubs EXCEPT ![p] = [pc |-> "sends", todo |-> channels]]
    /\ UNCHANGED <<subKind, subLists, subChans, redVars>>

PublishSyncStatus(p) == Publish(p, subLists["sync"] \o subLists["*"])
PublishSyncRunProgress(p) == Publish(p, subLists["run"])

\* A full channel misses the event; a closed one would be a panic.
PublishSends(p) ==
    /\ subPubs[p].pc = "sends"
    /\ IF subPubs[p].todo = <<>>
         THEN subPubs' = [subPubs EXCEPT ![p] = NotPublishing] /\ UNCHANGED subChans
         ELSE LET c == Head(subPubs[p].todo) IN
              /\ subChans' = IF subChans[c].events < SubCapacity
                               THEN [subChans EXCEPT ![c].events = @ + 1] ELSE subChans
              /\ subPubs' = [subPubs EXCEPT ![p].todo = Tail(@)]
    /\ UNCHANGED <<subKind, subLists, subEvents, redVars>>

SubscriberReceives(c) ==
    /\ subChans[c].events > 0
    /\ subChans' = [subChans EXCEPT ![c].events = @ - 1]
    /\ UNCHANGED <<subKind, subLists, subPubs, subEvents, redVars>>

-----------------------------------------------------------------------------
(* The Subscriber.                                                          *)

\* The confirmation of Redis, or an error, which leaves s.cancel and s.done as they are.
StartReceiver ==
    /\ subKind = "redis" /\ redClose # "waits" /\ Len(redDones) < SubMaxChannels
    /\ redDones' = Append(redDones, 0)
    /\ redS' = [cancel |-> Len(redDones) + 1, done |-> Len(redDones) + 1]
    /\ \E confirmed \in BOOLEAN :
          redRuns' = Append(redRuns, [pc |-> IF confirmed THEN "new" ELSE "gone",
                                      cancelled |-> ~confirmed, done |-> 0])
    /\ redOverlap' = (redOverlap \/ redS.done # 0)
    /\ UNCHANGED <<subKind, hubVars, redClose>>

RedisSubscribe == StartReceiver
SubscribeMultiple == StartReceiver

\* defer close(s.done) takes the s.done of that time, without the lock.
ReceiverStarts(g) ==
    /\ redRuns[g].pc = "new"
    /\ redRuns' = [redRuns EXCEPT ![g].pc = "runs", ![g].done = redS.done]
    /\ UNCHANGED <<subKind, hubVars, redDones, redS, redClose, redOverlap>>

\* The caller's context, of which each subscription has one derived, or the connection.
ReceiverCancelled(g) ==
    /\ ~redRuns[g].cancelled /\ redRuns[g].pc # "gone"
    /\ redRuns' = [redRuns EXCEPT ![g].cancelled = TRUE]
    /\ UNCHANGED <<subKind, hubVars, redDones, redS, redClose, redOverlap>>

ReceiverEnds(g) ==
    /\ redRuns[g].pc = "runs" /\ redRuns[g].cancelled
    /\ redRuns' = [redRuns EXCEPT ![g].pc = "gone"]
    /\ redDones' = IF redRuns[g].done = 0 THEN redDones
                   ELSE [redDones EXCEPT ![redRuns[g].done] = @ + 1]
    /\ UNCHANGED <<subKind, hubVars, redS, redClose, redOverlap>>

CloseCancels ==
    /\ subKind = "redis" /\ redClose # "waits"
    /\ redRuns' = IF redS.cancel = 0 THEN redRuns
                  ELSE [redRuns EXCEPT ![redS.cancel].cancelled = TRUE]
    /\ redS' = [redS EXCEPT !.cancel = 0]
    /\ redClose' = IF redS.done = 0 THEN "returned" ELSE "waits"
    /\ UNCHANGED <<subKind, hubVars, redDones, redOverlap>>

CloseReturns ==
    /\ redClose = "waits" /\ redDones[redS.done] > 0
    /\ redS' = [redS EXCEPT !.done = 0] /\ redClose' = "returned"
    /\ UNCHANGED <<subKind, hubVars, redRuns, redDones, redOverlap>>

SubscriptionsNext ==
    \/ SubscribeSyncStatus \/ SubscribeSyncRunProgress
    \/ \E c \in DOMAIN subChans : SubscriberLeaves(c) \/ SubscriptionRemoved(c)
                                  \/ SubscriptionClosed(c) \/ SubscriberReceives(c)
    \/ \E p \in SubPublishers :
         PublishSyncStatus(p) \/ PublishSyncRunProgress(p) \/ PublishSends(p)
    \/ RedisSubscribe \/ SubscribeMultiple \/ CloseCancels \/ CloseReturns
    \/ \E g \in DOMAIN redRuns :
         ReceiverStarts(g) \/ ReceiverCancelled(g) \/ ReceiverEnds(g)

SubscriptionsSpec == SubscriptionsInit /\ [][SubscriptionsNext]_subVars

-----------------------------------------------------------------------------
SubscriptionsTypeOK ==
    /\ subKind \in SubKinds
    /\ \A c \in DOMAIN subChans :
         /\ subChans[c].events \in 0..SubCapacity
         /\ subChans[c].state \in {"open", "done", "removed", "closed"}
    /\ redS.cancel \in 0..Len(redDones) /\ redS.done \in 0..Len(redDones)
    /\ redClose \in {"no", "waits", "returned"}

\* No goroutine panics over a closed channel.  A publisher that walks a list never has a
\* closed channel before it, although channels are closed without the lock
\* (resolver.go:854).  The goroutines of a Subscriber close each s.done once and never a
\* nil one, and when Close has returned none runs, as long as Subscribe is not called
\* again before Close (pubsub.go:59, 74).
ChannelsSafe ==
    /\ \A p \in SubPublishers : \A i \in DOMAIN subPubs[p].todo :
          subChans[subPubs[p].todo[i]].state # "closed"
    /\ ~redOverlap =>
          /\ \A d \in DOMAIN redDones : redDones[d] <= 1
          /\ \A g \in DOMAIN redRuns :
                /\ redRuns[g].pc \in {"runs", "gone"} /\ redDones[g] > 0 => redRuns[g].done = g
                /\ redClose = "returned" /\ redS.done = 0 => redRuns[g].pc = "gone"
=============================================================================
