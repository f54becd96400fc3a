------------------------- MODULE NotificationStream -------------------------
(***************************************************************************)
(* NotificationStreamAdapter of one process, for one channel (one driver   *)
(* or one rider): the server-sent-event connections of the clients, the    *)
(* subscription of the process to the Redis channel, which is made for the *)
(* first client and dropped after the last, and the notifications emitted  *)
(* meanwhile.                                                              *)
(*                                                                         *)
(* The subscriber connection to Redis is a pair of FIFO queues, the        *)
(* publisher connection another one; Redis handles one command at a time.  *)
(* The callbacks that wait for a subscription all run in the turn of the   *)
(* event loop that receives its reply, in the order they were attached, so *)
(* that receiving the reply is one step.                                   *)
(***************************************************************************)
EXTENDS Naturals, Sequences, Functions

CONSTANTS
  Clients,     \* connections; each connects at most once
  MaxEmits,    \* bound: notifications
  MaxFailures  \* bound: subscriptions that Redis refuses

ASSUME StreamAssumption == MaxEmits \in Nat /\ MaxFailures \in Nat

VARIABLES
  subs,        \* channels.get(channelKey): the connected clients
  gone,        \* the clients that have disconnected
  subscribed,  \* is the channel in redisSubscribedChannels?
  pending,     \* is a promise in redisSubscriptionPromises?
  cleanup,     \* has a cleanup been chained to that promise?
  waiting,     \* the emits that wait for that promise
  up, down,    \* commands and replies of the subscriber connection
  server,      \* has Redis the subscription?
  pubs,        \* the PUBLISH commands that Redis has not handled
  owed,        \* the clients that were connected when each emit was called
  inbox,       \* what each client received
  failures     \* subscriptions refused so far

vars == <<subs, gone, subscribed, pending, cleanup, waiting, up, down, server,
          pubs, owed, inbox, failures>>

\* A reply on the subscriber connection; a message is the number of its emit.
OK == 0
Error == MaxEmits + 1

Init ==
  /\ subs = {} /\ gone = {}
  /\ subscribed = FALSE /\ pending = FALSE /\ cleanup = FALSE
  /\ waiting = << >>
  /\ up = << >> /\ down = << >> /\ server = FALSE /\ pubs = << >>
  /\ owed = << >>
  /\ inbox = [c \in Clients |-> << >>]
  /\ failures = 0

(***************************************************************************)
(* subscribe, with ensureRedisSubscription.                                *)
(***************************************************************************)
Subscribe(c) ==
  /\ c \notin subs \cup gone
  /\ subs' = subs \cup {c}
  /\ IF subscribed \/ pending
       THEN UNCHANGED <<up, pending>>
       ELSE up' = Append(up, "subscribe") /\ pending' = TRUE
  /\ UNCHANGED <<gone, subscribed, cleanup, waiting, down, server, pubs, owed,
                 inbox, failures>>

\* The finalize callback, with cleanupRedisSubscription for the last client.
Disconnect(c) ==
  /\ c \in subs
  /\ subs' = subs \ {c} /\ gone' = gone \cup {c}
  /\ \/ /\ subs' # {} \/ (~pending /\ ~subscribed)
        /\ UNCHANGED <<cleanup, up, subscribed>>
     \/ /\ subs' = {} /\ pending
        /\ cleanup' = TRUE
        /\ UNCHANGED <<up, subscribed>>
     \/ /\ subs' = {} /\ ~pending /\ subscribed
        /\ up' = Append(up, "unsubscribe") /\ subscribed' = FALSE
        /\ UNCHANGED cleanup
  /\ UNCHANGED <<pending, waiting, down, server, pubs, owed, inbox, failures>>

\* Mutant: emit publishes without waiting for the subscription.
EmitAtOnce ==
  /\ Len(owed) < MaxEmits
  /\ owed' = Append(owed, subs)
  /\ pubs' = Append(pubs, Len(owed) + 1)
  /\ UNCHANGED <<subs, gone, subscribed, pending, cleanup, waiting, up, down,
                 server, inbox, failures>>

\* emit, with waitForRedisSubscription.
Emit ==
  /\ Len(owed) < MaxEmits
  /\ owed' = Append(owed, subs)
  /\ IF pending
       THEN waiting' = Append(waiting, Len(owed) + 1) /\ UNCHANGED pubs
       ELSE pubs' = Append(pubs, Len(owed) + 1) /\ UNCHANGED waiting
  /\ UNCHANGED <<subs, gone, subscribed, pending, cleanup, up, down, server,
                 inbox, failures>>

(***************************************************************************)
(* Redis.                                                                  *)
(***************************************************************************)
RedisSubscribes ==
  /\ up # << >> /\ Head(up) = "subscribe"
  /\ up' = Tail(up)
  /\ server' = TRUE
  /\ down' = Append(down, OK)
  /\ UNCHANGED <<subs, gone, subscribed, pending, cleanup, waiting, pubs, owed,
                 inbox, failures>>

RedisRefuses ==
  /\ up # << >> /\ Head(up) = "subscribe"
  /\ failures < MaxFailures
  /\ failures' = failures + 1
  /\ up' = Tail(up)
  /\ down' = Append(down, Error)
  /\ UNCHANGED <<subs, gone, subscribed, pending, cleanup, waiting, server,
                 pubs, owed, inbox>>

RedisUnsubscribes ==
  /\ up # << >> /\ Head(up) = "unsubscribe"
  /\ up' = Tail(up)
  /\ server' = FALSE
  /\ UNCHANGED <<subs, gone, subscribed, pending, cleanup, waiting, down, pubs,
                 owed, inbox, failures>>

RedisPublishes ==
  /\ pubs # << >>
  /\ pubs' = Tail(pubs)
  /\ down' = IF server THEN Append(down, Head(pubs)) ELSE down
  /\ UNCHANGED <<subs, gone, subscribed, pending, cleanup, waiting, up, server,
                 owed, inbox, failures>>

(***************************************************************************)
(* What the process does with the next reply on the subscriber connection. *)
(***************************************************************************)
\* Mutant: the chained cleanup does not look for clients that came meanwhile.
SubscribedWithoutLook ==
  /\ down # << >> /\ Head(down) = OK
  /\ down' = Tail(down)
  /\ pending' = FALSE /\ cleanup' = FALSE /\ waiting' = << >>
  /\ subscribed' = ~cleanup
  /\ up' = IF cleanup THEN Append(up, "unsubscribe") ELSE up
  /\ pubs' = pubs \o waiting
  /\ UNCHANGED <<subs, gone, server, owed, inbox, failures>>

\* The promise is fulfilled: the channel is subscribed, a chained cleanup
\* unsubscribes unless a client is there, and the emits that waited publish.
SubscriptionFulfilled ==
  LET drop == cleanup /\ subs = {} IN
  /\ down # << >> /\ Head(down) = OK
  /\ down' = Tail(down)
  /\ pending' = FALSE /\ cleanup' = FALSE /\ waiting' = << >>
  /\ subscribed' = ~drop
  /\ up' = IF drop THEN Append(up, "unsubscribe") ELSE up
  /\ pubs' = pubs \o waiting
  /\ UNCHANGED <<subs, gone, server, owed, inbox, failures>>

\* The promise is rejected.  A chained cleanup and a waiting emit catch that,
\* and the emits publish all the same.
SubscriptionRejected ==
  /\ down # << >> /\ Head(down) = Error
  /\ cleanup \/ waiting # << >>
  /\ down' = Tail(down)
  /\ pending' = FALSE /\ cleanup' = FALSE /\ waiting' = << >>
  /\ subscribed' = FALSE
  /\ pubs' = pubs \o waiting
  /\ UNCHANGED <<subs, gone, up, server, owed, inbox, failures>>

\* The promise is rejected and nobody catches it: the process ends, and with
\* it every connection.
UnhandledRejection ==
  /\ down # << >> /\ Head(down) = Error
  /\ ~cleanup /\ waiting = << >>
  /\ subs' = {} /\ gone' = gone \cup subs
  /\ pending' = FALSE /\ subscribed' = FALSE
  /\ up' = << >> /\ down' = << >> /\ pubs' = << >> /\ server' = FALSE
  /\ UNCHANGED <<cleanup, waiting, owed, inbox, failures>>

\* Mutant: every subscription has added its own message listener.
MessageToEachListener ==
  /\ down # << >> /\ Head(down) \in 1 .. MaxEmits
  /\ down' = Tail(down)
  /\ inbox' = [c \in Clients |->
                 IF c \notin subs THEN inbox[c]
                 ELSE IF subs \cup gone = {c} THEN Append(inbox[c], Head(down))
                 ELSE inbox[c] \o <<Head(down), Head(down)>>]
  /\ UNCHANGED <<subs, gone, subscribed, pending, cleanup, waiting, up, server,
                 pubs, owed, failures>>

HandleRedisMessage ==
  /\ down # << >> /\ Head(down) \in 1 .. MaxEmits
  /\ down' = Tail(down)
  /\ inbox' = [c \in Clients |-> IF c \in subs THEN Append(inbox[c], Head(down))
                                               ELSE inbox[c]]
  /\ UNCHANGED <<subs, gone, subscribed, pending, cleanup, waiting, up, server,
                 pubs, owed, failures>>

Next ==
  \/ \E c \in Clients : Subscribe(c) \/ Disconnect(c)
  \/ Emit
  \/ RedisSubscribes \/ RedisRefuses \/ RedisUnsubscribes \/ RedisPublishes
  \/ SubscriptionFulfilled \/ SubscriptionRejected \/ UnhandledRejection
  \/ HandleRedisMessage

Spec == Init /\ [][Next]_vars

-----------------------------------------------------------------------------
(***************************************************************************)
(* Properties.                                                             *)
(***************************************************************************)

\* The variables keep their types, only emits and cleanups of a pending
\* subscription wait, and one subscribe command at most is unanswered.
TypeOK ==
  /\ subs \subseteq Clients /\ gone \subseteq Clients
  /\ {subscribed, pending, cleanup, server} \subseteq BOOLEAN
  /\ waiting \in Seq(1 .. MaxEmits) /\ pubs \in Seq(1 .. MaxEmits)
  /\ up \in Seq({"subscribe", "unsubscribe"})
  /\ down \in Seq(0 .. MaxEmits + 1)
  /\ owed \in Seq(SUBSET Clients)
  /\ inbox \in [Clients -> Seq(1 .. MaxEmits)]
  /\ failures \in 0 .. MaxFailures
  /\ ~pending => ~cleanup /\ waiting = << >>
  /\ ~(subscribed /\ pending)
  /\ Len(SelectSeq(up, LAMBDA m : m = "subscribe"))
       + Len(SelectSeq(down, LAMBDA m : m \in {OK, Error}))
     = IF pending THEN 1 ELSE 0

\* A client that was connected when a notification was emitted, and still is,
\* has received it once it has left the queues: no emit falls into the gap
\* between the registration of a client and the subscription of the process,
\* even while the cleanup of an earlier client is under way.
NoNotificationMissed ==
  failures = 0 =>
    \A e \in DOMAIN owed :
      e \notin Range(waiting) \cup Range(pubs) \cup Range(down) =>
        \A c \in owed[e] \cap subs : e \in Range(inbox[c])

\* Once Redis has handled what was sent and answered, the process has a
\* subscription only for a channel that has clients, and for each that has,
\* if none was refused.
SubscriptionMatchesClients ==
  up = << >> /\ ~pending =>
    /\ server => subs # {}
    /\ failures = 0 /\ subs # {} => server

\* A client receives every notification at most once, and in the order in
\* which they were emitted, though some waited and some did not.
NotificationsInOrder ==
  \A c \in Clients :
    \A i, j \in DOMAIN inbox[c] : i < j => inbox[c][i] < inbox[c][j]
=============================================================================
