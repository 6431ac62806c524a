------------------------------ MODULE EventBus ------------------------------
(***************************************************************************)
(* The event bus of events.go: subscriptions come and go while writers     *)
(* publish and Close shuts the bus.  A Go program panics when it sends on  *)
(* a closed channel or closes one twice, so what matters is who closes     *)
(* which channel when.  A send never blocks (a full channel drops the      *)
(* event and counts it), so the contents of the channels are left out.     *)
(***************************************************************************)
EXTENDS Naturals, FiniteSets

CONSTANTS
    Subscribers,   \* calls of Subscribe, each with its channel
    Publishers     \* goroutines that publish

VARIABLES
    subs,          \* b.subs: the subscriptions registered
    count,         \* b.count
    busClosed,     \* b.closed
    closing,       \* the step of eventBus.close
    open,          \* the channels that were not closed
    sub,           \* [Subscribers -> the step of Subscribe and of its cancel]
    pub,           \* [Publishers -> the step of publishEvent]
    late,          \* history: registered after closed was set
    panicked       \* history: a closed channel was closed or sent on

vars == <<subs, count, busClosed, closing, open, sub, pub, late, panicked>>

Init ==
    /\ subs = {} /\ count = 0
    /\ busClosed = FALSE /\ closing = "no"
    /\ open = Subscribers
    /\ sub = [s \in Subscribers |-> "new"]
    /\ pub = [p \in Publishers |-> "idle"]
    /\ late = {} /\ panicked = FALSE

CloseChannels(S) ==
    /\ open' = open \ S
    /\ panicked' = (panicked \/ ~(S \subseteq open))

-----------------------------------------------------------------------------
(* subscribe looks at closed without the lock ...                          *)
Subscribe(s) ==
    /\ sub[s] = "new"
    /\ \/ ~busClosed /\ sub' = [sub EXCEPT ![s] = "register"] /\ UNCHANGED <<open, panicked>>
       \/ busClosed /\ sub' = [sub EXCEPT ![s] = "refused"] /\ CloseChannels({s})
    /\ UNCHANGED <<subs, count, busClosed, closing, pub, late>>

(* ... and registers the subscription under it.                            *)
Register(s) ==
    /\ sub[s] = "register"
    /\ sub' = [sub EXCEPT ![s] = "on"]
    /\ subs' = subs \cup {s}
    /\ count' = Cardinality(subs')
    /\ late' = IF busClosed THEN late \cup {s} ELSE late
    /\ UNCHANGED <<busClosed, closing, open, pub, panicked>>

CloseUnfound(s) == "close"

(* unsubscribe closes the channel only if it found the subscription.       *)
Found(s) == IF s \in subs THEN "close" ELSE "off"

(* The cancel function, which may be called again and from any goroutine.  *)
Unsubscribe(s) ==
    /\ sub[s] \in {"on", "off"}
    /\ subs' = subs \ {s}
    /\ count' = Cardinality(subs')
    /\ sub' = [sub EXCEPT ![s] = Found(s)]
    /\ UNCHANGED <<busClosed, closing, open, pub, late, panicked>>

CloseChannel(s) ==
    /\ sub[s] = "close"
    /\ CloseChannels({s})
    /\ sub' = [sub EXCEPT ![s] = "off"]
    /\ UNCHANGED <<subs, count, busClosed, closing, pub, late>>

(* publishEvent returns early when active finds no subscriber ...          *)
PublishEvent(p) ==
    /\ pub[p] = "idle" /\ count > 0
    /\ pub' = [pub EXCEPT ![p] = "publish"]
    /\ UNCHANGED <<subs, count, busClosed, closing, open, sub, late, panicked>>

(* ... and publish sends to every subscription under the read lock.        *)
Publish(p) ==
    /\ pub[p] = "publish"
    /\ pub' = [pub EXCEPT ![p] = "idle"]
    /\ panicked' = (panicked \/ ~(subs \subseteq open))
    /\ UNCHANGED <<subs, count, busClosed, closing, open, sub, late>>

(* close: closed is set without the lock, the channels closed under it.    *)
CloseBus ==
    /\ ~busClosed
    /\ busClosed' = TRUE
    /\ closing' = "channels"
    /\ UNCHANGED <<subs, count, open, sub, pub, late, panicked>>

CloseSubs ==
    /\ closing = "channels"
    /\ CloseChannels(subs)
    /\ subs' = {} /\ count' = 0
    /\ closing' = "done"
    /\ UNCHANGED <<busClosed, sub, pub, late>>

Next ==
    \/ \E s \in Subscribers : Subscribe(s) \/ Register(s) \/ Unsubscribe(s) \/ CloseChannel(s)
    \/ \E p \in Publishers : PublishEvent(p) \/ Publish(p)
    \/ CloseBus \/ CloseSubs

Spec == Init /\ [][Next]_vars

-----------------------------------------------------------------------------
(* Properties.                                                             *)

(* No channel is closed twice and nothing is sent on a closed channel,     *)
(* however Subscribe, cancel, publish and Close overlap.                   *)
NoPanic == ~panicked

(* When close has returned, every channel is closed or about to be, but    *)
(* those of a Subscribe that looked at closed before and registered after; *)
(* and no publisher passes active but for those.                           *)
ChannelsEnd ==
    closing = "done" =>
        /\ \A s \in open : sub[s] \in {"new", "register", "close"} \/ s \in late
        /\ subs \subseteq late /\ count = Cardinality(subs)
=============================================================================
