-------------------------- MODULE DeliveryContract --------------------------
(***************************************************************************)
(* What the people who approve a post may rely on, channel by channel,      *)
(* without queue, worker, claims or attempt counts: a channel is told to    *)
(* deliver, and ends delivered, failed with nothing left behind, or unknown *)
(* until somebody has looked.                                               *)
(***************************************************************************)
CONSTANTS
    Channels,
    ByHand,     \* channels a person publishes on themselves
    Unserved    \* channels whose platform nothing can deliver to

VARIABLES
    told,       \* what the system says of the channel
    posts       \* the posts on the platform that it still accounts for

contractVars == <<told, posts>>

Answers == {"idle", "underway", "unknown", "failed", "delivered"}

Init == /\ told  = [c \in Channels |-> "idle"]
        /\ posts = [c \in Channels |-> {}]

\* A channel's answer moves, and what it accounts for does not.
Tell(c, answer) == told'[c] = answer /\ posts'[c] = posts[c]

\* Only what is idle or failed is sent, and nothing may be live then.
Order(c) ==
    /\ told[c] \in {"idle", "failed"} /\ posts[c] = {}
    /\ Tell(c, "underway")

\* Stopping a delivery is possible only before it has left anything behind.
Recall(c) ==
    /\ told[c] = "underway" /\ posts[c] = {}
    /\ Tell(c, "idle")

\* The platform creates a post; a request that was already out may still do so
\* after the system gave up waiting for it.
Post(c) ==
    /\ told[c] \in {"underway", "unknown", "delivered"} /\ posts[c] = {}
    /\ told'[c] = told[c]
    /\ \E p \in posts'[c] : posts'[c] = {p}

Deliver(c) ==
    /\ told[c] = "underway" /\ posts[c] # {}
    /\ Tell(c, "delivered")

\* A plain failure promises that nothing is live.
Fail(c) ==
    /\ told[c] = "underway" \/ (told[c] = "idle" /\ c \in Unserved)
    /\ posts[c] = {}
    /\ Tell(c, "failed")

LoseTrack(c) ==
    /\ told[c] = "underway"
    /\ Tell(c, "unknown")

\* The one leak: an execution overtaken by another execution of the same delivery
\* ends its claim as unknown, and nobody is asked about that post again.
Overtake(c) ==
    /\ told[c] = "underway" /\ posts[c] # {}
    /\ told'[c] = told[c] /\ posts'[c] = {}

\* Only a person ends an unknown.
Settle(c) ==
    /\ told[c] = "unknown"
    /\ \/ Tell(c, "delivered")
       \/ told'[c] = "failed" /\ posts'[c] = {}

Confirm(c) ==
    /\ c \in ByHand /\ told[c] = "idle"
    /\ Tell(c, "delivered")

ChannelStep(c) ==
    \/ Tell(c, told[c])
    \/ Order(c) \/ Recall(c) \/ Confirm(c) \/ Settle(c)
    \/ Post(c) \/ Deliver(c) \/ Fail(c) \/ LoseTrack(c) \/ Overtake(c)

\* One transaction may move several channels of an item.
Next == \A c \in Channels : ChannelStep(c)

Spec == Init /\ [][Next]_contractVars
=============================================================================
