--------------------------- MODULE PublishRefines ---------------------------
(***************************************************************************)
(* Publish implements DeliveryContract.  The mapping reads a channel's      *)
(* answer off the row and its last finished receipt, and its posts off the  *)
(* receipts that neither a person nor an overtaken execution has closed.    *)
(***************************************************************************)
EXTENDS PublishInvariant

Answer(a) ==
    CASE status[a] \in {"pending", "manual_ready"} -> "idle"
      [] status[a] \in Outstanding                 -> "underway"
      [] status[a] = "published"                   -> "delivered"
      [] OTHER -> IF OutcomeUnknown(a) THEN "unknown" ELSE "failed"

Contract == INSTANCE DeliveryContract WITH
    Channels <- Adaptations,
    ByHand   <- Manual,
    Unserved <- Unsupported,
    told     <- [a \in Adaptations |-> Answer(a)],
    posts    <- [a \in Adaptations |-> Unsettled(a) \ Superseded(a)]

\* Every step of the API, the queue, the worker and the sweeps is, channel by
\* channel, a step the contract allows or none at all: in particular an unknown
\* outcome is never sent again or closed without a person, a failure leaves
\* nothing live, and a delivery is told only when its post exists.
ImplementsContract == Contract!Spec
=============================================================================
