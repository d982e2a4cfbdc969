------------------------- MODULE NotificationPromise -------------------------
(* What a caller of @spfn/notification may rely on for one notification: it *)
(* waits, is sent in attempts, and ends sent, skipped or cancelled; nothing *)
(* is delivered but during an attempt, and an end is an end.                *)
EXTENDS Naturals

VARIABLES state, delivered

pvars == <<state, delivered>>

Init == state = "none" /\ delivered = 0

Ask == state = "none" /\ state' \in {"waiting", "sending"} /\ UNCHANGED delivered

(* An attempt; after one that died, the next. *)
Try == state = "waiting" /\ state' = "sending" /\ UNCHANGED delivered

Deliver == state = "sending" /\ delivered' = delivered + 1 /\ UNCHANGED state

(* The attempt failed, or ended unwanted, or delivered. *)
Settle ==
    /\ state = "sending"
    /\ state' \in {"waiting", "skipped"} \cup (IF delivered > 0 THEN {"sent"} ELSE {})
    /\ UNCHANGED delivered

(* A repeat may ask anew while it waits; only then can it be cancelled. *)
Cancel == state = "waiting" /\ state' = "cancelled" /\ UNCHANGED delivered

Next == Ask \/ Try \/ Deliver \/ Settle \/ Cancel

Spec == Init /\ [][Next]_pvars
=============================================================================
