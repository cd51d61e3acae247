---------------------------- MODULE VideoLifecycle ----------------------------
(***************************************************************************)
(* What the pipeline promises about one row of table videos and the two    *)
(* objects behind it, whoever writes the row and in whatever order: work   *)
(* starts only on a stored source, and a video is published only from a    *)
(* source and a thumbnail that are both in the store.                      *)
(*                                                                         *)
(* It is weaker than the cycle uploading -> processing -> ready | failed:  *)
(* the code lets a row be accepted again after it was published or failed. *)
(***************************************************************************)
CONSTANT Videos

VARIABLES
    status,     \* [Videos -> "absent" or a status of the row]
    source,     \* [Videos -> the source object is stored]
    poster      \* [Videos -> the thumbnail object is stored]

lifecycle == <<status, source, poster>>

Init ==
    /\ status = [v \in Videos |-> "absent"]
    /\ source = [v \in Videos |-> FALSE]
    /\ poster = [v \in Videos |-> FALSE]

Draft(v) ==
    /\ status[v] = "absent"
    /\ status' = [status EXCEPT ![v] = "uploading"]
    /\ UNCHANGED <<source, poster>>

StoreSource(v) ==
    /\ status[v] # "absent"
    /\ ~source[v]
    /\ source' = [source EXCEPT ![v] = TRUE]
    /\ UNCHANGED <<status, poster>>

Accept(v) ==
    /\ status[v] # "absent"
    /\ source[v]
    /\ status' = [status EXCEPT ![v] = "processing"]
    /\ UNCHANGED <<source, poster>>

StorePoster(v) ==
    /\ status[v] \notin {"absent", "uploading"}
    /\ source[v]
    /\ poster' = [poster EXCEPT ![v] = TRUE]
    /\ UNCHANGED <<status, source>>

Publish(v) ==
    /\ status[v] \notin {"absent", "uploading"}
    /\ source[v] /\ poster[v]
    /\ status' = [status EXCEPT ![v] = "ready"]
    /\ UNCHANGED <<source, poster>>

Fail(v) ==
    /\ status[v] # "absent"
    /\ status' = [status EXCEPT ![v] = "failed"]
    /\ UNCHANGED <<source, poster>>

Next == \E v \in Videos :
    \/ Draft(v) \/ StoreSource(v) \/ Accept(v)
    \/ StorePoster(v) \/ Publish(v) \/ Fail(v)

Spec == Init /\ [][Next]_lifecycle
=============================================================================
