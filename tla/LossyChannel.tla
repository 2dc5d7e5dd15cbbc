---------------------------- MODULE LossyChannel ----------------------------
(***************************************************************************)
(* What the bot may expect of the event feed, and no more: events arrive   *)
(* in the order they were published and none arrives twice, but any of     *)
(* them may be lost on the way.                                            *)
(***************************************************************************)
EXTENDS Integers, Sequences

VARIABLES sent, channel, received

vars == <<sent, channel, received>>

Init == sent = 0 /\ channel = << >> /\ received = << >>

\* The subsequence of channel at the positions in keep.
Thinned(keep) ==
    LET kept[i \in 0..Len(channel)] ==
          IF i = 0 THEN << >>
          ELSE IF i \in keep THEN Append(kept[i - 1], channel[i]) ELSE kept[i - 1]
    IN  kept[Len(channel)]

Publish ==
    /\ sent' = sent + 1
    /\ channel' = Append(channel, sent + 1)
    /\ UNCHANGED received

Lose ==
    /\ \E keep \in SUBSET (1..Len(channel)) : channel' = Thinned(keep)
    /\ UNCHANGED <<sent, received>>

Deliver ==
    /\ channel # << >>
    /\ channel' = Tail(channel)
    /\ received' = Append(received, Head(channel))
    /\ UNCHANGED sent

Next == Publish \/ Lose \/ Deliver

Spec == Init /\ [][Next]_vars
=============================================================================
