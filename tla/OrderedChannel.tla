--------------------------- MODULE OrderedChannel ---------------------------
(***************************************************************************)
(* What the forwarder promises about the state updates of one player: an    *)
(* update may be lost, none is delivered twice, and none is delivered after *)
(* a later one.                                                            *)
(***************************************************************************)
EXTENDS Naturals, Sequences

VARIABLES
    offered,    \* updates handed to the channel so far, numbered from 1
    delivered   \* the numbers delivered, in order of delivery

ChannelInit == offered = 0 /\ delivered = <<>>

Newest == IF delivered = <<>> THEN 0 ELSE delivered[Len(delivered)]

Offer == offered' = offered + 1 /\ UNCHANGED delivered

\* One step of the forwarder may deliver a run of buffered updates.
Increasing(s) == \A j, k \in DOMAIN s : j < k => s[j] < s[k]

Deliver ==
    /\ Len(delivered') > Len(delivered)
    /\ SubSeq(delivered', 1, Len(delivered)) = delivered
    /\ Increasing(delivered')
    /\ \A k \in DOMAIN delivered' : delivered'[k] \in 1 .. offered
    /\ UNCHANGED offered

ChannelNext == Offer \/ Deliver

ChannelSpec == ChannelInit /\ [][ChannelNext]_<<offered, delivered>>
=============================================================================
