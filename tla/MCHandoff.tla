----------------------------- MODULE MCHandoff -----------------------------
(* Instances of Handoff for TLC; the .cfg files give the constants. *)
EXTENDS Handoff, TLC

\* A behaviour meets one fault: a lost call, an overtaken answer or a zone that fails.
OneFault == spent'.timeouts + spent'.late + spent'.failures <= 1

\* What a player gains in a zone and what is on its way there are lost alike when the
\* zone fails; a behaviour meets one of the two.
OneBurden == (\E z \in Zones, p \in Players : inflight'[z][p] > 0) =>
                \A z \in Zones : vehicle'[z] = {}

\* Nothing tells one zone from another.
ZonesAlike == Permutations(Zones)
=============================================================================
