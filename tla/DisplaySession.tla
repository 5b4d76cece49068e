--------------------------- MODULE DisplaySession ---------------------------
(***************************************************************************)
(* What libdisplay_consumer promises its user, without threads, locks or   *)
(* descriptors: a connection lives through generations of descriptor sets. *)
(* Each generation is offered to the daemon once, is granted when a        *)
(* producer has picked it up, carries frames while it is up, and once torn *)
(* down is replaced by a new generation and never used again.              *)
(***************************************************************************)
EXTENDS Naturals

VARIABLES
    phase,    \* where the current generation is in its life
    gen       \* number of the current generation

dsVars == <<phase, gen>>

Phases == {"offered", "granted", "up", "torn"}

DSTypeOK == phase \in Phases /\ gen \in Nat \ {0}

DSInit == phase = "offered" /\ gen = 1

\* A producer picks up the descriptors of the generation on offer.
Grant == phase = "offered" /\ phase' = "granted" /\ UNCHANGED gen

\* The consumer learns that they were picked up and starts using them.
Up == phase = "granted" /\ phase' = "up" /\ UNCHANGED gen

\* A failure ends the use of the generation that is up.
Down == phase = "up" /\ phase' = "torn" /\ UNCHANGED gen

\* Only a generation that was torn down is replaced, by exactly one offer.
Renew == phase = "torn" /\ phase' = "offered" /\ gen' = gen + 1

DSNext == Grant \/ Up \/ Down \/ Renew

DSSpec == DSInit /\ [][DSNext]_dsVars
=============================================================================
