---------------------------- MODULE MCEventQueue ----------------------------
(***************************************************************************)
(* Instances of the event queue.  Which threads are atomic is what the     *)
(* configurations differ in: nobody (multi-core), the producers (they have *)
(* a higher priority than the owner), or everybody (no preemption).        *)
(***************************************************************************)
EXTENDS EventQueue, TLC

CONSTANTS p1, p2, s1, o1

OneProducer  == {p1}
TwoProducers == {p1, p2}
OneStranger  == {s1}
Nobody       == {}
Everybody    == {p1, p2, o1}
BothModes    == {"Polling", "Blocking"}
PollingOnly  == {"Polling"}
ProducersAreAlike == Permutations({p1, p2})

=============================================================================
