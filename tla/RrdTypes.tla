------------------------------ MODULE RrdTypes ------------------------------
(* The files and values the cache and the journal of rrdcached speak of.   *)
EXTENDS Naturals, FiniteSets

CONSTANTS
    Files,          \* file names; the order of numbers is that of strcmp
    Stamps          \* a value is represented by its time stamp

ASSUME TypesAssumption ==
    /\ Files \subseteq Nat /\ IsFiniteSet(Files) /\ Files # {}
    /\ Stamps \subseteq Nat \ {0}
=============================================================================
