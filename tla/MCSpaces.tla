------------------------------ MODULE MCSpaces ------------------------------
(* Small instances of Spaces for TLC: two spaces and two variables at most. *)
EXTENDS Spaces

CONSTANTS s1, s2, x, y

\* Programs with two spaces, which do not choose, and programs with a single one,
\* which does and has a further thread: all programs at once are too many.
Fights == choices = 0 /\ \A e \in Extras : vm.kind[<<"extra", e>>] = "none"
Searches == vm.status[s2] = "none"
FightsOrSearches == Init /\ [][Next /\ (Fights \/ Searches)']_vars
=============================================================================
