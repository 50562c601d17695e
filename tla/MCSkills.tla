------------------------------- MODULE MCSkills -------------------------------
(***************************************************************************)
(* Two runs over one skill, each for two harnesses or narrowed to one of     *)
(* them, and another command that writes state.json again and again.  The    *)
(* vault moves, the skill is rejected, the profile withdraws it.             *)
(***************************************************************************)
EXTENDS Skills, TLC

CONSTANTS r1, r2, sync, codex, claude, d1, s1, v1, v2

Good  == [at |-> "dir", files |-> {"prose"}, md |-> "good"]
Leaky == [at |-> "dir", files |-> {"prose", "credential"}, md |-> "missing"]

MCContents == {Good, Leaky}

Unset     == [set |-> FALSE, skills |-> {}]
Block(S) == [set |-> TRUE, skills |-> S]

\* Each harness's own block on this machine names the skill, over empty defaults; or
\* the skill is declared unsupported.
All == [defaults |-> Block({}), harness |-> [h \in Harnesses |-> Unset], machine |-> Unset,
        both |-> [h \in Harnesses |-> Block(Slugs)], unsupported |-> {}]
Dropped == [All EXCEPT !.unsupported = Slugs \X Harnesses]

MCProfiles == {All, Dropped}

MCHomes == [Harnesses -> Dirs]

Symmetry == Permutations(Runs) \cup Permutations(Places) \cup Permutations(Harnesses)

=============================================================================
