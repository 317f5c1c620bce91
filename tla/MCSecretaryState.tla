-------------------------- MODULE MCSecretaryState --------------------------
(* Small instances of SecretaryState for TLC. *)
EXTENDS SecretaryState, TLC

CONSTANTS send, note, bad, gone   \* elevated-only, ordinary, malformed, unknown tool

Normal(a) == [act |-> a, route |-> "normal"]
Elevated(a) == [act |-> a, route |-> "elevated"]

\* A final round, and rounds mixing both routes of the same action.
MCDecisions ==
    {<<>>, <<Normal(note)>>, <<Normal(send)>>, <<Elevated(bad)>>,
     <<Elevated(gone)>>,
     <<Elevated(note), Normal(note)>>, <<Elevated(send), Elevated(note)>>}

\* One call per round, for instances with several inputs.
MCOneCall == {<<>>, <<Normal(note)>>, <<Elevated(note)>>}

\* The one elevated call of the shared-queue instance.
MCGatedCall == {<<>>, <<Elevated(note)>>}

MCSymmetry == Permutations(Turns) \cup Permutations(Writers)

=============================================================================
