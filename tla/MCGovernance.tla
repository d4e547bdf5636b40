---------------------------- MODULE MCGovernance ----------------------------
(* Two requests at a time: one for Pythnet that takes two proposals beside  *)
(* one for Solana, and a small one for Pythnet beside one for other chains  *)
(* that fits in a proposal or has too many messages.                        *)
EXTENDS Governance

CONSTANTS r1, r2

Ask(k, s) == [kind |-> k, sizes |-> s]

Large == (r1 :> Ask("remote", <<1, 1, 2, 1>>) @@ r2 :> Ask("local", <<1>>))
Small == (r1 :> Ask("remote", <<1, 1>>) @@ r2 :> Ask("wormhole", <<1, 1>>))
TooMany == (r1 :> Ask("remote", <<1, 1>>) @@ r2 :> Ask("wormhole", <<1, 1, 1>>))

MCInputs == {Large, Small, TooMany}

\* The large requests are run with the relayer that does not skip, after the
\* first message of the vault; a vault without messages only with the others.
MCInit == Init /\ (input # TooMany => messages # <<>>) /\ (input = Large => ~skipFailed)
MCSpec == MCInit /\ [][Next]_vars /\ Fairness
=============================================================================
