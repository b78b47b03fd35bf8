-------------------------- MODULE MCDataGovernance --------------------------
(***************************************************************************)
(* A small instance of DataGovernance: one user's dialogue, archived after *)
(* each of its three exchanges, another user's that begins the same way,   *)
(* and a payload of each kind that is not to be stored.                    *)
(***************************************************************************)
EXTENDS DataGovernance, TLC

CONSTANTS g1, g2

Exchange(g, prompt) == [group |-> g, chat |-> TRUE, prompt |-> prompt, blocked |-> FALSE,
                        action |-> "passed", text |-> 2, truncated |-> FALSE]
Long == Exchange(g1, <<1, 2, 1, 2, 1>>)

MCMessages == {1, 2}
MCPayloads == {Exchange(g1, <<1>>), Exchange(g1, <<1, 2, 1>>), Long, Exchange(g2, <<1, 2, 1>>),
               [Long EXCEPT !.chat = FALSE], [Long EXCEPT !.truncated = TRUE],
               [Long EXCEPT !.blocked = TRUE], [Long EXCEPT !.action = "warned"]}
MCConfigs == {[batch |-> 2, max |-> 3]}
JobsAlike == Permutations(Jobs)
=============================================================================
