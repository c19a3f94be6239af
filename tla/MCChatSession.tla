---------------------------- MODULE MCChatSession ----------------------------
(***************************************************************************)
(* Instance of ChatSession for TLC.                                        *)
(***************************************************************************)
EXTENDS ChatSession, TLC

CONSTANTS helpful, unhelpful

\* Nothing the session does tells one opinion from the other.
EitherOpinion == {helpful, unhelpful}
SwapOpinions == Permutations(EitherOpinion)

=============================================================================
