----------------------------- MODULE MCGitHubCall -----------------------------
(* Instances of GitHubCall for TLC. *)
EXTENDS GitHubCall, TLC
=============================================================================
