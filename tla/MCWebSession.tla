---------------------------- MODULE MCWebSession ----------------------------
(* Model-checking instances of WebSession: what is safe, with lifetimes that *)
(* let a session be touched, extended and outlived; and progress.            *)
EXTENDS WebSession, TLC

\* Sessions and requests are told apart by what they hold only.
Symmetry == Permutations(Session) \cup Permutations(Request)
=============================================================================
