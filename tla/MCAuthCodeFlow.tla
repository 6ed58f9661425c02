--------------------------- MODULE MCAuthCodeFlow ---------------------------
(* Instances of AuthCodeFlow for TLC. *)
EXTENDS AuthCodeFlow, TLC

\* SHA-256 as an injective function to values that are not verifiers.
Hash(v) == <<"S256", v>>

At(site, port) == [site |-> site, port |-> port]

Dashboard == At("https", 1)

\* A native client on a loopback port, a web client with a narrower scope, and
\* two that are not valid: an unsafe redirect, an unknown scope.
Documents ==
    {[redirects |-> {At("loopback", 1)}, scope |-> {}, refresh |-> TRUE],
     [redirects |-> {At("https", 1)}, scope |-> {"read"}, refresh |-> FALSE],
     [redirects |-> {At("http", 1)}, scope |-> {"read"}, refresh |-> TRUE],
     [redirects |-> {At("https", 1)}, scope |-> {"root"}, refresh |-> TRUE]}

Asks == {{}, {"read", "write"}, {"read", "admin"}}

Symmetry == Permutations(Req) \cup Permutations(Verifier) \cup Permutations(User)
=============================================================================
