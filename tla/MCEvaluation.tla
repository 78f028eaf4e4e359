--------------------------- MODULE MCEvaluation ---------------------------
(* Instances of Evaluation for TLC. *)
EXTENDS Evaluation, TLC
CONSTANTS e1, e2, s1, s2, h1, h2, c1, c2, A, B
Asking(mode, code, cached) == [mode |-> mode, code |-> code, cached |-> cached]
Asked == (e1 :> <<Asking("split", A, TRUE), Asking("compile", A, FALSE)>>) @@ (e2 :> <<Asking("split", B, TRUE)>>)
TwoServers == (e1 :> s1) @@ (e2 :> s2)
TwoHosts == (c1 :> h1) @@ (c2 :> h2)
\* The hosts change places, each with its compile worker; nothing else names them.
Mirror == {p \in Permutations({h1, h2, c1, c2}) :
             {p[h1], p[h2]} = {h1, h2} /\ (p[h1] = h1) = (p[c1] = c1)}
===========================================================================
