--------------------------- MODULE MCLockService ---------------------------
(* Three resources: the root "/" and two members of it.                    *)
EXTENDS LockService, TLC

MCName == {"/", "/a", "/b"}

MCWalkToRoot == ("/" :> {"/"}) @@ ("/a" :> {"/a", "/"}) @@ ("/b" :> {"/b", "/"})

Symmetry == Permutations(Caller)

=============================================================================
