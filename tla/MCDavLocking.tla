--------------------------- MODULE MCDavLocking ---------------------------
(* The root of a user, a collection in it and a member of that.            *)
EXTENDS DavLocking, TLC

MCName == {"/", "/a", "/a/b"}

MCResource == {"/a", "/a/b"}

MCWalkToRoot ==
  ("/" :> {"/"}) @@ ("/a" :> {"/a", "/"}) @@ ("/a/b" :> {"/a/b", "/a", "/"})

\* For moves a place outside the collection is needed too.
MovesName == MCName \cup {"/c"}

MovesResource == MCResource \cup {"/c"}

MovesWalkToRoot == MCWalkToRoot @@ ("/c" :> {"/c", "/"})

Symmetry == Permutations(Worker)

=============================================================================
