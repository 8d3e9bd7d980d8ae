------------------------------ MODULE MCPosts ------------------------------
EXTENDS PostsInv, TLC
CONSTANTS ann, a
MCOwner  == a :> ann
MCMixes  == {{"upload", "vault", "create", "profile"},
             {"upload", "vault", "deliver", "subscribe", "buy"},
             {"create", "like", "remove", "moderate"},
             {"create", "feed", "remove", "subscribe", "buy"},
             {"create", "feed", "bookmark", "remove"},
             {"create", "comment", "remove", "subscribe", "buy"},
             {"create", "comment", "like"}}
Symmetry == Permutations(Workers)
=============================================================================
