---------------------------- MODULE MCMessaging ----------------------------
EXTENDS MessagingInv, TLC
CONSTANTS ann, ben, cyd
MCQuarrels == {<<ben, ann>>}
Meet(ops, users, messages) == [ops |-> ops, users |-> users, messages |-> messages]
MCMixes == {Meet({"start", "block", "suspend"}, Users, {}),
            Meet({"start", "send", "block"}, Users, {1}),
            Meet({"start", "send", "read"}, {ann, ben}, {1, 2}),
            Meet({"follow", "block"}, Users, {}),
            Meet({"start", "send", "read", "delete", "age"}, {ann, ben}, {1}),
            Meet({"start", "send", "delete", "history"}, {ann, ben}, {1, 2}),
            Meet({"start", "send", "history"}, {ann, ben}, {1, 2, 3})}
Untold     == {m \in Messages : \E q \in faults : Tells(q, m)}
Unseens    == {<<q.user, q.conversation>> : q \in {r \in faults : r.pc = "see"}}
Failures   == <<db, req, rest, met, Untold, Unseens, Cardinality(faults)>>
Symmetry   == Permutations(Conversations) \cup Permutations(Workers)
=============================================================================
