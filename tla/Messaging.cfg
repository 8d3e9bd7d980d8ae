\* Three users; ben may block ann and be suspended; two requests at a time, in seven mixes;
\* the view keeps of a failed request only what it left undone.
SPECIFICATION Spec
CONSTANTS
    ann = ann  ben = ben  cyd = cyd
    Users = {ann, ben, cyd}
    Conversations = {c1, c2}
    Messages = {1, 2, 3}
    Take = 1
    Mixes <- MCMixes
    Workers = {w1, w2}
    Quarrels <- MCQuarrels
    Suspects = {ben}
    MaxFaults = 1
    NoUser = NoUser  NoConversation = NoConversation  NoMessage = NoMessage
SYMMETRY Symmetry
VIEW Failures
INVARIANTS TypeOK ReadMeansSeen StoredIsDelivered HistoryComplete
PROPERTIES BlocksRespected ReusedUnlessRaced
