\* Two users, one upload, one post, two requests at a time.
SPECIFICATION Spec
CONSTANTS
    ann = ann  a = a
    Users = {ann, ben}
    Media = {a}
    Posts = {p}
    Workers = {w1, w2}
    Owner <- MCOwner
    Mixes <- MCMixes
    MaxComments = 2
    NoUser = NoUser  NoItem = NoItem  NoMedia = NoMedia  NoPost = NoPost
SYMMETRY Symmetry
INVARIANTS TypeOK CountersMatchRows OwnMediaOnly UrlsHaveReason FeedShowsWithReason
PROPERTIES WritesHaveReason ConfirmKeepsRow ImplementsBoard
