\* A buffer of three places, writes and reads of up to four bytes.
\* A leader that writes three times and a follower; one failed write of a state
\* file, one crash.
CONSTANTS
    Byte = {b0, b1}
    Zero = b0
    Size = 3
    Chunks <- MCChunks
    Lens <- MCLens
    Peer = {1, 2}
    Writer = {1}
    Follows <- MCFollows
    Key = {k1, k2}
    MaxWrite = 3
    MaxFail = 1
    MaxDeath = 1
SPECIFICATION MCSpec
INVARIANTS StateTypeOK StoreSound FollowerPrefix
PROPERTY QueueSpec
