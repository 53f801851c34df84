\* The writer thread and the final flush of shutdown() in write() at once.
SPECIFICATION Spec
CONSTANTS
    Writer = {w1, w2}
    Text = {x1, x2}
    None = None
    Inode <- MCInode
INVARIANT
    NoTruncatedBlob
