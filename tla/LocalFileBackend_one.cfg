\* One writer, the writer thread; crashes and failing writes at every step.
SPECIFICATION Spec
CONSTANTS
    Writer = {w1}
    Text = {x1, x2, x3}
    None = None
    Inode <- MCInode
INVARIANTS
    BlobInv
PROPERTY
    ImplementsAtomicBlob
