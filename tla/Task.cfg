SPECIFICATION Spec
CONSTANTS
    Entry = {e1, e2}
    Stages = {"drafts", "running"}
    MaxTime = 2
    IdleAfter = 1
    Text = {a, b}
    Blank = Blank
    MaxSeq = 2
    Session = {x1}
    Body = {b1, b2}
    Naming = {b1}
    Writer = {w1, w2}
    Kept = 1
    MaxCommits = 1
    MaxVersions = 3
SYMMETRY Symmetry
INVARIANTS
    ThreadInv WrapupInv
PROPERTIES
    ThreadKeeps WrapupKeeps
