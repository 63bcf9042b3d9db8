CONSTANT Offs = {0, 1, 2, 4}
SPECIFICATION Spec
INVARIANT CommitablePrefix
INVARIANT CommitableComplete
INVARIANT RewindToFirstUnfinished
