CONSTANT Programs <- MCPrograms
SPECIFICATION Spec
INVARIANT BlocksWellFormed
