CONSTANT Programs <- MCPrograms
SPECIFICATION Spec
INVARIANT EvaluationsPrint
