CONSTANT Programs <- MCPrograms
SPECIFICATION Spec
INVARIANT InferredShapes
