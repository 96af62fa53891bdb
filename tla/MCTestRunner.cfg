CONSTANTS
    Runners = {r1}
    Tests <- MCTests
    Builds <- MCBuilds
    Signature <- MCSignature
SPECIFICATION Spec
INVARIANTS
    TypeOK
    RunsCorrespondingTest
