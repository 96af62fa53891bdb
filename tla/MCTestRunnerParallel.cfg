CONSTANTS
    Runners = {r1, r2}
    Tests <- MCTests
    Builds <- MCBuilds
    Signature <- MCSignature
SPECIFICATION Spec
INVARIANT RunsCorrespondingTest
