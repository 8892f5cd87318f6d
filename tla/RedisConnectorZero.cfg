SPECIFICATION Spec
INVARIANT ZeroMeansAnswered
