CONSTANT DelayCovers = TRUE
SPECIFICATION Spec
INVARIANTS MutualExclusion HwObeysAp
PROPERTIES NoMutualSpin
