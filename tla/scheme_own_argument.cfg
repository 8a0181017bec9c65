SPECIFICATION Spec
CONSTANT Scripts <- OwnArgumentScripts
INVARIANT MeansWhatItSays
CHECK_DEADLOCK FALSE
