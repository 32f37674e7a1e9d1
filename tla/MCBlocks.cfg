CONSTANT Inputs <- MCSources
SPECIFICATION Spec
INVARIANT Balanced
INVARIANT RejectsOnlyErrorsOutsideRecords
PROPERTY FollowsLUnlessShadowed
CHECK_DEADLOCK FALSE
