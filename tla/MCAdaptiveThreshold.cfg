SPECIFICATION Spec
CONSTANT Limit = 17
INVARIANT ThresholdAsDocumented
