SPECIFICATION Spec
CONSTANT Eighths <- FromZero
INVARIANTS Accurate OverheatedIsHot
PROPERTIES HeatIsSeen
