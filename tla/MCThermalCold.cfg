\* Below freezing.
SPECIFICATION Spec
CONSTANT Eighths <- AllTemperatures
INVARIANTS OverheatedIsHot
