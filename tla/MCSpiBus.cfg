SPECIFICATION Spec
CONSTANT Alarms <- TwoAlarms
INVARIANTS TypeOK RightFormat ReadsAreSound
PROPERTIES AlarmsAccountedFor
