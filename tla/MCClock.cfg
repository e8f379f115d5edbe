SPECIFICATION Spec
INVARIANTS TypeOK LegibleOnPll LoopOnOscillator NoGarbledCommand
PROPERTIES FailsOnlyWhenDead
