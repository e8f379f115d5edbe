\* Dividers computed for a clock that is no longer there.
SPECIFICATION Spec
INVARIANTS MessagesLegible
