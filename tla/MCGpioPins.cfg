SPECIFICATION Spec
CONSTANT Boots <- MCBoots
INVARIANTS TypeOK MainPinsConfigured OneSensorSurvives
