CONSTANTS STREAMS = 3 BLOCK = 3 STEPS = 3
INIT Init
NEXT Next
INVARIANTS StreamsAreJumps SamplersAgree PlansAgree LearningExact FirstLaw NetworkExact UnitsExact LayoutAgrees ProcessorExact
