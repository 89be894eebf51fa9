\* The instances are in the module.  Deadlock: a computation of push-relabel ends,
\* and a function is given one input.
CONSTANTS
    vx = vx
    vy = vy
    NoValue = NoValue
SPECIFICATION MCSpec
INVARIANTS
    RepresentationSound
    AnswersExact
    GraphsAndPointsExact
    TextsAndArraysExact
    ChoicesBest
CHECK_DEADLOCK FALSE
