SPECIFICATION Spec
CONSTANTS
    Window = 5
    Setts = {1, 2, 5}
    Patience = 2
INVARIANTS EstimatesInRange SlotsOfProbes SteadyForwards
