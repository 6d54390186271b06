\* A route and the hierarchy overlay hold suspensions.
CONSTANTS
  Reasons = {route, overlay}
  MaxWaiters = 2
SPECIFICATION RefreshLiveSpec
INVARIANTS TimerExact NothingForgotten
PROPERTIES RefreshingGoesOn
