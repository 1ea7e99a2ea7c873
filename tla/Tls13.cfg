SPECIFICATION Spec
CONSTANTS
  Modes <- MCModes
INVARIANTS NeverFails EndsAgree NoDowngrade ClientAuthenticated KeysAdvance NotStuck
CHECK_DEADLOCK FALSE
