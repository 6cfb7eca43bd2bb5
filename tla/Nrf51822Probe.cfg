SPECIFICATION Spec
CONSTANTS
  Radios = {1, 2}
  NumPins = 2
INVARIANTS TypeOK SelectedWhileOnBus StaysUp OwnRadioOnly
PROPERTIES BusSpec MessageServed
CHECK_DEADLOCK FALSE
