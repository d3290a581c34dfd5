SPECIFICATION GpioSpec
CONSTANTS
  Pins = {14, 15, 18}
  Functions = {0, 4}
  Before = {133}
INVARIANTS
  PinHasFunction
