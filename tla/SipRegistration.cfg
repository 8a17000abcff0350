\* Two faults: enough to give up, with the challenges between them.
\* The system may stop: a device that gave up, or never sent its REGISTER, is silent.
SPECIFICATION Spec
CONSTANTS
  Regs = {1, 2, 3, 4}
  Faults = 2
INVARIANTS TypeOK NeverStuck GivesUpOnRefusals ForgottenByLapses
PROPERTIES Heals
CHECK_DEADLOCK FALSE
