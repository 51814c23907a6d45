SPECIFICATION Spec
CONSTANT Types = {"service", "system", "file", "package", "check", "wait"}
INVARIANT BrokenStepNeverRuns
CHECK_DEADLOCK FALSE
