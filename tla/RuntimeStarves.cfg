\* A submission queue of one entry for two tasks.
SPECIFICATION Spec
CONSTANTS
  NULL = NULL
  Task = {a, b}
  Width = 1
  SQSize = 1
PROPERTIES RefusedIsSubmitted
