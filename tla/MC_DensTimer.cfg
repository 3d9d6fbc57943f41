SPECIFICATION Spec
PROPERTY
    ProgramExits
CHECK_DEADLOCK FALSE
