SPECIFICATION Spec
CONSTANTS
    Names = {"dyn"}
    Callbacks = {"cb", "ro"}
    ReadOnly = {"ro"}
    Offsets = {"k"}
    Classes <- MCClasses
CHECK_DEADLOCK FALSE
INVARIANTS
    PropertiesAgree
    IteratorKeepsObject
