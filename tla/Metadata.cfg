\* The categories of two projects: two spellings of the default name, copies,
\* imports, requests with the item id of the other project.
SPECIFICATION Spec
CONSTANTS
    Projects = {p1, p2}
    Names = {"Open", "OPEN", "Done"}
    Key <- MCKey
    Absent = Absent
    HasClosed = FALSE
    Defaults <- MCDefaults
    Patches <- MCPatches
    MaxItems = 5
SYMMETRY Symmetry
INVARIANTS
    OneActiveDefault
    NamesUnique
PROPERTY ResetRestores
