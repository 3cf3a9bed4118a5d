CONSTANTS
    Sections <- TwoSections
    Plain = {"max_idle"}
    Values = {"v1", "v2"}
    Packages = {"os"}
    ImportTexts <- SimpleTexts
    Dirs = {"d1", "d2"}
    Modules = {"m1", "m2"}
    Paths = {"p1", "p2"}
    MaxDirectives = 3
    None = None
SPECIFICATION Spec
INVARIANTS ImportsAsDocumented
CHECK_DEADLOCK FALSE
