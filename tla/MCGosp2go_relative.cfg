CONSTANTS
    Root = "/"
    Home = "/"
    Temp = "/tmp"
    Dirs <- Directories
    Files <- PageFiles
    Up <- Parent
    Entry <- Tree
    OutDirs = {"/", "/www"}
    Pages <- InputNames
    Included <- IncludedNames
    Packages = {"fmt", "os"}
    Allowed = {"fmt"}
    MaxIncludeDepth = 2
    MaxTop = 2
    MaxItems = 4
    Nowhere = Nowhere
    Stdout = Stdout
SPECIFICATION Spec
INVARIANTS RelativeToPage
