SPECIFICATION MCSpec
CONSTANTS
    Files = {"f", "g"}
    Tree <- MCTree
    Size <- MCSize
    Touched = {"f"}
    Styles = {"resumes", "whole"}
    Announces = {"count", "top", "size", "none"}
    UpTrees <- MCUpTrees
    UpFolders = {"d", "e"}
    UpFiles = {"x", "y"}
    Above <- MCAbove
    LocalSize <- MCLocalSize
    Servers = {"mhxd", "janus", "hlservd"}
    AgainTries = 1
    MaxTroubles = 3
INVARIANT TrustsOnlyItsOwn
CHECK_DEADLOCK FALSE
