CONSTANTS
    Projects <- ThreeProjects
    Tools = {"gcov", "llvm-cov"}
    ListFlag = "list"
    Watched <- Open
    Sources = {"src"}
    MaxEdits = 1
SPECIFICATION ViewSpec
INVARIANTS
    ResultIsOwn
    CoverageIsOwn
    MarksAreOfTheText
CHECK_DEADLOCK TRUE
