CONSTANTS
    Sources = {"a.c", "b.c", "c.cpp"}
    OtherSources = {"s.S"}
    Objects = {"a.o", "a64.o", "b.o", "c.o", "s.o"}
    Libraries = {"lib.a", "dyn.so"}
    Programs = {"prog", "test"}
    NoFile = "none"
    Temporary <- MCTemporary
    Order <- MCOrder
    CompileCommands <- MCCompile
    LinkCommands <- MCLink
    SkipObjectWithoutSource = FALSE
    MaxCompile = 3
    MaxLink = 4
    CxxSources = {"c.cpp"}
    Stem <- MCStem
    CompileLines <- MCCompileLines
    LinkLines <- MCLinkLines
    ProjectContexts <- MCContexts
    SourceFiles <- MCSourceFiles
    ProgramNames <- MCProgramNames
    LocalProject <- MCLocalProject
    WorkingDirectories <- MCWorkingDirectories
    FunctionNames <- MCFunctionNames
    Dialogs = {d1, d2}
    MaxChanges = 2
SPECIFICATION ImportSpec
VIEW FromOpening
INVARIANTS
    CommandsDoTheirTask
    
    TestsRunWhatKleeRan
    NamesTellContents
    NamesAreOwn
    ConfiguredIsComplete
    RequestsMeanWhatIsChosen
CHECK_DEADLOCK FALSE
