SPECIFICATION Spec
CONSTANTS
  Files = {f1, f2, f3}
  Argv0s <- Invocations
  Sep = "/"
  ResourceRoots <- BesideProgram
  NoFile = NoFile
  MaxEdits = 2
INVARIANTS TypeOK RootIsProgramDirectory OutcomeFollowsDisk LoadedInOrder LoadedOnceAsItWas TwoDefaultsAreTwoFiles
