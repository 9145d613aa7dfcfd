SPECIFICATION Spec
CONSTANTS
    None = None
    underscored <- MCUnderscored
    IllFormed = {"team b"}
    additions <- MCAdditions
    removals <- MCRemovals
    Commands = {"a", "b"}
    text <- MCText
    Deletions <- MCDeletions
    Plugins = {"proxy", "audit"}
    FileSystemGroup <- MCFileSystemGroup
    MaxRestarts = 1
INVARIANTS OneOfEachName Unambiguous OkMeansApplied DeclaredIsPublished ServesBoth
PROPERTIES RepeatChangesNothing ImplementsDeclared
