\* listPostProc, hashSetPostProc and datePostProc against what an ArrayList,
\* a HashSet and a Date write.
CONSTANTS
    Words <- MCWords
    MaxWords = 3
    Names = {"a", "b"}
    MaxElems = 4
SPECIFICATION Spec
INVARIANT PostProcKeepsWritten
