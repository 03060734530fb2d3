CONSTANTS
    Ids = {1, 2, 3, 4, 5, 6, 7, 8, 9}
    Scenes <- MCScenes
    Absent = Absent
SPECIFICATION FairSpec
INVARIANTS VolumesAreOneBox TarballIsOneBox StackInv
PROPERTIES RestoredExactly ComesUp
