CONSTANTS Inodes = {i1, i2}
          Names = {a, b}
          Root = Root
          UserKinds = {"creating"}
SPECIFICATION Spec
INVARIANT AllWatched
CHECK_DEADLOCK FALSE
