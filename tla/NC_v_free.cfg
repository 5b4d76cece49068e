\* nativeStart frees the context under the event thread of the previous window.
SPECIFICATION Spec
CONSTANTS
    Windows = {w1, w2}
    NoWindow = NoWindow
    MaxContexts = 2
    MaxShows = 2
INVARIANTS
    NoUseAfterFree
