\* The app's two threads and one more for the tests; two addresses for C strings.
\* A test whose thread panicked stays where it is, so a state may have no successor.
SPECIFICATION Spec
CONSTANTS
    Main = main
    Worker = worker
    Threads = {main, worker, other}
    Nobody = nobody
    Strings = {s1, s2}
    NULL = null
CHECK_DEADLOCK FALSE
INVARIANTS LoadsAreServed MainInitsWamr RowsFollowTable StringsAreOwned
PROPERTIES CallsReturn
