\* Two children of the scope and one outside, all of which may spawn.
CONSTANTS
    Main = main
    Children = {c1, c2, c3}
    Scoped = {c1, c2}
SPECIFICATION Spec
CHECK_DEADLOCK FALSE
INVARIANTS TypeOK ScopeContained ResultReady NativeOwned
PROPERTIES ScopeReturns
