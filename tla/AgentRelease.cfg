SPECIFICATION Spec
SYMMETRY Symmetry
CONSTANTS
    Revisions = {r1, r2}
    None = None
    Handlers = {h1, h2}
    App = App
INVARIANT
    RecordsSound
PROPERTY
    FailedIsFinal
