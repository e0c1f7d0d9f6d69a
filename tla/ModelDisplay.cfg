\* Two controllers at once, a display whose page comes back while its first connection lingers.
SPECIFICATION Spec
CONSTANTS
    Displays = {d1}
    Writers = {w1, w2}
    Chars = {none, hero}
    Flips = {plain}
    Views = {centred}
    NoChar = none
    NoFlip = plain
    NoView = centred
    MaxConnects = 2
    MaxVersion = 2
INVARIANTS
    NeverBackwards
PROPERTIES
    NoPhantomTouch
    CatchesUp
\* The system stops when the bounds are reached.
CHECK_DEADLOCK FALSE
