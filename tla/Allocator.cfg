\* Two blocks and the real MIN_ALIGN; alignments below, at and above it, and
\* sizes on both sides of each of them.
CONSTANTS
    Blocks = {b1, b2}
    Sizes = {1, 8, 16, 40}
    Aligns = {1, 4, 16, 32}
    MinAlign = 16
    Word = 8
    Null = null
SPECIFICATION Spec
INVARIANTS HeapIntact AlignedUnlessShrunk
PROPERTIES FailsOnlyFull
