\* Eight vertices; two of the edges may be missing.  The program ends.
CONSTANTS
    Bound = 1
    HalfBits = 1
    Radix = 2
    N = 8
    Edges <- EightEdges
    Optional = {4, 6}
    Start = 0
    Target = 3
SPECIFICATION BSSpec
INVARIANT ShortestPathFound
CHECK_DEADLOCK FALSE
