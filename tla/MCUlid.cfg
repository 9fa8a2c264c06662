SPECIFICATION Spec
CONSTANTS
    Callers = {1, 2}
    Instants <- MCInstants
    Entropies <- MCEntropies
INVARIANTS EncodesTheBits Sortable NothingLost
