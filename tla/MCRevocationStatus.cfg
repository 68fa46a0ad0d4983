CONSTANTS
    Publishers = {p1, p2}
    Clients = {q1}
    Serials = {c1, c2}
    Points = {d1, d2}
    MaxPublications = 3
SPECIFICATION RevocationSpec
INVARIANTS AnswersCurrent LaterListsComplete NumbersInOrder 
SYMMETRY Symmetry
