SPECIFICATION Spec
CONSTANTS
    Editors = {e1, e2}
    Queries = {q1, q2}
    NoEditor = NoEditor
    NoQuery = NoQuery
    Astray = Astray
    Texts = {t1, t2}
    MAX_RULES = 2
SYMMETRY Symmetry
CONSTRAINT Explored
INVARIANTS
    IndexCurrentInOrder
    AnswersCurrent
    NamesCurrent
