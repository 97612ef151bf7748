SPECIFICATION Spec
CONSTANTS
    Queries = {q1, q2, q3}
    Conns = {x1, x2}
    NoQuery = NoQuery
    NoConn = NoConn
INVARIANTS
    StreamsFollowConnection
    EndpointAlive
    NoTaskLeft
PROPERTIES
    QueryReturns
