\* Access: three requests to one realm with two keys, and an issuer of none.
SPECIFICATION Spec
CONSTANTS
    i1 = i1
    u1 = u1
    Requests = {r1, r2, r3}
    Issuers = {i1, other}
    Urls = {u1}
    JwksUrl <- MCJwksUrl
    Kids = {k1, k2}
    None = None
    Ttl = 2
    MaxTime = 2
SYMMETRY Symmetry
INVARIANT RotatedKeyFound
PROPERTY RevocationBound
CHECK_DEADLOCK FALSE
