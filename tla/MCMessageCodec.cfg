SPECIFICATION Spec
CONSTANT Contents <- OneContent  MaxUses = 2
INVARIANTS
    TypeOK
    RoundTrip
    ParsersAgree
