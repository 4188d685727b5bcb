----------------------------- MODULE MCSeeding ------------------------------
EXTENDS Seeding

CONSTANTS u1, d1, s1

OneWindow == {[from |-> 0, until |-> None]}
SeedStart == [from |-> 0, until |-> None]
MCDataset == <<[kind |-> "unit", id |-> u1],
               [kind |-> "protocol-binding", id |-> d1],
               [kind |-> "verification-mechanism", id |-> d1],
               [kind |-> "service", id |-> s1]>>
=============================================================================
