SPECIFICATION FairSpec
CONSTANT Setting <- Settings
INVARIANTS TypeOK InOrder RoundTrip DatabaseFound 
PROPERTY Served
