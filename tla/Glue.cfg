SPECIFICATION Spec
CONSTANT Setting <- GluedSettings
INVARIANT RoundTrip
