SPECIFICATION Spec
CONSTANTS
    Objects = {a, b}
    Classes <- MCClasses
    Strings <- MCStrings
    Ids = {0, 5}
    MaxTouched = 2
    MaxStrange = 2
    MaxUnknown = 1
INVARIANTS UnsetIsDefault RoundTrip SizeExact
PROPERTY IsFieldMap
