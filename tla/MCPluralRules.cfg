\* Two objects, descriptions of every relation form, every operation.
CONSTANTS
    Objects = {p1, p2}
    Descriptions <- MCPassDescriptions
    Reference <- MCPassReference
    LocaleRules <- MCLocaleRules
    Numbers <- MCNumbers
    NULL = NULL
SPECIFICATION Spec
SYMMETRY MCSymmetry
INVARIANT TypeOK
INVARIANT DescriptionMeaning
INVARIANT FallbackIsDefault
