\* select() on an object made by the PluralRules(UErrorCode&) constructor.
CONSTANTS
    Objects = {p1}
    Descriptions <- MCPassDescriptions
    Reference <- MCPassReference
    LocaleRules <- MCLocaleRules
    Numbers <- MCNumbers
    NULL = NULL
SPECIFICATION Spec
INVARIANT SelectIsKeyword
