\* forLocale on locale data whose second rule does not parse.
CONSTANTS
    Objects = {p1}
    Descriptions <- MCPassDescriptions
    Reference <- MCPassReference
    LocaleRules <- MCBadLocaleRules
    Numbers <- MCNumbers
    NULL = NULL
SPECIFICATION Spec
INVARIANT FallbackIsDefault
