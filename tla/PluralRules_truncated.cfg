\* createRules on descriptions cut after a word, with and without a trailing space.
CONSTANTS
    Objects = {p1}
    Descriptions <- MCAllDescriptions
    Reference <- MCAllReference
    LocaleRules <- MCLocaleRules
    Numbers <- MCNumbers
    NULL = NULL
SPECIFICATION Spec
INVARIANT AcceptedDescriptionsComplete
