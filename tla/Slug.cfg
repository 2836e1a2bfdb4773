\* Every description of up to five runes over the six rune classes, cut to
\* three characters so that truncation falls both inside a word and on a dash.
CONSTANTS
    SlugMax = 3
    MaxLen = 5
SPECIFICATION Spec
INVARIANT SlugMatchesReference
