--------------------------- MODULE MCCatalogKeys ----------------------------
(* Names with the letters at the edges of the ranges of foldU16.            *)
EXTENDS CatalogKeys

Words(units, len) == UNION {[1 .. n -> units] : n \in 1 .. len}

\* "a", low line, multiplication and division sign, thorn, A and a with macron.
MCUnits == {65, 97, 95, \hD7, \hF7, \hDE, \hFE, \h100, \h101}

MCSameLetter ==
    [c \in MCUnits |-> CASE c = 65 -> 97 [] c = \hDE -> \hFE [] c = \h100 -> \h101
                         [] OTHER -> c]

\* Every letter alone, and the spellings of two longer names.
MCNames == Words(MCUnits, 1) \cup Words({65, 97}, 2) \cup Words({\hDE, \hFE}, 2)

\* L and N with their strokes and accents, from the part of Latin Extended-A
\* where the capitals have the odd numbers.
MCLatin == {\h141, \h142, \h143, \h144}

MCSameLatin == [c \in MCLatin |-> IF c % 2 = 1 THEN c + 1 ELSE c]

MCLatinNames == Words(MCLatin, 2)
=============================================================================
