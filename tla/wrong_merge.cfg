SPECIFICATION ConsoleSpec
CONSTANTS
    c1 = c1  c2 = c2  c3 = c3
    Cards = {c1, c2, c3}
    Known = {c1, c2, c3}
    NameOf <- TwoNames
    Labels = {l1}
    Actions = {a1, a2}
    Nobody = Nobody
INVARIANT MergersAreNamesakes
