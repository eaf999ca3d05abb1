\* Two clients and two characters: an entry to save and one to lose, from two
\* copies that can differ.
SPECIFICATION StoreSpec
CONSTANTS
    Clients = {c1, c2}
    Characters <- MCCharacters
    Values = {v, w}
SYMMETRY Symmetry

    
PROPERTY
    CutLosesOnly
