CONSTANTS
    Agent = {codex, claude}
    Skill = {s1, s2}
    Header = Header
    Own = {claude}
    Platforms = {TRUE, FALSE}

SYMMETRY Symmetry

SPECIFICATION Spec

INVARIANT TypeOK
INVARIANT UnforcedKeepsCopies
INVARIANT DoneMeansDone
INVARIANT LinksIgnored
INVARIANT NoFalseRefusal
