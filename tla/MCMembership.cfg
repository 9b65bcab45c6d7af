SPECIFICATION MembershipSpec
CONSTANTS
    Servers = {s1, s2, s3}
    NoServer = NoServer
    Callers = {c1, c2}
    MaxVoters = 2
    MaxReAdds = 1
    MaxFaults = 1
CONSTRAINT Overlap
SYMMETRY Symmetry
INVARIANTS
    VoterBound
    NoSilentLoss
