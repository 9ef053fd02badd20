SPECIFICATION ProcessSpec
CONSTANTS
    c0 = c0
    c1 = c1
    Creds <- MCCreds
    FirstActive = c0
    Unborn <- MCUnborn
    Requests = {w1, w2}
    Resolvers = {t1}
    NoCred = NoCred
    Env = Env
    Echo = Echo
    MaxRevision = 2
    MaxConfig = 1
    p1 = p1
    p2 = p2
    p3 = p3
    r1 = r1
    r2 = r2
    Proposals <- MCProposals
    Revisions <- MCRevisions
    RevisionOf <- MCRevisionOf
    NeedsReview <- MCNeedsReview
    RepairWorkers = {v1, v2}
    Reviewers = {reviewer}
    None = None
    Verdicts <- MCVerdicts
SYMMETRY Symmetry
INVARIANTS
    FreshUnlessOverlapped
    OneActive
    NothingUnreviewed
    BundlesAreBacked
CHECK_DEADLOCK FALSE
