CONSTANTS
    N = 7
    Weights = {1, 5}
    Validator <- MCValidator
    StakeSets <- MCStakeSets
    Rules = {"prior", "capped", "stake"}
    Weighted = {TRUE, FALSE}
SPECIFICATION QuorumSpec
INVARIANTS CertificateAgrees WeightQuorumsMeet CountQuorumsMeet CappedIsLive SkipBlocksQuorum
CHECK_DEADLOCK FALSE
