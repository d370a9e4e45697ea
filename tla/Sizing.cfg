SPECIFICATION Spec
CONSTANTS
    Windows = 2
    Loads <- MCLoads
    Ready = {1, 2}
    PodCpu = {60, 130}
    SLA_MS = 200
    Targets = {20, 300}
    Safety = 120
    NoAdvice = NoAdvice
INVARIANTS
    SizedByEvidence
    AdviceFollowsReport
    HpaKeepsSizing
