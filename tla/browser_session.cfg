SPECIFICATION FairSpec
CONSTANTS
    t1 = t1
    t2 = t2
    Tokens = {t1, t2}
    None = None
    Things = {"workspace", "invite1", "invite2", "project", "page"}
    Production = TRUE
INVARIANT AcknowledgedMeansStored
INVARIANT HealthySessionsSeeTheBackend
INVARIANT WizardNeverRepeatsItself
PROPERTY ComesToRest
