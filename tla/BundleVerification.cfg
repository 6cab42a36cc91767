\* All small evidence graphs, histories of up to four force-authorisation
\* events, and one damage to the sealed directory.
SPECIFICATION Spec
CONSTANTS
    RecursionLimit = 2
    Scenarios = {s1, s2}
    Ids = {1, 2}
    RelatedIds = {2}
    Claims = {c1, c2}
    MaxEvents = 4
    Dags <- MCDags
    PlainDag <- MCPlainDag
    Refs <- MCRefs
    NoRef = 0
INVARIANTS DagVerdict HonestVerdict AcceptedEvidenceIsSound AcceptedIsIntact
