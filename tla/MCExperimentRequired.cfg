\* One template, a required analysis and another one: no failure at all
SPECIFICATION FairSpec
CONSTANTS
    A = a
    Template = {t1}
    Serviced = {}
    Analysis = {a, b}
    Replicas = 1
    Settings <- Required
    MaxRuns = 1
    MaxFaults = 0
    MaxPodFailures = 0
    MaxStale = 0
PROPERTY RequiredConcludes
